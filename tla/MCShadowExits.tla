---------------------------- MODULE MCShadowExits ----------------------------
(* An instance of ShadowExits for TLC.  One step is half an ATR; the       *)
(* multiples are the defaults of config.go.                                *)
EXTENDS ShadowExits

\* A buy at 10 with an ATR of 2, and one with the same levels that is older than
\* the column entry_atr.
OneOfEach == {<<10, 1, TRUE>>, <<10, 1, FALSE>>}
=============================================================================
