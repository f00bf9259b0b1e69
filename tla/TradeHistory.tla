---------------------------- MODULE TradeHistory ----------------------------
(***************************************************************************)
(* TradeLifecycle with one bit of history: whether two workers have ever   *)
(* evaluated bars of one symbol at the same time.  Five workers take bars  *)
(* off one channel, and nothing keeps two of them from it.                 *)
(***************************************************************************)
EXTENDS TradeLifecycleInv

VARIABLE met    \* whether two workers have met on a symbol

HInit == Init /\ met = FALSE
HNext == Next /\ met' = (met \/ ~OneWorkerPerSymbol')
HSpec == HInit /\ [][HNext]_<<vars, met>>

\* Without a lock, HasOpenPosition and the second check in ExecuteBuyTrade keep
\* the one-position rule against everything but a meeting of two workers: not
\* one worker's sell that hides its buy and is deleted again, nor another's bar
\* soon after, nor a failed statement, a late event or a crash makes a second
\* active buy of a symbol.
OnePositionUnlessMet == ~met => OnePositionPerSymbol

=============================================================================
