------------------------- MODULE MCStreamSupervisor -------------------------
(* Instances of StreamSupervisor for TLC.                                  *)
EXTENDS StreamSupervisor, TLC

Symmetry == Permutations(Symbols) \cup Permutations(Clients)
=============================================================================
