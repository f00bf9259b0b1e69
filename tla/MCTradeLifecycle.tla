-------------------------- MODULE MCTradeLifecycle --------------------------
(* Instances of TradeLifecycle for TLC.                                    *)
EXTENDS TradeLifecycleClaims, TradeLifecycleInv, TLC

\* Two slots in every transfer.
TwoSlots  == [t \in Transfers |-> 2]

Symmetry == Permutations(Workers) \cup Permutations(Ids) \cup Permutations(Symbols)
=============================================================================
