--------------------------- MODULE MCTradeHistory ---------------------------
(* An instance of TradeHistory for TLC.                                    *)
EXTENDS TradeHistory, TLC

\* One slot in every transfer.
OneSlot   == [t \in Transfers |-> 1]

Symmetry == Permutations(Workers) \cup Permutations(Ids) \cup Permutations(Symbols)
=============================================================================
