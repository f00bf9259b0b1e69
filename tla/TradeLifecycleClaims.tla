------------------------ MODULE TradeLifecycleClaims ------------------------
(***************************************************************************)
(* What comments and documents of the repository say about the life of a   *)
(* trade and the code does not keep.  Each is refuted by a run of its own. *)
(***************************************************************************)
EXTENDS TradeLifecycle

HasFilled(i) == orders[i] # Null /\ "fill" \in orders[i].events

Quiet == updates = <<>> /\ cur = Null /\ \A w \in Workers : pc[w] = "idle"

\* README: the trade update stream "reconciles fill prices, quantities, and
\* fees back into trade records as events arrive".  Once every goroutine is
\* idle and the channel is empty, the row of a filled order says filled.
\* The event of an order that fills before its id is stored is skipped.
FillsRecorded ==
    Quiet => \A i \in Ids : HasFilled(i) => trades[i].status = "filled"

\* getOpenBuyTradesBySymbolQuery includes open trades "so that stop-loss and
\* take-profit levels are enforced as soon as shares are held".  A buy that
\* holds shares and has no sell is one of the rows the query returns once its
\* events are applied.  A buy cancelled after a partial fill is not.
HeldSharesWatched ==
    \A b \in Ids :
      (/\ IsBuy(b) /\ orders[b] # Null /\ Lots(b) > 0
       /\ trades[b].status # "pending" /\ ~HasSell(b))
      => b \in OpenBuyTrades(trades[b].symbol)
=============================================================================
