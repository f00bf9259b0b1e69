-------------------------- MODULE TradeLifecycleInv --------------------------
(***************************************************************************)
(* Why the slots add up: who may write which row.  A row belongs to one    *)
(* worker from its insertion until its order id is stored, and to the      *)
(* consumer of trade updates from then on; both write it only as long as   *)
(* it still is what they last saw.                                         *)
(***************************************************************************)
EXTENDS TradeLifecycle

PendingRow(i, side) == /\ IsRow(i) /\ trades[i].side = side
                       /\ trades[i].status = "pending" /\ ~trades[i].linked

\* The identifiers worker w works on.
Owned(w) == pend[w] \cup ({mine[w]} \ {Null})

BuyLabels  == {"buyCheck", "buyCommit", "placeBuy", "buyLink", "buyCancel"}
SellLabels == {"sellLink", "sellClean"}

\* Where a worker is says what its identifiers stand for.
SnapOK(w)   == \A b \in snap[w] : IsBuy(b)
PendOK(w)   == /\ \A i \in pend[w] : PendingRow(i, "sell")
               /\ pc[w] \notin SellLabels \cup {"exits"} => pend[w] = {}
SellOK(w)   == pc[w] \in SellLabels =>
                 /\ mine[w] \in Ids \ pend[w] /\ PendingRow(mine[w], "sell")
BuyOK(w)    == /\ pc[w] \in {"budget", "buyCheck", "buyCommit"} =>
                    /\ mine[w] \in Ids
                    /\ trades[mine[w]] = Null /\ signals[mine[w]] # "none"
               /\ pc[w] \in {"placeBuy", "buyLink", "buyCancel"} =>
                    /\ mine[w] \in Ids /\ PendingRow(mine[w], "buy")
                    /\ trades[mine[w]].transfer = budget[w]
LocalOK(w)  == /\ pc[w] \in {"idle", "exitCommit", "exits"} => mine[w] = Null
               /\ pc[w] \in BuyLabels => budget[w] \in Transfers
               /\ pc[w] # "idle" => sym[w] \in Symbols
WorkerOK(w) == SnapOK(w) /\ PendOK(w) /\ SellOK(w) /\ BuyOK(w) /\ LocalOK(w)

Disjoint == \A v, w \in Workers : v # w => Owned(v) \cap Owned(w) = {}

\* The row the consumer is about to overwrite is the row it read.
CurOK == cur # Null => /\ trades[cur.id] = cur.row
                       /\ cur.row.linked /\ cur.row.status \notin Terminal

\* No two writers of the live path write the same row: an identifier belongs to
\* one worker, a
\* worker only writes rows without an order id and the consumer only rows with
\* one, so neither overwrites what the other has stored although both write
\* whole rows (tradeRepository.Update) outside a common transaction.  (The
\* shadow path, which also rewrites rows to move peak_price, is not part of this
\* model.)
RowsOwned == /\ \A w \in Workers : WorkerOK(w)
             /\ Disjoint
             /\ CurOK

IInv == TypeOK /\ RowsOwned

-----------------------------------------------------------------------------
(* Why the rows account for the orders: an order is placed once, for a row *)
(* that is still its worker's, and the consumer only writes a status that  *)
(* an event of the order was sent for.                                     *)

\* What a status says of the order is so.
StatusTrue(i, status) ==
    /\ status = "filled" => "fill" \in orders[i].events
    /\ status \in {"rejected", "cancelled"} =>
          ~Working(i) /\ "fill" \notin orders[i].events

\* A row with an order id has that order and says the truth about it; this
\* holds even when replies of PlaceOrder are lost.
LinkedTrue(i) == IsRow(i) /\ trades[i].linked =>
                   orders[i] # Null /\ StatusTrue(i, trades[i].status)
SameTrade(i)  == IsRow(i) /\ orders[i] # Null =>
                   /\ trades[i].symbol = orders[i].symbol
                   /\ trades[i].side = orders[i].side
OneEnd(i)     == orders[i] # Null /\ "fill" \in orders[i].events =>
                   orders[i].events \cap EndEvents = {}
\* Without lost replies every order has a row, pending until it has the id.
NoGhost(i)    == "lostReply" \notin Faults /\ orders[i] # Null =>
                   IsRow(i) /\ (~trades[i].linked => trades[i].status = "pending")
RowAudit(i)   == LinkedTrue(i) /\ SameTrade(i) /\ OneEnd(i) /\ NoGhost(i)

\* Where a worker is says whether the order of its identifier is placed.
Unplaced == {"budget", "buyCheck", "buyCommit", "placeBuy"} \cup
               (IF "lostReply" \in Faults THEN {} ELSE {"sellClean", "buyCancel"})
PlacedOK(w) == /\ \A i \in pend[w] : orders[i] = Null
               /\ pc[w] \in Unplaced => orders[mine[w]] = Null
               /\ pc[w] \in {"sellLink", "buyLink"} => orders[mine[w]] # Null

UpdatesSent == \A k \in DOMAIN updates :
                 /\ orders[updates[k].order] # Null
                 /\ updates[k].event \in orders[updates[k].order].events
CurTrue     == cur # Null => StatusTrue(cur.id, cur.status)

Audit == /\ \A i \in Ids : RowAudit(i)
         /\ \A w \in Workers : PlacedOK(w)
         /\ UpdatesSent /\ CurTrue

-----------------------------------------------------------------------------
(* When there is one position per symbol.  Nothing but two workers on one  *)
(* symbol breaks the rule: a worker alone on its symbol makes no buy while *)
(* a sell of its own that it may still delete hides another one.           *)

OneWorkerPerSymbol ==
    \A v, w \in Workers : v # w /\ pc[v] # "idle" /\ pc[w] # "idle" => sym[v] # sym[w]

\* The sells a worker may still delete.
Selling(w)   == pend[w] \cup (IF pc[w] \in SellLabels THEN {mine[w]} ELSE {})
Deletable(i) == \E w \in Workers : i \in Selling(w)

\* Buys that are open, or would be without those sells.
OpenBut(b) == /\ IsBuy(b) /\ trades[b].status \in Holding
              /\ \A i \in Ids : IsSell(i) /\ trades[i].parent = b => Deletable(i)

OneOpenBut  == \A a, b \in Ids :
                 OpenBut(a) /\ OpenBut(b) /\ trades[a].symbol = trades[b].symbol => a = b
BuysChecked == \A w \in Workers : pc[w] = "buyCommit" => ~HasOpenPosition(sym[w])
SellsMatch  == \A i \in Ids : IsSell(i) =>
                 /\ trades[i].parent \in Ids /\ IsBuy(trades[i].parent)
                 /\ trades[trades[i].parent].symbol = trades[i].symbol
OnSymbol(w) == \A i \in snap[w] \cup Selling(w) : trades[i].symbol = sym[w]

Positions == /\ OneOpenBut /\ BuysChecked /\ SellsMatch
             /\ \A w \in Workers : OnSymbol(w)

\* A sell row hides its buy from the exit query and from HasOpenPosition.  As
\* long as statements succeed and the process lives, it does so only with an
\* order at the broker or while its worker has yet to place or to delete it: a
\* refused sell never stays in the way of the next one (EvaluateAndExecuteExits,
\* "so the next evaluation cycle can retry").
SellsPlaced == \A i \in Ids : IsSell(i) => Deletable(i) \/ orders[i] # Null
=============================================================================
