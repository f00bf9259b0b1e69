------------------------ MODULE TradeLifecycleProofs ------------------------
(***************************************************************************)
(* The invariant IInv of TradeLifecycleInv and, from it, the conservation  *)
(* of slots, for any number of workers, symbols, transfers and faults.     *)
(***************************************************************************)
EXTENDS TradeLifecycleInv, FiniteSetTheorems, SequenceTheorems, TLAPS

-----------------------------------------------------------------------------
(* Facts about the data.                                                   *)

\* Null is none of the values it is told apart from.
LEMMA NullFacts ==
    /\ Null \notin Ids /\ Null \notin Transfers /\ Null \notin Symbols
    /\ Null \notin Row /\ Null \notin Order /\ Null \notin Copy
BY NullAssumption

\* A row that is there has the fields of a row.
LEMMA RowType ==
    ASSUME TypeOK, NEW i \in Ids, IsRow(i)
    PROVE  trades[i] \in Row
BY DEF TypeOK, IsRow

\* Events are mapped to a status, or ignored.
LEMMA MapType ==
    ASSUME NEW e, MapAlpacaEventToStatus(e) # Null
    PROVE  MapAlpacaEventToStatus(e) \in Statuses
BY DEF MapAlpacaEventToStatus, Statuses, AckEvents, EndEvents

\* Identifiers nothing refers to belong to no worker.
LEMMA FreshNotOwned ==
    ASSUME IInv, NEW w \in Workers, NEW i \in FreshIds
    PROVE  i \notin Owned(w)
<1>1. i \in Ids /\ trades[i] = Null /\ signals[i] = "none"
  BY DEF FreshIds
<1>2. i \notin pend[w]
  BY <1>1 DEF IInv, RowsOwned, WorkerOK, PendOK, PendingRow, IsRow
<1>3. CASE mine[w] # i
  BY <1>2, <1>3 DEF Owned
<1>4. CASE mine[w] = i
  <2>1. pc[w] \in Labels /\ i # Null
    BY <1>1, NullFacts DEF IInv, TypeOK
  <2>2. pc[w] \notin {"idle", "exitCommit", "exits"}
    BY <1>4, <2>1 DEF IInv, RowsOwned, WorkerOK, LocalOK
  <2>3. pc[w] \notin SellLabels
    BY <1>1, <1>4 DEF IInv, RowsOwned, WorkerOK, SellOK, PendingRow, IsRow
  <2>4. pc[w] \notin {"budget", "buyCheck", "buyCommit"}
    BY <1>1, <1>4 DEF IInv, RowsOwned, WorkerOK, BuyOK
  <2>5. pc[w] \notin {"placeBuy", "buyLink", "buyCancel"}
    BY <1>1, <1>4 DEF IInv, RowsOwned, WorkerOK, BuyOK, PendingRow, IsRow
  <2>6. QED
    BY <2>1, <2>2, <2>3, <2>4, <2>5 DEF Labels, SellLabels
<1>5. QED
  BY <1>3, <1>4

\* The row the consumer holds belongs to no worker.
LEMMA CurNotOwned ==
    ASSUME IInv, NEW w \in Workers, cur # Null
    PROVE  /\ cur.id \in Ids /\ IsRow(cur.id) /\ trades[cur.id].linked
           /\ cur.id \notin Owned(w) /\ cur.id \notin FreshIds
<1>1. /\ cur \in Copy /\ cur.id \in Ids /\ cur.row \in Row
      /\ trades[cur.id] = cur.row /\ cur.row.linked
  BY DEF IInv, TypeOK, RowsOwned, CurOK, Copy
<1>2. trades[cur.id] # Null
  BY <1>1, NullFacts
<1>3. cur.id \notin pend[w]
  BY <1>1 DEF IInv, RowsOwned, WorkerOK, PendOK, PendingRow
<1>4. CASE mine[w] = cur.id
  <2>1. pc[w] \in Labels /\ cur.id # Null
    BY <1>1, NullFacts DEF IInv, TypeOK
  <2>2. pc[w] \notin {"idle", "exitCommit", "exits"}
    BY <1>4, <2>1 DEF IInv, RowsOwned, WorkerOK, LocalOK
  <2>3. pc[w] \notin SellLabels
    BY <1>1, <1>4 DEF IInv, RowsOwned, WorkerOK, SellOK, PendingRow
  <2>4. pc[w] \notin {"budget", "buyCheck", "buyCommit"}
    BY <1>2, <1>4 DEF IInv, RowsOwned, WorkerOK, BuyOK
  <2>5. pc[w] \notin {"placeBuy", "buyLink", "buyCancel"}
    BY <1>1, <1>4 DEF IInv, RowsOwned, WorkerOK, BuyOK, PendingRow
  <2>6. QED
    BY <2>1, <2>2, <2>3, <2>4, <2>5 DEF Labels, SellLabels
<1>5. QED
  BY <1>1, <1>2, <1>3, <1>4 DEF Owned, FreshIds, IsRow

-----------------------------------------------------------------------------
(* Steps of one worker.                                                    *)

\* Every worker but w keeps its locals.
OthersStay(w) ==
    \A v \in Workers \ {w} :
      /\ pc'[v] = pc[v] /\ sym'[v] = sym[v] /\ snap'[v] = snap[v]
      /\ pend'[v] = pend[v] /\ mine'[v] = mine[v] /\ budget'[v] = budget[v]

\* Rows and signals that are neither w's nor new are left alone; no buy row
\* disappears.
OwnRowsOnly(w) ==
    /\ \A i \in Ids \ (Owned(w) \cup FreshIds) :
         trades'[i] = trades[i] /\ signals'[i] = signals[i]
    /\ \A i \in Ids : IsBuy(i) => IsBuy(i)'

\* A worker that only writes its own and new rows disturbs neither the other
\* workers nor the consumer.
LEMMA WorkerStep ==
    ASSUME IInv, NEW w \in Workers, TypeOK', WorkerOK(w)',
           OthersStay(w), OwnRowsOnly(w),
           Owned(w)' \subseteq Owned(w) \cup FreshIds, cur' = cur
    PROVE  IInv'
<1>1. ASSUME NEW v \in Workers, v # w
      PROVE  Owned(v)' = Owned(v) /\ Owned(v) \cap (Owned(w) \cup FreshIds) = {}
  <2>1. Owned(v)' = Owned(v)
    BY <1>1 DEF OthersStay, Owned
  <2>2. Owned(v) \cap Owned(w) = {}
    BY <1>1 DEF IInv, RowsOwned, Disjoint
  <2>3. QED
    BY <2>1, <2>2, FreshNotOwned
<1>2. ASSUME NEW v \in Workers, v # w PROVE WorkerOK(v)'
  <2>1. /\ pc'[v] = pc[v] /\ sym'[v] = sym[v] /\ snap'[v] = snap[v]
        /\ pend'[v] = pend[v] /\ mine'[v] = mine[v] /\ budget'[v] = budget[v]
    BY <1>2 DEF OthersStay
  <2>2. /\ pc[v] \in Labels /\ snap[v] \subseteq Ids /\ pend[v] \subseteq Ids
        /\ WorkerOK(v)
    BY DEF IInv, TypeOK, RowsOwned
  <2>3. ASSUME NEW i \in Owned(v), i \in Ids
        PROVE  trades'[i] = trades[i] /\ signals'[i] = signals[i]
    BY <1>1, <1>2, <2>3 DEF OwnRowsOnly
  <2>4. \A i \in pend[v] : i \in Owned(v)
    BY DEF Owned
  <2>5. mine[v] \in Ids => mine[v] \in Owned(v)
    BY NullFacts DEF Owned
  <2>6. SnapOK(v)'
    BY <2>1, <2>2 DEF WorkerOK, SnapOK, OwnRowsOnly
  <2>7. PendOK(v)'
    BY <2>1, <2>2, <2>3, <2>4 DEF WorkerOK, PendOK, PendingRow, IsRow
  <2>8. SellOK(v)'
    BY <2>1, <2>2, <2>3, <2>5 DEF WorkerOK, SellOK, PendingRow, IsRow
  <2>9. BuyOK(v)'
    BY <2>1, <2>2, <2>3, <2>5 DEF WorkerOK, BuyOK, PendingRow, IsRow
  <2>10. LocalOK(v)'
    BY <2>1, <2>2 DEF WorkerOK, LocalOK
  <2>11. QED
    BY <2>6, <2>7, <2>8, <2>9, <2>10 DEF WorkerOK
<1>3. Disjoint'
  <2>1. SUFFICES ASSUME NEW u \in Workers, NEW v \in Workers, u # v
                 PROVE  Owned(u)' \cap Owned(v)' = {}
    BY DEF Disjoint
  <2>2. CASE u = w
    BY <1>1, <2>1, <2>2
  <2>3. CASE v = w
    BY <1>1, <2>1, <2>3
  <2>4. CASE u # w /\ v # w
    BY <1>1, <2>1, <2>4 DEF IInv, RowsOwned, Disjoint
  <2>5. QED
    BY <2>2, <2>3, <2>4
<1>4. CurOK'
  <2>1. CASE cur = Null
    BY <2>1 DEF CurOK
  <2>2. CASE cur # Null
    <3>1. trades'[cur.id] = trades[cur.id]
      BY <2>2, CurNotOwned DEF OwnRowsOnly
    <3>2. QED
      BY <3>1 DEF IInv, RowsOwned, CurOK
  <2>3. QED
    BY <2>1, <2>2
<1>5. QED
  BY <1>2, <1>3, <1>4 DEF IInv, RowsOwned

-----------------------------------------------------------------------------
(* The actions of a worker preserve IInv.                                  *)

\* A worker that returns from EvaluateBar leaves nothing behind.
LEMMA ReturnFacts ==
    ASSUME TypeOK, NEW w \in Workers, Return(w)
    PROVE  /\ OthersStay(w) /\ Owned(w)' = {} /\ WorkerOK(w)'
           /\ pc' \in [Workers -> Labels]
           /\ sym' \in [Workers -> Symbols \cup {Null}]
           /\ snap' \in [Workers -> SUBSET Ids]
           /\ pend' \in [Workers -> SUBSET Ids]
           /\ mine' \in [Workers -> Ids \cup {Null}]
           /\ budget' \in [Workers -> Transfers \cup {Null}]
<1>1. /\ pc'[w] = "idle" /\ sym'[w] = Null /\ snap'[w] = {} /\ pend'[w] = {}
      /\ mine'[w] = Null /\ budget'[w] = Null
  BY DEF Return, Goto, TypeOK
<1>2. OthersStay(w)
  BY DEF Return, Goto, TypeOK, OthersStay
<1>3. Owned(w)' = {}
  BY <1>1 DEF Owned
<1>4. WorkerOK(w)'
  BY <1>1 DEF WorkerOK, SnapOK, PendOK, SellOK, BuyOK, LocalOK, SellLabels, BuyLabels
<1>5. QED
  BY <1>2, <1>3, <1>4 DEF Return, Goto, TypeOK, Labels

\* The buys a query returns are buy rows.
LEMMA OpenBuysAreBuys ==
    ASSUME NEW s
    PROVE  OpenBuyTrades(s) \subseteq Ids /\ \A b \in OpenBuyTrades(s) : IsBuy(b)
BY DEF OpenBuyTrades, ActiveBuys, OpenPosition

LEMMA ExitSelectInv ==
    ASSUME IInv, NEW w \in Workers, ExitSelect(w)
    PROVE  IInv'
<1>1. PICK s \in Symbols : /\ sym'  = [sym EXCEPT ![w] = s]
                           /\ snap' = [snap EXCEPT ![w] = OpenBuyTrades(s)]
  BY DEF ExitSelect
<1>2. /\ pc[w] = "idle" /\ pc' = [pc EXCEPT ![w] = "exitCommit"]
      /\ UNCHANGED <<trades, signals, remaining, orders, updates, cur, pend, mine, budget>>
  BY DEF ExitSelect, Goto, db, stream
<1>3. TypeOK'
  BY <1>1, <1>2, OpenBuysAreBuys DEF IInv, TypeOK, Labels
<1>4. WorkerOK(w)'
  <2>1. pc'[w] = "exitCommit" /\ sym'[w] = s /\ snap'[w] = OpenBuyTrades(s)
    BY <1>1, <1>2 DEF IInv, TypeOK
  <2>2. pend[w] = {} /\ mine[w] = Null
    BY <1>2 DEF IInv, RowsOwned, WorkerOK, PendOK, LocalOK, SellLabels
  <2>3. SnapOK(w)'
    BY <1>2, <2>1, OpenBuysAreBuys DEF SnapOK, IsBuy, IsRow
  <2>4. QED
    BY <1>2, <2>1, <2>2, <2>3
    DEF WorkerOK, PendOK, SellOK, BuyOK, LocalOK, SellLabels, BuyLabels
<1>5. OthersStay(w) /\ OwnRowsOnly(w) /\ Owned(w)' = Owned(w)
  BY <1>1, <1>2 DEF IInv, TypeOK, OthersStay, OwnRowsOnly, Owned, IsBuy, IsRow
<1>6. QED
  BY <1>2, <1>3, <1>4, <1>5, WorkerStep

\* A step that only returns from EvaluateBar.
LEMMA ReturnInv ==
    ASSUME IInv, NEW w \in Workers, Return(w),
           UNCHANGED <<trades, signals, remaining, orders, updates, cur>>
    PROVE  IInv'
<1>1. TypeOK'
  BY ReturnFacts DEF IInv, TypeOK
<1>2. OwnRowsOnly(w)
  BY DEF OwnRowsOnly, IsBuy, IsRow
<1>3. QED
  BY <1>1, <1>2, ReturnFacts, WorkerStep DEF IInv

\* What InsertSells adds: pending sell rows under new identifiers.
LEMMA InsertSellsFacts ==
    ASSUME IInv, NEW w \in Workers, NEW hit \in SUBSET StillOpen(w),
           InsertSells(w, hit), pc[w] = "exitCommit"
    PROVE  /\ trades' \in [Ids -> Row \cup {Null}]
           /\ signals' \in [Ids -> {"none", "new", "executed"}]
           /\ pend' = [pend EXCEPT ![w] = pend'[w]] /\ pend'[w] \subseteq FreshIds
           /\ \A i \in pend'[w] : /\ trades'[i] # Null /\ trades'[i].side = "sell"
                                  /\ trades'[i].status = "pending" /\ ~trades'[i].linked
           /\ \A i \in Ids \ pend'[w] : trades'[i] = trades[i] /\ signals'[i] = signals[i]
<1>1. PICK f \in Injection(hit, FreshIds) :
        LET new == {f[b] : b \in hit}
        IN  /\ trades'  = [i \in Ids |-> IF i \in new
                                         THEN NewSell(CHOOSE b \in hit : f[b] = i)
                                         ELSE trades[i]]
            /\ signals' = [i \in Ids |-> IF i \in new THEN "new" ELSE signals[i]]
            /\ pend'    = [pend EXCEPT ![w] = new]
  BY DEF InsertSells
<1> DEFINE new == {f[b] : b \in hit}
<1>2. f \in [hit -> FreshIds]
  BY DEF Injection
<1>3. new \subseteq FreshIds /\ FreshIds \subseteq Ids
  BY <1>2 DEF FreshIds
<1>4. ASSUME NEW i \in new
      PROVE  /\ NewSell(CHOOSE b \in hit : f[b] = i) \in Row
             /\ NewSell(CHOOSE b \in hit : f[b] = i).side = "sell"
             /\ NewSell(CHOOSE b \in hit : f[b] = i).status = "pending"
             /\ ~NewSell(CHOOSE b \in hit : f[b] = i).linked
  <2> DEFINE b == CHOOSE c \in hit : f[c] = i
  <2>1. b \in hit
    BY <1>4
  <2>2. b \in Ids /\ IsBuy(b)
    BY <2>1 DEF StillOpen, IInv, TypeOK, RowsOwned, WorkerOK, SnapOK
  <2>3. trades[b] \in Row
    BY <2>2, RowType DEF IInv, IsBuy
  <2>4. NewSell(b) \in Row
    BY <2>2, <2>3 DEF NewSell, Row, Statuses
  <2>5. QED
    BY <2>4 DEF NewSell
<1>5. pend'[w] = new
  BY <1>1 DEF IInv, TypeOK
<1>6. trades' \in [Ids -> Row \cup {Null}]
  <2> DEFINE sell(i) == NewSell(CHOOSE b \in hit : f[b] = i)
  <2>1. trades \in [Ids -> Row \cup {Null}]
    BY DEF IInv, TypeOK
  <2>2. \A i \in new : sell(i) \in Row
    BY <1>4
  <2>3. trades' = [i \in Ids |-> IF i \in new THEN sell(i) ELSE trades[i]]
    BY <1>1
  <2> HIDE DEF sell, new
  <2> QED
    BY <2>1, <2>2, <2>3
<1>7. signals' \in [Ids -> {"none", "new", "executed"}]
  BY <1>1 DEF IInv, TypeOK
<1>8. \A i \in new : trades'[i] = NewSell(CHOOSE b \in hit : f[b] = i)
  BY <1>1, <1>3
<1>9. pend' = [pend EXCEPT ![w] = new]
  BY <1>1
<1>10. ASSUME NEW i \in new
       PROVE  /\ trades'[i] # Null /\ trades'[i].side = "sell"
              /\ trades'[i].status = "pending" /\ ~trades'[i].linked
  BY <1>4, <1>8, NullFacts
<1>11. \A i \in Ids \ new : trades'[i] = trades[i] /\ signals'[i] = signals[i]
  BY <1>1
<1> HIDE DEF new
<1>12. QED
  BY <1>3, <1>5, <1>6, <1>7, <1>9, <1>10, <1>11

LEMMA ExitCommitInv ==
    ASSUME IInv, NEW w \in Workers, ExitCommit(w)
    PROVE  IInv'
<1>1. pc[w] = "exitCommit" /\ UNCHANGED <<orders, updates, cur>>
  BY DEF ExitCommit, stream
<1>2. CASE Return(w) /\ UNCHANGED db
  BY <1>1, <1>2, ReturnInv DEF db
<1>3. ASSUME NEW hit \in SUBSET StillOpen(w), InsertSells(w, hit), Goto(w, "exits"),
             snap' = [snap EXCEPT ![w] = {}], UNCHANGED <<remaining, sym, mine, budget>>
      PROVE  IInv'
  <2>1. pc' = [pc EXCEPT ![w] = "exits"] /\ pc'[w] = "exits" /\ snap'[w] = {}
    BY <1>3 DEF Goto, IInv, TypeOK
  <2>2. mine[w] = Null /\ sym[w] \in Symbols /\ FreshIds \subseteq Ids
    BY <1>1 DEF IInv, RowsOwned, WorkerOK, LocalOK, FreshIds
  <2>3. TypeOK'
    BY <1>1, <1>3, <2>1, <2>2, InsertSellsFacts DEF IInv, TypeOK, Labels
  <2>4. WorkerOK(w)'
    BY <1>1, <1>3, <2>1, <2>2, InsertSellsFacts
    DEF WorkerOK, SnapOK, PendOK, PendingRow, IsRow, SellOK, BuyOK, LocalOK,
        SellLabels, BuyLabels
  <2>5. OthersStay(w)
    BY <1>1, <1>3, <2>1, InsertSellsFacts DEF IInv, TypeOK, OthersStay
  <2>6. OwnRowsOnly(w)
    <3>1. \A i \in FreshIds : ~IsBuy(i)
      BY DEF FreshIds, IsBuy, IsRow
    <3>2. QED
      BY <1>1, <1>3, <3>1, InsertSellsFacts DEF OwnRowsOnly, IsBuy, IsRow
  <2>7. Owned(w)' \subseteq FreshIds
    BY <1>1, <1>3, <2>2, InsertSellsFacts DEF Owned
  <2>8. QED
    BY <1>1, <2>3, <2>4, <2>5, <2>6, <2>7, WorkerStep
<1>4. QED
  BY <1>2, <1>3 DEF ExitCommit

\* The order placed for a row is one the broker can know.
LEMMA NewOrderType ==
    ASSUME TypeOK, NEW i \in Ids, IsRow(i)
    PROVE  NewOrder(i) \in Order
<1>1. trades[i] \in Row
  BY RowType
<1>2. QED
  BY <1>1 DEF NewOrder, Order, Row

LEMMA PlaceSellInv ==
    ASSUME IInv, NEW w \in Workers, PlaceSell(w)
    PROVE  IInv'
<1>1. PICK i \in pend[w] :
        /\ mine' = [mine EXCEPT ![w] = i]
        /\ pend' = [pend EXCEPT ![w] = @ \ {i}]
        /\ \/ /\ orders' = [orders EXCEPT ![i] = NewOrder(i)]
              /\ Goto(w, "sellLink") \/ Goto(w, "sellClean")
           \/ Goto(w, "sellClean") /\ UNCHANGED orders
  BY DEF PlaceSell
<1>2. pc[w] = "exits" /\ UNCHANGED <<trades, signals, remaining, updates, cur, sym, snap, budget>>
  BY DEF PlaceSell, db, stream
<1>3. i \in Ids /\ PendingRow(i, "sell") /\ WorkerOK(w) /\ mine[w] = Null
  BY <1>2 DEF IInv, TypeOK, RowsOwned, WorkerOK, PendOK, LocalOK
<1>4. /\ mine'[w] = i /\ pend'[w] = pend[w] \ {i}
      /\ pc' \in [Workers -> Labels] /\ pc'[w] \in SellLabels
  BY <1>1 DEF IInv, TypeOK, Goto, Labels, SellLabels
<1>5. orders' \in [Ids -> Order \cup {Null}]
  BY <1>1, <1>3, NewOrderType DEF IInv, TypeOK, PendingRow
<1>6. TypeOK'
  BY <1>1, <1>2, <1>3, <1>4, <1>5 DEF IInv, TypeOK
<1>7. WorkerOK(w)'
  BY <1>2, <1>3, <1>4
  DEF WorkerOK, SnapOK, PendOK, PendingRow, IsBuy, IsRow, SellOK, BuyOK, LocalOK,
      SellLabels, BuyLabels
<1>8. OthersStay(w) /\ OwnRowsOnly(w)
  BY <1>1, <1>2 DEF IInv, TypeOK, OthersStay, OwnRowsOnly, IsBuy, IsRow, Goto
<1>9. Owned(w)' \subseteq Owned(w)
  BY <1>4 DEF Owned
<1>10. QED
  BY <1>2, <1>6, <1>7, <1>8, <1>9, WorkerStep

\* Storing an order id keeps the rows rows and touches no other row.
LEMMA LinkRowFacts ==
    ASSUME IInv, NEW i \in Ids, IsRow(i), LinkRow(i)
    PROVE  /\ trades' \in [Ids -> Row \cup {Null}]
           /\ signals' \in [Ids -> {"none", "new", "executed"}]
           /\ \A j \in Ids \ {i} : trades'[j] = trades[j] /\ signals'[j] = signals[j]
           /\ trades'[i] \in Row /\ trades'[i].side = trades[i].side
           /\ trades'[i].transfer = trades[i].transfer
           /\ trades'[i].status \in {"pending", trades[i].status}
<1>1. trades[i] \in Row
  BY RowType DEF IInv
<1>2. /\ trades' = [trades EXCEPT ![i].linked = TRUE, ![i].status = "pending"]
         \/ trades' = trades
      /\ signals' = [signals EXCEPT ![i] = "executed"] \/ signals' = signals
  BY DEF LinkRow, MarkExecuted
<1>3. [trades[i] EXCEPT !.linked = TRUE, !.status = "pending"] \in Row
  BY <1>1 DEF Row, Statuses
<1>4. CASE trades' = [trades EXCEPT ![i].linked = TRUE, ![i].status = "pending"]
  <2>1. trades'[i] = [trades[i] EXCEPT !.linked = TRUE, !.status = "pending"]
    BY <1>4 DEF IInv, TypeOK
  <2>2. \A j \in Ids \ {i} : trades'[j] = trades[j]
    BY <1>4 DEF IInv, TypeOK
  <2>3. trades' \in [Ids -> Row \cup {Null}]
    BY <1>3, <1>4, <2>1, <2>2 DEF IInv, TypeOK
  <2>4. /\ trades'[i].side = trades[i].side /\ trades'[i].status = "pending"
        /\ trades'[i].transfer = trades[i].transfer
    BY <1>1, <2>1 DEF Row
  <2>5. QED
    BY <1>2, <1>3, <2>1, <2>2, <2>3, <2>4 DEF IInv, TypeOK
<1>5. CASE trades' = trades
  BY <1>1, <1>2, <1>5 DEF IInv, TypeOK
<1>6. QED
  BY <1>2, <1>4, <1>5

LEMMA SellLinkInv ==
    ASSUME IInv, NEW w \in Workers, SellLink(w)
    PROVE  IInv'
<1>1. /\ pc[w] = "sellLink" /\ LinkRow(mine[w])
      /\ mine' = [mine EXCEPT ![w] = Null] /\ pc' = [pc EXCEPT ![w] = "exits"]
      /\ UNCHANGED <<remaining, orders, updates, cur, sym, snap, pend, budget>>
  BY DEF SellLink, stream, Goto
<1>2. /\ mine[w] \in Ids \ pend[w] /\ PendingRow(mine[w], "sell") /\ WorkerOK(w)
      /\ mine[w] # Null /\ mine[w] \in Owned(w)
  BY <1>1, NullFacts DEF IInv, RowsOwned, WorkerOK, SellOK, SellLabels, Owned
<1>3. /\ trades' \in [Ids -> Row \cup {Null}]
      /\ signals' \in [Ids -> {"none", "new", "executed"}]
      /\ \A j \in Ids \ {mine[w]} : trades'[j] = trades[j] /\ signals'[j] = signals[j]
  BY <1>1, <1>2, LinkRowFacts DEF PendingRow
<1>4. mine'[w] = Null /\ pc'[w] = "exits" /\ sym[w] \in Symbols
  BY <1>1, <1>2 DEF IInv, TypeOK, WorkerOK, LocalOK
<1>5. TypeOK'
  BY <1>1, <1>3 DEF IInv, TypeOK, Labels
<1>6. \A j \in Ids : IsBuy(j) => IsBuy(j)' /\ j # mine[w]
  BY <1>2, <1>3 DEF IsBuy, IsRow, PendingRow
<1>7. WorkerOK(w)'
  <2>1. SnapOK(w)'
    BY <1>1, <1>2, <1>6 DEF IInv, TypeOK, WorkerOK, SnapOK
  <2>2. PendOK(w)'
    BY <1>1, <1>2, <1>3, <1>4 DEF IInv, TypeOK, WorkerOK, PendOK, PendingRow, IsRow
  <2>3. QED
    BY <1>1, <1>4, <2>1, <2>2
    DEF WorkerOK, SellOK, BuyOK, LocalOK, SellLabels, BuyLabels
<1>8. OthersStay(w) /\ OwnRowsOnly(w)
  BY <1>1, <1>2, <1>3, <1>6 DEF IInv, TypeOK, OthersStay, OwnRowsOnly
<1>9. Owned(w)' \subseteq Owned(w)
  BY <1>1, <1>4 DEF Owned
<1>10. QED
  BY <1>1, <1>5, <1>7, <1>8, <1>9, WorkerStep

LEMMA SellCleanInv ==
    ASSUME IInv, NEW w \in Workers, SellClean(w)
    PROVE  IInv'
<1>1. /\ pc[w] = "sellClean"
      /\ mine' = [mine EXCEPT ![w] = Null] /\ pc' = [pc EXCEPT ![w] = "exits"]
      /\ UNCHANGED <<remaining, orders, updates, cur, sym, snap, pend, budget>>
      /\ trades' = [trades EXCEPT ![mine[w]] = Null] \/ trades' = trades
      /\ signals' = [signals EXCEPT ![mine[w]] = "none"] \/ signals' = signals
  BY DEF SellClean, stream, Goto
<1>2. /\ mine[w] \in Ids \ pend[w] /\ PendingRow(mine[w], "sell") /\ WorkerOK(w)
      /\ mine[w] # Null /\ mine[w] \in Owned(w)
  BY <1>1, NullFacts DEF IInv, RowsOwned, WorkerOK, SellOK, SellLabels, Owned
<1>3. /\ trades' \in [Ids -> Row \cup {Null}]
      /\ signals' \in [Ids -> {"none", "new", "executed"}]
      /\ \A j \in Ids \ {mine[w]} : trades'[j] = trades[j] /\ signals'[j] = signals[j]
  <2>1. /\ trades \in [Ids -> Row \cup {Null}]
        /\ signals \in [Ids -> {"none", "new", "executed"}] /\ mine[w] \in Ids
    BY <1>2 DEF IInv, TypeOK
  <2>2. QED
    BY <1>1, <2>1
<1>4. mine'[w] = Null /\ pc'[w] = "exits" /\ sym[w] \in Symbols
  BY <1>1, <1>2 DEF IInv, TypeOK, WorkerOK, LocalOK
<1>5. TypeOK'
  BY <1>1, <1>3 DEF IInv, TypeOK, Labels
<1>6. \A j \in Ids : IsBuy(j) => IsBuy(j)' /\ j # mine[w]
  BY <1>2, <1>3 DEF IsBuy, IsRow, PendingRow
<1>7. WorkerOK(w)'
  <2>1. SnapOK(w)'
    BY <1>1, <1>2, <1>6 DEF IInv, TypeOK, WorkerOK, SnapOK
  <2>2. PendOK(w)'
    BY <1>1, <1>2, <1>3, <1>4 DEF IInv, TypeOK, WorkerOK, PendOK, PendingRow, IsRow
  <2>3. QED
    BY <1>1, <1>4, <2>1, <2>2
    DEF WorkerOK, SellOK, BuyOK, LocalOK, SellLabels, BuyLabels
<1>8. OthersStay(w) /\ OwnRowsOnly(w)
  BY <1>1, <1>2, <1>3, <1>6 DEF IInv, TypeOK, OthersStay, OwnRowsOnly
<1>9. Owned(w)' \subseteq Owned(w)
  BY <1>1, <1>4 DEF Owned
<1>10. QED
  BY <1>1, <1>5, <1>7, <1>8, <1>9, WorkerStep

LEMMA EvaluateBuySignalInv ==
    ASSUME IInv, NEW w \in Workers, EvaluateBuySignal(w)
    PROVE  IInv'
<1>1. /\ pc[w] = "exits" /\ pend[w] = {}
      /\ UNCHANGED <<trades, remaining, orders, updates, cur>>
  BY DEF EvaluateBuySignal, stream
<1>2. CASE Return(w) /\ UNCHANGED signals
  BY <1>1, <1>2, ReturnInv
<1>3. ASSUME NEW i \in FreshIds, signals' = [signals EXCEPT ![i] = "new"],
             mine' = [mine EXCEPT ![w] = i], Goto(w, "budget"),
             UNCHANGED <<sym, snap, pend, budget>>
      PROVE  IInv'
  <2>1. i \in Ids /\ trades[i] = Null /\ i # Null
    BY NullFacts DEF FreshIds
  <2>2. pc' = [pc EXCEPT ![w] = "budget"] /\ pc'[w] = "budget" /\ mine'[w] = i
        /\ signals'[i] = "new" /\ sym[w] \in Symbols /\ WorkerOK(w)
    BY <1>1, <1>3, <2>1 DEF Goto, IInv, TypeOK, RowsOwned, WorkerOK, LocalOK
  <2>3. TypeOK'
    BY <1>1, <1>3, <2>1, <2>2 DEF IInv, TypeOK, Labels
  <2>4. WorkerOK(w)'
    BY <1>1, <1>3, <2>1, <2>2
    DEF WorkerOK, SnapOK, PendOK, PendingRow, IsBuy, IsRow, SellOK, BuyOK, LocalOK,
        SellLabels, BuyLabels
  <2>5. OthersStay(w) /\ OwnRowsOnly(w)
    BY <1>1, <1>3, <2>1, <2>2
    DEF IInv, TypeOK, OthersStay, OwnRowsOnly, IsBuy, IsRow
  <2>6. Owned(w)' \subseteq FreshIds
    BY <1>1, <1>3, <2>2 DEF Owned
  <2>7. QED
    BY <1>1, <2>3, <2>4, <2>5, <2>6, WorkerStep
<1>4. QED
  BY <1>2, <1>3 DEF EvaluateBuySignal

LEMMA GetAvailableBudgetInv ==
    ASSUME IInv, NEW w \in Workers, GetAvailableBudget(w)
    PROVE  IInv'
<1>1. pc[w] = "budget" /\ UNCHANGED <<trades, signals, remaining, orders, updates, cur>>
  BY DEF GetAvailableBudget, db, stream
<1>2. CASE Return(w)
  BY <1>1, <1>2, ReturnInv
<1>3. ASSUME NEW t \in Transfers, budget' = [budget EXCEPT ![w] = t],
             Goto(w, "buyCheck"), UNCHANGED <<sym, snap, pend, mine>>
      PROVE  IInv'
  <2>1. /\ pc' = [pc EXCEPT ![w] = "buyCheck"] /\ pc'[w] = "buyCheck"
        /\ budget'[w] = t /\ sym[w] \in Symbols /\ WorkerOK(w) /\ pend[w] = {}
    BY <1>1, <1>3
    DEF Goto, IInv, TypeOK, RowsOwned, WorkerOK, LocalOK, PendOK, SellLabels
  <2>2. TypeOK'
    BY <1>1, <1>3, <2>1 DEF IInv, TypeOK, Labels
  <2>3. WorkerOK(w)'
    BY <1>1, <1>3, <2>1
    DEF WorkerOK, SnapOK, PendOK, IsBuy, IsRow, SellOK, BuyOK, LocalOK,
        SellLabels, BuyLabels
  <2>4. OthersStay(w) /\ OwnRowsOnly(w) /\ Owned(w)' = Owned(w)
    BY <1>1, <1>3, <2>1
    DEF IInv, TypeOK, OthersStay, OwnRowsOnly, IsBuy, IsRow, Owned
  <2>5. QED
    BY <1>1, <2>2, <2>3, <2>4, WorkerStep
<1>4. QED
  BY <1>2, <1>3 DEF GetAvailableBudget

LEMMA BuyCheckInv ==
    ASSUME IInv, NEW w \in Workers, BuyCheck(w)
    PROVE  IInv'
<1>1. pc[w] = "buyCheck" /\ UNCHANGED <<trades, signals, remaining, orders, updates, cur>>
  BY DEF BuyCheck, db, stream
<1>2. CASE Return(w)
  BY <1>1, <1>2, ReturnInv
<1>3. CASE Goto(w, "buyCommit") /\ UNCHANGED <<sym, snap, pend, mine, budget>>
  <2>1. /\ pc' = [pc EXCEPT ![w] = "buyCommit"] /\ pc'[w] = "buyCommit"
        /\ WorkerOK(w) /\ pend[w] = {}
    BY <1>1, <1>3 DEF Goto, IInv, TypeOK, RowsOwned, WorkerOK, PendOK, SellLabels
  <2>2. TypeOK'
    BY <1>1, <1>3, <2>1 DEF IInv, TypeOK, Labels
  <2>3. WorkerOK(w)'
    BY <1>1, <1>3, <2>1
    DEF WorkerOK, SnapOK, PendOK, IsBuy, IsRow, SellOK, BuyOK, LocalOK,
        SellLabels, BuyLabels
  <2>4. OthersStay(w) /\ OwnRowsOnly(w) /\ Owned(w)' = Owned(w)
    BY <1>1, <1>3, <2>1
    DEF IInv, TypeOK, OthersStay, OwnRowsOnly, IsBuy, IsRow, Owned
  <2>5. QED
    BY <1>1, <2>2, <2>3, <2>4, WorkerStep
<1>4. QED
  BY <1>2, <1>3 DEF BuyCheck

LEMMA BuyCommitInv ==
    ASSUME IInv, NEW w \in Workers, BuyCommit(w)
    PROVE  IInv'
<1>1. pc[w] = "buyCommit" /\ UNCHANGED <<signals, orders, updates, cur>>
  BY DEF BuyCommit, stream
<1>2. CASE Return(w) /\ UNCHANGED <<trades, remaining>>
  BY <1>1, <1>2, ReturnInv
<1>3. CASE /\ remaining[budget[w]] > 0
           /\ trades'    = [trades EXCEPT ![mine[w]] = NewBuy(w)]
           /\ remaining' = [remaining EXCEPT ![budget[w]] = @ - 1]
           /\ Goto(w, "placeBuy") /\ UNCHANGED <<sym, snap, pend, mine, budget>>
  <2>1. /\ pc' = [pc EXCEPT ![w] = "placeBuy"] /\ pc'[w] = "placeBuy"
        /\ WorkerOK(w) /\ pend[w] = {} /\ mine[w] \in Ids /\ trades[mine[w]] = Null
        /\ budget[w] \in Transfers /\ sym[w] \in Symbols
    BY <1>1, <1>3
    DEF Goto, IInv, TypeOK, RowsOwned, WorkerOK, PendOK, BuyOK, LocalOK,
        SellLabels, BuyLabels
  <2>2. NewBuy(w) \in Row /\ trades'[mine[w]] = NewBuy(w) /\ mine[w] # Null
    BY <1>3, <2>1, NullFacts DEF NewBuy, Row, Statuses, IInv, TypeOK
  <2>3. /\ NewBuy(w).side = "buy" /\ NewBuy(w).status = "pending"
        /\ ~NewBuy(w).linked /\ NewBuy(w).transfer = budget[w] /\ NewBuy(w) # Null
    BY <2>2, NullFacts DEF NewBuy
  <2>4. remaining' \in [Transfers -> Nat]
    BY <1>3, <2>1 DEF IInv, TypeOK
  <2>5. TypeOK'
    BY <1>1, <1>3, <2>1, <2>2, <2>4 DEF IInv, TypeOK, Labels
  <2>6. \A j \in Ids : IsBuy(j) => IsBuy(j)' /\ j # mine[w]
    BY <1>3, <2>1 DEF IsBuy, IsRow, IInv, TypeOK
  <2>7. WorkerOK(w)'
    <3>1. SnapOK(w)'
      BY <1>3, <2>1, <2>6 DEF IInv, TypeOK, WorkerOK, SnapOK
    <3>2. BuyOK(w)'
      BY <1>3, <2>1, <2>2, <2>3 DEF BuyOK, PendingRow, IsRow
    <3>3. QED
      BY <1>3, <2>1, <3>1, <3>2
      DEF WorkerOK, PendOK, SellOK, LocalOK, SellLabels, BuyLabels
  <2>8. OthersStay(w) /\ OwnRowsOnly(w) /\ Owned(w)' = Owned(w)
    BY <1>1, <1>3, <2>1, <2>2, <2>6
    DEF IInv, TypeOK, OthersStay, OwnRowsOnly, Owned
  <2>9. QED
    BY <1>1, <2>5, <2>7, <2>8, WorkerStep
<1>4. QED
  BY <1>2, <1>3 DEF BuyCommit

LEMMA PlaceBuyInv ==
    ASSUME IInv, NEW w \in Workers, PlaceBuy(w)
    PROVE  IInv'
<1>1. /\ pc[w] = "placeBuy"
      /\ UNCHANGED <<trades, signals, remaining, updates, cur, sym, snap, pend, mine, budget>>
      /\ orders' = [orders EXCEPT ![mine[w]] = NewOrder(mine[w])] \/ UNCHANGED orders
      /\ Goto(w, "buyLink") \/ Goto(w, "buyCancel")
  BY DEF PlaceBuy, db, stream
<1>2. /\ pc' \in [Workers -> Labels] /\ pc'[w] \in {"buyLink", "buyCancel"}
      /\ WorkerOK(w) /\ pend[w] = {} /\ mine[w] \in Ids /\ PendingRow(mine[w], "buy")
  BY <1>1
  DEF Goto, IInv, TypeOK, RowsOwned, WorkerOK, PendOK, BuyOK, SellLabels, Labels
<1>3. orders' \in [Ids -> Order \cup {Null}]
  BY <1>1, <1>2, NewOrderType DEF IInv, TypeOK, PendingRow
<1>4. TypeOK'
  BY <1>1, <1>2, <1>3 DEF IInv, TypeOK
<1>5. WorkerOK(w)'
  BY <1>1, <1>2
  DEF WorkerOK, SnapOK, PendOK, PendingRow, IsBuy, IsRow, SellOK, BuyOK, LocalOK,
      SellLabels, BuyLabels
<1>6. OthersStay(w) /\ OwnRowsOnly(w) /\ Owned(w)' = Owned(w)
  BY <1>1 DEF IInv, TypeOK, OthersStay, OwnRowsOnly, IsBuy, IsRow, Owned, Goto
<1>7. QED
  BY <1>1, <1>4, <1>5, <1>6, WorkerStep

\* A step that writes only the worker's own buy row, and returns.
LEMMA LastWriteInv ==
    ASSUME IInv, NEW w \in Workers, Return(w), mine[w] \in Ids,
           PendingRow(mine[w], "buy"), trades' \in [Ids -> Row \cup {Null}],
           signals' \in [Ids -> {"none", "new", "executed"}],
           remaining' \in [Transfers -> Nat],
           \A j \in Ids \ {mine[w]} : trades'[j] = trades[j] /\ signals'[j] = signals[j],
           trades'[mine[w]] # Null, trades'[mine[w]].side = "buy",
           UNCHANGED <<orders, updates, cur>>
    PROVE  IInv'
<1>1. TypeOK'
  BY ReturnFacts DEF IInv, TypeOK
<1>2. mine[w] \in Owned(w)
  BY NullFacts DEF Owned
<1>3. OwnRowsOnly(w)
  BY <1>2 DEF OwnRowsOnly, IsBuy, IsRow
<1>4. QED
  BY <1>1, <1>3, ReturnFacts, WorkerStep DEF IInv

LEMMA BuyLinkInv ==
    ASSUME IInv, NEW w \in Workers, BuyLink(w)
    PROVE  IInv'
<1>1. /\ pc[w] = "buyLink" /\ LinkRow(mine[w]) /\ Return(w)
      /\ UNCHANGED <<remaining, orders, updates, cur>>
  BY DEF BuyLink, stream
<1>2. mine[w] \in Ids /\ PendingRow(mine[w], "buy")
  BY <1>1 DEF IInv, RowsOwned, WorkerOK, BuyOK
<1>3. /\ trades' \in [Ids -> Row \cup {Null}]
      /\ signals' \in [Ids -> {"none", "new", "executed"}]
      /\ \A j \in Ids \ {mine[w]} : trades'[j] = trades[j] /\ signals'[j] = signals[j]
      /\ trades'[mine[w]] \in Row /\ trades'[mine[w]].side = "buy"
  BY <1>1, <1>2, LinkRowFacts DEF PendingRow
<1>4. QED
  BY <1>1, <1>2, <1>3, NullFacts, LastWriteInv DEF IInv, TypeOK

LEMMA CancelInv ==
    ASSUME IInv, NEW w \in Workers, CancelTradeAndRestoreSlot(w)
    PROVE  IInv'
<1>1. /\ pc[w] = "buyCancel" /\ Return(w) /\ UNCHANGED <<signals, orders, updates, cur>>
  BY DEF CancelTradeAndRestoreSlot, stream
<1>2. /\ mine[w] \in Ids /\ PendingRow(mine[w], "buy") /\ trades[mine[w]] \in Row
      /\ budget[w] \in Transfers
  BY <1>1, RowType
  DEF IInv, RowsOwned, WorkerOK, BuyOK, PendingRow, LocalOK, BuyLabels
<1>3. CASE UNCHANGED <<trades, remaining>>
  BY <1>1, <1>3, ReturnInv
<1>4. CASE /\ trades'    = [trades EXCEPT ![mine[w]].status = "cancelled"]
           /\ remaining' = [remaining EXCEPT ![budget[w]] = @ + 1]
  <2>1. trades'[mine[w]] = [trades[mine[w]] EXCEPT !.status = "cancelled"]
    BY <1>2, <1>4 DEF IInv, TypeOK
  <2>2. trades'[mine[w]] \in Row /\ trades'[mine[w]].side = "buy"
    BY <1>2, <2>1 DEF Row, Statuses, PendingRow
  <2>3. \A j \in Ids \ {mine[w]} : trades'[j] = trades[j]
    BY <1>4 DEF IInv, TypeOK
  <2>4. trades' \in [Ids -> Row \cup {Null}]
    BY <1>4, <2>2, <2>3 DEF IInv, TypeOK
  <2>5. remaining' \in [Transfers -> Nat]
    BY <1>2, <1>4 DEF IInv, TypeOK
  <2>6. QED
    BY <1>1, <1>2, <2>2, <2>3, <2>4, <2>5, NullFacts, LastWriteInv DEF IInv, TypeOK
<1>5. QED
  BY <1>3, <1>4 DEF CancelTradeAndRestoreSlot

-----------------------------------------------------------------------------
(* The consumer, the broker and a crash preserve IInv.                     *)

\* What the workers stand on does not change with the channel or the broker.
LEMMA WorkersStay ==
    ASSUME IInv, UNCHANGED <<trades, signals, pc, sym, snap, pend, mine, budget>>
    PROVE  (\A w \in Workers : WorkerOK(w)') /\ Disjoint'
BY DEF IInv, RowsOwned, WorkerOK, SnapOK, PendOK, SellOK, BuyOK, LocalOK, IsBuy,
       IsRow, PendingRow, Disjoint, Owned

LEMMA ApplyLookupInv ==
    ASSUME IInv, ApplyLookup
    PROVE  IInv'
<1>1. /\ updates # <<>> /\ cur = Null /\ updates' = Tail(updates)
      /\ UNCHANGED <<trades, signals, remaining, orders, pc, sym, snap, pend, mine, budget>>
      /\ \/ /\ Applicable(Head(updates))
            /\ cur' = [id |-> Head(updates).order, row |-> trades[Head(updates).order],
                       status |-> MapAlpacaEventToStatus(Head(updates).event)]
         \/ UNCHANGED cur
  BY DEF ApplyLookup, db, local
<1>2. /\ Head(updates) \in [order : Ids, event : Events]
      /\ updates' \in Seq([order : Ids, event : Events])
  <2>1. updates \in Seq([order : Ids, event : Events])
    BY DEF IInv, TypeOK
  <2>2. QED
    BY <1>1, <2>1, HeadTailProperties
<1>3. CASE UNCHANGED cur
  <2>1. TypeOK'
    BY <1>1, <1>2, <1>3 DEF IInv, TypeOK
  <2>2. CurOK'
    BY <1>1, <1>3 DEF CurOK
  <2>3. QED
    BY <1>1, <2>1, <2>2, WorkersStay DEF IInv, RowsOwned
<1>4. CASE /\ Applicable(Head(updates))
           /\ cur' = [id |-> Head(updates).order, row |-> trades[Head(updates).order],
                      status |-> MapAlpacaEventToStatus(Head(updates).event)]
  <2>1. /\ MapAlpacaEventToStatus(Head(updates).event) \in Statuses
        /\ IsRow(Head(updates).order) /\ trades[Head(updates).order].linked
        /\ trades[Head(updates).order].status \notin Terminal
        /\ Head(updates).order \in Ids
    BY <1>2, <1>4, MapType DEF Applicable, GetByAlpacaOrderID
  <2>2. trades[Head(updates).order] \in Row
    BY <2>1, RowType DEF IInv
  <2>3. cur' \in Copy
    BY <1>4, <2>1, <2>2 DEF Copy
  <2>4. CurOK'
    BY <1>1, <1>4, <2>1 DEF CurOK
  <2>5. TypeOK'
    BY <1>1, <1>2, <2>3 DEF IInv, TypeOK
  <2>6. QED
    BY <1>1, <2>4, <2>5, WorkersStay DEF IInv, RowsOwned
<1>5. QED
  BY <1>1, <1>3, <1>4

\* The row as the consumer writes it.
Written == [cur.row EXCEPT !.status = cur.status]

LEMMA WrittenFacts ==
    ASSUME IInv, cur # Null
    PROVE  /\ cur.id \in Ids /\ cur.row = trades[cur.id] /\ cur.row \in Row
           /\ Written \in Row /\ Written # Null /\ Written.status = cur.status
           /\ Written.side = cur.row.side /\ Written.transfer = cur.row.transfer
           /\ Written.linked
<1>1. /\ cur.id \in Ids /\ cur.row \in Row /\ cur.status \in Statuses
      /\ cur.row = trades[cur.id] /\ cur.row.linked
  BY DEF IInv, TypeOK, RowsOwned, CurOK, Copy
<1>2. /\ Written \in Row /\ Written.status = cur.status
      /\ Written.side = cur.row.side /\ Written.transfer = cur.row.transfer
      /\ Written.linked
  BY <1>1 DEF Written, Row
<1>3. QED
  BY <1>1, <1>2, NullFacts

LEMMA ApplyCommitInv ==
    ASSUME IInv, ApplyCommit
    PROVE  IInv'
<1>1. /\ cur # Null /\ cur' = Null
      /\ UNCHANGED <<signals, orders, updates, pc, sym, snap, pend, mine, budget>>
  BY DEF ApplyCommit, local
<1>2. CASE UNCHANGED <<trades, remaining>>
  BY <1>1, <1>2, WorkersStay, NullFacts DEF IInv, TypeOK, RowsOwned, CurOK
<1>3. CASE /\ trades'    = [trades EXCEPT ![cur.id] = Written]
           /\ remaining' = IF RestoresSlot(cur.row, cur.status)
                           THEN [remaining EXCEPT ![cur.row.transfer] = @ + 1]
                           ELSE remaining
  <2>1. trades' \in [Ids -> Row \cup {Null}] /\ remaining' \in [Transfers -> Nat]
    BY <1>1, <1>3, WrittenFacts DEF IInv, TypeOK, Row
  <2>2. TypeOK'
    BY <1>1, <2>1, NullFacts DEF IInv, TypeOK
  <2>3. ASSUME NEW w \in Workers PROVE WorkerOK(w)'
    <3>1. \A i \in Owned(w) : i \in Ids => trades'[i] = trades[i]
      BY <1>1, <1>3, CurNotOwned DEF IInv, TypeOK
    <3>2. WorkerOK(w) /\ snap[w] \subseteq Ids /\ pend[w] \subseteq Ids
      BY DEF IInv, TypeOK, RowsOwned
    <3>3. (\A i \in pend[w] : i \in Owned(w)) /\ (mine[w] \in Ids => mine[w] \in Owned(w))
      BY NullFacts DEF Owned
    <3>4. \A i \in Ids : IsBuy(i) => IsBuy(i)'
      BY <1>1, <1>3, WrittenFacts DEF IInv, TypeOK, IsBuy, IsRow
    <3>5. SnapOK(w)'
      BY <1>1, <3>2, <3>4 DEF WorkerOK, SnapOK
    <3>6. PendOK(w)'
      BY <1>1, <3>1, <3>2, <3>3 DEF WorkerOK, PendOK, PendingRow, IsRow
    <3>7. SellOK(w)'
      BY <1>1, <3>1, <3>2, <3>3 DEF WorkerOK, SellOK, PendingRow, IsRow
    <3>8. BuyOK(w)'
      BY <1>1, <3>1, <3>2, <3>3 DEF WorkerOK, BuyOK, PendingRow, IsRow
    <3>9. QED
      BY <1>1, <3>2, <3>5, <3>6, <3>7, <3>8 DEF WorkerOK, LocalOK
  <2>4. Disjoint' /\ CurOK'
    BY <1>1 DEF IInv, RowsOwned, Disjoint, Owned, CurOK
  <2>5. QED
    BY <2>2, <2>3, <2>4 DEF IInv, RowsOwned
<1>4. QED
  BY <1>2, <1>3 DEF ApplyCommit, Written

LEMMA SendType ==
    ASSUME TypeOK, NEW i \in Ids, NEW e \in Events, Send([order |-> i, event |-> e])
    PROVE  updates' \in Seq([order : Ids, event : Events])
<1> DEFINE Update == [order : Ids, event : Events]
<1>1. [order |-> i, event |-> e] \in Update
  OBVIOUS
<1>2. updates \in Seq(Update)
  BY DEF TypeOK
<1>3. Append(updates, [order |-> i, event |-> e]) \in Seq(Update)
  BY <1>1, <1>2
<1>4. QED
  BY <1>2, <1>3 DEF Send

LEMMA BrokerEventInv ==
    ASSUME IInv, NEW i \in Ids, NEW e \in BrokerEvents, BrokerEvent(i, e)
    PROVE  IInv'
<1>1. /\ UNCHANGED <<trades, signals, remaining, cur, pc, sym, snap, pend, mine, budget>>
      /\ orders[i] # Null /\ orders' = [orders EXCEPT ![i].events = @ \cup {e}]
      /\ Send([order |-> i, event |-> e]) \/ UNCHANGED updates
      /\ e \in Events
  BY EventsAssumption DEF BrokerEvent, Working, db, local
<1>2. orders[i] \in Order
  BY <1>1 DEF IInv, TypeOK
<1>3. [orders[i] EXCEPT !.events = @ \cup {e}] \in Order
  BY <1>1, <1>2 DEF Order
<1>4. orders' \in [Ids -> Order \cup {Null}]
  BY <1>1, <1>3 DEF IInv, TypeOK
<1>5. TypeOK'
  BY <1>1, <1>4, SendType DEF IInv, TypeOK
<1>6. QED
  BY <1>1, <1>5, WorkersStay DEF IInv, RowsOwned, CurOK

LEMMA RedeliverInv ==
    ASSUME IInv, NEW i \in Ids, NEW e \in BrokerEvents, Redeliver(i, e)
    PROVE  IInv'
<1>1. /\ UNCHANGED <<trades, signals, remaining, orders, cur, pc, sym, snap, pend, mine, budget>>
      /\ Send([order |-> i, event |-> e]) /\ e \in Events
  BY EventsAssumption DEF Redeliver, db, local
<1>2. TypeOK'
  BY <1>1, SendType DEF IInv, TypeOK
<1>3. QED
  BY <1>1, <1>2, WorkersStay DEF IInv, RowsOwned, CurOK

\* Init and Crash leave every worker idle.
LEMMA IdleWorkers ==
    ASSUME pc' = [w \in Workers |-> "idle"], sym' = [w \in Workers |-> Null],
           snap' = [w \in Workers |-> {}], pend' = [w \in Workers |-> {}],
           mine' = [w \in Workers |-> Null], budget' = [w \in Workers |-> Null],
           cur' = Null
    PROVE  RowsOwned'
BY DEF RowsOwned, WorkerOK, SnapOK, PendOK, SellOK, BuyOK, LocalOK, SellLabels,
       BuyLabels, Disjoint, Owned, CurOK

LEMMA CrashInv ==
    ASSUME IInv, Crash
    PROVE  IInv'
<1>1. TypeOK'
  BY DEF IInv, TypeOK, Crash, db, Labels
<1>2. RowsOwned'
  BY IdleWorkers DEF Crash
<1>3. QED
  BY <1>1, <1>2 DEF IInv

LEMMA InitInv == Init => IInv
<1> SUFFICES ASSUME Init PROVE IInv
  OBVIOUS
<1>1. TypeOK
  BY TargetAssumption DEF Init, TypeOK, Labels
<1>2. RowsOwned
  BY DEF Init, RowsOwned, WorkerOK, SnapOK, PendOK, SellOK, BuyOK, LocalOK,
         SellLabels, BuyLabels, Disjoint, Owned, CurOK
<1>3. QED
  BY <1>1, <1>2 DEF IInv

LEMMA StutterInv == IInv /\ UNCHANGED vars => IInv'
BY WorkersStay DEF vars, IInv, TypeOK, RowsOwned, CurOK

\* One case per action.
LEMMA NextInv == IInv /\ [Next]_vars => IInv'
<1> SUFFICES ASSUME IInv, [Next]_vars PROVE IInv'
  OBVIOUS
<1>1. ASSUME NEW w \in Workers, ExitSelect(w) \/ Advance(w) PROVE IInv'
  BY <1>1, ExitSelectInv, ExitCommitInv, PlaceSellInv, SellLinkInv, SellCleanInv,
     EvaluateBuySignalInv, GetAvailableBudgetInv, BuyCheckInv, BuyCommitInv,
     PlaceBuyInv, BuyLinkInv, CancelInv
  DEF Advance
<1>2. CASE Consumer
  BY <1>2, ApplyLookupInv, ApplyCommitInv DEF Consumer
<1>3. ASSUME NEW i \in Ids, NEW e \in BrokerEvents, BrokerEvent(i, e) \/ Redeliver(i, e)
      PROVE  IInv'
  BY <1>3, BrokerEventInv, RedeliverInv
<1>4. CASE Crash
  BY <1>4, CrashInv
<1>5. CASE UNCHANGED vars
  BY <1>5, StutterInv
<1>6. QED
  BY <1>1, <1>2, <1>3, <1>4, <1>5 DEF Next

\* TypeOK holds in every reachable state, for every value of the constants: in
\* particular remaining_trades never drops below zero.
THEOREM TypeCorrect == Spec => []TypeOK
<1>1. Spec => []IInv
  BY InitInv, NextInv, PTL DEF Spec
<1>2. IInv => TypeOK
  BY DEF IInv
<1>3. QED
  BY <1>1, <1>2, PTL

\* No two writers of the live path write the same row (RowsOwned), whatever the number of
\* workers and the faults.
THEOREM OwnershipHolds == Spec => []RowsOwned
<1>1. Spec => []IInv
  BY InitInv, NextInv, PTL DEF Spec
<1>2. IInv => RowsOwned
  BY DEF IInv
<1>3. QED
  BY <1>1, <1>2, PTL

=============================================================================
