----------------------------- MODULE OrderProofs -----------------------------
(***************************************************************************)
(* What the rows say: they end once and a buy is sold once, they account   *)
(* for the orders, and there is one position per symbol unless two workers *)
(* evaluate the same symbol at the same time.  No sell row stays without   *)
(* an order.                                                               *)
(***************************************************************************)
EXTENDS TradeHistory, TradeLifecycleProofs

-----------------------------------------------------------------------------
(* What a step may never do to a row, from IInv.                           *)

\* A worker writes only rows that are pending and have no order id.
LEMMA WorkerWrites ==
    ASSUME IInv, NEW w \in Workers, ExitSelect(w) \/ Advance(w),
           NEW i \in Ids, IsRow(i), trades[i].status \in Terminal
    PROVE  trades'[i] = trades[i]
<1>1. i \notin FreshIds /\ ~PendingRow(i, "buy") /\ ~PendingRow(i, "sell")
  BY DEF FreshIds, IsRow, PendingRow, Terminal
<1>2. CASE \/ ExitSelect(w) \/ PlaceSell(w) \/ EvaluateBuySignal(w)
           \/ GetAvailableBudget(w) \/ BuyCheck(w) \/ PlaceBuy(w)
  BY <1>2 DEF ExitSelect, PlaceSell, EvaluateBuySignal, GetAvailableBudget, BuyCheck,
              PlaceBuy, db
<1>3. CASE ExitCommit(w)
  <2>1. pc[w] = "exitCommit"
    BY <1>3 DEF ExitCommit
  <2>2. CASE UNCHANGED db
    BY <2>2 DEF db
  <2>3. ASSUME NEW hit \in SUBSET StillOpen(w), InsertSells(w, hit)
        PROVE  trades'[i] = trades[i]
    BY <1>1, <2>1, <2>3, InsertSellsFacts
  <2>4. QED
    BY <1>3, <2>2, <2>3 DEF ExitCommit
<1>4. CASE SellLink(w) \/ SellClean(w)
  <2>1. pc[w] \in SellLabels
    BY <1>4 DEF SellLink, SellClean, SellLabels
  <2>2. mine[w] \in Ids /\ PendingRow(mine[w], "sell") /\ i # mine[w]
    BY <1>1, <2>1 DEF IInv, RowsOwned, WorkerOK, SellOK
  <2>3. CASE SellLink(w)
    BY <2>2, <2>3, LinkRowFacts DEF SellLink, PendingRow
  <2>4. CASE SellClean(w)
    BY <2>2, <2>4 DEF SellClean, IInv, TypeOK
  <2>5. QED
    BY <1>4, <2>3, <2>4
<1>5. CASE BuyCommit(w)
  <2>1. trades[mine[w]] = Null
    BY <1>5 DEF BuyCommit, IInv, RowsOwned, WorkerOK, BuyOK
  <2>2. i # mine[w]
    BY <2>1 DEF IsRow
  <2>3. QED
    BY <1>5, <2>2 DEF BuyCommit, IInv, TypeOK
<1>6. CASE BuyLink(w) \/ CancelTradeAndRestoreSlot(w)
  <2>1. mine[w] \in Ids /\ PendingRow(mine[w], "buy")
    BY <1>6 DEF BuyLink, CancelTradeAndRestoreSlot, IInv, RowsOwned, WorkerOK, BuyOK
  <2>2. i # mine[w]
    BY <1>1, <2>1
  <2>3. CASE BuyLink(w)
    BY <2>1, <2>2, <2>3, LinkRowFacts DEF BuyLink, PendingRow
  <2>4. CASE CancelTradeAndRestoreSlot(w)
    BY <2>2, <2>4 DEF CancelTradeAndRestoreSlot, IInv, TypeOK
  <2>5. QED
    BY <1>6, <2>3, <2>4
<1>7. QED
  BY <1>2, <1>3, <1>4, <1>5, <1>6 DEF Advance

LEMMA TerminalStep ==
    ASSUME IInv, [Next]_vars, NEW i \in Ids, IsRow(i), trades[i].status \in Terminal
    PROVE  trades'[i] = trades[i]
<1>1. ASSUME NEW w \in Workers, ExitSelect(w) \/ Advance(w)
      PROVE  trades'[i] = trades[i]
  BY <1>1, WorkerWrites
<1>2. CASE ApplyCommit
  <2>1. cur # Null
    BY <1>2 DEF ApplyCommit
  <2>2. trades[cur.id].status \notin Terminal
    BY <2>1 DEF IInv, RowsOwned, CurOK
  <2>3. QED
    BY <1>2, <2>2 DEF ApplyCommit, IInv, TypeOK
<1>3. CASE \/ ApplyLookup \/ Crash \/ UNCHANGED vars
           \/ \E j \in Ids, e \in BrokerEvents : BrokerEvent(j, e) \/ Redeliver(j, e)
  BY <1>3 DEF ApplyLookup, Crash, vars, BrokerEvent, Redeliver, db
<1>4. QED
  BY <1>1, <1>2, <1>3 DEF Next, Consumer

\* A row that reached a terminal status is never written or deleted again, for
\* any number of workers and any late, lost or repeated event.
THEOREM TerminalRowsStay == Spec => TerminalIsFinal
<1>1. Spec => []IInv
  BY InitInv, NextInv, PTL DEF Spec
<1>2. IInv /\ [Next]_vars =>
        [\A i \in Ids : IsRow(i) /\ trades[i].status \in Terminal =>
                          trades'[i] = trades[i]]_vars
  BY TerminalStep
<1>3. QED
  BY <1>1, <1>2, PTL DEF Spec, TerminalIsFinal

-----------------------------------------------------------------------------
(* The unique index makes up for the snapshot: one sell per buy.           *)

\* New sells have different parents, none of which had a sell.
LEMMA InsertSellsParents ==
    ASSUME IInv, NEW w \in Workers, NEW hit \in SUBSET StillOpen(w),
           InsertSells(w, hit), ~ViolatesUnique(hit), OneSellPerBuy
    PROVE  OneSellPerBuy'
<1>1. PICK f \in Injection(hit, FreshIds) :
        trades' = [i \in Ids |-> IF i \in {f[b] : b \in hit}
                                 THEN NewSell(CHOOSE b \in hit : f[b] = i)
                                 ELSE trades[i]]
  BY DEF InsertSells
<1> DEFINE new == {f[b] : b \in hit}
           src(i) == CHOOSE b \in hit : f[b] = i
<1>2. ASSUME NEW i \in new
      PROVE  src(i) \in hit /\ f[src(i)] = i /\ trades'[i].parent = src(i)
  <2>1. src(i) \in hit /\ f[src(i)] = i
    OBVIOUS
  <2>2. i \in Ids
    BY <1>1 DEF Injection, FreshIds
  <2>3. trades'[i] = NewSell(src(i))
    BY <1>1, <2>2
  <2>4. QED
    BY <2>1, <2>3 DEF NewSell
<1>3. \A i \in Ids \ new : trades'[i] = trades[i]
  BY <1>1
<1> HIDE DEF new, src
<1>4. ASSUME NEW i \in Ids, NEW j \in Ids, IsSell(i)', IsSell(j)',
             trades'[i].parent = trades'[j].parent, i \in new, j \notin new
      PROVE  FALSE
  <2>1. IsSell(j) /\ trades[j].parent = src(i) /\ src(i) \in hit
    BY <1>2, <1>3, <1>4 DEF IsSell, IsRow
  <2>2. HasSell(src(i))
    BY <2>1 DEF HasSell
  <2>3. QED
    BY <2>1, <2>2 DEF ViolatesUnique
<1>5. QED
  BY <1>2, <1>3, <1>4 DEF OneSellPerBuy, IsSell, IsRow

\* A step that makes no new sell row and keeps the parents of the old ones.
KeepsSells == \A i \in Ids : IsSell(i)' =>
                /\ IsSell(i) /\ trades'[i].parent = trades[i].parent

LEMMA KeepsSellsStep ==
    ASSUME OneSellPerBuy, KeepsSells
    PROVE  OneSellPerBuy'
BY DEF OneSellPerBuy, KeepsSells

LEMMA LinkKeepsSells ==
    ASSUME IInv, NEW i \in Ids, IsRow(i), LinkRow(i)
    PROVE  KeepsSells
<1>1. trades[i] \in Row /\ trades[i] # Null
  BY RowType DEF IInv, IsRow
<1>2. \/ trades' = [trades EXCEPT ![i].linked = TRUE, ![i].status = "pending"]
      \/ trades' = trades
  BY DEF LinkRow, MarkExecuted
<1>3. /\ \A j \in Ids \ {i} : trades'[j] = trades[j]
      /\ \/ trades'[i] = [trades[i] EXCEPT !.linked = TRUE, !.status = "pending"]
         \/ trades'[i] = trades[i]
  BY <1>2 DEF IInv, TypeOK
<1>4. trades'[i].side = trades[i].side /\ trades'[i].parent = trades[i].parent
  BY <1>1, <1>3 DEF Row
<1>5. QED
  BY <1>1, <1>3, <1>4 DEF KeepsSells, IsSell, IsRow

\* Nothing but ExitCommit makes a sell row.
LEMMA WorkerKeepsSells ==
    ASSUME IInv, NEW w \in Workers, ExitSelect(w) \/ Advance(w),
           ~ExitCommit(w) \/ UNCHANGED trades
    PROVE  KeepsSells
<1>1. CASE UNCHANGED trades
  BY <1>1 DEF KeepsSells, IsSell, IsRow
<1>2. CASE SellLink(w) \/ BuyLink(w)
  <2>1. mine[w] \in Ids /\ IsRow(mine[w]) /\ LinkRow(mine[w])
    BY <1>2
    DEF SellLink, BuyLink, SellLabels, IInv, RowsOwned, WorkerOK, SellOK, BuyOK, PendingRow
  <2>2. QED
    BY <2>1, LinkKeepsSells
<1>3. CASE SellClean(w)
  <2>1. trades' = [trades EXCEPT ![mine[w]] = Null] \/ trades' = trades
    BY <1>3 DEF SellClean
  <2>2. QED
    BY <2>1 DEF KeepsSells, IsSell, IsRow, IInv, TypeOK
<1>4. CASE BuyCommit(w)
  <2>1. trades' = [trades EXCEPT ![mine[w]] = NewBuy(w)] \/ trades' = trades
    BY <1>4 DEF BuyCommit
  <2>2. NewBuy(w).side = "buy"
    BY DEF NewBuy
  <2>3. QED
    BY <2>1, <2>2 DEF KeepsSells, IsSell, IsRow, IInv, TypeOK
<1>5. CASE CancelTradeAndRestoreSlot(w)
  <2>1. mine[w] \in Ids /\ PendingRow(mine[w], "buy")
    BY <1>5 DEF CancelTradeAndRestoreSlot, IInv, RowsOwned, WorkerOK, BuyOK
  <2>2. trades[mine[w]] \in Row
    BY <2>1, RowType DEF IInv, PendingRow
  <2>3. trades' = [trades EXCEPT ![mine[w]].status = "cancelled"] \/ trades' = trades
    BY <1>5 DEF CancelTradeAndRestoreSlot
  <2>4. /\ \A j \in Ids \ {mine[w]} : trades'[j] = trades[j]
        /\ trades'[mine[w]].side = "buy"
    BY <2>1, <2>2, <2>3 DEF IInv, TypeOK, Row, PendingRow
  <2>5. QED
    BY <2>1, <2>4 DEF KeepsSells, IsSell, IsRow, PendingRow
<1>6. CASE \/ ExitSelect(w) \/ PlaceSell(w) \/ EvaluateBuySignal(w)
           \/ GetAvailableBudget(w) \/ BuyCheck(w) \/ PlaceBuy(w)
  BY <1>1, <1>6 DEF ExitSelect, PlaceSell, EvaluateBuySignal, GetAvailableBudget,
                    BuyCheck, PlaceBuy, db
<1>7. QED
  BY <1>1, <1>2, <1>3, <1>4, <1>5, <1>6 DEF Advance

LEMMA OthersKeepSells ==
    ASSUME IInv, [Next]_vars, ~\E w \in Workers : ExitSelect(w) \/ Advance(w)
    PROVE  KeepsSells
<1>1. CASE UNCHANGED trades
  BY <1>1 DEF KeepsSells, IsSell, IsRow
<1>2. CASE ApplyCommit
  <2>1. CASE trades' = [trades EXCEPT ![cur.id] = Written]
    <3>1. cur # Null
      BY <1>2 DEF ApplyCommit
    <3>2. PICK i \in Ids : i = cur.id
      BY <3>1, WrittenFacts
    <3>3. /\ trades[i] \in Row /\ trades[i] # Null
          /\ trades'[i] = [trades[i] EXCEPT !.status = cur.status]
          /\ \A j \in Ids \ {i} : trades'[j] = trades[j]
      <4>1. trades \in [Ids -> Row \cup {Null}]
        BY DEF IInv, TypeOK
      <4>2. cur.row = trades[i] /\ trades[i] \in Row
        BY <3>1, <3>2, WrittenFacts
      <4>3. trades' = [trades EXCEPT ![i] = [trades[i] EXCEPT !.status = cur.status]]
        BY <2>1, <3>2, <4>2 DEF Written
      <4>4. QED
        BY <4>1, <4>2, <4>3, NullFacts
    <3>4. trades'[i].side = trades[i].side /\ trades'[i].parent = trades[i].parent
      BY <3>3 DEF Row
    <3>5. QED
      BY <3>3, <3>4 DEF KeepsSells, IsSell, IsRow
  <2>2. QED
    BY <1>1, <1>2, <2>1 DEF ApplyCommit, Written
<1>3. CASE \/ ApplyLookup \/ Crash \/ UNCHANGED vars
           \/ \E j \in Ids, e \in BrokerEvents : BrokerEvent(j, e) \/ Redeliver(j, e)
  BY <1>1, <1>3 DEF ApplyLookup, Crash, vars, BrokerEvent, Redeliver, db
<1>4. QED
  BY <1>2, <1>3 DEF Next, Consumer

LEMMA OneSellStep == IInv /\ OneSellPerBuy /\ [Next]_vars => OneSellPerBuy'
<1> SUFFICES ASSUME IInv, OneSellPerBuy, [Next]_vars PROVE OneSellPerBuy'
  OBVIOUS
<1>1. CASE KeepsSells
  BY <1>1, KeepsSellsStep
<1>2. ASSUME NEW w \in Workers, ExitCommit(w), ~UNCHANGED trades PROVE OneSellPerBuy'
  BY <1>2, InsertSellsParents DEF ExitCommit, db
<1>3. QED
  BY <1>1, <1>2, WorkerKeepsSells, OthersKeepSells

\* A buy never has two sell rows, whatever the number of workers that read it
\* as open at the same time.
THEOREM OneSell == Spec => []OneSellPerBuy
<1>1. Spec => []IInv
  BY InitInv, NextInv, PTL DEF Spec
<1>2. Init => OneSellPerBuy
  BY DEF Init, OneSellPerBuy, IsSell, IsRow
<1>3. QED
  BY <1>1, <1>2, OneSellStep, PTL DEF Spec

-----------------------------------------------------------------------------
(* Audit: the rows account for the orders.                                 *)

\* A step of a worker leaves the other workers, the channel and the consumer
\* alone.
LEMMA WorkerFrame ==
    ASSUME IInv, NEW w \in Workers, ExitSelect(w) \/ Advance(w)
    PROVE  OthersStay(w) /\ UNCHANGED <<updates, cur>>
<1>1. ASSUME OthersStay(w) PROVE OthersStay(w) /\ UNCHANGED <<updates, cur>>
  BY <1>1 DEF Advance, ExitSelect, ExitCommit, PlaceSell, SellLink, SellClean,
         EvaluateBuySignal, GetAvailableBudget, BuyCheck, BuyCommit, PlaceBuy,
         BuyLink, CancelTradeAndRestoreSlot, stream
<1>2. ASSUME Return(w) PROVE OthersStay(w)
  BY <1>2, ReturnFacts DEF IInv
<1>3. CASE ExitSelect(w)
  BY <1>1, <1>3 DEF ExitSelect, Goto, OthersStay, IInv, TypeOK
<1>4. CASE ExitCommit(w)
  <2>1. ASSUME NEW hit \in SUBSET StillOpen(w), InsertSells(w, hit), Goto(w, "exits"),
               snap' = [snap EXCEPT ![w] = {}], UNCHANGED <<sym, mine, budget>>
        PROVE  OthersStay(w)
    BY <1>4, <2>1, InsertSellsFacts DEF ExitCommit, Goto, OthersStay, IInv, TypeOK
  <2>2. QED
    BY <1>1, <1>2, <1>4, <2>1 DEF ExitCommit
<1>5. CASE PlaceSell(w) \/ SellLink(w) \/ SellClean(w) \/ PlaceBuy(w)
  BY <1>1, <1>5 DEF PlaceSell, SellLink, SellClean, PlaceBuy, Goto, OthersStay, IInv, TypeOK
<1>6. CASE \/ EvaluateBuySignal(w) \/ GetAvailableBudget(w) \/ BuyCheck(w)
           \/ BuyCommit(w) \/ BuyLink(w) \/ CancelTradeAndRestoreSlot(w)
  <2>1. CASE Return(w)
    BY <1>1, <1>2, <2>1
  <2>2. CASE ~Return(w)
    BY <1>1, <1>6, <2>2
    DEF EvaluateBuySignal, GetAvailableBudget, BuyCheck, BuyCommit, BuyLink,
        CancelTradeAndRestoreSlot, Goto, OthersStay, IInv, TypeOK
  <2>3. QED
    BY <2>1, <2>2
<1>7. QED
  BY <1>3, <1>4, <1>5, <1>6 DEF Advance

\* The updates in the channel name an order and an event.
LEMMA UpdatesType ==
    ASSUME TypeOK
    PROVE  \A k \in DOMAIN updates : updates[k].order \in Ids /\ updates[k].event \in Events
<1> DEFINE Update == [order : Ids, event : Events]
<1>1. updates \in Seq(Update)
  BY DEF TypeOK
<1> HIDE DEF Update
<1>2. \A k \in DOMAIN updates : updates[k] \in Update
  BY <1>1, LenProperties, ElementOfSeq
<1>3. QED
  BY <1>2 DEF Update

\* A worker whose writes leave its own and new rows accounted for, and that
\* places orders only where there was none, keeps the audit.
LEMMA AuditWorker ==
    ASSUME IInv, Audit, NEW w \in Workers, OthersStay(w), UNCHANGED <<updates, cur>>,
           PlacedOK(w)',
           \A i \in Ids : orders[i] # Null => orders'[i] = orders[i],
           \A i \in Ids : \/ trades'[i] = trades[i] /\ orders'[i] = orders[i]
                          \/ i \in Owned(w) \cup FreshIds /\ RowAudit(i)'
    PROVE  Audit'
<1>1. ASSUME NEW i \in Ids PROVE RowAudit(i)'
  <2>1. CASE trades'[i] = trades[i] /\ orders'[i] = orders[i]
    BY <2>1 DEF Audit, RowAudit, LinkedTrue, SameTrade, OneEnd, NoGhost, StatusTrue,
                Working, IsRow
  <2>2. QED
    BY <2>1
<1>2. ASSUME NEW v \in Workers PROVE PlacedOK(v)'
  <2>1. CASE v = w
    BY <2>1
  <2>2. CASE v # w
    <3>1. pc'[v] = pc[v] /\ pend'[v] = pend[v] /\ mine'[v] = mine[v]
      BY <2>2 DEF OthersStay
    <3>2. ASSUME NEW i \in Owned(v), i \in Ids PROVE orders'[i] = orders[i]
      BY <2>2, <3>2, FreshNotOwned DEF IInv, RowsOwned, Disjoint
    <3>3. PlacedOK(v) /\ WorkerOK(v) /\ pend[v] \subseteq Ids
      BY DEF Audit, IInv, RowsOwned, TypeOK
    <3>4. pc[v] \in Unplaced \cup {"sellLink", "buyLink"} => mine[v] \in Ids
      BY <3>3 DEF WorkerOK, SellOK, BuyOK, Unplaced, SellLabels
    <3>5. (\A i \in pend[v] : i \in Owned(v)) /\ (mine[v] \in Ids => mine[v] \in Owned(v))
      BY NullFacts DEF Owned
    <3>6. QED
      BY <3>1, <3>2, <3>3, <3>4, <3>5 DEF PlacedOK
  <2>3. QED
    BY <2>1, <2>2
<1>3. UpdatesSent'
  BY UpdatesType DEF Audit, IInv, UpdatesSent
<1>4. CurTrue'
  <2>1. CASE cur = Null
    BY <2>1 DEF CurTrue
  <2>2. CASE cur # Null
    <3>1. orders'[cur.id] = orders[cur.id]
      BY <2>2, CurNotOwned
    <3>2. QED
      BY <2>2, <3>1 DEF Audit, CurTrue, StatusTrue, Working
  <2>3. QED
    BY <2>1, <2>2
<1>5. QED
  BY <1>1, <1>2, <1>3, <1>4 DEF Audit

\* A worker that has returned holds no identifier.
LEMMA PlacedReturn ==
    ASSUME TypeOK, NEW w \in Workers, Return(w)
    PROVE  PlacedOK(w)'
BY DEF Return, Goto, TypeOK, PlacedOK, Unplaced

\* Steps that write neither rows nor orders.
LEMMA AuditReads ==
    ASSUME IInv, Audit, NEW w \in Workers,
           \/ ExitSelect(w) \/ EvaluateBuySignal(w) \/ GetAvailableBudget(w)
           \/ BuyCheck(w)
    PROVE  Audit'
<1>1. OthersStay(w) /\ UNCHANGED <<updates, cur>> /\ UNCHANGED <<trades, orders>>
  BY WorkerFrame
  DEF Advance, ExitSelect, EvaluateBuySignal, GetAvailableBudget, BuyCheck, db
<1>2. WorkerOK(w) /\ PlacedOK(w)
  BY DEF IInv, RowsOwned, Audit
<1>3. PlacedOK(w)'
  <2>1. CASE Return(w)
    BY <2>1, PlacedReturn DEF IInv
  <2>2. CASE ExitSelect(w)
    BY <1>1, <1>2, <2>2 DEF ExitSelect, Goto, IInv, TypeOK, PlacedOK, Unplaced
  <2>3. CASE EvaluateBuySignal(w) /\ ~Return(w)
    BY <1>1, <1>2, <2>3
    DEF EvaluateBuySignal, Goto, IInv, TypeOK, PlacedOK, Unplaced, FreshIds
  <2>4. CASE (GetAvailableBudget(w) \/ BuyCheck(w)) /\ ~Return(w)
    BY <1>1, <1>2, <2>4
    DEF GetAvailableBudget, BuyCheck, Goto, IInv, TypeOK, PlacedOK, Unplaced
  <2>5. QED
    BY <2>1, <2>2, <2>3, <2>4
<1>4. QED
  BY <1>1, <1>3, AuditWorker

LEMMA AuditExitCommit ==
    ASSUME IInv, Audit, NEW w \in Workers, ExitCommit(w)
    PROVE  Audit'
<1>1. /\ OthersStay(w) /\ UNCHANGED <<updates, cur>> /\ UNCHANGED orders
      /\ pc[w] = "exitCommit"
  BY WorkerFrame DEF Advance, ExitCommit
<1>2. CASE Return(w) /\ UNCHANGED db
  BY <1>1, <1>2, PlacedReturn, AuditWorker DEF db, IInv
<1>3. ASSUME NEW hit \in SUBSET StillOpen(w), InsertSells(w, hit), Goto(w, "exits")
      PROVE  Audit'
  <2>1. /\ pend'[w] \subseteq FreshIds
        /\ \A i \in pend'[w] : trades'[i] # Null /\ ~trades'[i].linked
        /\ \A i \in Ids \ pend'[w] : trades'[i] = trades[i]
    BY <1>1, <1>3, InsertSellsFacts
  <2>2. \A i \in pend'[w] : i \in Ids /\ orders'[i] = Null
    BY <1>1, <2>1 DEF FreshIds
  <2>3. PlacedOK(w)'
    BY <1>3, <2>2 DEF Goto, IInv, TypeOK, PlacedOK, Unplaced
  <2>4. \A i \in pend'[w] : RowAudit(i)'
    BY <2>1, <2>2 DEF RowAudit, LinkedTrue, SameTrade, OneEnd, NoGhost
  <2>5. QED
    BY <1>1, <2>1, <2>3, <2>4, AuditWorker
<1>4. QED
  BY <1>2, <1>3 DEF ExitCommit

\* A new order is of the symbol and side of its row, which waits for its id.
LEMMA AuditPlaced ==
    ASSUME IInv, Audit, NEW w \in Workers, OthersStay(w), PlacedOK(w)',
           UNCHANGED <<trades, updates, cur>>,
           NEW i \in Owned(w), i \in Ids, orders[i] = Null,
           IsRow(i), trades[i].status = "pending", ~trades[i].linked,
           UNCHANGED orders \/ orders' = [orders EXCEPT ![i] = NewOrder(i)]
    PROVE  Audit'
<1>1. /\ \A j \in Ids \ {i} : orders'[j] = orders[j]
      /\ orders'[i] \in {Null, NewOrder(i)}
  BY DEF IInv, TypeOK
<1>2. RowAudit(i)'
  <2>1. CASE orders'[i] = Null
    BY <2>1 DEF RowAudit, LinkedTrue, SameTrade, OneEnd, NoGhost, IsRow
  <2>2. CASE orders'[i] = NewOrder(i)
    BY <2>2 DEF RowAudit, LinkedTrue, SameTrade, OneEnd, NoGhost, IsRow, NewOrder
  <2>3. QED
    BY <1>1, <2>1, <2>2
<1>3. QED
  BY <1>1, <1>2, AuditWorker

LEMMA AuditPlaceSell ==
    ASSUME IInv, Audit, NEW w \in Workers, PlaceSell(w)
    PROVE  Audit'
<1>1. OthersStay(w) /\ UNCHANGED <<trades, updates, cur>>
  BY WorkerFrame DEF Advance, PlaceSell, db
<1>2. PICK i \in pend[w] :
        /\ mine' = [mine EXCEPT ![w] = i]
        /\ pend' = [pend EXCEPT ![w] = @ \ {i}]
        /\ \/ /\ orders' = [orders EXCEPT ![i] = NewOrder(i)]
              /\ Goto(w, "sellLink") \/ ("lostReply" \in Faults /\ Goto(w, "sellClean"))
           \/ Goto(w, "sellClean") /\ UNCHANGED orders
  BY DEF PlaceSell
<1>3. i \in Ids /\ i \in Owned(w) /\ PendingRow(i, "sell") /\ orders[i] = Null
  BY DEF IInv, TypeOK, RowsOwned, WorkerOK, PendOK, Owned, Audit, PlacedOK
<1>4. NewOrder(i) # Null
  BY <1>3, NewOrderType, NullFacts DEF IInv, PendingRow
<1>5. PlacedOK(w)'
  <2>1. mine'[w] = i /\ pend'[w] = pend[w] \ {i} /\ \A j \in Ids \ {i} : orders'[j] = orders[j]
    BY <1>2 DEF IInv, TypeOK
  <2>2. \A j \in pend'[w] : orders'[j] = Null
    BY <2>1 DEF Audit, PlacedOK, IInv, TypeOK
  <2>3. \/ pc'[w] = "sellLink" /\ orders'[i] # Null
        \/ pc'[w] = "sellClean" /\ ("lostReply" \in Faults \/ orders'[i] = Null)
    BY <1>2, <1>3, <1>4 DEF Goto, IInv, TypeOK
  <2>4. QED
    BY <2>1, <2>2, <2>3 DEF PlacedOK, Unplaced
<1>6. QED
  BY <1>1, <1>2, <1>3, <1>5, AuditPlaced DEF PendingRow

LEMMA AuditPlaceBuy ==
    ASSUME IInv, Audit, NEW w \in Workers, PlaceBuy(w)
    PROVE  Audit'
<1>1. /\ OthersStay(w) /\ UNCHANGED <<trades, updates, cur, pend, mine>>
      /\ pc[w] = "placeBuy"
      /\ \/ /\ orders' = [orders EXCEPT ![mine[w]] = NewOrder(mine[w])]
            /\ Goto(w, "buyLink") \/ ("lostReply" \in Faults /\ Goto(w, "buyCancel"))
         \/ Goto(w, "buyCancel") /\ UNCHANGED orders
  BY WorkerFrame DEF Advance, PlaceBuy, db
<1>2. /\ mine[w] \in Ids /\ mine[w] \in Owned(w) /\ PendingRow(mine[w], "buy")
      /\ orders[mine[w]] = Null /\ pend[w] = {}
  BY <1>1, NullFacts
  DEF IInv, RowsOwned, WorkerOK, BuyOK, PendOK, SellLabels, Owned, Audit, PlacedOK, Unplaced
<1>3. NewOrder(mine[w]) # Null
  BY <1>2, NewOrderType, NullFacts DEF IInv, PendingRow
<1>4. PlacedOK(w)'
  <2>1. \/ pc'[w] = "buyLink" /\ orders'[mine[w]] # Null
        \/ pc'[w] = "buyCancel" /\ ("lostReply" \in Faults \/ orders'[mine[w]] = Null)
    BY <1>1, <1>2, <1>3 DEF Goto, IInv, TypeOK
  <2>2. QED
    BY <1>1, <1>2, <2>1 DEF PlacedOK, Unplaced
<1>5. QED
  BY <1>1, <1>2, <1>4, AuditPlaced DEF PendingRow

\* Storing the id of an order that was placed for a pending row.
LEMMA AuditLink ==
    ASSUME IInv, Audit, NEW w \in Workers, OthersStay(w), PlacedOK(w)',
           UNCHANGED <<orders, updates, cur>>, NEW i \in Owned(w), i \in Ids,
           orders[i] # Null, IsRow(i), LinkRow(i)
    PROVE  Audit'
<1>1. trades[i] \in Row /\ \A j \in Ids \ {i} : trades'[j] = trades[j]
  BY RowType, LinkRowFacts DEF IInv
<1>2. \/ trades'[i] = [trades[i] EXCEPT !.linked = TRUE, !.status = "pending"]
      \/ trades'[i] = trades[i]
  BY DEF LinkRow, MarkExecuted, IInv, TypeOK
<1>3. ASSUME trades'[i] = [trades[i] EXCEPT !.linked = TRUE, !.status = "pending"]
      PROVE  RowAudit(i)'
  <2>1. /\ trades'[i] # Null /\ trades'[i].linked /\ trades'[i].status = "pending"
        /\ trades'[i].symbol = trades[i].symbol /\ trades'[i].side = trades[i].side
    BY <1>1, <1>3, LinkRowFacts, NullFacts DEF Row, IInv
  <2>2. RowAudit(i)
    BY DEF Audit
  <2>3. QED
    BY <2>1, <2>2
    DEF RowAudit, LinkedTrue, StatusTrue, SameTrade, OneEnd, NoGhost, IsRow
<1>4. QED
  BY <1>1, <1>2, <1>3, AuditWorker

LEMMA AuditLinks ==
    ASSUME IInv, Audit, NEW w \in Workers, SellLink(w) \/ BuyLink(w)
    PROVE  Audit'
<1>1. /\ OthersStay(w) /\ UNCHANGED <<orders, updates, cur>> /\ LinkRow(mine[w])
  BY WorkerFrame DEF Advance, SellLink, BuyLink
<1>2. /\ mine[w] \in Ids /\ mine[w] \in Owned(w) /\ IsRow(mine[w])
      /\ orders[mine[w]] # Null
  BY NullFacts
  DEF SellLink, BuyLink, IInv, RowsOwned, WorkerOK, SellOK, BuyOK, SellLabels,
      PendingRow, Owned, Audit, PlacedOK
<1>3. PlacedOK(w)'
  <2>1. CASE SellLink(w)
    BY <1>1, <2>1 DEF SellLink, Goto, IInv, TypeOK, Audit, PlacedOK, Unplaced
  <2>2. CASE BuyLink(w)
    BY <2>2, PlacedReturn DEF BuyLink, IInv
  <2>3. QED
    BY <2>1, <2>2
<1>4. QED
  BY <1>1, <1>2, <1>3, AuditLink

\* A sell whose order the bot knows nothing of: without lost replies there is
\* none.
LEMMA AuditSellClean ==
    ASSUME IInv, Audit, NEW w \in Workers, SellClean(w)
    PROVE  Audit'
<1>1. /\ OthersStay(w) /\ UNCHANGED <<orders, updates, cur, pend>> /\ pc[w] = "sellClean"
      /\ trades' = [trades EXCEPT ![mine[w]] = Null] \/ trades' = trades
      /\ pc' = [pc EXCEPT ![w] = "exits"]
  BY WorkerFrame DEF Advance, SellClean, Goto
<1>2. PICK i \in Ids : /\ i = mine[w] /\ i \in Owned(w)
                       /\ "lostReply" \notin Faults => orders[i] = Null
  BY <1>1, NullFacts
  DEF IInv, RowsOwned, WorkerOK, SellOK, SellLabels, Owned, Audit, PlacedOK, Unplaced
<1>3. /\ \A j \in Ids \ {i} : trades'[j] = trades[j]
      /\ trades'[i] \in {Null, trades[i]}
  BY <1>1, <1>2 DEF IInv, TypeOK
<1>4. PlacedOK(w)'
  BY <1>1 DEF IInv, TypeOK, Audit, PlacedOK, Unplaced
<1>5. trades'[i] = Null => RowAudit(i)'
  <2>1. OneEnd(i)
    BY <1>2 DEF Audit, RowAudit
  <2>2. QED
    BY <1>1, <1>2, <2>1 DEF RowAudit, LinkedTrue, SameTrade, OneEnd, NoGhost, IsRow
<1>6. QED
  BY <1>1, <1>2, <1>3, <1>4, <1>5, AuditWorker

LEMMA AuditBuyCommit ==
    ASSUME IInv, Audit, NEW w \in Workers, BuyCommit(w)
    PROVE  Audit'
<1>1. /\ OthersStay(w) /\ UNCHANGED <<orders, updates, cur>> /\ pc[w] = "buyCommit"
  BY WorkerFrame DEF Advance, BuyCommit
<1>2. CASE Return(w) /\ UNCHANGED <<trades, remaining>>
  BY <1>1, <1>2, PlacedReturn, AuditWorker DEF IInv
<1>3. CASE /\ trades' = [trades EXCEPT ![mine[w]] = NewBuy(w)]
           /\ Goto(w, "placeBuy") /\ UNCHANGED <<sym, snap, pend, mine, budget>>
  <2>1. PICK i \in Ids : /\ i = mine[w] /\ i \in Owned(w)
                         /\ orders[i] = Null /\ pend[w] = {}
    BY <1>1, NullFacts
    DEF IInv, RowsOwned, WorkerOK, BuyOK, PendOK, SellLabels, Owned, Audit, PlacedOK,
        Unplaced
  <2>2. /\ \A j \in Ids \ {i} : trades'[j] = trades[j]
        /\ trades'[i] = NewBuy(w)
    BY <1>3, <2>1 DEF IInv, TypeOK
  <2>3. RowAudit(i)'
    BY <1>1, <2>1, <2>2 DEF RowAudit, LinkedTrue, SameTrade, OneEnd, NoGhost, NewBuy
  <2>4. PlacedOK(w)'
    BY <1>1, <1>3, <2>1 DEF PlacedOK, Unplaced, Goto, IInv, TypeOK
  <2>5. QED
    BY <1>1, <2>1, <2>2, <2>3, <2>4, AuditWorker
<1>4. QED
  BY <1>2, <1>3 DEF BuyCommit

LEMMA AuditCancel ==
    ASSUME IInv, Audit, NEW w \in Workers, CancelTradeAndRestoreSlot(w)
    PROVE  Audit'
<1>1. /\ OthersStay(w) /\ UNCHANGED <<orders, updates, cur>> /\ pc[w] = "buyCancel"
      /\ Return(w)
      /\ trades' = [trades EXCEPT ![mine[w]].status = "cancelled"] \/ trades' = trades
  BY WorkerFrame DEF Advance, CancelTradeAndRestoreSlot
<1>2. PICK i \in Ids : /\ i = mine[w] /\ i \in Owned(w) /\ PendingRow(i, "buy")
                       /\ "lostReply" \notin Faults => orders[i] = Null
  BY <1>1, NullFacts
  DEF IInv, RowsOwned, WorkerOK, BuyOK, Owned, Audit, PlacedOK, Unplaced
<1>3. PlacedOK(w)'
  BY <1>1, PlacedReturn DEF IInv
<1>4. trades[i] \in Row
  BY <1>2, RowType DEF IInv, PendingRow
<1>5. /\ \A j \in Ids \ {i} : trades'[j] = trades[j]
      /\ trades'[i] \in {[trades[i] EXCEPT !.status = "cancelled"],
                               trades[i]}
  BY <1>1, <1>2 DEF IInv, TypeOK
<1>6. ASSUME trades'[i] = [trades[i] EXCEPT !.status = "cancelled"]
      PROVE  RowAudit(i)'
  <2>1. /\ ~trades'[i].linked /\ trades'[i].symbol = trades[i].symbol
        /\ trades'[i].side = trades[i].side
    BY <1>2, <1>4, <1>6 DEF Row, PendingRow
  <2>2. RowAudit(i) /\ IsRow(i)
    BY <1>2 DEF Audit, PendingRow
  <2>3. QED
    BY <1>1, <1>2, <2>1, <2>2 DEF RowAudit, LinkedTrue, SameTrade, OneEnd, NoGhost, IsRow
<1>7. QED
  BY <1>1, <1>2, <1>3, <1>5, <1>6, AuditWorker

LEMMA AuditWorkers ==
    ASSUME IInv, Audit, NEW w \in Workers, ExitSelect(w) \/ Advance(w)
    PROVE  Audit'
BY AuditReads, AuditExitCommit, AuditPlaceSell, AuditLinks, AuditSellClean,
   AuditBuyCommit, AuditPlaceBuy, AuditCancel DEF Advance

\* The status of an event that was sent is true of its order.
LEMMA EventStatusTrue ==
    ASSUME NEW i \in Ids, OneEnd(i), orders[i] # Null, NEW e \in orders[i].events,
           MapAlpacaEventToStatus(e) # Null
    PROVE  StatusTrue(i, MapAlpacaEventToStatus(e))
<1>1. MapAlpacaEventToStatus(e) = "filled" => e = "fill"
  BY DEF MapAlpacaEventToStatus, AckEvents
<1>2. MapAlpacaEventToStatus(e) \in {"rejected", "cancelled"} => e \in EndEvents
  BY DEF MapAlpacaEventToStatus, AckEvents, EndEvents
<1>3. QED
  BY <1>1, <1>2 DEF StatusTrue, OneEnd, Working

LEMMA AuditApplyLookup ==
    ASSUME IInv, Audit, ApplyLookup
    PROVE  Audit'
<1>1. /\ updates # <<>> /\ updates' = Tail(updates)
      /\ UNCHANGED <<trades, orders, pc, pend, mine>>
      /\ \/ /\ Applicable(Head(updates))
            /\ cur' = [id |-> Head(updates).order, row |-> trades[Head(updates).order],
                       status |-> MapAlpacaEventToStatus(Head(updates).event)]
         \/ UNCHANGED cur
  BY DEF ApplyLookup, db, local
<1>2. /\ Len(updates) \in Nat \ {0} /\ DOMAIN updates = 1 .. Len(updates)
      /\ Head(updates) = updates[1]
      /\ \A k \in DOMAIN updates' : k + 1 \in DOMAIN updates /\ updates'[k] = updates[k + 1]
  <2>1. updates \in Seq([order : Ids, event : Events])
    BY DEF IInv, TypeOK
  <2>2. Len(updates) \in Nat \ {0} /\ DOMAIN updates = 1 .. Len(updates)
    BY <1>1, <2>1, LenProperties, EmptySeq
  <2>3. QED
    BY <1>1, <2>1, <2>2, HeadTailProperties, LenProperties
<1>3. UpdatesSent'
  BY <1>1, <1>2 DEF Audit, UpdatesSent
<1>4. CurTrue'
  <2>1. CASE UNCHANGED cur
    BY <1>1, <2>1 DEF Audit, CurTrue, StatusTrue, Working
  <2>2. CASE /\ Applicable(Head(updates))
             /\ cur' = [id |-> Head(updates).order, row |-> trades[Head(updates).order],
                        status |-> MapAlpacaEventToStatus(Head(updates).event)]
    <3>1. PICK i \in Ids : i = Head(updates).order
      BY <1>2, UpdatesType DEF IInv
    <3>2. orders[i] # Null /\ Head(updates).event \in orders[i].events
      BY <1>2, <3>1 DEF Audit, UpdatesSent
    <3>3. StatusTrue(i, MapAlpacaEventToStatus(Head(updates).event))
      BY <2>2, <3>2, EventStatusTrue DEF Audit, RowAudit, Applicable
    <3>4. cur'.id = i /\ cur'.status = MapAlpacaEventToStatus(Head(updates).event)
      BY <2>2, <3>1
    <3>5. QED
      BY <1>1, <3>3, <3>4 DEF CurTrue, StatusTrue, Working
  <2>3. QED
    BY <1>1, <2>1, <2>2
<1>5. QED
  BY <1>1, <1>3, <1>4
  DEF Audit, RowAudit, LinkedTrue, SameTrade, OneEnd, NoGhost, StatusTrue, Working,
      IsRow, PlacedOK

LEMMA AuditApplyCommit ==
    ASSUME IInv, Audit, ApplyCommit
    PROVE  Audit'
<1>1. /\ cur # Null /\ cur' = Null /\ UNCHANGED <<orders, updates, pc, pend, mine>>
      /\ trades' = [trades EXCEPT ![cur.id] = Written] \/ trades' = trades
  BY DEF ApplyCommit, local, Written
<1>2. UpdatesSent' /\ CurTrue' /\ \A w \in Workers : PlacedOK(w)'
  BY <1>1 DEF Audit, UpdatesSent, CurTrue, PlacedOK
<1>3. PICK i \in Ids : i = cur.id /\ trades[i] = cur.row
  BY <1>1, WrittenFacts
<1>4. /\ \A j \in Ids \ {i} : trades'[j] = trades[j]
      /\ trades'[i] \in {Written, trades[i]}
  BY <1>1, <1>3 DEF IInv, TypeOK
<1>5. ASSUME trades'[i] = Written PROVE RowAudit(i)'
  <2>1. /\ trades'[i] # Null /\ trades'[i].linked /\ trades'[i].status = cur.status
        /\ trades'[i].symbol = trades[i].symbol /\ trades'[i].side = trades[i].side
    BY <1>1, <1>3, <1>5, WrittenFacts DEF Written, Row
  <2>2. RowAudit(i) /\ IsRow(i) /\ trades[i].linked /\ StatusTrue(i, cur.status)
    BY <1>1, <1>3, CurNotOwned, WrittenFacts, NullFacts
    DEF Audit, CurTrue, IInv, RowsOwned, CurOK, IsRow
  <2>3. QED
    BY <1>1, <2>1, <2>2
    DEF RowAudit, LinkedTrue, SameTrade, OneEnd, NoGhost, StatusTrue, Working, IsRow
<1>6. ASSUME NEW j \in Ids, trades'[j] = trades[j] PROVE RowAudit(j)'
  BY <1>1, <1>6
  DEF Audit, RowAudit, LinkedTrue, SameTrade, OneEnd, NoGhost, StatusTrue, Working, IsRow
<1>7. QED
  BY <1>2, <1>4, <1>5, <1>6 DEF Audit

\* What is sent and accepted by the channel is an event of the order.
LEMMA SendSent ==
    ASSUME TypeOK, UpdatesSent, NEW i \in Ids, NEW e \in Events,
           Send([order |-> i, event |-> e]), orders'[i] # Null, e \in orders'[i].events,
           \A j \in Ids : orders[j] # Null =>
              orders'[j] # Null /\ orders[j].events \subseteq orders'[j].events
    PROVE  UpdatesSent'
<1> DEFINE u == [order |-> i, event |-> e]
<1>1. \A k \in DOMAIN updates' :
        updates'[k] = u \/ (k \in DOMAIN updates /\ updates'[k] = updates[k])
  <2>1. updates \in Seq([order : Ids, event : Events])
    BY DEF TypeOK
  <2>2. CASE updates' = updates
    BY <2>2
  <2>3. CASE updates' = Append(updates, u)
    BY <2>1, <2>3, AppendProperties, LenProperties
  <2>4. QED
    BY <2>2, <2>3 DEF Send
<1>2. QED
  BY <1>1, UpdatesType DEF UpdatesSent

LEMMA AuditBrokerEvent ==
    ASSUME IInv, Audit, NEW i \in Ids, NEW e \in BrokerEvents, BrokerEvent(i, e)
    PROVE  Audit'
<1>1. /\ UNCHANGED <<trades, cur, pc, pend, mine>>
      /\ Working(i) /\ orders[i] # Null /\ e \in Events
      /\ orders' = [orders EXCEPT ![i].events = @ \cup {e}]
      /\ Send([order |-> i, event |-> e]) \/ UNCHANGED updates
  BY EventsAssumption DEF BrokerEvent, Working, db, local
<1>2. /\ \A j \in Ids \ {i} : orders'[j] = orders[j]
      /\ orders'[i] = [orders[i] EXCEPT !.events = @ \cup {e}]
      /\ orders[i] \in Order
  BY <1>1 DEF IInv, TypeOK
<1>3. /\ orders'[i] \in Order /\ orders'[i].events = orders[i].events \cup {e}
      /\ orders'[i].symbol = orders[i].symbol /\ orders'[i].side = orders[i].side
  BY <1>1, <1>2 DEF Order
<1>4. orders'[i] # Null
  BY <1>3, NullFacts
<1>5. orders[i].events \cap (EndEvents \cup {"fill"}) = {} /\ "fill" \notin EndEvents
  BY <1>1 DEF Working, EndEvents
<1>6. ASSUME NEW j \in Ids, NEW status, StatusTrue(j, status), orders[j] # Null
      PROVE  StatusTrue(j, status)'
  BY <1>1, <1>2, <1>3, <1>6 DEF StatusTrue, Working
<1>7. ASSUME NEW j \in Ids PROVE RowAudit(j)'
  <2>1. LinkedTrue(j)' /\ SameTrade(j)' /\ NoGhost(j)'
    BY <1>1, <1>2, <1>3, <1>4, <1>6
    DEF Audit, RowAudit, LinkedTrue, SameTrade, NoGhost, IsRow
  <2>2. OneEnd(j)'
    <3>1. CASE j = i
      <4>1. "fill" \in orders'[i].events => e = "fill"
        BY <1>3, <1>5
      <4>2. e = "fill" => orders'[i].events \cap EndEvents = {}
        BY <1>3, <1>5
      <4>3. QED
        BY <3>1, <4>1, <4>2 DEF OneEnd
    <3>2. CASE j # i
      BY <1>2, <3>2 DEF Audit, RowAudit, OneEnd
    <3>3. QED
      BY <3>1, <3>2
  <2>3. QED
    BY <2>1, <2>2 DEF RowAudit
<1>8. \A w \in Workers : PlacedOK(w)'
  BY <1>1, <1>2, <1>4 DEF Audit, PlacedOK, IInv, TypeOK
<1>9. UpdatesSent'
  <2>1. CASE UNCHANGED updates
    BY <1>2, <1>3, <1>4, <2>1, UpdatesType DEF Audit, UpdatesSent, IInv
  <2>2. QED
    BY <1>1, <1>2, <1>3, <1>4, <2>1, SendSent DEF Audit, IInv
<1>10. CurTrue'
  <2>1. CASE cur = Null
    BY <1>1, <2>1 DEF CurTrue
  <2>2. CASE cur # Null
    <3>1. cur.id \in Ids /\ orders[cur.id] # Null
      BY <2>2, WrittenFacts, NullFacts
      DEF IInv, RowsOwned, CurOK, Audit, RowAudit, LinkedTrue, IsRow
    <3>2. QED
      BY <1>1, <1>6, <2>2, <3>1 DEF Audit, CurTrue
  <2>3. QED
    BY <2>1, <2>2
<1>11. QED
  BY <1>7, <1>8, <1>9, <1>10 DEF Audit

LEMMA AuditRedeliver ==
    ASSUME IInv, Audit, NEW i \in Ids, NEW e \in BrokerEvents, Redeliver(i, e)
    PROVE  Audit'
<1>1. /\ UNCHANGED <<trades, orders, cur, pc, pend, mine>>
      /\ orders[i] # Null /\ e \in orders[i].events /\ e \in Events
      /\ Send([order |-> i, event |-> e])
  BY EventsAssumption DEF Redeliver, db, local
<1>2. UpdatesSent'
  BY <1>1, SendSent DEF Audit, IInv
<1>3. QED
  BY <1>1, <1>2
  DEF Audit, RowAudit, LinkedTrue, SameTrade, OneEnd, NoGhost, StatusTrue, Working,
      IsRow, PlacedOK, CurTrue

LEMMA AuditCrash ==
    ASSUME IInv, Audit, Crash
    PROVE  Audit'
<1>1. /\ updates' = <<>> /\ cur' = Null /\ UNCHANGED <<trades, orders>>
      /\ \A w \in Workers : pc'[w] = "idle" /\ pend'[w] = {}
  BY DEF Crash, db
<1>2. UpdatesSent' /\ CurTrue' /\ \A w \in Workers : PlacedOK(w)'
  BY <1>1 DEF UpdatesSent, CurTrue, PlacedOK, Unplaced
<1>3. QED
  BY <1>1, <1>2
  DEF Audit, RowAudit, LinkedTrue, SameTrade, OneEnd, NoGhost, StatusTrue, Working, IsRow

LEMMA AuditInit == Init => Audit
BY DEF Init, Audit, RowAudit, LinkedTrue, SameTrade, OneEnd, NoGhost, IsRow, PlacedOK,
       Unplaced, UpdatesSent, CurTrue

LEMMA AuditNext == IInv /\ Audit /\ [Next]_vars => Audit'
<1> SUFFICES ASSUME IInv, Audit, [Next]_vars PROVE Audit'
  OBVIOUS
<1>1. ASSUME NEW w \in Workers, ExitSelect(w) \/ Advance(w) PROVE Audit'
  BY <1>1, AuditWorkers
<1>2. ASSUME NEW i \in Ids, NEW e \in BrokerEvents, BrokerEvent(i, e) \/ Redeliver(i, e)
      PROVE  Audit'
  BY <1>2, AuditBrokerEvent, AuditRedeliver
<1>3. CASE Consumer \/ Crash
  BY <1>3, AuditApplyLookup, AuditApplyCommit, AuditCrash DEF Consumer
<1>4. CASE UNCHANGED vars
  BY <1>4
  DEF vars, Audit, RowAudit, LinkedTrue, SameTrade, OneEnd, NoGhost, StatusTrue, Working,
      IsRow, PlacedOK, UpdatesSent, CurTrue
<1>5. QED
  BY <1>1, <1>2, <1>3, <1>4 DEF Next

\* As long as no reply of PlaceOrder is lost, the rows account for every order
\* at the broker: whatever else fails, is dropped or repeated, in any number of
\* workers (OrderAudited).
THEOREM OrdersAudited ==
    ASSUME "lostReply" \notin Faults
    PROVE  Spec => []OrderAudited
<1>1. Spec => [](IInv /\ Audit)
  BY InitInv, NextInv, AuditInit, AuditNext, PTL DEF Spec
<1>2. IInv /\ Audit => OrderAudited
  BY DEF Audit, RowAudit, LinkedTrue, SameTrade, NoGhost, StatusTrue, OrderAudited
<1>3. QED
  BY <1>1, <1>2, PTL

\* Even when replies are lost, a row that has an order id says the truth about
\* that order: filled only if it filled, rejected or cancelled only if it ended
\* unfilled.
THEOREM LinkedRowsTrue == Spec => [](\A i \in Ids : LinkedTrue(i))
<1>1. Spec => [](IInv /\ Audit)
  BY InitInv, NextInv, AuditInit, AuditNext, PTL DEF Spec
<1>2. Audit => \A i \in Ids : LinkedTrue(i)
  BY DEF Audit, RowAudit
<1>3. QED
  BY <1>1, <1>2, PTL

-----------------------------------------------------------------------------
(* Positions: one buy per symbol, if no symbol has two workers.            *)

\* A step that leaves the row as it is, or rewrites it without making it hold
\* a slot again.
RowKept(i) ==
    \/ trades'[i] = trades[i]
    \/ /\ IsRow(i) /\ IsRow(i)'
       /\ trades'[i].symbol = trades[i].symbol /\ trades'[i].side = trades[i].side
       /\ trades'[i].parent = trades[i].parent
       /\ trades'[i].status \in Holding => trades[i].status \in Holding

\* What else worker w may do to a row: add a sell for a buy of its snapshot,
\* delete a sell of its own, insert the buy it checked.
SellAdded(w, i)   == /\ i \in FreshIds /\ IsSell(i)' /\ trades'[i].parent \in snap[w]
                     /\ trades'[i].symbol = trades[trades'[i].parent].symbol
SellDeleted(w, i) == i \in Selling(w) /\ ~IsRow(i)'
BuyAdded(w, i)    == /\ pc[w] = "buyCommit" /\ i = mine[w] /\ trades[i] = Null
                     /\ IsBuy(i)' /\ trades'[i].symbol = sym[w]
RowStep(w, i)     == RowKept(i) \/ SellAdded(w, i) \/ SellDeleted(w, i) \/ BuyAdded(w, i)

\* A worker deletes only pending sells of its own, while it has a bar.
LEMMA SellingFacts ==
    ASSUME IInv, NEW w \in Workers, NEW i \in Selling(w)
    PROVE  /\ i \in Ids /\ i \in Owned(w) /\ IsSell(i) /\ PendingRow(i, "sell")
           /\ pc[w] \in SellLabels \cup {"exits"}
<1>1. WorkerOK(w) /\ pend[w] \subseteq Ids
  BY DEF IInv, RowsOwned, TypeOK
<1>2. CASE i \in pend[w]
  BY <1>1, <1>2 DEF WorkerOK, PendOK, PendingRow, IsSell, Owned
<1>3. CASE i = mine[w] /\ pc[w] \in SellLabels
  BY <1>1, <1>3, NullFacts DEF WorkerOK, SellOK, PendingRow, IsSell, Owned
<1>4. QED
  BY <1>2, <1>3 DEF Selling

\* A buy that is open but for sells of another worker is not on the symbol of
\* a worker about to commit a buy.
LEMMA NothingHidden ==
    ASSUME IInv, Positions, OneWorkerPerSymbol, NEW w \in Workers, pc[w] = "buyCommit",
           NEW b \in Ids, OpenBut(b)
    PROVE  trades[b].symbol # sym[w]
<1> SUFFICES ASSUME trades[b].symbol = sym[w] PROVE FALSE
  OBVIOUS
<1>1. ~OpenPosition(b)
  BY DEF Positions, BuysChecked, HasOpenPosition, ActiveBuys
<1>2. PICK i \in Ids : IsSell(i) /\ trades[i].parent = b
  BY <1>1 DEF OpenPosition, OpenBut, HasSell
<1>3. PICK v \in Workers : i \in Selling(v)
  BY <1>2 DEF OpenBut, Deletable
<1>4. trades[i].symbol = sym[v] /\ trades[i].symbol = sym[w]
  BY <1>2, <1>3 DEF Positions, SellsMatch, OnSymbol
<1>5. pc[v] \in SellLabels \cup {"exits"}
  BY <1>3, SellingFacts
<1>6. v # w /\ pc[v] # "idle"
  BY <1>5 DEF SellLabels
<1>7. QED
  BY <1>4, <1>6 DEF OneWorkerPerSymbol

\* The step of a worker, from what it does to the rows.
LEMMA PositionsWorker ==
    ASSUME IInv, Positions, OneWorkerPerSymbol, NEW w \in Workers, OthersStay(w),
           \A i \in Ids : RowStep(w, i), Selling(w)' \subseteq Selling(w) \cup FreshIds,
           OnSymbol(w)',
           pc'[w] = "buyCommit" => ~HasOpenPosition(sym[w])'
    PROVE  Positions'
<1>1. \A i \in Ids : i \in FreshIds => ~IsRow(i)
  BY DEF FreshIds, IsRow
<1>2. \A b \in Ids : IsBuy(b) => RowKept(b)
  BY <1>1, SellingFacts DEF RowStep, SellAdded, SellDeleted, BuyAdded, IsBuy, IsSell, IsRow
<1>3. \A b \in Ids : IsBuy(b) => IsBuy(b)' /\ trades'[b].symbol = trades[b].symbol
  BY <1>2 DEF RowKept, IsBuy, IsRow
<1>4. ASSUME NEW v \in Workers, v # w
      PROVE  /\ Selling(v)' = Selling(v) /\ pc'[v] = pc[v] /\ sym'[v] = sym[v]
             /\ snap'[v] = snap[v]
  BY <1>4 DEF OthersStay, Selling
<1>5. \A i \in Ids : IsSell(i) /\ Deletable(i)' => Deletable(i)
  BY <1>1, <1>4 DEF Deletable, IsSell
<1>6. ASSUME NEW b \in Ids, OpenBut(b)', ~BuyAdded(w, b)
      PROVE  OpenBut(b) /\ trades'[b].symbol = trades[b].symbol
  <2>1. RowKept(b)
    BY <1>6 DEF OpenBut, RowStep, SellAdded, SellDeleted, IsBuy, IsSell, IsRow
  <2>2. IsBuy(b) /\ trades[b].status \in Holding /\ trades'[b].symbol = trades[b].symbol
    BY <1>6, <2>1 DEF OpenBut, RowKept, IsBuy, IsRow
  <2>3. ASSUME NEW i \in Ids, IsSell(i), trades[i].parent = b PROVE Deletable(i)
    <3>1. CASE SellDeleted(w, i)
      BY <3>1 DEF SellDeleted, Deletable
    <3>2. CASE RowKept(i)
      <4>1. IsSell(i)' /\ trades'[i].parent = b
        BY <2>3, <3>2 DEF RowKept, IsSell, IsRow
      <4>2. QED
        BY <1>5, <1>6, <2>3, <4>1 DEF OpenBut
    <3>3. QED
      BY <1>1, <2>3, <3>1, <3>2 DEF RowStep, SellAdded, BuyAdded, IsSell, IsRow
  <2>4. QED
    BY <2>2, <2>3 DEF OpenBut
<1>7. OneOpenBut'
  <2>1. ASSUME NEW a \in Ids, NEW b \in Ids, OpenBut(a)', OpenBut(b)',
               trades'[a].symbol = trades'[b].symbol, BuyAdded(w, a), ~BuyAdded(w, b)
        PROVE  FALSE
    <3>1. trades[b].symbol = sym[w] /\ OpenBut(b) /\ pc[w] = "buyCommit"
      BY <1>6, <2>1 DEF BuyAdded
    <3>2. QED
      BY <3>1, NothingHidden
  <2>2. \A a, b \in Ids : BuyAdded(w, a) /\ BuyAdded(w, b) => a = b
    BY DEF BuyAdded
  <2>3. QED
    BY <1>6, <2>1, <2>2 DEF OneOpenBut, Positions
<1>8. BuysChecked'
  <2>1. SUFFICES ASSUME NEW v \in Workers, pc'[v] = "buyCommit"
                 PROVE  ~HasOpenPosition(sym[v])'
    BY DEF BuysChecked
  <2>2. CASE v = w
    BY <2>1, <2>2
  <2>3. CASE v # w
    <3>1. SUFFICES ASSUME NEW b \in Ids, OpenPosition(b)', trades'[b].symbol = sym[v]
                   PROVE  FALSE
      BY <1>4, <2>3 DEF HasOpenPosition, ActiveBuys
    <3>2. pc[v] = "buyCommit" /\ ~HasOpenPosition(sym[v])
      BY <1>4, <2>1, <2>3 DEF Positions, BuysChecked
    <3>3. OpenBut(b)'
      BY <3>1 DEF OpenPosition, OpenBut, HasSell
    <3>4. ~BuyAdded(w, b)
      BY <2>3, <3>1, <3>2 DEF BuyAdded, OneWorkerPerSymbol
    <3>5. OpenBut(b) /\ trades[b].symbol = sym[v]
      BY <1>6, <3>1, <3>3, <3>4
    <3>6. QED
      BY <3>2, <3>5, NothingHidden
  <2>4. QED
    BY <2>2, <2>3
<1>9. SellsMatch'
  <2>1. SUFFICES ASSUME NEW i \in Ids, IsSell(i)'
                 PROVE  \E p \in Ids : /\ p = trades'[i].parent /\ IsBuy(p)'
                                       /\ trades'[p].symbol = trades'[i].symbol
    BY DEF SellsMatch
  <2>2. CASE SellAdded(w, i)
    <3>1. PICK p \in Ids : p = trades'[i].parent /\ p \in snap[w] /\ IsBuy(p)
      BY <2>2 DEF SellAdded, IInv, TypeOK, RowsOwned, WorkerOK, SnapOK
    <3>2. QED
      BY <1>3, <2>2, <3>1 DEF SellAdded
  <2>3. CASE RowKept(i)
    <3>1. /\ IsSell(i) /\ trades'[i].parent = trades[i].parent
          /\ trades'[i].symbol = trades[i].symbol
      BY <2>1, <2>3 DEF RowKept, IsSell, IsRow
    <3>2. PICK p \in Ids : /\ p = trades[i].parent /\ IsBuy(p)
                           /\ trades[p].symbol = trades[i].symbol
      BY <3>1 DEF Positions, SellsMatch
    <3>3. QED
      BY <1>3, <3>1, <3>2
  <2>4. QED
    BY <2>1, <2>2, <2>3 DEF RowStep, SellDeleted, BuyAdded, IsSell, IsBuy, IsRow
<1>10. ASSUME NEW v \in Workers PROVE OnSymbol(v)'
  <2>1. CASE v = w
    BY <2>1
  <2>2. CASE v # w
    <3>1. SUFFICES ASSUME NEW i \in snap[v] \cup Selling(v)
                   PROVE  trades'[i].symbol = sym[v]
      BY <1>4, <2>2 DEF OnSymbol
    <3>2. trades[i].symbol = sym[v]
      BY DEF Positions, OnSymbol
    <3>3. CASE i \in snap[v]
      BY <1>3, <3>2, <3>3 DEF IInv, TypeOK, RowsOwned, WorkerOK, SnapOK
    <3>4. CASE i \in Selling(v)
      <4>1. i \in Ids /\ i \in Owned(v) /\ IsSell(i)
        BY <3>4, SellingFacts
      <4>2. i \notin Selling(w)
        BY <2>2, <4>1, SellingFacts DEF IInv, RowsOwned, Disjoint
      <4>3. RowKept(i)
        BY <1>1, <4>1, <4>2 DEF RowStep, SellAdded, SellDeleted, BuyAdded, IsSell, IsRow
      <4>4. QED
        BY <3>2, <4>3 DEF RowKept
    <3>5. QED
      BY <3>1, <3>3, <3>4
  <2>3. QED
    BY <2>1, <2>2
<1>11. QED
  BY <1>7, <1>8, <1>9, <1>10 DEF Positions

LEMMA PositionsReturn ==
    ASSUME TypeOK, NEW w \in Workers, Return(w)
    PROVE  Selling(w)' = {} /\ OnSymbol(w)' /\ pc'[w] # "buyCommit"
<1>1. pc'[w] = "idle" /\ snap'[w] = {} /\ pend'[w] = {}
  BY DEF Return, Goto, TypeOK
<1>2. Selling(w)' = {}
  BY <1>1 DEF Selling, SellLabels
<1>3. QED
  BY <1>1, <1>2 DEF OnSymbol

\* Steps that do not write rows.
LEMMA PositionsReads ==
    ASSUME IInv, Positions, OneWorkerPerSymbol, NEW w \in Workers,
           \/ ExitSelect(w) \/ EvaluateBuySignal(w) \/ GetAvailableBudget(w)
           \/ BuyCheck(w) \/ PlaceSell(w) \/ PlaceBuy(w)
    PROVE  Positions'
<1>1. OthersStay(w) /\ UNCHANGED trades
  BY WorkerFrame
  DEF Advance, ExitSelect, EvaluateBuySignal, GetAvailableBudget, BuyCheck, PlaceSell,
      PlaceBuy, db
<1>2. \A i \in Ids : RowStep(w, i)
  BY <1>1 DEF RowStep, RowKept
<1>3. WorkerOK(w) /\ OnSymbol(w)
  BY DEF IInv, RowsOwned, Positions
<1>4. CASE Return(w)
  BY <1>1, <1>2, <1>4, PositionsReturn, PositionsWorker DEF IInv
<1>5. CASE ExitSelect(w)
  <2>1. PICK s \in Symbols : sym'[w] = s /\ snap'[w] = OpenBuyTrades(s)
    BY <1>5 DEF ExitSelect, IInv, TypeOK
  <2>2. Selling(w)' = {} /\ pc'[w] = "exitCommit"
    BY <1>3, <1>5
    DEF ExitSelect, Goto, IInv, TypeOK, WorkerOK, PendOK, Selling, SellLabels
  <2>3. OnSymbol(w)'
    BY <1>1, <2>1, <2>2 DEF OnSymbol, OpenBuyTrades, ActiveBuys
  <2>4. QED
    BY <1>1, <1>2, <2>2, <2>3, PositionsWorker
<1>6. CASE PlaceSell(w)
  <2>1. PICK i \in pend[w] : mine'[w] = i /\ pend'[w] = pend[w] \ {i}
    BY <1>6 DEF PlaceSell, IInv, TypeOK
  <2>2. pc[w] = "exits" /\ pc'[w] \in SellLabels /\ UNCHANGED <<sym, snap>>
    BY <1>6 DEF PlaceSell, Goto, IInv, TypeOK, SellLabels
  <2>3. Selling(w)' = Selling(w)
    BY <2>1, <2>2 DEF Selling, SellLabels
  <2>4. OnSymbol(w)'
    BY <1>1, <1>3, <2>2, <2>3 DEF OnSymbol
  <2>5. QED
    BY <1>1, <1>2, <2>2, <2>3, <2>4, PositionsWorker DEF SellLabels
<1>7. CASE /\ EvaluateBuySignal(w) \/ GetAvailableBudget(w) \/ BuyCheck(w) \/ PlaceBuy(w)
           /\ ~Return(w)
  <2>1. /\ pend'[w] = {} /\ pc'[w] \notin SellLabels /\ UNCHANGED <<sym, snap>>
        /\ pc'[w] = "buyCommit" => ~HasOpenPosition(sym[w])
    BY <1>3, <1>7
    DEF EvaluateBuySignal, GetAvailableBudget, BuyCheck, PlaceBuy, Goto, IInv, TypeOK,
        WorkerOK, PendOK, SellLabels
  <2>2. Selling(w)' = {}
    BY <2>1 DEF Selling
  <2>3. OnSymbol(w)'
    BY <1>1, <1>3, <2>1, <2>2 DEF OnSymbol
  <2>4. HasOpenPosition(sym[w])' = HasOpenPosition(sym[w])
    BY <1>1, <2>1
    DEF HasOpenPosition, ActiveBuys, OpenPosition, HasSell, IsBuy, IsSell, IsRow
  <2>5. QED
    BY <1>1, <1>2, <2>1, <2>2, <2>3, <2>4, PositionsWorker
<1>8. QED
  BY <1>4, <1>5, <1>6, <1>7

LEMMA PositionsExitCommit ==
    ASSUME IInv, Positions, OneWorkerPerSymbol, NEW w \in Workers, ExitCommit(w)
    PROVE  Positions'
<1>1. OthersStay(w) /\ pc[w] = "exitCommit"
  BY WorkerFrame DEF Advance, ExitCommit
<1>2. CASE Return(w) /\ UNCHANGED db
  <2>1. \A i \in Ids : RowStep(w, i)
    BY <1>2 DEF RowStep, RowKept, db
  <2>2. QED
    BY <1>1, <1>2, <2>1, PositionsReturn, PositionsWorker DEF IInv
<1>3. ASSUME NEW hit \in SUBSET StillOpen(w), InsertSells(w, hit), Goto(w, "exits"),
             snap' = [snap EXCEPT ![w] = {}], UNCHANGED sym
      PROVE  Positions'
  <2>1. PICK f \in Injection(hit, FreshIds) :
          /\ trades' = [i \in Ids |-> IF i \in {f[b] : b \in hit}
                                      THEN NewSell(CHOOSE b \in hit : f[b] = i)
                                      ELSE trades[i]]
          /\ pend'[w] = {f[b] : b \in hit}
    BY <1>3 DEF InsertSells, IInv, TypeOK
  <2>2. /\ pend'[w] \subseteq FreshIds /\ FreshIds \subseteq Ids
        /\ pc'[w] = "exits" /\ snap'[w] = {} /\ hit \subseteq snap[w]
        /\ \A i \in pend'[w] : IsSell(i)'
    <3>1. /\ pend'[w] \subseteq FreshIds
          /\ \A i \in pend'[w] : trades'[i] # Null /\ trades'[i].side = "sell"
      BY <1>1, <1>3, InsertSellsFacts
    <3>2. pc'[w] = "exits" /\ snap'[w] = {}
      BY <1>3 DEF Goto, IInv, TypeOK
    <3>3. FreshIds \subseteq Ids /\ hit \subseteq snap[w]
      BY DEF FreshIds, StillOpen
    <3>4. QED
      BY <3>1, <3>2, <3>3 DEF IsSell, IsRow
  <2>3. Selling(w)' = pend'[w]
    BY <2>2 DEF Selling, SellLabels
  <2>4. ASSUME NEW i \in pend'[w]
        PROVE  \E b \in hit : /\ trades'[i].parent = b
                              /\ trades'[i].symbol = trades[b].symbol
    <3> DEFINE src == CHOOSE b \in hit : f[b] = i
    <3>1. src \in hit
      BY <2>1, <2>4
    <3>2. trades'[i] = NewSell(src)
      BY <2>1, <2>2, <2>4
    <3>3. trades'[i].parent = src /\ trades'[i].symbol = trades[src].symbol
      BY <3>2 DEF NewSell
    <3> HIDE DEF src
    <3>4. QED
      BY <3>1, <3>3
  <2>5. \A i \in pend'[w] : SellAdded(w, i) /\ trades'[i].symbol = sym[w]
    BY <2>2, <2>4 DEF SellAdded, Positions, OnSymbol
  <2>6. \A i \in Ids : RowStep(w, i)
    BY <2>1, <2>5 DEF RowStep, RowKept
  <2>7. OnSymbol(w)'
    BY <1>3, <2>2, <2>3, <2>5 DEF OnSymbol
  <2>8. QED
    BY <1>1, <2>2, <2>3, <2>6, <2>7, PositionsWorker
<1>4. QED
  BY <1>2, <1>3 DEF ExitCommit

LEMMA PositionsLinks ==
    ASSUME IInv, Positions, OneWorkerPerSymbol, NEW w \in Workers,
           SellLink(w) \/ BuyLink(w)
    PROVE  Positions'
<1>1. OthersStay(w) /\ LinkRow(mine[w])
  BY WorkerFrame DEF Advance, SellLink, BuyLink
<1>2. PICK i \in Ids : /\ i = mine[w] /\ IsRow(i) /\ trades[i].status = "pending"
                       /\ trades[i] \in Row
  BY RowType
  DEF SellLink, BuyLink, IInv, RowsOwned, WorkerOK, SellOK, BuyOK, SellLabels, PendingRow
<1>3. RowKept(i) /\ \A j \in Ids \ {i} : trades'[j] = trades[j]
  <2>1. \/ trades'[i] = [trades[i] EXCEPT !.linked = TRUE, !.status = "pending"]
        \/ trades'[i] = trades[i]
    BY <1>1, <1>2 DEF LinkRow, MarkExecuted, IInv, TypeOK
  <2>2. trades'[i] # Null /\ \A j \in Ids \ {i} : trades'[j] = trades[j]
    BY <1>1, <1>2, LinkRowFacts, NullFacts
  <2>3. QED
    BY <1>2, <2>1, <2>2 DEF RowKept, IsRow, Row, Holding
<1>4. \A j \in Ids : RowStep(w, j)
  BY <1>3 DEF RowStep, RowKept
<1>5. CASE BuyLink(w)
  BY <1>1, <1>4, <1>5, PositionsReturn, PositionsWorker DEF BuyLink, IInv
<1>6. CASE SellLink(w)
  <2>1. /\ pc[w] = "sellLink" /\ pc'[w] = "exits" /\ UNCHANGED <<sym, snap, pend>>
    BY <1>6 DEF SellLink, Goto, IInv, TypeOK
  <2>2. Selling(w)' \subseteq Selling(w)
    BY <2>1 DEF Selling, SellLabels
  <2>3. ASSUME NEW j \in snap[w] \cup Selling(w) PROVE trades'[j].symbol = trades[j].symbol
    <3>1. j \in Ids
      BY SellingFacts DEF IInv, TypeOK
    <3>2. QED
      BY <1>3, <3>1 DEF RowKept
  <2>4. OnSymbol(w)'
    BY <2>1, <2>2, <2>3 DEF Positions, OnSymbol
  <2>5. QED
    BY <1>1, <1>4, <2>1, <2>2, <2>4, PositionsWorker
<1>7. QED
  BY <1>5, <1>6

LEMMA PositionsSellClean ==
    ASSUME IInv, Positions, OneWorkerPerSymbol, NEW w \in Workers, SellClean(w)
    PROVE  Positions'
<1>1. /\ OthersStay(w) /\ pc[w] = "sellClean" /\ pc'[w] = "exits"
      /\ UNCHANGED <<sym, snap, pend>>
      /\ trades' = [trades EXCEPT ![mine[w]] = Null] \/ trades' = trades
  BY WorkerFrame DEF Advance, SellClean, Goto, IInv, TypeOK
<1>2. PICK i \in Ids \ pend[w] : i = mine[w] /\ i \in Selling(w) /\ IsSell(i)
  BY <1>1
  DEF IInv, RowsOwned, WorkerOK, SellOK, SellLabels, Selling, PendingRow, IsSell
<1>3. /\ \A j \in Ids \ {i} : trades'[j] = trades[j]
      /\ trades'[i] \in {Null, trades[i]}
  BY <1>1, <1>2 DEF IInv, TypeOK
<1>4. \A j \in Ids : RowStep(w, j)
  BY <1>2, <1>3 DEF RowStep, RowKept, SellDeleted, IsRow
<1>5. Selling(w)' = pend[w] /\ pend[w] \subseteq Selling(w) /\ i \notin snap[w]
  BY <1>1, <1>2
  DEF Selling, SellLabels, IInv, RowsOwned, WorkerOK, SnapOK, IsBuy, IsSell
<1>6. OnSymbol(w)'
  BY <1>1, <1>2, <1>3, <1>5 DEF Positions, OnSymbol, IInv, TypeOK
<1>7. QED
  BY <1>1, <1>4, <1>5, <1>6, PositionsWorker

LEMMA PositionsBuyCommit ==
    ASSUME IInv, Positions, OneWorkerPerSymbol, NEW w \in Workers, BuyCommit(w)
    PROVE  Positions'
<1>1. OthersStay(w) /\ pc[w] = "buyCommit"
  BY WorkerFrame DEF Advance, BuyCommit
<1>2. CASE Return(w) /\ UNCHANGED trades
  <2>1. \A i \in Ids : RowStep(w, i)
    BY <1>2 DEF RowStep, RowKept
  <2>2. QED
    BY <1>1, <1>2, <2>1, PositionsReturn, PositionsWorker DEF IInv
<1>3. CASE /\ trades' = [trades EXCEPT ![mine[w]] = NewBuy(w)]
           /\ Goto(w, "placeBuy") /\ UNCHANGED <<sym, snap, pend, mine>>
  <2>1. PICK i \in Ids : /\ i = mine[w] /\ trades[i] = Null /\ pend[w] = {}
                         /\ budget[w] \in Transfers /\ sym[w] \in Symbols
    BY <1>1
    DEF IInv, RowsOwned, WorkerOK, BuyOK, PendOK, LocalOK, SellLabels, BuyLabels
  <2>2. /\ \A j \in Ids \ {i} : trades'[j] = trades[j]
        /\ trades'[i] = NewBuy(w) /\ pc'[w] = "placeBuy"
    BY <1>3, <2>1 DEF Goto, IInv, TypeOK
  <2>3. NewBuy(w) \in Row /\ NewBuy(w).side = "buy" /\ NewBuy(w).symbol = sym[w]
    BY <2>1 DEF NewBuy, Row, Statuses
  <2>4. BuyAdded(w, i)
    BY <1>1, <2>1, <2>2, <2>3, NullFacts DEF BuyAdded, IsBuy, IsRow
  <2>5. \A j \in Ids : RowStep(w, j)
    BY <2>2, <2>4 DEF RowStep, RowKept
  <2>6. Selling(w)' = {} /\ i \notin snap[w]
    BY <1>3, <2>1, <2>2
    DEF Selling, SellLabels, IInv, RowsOwned, WorkerOK, SnapOK, IsBuy, IsRow
  <2>7. OnSymbol(w)'
    BY <1>3, <2>2, <2>6 DEF Positions, OnSymbol, IInv, TypeOK
  <2>8. QED
    BY <1>1, <2>2, <2>5, <2>6, <2>7, PositionsWorker
<1>4. QED
  BY <1>2, <1>3 DEF BuyCommit

LEMMA PositionsCancel ==
    ASSUME IInv, Positions, OneWorkerPerSymbol, NEW w \in Workers,
           CancelTradeAndRestoreSlot(w)
    PROVE  Positions'
<1>1. /\ OthersStay(w) /\ pc[w] = "buyCancel" /\ Return(w)
      /\ trades' = [trades EXCEPT ![mine[w]].status = "cancelled"] \/ trades' = trades
  BY WorkerFrame DEF Advance, CancelTradeAndRestoreSlot
<1>2. PICK i \in Ids : /\ i = mine[w] /\ PendingRow(i, "buy") /\ trades[i] \in Row
  BY <1>1, RowType DEF IInv, RowsOwned, WorkerOK, BuyOK, PendingRow
<1>3. /\ \A j \in Ids \ {i} : trades'[j] = trades[j]
      /\ trades'[i] \in {[trades[i] EXCEPT !.status = "cancelled"], trades[i]}
  BY <1>1, <1>2 DEF IInv, TypeOK
<1>4. [trades[i] EXCEPT !.status = "cancelled"] \in Row
  BY <1>2 DEF Row, Statuses
<1>5. RowKept(i)
  BY <1>2, <1>3, <1>4, NullFacts DEF RowKept, IsRow, Row, Holding, PendingRow
<1>6. \A j \in Ids : RowStep(w, j)
  BY <1>3, <1>5 DEF RowStep, RowKept
<1>7. QED
  BY <1>1, <1>6, PositionsReturn, PositionsWorker DEF IInv

LEMMA PositionsWorkers ==
    ASSUME IInv, Positions, OneWorkerPerSymbol, NEW w \in Workers,
           ExitSelect(w) \/ Advance(w)
    PROVE  Positions'
BY PositionsReads, PositionsExitCommit, PositionsLinks, PositionsSellClean,
   PositionsBuyCommit, PositionsCancel DEF Advance

\* A step no worker takes part in.
LEMMA PositionsOthers ==
    ASSUME IInv, Positions, UNCHANGED local, \A i \in Ids : RowKept(i)
    PROVE  Positions'
<1>1. \A w \in Workers : Selling(w)' = Selling(w)
  BY DEF local, Selling
<1>2. \A i \in Ids : IsSell(i)' <=> IsSell(i)
  BY DEF RowKept, IsSell, IsRow
<1>3. \A i \in Ids : IsRow(i) => /\ trades'[i].symbol = trades[i].symbol
                                 /\ trades'[i].parent = trades[i].parent
  BY DEF RowKept
<1>4. \A i \in Ids : IsBuy(i)' <=> IsBuy(i)
  BY DEF RowKept, IsBuy, IsRow
<1>5. \A b \in Ids : IsBuy(b) /\ trades'[b].status \in Holding => trades[b].status \in Holding
  BY DEF RowKept
<1>6. \A b \in Ids : OpenBut(b)' => OpenBut(b)
  BY <1>1, <1>2, <1>3, <1>4, <1>5 DEF OpenBut, Deletable, IsSell
<1>7. \A b \in Ids : OpenPosition(b)' => OpenPosition(b)
  BY <1>2, <1>3, <1>4, <1>5 DEF OpenPosition, HasSell, IsSell
<1>8. OneOpenBut'
  BY <1>3, <1>6 DEF Positions, OneOpenBut, OpenBut, IsBuy
<1>9. BuysChecked'
  BY <1>3, <1>7
  DEF Positions, BuysChecked, HasOpenPosition, ActiveBuys, OpenPosition, IsBuy, local
<1>10. SellsMatch'
  BY <1>2, <1>3, <1>4 DEF Positions, SellsMatch, IsSell, IsBuy
<1>11. ASSUME NEW w \in Workers PROVE OnSymbol(w)'
  <2>1. \A i \in snap[w] \cup Selling(w) : i \in Ids /\ IsRow(i)
    BY SellingFacts DEF IInv, TypeOK, RowsOwned, WorkerOK, SnapOK, IsBuy, IsSell
  <2>2. QED
    BY <1>1, <1>3, <2>1 DEF Positions, OnSymbol, local
<1>12. QED
  BY <1>8, <1>9, <1>10, <1>11 DEF Positions

LEMMA PositionsApplyCommit ==
    ASSUME IInv, Positions, ApplyCommit
    PROVE  Positions'
<1>1. /\ cur # Null /\ UNCHANGED local
      /\ trades' = [trades EXCEPT ![cur.id] = Written] \/ trades' = trades
  BY DEF ApplyCommit, Written
<1>2. PICK i \in Ids : i = cur.id /\ trades[i] = cur.row /\ trades[i] \in Row
  BY <1>1, WrittenFacts
<1>3. trades[i].status \in Holding /\ IsRow(i)
  BY <1>1, <1>2, NullFacts
  DEF IInv, RowsOwned, CurOK, Row, Statuses, Terminal, Holding, IsRow
<1>4. /\ \A j \in Ids \ {i} : trades'[j] = trades[j]
      /\ trades'[i] \in {Written, trades[i]}
  BY <1>1, <1>2 DEF IInv, TypeOK
<1>5. /\ Written # Null /\ Written.symbol = trades[i].symbol
      /\ Written.side = trades[i].side /\ Written.parent = trades[i].parent
  BY <1>1, <1>2, WrittenFacts DEF Written, Row
<1>6. \A j \in Ids : RowKept(j)
  BY <1>3, <1>4, <1>5 DEF RowKept, IsRow
<1>7. QED
  BY <1>1, <1>6, PositionsOthers

LEMMA PositionsCrash ==
    ASSUME IInv, Positions, Crash
    PROVE  Positions'
<1>1. /\ UNCHANGED trades
      /\ \A w \in Workers : pc'[w] = "idle" /\ pend'[w] = {} /\ snap'[w] = {}
  BY DEF Crash, db
<1>2. \A w \in Workers : Selling(w)' = {}
  BY <1>1 DEF Selling, SellLabels
<1>3. \A b \in Ids : OpenBut(b)' => OpenBut(b)
  BY <1>1, <1>2 DEF OpenBut, Deletable, IsBuy, IsSell, IsRow
<1>4. QED
  BY <1>1, <1>2, <1>3
  DEF Positions, OneOpenBut, BuysChecked, SellsMatch, OnSymbol, IsBuy, IsSell, IsRow

LEMMA PositionsInit == Init => Positions
BY DEF Init, Positions, OneOpenBut, OpenBut, BuysChecked, SellsMatch, OnSymbol, Selling,
       SellLabels, IsBuy, IsSell, IsRow

LEMMA PositionsNext ==
    IInv /\ Positions /\ OneWorkerPerSymbol /\ [Next]_vars => Positions'
<1> SUFFICES ASSUME IInv, Positions, OneWorkerPerSymbol, [Next]_vars PROVE Positions'
  OBVIOUS
<1>1. ASSUME NEW w \in Workers, ExitSelect(w) \/ Advance(w) PROVE Positions'
  BY <1>1, PositionsWorkers
<1>2. CASE ApplyCommit \/ Crash
  BY <1>2, PositionsApplyCommit, PositionsCrash
<1>3. CASE \/ ApplyLookup \/ UNCHANGED vars
           \/ \E i \in Ids, e \in BrokerEvents : BrokerEvent(i, e) \/ Redeliver(i, e)
  <2>1. UNCHANGED local /\ UNCHANGED trades
    BY <1>3 DEF ApplyLookup, BrokerEvent, Redeliver, vars, local, db
  <2>2. QED
    BY <2>1, PositionsOthers DEF RowKept
<1>4. QED
  BY <1>1, <1>2, <1>3 DEF Next, Consumer

\* The one-position rule is broken by nothing but two workers that evaluate
\* bars of one symbol at the same time: as long as that does not happen, every
\* symbol has at most one active buy, whatever fails, is lost or repeated, in
\* any number of workers (OnePositionPerSymbol).
THEOREM OnePosition == Spec /\ []OneWorkerPerSymbol => []OnePositionPerSymbol
<1>1. Spec => []IInv
  BY InitInv, NextInv, PTL DEF Spec
<1>2. Spec /\ []OneWorkerPerSymbol => []Positions
  BY <1>1, PositionsInit, PositionsNext, PTL DEF Spec
<1>3. Positions => OnePositionPerSymbol
  BY DEF Positions, OneOpenBut, OpenBut, OpenPosition, HasSell, OnePositionPerSymbol
<1>4. QED
  BY <1>2, <1>3, PTL

\* The same for the history that TLC follows: in any number of workers, a
\* symbol gets a second active buy only after two of them have met on a symbol
\* (OnePositionUnlessMet).
THEOREM PositionUnlessMet == HSpec => []OnePositionUnlessMet
<1> DEFINE Alone == ~met => OneWorkerPerSymbol /\ Positions
           HInv  == IInv /\ Alone
<1>1. HInit => HInv
  BY InitInv, PositionsInit DEF HInit, Init, OneWorkerPerSymbol
<1>2. HInv /\ [HNext]_<<vars, met>> => HInv'
  <2> SUFFICES ASSUME HInv, [HNext]_<<vars, met>> PROVE HInv'
    OBVIOUS
  <2>1. IInv'
    BY NextInv DEF HNext
  <2>2. ASSUME ~met, [Next]_vars, OneWorkerPerSymbol' PROVE Alone'
    BY <2>2, PositionsNext
  <2>3. CASE HNext
    <3>1. ~met' => ~met /\ OneWorkerPerSymbol'
      BY <2>3, Zenon DEF HNext
    <3>2. [Next]_vars
      BY <2>3 DEF HNext
    <3>3. QED
      BY <2>1, <2>2, <3>1, <3>2, Zenon
  <2>4. CASE UNCHANGED <<vars, met>>
    <3>1. UNCHANGED vars /\ met' = met
      BY <2>4
    <3>2. OneWorkerPerSymbol => OneWorkerPerSymbol'
      BY <3>1 DEF vars, OneWorkerPerSymbol
    <3>3. QED
      BY <2>1, <2>2, <3>1, <3>2, Zenon
  <2>5. QED
    BY <2>1, <2>3, <2>4
<1>3. HInv => OnePositionUnlessMet
  BY DEF Positions, OneOpenBut, OpenBut, OpenPosition, HasSell, OnePositionPerSymbol,
         OnePositionUnlessMet
<1>4. QED
  BY <1>1, <1>2, <1>3, PTL DEF HSpec

-----------------------------------------------------------------------------
(* Sells that stay have an order.                                          *)

\* The broker forgets no order.
LEMMA OrdersLast ==
    ASSUME IInv, [Next]_vars, NEW i \in Ids, orders[i] # Null
    PROVE  orders'[i] # Null
<1>1. CASE UNCHANGED orders
  BY <1>1
<1>2. ASSUME NEW w \in Workers, PlaceSell(w) \/ PlaceBuy(w) PROVE orders'[i] # Null
  <2>1. CASE UNCHANGED orders
    BY <2>1
  <2>2. ASSUME NEW j \in Ids, IsRow(j), orders' = [orders EXCEPT ![j] = NewOrder(j)]
        PROVE  orders'[i] # Null
    BY <2>2, NewOrderType, NullFacts DEF IInv, TypeOK
  <2>3. CASE PlaceSell(w)
    BY <2>1, <2>2, <2>3
    DEF PlaceSell, IInv, TypeOK, RowsOwned, WorkerOK, PendOK, PendingRow
  <2>4. CASE PlaceBuy(w)
    BY <2>1, <2>2, <2>4 DEF PlaceBuy, IInv, RowsOwned, WorkerOK, BuyOK, PendingRow
  <2>5. QED
    BY <1>2, <2>3, <2>4
<1>3. ASSUME NEW j \in Ids, NEW e \in BrokerEvents, BrokerEvent(j, e)
      PROVE  orders'[i] # Null
  <2>1. /\ orders[j] \in Order
        /\ orders' = [orders EXCEPT ![j] = [orders[j] EXCEPT !.events = @ \cup {e}]]
    BY <1>3 DEF BrokerEvent, Working, IInv, TypeOK
  <2>2. [orders[j] EXCEPT !.events = @ \cup {e}] \in Order
    BY <2>1, EventsAssumption DEF Order
  <2>3. QED
    BY <2>1, <2>2, NullFacts DEF IInv, TypeOK
<1>4. \/ UNCHANGED orders
      \/ \E w \in Workers : PlaceSell(w) \/ PlaceBuy(w)
      \/ \E j \in Ids, e \in BrokerEvents : BrokerEvent(j, e)
  BY DEF Next, Advance, Consumer, vars, ExitSelect, ExitCommit, SellLink, SellClean,
         EvaluateBuySignal, GetAvailableBudget, BuyCheck, BuyCommit, BuyLink,
         CancelTradeAndRestoreSlot, ApplyLookup, ApplyCommit, Redeliver, Crash
<1>5. QED
  BY <1>1, <1>2, <1>3, <1>4

\* A worker's step is right for the sells if its own that it lets go are
\* placed, and its new ones are in its hands.
LEMMA SellsWorker ==
    ASSUME IInv, SellsPlaced, [Next]_vars, NEW w \in Workers, OthersStay(w),
           \A i \in Ids : IsSell(i)' => \/ i \in Selling(w)'
                                       \/ /\ IsSell(i)
                                          /\ i \in Selling(w) => orders[i] # Null
    PROVE  SellsPlaced'
<1> SUFFICES ASSUME NEW i \in Ids, IsSell(i)' PROVE Deletable(i)' \/ orders'[i] # Null
  BY DEF SellsPlaced
<1>1. CASE i \in Selling(w)'
  BY <1>1 DEF Deletable
<1>2. CASE IsSell(i) /\ (i \in Selling(w) => orders[i] # Null)
  <2>1. ASSUME NEW v \in Workers \ {w}, i \in Selling(v) PROVE Deletable(i)'
    BY <2>1 DEF OthersStay, Selling, Deletable
  <2>2. QED
    BY <1>2, <2>1, OrdersLast DEF SellsPlaced, Deletable
<1>3. QED
  BY <1>1, <1>2

LEMMA SellsWorkers ==
    ASSUME IInv, Audit, SellsPlaced, "db" \notin Faults, [Next]_vars,
           NEW w \in Workers, ExitSelect(w) \/ Advance(w)
    PROVE  SellsPlaced'
<1>1. OthersStay(w)
  BY WorkerFrame
<1>2. CASE ExitCommit(w) /\ ~UNCHANGED trades
  <2>1. pc[w] = "exitCommit" /\ Selling(w) = {}
    BY <1>2 DEF ExitCommit, IInv, RowsOwned, WorkerOK, PendOK, Selling, SellLabels
  <2>2. PICK hit \in SUBSET StillOpen(w) : InsertSells(w, hit)
    BY <1>2 DEF ExitCommit, db
  <2>3. \A i \in Ids \ pend'[w] : trades'[i] = trades[i]
    BY <1>2, <2>1, <2>2, InsertSellsFacts
  <2>4. pend'[w] \subseteq Selling(w)'
    BY DEF Selling
  <2>5. QED
    BY <1>1, <2>1, <2>3, <2>4, SellsWorker DEF IsSell, IsRow
<1>3. CASE SellLink(w)
  <2>1. /\ pc[w] = "sellLink" /\ pend' = pend /\ orders[mine[w]] # Null
        /\ KeepsSells
    BY <1>3, WorkerKeepsSells
    DEF SellLink, ExitCommit, Audit, PlacedOK
  <2>2. \A i \in Selling(w) : i \in Selling(w)' \/ orders[i] # Null
    BY <2>1 DEF Selling
  <2>3. QED
    BY <1>1, <2>1, <2>2, SellsWorker DEF KeepsSells
<1>4. CASE SellClean(w)
  <2>1. /\ pc[w] = "sellClean" /\ pend' = pend
        /\ trades' = [trades EXCEPT ![mine[w]] = Null]
    BY <1>4 DEF SellClean
  <2>2. /\ \A i \in Ids \ {mine[w]} : trades'[i] = trades[i]
        /\ mine[w] \in Ids => trades'[mine[w]] = Null
    BY <2>1 DEF IInv, TypeOK
  <2>3. Selling(w) = pend[w] \cup {mine[w]} /\ pend[w] \subseteq Selling(w)'
    BY <2>1 DEF Selling, SellLabels
  <2>4. QED
    BY <1>1, <2>2, <2>3, SellsWorker DEF IsSell, IsRow
<1>5. CASE PlaceSell(w)
  <2>1. /\ pc[w] = "exits"
        /\ \E i \in pend[w] : /\ mine' = [mine EXCEPT ![w] = i]
                              /\ pend' = [pend EXCEPT ![w] = @ \ {i}]
        /\ Goto(w, "sellLink") \/ Goto(w, "sellClean")
    BY <1>5 DEF PlaceSell
  <2>2. Selling(w) \subseteq Selling(w)'
    BY <2>1 DEF Goto, Selling, SellLabels, IInv, TypeOK
  <2>3. KeepsSells
    BY <1>5, WorkerKeepsSells DEF PlaceSell, db
  <2>4. QED
    BY <1>1, <2>2, <2>3, SellsWorker DEF KeepsSells
<1>6. CASE ExitCommit(w) /\ UNCHANGED trades
  <2>1. Selling(w) = {}
    BY <1>6 DEF ExitCommit, IInv, RowsOwned, WorkerOK, PendOK, Selling, SellLabels
  <2>2. QED
    BY <1>1, <1>6, <2>1, SellsWorker DEF IsSell, IsRow
<1>7. CASE \/ ExitSelect(w) \/ EvaluateBuySignal(w) \/ GetAvailableBudget(w)
           \/ BuyCheck(w) \/ BuyCommit(w) \/ PlaceBuy(w) \/ BuyLink(w)
           \/ CancelTradeAndRestoreSlot(w)
  <2>1. Selling(w) = {} /\ ~ExitCommit(w)
    BY <1>7
    DEF ExitSelect, EvaluateBuySignal, GetAvailableBudget, BuyCheck, BuyCommit, PlaceBuy,
        BuyLink, CancelTradeAndRestoreSlot, ExitCommit,
        IInv, RowsOwned, WorkerOK, PendOK, Selling, SellLabels
  <2>2. KeepsSells
    BY <2>1, WorkerKeepsSells
  <2>3. QED
    BY <1>1, <2>1, <2>2, SellsWorker DEF KeepsSells
<1>8. QED
  BY <1>2, <1>3, <1>4, <1>5, <1>6, <1>7 DEF Advance

LEMMA SellsNext ==
    ASSUME IInv, Audit, SellsPlaced, "db" \notin Faults, "crash" \notin Faults, [Next]_vars
    PROVE  SellsPlaced'
<1>1. ASSUME NEW w \in Workers, ExitSelect(w) \/ Advance(w) PROVE SellsPlaced'
  BY <1>1, SellsWorkers
<1>2. CASE ~\E w \in Workers : ExitSelect(w) \/ Advance(w)
  <2>1. UNCHANGED local
    BY <1>2
    DEF Next, Consumer, ApplyLookup, ApplyCommit, BrokerEvent, Redeliver, Crash, vars, local
  <2>2. \A i \in Ids : Deletable(i)' = Deletable(i)
    BY <2>1 DEF local, Deletable, Selling
  <2>3. KeepsSells
    BY <1>2, OthersKeepSells
  <2>4. QED
    BY <2>2, <2>3, OrdersLast DEF SellsPlaced, KeepsSells
<1>3. QED
  BY <1>1, <1>2

\* As long as statements succeed and the process lives, no sell row stays
\* without an order: a refused sell is out of the way of the next one, in any
\* number of workers and with lost replies too (SellsPlaced).
THEOREM SellsHaveOrders ==
    ASSUME "db" \notin Faults, "crash" \notin Faults
    PROVE  Spec => []SellsPlaced
<1>1. Init => SellsPlaced
  BY DEF Init, SellsPlaced, IsSell, IsRow
<1>2. Spec => [](IInv /\ Audit)
  BY InitInv, NextInv, AuditInit, AuditNext, PTL DEF Spec
<1>3. QED
  BY <1>1, <1>2, SellsNext, PTL DEF Spec

=============================================================================
