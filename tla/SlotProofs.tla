----------------------------- MODULE SlotProofs -----------------------------
(***************************************************************************)
(* TradeLifecycle implements SlotLedger, and the slots add up.  Both rest  *)
(* on IInv: a worker that gives a slot back does it for a row nobody else  *)
(* has closed, and the consumer closes the row as it read it.              *)
(***************************************************************************)
EXTENDS TradeLifecycleProofs

\* The slots of an identifier are as they were.
SameSlot(i) ==
    /\ IsBuy(i)' <=> IsBuy(i)
    /\ IsBuy(i) => /\ trades'[i].transfer = trades[i].transfer
                   /\ trades'[i].status \in Holding <=> trades[i].status \in Holding

LEMMA SameSlotHeld ==
    ASSUME NEW i \in Ids, SameSlot(i)
    PROVE  SlotsHeld(i)' = SlotsHeld(i) /\ (i \in SlotsClosed' <=> i \in SlotsClosed)
BY DEF SameSlot, SlotsHeld, SlotsClosed

LEMMA SameSlots ==
    ASSUME remaining' = remaining, \A i \in Ids : SameSlot(i)
    PROVE  UNCHANGED Ledger!ledger
<1>1. [i \in Ids |-> SlotsHeld(i)]' = [i \in Ids |-> SlotsHeld(i)]
  BY SameSlotHeld
<1>2. SlotsClosed' = SlotsClosed
  BY SameSlotHeld DEF SlotsClosed
<1>3. QED
  BY <1>1, <1>2 DEF Ledger!ledger

LEMMA SameRows ==
    ASSUME UNCHANGED <<trades, remaining>>
    PROVE  UNCHANGED Ledger!ledger
BY SameSlots DEF SameSlot, IsBuy, IsRow

\* One identifier lets go of its slot, the others keep theirs.
LEMMA ReleaseStep ==
    ASSUME NEW i \in Ids, NEW t \in Transfers, IsBuy(i), IsBuy(i)',
           trades[i].status \in Holding, trades[i].transfer = t,
           trades'[i].status \notin Holding,
           remaining' = [remaining EXCEPT ![t] = @ + 1],
           \A j \in Ids \ {i} : SameSlot(j)
    PROVE  Ledger!Release(i, t)
<1>1. SlotsHeld(i) = {t} /\ SlotsHeld(i)' = {}
  BY DEF SlotsHeld
<1>2. [j \in Ids |-> SlotsHeld(j)]' = [[j \in Ids |-> SlotsHeld(j)] EXCEPT ![i] = {}]
  BY <1>1, SameSlotHeld
<1>3. SlotsClosed' = SlotsClosed \cup {i}
  <2>1. i \in SlotsClosed'
    BY DEF SlotsClosed
  <2>2. \A j \in Ids \ {i} : j \in SlotsClosed' <=> j \in SlotsClosed
    BY SameSlotHeld
  <2>3. QED
    BY <2>1, <2>2 DEF SlotsClosed
<1>4. QED
  BY <1>1, <1>2, <1>3 DEF Ledger!Release

\* A new identifier takes a slot, the others keep theirs.
LEMMA ReserveStep ==
    ASSUME NEW i \in Ids, NEW t \in Transfers, ~IsBuy(i), IsBuy(i)',
           trades'[i].status \in Holding, trades'[i].transfer = t,
           remaining[t] > 0, remaining' = [remaining EXCEPT ![t] = @ - 1],
           \A j \in Ids \ {i} : SameSlot(j)
    PROVE  Ledger!Reserve(i, t)
<1>1. SlotsHeld(i) = {} /\ SlotsHeld(i)' = {t}
  BY DEF SlotsHeld
<1>2. [j \in Ids |-> SlotsHeld(j)]' = [[j \in Ids |-> SlotsHeld(j)] EXCEPT ![i] = {t}]
  BY <1>1, SameSlotHeld
<1>3. SlotsClosed' = SlotsClosed /\ i \notin SlotsClosed
  <2>1. i \notin SlotsClosed' /\ i \notin SlotsClosed
    BY DEF SlotsClosed
  <2>2. \A j \in Ids \ {i} : j \in SlotsClosed' <=> j \in SlotsClosed
    BY SameSlotHeld
  <2>3. QED
    BY <2>1, <2>2 DEF SlotsClosed
<1>4. QED
  BY <1>1, <1>2, <1>3 DEF Ledger!Reserve

-----------------------------------------------------------------------------
(* The actions that write rows.                                            *)

LEMMA ExitCommitSlots ==
    ASSUME IInv, NEW w \in Workers, ExitCommit(w)
    PROVE  UNCHANGED Ledger!ledger
<1>1. CASE UNCHANGED db
  BY <1>1, SameRows DEF db
<1>2. ASSUME NEW hit \in SUBSET StillOpen(w), InsertSells(w, hit), UNCHANGED remaining
      PROVE  UNCHANGED Ledger!ledger
  <2>1. pc[w] = "exitCommit"
    BY DEF ExitCommit
  <2>2. \A i \in FreshIds : ~IsBuy(i)
    BY DEF FreshIds, IsBuy, IsRow
  <2>3. ASSUME NEW i \in Ids PROVE SameSlot(i)
    BY <1>2, <2>1, <2>2, InsertSellsFacts DEF SameSlot, IsBuy, IsRow
  <2>4. QED
    BY <1>2, <2>3, SameSlots
<1>3. QED
  BY <1>1, <1>2 DEF ExitCommit

LEMMA SellSlots ==
    ASSUME IInv, NEW w \in Workers, SellLink(w) \/ SellClean(w)
    PROVE  UNCHANGED Ledger!ledger
<1>1. pc[w] \in SellLabels /\ remaining' = remaining
  BY DEF SellLink, SellClean, SellLabels
<1>2. /\ mine[w] \in Ids /\ IsRow(mine[w]) /\ trades[mine[w]].side = "sell"
  BY <1>1 DEF IInv, RowsOwned, WorkerOK, SellOK, PendingRow
<1> DEFINE m == mine[w]
<1>3. /\ \A j \in Ids \ {m} : trades'[j] = trades[j]
      /\ trades'[m] = Null \/ trades'[m].side = "sell"
  <2>1. CASE SellLink(w)
    <3>1. LinkRow(m)
      BY <2>1 DEF SellLink
    <3>2. QED
      BY <1>2, <3>1, LinkRowFacts
  <2>2. CASE SellClean(w)
    <3>1. trades' = [trades EXCEPT ![m] = Null] \/ trades' = trades
      BY <2>2 DEF SellClean
    <3>2. QED
      BY <1>2, <3>1 DEF IInv, TypeOK
  <2>3. QED
    BY <2>1, <2>2
<1> HIDE DEF m
<1>4. m \in Ids /\ IsRow(m) /\ trades[m].side = "sell"
  BY <1>2 DEF m
<1>5. ASSUME NEW i \in Ids PROVE SameSlot(i)
  BY <1>3, <1>4 DEF SameSlot, IsBuy, IsRow
<1>6. QED
  BY <1>1, <1>5, SameSlots

LEMMA BuyLinkSlots ==
    ASSUME IInv, NEW w \in Workers, BuyLink(w)
    PROVE  UNCHANGED Ledger!ledger
<1>1. LinkRow(mine[w]) /\ remaining' = remaining
  BY DEF BuyLink
<1>2. mine[w] \in Ids /\ PendingRow(mine[w], "buy")
  BY DEF BuyLink, IInv, RowsOwned, WorkerOK, BuyOK
<1>3. ASSUME NEW i \in Ids PROVE SameSlot(i)
  <2>1. CASE i # mine[w]
    BY <1>1, <1>2, <2>1, LinkRowFacts DEF PendingRow, SameSlot, IsBuy, IsRow
  <2>2. CASE i = mine[w]
    <3>1. /\ trades'[i] \in Row /\ trades'[i].side = "buy"
          /\ trades'[i].transfer = trades[i].transfer /\ trades'[i].status = "pending"
      BY <1>1, <1>2, <2>2, LinkRowFacts DEF PendingRow
    <3>2. IsBuy(i) /\ trades[i].status = "pending" /\ trades'[i] # Null
      BY <1>2, <2>2, <3>1, NullFacts DEF PendingRow, IsBuy
    <3>3. QED
      BY <3>1, <3>2 DEF SameSlot, IsBuy, IsRow
  <2>3. QED
    BY <2>1, <2>2
<1>4. QED
  BY <1>1, <1>3, SameSlots

LEMMA BuyCommitSlots ==
    ASSUME IInv, NEW w \in Workers, BuyCommit(w)
    PROVE  (\E i \in Ids, t \in Transfers : Ledger!Reserve(i, t)) \/ UNCHANGED Ledger!ledger
<1>1. CASE UNCHANGED <<trades, remaining>>
  BY <1>1, SameRows
<1>2. CASE /\ remaining[budget[w]] > 0
           /\ trades'    = [trades EXCEPT ![mine[w]] = NewBuy(w)]
           /\ remaining' = [remaining EXCEPT ![budget[w]] = @ - 1]
  <2>1. /\ mine[w] \in Ids /\ trades[mine[w]] = Null
        /\ budget[w] \in Transfers /\ sym[w] \in Symbols
    BY DEF BuyCommit, IInv, RowsOwned, WorkerOK, BuyOK, LocalOK, BuyLabels
  <2>2. PICK i \in Ids : i = mine[w]
    BY <2>1
  <2>3. /\ trades'[i] = NewBuy(w) /\ trades[i] = Null
        /\ \A j \in Ids \ {i} : trades'[j] = trades[j]
    BY <1>2, <2>1, <2>2 DEF IInv, TypeOK
  <2>4. /\ NewBuy(w) # Null /\ NewBuy(w).side = "buy" /\ NewBuy(w).status = "pending"
        /\ NewBuy(w).transfer = budget[w]
    <3>1. NewBuy(w) \in Row
      BY <2>1 DEF NewBuy, Row, Statuses
    <3>2. QED
      BY <3>1, NullFacts DEF NewBuy
  <2>5. ~IsBuy(i) /\ IsBuy(i)'
    BY <2>3, <2>4 DEF IsBuy, IsRow
  <2>6. \A j \in Ids \ {i} : SameSlot(j)
    BY <2>3 DEF SameSlot, IsBuy, IsRow
  <2>7. PICK t \in Transfers : t = budget[w]
    BY <2>1
  <2>8. Ledger!Reserve(i, t)
    BY <1>2, <2>3, <2>4, <2>5, <2>6, <2>7, ReserveStep DEF Holding
  <2>9. QED
    BY <2>8
<1>3. QED
  BY <1>1, <1>2 DEF BuyCommit

LEMMA CancelSlots ==
    ASSUME IInv, NEW w \in Workers, CancelTradeAndRestoreSlot(w)
    PROVE  (\E i \in Ids, t \in Transfers : Ledger!Release(i, t)) \/ UNCHANGED Ledger!ledger
<1>1. CASE UNCHANGED <<trades, remaining>>
  BY <1>1, SameRows
<1>2. CASE /\ trades'    = [trades EXCEPT ![mine[w]].status = "cancelled"]
           /\ remaining' = [remaining EXCEPT ![budget[w]] = @ + 1]
  <2>1. /\ mine[w] \in Ids /\ PendingRow(mine[w], "buy")
        /\ trades[mine[w]].transfer = budget[w] /\ budget[w] \in Transfers
    BY DEF CancelTradeAndRestoreSlot, IInv, RowsOwned, WorkerOK, BuyOK, LocalOK, BuyLabels
  <2>2. PICK i \in Ids, t \in Transfers : i = mine[w] /\ t = budget[w]
    BY <2>1
  <2>3. trades[i] \in Row /\ IsBuy(i) /\ trades[i].status = "pending" /\ trades[i].transfer = t
    BY <2>1, <2>2, RowType DEF IInv, PendingRow, IsBuy
  <2>4. /\ trades'[i] = [trades[i] EXCEPT !.status = "cancelled"]
        /\ \A j \in Ids \ {i} : trades'[j] = trades[j]
    BY <1>2, <2>2 DEF IInv, TypeOK
  <2>5. /\ trades'[i] \in Row /\ trades'[i].side = "buy"
        /\ trades'[i].status = "cancelled"
    BY <2>3, <2>4 DEF Row, Statuses, IsBuy
  <2>6. IsBuy(i)'
    BY <2>5, NullFacts DEF IsBuy, IsRow
  <2>7. \A j \in Ids \ {i} : SameSlot(j)
    BY <2>4 DEF SameSlot, IsBuy, IsRow
  <2>8. Ledger!Release(i, t)
    BY <1>2, <2>2, <2>3, <2>5, <2>6, <2>7, ReleaseStep DEF Holding
  <2>9. QED
    BY <2>8
<1>3. QED
  BY <1>1, <1>2 DEF CancelTradeAndRestoreSlot

LEMMA ApplyCommitSlots ==
    ASSUME IInv, ApplyCommit
    PROVE  (\E i \in Ids, t \in Transfers : Ledger!Release(i, t)) \/ UNCHANGED Ledger!ledger
<1>1. CASE UNCHANGED <<trades, remaining>>
  BY <1>1, SameRows
<1>2. CASE /\ trades'    = [trades EXCEPT ![cur.id] = Written]
           /\ remaining' = IF RestoresSlot(cur.row, cur.status)
                           THEN [remaining EXCEPT ![cur.row.transfer] = @ + 1]
                           ELSE remaining
  <2>1. cur # Null /\ cur.row.status \notin Terminal /\ cur.status \in Statuses
    BY DEF ApplyCommit, IInv, TypeOK, RowsOwned, CurOK, Copy
  <2>2. PICK i \in Ids : i = cur.id
    BY <2>1, WrittenFacts
  <2>3. PICK row \in Row : row = cur.row
    BY <2>1, WrittenFacts
  <2>4. PICK new \in Row : new = Written
    BY <2>1, WrittenFacts
  <2>5. /\ trades[i] = row /\ trades'[i] = new /\ new.status = cur.status
        /\ new.side = row.side /\ new.transfer = row.transfer
        /\ row # Null /\ new # Null
        /\ \A j \in Ids \ {i} : trades'[j] = trades[j]
    BY <1>2, <2>1, <2>2, <2>3, <2>4, WrittenFacts, NullFacts DEF IInv, TypeOK
  <2>6. row.status \in Holding /\ row.status \in Statuses /\ row.transfer \in Transfers
    BY <2>1, <2>3 DEF Row, Statuses, Holding, Terminal
  <2>7. \A j \in Ids \ {i} : SameSlot(j)
    BY <2>5 DEF SameSlot, IsBuy, IsRow
  <2>8. CASE RestoresSlot(cur.row, cur.status)
    <3>1. row.side = "buy" /\ new.status \notin Holding
      BY <2>3, <2>5, <2>8 DEF RestoresSlot, Holding
    <3>2. IsBuy(i) /\ IsBuy(i)'
      BY <2>5, <3>1 DEF IsBuy, IsRow
    <3>3. PICK t \in Transfers : t = row.transfer
      BY <2>6
    <3>4. remaining' = [remaining EXCEPT ![t] = @ + 1]
      BY <1>2, <2>3, <2>8, <3>3
    <3>5. Ledger!Release(i, t)
      BY <2>5, <2>6, <2>7, <3>1, <3>2, <3>3, <3>4, ReleaseStep
    <3>6. QED
      BY <3>5
  <2>9. CASE ~RestoresSlot(cur.row, cur.status)
    <3>1. row.side = "buy" => new.status \in Holding
      BY <2>1, <2>3, <2>5, <2>9 DEF RestoresSlot, Holding, Statuses
    <3>2. SameSlot(i)
      BY <2>5, <2>6, <3>1 DEF SameSlot, IsBuy, IsRow
    <3>3. QED
      BY <1>2, <2>7, <2>9, <3>2, SameSlots
  <2>10. QED
    BY <2>8, <2>9
<1>3. QED
  BY <1>1, <1>2 DEF ApplyCommit, Written

-----------------------------------------------------------------------------
(* The refinement and the conservation of slots.                           *)

LEMMA LedgerInit == Init => Ledger!Init
BY DEF Init, Ledger!Init, SlotsHeld, SlotsClosed, IsBuy, IsRow

LEMMA LedgerStep == IInv /\ [Next]_vars => [Ledger!Next]_(Ledger!ledger)
<1> SUFFICES ASSUME IInv, [Next]_vars
             PROVE  Ledger!Next \/ UNCHANGED Ledger!ledger
  OBVIOUS
<1>1. ASSUME NEW w \in Workers, ExitSelect(w) \/ Advance(w)
      PROVE  Ledger!Next \/ UNCHANGED Ledger!ledger
  <2>1. CASE \/ ExitSelect(w) \/ PlaceSell(w) \/ EvaluateBuySignal(w)
             \/ GetAvailableBudget(w) \/ BuyCheck(w) \/ PlaceBuy(w)
    BY <2>1, SameRows
    DEF ExitSelect, PlaceSell, EvaluateBuySignal, GetAvailableBudget, BuyCheck,
        PlaceBuy, db
  <2>2. CASE ExitCommit(w) \/ SellLink(w) \/ SellClean(w) \/ BuyLink(w)
    BY <2>2, ExitCommitSlots, SellSlots, BuyLinkSlots
  <2>3. CASE BuyCommit(w) \/ CancelTradeAndRestoreSlot(w)
    BY <2>3, BuyCommitSlots, CancelSlots DEF Ledger!Next
  <2>4. QED
    BY <1>1, <2>1, <2>2, <2>3 DEF Advance
<1>2. CASE Consumer
  <2>1. CASE ApplyLookup
    BY <2>1, SameRows DEF ApplyLookup, db
  <2>2. CASE ApplyCommit
    BY <2>2, ApplyCommitSlots DEF Ledger!Next
  <2>3. QED
    BY <1>2, <2>1, <2>2 DEF Consumer
<1>3. ASSUME NEW i \in Ids, NEW e \in BrokerEvents, BrokerEvent(i, e) \/ Redeliver(i, e)
      PROVE  UNCHANGED Ledger!ledger
  BY <1>3, SameRows DEF BrokerEvent, Redeliver, db
<1>4. CASE Crash \/ UNCHANGED vars
  BY <1>4, SameRows DEF Crash, vars, db
<1>5. QED
  BY <1>1, <1>2, <1>3, <1>4 DEF Next

\* Whatever the workers, the consumer and the broker do, each step is a step of
\* the slot ledger or none: slots are taken one at a time and given back at
\* most once, to the transfer they came from (LedgerSpec).
THEOREM LedgerImplemented == Spec => LedgerSpec
<1>1. Spec => []IInv
  BY InitInv, NextInv, PTL DEF Spec
<1>2. QED
  BY <1>1, LedgerInit, LedgerStep, PTL DEF Spec, LedgerSpec, Ledger!Spec

\* A reservation or a release moves one slot between remaining_trades and the
\* buys that hold one.
LEMMA ConservationStep ==
    ASSUME IInv, SlotConservation, [Ledger!Next]_(Ledger!ledger), IInv'
    PROVE  SlotConservation'
<1>1. \A t \in Transfers : SlotsUsed(t) = {i \in Ids : SlotsHeld(i) = {t}}
  BY DEF SlotsUsed, SlotsHeld
<1>2. \A t \in Transfers : SlotsUsed(t)' = {i \in Ids : SlotsHeld(i)' = {t}}
  BY DEF SlotsUsed, SlotsHeld
<1>3. \A t \in Transfers : IsFiniteSet(SlotsUsed(t)) /\ Cardinality(SlotsUsed(t)) \in Nat
  <2>1. \A t \in Transfers : SlotsUsed(t) \subseteq Ids
    BY DEF SlotsUsed
  <2>2. QED
    BY <2>1, IdsAssumption, FS_Subset, FS_CardinalityType
<1>4. SUFFICES ASSUME NEW t \in Transfers
               PROVE  remaining'[t] + Cardinality(SlotsUsed(t)') = TargetTrades[t]
  BY DEF SlotConservation
<1>5. /\ remaining[t] + Cardinality(SlotsUsed(t)) = TargetTrades[t]
      /\ remaining \in [Transfers -> Nat] /\ TargetTrades[t] \in Nat
  BY TargetAssumption DEF SlotConservation, IInv, TypeOK
<1>6. CASE UNCHANGED Ledger!ledger
  <2>1. remaining' = remaining /\ \A i \in Ids : SlotsHeld(i)' = SlotsHeld(i)
    <3>1. [i \in Ids |-> SlotsHeld(i)]' = [i \in Ids |-> SlotsHeld(i)] /\ remaining' = remaining
      BY <1>6 DEF Ledger!ledger
    <3>2. \A i \in Ids : [j \in Ids |-> SlotsHeld(j)'][i] = [j \in Ids |-> SlotsHeld(j)][i]
      BY <3>1
    <3>3. QED
      BY <3>1, <3>2
  <2>2. SlotsUsed(t)' = SlotsUsed(t)
    BY <1>1, <1>2, <2>1
  <2>3. QED
    BY <1>5, <2>1, <2>2
<1>7. ASSUME NEW i \in Ids, NEW u \in Transfers, Ledger!Reserve(i, u)
      PROVE  remaining'[t] + Cardinality(SlotsUsed(t)') = TargetTrades[t]
  <2>1. /\ SlotsHeld(i) = {} /\ remaining[u] > 0
        /\ remaining' = [remaining EXCEPT ![u] = @ - 1]
        /\ [j \in Ids |-> SlotsHeld(j)'] = [[j \in Ids |-> SlotsHeld(j)] EXCEPT ![i] = {u}]
    BY <1>7 DEF Ledger!Reserve
  <2>2. SlotsHeld(i)' = {u} /\ \A j \in Ids \ {i} : SlotsHeld(j)' = SlotsHeld(j)
    <3>1. \A j \in Ids : [k \in Ids |-> SlotsHeld(k)'][j]
                           = [[k \in Ids |-> SlotsHeld(k)] EXCEPT ![i] = {u}][j]
      BY <2>1
    <3>2. QED
      BY <3>1
  <2>3. CASE t = u
    <3>1. SlotsUsed(t)' = SlotsUsed(t) \cup {i} /\ i \notin SlotsUsed(t)
      BY <1>1, <1>2, <2>1, <2>2, <2>3
    <3>2. Cardinality(SlotsUsed(t)') = Cardinality(SlotsUsed(t)) + 1
      BY <1>3, <3>1, FS_AddElement
    <3>3. QED
      BY <1>3, <1>5, <2>1, <2>3, <3>2
  <2>4. CASE t # u
    <3>1. SlotsUsed(t)' = SlotsUsed(t)
      BY <1>1, <1>2, <2>1, <2>2, <2>4
    <3>2. QED
      BY <1>5, <2>1, <2>4, <3>1
  <2>5. QED
    BY <2>3, <2>4
<1>8. ASSUME NEW i \in Ids, NEW u \in Transfers, Ledger!Release(i, u)
      PROVE  remaining'[t] + Cardinality(SlotsUsed(t)') = TargetTrades[t]
  <2>1. /\ SlotsHeld(i) = {u}
        /\ remaining' = [remaining EXCEPT ![u] = @ + 1]
        /\ [j \in Ids |-> SlotsHeld(j)'] = [[j \in Ids |-> SlotsHeld(j)] EXCEPT ![i] = {}]
    BY <1>8 DEF Ledger!Release
  <2>2. SlotsHeld(i)' = {} /\ \A j \in Ids \ {i} : SlotsHeld(j)' = SlotsHeld(j)
    <3>1. \A j \in Ids : [k \in Ids |-> SlotsHeld(k)'][j]
                           = [[k \in Ids |-> SlotsHeld(k)] EXCEPT ![i] = {}][j]
      BY <2>1
    <3>2. QED
      BY <3>1
  <2>3. CASE t = u
    <3>1. SlotsUsed(t)' = SlotsUsed(t) \ {i} /\ i \in SlotsUsed(t)
      BY <1>1, <1>2, <2>1, <2>2, <2>3
    <3>2. Cardinality(SlotsUsed(t)') = Cardinality(SlotsUsed(t)) - 1
      BY <1>3, <3>1, FS_RemoveElement
    <3>3. QED
      BY <1>3, <1>5, <2>1, <2>3, <3>2
  <2>4. CASE t # u
    <3>1. SlotsUsed(t)' = SlotsUsed(t)
      BY <1>1, <1>2, <2>1, <2>2, <2>4
    <3>2. QED
      BY <1>5, <2>1, <2>4, <3>1
  <2>5. QED
    BY <2>3, <2>4
<1>9. QED
  BY <1>6, <1>7, <1>8 DEF Ledger!Next

LEMMA ConservationInit == Init => SlotConservation
<1> SUFFICES ASSUME Init, NEW t \in Transfers
             PROVE  remaining[t] + Cardinality(SlotsUsed(t)) = TargetTrades[t]
  BY DEF SlotConservation
<1>1. SlotsUsed(t) = {}
  BY DEF Init, SlotsUsed, IsBuy, IsRow
<1>2. QED
  BY <1>1, FS_EmptySet, TargetAssumption DEF Init

\* For every transfer, the slots left and the buys that hold one add up to
\* target_trades in every reachable state.
THEOREM SlotsConserved == Spec => []SlotConservation
<1>1. Spec => []IInv
  BY InitInv, NextInv, PTL DEF Spec
<1>2. IInv /\ IInv' /\ SlotConservation /\ [Next]_vars => SlotConservation'
  BY LedgerStep, ConservationStep
<1>3. QED
  BY <1>1, <1>2, ConservationInit, PTL DEF Spec

=============================================================================
