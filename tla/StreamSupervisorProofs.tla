----------------------- MODULE StreamSupervisorProofs -----------------------
(* Proofs about StreamSupervisor, for any symbols, clients and bounds.     *)
EXTENDS StreamSupervisor, FiniteSetTheorems, TLAPS

\* Why there is one connection: only the client Run works with can be up, and
\* only between a successful Connect and the end of the select.
OnlyDialed == /\ live \subseteq {dial}
              /\ loop \notin {"publish", "wait"} => live = {}

LEMMA OnlyDialedInit == Init => OnlyDialed
  BY DEF Init, OnlyDialed

LEMMA OnlyDialedNext == OnlyDialed /\ [Next]_vars => OnlyDialed'
<1> SUFFICES ASSUME OnlyDialed, [Next]_vars
             PROVE  OnlyDialed'
  OBVIOUS
<1>1. CASE Drop
  BY <1>1 DEF OnlyDialed, Drop, super
<1>2. CASE NewClient
  BY <1>2 DEF OnlyDialed, NewClient
<1>3. CASE Connect
  BY <1>3 DEF OnlyDialed, Connect
<1>4. CASE SetClient
  BY <1>4 DEF OnlyDialed, SetClient
<1>5. CASE Wait
  BY <1>5 DEF OnlyDialed, Wait
<1>6. CASE Returned
  BY <1>6 DEF OnlyDialed, Returned
<1>7. CASE Backoff
  BY <1>7 DEF OnlyDialed, Backoff
<1>8. CASE EditWatchlist \/ Cancel \/ Refresh \/ DailyReseed \/ UNCHANGED vars
  BY <1>8 DEF OnlyDialed, EditWatchlist, Cancel, Refresh, Fetch, Subscribe,
     SubscribeToBars, Seed, Unsubscribe, UnsubscribeFromBars, DailyReseed, super, vars
<1> QED
  BY <1>1, <1>2, <1>3, <1>4, <1>5, <1>6, <1>7, <1>8 DEF Next, Supervisor

LEMMA OnlyDialedOne == OnlyDialed => OneConnection
<1> SUFFICES ASSUME OnlyDialed
             PROVE  Cardinality(live) <= 1
  BY DEF OneConnection
<1>1. IsFiniteSet({dial}) /\ Cardinality({dial}) = 1
  BY FS_Singleton
<1>2. live \subseteq {dial}
  BY DEF OnlyDialed
<1> QED
  BY <1>1, <1>2, FS_Subset

\* The supervisor never has two connections up, through any sequence of
\* failed, dropped and cancelled attempts (StreamSupervisor.Run).
THEOREM AtMostOneConnection == Spec => []OneConnection
<1>1. Init => OnlyDialed
  BY OnlyDialedInit
<1>2. OnlyDialed /\ [Next]_vars => OnlyDialed'
  BY OnlyDialedNext
<1>3. OnlyDialed => OneConnection
  BY OnlyDialedOne
<1> QED
  BY <1>1, <1>2, <1>3, PTL DEF Spec

-----------------------------------------------------------------------------
(* The shape of the variables                                              *)

\* The delays are the powers of two up to MaxDelay.
Delays == {n \in {1, 2, 4, 8, 16, 32, 64} : n <= MaxDelay}

\* What there is to connect, to publish or to wait for is a client.
Dialed == loop \in {"dial", "publish", "wait"} => dial \in Clients

Shape == TypeOK /\ delay \in Delays /\ Dialed

LEMMA DelayDoubles ==
    ASSUME delay \in Delays
    PROVE  NextDelay \in Delays
  BY DelayAssumption DEF Delays, NextDelay

LEMMA ShapeInit == Init => Shape
<1> SUFFICES ASSUME Init PROVE Shape
  OBVIOUS
<1>1. 1 \in Delays /\ 1 \in 1..MaxDelay /\ 0 \in 0..MaxFaults /\ 0 \in 0..MaxEdits
  BY DelayAssumption, BoundsAssumption DEF Delays
<1>2. active \in SUBSET Symbols /\ seeded \in SUBSET Symbols
  BY DEF Init
<1> QED
  BY <1>1, <1>2 DEF Init, Shape, TypeOK, Dialed

LEMMA DelaysInRange == Delays \subseteq 1..MaxDelay
  BY DelayAssumption DEF Delays

\* A failure or an edit counts up to its bound.
LEMMA FaultCounts ==
    ASSUME faults \in 0..MaxFaults, NEW kind, Fault(kind)
    PROVE  faults' \in 0..MaxFaults
  BY BoundsAssumption DEF Fault

LEMMA SupervisorShape == ASSUME Shape, Supervisor PROVE Shape'
<1> USE DEF Shape, Dialed
<1>1. CASE NewClient
  BY <1>1 DEF NewClient, TypeOK, super, world, ticker
<1>2. CASE Connect
  <2>1. faults' \in 0..MaxFaults
    BY <1>2, FaultCounts DEF Connect, TypeOK
  <2>2. live' \in SUBSET Clients
    <3>1. CASE live' = live
      BY <3>1 DEF TypeOK
    <3>2. CASE live' = live \cup {dial} /\ dial \in Clients
      BY <3>2 DEF TypeOK
    <3> QED
      BY <1>2, <3>1, <3>2 DEF Connect, Dialed
  <2> QED
    BY <1>2, <2>1, <2>2 DEF Connect, TypeOK, world, ticker
<1>3. CASE SetClient
  BY <1>3 DEF SetClient, TypeOK, world, ticker
<1>4. CASE Wait
  BY <1>4 DEF Wait, TypeOK, world, ticker
<1>5. CASE Returned
  <2>1. delay' \in Delays
    BY <1>5, DelayAssumption DEF Returned, Delays
  <2> QED
    BY <1>5, <2>1, DelaysInRange DEF Returned, TypeOK, world, ticker
<1>6. CASE Backoff
  <2>1. delay' \in Delays
    BY <1>6, DelayDoubles DEF Backoff
  <2> QED
    BY <1>6, <2>1, DelaysInRange DEF Backoff, TypeOK, world, ticker
<1> QED
  BY <1>1, <1>2, <1>3, <1>4, <1>5, <1>6 DEF Supervisor

LEMMA RefreshShape == ASSUME Shape, Refresh \/ DailyReseed PROVE Shape'
<1> USE DEF Shape, Dialed, world, super, ticker
<1>1. faults' \in 0..MaxFaults
  BY FaultCounts DEF Refresh, Fetch, Subscribe, SubscribeToBars, Seed, Unsubscribe,
     UnsubscribeFromBars, DailyReseed, TypeOK
<1>2. CASE Fetch
  BY <1>1, <1>2 DEF Fetch, Diff, NextStep, TypeOK
<1>3. CASE Subscribe
  BY <1>3 DEF Subscribe, TypeOK
<1>4. CASE SubscribeToBars
  BY <1>1, <1>4 DEF SubscribeToBars, AfterAdded, TypeOK
<1>5. CASE Seed
  BY <1>1, <1>5 DEF Seed, AfterAdded, TypeOK
<1>6. CASE Unsubscribe
  BY <1>6 DEF Unsubscribe, TypeOK
<1>7. CASE UnsubscribeFromBars
  BY <1>1, <1>7 DEF UnsubscribeFromBars, TypeOK
<1>8. CASE DailyReseed
  BY <1>1, <1>8 DEF DailyReseed, TypeOK
<1> QED
  BY <1>2, <1>3, <1>4, <1>5, <1>6, <1>7, <1>8 DEF Refresh

LEMMA ShapeNext == Shape /\ [Next]_vars => Shape'
<1> SUFFICES ASSUME Shape, [Next]_vars PROVE Shape'
  OBVIOUS
<1>1. CASE EditWatchlist
  BY <1>1, BoundsAssumption DEF EditWatchlist, Shape, Dialed, TypeOK, super, ticker
<1>2. CASE Cancel
  BY <1>2 DEF Cancel, Shape, Dialed, TypeOK, world, super, ticker
<1>3. CASE Drop
  <2>1. faults' \in 0..MaxFaults
    BY <1>3, FaultCounts DEF Drop, Shape, Dialed, TypeOK
  <2> QED
    BY <1>3, <2>1 DEF Drop, Shape, Dialed, TypeOK, world, super, ticker
<1>4. CASE UNCHANGED vars
  BY <1>4 DEF vars, Shape, Dialed, TypeOK
<1> QED
  BY <1>1, <1>2, <1>3, <1>4, SupervisorShape, RefreshShape DEF Next

\* The variables keep their shape; the delay in particular never leaves the
\* range from 1 s to MaxDelay (ConnectWithRetry).
THEOREM SupervisorTypes == Spec => []TypeOK
<1>1. Shape => TypeOK
  BY DEF Shape
<1> QED
  BY <1>1, ShapeInit, ShapeNext, PTL DEF Spec

=============================================================================
