-------------------------- MODULE ShadowExitsProofs --------------------------
(***************************************************************************)
(* What holds of the rows, the locks and the decision log of ShadowExits   *)
(* for any number of workers and buys and any levels.                      *)
(***************************************************************************)
EXTENDS ShadowExits, TLAPS

-----------------------------------------------------------------------------
(* The levels                                                              *)

LEMMA LevelTypes ==
    ASSUME NEW r \in Row, NEW peak \in Nat
    PROVE  /\ Entry(r) \in Nat /\ ATR(r) \in Nat
           /\ Stop(r) \in Int /\ Target(r) \in Int
           /\ EffectiveAt(r, peak) \in Int
<1>1. /\ r.price \in Nat /\ r.step \in Nat /\ r.fill \in Fills \cup {Null}
      /\ ATR(r) \in Nat
  BY DEF Row, ATR
<1>2. Entry(r) \in Nat
  BY <1>1, PricesAssumption DEF Entry
<1>3. Stop(r) \in Int /\ Target(r) \in Int
  BY <1>1, ParamsAssumption DEF Stop, Target, StaticStop, StaticTarget
<1>4. EffectiveAt(r, peak) \in Int
  BY <1>1, <1>2, <1>3, ParamsAssumption DEF EffectiveAt, EffectiveStop, Higher
<1> QED
  BY <1>1, <1>2, <1>3, <1>4

\* The effective stop is at least the static one, and at most the peak where
\* the static one is.
LEMMA StopBounds ==
    ASSUME NEW peak \in Nat, NEW entry \in Nat, NEW step \in Nat, NEW dbStop \in Int,
           dbStop <= peak
    PROVE  /\ dbStop <= EffectiveStop(peak, entry, step, dbStop)
           /\ EffectiveStop(peak, entry, step, dbStop) <= peak
<1>1. Distance * step \in Nat /\ Trail * step \in Nat /\ BreakEven * step \in Nat
  BY ParamsAssumption
<1> QED
  BY <1>1 DEF EffectiveStop, Higher

\* A higher peak lowers the effective stop by no more than Slack.
LEMMA StopSlack ==
    ASSUME NEW p \in Nat, NEW q \in Nat, p <= q,
           NEW entry \in Nat, NEW step \in Nat, NEW dbStop \in Int
    PROVE  EffectiveStop(q, entry, step, dbStop)
             >= EffectiveStop(p, entry, step, dbStop) - Slack(step)
<1>1. Distance * step \in Nat /\ Trail * step \in Nat /\ BreakEven * step \in Nat
  BY ParamsAssumption
<1>2. /\ Slack(step) \in Nat
      /\ Slack(step) >= Distance * step - Trail * step
  <2>1. CASE Distance > Trail
    <3>1. (Distance - Trail) * step = Distance * step - Trail * step
      BY ParamsAssumption
    <3>2. Distance - Trail \in Nat
      BY <2>1, ParamsAssumption
    <3>3. (Distance - Trail) * step \in Nat
      BY <3>2
    <3> QED
      BY <1>1, <2>1, <3>1, <3>3 DEF Slack
  <2>2. CASE ~(Distance > Trail)
    <3>1. (Trail - Distance) * step = Trail * step - Distance * step
      BY ParamsAssumption
    <3>2. Trail - Distance \in Nat
      BY <2>2, ParamsAssumption
    <3>3. (Trail - Distance) * step \in Nat
      BY <3>2
    <3> QED
      BY <1>1, <2>2, <3>1, <3>3 DEF Slack
  <2> QED
    BY <2>1, <2>2
<1>3. CASE step = 0
  BY <1>2, <1>3 DEF EffectiveStop
<1>4. CASE step # 0
  <2> DEFINE D == Distance * step
             T == Trail * step
             B == BreakEven * step
             S == Slack(step)
  <2>1. /\ D \in Nat /\ T \in Nat /\ B \in Nat /\ S \in Nat /\ S >= D - T
    BY <1>1, <1>2
  <2>2. \A x \in {p, q} :
          EffectiveStop(x, entry, step, dbStop)
            = IF x - entry >= T THEN Higher(dbStop, x - D)
              ELSE IF x - entry >= B THEN Higher(dbStop, entry) ELSE dbStop
    BY <1>4 DEF EffectiveStop
  <2> HIDE DEF D, T, B, S
  <2>3. EffectiveStop(q, entry, step, dbStop)
             >= EffectiveStop(p, entry, step, dbStop) - S
    BY <2>1, <2>2 DEF Higher
  <2> QED
    BY <2>3 DEF S
<1> QED
  BY <1>3, <1>4

\* There is one place where a rising peak lowers the effective stop: where
\* trailing takes over from break-even.  The stop falls there by Slack at most.
THEOREM FallsOnce ==
    ASSUME NEW p \in Nat, NEW q \in Nat, p <= q,
           NEW entry \in Nat, NEW step \in Nat, NEW dbStop \in Int,
           EffectiveStop(q, entry, step, dbStop) < EffectiveStop(p, entry, step, dbStop)
    PROVE  /\ BreakEven * step <= p - entry /\ p - entry < Trail * step
           /\ Trail * step <= q - entry
           /\ EffectiveStop(p, entry, step, dbStop)
                - EffectiveStop(q, entry, step, dbStop) <= Slack(step)
<1>1. step # 0
  BY DEF EffectiveStop
<1> DEFINE D == Distance * step
           T == Trail * step
           B == BreakEven * step
<1>2. D \in Nat /\ T \in Nat /\ B \in Nat
  BY ParamsAssumption
<1>3. \A x \in {p, q} :
        EffectiveStop(x, entry, step, dbStop)
          = IF x - entry >= T THEN Higher(dbStop, x - D)
            ELSE IF x - entry >= B THEN Higher(dbStop, entry) ELSE dbStop
  BY <1>1 DEF EffectiveStop
<1> HIDE DEF D, T, B
<1>4. B <= p - entry /\ p - entry < T /\ T <= q - entry
  BY <1>2, <1>3 DEF Higher
<1>5. EffectiveStop(q, entry, step, dbStop)
        >= EffectiveStop(p, entry, step, dbStop) - Slack(step)
  BY StopSlack
<1>6. /\ EffectiveStop(p, entry, step, dbStop) \in Int
      /\ EffectiveStop(q, entry, step, dbStop) \in Int
  BY <1>2, <1>3 DEF Higher
<1>7. Slack(step) \in Int
  <2>1. (Distance - Trail) * step = D - T
    BY ParamsAssumption DEF D, T
  <2> QED
    BY <1>2, <2>1 DEF Slack
<1> QED
  BY <1>4, <1>5, <1>6, <1>7 DEF D, T, B

-----------------------------------------------------------------------------
(* Types                                                                   *)

LEMMA PeakTypes ==
    ASSUME NEW r \in Row, NEW p \in Nat
    PROVE  NewPeak(r, p) \in Nat /\ NewPeak(r, p) >= r.peak
  BY DEF Row, NewPeak, Higher

LEMMA DecisionTypes ==
    ASSUME NEW b \in Buys, NEW r \in Row, NEW p \in Prices, rows \in [Buys -> Row]
    PROVE  DecisionsOn(b, r, p) \subseteq Decision
<1>1. p \in Nat /\ NewPeak(r, p) \in Nat /\ r.peak \in Nat
  BY PeakTypes, PricesAssumption DEF Row
<1>2. Stop(r) \in Int /\ EffectiveAt(r, NewPeak(r, p)) \in Int
  BY <1>1, LevelTypes
<1>3. ASSUME NEW action \in {"exit_stop", "stop_moved", "exit_take_profit"},
             NEW peak \in Nat, NEW stop \in Int, NEW adaptive \in BOOLEAN
      PROVE  Decide(b, action, peak, stop, adaptive) \in Decision
  BY DEF Decide, Decision
<1>4. AdaptiveDecisions(b, r, p) \subseteq Decision
  BY <1>1, <1>2, <1>3 DEF AdaptiveDecisions
<1>5. LegacyDecisions(b, r, p) \subseteq Decision
  BY <1>1, <1>2, <1>3 DEF LegacyDecisions
<1> QED
  BY <1>4, <1>5 DEF DecisionsOn

LEMMA UnlockTypes ==
    ASSUME TypeOK, NEW w \in Workers, pc[w] # "idle", NEW to \in Labels, Unlock(w, to)
    PROVE  /\ cur' \in Copy \cup {Null}
           /\ pc'   \in [Workers -> Labels]
           /\ bar'  \in [Workers -> Prices \cup {Null}]
           /\ \A v \in Workers : (pc'[v] = "idle") = (bar'[v] = Null)
           /\ seen' \in [Workers -> SUBSET Buys]
           /\ DOMAIN copy' = Workers
           /\ \A v \in Workers : /\ DOMAIN copy'[v] \subseteq Buys
                                 /\ copy'[v] \in [DOMAIN copy'[v] -> Row]
           /\ market' \in Prices /\ moves' \in 0..MaxMoves
<1>1. NoRows \in [{} -> Row] /\ DOMAIN NoRows = {}
  BY DEF NoRows
<1>2. DOMAIN copy' = Workers /\ copy'[w] = NoRows
      /\ \A v \in Workers \ {w} : copy'[v] = copy[v]
  BY DEF Unlock, TypeOK
<1>3. \A v \in Workers : /\ DOMAIN copy'[v] \subseteq Buys
                         /\ copy'[v] \in [DOMAIN copy'[v] -> Row]
  BY <1>1, <1>2 DEF TypeOK
<1>4. \A v \in Workers : (pc'[v] = "idle") = (bar'[v] = Null)
  <2> TAKE v \in Workers
  <2>1. CASE v = w
    BY <2>1 DEF Unlock, Goto, TypeOK
  <2>2. CASE v # w
    BY <2>2 DEF Unlock, Goto, TypeOK
  <2> QED
    BY <2>1, <2>2
<1> QED
  BY <1>2, <1>3, <1>4 DEF Unlock, Goto, TypeOK, feed

LEMMA TypeInit == Init => TypeOK
<1> SUFFICES ASSUME Init PROVE TypeOK
  OBVIOUS
<1>1. rows \in [Buys -> Row]
  <2>1. PICK e \in [Buys -> Entries] :
          rows = [b \in Buys |-> [status |-> "pending", fill |-> Null, peak |-> e[b][1],
                                  price |-> e[b][1], step |-> e[b][2],
                                  atr |-> e[b][3]]]
    BY DEF Init
  <2>2. \A b \in Buys : e[b][1] \in Nat /\ e[b][2] \in Nat /\ e[b][3] \in BOOLEAN
    BY EntriesAssumption
  <2> QED
    BY <2>1, <2>2 DEF Row, Statuses
<1>2. \A w \in Workers : copy[w] = NoRows
  BY DEF Init
<1>3. NoRows \in [{} -> Row] /\ DOMAIN NoRows = {}
  BY DEF NoRows
<1> QED
  BY <1>1, <1>2, <1>3, MovesAssumption DEF Init, TypeOK, Labels

\* The rows of a copy are rows, the bar in hand is a close.
LEMMA InHand ==
    ASSUME TypeOK, NEW w \in Workers
    PROVE  /\ \A b \in DOMAIN copy[w] : b \in Buys /\ copy[w][b] \in Row
           /\ pc[w] # "idle" => bar[w] \in Prices /\ bar[w] \in Nat
  BY PricesAssumption DEF TypeOK

LEMMA TypeNext == TypeOK /\ [Next]_vars => TypeOK'
<1> SUFFICES ASSUME TypeOK, [Next]_vars PROVE TypeOK'
  OBVIOUS
<1>1. ASSUME NEW w \in Workers, TakeBar(w) PROVE TypeOK'
  <2>1. \A v \in Workers : (pc'[v] = "idle") = (bar'[v] = Null)
    <3> TAKE v \in Workers
    <3>1. CASE v = w
      BY <1>1, <3>1, NullAssumption DEF TakeBar, Goto, TypeOK, feed
    <3>2. CASE v # w
      BY <1>1, <3>2 DEF TakeBar, Goto, TypeOK
    <3> QED
      BY <3>1, <3>2
  <2>2. market' \in Prices /\ moves' \in 0..MaxMoves
    BY <1>1, MovesAssumption DEF TakeBar, TypeOK, feed
  <2> QED
    BY <1>1, <2>1, <2>2 DEF TakeBar, Goto, TypeOK, tables, Labels
<1>2. ASSUME NEW w \in Workers, NEW from \in Labels \ {"idle"}, NEW to \in Labels \ {"idle"},
             Select(w, from, to)
      PROVE  TypeOK'
  BY <1>2 DEF Select, Goto, TypeOK, tables, feed, OpenBuys
<1>3. ASSUME NEW w \in Workers, NEW from \in Labels \ {"idle"}, NEW to \in Labels \ {"idle"},
             Lock(w, from, to)
      PROVE  TypeOK'
  <2>1. Lockable(w) \subseteq Buys
    BY DEF Lockable, TypeOK
  <2>2. /\ DOMAIN copy' = Workers
        /\ copy'[w] = [b \in Lockable(w) |-> rows[b]]
        /\ \A v \in Workers \ {w} : copy'[v] = copy[v]
    BY <1>3 DEF Lock, TypeOK
  <2>3. copy'[w] \in [Lockable(w) -> Row]
    BY <2>1, <2>2 DEF TypeOK
  <2>4. \A v \in Workers : /\ DOMAIN copy'[v] \subseteq Buys
                           /\ copy'[v] \in [DOMAIN copy'[v] -> Row]
    BY <2>1, <2>2, <2>3 DEF TypeOK
  <2> QED
    BY <1>3, <2>2, <2>4 DEF Lock, Goto, TypeOK, tables, feed
<1>4. ASSUME NEW w \in Workers, ShadowCommit(w) PROVE TypeOK'
  <2>1. \A b \in DOMAIN copy[w] : b \in Buys /\ copy[w][b] \in Row
    BY InHand
  <2>2. bar[w] \in Prices /\ bar[w] \in Nat
    BY <1>4, InHand DEF ShadowCommit
  <2>3. \A b \in DOMAIN copy[w] : WriteBack(b, copy[w][b], bar[w]) \in Row
    BY <2>1, <2>2, PeakTypes DEF WriteBack, TypeOK, Row
  <2>4. rows' \in [Buys -> Row]
    BY <1>4, <2>3 DEF ShadowCommit, TypeOK
  <2>5. \A b \in DOMAIN copy[w] : DecisionsOn(b, copy[w][b], bar[w]) \subseteq Decision
    BY <2>1, <2>2, DecisionTypes DEF TypeOK
  <2>6. log' \subseteq Decision
    BY <1>4, <2>5 DEF ShadowCommit, TypeOK
  <2> QED
    BY <1>4, <2>4, <2>6, UnlockTypes DEF ShadowCommit, TypeOK, Labels
<1>5. ASSUME NEW w \in Workers, ShadowRollback(w) PROVE TypeOK'
  BY <1>5, UnlockTypes DEF ShadowRollback, TypeOK, tables, Labels
<1>6. ASSUME NEW w \in Workers, LiveCommit(w) PROVE TypeOK'
  <2>1. Triggered(w) \subseteq Buys
    BY InHand DEF Triggered
  <2> QED
    BY <1>6, <2>1, UnlockTypes DEF LiveCommit, TypeOK, Labels
<1>7. ASSUME NEW w \in Workers, LiveRollback(w) PROVE TypeOK'
  BY <1>7, UnlockTypes DEF LiveRollback, TypeOK, tables, Labels
<1>8. ASSUME NEW b \in Buys, SellRefused(b) PROVE TypeOK'
  BY <1>8 DEF SellRefused, TypeOK, feed
<1>9. CASE ApplyLookup
  <2>1. cur' \in Copy
    BY <1>9 DEF ApplyLookup, FillsWith, Copy, TypeOK, Row
  <2> QED
    BY <1>9, <2>1 DEF ApplyLookup, TypeOK, tables, feed
<1>10. CASE ApplyCommit
  <2>1. cur \in Copy
    BY <1>10 DEF ApplyCommit, TypeOK
  <2>2. [cur.row EXCEPT !.status = cur.status, !.fill = cur.fill] \in Row
    BY <2>1 DEF Copy, Row
  <2>3. rows' \in [Buys -> Row]
    BY <1>10, <2>1, <2>2 DEF ApplyCommit, TypeOK, Copy
  <2> QED
    BY <1>10, <2>3 DEF ApplyCommit, TypeOK, feed
<1>11. CASE UNCHANGED vars
  BY <1>11 DEF vars, tables, TypeOK
<1> QED
  BY <1>1, <1>2, <1>3, <1>4, <1>5, <1>6, <1>7, <1>8, <1>9, <1>10, <1>11
     DEF Next, Advance, Labels

-----------------------------------------------------------------------------
(* Locks and peaks                                                         *)

\* The row the consumer has in hand is not finished: nobody else finishes one.
CurOpen == cur # Null => rows[cur.buy].status \notin Terminal

\* No peak is below the price at signal, in the table or in the hand of the
\* consumer.
PeaksHigh ==
    /\ \A b \in Buys : rows[b].price <= rows[b].peak
    /\ cur # Null => cur.row.price <= cur.row.peak

RowInv == TypeOK /\ LocksProtect /\ CurOpen /\ PeaksHigh

\* A transaction that ends gives up its locks and leaves the others alone.
LEMMA UnlockFrees ==
    ASSUME TypeOK, NEW w \in Workers, NEW to, Unlock(w, to)
    PROVE  /\ cur' = cur
           /\ DOMAIN copy'[w] = {}
           /\ \A v \in Workers \ {w} : copy'[v] = copy[v]
  BY DEF Unlock, NoRows, TypeOK

\* What ShadowCommit does to a row: at most its peak rises.
LEMMA ShadowRaises ==
    ASSUME TypeOK, LocksProtect, NEW w \in Workers, ShadowCommit(w), NEW b \in Buys
    PROVE  /\ b \notin DOMAIN copy[w] => rows'[b] = rows[b]
           /\ b \in DOMAIN copy[w] =>
                /\ rows'[b] = [rows[b] EXCEPT !.peak = NewPeak(rows[b], bar[w])]
                /\ NewPeak(rows[b], bar[w]) >= rows[b].peak
           /\ rows'[b] = [rows[b] EXCEPT !.peak = rows'[b].peak]
           /\ rows'[b].peak >= rows[b].peak
<1>1. rows[b] \in Row
  BY DEF TypeOK
<1>2. rows[b] = [rows[b] EXCEPT !.peak = rows[b].peak] /\ rows[b].peak \in Nat
  BY <1>1 DEF Row
<1>3. CASE b \in DOMAIN copy[w]
  <2>1. copy[w][b] = rows[b]
    BY <1>3 DEF LocksProtect
  <2>2. bar[w] \in Nat
    BY InHand DEF ShadowCommit
  <2>3. /\ NewPeak(rows[b], bar[w]) \in Nat
        /\ NewPeak(rows[b], bar[w]) >= rows[b].peak
    BY <1>1, <2>2, PeakTypes
  <2>4. rows'[b] = WriteBack(b, rows[b], bar[w])
    BY <1>3, <2>1 DEF ShadowCommit
  <2>5. rows'[b] = [rows[b] EXCEPT !.peak = NewPeak(rows[b], bar[w])]
    BY <1>2, <2>4 DEF WriteBack
  <2>6. rows'[b].peak = NewPeak(rows[b], bar[w])
    BY <1>1, <2>5 DEF Row
  <2> QED
    BY <1>3, <2>3, <2>5, <2>6
<1>4. CASE b \notin DOMAIN copy[w]
  <2>1. rows'[b] = rows[b]
    BY <1>4 DEF ShadowCommit
  <2> QED
    BY <1>2, <1>4, <2>1
<1> QED
  BY <1>3, <1>4

LEMMA RowInit == Init => RowInv
<1> SUFFICES ASSUME Init PROVE RowInv
  OBVIOUS
<1>1. TypeOK
  BY TypeInit
<1>2. LocksProtect
  BY DEF Init, LocksProtect, NoRows
<1>3. CurOpen
  BY DEF Init, CurOpen
<1>4. PeaksHigh
  <2>1. PICK e \in [Buys -> Entries] :
          rows = [b \in Buys |-> [status |-> "pending", fill |-> Null, peak |-> e[b][1],
                                  price |-> e[b][1], step |-> e[b][2],
                                  atr |-> e[b][3]]]
    BY DEF Init
  <2>2. \A b \in Buys : e[b][1] \in Nat
    BY EntriesAssumption
  <2>3. cur = Null
    BY DEF Init
  <2> QED
    BY <2>1, <2>2, <2>3 DEF PeaksHigh
<1> QED
  BY <1>1, <1>2, <1>3, <1>4 DEF RowInv

\* What depends on rows, copies and the consumer only.
LEMMA RowFrame ==
    ASSUME LocksProtect, CurOpen, PeaksHigh,
           rows' = rows, cur' = cur,
           \A v \in Workers : copy'[v] = copy[v] \/ DOMAIN copy'[v] = {}
    PROVE  LocksProtect' /\ CurOpen' /\ PeaksHigh'
  BY DEF LocksProtect, CurOpen, PeaksHigh

LEMMA RowNext == RowInv /\ [Next]_vars => RowInv'
<1> SUFFICES ASSUME RowInv, [Next]_vars PROVE LocksProtect' /\ CurOpen' /\ PeaksHigh'
  BY TypeNext DEF RowInv
<1> USE DEF RowInv
<1>0. TypeOK'
  BY TypeNext
<1>1. ASSUME NEW w \in Workers, TakeBar(w) PROVE LocksProtect' /\ CurOpen' /\ PeaksHigh'
  BY <1>1, RowFrame DEF TakeBar, tables
<1>2. ASSUME NEW w \in Workers, NEW from, NEW to, Select(w, from, to)
      PROVE  LocksProtect' /\ CurOpen' /\ PeaksHigh'
  BY <1>2, RowFrame DEF Select, tables
<1>3. ASSUME NEW w \in Workers, NEW from, NEW to, Lock(w, from, to)
      PROVE  LocksProtect' /\ CurOpen' /\ PeaksHigh'
  <2>1. /\ copy'[w] = [b \in Lockable(w) |-> rows[b]]
        /\ \A v \in Workers \ {w} : copy'[v] = copy[v]
        /\ rows' = rows /\ cur' = cur
    BY <1>3 DEF Lock, tables, TypeOK
  <2>2. \A v \in Workers : Lockable(w) \cap DOMAIN copy[v] = {}
    BY DEF Lockable, Locked
  <2>3. \A v \in Workers : \A b \in DOMAIN copy'[v] : copy'[v][b] = rows'[b]
    BY <2>1 DEF LocksProtect
  <2>4. \A u, v \in Workers : DOMAIN copy'[u] \cap DOMAIN copy'[v] # {} => u = v
    <3> SUFFICES ASSUME NEW u \in Workers, NEW v \in Workers, u # v
                 PROVE  DOMAIN copy'[u] \cap DOMAIN copy'[v] = {}
      OBVIOUS
    <3>1. CASE u = w
      BY <2>1, <2>2, <3>1
    <3>2. CASE v = w
      BY <2>1, <2>2, <3>2
    <3>3. CASE u # w /\ v # w
      BY <2>1, <3>3 DEF LocksProtect
    <3> QED
      BY <3>1, <3>2, <3>3
  <2> QED
    BY <2>1, <2>3, <2>4 DEF LocksProtect, CurOpen, PeaksHigh
<1>4. ASSUME NEW w \in Workers, ShadowCommit(w)
      PROVE  LocksProtect' /\ CurOpen' /\ PeaksHigh'
  <2>1. \A b \in Buys : /\ rows[b] \in Row
                        /\ rows'[b] = [rows[b] EXCEPT !.peak = rows'[b].peak]
                        /\ rows'[b].peak >= rows[b].peak
                        /\ b \notin DOMAIN copy[w] => rows'[b] = rows[b]
    BY <1>4, ShadowRaises DEF TypeOK
  <2>2. \A b \in Buys : /\ rows'[b].status = rows[b].status
                        /\ rows'[b].price = rows[b].price
    BY <2>1 DEF Row
  <2>3. /\ cur' = cur
        /\ DOMAIN copy'[w] = {}
        /\ \A v \in Workers \ {w} : copy'[v] = copy[v]
    BY <1>4, UnlockFrees DEF ShadowCommit
  <2>4. \A v \in Workers : \A b \in DOMAIN copy'[v] : copy'[v][b] = rows'[b]
    <3> SUFFICES ASSUME NEW v \in Workers, NEW b \in DOMAIN copy'[v]
                 PROVE  copy'[v][b] = rows'[b]
      OBVIOUS
    <3>1. v # w /\ copy'[v] = copy[v]
      BY <2>3
    <3>2. b \in Buys /\ b \notin DOMAIN copy[w] /\ copy[v][b] = rows[b]
      BY <3>1, InHand DEF LocksProtect
    <3> QED
      BY <2>1, <3>1, <3>2
  <2>5. LocksProtect'
    BY <2>3, <2>4 DEF LocksProtect
  <2>6. CurOpen'
    BY <2>2, <2>3 DEF CurOpen, TypeOK, Copy
  <2>7. PeaksHigh'
    <3>1. \A b \in Buys : rows'[b].price <= rows'[b].peak
      <4> TAKE b \in Buys
      <4>1. rows[b].price <= rows[b].peak /\ rows[b].price \in Nat /\ rows[b].peak \in Nat
        BY <2>1 DEF PeaksHigh, Row
      <4>2. rows'[b].peak \in Nat
        BY <1>0 DEF TypeOK, Row
      <4>3. rows'[b].peak >= rows[b].peak
        BY <2>1
      <4>4. rows'[b].price = rows[b].price
        BY <2>2
      <4> QED
        BY <4>1, <4>2, <4>3, <4>4
    <3>2. cur' = cur
      BY <2>3
    <3> QED
      BY <3>1, <3>2 DEF PeaksHigh
  <2> QED
    BY <2>5, <2>6, <2>7
<1>5. ASSUME NEW w \in Workers, ShadowRollback(w) \/ LiveCommit(w) \/ LiveRollback(w)
      PROVE  LocksProtect' /\ CurOpen' /\ PeaksHigh'
  <2>1. rows' = rows /\ \E to \in {"idle", "liveSelect"} : Unlock(w, to)
    BY <1>5 DEF ShadowRollback, LiveCommit, LiveRollback, tables
  <2> QED
    BY <2>1, UnlockFrees, RowFrame
<1>6. ASSUME NEW b \in Buys, SellRefused(b) PROVE LocksProtect' /\ CurOpen' /\ PeaksHigh'
  BY <1>6, RowFrame DEF SellRefused
<1>7. CASE ApplyLookup
  <2>1. rows' = rows /\ copy' = copy
    BY <1>7 DEF ApplyLookup, tables
  <2>2. \E b \in Buys : cur'.buy = b /\ cur'.row = rows[b] /\ rows[b].status \notin Terminal
    BY <1>7 DEF ApplyLookup, Applicable
  <2>3. PeaksHigh'
    BY <2>1, <2>2 DEF PeaksHigh
  <2>4. LocksProtect' /\ CurOpen'
    BY <2>1, <2>2 DEF LocksProtect, CurOpen
  <2> QED
    BY <2>3, <2>4
<1>8. CASE ApplyCommit
  <2>1. /\ cur \in Copy /\ cur' = Null /\ copy' = copy
        /\ \A v \in Workers : cur.buy \notin DOMAIN copy[v]
    BY <1>8 DEF ApplyCommit, TypeOK, Locked
  <2>2. \/ rows' = [rows EXCEPT ![cur.buy] =
                      [cur.row EXCEPT !.status = cur.status, !.fill = cur.fill]]
        \/ rows' = rows
    BY <1>8 DEF ApplyCommit
  <2>3. \A b \in Buys : b # cur.buy => rows'[b] = rows[b]
    BY <2>2 DEF TypeOK
  <2>4. LocksProtect'
    <3>1. \A v \in Workers : \A b \in DOMAIN copy[v] : rows'[b] = rows[b]
      BY <2>1, <2>3, InHand
    <3> QED
      BY <2>1, <3>1 DEF LocksProtect
  <2>5. rows'[cur.buy].price <= rows'[cur.buy].peak
    <3>1. cur.buy \in Buys /\ cur.row \in Row /\ cur # Null
      BY <1>8, <2>1 DEF Copy, ApplyCommit
    <3>2. CASE rows' = rows
      BY <3>1, <3>2 DEF PeaksHigh
    <3>3. CASE rows' = [rows EXCEPT ![cur.buy] =
                          [cur.row EXCEPT !.status = cur.status, !.fill = cur.fill]]
      <4>1. rows'[cur.buy] = [cur.row EXCEPT !.status = cur.status, !.fill = cur.fill]
        BY <3>1, <3>3 DEF TypeOK
      <4>2. rows'[cur.buy].price = cur.row.price /\ rows'[cur.buy].peak = cur.row.peak
        BY <3>1, <4>1 DEF Row
      <4> QED
        BY <3>1, <4>2 DEF PeaksHigh
    <3> QED
      BY <2>2, <3>2, <3>3
  <2> QED
    BY <2>1, <2>3, <2>4, <2>5 DEF CurOpen, PeaksHigh
<1>9. CASE UNCHANGED vars
  BY <1>9, RowFrame DEF vars, tables
<1> QED
  BY <1>1, <1>2, <1>3, <1>4, <1>5, <1>6, <1>7, <1>8, <1>9 DEF Next, Advance

\* Every variable keeps its type, the rows in any worker's transaction
\* included.
THEOREM ShadowTypes == Spec => []TypeOK
<1>1. TypeOK /\ [Next]_vars => TypeOK'
  BY TypeNext
<1> QED
  BY <1>1, TypeInit, PTL DEF Spec

LEMMA RowInvHolds == Spec => []RowInv
  BY RowInit, RowNext, PTL DEF Spec

\* A transaction's copy of a row is the row, and no other has it, for any
\* number of workers: FOR UPDATE SKIP LOCKED makes the shadow path's Update of
\* the whole row safe.
THEOREM LocksHold == Spec => []LocksProtect
<1>1. RowInv => LocksProtect
  BY DEF RowInv
<1> QED
  BY <1>1, RowInvHolds, PTL

LEMMA OnlyPeakStep ==
    ASSUME RowInv, [Next]_vars, NEW b \in Buys, rows[b].status \in Terminal
    PROVE  /\ rows'[b] = [rows[b] EXCEPT !.peak = rows'[b].peak]
           /\ rows'[b].peak >= rows[b].peak
<1> USE DEF RowInv
<1>1. rows[b] \in Row
  BY DEF TypeOK
<1>2. rows[b] = [rows[b] EXCEPT !.peak = rows[b].peak] /\ rows[b].peak \in Nat
  BY <1>1 DEF Row
<1>3. CASE rows'[b] = rows[b]
  BY <1>2, <1>3
<1>4. CASE \E w \in Workers : ShadowCommit(w)
  BY <1>4, ShadowRaises
<1>5. CASE ApplyCommit
  <2>1. cur \in Copy /\ cur.buy # b
    BY <1>5 DEF ApplyCommit, CurOpen, TypeOK
  <2>2. rows'[b] = rows[b]
    BY <1>5, <2>1 DEF ApplyCommit, TypeOK
  <2> QED
    BY <2>2, <1>3
<1>6. (\E w \in Workers : ShadowCommit(w)) \/ ApplyCommit \/ rows' = rows
  BY DEF Next, Advance, TakeBar, Select, Lock, ShadowRollback, LiveCommit, LiveRollback,
         SellRefused, ApplyLookup, tables, vars
<1> QED
  BY <1>3, <1>4, <1>5, <1>6

\* A finished row changes in nothing but its peak, and the peak only rises:
\* neither the shadow path's whole-row write nor a late event undoes the other.
THEOREM FinishedRows == Spec => OnlyPeakRises
<1>1. RowInv /\ [Next]_vars =>
        [\A b \in Buys : rows[b].status \in Terminal =>
           /\ rows'[b] = [rows[b] EXCEPT !.peak = rows'[b].peak]
           /\ rows'[b].peak >= rows[b].peak]_vars
  BY OnlyPeakStep
<1> QED
  BY <1>1, RowInvHolds, PTL DEF Spec, OnlyPeakRises

\* The effective stop of every row lies between its static stop and its peak.
THEOREM StopsBetween == Spec => []StopBetween
<1>1. RowInv => StopBetween
  <2> SUFFICES ASSUME RowInv, NEW b \in Buys
               PROVE  /\ Stop(rows[b]) <= EffectiveAt(rows[b], rows[b].peak)
                      /\ EffectiveAt(rows[b], rows[b].peak) <= rows[b].peak
    BY DEF StopBetween
  <2>1. /\ rows[b] \in Row /\ rows[b].price <= rows[b].peak
        /\ rows[b].price \in Nat /\ rows[b].step \in Nat /\ rows[b].peak \in Nat
    BY DEF RowInv, TypeOK, PeaksHigh, Row
  <2>2. Entry(rows[b]) \in Nat /\ ATR(rows[b]) \in Nat /\ Stop(rows[b]) \in Int
    BY <2>1, LevelTypes
  <2>3. Stop(rows[b]) <= rows[b].peak
    <3>1. Risk * rows[b].step \in Nat
      BY <2>1, ParamsAssumption
    <3> QED
      BY <2>1, <3>1 DEF Stop, StaticStop
  <2> QED
    BY <2>1, <2>2, <2>3, StopBounds DEF EffectiveAt
<1> QED
  BY <1>1, RowInvHolds, PTL

-----------------------------------------------------------------------------
(* The log                                                                 *)

\* Why the log stays true: the decision was taken on the row as it still is,
\* its peak aside, which has only risen.
Settled(d) ==
    /\ rows[d.buy].status = "filled"
    /\ d.peak <= rows[d.buy].peak
    /\ d.stop = EffectiveAt(rows[d.buy], d.peak)

LogInv == RowInv /\ \A d \in log : (d.adaptive /\ d.settled) => Settled(d)

\* A row that keeps everything but a higher peak keeps what was settled.
LEMMA SettledStays ==
    ASSUME RowInv, RowInv', [Next]_vars, NEW d \in Decision, Settled(d)
    PROVE  Settled(d)'
<1> DEFINE b == d.buy
<1>1. b \in Buys /\ d.peak \in Nat
  BY DEF Decision
<1>2. /\ rows[b] \in Row /\ rows'[b] \in Row
      /\ rows'[b] = [rows[b] EXCEPT !.peak = rows'[b].peak]
      /\ rows'[b].peak >= rows[b].peak
  BY <1>1, OnlyPeakStep DEF Settled, Terminal, RowInv, TypeOK
<1>3. /\ rows'[b].status = rows[b].status /\ rows'[b].fill = rows[b].fill
      /\ rows'[b].price = rows[b].price /\ rows'[b].step = rows[b].step
      /\ rows'[b].atr = rows[b].atr
  BY <1>2 DEF Row
<1>4. EffectiveAt(rows'[b], d.peak) = EffectiveAt(rows[b], d.peak)
  BY <1>3 DEF EffectiveAt, Entry, ATR, Stop
<1>5. d.peak <= rows'[b].peak
  BY <1>1, <1>2 DEF Settled, Row
<1> QED
  BY <1>3, <1>4, <1>5 DEF Settled

\* What the shadow path logs about a filled row is true of the row it writes.
LEMMA LoggedSettled ==
    ASSUME RowInv, NEW w \in Workers, ShadowCommit(w),
           NEW b \in DOMAIN copy[w], NEW d \in DecisionsOn(b, copy[w][b], bar[w]),
           d.adaptive, d.settled
    PROVE  Settled(d)'
<1>1. b \in Buys /\ rows[b] \in Row /\ copy[w][b] = rows[b] /\ bar[w] \in Nat
  BY InHand DEF RowInv, LocksProtect, TypeOK, ShadowCommit
<1> DEFINE r == rows[b]
           p == NewPeak(r, bar[w])
<1>2. d \in AdaptiveDecisions(b, r, bar[w])
  BY <1>1 DEF DecisionsOn, LegacyDecisions, Decide
<1>3. /\ d.buy = b /\ d.peak = p /\ d.stop = EffectiveAt(r, p)
      /\ rows[b].status = "filled"
  <2>1. \E action \in {"exit_stop", "stop_moved"} :
          d = Decide(b, action, p, EffectiveAt(r, p), TRUE)
    BY <1>2 DEF AdaptiveDecisions
  <2>2. PICK action \in {"exit_stop", "stop_moved"} :
          d = [buy |-> b, action |-> action, peak |-> p, stop |-> EffectiveAt(r, p),
               adaptive |-> TRUE, settled |-> rows[b].status = "filled"]
    BY <2>1, Zenon DEF Decide
  <2>3. d.buy = b /\ d.peak = p /\ d.stop = EffectiveAt(r, p)
    BY <2>2, SMT
  <2>4. d.settled <=> rows[b].status = "filled"
    BY <2>2, Zenon
  <2> QED
    BY <2>3, <2>4
<1>4. rows'[b] = [r EXCEPT !.peak = p]
  BY <1>1, ShadowRaises DEF RowInv
<1>5. p \in Nat
  BY <1>1, PeakTypes
<1>6. /\ rows'[b].status = "filled" /\ rows'[b].peak = p
      /\ rows'[b].fill = r.fill /\ rows'[b].price = r.price /\ rows'[b].step = r.step
      /\ rows'[b].atr = r.atr
  BY <1>1, <1>3, <1>4 DEF Row
<1>7. EffectiveAt(rows'[b], p) = EffectiveAt(r, p)
  BY <1>6 DEF EffectiveAt, Entry, ATR, Stop
<1> QED
  BY <1>3, <1>5, <1>6, <1>7 DEF Settled

LEMMA LogNext == LogInv /\ [Next]_vars => LogInv'
<1> SUFFICES ASSUME LogInv, [Next]_vars PROVE LogInv'
  OBVIOUS
<1>1. RowInv /\ RowInv'
  BY RowNext DEF LogInv
<1>2. \A d \in log : d.adaptive /\ d.settled => Settled(d)'
  BY <1>1, SettledStays DEF LogInv, RowInv, TypeOK
<1>3. CASE \E w \in Workers : ShadowCommit(w)
  <2>1. PICK w \in Workers : ShadowCommit(w)
    BY <1>3
  <2>2. ASSUME NEW d \in log', d \notin log, d.adaptive, d.settled
        PROVE  Settled(d)'
    <3>1. PICK b \in DOMAIN copy[w] : d \in DecisionsOn(b, copy[w][b], bar[w])
      BY <2>1, <2>2 DEF ShadowCommit
    <3> QED
      BY <1>1, <2>1, <2>2, <3>1, LoggedSettled
  <2> QED
    BY <1>1, <1>2, <2>2 DEF LogInv
<1>4. CASE log' = log
  BY <1>1, <1>2, <1>4 DEF LogInv
<1>5. (\E w \in Workers : ShadowCommit(w)) \/ log' = log
  BY DEF Next, Advance, TakeBar, Select, Lock, ShadowRollback, LiveCommit, LiveRollback,
         SellRefused, ApplyLookup, ApplyCommit, tables, vars
<1> QED
  BY <1>3, <1>4, <1>5

\* Whatever happens after a decision about a filled buy was logged, the row
\* backs it: its peak is no lower, its effective stop lower by Slack at most.
THEOREM LogStaysTrue == Spec => []LogBacked
<1>1. Init => LogInv
  BY RowInit DEF LogInv, Init
<1>2. LogInv => LogBacked
  <2> SUFFICES ASSUME LogInv, NEW d \in log, d.adaptive, d.settled
               PROVE  /\ rows[d.buy].peak >= d.peak
                      /\ EffectiveAt(rows[d.buy], rows[d.buy].peak)
                           >= d.stop - Slack(ATR(rows[d.buy]))
    BY DEF LogBacked
  <2> DEFINE r == rows[d.buy]
  <2>1. Settled(d) /\ d \in Decision
    BY DEF LogInv, RowInv, TypeOK
  <2>2. r \in Row /\ d.peak \in Nat
    BY <2>1 DEF Decision, LogInv, RowInv, TypeOK
  <2>3. r.peak \in Nat /\ ATR(r) \in Nat /\ Entry(r) \in Nat /\ Stop(r) \in Int
    BY <2>2, LevelTypes DEF Row
  <2>4. d.peak <= r.peak /\ d.stop = EffectiveAt(r, d.peak)
    BY <2>1 DEF Settled
  <2>5. EffectiveAt(r, r.peak) >= EffectiveAt(r, d.peak) - Slack(ATR(r))
    BY <2>2, <2>3, <2>4, StopSlack DEF EffectiveAt
  <2> QED
    BY <2>2, <2>3, <2>4, <2>5
<1> QED
  BY <1>1, <1>2, LogNext, PTL DEF Spec

=============================================================================
