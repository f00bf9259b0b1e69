------------------------- MODULE SignalServiceProofs -------------------------
(***************************************************************************)
(* What callers of the signal services may rely on, for any number of      *)
(* workers, any history, any lifetime of an entry and any bound on calls.  *)
(***************************************************************************)
EXTENDS SignalService, TLAPS

-----------------------------------------------------------------------------
(* Position sizing                                                         *)

\* The quantity bought out of a slot costs no more than the slot's share, and
\* what it loses down to the stop is no more than the risked part of the
\* transfer, for every transfer, price and ATR (ExecuteBuyTrade, layer 4).
THEOREM QuantityLimited ==
    ASSUME NEW amount \in Nat \ {0}, NEW target \in Nat \ {0}, NEW at \in Nat \ {0},
           NEW atr \in [n : Nat \ {0}, d : Nat \ {0}]
    PROVE  LET q == Quantity(amount, target, at, atr) IN
           /\ q.n > 0 /\ q.d > 0
           /\ WithinSlot(q, amount, target, at)
           /\ WithinRisk(q, amount, atr)
<1> DEFINE share == target * at
           risked == amount * RiskPct * atr.d
           away == 100 * atr.n * RiskMult
<1>1. /\ atr.n \in Nat \ {0} /\ atr.d \in Nat \ {0}
      /\ RiskPct \in Nat \ {0} /\ RiskMult \in Nat \ {0}
  BY SizingAssumption
<1>2. \A i, j \in Nat \ {0} : i * j \in Nat \ {0}
  OBVIOUS
<1>3. share \in Nat \ {0} /\ risked \in Nat \ {0} /\ away \in Nat \ {0}
  BY <1>1, <1>2
<1>4. ByRisk(amount, atr) = [n |-> risked, d |-> away]
  BY DEF ByRisk
<1>5. BySlot(amount, target, at) = [n |-> amount, d |-> share]
  BY DEF BySlot
<1>6. Quantity(amount, target, at, atr)
        = IF risked * share > amount * away THEN BySlot(amount, target, at)
                                            ELSE ByRisk(amount, atr)
  BY <1>1, <1>4, <1>5 DEF Quantity, Lower
<1>7. \A q \in [n : Nat, d : Nat] : /\ WithinSlot(q, amount, target, at) <=> q.n * share <= amount * q.d
                                    /\ WithinRisk(q, amount, atr) <=> q.n * away <= risked * q.d
  <2> SUFFICES ASSUME NEW q \in [n : Nat, d : Nat]
               PROVE  /\ WithinSlot(q, amount, target, at) <=> q.n * share <= amount * q.d
                      /\ WithinRisk(q, amount, atr) <=> q.n * away <= risked * q.d
    OBVIOUS
  <2>1. q.n * target * at = q.n * share /\ q.n * 100 * atr.n * RiskMult = q.n * away
    BY <1>1
  <2> QED
    BY <2>1 DEF WithinSlot, WithinRisk
<1> HIDE DEF share, risked, away
<1>8. CASE risked * share > amount * away
  <2>1. Quantity(amount, target, at, atr) = [n |-> amount, d |-> share]
    BY <1>5, <1>6, <1>8
  <2>2. amount * share <= amount * share /\ amount * away <= risked * share
    BY <1>3, <1>8
  <2> QED
    BY <1>3, <1>7, <2>1, <2>2
<1>9. CASE ~(risked * share > amount * away)
  <2>1. Quantity(amount, target, at, atr) = [n |-> risked, d |-> away]
    BY <1>4, <1>6, <1>9
  <2>2. risked * share <= amount * away /\ risked * away <= risked * away
    BY <1>3, <1>9
  <2> QED
    BY <1>3, <1>7, <2>1, <2>2
<1> QED
  BY <1>8, <1>9

-----------------------------------------------------------------------------
(* The inductive invariant                                                 *)

LEMMA HistoryLength == Len(History) \in Nat
  BY HistoryAssumption

\* Bars that were fetched end on a day that has come.
FetchedPast == \A s \in {"daily", "refresh"} : got[s] \in 0..days

\* Only a preview that the regime skipped is written without passing the layers.
Justified(s) == (s.fired \/ s.path = "live") => Passes(s.path, s.ind, s.price)

\* What a path holds on to, and what it has signalled, passed its layers.
Explained ==
    \A w \in Workers :
      /\ pc[w][2] = "score" => Passes(pc[w][1], seen[w], price[w])
      /\ \A s \in made[w] : Justified(s)

\* Who evaluates a bar knows its price.
Priced == \A w \in Workers : pc[w] # Idle => price[w] \in Prices

Inv == /\ TypeOK /\ SeedCoherent /\ FetchedPast /\ FreshEntries
       /\ Explained /\ Priced

LEMMA Times ==
    /\ TTL \in Nat /\ MaxCall \in Nat /\ Grace \in Nat /\ Cap \in Nat
    /\ Cap = Grace + 1
    /\ Grace >= MaxCall + TTL /\ Grace >= MaxCall + 1
  BY TimeAssumption DEF Cap, Grace

LEMMA InvInit == Init => Inv
<1> SUFFICES ASSUME Init PROVE Inv
  OBVIOUS
<1>1. days \in Days /\ days \in Nat /\ 0 \in Days
  BY FirstAssumption, HistoryLength DEF Init, Days
<1>2. \A w \in Workers : pc[w] = <<"none", "idle">> /\ call[w] = Null /\ made[w] = {} /\ seen[w] = Null
  BY DEF Init, Idle
<1>3. TypeOK
  <2>1. bad \in [Paths -> 0..Cap]
    BY Times DEF Init
  <2> QED
    BY <1>1, <1>2, <2>1 DEF Init, TypeOK, Known
<1>4. SeedCoherent
  BY <1>1, <1>2 DEF Init, SeedCoherent, Computed
<1>5. FetchedPast
  BY <1>1 DEF Init, FetchedPast
<1>6. FreshEntries
  BY <1>2 DEF Init, FreshEntries
<1>7. Explained
  BY <1>2 DEF Explained
<1>8. Priced
  BY DEF Init, Priced
<1> QED
  BY <1>3, <1>4, <1>5, <1>6, <1>7, <1>8 DEF Inv

-----------------------------------------------------------------------------
(* Steps that leave the workers alone                                      *)

\* Later days compute more, never less.
LEMMA ComputedGrows ==
    ASSUME days \in Nat, days' \in Nat, days <= days'
    PROVE  /\ Computed \subseteq Computed'
           /\ \A day \in 0..days : day \in 0..days' /\ StateOn[day] \in Computed'
  BY DEF Computed

LEMMA SeedingStep ==
    ASSUME Inv, UNCHANGED <<bad, entry, call, working>>,
           days' \in Days, days <= days',
           task' \in [{"daily", "refresh"} -> {"idle", "seed", "regime"}],
           got' \in [{"daily", "refresh"} -> 0..days'],
           ind' \in Computed', regime' \in {RegimeOn[day] : day \in 0..days'} \cup {Null}
    PROVE  Inv'
<1>1. days \in Nat /\ days' \in Nat /\ Days \subseteq Nat /\ 0..days' \subseteq Days
  BY HistoryLength DEF Inv, TypeOK, Days
<1>2. Computed \subseteq Computed'
  BY <1>1, ComputedGrows
<1>3. TypeOK'
  BY <1>1 DEF Inv, TypeOK, working
<1>4. SeedCoherent'
  BY <1>2 DEF Inv, SeedCoherent, working
<1>5. FetchedPast'
  BY DEF FetchedPast
<1>6. FreshEntries' /\ Explained' /\ Priced'
  BY DEF Inv, FreshEntries, Explained, Priced, working
<1> QED
  BY <1>3, <1>4, <1>5, <1>6 DEF Inv

LEMMA SeedingNext == Inv /\ (NewDay \/ Daily \/ Refresh) => Inv'
<1> SUFFICES ASSUME Inv, NewDay \/ Daily \/ Refresh PROVE Inv'
  OBVIOUS
<1>1. /\ days \in Nat /\ days \in Days /\ Len(History) \in Nat
      /\ got \in [{"daily", "refresh"} -> 0..days]
      /\ ind \in Computed
      /\ regime \in {RegimeOn[day] : day \in 0..days} \cup {Null}
      /\ task \in [{"daily", "refresh"} -> {"idle", "seed", "regime"}]
  <2>1. days \in Days /\ got \in [{"daily", "refresh"} -> Days]
    BY DEF Inv, TypeOK
  <2>2. days \in Nat /\ Len(History) \in Nat
    BY <2>1, HistoryLength DEF Days
  <2>3. got \in [{"daily", "refresh"} -> 0..days]
    BY <2>1 DEF Inv, FetchedPast
  <2> QED
    BY <2>1, <2>2, <2>3 DEF Inv, TypeOK, SeedCoherent
<1>2. CASE NewDay
  <2>1. days' \in Days /\ days <= days' /\ days' \in Nat
    BY <1>1, <1>2 DEF NewDay, Days
  <2>2. /\ got' \in [{"daily", "refresh"} -> 0..days']
        /\ ind' \in Computed'
        /\ regime' \in {RegimeOn[day] : day \in 0..days'} \cup {Null}
    BY <1>1, <1>2, <2>1, ComputedGrows DEF NewDay
  <2>3. task' = task /\ UNCHANGED <<bad, entry, call, working>>
    BY <1>2 DEF NewDay
  <2> QED
    BY <1>1, <2>1, <2>2, <2>3, SeedingStep
<1>3. CASE DailyBars \/ DailyFails \/ Added
  <2>1. /\ days' = days /\ ind' = ind /\ regime' = regime
        /\ UNCHANGED <<bad, entry, call, working>>
    BY <1>3 DEF DailyBars, DailyFails, Added
  <2>2. /\ got' \in [{"daily", "refresh"} -> 0..days]
        /\ task' \in [{"daily", "refresh"} -> {"idle", "seed", "regime"}]
    BY <1>1, <1>3 DEF DailyBars, DailyFails, Added, Fetched
  <2>3. ind' \in Computed' /\ days' \in Days /\ days <= days'
    BY <1>1, <2>1 DEF Computed
  <2>4. regime' \in {RegimeOn[day] : day \in 0..days'} \cup {Null}
    BY <1>1, <2>1
  <2>5. got' \in [{"daily", "refresh"} -> 0..days']
    BY <2>1, <2>2
  <2> QED
    BY <2>1, <2>2, <2>3, <2>4, <2>5, SeedingStep
<1>4. ASSUME NEW s \in {"daily", "refresh"}, NEW next \in {"idle", "regime"}, Seed(s, next)
      PROVE  Inv'
  <2>1. /\ days' = days /\ regime' = regime
        /\ UNCHANGED <<bad, entry, call, working>>
    BY <1>4 DEF Seed
  <2>2. /\ got' \in [{"daily", "refresh"} -> 0..days]
        /\ task' \in [{"daily", "refresh"} -> {"idle", "seed", "regime"}]
    BY <1>1, <1>4 DEF Seed
  <2>3. got[s] \in 0..days /\ StateOn[got[s]] \in Computed
    BY <1>1 DEF Computed
  <2>4. ind' \in Computed' /\ days' \in Days /\ days <= days'
    BY <1>1, <1>4, <2>1, <2>3 DEF Seed, Computed
  <2>5. regime' \in {RegimeOn[day] : day \in 0..days'} \cup {Null}
    BY <1>1, <2>1
  <2>6. got' \in [{"daily", "refresh"} -> 0..days']
    BY <2>1, <2>2
  <2> QED
    BY <2>1, <2>2, <2>4, <2>5, <2>6, SeedingStep
<1>5. CASE SeedRegime
  <2>1. /\ days' = days /\ ind' = ind /\ got' = got
        /\ UNCHANGED <<bad, entry, call, working>>
    BY <1>5 DEF SeedRegime
  <2>2. task' \in [{"daily", "refresh"} -> {"idle", "seed", "regime"}]
    BY <1>1, <1>5 DEF SeedRegime
  <2>3. ind' \in Computed' /\ days' \in Days /\ days <= days'
    BY <1>1, <2>1 DEF Computed
  <2>4. days \in 0..days
    BY <1>1
  <2>5. regime' \in {RegimeOn[day] : day \in 0..days'} \cup {Null}
    BY <1>1, <1>5, <2>1, <2>4 DEF SeedRegime
  <2>6. got' \in [{"daily", "refresh"} -> 0..days']
    BY <1>1, <2>1
  <2> QED
    BY <2>1, <2>2, <2>3, <2>5, <2>6, SeedingStep
<1> QED
  BY <1>2, <1>3, <1>4, <1>5 DEF Daily, Refresh

\* The part of the invariant that is about what the workers hold.
LEMMA WorkingFrame ==
    ASSUME Inv, UNCHANGED <<seeding, working>>
    PROVE  SeedCoherent' /\ FetchedPast' /\ Explained' /\ Priced'
<1>1. SeedCoherent'
  BY DEF Inv, SeedCoherent, Computed, seeding, working
<1>2. FetchedPast'
  BY DEF Inv, FetchedPast, seeding
<1>3. Explained' /\ Priced'
  BY DEF Inv, Explained, Priced, working
<1> QED
  BY <1>1, <1>2, <1>3

\* Who has a call open is on a path and waits for a verdict.
LEMMA Callers ==
    ASSUME Inv, NEW w \in Workers, call[w] # Null
    PROVE  /\ call[w] \in Verdict /\ call[w].age \in 0..Cap
           /\ pc[w] \in Paths \X {"layers", "score"}
           /\ pc[w][1] \in Paths /\ pc[w][2] = "score"
<1>1. call[w] \in Verdict /\ pc[w][2] = "score"
  BY DEF Inv, TypeOK
<1>2. pc[w] \in Paths \X {"layers", "score"}
  BY <1>1 DEF Inv, TypeOK, Idle
<1> QED
  BY <1>1, <1>2 DEF Verdict

LEMMA NewsNext == ASSUME Inv, NEW p \in Paths, NewsTurns(p) PROVE Inv'
<1>1. /\ \A o \in Paths : bad'[o] = bad[o] \/ bad'[o] \in {0, 1}
      /\ bad' \in [Paths -> 0..Cap]
  BY Times DEF NewsTurns, Inv, TypeOK
<1>2. TypeOK'
  BY <1>1 DEF NewsTurns, Inv, TypeOK, seeding, working
<1>3. \A o \in Paths : entry'[o] # Null =>
         /\ entry'[o].age <= MaxCall + TTL - entry'[o].left
         /\ entry'[o].positive => bad'[o] <= entry'[o].age + 1
  BY <1>1 DEF NewsTurns, Inv, TypeOK, FreshEntries, Entry
<1>4. \A w \in Workers : call'[w] # Null =>
         /\ call'[w].age <= MaxCall
         /\ call'[w].positive => bad'[pc'[w][1]] <= call'[w].age + 1
  <2> SUFFICES ASSUME NEW w \in Workers, call[w] # Null
               PROVE  /\ call[w].age <= MaxCall
                      /\ call[w].positive => bad'[pc[w][1]] <= call[w].age + 1
    BY DEF NewsTurns, working
  <2>1. pc[w][1] \in Paths /\ call[w] \in Verdict
    BY DEF Inv, TypeOK, Idle
  <2> QED
    BY <1>1, <2>1 DEF Inv, FreshEntries, Verdict
<1> QED
  BY <1>2, <1>3, <1>4, WorkingFrame DEF NewsTurns, Inv, FreshEntries

LEMMA TickNext == Inv /\ Tick => Inv'
<1> SUFFICES ASSUME Inv, Tick PROVE Inv'
  OBVIOUS
<1>1. \A p \in Paths : /\ bad[p] \in 0..Cap /\ bad'[p] \in 0..Cap
                       /\ bad'[p] <= bad[p] + 1
  BY Times DEF Tick, Inv, TypeOK
<1>2. \A p \in Paths : entry'[p] # Null =>
        /\ entry[p] # Null /\ entry[p] \in Entry /\ entry[p].left > 1
        /\ entry'[p].age = entry[p].age + 1 /\ entry'[p].left = entry[p].left - 1
        /\ entry'[p].positive = entry[p].positive
        /\ entry'[p] = [entry[p] EXCEPT !.age = @ + 1, !.left = @ - 1]
  <2> SUFFICES ASSUME NEW p \in Paths, entry'[p] # Null
               PROVE  /\ entry[p] # Null /\ entry[p] \in Entry /\ entry[p].left > 1
                      /\ entry'[p].age = entry[p].age + 1
                      /\ entry'[p].left = entry[p].left - 1
                      /\ entry'[p].positive = entry[p].positive
                      /\ entry'[p] = [entry[p] EXCEPT !.age = @ + 1, !.left = @ - 1]
    OBVIOUS
  <2>1. entry[p] \in Entry \cup {Null} /\ entry'[p] = Aged(entry[p])
    BY DEF Inv, TypeOK, Tick
  <2>2. entry[p] # Null /\ entry[p].left # 1 /\ entry[p] \in Entry
    BY <2>1 DEF Aged
  <2>3. entry'[p] = [entry[p] EXCEPT !.age = @ + 1, !.left = @ - 1]
    BY <2>1, <2>2 DEF Aged
  <2>4. entry[p].left \in 1..TTL
    BY <2>2 DEF Entry
  <2>5. entry[p].left > 1
    BY <2>2, <2>4, Times
  <2>6. /\ entry'[p].age = entry[p].age + 1
        /\ entry'[p].left = entry[p].left - 1
        /\ entry'[p].positive = entry[p].positive
    BY <2>2, <2>3 DEF Entry
  <2> QED
    BY <2>2, <2>3, <2>5, <2>6
<1>3. \A w \in Workers : call'[w] # Null =>
        /\ call[w] # Null /\ call[w] \in Verdict /\ call[w].age < MaxCall
        /\ call'[w].age = call[w].age + 1
        /\ call'[w].positive = call[w].positive
        /\ call'[w] = [call[w] EXCEPT !.age = @ + 1]
  BY DEF Tick, Inv, TypeOK, Verdict
<1>4. \A p \in Paths : entry'[p] # Null =>
         /\ entry'[p].age <= MaxCall + TTL - entry'[p].left
         /\ entry'[p].positive => bad'[p] <= entry'[p].age + 1
         /\ entry'[p] \in Entry
  <2> SUFFICES ASSUME NEW p \in Paths, entry'[p] # Null
               PROVE  /\ entry'[p].age <= MaxCall + TTL - entry'[p].left
                      /\ entry'[p].positive => bad'[p] <= entry'[p].age + 1
                      /\ entry'[p] \in Entry
    OBVIOUS
  <2>1. /\ entry[p].age \in 0..Cap /\ entry[p].left \in 1..TTL /\ entry[p].left > 1
        /\ entry[p].positive \in BOOLEAN
        /\ entry[p].age <= MaxCall + TTL - entry[p].left
    BY <1>2 DEF Entry, Inv, FreshEntries
  <2>2. entry[p].positive => bad[p] <= entry[p].age + 1
    BY <1>2 DEF Inv, FreshEntries
  <2>3. entry'[p].age <= MaxCall + TTL - entry'[p].left
    <3>1. entry'[p].age = entry[p].age + 1 /\ entry'[p].left = entry[p].left - 1
      BY <1>2
    <3>2. entry[p].age \in Nat /\ entry[p].left \in Nat
      BY <2>1, Times
    <3>3. entry[p].age + 1 <= MaxCall + TTL - (entry[p].left - 1)
      BY <2>1, <3>2, Times
    <3> QED
      BY <3>1, <3>3
  <2>4. entry'[p].positive => bad'[p] <= entry'[p].age + 1
    <3>1. entry'[p].positive = entry[p].positive /\ entry'[p].age = entry[p].age + 1
      BY <1>2
    <3>2. bad[p] <= entry[p].age + 1 => bad'[p] <= entry'[p].age + 1
      BY <1>1, <2>1, <3>1
    <3> QED
      BY <2>2, <3>1, <3>2
  <2>5. entry[p].age + 1 \in 0..Cap /\ entry[p].left - 1 \in 1..TTL
    BY <2>1, Times
  <2>6. entry'[p] \in Entry
    BY <1>2, <2>5 DEF Entry
  <2> QED
    BY <2>3, <2>4, <2>6
<1>5. \A w \in Workers : call'[w] # Null =>
         /\ call'[w].age <= MaxCall
         /\ call'[w].positive => bad'[pc[w][1]] <= call'[w].age + 1
         /\ call'[w] \in Verdict
  <2> SUFFICES ASSUME NEW w \in Workers, call'[w] # Null
               PROVE  /\ call'[w].age <= MaxCall
                      /\ call'[w].positive => bad'[pc[w][1]] <= call'[w].age + 1
                      /\ call'[w] \in Verdict
    OBVIOUS
  <2>1. /\ call[w].age \in 0..Cap /\ call[w].age < MaxCall
        /\ pc[w][1] \in Paths
    BY <1>3, Callers
  <2>2. call[w].positive => bad[pc[w][1]] <= call[w].age + 1
    BY <1>3 DEF Inv, FreshEntries
  <2>3. call[w].age + 1 <= MaxCall /\ call[w].age + 1 \in 0..Cap
    BY <2>1, Times
  <2>4. bad[pc[w][1]] <= call[w].age + 1 => bad'[pc[w][1]] <= call'[w].age + 1
    <3> DEFINE b == bad[pc[w][1]]
               c == bad'[pc[w][1]]
               k == call[w].age
               l == call'[w].age
    <3>1. l = k + 1 /\ k \in Nat
      <4>1. l = k + 1
        BY <1>3, Zenon
      <4>2. k \in Nat
        BY <2>1, Times
      <4> QED
        BY <4>1, <4>2
    <3>2. c <= b + 1 /\ b \in Nat /\ c \in Nat
      BY <1>1, <2>1, Times
    <3> HIDE DEF b, c, k, l
    <3>3. b <= k + 1 => c <= l + 1
      BY <3>1, <3>2
    <3> QED
      BY <3>3, Zenon DEF b, c, k, l
  <2>5. call'[w] \in Verdict
    BY <1>3, <2>3 DEF Verdict
  <2> QED
    BY <1>3, <2>2, <2>3, <2>4, <2>5
<1>6. FreshEntries'
  BY <1>4, <1>5 DEF FreshEntries, Tick, working
<1>7. TypeOK'
  <2>1. bad' \in [Paths -> 0..Cap]
    BY <1>1 DEF Tick
  <2>2. entry' \in [Paths -> Entry \cup {Null}]
    BY <1>4 DEF Tick
  <2>3. call' \in [Workers -> Verdict \cup {Null}]
    BY <1>5 DEF Tick
  <2>4. \A w \in Workers : call'[w] # Null <=> call[w] # Null
    <3> SUFFICES ASSUME NEW w \in Workers, call[w] # Null PROVE call'[w] # Null
      BY <1>3
    <3>1. call[w] \in Verdict /\ call[w].age < MaxCall /\ call[w].age \in 0..Cap
      BY DEF Tick, Inv, TypeOK, Verdict
    <3>2. [call[w] EXCEPT !.age = @ + 1] \in Verdict
      BY <3>1, Times DEF Verdict
    <3> QED
      BY <3>2, NullAssumption DEF Tick
  <2> QED
    BY <2>1, <2>2, <2>3, <2>4 DEF Tick, Inv, TypeOK, seeding, working
<1> QED
  BY <1>6, <1>7, WorkingFrame DEF Tick, Inv

-----------------------------------------------------------------------------
(* Steps of a worker                                                       *)

\* What a step of one worker may leave behind.
LEMMA WorkerStep ==
    ASSUME Inv, NEW w \in Workers, UNCHANGED <<seeding, bad>>,
           entry' \in [Paths -> Entry \cup {Null}],
           \A p \in Paths : entry'[p] # Null =>
             /\ entry'[p].age <= MaxCall + TTL - entry'[p].left
             /\ entry'[p].positive => bad[p] <= entry'[p].age + 1,
           NEW step \in {Idle} \cup (Paths \X {"layers", "score"}),
           NEW at \in Prices \cup {Null}, NEW i \in Computed,
           NEW c \in Verdict \cup {Null}, NEW sigs \in SUBSET Signal,
           pc' = [pc EXCEPT ![w] = step], price' = [price EXCEPT ![w] = at],
           seen' = [seen EXCEPT ![w] = i], call' = [call EXCEPT ![w] = c],
           made' = [made EXCEPT ![w] = sigs],
           step # Idle => at \in Prices,
           (c # Null) <=> (step[2] = "score"),
           c # Null => /\ c.age <= MaxCall
                       /\ c.positive => bad[step[1]] <= c.age + 1,
           step[2] = "score" => Passes(step[1], i, at),
           \A s \in sigs : s.ind \in Computed /\ Justified(s)
    PROVE  Inv'
<1>1. /\ pc'[w] = step /\ price'[w] = at /\ seen'[w] = i /\ call'[w] = c /\ made'[w] = sigs
      /\ \A v \in Workers \ {w} : /\ pc'[v] = pc[v] /\ price'[v] = price[v]
                                  /\ seen'[v] = seen[v] /\ call'[v] = call[v]
                                  /\ made'[v] = made[v]
  BY DEF Inv, TypeOK
<1>2. Computed' = Computed /\ Computed \subseteq Known
  <2>1. days \in Days /\ days \in Nat /\ 0..days \subseteq Days
    BY HistoryLength DEF Inv, TypeOK, Days
  <2> QED
    BY <2>1 DEF Computed, Known, seeding
<1>3. TypeOK'
  <2>1. \A v \in Workers : (call'[v] # Null) <=> (pc'[v][2] = "score")
    BY <1>1 DEF Inv, TypeOK
  <2>2. /\ pc' \in [Workers -> {Idle} \cup (Paths \X {"layers", "score"})]
        /\ price' \in [Workers -> Prices \cup {Null}]
        /\ call' \in [Workers -> Verdict \cup {Null}]
    BY DEF Inv, TypeOK
  <2>3. seen' \in [Workers -> Known] /\ made' \in [Workers -> SUBSET Signal]
    BY <1>2 DEF Inv, TypeOK
  <2> QED
    BY <2>1, <2>2, <2>3 DEF Inv, TypeOK, seeding
<1>4. SeedCoherent'
  <2>1. \A v \in Workers : seen'[v] \in Computed /\ \A s \in made'[v] : s.ind \in Computed
    BY <1>1 DEF Inv, SeedCoherent
  <2> QED
    BY <1>2, <2>1 DEF Inv, SeedCoherent, seeding
<1>5. FetchedPast'
  BY DEF Inv, FetchedPast, seeding
<1>6. FreshEntries'
  <2>1. \A v \in Workers : call'[v] # Null =>
           /\ call'[v].age <= MaxCall
           /\ call'[v].positive => bad[pc'[v][1]] <= call'[v].age + 1
    BY <1>1 DEF Inv, FreshEntries
  <2> QED
    BY <2>1 DEF FreshEntries
<1>7. Explained'
  BY <1>1 DEF Inv, Explained
<1>8. Priced'
  BY <1>1 DEF Inv, Priced
<1> QED
  BY <1>3, <1>4, <1>5, <1>6, <1>7, <1>8 DEF Inv

LEMMA TakeBarNext == ASSUME Inv, NEW w \in Workers, TakeBar(w) PROVE Inv'
<1>1. PICK at \in Prices : price' = [price EXCEPT ![w] = at]
  BY DEF TakeBar
<1>2. /\ UNCHANGED <<seeding, bad, entry, call, seen>> /\ pc[w] = Idle
      /\ made' = [made EXCEPT ![w] = {}]
      /\ pc' = [pc EXCEPT ![w] = <<"shadow", "layers">>]
  BY DEF TakeBar
<1>3. call[w] = Null
  BY <1>2 DEF Inv, TypeOK, Idle
<1>4. seen' = [seen EXCEPT ![w] = seen[w]] /\ call' = [call EXCEPT ![w] = Null]
  BY <1>2, <1>3 DEF Inv, TypeOK
<1>5. seen[w] \in Computed
  BY DEF Inv, SeedCoherent
<1>6. /\ entry' \in [Paths -> Entry \cup {Null}]
      /\ \A p \in Paths : entry'[p] # Null =>
             /\ entry'[p].age <= MaxCall + TTL - entry'[p].left
             /\ entry'[p].positive => bad[p] <= entry'[p].age + 1
  BY <1>2 DEF Inv, TypeOK, FreshEntries
<1> DEFINE step == <<"shadow", "layers">>
           sigs == {}
<1>7. step \in {Idle} \cup (Paths \X {"layers", "score"}) /\ step[2] # "score"
  BY DEF Paths
<1>8. sigs \in SUBSET Signal /\ \A s \in sigs : s.ind \in Computed /\ Justified(s)
  OBVIOUS
<1>9. made' = [made EXCEPT ![w] = sigs] /\ pc' = [pc EXCEPT ![w] = step]
  BY <1>2
<1>10. at \in Prices \cup {Null} /\ UNCHANGED <<seeding, bad>>
  BY <1>2
<1>11. seen' = [seen EXCEPT ![w] = seen[w]] /\ call' = [call EXCEPT ![w] = Null]
  BY <1>4
<1> HIDE DEF step, sigs
<1> QED
  BY <1>1, <1>5, <1>6, <1>7, <1>8, <1>9, <1>10, <1>11, WorkerStep

\* The path ends, with one more signal or none.
LEMMA EndingStep ==
    ASSUME Inv, NEW w \in Workers, pc[w] # Idle, PathEnds(w), UNCHANGED <<seeding, bad>>,
           entry' \in [Paths -> Entry \cup {Null}],
           \A p \in Paths : entry'[p] # Null =>
             /\ entry'[p].age <= MaxCall + TTL - entry'[p].left
             /\ entry'[p].positive => bad[p] <= entry'[p].age + 1,
           NEW sig \in Signal, sig.ind \in Computed,
           Justified(sig),
           made' = made \/ made' = [made EXCEPT ![w] = @ \cup {sig}]
    PROVE  Inv'
<1> DEFINE step == IF pc[w][1] = "shadow" THEN <<"live", "layers">> ELSE Idle
           at == IF pc[w][1] = "shadow" THEN price[w] ELSE Null
<1>1. /\ step \in {Idle} \cup (Paths \X {"layers", "score"})
      /\ at \in Prices \cup {Null} /\ (step # Idle => at \in Prices)
      /\ ~(step[2] = "score")
  <2>1. price[w] \in Prices
    BY DEF Inv, Priced
  <2>2. CASE pc[w][1] = "shadow"
    BY <2>1, <2>2 DEF Paths
  <2>3. CASE pc[w][1] # "shadow"
    BY <2>3 DEF Idle
  <2> QED
    BY <2>2, <2>3
<1>2. /\ pc' = [pc EXCEPT ![w] = step] /\ price' = [price EXCEPT ![w] = at]
      /\ seen' = [seen EXCEPT ![w] = Null] /\ call' = [call EXCEPT ![w] = Null]
  BY DEF PathEnds
<1>3. Null \in Computed
  BY DEF Computed
<1>4. /\ made[w] \in SUBSET Signal
      /\ \A s \in made[w] : s.ind \in Computed /\ Justified(s)
  BY DEF Inv, TypeOK, SeedCoherent, Explained
<1> HIDE DEF step, at
<1>5. CASE made' = made
  <2>1. made' = [made EXCEPT ![w] = made[w]]
    BY <1>5 DEF Inv, TypeOK
  <2> QED
    BY <1>1, <1>2, <1>3, <1>4, <2>1, WorkerStep
<1>6. CASE made' = [made EXCEPT ![w] = @ \cup {sig}]
  <2>1. /\ made[w] \cup {sig} \in SUBSET Signal
        /\ \A s \in made[w] \cup {sig} :
             s.ind \in Computed /\ Justified(s)
    BY <1>4
  <2> DEFINE sigs == made[w] \cup {sig}
  <2>2. made' = [made EXCEPT ![w] = sigs]
    BY <1>6
  <2>3. sigs \in SUBSET Signal /\ \A s \in sigs : s.ind \in Computed /\ Justified(s)
    BY <2>1
  <2> HIDE DEF sigs
  <2> QED
    BY <1>1, <1>2, <1>3, <2>2, <2>3, WorkerStep
<1> QED
  BY <1>5, <1>6

\* What the caches hold is fit to be kept.
LEMMA KeptEntries ==
    ASSUME Inv, UNCHANGED entry
    PROVE  /\ entry' \in [Paths -> Entry \cup {Null}]
           /\ \A p \in Paths : entry'[p] # Null =>
                /\ entry'[p].age <= MaxCall + TTL - entry'[p].left
                /\ entry'[p].positive => bad[p] <= entry'[p].age + 1
  BY DEF Inv, TypeOK, FreshEntries

\* A worker with a bar is on one of the paths and knows the price.
LEMMA OnPath ==
    ASSUME Inv, NEW w \in Workers, pc[w] # Idle
    PROVE  pc[w][1] \in Paths /\ price[w] \in Prices
  BY DEF Inv, TypeOK, Priced

\* The path ends without a signal that was made on indicators.
LEMMA SilentEnd ==
    ASSUME Inv, NEW w \in Workers, pc[w] # Idle, PathEnds(w),
           UNCHANGED <<seeding, bad>>, UNCHANGED entry,
           \/ UNCHANGED made
           \/ Write(w, [path |-> "shadow", fired |-> FALSE, price |-> price[w], ind |-> Null])
    PROVE  Inv'
<1> DEFINE sig == [path |-> "shadow", fired |-> FALSE, price |-> price[w], ind |-> Null]
<1>1. sig \in Signal
  BY OnPath DEF Signal, Paths, Known
<1>2. sig.ind \in Computed /\ Justified(sig)
  BY DEF Computed, Justified
<1>3. made' = made \/ made' = [made EXCEPT ![w] = @ \cup {sig}]
  BY DEF Write
<1> HIDE DEF sig
<1> QED
  BY <1>1, <1>2, <1>3, KeptEntries, EndingStep

\* The path ends with a verdict on indicators i.
LEMMA ReturnedStep ==
    ASSUME Inv, NEW w \in Workers, pc[w] # Idle, NEW i \in Computed, NEW positive \in BOOLEAN,
           Returned(w, i, positive), Passes(pc[w][1], i, price[w]), UNCHANGED <<seeding, bad>>,
           entry' \in [Paths -> Entry \cup {Null}],
           \A p \in Paths : entry'[p] # Null =>
             /\ entry'[p].age <= MaxCall + TTL - entry'[p].left
             /\ entry'[p].positive => bad[p] <= entry'[p].age + 1
    PROVE  Inv'
<1> DEFINE sig == [path |-> pc[w][1], fired |-> TRUE, price |-> price[w], ind |-> i]
<1>1. i \in Known
  <2>1. days \in Days /\ days \in Nat /\ 0..days \subseteq Days
    BY HistoryLength DEF Inv, TypeOK, Days
  <2> QED
    BY <2>1 DEF Computed, Known
<1>2. sig \in Signal
  BY <1>1, OnPath DEF Signal
<1>3. sig.ind \in Computed /\ Justified(sig)
  BY DEF Justified
<1>4. PathEnds(w) /\ (made' = made \/ made' = [made EXCEPT ![w] = @ \cup {sig}])
  BY DEF Returned, Write
<1> HIDE DEF sig
<1> QED
  BY <1>2, <1>3, <1>4, EndingStep

LEMMA MissNext == ASSUME Inv, NEW w \in Workers, Miss(w) PROVE Inv'
<1> DEFINE p == pc[w][1]
           step == <<p, "score">>
           c == [positive |-> bad[p] = 0, age |-> 0]
<1>1. /\ pc[w] # Idle /\ Passes(p, ind, price[w])
      /\ UNCHANGED <<seeding, bad, entry, price, made, used>>
  BY DEF Miss, LayersPass, AtLayers
<1>2. UNCHANGED <<seeding, bad>> /\ UNCHANGED entry
  BY <1>1
<1>3. /\ pc' = [pc EXCEPT ![w] = step] /\ seen' = [seen EXCEPT ![w] = ind]
      /\ call' = [call EXCEPT ![w] = c]
  BY DEF Miss
<1>4. price' = [price EXCEPT ![w] = price[w]] /\ made' = [made EXCEPT ![w] = made[w]]
  BY <1>1 DEF Inv, TypeOK
<1>5. p \in Paths /\ price[w] \in Prices
  BY <1>1, OnPath
<1>6. c \in Verdict /\ c # Null
  <2>1. c \in Verdict
    BY Times DEF Verdict
  <2> QED
    BY <2>1, NullAssumption
<1>7. /\ step \in {Idle} \cup (Paths \X {"layers", "score"})
      /\ step[1] = p /\ step[2] = "score"
  BY <1>5
<1>8. c.age <= MaxCall /\ (c.positive => bad[step[1]] <= c.age + 1)
  <2>1. c.age = 0 /\ (c.positive <=> bad[p] = 0)
    OBVIOUS
  <2>2. bad[p] = 0 => bad[p] <= 0 + 1
    OBVIOUS
  <2> QED
    BY <1>7, <2>1, <2>2, Times
<1>9. /\ made[w] \in SUBSET Signal /\ ind \in Computed
      /\ \A s \in made[w] : s.ind \in Computed /\ Justified(s)
  BY DEF Inv, TypeOK, SeedCoherent, Explained
<1>10. Passes(step[1], ind, price[w])
  BY <1>1, <1>7
<1> HIDE DEF p, step, c
<1> QED
  BY <1>2, <1>3, <1>4, <1>5, <1>6, <1>7, <1>8, <1>9, <1>10, KeptEntries, WorkerStep

LEMMA HitNext == ASSUME Inv, NEW w \in Workers, Hit(w) PROVE Inv'
<1>1. /\ pc[w] # Idle /\ Passes(pc[w][1], ind, price[w]) /\ entry[pc[w][1]] # Null
      /\ Returned(w, ind, entry[pc[w][1]].positive)
      /\ UNCHANGED <<seeding, bad>> /\ UNCHANGED entry
  BY DEF Hit, LayersPass, AtLayers
<1>2. entry[pc[w][1]].positive \in BOOLEAN
  BY <1>1, OnPath DEF Inv, TypeOK, Entry
<1>3. ind \in Computed
  BY DEF Inv, SeedCoherent
<1> QED
  BY <1>1, <1>2, <1>3, KeptEntries, ReturnedStep

LEMMA AnswerNext == ASSUME Inv, NEW w \in Workers, Answer(w) PROVE Inv'
<1>1. /\ pc[w] # Idle /\ pc[w][2] = "score" /\ UNCHANGED <<seeding, bad>>
      /\ Returned(w, seen[w], call[w].positive)
      /\ entry' = [entry EXCEPT ![pc[w][1]] = Stored(call[w])]
  BY DEF Answer, Calling
<1>2. call[w] # Null /\ call[w] \in Verdict /\ pc[w][1] \in Paths
  BY <1>1, Callers DEF Inv, TypeOK
<1>3. call[w].positive \in BOOLEAN /\ call[w].age \in Nat
  BY <1>2, Times DEF Verdict
<1>4. seen[w] \in Computed /\ Passes(pc[w][1], seen[w], price[w])
  BY <1>1 DEF Inv, SeedCoherent, Explained
<1>5. Stored(call[w]) # Null =>
        /\ Stored(call[w]) \in Entry
        /\ Stored(call[w]).age = call[w].age /\ Stored(call[w]).left = TTL
        /\ Stored(call[w]).positive = call[w].positive
  <2> SUFFICES ASSUME TTL # 0
               PROVE  /\ Stored(call[w]) \in Entry
                      /\ Stored(call[w]).age = call[w].age /\ Stored(call[w]).left = TTL
                      /\ Stored(call[w]).positive = call[w].positive
    BY DEF Stored
  <2>1. Stored(call[w]) = [positive |-> call[w].positive, age |-> call[w].age, left |-> TTL]
    BY DEF Stored
  <2>2. TTL \in 1..TTL
    BY Times
  <2> QED
    BY <1>2, <2>1, <2>2 DEF Entry, Verdict
<1>6. entry' \in [Paths -> Entry \cup {Null}]
  BY <1>1, <1>2, <1>5 DEF Inv, TypeOK
<1>7. /\ call[w].age <= MaxCall + TTL - TTL
      /\ call[w].positive => bad[pc[w][1]] <= call[w].age + 1
  <2>1. call[w].age <= MaxCall /\ (call[w].positive => bad[pc[w][1]] <= call[w].age + 1)
    BY <1>2 DEF Inv, FreshEntries
  <2>2. call[w].age <= MaxCall => call[w].age <= MaxCall + TTL - TTL
    BY <1>3, Times
  <2> QED
    BY <2>1, <2>2
<1>8. ASSUME NEW p \in Paths, entry'[p] # Null
      PROVE  /\ entry'[p].age <= MaxCall + TTL - entry'[p].left
             /\ entry'[p].positive => bad[p] <= entry'[p].age + 1
  <2>1. CASE p = pc[w][1]
    <3>1. entry'[p] = Stored(call[w])
      BY <1>1, <2>1 DEF Inv, TypeOK
    <3> QED
      BY <1>5, <1>7, <1>8, <2>1, <3>1
  <2>2. CASE p # pc[w][1]
    <3>1. entry'[p] = entry[p]
      BY <1>1, <2>2 DEF Inv, TypeOK
    <3> QED
      BY <1>8, <3>1 DEF Inv, FreshEntries
  <2> QED
    BY <2>1, <2>2
<1> QED
  BY <1>1, <1>3, <1>4, <1>6, <1>8, ReturnedStep

LEMMA EvaluateNext == ASSUME Inv, NEW w \in Workers, Evaluate(w) PROVE Inv'
<1>1. CASE Blocked(w) \/ RegimeOff(w)
  <2>1. /\ pc[w] # Idle /\ PathEnds(w) /\ UNCHANGED <<seeding, bad>> /\ UNCHANGED entry
        /\ \/ UNCHANGED made
           \/ Write(w, [path |-> "shadow", fired |-> FALSE, price |-> price[w], ind |-> Null])
    BY <1>1 DEF Blocked, RegimeOff, AtLayers
  <2> QED
    BY <2>1, SilentEnd
<1>2. CASE NoVerdict(w)
  <2>1. /\ pc[w] # Idle /\ PathEnds(w) /\ UNCHANGED <<seeding, bad>> /\ UNCHANGED entry
        /\ UNCHANGED made
    BY <1>2 DEF NoVerdict, Calling
  <2> QED
    BY <2>1, SilentEnd
<1> QED
  BY <1>1, <1>2, TakeBarNext, HitNext, MissNext, AnswerNext DEF Evaluate

LEMMA InvNext == Inv /\ [Next]_vars => Inv'
<1> SUFFICES ASSUME Inv, [Next]_vars PROVE Inv'
  OBVIOUS
<1>1. CASE UNCHANGED vars
  <2>1. Computed' = Computed
    BY <1>1 DEF vars, Computed
  <2> QED
    BY <1>1, <2>1 DEF vars, Inv, TypeOK, SeedCoherent, FetchedPast, FreshEntries,
                      Explained, Priced
<1> QED
  BY <1>1, SeedingNext, NewsNext, TickNext, EvaluateNext DEF Next

LEMMA Invariance == Spec => []Inv
  BY InvInit, InvNext, PTL DEF Spec

-----------------------------------------------------------------------------
(* Theorems                                                                *)

\* Every variable keeps its shape.
THEOREM SignalTypes == Spec => []TypeOK
<1>1. Inv => TypeOK
  BY DEF Inv
<1> QED
  BY <1>1, Invariance, PTL

\* No reader ever meets a mixture of two seeds or a state nobody computed,
\* however the two seeding goroutines and the workers interleave.
THEOREM SeedsCoherent == Spec => []SeedCoherent
<1>1. Inv => SeedCoherent
  BY DEF Inv
<1> QED
  BY <1>1, Invariance, PTL

\* Cached verdicts and those of open calls are no older than they may be and
\* were true when the news was read.
THEOREM EntriesFresh == Spec => []FreshEntries
<1>1. Inv => FreshEntries
  BY DEF Inv
<1> QED
  BY <1>1, Invariance, PTL

\* Every signal carries the very indicators that passed its path's layers at
\* its price, however the cache is re-seeded while the analyzer is asked.
THEOREM JustifiedSignals == Spec => []SignalsJustified
<1>1. Inv => SignalsJustified
  BY DEF Inv, Explained, Justified, SignalsJustified
<1> QED
  BY <1>1, Invariance, PTL

\* Once the news of a path has been bad for longer than a call and the
\* lifetime of an entry, that path signals nothing.
THEOREM BadNewsStops == Spec => BadNewsHeeded
<1>1. Inv /\ [Next]_vars =>
        [\A w \in Workers : \A s \in made'[w] \ made[w] : s.fired => bad[s.path] <= Grace]_vars
  <2> SUFFICES ASSUME Inv, Next, NEW w \in Workers, NEW s \in made'[w] \ made[w], s.fired
               PROVE  bad[s.path] <= Grace
    BY Zenon
  <2>1. PICK v \in Workers : Evaluate(v)
    <3>1. CASE NewDay \/ Tick \/ (\E p \in Paths : NewsTurns(p)) \/ Daily \/ Refresh
      BY <3>1 DEF NewDay, Tick, NewsTurns, Daily, Refresh, DailyBars, DailyFails, Seed,
                  SeedRegime, Added, working
    <3> QED
      BY <3>1 DEF Next
  <2>2. CASE TakeBar(v) \/ Blocked(v) \/ Miss(v) \/ NoVerdict(v)
    BY <2>2 DEF TakeBar, Blocked, Miss, NoVerdict, Inv, TypeOK
  <2>3. CASE RegimeOff(v)
    BY <2>3 DEF RegimeOff, Write, Inv, TypeOK
  <2>4. CASE Hit(v)
    <3> DEFINE p == pc[v][1]
    <3>1. pc[v] # Idle /\ entry[p] # Null /\ Returned(v, ind, entry[p].positive)
      BY <2>4 DEF Hit, LayersPass, AtLayers
    <3>2. entry[p].positive /\ s.path = p
      BY <3>1 DEF Returned, Write, Inv, TypeOK
    <3>3. p \in Paths
      BY <3>1, OnPath
    <3>4. /\ bad[p] <= entry[p].age + 1 /\ entry[p].age <= MaxCall + TTL - entry[p].left
      BY <3>1, <3>2, <3>3 DEF Inv, FreshEntries
    <3>5. entry[p].age \in 0..Cap /\ entry[p].left \in 1..TTL /\ bad[p] \in 0..Cap
      BY <3>1, <3>3 DEF Inv, TypeOK, Entry
    <3> HIDE DEF p
    <3>6. bad[p] <= Grace
      BY <3>4, <3>5, Times
    <3> QED
      BY <3>2, <3>6
  <2>5. CASE Answer(v)
    <3> DEFINE p == pc[v][1]
    <3>1. pc[v] # Idle /\ pc[v][2] = "score" /\ Returned(v, seen[v], call[v].positive)
      BY <2>5 DEF Answer, Calling
    <3>2. call[v].positive /\ s.path = p
      BY <3>1 DEF Returned, Write, Inv, TypeOK
    <3>3. p \in Paths /\ call[v] # Null
      BY <3>1, OnPath DEF Inv, TypeOK
    <3>4. bad[p] <= call[v].age + 1 /\ call[v].age <= MaxCall
      BY <3>2, <3>3 DEF Inv, FreshEntries
    <3>5. call[v].age \in 0..Cap /\ bad[p] \in 0..Cap
      BY <3>3, Callers DEF Inv, TypeOK
    <3> HIDE DEF p
    <3>6. bad[p] <= Grace
      BY <3>4, <3>5, Times
    <3> QED
      BY <3>2, <3>6
  <2> QED
    BY <2>1, <2>2, <2>3, <2>4, <2>5 DEF Evaluate
<1> QED
  BY <1>1, Invariance, PTL DEF Spec, BadNewsHeeded
=============================================================================
