---------------------------- MODULE SignalService ----------------------------
(***************************************************************************)
(* How a bar becomes a buy signal.  TradingCoordinator asks the shadow     *)
(* signal service for a preview and then the live one; each has a news     *)
(* provider of its own behind a cache with a time to live, and both read   *)
(* the same daily indicators, which two goroutines re-seed.                *)
(*                                                                         *)
(* The module follows one symbol; nothing in the caches relates symbols.   *)
(* Time is counted in ticks.  A call to the news API and the analyzer ends *)
(* after at most MaxCall ticks: the clients have timeouts.  Steps without  *)
(* a call take no time.                                                    *)
(***************************************************************************)
EXTENDS Indicators, PositionSizing

CONSTANTS
    Workers,        \* the goroutines that evaluate bars
    Prices,         \* closes of the bars they get
    History,        \* daily bars of the symbol, [high, low, close]
    IndexHistory,   \* daily bars of the regime symbol, as many
    FirstDays,      \* how many days exist when the process starts
    Window,         \* how many days GetBars returns at most
    EmaPeriod, RsiPeriod, AtrPeriod, RegimePeriod,
    TTL,            \* lifetime of a cached verdict
    MaxCall,        \* a call ends after this many ticks
    Amounts, Targets,   \* amount_usd and target_trades of transfers
    MaxBars, MaxNews, MaxAdds,  \* bounds
    Null

Days  == 0..Len(History)
Paths == {"shadow", "live"}     \* in this order
\* For how many ticks after the news turned bad a signal may still be made.
Grace == MaxCall + (IF TTL = 0 THEN 1 ELSE TTL)
Cap   == Grace + 1              \* the age of bad news is counted up to here

ASSUME TimeAssumption   == TTL \in Nat /\ MaxCall \in Nat
ASSUME BoundsAssumption == {MaxBars, MaxNews, MaxAdds} \subseteq Nat
ASSUME HistoryAssumption ==
    /\ History \in Seq([high : Nat, low : Nat, close : Nat])
    /\ \A i \in 1..Len(History) : /\ History[i].low <= History[i].close
                                  /\ History[i].close <= History[i].high
    /\ Len(IndexHistory) = Len(History)
ASSUME PeriodAssumption == Window \in Nat /\ RsiPeriod \in Nat \ {0} /\ AtrPeriod \in Nat \ {0, 1}
ASSUME TradingAssumption == Prices \cup Amounts \cup Targets \subseteq Nat \ {0}
ASSUME FirstAssumption  == FirstDays \subseteq Days

\* What GetBars returns on a day: a window that ends with that day.
BarsOn(history, day) ==
    SubSeq(history, IF day > Window THEN day - Window + 1 ELSE 1, day)

\* What Seed computes from them, Null if it returns an error.
StateOn == [day \in Days |->
    IF Seedable(BarsOn(History, day), EmaPeriod, RsiPeriod, AtrPeriod)
    THEN IndicatorState(BarsOn(History, day), EmaPeriod, RsiPeriod, AtrPeriod)
    ELSE Null]

RegimeOn == [day \in Days |->
    IF day > 0 /\ Len(BarsOn(IndexHistory, day)) >= RegimePeriod
    THEN (IF AboveEMA(BarsOn(IndexHistory, day), RegimePeriod) THEN "on" ELSE "off")
    ELSE Null]

VARIABLES
    days,       \* how many daily bars exist
    ind,        \* IndicatorCache: the symbol's state or Null
    regime,     \* RegimeCache: "on", "off", or Null while not seeded
    task,       \* what each seeding goroutine does next
    got,        \* the day of the bars it has fetched
    bad,        \* for each path, ticks since the news turned bad; 0: not bad
    entry,      \* the cached verdict of each path's provider, or Null
    pc,         \* each worker: <<path, step>> or idle
    price,      \* the close of its bar
    seen,       \* the indicators its path has read
    call,       \* the verdict that will come out of its call
    made,       \* the signals written for its bar
    used        \* how much of each bound has been used up

vars     == <<days, ind, regime, task, got, bad, entry, pc, price, seen, call, made, used>>
seeding  == <<days, ind, regime, task, got>>
working  == <<pc, price, seen, made>>

Idle == <<"none", "idle">>

Verdict == [positive : BOOLEAN, age : 0..Cap]
Entry   == [positive : BOOLEAN, age : 0..Cap, left : 1..TTL]

ASSUME NullAssumption == Null \notin Verdict \cup Entry

Known   == {StateOn[day] : day \in Days} \cup {Null}
Signal  == [path : Paths, fired : BOOLEAN, price : Prices, ind : Known]

-----------------------------------------------------------------------------
\* Before the workers start, both caches are seeded once; either may fail.
Init ==
    /\ days \in FirstDays
    /\ ind    \in {Null, StateOn[days]}
    /\ regime \in {Null, RegimeOn[days]}
    /\ task = [daily |-> "idle", refresh |-> "idle"]
    /\ got  = [daily |-> 0, refresh |-> 0]
    /\ bad   = [p \in Paths |-> 0]
    /\ entry = [p \in Paths |-> Null]
    /\ pc    = [w \in Workers |-> Idle]
    /\ price = [w \in Workers |-> Null]
    /\ seen  = [w \in Workers |-> Null]
    /\ call  = [w \in Workers |-> Null]
    /\ made  = [w \in Workers |-> {}]
    /\ used  = [bars |-> 0, news |-> 0, adds |-> 0]

\* One more of a bounded kind of step.
Spend(kind, max) == used[kind] < max /\ used' = [used EXCEPT ![kind] = @ + 1]

-----------------------------------------------------------------------------
(* The market, the news and the clock                                      *)

NewDay ==
    /\ days < Len(History)
    /\ days' = days + 1
    /\ UNCHANGED <<ind, regime, task, got, bad, entry, call, working, used>>

\* What a path's analyzer would say of the news changes.
NewsTurns(p) ==
    /\ Spend("news", MaxNews)
    /\ bad' = [bad EXCEPT ![p] = IF @ = 0 THEN 1 ELSE 0]
    /\ UNCHANGED <<seeding, entry, call, working>>

\* Variant of Aged: the expiry is not checked.
Aged_Forever(e) == IF e = Null THEN Null
                   ELSE [e EXCEPT !.age = IF @ < Cap THEN @ + 1 ELSE @]

\* Variant of Aged: an entry is found for one tick more than its lifetime.
Aged_Late(e) == IF e = Null THEN Null
                ELSE IF e.left = 0 THEN Null
                ELSE [e EXCEPT !.age = IF @ < Cap THEN @ + 1 ELSE @, !.left = @ - 1]

\* An entry that expires is as good as none.
Aged(e) == IF e = Null THEN Null
           ELSE IF e.left = 1 THEN Null
           ELSE [e EXCEPT !.age = @ + 1, !.left = @ - 1]

Tick ==
    /\ \A w \in Workers : call[w] # Null => call[w].age < MaxCall
    /\ bad'   = [p \in Paths |-> IF bad[p] \in 1..Cap - 1 THEN bad[p] + 1 ELSE bad[p]]
    /\ entry' = [p \in Paths |-> Aged(entry[p])]
    /\ call'  = [w \in Workers |-> IF call[w] = Null THEN Null
                                   ELSE [call[w] EXCEPT !.age = @ + 1]]
    /\ UNCHANGED <<seeding, working, used>>

-----------------------------------------------------------------------------
(* Seeding.  "daily" is the daily re-seed, which also seeds the regime;    *)
(* "refresh" seeds a symbol that was added to the watchlist.               *)

\* GetBars answers with the days so far.
Fetched(s) == got' = [got EXCEPT ![s] = days] /\ task' = [task EXCEPT ![s] = "seed"]

DailyBars ==
    /\ task.daily = "idle"
    /\ Fetched("daily")
    /\ UNCHANGED <<days, ind, regime, bad, entry, call, working, used>>

\* GetBars, for the symbol or for the index, fails and is logged.
DailyFails ==
    /\ \/ task.daily = "idle"   /\ task' = [task EXCEPT !.daily = "regime"]
       \/ task.daily = "regime" /\ task' = [task EXCEPT !.daily = "idle"]
    /\ UNCHANGED <<days, ind, regime, got, bad, entry, call, working, used>>

\* The watchlist refresh subscribed to the symbol and fetches its bars.
Added ==
    /\ task.refresh = "idle" /\ Spend("adds", MaxAdds)
    /\ Fetched("refresh")
    /\ UNCHANGED <<days, ind, regime, bad, entry, call, working>>

\* Variant of Seed: yesterday's RSI is taken from the cache.
Seed_PrevCached(s, next) ==
    /\ task[s] = "seed"
    /\ ind'  = IF StateOn[got[s]] = Null THEN ind
               ELSE IF ind = Null THEN StateOn[got[s]]
               ELSE [StateOn[got[s]] EXCEPT !.RSIPrev = ind.RSI]
    /\ task' = [task EXCEPT ![s] = next]
    /\ got'  = [got EXCEPT ![s] = 0]
    /\ UNCHANGED <<days, regime, bad, entry, call, working, used>>

\* IndicatorCache.Seed replaces the whole state, or nothing.
Seed(s, next) ==
    /\ task[s] = "seed"
    /\ ind'  = IF StateOn[got[s]] = Null THEN ind ELSE StateOn[got[s]]
    /\ task' = [task EXCEPT ![s] = next]
    /\ got'  = [got EXCEPT ![s] = 0]
    /\ UNCHANGED <<days, regime, bad, entry, call, working, used>>

\* Variant of SeedRegime: once seeded, never again.
SeedRegime_Once ==
    /\ task.daily = "regime"
    /\ task' = [task EXCEPT !.daily = "idle"]
    /\ regime' = IF regime = Null THEN RegimeOn[days] ELSE regime
    /\ UNCHANGED <<days, ind, got, bad, entry, call, working, used>>

\* seedRegime: GetBars and RegimeCache.Seed; nobody else writes the regime.
SeedRegime ==
    /\ task.daily = "regime"
    /\ task' = [task EXCEPT !.daily = "idle"]
    /\ regime' = IF RegimeOn[days] = Null THEN regime ELSE RegimeOn[days]
    /\ UNCHANGED <<days, ind, got, bad, entry, call, working, used>>

Daily   == DailyBars \/ DailyFails \/ Seed("daily", "regime") \/ SeedRegime
Refresh == Added \/ Seed("refresh", "idle")

-----------------------------------------------------------------------------
(* A worker evaluates a bar                                                *)

TakeBar(w) ==
    /\ pc[w] = Idle /\ Spend("bars", MaxBars)
    /\ \E p \in Prices : price' = [price EXCEPT ![w] = p]
    /\ made' = [made EXCEPT ![w] = {}]
    /\ pc'   = [pc EXCEPT ![w] = <<"shadow", "layers">>]
    /\ UNCHANGED <<seeding, bad, entry, call, seen>>

\* The path is done: the live path follows the shadow path.
PathEnds(w) ==
    /\ pc'   = [pc EXCEPT ![w] = IF pc[w][1] = "shadow" THEN <<"live", "layers">> ELSE Idle]
    /\ price' = [price EXCEPT ![w] = IF pc[w][1] = "shadow" THEN @ ELSE Null]
    /\ seen' = [seen EXCEPT ![w] = Null]
    /\ call' = [call EXCEPT ![w] = Null]

\* The signal is written, unless the insert fails.
Write(w, sig) == made' = [made EXCEPT ![w] = @ \cup {sig}] \/ UNCHANGED made

\* Analyze has returned a verdict: the path ends, with a signal on the
\* indicators i it read unless the verdict is negative or the insert fails.
Returned(w, i, positive) ==
    /\ PathEnds(w)
    /\ IF positive THEN Write(w, [path |-> pc[w][1], fired |-> TRUE,
                                  price |-> price[w], ind |-> i])
                   ELSE UNCHANGED made

Oversold == Whole(35)

TrendUp(i, at) == Less(i.EMA, Whole(at))

\* Layer 2: oversold today, or for the preview a cross-up since yesterday.
MomentumFor(p, i) ==
    IF p = "live" THEN Less(i.RSI, Oversold)
    ELSE Less(i.RSIPrev, Oversold) /\ ~Less(i.RSI, Oversold)

\* Layers 1 and 2 of a path, on indicators i and at a price.
Passes(p, i, at) == i # Null /\ TrendUp(i, at) /\ MomentumFor(p, i)

RegimeAllows(p) == p = "live" \/ regime = "on"

AtLayers(w) == pc[w] # Idle /\ pc[w][2] = "layers"

\* The layers pass on the indicators the path reads now.
LayersPass(w) ==
    /\ AtLayers(w) /\ RegimeAllows(pc[w][1])
    /\ Passes(pc[w][1], ind, price[w])

\* A layer blocks; or a position is open, or a query failed (TradeLifecycle).
Blocked(w) ==
    /\ AtLayers(w) /\ RegimeAllows(pc[w][1])
    /\ PathEnds(w)
    /\ UNCHANGED <<seeding, bad, entry, made, used>>

\* The regime is off: the preview is skipped and that is recorded.
RegimeOff(w) ==
    /\ AtLayers(w) /\ ~RegimeAllows(pc[w][1])
    /\ PathEnds(w)
    /\ Write(w, [path |-> "shadow", fired |-> FALSE, price |-> price[w], ind |-> Null])
    /\ UNCHANGED <<seeding, bad, entry, used>>

\* Variant of Hit: a verdict that is used lives on.
Hit_Extends(w) ==
    /\ LayersPass(w) /\ entry[pc[w][1]] # Null
    /\ Returned(w, ind, entry[pc[w][1]].positive)
    /\ entry' = [entry EXCEPT ![pc[w][1]].left = TTL]
    /\ UNCHANGED <<seeding, bad, used>>

\* Layer 3, cachedProvider: an entry that has not expired.
Hit(w) ==
    /\ LayersPass(w) /\ entry[pc[w][1]] # Null
    /\ Returned(w, ind, entry[pc[w][1]].positive)
    /\ UNCHANGED <<seeding, bad, entry, used>>

\* No entry: the articles are read, and what the analyzer will say of them is
\* settled.  Too few articles count as good news.
Miss(w) ==
    /\ LayersPass(w) /\ entry[pc[w][1]] = Null
    /\ pc'   = [pc EXCEPT ![w] = <<pc[w][1], "score">>]
    /\ seen' = [seen EXCEPT ![w] = ind]
    /\ call' = [call EXCEPT ![w] = [positive |-> bad[pc[w][1]] = 0, age |-> 0]]
    /\ UNCHANGED <<seeding, bad, entry, price, made, used>>

Calling(w) == pc[w] # Idle /\ pc[w][2] = "score"

\* GetNews or the analyzer fails: no verdict, and nothing is cached.
NoVerdict(w) ==
    /\ Calling(w)
    /\ PathEnds(w)
    /\ UNCHANGED <<seeding, bad, entry, made, used>>

\* The lifetime starts when the verdict is stored, not when the news was read.
Stored(c) == IF TTL = 0 THEN Null
             ELSE [positive |-> c.positive, age |-> c.age, left |-> TTL]

\* Variant of Answer: the indicators are read again for the signal.
Answer_Rereads(w) ==
    /\ Calling(w)
    /\ entry' = [entry EXCEPT ![pc[w][1]] = Stored(call[w])]
    /\ Returned(w, ind, call[w].positive)
    /\ UNCHANGED <<seeding, bad, used>>

Answer(w) ==
    /\ Calling(w)
    /\ entry' = [entry EXCEPT ![pc[w][1]] = Stored(call[w])]
    /\ Returned(w, seen[w], call[w].positive)
    /\ UNCHANGED <<seeding, bad, used>>

Evaluate(w) == \/ TakeBar(w) \/ Blocked(w) \/ RegimeOff(w) \/ Hit(w)
               \/ Miss(w) \/ NoVerdict(w) \/ Answer(w)

Next == \/ NewDay \/ Tick \/ \E p \in Paths : NewsTurns(p)
        \/ Daily \/ Refresh
        \/ \E w \in Workers : Evaluate(w)

Spec == Init /\ [][Next]_vars

\* The daily re-seed goes on for ever, and of all its calls of GetBars not all
\* fail from some day on.
FairSpec == /\ Spec
            /\ WF_vars(Seed("daily", "regime"))
            /\ SF_vars(DailyBars) /\ SF_vars(SeedRegime)

-----------------------------------------------------------------------------
(* Properties                                                              *)

\* Every variable keeps its shape.
TypeOK ==
    /\ days \in Days
    /\ task \in [{"daily", "refresh"} -> {"idle", "seed", "regime"}]
    /\ got  \in [{"daily", "refresh"} -> Days]
    /\ bad  \in [Paths -> 0..Cap]
    /\ entry \in [Paths -> Entry \cup {Null}]
    /\ pc \in [Workers -> {Idle} \cup (Paths \X {"layers", "score"})]
    /\ price \in [Workers -> Prices \cup {Null}]
    /\ seen \in [Workers -> Known]
    /\ call \in [Workers -> Verdict \cup {Null}]
    /\ \A w \in Workers : (call[w] # Null) <=> (pc[w][2] = "score")
    /\ made \in [Workers -> SUBSET Signal]

\* The values Seed has computed up to now.
Computed == {StateOn[day] : day \in 0..days} \cup {Null}

\* The cache, and whatever a path has read from it or put into a signal, is
\* what Seed computes from the bars up to one single day; yesterday's RSI
\* belongs to the same day, although two goroutines seed and days are missed
\* (cache.go, "Calling it again replaces the prior state").  The regime too,
\* and it is off before it is seeded.
SeedCoherent ==
    /\ ind \in Computed
    /\ regime \in {RegimeOn[day] : day \in 0..days} \cup {Null}
    /\ \A w \in Workers : seen[w] \in Computed /\ \A s \in made[w] : s.ind \in Computed

\* A cached verdict is as old as its call took and the time it has been
\* stored, and a positive one was true when the news was read: since then the
\* news has not been bad for longer (cachedProvider.Analyze, callers that miss
\* together included).
FreshEntries ==
    /\ \A p \in Paths : entry[p] # Null =>
         /\ entry[p].age <= MaxCall + TTL - entry[p].left
         /\ entry[p].positive => bad[p] <= entry[p].age + 1
    /\ \A w \in Workers : call[w] # Null =>
         /\ call[w].age <= MaxCall
         /\ call[w].positive => bad[pc[w][1]] <= call[w].age + 1

\* No path makes a signal once its news has been bad for the lifetime of an
\* entry and the length of a call: neither the cache, nor a slow answer that
\* overwrites a newer one, nor a failed call lets it through.
BadNewsHeeded ==
    [][\A w \in Workers : \A s \in made'[w] \ made[w] :
         s.fired => bad[s.path] <= Grace]_vars

\* A signal carries the indicators that passed its path's layers at its own
\* price, although the cache may be re-seeded while the path waits for the
\* analyzer and the next bar's paths run on other values (EvaluateBuySignal and
\* PreviewBuySignal read the cache once).
SignalsJustified ==
    \A w \in Workers : \A s \in made[w] : s.fired => Passes(s.path, s.ind, s.price)

\* Every live signal can be sized: its ATR is positive, so that stop, price
\* and target differ and the fallback without ATR is never needed, and the
\* quantity is positive and defined, within the slot's share of the transfer
\* and, down to the stop, within the risked part of it (ExecuteBuyTrade).
SizedWithinLimits ==
    \A w \in Workers : \A s \in made[w] : s.path = "live" =>
      /\ s.ind.ATR.n > 0
      /\ \A amount \in Amounts, target \in Targets :
           LET q == Quantity(amount, target, s.price, s.ind.ATR) IN
           /\ q.n > 0 /\ q.d > 0
           /\ WithinSlot(q, amount, target, s.price)
           /\ WithinRisk(q, amount, s.ind.ATR)

\* Whatever fails, and whichever goroutine answers last: the caches come to
\* hold what the bars of the last day say.
IndicatorsCatchUp == <>[](ind = StateOn[days] /\ regime = RegimeOn[days])

\* SignalService: PreviewBuySignal "runs the same five-layer checks as
\* EvaluateBuySignal and returns the signal that would be created".  What makes
\* a preview would make a live signal too.
PreviewSame ==
    \A w \in Workers : \A s \in made[w] :
      (s.fired /\ s.path = "shadow") => Passes("live", s.ind, s.price)

=============================================================================
