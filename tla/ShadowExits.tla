----------------------------- MODULE ShadowExits -----------------------------
(***************************************************************************)
(* Two paths over the same rows: on every bar TradingCoordinator first     *)
(* runs the shadow exits, which move peak_price and log what the adaptive  *)
(* stop would have done, and then the live exits.  Meanwhile the consumer  *)
(* of trade updates rewrites whole rows from a copy it read earlier.       *)
(*                                                                         *)
(* The module follows buys of one symbol whose orders are placed and whose *)
(* order ids are stored.  Both paths start with the statement              *)
(* GetOpenBuyTradesBySymbol: its snapshot (Select) and the rows it then    *)
(* locks (Lock); locks are held to the end of the transaction.             *)
(***************************************************************************)
EXTENDS AdaptiveExit

CONSTANTS
    Workers,    \* the goroutines that evaluate bars
    Buys,       \* rows of trades
    Prices,     \* closes of bars
    Fills,      \* average fill prices the broker reports
    Entries,    \* <<price at signal, step, whether entry_atr is set>> of the buys
    MaxMoves,   \* bound on the moves of the market between bars
    Faults,     \* "db": statements may fail
    Null        \* SQL NULL; nothing in hand

Terminal == {"filled", "cancelled"}     \* a rejected buy is as good as cancelled
Statuses == {"pending", "open"} \cup Terminal

Row      == [status : Statuses, fill : Fills \cup {Null}, peak : Nat,
             price : Nat, step : Nat, atr : BOOLEAN]
Decision == [buy : Buys, action : {"exit_stop", "stop_moved", "exit_take_profit"},
             peak : Nat, stop : Int, adaptive : BOOLEAN, settled : BOOLEAN]
Copy     == [buy : Buys, row : Row, status : Statuses, fill : Fills \cup {Null}]

ASSUME PricesAssumption  == Prices \subseteq Nat /\ Fills \subseteq Nat
ASSUME EntriesAssumption == Entries \subseteq Nat \X Nat \X BOOLEAN
ASSUME MovesAssumption   == MaxMoves \in Nat
ASSUME NullAssumption    == Null \notin Fills \cup Prices \cup Copy

VARIABLES
    rows,   \* Buys -> Row
    sold,   \* the buys that have a sell row
    log,    \* shadow_exit_decisions
    cur,    \* ApplyTradeUpdates: the row as read and what will be written
    pc,     \* what each worker does next
    bar,    \* the close of the bar it evaluates
    seen,   \* the rows in its statement's snapshot
    copy,   \* the rows its transaction has locked, as it read them
    market, \* the close of the newest bar
    moves   \* how often the market has moved

vars   == <<rows, sold, log, cur, pc, bar, seen, copy, market, moves>>
tables == <<rows, sold, log>>
feed   == <<market, moves>>

-----------------------------------------------------------------------------
\* tradeEntryPrice
Entry(r)  == IF r.fill # Null THEN r.fill ELSE r.price
\* entry_atr in steps.  Rows older than the column have levels, but no ATR.
ATR(r)    == IF r.atr THEN r.step ELSE 0
Stop(r)   == StaticStop(r.price, r.step)
Target(r) == StaticTarget(r.price, r.step)

\* The effective stop of a row whose running peak is "peak".
EffectiveAt(r, peak) == EffectiveStop(peak, Entry(r), ATR(r), Stop(r))

StaticExit(r, price) == price <= Stop(r) \/ price >= Target(r)

NoRows == [b \in {} |-> Null]

\* Variant of Locked: the statement lacks FOR UPDATE.
Locked_Never(b) == FALSE /\ b \in Buys

Locked(b) == \E w \in Workers : b \in DOMAIN copy[w]

OpenBuys     == {b \in Buys : rows[b].status \in {"open", "filled"} /\ b \notin sold}
\* A row of the snapshot is checked again when it is locked, the NOT EXISTS
\* is not; a row that is locked by another transaction is skipped.
Lockable(w)  == {b \in seen[w] : rows[b].status \in {"open", "filled"} /\ ~Locked(b)}

-----------------------------------------------------------------------------
Init ==
    /\ \E e \in [Buys -> Entries] :
         rows = [b \in Buys |-> [status |-> "pending", fill |-> Null,
                                 peak |-> e[b][1], price |-> e[b][1],
                                 step |-> e[b][2], atr |-> e[b][3]]]
    /\ sold = {} /\ log = {} /\ cur = Null
    /\ market \in Prices /\ moves = 0
    /\ pc   = [w \in Workers |-> "idle"]
    /\ bar  = [w \in Workers |-> Null]
    /\ seen = [w \in Workers |-> {}]
    /\ copy = [w \in Workers |-> NoRows]

Goto(w, label) == pc' = [pc EXCEPT ![w] = label]

\* A bar arrives, at the price of the one before or at another.  Bars never
\* end; the moves of the market are bounded.
TakeBar(w) ==
    /\ pc[w] = "idle"
    /\ \/ UNCHANGED feed
       \/ moves < MaxMoves /\ market' \in Prices \ {market} /\ moves' = moves + 1
    /\ bar' = [bar EXCEPT ![w] = market']
    /\ Goto(w, "shadowSelect")
    /\ UNCHANGED <<tables, cur, seen, copy>>

\* GetOpenBuyTradesBySymbol in the transaction "from": its snapshot ...
Select(w, from, to) ==
    /\ pc[w] = from
    /\ seen' = [seen EXCEPT ![w] = OpenBuys]
    /\ Goto(w, to)
    /\ UNCHANGED <<tables, cur, bar, copy, feed>>

\* ... and the rows it locks and returns.
Lock(w, from, to) ==
    /\ pc[w] = from
    /\ copy' = [copy EXCEPT ![w] = [b \in Lockable(w) |-> rows[b]]]
    /\ seen' = [seen EXCEPT ![w] = {}]
    /\ Goto(w, to)
    /\ UNCHANGED <<tables, cur, bar, feed>>

\* The transaction ends and its locks are released.
Unlock(w, to) ==
    /\ copy' = [copy EXCEPT ![w] = NoRows]
    /\ Goto(w, to)
    /\ bar'  = IF to = "idle" THEN [bar EXCEPT ![w] = Null] ELSE bar
    /\ UNCHANGED <<cur, seen, feed>>

-----------------------------------------------------------------------------
(* The shadow exits                                                        *)

\* Variant of NewPeak: the last close instead of the highest.
NewPeak_Last(r, price) == IF ATR(r) > 0 THEN price ELSE r.peak

\* The legacy path (no ATR) leaves the peak alone.
NewPeak(r, price) == IF ATR(r) > 0 THEN Higher(r.peak, price) ELSE r.peak

Decide(b, action, peak, stop, adaptive) ==
    [buy |-> b, action |-> action, peak |-> peak, stop |-> stop,
     adaptive |-> adaptive, settled |-> rows[b].status = "filled"]

\* shadowAdaptiveExit: only while the static levels hold.
AdaptiveDecisions(b, r, price) ==
    LET peak   == NewPeak(r, price)
        newEff == EffectiveAt(r, peak)
        oldEff == EffectiveAt(r, r.peak)
    IN  IF StaticExit(r, price) THEN {}
        ELSE IF price <= newEff THEN {Decide(b, "exit_stop", peak, newEff, TRUE)}
        ELSE IF newEff > oldEff THEN {Decide(b, "stop_moved", peak, newEff, TRUE)}
        ELSE {}

\* shadowLegacyExit
LegacyDecisions(b, r, price) ==
    IF price <= Stop(r) THEN {Decide(b, "exit_stop", price, Stop(r), FALSE)}
    ELSE IF price >= Target(r)
         THEN {Decide(b, "exit_take_profit", price, Stop(r), FALSE)}
    ELSE {}

\* shadowEvaluateOneTrade
DecisionsOn(b, r, price) == IF ATR(r) > 0 THEN AdaptiveDecisions(b, r, price)
                                          ELSE LegacyDecisions(b, r, price)

\* Where the peak rose the whole row is written back.
WriteBack(b, r, price) ==
    IF NewPeak(r, price) # r.peak THEN [r EXCEPT !.peak = NewPeak(r, price)]
                                  ELSE rows[b]

ShadowCommit(w) ==
    /\ pc[w] = "shadow"
    /\ rows' = [b \in Buys |-> IF b \in DOMAIN copy[w]
                               THEN WriteBack(b, copy[w][b], bar[w])
                               ELSE rows[b]]
    /\ log'  = log \cup UNION {DecisionsOn(b, copy[w][b], bar[w]) : b \in DOMAIN copy[w]}
    /\ Unlock(w, "liveSelect")
    /\ UNCHANGED sold

\* Variant of ShadowRollback: the error ends the bar.
ShadowRollback_EndsBar(w) ==
    /\ pc[w] = "shadow" /\ "db" \in Faults
    /\ Unlock(w, "idle")
    /\ UNCHANGED tables

\* A failed statement for any of the rows undoes all of it, and is only
\* logged.
ShadowRollback(w) ==
    /\ pc[w] = "shadow" /\ "db" \in Faults
    /\ Unlock(w, "liveSelect")
    /\ UNCHANGED tables

-----------------------------------------------------------------------------
(* The live exits on the same bar.  What becomes of the sells is in        *)
(* TradeLifecycle.                                                         *)

Triggered(w) == {b \in DOMAIN copy[w] : StaticExit(copy[w][b], bar[w])}

LiveCommit(w) ==
    /\ pc[w] = "live"
    /\ Triggered(w) \cap sold = {}
    /\ sold' = sold \cup Triggered(w)
    /\ Unlock(w, "idle")
    /\ UNCHANGED <<rows, log>>

\* Variant of LiveRollback: the transaction is left open.
LiveRollback_KeepsLocks(w) ==
    /\ pc[w] = "live"
    /\ Triggered(w) \cap sold # {} \/ "db" \in Faults
    /\ bar' = [bar EXCEPT ![w] = Null]
    /\ Goto(w, "idle")
    /\ UNCHANGED <<tables, cur, seen, copy, feed>>

\* A sell that is there already (trades_one_sell_per_buy) or a failure.
LiveRollback(w) ==
    /\ pc[w] = "live"
    /\ Triggered(w) \cap sold # {} \/ "db" \in Faults
    /\ Unlock(w, "idle")
    /\ UNCHANGED tables

\* The sell order was refused and its row deleted.
SellRefused(b) ==
    /\ b \in sold
    /\ sold' = sold \ {b}
    /\ UNCHANGED <<rows, log, cur, pc, bar, seen, copy, feed>>

-----------------------------------------------------------------------------
(* ApplyTradeUpdates                                                       *)

\* Variant of Applicable: events for finished rows are applied.
Applicable_Terminal(b) == b \in Buys

Applicable(b) == rows[b].status \notin Terminal

\* The average fill price an event brings: none before the first fill, and
\* perhaps none when the order ends.
FillsWith(status) == CASE status = "pending"   -> {Null}
                       [] status = "cancelled" -> Fills \cup {Null}
                       [] OTHER                -> Fills

\* Variant of ApplyLookup: an event the mapper does not know is applied with
\* its empty status.
ApplyLookup_Unmapped ==
    /\ cur = Null
    /\ \E b \in Buys, status \in Statuses \cup {""}, fill \in Fills \cup {Null} :
         /\ Applicable(b) /\ fill \in FillsWith(status)
         /\ cur' = [buy |-> b, row |-> rows[b], status |-> status, fill |-> fill]
    /\ UNCHANGED <<tables, pc, bar, seen, copy, feed>>

\* An event of the broker reaches the consumer, which reads the row.  Any
\* event the mapper knows may come at any time, a repeated one included; its
\* status and its fill price replace those of the row.
ApplyLookup ==
    /\ cur = Null
    /\ \E b \in Buys, status \in Statuses : \E fill \in FillsWith(status) :
         /\ Applicable(b)
         /\ cur' = [buy |-> b, row |-> rows[b], status |-> status, fill |-> fill]
    /\ UNCHANGED <<tables, pc, bar, seen, copy, feed>>

\* The whole row is written back; the UPDATE waits for the row's lock.
ApplyCommit ==
    /\ cur # Null /\ ~Locked(cur.buy)
    /\ \/ rows' = [rows EXCEPT ![cur.buy] =
                     [cur.row EXCEPT !.status = cur.status, !.fill = cur.fill]]
       \/ "db" \in Faults /\ UNCHANGED rows
    /\ cur' = Null
    /\ UNCHANGED <<sold, log, pc, bar, seen, copy, feed>>

-----------------------------------------------------------------------------
\* TradingCoordinator.EvaluateBar: shadow exits, then live exits.
Advance(w) ==
    \/ Select(w, "shadowSelect", "shadowLock") \/ Lock(w, "shadowLock", "shadow")
    \/ ShadowCommit(w) \/ ShadowRollback(w)
    \/ Select(w, "liveSelect", "liveLock") \/ Lock(w, "liveLock", "live")
    \/ LiveCommit(w) \/ LiveRollback(w)

Next ==
    \/ \E w \in Workers : TakeBar(w) \/ Advance(w)
    \/ \E b \in Buys : SellRefused(b)
    \/ ApplyLookup \/ ApplyCommit

Spec == Init /\ [][Next]_vars

\* Workers that have a bar go on.  The database wakes the UPDATE that waits for
\* a row whenever the row is let go, and other transactions do not get ahead of
\* it for ever: the bars of a symbol are a minute apart.
FairSpec == /\ Spec
            /\ \A w \in Workers : WF_vars(Advance(w))
            /\ SF_vars(ApplyCommit)

-----------------------------------------------------------------------------
(* Properties                                                              *)

Labels == {"idle", "shadowSelect", "shadowLock", "shadow",
           "liveSelect", "liveLock", "live"}

\* Every variable keeps its shape.
TypeOK ==
    /\ rows \in [Buys -> Row]
    /\ sold \in SUBSET Buys
    /\ log  \in SUBSET Decision
    /\ cur  \in Copy \cup {Null}
    /\ pc   \in [Workers -> Labels]
    /\ bar  \in [Workers -> Prices \cup {Null}]
    /\ \A w \in Workers : (pc[w] = "idle") = (bar[w] = Null)
    /\ seen \in [Workers -> SUBSET Buys]
    /\ DOMAIN copy = Workers
    /\ \A w \in Workers : /\ DOMAIN copy[w] \subseteq Buys
                          /\ copy[w] \in [DOMAIN copy[w] -> Row]
    /\ market \in Prices
    /\ moves \in 0..MaxMoves

\* The rows a transaction has locked are the rows it read, and nobody else
\* has them: this is what makes the shadow path's Update of a whole row safe
\* (trade_repository.go, FOR UPDATE SKIP LOCKED).
LocksProtect ==
    /\ \A w \in Workers : \A b \in DOMAIN copy[w] : copy[w][b] = rows[b]
    /\ \A v, w \in Workers : DOMAIN copy[v] \cap DOMAIN copy[w] # {} => v = w

\* A finished row changes in nothing but its peak, and that only rises: the
\* shadow path's whole-row write never brings back a status or a fill price
\* that the consumer has replaced, and a late event never an older peak.
OnlyPeakRises ==
    [][\A b \in Buys : rows[b].status \in Terminal =>
         /\ rows'[b] = [rows[b] EXCEPT !.peak = rows'[b].peak]
         /\ rows'[b].peak >= rows[b].peak]_vars

\* The effective stop never is below the static stop, nor above the highest
\* price seen, whatever the fill price and the peaks the consumer undid
\* (ComputeAdaptiveEffectiveStop, "higher stop prices are tighter").
StopBetween ==
    \A b \in Buys : LET r == rows[b] IN
      /\ Stop(r) <= EffectiveAt(r, r.peak)
      /\ EffectiveAt(r, r.peak) <= r.peak

\* What was logged about a filled buy stays true of its row: the peak is at
\* least the logged one, and the effective stop is at most Slack below every
\* stop logged before (shadowAdaptiveExit).  With the default parameters the
\* slack is half an ATR: break-even lifts the stop to the entry, and when
\* trailing starts it falls back.
LogBacked ==
    \A d \in log : (d.adaptive /\ d.settled) =>
      LET r == rows[d.buy] IN
        /\ r.peak >= d.peak
        /\ EffectiveAt(r, r.peak) >= d.stop - Slack(ATR(r))

\* Whatever happens to the shadow transaction, the live exits of the same bar
\* are evaluated ("failures are logged but never abort the live path").
LiveFollows == \A w \in Workers : pc[w] = "shadow" ~> pc[w] = "live"

\* An update that has been looked up gets written, although both paths lock
\* the row again and again and the bars never end: every transaction that has
\* locked the row lets it go, whatever fails.
UpdateEnds == cur # Null ~> cur = Null

=============================================================================
