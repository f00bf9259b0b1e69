-------------------------- MODULE StreamSupervisor --------------------------
(***************************************************************************)
(* The bar stream and the symbols on it: the supervisor that reconnects    *)
(* (StreamSupervisor.Run under ConnectWithRetry), the watchlist refresh    *)
(* that subscribes and unsubscribes while it does, the daily re-seed of    *)
(* the indicators, and the shutdown of all three.                          *)
(*                                                                         *)
(* One action is what happens under one lock, or one call of the SDK.      *)
(***************************************************************************)
EXTENDS Integers, FiniteSets

CONSTANTS
    Symbols,
    Clients,    \* instances of stream.StocksClient; dead ones are used again
    MaxDelay,   \* the longest delay between two attempts (64 s)
    Faults,     \* the calls that may fail
    MaxFaults,  \* bounds how often they do
    MaxEdits,   \* bounds the changes to the watchlist
    Null        \* Go nil

ASSUME DelayAssumption  == MaxDelay \in {1, 2, 4, 8, 16, 32, 64}
ASSUME FaultsAssumption == Faults \subseteq {"fetch", "connect", "drop", "sdk", "seed"}
ASSUME BoundsAssumption == MaxFaults \in Nat /\ MaxEdits \in Nat
ASSUME NullAssumption   == Null \notin Clients

VARIABLES
    active,     \* the watchlist rows with is_active
    cancelled,  \* streamCtx
    faults,     \* failures so far
    edits,      \* watchlist changes so far
    \* the supervisor
    desired,    \* StreamSupervisor.symbols
    client,     \* StreamSupervisor.client
    loop,       \* where ConnectWithRetry is
    dial,       \* the client Run works with
    failed,     \* whether connectFn returned an error
    delay,
    \* Alpaca
    live,       \* the clients whose connection is up
    wire,       \* Clients -> the symbols each is subscribed to
    \* the watchlist refresh and the daily re-seed
    refresh,    \* where the refresh is
    added,      \* newSymbols
    removed,    \* removedSymbols
    held,       \* the client Subscribe or Unsubscribe copied under the lock
    seeded,     \* the symbols in the indicator cache
    daily       \* "run" or "done"

world   == <<active, edits>>
super   == <<loop, dial, failed, delay>>
ticker  == <<refresh, added, removed, held>>
vars    == <<active, cancelled, faults, edits, desired, client, loop, dial, failed,
             delay, live, wire, refresh, added, removed, held, seeded, daily>>

\* A failure of the given kind, as long as the bound allows one.
Fault(kind) == /\ kind \in Faults /\ faults < MaxFaults
               /\ faults' = faults + 1

Init ==
    /\ active \in SUBSET Symbols
    /\ seeded \in IF "seed" \in Faults THEN SUBSET active ELSE {active}
    /\ desired = active
    /\ cancelled = FALSE /\ faults = 0 /\ edits = 0
    /\ client = Null /\ dial = Null /\ held = Null
    /\ loop = "connect" /\ failed = FALSE /\ delay = 1
    /\ live = {} /\ wire = [k \in Clients |-> {}]
    /\ refresh = "tick" /\ added = {} /\ removed = {}
    /\ daily = "run"

-----------------------------------------------------------------------------
(* The environment                                                         *)

\* A row of the watchlist is added, activated or deactivated.
EditWatchlist ==
    /\ edits < MaxEdits /\ edits' = edits + 1
    /\ \E A \in SUBSET Symbols \ {active} : active' = A
    /\ UNCHANGED <<cancelled, faults, desired, client, super, live, wire, ticker,
                   seeded, daily>>

\* A signal arrives: main cancels streamCtx.
Cancel ==
    /\ ~cancelled /\ cancelled' = TRUE
    /\ UNCHANGED <<world, faults, desired, client, super, live, wire, ticker,
                   seeded, daily>>

\* A connection ends for good: the SDK gave up reconnecting.
Drop ==
    /\ Fault("drop")
    /\ \E k \in live : live' = live \ {k}
    /\ UNCHANGED <<world, cancelled, desired, client, super, wire, ticker, seeded, daily>>

-----------------------------------------------------------------------------
(* Run, under ConnectWithRetry                                             *)

\* newStocksStreamClient with the symbols of that moment.
NewClient ==
    /\ loop = "connect" /\ loop' = "dial"
    /\ \E k \in Clients \ (live \cup {client, held}) :
         /\ dial' = k
         /\ wire' = [wire EXCEPT ![k] = desired]
    /\ UNCHANGED <<world, cancelled, faults, desired, client, failed, delay, live,
                   ticker, seeded, daily>>

Connect ==
    /\ loop = "dial"
    /\ \/ /\ loop' = "publish" /\ live' = live \cup {dial}
          /\ UNCHANGED <<faults, failed>>
       \/ /\ Fault("connect") \/ (cancelled /\ UNCHANGED faults)
          /\ loop' = "returned" /\ failed' = TRUE
          /\ UNCHANGED live
    /\ UNCHANGED <<world, cancelled, desired, client, dial, delay, wire, ticker,
                   seeded, daily>>

\* Variant of SetClient: Connect's nil return is taken for the end of the stream.
SetClient_NoWait ==
    /\ loop = "publish" /\ loop' = "returned" /\ failed' = FALSE
    /\ UNCHANGED <<world, cancelled, faults, desired, client, dial, delay, live, wire,
                   ticker, seeded, daily>>

SetClient ==
    /\ loop = "publish" /\ loop' = "wait"
    /\ client' = dial
    /\ UNCHANGED <<world, cancelled, faults, desired, dial, failed, delay, live, wire,
                   ticker, seeded, daily>>

\* Variant of Wait: the select has no case for streamCtx.
Wait_Terminated ==
    /\ loop = "wait" /\ loop' = "returned"
    /\ dial \notin live
    /\ failed' \in BOOLEAN
    /\ client' = Null
    /\ UNCHANGED <<world, cancelled, faults, desired, dial, delay, live, wire, ticker,
                   seeded, daily>>

\* The select on Terminated and streamCtx, and the deferred setClient(nil).
\* Terminated may deliver nil.  A cancelled context closes the connection.
Wait ==
    /\ loop = "wait" /\ loop' = "returned"
    /\ dial \notin live \/ cancelled
    /\ failed' \in IF dial \in live THEN {TRUE} ELSE BOOLEAN
    /\ live' = live \ {dial}
    /\ client' = Null
    /\ UNCHANGED <<world, cancelled, faults, desired, dial, delay, wire, ticker,
                   seeded, daily>>

\* Variant of Returned: the loop ends when connectFn returns nil.
Returned_NilEnds ==
    /\ loop = "returned"
    /\ loop' = IF cancelled \/ ~failed THEN "done" ELSE "backoff"
    /\ UNCHANGED <<world, cancelled, faults, desired, client, dial, failed, delay, live,
                   wire, ticker, seeded, daily>>

\* connectFn has returned.
Returned ==
    /\ loop = "returned"
    /\ \/ cancelled  /\ loop' = "done"    /\ UNCHANGED delay
       \/ ~cancelled /\ failed  /\ loop' = "backoff" /\ UNCHANGED delay
       \/ ~cancelled /\ ~failed /\ loop' = "connect" /\ delay' = 1
    /\ UNCHANGED <<world, cancelled, faults, desired, client, dial, failed, live, wire,
                   ticker, seeded, daily>>

\* Variant of NextDelay: the delay is doubled once too often.
NextDelay_OneMore == IF delay <= MaxDelay THEN 2 * delay ELSE delay

NextDelay == IF delay < MaxDelay THEN 2 * delay ELSE delay

Backoff ==
    /\ loop = "backoff"
    /\ \/ loop' = "connect" /\ delay' = NextDelay
       \/ cancelled /\ loop' = "done" /\ UNCHANGED delay
    /\ UNCHANGED <<world, cancelled, faults, desired, client, dial, failed, live, wire,
                   ticker, seeded, daily>>

Supervisor == NewClient \/ Connect \/ SetClient \/ Wait \/ Returned \/ Backoff

-----------------------------------------------------------------------------
(* The watchlist refresh                                                   *)

\* Where the refresh goes with what is left of a tick.
AfterAdded   == IF removed # {} THEN "unsubscribe" ELSE "tick"
NextStep(new, gone) == CASE new # {}  -> "subscribe"
                         [] gone # {} -> "unsubscribe"
                         [] OTHER     -> "tick"

\* Variant of Diff: symbols that left the watchlist are overlooked.
Diff_NewOnly(fetched) == /\ added' = fetched \ desired
                         /\ removed' = {}

\* Only this goroutine changes the desired set, so the comparison with
\* Symbols() may happen together with the query.
Diff(fetched) == /\ added' = fetched \ desired
                 /\ removed' = desired \ fetched

\* A query under a cancelled context fails, and the next select ends the loop.
Fetch ==
    /\ refresh = "tick"
    /\ \/ /\ ~cancelled
          /\ Diff(active)
          /\ refresh' = NextStep(added', removed')
          /\ UNCHANGED faults
       \/ Fault("fetch") /\ UNCHANGED <<refresh, added, removed>>
       \/ cancelled /\ refresh' = "done" /\ UNCHANGED <<faults, added, removed>>
    /\ UNCHANGED <<world, cancelled, desired, client, super, live, wire, held, seeded,
                   daily>>

\* Subscribe: the set and the pointer under the lock; without a client the
\* call succeeds at once.
Subscribe ==
    /\ refresh = "subscribe"
    /\ desired' = desired \cup added
    /\ held' = client
    /\ refresh' = IF client = Null THEN "seed" ELSE "subscribing"
    /\ UNCHANGED <<world, cancelled, faults, client, super, live, wire, added, removed,
                   seeded, daily>>

\* subscribeToBars on that client, which may have died in the meantime.  A
\* call that fails may have reached Alpaca or not.
SubscribeToBars ==
    /\ refresh = "subscribing"
    /\ \/ /\ held \in live
          /\ wire' = [wire EXCEPT ![held] = @ \cup added]
          /\ refresh' = "seed"
          /\ UNCHANGED faults
       \/ /\ IF held \in live THEN Fault("sdk") ELSE UNCHANGED faults
          /\ wire' \in {wire, [wire EXCEPT ![held] = @ \cup added]}
          /\ refresh' = AfterAdded
    /\ held' = Null
    /\ UNCHANGED <<world, cancelled, desired, client, super, live, added, removed, seeded,
                   daily>>

\* seedIndicators for every new symbol; a failure is logged.
Seed ==
    /\ refresh = "seed"
    /\ \/ seeded' = seeded \cup added /\ UNCHANGED faults
       \/ \E ok \in SUBSET added : Fault("seed") /\ seeded' = seeded \cup ok
    /\ refresh' = AfterAdded
    /\ UNCHANGED <<world, cancelled, desired, client, super, live, wire, added, removed,
                   held, daily>>

Unsubscribe ==
    /\ refresh = "unsubscribe"
    /\ desired' = desired \ removed
    /\ held' = client
    /\ refresh' = IF client = Null THEN "tick" ELSE "unsubscribing"
    /\ UNCHANGED <<world, cancelled, faults, client, super, live, wire, added, removed,
                   seeded, daily>>

UnsubscribeFromBars ==
    /\ refresh = "unsubscribing" /\ refresh' = "tick"
    /\ \/ /\ held \in live
          /\ wire' = [wire EXCEPT ![held] = @ \ removed]
          /\ UNCHANGED faults
       \/ /\ IF held \in live THEN Fault("sdk") ELSE UNCHANGED faults
          /\ wire' \in {wire, [wire EXCEPT ![held] = @ \ removed]}
    /\ held' = Null
    /\ UNCHANGED <<world, cancelled, desired, client, super, live, added, removed, seeded,
                   daily>>

Refresh == Fetch \/ Subscribe \/ SubscribeToBars \/ Seed \/ Unsubscribe
                 \/ UnsubscribeFromBars

\* Variant of DailyReseed: a failed query ends the goroutine.
DailyReseed_Ends ==
    /\ daily = "run"
    /\ \/ ~cancelled /\ seeded' = seeded \cup active /\ UNCHANGED <<faults, daily>>
       \/ Fault("fetch") /\ daily' = "done" /\ UNCHANGED seeded
       \/ cancelled /\ daily' = "done" /\ UNCHANGED <<seeded, faults>>
    /\ UNCHANGED <<world, cancelled, desired, client, super, live, wire, ticker>>

\* Every 24 hours, for the symbols that are active then.
DailyReseed ==
    /\ daily = "run"
    /\ \/ ~cancelled /\ seeded' = seeded \cup active /\ UNCHANGED <<faults, daily>>
       \/ \E ok \in SUBSET active : /\ ~cancelled /\ Fault("seed") /\ seeded' = seeded \cup ok
                                    /\ UNCHANGED daily
       \/ Fault("fetch") /\ UNCHANGED <<seeded, daily>>
       \/ cancelled /\ daily' = "done" /\ UNCHANGED <<seeded, faults>>
    /\ UNCHANGED <<world, cancelled, desired, client, super, live, wire, ticker>>

-----------------------------------------------------------------------------
Next == EditWatchlist \/ Cancel \/ Drop \/ Supervisor \/ Refresh \/ DailyReseed

Spec == Init /\ [][Next]_vars

\* Timers fire, calls return and goroutines are scheduled.
FairSpec == Spec /\ WF_vars(Supervisor) /\ WF_vars(Refresh) /\ WF_vars(DailyReseed)

-----------------------------------------------------------------------------
(* Properties                                                              *)

\* The shape of the variables; the delay in particular stays between 1 s and
\* MaxDelay (ConnectWithRetry, README: "1 s -> 64 s").
TypeOK ==
    /\ active \in SUBSET Symbols /\ desired \in SUBSET Symbols
    /\ seeded \in SUBSET Symbols
    /\ cancelled \in BOOLEAN /\ failed \in BOOLEAN
    /\ faults \in 0..MaxFaults /\ edits \in 0..MaxEdits
    /\ {client, dial, held} \subseteq Clients \cup {Null}
    /\ loop \in {"connect", "dial", "publish", "wait", "returned", "backoff", "done"}
    /\ delay \in 1..MaxDelay
    /\ live \in SUBSET Clients /\ wire \in [Clients -> SUBSET Symbols]
    /\ refresh \in {"tick", "subscribe", "subscribing", "seed", "unsubscribe",
                    "unsubscribing", "done"}
    /\ added \in SUBSET Symbols /\ removed \in SUBSET Symbols
    /\ daily \in {"run", "done"}

\* No second connection is opened while one is up (Run: it would "trip
\* Alpaca's one-connection-per-key limit").
OneConnection == Cardinality(live) <= 1

\* Once failures and edits end, the stream is up and stays up: no way through
\* ConnectWithRetry stops it silently.
Reconnects == <>[](cancelled \/ (client # Null /\ client \in live))

\* Once failures and edits end, the desired set is the watchlist, whatever the
\* SDK answered on the way (the refresh in main).
WatchlistFollowed == <>[](cancelled \/ desired = active)

\* Once failures and edits end, every active symbol has indicators: the daily
\* re-seed makes up for what the refresh did not seed.
ActiveSeeded == <>[](cancelled \/ active \subseteq seeded)

\* After streamCtx is cancelled all three goroutines end (main waits for them).
ShutdownEnds == cancelled ~> (loop = "done" /\ refresh = "done" /\ daily = "done")

-----------------------------------------------------------------------------
(* What a comment says and the code does not keep.                         *)

\* StreamSupervisor: changes are "applied immediately" to a live client,
\* "otherwise they take effect on the next reconnect".  Between two ticks of
\* the refresh a live client is subscribed to the desired set.  A change made
\* after the client was built and before it was stored reaches neither this
\* client nor, by itself, a reconnect.
SubscriptionsApplied ==
    (refresh = "tick" /\ client # Null /\ client \in live) => wire[client] = desired
=============================================================================
