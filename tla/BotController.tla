---------------------------- MODULE BotController ----------------------------
(***************************************************************************)
(* The run / pause / stop switch (bot.Controller), the HTTP calls that     *)
(* turn it and the workers that look at it once per bar.                   *)
(*                                                                         *)
(* Start and Stop are two compare-and-swaps each; other calls may come     *)
(* between them.  One action is one atomic operation on the state.         *)
(***************************************************************************)
EXTENDS Naturals

CONSTANTS
    Callers,    \* requests to /bot/start, /bot/pause and /bot/stop in flight
    Workers,    \* the goroutines that evaluate bars
    MaxOrders   \* bounds the orders one bar leads to

ASSUME MaxOrdersAssumption == MaxOrders \in Nat

States == {"running", "paused", "stopped"}

VARIABLES
    state,      \* Controller.state
    call,       \* where each caller is: the next operation, or its result
    busy,       \* the workers inside EvaluateBar
    todo,       \* the orders each of them has yet to place
    seen        \* history: the states the bot had since the call began

worker == <<busy, todo>>
vars   == <<state, call, busy, todo, seen>>

Calls == {"start1", "start2", "pause1", "stop1", "stop2"}
Done  == {"ok", "startErr", "pauseErr", "stopErr"}

\* main: BOT_AUTOSTART decides how the bot comes up.
Init == /\ state \in {"running", "stopped"}
        /\ call = [c \in Callers |-> "ok"]
        /\ busy = {}
        /\ todo = [w \in Workers |-> 0]
        /\ seen = [c \in Callers |-> {}]

\* The state the history of every call in flight records.
Witness(s) == seen' = [c \in Callers |-> IF call[c] \in Calls THEN seen[c] \cup {s}
                                                              ELSE seen[c]]

\* A handler calls Start, Pause or Stop.
Request(c, op) ==
    /\ call[c] \in Done
    /\ call' = [call EXCEPT ![c] = op]
    /\ seen' = [seen EXCEPT ![c] = {state}]
    /\ UNCHANGED <<state, worker>>

\* atomic.CompareAndSwapInt32: "then" when it swaps, "else" when it does not.
CAS(c, from, to, then, else) ==
    \/ /\ state = from
       /\ state' = to
       /\ call' = [call EXCEPT ![c] = then]
       /\ Witness(to)
       /\ UNCHANGED worker
    \/ /\ state # from
       /\ call' = [call EXCEPT ![c] = else]
       /\ UNCHANGED <<state, worker, seen>>

\* Variant of Start: the two swaps in the other order.
Start_StoppedFirst(c) ==
    \/ call[c] = "start1" /\ CAS(c, "stopped", "running", "ok", "start2")
    \/ call[c] = "start2" /\ CAS(c, "paused", "running", "ok", "startErr")

Start(c) ==
    \/ call[c] = "start1" /\ CAS(c, "paused", "running", "ok", "start2")
    \/ call[c] = "start2" /\ CAS(c, "stopped", "running", "ok", "startErr")

\* Variant of Pause: the state is stored without a comparison.
Pause_Store(c) ==
    /\ call[c] = "pause1"
    /\ state' = "paused"
    /\ call' = [call EXCEPT ![c] = "ok"]
    /\ Witness("paused")
    /\ UNCHANGED worker

Pause(c) == call[c] = "pause1" /\ CAS(c, "running", "paused", "ok", "pauseErr")

Stop(c) ==
    \/ call[c] = "stop1" /\ CAS(c, "running", "stopped", "ok", "stop2")
    \/ call[c] = "stop2" /\ CAS(c, "paused", "stopped", "ok", "stopErr")

-----------------------------------------------------------------------------
\* Variant of IsActive: only a pause keeps the bars out.
IsActive_NotPaused == state # "paused"

IsActive == state = "running"

\* A worker takes a bar from barChan and looks at the switch; a bar that comes
\* while the bot is not active is skipped.
TakeBar(w) ==
    /\ w \notin busy
    /\ IsActive
    /\ busy' = busy \cup {w}
    /\ \E n \in 0..MaxOrders : todo' = [todo EXCEPT ![w] = n]
    /\ UNCHANGED <<state, call, seen>>

\* EvaluateBar, of which only the broker calls matter here: it does not look
\* at the switch again.
PlaceOrder(w) ==
    /\ todo[w] > 0
    /\ todo' = [todo EXCEPT ![w] = @ - 1]
    /\ UNCHANGED <<state, call, busy, seen>>

\* Variant of FinishBar: the worker leaves with orders still to place.
FinishBar_Early(w) ==
    /\ w \in busy
    /\ busy' = busy \ {w}
    /\ UNCHANGED <<state, call, todo, seen>>

FinishBar(w) ==
    /\ w \in busy /\ todo[w] = 0
    /\ busy' = busy \ {w}
    /\ UNCHANGED <<state, call, todo, seen>>

Next ==
    \/ \E c \in Callers : \/ \E op \in {"start1", "pause1", "stop1"} : Request(c, op)
                          \/ Start(c) \/ Pause(c) \/ Stop(c)
    \/ \E w \in Workers : TakeBar(w) \/ PlaceOrder(w) \/ FinishBar(w)

Spec == Init /\ [][Next]_vars

\* A worker inside EvaluateBar goes on with it.
FairSpec == Spec /\ \A w \in Workers : WF_vars(PlaceOrder(w)) /\ WF_vars(FinishBar(w))

-----------------------------------------------------------------------------
\* The state, the calls and the workers keep their shape; only a worker inside
\* EvaluateBar has orders to place.
TypeOK ==
    /\ state \in States
    /\ call  \in [Callers -> Calls \cup Done]
    /\ busy  \subseteq Workers
    /\ todo  \in [Workers -> 0..MaxOrders]
    /\ seen  \in [Callers -> SUBSET States]
    /\ \A w \in Workers : todo[w] > 0 => w \in busy

\* Start: "Returns an error if the bot is already running".  When it returns
\* that error, the bot was running at some moment during the call, although
\* the two swaps see neither "running" nor the state in one piece.
StartErrorJustified ==
    \A c \in Callers : call[c] = "startErr" => "running" \in seen[c]

\* A stopped bot only ever becomes running: no interleaving of Pause, Stop and
\* Start resurrects it into "paused".
StoppedOnlyStarts == [][state = "stopped" => state' \in {"stopped", "running"}]_state

\* A bot that is stopped and left alone comes to rest: the bars that were being
\* evaluated end, and no worker begins another one (the gate in main).
StopDrains == state = "stopped" ~> (state # "stopped" \/ busy = {})
=============================================================================
