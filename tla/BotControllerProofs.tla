------------------------- MODULE BotControllerProofs -------------------------
(***************************************************************************)
(* What callers of the switch may rely on, for any number of requests.     *)
(***************************************************************************)
EXTENDS BotController, TLAPS

\* A Start that failed its first swap has seen a state other than "paused"; if
\* the bot is paused now, it went through "running" in between.
Start2OK == \A c \in Callers :
              call[c] = "start2" /\ state = "paused" => "running" \in seen[c]

\* While a call is in flight its history includes the present.
SeenNow == \A c \in Callers : call[c] \in Calls => state \in seen[c]

Inv == TypeOK /\ SeenNow /\ Start2OK /\ StartErrorJustified

\* What a compare-and-swap does to the calls and their histories.
LEMMA CASFacts ==
    ASSUME TypeOK, NEW c \in Callers, call[c] \in Calls,
           NEW from \in States, NEW to \in States,
           NEW then \in Calls \cup Done, NEW else \in Calls \cup Done,
           CAS(c, from, to, then, else)
    PROVE  /\ TypeOK'
           /\ \A d \in Callers \ {c} : call'[d] = call[d]
           /\ \/ /\ state = from /\ state' = to /\ call'[c] = then
                 /\ \A d \in Callers : seen'[d] = IF call[d] \in Calls
                                                  THEN seen[d] \cup {to} ELSE seen[d]
              \/ state # from /\ state' = state /\ call'[c] = else /\ seen' = seen
<1>1. call' \in [Callers -> Calls \cup Done] /\ state' \in States
  BY DEF CAS, TypeOK
<1>2. seen' \in [Callers -> SUBSET States]
  BY DEF CAS, TypeOK, Witness
<1>3. TypeOK'
  BY <1>1, <1>2 DEF CAS, TypeOK, worker
<1>4. QED
  BY <1>3 DEF CAS, TypeOK, Witness

\* A compare-and-swap preserves Inv if only "running" becomes "paused", if a
\* caller gets to "start2" by not seeing "paused", and if it reports an error
\* with "running" in its history.
LEMMA CASStep ==
    ASSUME Inv, NEW c \in Callers, call[c] \in Calls,
           NEW from \in States, NEW to \in States,
           NEW else \in Calls \cup Done, CAS(c, from, to, "ok", else),
           to = "paused" => from = "running",
           else = "start2" => from = "paused",
           else = "startErr" /\ state # from => "running" \in seen[c]
    PROVE  Inv'
<1> USE DEF Inv
<1>1. /\ TypeOK'
      /\ \A d \in Callers \ {c} : call'[d] = call[d]
      /\ \/ /\ state = from /\ state' = to /\ call'[c] = "ok"
            /\ \A d \in Callers : seen'[d] = IF call[d] \in Calls
                                             THEN seen[d] \cup {to} ELSE seen[d]
         \/ state # from /\ state' = state /\ call'[c] = else /\ seen' = seen
  BY CASFacts DEF Done
<1>2. ASSUME NEW d \in Callers
      PROVE  /\ call'[d] \in Calls => state' \in seen'[d]
             /\ call'[d] = "start2" /\ state' = "paused" => "running" \in seen'[d]
             /\ call'[d] = "startErr" => "running" \in seen'[d]
  <2>1. CASE state = from
    <3>1. /\ state' = to /\ call'[c] = "ok"
          /\ seen'[d] = IF call[d] \in Calls THEN seen[d] \cup {to} ELSE seen[d]
      BY <1>1, <2>1
    <3>2. CASE d = c
      BY <3>1, <3>2 DEF Calls
    <3>3. CASE d # c
      BY <1>1, <2>1, <3>1, <3>3 DEF SeenNow, Start2OK, StartErrorJustified, Calls
    <3>4. QED
      BY <3>2, <3>3
  <2>2. CASE state # from
    <3>1. state' = state /\ call'[c] = else /\ seen' = seen
      BY <1>1, <2>2
    <3>2. CASE d = c
      BY <2>2, <3>1, <3>2 DEF SeenNow
    <3>3. CASE d # c
      BY <1>1, <3>1, <3>3 DEF SeenNow, Start2OK, StartErrorJustified
    <3>4. QED
      BY <3>2, <3>3
  <2>3. QED
    BY <2>1, <2>2
<1>3. QED
  BY <1>1, <1>2 DEF SeenNow, Start2OK, StartErrorJustified

LEMMA InitInv == Init => Inv
BY MaxOrdersAssumption
   DEF Init, Inv, TypeOK, SeenNow, Start2OK, StartErrorJustified, States, Calls, Done

LEMMA NextInv == Inv /\ [Next]_vars => Inv'
<1> SUFFICES ASSUME Inv, [Next]_vars PROVE Inv'
  OBVIOUS
<1> USE DEF Inv
<1>1. ASSUME NEW c \in Callers, NEW op \in {"start1", "pause1", "stop1"}, Request(c, op)
      PROVE  Inv'
  <2>1. /\ call' = [call EXCEPT ![c] = op] /\ seen' = [seen EXCEPT ![c] = {state}]
        /\ UNCHANGED <<state, busy, todo>>
    BY <1>1 DEF Request, worker
  <2>2. TypeOK'
    BY <2>1 DEF TypeOK, Calls
  <2>3. SeenNow' /\ Start2OK' /\ StartErrorJustified'
    BY <2>1 DEF TypeOK, SeenNow, Start2OK, StartErrorJustified
  <2>4. QED
    BY <2>2, <2>3
<1>2. ASSUME NEW c \in Callers, Start(c) PROVE Inv'
  <2>1. CASE call[c] = "start1" /\ CAS(c, "paused", "running", "ok", "start2")
    BY <2>1, CASStep DEF Calls, States
  <2>2. CASE call[c] = "start2" /\ CAS(c, "stopped", "running", "ok", "startErr")
    <3>1. state # "stopped" => "running" \in seen[c]
      BY <2>2 DEF SeenNow, Start2OK, TypeOK, States, Calls
    <3>2. QED
      BY <2>2, <3>1, CASStep DEF Calls, Done, States
  <2>3. QED
    BY <1>2, <2>1, <2>2 DEF Start
<1>3. ASSUME NEW c \in Callers, Pause(c) PROVE Inv'
  BY <1>3, CASStep DEF Pause, Calls, Done, States
<1>4. ASSUME NEW c \in Callers, Stop(c) PROVE Inv'
  <2>1. CASE call[c] = "stop1" /\ CAS(c, "running", "stopped", "ok", "stop2")
    BY <2>1, CASStep DEF Calls, States
  <2>2. CASE call[c] = "stop2" /\ CAS(c, "paused", "stopped", "ok", "stopErr")
    BY <2>2, CASStep DEF Calls, Done, States
  <2>3. QED
    BY <1>4, <2>1, <2>2 DEF Stop
<1>5. ASSUME NEW w \in Workers, TakeBar(w) \/ PlaceOrder(w) \/ FinishBar(w)
      PROVE  Inv'
  <2>1. UNCHANGED <<state, call, seen>>
    BY <1>5 DEF TakeBar, PlaceOrder, FinishBar
  <2>2. TypeOK'
    BY <1>5, <2>1, MaxOrdersAssumption DEF TypeOK, TakeBar, PlaceOrder, FinishBar
  <2>3. QED
    BY <2>1, <2>2 DEF SeenNow, Start2OK, StartErrorJustified
<1>6. CASE UNCHANGED vars
  BY <1>6 DEF vars, TypeOK, SeenNow, Start2OK, StartErrorJustified
<1>7. QED
  BY <1>1, <1>2, <1>3, <1>4, <1>5, <1>6 DEF Next

\* The state, the calls and the workers keep their shape; only a worker inside
\* EvaluateBar has orders to place.
THEOREM BotTypes == Spec => []TypeOK
<1>1. Inv => TypeOK
  BY DEF Inv
<1>2. QED
  BY <1>1, InitInv, NextInv, PTL DEF Spec

\* Start says "already running" only of a bot that was running during the call.
THEOREM StartErrors == Spec => []StartErrorJustified
<1>1. Inv => StartErrorJustified
  BY DEF Inv
<1>2. QED
  BY <1>1, InitInv, NextInv, PTL DEF Spec

\* Only Start leaves "stopped", and it leads to "running".
THEOREM StoppedStays == Spec => StoppedOnlyStarts
<1>1. Next => [state = "stopped" => state' \in {"stopped", "running"}]_state
  BY DEF Next, Request, Start, Pause, Stop, CAS, TakeBar, PlaceOrder, FinishBar
<1>2. UNCHANGED vars => UNCHANGED state
  BY DEF vars
<1>3. QED
  BY <1>1, <1>2, PTL DEF Spec, StoppedOnlyStarts

=============================================================================
