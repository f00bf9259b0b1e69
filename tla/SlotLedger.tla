----------------------------- MODULE SlotLedger -----------------------------
(***************************************************************************)
(* What the accounting of trade slots promises, without workers, orders or *)
(* events.  A transfer starts with TargetTrades slots.  A buy takes one    *)
(* slot of one transfer, once; if it comes to nothing it gives the slot    *)
(* back to that transfer, once, and is done with.                          *)
(***************************************************************************)
EXTENDS Naturals

CONSTANTS Ids, Transfers, TargetTrades

VARIABLES
    remaining,  \* Transfers -> slots left
    held,       \* Ids -> the transfers the buy holds a slot of (at most one)
    closed      \* buys that gave their slot back

ledger == <<remaining, held, closed>>

Init == /\ remaining = TargetTrades
        /\ held      = [i \in Ids |-> {}]
        /\ closed    = {}

Reserve(i, t) ==
    /\ held[i] = {} /\ i \notin closed
    /\ remaining[t] > 0
    /\ held'      = [held EXCEPT ![i] = {t}]
    /\ remaining' = [remaining EXCEPT ![t] = @ - 1]
    /\ UNCHANGED closed

Release(i, t) ==
    /\ held[i] = {t}
    /\ held'      = [held EXCEPT ![i] = {}]
    /\ remaining' = [remaining EXCEPT ![t] = @ + 1]
    /\ closed'    = closed \cup {i}

Next == \E i \in Ids, t \in Transfers : Reserve(i, t) \/ Release(i, t)

Spec == Init /\ [][Next]_ledger
=============================================================================
