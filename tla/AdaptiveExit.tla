---------------------------- MODULE AdaptiveExit ----------------------------
(***************************************************************************)
(* The price levels of a position, as numbers: the static stop and target  *)
(* that the live path obeys, and the effective stop the shadow path        *)
(* compares them with.                                                     *)
(*                                                                         *)
(* The configured multiples of the ATR (1.0, 1.5, 2.0, 3.0) are counted in *)
(* steps.  A position carries "step", the part of its entry ATR one step   *)
(* stands for, so that every level is an integer.  The effective stop of   *)
(* an entry ATR of zero is the static one.  The quotient profitATR is      *)
(* compared by multiplying out; decimal.Div rounds it after 16 digits.     *)
(***************************************************************************)
EXTENDS Integers

CONSTANTS
    BreakEven,  \* BREAK_EVEN_ATR_TRIGGER
    Trail,      \* TRAIL_ATR_TRIGGER
    Distance,   \* TRAIL_ATR_DISTANCE
    Risk,       \* ATR_RISK_MULTIPLIER
    Profit      \* TAKE_PROFIT_MULTIPLIER

\* Nothing in config.go checks the ranges; these are what the levels need.
ASSUME ParamsAssumption ==
    /\ BreakEven \in Nat /\ Trail \in Nat /\ Distance \in Nat
    /\ Risk \in Nat /\ Profit \in Nat

Higher(a, b) == IF a > b THEN a ELSE b

StaticStop(price, step)   == price - Risk * step
StaticTarget(price, step) == price + Profit * step

\* Variant of EffectiveStop: the stop is lifted to the entry at once.
EffectiveStop_NoTrigger(peak, entry, step, dbStop) ==
    IF step = 0 THEN dbStop
    ELSE IF peak - entry >= Trail * step THEN Higher(dbStop, peak - Distance * step)
    ELSE Higher(dbStop, entry)

\* ComputeAdaptiveEffectiveStop
EffectiveStop(peak, entry, step, dbStop) ==
    IF step = 0 THEN dbStop
    ELSE IF peak - entry >= Trail * step THEN Higher(dbStop, peak - Distance * step)
    ELSE IF peak - entry >= BreakEven * step THEN Higher(dbStop, entry)
    ELSE dbStop

\* How far the effective stop may fall when trailing takes over from
\* break-even.
Slack(step) == IF Distance > Trail THEN (Distance - Trail) * step ELSE 0
=============================================================================
