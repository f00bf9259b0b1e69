--------------------------- MODULE PositionSizing ---------------------------
(***************************************************************************)
(* Layer 4 of ExecuteBuyTrade: how many shares a signal buys out of a      *)
(* transfer, as an exact fraction [n, d].  decimal.Div rounds it after 16  *)
(* digits and the column trades.quantity after 4.                          *)
(***************************************************************************)
EXTENDS Integers

CONSTANTS
    RiskPct,    \* RISK_PER_TRADE_PCT, in percent of the transfer
    RiskMult    \* ATR_RISK_MULTIPLIER

ASSUME SizingAssumption == RiskPct \in Nat \ {0} /\ RiskMult \in Nat \ {0}

\* riskAmount / (ATR * multiplier)
ByRisk(amount, atr) == [n |-> amount * RiskPct * atr.d, d |-> 100 * atr.n * RiskMult]

\* (AmountUSD / TargetTrades) / PriceAtSignal
BySlot(amount, target, price) == [n |-> amount, d |-> target * price]

Lower(a, b) == IF a.n * b.d > b.n * a.d THEN b ELSE a

\* Variant of Quantity: not capped at the slot's share of the transfer.
Quantity_NoCap(amount, target, price, atr) ==
    IF atr.n # 0 /\ price > 0 THEN ByRisk(amount, atr)
    ELSE BySlot(amount, target, price)

\* Sized by risk, capped at the slot's share; by the share alone without ATR.
Quantity(amount, target, price, atr) ==
    IF atr.n # 0 /\ price > 0
    THEN Lower(ByRisk(amount, atr), BySlot(amount, target, price))
    ELSE BySlot(amount, target, price)

\* What the shares cost at the signal's price is at most the slot's share,
WithinSlot(q, amount, target, price) == q.n * target * price <= amount * q.d

\* and what they lose down to the stop, ATR * multiplier below, at most the
\* risked part of the transfer.
WithinRisk(q, amount, atr) ==
    q.n * 100 * atr.n * RiskMult <= amount * RiskPct * atr.d * q.d
=============================================================================
