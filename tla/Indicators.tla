----------------------------- MODULE Indicators -----------------------------
(***************************************************************************)
(* The daily indicators of package indicator as exact fractions [n, d]     *)
(* over integer prices.  decimal.Div rounds after 16 digits; that rounding *)
(* is the only thing left out.                                             *)
(***************************************************************************)
EXTENDS Integers, Sequences

Less(a, b) == a.n * b.d < b.n * a.d
Whole(i)   == [n |-> i, d |-> 1]

SumOf(s) ==
    LET sum[k \in 0..Len(s)] == IF k = 0 THEN 0 ELSE sum[k - 1] + s[k]
    IN  sum[Len(s)]

calculateSMA(values) == [n |-> SumOf(values), d |-> Len(values)]

\* (avg * (period - 1) + v * gain) / (period - 1 + gain)
Blend(avg, v, period, gain) ==
    [n |-> (period - 1) * avg.n + gain * v * avg.d, d |-> (period - 1 + gain) * avg.d]

\* Both running averages start from the mean of the first period values and
\* take each later value in with a constant weight, gain to period - 1.
Smoothed(values, period, gain) ==
    LET avg[k \in period..Len(values)] ==
          IF k = period THEN calculateSMA(SubSeq(values, 1, period))
          ELSE Blend(avg[k - 1], values[k], period, gain)
    IN  avg[Len(values)]

\* Variant of CalculateEMA: smoothed by 1/period.
CalculateEMA_Wilder(values, period) == Smoothed(values, period, 1)

\* ema := (v - ema) * 2/(period+1) + ema
CalculateEMA(values, period) == Smoothed(values, period, 2)

Positive(change) == IF change > 0 THEN change ELSE 0
Changes(prices)  == [i \in 1..Len(prices) - 1 |-> prices[i + 1] - prices[i]]
Gains(changes)   == [i \in DOMAIN changes |-> Positive(changes[i])]
Negated(changes) == [i \in DOMAIN changes |-> 0 - changes[i]]

\* avgGain of the changes, and avgLoss of the changes with the sign turned, by
\* Wilder's (avg * (period - 1) + move) / period.
AvgMove(changes, period) == Smoothed(Gains(changes), period, 1)

\* Variant of CalculateRSI: the losses are smoothed like an EMA.
CalculateRSI_Mixed(prices, period) ==
    LET gain == AvgMove(Changes(prices), period)
        loss == CalculateEMA(Gains(Negated(Changes(prices))), period)
    IN  IF loss.n = 0 THEN Whole(100)
        ELSE [n |-> 100 * gain.n * loss.d, d |-> gain.n * loss.d + loss.n * gain.d]

\* 100 - 100/(1 + gain/loss) = 100 * gain/(gain + loss)
CalculateRSI(prices, period) ==
    LET gain == AvgMove(Changes(prices), period)
        loss == AvgMove(Negated(Changes(prices)), period)
    IN  IF loss.n = 0 THEN Whole(100)
        ELSE [n |-> 100 * gain.n * loss.d, d |-> gain.n * loss.d + loss.n * gain.d]

AbsOf(x) == IF x < 0 THEN 0 - x ELSE x
Higher3(x, y, z) == IF x >= y /\ x >= z THEN x ELSE IF y >= z THEN y ELSE z

\* Variant of calculateTrueRange: the gap below the close before is left out.
calculateTrueRange_NoGapDown(bar, prevClose) ==
    Higher3(bar.high - bar.low, AbsOf(bar.high - prevClose), 0)

calculateTrueRange(bar, prevClose) ==
    Higher3(AbsOf(bar.high - bar.low), AbsOf(bar.high - prevClose),
            AbsOf(bar.low - prevClose))

CalculateATR(bars, period) ==
    CalculateEMA([i \in 1..Len(bars) - 1 |->
                    calculateTrueRange(bars[i + 1], bars[i].close)], period)

Closes(bars) == [i \in DOMAIN bars |-> bars[i].close]

\* The length checks of Seed and of the functions it calls.
Seedable(bars, emaPeriod, rsiPeriod, atrPeriod) ==
    /\ Len(bars) > 0
    /\ Len(bars) >= emaPeriod
    /\ Len(bars) >= rsiPeriod + 2
    /\ Len(bars) >= atrPeriod + 1

\* The IndicatorState that Seed computes.
IndicatorState(bars, emaPeriod, rsiPeriod, atrPeriod) ==
    [EMA     |-> CalculateEMA(Closes(bars), emaPeriod),
     RSI     |-> CalculateRSI(Closes(bars), rsiPeriod),
     RSIPrev |-> CalculateRSI(Closes(SubSeq(bars, 1, Len(bars) - 1)), rsiPeriod),
     ATR     |-> CalculateATR(bars, atrPeriod)]

\* RegimeCache.Seed: the last close is above the EMA.
AboveEMA(bars, emaPeriod) ==
    Less(CalculateEMA(Closes(bars), emaPeriod), Whole(bars[Len(bars)].close))
=============================================================================
