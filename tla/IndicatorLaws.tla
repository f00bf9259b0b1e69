---------------------------- MODULE IndicatorLaws ----------------------------
(***************************************************************************)
(* What the indicators are, said independently of how package indicator    *)
(* computes them: laws that hold on every day for every series of closes   *)
(* that could have led there.                                              *)
(***************************************************************************)
EXTENDS SignalService

CONSTANTS
    Quotes,     \* closes
    Periods     \* periods to compute indicators with

ASSUME LawsAssumption == Quotes \subseteq Int /\ Periods \subseteq Nat \ {0, 1}

Series(day) == [1..day -> Quotes]

SameFrac(a, b) == a.n * b.d = b.n * a.d

Power(base, k) ==
    LET power[i \in 0..k] == IF i = 0 THEN 1 ELSE base * power[i - 1]
    IN  power[k]

\* The EMA as a weighted sum of the whole series, times the denominator
\* period * (period + 1)^(Len(v) - period).
Weight(k, n, period) ==
    IF k <= period THEN Power(period - 1, n - period)
    ELSE 2 * period * Power(period - 1, n - k) * Power(period + 1, k - period - 1)

WeightedSum(v, period) == SumOf([k \in 1..Len(v) |-> Weight(k, Len(v), period) * v[k]])

WeightedOn == [day \in Days |->
    \A period \in Periods : \A v \in Series(day) : Len(v) >= period =>
      SameFrac(CalculateEMA(v, period),
               [n |-> WeightedSum(v, period),
                d |-> period * Power(period + 1, Len(v) - period)])]

\* The loop of CalculateEMA yields the textbook weights: 2/(period+1) for the
\* last value, each earlier one (period-1)/(period+1) times the next, and what
\* remains spread evenly over the first period values.
EmaIsWeighted == WeightedOn[days]

Mirror(v) == [i \in DOMAIN v |-> 10 - v[i]]
Moved(v)  == \E i \in 1..Len(v) - 1 : v[i] # v[i + 1]

SymmetricOn == [day \in Days |->
    \A period \in Periods : \A v \in Series(day) : Len(v) > period =>
      LET r == CalculateRSI(v, period)
          m == CalculateRSI(Mirror(v), period)
          p == CalculateRSI(SubSeq(v, 1, Len(v) - 1), period)
      IN  IF Moved(v)
          THEN /\ SameFrac(r, [n |-> 100 * m.d - m.n, d |-> m.d])
               /\ (Len(v) > period + 1 /\ v[Len(v)] > v[Len(v) - 1]) => ~Less(r, p)
               /\ (Len(v) > period + 1 /\ v[Len(v)] < v[Len(v) - 1]) => ~Less(p, r)
          ELSE r = Whole(100) /\ m = Whole(100)]

\* Turning every rise into a fall turns the RSI r into 100 - r, and one more
\* close above the last never lowers it, one more below never raises it:
\* gains and losses are smoothed alike.  A series that never moved has an RSI
\* of 100 both ways (the loss is zero).
RsiSymmetric == SymmetricOn[days]

SpansOn == [day \in Days |->
    \A low, high, prev \in 0..day : low <= high =>
      calculateTrueRange([high |-> high, low |-> low, close |-> high], prev)
        = (IF prev > high THEN prev ELSE high) - (IF prev < low THEN prev ELSE low)]

\* The true range is the length of the smallest interval that holds the bar
\* and the close before it, gaps in both directions included.
TrueRangeSpans == SpansOn[days]
=============================================================================
