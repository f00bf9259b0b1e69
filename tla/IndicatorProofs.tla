--------------------------- MODULE IndicatorProofs ---------------------------
(***************************************************************************)
(* The indicators for every series of prices and every period, and what a  *)
(* live signal owes to them.                                               *)
(*                                                                         *)
(* The running averages are recursive functions over the days.  Facts      *)
(* about them go by Induct: a set that contains the first day and, with a  *)
(* day, the next one, contains them all.                                   *)
(***************************************************************************)
EXTENDS SignalServiceProofs, IndicatorLaws, WellFoundedInduction

-----------------------------------------------------------------------------
(* Induction and recursion over an interval *)

\* Induction over a..b.  The least element of what is left out cannot exist.
LEMMA Induct ==
    ASSUME NEW a \in Int, NEW b \in Int, a <= b, NEW S, a \in S,
           \A k \in a..(b - 1) : k \in S => k + 1 \in S
    PROVE  \A k \in a..b : k \in S
<1> DEFINE Off == {n \in Nat : a + n <= b /\ a + n \notin S}
           R == OpToRel(<, Nat)
<1> SUFFICES ASSUME NEW k \in a..b, k \notin S PROVE FALSE
  OBVIOUS
<1>1. k - a \in Off
  <2> HIDE DEF R
  <2> QED
    OBVIOUS
<1>2. IsWellFoundedOn(R, Nat)
  BY NatLessThanWellFounded
<1>3. \E m \in Off : \A n \in Off : <<n, m>> \notin R
  <2>1. Off \subseteq Nat
    OBVIOUS
  <2> HIDE DEF R, Off
  <2> QED
    BY <1>1, <1>2, <2>1, WFMin
<1>4. PICK m \in Off : \A n \in Off : <<n, m>> \notin R
  BY <1>3
<1>5. m # 0
  <2> HIDE DEF R
  <2> QED
    OBVIOUS
<1>6. m - 1 \in Nat /\ m - 1 < m /\ a + (m - 1) \in a..(b - 1) /\ (a + (m - 1)) + 1 = a + m
  <2> HIDE DEF R
  <2> QED
    BY <1>5
<1>7. m - 1 \in Off
  <2>1. a + (m - 1) \notin S
    <3> HIDE DEF R
    <3> QED
      BY <1>6
  <2> HIDE DEF R
  <2> QED
    BY <1>6, <2>1
<1>8. <<m - 1, m>> \in R
  BY <1>6 DEF OpToRel
<1> QED
  BY <1>4, <1>7, <1>8

\* step keeps the values in V on every day of a..b.
Keeps(a, b, V, step) == \A k \in (a + 1)..b : \A x \in V : step[k][x] \in V

\* f starts at first and goes on with step.
Passed(f, a, b, V, first, step) ==
    /\ f \in [a..b -> V] /\ f[a] = first
    /\ \A k \in (a + 1)..b : f[k] = step[k][f[k - 1]]

\* The recursive function that passes a value from day to day exists.
LEMMA Passing ==
    ASSUME NEW a \in Int, NEW b \in Int, a <= b, NEW V, NEW first \in V,
           NEW step, Keeps(a, b, V, step)
    PROVE  \E f : Passed(f, a, b, V, first, step)
<1> DEFINE S == {n \in a..b : \E f : Passed(f, a, n, V, first, step)}
<1>1. a \in S
  <2> DEFINE g == [k \in a..a |-> first]
  <2>1. g \in [a..a -> V] /\ g[a] = first /\ (a + 1)..a = {}
    OBVIOUS
  <2>2. a \in a..b
    OBVIOUS
  <2> HIDE DEF g
  <2>3. Passed(g, a, a, V, first, step)
    BY <2>1 DEF Passed
  <2> QED
    BY <2>2, <2>3
<1>2. ASSUME NEW n \in a..(b - 1), n \in S PROVE n + 1 \in S
  <2>1. PICK f : Passed(f, a, n, V, first, step)
    BY <1>2
  <2> DEFINE next == step[n + 1][f[n]]
             g == [k \in a..(n + 1) |-> IF k = n + 1 THEN next ELSE f[k]]
  <2>2. next \in V
    <3>1. n + 1 \in (a + 1)..b /\ n \in a..n
      OBVIOUS
    <3>2. f[n] \in V
      BY <2>1, <3>1 DEF Passed
    <3> QED
      BY <3>1, <3>2 DEF Keeps
  <2>3. g \in [a..(n + 1) -> V] /\ g[a] = first
    <3> HIDE DEF next
    <3> QED
      BY <2>1, <2>2 DEF Passed
  <2>4. ASSUME NEW k \in (a + 1)..(n + 1) PROVE g[k] = step[k][g[k - 1]]
    <3>1. k - 1 \in a..n /\ g[k - 1] = f[k - 1]
      OBVIOUS
    <3>2. CASE k = n + 1
      BY <3>1, <3>2
    <3>3. CASE k # n + 1
      <4>1. k \in (a + 1)..n
        BY <3>3
      <4>2. g[k] = f[k]
        BY <4>1
      <4> QED
        BY <2>1, <3>1, <4>1, <4>2 DEF Passed
    <3> QED
      BY <3>2, <3>3
  <2>5. Passed(g, a, n + 1, V, first, step)
    <3> HIDE DEF g
    <3> QED
      BY <2>3, <2>4 DEF Passed
  <2>6. n + 1 \in a..b
    OBVIOUS
  <2> HIDE DEF g
  <2> QED
    BY <2>5, <2>6
<1>3. b \in S
  <2>1. \A n \in a..(b - 1) : n \in S => n + 1 \in S
    BY <1>2
  <2> HIDE DEF S
  <2>2. \A n \in a..b : n \in S
    BY <1>1, <2>1, Induct
  <2> QED
    BY <2>2
<1> QED
  BY <1>3

-----------------------------------------------------------------------------
(* Sums *)

IsSum(f, s) ==
    /\ f \in [0..Len(s) -> Int] /\ f[0] = 0
    /\ \A k \in 1..Len(s) : f[k] = f[k - 1] + s[k]

LEMMA SumFunction ==
    ASSUME NEW s \in Seq(Int)
    PROVE  \E f : IsSum(f, s) /\ SumOf(s) = f[Len(s)]
<1> DEFINE step == [k \in 1..Len(s) |-> [x \in Int |-> x + s[k]]]
           Is(f) == f = [k \in 0..Len(s) |-> IF k = 0 THEN 0 ELSE f[k - 1] + s[k]]
           sum == CHOOSE f : Is(f)
<1>1. 0 \in Int /\ Len(s) \in Int /\ 0 <= Len(s) /\ 0 + 1 = 1
  OBVIOUS
<1>2. PICK f : Passed(f, 0, Len(s), Int, 0, step)
  <2>1. Keeps(0, Len(s), Int, step)
    BY DEF Keeps
  <2> HIDE DEF step
  <2> QED
    BY <1>1, <2>1, Passing
<1>3. Is(f)
  <2>1. ASSUME NEW k \in 1..Len(s) PROVE f[k] = f[k - 1] + s[k]
    <3>1. k - 1 \in 0..Len(s) /\ k \in (0 + 1)..Len(s)
      OBVIOUS
    <3>2. f[k - 1] \in Int /\ f[k] = step[k][f[k - 1]]
      <4> HIDE DEF step
      <4> QED
        BY <1>2, <3>1 DEF Passed
    <3>3. step[k] = [x \in Int |-> x + s[k]]
      OBVIOUS
    <3> HIDE DEF step
    <3> QED
      BY <3>2, <3>3
  <2> HIDE DEF step
  <2> QED
    BY <1>2, <2>1 DEF Passed
<1>4. Is(sum)
  <2> HIDE DEF Is
  <2> QED
    BY <1>3
<1>5. SumOf(s) = sum[Len(s)]
  BY DEF SumOf
<1> HIDE DEF sum
<1>6. sum[0] = 0 /\ \A k \in 1..Len(s) : sum[k] = sum[k - 1] + s[k] /\ s[k] \in Int
  <2> HIDE DEF step
  <2>1. \A k \in 0..Len(s) : sum[k] = IF k = 0 THEN 0 ELSE sum[k - 1] + s[k]
    BY <1>4
  <2> QED
    BY <2>1
<1>7. \A k \in 0..Len(s) : sum[k] \in Int
  <2> DEFINE S == {k \in 0..Len(s) : sum[k] \in Int}
  <2>1. 0 \in S
    BY <1>6
  <2>2. \A k \in 0..(Len(s) - 1) : k \in S => k + 1 \in S
    <3> TAKE k \in 0..(Len(s) - 1)
    <3>1. k + 1 \in 1..Len(s) /\ k + 1 \in 0..Len(s) /\ (k + 1) - 1 = k
      OBVIOUS
    <3> HIDE DEF sum, step, Is
    <3> QED
      BY <1>6, <3>1
  <2> HIDE DEF S, step, Is
  <2>4. \A k \in 0..Len(s) : k \in S
    BY <1>1, <2>1, <2>2, Induct
  <2> QED
    BY <2>4 DEF S
<1>8. sum \in [0..Len(s) -> Int]
  BY <1>4, <1>7
<1>9. IsSum(sum, s)
  BY <1>6, <1>8 DEF IsSum
<1> QED
  BY <1>5, <1>9

LEMMA Prefix ==
    ASSUME NEW X, NEW s \in Seq(X), NEW n \in 0..Len(s)
    PROVE  /\ SubSeq(s, 1, n) \in Seq(X) /\ Len(SubSeq(s, 1, n)) = n
           /\ \A k \in 1..n : SubSeq(s, 1, n)[k] = s[k]
  OBVIOUS

\* Two series with the same elements are one.
LEMMA SameSeq ==
    ASSUME NEW s \in Seq(Int), NEW t \in Seq(Int), Len(s) = Len(t),
           \A k \in 1..Len(s) : s[k] = t[k]
    PROVE  s = t
<1>1. /\ s = [k \in 1..Len(s) |-> s[k]] /\ t = [k \in 1..Len(t) |-> t[k]]
  OBVIOUS
<1> QED
  BY <1>1

LEMMA SumInt == ASSUME NEW s \in Seq(Int) PROVE SumOf(s) \in Int
<1>1. PICK f : IsSum(f, s) /\ SumOf(s) = f[Len(s)]
  BY SumFunction
<1>2. f \in [0..Len(s) -> Int] /\ Len(s) \in 0..Len(s)
  BY <1>1 DEF IsSum
<1> QED
  BY <1>1, <1>2

LEMMA SumEmpty == ASSUME NEW s \in Seq(Int), Len(s) = 0 PROVE SumOf(s) = 0
  BY SumFunction DEF IsSum

\* One more summand adds itself to the sum.
LEMMA SumStep ==
    ASSUME NEW s \in Seq(Int), Len(s) > 0
    PROVE  SumOf(s) = SumOf(SubSeq(s, 1, Len(s) - 1)) + s[Len(s)]
<1> DEFINE n == Len(s) - 1
           t == SubSeq(s, 1, n)
<1>1. /\ n \in Nat /\ t \in Seq(Int) /\ Len(t) = n
      /\ \A k \in 1..n : t[k] = s[k]
  <2>1. n \in Nat /\ n \in 0..Len(s)
    OBVIOUS
  <2> HIDE DEF n
  <2> QED
    BY <2>1, Prefix
<1> HIDE DEF t
<1>2. PICK f : IsSum(f, s) /\ SumOf(s) = f[Len(s)]
  BY SumFunction
<1>3. PICK g : IsSum(g, t) /\ SumOf(t) = g[Len(t)]
  BY <1>1, SumFunction
<1> DEFINE S == {k \in 0..n : f[k] = g[k]}
<1>4. 0 \in S
  BY <1>1, <1>2, <1>3 DEF IsSum
<1>5. ASSUME NEW k \in 0..(n - 1), k \in S PROVE k + 1 \in S
  <2>1. k + 1 \in 1..Len(s) /\ k + 1 \in 1..n /\ (k + 1) - 1 = k
    BY <1>1
  <2>2. f[k + 1] = f[k] + s[k + 1] /\ g[k + 1] = g[k] + t[k + 1]
    BY <1>1, <1>2, <1>3, <2>1 DEF IsSum
  <2> QED
    BY <1>1, <1>5, <2>1, <2>2
<1>6. n \in S
  <2>1. 0 \in Int /\ n \in Int /\ 0 <= n
    BY <1>1
  <2>2. \A k \in 0..(n - 1) : k \in S => k + 1 \in S
    BY <1>5
  <2> HIDE DEF S, n
  <2>3. \A k \in 0..n : k \in S
    BY <1>4, <2>1, <2>2, Induct
  <2> QED
    BY <1>1, <2>3
<1>7. f[Len(s)] = f[n] + s[Len(s)]
  BY <1>2 DEF IsSum
<1> QED
  BY <1>1, <1>2, <1>3, <1>6, <1>7 DEF t

\* A sum of gains is a gain, and none if there was none.
LEMMA SumSign ==
    ASSUME NEW s \in Seq(Nat)
    PROVE  /\ SumOf(s) \in Nat
           /\ (\E k \in 1..Len(s) : s[k] > 0) => SumOf(s) > 0
           /\ (\A k \in 1..Len(s) : s[k] = 0) => SumOf(s) = 0
<1> DEFINE n == Len(s)
           some(k) == \E i \in 1..k : s[i] > 0
<1>1. n \in Nat /\ s \in Seq(Int) /\ \A k \in 1..n : s[k] \in Nat
  OBVIOUS
<1>2. PICK f : IsSum(f, s) /\ SumOf(s) = f[n]
  BY <1>1, SumFunction
<1> DEFINE S == {k \in 0..n : f[k] \in Nat /\ (some(k) <=> f[k] > 0)}
<1>3. 0 \in S
  <2>1. f[0] = 0 /\ 0 \in 0..n
    BY <1>1, <1>2 DEF IsSum
  <2>2. ~some(0)
    OBVIOUS
  <2> QED
    BY <2>1, <2>2
<1>4. ASSUME NEW k \in 0..(n - 1), k \in S PROVE k + 1 \in S
  <2>1. k + 1 \in 1..n /\ (k + 1) - 1 = k /\ k + 1 \in 0..n
    BY <1>1
  <2>2. f[k + 1] = f[k] + s[k + 1] /\ s[k + 1] \in Nat
    BY <1>1, <1>2, <2>1 DEF IsSum
  <2>3. some(k + 1) <=> some(k) \/ s[k + 1] > 0
    <3>1. \A i \in 1..(k + 1) : i \in 1..k \/ i = k + 1
      OBVIOUS
    <3>2. \A i \in 1..k : i \in 1..(k + 1)
      OBVIOUS
    <3>3. k + 1 \in 1..(k + 1)
      OBVIOUS
    <3> QED
      BY <3>1, <3>2, <3>3
  <2>4. f[k] \in Nat /\ (some(k) <=> f[k] > 0)
    BY <1>4
  <2> HIDE DEF some
  <2> QED
    BY <2>1, <2>2, <2>3, <2>4
<1>5. n \in S
  <2>1. 0 \in Int /\ n \in Int /\ 0 <= n /\ n \in 0..n
    BY <1>1
  <2>2. \A k \in 0..(n - 1) : k \in S => k + 1 \in S
    BY <1>4
  <2> HIDE DEF S, n
  <2>3. \A k \in 0..n : k \in S
    BY <1>3, <2>1, <2>2, Induct
  <2> QED
    BY <2>1, <2>3
<1>6. f[n] \in Nat /\ (some(n) <=> f[n] > 0)
  BY <1>5
<1>7. (\A k \in 1..n : s[k] = 0) => ~some(n)
  OBVIOUS
<1> HIDE DEF n
<1> QED
  BY <1>2, <1>6, <1>7 DEF n

\* A factor can be taken out of a sum.
LEMMA SumScaled ==
    ASSUME NEW c \in Int, NEW s \in Seq(Int), NEW t \in Seq(Int), Len(t) = Len(s),
           \A k \in 1..Len(s) : t[k] = c * s[k]
    PROVE  SumOf(t) = c * SumOf(s)
<1> DEFINE n == Len(s)
<1>1. n \in Nat /\ \A k \in 1..n : s[k] \in Int
  OBVIOUS
<1>2. PICK f : IsSum(f, s) /\ SumOf(s) = f[n]
  BY SumFunction
<1>3. PICK g : IsSum(g, t) /\ SumOf(t) = g[n]
  BY SumFunction
<1> DEFINE S == {k \in 0..n : g[k] = c * f[k]}
<1>4. 0 \in S
  BY <1>1, <1>2, <1>3 DEF IsSum
<1>5. ASSUME NEW k \in 0..(n - 1), k \in S PROVE k + 1 \in S
  <2>1. k + 1 \in 1..n /\ (k + 1) - 1 = k /\ k + 1 \in 0..n /\ k \in 0..n
    BY <1>1
  <2>2. f[k + 1] = f[k] + s[k + 1] /\ g[k + 1] = g[k] + t[k + 1]
    BY <1>2, <1>3, <2>1 DEF IsSum
  <2>3. f[k] \in Int /\ s[k + 1] \in Int
    BY <1>1, <1>2, <2>1 DEF IsSum
  <2>4. g[k] = c * f[k] /\ t[k + 1] = c * s[k + 1]
    BY <1>5, <2>1
  <2>5. c * f[k] + c * s[k + 1] = c * (f[k] + s[k + 1])
    BY <2>3
  <2> QED
    BY <2>1, <2>2, <2>4, <2>5
<1>6. n \in S
  <2>1. 0 \in Int /\ n \in Int /\ 0 <= n /\ n \in 0..n
    BY <1>1
  <2>2. \A k \in 0..(n - 1) : k \in S => k + 1 \in S
    BY <1>5
  <2> HIDE DEF S, n
  <2>3. \A k \in 0..n : k \in S
    BY <1>4, <2>1, <2>2, Induct
  <2> QED
    BY <2>1, <2>3
<1> QED
  BY <1>2, <1>3, <1>6

-----------------------------------------------------------------------------
(* Running averages *)

Frac == [n : Int, d : Nat \ {0}]

IsAverage(f, values, period, gain) ==
    /\ f \in [period..Len(values) -> Frac]
    /\ f[period] = calculateSMA(SubSeq(values, 1, period))
    /\ \A k \in (period + 1)..Len(values) : f[k] = Blend(f[k - 1], values[k], period, gain)

LEMMA BlendFrac ==
    ASSUME NEW avg \in Frac, NEW v \in Int, NEW period \in Nat \ {0}, NEW gain \in Nat \ {0}
    PROVE  Blend(avg, v, period, gain) \in Frac
<1>1. avg.n \in Int /\ avg.d \in Nat \ {0}
  BY DEF Frac
<1>2. (period - 1) * avg.n \in Int /\ gain * v * avg.d \in Int
  BY <1>1
<1>3. period - 1 + gain \in Nat \ {0}
  OBVIOUS
<1>4. (period - 1 + gain) * avg.d \in Nat \ {0}
  BY <1>1, <1>3
<1> QED
  BY <1>2, <1>4 DEF Blend, Frac

LEMMA MeanFrac ==
    ASSUME NEW s \in Seq(Int), Len(s) > 0
    PROVE  calculateSMA(s) \in Frac
  BY SumInt DEF calculateSMA, Frac

LEMMA AverageFunction ==
    ASSUME NEW values \in Seq(Int), NEW period \in 1..Len(values), NEW gain \in Nat \ {0}
    PROVE  \E f : IsAverage(f, values, period, gain)
                  /\ Smoothed(values, period, gain) = f[Len(values)]
<1> DEFINE n == Len(values)
           mean == calculateSMA(SubSeq(values, 1, period))
           step == [k \in (period + 1)..n |-> [x \in Frac |-> Blend(x, values[k], period, gain)]]
           Is(f) == f = [k \in period..n |->
                           IF k = period THEN mean
                           ELSE Blend(f[k - 1], values[k], period, gain)]
           avg == CHOOSE f : Is(f)
<1>1. period \in Int /\ n \in Int /\ period <= n /\ period \in Nat \ {0} /\ period \in 0..n
  OBVIOUS
<1>2. \A k \in (period + 1)..n : values[k] \in Int /\ k - 1 \in period..n /\ k \in period..n /\ k # period
  OBVIOUS
<1>3. mean \in Frac
  <2>1. SubSeq(values, 1, period) \in Seq(Int) /\ Len(SubSeq(values, 1, period)) = period
    BY <1>1, Prefix
  <2>2. Len(SubSeq(values, 1, period)) > 0
    BY <1>1, <2>1
  <2> HIDE DEF Is, step, avg, n
  <2> QED
    BY <2>1, <2>2, MeanFrac
<1>4. Smoothed(values, period, gain) = avg[n]
  BY DEF Smoothed
<1> HIDE DEF mean, n
<1>5. PICK f : Passed(f, period, n, Frac, mean, step)
  <2>1. Keeps(period, n, Frac, step)
    BY <1>1, <1>2, BlendFrac DEF Keeps
  <2> HIDE DEF step
  <2> QED
    BY <1>1, <1>3, <2>1, Passing
<1>6. f \in [period..n -> Frac] /\ f[period] = mean
  <2> HIDE DEF step
  <2> QED
    BY <1>5 DEF Passed
<1>7. ASSUME NEW k \in (period + 1)..n PROVE f[k] = Blend(f[k - 1], values[k], period, gain)
  <2>1. step[k] = [x \in Frac |-> Blend(x, values[k], period, gain)]
    OBVIOUS
  <2> HIDE DEF step
  <2>2. f[k - 1] \in Frac /\ f[k] = step[k][f[k - 1]]
    BY <1>2, <1>5, <1>6 DEF Passed
  <2> QED
    BY <2>1, <2>2
<1> HIDE DEF step
<1>8. Is(f)
  BY <1>6, <1>7
<1>9. Is(avg)
  <2> HIDE DEF Is
  <2> QED
    BY <1>8
<1> HIDE DEF avg
<1>10. /\ avg[period] = mean
       /\ \A k \in (period + 1)..n : avg[k] = Blend(avg[k - 1], values[k], period, gain)
  <2>1. \A k \in period..n : avg[k] = IF k = period THEN mean
                                      ELSE Blend(avg[k - 1], values[k], period, gain)
    BY <1>9
  <2> QED
    BY <1>1, <1>2, <2>1
<1>11. \A k \in period..n : avg[k] \in Frac
  <2> DEFINE S == {k \in period..n : avg[k] \in Frac}
  <2>1. period \in S
    BY <1>1, <1>3, <1>10
  <2>2. ASSUME NEW k \in period..(n - 1), k \in S PROVE k + 1 \in S
    <3>1. k + 1 \in (period + 1)..n /\ (k + 1) - 1 = k /\ k + 1 \in period..n
      BY <1>1
    <3>2. avg[k] \in Frac /\ values[k + 1] \in Int
      BY <1>2, <2>2, <3>1
    <3>3. avg[k + 1] = Blend(avg[k], values[k + 1], period, gain)
      BY <1>10, <3>1
    <3> QED
      BY <1>1, <3>1, <3>2, <3>3, BlendFrac
  <2>3. \A k \in period..(n - 1) : k \in S => k + 1 \in S
    BY <2>2
  <2> HIDE DEF S, Is
  <2>4. \A k \in period..n : k \in S
    BY <1>1, <2>1, <2>3, Induct
  <2> QED
    BY <2>4 DEF S
<1>12. avg \in [period..n -> Frac]
  BY <1>9, <1>11
<1>13. IsAverage(avg, values, period, gain)
  <2> HIDE DEF Is
  <2> QED
    BY <1>10, <1>12 DEF IsAverage, mean, n
<1> QED
  BY <1>4, <1>13 DEF n

LEMMA SmoothedFrac ==
    ASSUME NEW values \in Seq(Int), NEW period \in 1..Len(values), NEW gain \in Nat \ {0}
    PROVE  Smoothed(values, period, gain) \in Frac
<1>1. PICK f : IsAverage(f, values, period, gain) /\ Smoothed(values, period, gain) = f[Len(values)]
  BY AverageFunction, Zenon
<1>2. f \in [period..Len(values) -> Frac] /\ Len(values) \in period..Len(values)
  BY <1>1 DEF IsAverage
<1> QED
  BY <1>1, <1>2

LEMMA SmoothedFirst ==
    ASSUME NEW values \in Seq(Int), Len(values) > 0, NEW gain \in Nat \ {0}
    PROVE  Smoothed(values, Len(values), gain) = calculateSMA(values)
<1>1. Len(values) \in 1..Len(values) /\ SubSeq(values, 1, Len(values)) = values
  OBVIOUS
<1>2. PICK f : /\ IsAverage(f, values, Len(values), gain)
               /\ Smoothed(values, Len(values), gain) = f[Len(values)]
  BY <1>1, AverageFunction
<1> QED
  BY <1>1, <1>2 DEF IsAverage

\* One more value is one more step of the loop.
LEMMA SmoothedStep ==
    ASSUME NEW values \in Seq(Int), NEW period \in 1..(Len(values) - 1), NEW gain \in Nat \ {0}
    PROVE  Smoothed(values, period, gain)
             = Blend(Smoothed(SubSeq(values, 1, Len(values) - 1), period, gain),
                     values[Len(values)], period, gain)
<1> DEFINE n == Len(values) - 1
           t == SubSeq(values, 1, n)
<1>1. /\ n \in 0..Len(values) /\ n \in Int /\ period \in Int /\ period <= n
      /\ period \in 1..Len(values) /\ period \in 1..n /\ period \in 0..n
      /\ Len(values) \in (period + 1)..Len(values)
  OBVIOUS
<1>2. t \in Seq(Int) /\ Len(t) = n /\ \A k \in 1..n : t[k] = values[k]
  BY <1>1, Prefix
<1>3. SubSeq(t, 1, period) = SubSeq(values, 1, period)
  BY <1>1
<1> HIDE DEF t
<1>4. PICK f : IsAverage(f, values, period, gain) /\ Smoothed(values, period, gain) = f[Len(values)]
  BY <1>1, AverageFunction
<1>5. PICK g : IsAverage(g, t, period, gain) /\ Smoothed(t, period, gain) = g[n]
  <2> HIDE DEF n
  <2>1. period \in 1..Len(t)
    BY <1>1, <1>2
  <2> QED
    BY <1>2, <2>1, AverageFunction
<1> DEFINE S == {k \in period..n : f[k] = g[k]}
<1>6. period \in S
  <2>1. f[period] = g[period]
    BY <1>3, <1>4, <1>5 DEF IsAverage
  <2> QED
    BY <1>1, <2>1
<1>7. ASSUME NEW k \in period..(n - 1), k \in S PROVE k + 1 \in S
  <2>1. /\ k + 1 \in (period + 1)..Len(values) /\ k + 1 \in (period + 1)..n
        /\ (k + 1) - 1 = k /\ k + 1 \in period..n /\ k + 1 \in 1..n
    BY <1>1
  <2>2. f[k + 1] = Blend(f[k], values[k + 1], period, gain)
    BY <1>4, <2>1 DEF IsAverage
  <2>3. g[k + 1] = Blend(g[k], t[k + 1], period, gain)
    BY <1>2, <1>5, <2>1 DEF IsAverage
  <2> QED
    BY <1>2, <1>7, <2>1, <2>2, <2>3
<1>8. n \in S
  <2>1. \A k \in period..(n - 1) : k \in S => k + 1 \in S
    BY <1>7
  <2>2. n \in period..n
    BY <1>1
  <2> HIDE DEF S, n
  <2>3. \A k \in period..n : k \in S
    BY <1>1, <1>6, <2>1, Induct
  <2> QED
    BY <2>2, <2>3
<1>9. f[Len(values)] = Blend(f[n], values[Len(values)], period, gain)
  BY <1>1, <1>4 DEF IsAverage
<1> QED
  BY <1>4, <1>5, <1>8, <1>9 DEF t

Moves == [n : Nat, d : Nat \ {0}]

LEMMA BlendMoves ==
    ASSUME NEW avg \in Moves, NEW v \in Nat, NEW period \in Nat \ {0}, NEW gain \in Nat \ {0}
    PROVE  /\ Blend(avg, v, period, gain) \in Moves
           /\ avg.n = 0 /\ v = 0 => Blend(avg, v, period, gain).n = 0
           /\ period > 1 /\ (avg.n > 0 \/ v > 0) => Blend(avg, v, period, gain).n > 0
<1> DEFINE kept == (period - 1) * avg.n
           new  == gain * v * avg.d
<1>1. avg.n \in Nat /\ avg.d \in Nat \ {0}
  BY DEF Moves
<1>2. period - 1 \in Nat /\ period - 1 + gain \in Nat \ {0}
  OBVIOUS
<1>3. kept \in Nat /\ (avg.n = 0 => kept = 0) /\ (period > 1 /\ avg.n > 0 => kept > 0)
  BY <1>1, <1>2
<1>4. new \in Nat /\ (v = 0 => new = 0) /\ (v > 0 => new > 0)
  <2>1. gain * v \in Nat /\ (v = 0 => gain * v = 0) /\ (v > 0 => gain * v > 0)
    OBVIOUS
  <2> DEFINE w == gain * v
  <2> HIDE DEF w
  <2>2. w \in Nat => /\ w * avg.d \in Nat /\ (w = 0 => w * avg.d = 0)
                     /\ (w > 0 => w * avg.d > 0)
    BY <1>1
  <2> QED
    BY <2>1, <2>2 DEF w
<1>5. (period - 1 + gain) * avg.d \in Nat \ {0}
  BY <1>1, <1>2
<1>6. Blend(avg, v, period, gain) = [n |-> kept + new, d |-> (period - 1 + gain) * avg.d]
  BY DEF Blend
<1> HIDE DEF kept, new
<1>7. kept + new \in Nat
  BY <1>3, <1>4
<1> QED
  BY <1>1, <1>3, <1>4, <1>5, <1>6, <1>7 DEF Moves

\* A running average of moves is zero only if there was none: with a period
\* above one, no later value takes an earlier one out again.
LEMMA SmoothedSign ==
    ASSUME NEW values \in Seq(Nat), NEW period \in 1..Len(values), NEW gain \in Nat \ {0}
    PROVE  /\ Smoothed(values, period, gain) \in Moves
           /\ (\A k \in 1..Len(values) : values[k] = 0) => Smoothed(values, period, gain).n = 0
           /\ period > 1 /\ (\E k \in 1..Len(values) : values[k] > 0)
                => Smoothed(values, period, gain).n > 0
<1> DEFINE n == Len(values)
           some(k) == \E i \in 1..k : values[i] > 0
           good(a, k) == /\ a \in Moves
                         /\ ~some(k) => a.n = 0
                         /\ period > 1 /\ some(k) => a.n > 0
<1>1. /\ values \in Seq(Int) /\ n \in Int /\ period \in Int /\ period <= n
      /\ period \in Nat \ {0} /\ period \in 0..n /\ \A k \in 1..n : values[k] \in Nat
  OBVIOUS
<1>2. PICK f : IsAverage(f, values, period, gain) /\ Smoothed(values, period, gain) = f[n]
  BY <1>1, AverageFunction
<1> DEFINE S == {k \in period..n : good(f[k], k)}
<1>3. period \in S
  <2> DEFINE t == SubSeq(values, 1, period)
  <2>1. t \in Seq(Nat) /\ Len(t) = period /\ \A k \in 1..period : t[k] = values[k]
    BY <1>1, Prefix
  <2>2. calculateSMA(t) = [n |-> SumOf(t), d |-> period]
    BY <2>1 DEF calculateSMA
  <2> HIDE DEF t
  <2>3. f[period] = [n |-> SumOf(t), d |-> period]
    BY <1>2, <2>2 DEF IsAverage, t
  <2>4. /\ SumOf(t) \in Nat
        /\ (\E k \in 1..Len(t) : t[k] > 0) => SumOf(t) > 0
        /\ (\A k \in 1..Len(t) : t[k] = 0) => SumOf(t) = 0
    BY <2>1, SumSign
  <2>5. ~some(period) => \A k \in 1..Len(t) : t[k] = 0
    BY <1>1, <2>1
  <2>6. some(period) => \E k \in 1..Len(t) : t[k] > 0
    BY <2>1
  <2>7. f[period] \in Moves /\ f[period].n = SumOf(t)
    BY <1>1, <2>3, <2>4 DEF Moves
  <2> HIDE DEF some
  <2> QED
    BY <1>1, <2>4, <2>5, <2>6, <2>7
<1>4. ASSUME NEW k \in period..(n - 1), k \in S PROVE k + 1 \in S
  <2>1. k + 1 \in (period + 1)..n /\ (k + 1) - 1 = k /\ k + 1 \in period..n /\ k + 1 \in 1..n
    BY <1>1
  <2>2. f[k + 1] = Blend(f[k], values[k + 1], period, gain) /\ values[k + 1] \in Nat
    BY <1>1, <1>2, <2>1 DEF IsAverage
  <2>3. some(k + 1) <=> some(k) \/ values[k + 1] > 0
    <3>1. \A i \in 1..(k + 1) : i \in 1..k \/ i = k + 1
      OBVIOUS
    <3>2. k \in Nat /\ \A i \in 1..k : i \in 1..(k + 1)
      BY <1>1
    <3>3. k + 1 \in 1..(k + 1)
      BY <3>2
    <3> QED
      BY <3>1, <3>2, <3>3
  <2>4. good(f[k], k)
    BY <1>4
  <2> HIDE DEF some
  <2>5. values[k + 1] = 0 \/ values[k + 1] > 0
    BY <2>2
  <2>6. good(f[k + 1], k + 1)
    <3>1. f[k] \in Moves
      BY <2>4
    <3>2. /\ f[k + 1] \in Moves
          /\ f[k].n = 0 /\ values[k + 1] = 0 => f[k + 1].n = 0
          /\ period > 1 /\ (f[k].n > 0 \/ values[k + 1] > 0) => f[k + 1].n > 0
      <4> HIDE DEF n
      <4>1. \A a \in Moves : \A v \in Nat :
              /\ Blend(a, v, period, gain) \in Moves
              /\ a.n = 0 /\ v = 0 => Blend(a, v, period, gain).n = 0
              /\ period > 1 /\ (a.n > 0 \/ v > 0) => Blend(a, v, period, gain).n > 0
        BY <1>1, BlendMoves
      <4> QED
        BY <2>2, <3>1, <4>1
    <3> QED
      BY <2>3, <2>4, <2>5, <3>2
  <2> QED
    BY <2>1, <2>6
<1>5. n \in S
  <2>1. \A k \in period..(n - 1) : k \in S => k + 1 \in S
    BY <1>4
  <2>2. n \in period..n
    BY <1>1
  <2> HIDE DEF S, n
  <2>3. \A k \in period..n : k \in S
    BY <1>1, <1>3, <2>1, Induct
  <2> QED
    BY <2>2, <2>3
<1>6. good(f[n], n)
  BY <1>5
<1>7. (\A k \in 1..n : values[k] = 0) => ~some(n)
  OBVIOUS
<1> HIDE DEF n
<1> QED
  BY <1>2, <1>6, <1>7 DEF n

-----------------------------------------------------------------------------
(* The moves a series makes *)

LEMMA ChangesSeq ==
    ASSUME NEW v \in Seq(Int), Len(v) > 0
    PROVE  /\ Changes(v) \in Seq(Int) /\ Len(Changes(v)) = Len(v) - 1
           /\ \A i \in 1..(Len(v) - 1) : Changes(v)[i] = v[i + 1] - v[i]
<1>1. Len(v) - 1 \in Nat /\ \A i \in 1..(Len(v) - 1) : v[i + 1] \in Int /\ v[i] \in Int
  OBVIOUS
<1> QED
  BY <1>1 DEF Changes

LEMMA NegatedSeq ==
    ASSUME NEW c \in Seq(Int)
    PROVE  /\ Negated(c) \in Seq(Int) /\ Len(Negated(c)) = Len(c)
           /\ \A i \in 1..Len(c) : Negated(c)[i] = 0 - c[i]
           /\ Negated(Negated(c)) = c
<1>1. DOMAIN c = 1..Len(c) /\ \A i \in 1..Len(c) : c[i] \in Int
  OBVIOUS
<1>2. Negated(c) \in Seq(Int) /\ Len(Negated(c)) = Len(c)
  BY <1>1 DEF Negated
<1>3. \A i \in 1..Len(c) : Negated(c)[i] = 0 - c[i]
  BY <1>1 DEF Negated
<1>4. Negated(Negated(c)) = c
  BY <1>1 DEF Negated
<1> QED
  BY <1>2, <1>3, <1>4

LEMMA GainsSeq ==
    ASSUME NEW c \in Seq(Int)
    PROVE  /\ Gains(c) \in Seq(Nat) /\ Len(Gains(c)) = Len(c)
           /\ \A i \in 1..Len(c) : Gains(c)[i] = Positive(c[i])
<1>1. DOMAIN c = 1..Len(c) /\ \A i \in 1..Len(c) : c[i] \in Int /\ Positive(c[i]) \in Nat
  BY DEF Positive
<1> QED
  BY <1>1 DEF Gains

\* The average of the moves one way is zero if there was none, and only then.
LEMMA AvgMoveSign ==
    ASSUME NEW c \in Seq(Int), NEW period \in 1..Len(c)
    PROVE  /\ AvgMove(c, period) \in Moves
           /\ (\A i \in 1..Len(c) : c[i] <= 0) => AvgMove(c, period).n = 0
           /\ period > 1 /\ (\E i \in 1..Len(c) : c[i] > 0) => AvgMove(c, period).n > 0
<1>1. /\ Gains(c) \in Seq(Nat) /\ period \in 1..Len(Gains(c)) /\ Len(Gains(c)) = Len(c)
      /\ \A i \in 1..Len(c) : Gains(c)[i] = Positive(c[i])
  BY GainsSeq
<1>2. \A i \in 1..Len(c) : c[i] \in Int
  OBVIOUS
<1>3. (\A i \in 1..Len(c) : c[i] <= 0) => \A i \in 1..Len(Gains(c)) : Gains(c)[i] = 0
  BY <1>1, <1>2 DEF Positive
<1>4. (\E i \in 1..Len(c) : c[i] > 0) => \E i \in 1..Len(Gains(c)) : Gains(c)[i] > 0
  BY <1>1, <1>2 DEF Positive
<1>5. 1 \in Nat \ {0}
  OBVIOUS
<1> DEFINE s == Gains(c)
<1> HIDE DEF s
<1>6. /\ Smoothed(s, period, 1) \in Moves
      /\ (\A k \in 1..Len(s) : s[k] = 0) => Smoothed(s, period, 1).n = 0
      /\ period > 1 /\ (\E k \in 1..Len(s) : s[k] > 0) => Smoothed(s, period, 1).n > 0
  BY <1>1, <1>5, SmoothedSign DEF s
<1> QED
  BY <1>3, <1>4, <1>6 DEF AvgMove, s

\* One more close is one more step of the average.
LEMMA AvgMoveStep ==
    ASSUME NEW c \in Seq(Int), NEW period \in 1..(Len(c) - 1)
    PROVE  AvgMove(c, period)
             = Blend(AvgMove(SubSeq(c, 1, Len(c) - 1), period), Positive(c[Len(c)]), period, 1)
<1> DEFINE n == Len(c) - 1
           t == SubSeq(c, 1, n)
<1>1. n \in Nat /\ n \in 0..Len(c) /\ Len(c) \in 1..Len(c) /\ Len(c) = n + 1
  OBVIOUS
<1>2. t \in Seq(Int) /\ Len(t) = n /\ \A k \in 1..n : t[k] = c[k]
  BY <1>1, Prefix
<1>3. Gains(c) \in Seq(Nat) /\ Gains(c) \in Seq(Int) /\ Len(Gains(c)) = Len(c)
      /\ \A k \in 1..Len(c) : Gains(c)[k] = Positive(c[k])
  BY GainsSeq
<1>4. SubSeq(Gains(c), 1, n) = Gains(t)
  <2> HIDE DEF t, n
  <2>1. Gains(t) \in Seq(Nat) /\ Len(Gains(t)) = n /\ \A k \in 1..n : Gains(t)[k] = Positive(c[k])
    BY <1>2, GainsSeq
  <2>2. /\ SubSeq(Gains(c), 1, n) \in Seq(Nat) /\ Len(SubSeq(Gains(c), 1, n)) = n
        /\ \A k \in 1..n : SubSeq(Gains(c), 1, n)[k] = Gains(c)[k]
    BY <1>1, <1>3, Prefix
  <2>3. \A k \in 1..n : Gains(c)[k] = Positive(c[k])
    BY <1>1, <1>3
  <2> QED
    BY <2>1, <2>2, <2>3
<1> DEFINE s == Gains(c)
<1>5. Smoothed(s, period, 1)
        = Blend(Smoothed(SubSeq(s, 1, Len(s) - 1), period, 1), s[Len(s)], period, 1)
  <2>1. s \in Seq(Int) /\ period \in 1..(Len(s) - 1) /\ 1 \in Nat \ {0}
    BY <1>3
  <2> HIDE DEF s
  <2> QED
    BY <2>1, SmoothedStep
<1>6. s[Len(s)] = Positive(c[Len(c)])
  BY <1>1, <1>3
<1> QED
  BY <1>3, <1>4, <1>5, <1>6 DEF AvgMove

-----------------------------------------------------------------------------
(* The RSI *)

\* The RSI of an average gain and an average loss, as CalculateRSI has it.
Ratio(gain, loss) ==
    IF loss.n = 0 THEN Whole(100)
    ELSE [n |-> 100 * gain.n * loss.d, d |-> gain.n * loss.d + loss.n * gain.d]

GainOf(v, period) == AvgMove(Changes(v), period)
LossOf(v, period) == AvgMove(Negated(Changes(v)), period)

LEMMA RsiRatio ==
    ASSUME NEW v, NEW period
    PROVE  CalculateRSI(v, period) = Ratio(GainOf(v, period), LossOf(v, period))
  BY DEF CalculateRSI, Ratio, GainOf, LossOf

\* Only a series that never moved has neither gains nor losses.
LEMMA Moving ==
    ASSUME NEW v \in Seq(Int), NEW period \in 1..(Len(v) - 1)
    PROVE  /\ GainOf(v, period) \in Moves /\ LossOf(v, period) \in Moves
           /\ (\A i \in 1..(Len(v) - 1) : v[i + 1] >= v[i]) => LossOf(v, period).n = 0
           /\ ~Moved(v) => GainOf(v, period).n = 0 /\ LossOf(v, period).n = 0
           /\ period > 1 /\ Moved(v) => GainOf(v, period).n > 0 \/ LossOf(v, period).n > 0
<1> DEFINE n == Len(v) - 1
           c == Changes(v)
           l == Negated(c)
<1>1. /\ c \in Seq(Int) /\ Len(c) = n /\ \A i \in 1..n : c[i] = v[i + 1] - v[i]
  BY ChangesSeq
<1> HIDE DEF c
<1>2. /\ l \in Seq(Int) /\ Len(l) = n /\ \A i \in 1..n : l[i] = 0 - c[i]
  BY <1>1, NegatedSeq
<1> HIDE DEF l
<1>3. \A i \in 1..n : v[i + 1] \in Int /\ v[i] \in Int
  OBVIOUS
<1>4. /\ AvgMove(c, period) \in Moves
      /\ (\A i \in 1..n : c[i] <= 0) => AvgMove(c, period).n = 0
      /\ period > 1 /\ (\E i \in 1..n : c[i] > 0) => AvgMove(c, period).n > 0
  <2> HIDE DEF n
  <2>1. period \in 1..Len(c)
    BY <1>1 DEF n
  <2> QED
    BY <1>1, <2>1, AvgMoveSign
<1>5. /\ AvgMove(l, period) \in Moves
      /\ (\A i \in 1..n : l[i] <= 0) => AvgMove(l, period).n = 0
      /\ period > 1 /\ (\E i \in 1..n : l[i] > 0) => AvgMove(l, period).n > 0
  <2> HIDE DEF n
  <2>1. period \in 1..Len(l)
    BY <1>2 DEF n
  <2> QED
    BY <1>2, <2>1, AvgMoveSign
<1>6. GainOf(v, period) = AvgMove(c, period) /\ LossOf(v, period) = AvgMove(l, period)
  BY DEF GainOf, LossOf, c, l
<1>7. \A i \in 1..n : /\ c[i] <= 0 <=> v[i + 1] <= v[i]
                      /\ l[i] <= 0 <=> v[i + 1] >= v[i]
                      /\ v[i] # v[i + 1] => c[i] > 0 \/ l[i] > 0
                      /\ v[i] = v[i + 1] => c[i] <= 0 /\ l[i] <= 0
  <2> TAKE i \in 1..n
  <2> DEFINE x == v[i]
             y == v[i + 1]
             up == c[i]
             down == l[i]
  <2>1. x \in Int /\ y \in Int /\ up = y - x /\ down = 0 - up
    BY <1>1, <1>2, <1>3
  <2> HIDE DEF x, y, up, down
  <2>2. /\ up <= 0 <=> y <= x
        /\ down <= 0 <=> y >= x
        /\ x # y => up > 0 \/ down > 0
        /\ x = y => up <= 0 /\ down <= 0
    BY <2>1
  <2> QED
    BY <2>2 DEF x, y, up, down
<1>8. Moved(v) <=> \E i \in 1..n : v[i] # v[i + 1]
  BY DEF Moved
<1> HIDE DEF n
<1> QED
  BY <1>4, <1>5, <1>6, <1>7, <1>8 DEF n

\* The mirrored series gains what the series loses.
LEMMA MirrorChanges ==
    ASSUME NEW v \in Seq(Int), Len(v) > 0
    PROVE  /\ Mirror(v) \in Seq(Int) /\ Len(Mirror(v)) = Len(v)
           /\ Changes(Mirror(v)) = Negated(Changes(v))
<1>1. DOMAIN v = 1..Len(v) /\ \A i \in 1..Len(v) : v[i] \in Int
  OBVIOUS
<1>2. /\ Mirror(v) \in Seq(Int) /\ Len(Mirror(v)) = Len(v)
      /\ \A i \in 1..Len(v) : Mirror(v)[i] = 10 - v[i]
  BY <1>1 DEF Mirror
<1> DEFINE w == Mirror(v)
           n == Len(v) - 1
           a == Changes(w)
           b == Negated(Changes(v))
<1>3. a \in Seq(Int) /\ Len(a) = n /\ \A i \in 1..n : a[i] = w[i + 1] - w[i]
  <2> HIDE DEF w
  <2>1. w \in Seq(Int) /\ Len(w) = Len(v) /\ Len(w) > 0
    BY <1>2 DEF w
  <2> QED
    BY <2>1, ChangesSeq
<1>4. b \in Seq(Int) /\ Len(b) = n /\ \A i \in 1..n : b[i] = 0 - (v[i + 1] - v[i])
  <2> DEFINE c == Changes(v)
  <2>1. c \in Seq(Int) /\ Len(c) = n /\ \A i \in 1..n : c[i] = v[i + 1] - v[i]
    BY ChangesSeq
  <2> HIDE DEF c, n
  <2>2. Negated(c) \in Seq(Int) /\ Len(Negated(c)) = n /\ \A i \in 1..n : Negated(c)[i] = 0 - c[i]
    BY <2>1, NegatedSeq
  <2> QED
    BY <2>1, <2>2 DEF c
<1>5. ASSUME NEW i \in 1..n PROVE a[i] = b[i]
  <2>1. i \in 1..Len(v) /\ i + 1 \in 1..Len(v)
    OBVIOUS
  <2>2. w[i] = 10 - v[i] /\ w[i + 1] = 10 - v[i + 1] /\ v[i] \in Int /\ v[i + 1] \in Int
    BY <1>1, <1>2, <2>1
  <2>3. a[i] = w[i + 1] - w[i]
    BY <1>3
  <2>4. b[i] = 0 - (v[i + 1] - v[i])
    BY <1>4
  <2>5. \A x, y \in Int : (10 - y) - (10 - x) = 0 - (y - x)
    OBVIOUS
  <2> HIDE DEF w, a, b, n
  <2> QED
    BY <2>2, <2>3, <2>4, <2>5
<1>6. a = b
  <2> HIDE DEF a, b, n
  <2> QED
    BY <1>3, <1>4, <1>5, SameSeq
<1> QED
  BY <1>2, <1>6

LEMMA MirrorRatio ==
    ASSUME NEW g \in Moves, NEW l \in Moves, g.n > 0 \/ l.n > 0
    PROVE  SameFrac(Ratio(g, l), [n |-> 100 * Ratio(l, g).d - Ratio(l, g).n, d |-> Ratio(l, g).d])
<1>1. g.n \in Nat /\ l.n \in Nat /\ g.d \in Nat \ {0} /\ l.d \in Nat \ {0}
  BY DEF Moves
<1> DEFINE x == g.n * l.d
           y == l.n * g.d
<1>2. x \in Nat /\ y \in Nat /\ (g.n = 0 => x = 0) /\ (l.n = 0 => y = 0)
  BY <1>1
<1>3. 100 * g.n * l.d = 100 * x /\ 100 * l.n * g.d = 100 * y
  BY <1>1
<1>4. Ratio(g, l) = IF l.n = 0 THEN [n |-> 100, d |-> 1] ELSE [n |-> 100 * x, d |-> x + y]
  BY <1>3 DEF Ratio, Whole
<1>5. Ratio(l, g) = IF g.n = 0 THEN [n |-> 100, d |-> 1] ELSE [n |-> 100 * y, d |-> y + x]
  BY <1>3 DEF Ratio, Whole
<1> HIDE DEF x, y
<1>6. CASE l.n = 0
  <2>1. Ratio(g, l) = [n |-> 100, d |-> 1] /\ Ratio(l, g) = [n |-> 0, d |-> x] /\ y = 0
    BY <1>1, <1>2, <1>4, <1>5, <1>6
  <2> QED
    BY <1>2, <2>1 DEF SameFrac
<1>7. CASE l.n # 0 /\ g.n = 0
  <2>1. Ratio(g, l) = [n |-> 0, d |-> y] /\ Ratio(l, g) = [n |-> 100, d |-> 1] /\ x = 0
    BY <1>1, <1>2, <1>4, <1>5, <1>7
  <2> QED
    BY <1>2, <2>1 DEF SameFrac
<1>8. CASE l.n # 0 /\ g.n # 0
  <2>1. Ratio(g, l) = [n |-> 100 * x, d |-> x + y] /\ Ratio(l, g) = [n |-> 100 * y, d |-> y + x]
    BY <1>4, <1>5, <1>8
  <2>2. (100 * x) * (y + x) = (100 * (y + x) - 100 * y) * (x + y)
    BY <1>2
  <2> QED
    BY <2>1, <2>2 DEF SameFrac
<1> QED
  BY <1>6, <1>7, <1>8

\* The inequality of both monotonicity laws, cleared of fractions.
LEMMA OneMove ==
    ASSUME NEW p \in Nat, p > 1, NEW a \in Nat, NEW b \in Nat, NEW s \in Nat, NEW t \in Nat, NEW c \in Nat
    PROVE  (((p - 1) * a + 1 * c * s) * ((p - 1 + 1) * t)) * (b * s)
             >= (a * t) * (((p - 1) * b + 1 * 0 * t) * ((p - 1 + 1) * s))
<1>1. (((p - 1) * a + 1 * c * s) * ((p - 1 + 1) * t)) * (b * s)
        = (a * t) * (((p - 1) * b + 1 * 0 * t) * ((p - 1 + 1) * s)) + (p * c * s * t * b * s)
  OBVIOUS
<1>2. \A i, j \in Nat : i * j \in Nat
  OBVIOUS
<1>3. p * c * s * t * b * s \in Nat
  BY <1>2
<1> DEFINE lhs == (((p - 1) * a + 1 * c * s) * ((p - 1 + 1) * t)) * (b * s)
           rhs == (a * t) * (((p - 1) * b + 1 * 0 * t) * ((p - 1 + 1) * s))
           more == p * c * s * t * b * s
<1>4. rhs \in Int
  OBVIOUS
<1> HIDE DEF lhs, rhs, more
<1>5. lhs >= rhs
  BY <1>1, <1>3, <1>4 DEF lhs, rhs, more
<1> QED
  BY <1>5 DEF lhs, rhs

LEMMA RatioLess ==
    ASSUME NEW x \in Nat, NEW y \in Nat, NEW u \in Nat, NEW w \in Nat, u * y >= x * w
    PROVE  ~Less([n |-> 100 * u, d |-> u + w], [n |-> 100 * x, d |-> x + y])
<1>1. (100 * u) * (x + y) = 100 * (u * x) + 100 * (u * y)
  OBVIOUS
<1>2. (100 * x) * (u + w) = 100 * (u * x) + 100 * (x * w)
  OBVIOUS
<1> DEFINE ux == u * x
           uy == u * y
           xw == x * w
<1>3. ux \in Nat /\ uy \in Nat /\ xw \in Nat
  OBVIOUS
<1> HIDE DEF ux, uy, xw
<1>4. uy >= xw
  BY DEF uy, xw
<1>5. 100 * ux + 100 * uy >= 100 * ux + 100 * xw
  BY <1>3, <1>4
<1>6. (100 * u) * (x + y) \in Int /\ (100 * x) * (u + w) \in Int
  OBVIOUS
<1>7. ~((100 * u) * (x + y) < (100 * x) * (u + w))
  BY <1>1, <1>2, <1>3, <1>5, <1>6 DEF ux, uy, xw
<1> QED
  BY <1>7 DEF Less

\* A rise on the last day does not lower the RSI, a fall does not raise it.
LEMMA RisingRatio ==
    ASSUME NEW g \in Moves, NEW l \in Moves, NEW c \in Nat, NEW p \in Nat, p > 1
    PROVE  ~Less(Ratio(Blend(g, c, p, 1), Blend(l, 0, p, 1)), Ratio(g, l))
<1> DEFINE h == Blend(g, c, p, 1)
           m == Blend(l, 0, p, 1)
<1>1. g.n \in Nat /\ l.n \in Nat /\ g.d \in Nat \ {0} /\ l.d \in Nat \ {0}
  BY DEF Moves
<1>2. /\ h \in Moves /\ m \in Moves /\ (l.n = 0 <=> m.n = 0)
  <2>1. p \in Nat \ {0} /\ 1 \in Nat \ {0} /\ 0 \in Nat
    OBVIOUS
  <2>2. h \in Moves
    BY <2>1, BlendMoves
  <2>3. m \in Moves /\ (l.n = 0 => m.n = 0) /\ (l.n > 0 => m.n > 0)
    BY <2>1, BlendMoves
  <2> QED
    BY <1>1, <2>2, <2>3
<1>3. /\ h.n = (p - 1) * g.n + 1 * c * g.d /\ h.d = (p - 1 + 1) * g.d
      /\ m.n = (p - 1) * l.n + 1 * 0 * l.d /\ m.d = (p - 1 + 1) * l.d
  BY DEF Blend
<1> HIDE DEF h, m
<1>4. h.n \in Nat /\ m.n \in Nat /\ h.d \in Nat \ {0} /\ m.d \in Nat \ {0}
  BY <1>2 DEF Moves
<1>5. CASE l.n = 0
  <2>1. Ratio(g, l) = [n |-> 100, d |-> 1] /\ Ratio(h, m) = [n |-> 100, d |-> 1]
    BY <1>2, <1>5 DEF Ratio, Whole
  <2> QED
    BY <2>1 DEF Less, h, m
<1>6. CASE l.n # 0
  <2> DEFINE x == g.n * l.d
             y == l.n * g.d
             u == h.n * m.d
             w == m.n * h.d
  <2>1. x \in Nat /\ y \in Nat /\ u \in Nat /\ w \in Nat
    BY <1>1, <1>4
  <2>2. Ratio(g, l) = [n |-> 100 * x, d |-> x + y]
    <3>1. 100 * g.n * l.d = 100 * x
      BY <1>1
    <3> QED
      BY <1>6, <3>1 DEF Ratio
  <2>3. Ratio(h, m) = [n |-> 100 * u, d |-> u + w]
    <3>1. 100 * h.n * m.d = 100 * u
      BY <1>4
    <3> QED
      BY <1>2, <1>6, <3>1 DEF Ratio
  <2>4. u * y >= x * w
    BY <1>1, <1>3, OneMove
  <2> HIDE DEF x, y, u, w
  <2>5. ~Less(Ratio(h, m), Ratio(g, l))
    <3>1. ~Less([n |-> 100 * u, d |-> u + w], [n |-> 100 * x, d |-> x + y])
      BY <2>1, <2>4, RatioLess
    <3> QED
      BY <2>2, <2>3, <3>1
  <2> QED
    BY <2>5 DEF h, m
<1> QED
  BY <1>5, <1>6

LEMMA FallingRatio ==
    ASSUME NEW g \in Moves, NEW l \in Moves, NEW c \in Nat, NEW p \in Nat, p > 1
    PROVE  ~Less(Ratio(g, l), Ratio(Blend(g, 0, p, 1), Blend(l, c, p, 1)))
<1> DEFINE h == Blend(g, 0, p, 1)
           m == Blend(l, c, p, 1)
<1>1. g.n \in Nat /\ l.n \in Nat /\ g.d \in Nat \ {0} /\ l.d \in Nat \ {0}
  BY DEF Moves
<1>2. /\ h \in Moves /\ m \in Moves /\ (m.n = 0 => l.n = 0)
  <2>1. p \in Nat \ {0} /\ 1 \in Nat \ {0} /\ 0 \in Nat
    OBVIOUS
  <2>2. h \in Moves
    BY <2>1, BlendMoves
  <2>3. m \in Moves /\ (l.n > 0 => m.n > 0)
    BY <2>1, BlendMoves
  <2> QED
    BY <1>1, <2>2, <2>3
<1>3. /\ m.n = (p - 1) * l.n + 1 * c * l.d /\ m.d = (p - 1 + 1) * l.d
      /\ h.n = (p - 1) * g.n + 1 * 0 * g.d /\ h.d = (p - 1 + 1) * g.d
  BY DEF Blend
<1> HIDE DEF h, m
<1>4. h.n \in Nat /\ m.n \in Nat /\ h.d \in Nat \ {0} /\ m.d \in Nat \ {0}
  BY <1>2 DEF Moves
<1> DEFINE x == g.n * l.d
           y == l.n * g.d
           u == h.n * m.d
           w == m.n * h.d
<1>5. x \in Nat /\ y \in Nat /\ u \in Nat /\ w \in Nat
  BY <1>1, <1>4
<1>6. Ratio(g, l) = IF l.n = 0 THEN [n |-> 100, d |-> 1] ELSE [n |-> 100 * x, d |-> x + y]
  <2>1. 100 * g.n * l.d = 100 * x
    BY <1>1
  <2> QED
    BY <2>1 DEF Ratio, Whole
<1>7. Ratio(h, m) = IF m.n = 0 THEN [n |-> 100, d |-> 1] ELSE [n |-> 100 * u, d |-> u + w]
  <2>1. 100 * h.n * m.d = 100 * u
    BY <1>4
  <2> QED
    BY <2>1 DEF Ratio, Whole
<1>8. x * w >= u * y
  <2>1. (m.n * h.d) * (g.n * l.d) >= (l.n * g.d) * (h.n * m.d)
    BY <1>1, <1>3, OneMove
  <2>2. x * w = (m.n * h.d) * (g.n * l.d) /\ u * y = (l.n * g.d) * (h.n * m.d)
    BY <1>1, <1>4
  <2> QED
    BY <2>1, <2>2
<1> HIDE DEF x, y, u, w
<1>9. ~Less(Ratio(g, l), Ratio(h, m))
  <2>1. CASE l.n = 0 /\ m.n = 0
    BY <1>6, <1>7, <2>1 DEF Less
  <2>2. CASE l.n = 0 /\ m.n # 0
    <3>1. ~(100 * (u + w) < (100 * u) * 1)
      BY <1>5
    <3> QED
      BY <1>6, <1>7, <2>2, <3>1 DEF Less
  <2>3. CASE l.n # 0
    <3>1. ~Less([n |-> 100 * x, d |-> x + y], [n |-> 100 * u, d |-> u + w])
      BY <1>5, <1>8, RatioLess
    <3> QED
      BY <1>2, <1>6, <1>7, <2>3, <3>1
  <2> QED
    BY <2>1, <2>2, <2>3
<1> QED
  BY <1>9 DEF h, m

RsiLaw(v, period) ==
    LET r == CalculateRSI(v, period)
        m == CalculateRSI(Mirror(v), period)
        p == CalculateRSI(SubSeq(v, 1, Len(v) - 1), period)
    IN  IF Moved(v)
        THEN /\ SameFrac(r, [n |-> 100 * m.d - m.n, d |-> m.d])
             /\ (Len(v) > period + 1 /\ v[Len(v)] > v[Len(v) - 1]) => ~Less(r, p)
             /\ (Len(v) > period + 1 /\ v[Len(v)] < v[Len(v) - 1]) => ~Less(p, r)
        ELSE r = Whole(100) /\ m = Whole(100)

LEMMA LastMove ==
    ASSUME NEW v \in Seq(Int), NEW period \in 1..(Len(v) - 2)
    PROVE  LET t == SubSeq(v, 1, Len(v) - 1)
               c == v[Len(v)] - v[Len(v) - 1]
           IN  /\ GainOf(v, period) = Blend(GainOf(t, period), Positive(c), period, 1)
               /\ LossOf(v, period) = Blend(LossOf(t, period), Positive(0 - c), period, 1)
<1> DEFINE n == Len(v) - 1
           t == SubSeq(v, 1, n)
           c == Changes(v)
           l == Negated(c)
           b == Changes(t)
<1>1. n \in Nat /\ n \in 0..Len(v) /\ Len(v) = n + 1 /\ n > 0 /\ period \in 1..(n - 1)
      /\ n \in 1..n
  OBVIOUS
<1>2. t \in Seq(Int) /\ Len(t) = n /\ \A k \in 1..n : t[k] = v[k]
  BY <1>1, Prefix
<1>3. c \in Seq(Int) /\ Len(c) = n /\ \A i \in 1..n : c[i] = v[i + 1] - v[i]
  <2>1. Len(v) > 0
    OBVIOUS
  <2> QED
    BY <2>1, ChangesSeq
<1>4. b \in Seq(Int) /\ Len(b) = n - 1 /\ \A i \in 1..(n - 1) : b[i] = t[i + 1] - t[i]
  <2> HIDE DEF t, n
  <2>1. Len(t) > 0
    BY <1>1, <1>2
  <2> QED
    BY <1>2, <2>1, ChangesSeq
<1> HIDE DEF c
<1>5. SubSeq(c, 1, n - 1) = b
  <2> HIDE DEF b, t, n
  <2>1. n - 1 \in 0..Len(c)
    BY <1>1, <1>3
  <2>2. /\ SubSeq(c, 1, n - 1) \in Seq(Int) /\ Len(SubSeq(c, 1, n - 1)) = n - 1
        /\ \A k \in 1..(n - 1) : SubSeq(c, 1, n - 1)[k] = c[k]
    BY <1>3, <2>1, Prefix
  <2>3. ASSUME NEW k \in 1..(n - 1) PROVE c[k] = b[k]
    <3>1. k \in 1..n /\ k + 1 \in 1..n
      BY <1>1
    <3>2. c[k] = v[k + 1] - v[k] /\ b[k] = t[k + 1] - t[k]
      BY <1>3, <1>4, <3>1
    <3> QED
      BY <1>2, <3>1, <3>2
  <2> QED
    BY <1>4, <2>2, <2>3, SameSeq
<1> HIDE DEF b
<1>6. l \in Seq(Int) /\ Len(l) = n /\ \A i \in 1..n : l[i] = 0 - c[i]
  BY <1>3, NegatedSeq
<1>7. SubSeq(l, 1, n - 1) = Negated(b)
  <2> HIDE DEF l, t, n
  <2>1. n - 1 \in 0..Len(l) /\ n - 1 \in 0..Len(c)
    BY <1>1, <1>3, <1>6
  <2>2. /\ SubSeq(l, 1, n - 1) \in Seq(Int) /\ Len(SubSeq(l, 1, n - 1)) = n - 1
        /\ \A k \in 1..(n - 1) : SubSeq(l, 1, n - 1)[k] = l[k]
    BY <1>6, <2>1, Prefix
  <2>3. \A k \in 1..(n - 1) : b[k] = c[k]
    BY <1>3, <1>5, <2>1, Prefix
  <2>4. /\ Negated(b) \in Seq(Int) /\ Len(Negated(b)) = n - 1
        /\ \A k \in 1..(n - 1) : Negated(b)[k] = 0 - b[k]
    BY <1>4, NegatedSeq
  <2>5. \A k \in 1..(n - 1) : k \in 1..n
    BY <1>1
  <2>6. \A k \in 1..(n - 1) : SubSeq(l, 1, n - 1)[k] = Negated(b)[k]
    <3> TAKE k \in 1..(n - 1)
    <3>1. SubSeq(l, 1, n - 1)[k] = l[k] /\ Negated(b)[k] = 0 - b[k] /\ b[k] = c[k]
      BY <2>2, <2>3, <2>4
    <3>2. l[k] = 0 - c[k]
      BY <1>6, <2>5
    <3> QED
      BY <3>1, <3>2
  <2> DEFINE x == SubSeq(l, 1, n - 1)
             y == Negated(b)
  <2>7. x \in Seq(Int) /\ y \in Seq(Int) /\ Len(x) = Len(y) /\ \A k \in 1..Len(y) : x[k] = y[k]
    BY <2>2, <2>4, <2>6
  <2> HIDE DEF x, y
  <2>8. x = y
    BY <2>7, SameSeq
  <2> QED
    BY <2>8 DEF x, y
<1>8. AvgMove(c, period) = Blend(AvgMove(b, period), Positive(c[n]), period, 1)
  <2> HIDE DEF n
  <2>1. period \in 1..(Len(c) - 1)
    BY <1>1, <1>3
  <2> QED
    BY <1>3, <1>5, <2>1, AvgMoveStep
<1>9. AvgMove(l, period) = Blend(AvgMove(Negated(b), period), Positive(l[n]), period, 1)
  <2> HIDE DEF n, l
  <2>1. period \in 1..(Len(l) - 1)
    BY <1>1, <1>6
  <2> QED
    BY <1>6, <1>7, <2>1, AvgMoveStep
<1>10. c[n] = v[Len(v)] - v[Len(v) - 1] /\ l[n] = 0 - (v[Len(v)] - v[Len(v) - 1])
  <2>1. c[n] = v[n + 1] - v[n] /\ l[n] = 0 - c[n]
    BY <1>1, <1>3, <1>6
  <2> QED
    BY <1>1, <2>1
<1> QED
  BY <1>8, <1>9, <1>10 DEF GainOf, LossOf, b, c

LEMMA RsiLaws ==
    ASSUME NEW v \in Seq(Int), NEW period \in Nat \ {0, 1}, Len(v) > period
    PROVE  RsiLaw(v, period)
<1> DEFINE w == Mirror(v)
           t == SubSeq(v, 1, Len(v) - 1)
           g == GainOf(v, period)
           l == LossOf(v, period)
<1>1. period \in 1..(Len(v) - 1) /\ period > 1 /\ Len(v) > 0 /\ Len(v) - 1 \in 0..Len(v)
      /\ period \in Nat
  OBVIOUS
<1>2. /\ g \in Moves /\ l \in Moves
      /\ ~Moved(v) => g.n = 0 /\ l.n = 0
      /\ Moved(v) => g.n > 0 \/ l.n > 0
  BY <1>1, Moving
<1>3. GainOf(w, period) = l /\ LossOf(w, period) = g
  <2>1. Changes(w) = Negated(Changes(v))
    BY <1>1, MirrorChanges
  <2>2. Negated(Negated(Changes(v))) = Changes(v)
    BY <1>1, ChangesSeq, NegatedSeq
  <2> QED
    BY <2>1, <2>2 DEF GainOf, LossOf
<1>4. CalculateRSI(v, period) = Ratio(g, l) /\ CalculateRSI(w, period) = Ratio(l, g)
  BY <1>3, RsiRatio
<1> HIDE DEF g, l
<1>5. CASE ~Moved(v)
  <2>1. Ratio(g, l) = Whole(100) /\ Ratio(l, g) = Whole(100)
    BY <1>2, <1>5 DEF Ratio
  <2> QED
    BY <1>4, <1>5, <2>1 DEF RsiLaw
<1>6. CASE Moved(v)
  <2>1. SameFrac(Ratio(g, l), [n |-> 100 * Ratio(l, g).d - Ratio(l, g).n, d |-> Ratio(l, g).d])
    BY <1>2, <1>6, MirrorRatio
  <2>2. ASSUME Len(v) > period + 1
        PROVE  /\ v[Len(v)] > v[Len(v) - 1] => ~Less(Ratio(g, l), CalculateRSI(t, period))
               /\ v[Len(v)] < v[Len(v) - 1] => ~Less(CalculateRSI(t, period), Ratio(g, l))
    <3> DEFINE gt == GainOf(t, period)
               lt == LossOf(t, period)
               c == v[Len(v)] - v[Len(v) - 1]
    <3>1. /\ period \in 1..(Len(v) - 2) /\ v[Len(v)] \in Int /\ v[Len(v) - 1] \in Int
          /\ Len(v) - 1 \in 0..Len(v)
      BY <2>2
    <3>2. t \in Seq(Int) /\ Len(t) = Len(v) - 1
      BY <3>1, Prefix
    <3>3. gt \in Moves /\ lt \in Moves
      <4> HIDE DEF t
      <4>1. period \in 1..(Len(t) - 1)
        BY <3>1, <3>2
      <4> QED
        BY <3>2, <4>1, Moving
    <3>4. g = Blend(gt, Positive(c), period, 1) /\ l = Blend(lt, Positive(0 - c), period, 1)
      BY <3>1, LastMove DEF g, l
    <3>5. CalculateRSI(t, period) = Ratio(gt, lt)
      BY RsiRatio
    <3>6. c \in Int /\ (v[Len(v)] > v[Len(v) - 1] <=> c > 0) /\ (v[Len(v)] < v[Len(v) - 1] <=> c < 0)
      <4>1. \A x, y \in Int : x - y \in Int /\ (x > y <=> x - y > 0) /\ (x < y <=> x - y < 0)
        OBVIOUS
      <4> QED
        BY <3>1, <4>1
    <3> HIDE DEF gt, lt, c, t
    <3>7. ASSUME c > 0 PROVE ~Less(Ratio(g, l), Ratio(gt, lt))
      <4>1. Positive(c) = c /\ Positive(0 - c) = 0 /\ c \in Nat
        BY <3>6, <3>7 DEF Positive
      <4> QED
        BY <1>1, <3>3, <3>4, <4>1, RisingRatio
    <3>8. ASSUME c < 0 PROVE ~Less(Ratio(gt, lt), Ratio(g, l))
      <4>1. Positive(c) = 0 /\ Positive(0 - c) = 0 - c /\ 0 - c \in Nat
        BY <3>6, <3>8 DEF Positive
      <4> QED
        BY <1>1, <3>3, <3>4, <4>1, FallingRatio
    <3> QED
      BY <3>5, <3>6, <3>7, <3>8
  <2> QED
    BY <1>4, <1>6, <2>1, <2>2 DEF RsiLaw
<1> QED
  BY <1>5, <1>6

-----------------------------------------------------------------------------
(* The EMA *)

IsPower(f, base, n) ==
    f \in [0..n -> Int] /\ f[0] = 1 /\ \A k \in 1..n : f[k] = base * f[k - 1]

LEMMA PowerFunction ==
    ASSUME NEW base \in Int, NEW n \in Nat
    PROVE  \E f : IsPower(f, base, n) /\ Power(base, n) = f[n]
<1> DEFINE step == [k \in 1..n |-> [x \in Int |-> base * x]]
           Is(f) == f = [k \in 0..n |-> IF k = 0 THEN 1 ELSE base * f[k - 1]]
           power == CHOOSE f : Is(f)
<1>1. 0 \in Int /\ n \in Int /\ 0 <= n /\ 0 + 1 = 1 /\ 1 \in Int
  OBVIOUS
<1>2. PICK f : Passed(f, 0, n, Int, 1, step)
  <2>1. Keeps(0, n, Int, step)
    BY DEF Keeps
  <2> HIDE DEF step
  <2> QED
    BY <1>1, <2>1, Passing
<1>3. Is(f)
  <2>1. ASSUME NEW k \in 1..n PROVE f[k] = base * f[k - 1]
    <3>1. k - 1 \in 0..n /\ k \in (0 + 1)..n
      OBVIOUS
    <3>2. f[k - 1] \in Int /\ f[k] = step[k][f[k - 1]]
      <4> HIDE DEF step
      <4> QED
        BY <1>2, <3>1 DEF Passed
    <3>3. step[k] = [x \in Int |-> base * x]
      OBVIOUS
    <3> HIDE DEF step
    <3> QED
      BY <3>2, <3>3
  <2> HIDE DEF step
  <2> QED
    BY <1>2, <2>1 DEF Passed
<1>4. Is(power)
  <2> HIDE DEF Is
  <2> QED
    BY <1>3
<1>5. Power(base, n) = power[n]
  BY DEF Power
<1> HIDE DEF power, step
<1>6. power[0] = 1 /\ \A k \in 1..n : power[k] = base * power[k - 1]
  <2>1. \A k \in 0..n : power[k] = IF k = 0 THEN 1 ELSE base * power[k - 1]
    BY <1>4
  <2> QED
    BY <2>1
<1>7. \A k \in 0..n : power[k] \in Int
  <2> DEFINE S == {k \in 0..n : power[k] \in Int}
  <2>1. 0 \in S
    BY <1>6
  <2>2. \A k \in 0..(n - 1) : k \in S => k + 1 \in S
    BY <1>6
  <2> HIDE DEF S, Is
  <2>3. \A k \in 0..n : k \in S
    BY <1>1, <2>1, <2>2, Induct
  <2> QED
    BY <2>3 DEF S
<1>8. power \in [0..n -> Int]
  BY <1>4, <1>7
<1> HIDE DEF Is
<1> QED
  BY <1>5, <1>6, <1>8 DEF IsPower

LEMMA PowerInt == ASSUME NEW base \in Int, NEW n \in Nat PROVE Power(base, n) \in Int
<1>1. PICK f : IsPower(f, base, n) /\ Power(base, n) = f[n]
  BY PowerFunction
<1> QED
  BY <1>1 DEF IsPower

LEMMA PowerZero == ASSUME NEW base \in Int PROVE Power(base, 0) = 1
  BY PowerFunction DEF IsPower

LEMMA PowerStep ==
    ASSUME NEW base \in Int, NEW n \in Nat
    PROVE  Power(base, n + 1) = base * Power(base, n)
<1>1. PICK f : IsPower(f, base, n + 1) /\ Power(base, n + 1) = f[n + 1]
  BY PowerFunction
<1>2. PICK g : IsPower(g, base, n) /\ Power(base, n) = g[n]
  BY PowerFunction
<1> DEFINE S == {k \in 0..n : f[k] = g[k]}
<1>3. 0 \in S
  BY <1>1, <1>2 DEF IsPower
<1>4. ASSUME NEW k \in 0..(n - 1), k \in S PROVE k + 1 \in S
  <2>1. k + 1 \in 1..n /\ k + 1 \in 1..(n + 1) /\ (k + 1) - 1 = k /\ k + 1 \in 0..n
    OBVIOUS
  <2>2. f[k + 1] = base * f[k] /\ g[k + 1] = base * g[k]
    BY <1>1, <1>2, <2>1 DEF IsPower
  <2> QED
    BY <1>4, <2>1, <2>2
<1>5. n \in S
  <2>1. \A k \in 0..(n - 1) : k \in S => k + 1 \in S
    BY <1>4
  <2>2. 0 \in Int /\ n \in Int /\ 0 <= n /\ n \in 0..n
    OBVIOUS
  <2> HIDE DEF S
  <2>3. \A k \in 0..n : k \in S
    BY <1>3, <2>1, <2>2, Induct
  <2> QED
    BY <2>2, <2>3
<1>6. f[n + 1] = base * f[n]
  BY <1>1 DEF IsPower
<1> QED
  BY <1>1, <1>2, <1>5, <1>6

LEMMA WeightStep ==
    ASSUME NEW period \in Nat \ {0}, NEW n \in Nat, n >= period, NEW k \in 1..n
    PROVE  Weight(k, n, period) \in Int
           /\ Weight(k, n + 1, period) = (period - 1) * Weight(k, n, period)
<1> DEFINE b == period - 1
<1>1. b \in Int /\ period + 1 \in Int
  OBVIOUS
<1>2. CASE k <= period
  <2> DEFINE e == n - period
  <2>1. e \in Nat /\ n + 1 - period = e + 1
    OBVIOUS
  <2>2. Power(b, e) \in Int /\ Power(b, e + 1) = b * Power(b, e)
    BY <1>1, <2>1, PowerInt, PowerStep
  <2>3. Weight(k, n, period) = Power(b, e) /\ Weight(k, n + 1, period) = Power(b, n + 1 - period)
    BY <1>2 DEF Weight
  <2> QED
    BY <2>1, <2>2, <2>3
<1>3. CASE k > period
  <2> DEFINE e == n - k
             q == Power(period + 1, k - period - 1)
             u == Power(b, e)
  <2>1. e \in Nat /\ n + 1 - k = e + 1 /\ k - period - 1 \in Nat
    BY <1>3
  <2>2. u \in Int /\ Power(b, e + 1) = b * u
    BY <1>1, <2>1, PowerInt, PowerStep
  <2>3. q \in Int
    BY <1>1, <2>1, PowerInt
  <2>4. Weight(k, n, period) = 2 * period * u * q
        /\ Weight(k, n + 1, period) = 2 * period * Power(b, n + 1 - k) * q
    BY <1>3 DEF Weight
  <2> HIDE DEF u, q
  <2>5. 2 * period * (b * u) * q = b * (2 * period * u * q)
    BY <1>1, <2>2, <2>3
  <2>6. 2 * period * u * q \in Int
    BY <2>2, <2>3
  <2> QED
    BY <2>1, <2>2, <2>4, <2>5, <2>6
<1> QED
  BY <1>2, <1>3

LEMMA FirstWeights ==
    ASSUME NEW period \in Nat \ {0}, NEW k \in 1..period
    PROVE  Weight(k, period, period) = 1
<1>1. period - 1 \in Int /\ period - period = 0 /\ k <= period
  OBVIOUS
<1> QED
  BY <1>1, PowerZero DEF Weight

LEMMA LastWeight ==
    ASSUME NEW period \in Nat \ {0}, NEW n \in Nat, n >= period
    PROVE  Weight(n + 1, n + 1, period) = 2 * period * Power(period + 1, n - period)
<1>1. /\ ~(n + 1 <= period) /\ n + 1 - (n + 1) = 0 /\ n + 1 - period - 1 = n - period
      /\ period - 1 \in Int /\ period + 1 \in Int /\ n - period \in Nat
  OBVIOUS
<1>2. Power(period - 1, 0) = 1 /\ Power(period + 1, n - period) \in Int
  BY <1>1, PowerZero, PowerInt
<1>3. Weight(n + 1, n + 1, period) = 2 * period * 1 * Power(period + 1, n - period)
  BY <1>1, <1>2 DEF Weight
<1> QED
  BY <1>2, <1>3

\* After k values the loop of CalculateEMA holds the weighted sum of them.
LEMMA EmaWeights ==
    ASSUME NEW v \in Seq(Int), NEW period \in 1..Len(v)
    PROVE  CalculateEMA(v, period)
             = [n |-> WeightedSum(v, period), d |-> period * Power(period + 1, Len(v) - period)]
<1> DEFINE n == Len(v)
           w(k) == [i \in 1..k |-> Weight(i, k, period) * v[i]]
           sum(k) == [n |-> SumOf(w(k)), d |-> period * Power(period + 1, k - period)]
<1>1. /\ n \in Int /\ period \in Int /\ period <= n /\ period \in Nat \ {0} /\ period \in 0..n
      /\ \A i \in 1..n : v[i] \in Int
  OBVIOUS
<1>2. PICK f : IsAverage(f, v, period, 2) /\ Smoothed(v, period, 2) = f[n]
  <2>1. 2 \in Nat \ {0}
    OBVIOUS
  <2> QED
    BY <2>1, AverageFunction
<1>3. ASSUME NEW k \in period..n
      PROVE  /\ w(k) \in Seq(Int) /\ Len(w(k)) = k
             /\ \A i \in 1..k : w(k)[i] = Weight(i, k, period) * v[i]
             /\ \A i \in 1..k : Weight(i, k, period) \in Int
  <2>1. k \in Nat /\ k >= period /\ \A i \in 1..k : i \in 1..n
    BY <1>1
  <2>2. \A i \in 1..k : Weight(i, k, period) \in Int
    BY <1>1, <2>1, WeightStep
  <2>3. \A i \in 1..k : Weight(i, k, period) * v[i] \in Int
    BY <1>1, <2>1, <2>2
  <2> QED
    BY <2>1, <2>2, <2>3
<1>4. f[period] = sum(period)
  <2> DEFINE t == SubSeq(v, 1, period)
  <2>1. t \in Seq(Int) /\ Len(t) = period /\ \A i \in 1..period : t[i] = v[i]
    BY <1>1, Prefix
  <2>2. f[period] = [n |-> SumOf(t), d |-> period]
    BY <1>2, <2>1 DEF IsAverage, calculateSMA
  <2> HIDE DEF t
  <2>3. w(period) = t
    <3>1. \A i \in 1..period : Weight(i, period, period) * v[i] = v[i]
      <4>1. \A i \in 1..period : i \in 1..n /\ Weight(i, period, period) = 1
        BY <1>1, FirstWeights
      <4> QED
        BY <1>1, <4>1
    <3>2. period \in period..n
      BY <1>1
    <3>3. /\ w(period) \in Seq(Int) /\ Len(w(period)) = period
          /\ \A i \in 1..period : w(period)[i] = Weight(i, period, period) * v[i]
      BY <1>3, <3>2
    <3> DEFINE x == w(period)
    <3> HIDE DEF x
    <3>4. x = t
      BY <2>1, <3>1, <3>3 DEF x
    <3> QED
      BY <3>4 DEF x
  <2>4. period * Power(period + 1, period - period) = period
    <3>1. period - period = 0 /\ period + 1 \in Int /\ period * 1 = period
      BY <1>1
    <3> QED
      BY <3>1, PowerZero
  <2> QED
    BY <2>2, <2>3, <2>4
<1>5. ASSUME NEW k \in period..(n - 1) PROVE sum(k + 1) = Blend(sum(k), v[k + 1], period, 2)
  <2> DEFINE x == w(k)
             y == w(k + 1)
             q == Power(period + 1, k - period)
  <2>1. /\ k \in Nat /\ k >= period /\ k - period \in Nat /\ (k + 1) - period = (k - period) + 1
        /\ k \in period..n /\ k + 1 \in period..n /\ k + 1 \in 1..n /\ k \in 0..(k + 1)
        /\ k + 1 > 0 /\ k + 1 \in 1..(k + 1) /\ (k + 1) - 1 = k
        /\ \A i \in 1..k : i \in 1..n /\ i \in 1..(k + 1)
    BY <1>1
  <2>2. /\ x \in Seq(Int) /\ Len(x) = k /\ \A i \in 1..k : x[i] = Weight(i, k, period) * v[i]
        /\ \A i \in 1..k : Weight(i, k, period) \in Int
    BY <1>3, <2>1
  <2>3. /\ y \in Seq(Int) /\ Len(y) = k + 1
        /\ \A i \in 1..(k + 1) : y[i] = Weight(i, k + 1, period) * v[i]
    BY <1>3, <2>1
  <2>4. q \in Int /\ Power(period + 1, (k + 1) - period) = (period + 1) * q
    <3>1. period + 1 \in Int
      BY <1>1
    <3> QED
      BY <2>1, <3>1, PowerInt, PowerStep
  <2>5. v[k + 1] \in Int
    BY <1>1, <2>1
  <2>6. SumOf(x) \in Int
    <3> HIDE DEF x
    <3> QED
      BY <2>2, SumInt
  <2>7. SumOf(y) = SumOf(SubSeq(y, 1, k)) + y[k + 1]
    <3> HIDE DEF y
    <3>1. Len(y) > 0 /\ Len(y) - 1 = k
      BY <2>1, <2>3
    <3> QED
      BY <2>3, <3>1, SumStep
  <2>8. SumOf(SubSeq(y, 1, k)) = (period - 1) * SumOf(x)
    <3> DEFINE z == SubSeq(y, 1, k)
    <3> HIDE DEF x, y
    <3>1. z \in Seq(Int) /\ Len(z) = k /\ \A i \in 1..k : z[i] = y[i]
      BY <2>1, <2>3, Prefix
    <3>2. ASSUME NEW i \in 1..k PROVE z[i] = (period - 1) * x[i]
      <4>1. Weight(i, k, period) \in Int /\ Weight(i, k + 1, period) = (period - 1) * Weight(i, k, period)
        BY <1>1, <2>1, WeightStep
      <4>2. z[i] = ((period - 1) * Weight(i, k, period)) * v[i] /\ x[i] = Weight(i, k, period) * v[i]
        BY <2>1, <2>2, <2>3, <3>1, <4>1
      <4>3. v[i] \in Int
        BY <1>1, <2>1
      <4>4. ((period - 1) * Weight(i, k, period)) * v[i] = (period - 1) * (Weight(i, k, period) * v[i])
        <5>1. \A a, b, c \in Int : (a * b) * c = a * (b * c)
          OBVIOUS
        <5>2. period - 1 \in Int
          BY <1>1
        <5> QED
          BY <4>1, <4>3, <5>1, <5>2
      <4> QED
        BY <4>2, <4>4
    <3>3. period - 1 \in Int
      BY <1>1
    <3> HIDE DEF z
    <3>4. SumOf(z) = (period - 1) * SumOf(x)
      BY <2>2, <3>1, <3>2, <3>3, SumScaled
    <3> QED
      BY <3>4 DEF z
  <2>9. y[k + 1] = 2 * period * q * v[k + 1]
    <3> HIDE DEF y, q
    <3>1. Weight(k + 1, k + 1, period) = 2 * period * q
      BY <1>1, <2>1, LastWeight DEF q
    <3> QED
      BY <2>1, <2>3, <3>1
  <2> HIDE DEF x, y, q
  <2>10. sum(k) = [n |-> SumOf(x), d |-> period * q]
    BY DEF x, q
  <2>11. sum(k + 1) = [n |-> SumOf(y), d |-> period * Power(period + 1, (k + 1) - period)]
    BY DEF y
  <2>12. Blend([n |-> SumOf(x), d |-> period * q], v[k + 1], period, 2)
           = [n |-> (period - 1) * SumOf(x) + 2 * v[k + 1] * (period * q),
              d |-> (period - 1 + 2) * (period * q)]
    BY DEF Blend
  <2>13. 2 * v[k + 1] * (period * q) = 2 * period * q * v[k + 1]
    <3>1. \A a, b, c \in Int : 2 * a * (b * c) = 2 * b * c * a
      OBVIOUS
    <3> QED
      BY <1>1, <2>4, <2>5, <3>1
  <2>14. (period - 1 + 2) * (period * q) = period * ((period + 1) * q)
    BY <1>1, <2>4
  <2> HIDE DEF sum, w
  <2> QED
    BY <2>4, <2>7, <2>8, <2>9, <2>10, <2>11, <2>12, <2>13, <2>14
<1> DEFINE S == {k \in period..n : f[k] = sum(k)}
<1> HIDE DEF sum, w
<1>6. period \in S
  BY <1>1, <1>4
<1>7. ASSUME NEW k \in period..(n - 1), k \in S PROVE k + 1 \in S
  <2>1. k + 1 \in (period + 1)..n /\ (k + 1) - 1 = k /\ k + 1 \in period..n
    BY <1>1
  <2>2. f[k + 1] = Blend(f[k], v[k + 1], period, 2)
    BY <1>2, <2>1 DEF IsAverage
  <2> QED
    BY <1>5, <1>7, <2>1, <2>2
<1>8. n \in S
  <2>1. \A k \in period..(n - 1) : k \in S => k + 1 \in S
    BY <1>7
  <2>2. n \in period..n
    BY <1>1
  <2> HIDE DEF S, n
  <2>3. \A k \in period..n : k \in S
    BY <1>1, <1>6, <2>1, Induct
  <2> QED
    BY <2>2, <2>3
<1>9. CalculateEMA(v, period) = sum(n)
  BY <1>2, <1>8 DEF CalculateEMA
<1> QED
  BY <1>9 DEF sum, w, WeightedSum

-----------------------------------------------------------------------------
(* The ATR of an oversold symbol *)

Candle == [high : Nat, low : Nat, close : Nat]

OrderedBar(b) == b.low <= b.close /\ b.close <= b.high

LEMMA TrueRangeFacts ==
    ASSUME NEW bar \in Candle, OrderedBar(bar), NEW prev \in Nat
    PROVE  /\ calculateTrueRange(bar, prev) \in Nat
           /\ bar.close < prev => calculateTrueRange(bar, prev) > 0
<1>1. bar.high \in Nat /\ bar.low \in Nat /\ bar.close \in Nat
  BY DEF Candle
<1> DEFINE x == AbsOf(bar.high - bar.low)
           y == AbsOf(bar.high - prev)
           z == AbsOf(bar.low - prev)
<1>2. x \in Nat /\ y \in Nat /\ z \in Nat
  BY <1>1 DEF AbsOf
<1>3. bar.close < prev => z > 0
  BY <1>1 DEF AbsOf, OrderedBar
<1> HIDE DEF x, y, z
<1>4. Higher3(x, y, z) \in Nat /\ (z > 0 => Higher3(x, y, z) > 0)
  BY <1>2 DEF Higher3
<1> QED
  BY <1>3, <1>4 DEF calculateTrueRange, x, y, z

LEMMA BarsOrdered ==
    ASSUME NEW day \in Days
    PROVE  /\ BarsOn(History, day) \in Seq(Candle)
           /\ \A i \in 1..Len(BarsOn(History, day)) : OrderedBar(BarsOn(History, day)[i])
<1> DEFINE a == IF day > Window THEN day - Window + 1 ELSE 1
<1>1. History \in Seq(Candle) /\ \A i \in 1..Len(History) : OrderedBar(History[i])
  BY HistoryAssumption DEF Candle, OrderedBar
<1>2. a \in Nat \ {0} /\ day \in 0..Len(History)
  BY PeriodAssumption, HistoryLength DEF Days
<1> HIDE DEF a
<1> DEFINE b == SubSeq(History, a, day)
<1>3. /\ b \in Seq(Candle)
      /\ \A i \in 1..Len(b) : a + i - 1 \in 1..Len(History) /\ b[i] = History[a + i - 1]
  BY <1>1, <1>2
<1>4. BarsOn(History, day) = b
  BY DEF BarsOn, a
<1> HIDE DEF b
<1> QED
  BY <1>1, <1>3, <1>4

LEMMA OversoldATR ==
    ASSUME NEW bars \in Seq(Candle), \A i \in 1..Len(bars) : OrderedBar(bars[i]),
           Len(bars) >= RsiPeriod + 2, Len(bars) >= AtrPeriod + 1,
           Less(CalculateRSI(Closes(bars), RsiPeriod), Oversold)
    PROVE  CalculateATR(bars, AtrPeriod) \in [n : Nat \ {0}, d : Nat \ {0}]
<1> DEFINE v == Closes(bars)
           n == Len(bars) - 1
           trs == [i \in 1..n |-> calculateTrueRange(bars[i + 1], bars[i].close)]
<1>1. /\ RsiPeriod \in 1..n /\ AtrPeriod \in 1..n /\ AtrPeriod > 1 /\ Len(bars) = n + 1 /\ n \in Nat
      /\ \A i \in 1..(n + 1) : bars[i] \in Candle /\ bars[i].close \in Nat
      /\ DOMAIN bars = 1..(n + 1)
  <2>1. n + 1 = Len(bars) /\ Len(bars) \in Nat /\ DOMAIN bars = 1..Len(bars)
    OBVIOUS
  <2>2. RsiPeriod \in 1..n /\ AtrPeriod \in 1..n /\ AtrPeriod > 1 /\ n \in Nat
    BY <2>1, PeriodAssumption
  <2>3. \A i \in 1..Len(bars) : bars[i] \in Candle /\ bars[i].close \in Nat
    <3>1. \A i \in 1..Len(bars) : bars[i] \in Candle
      OBVIOUS
    <3> QED
      BY <3>1 DEF Candle
  <2> HIDE DEF n
  <2> QED
    BY <2>1, <2>2, <2>3
<1>2. v \in Seq(Int) /\ Len(v) = n + 1 /\ \A i \in 1..(n + 1) : v[i] = bars[i].close
  <2> HIDE DEF n
  <2> QED
    BY <1>1 DEF Closes
<1>3. ASSUME NEW i \in 1..n
      PROVE  /\ calculateTrueRange(bars[i + 1], bars[i].close) \in Nat
             /\ v[i + 1] < v[i] => calculateTrueRange(bars[i + 1], bars[i].close) > 0
  <2>1. i \in 1..(n + 1) /\ i + 1 \in 1..(n + 1)
    BY <1>1
  <2> HIDE DEF v, n
  <2>2. bars[i + 1] \in Candle /\ OrderedBar(bars[i + 1]) /\ bars[i].close \in Nat
    BY <1>1, <2>1
  <2> QED
    BY <1>2, <2>1, <2>2, TrueRangeFacts
<1>4. \E i \in 1..n : v[i + 1] < v[i]
  <2> SUFFICES ASSUME \A i \in 1..n : ~(v[i + 1] < v[i]) PROVE FALSE
    OBVIOUS
  <2> HIDE DEF v, n
  <2>1. \A i \in 1..(Len(v) - 1) : v[i + 1] >= v[i]
    <3> TAKE i \in 1..(Len(v) - 1)
    <3>1. i \in 1..n /\ v[i + 1] \in Int /\ v[i] \in Int
      BY <1>1, <1>2
    <3> QED
      BY <3>1
  <2>2. RsiPeriod \in 1..(Len(v) - 1)
    BY <1>1, <1>2
  <2>3. LossOf(v, RsiPeriod).n = 0
    BY <1>2, <2>1, <2>2, Moving
  <2>4. CalculateRSI(v, RsiPeriod) = Whole(100)
    BY <2>3, RsiRatio DEF Ratio
  <2>5. ~Less(Whole(100), Oversold)
    BY DEF Less, Whole, Oversold
  <2> QED
    BY <2>4, <2>5 DEF v
<1>5. trs \in Seq(Nat) /\ Len(trs) = n /\ \E k \in 1..n : trs[k] > 0
  <2> HIDE DEF v, n
  <2>1. \A i \in 1..n : trs[i] = calculateTrueRange(bars[i + 1], bars[i].close)
    OBVIOUS
  <2>2. trs \in Seq(Nat) /\ Len(trs) = n
    <3>1. trs \in [1..n -> Nat]
      BY <1>3
    <3>2. n \in Nat
      BY <1>1
    <3> HIDE DEF trs
    <3> QED
      BY <3>1, <3>2
  <2> QED
    BY <1>3, <1>4, <2>1, <2>2
<1>6. CalculateATR(bars, AtrPeriod) = Smoothed(trs, AtrPeriod, 2)
  BY DEF CalculateATR, CalculateEMA
<1> HIDE DEF trs, n, v
<1>7. Smoothed(trs, AtrPeriod, 2) \in Moves /\ Smoothed(trs, AtrPeriod, 2).n > 0
  <2>1. AtrPeriod \in 1..Len(trs) /\ 2 \in Nat \ {0} /\ \E k \in 1..Len(trs) : trs[k] > 0
    BY <1>1, <1>5
  <2> QED
    BY <1>1, <1>5, <2>1, SmoothedSign
<1> QED
  BY <1>6, <1>7 DEF Moves

LEMMA OversoldState ==
    ASSUME NEW day \in Days, StateOn[day] # Null, Less(StateOn[day].RSI, Oversold)
    PROVE  StateOn[day].ATR \in [n : Nat \ {0}, d : Nat \ {0}]
<1> DEFINE bars == BarsOn(History, day)
<1>1. /\ Seedable(bars, EmaPeriod, RsiPeriod, AtrPeriod)
      /\ StateOn[day] = IndicatorState(bars, EmaPeriod, RsiPeriod, AtrPeriod)
  BY DEF StateOn
<1>2. bars \in Seq(Candle) /\ \A i \in 1..Len(bars) : OrderedBar(bars[i])
  BY BarsOrdered
<1> HIDE DEF bars
<1>3. /\ StateOn[day].RSI = CalculateRSI(Closes(bars), RsiPeriod)
      /\ StateOn[day].ATR = CalculateATR(bars, AtrPeriod)
  BY <1>1 DEF IndicatorState
<1>4. Len(bars) >= RsiPeriod + 2 /\ Len(bars) >= AtrPeriod + 1
  BY <1>1 DEF Seedable
<1> QED
  BY <1>2, <1>3, <1>4, OversoldATR

-----------------------------------------------------------------------------
(* Theorems *)

LEMMA SeriesSeq == ASSUME NEW day \in Days, NEW v \in Series(day) PROVE v \in Seq(Int)
<1>1. day \in Nat
  BY HistoryLength DEF Days
<1>2. v \in [1..day -> Int]
  BY LawsAssumption DEF Series
<1> QED
  BY <1>1, <1>2

\* Every live signal can be sized.  Oversold means that some close fell, so
\* some true range is positive, and an average with a period above one never
\* drops back to zero: the fallback without ATR is never taken
\* (ExecuteBuyTrade, layer 4).
THEOREM SignalsSized == Spec => []SizedWithinLimits
<1>1. Inv => SizedWithinLimits
  <2> SUFFICES ASSUME Inv, NEW w \in Workers, NEW s \in made[w], s.path = "live"
               PROVE  /\ s.ind.ATR.n > 0
                      /\ \A amount \in Amounts, target \in Targets :
                           LET q == Quantity(amount, target, s.price, s.ind.ATR) IN
                           /\ q.n > 0 /\ q.d > 0
                           /\ WithinSlot(q, amount, target, s.price)
                           /\ WithinRisk(q, amount, s.ind.ATR)
    BY DEF SizedWithinLimits
  <2>1. s \in Signal /\ s.ind \in Computed /\ Justified(s)
    BY DEF Inv, TypeOK, SeedCoherent, Explained
  <2>2. s.price \in Nat \ {0}
    BY <2>1, TradingAssumption DEF Signal
  <2>3. s.ind # Null /\ Less(s.ind.RSI, Oversold)
    BY <2>1 DEF Justified, Passes, MomentumFor
  <2>4. PICK day \in 0..days : s.ind = StateOn[day]
    BY <2>1, <2>3 DEF Computed
  <2>5. day \in Days
    BY HistoryLength DEF Inv, TypeOK, Days
  <2>6. s.ind.ATR \in [n : Nat \ {0}, d : Nat \ {0}]
    BY <2>3, <2>4, <2>5, OversoldState
  <2>7. s.ind.ATR.n > 0
    BY <2>6
  <2>8. ASSUME NEW amount \in Amounts, NEW target \in Targets
        PROVE  LET q == Quantity(amount, target, s.price, s.ind.ATR) IN
               /\ q.n > 0 /\ q.d > 0
               /\ WithinSlot(q, amount, target, s.price)
               /\ WithinRisk(q, amount, s.ind.ATR)
    <3>1. amount \in Nat \ {0} /\ target \in Nat \ {0}
      BY TradingAssumption
    <3> QED
      BY <2>2, <2>6, <3>1, QuantityLimited
  <2> QED
    BY <2>7, <2>8
<1> QED
  BY <1>1, Invariance, PTL

\* The loop of CalculateEMA yields the textbook weights, for every series and
\* every period.
THEOREM EmaWeighted == Spec => []EmaIsWeighted
<1>1. TypeOK => EmaIsWeighted
  <2> SUFFICES ASSUME NEW day \in Days PROVE WeightedOn[day]
    BY DEF EmaIsWeighted, TypeOK
  <2>1. ASSUME NEW period \in Periods, NEW v \in Series(day), Len(v) >= period
        PROVE  SameFrac(CalculateEMA(v, period),
                        [n |-> WeightedSum(v, period),
                         d |-> period * Power(period + 1, Len(v) - period)])
    <3>1. v \in Seq(Int)
      BY SeriesSeq
    <3>2. period \in 1..Len(v)
      BY <2>1, <3>1, LawsAssumption
    <3>3. CalculateEMA(v, period)
            = [n |-> WeightedSum(v, period), d |-> period * Power(period + 1, Len(v) - period)]
      BY <3>1, <3>2, EmaWeights
    <3> QED
      BY <3>3 DEF SameFrac
  <2> QED
    BY <2>1 DEF WeightedOn
<1> QED
  BY <1>1, SignalTypes, PTL

\* Gains and losses are smoothed alike, for every series and every period
\* above one: the RSI of the mirrored series is the mirrored RSI, and a close
\* above the last one never lowers it.
THEOREM RsiIsSymmetric == Spec => []RsiSymmetric
<1>1. TypeOK => RsiSymmetric
  <2> SUFFICES ASSUME NEW day \in Days PROVE SymmetricOn[day]
    BY DEF RsiSymmetric, TypeOK
  <2>1. ASSUME NEW period \in Periods, NEW v \in Series(day), Len(v) > period
        PROVE  RsiLaw(v, period)
    <3>1. v \in Seq(Int) /\ period \in Nat \ {0, 1}
      BY LawsAssumption, SeriesSeq
    <3> QED
      BY <2>1, <3>1, RsiLaws
  <2> QED
    BY <2>1 DEF SymmetricOn, RsiLaw
<1> QED
  BY <1>1, SignalTypes, PTL

\* The true range is the length of the smallest interval that holds the bar
\* and the close before it.
THEOREM TrueRangeIsSpan == Spec => []TrueRangeSpans
<1>1. TypeOK => TrueRangeSpans
  <2> SUFFICES ASSUME NEW day \in Days PROVE SpansOn[day]
    BY DEF TrueRangeSpans, TypeOK
  <2>1. ASSUME NEW low \in 0..day, NEW high \in 0..day, NEW prev \in 0..day, low <= high
        PROVE  calculateTrueRange([high |-> high, low |-> low, close |-> high], prev)
                 = (IF prev > high THEN prev ELSE high) - (IF prev < low THEN prev ELSE low)
    <3>1. low \in Nat /\ high \in Nat /\ prev \in Nat
      BY HistoryLength DEF Days
    <3> QED
      BY <2>1, <3>1 DEF calculateTrueRange, Higher3, AbsOf
  <2> QED
    BY <2>1 DEF SpansOn
<1> QED
  BY <1>1, SignalTypes, PTL
=============================================================================
