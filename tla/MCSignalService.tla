--------------------------- MODULE MCSignalService ---------------------------
(* An instance of SignalService for TLC, with the laws of the indicators   *)
(* over short series.                                                      *)
EXTENDS IndicatorLaws

Bar(high, low, close) == [high |-> high, low |-> low, close |-> close]
At(close) == Bar(close, close, close)

\* A new listing: too short for three days, then oversold (day 4), then a
\* cross-up (day 5).  Single-price bars that gap down have a true range only
\* because of the close before.
MCHistory == << At(10), At(8), At(6), At(4), Bar(10, 4, 9) >>

\* The index falls and is above its average again on the last day.
MCIndex == << At(14), At(13), At(12), At(9), At(14) >>
=============================================================================
