---------------------------- MODULE MarketLevels ----------------------------
(***************************************************************************)
(* The price levels that an analysis reports, as functions of the bars     *)
(* that the market feed returned: the nearest support and resistance, and  *)
(* zones of prices that were tested repeatedly.                            *)
(*                                                                         *)
(* Prices are whole units.  Of a bar the low and high count, and of the    *)
(* last one its close, the current price.  The windows of the analysis are *)
(* constants here; their values in the code are given with them.           *)
(***************************************************************************)
EXTENDS Integers, Sequences, FiniteSets, FiniteSetsExt

CONSTANTS
  Price,     \* prices of the market
  Wing,      \* bars on each side of a fractal (2)
  LeastRows, \* fewer bars make no zones (8)
  Lookback,  \* the bars that make zones (50)
  Recent,    \* of these, the ones that count in any case (12)
  FibRows,   \* the bars that make the Fibonacci levels (30)
  MaxBars    \* bound: bars

VARIABLES
  bars,  \* the bars, the last one in progress
  close  \* its close

vars == <<bars, close>>

BarType == {b \in [low : Price, high : Price] : b.low <= b.high}
TypeOK == /\ bars \in Seq(BarType) /\ Len(bars) \in 1 .. MaxBars
          /\ close \in Price /\ close \in bars[Len(bars)].low .. bars[Len(bars)].high

Init == \E p \in Price : bars = <<[low |-> p, high |-> p]>> /\ close = p

Shows(b) == \E p \in Price : p \in b.low .. b.high /\ close' = p
NewBar == /\ Len(bars) < MaxBars
          /\ \E b \in BarType : bars' = Append(bars, b) /\ Shows(b)
Move == \E b \in BarType : LET now == bars[Len(bars)] IN
          /\ b.low <= now.low /\ now.high <= b.high
          /\ bars' = [bars EXCEPT ![Len(bars)] = b] /\ Shows(b)

Next == NewBar \/ Move
Spec == Init /\ [][Next]_vars

Last(n, r) == SubSeq(r, IF Len(r) > n THEN Len(r) - n + 1 ELSE 1, Len(r))
Highs(r) == {r[n].high : n \in DOMAIN r}
Lows(r)  == {r[n].low : n \in DOMAIN r}

-----------------------------------------------------------------------------
(* Fractals and Fibonacci levels *)

Around(n, r) == {k \in DOMAIN r : n - Wing <= k /\ k <= n + Wing}
Inner(r) == {n \in DOMAIN r : n > Wing /\ n <= Len(r) - Wing}
FractalHighs(r) == {n \in Inner(r) : \A k \in Around(n, r) : r[n].high >= r[k].high}
FractalLows(r)  == {n \in Inner(r) : \A k \in Around(n, r) : r[n].low <= r[k].low}

\* In thousandths of the range below its high; those beyond it are extensions.
Retracements == {236, 382, 500, 618, 786}
Ratios == Retracements \cup {0, 1000, -272, -618, -1618}
Level(ratio) == LET r == Last(FibRows, bars)  high == Max(Highs(r))
                IN high - (ratio * (high - Min(Lows(r)))) \div 1000

-----------------------------------------------------------------------------
(* _calculate_key_levels and _build_level_facts *)

Highest(n, S) == {p \in S : Cardinality({q \in S : q > p}) < n}
Lowest(n, S)  == {p \in S : Cardinality({q \in S : q < p}) < n}

\* Three fractal lows and three fractal highs; a price that occurs twice is
\* kept twice.
Sorted(S, price(_), before(_, _)) ==
  {n \in S : Cardinality({k \in S : before(price(k), price(n)) \/ (price(k) = price(n) /\ k < n)}) < 3}
KeyLevels == LET low(n) == bars[n].low  high(n) == bars[n].high
                 above(p, q) == p > q   below(p, q) == p < q IN
  {bars[n].low : n \in Sorted(FractalLows(bars), low, above)}
    \cup {bars[n].high : n \in Sorted(FractalHighs(bars), high, below)}

\* Both are sorted anew by the current price, and two of each side are kept.
Normalized == Highest(2, {p \in KeyLevels : p <= close}) \cup Lowest(2, {p \in KeyLevels : p >= close})
Levels == Normalized \cup {Level(ratio) : ratio \in Retracements}
Supports == {p \in Levels : p <= close}
Resistances == {p \in Levels : p >= close}

-----------------------------------------------------------------------------
(* _build_level_zones_v1 *)

\* The candidates with prices in a set: fractals, recent highs and lows, and the
\* Fibonacci levels within the range; a price is one as often as it is found.
Rows == Last(Lookback, bars)
Touched(C) == LET r == Rows  fresh == {n \in DOMAIN r : n > Len(r) - Recent} IN
  ({"high"} \X {n \in FractalHighs(r) : r[n].high \in C})
  \cup ({"low"} \X {n \in FractalLows(r) : r[n].low \in C})
  \cup ({"recent high"} \X {n \in fresh : r[n].high \in C})
  \cup ({"recent low"} \X {n \in fresh : r[n].low \in C})
  \cup ({"level"} \X {ratio \in Ratios : /\ Level(ratio) \in C
                                      /\ Level(ratio) \in Min(Lows(r)) .. Max(Highs(r))})
Touches(C) == Cardinality(Touched(C))
Candidates == {p \in Min(Lows(Rows)) .. Max(Highs(Rows)) : Touches({p}) > 0}

\* Close enough: within 1.2 % of the current price, or one unit.
Near(d) == 1000 * d <= Max({12 * close, 1000})

\* A price joins the cluster below it when it is near its highest and its
\* lowest price.
Joins(p, C) == Near(p - Max(C)) /\ Near(p - Min(C))

\* From the lowest price up, a price begins a cluster if there is none below it
\* or it does not join the last one, which goes from its begin to here.
Begins(p, S, B) == LET below == {b \in B : b < p} IN
  below = {} \/ ~ Joins(p, {q \in S : Max(below) <= q /\ q < p})
Starts(S) == CHOOSE B \in SUBSET S : \A p \in S : p \in B <=> Begins(p, S, B)
Cluster(b, S) == {q \in S : b <= q /\ \A c \in Starts(S) : b < c => q < c}
Clusters(S) == {Cluster(b, S) : b \in Starts(S)}

\* A cluster is a zone if it was touched twice.
Zone(C) == [low |-> Min(C), high |-> Max(C), touches |-> Touches(C)]
Zones(S) == {z \in {Zone(C) : C \in Clusters(S)} : z.touches >= 2}

\* The three nearest of each side.  Zones of one side lie apart, so their lowest
\* prices are in the order of their centres.

\* Mutant of SupportZones: the farthest ones.
SupportZonesFirst ==
  LET zs == Zones({p \in Candidates : p <= close})
  IN IF Len(bars) < LeastRows THEN {} ELSE {z \in zs : Cardinality({y \in zs : y.low < z.low}) < 3}
SupportZones ==
  LET zs == Zones({p \in Candidates : p <= close})
  IN IF Len(bars) < LeastRows THEN {} ELSE {z \in zs : Cardinality({y \in zs : y.low > z.low}) < 3}
ResistanceZones ==
  LET zs == Zones({p \in Candidates : p >= close})
  IN IF Len(bars) < LeastRows THEN {} ELSE {z \in zs : Cardinality({y \in zs : y.low < z.low}) < 3}

-----------------------------------------------------------------------------
(* Properties *)

Covers(z, p) == z.low <= p /\ p <= z.high

\* Of the prices that were tested at least twice, none is missing while a
\* farther one is shown: it lies in a zone of its side, or three zones lie
\* between it and the current price; and no zone is wider than the limit.
RepeatedLevelShown == Len(bars) >= LeastRows =>
  LET below == SupportZones  above == ResistanceZones IN
  /\ \A z \in below \cup above : Near(z.high - z.low)
  /\ \A p \in Candidates : Touches({p}) >= 2 =>
       /\ p <= close => \/ \E z \in below : Covers(z, p)
                        \/ Cardinality({z \in below : z.low > p}) = 3
       /\ p >= close => \/ \E z \in above : Covers(z, p)
                        \/ Cardinality({z \in above : z.high < p}) = 3

\* The two nearest levels of each side that are reported are the two nearest of
\* all: cutting the key levels to two of each side before the retracements join
\* them loses none, also when a level equals the price and counts on both sides.
AllLevels == KeyLevels \cup {Level(ratio) : ratio \in Retracements}
NearestShown == /\ Highest(2, Supports) = Highest(2, {p \in AllLevels : p <= close})
                /\ Lowest(2, Resistances) = Lowest(2, {p \in AllLevels : p >= close})

\* The key levels are the most recent three of each kind, or the nearest three
\* (the comment of _calculate_key_levels).  The code takes the highest lows and
\* the lowest highs, wherever the price is: after a fall the nearest fractal
\* low below the price is missing.
LatestOf(S) == {n \in S : Cardinality({k \in S : k > n}) < 3}
NearestOf(S) == {n \in S : Cardinality({k \in S : bars[k].low <= close /\ bars[k].low > bars[n].low}) < 3}
KeyLevelsRecent ==
  LET lows == FractalLows(bars)  below == {n \in lows : bars[n].low <= close} IN
  \/ \A n \in LatestOf(lows) : bars[n].low \in KeyLevels
  \/ \A n \in NearestOf(below) : bars[n].low \in KeyLevels
=============================================================================
