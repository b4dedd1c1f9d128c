-------------------------- MODULE RecurrenceProofs --------------------------
(***************************************************************************)
(* Proofs about Recurrence: the loop over the periods of a rule finds the  *)
(* wall clocks of the series in order, none left out, and stops in time.   *)
(***************************************************************************)
EXTENDS RecurrenceLemmas

----------------------------------------------------------------------------
(* The wall clocks of a rule.                                               *)

Walls(p) == {d * 24 + input.hour : d \in PeriodDays(p)}

(* Those of the first n periods.                                            *)
Found(n) == UNION {Walls(q) : q \in 0..(n - 1)}

(* Where the walk ends.                                                     *)
Cut(wall) == ExceedsUntil(wall) \/ wall > WallBound

(* All that the walk has to find, were it not for COUNT.                    *)
SeriesWalls == {StartWall} \cup {w \in UNION {Walls(p) : p \in Nat} : w > StartWall /\ ~Cut(w)}

OfHour(wall) == wall \in Int /\ (wall - input.hour) % 24 = 0

LEMMA WallsOfDays ==
  ASSUME input \in Case, NEW d \in Int
  PROVE  OfHour(d * 24 + input.hour)
<1>1. input.hour \in Int BY InputTypes
<1>2. (d * 24 + input.hour) - input.hour = 24 * d + 0 /\ d * 24 + input.hour \in Int BY <1>1
<1>3. (24 * d + 0) % 24 = 0 OBVIOUS
<1> QED BY <1>2, <1>3 DEF OfHour

LEMMA FirstWall ==
  ASSUME input \in Case
  PROVE  StartWall \in Int /\ OfHour(StartWall)
<1>1. input.day \in Int BY InputTypes
<1>2. OfHour(StartWall) BY <1>1, WallsOfDays DEF StartWall
<1> QED BY <1>2 DEF OfHour

LEMMA DaysApart ==
  ASSUME input \in Case, NEW w, NEW v, OfHour(w), OfHour(v), w < v
  PROVE  w + 24 <= v
<1>1. w \in Int /\ v \in Int /\ input.hour \in Int /\ (w - input.hour) % 24 = 0
      /\ (v - input.hour) % 24 = 0
  BY InputTypes DEF OfHour
<1> QED BY <1>1

(* The wall clocks of a period lie in it.                                   *)
LEMMA WallsOfPeriods ==
  ASSUME input \in Case, rule.freq # "NONE", NEW p \in Nat, NEW w \in Walls(p)
  PROVE  w \in Int /\ OfHour(w) /\ PeriodStart(p) * 24 <= w /\ w < PeriodEnd(p) * 24
<1>1. PICK d \in PeriodDays(p) : w = d * 24 + input.hour BY DEF Walls
<1>2. PeriodHolds(p) BY PeriodsHold
<1>3. PeriodStart(p) \in Int /\ PeriodEnd(p) \in Int /\ d \in PeriodStart(p)..(PeriodEnd(p) - 1)
  BY <1>2, PeriodDaysAreCandidates DEF PeriodHolds
<1>4. d \in Int /\ PeriodStart(p) <= d /\ d < PeriodEnd(p) BY <1>3
<1>5. OfHour(w) BY <1>1, <1>4, WallsOfDays
<1>6. input.hour \in 0..23 BY InputTypes
<1>7. w \in Int BY <1>5 DEF OfHour
<1>8. PeriodStart(p) * 24 <= w BY <1>1, <1>3, <1>4, <1>6
<1>9. w < PeriodEnd(p) * 24
  <2>1. d + 1 <= PeriodEnd(p) BY <1>3, <1>4
  <2> QED BY <1>1, <1>3, <1>4, <1>6, <2>1
<1> QED BY <1>5, <1>7, <1>8, <1>9

LEMMA WallsInOrder ==
  ASSUME input \in Case, rule.freq # "NONE", NEW p \in Nat, NEW q \in Nat, p < q,
         NEW w \in Walls(p), NEW v \in Walls(q)
  PROVE  w < v
<1>1. w \in Int /\ w < PeriodEnd(p) * 24 BY WallsOfPeriods
<1>2. v \in Int /\ PeriodStart(q) * 24 <= v BY WallsOfPeriods
<1>3. PeriodEnd(p) <= PeriodStart(q) BY PeriodsInOrder
<1>4. PeriodEnd(p) \in Int /\ PeriodStart(q) \in Int BY PeriodsHold DEF PeriodHolds
<1> QED BY <1>1, <1>2, <1>3, <1>4

(* Periods start one after another.                                         *)
LEMMA PeriodStarts ==
  ASSUME input \in Case, rule.freq # "NONE", NEW p \in Nat, NEW q \in Nat, p <= q
  PROVE  PeriodStart(p) \in Int /\ PeriodStart(q) \in Int /\ PeriodStart(p) <= PeriodStart(q)
         /\ (p < q => PeriodStart(p) < PeriodStart(q))
<1>1. PeriodStart(p) \in Int /\ PeriodEnd(p) \in Int /\ PeriodStart(q) \in Int
  BY PeriodsHold DEF PeriodHolds
<1>2. CASE p = q BY <1>1, <1>2
<1>3. CASE p < q
  <2>1. PeriodEnd(p) <= PeriodStart(q) BY <1>3, PeriodsInOrder
  <2>2. PeriodStart(p) < PeriodEnd(p) BY PeriodLengths
  <2> QED BY <1>1, <2>1, <2>2
<1> QED BY <1>2, <1>3

LEMMA FoundWalls ==
  ASSUME input \in Case, rule.freq # "NONE", NEW n \in Nat, NEW w \in Found(n)
  PROVE  /\ w \in Int /\ OfHour(w) /\ PeriodStart(0) * 24 <= w
         /\ \E p \in Nat : p < n /\ w \in Walls(p)
<1>1. PICK p \in 0..(n - 1) : w \in Walls(p) BY DEF Found
<1>2. p \in Nat /\ p < n /\ 0 \in Nat /\ 0 <= p BY <1>1
<1>3. w \in Int /\ OfHour(w) /\ PeriodStart(p) * 24 <= w BY <1>1, <1>2, WallsOfPeriods
<1>4. PeriodStart(0) \in Int /\ PeriodStart(p) \in Int /\ PeriodStart(0) <= PeriodStart(p)
  BY <1>2, PeriodStarts
<1> QED BY <1>1, <1>2, <1>3, <1>4

(* Later wall clocks are cut as well.                                       *)
LEMMA CutGoesOn ==
  ASSUME input \in Case, NEW w, NEW v, OfHour(w), OfHour(v), w <= v, Cut(w)
  PROVE  Cut(v)
<1>1. w \in Int /\ v \in Int BY DEF OfHour
<1>2. WallBound \in Int /\ rule.until.at \in Int
      /\ rule.until.kind \in {"none", "wall", "date", "utc"}
  BY InputTypes DEF WallBound
<1>3. CASE w = v BY <1>3
<1>4. CASE w < v
  <2>1. w + 24 <= v BY <1>4, DaysApart
  <2>2. CASE w > WallBound BY <1>1, <1>2, <1>4, <2>2 DEF Cut
  <2>3. CASE ExceedsUntil(w)
    <3>1. Instant(w) <= Instant(v) /\ ToUtc(w) = Instant(w) /\ Instant(w) \in Int
          /\ ToUtc(v) = Instant(v) /\ Instant(v) \in Int
      BY <1>1, <2>1, InstantsOfWallClocks
    <3>2. CASE rule.until.kind = "none" BY <2>3, <3>2 DEF ExceedsUntil
    <3>3. CASE rule.until.kind = "wall"
      <4>1. w > rule.until.at BY <2>3, <3>3 DEF ExceedsUntil
      <4>2. v > rule.until.at BY <1>1, <1>2, <1>4, <4>1
      <4> QED BY <3>3, <4>2 DEF ExceedsUntil, Cut
    <3>4. CASE rule.until.kind = "date"
      <4>1. w >= (rule.until.at + 1) * 24 BY <2>3, <3>4 DEF ExceedsUntil
      <4>2. v >= (rule.until.at + 1) * 24 BY <1>1, <1>2, <1>4, <4>1
      <4> QED BY <3>4, <4>2 DEF ExceedsUntil, Cut
    <3>5. CASE rule.until.kind = "utc"
      <4>1. ToUtc(w) > rule.until.at BY <2>3, <3>5 DEF ExceedsUntil
      <4>2. ToUtc(v) > rule.until.at BY <1>2, <3>1, <4>1
      <4> QED BY <3>5, <4>2 DEF ExceedsUntil, Cut
    <3> QED BY <1>2, <3>2, <3>3, <3>4, <3>5
  <2> QED BY <2>2, <2>3 DEF Cut
<1> QED BY <1>1, <1>3, <1>4

----------------------------------------------------------------------------
(* The loop.                                                                *)

(* While it runs, the instances of the first n periods that it has looked   *)
(* at are the earlier ones, and it has kept all that follow DTSTART.        *)
Walked(pend, kept, n) ==
    /\ rule.freq # "NONE" /\ n \in Nat
    /\ pend \in SUBSET Found(n)
    /\ \A v \in pend : \A w \in Found(n) : w \in pend \/ w < v
    /\ kept = {StartWall} \cup {w \in Found(n) : w \notin pend /\ w > StartWall}
    /\ \A w \in kept : w = StartWall \/ ~Cut(w)
    /\ IsFiniteSet(kept)

Running(pend, kept, n) ==
    Walked(pend, kept, n) /\ (rule.count # 0 => Cardinality(kept) < rule.count)

(* When it is done it has kept the first ones, COUNT of them or all.        *)
Complete(kept) ==
    /\ IsFiniteSet(kept) /\ kept \in SUBSET SeriesWalls
    /\ \A v \in kept : \A w \in SeriesWalls : w \in kept \/ v < w
    /\ rule.count = 0 => kept = SeriesWalls
    /\ rule.count # 0 => /\ Cardinality(kept) <= rule.count
                         /\ kept = SeriesWalls \/ Cardinality(kept) = rule.count

(* The walk keeps what belongs to the series.                               *)
LEMMA KeptIsOfTheSeries ==
  ASSUME input \in Case, NEW pend, NEW kept, NEW n, Walked(pend, kept, n)
  PROVE  kept \in SUBSET SeriesWalls
<1> SUFFICES ASSUME NEW w \in kept, w # StartWall PROVE w \in SeriesWalls BY DEF SeriesWalls
<1>1. w \in Found(n) /\ w > StartWall /\ ~Cut(w) BY DEF Walked
<1>2. \E p \in Nat : w \in Walls(p)
  <2>1. rule.freq # "NONE" /\ n \in Nat BY DEF Walked
  <2> QED BY <1>1, <2>1, FoundWalls
<1> QED BY <1>1, <1>2 DEF SeriesWalls

(* And leaves out only what is later.                                       *)
LEMMA LeftOut ==
  ASSUME input \in Case, NEW pend, NEW kept, NEW n, Walked(pend, kept, n),
         NEW w \in SeriesWalls, w \notin kept
  PROVE  /\ OfHour(w) /\ w > StartWall /\ ~Cut(w)
         /\ w \in pend \/ \E p \in Nat : n <= p /\ w \in Walls(p)
         /\ \A v \in Found(n) : v \in pend \/ v < w
<1>0. rule.freq # "NONE" /\ n \in Nat BY DEF Walked
<1>1. PICK p \in Nat : w \in Walls(p) /\ w > StartWall /\ ~Cut(w) BY DEF SeriesWalls, Walked
<1>2. OfHour(w) BY <1>0, <1>1, WallsOfPeriods
<1>3. CASE n <= p
  <2>1. ASSUME NEW v \in Found(n) PROVE v < w
    <3>1. PICK q \in Nat : q < n /\ v \in Walls(q) BY <1>0, FoundWalls
    <3>2. q < p BY <1>0, <1>3, <3>1
    <3> QED BY <1>0, <1>1, <3>1, <3>2, WallsInOrder
  <2> QED BY <1>1, <1>2, <1>3, <2>1
<1>4. CASE ~(n <= p)
  <2>1. p \in 0..(n - 1) BY <1>0, <1>4
  <2>2. w \in Found(n) BY <1>1, <2>1 DEF Found
  <2>3. w \in pend BY <1>1, <2>2 DEF Walked
  <2>4. \A v \in Found(n) : v \in pend \/ v < w BY <2>3 DEF Walked
  <2> QED BY <1>1, <1>2, <2>3, <2>4
<1> QED BY <1>3, <1>4

(* The first of the instances still to be looked at.                        *)
LEMMA FirstPending ==
  ASSUME input \in Case, NEW pend, NEW kept, NEW n, Walked(pend, kept, n), pend # {}
  PROVE  /\ Earliest(pend) \in pend /\ \A v \in pend : Earliest(pend) <= v
         /\ OfHour(Earliest(pend)) /\ Earliest(pend) \in Int
         /\ \A w \in Found(n) : w \in pend \ {Earliest(pend)} \/ w <= Earliest(pend)
<1>0. rule.freq # "NONE" /\ n \in Nat BY DEF Walked
<1>1. \A v \in pend : v \in Int /\ OfHour(v) /\ PeriodStart(0) * 24 <= v
  BY <1>0, FoundWalls DEF Walked
<1>2. PeriodStart(0) * 24 \in Int
  <2>1. 0 \in Nat OBVIOUS
  <2>2. PeriodStart(0) \in Int BY <1>0, <2>1, PeriodsHold DEF PeriodHolds
  <2> QED BY <2>2
<1>3. Earliest(pend) \in pend /\ \A v \in pend : Earliest(pend) <= v
  <2>1. pend \in SUBSET Int BY <1>1
  <2> QED BY <1>1, <1>2, <2>1, EarliestOne
<1> DEFINE e == Earliest(pend)
<1> HIDE DEF e
<1>4. e \in pend /\ \A v \in pend : e <= v BY <1>3 DEF e
<1>5. e \in Int /\ OfHour(e) BY <1>1, <1>4
<1>6. \A w \in Found(n) : w \in pend \ {e} \/ w <= e
  <2> TAKE w \in Found(n)
  <2>1. w \in pend \/ w < e BY <1>4 DEF Walked
  <2>2. w \in Int BY <1>0, FoundWalls
  <2> QED BY <1>5, <2>1, <2>2
<1> QED BY <1>4, <1>5, <1>6 DEF e

(* No later period begins in the window: nothing is missing.                *)
LEMMA CompleteBeyondWindow ==
  ASSUME input \in Case, NEW kept, NEW n, Running({}, kept, n), PeriodStart(n) * 24 > WallBound
  PROVE  Complete(kept)
<1>0. rule.freq # "NONE" /\ n \in Nat BY DEF Running, Walked
<1>1. kept \in SUBSET SeriesWalls BY KeptIsOfTheSeries DEF Running
<1>2. ASSUME NEW w \in SeriesWalls, w \notin kept PROVE FALSE
  <2>1. ~Cut(w) /\ \E p \in Nat : n <= p /\ w \in Walls(p) BY <1>2, LeftOut DEF Running
  <2>2. PICK p \in Nat : n <= p /\ w \in Walls(p) BY <2>1
  <2>3. w \in Int /\ PeriodStart(p) * 24 <= w BY <1>0, <2>2, WallsOfPeriods
  <2>4. PeriodStart(n) \in Int /\ PeriodStart(p) \in Int /\ PeriodStart(n) <= PeriodStart(p)
    BY <1>0, <2>2, PeriodStarts
  <2>5. WallBound \in Int BY InputTypes DEF WallBound
  <2>6. w > WallBound BY <2>3, <2>4, <2>5
  <2> QED BY <2>1, <2>6 DEF Cut
<1>3. kept = SeriesWalls BY <1>1, <1>2
<1>4. IsFiniteSet(kept) /\ (rule.count # 0 => Cardinality(kept) < rule.count) BY DEF Running, Walked
<1>5. rule.count # 0 => Cardinality(kept) <= rule.count
  <2>1. Cardinality(kept) \in Int /\ rule.count \in Int BY <1>4, FS_CardinalityType, InputTypes
  <2> QED BY <1>4, <2>1
<1> QED BY <1>3, <1>4, <1>5 DEF Complete

(* The first instance that is cut ends the series.                          *)
LEMMA CompleteAtCut ==
  ASSUME input \in Case, NEW pend, NEW kept, NEW n, Running(pend, kept, n), pend # {},
         Cut(Earliest(pend))
  PROVE  Complete(kept)
<1> DEFINE e == Earliest(pend)
<1>0. rule.freq # "NONE" /\ n \in Nat /\ pend \in SUBSET Found(n) BY DEF Running, Walked
<1>1. kept \in SUBSET SeriesWalls BY KeptIsOfTheSeries DEF Running
<1>2. e \in pend /\ OfHour(e) /\ e \in Int /\ Cut(e) /\ \A v \in pend : e <= v BY FirstPending DEF Running
<1> HIDE DEF e
<1>3. ASSUME NEW w \in SeriesWalls, w \notin kept PROVE FALSE
  <2>1. OfHour(w) /\ ~Cut(w) /\ (w \in pend \/ \E p \in Nat : n <= p /\ w \in Walls(p))
    BY <1>3, LeftOut DEF Running
  <2>2. e <= w
    <3>1. CASE w \in pend BY <1>2, <3>1
    <3>2. CASE w \notin pend
      <4>1. PICK p \in Nat : n <= p /\ w \in Walls(p) BY <2>1, <3>2
      <4>2. PICK q \in Nat : q < n /\ e \in Walls(q) BY <1>0, <1>2, FoundWalls
      <4>3. q < p BY <1>0, <4>1, <4>2
      <4>4. e < w BY <1>0, <4>1, <4>2, <4>3, WallsInOrder
      <4>5. w \in Int BY <2>1 DEF OfHour
      <4> QED BY <1>2, <4>4, <4>5
    <3> QED BY <3>1, <3>2
  <2>3. Cut(w) BY <1>2, <2>1, <2>2, CutGoesOn
  <2> QED BY <2>1, <2>3
<1>4. kept = SeriesWalls BY <1>1, <1>3
<1>5. IsFiniteSet(kept) /\ (rule.count # 0 => Cardinality(kept) < rule.count) BY DEF Running, Walked
<1>6. rule.count # 0 => Cardinality(kept) <= rule.count
  <2>1. Cardinality(kept) \in Int /\ rule.count \in Int BY <1>5, FS_CardinalityType, InputTypes
  <2> QED BY <1>5, <2>1
<1> QED BY <1>4, <1>5, <1>6 DEF Complete

(* An instance is looked at: it is kept if it follows DTSTART.              *)
LEMMA InstanceLookedAt ==
  ASSUME input \in Case, NEW pend, NEW kept, NEW n, Walked(pend, kept, n), pend # {},
         Earliest(pend) <= StartWall \/ ~Cut(Earliest(pend))
  PROVE  LET e == Earliest(pend)
         IN Walked(pend \ {e}, IF e <= StartWall THEN kept ELSE kept \cup {e}, n)
<1> DEFINE e == Earliest(pend)
           now == IF e <= StartWall THEN kept ELSE kept \cup {e}
           left == pend \ {e}
<1>0. rule.freq # "NONE" /\ n \in Nat /\ pend \in SUBSET Found(n) BY DEF Walked
<1>1. /\ e \in pend /\ OfHour(e) /\ e \in Int /\ \A v \in pend : e <= v
      /\ \A w \in Found(n) : w \in left \/ w <= e
  BY FirstPending
<1>2. e <= StartWall \/ ~Cut(e) OBVIOUS
<1> HIDE DEF e
<1>3. StartWall \in Int BY FirstWall
<1>4. \A w \in Found(n) : w \in Int BY <1>0, FoundWalls
<1>5. left \in SUBSET Found(n) BY <1>0
<1>6. \A v \in left : \A w \in Found(n) : w \in left \/ w < v
  <2> TAKE v \in left
  <2> TAKE w \in Found(n)
  <2> SUFFICES ASSUME w \notin left PROVE w < v OBVIOUS
  <2>1. w <= e /\ e <= v /\ e # v BY <1>1
  <2>2. w \in Int /\ v \in Int BY <1>0, <1>4
  <2> QED BY <1>1, <2>1, <2>2
<1>7. now = {StartWall} \cup {w \in Found(n) : w \notin left /\ w > StartWall}
  <2>1. kept = {StartWall} \cup {w \in Found(n) : w \notin pend /\ w > StartWall} BY DEF Walked
  <2>2. e \in Found(n) BY <1>0, <1>1
  <2>3. CASE e <= StartWall
    <3>1. ~(e > StartWall) BY <1>1, <1>3, <2>3
    <3> QED BY <1>1, <2>1, <2>3, <3>1
  <2>4. CASE ~(e <= StartWall)
    <3>1. e > StartWall BY <1>1, <1>3, <2>4
    <3> QED BY <1>1, <2>1, <2>2, <2>4, <3>1
  <2> QED BY <2>3, <2>4
<1>8. \A w \in now : w = StartWall \/ ~Cut(w)
  <2>1. \A w \in kept : w = StartWall \/ ~Cut(w) BY DEF Walked
  <2> QED BY <1>2, <2>1
<1>9. IsFiniteSet(now)
  <2>1. IsFiniteSet(kept) BY DEF Walked
  <2>2. IsFiniteSet(kept \cup {e}) BY <2>1, FS_AddElement
  <2> QED BY <2>1, <2>2
<1> HIDE DEF now, left
<1>10. Walked(left, now, n) BY <1>0, <1>5, <1>6, <1>7, <1>8, <1>9 DEF Walked
<1> QED BY <1>10 DEF e, now, left

(* One more instance is at most one more.                                   *)
LEMMA OneMore ==
  ASSUME NEW kept, NEW e, IsFiniteSet(kept)
  PROVE  /\ Cardinality(kept) \in Nat /\ Cardinality(kept \cup {e}) \in Nat
         /\ Cardinality(kept \cup {e}) <= Cardinality(kept) + 1
<1>1. Cardinality(kept) \in Nat BY FS_CardinalityType
<1>2. Cardinality(kept \cup {e}) = IF e \in kept THEN Cardinality(kept) ELSE Cardinality(kept) + 1
  BY FS_AddElement
<1> QED BY <1>1, <1>2

(* COUNT instances end the series.                                          *)
LEMMA CompleteAtCount ==
  ASSUME input \in Case, NEW pend, NEW kept, NEW n, Walked(pend, kept, n),
         rule.count # 0, Cardinality(kept) = rule.count
  PROVE  Complete(kept)
<1>1. kept \in SUBSET SeriesWalls BY KeptIsOfTheSeries
<1>2. ASSUME NEW v \in kept, NEW w \in SeriesWalls, w \notin kept PROVE v < w
  <2>1. OfHour(w) /\ w > StartWall /\ \A u \in Found(n) : u \in pend \/ u < w BY <1>2, LeftOut
  <2>2. v = StartWall \/ (v \in Found(n) /\ v \notin pend) BY DEF Walked
  <2>3. w \in Int /\ StartWall \in Int BY <2>1, FirstWall DEF OfHour
  <2> QED BY <2>1, <2>2, <2>3
<1>3. IsFiniteSet(kept) BY DEF Walked
<1>4. Cardinality(kept) <= rule.count
  <2>1. rule.count \in Int BY InputTypes
  <2> QED BY <2>1
<1> QED BY <1>1, <1>2, <1>3, <1>4 DEF Complete

(* A period is started.                                                     *)
LEMMA PeriodStarted ==
  ASSUME input \in Case, NEW kept, NEW n, Walked({}, kept, n)
  PROVE  Walked(Walls(n), kept, n + 1)
<1>0. rule.freq # "NONE" /\ n \in Nat /\ n + 1 \in Nat BY DEF Walked
<1>1. Found(n + 1) = Found(n) \cup Walls(n)
  <2>1. 0..((n + 1) - 1) = (0..(n - 1)) \cup {n} BY <1>0
  <2> QED BY <2>1 DEF Found
<1>2. \A w \in Found(n) : \A v \in Walls(n) : w < v
  <2> TAKE w \in Found(n)
  <2> TAKE v \in Walls(n)
  <2>1. PICK p \in Nat : p < n /\ w \in Walls(p) BY <1>0, FoundWalls
  <2> QED BY <1>0, <2>1, WallsInOrder
<1>3. \A w \in Found(n) : w \notin Walls(n)
  <2>1. \A w \in Found(n) : w \in Int BY <1>0, FoundWalls
  <2> QED BY <1>2, <2>1
<1>4. kept = {StartWall} \cup {w \in Found(n) : w \notin {} /\ w > StartWall} BY DEF Walked
<1>5. kept = {StartWall} \cup {w \in Found(n + 1) : w \notin Walls(n) /\ w > StartWall}
  BY <1>1, <1>3, <1>4
<1>6. IsFiniteSet(kept) /\ \A w \in kept : w = StartWall \/ ~Cut(w) BY DEF Walked
<1> QED BY <1>0, <1>1, <1>2, <1>5, <1>6 DEF Walked

(* Before the first period only DTSTART is kept.                            *)
LEMMA NothingWalked ==
  ASSUME input \in Case, rule.freq # "NONE"
  PROVE  Walked({}, {StartWall}, 0) /\ IsFiniteSet({StartWall}) /\ Cardinality({StartWall}) = 1
<1>1. Found(0) = {}
  <2>1. 0..(0 - 1) = {} OBVIOUS
  <2> QED BY <2>1 DEF Found
<1>2. IsFiniteSet({StartWall}) /\ Cardinality({StartWall}) = 1 BY FS_Singleton
<1> QED BY <1>1, <1>2 DEF Walked

----------------------------------------------------------------------------
(* No step changes the input, nor what is read from it.                     *)

LEMMA SameMonth ==
  ASSUME input' = input, NEW i
  PROVE  ExpandMonthDays(i)' = ExpandMonthDays(i)
BY DEF ExpandMonthDays, rule

LEMMA SameCandidates ==
  ASSUME input' = input, NEW p
  PROVE  CandidatesForPeriod(p)' = CandidatesForPeriod(p)
<1>1. Daily(p)' = Daily(p) BY DEF Daily, InMonth, MatchesMonthDay, rule
<1>2. Weekly(p)' = Weekly(p) BY DEF Weekly, InMonth, StartOfWeek, rule
<1>3. Monthly(p)' = Monthly(p) BY SameMonth DEF Monthly, rule
<1>4. Yearly(p)' = Yearly(p)
  <2>1. \A i : ExpandMonthDays(i)' = ExpandMonthDays(i) BY SameMonth
  <2> QED BY <2>1 DEF Yearly, rule
<1> QED BY <1>1, <1>2, <1>3, <1>4 DEF CandidatesForPeriod, rule

LEMMA SamePeriods ==
  ASSUME input' = input, NEW p
  PROVE  PeriodDays(p)' = PeriodDays(p) /\ PeriodStart(p)' = PeriodStart(p) /\ Walls(p)' = Walls(p)
<1>1. \A days : ApplySetPos(days)' = ApplySetPos(days) BY DEF ApplySetPos, rule
<1>2. PeriodDays(p)' = PeriodDays(p) BY <1>1, SameCandidates DEF PeriodDays, Candidates
<1>3. PeriodStart(p)' = PeriodStart(p) BY SameCandidates DEF PeriodStart
<1>4. Walls(p)' = Walls(p) BY <1>2 DEF Walls
<1> QED BY <1>2, <1>3, <1>4

LEMMA SameWalls ==
  ASSUME input' = input
  PROVE  /\ StartWall' = StartWall /\ WallBound' = WallBound /\ SeriesWalls' = SeriesWalls
         /\ \A n : Found(n)' = Found(n)
         /\ \A w : (Cut(w)' <=> Cut(w)) /\ ToUtc(w)' = ToUtc(w)
<1>1. StartWall' = StartWall /\ WallBound' = WallBound BY DEF StartWall, WallBound
<1>2. \A p : Walls(p)' = Walls(p) BY SamePeriods
<1>3. \A n : Found(n)' = Found(n) BY <1>2 DEF Found
<1>4. \A w : ToUtc(w)' = ToUtc(w) BY DEF ToUtc
<1>5. \A w : ExceedsUntil(w)' <=> ExceedsUntil(w) BY <1>4 DEF ExceedsUntil, rule
<1>6. \A w : Cut(w)' <=> Cut(w) BY <1>1, <1>5 DEF Cut
<1>7. SeriesWalls' = SeriesWalls BY <1>1, <1>2, <1>6 DEF SeriesWalls
<1> QED BY <1>1, <1>3, <1>4, <1>6, <1>7

LEMMA SameWalk ==
  ASSUME input' = input
  PROVE  /\ \A pend, kept, n : Running(pend, kept, n)' <=> Running(pend, kept, n)
         /\ \A kept : Complete(kept)' <=> Complete(kept)
<1>1. /\ StartWall' = StartWall /\ SeriesWalls' = SeriesWalls /\ \A n : Found(n)' = Found(n)
      /\ \A w : Cut(w)' <=> Cut(w)
  BY SameWalls
<1>2. ASSUME NEW pend, NEW kept, NEW n PROVE Running(pend, kept, n)' <=> Running(pend, kept, n)
  BY <1>1 DEF Running, Walked, rule
<1>3. ASSUME NEW kept PROVE Complete(kept)' <=> Complete(kept)
  BY <1>1 DEF Complete, rule
<1> QED BY <1>2, <1>3

----------------------------------------------------------------------------
(* The invariant of the loop.                                               *)

TypeOK ==
    /\ input \in Case /\ period \in Nat /\ iterations \in Nat
    /\ status \in {"running", "done", "failed", "returned"}

LoopInv ==
    /\ TypeOK
    /\ status = "running" => Running(pending, results, period)
    /\ status \in {"done", "returned"} =>
          IF rule.freq = "NONE" THEN results = {StartWall} ELSE Complete(results)
    /\ status = "returned" => occurrences = Collect

LEMMA InitLoop == Init => LoopInv
<1> SUFFICES ASSUME Init PROVE LoopInv OBVIOUS
<1>1. TypeOK BY DEF Init, TypeOK
<1>2. input \in Case /\ results = {StartWall} /\ period = 0 /\ pending = {} BY DEF Init
<1>3. rule.count \in Nat BY <1>2, InputTypes
<1>4. ASSUME status = "running" PROVE Running(pending, results, period)
  <2>1. rule.freq # "NONE" /\ rule.count # 1 BY <1>4 DEF Init
  <2>2. Walked({}, {StartWall}, 0) /\ Cardinality({StartWall}) = 1 BY <1>2, <2>1, NothingWalked
  <2> QED BY <1>2, <1>3, <2>1, <2>2 DEF Running
<1>5. ASSUME status = "done", rule.freq # "NONE" PROVE Complete(results)
  <2>1. rule.count = 1 BY <1>5 DEF Init
  <2>2. Walked({}, {StartWall}, 0) /\ Cardinality({StartWall}) = 1 BY <1>2, <1>5, NothingWalked
  <2> QED BY <1>2, <2>1, <2>2, CompleteAtCount
<1>6. status # "returned" BY DEF Init
<1> QED BY <1>1, <1>2, <1>4, <1>5, <1>6 DEF LoopInv

(* Each step of the loop keeps it.                                          *)
LEMMA StartPeriodLoop ==
  ASSUME LoopInv, StartPeriod
  PROVE  LoopInv'
<1>1. /\ status = "running" /\ pending = {} /\ input' = input /\ results' = results
      /\ iterations' = iterations + 1
      /\ IF PeriodStart(period) * 24 > WallBound
         THEN status' = "done" /\ period' = period
         ELSE pending' = Walls(period) /\ period' = period + 1 /\ status' = status
  BY DEF StartPeriod, Iterate, PeriodStart, Walls, PeriodDays, Candidates
<1>2. TypeOK /\ Running({}, results, period) BY <1>1 DEF LoopInv
<1>3. TypeOK' BY <1>1, <1>2 DEF TypeOK
<1>4. rule' = rule BY <1>1 DEF rule
<1>5. rule.freq # "NONE" BY <1>2 DEF Running, Walked
<1>6. input \in Case BY <1>2 DEF TypeOK
<1>7. CASE PeriodStart(period) * 24 > WallBound
  <2>1. Complete(results) BY <1>2, <1>6, <1>7, CompleteBeyondWindow
  <2>2. Complete(results)' BY <1>1, <2>1, SameWalk
  <2>3. status' = "done" BY <1>1, <1>7
  <2> QED BY <1>3, <1>4, <1>5, <2>2, <2>3 DEF LoopInv
<1>8. CASE ~(PeriodStart(period) * 24 > WallBound)
  <2>1. pending' = Walls(period) /\ period' = period + 1 /\ status' = "running" BY <1>1, <1>8
  <2>2. Running(pending', results', period') BY <1>1, <1>2, <1>6, <2>1, PeriodStarted DEF Running
  <2>3. Running(pending, results, period)' BY <1>1, <2>2, SameWalk
  <2> QED BY <1>3, <2>1, <2>3 DEF LoopInv
<1> QED BY <1>7, <1>8

LEMMA TakeInstanceLoop ==
  ASSUME LoopInv, TakeInstance
  PROVE  LoopInv'
<1> DEFINE e == Earliest(pending)
<1>1. /\ status = "running" /\ pending # {} /\ input' = input /\ period' = period
      /\ iterations' = iterations + 1 /\ pending' = pending \ {e}
      /\ IF e <= StartWall THEN results' = results /\ status' = status
         ELSE IF Cut(e) THEN status' = "done" /\ results' = results
         ELSE /\ results' = results \cup {e}
              /\ status' = IF rule.count # 0 /\ Cardinality(results') >= rule.count THEN "done" ELSE "running"
  BY DEF TakeInstance, Iterate, Cut
<1>2. TypeOK /\ Running(pending, results, period) /\ Walked(pending, results, period)
  BY <1>1 DEF LoopInv, Running
<1>3. TypeOK'
  <2>1. status' \in {"running", "done"} BY <1>1
  <2> QED BY <1>1, <1>2, <2>1 DEF TypeOK
<1>4. rule' = rule BY <1>1 DEF rule
<1>5. rule.freq # "NONE" BY <1>2 DEF Walked
<1>6. input \in Case /\ rule.count \in Nat BY <1>2, InputTypes DEF TypeOK
<1>7. CASE e <= StartWall
  <2>1. Walked(pending \ {e}, results, period) BY <1>1, <1>2, <1>6, <1>7, InstanceLookedAt
  <2>2. Running(pending', results', period') BY <1>1, <1>2, <1>7, <2>1 DEF Running
  <2>3. Running(pending, results, period)' BY <1>1, <2>2, SameWalk
  <2>4. status' = "running" BY <1>1, <1>7
  <2> QED BY <1>3, <2>3, <2>4 DEF LoopInv
<1>8. CASE ~(e <= StartWall) /\ Cut(e)
  <2>1. Complete(results) BY <1>1, <1>2, <1>6, <1>8, CompleteAtCut
  <2>2. Complete(results)' BY <1>1, <1>8, <2>1, SameWalk
  <2>3. status' = "done" BY <1>1, <1>8
  <2> QED BY <1>3, <1>4, <1>5, <2>2, <2>3 DEF LoopInv
<1>9. CASE ~(e <= StartWall) /\ ~Cut(e)
  <2> DEFINE now == results \cup {e}
  <2>1. Walked(pending \ {e}, now, period) BY <1>1, <1>2, <1>6, <1>9, InstanceLookedAt
  <2>2. results' = now
        /\ status' = IF rule.count # 0 /\ Cardinality(now) >= rule.count THEN "done" ELSE "running"
    BY <1>1, <1>9
  <2>3. /\ Cardinality(results) \in Nat /\ Cardinality(now) \in Nat
        /\ Cardinality(now) <= Cardinality(results) + 1
    <3>1. IsFiniteSet(results) BY <1>2 DEF Walked
    <3> QED BY <3>1, OneMore
  <2>4. rule.count # 0 => Cardinality(results) < rule.count BY <1>2 DEF Running
  <2> HIDE DEF now, e
  <2>5. CASE rule.count # 0 /\ Cardinality(now) >= rule.count
    <3>1. Cardinality(now) = rule.count BY <1>6, <2>3, <2>4, <2>5
    <3>2. Complete(now) BY <1>6, <2>1, <2>5, <3>1, CompleteAtCount
    <3>3. Complete(results)' BY <1>1, <2>2, <3>2, SameWalk
    <3>4. status' = "done" BY <2>2, <2>5
    <3> QED BY <1>3, <1>4, <1>5, <3>3, <3>4 DEF LoopInv
  <2>6. CASE ~(rule.count # 0 /\ Cardinality(now) >= rule.count)
    <3>1. rule.count # 0 => Cardinality(now) < rule.count BY <1>6, <2>3, <2>6
    <3>2. Running(pending', results', period') BY <1>1, <2>1, <2>2, <3>1 DEF Running
    <3>3. Running(pending, results, period)' BY <1>1, <3>2, SameWalk
    <3>4. status' = "running" BY <2>2, <2>6
    <3> QED BY <1>3, <3>3, <3>4 DEF LoopInv
  <2> QED BY <2>5, <2>6
<1> QED BY <1>7, <1>8, <1>9

LEMMA NextLoop == LoopInv /\ [Next]_vars => LoopInv'
<1> SUFFICES ASSUME LoopInv, [Next]_vars PROVE LoopInv' OBVIOUS
<1>1. CASE StartPeriod BY <1>1, StartPeriodLoop
<1>2. CASE TakeInstance BY <1>2, TakeInstanceLoop
<1>3. CASE GiveUp
  <2>1. TypeOK' BY <1>3 DEF GiveUp, LoopInv, TypeOK
  <2>2. status' = "failed" BY <1>3 DEF GiveUp
  <2> QED BY <2>1, <2>2 DEF LoopInv
<1>4. CASE Return
  <2>1. /\ status = "done" /\ status' = "returned" /\ input' = input /\ results' = results
        /\ period' = period /\ iterations' = iterations /\ occurrences' = Collect
    BY <1>4 DEF Return
  <2>2. TypeOK' BY <2>1 DEF LoopInv, TypeOK
  <2>3. rule' = rule /\ StartWall' = StartWall BY <2>1, SameWalls DEF rule
  <2>4. IF rule.freq = "NONE" THEN results = {StartWall} ELSE Complete(results) BY <2>1 DEF LoopInv
  <2>5. (IF rule.freq = "NONE" THEN results = {StartWall} ELSE Complete(results))'
    BY <2>1, <2>3, <2>4, SameWalk
  <2>6. Collect' = Collect
    <3>1. \A w : ToUtc(w)' = ToUtc(w) BY <2>1, SameWalls
    <3> QED BY <2>1, <3>1 DEF Collect, InWindow, FirstOf
  <2> QED BY <2>1, <2>2, <2>5, <2>6 DEF LoopInv
<1>5. CASE UNCHANGED vars
  <2>1. /\ status' = status /\ input' = input /\ results' = results /\ pending' = pending
        /\ period' = period /\ iterations' = iterations /\ occurrences' = occurrences
    BY <1>5 DEF vars
  <2>2. TypeOK' BY <2>1 DEF LoopInv, TypeOK
  <2>3. rule' = rule /\ StartWall' = StartWall BY <2>1, SameWalls DEF rule
  <2>4. Collect' = Collect
    <3>1. \A w : ToUtc(w)' = ToUtc(w) BY <2>1, SameWalls
    <3> QED BY <2>1, <3>1 DEF Collect, InWindow, FirstOf
  <2>5. Running(pending, results, period)' <=> Running(pending, results, period) BY <2>1, SameWalk
  <2>6. Complete(results)' <=> Complete(results) BY <2>1, SameWalk
  <2> QED BY <2>1, <2>2, <2>3, <2>4, <2>5, <2>6 DEF LoopInv
<1> QED BY <1>1, <1>2, <1>3, <1>4, <1>5 DEF Next

----------------------------------------------------------------------------
(* What is kept, and the series.                                            *)

LEMMA SeriesWallFacts ==
  ASSUME input \in Case, rule.freq # "NONE"
  PROVE  /\ \A w \in SeriesWalls : w \in Int /\ OfHour(w) /\ w >= StartWall
         /\ IsFiniteSet(SeriesWalls)
<1>1. StartWall \in Int /\ OfHour(StartWall) BY FirstWall
<1>2. ASSUME NEW w \in SeriesWalls
      PROVE  w \in Int /\ OfHour(w) /\ w >= StartWall /\ (w = StartWall \/ w <= WallBound)
  <2>1. CASE w = StartWall BY <1>1, <2>1
  <2>2. CASE w # StartWall
    <3>1. PICK p \in Nat : w \in Walls(p) /\ w > StartWall /\ ~Cut(w) BY <2>2 DEF SeriesWalls
    <3>2. w \in Int /\ OfHour(w) BY <3>1, WallsOfPeriods
    <3>3. ~(w > WallBound) /\ WallBound \in Int BY <3>1, InputTypes DEF Cut, WallBound
    <3> QED BY <1>1, <3>1, <3>2, <3>3
  <2> QED BY <2>1, <2>2
<1>3. SeriesWalls \in SUBSET ((StartWall..WallBound) \cup {StartWall})
  <2>1. WallBound \in Int BY InputTypes DEF WallBound
  <2> QED BY <1>1, <1>2, <2>1
<1>4. IsFiniteSet((StartWall..WallBound) \cup {StartWall})
  <2>1. WallBound \in Int BY InputTypes DEF WallBound
  <2>2. IsFiniteSet(StartWall..WallBound) BY <1>1, <2>1, FS_Interval
  <2> QED BY <2>2, FS_AddElement
<1> QED BY <1>2, <1>3, <1>4, FS_Subset

(* The walk counts as COUNT does.                                           *)
LEMMA CompleteIsFirst ==
  ASSUME input \in Case, rule.freq # "NONE", NEW kept, Complete(kept), rule.count # 0,
         NEW w \in SeriesWalls
  PROVE  w \in kept <=> Cardinality({u \in SeriesWalls : u < w}) < rule.count
<1> DEFINE before == {u \in SeriesWalls : u < w}
<1>1. /\ IsFiniteSet(SeriesWalls) /\ IsFiniteSet(kept) /\ rule.count \in Nat
      /\ \A u \in SeriesWalls : u \in Int
  BY SeriesWallFacts, InputTypes DEF Complete
<1>2. before \in SUBSET SeriesWalls /\ IsFiniteSet(before)
  <2>1. before \in SUBSET SeriesWalls OBVIOUS
  <2> QED BY <1>1, <2>1, FS_Subset
<1>3. Cardinality(before) \in Nat /\ Cardinality(kept) \in Nat BY <1>1, <1>2, FS_CardinalityType
<1>4. kept \in SUBSET SeriesWalls /\ Cardinality(kept) <= rule.count
      /\ (kept = SeriesWalls \/ Cardinality(kept) = rule.count)
      /\ \A v \in kept : \A u \in SeriesWalls : u \in kept \/ v < u
  BY DEF Complete
<1>5. ASSUME w \in kept PROVE Cardinality(before) < rule.count
  <2>1. before \in SUBSET (kept \ {w})
    <3> SUFFICES ASSUME NEW u \in before PROVE u \in kept /\ u # w OBVIOUS
    <3>1. u \in SeriesWalls /\ u < w OBVIOUS
    <3>2. u \in Int /\ w \in Int BY <1>1, <3>1
    <3>3. u \in kept \/ w < u BY <1>4, <1>5, <3>1
    <3> QED BY <3>1, <3>2, <3>3
  <2>2. IsFiniteSet(kept \ {w}) /\ Cardinality(kept \ {w}) = Cardinality(kept) - 1
    BY <1>1, <1>5, FS_RemoveElement
  <2>3. Cardinality(before) <= Cardinality(kept \ {w}) BY <2>1, <2>2, FS_Subset
  <2> HIDE DEF before
  <2> QED BY <1>1, <1>3, <1>4, <2>2, <2>3
<1>6. ASSUME w \notin kept PROVE ~(Cardinality(before) < rule.count)
  <2>1. Cardinality(kept) = rule.count BY <1>4, <1>6
  <2>2. kept \in SUBSET before BY <1>4, <1>6
  <2>3. Cardinality(kept) <= Cardinality(before) BY <1>2, <2>2, FS_Subset
  <2> HIDE DEF before
  <2> QED BY <1>1, <1>3, <2>1, <2>3
<1> QED BY <1>5, <1>6

(* The wall clocks of the series, as Series has them.                       *)
Until(wall) ==
    wall = StartWall \/
      CASE rule.until.kind = "none" -> TRUE
        [] rule.until.kind = "wall" -> wall <= rule.until.at
        [] rule.until.kind = "date" -> wall \div 24 <= rule.until.at
        [] rule.until.kind = "utc" -> Instant(wall) <= rule.until.at

ClockedDays == {d * 24 + input.hour : d \in SeriesDays}
RuleWalls == {w \in ClockedDays : Until(w)}
CountedWalls == IF rule.count = 0 THEN RuleWalls ELSE FirstOf(RuleWalls, rule.count)

LEMMA SeriesOfWalls ==
  ASSUME rule.freq # "NONE"
  PROVE  Series = {Instant(w) : w \in CountedWalls}
BY DEF Series, CountedWalls, RuleWalls, ClockedDays, Until

(* UNTIL is the same test from either side.                                 *)
LEMMA UntilIsNotExceeded ==
  ASSUME input \in Case, NEW w \in Int
  PROVE  Until(w) <=> w = StartWall \/ ~ExceedsUntil(w)
<1>1. rule.until.at \in Int /\ rule.until.kind \in {"none", "wall", "date", "utc"} BY InputTypes
<1>2. CASE rule.until.kind = "none" BY <1>2 DEF Until, ExceedsUntil
<1>3. CASE rule.until.kind = "wall"
  <2>1. w <= rule.until.at <=> ~(w > rule.until.at) BY <1>1
  <2> QED BY <1>3, <2>1 DEF Until, ExceedsUntil
<1>4. CASE rule.until.kind = "date"
  <2> DEFINE a == rule.until.at
  <2>1. a \in Int BY <1>1
  <2> HIDE DEF a
  <2>2. w \div 24 <= a <=> ~(w >= (a + 1) * 24) BY <2>1
  <2> QED BY <1>4, <2>2 DEF Until, ExceedsUntil, a
<1>5. CASE rule.until.kind = "utc"
  <2>1. ToUtc(w) = Instant(w) /\ Instant(w) \in Int BY InstantsOfWallClocks
  <2>2. Instant(w) <= rule.until.at <=> ~(Instant(w) > rule.until.at) BY <1>1, <2>1
  <2> QED BY <1>5, <2>1, <2>2 DEF Until, ExceedsUntil
<1> QED BY <1>1, <1>2, <1>3, <1>4, <1>5

(* The days of the series do not precede DTSTART.                           *)
LEMMA SeriesDayFacts ==
  ASSUME input \in Case
  PROVE  input.day \in SeriesDays /\ \A d \in SeriesDays : d \in Nat /\ (d = input.day \/ input.day < d)
<1>1. input.day \in Nat BY InputTypes
<1>2. input.day \in SeriesDays BY DEF SeriesDays
<1>3. ASSUME NEW d \in SeriesDays PROVE d = input.day \/ (d \in Nat /\ input.day < d)
  <2>1. ASSUME NEW n \in Int, NEW e \in 0..n PROVE e \in Nat OBVIOUS
  <2>2. (input.to \div 24) + (IF rule.freq = "YEARLY" THEN 366 ELSE 31) \in Int BY InputTypes
  <2>3. d = input.day \/ (d \in 0..((input.to \div 24) + (IF rule.freq = "YEARLY" THEN 366 ELSE 31)) /\ d > input.day)
    BY DEF SeriesDays
  <2>4. d = input.day \/ (d \in Nat /\ d > input.day) BY <2>1, <2>2, <2>3
  <2> QED BY <1>1, <2>4
<1> QED BY <1>1, <1>2, <1>3

(* Where an instant may be in the window, both agree.                       *)
LEMMA RuleWallsAreSeriesWalls ==
  ASSUME input \in Case, rule.freq # "NONE", NEW w \in Int, w <= input.to + 14
  PROVE  w \in RuleWalls <=> w \in SeriesWalls
<1>1. input.day \in Nat /\ input.hour \in 0..23 /\ input.to \in Int BY InputTypes
<1>2. StartWall = input.day * 24 + input.hour BY DEF StartWall
<1>3. w \in RuleWalls <=> w \in ClockedDays /\ (w = StartWall \/ ~ExceedsUntil(w))
  BY UntilIsNotExceeded DEF RuleWalls
<1>4. CASE w = StartWall
  <2>1. w \in ClockedDays BY <1>2, <1>4, SeriesDayFacts DEF ClockedDays
  <2> QED BY <1>3, <1>4, <2>1 DEF SeriesWalls
<1>5. CASE w # StartWall
  <2>1. ~(w > WallBound) BY <1>1 DEF WallBound
  <2>2. w \in SeriesWalls <=> (\E p \in Nat : w \in Walls(p)) /\ w > StartWall /\ ~ExceedsUntil(w)
    BY <1>5, <2>1 DEF SeriesWalls, Cut
  <2>3. \A d \in Int : w = d * 24 + input.hour => d <= (input.to \div 24) + 1 BY <1>1
  <2>4. ASSUME w \in ClockedDays PROVE w > StartWall /\ \E p \in Nat : w \in Walls(p)
    <3>1. PICK d \in SeriesDays : w = d * 24 + input.hour BY <2>4 DEF ClockedDays
    <3>2. d \in Nat /\ input.day < d
      <4>1. d # input.day BY <1>2, <1>5, <3>1
      <4> QED BY <4>1, SeriesDayFacts
    <3>3. PICK p \in Nat : d \in PeriodDays(p) BY <2>3, <3>1, <3>2, DaysOfTheSeries
    <3>4. w \in Walls(p) BY <3>1, <3>3 DEF Walls
    <3>5. w > StartWall BY <1>1, <1>2, <3>1, <3>2
    <3> QED BY <3>4, <3>5
  <2>5. ASSUME w > StartWall, NEW p \in Nat, w \in Walls(p) PROVE w \in ClockedDays
    <3>1. PICK d \in PeriodDays(p) : w = d * 24 + input.hour BY <2>5 DEF Walls
    <3>2. d \in Int
      <4>1. PeriodHolds(p) BY PeriodsHold
      <4>2. PeriodStart(p) \in Int /\ PeriodEnd(p) \in Int /\ d \in PeriodStart(p)..(PeriodEnd(p) - 1)
        BY <4>1, PeriodDaysAreCandidates DEF PeriodHolds
      <4> QED BY <4>2
    <3>3. d \in Nat /\ input.day < d BY <1>1, <1>2, <2>5, <3>1, <3>2
    <3>4. d \in SeriesDays BY <2>3, <3>1, <3>3, DaysOfTheSeries
    <3> QED BY <3>1, <3>4 DEF ClockedDays
  <2> QED BY <1>3, <1>5, <2>2, <2>4, <2>5
<1> QED BY <1>4, <1>5

LEMMA KeptWallsAreCounted ==
  ASSUME input \in Case, rule.freq # "NONE", NEW kept, Complete(kept),
         NEW w \in Int, w <= input.to + 14
  PROVE  w \in kept <=> w \in CountedWalls
<1>1. w \in RuleWalls <=> w \in SeriesWalls BY RuleWallsAreSeriesWalls
<1>2. CASE rule.count = 0
  <2>1. kept = SeriesWalls BY <1>2 DEF Complete
  <2> QED BY <1>1, <1>2, <2>1 DEF CountedWalls
<1>3. CASE rule.count # 0
  <2>1. {u \in RuleWalls : u < w} = {u \in SeriesWalls : u < w}
    <3>1. \A u \in RuleWalls : u \in Int
      <4>1. \A d \in Int : d * 24 + input.hour \in Int BY InputTypes
      <4>2. \A d \in SeriesDays : d \in Int BY SeriesDayFacts
      <4> QED BY <4>1, <4>2 DEF RuleWalls, ClockedDays
    <3>2. \A u \in SeriesWalls : u \in Int BY SeriesWallFacts
    <3>3. ASSUME NEW u \in Int, u < w PROVE u \in RuleWalls <=> u \in SeriesWalls
      <4>1. u <= input.to + 14
        <5>1. input.to \in Int BY InputTypes
        <5> QED BY <3>3, <5>1
      <4> QED BY <4>1, RuleWallsAreSeriesWalls
    <3> QED BY <3>1, <3>2, <3>3
  <2>2. w \in CountedWalls <=> w \in RuleWalls /\ Cardinality({u \in RuleWalls : u < w}) < rule.count
    BY <1>3 DEF CountedWalls, FirstOf
  <2>3. kept \in SUBSET SeriesWalls BY DEF Complete
  <2>4. w \in SeriesWalls => (w \in kept <=> Cardinality({u \in SeriesWalls : u < w}) < rule.count)
    BY <1>3, CompleteIsFirst
  <2> QED BY <1>1, <2>1, <2>2, <2>3, <2>4
<1> QED BY <1>2, <1>3

(* Before the end of the window, the instants kept are those of the series. *)
LEMMA KeptIsTheSeries ==
  ASSUME input \in Case, NEW kept,
         IF rule.freq = "NONE" THEN kept = {StartWall} ELSE Complete(kept),
         NEW t, t < input.to
  PROVE  t \in {ToUtc(w) : w \in kept} <=> t \in Series
<1>1. CASE rule.freq = "NONE"
  <2>1. Series = {Instant(StartWall)} BY <1>1 DEF Series
  <2>2. ToUtc(StartWall) = Instant(StartWall) BY FirstWall, InstantsOfWallClocks
  <2> QED BY <1>1, <2>1, <2>2
<1>2. CASE rule.freq # "NONE"
  <2>1. \A w \in kept : w \in Int BY <1>2, SeriesWallFacts DEF Complete
  <2>2. \A w \in CountedWalls : w \in Int
    <3>1. \A d \in Int : d * 24 + input.hour \in Int BY InputTypes
    <3>2. \A d \in SeriesDays : d \in Int BY SeriesDayFacts
    <3> QED BY <3>1, <3>2 DEF CountedWalls, FirstOf, RuleWalls, ClockedDays
  <2>3. ASSUME NEW w \in Int, t = Instant(w) PROVE w \in kept <=> w \in CountedWalls
    <3>1. Instant(w) \in (w - 14)..(w + 14) /\ input.to \in Int BY InstantsOfWallClocks, InputTypes
    <3>2. w <= input.to + 14 BY <2>3, <3>1
    <3> QED BY <1>2, <3>2, KeptWallsAreCounted
  <2>4. t \in {ToUtc(w) : w \in kept} <=> \E w \in kept : t = Instant(w)
    <3>1. \A w \in kept : ToUtc(w) = Instant(w) BY <2>1, InstantsOfWallClocks
    <3> QED BY <3>1
  <2>5. t \in Series <=> \E w \in CountedWalls : t = Instant(w) BY <1>2, SeriesOfWalls
  <2> QED BY <2>1, <2>2, <2>3, <2>4, <2>5
<1> QED BY <1>1, <1>2

(* A returned expansion is the series, in the window.                       *)
LEMMA LoopExpandsToTheSeries == LoopInv => ExpandsToTheSeries
<1> SUFFICES ASSUME LoopInv, status = "returned"
             PROVE  occurrences = FirstOf(InWindow((Series \cup input.rdates) \ input.exdates), MaxOccurrences)
  BY DEF ExpandsToTheSeries
<1> DEFINE generated == {ToUtc(w) : w \in results}
<1>1. input \in Case BY DEF LoopInv, TypeOK
<1>2. IF rule.freq = "NONE" THEN results = {StartWall} ELSE Complete(results) BY DEF LoopInv
<1>3. \A t : t < input.to => (t \in generated <=> t \in Series) BY <1>1, <1>2, KeptIsTheSeries
<1>4. occurrences = FirstOf(InWindow((generated \cup input.rdates) \ input.exdates), MaxOccurrences)
  BY DEF LoopInv, Collect
<1> HIDE DEF generated
<1>5. InWindow((generated \cup input.rdates) \ input.exdates)
        = InWindow((Series \cup input.rdates) \ input.exdates)
  BY <1>3 DEF InWindow
<1> QED BY <1>4, <1>5

(* Whatever the rule, the zone and the window, the walk returns the         *)
(* recurrence set of RFC 5545 in it (expandRecurrence.ts:17-67).            *)
THEOREM ExpandsToTheSeriesHolds == Spec => []ExpandsToTheSeries
<1>1. Init => LoopInv BY InitLoop
<1>2. LoopInv /\ [Next]_vars => LoopInv' BY NextLoop
<1>3. LoopInv => ExpandsToTheSeries BY LoopExpandsToTheSeries
<1> QED BY <1>1, <1>2, <1>3, PTL DEF Spec

----------------------------------------------------------------------------
(* The safety cap.                                                          *)

(* The last day that the walk looks at: of the window, or of DTSTART.       *)
LastDay == IF WallBound \div 24 > input.day THEN WallBound \div 24 ELSE input.day

(* It takes an iteration for each period started, all but the first after   *)
(* DTSTART, and one for each day from the start of the first period.        *)
Paced(pend, n, taken) ==
    LET first == PeriodStart(0)
    IN /\ n = 0 => taken = 0 /\ pend = {}
       /\ n # 0 => /\ PeriodStart(n - 1) <= LastDay
                   /\ n = 1 \/ input.day + n - 1 <= PeriodStart(n - 1)
                   /\ taken <= n + LastDay + 1 - first
                   /\ pend = {} => taken <= n + PeriodStart(n) - first
                   /\ \A w \in pend : taken * 24 <= (n - first) * 24 + w - input.hour

(* The most iterations that a walk takes.                                   *)
Limit == 2 * (LastDay - input.day) + 367

PaceInv ==
    /\ LoopInv
    /\ status = "running" => Paced(pending, period, iterations)
    /\ status = "failed" => ~Parseable(rule) \/ MaxIterations <= Limit

LEMMA LastDays ==
  ASSUME input \in Case
  PROVE  /\ LastDay \in Int /\ input.day <= LastDay /\ WallBound \div 24 <= LastDay
         /\ input.day \in Nat /\ WallBound \in Int
<1>1. input.day \in Nat /\ WallBound \in Int BY InputTypes DEF WallBound
<1>2. WallBound \div 24 \in Int BY <1>1
<1> QED BY <1>1, <1>2 DEF LastDay

LEMMA SamePace ==
  ASSUME input' = input
  PROVE  /\ \A pend, n, taken : Paced(pend, n, taken)' <=> Paced(pend, n, taken)
         /\ Limit' = Limit
<1>1. \A p : PeriodStart(p)' = PeriodStart(p) BY SamePeriods
<1>2. LastDay' = LastDay BY SameWalls DEF LastDay
<1>3. \A pend, n, taken : Paced(pend, n, taken)' <=> Paced(pend, n, taken) BY <1>1, <1>2 DEF Paced
<1> QED BY <1>2, <1>3 DEF Limit

LEMMA PeriodPaced ==
  ASSUME input \in Case, rule.freq # "NONE", NEW n \in Nat, NEW taken \in Nat,
         Paced({}, n, taken), PeriodStart(n) * 24 <= WallBound
  PROVE  Paced(Walls(n), n + 1, taken + 1)
<1> DEFINE first == PeriodStart(0)
           start == PeriodStart(n)
           next == PeriodStart(n + 1)
<1>1. input.day \in Nat /\ LastDay \in Int /\ WallBound \in Int /\ WallBound \div 24 <= LastDay
  BY LastDays
<1>2. first \in Int /\ start \in Int /\ first <= start /\ (n # 0 => first < start)
  <2>1. 0 \in Nat /\ 0 <= n /\ (n # 0 => 0 < n) OBVIOUS
  <2> QED BY <2>1, PeriodStarts
<1>3. next \in Int /\ start < next
  <2>1. n + 1 \in Nat /\ n <= n + 1 /\ n < n + 1 OBVIOUS
  <2> QED BY <2>1, PeriodStarts
<1>4. start <= LastDay
  <2>1. start * 24 <= WallBound OBVIOUS
  <2> HIDE DEF start
  <2>2. start <= WallBound \div 24 BY <1>1, <1>2, <2>1
  <2> QED BY <1>1, <1>2, <2>2
<1>5. n + 1 = 1 \/ input.day + (n + 1) - 1 <= start
  <2>1. CASE n = 0 BY <2>1
  <2>2. CASE n # 0
    <3> DEFINE m == n - 1
               before == PeriodStart(m)
    <3>1. m \in Nat /\ m < n /\ m <= n /\ n = m + 1 BY <2>2
    <3> HIDE DEF m
    <3>2. before \in Int /\ before < start BY <3>1, PeriodStarts
    <3>3. n = 1 \/ input.day + n - 1 <= before BY <2>2 DEF Paced, m
    <3>4. n = 1 => input.day < start
      <4>1. 0 \in Nat /\ (n = 1 => 0 < n) OBVIOUS
      <4>2. n = 1 => PeriodEnd(0) <= start BY <4>1, PeriodsInOrder
      <4>3. input.day < PeriodEnd(0) BY FirstPeriod
      <4>4. PeriodEnd(0) \in Int BY <4>1, PeriodsHold DEF PeriodHolds
      <4> HIDE DEF start
      <4> QED BY <1>1, <1>2, <4>2, <4>3, <4>4
    <3> HIDE DEF before, start
    <3> QED BY <1>1, <1>2, <3>2, <3>3, <3>4
  <2> QED BY <2>1, <2>2
<1>6. taken <= n + start - first
  <2>1. CASE n = 0
    <3>1. taken = 0 BY <2>1 DEF Paced
    <3> HIDE DEF start, first
    <3> QED BY <1>2, <2>1, <3>1
  <2>2. CASE n # 0 BY <2>2 DEF Paced
  <2> QED BY <2>1, <2>2
<1>7. ASSUME NEW w \in Walls(n) PROVE (taken + 1) * 24 <= ((n + 1) - first) * 24 + w - input.hour
  <2>1. PICK d \in PeriodDays(n) : w = d * 24 + input.hour BY DEF Walls
  <2>2. d \in Int /\ start <= d
    <3>1. PeriodHolds(n) BY PeriodsHold
    <3>2. PeriodEnd(n) \in Int /\ d \in start..(PeriodEnd(n) - 1)
      BY <3>1, PeriodDaysAreCandidates DEF PeriodHolds
    <3> HIDE DEF start
    <3> QED BY <1>2, <3>2
  <2>3. input.hour \in Int BY InputTypes
  <2> HIDE DEF start, first
  <2>4. w - input.hour = d * 24 BY <2>1, <2>2, <2>3
  <2>5. taken + 1 <= (n + 1) - first + d BY <1>2, <1>6, <2>2
  <2>6. w \in Int BY <2>1, <2>2, <2>3
  <2> QED BY <1>2, <2>2, <2>3, <2>4, <2>5, <2>6
<1>8. taken + 1 <= (n + 1) + LastDay + 1 - first
  <2> HIDE DEF start, first
  <2> QED BY <1>1, <1>2, <1>4, <1>6
<1>9. taken + 1 <= (n + 1) + next - first
  <2> HIDE DEF start, first, next
  <2> QED BY <1>2, <1>3, <1>6
<1>10. (n + 1) - 1 = n /\ n + 1 # 0 OBVIOUS
<1> QED BY <1>4, <1>5, <1>7, <1>8, <1>9, <1>10 DEF Paced

LEMMA InstancePaced ==
  ASSUME input \in Case, NEW pend, NEW kept, NEW n, Walked(pend, kept, n), pend # {},
         NEW taken \in Nat, Paced(pend, n, taken),
         Earliest(pend) <= StartWall \/ ~Cut(Earliest(pend))
  PROVE  Paced(pend \ {Earliest(pend)}, n, taken + 1)
<1> DEFINE first == PeriodStart(0)
           e == Earliest(pend)
           next == PeriodStart(n)
<1>0. rule.freq # "NONE" /\ n \in Nat /\ pend \in SUBSET Found(n) BY DEF Walked
<1>1. n # 0 BY DEF Paced
<1>2. e \in pend /\ OfHour(e) /\ e \in Int /\ \A v \in pend : e <= v BY FirstPending
<1>3. input.day \in Nat /\ LastDay \in Int /\ WallBound \in Int /\ WallBound \div 24 <= LastDay
      /\ input.day <= LastDay /\ input.hour \in 0..23 /\ StartWall = input.day * 24 + input.hour
  BY LastDays, InputTypes DEF StartWall
<1>4. first \in Int /\ next \in Int
  <2>1. 0 \in Nat OBVIOUS
  <2> QED BY <1>0, <2>1, PeriodsHold DEF PeriodHolds
<1>5. e <= StartWall \/ e <= WallBound
  <2>1. e <= StartWall \/ ~(e > WallBound) BY DEF Cut
  <2> HIDE DEF e
  <2> QED BY <1>2, <1>3, <2>1
<1>6. taken * 24 <= (n - first) * 24 + e - input.hour BY <1>1, <1>2 DEF Paced
<1>7. e < next * 24
  <2>1. PICK p \in Nat : p < n /\ e \in Walls(p) BY <1>0, <1>2, FoundWalls
  <2>2. e < PeriodEnd(p) * 24 /\ PeriodEnd(p) \in Int BY <1>0, <2>1, WallsOfPeriods, PeriodsHold DEF PeriodHolds
  <2>3. PeriodEnd(p) <= next BY <1>0, <2>1, PeriodsInOrder
  <2> HIDE DEF e, next
  <2> QED BY <1>2, <1>4, <2>2, <2>3
<1> HIDE DEF e, first, next
<1>8. PICK d \in Int : e = d * 24 + input.hour
  <2>1. PICK p \in Nat : p < n /\ e \in Walls(p) BY <1>0, <1>2, FoundWalls
  <2>2. PICK d \in PeriodDays(p) : e = d * 24 + input.hour BY <2>1 DEF Walls
  <2>3. d \in Int
    <3>1. PeriodHolds(p) BY <1>0, PeriodsHold
    <3>2. PeriodStart(p) \in Int /\ PeriodEnd(p) \in Int /\ d \in PeriodStart(p)..(PeriodEnd(p) - 1)
      BY <3>1, PeriodDaysAreCandidates DEF PeriodHolds
    <3> QED BY <3>2
  <2> QED BY <2>2, <2>3
<1>9. taken <= n - first + d
  <2>1. taken * 24 <= (n - first) * 24 + d * 24 BY <1>0, <1>3, <1>4, <1>6, <1>8
  <2> QED BY <1>0, <1>4, <1>8, <2>1
<1>10. d <= LastDay
  <2>1. d * 24 <= StartWall \/ d * 24 <= WallBound BY <1>3, <1>5, <1>8
  <2>2. d <= input.day \/ d <= WallBound \div 24 BY <1>3, <1>8, <2>1
  <2>3. WallBound \div 24 \in Int BY <1>3
  <2> QED BY <1>3, <1>8, <2>2, <2>3
<1>11. d + 1 <= next BY <1>3, <1>4, <1>7, <1>8
<1>12. taken + 1 <= n + LastDay + 1 - first BY <1>0, <1>3, <1>4, <1>9, <1>10
<1>13. taken + 1 <= n + next - first BY <1>0, <1>4, <1>9, <1>11
<1>14. ASSUME NEW v \in pend \ {e} PROVE (taken + 1) * 24 <= (n - first) * 24 + v - input.hour
  <2>1. OfHour(v) /\ v \in Int BY <1>0, FoundWalls
  <2>2. e < v BY <1>2, <2>1
  <2>3. e + 24 <= v BY <1>2, <2>1, <2>2, DaysApart
  <2> DEFINE k == (n - first) * 24
  <2>4. k \in Int /\ taken * 24 <= k + e - input.hour BY <1>0, <1>4, <1>6
  <2> HIDE DEF k
  <2>5. (taken + 1) * 24 <= k + v - input.hour BY <1>2, <1>3, <2>1, <2>3, <2>4
  <2> QED BY <2>5 DEF k
<1>15. /\ PeriodStart(n - 1) <= LastDay
       /\ n = 1 \/ input.day + n - 1 <= PeriodStart(n - 1)
  BY <1>1 DEF Paced
<1>16. Paced(pend \ {e}, n, taken + 1) BY <1>1, <1>12, <1>13, <1>14, <1>15 DEF Paced, first, next
<1> QED BY <1>16 DEF e

(* A walk that goes on has not reached the limit.                           *)
LEMMA WithinLimit ==
  ASSUME input \in Case, rule.freq # "NONE", NEW pend, NEW n \in Nat, NEW taken \in Nat,
         Paced(pend, n, taken)
  PROVE  taken <= Limit
<1> DEFINE first == PeriodStart(0)
<1>1. input.day \in Nat /\ LastDay \in Int /\ input.day <= LastDay BY LastDays
<1>2. first \in Int /\ input.day - 365 <= first
  <2>1. 0 \in Nat OBVIOUS
  <2> QED BY <2>1, FirstPeriod, PeriodsHold DEF PeriodHolds
<1>3. Limit = 2 * (LastDay - input.day) + 367 BY DEF Limit
<1>4. CASE n = 0
  <2>1. taken = 0 BY <1>4 DEF Paced
  <2> QED BY <1>1, <1>3, <2>1
<1>5. CASE n # 0
  <2> DEFINE before == PeriodStart(n - 1)
  <2>1. before <= LastDay /\ (n = 1 \/ input.day + n - 1 <= before)
        /\ taken <= n + LastDay + 1 - first
    BY <1>5 DEF Paced
  <2>2. before \in Int
    <3>1. n - 1 \in Nat BY <1>5
    <3> QED BY <3>1, PeriodsHold DEF PeriodHolds
  <2> HIDE DEF before, first
  <2>3. n <= LastDay - input.day + 1 BY <1>1, <2>1, <2>2
  <2> QED BY <1>1, <1>2, <1>3, <2>1, <2>3
<1> QED BY <1>4, <1>5

LEMMA InitPace == Init => PaceInv
<1> SUFFICES ASSUME Init PROVE PaceInv OBVIOUS
<1>1. LoopInv BY InitLoop
<1>2. Paced({}, 0, 0) BY DEF Paced
<1>3. period = 0 /\ pending = {} /\ iterations = 0 BY DEF Init
<1>4. status = "failed" => ~Parseable(rule) BY DEF Init
<1> QED BY <1>1, <1>2, <1>3, <1>4 DEF PaceInv

LEMMA NextPace == PaceInv /\ [Next]_vars => PaceInv'
<1> SUFFICES ASSUME PaceInv, [Next]_vars PROVE PaceInv' OBVIOUS
<1>1. LoopInv /\ LoopInv' /\ TypeOK BY NextLoop DEF PaceInv, LoopInv
<1>2. input \in Case /\ period \in Nat /\ iterations \in Nat BY <1>1 DEF TypeOK
<1>3. status = "running" =>
        /\ Running(pending, results, period) /\ Walked(pending, results, period)
        /\ rule.freq # "NONE" /\ Paced(pending, period, iterations)
  BY <1>1 DEF LoopInv, Running, Walked, PaceInv
<1>4. input' = input => /\ \A pend, n, taken : Paced(pend, n, taken)' <=> Paced(pend, n, taken)
                        /\ Limit' = Limit /\ rule' = rule
  BY SamePace DEF rule
<1>5. CASE StartPeriod
  <2>1. /\ status = "running" /\ pending = {} /\ input' = input /\ iterations' = iterations + 1
        /\ IF PeriodStart(period) * 24 > WallBound THEN status' = "done"
           ELSE pending' = Walls(period) /\ period' = period + 1 /\ status' = status
    BY <1>5 DEF StartPeriod, Iterate, PeriodStart, Walls, PeriodDays, Candidates
  <2>2. CASE PeriodStart(period) * 24 > WallBound
    <3>1. status' = "done" BY <2>1, <2>2
    <3> QED BY <1>1, <3>1 DEF PaceInv
  <2>3. CASE ~(PeriodStart(period) * 24 > WallBound)
    <3>1. PeriodStart(period) * 24 <= WallBound
      <4>1. PeriodStart(period) \in Int BY <1>2, <1>3, <2>1, PeriodsHold DEF PeriodHolds
      <4>2. WallBound \in Int BY <1>2, LastDays
      <4> QED BY <2>3, <4>1, <4>2
    <3>2. Paced({}, period, iterations) /\ rule.freq # "NONE" BY <1>3, <2>1
    <3>3. Paced(Walls(period), period + 1, iterations + 1) BY <1>2, <3>1, <3>2, PeriodPaced
    <3>4. Paced(pending', period', iterations') BY <2>1, <2>3, <3>3
    <3>5. Paced(pending, period, iterations)' BY <1>4, <2>1, <3>4
    <3>6. status' = "running" BY <2>1, <2>3
    <3> QED BY <1>1, <3>5, <3>6 DEF PaceInv
  <2> QED BY <2>2, <2>3
<1>6. CASE TakeInstance
  <2> DEFINE e == Earliest(pending)
  <2>1. /\ status = "running" /\ pending # {} /\ input' = input /\ iterations' = iterations + 1
        /\ period' = period /\ pending' = pending \ {e}
        /\ e <= StartWall \/ ~Cut(e) \/ status' = "done"
        /\ status' \in {"running", "done"}
    BY <1>6 DEF TakeInstance, Iterate, Cut
  <2>2. CASE e <= StartWall \/ ~Cut(e)
    <3>1. Paced(pending \ {e}, period, iterations + 1) BY <1>2, <1>3, <2>1, <2>2, InstancePaced
    <3>2. Paced(pending', period', iterations') BY <2>1, <3>1
    <3>3. Paced(pending, period, iterations)' BY <1>4, <2>1, <3>2
    <3>4. status' # "failed" BY <2>1
    <3> QED BY <1>1, <3>3, <3>4 DEF PaceInv
  <2>3. CASE status' = "done" BY <1>1, <2>3 DEF PaceInv
  <2> QED BY <2>1, <2>2, <2>3
<1>7. CASE GiveUp
  <2>1. status = "running" /\ iterations = MaxIterations /\ status' = "failed" /\ input' = input
    BY <1>7 DEF GiveUp
  <2>2. iterations <= Limit BY <1>2, <1>3, <2>1, WithinLimit
  <2>3. MaxIterations <= Limit' BY <1>4, <2>1, <2>2
  <2> QED BY <1>1, <2>1, <2>3 DEF PaceInv
<1>8. CASE Return
  <2>1. status' = "returned" BY <1>8 DEF Return
  <2> QED BY <1>1, <2>1 DEF PaceInv
<1>9. CASE UNCHANGED vars
  <2>1. /\ status' = status /\ input' = input /\ pending' = pending
        /\ period' = period /\ iterations' = iterations
    BY <1>9 DEF vars
  <2>2. Parseable(rule)' <=> Parseable(rule) BY <2>1 DEF Parseable, rule
  <2>3. Paced(pending, period, iterations)' <=> Paced(pending, period, iterations) BY <1>4, <2>1
  <2> QED BY <1>1, <1>4, <2>1, <2>2, <2>3 DEF PaceInv
<1> QED BY <1>5, <1>6, <1>7, <1>8, <1>9 DEF Next

LEMMA PaceExpands == PaceInv => RulesAreExpanded
<1> SUFFICES ASSUME PaceInv, Parseable(rule), status = "failed",
                    2 * (IF WallBound \div 24 > input.day THEN (WallBound \div 24) - input.day ELSE 0) + 367
                      < MaxIterations
             PROVE  FALSE
  BY DEF RulesAreExpanded
<1>1. MaxIterations <= Limit BY DEF PaceInv
<1>2. input.day \in Int /\ WallBound \in Int BY LastDays DEF PaceInv, LoopInv, TypeOK
<1>3. Limit = 2 * (IF WallBound \div 24 > input.day THEN (WallBound \div 24) - input.day ELSE 0) + 367
  BY <1>2 DEF Limit, LastDay
<1>4. Limit \in Int /\ MaxIterations \in Int BY <1>2, <1>3, RecurrenceAssumption
<1> QED BY <1>1, <1>3, <1>4

(* The safety cap refuses no rule that the parser accepts unless its window *)
(* ends too far after DTSTART (expandRecurrence.ts:11-12, 88-114).          *)
THEOREM RulesAreExpandedHolds == Spec => []RulesAreExpanded
<1>1. Init => PaceInv BY InitPace
<1>2. PaceInv /\ [Next]_vars => PaceInv' BY NextPace
<1>3. PaceInv => RulesAreExpanded BY PaceExpands
<1> QED BY <1>1, <1>2, <1>3, PTL DEF Spec
=============================================================================
