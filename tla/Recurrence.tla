----------------------------- MODULE Recurrence -----------------------------
(***************************************************************************)
(* The expansion of a recurring meeting (packages/recurrence): the loop of *)
(* generateRuleInstances over the periods of an RRULE, the conversion of   *)
(* wall clock to UTC, and the set that expandRecurrence returns.           *)
(*                                                                         *)
(* Days are counted from Monday, 2024-01-01, and time in hours from its    *)
(* midnight.  An optional list is a set, empty when the rule has no such   *)
(* part; a count of 0 and an until of kind "none" are absent too.          *)
(***************************************************************************)
EXTENDS Integers, Sequences, FiniteSets

CONSTANTS Case,            \* inputs of expandRecurrence
          Transition,      \* by zone: offset before, instants and offsets after
          MaxIterations,   \* MAX_ITERATIONS
          MaxOccurrences   \* maxOccurrences

Frequencies == {"NONE", "DAILY", "WEEKLY", "MONTHLY", "YEARLY"}
Weekdays == 0..6   \* 0 is Sunday

Rules == [freq : Frequencies, interval : Nat \ {0}, count : Nat,
          until : [kind : {"none", "wall", "date", "utc"}, at : Int],
          byDay : SUBSET [weekday : Weekdays, ordinal : Int], byMonthDay : SUBSET Int,
          byMonth : SUBSET (1..12), bySetPos : SUBSET Int, wkst : Weekdays]

ASSUME RecurrenceAssumption ==
    /\ MaxIterations \in Nat \ {0} /\ MaxOccurrences \in Nat \ {0}
    /\ Case \subseteq [rule : Rules, day : Nat, hour : 0..23, zone : DOMAIN Transition \cup {"none"},
                       from : Int, to : Int, rdates : SUBSET Int, exdates : SUBSET Int]

(* No offset exceeds 14 hours (expandRecurrence.ts:13), those of a zone are *)
(* within a day of each other, and a clock is not changed again for two.    *)
ASSUME ZoneAssumption ==
    /\ "none" \notin DOMAIN Transition
    /\ \A zone \in DOMAIN Transition :
          LET at == Transition[zone].at
              offsets == {Transition[zone].before} \cup {at[i].offset : i \in 1..Len(at)}
          IN /\ at \in Seq([utc : Int, offset : Int])
             /\ offsets \subseteq -14..14
             /\ \A o, p \in offsets : o - p <= 24
             /\ \A i, j \in 1..Len(at) : i < j => at[j].utc - at[i].utc >= 48

VARIABLES
    input,
    results,      \* wall clocks of the instances found
    period,       \* next period of the rule
    pending,      \* instances of the current period not looked at yet, taken in order
    iterations,
    status,       \* running, done, failed (RecurrenceError), returned
    occurrences   \* instants that expandRecurrence returns

vars == <<input, results, period, pending, iterations, status, occurrences>>

rule == input.rule

----------------------------------------------------------------------------
(* The calendar, and the zones.                                             *)

Leap(year) == (year % 4 = 0 /\ year % 100 # 0) \/ year % 400 = 0

(* Month i is counted from 2024-01.                                         *)
YearOf(i) == 2024 + (i \div 12)

DaysBefore == <<0, 31, 59, 90, 120, 151, 181, 212, 243, 273, 304, 334, 365>>

MonthStart(i) ==
    LET before == YearOf(i) - 1
        leapDays == (before \div 4) - (before \div 100) + (before \div 400) - 490
    IN 365 * (i \div 12) + leapDays + DaysBefore[(i % 12) + 1]
         + (IF Leap(YearOf(i)) /\ i % 12 > 1 THEN 1 ELSE 0)

MonthLength(i) == MonthStart(i + 1) - MonthStart(i)

(* The month of a day.                                                      *)
MonthAt(d) == CHOOSE i \in (d \div 31)..(d \div 28) : MonthStart(i) <= d /\ d < MonthStart(i + 1)

MonthOf(d) == (MonthAt(d) % 12) + 1
DayOfMonth(d) == d - MonthStart(MonthAt(d)) + 1
Weekday(d) == (d + 1) % 7

StartOfWeek(d) == d - ((Weekday(d) - rule.wkst) % 7)

(* timeZoneOffsetMillis.                                                    *)
Offset(zone, utc) ==
    LET past == {i \in 1..Len(Transition[zone].at) : Transition[zone].at[i].utc <= utc}
    IN IF past = {} THEN Transition[zone].before
       ELSE Transition[zone].at[CHOOSE i \in past : \A j \in past : j <= i].offset

Earliest(S) == CHOOSE x \in S : \A y \in S : x <= y
Latest(S) == CHOOSE x \in S : \A y \in S : x >= y

(* The members of S at the positions of a list; negative ones count from    *)
(* its end.                                                                 *)
At(positions, S) ==
    LET index(pos) == IF pos > 0 THEN pos ELSE Cardinality(S) + pos + 1
        wanted == {index(pos) : pos \in positions}
    IN {x \in S : Cardinality({y \in S : y <= x}) \in wanted}

(* An ambiguous wall clock is its first instant, one that does not exist    *)
(* moves on by the length of the gap.                                       *)
WallClockToUtc(wall, zone) ==
    LET candidates == {Offset(zone, wall - 24), Offset(zone, wall + 24)}
        valid == {o \in candidates : Offset(zone, wall - o) = o}
    IN wall - (IF valid # {} THEN Latest(valid) ELSE Earliest(candidates))

StartWall == input.day * 24 + input.hour
ToUtc(wall) == IF input.zone = "none" THEN wall ELSE WallClockToUtc(wall, input.zone)

----------------------------------------------------------------------------
(* parseRrule: what it refuses of a well-formed rule.                       *)
Parseable(r) ==
    /\ ~(r.count # 0 /\ r.until.kind # "none")
    /\ r.bySetPos # {} => r.byDay # {} \/ r.byMonthDay # {} \/ r.byMonth # {}
    /\ (r.freq = "YEARLY" /\ r.byDay # {}) => r.byMonth # {}
    /\ r.freq \notin {"MONTHLY", "YEARLY"} => \A entry \in r.byDay : entry.ordinal = 0

ResolveMonthDay(monthDay, length) == IF monthDay > 0 THEN monthDay ELSE length + monthDay + 1

MatchesMonthDay(d) ==
    \E monthDay \in rule.byMonthDay :
       ResolveMonthDay(monthDay, MonthLength(MonthAt(d))) = DayOfMonth(d)

(* The days of month i: BYMONTHDAY, narrowed by the weekdays of BYDAY, else *)
(* BYDAY with its ordinals, else the day of DTSTART where the month has it. *)
ExpandMonthDays(i) ==
    LET length == MonthLength(i)
        first == MonthStart(i)
        weekday(day) == Weekday(first + day - 1)
        matches(e) == {day \in 1..length : weekday(day) = e.weekday}
        days ==
            IF rule.byMonthDay # {}
            THEN {day \in {ResolveMonthDay(m, length) : m \in rule.byMonthDay} \cap 1..length :
                     rule.byDay # {} => \E e \in rule.byDay : day \in matches(e)}
            ELSE IF rule.byDay # {}
            THEN UNION {IF e.ordinal = 0 THEN matches(e) ELSE At({e.ordinal}, matches(e)) : e \in rule.byDay}
            ELSE {DayOfMonth(input.day)} \cap 1..length
    IN {first + day - 1 : day \in days}

(* BYSETPOS picks from the days of a month or a year.                       *)
ApplySetPos(days) ==
    IF rule.bySetPos = {} \/ rule.freq \in {"DAILY", "WEEKLY"} THEN days ELSE At(rule.bySetPos, days)

----------------------------------------------------------------------------
(* candidatesForPeriod: where the p-th period starts, and its days before   *)
(* BYSETPOS.                                                                *)

InMonth(d) == rule.byMonth = {} \/ MonthOf(d) \in rule.byMonth

Daily(p) ==
    LET day == input.day + p * rule.interval
        matches == /\ InMonth(day)
                   /\ rule.byMonthDay = {} \/ MatchesMonthDay(day)
                   /\ rule.byDay = {} \/ \E e \in rule.byDay : e.weekday = Weekday(day)
    IN [start |-> day, days |-> IF matches THEN {day} ELSE {}]

Weekly(p) ==
    LET week == StartOfWeek(input.day) + p * rule.interval * 7
        wanted == IF rule.byDay = {} THEN {Weekday(input.day)} ELSE {e.weekday : e \in rule.byDay}
    IN [start |-> week,
        days |-> {d \in week..(week + 6) : Weekday(d) \in wanted /\ InMonth(d)}]

Monthly(p) ==
    LET i == MonthAt(input.day) + p * rule.interval
    IN [start |-> MonthStart(i),
        days |-> IF rule.byMonth # {} /\ (i % 12) + 1 \notin rule.byMonth THEN {}
                 ELSE ExpandMonthDays(i)]

Yearly(p) ==
    LET january == 12 * ((MonthAt(input.day) \div 12) + p * rule.interval)
        months == IF rule.byMonth = {} THEN {MonthOf(input.day)} ELSE rule.byMonth
    IN [start |-> MonthStart(january),
        days |-> UNION {ExpandMonthDays(january + month - 1) : month \in months}]

CandidatesForPeriod(p) ==
    CASE rule.freq = "DAILY" -> Daily(p)
      [] rule.freq = "WEEKLY" -> Weekly(p)
      [] rule.freq = "MONTHLY" -> Monthly(p)
      [] rule.freq = "YEARLY" -> Yearly(p)

----------------------------------------------------------------------------
(* generateRuleInstances.                                                   *)

Init ==
    /\ input \in Case
    /\ results = {StartWall} /\ period = 0 /\ pending = {} /\ iterations = 0
    /\ status = IF rule.freq = "NONE" THEN "done"
                ELSE IF ~Parseable(rule) THEN "failed"
                ELSE IF rule.count = 1 THEN "done" ELSE "running"
    /\ occurrences = {}

(* The end of the window, read as the end of the walk.                      *)
WallBoundWithoutSlack == input.to

(* A day of slack covers the offset of any zone.                            *)
WallBound == input.to + 24

ExceedsUntil(wall) ==
    CASE rule.until.kind = "none" -> FALSE
      [] rule.until.kind = "wall" -> wall > rule.until.at
      [] rule.until.kind = "date" -> wall >= (rule.until.at + 1) * 24
      [] rule.until.kind = "utc" -> ToUtc(wall) > rule.until.at

Iterate == iterations < MaxIterations /\ iterations' = iterations + 1

(* A period beyond the window does not end the walk.                        *)
StartPeriodAnyway ==
    /\ status = "running" /\ pending = {} /\ Iterate
    /\ \E candidates \in {CandidatesForPeriod(period)} :
          /\ pending' = {d * 24 + input.hour : d \in ApplySetPos(candidates.days)}
          /\ period' = IF candidates.start * 24 > WallBound THEN period ELSE period + 1
          /\ UNCHANGED status
    /\ UNCHANGED <<input, results, occurrences>>

StartPeriod ==
    /\ status = "running" /\ pending = {} /\ Iterate
    /\ \E candidates \in {CandidatesForPeriod(period)} :
          IF candidates.start * 24 > WallBound
          THEN status' = "done" /\ UNCHANGED <<period, pending>>
          ELSE /\ pending' = {d * 24 + input.hour : d \in ApplySetPos(candidates.days)}
               /\ period' = period + 1 /\ UNCHANGED status
    /\ UNCHANGED <<input, results, occurrences>>

(* DTSTART is there already and nothing before it belongs to the series.    *)
TakeInstance ==
    /\ status = "running" /\ pending # {} /\ Iterate
    /\ LET wall == Earliest(pending)
       IN /\ pending' = pending \ {wall}
          /\ IF wall <= StartWall
             THEN UNCHANGED <<results, status>>
             ELSE IF ExceedsUntil(wall) \/ wall > WallBound
             THEN status' = "done" /\ UNCHANGED results
             ELSE /\ results' = results \cup {wall}
                  /\ status' = IF rule.count # 0 /\ Cardinality(results') >= rule.count
                               THEN "done" ELSE "running"
    /\ UNCHANGED <<input, period, occurrences>>

(* The safety cap: a RecurrenceError.                                       *)
GiveUp ==
    /\ status = "running" /\ iterations = MaxIterations
    /\ status' = "failed"
    /\ UNCHANGED <<input, results, period, pending, iterations, occurrences>>

InWindow(instants) == {t \in instants : input.from <= t /\ t < input.to}
FirstOf(instants, n) == {t \in instants : Cardinality({u \in instants : u < t}) < n}

(* expandRecurrence: RDATEs come in, EXDATEs go out, after COUNT.           *)
Collect ==
    LET generated == {ToUtc(wall) : wall \in results} \cup input.rdates
    IN FirstOf(InWindow(generated \ input.exdates), MaxOccurrences)

Return ==
    /\ status = "done"
    /\ status' = "returned" /\ occurrences' = Collect
    /\ UNCHANGED <<input, results, period, pending, iterations>>

Next == StartPeriod \/ TakeInstance \/ GiveUp \/ Return

Spec == Init /\ [][Next]_vars

----------------------------------------------------------------------------
(* The recurrence set of RFC 5545, day by day.                              *)

MonthDayOf(d) == {DayOfMonth(d), DayOfMonth(d) - MonthLength(MonthAt(d)) - 1}
OrdinalOf(d) ==
    {0, ((DayOfMonth(d) - 1) \div 7) + 1, -(((MonthLength(MonthAt(d)) - DayOfMonth(d)) \div 7) + 1)}
WeekStart(d) == d - ((Weekday(d) - rule.wkst) % 7)

ByDayAllows(d) == \E e \in rule.byDay : e.weekday = Weekday(d)

DayInMonth(d) ==
    IF rule.byMonthDay # {}
    THEN MonthDayOf(d) \cap rule.byMonthDay # {} /\ (rule.byDay # {} => ByDayAllows(d))
    ELSE IF rule.byDay # {}
    THEN \E e \in rule.byDay : e.weekday = Weekday(d) /\ e.ordinal \in OrdinalOf(d)
    ELSE DayOfMonth(d) = DayOfMonth(input.day)

(* The period a day is in, counted from that of DTSTART.                    *)
PeriodOf(d) ==
    CASE rule.freq = "DAILY" -> d - input.day
      [] rule.freq = "WEEKLY" -> (WeekStart(d) - WeekStart(input.day)) \div 7
      [] rule.freq = "MONTHLY" -> MonthAt(d) - MonthAt(input.day)
      [] rule.freq = "YEARLY" -> (MonthAt(d) \div 12) - (MonthAt(input.day) \div 12)

Allowed(d) ==
    /\ rule.byMonth # {} => MonthOf(d) \in rule.byMonth
    /\ CASE rule.freq = "DAILY" ->
               /\ rule.byMonthDay # {} => MonthDayOf(d) \cap rule.byMonthDay # {}
               /\ rule.byDay # {} => ByDayAllows(d)
         [] rule.freq = "WEEKLY" ->
               IF rule.byDay # {} THEN ByDayAllows(d) ELSE Weekday(d) = Weekday(input.day)
         [] rule.freq = "MONTHLY" -> DayInMonth(d)
         [] rule.freq = "YEARLY" ->
               DayInMonth(d) /\ (rule.byMonth = {} => MonthOf(d) = MonthOf(input.day))

(* The place of a day among the allowed ones of its period, from each end.  *)
Places(d, days) ==
    LET mates == {e \in days : PeriodOf(e) = PeriodOf(d)}
    IN {Cardinality({e \in mates : e <= d}), -Cardinality({e \in mates : e >= d})}

SeriesDays ==
    LET horizon == (input.to \div 24) + (IF rule.freq = "YEARLY" THEN 366 ELSE 31)
        days == {d \in 0..horizon : PeriodOf(d) % rule.interval = 0 /\ Allowed(d)}
        kept == IF rule.bySetPos = {} \/ rule.freq \notin {"MONTHLY", "YEARLY"} THEN days
                ELSE {d \in days : Places(d, days) \cap rule.bySetPos # {}}
    IN {input.day} \cup {d \in kept : d > input.day}

(* The instants of a wall clock: none in a gap, two in an overlap.          *)
Instants(wall) == {utc \in (wall - 14)..(wall + 14) : utc + Offset(input.zone, utc) = wall}

Instant(wall) ==
    IF input.zone = "none" THEN wall
    ELSE IF Instants(wall) # {} THEN Earliest(Instants(wall))
    ELSE wall - Offset(input.zone, wall - 14)

Series ==
    IF rule.freq = "NONE" THEN {Instant(StartWall)}
    ELSE LET within(wall) == wall = StartWall \/
                CASE rule.until.kind = "none" -> TRUE
                  [] rule.until.kind = "wall" -> wall <= rule.until.at
                  [] rule.until.kind = "date" -> wall \div 24 <= rule.until.at
                  [] rule.until.kind = "utc" -> Instant(wall) <= rule.until.at
             walls == {w \in {d * 24 + input.hour : d \in SeriesDays} : within(w)}
             counted == IF rule.count = 0 THEN walls ELSE FirstOf(walls, rule.count)
         IN {Instant(w) : w \in counted}

----------------------------------------------------------------------------
(* Properties.                                                              *)

(* Whatever the window, the expansion is what the recurrence set of         *)
(* RFC 5545 has in it, DTSTART counted, less EXDATEs and more RDATEs: two   *)
(* windows never disagree on an occurrence that is in both                  *)
(* (expandRecurrence.ts:17-67).                                             *)
ExpandsToTheSeries ==
    status = "returned" =>
        occurrences = FirstOf(InWindow((Series \cup input.rdates) \ input.exdates), MaxOccurrences)

(* The safety cap stops no rule whose window is near: the walk ends there   *)
(* although the rule may never match, after two iterations a day at most    *)
(* for the days from DTSTART to the end of the window, and one for each day *)
(* of its first year that precedes DTSTART (expandRecurrence.ts:11-12,      *)
(* 88-114).                                                                 *)
RulesAreExpanded ==
    LET ahead == IF WallBound \div 24 > input.day THEN (WallBound \div 24) - input.day ELSE 0
    IN Parseable(rule) /\ 2 * ahead + 367 < MaxIterations => status # "failed"
=============================================================================
