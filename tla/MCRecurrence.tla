---------------------------- MODULE MCRecurrence ----------------------------
(* Rules at the edges of months, years, weeks, clock changes and windows.   *)
EXTENDS Recurrence

(* New York and Auckland in 2024.                                           *)
Zones == [ny |-> [before |-> -5, at |-> <<[utc |-> 69 * 24 + 7, offset |-> -4],
                                          [utc |-> 307 * 24 + 6, offset |-> -5]>>],
          nz |-> [before |-> 13, at |-> <<[utc |-> 96 * 24 + 14, offset |-> 12],
                                          [utc |-> 271 * 24 + 14, offset |-> 13]>>]]

Every(freq) == [freq |-> freq, interval |-> 1, count |-> 0, until |-> [kind |-> "none", at |-> 0],
                byDay |-> {}, byMonthDay |-> {}, byMonth |-> {}, bySetPos |-> {}, wkst |-> 1]
On(ordinal, weekdays) == {[weekday |-> w, ordinal |-> ordinal] : w \in weekdays}
Until(kind, at) == [kind |-> kind, at |-> at]

Cases(rules, days, hours, zones, windows, exdates) ==
    {[rule |-> r, day |-> d, hour |-> h, zone |-> z, from |-> w[1] * 24, to |-> w[2] * 24 + e,
      rdates |-> {w[1] * 24 + 5}, exdates |-> x] :
        e \in {2, 11}, r \in rules, d \in days, h \in hours, z \in zones, w \in windows, x \in exdates}

(* A one-off, and days around the change of a clock, cut by COUNT, UNTIL    *)
(* and windows.                                                             *)
Days == {[Every("DAILY") EXCEPT !.interval = i, !.count = c] : i \in {1, 2}, c \in {0, 1, 3}}
          \cup {[Every("DAILY") EXCEPT !.until = u] :
                   u \in {Until("utc", 70 * 24 + 6), Until("wall", 70 * 24 + 2), Until("date", 69)}}
          \cup {[Every("DAILY") EXCEPT !.byMonthDay = {10, -1, -22}, !.byMonth = m] : m \in {{}, {3}}}
          \cup {[Every("DAILY") EXCEPT !.byDay = On(0, {0, 1, 3, 5})], Every("NONE")}
DayCases == Cases(Days, {67}, {2, 23}, {"none", "ny"}, {<<66, 71>>, <<70, 72>>},
                  {{}, {68 * 24 + 2, 69 * 24 + 7}})
              \cup Cases(Days, {94}, {2, 8, 23}, {"nz"}, {<<93, 98>>, <<96, 97>>}, {{}})

(* Weeks that start on Sunday or Monday, every other one.                   *)
Weeks == {[Every("WEEKLY") EXCEPT !.interval = i, !.wkst = s, !.byDay = On(0, ds), !.count = c] :
             i \in {1, 2}, s \in {0, 1}, ds \in {{}, {0, 2}, {1, 6}}, c \in {0, 4}}
           \cup {[Every("WEEKLY") EXCEPT !.byMonth = {4}]}
WeekCases == Cases(Weeks, {66, 69}, {2}, {"none", "ny"}, {<<66, 94>>, <<80, 101>>}, {{}})

(* Ends of months, and days of the week in them.                            *)
MonthDays == {[Every("MONTHLY") EXCEPT !.interval = i, !.byMonthDay = ms] :
                 i \in {1, 2}, ms \in {{}, {31}, {-1}, {29, -31}}}
               \cup {[Every("MONTHLY") EXCEPT !.byDay = e, !.bySetPos = s, !.count = c] :
                        e \in {On(2, {2}), On(-1, {5}), On(5, {3}), On(0, 1..5), On(1, {1}) \cup On(-1, {1})},
                        s \in {{}, {-1}, {1, 3}}, c \in {0, 3}}
               \cup {[Every("MONTHLY") EXCEPT !.byMonthDay = {13, 14, 15}, !.byDay = On(0, {5, 6}), !.bySetPos = s] :
                        s \in {{}, {1}}}
               \cup {[Every("MONTHLY") EXCEPT !.byMonthDay = {30}, !.byMonth = {2}, !.count = 2]}
MonthCases == Cases(MonthDays, {28, 30}, {2}, {"ny"}, {<<28, 125>>, <<60, 130>>}, {{}, {30 * 24 + 7}})

Years == {[Every("YEARLY") EXCEPT !.interval = i, !.byMonth = m] : i \in {1, 2}, m \in {{}, {2, 11}}}
           \cup {[Every("YEARLY") EXCEPT !.byMonth = {3, 11}, !.byDay = e, !.bySetPos = s] :
                    e \in {On(2, {0}), On(-1, {4})}, s \in {{}, {-1}}}
           \cup {[Every("YEARLY") EXCEPT !.byMonthDay = {-1}, !.until = Until("date", 790)]}
YearCases == Cases(Years, {59}, {2}, {"none"}, {<<59, 1100>>, <<700, 1500>>}, {{}})

(* A window that ends before DTSTART, with every day of its year to skip.   *)
EarlyCases == Cases({[Every("YEARLY") EXCEPT !.byMonthDay = 1..31, !.byMonth = 1..12]}, {365}, {2},
                    {"none"}, {<<200, 260>>}, {{}})

(* What the parser refuses.                                                 *)
Refused == {[Every("DAILY") EXCEPT !.count = 2, !.until = Until("date", 70)],
            [Every("WEEKLY") EXCEPT !.bySetPos = {1}], [Every("WEEKLY") EXCEPT !.byDay = On(1, {2})],
            [Every("YEARLY") EXCEPT !.byDay = On(20, {1})]}

(* So far ahead that the cap is met first.                                  *)
FarCases == Cases({Every("DAILY")}, {66}, {2}, {"none"}, {<<600, 630>>}, {{}})

AllCases == FarCases \cup EarlyCases \cup DayCases \cup WeekCases \cup MonthCases \cup YearCases
              \cup Cases(Refused, {66}, {2}, {"none"}, {<<66, 94>>}, {{}})
============================================================================
