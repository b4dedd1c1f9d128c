--------------------------- MODULE CalendarProofs ---------------------------
(***************************************************************************)
(* What is proved of Calendar, for every set of mails and days.            *)
(***************************************************************************)
EXTENDS Calendar, FiniteSetTheorems, WellFoundedInduction, TLAPS

----------------------------------------------------------------------------
(* Least and greatest.                                                      *)

(* A set of numbers has a least one.                                        *)
LEMMA LeastOne ==
  ASSUME NEW S \in SUBSET Nat, S # {}
  PROVE  \E x \in S : \A y \in S : x =< y
<1>1. PICK x \in S : \A y \in S : <<y, x>> \notin OpToRel(<, Nat)
  BY NatLessThanWellFounded, WFMin
<1>2. ASSUME NEW y \in S PROVE x =< y
  <2>1. <<y, x>> \notin {ss \in Nat \X Nat : ss[1] < ss[2]} BY <1>1 DEF OpToRel
  <2>2. <<y, x>> \in Nat \X Nat /\ <<y, x>>[1] = y /\ <<y, x>>[2] = x OBVIOUS
  <2>3. ~(y < x) BY <2>1, <2>2
  <2> QED BY <2>3
<1> QED BY <1>2

(* The day that a loop works on is one of those left.                       *)
LEMMA CurrentIsLeft ==
  ASSUME NEW T \in SUBSET Day, T # {}
  PROVE  Min(T) \in T
<1>1. T \in SUBSET Nat BY CalendarAssumption
<1>2. \E x \in T : \A y \in T : x =< y BY <1>1, LeastOne
<1> QED BY <1>2 DEF Min

(* A finite set of numbers has a greatest one: take one without, as small   *)
(* as possible, and leave out an element.                                   *)
LEMMA GreatestOne ==
  ASSUME NEW S \in SUBSET Int, IsFiniteSet(S), S # {}
  PROVE  Max(S) \in S /\ \A y \in S : Max(S) >= y
<1> DEFINE HasMax(T) == \E x \in T : \A y \in T : x >= y
           Bad == {T \in SUBSET S : T # {} /\ ~HasMax(T)}
           Sizes == {n \in Nat : \E T \in Bad : Cardinality(T) = n}
<1> HIDE DEF HasMax
<1>1. SUFFICES Bad = {}
  <2>1. HasMax(S) BY <1>1
  <2> QED BY <2>1 DEF Max, HasMax
<1>2. SUFFICES ASSUME Bad # {} PROVE FALSE
  OBVIOUS
<1>3. \A T \in SUBSET S : IsFiniteSet(T) /\ Cardinality(T) \in Nat
  BY FS_Subset, FS_CardinalityType
<1>4. Sizes # {} BY <1>2, <1>3
<1>5. PICK n \in Sizes : \A i \in Sizes : n =< i BY <1>4, LeastOne
<1>6. PICK T \in Bad : Cardinality(T) = n BY <1>5
<1>7. PICK x \in T : TRUE BY <1>6
<1> DEFINE rest == T \ {x}
<1>8. Cardinality(rest) = n - 1 BY <1>3, <1>6, <1>7, FS_RemoveElement
<1>9. rest \notin Bad
  <2>1. ASSUME rest \in Bad PROVE FALSE
    <3>1. Cardinality(rest) \in Sizes BY <2>1, <1>3
    <3>2. n =< n - 1 BY <3>1, <1>5, <1>8
    <3>3. n \in Nat BY <1>5
    <3> QED BY <3>2, <3>3
  <2> QED BY <2>1
<1>10. CASE rest = {}
  <2>1. T = {x} BY <1>7, <1>10
  <2>2. HasMax(T) BY <2>1, <1>6 DEF HasMax
  <2> QED BY <2>2, <1>6
<1>11. CASE rest # {}
  <2>1. HasMax(rest) BY <1>9, <1>11, <1>6
  <2>2. PICK y \in rest : \A z \in rest : y >= z BY <2>1 DEF HasMax
  <2>3. x \in Int /\ y \in Int /\ T \subseteq Int BY <1>6, <1>7, <2>2
  <2>4. CASE x >= y
    <3>1. \A z \in T : x >= z BY <2>2, <2>3, <2>4
    <3> QED BY <3>1, <1>6, <1>7 DEF HasMax
  <2>5. CASE ~(x >= y)
    <3>1. \A z \in T : y >= z BY <2>2, <2>3, <2>5
    <3> QED BY <3>1, <1>6, <2>2 DEF HasMax
  <2> QED BY <2>4, <2>5
<1> QED BY <1>10, <1>11

(* The sequence of a cancellation's EXDATEs is a number, no less than that  *)
(* of the series it read.                                                   *)
LEMMA CancelSeqGrows ==
  ASSUME NEW w \in Worker, task[w] \in Admissible, NEW e \in Events
  PROVE  CancelSeq(w, e) \in Int /\ CancelSeq(w, e) >= e.seq
<1> DEFINE O == Overrides(task[w])
           T == {SequenceOf(v) : v \in O}
<1>1. IsFiniteSet(O) BY CalendarAssumption
<1>2. IsFiniteSet(T)
  <2> DEFINE f == [v \in O |-> SequenceOf(v)]
  <2>1. f \in Surjection(O, T) BY DEF Surjection
  <2> QED BY <1>1, <2>1, FS_Surjection
<1>3. IsFiniteSet(T \cup {e.seq}) BY <1>2, FS_AddElement
<1>4. T \subseteq Int BY CalendarAssumption DEF Brought
<1>5. e.seq \in Int BY DEF Events
<1>6. {e.seq} \cup T = T \cup {e.seq} OBVIOUS
<1>7. CancelSeq(w, e) = Max(T \cup {e.seq}) BY <1>6 DEF CancelSeq
<1> QED BY <1>3, <1>4, <1>5, <1>7, GreatestOne

----------------------------------------------------------------------------
(* What mails bring.                                                        *)

(* A mail that is admitted is about days of the model.                      *)
LEMMA DaysOfMail ==
  ASSUME NEW m \in Admissible
  PROVE  /\ OverriddenDays(m) \subseteq Day
         /\ \A k \in OverriddenDays(m) : Override(m, k) \in Overrides(m)
         /\ m \in Message
<1>1. m \in Message BY DEF Admissible
<1>2. OverriddenDays(m) \subseteq Day BY CalendarAssumption DEF OverriddenDays
<1>3. ASSUME NEW k \in OverriddenDays(m) PROVE Override(m, k) \in Overrides(m)
  <2>1. \E v \in Overrides(m) : v.recurrenceId = k BY DEF OverriddenDays
  <2> QED BY <2>1 DEF Override
<1> QED BY <1>1, <1>2, <1>3

(* It is a request or a cancellation.                                       *)
LEMMA KindOfMail ==
  ASSUME NEW m \in Admissible
  PROVE  Invite[m].kind \in {"request", "cancel"}
<1> DEFINE mail == Mail[m]
           sender == Sender(mail)
           text == ExtractCalendarText(mail)
           calendar == ParseCalendar(text)
<1>1. m \in Message /\ Invite[m] = ParseIncomingInvite(mail) BY DEF Admissible, Invite
<1>2. Invite[m].parse \notin {"error", "no_teams_link"}
      /\ ~(Invite[m].parse = "ok" /\ Invite[m].kind = "other")
  BY DEF Admissible, Ignored, Refused
<1>3. \A why : Unusable(why).parse = why BY DEF Unusable
<1>4. \/ Invite[m] = Unusable("error")
      \/ Invite[m] = ParseLinkOnlyInvite(mail, sender)
      \/ Invite[m] = ParseCalendarInvite(mail, calendar)
  BY <1>1 DEF ParseIncomingInvite
<1>5. CASE Invite[m] = ParseLinkOnlyInvite(mail, sender)
  BY <1>2, <1>3, <1>5 DEF ParseLinkOnlyInvite
<1>6. CASE Invite[m] = ParseCalendarInvite(mail, calendar)
  <2>1. calendar.kind \in {"request", "cancel", "other"} BY DEF ParseCalendar, ClassifyMethod
  <2> HIDE DEF mail, calendar
  <2>2. \/ Invite[m] = Unusable("no_teams_link")
        \/ Invite[m].parse = "ok" /\ Invite[m].kind = calendar.kind
    BY <1>6 DEF ParseCalendarInvite
  <2> QED BY <1>2, <1>3, <2>1, <2>2
<1> QED BY <1>2, <1>3, <1>4, <1>5, <1>6

(* The series that a request stores is one.                                 *)
LEMMA SeriesOfMail ==
  ASSUME NEW m \in Admissible, BringsSeries(m)
  PROVE  Series(m) \in Events /\ ComputeAttendeeRows(Master(m)) \in GuestLists
<1>1. Master(m) # None BY DEF BringsSeries
<1>2. Master(m) \in Brought(m) BY <1>1 DEF Brought
<1>3. SequenceOf(Master(m)) \in Int BY <1>2, CalendarAssumption
<1>4. Master(m).days \subseteq Day /\ Master(m).exdates \subseteq Day
  BY <1>1, CalendarAssumption
<1>5. Body(m, Master(m)) \in Bodies BY <1>2 DEF Bodies
<1>6. m \in Message BY DEF Admissible
<1>7. Series(m) \in Events BY <1>3, <1>4, <1>5, <1>6 DEF Series, Events
<1> QED BY <1>1, <1>7 DEF GuestLists

(* And so is the row that is wanted of an occurrence.                       *)
LEMMA WantedIsRow ==
  ASSUME TypeOK, NEW w \in Worker, SeriesOK(w), TaskOK(w), KeysOK(w), At(w, "write")
  PROVE  Wanted(w) \in Rows /\ Current(w) \in local[w].todo /\ Current(w) \in Day
<1>1. local[w] \in Locals BY DEF TypeOK
<1>2. local[w].todo \in SUBSET Day /\ local[w].todo # {}
  BY <1>1 DEF Locals, KeysOK, At, Loop
<1>3. Current(w) \in local[w].todo BY <1>2, CurrentIsLeft DEF Current
<1>4. CASE local[w].over
  <2>1. task[w] \in Admissible /\ Current(w) \in OverriddenDays(task[w])
    BY <1>3, <1>4 DEF KeysOK, At, Loop
  <2> DEFINE new == Override(task[w], Current(w))
  <2>2. new \in Overrides(task[w]) BY <2>1, DaysOfMail
  <2>3. new \in Brought(task[w]) BY <2>2 DEF Brought
  <2>4. SequenceOf(new) \in Int /\ new.start \in Day BY <2>1, <2>2, <2>3, CalendarAssumption
  <2>5. Body(task[w], new) \in Bodies BY <2>1, <2>3 DEF Bodies
  <2> HIDE DEF new
  <2>6. [status |-> "scheduled", start |-> new.start, seq |-> SequenceOf(new),
         body |-> Body(task[w], new), override |-> TRUE] \in Rows
    BY <2>4, <2>5 DEF Rows, Statuses, Untouched, Starts
  <2> QED BY <1>2, <1>3, <1>4, <2>6 DEF Wanted, new
<1>5. CASE ~local[w].over
  <2>1. local[w].event \in Events
    BY <1>1, <1>5 DEF SeriesOK, Expanding, Locals, At, Loop
  <2>2. local[w].event.seq \in Int /\ local[w].event.body \in Bodies BY <2>1 DEF Events
  <2>3. Wanted(w) = [status |-> "scheduled", start |-> Current(w), seq |-> local[w].event.seq,
                     body |-> local[w].event.body, override |-> FALSE]
    BY <1>5 DEF Wanted
  <2>4. Current(w) \in Day BY <1>2, <1>3
  <2> QED BY <1>3, <2>2, <2>3, <2>4 DEF Rows, Statuses, Untouched, Starts
<1>6. local[w].over \in BOOLEAN BY <1>1 DEF Locals
<1> QED BY <1>4, <1>5

----------------------------------------------------------------------------
(* Types, and what a run has: each step gives its own run what it needs,    *)
(* and takes nothing from the others.                                       *)

RunOK(w) == TaskOK(w) /\ SeriesOK(w) /\ KeysOK(w)

Others(w) == \A v \in Worker \ {w} : pc'[v] = pc[v] /\ task'[v] = task[v] /\ local'[v] = local[v]

Keeps ==
    /\ event # NoEvent => event' # NoEvent
    /\ \A k \in Day : occ[k] # NoRow => occ'[k] # NoRow

Sound == TypeOK /\ RunInv /\ RowInv

(* What the assumptions say of the constants.                               *)
LEMMA Facts ==
  /\ Day \subseteq Nat /\ LastDay \in Nat /\ Lead \in Nat /\ Window \in Nat /\ MaxEvents \in Nat
  /\ Nightly \notin Message /\ Nightly # NoMessage /\ NoMessage \notin Message
  /\ Admissible \subseteq Message
  /\ NoEvent \notin Events /\ NoRow \notin Rows
  /\ Blank \in Locals /\ ~Blank.over
BY InboundAssumption, CalendarAssumption, ValueAssumption DEF Admissible, Blank, Locals

(* What canceling rows and jobs leaves.                                     *)
LEMMA CanceledRowsOK ==
  ASSUME TypeOK, NEW K \in SUBSET Day, Exist(K)
  PROVE  /\ CanceledRows(K) \in [Day -> Rows \cup {NoRow}]
         /\ \A k \in Day : occ[k] # NoRow => CanceledRows(K)[k] # NoRow
<1>1. ASSUME NEW k \in Day, occ[k] # NoRow
      PROVE  /\ [occ[k] EXCEPT !.status = "canceled"] \in Rows
             /\ [occ[k] EXCEPT !.status = "canceled"] # NoRow
  BY <1>1, Facts DEF TypeOK, Rows, Statuses
<1> QED BY <1>1 DEF TypeOK, CanceledRows, Exist

(* Canceling jobs leaves none pending, and no other occurrence touched.     *)
LEMMA CancelJoinsOK ==
  ASSUME NEW k \in Day, NEW J \in [Day -> Jobs]
  PROVE  /\ CancelJoins(k, J) \in [Day -> Jobs]
         /\ \A l \in Day, t \in Times :
               /\ CancelJoins(k, J)[l][t] = "pending" => l # k /\ J[l][t] = "pending"
               /\ l # k => CancelJoins(k, J)[l] = J[l]
<1>1. [t \in Times |-> IF J[k][t] = "pending" THEN "canceled" ELSE J[k][t]] \in Jobs
  BY DEF Jobs
<1> QED BY <1>1 DEF CancelJoins

(* The same for a set of occurrences.                                       *)
LEMMA CanceledJoinsOK ==
  ASSUME TypeOK, NEW K \in SUBSET Day
  PROVE  /\ CanceledJoins(K) \in [Day -> Jobs]
         /\ \A k \in Day, t \in Times :
               CanceledJoins(K)[k][t] = "pending" => k \notin K /\ join[k][t] = "pending"
<1>1. join \in [Day -> Jobs] BY DEF TypeOK
<1>2. ASSUME NEW k \in K PROVE CancelJoins(k, join)[k] \in Jobs
  BY <1>1, CancelJoinsOK
<1>3. ASSUME NEW k \in Day, NEW t \in Times, CanceledJoins(K)[k][t] = "pending"
      PROVE  k \notin K /\ join[k][t] = "pending"
  BY <1>1, <1>3, CancelJoinsOK DEF CanceledJoins
<1>4. CanceledJoins(K) \in [Day -> Jobs] BY <1>1, <1>2 DEF CanceledJoins
<1> QED BY <1>3, <1>4

(* A run's notes stay notes when one of them changes.                       *)
LEMMA NotesChange ==
  ASSUME NEW w \in Worker, NEW L \in [Worker -> Locals]
  PROVE  /\ \A K \in SUBSET Day : /\ [L EXCEPT ![w].todo = K] \in [Worker -> Locals]
                                 /\ [L EXCEPT ![w].valid = K] \in [Worker -> Locals]
                                 /\ [L EXCEPT ![w].doomed = K] \in [Worker -> Locals]
                                 /\ [L EXCEPT ![w].bots = K] \in [Worker -> Locals]
         /\ \A b \in BOOLEAN : /\ [L EXCEPT ![w].over = b] \in [Worker -> Locals]
                             /\ [L EXCEPT ![w].moved = b] \in [Worker -> Locals]
         /\ \A r \in Rows \cup {NoRow} : [L EXCEPT ![w].row = r] \in [Worker -> Locals]
BY DEF Locals

(* The bound holds.                                                         *)
LEMMA BeginOK ==
  ASSUME InboundTypeOK, NEW n \in {0, 1}, Begin(n)
  PROVE  deliveries' \in 0..MaxEvents /\ disturbances' \in 0..MaxEvents
<1>1. deliveries \in 0..MaxEvents /\ disturbances \in 0..MaxEvents BY DEF InboundTypeOK
<1>2. CASE Quiet BY <1>1, <1>2, Facts DEF Begin, Spent
<1>3. CASE ~Quiet BY <1>1, <1>3, Facts DEF Begin, Spent
<1> QED BY <1>2, <1>3

(* A run whose own place is untouched stays sound when rows only come to be. *)
LEMMA OthersStaySound ==
  ASSUME NEW w \in Worker, NEW v \in Worker, v # w, Others(w), Keeps, TypeOK, RunOK(v)
  PROVE  RunOK(v)'
<1>1. pc'[v] = pc[v] /\ task'[v] = task[v] /\ local'[v] = local[v] BY DEF Others
<1>2. Current(v)' = Current(v) BY <1>1 DEF Current
<1>3. local[v].doomed \subseteq Day /\ local[v].todo \subseteq Day BY DEF TypeOK, Locals
<1>4. TaskOK(v)' BY <1>1 DEF RunOK, TaskOK, At, Expanding
<1>5. SeriesOK(v)' BY <1>1 DEF RunOK, SeriesOK, At, Expanding, Keeps
<1>6. KeysOK(v)'
  <2>1. ASSUME At(v, "sync") PROVE Current(v) \in Day
    <3>1. local[v].todo # {} BY <2>1 DEF RunOK, KeysOK, At, Loop
    <3> QED BY <1>3, <3>1, CurrentIsLeft DEF Current
  <2>2. (At(v, "sync") => local[v].row # NoRow /\ occ[Current(v)] # NoRow)'
    BY <1>1, <1>2, <2>1 DEF RunOK, KeysOK, At, Keeps
  <2>3. (pc[v] \in {"cut", "cancel"} => Exist(local[v].doomed))'
    BY <1>1, <1>3 DEF RunOK, KeysOK, Exist, Keeps
  <2> QED BY <1>1, <2>2, <2>3 DEF RunOK, KeysOK, At
<1> QED BY <1>4, <1>5, <1>6 DEF RunOK

StepOK(w) == TypeOK' /\ RunOK(w)' /\ Others(w) /\ Keeps /\ RowInv'

(* What the gate leaves: the steps of a run, one lemma for each.            *)
LEMMA GateStep ==
  ASSUME Sound, NEW w \in Worker, GateMail(w)
  PROVE  StepOK(w)
<1> USE DEF GateMail, Gate, Goto, Finish, calendarVars, At
<1>1. TypeOK'
  BY Facts DEF Sound, TypeOK, InboundTypeOK, RunInv, TaskOK, Stages, Working
<1>2. Others(w) /\ Keeps BY DEF Sound, TypeOK, Others, Keeps
<1>3. RunOK(w)'
  <2>1. task[w] \in Message BY DEF Sound, RunInv, TaskOK
  <2>2. TaskOK(w)'
    BY <2>1, Facts DEF Sound, TypeOK, TaskOK, Expanding, Saving, Canceling, Loop, Admissible
  <2>3. SeriesOK(w)' BY DEF Sound, TypeOK, SeriesOK, Expanding, Saving, Canceling, Loop, Locals
  <2>4. KeysOK(w)' BY Facts DEF Sound, TypeOK, RunInv, KeysOK, Loop, Locals
  <2> QED BY <2>2, <2>3, <2>4 DEF RunOK
<1>4. RowInv' BY DEF Sound, RowInv
<1> QED BY <1>1, <1>2, <1>3, <1>4 DEF StepOK

(* The dispatch of a mail.                                                  *)
LEMMA IngestOK ==
  ASSUME Sound, NEW w \in Worker, Ingest(w)
  PROVE  StepOK(w)
<1> USE DEF Ingest, Goto, Recall, doneVars, rowVars, inboundVars, At
<1>1. TypeOK'
  BY Facts DEF Sound, TypeOK, InboundTypeOK, Stages, Working, Locals
<1>2. Others(w) /\ Keeps BY DEF Sound, TypeOK, Others, Keeps
<1>3. RunOK(w)'
  <2>1. task[w] \in Admissible /\ task'[w] = task[w] BY DEF Sound, RunInv, TaskOK
  <2>2. TaskOK(w)'
    BY <2>1, KindOfMail DEF Sound, TypeOK, TaskOK, Expanding, Saving, Canceling, Loop
  <2>3. SeriesOK(w)' BY DEF Sound, TypeOK, SeriesOK, Expanding, Saving, Canceling, Loop, Locals
  <2>4. KeysOK(w)' BY DEF Sound, TypeOK, RunInv, KeysOK, Loop, Locals
  <2> QED BY <2>2, <2>3, <2>4 DEF RunOK
<1>4. RowInv' BY DEF Sound, RowInv
<1> QED BY <1>1, <1>2, <1>3, <1>4 DEF StepOK

(* The upsert of the series.                                                *)
LEMMA StoreOK ==
  ASSUME Sound, NEW w \in Worker, Store(w)
  PROVE  StepOK(w)
<1> USE DEF Store, Goto, Recall, Finish, Forget, doneVars, rowVars, inboundVars, At
<1>0. Series(task[w]) \in Events BY SeriesOfMail DEF Sound, RunInv, TaskOK, Saving
<1>1. TypeOK'
  BY Facts, <1>0 DEF Sound, TypeOK, InboundTypeOK, Stages, Working, Locals
<1>2. Others(w) /\ Keeps BY <1>0, Facts DEF Sound, TypeOK, Others, Keeps
<1>3. RunOK(w)'
  <2>1. TaskOK(w)'
    BY Facts DEF Sound, TypeOK, RunInv, TaskOK, Expanding, Saving, Canceling, Loop
  <2>2. SeriesOK(w)'
    BY <1>0, Facts DEF Sound, TypeOK, RunInv, SeriesOK, Expanding, Saving, Canceling, Loop, Locals
  <2>3. KeysOK(w)'
    BY Facts DEF Sound, TypeOK, RunInv, KeysOK, Loop, Locals
  <2> QED BY <2>1, <2>2, <2>3 DEF RunOK
<1>4. RowInv' BY DEF Sound, RowInv
<1> QED BY <1>1, <1>2, <1>3, <1>4 DEF StepOK

(* The second reading of the series.                                        *)
LEMMA ReadSavedOK ==
  ASSUME Sound, NEW w \in Worker, ReadSaved(w)
  PROVE  StepOK(w)
<1> USE DEF ReadSaved, Goto, Recall, Finish, Forget, doneVars, rowVars, inboundVars, At
<1>1. TypeOK'
  BY Facts DEF Sound, TypeOK, InboundTypeOK, Stages, Working, Locals
<1>2. Others(w) /\ Keeps BY DEF Sound, TypeOK, Others, Keeps
<1>3. RunOK(w)'
  <2>1. TaskOK(w)'
    BY Facts DEF Sound, TypeOK, RunInv, TaskOK, Expanding, Saving, Canceling, Loop
  <2>2. SeriesOK(w)'
    BY DEF Sound, TypeOK, RunInv, SeriesOK, Expanding, Saving, Canceling, Loop, Locals
  <2>3. KeysOK(w)'
    BY Facts DEF Sound, TypeOK, RunInv, KeysOK, Loop, Locals
  <2> QED BY <2>1, <2>2, <2>3 DEF RunOK
<1>4. RowInv' BY DEF Sound, RowInv
<1> QED BY <1>1, <1>2, <1>3, <1>4 DEF StepOK

(* The attendee rows.                                                       *)
LEMMA ReplaceGuestsOK ==
  ASSUME Sound, NEW w \in Worker, ReplaceGuests(w)
  PROVE  StepOK(w)
<1> USE DEF ReplaceGuests, Goto, Recall, Finish, Forget, doneVars, rowVars, inboundVars, At
<1>0. ComputeAttendeeRows(Master(task[w])) \in GuestLists
  BY SeriesOfMail DEF Sound, RunInv, TaskOK, Saving
<1>1. TypeOK'
  BY Facts, <1>0 DEF Sound, TypeOK, InboundTypeOK, Stages, Working, Locals
<1>2. Others(w) /\ Keeps BY DEF Sound, TypeOK, Others, Keeps
<1>3. RunOK(w)'
  <2>1. TaskOK(w)'
    BY Facts DEF Sound, TypeOK, RunInv, TaskOK, Expanding, Saving, Canceling, Loop
  <2>2. SeriesOK(w)'
    BY DEF Sound, TypeOK, RunInv, SeriesOK, Expanding, Saving, Canceling, Loop, Locals
  <2>3. KeysOK(w)'
    BY Facts DEF Sound, TypeOK, RunInv, KeysOK, Loop, Locals
  <2> QED BY <2>1, <2>2, <2>3 DEF RunOK
<1>4. RowInv' BY DEF Sound, RowInv
<1> QED BY <1>1, <1>2, <1>3, <1>4 DEF StepOK

(* The days to do.                                                          *)
LEMMA ExpandOK ==
  ASSUME Sound, NEW w \in Worker, Expand(w)
  PROVE  StepOK(w)
<1> USE DEF Expand, Goto, Recall, Finish, Forget, doneVars, rowVars, inboundVars, At
<1>0. Instances(local[w].event) \subseteq Day /\ Overridden \subseteq Day
  BY Facts DEF Sound, TypeOK, RunInv, SeriesOK, Expanding, Locals, Events, Instances, Overridden
<1>00. local' \in [Worker -> Locals]
  <2> DEFINE e == local[w].event
             L == [local EXCEPT ![w].todo = Instances(e) \ Overridden]
  <2>1. L \in [Worker -> Locals] BY <1>0, NotesChange DEF Sound, TypeOK
  <2>2. [L EXCEPT ![w].valid = Instances(e) \cup Overridden] \in [Worker -> Locals]
    BY <1>0, <2>1, NotesChange
  <2>3. local \in [Worker -> Locals] BY DEF Sound, TypeOK
  <2> QED BY <2>2, <2>3
<1>1. TypeOK'
  BY Facts, <1>00, <1>0 DEF Sound, TypeOK, InboundTypeOK, Stages, Working, Locals
<1>2. Others(w) /\ Keeps BY DEF Sound, TypeOK, Others, Keeps
<1>3. RunOK(w)'
  <2>1. TaskOK(w)'
    BY Facts DEF Sound, TypeOK, RunInv, TaskOK, Expanding, Saving, Canceling, Loop
  <2>2. SeriesOK(w)'
    BY DEF Sound, TypeOK, RunInv, SeriesOK, Expanding, Saving, Canceling, Loop, Locals
  <2>3. KeysOK(w)'
    BY Facts DEF Sound, TypeOK, RunInv, KeysOK, Loop, Locals
  <2> QED BY <2>1, <2>2, <2>3 DEF RunOK
<1>4. RowInv' BY DEF Sound, RowInv
<1> QED BY <1>1, <1>2, <1>3, <1>4 DEF StepOK

(* The reading of an occurrence.                                            *)
LEMMA LookOK ==
  ASSUME Sound, NEW w \in Worker, Look(w)
  PROVE  StepOK(w)
<1> USE DEF Look, Goto, Recall, Finish, Forget, doneVars, rowVars, inboundVars, At
<1>0. local[w].todo \subseteq Day /\ local[w].todo # {}
  BY DEF Sound, TypeOK, RunInv, KeysOK, Locals, Loop
<1>01. Current(w) \in Day BY <1>0, CurrentIsLeft DEF Current
<1>1. TypeOK'
  BY Facts, <1>01 DEF Sound, TypeOK, InboundTypeOK, Stages, Working, Locals
<1>2. Others(w) /\ Keeps BY DEF Sound, TypeOK, Others, Keeps
<1>3. RunOK(w)'
  <2>1. TaskOK(w)'
    BY Facts DEF Sound, TypeOK, RunInv, TaskOK, Expanding, Saving, Canceling, Loop
  <2>2. SeriesOK(w)'
    BY DEF Sound, TypeOK, RunInv, SeriesOK, Expanding, Saving, Canceling, Loop, Locals
  <2>3. KeysOK(w)'
    BY Facts DEF Sound, TypeOK, RunInv, KeysOK, Loop, Locals
  <2> QED BY <2>1, <2>2, <2>3 DEF RunOK
<1>4. RowInv' BY DEF Sound, RowInv
<1> QED BY <1>1, <1>2, <1>3, <1>4 DEF StepOK

(* The list of obsolete occurrences.                                        *)
LEMMA PruneOK ==
  ASSUME Sound, NEW w \in Worker, Prune(w)
  PROVE  StepOK(w)
<1> USE DEF Prune, Goto, Recall, Finish, Forget, doneVars, rowVars, inboundVars, At
<1>1. TypeOK'
  BY Facts DEF Sound, TypeOK, InboundTypeOK, Stages, Working, Locals
<1>2. Others(w) /\ Keeps BY DEF Sound, TypeOK, Others, Keeps
<1>3. RunOK(w)'
  <2>1. TaskOK(w)'
    BY Facts DEF Sound, TypeOK, RunInv, TaskOK, Expanding, Saving, Canceling, Loop
  <2>2. SeriesOK(w)'
    BY DEF Sound, TypeOK, RunInv, SeriesOK, Expanding, Saving, Canceling, Loop, Locals
  <2>3. KeysOK(w)'
    BY Facts DEF Sound, TypeOK, RunInv, KeysOK, Loop, Locals, Exist
  <2> QED BY <2>1, <2>2, <2>3 DEF RunOK
<1>4. RowInv' BY DEF Sound, RowInv
<1> QED BY <1>1, <1>2, <1>3, <1>4 DEF StepOK

(* The list of occurrences to cancel.                                       *)
LEMMA ListOK ==
  ASSUME Sound, NEW w \in Worker, List(w)
  PROVE  StepOK(w)
<1> USE DEF List, Goto, Recall, Finish, Forget, doneVars, rowVars, inboundVars, At
<1>0. local' \in [Worker -> Locals]
  <2> DEFINE keys == IF OverriddenDays(task[w]) = {} THEN Day ELSE OverriddenDays(task[w])
             open == {k \in keys : occ[k] # NoRow /\ occ[k].status \in Untouched \cup {"in_meeting"}}
             L == [local EXCEPT ![w].doomed = open]
  <2>1. task[w] \in Admissible BY DEF Sound, RunInv, TaskOK, Canceling
  <2>2. keys \subseteq Day BY <2>1, DaysOfMail
  <2>3. open \subseteq Day /\ {k \in open : bot[k] # "none"} \subseteq Day BY <2>2
  <2>4. local' = [L EXCEPT ![w].bots = {k \in open : bot[k] # "none"}] OBVIOUS
  <2> DEFINE bots == {k \in open : bot[k] # "none"}
  <2> HIDE DEF open
  <2>5. L \in [Worker -> Locals] BY <2>3, NotesChange DEF Sound, TypeOK
  <2>6. bots \in SUBSET Day BY <2>3
  <2>7. local' = [L EXCEPT ![w].bots = bots] BY <2>4
  <2> HIDE DEF L, bots
  <2>8. [L EXCEPT ![w].bots = bots] \in [Worker -> Locals] BY <2>5, <2>6, NotesChange
  <2> QED BY <2>7, <2>8
<1>1. TypeOK'
  BY Facts, <1>0 DEF Sound, TypeOK, InboundTypeOK, Stages, Working, Locals
<1>2. Others(w) /\ Keeps BY DEF Sound, TypeOK, Others, Keeps
<1>3. RunOK(w)'
  <2>1. TaskOK(w)'
    BY Facts DEF Sound, TypeOK, RunInv, TaskOK, Expanding, Saving, Canceling, Loop
  <2>2. SeriesOK(w)'
    BY DEF Sound, TypeOK, RunInv, SeriesOK, Expanding, Saving, Canceling, Loop, Locals
  <2>3. KeysOK(w)'
    BY Facts DEF Sound, TypeOK, RunInv, KeysOK, Loop, Locals, Exist, Canceling
  <2> QED BY <2>1, <2>2, <2>3 DEF RunOK
<1>4. RowInv' BY DEF Sound, RowInv
<1> QED BY <1>1, <1>2, <1>3, <1>4 DEF StepOK

(* The jobs of what was canceled.                                           *)
LEMMA DropJoinsOK ==
  ASSUME Sound, NEW w \in Worker, DropJoins(w)
  PROVE  StepOK(w)
<1> USE DEF DropJoins, Goto, Recall, Finish, Forget, doneVars, rowVars, inboundVars, At
<1>0. local[w].doomed \in SUBSET Day BY DEF Sound, TypeOK, Locals
<1>01. CanceledJoins(local[w].doomed) \in [Day -> Jobs] BY <1>0, CanceledJoinsOK DEF Sound
<1>1. TypeOK'
  BY Facts, <1>01 DEF Sound, TypeOK, InboundTypeOK, Stages, Working, Locals
<1>2. Others(w) /\ Keeps BY DEF Sound, TypeOK, Others, Keeps
<1>3. RunOK(w)'
  <2>1. TaskOK(w)'
    BY Facts DEF Sound, TypeOK, RunInv, TaskOK, Expanding, Saving, Canceling, Loop
  <2>2. SeriesOK(w)'
    BY DEF Sound, TypeOK, RunInv, SeriesOK, Expanding, Saving, Canceling, Loop, Locals
  <2>3. KeysOK(w)'
    BY Facts DEF Sound, TypeOK, RunInv, KeysOK, Loop, Locals
  <2> QED BY <2>1, <2>2, <2>3 DEF RunOK
<1>4. RowInv' BY <1>0, CanceledJoinsOK DEF Sound, RowInv
<1> QED BY <1>1, <1>2, <1>3, <1>4 DEF StepOK

(* The outcome of a mail.                                                   *)
LEMMA ResolveOK ==
  ASSUME Sound, NEW w \in Worker, ResolveMail(w)
  PROVE  StepOK(w)
<1> USE DEF ResolveMail, Resolve, calendarVars, Goto, Recall, Finish, Forget, doneVars, rowVars, inboundVars, At
<1>1. TypeOK'
  BY Facts DEF Sound, TypeOK, InboundTypeOK, Stages, Working, Locals
<1>2. Others(w) /\ Keeps BY DEF Sound, TypeOK, Others, Keeps
<1>3. RunOK(w)'
  <2>1. TaskOK(w)'
    BY Facts DEF Sound, TypeOK, RunInv, TaskOK, Expanding, Saving, Canceling, Loop
  <2>2. SeriesOK(w)'
    BY DEF Sound, TypeOK, RunInv, SeriesOK, Expanding, Saving, Canceling, Loop, Locals
  <2>3. KeysOK(w)'
    BY Facts DEF Sound, TypeOK, RunInv, KeysOK, Loop, Locals
  <2> QED BY <2>1, <2>2, <2>3 DEF RunOK
<1>4. RowInv' BY DEF Sound, RowInv
<1> QED BY <1>1, <1>2, <1>3, <1>4 DEF StepOK

(* The end of a mail's run.                                                 *)
LEMMA NotifyOK ==
  ASSUME Sound, NEW w \in Worker, Notify(w)
  PROVE  StepOK(w)
<1> USE DEF Notify, Goto, Recall, Finish, Forget, doneVars, rowVars, inboundVars, At
<1>1. TypeOK'
  BY Facts DEF Sound, TypeOK, InboundTypeOK, Stages, Working, Locals
<1>2. Others(w) /\ Keeps BY DEF Sound, TypeOK, Others, Keeps
<1>3. RunOK(w)'
  <2>1. TaskOK(w)'
    BY Facts DEF Sound, TypeOK, RunInv, TaskOK, Expanding, Saving, Canceling, Loop
  <2>2. SeriesOK(w)'
    BY DEF Sound, TypeOK, RunInv, SeriesOK, Expanding, Saving, Canceling, Loop, Locals
  <2>3. KeysOK(w)'
    BY Facts DEF Sound, TypeOK, RunInv, KeysOK, Loop, Locals
  <2> QED BY <2>1, <2>2, <2>3 DEF RunOK
<1>4. RowInv' BY DEF Sound, RowInv
<1> QED BY <1>1, <1>2, <1>3, <1>4 DEF StepOK

(* A run that dies.                                                         *)
LEMMA FailOK ==
  ASSUME Sound, NEW w \in Worker, FailRun(w)
  PROVE  StepOK(w)
<1> USE DEF FailRun, Fail, Goto, Recall, Finish, Forget, doneVars, rowVars, inboundVars, At
<1>1. TypeOK'
  BY Facts DEF Sound, TypeOK, InboundTypeOK, Stages, Working, Locals, Spent
<1>2. Others(w) /\ Keeps BY DEF Sound, TypeOK, Others, Keeps
<1>3. RunOK(w)'
  <2>1. TaskOK(w)'
    BY Facts DEF Sound, TypeOK, RunInv, TaskOK, Expanding, Saving, Canceling, Loop
  <2>2. SeriesOK(w)'
    BY DEF Sound, TypeOK, RunInv, SeriesOK, Expanding, Saving, Canceling, Loop, Locals
  <2>3. KeysOK(w)'
    BY Facts DEF Sound, TypeOK, RunInv, KeysOK, Loop, Locals
  <2> QED BY <2>1, <2>2, <2>3 DEF RunOK
<1>4. RowInv' BY DEF Sound, RowInv
<1> QED BY <1>1, <1>2, <1>3, <1>4 DEF StepOK

(* The nightly run begins.                                                  *)
LEMMA ExpandRecurrencesOK ==
  ASSUME Sound, NEW w \in Worker, ExpandRecurrences(w)
  PROVE  StepOK(w)
<1> USE DEF ExpandRecurrences, Goto, Recall, Finish, Forget, doneVars, rowVars, inboundVars, At
<1>0. deliveries' \in 0..MaxEvents /\ disturbances' \in 0..MaxEvents
  BY BeginOK DEF Sound, TypeOK
<1>1. TypeOK'
  <2>1. InboundTypeOK' BY <1>0 DEF Sound, TypeOK, InboundTypeOK
  <2> QED BY <2>1, Facts DEF Sound, TypeOK, Stages, Working, Locals
<1>2. Others(w) /\ Keeps BY DEF Sound, TypeOK, Others, Keeps
<1>3. RunOK(w)'
  <2>1. TaskOK(w)'
    BY Facts DEF Sound, TypeOK, RunInv, TaskOK, Expanding, Saving, Canceling, Loop
  <2>2. SeriesOK(w)'
    BY DEF Sound, TypeOK, RunInv, SeriesOK, Expanding, Saving, Canceling, Loop, Locals
  <2>3. KeysOK(w)'
    BY Facts DEF Sound, TypeOK, RunInv, KeysOK, Loop, Locals
  <2> QED BY <2>1, <2>2, <2>3 DEF RunOK
<1>4. RowInv' BY DEF Sound, RowInv
<1> QED BY <1>1, <1>2, <1>3, <1>4 DEF StepOK

(* The end of an expansion.                                                 *)
LEMMA MarkOK ==
  ASSUME Sound, NEW w \in Worker, Mark(w)
  PROVE  StepOK(w)
<1> USE DEF Mark, Goto, Recall, Finish, Forget, doneVars, rowVars, inboundVars, At
<1>0. local' \in [Worker -> Locals]
  <2> DEFINE L == [local EXCEPT ![w].todo = OverriddenDays(task[w])]
  <2>1. local \in [Worker -> Locals] BY DEF Sound, TypeOK
  <2>2. CASE task[w] = Nightly
    <3>1. local' = [local EXCEPT ![w] = Blank] BY <2>2
    <3> QED BY <2>1, <3>1, Facts
  <2>3. CASE task[w] # Nightly
    <3>1. OverriddenDays(task[w]) \subseteq Day
      BY <2>3, DaysOfMail DEF Sound, RunInv, TaskOK
    <3>2. L \in [Worker -> Locals] BY <2>1, <3>1, NotesChange
    <3>3. local' = [L EXCEPT ![w].over = TRUE] BY <2>3
    <3> QED BY <3>2, <3>3, NotesChange
  <2> QED BY <2>2, <2>3
<1>01. expanded' \in 0..(LastDay + Window) BY Facts DEF Sound, TypeOK, Times
<1>1. TypeOK'
  <2>1. CASE task[w] = Nightly
    BY <1>0, <1>01, <2>1, Facts DEF Sound, TypeOK, InboundTypeOK, Stages, Working
  <2>2. CASE task[w] # Nightly
    BY <1>0, <1>01, <2>2, Facts DEF Sound, TypeOK, InboundTypeOK, Stages, Working
  <2> QED BY <2>1, <2>2
<1>2. Others(w) /\ Keeps BY DEF Sound, TypeOK, Others, Keeps
<1>3. RunOK(w)'
  <2>1. TaskOK(w)'
    BY Facts DEF Sound, TypeOK, RunInv, TaskOK, Expanding, Saving, Canceling, Loop, Locals
  <2>2. SeriesOK(w)'
    BY DEF Sound, TypeOK, RunInv, SeriesOK, Expanding, Saving, Canceling, Loop, Locals
  <2>3. KeysOK(w)'
    BY Facts DEF Sound, TypeOK, RunInv, KeysOK, Loop, Locals
  <2> QED BY <2>1, <2>2, <2>3 DEF RunOK
<1>4. RowInv' BY DEF Sound, RowInv
<1> QED BY <1>1, <1>2, <1>3, <1>4 DEF StepOK

(* The cut of a prune.                                                      *)
LEMMA CutOK ==
  ASSUME Sound, NEW w \in Worker, Cut(w)
  PROVE  StepOK(w)
<1> USE DEF Cut, Goto, Recall, Finish, Forget, doneVars, rowVars, inboundVars, At
<1>0. local[w].doomed \in SUBSET Day /\ Exist(local[w].doomed)
  BY DEF Sound, TypeOK, RunInv, KeysOK, Locals
<1>01. occ' \in [Day -> Rows \cup {NoRow}] BY <1>0, CanceledRowsOK DEF Sound
<1>02. join' \in [Day -> Jobs] BY <1>0, CanceledJoinsOK DEF Sound
<1>1. TypeOK'
  BY Facts, <1>0, <1>01, <1>02 DEF Sound, TypeOK, InboundTypeOK, Stages, Working, Locals
<1>2. Others(w) /\ Keeps BY <1>0, CanceledRowsOK DEF Sound, TypeOK, Others, Keeps
<1>3. RunOK(w)'
  <2>1. TaskOK(w)'
    BY Facts DEF Sound, TypeOK, RunInv, TaskOK, Expanding, Saving, Canceling, Loop
  <2>2. SeriesOK(w)'
    BY DEF Sound, TypeOK, RunInv, SeriesOK, Expanding, Saving, Canceling, Loop, Locals
  <2>3. KeysOK(w)'
    BY Facts DEF Sound, TypeOK, RunInv, KeysOK, Loop, Locals
  <2> QED BY <2>1, <2>2, <2>3 DEF RunOK
<1>4. RowInv' BY <1>0, CanceledRowsOK, CanceledJoinsOK DEF Sound, RowInv
<1> QED BY <1>1, <1>2, <1>3, <1>4 DEF StepOK

(* The cancellation of occurrences.                                         *)
LEMMA CancelOK ==
  ASSUME Sound, NEW w \in Worker, Cancel(w)
  PROVE  StepOK(w)
<1> USE DEF Cancel, Goto, Recall, Finish, Forget, doneVars, rowVars, inboundVars, At
<1>0. local[w].doomed \in SUBSET Day /\ Exist(local[w].doomed)
  BY DEF Sound, TypeOK, RunInv, KeysOK, Locals
<1>01. occ' \in [Day -> Rows \cup {NoRow}] BY <1>0, CanceledRowsOK DEF Sound
<1>1. TypeOK'
  BY Facts, <1>01 DEF Sound, TypeOK, InboundTypeOK, Stages, Working, Locals
<1>2. Others(w) /\ Keeps BY <1>0, CanceledRowsOK DEF Sound, TypeOK, Others, Keeps
<1>3. RunOK(w)'
  <2>1. TaskOK(w)'
    BY Facts DEF Sound, TypeOK, RunInv, TaskOK, Expanding, Saving, Canceling, Loop
  <2>2. SeriesOK(w)'
    BY DEF Sound, TypeOK, RunInv, SeriesOK, Expanding, Saving, Canceling, Loop, Locals
  <2>3. KeysOK(w)'
    BY Facts DEF Sound, TypeOK, RunInv, KeysOK, Loop, Locals
  <2> QED BY <2>1, <2>2, <2>3 DEF RunOK
<1>4. RowInv' BY <1>0, CanceledRowsOK DEF Sound, RowInv
<1> QED BY <1>1, <1>2, <1>3, <1>4 DEF StepOK

(* The cancellation of the series.                                          *)
LEMMA CloseOK ==
  ASSUME Sound, NEW w \in Worker, CloseSeries(w)
  PROVE  StepOK(w)
<1> USE DEF CloseSeries, Goto, Recall, Finish, Forget, doneVars, rowVars, inboundVars, At
<1>0. event \in Events /\ local[w].event \in Events
  BY DEF Sound, TypeOK, RunInv, SeriesOK, Canceling, Locals
<1>01. event' \in Events
  <2>1. task[w] \in Admissible /\ Invite[task[w]].kind = "cancel" /\ OverriddenDays(task[w]) = {}
    BY DEF Sound, RunInv, TaskOK, Canceling
  <2>2. Overrides(task[w]) = {} BY <2>1 DEF OverriddenDays
  <2>3. Master(task[w]) \in Brought(task[w]) BY <2>1, <2>2, CalendarAssumption DEF Brought
  <2>4. SequenceOf(Master(task[w])) \in Int BY <2>1, <2>3, CalendarAssumption
  <2> DEFINE sequence == IF Master(task[w]).sequence = None THEN local[w].event.seq
                         ELSE Master(task[w]).sequence
  <2>5. sequence \in Int BY <1>0, <2>4 DEF SequenceOf, Events
  <2> HIDE DEF sequence
  <2>6. event' = [event EXCEPT !.status = "canceled", !.seq = sequence] \/ event' = event
    BY DEF sequence
  <2> QED BY <1>0, <2>5, <2>6 DEF Events
<1>02. event' # NoEvent BY <1>01, Facts
<1>1. TypeOK'
  BY Facts, <1>01 DEF Sound, TypeOK, InboundTypeOK, Stages, Working, Locals
<1>2. Others(w) /\ Keeps BY <1>02 DEF Sound, TypeOK, Others, Keeps
<1>3. RunOK(w)'
  <2>1. TaskOK(w)'
    BY Facts DEF Sound, TypeOK, RunInv, TaskOK, Expanding, Saving, Canceling, Loop
  <2>2. SeriesOK(w)'
    BY <1>02 DEF Sound, TypeOK, RunInv, SeriesOK, Expanding, Saving, Canceling, Loop, Locals
  <2>3. KeysOK(w)'
    BY Facts DEF Sound, TypeOK, RunInv, KeysOK, Loop, Locals
  <2> QED BY <2>1, <2>2, <2>3 DEF RunOK
<1>4. RowInv' BY DEF Sound, RowInv
<1> QED BY <1>1, <1>2, <1>3, <1>4 DEF StepOK

(* The reading before exdates are stored.                                   *)
LEMMA ReadForExdatesOK ==
  ASSUME Sound, NEW w \in Worker, ReadForExdates(w)
  PROVE  StepOK(w)
<1> USE DEF ReadForExdates, Goto, Recall, Finish, Forget, doneVars, rowVars, inboundVars, At
<1>0. /\ event \in Events /\ local[w].event \in Events
      /\ task[w] \in Admissible /\ OverriddenDays(task[w]) \subseteq Day
  BY DaysOfMail DEF Sound, TypeOK, RunInv, TaskOK, SeriesOK, Canceling, Locals
<1>01. CancelSeq(w, local[w].event) \in Int BY <1>0, CancelSeqGrows
<1> DEFINE new == [event EXCEPT !.seq = CancelSeq(w, local[w].event),
                                !.ex = local[w].event.ex \cup OverriddenDays(task[w])]
<1>03. new \in Events BY <1>0, <1>01 DEF Events
<1>04. new # NoEvent BY <1>03, Facts
<1>05. \/ local' = local /\ Goto(w, "drop")
       \/ local' = [local EXCEPT ![w].event = new] /\ Goto(w, "exdates")
  OBVIOUS
<1> HIDE DEF new
<1>1. TypeOK'
  <2>0. local \in [Worker -> Locals] BY DEF Sound, TypeOK
  <2>1. local' \in [Worker -> Locals] BY <1>03, <1>05, <2>0 DEF Locals
  <2>2. (pc' \in [Worker -> Stages]) /\ (\A v \in Worker : Working(v) <=> task[v] # NoMessage)'
    BY <1>05 DEF Sound, TypeOK, Stages, Working
  <2> QED BY <2>1, <2>2 DEF Sound, TypeOK, InboundTypeOK
<1>2. Others(w) /\ Keeps BY DEF Sound, TypeOK, Others, Keeps
<1>3. RunOK(w)'
  <2>1. TaskOK(w)'
    BY Facts DEF Sound, TypeOK, RunInv, TaskOK, Expanding, Saving, Canceling, Loop
  <2>2. SeriesOK(w)'
    BY <1>04, <1>05 DEF Sound, TypeOK, RunInv, SeriesOK, Expanding, Saving, Canceling, Loop, Locals
  <2>3. KeysOK(w)'
    BY Facts DEF Sound, TypeOK, RunInv, KeysOK, Loop, Locals
  <2> QED BY <2>1, <2>2, <2>3 DEF RunOK
<1>4. RowInv' BY DEF Sound, RowInv
<1> QED BY <1>1, <1>2, <1>3, <1>4 DEF StepOK

(* The exdates.                                                             *)
LEMMA StoreExdatesOK ==
  ASSUME Sound, NEW w \in Worker, StoreExdates(w)
  PROVE  StepOK(w)
<1> USE DEF StoreExdates, Goto, Recall, Finish, Forget, doneVars, rowVars, inboundVars, At
<1>1. TypeOK'
  BY Facts DEF Sound, TypeOK, InboundTypeOK, Stages, Working, Locals
<1>2. Others(w) /\ Keeps BY DEF Sound, RunInv, SeriesOK, Canceling, TypeOK, Others, Keeps
<1>3. RunOK(w)'
  <2>1. TaskOK(w)'
    BY Facts DEF Sound, TypeOK, RunInv, TaskOK, Expanding, Saving, Canceling, Loop
  <2>2. SeriesOK(w)'
    BY DEF Sound, TypeOK, RunInv, SeriesOK, Expanding, Saving, Canceling, Loop, Locals
  <2>3. KeysOK(w)'
    BY Facts DEF Sound, TypeOK, RunInv, KeysOK, Loop, Locals
  <2> QED BY <2>1, <2>2, <2>3 DEF RunOK
<1>4. RowInv' BY DEF Sound, RowInv
<1> QED BY <1>1, <1>2, <1>3, <1>4 DEF StepOK

(* A mail comes.                                                            *)
LEMMA ReceiveOK ==
  ASSUME Sound, NEW w \in Worker, NEW m \in Message, ReceiveMail(w, m)
  PROVE  StepOK(w)
<1> USE DEF ReceiveMail, Receive, Goto, Recall, Finish, Forget, doneVars, rowVars, inboundVars, At
<1>0. deliveries' \in 0..MaxEvents /\ disturbances' \in 0..MaxEvents
  BY BeginOK DEF Sound, TypeOK
<1>1. TypeOK'
  <2>1. InboundTypeOK' BY <1>0 DEF Sound, TypeOK, InboundTypeOK
  <2>2. CASE inbox[m] = "none"
    BY <2>1, <2>2, Facts DEF Sound, TypeOK, Stages, Working
  <2>3. CASE inbox[m] # "none"
    BY <2>1, <2>3, Facts DEF Sound, TypeOK, Stages, Working
  <2> QED BY <2>2, <2>3
<1>2. Others(w) /\ Keeps BY DEF Sound, TypeOK, Others, Keeps
<1>3. RunOK(w)'
  <2>1. TaskOK(w)'
    BY Facts DEF Sound, TypeOK, RunInv, TaskOK, Expanding, Saving, Canceling, Loop
  <2>2. SeriesOK(w)'
    BY DEF Sound, TypeOK, RunInv, SeriesOK, Expanding, Saving, Canceling, Loop, Locals
  <2>3. KeysOK(w)'
    BY Facts DEF Sound, TypeOK, RunInv, KeysOK, Loop, Locals, Working
  <2> QED BY <2>1, <2>2, <2>3 DEF RunOK
<1>4. RowInv' BY DEF Sound, RowInv
<1> QED BY <1>1, <1>2, <1>3, <1>4 DEF StepOK

(* On to the next key, with the row that was written or none.               *)
LEMMA NextKeyOK ==
  ASSUME Sound, NEW w \in Worker, pc[w] \in {"write", "sync"}, NextKey(w), UNCHANGED task,
         Keeps
  PROVE  /\ local' \in [Worker -> Locals] /\ pc' \in [Worker -> Stages]
         /\ \A v \in Worker : pc'[v] # "idle" <=> pc[v] # "idle"
         /\ Others(w) /\ RunOK(w)'
<1> DEFINE rest == local[w].todo \ {Current(w)}
           L == [local EXCEPT ![w].todo = rest]
<1> USE DEF Goto
<1>1. local \in [Worker -> Locals] /\ pc \in [Worker -> Stages] BY DEF Sound, TypeOK
<1>2. rest \subseteq Day /\ NoRow \in Rows \cup {NoRow} BY <1>1 DEF Locals
<1>3. L \in [Worker -> Locals] BY <1>1, <1>2, NotesChange
<1>4. local' = [L EXCEPT ![w].row = NoRow] BY DEF NextKey
<1>5. local' \in [Worker -> Locals] BY <1>2, <1>3, <1>4, NotesChange
<1>6. pc' = [pc EXCEPT ![w] = IF rest # {} THEN "look"
                              ELSE IF local[w].over THEN "resolve" ELSE "prune"]
  BY DEF NextKey
<1>7. pc' \in [Worker -> Stages] /\ \A v \in Worker : pc'[v] # "idle" <=> pc[v] # "idle"
  BY <1>1, <1>6 DEF Stages
<1>8. Others(w) BY <1>1, <1>4, <1>6 DEF Others
<1>9. /\ local'[w].todo = rest /\ local'[w].over = local[w].over
      /\ local'[w].event = local[w].event
  BY <1>1, <1>4 DEF Locals
<1>10. pc'[w] = IF rest # {} THEN "look" ELSE IF local[w].over THEN "resolve" ELSE "prune"
  BY <1>1, <1>6
<1>11. RunOK(w) BY DEF Sound, RunInv, RunOK
<1> HIDE DEF rest
<1>12. TaskOK(w)'
  BY <1>9, <1>10, <1>11 DEF RunOK, TaskOK, KeysOK, Expanding, Loop, Saving, Canceling, At
<1>13. SeriesOK(w)'
  BY <1>9, <1>10, <1>11 DEF RunOK, SeriesOK, KeysOK, Expanding, Loop, Canceling, At, Keeps
<1>14. KeysOK(w)'
  <2>1. rest \subseteq local[w].todo BY DEF rest
  <2> QED BY <1>9, <1>10, <1>11, <2>1 DEF RunOK, KeysOK, Loop, At
<1> QED BY <1>5, <1>7, <1>8, <1>12, <1>13, <1>14 DEF RunOK

(* The upsert of an occurrence.                                             *)
LEMMA WriteOK ==
  ASSUME Sound, NEW w \in Worker, Write(w)
  PROVE  StepOK(w)
<1> DEFINE k == Current(w)
           row == local[w].row
           wanted == Wanted(w)
           new == [wanted EXCEPT !.status = IF row.status \in {"canceled", "skipped"}
                                            THEN "scheduled" ELSE row.status,
                                 !.override = wanted.override \/ row.override]
<1> USE DEF Goto, At, doneVars, inboundVars
<1>0. /\ local \in [Worker -> Locals] /\ pc \in [Worker -> Stages] /\ pc[w] = "write"
      /\ occ \in [Day -> Rows \cup {NoRow}] /\ RunOK(w)
  BY DEF Sound, TypeOK, Write, RunInv, RunOK
<1>1. wanted \in Rows /\ k \in Day BY WantedIsRow DEF Sound, RunInv, Write
<1>2. row \in Rows \cup {NoRow} BY <1>0 DEF Locals
<1>3. ASSUME row # NoRow PROVE new \in Rows
  <2>1. row.status \in Statuses /\ row.override \in BOOLEAN BY <1>2, <1>3 DEF Rows
  <2>2. (IF row.status \in {"canceled", "skipped"} THEN "scheduled" ELSE row.status) \in Statuses
    BY <2>1 DEF Statuses, Untouched
  <2>3. wanted.override \in BOOLEAN BY <1>1 DEF Rows
  <2>4. (wanted.override \/ row.override) \in BOOLEAN OBVIOUS
  <2> QED BY <1>1, <2>2, <2>4 DEF Rows
<1>4. UNCHANGED <<inbox, deliveries, ingests, disturbances, joined, now, bot, told, task, event,
                  expanded, guests, join, pruned>>
  BY DEF Write
<1>5. ASSUME NextKey(w), UNCHANGED occ PROVE StepOK(w)
  <2>1. Keeps BY <1>4, <1>5 DEF Keeps
  <2>2. /\ local' \in [Worker -> Locals] /\ pc' \in [Worker -> Stages]
        /\ \A v \in Worker : pc'[v] # "idle" <=> pc[v] # "idle"
        /\ Others(w) /\ RunOK(w)'
    BY <1>0, <1>4, <1>5, <2>1, NextKeyOK
  <2>3. TypeOK' BY <1>4, <1>5, <2>2 DEF Sound, TypeOK, InboundTypeOK, Working
  <2>4. RowInv' BY <1>4, <1>5 DEF Sound, RowInv
  <2> QED BY <2>1, <2>2, <2>3, <2>4 DEF StepOK
<1>6. ASSUME NEW r \in Rows, NEW b \in BOOLEAN, occ' = [occ EXCEPT ![k] = r],
             local' = [local EXCEPT ![w].row = r, ![w].moved = b], Goto(w, "sync")
      PROVE  StepOK(w)
  <2>1. r # NoRow BY Facts
  <2>2. Keeps BY <1>0, <1>1, <1>4, <1>6, <2>1 DEF Keeps
  <2>3. local' \in [Worker -> Locals]
    <3>1. [local EXCEPT ![w].row = r] \in [Worker -> Locals] BY <1>0, NotesChange
    <3> QED BY <1>6, <3>1, NotesChange
  <2>4. occ' \in [Day -> Rows \cup {NoRow}] BY <1>0, <1>6
  <2>5. TypeOK'
    BY <1>0, <1>4, <1>6, <2>3, <2>4 DEF Sound, TypeOK, InboundTypeOK, Working, Stages
  <2>6. Others(w) BY <1>0, <1>4, <1>6 DEF Others
  <2>7. /\ pc'[w] = "sync" /\ local'[w].row = r /\ local'[w].todo = local[w].todo
        /\ local'[w].over = local[w].over /\ local'[w].event = local[w].event
    BY <1>0, <1>6 DEF Locals
  <2>8. Current(w)' = k BY <2>7 DEF Current
  <2>9. occ'[k] = r BY <1>0, <1>1, <1>6
  <2>10. TaskOK(w)'
    BY <1>0, <1>4, <2>7 DEF RunOK, TaskOK, KeysOK, Expanding, Loop, Saving, Canceling
  <2>11. SeriesOK(w)'
    BY <1>0, <1>4, <2>7 DEF RunOK, SeriesOK, KeysOK, Expanding, Loop, Canceling
  <2> HIDE DEF k
  <2>12. KeysOK(w)' BY <1>0, <1>4, <2>1, <2>7, <2>8, <2>9 DEF RunOK, KeysOK, Loop
  <2>13. RowInv' BY <1>0, <1>4, <1>6, <2>1 DEF Sound, RowInv
  <2> QED BY <2>2, <2>5, <2>6, <2>10, <2>11, <2>12, <2>13 DEF StepOK, RunOK
<1>7. CASE row = NoRow
  <2>1. \/ NextKey(w) /\ UNCHANGED occ
        \/ occ' = [occ EXCEPT ![k] = wanted]
           /\ local' = [local EXCEPT ![w].row = wanted, ![w].moved = FALSE]
           /\ Goto(w, "sync")
    BY <1>7 DEF Write
  <2> HIDE DEF wanted, k
  <2> QED BY <1>1, <1>5, <1>6, <2>1
<1>8. CASE row # NoRow
  <2> DEFINE moved == row.start # new.start \/ row.body # new.body
  <2>1. \/ NextKey(w) /\ UNCHANGED occ
        \/ occ' = [occ EXCEPT ![k] = new]
           /\ local' = [local EXCEPT ![w].row = new, ![w].moved = moved]
           /\ Goto(w, "sync")
    BY <1>8 DEF Write
  <2>2. moved \in BOOLEAN OBVIOUS
  <2> HIDE DEF new, moved, k
  <2> QED BY <1>3, <1>5, <1>6, <1>8, <2>1, <2>2
<1> QED BY <1>7, <1>8

(* The join time that is given is one.                                      *)
LEMMA CreateJoinOK ==
  ASSUME TypeOK, NEW k \in Day, NEW start \in Day, NEW J \in [Day -> Jobs]
  PROVE  /\ CreateJoin(k, start, J) \in [Day -> Jobs] /\ JoinTime(start) \in Times
         /\ \A l \in Day, t \in Times :
               CreateJoin(k, start, J)[l][t] = "pending"
                  => J[l][t] = "pending" \/ (l = k /\ t = JoinTime(start))
<1>1. now \in 0..LastDay /\ start \in Nat /\ start =< LastDay + Lead
  BY CalendarAssumption DEF TypeOK, Times
<1>2. JoinTime(start) \in Times
  <2>1. CASE start > now + Lead BY <1>1, <2>1, Facts DEF JoinTime, Times
  <2>2. CASE ~(start > now + Lead) BY <1>1, <2>2 DEF JoinTime, Times
  <2> QED BY <2>1, <2>2
<1> DEFINE t0 == JoinTime(start)
           new == IF t0 = now \/ J[k][t0] = "none" THEN "pending" ELSE J[k][t0]
<1>3. CreateJoin(k, start, J) = [J EXCEPT ![k][t0] = new] BY DEF CreateJoin
<1>4. J[k] \in Jobs OBVIOUS
<1>5. new \in {"none", "pending", "done", "canceled"} BY <1>2, <1>4 DEF Jobs
<1> HIDE DEF new, t0
<1> QED BY <1>2, <1>3, <1>5 DEF Jobs, t0

(* The join job of an occurrence.                                           *)
LEMMA SyncOK ==
  ASSUME Sound, NEW w \in Worker, SyncJoinJob(w)
  PROVE  StepOK(w)
<1> DEFINE k == Current(w)
           row == local[w].row
           left == IF local[w].moved THEN CancelJoins(k, join) ELSE join
<1>0. /\ local[w] \in Locals /\ pc[w] = "sync" /\ NextKey(w) /\ UNCHANGED task
      /\ occ \in [Day -> Rows \cup {NoRow}] /\ join \in [Day -> Jobs] /\ RunOK(w)
  BY DEF Sound, TypeOK, SyncJoinJob, RunInv, RunOK, doneVars, At
<1>1. UNCHANGED <<inbox, deliveries, ingests, disturbances, joined, now, bot, told, event,
                  expanded, guests, pruned>>
  BY DEF SyncJoinJob, doneVars, inboundVars
<1>2. local[w].todo \in SUBSET Day /\ local[w].todo # {} /\ row # NoRow /\ occ[k] # NoRow
  BY <1>0 DEF Locals, RunOK, KeysOK, Loop, At
<1>3. k \in Day BY <1>2, CurrentIsLeft DEF Current
<1>4. row \in Rows BY <1>0, <1>2 DEF Locals
<1>5. left \in [Day -> Jobs] /\ \A l \in Day, t \in Times : left[l][t] = "pending" => join[l][t] = "pending"
  BY <1>0, <1>3, CancelJoinsOK
<1>6. \/ UNCHANGED <<occ, join>>
      \/ occ' = [occ EXCEPT ![k].status = "skipped"] /\ join' = CancelJoins(k, join)
      \/ occ' = occ /\ join' = CreateJoin(k, row.start, left)
  BY DEF SyncJoinJob
<1>7. row.start \in Day BY <1>4 DEF Rows, Starts
<1> HIDE DEF left, k, row
<1>8. /\ occ' \in [Day -> Rows \cup {NoRow}] /\ join' \in [Day -> Jobs]
      /\ \A l \in Day : occ[l] # NoRow => occ'[l] # NoRow
      /\ \A l \in Day, t \in Times :
            join'[l][t] = "pending" => join[l][t] = "pending" \/ occ[l] # NoRow
  <2>1. CASE UNCHANGED <<occ, join>> BY <1>0, <2>1
  <2>2. CASE occ' = [occ EXCEPT ![k].status = "skipped"] /\ join' = CancelJoins(k, join)
    <3>1. [occ[k] EXCEPT !.status = "skipped"] \in Rows
      BY <1>0, <1>2, <1>3 DEF Rows, Statuses
    <3>2. occ' = [occ EXCEPT ![k] = [occ[k] EXCEPT !.status = "skipped"]] BY <2>2
    <3>3. [occ[k] EXCEPT !.status = "skipped"] # NoRow BY <3>1, Facts
    <3>4. occ' \in [Day -> Rows \cup {NoRow}] /\ \A l \in Day : occ[l] # NoRow => occ'[l] # NoRow
      BY <1>0, <1>3, <3>1, <3>2, <3>3
    <3> QED BY <1>0, <1>3, <2>2, <3>4, CancelJoinsOK
  <2>3. CASE occ' = occ /\ join' = CreateJoin(k, row.start, left)
    BY <1>0, <1>2, <1>3, <1>5, <1>7, <2>3, CreateJoinOK DEF Sound
  <2> QED BY <1>6, <2>1, <2>2, <2>3
<1>9. Keeps BY <1>1, <1>8 DEF Keeps
<1>10. /\ local' \in [Worker -> Locals] /\ pc' \in [Worker -> Stages]
       /\ \A v \in Worker : pc'[v] # "idle" <=> pc[v] # "idle"
       /\ Others(w) /\ RunOK(w)'
  BY <1>0, <1>9, NextKeyOK
<1>11. TypeOK' BY <1>0, <1>1, <1>8, <1>10 DEF Sound, TypeOK, InboundTypeOK, Working
<1>12. RowInv' BY <1>1, <1>8 DEF Sound, RowInv
<1> QED BY <1>9, <1>10, <1>11, <1>12 DEF StepOK

(* A step of none of the runs.                                              *)
RunsStay == UNCHANGED <<inboundVars, runVars>>

(* Steps outside the runs leave them sound.                                 *)
LEMMA RunsStaySound ==
  ASSUME Sound, RunsStay, Keeps
  PROVE  RunInv'
<1> SUFFICES ASSUME NEW v \in Worker PROVE (TaskOK(v) /\ SeriesOK(v) /\ KeysOK(v))'
  BY DEF RunInv
<1>1. pc' = pc /\ task' = task /\ local' = local BY DEF RunsStay, runVars
<1>2. RunOK(v) BY DEF Sound, RunInv, RunOK
<1>3. CASE \E w \in Worker : w # v
  <2>1. PICK w \in Worker : w # v BY <1>3
  <2>2. Others(w) BY <1>1 DEF Others
  <2> QED BY <1>2, <2>1, <2>2, OthersStaySound DEF Sound, RunOK
<1>4. Current(v)' = Current(v) BY <1>1 DEF Current
<1>5. local[v].doomed \subseteq Day /\ local[v].todo \subseteq Day BY DEF Sound, TypeOK, Locals
<1>6. ASSUME At(v, "sync") PROVE Current(v) \in Day
  <2>1. local[v].todo # {} BY <1>2, <1>6 DEF RunOK, KeysOK, At, Loop
  <2> QED BY <1>5, <2>1, CurrentIsLeft DEF Current
<1>7. (At(v, "sync") => local[v].row # NoRow /\ occ[Current(v)] # NoRow)'
  BY <1>1, <1>2, <1>4, <1>6 DEF RunOK, KeysOK, At, Keeps
<1>8. (pc[v] \in {"cut", "cancel"} => Exist(local[v].doomed))'
  BY <1>1, <1>2, <1>5 DEF RunOK, KeysOK, Exist, Keeps
<1>9. KeysOK(v)' BY <1>1, <1>2, <1>7, <1>8 DEF RunOK, KeysOK, At
<1>10. TaskOK(v)' BY <1>1, <1>2 DEF RunOK, TaskOK, At, Expanding
<1>11. SeriesOK(v)' BY <1>1, <1>2 DEF RunOK, SeriesOK, At, Expanding, Keeps
<1> QED BY <1>9, <1>10, <1>11

(* The status of a row changes, and the row stays one.                      *)
LEMMA StatusChange ==
  ASSUME TypeOK, NEW k \in Day, occ[k] # NoRow, NEW st \in Statuses,
         occ' = [occ EXCEPT ![k].status = st]
  PROVE  /\ occ' \in [Day -> Rows \cup {NoRow}]
         /\ \A l \in Day : occ[l] # NoRow => occ'[l] # NoRow
<1> DEFINE r == [occ[k] EXCEPT !.status = st]
<1>1. occ \in [Day -> Rows \cup {NoRow}] BY DEF TypeOK
<1>2. r \in Rows BY <1>1 DEF Rows
<1>3. occ' = [occ EXCEPT ![k] = r] OBVIOUS
<1>4. r # NoRow BY <1>2, Facts
<1> HIDE DEF r
<1> QED BY <1>1, <1>2, <1>3, <1>4

(* Nothing but the status changes, of that row alone.                       *)
LEMMA StatusAfter ==
  ASSUME TypeOK, NEW k \in Day, occ[k] # NoRow, NEW st \in Statuses,
         occ' = [occ EXCEPT ![k].status = st]
  PROVE  /\ \A l \in Day : l # k => occ'[l] = occ[l]
         /\ occ'[k] # NoRow /\ occ'[k].status = st
         /\ occ'[k].start = occ[k].start /\ occ'[k].seq = occ[k].seq
         /\ occ'[k].override = occ[k].override
<1>1. occ[k] \in Rows BY DEF TypeOK
<1>2. occ'[k] # NoRow BY StatusChange
<1> QED BY <1>1, <1>2 DEF TypeOK, Rows

(* A join.                                                                  *)
LEMMA RunJoinOK ==
  ASSUME Sound, NEW k \in Day, NEW t \in Times, RunJoin(k, t)
  PROVE  Sound'
<1>1. /\ occ[k] # NoRow /\ occ \in [Day -> Rows \cup {NoRow}] /\ join \in [Day -> Jobs]
      /\ bot \in [Day -> {"none", "live", "over"}]
  BY DEF Sound, TypeOK, RowInv, RunJoin
<1>2. occ[k].status \in Statuses BY <1>1 DEF Rows
<1>3. \/ occ' = occ /\ bot' = bot
      \/ \E st \in Statuses : /\ occ' = [occ EXCEPT ![k].status = st]
                              /\ bot' = bot \/ bot' = [bot EXCEPT ![k] = "live"]
  <2>1. CASE /\ occ[k].status \in Untouched /\ event.status = "active"
             /\ ~(occ[k].start < now)
    <3>1. occ' = [occ EXCEPT ![k].status = IF bot[k] = "live" THEN occ[k].status ELSE "join_queued"]
      BY <2>1 DEF RunJoin
    <3>2. (IF bot[k] = "live" THEN occ[k].status ELSE "join_queued") \in Statuses
      BY <1>2 DEF Statuses, Untouched
    <3>3. bot' = [bot EXCEPT ![k] = "live"] BY <2>1 DEF RunJoin
    <3> QED BY <3>1, <3>2, <3>3
  <2>2. CASE occ[k].status \in Untouched /\ event.status = "active" /\ occ[k].start < now
    <3>1. "skipped" \in Statuses BY DEF Statuses
    <3> QED BY <2>2, <3>1 DEF RunJoin
  <2>3. CASE ~(occ[k].status \in Untouched /\ event.status = "active")
    BY <2>3 DEF RunJoin
  <2> QED BY <2>1, <2>2, <2>3
<1>4. /\ occ' \in [Day -> Rows \cup {NoRow}]
      /\ \A l \in Day : occ[l] # NoRow => occ'[l] # NoRow
  BY <1>1, <1>3, StatusChange DEF Sound
<1>5. bot' \in [Day -> {"none", "live", "over"}] /\ \A l \in Day : l # k => bot'[l] = bot[l]
  BY <1>1, <1>3
<1>6. join' \in [Day -> Jobs] /\ \A l \in Day, u \in Times : join'[l][u] = "pending" => join[l][u] = "pending"
  <2>1. join' = [join EXCEPT ![k][t] = "done"] BY DEF RunJoin
  <2>2. [join[k] EXCEPT ![t] = "done"] \in Jobs BY <1>1 DEF Jobs
  <2>3. join' = [join EXCEPT ![k] = [join[k] EXCEPT ![t] = "done"]] BY <2>1
  <2>4. join' \in [Day -> Jobs] BY <1>1, <2>2, <2>3
  <2>5. \A l \in Day, u \in Times : join'[l][u] = "pending" => join[l][u] = "pending"
    BY <1>1, <2>3 DEF Jobs
  <2> QED BY <2>4, <2>5
<1>7. Keeps /\ RunsStay /\ UNCHANGED <<expanded, guests, event, told, now, pruned>>
      /\ joined' \in BOOLEAN
  BY <1>4 DEF Keeps, RunsStay, RunJoin, Meanwhile
<1>8. RunInv' BY <1>7, RunsStaySound
<1>9. TypeOK'
  BY <1>4, <1>5, <1>6, <1>7
  DEF Sound, TypeOK, InboundTypeOK, RunsStay, inboundVars, runVars, Working
<1>10. RowInv' BY <1>1, <1>4, <1>5, <1>6 DEF Sound, RowInv
<1> QED BY <1>8, <1>9, <1>10 DEF Sound

(* A bot moves on.                                                          *)
LEMMA BotMovesOK ==
  ASSUME Sound, NEW k \in Day, BotMoves(k)
  PROVE  Sound'
<1>1. /\ occ[k] # NoRow /\ occ \in [Day -> Rows \cup {NoRow}]
      /\ bot \in [Day -> {"none", "live", "over"}]
  BY DEF Sound, TypeOK, RowInv, BotMoves
<1>2. \E st \in Statuses : /\ occ' = [occ EXCEPT ![k].status = st]
                           /\ bot' = bot \/ bot' = [bot EXCEPT ![k] = "over"]
  BY DEF BotMoves, Statuses
<1>3. /\ occ' \in [Day -> Rows \cup {NoRow}]
      /\ \A l \in Day : occ[l] # NoRow => occ'[l] # NoRow
  BY <1>1, <1>2, StatusChange DEF Sound
<1>4. bot' \in [Day -> {"none", "live", "over"}] /\ \A l \in Day : l # k => bot'[l] = bot[l]
  BY <1>1, <1>2
<1>5. Keeps /\ RunsStay /\ UNCHANGED <<expanded, guests, event, join, told, now, pruned>>
      /\ joined' \in BOOLEAN
  BY <1>3 DEF Keeps, RunsStay, BotMoves, Meanwhile
<1>6. RunInv' BY <1>5, RunsStaySound
<1>7. TypeOK'
  BY <1>3, <1>4, <1>5
  DEF Sound, TypeOK, InboundTypeOK, RunsStay, inboundVars, runVars, Working
<1>8. RowInv' BY <1>1, <1>3, <1>4, <1>5 DEF Sound, RowInv
<1> QED BY <1>6, <1>7, <1>8 DEF Sound

(* A bot is stopped.                                                        *)
LEMMA StopBotOK ==
  ASSUME Sound, NEW k \in Day, StopBot(k)
  PROVE  Sound'
<1>1. bot \in [Day -> {"none", "live", "over"}] BY DEF Sound, TypeOK
<1>2. /\ bot' \in [Day -> {"none", "live", "over"}]
      /\ \A l \in Day : bot'[l] # "none" => bot[l] # "none"
  BY <1>1 DEF StopBot
<1>3. /\ Keeps /\ RunsStay /\ UNCHANGED <<expanded, guests, event, occ, join, now, pruned>>
      /\ joined' \in BOOLEAN /\ told' \subseteq told
  BY DEF Keeps, RunsStay, StopBot, Meanwhile, rowVars
<1>4. RunInv' BY <1>3, RunsStaySound
<1>5. TypeOK'
  BY <1>2, <1>3 DEF Sound, TypeOK, InboundTypeOK, RunsStay, inboundVars, runVars, Working
<1>6. RowInv' BY <1>2, <1>3 DEF Sound, RowInv
<1> QED BY <1>4, <1>5, <1>6 DEF Sound

(* A day passes.                                                            *)
LEMMA TickOK ==
  ASSUME Sound, Tick
  PROVE  Sound'
<1>1. /\ Keeps /\ RunsStay
      /\ UNCHANGED <<expanded, guests, event, occ, join, bot, told, joined, pruned>>
  BY DEF Keeps, RunsStay, Tick, rowVars
<1>2. now' \in Times BY Facts DEF Sound, TypeOK, Tick, Times
<1>3. RunInv' BY <1>1, RunsStaySound
<1>4. TypeOK'
  BY <1>1, <1>2 DEF Sound, TypeOK, InboundTypeOK, RunsStay, inboundVars, runVars, Working
<1>5. RowInv' BY <1>1 DEF Sound, RowInv
<1> QED BY <1>3, <1>4, <1>5 DEF Sound

(* Types, places and rows: the first layer.                                 *)
LEMMA SoundInit == Init => Sound
<1> SUFFICES ASSUME Init PROVE Sound
  OBVIOUS
<1> USE DEF Init, InboundInit
<1>1. TypeOK
  <2>1. 0 \in 0..MaxEvents /\ 0 \in 0..(LastDay + Window) /\ 0 \in 0..LastDay BY Facts
  <2>2. InboundTypeOK BY <2>1 DEF InboundTypeOK
  <2>3. guests \in GuestLists BY DEF GuestLists
  <2>4. join \in [Day -> Jobs] BY DEF Jobs
  <2>5. local \in [Worker -> Locals] BY Facts
  <2> QED BY <2>1, <2>2, <2>3, <2>4, <2>5 DEF TypeOK, Stages, Working, Times
<1>2. RunInv
  BY Facts DEF RunInv, TaskOK, SeriesOK, KeysOK, Expanding, At, Saving, Canceling, Loop
<1>3. RowInv BY DEF RowInv
<1> QED BY <1>1, <1>2, <1>3 DEF Sound

(* Every step of a run keeps it, and leaves the other runs alone.           *)
LEMMA RunStepSound ==
  ASSUME Sound, NEW w \in Worker,
         (\E m \in Message : ReceiveMail(w, m)) \/ IngestStep(w) \/ FailRun(w) \/ ExpandRecurrences(w)
  PROVE  Sound' /\ Others(w) /\ Keeps
<1>1. StepOK(w)
  BY ReceiveOK, GateStep, IngestOK, StoreOK, ReadSavedOK, ReplaceGuestsOK, ExpandOK, LookOK,
     WriteOK, SyncOK, PruneOK, CutOK, MarkOK, CloseOK, ListOK, CancelOK, ReadForExdatesOK,
     StoreExdatesOK, DropJoinsOK, ResolveOK, NotifyOK, FailOK, ExpandRecurrencesOK
  DEF IngestStep
<1>2. ASSUME NEW v \in Worker PROVE RunOK(v)'
  <2>1. CASE v = w BY <1>1, <2>1 DEF StepOK
  <2>2. CASE v # w BY <1>1, <2>2, OthersStaySound DEF StepOK, Sound, RunInv, RunOK
  <2> QED BY <2>1, <2>2
<1>3. RunInv' BY <1>2 DEF RunInv, RunOK
<1> QED BY <1>1, <1>3 DEF StepOK, Sound

(* So does every step.                                                      *)
LEMMA SoundNext == Sound /\ [Next]_vars => Sound'
<1> SUFFICES ASSUME Sound, [Next]_vars PROVE Sound'
  OBVIOUS
<1>1. CASE UNCHANGED vars
  <2>1. Keeps /\ RunsStay
    BY <1>1 DEF vars, calendarVars, inboundVars, runVars, RunsStay, Keeps
  <2>2. RunInv' BY <2>1, RunsStaySound
  <2>3. TypeOK'
    BY <1>1 DEF vars, calendarVars, inboundVars, Sound, TypeOK, InboundTypeOK, Working
  <2>4. RowInv' BY <1>1 DEF vars, calendarVars, Sound, RowInv
  <2> QED BY <2>2, <2>3, <2>4 DEF Sound
<1>2. CASE Next
  BY <1>2, RunStepSound, RunJoinOK, BotMovesOK, StopBotOK, TickOK DEF Next
<1> QED BY <1>1, <1>2

(* Every variable keeps its type, each run has what its stage works on, and *)
(* only occurrences that exist have jobs and bots (ingest.ts).              *)
THEOREM TypeOKHolds == Spec => []TypeOK
<1>1. Sound => TypeOK BY DEF Sound
<1> QED BY <1>1, SoundInit, SoundNext, PTL DEF Spec

----------------------------------------------------------------------------
(* The stored series.                                                       *)

(* Of the steps of a run, three write the series row.                       *)
LEMMA OnlyStoresWrite ==
  ASSUME NEW w \in Worker,
         (\E m \in Message : ReceiveMail(w, m)) \/ IngestStep(w) \/ FailRun(w) \/ ExpandRecurrences(w)
  PROVE  event' = event \/ Store(w) \/ CloseSeries(w) \/ StoreExdates(w)
BY DEF IngestStep, ReceiveMail, GateMail, Ingest, ReadSaved, ReplaceGuests, Expand, Look, Write,
   SyncJoinJob, Prune, Cut, Mark, List, Cancel, ReadForExdates, DropJoins, ResolveMail, Notify,
   FailRun, ExpandRecurrences, calendarVars, rowVars

(* No write lowers the sequence.                                            *)
LEMMA SequenceGrows ==
  ASSUME Sound, [Next]_vars, event # NoEvent
  PROVE  event' # NoEvent /\ event'.seq >= event.seq
<1>1. event \in Events /\ event.seq \in Int BY DEF Sound, TypeOK, Events
<1>2. CASE event' = event BY <1>1, <1>2
<1>3. CASE event' # event
  <2>1. PICK w \in Worker : Store(w) \/ CloseSeries(w) \/ StoreExdates(w)
    BY <1>3, OnlyStoresWrite
    DEF Next, vars, calendarVars, RunJoin, BotMoves, StopBot, Tick, rowVars
  <2>2. CASE Store(w)
    <3>1. Series(task[w]).seq = SequenceOf(Master(task[w])) /\ Series(task[w]) \in Events
      BY <2>2, SeriesOfMail DEF Series, Store, Sound, RunInv, TaskOK, Saving, At
    <3>2. SequenceOf(Master(task[w])) >= event.seq /\ event' = Series(task[w])
      BY <1>3, <2>2 DEF Store
    <3> QED BY <3>1, <3>2, Facts
  <2>3. CASE CloseSeries(w)
    <3> DEFINE sequence == IF Master(task[w]).sequence = None THEN local[w].event.seq
                           ELSE Master(task[w]).sequence
    <3>1. sequence >= event.seq /\ event' = [event EXCEPT !.status = "canceled", !.seq = sequence]
      BY <1>3, <2>3 DEF CloseSeries
    <3>2. Keeps BY <2>3, CloseOK DEF StepOK
    <3> HIDE DEF sequence
    <3>3. event'.seq = sequence BY <1>1, <3>1 DEF Events
    <3> QED BY <3>1, <3>2, <3>3 DEF Keeps
  <2>4. CASE StoreExdates(w)
    <3>1. Keeps BY <2>4, StoreExdatesOK DEF StepOK
    <3> QED BY <1>3, <2>4, <3>1 DEF StoreExdates, Keeps
  <2> QED BY <2>1, <2>2, <2>3, <2>4
<1> QED BY <1>2, <1>3

(* Whatever overlaps, comes late or comes again, no write replaces the      *)
(* stored series by an older one (eventQueries.ts:29-34, 90).               *)
THEOREM SeriesNeverRollsBackHolds == Spec => SeriesNeverRollsBack
<1>1. Sound /\ [Next]_vars =>
         [event # NoEvent => event' # NoEvent /\ event'.seq >= event.seq]_vars
  BY SequenceGrows
<1> QED BY <1>1, SoundInit, SoundNext, PTL DEF Spec, SeriesNeverRollsBack

----------------------------------------------------------------------------
(* The gate.                                                                *)

(* A step that lets nobody to the gate leaves what is said of it.           *)
LEMMA GateStays ==
  ASSUME GateInv, UNCHANGED ingests,
         \A m \in Message : inbox'[m] = "none" => inbox[m] = "none",
         \A w \in Worker : pc'[w] = "gate" => pc[w] = "gate" /\ task'[w] = task[w]
  PROVE  GateInv'
<1>1. \A m \in Message : AtGate(m)' \subseteq AtGate(m) BY DEF AtGate, At
<1> QED BY <1>1 DEF GateInv

(* No mail passes the gate twice: the second layer.                         *)
LEMMA GateNext == Sound /\ GateInv /\ [Next]_vars => GateInv'
<1> SUFFICES ASSUME Sound, GateInv, [Next]_vars PROVE GateInv'
  OBVIOUS
<1>0. /\ pc \in [Worker -> Stages] /\ task \in [Worker -> Message \cup {NoMessage, Nightly}]
      /\ ingests \in [Message -> Nat]
      /\ inbox \in [Message -> {"none", "received", "parsed", "ignored", "rejected"}]
  BY DEF Sound, TypeOK, InboundTypeOK
<1>1. CASE UNCHANGED vars
  BY <1>1, GateStays DEF vars, inboundVars
<1>2. ASSUME NEW w \in Worker, NEW m \in Message, ReceiveMail(w, m) PROVE GateInv'
  <2>1. CASE inbox[m] = "none"
    <3>1. /\ inbox' = [inbox EXCEPT ![m] = "received"] /\ pc' = [pc EXCEPT ![w] = "gate"]
          /\ task' = [task EXCEPT ![w] = m] /\ ingests' = ingests /\ pc[w] = "idle"
      BY <1>2, <2>1 DEF ReceiveMail, Receive, Goto, Working
    <3>2. AtGate(m)' = {w} /\ \A n \in Message \ {m} : AtGate(n)' = AtGate(n)
      BY <1>0, <2>1, <3>1 DEF GateInv, AtGate, At
    <3>3. inbox'[m] = "received" /\ \A n \in Message \ {m} : inbox'[n] = inbox[n]
      BY <1>0, <3>1
    <3> QED BY <2>1, <3>1, <3>2, <3>3 DEF GateInv
  <2>2. CASE inbox[m] # "none"
    BY <1>2, <2>2, GateStays DEF ReceiveMail, Receive
  <2> QED BY <2>1, <2>2
<1>3. ASSUME NEW w \in Worker, GateMail(w) PROVE GateInv'
  <2>0. pc[w] = "gate" /\ task[w] \in Message
    BY <1>3 DEF GateMail, Gate, Sound, RunInv, TaskOK, At
  <2>1. PICK m \in Message : pc[w] = "gate" /\ m = task[w] BY <2>0
  <2>2. w \in AtGate(m) /\ inbox[m] # "none" /\ ingests[m] = 0 /\ AtGate(m) = {w}
    BY <2>1 DEF GateInv, AtGate, At
  <2>3. CASE Ignored(m) \/ Refused(m)
    <3>1. /\ ingests' = ingests /\ pc' = [pc EXCEPT ![w] = "idle"]
          /\ task' = [task EXCEPT ![w] = NoMessage]
          /\ inbox' = [inbox EXCEPT ![m] = IF Ignored(m) THEN "ignored" ELSE "rejected"]
      BY <1>3, <2>1, <2>3 DEF GateMail, Gate, Finish
    <3>2. \A n \in Message : inbox'[n] = "none" => inbox[n] = "none" BY <1>0, <2>1, <3>1
    <3>3. \A v \in Worker : pc'[v] = "gate" => pc[v] = "gate" /\ task'[v] = task[v]
      BY <1>0, <3>1
    <3> QED BY <3>1, <3>2, <3>3, GateStays
  <2>4. CASE ~(Ignored(m) \/ Refused(m))
    <3>1. /\ ingests' = [ingests EXCEPT ![m] = 1] /\ pc' = [pc EXCEPT ![w] = "ingest"]
          /\ task' = task /\ inbox' = inbox
      BY <1>3, <2>1, <2>2, <2>4 DEF GateMail, Gate, Goto
    <3>2. AtGate(m)' = {} /\ \A n \in Message \ {m} : AtGate(n)' = AtGate(n)
      BY <1>0, <2>1, <2>2, <3>1 DEF AtGate, At
    <3>3. ingests'[m] = 1 /\ \A n \in Message \ {m} : ingests'[n] = ingests[n]
      BY <1>0, <2>1, <3>1
    <3> SUFFICES ASSUME NEW n \in Message
                 PROVE  (/\ ingests[n] <= 1
                         /\ inbox[n] = "none" \/ AtGate(n) # {} => ingests[n] = 0
                         /\ inbox[n] = "none" => AtGate(n) = {}
                         /\ \A v, u \in AtGate(n) : v = u)'
      BY DEF GateInv
    <3>4. CASE n = m BY <2>2, <3>1, <3>2, <3>3, <3>4
    <3>5. CASE n # m
      <4>1. ingests'[n] = ingests[n] /\ AtGate(n)' = AtGate(n) /\ inbox'[n] = inbox[n]
        BY <3>1, <3>2, <3>3, <3>5
      <4> QED BY <4>1 DEF GateInv
    <3> QED BY <3>4, <3>5
  <2> QED BY <2>3, <2>4
<1>4. ASSUME NEW w \in Worker, IngestStep(w), ~GateMail(w) PROVE GateInv'
  <2>1. ingests' = ingests /\ \A n \in Message : inbox'[n] = "none" => inbox[n] = "none"
    BY <1>0, <1>4
    DEF IngestStep, Ingest, Store, ReadSaved, ReplaceGuests, Expand, Look, Write, SyncJoinJob,
        Prune, Cut, Mark, CloseSeries, List, Cancel, ReadForExdates, StoreExdates, DropJoins,
        ResolveMail, Resolve, Notify, doneVars, inboundVars
  <2>2. \E stage \in Stages \ {"gate"} : pc' = [pc EXCEPT ![w] = stage]
    BY <1>4
    DEF IngestStep, Ingest, Store, ReadSaved, ReplaceGuests, Expand, Look, Write, SyncJoinJob,
        Prune, Cut, Mark, CloseSeries, List, Cancel, ReadForExdates, StoreExdates, DropJoins,
        ResolveMail, Resolve, Notify, NextKey, Goto, Finish, Stages
  <2>3. task' = task \/ task' = [task EXCEPT ![w] = NoMessage]
    BY <1>4
    DEF IngestStep, Ingest, Store, ReadSaved, ReplaceGuests, Expand, Look, Write, SyncJoinJob,
        Prune, Cut, Mark, CloseSeries, List, Cancel, ReadForExdates, StoreExdates, DropJoins,
        ResolveMail, Resolve, Notify, Finish, doneVars
  <2>4. \A v \in Worker : pc'[v] = "gate" => pc[v] = "gate" /\ task'[v] = task[v]
    BY <1>0, <2>2, <2>3
  <2> QED BY <2>1, <2>4, GateStays
<1>5. ASSUME NEW w \in Worker, FailRun(w) \/ ExpandRecurrences(w) PROVE GateInv'
  <2>1. ingests' = ingests /\ inbox' = inbox
    BY <1>5 DEF FailRun, Fail, ExpandRecurrences
  <2>2. \A v \in Worker : pc'[v] = "gate" => pc[v] = "gate" /\ task'[v] = task[v]
    BY <1>0, <1>5 DEF FailRun, Fail, ExpandRecurrences, Goto, Finish
  <2> QED BY <2>1, <2>2, GateStays
<1>6. ASSUME (\E k \in Day : (\E t \in Times : RunJoin(k, t)) \/ BotMoves(k) \/ StopBot(k)) \/ Tick
      PROVE  GateInv'
  <2>1. UNCHANGED <<inbox, ingests, pc, task>>
    BY <1>6 DEF RunJoin, BotMoves, StopBot, Tick, inboundVars, runVars
  <2> QED BY <2>1, GateStays
<1> QED BY <1>1, <1>2, <1>3, <1>4, <1>5, <1>6 DEF Next

(* It holds at first.                                                       *)
LEMMA GateInit == Init => GateInv
BY DEF Init, InboundInit, GateInv, AtGate, At

(* However often, and however concurrently, the same bytes are delivered,   *)
(* the calendar gets them once (index.ts:50-69).                            *)
THEOREM IngestedOnceHolds == Spec => []IngestedOnce
<1>1. GateInv => IngestedOnce BY DEF GateInv, IngestedOnce
<1> QED BY <1>1, SoundInit, SoundNext, GateInit, GateNext, PTL DEF Spec

----------------------------------------------------------------------------
(* What the gate reads of a cancellation.                                   *)

(* The first element that passes a test is one of the sequence that does.   *)
LEMMA FirstCalendar ==
  ASSUME NEW seq \in Seq(Leaves), \E part \in ToSet(seq) : IsCalendar(part)
  PROVE  FirstIn(seq, IsCalendar) \in {part \in ToSet(seq) : IsCalendar(part)}
<1> DEFINE I == {i \in 1..Len(seq) : IsCalendar(seq[i])}
<1>1. I \in SUBSET Nat /\ I # {}
  <2>1. DOMAIN seq = 1..Len(seq) /\ Len(seq) \in Nat OBVIOUS
  <2> QED BY <2>1 DEF ToSet
<1>2. Min(I) \in I
  <2>1. \E x \in I : \A y \in I : x =< y BY <1>1, LeastOne
  <2> QED BY <2>1 DEF Min
<1>3. SelectInSeq(seq, IsCalendar) = Min(I) BY <1>1 DEF SelectInSeq
<1>4. Min(I) # 0 BY <1>2
<1>5. FirstIn(seq, IsCalendar) = seq[Min(I)] BY <1>3, <1>4 DEF FirstIn, ItemAt
<1> QED
  <2>1. Min(I) \in DOMAIN seq /\ IsCalendar(seq[Min(I)])
    <3>1. Min(I) \in 1..Len(seq) /\ IsCalendar(seq[Min(I)]) BY <1>2
    <3> QED BY <3>1
  <2> QED BY <1>5, <2>1 DEF ToSet

(* It is read as what it is, whatever it leaves out.                        *)
LEMMA CancellationsAreRead ==
  ASSUME NEW m \in Message, Cancels(Mail[m]), Sender(Mail[m]) # None, Recipient(Mail[m]) # None
  PROVE  Invite[m].parse = "ok" /\ Invite[m].kind = "cancel"
<1> DEFINE mail == Mail[m]  part == FirstIn(mail.parts, IsCalendar)
<1>1. mail.parts \in Seq(Leaves) /\ None \notin Leaves /\ ToSet(mail.parts) \subseteq Leaves
  BY InvitesAssumption DEF Leaves
<1>2. part \in {p \in ToSet(mail.parts) : IsCalendar(p)}
  BY <1>1, FirstCalendar DEF Cancels
<1>3. part # None /\ NamesItsMeeting(part) BY <1>1, <1>2 DEF Cancels
<1>4. ExtractCalendarText(mail) = part.calendar BY <1>3 DEF ExtractCalendarText, FieldOf, NamesItsMeeting
<1>5. /\ ParseCalendar(part.calendar).kind = "cancel"
      /\ ParseCalendar(part.calendar).readable
  <2>1. ClassifyMethod(part.calendar.method) = "cancel"
    BY <1>3, InvitesAssumption DEF ClassifyMethod, NamesItsMeeting
  <2>2. \A v \in ToSet(part.calendar.events) : Readable(v, "cancel")
    BY <1>3 DEF Readable, NamesItsMeeting
  <2> QED BY <2>1, <2>2 DEF ParseCalendar
<1>6. ParseIncomingInvite(mail) = ParseCalendarInvite(mail, ParseCalendar(part.calendar))
  BY <1>3, <1>4, <1>5 DEF ParseIncomingInvite, NamesItsMeeting
<1>7. /\ ParseCalendarInvite(mail, ParseCalendar(part.calendar)).parse = "ok"
      /\ ParseCalendarInvite(mail, ParseCalendar(part.calendar)).kind = "cancel"
  BY <1>5 DEF ParseCalendarInvite
<1> QED BY <1>6, <1>7 DEF Invite

(* A cancellation has only to say which meeting it cancels: no field that   *)
(* it leaves out and no missing link keeps it from the calendar             *)
(* (parseIcs.ts:47-48, parseIncomingInvite.ts:28-30).                       *)
THEOREM CancellationsGetThroughHolds == Spec => []CancellationsGetThrough
<1>1. Init => CancellationsGetThrough
  BY DEF Init, InboundInit, CancellationsGetThrough, Cancellations
<1>2. ASSUME Sound, CancellationsGetThrough, [Next]_vars PROVE CancellationsGetThrough'
  <2> SUFFICES ASSUME NEW m \in Cancellations PROVE inbox'[m] \notin {"ignored", "rejected"}
    BY DEF CancellationsGetThrough
  <2>0. m \in Message BY DEF Cancellations
  <2>1. inbox[m] \notin {"ignored", "rejected"} BY <1>2 DEF CancellationsGetThrough
  <2>2. inbox \in [Message -> {"none", "received", "parsed", "ignored", "rejected"}]
        /\ task \in [Worker -> Message \cup {NoMessage, Nightly}]
    BY <1>2 DEF Sound, TypeOK, InboundTypeOK
  <2>3. ~Ignored(m) /\ ~Refused(m)
    BY CancellationsAreRead DEF Cancellations, Ignored, Refused, FailedChecks
  <2>4. CASE UNCHANGED vars BY <2>1, <2>4 DEF vars, inboundVars
  <2>5. ASSUME NEW w \in Worker, NEW n \in Message, ReceiveMail(w, n)
        PROVE  inbox'[m] \notin {"ignored", "rejected"}
    BY <2>0, <2>1, <2>2, <2>5 DEF ReceiveMail, Receive
  <2>6. ASSUME NEW w \in Worker, GateMail(w) PROVE inbox'[m] \notin {"ignored", "rejected"}
    <3>1. CASE task[w] = m BY <2>0, <2>1, <2>3, <2>6, <3>1 DEF GateMail, Gate
    <3>2. CASE task[w] # m
      <4>1. inbox'[m] = inbox[m]
        BY <2>0, <2>2, <2>6, <3>2 DEF GateMail, Gate
      <4> QED BY <2>1, <4>1
    <3> QED BY <3>1, <3>2
  <2>7. ASSUME NEW w \in Worker, ResolveMail(w) PROVE inbox'[m] \notin {"ignored", "rejected"}
    BY <2>0, <2>1, <2>2, <2>7 DEF ResolveMail, Resolve
  <2>8. inbox' = inbox \/ (\E w \in Worker : (\E n \in Message : ReceiveMail(w, n))
                                          \/ GateMail(w) \/ ResolveMail(w))
    <3>1. ASSUME NEW w \in Worker, IngestStep(w), ~GateMail(w), ~ResolveMail(w)
          PROVE  inbox' = inbox
      BY <3>1
      DEF IngestStep, Ingest, Store, ReadSaved, ReplaceGuests, Expand, Look, Write, SyncJoinJob,
          Prune, Cut, Mark, CloseSeries, List, Cancel, ReadForExdates, StoreExdates, DropJoins,
          Notify, doneVars, inboundVars
    <3>2. ASSUME NEW w \in Worker, FailRun(w) \/ ExpandRecurrences(w) PROVE inbox' = inbox
      BY <3>2 DEF FailRun, Fail, ExpandRecurrences
    <3>3. ASSUME NEW k \in Day, (\E t \in Times : RunJoin(k, t)) \/ BotMoves(k) \/ StopBot(k)
          PROVE  inbox' = inbox
      BY <3>3 DEF RunJoin, BotMoves, StopBot, inboundVars
    <3>4. Tick => inbox' = inbox BY DEF Tick, inboundVars
    <3>5. UNCHANGED vars => inbox' = inbox BY DEF vars, inboundVars
    <3> QED BY <1>2, <3>1, <3>2, <3>3, <3>4, <3>5 DEF Next
  <2> QED BY <2>1, <2>5, <2>6, <2>7, <2>8
<1>3. Sound /\ CancellationsGetThrough /\ [Next]_vars => CancellationsGetThrough' BY <1>2
<1> QED BY <1>1, <1>3, SoundInit, SoundNext, PTL DEF Spec

----------------------------------------------------------------------------
(* Runs that neither overlap nor die.                                       *)

RunStep(w) ==
    (\E m \in Message : ReceiveMail(w, m)) \/ IngestStep(w) \/ FailRun(w) \/ ExpandRecurrences(w)

(* The run of w goes on, and there is no other.                             *)
Alone(w) ==
    /\ Sound /\ Serial /\ SerialInv
    /\ \A v \in Worker \ {w} : pc[v] = "idle" /\ pc'[v] = "idle"

(* A step of a mail's or an expansion's run.                                *)
LEMMA OnlyOne ==
  ASSUME Sound, SerialInv, NEW w \in Worker, RunStep(w), Serial'
  PROVE  Alone(w) /\ ~FailRun(w) /\ (~IngestStep(w) => Quiet)
<1>0. /\ disturbances \in Nat /\ pc \in [Worker -> Stages]
  BY Facts DEF Sound, TypeOK, InboundTypeOK
<1>1. Others(w) BY RunStepSound DEF RunStep
<1>2. CASE IngestStep(w) /\ ~FailRun(w)
  <2>1. disturbances' = disturbances /\ pc[w] # "idle"
    BY <1>2
    DEF IngestStep, GateMail, Gate, Ingest, Store, ReadSaved, ReplaceGuests, Expand, Look, Write,
        SyncJoinJob, Prune, Cut, Mark, CloseSeries, List, Cancel, ReadForExdates, StoreExdates,
        DropJoins, ResolveMail, Resolve, Notify, doneVars, inboundVars, At
  <2>2. Serial BY <2>1 DEF Serial
  <2>3. \A v \in Worker \ {w} : pc[v] = "idle" BY <2>1, <2>2 DEF SerialInv, OneRun, Working
  <2> QED BY <1>1, <1>2, <2>2, <2>3 DEF Alone, Others
<1>3. CASE FailRun(w)
  <2>1. disturbances' = disturbances + 1 BY <1>3 DEF FailRun, Fail
  <2> QED BY <1>0, <2>1 DEF Serial
<1>4. ASSUME NEW n \in {0, 1}, Begin(n), ~FailRun(w) PROVE Alone(w) /\ ~FailRun(w) /\ Quiet
  <2>1. Quiet
    <3>1. ASSUME ~Quiet PROVE FALSE
      <4>1. disturbances' = disturbances + 1 BY <1>4, <3>1 DEF Begin
      <4> QED BY <1>0, <4>1 DEF Serial
    <3> QED BY <3>1
  <2>2. disturbances' = disturbances + 0 BY <1>4, <2>1 DEF Begin
  <2>3. Serial BY <1>0, <2>2 DEF Serial
  <2>4. \A v \in Worker : pc[v] = "idle" BY <2>1 DEF Quiet, Working
  <2> QED BY <1>1, <1>4, <2>1, <2>3, <2>4 DEF Alone, Others
<1> QED BY <1>2, <1>3, <1>4 DEF RunStep, ReceiveMail, Receive, ExpandRecurrences

(* The run works on the stored series.                                      *)
LEMMA SeriesStep ==
  ASSUME NEW w \in Worker, Alone(w), IngestStep(w)
  PROVE  SeriesHeld(w)' /\ GuestInv'
<1>0. /\ local \in [Worker -> Locals] /\ pc \in [Worker -> Stages]
      /\ event \in Events \cup {NoEvent}
      /\ SeriesHeld(w) /\ TaskOK(w) /\ SeriesOK(w) /\ KeysOK(w) /\ GuestInv
  BY DEF Alone, Sound, TypeOK, RunInv, SerialInv, Held
<1> USE DEF Goto, Recall, Finish, doneVars, rowVars, inboundVars, At
<1>1. ASSUME UNCHANGED <<event, guests>>, ~Saves(w) PROVE GuestInv'
  BY <1>1, <1>0 DEF Alone, GuestInv, Saves
<1>2. ASSUME Saves(w)' PROVE GuestInv' BY <1>2 DEF GuestInv
<1>3. CASE GateMail(w)
  <2>1. pc'[w] \in {"idle", "ingest"} /\ ~Saves(w) /\ UNCHANGED <<event, guests>>
    BY <1>0, <1>3 DEF GateMail, Gate, Saves, calendarVars
  <2> QED BY <1>1, <2>1 DEF SeriesHeld, Expanding, Loop
<1>4. CASE Ingest(w)
  <2>1. ~Saves(w) /\ UNCHANGED <<event, guests, task>> /\ local'[w].event = event
    BY <1>0, <1>4 DEF Ingest, Saves, Locals
  <2>2. /\ pc'[w] \in {"store", "resolve", "mark", "close", "list"}
        /\ pc'[w] = "store" => event = NoEvent \/ SequenceOf(Master(task[w])) >= event.seq
        /\ pc'[w] = "list" => OverriddenDays(task[w]) # {}
    <3> DEFINE stale == event # NoEvent /\ SequenceOf(Master(task[w])) < event.seq
    <3>1. stale \/ event = NoEvent \/ SequenceOf(Master(task[w])) >= event.seq
          \/ ~BringsSeries(task[w])
      <4>1. CASE BringsSeries(task[w]) /\ event # NoEvent
        <5>1. event.seq \in Int BY <1>0, <4>1 DEF Events
        <5>2. Series(task[w]) \in Events BY <1>0, <1>4, <4>1, SeriesOfMail DEF TaskOK, Ingest
        <5>3. SequenceOf(Master(task[w])) \in Int BY <5>2 DEF Series, Events
        <5> QED BY <5>1, <5>3
      <4> QED BY <4>1
    <3>2. pc' = [pc EXCEPT ![w] =
                   IF BringsSeries(task[w]) THEN IF stale THEN "resolve" ELSE "store"
                   ELSE IF event = NoEvent THEN "resolve"
                   ELSE IF Invite[task[w]].kind = "request" THEN "mark"
                   ELSE IF OverriddenDays(task[w]) = {} THEN "close" ELSE "list"]
      BY <1>4 DEF Ingest
    <3> HIDE DEF stale
    <3> QED BY <1>0, <3>1, <3>2
  <2> QED BY <1>1, <2>1, <2>2 DEF SeriesHeld, Expanding, Loop
<1>5. CASE Store(w)
  <2>1. pc'[w] = "saved" /\ event' = Series(task[w]) /\ task' = task
    BY <1>0, <1>5 DEF Store, SeriesHeld
  <2> QED BY <1>2, <2>1 DEF SeriesHeld, Expanding, Loop, Saves
<1>6. CASE ReadSaved(w)
  <2>1. /\ pc'[w] = "guests" /\ event' = event /\ task' = task /\ local'[w].event = event
        /\ event = Series(task[w])
    BY <1>0, <1>6 DEF ReadSaved, SeriesHeld, Locals
  <2>2. event.status = "active" BY <2>1 DEF Series
  <2> QED BY <1>2, <2>1, <2>2 DEF SeriesHeld, Expanding, Loop, Saves
<1>7. CASE ReplaceGuests(w)
  <2>1. /\ pc'[w] = "expand" /\ event' = event /\ task' = task /\ local' = local
        /\ event = Series(task[w]) /\ local[w].event = event /\ event.status = "active"
        /\ guests' = ComputeAttendeeRows(Master(task[w]))
    BY <1>0, <1>7 DEF ReplaceGuests, SeriesHeld
  <2>2. event.src = task[w] BY <2>1 DEF Series
  <2>3. GuestInv' BY <2>1, <2>2 DEF GuestInv
  <2> QED BY <2>1, <2>3 DEF SeriesHeld, Expanding, Loop
<1>8. CASE Expand(w) \/ Look(w) \/ Write(w) \/ SyncJoinJob(w) \/ Prune(w) \/ Cut(w)
  <2>1. UNCHANGED <<event, guests, task>> /\ ~Saves(w)
    BY <1>8 DEF Expand, Look, Write, SyncJoinJob, Prune, Cut, Saves
  <2>2. /\ local'[w].event = local[w].event /\ local'[w].over = local[w].over
        /\ pc'[w] \in {"look", "write", "sync", "prune", "cut", "mark", "resolve"}
        /\ Expanding(w)' => Expanding(w)
    BY <1>0, <1>8
    DEF Expand, Look, Write, SyncJoinJob, NextKey, Prune, Cut, Expanding, Loop, Locals
  <2> QED BY <1>0, <1>1, <2>1, <2>2 DEF SeriesHeld
<1>9. CASE Mark(w)
  <2>1. UNCHANGED <<event, guests>> /\ ~Saves(w) BY <1>9 DEF Mark, Saves
  <2>2. pc'[w] \in {"idle", "resolve"} \/ (pc'[w] = "look" /\ local'[w].over)
    BY <1>0, <1>9 DEF Mark, Locals
  <2> QED BY <1>1, <2>1, <2>2 DEF SeriesHeld, Expanding, Loop
<1>10. CASE CloseSeries(w)
  <2>1. task' = task /\ guests' = guests /\ pc'[w] \in {"list", "resolve"}
        /\ ~Saves(w) /\ event \in Events /\ OverriddenDays(task[w]) = {}
    BY <1>0, <1>10 DEF CloseSeries, Saves, SeriesOK, TaskOK, Canceling
  <2>2. /\ event'.src = event.src
        /\ pc'[w] = "list" => event'.status = "canceled"
    BY <1>0, <1>10, <2>1 DEF CloseSeries, Events
  <2>3. GuestInv' BY <1>0, <2>1, <2>2, Facts DEF Alone, GuestInv, Saves
  <2> QED BY <2>1, <2>2, <2>3 DEF SeriesHeld, Expanding, Loop
<1>11. CASE List(w) \/ Cancel(w) \/ DropJoins(w)
  <2>1. /\ UNCHANGED <<event, guests, task>> /\ ~Saves(w) /\ local'[w].event = local[w].event
        /\ pc'[w] \in {"cancel", "exdates_read", "drop", "resolve"}
        /\ pc'[w] \in {"cancel", "exdates_read"} => pc[w] \in {"list", "cancel"}
    BY <1>0, <1>11 DEF List, Cancel, DropJoins, Saves, Locals
  <2>2. pc'[w] \in {"cancel", "exdates_read"}
           => IF OverriddenDays(task[w]) = {} THEN event.status = "canceled"
              ELSE local[w].event = event
    BY <1>0, <2>1 DEF SeriesHeld
  <2>3. SeriesHeld(w)' BY <2>1, <2>2 DEF SeriesHeld, Expanding, Loop
  <2> QED BY <1>1, <2>1, <2>3
<1>12. CASE ReadForExdates(w)
  <2>1. /\ UNCHANGED <<event, guests, task>> /\ ~Saves(w) /\ task[w] \in Admissible
        /\ OverriddenDays(task[w]) # {} /\ local[w].event = event /\ event \in Events
    BY <1>0, <1>12 DEF ReadForExdates, Saves, TaskOK, SeriesOK, SeriesHeld, Canceling
  <2> DEFINE seq == CancelSeq(w, event)
             new == [event EXCEPT !.seq = seq, !.ex = event.ex \cup OverriddenDays(task[w])]
  <2>2. seq >= event.seq BY <2>1, CancelSeqGrows
  <2>3. \/ pc'[w] = "drop"
        \/ pc'[w] = "exdates" /\ local' = [local EXCEPT ![w].event = new]
    BY <1>0, <1>12, <2>1 DEF ReadForExdates
  <2>4. new.seq = seq
        /\ new = [event EXCEPT !.seq = new.seq, !.ex = @ \cup OverriddenDays(task[w])]
    BY <2>1 DEF Events
  <2> HIDE DEF new, seq
  <2>5. \/ pc'[w] = "drop"
        \/ pc'[w] = "exdates" /\ local'[w].event = new
    BY <1>0, <2>3 DEF Locals
  <2> QED BY <1>1, <2>1, <2>2, <2>4, <2>5 DEF SeriesHeld, Expanding, Loop
<1>13. CASE StoreExdates(w)
  <2>1. guests' = guests /\ pc'[w] = "drop" /\ ~Saves(w) /\ event \in Events
    BY <1>0, <1>13 DEF StoreExdates, Saves, SeriesOK, Canceling
  <2>2. event'.src = event.src
    BY <1>0, <1>13, <2>1 DEF StoreExdates, SeriesHeld, Events
  <2>3. GuestInv' BY <1>0, <2>1, <2>2, Facts DEF Alone, GuestInv, Saves
  <2> QED BY <2>1, <2>3 DEF SeriesHeld, Expanding, Loop
<1>14. CASE ResolveMail(w) \/ Notify(w)
  <2>1. pc'[w] \in {"notify", "idle"} /\ ~Saves(w) /\ UNCHANGED <<event, guests>>
    BY <1>0, <1>14 DEF ResolveMail, Resolve, Notify, Saves, calendarVars
  <2> QED BY <1>1, <2>1 DEF SeriesHeld, Expanding, Loop
<1> QED BY <1>3, <1>4, <1>5, <1>6, <1>7, <1>8, <1>9, <1>10, <1>11, <1>12, <1>13, <1>14
        DEF IngestStep

(* What a write does to the row that its run has read.                      *)
LEMMA WriteAlone ==
  ASSUME NEW w \in Worker, Alone(w), Write(w), NEW k \in Day, k = Current(w)
  PROVE  \/ /\ NextKey(w) /\ occ' = occ /\ occ[k] # NoRow
            /\ Wanted(w).seq < occ[k].seq \/ occ[k].status # "canceled"
         \/ \E r \in Rows, moved \in BOOLEAN :
               /\ occ' = [occ EXCEPT ![k] = r] /\ pc' = [pc EXCEPT ![w] = "sync"]
               /\ local' = [local EXCEPT ![w].row = r, ![w].moved = moved]
               /\ r.status \in Untouched
               /\ r.start = Wanted(w).start /\ r.seq = Wanted(w).seq
               /\ r.override = (Wanted(w).override \/ (occ[k] # NoRow /\ occ[k].override))
               /\ moved \/ occ[k] = NoRow \/ occ[k].start = r.start
<1> DEFINE row == local[w].row
           wanted == Wanted(w)
           st == IF row.status \in {"canceled", "skipped"} THEN "scheduled" ELSE row.status
           new == [wanted EXCEPT !.status = st, !.override = wanted.override \/ row.override]
           changed == row.start # new.start \/ row.body # new.body
<1>0. /\ local \in [Worker -> Locals] /\ occ \in [Day -> Rows \cup {NoRow}]
      /\ SameRow(row, occ[k]) /\ wanted \in Rows /\ pc[w] = "write"
  BY WantedIsRow DEF Alone, Sound, TypeOK, RunInv, SerialInv, Held, RowHeld, Write, At
<1>1. row \in Rows \cup {NoRow} BY <1>0 DEF Locals
<1>2. wanted.status = "scheduled" BY DEF Wanted
<1>3. CASE row = NoRow
  <2>1. occ[k] = NoRow BY <1>0, <1>3 DEF SameRow
  <2>2. /\ occ' = [occ EXCEPT ![k] = wanted] /\ pc' = [pc EXCEPT ![w] = "sync"]
        /\ local' = [local EXCEPT ![w].row = wanted, ![w].moved = FALSE]
    BY <1>3, <2>1 DEF Write, Goto
  <2>3. wanted.override \in BOOLEAN BY <1>0 DEF Rows
  <2> QED BY <1>0, <1>2, <2>1, <2>2, <2>3 DEF Untouched
<1>4. CASE row # NoRow
  <2>1. /\ occ[k] # NoRow /\ row.start = occ[k].start /\ row.seq = occ[k].seq
        /\ row.override = occ[k].override
        /\ occ[k].status = "canceled" => row.status = "canceled"
    BY <1>0, <1>4 DEF SameRow
  <2>2. CASE wanted.seq < row.seq \/ Runs(row)
    <3>1. NextKey(w) /\ occ' = occ BY <1>4, <2>2 DEF Write
    <3>2. wanted.seq < occ[k].seq \/ occ[k].status # "canceled" BY <2>1, <2>2 DEF Runs
    <3> QED BY <2>1, <3>1, <3>2
  <2>3. CASE ~(wanted.seq < row.seq \/ Runs(row))
    <3>1. /\ occ' = [occ EXCEPT ![k] = new] /\ pc' = [pc EXCEPT ![w] = "sync"]
          /\ local' = [local EXCEPT ![w].row = new, ![w].moved = changed]
      BY <1>4, <2>3 DEF Write, Goto
    <3>2. row \in Rows /\ row.status \in Statuses BY <1>1, <1>4 DEF Rows
    <3>3. st \in Untouched BY <2>3, <3>2 DEF Runs, Statuses, Untouched
    <3>4. wanted.override \in BOOLEAN /\ row.override \in BOOLEAN BY <1>0, <3>2 DEF Rows
    <3>5. (wanted.override \/ row.override) \in BOOLEAN OBVIOUS
    <3> HIDE DEF wanted, st, row
    <3>6. /\ new \in Rows /\ new.status = st /\ new.start = wanted.start /\ new.seq = wanted.seq
          /\ new.override = (wanted.override \/ row.override)
      BY <1>0, <3>3, <3>5 DEF Rows, Statuses
    <3>7. changed \in BOOLEAN /\ (changed \/ row.start = new.start) OBVIOUS
    <3>8. new.override = (wanted.override \/ (occ[k] # NoRow /\ occ[k].override))
      BY <2>1, <3>6
    <3> HIDE DEF new, changed
    <3>9. new.status \in Untouched BY <3>3, <3>6
    <3>10. changed \/ occ[k] = NoRow \/ occ[k].start = new.start BY <2>1, <3>7
    <3> QED BY <3>1, <3>6, <3>7, <3>8, <3>9, <3>10 DEF wanted
  <2> QED BY <2>2, <2>3
<1> QED BY <1>3, <1>4

(* Rows are only written by four steps of a run, jobs by three.             *)
LEMMA RowsWritten ==
  ASSUME NEW w \in Worker, IngestStep(w)
  PROVE  /\ occ' = occ \/ Write(w) \/ SyncJoinJob(w) \/ Cut(w) \/ Cancel(w)
         /\ join' = join \/ SyncJoinJob(w) \/ Cut(w) \/ DropJoins(w)
         /\ bot' = bot /\ now' = now /\ joined' = joined
BY DEF IngestStep, GateMail, Ingest, Store, ReadSaved, ReplaceGuests, Expand, Look, Write,
       SyncJoinJob, Prune, Cut, Mark, CloseSeries, List, Cancel, ReadForExdates, StoreExdates,
       DropJoins, ResolveMail, Notify, doneVars, rowVars, calendarVars

(* Where a run is after it.                                                 *)
LEMMA StageAfter ==
  ASSUME NEW w \in Worker, Sound, IngestStep(w)
  PROVE  /\ pc'[w] = "write" => Look(w)
         /\ pc'[w] = "sync" => Write(w)
         /\ pc'[w] = "cut" => Prune(w)
         /\ pc'[w] = "cancel" => List(w)
         /\ pc'[w] = "exdates_read" => Cancel(w)
         /\ pc'[w] = "exdates" => ReadForExdates(w)
         /\ pc'[w] = "drop" => Cancel(w) \/ ReadForExdates(w) \/ StoreExdates(w)
<1>1. pc \in [Worker -> Stages] BY DEF Sound, TypeOK
<1>2. CASE GateMail(w) \/ Ingest(w) \/ Store(w) \/ ReadSaved(w) \/ ReplaceGuests(w) \/ Expand(w)
  BY <1>1, <1>2 DEF GateMail, Gate, Ingest, Store, ReadSaved, ReplaceGuests, Expand, Goto, Finish
<1>3. CASE Look(w) \/ Write(w) \/ Prune(w) \/ Cut(w) \/ SyncJoinJob(w)
  BY <1>1, <1>3 DEF Look, Write, SyncJoinJob, NextKey, Prune, Cut, Goto
<1>4. CASE Mark(w) \/ CloseSeries(w) \/ List(w) \/ Cancel(w) \/ ReadForExdates(w) \/ StoreExdates(w)
  BY <1>1, <1>4 DEF Mark, CloseSeries, List, Cancel, ReadForExdates, StoreExdates, Goto, Finish
<1>5. CASE DropJoins(w) \/ ResolveMail(w) \/ Notify(w)
  BY <1>1, <1>5 DEF DropJoins, ResolveMail, Resolve, Notify, Goto, Finish
<1> QED BY <1>2, <1>3, <1>4, <1>5 DEF IngestStep

(* What canceling leaves of a row.                                          *)
LEMMA CanceledRowsAre ==
  ASSUME TypeOK, NEW K \in SUBSET Day, Exist(K)
  PROVE  /\ \A k \in Day \ K : CanceledRows(K)[k] = occ[k]
         /\ \A k \in K : /\ occ[k] # NoRow /\ CanceledRows(K)[k] # NoRow
                         /\ CanceledRows(K)[k].status = "canceled"
                         /\ CanceledRows(K)[k].start = occ[k].start
                         /\ CanceledRows(K)[k].seq = occ[k].seq
                         /\ CanceledRows(K)[k].override = occ[k].override
<1>1. \A k \in K : occ[k] # NoRow /\ occ[k] \in Rows BY DEF TypeOK, Exist
<1>2. \A k \in K : CanceledRows(K)[k] # NoRow BY <1>1, CanceledRowsOK
<1> QED BY <1>1, <1>2 DEF CanceledRows, Rows

(* What a step of another stage of the run leaves of the rows.              *)
LEMMA SyncAlone ==
  ASSUME NEW w \in Worker, Alone(w), SyncJoinJob(w), NEW k \in Day, k = Current(w)
  PROVE  LET row == local[w].row
             left == IF local[w].moved THEN CancelJoins(k, join) ELSE join
         IN /\ occ[k] # NoRow /\ occ[k].start = row.start /\ occ[k].status # "canceled"
            /\ row \in Rows /\ row.status \in Untouched
            /\ \/ /\ row.start < now /\ join' = CancelJoins(k, join)
                  /\ occ' = [occ EXCEPT ![k] = [@ EXCEPT !.status = "skipped"]]
               \/ row.start >= now /\ occ' = occ /\ join' = CreateJoin(k, row.start, left)
<1>1. /\ local[w] \in Locals /\ RowHeld(w) /\ KeysOK(w) /\ pc[w] = "sync" /\ now \in Nat
  BY Facts DEF Alone, Sound, TypeOK, RunInv, SerialInv, Held, SyncJoinJob, At, Times
<1>2. local[w].row \in Rows /\ local[w].row # NoRow BY <1>1 DEF Locals, KeysOK, At
<1>3. local[w].row.start \in Nat BY <1>2, Facts DEF Rows, Starts
<1>4. /\ occ[k] # NoRow /\ occ[k].start = local[w].row.start /\ occ[k].status # "canceled"
      /\ local[w].row.status \in Untouched
  BY <1>1 DEF RowHeld, KeysOK, At
<1>5. CASE local[w].row.start < now
  BY <1>2, <1>4, <1>5 DEF SyncJoinJob
<1>6. CASE local[w].row.start >= now
  <2>1. ~(local[w].row.start < now) BY <1>1, <1>3, <1>6
  <2> QED BY <1>2, <1>4, <1>6, <2>1 DEF SyncJoinJob
<1> QED BY <1>1, <1>3, <1>5, <1>6

(* Pending jobs stay within their lead when starts stay.                    *)
LEMMA JoinKept ==
  ASSUME RowInv, JoinInv, \A v \in Worker : pc[v] # "sync",
         \A k \in Day : occ[k] # NoRow => occ'[k].start = occ[k].start,
         \A k \in Day, t \in Times : join'[k][t] = "pending" => join[k][t] = "pending"
  PROVE  JoinInv'
BY DEF RowInv, JoinInv, At

(* The row that a run has read stays the one it writes.                     *)
LEMMA RowStep ==
  ASSUME NEW w \in Worker, Alone(w), IngestStep(w)
  PROVE  RowHeld(w)' /\ JoinInv'
<1>0. /\ local \in [Worker -> Locals] /\ pc \in [Worker -> Stages] /\ now \in Nat
      /\ occ \in [Day -> Rows \cup {NoRow}] /\ join \in [Day -> Jobs] /\ TypeOK
      /\ RowHeld(w) /\ KeysOK(w) /\ JoinInv /\ RowInv
  BY Facts DEF Alone, Sound, TypeOK, RunInv, SerialInv, Held, Times
<1>1. \A v \in Worker \ {w} : pc[v] = "idle" /\ pc'[v] = "idle" BY DEF Alone
<1> USE DEF At
<1>2. CASE Look(w)
  <2>1. Current(w)' = Current(w) /\ local'[w].row = occ[Current(w)] /\ pc'[w] = "write"
    BY <1>0, <1>2 DEF Look, Recall, Goto, Current, Locals
  <2>2. occ' = occ /\ join' = join /\ pc[w] = "look" BY <1>2 DEF Look, rowVars
  <2>3. RowHeld(w)' BY <2>1, <2>2 DEF RowHeld, SameRow
  <2>4. JoinInv' BY <1>0, <1>1, <2>2, JoinKept
  <2> QED BY <2>3, <2>4
<1>3. CASE Write(w)
  <2>1. PICK k \in Day : k = Current(w) BY <1>3, WantedIsRow DEF Alone, Sound, RunInv, Write
  <2>2. join' = join /\ pc[w] = "write" BY <1>3 DEF Write
  <2>3. CASE NextKey(w) /\ occ' = occ
    <3>1. pc'[w] \notin {"write", "sync"} BY <1>0, <2>3 DEF NextKey, Goto
    <3>2. JoinInv' BY <1>0, <1>1, <2>2, <2>3, JoinKept
    <3> QED BY <3>1, <3>2 DEF RowHeld
  <2>4. CASE ~(NextKey(w) /\ occ' = occ)
    <3>1. PICK r \in Rows, moved \in BOOLEAN :
             /\ occ' = [occ EXCEPT ![k] = r] /\ pc' = [pc EXCEPT ![w] = "sync"]
             /\ local' = [local EXCEPT ![w].row = r, ![w].moved = moved]
             /\ r.status \in Untouched
             /\ r.start = Wanted(w).start /\ r.seq = Wanted(w).seq
             /\ r.override = (Wanted(w).override \/ (occ[k] # NoRow /\ occ[k].override))
             /\ moved \/ occ[k] = NoRow \/ occ[k].start = r.start
      BY <1>3, <2>1, <2>4, WriteAlone
    <3>2. /\ local'[w].row = r /\ local'[w].moved = moved /\ local'[w].todo = local[w].todo
          /\ pc'[w] = "sync" /\ occ'[k] = r
      BY <1>0, <3>1 DEF Locals
    <3>3. Current(w)' = k BY <2>1, <3>2 DEF Current
    <3>4. r.status # "canceled" BY <3>1 DEF Untouched
    <3>5. RowHeld(w)' BY <3>1, <3>2, <3>3, <3>4 DEF RowHeld
    <3>6. ASSUME NEW l \in Day, NEW t \in Times, join'[l][t] = "pending",
                 ~(\E v \in Worker : At(v, "sync") /\ local[v].moved /\ l = Current(v))'
          PROVE  t + Lead >= occ'[l].start
      <4>1. occ[l] # NoRow /\ t + Lead >= occ[l].start
        BY <1>0, <1>1, <2>2, <3>6 DEF RowInv, JoinInv
      <4>2. CASE l = k BY <3>1, <3>2, <3>3, <3>6, <4>1, <4>2
      <4>3. CASE l # k BY <1>0, <3>1, <4>1, <4>3
      <4> QED BY <4>2, <4>3
    <3>7. JoinInv' BY <3>6 DEF JoinInv
    <3> QED BY <3>5, <3>7
  <2> QED BY <2>3, <2>4
<1>4. CASE SyncJoinJob(w)
  <2>1. local[w].todo \in SUBSET Day /\ local[w].todo # {}
    BY <1>0, <1>4 DEF SyncJoinJob, KeysOK, Locals, Loop
  <2>2. PICK k \in Day : k = Current(w) BY <2>1, CurrentIsLeft DEF Current
  <2>3. pc'[w] \notin {"write", "sync"} BY <1>0, <1>4 DEF SyncJoinJob, NextKey, Goto
  <2> DEFINE row == local[w].row
             left == IF local[w].moved THEN CancelJoins(k, join) ELSE join
  <2>4. /\ occ[k] # NoRow /\ occ[k].start = row.start /\ row \in Rows
        /\ \/ /\ join' = CancelJoins(k, join)
              /\ occ' = [occ EXCEPT ![k] = [@ EXCEPT !.status = "skipped"]]
           \/ occ' = occ /\ join' = CreateJoin(k, row.start, left)
    BY <1>4, <2>2, SyncAlone
  <2>5. \A l \in Day : occ'[l] = occ[l] \/ (l = k /\ occ'[l].start = occ[l].start)
    BY <1>0, <2>4 DEF Rows
  <2>6. ASSUME NEW l \in Day, NEW t \in Times, join'[l][t] = "pending"
        PROVE  t + Lead >= occ[l].start
    <3>1. left \in [Day -> Jobs] /\ row.start \in Day
      BY <1>0, <2>4, CancelJoinsOK DEF Rows, Starts
    <3>2. ASSUME join[l][t] = "pending", l # k \/ ~local[w].moved
          PROVE  t + Lead >= occ[l].start
      BY <1>0, <1>1, <2>2, <3>2 DEF JoinInv
    <3>3. CASE join' = CancelJoins(k, join)
      BY <1>0, <2>6, <3>2, <3>3, CancelJoinsOK
    <3>4. CASE join' = CreateJoin(k, row.start, left)
      <4>1. \/ left[l][t] = "pending"
            \/ l = k /\ t = JoinTime(row.start)
        BY <1>0, <2>6, <3>1, <3>4, CreateJoinOK
      <4>2. CASE left[l][t] = "pending"
        <5>1. join[l][t] = "pending" /\ (l # k \/ ~local[w].moved)
          BY <1>0, <4>2, CancelJoinsOK
        <5> QED BY <3>2, <5>1
      <4>3. CASE l = k /\ t = JoinTime(row.start)
        <5>1. row.start \in Nat /\ Lead \in Nat BY <3>1, Facts
        <5> HIDE DEF row
        <5>2. JoinTime(row.start) + Lead >= row.start
          <6>1. CASE row.start > now + Lead BY <1>0, <5>1, <6>1 DEF JoinTime
          <6>2. CASE ~(row.start > now + Lead) BY <1>0, <5>1, <6>2 DEF JoinTime
          <6> QED BY <6>1, <6>2
        <5> QED BY <2>4, <4>3, <5>2
      <4> QED BY <4>1, <4>2, <4>3
    <3> QED BY <2>4, <3>3, <3>4
  <2>7. JoinInv' BY <2>4, <2>5, <2>6 DEF JoinInv
  <2> QED BY <2>3, <2>7 DEF RowHeld
<1>5. CASE Cut(w) \/ Cancel(w)
  <2>1. local[w].doomed \in SUBSET Day /\ Exist(local[w].doomed) /\ pc[w] # "sync"
    BY <1>0, <1>5 DEF Cut, Cancel, KeysOK, Locals
  <2>2. pc'[w] \notin {"write", "sync"} BY <1>0, <1>5 DEF Cut, Cancel, Goto
  <2>3. /\ occ' = CanceledRows(local[w].doomed)
        /\ join' = join \/ join' = CanceledJoins(local[w].doomed)
    BY <1>5 DEF Cut, Cancel
  <2>4. \A k \in Day : occ'[k] = occ[k] \/ occ'[k].start = occ[k].start
    BY <1>0, <2>1, <2>3, CanceledRowsAre
  <2>5. \A k \in Day, t \in Times : join'[k][t] = "pending" => join[k][t] = "pending"
    BY <1>0, <2>1, <2>3, CanceledJoinsOK
  <2>6. \A k \in Day : occ[k] # NoRow => occ'[k].start = occ[k].start BY <2>4
  <2>7. JoinInv' BY <1>0, <1>1, <2>1, <2>5, <2>6, JoinKept
  <2> QED BY <2>2, <2>7 DEF RowHeld
<1>6. CASE ~(Look(w) \/ Write(w) \/ SyncJoinJob(w) \/ Cut(w) \/ Cancel(w))
  <2>1. occ' = occ /\ pc'[w] \notin {"write", "sync"} /\ pc[w] # "sync"
    <3>1. pc[w] = "sync" => SyncJoinJob(w)
      BY DEF IngestStep, GateMail, Gate, Ingest, Store, ReadSaved, ReplaceGuests, Expand, Look,
             Write, Prune, Cut, Mark, CloseSeries, List, Cancel, ReadForExdates, StoreExdates,
             DropJoins, ResolveMail, Resolve, Notify
    <3> QED BY <1>6, <3>1, RowsWritten, StageAfter DEF Alone
  <2>2. \A k \in Day, t \in Times : join'[k][t] = "pending" => join[k][t] = "pending"
    <3>1. CASE join' = join BY <3>1
    <3>2. CASE DropJoins(w)
      <4>1. local[w].doomed \in SUBSET Day BY <1>0 DEF Locals
      <4> QED BY <1>0, <3>2, <4>1, CanceledJoinsOK DEF DropJoins
    <3> QED BY <1>6, <3>1, <3>2, RowsWritten
  <2>3. JoinInv' BY <1>0, <1>1, <2>1, <2>2, JoinKept
  <2> QED BY <2>1, <2>3 DEF RowHeld
<1> QED BY <1>2, <1>3, <1>4, <1>5, <1>6

(* The days of a run stay those of the series.                              *)

(* An expansion overrides nothing, and the days of the series stay.         *)
LEMMA OverridesStay ==
  ASSUME NEW w \in Worker, Alone(w), IngestStep(w), Expanding(w)
  PROVE  UNCHANGED <<event, now>> /\ Instances(event)' = Instances(event)
         /\ (DaysHeld(w) => Overridden' \subseteq Overridden)
<1>0. /\ local \in [Worker -> Locals] /\ pc \in [Worker -> Stages] /\ TypeOK
      /\ occ \in [Day -> Rows \cup {NoRow}] /\ KeysOK(w)
  BY DEF Alone, Sound, TypeOK, RunInv
<1>1. event' = event /\ now' = now
  BY OnlyStoresWrite, RowsWritten
  DEF Expanding, Loop, Store, CloseSeries, StoreExdates, At
<1>2. Instances(event)' = Instances(event) BY <1>1 DEF Instances
<1>3. ASSUME DaysHeld(w) PROVE Overridden' \subseteq Overridden
  <2>1. CASE occ' = occ BY <2>1 DEF Overridden
  <2>2. CASE Write(w)
    <3>1. PICK k \in Day : k = Current(w) /\ k \in local[w].todo
      BY <2>2, WantedIsRow DEF Alone, Sound, RunInv, Write
    <3>2. ~local[w].over BY <2>2 DEF Expanding, Loop, Write, At
    <3>3. k \notin Overridden /\ ~Wanted(w).override
      BY <1>3, <2>2, <3>1, <3>2 DEF DaysHeld, Loop, Write, At, Wanted
    <3>4. \/ occ' = occ
          \/ \E r \in Rows, moved \in BOOLEAN :
                /\ occ' = [occ EXCEPT ![k] = r] /\ pc' = [pc EXCEPT ![w] = "sync"]
                /\ local' = [local EXCEPT ![w].row = r, ![w].moved = moved]
                /\ r.status \in Untouched
                /\ r.start = Wanted(w).start /\ r.seq = Wanted(w).seq
                /\ r.override = (Wanted(w).override \/ (occ[k] # NoRow /\ occ[k].override))
                /\ moved \/ occ[k] = NoRow \/ occ[k].start = r.start
      BY <2>2, <3>1, WriteAlone
    <3> QED BY <1>0, <3>3, <3>4 DEF Overridden
  <2>3. CASE SyncJoinJob(w)
    <3>1. local[w].todo \in SUBSET Day /\ local[w].todo # {}
      BY <1>0, <2>3 DEF SyncJoinJob, KeysOK, Locals, Loop, At
    <3>2. PICK k \in Day : k = Current(w) BY <3>1, CurrentIsLeft DEF Current
    <3>3. /\ occ[k] # NoRow
          /\ occ' = occ \/ occ' = [occ EXCEPT ![k] = [@ EXCEPT !.status = "skipped"]]
      BY <2>3, <3>2, SyncAlone
    <3> QED BY <1>0, <3>3 DEF Overridden, Rows
  <2>4. CASE Cut(w)
    <3>1. local[w].doomed \in SUBSET Day /\ Exist(local[w].doomed)
      BY <1>0, <2>4 DEF Cut, KeysOK, Locals, At
    <3> QED BY <1>0, <2>4, <3>1, CanceledRowsAre DEF Cut, Overridden
  <2> QED BY <2>1, <2>2, <2>3, <2>4, RowsWritten DEF Expanding, Loop, Cancel, At
<1> QED BY <1>1, <1>2, <1>3

(* The days of a run stay those of the series.                              *)
LEMMA DaysStep ==
  ASSUME NEW w \in Worker, Alone(w), IngestStep(w)
  PROVE  DaysHeld(w)'
<1>0. /\ local \in [Worker -> Locals] /\ pc \in [Worker -> Stages] /\ TypeOK
      /\ occ \in [Day -> Rows \cup {NoRow}] /\ KeysOK(w) /\ TaskOK(w) /\ DaysHeld(w) /\ SeriesHeld(w)
  BY DEF Alone, Sound, TypeOK, RunInv, SerialInv, Held
<1> USE DEF At
<1>1. CASE Expand(w)
  <2>1. /\ UNCHANGED <<event, now, occ>> /\ local[w].event = event /\ ~local[w].over
        /\ event.status = "active"
    BY <1>0, <1>1 DEF Expand, doneVars, rowVars, SeriesHeld, KeysOK, Expanding, Loop
  <2>2. Instances(event)' = Instances(event) /\ Overridden' = Overridden
    BY <2>1 DEF Instances, Overridden
  <2>3. /\ local' = [local EXCEPT ![w].todo = Instances(event) \ Overridden,
                                  ![w].valid = Instances(event) \cup Overridden]
        /\ pc' = [pc EXCEPT ![w] = IF Instances(event) \subseteq Overridden THEN "prune" ELSE "look"]
    BY <1>1, <2>1 DEF Expand, Goto
  <2>4. /\ local'[w].todo = Instances(event) \ Overridden
        /\ local'[w].valid = Instances(event) \cup Overridden
        /\ pc'[w] \in {"prune", "look"}
    BY <1>0, <2>3 DEF Locals
  <2> QED BY <2>2, <2>4 DEF DaysHeld, Expanding, Loop
<1>2. CASE Look(w) \/ Write(w) \/ SyncJoinJob(w)
  <2>1. /\ pc[w] \in Loop /\ local'[w].over = local[w].over /\ local'[w].valid = local[w].valid
        /\ local'[w].todo \subseteq local[w].todo
        /\ pc'[w] \in Loop \cup {"resolve", "prune"}
        /\ pc'[w] = "prune" => ~local[w].over
    BY <1>0, <1>2 DEF Look, Write, SyncJoinJob, NextKey, Goto, Recall, Loop, Locals
  <2>2. CASE local[w].over
    BY <2>1, <2>2 DEF DaysHeld, Expanding, Loop
  <2>3. CASE ~local[w].over
    <3>1. Expanding(w) BY <2>1, <2>3 DEF Expanding
    <3>2. Instances(event)' = Instances(event) /\ Overridden' \subseteq Overridden
      BY <1>0, <3>1, OverridesStay
    <3> QED BY <1>0, <2>1, <2>3, <3>1, <3>2 DEF DaysHeld, Expanding, Loop
  <2> QED BY <2>2, <2>3
<1>3. CASE Prune(w)
  <2>1. /\ pc'[w] \in {"mark", "cut"} /\ local'[w].valid = local[w].valid
        /\ Expanding(w) /\ occ' = occ /\ now' = now
        /\ local'[w].doomed = {k \in Day \ local[w].valid :
                                 /\ occ[k] # NoRow /\ ~occ[k].override
                                 /\ occ[k].start >= now /\ occ[k].status \in Untouched}
    BY <1>0, <1>3 DEF Prune, Recall, Goto, Locals, Expanding, rowVars, doneVars
  <2>2. Instances(event)' = Instances(event) /\ Overridden' = Overridden
    BY <2>1, OverridesStay DEF Overridden
  <2>3. Instances(event) \subseteq local[w].valid BY <1>0, <1>3, <2>1 DEF DaysHeld, Prune
  <2>4. \A k \in local'[w].doomed :
           k \notin Overridden /\ occ[k].start >= now /\ k \notin local[w].valid
    BY <2>1 DEF Overridden
  <2> QED BY <2>1, <2>2, <2>3, <2>4 DEF DaysHeld, Expanding, Loop
<1>4. CASE List(w)
  <2> DEFINE keys == IF OverriddenDays(task[w]) = {} THEN Day ELSE OverriddenDays(task[w])
             open == {k \in keys : occ[k] # NoRow /\ occ[k].status \in Untouched \cup {"in_meeting"}}
  <2>1. /\ pc'[w] = "cancel" /\ task' = task /\ local'[w].doomed = open
    BY <1>0, <1>4 DEF List, Goto, Locals, doneVars
  <2>2. OverriddenDays(task[w]) # {} => open \subseteq OverriddenDays(task[w]) OBVIOUS
  <2> HIDE DEF open
  <2> QED BY <2>1, <2>2 DEF DaysHeld, Expanding, Loop
<1>5. CASE ~(Expand(w) \/ Look(w) \/ Write(w) \/ SyncJoinJob(w) \/ Prune(w) \/ List(w))
  <2>1. pc'[w] \notin {"write", "sync", "cut", "cancel"}
    BY <1>5, StageAfter DEF Alone
  <2>2. pc'[w] # "prune" /\ (pc'[w] = "look" => local'[w].over)
    <3>1. CASE Mark(w) BY <1>0, <3>1 DEF Mark, Goto, Finish, Locals
    <3>2. CASE ~Mark(w)
      BY <1>0, <1>5, <3>2
      DEF IngestStep, GateMail, Gate, Ingest, Store, ReadSaved, ReplaceGuests, Cut, CloseSeries,
          Cancel, ReadForExdates, StoreExdates, DropJoins, ResolveMail, Resolve, Notify, Goto,
          Finish
    <3> QED BY <3>1, <3>2
  <2> QED BY <2>1, <2>2 DEF DaysHeld, Expanding, Loop
<1> QED BY <1>1, <1>2, <1>3, <1>4, <1>5

(* What a write of an expansion brings.                                     *)
LEMMA WriteOfRules ==
  ASSUME NEW w \in Worker, Alone(w), Write(w), ~local[w].over, NEW k \in Day, k = Current(w)
  PROVE  /\ k \in local[w].todo /\ k \in Instances(event) /\ k \notin Overridden
         /\ event \in Events /\ event.status = "active"
         /\ Wanted(w).start = k /\ Wanted(w).seq = event.seq /\ ~Wanted(w).override
<1>1. /\ DaysHeld(w) /\ SeriesHeld(w) /\ SeriesOK(w) /\ TypeOK /\ pc[w] = "write"
  BY DEF Alone, Sound, RunInv, SerialInv, Held, Write, At
<1>2. Expanding(w) BY <1>1 DEF Expanding, Loop
<1>3. local[w].event = event /\ event.status = "active" /\ event # NoEvent
  BY <1>1, <1>2 DEF SeriesHeld, SeriesOK
<1>4. k \in local[w].todo BY WantedIsRow DEF Alone, Sound, RunInv, Write
<1> QED BY <1>1, <1>3, <1>4 DEF DaysHeld, Loop, Wanted, TypeOK

(* Rows of the rules stay what they are.                                    *)
LEMMA RuledStep ==
  ASSUME NEW w \in Worker, Alone(w), IngestStep(w)
  PROVE  RuledInv'
<1>0. /\ local \in [Worker -> Locals] /\ pc \in [Worker -> Stages] /\ TypeOK
      /\ occ \in [Day -> Rows \cup {NoRow}] /\ KeysOK(w) /\ RuledInv /\ now' = now
  BY RowsWritten DEF Alone, Sound, TypeOK, RunInv, SerialInv
<1>1. ASSUME event # NoEvent PROVE event' # NoEvent /\ event'.seq >= event.seq
  BY <1>1, SequenceGrows DEF Alone, Next
<1>2. event # NoEvent => event.seq \in Int BY <1>0 DEF TypeOK, Events
<1>3. event' # NoEvent => event'.seq \in Int
  BY RunStepSound DEF Alone, RunStep, Sound, TypeOK, Events
<1>4. \A k \in Day : occ[k] # NoRow => occ[k].seq \in Int BY <1>0 DEF Rows
<1>5. ASSUME NEW k \in Day, occ[k] # NoRow, ~occ[k].override
      PROVE  /\ occ[k].start = k /\ k < now' + Window
             /\ event' # NoEvent /\ occ[k].seq <= event'.seq
  <2>1. occ[k].start = k /\ k < now' + Window /\ event # NoEvent /\ occ[k].seq <= event.seq
    BY <1>0, <1>5 DEF RuledInv
  <2> QED BY <1>1, <1>2, <1>3, <1>4, <1>5, <2>1
<1>6. ASSUME NEW k \in Day, occ[k] # NoRow, occ'[k].start = occ[k].start,
             occ'[k].seq = occ[k].seq, occ'[k].override = occ[k].override
      PROVE  occ'[k] # NoRow /\ ~occ'[k].override =>
                /\ occ'[k].start = k /\ k < now' + Window
                /\ event' # NoEvent /\ occ'[k].seq <= event'.seq
  BY <1>5, <1>6
<1>7. CASE occ' = occ BY <1>5, <1>7 DEF RuledInv
<1>8. CASE Write(w)
  <2>1. PICK k \in Day : k = Current(w) BY <1>8, WantedIsRow DEF Alone, Sound, RunInv, Write
  <2>2. CASE NextKey(w) /\ occ' = occ BY <1>7, <2>2
  <2>3. CASE ~(NextKey(w) /\ occ' = occ)
    <3>1. PICK r \in Rows, moved \in BOOLEAN :
             /\ occ' = [occ EXCEPT ![k] = r] /\ pc' = [pc EXCEPT ![w] = "sync"]
             /\ local' = [local EXCEPT ![w].row = r, ![w].moved = moved]
             /\ r.status \in Untouched
             /\ r.start = Wanted(w).start /\ r.seq = Wanted(w).seq
             /\ r.override = (Wanted(w).override \/ (occ[k] # NoRow /\ occ[k].override))
             /\ moved \/ occ[k] = NoRow \/ occ[k].start = r.start
      BY <1>8, <2>1, <2>3, WriteAlone
    <3>2. event' = event BY <1>8 DEF Write
    <3>3. ASSUME ~r.override
          PROVE  r.start = k /\ k < now + Window /\ event # NoEvent /\ r.seq <= event.seq
      <4>1. ~local[w].over BY <3>1, <3>3 DEF Wanted
      <4>2. /\ k \in Instances(event) /\ event \in Events
            /\ Wanted(w).start = k /\ Wanted(w).seq = event.seq
        BY <1>8, <2>1, <4>1, WriteOfRules
      <4>3. event # NoEvent BY <4>2, Facts
      <4> QED BY <1>2, <3>1, <4>2, <4>3 DEF Instances
    <3>4. \A l \in Day : l # k => occ'[l] = occ[l] BY <1>0, <3>1
    <3>5. occ'[k] = r BY <1>0, <3>1
    <3> QED BY <1>0, <1>5, <3>2, <3>3, <3>4, <3>5 DEF RuledInv
  <2> QED BY <2>2, <2>3
<1>9. CASE SyncJoinJob(w)
  <2>1. local[w].todo \in SUBSET Day /\ local[w].todo # {}
    BY <1>0, <1>9 DEF SyncJoinJob, KeysOK, Locals, Loop, At
  <2>2. PICK k \in Day : k = Current(w) BY <2>1, CurrentIsLeft DEF Current
  <2>3. /\ occ[k] # NoRow
        /\ occ' = occ \/ occ' = [occ EXCEPT ![k] = [@ EXCEPT !.status = "skipped"]]
    BY <1>9, <2>2, SyncAlone
  <2>4. /\ \A l \in Day : l # k => occ'[l] = occ[l]
        /\ occ'[k].start = occ[k].start /\ occ'[k].seq = occ[k].seq
        /\ occ'[k].override = occ[k].override
    BY <1>0, <2>3 DEF Rows
  <2> QED BY <1>5, <1>6, <2>3, <2>4 DEF RuledInv
<1>10. CASE Cut(w) \/ Cancel(w)
  <2>1. local[w].doomed \in SUBSET Day /\ Exist(local[w].doomed)
    BY <1>0, <1>10 DEF Cut, Cancel, KeysOK, Locals, At
  <2>2. occ' = CanceledRows(local[w].doomed) BY <1>10 DEF Cut, Cancel
  <2>3. \A k \in Day : \/ occ'[k] = occ[k]
                       \/ /\ occ[k] # NoRow /\ occ'[k].start = occ[k].start
                          /\ occ'[k].seq = occ[k].seq /\ occ'[k].override = occ[k].override
    BY <1>0, <2>1, <2>2, CanceledRowsAre
  <2> QED BY <1>5, <1>6, <2>3 DEF RuledInv
<1> QED BY <1>7, <1>8, <1>9, <1>10, RowsWritten

(* What is canceled stays struck out, or the run brings it back.            *)
LEMMA CanceledStep ==
  ASSUME NEW w \in Worker, Alone(w), IngestStep(w)
  PROVE  CanceledInv'
<1> DEFINE Canceled(k) == occ[k] # NoRow /\ occ[k].status = "canceled" /\ ~occ[k].override
<1>0. /\ local \in [Worker -> Locals] /\ pc \in [Worker -> Stages] /\ TypeOK
      /\ occ \in [Day -> Rows \cup {NoRow}] /\ KeysOK(w) /\ TaskOK(w) /\ RuledInv /\ CanceledInv
      /\ SeriesHeld(w) /\ SeriesOK(w) /\ DaysHeld(w) /\ RowHeld(w) /\ now' = now /\ now \in Nat
  BY RowsWritten, Facts DEF Alone, Sound, TypeOK, RunInv, SerialInv, Held, Times
<1> USE DEF At
<1>1. \A v \in Worker, k \in Day : Unsettled(v, k) => v = w
  BY DEF Alone, Unsettled, Loop
<1>2. SUFFICES ASSUME NEW k \in Day, Canceled(k)' PROVE StruckOut(k)' \/ Unsettled(w, k)'
  BY DEF CanceledInv
<1>3. ASSUME Canceled(k) PROVE StruckOut(k) \/ Unsettled(w, k) BY <1>0, <1>1, <1>3 DEF CanceledInv
<1>4. ASSUME event' = event, StruckOut(k) PROVE StruckOut(k)' BY <1>0, <1>4 DEF StruckOut
<1>5. CASE Expand(w)
  <2>1. /\ UNCHANGED <<event, occ, task>> /\ local[w].event = event /\ ~local[w].over
        /\ event.status = "active"
    BY <1>0, <1>5 DEF Expand, doneVars, rowVars, SeriesHeld, KeysOK, Expanding, Loop
  <2>2. Canceled(k) BY <1>2, <2>1
  <2>3. /\ local' = [local EXCEPT ![w].todo = Instances(event) \ Overridden,
                                  ![w].valid = Instances(event) \cup Overridden]
        /\ pc' = [pc EXCEPT ![w] = IF Instances(event) \subseteq Overridden THEN "prune" ELSE "look"]
    BY <1>5, <2>1 DEF Expand, Goto
  <2>4. /\ local'[w].todo = Instances(event) \ Overridden /\ local'[w].over = local[w].over
        /\ pc'[w] = IF Instances(event) \subseteq Overridden THEN "prune" ELSE "look"
    BY <1>0, <2>3 DEF Locals
  <2>5. CASE StruckOut(k) BY <1>4, <2>1, <2>5
  <2>6. CASE ~StruckOut(k)
    <3>1. task[w] # Nightly BY <1>3, <1>5, <2>2, <2>6 DEF Unsettled, Expand, Loop
    <3>2. k \in event.rule \ event.ex /\ ~(k + 1 < now) BY <2>6 DEF StruckOut
    <3>3. k \in Nat BY Facts
    <3>4. k < now + Window BY <1>0, <2>2 DEF RuledInv
    <3>5. k \in Instances(event) BY <1>0, <3>2, <3>3, <3>4 DEF Instances
    <3>6. k \notin Overridden BY <2>2 DEF Overridden
    <3> QED BY <2>1, <2>4, <3>1, <3>5, <3>6 DEF Unsettled, Loop
  <2> QED BY <2>5, <2>6
<1>6. CASE Store(w)
  <2>1. pc'[w] = "saved" /\ task'[w] = task[w] /\ task[w] \in Message
    BY <1>0, <1>6, Facts DEF Store, Goto, doneVars, TaskOK, Saving
  <2> QED BY <2>1, Facts DEF Unsettled
<1>7. ASSUME pc[w] \in {"write", "sync"}, NextKey(w), event' = event, task' = task,
             NEW key \in Day, key = Current(w), k # key => occ'[k] = occ[k], k # key
      PROVE  StruckOut(k)' \/ Unsettled(w, k)'
  <2>1. Canceled(k) BY <1>2, <1>7
  <2> DEFINE rest == local[w].todo \ {key}
  <2>2. /\ local' = [local EXCEPT ![w].todo = rest, ![w].row = NoRow]
        /\ pc' = [pc EXCEPT ![w] = IF rest # {} THEN "look"
                                   ELSE IF local[w].over THEN "resolve" ELSE "prune"]
    BY <1>7 DEF NextKey, Goto
  <2>3. /\ local'[w].todo = rest /\ local'[w].over = local[w].over
        /\ rest # {} => pc'[w] = "look"
    BY <1>0, <2>2 DEF Locals
  <2>4. CASE StruckOut(k) BY <1>4, <1>7, <2>4
  <2>5. CASE Unsettled(w, k)
    <3>1. task[w] # Nightly /\ ~local[w].over /\ k \in rest
      BY <1>7, <2>5 DEF Unsettled
    <3> QED BY <1>7, <2>3, <3>1 DEF Unsettled, Loop
  <2> QED BY <1>3, <2>1, <2>4, <2>5
<1>8. CASE Write(w)
  <2>1. PICK key \in Day : key = Current(w) BY <1>8, WantedIsRow DEF Alone, Sound, RunInv, Write
  <2>2. event' = event /\ task' = task /\ pc[w] = "write" BY <1>8 DEF Write, doneVars
  <2>3. CASE NextKey(w) /\ occ' = occ
    <3>1. CASE k # key BY <1>7, <2>1, <2>2, <2>3, <3>1
    <3>2. CASE k = key
      <4>1. Canceled(k) BY <1>2, <2>3
      <4>2. CASE local[w].over
        <5>1. ~Unsettled(w, k) BY <2>2, <4>2 DEF Unsettled
        <5> QED BY <1>3, <1>4, <2>2, <4>1, <5>1
      <4>3. CASE ~local[w].over
        <5>1. Wanted(w).seq = event.seq /\ event \in Events
          BY <1>8, <2>1, <4>3, WriteOfRules
        <5>2. occ[k].seq <= event.seq BY <1>0, <4>1 DEF RuledInv
        <5>3. occ[k].seq \in Int /\ event.seq \in Int BY <1>0, <4>1, <5>1 DEF Rows, Events
        <5>4. Wanted(w).seq < occ[k].seq
          <6>1. ~(\E r \in Rows, moved \in BOOLEAN :
                    /\ occ' = [occ EXCEPT ![key] = r] /\ pc' = [pc EXCEPT ![w] = "sync"]
                    /\ local' = [local EXCEPT ![w].row = r, ![w].moved = moved]
                    /\ r.status \in Untouched
                    /\ r.start = Wanted(w).start /\ r.seq = Wanted(w).seq
                    /\ r.override = (Wanted(w).override \/ (occ[key] # NoRow /\ occ[key].override))
                    /\ moved \/ occ[key] = NoRow \/ occ[key].start = r.start)
            BY <1>0, <2>3 DEF NextKey, Goto
          <6> QED BY <1>8, <2>1, <3>2, <4>1, <6>1, WriteAlone
        <5> QED BY <5>1, <5>2, <5>3, <5>4
      <4> QED BY <4>2, <4>3
    <3> QED BY <3>1, <3>2
  <2>4. CASE ~(NextKey(w) /\ occ' = occ)
    <3>1. PICK r \in Rows, moved \in BOOLEAN :
             /\ occ' = [occ EXCEPT ![key] = r] /\ pc' = [pc EXCEPT ![w] = "sync"]
             /\ local' = [local EXCEPT ![w].row = r, ![w].moved = moved]
             /\ r.status \in Untouched
             /\ r.start = Wanted(w).start /\ r.seq = Wanted(w).seq
             /\ r.override = (Wanted(w).override \/ (occ[key] # NoRow /\ occ[key].override))
             /\ moved \/ occ[key] = NoRow \/ occ[key].start = r.start
      BY <1>8, <2>1, <2>4, WriteAlone
    <3>2. k # key BY <1>0, <1>2, <3>1 DEF Untouched
    <3>3. Canceled(k) BY <1>0, <1>2, <3>1, <3>2
    <3>4. /\ local'[w].todo = local[w].todo /\ local'[w].over = local[w].over /\ pc'[w] = "sync"
      BY <1>0, <3>1 DEF Locals
    <3>5. CASE StruckOut(k) BY <1>4, <2>2, <3>5
    <3>6. CASE Unsettled(w, k) BY <2>2, <3>4, <3>6 DEF Unsettled, Loop
    <3> QED BY <1>3, <3>3, <3>5, <3>6
  <2> QED BY <2>3, <2>4
<1>9. CASE SyncJoinJob(w)
  <2>1. local[w].todo \in SUBSET Day /\ local[w].todo # {}
    BY <1>0, <1>9 DEF SyncJoinJob, KeysOK, Locals, Loop
  <2>2. PICK key \in Day : key = Current(w) BY <2>1, CurrentIsLeft DEF Current
  <2>3. /\ occ[key] # NoRow /\ occ[key].status # "canceled"
        /\ occ' = occ \/ occ' = [occ EXCEPT ![key] = [@ EXCEPT !.status = "skipped"]]
    BY <1>9, <2>2, SyncAlone
  <2>4. k # key /\ occ'[k] = occ[k] BY <1>0, <1>2, <2>3 DEF Rows
  <2>5. NextKey(w) /\ event' = event /\ task' = task /\ pc[w] = "sync"
    BY <1>9 DEF SyncJoinJob, doneVars
  <2> QED BY <1>7, <2>2, <2>4, <2>5
<1>10. CASE Cut(w)
  <2>1. /\ local[w].doomed \in SUBSET Day /\ Exist(local[w].doomed) /\ pc[w] = "cut"
        /\ event' = event
    BY <1>0, <1>10 DEF Cut, KeysOK, Locals
  <2>2. CASE k \notin local[w].doomed
    <3>1. Canceled(k) BY <1>0, <1>2, <1>10, <2>1, <2>2, CanceledRowsAre DEF Cut
    <3>2. ~Unsettled(w, k) BY <2>1 DEF Unsettled, Loop
    <3> QED BY <1>3, <1>4, <2>1, <3>1, <3>2
  <2>3. CASE k \in local[w].doomed
    <3>1. /\ k \notin Overridden /\ occ[k].start >= now /\ k \notin local[w].valid /\ occ[k] # NoRow
          /\ Instances(event) \subseteq local[w].valid
      BY <1>0, <2>1, <2>3 DEF DaysHeld, Expanding, Exist
    <3>2. k \notin Instances(event) /\ ~occ[k].override BY <1>0, <3>1 DEF Overridden, Rows
    <3>3. occ[k].start = k /\ k < now + Window /\ k \in Nat BY <1>0, <3>1, <3>2, Facts DEF RuledInv
    <3>4. k + 1 >= now BY <1>0, <3>1, <3>3
    <3>5. k \notin event.rule \ event.ex BY <3>2, <3>3, <3>4 DEF Instances
    <3> QED BY <2>1, <3>5 DEF StruckOut
  <2> QED BY <2>2, <2>3
<1>11. CASE Cancel(w)
  <2>1. /\ local[w].doomed \in SUBSET Day /\ Exist(local[w].doomed) /\ pc[w] = "cancel"
        /\ event' = event /\ task' = task
    BY <1>0, <1>11 DEF Cancel, KeysOK, Locals, doneVars
  <2>2. CASE OverriddenDays(task[w]) = {}
    BY <1>0, <2>1, <2>2 DEF SeriesHeld, StruckOut
  <2>3. CASE OverriddenDays(task[w]) # {}
    <3>1. pc'[w] = "exdates_read" BY <1>0, <1>11, <2>3 DEF Cancel, Goto
    <3>2. CASE k \in local[w].doomed
      <4>1. k \in OverriddenDays(task[w]) BY <1>0, <2>1, <2>3, <3>2 DEF DaysHeld
      <4> QED BY <2>1, <3>1, <4>1 DEF Unsettled
    <3>3. CASE k \notin local[w].doomed
      <4>1. Canceled(k) BY <1>0, <1>2, <1>11, <2>1, <3>3, CanceledRowsAre DEF Cancel
      <4>2. ~Unsettled(w, k) BY <2>1 DEF Unsettled, Loop
      <4> QED BY <1>3, <1>4, <2>1, <4>1, <4>2
    <3> QED BY <3>2, <3>3
  <2> QED BY <2>2, <2>3
<1>12. CASE CloseSeries(w)
  <2>1. pc[w] = "close" /\ event \in Events /\ occ' = occ
    BY <1>0, <1>12 DEF CloseSeries, SeriesOK, Canceling, TypeOK
  <2>2. event' = event \/ event'.status = "canceled"
    BY <1>12, <2>1 DEF CloseSeries, Events
  <2>3. Canceled(k) /\ ~Unsettled(w, k) BY <1>2, <2>1 DEF Unsettled, Loop
  <2>4. CASE event' = event BY <1>3, <1>4, <2>3, <2>4
  <2> QED BY <2>2, <2>4 DEF StruckOut
<1>13. CASE StoreExdates(w)
  <2>1. /\ pc[w] = "exdates" /\ event \in Events /\ occ' = occ /\ local[w].event = event'
        /\ local[w].event = [event EXCEPT !.seq = local[w].event.seq,
                                          !.ex = @ \cup OverriddenDays(task[w])]
    BY <1>0, <1>13 DEF StoreExdates, SeriesOK, Canceling, TypeOK, SeriesHeld
  <2>2. /\ event'.status = event.status /\ event'.rule = event.rule
        /\ event'.ex = event.ex \cup OverriddenDays(task[w])
    BY <2>1 DEF Events
  <2>3. Canceled(k) BY <1>2, <2>1
  <2>4. StruckOut(k) \/ k \in OverriddenDays(task[w]) BY <1>3, <2>1, <2>3 DEF Unsettled, Loop
  <2> QED BY <1>0, <2>2, <2>4 DEF StruckOut
<1>14. CASE ReadForExdates(w)
  <2>1. /\ UNCHANGED <<event, occ, task>> /\ pc[w] = "exdates_read" /\ task[w] \in Admissible
        /\ OverriddenDays(task[w]) # {} /\ local[w].event = event /\ event \in Events
    BY <1>0, <1>14 DEF ReadForExdates, TaskOK, SeriesOK, SeriesHeld, Canceling, doneVars, rowVars, TypeOK
  <2>2. CancelSeq(w, event) >= event.seq /\ CancelSeq(w, event) \in Int /\ event.seq \in Int
    BY <2>1, CancelSeqGrows DEF Events
  <2>3. pc' = [pc EXCEPT ![w] = "exdates"] BY <1>14, <2>1, <2>2 DEF ReadForExdates, Goto
  <2>4. pc'[w] = "exdates" /\ Canceled(k) BY <1>0, <1>2, <2>1, <2>3
  <2> QED BY <1>3, <1>4, <2>1, <2>4 DEF Unsettled, Loop
<1>15. CASE GateMail(w) \/ Ingest(w) \/ Prune(w) \/ Mark(w) \/ List(w) \/ DropJoins(w)
            \/ ResolveMail(w) \/ Notify(w)
  <2>1. event' = event /\ occ' = occ /\ ~Unsettled(w, k)
    BY <1>15
    DEF GateMail, Gate, Ingest, Prune, Mark, List, DropJoins, ResolveMail, Resolve, Notify,
        calendarVars, rowVars, Unsettled, Loop
  <2> QED BY <1>2, <1>3, <1>4, <2>1
<1>16. CASE ReadSaved(w) \/ ReplaceGuests(w) \/ Look(w)
  <2>1. /\ event' = event /\ occ' = occ /\ task' = task
        /\ local'[w].todo = local[w].todo /\ local'[w].over = local[w].over
        /\ \/ pc[w] = "saved" /\ pc'[w] = "guests"
           \/ pc[w] = "guests" /\ pc'[w] = "expand"
           \/ pc[w] = "look" /\ pc'[w] = "write"
    BY <1>0, <1>16 DEF ReadSaved, ReplaceGuests, Look, rowVars, doneVars, Goto, Recall, Locals
  <2>2. Unsettled(w, k) => Unsettled(w, k)' BY <2>1 DEF Unsettled, Loop
  <2> QED BY <1>2, <1>3, <1>4, <2>1, <2>2
<1> QED BY <1>5, <1>6, <1>8, <1>9, <1>10, <1>11, <1>12, <1>13, <1>14, <1>15, <1>16
        DEF IngestStep

(* A run that has not begun, or is over, holds nothing.                     *)
LEMMA IdleHolds ==
  ASSUME NEW v \in Worker, pc[v] \in {"idle", "gate"}
  PROVE  Held(v)
BY DEF Held, SeriesHeld, RowHeld, DaysHeld, Expanding, Loop, At

(* A step of the only run keeps the third layer.                            *)
LEMMA SerialRun ==
  ASSUME Sound, SerialInv, NEW w \in Worker, RunStep(w), Serial'
  PROVE  SerialInv'
<1>1. Alone(w) /\ ~FailRun(w) /\ (~IngestStep(w) => Quiet) BY OnlyOne
<1>2. OneRun' BY <1>1 DEF Alone, OneRun, Working
<1>3. pc \in [Worker -> Stages] /\ local \in [Worker -> Locals] BY DEF Sound, TypeOK
<1>4. Sound' BY RunStepSound DEF RunStep
<1>5. \A v \in Worker \ {w} : Held(v)'
  <2> SUFFICES ASSUME NEW v \in Worker \ {w} PROVE Held(v)'
    OBVIOUS
  <2>1. pc'[v] = "idle" BY <1>1 DEF Alone
  <2> QED BY <2>1 DEF Held, SeriesHeld, RowHeld, DaysHeld, Expanding, Loop, At
<1>6. CASE IngestStep(w)
  <2>1. Held(w)' BY <1>1, <1>6, SeriesStep, RowStep, DaysStep DEF Held
  <2>2. \A v \in Worker : Held(v)' BY <1>5, <2>1
  <2> QED BY <1>1, <1>2, <1>6, <2>2, SeriesStep, RowStep, RuledStep, CanceledStep DEF SerialInv
<1>7. CASE ~IngestStep(w)
  <2>1. /\ Quiet /\ Serial /\ GuestInv /\ JoinInv /\ RuledInv /\ CanceledInv
    BY <1>1, <1>7 DEF Alone, SerialInv
  <2>2. \A v \in Worker : pc[v] = "idle" BY <2>1 DEF Quiet, Working
  <2>3. /\ UNCHANGED <<event, guests, occ, join, now>>
        /\ \/ pc' = pc /\ local' = local
           \/ pc'[w] = "gate"
           \/ /\ pc'[w] = "expand" /\ task'[w] = Nightly /\ local'[w].event = event
              /\ event.status = "active"
    <3>1. CASE ExpandRecurrences(w)
      <4>1. /\ pc' = [pc EXCEPT ![w] = "expand"] /\ task' = [task EXCEPT ![w] = Nightly]
            /\ local' = [local EXCEPT ![w].event = event] /\ event.status = "active"
            /\ UNCHANGED <<event, guests, occ, join, now>>
        BY <3>1 DEF ExpandRecurrences, Goto, Recall, rowVars
      <4>2. task \in [Worker -> Message \cup {NoMessage, Nightly}] BY DEF Sound, TypeOK
      <4> QED BY <1>3, <4>1, <4>2 DEF Locals
    <3>2. ASSUME NEW m \in Message, ReceiveMail(w, m)
          PROVE  /\ UNCHANGED <<event, guests, occ, join, now>>
                 /\ (pc' = pc /\ local' = local) \/ pc'[w] = "gate"
      BY <1>3, <3>2 DEF ReceiveMail, Receive, Goto, rowVars
    <3> QED BY <1>1, <1>7, <3>1, <3>2 DEF RunStep
  <2>4. pc'[w] \in {"idle", "gate", "expand"} BY <2>2, <2>3
  <2>5. Held(w)'
    <3>1. RowHeld(w)' /\ DaysHeld(w)' BY <2>4 DEF RowHeld, DaysHeld, Expanding, Loop, At
    <3>2. CASE pc'[w] \in {"idle", "gate"} BY <3>1, <3>2 DEF Held, SeriesHeld, Expanding, Loop, At
    <3>3. CASE pc'[w] = "expand"
      <4>1. local'[w].event = event /\ event.status = "active" /\ event' = event
        BY <2>2, <2>3, <3>3
      <4> QED BY <3>1, <3>3, <4>1 DEF Held, SeriesHeld, At
    <3> QED BY <2>4, <3>1, <3>2, <3>3 DEF Held
  <2>6. \A v \in Worker : Held(v)' BY <1>5, <2>5
  <2>7. GuestInv' BY <2>1, <2>2, <2>3 DEF GuestInv, Saves
  <2>8. JoinInv' BY <2>1, <2>2, <2>3 DEF JoinInv, At
  <2>9. RuledInv' BY <2>1, <2>3 DEF RuledInv
  <2>10. \A v \in Worker, k \in Day : ~Unsettled(v, k) BY <2>2 DEF Unsettled, Loop
  <2>11. CanceledInv' BY <2>1, <2>3, <2>10 DEF CanceledInv, StruckOut
  <2> QED BY <1>2, <2>6, <2>7, <2>8, <2>9, <2>11 DEF SerialInv
<1> QED BY <1>6, <1>7

(* Joins and bots leave what runs hold: they change the status of a row,    *)
(* and cancel none.                                                         *)
Harmless ==
    /\ RunsStay /\ UNCHANGED <<event, guests, now>>
    /\ \A k \in Day, t \in Times : join'[k][t] = "pending" => join[k][t] = "pending"
    /\ \A k \in Day :
          \/ occ'[k] = occ[k]
          \/ /\ occ[k] # NoRow /\ occ'[k] # NoRow
             /\ occ'[k].start = occ[k].start /\ occ'[k].seq = occ[k].seq
             /\ occ'[k].override = occ[k].override
             /\ occ[k].status # "canceled" /\ occ'[k].status # "canceled"

(* So does a step that leaves runs, series and the starts of rows alone,    *)
LEMMA SerialHarmless ==
  ASSUME Sound, SerialInv, Harmless
  PROVE  SerialInv'
<1>1. /\ pc' = pc /\ task' = task /\ local' = local /\ disturbances' = disturbances
      /\ event' = event /\ guests' = guests /\ now' = now
  BY DEF Harmless, RunsStay, runVars, inboundVars
<1>2. SUFFICES ASSUME Serial, Serial' PROVE (OneRun /\ (\A w \in Worker : Held(w))
                                     /\ GuestInv /\ JoinInv /\ RuledInv /\ CanceledInv)'
  BY <1>1 DEF SerialInv, Serial
<1>3. OneRun /\ (\A w \in Worker : Held(w)) /\ GuestInv /\ JoinInv /\ RuledInv /\ CanceledInv
  BY <1>2 DEF SerialInv
<1>4. OneRun' /\ GuestInv' BY <1>1, <1>3 DEF OneRun, Working, GuestInv, Saves
<1>5. /\ Overridden' = Overridden /\ Instances(event)' = Instances(event)
      /\ \A w \in Worker : Current(w)' = Current(w)
  BY <1>1 DEF Overridden, Instances, Current, Harmless
<1>6. ASSUME NEW w \in Worker PROVE Held(w)'
  <2>1. SeriesHeld(w)' BY <1>1, <1>3 DEF Held, SeriesHeld, Expanding, At
  <2>2. DaysHeld(w)'
    <3>1. local[w].doomed \in SUBSET Day BY DEF Sound, TypeOK, Locals
    <3>2. \A k \in Day : occ[k] # NoRow => occ'[k].start = occ[k].start BY DEF Harmless
    <3>3. At(w, "cut") => \A k \in local[w].doomed : occ'[k].start = occ[k].start
      BY <3>1, <3>2 DEF Sound, RunInv, KeysOK, Exist, At
    <3> QED BY <1>1, <1>3, <1>5, <3>3 DEF Held, DaysHeld, Expanding, At
  <2>3. ASSUME pc[w] \in Loop PROVE Current(w) \in Day
    <3>1. local[w].todo \in SUBSET Day /\ local[w].todo # {}
      BY <2>3 DEF Sound, TypeOK, RunInv, KeysOK, Locals
    <3> QED BY <3>1, CurrentIsLeft DEF Current
  <2>4. (At(w, "write") => SameRow(local[w].row, occ[Current(w)]))'
    <3>1. ASSUME At(w, "write") PROVE SameRow(local[w].row, occ'[Current(w)])
      <4>1. SameRow(local[w].row, occ[Current(w)]) /\ Current(w) \in Day
        BY <1>3, <2>3, <3>1 DEF Held, RowHeld, Loop, At
      <4> QED BY <4>1 DEF SameRow, Harmless
    <3> QED BY <1>1, <1>5, <3>1 DEF At
  <2>5. (At(w, "sync") => /\ occ[Current(w)].start = local[w].row.start
                          /\ occ[Current(w)].status # "canceled"
                          /\ local[w].row.status \in Untouched)'
    <3>1. ASSUME At(w, "sync")
          PROVE  /\ occ'[Current(w)].start = local[w].row.start
                 /\ occ'[Current(w)].status # "canceled"
                 /\ local[w].row.status \in Untouched
      <4>1. /\ occ[Current(w)].start = local[w].row.start
            /\ occ[Current(w)].status # "canceled"
            /\ local[w].row.status \in Untouched /\ Current(w) \in Day
        BY <1>3, <2>3, <3>1 DEF Held, RowHeld, Loop, At
      <4> QED BY <4>1 DEF Harmless
    <3> QED BY <1>1, <1>5, <3>1 DEF At
  <2> QED BY <2>1, <2>2, <2>4, <2>5 DEF Held, RowHeld
<1>7. JoinInv'
  <2>1. \A k \in Day : occ[k] # NoRow => occ'[k].start = occ[k].start BY DEF Harmless
  <2>2. \A k \in Day, t \in Times : join[k][t] = "pending" => occ[k] # NoRow
    BY DEF Sound, RowInv
  <2> QED BY <1>1, <1>3, <1>5, <2>1, <2>2 DEF JoinInv, Harmless, At
<1>8. RuledInv' BY <1>1, <1>3 DEF RuledInv, Harmless
<1>9. CanceledInv'
  <2>1. \A w \in Worker, k \in Day : Unsettled(w, k)' = Unsettled(w, k)
    BY <1>1 DEF Unsettled
  <2>2. \A k \in Day : StruckOut(k)' = StruckOut(k) BY <1>1 DEF StruckOut
  <2> QED BY <1>3, <2>1, <2>2 DEF CanceledInv, Harmless
<1> QED BY <1>4, <1>6, <1>7, <1>8, <1>9

(* as joins and bots do.                                                    *)
LEMMA JoinsAreHarmless ==
  ASSUME Sound, NEW k \in Day,
         (\E t \in Times : RunJoin(k, t)) \/ BotMoves(k) \/ StopBot(k)
  PROVE  Harmless
<1>0. occ \in [Day -> Rows \cup {NoRow}] /\ join \in [Day -> Jobs] BY DEF Sound, TypeOK
<1>1. ASSUME NEW t \in Times, RunJoin(k, t) PROVE Harmless
  <2>1. occ[k] # NoRow BY <1>1 DEF Sound, RowInv, RunJoin
  <2>2. /\ RunsStay /\ UNCHANGED <<event, guests, now>>
        /\ join' = [join EXCEPT ![k][t] = "done"]
    BY <1>1 DEF RunJoin, RunsStay
  <2>3. \A l \in Day, u \in Times : join'[l][u] = "pending" => join[l][u] = "pending"
    BY <1>0, <2>2 DEF Jobs
  <2>4. \/ occ' = occ
        \/ \E st \in Statuses \ {"canceled"} : /\ occ' = [occ EXCEPT ![k].status = st]
                                               /\ occ[k].status # "canceled"
    <3>1. CASE occ[k].status \in Untouched /\ event.status = "active"
      <4>1. (IF bot[k] = "live" THEN occ[k].status ELSE "join_queued") \in Statuses \ {"canceled"}
        BY <3>1 DEF Untouched, Statuses
      <4>2. \/ occ' = [occ EXCEPT ![k].status = "skipped"]
            \/ occ' = [occ EXCEPT ![k].status = IF bot[k] = "live" THEN occ[k].status
                                                ELSE "join_queued"]
        BY <1>1, <3>1 DEF RunJoin
      <4>3. "skipped" \in Statuses \ {"canceled"} /\ occ[k].status # "canceled"
        BY <3>1 DEF Untouched, Statuses
      <4> QED BY <4>1, <4>2, <4>3
    <3>2. CASE ~(occ[k].status \in Untouched /\ event.status = "active")
      BY <1>1, <3>2 DEF RunJoin
    <3> QED BY <3>1, <3>2
  <2> QED BY <1>0, <2>1, <2>2, <2>3, <2>4, StatusAfter DEF Harmless, Sound
<1>2. CASE BotMoves(k)
  <2>1. occ[k] # NoRow BY <1>2 DEF Sound, RowInv, BotMoves
  <2>2. RunsStay /\ UNCHANGED <<event, guests, now, join>> BY <1>2 DEF BotMoves, RunsStay
  <2>3. \E st \in Statuses \ {"canceled"} : /\ occ' = [occ EXCEPT ![k].status = st]
                                            /\ occ[k].status # "canceled"
    BY <1>2 DEF BotMoves, Statuses
  <2> QED BY <1>0, <2>1, <2>2, <2>3, StatusAfter DEF Harmless, Sound
<1>3. CASE StopBot(k)
  BY <1>3 DEF Harmless, StopBot, RunsStay, rowVars
<1> QED BY <1>1, <1>2, <1>3

(* The third layer is kept,                                                 *)
LEMMA SerialNext == Sound /\ SerialInv /\ [Next]_vars => SerialInv'
<1> SUFFICES ASSUME Sound, SerialInv, [Next]_vars PROVE SerialInv'
  OBVIOUS
<1>1. CASE UNCHANGED vars
  <2>1. Harmless
    BY <1>1 DEF vars, inboundVars, calendarVars, Harmless, RunsStay, runVars
  <2> QED BY <2>1, SerialHarmless
<1>2. ASSUME NEW w \in Worker, RunStep(w) PROVE SerialInv'
  <2>1. CASE Serial' BY <1>2, <2>1, SerialRun
  <2> QED BY <2>1 DEF SerialInv
<1>3. ASSUME NEW k \in Day, (\E t \in Times : RunJoin(k, t)) \/ BotMoves(k) \/ StopBot(k)
      PROVE  SerialInv'
  BY <1>3, JoinsAreHarmless, SerialHarmless
<1>4. CASE Tick
  <2>1. /\ UNCHANGED <<pc, task, local, disturbances, event, guests, occ, join>>
        /\ now' = now + 1 /\ now \in Nat
    BY <1>4, Facts DEF Tick, inboundVars, runVars, rowVars, Sound, TypeOK, Times
  <2>2. \A v \in Worker : pc[v] = "idle" BY <1>4 DEF Tick, Quiet, Working
  <2>3. SUFFICES ASSUME Serial PROVE (OneRun /\ (\A w \in Worker : Held(w))
                                      /\ GuestInv /\ JoinInv /\ RuledInv /\ CanceledInv)'
    BY <2>1 DEF SerialInv, Serial
  <2>4. GuestInv /\ JoinInv /\ RuledInv /\ CanceledInv BY <2>3 DEF SerialInv
  <2>5. OneRun' BY <2>1, <2>2 DEF OneRun, Working
  <2>6. \A w \in Worker : Held(w)'
    BY <2>1, <2>2 DEF Held, SeriesHeld, RowHeld, DaysHeld, Expanding, Loop, At
  <2>7. GuestInv' BY <2>1, <2>4 DEF GuestInv, Saves
  <2>8. JoinInv' BY <2>1, <2>2, <2>4 DEF JoinInv, At
  <2>9. RuledInv' BY <2>1, <2>4, Facts DEF RuledInv
  <2>10. \A v \in Worker, k \in Day : ~Unsettled(v, k) BY <2>2 DEF Unsettled, Loop
  <2>11. \A k \in Day : StruckOut(k) => StruckOut(k)' BY <2>1, Facts DEF StruckOut
  <2>12. CanceledInv' BY <2>1, <2>4, <2>10, <2>11 DEF CanceledInv
  <2> QED BY <2>5, <2>6, <2>7, <2>8, <2>9, <2>12
<1> QED BY <1>1, <1>2, <1>3, <1>4 DEF Next, RunStep

(* and holds at first.                                                      *)
LEMMA SerialInit == Init => SerialInv
<1> SUFFICES ASSUME Init PROVE SerialInv
  OBVIOUS
<1>1. \A v \in Worker : pc[v] = "idle" BY DEF Init, InboundInit
<1>2. \A v \in Worker : Held(v) BY <1>1, IdleHolds
<1>3. OneRun BY <1>1 DEF OneRun, Working
<1>4. GuestInv /\ JoinInv /\ RuledInv /\ CanceledInv
  BY DEF Init, GuestInv, JoinInv, RuledInv, CanceledInv
<1> QED BY <1>2, <1>3, <1>4 DEF SerialInv

(* After runs that neither overlapped nor died, the guest list is that of   *)
(* the invite that the stored series came from (ingest.ts:99-110).          *)
THEOREM GuestsOfTheSeriesHolds == Spec => []GuestsOfTheSeries
<1>1. SerialInv => GuestsOfTheSeries
  BY DEF SerialInv, GuestInv, GuestsOfTheSeries, Saves, Quiet, Working
<1> QED BY <1>1, SoundInit, SoundNext, SerialInit, SerialNext, PTL DEF Spec

(* And no pending join job of a scheduled occurrence is ahead of its lead:  *)
(* no bot comes at a time its meeting was moved from (joinJobs.ts:30-35).   *)
THEOREM JoinsOnTimeHolds == Spec => []JoinsOnTime
<1>1. SerialInv => JoinsOnTime
  BY DEF SerialInv, JoinInv, JoinsOnTime, Quiet, Working, At
<1> QED BY <1>1, SoundInit, SoundNext, SerialInit, SerialNext, PTL DEF Spec

(* No step of the nightly expansion touches a row that is canceled: its     *)
(* days are those of the rules, and those are struck out.                   *)
LEMMA NightlyKeepsRows ==
  ASSUME NEW w \in Worker, Alone(w), IngestStep(w), task[w] = Nightly,
         NEW k \in Day, occ[k] # NoRow, occ[k].status = "canceled"
  PROVE  occ'[k].status = "canceled"
<1>0. /\ TypeOK /\ occ \in [Day -> Rows \cup {NoRow}] /\ KeysOK(w) /\ TaskOK(w) /\ CanceledInv
      /\ now \in Nat
  BY Facts DEF Alone, Sound, TypeOK, RunInv, SerialInv, Times
<1>1. task[w] \notin Admissible BY Facts
<1>2. CASE occ' = occ BY <1>2
<1>3. CASE Write(w)
  <2>1. PICK key \in Day : key = Current(w) BY <1>3, WantedIsRow DEF Alone, Sound, RunInv, Write
  <2>2. ~local[w].over BY <1>0, <1>1 DEF KeysOK
  <2>3. /\ key \in Instances(event) /\ key \notin Overridden /\ event.status = "active"
    BY <1>3, <2>1, <2>2, WriteOfRules
  <2>4. ASSUME k = key PROVE FALSE
    <3>1. ~occ[k].override BY <1>0, <2>3, <2>4 DEF Overridden, Rows
    <3>2. \A v \in Worker : ~Unsettled(v, k)
      BY <1>1, <1>3 DEF Alone, Unsettled, Loop, Write, At
    <3>3. StruckOut(k) BY <1>0, <3>1, <3>2 DEF CanceledInv
    <3> QED BY <1>0, <2>3, <2>4, <3>3, Facts DEF StruckOut, Instances
  <2>5. k # key BY <2>4
  <2>6. \/ occ' = occ
        \/ \E r \in Rows, moved \in BOOLEAN :
              /\ occ' = [occ EXCEPT ![key] = r] /\ pc' = [pc EXCEPT ![w] = "sync"]
              /\ local' = [local EXCEPT ![w].row = r, ![w].moved = moved]
              /\ r.status \in Untouched
              /\ r.start = Wanted(w).start /\ r.seq = Wanted(w).seq
              /\ r.override = (Wanted(w).override \/ (occ[key] # NoRow /\ occ[key].override))
              /\ moved \/ occ[key] = NoRow \/ occ[key].start = r.start
    BY <1>3, <2>1, WriteAlone
  <2> QED BY <1>0, <2>5, <2>6
<1>4. CASE SyncJoinJob(w)
  <2>1. local[w].todo \in SUBSET Day /\ local[w].todo # {}
    BY <1>0, <1>4 DEF TypeOK, SyncJoinJob, KeysOK, Locals, Loop, At
  <2>2. PICK key \in Day : key = Current(w) BY <2>1, CurrentIsLeft DEF Current
  <2>3. /\ occ[key].status # "canceled"
        /\ occ' = occ \/ occ' = [occ EXCEPT ![key] = [@ EXCEPT !.status = "skipped"]]
    BY <1>4, <2>2, SyncAlone
  <2> QED BY <1>0, <2>3
<1>5. CASE Cut(w) \/ Cancel(w)
  <2>1. local[w].doomed \in SUBSET Day /\ Exist(local[w].doomed)
    BY <1>0, <1>5 DEF TypeOK, Cut, Cancel, KeysOK, Locals, At
  <2> QED BY <1>0, <1>5, <2>1, CanceledRowsAre DEF Cut, Cancel
<1> QED BY <1>2, <1>3, <1>4, <1>5, RowsWritten

(* The nightly expansion brings no canceled occurrence back, whether it was *)
(* canceled alone, with its series or by a prune (ingest.ts:212-218).       *)
THEOREM ExpansionKeepsCancellationsHolds == Spec => ExpansionKeepsCancellations
<1> DEFINE Kept == \A w \in Worker : Serial /\ task[w] = Nightly /\ pc'[w] # pc[w] =>
                      \A k \in Day : occ[k] # NoRow /\ occ[k].status = "canceled"
                                        => occ'[k].status = "canceled"
<1>1. ASSUME Sound, SerialInv, [Next]_vars PROVE [Kept]_vars
  <2>1. SUFFICES ASSUME Next, NEW w \in Worker, Serial, task[w] = Nightly, pc'[w] # pc[w],
                        NEW k \in Day, occ[k] # NoRow, occ[k].status = "canceled"
                 PROVE  occ'[k].status = "canceled"
    BY <1>1
  <2>2. PICK v \in Worker : RunStep(v)
    BY <2>1 DEF Next, RunStep, RunJoin, BotMoves, StopBot, Tick, runVars
  <2>3. v = w BY <1>1, <2>1, <2>2, RunStepSound DEF Others, RunStep
  <2>4. CASE IngestStep(w)
    <3>1. disturbances' = disturbances
      BY <2>4
      DEF IngestStep, GateMail, Gate, Ingest, Store, ReadSaved, ReplaceGuests, Expand, Look,
          Write, SyncJoinJob, Prune, Cut, Mark, CloseSeries, List, Cancel, ReadForExdates,
          StoreExdates, DropJoins, ResolveMail, Resolve, Notify, doneVars, inboundVars
    <3>2. Serial' BY <2>1, <3>1 DEF Serial
    <3>3. Alone(w) BY <1>1, <2>2, <2>3, <3>2, OnlyOne
    <3> QED BY <2>1, <2>4, <3>3, NightlyKeepsRows
  <2>5. CASE ~IngestStep(w)
    <3>1. occ' = occ
      BY <2>2, <2>3, <2>5 DEF RunStep, ReceiveMail, FailRun, ExpandRecurrences, rowVars
    <3> QED BY <2>1, <3>1
  <2> QED BY <2>4, <2>5
<1>2. Sound /\ SerialInv /\ [Next]_vars => [Kept]_vars BY <1>1
<1> QED BY <1>2, SoundInit, SoundNext, SerialInit, SerialNext, PTL
        DEF Spec, ExpansionKeepsCancellations

----------------------------------------------------------------------------
(* Runs between which no join comes.                                        *)

(* A bot of a canceled meeting is on a list, or told.                       *)
LEMMA BotStep ==
  ASSUME NEW w \in Worker, Alone(w), IngestStep(w), BotHeld(w), BotInv
  PROVE  BotHeld(w)' /\ BotInv'
<1>0. /\ local \in [Worker -> Locals] /\ pc \in [Worker -> Stages] /\ TypeOK
      /\ occ \in [Day -> Rows \cup {NoRow}] /\ bot \in [Day -> {"none", "live", "over"}]
      /\ KeysOK(w) /\ bot' = bot
  BY RowsWritten DEF Alone, Sound, TypeOK, RunInv
<1> USE DEF At
<1>1. BotHeld(w)'
  <2>1. CASE List(w)
    <3> DEFINE keys == IF OverriddenDays(task[w]) = {} THEN Day ELSE OverriddenDays(task[w])
               open == {k \in keys : occ[k] # NoRow /\ occ[k].status \in Untouched \cup {"in_meeting"}}
    <3>1. local' = [local EXCEPT ![w].doomed = open, ![w].bots = {k \in open : bot[k] # "none"}]
      BY <2>1 DEF List
    <3>2. local'[w].doomed = open /\ local'[w].bots = {k \in open : bot[k] # "none"}
      BY <1>0, <3>1 DEF Locals
    <3> HIDE DEF open
    <3> QED BY <1>0, <3>2 DEF BotHeld
  <2>2. CASE ~List(w)
    <3>1. pc'[w] # "cancel" BY <2>2, StageAfter DEF Alone
    <3> QED BY <3>1 DEF BotHeld
  <2> QED BY <2>1, <2>2
<1>2. \A v \in Worker : Telling(v) => v = w BY DEF Alone, Telling
<1>3. SUFFICES ASSUME NEW k \in Day \ pruned', occ'[k] # NoRow, occ'[k].status = "canceled",
                      bot[k] = "live"
               PROVE  k \in told' \/ (Telling(w) /\ k \in local[w].bots)'
  BY <1>0, <1>1 DEF BotInv
<1>4. told \subseteq told' /\ pruned \subseteq pruned'
  BY DEF IngestStep, GateMail, Ingest, Store, ReadSaved, ReplaceGuests, Expand, Look, Write,
         SyncJoinJob, Prune, Cut, Mark, CloseSeries, List, Cancel, ReadForExdates, StoreExdates,
         DropJoins, ResolveMail, Notify, doneVars, rowVars, calendarVars
<1>5. ASSUME occ[k] # NoRow, occ[k].status = "canceled"
      PROVE  k \in told \/ (Telling(w) /\ k \in local[w].bots)
  BY <1>2, <1>3, <1>4, <1>5 DEF BotInv
<1>6. CASE Telling(w)
  <2>1. occ' = occ BY <1>6, RowsWritten DEF Telling, Write, SyncJoinJob, Cut, Cancel
  <2>2. CASE Notify(w)
    <3>1. told' = told \cup local[w].bots BY <2>2 DEF Notify
    <3> QED BY <1>3, <1>5, <2>1, <3>1
  <2>3. CASE ~Notify(w)
    <3>1. ReadForExdates(w) \/ StoreExdates(w) \/ DropJoins(w) \/ ResolveMail(w)
      BY <1>6, <2>3
      DEF Telling, IngestStep, GateMail, Gate, Ingest, Store, ReadSaved, ReplaceGuests, Expand,
          Look, Write, SyncJoinJob, Prune, Cut, Mark, CloseSeries, List, Cancel
    <3>2. Telling(w)' /\ local'[w].bots = local[w].bots
      BY <1>0, <3>1
      DEF ReadForExdates, StoreExdates, DropJoins, ResolveMail, Resolve, Telling, Goto, Recall,
          Locals, calendarVars
    <3> QED BY <1>3, <1>4, <1>5, <2>1, <3>2
  <2> QED BY <2>2, <2>3
<1>7. CASE ~Telling(w)
  <2>1. ASSUME occ[k] # NoRow, occ[k].status = "canceled" PROVE k \in told'
    BY <1>4, <1>5, <1>7, <2>1
  <2>2. CASE occ' = occ BY <1>3, <2>1, <2>2
  <2>3. CASE Write(w)
    <3>1. PICK key \in Day : key = Current(w) BY <2>3, WantedIsRow DEF Alone, Sound, RunInv, Write
    <3>2. CASE NextKey(w) /\ occ' = occ BY <2>2, <3>2
    <3>3. CASE ~(NextKey(w) /\ occ' = occ)
      <4>1. PICK r \in Rows, moved \in BOOLEAN :
             /\ occ' = [occ EXCEPT ![key] = r] /\ pc' = [pc EXCEPT ![w] = "sync"]
             /\ local' = [local EXCEPT ![w].row = r, ![w].moved = moved]
             /\ r.status \in Untouched
             /\ r.start = Wanted(w).start /\ r.seq = Wanted(w).seq
             /\ r.override = (Wanted(w).override \/ (occ[key] # NoRow /\ occ[key].override))
             /\ moved \/ occ[key] = NoRow \/ occ[key].start = r.start
        BY <2>3, <3>1, <3>3, WriteAlone
      <4>2. occ'[k] = occ[k] BY <1>0, <1>3, <4>1 DEF Untouched
      <4> QED BY <1>3, <2>1, <4>2
    <3> QED BY <3>2, <3>3
  <2>4. CASE SyncJoinJob(w)
    <3>1. local[w].todo \in SUBSET Day /\ local[w].todo # {}
      BY <1>0, <2>4 DEF SyncJoinJob, KeysOK, Locals, Loop
    <3>2. PICK key \in Day : key = Current(w) BY <3>1, CurrentIsLeft DEF Current
    <3>3. /\ occ[key] # NoRow
          /\ occ' = occ \/ occ' = [occ EXCEPT ![key] = [@ EXCEPT !.status = "skipped"]]
      BY <2>4, <3>2, SyncAlone
    <3>4. occ'[k] = occ[k] BY <1>0, <1>3, <3>3 DEF Rows
    <3> QED BY <1>3, <2>1, <3>4
  <2>5. CASE Cut(w)
    <3>1. /\ local[w].doomed \in SUBSET Day /\ Exist(local[w].doomed)
          /\ occ' = CanceledRows(local[w].doomed)
          /\ pruned' = pruned \cup {l \in local[w].doomed : bot[l] = "live"}
      BY <1>0, <2>5 DEF Cut, KeysOK, Locals
    <3>2. k \notin local[w].doomed BY <1>3, <3>1
    <3> QED BY <1>0, <1>3, <2>1, <3>1, <3>2, CanceledRowsAre
  <2>6. CASE Cancel(w)
    <3>1. /\ local[w].doomed \in SUBSET Day /\ Exist(local[w].doomed) /\ pc[w] = "cancel"
          /\ occ' = CanceledRows(local[w].doomed) /\ local' = local
          /\ Telling(w)'
      BY <1>0, <2>6 DEF Cancel, KeysOK, Locals, Goto, Telling
    <3>2. CASE k \in local[w].doomed BY <1>3, <3>1, <3>2 DEF BotHeld
    <3>3. CASE k \notin local[w].doomed
      BY <1>0, <1>3, <2>1, <3>1, <3>3, CanceledRowsAre
    <3> QED BY <3>2, <3>3
  <2> QED BY <2>2, <2>3, <2>4, <2>5, <2>6, RowsWritten
<1> QED BY <1>1, <1>6, <1>7

(* A job is created for a time that is not past, or it was there.           *)
LEMMA CreatedJoins ==
  ASSUME TypeOK, NEW k \in Day, NEW J \in [Day -> Jobs], NEW start \in Day, start >= now
  PROVE  \E t \in Times :
            \/ CreateJoin(k, start, J)[k][t] = "pending" /\ t <= start
            \/ CreateJoin(k, start, J)[k][t] = "done" /\ t + Lead >= start
            \/ CreateJoin(k, start, J)[k][t] = "canceled" /\ t + Lead = start
<1> DEFINE t == JoinTime(start)
           new == IF t = now \/ J[k][t] = "none" THEN "pending" ELSE J[k][t]
<1>1. now \in Nat /\ start \in Nat /\ Lead \in Nat BY Facts DEF TypeOK, Times
<1>2. t \in Times /\ J[k][t] \in {"none", "pending", "done", "canceled"}
  BY CreateJoinOK DEF Jobs
<1>3. CreateJoin(k, start, J)[k][t] = new
  <2>1. CreateJoin(k, start, J) = [J EXCEPT ![k][t] = new] BY DEF CreateJoin
  <2>2. J[k] \in Jobs OBVIOUS
  <2> HIDE DEF new, t
  <2> QED BY <1>2, <2>1, <2>2 DEF Jobs
<1>4. CASE start > now + Lead
  <2>1. t = start - Lead BY <1>4 DEF JoinTime
  <2>2. t <= start /\ t + Lead = start /\ t + Lead >= start BY <1>1, <2>1
  <2>3. new \in {"pending", "done", "canceled"} BY <1>2
  <2> HIDE DEF new, t
  <2> QED BY <1>2, <1>3, <2>2, <2>3
<1>5. CASE ~(start > now + Lead)
  <2>1. t = now BY <1>5 DEF JoinTime
  <2>2. new = "pending" BY <2>1
  <2> HIDE DEF new, t
  <2> QED BY <1>1, <1>2, <1>3, <2>1, <2>2
<1> QED BY <1>4, <1>5

(* Canceling the jobs of one occurrence leaves those of the others.         *)
LEMMA OtherJoins ==
  ASSUME NEW k \in Day, NEW J \in [Day -> Jobs], NEW l \in Day, l # k
  PROVE  CancelJoins(k, J)[l] = J[l]
BY DEF CancelJoins

(* A run gives each scheduled occurrence that it writes its job.            *)
LEMMA JobStep ==
  ASSUME NEW w \in Worker, Alone(w), IngestStep(w), JobHeld(w), ScheduledInv
  PROVE  JobHeld(w)' /\ ScheduledInv'
<1>0. /\ local \in [Worker -> Locals] /\ pc \in [Worker -> Stages] /\ TypeOK
      /\ occ \in [Day -> Rows \cup {NoRow}] /\ join \in [Day -> Jobs]
      /\ KeysOK(w) /\ now' = now
  BY RowsWritten DEF Alone, Sound, TypeOK, RunInv
<1> USE DEF At
<1>1. \A v \in Worker \ {w} : pc[v] = "idle" /\ pc'[v] = "idle" BY DEF Alone
<1>2. ASSUME NEW k \in Day, occ'[k] = occ[k], join'[k] = join[k],
             occ[k] # NoRow, occ[k].status = "scheduled", occ[k].start >= now,
             pc[w] # "sync" \/ k # Current(w)
      PROVE  WillJoin(k)'
  <2>1. WillJoin(k) BY <1>1, <1>2 DEF ScheduledInv
  <2> QED BY <1>2, <2>1 DEF WillJoin, TimeUsed
<1>3. CASE Write(w)
  <2>1. PICK key \in Day : key = Current(w) BY <1>3, WantedIsRow DEF Alone, Sound, RunInv, Write
  <2>2. join' = join /\ pc[w] = "write" BY <1>3 DEF Write
  <2>3. CASE NextKey(w) /\ occ' = occ
    <3>1. pc'[w] \in {"look", "resolve", "prune"} BY <1>0, <2>3 DEF NextKey, Goto
    <3>2. JobHeld(w)' BY <3>1 DEF JobHeld
    <3>3. ScheduledInv' BY <1>0, <1>2, <2>2, <2>3 DEF ScheduledInv
    <3> QED BY <3>2, <3>3
  <2>4. CASE ~(NextKey(w) /\ occ' = occ)
    <3>1. PICK r \in Rows, moved \in BOOLEAN :
             /\ occ' = [occ EXCEPT ![key] = r] /\ pc' = [pc EXCEPT ![w] = "sync"]
             /\ local' = [local EXCEPT ![w].row = r, ![w].moved = moved]
             /\ r.status \in Untouched
             /\ r.start = Wanted(w).start /\ r.seq = Wanted(w).seq
             /\ r.override = (Wanted(w).override \/ (occ[key] # NoRow /\ occ[key].override))
             /\ moved \/ occ[key] = NoRow \/ occ[key].start = r.start
      BY <1>3, <2>1, <2>4, WriteAlone
    <3>2. /\ pc'[w] = "sync" /\ local'[w].row = r /\ local'[w].todo = local[w].todo
          /\ occ'[key] = r /\ \A l \in Day : l # key => occ'[l] = occ[l]
      BY <1>0, <3>1 DEF Locals
    <3>3. Current(w)' = key BY <2>1, <3>2 DEF Current
    <3>4. JobHeld(w)' BY <3>2, <3>3 DEF JobHeld
    <3>5. ScheduledInv'
      <4> SUFFICES ASSUME NEW k \in Day, occ'[k] # NoRow, occ'[k].status = "scheduled",
                          occ'[k].start >= now
                   PROVE  WillJoin(k)' \/ \E v \in Worker : (At(v, "sync") /\ k = Current(v))'
        BY <1>0 DEF ScheduledInv
      <4>1. CASE k = key BY <3>2, <3>3, <4>1
      <4>2. CASE k # key BY <1>2, <2>2, <3>2, <4>2
      <4> QED BY <4>1, <4>2
    <3> QED BY <3>4, <3>5
  <2> QED BY <2>3, <2>4
<1>4. CASE SyncJoinJob(w)
  <2>1. local[w].todo \in SUBSET Day /\ local[w].todo # {}
    BY <1>0, <1>4 DEF SyncJoinJob, KeysOK, Locals, Loop
  <2>2. PICK key \in Day : key = Current(w) BY <2>1, CurrentIsLeft DEF Current
  <2>3. pc[w] = "sync" /\ pc'[w] \in {"look", "resolve", "prune"}
    BY <1>0, <1>4 DEF SyncJoinJob, NextKey, Goto
  <2>4. JobHeld(w)' BY <2>3 DEF JobHeld
  <2> DEFINE row == local[w].row
             left == IF local[w].moved THEN CancelJoins(key, join) ELSE join
  <2>5. /\ occ[key] # NoRow /\ occ[key].start = row.start /\ row \in Rows
        /\ \/ /\ row.start < now /\ join' = CancelJoins(key, join)
              /\ occ' = [occ EXCEPT ![key] = [@ EXCEPT !.status = "skipped"]]
           \/ row.start >= now /\ occ' = occ /\ join' = CreateJoin(key, row.start, left)
    BY <1>4, <2>2, SyncAlone
  <2>6. left \in [Day -> Jobs] /\ \A l \in Day : l # key => left[l] = join[l]
    <3>1. CancelJoins(key, join) \in [Day -> Jobs] BY <1>0, <2>2, CancelJoinsOK
    <3>2. \A l \in Day : l # key => CancelJoins(key, join)[l] = join[l]
      BY <1>0, <2>2, OtherJoins
    <3> QED BY <1>0, <3>1, <3>2
  <2>7. row.start \in Day BY <2>5 DEF Rows, Starts
  <2>8. \A l \in Day : l # key => join'[l] = join[l] /\ occ'[l] = occ[l]
    <3>1. CASE join' = CancelJoins(key, join) /\ occ' = [occ EXCEPT ![key] = [@ EXCEPT !.status = "skipped"]]
      BY <1>0, <2>2, <3>1, OtherJoins
    <3>2. CASE join' = CreateJoin(key, row.start, left) /\ occ' = occ
      <4> HIDE DEF left, row
      <4> QED BY <2>6, <3>2 DEF CreateJoin
    <3> QED BY <2>5, <3>1, <3>2
  <2>9. SUFFICES ASSUME NEW k \in Day, occ'[k] # NoRow, occ'[k].status = "scheduled",
                        occ'[k].start >= now
                 PROVE  WillJoin(k)'
    BY <1>0, <2>4 DEF ScheduledInv
  <2>10. CASE k = key
    <3>1. /\ row.start >= now /\ occ' = occ /\ join' = CreateJoin(key, row.start, left)
      BY <1>0, <2>5, <2>9, <2>10 DEF Rows
    <3> HIDE DEF row, left
    <3>2. \E t \in Times : \/ join'[k][t] = "pending" /\ t <= row.start
                           \/ join'[k][t] = "done" /\ t + Lead >= row.start
                           \/ join'[k][t] = "canceled" /\ t + Lead = row.start
      BY <1>0, <2>6, <2>7, <2>10, <3>1, CreatedJoins
    <3>3. occ'[k].start = row.start BY <2>5, <2>10, <3>1
    <3> QED BY <3>2, <3>3 DEF WillJoin, TimeUsed
  <2>11. CASE k # key BY <1>2, <2>2, <2>8, <2>9, <2>11
  <2> QED BY <2>10, <2>11
<1>5. CASE Cut(w) \/ Cancel(w)
  <2>1. /\ local[w].doomed \in SUBSET Day /\ Exist(local[w].doomed) /\ pc[w] # "sync"
        /\ occ' = CanceledRows(local[w].doomed) /\ local' = local
        /\ join' = join \/ join' = CanceledJoins(local[w].doomed)
    BY <1>0, <1>5 DEF Cut, Cancel, KeysOK, Locals
  <2>2. pc'[w] \in {"mark", "drop", "exdates_read"} BY <1>0, <1>5 DEF Cut, Cancel, Goto
  <2>3. JobHeld(w)'
    <3>1. \A k \in local[w].doomed : occ'[k] # NoRow /\ occ'[k].status = "canceled"
      BY <1>0, <2>1, CanceledRowsAre
    <3> QED BY <2>1, <2>2, <3>1 DEF JobHeld
  <2>4. SUFFICES ASSUME NEW k \in Day, occ'[k] # NoRow, occ'[k].status = "scheduled",
                        occ'[k].start >= now
                 PROVE  WillJoin(k)'
    BY <1>0, <2>3 DEF ScheduledInv
  <2>5. k \notin local[w].doomed BY <1>0, <2>1, <2>4, CanceledRowsAre
  <2>6. occ'[k] = occ[k] /\ join'[k] = join[k]
    BY <1>0, <2>1, <2>5, CanceledRowsAre DEF CanceledJoins
  <2> QED BY <1>2, <2>1, <2>4, <2>6
<1>6. CASE DropJoins(w)
  <2>1. /\ occ' = occ /\ join' = CanceledJoins(local[w].doomed) /\ pc'[w] = "resolve"
        /\ pc[w] = "drop"
    BY <1>0, <1>6 DEF DropJoins, Goto
  <2>2. JobHeld(w)' BY <2>1 DEF JobHeld
  <2>3. SUFFICES ASSUME NEW k \in Day, occ'[k] # NoRow, occ'[k].status = "scheduled",
                        occ'[k].start >= now
                 PROVE  WillJoin(k)'
    BY <1>0, <2>2 DEF ScheduledInv
  <2>4. k \notin local[w].doomed BY <2>1, <2>3 DEF JobHeld
  <2>5. join'[k] = join[k] BY <2>1, <2>4 DEF CanceledJoins
  <2> QED BY <1>2, <2>1, <2>3, <2>5
<1>7. CASE ~(Write(w) \/ SyncJoinJob(w) \/ Cut(w) \/ Cancel(w) \/ DropJoins(w))
  <2>1. occ' = occ /\ join' = join BY <1>7, RowsWritten
  <2>2. pc'[w] # "sync" BY <1>7, StageAfter DEF Alone
  <2>3. pc[w] # "sync"
    BY <1>7
    DEF IngestStep, GateMail, Gate, Ingest, Store, ReadSaved, ReplaceGuests, Expand, Look,
        Prune, Mark, CloseSeries, List, ReadForExdates, StoreExdates, ResolveMail, Resolve, Notify
  <2>4. JobHeld(w)'
    <3>1. ASSUME pc'[w] \in {"exdates_read", "exdates", "drop"}
          PROVE  pc[w] \in {"exdates_read", "exdates"} /\ local'[w].doomed = local[w].doomed
      <4>1. ReadForExdates(w) \/ StoreExdates(w) BY <1>7, <3>1, StageAfter DEF Alone
      <4> QED BY <1>0, <4>1 DEF ReadForExdates, StoreExdates, Recall, Locals
    <3> QED BY <2>1, <2>2, <3>1 DEF JobHeld
  <2>5. ScheduledInv' BY <1>0, <1>2, <2>1, <2>3 DEF ScheduledInv
  <2> QED BY <2>4, <2>5
<1> QED BY <1>3, <1>4, <1>5, <1>6, <1>7

Undisturbed == (\A w \in Worker : BotHeld(w) /\ JobHeld(w)) /\ BotInv /\ ScheduledInv

(* A step of the only run.                                                  *)
LEMMA UndisturbedRun ==
  ASSUME Sound, SerialInv, UndisturbedInv, NEW w \in Worker, RunStep(w), Serial', ~joined'
  PROVE  Undisturbed'
<1>1. Alone(w) /\ ~FailRun(w) /\ (~IngestStep(w) => Quiet) BY OnlyOne
<1>2. joined' = joined
  BY <1>1, RowsWritten DEF RunStep, ReceiveMail, ExpandRecurrences
<1>3. Undisturbed BY <1>1, <1>2 DEF UndisturbedInv, Undisturbed, Alone
<1>4. pc \in [Worker -> Stages] /\ local \in [Worker -> Locals] BY DEF Sound, TypeOK
<1>5. \A v \in Worker \ {w} : BotHeld(v)' /\ JobHeld(v)'
  BY <1>1 DEF Alone, BotHeld, JobHeld, At
<1>6. CASE IngestStep(w)
  BY <1>1, <1>3, <1>5, <1>6, BotStep, JobStep DEF Undisturbed
<1>7. CASE ~IngestStep(w)
  <2>1. Quiet /\ ((\E m \in Message : ReceiveMail(w, m)) \/ ExpandRecurrences(w))
    BY <1>1, <1>7 DEF RunStep
  <2>2. /\ UNCHANGED <<occ, join, bot, told, pruned, now>>
        /\ pc'[w] \in {"idle", "gate", "expand"}
    BY <1>4, <2>1 DEF ReceiveMail, Receive, ExpandRecurrences, Goto, Quiet, Working, rowVars
  <2>3. BotHeld(w)' /\ JobHeld(w)' BY <2>2 DEF BotHeld, JobHeld, At
  <2>4. \A v \in Worker : pc[v] = "idle" BY <2>1 DEF Quiet, Working
  <2>5. BotInv' BY <1>3, <2>2, <2>4 DEF Undisturbed, BotInv, Telling
  <2>6. \A k \in Day : WillJoin(k)' <=> WillJoin(k) BY <2>2 DEF WillJoin, TimeUsed
  <2>7. ScheduledInv' BY <1>3, <2>2, <2>4, <2>6 DEF Undisturbed, ScheduledInv, At
  <2> QED BY <1>5, <2>3, <2>5, <2>7 DEF Undisturbed
<1> QED BY <1>6, <1>7

(* A step between runs that cancels nothing, starts no bot of what is       *)
(* canceled, and takes no job that the time has not come for.               *)
LEMMA UndisturbedPause ==
  ASSUME Sound, Undisturbed, Quiet, UNCHANGED <<pc, pruned>>, now' \in Nat, now' >= now,
         \A k \in Day : occ'[k] # NoRow /\ occ'[k].status = "canceled" /\ bot'[k] = "live" =>
            /\ occ[k] # NoRow /\ occ[k].status = "canceled" /\ bot[k] = "live"
            /\ k \in told => k \in told',
         \A k \in Day : occ'[k] # NoRow /\ occ'[k].status = "scheduled" =>
            /\ occ[k] # NoRow /\ occ[k].status = "scheduled" /\ occ'[k].start = occ[k].start
            /\ join'[k] = join[k] \/ TimeUsed(k)'
  PROVE  Undisturbed'
<1>1. \A v \in Worker : pc[v] = "idle" /\ pc'[v] = "idle" BY DEF Quiet, Working
<1>2. \A v \in Worker : BotHeld(v)' /\ JobHeld(v)' BY <1>1 DEF BotHeld, JobHeld, At
<1>3. BotInv' BY <1>1 DEF Undisturbed, BotInv, Telling
<1>4. ScheduledInv'
  <2>1. SUFFICES ASSUME NEW k \in Day, occ'[k] # NoRow, occ'[k].status = "scheduled",
                        occ'[k].start >= now'
                 PROVE  WillJoin(k)'
    BY DEF ScheduledInv
  <2>2. CASE TimeUsed(k)' BY <2>2 DEF WillJoin
  <2>3. CASE join'[k] = join[k]
    <3>1. occ[k] # NoRow /\ occ[k].status = "scheduled" /\ occ'[k].start = occ[k].start
      BY <2>1
    <3>2. now \in Nat /\ occ[k].start \in Nat
      <4>1. now \in Nat BY Facts DEF Sound, TypeOK, Times
      <4>2. occ[k] \in Rows BY <3>1 DEF Sound, TypeOK
      <4> QED BY <4>1, <4>2, Facts DEF Rows, Starts
    <3>3. occ[k].start >= now BY <2>1, <3>1, <3>2
    <3>4. WillJoin(k) BY <1>1, <3>1, <3>3 DEF Undisturbed, ScheduledInv, At
    <3> QED BY <2>3, <3>1, <3>4 DEF WillJoin, TimeUsed
  <2> QED BY <2>1, <2>2, <2>3
<1> QED BY <1>2, <1>3, <1>4 DEF Undisturbed

(* A join, a bot that moves on, or one that is stopped.                     *)
LEMMA UndisturbedJoins ==
  ASSUME Sound, SerialInv, Serial, Undisturbed, Quiet, NEW k \in Day,
         (\E t \in Times : RunJoin(k, t)) \/ BotMoves(k) \/ StopBot(k)
  PROVE  Undisturbed'
<1>0. /\ occ \in [Day -> Rows \cup {NoRow}] /\ join \in [Day -> Jobs] /\ now \in Nat
      /\ bot \in [Day -> {"none", "live", "over"}]
  BY Facts DEF Sound, TypeOK, Times
<1>1. ASSUME NEW t \in Times, RunJoin(k, t) PROVE Undisturbed'
  <2>1. occ[k] # NoRow BY <1>1 DEF Sound, RowInv, RunJoin
  <2>2. UNCHANGED <<pc, pruned, now, told>> /\ join' = [join EXCEPT ![k][t] = "done"]
    BY <1>1 DEF RunJoin, runVars
  <2>3. /\ \A l \in Day : l # k => join'[l] = join[l]
        /\ join'[k][t] = "done"
    BY <1>0, <2>2 DEF Jobs
  <2>4. /\ \A l \in Day : l # k => occ'[l] = occ[l] /\ bot'[l] = bot[l]
        /\ occ'[k].start = occ[k].start
        /\ occ'[k].status = "scheduled" => occ[k].status = "scheduled"
        /\ occ'[k].status = "canceled" => occ[k].status = "canceled" /\ bot'[k] = bot[k]
    <3>1. CASE occ[k].status \in Untouched /\ event.status = "active"
      <4>1. PICK st \in {"scheduled", "join_queued", "skipped"} :
               /\ occ' = [occ EXCEPT ![k].status = st]
               /\ st = "scheduled" => occ[k].status = "scheduled"
        <5>1. CASE occ[k].start < now BY <1>1, <3>1, <5>1 DEF RunJoin
        <5>2. CASE ~(occ[k].start < now) /\ bot[k] = "live"
          BY <1>1, <3>1, <5>2 DEF RunJoin, Untouched
        <5>3. CASE ~(occ[k].start < now) /\ bot[k] # "live"
          BY <1>1, <3>1, <5>3 DEF RunJoin
        <5> QED BY <5>1, <5>2, <5>3
      <4>2. st \in Statuses /\ st # "canceled" BY <4>1 DEF Statuses, Untouched
      <4>3. /\ \A l \in Day : l # k => occ'[l] = occ[l]
            /\ occ'[k].status = st /\ occ'[k].start = occ[k].start
        BY <2>1, <4>1, <4>2, StatusAfter DEF Sound
      <4>4. \A l \in Day : l # k => bot'[l] = bot[l] BY <1>0, <1>1, <3>1 DEF RunJoin
      <4> QED BY <4>1, <4>2, <4>3, <4>4
    <3>2. CASE ~(occ[k].status \in Untouched /\ event.status = "active")
      BY <1>1, <3>2 DEF RunJoin
    <3> QED BY <3>1, <3>2
  <2>5. t + Lead >= occ[k].start
    BY <1>1 DEF SerialInv, JoinInv, RunJoin, Quiet, Working, At
  <2>6. TimeUsed(k)' BY <2>3, <2>4, <2>5 DEF TimeUsed
  <2> QED BY <1>0, <2>1, <2>2, <2>3, <2>4, <2>6, UndisturbedPause
<1>2. CASE BotMoves(k)
  <2>1. occ[k] # NoRow BY <1>2 DEF Sound, RowInv, BotMoves
  <2>2. UNCHANGED <<pc, pruned, now, told, join>> BY <1>2 DEF BotMoves, runVars
  <2>3. \A l \in Day : l # k => bot'[l] = bot[l] BY <1>0, <1>2 DEF BotMoves
  <2>4. PICK st \in {"in_meeting", "completed"} : occ' = [occ EXCEPT ![k].status = st]
    BY <1>2 DEF BotMoves
  <2>5. st \in Statuses BY <2>4 DEF Statuses
  <2>6. (\A l \in Day : l # k => occ'[l] = occ[l]) /\ occ'[k].status = st
    BY <2>1, <2>4, <2>5, StatusAfter DEF Sound
  <2> QED BY <1>0, <2>2, <2>3, <2>4, <2>6, UndisturbedPause
<1>3. CASE StopBot(k)
  <2>1. /\ UNCHANGED <<pc, pruned, now, occ, join>> /\ told' = told \ {k}
        /\ bot'[k] # "live" /\ \A l \in Day : l # k => bot'[l] = bot[l]
    BY <1>0, <1>3 DEF StopBot, runVars, rowVars
  <2> QED BY <1>0, <2>1, UndisturbedPause
<1> QED BY <1>1, <1>2, <1>3

(* The fourth layer holds at first,                                         *)
LEMMA UndisturbedInit == Init => UndisturbedInv
<1> SUFFICES ASSUME Init PROVE UndisturbedInv
  OBVIOUS
<1>1. /\ \A v \in Worker : pc[v] = "idle"
      /\ \A k \in Day : occ[k] = NoRow
  BY DEF Init, InboundInit
<1> QED BY <1>1 DEF UndisturbedInv, BotHeld, JobHeld, BotInv, ScheduledInv, At

(* and is kept.                                                             *)
LEMMA UndisturbedNext == Sound /\ SerialInv /\ UndisturbedInv /\ [Next]_vars => UndisturbedInv'
<1> SUFFICES ASSUME Sound, SerialInv, UndisturbedInv, [Next]_vars, Serial', ~joined'
             PROVE  Undisturbed'
  BY DEF UndisturbedInv, Undisturbed
<1>1. CASE UNCHANGED vars
  <2>1. Undisturbed
    BY <1>1 DEF vars, inboundVars, calendarVars, UndisturbedInv, Undisturbed, Serial
  <2> QED
    BY <1>1, <2>1
    DEF vars, calendarVars, Undisturbed, BotHeld, JobHeld, BotInv, ScheduledInv, WillJoin,
        TimeUsed, Telling, Current, At
<1>2. ASSUME NEW w \in Worker, RunStep(w) PROVE Undisturbed' BY <1>2, UndisturbedRun
<1>3. ASSUME NEW k \in Day, (\E t \in Times : RunJoin(k, t)) \/ BotMoves(k) \/ StopBot(k)
      PROVE  Undisturbed'
  <2>1. Meanwhile /\ disturbances' = disturbances
    BY <1>3 DEF RunJoin, BotMoves, StopBot, inboundVars
  <2>2. Serial /\ ~joined /\ Quiet BY <2>1 DEF Meanwhile, Serial
  <2>3. Undisturbed BY <2>2 DEF UndisturbedInv, Undisturbed
  <2> QED BY <1>3, <2>2, <2>3, UndisturbedJoins
<1>4. CASE Tick
  <2>1. /\ UNCHANGED <<pc, disturbances, occ, join, bot, told, joined, pruned>> /\ Quiet
        /\ now' = now + 1 /\ now \in Nat
    BY <1>4, Facts DEF Tick, inboundVars, runVars, rowVars, Sound, TypeOK, Times
  <2>2. now' \in Nat /\ now' >= now BY <2>1
  <2>3. Undisturbed BY <2>1 DEF UndisturbedInv, Undisturbed, Serial
  <2> QED BY <2>1, <2>2, <2>3, UndisturbedPause
<1> QED BY <1>1, <1>2, <1>3, <1>4 DEF Next, RunStep

(* After runs that neither overlapped nor died and that no join came into,  *)
(* a scheduled occurrence has a job that will send its bot, or one of its   *)
(* join time was there before (joinJobs.ts:6-11).                           *)
THEOREM ScheduledIsJoinedHolds == Spec => []ScheduledIsJoined
<1>1. UndisturbedInv => ScheduledIsJoined
  BY DEF UndisturbedInv, ScheduledInv, ScheduledIsJoined, WillJoin, Quiet, Working, At
<1> QED BY <1>1, SoundInit, SoundNext, SerialInit, SerialNext, UndisturbedInit, UndisturbedNext,
           PTL DEF Spec

(* And a bot of a canceled meeting has been told to leave, unless a prune   *)
(* canceled the meeting (ingest.ts:219-222, index.ts:164-167).              *)
THEOREM CanceledBotsToldToLeaveHolds == Spec => []CanceledBotsToldToLeave
<1>1. UndisturbedInv => CanceledBotsToldToLeave
  BY DEF UndisturbedInv, BotInv, CanceledBotsToldToLeave, Telling, Quiet, Working
<1> QED BY <1>1, SoundInit, SoundNext, SerialInit, SerialNext, UndisturbedInit, UndisturbedNext,
           PTL DEF Spec

(* The inductive invariant as a whole, for every set of mails, days and     *)
(* runs: the one that the run calendar_safety checks.                       *)
THEOREM IInvHolds == Spec => []IInv
<1>1. Sound /\ GateInv /\ SerialInv /\ UndisturbedInv => IInv BY DEF Sound, IInv
<1> QED BY <1>1, SoundInit, SoundNext, GateInit, GateNext, SerialInit, SerialNext,
           UndisturbedInit, UndisturbedNext, PTL DEF Spec
=============================================================================
