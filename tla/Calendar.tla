------------------------------ MODULE Calendar ------------------------------
(***************************************************************************)
(* Ingestion of invites into one calendar series: the series row, its      *)
(* occurrences and their schedule_join jobs (packages/scheduler, the event *)
(* and occurrence queries), reached through the gate of Inbound, together  *)
(* with the nightly expansion of the rolling window and the join jobs that *)
(* run meanwhile.                                                          *)
(*                                                                         *)
(* Occurrences are named by their original start, a day: an occurrence     *)
(* that was not moved starts on its own key.  A meeting that starts on day *)
(* t is over on day t + 1, and its bot is due Lead days before it.         *)
(***************************************************************************)
EXTENDS Inbound

CONSTANTS Day,       \* days that meetings may start on
          Window,    \* scheduling.recurrenceExpansionDays
          Lead,      \* bot.joinLeadMinutes, in days
          LastDay,   \* bound: the clock stops there
          Nightly,   \* the task of a run of expand_recurrences
          NoEvent, NoRow

Admissible == {m \in Message : ~Ignored(m) /\ ~Refused(m)}
Master(m) == Invite[m].master
Overrides(m) == ToSet(Invite[m].overrides)
OverriddenDays(m) == {event.recurrenceId : event \in Overrides(m)}
Override(m, k) == CHOOSE event \in Overrides(m) : event.recurrenceId = k

(* All of its events.                                                       *)
Brought(m) == Overrides(m) \cup ({Master(m)} \ {None})

(* A SEQUENCE that is missing counts as 0.                                  *)
SequenceOf(v) == IF v.sequence = None THEN 0 ELSE v.sequence

(* The mails that get here are about one series; a calendar has an event.   *)
ASSUME CalendarAssumption ==
    /\ Window \in Nat /\ Lead \in Nat /\ LastDay \in Nat
    /\ Day \subseteq 0..(LastDay + Lead)
    /\ Nightly \notin Message /\ Nightly # NoMessage
    /\ \A m, n \in Admissible : Invite[m].uid = Invite[n].uid
    /\ \A m \in Admissible :
          /\ Master(m) # None => Master(m).days \subseteq Day /\ Master(m).exdates \subseteq Day
          /\ \A event \in Overrides(m) : event.recurrenceId \in Day /\ event.start \in Day
          /\ Cardinality(OverriddenDays(m)) = Len(Invite[m].overrides)
          /\ \A v \in Brought(m) : SequenceOf(v) \in Int
          /\ IsFiniteSet(Overrides(m))
          /\ Invite[m].kind = "cancel" => Brought(m) # {}

(* End time and join URL: what changes a meeting that is not moved.         *)
Body(m, v) == <<v.end, Invite[m].link>>

VARIABLES
    event,     \* the calendar_events row of the series
    expanded,  \* its expanded_until
    guests,    \* its attendee rows, none at first
    occ,       \* meeting_occurrences, by occurrence_key
    join,      \* schedule_join jobs, by occurrence and join time
    bot,       \* the occurrence's latest bot session: none, live or over
    told,      \* occurrences with an enqueue_cancel_bot message on its way
    now,       \* today
    local,     \* what a run has read
    joined,    \* a join has run while another run was at work
    pruned     \* occurrences that a prune canceled under their bots

calendarVars == <<event, expanded, guests, occ, join, bot, told, now, local, joined, pruned>>
vars == <<inboundVars, pc, task, calendarVars>>

Starts == Day
Times == 0..LastDay

Blank == [event |-> NoEvent, row |-> NoRow, valid |-> {}, todo |-> {}, over |-> FALSE,
          moved |-> FALSE, doomed |-> {}, bots |-> {}]

Untouched == {"scheduled", "join_queued"}
Statuses == Untouched \cup {"in_meeting", "completed", "canceled", "skipped"}
Bodies == UNION {{Body(m, v) : v \in Brought(m)} : m \in Admissible}
Rows == [status : Statuses, start : Starts, seq : Int, body : Bodies, override : BOOLEAN]
Events == [seq : Int, rule : SUBSET Day, ex : SUBSET Day, status : {"active", "canceled"},
           body : Bodies, src : Message]

GuestLists ==
    {<<>>} \cup {ComputeAttendeeRows(Master(m)) : m \in {n \in Admissible : Master(n) # None}}
Jobs == [Times -> {"none", "pending", "done", "canceled"}]
Locals == [event : Events \cup {NoEvent}, row : Rows \cup {NoRow}, valid : SUBSET Day,
           todo : SUBSET Day, over : BOOLEAN, moved : BOOLEAN, doomed : SUBSET Day,
           bots : SUBSET Day]

ASSUME ValueAssumption == NoEvent \notin Events /\ NoRow \notin Rows

Stages == {"idle", "gate", "ingest", "resolve", "notify", "store", "saved", "guests",
           "expand", "look", "write", "sync", "prune", "cut", "mark", "close", "list",
           "cancel", "exdates_read", "exdates", "drop"}

TypeOK ==
    /\ InboundTypeOK
    /\ pc \in [Worker -> Stages]
    /\ task \in [Worker -> Message \cup {NoMessage, Nightly}]
    /\ \A w \in Worker : Working(w) <=> task[w] # NoMessage
    /\ event \in Events \cup {NoEvent}
    /\ expanded \in 0..(LastDay + Window)
    /\ guests \in GuestLists
    /\ occ \in [Day -> Rows \cup {NoRow}]
    /\ join \in [Day -> Jobs]
    /\ bot \in [Day -> {"none", "live", "over"}] /\ told \subseteq Day
    /\ now \in Times
    /\ local \in [Worker -> Locals]
    /\ joined \in BOOLEAN /\ pruned \subseteq Day

Init ==
    /\ InboundInit
    /\ event = NoEvent /\ expanded = 0 /\ guests = <<>>
    /\ occ = [k \in Day |-> NoRow]
    /\ join = [k \in Day |-> [t \in Times |-> "none"]]
    /\ bot = [k \in Day |-> "none"] /\ told = {}
    /\ now = 0
    /\ local = [w \in Worker |-> Blank]
    /\ joined = FALSE /\ pruned = {}

----------------------------------------------------------------------------
(* What a run is doing.                                                     *)

At(w, stage) == pc[w] = stage
Recall(w, field, value) == local' = [local EXCEPT ![w][field] = value]
Forget(w) == local' = [local EXCEPT ![w] = Blank]

runVars == <<pc, task, local>>
doneVars == <<inboundVars, joined, now, bot, told, task>>
rowVars == <<event, expanded, guests, occ, join, pruned>>

ReceiveMail(w, m) ==
    /\ Receive(w, m)
    /\ UNCHANGED <<rowVars, bot, told, now, local, joined>>

GateMail(w) == Gate(w) /\ UNCHANGED calendarVars

BringsSeries(m) == Invite[m].kind = "request" /\ Master(m) # None

(* An older request is left to the store.                                   *)
IngestStale(w) ==
    /\ At(w, "ingest")
    /\ LET m == task[w]
       IN /\ Goto(w, IF BringsSeries(m) THEN "store"
                     ELSE IF event = NoEvent THEN "resolve"
                     ELSE IF Invite[m].kind = "request" THEN "mark"
                     ELSE IF OverriddenDays(m) = {} THEN "close" ELSE "list")
          /\ Recall(w, "event", event)
    /\ UNCHANGED <<doneVars, rowVars>>

(* handleRequest, handleCancel: the series is looked up; a request that     *)
(* brings the whole series must not be older than what is stored.           *)
Ingest(w) ==
    /\ At(w, "ingest")
    /\ LET m == task[w]
           stale == event # NoEvent /\ SequenceOf(Master(m)) < event.seq
           stage == IF BringsSeries(m) THEN IF stale THEN "resolve" ELSE "store"
                    ELSE IF event = NoEvent THEN "resolve"
                    ELSE IF Invite[m].kind = "request" THEN "mark"
                    ELSE IF OverriddenDays(m) = {} THEN "close" ELSE "list"
       IN /\ Goto(w, stage)
          /\ Recall(w, "event", event)
    /\ UNCHANGED <<doneVars, rowVars>>

Series(m) == [seq |-> SequenceOf(Master(m)), rule |-> Master(m).days,
              ex |-> Master(m).exdates, status |-> "active", body |-> Body(m, Master(m)),
              src |-> m]

(* INSERT ... ON CONFLICT DO UPDATE, trusting the row that was read.        *)
StoreUnchecked(w) ==
    /\ At(w, "store")
    /\ event' = Series(task[w])
    /\ Goto(w, "saved")
    /\ UNCHANGED <<doneVars, local, expanded, guests, occ, join, pruned>>

(* The same under its WHERE; whether it wrote is not asked.                 *)
Store(w) ==
    /\ At(w, "store")
    /\ event' = IF event = NoEvent \/ SequenceOf(Master(task[w])) >= event.seq THEN Series(task[w]) ELSE event
    /\ Goto(w, "saved")
    /\ UNCHANGED <<doneVars, local, expanded, guests, occ, join, pruned>>

(* The row is read again: from here on the run works on the series that     *)
(* won, not on its own.                                                     *)
ReadSaved(w) ==
    /\ At(w, "saved")
    /\ Recall(w, "event", event)
    /\ Goto(w, "guests")
    /\ UNCHANGED <<doneVars, rowVars>>

(* replaceAttendees for the series.                                         *)
ReplaceGuests(w) ==
    /\ At(w, "guests")
    /\ guests' = ComputeAttendeeRows(Master(task[w]))
    /\ Goto(w, "expand")
    /\ UNCHANGED <<doneVars, local, event, expanded, occ, join, pruned>>

----------------------------------------------------------------------------
(* expandEventOccurrences.                                                  *)

Overridden == {k \in Day : occ[k] # NoRow /\ occ[k].override}

(* The series' days from half a day ago to the end of the window.           *)
Instances(e) == {k \in e.rule \ e.ex : k + 1 >= now /\ k < now + Window}

(* A canceled series is not expanded.  Overridden occurrences are passed    *)
(* over, as they were listed.                                               *)
Expand(w) ==
    /\ At(w, "expand")
    /\ LET e == local[w].event
       IN IF e.status = "active"
          THEN /\ local' = [local EXCEPT ![w].todo = Instances(e) \ Overridden,
                                         ![w].valid = Instances(e) \cup Overridden]
               /\ Goto(w, IF Instances(e) \subseteq Overridden THEN "prune" ELSE "look")
          ELSE Goto(w, "mark") /\ UNCHANGED local
    /\ UNCHANGED <<doneVars, rowVars>>

Current(w) == Min(local[w].todo)

NextKey(w) ==
    LET rest == local[w].todo \ {Current(w)}
    IN /\ local' = [local EXCEPT ![w].todo = rest, ![w].row = NoRow]
       /\ Goto(w, IF rest # {} THEN "look"
                  ELSE IF local[w].over THEN "resolve" ELSE "prune")

(* upsertOccurrence reads the row,                                          *)
Look(w) ==
    /\ At(w, "look")
    /\ Recall(w, "row", occ[Current(w)])
    /\ Goto(w, "write")
    /\ UNCHANGED <<doneVars, rowVars>>

(* The row an instance of the series or an override asks for.               *)
Wanted(w) ==
    IF local[w].over
    THEN LET new == Override(task[w], Current(w))
         IN [status |-> "scheduled", start |-> new.start, seq |-> SequenceOf(new),
             body |-> Body(task[w], new), override |-> TRUE]
    ELSE [status |-> "scheduled", start |-> Current(w), seq |-> local[w].event.seq,
          body |-> local[w].event.body, override |-> FALSE]

Runs(row) == row.status \in {"in_meeting", "completed"}

(* and writes by what it read: a new row unless another run was faster;     *)
(* nothing over a newer or a started occurrence; else an update that brings *)
(* a canceled one back.                                                     *)
Write(w) ==
    /\ At(w, "write")
    /\ LET k == Current(w)  row == local[w].row  wanted == Wanted(w)
           new == [wanted EXCEPT !.status = IF row.status \in {"canceled", "skipped"}
                                            THEN "scheduled" ELSE row.status,
                                 !.override = wanted.override \/ row.override]
       IN IF row = NoRow
          THEN IF occ[k] = NoRow
               THEN /\ occ' = [occ EXCEPT ![k] = wanted]
                    /\ local' = [local EXCEPT ![w].row = wanted, ![w].moved = FALSE]
                    /\ Goto(w, "sync")
               ELSE NextKey(w) /\ UNCHANGED occ
          ELSE IF wanted.seq < row.seq \/ Runs(row)
               THEN NextKey(w) /\ UNCHANGED occ
               ELSE /\ occ' = [occ EXCEPT ![k] = new]
                    /\ local' = [local EXCEPT ![w].row = new,
                                   ![w].moved = row.start # new.start \/ row.body # new.body]
                    /\ Goto(w, "sync")
    /\ UNCHANGED <<doneVars, event, expanded, guests, join, pruned>>

CancelJoins(k, J) == [J EXCEPT ![k] = [t \in Times |-> IF J[k][t] = "pending" THEN "canceled"
                                                       ELSE J[k][t]]]

JoinTime(start) == IF start > now + Lead THEN start - Lead ELSE now

(* A join that is due now has a key of its own, to the millisecond.         *)
CreateJoin(k, start, J) ==
    LET t == JoinTime(start)
    IN [J EXCEPT ![k][t] = IF t = now \/ @ = "none" THEN "pending" ELSE @]

(* A changed occurrence loses its jobs, and no more.                        *)
SyncCancelsOnly(w) ==
    /\ At(w, "sync")
    /\ LET k == Current(w)  row == local[w].row
       IN /\ UNCHANGED occ
          /\ join' = IF row.status \notin Untouched THEN join
                     ELSE IF local[w].moved THEN CancelJoins(k, join)
                     ELSE CreateJoin(k, row.start, join)
    /\ NextKey(w)
    /\ UNCHANGED <<doneVars, event, expanded, guests, pruned>>

(* A changed one keeps its jobs.                                            *)
SyncWithoutCancel(w) ==
    /\ At(w, "sync")
    /\ LET k == Current(w)  row == local[w].row
       IN IF row.status \notin Untouched THEN UNCHANGED <<occ, join>>
          ELSE IF row.start < now
          THEN /\ join' = CancelJoins(k, join)
               /\ occ' = [occ EXCEPT ![k].status = "skipped"]
          ELSE /\ join' = CreateJoin(k, row.start, join)
               /\ UNCHANGED occ
    /\ NextKey(w)
    /\ UNCHANGED <<doneVars, event, expanded, guests, pruned>>

(* syncJoinJob by the row it wrote: an occurrence that is over is skipped,  *)
(* and its jobs canceled; else the jobs of a changed one are canceled, and  *)
(* one is created under its join time, INSERT OR IGNORE.                    *)
SyncJoinJob(w) ==
    /\ At(w, "sync")
    /\ LET k == Current(w)  row == local[w].row
           left == IF local[w].moved THEN CancelJoins(k, join) ELSE join
       IN IF row.status \notin Untouched THEN UNCHANGED <<occ, join>>
          ELSE IF row.start < now
          THEN /\ join' = CancelJoins(k, join)
               /\ occ' = [occ EXCEPT ![k].status = "skipped"]
          ELSE /\ join' = CreateJoin(k, row.start, left)
               /\ UNCHANGED occ
    /\ NextKey(w)
    /\ UNCHANGED <<doneVars, event, expanded, guests, pruned>>

(* pruneObsoleteOccurrences lists what the rules no longer generate,        *)
Prune(w) ==
    /\ At(w, "prune")
    /\ LET obsolete == {k \in Day \ local[w].valid :
                          /\ occ[k] # NoRow /\ ~occ[k].override
                          /\ occ[k].start >= now /\ occ[k].status \in Untouched}
       IN /\ Recall(w, "doomed", obsolete)
          /\ Goto(w, IF obsolete = {} THEN "mark" ELSE "cut")
    /\ UNCHANGED <<doneVars, rowVars>>

CanceledRows(K) == [k \in Day |-> IF k \in K THEN [occ[k] EXCEPT !.status = "canceled"] ELSE occ[k]]
CanceledJoins(K) == [k \in Day |-> IF k \in K THEN CancelJoins(k, join)[k] ELSE join[k]]

(* cancels it in one batch, and then its join jobs.                         *)
Cut(w) ==
    /\ At(w, "cut")
    /\ occ' = CanceledRows(local[w].doomed) /\ join' = CanceledJoins(local[w].doomed)
    /\ pruned' = pruned \cup {k \in local[w].doomed : bot[k] = "live"}
    /\ Goto(w, "mark")
    /\ UNCHANGED <<doneVars, local, event, expanded, guests>>

(* The window is counted from where it ended.                               *)
MarkFromLast(w) ==
    /\ At(w, "mark")
    /\ LET m == task[w]
           expands == (m = Nightly \/ Master(m) # None) /\ local[w].event.status = "active"
       IN /\ expanded' = IF expands THEN expanded + Window ELSE expanded
          /\ IF m = Nightly THEN Finish(w) /\ Forget(w)
             ELSE /\ UNCHANGED task
                  /\ local' = [local EXCEPT ![w].todo = OverriddenDays(m), ![w].over = TRUE]
                  /\ Goto(w, IF OverriddenDays(m) = {} THEN "resolve" ELSE "look")
    /\ UNCHANGED <<inboundVars, joined, now, bot, told, event, guests, occ, join, pruned>>

(* markEventExpanded, unless nothing was expanded; then the overrides.      *)
Mark(w) ==
    /\ At(w, "mark")
    /\ LET m == task[w]
           expands == (m = Nightly \/ Master(m) # None) /\ local[w].event.status = "active"
       IN /\ expanded' = IF expands THEN now + Window ELSE expanded
          /\ IF m = Nightly THEN Finish(w) /\ Forget(w)
             ELSE /\ UNCHANGED task
                  /\ local' = [local EXCEPT ![w].todo = OverriddenDays(m), ![w].over = TRUE]
                  /\ Goto(w, IF OverriddenDays(m) = {} THEN "resolve" ELSE "look")
    /\ UNCHANGED <<inboundVars, joined, now, bot, told, event, guests, occ, join, pruned>>

----------------------------------------------------------------------------
(* Cancellations.                                                           *)

(* cancelCalendarEvent: a series is canceled unless a newer one is stored.  *)
CloseSeries(w) ==
    /\ At(w, "close")
    /\ LET sequence == IF Master(task[w]).sequence = None THEN local[w].event.seq
                       ELSE Master(task[w]).sequence
       IN IF sequence >= event.seq
          THEN /\ event' = [event EXCEPT !.status = "canceled", !.seq = sequence]
               /\ Goto(w, "list")
          ELSE UNCHANGED event /\ Goto(w, "resolve")
    /\ UNCHANGED <<doneVars, local, expanded, guests, occ, join, pruned>>

(* cancelOccurrences: the rows that are not final, of the keys or of all,   *)
List(w) ==
    /\ At(w, "list")
    /\ LET keys == IF OverriddenDays(task[w]) = {} THEN Day ELSE OverriddenDays(task[w])
           open == {k \in keys : occ[k] # NoRow /\ occ[k].status \in Untouched \cup {"in_meeting"}}
       IN /\ local' = [local EXCEPT ![w].doomed = open,
                                    ![w].bots = {k \in open : bot[k] # "none"}]
          /\ Goto(w, "cancel")
    /\ UNCHANGED <<doneVars, rowVars>>

(* are canceled in one batch;                                               *)
Cancel(w) ==
    /\ At(w, "cancel")
    /\ occ' = CanceledRows(local[w].doomed)
    /\ Goto(w, IF OverriddenDays(task[w]) = {} THEN "drop" ELSE "exdates_read")
    /\ UNCHANGED <<doneVars, local, event, expanded, guests, join, pruned>>

(* single ones become EXDATEs, added to those of the first reading, by an   *)
(* upsert of the whole series that keeps what its own reading finds;        *)
CancelSeq(w, e) == Max({e.seq} \cup {SequenceOf(override) : override \in Overrides(task[w])})

ReadForExdates(w) ==
    /\ At(w, "exdates_read")
    /\ LET first == local[w].event
           seq == CancelSeq(w, first)
           new == [event EXCEPT !.seq = seq, !.ex = first.ex \cup OverriddenDays(task[w])]
       IN IF seq < event.seq THEN Goto(w, "drop") /\ UNCHANGED local
          ELSE Goto(w, "exdates") /\ Recall(w, "event", new)
    /\ UNCHANGED <<doneVars, rowVars>>

(* No EXDATE is kept.                                                       *)
StoreNoExdates(w) ==
    /\ At(w, "exdates")
    /\ Goto(w, "drop")
    /\ UNCHANGED <<doneVars, local, rowVars>>

StoreExdates(w) ==
    /\ At(w, "exdates")
    /\ event' = IF local[w].event.seq >= event.seq THEN local[w].event ELSE event
    /\ Goto(w, "drop")
    /\ UNCHANGED <<doneVars, local, expanded, guests, occ, join, pruned>>

(* and their jobs are canceled.                                             *)
DropJoins(w) ==
    /\ At(w, "drop")
    /\ join' = CanceledJoins(local[w].doomed)
    /\ Goto(w, "resolve")
    /\ UNCHANGED <<doneVars, local, event, expanded, guests, occ, pruned>>

ResolveMail(w) == Resolve(w) /\ UNCHANGED calendarVars

(* The queue messages: stop the bots of what was canceled.                  *)
NotifyNobody(w) ==
    /\ At(w, "notify")
    /\ Finish(w) /\ Forget(w)
    /\ UNCHANGED <<inboundVars, rowVars, joined, now, bot, told>>

Notify(w) ==
    /\ At(w, "notify")
    /\ told' = told \cup local[w].bots
    /\ Finish(w) /\ Forget(w)
    /\ UNCHANGED <<inboundVars, rowVars, joined, now, bot>>

FailRun(w) ==
    /\ Fail(w) /\ Forget(w)
    /\ UNCHANGED <<rowVars, joined, now, bot, told>>

(* handleExpandRecurrences for a recurring series whose window has moved.   *)
ExpandRecurrences(w) ==
    /\ ~Working(w)
    /\ event # NoEvent /\ event.status = "active" /\ Cardinality(event.rule) > 1
    /\ expanded < now + Window
    /\ Begin(0)
    /\ Goto(w, "expand") /\ task' = [task EXCEPT ![w] = Nightly]
    /\ Recall(w, "event", event)
    /\ UNCHANGED <<inbox, ingests, rowVars, bot, told, now, joined>>

----------------------------------------------------------------------------
(* Joins and time.                                                          *)

Meanwhile == joined' = (joined \/ ~Quiet)

(* A due schedule_join job, in one step (Join has its statements).          *)
RunJoin(k, t) ==
    /\ join[k][t] = "pending" /\ t <= now
    /\ join' = [join EXCEPT ![k][t] = "done"]
    /\ IF occ[k].status \in Untouched /\ event.status = "active"
       THEN IF occ[k].start < now
            THEN occ' = [occ EXCEPT ![k].status = "skipped"] /\ UNCHANGED bot
            ELSE /\ occ' = [occ EXCEPT ![k].status = IF bot[k] = "live" THEN @ ELSE "join_queued"]
                 /\ bot' = [bot EXCEPT ![k] = "live"]
       ELSE UNCHANGED <<occ, bot>>
    /\ Meanwhile
    /\ UNCHANGED <<inboundVars, runVars, event, expanded, guests, told, now, pruned>>

(* The bot is in the meeting; the meeting is over.                          *)
BotMoves(k) ==
    /\ bot[k] = "live"
    /\ \/ /\ occ[k].status = "join_queued"
          /\ occ' = [occ EXCEPT ![k].status = "in_meeting"] /\ UNCHANGED bot
       \/ /\ occ[k].status = "in_meeting" /\ now >= occ[k].start
          /\ occ' = [occ EXCEPT ![k].status = "completed"]
          /\ bot' = [bot EXCEPT ![k] = "over"]
    /\ Meanwhile
    /\ UNCHANGED <<inboundVars, runVars, event, expanded, guests, join, told, now, pruned>>

(* enqueue_cancel_bot and its job.                                          *)
StopBot(k) ==
    /\ k \in told /\ told' = told \ {k}
    /\ bot' = [bot EXCEPT ![k] = IF @ = "live" THEN "over" ELSE @]
    /\ Meanwhile
    /\ UNCHANGED <<inboundVars, runVars, rowVars, now>>

(* Runs last seconds, not days.                                             *)
Tick ==
    /\ Quiet /\ now < LastDay /\ now' = now + 1
    /\ UNCHANGED <<inboundVars, runVars, rowVars, bot, told, joined>>

----------------------------------------------------------------------------
IngestStep(w) ==
    \/ GateMail(w) \/ Ingest(w) \/ Store(w) \/ ReadSaved(w) \/ ReplaceGuests(w)
    \/ Expand(w) \/ Look(w) \/ Write(w) \/ SyncJoinJob(w) \/ Prune(w) \/ Cut(w)
    \/ Mark(w) \/ CloseSeries(w) \/ List(w) \/ Cancel(w) \/ ReadForExdates(w)
    \/ StoreExdates(w) \/ DropJoins(w) \/ ResolveMail(w) \/ Notify(w)

Next ==
    \/ \E w \in Worker : \/ \E m \in Message : ReceiveMail(w, m)
                         \/ IngestStep(w) \/ FailRun(w) \/ ExpandRecurrences(w)
    \/ \E k \in Day : (\E t \in Times : RunJoin(k, t)) \/ BotMoves(k) \/ StopBot(k)
    \/ Tick

Spec == Init /\ [][Next]_vars

----------------------------------------------------------------------------
(* Properties.                                                              *)

(* Handlers that do not overlap and do not die.                             *)
Serial == disturbances = 0

(* However invites overlap, arrive late or again, the stored series is      *)
(* never replaced by an older one (eventQueries.ts:29-34, 90).              *)
SeriesNeverRollsBack ==
    [][event # NoEvent => event' # NoEvent /\ event'.seq >= event.seq]_vars

(* The attendees are those of the invite that the series came from: no      *)
(* stale invite leaves its guest list on a newer series                     *)
(* (ingest.ts:99-110).                                                      *)
GuestsOfTheSeries ==
    Serial /\ Quiet /\ event # NoEvent => guests = ComputeAttendeeRows(Master(event.src))

(* A job of the occurrence has run within its lead already, or its join     *)
(* time was used by one that was canceled: the key is taken.                *)
TimeUsed(k) ==
    \E t \in Times :
       \/ join[k][t] = "done" /\ t + Lead >= occ[k].start
       \/ join[k][t] = "canceled" /\ t + Lead = occ[k].start

(* A scheduled occurrence has a pending job that will send its bot, unless  *)
(* one has run when it was due, or one of the same join time was canceled   *)
(* before (joinJobs.ts:6-11).                                               *)
ScheduledIsJoined ==
    Serial /\ ~joined /\ Quiet =>
       \A k \in Day : occ[k] # NoRow /\ occ[k].status = "scheduled" /\ occ[k].start >= now =>
          TimeUsed(k) \/ \E t \in Times : join[k][t] = "pending" /\ t <= occ[k].start

(* Exactly one pending schedule_join job for a scheduled occurrence, after  *)
(* runs that neither overlapped nor died (joinJobs.ts:6-7).                 *)
ExactlyOneJoinJob ==
    Serial /\ ~joined /\ Quiet /\ event # NoEvent /\ event.status = "active" =>
       \A k \in Day : occ[k] # NoRow /\ occ[k].status = "scheduled" /\ occ[k].start > now =>
          Cardinality({t \in Times : join[k][t] = "pending"}) = 1

(* No bot comes at a time its meeting was moved away from: a pending job of *)
(* a scheduled occurrence is not ahead of its lead (joinJobs.ts:30-35).     *)
JoinsOnTime ==
    Serial /\ Quiet =>
       \A k \in Day, t \in Times :
          occ[k] # NoRow /\ occ[k].status = "scheduled" /\ join[k][t] = "pending"
             => t + Lead >= occ[k].start

(* The nightly expansion brings no canceled occurrence back, whether it was *)
(* canceled alone, with its series or by a prune (ingest.ts:212-218).       *)
ExpansionKeepsCancellations ==
    [][\A w \in Worker : Serial /\ task[w] = Nightly /\ pc'[w] # pc[w] =>
          \A k \in Day : occ[k] # NoRow /\ occ[k].status = "canceled"
                            => occ'[k].status = "canceled"]_vars

(* Without overlaps, a bot of a canceled meeting has been told to leave,    *)
(* unless a prune canceled it (ingest.ts:219-222, index.ts:164-167).        *)
CanceledBotsToldToLeave ==
    Serial /\ ~joined /\ Quiet =>
       \A k \in Day \ pruned :
          occ[k] # NoRow /\ occ[k].status = "canceled" /\ bot[k] = "live" => k \in told
----------------------------------------------------------------------------
(* The inductive invariant.                                                 *)

(* What a run has, by where it is.                                          *)

Saving == {"store", "saved", "guests"}
Loop == {"look", "write", "sync"}
Canceling == {"close", "list", "cancel", "exdates_read", "exdates", "drop"}

(* In expandEventOccurrences.                                               *)
Expanding(w) == pc[w] \in {"expand", "prune", "cut"} \/ (pc[w] \in Loop /\ ~local[w].over)

Exist(K) == \A k \in K : occ[k] # NoRow

(* It has its task, *)
TaskOK(w) ==
    /\ At(w, "gate") => task[w] \in Message
    /\ pc[w] \in {"ingest", "resolve", "notify"} \cup Saving \cup Canceling => task[w] \in Admissible
    /\ pc[w] \in Saving => BringsSeries(task[w])
    /\ Expanding(w) => task[w] = Nightly \/ (task[w] \in Admissible /\ BringsSeries(task[w]))
    /\ At(w, "mark") => task[w] \in Admissible \cup {Nightly}
    /\ pc[w] \in Canceling => Invite[task[w]].kind = "cancel"
    /\ pc[w] = "close" => OverriddenDays(task[w]) = {}
    /\ pc[w] \in {"exdates_read", "exdates"} => OverriddenDays(task[w]) # {}

(* the series it works on, *)
SeriesOK(w) ==
    /\ At(w, "saved") => event # NoEvent
    /\ Expanding(w) \/ pc[w] \in {"guests", "mark"} \cup Canceling
          => event # NoEvent /\ local[w].event # NoEvent

(* and the occurrences that are left to do.                                 *)
KeysOK(w) ==
    /\ pc[w] \in {"idle", "gate"} => local[w] = Blank
    /\ local[w].over => task[w] \in Admissible /\ pc[w] \in Loop \cup {"resolve", "notify"}
    /\ pc[w] \in Loop => local[w].todo # {}
    /\ pc[w] \in Loop /\ local[w].over => local[w].todo \subseteq OverriddenDays(task[w])
    /\ At(w, "sync") => local[w].row # NoRow /\ occ[Current(w)] # NoRow
    /\ pc[w] \in {"cut", "cancel"} => Exist(local[w].doomed)

RunInv == \A w \in Worker : TaskOK(w) /\ SeriesOK(w) /\ KeysOK(w)

(* Jobs and bots are those of occurrences.                                  *)
RowInv ==
    \A k \in Day :
       (\E t \in Times : join[k][t] = "pending") \/ bot[k] # "none" => occ[k] # NoRow

(* A mail that a run has passed the gate with is not met again.             *)
AtGate(m) == {w \in Worker : At(w, "gate") /\ task[w] = m}

GateInv ==
    \A m \in Message :
       /\ ingests[m] <= 1
       /\ inbox[m] = "none" \/ AtGate(m) # {} => ingests[m] = 0
       /\ inbox[m] = "none" => AtGate(m) = {}
       /\ \A v, w \in AtGate(m) : v = w

(* While runs neither overlap nor die: there is one at a time, *)
OneRun == \A v, w \in Worker : Working(v) /\ Working(w) => v = w

(* it works on the stored series as it is, *)
SeriesHeld(w) ==
    /\ At(w, "store") => event = NoEvent \/ SequenceOf(Master(task[w])) >= event.seq
    /\ pc[w] \in {"saved", "guests"} => event = Series(task[w])
    /\ At(w, "guests") \/ Expanding(w) => local[w].event = event /\ event.status = "active"
    /\ pc[w] \in {"list", "cancel", "exdates_read"} =>
          IF OverriddenDays(task[w]) = {} THEN event.status = "canceled"
          ELSE local[w].event = event
    /\ At(w, "exdates") =>
          /\ local[w].event.seq >= event.seq
          /\ local[w].event = [event EXCEPT !.seq = local[w].event.seq,
                                            !.ex = @ \cup OverriddenDays(task[w])]

(* and on the row it read, but for its status;                              *)
SameRow(read, row) ==
    /\ read = NoRow <=> row = NoRow
    /\ row # NoRow => /\ read.start = row.start /\ read.seq = row.seq
                      /\ read.override = row.override
                      /\ row.status = "canceled" => read.status = "canceled"

RowHeld(w) ==
    /\ At(w, "write") => SameRow(local[w].row, occ[Current(w)])
    /\ At(w, "sync") => /\ occ[Current(w)].start = local[w].row.start
                        /\ occ[Current(w)].status # "canceled"
                        /\ local[w].row.status \in Untouched

Saves(w) == pc[w] \in {"saved", "guests"}

(* the guests are of the invite that the series is of, once it is saved;    *)
GuestInv ==
    event # NoEvent /\ (\A w \in Worker : ~Saves(w))
       => guests = ComputeAttendeeRows(Master(event.src))

(* and no pending job is ahead of its lead, but those that a run is about   *)
(* to cancel.                                                               *)
JoinInv ==
    \A k \in Day, t \in Times :
       join[k][t] = "pending" =>
          \/ t + Lead >= occ[k].start
          \/ \E w \in Worker : At(w, "sync") /\ local[w].moved /\ k = Current(w)

(* An expansion has the days that the series has in the window, and has     *)
(* none of the overridden ones to do; it prunes none of them.               *)
DaysHeld(w) ==
    /\ pc[w] \in Loop /\ ~local[w].over =>
          \A k \in local[w].todo : k \in Instances(event) /\ k \notin Overridden
    /\ Expanding(w) /\ ~At(w, "expand") => Instances(event) \subseteq local[w].valid
    /\ At(w, "cut") =>
          \A k \in local[w].doomed : k \notin Overridden /\ occ[k].start >= now /\ k \notin local[w].valid
    /\ At(w, "cancel") /\ OverriddenDays(task[w]) # {} =>
          local[w].doomed \subseteq OverriddenDays(task[w])

(* Occurrences of the rules start on their key, in the window, and are not  *)
(* newer than the series.                                                   *)
RuledInv ==
    \A k \in Day :
       occ[k] # NoRow /\ ~occ[k].override =>
          /\ occ[k].start = k /\ k < now + Window
          /\ event # NoEvent /\ occ[k].seq <= event.seq

(* One that is canceled is not of the rules any more, or over; but for the  *)
(* runs of a mail that are about to bring it back or to strike it out.      *)
StruckOut(k) ==
    event.status = "canceled" \/ k \notin event.rule \ event.ex \/ k + 1 < now

Unsettled(w, k) ==
    \/ task[w] # Nightly /\ pc[w] \in {"saved", "guests", "expand"}
    \/ task[w] # Nightly /\ pc[w] \in Loop /\ ~local[w].over /\ k \in local[w].todo
    \/ pc[w] \in {"exdates_read", "exdates"} /\ k \in OverriddenDays(task[w])

CanceledInv ==
    \A k \in Day :
       occ[k] # NoRow /\ occ[k].status = "canceled" /\ ~occ[k].override =>
          StruckOut(k) \/ \E w \in Worker : Unsettled(w, k)

(* While no join came in between: a canceled occurrence's bot is on the     *)
(* list of the run that canceled it, until it is told;                      *)
BotHeld(w) ==
    At(w, "cancel") => \A k \in local[w].doomed : bot[k] = "live" => k \in local[w].bots

Telling(w) == pc[w] \in {"exdates_read", "exdates", "drop", "resolve", "notify"}

BotInv ==
    \A k \in Day \ pruned :
       occ[k] # NoRow /\ occ[k].status = "canceled" /\ bot[k] = "live" =>
          k \in told \/ \E w \in Worker : Telling(w) /\ k \in local[w].bots

(* and a scheduled one has its job, when the run at it is through.          *)
JobHeld(w) ==
    /\ At(w, "sync") => occ[Current(w)] = local[w].row
    /\ pc[w] \in {"exdates_read", "exdates", "drop"} =>
          \A k \in local[w].doomed : occ[k] # NoRow /\ occ[k].status = "canceled"

WillJoin(k) == TimeUsed(k) \/ \E t \in Times : join[k][t] = "pending" /\ t <= occ[k].start

ScheduledInv ==
    \A k \in Day :
       occ[k] # NoRow /\ occ[k].status = "scheduled" /\ occ[k].start >= now =>
          WillJoin(k) \/ \E w \in Worker : At(w, "sync") /\ k = Current(w)

Held(w) == SeriesHeld(w) /\ RowHeld(w) /\ DaysHeld(w)

SerialInv ==
    Serial =>
       /\ OneRun /\ \A w \in Worker : Held(w)
       /\ GuestInv /\ JoinInv /\ RuledInv /\ CanceledInv

UndisturbedInv ==
    Serial /\ ~joined =>
       /\ \A w \in Worker : BotHeld(w) /\ JobHeld(w)
       /\ BotInv /\ ScheduledInv

IInv == TypeOK /\ RunInv /\ RowInv /\ GateInv /\ SerialInv /\ UndisturbedInv
============================================================================
