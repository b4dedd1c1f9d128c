------------------------------- MODULE Join -------------------------------
(***************************************************************************)
(* One meeting occurrence and its bot sessions: the schedule_join handler, *)
(* the webhooks of the bot runtime, stale-session recovery, retries after  *)
(* a failed session, and cancellation by the calendar or an admin          *)
(* (jobHandlers.ts, botWebhookProcessor.ts, cron.ts, botSessionQueries.ts, *)
(* occurrenceQueries.ts, scheduler/ingest.ts, routes/occurrences.ts).      *)
(*                                                                         *)
(* An Actor is one invocation of a worker: between two of its D1           *)
(* statements or runtime calls any other actor may run, and what it read   *)
(* stays in pc, sess, val and key until it ends or crashes.  The runtime   *)
(* side of a session is a MeetingBot.  Job rows are those of Jobs, reduced *)
(* to which keys exist and which of them still have to run.  Every fault   *)
(* counts in faults: a crash, a call whose answer is lost or fails, a lost *)
(* or timed-out webhook, a silenced heartbeat, a container that dies.      *)
(* Whether end_time has passed is left open wherever the code compares it  *)
(* with the clock.                                                         *)
(***************************************************************************)
EXTENDS Naturals, FiniteSets, MeetingBot

CONSTANTS NoSession,        \* no session
          Actor,            \* concurrent worker invocations
          MaxJoinAttempts,  \* settings.bot.maxJoinAttempts
          AttemptCap,       \* join_attempts saturates here
          MaxFaults,        \* bound: faults
          Requests          \* bound: the requests made, once each: cancel_invite,
                            \* retry_join, cancel_bot

ASSUME JoinAssumption ==
    /\ MaxJoinAttempts \in Nat \ {0}
    /\ AttemptCap \in Nat /\ AttemptCap > MaxJoinAttempts
    /\ MaxFaults \in Nat
    /\ NoSession \notin Session

VARIABLES
    occ,          \* meeting_occurrences.status
    latest,       \* latest_bot_session_id
    joinAttempts, \* join_attempts
    event,        \* the calendar event: active, this instance exdated, canceled
    sealed,       \* history: canceled while no other actor was at work
    state,        \* bot_sessions.state, by what the code tells apart
    known,        \* sessions with a runtime_bot_id
    stale,        \* sessions whose last_heartbeat_at is before the cutoff
    queued, used, \* schedule_join keys still to run, and keys that exist
    transcribe,   \* the pipeline from the transcribe job on
    cancelJob,    \* an enqueue_cancel_bot message or a cancel_bot job waits
    logged,       \* sessions whose slot is already in bot_events
    pc, sess, val, key,  \* an actor's place and locals
    faults,       \* faults so far
    requests      \* calendar cancellation and admin requests so far

occVars     == <<occ, latest, joinAttempts, event, sealed>>
sessionVars == <<state, known, stale>>
jobVars     == <<queued, used, transcribe, cancelJob>>
botVars     == <<botSessionVars, logged>>
actorVars   == <<pc, sess, val, key>>
vars == <<occVars, sessionVars, jobVars, botVars, actorVars, faults, requests>>

(* A list of final statuses without canceled.                               *)
FinalButCanceled == {"completed", "failed", "skipped"}

Final    == {"completed", "failed", "canceled", "skipped"}
Statuses == {"scheduled", "join_queued", "in_meeting", "post_meeting",
             "transcribing"} \cup Final

Active(s) == state[s] \in ActiveStates

(* schedule_join keys: the calendar's, retry1 .. retryN, an admin's.        *)
CalendarKey == 0
AdminKey    == MaxJoinAttempts + 1
Keys        == 0..AdminKey

JoinStages     == {"create", "count", "call", "bind", "enqueue", "monitor",
                   "undo_retryable", "undo_final", "reject"}
WebhookStages  == {"apply", "read", "write", "transcribe"}
FailoverStages == {"recover", "failover", "reschedule", "rejoin", "give_up"}
CancelStages   == {"cancel_write", "cancel_jobs", "cancel_send", "cancel_call"}
Stages == {"idle"} \cup JoinStages \cup WebhookStages \cup FailoverStages
                   \cup CancelStages

Vals == {"none", "bot", "no_bot"} \cup Kinds \cup Statuses

TypeOK ==
    /\ occ \in Statuses
    /\ latest \in Session \cup {NoSession}
    /\ joinAttempts \in 0..AttemptCap
    /\ event \in {"active", "exdated", "canceled"}
    /\ sealed \in BOOLEAN
    /\ state \in [Session -> {"absent"} \cup ActiveStates \cup EndStates]
    /\ known \subseteq Session /\ stale \subseteq Session
    /\ used \subseteq Keys /\ queued \subseteq used
    /\ transcribe \in {"none", "pending", "running", "over"}
    /\ cancelJob \in BOOLEAN
    /\ bot \in [Session -> {"none", "gone"} \cup ActiveStates \cup EndStates]
    /\ aborting \subseteq Session /\ logged \subseteq Session
    /\ slot \in [Session -> {"none"} \cup Kinds]
    /\ pc \in [Actor -> Stages]
    /\ sess \in [Actor -> Session \cup {NoSession}]
    /\ val \in [Actor -> Vals]
    /\ key \in [Actor -> Keys]
    /\ faults \in 0..MaxFaults /\ requests \subseteq Requests

Init ==
    /\ occ = "scheduled" /\ latest = NoSession /\ joinAttempts = 0
    /\ event = "active" /\ sealed = FALSE
    /\ state = [s \in Session |-> "absent"] /\ known = {} /\ stale = {}
    /\ queued = {CalendarKey} /\ used = {CalendarKey}
    /\ transcribe = "none" /\ cancelJob = FALSE
    /\ BotInit /\ logged = {}
    /\ pc = [a \in Actor |-> "idle"] /\ sess = [a \in Actor |-> NoSession]
    /\ val = [a \in Actor |-> "none"] /\ key = [a \in Actor |-> CalendarKey]
    /\ faults = 0 /\ requests = {}

----------------------------------------------------------------------------
(* Actors.                                                                  *)

At(a, stage) == pc[a] = stage

(* The actor's next stage, its session and its remembered value.            *)
Begin(a, stage, s, v, k) ==
    /\ pc[a] = "idle"
    /\ pc' = [pc EXCEPT ![a] = stage]
    /\ sess' = [sess EXCEPT ![a] = s]
    /\ val' = [val EXCEPT ![a] = v]
    /\ key' = [key EXCEPT ![a] = k]

Goto(a, stage) == pc' = [pc EXCEPT ![a] = stage] /\ UNCHANGED <<sess, val, key>>

Stop(a) ==
    /\ pc' = [pc EXCEPT ![a] = "idle"]
    /\ sess' = [sess EXCEPT ![a] = NoSession]
    /\ val' = [val EXCEPT ![a] = "none"]
    /\ key' = [key EXCEPT ![a] = CalendarKey]

Fault == faults < MaxFaults /\ faults' = faults + 1
Request(r) == r \in Requests \ requests /\ requests' = requests \cup {r}

Crash(a) ==
    /\ ~At(a, "idle") /\ Fault /\ Stop(a)
    /\ UNCHANGED <<occVars, sessionVars, jobVars, botVars, requests>>

(* bot_sessions without its partial unique index.                           *)
NoIndex(s) == TRUE

(* The partial unique index: no second active session for the occurrence.   *)
NoOtherActive(s) == \A t \in Session \ {s} : ~Active(t)

SetState(s, st) == state' = [state EXCEPT ![s] = st] /\ stale' = stale \ {s}

----------------------------------------------------------------------------
(* schedule_join.                                                           *)

JobDone(a)  == queued' = queued \ {key[a]}
Running(k)  == \E a \in Actor : pc[a] \in JoinStages /\ key[a] = k

Joinable == occ \in {"scheduled", "join_queued"} /\ event # "canceled"

(* The handler leases a job and reads occurrence and event.  Without a free *)
(* session id (bound) no further attempt is started.  Past end_time the     *)
(* occurrence is skipped.                                                   *)
TakeJoin(a, k) ==
    /\ k \in queued /\ ~Running(k)
    /\ \/ /\ Joinable /\ \E s \in Session : state[s] = "absent"
          /\ Begin(a, "create", NoSession, "none", k)
          /\ UNCHANGED <<occ, queued>>
       \/ /\ occ' \in IF Joinable THEN {"skipped"} ELSE {occ}
          /\ queued' = queued \ {k}
          /\ pc[a] = "idle" /\ UNCHANGED actorVars
    /\ UNCHANGED <<latest, joinAttempts, event, sealed, sessionVars, used,
                   transcribe, cancelJob, botVars, faults, requests>>

(* INSERT OR IGNORE against the active index: null means somebody else has  *)
(* a session, and the job is done.                                          *)
CreateBotSession(a) ==
    /\ At(a, "create")
    /\ \/ /\ \E s \in Session : Active(s)
          /\ JobDone(a) /\ Stop(a) /\ UNCHANGED <<state, stale>>
       \/ /\ ~\E s \in Session : Active(s)
          /\ \E s \in Session :
               /\ state[s] = "absent"
               /\ SetState(s, "joining")
               /\ pc' = [pc EXCEPT ![a] = "count"]
               /\ sess' = [sess EXCEPT ![a] = s]
          /\ UNCHANGED <<queued, val, key>>
    /\ UNCHANGED <<occVars, known, used, transcribe, cancelJob, botVars,
                   faults, requests>>

IncrementJoinAttempts(a) ==
    /\ At(a, "count")
    /\ joinAttempts' = IF joinAttempts < AttemptCap THEN joinAttempts + 1
                       ELSE joinAttempts
    /\ Goto(a, "call")
    /\ UNCHANGED <<occ, latest, event, sealed, sessionVars, jobVars, botVars,
                   faults, requests>>

BotStarts(s) == Starts(s) /\ UNCHANGED logged

(* A client that gives up before the container has started.                 *)
CreateBotImpatiently(a) ==
    /\ At(a, "call")
    /\ BotStarts(sess[a]) /\ (Goto(a, "bind") \/ Goto(a, "undo_retryable"))
    /\ UNCHANGED <<occVars, sessionVars, jobVars, faults, requests>>

(* POST /v1/bots: accepted; refused with a retryable status (429, 5xx) or   *)
(* with another one; or accepted and the answer lost.                       *)
CreateBot(a) ==
    /\ At(a, "call")
    /\ \/ BotStarts(sess[a]) /\ Goto(a, "bind") /\ UNCHANGED faults
       \/ Goto(a, "undo_retryable") /\ UNCHANGED <<botVars, faults>>
       \/ Goto(a, "undo_final") /\ UNCHANGED <<botVars, faults>>
       \/ BotStarts(sess[a]) /\ Goto(a, "undo_retryable") /\ Fault
    /\ UNCHANGED <<occVars, sessionVars, jobVars, requests>>

SetRuntimeId(a) ==
    /\ At(a, "bind")
    /\ known' = known \cup {sess[a]}
    /\ Goto(a, "enqueue")
    /\ UNCHANGED <<occVars, state, stale, jobVars, botVars, faults, requests>>

MarkJoinQueued(a) ==
    /\ At(a, "enqueue")
    /\ occ' = "join_queued" /\ latest' = sess[a]
    /\ Goto(a, "monitor")
    /\ UNCHANGED <<joinAttempts, event, sealed, sessionVars, jobVars, botVars,
                   faults, requests>>

(* The monitor_bot job is created and the handler returns.  The monitor and *)
(* the cron run the same recovery (Recover), so its row is not kept here.   *)
FinishJoin(a) ==
    /\ At(a, "monitor")
    /\ JobDone(a) /\ Stop(a)
    /\ UNCHANGED <<occVars, sessionVars, used, transcribe, cancelJob,
                   botVars, faults, requests>>

(* A statement of the try block fails after the runtime accepted the bot.   *)
JoinStatementFails(a) ==
    /\ pc[a] \in {"bind", "enqueue", "monitor"} /\ Fault
    /\ Goto(a, "undo_retryable")
    /\ UNCHANGED <<occVars, sessionVars, jobVars, botVars, requests>>

(* The catch block fails the session.  A retryable error is thrown on: the  *)
(* job waits for another run or is dead-lettered.                           *)
UndoJoin(a) ==
    /\ pc[a] \in {"undo_retryable", "undo_final"}
    /\ SetState(sess[a], "failed")
    /\ IF pc[a] = "undo_final"
       THEN Goto(a, "reject") /\ UNCHANGED queued
       ELSE Stop(a) /\ (JobDone(a) \/ UNCHANGED queued)
    /\ UNCHANGED <<occVars, known, used, transcribe, cancelJob, botVars,
                   faults, requests>>

RejectJoin(a) ==
    /\ At(a, "reject")
    /\ occ' = "failed"
    /\ JobDone(a) /\ Stop(a)
    /\ UNCHANGED <<latest, joinAttempts, event, sealed, sessionVars, used,
                   transcribe, cancelJob, botVars, faults, requests>>

----------------------------------------------------------------------------
(* The bot runtime (app.ts): one webhook at a time, each transition awaits  *)
(* its delivery.                                                            *)

controlPlaneVars == <<occVars, sessionVars, jobVars, actorVars, requests>>

BotGoesOn(s) ==
    /\ Waits(s) \/ Joins(s)
    /\ UNCHANGED <<logged, controlPlaneVars, faults>>

BotEnds(s) == Ends(s) /\ UNCHANGED <<logged, controlPlaneVars, faults>>

BotDies(s) ==
    /\ Dies(s) /\ Fault /\ logged' = logged \ {s}
    /\ UNCHANGED controlPlaneVars

Handling(s) ==
    \E a \in Actor : sess[a] = s /\ pc[a] \in WebhookStages \cup FailoverStages

(* The delivery ends: answered after the event was handled, or, a fault,    *)
(* answered as a duplicate after a timeout while it still is being handled, *)
(* or given up after three attempts.                                        *)
DeliveryEnds(s) ==
    /\ Delivered(s) /\ logged' = logged \ {s}
    /\ IF s \in logged /\ ~Handling(s) THEN UNCHANGED faults ELSE Fault
    /\ UNCHANGED controlPlaneVars

(* A heartbeat or log webhook touches last_heartbeat_at.                    *)
Heartbeat(s) ==
    /\ s \in Live /\ s \in stale
    /\ stale' = stale \ {s}
    /\ UNCHANGED <<occVars, state, known, jobVars, botVars, actorVars,
                   faults, requests>>

----------------------------------------------------------------------------
(* processBotWebhook.  A session has one bot, so the superseded_session     *)
(* answer is never given.                                                   *)

(* getBotSession, then INSERT OR IGNORE INTO bot_events: a redelivery of a  *)
(* logged event is a duplicate and changes nothing.                         *)
ReceiveWebhook(a, s) ==
    /\ slot[s] # "none" /\ s \notin logged
    /\ logged' = logged \cup {s}
    /\ Begin(a, "apply", s, slot[s], CalendarKey)
    /\ UNCHANGED <<bot, aborting, slot, occVars, sessionVars, jobVars,
                   faults, requests>>

(* The session row takes the event's state, whatever it was; a session may  *)
(* come back to life that way unless the active index refuses (the request  *)
(* fails, and its redelivery is a duplicate).                               *)
UpdateSessionState(a) ==
    /\ At(a, "apply")
    /\ IF StateOf(val[a]) \in ActiveStates /\ ~NoOtherActive(sess[a])
       THEN Stop(a) /\ UNCHANGED <<state, stale>>
       ELSE SetState(sess[a], StateOf(val[a])) /\ Goto(a, "read")
    /\ UNCHANGED <<occVars, known, jobVars, botVars, faults, requests>>

Choose(a, stage, v) ==
    /\ pc' = [pc EXCEPT ![a] = stage]
    /\ val' = [val EXCEPT ![a] = v]
    /\ UNCHANGED <<sess, key>>

MappedStatus(kind) == IF kind = "joining" THEN "join_queued" ELSE "in_meeting"

(* The occurrence is read once; what is written below is decided here.      *)
ReadOccurrence(a) ==
    /\ At(a, "read")
    /\ \/ /\ \/ val[a] = "canceled_recorded"
             \/ val[a] = "done" /\ occ \notin Final
          /\ Choose(a, "write", "post_meeting")
       \/ val[a] = "done" /\ occ \in Final /\ Goto(a, "transcribe")
       \/ val[a] \in {"failed_retryable", "failed_final"} /\ Goto(a, "failover")
       \/ /\ val[a] = "canceled" /\ occ \notin Final \ {"canceled"}
          /\ Choose(a, "write", "canceled")
       \/ /\ val[a] \in ActiveStates /\ occ \notin Final
          /\ Choose(a, "write", MappedStatus(val[a]))
       \/ /\ \/ val[a] = "canceled" /\ occ \in Final \ {"canceled"}
             \/ val[a] \in ActiveStates /\ occ \in Final
          /\ Stop(a)
    /\ UNCHANGED <<occVars, sessionVars, jobVars, botVars, faults, requests>>

WriteOccurrence(a) ==
    /\ At(a, "write")
    /\ occ' = val[a]
    /\ latest' = IF val[a] = "canceled" THEN latest ELSE sess[a]
    /\ IF val[a] = "post_meeting" THEN Goto(a, "transcribe") ELSE Stop(a)
    /\ UNCHANGED <<joinAttempts, event, sealed, sessionVars, jobVars, botVars,
                   faults, requests>>

(* A job only for occurrences that are not final.                           *)
CreateTranscribeJobUnlessFinal(a) ==
    /\ At(a, "transcribe")
    /\ transcribe' = IF transcribe = "none" /\ occ \notin Final THEN "pending"
                     ELSE transcribe
    /\ Stop(a)
    /\ UNCHANGED <<occVars, sessionVars, queued, used, cancelJob, botVars, faults,
                   requests>>

CreateTranscribeJob(a) ==
    /\ At(a, "transcribe")
    /\ transcribe' = IF transcribe = "none" THEN "pending" ELSE transcribe
    /\ Stop(a)
    /\ UNCHANGED <<occVars, sessionVars, queued, used, cancelJob, botVars,
                   faults, requests>>

----------------------------------------------------------------------------
(* Stale sessions and retries.                                              *)

Joining(s) == \E a \in Actor : pc[a] \in JoinStages /\ sess[a] = s

(* Someone still works for the session or reports on it.                    *)
Attended(s) == s \in Live \/ slot[s] # "none" \/ Joining(s) \/ Handling(s)

(* No webhook for staleSessionMinutes: nothing is left to send one or, a    *)
(* fault, it is delayed for that long.                                      *)
FallSilent(s) ==
    /\ Active(s) /\ s \notin stale /\ ~Attended(s)
    /\ stale' = stale \cup {s}
    /\ UNCHANGED <<occVars, state, known, jobVars, botVars, actorVars, faults,
                   requests>>

LoseHeartbeats(s) ==
    /\ Active(s) /\ s \notin stale /\ Attended(s)
    /\ Fault /\ stale' = stale \cup {s}
    /\ UNCHANGED <<occVars, state, known, jobVars, botVars, actorVars,
                   requests>>

(* The cron passes over sessions without a runtime id.                      *)
RecoverKnownOnly(a, s) ==
    /\ Active(s) /\ s \in stale /\ s \in known
    /\ Begin(a, "recover", s, "failed_retryable", CalendarKey)
    /\ IF s \in Live THEN Fault ELSE UNCHANGED faults
    /\ UNCHANGED <<occVars, sessionVars, jobVars, botVars, requests>>

(* The cron, or the session's monitor_bot job, finds an active session with *)
(* an old heartbeat and asks the runtime: a live bot is left alone, one     *)
(* that is unknown or cannot be reached is failed over.                     *)
Recover(a, s) ==
    /\ Active(s) /\ s \in stale
    /\ Begin(a, "recover", s, "failed_retryable", CalendarKey)
    /\ IF s \in known /\ s \in Live THEN Fault ELSE UNCHANGED faults
    /\ UNCHANGED <<occVars, sessionVars, jobVars, botVars, requests>>

FailStaleSession(a) ==
    /\ At(a, "recover")
    /\ SetState(sess[a], "failed")
    /\ Goto(a, "failover")
    /\ UNCHANGED <<occVars, known, jobVars, botVars, faults, requests>>

(* maybeRetryJoin reads the occurrence again and decides; once end_time has *)
(* passed there is no retry.                                                *)
MaybeRetryJoin(a) ==
    /\ At(a, "failover")
    /\ \/ occ \in Final /\ Stop(a)
       \/ /\ occ \notin Final
          /\ \/ /\ val[a] = "failed_retryable" /\ joinAttempts < MaxJoinAttempts
                /\ pc' = [pc EXCEPT ![a] = "reschedule"]
                /\ key' = [key EXCEPT ![a] = joinAttempts + 1]
                /\ UNCHANGED <<sess, val>>
             \/ Goto(a, "give_up")
    /\ UNCHANGED <<occVars, sessionVars, jobVars, botVars, faults, requests>>

Reschedule(a) ==
    /\ At(a, "reschedule")
    /\ occ' = "scheduled"
    /\ Goto(a, "rejoin")
    /\ UNCHANGED <<latest, joinAttempts, event, sealed, sessionVars, jobVars,
                   botVars, faults, requests>>

(* INSERT OR IGNORE: a key that was used before schedules nothing.          *)
CreateRetryJob(a) ==
    /\ At(a, "rejoin")
    /\ queued' = IF key[a] \in used THEN queued ELSE queued \cup {key[a]}
    /\ used' = used \cup {key[a]}
    /\ Stop(a)
    /\ UNCHANGED <<occVars, sessionVars, transcribe, cancelJob, botVars,
                   faults, requests>>

GiveUp(a) ==
    /\ At(a, "give_up")
    /\ occ' = "failed"
    /\ Stop(a)
    /\ UNCHANGED <<latest, joinAttempts, event, sealed, sessionVars, jobVars,
                   botVars, faults, requests>>

----------------------------------------------------------------------------
(* Cancellation, admin requests, the clock and the pipeline.                *)

(* A CANCEL invite for the series (cancelCalendarEvent) or this instance    *)
(* (recorded as an EXDATE): cancelOccurrences reads the candidates, with    *)
(* their latest_bot_session_id, and writes them in a later batch.           *)
CancelInvite(a) ==
    /\ Request("cancel_invite")
    /\ event' \in {"exdated", "canceled"}
    /\ IF occ \in Final
       THEN pc[a] = "idle" /\ UNCHANGED actorVars
       ELSE Begin(a, "cancel_write", NoSession,
                  IF latest = NoSession THEN "no_bot" ELSE "bot", CalendarKey)
    /\ UNCHANGED <<occ, latest, joinAttempts, sealed, sessionVars, jobVars,
                   botVars, faults>>

CancelOccurrence(a) ==
    /\ At(a, "cancel_write")
    /\ occ' = "canceled"
    /\ sealed' = (\A b \in Actor \ {a} : pc[b] = "idle")
    /\ Goto(a, "cancel_jobs")
    /\ UNCHANGED <<latest, joinAttempts, event, sessionVars, jobVars,
                   botVars, faults, requests>>

(* cancelJobsForOwner, every job of the occurrence; a pipeline job that     *)
(* runs may go on.  enqueue_cancel_bot follows only for a known session.    *)
CancelJobs(a) ==
    /\ At(a, "cancel_jobs")
    /\ queued' = {} /\ cancelJob' = FALSE
    /\ \/ transcribe' = IF transcribe = "pending" THEN "over" ELSE transcribe
       \/ transcribe = "running" /\ transcribe' = "over"
    /\ IF val[a] = "bot" THEN Goto(a, "cancel_send") ELSE Stop(a)
    /\ UNCHANGED <<occVars, sessionVars, used, botVars, faults, requests>>

EnqueueCancelBot(a) ==
    /\ At(a, "cancel_send")
    /\ cancelJob' = TRUE
    /\ Stop(a)
    /\ UNCHANGED <<occVars, sessionVars, queued, used, transcribe, botVars,
                   faults, requests>>

(* handleCancelBot: without an active session that has a runtime id there   *)
(* is nothing to stop.                                                      *)
TakeCancelBot(a) ==
    /\ cancelJob
    /\ \/ /\ \E s \in known :
               Active(s) /\ Begin(a, "cancel_call", s, "none", CalendarKey)
          /\ UNCHANGED cancelJob
       \/ /\ ~\E s \in known : Active(s)
          /\ cancelJob' = FALSE /\ pc[a] = "idle" /\ UNCHANGED actorVars
    /\ UNCHANGED <<occVars, sessionVars, queued, used, transcribe, botVars,
                   faults, requests>>

(* The session is closed as soon as the runtime took the request.           *)
CancelBotAtOnce(a) ==
    /\ At(a, "cancel_call")
    /\ Stop(a) /\ SetState(sess[a], "canceled")
    /\ aborting' = aborting \cup ({sess[a]} \cap Live)
    /\ cancelJob' = FALSE
    /\ UNCHANGED <<bot, slot, logged, occVars, known, queued, used, transcribe,
                   faults, requests>>

(* The runtime aborts a bot that has not ended; when it cannot be reached   *)
(* the job runs again until its budget is spent.                            *)
CancelBot(a) ==
    /\ At(a, "cancel_call")
    /\ Stop(a)
    /\ \/ /\ aborting' = aborting \cup ({sess[a]} \cap Live)
          /\ cancelJob' = FALSE /\ UNCHANGED faults
       \/ Fault /\ cancelJob' \in {cancelJob, FALSE} /\ UNCHANGED aborting
    /\ UNCHANGED <<bot, slot, logged, occVars, sessionVars, queued, used,
                   transcribe, requests>>

(* POST /:id/retry-join checks the status it read, then reschedules.        *)
AdminRetryJoin(a) ==
    /\ Request("retry_join")
    /\ occ \notin {"in_meeting", "join_queued"}
    /\ Begin(a, "reschedule", NoSession, "none", AdminKey)
    /\ UNCHANGED <<occVars, sessionVars, jobVars, botVars, faults>>

AdminCancelBot ==
    /\ Request("cancel_bot")
    /\ cancelJob' = TRUE
    /\ UNCHANGED <<occVars, sessionVars, queued, used, transcribe, botVars,
                   actorVars, faults>>

(* handleTranscribe works on the recording of the latest session; without   *)
(* one the job fails for good (recordTerminalJobFailure).  A canceled       *)
(* session may have left a recording.                                       *)
PipelineStarts ==
    /\ transcribe = "pending"
    /\ \/ /\ latest \in {s \in Session : bot[s] \in {"done", "canceled"}}
          /\ transcribe' = "running" /\ occ' = "transcribing"
       \/ /\ latest \notin {s \in Session : bot[s] = "done"}
          /\ transcribe' = "over"
          /\ occ' = IF occ \in {"completed", "canceled"} THEN occ ELSE "failed"
    /\ UNCHANGED <<latest, joinAttempts, event, sealed, sessionVars, queued,
                   used, cancelJob, botVars, actorVars, faults, requests>>

(* The rest of the pipeline writes the status without looking at it.        *)
PipelineEnds ==
    /\ transcribe = "running" /\ transcribe' = "over"
    /\ occ' \in {"completed", "failed"}
    /\ UNCHANGED <<latest, joinAttempts, event, sealed, sessionVars, queued,
                   used, cancelJob, botVars, actorVars, faults, requests>>

----------------------------------------------------------------------------
JoinStep(a) ==
    \/ CreateBotSession(a) \/ IncrementJoinAttempts(a) \/ CreateBot(a)
    \/ SetRuntimeId(a) \/ MarkJoinQueued(a) \/ FinishJoin(a)
    \/ UndoJoin(a) \/ RejectJoin(a)

WebhookStep(a) ==
    \/ UpdateSessionState(a) \/ ReadOccurrence(a) \/ WriteOccurrence(a)
    \/ CreateTranscribeJob(a)

FailoverStep(a) ==
    \/ FailStaleSession(a) \/ MaybeRetryJoin(a) \/ Reschedule(a)
    \/ CreateRetryJob(a) \/ GiveUp(a)

CancelStep(a) ==
    \/ CancelOccurrence(a) \/ CancelJobs(a) \/ EnqueueCancelBot(a)
    \/ CancelBot(a)

Step(a) == JoinStep(a) \/ WebhookStep(a) \/ FailoverStep(a) \/ CancelStep(a)

BotStep(s) == BotGoesOn(s) \/ BotEnds(s)

Next ==
    \/ \E a \in Actor, k \in Keys : TakeJoin(a, k)
    \/ \E a \in Actor, s \in Session : ReceiveWebhook(a, s) \/ Recover(a, s)
    \/ \E a \in Actor : TakeCancelBot(a) \/ CancelInvite(a) \/ AdminRetryJoin(a)
    \/ \E a \in Actor : Step(a)
    \/ \E a \in Actor : Crash(a) \/ JoinStatementFails(a)
    \/ \E s \in Session : BotStep(s) \/ BotDies(s)
    \/ \E s \in Session : DeliveryEnds(s) \/ Heartbeat(s)
    \/ \E s \in Session : FallSilent(s) \/ LoseHeartbeats(s)
    \/ AdminCancelBot \/ PipelineStarts \/ PipelineEnds

Spec == Init /\ [][Next]_vars

(* Workers that have not crashed run on; the runtime's requests are         *)
(* answered and the cron fires; a bot leaves at its maximum duration;       *)
(* silence is noticed.                                                      *)
SessionFairness ==
    /\ \A a \in Actor : WF_vars(Step(a))
    /\ \A s \in Session :
         /\ SF_vars(\E a \in Actor : ReceiveWebhook(a, s))
         /\ SF_vars(\E a \in Actor : Recover(a, s))
         /\ SF_vars(BotEnds(s)) /\ WF_vars(DeliveryEnds(s))
         /\ WF_vars(FallSilent(s))

SessionSpec == Spec /\ SessionFairness

----------------------------------------------------------------------------
(* Properties.                                                              *)

(* At most one active session (botSessionQueries.ts:4-9), although a late   *)
(* webhook can bring any session back.                                      *)
OneActiveSession == \A s, t \in Session : Active(s) /\ Active(t) => s = t

(* Without faults the control plane never gives up, or loses, a bot that is *)
(* in a meeting: its session stays active (cron.ts:57-66).                  *)
LiveBotsTracked == faults = 0 => \A s \in Live : Active(s)

(* Bots in the meeting beyond the first come only from faults, each of at   *)
(* most one: no order of retries, cancellations, webhooks and recoveries    *)
(* alone puts a second bot into the meeting (jobHandlers.ts:116-121).       *)
ExtraBotsNeedFaults == Cardinality(Live) <= 1 + faults

(* Without faults, the recording of a bot that finished always reaches the  *)
(* pipeline once its webhook was answered, even for an occurrence that was  *)
(* canceled or failed meanwhile (botWebhookProcessor.ts:125-160).           *)
RecordingsTranscribed ==
    \A s \in Session :
       faults = 0 /\ bot[s] = "done" /\ slot[s] = "none" => transcribe # "none"

(* Without faults, a cancellation that no worker was in the middle of is    *)
(* final: no webhook, recovery or queued join brings the meeting back, only *)
(* the recording of a bot that had finished moves it on                     *)
(* (botWebhookProcessor.ts:151-176, jobHandlers.ts:265-267).                *)
CancellationSticks ==
    sealed /\ "retry_join" \notin requests /\ faults = 0
      => occ \notin {"scheduled", "join_queued", "in_meeting", "skipped"}

(* The inductive invariant: what actors remember stays true of the session  *)
(* and its bot,                                                             *)
Owners == {a \in Actor : pc[a] \in JoinStages \ {"create"}}
Callers == {a \in Actor : pc[a] \in {"count", "call"}}

ActorInv ==
    \A a \in Actor :
       /\ a \in Owners \/ pc[a] \in WebhookStages \cup {"recover", "cancel_call"}
            => sess[a] \in Session /\ state[sess[a]] # "absent"
       /\ pc[a] \in {"apply", "read"} => val[a] \in Kinds
       /\ pc[a] = "write"
            => val[a] \in {"post_meeting", "canceled", "join_queued", "in_meeting"}
       /\ a \in Callers => bot[sess[a]] = "none"
       /\ pc[a] = "apply" => bot[sess[a]] # "none"
       /\ pc[a] = "apply" /\ StateOf(val[a]) \in EndStates => sess[a] \notin Live
       /\ \A b \in Owners : a \in Owners /\ sess[a] = sess[b] => a = b

SlotInv ==
    \A s \in Session :
       /\ state[s] = "absent" => bot[s] = "none"
       /\ bot[s] = "none" => slot[s] = "none"
       /\ slot[s] = "none" => s \notin logged
       /\ slot[s] \in Kinds /\ StateOf(slot[s]) \in EndStates => s \notin Live

(* without faults nobody is about to close the session of a live bot,       *)
TrackedInv ==
    faults = 0 =>
       /\ \A s \in Live : Active(s)
       /\ stale \cap Live = {}
       /\ \A a \in Callers : Active(sess[a]) /\ sess[a] \notin stale
       /\ \A a \in Actor : pc[a] \in {"undo_retryable", "undo_final"}
                             => bot[sess[a]] = "none"
       /\ \A a \in Actor : pc[a] = "recover"
            => /\ sess[a] \notin Live
               /\ \A b \in Callers : sess[b] # sess[a]

(* and a recording's webhook is waiting, being handled, or was handled.     *)
Carries(a, s) ==
    /\ sess[a] = s
    /\ \/ pc[a] \in {"apply", "read"} /\ val[a] = "done"
       \/ pc[a] = "write" /\ val[a] = "post_meeting"
       \/ pc[a] = "transcribe"

RecordingInv ==
    \A s \in Session : faults = 0 /\ bot[s] = "done" =>
       \/ transcribe # "none"
       \/ slot[s] = "done" /\ (s \notin logged \/ \E a \in Actor : Carries(a, s))

SessionInv == /\ TypeOK /\ OneActiveSession /\ ActorInv /\ SlotInv /\ TrackedInv
              /\ RecordingInv

(* A bot that is in the meeting or being asked for, whose session is not    *)
(* active, is silent, or is about to be closed: the sessions that another   *)
(* attempt may double.  Each of them took a fault of its own.               *)
Present  == Live \cup {sess[a] : a \in Callers}
Doomed   == {s \in Session : ~Active(s)} \cup stale
               \cup {sess[a] : a \in {b \in Actor :
                        pc[b] \in {"undo_retryable", "undo_final", "recover"}}}
Risk     == Present \cap Doomed
RiskInv  == IsFiniteSet(Risk) /\ Cardinality(Risk) <= faults

(* Without faults and admin retries, one thing at a time can lead to the    *)
(* next attempt: a queued schedule_join key nobody runs, an actor that      *)
(* tries or fails over, or a session whose bot started.                     *)
Calm == faults = 0 /\ "retry_join" \notin requests

Failed        == {"failed_retryable", "failed_final"}
Waiting(k)    == k \in queued /\ ~Running(k)
Attempting(a) == \/ pc[a] \in {"create", "count", "call", "undo_retryable",
                               "undo_final", "failover", "reschedule", "rejoin"}
                 \/ pc[a] = "read" /\ val[a] \in Failed
OnCall(s)     == Active(s) /\ bot[s] # "none"
Ended         == \E s \in Session : state[s] \in {"done", "canceled"}

AttemptInv ==
    Calm =>
       /\ \A j, k \in Keys : Waiting(j) /\ Waiting(k) => j = k
       /\ \A a, b \in Actor : Attempting(a) /\ Attempting(b) => a = b
       /\ \A a \in Actor, k \in Keys : ~(Attempting(a) /\ Waiting(k))
       /\ \A a \in Actor, s \in Session : ~(Attempting(a) /\ OnCall(s))
       /\ \A k \in Keys, s \in Session : ~(Waiting(k) /\ OnCall(s))
       /\ Ended => /\ \A k \in Keys : ~Waiting(k)
                   /\ \A a \in Actor : ~Attempting(a)
                   /\ \A s \in Session : ~OnCall(s)

(* Without faults a webhook is handled once, while its bot waits, and until *)
(* it is applied the session is active; nothing falls silent.               *)
Handlers == {a \in Actor : pc[a] \in WebhookStages \cup FailoverStages}

HandlerInv ==
    Calm =>
       /\ stale = {}
       /\ \A a \in Handlers : pc[a] # "recover" /\ sess[a] \in logged
       /\ \A a, b \in Handlers : sess[a] = sess[b] => a = b
       /\ \A a \in Actor : pc[a] \in {"apply", "read"} => val[a] = slot[sess[a]]
       /\ \A a \in Actor : pc[a] = "apply" => Active(sess[a])
       /\ \A a \in Actor :
            pc[a] = "transcribe" \/ (pc[a] = "write" /\ val[a] = "post_meeting")
              => state[sess[a]] \in {"done", "canceled"}
       /\ \A s \in Session :
            /\ bot[s] # "gone"
            /\ slot[s] # "none" /\ s \notin logged => Active(s)
            /\ s \in logged => \/ state[s] = StateOf(slot[s])
                               \/ \E a \in Actor : pc[a] = "apply" /\ sess[a] = s
            /\ bot[s] \in EndStates /\ slot[s] # "none" => StateOf(slot[s]) \in EndStates
            /\ bot[s] \in EndStates /\ Active(s) => slot[s] # "none"
            /\ bot[s] = "none" /\ Active(s)
                 => \E a \in Actor : /\ sess[a] = s
                                     /\ pc[a] \in {"count", "call", "undo_retryable",
                                                  "undo_final"}

(* A cancellation that no worker was in the middle of: nobody joins, and    *)
(* the occurrence leaves canceled only for what an ended session left.      *)
SealInv ==
    Calm =>
       /\ transcribe # "none" => Ended
       /\ sealed =>
            /\ occ \in Final \cup {"post_meeting", "transcribing"} /\ occ # "skipped"
            /\ occ \in {"post_meeting", "transcribing"} => Ended
            /\ \A a \in Actor :
                 /\ pc[a] \notin JoinStages \cup {"reschedule", "rejoin"}
                 /\ pc[a] = "write" => val[a] \in {"post_meeting", "canceled"}

IInv == SessionInv /\ RiskInv /\ AttemptInv /\ HandlerInv /\ SealInv

(* Every session ends, also when its bot dies, its webhooks are lost or     *)
(* come late, or its creator crashed (cron.ts:43-46).                       *)
SessionsEnd == \A s \in Session : Active(s) ~> ~Active(s)

(* docs/troubleshooting.md:17: a cancellation invite marks the occurrence   *)
(* canceled and a cancel_bot job tears down any active session.             *)
CanceledMeetingsHaveNoBot ==
    /\ event # "active" /\ "retry_join" \notin requests
    /\ ~cancelJob /\ \A a \in Actor : pc[a] = "idle"
    => Live \subseteq aborting
============================================================================
