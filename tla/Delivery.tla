----------------------------- MODULE Delivery -----------------------------
(***************************************************************************)
(* Sending the recap of one occurrence: handleSendRecap run under a lease  *)
(* of its send_recap job, the email_deliveries rows, the policy guard      *)
(* around the mail provider, and what can change meanwhile: attendees and  *)
(* allowed domains, a cancellation, an admin's retry-delivery              *)
(* (jobHandlers.ts, jobRunner.ts, emailQueries.ts, policyGuard.ts).        *)
(*                                                                         *)
(* The job is a task of FencedLease, which Jobs implements; a worker's run *)
(* is its token.  Between two awaits of a run any other run or request may *)
(* happen, and what the run read stays in policy, list and todo.  A fault  *)
(* is a crash, a D1 statement that fails, a run that outlives its lease,   *)
(* or a mail that leaves although the provider reports a failure.          *)
(***************************************************************************)
EXTENDS Naturals, FiniteSets

CONSTANTS Recipient,   \* attendee addresses
          Invited,     \* those the invite made eligible
          Worker,      \* concurrent runs
          NoWorker,    \* no run holds the job
          NoRecipient, \* no mail on its way
          MaxAttempts, \* jobs.max_attempts
          MaxFaults,   \* bound: faults
          Requests,    \* bound: the requests made, once each: cancel,
                       \* retry_delivery, update_attendees, change_policy
          MaxRequests  \* bound: how many of them

ASSUME DeliveryAssumption ==
    /\ MaxAttempts \in Nat \ {0}
    /\ MaxFaults \in Nat /\ MaxRequests \in Nat
    /\ NoWorker \notin Worker
    /\ NoRecipient \notin Recipient
    /\ Invited \subseteq Recipient

VARIABLES
    row,       \* email_deliveries.status by recipient
    sentAt,    \* recipients whose row has a sent_at
    mails,     \* mails that left, by recipient
    eligible,  \* attendees with recipient_eligible = 1
    allowed,   \* recipients in settings.allowedDomains
    occ,       \* meeting_occurrences.status
    phase, token, claims,  \* the job as a fenced lease
    attempts,  \* attempts, up to MaxAttempts
    completed, \* the job's row is completed
    pc,        \* where a run is
    policy,    \* the run's settings
    list,      \* the run's eligible attendees
    todo,      \* those of list it has still to look at
    to,        \* the recipient whose result is to be recorded
    result,    \* that result
    unsent,    \* a delivery of the run failed
    canceling, \* a cancellation wrote the occurrence, its jobs come next
    faults, requests

mailVars == <<row, sentAt, mails>>
inputVars == <<eligible, allowed>>
jobVars == <<phase, token, claims, attempts, completed>>
leaseVars == <<phase, token, claims>>
localVars == <<policy, list, todo, to, result, unsent>>
requestVars == <<inputVars, canceling, requests>>
vars == <<mailVars, requestVars, occ, jobVars, pc, localVars, faults>>

SendRecap == "send_recap"

Lease == INSTANCE FencedLease
           WITH Task <- {SendRecap}, Token <- Worker, NoToken <- NoWorker

Settled == {"completed", "completed_no_eligible_recipients", "canceled"}
Statuses == {"summarizing", "sending_recap", "failed"} \cup Settled
Stages == {"idle", "attendees", "skip", "mark", "list", "send", "record",
           "finish", "complete", "fail", "fail_terminal", "retry", "dead",
           "report", "surface"}
Working(w) == pc[w] # "idle"

TypeOK ==
    /\ row \in [Recipient -> {"none", "sent", "failed"}]
    /\ sentAt \subseteq Recipient
    /\ mails \in [Recipient -> Nat]
    /\ eligible \subseteq Recipient /\ allowed \subseteq Recipient
    /\ occ \in Statuses
    /\ phase \in [{SendRecap} -> {"open", "held", "closed"}]
    /\ token \in [{SendRecap} -> Worker \cup {NoWorker}]
    /\ claims = {SendRecap} \X {w \in Worker : Working(w)}
    /\ attempts \in 0..MaxAttempts /\ completed \in BOOLEAN
    /\ pc \in [Worker -> Stages]
    /\ policy \in [Worker -> SUBSET Recipient]
    /\ list \in [Worker -> SUBSET Recipient]
    /\ todo \in [Worker -> SUBSET Recipient]
    /\ to \in [Worker -> Recipient \cup {NoRecipient}]
    /\ result \in [Worker -> {"sent", "failed"}]
    /\ unsent \in [Worker -> BOOLEAN]
    /\ canceling \in BOOLEAN
    /\ faults \in 0..MaxFaults /\ requests \subseteq Requests

(* generate_recap has written the recap and created the job.                *)
Init ==
    /\ row = [r \in Recipient |-> "none"] /\ sentAt = {}
    /\ mails = [r \in Recipient |-> 0]
    /\ eligible = Invited /\ allowed = Recipient
    /\ occ = "summarizing"
    /\ phase = [t \in {SendRecap} |-> "open"]
    /\ token = [t \in {SendRecap} |-> NoWorker] /\ claims = {}
    /\ attempts = 0 /\ completed = FALSE
    /\ pc = [w \in Worker |-> "idle"]
    /\ policy = [w \in Worker |-> {}] /\ list = [w \in Worker |-> {}]
    /\ todo = [w \in Worker |-> {}] /\ to = [w \in Worker |-> NoRecipient]
    /\ result = [w \in Worker |-> "failed"]
    /\ unsent = [w \in Worker |-> FALSE]
    /\ canceling = FALSE /\ faults = 0 /\ requests = {}

----------------------------------------------------------------------------
(* Runs.                                                                    *)

At(w, stage) == pc[w] = stage
Goto(w, stage) == pc' = [pc EXCEPT ![w] = stage]
Fault == faults < MaxFaults /\ faults' = faults + 1

(* The handler is left with its locals.                                     *)
Throw(w, stage) ==
    /\ Goto(w, stage)
    /\ policy' = [policy EXCEPT ![w] = {}] /\ list' = [list EXCEPT ![w] = {}]
    /\ todo' = [todo EXCEPT ![w] = {}] /\ to' = [to EXCEPT ![w] = NoRecipient]
    /\ result' = [result EXCEPT ![w] = "failed"]
    /\ unsent' = [unsent EXCEPT ![w] = FALSE]

Rest(w) == Throw(w, "idle")

(* leaseJob, then the settings (loadJobContext).                            *)
StartRun(w) ==
    /\ Lease!Grant(SendRecap, w)
    /\ IF <<SendRecap, token[SendRecap]>> \in claims THEN Fault
       ELSE UNCHANGED faults
    /\ attempts' = IF attempts < MaxAttempts THEN attempts + 1 ELSE attempts
    /\ Goto(w, "attendees")
    /\ policy' = [policy EXCEPT ![w] = allowed]
    /\ UNCHANGED <<mailVars, requestVars, occ, completed, list, todo, to,
                   result, unsent>>

(* listEffectiveAttendees.                                                  *)
ReadAttendees(w) ==
    /\ At(w, "attendees")
    /\ list' = [list EXCEPT ![w] = eligible]
    /\ todo' = [todo EXCEPT ![w] = eligible]
    /\ Goto(w, IF eligible = {} THEN "skip" ELSE "mark")
    /\ UNCHANGED <<mailVars, requestVars, occ, jobVars, policy, to, result,
                   unsent, faults>>

SkipDelivery(w) ==
    /\ At(w, "skip")
    /\ occ' = "completed_no_eligible_recipients"
    /\ Goto(w, "complete")
    /\ UNCHANGED <<mailVars, requestVars, jobVars, localVars, faults>>

MarkSending(w) ==
    /\ At(w, "mark")
    /\ occ' = "sending_recap"
    /\ Goto(w, "list")
    /\ UNCHANGED <<mailVars, requestVars, jobVars, localVars, faults>>

(* Every eligible attendee gets a mail in every run.                        *)
ListNothing(w) ==
    /\ At(w, "list")
    /\ Goto(w, "send")
    /\ UNCHANGED <<mailVars, requestVars, occ, jobVars, localVars, faults>>

(* listDeliveriesForRecap: recipients whose row is sent are passed over.    *)
ListDeliveries(w) ==
    /\ At(w, "list")
    /\ todo' = [todo EXCEPT ![w] = {r \in @ : row[r] # "sent"}]
    /\ Goto(w, "send")
    /\ UNCHANGED <<mailVars, requestVars, occ, jobVars, policy, list, to,
                   result, unsent, faults>>

(* No guard around the provider.                                            *)
AnyRecipient(w, r) == TRUE

(* createPolicyEnforcedProvider.                                            *)
Permitted(w, r) == r \in policy[w]

(* One recipient of the loop: blocked, sent, refused by the provider or, a  *)
(* fault, sent although the provider throws.                                *)
SendMail(w, r) ==
    /\ At(w, "send") /\ r \in todo[w]
    /\ todo' = [todo EXCEPT ![w] = @ \ {r}]
    /\ to' = [to EXCEPT ![w] = r]
    /\ \E outcome \in IF Permitted(w, r) THEN {"sent", "failed", "lost_answer"}
                      ELSE {"failed"} :
         /\ mails' = [mails EXCEPT ![r] = IF outcome = "failed" THEN @ ELSE @ + 1]
         /\ result' = [result EXCEPT ![w] = IF outcome = "sent" THEN "sent"
                                            ELSE "failed"]
         /\ IF outcome = "lost_answer" THEN Fault ELSE UNCHANGED faults
    /\ Goto(w, "record")
    /\ UNCHANGED <<row, sentAt, requestVars, occ, jobVars, policy, list,
                   unsent>>

(* The upsert replaces sent_at like the other columns.                      *)
SentAtReplaced(w) ==
    IF result[w] = "sent" THEN sentAt \cup {to[w]} ELSE sentAt \ {to[w]}

(* Every recorded delivery gets a sent_at.                                  *)
SentAtAlways(w) == sentAt \cup {to[w]}

(* COALESCE(excluded.sent_at, email_deliveries.sent_at).                    *)
SentAtAfter(w) == IF result[w] = "sent" THEN sentAt \cup {to[w]} ELSE sentAt

(* upsertEmailDelivery.                                                     *)
RecordDelivery(w) ==
    /\ At(w, "record")
    /\ row' = [row EXCEPT ![to[w]] = result[w]]
    /\ sentAt' = SentAtAfter(w)
    /\ unsent' = [unsent EXCEPT ![w] = IF result[w] = "failed" THEN TRUE ELSE @]
    /\ to' = [to EXCEPT ![w] = NoRecipient]
    /\ result' = [result EXCEPT ![w] = "failed"]
    /\ Goto(w, "send")
    /\ UNCHANGED <<mails, requestVars, occ, jobVars, policy, list, todo,
                   faults>>

(* A failed delivery makes the run throw.                                   *)
EndLoop(w) ==
    /\ At(w, "send") /\ todo[w] = {}
    /\ IF unsent[w] THEN Throw(w, "fail")
       ELSE Goto(w, "finish") /\ UNCHANGED localVars
    /\ UNCHANGED <<mailVars, requestVars, occ, jobVars, faults>>

MarkCompleted(w) ==
    /\ At(w, "finish")
    /\ occ' = "completed"
    /\ Goto(w, "complete")
    /\ UNCHANGED <<mailVars, requestVars, jobVars, localVars, faults>>

----------------------------------------------------------------------------
(* The job's end.                                                           *)

(* The recap is being generated again, or it, its JSON artifact or the      *)
(* event is gone: a TerminalJobError.                                       *)
MissRecap(w) ==
    /\ At(w, "attendees")
    /\ Throw(w, "fail_terminal")
    /\ UNCHANGED <<mailVars, requestVars, occ, jobVars, faults>>

(* A D1 statement fails.                                                    *)
StatementFails(w) ==
    /\ pc[w] \in {"attendees", "skip", "mark", "list", "record", "finish"}
    /\ Fault
    /\ Throw(w, "fail")
    /\ UNCHANGED <<mailVars, requestVars, occ, jobVars>>

Holds(w) == token[SendRecap] = w /\ phase[SendRecap] = "held"

(* completeJob.                                                             *)
CompleteJob(w) ==
    /\ At(w, "complete")
    /\ IF Holds(w)
       THEN /\ Lease!Settle(SendRecap, w) /\ phase'[SendRecap] = "closed"
            /\ claims' = claims \ {<<SendRecap, w>>}
            /\ completed' = TRUE
       ELSE Lease!Forget(<<SendRecap, w>>) /\ UNCHANGED completed
    /\ Rest(w)
    /\ UNCHANGED <<mailVars, requestVars, occ, attempts, faults>>

(* failJob reads the row: a lost lease ends the run; otherwise the error and *)
(* the budget decide between another attempt and giving up,                 *)
FailJobRead(w) ==
    /\ pc[w] \in {"fail", "fail_terminal"}
    /\ IF Holds(w)
       THEN /\ Goto(w, IF At(w, "fail") /\ attempts < MaxAttempts THEN "retry"
                       ELSE "dead")
            /\ UNCHANGED localVars
            /\ UNCHANGED leaseVars
       ELSE Rest(w) /\ Lease!Forget(<<SendRecap, w>>)
    /\ UNCHANGED <<mailVars, requestVars, occ, attempts, completed, faults>>

(* which the next statement writes if the lease is still there.  What was   *)
(* given up is reported either way.                                         *)
FailJobWrite(w) ==
    /\ pc[w] \in {"retry", "dead"}
    /\ IF Holds(w)
       THEN /\ Lease!Settle(SendRecap, w)
            /\ phase'[SendRecap] = IF At(w, "retry") THEN "open" ELSE "closed"
       ELSE UNCHANGED <<phase, token>>
    /\ IF At(w, "retry")
       THEN Rest(w) /\ claims' = claims \ {<<SendRecap, w>>}
       ELSE /\ Goto(w, "report") /\ claims' = claims
            /\ UNCHANGED localVars
    /\ UNCHANGED <<mailVars, requestVars, occ, attempts, completed, faults>>

(* recordTerminalJobFailure reads the occurrence,                           *)
ReadOccurrence(w) ==
    /\ At(w, "report")
    /\ IF occ \in Settled THEN Rest(w) /\ Lease!Forget(<<SendRecap, w>>)
       ELSE /\ Goto(w, "surface")
            /\ UNCHANGED localVars
            /\ UNCHANGED leaseVars
    /\ UNCHANGED <<mailVars, requestVars, occ, attempts, completed, faults>>

(* and marks it failed.                                                     *)
SurfaceFailure(w) ==
    /\ At(w, "surface")
    /\ occ' = "failed"
    /\ Rest(w) /\ Lease!Forget(<<SendRecap, w>>)
    /\ UNCHANGED <<mailVars, requestVars, attempts, completed, faults>>

Crash(w) ==
    /\ Working(w) /\ Fault
    /\ Rest(w) /\ Lease!Forget(<<SendRecap, w>>)
    /\ UNCHANGED <<mailVars, requestVars, occ, attempts, completed>>

----------------------------------------------------------------------------
(* Requests.                                                                *)

Request(q) ==
    /\ q \in Requests \ requests /\ Cardinality(requests) < MaxRequests
    /\ requests' = requests \cup {q}

(* A cancellation of the event reaches the occurrence while it is not       *)
(* final, then its jobs (cancelOccurrences, cancelJobsForOwner).            *)
CancelOccurrence ==
    /\ Request("cancel")
    /\ occ \in {"summarizing", "sending_recap"}
    /\ occ' = "canceled" /\ canceling' = TRUE
    /\ UNCHANGED <<mailVars, inputVars, jobVars, pc, localVars, faults>>

CancelJobs ==
    /\ canceling /\ canceling' = FALSE
    /\ IF phase[SendRecap] \in {"open", "held"} THEN Lease!Revoke({SendRecap})
       ELSE UNCHANGED leaseVars
    /\ UNCHANGED <<mailVars, inputVars, occ, attempts, completed, pc,
                   localVars, faults, requests>>

(* POST /:id/retry-delivery: requeueJob resets a job that failed or was     *)
(* canceled, and leaves a completed or a leased one alone.                  *)
RetryDelivery ==
    /\ Request("retry_delivery")
    /\ IF phase[SendRecap] # "held" /\ ~completed
       THEN Lease!Offer(SendRecap) /\ attempts' = 0
       ELSE UNCHANGED <<leaseVars, attempts>>
    /\ UNCHANGED <<mailVars, inputVars, occ, completed, pc, localVars,
                   canceling, faults>>

(* An update of the invite replaces the attendees, judged by the policy of  *)
(* that moment (computeAttendeeRows).                                       *)
ReplaceAttendees ==
    /\ Request("update_attendees")
    /\ eligible' \in SUBSET allowed
    /\ UNCHANGED <<mailVars, allowed, occ, jobVars, pc, localVars, canceling,
                   faults>>

(* The settings get another domain list; attendee rows are not judged again.*)
ChangePolicy ==
    /\ Request("change_policy")
    /\ allowed' \in SUBSET Recipient
    /\ UNCHANGED <<mailVars, eligible, occ, jobVars, pc, localVars, canceling,
                   faults>>

----------------------------------------------------------------------------
RunStep(w) ==
    \/ ReadAttendees(w) \/ SkipDelivery(w) \/ MarkSending(w)
    \/ ListDeliveries(w) \/ (\E r \in Recipient : SendMail(w, r))
    \/ RecordDelivery(w) \/ EndLoop(w) \/ MarkCompleted(w)
    \/ CompleteJob(w) \/ MissRecap(w) \/ FailJobRead(w) \/ FailJobWrite(w)
    \/ ReadOccurrence(w) \/ SurfaceFailure(w)

Next ==
    \/ \E w \in Worker : StartRun(w) \/ RunStep(w)
    \/ \E w \in Worker : Crash(w) \/ StatementFails(w)
    \/ CancelOccurrence \/ CancelJobs \/ RetryDelivery
    \/ ReplaceAttendees \/ ChangePolicy

Spec == Init /\ [][Next]_vars

----------------------------------------------------------------------------
(* Properties.                                                              *)

Disturbances == faults + Cardinality(requests \cap {"cancel"})

(* A recipient gets the recap a second time only by a fault or by a retry   *)
(* of a canceled job that still ran, once for each: no order of attempts,   *)
(* overlapping rows and admin retries alone repeats it                      *)
(* (emailQueries.ts:14-18, docs/operations.md:28).                          *)
DuplicatesNeedDisturbances == \A r \in Recipient : mails[r] <= 1 + Disturbances

(* An occurrence is completed only by a run all of whose eligible attendees *)
(* got their mail, though an overlapping run may have failed for some of    *)
(* them and written that into the same row (jobHandlers.ts:695-703).        *)
CompletedMeansSent ==
    [][\A w \in Worker : MarkCompleted(w) => list[w] \subseteq sentAt]_vars

(* A recipient whose domain is not allowed now and was not when a run at    *)
(* work began gets no mail, whatever the attendee rows say                  *)
(* (policyGuard.ts:9-13).                                                   *)
NoMailPastPolicy ==
    [][\A r \in Recipient :
         r \notin allowed /\ (\A w \in Worker : r \notin policy[w])
           => mails'[r] = mails[r]]_vars

(* What a run has handled: listed and neither waiting, on its way nor       *)
(* failed.                                                                  *)
Handled(w) == list[w] \ (todo[w] \cup {to[w]})

(* The inductive invariant: a run that has not failed yet found or wrote a  *)
(* sent_at for every recipient it has handled; a mail was sent for every    *)
(* sent_at.                                                                 *)
LoopInv ==
    \A w \in Worker :
       /\ todo[w] \subseteq list[w]
       /\ pc[w] \in {"mark", "list"} => list[w] = todo[w]
       /\ pc[w] \in {"send", "record"} /\ ~unsent[w] => Handled(w) \subseteq sentAt
       /\ pc[w] = "finish" => list[w] \subseteq sentAt
       /\ pc[w] = "record" <=> to[w] \in Recipient
       /\ to[w] \notin todo[w]
       /\ pc[w] = "record" /\ result[w] = "sent" => mails[to[w]] > 0

RowInv ==
    \A r \in Recipient :
       /\ row[r] = "sent" => r \in sentAt
       /\ r \in sentAt => mails[r] > 0

(* What a run of a lost lease may do to a recipient: mail it, or record a   *)
(* failure over the row of another run's mail.                              *)
MayMail(w, r) ==
    \/ pc[w] \in {"attendees", "mark", "list"}
    \/ pc[w] \in {"send", "record"} /\ r \in todo[w]

MayFail(w, r) == to[w] = r /\ result[w] = "failed"

Strays(r) == {w \in Worker : ~Holds(w) /\ (MayMail(w, r) \/ MayFail(w, r))}

(* The job itself is due a mail to a recipient that its run has listed and  *)
(* not sent to, or that no row, and no result of its run, says was sent to. *)
Due(r) ==
    \/ \E w \in Worker : Holds(w) /\ pc[w] \in {"send", "record"} /\ r \in todo[w]
    \/ \E w \in Worker : Holds(w) /\ MayFail(w, r)
    \/ row[r] # "sent" /\ ~\E w \in Worker : Holds(w) /\ to[w] = r /\ result[w] = "sent"

Owed(r) == (IF Due(r) THEN 1 ELSE 0) + (IF canceling THEN 1 ELSE 0)

(* The mails that left, and those that are still to be feared, are paid for *)
(* by disturbances, but for one.                                            *)
AccountInv ==
    \A r \in Recipient :
       /\ IsFiniteSet(Strays(r))
       /\ mails[r] + Owed(r) + Cardinality(Strays(r)) <= 1 + Disturbances

IInv == TypeOK /\ LoopInv /\ RowInv /\ AccountInv
============================================================================
