------------------------------- MODULE Jobs -------------------------------
(***************************************************************************)
(* The durable job table of the workflow worker and the consumers that run *)
(* its jobs: packages/db/src/jobQueries.ts, jobRunner.ts, queueConsumers.ts*)
(* and the admin routes that requeue jobs.                                 *)
(*                                                                         *)
(* Every D1 statement is one atomic step; whatever a consumer keeps across *)
(* an await (the job it leased, its lease id, the outcome failJob decided) *)
(* is consumer state, and a crash loses it.  Queue messages are hints that *)
(* may be lost, repeated or late.                                          *)
(*                                                                         *)
(* Time is two sets of rows: due is "next_run_at <= now" and expired is    *)
(* "lease_expires_at < now"; the clock sets them in any order and at any   *)
(* moment, so the model covers every lease length and every backoff.       *)
(* Lease ids are UUIDs that are only compared, so a fresh one is any id no *)
(* row and no consumer holds.                                              *)
(***************************************************************************)
EXTENDS Naturals, FiniteSets

CONSTANTS Job,          \* idempotency keys, one row each at most
          Worker,       \* concurrent consumer invocations of the queue
          LeaseId,      \* the lease ids in circulation
          NoLease,      \* lease_id NULL
          NoJob,        \* a consumer that runs nothing
          MaxAttempts,  \* max_attempts of every row
          AttemptCap,   \* attempts saturates here (beyond every comparison)
          SweepLimit,   \* LIMIT of the cron sweep (50)
          MaxFaults,    \* bound: crashes and runs that outlive their lease
          MaxRequeues   \* bound: admin requeues in a behaviour

ASSUME JobsAssumption ==
    /\ MaxAttempts \in Nat \ {0}
    /\ AttemptCap \in Nat /\ AttemptCap > MaxAttempts
    /\ SweepLimit \in Nat /\ MaxFaults \in Nat /\ MaxRequeues \in Nat
    /\ NoLease \notin LeaseId
    /\ NoJob \notin Job

VARIABLES
    status,     \* jobs.status, "absent" without a row
    attempts,   \* jobs.attempts
    leaseId,    \* jobs.lease_id
    due,        \* jobs with next_run_at <= now
    expired,    \* jobs with lease_expires_at < now
    hints,      \* jobs with a run_job message in the queue
    pc,         \* where a consumer is in runJob
    running,    \* the job a consumer leased
    held,       \* the lease id it got
    sawDone,    \* jobs an admin request has read as completed
    reported,   \* jobs with a job.dead_letter audit event
    faults, requeues

rowVars    == <<status, attempts, leaseId, due, expired>>
workerVars == <<pc, running, held>>
adminVars  == <<sawDone, requeues>>
vars == <<rowVars, hints, workerVars, adminVars, reported, faults>>

Statuses == {"absent", "pending", "leased", "completed", "failed_retryable",
             "failed_terminal", "dead_letter", "canceled"}
Waiting  == {"pending", "failed_retryable"}
Finished == {"completed", "failed_terminal", "dead_letter", "canceled"}

(* handling: in the handler; completing: it returned; failing_*: it threw   *)
(* a retryable or a TerminalJobError; the rest: failJob read the row and    *)
(* decided that outcome; reporting: failJob returned dead_letter or         *)
(* failed_terminal.                                                         *)
Outcomes == {"retry_scheduled", "dead_letter", "failed_terminal"}
Stages   == {"idle", "handling", "completing", "failing_retryable",
             "failing_terminal", "reporting"} \cup Outcomes

TypeOK ==
    /\ status \in [Job -> Statuses]
    /\ attempts \in [Job -> 0..AttemptCap]
    /\ leaseId \in [Job -> LeaseId \cup {NoLease}]
    /\ due \subseteq Job
    /\ expired \subseteq Job
    /\ hints \subseteq Job
    /\ pc \in [Worker -> Stages]
    /\ running \in [Worker -> Job \cup {NoJob}]
    /\ held \in [Worker -> LeaseId \cup {NoLease}]
    /\ sawDone \subseteq Job
    /\ reported \subseteq Job
    /\ faults \in 0..MaxFaults
    /\ requeues \in 0..MaxRequeues

Init ==
    /\ status = [j \in Job |-> "absent"]
    /\ attempts = [j \in Job |-> 0]
    /\ leaseId = [j \in Job |-> NoLease]
    /\ due = {} /\ expired = {} /\ hints = {}
    /\ pc = [w \in Worker |-> "idle"]
    /\ running = [w \in Worker |-> NoJob]
    /\ held = [w \in Worker |-> NoLease]
    /\ sawDone = {} /\ reported = {}
    /\ faults = 0 /\ requeues = 0

----------------------------------------------------------------------------
(* Rows.                                                                    *)

(* INSERT OR IGNORE by idempotency key: a null answer changes nothing.  The *)
(* creator sends a run_job hint for work that is due, unless it crashes    *)
(* between the insert and the send.                                         *)
CreateJob(j) ==
    /\ status[j] = "absent"
    /\ \E now, sent \in BOOLEAN :
        /\ sent => now
        /\ due' = IF now THEN due \cup {j} ELSE due \ {j}
        /\ hints' = IF sent THEN hints \cup {j} ELSE hints
    /\ status' = [status EXCEPT ![j] = "pending"]
    /\ attempts' = [attempts EXCEPT ![j] = 0]
    /\ leaseId' = [leaseId EXCEPT ![j] = NoLease]
    /\ expired' = expired \ {j}
    /\ UNCHANGED <<workerVars, adminVars, reported, faults>>

BecomeDue(j) ==
    /\ status[j] \in Waiting /\ j \notin due
    /\ due' = due \cup {j}
    /\ UNCHANGED <<status, attempts, leaseId, expired, hints, workerVars,
                   adminVars, reported, faults>>

HasConsumer(j) == \E w \in Worker : running[w] = j /\ held[w] = leaseId[j]

(* A lease runs out after its consumer died or, a fault, under a run that   *)
(* takes longer than its lease.                                             *)
Expire(j) ==
    /\ status[j] = "leased" /\ j \notin expired
    /\ expired' = expired \cup {j}
    /\ IF HasConsumer(j)
       THEN faults < MaxFaults /\ faults' = faults + 1
       ELSE UNCHANGED faults
    /\ UNCHANGED <<status, attempts, leaseId, due, hints, workerVars,
                   adminVars, reported>>

(* A cancellation that leaves lease_id in the row.                          *)
CancelKeepingLease(S) ==
    LET hit == {j \in S : status[j] \in Waiting \cup {"leased"}}
    IN  /\ hit # {}
        /\ status' = [j \in Job |-> IF j \in hit THEN "canceled" ELSE status[j]]
        /\ UNCHANGED <<attempts, leaseId, due, expired, hints, workerVars,
                       adminVars, reported, faults>>

(* One UPDATE cancels an owner's unfinished jobs, leased ones too; S is the *)
(* owner's jobs of the given types.                                         *)
CancelJobsForOwner(S) ==
    LET hit == {j \in S : status[j] \in Waiting \cup {"leased"}}
    IN  /\ hit # {}
        /\ status' = [j \in Job |-> IF j \in hit THEN "canceled" ELSE status[j]]
        /\ leaseId' = [j \in Job |-> IF j \in hit THEN NoLease ELSE leaseId[j]]
        /\ expired' = expired \ hit
        /\ UNCHANGED <<attempts, due, hints, workerVars, adminVars, reported,
                       faults>>

DeleteCompletedJobsBefore(j) ==
    /\ status[j] = "completed"
    /\ status' = [status EXCEPT ![j] = "absent"]
    /\ UNCHANGED <<attempts, leaseId, due, expired, hints, workerVars,
                   adminVars, reported, faults>>

ResetRow(j) ==
    /\ status' = [status EXCEPT ![j] = "pending"]
    /\ attempts' = [attempts EXCEPT ![j] = 0]
    /\ leaseId' = [leaseId EXCEPT ![j] = NoLease]
    /\ expired' = expired \ {j}
    /\ due' = due \cup {j}

(* POST /api/jobs/:id/requeue and the retry-* routes on an exhausted job.   *)
RequeueJob(j) ==
    /\ requeues < MaxRequeues
    /\ status[j] \in {"dead_letter", "failed_terminal", "failed_retryable", "canceled"}
    /\ ResetRow(j)
    /\ hints' = hints \cup {j}
    /\ requeues' = requeues + 1
    /\ UNCHANGED <<workerVars, sawDone, reported, faults>>

(* retry-transcription and retry-recap read the row first; when it was      *)
(* completed they reset it with an UPDATE that names only the id.           *)
SeeCompleted(j) ==
    /\ requeues < MaxRequeues
    /\ status[j] = "completed" /\ j \notin sawDone
    /\ sawDone' = sawDone \cup {j}
    /\ requeues' = requeues + 1
    /\ UNCHANGED <<rowVars, hints, workerVars, reported, faults>>

RequeueCompleted(j) ==
    /\ j \in sawDone
    /\ sawDone' = sawDone \ {j}
    /\ IF status[j] = "absent" THEN UNCHANGED rowVars ELSE ResetRow(j)
    /\ hints' = hints \cup {j}
    /\ UNCHANGED <<workerVars, requeues, reported, faults>>

----------------------------------------------------------------------------
(* Hints.                                                                   *)

(* A sweep that trusts the leases: it never looks at expired ones.          *)
DueJobsIgnoringLeases == {j \in Job : status[j] \in Waiting /\ j \in due}

DueJobs == {j \in Job : \/ status[j] \in Waiting /\ j \in due
                        \/ status[j] = "leased" /\ j \in expired}

(* The per-minute cron and every sweep_due_jobs message.  The query takes   *)
(* the oldest SweepLimit due rows; with time abstracted, any that many.     *)
SweepDueJobs ==
    /\ \E S \in SUBSET DueJobs :
        /\ Cardinality(S) <= SweepLimit
        /\ S # DueJobs => Cardinality(S) = SweepLimit
        /\ hints' = hints \cup S
    /\ UNCHANGED <<rowVars, workerVars, adminVars, reported, faults>>

(* A message is acked without work (not leasable) or lost for good (the     *)
(* dead-letter queue after max_retries).                                    *)
ConsumeHint(j) ==
    /\ j \in hints
    /\ hints' = hints \ {j}
    /\ UNCHANGED <<rowVars, workerVars, adminVars, reported, faults>>

----------------------------------------------------------------------------
(* runJob.                                                                  *)

FreshLease == LeaseId \ ({leaseId[j] : j \in Job} \cup {held[w] : w \in Worker})

(* leaseJob without the lease_expires_at condition.                         *)
LeasableEvenIfHeld(j) == j \in due /\ status[j] \in Waiting \cup {"leased"}

Leasable(j) ==
    /\ j \in due
    /\ status[j] \in Waiting \/ (status[j] = "leased" /\ j \in expired)

BumpAttempts(j) ==
    attempts' = [attempts EXCEPT ![j] = IF @ < AttemptCap THEN @ + 1 ELSE @]

(* A hint is delivered and leaseJob's conditional UPDATE takes the row; the *)
(* message stays in flight (a redelivery, a second hint) or is consumed.    *)
LeaseJob(w, j) ==
    /\ pc[w] = "idle" /\ j \in hints
    /\ Leasable(j)
    /\ \E l \in FreshLease :
        /\ leaseId' = [leaseId EXCEPT ![j] = l]
        /\ held' = [held EXCEPT ![w] = l]
    /\ status' = [status EXCEPT ![j] = "leased"]
    /\ expired' = expired \ {j}
    /\ BumpAttempts(j)
    /\ hints' \in {hints, hints \ {j}}
    /\ pc' = [pc EXCEPT ![w] = "handling"]
    /\ running' = [running EXCEPT ![w] = j]
    /\ UNCHANGED <<due, adminVars, reported, faults>>

(* The handler returns, throws, or throws a TerminalJobError.  It never     *)
(* looks at its lease again.                                                *)
Handle(w) ==
    /\ pc[w] = "handling"
    /\ \E s \in {"completing", "failing_retryable", "failing_terminal"} :
        pc' = [pc EXCEPT ![w] = s]
    /\ UNCHANGED <<rowVars, hints, running, held, adminVars, reported, faults>>

Rest(w) ==
    /\ pc' = [pc EXCEPT ![w] = "idle"]
    /\ running' = [running EXCEPT ![w] = NoJob]
    /\ held' = [held EXCEPT ![w] = NoLease]

Holds(w) == pc[w] # "idle" /\ leaseId[running[w]] = held[w]

(* UPDATE ... WHERE id = ? AND lease_id = ?: no row matches a lost lease.   *)
SettleRow(w, s) ==
    /\ status' = [status EXCEPT ![running[w]] = s]
    /\ leaseId' = [leaseId EXCEPT ![running[w]] = NoLease]
    /\ expired' = expired \ {running[w]}
    /\ due' = IF s = "failed_retryable" THEN due \ {running[w]} ELSE due
    /\ UNCHANGED attempts

(* completeJob and failJob's updates with WHERE id = ? alone.               *)
UnguardedSettle(w, s) == SettleRow(w, s)

GuardedSettle(w, s) ==
    IF Holds(w) THEN SettleRow(w, s) ELSE UNCHANGED rowVars

(* completeJob; runJob ignores whether it matched a row.                    *)
CompleteJob(w) ==
    /\ pc[w] = "completing"
    /\ GuardedSettle(w, "completed")
    /\ Rest(w)
    /\ UNCHANGED <<hints, adminVars, reported, faults>>

(* failJob gives up one attempt early.                                      *)
ExhaustedEarly(j) == attempts[j] >= MaxAttempts - 1

(* failJob gives up one attempt late.                                       *)
ExhaustedLate(j) == attempts[j] > MaxAttempts

Exhausted(j) == attempts[j] >= MaxAttempts

(* failJob's SELECT: a lost lease ends the run, otherwise the outcome is    *)
(* decided here and written by a later statement.                           *)
FailJobRead(w) ==
    /\ pc[w] \in {"failing_retryable", "failing_terminal"}
    /\ \/ ~Holds(w) /\ Rest(w)
       \/ /\ Holds(w)
          /\ pc' = [pc EXCEPT ![w] =
                      IF pc[w] = "failing_terminal" THEN "failed_terminal"
                      ELSE IF Exhausted(running[w]) THEN "dead_letter"
                      ELSE "retry_scheduled"]
          /\ UNCHANGED <<running, held>>
    /\ UNCHANGED <<rowVars, hints, adminVars, reported, faults>>

RowStatusOf(outcome) ==
    IF outcome = "retry_scheduled" THEN "failed_retryable" ELSE outcome

(* failJob's UPDATE, guarded by the lease; its row count is not looked at.  *)
FailJobWrite(w) ==
    /\ pc[w] \in Outcomes
    /\ GuardedSettle(w, RowStatusOf(pc[w]))
    /\ IF pc[w] = "retry_scheduled"
       THEN Rest(w)
       ELSE /\ pc' = [pc EXCEPT ![w] = "reporting"]
            /\ UNCHANGED <<running, held>>
    /\ UNCHANGED <<hints, adminVars, reported, faults>>

(* recordTerminalJobFailure: the audit event (and a failed occurrence).     *)
RecordTerminalJobFailure(w) ==
    /\ pc[w] = "reporting"
    /\ reported' = reported \cup {running[w]}
    /\ Rest(w)
    /\ UNCHANGED <<rowVars, hints, adminVars, faults>>

(* The consumer dies; its message is redelivered unless it was consumed.    *)
Crash(w) ==
    /\ pc[w] # "idle" /\ faults < MaxFaults
    /\ faults' = faults + 1
    /\ Rest(w)
    /\ UNCHANGED <<rowVars, hints, adminVars, reported>>

----------------------------------------------------------------------------
Admin(j)  == RequeueJob(j) \/ SeeCompleted(j) \/ RequeueCompleted(j)
Clock(j)  == BecomeDue(j) \/ Expire(j)
Step(w)   == \/ Handle(w) \/ CompleteJob(w) \/ FailJobRead(w)
             \/ FailJobWrite(w) \/ RecordTerminalJobFailure(w)

Next ==
    \/ \E j \in Job : CreateJob(j)
    \/ \E j \in Job : Clock(j)
    \/ \E j \in Job : Admin(j)
    \/ \E j \in Job : DeleteCompletedJobsBefore(j)
    \/ \E j \in Job : ConsumeHint(j)
    \/ \E S \in SUBSET Job : CancelJobsForOwner(S)
    \/ SweepDueJobs
    \/ \E w \in Worker, j \in Job : LeaseJob(w, j)
    \/ \E w \in Worker : Step(w)
    \/ \E w \in Worker : Crash(w)

Spec == Init /\ [][Next]_vars

(* The cron fires every minute, time passes, the queue delivers a message   *)
(* that is sent again and again, and a consumer that has not crashed runs.  *)
Fairness ==
    /\ WF_vars(SweepDueJobs)
    /\ \A j \in Job : WF_vars(Clock(j))
    /\ \A j \in Job : SF_vars(\E w \in Worker : LeaseJob(w, j))
    /\ \A w \in Worker : WF_vars(Step(w))

FairSpec == Spec /\ Fairness

----------------------------------------------------------------------------
(* Properties.                                                              *)

(* A row has a lease id exactly while it is leased, an unfinished run has   *)
(* one, and no two runs share one (leaseJob, jobQueries.ts:86).             *)
LeaseInv ==
    /\ \A j \in Job : (leaseId[j] # NoLease) <=> (status[j] = "leased")
    /\ \A w \in Worker : pc[w] # "idle" => running[w] \in Job /\ held[w] \in LeaseId
    /\ \A w \in Worker : pc[w] = "idle" => running[w] = NoJob /\ held[w] = NoLease
    /\ \A v, w \in Worker : v # w /\ held[v] = held[w] => held[v] = NoLease
    /\ \A i, j \in Job : i # j /\ leaseId[i] = leaseId[j] => leaseId[i] = NoLease
    /\ \A j \in Job, w \in Worker :
          leaseId[j] = held[w] /\ pc[w] # "idle" => running[w] = j

(* A run whose lease has not expired keeps the row until it writes its own  *)
(* result: only a cancellation or an admin reset takes it away, never       *)
(* another consumer, a second hint or the sweeper (jobQueries.ts:79-85).    *)
LiveLeaseKeptStep ==
    \A w \in Worker :
       pc[w] # "idle" /\ Holds(w) /\ running[w] \notin expired /\ pc'[w] = pc[w]
         => \/ leaseId'[running[w]] = held[w]
            \/ status'[running[w]] \in {"canceled", "pending"}

LiveLeaseKept == [][LiveLeaseKeptStep]_vars

(* A finished row is final for consumers: a late run, whose lease expired   *)
(* or was canceled, never moves it.  Only an admin reset (attempts zero) or *)
(* the retention of completed rows does (jobQueries.ts:115, 207-211).       *)
FinishedRowsStayStep ==
    \A j \in Job : status[j] \in Finished /\ status'[j] # status[j]
       => \/ status'[j] = "pending" /\ attempts'[j] = 0
          \/ status[j] = "completed" /\ status'[j] = "absent"

FinishedRowsStay == [][FinishedRowsStayStep]_vars

(* Whatever ends a leased row's run was decided by the consumer that holds  *)
(* the row's current lease, and is what that consumer decided: two runs of  *)
(* one job never mix their results (jobQueries.ts:116-158).                 *)
SettledByHolderStep ==
    \A j \in Job :
       status[j] = "leased" /\ status'[j] \notin {"leased", "canceled", "pending"}
         => \E w \in Worker :
              /\ running[w] = j /\ held[w] = leaseId[j]
              /\ status'[j] = IF pc[w] = "completing" THEN "completed"
                              ELSE RowStatusOf(pc[w])

SettledByHolder == [][SettledByHolderStep]_vars

(* The retry budget decides between backing off and the dead letter, even   *)
(* though failJob reads attempts and writes the outcome in two statements   *)
(* (jobQueries.ts:134-157).                                                 *)
VerdictsMatchAttempts ==
    \A j \in Job : /\ status[j] = "dead_letter" => attempts[j] >= MaxAttempts
                   /\ status[j] = "failed_retryable" => attempts[j] < MaxAttempts

(* The inductive invariant: an outcome failJob has read but not written is  *)
(* still right as long as the consumer holds the lease.                     *)
PendingVerdicts ==
    \A w \in Worker : Holds(w) =>
        /\ pc[w] = "dead_letter" => attempts[running[w]] >= MaxAttempts
        /\ pc[w] = "retry_scheduled" => attempts[running[w]] < MaxAttempts

(* Where the faults went: a leased row whose consumer is gone, or whose     *)
(* lease ran out under it, has one attempt to spare, since its loss was     *)
(* counted; a run that is only reporting has given its lease back.          *)
BudgetInv ==
    /\ \A j \in Job :
          /\ attempts[j] <= MaxAttempts + faults
          /\ status[j] = "pending" => attempts[j] = 0
          /\ status[j] = "leased" /\ (j \in expired \/ ~HasConsumer(j))
               => attempts[j] + 1 <= MaxAttempts + faults
    /\ \A w \in Worker : pc[w] = "reporting" => ~Holds(w)

IInv == TypeOK /\ LeaseInv /\ PendingVerdicts /\ VerdictsMatchAttempts /\ BudgetInv

(* Lost hints, repeated hints, retries, expired leases and crashed          *)
(* consumers delay a job but never strand it (queueConsumers.ts:14-18,      *)
(* jobRunner.ts:38-42).                                                     *)
EveryJobSettles ==
    \A j \in Job : status[j] \in Waiting \cup {"leased"}
                     ~> status[j] \in Finished \cup {"absent"}

(* A job runs past its budget only through leases that no consumer settled, *)
(* each at the price of a crash or of a run that outlived its lease:        *)
(* leaseJob counts attempts and never compares them (jobQueries.ts:86-113). *)
AttemptsNeedFaults == \A j \in Job : attempts[j] <= MaxAttempts + faults

----------------------------------------------------------------------------
(* Jobs implements the fenced lease: the abstract token is lease_id and the *)
(* claims are the leases consumers carry.                                   *)
PhaseOf(s) ==
    CASE s = "absent" -> "none"
      [] s \in Waiting -> "open"
      [] s = "leased" -> "held"
      [] OTHER -> "closed"

Phases == [j \in Job |-> PhaseOf(status[j])]
ClaimOf(w) == <<running[w], held[w]>>
Claims == {ClaimOf(w) : w \in {v \in Worker : pc[v] # "idle"}}

Fenced == INSTANCE FencedLease WITH
            Task <- Job, Token <- LeaseId, NoToken <- NoLease,
            phase <- Phases, token <- leaseId, claims <- Claims

(* Every behaviour of the job table is one the fenced lease allows.         *)
ImplementsFencedLease == Fenced!FSpec
============================================================================
