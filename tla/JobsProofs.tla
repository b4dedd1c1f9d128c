---------------------------- MODULE JobsProofs ----------------------------
(***************************************************************************)
(* Theorems about the job table for every set of jobs, consumers and lease *)
(* ids and every bound.                                                    *)
(***************************************************************************)
EXTENDS Jobs, TLAPS

USE JobsAssumption

(* Every action keeps the columns, the queue and the consumers well typed,  *)
(* given that a consumer at work has a job (LeaseInv).                      *)
LEMMA TypeStep == TypeOK /\ LeaseInv /\ [Next]_vars => TypeOK'
<1> SUFFICES ASSUME TypeOK, LeaseInv, [Next]_vars PROVE TypeOK'
  OBVIOUS
<1> USE DEF TypeOK, rowVars, workerVars, adminVars
<1>1. ASSUME NEW j \in Job, CreateJob(j) PROVE TypeOK'
  BY <1>1 DEF CreateJob, Statuses
<1>2. ASSUME NEW j \in Job, BecomeDue(j) PROVE TypeOK'
  BY <1>2 DEF BecomeDue
<1>3. ASSUME NEW j \in Job, Expire(j) PROVE TypeOK'
  BY <1>3 DEF Expire
<1>4. ASSUME NEW j \in Job, RequeueJob(j) PROVE TypeOK'
  BY <1>4 DEF RequeueJob, ResetRow, Statuses
<1>5. ASSUME NEW j \in Job, SeeCompleted(j) PROVE TypeOK'
  BY <1>5 DEF SeeCompleted
<1>6. ASSUME NEW j \in Job, RequeueCompleted(j) PROVE TypeOK'
  BY <1>6 DEF RequeueCompleted, ResetRow, Statuses
<1>7. ASSUME NEW j \in Job, DeleteCompletedJobsBefore(j) PROVE TypeOK'
  BY <1>7 DEF DeleteCompletedJobsBefore, Statuses
<1>8. ASSUME NEW j \in Job, ConsumeHint(j) PROVE TypeOK'
  BY <1>8 DEF ConsumeHint
<1>9. ASSUME NEW S \in SUBSET Job, CancelJobsForOwner(S) PROVE TypeOK'
  BY <1>9 DEF CancelJobsForOwner, Statuses
<1>10. CASE SweepDueJobs
  BY <1>10 DEF SweepDueJobs, DueJobs
<1>11. ASSUME NEW w \in Worker, NEW j \in Job, LeaseJob(w, j) PROVE TypeOK'
  <2>1. attempts' \in [Job -> 0..AttemptCap]
    BY <1>11 DEF LeaseJob, BumpAttempts
  <2>2. PICK l \in FreshLease : /\ leaseId' = [leaseId EXCEPT ![j] = l]
                                /\ held' = [held EXCEPT ![w] = l]
    BY <1>11 DEF LeaseJob
  <2>3. l \in LeaseId
    BY DEF FreshLease
  <2>4. QED
    BY <1>11, <2>1, <2>2, <2>3 DEF LeaseJob, Statuses, Stages
<1>12. ASSUME NEW w \in Worker, Handle(w) PROVE TypeOK'
  BY <1>12 DEF Handle, Stages
<1>13. ASSUME NEW w \in Worker, CompleteJob(w) PROVE TypeOK'
  <2>1. running[w] \in Job
    BY <1>13 DEF CompleteJob, LeaseInv
  <2>2. QED
    BY <1>13, <2>1 DEF CompleteJob, GuardedSettle, SettleRow, Rest, Statuses, Stages
<1>14. ASSUME NEW w \in Worker, FailJobRead(w) PROVE TypeOK'
  BY <1>14 DEF FailJobRead, Rest, Stages, Outcomes
<1>15. ASSUME NEW w \in Worker, FailJobWrite(w) PROVE TypeOK'
  <2>1. running[w] \in Job
    BY <1>15 DEF FailJobWrite, Outcomes, LeaseInv
  <2>2. RowStatusOf(pc[w]) \in Statuses
    BY <1>15 DEF FailJobWrite, Outcomes, RowStatusOf, Statuses
  <2>3. QED
    BY <1>15, <2>1, <2>2 DEF FailJobWrite, GuardedSettle, SettleRow, Rest, Stages
<1>16. ASSUME NEW w \in Worker, RecordTerminalJobFailure(w) PROVE TypeOK'
  <2>1. running[w] \in Job
    BY <1>16 DEF RecordTerminalJobFailure, LeaseInv
  <2>2. QED
    BY <1>16, <2>1 DEF RecordTerminalJobFailure, Rest, Stages
<1>17. ASSUME NEW w \in Worker, Crash(w) PROVE TypeOK'
  BY <1>17 DEF Crash, Rest, Stages
<1>18. CASE UNCHANGED vars
  BY <1>18 DEF vars
<1>19. QED
  BY <1>1, <1>2, <1>3, <1>4, <1>5, <1>6, <1>7, <1>8, <1>9, <1>10, <1>11, <1>12,
     <1>13, <1>14, <1>15, <1>16, <1>17, <1>18 DEF Next, Clock, Admin, Step

(* Leases stay exclusive: the ids are fresh when granted and cleared from   *)
(* the row whenever it stops being leased.                                  *)
LEMMA LeaseStep == TypeOK /\ LeaseInv /\ [Next]_vars => LeaseInv'
<1> SUFFICES ASSUME TypeOK, LeaseInv, [Next]_vars PROVE LeaseInv'
  OBVIOUS
<1> USE DEF TypeOK, LeaseInv, rowVars, workerVars, adminVars, Statuses, Waiting
<1>1. ASSUME NEW j \in Job, CreateJob(j) PROVE LeaseInv'
  BY <1>1 DEF CreateJob
<1>2. ASSUME NEW j \in Job, BecomeDue(j) PROVE LeaseInv'
  BY <1>2 DEF BecomeDue
<1>3. ASSUME NEW j \in Job, Expire(j) PROVE LeaseInv'
  BY <1>3 DEF Expire
<1>4. ASSUME NEW j \in Job, RequeueJob(j) PROVE LeaseInv'
  BY <1>4 DEF RequeueJob, ResetRow
<1>5. ASSUME NEW j \in Job, SeeCompleted(j) PROVE LeaseInv'
  BY <1>5 DEF SeeCompleted
<1>6. ASSUME NEW j \in Job, RequeueCompleted(j) PROVE LeaseInv'
  BY <1>6 DEF RequeueCompleted, ResetRow
<1>7. ASSUME NEW j \in Job, DeleteCompletedJobsBefore(j) PROVE LeaseInv'
  BY <1>7 DEF DeleteCompletedJobsBefore
<1>8. ASSUME NEW j \in Job, ConsumeHint(j) PROVE LeaseInv'
  BY <1>8 DEF ConsumeHint
<1>9. ASSUME NEW S \in SUBSET Job, CancelJobsForOwner(S) PROVE LeaseInv'
  BY <1>9 DEF CancelJobsForOwner
<1>10. CASE SweepDueJobs
  BY <1>10 DEF SweepDueJobs
<1>11. ASSUME NEW w \in Worker, NEW j \in Job, LeaseJob(w, j) PROVE LeaseInv'
  <2>1. PICK l \in FreshLease : /\ leaseId' = [leaseId EXCEPT ![j] = l]
                                /\ held' = [held EXCEPT ![w] = l]
    BY <1>11 DEF LeaseJob
  <2>2. /\ l \in LeaseId /\ l # NoLease
        /\ \A i \in Job : leaseId[i] # l
        /\ \A v \in Worker : held[v] # l
    BY DEF FreshLease
  <2>3. /\ status' = [status EXCEPT ![j] = "leased"]
        /\ pc' = [pc EXCEPT ![w] = "handling"]
        /\ running' = [running EXCEPT ![w] = j]
        /\ pc[w] = "idle"
    BY <1>11 DEF LeaseJob
  <2>4. QED
    BY <2>1, <2>2, <2>3
<1>12. ASSUME NEW w \in Worker, Handle(w) PROVE LeaseInv'
  BY <1>12 DEF Handle
<1>13. ASSUME NEW w \in Worker, CompleteJob(w) PROVE LeaseInv'
  BY <1>13 DEF CompleteJob, GuardedSettle, SettleRow, Holds, Rest
<1>14. ASSUME NEW w \in Worker, FailJobRead(w) PROVE LeaseInv'
  BY <1>14 DEF FailJobRead, Holds, Rest, Outcomes
<1>15. ASSUME NEW w \in Worker, FailJobWrite(w) PROVE LeaseInv'
  BY <1>15 DEF FailJobWrite, GuardedSettle, SettleRow, Holds, RowStatusOf, Rest, Outcomes
<1>16. ASSUME NEW w \in Worker, RecordTerminalJobFailure(w) PROVE LeaseInv'
  BY <1>16 DEF RecordTerminalJobFailure, Rest
<1>17. ASSUME NEW w \in Worker, Crash(w) PROVE LeaseInv'
  BY <1>17 DEF Crash, Rest
<1>18. CASE UNCHANGED vars
  BY <1>18 DEF vars
<1>19. QED
  BY <1>1, <1>2, <1>3, <1>4, <1>5, <1>6, <1>7, <1>8, <1>9, <1>10, <1>11, <1>12, <1>13, <1>14, <1>15, <1>16, <1>17, <1>18 DEF Next, Clock, Admin, Step

(* A verdict read by failJob stays right until it is written: attempts only *)
(* changes when the lease does.                                             *)
LEMMA VerdictStep ==
  TypeOK /\ LeaseInv /\ PendingVerdicts /\ VerdictsMatchAttempts /\ [Next]_vars
    => PendingVerdicts' /\ VerdictsMatchAttempts'
<1> SUFFICES ASSUME TypeOK, LeaseInv, PendingVerdicts, VerdictsMatchAttempts,
                    [Next]_vars
             PROVE PendingVerdicts' /\ VerdictsMatchAttempts'
  OBVIOUS
<1> USE DEF TypeOK, LeaseInv, PendingVerdicts, VerdictsMatchAttempts, Holds,
            rowVars, workerVars, adminVars, Waiting
<1>1. ASSUME NEW j \in Job, CreateJob(j) PROVE PendingVerdicts' /\ VerdictsMatchAttempts'
  BY <1>1 DEF CreateJob
<1>2. ASSUME NEW j \in Job, BecomeDue(j) PROVE PendingVerdicts' /\ VerdictsMatchAttempts'
  BY <1>2 DEF BecomeDue
<1>3. ASSUME NEW j \in Job, Expire(j) PROVE PendingVerdicts' /\ VerdictsMatchAttempts'
  BY <1>3 DEF Expire
<1>4. ASSUME NEW j \in Job, RequeueJob(j) PROVE PendingVerdicts' /\ VerdictsMatchAttempts'
  BY <1>4 DEF RequeueJob, ResetRow
<1>5. ASSUME NEW j \in Job, SeeCompleted(j) PROVE PendingVerdicts' /\ VerdictsMatchAttempts'
  BY <1>5 DEF SeeCompleted
<1>6. ASSUME NEW j \in Job, RequeueCompleted(j) PROVE PendingVerdicts' /\ VerdictsMatchAttempts'
  BY <1>6 DEF RequeueCompleted, ResetRow
<1>7. ASSUME NEW j \in Job, DeleteCompletedJobsBefore(j) PROVE PendingVerdicts' /\ VerdictsMatchAttempts'
  BY <1>7 DEF DeleteCompletedJobsBefore
<1>8. ASSUME NEW j \in Job, ConsumeHint(j) PROVE PendingVerdicts' /\ VerdictsMatchAttempts'
  BY <1>8 DEF ConsumeHint
<1>9. ASSUME NEW S \in SUBSET Job, CancelJobsForOwner(S) PROVE PendingVerdicts' /\ VerdictsMatchAttempts'
  BY <1>9 DEF CancelJobsForOwner
<1>10. CASE SweepDueJobs
  BY <1>10 DEF SweepDueJobs
<1>11. ASSUME NEW w \in Worker, NEW j \in Job, LeaseJob(w, j) PROVE PendingVerdicts' /\ VerdictsMatchAttempts'
  <2>1. PICK l \in FreshLease : /\ leaseId' = [leaseId EXCEPT ![j] = l]
                                /\ held' = [held EXCEPT ![w] = l]
    BY <1>11 DEF LeaseJob
  <2>2. /\ l \in LeaseId /\ l # NoLease
        /\ \A i \in Job : leaseId[i] # l
        /\ \A v \in Worker : held[v] # l
    BY DEF FreshLease
  <2>3. /\ status' = [status EXCEPT ![j] = "leased"]
        /\ pc' = [pc EXCEPT ![w] = "handling"]
        /\ running' = [running EXCEPT ![w] = j]
        /\ \A i \in Job : i # j => attempts'[i] = attempts[i]
    BY <1>11 DEF LeaseJob, BumpAttempts
  <2>4. QED
    BY <2>1, <2>2, <2>3
<1>12. ASSUME NEW w \in Worker, Handle(w) PROVE PendingVerdicts' /\ VerdictsMatchAttempts'
  BY <1>12 DEF Handle
<1>13. ASSUME NEW w \in Worker, CompleteJob(w) PROVE PendingVerdicts' /\ VerdictsMatchAttempts'
  BY <1>13 DEF CompleteJob, GuardedSettle, SettleRow, Rest
<1>14. ASSUME NEW w \in Worker, FailJobRead(w) PROVE PendingVerdicts' /\ VerdictsMatchAttempts'
  BY <1>14 DEF FailJobRead, Exhausted, Rest, Outcomes
<1>15. ASSUME NEW w \in Worker, FailJobWrite(w) PROVE PendingVerdicts' /\ VerdictsMatchAttempts'
  BY <1>15 DEF FailJobWrite, GuardedSettle, SettleRow, RowStatusOf, Rest, Outcomes
<1>16. ASSUME NEW w \in Worker, RecordTerminalJobFailure(w) PROVE PendingVerdicts' /\ VerdictsMatchAttempts'
  BY <1>16 DEF RecordTerminalJobFailure, Rest
<1>17. ASSUME NEW w \in Worker, Crash(w) PROVE PendingVerdicts' /\ VerdictsMatchAttempts'
  BY <1>17 DEF Crash, Rest
<1>18. CASE UNCHANGED vars
  BY <1>18 DEF vars
<1>19. QED
  BY <1>1, <1>2, <1>3, <1>4, <1>5, <1>6, <1>7, <1>8, <1>9, <1>10, <1>11, <1>12, <1>13, <1>14, <1>15, <1>16, <1>17, <1>18 DEF Next, Clock, Admin, Step

(* What a run past the budget costs: attempts grow only when a lease is     *)
(* taken, and a lease is taken from a waiting row, which has an attempt to  *)
(* spare, or from a row whose run was lost, and the loss was counted.       *)
LEMMA BudgetStep ==
  TypeOK /\ LeaseInv /\ VerdictsMatchAttempts /\ BudgetInv /\ [Next]_vars => BudgetInv'
<1> SUFFICES ASSUME TypeOK, LeaseInv, VerdictsMatchAttempts, BudgetInv, [Next]_vars
             PROVE BudgetInv'
  OBVIOUS
<1> USE DEF TypeOK, LeaseInv, BudgetInv, Holds, HasConsumer, rowVars, workerVars,
            adminVars, Waiting
<1>1. ASSUME NEW j \in Job, CreateJob(j) PROVE BudgetInv'
  BY <1>1 DEF CreateJob
<1>2. ASSUME NEW j \in Job, BecomeDue(j) PROVE BudgetInv'
  BY <1>2 DEF BecomeDue
<1>3. ASSUME NEW j \in Job, Expire(j) PROVE BudgetInv'
  <2>1. CASE HasConsumer(j)
    BY <1>3, <2>1 DEF Expire
  <2>2. CASE ~HasConsumer(j)
    BY <1>3, <2>2 DEF Expire
  <2>3. QED
    BY <2>1, <2>2
<1>4. ASSUME NEW j \in Job, RequeueJob(j) PROVE BudgetInv'
  BY <1>4 DEF RequeueJob, ResetRow
<1>5. ASSUME NEW j \in Job, SeeCompleted(j) PROVE BudgetInv'
  BY <1>5 DEF SeeCompleted
<1>6. ASSUME NEW j \in Job, RequeueCompleted(j) PROVE BudgetInv'
  BY <1>6 DEF RequeueCompleted, ResetRow
<1>7. ASSUME NEW j \in Job, DeleteCompletedJobsBefore(j) PROVE BudgetInv'
  BY <1>7 DEF DeleteCompletedJobsBefore
<1>8. ASSUME NEW j \in Job, ConsumeHint(j) PROVE BudgetInv'
  BY <1>8 DEF ConsumeHint
<1>9. ASSUME NEW S \in SUBSET Job, CancelJobsForOwner(S) PROVE BudgetInv'
  BY <1>9 DEF CancelJobsForOwner
<1>10. CASE SweepDueJobs
  BY <1>10 DEF SweepDueJobs
<1>11. ASSUME NEW w \in Worker, NEW j \in Job, LeaseJob(w, j) PROVE BudgetInv'
  <2>1. PICK l \in FreshLease : /\ leaseId' = [leaseId EXCEPT ![j] = l]
                                /\ held' = [held EXCEPT ![w] = l]
    BY <1>11 DEF LeaseJob
  <2>2. /\ l \in LeaseId /\ l # NoLease
        /\ \A i \in Job : leaseId[i] # l
        /\ \A v \in Worker : held[v] # l
    BY DEF FreshLease
  <2>3. /\ status' = [status EXCEPT ![j] = "leased"]
        /\ pc' = [pc EXCEPT ![w] = "handling"] /\ pc[w] = "idle"
        /\ running' = [running EXCEPT ![w] = j]
        /\ expired' = expired \ {j} /\ faults' = faults
        /\ \A i \in Job : i # j => attempts'[i] = attempts[i]
        /\ attempts'[j] <= attempts[j] + 1
    BY <1>11 DEF LeaseJob, BumpAttempts
  <2>4. attempts[j] + 1 <= MaxAttempts + faults
    <3>1. CASE status[j] = "pending"
      BY <3>1
    <3>2. CASE status[j] = "failed_retryable"
      BY <3>2 DEF VerdictsMatchAttempts
    <3>3. CASE status[j] = "leased" /\ j \in expired
      BY <3>3
    <3>4. QED
      BY <1>11, <3>1, <3>2, <3>3 DEF LeaseJob, Leasable
  <2>5. HasConsumer(j)'
    BY <2>1, <2>3
  <2>6. attempts'[j] \in Nat /\ attempts'[j] <= MaxAttempts + faults'
    BY <1>11, <2>3, <2>4 DEF LeaseJob, BumpAttempts
  <2>7. \A i \in Job : i # j => HasConsumer(i)' = HasConsumer(i)
    BY <2>1, <2>2, <2>3
  <2>8. \A i \in Job :
          /\ attempts'[i] <= MaxAttempts + faults'
          /\ status'[i] = "pending" => attempts'[i] = 0
          /\ status'[i] = "leased" /\ (i \in expired' \/ ~HasConsumer(i)')
               => attempts'[i] + 1 <= MaxAttempts + faults'
    <3> SUFFICES ASSUME NEW i \in Job, i # j
                 PROVE  /\ attempts'[i] <= MaxAttempts + faults'
                        /\ status'[i] = "pending" => attempts'[i] = 0
                        /\ status'[i] = "leased" /\ (i \in expired' \/ ~HasConsumer(i)')
                             => attempts'[i] + 1 <= MaxAttempts + faults'
      BY <2>3, <2>5, <2>6
    <3>1. QED
      BY <2>3, <2>7
  <2>9. \A v \in Worker : pc'[v] = "reporting" => ~Holds(v)'
    BY <2>1, <2>2, <2>3
  <2>10. QED
    BY <2>8, <2>9
<1>12. ASSUME NEW w \in Worker, Handle(w) PROVE BudgetInv'
  BY <1>12 DEF Handle
<1>13. ASSUME NEW w \in Worker, CompleteJob(w) PROVE BudgetInv'
  BY <1>13 DEF CompleteJob, GuardedSettle, SettleRow, Rest
<1>14. ASSUME NEW w \in Worker, FailJobRead(w) PROVE BudgetInv'
  BY <1>14 DEF FailJobRead, Exhausted, Rest, Outcomes
<1>15. ASSUME NEW w \in Worker, FailJobWrite(w) PROVE BudgetInv'
  BY <1>15 DEF FailJobWrite, GuardedSettle, SettleRow, RowStatusOf, Rest, Outcomes
<1>16. ASSUME NEW w \in Worker, RecordTerminalJobFailure(w) PROVE BudgetInv'
  BY <1>16 DEF RecordTerminalJobFailure, Rest
<1>17. ASSUME NEW w \in Worker, Crash(w) PROVE BudgetInv'
  BY <1>17 DEF Crash, Rest
<1>18. CASE UNCHANGED vars
  BY <1>18 DEF vars
<1>19. QED
  BY <1>1, <1>2, <1>3, <1>4, <1>5, <1>6, <1>7, <1>8, <1>9, <1>10, <1>11, <1>12, <1>13, <1>14, <1>15, <1>16, <1>17, <1>18 DEF Next, Clock, Admin, Step

(* The inductive invariant holds in every behaviour.                        *)
THEOREM Invariant == Spec => []IInv
<1>1. Init => IInv
  BY DEF Init, IInv, TypeOK, LeaseInv, PendingVerdicts, VerdictsMatchAttempts,
         BudgetInv, Holds, Statuses, Stages
<1>2. IInv /\ [Next]_vars => IInv'
  BY TypeStep, LeaseStep, VerdictStep, BudgetStep DEF IInv
<1>3. QED
  BY <1>1, <1>2, PTL DEF Spec

(* The retry budget is what decides between a retry and the dead letter.    *)
THEOREM VerdictsCorrect == Spec => []VerdictsMatchAttempts
<1>1. IInv => VerdictsMatchAttempts
  BY DEF IInv
<1>2. QED
  BY <1>1, Invariant, PTL

(* A job runs past its retry budget only at the price of a crash or of a    *)
(* run that outlived its lease, one each.                                   *)
THEOREM AttemptsNeedFaultsHolds == Spec => []AttemptsNeedFaults
<1>1. IInv => AttemptsNeedFaults
  BY DEF IInv, BudgetInv, AttemptsNeedFaults
<1>2. QED
  BY <1>1, Invariant, PTL

(* No consumer, hint or sweep takes a job from a run whose lease is live.   *)
THEOREM LiveLeaseKeptHolds == Spec => LiveLeaseKept
<1>1. IInv /\ [Next]_vars => LiveLeaseKeptStep
  <2> SUFFICES ASSUME TypeOK, LeaseInv, [Next]_vars PROVE LiveLeaseKeptStep
    BY DEF IInv
  <2> USE DEF TypeOK, LeaseInv, Holds, Waiting, rowVars, workerVars, adminVars,
              LiveLeaseKeptStep
  <2>1. ASSUME NEW j \in Job, CreateJob(j) PROVE LiveLeaseKeptStep
    BY <2>1 DEF CreateJob
  <2>2. ASSUME NEW j \in Job, BecomeDue(j) PROVE LiveLeaseKeptStep
    BY <2>2 DEF BecomeDue
  <2>3. ASSUME NEW j \in Job, Expire(j) PROVE LiveLeaseKeptStep
    BY <2>3 DEF Expire
  <2>4. ASSUME NEW j \in Job, RequeueJob(j) PROVE LiveLeaseKeptStep
    BY <2>4 DEF RequeueJob, ResetRow
  <2>5. ASSUME NEW j \in Job, SeeCompleted(j) PROVE LiveLeaseKeptStep
    BY <2>5 DEF SeeCompleted
  <2>6. ASSUME NEW j \in Job, RequeueCompleted(j) PROVE LiveLeaseKeptStep
    BY <2>6 DEF RequeueCompleted, ResetRow
  <2>7. ASSUME NEW j \in Job, DeleteCompletedJobsBefore(j) PROVE LiveLeaseKeptStep
    BY <2>7 DEF DeleteCompletedJobsBefore
  <2>8. ASSUME NEW j \in Job, ConsumeHint(j) PROVE LiveLeaseKeptStep
    BY <2>8 DEF ConsumeHint
  <2>9. ASSUME NEW S \in SUBSET Job, CancelJobsForOwner(S) PROVE LiveLeaseKeptStep
    BY <2>9 DEF CancelJobsForOwner
  <2>10. CASE SweepDueJobs
    BY <2>10 DEF SweepDueJobs
  <2>11. ASSUME NEW w \in Worker, NEW j \in Job, LeaseJob(w, j) PROVE LiveLeaseKeptStep
    BY <2>11 DEF LeaseJob, Leasable
  <2>12. ASSUME NEW w \in Worker, Handle(w) PROVE LiveLeaseKeptStep
    BY <2>12 DEF Handle
  <2>13. ASSUME NEW w \in Worker, CompleteJob(w) PROVE LiveLeaseKeptStep
    BY <2>13 DEF CompleteJob, GuardedSettle, SettleRow, Rest
  <2>14. ASSUME NEW w \in Worker, FailJobRead(w) PROVE LiveLeaseKeptStep
    BY <2>14 DEF FailJobRead, Rest
  <2>15. ASSUME NEW w \in Worker, FailJobWrite(w) PROVE LiveLeaseKeptStep
    BY <2>15 DEF FailJobWrite, GuardedSettle, SettleRow, RowStatusOf, Rest, Outcomes
  <2>16. ASSUME NEW w \in Worker, RecordTerminalJobFailure(w) PROVE LiveLeaseKeptStep
    BY <2>16 DEF RecordTerminalJobFailure, Rest
  <2>17. ASSUME NEW w \in Worker, Crash(w) PROVE LiveLeaseKeptStep
    BY <2>17 DEF Crash, Rest
  <2>18. CASE UNCHANGED vars
    BY <2>18 DEF vars
  <2>19. QED
    BY <2>1, <2>2, <2>3, <2>4, <2>5, <2>6, <2>7, <2>8, <2>9, <2>10, <2>11, <2>12, <2>13, <2>14, <2>15, <2>16, <2>17, <2>18 DEF Next, Clock, Admin, Step
<1>2. QED
  BY <1>1, Invariant, PTL DEF LiveLeaseKept, LiveLeaseKeptStep, Spec

(* No late run moves a completed, failed, dead-lettered or canceled row.    *)
THEOREM FinishedRowsStayHolds == Spec => FinishedRowsStay
<1>1. IInv /\ [Next]_vars => FinishedRowsStayStep
  <2> SUFFICES ASSUME TypeOK, LeaseInv, [Next]_vars PROVE FinishedRowsStayStep
    BY DEF IInv
  <2> USE DEF TypeOK, LeaseInv, Holds, Waiting, Finished, rowVars, workerVars,
              adminVars, FinishedRowsStayStep
  <2>1. ASSUME NEW j \in Job, CreateJob(j) PROVE FinishedRowsStayStep
    BY <2>1 DEF CreateJob
  <2>2. ASSUME NEW j \in Job, BecomeDue(j) PROVE FinishedRowsStayStep
    BY <2>2 DEF BecomeDue
  <2>3. ASSUME NEW j \in Job, Expire(j) PROVE FinishedRowsStayStep
    BY <2>3 DEF Expire
  <2>4. ASSUME NEW j \in Job, RequeueJob(j) PROVE FinishedRowsStayStep
    BY <2>4 DEF RequeueJob, ResetRow
  <2>5. ASSUME NEW j \in Job, SeeCompleted(j) PROVE FinishedRowsStayStep
    BY <2>5 DEF SeeCompleted
  <2>6. ASSUME NEW j \in Job, RequeueCompleted(j) PROVE FinishedRowsStayStep
    BY <2>6 DEF RequeueCompleted, ResetRow
  <2>7. ASSUME NEW j \in Job, DeleteCompletedJobsBefore(j) PROVE FinishedRowsStayStep
    BY <2>7 DEF DeleteCompletedJobsBefore
  <2>8. ASSUME NEW j \in Job, ConsumeHint(j) PROVE FinishedRowsStayStep
    BY <2>8 DEF ConsumeHint
  <2>9. ASSUME NEW S \in SUBSET Job, CancelJobsForOwner(S) PROVE FinishedRowsStayStep
    BY <2>9 DEF CancelJobsForOwner
  <2>10. CASE SweepDueJobs
    BY <2>10 DEF SweepDueJobs
  <2>11. ASSUME NEW w \in Worker, NEW j \in Job, LeaseJob(w, j) PROVE FinishedRowsStayStep
    BY <2>11 DEF LeaseJob, Leasable
  <2>12. ASSUME NEW w \in Worker, Handle(w) PROVE FinishedRowsStayStep
    BY <2>12 DEF Handle
  <2>13. ASSUME NEW w \in Worker, CompleteJob(w) PROVE FinishedRowsStayStep
    BY <2>13 DEF CompleteJob, GuardedSettle, SettleRow, Rest
  <2>14. ASSUME NEW w \in Worker, FailJobRead(w) PROVE FinishedRowsStayStep
    BY <2>14 DEF FailJobRead, Rest
  <2>15. ASSUME NEW w \in Worker, FailJobWrite(w) PROVE FinishedRowsStayStep
    BY <2>15 DEF FailJobWrite, GuardedSettle, SettleRow, RowStatusOf, Rest, Outcomes
  <2>16. ASSUME NEW w \in Worker, RecordTerminalJobFailure(w) PROVE FinishedRowsStayStep
    BY <2>16 DEF RecordTerminalJobFailure, Rest
  <2>17. ASSUME NEW w \in Worker, Crash(w) PROVE FinishedRowsStayStep
    BY <2>17 DEF Crash, Rest
  <2>18. CASE UNCHANGED vars
    BY <2>18 DEF vars
  <2>19. QED
    BY <2>1, <2>2, <2>3, <2>4, <2>5, <2>6, <2>7, <2>8, <2>9, <2>10, <2>11, <2>12, <2>13, <2>14, <2>15, <2>16, <2>17, <2>18 DEF Next, Clock, Admin, Step
<1>2. QED
  BY <1>1, Invariant, PTL DEF FinishedRowsStay, FinishedRowsStayStep, Spec

(* The holder of the row's lease, and nobody else, ends its run, with the   *)
(* outcome it decided.                                                      *)
THEOREM SettledByHolderHolds == Spec => SettledByHolder
<1>1. IInv /\ [Next]_vars => SettledByHolderStep
  <2> SUFFICES ASSUME TypeOK, LeaseInv, [Next]_vars PROVE SettledByHolderStep
    BY DEF IInv
  <2> USE DEF TypeOK, LeaseInv, Holds, Waiting, RowStatusOf, rowVars, workerVars,
              adminVars, SettledByHolderStep
  <2>1. ASSUME NEW j \in Job, CreateJob(j) PROVE SettledByHolderStep
    BY <2>1 DEF CreateJob
  <2>2. ASSUME NEW j \in Job, BecomeDue(j) PROVE SettledByHolderStep
    BY <2>2 DEF BecomeDue
  <2>3. ASSUME NEW j \in Job, Expire(j) PROVE SettledByHolderStep
    BY <2>3 DEF Expire
  <2>4. ASSUME NEW j \in Job, RequeueJob(j) PROVE SettledByHolderStep
    BY <2>4 DEF RequeueJob, ResetRow
  <2>5. ASSUME NEW j \in Job, SeeCompleted(j) PROVE SettledByHolderStep
    BY <2>5 DEF SeeCompleted
  <2>6. ASSUME NEW j \in Job, RequeueCompleted(j) PROVE SettledByHolderStep
    BY <2>6 DEF RequeueCompleted, ResetRow
  <2>7. ASSUME NEW j \in Job, DeleteCompletedJobsBefore(j) PROVE SettledByHolderStep
    BY <2>7 DEF DeleteCompletedJobsBefore
  <2>8. ASSUME NEW j \in Job, ConsumeHint(j) PROVE SettledByHolderStep
    BY <2>8 DEF ConsumeHint
  <2>9. ASSUME NEW S \in SUBSET Job, CancelJobsForOwner(S) PROVE SettledByHolderStep
    BY <2>9 DEF CancelJobsForOwner
  <2>10. CASE SweepDueJobs
    BY <2>10 DEF SweepDueJobs
  <2>11. ASSUME NEW w \in Worker, NEW j \in Job, LeaseJob(w, j) PROVE SettledByHolderStep
    BY <2>11 DEF LeaseJob, Leasable
  <2>12. ASSUME NEW w \in Worker, Handle(w) PROVE SettledByHolderStep
    BY <2>12 DEF Handle
  <2>13. ASSUME NEW w \in Worker, CompleteJob(w) PROVE SettledByHolderStep
    BY <2>13 DEF CompleteJob, GuardedSettle, SettleRow, Rest
  <2>14. ASSUME NEW w \in Worker, FailJobRead(w) PROVE SettledByHolderStep
    BY <2>14 DEF FailJobRead, Rest
  <2>15. ASSUME NEW w \in Worker, FailJobWrite(w) PROVE SettledByHolderStep
    BY <2>15 DEF FailJobWrite, GuardedSettle, SettleRow, RowStatusOf, Rest, Outcomes
  <2>16. ASSUME NEW w \in Worker, RecordTerminalJobFailure(w) PROVE SettledByHolderStep
    BY <2>16 DEF RecordTerminalJobFailure, Rest
  <2>17. ASSUME NEW w \in Worker, Crash(w) PROVE SettledByHolderStep
    BY <2>17 DEF Crash, Rest
  <2>18. CASE UNCHANGED vars
    BY <2>18 DEF vars
  <2>19. QED
    BY <2>1, <2>2, <2>3, <2>4, <2>5, <2>6, <2>7, <2>8, <2>9, <2>10, <2>11, <2>12, <2>13, <2>14, <2>15, <2>16, <2>17, <2>18 DEF Next, Clock, Admin, Step
<1>2. QED
  BY <1>1, Invariant, PTL DEF SettledByHolder, SettledByHolderStep, Spec

----------------------------------------------------------------------------
(* Refinement.                                                              *)

(* A consumer that comes to rest gives up its own claim and no other.       *)
LEMMA RestForgets ==
  ASSUME TypeOK, LeaseInv, NEW w \in Worker, pc[w] # "idle", Rest(w)
  PROVE  ClaimOf(w) \in Claims /\ Claims' = Claims \ {ClaimOf(w)}
<1>1. ClaimOf(w) \in Claims
  BY DEF Claims
<1>2. /\ \A v \in Worker : v # w => /\ pc'[v] = pc[v]
                                    /\ running'[v] = running[v]
                                    /\ held'[v] = held[v]
      /\ pc'[w] = "idle"
  BY DEF Rest, TypeOK
<1>3. \A v \in Worker : v # w /\ pc[v] # "idle" => held[v] # held[w]
  BY DEF LeaseInv, TypeOK
<1>4. Claims' \subseteq Claims \ {ClaimOf(w)}
  BY <1>2, <1>3 DEF Claims, ClaimOf
<1>5. Claims \ {ClaimOf(w)} \subseteq Claims'
  BY <1>2 DEF Claims, ClaimOf
<1>6. QED
  BY <1>1, <1>4, <1>5

(* Steps that leave every consumer's lease and every row's phase alone are  *)
(* stutters of the fenced lease.                                            *)
LEMMA SameClaims ==
  ASSUME TypeOK, UNCHANGED <<running, held>>,
         \A v \in Worker : (pc'[v] = "idle") <=> (pc[v] = "idle")
  PROVE  Claims' = Claims
BY DEF Claims, ClaimOf

LEMMA SamePhases ==
  ASSUME UNCHANGED status
  PROVE  Phases' = Phases
BY DEF Phases

(* One row changes status: its phase is the only one that changes.          *)
LEMMA OnePhase ==
  ASSUME TypeOK, NEW j \in Job, NEW s \in Statuses,
         status' = [status EXCEPT ![j] = s]
  PROVE  Phases' = [Phases EXCEPT ![j] = PhaseOf(s)]
BY DEF Phases, TypeOK

(* Every step of the job table is a step of the fenced lease or a stutter.  *)
LEMMA StepRefines ==
  TypeOK /\ LeaseInv /\ [Next]_vars => [Fenced!FNext]_(Fenced!fvars)
<1> DEFINE AbsNext == [Fenced!FNext]_(Fenced!fvars)
<1> SUFFICES ASSUME TypeOK, LeaseInv, [Next]_vars PROVE AbsNext
  OBVIOUS
<1> USE DEF rowVars, workerVars, adminVars
<1>a. ASSUME UNCHANGED <<status, leaseId>>, Claims' = Claims PROVE AbsNext
  BY <1>a, SamePhases DEF Fenced!fvars
<1>b. ASSUME UNCHANGED <<status, leaseId>>, NEW w \in Worker, pc[w] # "idle", Rest(w)
      PROVE AbsNext
  <2>1. Fenced!Forget(ClaimOf(w))
    BY <1>b, RestForgets, SamePhases DEF Fenced!Forget
  <2>2. QED
    BY <2>1, <1>b, RestForgets DEF Fenced!FNext
<1>c. ASSUME NEW j \in Job, status' = [status EXCEPT ![j] = "pending"],
             leaseId' = [leaseId EXCEPT ![j] = NoLease], UNCHANGED workerVars
      PROVE AbsNext
  <2>1. Phases' = [Phases EXCEPT ![j] = "open"]
    BY <1>c, OnePhase DEF Statuses, PhaseOf, Waiting
  <2>2. Fenced!Offer(j)
    BY <1>c, <2>1, SameClaims DEF Fenced!Offer
  <2>3. QED
    BY <2>2 DEF Fenced!FNext
<1>1. ASSUME NEW j \in Job, CreateJob(j) PROVE AbsNext
  BY <1>1, <1>c DEF CreateJob
<1>2. ASSUME NEW j \in Job, BecomeDue(j) PROVE AbsNext
  BY <1>2, <1>a, SameClaims DEF BecomeDue
<1>3. ASSUME NEW j \in Job, Expire(j) PROVE AbsNext
  BY <1>3, <1>a, SameClaims DEF Expire
<1>4. ASSUME NEW j \in Job, RequeueJob(j) PROVE AbsNext
  BY <1>4, <1>c DEF RequeueJob, ResetRow
<1>5. ASSUME NEW j \in Job, SeeCompleted(j) PROVE AbsNext
  BY <1>5, <1>a, SameClaims DEF SeeCompleted
<1>6. ASSUME NEW j \in Job, RequeueCompleted(j) PROVE AbsNext
  BY <1>6, <1>a, <1>c, SameClaims DEF RequeueCompleted, ResetRow
<1>7. ASSUME NEW j \in Job, DeleteCompletedJobsBefore(j) PROVE AbsNext
  <2>0. PhaseOf("absent") = "none" /\ "absent" \in Statuses
    BY DEF PhaseOf, Waiting, Statuses
  <2>1. Phases' = [Phases EXCEPT ![j] = "none"]
    BY <1>7, <2>0, OnePhase DEF DeleteCompletedJobsBefore
  <2>2. Phases[j] = "closed"
    BY <1>7 DEF DeleteCompletedJobsBefore, Phases, PhaseOf, Waiting
  <2>3. Fenced!Retire(j)
    BY <1>7, <2>1, <2>2, SameClaims DEF DeleteCompletedJobsBefore, Fenced!Retire
  <2>4. QED
    BY <2>3 DEF Fenced!FNext
<1>8. ASSUME NEW j \in Job, ConsumeHint(j) PROVE AbsNext
  BY <1>8, <1>a, SameClaims DEF ConsumeHint
<1>9. ASSUME NEW S \in SUBSET Job, CancelJobsForOwner(S) PROVE AbsNext
  <2> DEFINE hit == {j \in S : status[j] \in Waiting \cup {"leased"}}
  <2>1. /\ status' = [j \in Job |-> IF j \in hit THEN "canceled" ELSE status[j]]
        /\ leaseId' = [j \in Job |-> IF j \in hit THEN NoLease ELSE leaseId[j]]
        /\ UNCHANGED workerVars
    BY <1>9 DEF CancelJobsForOwner
  <2>2. \A j \in hit : Phases[j] \in {"open", "held"}
    BY DEF Phases, PhaseOf, Waiting
  <2>3. Phases' = [j \in Job |-> IF j \in hit THEN "closed" ELSE Phases[j]]
    BY <2>1 DEF Phases, PhaseOf, Waiting
  <2>4. Claims' = Claims
    BY <2>1, SameClaims
  <2>5. Fenced!Revoke(hit)
    BY <2>1, <2>2, <2>3, <2>4 DEF Fenced!Revoke
  <2>6. QED
    BY <2>5 DEF Fenced!FNext
<1>10. CASE SweepDueJobs
  BY <1>10, <1>a, SameClaims DEF SweepDueJobs
<1>11. ASSUME NEW w \in Worker, NEW j \in Job, LeaseJob(w, j) PROVE AbsNext
  <2>1. PICK l \in FreshLease : /\ leaseId' = [leaseId EXCEPT ![j] = l]
                                /\ held' = [held EXCEPT ![w] = l]
    BY <1>11 DEF LeaseJob
  <2>2. /\ l \in LeaseId
        /\ \A i \in Job : leaseId[i] # l
        /\ \A v \in Worker : held[v] # l
    BY DEF FreshLease
  <2>3. /\ pc[w] = "idle" /\ status[j] \in Waiting \cup {"leased"}
        /\ status' = [status EXCEPT ![j] = "leased"]
        /\ pc' = [pc EXCEPT ![w] = "handling"]
        /\ running' = [running EXCEPT ![w] = j]
    BY <1>11 DEF LeaseJob, Leasable
  <2>4. Phases[j] \in {"open", "held"} /\ Phases' = [Phases EXCEPT ![j] = "held"]
    BY <2>3, OnePhase DEF Phases, PhaseOf, Waiting, Statuses
  <2>5. \A c \in Claims : c[2] # l
    BY <2>2 DEF Claims, ClaimOf
  <2>6. Claims' = Claims \cup {<<j, l>>}
    <3>1. /\ pc'[w] = "handling" /\ running'[w] = j /\ held'[w] = l
          /\ \A v \in Worker : v # w => /\ pc'[v] = pc[v]
                                        /\ running'[v] = running[v]
                                        /\ held'[v] = held[v]
      BY <2>1, <2>3 DEF TypeOK
    <3>2. Claims' \subseteq Claims \cup {<<j, l>>}
      BY <3>1 DEF Claims, ClaimOf
    <3>3. <<j, l>> \in Claims'
      BY <3>1 DEF Claims, ClaimOf
    <3>4. Claims \subseteq Claims'
      BY <2>3, <3>1 DEF Claims, ClaimOf
    <3>5. QED
      BY <3>2, <3>3, <3>4
  <2>7. Fenced!Grant(j, l)
    BY <2>1, <2>2, <2>4, <2>5, <2>6 DEF Fenced!Grant
  <2>8. QED
    BY <2>2, <2>7 DEF Fenced!FNext
<1>12. ASSUME NEW w \in Worker, Handle(w) PROVE AbsNext
  <2>1. \A v \in Worker : (pc'[v] = "idle") <=> (pc[v] = "idle")
    BY <1>12 DEF Handle, TypeOK
  <2>2. QED
    BY <1>12, <2>1, <1>a, SameClaims DEF Handle
<1>s. ASSUME NEW w \in Worker, pc[w] # "idle", Holds(w),
             NEW s \in Statuses \ {"absent", "leased"}, SettleRow(w, s),
             Claims' \in {Claims, Claims \ {ClaimOf(w)}}
      PROVE AbsNext
  <2>1. running[w] \in Job /\ held[w] \in LeaseId /\ status[running[w]] = "leased"
    BY <1>s DEF LeaseInv, Holds, TypeOK
  <2>2. Phases' = [Phases EXCEPT ![running[w]] = PhaseOf(s)]
    BY <1>s, <2>1, OnePhase DEF SettleRow
  <2>3. PhaseOf(s) \in {"open", "closed"} /\ Phases[running[w]] = "held"
    BY <1>s, <2>1 DEF PhaseOf, Phases, Waiting, Statuses
  <2>4. ClaimOf(w) \in Claims
    BY <1>s DEF Claims
  <2>5. Fenced!Settle(running[w], held[w])
    BY <1>s, <2>2, <2>3, <2>4 DEF Fenced!Settle, SettleRow, Holds, ClaimOf
  <2>6. QED
    BY <2>1, <2>5 DEF Fenced!FNext
<1>13. ASSUME NEW w \in Worker, CompleteJob(w) PROVE AbsNext
  <2>1. pc[w] # "idle" /\ Rest(w) /\ GuardedSettle(w, "completed")
    BY <1>13 DEF CompleteJob
  <2>2. CASE Holds(w)
    BY <2>1, <2>2, <1>s, RestForgets DEF GuardedSettle, Statuses
  <2>3. CASE ~Holds(w)
    BY <2>1, <2>3, <1>b DEF GuardedSettle
  <2>4. QED
    BY <2>2, <2>3
<1>14. ASSUME NEW w \in Worker, FailJobRead(w) PROVE AbsNext
  <2>1. pc[w] # "idle" /\ UNCHANGED <<status, leaseId>>
    BY <1>14 DEF FailJobRead
  <2>2. CASE Rest(w)
    BY <2>1, <2>2, <1>b
  <2>3. CASE ~Rest(w)
    <3>1. /\ UNCHANGED <<running, held>>
          /\ \A v \in Worker : (pc'[v] = "idle") <=> (pc[v] = "idle")
      BY <1>14, <2>3 DEF FailJobRead, TypeOK
    <3>2. QED
      BY <2>1, <3>1, <1>a, SameClaims
  <2>4. QED
    BY <2>2, <2>3
<1>15. ASSUME NEW w \in Worker, FailJobWrite(w) PROVE AbsNext
  <2>1. /\ pc[w] # "idle" /\ GuardedSettle(w, RowStatusOf(pc[w]))
        /\ RowStatusOf(pc[w]) \in Statuses \ {"absent", "leased"}
    BY <1>15 DEF FailJobWrite, RowStatusOf, Outcomes, Statuses
  <2>2. Rest(w) \/ Claims' = Claims
    <3>1. CASE pc[w] = "retry_scheduled"
      BY <1>15, <3>1 DEF FailJobWrite
    <3>2. CASE pc[w] # "retry_scheduled"
      <4>1. /\ UNCHANGED <<running, held>>
            /\ \A v \in Worker : (pc'[v] = "idle") <=> (pc[v] = "idle")
        BY <1>15, <3>2 DEF FailJobWrite, Outcomes, TypeOK
      <4>2. QED
        BY <4>1, SameClaims
    <3>3. QED
      BY <3>1, <3>2
  <2>3. CASE Holds(w)
    BY <2>1, <2>2, <2>3, <1>s, RestForgets DEF GuardedSettle
  <2>4. CASE ~Holds(w)
    BY <2>1, <2>2, <2>4, <1>a, <1>b DEF GuardedSettle
  <2>5. QED
    BY <2>3, <2>4
<1>16. ASSUME NEW w \in Worker, RecordTerminalJobFailure(w) PROVE AbsNext
  BY <1>16, <1>b DEF RecordTerminalJobFailure
<1>17. ASSUME NEW w \in Worker, Crash(w) PROVE AbsNext
  BY <1>17, <1>b DEF Crash
<1>18. CASE UNCHANGED vars
  BY <1>18, <1>a, SameClaims DEF vars
<1>19. QED
  BY <1>1, <1>2, <1>3, <1>4, <1>5, <1>6, <1>7, <1>8, <1>9, <1>10, <1>11, <1>12,
     <1>13, <1>14, <1>15, <1>16, <1>17, <1>18 DEF Next, Clock, Admin, Step

(* The job table implements the fenced lease.                               *)
THEOREM Refinement == Spec => ImplementsFencedLease
<1>1. Init => Fenced!FInit
  BY DEF Init, Fenced!FInit, Phases, PhaseOf, Waiting, Claims
<1>2. IInv /\ [Next]_vars => [Fenced!FNext]_(Fenced!fvars)
  BY StepRefines DEF IInv
<1>3. QED
  BY <1>1, <1>2, Invariant, PTL DEF Spec, ImplementsFencedLease, Fenced!FSpec
============================================================================
