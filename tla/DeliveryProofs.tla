--------------------------- MODULE DeliveryProofs ---------------------------
(***************************************************************************)
(* Theorems about the delivery of a recap, for every set of recipients and *)
(* runs, every retry budget and every number of faults.                    *)
(***************************************************************************)
EXTENDS Delivery, FiniteSetTheorems, TLAPS

USE DeliveryAssumption
USE DEF SendRecap, Stages, Statuses, Settled

(* A run that is left drops its locals and nobody else's.                   *)
LEMMA ThrowTypes ==
  ASSUME TypeOK, NEW w \in Worker, NEW stage \in Stages, Throw(w, stage)
  PROVE  /\ pc' \in [Worker -> Stages]
         /\ policy' \in [Worker -> SUBSET Recipient]
         /\ list' \in [Worker -> SUBSET Recipient]
         /\ todo' \in [Worker -> SUBSET Recipient]
         /\ to' \in [Worker -> Recipient \cup {NoRecipient}]
         /\ result' \in [Worker -> {"sent", "failed"}]
         /\ unsent' \in [Worker -> BOOLEAN]
  BY DEF TypeOK, Throw, Goto

(* A run that ends gives up its claim; one that goes on keeps it.           *)
LEMMA ClaimDropped ==
  ASSUME TypeOK, NEW w \in Worker, pc' = [pc EXCEPT ![w] = "idle"],
         claims' = claims \ {<<SendRecap, w>>}
  PROVE  claims' = {SendRecap} \X {v \in Worker : Working(v)'}
  BY DEF TypeOK, Working

LEMMA ClaimKept ==
  ASSUME TypeOK, NEW w \in Worker, NEW stage \in Stages \ {"idle"},
         pc' = [pc EXCEPT ![w] = stage], Working(w), claims' = claims
  PROVE  claims' = {SendRecap} \X {v \in Worker : Working(v)'}
  BY DEF TypeOK, Working

RunInv == TypeOK /\ LoopInv /\ RowInv

(* Initially the job waits and nobody runs.                                 *)
LEMMA InitRunInv == Init => RunInv
<1> SUFFICES ASSUME Init PROVE RunInv
  OBVIOUS
<1>1. TypeOK
  <2>1. claims = {SendRecap} \X {w \in Worker : Working(w)}
    BY DEF Init, Working
  <2>2. /\ row \in [Recipient -> {"none", "sent", "failed"}]
        /\ mails \in [Recipient -> Nat]
        /\ phase \in [{SendRecap} -> {"open", "held", "closed"}]
        /\ token \in [{SendRecap} -> Worker \cup {NoWorker}]
    BY DEF Init
  <2>3. /\ pc \in [Worker -> Stages]
        /\ policy \in [Worker -> SUBSET Recipient]
        /\ list \in [Worker -> SUBSET Recipient]
        /\ todo \in [Worker -> SUBSET Recipient]
        /\ to \in [Worker -> Recipient \cup {NoRecipient}]
        /\ result \in [Worker -> {"sent", "failed"}]
        /\ unsent \in [Worker -> BOOLEAN]
    BY DEF Init
  <2>4. completed \in BOOLEAN /\ canceling \in BOOLEAN
    BY DEF Init
  <2>5. /\ sentAt \subseteq Recipient /\ eligible \subseteq Recipient
        /\ allowed \subseteq Recipient /\ occ \in Statuses
        /\ attempts \in 0..MaxAttempts /\ faults \in 0..MaxFaults
        /\ requests \subseteq Requests
    BY DEF Init
  <2>6. QED
    BY <2>1, <2>2, <2>3, <2>4, <2>5 DEF TypeOK
<1>2. LoopInv /\ RowInv
  BY DEF Init, LoopInv, RowInv
<1>3. QED
  BY <1>1, <1>2 DEF RunInv

(* Every step keeps the invariant: one step per action, one below it for each *)
(* conjunct.                                                                *)
LEMMA StepRunInv == RunInv /\ [Next]_vars => RunInv'
<1> SUFFICES ASSUME RunInv, [Next]_vars PROVE RunInv'
  OBVIOUS
<1> USE DEF RunInv, TypeOK, LoopInv, RowInv, Handled, Holds, Working, mailVars, inputVars, jobVars, leaseVars,
            localVars, requestVars, At
<1>1. ASSUME NEW w \in Worker, StartRun(w) PROVE RunInv'
  <2>1. TypeOK'
    BY <1>1 DEF StartRun, Lease!Grant, Fault, Goto
  <2>2. LoopInv'
    <3>1. pc[w] = "idle"
      <4>1. Working(w) => <<SendRecap, w>> \in claims
        OBVIOUS
      <4>2. <<SendRecap, w>> \notin claims
        BY <1>1 DEF StartRun, Lease!Grant
      <4>3. QED
        BY <4>1, <4>2
    <3>2. QED
      BY <1>1, <3>1 DEF StartRun, Goto
  <2>3. RowInv'
    BY <1>1 DEF StartRun, Lease!Grant, Fault, Goto
  <2>4. QED
    BY <2>1, <2>2, <2>3
<1>2. ASSUME NEW w \in Worker, ReadAttendees(w) PROVE RunInv'
  <2>1. TypeOK'
    BY <1>2 DEF ReadAttendees, Goto
  <2>2. LoopInv'
    BY <1>2 DEF ReadAttendees, Goto
  <2>3. RowInv'
    BY <1>2 DEF ReadAttendees, Goto
  <2>4. QED
    BY <2>1, <2>2, <2>3
<1>3. ASSUME NEW w \in Worker, SkipDelivery(w) PROVE RunInv'
  <2>1. TypeOK'
    BY <1>3 DEF SkipDelivery, Goto
  <2>2. LoopInv'
    BY <1>3 DEF SkipDelivery, Goto
  <2>3. RowInv'
    BY <1>3 DEF SkipDelivery, Goto
  <2>4. QED
    BY <2>1, <2>2, <2>3
<1>4. ASSUME NEW w \in Worker, MarkSending(w) PROVE RunInv'
  <2>1. TypeOK'
    BY <1>4 DEF MarkSending, Goto
  <2>2. LoopInv'
    BY <1>4 DEF MarkSending, Goto
  <2>3. RowInv'
    BY <1>4 DEF MarkSending, Goto
  <2>4. QED
    BY <2>1, <2>2, <2>3
<1>5. ASSUME NEW w \in Worker, ListDeliveries(w) PROVE RunInv'
  <2>1. TypeOK'
    BY <1>5 DEF ListDeliveries, Goto
  <2>2. LoopInv'
    BY <1>5 DEF ListDeliveries, Goto
  <2>3. RowInv'
    BY <1>5 DEF ListDeliveries, Goto
  <2>4. QED
    BY <2>1, <2>2, <2>3
<1>6. ASSUME NEW w \in Worker, NEW r \in Recipient, SendMail(w, r) PROVE RunInv'
  <2>1. TypeOK'
    BY <1>6 DEF SendMail, Permitted, Fault, Goto
  <2>2. LoopInv'
    BY <1>6 DEF SendMail, Permitted, Fault, Goto
  <2>3. RowInv'
    BY <1>6 DEF SendMail, Permitted, Fault, Goto
  <2>4. QED
    BY <2>1, <2>2, <2>3
<1>7. ASSUME NEW w \in Worker, RecordDelivery(w) PROVE RunInv'
  <2>1. TypeOK'
    <3>1. unsent' \in [Worker -> BOOLEAN]
      <4>1. CASE result[w] = "failed"
        BY <1>7, <4>1 DEF RecordDelivery
      <4>2. CASE result[w] # "failed"
        BY <1>7, <4>2 DEF RecordDelivery
      <4>3. QED
        BY <4>1, <4>2
    <3>2. sentAt' \subseteq Recipient /\ row' \in [Recipient -> {"none", "sent", "failed"}]
      BY <1>7 DEF RecordDelivery, SentAtAfter
    <3>3. /\ pc' \in [Worker -> Stages] /\ result' \in [Worker -> {"sent", "failed"}]
          /\ to' \in [Worker -> Recipient \cup {NoRecipient}]
      BY <1>7 DEF RecordDelivery, Goto
    <3>4. claims' = {SendRecap} \X {v \in Worker : Working(v)'}
      BY <1>7, ClaimKept DEF RecordDelivery, Goto
    <3>5. QED
      BY <1>7, <3>1, <3>2, <3>3, <3>4 DEF RecordDelivery
  <2>2. LoopInv'
    <3>1. ASSUME NEW v \in Worker, v # w
          PROVE  Handled(v)' = Handled(v) /\ sentAt \subseteq sentAt'
      BY <1>7, <3>1 DEF RecordDelivery, SentAtAfter
    <3>2. Handled(w)' \subseteq Handled(w) \cup {to[w]}
      BY <1>7 DEF RecordDelivery
    <3>3. ~unsent'[w] => ~unsent[w] /\ to[w] \in sentAt'
      BY <1>7 DEF RecordDelivery, SentAtAfter
    <3>4. sentAt \subseteq sentAt'
      BY <1>7 DEF RecordDelivery, SentAtAfter
    <3>5. QED
      BY <1>7, <3>1, <3>2, <3>3, <3>4 DEF RecordDelivery, Goto
  <2>3. RowInv'
    BY <1>7 DEF RecordDelivery, SentAtAfter, Goto
  <2>4. QED
    BY <2>1, <2>2, <2>3
<1>8. ASSUME NEW w \in Worker, EndLoop(w) PROVE RunInv'
  <2>1. TypeOK'
    <3>1. CASE unsent[w]
      <4>1. /\ Throw(w, "fail") /\ pc' = [pc EXCEPT ![w] = "fail"]
            /\ UNCHANGED <<mailVars, inputVars, occ, jobVars, canceling, faults,
                           requests>>
        BY <1>8, <3>1 DEF EndLoop, Throw, Goto
      <4>2. claims' = {SendRecap} \X {v \in Worker : Working(v)'}
        BY <1>8, <4>1, ClaimKept DEF EndLoop
      <4>3. QED
        BY <4>1, <4>2, ThrowTypes
    <3>2. CASE ~unsent[w]
      BY <1>8, <3>2 DEF EndLoop, Goto
    <3>3. QED
      BY <3>1, <3>2
  <2>2. LoopInv'
    BY <1>8 DEF EndLoop, Throw, Goto
  <2>3. RowInv'
    BY <1>8 DEF EndLoop, Throw, Goto
  <2>4. QED
    BY <2>1, <2>2, <2>3
<1>9. ASSUME NEW w \in Worker, MarkCompleted(w) PROVE RunInv'
  <2>1. TypeOK'
    BY <1>9 DEF MarkCompleted, Goto
  <2>2. LoopInv'
    BY <1>9 DEF MarkCompleted, Goto
  <2>3. RowInv'
    BY <1>9 DEF MarkCompleted, Goto
  <2>4. QED
    BY <2>1, <2>2, <2>3
<1>10. ASSUME NEW w \in Worker, CompleteJob(w) PROVE RunInv'
  <2>1. TypeOK'
    <3>1. CASE Holds(w)
      <4>1. claims' = {SendRecap} \X {v \in Worker : Working(v)'}
        BY <1>10, <3>1, ClaimDropped DEF CompleteJob, Rest, Throw, Goto, Lease!Settle
      <4>2. phase' \in [{SendRecap} -> {"open", "held", "closed"}]
        BY <1>10, <3>1 DEF CompleteJob, Lease!Settle
      <4>3. token' \in [{SendRecap} -> Worker \cup {NoWorker}]
        BY <1>10, <3>1 DEF CompleteJob, Lease!Settle
      <4>4. QED
        BY <1>10, <3>1, <4>1, <4>2, <4>3, ThrowTypes DEF CompleteJob, Rest
    <3>2. CASE ~Holds(w)
      <4>1. claims' = {SendRecap} \X {v \in Worker : Working(v)'}
        BY <1>10, <3>2, ClaimDropped DEF CompleteJob, Rest, Throw, Goto, Lease!Forget
      <4>2. QED
        BY <1>10, <3>2, <4>1, ThrowTypes DEF CompleteJob, Rest, Lease!Forget
    <3>3. QED
      BY <3>1, <3>2
  <2>2. LoopInv'
    BY <1>10 DEF CompleteJob, Lease!Settle, Lease!Forget, Rest, Throw, Goto
  <2>3. RowInv'
    BY <1>10 DEF CompleteJob, Lease!Settle, Lease!Forget, Rest, Throw, Goto
  <2>4. QED
    BY <2>1, <2>2, <2>3
<1>11. ASSUME NEW w \in Worker, MissRecap(w) PROVE RunInv'
  <2>1. TypeOK'
    BY <1>11 DEF MissRecap, Throw, Goto
  <2>2. LoopInv'
    BY <1>11 DEF MissRecap, Throw, Goto
  <2>3. RowInv'
    BY <1>11 DEF MissRecap, Throw, Goto
  <2>4. QED
    BY <2>1, <2>2, <2>3
<1>12. ASSUME NEW w \in Worker, FailJobRead(w) PROVE RunInv'
  <2>1. TypeOK'
    <3>1. CASE Holds(w)
      BY <1>12, <3>1 DEF FailJobRead, Goto
    <3>2. CASE ~Holds(w)
      <4>1. claims' = {SendRecap} \X {v \in Worker : Working(v)'}
        BY <1>12, <3>2, ClaimDropped DEF FailJobRead, Rest, Throw, Goto, Lease!Forget
      <4>2. QED
        BY <1>12, <3>2, <4>1, ThrowTypes DEF FailJobRead, Rest, Lease!Forget
    <3>3. QED
      BY <3>1, <3>2
  <2>2. LoopInv'
    BY <1>12 DEF FailJobRead, Lease!Forget, Rest, Throw, Goto
  <2>3. RowInv'
    BY <1>12 DEF FailJobRead, Lease!Forget, Rest, Throw, Goto
  <2>4. QED
    BY <2>1, <2>2, <2>3
<1>13. ASSUME NEW w \in Worker, FailJobWrite(w) PROVE RunInv'
  <2>1. TypeOK'
    <3>1. /\ phase' \in [{SendRecap} -> {"open", "held", "closed"}]
          /\ token' \in [{SendRecap} -> Worker \cup {NoWorker}]
      BY <1>13 DEF FailJobWrite, Lease!Settle
    <3>2. CASE At(w, "retry")
      <4>1. claims' = {SendRecap} \X {v \in Worker : Working(v)'}
        BY <1>13, <3>2, ClaimDropped DEF FailJobWrite, Rest, Throw, Goto
      <4>2. QED
        BY <1>13, <3>1, <3>2, <4>1, ThrowTypes DEF FailJobWrite, Rest
    <3>3. CASE At(w, "dead")
      <4>1. claims' = claims /\ pc' = [pc EXCEPT ![w] = "report"]
        BY <1>13, <3>3 DEF FailJobWrite, Goto
      <4>2. claims' = {SendRecap} \X {v \in Worker : Working(v)'}
        BY <3>3, <4>1, ClaimKept
      <4>3. QED
        BY <1>13, <3>1, <3>3, <4>1, <4>2 DEF FailJobWrite
    <3>4. QED
      BY <1>13, <3>2, <3>3 DEF FailJobWrite
  <2>2. LoopInv'
    BY <1>13 DEF FailJobWrite, Lease!Settle, Rest, Throw, Goto
  <2>3. RowInv'
    BY <1>13 DEF FailJobWrite, Lease!Settle, Rest, Throw, Goto
  <2>4. QED
    BY <2>1, <2>2, <2>3
<1>14. ASSUME NEW w \in Worker, ReadOccurrence(w) PROVE RunInv'
  <2>1. TypeOK'
    <3>1. CASE occ \in Settled
      <4>1. claims' = {SendRecap} \X {v \in Worker : Working(v)'}
        BY <1>14, <3>1, ClaimDropped DEF ReadOccurrence, Rest, Throw, Goto, Lease!Forget
      <4>2. QED
        BY <1>14, <3>1, <4>1, ThrowTypes DEF ReadOccurrence, Rest, Lease!Forget
    <3>2. CASE occ \notin Settled
      BY <1>14, <3>2 DEF ReadOccurrence, Goto
    <3>3. QED
      BY <3>1, <3>2
  <2>2. LoopInv'
    BY <1>14 DEF ReadOccurrence, Lease!Forget, Rest, Throw, Goto
  <2>3. RowInv'
    BY <1>14 DEF ReadOccurrence, Lease!Forget, Rest, Throw, Goto
  <2>4. QED
    BY <2>1, <2>2, <2>3
<1>15. ASSUME NEW w \in Worker, SurfaceFailure(w) PROVE RunInv'
  <2>1. TypeOK'
    BY <1>15 DEF SurfaceFailure, Lease!Forget, Rest, Throw, Goto
  <2>2. LoopInv'
    BY <1>15 DEF SurfaceFailure, Lease!Forget, Rest, Throw, Goto
  <2>3. RowInv'
    BY <1>15 DEF SurfaceFailure, Lease!Forget, Rest, Throw, Goto
  <2>4. QED
    BY <2>1, <2>2, <2>3
<1>16. ASSUME NEW w \in Worker, Crash(w) PROVE RunInv'
  <2>1. TypeOK'
    BY <1>16 DEF Crash, Fault, Lease!Forget, Rest, Throw, Goto
  <2>2. LoopInv'
    BY <1>16 DEF Crash, Fault, Lease!Forget, Rest, Throw, Goto
  <2>3. RowInv'
    BY <1>16 DEF Crash, Fault, Lease!Forget, Rest, Throw, Goto
  <2>4. QED
    BY <2>1, <2>2, <2>3
<1>17. ASSUME NEW w \in Worker, StatementFails(w) PROVE RunInv'
  <2>1. TypeOK'
    BY <1>17 DEF StatementFails, Fault, Throw, Goto
  <2>2. LoopInv'
    BY <1>17 DEF StatementFails, Fault, Throw, Goto
  <2>3. RowInv'
    BY <1>17 DEF StatementFails, Fault, Throw, Goto
  <2>4. QED
    BY <2>1, <2>2, <2>3
<1>18. CASE CancelOccurrence
  <2>1. TypeOK'
    BY <1>18 DEF CancelOccurrence, Request
  <2>2. LoopInv'
    BY <1>18 DEF CancelOccurrence, Request
  <2>3. RowInv'
    BY <1>18 DEF CancelOccurrence, Request
  <2>4. QED
    BY <2>1, <2>2, <2>3
<1>19. CASE CancelJobs
  <2>1. TypeOK'
    <3>1. CASE phase[SendRecap] \in {"open", "held"}
      <4>1. phase' \in [{SendRecap} -> {"open", "held", "closed"}]
        BY <1>19, <3>1 DEF CancelJobs, Lease!Revoke
      <4>2. token' \in [{SendRecap} -> Worker \cup {NoWorker}]
        BY <1>19, <3>1 DEF CancelJobs, Lease!Revoke
      <4>3. QED
        BY <1>19, <3>1, <4>1, <4>2 DEF CancelJobs, Lease!Revoke
    <3>2. CASE phase[SendRecap] \notin {"open", "held"}
      BY <1>19, <3>2 DEF CancelJobs
    <3>3. QED
      BY <3>1, <3>2
  <2>2. LoopInv'
    BY <1>19 DEF CancelJobs, Lease!Revoke
  <2>3. RowInv'
    BY <1>19 DEF CancelJobs, Lease!Revoke
  <2>4. QED
    BY <2>1, <2>2, <2>3
<1>20. CASE RetryDelivery
  <2>1. TypeOK'
    BY <1>20 DEF RetryDelivery, Request, Lease!Offer
  <2>2. LoopInv'
    BY <1>20 DEF RetryDelivery, Request, Lease!Offer
  <2>3. RowInv'
    BY <1>20 DEF RetryDelivery, Request, Lease!Offer
  <2>4. QED
    BY <2>1, <2>2, <2>3
<1>21. CASE ReplaceAttendees
  <2>1. TypeOK'
    BY <1>21 DEF ReplaceAttendees, Request
  <2>2. LoopInv'
    BY <1>21 DEF ReplaceAttendees, Request
  <2>3. RowInv'
    BY <1>21 DEF ReplaceAttendees, Request
  <2>4. QED
    BY <2>1, <2>2, <2>3
<1>22. CASE ChangePolicy
  <2>1. TypeOK'
    BY <1>22 DEF ChangePolicy, Request
  <2>2. LoopInv'
    BY <1>22 DEF ChangePolicy, Request
  <2>3. RowInv'
    BY <1>22 DEF ChangePolicy, Request
  <2>4. QED
    BY <2>1, <2>2, <2>3
<1>23. CASE UNCHANGED vars
  BY <1>23 DEF vars
<1>24. QED
  BY <1>1, <1>2, <1>3, <1>4, <1>5, <1>6, <1>7, <1>8, <1>9, <1>10, <1>11,
     <1>12, <1>13, <1>14, <1>15, <1>16, <1>17, <1>18, <1>19, <1>20, <1>21,
     <1>22, <1>23
  DEF Next, RunStep

----------------------------------------------------------------------------
(* The account of the mails to one recipient.                               *)

Paid(r) == mails[r] + Owed(r)

(* A step leaves a recipient's strays and debts as they are or fewer; or it *)
(* turns a stray into a debt or a mail; or a debt or a disturbance into a   *)
(* stray.                                                                   *)
Balanced(r) ==
    \/ /\ Strays(r)' \subseteq Strays(r)
       /\ Paid(r)' + Disturbances <= Paid(r) + Disturbances'
    \/ \E w \in Strays(r) :
          /\ Strays(r)' \subseteq Strays(r) \ {w}
          /\ Paid(r)' + Disturbances <= Paid(r) + 1 + Disturbances'
    \/ \E w \in Worker :
          /\ Strays(r)' \subseteq Strays(r) \cup {w}
          /\ Paid(r)' + 1 + Disturbances <= Paid(r) + Disturbances'

(* A cancellation is counted once.                                          *)
LEMMA CancelCount ==
  \A S : /\ "cancel" \in S => Cardinality(S \cap {"cancel"}) = 1
         /\ "cancel" \notin S => Cardinality(S \cap {"cancel"}) = 0
<1> SUFFICES ASSUME NEW S
             PROVE  /\ "cancel" \in S => Cardinality(S \cap {"cancel"}) = 1
                    /\ "cancel" \notin S => Cardinality(S \cap {"cancel"}) = 0
  OBVIOUS
<1>1. CASE "cancel" \in S
  <2>1. S \cap {"cancel"} = {"cancel"} BY <1>1
  <2> QED BY <1>1, <2>1, FS_Singleton
<1>2. CASE "cancel" \notin S
  <2>1. S \cap {"cancel"} = {} BY <1>2
  <2>2. Cardinality({}) = 0 BY FS_EmptySet
  <2> QED BY <1>2, <2>1, <2>2
<1> QED BY <1>1, <1>2

(* What the count of disturbances is made of.                               *)
LEMMA DisturbancesAre ==
  /\ "cancel" \in requests => Disturbances = faults + 1
  /\ "cancel" \notin requests => Disturbances = faults + 0
  /\ "cancel" \in requests' => Disturbances' = faults' + 1
  /\ "cancel" \notin requests' => Disturbances' = faults' + 0
  BY CancelCount DEF Disturbances

(* The account is of numbers.                                               *)
LEMMA PaidType ==
  ASSUME TypeOK, TypeOK', NEW r \in Recipient
  PROVE  Paid(r) \in Nat /\ Disturbances \in Nat /\ Paid(r)' \in Nat /\ Disturbances' \in Nat
<1>1. /\ faults \in Nat /\ faults' \in Nat /\ mails[r] \in Nat /\ mails'[r] \in Nat
  BY DEF TypeOK
<1>2. Disturbances \in Nat /\ Disturbances' \in Nat BY <1>1, DisturbancesAre
<1>3. Paid(r) \in Nat BY <1>1 DEF Paid, Owed
<1>4. Paid(r)' \in Nat BY <1>1 DEF Paid, Owed
<1> QED BY <1>2, <1>3, <1>4

(* A balanced step keeps the account: what is mailed is paid for.           *)
LEMMA BalanceKept ==
  ASSUME TypeOK, TypeOK', NEW r \in Recipient, IsFiniteSet(Strays(r)),
         Paid(r) + Cardinality(Strays(r)) <= 1 + Disturbances, Balanced(r)
  PROVE  /\ IsFiniteSet(Strays(r)')
         /\ Paid(r)' + Cardinality(Strays(r)') <= 1 + Disturbances'
<1> DEFINE S == Strays(r)  T == Strays(r)'  d == Disturbances  e == Disturbances'
           m == Paid(r)  n == Paid(r)'
<1>1. m \in Nat /\ n \in Nat /\ d \in Nat /\ e \in Nat BY PaidType
<1>3. \/ T \subseteq S /\ n + d <= m + e
      \/ \E w \in S : T \subseteq S \ {w} /\ n + d <= m + 1 + e
      \/ \E w \in Worker : T \subseteq S \cup {w} /\ n + 1 + d <= m + e
  BY DEF Balanced
<1>4. IsFiniteSet(S) /\ m + Cardinality(S) <= 1 + d OBVIOUS
<1> HIDE DEF S, T, d, e, m, n
<1>2. Cardinality(S) \in Nat BY <1>4, FS_CardinalityType
<1>5. CASE T \subseteq S /\ n + d <= m + e
  <2>1. IsFiniteSet(T) /\ Cardinality(T) <= Cardinality(S) /\ Cardinality(T) \in Nat
    BY <1>4, <1>5, FS_Subset, FS_CardinalityType
  <2> QED BY <1>1, <1>2, <1>4, <1>5, <2>1 DEF S, T, d, e, m, n
<1>6. ASSUME NEW w \in S, T \subseteq S \ {w}, n + d <= m + 1 + e
      PROVE  IsFiniteSet(T) /\ n + Cardinality(T) <= 1 + e
  <2>1. IsFiniteSet(S \ {w}) /\ Cardinality(S \ {w}) = Cardinality(S) - 1
    BY <1>4, FS_RemoveElement
  <2>2. IsFiniteSet(T) /\ Cardinality(T) <= Cardinality(S) - 1 /\ Cardinality(T) \in Nat
    BY <1>6, <2>1, FS_Subset, FS_CardinalityType
  <2> QED BY <1>1, <1>2, <1>4, <1>6, <2>2
<1>7. ASSUME NEW w \in Worker, T \subseteq S \cup {w}, n + 1 + d <= m + e
      PROVE  IsFiniteSet(T) /\ n + Cardinality(T) <= 1 + e
  <2>0. Cardinality(S) <= Cardinality(S) + 1 BY <1>2
  <2>1. IsFiniteSet(S \cup {w}) /\ Cardinality(S \cup {w}) <= Cardinality(S) + 1
    <3>1. w \in S => Cardinality(S \cup {w}) = Cardinality(S) BY <1>4, FS_AddElement
    <3>2. w \notin S => Cardinality(S \cup {w}) = Cardinality(S) + 1 BY <1>4, FS_AddElement
    <3>3. IsFiniteSet(S \cup {w}) BY <1>4, FS_AddElement
    <3> QED BY <1>2, <2>0, <3>1, <3>2, <3>3
  <2>2. /\ IsFiniteSet(T) /\ Cardinality(T) <= Cardinality(S \cup {w})
        /\ Cardinality(T) \in Nat /\ Cardinality(S \cup {w}) \in Nat
    BY <1>7, <2>1, FS_Subset, FS_CardinalityType
  <2> QED BY <1>1, <1>2, <1>4, <1>7, <2>1, <2>2
<1> QED BY <1>3, <1>5, <1>6, <1>7 DEF S, T, e, n

(* A step that neither mails nor cancels, by which no run may do more than  *)
(* before.                                                                  *)
LEMMA NothingNew ==
  ASSUME TypeOK, TypeOK', NEW r \in Recipient, Strays(r)' \subseteq Strays(r), mails'[r] = mails[r],
         canceling' = canceling, "cancel" \in requests => "cancel" \in requests',
         \/ (Due(r)' => Due(r)) /\ faults <= faults'
         \/ faults' = faults + 1
  PROVE  Balanced(r)
<1>1. /\ faults \in Nat /\ faults' \in Nat /\ mails[r] \in Nat /\ mails'[r] \in Nat
  BY DEF TypeOK
<1>2. /\ "cancel" \in requests => Disturbances = faults + 1
      /\ "cancel" \notin requests => Disturbances = faults
      /\ "cancel" \in requests' => Disturbances' = faults' + 1
      /\ "cancel" \notin requests' => Disturbances' = faults'
  BY <1>1, DisturbancesAre
<1> DEFINE due == Due(r)  next == Due(r)'
<1>3. /\ Paid(r) = mails[r] + ((IF due THEN 1 ELSE 0) + (IF canceling THEN 1 ELSE 0))
      /\ Paid(r)' = mails'[r] + ((IF next THEN 1 ELSE 0) + (IF canceling' THEN 1 ELSE 0))
  BY DEF Paid, Owed
<1> HIDE DEF due, next
<1>4. Paid(r)' + Disturbances <= Paid(r) + Disturbances'
  <2>1. \/ (next => due) /\ faults <= faults'
        \/ faults' = faults + 1
    BY DEF due, next
  <2> QED BY <1>1, <1>2, <1>3, <2>1
<1> QED BY <1>4 DEF Balanced

(* What is paid, in each case.                                              *)
LEMMA PaidIs ==
  ASSUME TypeOK, TypeOK', NEW r \in Recipient
  PROVE  /\ mails[r] \in Nat /\ mails'[r] \in Nat /\ faults \in Nat /\ faults' \in Nat
         /\ Due(r) /\ canceling => Paid(r) = mails[r] + 2
         /\ Due(r) /\ ~canceling => Paid(r) = mails[r] + 1
         /\ ~Due(r) /\ canceling => Paid(r) = mails[r] + 1
         /\ ~Due(r) /\ ~canceling => Paid(r) = mails[r]
         /\ Due(r)' /\ canceling' => Paid(r)' = mails'[r] + 2
         /\ Due(r)' /\ ~canceling' => Paid(r)' = mails'[r] + 1
         /\ ~Due(r)' /\ canceling' => Paid(r)' = mails'[r] + 1
         /\ ~Due(r)' /\ ~canceling' => Paid(r)' = mails'[r]
<1>1. /\ faults \in Nat /\ faults' \in Nat /\ mails[r] \in Nat /\ mails'[r] \in Nat
  BY DEF TypeOK
<1> DEFINE due == Due(r)  next == Due(r)'
<1>2. /\ Paid(r) = mails[r] + ((IF due THEN 1 ELSE 0) + (IF canceling THEN 1 ELSE 0))
      /\ Paid(r)' = mails'[r] + ((IF next THEN 1 ELSE 0) + (IF canceling' THEN 1 ELSE 0))
  BY DEF Paid, Owed
<1> HIDE DEF due, next
<1>3. /\ due /\ canceling => Paid(r) = mails[r] + 2
      /\ due /\ ~canceling => Paid(r) = mails[r] + 1
      /\ ~due /\ canceling => Paid(r) = mails[r] + 1
      /\ ~due /\ ~canceling => Paid(r) = mails[r]
  BY <1>1, <1>2
<1>4. /\ next /\ canceling' => Paid(r)' = mails'[r] + 2
      /\ next /\ ~canceling' => Paid(r)' = mails'[r] + 1
      /\ ~next /\ canceling' => Paid(r)' = mails'[r] + 1
      /\ ~next /\ ~canceling' => Paid(r)' = mails'[r]
  BY <1>1, <1>2
<1> QED BY <1>1, <1>3, <1>4 DEF due, next

(* A fault makes a stray.                                                   *)
LEMMA StrayPaid ==
  ASSUME TypeOK, TypeOK', NEW r \in Recipient, NEW w \in Worker,
         Strays(r)' \subseteq Strays(r) \cup {w}, mails' = mails,
         canceling' = canceling, requests' = requests, Due(r)' => Due(r),
         faults' = faults + 1
  PROVE  Balanced(r)
<1>1. Paid(r)' <= Paid(r)
  <2>1. CASE Due(r)' BY <2>1, PaidIs
  <2>2. CASE ~Due(r)' /\ Due(r) BY <2>2, PaidIs
  <2>3. CASE ~Due(r)' /\ ~Due(r) BY <2>3, PaidIs
  <2> QED BY <2>1, <2>2, <2>3
<1>2. Disturbances' = Disturbances + 1 BY PaidIs, DisturbancesAre
<1>3. Paid(r)' + 1 + Disturbances <= Paid(r) + Disturbances' BY <1>1, <1>2, PaidType
<1> QED BY <1>3 DEF Balanced

(* A mail is paid for by the debt it settles or by a fault.                 *)
LEMMA MailPaid ==
  ASSUME TypeOK, TypeOK', NEW r \in Recipient, Strays(r)' \subseteq Strays(r),
         mails'[r] = mails[r] + 1, canceling' = canceling, requests' = requests,
         \/ Due(r) /\ ~Due(r)' /\ faults' = faults
         \/ (Due(r)' => Due(r)) /\ faults' = faults + 1
  PROVE  Balanced(r)
<1>1. CASE Due(r) /\ ~Due(r)' /\ faults' = faults
  <2>1. Paid(r)' = Paid(r) BY <1>1, PaidIs
  <2>2. Disturbances' = Disturbances BY <1>1, PaidIs, DisturbancesAre
  <2> QED BY <2>1, <2>2, PaidType DEF Balanced
<1>2. CASE (Due(r)' => Due(r)) /\ faults' = faults + 1
  <2>1. Paid(r)' <= Paid(r) + 1
    <3>1. CASE Due(r)' BY <1>2, <3>1, PaidIs
    <3>2. CASE ~Due(r)' /\ Due(r) BY <3>2, PaidIs
    <3>3. CASE ~Due(r)' /\ ~Due(r) BY <3>3, PaidIs
    <3> QED BY <3>1, <3>2, <3>3
  <2>2. Disturbances' = Disturbances + 1 BY <1>2, PaidIs, DisturbancesAre
  <2>3. Paid(r)' + Disturbances <= Paid(r) + Disturbances' BY <2>1, <2>2, PaidType
  <2> QED BY <2>3 DEF Balanced
<1> QED BY <1>1, <1>2

(* A stray is spent on a mail, or on a failure that makes one due.          *)
LEMMA StraySpent ==
  ASSUME TypeOK, TypeOK', NEW r \in Recipient, NEW w \in Strays(r),
         Strays(r)' \subseteq Strays(r) \ {w},
         canceling' = canceling, requests' = requests, faults' = faults,
         \/ mails'[r] = mails[r]
         \/ mails'[r] = mails[r] + 1 /\ (Due(r)' => Due(r))
  PROVE  Balanced(r)
<1>1. Paid(r)' <= Paid(r) + 1
  <2>1. CASE Due(r)' /\ Due(r) BY <2>1, PaidIs
  <2>2. CASE ~Due(r)' /\ Due(r) BY <2>2, PaidIs
  <2>3. CASE ~Due(r)' /\ ~Due(r) BY <2>3, PaidIs
  <2>4. CASE Due(r)' /\ ~Due(r) BY <2>4, PaidIs
  <2> QED BY <2>1, <2>2, <2>3, <2>4
<1>2. Disturbances' = Disturbances BY DisturbancesAre
<1>3. Paid(r)' + Disturbances <= Paid(r) + 1 + Disturbances' BY <1>1, <1>2, PaidType
<1> QED BY <1>3 DEF Balanced

(* A cancellation is a disturbance, and is owed until it reaches the jobs.  *)
LEMMA CancelPaid ==
  ASSUME TypeOK, TypeOK', NEW r \in Recipient, Strays(r)' \subseteq Strays(r),
         mails' = mails, faults' = faults, Due(r)' => Due(r), canceling',
         "cancel" \notin requests, "cancel" \in requests'
  PROVE  Balanced(r)
<1>1. Paid(r)' <= Paid(r) + 1
  <2>1. CASE Due(r)' BY <2>1, PaidIs
  <2>2. CASE ~Due(r)' /\ Due(r) BY <2>2, PaidIs
  <2>3. CASE ~Due(r)' /\ ~Due(r) BY <2>3, PaidIs
  <2> QED BY <2>1, <2>2, <2>3
<1>2. Disturbances' = Disturbances + 1 BY PaidIs, DisturbancesAre
<1>3. Paid(r)' + Disturbances <= Paid(r) + Disturbances' BY <1>1, <1>2, PaidType
<1> QED BY <1>3 DEF Balanced

(* Reaching the jobs settles it: for the run that becomes a stray, or for a *)
(* mail that becomes due.                                                   *)
LEMMA WithdrawalPaid ==
  ASSUME TypeOK, TypeOK', NEW r \in Recipient, mails' = mails, faults' = faults,
         canceling, ~canceling', requests' = requests,
         \/ Strays(r)' \subseteq Strays(r)
         \/ /\ Due(r)' => Due(r)
            /\ \E w \in Worker : Strays(r)' \subseteq Strays(r) \cup {w}
  PROVE  Balanced(r)
<1>1. Disturbances' = Disturbances BY DisturbancesAre
<1>2. CASE Strays(r)' \subseteq Strays(r)
  <2>1. Paid(r)' <= Paid(r)
    <3>1. CASE Due(r)' /\ Due(r) BY <3>1, PaidIs
    <3>2. CASE ~Due(r)' /\ Due(r) BY <3>2, PaidIs
    <3>3. CASE ~Due(r)' /\ ~Due(r) BY <3>3, PaidIs
    <3>4. CASE Due(r)' /\ ~Due(r) BY <3>4, PaidIs
    <3> QED BY <3>1, <3>2, <3>3, <3>4
  <2>2. Paid(r)' + Disturbances <= Paid(r) + Disturbances' BY <1>1, <2>1, PaidType
  <2> QED BY <1>2, <2>2 DEF Balanced
<1>3. ASSUME Due(r)' => Due(r), NEW w \in Worker, Strays(r)' \subseteq Strays(r) \cup {w}
      PROVE  Balanced(r)
  <2>1. Paid(r)' + 1 <= Paid(r)
    <3>1. CASE Due(r)' BY <1>3, <3>1, PaidIs
    <3>2. CASE ~Due(r)' /\ Due(r) BY <3>2, PaidIs
    <3>3. CASE ~Due(r)' /\ ~Due(r) BY <3>3, PaidIs
    <3> QED BY <3>1, <3>2, <3>3
  <2>2. Paid(r)' + 1 + Disturbances <= Paid(r) + Disturbances' BY <1>1, <2>1, PaidType
  <2> QED BY <1>3, <2>2 DEF Balanced
<1> QED BY <1>2, <1>3

(* A step of any kind keeps the account of every recipient.                 *)
LEMMA StepBalanced ==
  ASSUME TypeOK, TypeOK', LoopInv, NEW r \in Recipient, [Next]_vars
  PROVE  Balanced(r)
<1> USE DEF mailVars, inputVars, jobVars, leaseVars, localVars, requestVars, At
<1>t. /\ faults \in Nat /\ \A w \in Worker : pc[w] = "record" <=> to[w] \in Recipient
      /\ pc \in [Worker -> Stages] /\ todo \in [Worker -> SUBSET Recipient]
      /\ to \in [Worker -> Recipient \cup {NoRecipient}]
      /\ result \in [Worker -> {"sent", "failed"}]
  BY DEF TypeOK, LoopInv
<1>1. ASSUME NEW w \in Worker, StartRun(w) PROVE Balanced(r)
  <2> DEFINE old == token[SendRecap]
  <2>1. /\ mails' = mails /\ canceling' = canceling /\ requests' = requests /\ row' = row
        /\ to' = to /\ result' = result /\ todo' = todo /\ pc' = [pc EXCEPT ![w] = "attendees"]
        /\ phase' = [phase EXCEPT ![SendRecap] = "held"]
        /\ token' = [token EXCEPT ![SendRecap] = w]
        /\ <<SendRecap, w>> \notin claims
    BY <1>1 DEF StartRun, Goto, Lease!Grant
  <2>2. \A v \in Worker : Holds(v)' <=> v = w
    BY <2>1 DEF Holds, TypeOK
  <2>3. \A v \in Worker : <<SendRecap, v>> \notin claims => pc[v] = "idle" /\ to[v] \notin Recipient
    BY <1>t DEF TypeOK, Working
  <2>4. pc[w] = "idle" /\ to[w] \notin Recipient BY <2>1, <2>3
  <2>5. \A v \in Worker \ {w} : pc'[v] = pc[v] BY <1>t, <2>1
  <2>6. pc'[w] = "attendees" BY <1>t, <2>1
  <2>7. \A v \in Worker : Holds(v) => v = old BY DEF Holds
  <2>8. Strays(r)' \subseteq Strays(r) \cup {old}
    BY <2>1, <2>2, <2>5, <2>7 DEF Strays, MayMail, MayFail
  <2>9. Due(r)' => row[r] # "sent"
    BY <2>1, <2>2, <2>4, <2>6 DEF Due, MayFail
  <2>10. CASE <<SendRecap, old>> \in claims
    <3>1. faults' = faults + 1 BY <1>1, <2>10 DEF StartRun, Fault
    <3>2. old \in Worker BY <2>10 DEF TypeOK
    <3>3. CASE Holds(old) /\ to[old] = r /\ result[old] = "sent"
      <4>1. pc[old] = "record" /\ r \notin todo[old]
        BY <1>t, <3>2, <3>3 DEF LoopInv
      <4>2. old # w BY <2>4, <4>1
      <4>3. old \notin Strays(r)'
        BY <2>1, <2>5, <3>2, <3>3, <4>1, <4>2 DEF Strays, MayMail, MayFail
      <4>4. Strays(r)' \subseteq Strays(r) BY <2>8, <4>3
      <4> QED BY <2>1, <3>1, <4>4, NothingNew
    <3>4. CASE ~(Holds(old) /\ to[old] = r /\ result[old] = "sent")
      <4>1. Due(r)' => Due(r) BY <2>7, <2>9, <3>4 DEF Due
      <4> QED BY <2>1, <2>8, <3>1, <3>2, <4>1, StrayPaid
    <3> QED BY <3>3, <3>4
  <2>11. CASE <<SendRecap, old>> \notin claims
    <3>1. faults' = faults BY <1>1, <2>11 DEF StartRun
    <3>2. \A v \in Worker : Holds(v) => pc[v] = "idle" /\ to[v] \notin Recipient
      BY <2>3, <2>7, <2>11
    <3>3. Strays(r)' \subseteq Strays(r)
      BY <2>1, <2>2, <2>5, <3>2 DEF Strays, MayMail, MayFail
    <3>4. Due(r)' => Due(r) BY <2>9, <3>2 DEF Due
    <3> QED BY <1>t, <2>1, <3>1, <3>3, <3>4, NothingNew
  <2> QED BY <2>10, <2>11
<1>2. ASSUME NEW w \in Worker, ReadAttendees(w) PROVE Balanced(r)
  <2>1. Strays(r)' \subseteq Strays(r)
    BY <1>t, <1>2
    DEF ReadAttendees, Goto, Strays, Holds, MayMail, MayFail
  <2>2. Due(r)' => Due(r)
    BY <1>t, <1>2 DEF ReadAttendees, Goto, Due, Holds, MayFail
  <2>3. /\ mails' = mails /\ canceling' = canceling /\ faults' = faults
        /\ requests' = requests
    BY <1>2 DEF ReadAttendees
  <2> QED BY <1>t, <2>1, <2>2, <2>3, NothingNew
<1>3. ASSUME NEW w \in Worker, SkipDelivery(w) PROVE Balanced(r)
  <2>1. Strays(r)' \subseteq Strays(r)
    BY <1>t, <1>3
    DEF SkipDelivery, Goto, Strays, Holds, MayMail, MayFail
  <2>2. Due(r)' => Due(r)
    BY <1>t, <1>3 DEF SkipDelivery, Goto, Due, Holds, MayFail
  <2>3. /\ mails' = mails /\ canceling' = canceling /\ faults' = faults
        /\ requests' = requests
    BY <1>3 DEF SkipDelivery
  <2> QED BY <1>t, <2>1, <2>2, <2>3, NothingNew
<1>4. ASSUME NEW w \in Worker, MarkSending(w) PROVE Balanced(r)
  <2>1. Strays(r)' \subseteq Strays(r)
    BY <1>t, <1>4
    DEF MarkSending, Goto, Strays, Holds, MayMail, MayFail
  <2>2. Due(r)' => Due(r)
    BY <1>t, <1>4 DEF MarkSending, Goto, Due, Holds, MayFail
  <2>3. /\ mails' = mails /\ canceling' = canceling /\ faults' = faults
        /\ requests' = requests
    BY <1>4 DEF MarkSending
  <2> QED BY <1>t, <2>1, <2>2, <2>3, NothingNew
<1>5. ASSUME NEW w \in Worker, ListDeliveries(w) PROVE Balanced(r)
  <2>1. Strays(r)' \subseteq Strays(r)
    BY <1>t, <1>5
    DEF ListDeliveries, Goto, Strays, Holds, MayMail, MayFail
  <2>2. Due(r)' => Due(r)
    BY <1>t, <1>5 DEF ListDeliveries, Goto, Due, Holds, MayFail
  <2>3. /\ mails' = mails /\ canceling' = canceling /\ faults' = faults
        /\ requests' = requests
    BY <1>5 DEF ListDeliveries
  <2> QED BY <1>t, <2>1, <2>2, <2>3, NothingNew
<1>6. ASSUME NEW w \in Worker, NEW q \in Recipient, SendMail(w, q) PROVE Balanced(r)
  <2>1. /\ canceling' = canceling /\ requests' = requests /\ row' = row
        /\ phase' = phase /\ token' = token
        /\ to' = [to EXCEPT ![w] = q] /\ todo' = [todo EXCEPT ![w] = @ \ {q}]
        /\ pc' = [pc EXCEPT ![w] = "record"]
        /\ pc[w] = "send" /\ q \in todo[w] /\ to[w] \notin Recipient
    BY <1>t, <1>6 DEF SendMail, Goto
  <2>2. PICK outcome \in {"sent", "failed", "lost_answer"} :
          /\ mails' = [mails EXCEPT ![q] = IF outcome = "failed" THEN @ ELSE @ + 1]
          /\ result' = [result EXCEPT ![w] = IF outcome = "sent" THEN "sent" ELSE "failed"]
          /\ IF outcome = "lost_answer" THEN Fault ELSE UNCHANGED faults
    BY <1>6 DEF SendMail
  <2>3. /\ outcome = "failed" => mails' = mails /\ faults' = faults
        /\ outcome = "sent" => mails'[q] = mails[q] + 1 /\ faults' = faults
        /\ outcome = "lost_answer" => mails'[q] = mails[q] + 1 /\ faults' = faults + 1
    BY <2>2 DEF Fault, TypeOK
  <2>4. \A v \in Worker : Holds(v)' = Holds(v) BY <2>1 DEF Holds
  <2>5. \A v \in Worker \ {w} : /\ pc'[v] = pc[v] /\ to'[v] = to[v]
                                /\ todo'[v] = todo[v] /\ result'[v] = result[v]
    BY <1>t, <2>1, <2>2
  <2>6. /\ pc'[w] = "record" /\ to'[w] = q /\ todo'[w] = todo[w] \ {q}
        /\ outcome = "sent" => result'[w] = "sent"
        /\ outcome # "sent" => result'[w] = "failed"
    BY <1>t, <2>1, <2>2
  <2>7. CASE q # r
    <3>1. mails'[r] = mails[r] BY <2>2, <2>7 DEF TypeOK
    <3>2. Strays(r)' \subseteq Strays(r)
      BY <2>1, <2>4, <2>5, <2>6, <2>7 DEF Strays, MayMail, MayFail
    <3>3. Due(r)' => Due(r)
      BY <2>1, <2>4, <2>5, <2>6, <2>7 DEF Due, MayFail
    <3> QED BY <1>t, <2>1, <2>3, <3>1, <3>2, <3>3, NothingNew
  <2>8. CASE q = r /\ Holds(w)
    <3>1. Due(r) BY <2>1, <2>8 DEF Due
    <3>2. Strays(r)' \subseteq Strays(r)
      BY <2>1, <2>4, <2>5, <2>8 DEF Strays, MayMail, MayFail
    <3>3. CASE outcome = "failed"
      BY <1>t, <2>1, <2>3, <3>1, <3>2, <3>3, NothingNew
    <3>4. CASE outcome = "sent"
      <4>1. \A v \in Worker : Holds(v) => v = w BY <2>8 DEF Holds
      <4>2. ~Due(r)' BY <2>4, <2>6, <2>8, <3>4, <4>1 DEF Due, MayFail
      <4> QED BY <2>1, <2>3, <2>8, <3>1, <3>2, <3>4, <4>2, MailPaid
    <3>5. CASE outcome = "lost_answer"
      BY <2>1, <2>3, <2>8, <3>1, <3>2, <3>5, MailPaid
    <3> QED BY <3>3, <3>4, <3>5
  <2>9. CASE q = r /\ ~Holds(w)
    <3>1. Strays(r)' \subseteq Strays(r) /\ w \in Strays(r)
      BY <2>1, <2>4, <2>5, <2>9 DEF Strays, MayMail, MayFail
    <3>2. Due(r)' => Due(r)
      BY <2>1, <2>4, <2>5, <2>9 DEF Due, MayFail
    <3>3. CASE outcome = "failed"
      BY <1>t, <2>1, <2>3, <3>1, <3>2, <3>3, NothingNew
    <3>4. CASE outcome = "sent"
      <4>1. w \notin Strays(r)'
        BY <2>6, <2>9, <3>4 DEF Strays, MayMail, MayFail
      <4>2. Strays(r)' \subseteq Strays(r) \ {w} BY <3>1, <4>1
      <4> QED BY <2>1, <2>3, <2>9, <3>1, <3>2, <3>4, <4>2, StraySpent
    <3>5. CASE outcome = "lost_answer"
      BY <2>1, <2>3, <2>9, <3>1, <3>2, <3>5, MailPaid
    <3> QED BY <3>3, <3>4, <3>5
  <2> QED BY <2>7, <2>8, <2>9
<1>7. ASSUME NEW w \in Worker, RecordDelivery(w) PROVE Balanced(r)
  <2>1. /\ mails' = mails /\ canceling' = canceling /\ requests' = requests
        /\ phase' = phase /\ token' = token /\ faults' = faults /\ todo' = todo
        /\ to' = [to EXCEPT ![w] = NoRecipient]
        /\ row' = [row EXCEPT ![to[w]] = result[w]]
        /\ pc' = [pc EXCEPT ![w] = "send"] /\ result' = [result EXCEPT ![w] = "failed"]
        /\ pc[w] = "record" /\ to[w] \in Recipient /\ to[w] \notin todo[w]
    BY <1>t, <1>7 DEF RecordDelivery, Goto, LoopInv
  <2>2. \A v \in Worker : Holds(v)' = Holds(v) BY <2>1 DEF Holds
  <2>3. \A v \in Worker \ {w} : /\ pc'[v] = pc[v] /\ to'[v] = to[v] /\ result'[v] = result[v]
    BY <1>t, <2>1
  <2>4. pc'[w] = "send" /\ to'[w] \notin Recipient
    BY <1>t, <2>1
  <2>5. Strays(r)' \subseteq Strays(r)
    BY <2>1, <2>2, <2>3, <2>4 DEF Strays, MayMail, MayFail
  <2>6. CASE to[w] # r
    <3>1. row'[r] = row[r] BY <2>1, <2>6 DEF TypeOK
    <3>2. Due(r)' => Due(r)
      BY <2>1, <2>2, <2>3, <2>4, <2>6, <3>1 DEF Due, MayFail
    <3> QED BY <1>t, <2>1, <2>5, <3>2, NothingNew
  <2>7. CASE to[w] = r /\ result[w] = "sent"
    <3>1. row'[r] = "sent" BY <2>1, <2>7 DEF TypeOK
    <3>2. Due(r)' => Due(r)
      BY <2>1, <2>2, <2>3, <2>4, <2>7, <3>1 DEF Due, MayFail
    <3> QED BY <1>t, <2>1, <2>5, <3>2, NothingNew
  <2>8. CASE to[w] = r /\ result[w] # "sent"
    <3>1. MayFail(w, r) BY <1>t, <2>8 DEF MayFail
    <3>2. CASE Holds(w)
      <4>1. Due(r) BY <3>1, <3>2 DEF Due
      <4> QED BY <1>t, <2>1, <2>5, <4>1, NothingNew
    <3>3. CASE ~Holds(w)
      <4>1. w \in Strays(r) BY <3>1, <3>3 DEF Strays
      <4>2. w \notin Strays(r)'
        BY <2>1, <2>4, <2>8 DEF Strays, MayMail, MayFail
      <4>3. Strays(r)' \subseteq Strays(r) \ {w} BY <2>5, <4>2
      <4> QED BY <2>1, <4>1, <4>3, StraySpent
    <3> QED BY <3>2, <3>3
  <2> QED BY <2>6, <2>7, <2>8
<1>8. ASSUME NEW w \in Worker, EndLoop(w) PROVE Balanced(r)
  <2>1. Strays(r)' \subseteq Strays(r)
    BY <1>t, <1>8
    DEF EndLoop, Goto, Throw, Strays, Holds, MayMail, MayFail
  <2>2. Due(r)' => Due(r)
    BY <1>t, <1>8 DEF EndLoop, Goto, Throw, Due, Holds, MayFail
  <2>3. /\ mails' = mails /\ canceling' = canceling /\ faults' = faults
        /\ requests' = requests
    BY <1>8 DEF EndLoop
  <2> QED BY <1>t, <2>1, <2>2, <2>3, NothingNew
<1>9. ASSUME NEW w \in Worker, MarkCompleted(w) PROVE Balanced(r)
  <2>1. Strays(r)' \subseteq Strays(r)
    BY <1>t, <1>9
    DEF MarkCompleted, Goto, Strays, Holds, MayMail, MayFail
  <2>2. Due(r)' => Due(r)
    BY <1>t, <1>9 DEF MarkCompleted, Goto, Due, Holds, MayFail
  <2>3. /\ mails' = mails /\ canceling' = canceling /\ faults' = faults
        /\ requests' = requests
    BY <1>9 DEF MarkCompleted
  <2> QED BY <1>t, <2>1, <2>2, <2>3, NothingNew
<1>10. ASSUME NEW w \in Worker, CompleteJob(w) PROVE Balanced(r)
  <2>1. Strays(r)' \subseteq Strays(r)
    BY <1>t, <1>10
    DEF CompleteJob, Throw, Goto, Rest, Lease!Settle, Lease!Forget, Strays, Holds, MayMail, MayFail
  <2>2. Due(r)' => Due(r)
    BY <1>t, <1>10
    DEF CompleteJob, Throw, Goto, Rest, Lease!Settle, Lease!Forget, Due, Holds, MayFail
  <2>3. /\ mails' = mails /\ canceling' = canceling /\ faults' = faults
        /\ requests' = requests
    BY <1>10 DEF CompleteJob
  <2> QED BY <1>t, <2>1, <2>2, <2>3, NothingNew
<1>11. ASSUME NEW w \in Worker, MissRecap(w) PROVE Balanced(r)
  <2>1. Strays(r)' \subseteq Strays(r)
    BY <1>t, <1>11
    DEF MissRecap, Throw, Goto, Strays, Holds, MayMail, MayFail
  <2>2. Due(r)' => Due(r)
    BY <1>t, <1>11 DEF MissRecap, Throw, Goto, Due, Holds, MayFail
  <2>3. /\ mails' = mails /\ canceling' = canceling /\ faults' = faults
        /\ requests' = requests
    BY <1>11 DEF MissRecap
  <2> QED BY <1>t, <2>1, <2>2, <2>3, NothingNew
<1>12. ASSUME NEW w \in Worker, FailJobRead(w) PROVE Balanced(r)
  <2>1. Strays(r)' \subseteq Strays(r)
    BY <1>t, <1>12
    DEF FailJobRead, Goto, Throw, Rest, Lease!Forget, Strays, Holds, MayMail, MayFail
  <2>2. Due(r)' => Due(r)
    BY <1>t, <1>12
    DEF FailJobRead, Goto, Throw, Rest, Lease!Forget, Due, Holds, MayFail
  <2>3. /\ mails' = mails /\ canceling' = canceling /\ faults' = faults
        /\ requests' = requests
    BY <1>12 DEF FailJobRead
  <2> QED BY <1>t, <2>1, <2>2, <2>3, NothingNew
<1>13. ASSUME NEW w \in Worker, FailJobWrite(w) PROVE Balanced(r)
  <2>1. Strays(r)' \subseteq Strays(r)
    BY <1>t, <1>13
    DEF FailJobWrite, Goto, Throw, Rest, Lease!Settle, Strays, Holds, MayMail, MayFail
  <2>2. Due(r)' => Due(r)
    BY <1>t, <1>13
    DEF FailJobWrite, Goto, Throw, Rest, Lease!Settle, Due, Holds, MayFail
  <2>3. /\ mails' = mails /\ canceling' = canceling /\ faults' = faults
        /\ requests' = requests
    BY <1>13 DEF FailJobWrite
  <2> QED BY <1>t, <2>1, <2>2, <2>3, NothingNew
<1>14. ASSUME NEW w \in Worker, ReadOccurrence(w) PROVE Balanced(r)
  <2>1. Strays(r)' \subseteq Strays(r)
    BY <1>t, <1>14
    DEF ReadOccurrence, Goto, Throw, Rest, Lease!Forget, Strays, Holds, MayMail, MayFail
  <2>2. Due(r)' => Due(r)
    BY <1>t, <1>14
    DEF ReadOccurrence, Goto, Throw, Rest, Lease!Forget, Due, Holds, MayFail
  <2>3. /\ mails' = mails /\ canceling' = canceling /\ faults' = faults
        /\ requests' = requests
    BY <1>14 DEF ReadOccurrence
  <2> QED BY <1>t, <2>1, <2>2, <2>3, NothingNew
<1>15. ASSUME NEW w \in Worker, SurfaceFailure(w) PROVE Balanced(r)
  <2>1. Strays(r)' \subseteq Strays(r)
    BY <1>t, <1>15
    DEF SurfaceFailure, Throw, Goto, Rest, Lease!Forget, Strays, Holds, MayMail, MayFail
  <2>2. Due(r)' => Due(r)
    BY <1>t, <1>15
    DEF SurfaceFailure, Throw, Goto, Rest, Lease!Forget, Due, Holds, MayFail
  <2>3. /\ mails' = mails /\ canceling' = canceling /\ faults' = faults
        /\ requests' = requests
    BY <1>15 DEF SurfaceFailure
  <2> QED BY <1>t, <2>1, <2>2, <2>3, NothingNew
<1>16. ASSUME NEW w \in Worker, Crash(w) PROVE Balanced(r)
  <2>1. Strays(r)' \subseteq Strays(r)
    BY <1>t, <1>16
    DEF Crash, Throw, Goto, Rest, Lease!Forget, Strays, Holds, MayMail, MayFail
  <2>3. /\ mails' = mails /\ canceling' = canceling /\ faults' = faults + 1
        /\ requests' = requests
    BY <1>16 DEF Crash, Fault
  <2> QED BY <1>t, <2>1, <2>3, NothingNew
<1>17. ASSUME NEW w \in Worker, StatementFails(w) PROVE Balanced(r)
  <2>1. Strays(r)' \subseteq Strays(r)
    BY <1>t, <1>17
    DEF StatementFails, Throw, Goto, Strays, Holds, MayMail, MayFail
  <2>3. /\ mails' = mails /\ canceling' = canceling /\ faults' = faults + 1
        /\ requests' = requests
    BY <1>17 DEF StatementFails, Fault
  <2> QED BY <1>t, <2>1, <2>3, NothingNew
<1>18. CASE CancelOccurrence
  <2>1. /\ mails' = mails /\ faults' = faults /\ row' = row /\ canceling'
        /\ phase' = phase /\ token' = token /\ pc' = pc
        /\ to' = to /\ todo' = todo /\ result' = result
        /\ "cancel" \notin requests /\ "cancel" \in requests'
    BY <1>18 DEF CancelOccurrence, Request
  <2>2. Strays(r)' \subseteq Strays(r) /\ (Due(r)' => Due(r))
    BY <2>1 DEF Strays, Due, Holds, MayMail, MayFail
  <2> QED BY <2>1, <2>2, CancelPaid
<1>19. CASE CancelJobs
  <2>1. /\ mails' = mails /\ faults' = faults /\ row' = row /\ canceling /\ ~canceling'
        /\ requests' = requests /\ pc' = pc
        /\ to' = to /\ todo' = todo /\ result' = result
    BY <1>19 DEF CancelJobs
  <2>2. CASE phase[SendRecap] \in {"open", "held"}
    <3> DEFINE old == token[SendRecap]
    <3>1. token'[SendRecap] = NoWorker
      BY <1>19, <2>2 DEF CancelJobs, Lease!Revoke
    <3>2. \A v \in Worker : ~Holds(v)' BY <3>1 DEF Holds
    <3>3. \A v \in Worker : Holds(v) => v = old BY DEF Holds
    <3>4. Strays(r)' \subseteq Strays(r) \cup {old}
      BY <2>1, <3>3 DEF Strays, MayMail, MayFail
    <3>5. Due(r)' => row[r] # "sent" BY <2>1, <3>2 DEF Due
    <3>6. CASE \E v \in Worker : Holds(v) /\ to[v] = r /\ result[v] = "sent"
      <4>1. /\ old \in Worker /\ Holds(old) /\ to[old] = r /\ result[old] = "sent"
        BY <3>3, <3>6
      <4>2. pc[old] = "record" /\ r \notin todo[old]
        BY <1>t, <4>1 DEF LoopInv
      <4>3. old \notin Strays(r)'
        BY <2>1, <4>1, <4>2 DEF Strays, MayMail, MayFail
      <4>4. Strays(r)' \subseteq Strays(r) BY <3>4, <4>3
      <4> QED BY <2>1, <4>4, WithdrawalPaid
    <3>7. CASE ~\E v \in Worker : Holds(v) /\ to[v] = r /\ result[v] = "sent"
      <4>1. Due(r)' => Due(r) BY <3>5, <3>7 DEF Due
      <4>2. CASE old \in Worker
        BY <2>1, <3>4, <4>1, <4>2, WithdrawalPaid
      <4>3. CASE old \notin Worker
        <5>1. Strays(r)' \subseteq Strays(r) BY <3>4, <4>3 DEF Strays
        <5> QED BY <2>1, <5>1, WithdrawalPaid
      <4> QED BY <4>2, <4>3
    <3> QED BY <3>6, <3>7
  <2>3. CASE phase[SendRecap] \notin {"open", "held"}
    <3>1. phase' = phase /\ token' = token BY <1>19, <2>3 DEF CancelJobs
    <3>2. Strays(r)' \subseteq Strays(r)
      BY <2>1, <3>1 DEF Strays, Holds, MayMail, MayFail
    <3> QED BY <2>1, <3>2, WithdrawalPaid
  <2> QED BY <2>2, <2>3
<1>20. CASE RetryDelivery
  <2>1. Strays(r)' \subseteq Strays(r) /\ (Due(r)' => Due(r))
    <3>1. CASE phase[SendRecap] # "held" /\ Lease!Offer(SendRecap)
      <4>1. \A w \in Worker : ~Holds(w) BY <3>1 DEF Holds
      <4>2. to' = to /\ result' = result /\ pc' = pc /\ todo' = todo /\ row' = row
        BY <1>20 DEF RetryDelivery
      <4>3. Strays(r)' \subseteq Strays(r) BY <4>1, <4>2 DEF Strays, MayMail, MayFail
      <4>4. token'[SendRecap] = NoWorker
        BY <3>1 DEF Lease!Offer, TypeOK
      <4>5. \A w \in Worker : ~Holds(w)' BY <4>4 DEF Holds
      <4>6. Due(r)' => Due(r) BY <4>1, <4>2, <4>5 DEF Due
      <4> QED BY <4>3, <4>6
    <3>2. CASE UNCHANGED leaseVars
      <4>1. /\ to' = to /\ result' = result /\ pc' = pc /\ todo' = todo /\ row' = row
            /\ phase' = phase /\ token' = token
        BY <1>20, <3>2 DEF RetryDelivery
      <4> QED BY <4>1 DEF Strays, Due, Holds, MayMail, MayFail
    <3> QED BY <1>20, <3>1, <3>2 DEF RetryDelivery
  <2>2. /\ mails' = mails /\ canceling' = canceling /\ faults' = faults
        /\ requests \subseteq requests'
    BY <1>20 DEF RetryDelivery, Request
  <2> QED BY <1>t, <2>1, <2>2, NothingNew
<1>21. CASE ReplaceAttendees
  <2>1. Strays(r)' \subseteq Strays(r)
    BY <1>t, <1>21
    DEF ReplaceAttendees, Strays, Holds, MayMail, MayFail
  <2>2. Due(r)' => Due(r)
    BY <1>t, <1>21 DEF ReplaceAttendees, Due, Holds, MayFail
  <2>3. /\ mails' = mails /\ canceling' = canceling /\ faults' = faults
        /\ requests \subseteq requests'
    BY <1>21 DEF ReplaceAttendees, Request
  <2> QED BY <1>t, <2>1, <2>2, <2>3, NothingNew
<1>22. CASE ChangePolicy
  <2>1. Strays(r)' \subseteq Strays(r)
    BY <1>t, <1>22
    DEF ChangePolicy, Strays, Holds, MayMail, MayFail
  <2>2. Due(r)' => Due(r)
    BY <1>t, <1>22 DEF ChangePolicy, Due, Holds, MayFail
  <2>3. /\ mails' = mails /\ canceling' = canceling /\ faults' = faults
        /\ requests \subseteq requests'
    BY <1>22 DEF ChangePolicy, Request
  <2> QED BY <1>t, <2>1, <2>2, <2>3, NothingNew
<1>23. CASE UNCHANGED vars
  <2>1. Strays(r)' \subseteq Strays(r) /\ (Due(r)' => Due(r))
    BY <1>23 DEF vars, Strays, Due, Holds, MayMail, MayFail
  <2>2. mails' = mails /\ canceling' = canceling /\ faults' = faults /\ requests' = requests
    BY <1>23 DEF vars
  <2> QED BY <1>t, <2>1, <2>2, NothingNew
<1> QED
  BY <1>1, <1>2, <1>3, <1>4, <1>5, <1>6, <1>7, <1>8, <1>9, <1>10, <1>11,
     <1>12, <1>13, <1>14, <1>15, <1>16, <1>17, <1>18, <1>19, <1>20, <1>21,
     <1>22, <1>23
  DEF Next, RunStep

(* Initially one mail to everybody is due, and nothing is paid for.         *)
LEMMA InitAccount == Init => AccountInv
<1> SUFFICES ASSUME Init, NEW r \in Recipient
             PROVE  /\ IsFiniteSet(Strays(r))
                    /\ mails[r] + Owed(r) + Cardinality(Strays(r)) <= 1 + Disturbances
  BY DEF AccountInv
<1>1. Strays(r) = {} BY DEF Init, Strays, MayMail, MayFail
<1>2. IsFiniteSet(Strays(r)) /\ Cardinality(Strays(r)) = 0 BY <1>1, FS_EmptySet
<1>3. mails[r] = 0 /\ ~canceling /\ faults = 0 /\ "cancel" \notin requests BY DEF Init
<1>4. Disturbances = 0 BY <1>3, DisturbancesAre
<1> DEFINE due == Due(r)
<1>5. Owed(r) = (IF due THEN 1 ELSE 0) + (IF canceling THEN 1 ELSE 0) BY DEF Owed
<1> HIDE DEF due
<1>6. Owed(r) \in {0, 1} BY <1>3, <1>5
<1> QED BY <1>2, <1>3, <1>4, <1>6

(* Every step keeps the account, since it keeps the account of everybody.   *)
LEMMA StepAccount ==
  ASSUME RunInv, RunInv', AccountInv, [Next]_vars
  PROVE  AccountInv'
<1>1. TypeOK /\ TypeOK' /\ LoopInv BY DEF RunInv
<1>2. ASSUME NEW r \in Recipient
      PROVE  /\ IsFiniteSet(Strays(r)')
             /\ mails'[r] + Owed(r)' + Cardinality(Strays(r)') <= 1 + Disturbances'
  <2>1. /\ IsFiniteSet(Strays(r))
        /\ Paid(r) + Cardinality(Strays(r)) <= 1 + Disturbances
    BY DEF AccountInv, Paid
  <2>2. Balanced(r) BY <1>1, StepBalanced
  <2>3. /\ IsFiniteSet(Strays(r)')
        /\ Paid(r)' + Cardinality(Strays(r)') <= 1 + Disturbances'
    BY <1>1, <2>1, <2>2, BalanceKept
  <2> QED BY <2>3 DEF Paid
<1> QED BY <1>2 DEF AccountInv

(* The inductive invariant holds in every behaviour.                        *)
THEOREM Invariant == Spec => []IInv
<1>1. Init => IInv
  BY InitRunInv, InitAccount DEF IInv, RunInv
<1>2. IInv /\ [Next]_vars => IInv'
  BY StepRunInv, StepAccount DEF IInv, RunInv
<1>3. QED
  BY <1>1, <1>2, PTL DEF Spec

(* A recipient gets the recap a second time only by a fault or by a retry   *)
(* of a canceled job that still ran, once for each.                         *)
THEOREM DuplicatesNeedDisturbancesHolds == Spec => []DuplicatesNeedDisturbances
<1>1. IInv => DuplicatesNeedDisturbances
  <2> SUFFICES ASSUME IInv, NEW r \in Recipient PROVE mails[r] <= 1 + Disturbances
    BY DEF DuplicatesNeedDisturbances
  <2>1. /\ mails[r] \in Nat /\ faults \in Nat BY DEF IInv, TypeOK
  <2>2. Disturbances \in Nat BY <2>1, DisturbancesAre
  <2>3. /\ IsFiniteSet(Strays(r))
        /\ mails[r] + Owed(r) + Cardinality(Strays(r)) <= 1 + Disturbances
    BY DEF IInv, AccountInv
  <2>4. Cardinality(Strays(r)) \in Nat BY <2>3, FS_CardinalityType
  <2>5. Owed(r) \in Nat BY DEF Owed
  <2> QED BY <2>1, <2>2, <2>3, <2>4, <2>5
<1>2. QED
  BY <1>1, Invariant, PTL

(* A run that completes the occurrence has a sent_at for its whole list.    *)
THEOREM CompletedMeansSentHolds == Spec => CompletedMeansSent
<1>1. IInv /\ [Next]_vars
        => [\A w \in Worker : MarkCompleted(w) => list[w] \subseteq sentAt]_vars
  BY DEF IInv, LoopInv, MarkCompleted, At
<1>2. QED
  BY <1>1, Invariant, PTL DEF Spec, CompletedMeansSent

(* No mail goes past the policy of the settings and of the running jobs.    *)
THEOREM NoMailPastPolicyHolds == Spec => NoMailPastPolicy
<1> DEFINE Kept == \A r \in Recipient :
                     r \notin allowed /\ (\A w \in Worker : r \notin policy[w])
                       => mails'[r] = mails[r]
<1>1. IInv /\ [Next]_vars => [Kept]_vars
  <2> SUFFICES ASSUME IInv, Next PROVE Kept
    OBVIOUS
  <2>1. ASSUME NEW w \in Worker, NEW r \in Recipient, SendMail(w, r) PROVE Kept
    BY <2>1 DEF SendMail, Permitted, IInv, TypeOK
  <2>2. CASE UNCHANGED mails
    BY <2>2
  <2>3. QED
    BY <2>1, <2>2
    DEF Next, RunStep, StartRun, ReadAttendees, SkipDelivery, MarkSending,
        ListDeliveries, RecordDelivery, EndLoop, MarkCompleted, CompleteJob,
        MissRecap, FailJobRead, FailJobWrite, ReadOccurrence, SurfaceFailure,
        Crash, StatementFails, CancelOccurrence, CancelJobs, RetryDelivery,
        ReplaceAttendees, ChangePolicy, mailVars
<1>2. QED
  BY <1>1, Invariant, PTL DEF Spec, NoMailPastPolicy
=============================================================================
