----------------------------- MODULE JoinProofs -----------------------------
(***************************************************************************)
(* Theorems about an occurrence and its bot sessions, for every number of  *)
(* sessions, workers and faults and every set of requests.                 *)
(***************************************************************************)
EXTENDS Join, FiniteSetTheorems, TLAPS

USE JoinAssumption

(* The stages of an actor and the values it keeps, as sets of constants.    *)
USE DEF Stages, JoinStages, WebhookStages, FailoverStages, CancelStages,
        Vals, Kinds, Statuses, Final, ActiveStates, EndStates,
        Keys, CalendarKey, AdminKey

(* Initially there is no session, no actor at work and no bot.              *)
LEMMA InitSessionInv == Init => SessionInv
<1> SUFFICES ASSUME Init PROVE SessionInv
  OBVIOUS
<1>1. TypeOK
  <2>1. CalendarKey \in Keys
    OBVIOUS
  <2>2. /\ state \in [Session -> {"absent"} \cup ActiveStates \cup EndStates]
        /\ bot \in [Session -> {"none", "gone"} \cup ActiveStates \cup EndStates]
        /\ slot \in [Session -> {"none"} \cup Kinds]
    BY DEF Init, BotInit
  <2>3. /\ pc \in [Actor -> Stages] /\ val \in [Actor -> Vals]
        /\ sess \in [Actor -> Session \cup {NoSession}]
        /\ key \in [Actor -> Keys]
    BY <2>1 DEF Init, BotInit
  <2>4. /\ occ \in Statuses /\ latest \in Session \cup {NoSession}
        /\ joinAttempts \in 0..AttemptCap /\ faults \in 0..MaxFaults
        /\ event \in {"active", "exdated", "canceled"}
        /\ transcribe \in {"none", "pending", "running", "over"}
    BY DEF Init, BotInit
  <2>5. /\ known \subseteq Session /\ stale \subseteq Session
        /\ aborting \subseteq Session /\ logged \subseteq Session
        /\ used \subseteq Keys /\ queued \subseteq used
        /\ requests \subseteq Requests
    BY <2>1 DEF Init, BotInit
  <2>6. sealed \in BOOLEAN /\ cancelJob \in BOOLEAN
    BY DEF Init, BotInit
  <2>7. QED
    BY <2>2, <2>3, <2>4, <2>5, <2>6 DEF TypeOK
<1>2. OneActiveSession /\ SlotInv /\ RecordingInv
  BY DEF Init, BotInit, OneActiveSession, Active, SlotInv, RecordingInv
<1>3. ActorInv /\ TrackedInv
  BY DEF Init, BotInit, ActorInv, TrackedInv, Owners, Callers, Live
<1>4. QED
  BY <1>1, <1>2, <1>3 DEF SessionInv


(* Every step keeps the invariant: one step per action, one below it for each *)
(* conjunct when the action moves several parts of the state.               *)
LEMMA SessionStep == SessionInv /\ [Next]_vars => SessionInv'
<1> SUFFICES ASSUME SessionInv, [Next]_vars PROVE SessionInv'
  OBVIOUS
<1> USE DEF SessionInv, TypeOK, OneActiveSession, ActorInv, SlotInv, TrackedInv,
            RecordingInv, Owners, Callers, Carries, Active, Live, StateOf,
            occVars, sessionVars, jobVars, botVars, botSessionVars, actorVars, At
<1>1. ASSUME NEW a \in Actor, NEW k \in Keys, TakeJoin(a, k) PROVE SessionInv'
  BY <1>1 DEF TakeJoin, Joinable, Begin
<1>2. ASSUME NEW a \in Actor, NEW s \in Session, ReceiveWebhook(a, s) PROVE SessionInv'
  <2>1. TypeOK'
    BY <1>2 DEF ReceiveWebhook, Begin
  <2>2. OneActiveSession'
    BY <1>2 DEF ReceiveWebhook, Begin
  <2>3. ActorInv'
    BY <1>2 DEF ReceiveWebhook, Begin
  <2>4. SlotInv'
    BY <1>2 DEF ReceiveWebhook, Begin
  <2>5. TrackedInv'
    BY <1>2 DEF ReceiveWebhook, Begin
  <2>6. RecordingInv'
    BY <1>2 DEF ReceiveWebhook, Begin
  <2>7. QED
    BY <2>1, <2>2, <2>3, <2>4, <2>5, <2>6
<1>3. ASSUME NEW a \in Actor, NEW s \in Session, Recover(a, s) PROVE SessionInv'
  <2>1. TypeOK'
    BY <1>3 DEF Recover, Begin, Fault
  <2>2. OneActiveSession'
    BY <1>3 DEF Recover, Begin, Fault
  <2>3. ActorInv'
    BY <1>3 DEF Recover, Begin, Fault
  <2>4. SlotInv'
    BY <1>3 DEF Recover, Begin, Fault
  <2>5. TrackedInv'
    BY <1>3 DEF Recover, Begin, Fault
  <2>6. RecordingInv'
    BY <1>3 DEF Recover, Begin, Fault
  <2>7. QED
    BY <2>1, <2>2, <2>3, <2>4, <2>5, <2>6
<1>4. ASSUME NEW a \in Actor, TakeCancelBot(a) PROVE SessionInv'
  <2>1. CASE ~\E s \in known : Active(s)
    <3>1. /\ UNCHANGED <<occVars, sessionVars, queued, used, transcribe, botVars,
                        actorVars, faults, requests>>
          /\ cancelJob' = FALSE
      BY <1>4, <2>1 DEF TakeCancelBot
    <3>2. TypeOK'
      BY <3>1
    <3>3. OneActiveSession' /\ ActorInv' /\ SlotInv' /\ TrackedInv'
      BY <3>1
    <3>4. RecordingInv'
      BY <3>1
    <3>5. QED
      BY <3>2, <3>3, <3>4
  <2>2. ASSUME NEW s \in known, Active(s),
               Begin(a, "cancel_call", s, "none", CalendarKey),
               UNCHANGED <<occVars, sessionVars, jobVars, botVars, faults, requests>>
        PROVE  SessionInv'
    <3>1. TypeOK'
      BY <2>2 DEF Begin
    <3>2. OneActiveSession' /\ SlotInv'
      BY <2>2
    <3>3. ActorInv'
      BY <2>2 DEF Begin
    <3>4. TrackedInv'
      BY <2>2 DEF Begin
    <3>5. RecordingInv'
      BY <2>2 DEF Begin
    <3>6. QED
      BY <3>1, <3>2, <3>3, <3>4, <3>5
  <2>3. QED
    BY <1>4, <2>1, <2>2 DEF TakeCancelBot
<1>5. ASSUME NEW a \in Actor, CancelInvite(a) PROVE SessionInv'
  <2>1. TypeOK'
    BY <1>5 DEF CancelInvite, Begin, Request
  <2>2. OneActiveSession'
    BY <1>5 DEF CancelInvite, Begin, Request
  <2>3. ActorInv'
    BY <1>5 DEF CancelInvite, Begin, Request
  <2>4. SlotInv'
    BY <1>5 DEF CancelInvite, Begin, Request
  <2>5. TrackedInv'
    BY <1>5 DEF CancelInvite, Begin, Request
  <2>6. RecordingInv'
    BY <1>5 DEF CancelInvite, Begin, Request
  <2>7. QED
    BY <2>1, <2>2, <2>3, <2>4, <2>5, <2>6
<1>6. ASSUME NEW a \in Actor, AdminRetryJoin(a) PROVE SessionInv'
  BY <1>6 DEF AdminRetryJoin, Begin, Request
<1>7. ASSUME NEW a \in Actor, CreateBotSession(a) PROVE SessionInv'
  <2>1. TypeOK'
    BY <1>7 DEF CreateBotSession, JobDone, Stop, SetState
  <2>2. OneActiveSession'
    BY <1>7 DEF CreateBotSession, JobDone, Stop, SetState
  <2>3. ActorInv'
    BY <1>7 DEF CreateBotSession, JobDone, Stop, SetState
  <2>4. SlotInv'
    BY <1>7 DEF CreateBotSession, JobDone, Stop, SetState
  <2>5. TrackedInv'
    BY <1>7 DEF CreateBotSession, JobDone, Stop, SetState
  <2>6. RecordingInv'
    BY <1>7 DEF CreateBotSession, JobDone, Stop, SetState
  <2>7. QED
    BY <2>1, <2>2, <2>3, <2>4, <2>5, <2>6
<1>8. ASSUME NEW a \in Actor, IncrementJoinAttempts(a) PROVE SessionInv'
  BY <1>8 DEF IncrementJoinAttempts, Goto
<1>9. ASSUME NEW a \in Actor, CreateBot(a) PROVE SessionInv'
  <2>1. TypeOK'
    BY <1>9 DEF CreateBot, BotStarts, Starts, Goto, Fault
  <2>2. OneActiveSession'
    BY <1>9 DEF CreateBot, BotStarts, Starts, Goto, Fault
  <2>3. ActorInv'
    BY <1>9 DEF CreateBot, BotStarts, Starts, Goto, Fault
  <2>4. SlotInv'
    BY <1>9 DEF CreateBot, BotStarts, Starts, Goto, Fault
  <2>5. TrackedInv'
    BY <1>9 DEF CreateBot, BotStarts, Starts, Goto, Fault
  <2>6. RecordingInv'
    BY <1>9 DEF CreateBot, BotStarts, Starts, Goto, Fault
  <2>7. QED
    BY <2>1, <2>2, <2>3, <2>4, <2>5, <2>6
<1>10. ASSUME NEW a \in Actor, SetRuntimeId(a) PROVE SessionInv'
  BY <1>10 DEF SetRuntimeId, Goto
<1>11. ASSUME NEW a \in Actor, MarkJoinQueued(a) PROVE SessionInv'
  BY <1>11 DEF MarkJoinQueued, Goto
<1>12. ASSUME NEW a \in Actor, FinishJoin(a) PROVE SessionInv'
  BY <1>12 DEF FinishJoin, JobDone, Stop
<1>13. ASSUME NEW a \in Actor, UndoJoin(a) PROVE SessionInv'
  <2>1. TypeOK'
    BY <1>13 DEF UndoJoin, SetState, Goto, Stop, JobDone
  <2>2. OneActiveSession'
    BY <1>13 DEF UndoJoin, SetState, Goto, Stop, JobDone
  <2>3. ActorInv'
    BY <1>13 DEF UndoJoin, SetState, Goto, Stop, JobDone
  <2>4. SlotInv'
    BY <1>13 DEF UndoJoin, SetState, Goto, Stop, JobDone
  <2>5. TrackedInv'
    BY <1>13 DEF UndoJoin, SetState, Goto, Stop, JobDone
  <2>6. RecordingInv'
    BY <1>13 DEF UndoJoin, SetState, Goto, Stop, JobDone
  <2>7. QED
    BY <2>1, <2>2, <2>3, <2>4, <2>5, <2>6
<1>14. ASSUME NEW a \in Actor, RejectJoin(a) PROVE SessionInv'
  BY <1>14 DEF RejectJoin, JobDone, Stop
<1>15. ASSUME NEW a \in Actor, UpdateSessionState(a) PROVE SessionInv'
  <2>1. TypeOK'
    BY <1>15 DEF UpdateSessionState, NoOtherActive, Stop, SetState, Goto
  <2>2. OneActiveSession'
    BY <1>15 DEF UpdateSessionState, NoOtherActive, Stop, SetState, Goto
  <2>3. ActorInv'
    BY <1>15 DEF UpdateSessionState, NoOtherActive, Stop, SetState, Goto
  <2>4. SlotInv'
    BY <1>15 DEF UpdateSessionState, NoOtherActive, Stop, SetState, Goto
  <2>5. TrackedInv'
    BY <1>15 DEF UpdateSessionState, NoOtherActive, Stop, SetState, Goto
  <2>6. RecordingInv'
    BY <1>15 DEF UpdateSessionState, NoOtherActive, Stop, SetState, Goto
  <2>7. QED
    BY <2>1, <2>2, <2>3, <2>4, <2>5, <2>6
<1>16. ASSUME NEW a \in Actor, ReadOccurrence(a) PROVE SessionInv'
  BY <1>16 DEF ReadOccurrence, Choose, Goto, Stop, MappedStatus
<1>17. ASSUME NEW a \in Actor, WriteOccurrence(a) PROVE SessionInv'
  <2>1. TypeOK'
    BY <1>17 DEF WriteOccurrence, Goto, Stop
  <2>2. OneActiveSession'
    BY <1>17 DEF WriteOccurrence, Goto, Stop
  <2>3. ActorInv'
    BY <1>17 DEF WriteOccurrence, Goto, Stop
  <2>4. SlotInv'
    BY <1>17 DEF WriteOccurrence, Goto, Stop
  <2>5. TrackedInv'
    BY <1>17 DEF WriteOccurrence, Goto, Stop
  <2>6. RecordingInv'
    BY <1>17 DEF WriteOccurrence, Goto, Stop
  <2>7. QED
    BY <2>1, <2>2, <2>3, <2>4, <2>5, <2>6
<1>18. ASSUME NEW a \in Actor, CreateTranscribeJob(a) PROVE SessionInv'
  BY <1>18 DEF CreateTranscribeJob, Stop
<1>19. ASSUME NEW a \in Actor, FailStaleSession(a) PROVE SessionInv'
  <2>1. TypeOK'
    BY <1>19 DEF FailStaleSession, SetState, Goto
  <2>2. OneActiveSession'
    BY <1>19 DEF FailStaleSession, SetState, Goto
  <2>3. ActorInv'
    BY <1>19 DEF FailStaleSession, SetState, Goto
  <2>4. SlotInv'
    BY <1>19 DEF FailStaleSession, SetState, Goto
  <2>5. TrackedInv'
    BY <1>19 DEF FailStaleSession, SetState, Goto
  <2>6. RecordingInv'
    BY <1>19 DEF FailStaleSession, SetState, Goto
  <2>7. QED
    BY <2>1, <2>2, <2>3, <2>4, <2>5, <2>6
<1>20. ASSUME NEW a \in Actor, MaybeRetryJoin(a) PROVE SessionInv'
  <2>1. TypeOK'
    BY <1>20 DEF MaybeRetryJoin, Stop, Goto
  <2>2. OneActiveSession'
    BY <1>20 DEF MaybeRetryJoin, Stop, Goto
  <2>3. ActorInv'
    BY <1>20 DEF MaybeRetryJoin, Stop, Goto
  <2>4. SlotInv'
    BY <1>20 DEF MaybeRetryJoin, Stop, Goto
  <2>5. TrackedInv'
    BY <1>20 DEF MaybeRetryJoin, Stop, Goto
  <2>6. RecordingInv'
    BY <1>20 DEF MaybeRetryJoin, Stop, Goto
  <2>7. QED
    BY <2>1, <2>2, <2>3, <2>4, <2>5, <2>6
<1>21. ASSUME NEW a \in Actor, Reschedule(a) PROVE SessionInv'
  BY <1>21 DEF Reschedule, Goto
<1>22. ASSUME NEW a \in Actor, CreateRetryJob(a) PROVE SessionInv'
  BY <1>22 DEF CreateRetryJob, Stop
<1>23. ASSUME NEW a \in Actor, GiveUp(a) PROVE SessionInv'
  BY <1>23 DEF GiveUp, Stop
<1>24. ASSUME NEW a \in Actor, CancelOccurrence(a) PROVE SessionInv'
  BY <1>24 DEF CancelOccurrence, Goto
<1>25. ASSUME NEW a \in Actor, CancelJobs(a) PROVE SessionInv'
  <2>1. transcribe' \in {"none", "pending", "running", "over"}
    BY <1>25 DEF CancelJobs
  <2>2. transcribe # "none" => transcribe' # "none"
    BY <1>25 DEF CancelJobs
  <2>3. TypeOK'
    <3>1. /\ pc' \in [Actor -> Stages]
          /\ sess' \in [Actor -> Session \cup {NoSession}]
          /\ val' \in [Actor -> Vals] /\ key' \in [Actor -> Keys]
      BY <1>25 DEF CancelJobs, Goto, Stop
    <3>2. /\ queued' = {} /\ cancelJob' = FALSE
          /\ UNCHANGED <<occVars, sessionVars, used, botVars, faults, requests>>
      BY <1>25 DEF CancelJobs
    <3>3. QED
      BY <2>1, <3>1, <3>2
  <2>4. OneActiveSession' /\ SlotInv'
    BY <1>25 DEF CancelJobs
  <2>5. ActorInv'
    BY <1>25 DEF CancelJobs, Goto, Stop
  <2>6. TrackedInv'
    BY <1>25 DEF CancelJobs, Goto, Stop
  <2>7. RecordingInv'
    BY <1>25, <2>2 DEF CancelJobs, Goto, Stop
  <2>8. QED
    BY <2>3, <2>4, <2>5, <2>6, <2>7
<1>26. ASSUME NEW a \in Actor, EnqueueCancelBot(a) PROVE SessionInv'
  BY <1>26 DEF EnqueueCancelBot, Stop
<1>27. ASSUME NEW a \in Actor, CancelBot(a) PROVE SessionInv'
  <2>1. cancelJob' \in BOOLEAN /\ aborting' \subseteq Session
    BY <1>27 DEF CancelBot
  <2>2. faults' \in 0..MaxFaults /\ (faults' = 0 => faults = 0)
    <3>1. Fault \/ UNCHANGED faults
      BY <1>27 DEF CancelBot
    <3>2. QED
      BY <3>1 DEF Fault
  <2>3. /\ At(a, "cancel_call") /\ Stop(a)
        /\ UNCHANGED <<bot, slot, logged, occVars, sessionVars, queued, used,
                       transcribe, requests>>
    BY <1>27 DEF CancelBot
  <2>4. TypeOK'
    BY <2>1, <2>2, <2>3 DEF Stop
  <2>5. OneActiveSession' /\ SlotInv'
    BY <2>3
  <2>6. ActorInv'
    BY <2>3 DEF Stop
  <2>7. TrackedInv'
    BY <2>2, <2>3 DEF Stop
  <2>8. RecordingInv'
    BY <2>2, <2>3 DEF Stop
  <2>9. QED
    BY <2>4, <2>5, <2>6, <2>7, <2>8
<1>28. ASSUME NEW a \in Actor, Crash(a) PROVE SessionInv'
  BY <1>28 DEF Crash, Fault, Stop
<1>29. ASSUME NEW a \in Actor, JoinStatementFails(a) PROVE SessionInv'
  BY <1>29 DEF JoinStatementFails, Fault, Goto
<1>30. ASSUME NEW s \in Session, BotGoesOn(s) PROVE SessionInv'
  BY <1>30 DEF BotGoesOn, Waits, Joins, Announces, controlPlaneVars
<1>31. ASSUME NEW s \in Session, BotEnds(s) PROVE SessionInv'
  <2>1. PICK st \in EndStates, kind \in Kinds :
          /\ Announces(s, kind) /\ StateOf(kind) = st
          /\ st = "done" => kind = "done"
          /\ UNCHANGED <<logged, controlPlaneVars, faults>>
    BY <1>31 DEF BotEnds, Ends
  <2>2. TypeOK'
    BY <2>1 DEF Announces, controlPlaneVars
  <2>3. OneActiveSession' /\ SlotInv'
    BY <2>1 DEF Announces, controlPlaneVars
  <2>4. ActorInv'
    BY <2>1 DEF Announces, controlPlaneVars
  <2>5. TrackedInv'
    BY <2>1 DEF Announces, controlPlaneVars
  <2>6. RecordingInv'
    BY <2>1 DEF Announces, controlPlaneVars
  <2>7. QED
    BY <2>2, <2>3, <2>4, <2>5, <2>6
<1>32. ASSUME NEW s \in Session, BotDies(s) PROVE SessionInv'
  BY <1>32 DEF BotDies, Dies, controlPlaneVars, Fault
<1>33. ASSUME NEW s \in Session, DeliveryEnds(s) PROVE SessionInv'
  BY <1>33 DEF DeliveryEnds, Delivered, controlPlaneVars, Handling, Fault
<1>34. ASSUME NEW s \in Session, Heartbeat(s) PROVE SessionInv'
  BY <1>34 DEF Heartbeat
<1>35. ASSUME NEW s \in Session, FallSilent(s) PROVE SessionInv'
  BY <1>35 DEF FallSilent, Attended, Joining
<1>36. ASSUME NEW s \in Session, LoseHeartbeats(s) PROVE SessionInv'
  BY <1>36 DEF LoseHeartbeats, Fault
<1>37. CASE AdminCancelBot
  BY <1>37 DEF AdminCancelBot, Request
<1>38. CASE PipelineStarts
  BY <1>38 DEF PipelineStarts
<1>39. CASE PipelineEnds
  BY <1>39 DEF PipelineEnds
<1>40. CASE UNCHANGED vars
  BY <1>40 DEF vars
<1>41. QED
 BY <1>1, <1>2, <1>3, <1>4, <1>5, <1>6, <1>7, <1>8, <1>9, <1>10, <1>11, <1>12,
     <1>13, <1>14, <1>15, <1>16, <1>17, <1>18, <1>19, <1>20, <1>21, <1>22,
     <1>23, <1>24, <1>25, <1>26, <1>27, <1>28, <1>29, <1>30, <1>31, <1>32,
     <1>33, <1>34, <1>35, <1>36, <1>37, <1>38, <1>39, <1>40
    DEF Next, Step, JoinStep, WebhookStep, FailoverStep, CancelStep, BotStep

(* One more session at risk takes one more fault: only a lost answer to     *)
(* POST /v1/bots, a failed statement after it, and lost heartbeats put a    *)
(* bot at risk; whatever else closes a session, its bot is gone, was never  *)
(* there or was at risk before.                                             *)
RiskGrowsByFault ==
    \/ Risk' \subseteq Risk /\ faults <= faults'
    \/ faults' = faults + 1 /\ \E s \in Session : Risk' \subseteq Risk \cup {s}

LEMMA RiskStep == SessionInv /\ [Next]_vars => RiskGrowsByFault
<1> SUFFICES ASSUME TypeOK, ActorInv, SlotInv, [Next]_vars PROVE RiskGrowsByFault
  BY DEF SessionInv
<1> USE DEF TypeOK, ActorInv, SlotInv, Owners, Callers, Active, Live, StateOf,
            Risk, Present, Doomed, RiskGrowsByFault,
            occVars, sessionVars, jobVars, botVars, botSessionVars, actorVars, At
<1>1. ASSUME NEW a \in Actor, NEW k \in Keys, TakeJoin(a, k) PROVE RiskGrowsByFault
  BY <1>1 DEF TakeJoin, Begin
<1>2. ASSUME NEW a \in Actor, NEW s \in Session, ReceiveWebhook(a, s) PROVE RiskGrowsByFault
  BY <1>2 DEF ReceiveWebhook, Begin
<1>3. ASSUME NEW a \in Actor, NEW s \in Session, Recover(a, s) PROVE RiskGrowsByFault
  BY <1>3 DEF Recover, Begin, Fault
<1>4. ASSUME NEW a \in Actor, TakeCancelBot(a) PROVE RiskGrowsByFault
  <2>1. \/ UNCHANGED actorVars
        \/ \E s \in known : Begin(a, "cancel_call", s, "none", CalendarKey)
    BY <1>4 DEF TakeCancelBot
  <2>2. UNCHANGED <<sessionVars, botVars, faults>>
    BY <1>4 DEF TakeCancelBot
  <2>3. QED
    BY <2>1, <2>2 DEF Begin
<1>5. ASSUME NEW a \in Actor, CancelInvite(a) PROVE RiskGrowsByFault
  BY <1>5 DEF CancelInvite, Begin
<1>6. ASSUME NEW a \in Actor, AdminRetryJoin(a) PROVE RiskGrowsByFault
  BY <1>6 DEF AdminRetryJoin, Begin
<1>7. ASSUME NEW a \in Actor, CreateBotSession(a) PROVE RiskGrowsByFault
  BY <1>7 DEF CreateBotSession, Stop, SetState
<1>8. ASSUME NEW a \in Actor, IncrementJoinAttempts(a) PROVE RiskGrowsByFault
  BY <1>8 DEF IncrementJoinAttempts, Goto
<1>9. ASSUME NEW a \in Actor, CreateBot(a) PROVE RiskGrowsByFault
  <2>1. sess[a] \in Session /\ bot[sess[a]] = "none" /\ faults \in Nat
        /\ \A b \in Actor : b # a /\ sess[b] = sess[a] => pc[b] \notin {"count", "call"}
    BY <1>9 DEF CreateBot
  <2>2. CASE BotStarts(sess[a]) /\ Goto(a, "bind") /\ UNCHANGED faults
    BY <1>9, <2>1, <2>2 DEF CreateBot, BotStarts, Starts, Goto
  <2>3. CASE /\ Goto(a, "undo_retryable") \/ Goto(a, "undo_final")
             /\ UNCHANGED <<botVars, faults>>
    BY <1>9, <2>1, <2>3 DEF CreateBot, Goto
  <2>4. CASE BotStarts(sess[a]) /\ Goto(a, "undo_retryable") /\ Fault
    <3>1. Risk' \subseteq Risk \cup {sess[a]}
      BY <1>9, <2>1, <2>4 DEF CreateBot, BotStarts, Starts, Goto
    <3>2. QED
      BY <2>1, <2>4, <3>1 DEF Fault
  <2>5. QED
    BY <1>9, <2>2, <2>3, <2>4 DEF CreateBot
<1>10. ASSUME NEW a \in Actor, SetRuntimeId(a) PROVE RiskGrowsByFault
  BY <1>10 DEF SetRuntimeId, Goto
<1>11. ASSUME NEW a \in Actor, MarkJoinQueued(a) PROVE RiskGrowsByFault
  BY <1>11 DEF MarkJoinQueued, Goto
<1>12. ASSUME NEW a \in Actor, FinishJoin(a) PROVE RiskGrowsByFault
  BY <1>12 DEF FinishJoin, Stop
<1>13. ASSUME NEW a \in Actor, UndoJoin(a) PROVE RiskGrowsByFault
  BY <1>13 DEF UndoJoin, SetState, Goto, Stop
<1>14. ASSUME NEW a \in Actor, RejectJoin(a) PROVE RiskGrowsByFault
  BY <1>14 DEF RejectJoin, Stop
<1>15. ASSUME NEW a \in Actor, UpdateSessionState(a) PROVE RiskGrowsByFault
  BY <1>15 DEF UpdateSessionState, Stop, SetState, Goto
<1>16. ASSUME NEW a \in Actor, ReadOccurrence(a) PROVE RiskGrowsByFault
  BY <1>16 DEF ReadOccurrence, Choose, Goto, Stop
<1>17. ASSUME NEW a \in Actor, WriteOccurrence(a) PROVE RiskGrowsByFault
  BY <1>17 DEF WriteOccurrence, Goto, Stop
<1>18. ASSUME NEW a \in Actor, CreateTranscribeJob(a) PROVE RiskGrowsByFault
  BY <1>18 DEF CreateTranscribeJob, Stop
<1>19. ASSUME NEW a \in Actor, FailStaleSession(a) PROVE RiskGrowsByFault
  BY <1>19 DEF FailStaleSession, SetState, Goto
<1>20. ASSUME NEW a \in Actor, MaybeRetryJoin(a) PROVE RiskGrowsByFault
  BY <1>20 DEF MaybeRetryJoin, Stop, Goto
<1>21. ASSUME NEW a \in Actor, Reschedule(a) PROVE RiskGrowsByFault
  BY <1>21 DEF Reschedule, Goto
<1>22. ASSUME NEW a \in Actor, CreateRetryJob(a) PROVE RiskGrowsByFault
  BY <1>22 DEF CreateRetryJob, Stop
<1>23. ASSUME NEW a \in Actor, GiveUp(a) PROVE RiskGrowsByFault
  BY <1>23 DEF GiveUp, Stop
<1>24. ASSUME NEW a \in Actor, CancelOccurrence(a) PROVE RiskGrowsByFault
  BY <1>24 DEF CancelOccurrence, Goto
<1>25. ASSUME NEW a \in Actor, CancelJobs(a) PROVE RiskGrowsByFault
  BY <1>25 DEF CancelJobs, Goto, Stop
<1>26. ASSUME NEW a \in Actor, EnqueueCancelBot(a) PROVE RiskGrowsByFault
  BY <1>26 DEF EnqueueCancelBot, Stop
<1>27. ASSUME NEW a \in Actor, CancelBot(a) PROVE RiskGrowsByFault
  <2>1. faults <= faults'
    <3>1. Fault \/ UNCHANGED faults
      BY <1>27 DEF CancelBot
    <3>2. QED
      BY <3>1 DEF Fault
  <2>2. Stop(a) /\ UNCHANGED <<bot, sessionVars>>
    BY <1>27 DEF CancelBot
  <2>3. QED
    BY <2>1, <2>2 DEF Stop
<1>28. ASSUME NEW a \in Actor, Crash(a) PROVE RiskGrowsByFault
  BY <1>28 DEF Crash, Fault, Stop
<1>29. ASSUME NEW a \in Actor, JoinStatementFails(a) PROVE RiskGrowsByFault
  <2>1. sess[a] \in Session /\ faults' = faults + 1
    BY <1>29 DEF JoinStatementFails, Fault
  <2>2. Risk' \subseteq Risk \cup {sess[a]}
    BY <1>29, <2>1 DEF JoinStatementFails, Goto
  <2>3. QED
    BY <2>1, <2>2
<1>30. ASSUME NEW s \in Session, BotGoesOn(s) PROVE RiskGrowsByFault
  BY <1>30 DEF BotGoesOn, Waits, Joins, Announces, controlPlaneVars
<1>31. ASSUME NEW s \in Session, BotEnds(s) PROVE RiskGrowsByFault
  BY <1>31 DEF BotEnds, Ends, Announces, controlPlaneVars
<1>32. ASSUME NEW s \in Session, BotDies(s) PROVE RiskGrowsByFault
  BY <1>32 DEF BotDies, Dies, controlPlaneVars, Fault
<1>33. ASSUME NEW s \in Session, DeliveryEnds(s) PROVE RiskGrowsByFault
  BY <1>33 DEF DeliveryEnds, Delivered, controlPlaneVars, Fault
<1>34. ASSUME NEW s \in Session, Heartbeat(s) PROVE RiskGrowsByFault
  BY <1>34 DEF Heartbeat
<1>35. ASSUME NEW s \in Session, FallSilent(s) PROVE RiskGrowsByFault
  BY <1>35 DEF FallSilent, Attended, Joining
<1>36. ASSUME NEW s \in Session, LoseHeartbeats(s) PROVE RiskGrowsByFault
  <2>1. Risk' \subseteq Risk \cup {s} /\ faults' = faults + 1
    BY <1>36 DEF LoseHeartbeats, Fault
  <2>2. QED
    BY <2>1
<1>37. CASE AdminCancelBot
  BY <1>37 DEF AdminCancelBot
<1>38. CASE PipelineStarts
  BY <1>38 DEF PipelineStarts
<1>39. CASE PipelineEnds
  BY <1>39 DEF PipelineEnds
<1>40. CASE UNCHANGED vars
  BY <1>40 DEF vars
<1>41. QED
  BY <1>1, <1>2, <1>3, <1>4, <1>5, <1>6, <1>7, <1>8, <1>9, <1>10, <1>11,
     <1>12, <1>13, <1>14, <1>15, <1>16, <1>17, <1>18, <1>19, <1>20, <1>21, <1>22,
     <1>23, <1>24, <1>25, <1>26, <1>27, <1>28, <1>29, <1>30, <1>31, <1>32, <1>33,
     <1>34, <1>35, <1>36, <1>37, <1>38, <1>39, <1>40
  DEF Next, Step, JoinStep, WebhookStep, FailoverStep, CancelStep, BotStep

(* So the sessions at risk never outnumber the faults.                      *)
LEMMA RiskInvStep == SessionInv /\ RiskInv /\ [Next]_vars => RiskInv'
<1> SUFFICES ASSUME SessionInv, RiskInv, [Next]_vars PROVE RiskInv'
  OBVIOUS
<1> USE DEF RiskInv
<1>1. Cardinality(Risk) \in Nat /\ faults \in Nat /\ faults' \in Nat
  BY SessionStep, FS_CardinalityType DEF SessionInv, TypeOK
<1>2. CASE Risk' \subseteq Risk /\ faults <= faults'
  <2>1. IsFiniteSet(Risk') /\ Cardinality(Risk') <= Cardinality(Risk)
    BY <1>2, FS_Subset
  <2>2. Cardinality(Risk') \in Nat
    BY <2>1, FS_CardinalityType
  <2>3. QED
    BY <1>1, <1>2, <2>1, <2>2
<1>3. ASSUME faults' = faults + 1, NEW s \in Session, Risk' \subseteq Risk \cup {s}
      PROVE  RiskInv'
  <2>1. /\ IsFiniteSet(Risk \cup {s})
        /\ Cardinality(Risk \cup {s}) \in {Cardinality(Risk), Cardinality(Risk) + 1}
    BY FS_AddElement
  <2>2. IsFiniteSet(Risk') /\ Cardinality(Risk') <= Cardinality(Risk \cup {s})
    BY <1>3, <2>1, FS_Subset
  <2>3. Cardinality(Risk') \in Nat
    BY <2>2, FS_CardinalityType
  <2>4. QED
    BY <1>1, <1>3, <2>1, <2>2, <2>3
<1>4. QED
  BY <1>2, <1>3, RiskStep DEF RiskGrowsByFault

LEMMA InitRiskInv == Init => RiskInv
<1> SUFFICES ASSUME Init PROVE RiskInv
  OBVIOUS
<1>1. Risk = {}
  BY DEF Init, BotInit, Risk, Present, Live, Callers
<1>2. QED
  BY <1>1, FS_EmptySet DEF RiskInv, Init

(* Faults and requests are only ever added.                                 *)
LEMMA CalmBefore == SessionInv /\ [Next]_vars /\ Calm' => Calm
<1> SUFFICES ASSUME TypeOK, [Next]_vars, Calm' PROVE Calm
  BY DEF SessionInv
<1> USE DEF TypeOK, Calm, botVars, botSessionVars
<1>1. ASSUME NEW a \in Actor, NEW k \in Keys, TakeJoin(a, k) PROVE Calm
  BY <1>1 DEF TakeJoin, Joinable, Begin, Running
<1>2. ASSUME NEW a \in Actor, NEW s \in Session, ReceiveWebhook(a, s) PROVE Calm
  BY <1>2 DEF ReceiveWebhook, Begin
<1>3. ASSUME NEW a \in Actor, NEW s \in Session, Recover(a, s) PROVE Calm
  BY <1>3 DEF Recover, Begin, Fault
<1>4. ASSUME NEW a \in Actor, TakeCancelBot(a) PROVE Calm
  <2>1. UNCHANGED <<faults, requests>>
    BY <1>4 DEF TakeCancelBot
  <2>2. QED
    BY <2>1
<1>5. ASSUME NEW a \in Actor, CancelInvite(a) PROVE Calm
  BY <1>5 DEF CancelInvite, Begin, Request
<1>6. ASSUME NEW a \in Actor, AdminRetryJoin(a) PROVE Calm
  BY <1>6 DEF AdminRetryJoin, Begin, Request
<1>7. ASSUME NEW a \in Actor, CreateBotSession(a) PROVE Calm
  BY <1>7 DEF CreateBotSession, JobDone, Stop, SetState
<1>8. ASSUME NEW a \in Actor, IncrementJoinAttempts(a) PROVE Calm
  BY <1>8 DEF IncrementJoinAttempts, Goto
<1>9. ASSUME NEW a \in Actor, CreateBot(a) PROVE Calm
  BY <1>9 DEF CreateBot, BotStarts, Starts, Goto, Fault
<1>10. ASSUME NEW a \in Actor, SetRuntimeId(a) PROVE Calm
  BY <1>10 DEF SetRuntimeId, Goto
<1>11. ASSUME NEW a \in Actor, MarkJoinQueued(a) PROVE Calm
  BY <1>11 DEF MarkJoinQueued, Goto
<1>12. ASSUME NEW a \in Actor, FinishJoin(a) PROVE Calm
  BY <1>12 DEF FinishJoin, JobDone, Stop
<1>13. ASSUME NEW a \in Actor, UndoJoin(a) PROVE Calm
  BY <1>13 DEF UndoJoin, SetState, Goto, Stop, JobDone
<1>14. ASSUME NEW a \in Actor, RejectJoin(a) PROVE Calm
  BY <1>14 DEF RejectJoin, JobDone, Stop
<1>15. ASSUME NEW a \in Actor, UpdateSessionState(a) PROVE Calm
  BY <1>15 DEF UpdateSessionState, NoOtherActive, Stop, SetState, Goto
<1>16. ASSUME NEW a \in Actor, ReadOccurrence(a) PROVE Calm
  BY <1>16 DEF ReadOccurrence, Choose, Goto, Stop, MappedStatus
<1>17. ASSUME NEW a \in Actor, WriteOccurrence(a) PROVE Calm
  BY <1>17 DEF WriteOccurrence, Goto, Stop
<1>18. ASSUME NEW a \in Actor, CreateTranscribeJob(a) PROVE Calm
  BY <1>18 DEF CreateTranscribeJob, Stop
<1>19. ASSUME NEW a \in Actor, FailStaleSession(a) PROVE Calm
  BY <1>19 DEF FailStaleSession, SetState, Goto
<1>20. ASSUME NEW a \in Actor, MaybeRetryJoin(a) PROVE Calm
  BY <1>20 DEF MaybeRetryJoin, Stop, Goto
<1>21. ASSUME NEW a \in Actor, Reschedule(a) PROVE Calm
  BY <1>21 DEF Reschedule, Goto
<1>22. ASSUME NEW a \in Actor, CreateRetryJob(a) PROVE Calm
  BY <1>22 DEF CreateRetryJob, Stop
<1>23. ASSUME NEW a \in Actor, GiveUp(a) PROVE Calm
  BY <1>23 DEF GiveUp, Stop
<1>24. ASSUME NEW a \in Actor, CancelOccurrence(a) PROVE Calm
  BY <1>24 DEF CancelOccurrence, Goto
<1>25. ASSUME NEW a \in Actor, CancelJobs(a) PROVE Calm
  BY <1>25 DEF CancelJobs, Goto, Stop
<1>26. ASSUME NEW a \in Actor, EnqueueCancelBot(a) PROVE Calm
  BY <1>26 DEF EnqueueCancelBot, Stop
<1>27. ASSUME NEW a \in Actor, CancelBot(a) PROVE Calm
  <2>1. (Fault \/ UNCHANGED faults) /\ UNCHANGED requests
    BY <1>27 DEF CancelBot
  <2>2. QED
    BY <2>1 DEF Fault
<1>28. ASSUME NEW a \in Actor, Crash(a) PROVE Calm
  BY <1>28 DEF Crash, Fault, Stop
<1>29. ASSUME NEW a \in Actor, JoinStatementFails(a) PROVE Calm
  BY <1>29 DEF JoinStatementFails, Fault, Goto
<1>30. ASSUME NEW s \in Session, BotGoesOn(s) PROVE Calm
  BY <1>30 DEF BotGoesOn, Waits, Joins, Announces, controlPlaneVars
<1>31. ASSUME NEW s \in Session, BotEnds(s) PROVE Calm
  BY <1>31 DEF BotEnds, Ends, Announces, controlPlaneVars
<1>32. ASSUME NEW s \in Session, BotDies(s) PROVE Calm
  BY <1>32 DEF BotDies, Dies, controlPlaneVars, Fault
<1>33. ASSUME NEW s \in Session, DeliveryEnds(s) PROVE Calm
  BY <1>33 DEF DeliveryEnds, Delivered, controlPlaneVars, Handling, Fault
<1>34. ASSUME NEW s \in Session, Heartbeat(s) PROVE Calm
  BY <1>34 DEF Heartbeat
<1>35. ASSUME NEW s \in Session, FallSilent(s) PROVE Calm
  BY <1>35 DEF FallSilent, Attended, Joining
<1>36. ASSUME NEW s \in Session, LoseHeartbeats(s) PROVE Calm
  BY <1>36 DEF LoseHeartbeats, Fault
<1>37. CASE AdminCancelBot
  BY <1>37 DEF AdminCancelBot, Request
<1>38. CASE PipelineStarts
  BY <1>38 DEF PipelineStarts
<1>39. CASE PipelineEnds
  BY <1>39 DEF PipelineEnds
<1>40. CASE UNCHANGED vars
  BY <1>40 DEF vars
<1>41. QED
  BY <1>1, <1>2, <1>3, <1>4, <1>5, <1>6, <1>7, <1>8, <1>9, <1>10, <1>11,
     <1>12, <1>13, <1>14, <1>15, <1>16, <1>17, <1>18, <1>19, <1>20, <1>21, <1>22,
     <1>23, <1>24, <1>25, <1>26, <1>27, <1>28, <1>29, <1>30, <1>31, <1>32, <1>33,
     <1>34, <1>35, <1>36, <1>37, <1>38, <1>39, <1>40
  DEF Next, Step, JoinStep, WebhookStep, FailoverStep, CancelStep, BotStep

(* Without faults a webhook reaches one handler, while its bot waits for    *)
(* the answer, and finds its session active.                                *)
LEMMA HandlerStep ==
  SessionInv /\ HandlerInv /\ AttemptInv /\ [Next]_vars => HandlerInv'
<1> SUFFICES ASSUME SessionInv, HandlerInv, AttemptInv, [Next]_vars, Calm, Calm'
             PROVE  HandlerInv'
  BY CalmBefore DEF HandlerInv
<1> USE DEF SessionInv, TypeOK, OneActiveSession, ActorInv, SlotInv, TrackedInv,
            Calm, Handlers, Owners, Callers, Active, Live, StateOf, 
            occVars, sessionVars, jobVars, botVars, botSessionVars, actorVars, At
<1>1. ASSUME NEW a \in Actor, NEW k \in Keys, TakeJoin(a, k) PROVE HandlerInv'
  BY <1>1 DEF TakeJoin, Joinable, Begin, Running, HandlerInv
<1>2. ASSUME NEW a \in Actor, NEW s \in Session, ReceiveWebhook(a, s) PROVE HandlerInv'
  BY <1>2 DEF ReceiveWebhook, Begin, HandlerInv
<1>3. ASSUME NEW a \in Actor, NEW s \in Session, Recover(a, s) PROVE HandlerInv'
  BY <1>3 DEF Recover, Begin, Fault, HandlerInv
<1>4. ASSUME NEW a \in Actor, TakeCancelBot(a) PROVE HandlerInv'
  <2>1. \/ UNCHANGED actorVars
        \/ \E s \in known : Begin(a, "cancel_call", s, "none", CalendarKey)
    BY <1>4 DEF TakeCancelBot
  <2>2. UNCHANGED <<sessionVars, botVars, faults>>
    BY <1>4 DEF TakeCancelBot
  <2>3. QED
    BY <2>1, <2>2 DEF Begin, HandlerInv
<1>5. ASSUME NEW a \in Actor, CancelInvite(a) PROVE HandlerInv'
  BY <1>5 DEF CancelInvite, Begin, Request, HandlerInv
<1>6. ASSUME NEW a \in Actor, AdminRetryJoin(a) PROVE HandlerInv'
  BY <1>6 DEF AdminRetryJoin, Begin, Request, HandlerInv
<1>7. ASSUME NEW a \in Actor, CreateBotSession(a) PROVE HandlerInv'
  <2>1. At(a, "create") /\ UNCHANGED <<bot, slot, logged, faults, requests>>
    BY <1>7 DEF CreateBotSession
  <2>2. CASE Stop(a) /\ UNCHANGED <<state, stale>>
    BY <2>1, <2>2 DEF Stop, HandlerInv
  <2>3. ASSUME NEW s \in Session, state[s] = "absent", SetState(s, "joining"),
               pc' = [pc EXCEPT ![a] = "count"], sess' = [sess EXCEPT ![a] = s],
               UNCHANGED val
        PROVE  HandlerInv'
    BY <2>1, <2>3 DEF SetState, HandlerInv
  <2>4. QED
    BY <1>7, <2>2, <2>3 DEF CreateBotSession
<1>8. ASSUME NEW a \in Actor, IncrementJoinAttempts(a) PROVE HandlerInv'
  BY <1>8 DEF IncrementJoinAttempts, Goto, HandlerInv
<1>9. ASSUME NEW a \in Actor, CreateBot(a) PROVE HandlerInv'
  BY <1>9 DEF CreateBot, BotStarts, Starts, Goto, Fault, HandlerInv
<1>10. ASSUME NEW a \in Actor, SetRuntimeId(a) PROVE HandlerInv'
  BY <1>10 DEF SetRuntimeId, Goto, HandlerInv
<1>11. ASSUME NEW a \in Actor, MarkJoinQueued(a) PROVE HandlerInv'
  BY <1>11 DEF MarkJoinQueued, Goto, HandlerInv
<1>12. ASSUME NEW a \in Actor, FinishJoin(a) PROVE HandlerInv'
  BY <1>12 DEF FinishJoin, JobDone, Stop, HandlerInv
<1>13. ASSUME NEW a \in Actor, UndoJoin(a) PROVE HandlerInv'
  <2>1. /\ sess[a] \in Session /\ bot[sess[a]] = "none" /\ slot[sess[a]] = "none"
        /\ sess[a] \notin logged
    BY <1>13 DEF UndoJoin
  <2>2. /\ state' = [state EXCEPT ![sess[a]] = "failed"] /\ stale' = {}
        /\ UNCHANGED <<bot, slot, logged>>
        /\ \A b \in Actor : b # a => pc'[b] = pc[b] /\ sess'[b] = sess[b] /\ val'[b] = val[b]
        /\ pc'[a] \in {"idle", "reject"}
    BY <1>13 DEF UndoJoin, SetState, Goto, Stop, HandlerInv
  <2>3. \A b \in Handlers : sess[b] # sess[a]
    BY <2>1 DEF HandlerInv
  <2>4. QED
    BY <1>13, <2>1, <2>2, <2>3 DEF HandlerInv
<1>14. ASSUME NEW a \in Actor, RejectJoin(a) PROVE HandlerInv'
  BY <1>14 DEF RejectJoin, JobDone, Stop, HandlerInv
<1>15. ASSUME NEW a \in Actor, UpdateSessionState(a) PROVE HandlerInv'
  BY <1>15 DEF UpdateSessionState, NoOtherActive, Stop, SetState, Goto, HandlerInv
<1>16. ASSUME NEW a \in Actor, ReadOccurrence(a) PROVE HandlerInv'
  BY <1>16 DEF ReadOccurrence, Choose, Goto, Stop, MappedStatus, HandlerInv
<1>17. ASSUME NEW a \in Actor, WriteOccurrence(a) PROVE HandlerInv'
  BY <1>17 DEF WriteOccurrence, Goto, Stop, HandlerInv
<1>18. ASSUME NEW a \in Actor, CreateTranscribeJob(a) PROVE HandlerInv'
  BY <1>18 DEF CreateTranscribeJob, Stop, HandlerInv
<1>19. ASSUME NEW a \in Actor, FailStaleSession(a) PROVE HandlerInv'
  BY <1>19 DEF FailStaleSession, SetState, Goto, HandlerInv
<1>20. ASSUME NEW a \in Actor, MaybeRetryJoin(a) PROVE HandlerInv'
  BY <1>20 DEF MaybeRetryJoin, Stop, Goto, HandlerInv
<1>21. ASSUME NEW a \in Actor, Reschedule(a) PROVE HandlerInv'
  BY <1>21 DEF Reschedule, Goto, HandlerInv
<1>22. ASSUME NEW a \in Actor, CreateRetryJob(a) PROVE HandlerInv'
  BY <1>22 DEF CreateRetryJob, Stop, HandlerInv
<1>23. ASSUME NEW a \in Actor, GiveUp(a) PROVE HandlerInv'
  BY <1>23 DEF GiveUp, Stop, HandlerInv
<1>24. ASSUME NEW a \in Actor, CancelOccurrence(a) PROVE HandlerInv'
  BY <1>24 DEF CancelOccurrence, Goto, HandlerInv
<1>25. ASSUME NEW a \in Actor, CancelJobs(a) PROVE HandlerInv'
  BY <1>25 DEF CancelJobs, Goto, Stop, HandlerInv
<1>26. ASSUME NEW a \in Actor, EnqueueCancelBot(a) PROVE HandlerInv'
  BY <1>26 DEF EnqueueCancelBot, Stop, HandlerInv
<1>27. ASSUME NEW a \in Actor, CancelBot(a) PROVE HandlerInv'
  <2>1. At(a, "cancel_call") /\ Stop(a) /\ UNCHANGED <<bot, slot, logged, sessionVars>>
    BY <1>27 DEF CancelBot
  <2>2. QED
    BY <2>1 DEF Stop, HandlerInv
<1>28. ASSUME NEW a \in Actor, Crash(a) PROVE HandlerInv'
  BY <1>28 DEF Crash, Fault, Stop, HandlerInv
<1>29. ASSUME NEW a \in Actor, JoinStatementFails(a) PROVE HandlerInv'
  BY <1>29 DEF JoinStatementFails, Fault, Goto, HandlerInv
<1>30. ASSUME NEW s \in Session, BotGoesOn(s) PROVE HandlerInv'
  BY <1>30 DEF BotGoesOn, Waits, Joins, Announces, controlPlaneVars, HandlerInv
<1>31. ASSUME NEW s \in Session, BotEnds(s) PROVE HandlerInv'
  BY <1>31 DEF BotEnds, Ends, Announces, controlPlaneVars, HandlerInv
<1>32. ASSUME NEW s \in Session, BotDies(s) PROVE HandlerInv'
  BY <1>32 DEF BotDies, Dies, controlPlaneVars, Fault, HandlerInv
<1>33. ASSUME NEW s \in Session, DeliveryEnds(s) PROVE HandlerInv'
  BY <1>33 DEF DeliveryEnds, Delivered, controlPlaneVars, Handling, Fault, HandlerInv
<1>34. ASSUME NEW s \in Session, Heartbeat(s) PROVE HandlerInv'
  BY <1>34 DEF Heartbeat, HandlerInv
<1>35. ASSUME NEW s \in Session, FallSilent(s) PROVE HandlerInv'
  BY <1>35 DEF FallSilent, Attended, Joining, HandlerInv
<1>36. ASSUME NEW s \in Session, LoseHeartbeats(s) PROVE HandlerInv'
  BY <1>36 DEF LoseHeartbeats, Fault, HandlerInv
<1>37. CASE AdminCancelBot
  BY <1>37 DEF AdminCancelBot, Request, HandlerInv
<1>38. CASE PipelineStarts
  BY <1>38 DEF PipelineStarts, HandlerInv
<1>39. CASE PipelineEnds
  BY <1>39 DEF PipelineEnds, HandlerInv
<1>40. CASE UNCHANGED vars
  BY <1>40 DEF vars, HandlerInv
<1>41. QED
  BY <1>1, <1>2, <1>3, <1>4, <1>5, <1>6, <1>7, <1>8, <1>9, <1>10, <1>11,
     <1>12, <1>13, <1>14, <1>15, <1>16, <1>17, <1>18, <1>19, <1>20, <1>21, <1>22,
     <1>23, <1>24, <1>25, <1>26, <1>27, <1>28, <1>29, <1>30, <1>31, <1>32, <1>33,
     <1>34, <1>35, <1>36, <1>37, <1>38, <1>39, <1>40
  DEF Next, Step, JoinStep, WebhookStep, FailoverStep, CancelStep, BotStep

(* A step that moves one actor, which joins neither before nor after it.    *)
Others(a) == \A b \in Actor : b # a => /\ pc'[b] = pc[b] /\ sess'[b] = sess[b]
                                       /\ val'[b] = val[b] /\ key'[b] = key[b]

LEMMA AttemptElsewhere ==
  ASSUME NEW a \in Actor, Calm, AttemptInv, UNCHANGED <<state, bot, queued>>, Others(a),
         pc[a] \notin JoinStages, pc'[a] \notin JoinStages,
         Attempting(a)' => Attempting(a)
  PROVE  AttemptInv'
<1>1. \A k \in Keys : Waiting(k)' => Waiting(k)
  BY DEF Waiting, Running, Others
<1>2. \A b \in Actor : Attempting(b)' => Attempting(b)
  BY DEF Attempting, Others
<1>3. /\ \A s \in Session : OnCall(s)' => OnCall(s)
      /\ Ended' => Ended
  BY DEF OnCall, Ended, Active
<1>4. QED
  BY <1>1, <1>2, <1>3 DEF AttemptInv

(* A webhook is applied: the session keeps its turn, ends, or hands it to   *)
(* the failover.                                                            *)
LEMMA AttemptApplied ==
  ASSUME NEW a \in Actor, NEW s \in Session, sess[a] = s,
         SessionInv, HandlerInv, AttemptInv, Calm, UpdateSessionState(a)
  PROVE  AttemptInv'
<1>a. /\ At(a, "apply") /\ bot[s] # "none" /\ val[a] \in Kinds
      /\ Active(s)
  BY DEF UpdateSessionState, SessionInv, TypeOK, ActorInv, HandlerInv, At
<1>b. NoOtherActive(s)
  BY <1>a DEF NoOtherActive, SessionInv, OneActiveSession
<1>c. /\ Others(a) /\ pc'[a] = "read" /\ val'[a] = val[a]
      /\ state' = [state EXCEPT ![s] = StateOf(val[a])]
      /\ UNCHANGED <<bot, queued>>
  BY <1>a, <1>b DEF UpdateSessionState, SetState, Goto, Others, SessionInv, TypeOK,
                    jobVars, botVars, botSessionVars
<1> USE DEF At
<1>1. OnCall(s) /\ \A t \in Session : OnCall(t) => t = s
  BY <1>a DEF OnCall, SessionInv, OneActiveSession
<1>2. /\ \A k \in Keys : ~Waiting(k)
      /\ \A b \in Actor : ~Attempting(b)
      /\ ~Ended
  BY <1>a, <1>1 DEF AttemptInv
<1>3. \A k \in Keys : ~Waiting(k)'
  BY <1>2, <1>a, <1>c DEF Waiting, Running, Others
<1>4. \A b \in Actor : Attempting(b)' => b = a /\ val[a] \in Failed
  BY <1>2, <1>c DEF Attempting, Others
<1>5. \A t \in Session : t # s => ~OnCall(t)'
  BY <1>1, <1>a, <1>c DEF OnCall, Active, SessionInv, TypeOK
<1>6. state'[s] = StateOf(val[a])
  BY <1>a, <1>c DEF SessionInv, TypeOK
<1>7. val[a] \in Failed => ~OnCall(s)' /\ state'[s] = "failed"
  BY <1>6 DEF OnCall, Active, StateOf, Failed
<1>8. Ended' => state'[s] \in {"done", "canceled"}
  BY <1>2, <1>a, <1>c DEF Ended, SessionInv, TypeOK
<1>9. Ended' => ~OnCall(s)' /\ ~Attempting(a)'
  BY <1>4, <1>7, <1>8 DEF OnCall, Active
<1>10. QED
  BY <1>3, <1>4, <1>5, <1>7, <1>9 DEF AttemptInv

(* Every step hands the turn on, from one holder to one, or lets it lapse.  *)
LEMMA AttemptStep ==
  SessionInv /\ HandlerInv /\ AttemptInv /\ [Next]_vars => AttemptInv'
<1> SUFFICES ASSUME SessionInv, HandlerInv, AttemptInv, [Next]_vars, Calm, Calm'
             PROVE  AttemptInv'
  BY CalmBefore DEF AttemptInv
<1> USE DEF SessionInv, TypeOK, OneActiveSession, ActorInv, SlotInv, TrackedInv,
            Calm, Handlers, Owners, Callers, Active, Live, StateOf, Running, Failed,
            Waiting, Attempting, OnCall, Ended, Others,
            occVars, sessionVars, jobVars, botVars, botSessionVars, actorVars, At
<1>1. ASSUME NEW a \in Actor, NEW k \in Keys, TakeJoin(a, k) PROVE AttemptInv'
  BY <1>1 DEF TakeJoin, Joinable, Begin, Running, AttemptInv, HandlerInv
<1>2. ASSUME NEW a \in Actor, NEW s \in Session, ReceiveWebhook(a, s) PROVE AttemptInv'
  BY <1>2 DEF ReceiveWebhook, Begin, AttemptInv, HandlerInv
<1>3. ASSUME NEW a \in Actor, NEW s \in Session, Recover(a, s) PROVE AttemptInv'
  BY <1>3 DEF Recover, Begin, Fault, AttemptInv, HandlerInv
<1>4. ASSUME NEW a \in Actor, TakeCancelBot(a) PROVE AttemptInv'
  <2>1. \/ UNCHANGED actorVars
        \/ \E s \in known : Begin(a, "cancel_call", s, "none", CalendarKey)
    BY <1>4 DEF TakeCancelBot
  <2>2. UNCHANGED <<state, bot, queued>> /\ pc[a] = "idle"
    BY <1>4 DEF TakeCancelBot, Begin
  <2>3. Others(a) /\ pc'[a] \in {"idle", "cancel_call"}
    BY <2>1, <2>2 DEF Begin
  <2>4. QED
    BY <2>2, <2>3, AttemptElsewhere
<1>5. ASSUME NEW a \in Actor, CancelInvite(a) PROVE AttemptInv'
  <2>1. /\ UNCHANGED <<state, bot, queued>> /\ Others(a)
        /\ pc[a] \notin JoinStages /\ pc'[a] \notin JoinStages
        /\ Attempting(a)' => Attempting(a)
    BY <1>5 DEF CancelInvite, Begin, Request
  <2>2. QED
    BY <2>1, AttemptElsewhere
<1>6. ASSUME NEW a \in Actor, AdminRetryJoin(a) PROVE AttemptInv'
  BY <1>6 DEF AdminRetryJoin, Begin, Request, AttemptInv, HandlerInv
<1>7. ASSUME NEW a \in Actor, CreateBotSession(a) PROVE AttemptInv'
  <2>1. At(a, "create") /\ UNCHANGED <<bot, slot, logged, faults, requests>>
    BY <1>7 DEF CreateBotSession
  <2>2. CASE JobDone(a) /\ Stop(a) /\ UNCHANGED state
    BY <2>1, <2>2 DEF JobDone, Stop, AttemptInv
  <2>3. ASSUME NEW s \in Session, state[s] = "absent", SetState(s, "joining"),
               pc' = [pc EXCEPT ![a] = "count"], sess' = [sess EXCEPT ![a] = s],
               UNCHANGED <<queued, val, key>>
        PROVE  AttemptInv'
    BY <2>1, <2>3 DEF SetState, AttemptInv
  <2>4. QED
    BY <1>7, <2>2, <2>3 DEF CreateBotSession
<1>8. ASSUME NEW a \in Actor, IncrementJoinAttempts(a) PROVE AttemptInv'
  BY <1>8 DEF IncrementJoinAttempts, Goto, AttemptInv, HandlerInv
<1>9. ASSUME NEW a \in Actor, CreateBot(a) PROVE AttemptInv'
  <2>1. /\ sess[a] \in Session /\ bot[sess[a]] = "none" /\ At(a, "call")
        /\ Others(a) /\ key'[a] = key[a] /\ UNCHANGED <<state, queued>>
        /\ \/ pc'[a] = "bind" /\ bot' = [bot EXCEPT ![sess[a]] = "joining"]
           \/ pc'[a] \in {"undo_retryable", "undo_final"} /\ UNCHANGED bot
    BY <1>9 DEF CreateBot, BotStarts, Starts, Goto, Fault
  <2>2. \A k \in Keys : Waiting(k)' => Waiting(k)
    BY <2>1
  <2>3. /\ \A b \in Actor : Attempting(b)' => Attempting(b)
        /\ Attempting(a) /\ (Ended' => Ended)
    BY <2>1
  <2>4. \A s \in Session : OnCall(s)' => OnCall(s) \/ (s = sess[a] /\ ~Attempting(a)')
    BY <2>1
  <2>5. QED
    BY <2>1, <2>2, <2>3, <2>4 DEF AttemptInv
<1>10. ASSUME NEW a \in Actor, SetRuntimeId(a) PROVE AttemptInv'
  BY <1>10 DEF SetRuntimeId, Goto, AttemptInv, HandlerInv
<1>11. ASSUME NEW a \in Actor, MarkJoinQueued(a) PROVE AttemptInv'
  BY <1>11 DEF MarkJoinQueued, Goto, AttemptInv, HandlerInv
<1>12. ASSUME NEW a \in Actor, FinishJoin(a) PROVE AttemptInv'
  BY <1>12 DEF FinishJoin, JobDone, Stop, AttemptInv, HandlerInv
<1>13. ASSUME NEW a \in Actor, UndoJoin(a) PROVE AttemptInv'
  <2>1. /\ sess[a] \in Session /\ pc[a] \in {"undo_retryable", "undo_final"}
        /\ Others(a) /\ state' = [state EXCEPT ![sess[a]] = "failed"]
        /\ queued' \subseteq queued /\ UNCHANGED bot
        /\ \/ pc'[a] = "reject" /\ key'[a] = key[a] /\ UNCHANGED queued
           \/ pc'[a] = "idle"
    BY <1>13 DEF UndoJoin, SetState, Goto, Stop, JobDone
  <2>2. /\ \A k \in Keys : Waiting(k)' => Waiting(k) \/ (k = key[a] /\ pc'[a] = "idle")
        /\ Attempting(a) /\ ~Attempting(a)'
    BY <2>1
  <2>3. \A b \in Actor : Attempting(b)' => Attempting(b) /\ b # a
    BY <2>1
  <2>4. \A s \in Session : OnCall(s)' => OnCall(s)
    BY <2>1
  <2>5. Ended' => Ended
    BY <2>1
  <2>6. QED
    BY <2>2, <2>3, <2>4, <2>5 DEF AttemptInv
<1>14. ASSUME NEW a \in Actor, RejectJoin(a) PROVE AttemptInv'
  BY <1>14 DEF RejectJoin, JobDone, Stop, AttemptInv, HandlerInv
<1>15. ASSUME NEW a \in Actor, UpdateSessionState(a) PROVE AttemptInv'
  <2>1. sess[a] \in Session
    BY <1>15 DEF UpdateSessionState
  <2>2. QED
    BY <1>15, <2>1, AttemptApplied
<1>16. ASSUME NEW a \in Actor, ReadOccurrence(a) PROVE AttemptInv'
  <2>1. /\ UNCHANGED <<state, bot, queued>> /\ Others(a)
        /\ pc[a] \notin JoinStages /\ pc'[a] \notin JoinStages
        /\ Attempting(a)' => Attempting(a)
    BY <1>16 DEF ReadOccurrence, Choose, Goto, Stop, MappedStatus
  <2>2. QED
    BY <2>1, AttemptElsewhere
<1>17. ASSUME NEW a \in Actor, WriteOccurrence(a) PROVE AttemptInv'
  <2>1. /\ UNCHANGED <<state, bot, queued>> /\ Others(a)
        /\ pc[a] \notin JoinStages /\ pc'[a] \notin JoinStages
        /\ Attempting(a)' => Attempting(a)
    BY <1>17 DEF WriteOccurrence, Goto, Stop
  <2>2. QED
    BY <2>1, AttemptElsewhere
<1>18. ASSUME NEW a \in Actor, CreateTranscribeJob(a) PROVE AttemptInv'
  BY <1>18 DEF CreateTranscribeJob, Stop, AttemptInv, HandlerInv
<1>19. ASSUME NEW a \in Actor, FailStaleSession(a) PROVE AttemptInv'
  BY <1>19 DEF FailStaleSession, SetState, Goto, AttemptInv, HandlerInv
<1>20. ASSUME NEW a \in Actor, MaybeRetryJoin(a) PROVE AttemptInv'
  BY <1>20 DEF MaybeRetryJoin, Stop, Goto, AttemptInv, HandlerInv
<1>21. ASSUME NEW a \in Actor, Reschedule(a) PROVE AttemptInv'
  BY <1>21 DEF Reschedule, Goto, AttemptInv, HandlerInv
<1>22. ASSUME NEW a \in Actor, CreateRetryJob(a) PROVE AttemptInv'
  BY <1>22 DEF CreateRetryJob, Stop, AttemptInv, HandlerInv
<1>23. ASSUME NEW a \in Actor, GiveUp(a) PROVE AttemptInv'
  BY <1>23 DEF GiveUp, Stop, AttemptInv, HandlerInv
<1>24. ASSUME NEW a \in Actor, CancelOccurrence(a) PROVE AttemptInv'
  BY <1>24 DEF CancelOccurrence, Goto, AttemptInv, HandlerInv
<1>25. ASSUME NEW a \in Actor, CancelJobs(a) PROVE AttemptInv'
  BY <1>25 DEF CancelJobs, Goto, Stop, AttemptInv, HandlerInv
<1>26. ASSUME NEW a \in Actor, EnqueueCancelBot(a) PROVE AttemptInv'
  BY <1>26 DEF EnqueueCancelBot, Stop, AttemptInv, HandlerInv
<1>27. ASSUME NEW a \in Actor, CancelBot(a) PROVE AttemptInv'
  <2>1. /\ At(a, "cancel_call") /\ Stop(a)
        /\ UNCHANGED <<state, bot, queued>>
    BY <1>27 DEF CancelBot
  <2>2. Others(a) /\ pc'[a] = "idle"
    BY <2>1 DEF Stop
  <2>3. QED
    BY <2>1, <2>2, AttemptElsewhere
<1>28. ASSUME NEW a \in Actor, Crash(a) PROVE AttemptInv'
  BY <1>28 DEF Crash, Fault, Stop, AttemptInv, HandlerInv
<1>29. ASSUME NEW a \in Actor, JoinStatementFails(a) PROVE AttemptInv'
  BY <1>29 DEF JoinStatementFails, Fault, Goto, AttemptInv, HandlerInv
<1>30. ASSUME NEW s \in Session, BotGoesOn(s) PROVE AttemptInv'
  BY <1>30 DEF BotGoesOn, Waits, Joins, Announces, controlPlaneVars, AttemptInv, HandlerInv
<1>31. ASSUME NEW s \in Session, BotEnds(s) PROVE AttemptInv'
  BY <1>31 DEF BotEnds, Ends, Announces, controlPlaneVars, AttemptInv, HandlerInv
<1>32. ASSUME NEW s \in Session, BotDies(s) PROVE AttemptInv'
  BY <1>32 DEF BotDies, Dies, controlPlaneVars, Fault, AttemptInv, HandlerInv
<1>33. ASSUME NEW s \in Session, DeliveryEnds(s) PROVE AttemptInv'
  BY <1>33 DEF DeliveryEnds, Delivered, controlPlaneVars, Handling, Fault, AttemptInv, HandlerInv
<1>34. ASSUME NEW s \in Session, Heartbeat(s) PROVE AttemptInv'
  BY <1>34 DEF Heartbeat, AttemptInv, HandlerInv
<1>35. ASSUME NEW s \in Session, FallSilent(s) PROVE AttemptInv'
  BY <1>35 DEF FallSilent, Attended, Joining, AttemptInv, HandlerInv
<1>36. ASSUME NEW s \in Session, LoseHeartbeats(s) PROVE AttemptInv'
  BY <1>36 DEF LoseHeartbeats, Fault, AttemptInv, HandlerInv
<1>37. CASE AdminCancelBot
  BY <1>37 DEF AdminCancelBot, Request, AttemptInv, HandlerInv
<1>38. CASE PipelineStarts
  BY <1>38 DEF PipelineStarts, AttemptInv, HandlerInv
<1>39. CASE PipelineEnds
  BY <1>39 DEF PipelineEnds, AttemptInv, HandlerInv
<1>40. CASE UNCHANGED vars
  BY <1>40 DEF vars, AttemptInv, HandlerInv
<1>41. QED
  BY <1>1, <1>2, <1>3, <1>4, <1>5, <1>6, <1>7, <1>8, <1>9, <1>10, <1>11,
     <1>12, <1>13, <1>14, <1>15, <1>16, <1>17, <1>18, <1>19, <1>20, <1>21, <1>22,
     <1>23, <1>24, <1>25, <1>26, <1>27, <1>28, <1>29, <1>30, <1>31, <1>32, <1>33,
     <1>34, <1>35, <1>36, <1>37, <1>38, <1>39, <1>40
  DEF Next, Step, JoinStep, WebhookStep, FailoverStep, CancelStep, BotStep

(* A session that ended as completed or canceled stays so: nobody is left   *)
(* to undo it, and its webhooks are handled.                                *)
LEMMA EndedStays ==
  SessionInv /\ HandlerInv /\ AttemptInv /\ [Next]_vars /\ Calm /\ Ended => Ended'
<1> SUFFICES ASSUME SessionInv, HandlerInv, AttemptInv, [Next]_vars, Calm, Ended
             PROVE  Ended'
  OBVIOUS
<1>1. PICK e \in Session : state[e] \in {"done", "canceled"}
  BY DEF Ended
<1>2. ASSUME NEW a \in Actor, CreateBotSession(a) PROVE Ended'
  <2>1. Attempting(a)
    BY <1>2 DEF CreateBotSession, Attempting, At
  <2>2. QED
    BY <2>1 DEF AttemptInv
<1>3. ASSUME NEW a \in Actor, UndoJoin(a) PROVE Ended'
  <2>1. Attempting(a)
    BY <1>3 DEF UndoJoin, Attempting
  <2>2. QED
    BY <2>1 DEF AttemptInv
<1>4. ASSUME NEW a \in Actor, UpdateSessionState(a) PROVE Ended'
  <2>1. sess[a] \in Session /\ OnCall(sess[a])
    BY <1>4 DEF UpdateSessionState, At, HandlerInv, OnCall, SessionInv, ActorInv
  <2>2. QED
    BY <2>1 DEF AttemptInv
<1>5. ASSUME NEW a \in Actor, FailStaleSession(a) PROVE Ended'
  BY <1>5 DEF FailStaleSession, HandlerInv, Handlers, At
<1>6. ASSUME UNCHANGED state PROVE Ended'
  BY <1>1, <1>6 DEF Ended
<1>7. QED
  <2> USE DEF sessionVars
  <2>1. ASSUME NEW a \in Actor, NEW k \in Keys, TakeJoin(a, k) PROVE UNCHANGED state
    BY <2>1 DEF TakeJoin
  <2>2. ASSUME NEW a \in Actor, NEW s \in Session, ReceiveWebhook(a, s) PROVE UNCHANGED state
    BY <2>2 DEF ReceiveWebhook
  <2>3. ASSUME NEW a \in Actor, NEW s \in Session, Recover(a, s) PROVE UNCHANGED state
    BY <2>3 DEF Recover
  <2>4. ASSUME NEW a \in Actor, TakeCancelBot(a) PROVE UNCHANGED state
    BY <2>4 DEF TakeCancelBot
  <2>5. ASSUME NEW a \in Actor, CancelInvite(a) PROVE UNCHANGED state
    BY <2>5 DEF CancelInvite
  <2>6. ASSUME NEW a \in Actor, AdminRetryJoin(a) PROVE UNCHANGED state
    BY <2>6 DEF AdminRetryJoin
  <2>7. ASSUME NEW a \in Actor, IncrementJoinAttempts(a) PROVE UNCHANGED state
    BY <2>7 DEF IncrementJoinAttempts
  <2>8. ASSUME NEW a \in Actor, CreateBot(a) PROVE UNCHANGED state
    BY <2>8 DEF CreateBot
  <2>9. ASSUME NEW a \in Actor, SetRuntimeId(a) PROVE UNCHANGED state
    BY <2>9 DEF SetRuntimeId
  <2>10. ASSUME NEW a \in Actor, MarkJoinQueued(a) PROVE UNCHANGED state
    BY <2>10 DEF MarkJoinQueued
  <2>11. ASSUME NEW a \in Actor, FinishJoin(a) PROVE UNCHANGED state
    BY <2>11 DEF FinishJoin
  <2>12. ASSUME NEW a \in Actor, RejectJoin(a) PROVE UNCHANGED state
    BY <2>12 DEF RejectJoin
  <2>13. ASSUME NEW a \in Actor, ReadOccurrence(a) PROVE UNCHANGED state
    BY <2>13 DEF ReadOccurrence
  <2>14. ASSUME NEW a \in Actor, WriteOccurrence(a) PROVE UNCHANGED state
    BY <2>14 DEF WriteOccurrence
  <2>15. ASSUME NEW a \in Actor, CreateTranscribeJob(a) PROVE UNCHANGED state
    BY <2>15 DEF CreateTranscribeJob
  <2>16. ASSUME NEW a \in Actor, MaybeRetryJoin(a) PROVE UNCHANGED state
    BY <2>16 DEF MaybeRetryJoin
  <2>17. ASSUME NEW a \in Actor, Reschedule(a) PROVE UNCHANGED state
    BY <2>17 DEF Reschedule
  <2>18. ASSUME NEW a \in Actor, CreateRetryJob(a) PROVE UNCHANGED state
    BY <2>18 DEF CreateRetryJob
  <2>19. ASSUME NEW a \in Actor, GiveUp(a) PROVE UNCHANGED state
    BY <2>19 DEF GiveUp
  <2>20. ASSUME NEW a \in Actor, CancelOccurrence(a) PROVE UNCHANGED state
    BY <2>20 DEF CancelOccurrence
  <2>21. ASSUME NEW a \in Actor, CancelJobs(a) PROVE UNCHANGED state
    BY <2>21 DEF CancelJobs
  <2>22. ASSUME NEW a \in Actor, EnqueueCancelBot(a) PROVE UNCHANGED state
    BY <2>22 DEF EnqueueCancelBot
  <2>23. ASSUME NEW a \in Actor, CancelBot(a) PROVE UNCHANGED state
    BY <2>23 DEF CancelBot
  <2>24. ASSUME NEW a \in Actor, Crash(a) PROVE UNCHANGED state
    BY <2>24 DEF Crash
  <2>25. ASSUME NEW a \in Actor, JoinStatementFails(a) PROVE UNCHANGED state
    BY <2>25 DEF JoinStatementFails
  <2>26. ASSUME NEW s \in Session, BotGoesOn(s) PROVE UNCHANGED state
    BY <2>26 DEF BotGoesOn, Waits, Joins, Announces, controlPlaneVars
  <2>27. ASSUME NEW s \in Session, BotEnds(s) PROVE UNCHANGED state
    BY <2>27 DEF BotEnds, Ends, Announces, controlPlaneVars
  <2>28. ASSUME NEW s \in Session, BotDies(s) PROVE UNCHANGED state
    BY <2>28 DEF BotDies, Dies, controlPlaneVars
  <2>29. ASSUME NEW s \in Session, DeliveryEnds(s) PROVE UNCHANGED state
    BY <2>29 DEF DeliveryEnds, Delivered, controlPlaneVars
  <2>30. ASSUME NEW s \in Session, Heartbeat(s) PROVE UNCHANGED state
    BY <2>30 DEF Heartbeat
  <2>31. ASSUME NEW s \in Session, FallSilent(s) PROVE UNCHANGED state
    BY <2>31 DEF FallSilent
  <2>32. ASSUME NEW s \in Session, LoseHeartbeats(s) PROVE UNCHANGED state
    BY <2>32 DEF LoseHeartbeats
  <2>33. ASSUME AdminCancelBot PROVE UNCHANGED state
    BY <2>33 DEF AdminCancelBot
  <2>34. ASSUME PipelineStarts PROVE UNCHANGED state
    BY <2>34 DEF PipelineStarts
  <2>35. ASSUME PipelineEnds PROVE UNCHANGED state
    BY <2>35 DEF PipelineEnds
  <2>36. ASSUME UNCHANGED vars PROVE UNCHANGED state
    BY <2>36 DEF vars
  <2>37. QED
    BY <1>2, <1>3, <1>4, <1>5, <1>6,
       <2>1, <2>2, <2>3, <2>4, <2>5, <2>6, <2>7, <2>8, <2>9,
       <2>10, <2>11, <2>12, <2>13, <2>14, <2>15, <2>16, <2>17, <2>18,
       <2>19, <2>20, <2>21, <2>22, <2>23, <2>24, <2>25, <2>26, <2>27,
       <2>28, <2>29, <2>30, <2>31, <2>32, <2>33, <2>34, <2>35, <2>36
    DEF Next, Step, JoinStep, WebhookStep, FailoverStep, CancelStep, BotStep

(* A cancellation that found every other worker idle sticks: nobody can     *)
(* start to join, and what moves the occurrence on is a recording.          *)
LEMMA SealStep ==
  SessionInv /\ HandlerInv /\ AttemptInv /\ SealInv /\ [Next]_vars => SealInv'
<1> SUFFICES ASSUME SessionInv, HandlerInv, AttemptInv, SealInv, [Next]_vars, Calm, Calm',
                    Ended => Ended'
             PROVE  SealInv'
  BY CalmBefore, EndedStays DEF SealInv
<1> USE DEF SessionInv, TypeOK, OneActiveSession, ActorInv,
            Calm, Handlers, Active, StateOf, Failed,
            occVars, sessionVars, jobVars, botVars, botSessionVars, actorVars, At
<1>1. ASSUME NEW a \in Actor, NEW k \in Keys, TakeJoin(a, k) PROVE SealInv'
  BY <1>1 DEF TakeJoin, Joinable, Begin, Running, SealInv, HandlerInv, AttemptInv,
     Attempting, OnCall
<1>2. ASSUME NEW a \in Actor, NEW s \in Session, ReceiveWebhook(a, s) PROVE SealInv'
  BY <1>2 DEF ReceiveWebhook, Begin, SealInv, HandlerInv, AttemptInv, Attempting, OnCall
<1>3. ASSUME NEW a \in Actor, NEW s \in Session, Recover(a, s) PROVE SealInv'
  BY <1>3 DEF Recover, Begin, Fault, SealInv, HandlerInv, AttemptInv, Attempting, OnCall
<1>4. ASSUME NEW a \in Actor, TakeCancelBot(a) PROVE SealInv'
  <2>1. \/ UNCHANGED actorVars
        \/ \E s \in known : Begin(a, "cancel_call", s, "none", CalendarKey)
    BY <1>4 DEF TakeCancelBot
  <2>2. UNCHANGED <<occVars, sessionVars, transcribe>>
    BY <1>4 DEF TakeCancelBot
  <2>3. QED
    BY <2>1, <2>2 DEF Begin, SealInv, HandlerInv, AttemptInv, Attempting, OnCall
<1>5. ASSUME NEW a \in Actor, CancelInvite(a) PROVE SealInv'
  BY <1>5 DEF CancelInvite, Begin, Request, SealInv, HandlerInv, AttemptInv,
     Attempting, OnCall
<1>6. ASSUME NEW a \in Actor, AdminRetryJoin(a) PROVE SealInv'
  BY <1>6 DEF AdminRetryJoin, Begin, Request, SealInv, HandlerInv, AttemptInv,
     Attempting, OnCall
<1>7. ASSUME NEW a \in Actor, CreateBotSession(a) PROVE SealInv'
  BY <1>7 DEF CreateBotSession, JobDone, Stop, SetState, SealInv, HandlerInv,
     AttemptInv, Attempting, OnCall
<1>8. ASSUME NEW a \in Actor, IncrementJoinAttempts(a) PROVE SealInv'
  BY <1>8 DEF IncrementJoinAttempts, Goto, SealInv, HandlerInv, AttemptInv,
     Attempting, OnCall
<1>9. ASSUME NEW a \in Actor, CreateBot(a) PROVE SealInv'
  BY <1>9 DEF CreateBot, BotStarts, Starts, Goto, Fault, SealInv, HandlerInv, AttemptInv,
     Attempting, OnCall
<1>10. ASSUME NEW a \in Actor, SetRuntimeId(a) PROVE SealInv'
  BY <1>10 DEF SetRuntimeId, Goto, SealInv, HandlerInv, AttemptInv, Attempting, OnCall
<1>11. ASSUME NEW a \in Actor, MarkJoinQueued(a) PROVE SealInv'
  BY <1>11 DEF MarkJoinQueued, Goto, SealInv, HandlerInv, AttemptInv, Attempting, OnCall
<1>12. ASSUME NEW a \in Actor, FinishJoin(a) PROVE SealInv'
  BY <1>12 DEF FinishJoin, JobDone, Stop, SealInv, HandlerInv, AttemptInv,
     Attempting, OnCall
<1>13. ASSUME NEW a \in Actor, UndoJoin(a) PROVE SealInv'
  BY <1>13 DEF UndoJoin, SetState, Goto, Stop, JobDone, SealInv, HandlerInv,
     AttemptInv, Attempting, OnCall
<1>14. ASSUME NEW a \in Actor, RejectJoin(a) PROVE SealInv'
  BY <1>14 DEF RejectJoin, JobDone, Stop, SealInv, HandlerInv, AttemptInv,
     Attempting, OnCall
<1>15. ASSUME NEW a \in Actor, UpdateSessionState(a) PROVE SealInv'
  BY <1>15 DEF UpdateSessionState, NoOtherActive, Stop, SetState, Goto, SealInv,
     HandlerInv, AttemptInv, Attempting, OnCall
<1>16. ASSUME NEW a \in Actor, ReadOccurrence(a) PROVE SealInv'
  BY <1>16 DEF ReadOccurrence, Choose, Goto, Stop, MappedStatus, SealInv,
     HandlerInv, AttemptInv, Attempting, OnCall
<1>17. ASSUME NEW a \in Actor, WriteOccurrence(a) PROVE SealInv'
  <2>1. val[a] = "post_meeting" => Ended
    BY <1>17 DEF WriteOccurrence, Ended, HandlerInv
  <2>2. QED
    BY <1>17, <2>1 DEF WriteOccurrence, Goto, Stop, SealInv, HandlerInv,
       AttemptInv, Attempting, OnCall
<1>18. ASSUME NEW a \in Actor, CreateTranscribeJob(a) PROVE SealInv'
  <2>1. Ended
    BY <1>18 DEF CreateTranscribeJob, Ended, HandlerInv
  <2>2. QED
    BY <1>18, <2>1 DEF CreateTranscribeJob, Stop, SealInv, HandlerInv, AttemptInv,
       Attempting, OnCall
<1>19. ASSUME NEW a \in Actor, FailStaleSession(a) PROVE SealInv'
  BY <1>19 DEF FailStaleSession, SetState, Goto, SealInv, HandlerInv, AttemptInv,
     Attempting, OnCall
<1>20. ASSUME NEW a \in Actor, MaybeRetryJoin(a) PROVE SealInv'
  BY <1>20 DEF MaybeRetryJoin, Stop, Goto, SealInv, HandlerInv, AttemptInv,
     Attempting, OnCall
<1>21. ASSUME NEW a \in Actor, Reschedule(a) PROVE SealInv'
  BY <1>21 DEF Reschedule, Goto, SealInv, HandlerInv, AttemptInv, Attempting, OnCall
<1>22. ASSUME NEW a \in Actor, CreateRetryJob(a) PROVE SealInv'
  BY <1>22 DEF CreateRetryJob, Stop, SealInv, HandlerInv, AttemptInv, Attempting, OnCall
<1>23. ASSUME NEW a \in Actor, GiveUp(a) PROVE SealInv'
  BY <1>23 DEF GiveUp, Stop, SealInv, HandlerInv, AttemptInv, Attempting, OnCall
<1>24. ASSUME NEW a \in Actor, CancelOccurrence(a) PROVE SealInv'
  BY <1>24 DEF CancelOccurrence, Goto, SealInv, HandlerInv, AttemptInv, Attempting,
     OnCall
<1>25. ASSUME NEW a \in Actor, CancelJobs(a) PROVE SealInv'
  BY <1>25 DEF CancelJobs, Goto, Stop, SealInv, HandlerInv, AttemptInv, Attempting,
     OnCall
<1>26. ASSUME NEW a \in Actor, EnqueueCancelBot(a) PROVE SealInv'
  BY <1>26 DEF EnqueueCancelBot, Stop, SealInv, HandlerInv, AttemptInv, Attempting,
     OnCall
<1>27. ASSUME NEW a \in Actor, CancelBot(a) PROVE SealInv'
  <2>1. /\ At(a, "cancel_call") /\ Stop(a)
        /\ UNCHANGED <<bot, slot, logged, sessionVars, occVars, transcribe>>
    BY <1>27 DEF CancelBot
  <2>2. QED
    BY <2>1 DEF Stop, SealInv, HandlerInv, AttemptInv, Attempting, OnCall
<1>28. ASSUME NEW a \in Actor, Crash(a) PROVE SealInv'
  BY <1>28 DEF Crash, Fault, Stop, SealInv, HandlerInv, AttemptInv, Attempting, OnCall
<1>29. ASSUME NEW a \in Actor, JoinStatementFails(a) PROVE SealInv'
  BY <1>29 DEF JoinStatementFails, Fault, Goto, SealInv, HandlerInv, AttemptInv,
     Attempting, OnCall
<1>30. ASSUME NEW s \in Session, BotGoesOn(s) PROVE SealInv'
  BY <1>30 DEF BotGoesOn, Waits, Joins, Announces, controlPlaneVars, SealInv, HandlerInv, AttemptInv, Attempting, OnCall
<1>31. ASSUME NEW s \in Session, BotEnds(s) PROVE SealInv'
  BY <1>31 DEF BotEnds, Ends, Announces, controlPlaneVars, SealInv, HandlerInv, AttemptInv, Attempting, OnCall
<1>32. ASSUME NEW s \in Session, BotDies(s) PROVE SealInv'
  BY <1>32 DEF BotDies, Dies, controlPlaneVars, Fault, SealInv, HandlerInv, AttemptInv, Attempting, OnCall
<1>33. ASSUME NEW s \in Session, DeliveryEnds(s) PROVE SealInv'
  BY <1>33 DEF DeliveryEnds, Delivered, controlPlaneVars, Handling, Fault, SealInv, HandlerInv, AttemptInv,
     Attempting, OnCall
<1>34. ASSUME NEW s \in Session, Heartbeat(s) PROVE SealInv'
  BY <1>34 DEF Heartbeat, SealInv, HandlerInv, AttemptInv, Attempting, OnCall
<1>35. ASSUME NEW s \in Session, FallSilent(s) PROVE SealInv'
  BY <1>35 DEF FallSilent, Attended, Joining, SealInv, HandlerInv, AttemptInv,
     Attempting, OnCall
<1>36. ASSUME NEW s \in Session, LoseHeartbeats(s) PROVE SealInv'
  BY <1>36 DEF LoseHeartbeats, Fault, SealInv, HandlerInv, AttemptInv, Attempting,
     OnCall
<1>37. CASE AdminCancelBot
  BY <1>37 DEF AdminCancelBot, Request, SealInv, HandlerInv, AttemptInv,
     Attempting, OnCall
<1>38. CASE PipelineStarts
  BY <1>38 DEF PipelineStarts, SealInv, HandlerInv, AttemptInv, Attempting, OnCall
<1>39. CASE PipelineEnds
  BY <1>39 DEF PipelineEnds, SealInv, HandlerInv, AttemptInv, Attempting, OnCall
<1>40. CASE UNCHANGED vars
  BY <1>40 DEF vars, SealInv, HandlerInv, AttemptInv, Attempting, OnCall
<1>41. QED
  BY <1>1, <1>2, <1>3, <1>4, <1>5, <1>6, <1>7, <1>8, <1>9, <1>10, <1>11,
     <1>12, <1>13, <1>14, <1>15, <1>16, <1>17, <1>18, <1>19, <1>20, <1>21, <1>22,
     <1>23, <1>24, <1>25, <1>26, <1>27, <1>28, <1>29, <1>30, <1>31, <1>32, <1>33,
     <1>34, <1>35, <1>36, <1>37, <1>38, <1>39, <1>40
  DEF Next, Step, JoinStep, WebhookStep, FailoverStep, CancelStep, BotStep

LEMMA InitCalm == Init => AttemptInv /\ HandlerInv /\ SealInv
<1> SUFFICES ASSUME Init PROVE AttemptInv /\ HandlerInv /\ SealInv
  OBVIOUS
<1> USE DEF Init, BotInit
<1>1. AttemptInv
  <2>1. /\ \A a \in Actor : ~Attempting(a)
        /\ \A s \in Session : ~OnCall(s)
        /\ ~Ended
    BY DEF Attempting, OnCall, Active, Ended
  <2>2. \A k \in Keys : Waiting(k) => k = CalendarKey
    BY DEF Waiting
  <2>3. QED
    BY <2>1, <2>2 DEF AttemptInv
<1>2. HandlerInv
  BY DEF HandlerInv, Handlers, Active
<1>3. SealInv
  BY DEF SealInv
<1>4. QED
  BY <1>1, <1>2, <1>3

(* The inductive invariant holds in every behaviour.                        *)
THEOREM Invariant == Spec => []IInv
<1>1. Init => IInv
  BY InitSessionInv, InitRiskInv, InitCalm DEF IInv
<1>2. IInv /\ [Next]_vars => IInv'
  BY SessionStep, RiskInvStep, AttemptStep, HandlerStep, SealStep DEF IInv
<1>3. QED
  BY <1>1, <1>2, PTL DEF Spec

(* Whatever late webhook, retry or recovery comes, the occurrence has at    *)
(* most one active session.                                                 *)
THEOREM AtMostOneActiveSession == Spec => []OneActiveSession
<1>1. IInv => OneActiveSession
  BY DEF IInv, SessionInv
<1>2. QED
  BY <1>1, Invariant, PTL

(* Without faults no bot is in a meeting without an active session.         *)
THEOREM LiveBotsTrackedHolds == Spec => []LiveBotsTracked
<1>1. IInv => LiveBotsTracked
  BY DEF IInv, SessionInv, TrackedInv, LiveBotsTracked
<1>2. QED
  BY <1>1, Invariant, PTL

(* Without faults no recording of a finished bot misses the pipeline.       *)
THEOREM RecordingsTranscribedHolds == Spec => []RecordingsTranscribed
<1>1. IInv => RecordingsTranscribed
  BY DEF IInv, SessionInv, TypeOK, RecordingInv, RecordingsTranscribed
<1>2. QED
  BY <1>1, Invariant, PTL

(* A second bot of one meeting takes a fault, a third another one: of the   *)
(* bots in the meeting that are not at risk each has an active session, and *)
(* there is one of those.                                                   *)
THEOREM ExtraBotsNeedFaultsHolds == Spec => []ExtraBotsNeedFaults
<1>1. IInv => ExtraBotsNeedFaults
  <2> SUFFICES ASSUME SessionInv, RiskInv PROVE ExtraBotsNeedFaults
    BY DEF IInv
  <2>1. PICK t : Live \subseteq Risk \cup {t}
    <3>1. \A s \in Live \ Risk : s \in Session /\ Active(s)
      BY DEF Risk, Present, Doomed, Live
    <3>2. \A s, u \in Live \ Risk : s = u
      BY <3>1 DEF SessionInv, OneActiveSession
    <3>3. QED
      BY <3>2
  <2>2. /\ IsFiniteSet(Risk \cup {t})
        /\ Cardinality(Risk \cup {t}) \in {Cardinality(Risk), Cardinality(Risk) + 1}
    BY FS_AddElement DEF RiskInv
  <2>3. IsFiniteSet(Live) /\ Cardinality(Live) <= Cardinality(Risk \cup {t})
    BY <2>1, <2>2, FS_Subset
  <2>4. Cardinality(Live) \in Nat /\ Cardinality(Risk) \in Nat /\ faults \in Nat
    BY <2>3, FS_CardinalityType DEF RiskInv, SessionInv, TypeOK
  <2>5. QED
    BY <2>2, <2>3, <2>4 DEF RiskInv, ExtraBotsNeedFaults
<1>2. QED
  BY <1>1, Invariant, PTL

(* Without faults and admin retries, a cancellation that no worker was in   *)
(* the middle of is never undone.                                           *)
THEOREM CancellationSticksHolds == Spec => []CancellationSticks
<1>1. IInv => CancellationSticks
  BY DEF IInv, SealInv, Calm, CancellationSticks
<1>2. QED
  BY <1>1, Invariant, PTL

(* The bots of the sessions keep to the contract of MeetingBot: the control *)
(* plane asks the runtime for one bot per session, whatever it retries, and *)
(* aborts only bots that have not ended.                                    *)
LEMMA BotsStep == SessionInv /\ [Next]_vars => [BotNext]_botSessionVars
<1> SUFFICES ASSUME TypeOK, ActorInv, [Next]_vars PROVE [BotNext]_botSessionVars
  BY DEF SessionInv
<1>1. ASSUME NEW a \in Actor, CreateBot(a) PROVE [BotNext]_botSessionVars
  <2>1. sess[a] \in Session
    BY <1>1 DEF CreateBot, At, ActorInv, Owners
  <2>2. Starts(sess[a]) \/ UNCHANGED botVars
    BY <1>1 DEF CreateBot, BotStarts
  <2>3. QED
    BY <2>1, <2>2 DEF BotNext, botVars
<1>2. ASSUME NEW a \in Actor, CancelBot(a) PROVE [BotNext]_botSessionVars
  <2>1. UNCHANGED <<bot, slot>>
    BY <1>2 DEF CancelBot
  <2>2. CASE sess[a] \in Live /\ aborting' = aborting \cup {sess[a]}
    BY <2>1, <2>2 DEF BotNext, Aborts, Live
  <2>3. CASE aborting' = aborting
    BY <2>1, <2>3 DEF botSessionVars
  <2>4. QED
    BY <1>2, <2>2, <2>3 DEF CancelBot
<1>3. ASSUME NEW s \in Session, BotStep(s) \/ BotDies(s) \/ DeliveryEnds(s)
      PROVE  BotNext
  BY <1>3 DEF BotNext, BotStep, BotGoesOn, BotEnds, BotDies, DeliveryEnds
<1>4. ASSUME NEW a \in Actor, NEW s \in Session, ReceiveWebhook(a, s)
      PROVE  UNCHANGED botSessionVars
  BY <1>4 DEF ReceiveWebhook, botSessionVars
<1> USE DEF botVars
<1>5. ASSUME NEW a \in Actor, NEW k \in Keys, TakeJoin(a, k)
      PROVE  UNCHANGED botSessionVars
  BY <1>5 DEF TakeJoin
<1>6. ASSUME NEW a \in Actor, NEW s \in Session, Recover(a, s)
      PROVE  UNCHANGED botSessionVars
  BY <1>6 DEF Recover
<1>7. ASSUME NEW a \in Actor, TakeCancelBot(a) \/ CancelInvite(a) \/ AdminRetryJoin(a)
      PROVE  UNCHANGED botSessionVars
  BY <1>7 DEF TakeCancelBot, CancelInvite, AdminRetryJoin
<1>8. ASSUME NEW a \in Actor, JoinStep(a) PROVE [BotNext]_botSessionVars
  BY <1>1, <1>8 DEF JoinStep, CreateBotSession, IncrementJoinAttempts, SetRuntimeId,
     MarkJoinQueued, FinishJoin, UndoJoin, RejectJoin
<1>9. ASSUME NEW a \in Actor, WebhookStep(a) \/ FailoverStep(a)
      PROVE  UNCHANGED botSessionVars
  BY <1>9 DEF WebhookStep, UpdateSessionState, ReadOccurrence, WriteOccurrence,
     CreateTranscribeJob, FailoverStep, FailStaleSession, MaybeRetryJoin, Reschedule,
     CreateRetryJob, GiveUp
<1>10. ASSUME NEW a \in Actor, CancelStep(a) PROVE [BotNext]_botSessionVars
  BY <1>2, <1>10 DEF CancelStep, CancelOccurrence, CancelJobs, EnqueueCancelBot
<1>11. ASSUME NEW a \in Actor, Crash(a) \/ JoinStatementFails(a)
       PROVE  UNCHANGED botSessionVars
  BY <1>11 DEF Crash, JoinStatementFails
<1>12. ASSUME NEW s \in Session, Heartbeat(s) \/ FallSilent(s) \/ LoseHeartbeats(s)
       PROVE  UNCHANGED botSessionVars
  BY <1>12 DEF Heartbeat, FallSilent, LoseHeartbeats
<1>13. CASE AdminCancelBot \/ PipelineStarts \/ PipelineEnds
  BY <1>13 DEF AdminCancelBot, PipelineStarts, PipelineEnds
<1>14. CASE UNCHANGED vars
  BY <1>14 DEF vars
<1>15. QED
  BY <1>3, <1>4, <1>5, <1>6, <1>7, <1>8, <1>9, <1>10, <1>11, <1>12, <1>13, <1>14
     DEF Next, Step

THEOREM SessionsRunOnMeetingBots == Spec => BotSpec
<1>1. Init => BotInit
  BY DEF Init
<1>2. IInv /\ [Next]_vars => [BotNext]_botSessionVars
  BY BotsStep DEF IInv
<1>3. QED
  BY <1>1, <1>2, Invariant, PTL DEF Spec, BotSpec
=============================================================================
