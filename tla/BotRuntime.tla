----------------------------- MODULE BotRuntime -----------------------------
(***************************************************************************)
(* The bot runtime (apps/bot-runtime/src/app.ts): sessions in the memory   *)
(* of one process, each with the life cycle of its bot around Recorder's   *)
(* record(), its webhooks to the control plane, and its uploads to the     *)
(* container worker (deploy/bot-container/src/index.ts).                   *)
(*                                                                         *)
(* transition() sets the state and awaits its webhook: the states that a   *)
(* bot still has to take wait in say, the head of which is taken by        *)
(* Transition and leaves the queue with its webhook.                       *)
(***************************************************************************)
EXTENDS Recorder

CONSTANTS SessionId,        \* bot sessions of the control plane
          NoSession,
          Capacity,         \* BOT_MAX_CONCURRENT_SESSIONS
          WebhookAttempts,  \* WEBHOOK_DELIVERY_ATTEMPTS
          UploadAttempts,   \* UPLOAD_ATTEMPTS
          Chunks,           \* chunks of a large recording
          Storage           \* "any" that accepts uploads, or the "container_worker"

ASSUME RuntimeAssumption ==
    /\ NoSession \notin SessionId /\ Storage \in {"any", "container_worker"}
    /\ {Capacity, WebhookAttempts, UploadAttempts, Chunks} \subseteq Nat \ {0}

VARIABLES
    session,  \* botSessionId of a runtime bot, NoSession before it is created
    state,    \* its BotSessionState
    life,     \* stage of runBotLifecycle
    hook,     \* attempts left for the webhook being delivered
    heard,    \* the last state that the control plane was told of
    tries,    \* attempts of the upload being made
    part,     \* what is being uploaded: 0 the recording, then its chunks
    stored,   \* parts in R2
    keyed,    \* recordingKey is set, to be sent with the webhooks
    diag      \* diagnostics: todo, kept in R2, and keys to be reported

runtimeVars == <<session, state, life, hook, heard, tries, part, stored, keyed, diag>>
vars == <<recorderVars, runtimeVars>>

Terminal == {"post_processing_completed", "failed", "canceled"}
States == Announced \cup Terminal \cup {"none", "created", "stopping", "uploading"}
Parts == 0..Chunks
Diagnostics == {"page", "log"}
NoDiagnostics == [todo |-> <<>>, kept |-> {}, keys |-> {}]

TypeOK ==
    /\ RecorderTypeOK
    /\ \A b \in Bot : /\ Len(say[b]) <= 3
                      /\ \A i \in 1..Len(say[b]) : say[b][i] \in States
    /\ session \in [Bot -> SessionId \cup {NoSession}]
    /\ state \in [Bot -> States] /\ heard \in [Bot -> States]
    /\ life \in [Bot -> {"none", "record", "upload", "split", "partial", "fail",
                        "diagnose", "done"}]
    /\ hook \in [Bot -> 0..WebhookAttempts]
    /\ tries \in [Bot -> 0..(UploadAttempts - 1)]
    /\ part \in [Bot -> Parts] /\ stored \in [Bot -> SUBSET Parts]
    /\ keyed \in [Bot -> BOOLEAN]
    /\ diag \in [Bot -> [todo : {<<"page", "log">>, <<"log">>, <<>>},
                         kept : SUBSET Diagnostics, keys : SUBSET Diagnostics]]

Init ==
    /\ RecorderInit
    /\ session = [b \in Bot |-> NoSession]
    /\ state = [b \in Bot |-> "none"] /\ heard = [b \in Bot |-> "none"]
    /\ life = [b \in Bot |-> "none"] /\ hook = [b \in Bot |-> 0]
    /\ tries = [b \in Bot |-> 0] /\ part = [b \in Bot |-> 0]
    /\ stored = [b \in Bot |-> {}] /\ keyed = [b \in Bot |-> FALSE]
    /\ diag = [b \in Bot |-> NoDiagnostics]

----------------------------------------------------------------------------
(* The API.                                                                 *)

Live(b) == session[b] # NoSession /\ state[b] \notin Terminal
Over(b) == life[b] = "done" /\ say[b] = <<>>

(* POST /v1/bots: a session has one live bot, and the process so many;      *)
(* 409 and 429 otherwise.  The created webhook goes out first.              *)
Create(b, id) ==
    /\ session[b] = NoSession
    /\ \A c \in Bot : session[c] = id => ~Live(c)
    /\ Cardinality({c \in Bot : Live(c)}) < Capacity
    /\ session' = [session EXCEPT ![b] = id]
    /\ state' = [state EXCEPT ![b] = "created"]
    /\ life' = [life EXCEPT ![b] = "record"]
    /\ Say(b, <<"created">>) /\ hook' = [hook EXCEPT ![b] = WebhookAttempts]
    /\ UNCHANGED <<rec, join, expired, aborted, open, orphans, bytes, error, faults,
                   heard, tries, part, stored, keyed, diag>>

(* POST /v1/bots/:id/cancel: the abort of a live session.  Once record()    *)
(* has returned nobody looks at it.                                         *)
Cancel(b) ==
    /\ Live(b) /\ aborted[b] = "no"
    /\ aborted' = [aborted EXCEPT ![b] = IF life[b] = "record" THEN "running" ELSE "finished"]
    /\ UNCHANGED <<rec, say, join, expired, open, orphans, bytes, error, faults, runtimeVars>>

----------------------------------------------------------------------------
(* Transitions and their webhooks.                                          *)

(* onState announces whatever record() reports, aborted or not.             *)
TransitionOfAborted(b) ==
    /\ say[b] # <<>> /\ hook[b] = 0
    /\ IF life[b] = "record" /\ state[b] = Head(say[b])
       THEN /\ Say(b, Tail(say[b]))
            /\ UNCHANGED <<state, hook>>
       ELSE /\ state' = [state EXCEPT ![b] = Head(say[b])]
            /\ hook' = [hook EXCEPT ![b] = WebhookAttempts]
            /\ UNCHANGED say
    /\ UNCHANGED <<rec, join, expired, aborted, open, orphans, bytes, error, faults,
                   session, life, heard, tries, part, stored, keyed, diag>>

(* onState drops what comes after an abort; transition() does not.          *)
Transition(b) ==
    /\ say[b] # <<>> /\ hook[b] = 0
    /\ IF life[b] = "record" /\ (aborted[b] # "no" \/ state[b] = Head(say[b]))
       THEN /\ Say(b, Tail(say[b]))
            /\ UNCHANGED <<state, hook>>
       ELSE /\ state' = [state EXCEPT ![b] = Head(say[b])]
            /\ hook' = [hook EXCEPT ![b] = WebhookAttempts]
            /\ UNCHANGED say
    /\ UNCHANGED <<rec, join, expired, aborted, open, orphans, bytes, error, faults,
                   session, life, heard, tries, part, stored, keyed, diag>>

deliveryVars == <<rec, join, expired, aborted, open, orphans, bytes, error,
                  session, state, life, tries, part, stored, keyed, diag>>

(* deliverWebhook: one attempt.                                             *)
DeliverOnce(b) ==
    /\ hook[b] > 0
    /\ \/ heard' = [heard EXCEPT ![b] = state[b]] /\ UNCHANGED faults
       \/ Fault /\ UNCHANGED heard
    /\ hook' = [hook EXCEPT ![b] = 0] /\ Say(b, Tail(say[b]))
    /\ UNCHANGED deliveryVars

(* It is tried again, and in the end given up without an error.             *)
Deliver(b) ==
    /\ hook[b] > 0
    /\ \/ /\ heard' = [heard EXCEPT ![b] = state[b]]
          /\ hook' = [hook EXCEPT ![b] = 0] /\ Say(b, Tail(say[b]))
          /\ UNCHANGED faults
       \/ /\ Fault /\ UNCHANGED heard
          /\ hook' = [hook EXCEPT ![b] = @ - 1]
          /\ say' = IF hook[b] = 1 THEN [say EXCEPT ![b] = Tail(@)] ELSE say
    /\ UNCHANGED deliveryVars

----------------------------------------------------------------------------
(* runBotLifecycle.                                                         *)

Record(b) == life[b] = "record" /\ (StartRecord(b) \/ RecordStep(b)) /\ UNCHANGED runtimeVars
DeadlinePasses(b) == Expire(b) /\ UNCHANGED runtimeVars

Enter(b, stage) == life' = [life EXCEPT ![b] = stage]
Keep(b, key) == keyed' = [keyed EXCEPT ![b] = key]

lifeVars == <<rec, join, expired, aborted, open, orphans, bytes, session, state, hook, heard, diag>>

(* What was thrown is looked at before the abort.                           *)
ConcludeErrorFirst(b) ==
    /\ life[b] = "record" /\ At(b, "ended")
    /\ IF error[b] # "none"
       THEN Enter(b, "fail") /\ UNCHANGED <<say, keyed>>
       ELSE IF aborted[b] = "no"
       THEN Enter(b, "upload") /\ Keep(b, TRUE) /\ Say(b, <<"stopping", "uploading">>)
       ELSE IF bytes[b] # "none"
       THEN Enter(b, "partial") /\ Keep(b, TRUE) /\ Say(b, <<"stopping", "uploading">>)
       ELSE Enter(b, "done") /\ Say(b, <<"stopping", "canceled">>) /\ UNCHANGED keyed
    /\ UNCHANGED <<lifeVars, error, faults, tries, part, stored>>

(* A canceled recording is thrown away.                                     *)
ConcludeDiscarding(b) ==
    /\ life[b] = "record" /\ At(b, "ended")
    /\ IF aborted[b] # "no"
       THEN Enter(b, "done") /\ Say(b, <<"stopping", "canceled">>) /\ UNCHANGED keyed
       ELSE IF error[b] # "none"
       THEN Enter(b, "fail") /\ UNCHANGED <<say, keyed>>
       ELSE Enter(b, "upload") /\ Keep(b, TRUE) /\ Say(b, <<"stopping", "uploading">>)
    /\ UNCHANGED <<lifeVars, error, faults, tries, part, stored>>

(* record() is over: a canceled run uploads what it has, a failed one       *)
(* reports, and any other uploads its recording, be it empty.               *)
Conclude(b) ==
    /\ life[b] = "record" /\ At(b, "ended")
    /\ IF aborted[b] # "no"
       THEN IF bytes[b] # "none"
            THEN Enter(b, "partial") /\ Keep(b, TRUE) /\ Say(b, <<"stopping", "uploading">>)
            ELSE Enter(b, "done") /\ Say(b, <<"stopping", "canceled">>) /\ UNCHANGED keyed
       ELSE IF error[b] # "none"
       THEN Enter(b, "fail") /\ UNCHANGED <<say, keyed>>
       ELSE Enter(b, "upload") /\ Keep(b, TRUE) /\ Say(b, <<"stopping", "uploading">>)
    /\ UNCHANGED <<lifeVars, error, faults, tries, part, stored>>

(* The PUT that the runtime sends, and the container worker's answer to it. *)
UploadHeaders == {"authorization", "content-type", "x-recording-key"}

StoreRecording(headers, size) ==
    IF "authorization" \notin headers THEN "client_error"
    ELSE IF {"x-recording-bucket", "x-recording-key"} \ headers # {} THEN "client_error"
    ELSE IF size = "none" THEN "client_error"
    ELSE "stored"

(* What else may come of an upload: another status, no answer, or an answer *)
(* lost after the object was stored.                                        *)
Answers(size) ==
    {IF Storage = "any" THEN "stored" ELSE StoreRecording(UploadHeaders, size)}
        \cup (IF faults < MaxFaults THEN {"client_error", "server_error", "stored_unheard"} ELSE {})

Put(answer) == answer \in {"stored", "stored_unheard"}

Answered(answer) ==
    faults' = IF answer = "stored" \/ (Storage # "any" /\ answer = "client_error")
              THEN faults ELSE faults + 1

Stores(b, answer) ==
    /\ stored' = [stored EXCEPT ![b] = IF Put(answer) THEN @ \cup {part[b]} ELSE @]
    /\ Answered(answer)

(* uploadWithRetry: server errors and lost answers are tried again.         *)
GivesUp(b, answer) == answer = "client_error" \/ tries[b] = UploadAttempts - 1

UploadAgain(b, answer) ==
    /\ tries' = [tries EXCEPT ![b] = @ + 1]
    /\ UNCHANGED <<say, life, part, keyed, error>>

Completed(b) == Enter(b, "done") /\ Say(b, <<"post_processing_completed">>)



(* finishCompleted after an upload: a recording above the threshold is      *)
(* split and its chunks are uploaded too.                                   *)
NextUpload(b) ==
    IF bytes[b] = "large" /\ part[b] < Chunks
    THEN /\ Enter(b, IF part[b] = 0 THEN "split" ELSE "upload")
         /\ part' = [part EXCEPT ![b] = @ + 1] /\ UNCHANGED say
    ELSE Completed(b) /\ UNCHANGED part

Upload(b) ==
    /\ life[b] = "upload" /\ say[b] = <<>>
    /\ \E answer \in Answers(bytes[b]) :
          /\ Stores(b, answer)
          /\ IF answer = "stored"
             THEN NextUpload(b) /\ tries' = [tries EXCEPT ![b] = 0] /\ UNCHANGED <<keyed, error>>
             ELSE IF GivesUp(b, answer)
             THEN Enter(b, "fail") /\ Throw(b, "upload") /\ UNCHANGED <<say, part, tries, keyed>>
             ELSE UploadAgain(b, answer)
    /\ UNCHANGED lifeVars

(* splitForUpload: ffmpeg cuts the chunks, or fails.                        *)
Split(b) ==
    /\ life[b] = "split"
    /\ \/ Enter(b, "upload") /\ UNCHANGED <<error, faults>>
       \/ Fault /\ Enter(b, "fail") /\ Throw(b, "upload")
    /\ UNCHANGED <<lifeVars, say, tries, part, stored, keyed>>

(* The key is reported whatever became of the upload.                       *)
UploadPartialKeepingKey(b) ==
    /\ life[b] = "partial" /\ say[b] = <<>>
    /\ \E answer \in Answers(bytes[b]) :
          /\ Stores(b, answer)
          /\ IF answer # "stored" /\ ~GivesUp(b, answer)
             THEN UploadAgain(b, answer)
             ELSE /\ Enter(b, "done") /\ Say(b, <<"canceled">>)
                  /\ UNCHANGED <<tries, part, error, keyed>>
    /\ UNCHANGED lifeVars

(* finishCanceled: a partial upload that fails leaves no key, and still     *)
(* ends as canceled.                                                        *)
UploadPartial(b) ==
    /\ life[b] = "partial" /\ say[b] = <<>>
    /\ \E answer \in Answers(bytes[b]) :
          /\ Stores(b, answer)
          /\ IF answer # "stored" /\ ~GivesUp(b, answer)
             THEN UploadAgain(b, answer)
             ELSE /\ Enter(b, "done") /\ Say(b, <<"canceled">>) /\ Keep(b, answer = "stored")
                  /\ UNCHANGED <<tries, part, error>>
    /\ UNCHANGED lifeVars

diagnosisVars == <<rec, join, expired, aborted, open, orphans, bytes, error,
                   session, state, hook, heard, tries, part, stored, keyed>>

(* capturePageDiagnostics: as much of the page as could be captured, if the *)
(* failure is one of the recorder with a page open.                         *)
CapturePageDiagnostics(stage) ==
    IF stage \in {"upload", "audio_setup"} THEN {<<>>} ELSE {<<>>, <<"page">>}

(* finishFailed: the page, then the log, which is never empty.              *)
FinishFailed(b) ==
    /\ life[b] = "fail" /\ say[b] = <<>>
    /\ Enter(b, "diagnose")
    /\ \E page \in CapturePageDiagnostics(error[b]) :
          diag' = [diag EXCEPT ![b].todo = page \o <<"log">>]
    /\ UNCHANGED <<diagnosisVars, say, faults>>

(* uploadDiagnostics: one attempt for each; a failure is not reported, and  *)
(* hides nothing of the failure that is.                                    *)
UploadDiagnostics(b) ==
    /\ life[b] = "diagnose" /\ diag[b].todo # <<>>
    /\ LET key == Head(diag[b].todo)
       IN \E answer \in Answers("small") :
             /\ Answered(answer)
             /\ diag' = [diag EXCEPT ![b] =
                           [todo |-> Tail(@.todo),
                            kept |-> IF Put(answer) THEN @.kept \cup {key} ELSE @.kept,
                            keys |-> IF answer = "stored" THEN @.keys \cup {key} ELSE @.keys]]
    /\ UNCHANGED <<diagnosisVars, life, say>>

ReportFailure(b) ==
    /\ life[b] = "diagnose" /\ diag[b].todo = <<>>
    /\ Enter(b, "done") /\ Say(b, <<"failed">>)
    /\ UNCHANGED <<diagnosisVars, faults, diag>>

BotStep(b) ==
    \/ Transition(b) \/ Deliver(b) \/ Record(b) \/ Conclude(b)
    \/ Upload(b) \/ Split(b) \/ UploadPartial(b) \/ FinishFailed(b)
    \/ UploadDiagnostics(b) \/ ReportFailure(b)

Next ==
    \E b \in Bot :
       \/ \E id \in SessionId : Create(b, id)
       \/ Cancel(b) \/ DeadlinePasses(b) \/ BotStep(b)

Spec == Init /\ [][Next]_vars

(* The process runs: every step of it that can be taken is.                 *)
FairSpec == Spec /\ \A b \in Bot : WF_vars(BotStep(b))

----------------------------------------------------------------------------
(* What the control plane sees of a bot: its phase, and the webhook that it *)
(* is delivering.                                                           *)
JoiningStates == {"created", "warming", "browser_starting", "prejoin",
                  "waiting_for_start", "waiting_room"}
JoinedStates == {"joined", "recording", "stopping", "uploading"}

Phase(b) ==
    CASE state[b] \in JoiningStates -> "joining"
      [] state[b] \in JoinedStates -> "joined"
      [] state[b] = "post_processing_completed" -> "done"
      [] OTHER -> state[b]

Kind(b) ==
    CASE state[b] = "failed" -> IF error[b] \in Blockers THEN "failed_final"
                                ELSE "failed_retryable"
      [] state[b] = "canceled" -> IF keyed[b] THEN "canceled_recorded" ELSE "canceled"
      [] OTHER -> Phase(b)

Webhook(b) == IF hook[b] = 0 THEN "none" ELSE Kind(b)

Meeting == INSTANCE MeetingBot
    WITH Session <- Bot,
         bot <- [b \in Bot |-> Phase(b)],
         aborting <- {b \in Bot : aborted[b] # "no"},
         slot <- [b \in Bot |-> Webhook(b)]

----------------------------------------------------------------------------
(* Properties.                                                              *)

(* One live bot per session, and no more than the process has room for      *)
(* (app.ts:235-243).                                                        *)
RoomForAll ==
    /\ Cardinality({b \in Bot : Live(b)}) <= Capacity
    /\ \A b, c \in Bot : Live(b) /\ Live(c) /\ session[b] = session[c] => b = c

(* A bot canceled while it joined or recorded ends as canceled, whatever    *)
(* record() throws and whatever becomes of its upload (app.ts:332, 393).    *)
CancelWins == \A b \in Bot : aborted[b] = "running" => state[b] \notin Terminal \ {"canceled"}

(* What completes is in storage, with all of its chunks; what is canceled   *)
(* reports a recording only if it is (app.ts:393-394), and what failed      *)
(* reports just the diagnostics that are there (app.ts:410-411).            *)
ReportedIsStored ==
    \A b \in Bot :
       /\ state[b] = "post_processing_completed" => 0 \in stored[b]
       /\ state[b] = "post_processing_completed" /\ bytes[b] = "large" => stored[b] = Parts
       /\ state[b] = "canceled" /\ keyed[b] => 0 \in stored[b]
       /\ state[b] = "failed" => diag[b].keys \subseteq diag[b].kept

(* Retries, blockers, deadlines and cancellations leave no browser, profile *)
(* or audio sink behind (runtime.ts:213-221), short of a fault.             *)
NothingLeftBehind ==
    faults = 0 => \A b \in Bot : rec[b] = "ended" => open[b] = {} /\ orphans[b] = {}

(* The control plane learns how a session ended, unless every attempt to    *)
(* tell it failed (app.ts:522-540).                                         *)
EndIsHeard ==
    faults < WebhookAttempts => \A b \in Bot : Over(b) => heard[b] = state[b]

(* A recording that was made is uploaded, if nothing fails                  *)
(* (docs/meeting-bot-runtime.md:61).                                        *)
RecordingsUploaded ==
    faults = 0 => \A b \in Bot : Over(b) /\ bytes[b] # "none" => 0 \in stored[b]

(* The webhooks of a bot keep to what the control plane assumes of them:    *)
(* one at a time, in the order of the phases, none of a phase that is over, *)
(* canceled only after an abort and with a recording only after a join      *)
(* (app.ts:344-346, 479-489; botWebhookProcessor.ts:125-178).               *)
ImplementsMeetingBot == Meeting!BotSpec

(* No session lasts for ever: it joins or fails, records up to its cap, and *)
(* reports (runtime.ts:1010-1012, app.ts:525-527).                          *)
SessionsEnd == \A b \in Bot : Live(b) ~> Over(b)
============================================================================
