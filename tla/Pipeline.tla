------------------------------ MODULE Pipeline ------------------------------
(***************************************************************************)
(* From a recording to a recap: the transcribe and generate_recap jobs of  *)
(* one occurrence, the rows and R2 objects they write, the hand-over to    *)
(* the next job, the nightly retention that deletes those objects, and an  *)
(* admin's retries (jobHandlers.ts, jobRunner.ts, transcribeRecording.ts,  *)
(* generateRecap.ts, artifactQueries.ts, routes/occurrences.ts).           *)
(*                                                                         *)
(* Both handlers have one shape, so a run is a step, a stage and a place   *)
(* in the list of files it writes.  The jobs are tasks of FencedLease,     *)
(* which Jobs implements; failJob is one step here and two in Jobs.        *)
(***************************************************************************)
EXTENDS Naturals, Sequences, FiniteSets

CONSTANTS Chunk,        \* chunks the recording was split into, maybe none
          Worker,       \* concurrent runs
          NoWorker,     \* no run holds the job
          MaxAttempts,  \* jobs.max_attempts
          FaultKinds,   \* bound: the faults that may happen: crash, report
                        \* (a crash while a dead letter is reported), overrun
                        \* (a run outlives its lease), statement (a D1 or R2
                        \* call fails), hand_on (the next job's INSERT or its
                      \* message is refused)
          Requests,     \* bound: what happens besides, once each: age,
                        \* cleanup, cancel, retry_transcription, retry_recap
          MaxDisturbances  \* bound: faults and requests, age not counted

Transcribe == "transcribe"
GenerateRecap == "generate_recap"
Step == {Transcribe, GenerateRecap}
Job == Step \cup {"send_recap"}
NextJob(s) == IF s = Transcribe THEN GenerateRecap ELSE "send_recap"

(* The files of a step, in the order they are put and recorded.             *)
Outputs(s) == IF s = Transcribe THEN <<"transcript_json", "transcript_text">>
              ELSE <<"summary_json", "summary_html", "summary_text">>
Recorded == {"recording"} \cup Chunk
File == Recorded \cup UNION {{Outputs(s)[i] : i \in DOMAIN Outputs(s)} : s \in Step}

ASSUME PipelineAssumption ==
    /\ MaxAttempts \in Nat \ {0} /\ MaxDisturbances \in Nat
    /\ NoWorker \notin Worker /\ IsFiniteSet(Requests)
    /\ Chunk \cap {"recording", "transcript_json", "transcript_text",
                   "summary_json", "summary_html", "summary_text"} = {}

VARIABLES
    row,       \* transcripts.status and recaps.status
    object,    \* files in R2
    artifact,  \* artifacts row of a file: none, live or deleted
    old,       \* files whose row's created_at is past its window
    occ,       \* meeting_occurrences.status
    phase, token, claims,  \* the jobs as fenced leases
    attempts,  \* attempts, up to MaxAttempts
    done,      \* jobs whose row is completed
    pc,        \* stage of a run
    step,      \* step a run works on
    todo,      \* chunks a run has still to transcribe
    place,     \* file of Outputs a run is at
    policy,    \* kind of file the cleanup is at, 0 before it
    expired,   \* files of it the cleanup has still to delete
    tomb,      \* file it deleted and has not marked yet
    retrying,  \* steps whose retry has still to reset the job
    canceling, \* a cancellation wrote the occurrence, its jobs come next
    hit,       \* kinds of fault that have happened
    faults, requests

fileVars == <<object, artifact, old>>
leaseVars == <<phase, token, claims>>
jobVars == <<leaseVars, attempts, done>>
runVars == <<pc, step, todo, place>>
cleanVars == <<policy, expired, tomb>>
askVars == <<retrying, canceling, requests>>
faultVars == <<hit, faults>>
vars == <<row, fileVars, occ, jobVars, runVars, cleanVars, askVars, faultVars>>

Lease == INSTANCE FencedLease
           WITH Task <- Job, Token <- Worker, NoToken <- NoWorker

Rows == {"none", "pending", "running", "completed", "failed_retryable",
         "failed_terminal"}
Statuses == {"post_meeting", "transcribing", "summarizing", "failed", "canceled"}
Stages == {"idle", "ensure", "inputs", "refuse", "occurrence", "running",
           "chunks", "recap", "put", "record", "completed", "hand_on", "hint",
           "again", "complete", "caught", "caught_terminal", "give_up", "fail",
           "fail_terminal", "surface"}
Working(w) == pc[w] # "idle"

TypeOK ==
    /\ row \in [Step -> Rows]
    /\ object \subseteq File /\ artifact \in [File -> {"none", "live", "deleted"}]
    /\ old \subseteq File
    /\ occ \in Statuses
    /\ phase \in [Job -> {"none", "open", "held", "closed"}]
    /\ token \in [Job -> Worker \cup {NoWorker}]
    /\ claims = {<<step[w], w>> : w \in {v \in Worker : Working(v)}}
    /\ attempts \in [Job -> 0..MaxAttempts] /\ done \subseteq Job
    /\ pc \in [Worker -> Stages] /\ step \in [Worker -> Step]
    /\ todo \in [Worker -> SUBSET Recorded] /\ place \in [Worker -> 1..3]
    /\ \A w \in Worker : place[w] \in IF pc[w] \in {"put", "record"}
                                      THEN DOMAIN Outputs(step[w]) ELSE {1}
    /\ policy \in 0..3 /\ expired \subseteq File /\ tomb \subseteq File
    /\ retrying \subseteq Step
    /\ canceling \in BOOLEAN /\ (canceling => "cancel" \in requests)
    /\ hit \subseteq FaultKinds /\ faults \in 0..MaxDisturbances
    /\ requests \subseteq Requests

(* The bot's recording is stored and the transcribe job created.            *)
Init ==
    /\ row = [s \in Step |-> "none"]
    /\ object = Recorded
    /\ artifact = [f \in File |-> IF f \in Recorded THEN "live" ELSE "none"]
    /\ old = {}
    /\ occ = "post_meeting"
    /\ phase = [t \in Job |-> IF t = Transcribe THEN "open" ELSE "none"]
    /\ token = [t \in Job |-> NoWorker] /\ claims = {}
    /\ attempts = [t \in Job |-> 0] /\ done = {}
    /\ pc = [w \in Worker |-> "idle"] /\ step = [w \in Worker |-> Transcribe]
    /\ todo = [w \in Worker |-> {}] /\ place = [w \in Worker |-> 1]
    /\ policy = 0 /\ expired = {} /\ tomb = {} /\ retrying = {} /\ canceling = FALSE
    /\ hit = {} /\ faults = 0 /\ requests = {}

----------------------------------------------------------------------------
(* Runs.                                                                    *)

At(w, stage) == pc[w] = stage
Holds(w) == token[step[w]] = w /\ phase[step[w]] = "held"

Disturbable == faults + Cardinality(requests \ {"age"}) < MaxDisturbances

Fault(kind) ==
    /\ kind \in FaultKinds /\ Disturbable
    /\ hit' = hit \cup {kind} /\ faults' = faults + 1

Goto(w, stage) ==
    /\ pc' = [pc EXCEPT ![w] = stage]
    /\ UNCHANGED <<step, todo, place>>

Rest(w) ==
    /\ pc' = [pc EXCEPT ![w] = "idle"] /\ step' = [step EXCEPT ![w] = Transcribe]
    /\ todo' = [todo EXCEPT ![w] = {}] /\ place' = [place EXCEPT ![w] = 1]

(* A run that throws loses its locals.                                      *)
Throw(w, stage) ==
    /\ pc' = [pc EXCEPT ![w] = stage] /\ UNCHANGED step
    /\ todo' = [todo EXCEPT ![w] = {}] /\ place' = [place EXCEPT ![w] = 1]

SetRow(w, status) == row' = [row EXCEPT ![step[w]] = status]

(* leaseJob, the settings and the occurrence.                               *)
StartRun(w, s) ==
    /\ ~Working(w)
    /\ Lease!Grant(s, w)
    /\ IF <<s, token[s]>> \in claims THEN Fault("overrun") ELSE UNCHANGED faultVars
    /\ attempts' = [attempts EXCEPT ![s] = IF @ < MaxAttempts THEN @ + 1 ELSE @]
    /\ pc' = [pc EXCEPT ![w] = "ensure"] /\ step' = [step EXCEPT ![w] = s]
    /\ UNCHANGED <<todo, place, row, fileVars, occ, done, cleanVars, askVars>>

(* ensureTranscript, ensureRecap: a completed step only hands on.           *)
EnsureRow(w) ==
    /\ At(w, "ensure")
    /\ SetRow(w, IF row[step[w]] = "none" THEN "pending" ELSE row[step[w]])
    /\ Goto(w, IF row[step[w]] = "completed" THEN "again" ELSE "inputs")
    /\ UNCHANGED <<fileVars, occ, jobVars, cleanVars, askVars, faultVars>>

LiveFiles(F) == {f \in F : artifact[f] = "live"}

(* The chunks, or the whole recording if it was not split.                  *)
Sources == IF LiveFiles(Chunk) # {} THEN LiveFiles(Chunk) ELSE LiveFiles({"recording"})

(* The secret is missing; checked before the inputs are read.               *)
NoApiKey(w) ==
    /\ At(w, "inputs")
    /\ Goto(w, "refuse")
    /\ UNCHANGED <<row, fileVars, occ, jobVars, cleanVars, askVars, faultVars>>

(* listArtifactsForOwner over the recording.                                *)
ReadSources(w) ==
    /\ At(w, "inputs") /\ step[w] = Transcribe
    /\ todo' = [todo EXCEPT ![w] = Sources]
    /\ pc' = [pc EXCEPT ![w] = IF Sources = {} THEN "refuse" ELSE "occurrence"]
    /\ UNCHANGED <<row, step, place, fileVars, occ, jobVars, cleanVars, askVars,
                   faultVars>>

(* The completed transcript's text, whether or not its row is tombstoned.   *)
ReadTranscript(w) ==
    /\ At(w, "inputs") /\ step[w] = GenerateRecap
    /\ Goto(w, IF row[Transcribe] # "completed" THEN "fail_terminal"
               ELSE IF "transcript_text" \notin object THEN "refuse"
               ELSE "occurrence")
    /\ UNCHANGED <<row, fileVars, occ, jobVars, cleanVars, askVars, faultVars>>

(* Without the key or its input a step fails for good.                      *)
Refuse(w) ==
    /\ At(w, "refuse")
    /\ SetRow(w, "failed_terminal")
    /\ Throw(w, "fail_terminal")
    /\ UNCHANGED <<fileVars, occ, jobVars, cleanVars, askVars, faultVars>>

(* The occurrence is written whatever it was.                               *)
MarkOccurrence(w) ==
    /\ At(w, "occurrence")
    /\ occ' = IF step[w] = Transcribe THEN "transcribing" ELSE "summarizing"
    /\ Goto(w, "running")
    /\ UNCHANGED <<row, fileVars, jobVars, cleanVars, askVars, faultVars>>

MarkRunning(w) ==
    /\ At(w, "running")
    /\ SetRow(w, "running")
    /\ Goto(w, IF step[w] = Transcribe THEN "chunks" ELSE "recap")
    /\ UNCHANGED <<fileVars, occ, jobVars, cleanVars, askVars, faultVars>>

(* transcribeRecording, one chunk: its object is loaded and sent, up to     *)
(* three times; network errors, 408, 429 and 5xx remain retryable, a        *)
(* missing object, another status or an unreadable answer do not.           *)
TranscribeChunk(w, f) ==
    /\ At(w, "chunks") /\ f \in todo[w]
    /\ \/ f \in object /\ todo' = [todo EXCEPT ![w] = @ \ {f}] /\ UNCHANGED <<pc, step, place>>
       \/ f \in object /\ Throw(w, "caught")
       \/ Throw(w, "caught_terminal")
    /\ UNCHANGED <<row, fileVars, occ, jobVars, cleanVars, askVars, faultVars>>

TranscribedAll(w) ==
    /\ At(w, "chunks") /\ todo[w] = {}
    /\ Goto(w, "put")
    /\ UNCHANGED <<row, fileVars, occ, jobVars, cleanVars, askVars, faultVars>>

(* generateRecap: notes of the transcript's parts if it is long, the recap, *)
(* one repair of it; output that stays invalid is not retried.              *)
Summarize(w) ==
    /\ At(w, "recap")
    /\ Goto(w, "put") \/ Throw(w, "caught") \/ Throw(w, "caught_terminal")
    /\ UNCHANGED <<row, fileVars, occ, jobVars, cleanVars, askVars, faultVars>>

CurrentFile(w) == Outputs(step[w])[place[w]]

(* The next file of the list, or the next stage.                            *)
Advance(w, stage) ==
    IF place[w] < Len(Outputs(step[w]))
    THEN place' = [place EXCEPT ![w] = @ + 1] /\ UNCHANGED <<pc, step, todo>>
    ELSE /\ place' = [place EXCEPT ![w] = 1]
         /\ pc' = [pc EXCEPT ![w] = stage] /\ UNCHANGED <<step, todo>>

(* The artifact row is written while the object is still on its way.        *)
RecordThenPut(w) ==
    /\ At(w, "put")
    /\ artifact' = [artifact EXCEPT ![CurrentFile(w)] = "live"]
    /\ Advance(w, "record")
    /\ UNCHANGED <<row, object, old, occ, jobVars, cleanVars, askVars, faultVars>>

(* ARTIFACTS.put, file by file, then upsertArtifact, which keeps the row    *)
(* and its created_at and clears deleted_at.                                *)
PutFile(w) ==
    /\ At(w, "put")
    /\ object' = object \cup {CurrentFile(w)}
    /\ Advance(w, "record")
    /\ UNCHANGED <<row, artifact, old, occ, jobVars, cleanVars, askVars, faultVars>>

RecordFile(w) ==
    /\ At(w, "record")
    /\ artifact' = [artifact EXCEPT ![CurrentFile(w)] = "live"]
    /\ Advance(w, "completed")
    /\ UNCHANGED <<row, object, old, occ, jobVars, cleanVars, askVars, faultVars>>

MarkCompleted(w) ==
    /\ At(w, "completed")
    /\ SetRow(w, "completed")
    /\ Goto(w, "hand_on")
    /\ UNCHANGED <<fileVars, occ, jobVars, cleanVars, askVars, faultVars>>

(* Only the run that completes a step hands it on.                          *)
HandOnOnce(w) ==
    /\ pc[w] \in {"hand_on", "again"}
    /\ IF At(w, "hand_on") /\ phase[NextJob(step[w])] = "none"
       THEN Lease!Offer(NextJob(step[w])) ELSE UNCHANGED leaseVars
    /\ Goto(w, IF At(w, "hand_on") THEN "hint" ELSE "complete")
    /\ UNCHANGED <<row, fileVars, occ, attempts, done, cleanVars, askVars, faultVars>>

(* ensureRecapJob, ensureSendJob: INSERT OR IGNORE, by the run that         *)
(* completed the step and by any that finds it completed.                   *)
HandOn(w) ==
    /\ pc[w] \in {"hand_on", "again"}
    /\ IF phase[NextJob(step[w])] = "none" THEN Lease!Offer(NextJob(step[w]))
       ELSE UNCHANGED leaseVars
    /\ Goto(w, IF At(w, "hand_on") THEN "hint" ELSE "complete")
    /\ UNCHANGED <<row, fileVars, occ, attempts, done, cleanVars, askVars, faultVars>>

(* JOBS_QUEUE.send.                                                         *)
Hint(w) ==
    /\ At(w, "hint")
    /\ Goto(w, "complete")
    /\ UNCHANGED <<row, fileVars, occ, jobVars, cleanVars, askVars, faultVars>>

(* The try block covers the hand-over too: a completed step whose INSERT or *)
(* message is refused is caught like one that failed.                       *)
HandOnFails(w) ==
    /\ pc[w] \in {"hand_on", "hint"}
    /\ Fault("hand_on") /\ Throw(w, "caught")
    /\ UNCHANGED <<row, fileVars, occ, jobVars, cleanVars, askVars>>

----------------------------------------------------------------------------
(* The end of a run.                                                        *)

Guarded == {"chunks", "recap", "put", "record", "completed"}
Unguarded == {"ensure", "inputs", "refuse", "occurrence", "running", "again",
              "caught", "caught_terminal", "give_up", "complete"}

(* A D1 or R2 call fails, inside or outside of the handler's try.  In       *)
(* runJob's catch it ends the run: Crash.                                   *)
StatementFails(w) ==
    /\ Fault("statement")
    /\ \/ pc[w] \in Guarded /\ Throw(w, "caught")
       \/ pc[w] \in Unguarded /\ Throw(w, "fail")
    /\ UNCHANGED <<row, fileVars, occ, jobVars, cleanVars, askVars>>

(* The catch block: the row, and for a terminal error the occurrence.       *)
Caught(w) ==
    /\ pc[w] \in {"caught", "caught_terminal"}
    /\ SetRow(w, IF At(w, "caught") THEN "failed_retryable" ELSE "failed_terminal")
    /\ Goto(w, IF At(w, "caught") THEN "fail" ELSE "give_up")
    /\ UNCHANGED <<fileVars, occ, jobVars, cleanVars, askVars, faultVars>>

GiveUp(w) ==
    /\ At(w, "give_up")
    /\ occ' = "failed"
    /\ Goto(w, "fail_terminal")
    /\ UNCHANGED <<row, fileVars, jobVars, cleanVars, askVars, faultVars>>

(* completeJob.                                                             *)
CompleteJob(w) ==
    /\ At(w, "complete")
    /\ IF Holds(w)
       THEN /\ Lease!Settle(step[w], w) /\ phase'[step[w]] = "closed"
            /\ claims' = claims \ {<<step[w], w>>}
            /\ done' = done \cup {step[w]}
       ELSE Lease!Forget(<<step[w], w>>) /\ UNCHANGED done
    /\ Rest(w)
    /\ UNCHANGED <<row, fileVars, occ, attempts, cleanVars, askVars, faultVars>>

(* failJob: another attempt, or the job is given up and reported.           *)
FailJob(w) ==
    /\ pc[w] \in {"fail", "fail_terminal"}
    /\ LET retry == At(w, "fail") /\ attempts[step[w]] < MaxAttempts
       IN IF Holds(w)
          THEN /\ Lease!Settle(step[w], w)
               /\ phase'[step[w]] = IF retry THEN "open" ELSE "closed"
               /\ IF retry THEN Rest(w) /\ claims' = claims \ {<<step[w], w>>}
                  ELSE Goto(w, "surface") /\ claims' = claims
          ELSE Rest(w) /\ Lease!Forget(<<step[w], w>>)
    /\ UNCHANGED <<row, fileVars, occ, attempts, done, cleanVars, askVars, faultVars>>

(* Only dead letters of the last step are reported.                         *)
SurfaceLastStep(w) ==
    /\ At(w, "surface")
    /\ occ' = IF step[w] = GenerateRecap THEN "failed" ELSE occ
    /\ Rest(w) /\ Lease!Forget(<<step[w], w>>)
    /\ UNCHANGED <<row, fileVars, attempts, done, cleanVars, askVars, faultVars>>

(* recordTerminalJobFailure.                                                *)
Surface(w) ==
    /\ At(w, "surface")
    /\ occ' = IF occ = "canceled" THEN occ ELSE "failed"
    /\ Rest(w) /\ Lease!Forget(<<step[w], w>>)
    /\ UNCHANGED <<row, fileVars, attempts, done, cleanVars, askVars, faultVars>>

Crash(w) ==
    /\ Working(w) /\ Fault(IF At(w, "surface") THEN "report" ELSE "crash")
    /\ Rest(w) /\ Lease!Forget(<<step[w], w>>)
    /\ UNCHANGED <<row, fileVars, occ, attempts, done, cleanVars, askVars>>

----------------------------------------------------------------------------
(* Time, retention and requests.                                            *)

Request(q) ==
    /\ q \in Requests \ requests /\ (q = "age" \/ Disturbable)
    /\ requests' = requests \cup {q}

(* The windows of settings.retention pass; no run and no job that the sweep *)
(* can start lasts for days.                                                *)
Age ==
    /\ Request("age") /\ \A w \in Worker : ~Working(w)
    /\ \A s \in Step : phase[s] \notin {"open", "held"}
    /\ old' = {f \in File : artifact[f] # "none"}
    /\ UNCHANGED <<row, object, artifact, occ, jobVars, runVars, cleanVars,
                   retrying, canceling, faultVars>>

(* Kinds of files, in the order their windows are applied.                  *)
Kind(p) == IF p = 1 THEN Recorded
           ELSE LET s == IF p = 2 THEN Transcribe ELSE GenerateRecap
                IN {Outputs(s)[i] : i \in DOMAIN Outputs(s)}

(* handleRetentionCleanup, kind by kind: listArtifactsByKindBefore lists    *)
(* the live rows of the kind that are older than its window, oldest first;  *)
ListExpired(p) == expired' = LiveFiles(old \cap Kind(p)) /\ policy' = p

StartCleanup ==
    /\ Request("cleanup") /\ old # {}
    /\ ListExpired(1)
    /\ UNCHANGED <<row, fileVars, occ, jobVars, runVars, tomb, retrying,
                   canceling, faultVars>>

NextPolicy ==
    /\ policy \in 1..2 /\ expired = {} /\ tomb = {}
    /\ ListExpired(policy + 1)
    /\ UNCHANGED <<row, fileVars, occ, jobVars, runVars, tomb, askVars, faultVars>>

Created == Outputs(Transcribe) \o Outputs(GenerateRecap)
Before(g, f) == \E i, j \in DOMAIN Created : i < j /\ Created[i] = g /\ Created[j] = f

(* The object is only forgotten by its row.                                 *)
KeepObject(f) ==
    /\ f \in expired /\ tomb = {} /\ \A g \in expired : ~Before(g, f)
    /\ tomb' = {f} /\ expired' = expired \ {f}
    /\ UNCHANGED <<row, fileVars, occ, jobVars, runVars, policy, askVars,
                   faultVars>>

(* and for each of them the object goes first,                              *)
DeleteObject(f) ==
    /\ f \in expired /\ tomb = {} /\ \A g \in expired : ~Before(g, f)
    /\ object' = object \ {f} /\ tomb' = {f} /\ expired' = expired \ {f}
    /\ UNCHANGED <<row, artifact, old, occ, jobVars, runVars, policy,
                   askVars, faultVars>>

(* the row after it, by its id.                                             *)
MarkDeleted(f) ==
    /\ f \in tomb
    /\ artifact' = [artifact EXCEPT ![f] = "deleted"] /\ tomb' = {}
    /\ UNCHANGED <<row, object, old, occ, jobVars, runVars, expired,
                   policy, askVars, faultVars>>

(* deleteCompletedJobsBefore: a completed job's key is free again.          *)
DeleteCompletedJobs ==
    /\ policy = 3 /\ expired = {} /\ tomb = {} /\ done # {}
    /\ phase' = [t \in Job |-> IF t \in done THEN "none" ELSE phase[t]]
    /\ attempts' = [t \in Job |-> IF t \in done THEN 0 ELSE attempts[t]]
    /\ done' = {}
    /\ UNCHANGED <<row, fileVars, occ, token, claims, runVars, cleanVars,
                   askVars, faultVars>>

(* cancelOccurrences, then cancelJobsForOwner.                              *)
CancelOccurrence ==
    /\ Request("cancel") /\ occ # "failed"
    /\ occ' = "canceled" /\ canceling' = TRUE
    /\ UNCHANGED <<row, fileVars, jobVars, runVars, cleanVars, retrying, faultVars>>

CancelJobs ==
    /\ canceling /\ canceling' = FALSE
    /\ Lease!Revoke({t \in Job : phase[t] \in {"open", "held"}})
    /\ UNCHANGED <<row, fileVars, occ, attempts, done, runVars, cleanVars,
                   retrying, requests, faultVars>>

(* retry-transcription, retry-recap: a failed row is pending again,         *)
RetryRequest(s) == IF s = Transcribe THEN "retry_transcription" ELSE "retry_recap"

RetryRow(s) ==
    /\ Request(RetryRequest(s))
    /\ row' = [row EXCEPT ![s] = IF @ \in {"failed_retryable", "failed_terminal"}
                                 THEN "pending" ELSE @]
    /\ retrying' = retrying \cup {s}
    /\ UNCHANGED <<fileVars, occ, jobVars, runVars, cleanVars, canceling, faultVars>>

(* and retryPipelineJob creates the job or resets it, unless it is leased.  *)
RetryJob(s) ==
    /\ s \in retrying /\ retrying' = retrying \ {s}
    /\ IF phase[s] = "held" THEN UNCHANGED <<leaseVars, attempts, done>>
       ELSE /\ Lease!Offer(s)
            /\ attempts' = [attempts EXCEPT ![s] = 0] /\ done' = done \ {s}
    /\ UNCHANGED <<row, fileVars, occ, runVars, cleanVars, canceling, requests,
                   faultVars>>

----------------------------------------------------------------------------
RunStep(w) ==
    \/ EnsureRow(w) \/ NoApiKey(w) \/ ReadSources(w) \/ ReadTranscript(w) \/ Refuse(w)
    \/ MarkOccurrence(w) \/ MarkRunning(w)
    \/ (\E f \in Recorded : TranscribeChunk(w, f)) \/ TranscribedAll(w)
    \/ Summarize(w) \/ PutFile(w) \/ RecordFile(w) \/ MarkCompleted(w)
    \/ HandOn(w) \/ Hint(w) \/ Caught(w) \/ GiveUp(w)
    \/ CompleteJob(w) \/ FailJob(w) \/ Surface(w)

Retention ==
    \/ Age \/ StartCleanup \/ NextPolicy
    \/ (\E f \in File : DeleteObject(f) \/ MarkDeleted(f))
    \/ DeleteCompletedJobs

Next ==
    \/ \E w \in Worker : (\E s \in Step : StartRun(w, s)) \/ RunStep(w)
    \/ \E w \in Worker : StatementFails(w) \/ HandOnFails(w) \/ Crash(w)
    \/ Retention
    \/ CancelOccurrence \/ CancelJobs
    \/ \E s \in Step : RetryRow(s) \/ RetryJob(s)

Spec == Init /\ [][Next]_vars

----------------------------------------------------------------------------
(* Properties.                                                              *)

(* A step's next job was created, or is over and deleted.                   *)
NextCreated(s) ==
    \/ phase[NextJob(s)] # "none"
    \/ s = Transcribe /\ row[GenerateRecap] = "completed"

(* No second run of a job: no lease ran out under its run, no cancellation  *)
(* freed one.                                                               *)
Alone == "overrun" \notin hit /\ "cancel" \notin requests

(* However often runs crash or the queue refuses their messages, a step     *)
(* that is completed has created the next one's job or will be run again    *)
(* until it does (jobHandlers.ts:326-329, 473-476).                         *)
HandedOn ==
    Alone /\ "statement" \notin hit =>
       \A s \in Step : row[s] = "completed" =>
          NextCreated(s) \/ phase[s] \in {"open", "held"}

Stopped ==
    /\ \A w \in Worker : ~Working(w)
    /\ \A s \in Step : phase[s] \notin {"open", "held"}

(* A meeting whose processing stopped short of the delivery shows as        *)
(* failed, whatever step gave up, which statement failed and what was       *)
(* retried before, unless the report itself was lost or an admin started    *)
(* the recap ahead of its transcript (jobRunner.ts:77-93).                  *)
FailuresSurface ==
    hit \subseteq {"crash", "statement"} /\ requests \cap {"cancel", "retry_recap"} = {} =>
       (Stopped /\ ~NextCreated(GenerateRecap) => occ = "failed")

(* A cleanup and an admin's retry may work on the same file.                *)
Regenerating ==
    /\ "cleanup" \in requests
    /\ requests \cap {"retry_transcription", "retry_recap"} # {}

(* An artifact that is offered for download has its object, whatever        *)
(* crashed or overlapped; only a cleanup that meets a retry of an old       *)
(* meeting leaves a live row without one (jobHandlers.ts:747-751).          *)
RowsPointToObjects ==
    ~Regenerating =>
       \A f \in File : artifact[f] = "live" => f \in object \/ f \in tomb

(* No object escapes retention: each has a live row that the cleanup can    *)
(* list, unless a run died on the way to writing it                         *)
(* (artifactQueries.ts:15-18, jobHandlers.ts:729-756).                      *)
OnTheWay(f) ==
    \E w \in Worker : pc[w] \in {"put", "record"} /\ f \in {Outputs(step[w])[i] :
                                                 i \in DOMAIN Outputs(step[w])}

NothingEscapesRetention ==
    hit \subseteq {"hand_on", "report"} /\ ~Regenerating =>
       \A f \in object : artifact[f] = "live" \/ OnTheWay(f)

(* The inductive invariant: alone, a run holds its job until it is given    *)
(* up; what its stage says of its row and of the next job is true.          *)
RunInv ==
    Alone =>
       \A w \in Worker : Working(w) =>
          /\ Holds(w) <=> pc[w] # "surface"
          /\ pc[w] \in {"inputs", "refuse", "occurrence", "running", "chunks",
                       "recap", "put", "record", "completed", "give_up"}
                => row[step[w]] # "completed"
          /\ pc[w] \in {"fail", "fail_terminal"} /\ "statement" \notin hit
                => row[step[w]] # "completed"
          /\ pc[w] \in {"hand_on", "hint", "again", "complete"} => row[step[w]] = "completed"
          /\ pc[w] \in {"hint", "complete"} => NextCreated(step[w])

DoneInv ==
    Alone => \A s \in done : /\ s \in Step /\ phase[s] = "closed"
                            /\ row[s] = "completed"

Retried == requests \cap {"retry_transcription", "retry_recap"} # {}

(* When the retention windows have passed, only a retry starts a run.       *)
Aging ==
    /\ old # {} => "age" \in requests
    /\ "cleanup" \in requests => old # {}
    /\ \A s \in retrying : RetryRequest(s) \in requests
    /\ old # {} /\ ~Retried => Stopped

Undisturbed == hit \subseteq {"hand_on", "report"}

(* Before the cleanup: a run puts all of its files, then records them.      *)
Filing ==
    "cleanup" \notin requests =>
       /\ tomb = {} /\ expired = {} /\ policy = 0
       /\ \A f \in File : artifact[f] = "live" => f \in object
       /\ \A w \in Worker : pc[w] = "put" =>
             \A i \in DOMAIN Outputs(step[w]) : i < place[w] => Outputs(step[w])[i] \in object
       /\ \A w \in Worker : pc[w] = "record" =>
             \A i \in DOMAIN Outputs(step[w]) :
                /\ Outputs(step[w])[i] \in object
                /\ i < place[w] => artifact[Outputs(step[w])[i]] = "live"
       /\ Undisturbed => \A f \in object : artifact[f] = "live" \/ OnTheWay(f)

(* During and after it: one file at a time loses its object, then its row.  *)
Expiring ==
    "cleanup" \in requests /\ ~Retried =>
       /\ \A f, g \in tomb : f = g
       /\ tomb \cap object = {}
       /\ \A f \in File : artifact[f] = "live" => f \in object \/ f \in tomb
       /\ Undisturbed => \A f \in object : artifact[f] = "live"

(* Only crashes and failing statements happen, and what they lose is not    *)
(* put back by an admin ahead of its transcript.                            *)
Reported ==
    hit \subseteq {"crash", "statement"} /\ requests \cap {"cancel", "retry_recap"} = {}

GaveUp(s) == \E w \in Worker : At(w, "surface") /\ step[w] = s

(* Before the delivery exists: a transcript that is completed stays so; a   *)
(* step that is over without its successor has a report on its way or made, *)
(* and no run is left that would write over it.                             *)
SurfaceInv ==
    Reported =>
       /\ occ # "canceled"
       /\ \A w \in Worker : pc[w] \in {"caught", "caught_terminal"}
                              => row[step[w]] # "completed"
       /\ phase["send_recap"] = "none" =>
             /\ GenerateRecap \notin done
             /\ phase[GenerateRecap] = "none" =>
                   /\ row[GenerateRecap] # "completed"
                   /\ \/ phase[Transcribe] \in {"open", "held"}
                      \/ GaveUp(Transcribe) \/ occ = "failed"
             /\ phase[GenerateRecap] # "none" => row[Transcribe] = "completed"
             /\ phase[GenerateRecap] = "closed" => GaveUp(GenerateRecap) \/ occ = "failed"

(* The inductive invariant of PipelineProofs.                                *)
IInv == TypeOK /\ RunInv /\ DoneInv /\ HandedOn /\ SurfaceInv /\ Aging /\ Filing /\ Expiring
=============================================================================
