--------------------------- MODULE PipelineProofs ---------------------------
(***************************************************************************)
(* Theorems about the recap pipeline of one occurrence, for every set of   *)
(* chunks and runs, every retry budget and every number of faults.         *)
(***************************************************************************)
EXTENDS Pipeline, FiniteSetTheorems, TLAPS

(* What the hand-over needs of the types.                                   *)
Types ==
    /\ pc \in [Worker -> Stages] /\ step \in [Worker -> Step]
    /\ row \in [Step -> Rows]
    /\ phase \in [Job -> {"none", "open", "held", "closed"}]
    /\ token \in [Job -> Worker \cup {NoWorker}]
    /\ claims = {<<step[w], w>> : w \in {v \in Worker : Working(v)}}
    /\ done \subseteq Job
    /\ canceling => "cancel" \in requests

HandInv == Types /\ RunInv /\ DoneInv /\ HandedOn

(* What a run at a stage may believe of its row, r, and of the next job     *)
(* while the faults were those of h.                                        *)
Fits(w, stage, r, h) ==
    /\ stage \in {"inputs", "refuse", "occurrence", "running", "chunks", "recap", "put",
                  "record", "completed", "give_up"} => r # "completed"
    /\ stage \in {"fail", "fail_terminal"} /\ "statement" \notin h => r # "completed"
    /\ stage \in {"hand_on", "hint", "again", "complete"} => r = "completed"
    /\ stage \in {"hint", "complete"} => NextCreated(step[w])

USE PipelineAssumption DEF Step, Transcribe, GenerateRecap, Job

LEMMA Initially == Init => HandInv
<1> SUFFICES ASSUME Init PROVE HandInv OBVIOUS
<1> USE DEF Init
<1>1. \A w \in Worker : ~Working(w) BY DEF Working
<1>2. claims = {<<step[w], w>> : w \in {v \in Worker : Working(v)}} BY <1>1
<1>3. Types BY <1>2 DEF Types, Stages, Rows
<1>4. RunInv BY <1>1 DEF RunInv
<1>5. DoneInv /\ HandedOn BY DEF DoneInv, HandedOn
<1> QED BY <1>3, <1>4, <1>5 DEF HandInv

(* Alone, a run that has not settled its job shares it with no other.       *)
LEMMA NoOther ==
  ASSUME HandInv, Alone, NEW v \in Worker, NEW w \in Worker, v # w,
         Working(v), Working(w), pc[v] # "surface", pc[w] # "surface"
  PROVE  step[v] # step[w]
BY DEF HandInv, RunInv, Holds

(* A run goes on to another stage, and may write its own row.               *)
LEMMA MoveKeeps ==
  ASSUME HandInv, NEW w \in Worker, Working(w), pc[w] # "surface",
         NEW stage \in Stages \ {"idle", "surface"}, NEW r \in Rows,
         pc' = [pc EXCEPT ![w] = stage], row' = [row EXCEPT ![step[w]] = r],
         UNCHANGED <<step, phase, token, claims, done, canceling, requests>>,
         hit \subseteq hit', Alone => Fits(w, stage, r, hit')
  PROVE  HandInv'
<1> DEFINE s0 == step[w]
<1>0. Types /\ RunInv /\ DoneInv /\ HandedOn BY DEF HandInv
<1>1. /\ s0 \in Step /\ pc'[w] = stage /\ row'[s0] = r
      /\ \A v \in Worker \ {w} : pc'[v] = pc[v]
      /\ \A s \in Step \ {s0} : row'[s] = row[s]
  BY <1>0 DEF Types
<1>2. \A v \in Worker : Working(v)' <=> Working(v) BY <1>1 DEF Working
<1>3. Types'
  <2>1. claims' = {<<step'[v], v>> : v \in {u \in Worker : Working(u)'}}
    BY <1>0, <1>2 DEF Types
  <2> QED BY <1>0, <2>1 DEF Types
<1>4. CASE ~Alone'
  BY <1>3, <1>4 DEF HandInv, RunInv, DoneInv, HandedOn
<1>5. CASE Alone'
  <2>0. Alone BY <1>5 DEF Alone
  <2>1. Holds(w) /\ Fits(w, stage, r, hit') BY <1>0, <2>0 DEF RunInv
  <2>2. \A v \in Worker : Holds(v)' <=> Holds(v) BY DEF Holds
  <2>3. \A s \in Step : NextCreated(s) => NextCreated(s)'
    BY <1>1, <2>1 DEF NextCreated, NextJob, Holds
  <2>4. ASSUME NEW v \in Worker, v # w, Working(v), pc[v] # "surface"
        PROVE  step[v] \in Step /\ row'[step[v]] = row[step[v]]
    BY <1>0, <1>1, <2>0, <2>4, NoOther DEF Types
  <2>5. RunInv'
    <3> SUFFICES ASSUME NEW v \in Worker, Working(v)'
                 PROVE  /\ Holds(v)' <=> pc'[v] # "surface"
                        /\ pc'[v] # "surface" => Fits(v, pc[v], row[step[v]], hit)'
      BY DEF RunInv, Fits
    <3>1. CASE v = w BY <1>1, <2>1, <2>2, <2>3, <3>1 DEF Fits
    <3>2. CASE v # w
      <4>1. Working(v) /\ pc'[v] = pc[v] /\ step'[v] = step[v] BY <1>1, <1>2, <3>2
      <4>2. Holds(v) <=> pc[v] # "surface" BY <1>0, <2>0, <4>1 DEF RunInv
      <4>3. pc[v] # "surface" => Fits(v, pc[v], row[step[v]], hit)
        BY <1>0, <2>0, <4>1 DEF RunInv, Fits
      <4>4. pc[v] # "surface" => step[v] \in Step /\ row'[step[v]] = row[step[v]]
        BY <2>4, <3>2, <4>1
      <4> QED BY <2>2, <2>3, <4>1, <4>2, <4>3, <4>4 DEF Fits
    <3> QED BY <3>1, <3>2
  <2>6. DoneInv'
    BY <1>0, <1>1, <2>0, <2>1 DEF DoneInv, Holds
  <2>7. HandedOn'
    BY <1>0, <1>1, <2>0, <2>1, <2>3 DEF HandedOn, Holds
  <2> QED BY <1>3, <2>5, <2>6, <2>7 DEF HandInv
<1> QED BY <1>4, <1>5

(* A run ends without settling its job.                                     *)
LEMMA LeaveKeeps ==
  ASSUME HandInv, NEW w \in Worker, Working(w), Rest(w),
         claims' = claims \ {<<step[w], w>>},
         UNCHANGED <<row, phase, token, done, canceling, requests>>, hit \subseteq hit'
  PROVE  HandInv'
<1>0. Types /\ RunInv /\ DoneInv /\ HandedOn BY DEF HandInv
<1>1. /\ pc'[w] = "idle"
      /\ \A v \in Worker \ {w} : pc'[v] = pc[v] /\ step'[v] = step[v]
  BY <1>0 DEF Types, Rest
<1>2. \A v \in Worker : Working(v)' <=> Working(v) /\ v # w BY <1>1 DEF Working
<1>3. Types'
  <2>1. claims' = {<<step'[v], v>> : v \in {u \in Worker : Working(u)'}}
    BY <1>0, <1>1, <1>2 DEF Types
  <2> QED BY <1>0, <2>1 DEF Types, Rest, Stages
<1>4. Alone' => Alone BY DEF Alone
<1>5. RunInv'
  <2> SUFFICES ASSUME Alone', NEW v \in Worker, Working(v)'
               PROVE  /\ Holds(v)' <=> pc'[v] # "surface"
                      /\ pc'[v] # "surface" => Fits(v, pc[v], row[step[v]], hit)'
    BY DEF RunInv, Fits
  <2>1. v # w /\ Working(v) /\ pc'[v] = pc[v] /\ step'[v] = step[v] BY <1>1, <1>2
  <2>2. /\ Holds(v) <=> pc[v] # "surface"
        /\ pc[v] # "surface" => Fits(v, pc[v], row[step[v]], hit)
    BY <1>0, <1>4, <2>1 DEF RunInv, Fits
  <2>3. Holds(v)' <=> Holds(v) BY <2>1 DEF Holds
  <2>4. NextCreated(step[v]) <=> NextCreated(step[v])' BY <2>1 DEF NextCreated, NextJob
  <2> QED BY <2>1, <2>2, <2>3, <2>4 DEF Fits
<1>6. DoneInv' BY <1>0, <1>4 DEF DoneInv
<1>7. HandedOn' BY <1>0, <1>4 DEF HandedOn, NextCreated
<1> QED BY <1>3, <1>5, <1>6, <1>7 DEF HandInv

(* A run settles the job it holds: it closes it or leaves it to another.    *)
LEMMA SettleKeeps ==
  ASSUME HandInv, NEW w \in Worker, Working(w), Holds(w), NEW p \in {"open", "closed"},
         phase' = [phase EXCEPT ![step[w]] = p], token' = [token EXCEPT ![step[w]] = NoWorker],
         \/ Rest(w) /\ claims' = claims \ {<<step[w], w>>}
         \/ pc' = [pc EXCEPT ![w] = "surface"] /\ UNCHANGED <<step, claims>>,
         UNCHANGED <<row, canceling, requests, hit>>,
         done' \in {done, done \cup {step[w]}},
         done' # done => p = "closed" /\ (Alone => row[step[w]] = "completed"),
         p = "closed" /\ Alone /\ "statement" \notin hit /\ row[step[w]] = "completed"
            => NextCreated(step[w])
  PROVE  HandInv'
<1> DEFINE s0 == step[w]
<1>0. Types /\ RunInv /\ DoneInv /\ HandedOn BY DEF HandInv
<1>1. /\ s0 \in Step /\ phase'[s0] = p /\ token'[s0] = NoWorker
      /\ \A t \in Job \ {s0} : phase'[t] = phase[t] /\ token'[t] = token[t]
      /\ pc'[w] \in {"idle", "surface"}
      /\ \A v \in Worker \ {w} : pc'[v] = pc[v] /\ step'[v] = step[v]
  BY <1>0 DEF Types, Rest
<1>2. \A v \in Worker \ {w} : Working(v)' <=> Working(v) BY <1>1 DEF Working
<1>3. Types'
  <2>1. claims' = {<<step'[v], v>> : v \in {u \in Worker : Working(u)'}}
    <3>1. CASE Rest(w) /\ claims' = claims \ {<<step[w], w>>}
      <4>1. ~Working(w)' BY <1>0, <3>1 DEF Types, Working, Rest
      <4> QED BY <1>0, <1>1, <1>2, <3>1, <4>1 DEF Types
    <3>2. CASE pc' = [pc EXCEPT ![w] = "surface"] /\ UNCHANGED <<step, claims>>
      <4>1. Working(w)' BY <1>0, <3>2 DEF Types, Working
      <4> QED BY <1>0, <1>1, <1>2, <3>2, <4>1 DEF Types
    <3> QED BY <3>1, <3>2
  <2> QED BY <1>0, <1>1, <2>1 DEF Types, Rest, Stages
<1>4. Alone' <=> Alone BY DEF Alone
<1>5. \A s \in Step : NextCreated(s) => NextCreated(s)'
  BY <1>1 DEF NextCreated, NextJob
<1>6. RunInv'
  <2> SUFFICES ASSUME Alone', NEW v \in Worker, Working(v)'
               PROVE  /\ Holds(v)' <=> pc'[v] # "surface"
                      /\ pc'[v] # "surface" => Fits(v, pc[v], row[step[v]], hit)'
    BY DEF RunInv, Fits
  <2>1. CASE v = w
    <3>1. pc'[w] = "surface" /\ step' = step
      BY <1>0, <1>1, <2>1 DEF Types, Rest, Working
    <3> QED BY <1>1, <2>1, <3>1 DEF Holds
  <2>2. CASE v # w
    <3>1. /\ Working(v) /\ pc'[v] = pc[v] /\ step'[v] = step[v] /\ step[v] \in Step
          /\ token[step[w]] = w
      BY <1>0, <1>1, <1>2, <2>2 DEF Types, Holds
    <3>2. /\ Holds(v) <=> pc[v] # "surface"
          /\ pc[v] # "surface" => Fits(v, pc[v], row[step[v]], hit)
      BY <1>0, <1>4, <3>1 DEF RunInv, Fits
    <3>3. Holds(v)' <=> Holds(v) BY <1>1, <2>2, <3>1 DEF Holds
    <3> QED BY <1>5, <3>1, <3>2, <3>3 DEF Fits
  <2> QED BY <2>1, <2>2
<1>7. DoneInv'
  <2> SUFFICES ASSUME Alone, NEW s \in done'
               PROVE  s \in Step /\ phase'[s] = "closed" /\ row[s] = "completed"
    BY <1>4 DEF DoneInv
  <2>1. CASE s = s0 /\ s \notin done BY <1>1, <2>1
  <2>2. CASE s \in done
    <3>1. s \in Step /\ phase[s] = "closed" /\ row[s] = "completed"
      BY <1>0, <2>2 DEF DoneInv
    <3>2. s # s0 BY <3>1 DEF Holds
    <3> QED BY <1>1, <3>1, <3>2
  <2> QED BY <2>1, <2>2
<1>8. HandedOn' BY <1>0, <1>1, <1>4, <1>5 DEF HandedOn
<1> QED BY <1>3, <1>6, <1>7, <1>8 DEF HandInv

(* A job that no run holds is offered, again or for the first time.         *)
LEMMA OfferKeepsLeases ==
  ASSUME HandInv, NEW t \in Job, phase[t] # "held", Lease!Offer(t)
  PROVE  /\ \A v \in Worker : step'[v] = step[v] => (Holds(v)' <=> Holds(v))
         /\ \A s \in Step : row' = row /\ NextCreated(s) => NextCreated(s)'
         /\ phase' \in [Job -> {"none", "open", "held", "closed"}]
         /\ token' \in [Job -> Worker \cup {NoWorker}]
         /\ phase'[t] = "open" /\ \A u \in Job \ {t} : phase'[u] = phase[u]
<1>1. Types BY DEF HandInv
<1>2. /\ phase' = [phase EXCEPT ![t] = "open"] /\ token' = [token EXCEPT ![t] = NoWorker]
  BY DEF Lease!Offer
<1>3. /\ phase'[t] = "open" /\ \A u \in Job \ {t} : phase'[u] = phase[u] /\ token'[u] = token[u]
  BY <1>1, <1>2 DEF Types
<1>4. \A v \in Worker : step[v] \in Job BY <1>1 DEF Types
<1>5. \A v \in Worker : step'[v] = step[v] => (Holds(v)' <=> Holds(v))
  BY <1>1, <1>3, <1>4 DEF Holds, Types
<1>6. \A s \in Step : row' = row /\ NextCreated(s) => NextCreated(s)'
  BY <1>3 DEF NextCreated, NextJob
<1> QED BY <1>1, <1>2, <1>3, <1>5, <1>6 DEF Types

----------------------------------------------------------------------------
(* The steps that one of the lemmas covers.                                 *)

USE DEF fileVars, leaseVars, jobVars, cleanVars, askVars, faultVars, runVars

LEMMA MovesKeep ==
  ASSUME HandInv, NEW w \in Worker,
         \/ EnsureRow(w) \/ NoApiKey(w) \/ ReadSources(w) \/ ReadTranscript(w) \/ Refuse(w)
         \/ MarkOccurrence(w) \/ MarkRunning(w)
         \/ (\E f \in Recorded : TranscribeChunk(w, f)) \/ TranscribedAll(w)
         \/ Summarize(w) \/ PutFile(w) \/ RecordFile(w) \/ MarkCompleted(w)
         \/ Hint(w) \/ Caught(w) \/ GiveUp(w) \/ StatementFails(w) \/ HandOnFails(w)
  PROVE  HandInv'
<1> DEFINE Moves(stage, r) ==
      /\ Working(w) /\ pc[w] # "surface" /\ stage \in Stages \ {"idle", "surface"} /\ r \in Rows
      /\ pc' = [pc EXCEPT ![w] = stage] /\ row' = [row EXCEPT ![step[w]] = r]
      /\ UNCHANGED <<step, phase, token, claims, done, canceling, requests>>
      /\ hit \subseteq hit' /\ (Alone => Fits(w, stage, r, hit'))
<1>1. ASSUME NEW stage, NEW r, Moves(stage, r) PROVE HandInv'
  BY <1>1, MoveKeeps
<1>2. /\ pc \in [Worker -> Stages] /\ step[w] \in Step /\ row[step[w]] \in Rows
      /\ row = [row EXCEPT ![step[w]] = row[step[w]]]
      /\ pc = [pc EXCEPT ![w] = pc[w]]
  BY DEF HandInv, Types
<1>3. Alone /\ Working(w) /\ pc[w] # "surface" => Fits(w, pc[w], row[step[w]], hit)
  BY DEF HandInv, RunInv, Fits
<1> USE DEF At, Goto, Throw, SetRow, Working
<1>4. ASSUME EnsureRow(w)
      PROVE  \/ Moves("again", row[step[w]]) \/ Moves("inputs", row[step[w]])
        \/ Moves("inputs", "pending")
  BY <1>2, <1>3, <1>4 DEF EnsureRow, Fits, Stages, Rows
<1>5. ASSUME NoApiKey(w)
      PROVE  Moves("refuse", row[step[w]])
  BY <1>2, <1>3, <1>5 DEF NoApiKey, Fits, Stages, Rows
<1>6. ASSUME ReadSources(w)
      PROVE  Moves("refuse", row[step[w]]) \/ Moves("occurrence", row[step[w]])
  BY <1>2, <1>3, <1>6 DEF ReadSources, Fits, Stages, Rows
<1>7. ASSUME ReadTranscript(w)
      PROVE  Moves("fail_terminal", row[step[w]]) \/ Moves("refuse", row[step[w]])
              \/ Moves("occurrence", row[step[w]])
  BY <1>2, <1>3, <1>7 DEF ReadTranscript, Fits, Stages, Rows
<1>8. ASSUME Refuse(w)
      PROVE  Moves("fail_terminal", "failed_terminal")
  BY <1>2, <1>3, <1>8 DEF Refuse, Fits, Stages, Rows
<1>9. ASSUME MarkOccurrence(w)
      PROVE  Moves("running", row[step[w]])
  BY <1>2, <1>3, <1>9 DEF MarkOccurrence, Fits, Stages, Rows
<1>10. ASSUME MarkRunning(w)
      PROVE  Moves("chunks", "running") \/ Moves("recap", "running")
  BY <1>2, <1>3, <1>10 DEF MarkRunning, Fits, Stages, Rows
<1>11. ASSUME \E f \in Recorded : TranscribeChunk(w, f)
      PROVE  Moves("chunks", row[step[w]]) \/ Moves("caught", row[step[w]])
              \/ Moves("caught_terminal", row[step[w]])
  BY <1>2, <1>3, <1>11 DEF TranscribeChunk, Fits, Stages, Rows
<1>12. ASSUME TranscribedAll(w)
      PROVE  Moves("put", row[step[w]])
  BY <1>2, <1>3, <1>12 DEF TranscribedAll, Fits, Stages, Rows
<1>13. ASSUME Summarize(w)
      PROVE  Moves("put", row[step[w]]) \/ Moves("caught", row[step[w]])
              \/ Moves("caught_terminal", row[step[w]])
  BY <1>2, <1>3, <1>13 DEF Summarize, Fits, Stages, Rows
<1>14. ASSUME PutFile(w)
      PROVE  Moves("put", row[step[w]]) \/ Moves("record", row[step[w]])
  BY <1>2, <1>3, <1>14 DEF PutFile, Fits, Stages, Rows, Advance
<1>15. ASSUME RecordFile(w)
      PROVE  Moves("record", row[step[w]]) \/ Moves("completed", row[step[w]])
  BY <1>2, <1>3, <1>15 DEF RecordFile, Fits, Stages, Rows, Advance
<1>16. ASSUME MarkCompleted(w)
      PROVE  Moves("hand_on", "completed")
  BY <1>2, <1>3, <1>16 DEF MarkCompleted, Fits, Stages, Rows
<1>17. ASSUME Hint(w)
      PROVE  Moves("complete", row[step[w]])
  BY <1>2, <1>3, <1>17 DEF Hint, Fits, Stages, Rows
<1>18. ASSUME Caught(w)
      PROVE  Moves("fail", "failed_retryable") \/ Moves("give_up", "failed_terminal")
  BY <1>2, <1>3, <1>18 DEF Caught, Fits, Stages, Rows
<1>19. ASSUME GiveUp(w)
      PROVE  Moves("fail_terminal", row[step[w]])
  BY <1>2, <1>3, <1>19 DEF GiveUp, Fits, Stages, Rows
<1>20. ASSUME StatementFails(w)
      PROVE  Moves("caught", row[step[w]]) \/ Moves("fail", row[step[w]])
  BY <1>2, <1>3, <1>20 DEF StatementFails, Fits, Stages, Rows, Fault, Guarded, Unguarded
<1>21. ASSUME HandOnFails(w)
      PROVE  Moves("caught", row[step[w]])
  BY <1>2, <1>3, <1>21 DEF HandOnFails, Fits, Stages, Rows, Fault
<1> HIDE DEF Moves
<1> QED
  BY <1>1, <1>4, <1>5, <1>6, <1>7, <1>8, <1>9, <1>10, <1>11, <1>12, <1>13, <1>14,
     <1>15, <1>16, <1>17, <1>18, <1>19, <1>20, <1>21

LEMMA HandOnKeeps ==
  ASSUME HandInv, NEW w \in Worker, HandOn(w)
  PROVE  HandInv'
<1> DEFINE t == NextJob(step[w])
<1>0. Types /\ RunInv /\ DoneInv /\ HandedOn BY DEF HandInv
<1>1. /\ step[w] \in Step /\ t \in Job /\ step' = step /\ row' = row /\ done' = done
      /\ \A v \in Worker \ {w} : pc'[v] = pc[v]
      /\ pc[w] \in {"hand_on", "again"} /\ pc'[w] \in {"hint", "complete"}
  BY <1>0 DEF Types, HandOn, Goto, NextJob
<1>2. \A v \in Worker : Working(v)' <=> Working(v) BY <1>1 DEF Working
<1>3. /\ \A v \in Worker : Holds(v)' <=> Holds(v)
      /\ \A s \in Step : NextCreated(s) => NextCreated(s)'
      /\ phase' \in [Job -> {"none", "open", "held", "closed"}]
      /\ token' \in [Job -> Worker \cup {NoWorker}]
      /\ phase'[t] # "none" /\ \A u \in Job : phase'[u] = phase[u] \/ phase[u] = "none"
      /\ \A u \in Job : phase[u] # "none" => phase'[u] # "none"
  <2>1. CASE phase[t] = "none"
    <3>1. Lease!Offer(t) BY <2>1 DEF HandOn
    <3> QED BY <1>1, <2>1, <3>1, OfferKeepsLeases
  <2>2. CASE phase[t] # "none"
    <3>1. UNCHANGED leaseVars BY <2>2 DEF HandOn
    <3> QED BY <1>0, <1>1, <2>2, <3>1 DEF Holds, NextCreated, Types
  <2> QED BY <2>1, <2>2
<1>4. Types'
  <2>1. claims' = claims BY DEF HandOn, Lease!Offer
  <2>2. claims' = {<<step'[v], v>> : v \in {u \in Worker : Working(u)'}}
    BY <1>0, <1>1, <1>2, <2>1 DEF Types
  <2> QED BY <1>0, <1>1, <1>3, <2>2 DEF Types, HandOn, Goto, Stages
<1>5. Alone' <=> Alone BY DEF Alone, HandOn
<1>6. RunInv'
  <2> SUFFICES ASSUME Alone', NEW v \in Worker, Working(v)'
               PROVE  /\ Holds(v)' <=> pc'[v] # "surface"
                      /\ pc'[v] # "surface" => Fits(v, pc[v], row[step[v]], hit)'
    BY DEF RunInv, Fits
  <2>1. /\ Holds(v) <=> pc[v] # "surface"
        /\ pc[v] # "surface" => Fits(v, pc[v], row[step[v]], hit)
    BY <1>0, <1>2, <1>5 DEF RunInv, Fits
  <2>2. CASE v = w
    <3>1. row[step[w]] = "completed" BY <1>1, <2>1, <2>2 DEF Fits
    <3>2. NextCreated(step[w])' BY <1>1, <1>3 DEF NextCreated
    <3> QED BY <1>1, <1>3, <2>1, <2>2, <3>1, <3>2 DEF Fits
  <2>3. CASE v # w
    <3>1. pc'[v] = pc[v] /\ hit' = hit /\ step[v] \in Step
      BY <1>0, <1>1, <2>3 DEF HandOn, Types
    <3> QED BY <1>1, <1>3, <2>1, <3>1 DEF Fits
  <2> QED BY <2>2, <2>3
<1>7. DoneInv' BY <1>0, <1>1, <1>3, <1>5 DEF DoneInv
<1>8. HandedOn' BY <1>0, <1>1, <1>3, <1>5 DEF HandedOn, HandOn
<1> QED BY <1>4, <1>6, <1>7, <1>8 DEF HandInv

(* Alone, no run works on the job that a new run is granted.                *)
LEMMA StartKeeps ==
  ASSUME HandInv, NEW w \in Worker, NEW s \in Step, StartRun(w, s)
  PROVE  HandInv'
<1>0. Types /\ RunInv /\ DoneInv /\ HandedOn BY DEF HandInv
<1>1. /\ pc'[w] = "ensure" /\ step'[w] = s /\ row' = row /\ done' = done /\ ~Working(w)
      /\ \A v \in Worker \ {w} : pc'[v] = pc[v] /\ step'[v] = step[v]
      /\ phase[s] \in {"open", "held"} /\ phase'[s] = "held" /\ token'[s] = w
      /\ \A t \in Job \ {s} : phase'[t] = phase[t] /\ token'[t] = token[t]
      /\ claims' = claims \cup {<<s, w>>}
  BY <1>0 DEF Types, StartRun, Lease!Grant
<1>2. \A v \in Worker : Working(v)' <=> Working(v) \/ v = w BY <1>1 DEF Working
<1>3. Types'
  <2>1. claims' = {<<step'[v], v>> : v \in {u \in Worker : Working(u)'}}
    BY <1>0, <1>1, <1>2 DEF Types
  <2> QED BY <1>0, <1>1, <2>1 DEF Types, StartRun, Lease!Grant, Stages
<1>4. Alone' => Alone BY DEF Alone, StartRun, Fault
<1>5. ASSUME Alone', NEW v \in Worker, Working(v), step[v] = s PROVE pc[v] = "surface"
  <2>1. <<s, token[s]>> \notin claims
    <3>1. CASE <<s, token[s]>> \in claims
      <4>1. Fault("overrun") BY <3>1 DEF StartRun
      <4> QED BY <1>5, <4>1 DEF Fault, Alone
    <3> QED BY <3>1
  <2>2. <<s, v>> \in claims BY <1>0, <1>5 DEF Types
  <2>3. ~Holds(v) BY <1>5, <2>1, <2>2 DEF Holds
  <2> QED BY <1>0, <1>4, <1>5, <2>3 DEF RunInv
<1>6. \A u \in Step : NextCreated(u) => NextCreated(u)'
  BY <1>1 DEF NextCreated, NextJob
<1>7. hit \subseteq hit' BY DEF StartRun, Fault
<1>8. RunInv'
  <2> SUFFICES ASSUME Alone', NEW v \in Worker, Working(v)'
               PROVE  /\ Holds(v)' <=> pc'[v] # "surface"
                      /\ pc'[v] # "surface" => Fits(v, pc[v], row[step[v]], hit)'
    BY DEF RunInv, Fits
  <2>1. CASE v = w BY <1>1, <2>1 DEF Holds, Fits
  <2>2. CASE v # w
    <3>1. /\ Working(v) /\ pc'[v] = pc[v] /\ step'[v] = step[v] /\ step[v] \in Step
      BY <1>0, <1>1, <1>2, <2>2 DEF Types
    <3>2. /\ Holds(v) <=> pc[v] # "surface"
          /\ pc[v] # "surface" => Fits(v, pc[v], row[step[v]], hit)
      BY <1>0, <1>4, <3>1 DEF RunInv, Fits
    <3>3. CASE step[v] = s
      <4>1. pc[v] = "surface" BY <1>5, <3>1, <3>3
      <4> QED BY <1>1, <2>2, <3>1, <3>3, <4>1 DEF Holds
    <3>4. CASE step[v] # s
      <4>1. Holds(v)' <=> Holds(v) BY <1>1, <3>1, <3>4 DEF Holds
      <4> QED BY <1>1, <1>6, <1>7, <3>1, <3>2, <4>1 DEF Fits
    <3> QED BY <3>3, <3>4
  <2> QED BY <2>1, <2>2
<1>9. DoneInv' BY <1>0, <1>1, <1>4 DEF DoneInv
<1>10. HandedOn' BY <1>0, <1>1, <1>4, <1>6, <1>7 DEF HandedOn
<1> QED BY <1>3, <1>8, <1>9, <1>10 DEF HandInv

LEMMA EndsKeep ==
  ASSUME HandInv, NEW w \in Worker,
         CompleteJob(w) \/ FailJob(w) \/ Surface(w) \/ Crash(w)
  PROVE  HandInv'
<1>0. Types /\ RunInv /\ DoneInv /\ HandedOn BY DEF HandInv
<1>1. Working(w) BY DEF CompleteJob, FailJob, Surface, Crash, At, Working
<1>2. step[w] \in Step /\ phase \in [Job -> {"none", "open", "held", "closed"}]
  BY <1>0 DEF Types
<1>3. Alone => (Holds(w) => Fits(w, pc[w], row[step[w]], hit))
  BY <1>0, <1>1 DEF RunInv, Fits
<1>4. CASE CompleteJob(w)
  <2>1. CASE Holds(w)
    <3>1. /\ phase' = [phase EXCEPT ![step[w]] = "closed"]
          /\ token' = [token EXCEPT ![step[w]] = NoWorker]
          /\ Rest(w) /\ claims' = claims \ {<<step[w], w>>}
          /\ UNCHANGED <<row, canceling, requests, hit>> /\ done' = done \cup {step[w]}
      BY <1>2, <1>4, <2>1 DEF CompleteJob, Lease!Settle
    <3>2. Alone => row[step[w]] = "completed" /\ NextCreated(step[w])
      BY <1>3, <1>4, <2>1 DEF CompleteJob, At, Fits
    <3> QED BY <1>1, <2>1, <3>1, <3>2, SettleKeeps
  <2>2. CASE ~Holds(w)
    BY <1>1, <1>4, <2>2, LeaveKeeps DEF CompleteJob, Lease!Forget
  <2> QED BY <2>1, <2>2
<1>5. CASE FailJob(w)
  <2>1. CASE Holds(w)
    <3> DEFINE p == IF At(w, "fail") /\ attempts[step[w]] < MaxAttempts THEN "open" ELSE "closed"
    <3>1. /\ phase' = [phase EXCEPT ![step[w]] = p]
          /\ token' = [token EXCEPT ![step[w]] = NoWorker]
          /\ UNCHANGED <<row, canceling, requests, hit>> /\ done' = done
          /\ \/ Rest(w) /\ claims' = claims \ {<<step[w], w>>}
             \/ pc' = [pc EXCEPT ![w] = "surface"] /\ UNCHANGED <<step, claims>>
      BY <1>2, <1>5, <2>1 DEF FailJob, Lease!Settle, Goto
    <3>2. Alone /\ "statement" \notin hit => row[step[w]] # "completed"
      BY <1>3, <1>5, <2>1 DEF FailJob, At, Fits
    <3>3. p \in {"open", "closed"} OBVIOUS
    <3> HIDE DEF p
    <3> QED BY <1>1, <2>1, <3>1, <3>2, <3>3, SettleKeeps
  <2>2. CASE ~Holds(w)
    BY <1>1, <1>5, <2>2, LeaveKeeps DEF FailJob, Lease!Forget
  <2> QED BY <2>1, <2>2
<1>6. CASE Surface(w)
  BY <1>1, <1>6, LeaveKeeps DEF Surface, Lease!Forget
<1>7. CASE Crash(w)
  BY <1>1, <1>7, LeaveKeeps DEF Crash, Fault, Lease!Forget
<1> QED BY <1>4, <1>5, <1>6, <1>7

----------------------------------------------------------------------------
(* What happens besides the runs.                                           *)

LEMMA JobsDeleted ==
  ASSUME HandInv, DeleteCompletedJobs
  PROVE  HandInv'
<1>0. Types /\ RunInv /\ DoneInv /\ HandedOn BY DEF HandInv
<1>1. /\ \A t \in Job : phase'[t] = IF t \in done THEN "none" ELSE phase[t]
      /\ UNCHANGED <<row, token, claims, pc, step, hit, requests, canceling>> /\ done' = {}
  BY DEF DeleteCompletedJobs
<1>2. Types' BY <1>0, <1>1 DEF Types, DeleteCompletedJobs, Working
<1>3. Alone' <=> Alone BY <1>1 DEF Alone
<1>4. CASE Alone
  <2>1. \A s \in done : s \in Step /\ phase[s] = "closed" /\ row[s] = "completed"
    BY <1>0, <1>4 DEF DoneInv
  <2>2. \A v \in Worker : Holds(v)' <=> Holds(v) BY <1>0, <1>1, <2>1 DEF Holds, Types
  <2>3. \A s \in Step : NextCreated(s) => NextCreated(s)'
    BY <1>1, <2>1 DEF NextCreated, NextJob
  <2>4. RunInv'
    <3> SUFFICES ASSUME NEW v \in Worker, Working(v)
                 PROVE  /\ Holds(v)' <=> pc[v] # "surface"
                        /\ pc[v] # "surface" => Fits(v, pc[v], row[step[v]], hit)'
      BY <1>1 DEF RunInv, Fits, Working
    <3>1. /\ Holds(v) <=> pc[v] # "surface"
          /\ pc[v] # "surface" => Fits(v, pc[v], row[step[v]], hit)
      BY <1>0, <1>4 DEF RunInv, Fits
    <3>2. step[v] \in Step BY <1>0 DEF Types
    <3> QED BY <1>1, <2>2, <2>3, <3>1, <3>2 DEF Fits
  <2>5. DoneInv' BY <1>1 DEF DoneInv
  <2>6. HandedOn'
    <3> SUFFICES ASSUME "statement" \notin hit, NEW s \in Step, row[s] = "completed"
                 PROVE  NextCreated(s)' \/ phase'[s] \in {"open", "held"}
      BY <1>1 DEF HandedOn
    <3>1. NextCreated(s) \/ phase[s] \in {"open", "held"} BY <1>0, <1>4 DEF HandedOn
    <3> QED BY <1>1, <2>1, <2>3, <3>1
  <2> QED BY <1>2, <2>4, <2>5, <2>6 DEF HandInv
<1>5. CASE ~Alone BY <1>2, <1>3, <1>5 DEF HandInv, RunInv, DoneInv, HandedOn
<1> QED BY <1>4, <1>5

LEMMA RetryKeeps ==
  ASSUME HandInv, NEW s \in Step, RetryJob(s)
  PROVE  HandInv'
<1>0. Types /\ RunInv /\ DoneInv /\ HandedOn BY DEF HandInv
<1>1. UNCHANGED <<row, pc, step, hit, requests, canceling>> /\ done' \subseteq done
  BY DEF RetryJob
<1>2. Alone' <=> Alone BY <1>1 DEF Alone
<1>3. CASE phase[s] = "held"
  <2>1. UNCHANGED <<row, pc, step, hit, requests, canceling, done, phase, token, claims>>
    BY <1>1, <1>3 DEF RetryJob
  <2> QED
    BY <1>0, <1>2, <2>1
       DEF HandInv, Types, RunInv, DoneInv, HandedOn, Holds, NextCreated, Working
<1>4. CASE phase[s] # "held"
  <2>0. Lease!Offer(s) /\ done' = done \ {s} BY <1>4 DEF RetryJob
  <2>1. /\ \A v \in Worker : Holds(v)' <=> Holds(v)
        /\ \A u \in Step : NextCreated(u) => NextCreated(u)'
        /\ phase' \in [Job -> {"none", "open", "held", "closed"}]
        /\ token' \in [Job -> Worker \cup {NoWorker}]
        /\ phase'[s] = "open" /\ \A u \in Job \ {s} : phase'[u] = phase[u]
    BY <1>1, <1>4, <2>0, OfferKeepsLeases
  <2>2. Types' BY <1>0, <1>1, <2>0, <2>1 DEF Types, Lease!Offer, Working
  <2>3. RunInv'
    <3> SUFFICES ASSUME Alone, NEW v \in Worker, Working(v)
                 PROVE  /\ Holds(v)' <=> pc[v] # "surface"
                        /\ pc[v] # "surface" => Fits(v, pc[v], row[step[v]], hit)'
      BY <1>1, <1>2 DEF RunInv, Fits, Working
    <3>1. /\ Holds(v) <=> pc[v] # "surface"
          /\ pc[v] # "surface" => Fits(v, pc[v], row[step[v]], hit)
      BY <1>0 DEF RunInv, Fits
    <3>2. step[v] \in Step BY <1>0 DEF Types
    <3> QED BY <1>1, <2>1, <3>1, <3>2 DEF Fits
  <2>4. DoneInv' BY <1>0, <1>1, <1>2, <2>0, <2>1 DEF DoneInv
  <2>5. HandedOn' BY <1>0, <1>1, <1>2, <2>1 DEF HandedOn
  <2> QED BY <2>2, <2>3, <2>4, <2>5 DEF HandInv
<1> QED BY <1>3, <1>4

(* Requests, the retention of files, and a cancellation, after which a run  *)
(* may not be alone.                                                        *)
LEMMA RestKeeps ==
  ASSUME HandInv,
         \/ Age \/ StartCleanup \/ NextPolicy
         \/ (\E f \in File : DeleteObject(f) \/ MarkDeleted(f))
         \/ CancelOccurrence \/ CancelJobs \/ \E s \in Step : RetryRow(s)
  PROVE  HandInv'
<1>0. Types /\ RunInv /\ DoneInv /\ HandedOn BY DEF HandInv
<1>1. ASSUME UNCHANGED <<row, phase, token, claims, done, pc, step, hit, canceling>>,
             requests \subseteq requests'
      PROVE  HandInv'
  BY <1>0, <1>1
     DEF HandInv, Types, RunInv, DoneInv, HandedOn, Holds, NextCreated, Working, Alone
<1>2. CASE Age \/ StartCleanup \/ NextPolicy
  BY <1>1, <1>2 DEF Age, StartCleanup, NextPolicy, Request
<1>3. CASE \E f \in File : DeleteObject(f) \/ MarkDeleted(f)
  BY <1>1, <1>3 DEF DeleteObject, MarkDeleted
<1>4. CASE CancelOccurrence
  <2>1. "cancel" \in requests' BY <1>4 DEF CancelOccurrence, Request
  <2>2. Types' BY <1>0, <1>4, <2>1 DEF CancelOccurrence, Types, Working
  <2> QED BY <2>1, <2>2 DEF HandInv, RunInv, DoneInv, HandedOn, Alone
<1>5. CASE CancelJobs
  <2>1. "cancel" \in requests /\ requests' = requests BY <1>0, <1>5 DEF CancelJobs, Types
  <2>2. Types' BY <1>0, <1>5, <2>1 DEF CancelJobs, Lease!Revoke, Types, Working
  <2> QED BY <2>1, <2>2 DEF HandInv, RunInv, DoneInv, HandedOn, Alone
<1>6. ASSUME NEW s \in Step, RetryRow(s) PROVE HandInv'
  <2>1. /\ UNCHANGED <<phase, token, claims, done, pc, step, hit, canceling>>
        /\ requests \subseteq requests' /\ row' \in [Step -> Rows]
        /\ \A u \in Step : row'[u] = "completed" <=> row[u] = "completed"
    BY <1>0, <1>6 DEF RetryRow, Request, Types, Rows
  <2>2. Types' BY <1>0, <2>1 DEF Types, Working
  <2>3. Alone' => Alone BY <2>1 DEF Alone
  <2>4. \A v \in Worker : step[v] \in Step BY <1>0 DEF Types
  <2>5. RunInv' BY <1>0, <2>1, <2>3, <2>4 DEF RunInv, Holds, NextCreated, Working
  <2>6. DoneInv' BY <1>0, <2>1, <2>3 DEF DoneInv
  <2>7. HandedOn' BY <1>0, <2>1, <2>3 DEF HandedOn, NextCreated
  <2> QED BY <2>2, <2>5, <2>6, <2>7 DEF HandInv
<1> QED BY <1>2, <1>3, <1>4, <1>5, <1>6

LEMMA NextKeeps == HandInv /\ [Next]_vars => HandInv'
<1> SUFFICES ASSUME HandInv, [Next]_vars PROVE HandInv' OBVIOUS
<1>1. CASE Next
  <2>1. CASE \E w \in Worker : (\E s \in Step : StartRun(w, s)) \/ RunStep(w)
    BY <2>1, StartKeeps, MovesKeep, HandOnKeeps, EndsKeep DEF RunStep
  <2>2. CASE \E w \in Worker : StatementFails(w) \/ HandOnFails(w) \/ Crash(w)
    BY <2>2, MovesKeep, EndsKeep
  <2>3. CASE Retention
    BY <2>3, RestKeeps, JobsDeleted DEF Retention
  <2>4. CASE CancelOccurrence \/ CancelJobs \/ \E s \in Step : RetryRow(s) \/ RetryJob(s)
    BY <2>4, RestKeeps, RetryKeeps
  <2> QED BY <1>1, <2>1, <2>2, <2>3, <2>4 DEF Next
<1>2. CASE UNCHANGED vars
  BY <1>2 DEF vars, HandInv, Types, RunInv, DoneInv, HandedOn, Holds, NextCreated, Working, Alone
<1> QED BY <1>1, <1>2

(* What every run knows of its job, its row and the next job.               *)
THEOREM HandInvariant == Spec => []HandInv
<1> QED BY Initially, NextKeeps, PTL DEF Spec

(* However often runs crash, the queue refuses their messages and an admin  *)
(* retries, and until a run overstays its lease, a statement fails in its   *)
(* catch block or an admin cancels, a completed step has created the next  *)
(* one's job or will be run again until it does (jobHandlers.ts:326-329,   *)
(* 473-476).                                                               *)
THEOREM HandedOnHolds == Spec => []HandedOn
<1>1. HandInv => HandedOn BY DEF HandInv
<1> QED BY <1>1, HandInvariant, PTL

----------------------------------------------------------------------------
(* The files.                                                               *)

FileTypes ==
    /\ place \in [Worker -> Nat] /\ \A w \in Worker : place[w] \in DOMAIN Outputs(step[w])
    /\ \A w \in Worker : pc[w] \notin {"put", "record"} => place[w] = 1
    /\ artifact \in [File -> {"none", "live", "deleted"}]
    /\ object \subseteq File /\ tomb \subseteq File

FileInv == FileTypes /\ Aging /\ Filing /\ Expiring

LEMMA OutputsFacts ==
  ASSUME NEW s \in Step
  PROVE  /\ Len(Outputs(s)) \in {2, 3} /\ DOMAIN Outputs(s) = 1..Len(Outputs(s))
         /\ \A i \in DOMAIN Outputs(s) : Outputs(s)[i] \in File
<1>1. CASE s = Transcribe BY <1>1 DEF Outputs, File
<1>2. CASE s = GenerateRecap BY <1>2 DEF Outputs, File
<1> QED BY <1>1, <1>2

LEMMA FilesInitially == Init => FileInv
<1> SUFFICES ASSUME Init PROVE FileInv OBVIOUS
<1> USE DEF Init
<1>1. 1 \in DOMAIN Outputs(Transcribe) /\ Recorded \subseteq File
  BY OutputsFacts DEF File
<1>2. FileTypes BY <1>1 DEF FileTypes
<1>3. Aging BY DEF Aging
<1>4. Filing BY <1>1 DEF Filing
<1>5. Expiring BY DEF Expiring
<1> QED BY <1>2, <1>3, <1>4, <1>5 DEF FileInv

(* A run that neither puts nor records files, or is torn from it.           *)
LEMMA FilesKept ==
  ASSUME HandInv, FileInv, NEW w \in Worker,
         Working(w) \/ \E s \in Step : phase[s] \in {"open", "held"},
         UNCHANGED <<object, artifact, old, policy, expired, tomb, retrying, requests>>,
         hit \subseteq hit', pc[w] \in {"put", "record"} => ~Undisturbed',
         \A v \in Worker \ {w} : pc'[v] = pc[v] /\ step'[v] = step[v] /\ place'[v] = place[v],
         pc'[w] # "record", place' \in [Worker -> Nat], place'[w] = 1, step'[w] \in Step
  PROVE  FileInv'
<1>0. FileTypes /\ Aging /\ Filing /\ Expiring BY DEF FileInv
<1>1. FileTypes'
  <2>1. 1 \in DOMAIN Outputs(step'[w]) BY OutputsFacts
  <2>2. \A v \in Worker : place'[v] \in DOMAIN Outputs(step'[v]) BY <1>0, <2>1 DEF FileTypes
  <2> QED BY <1>0, <2>2 DEF FileTypes
<1>2. Retried' <=> Retried BY DEF Retried
<1>3. old # {} => Retried BY <1>0 DEF Aging, Stopped
<1>4. Aging' BY <1>0, <1>2, <1>3 DEF Aging
<1>5. Expiring' BY <1>0, <1>2, <1>3 DEF Expiring, Aging
<1>6. Filing'
  <2> SUFFICES ASSUME "cleanup" \notin requests PROVE Filing'
    BY DEF Filing
  <2>1. /\ tomb' = {} /\ expired' = {} /\ policy' = 0
        /\ \A f \in File : artifact'[f] = "live" => f \in object'
    BY <1>0 DEF Filing
  <2>2. ASSUME NEW v \in Worker, pc'[v] = "put", NEW i \in DOMAIN Outputs(step'[v]), i < place'[v]
        PROVE  Outputs(step'[v])[i] \in object'
    <3>1. CASE v = w
      <4>1. i \in Nat /\ i >= 1 BY <2>2, <3>1, OutputsFacts
      <4> QED BY <2>2, <3>1, <4>1
    <3>2. CASE v # w BY <1>0, <2>2, <3>2 DEF Filing
    <3> QED BY <3>1, <3>2
  <2>3. ASSUME NEW v \in Worker, pc'[v] = "record", NEW i \in DOMAIN Outputs(step'[v])
        PROVE  /\ Outputs(step'[v])[i] \in object'
               /\ i < place'[v] => artifact'[Outputs(step'[v])[i]] = "live"
    BY <1>0, <2>3 DEF Filing
  <2>4. ASSUME Undisturbed', NEW f \in object' PROVE artifact'[f] = "live" \/ OnTheWay(f)'
    <3>1. artifact[f] = "live" \/ OnTheWay(f) BY <1>0, <2>4 DEF Filing, Undisturbed
    <3>2. ASSUME NEW v \in Worker, pc[v] \in {"put", "record"},
                 f \in {Outputs(step[v])[i] : i \in DOMAIN Outputs(step[v])}
          PROVE  OnTheWay(f)'
      <4>1. v # w BY <2>4, <3>2
      <4> QED BY <3>2, <4>1 DEF OnTheWay
    <3> QED BY <3>1, <3>2 DEF OnTheWay
  <2> QED BY <2>1, <2>2, <2>3, <2>4 DEF Filing
<1> QED BY <1>1, <1>4, <1>5, <1>6 DEF FileInv

LEMMA RunsKeepFiles ==
  ASSUME HandInv, HandInv', FileInv, NEW w \in Worker,
         \/ \E s \in Step : StartRun(w, s)
         \/ EnsureRow(w) \/ NoApiKey(w) \/ ReadSources(w) \/ ReadTranscript(w) \/ Refuse(w)
         \/ MarkOccurrence(w) \/ MarkRunning(w)
         \/ (\E f \in Recorded : TranscribeChunk(w, f)) \/ TranscribedAll(w)
         \/ Summarize(w) \/ MarkCompleted(w) \/ HandOn(w) \/ Hint(w) \/ Caught(w) \/ GiveUp(w)
         \/ CompleteJob(w) \/ FailJob(w) \/ Surface(w)
         \/ StatementFails(w) \/ HandOnFails(w) \/ Crash(w)
  PROVE  FileInv'
<1> DEFINE Torn ==
      /\ Working(w) \/ \E s \in Step : phase[s] \in {"open", "held"}
      /\ UNCHANGED <<object, artifact, old, policy, expired, tomb, retrying, requests>>
      /\ hit \subseteq hit' /\ (pc[w] \in {"put", "record"} => ~Undisturbed')
      /\ \A v \in Worker \ {w} : pc'[v] = pc[v] /\ step'[v] = step[v] /\ place'[v] = place[v]
      /\ pc'[w] # "record" /\ place' \in [Worker -> Nat] /\ place'[w] = 1
<1>1. /\ pc \in [Worker -> Stages] /\ step \in [Worker -> Step] /\ place \in [Worker -> Nat]
      /\ step'[w] \in Step
      /\ pc[w] \notin {"put", "record"} => place[w] = 1
  BY DEF HandInv, Types, FileInv, FileTypes
<1>2. ASSUME Torn PROVE FileInv' BY <1>1, <1>2, FilesKept
<1> USE DEF At, Goto, Throw, Rest, Working
<1>3. ASSUME NEW s \in Step, StartRun(w, s) PROVE Torn
  BY <1>1, <1>3 DEF StartRun, Lease!Grant, Fault
<1>4. ASSUME EnsureRow(w) PROVE Torn
  BY <1>1, <1>4 DEF EnsureRow
<1>5. ASSUME NoApiKey(w) PROVE Torn
  BY <1>1, <1>5 DEF NoApiKey
<1>6. ASSUME ReadSources(w) PROVE Torn
  BY <1>1, <1>6 DEF ReadSources
<1>7. ASSUME ReadTranscript(w) PROVE Torn
  BY <1>1, <1>7 DEF ReadTranscript
<1>8. ASSUME Refuse(w) PROVE Torn
  BY <1>1, <1>8 DEF Refuse
<1>9. ASSUME MarkOccurrence(w) PROVE Torn
  BY <1>1, <1>9 DEF MarkOccurrence
<1>10. ASSUME MarkRunning(w) PROVE Torn
  BY <1>1, <1>10 DEF MarkRunning
<1>11. ASSUME \E f \in Recorded : TranscribeChunk(w, f) PROVE Torn
  BY <1>1, <1>11 DEF TranscribeChunk
<1>12. ASSUME TranscribedAll(w) PROVE Torn
  BY <1>1, <1>12 DEF TranscribedAll
<1>13. ASSUME Summarize(w) PROVE Torn
  BY <1>1, <1>13 DEF Summarize
<1>14. ASSUME MarkCompleted(w) PROVE Torn
  BY <1>1, <1>14 DEF MarkCompleted
<1>15. ASSUME HandOn(w) PROVE Torn
  BY <1>1, <1>15 DEF HandOn
<1>16. ASSUME Hint(w) PROVE Torn
  BY <1>1, <1>16 DEF Hint
<1>17. ASSUME Caught(w) PROVE Torn
  BY <1>1, <1>17 DEF Caught
<1>18. ASSUME GiveUp(w) PROVE Torn
  BY <1>1, <1>18 DEF GiveUp
<1>19. ASSUME CompleteJob(w) PROVE Torn
  BY <1>1, <1>19 DEF CompleteJob
<1>20. ASSUME FailJob(w) PROVE Torn
  BY <1>1, <1>20 DEF FailJob
<1>21. ASSUME Surface(w) PROVE Torn
  BY <1>1, <1>21 DEF Surface
<1>22. ASSUME StatementFails(w) PROVE Torn
  <2>1. "statement" \in hit' /\ hit \subseteq hit' BY <1>22 DEF StatementFails, Fault
  <2>2. ~Undisturbed' BY <2>1 DEF Undisturbed
  <2>3. \/ pc[w] \in Guarded /\ Throw(w, "caught")
        \/ pc[w] \in Unguarded /\ Throw(w, "fail")
    BY <1>22 DEF StatementFails
  <2>4. pc[w] # "idle" BY <2>3 DEF Guarded, Unguarded
  <2> QED BY <1>1, <1>22, <2>1, <2>2, <2>3, <2>4 DEF StatementFails
<1>23. ASSUME HandOnFails(w) PROVE Torn
  BY <1>1, <1>23 DEF HandOnFails, Fault
<1>24. ASSUME Crash(w) PROVE Torn
  BY <1>1, <1>24 DEF Crash, Fault, Undisturbed
<1> HIDE DEF Torn
<1> QED
  BY <1>2, <1>3, <1>4, <1>5, <1>6, <1>7, <1>8, <1>9, <1>10, <1>11, <1>12, <1>13,
     <1>14, <1>15, <1>16, <1>17, <1>18, <1>19, <1>20, <1>21, <1>22, <1>23, <1>24

LEMMA PutKeeps ==
  ASSUME HandInv, FileInv, NEW w \in Worker, PutFile(w)
  PROVE  FileInv'
<1> DEFINE out == Outputs(step[w])
           f0 == out[place[w]]
<1>0. FileTypes /\ Aging /\ Filing /\ Expiring BY DEF FileInv
<1>1. /\ pc \in [Worker -> Stages] /\ step \in [Worker -> Step] /\ place \in [Worker -> Nat]
      /\ pc[w] = "put" /\ place[w] \in DOMAIN out
  BY <1>0 DEF HandInv, Types, FileTypes, PutFile, At
<1>2. Len(out) \in Nat /\ DOMAIN out = 1..Len(out) /\ f0 \in File BY <1>1, OutputsFacts
<1>3. /\ step' = step /\ object' = object \cup {f0}
      /\ UNCHANGED <<artifact, old, policy, expired, tomb, retrying, requests, hit>>
      /\ \A v \in Worker \ {w} : pc'[v] = pc[v] /\ place'[v] = place[v]
      /\ place' \in [Worker -> Nat]
  BY <1>1 DEF PutFile, Advance, CurrentFile
<1>4. \/ place[w] < Len(out) /\ place'[w] = place[w] + 1 /\ pc'[w] = "put"
      \/ ~(place[w] < Len(out)) /\ place'[w] = 1 /\ pc'[w] = "record"
  BY <1>1 DEF PutFile, Advance
<1> HIDE DEF f0
<1>5. place'[w] \in DOMAIN out
  <2>1. \A m, n \in Nat : m >= 1 /\ m < n => m + 1 \in 1..n /\ 1 \in 1..n OBVIOUS
  <2>2. place[w] >= 1 /\ 1 \in 1..Len(out) BY <1>1, <1>2
  <2> QED BY <1>1, <1>2, <1>4, <2>1, <2>2
<1>6. FileTypes'
  <2>1. \A v \in Worker : place'[v] \in DOMAIN Outputs(step'[v])
    BY <1>0, <1>3, <1>5 DEF FileTypes
  <2> QED BY <1>0, <1>2, <1>3, <1>4, <2>1 DEF FileTypes
<1>7. (Retried /\ Retried') \/ old = {}
  BY <1>0, <1>1, <1>3 DEF Aging, Stopped, Working, Retried
<1>8. Aging' BY <1>0, <1>3, <1>7 DEF Aging
<1>9. Expiring' BY <1>0, <1>3, <1>7 DEF Expiring, Aging
<1>10. Filing'
  <2> SUFFICES ASSUME "cleanup" \notin requests PROVE Filing'
    BY <1>3 DEF Filing
  <2>1. /\ tomb' = {} /\ expired' = {} /\ policy' = 0
        /\ \A f \in File : artifact'[f] = "live" => f \in object'
    BY <1>0, <1>3 DEF Filing
  <2>2. \A i \in DOMAIN out : i < place[w] \/ i = place[w] => out[i] \in object'
    BY <1>0, <1>1, <1>3 DEF Filing, f0
  <2>3. ASSUME NEW v \in Worker, pc'[v] = "put", NEW i \in DOMAIN Outputs(step'[v]), i < place'[v]
        PROVE  Outputs(step'[v])[i] \in object'
    <3>1. CASE v = w
      <4>1. place'[w] = place[w] + 1 BY <1>4, <2>3, <3>1
      <4>2. \A m, n \in Nat : m < n + 1 => m < n \/ m = n OBVIOUS
      <4>3. i \in Nat /\ place[w] \in Nat /\ i < place[w] + 1
        BY <1>1, <1>2, <1>3, <2>3, <3>1, <4>1
      <4> QED BY <1>3, <2>2, <2>3, <3>1, <4>2, <4>3
    <3>2. CASE v # w BY <1>0, <1>3, <2>3, <3>2 DEF Filing
    <3> QED BY <3>1, <3>2
  <2>4. ASSUME NEW v \in Worker, pc'[v] = "record", NEW i \in DOMAIN Outputs(step'[v])
        PROVE  /\ Outputs(step'[v])[i] \in object'
               /\ i < place'[v] => artifact'[Outputs(step'[v])[i]] = "live"
    <3>1. CASE v = w
      <4>1. place'[w] = 1 /\ ~(place[w] < Len(out)) BY <1>4, <2>4, <3>1
      <4>2. \A m, n, k \in Nat : m \in 1..k /\ ~(n < k) => (m < n \/ m = n) /\ ~(m < 1) OBVIOUS
      <4>3. i \in Nat /\ i \in 1..Len(out) BY <1>2, <1>3, <2>4, <3>1
      <4>4. (i < place[w] \/ i = place[w]) /\ ~(i < 1) BY <1>1, <1>2, <4>1, <4>2, <4>3
      <4> QED BY <1>3, <2>2, <2>4, <3>1, <4>1, <4>4
    <3>2. CASE v # w BY <1>0, <1>3, <2>4, <3>2 DEF Filing
    <3> QED BY <3>1, <3>2
  <2>5. ASSUME Undisturbed', NEW f \in object' PROVE artifact'[f] = "live" \/ OnTheWay(f)'
    <3>1. CASE f = f0
      <4>1. pc'[w] \in {"put", "record"} /\ f \in {Outputs(step'[w])[i] : i \in DOMAIN Outputs(step'[w])}
        BY <1>1, <1>3, <1>4, <3>1 DEF f0
      <4> QED BY <4>1 DEF OnTheWay
    <3>2. CASE f \in object
      <4>1. artifact[f] = "live" \/ OnTheWay(f)
        BY <1>0, <1>3, <2>5, <3>2 DEF Filing, Undisturbed
      <4>2. \A v \in Worker : pc[v] \in {"put", "record"} => pc'[v] \in {"put", "record"}
        BY <1>3, <1>4
      <4> QED BY <1>3, <4>1, <4>2 DEF OnTheWay
    <3> QED BY <1>3, <2>5, <3>1, <3>2
  <2> QED BY <2>1, <2>3, <2>4, <2>5 DEF Filing
<1> QED BY <1>6, <1>8, <1>9, <1>10 DEF FileInv

LEMMA RecordKeeps ==
  ASSUME HandInv, FileInv, NEW w \in Worker, RecordFile(w)
  PROVE  FileInv'
<1> DEFINE out == Outputs(step[w])
           f0 == out[place[w]]
<1>0. FileTypes /\ Aging /\ Filing /\ Expiring BY DEF FileInv
<1>1. /\ pc \in [Worker -> Stages] /\ step \in [Worker -> Step] /\ place \in [Worker -> Nat]
      /\ pc[w] = "record" /\ place[w] \in DOMAIN out
  BY <1>0 DEF HandInv, Types, FileTypes, RecordFile, At
<1>2. Len(out) \in Nat /\ DOMAIN out = 1..Len(out) /\ f0 \in File BY <1>1, OutputsFacts
<1>a. artifact' = [artifact EXCEPT ![f0] = "live"] /\ Advance(w, "completed")
  BY DEF RecordFile, CurrentFile
<1>b. /\ artifact'[f0] = "live" /\ \A f \in File \ {f0} : artifact'[f] = artifact[f]
      /\ artifact' \in [File -> {"none", "live", "deleted"}]
  <2>1. artifact \in [File -> {"none", "live", "deleted"}] BY <1>0 DEF FileTypes
  <2> HIDE DEF f0
  <2> QED BY <1>2, <1>a, <2>1
<1>3. /\ step' = step /\ artifact'[f0] = "live"
      /\ \A f \in File \ {f0} : artifact'[f] = artifact[f]
      /\ artifact' \in [File -> {"none", "live", "deleted"}]
      /\ UNCHANGED <<object, old, policy, expired, tomb, retrying, requests, hit>>
      /\ \A v \in Worker \ {w} : pc'[v] = pc[v] /\ place'[v] = place[v]
      /\ place' \in [Worker -> Nat]
  BY <1>1, <1>b DEF RecordFile, Advance
<1>4. \/ place[w] < Len(out) /\ place'[w] = place[w] + 1 /\ pc'[w] = "record"
      \/ ~(place[w] < Len(out)) /\ place'[w] = 1 /\ pc'[w] = "completed"
  BY <1>1 DEF RecordFile, Advance
<1> HIDE DEF f0
<1>5. place'[w] \in DOMAIN out
  <2>1. \A m, n \in Nat : m >= 1 /\ m < n => m + 1 \in 1..n /\ 1 \in 1..n OBVIOUS
  <2>2. place[w] >= 1 /\ 1 \in 1..Len(out) BY <1>1, <1>2
  <2> QED BY <1>1, <1>2, <1>4, <2>1, <2>2
<1>6. FileTypes'
  <2>1. \A v \in Worker : place'[v] \in DOMAIN Outputs(step'[v])
    BY <1>0, <1>3, <1>5 DEF FileTypes
  <2> QED BY <1>0, <1>2, <1>3, <1>4, <2>1 DEF FileTypes
<1>7. (Retried /\ Retried') \/ old = {}
  BY <1>0, <1>1, <1>3 DEF Aging, Stopped, Working, Retried
<1>8. Aging' BY <1>0, <1>3, <1>7 DEF Aging
<1>9. Expiring' BY <1>0, <1>3, <1>7 DEF Expiring, Aging
<1>10. Filing'
  <2> SUFFICES ASSUME "cleanup" \notin requests PROVE Filing'
    BY <1>3 DEF Filing
  <2>0. \A f \in File : artifact[f] = "live" => artifact'[f] = "live" BY <1>3
  <2>1. /\ tomb' = {} /\ expired' = {} /\ policy' = 0
        /\ \A f \in File : artifact'[f] = "live" => f \in object'
    BY <1>0, <1>1, <1>3 DEF Filing, f0
  <2>2. \A i \in DOMAIN out :
           /\ out[i] \in object /\ out[i] \in File
           /\ i < place[w] \/ i = place[w] => artifact'[out[i]] = "live"
    BY <1>0, <1>1, <1>3, <2>0, OutputsFacts DEF Filing, f0
  <2>3. ASSUME NEW v \in Worker, pc'[v] = "put", NEW i \in DOMAIN Outputs(step'[v]), i < place'[v]
        PROVE  Outputs(step'[v])[i] \in object'
    BY <1>0, <1>3, <1>4, <2>3 DEF Filing
  <2>4. ASSUME NEW v \in Worker, pc'[v] = "record", NEW i \in DOMAIN Outputs(step'[v])
        PROVE  /\ Outputs(step'[v])[i] \in object'
               /\ i < place'[v] => artifact'[Outputs(step'[v])[i]] = "live"
    <3>1. CASE v = w
      <4>1. place'[w] = place[w] + 1 BY <1>4, <2>4, <3>1
      <4>2. \A m, n \in Nat : m < n + 1 => m < n \/ m = n OBVIOUS
      <4>3. i \in Nat /\ place[w] \in Nat BY <1>1, <1>2, <1>3, <2>4, <3>1
      <4> QED BY <1>3, <2>2, <2>4, <3>1, <4>1, <4>2, <4>3
    <3>2. CASE v # w
      <4>1. Outputs(step[v])[i] \in File BY <1>1, <1>3, <2>4, OutputsFacts
      <4> QED BY <1>0, <1>3, <2>0, <2>4, <3>2, <4>1 DEF Filing
    <3> QED BY <3>1, <3>2
  <2>5. ASSUME Undisturbed', NEW f \in object' PROVE artifact'[f] = "live" \/ OnTheWay(f)'
    <3>1. artifact[f] = "live" \/ OnTheWay(f) BY <1>0, <1>3, <2>5 DEF Filing, Undisturbed
    <3>2. f \in File BY <1>0, <1>3, <2>5 DEF FileTypes
    <3>3. ASSUME NEW v \in Worker, pc[v] \in {"put", "record"},
                 f \in {Outputs(step[v])[i] : i \in DOMAIN Outputs(step[v])}
          PROVE  artifact'[f] = "live" \/ OnTheWay(f)'
      <4>1. CASE pc'[v] \in {"put", "record"} BY <1>3, <3>3, <4>1 DEF OnTheWay
      <4>2. CASE pc'[v] \notin {"put", "record"}
        <5>1. v = w /\ ~(place[w] < Len(out)) BY <1>3, <1>4, <3>3, <4>2
        <5>2. PICK i \in DOMAIN out : f = out[i] BY <3>3, <5>1
        <5>3. \A m, n, k \in Nat : m \in 1..k /\ ~(n < k) => (m < n \/ m = n) OBVIOUS
        <5>4. i < place[w] \/ i = place[w] BY <1>1, <1>2, <5>1, <5>2, <5>3
        <5> QED BY <2>2, <5>2, <5>4
      <4> QED BY <4>1, <4>2
    <3> QED BY <2>0, <3>1, <3>2, <3>3 DEF OnTheWay
  <2> QED BY <2>1, <2>3, <2>4, <2>5 DEF Filing
<1> QED BY <1>6, <1>8, <1>9, <1>10 DEF FileInv

(* What is no step of a run.                                                *)
LEMMA RetentionKeeps ==
  ASSUME HandInv, FileInv, Retention
  PROVE  FileInv'
<1>0. FileTypes /\ Aging /\ Filing /\ Expiring BY DEF FileInv
<1>1. UNCHANGED <<pc, step, place, retrying, hit>>
  BY DEF Retention, Age, StartCleanup, NextPolicy, DeleteObject, MarkDeleted, DeleteCompletedJobs
<1>2. CASE Age
  <2>1. /\ UNCHANGED <<object, artifact, policy, expired, tomb, phase>>
        /\ requests' = requests \cup {"age"} /\ "age" \notin requests /\ Stopped
    BY <1>2 DEF Age, Request, Stopped
  <2>2. FileTypes' BY <1>0, <1>1, <2>1 DEF FileTypes
  <2>3. "cleanup" \notin requests' BY <1>0, <2>1 DEF Aging
  <2>4. Aging' BY <1>0, <1>1, <2>1, <2>3 DEF Aging, Stopped, Working
  <2>5. Filing' BY <1>0, <1>1, <2>1 DEF Filing, OnTheWay, Undisturbed
  <2>6. Expiring' BY <2>3 DEF Expiring
  <2> QED BY <2>2, <2>4, <2>5, <2>6 DEF FileInv
<1>3. CASE StartCleanup
  <2>1. /\ UNCHANGED <<object, artifact, old, tomb, phase>>
        /\ requests' = requests \cup {"cleanup"} /\ "cleanup" \notin requests /\ old # {}
    BY <1>3 DEF StartCleanup, Request
  <2>2. FileTypes' BY <1>0, <1>1, <2>1 DEF FileTypes
  <2>3. Retried' <=> Retried BY <2>1 DEF Retried
  <2>4. Aging' BY <1>0, <1>1, <2>1, <2>3 DEF Aging, Stopped, Working
  <2>5. Filing' BY <2>1 DEF Filing
  <2>6. Expiring'
    <3> SUFFICES ASSUME ~Retried PROVE Expiring'
      BY <2>3 DEF Expiring
    <3>1. \A w \in Worker : pc[w] = "idle" BY <1>0, <2>1 DEF Aging, Stopped, Working
    <3>2. \A f \in object : ~OnTheWay(f) BY <3>1 DEF OnTheWay
    <3> QED BY <1>0, <1>1, <2>1, <3>2 DEF Filing, Expiring, Undisturbed
  <2> QED BY <2>2, <2>4, <2>5, <2>6 DEF FileInv
<1>4. CASE NextPolicy
  <2>1. UNCHANGED <<object, artifact, old, tomb, phase, requests>> /\ policy # 0
    BY <1>4 DEF NextPolicy
  <2>2. FileTypes' BY <1>0, <1>1, <2>1 DEF FileTypes
  <2>3. Aging' BY <1>0, <1>1, <2>1 DEF Aging, Stopped, Working, Retried
  <2>4. Filing' BY <1>0, <2>1 DEF Filing
  <2>5. Expiring' BY <1>0, <1>1, <2>1 DEF Expiring, Retried, Undisturbed
  <2> QED BY <2>2, <2>3, <2>4, <2>5 DEF FileInv
<1>5. ASSUME NEW f \in File, DeleteObject(f) PROVE FileInv'
  <2>1. /\ UNCHANGED <<artifact, old, phase, requests>> /\ f \in expired
        /\ object' = object \ {f} /\ tomb = {} /\ tomb' = {f}
    BY <1>5 DEF DeleteObject
  <2>2. FileTypes' BY <1>0, <1>1, <2>1 DEF FileTypes
  <2>3. Aging' BY <1>0, <1>1, <2>1 DEF Aging, Stopped, Working, Retried
  <2>4. Filing' BY <1>0, <2>1 DEF Filing
  <2>5. Expiring' BY <1>0, <1>1, <2>1 DEF Expiring, Retried, Undisturbed
  <2> QED BY <2>2, <2>3, <2>4, <2>5 DEF FileInv
<1>6. ASSUME NEW f \in File, MarkDeleted(f) PROVE FileInv'
  <2>1. /\ UNCHANGED <<object, old, phase, requests>> /\ f \in tomb /\ tomb' = {}
        /\ artifact' = [artifact EXCEPT ![f] = "deleted"]
    BY <1>6 DEF MarkDeleted
  <2>2. FileTypes' BY <1>0, <1>1, <2>1 DEF FileTypes
  <2>3. Aging' BY <1>0, <1>1, <2>1 DEF Aging, Stopped, Working, Retried
  <2>4. Filing' BY <1>0, <2>1 DEF Filing
  <2>5. \A g \in File \ {f} : artifact'[g] = artifact[g]
    BY <1>0, <2>1 DEF FileTypes
  <2>6. Expiring'
    <3> SUFFICES ASSUME "cleanup" \in requests, ~Retried PROVE Expiring'
      BY <2>1 DEF Expiring, Retried
    <3>1. /\ \A g \in tomb : g = f /\ g \notin object
          /\ \A g \in File : artifact[g] = "live" => g \in object \/ g \in tomb
          /\ Undisturbed => \A g \in object : artifact[g] = "live"
      BY <1>0, <2>1 DEF Expiring
    <3>2. artifact'[f] = "deleted" BY <1>0, <2>1 DEF FileTypes
    <3>3. object \subseteq File BY <1>0 DEF FileTypes
    <3> QED BY <1>1, <2>1, <2>5, <3>1, <3>2, <3>3 DEF Expiring, Undisturbed
  <2> QED BY <2>2, <2>3, <2>4, <2>6 DEF FileInv
<1>7. CASE DeleteCompletedJobs
  <2>1. /\ UNCHANGED <<object, artifact, old, tomb, requests>> /\ policy = 3
        /\ \A s \in Step : phase'[s] \in {"none", phase[s]}
    BY <1>7 DEF DeleteCompletedJobs
  <2>2. FileTypes' BY <1>0, <1>1, <2>1 DEF FileTypes
  <2>3. Aging' BY <1>0, <1>1, <2>1 DEF Aging, Stopped, Working, Retried
  <2>4. Filing' BY <1>0, <2>1 DEF Filing
  <2>5. Expiring' BY <1>0, <1>1, <2>1 DEF Expiring, Retried, Undisturbed
  <2> QED BY <2>2, <2>3, <2>4, <2>5 DEF FileInv
<1> QED BY <1>2, <1>3, <1>4, <1>5, <1>6, <1>7 DEF Retention

LEMMA RequestsKeepFiles ==
  ASSUME HandInv, FileInv,
         CancelOccurrence \/ CancelJobs \/ \E s \in Step : RetryRow(s) \/ RetryJob(s)
  PROVE  FileInv'
<1>0. FileTypes /\ Aging /\ Filing /\ Expiring BY DEF FileInv
<1>1. /\ UNCHANGED <<object, artifact, old, pc, step, place, policy, expired, tomb, hit>>
      /\ requests \subseteq requests' /\ requests' \ requests \subseteq Requests \ {"age", "cleanup"}
  <2>1. CASE CancelOccurrence BY <2>1 DEF CancelOccurrence, Request
  <2>2. CASE CancelJobs BY <2>2 DEF CancelJobs
  <2>3. ASSUME NEW s \in Step, RetryRow(s) \/ RetryJob(s)
        PROVE  /\ UNCHANGED <<object, artifact, old, pc, step, place, policy,
                              expired, tomb, hit>>
               /\ requests \subseteq requests' /\ requests' \ requests \subseteq Requests \ {"age", "cleanup"}
    BY <2>3 DEF RetryRow, RetryJob, Request, RetryRequest
  <2> QED BY <2>1, <2>2, <2>3
<1>2. FileTypes' BY <1>0, <1>1 DEF FileTypes
<1>3. Filing' BY <1>0, <1>1 DEF Filing, OnTheWay, Undisturbed
<1>4. Retried => Retried' BY <1>1 DEF Retried
<1>5. Expiring' BY <1>0, <1>1, <1>4 DEF Expiring, Undisturbed
<1>6. Aging'
  <2>1. \A w \in Worker : Working(w)' <=> Working(w) BY <1>1 DEF Working
  <2>2. CASE CancelOccurrence \/ CancelJobs
    <3>1. retrying' = retrying /\ \A s \in Step : phase'[s] \in {"closed", phase[s]}
      BY <2>2 DEF CancelOccurrence, CancelJobs, Lease!Revoke
    <3> QED BY <1>0, <1>1, <1>4, <2>1, <3>1 DEF Aging, Stopped
  <2>3. ASSUME NEW s \in Step, RetryRow(s) PROVE Aging'
    <3>1. RetryRequest(s) \in requests' /\ retrying' = retrying \cup {s} /\ phase' = phase
      BY <2>3 DEF RetryRow, Request
    <3> QED BY <1>0, <1>1, <1>4, <2>1, <3>1 DEF Aging, Stopped
  <2>4. ASSUME NEW s \in Step, RetryJob(s) PROVE Aging'
    <3>1. requests' = requests /\ s \in retrying /\ retrying' = retrying \ {s}
      BY <2>4 DEF RetryJob
    <3>2. Retried BY <1>0, <3>1 DEF Aging, Retried, RetryRequest
    <3> QED BY <1>0, <1>1, <1>4, <3>1, <3>2 DEF Aging
  <2> QED BY <2>2, <2>3, <2>4
<1> QED BY <1>2, <1>3, <1>5, <1>6 DEF FileInv

LEMMA NextKeepsFiles == HandInv /\ HandInv' /\ FileInv /\ [Next]_vars => FileInv'
<1> SUFFICES ASSUME HandInv, HandInv', FileInv, [Next]_vars PROVE FileInv' OBVIOUS
<1>1. CASE Next
  <2>1. CASE \E w \in Worker : (\E s \in Step : StartRun(w, s)) \/ RunStep(w)
    BY <2>1, RunsKeepFiles, PutKeeps, RecordKeeps DEF RunStep
  <2>2. CASE \E w \in Worker : StatementFails(w) \/ HandOnFails(w) \/ Crash(w)
    BY <2>2, RunsKeepFiles
  <2>3. CASE Retention BY <2>3, RetentionKeeps
  <2>4. CASE CancelOccurrence \/ CancelJobs \/ \E s \in Step : RetryRow(s) \/ RetryJob(s)
    BY <2>4, RequestsKeepFiles
  <2> QED BY <1>1, <2>1, <2>2, <2>3, <2>4 DEF Next
<1>2. CASE UNCHANGED vars
  BY <1>2 DEF vars, FileInv, FileTypes, Aging, Filing, Expiring, Stopped, Retried, Undisturbed,
              OnTheWay, Working
<1> QED BY <1>1, <1>2

(* What is true of objects and rows before, during and after a cleanup.     *)
THEOREM FileInvariant == Spec => []FileInv
<1>1. HandInv /\ HandInv' /\ FileInv /\ [Next]_vars => FileInv' BY NextKeepsFiles
<1> QED BY <1>1, FilesInitially, HandInvariant, PTL DEF Spec

(* An artifact that is offered for download has its object, or is the one   *)
(* that a cleanup is about to mark (jobHandlers.ts:747-751).                *)
THEOREM RowsPointToObjectsHolds == Spec => []RowsPointToObjects
<1>1. FileInv => RowsPointToObjects
  BY DEF FileInv, Filing, Expiring, Retried, RowsPointToObjects, Regenerating
<1> QED BY <1>1, FileInvariant, PTL

(* Unless a run died on the way, no object outlives the row that the        *)
(* cleanup lists it by (artifactQueries.ts:15-18, jobHandlers.ts:729-756).  *)
THEOREM NothingEscapesRetentionHolds == Spec => []NothingEscapesRetention
<1>1. FileInv => NothingEscapesRetention
  BY DEF FileInv, Filing, Expiring, Retried, Undisturbed, NothingEscapesRetention, Regenerating
<1> QED BY <1>1, FileInvariant, PTL

----------------------------------------------------------------------------
(* Failures that surface.                                                   *)

(* What a run may change before the delivery exists: its stage, its row     *)
(* unless that is completed, and the occurrence while its step is not.      *)
LEMMA MoveSurfaces ==
  ASSUME HandInv, SurfaceInv, NEW w \in Worker, Working(w), pc[w] # "surface",
         NEW stage \in Stages \ {"idle", "surface"}, NEW r \in Rows,
         pc' = [pc EXCEPT ![w] = stage], row' = [row EXCEPT ![step[w]] = r],
         UNCHANGED <<step, phase, done>>, Reported' => Reported,
         Reported' => /\ stage \in {"caught", "caught_terminal"} => r # "completed"
                      /\ row[step[w]] = "completed" => r = "completed",
         \/ occ' = occ
         \/ occ' = "failed"
         \/ /\ occ' \in {"transcribing", "summarizing"}
            /\ Reported' => row[step[w]] # "completed"
  PROVE  SurfaceInv'
<1> DEFINE s0 == step[w]
<1>0. Types /\ RunInv BY DEF HandInv
<1>1. /\ s0 \in Step /\ pc'[w] = stage /\ row'[s0] = r
      /\ \A v \in Worker \ {w} : pc'[v] = pc[v]
      /\ \A s \in Step \ {s0} : row'[s] = row[s]
      /\ \A v \in Worker : step[v] \in Step
  BY <1>0 DEF Types
<1>2. SUFFICES ASSUME Reported' PROVE SurfaceInv'
  BY DEF SurfaceInv
<1>3. Reported /\ Alone BY <1>2 DEF Reported, Alone
<1>4. phase[s0] = "held" BY <1>0, <1>3 DEF RunInv, Holds
<1>5. \A s \in Step : GaveUp(s)' <=> GaveUp(s)
  BY <1>1 DEF GaveUp, At
<1>6. occ' # "canceled" BY <1>3 DEF SurfaceInv
<1>7. ASSUME NEW v \in Worker, pc'[v] \in {"caught", "caught_terminal"}
      PROVE  row'[step[v]] # "completed"
  <2>1. CASE v = w BY <1>1, <1>2, <1>7, <2>1
  <2>2. CASE v # w
    <3>1. /\ pc[v] \in {"caught", "caught_terminal"} /\ row[step[v]] # "completed"
      BY <1>1, <1>3, <1>7, <2>2 DEF SurfaceInv
    <3>2. step[v] # step[w]
      BY <1>3, <2>2, <3>1, NoOther DEF Working
    <3> QED BY <1>1, <3>1, <3>2
  <2> QED BY <2>1, <2>2
<1>8. ASSUME phase["send_recap"] = "none"
      PROVE  /\ GenerateRecap \notin done
             /\ phase[GenerateRecap] = "none" =>
                   /\ row'[GenerateRecap] # "completed"
                   /\ \/ phase[Transcribe] \in {"open", "held"}
                      \/ GaveUp(Transcribe)' \/ occ' = "failed"
             /\ phase[GenerateRecap] # "none" => row'[Transcribe] = "completed"
             /\ phase[GenerateRecap] = "closed" => GaveUp(GenerateRecap)' \/ occ' = "failed"
  <2>0. /\ GenerateRecap \notin done
        /\ phase[GenerateRecap] = "none" =>
              /\ row[GenerateRecap] # "completed"
              /\ \/ phase[Transcribe] \in {"open", "held"}
                 \/ GaveUp(Transcribe) \/ occ = "failed"
        /\ phase[GenerateRecap] # "none" => row[Transcribe] = "completed"
        /\ phase[GenerateRecap] = "closed" => GaveUp(GenerateRecap) \/ occ = "failed"
    BY <1>3, <1>8 DEF SurfaceInv
  <2>1. CASE s0 = Transcribe
    <3>1. /\ row'[GenerateRecap] = row[GenerateRecap]
          /\ row[Transcribe] = "completed" => row'[Transcribe] = "completed"
      BY <1>1, <1>2, <2>1
    <3>2. phase[Transcribe] = "held" BY <1>4, <2>1
    <3>3. phase[GenerateRecap] = "closed" => GaveUp(GenerateRecap)' \/ occ' = "failed"
      BY <1>2, <1>5, <2>0, <2>1
    <3> QED BY <2>0, <3>1, <3>2, <3>3
  <2>2. CASE s0 = GenerateRecap
    BY <1>1, <1>4, <2>0, <2>2
  <2> QED BY <1>1, <2>1, <2>2
<1> QED BY <1>6, <1>7, <1>8 DEF SurfaceInv

(* The steps that this covers.                                              *)
LEMMA MovesSurface ==
  ASSUME HandInv, SurfaceInv, NEW w \in Worker,
         \/ EnsureRow(w) \/ NoApiKey(w) \/ ReadSources(w) \/ ReadTranscript(w) \/ Refuse(w)
         \/ MarkOccurrence(w) \/ MarkRunning(w)
         \/ (\E f \in Recorded : TranscribeChunk(w, f)) \/ TranscribedAll(w)
         \/ Summarize(w) \/ PutFile(w) \/ RecordFile(w) \/ MarkCompleted(w)
         \/ Hint(w) \/ Caught(w) \/ GiveUp(w) \/ StatementFails(w) \/ HandOnFails(w)
  PROVE  SurfaceInv'
<1> DEFINE Moves(stage, r) ==
      /\ Working(w) /\ pc[w] # "surface" /\ stage \in Stages \ {"idle", "surface"} /\ r \in Rows
      /\ pc' = [pc EXCEPT ![w] = stage] /\ row' = [row EXCEPT ![step[w]] = r]
      /\ UNCHANGED <<step, phase, done>> /\ (Reported' => Reported)
      /\ Reported' => /\ stage \in {"caught", "caught_terminal"} => r # "completed"
                      /\ row[step[w]] = "completed" => r = "completed"
      /\ \/ occ' = occ
         \/ occ' = "failed"
         \/ /\ occ' \in {"transcribing", "summarizing"}
            /\ Reported' => row[step[w]] # "completed"
<1>1. ASSUME NEW stage, NEW r, Moves(stage, r) PROVE SurfaceInv'
  BY <1>1, MoveSurfaces
<1>2. /\ pc \in [Worker -> Stages] /\ step[w] \in Step /\ row[step[w]] \in Rows
      /\ row = [row EXCEPT ![step[w]] = row[step[w]]]
      /\ pc = [pc EXCEPT ![w] = pc[w]]
  BY DEF HandInv, Types
<1>3. Reported /\ pc[w] \in {"inputs", "refuse", "occurrence", "running", "chunks", "recap",
                             "put", "record", "completed", "give_up", "caught", "caught_terminal"}
        => row[step[w]] # "completed"
  BY DEF HandInv, RunInv, SurfaceInv, Reported, Alone, Working
<1> USE DEF At, Goto, Throw, SetRow, Working
<1>4. ASSUME EnsureRow(w)
      PROVE  \/ Moves("again", row[step[w]]) \/ Moves("inputs", row[step[w]])
        \/ Moves("inputs", "pending")
  BY <1>2, <1>3, <1>4 DEF EnsureRow, Reported, Stages, Rows
<1>5. ASSUME NoApiKey(w)
      PROVE  Moves("refuse", row[step[w]])
  BY <1>2, <1>3, <1>5 DEF NoApiKey, Reported, Stages, Rows
<1>6. ASSUME ReadSources(w)
      PROVE  Moves("refuse", row[step[w]]) \/ Moves("occurrence", row[step[w]])
  BY <1>2, <1>3, <1>6 DEF ReadSources, Reported, Stages, Rows
<1>7. ASSUME ReadTranscript(w)
      PROVE  Moves("fail_terminal", row[step[w]]) \/ Moves("refuse", row[step[w]])
              \/ Moves("occurrence", row[step[w]])
  BY <1>2, <1>3, <1>7 DEF ReadTranscript, Reported, Stages, Rows
<1>8. ASSUME Refuse(w)
      PROVE  Moves("fail_terminal", "failed_terminal")
  BY <1>2, <1>3, <1>8 DEF Refuse, Reported, Stages, Rows
<1>9. ASSUME MarkOccurrence(w)
      PROVE  Moves("running", row[step[w]])
  BY <1>2, <1>3, <1>9 DEF MarkOccurrence, Reported, Statuses, Stages, Rows
<1>10. ASSUME MarkRunning(w)
      PROVE  Moves("chunks", "running") \/ Moves("recap", "running")
  BY <1>2, <1>3, <1>10 DEF MarkRunning, Reported, Stages, Rows
<1>11. ASSUME \E f \in Recorded : TranscribeChunk(w, f)
      PROVE  Moves("chunks", row[step[w]]) \/ Moves("caught", row[step[w]])
              \/ Moves("caught_terminal", row[step[w]])
  BY <1>2, <1>3, <1>11 DEF TranscribeChunk, Reported, Stages, Rows
<1>12. ASSUME TranscribedAll(w)
      PROVE  Moves("put", row[step[w]])
  BY <1>2, <1>3, <1>12 DEF TranscribedAll, Reported, Stages, Rows
<1>13. ASSUME Summarize(w)
      PROVE  Moves("put", row[step[w]]) \/ Moves("caught", row[step[w]])
              \/ Moves("caught_terminal", row[step[w]])
  BY <1>2, <1>3, <1>13 DEF Summarize, Reported, Stages, Rows
<1>14. ASSUME PutFile(w)
      PROVE  Moves("put", row[step[w]]) \/ Moves("record", row[step[w]])
  BY <1>2, <1>3, <1>14 DEF PutFile, Reported, Stages, Rows, Advance
<1>15. ASSUME RecordFile(w)
      PROVE  Moves("record", row[step[w]]) \/ Moves("completed", row[step[w]])
  BY <1>2, <1>3, <1>15 DEF RecordFile, Reported, Stages, Rows, Advance
<1>16. ASSUME MarkCompleted(w)
      PROVE  Moves("hand_on", "completed")
  BY <1>2, <1>3, <1>16 DEF MarkCompleted, Reported, Stages, Rows
<1>17. ASSUME Hint(w)
      PROVE  Moves("complete", row[step[w]])
  BY <1>2, <1>3, <1>17 DEF Hint, Reported, Stages, Rows
<1>18. ASSUME Caught(w)
      PROVE  Moves("fail", "failed_retryable") \/ Moves("give_up", "failed_terminal")
  BY <1>2, <1>3, <1>18 DEF Caught, Reported, Stages, Rows
<1>19. ASSUME GiveUp(w)
      PROVE  Moves("fail_terminal", row[step[w]])
  BY <1>2, <1>3, <1>19 DEF GiveUp, Reported, Stages, Rows
<1>20. ASSUME StatementFails(w)
      PROVE  Moves("caught", row[step[w]]) \/ Moves("fail", row[step[w]])
  <2>1. Reported' => Reported BY <1>20 DEF StatementFails, Fault, Reported
  <2> QED BY <1>2, <1>3, <1>20, <2>1 DEF StatementFails, Stages, Guarded, Unguarded
<1>21. ASSUME HandOnFails(w)
      PROVE  SurfaceInv'
  <2>1. ~Reported' BY <1>21 DEF HandOnFails, Fault, Reported
  <2> QED BY <2>1 DEF SurfaceInv
<1> HIDE DEF Moves
<1> QED
  BY <1>1, <1>4, <1>5, <1>6, <1>7, <1>8, <1>9, <1>10, <1>11, <1>12, <1>13,
     <1>14, <1>15, <1>16, <1>17, <1>18, <1>19, <1>20, <1>21

(* A hand-over creates the next job behind a completed step.                *)
LEMMA HandOnSurfaces ==
  ASSUME HandInv, SurfaceInv, NEW w \in Worker, HandOn(w)
  PROVE  SurfaceInv'
<1>0. Types /\ RunInv BY DEF HandInv
<1>1. SUFFICES ASSUME Reported' PROVE SurfaceInv'
  BY DEF SurfaceInv
<1>2. /\ Reported /\ Alone /\ row' = row /\ occ' = occ /\ done' = done /\ step' = step
      /\ pc[w] \in {"hand_on", "again"}
      /\ pc' = [pc EXCEPT ![w] = IF At(w, "hand_on") THEN "hint" ELSE "complete"]
  BY <1>1 DEF HandOn, Goto, Reported, Alone
<1>3. /\ step[w] \in Step /\ row[step[w]] = "completed" /\ phase[step[w]] = "held"
      /\ pc'[w] \in {"hint", "complete"} /\ \A v \in Worker \ {w} : pc'[v] = pc[v]
  BY <1>0, <1>2 DEF Types, RunInv, Working, Holds
<1>4. \A s \in Step : GaveUp(s)' <=> GaveUp(s) BY <1>2, <1>3 DEF GaveUp, At
<1>5. \A v \in Worker : pc'[v] \in {"caught", "caught_terminal"} => row'[step'[v]] # "completed"
  BY <1>2, <1>3 DEF SurfaceInv
<1>6. CASE phase' = phase
  BY <1>2, <1>4, <1>5, <1>6 DEF SurfaceInv
<1>7. CASE phase' # phase /\ step[w] = GenerateRecap
  <2>1. phase' = [phase EXCEPT !["send_recap"] = "open"]
    BY <1>2, <1>7 DEF HandOn, Lease!Offer, NextJob
  <2>2. phase'["send_recap"] # "none" BY <1>0, <2>1 DEF Types
  <2> QED BY <1>2, <1>5, <2>2 DEF SurfaceInv
<1>8. CASE phase' # phase /\ step[w] = Transcribe
  <2>1. phase' = [phase EXCEPT ![GenerateRecap] = "open"]
    BY <1>2, <1>8 DEF HandOn, Lease!Offer, NextJob
  <2>2. phase'[GenerateRecap] = "open" /\ phase'["send_recap"] = phase["send_recap"]
    BY <1>0, <2>1 DEF Types
  <2> QED BY <1>2, <1>3, <1>5, <1>8, <2>2 DEF SurfaceInv
<1> QED BY <1>3, <1>6, <1>7, <1>8

(* A run that ends: completed, it has handed on; otherwise its job is open  *)
(* again, or the run is the one that reports.                               *)
LEMMA EndsSurface ==
  ASSUME HandInv, SurfaceInv, NEW w \in Worker,
         CompleteJob(w) \/ FailJob(w) \/ Surface(w) \/ Crash(w)
  PROVE  SurfaceInv'
<1>0. Types /\ RunInv BY DEF HandInv
<1>1. SUFFICES ASSUME Reported' PROVE SurfaceInv'
  BY DEF SurfaceInv
<1>2. /\ Working(w) /\ row' = row /\ requests' = requests /\ hit \subseteq hit'
  BY DEF CompleteJob, FailJob, Surface, Crash, At, Working, Fault
<1>3. Reported /\ Alone BY <1>1, <1>2 DEF Reported, Alone
<1>4. /\ step[w] \in Step /\ (Holds(w) <=> pc[w] # "surface")
      /\ phase \in [Job -> {"none", "open", "held", "closed"}]
      /\ Holds(w) => phase[step[w]] = "held"
  BY <1>0, <1>2, <1>3 DEF Types, RunInv, Holds
<1>5. /\ pc' = [pc EXCEPT ![w] = "idle"] \/ pc' = [pc EXCEPT ![w] = "surface"]
      /\ \A v \in Worker \ {w} : pc'[v] = pc[v] /\ step'[v] = step[v]
      /\ pc'[w] \in {"idle", "surface"}
  BY <1>0 DEF Types, CompleteJob, FailJob, Surface, Crash, Rest, Goto
<1>6. \A v \in Worker : pc'[v] \in {"caught", "caught_terminal"} => row'[step'[v]] # "completed"
  BY <1>2, <1>3, <1>5 DEF SurfaceInv
<1>7. CASE CompleteJob(w)
  <2>1. pc[w] = "complete" /\ Holds(w) BY <1>4, <1>7 DEF CompleteJob, At
  <2>2. NextCreated(step[w]) BY <1>0, <1>2, <1>3, <2>1 DEF RunInv
  <2>3. /\ phase' = [phase EXCEPT ![step[w]] = "closed"] /\ pc'[w] = "idle"
        /\ occ' = occ /\ done' = done \cup {step[w]}
    BY <1>0, <1>4, <1>7, <2>1 DEF CompleteJob, Lease!Settle, Rest, Types
  <2>4. \A s \in Step : GaveUp(s)' <=> GaveUp(s)
    BY <1>5, <2>1, <2>3 DEF GaveUp, At
  <2>5. CASE step[w] = GenerateRecap
    <3>1. phase'["send_recap"] # "none" BY <1>4, <2>2, <2>3, <2>5 DEF NextCreated, NextJob
    <3> QED BY <1>3, <1>6, <2>3, <3>1 DEF SurfaceInv
  <2>6. CASE step[w] = Transcribe
    <3>1. phase'["send_recap"] = phase["send_recap"] /\ phase'[GenerateRecap] = phase[GenerateRecap]
      BY <1>4, <2>3, <2>6
    <3>2. phase[GenerateRecap] # "none" \/ row[GenerateRecap] = "completed"
      BY <2>2, <2>6 DEF NextCreated, NextJob
    <3> QED BY <1>2, <1>3, <1>6, <2>3, <2>4, <2>6, <3>1, <3>2 DEF SurfaceInv
  <2> QED BY <1>4, <2>5, <2>6
<1>8. CASE FailJob(w)
  <2>1. Holds(w) BY <1>4, <1>8 DEF FailJob
  <2>2. /\ occ' = occ /\ done' = done /\ pc[w] # "surface"
        /\ \/ phase' = [phase EXCEPT ![step[w]] = "open"] /\ pc'[w] = "idle"
           \/ /\ phase' = [phase EXCEPT ![step[w]] = "closed"]
              /\ pc'[w] = "surface" /\ step' = step
    BY <1>0, <1>4, <1>8, <2>1 DEF FailJob, Lease!Settle, Rest, Goto, Types
  <2>3. \A s \in Step : GaveUp(s) => GaveUp(s)'
    BY <1>5, <2>2 DEF GaveUp, At
  <2>4. \A s \in Step : s = step[w] /\ pc'[w] = "surface" => GaveUp(s)'
    BY <2>2 DEF GaveUp, At
  <2>5. /\ phase'["send_recap"] = phase["send_recap"]
        /\ \A s \in Step \ {step[w]} : phase'[s] = phase[s]
    BY <1>4, <2>2
  <2>6. \/ phase'[step[w]] = "open"
        \/ phase'[step[w]] = "closed" /\ \A s \in Step : s = step[w] => GaveUp(s)'
    BY <1>4, <2>2, <2>4
  <2>7. phase[step[w]] = "held" BY <1>4, <2>1
  <2>8. CASE step[w] = GenerateRecap
    BY <1>2, <1>3, <1>6, <2>2, <2>3, <2>5, <2>6, <2>7, <2>8 DEF SurfaceInv
  <2>9. CASE step[w] = Transcribe
    BY <1>2, <1>3, <1>6, <2>2, <2>3, <2>5, <2>6, <2>7, <2>9 DEF SurfaceInv
  <2> QED BY <1>4, <2>8, <2>9
<1>9. CASE Surface(w)
  <2>1. occ' = "failed" /\ phase' = phase /\ done' = done
    BY <1>3, <1>9 DEF Surface, Lease!Forget, SurfaceInv
  <2> QED BY <1>2, <1>3, <1>6, <2>1 DEF SurfaceInv
<1>10. CASE Crash(w)
  <2>1. pc[w] # "surface" BY <1>1, <1>10 DEF Crash, Fault, At, Reported
  <2>2. occ' = occ /\ phase' = phase /\ done' = done
    BY <1>10 DEF Crash, Lease!Forget
  <2>3. \A s \in Step : GaveUp(s) => GaveUp(s)'
    BY <1>5, <2>1 DEF GaveUp, At
  <2> QED BY <1>2, <1>3, <1>6, <2>2, <2>3 DEF SurfaceInv
<1> QED BY <1>7, <1>8, <1>9, <1>10

(* A run starts: its job is held.                                           *)
LEMMA StartSurfaces ==
  ASSUME HandInv, SurfaceInv, NEW w \in Worker, NEW s \in Step, StartRun(w, s)
  PROVE  SurfaceInv'
<1>0. Types BY DEF HandInv
<1>1. SUFFICES ASSUME Reported' PROVE SurfaceInv'
  BY DEF SurfaceInv
<1>2. /\ row' = row /\ requests' = requests /\ hit \subseteq hit' /\ occ' = occ /\ done' = done
      /\ pc[w] = "idle" /\ pc' = [pc EXCEPT ![w] = "ensure"] /\ step' = [step EXCEPT ![w] = s]
      /\ phase[s] \in {"open", "held"} /\ phase' = [phase EXCEPT ![s] = "held"]
  BY DEF StartRun, Fault, Lease!Grant, Working
<1>3. Reported BY <1>1, <1>2 DEF Reported
<1>4. /\ pc'[w] = "ensure" /\ \A v \in Worker \ {w} : pc'[v] = pc[v] /\ step'[v] = step[v]
      /\ phase'[s] = "held" /\ \A t \in Job \ {s} : phase'[t] = phase[t]
  BY <1>0, <1>2 DEF Types
<1>5. \A v \in Worker : pc'[v] \in {"caught", "caught_terminal"} => row'[step'[v]] # "completed"
  BY <1>2, <1>3, <1>4 DEF SurfaceInv
<1>6. \A t \in Step : GaveUp(t) => GaveUp(t)' BY <1>2, <1>4 DEF GaveUp, At
<1>7. phase'["send_recap"] = phase["send_recap"] BY <1>4
<1>8. CASE s = GenerateRecap
  BY <1>2, <1>3, <1>4, <1>5, <1>6, <1>7, <1>8 DEF SurfaceInv
<1>9. CASE s = Transcribe
  BY <1>2, <1>3, <1>4, <1>5, <1>6, <1>7, <1>9 DEF SurfaceInv
<1> QED BY <1>8, <1>9

(* Retention and an admin's retries: a completed job is forgotten once it   *)
(* has handed on; a retried transcription runs again.                       *)
LEMMA RestSurfaces ==
  ASSUME HandInv, SurfaceInv, \A s \in retrying : RetryRequest(s) \in requests,
         \/ Retention \/ CancelOccurrence \/ CancelJobs \/ UNCHANGED vars
         \/ \E s \in Step : RetryRow(s) \/ RetryJob(s)
  PROVE  SurfaceInv'
<1>0. Types /\ DoneInv BY DEF HandInv
<1>1. SUFFICES ASSUME Reported' PROVE SurfaceInv'
  BY DEF SurfaceInv
<1>2. ASSUME UNCHANGED <<row, occ, phase, done, pc, step, hit>>, requests \subseteq requests'
      PROVE  SurfaceInv'
  <2>1. Reported BY <1>1, <1>2 DEF Reported
  <2>2. \A s \in Step : GaveUp(s)' <=> GaveUp(s) BY <1>2 DEF GaveUp, At
  <2> QED BY <1>2, <2>1, <2>2 DEF SurfaceInv
<1>3. CASE Age \/ StartCleanup \/ NextPolicy \/ \E f \in File : DeleteObject(f) \/ MarkDeleted(f)
  <2>1. UNCHANGED <<row, occ, phase, done, pc, step, hit>> /\ requests \subseteq requests'
    BY <1>3 DEF Age, StartCleanup, NextPolicy, DeleteObject, MarkDeleted, Request
  <2> QED BY <1>2, <2>1
<1>4. CASE UNCHANGED vars BY <1>2, <1>4 DEF vars
<1>5. CASE CancelOccurrence BY <1>1, <1>5 DEF CancelOccurrence, Request, Reported
<1>6. CASE CancelJobs BY <1>0, <1>1, <1>6 DEF CancelJobs, Reported, Types
<1>7. CASE DeleteCompletedJobs
  <2>1. /\ UNCHANGED <<row, occ, pc, step, hit, requests>> /\ done' = {}
        /\ \A t \in Job : phase'[t] = IF t \in done THEN "none" ELSE phase[t]
    BY <1>7 DEF DeleteCompletedJobs
  <2>2. Reported /\ Alone BY <1>1, <2>1 DEF Reported, Alone
  <2>3. \A s \in done : s \in Step /\ phase[s] = "closed" BY <1>0, <2>2 DEF DoneInv
  <2>4. \A s \in Step : GaveUp(s)' <=> GaveUp(s) BY <2>1 DEF GaveUp, At
  <2>5. phase'["send_recap"] = phase["send_recap"] BY <2>1, <2>3
  <2>6. GenerateRecap \notin done => phase'[GenerateRecap] = phase[GenerateRecap] BY <2>1
  <2>7. phase[Transcribe] \in {"open", "held"} => phase'[Transcribe] = phase[Transcribe]
    BY <2>1, <2>3
  <2> QED BY <2>1, <2>2, <2>4, <2>5, <2>6, <2>7 DEF SurfaceInv
<1>8. ASSUME NEW s \in Step, RetryRow(s) PROVE SurfaceInv'
  <2>1. /\ UNCHANGED <<occ, phase, done, pc, step, hit>> /\ requests \subseteq requests'
        /\ row' = [row EXCEPT ![s] = IF @ \in {"failed_retryable", "failed_terminal"}
                                     THEN "pending" ELSE @]
    BY <1>8 DEF RetryRow, Request
  <2>2. Reported BY <1>1, <2>1 DEF Reported
  <2>3. \A t \in Step : row'[t] = "completed" <=> row[t] = "completed"
    BY <1>0, <2>1 DEF Types
  <2>4. \A t \in Step : GaveUp(t)' <=> GaveUp(t) BY <2>1 DEF GaveUp, At
  <2>5. \A v \in Worker : step[v] \in Step BY <1>0 DEF Types
  <2> QED BY <2>1, <2>2, <2>3, <2>4, <2>5 DEF SurfaceInv
<1>9. ASSUME NEW s \in Step, RetryJob(s) PROVE SurfaceInv'
  <2>1. /\ UNCHANGED <<row, occ, pc, step, hit, requests>> /\ s \in retrying
    BY <1>9 DEF RetryJob
  <2>2. Reported BY <1>1, <2>1 DEF Reported
  <2>3. s = Transcribe BY <2>1, <2>2 DEF Reported, RetryRequest
  <2>4. CASE phase' = phase /\ done' = done
    <3>1. \A t \in Step : GaveUp(t)' <=> GaveUp(t) BY <2>1 DEF GaveUp, At
    <3> QED BY <2>1, <2>2, <2>4, <3>1 DEF SurfaceInv
  <2>5. CASE phase' = [phase EXCEPT ![s] = "open"] /\ done' = done \ {s}
    <3>1. \A t \in Step : GaveUp(t)' <=> GaveUp(t) BY <2>1 DEF GaveUp, At
    <3>2. /\ phase'[Transcribe] = "open" /\ phase'["send_recap"] = phase["send_recap"]
          /\ phase'[GenerateRecap] = phase[GenerateRecap]
      BY <1>0, <2>3, <2>5 DEF Types
    <3> QED BY <2>1, <2>2, <2>3, <2>5, <3>1, <3>2 DEF SurfaceInv
  <2> QED BY <1>9, <2>4, <2>5 DEF RetryJob, Lease!Offer
<1> QED BY <1>3, <1>4, <1>5, <1>6, <1>7, <1>8, <1>9 DEF Retention

LEMMA NextSurfaces ==
  ASSUME HandInv, Aging, SurfaceInv, [Next]_vars
  PROVE  SurfaceInv'
<1>0. \A s \in retrying : RetryRequest(s) \in requests BY DEF Aging
<1>1. ASSUME NEW w \in Worker, RunStep(w) PROVE SurfaceInv'
  BY <1>1, MovesSurface, HandOnSurfaces, EndsSurface DEF RunStep
<1>2. ASSUME NEW w \in Worker, StatementFails(w) \/ HandOnFails(w) \/ Crash(w)
      PROVE  SurfaceInv'
  BY <1>2, MovesSurface, EndsSurface
<1> QED BY <1>0, <1>1, <1>2, StartSurfaces, RestSurfaces DEF Next

(* While the report can be trusted, a meeting whose next step was not       *)
(* created has a job or a run at work on it, or it shows as failed.         *)
THEOREM SurfaceInvariant == Spec => []SurfaceInv
<1>1. Init => SurfaceInv BY DEF Init, SurfaceInv
<1>2. HandInv /\ FileInv /\ SurfaceInv /\ [Next]_vars => SurfaceInv'
  BY NextSurfaces DEF FileInv
<1> QED BY <1>1, <1>2, HandInvariant, FileInvariant, PTL DEF Spec

(* A meeting whose processing stopped short of the delivery shows as        *)
(* failed, unless the report itself was lost or an admin started the recap  *)
(* ahead of its transcript: with every job over and no run left, a report   *)
(* is not on its way, so it was made.                                       *)
THEOREM FailuresSurfaceHolds == Spec => []FailuresSurface
<1>1. HandInv /\ SurfaceInv => FailuresSurface
  <2> SUFFICES ASSUME HandInv, SurfaceInv, Reported, Stopped, ~NextCreated(GenerateRecap)
               PROVE  occ = "failed"
    BY DEF FailuresSurface, Reported
  <2>1. phase["send_recap"] = "none" BY DEF NextCreated, NextJob
  <2>2. \A s \in Step : ~GaveUp(s) BY DEF Stopped, GaveUp, At, Working
  <2>3. /\ phase \in [Job -> {"none", "open", "held", "closed"}]
        /\ \A s \in Step : phase[s] \notin {"open", "held"}
    BY DEF HandInv, Types, Stopped
  <2>4. phase[GenerateRecap] \in {"none", "closed"} BY <2>3
  <2>5. /\ phase[GenerateRecap] = "none" =>
              phase[Transcribe] \in {"open", "held"} \/ GaveUp(Transcribe) \/ occ = "failed"
        /\ phase[GenerateRecap] = "closed" => GaveUp(GenerateRecap) \/ occ = "failed"
    BY <2>1 DEF SurfaceInv
  <2> QED BY <2>2, <2>3, <2>4, <2>5
<1> QED BY <1>1, HandInvariant, SurfaceInvariant, PTL

----------------------------------------------------------------------------
(* The rest of the types.                                                   *)

OtherTypes ==
    /\ old \subseteq File /\ occ \in Statuses
    /\ attempts \in [Job -> 0..MaxAttempts]
    /\ todo \in [Worker -> SUBSET Recorded]
    /\ policy \in 0..3 /\ expired \subseteq File
    /\ retrying \subseteq Step /\ canceling \in BOOLEAN
    /\ hit \subseteq FaultKinds /\ faults \in 0..MaxDisturbances
    /\ requests \subseteq Requests

(* Every fault has room.                                                    *)
LEMMA FaultTypes ==
  ASSUME OtherTypes, NEW kind, Fault(kind)
  PROVE  hit' \subseteq FaultKinds /\ faults' \in 0..MaxDisturbances
<1>1. IsFiniteSet(requests \ {"age"}) BY FS_Subset DEF OtherTypes
<1>2. Cardinality(requests \ {"age"}) \in Nat BY <1>1, FS_CardinalityType
<1> QED BY <1>2 DEF Fault, Disturbable, OtherTypes

LEMMA OtherTypesKept == HandInv /\ FileInv /\ OtherTypes /\ [Next]_vars => OtherTypes'
<1> SUFFICES ASSUME HandInv, FileInv, OtherTypes, [Next]_vars PROVE OtherTypes' OBVIOUS
<1>0. step \in [Worker -> Step] /\ object \subseteq File
  BY DEF HandInv, Types, FileInv, FileTypes
<1>1. ASSUME UNCHANGED <<old, attempts, todo, policy, expired, retrying, canceling, hit, faults,
                         requests>>, occ' \in Statuses
      PROVE  OtherTypes'
  BY <1>1 DEF OtherTypes
<1>2. ASSUME UNCHANGED <<old, occ, attempts, policy, expired, retrying, canceling, requests>>,
             todo' \in [Worker -> SUBSET Recorded], UNCHANGED faultVars \/ \E kind : Fault(kind)
      PROVE  OtherTypes'
  BY <1>2, FaultTypes DEF OtherTypes
<1>3. /\ todo \in [Worker -> SUBSET Recorded] /\ occ \in Statuses
      /\ \A w \in Worker : [todo EXCEPT ![w] = {}] \in [Worker -> SUBSET Recorded]
      /\ \A w \in Worker : [todo EXCEPT ![w] = Sources] \in [Worker -> SUBSET Recorded]
      /\ \A w \in Worker, f \in Recorded : [todo EXCEPT ![w] = @ \ {f}] \in [Worker -> SUBSET Recorded]
  BY DEF OtherTypes, Sources, LiveFiles, Recorded
<1> USE DEF At, Goto, Throw, Rest
<1>4. ASSUME NEW w \in Worker, RunStep(w) PROVE OtherTypes'
  <2>1. CASE EnsureRow(w)
    BY <1>1, <1>3, <2>1 DEF EnsureRow
  <2>2. CASE NoApiKey(w)
    BY <1>1, <1>3, <2>2 DEF NoApiKey
  <2>3. CASE ReadSources(w)
    BY <1>2, <1>3, <2>3 DEF ReadSources
  <2>4. CASE ReadTranscript(w)
    BY <1>1, <1>3, <2>4 DEF ReadTranscript
  <2>5. CASE Refuse(w)
    BY <1>2, <1>3, <2>5 DEF Refuse
  <2>6. CASE MarkOccurrence(w)
    BY <1>1, <1>3, <2>6 DEF MarkOccurrence, Statuses
  <2>7. CASE MarkRunning(w)
    BY <1>1, <1>3, <2>7 DEF MarkRunning
  <2>8. CASE \E f \in Recorded : TranscribeChunk(w, f)
    BY <1>2, <1>3, <2>8 DEF TranscribeChunk
  <2>9. CASE TranscribedAll(w)
    BY <1>1, <1>3, <2>9 DEF TranscribedAll
  <2>10. CASE Summarize(w)
    BY <1>2, <1>3, <2>10 DEF Summarize
  <2>11. CASE PutFile(w)
    BY <1>1, <1>3, <2>11 DEF PutFile, Advance
  <2>12. CASE RecordFile(w)
    BY <1>1, <1>3, <2>12 DEF RecordFile, Advance
  <2>13. CASE MarkCompleted(w)
    BY <1>1, <1>3, <2>13 DEF MarkCompleted
  <2>14. CASE HandOn(w)
    BY <1>1, <1>3, <2>14 DEF HandOn, Lease!Offer
  <2>15. CASE Hint(w)
    BY <1>1, <1>3, <2>15 DEF Hint
  <2>16. CASE Caught(w)
    BY <1>1, <1>3, <2>16 DEF Caught
  <2>17. CASE GiveUp(w)
    BY <1>1, <1>3, <2>17 DEF GiveUp, Statuses
  <2>18. CASE CompleteJob(w)
    BY <1>2, <1>3, <2>18 DEF CompleteJob
  <2>19. CASE FailJob(w)
    BY <1>2, <1>3, <2>19 DEF FailJob, Lease!Settle
  <2>20. CASE Surface(w)
    <3>1. /\ UNCHANGED <<old, attempts, policy, expired, retrying, canceling, hit, faults, requests>>
          /\ occ' \in Statuses /\ todo' = [todo EXCEPT ![w] = {}]
      BY <1>3, <2>20 DEF Surface, Statuses
    <3> QED BY <1>3, <3>1 DEF OtherTypes
  <2> QED
    BY <1>4, <2>1, <2>2, <2>3, <2>4, <2>5, <2>6, <2>7, <2>8, <2>9, <2>10, <2>11,
       <2>12, <2>13, <2>14, <2>15, <2>16, <2>17, <2>18, <2>19, <2>20
       DEF RunStep
<1>5. ASSUME NEW w \in Worker, StatementFails(w) \/ HandOnFails(w) \/ Crash(w)
     PROVE OtherTypes'
  BY <1>2, <1>3, <1>5 DEF StatementFails, HandOnFails, Crash
<1>6. ASSUME NEW w \in Worker, NEW s \in Step, StartRun(w, s) PROVE OtherTypes'
  <2>1. attempts' \in [Job -> 0..MaxAttempts]
    BY <1>6 DEF OtherTypes, StartRun
  <2>2. hit' \subseteq FaultKinds /\ faults' \in 0..MaxDisturbances
    BY <1>6, FaultTypes DEF OtherTypes, StartRun
  <2> QED BY <1>6, <2>1, <2>2 DEF OtherTypes, StartRun
<1>7. CASE Retention
  <2>1. LiveFiles(old \cap Kind(1)) \subseteq File /\ \A p : LiveFiles(old \cap Kind(p)) \subseteq File
    BY DEF LiveFiles, OtherTypes
  <2>2. CASE Age BY <2>2 DEF Age, Request, OtherTypes
  <2>3. CASE StartCleanup BY <2>1, <2>3 DEF StartCleanup, Request, ListExpired, OtherTypes
  <2>4. CASE NextPolicy
    <3>1. policy + 1 \in 0..3 BY <2>4 DEF NextPolicy, OtherTypes
    <3> QED BY <2>1, <2>4, <3>1 DEF NextPolicy, ListExpired, OtherTypes
  <2>5. CASE \E f \in File : DeleteObject(f) \/ MarkDeleted(f)
    BY <2>5 DEF DeleteObject, MarkDeleted, OtherTypes
  <2>6. CASE DeleteCompletedJobs
    <3>1. attempts' \in [Job -> 0..MaxAttempts] BY <2>6 DEF DeleteCompletedJobs, OtherTypes
    <3> QED BY <2>6, <3>1 DEF DeleteCompletedJobs, OtherTypes
  <2> QED BY <1>7, <2>2, <2>3, <2>4, <2>5, <2>6 DEF Retention
<1>8. CASE CancelOccurrence BY <1>8 DEF CancelOccurrence, Request, OtherTypes, Statuses
<1>9. CASE CancelJobs BY <1>9 DEF CancelJobs, OtherTypes
<1>10. ASSUME NEW s \in Step, RetryRow(s) PROVE OtherTypes'
  BY <1>10 DEF RetryRow, Request, OtherTypes
<1>11. ASSUME NEW s \in Step, RetryJob(s) PROVE OtherTypes'
  <2>1. attempts' \in [Job -> 0..MaxAttempts] BY <1>11 DEF RetryJob, OtherTypes
  <2> QED BY <1>11, <2>1 DEF RetryJob, OtherTypes
<1>12. CASE UNCHANGED vars BY <1>12 DEF vars, OtherTypes
<1> QED BY <1>4, <1>5, <1>6, <1>7, <1>8, <1>9, <1>10, <1>11, <1>12 DEF Next

(* The inductive invariant: types, what every run knows of its job, its row *)
(* and the next job, and what is true of objects and their rows before,     *)
(* during and after a cleanup.                                              *)
THEOREM Invariant == Spec => []IInv
<1>1. Init => OtherTypes
  <2> SUFFICES ASSUME Init PROVE OtherTypes OBVIOUS
  <2>2. 0 \in 0..MaxAttempts /\ 0 \in 0..MaxDisturbances
    BY PipelineAssumption
  <2>3. attempts \in [Job -> 0..MaxAttempts] BY <2>2 DEF Init
  <2>4. todo \in [Worker -> SUBSET Recorded] BY DEF Init
  <2>5. occ \in Statuses BY DEF Init, Statuses
  <2>6. expired \subseteq File /\ old \subseteq File BY DEF Init
  <2>7. policy \in 0..3 BY DEF Init
  <2>8. canceling \in BOOLEAN BY Zenon DEF Init
  <2>9. faults \in 0..MaxDisturbances BY <2>2 DEF Init
  <2>10. retrying \subseteq Step /\ hit \subseteq FaultKinds
         /\ requests \subseteq Requests
    BY DEF Init
  <2> QED BY <2>3, <2>4, <2>5, <2>6, <2>7, <2>8, <2>9, <2>10
          DEF OtherTypes
<1>2. Types /\ FileTypes /\ OtherTypes => TypeOK
  <2> SUFFICES ASSUME Types, FileTypes, OtherTypes PROVE TypeOK OBVIOUS
  <2>1. \A w \in Worker : step[w] \in Step BY DEF Types
  <2>2. \A w \in Worker : place[w] \in 1..3 /\ 1 \in DOMAIN Outputs(step[w])
    BY <2>1, OutputsFacts DEF FileTypes
  <2>3. place \in [Worker -> 1..3] BY <2>2 DEF FileTypes
  <2>4. \A w \in Worker : place[w] \in IF pc[w] \in {"put", "record"}
                                       THEN DOMAIN Outputs(step[w]) ELSE {1}
    BY DEF FileTypes
  <2> QED BY <2>3, <2>4 DEF TypeOK, Types, FileTypes, OtherTypes
<1>3. HandInv /\ FileInv /\ SurfaceInv /\ OtherTypes => IInv
  BY <1>2 DEF HandInv, FileInv, IInv
<1>4. HandInv /\ FileInv /\ OtherTypes /\ [Next]_vars => OtherTypes' BY OtherTypesKept
<1> QED BY <1>1, <1>3, <1>4, HandInvariant, FileInvariant, SurfaceInvariant,
       PTL DEF Spec
=============================================================================
