# Verification of minutesbot in TLA+

This directory holds TLA+ models of minutesbot (Cloudflare workers, a D1
database, R2, a queue, and a container that joins Teams meetings), the TLC runs
that check them on small instances, and the TLAPS proofs of what holds for every
instance. Paths below are relative to the repository root; every modelled
definition's source lines are in `PROJECT.json` under `map`.

## 1. The system

| Component | State it keeps | Operations | Modelled in |
| --- | --- | --- | --- |
| Inbound mail (`apps/email-worker`) | `inbound_messages` | deduplicate, reject, ignore, resolve | `Inbound` |
| Invites (`packages/invite-parser`, `packages/recipient-policy`) | none (pure) | read a mail, decide whom it may concern | `Invites` |
| Calendar (`packages/scheduler`, `eventQueries.ts`, `occurrenceQueries.ts`) | events, occurrences, join jobs | request, override, cancel, expand, prune | `Calendar` |
| Recurrence (`packages/recurrence`) | none (a loop) | expand a rule in a window | `Recurrence` |
| Durable jobs (`packages/db/src/jobQueries.ts`, `apps/workflow-worker/src/jobRunner.ts`) | `jobs` rows: status, attempts, lease, next run | create, lease, complete, fail, cancel, requeue, delete | `Jobs`, abstractly `FencedLease` |
| Queue and cron (`queueConsumers.ts`, `cron.ts`) | messages, which are only hints | deliver `run_job`, sweep due jobs, recover stale sessions | `Jobs`, `Join` |
| Joining a meeting (`jobHandlers.ts`, `botSessionQueries.ts`) | `bot_sessions`, `meeting_occurrences` | `schedule_join`, `monitor_bot`, `cancel_bot`, `maybeRetryJoin` | `Join` |
| Bot webhooks (`botWebhookProcessor.ts`, `routes/botWebhook.ts`) | `bot_events`, sessions, occurrences | deduplicate, apply a state, start the pipeline | `Join` |
| Bot runtime (`apps/bot-runtime/src/app.ts`, `runtime.ts`) | in-memory sessions and abort controllers | create, cancel, join, record, upload, deliver webhooks | `BotRuntime` over `Recorder` over `TeamsPage`; its outside, which `Join` uses, is `MeetingBot` |
| Container worker (`deploy/bot-container`) | R2 objects | store an upload | `StoreRecording` of `BotRuntime` |
| Pipeline (`handleTranscribe`, `handleGenerateRecap`, `packages/transcription`) | transcripts, recaps, artifacts | transcribe, summarise, hand over | `Pipeline` |
| Retention (`handleRetentionCleanup`) | artifacts, jobs | delete what is old | `Pipeline` |
| Recap delivery (`handleSendRecap`, `emailQueries.ts`, `packages/email-sender`) | `email_deliveries` | send under a policy, record, retry | `Delivery` |
| Admin API (`apps/api-worker/src/routes`) | none of its own | requeue, retry-*, cancel-bot | `Jobs`, `Join`, `Pipeline`, `Delivery` |

How they interact: a mail passes the gate of the email worker and becomes an
event with occurrences and one `schedule_join` job each; the job creates a bot
session and calls the runtime; the runtime reports back with webhooks, which
move the session and the occurrence and create the `transcribe` job; the
pipeline's jobs hand over to `send_recap`. All control state is in D1 and
**every D1 statement is a transaction of its own**: what a worker read is stale
by the time it writes. That, the queue, crashes, leases that run out and a
process in a container that forgets everything when it dies is what makes the
system hard. For each component, correct means:

* mail: each mail reaches the calendar at most once, a cancellation always does
  if its sender may send one;
* calendar: newer invites win, canceled occurrences do not come back, every
  future occurrence has a pending join job for its own time;
* recurrence: what a window yields is the recurrence set of the rule;
* jobs: a lease fences; a finished job stays finished; no job is stranded;
* joining: one active session, no bot the control plane does not know of, every
  session ends, a recording always reaches the pipeline;
* runtime: a session ends, says how, says only what is so, and leaves nothing open;
* cancellation: final, and no bot stays in a canceled meeting;
* pipeline: a completed step has handed on, a dead letter surfaces, rows and
  objects agree;
* delivery: nobody gets the recap twice, nobody outside the policy gets it, and
  "completed" means delivered.

## 2. Modules

| Module | What it is |
| --- | --- |
| `FencedLease` | What a job table promises: tasks granted with fresh tokens, settled only by the current token |
| `Jobs` | The job table and its consumers, one action per statement; implements `FencedLease` |
| `MeetingBot` | What the control plane may count on of a bot: its phases, announced in order, one webhook at a time |
| `Join` | One occurrence, its sessions and bots, webhooks, failover, cancellation; extends `MeetingBot` |
| `Pipeline` | `transcribe` and `generate_recap`, their files and rows, retention; jobs are tasks of `FencedLease` |
| `Delivery` | `send_recap` as a task of `FencedLease` |
| `Invites` → `Inbound` → `Calendar` | Each extends the one before: what a mail says, the gate, the calendar behind it |
| `TeamsPage` → `Recorder` → `BotRuntime` | Each extends the one before: what a page shows, `record()`, the session around it; implements `MeetingBot` |
| `Recurrence` | `expandRecurrence` as a state machine, and the recurrence set of RFC 5545 as its reference |
| `MC*` | Symmetry sets and inputs of the TLC instances |
| `*Proofs`, `RecurrenceLemmas` | Theorems with TLAPS proofs |

### Jobs

A row is `status`, `attempts`, `leaseId`, and membership in `due` and `expired`,
which stand for the two comparisons with the clock (`next_run_at <= now`,
`lease_expires_at < now`); the clock may set them at any time, so every backoff
and lease length is covered. A consumer is `pc`, `running`, `held`. `LeaseJob`
is the conditional UPDATE of `leaseJob`; `CompleteJob`, and the two statements of
`failJob` (`FailJobRead`, `FailJobWrite`), end a run; `RecordTerminalJobFailure`
reports. `RequeueCompleted` is the unconditional UPDATE behind
retry-transcription and retry-recap, separated from the read that led to it.
Lease ids are UUIDs that are only compared, so a fresh one is any id nobody
holds. `attempts` saturates at `AttemptCap`, beyond every comparison.

### Join

An `Actor` is one worker invocation; `pc`, `sess`, `val`, `key` are its place and
locals. Its stages are the awaits of `handleScheduleJoin` (create, count, call,
bind, enqueue, monitor and the catch block), of `processBotWebhook` (apply, read,
write, transcribe), of `recoverStaleSessions` with `maybeRetryJoin`, and of a
calendar cancellation. The 13 session states are reduced to joining, joined, done,
failed and canceled, as the code outside the runtime tells them apart.
`NoOtherActive` is the partial unique index. Every
fault (crash, lost answer, failed statement, lost or timed-out webhook, silenced
heartbeat, dead container) counts in `faults`, so that properties can say what
holds without, and what each one can cost.

The runtime's side of a session is a `MeetingBot`, as little of it as the control
plane sees: `bot` is its phase, `aborting` says that it was told to leave, `slot`
is the webhook it delivers; the next transition awaits that delivery. Its actions
are those of `MeetingBot` with what they mean for the control plane: `BotStarts`,
`BotGoesOn` (`Waits`, `Joins`), `BotEnds`, `DeliveryEnds`, `BotDies`; `logged` says
that `bot_events` has the webhook. A phase stands for several states, so a bot may
announce the same phase again and again. A bot that is aborted while it joins
announces `stopping`, a joined state, before it ends as canceled; a failure that
forbids a retry (`failed_final`) is met only on the way into the meeting.

### Pipeline

Both handlers have one shape, so a run is a step, a stage and a place in the list
of files it writes. `EnsureRow`, `ReadSources`/`ReadTranscript`, `MarkOccurrence`,
`MarkRunning` are the statements up to the work; `TranscribeChunk` and
`Summarize` end in success, a retryable or a terminal error; `PutFile` and
`RecordFile` are the object and its artifacts row, once for each file;
`MarkCompleted`, `HandOn`, `Hint` complete the row, create the next job and send
its message. `Caught`, `GiveUp`, `FailJob`, `Surface` are the way out of an
error; `StatementFails` may send any statement there. `Retention` deletes an
object and marks its row in two steps, by kind and age, and the completed jobs
afterwards. The two retries are two statements each (`RetryRow`, `RetryJob`).

### Delivery

A run reads its settings (`policy`), attendees (`list`), marks the occurrence,
lists the deliveries, and loops: `SendMail` (guard and provider) and
`RecordDelivery` are separate steps, since the mail leaves before its row is
written. The run's end is that of `runJob`, on the phase, token and claims of
`FencedLease`: `Lease!Grant`, `Lease!Settle`, `Lease!Forget`, `Lease!Revoke` and
`Lease!Offer` are the only ways the job changes, here and in `Pipeline`. A grant
over a claim that is still alive (an outlived lease) counts as a fault. Requests
(`CancelOccurrence`/`CancelJobs`, `RetryDelivery`, `ReplaceAttendees`,
`ChangePolicy`) come at any time, once each, at most `MaxRequests` in all.

### Invites, Inbound, Calendar

A mail is a record: envelope, headers, authentication results, and the leaves of
its MIME tree with their depth and the calendar in them. `Invites` says which part
is read, which events of it are usable, what the master and the overrides are,
whether the sender is authenticated and which attendees are eligible.
`Inbound` is the worker: `Receive` (the dedupe row, an INSERT that fails on the
same hash), `Gate` (parsing and every check in its order), `Resolve`, `Fail`.
`Calendar` fills the space between: `Ingest` dispatches; `Store`, `ReadSaved`,
`ReplaceGuests` are `handleRequest`; `Expand`, `Look`, `Write`, `SyncJoinJob`
walk the occurrences, one upsert at a time; `Prune` reads and `Cut` writes;
`Mark` ends an expansion; `CloseSeries`, `List`, `Cancel`, `ReadForExdates`,
`StoreExdates`, `DropJoins`, `Notify` are the cancellations. What a run read is
in `local`. Meanwhile joins run, bots come and go and days pass. An occurrence is
named by its original start, a day, and a join job by occurrence and join time,
the two parts of its key.

### TeamsPage, Recorder, BotRuntime

A view of the page is a sequence of scopes (page and frames), each with the signs
visible in it; a sign stands for the locators that look for the same thing. A
pass of a poll loop reads one view after another, and the page may show anything
at each. `Recorder` goes from the audio sink (`StartRecord`) over `LoadBrowser` and
`Launch` to a pass of the join loop (`SeesMeeting`, `SeesLobby`, `SeesBlocker`,
`SeesNotStarted`, `SeesNothing`, `Waits`), `Capture` and `Release`, with the join
deadline, the retries (`FailJoin`) and the cancel at every await; `open` is what its clean-up
knows of, `orphans` what nothing will release. `BotRuntime` is the session:
`Create`, `Cancel`, `Transition` and its webhook (`Deliver`, with its attempts),
`Conclude` (what `runBotLifecycle` makes of a recording, an error and an abort),
`Upload` for the recording, its chunks and the diagnostics. `Phase`, `Kind` and
`Webhook` say what of this a `MeetingBot` shows; `ImplementsMeetingBot` says that it is one.

### Recurrence

`StartPeriod`, `TakeInstance`, `GiveUp` and `Return` are the loop of
`generateRuleInstances` and the set operations after it; `CandidatesForPeriod` and the
operators under it are the `by*` filters; `ToUtc` and `Offset` are the
conversions over a table of clock changes. `Series` says the same set without a
loop, day by day. `RulesAreExpanded` counts from DTSTART also when the window ends
before it: a walk begins with the period of DTSTART whatever the window.

## 3. Runs

| Run | Instance | Shows |
| --- | --- | --- |
| `jobs` | 1 job, 2 consumers, 4 lease ids, 2 attempts, 2 faults, 1 reset, fair | `IInv`, `VerdictsMatchAttempts`, `AttemptsNeedFaults`, `LiveLeaseKept`, `SettledByHolder`, `ImplementsFencedLease`, `EveryJobSettles` |
| `join_safety` | 3 sessions, 2 actors, 1 fault, no request | `IInv`, `ExtraBotsNeedFaults` |
| `join_requests` | 2 sessions, 2 actors, a cancellation and an admin retry, no fault | `LiveBotsTracked`, `CancellationSticks`, `RecordingsTranscribed` |
| `join_liveness` | 1 session, 2 actors, 1 fault, both admin requests, fair | `SessionsEnd` |
| `join_cancel` | 1 session, 2 actors, no fault | **violated**: `CanceledMeetingsHaveNoBot` |
| `pipeline_safety` | 2 chunks, 2 workers, 2 attempts, 2 disturbances of 9 kinds | `IInv`, `HandedOn`, `FailuresSurface`, `RowsPointToObjects`, `NothingEscapesRetention` |
| `delivery_safety` | 2 recipients, 2 runs, 2 attempts, 1 fault, any 3 of 4 requests | `IInv`, `DuplicatesNeedDisturbances`, `CompletedMeansSent`, `NoMailPastPolicy` |
| `calendar_safety` | 9 mails, 2 handlers, 3 deliveries, overlaps or deaths in all, 2 days, a lead of one | `IInv`, `IngestedOnce`, `CancellationsGetThrough`, `GuestsOfTheSeries`, `ScheduledIsJoined`, `JoinsOnTime`, `CanceledBotsToldToLeave`, `SeriesNeverRollsBack`, `ExpansionKeepsCancellations` |
| `calendar_jobs` | an invite and an update of its end time | **violated**: `ExactlyOneJoinJob` |
| `bot_runtime` | 1 bot, 3 join attempts, 3 start polls, 2 faults, 2 chunks, fair | `CancelWins`, `ReportedIsStored`, `NothingLeftBehind`, `EndIsHeard`, `RecordingsUploaded`, `ImplementsMeetingBot`, `SessionsEnd` |
| `bot_upload` | 1 bot, uploads to the container worker, no fault | **violated**: `RecordingsUploaded` |
| `recurrence` | some 2000 rules, starts, zones and windows | `ExpandsToTheSeries`, `RulesAreExpanded` |

`IInv` of `Jobs`, `Join`, `Pipeline`, `Delivery` and `Calendar` is the inductive
invariant of the proofs and has the module's `TypeOK` as its first conjunct; the run
checks it before the proofs are tried, and shows that its cases occur. `TypeOK` of
`BotRuntime` is proved without a run (`TypeOKHolds`). Every
property of a passing run has a mutant in `PROJECT.json`: a plausible bug in a
mapped definition that makes TLC find the property violated under the run's own
configuration. The mutated forms stand in the modules, next to the definition they
replace.

Why the bounds are enough.

* `jobs`: two consumers show every conflict over one lease; four lease ids leave a
  fresh one in every state; two attempts show both outcomes of `failJob`; two
  faults make one job exceed its attempts. Jobs do not interact except by lease
  ids, and the theorems cover any number of them.
* `join_*`: two sessions show failover, and a late webhook that collides with a
  successor's active row; a third would let `ExtraBotsNeedFaults` fail with one
  fault. Most properties are about behaviours without faults, so cancellations and
  retries run without them, and faults without requests; the theorems hold for
  every mix. Two actors show every race of one handler with one other.
* `pipeline_safety`: two chunks show a run that has transcribed some. Two
  disturbances suffice to make two runs of one step overlap, a retry meet a
  cleanup, or a step fail twice; `hit` lets each property say which kinds it
  survives.
* `delivery_safety`: two recipients show partial failure inside the loop. One fault
  with two runs makes one overlap another.
* `calendar_safety`: the mails are a series, its successor with other days and
  guests, an override that moves a day onto the other, a cancellation of one day
  and of all, and four that must not get through; each may come in any order,
  again, or during another's handling. Three events are two mails that overlap, or
  three in sequence; all runs have the theorems. Meetings start on day 0 or 2, the
  clock runs from 0 to 2 and the window is two days, so the second day enters it
  when the clock moves, by a nightly expansion. The lead of one day makes both kinds
  of join time: ahead of the start, and at once. (With no lead a job that is due at
  once has the key of the start, and the case that a job has run within the lead is
  not met.) `calendar_jobs` needs neither and has no lead.
* `bot_runtime`: bots share only the capacity, which is proved. Three join attempts
  and three polls show the first, a middle and a last one. Screens of the page are
  one sign each in the page or its second frame, and pairs that are ambiguous.
* `recurrence`: the rules are chosen at the edges of months, leap days, weeks that
  start on Sunday or Monday, years and clock changes, with COUNT, UNTIL in its
  three forms, EXDATE, RDATE and BYSETPOS; windows begin before, in and after the
  series, and one ends before it; zones are those of New York and Auckland (one on each hemisphere).
  `MaxIterations` and `MaxOccurrences` are scaled down so that both caps are met.

`CHECK_DEADLOCK FALSE` stands in all runs but `jobs`: they model one occurrence,
series, session or input, whose life ends when every request was made and every
job is done. `Jobs` never stops, since its cron always sweeps. Symmetry is used in
safety runs only.

### Fairness

* `Jobs`: the sweep fires (per-minute cron), time passes (`BecomeDue`, `Expire`),
  a consumer that has not crashed goes on. A delivery of a hint is strongly fair:
  hints are lost again and again, and the sweep sends them again and again, so
  one arrives in the end. Nothing is assumed of a single message.
* `Join` (`SessionFairness`): actors that have not crashed go on; a bot that lives
  ends its session (`BotEnds`), which `SessionsEnd` of `BotRuntime` says of the
  runtime itself; silence is noticed and a stale session is looked at. Webhooks and
  recovery are strongly fair because a worker must be free for them, `BotEnds`
  because a bot cannot end while it delivers a webhook, and delivers one after another.
* `BotRuntime`: the process runs, that is, each bot takes some step if it can
  (`WF_vars(BotStep(b))`). The page, the cancel and the control plane are not
  fair: the deadline, the poll limits and the attempt limits alone end a session.

### What the three violations say

* `join_cancel`: `schedule_join` writes `join_queued` over a cancellation that
  arrived meanwhile, and no `cancel_bot` job exists, against
  `docs/troubleshooting.md:17`.
* `calendar_jobs`: an update that keeps the start cancels the join job and finds its
  key taken by the canceled row, so no bot comes, against the comment at
  `packages/scheduler/src/joinJobs.ts:7-8`.
* `bot_upload`: the runtime does not send `x-recording-bucket`, the container
  worker refuses an upload without it, and so no recording is ever stored,
  against `docs/meeting-bot-runtime.md:61`.

## 4. Theorems

All theorems are for every value of the constants that satisfies the named
assumptions (`JobsAssumption`, `JoinAssumption`, `DeliveryAssumption`,
`PipelineAssumption`, `RecorderAssumption`, `RuntimeAssumption`,
`TeamsPageAssumption`,
`InvitesAssumption`, `InboundAssumption`, `CalendarAssumption`, `ValueAssumption`,
`RecurrenceAssumption`, `ZoneAssumption`): positive attempt limits, caps beyond the
comparisons, null values outside the sets they mark, mails that have parts, and
zones whose offsets are whole hours of at most 14, within a day of each other, with
two days at least between two changes of a clock. TLC evaluates the assumptions in
every run.

* `JobsProofs`. `LeaseInv` is the core: a row has a lease id exactly while leased,
  a run has one, no two runs or rows share one, and a row's id belongs to a run
  of that row. `VerdictsMatchAttempts` is not inductive without
  `PendingVerdicts` (an outcome read but not yet written is still right while
  the lease is held, because only a new lease or a reset changes `attempts`,
  and both take the lease away). From `TypeOK /\ LeaseInv` follow the three action
  properties. `BudgetInv` gives `AttemptsNeedFaults`: a leased row that nobody will
  settle any more has been paid for by the fault that took its consumer, so that
  the lease that follows may use one attempt more. `Refinement` maps status to
  phase, `lease_id` to token, and a run's (job, lease id) to a claim; each step is a
  step of `FencedLease` or a stutter.
* `JoinProofs`. `ActorInv` ties what an actor remembers to its session and bot,
  `SlotInv` the webhook to the bot. `LiveBotsTracked` needs `TrackedInv`:
  without faults no live bot's session is stale, no actor in the catch block or
  in recovery works on a live bot. `RecordingsTranscribed` needs
  `RecordingInv`: a recording's webhook is waiting, or an actor carries it.
  `ExtraBotsNeedFaults` is a count over sessions, and what it counts has to be wider
  than the bots that are there: `RiskInv` bounds the bots, present or being asked
  for, whose session is closed, silent or about to be closed, since it is they that
  another attempt may double. A step adds at most one to this set and then is a
  fault (`RiskStep`); of the other bots the partial unique index allows one.
  `CancellationSticks` rests on three invariants of runs without faults and admin
  retries. `AttemptInv`: at most one thing can lead to another attempt at a time, be
  it a queued key, an actor that tries or fails over, or a session whose bot started,
  and nothing can once a session has ended well. `HandlerInv`: a webhook is handled
  once, and until it is applied its session is active, so what its handler read is
  still so. `SealInv`: behind a cancellation that found nobody at work, nobody comes
  to work who would write the occurrence back.
  Actor by actor and bot by bot, every step is one of `MeetingBot` or leaves the
  bots alone (`SessionsRunOnMeetingBots`).
* `DeliveryProofs`. `LoopInv` and `RowInv` relate the loop's locals, the rows and
  the mails, and give `CompletedMeansSent`. `AccountInv` gives
  `DuplicatesNeedDisturbances`, for any number of recipients, runs, attempts and
  disturbances. It is kept like an account: the mails that left, the one that the
  job itself still owes (`Due`), and those that runs which lost their lease may yet
  send or fail to record (`Strays`), one for each, never exceed one and the
  disturbances. A crash or a lease that runs out turns what was due into a stray and
  pays for it; a stray that sends becomes a mail; a row that was recorded owes
  nothing. `Balanced` names the moves that keep the account, and each action is shown
  to be one.
* `BotRuntimeProofs`. `SaysInOrder`: a terminal state is the last that a bot takes,
  and it is queued only when the life cycle is over; without it
  `CancelWins` is not inductive, since states wait in `say` until their webhook is
  through. `CanceledInTime` says that no terminal state but `canceled` is taken
  or waits. `Room` gives `RoomForAll`, which no run checks: a run with the two
  bots it takes would be too large, the proof is for any number. A second layer
  shows what is open at each stage of `record()` (`NothingLeftBehind`), a third
  what is stored when a key is reported (`ReportedIsStored`), a fourth counts the
  attempts left for a webhook (`EndIsHeard`), a fifth bounds every counter (`Ranges`,
  which with the others is `TypeOK`: no poll, attempt or upload passes its limit), a
  sixth follows a recording from `record()` to storage (`RecordedInv`, for
  `RecordingsUploaded`; its hypothesis is a storage that takes any upload, which the
  container worker is not, as `bot_upload` shows). Each layer assumes those before it.
  The seventh gives the contract, `MeetingBotImplemented`. Its invariant `InOrder`
  says of the states that wait in `say` that none leads back (`Follows`), of each
  stage of the life cycle how far its bot has come (`InStage`), and of the end that
  it is one the bot may announce there (`Ending`: a blocker only before it joined, a
  cancel only after an abort). With it `Create`, `Cancel`, `Transition` and `Deliver`
  are each a step of `MeetingBot` or a stutter, and nothing else is seen from outside.
  The two theorems meet in `MeetingBot`: what `Join` lets a bot do covers all that the
  runtime does while its process lives, and `Join` adds that the process may die.
* `PipelineProofs`. The first layer, `HandInv`, gives `HandedOn`: while no run
  overstays its lease and nobody cancels, a run holds its job until it gives it up,
  so that what it read of its row is still true when it writes (`RunInv`), and a
  job that is done has a completed row (`DoneInv`). One lemma, `MoveKeeps`, covers
  every change of a run's stage; each action is shown to be such a move, a claim,
  or an end. The second layer is about files. `Aging`: once the windows have passed,
  only a retry starts a run. `Filing`, before a cleanup: a run puts all of its
  files before it records the first. `Expiring`, during and after it: at most one
  file has lost its object and not yet its row. They give `RowsPointToObjects` and
  `NothingEscapesRetention`, for any number of chunks, overlapping runs and
  disturbances. The third layer, `SurfaceInv`, follows a failure: while the report
  can be trusted, a step that is over without its successor has a run that will
  report it or an occurrence that shows it, and no run is left that would write over
  the report. With every job over that is `FailuresSurface`.
* `CalendarProofs`. Four layers. The first, for any overlap and any death, says of
  each run what its stage implies: it has a mail that passed the gate, the series
  exists once it works on it, there are occurrences left in a loop and rows where it
  has read some (`RunInv`); jobs and bots are those of rows (`RowInv`). It gives
  `TypeOK`, and with the upsert's WHERE `SeriesNeverRollsBack`. The second,
  `GateInv`, gives `IngestedOnce`: a mail that is new, or at the gate, was not handed
  on, and at most one run stands at the gate with it. `CancellationsGetThrough` needs
  no invariant: of a mail whose calendar parts are cancellations with a UID it is
  computed what the parser and the policy answer, whatever else it has or lacks. The
  third, `SerialInv`, is about runs that neither overlap nor die: there is one at a
  time (`OneRun`), what it read is what it will write over (`SeriesHeld`, `RowHeld`;
  joins and bots meanwhile change only a row's status, and never to or from
  canceled), guests, jobs and instances follow the stored series (`GuestInv`,
  `JoinInv`, `RuledInv`, `DaysHeld`), and an occurrence that is canceled is struck
  out of the rules, or the run at work is about to strike it out or bring it back
  (`CanceledInv`). That is why a nightly run, which only writes the rules' own days,
  touches none of them (`ExpansionKeepsCancellations`); `GuestsOfTheSeries` and
  `JoinsOnTime` are the same layer between runs. The fourth, `UndisturbedInv`, adds
  that no join came in between: a bot whose meeting a run canceled is on its list
  until it is told, and a scheduled occurrence has its job, or the run at work is
  about to create it. It gives `CanceledBotsToldToLeave` and `ScheduledIsJoined`.
  The assumptions are that all mails are of one series, their days within the
  bounds, and their overrides finitely many, with one for each day.

* `RecurrenceProofs`, over `RecurrenceLemmas`. The lemmas are a calendar: months
  and years are as long as they are, every day is in one month, every seventh day of
  a month is its weekday. On it rests that `CandidatesForPeriod` holds exactly the
  days of its period that the RFC's day-by-day reading allows (`PeriodsHold`), that
  periods follow each other and start a day later at least (`PeriodsInOrder`,
  `PeriodLengths`), that positions of BYSETPOS mean the same in both
  (`DaysOfTheSeries`), and that, with one clock change within two days at most,
  the conversion of a wall clock is the first instant that shows it, or the
  moved one when none does (`InstantsOfWallClocks`). The loop's invariant
  (`LoopInv`) says of a running walk that what it has looked at is an earlier part
  of the periods begun, none of it cut off by UNTIL or the window, and fewer than
  COUNT (`Running`), and of a finished one that it kept the first COUNT of the
  series' walls, or all up to the window (`Complete`). With the end of the walk at the
  window's and a day, what is left out is outside the window: `ExpandsToTheSeries`. A
  second layer, `PaceInv`, counts: an iteration for each period begun and one for
  each day at most since the first period's start, which may precede DTSTART by a
  year; so `RulesAreExpanded`. Nothing needs induction over data: what a set lacks
  is refuted by its least member, and the rest is induction over the loop's steps.

Only model-checked: liveness (`EveryJobSettles`, both `SessionsEnd`), which needs
fairness and is out of the provers' reach here. Every other property of a passing
run is a theorem.

## 5. Not modelled, simplifications, and observations

Not modelled: the mail renderer and the web application (formatting, user
interface); API authentication and the settings row, which is replaced as a whole
(`Delivery` takes it as an input that may change); setup scripts; audit rows
(except `job.dead_letter`), read routes, event deletion; decoding, unfolding and
other text of mails and rules; the proxy of the container worker.

Simplifications:

* The length of backoffs and leases, and the order of the sweep.
* `monitor_bot` rows: monitor and cron run the same recovery (`Recover`).
* A statement that fails outside the catch block of `handleScheduleJoin`
  leaves the same state as a crash, and is modelled as one.
* The two jobs of `Pipeline` and the one of `Delivery` fail in one step, where
  `failJob` has two statements: `Jobs` has them.
* In `Calendar`, a join job runs in one step and the bot is three states; `Join`
  has the steps. Overrides take the series' guest list.
* Lists of a recurrence rule are sets, so a part that repeats an entry is not
  covered; times are whole hours.
* A recorder's clicks and input change nothing but the page, which is free.

What modelling showed that no property states, for a reader who changes this code:

* `leaseJob` never compares `attempts` (`jobQueries.ts:92`): a job whose consumers
  die is leased for ever and never reaches `dead_letter`, unlike
  `docs/architecture.md:84` and `docs/operations.md:36`. `AttemptsNeedFaults`
  states what does hold.
* `failJob` answers `dead_letter` for a job that was canceled between its two
  statements, and its caller reports it (`jobQueries.ts:209`).
* An occurrence keeps its bot status when a webhook handler dies between the session
  and the occurrence, since a redelivery is a duplicate; and without any fault when
  a bot fails so fast that `join_queued` overwrites `failed` (`jobHandlers.ts:147`).
* `transcribe` catches an error of the hand-over as one of the step, after the row is
  completed; a retry then hands on (`HandedOn`), but a refused message on the last
  attempt ends the job as a dead letter.
* A CANCEL for one occurrence ignores SEQUENCE (`ingest.ts:208-218`), unlike
  `docs/architecture.md:94`. A REQUEST with other bytes and the same SEQUENCE
  replaces the EXDATEs and brings a canceled occurrence back; so does a nightly
  expansion that overlaps the cancellation, which is why
  `ExpansionKeepsCancellations` speaks of runs that do not overlap.
* `docs/architecture.md:42` has mail deduplicated by Message-ID too; the code has
  only the hash. The worker acknowledges before `waitUntil` is done, so a crash
  loses the invite: the next delivery of the same bytes is a duplicate.
* `hasEligibleRecipient` counts the addressees of the mail's headers, the recorder
  included; attendee rows come from the VEVENT alone.
* A cancel after `record()` has returned is accepted and has no effect; one during
  the join is seen when `record()` looks. `finishFailed` leaves `recordingKey` set
  though nothing is stored. A deadline that passes during launch or admission is
  reported as `lobby_timeout`.
* `runtime.ts:134`: a `mkdtemp` that fails leaves the sink loaded; 152-160: a launch
  that resolves after its timeout leaves a browser; 996: a sink without a parsed
  id is never unloaded. `NothingLeftBehind` therefore speaks of runs without faults.
* The text "ask to join" is taken for a lobby also when it is the join button's own.
* DAILY and WEEKLY rules ignore BYSETPOS; the parser refuses most that have it.

## 6. What is left

1. More of `FencedLease`, whose guarantees its users could cite.
2. The job keys of `Join` and `Calendar` as tasks of `FencedLease`.
3. Two sessions in `Pipeline` (a recording that is not the latest session's), and
   event deletion by an admin.

`PROJECT.json` lists under `hazards` what each property is for.
