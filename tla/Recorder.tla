------------------------------ MODULE Recorder ------------------------------
(***************************************************************************)
(* The recorder of the bot runtime (apps/bot-runtime/src/runtime.ts): one  *)
(* call of record() per bot opens an audio sink, launches Chromium, joins  *)
(* the Teams meeting as a guest, captures its audio, and cleans up.        *)
(*                                                                         *)
(* An action of the join loop is one pass of the loop, over any views of   *)
(* the page (TeamsPage).  The states that record() announces are queued in *)
(* say; awaiting onState, it goes on when the queue is empty.              *)
(***************************************************************************)
EXTENDS TeamsPage, FiniteSets

CONSTANTS Bot,           \* bots of this runtime process
          JoinAttempts,  \* DEFAULT_JOIN_RETRY_ATTEMPTS
          PrejoinPolls,  \* PREJOIN_MAX_ATTEMPTS
          StartPolls,    \* MEETING_NOT_STARTED_MAX_ATTEMPTS
          GuestJoin,     \* BOT_ALLOW_GUEST_JOIN
          MaxFaults      \* bound: faults of the machine and of other services

ASSUME RecorderAssumption ==
    /\ JoinAttempts \in Nat \ {0} /\ PrejoinPolls \in Nat \ {0}
    /\ StartPolls \in Nat /\ StartPolls >= PrejoinPolls
    /\ GuestJoin \in BOOLEAN /\ MaxFaults \in Nat

VARIABLES
    rec,      \* stage of record()
    say,      \* states that it has still to announce
    join,     \* its retries, polls and what it remembers of the page
    expired,  \* the join deadline has passed
    aborted,  \* cancel: no, while record() ran, or when it was over
    open,     \* resources that the clean-up knows of
    orphans,  \* resources that nothing will release
    bytes,    \* the recording: none, small (one upload) or large (chunks too)
    error,    \* failure stage of what record() threw, or none
    faults

recorderVars == <<rec, say, join, expired, aborted, open, orphans, bytes, error, faults>>

JoinStages == {"sink", "browser", "launch", "prejoin", "admit"}
Blockers == {"sign_in_required", "policy_blocked", "captcha", "admission_denied", "meeting_ended"}
FailureStages == Blockers \cup {"browser_launch", "navigation", "page_load", "lobby_timeout",
                    "meeting_not_started_timeout", "audio_setup", "recording", "upload", "internal"}
Announced == {"warming", "browser_starting", "prejoin", "waiting_for_start", "waiting_room",
              "joined", "recording"}

FirstTry == [attempt |-> 1, poll |-> 0, notStarted |-> FALSE, waiting |-> FALSE]

RecorderTypeOK ==
    /\ rec \in [Bot -> JoinStages \cup {"idle", "capture", "release", "ended"}]
    /\ join \in [Bot -> [attempt : 1..JoinAttempts, poll : 0..StartPolls,
                         notStarted : BOOLEAN, waiting : BOOLEAN]]
    /\ expired \in [Bot -> BOOLEAN]
    /\ aborted \in [Bot -> {"no", "running", "finished"}]
    /\ open \in [Bot -> SUBSET {"sink", "profile", "browser"}]
    /\ orphans \in [Bot -> SUBSET {"sink", "browser"}]
    /\ bytes \in [Bot -> {"none", "small", "large"}]
    /\ error \in [Bot -> FailureStages \cup {"none"}]
    /\ faults \in 0..MaxFaults

RecorderInit ==
    /\ rec = [b \in Bot |-> "idle"] /\ say = [b \in Bot |-> <<>>]
    /\ join = [b \in Bot |-> FirstTry]
    /\ expired = [b \in Bot |-> FALSE] /\ aborted = [b \in Bot |-> "no"]
    /\ open = [b \in Bot |-> {}] /\ orphans = [b \in Bot |-> {}]
    /\ bytes = [b \in Bot |-> "none"] /\ error = [b \in Bot |-> "none"]
    /\ faults = 0

----------------------------------------------------------------------------
At(b, stage) == rec[b] = stage /\ say[b] = <<>>
Goto(b, stage) == rec' = [rec EXCEPT ![b] = stage]
Say(b, states) == say' = [say EXCEPT ![b] = states]
Throw(b, stage) == error' = [error EXCEPT ![b] = stage]
Fault == faults < MaxFaults /\ faults' = faults + 1

(* createJoinDeadline, checkJoinDeadline: the clock runs from the start of  *)
(* record() until the bot is in the meeting.                                *)
Expire(b) ==
    /\ rec[b] \in JoinStages /\ ~expired[b]
    /\ expired' = [expired EXCEPT ![b] = TRUE]
    /\ UNCHANGED <<rec, say, join, aborted, open, orphans, bytes, error, faults>>

StartRecord(b) ==
    /\ At(b, "idle")
    /\ Goto(b, "sink") /\ Say(b, <<"warming">>)
    /\ UNCHANGED <<join, expired, aborted, open, orphans, bytes, error, faults>>

Late(b, stage) == IF expired[b] THEN "lobby_timeout" ELSE stage

(* startPulseAudioSink and the temporary profile.  A sink without a parsed  *)
(* id is never unloaded; nor is one that loads after its timeout, or one    *)
(* whose profile directory cannot be made: the clean-up covers neither.     *)
SinkReady(b) ==
    /\ At(b, "sink") /\ ~expired[b]
    /\ \/ /\ open' = [open EXCEPT ![b] = {"sink", "profile"}]
          /\ UNCHANGED <<orphans, faults>>
       \/ /\ Fault
          /\ open' = [open EXCEPT ![b] = {"profile"}]
          /\ orphans' = [orphans EXCEPT ![b] = {"sink"}]
    /\ Goto(b, "browser") /\ Say(b, <<"browser_starting">>)
    /\ UNCHANGED <<join, expired, aborted, bytes, error>>

SinkFails(b) ==
    /\ At(b, "sink")
    /\ \/ /\ Throw(b, Late(b, "audio_setup")) /\ UNCHANGED <<orphans, faults>>
       \/ /\ Fault
          /\ \E stage \in {"audio_setup", "internal"} : Throw(b, Late(b, stage))
          /\ orphans' = [orphans EXCEPT ![b] = {"sink"}]
    /\ Goto(b, "ended")
    /\ UNCHANGED <<say, join, expired, aborted, open, bytes>>

(* Playwright is loaded once, outside of the retries.                       *)
LoadBrowser(b) ==
    /\ At(b, "browser")
    /\ \/ /\ ~expired[b] /\ Goto(b, "launch") /\ UNCHANGED error
       \/ /\ Goto(b, "release") /\ Throw(b, Late(b, "browser_launch"))
    /\ UNCHANGED <<say, join, expired, aborted, open, orphans, bytes, faults>>

----------------------------------------------------------------------------
(* joinWithRetries.                                                         *)

(* The next attempt repeats the number of the last.                         *)
FailJoinForever(b, stage, retryable) ==
    /\ IF retryable
       THEN /\ Goto(b, "launch")
            /\ join' = [join EXCEPT ![b] = [FirstTry EXCEPT !.attempt = join[b].attempt]]
            /\ UNCHANGED error
       ELSE /\ Goto(b, "release") /\ Throw(b, stage)
            /\ UNCHANGED join
    /\ UNCHANGED <<expired, aborted, bytes>>

(* An attempt fails: the next one, if the failure can be retried.           *)
FailJoin(b, stage, retryable) ==
    /\ IF retryable /\ join[b].attempt < JoinAttempts
       THEN /\ Goto(b, "launch")
            /\ join' = [join EXCEPT ![b] = [FirstTry EXCEPT !.attempt = join[b].attempt + 1]]
            /\ UNCHANGED error
       ELSE /\ Goto(b, "release") /\ Throw(b, stage)
            /\ UNCHANGED join
    /\ UNCHANGED <<expired, aborted, bytes>>

(* The browser of the attempt before is left running.                       *)
LaunchAnother(b) ==
    /\ At(b, "launch") /\ ~expired[b]
    /\ orphans' = [orphans EXCEPT ![b] = @ \cup (open[b] \cap {"browser"})]
    /\ open' = [open EXCEPT ![b] = @ \cup {"browser"}]
    /\ Goto(b, "prejoin") /\ Say(b, <<"prejoin">>)
    /\ UNCHANGED <<join, expired, aborted, bytes, error, faults>>

(* The page factory: the last browser is closed, another launched, and the  *)
(* meeting's page opened; then joinAsGuest, which the configuration may     *)
(* forbid.                                                                  *)
Launch(b) ==
    /\ At(b, "launch") /\ ~expired[b]
    /\ open' = [open EXCEPT ![b] = @ \cup {"browser"}]
    /\ IF GuestJoin
       THEN /\ Goto(b, "prejoin") /\ Say(b, <<"prejoin">>)
            /\ UNCHANGED <<join, expired, aborted, bytes, error>>
       ELSE FailJoin(b, "policy_blocked", FALSE) /\ UNCHANGED say
    /\ UNCHANGED <<orphans, faults>>

(* No browser, no page, no navigation; or the launch loses its race against *)
(* the deadline, and the browser that comes up is nobody's.                 *)
LaunchFails(b) ==
    /\ At(b, "launch")
    /\ \/ /\ expired[b] /\ FailJoin(b, "lobby_timeout", FALSE)
          /\ \/ UNCHANGED <<open, orphans, faults>>
             \/ /\ Fault
                /\ open' = [open EXCEPT ![b] = @ \ {"browser"}]
                /\ orphans' = [orphans EXCEPT ![b] = @ \cup {"browser"}]
       \/ /\ ~expired[b] /\ UNCHANGED <<orphans, faults>>
          /\ \E stage \in {"browser_launch", "navigation", "internal"} :
                /\ FailJoin(b, stage, TRUE)
                /\ open' = [open EXCEPT ![b] = IF stage = "browser_launch" THEN @ \ {"browser"}
                                               ELSE @ \cup {"browser"}]
    /\ UNCHANGED say

----------------------------------------------------------------------------
(* joinFromPrejoin: the loop before the join button.                        *)

(* leaveWaitingForStart, and what comes next.                               *)
LeaveWaiting(b, states) ==
    Say(b, IF join[b].waiting THEN <<"prejoin">> \o states ELSE states)

pageVars == <<expired, aborted, open, orphans, bytes, faults>>

(* The controls of the meeting are there: joinAsGuest is over.              *)
Joined(b) == Goto(b, "capture")

SeesMeeting(b) ==
    /\ At(b, "prejoin") /\ ~expired[b] /\ Outcome("joined") \in PrejoinPasses
    /\ Joined(b) /\ LeaveWaiting(b, <<"joined", "recording">>)
    /\ UNCHANGED <<pageVars, join, error>>

(* The join button was clicked, or Teams shows its lobby.                   *)
SeesLobby(b) ==
    /\ At(b, "prejoin") /\ ~expired[b] /\ Outcome("waiting_room") \in PrejoinPasses
    /\ Goto(b, "admit") /\ LeaveWaiting(b, <<"waiting_room">>)
    /\ join' = [join EXCEPT ![b].poll = 0, ![b].notStarted = FALSE, ![b].waiting = FALSE]
    /\ UNCHANGED <<pageVars, error>>

(* A pass that fails, in one loop or the other.                             *)
SeesBlocker(b) ==
    /\ rec[b] \in {"prejoin", "admit"} /\ say[b] = <<>> /\ ~expired[b]
    /\ \E pass \in IF rec[b] = "prejoin" THEN PrejoinPasses ELSE AdmitPasses :
          pass.what = "fails" /\ FailJoin(b, pass.stage, pass.retryable)
    /\ UNCHANGED <<say, open, orphans, faults>>

(* The end of a pass that saw nothing to do; patience is short until Teams  *)
(* says that the meeting has not started.                                   *)
Poll(b, notStarted, waiting) ==
    LET poll == join[b].poll + 1
        stop == poll = StartPolls \/ (~notStarted /\ poll >= PrejoinPolls)
    IN IF stop
       THEN /\ IF notStarted THEN FailJoin(b, "meeting_not_started_timeout", FALSE)
                             ELSE FailJoin(b, "page_load", TRUE)
       ELSE /\ join' = [join EXCEPT ![b].poll = poll, ![b].notStarted = notStarted,
                                    ![b].waiting = waiting]
            /\ UNCHANGED <<rec, error, expired, aborted, bytes>>

SeesNotStarted(b) ==
    /\ At(b, "prejoin") /\ ~expired[b] /\ Outcome("not_started") \in PrejoinPasses
    /\ Say(b, IF join[b].waiting THEN <<>> ELSE <<"waiting_for_start">>)
    /\ Poll(b, TRUE, TRUE)
    /\ UNCHANGED <<open, orphans, faults>>

SeesNothing(b) ==
    /\ At(b, "prejoin") /\ ~expired[b] /\ Outcome("nothing") \in PrejoinPasses
    /\ LeaveWaiting(b, <<>>)
    /\ Poll(b, join[b].notStarted, FALSE)
    /\ UNCHANGED <<open, orphans, faults>>

(* checkJoinDeadline and restageDeadlineError: the wait names the failure.  *)
RunsOut(b) ==
    /\ rec[b] \in {"prejoin", "admit"} /\ say[b] = <<>> /\ expired[b]
    /\ FailJoin(b, IF rec[b] = "prejoin" /\ join[b].notStarted
                   THEN "meeting_not_started_timeout" ELSE "lobby_timeout", FALSE)
    /\ UNCHANGED <<say, open, orphans, faults>>

(* waitForJoined: the loop behind it.  Its caller has announced the lobby.  *)
Admitted(b) ==
    /\ At(b, "admit") /\ ~expired[b] /\ Outcome("joined") \in AdmitPasses
    /\ Joined(b) /\ Say(b, <<"joined", "recording">>)
    /\ UNCHANGED <<pageVars, join, error>>

(* The lobby is waited in until the loop or the deadline ends.              *)
Waits(b) ==
    /\ At(b, "admit") /\ ~expired[b]
    /\ \E shows \in {"waiting_room", "not_started", "nothing"} :
          /\ Outcome(shows) \in AdmitPasses
          /\ IF shows = "waiting_room"
             THEN IF join[b].poll + 1 < StartPolls
                  THEN /\ join' = [join EXCEPT ![b].poll = @ + 1]
                       /\ UNCHANGED <<rec, error, expired, aborted, bytes>>
                  ELSE Poll(b, join[b].notStarted, FALSE)
             ELSE Poll(b, join[b].notStarted \/ shows = "not_started", FALSE)
    /\ UNCHANGED <<say, open, orphans, faults>>

----------------------------------------------------------------------------
(* Why ffmpeg ends: its -t cap, an abort, the end of the meeting, or a      *)
(* failure of its own.                                                      *)
Ends(b) ==
    {"cap", "crash"} \cup (IF aborted[b] = "no" THEN {} ELSE {"abort"})
                    \cup (IF MeetingMayEnd THEN {"meeting_end"} ELSE {})

(* runProcess: whatever becomes of a process that was told to stop, it did  *)
(* not fail; one that ends on its own is judged by its exit code.           *)
ProcessFails(told, why) == ~told /\ why = "crash"

(* captureBrowserAudio: stopped before it wrote anything, ffmpeg did fail;  *)
(* an empty recording up to the cap is none.                                *)
Capture(b) ==
    /\ At(b, "capture")
    /\ \E why \in Ends(b), got \in {"none", "small", "large"} :
          LET told == aborted[b] # "no" \/ why = "meeting_end"
          IN IF ProcessFails(told, why) \/ (told /\ got = "none")
             THEN Throw(b, "recording") /\ UNCHANGED bytes
             ELSE bytes' = [bytes EXCEPT ![b] = got] /\ UNCHANGED error
    /\ Goto(b, "release")
    /\ UNCHANGED <<say, join, expired, aborted, open, orphans, faults>>

(* The finally block; an unload that fails is swallowed.                    *)
Release(b) ==
    /\ At(b, "release")
    /\ open' = [open EXCEPT ![b] = {}]
    /\ \/ UNCHANGED <<orphans, faults>>
       \/ /\ Fault /\ "sink" \in open[b]
          /\ orphans' = [orphans EXCEPT ![b] = @ \cup {"sink"}]
    /\ Goto(b, "ended")
    /\ UNCHANGED <<say, join, expired, aborted, bytes, error>>

RecordStep(b) ==
    \/ SinkReady(b) \/ SinkFails(b) \/ LoadBrowser(b) \/ Launch(b) \/ LaunchFails(b)
    \/ SeesMeeting(b) \/ SeesLobby(b) \/ SeesBlocker(b) \/ SeesNotStarted(b) \/ SeesNothing(b)
    \/ RunsOut(b) \/ Admitted(b) \/ Waits(b) \/ Capture(b) \/ Release(b)
============================================================================
