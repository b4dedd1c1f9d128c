----------------------------- MODULE TeamsPage -----------------------------
(***************************************************************************)
(* What the recorder makes of the Teams page (the probes of                *)
(* apps/bot-runtime/src/runtime.ts).  A view is what the page shows while  *)
(* it is probed: its scopes, the page itself and its frames, each with the *)
(* signs that are visible in it.  A sign stands for the locators that look *)
(* for the same thing.  The page may show another view after a click.      *)
(*                                                                         *)
(* Clicks and input that only prepare the join (the web entry, the media   *)
(* toggles, the guest name, Enter) change nothing but the page, which is   *)
(* free; what is told is what the recorder concludes from a pass.          *)
(***************************************************************************)
EXTENDS Naturals, Sequences, FiniteSetsExt

CONSTANT Views    \* views that the page may show: sequences of sets of signs

Signs == {"join_now", "ask_to_join", "leave", "call_controls", "in_call_text",
          "lobby", "not_started", "login_form", "policy", "sign_in", "captcha", "denied",
          "ended", "no_connection", "removed", "left", "way_back"}

ASSUME TeamsPageAssumption == Views # {} /\ Views \subseteq Seq(SUBSET Signs)

(* In some scope, one of the signs is visible.                              *)
Shows(view, signs) == \E i \in DOMAIN view : view[i] \cap signs # {}

(* Of the scopes that show one of the signs, the first; and in it the first *)
(* of the signs, as they are probed in this order.                          *)
FirstSign(view, signs) ==
    LET shows(i, j) == signs[j] \in view[i]
        scope == Min({i \in DOMAIN view : \E j \in DOMAIN signs : shows(i, j)})
    IN IF \E i \in DOMAIN view, j \in DOMAIN signs : shows(i, j)
       THEN signs[Min({j \in DOMAIN signs : shows(scope, j)})] ELSE "none"

----------------------------------------------------------------------------
(* The probes.                                                              *)

(* joinButtonLocators.                                                      *)
JoinButton(view) == Shows(view, {"join_now", "ask_to_join"})

(* clickIfVisible: a click that fails is as none.                           *)
Clicks(view) == IF JoinButton(view) THEN BOOLEAN ELSE {FALSE}

HasJoinedSignals(view) == Shows(view, {"leave", "call_controls", "in_call_text"})

(* The text "ask to join" counts, be it the join button's own.              *)
HasLobbySignals(view) == Shows(view, {"lobby", "ask_to_join"})

HasMeetingNotStartedSignals(view) == Shows(view, {"not_started"})

JoinedOrLobbyState(view) ==
    IF HasJoinedSignals(view) THEN "joined"
    ELSE IF HasLobbySignals(view) THEN "waiting_room" ELSE "none"

(* throwIfTeamsBlocker: what keeps a guest out, in all scopes, then the     *)
(* rest in all scopes.                                                      *)
GuestBlockers == <<"login_form", "policy", "sign_in">>
OtherBlockers == <<"captcha", "denied", "ended", "no_connection">>

Blocker(view) ==
    IF Shows(view, {"login_form", "policy", "sign_in"}) THEN FirstSign(view, GuestBlockers)
    ELSE FirstSign(view, OtherBlockers)

StageOf(blocker) ==
    CASE blocker \in {"login_form", "sign_in"} -> "sign_in_required"
      [] blocker = "policy" -> "policy_blocked"
      [] blocker = "denied" -> "admission_denied"
      [] blocker = "ended" -> "meeting_ended"
      [] blocker = "no_connection" -> "navigation"
      [] OTHER -> blocker

(* meetingEndReason: the ways back count where no call is visible.          *)
EndReasonIn(scope) ==
    IF "removed" \in scope THEN "removed"
    ELSE IF "left" \in scope THEN "left"
    ELSE IF "ended" \in scope \/ ("way_back" \in scope /\ scope \cap {"leave", "call_controls"} = {})
    THEN "meeting_ended" ELSE "none"

MeetingEndReason(view) ==
    LET scopes == {i \in DOMAIN view : EndReasonIn(view[i]) # "none"}
    IN IF scopes = {} THEN "none" ELSE EndReasonIn(view[Min(scopes)])

----------------------------------------------------------------------------
(* One pass of a loop of the join.                                          *)

Outcome(what) == [what |-> what, stage |-> "none", retryable |-> FALSE]
Fails(blocker) ==
    [what |-> "fails", stage |-> StageOf(blocker), retryable |-> blocker = "no_connection"]

(* fill(), or a wait on a page that is gone, throws an error of no stage.   *)
Throws == [what |-> "fails", stage |-> "internal", retryable |-> TRUE]

(* The end of a pass: a blocker, a meeting to wait for, or nothing.         *)
Unjoined(view) ==
    IF Blocker(view) # "none" THEN Fails(Blocker(view))
    ELSE Outcome(IF HasMeetingNotStartedSignals(view) THEN "not_started" ELSE "nothing")

(* Before the join: a blocker ends it; a click that works leads to the      *)
(* meeting or to its lobby; without one, the page is looked at again.       *)
PrejoinPass(before, clicked, after) ==
    IF Blocker(before) # "none" THEN Fails(Blocker(before))
    ELSE IF clicked THEN Outcome(IF HasJoinedSignals(after) THEN "joined" ELSE "waiting_room")
    ELSE IF JoinedOrLobbyState(after) # "none" THEN Outcome(JoinedOrLobbyState(after))
    ELSE Unjoined(after)

PrejoinPasses ==
    (UNION {{PrejoinPass(before, clicked, after) : clicked \in Clicks(before), after \in Views} :
              before \in Views})
    \cup {Throws}

(* Behind the join button: the lobby hides whatever else is shown.          *)
AdmitPass(view) ==
    IF JoinedOrLobbyState(view) # "none" THEN Outcome(JoinedOrLobbyState(view))
    ELSE Unjoined(view)

AdmitPasses == {AdmitPass(view) : view \in Views} \cup {Throws}

(* waitForTeamsMeetingEnd: some view ends the recording.                    *)
MeetingMayEnd == \E view \in Views : MeetingEndReason(view) # "none"
============================================================================
