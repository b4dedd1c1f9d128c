----------------------------- MODULE MeetingBot -----------------------------
(***************************************************************************)
(* What the control plane may count on of a meeting bot: the phases of its *)
(* session, and the one webhook at a time that announces them, in order    *)
(* (apps/bot-runtime/src/app.ts).  Join runs its sessions on bots like     *)
(* this; BotRuntime, which models the runtime itself, is shown to          *)
(* implement them.                                                         *)
(***************************************************************************)

CONSTANT Session  \* bot sessions, one bot each

VARIABLES bot,       \* the phase of a session in the runtime
          aborting,  \* bots whose AbortController was aborted
          slot       \* the state webhook a bot is delivering

botSessionVars == <<bot, aborting, slot>>

(* joining is created .. waiting_room, joined is joined .. uploading, done  *)
(* is post_processing_completed.                                            *)
ActiveStates == {"joining", "joined"}
EndStates    == {"done", "failed", "canceled"}
Live         == {s \in Session : bot[s] \in ActiveStates}

(* The state webhooks: a failed one carries a retryable stage or not, a     *)
(* canceled one a partial recording or not.                                 *)
Kinds == {"joining", "joined", "done", "failed_retryable", "failed_final",
          "canceled", "canceled_recorded"}
StateOf(kind) ==
    CASE kind \in {"failed_retryable", "failed_final"} -> "failed"
      [] kind \in {"canceled", "canceled_recorded"} -> "canceled"
      [] OTHER -> kind

BotInit ==
    /\ bot = [s \in Session |-> "none"] /\ aborting = {}
    /\ slot = [s \in Session |-> "none"]

(* POST /v1/bots.                                                           *)
Starts(s) ==
    /\ bot[s] = "none"
    /\ bot' = [bot EXCEPT ![s] = "joining"]
    /\ slot' = [slot EXCEPT ![s] = "joining"]
    /\ UNCHANGED aborting

(* A transition awaits the delivery of the webhook before it.               *)
Announces(s, kind) ==
    /\ s \in Live /\ slot[s] = "none"
    /\ bot' = [bot EXCEPT ![s] = StateOf(kind)]
    /\ slot' = [slot EXCEPT ![s] = kind]
    /\ UNCHANGED aborting

(* Another state before the meeting: an aborted bot announces none.         *)
Waits(s) == bot[s] = "joining" /\ s \notin aborting /\ Announces(s, "joining")

(* joined and each state from there on; the first of them is stopping for a *)
(* bot that was aborted while it joined.                                    *)
Joins(s) == Announces(s, "joined")

(* finishCompleted, finishFailed, finishCanceled.  An abort that comes when *)
(* record() is over is ignored; the blockers that forbid a retry are met on *)
(* the way into the meeting.                                                *)
Ends(s) ==
    \/ bot[s] = "joined" /\ Announces(s, "done")
    \/ Announces(s, "failed_retryable")
    \/ bot[s] = "joining" /\ Announces(s, "failed_final")
    \/ /\ bot[s] = "joined" /\ s \in aborting
       /\ Announces(s, "canceled") \/ Announces(s, "canceled_recorded")

(* POST /v1/bots/:id/cancel.                                                *)
Aborts(s) ==
    /\ s \in Live /\ aborting' = aborting \cup {s}
    /\ UNCHANGED <<bot, slot>>

(* The webhook was answered, or given up after its attempts.                *)
Delivered(s) ==
    /\ slot[s] # "none" /\ slot' = [slot EXCEPT ![s] = "none"]
    /\ UNCHANGED <<bot, aborting>>

(* The container dies with its session map and whatever it was sending.     *)
Dies(s) ==
    /\ s \in Live /\ bot' = [bot EXCEPT ![s] = "gone"]
    /\ slot' = [slot EXCEPT ![s] = "none"]
    /\ UNCHANGED aborting

BotNext ==
    \E s \in Session :
       \/ Starts(s) \/ Waits(s) \/ Joins(s) \/ Ends(s)
       \/ Aborts(s) \/ Delivered(s) \/ Dies(s)

BotSpec == BotInit /\ [][BotNext]_botSessionVars
============================================================================
