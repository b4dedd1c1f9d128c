------------------------------ MODULE Inbound ------------------------------
(***************************************************************************)
(* The email worker's gate (apps/email-worker/src/index.ts): a mail is     *)
(* recorded once by the hash of its bytes, parsed, checked against the     *)
(* policy, and handed to the calendar.  What the calendar then does is     *)
(* left to the module that extends this one: between the stages "ingest"   *)
(* and "resolve" the run is in its hands.                                  *)
(***************************************************************************)
EXTENDS Invites

CONSTANTS Worker,      \* concurrent runs
          NoMessage,   \* the task of a run that handles no mail
          Policy,      \* the checks that settings.policy asks for
          MaxEvents    \* bound: mails, overlapping runs and deaths, together

(* settings.policy: requireAuthenticatedSender, rejectExternalOrganizers,   *)
(* requireAtLeastOneEligibleRecipient.                                      *)
Checks == {"authenticated", "internal_organizer", "eligible_recipient"}

ASSUME InboundAssumption ==
    /\ NoMessage \notin Message /\ Policy \subseteq Checks
    /\ MaxEvents \in Nat

VARIABLES inbox,     \* inbound_messages.parse_status by content hash
          deliveries, \* mails that came so far
          ingests,   \* how often the content was handed to the calendar
          pc, task,  \* stage of a run and its mail
          disturbances  \* runs that overlapped another, died, or had a statement fail

inboundVars == <<inbox, deliveries, ingests, disturbances>>

Working(w) == pc[w] # "idle"
Quiet == \A w \in Worker : ~Working(w)

Spent == disturbances + deliveries

(* A run begins, with so many mails.                                        *)
Begin(mails) ==
    LET overlap == IF Quiet THEN 0 ELSE 1
    IN /\ Spent + mails + overlap <= MaxEvents
       /\ disturbances' = disturbances + overlap
       /\ deliveries' = deliveries + mails

InboundTypeOK ==
    /\ inbox \in [Message -> {"none", "received", "parsed", "ignored", "rejected"}]
    /\ ingests \in [Message -> Nat]
    /\ deliveries \in 0..MaxEvents /\ disturbances \in 0..MaxEvents

InboundInit ==
    /\ inbox = [m \in Message |-> "none"] /\ ingests = [m \in Message |-> 0]
    /\ pc = [w \in Worker |-> "idle"] /\ task = [w \in Worker |-> NoMessage]
    /\ deliveries = 0 /\ disturbances = 0

Goto(w, stage) == pc' = [pc EXCEPT ![w] = stage]

Finish(w) ==
    /\ pc' = [pc EXCEPT ![w] = "idle"]
    /\ task' = [task EXCEPT ![w] = NoMessage]

----------------------------------------------------------------------------
(* Every delivery is a new piece of work.                                   *)
ReceiveAnyway(w, m) ==
    /\ ~Working(w) /\ Begin(1)
    /\ inbox' = [inbox EXCEPT ![m] = "received"]
    /\ Goto(w, "gate") /\ task' = [task EXCEPT ![w] = m]
    /\ UNCHANGED ingests

(* email(), then handleInbound up to createInboundMessage: INSERT OR IGNORE *)
(* on the content hash; a duplicate ends the run.                           *)
Receive(w, m) ==
    /\ ~Working(w) /\ Begin(1)
    /\ IF inbox[m] = "none"
       THEN /\ inbox' = [inbox EXCEPT ![m] = "received"]
            /\ Goto(w, "gate") /\ task' = [task EXCEPT ![w] = m]
       ELSE UNCHANGED <<inbox, pc, task>>
    /\ UNCHANGED ingests

(* A calendar answer, or a mail that cannot be parsed: no bounce.           *)
Ignored(m) == Invite[m].parse = "error" \/ (Invite[m].parse = "ok" /\ Invite[m].kind = "other")

(* The checks of the policy that a mail does not meet; a cancellation is    *)
(* asked only for its sender.                                               *)
FailedChecks(m) ==
    (IF VerifySenderAuthentication(Mail[m]) THEN {} ELSE {"authenticated"}) \cup
    (IF Invite[m].kind = "cancel" \/ IsAllowed(Invite[m].organizer) THEN {}
     ELSE {"internal_organizer"}) \cup
    (IF Invite[m].kind = "cancel" \/ HasEligibleRecipient(Invite[m]) THEN {}
     ELSE {"eligible_recipient"})

(* Sent to another mailbox, without a Teams link, or against the policy.    *)
Refused(m) ==
    \/ Invite[m].parse = "no_teams_link"
    \/ Mail[m].to \notin Recorders
    \/ Policy \cap FailedChecks(m) # {}

(* parseIncomingInvite and the checks of handleInbound, in its order; the   *)
(* raw mail is in R2 before.                                                *)
Gate(w) ==
    /\ pc[w] = "gate"
    /\ LET m == task[w]
       IN IF Ignored(m) \/ Refused(m)
          THEN /\ inbox' = [inbox EXCEPT ![m] = IF Ignored(m) THEN "ignored"
                                                ELSE "rejected"]
               /\ Finish(w) /\ UNCHANGED ingests
          ELSE /\ ingests' = [ingests EXCEPT ![m] = @ + 1]
               /\ Goto(w, "ingest") /\ UNCHANGED <<inbox, task>>
    /\ UNCHANGED <<deliveries, disturbances>>

(* resolveInboundMessage with the outcome of the ingestion.                 *)
Resolve(w) ==
    /\ pc[w] = "resolve"
    /\ inbox' = [inbox EXCEPT ![task[w]] = "parsed"]
    /\ Goto(w, "notify")
    /\ UNCHANGED <<deliveries, ingests, task, disturbances>>

(* The run dies or a statement throws: waitUntil drops it, and the mail has *)
(* been acknowledged.                                                       *)
Fail(w) ==
    /\ Working(w) /\ Spent < MaxEvents
    /\ disturbances' = disturbances + 1
    /\ Finish(w)
    /\ UNCHANGED <<inbox, deliveries, ingests>>

----------------------------------------------------------------------------
(* However often, and however concurrently, the same bytes are delivered,   *)
(* the calendar gets them once (index.ts:50-69).                            *)
IngestedOnce == \A m \in Message : ingests[m] <= 1

NamesItsMeeting(part) ==
    /\ part.calendar # None /\ part.calendar.method = "CANCEL"
    /\ \A v \in ToSet(part.calendar.events) : "UID" \in v.has

Cancels(mail) ==
    LET calendars == {part \in ToSet(mail.parts) : IsCalendar(part)}
    IN calendars # {} /\ \A part \in calendars : NamesItsMeeting(part)

Cancellations ==
    {m \in Message : /\ Cancels(Mail[m]) /\ Sender(Mail[m]) # None /\ Recipient(Mail[m]) # None
                     /\ Mail[m].to \in Recorders /\ VerifySenderAuthentication(Mail[m])}

(* A cancellation has only to say which meeting it cancels: neither a field *)
(* that Outlook strips from it nor a missing link keeps it from the         *)
(* calendar (parseIcs.ts:47-48, parseIncomingInvite.ts:28-30).              *)
CancellationsGetThrough == \A m \in Cancellations : inbox[m] \notin {"ignored", "rejected"}
============================================================================
