---------------------------- MODULE FencedLease ----------------------------
(***************************************************************************)
(* What the durable job table promises its consumers, whatever the queue,  *)
(* the clock, crashes and admins do: a task is granted with a token nobody *)
(* has used for anything still alive, only the consumer that presents the  *)
(* task's current token settles it, and a consumer whose token was         *)
(* superseded or revoked changes nothing.                                  *)
(***************************************************************************)
CONSTANTS Task, Token, NoToken

VARIABLES phase,   \* none, open (to be granted), held or closed
          token,   \* the token that may settle the task
          claims   \* <<task, token>> pairs consumers still carry

fvars == <<phase, token, claims>>

FInit ==
    /\ phase = [t \in Task |-> "none"]
    /\ token = [t \in Task |-> NoToken]
    /\ claims = {}

(* A new task, or one reset by an admin from any phase.                     *)
Offer(t) ==
    /\ phase' = [phase EXCEPT ![t] = "open"]
    /\ token' = [token EXCEPT ![t] = NoToken]
    /\ UNCHANGED claims

(* A held task can be granted again: its lease ran out.                     *)
Grant(t, k) ==
    /\ phase[t] \in {"open", "held"}
    /\ \A c \in claims : c[2] # k
    /\ \A u \in Task : token[u] # k
    /\ phase' = [phase EXCEPT ![t] = "held"]
    /\ token' = [token EXCEPT ![t] = k]
    /\ claims' = claims \cup {<<t, k>>}

(* The current token's consumer ends its run; it may carry the spent token  *)
(* a little longer.                                                         *)
Settle(t, k) ==
    /\ <<t, k>> \in claims /\ phase[t] = "held" /\ token[t] = k
    /\ \E p \in {"open", "closed"} : phase' = [phase EXCEPT ![t] = p]
    /\ token' = [token EXCEPT ![t] = NoToken]
    /\ claims' \in {claims, claims \ {<<t, k>>}}

(* A consumer crashes, or gives up because its token is void.               *)
Forget(c) ==
    /\ c \in claims
    /\ claims' = claims \ {c}
    /\ UNCHANGED <<phase, token>>

(* An owner's tasks are withdrawn together.                                 *)
Revoke(S) ==
    /\ \A t \in S : phase[t] \in {"open", "held"}
    /\ phase' = [t \in Task |-> IF t \in S THEN "closed" ELSE phase[t]]
    /\ token' = [t \in Task |-> IF t \in S THEN NoToken ELSE token[t]]
    /\ UNCHANGED claims

Retire(t) ==
    /\ phase[t] = "closed"
    /\ phase' = [phase EXCEPT ![t] = "none"]
    /\ UNCHANGED <<token, claims>>

FNext ==
    \/ \E t \in Task : Offer(t) \/ Retire(t)
    \/ \E t \in Task, k \in Token : Grant(t, k) \/ Settle(t, k)
    \/ \E c \in claims : Forget(c)
    \/ \E S \in SUBSET Task : Revoke(S)

FSpec == FInit /\ [][FNext]_fvars
============================================================================
