-------------------------- MODULE BotRuntimeProofs --------------------------
(***************************************************************************)
(* Theorems about the bot runtime, for every set of bots and sessions,     *)
(* every capacity, every retry budget and every view of the Teams page.    *)
(***************************************************************************)
EXTENDS BotRuntime, SequenceTheorems, FiniteSetTheorems, WellFoundedInduction, TLAPS

Lives == {"none", "record", "upload", "split", "partial", "fail", "diagnose", "done"}
Aborts == {"no", "running", "finished"}

(* What the proofs need of the types.                                       *)
Types ==
    /\ say \in [Bot -> Seq(States)] /\ state \in [Bot -> States]
    /\ life \in [Bot -> Lives] /\ aborted \in [Bot -> Aborts]
    /\ hook \in [Bot -> Nat]
    /\ session \in [Bot -> SessionId \cup {NoSession}]

(* The states that bot b has taken, or has still to take.                   *)
Takes(b, st) == state[b] = st \/ \E i \in 1..Len(say[b]) : say[b][i] = st

(* A terminal state is the last that a bot takes, and runBotLifecycle is    *)
(* over when it is announced.  What is said in the stages that take no      *)
(* state was said before.                                                   *)
SaysInOrder(b) ==
    /\ hook[b] > 0 => say[b] # <<>>
    /\ life[b] \in {"split", "diagnose"} => say[b] = <<>>
    /\ \A st \in Terminal : Takes(b, st) => life[b] = "done"
    /\ \A i \in 1..Len(say[b]) : say[b][i] \in Terminal => i = Len(say[b])
    /\ state[b] \in Terminal /\ say[b] # <<>> => Len(say[b]) = 1 /\ say[b][1] = state[b]

(* A run canceled in time is neither failed nor completed.                  *)
CanceledInTime(b) ==
    aborted[b] = "running" => /\ life[b] \in {"record", "partial", "done"}
                              /\ \A st \in Terminal \ {"canceled"} : ~Takes(b, st)

LiveBots == {b \in Bot : Live(b)}

Room ==
    /\ IsFiniteSet(LiveBots) /\ Cardinality(LiveBots) <= Capacity
    /\ \A b, c \in Bot : Live(b) /\ Live(c) /\ session[b] = session[c] => b = c

IInv == Types /\ (\A b \in Bot : SaysInOrder(b) /\ CanceledInTime(b)) /\ Room

USE RecorderAssumption, RuntimeAssumption
USE DEF Lives, Aborts, Terminal, States, Announced

LEMMA Initially == Init => IInv
<1> SUFFICES ASSUME Init PROVE IInv OBVIOUS
<1> USE DEF Init, RecorderInit
<1>1. Types BY DEF Types
<1>2. \A b \in Bot : SaysInOrder(b) /\ CanceledInTime(b)
  BY DEF SaysInOrder, CanceledInTime, Takes
<1>3. LiveBots = {} BY DEF LiveBots, Live
<1>4. Room BY <1>3, FS_EmptySet DEF Room, Live
<1> QED BY <1>1, <1>2, <1>4 DEF IInv

----------------------------------------------------------------------------
(* What the steps do to the states that a bot takes.                        *)

(* What one step of record() announces: at most three states, none of them  *)
(* terminal.                                                                *)
Brief == {t \in Seq(Announced) : Len(t) <= 3}

LEMMA BriefFacts ==
  /\ \A t \in Brief : t \in Seq(Announced) /\ Len(t) <= 3
  /\ <<>> \in Brief
  /\ \A x, y \in Announced : <<x>> \in Brief /\ <<x, y>> \in Brief
  BY DEF Brief

LEMMA WaitingLeft ==
  ASSUME NEW b \in Bot, NEW states \in Seq(Announced), LeaveWaiting(b, states), Len(states) <= 2
  PROVE  \E t \in Brief : say' = [say EXCEPT ![b] = t]
<1>1. <<"prejoin">> \in Seq(Announced) /\ Len(<<"prejoin">>) = 1 OBVIOUS
<1> DEFINE more == <<"prejoin">> \o states
<1>2. more \in Seq(Announced) /\ Len(more) = 1 + Len(states) BY <1>1, ConcatProperties
<1>3. Len(states) \in Nat BY LenProperties
<1>4. states \in Brief /\ more \in Brief BY <1>2, <1>3 DEF Brief
<1>5. say' = [say EXCEPT ![b] = more] \/ say' = [say EXCEPT ![b] = states]
  BY DEF LeaveWaiting, Say
<1> QED BY <1>4, <1>5

(* record() announces nothing before the last was heard of.                 *)
LEMMA RecordAnnounces ==
  ASSUME Types, NEW b \in Bot, StartRecord(b) \/ RecordStep(b)
  PROVE  /\ say[b] = <<>> /\ aborted' = aborted
         /\ \E t \in Brief : say' = [say EXCEPT ![b] = t]
<1> USE DEF At, Say, FailJoin, Poll, pageVars
<1>0. <<>> \in Brief /\ (say[b] = <<>> => say = [say EXCEPT ![b] = <<>>])
  BY BriefFacts DEF Types
<1>s. \A x, y \in Announced : <<x>> \in Brief /\ <<x, y>> \in Brief
  BY BriefFacts
<1>w. /\ <<>> \in Seq(Announced) /\ Len(<<>>) <= 2
      /\ <<"waiting_room">> \in Seq(Announced) /\ Len(<<"waiting_room">>) <= 2
      /\ <<"joined", "recording">> \in Seq(Announced) /\ Len(<<"joined", "recording">>) <= 2
  OBVIOUS
<1>1. CASE StartRecord(b) BY <1>1, <1>s DEF StartRecord
<1>2. CASE SinkReady(b) BY <1>2, <1>s DEF SinkReady
<1>3. CASE SinkFails(b) BY <1>3, <1>0 DEF SinkFails
<1>4. CASE LoadBrowser(b) BY <1>4, <1>0 DEF LoadBrowser
<1>5. CASE Launch(b) BY <1>5, <1>0, <1>s DEF Launch
<1>6. CASE LaunchFails(b) BY <1>6, <1>0 DEF LaunchFails
<1>7. CASE SeesMeeting(b)
  BY <1>7, <1>w, WaitingLeft DEF SeesMeeting
<1>8. CASE SeesLobby(b) BY <1>8, <1>w, WaitingLeft DEF SeesLobby
<1>9. CASE SeesBlocker(b) BY <1>9, <1>0 DEF SeesBlocker
<1>10. CASE SeesNotStarted(b)
  <2>1. aborted' = aborted BY <1>10 DEF SeesNotStarted
  <2> QED BY <1>10, <1>0, <1>s, <2>1 DEF SeesNotStarted
<1>11. CASE SeesNothing(b)
  <2>1. aborted' = aborted BY <1>11 DEF SeesNothing
  <2> QED BY <1>11, <1>w, <2>1, WaitingLeft DEF SeesNothing
<1>12. CASE RunsOut(b) BY <1>12, <1>0 DEF RunsOut
<1>13. CASE Admitted(b) BY <1>13, <1>s DEF Admitted
<1>14. CASE Waits(b)
  <2>1. aborted' = aborted BY <1>14 DEF Waits
  <2> QED BY <1>14, <1>0, <2>1 DEF Waits
<1>15. CASE Capture(b) BY <1>15, <1>0 DEF Capture
<1>16. CASE Release(b) BY <1>16, <1>0 DEF Release
<1> QED
  BY <1>1, <1>2, <1>3, <1>4, <1>5, <1>6, <1>7, <1>8, <1>9, <1>10, <1>11, <1>12, <1>13,
     <1>14, <1>15, <1>16 DEF RecordStep

(* Every step but Create leaves the sessions alone, and a bot that is over  *)
(* stays over: there is room if there was.                                  *)
LEMMA RoomKept ==
  ASSUME Types, Types', Room, session' = session,
         \A b \in Bot : state[b] \in Terminal => state'[b] \in Terminal
  PROVE  Room'
<1>1. \A b \in Bot : Live(b)' => Live(b) BY DEF Live, Types
<1>2. LiveBots' \subseteq LiveBots BY <1>1 DEF LiveBots
<1>3. IsFiniteSet(LiveBots') /\ Cardinality(LiveBots') <= Cardinality(LiveBots)
  BY <1>2, FS_Subset DEF Room
<1>4. IsFiniteSet(LiveBots) /\ Cardinality(LiveBots) \in Nat
  BY FS_CardinalityType DEF Room
<1>5. Cardinality(LiveBots') \in Nat BY <1>3, FS_CardinalityType
<1>6. Cardinality(LiveBots') <= Capacity
  BY <1>3, <1>4, <1>5 DEF Room
<1> QED BY <1>1, <1>3, <1>6 DEF Room

(* A bot whose say, state, life, hook and abort are as before.              *)
LEMMA BotKept ==
  ASSUME NEW b \in Bot, SaysInOrder(b), CanceledInTime(b),
         say'[b] = say[b], state'[b] = state[b], life'[b] = life[b],
         hook'[b] = hook[b], aborted'[b] = aborted[b]
  PROVE  SaysInOrder(b)' /\ CanceledInTime(b)'
  BY DEF SaysInOrder, CanceledInTime, Takes

(* A bot that has nothing more to announce goes on, not over, and announces *)
(* states that are not terminal.                                            *)
LEMMA GoesOn ==
  ASSUME Types, NEW b \in Bot, SaysInOrder(b), CanceledInTime(b), life[b] # "done",
         say[b] = <<>>, NEW t \in Seq(States), say' = [say EXCEPT ![b] = t],
         \A i \in 1..Len(t) : t[i] \notin Terminal,
         NEW stage \in Lives, life' = [life EXCEPT ![b] = stage],
         stage \in {"split", "diagnose"} => t = <<>>,
         aborted'[b] = "running" => stage \in {"record", "partial", "done"},
         state' = state, hook' = hook, aborted' = aborted
  PROVE  SaysInOrder(b)' /\ CanceledInTime(b)'
<1>1. say'[b] = t /\ life'[b] = stage /\ hook[b] = 0 /\ state[b] \notin Terminal
  BY DEF Types, SaysInOrder, Takes
<1>2. SaysInOrder(b)' BY <1>1 DEF SaysInOrder, Takes
<1>3. CanceledInTime(b)' BY <1>1 DEF CanceledInTime, Takes
<1> QED BY <1>2, <1>3

(* A bot that has nothing more to announce ends: its last state is terminal.*)
LEMMA ComesToAnEnd ==
  ASSUME Types, NEW b \in Bot, SaysInOrder(b), life[b] # "done",
         say[b] = <<>>, NEW t \in Seq(States), say' = [say EXCEPT ![b] = t],
         \A i \in 1..Len(t) : t[i] \in Terminal => i = Len(t),
         life' = [life EXCEPT ![b] = "done"],
         aborted[b] = "running" => \A i \in 1..Len(t) : t[i] \notin Terminal \ {"canceled"},
         state' = state, hook' = hook, aborted' = aborted
  PROVE  SaysInOrder(b)' /\ CanceledInTime(b)'
<1>1. say'[b] = t /\ life'[b] = "done" /\ hook[b] = 0 /\ state[b] \notin Terminal
  BY DEF Types, SaysInOrder, Takes
<1>2. SaysInOrder(b)' BY <1>1 DEF SaysInOrder, Takes
<1>3. CanceledInTime(b)' BY <1>1 DEF CanceledInTime, Takes
<1> QED BY <1>2, <1>3

(* The head of say is heard, or given up.                                   *)
LEMMA HeadLeaves ==
  ASSUME Types, NEW b \in Bot, SaysInOrder(b), CanceledInTime(b), say[b] # <<>>,
         say' = [say EXCEPT ![b] = Tail(say[b])], hook'[b] = 0,
         life' = life, state' = state, aborted' = aborted
  PROVE  SaysInOrder(b)' /\ CanceledInTime(b)'
<1> DEFINE t == Tail(say[b])
<1>1. /\ t \in Seq(States) /\ Len(t) = Len(say[b]) - 1
      /\ \A i \in 1..Len(t) : t[i] = say[b][i + 1]
  BY HeadTailProperties DEF Types
<1>2. say'[b] = t /\ hook'[b] = 0 BY DEF Types
<1>3. \A i \in 1..Len(t) : i + 1 \in 1..Len(say[b]) BY <1>1, LenProperties DEF Types
<1> HIDE DEF t
<1>4. Len(t) \in Nat /\ Len(say[b]) \in Nat BY <1>1, LenProperties DEF Types
<1>5. \A st \in States : Takes(b, st)' => Takes(b, st) BY <1>1, <1>2, <1>3 DEF Takes
<1>6. state[b] \in Terminal => t = <<>>
  <2>1. state[b] \in Terminal => Len(t) = 0 BY <1>1 DEF SaysInOrder
  <2> QED BY <2>1, <1>1, EmptySeq
<1>7. SaysInOrder(b)' BY <1>1, <1>2, <1>3, <1>4, <1>5, <1>6 DEF SaysInOrder
<1>8. CanceledInTime(b)' BY <1>5 DEF CanceledInTime
<1> QED BY <1>7, <1>8

----------------------------------------------------------------------------
(* The invariant is inductive: one lemma for the steps of each kind.        *)

LEMMA CreateKeeps ==
  ASSUME IInv, NEW b \in Bot, NEW id \in SessionId, Create(b, id)
  PROVE  IInv'
<1> USE DEF IInv
<1> DEFINE t == <<"created">>
<1>0. t \in Seq(States) /\ Len(t) = 1 /\ t[1] = "created" OBVIOUS
<1>1. Types' BY <1>0 DEF Types, Create, Say
<1> HIDE DEF t
<1>2. ASSUME NEW c \in Bot PROVE SaysInOrder(c)' /\ CanceledInTime(c)'
  <2>1. CASE c = b
    <3>1. /\ say'[b] = t /\ t # <<>> /\ state'[b] = "created" /\ life'[b] = "record"
      BY <1>0 DEF Types, Create, Say, t
    <3> QED BY <2>1, <3>1, <1>0 DEF SaysInOrder, CanceledInTime, Takes
  <2>2. CASE c # b BY <2>2, BotKept DEF Types, Create, Say
  <2> QED BY <2>1, <2>2
<1>3. LiveBots' = LiveBots \cup {b}
  BY DEF LiveBots, Live, Create, Types
<1>4. b \notin LiveBots BY DEF LiveBots, Live, Create
<1>5. IsFiniteSet(LiveBots') /\ Cardinality(LiveBots') = Cardinality(LiveBots) + 1
  BY <1>3, <1>4, FS_AddElement DEF Room
<1>6. Cardinality(LiveBots) < Capacity BY DEF Create, LiveBots
<1>7. Cardinality(LiveBots) \in Nat BY FS_CardinalityType DEF Room
<1>8. Cardinality(LiveBots') <= Capacity BY <1>5, <1>6, <1>7
<1>9. ASSUME NEW c \in Bot, NEW d \in Bot, Live(c)', Live(d)', session'[c] = session'[d]
      PROVE  c = d
  <2>1. \A e \in Bot : e # b => session'[e] = session[e] /\ (Live(e)' => Live(e))
    BY DEF Create, Live, Types
  <2>2. session'[b] = id BY DEF Create, Types
  <2> QED BY <1>9, <2>1, <2>2 DEF Create, Room
<1>10. Room' BY <1>5, <1>8, <1>9 DEF Room
<1> QED BY <1>1, <1>2, <1>10

(* A step of one bot leaves the others as they are.                         *)
LEMMA OthersKept ==
  ASSUME Types, NEW b \in Bot, NEW c \in Bot, c # b,
         SaysInOrder(c), CanceledInTime(c),
         say' = say \/ \E t : say' = [say EXCEPT ![b] = t],
         state' = state \/ \E t : state' = [state EXCEPT ![b] = t],
         life' = life \/ \E t : life' = [life EXCEPT ![b] = t],
         hook' = hook \/ \E t : hook' = [hook EXCEPT ![b] = t],
         aborted' = aborted \/ \E t : aborted' = [aborted EXCEPT ![b] = t]
  PROVE  SaysInOrder(c)' /\ CanceledInTime(c)'
<1>1. say'[c] = say[c] BY DEF Types
<1>2. state'[c] = state[c] BY DEF Types
<1>3. life'[c] = life[c] BY DEF Types
<1>4. hook'[c] = hook[c] BY DEF Types
<1>5. aborted'[c] = aborted[c] BY DEF Types
<1> QED BY <1>1, <1>2, <1>3, <1>4, <1>5, BotKept

LEMMA CancelKeeps ==
  ASSUME IInv, NEW b \in Bot, Cancel(b)
  PROVE  IInv'
<1> USE DEF IInv
<1>1. /\ UNCHANGED <<say, state, life, hook, session>>
      /\ \E t \in Aborts : aborted' = [aborted EXCEPT ![b] = t]
  BY DEF Cancel, runtimeVars
<1>2. Types' BY <1>1 DEF Types
<1>3. SaysInOrder(b)' BY <1>1 DEF SaysInOrder, Takes
<1>4. CanceledInTime(b)'
  <2>1. aborted'[b] = "running" => life[b] = "record" BY DEF Cancel, Types
  <2> QED BY <1>1, <2>1 DEF SaysInOrder, CanceledInTime, Takes
<1>5. \A c \in Bot \ {b} : SaysInOrder(c)' /\ CanceledInTime(c)'
  BY <1>1, OthersKept
<1>6. Room' BY <1>1, <1>2, RoomKept
<1> QED BY <1>2, <1>3, <1>4, <1>5, <1>6

LEMMA TransitionKeeps ==
  ASSUME IInv, NEW b \in Bot, Transition(b)
  PROVE  IInv'
<1> USE DEF IInv
<1>0. /\ say[b] \in Seq(States) /\ say[b] # <<>> /\ hook[b] = 0
      /\ Head(say[b]) \in States /\ Tail(say[b]) \in Seq(States)
  BY HeadTailProperties DEF Transition, Types
<1>1. UNCHANGED <<life, aborted, session>> BY DEF Transition
<1>2. CASE life[b] = "record" /\ (aborted[b] # "no" \/ state[b] = Head(say[b]))
  <2>1. say' = [say EXCEPT ![b] = Tail(say[b])] /\ state' = state /\ hook' = hook
    BY <1>2 DEF Transition, Say
  <2>2. Types' BY <1>0, <1>1, <2>1 DEF Types
  <2>3. SaysInOrder(b)' /\ CanceledInTime(b)' BY <1>0, <1>1, <2>1, HeadLeaves
  <2>4. \A c \in Bot \ {b} : SaysInOrder(c)' /\ CanceledInTime(c)'
    BY <1>1, <2>1, OthersKept
  <2>5. Room' BY <1>1, <2>1, <2>2, RoomKept
  <2> QED BY <2>2, <2>3, <2>4, <2>5
<1>3. CASE ~(life[b] = "record" /\ (aborted[b] # "no" \/ state[b] = Head(say[b])))
  <2>1. /\ say' = say /\ state' = [state EXCEPT ![b] = Head(say[b])]
        /\ hook' = [hook EXCEPT ![b] = WebhookAttempts]
    BY <1>3 DEF Transition
  <2>2. Types' BY <1>0, <1>1, <2>1 DEF Types
  <2>3. /\ Len(say[b]) \in Nat \ {0} /\ Head(say[b]) = say[b][1] /\ 1 \in 1..Len(say[b])
    BY <1>0, EmptySeq, LenProperties
  <2>4. state'[b] = say[b][1] BY <2>1, <2>3 DEF Types
  <2>5. \A st \in States : Takes(b, st)' => Takes(b, st) BY <2>1, <2>3, <2>4 DEF Takes
  <2>6. SaysInOrder(b)'
    BY <1>0, <1>1, <2>1, <2>3, <2>4, <2>5 DEF SaysInOrder
  <2>7. CanceledInTime(b)' BY <1>1, <2>5 DEF CanceledInTime
  <2>8. \A c \in Bot \ {b} : SaysInOrder(c)' /\ CanceledInTime(c)'
    BY <1>1, <2>1, OthersKept
  <2>9. \A c \in Bot : state[c] \in Terminal => state'[c] \in Terminal
    BY <1>0, <2>1, <2>4 DEF SaysInOrder, Types
  <2>10. Room' BY <1>1, <2>2, <2>9, RoomKept
  <2> QED BY <2>2, <2>6, <2>7, <2>8, <2>10
<1> QED BY <1>2, <1>3

LEMMA DeliverKeeps ==
  ASSUME IInv, NEW b \in Bot, Deliver(b)
  PROVE  IInv'
<1> USE DEF IInv
<1>0. /\ say[b] \in Seq(States) /\ say[b] # <<>> /\ Tail(say[b]) \in Seq(States)
  BY HeadTailProperties DEF Deliver, Types, SaysInOrder
<1>1. UNCHANGED <<life, aborted, session, state>> BY DEF Deliver, deliveryVars
<1>2. CASE say' = [say EXCEPT ![b] = Tail(say[b])] /\ hook' = [hook EXCEPT ![b] = 0]
  <2>1. Types' BY <1>0, <1>1, <1>2 DEF Types
  <2>2. hook'[b] = 0 BY <1>2 DEF Types
  <2>3. SaysInOrder(b)' /\ CanceledInTime(b)' BY <1>0, <1>1, <1>2, <2>2, HeadLeaves
  <2>4. \A c \in Bot \ {b} : SaysInOrder(c)' /\ CanceledInTime(c)'
    BY <1>1, <1>2, OthersKept
  <2>5. Room' BY <1>1, <2>1, RoomKept
  <2> QED BY <2>1, <2>3, <2>4, <2>5
<1>3. CASE say' = say /\ hook[b] > 1 /\ hook' = [hook EXCEPT ![b] = hook[b] - 1]
  <2>1. Types' BY <1>1, <1>3 DEF Types
  <2>2. SaysInOrder(b)' /\ CanceledInTime(b)'
    BY <1>0, <1>1, <1>3 DEF SaysInOrder, CanceledInTime, Takes
  <2>3. \A c \in Bot \ {b} : SaysInOrder(c)' /\ CanceledInTime(c)'
    BY <1>1, <1>3, OthersKept
  <2>4. Room' BY <1>1, <2>1, RoomKept
  <2> QED BY <2>1, <2>2, <2>3, <2>4
<1>4. hook[b] \in Nat /\ hook[b] > 0 BY DEF Types, Deliver
<1>5. hook[b] = 1 \/ hook[b] > 1 BY <1>4
<1>6. hook[b] - 1 = 0 \/ hook[b] > 1 BY <1>4
<1> QED BY <1>2, <1>3, <1>4, <1>5, <1>6 DEF Deliver, Say

(* A step of runBotLifecycle of a bot that has nothing to announce leads to *)
(* a stage, and to states to be announced.                                  *)
LEMMA StageKeeps ==
  ASSUME IInv, NEW b \in Bot, life[b] # "done", say[b] = <<>>,
         NEW t \in Seq(States), say' = [say EXCEPT ![b] = t],
         NEW stage \in Lives, life' = [life EXCEPT ![b] = stage],
         \A i \in 1..Len(t) : t[i] \in Terminal => stage = "done" /\ i = Len(t),
         stage \in {"split", "diagnose"} => t = <<>>,
         aborted[b] = "running" =>
            /\ stage \in {"record", "partial", "done"}
            /\ \A i \in 1..Len(t) : t[i] \notin Terminal \ {"canceled"},
         UNCHANGED <<state, hook, aborted, session>>
  PROVE  IInv'
<1> USE DEF IInv
<1>1. Types' BY DEF Types
<1>2. SaysInOrder(b)' /\ CanceledInTime(b)'
  <2>1. CASE stage = "done" BY <2>1, ComesToAnEnd
  <2>2. CASE stage # "done" BY <2>2, GoesOn
  <2> QED BY <2>1, <2>2
<1>3. \A c \in Bot \ {b} : SaysInOrder(c)' /\ CanceledInTime(c)' BY OthersKept
<1>4. Room' BY <1>1, RoomKept
<1> QED BY <1>1, <1>2, <1>3, <1>4

(* It announces none on its way, or its last.                               *)
LEMMA QuietStage ==
  ASSUME IInv, NEW b \in Bot, say[b] = <<>>, say' = say, life[b] # "done",
         NEW stage \in {"upload", "split", "fail", "diagnose", "partial"},
         life' = [life EXCEPT ![b] = stage],
         aborted[b] = "running" => stage = "partial",
         UNCHANGED <<state, hook, aborted, session>>
  PROVE  IInv'
<1> DEFINE t == <<>>
<1>1. t \in Seq(States) /\ (\A i \in 1..Len(t) : FALSE) /\ say' = [say EXCEPT ![b] = t]
  BY DEF IInv, Types
<1>2. stage \in Lives OBVIOUS
<1> QED BY <1>1, <1>2, StageKeeps

LEMMA LastState ==
  ASSUME IInv, NEW b \in Bot, say[b] = <<>>, life[b] # "done", NEW st \in Terminal,
         say' = [say EXCEPT ![b] = <<st>>], life' = [life EXCEPT ![b] = "done"],
         aborted[b] = "running" => st = "canceled",
         UNCHANGED <<state, hook, aborted, session>>
  PROVE  IInv'
<1> DEFINE t == <<st>>
<1>1. t \in Seq(States) /\ Len(t) = 1 /\ \A i \in 1..Len(t) : i = Len(t) /\ t[i] = st
  OBVIOUS
<1> HIDE DEF t
<1> QED BY <1>1, StageKeeps DEF t

LEMMA RecordKeeps ==
  ASSUME IInv, NEW b \in Bot, Record(b)
  PROVE  IInv'
<1>1. UNCHANGED <<state, life, hook, session>> /\ life[b] = "record"
  BY DEF Record, runtimeVars
<1>2. PICK t \in Brief :
         say[b] = <<>> /\ aborted' = aborted /\ say' = [say EXCEPT ![b] = t]
  BY RecordAnnounces DEF Record, IInv
<1>3. t \in Seq(States) /\ \A i \in 1..Len(t) : t[i] \notin Terminal
  <2>1. t \in Seq(Announced) BY BriefFacts
  <2> QED BY <2>1
<1>4. life' = [life EXCEPT ![b] = "record"] BY <1>1 DEF IInv, Types
<1> QED BY <1>1, <1>2, <1>3, <1>4, StageKeeps

LEMMA ConcludeKeeps ==
  ASSUME IInv, NEW b \in Bot, Conclude(b)
  PROVE  IInv'
<1> USE DEF At, Enter, Say, lifeVars
<1>1. /\ UNCHANGED <<state, hook, aborted, session>>
      /\ life[b] = "record" /\ say[b] = <<>>
  BY DEF Conclude
<1>4. CASE life' = [life EXCEPT ![b] = "fail"] /\ say' = say /\ aborted[b] = "no"
  BY <1>1, <1>4, QuietStage
<1>5. ASSUME NEW stage \in {"partial", "upload"}, life' = [life EXCEPT ![b] = stage],
             say' = [say EXCEPT ![b] = <<"stopping", "uploading">>],
             stage = "upload" => aborted[b] = "no"
      PROVE  IInv'
  <2> DEFINE t == <<"stopping", "uploading">>
  <2>1. t \in Seq(States) /\ \A i \in 1..Len(t) : t[i] \notin Terminal OBVIOUS
  <2>2. stage \in Lives /\ stage \notin {"split", "diagnose"} OBVIOUS
  <2> HIDE DEF t
  <2> QED BY <1>1, <1>5, <2>1, <2>2, StageKeeps DEF t
<1>6. CASE /\ life' = [life EXCEPT ![b] = "done"]
           /\ say' = [say EXCEPT ![b] = <<"stopping", "canceled">>]
  <2> DEFINE t == <<"stopping", "canceled">>
  <2>1. /\ t \in Seq(States)
        /\ \A i \in 1..Len(t) : t[i] \in Terminal => i = Len(t) /\ t[i] = "canceled"
    OBVIOUS
  <2>2. "done" \in Lives OBVIOUS
  <2>3. \A i \in 1..Len(t) : t[i] \notin Terminal \ {"canceled"} BY <2>1
  <2> HIDE DEF t
  <2>4. say' = [say EXCEPT ![b] = t] BY <1>6 DEF t
  <2> QED BY <1>1, <1>6, <2>1, <2>2, <2>3, <2>4, StageKeeps
<1> QED BY <1>4, <1>5, <1>6 DEF Conclude

(* The steps after record().                                                *)
LEMMA UploadKeeps ==
  ASSUME IInv, NEW b \in Bot,
         \/ Upload(b) \/ Split(b) \/ UploadPartial(b) \/ FinishFailed(b)
         \/ UploadDiagnostics(b) \/ ReportFailure(b)
  PROVE  IInv'
<1> USE DEF Enter, Say, lifeVars, diagnosisVars
<1>0. life' = life => life' = [life EXCEPT ![b] = life[b]] BY DEF IInv, Types
<1>a. aborted[b] = "running" => life[b] \in {"record", "partial", "done"}
  BY DEF IInv, CanceledInTime
<1>b. life[b] \in {"split", "diagnose"} => say[b] = <<>> BY DEF IInv, SaysInOrder
<1>1. CASE Upload(b)
  <2>1. /\ UNCHANGED <<state, hook, aborted, session>>
        /\ life[b] = "upload" /\ say[b] = <<>> /\ aborted[b] # "running"
    BY <1>1, <1>a DEF Upload
  <2>2. CASE /\ say' = say
             /\ \E stage \in {"upload", "split", "fail"} : life' = [life EXCEPT ![b] = stage]
    BY <2>1, <2>2, QuietStage
  <2>3. CASE /\ say' = [say EXCEPT ![b] = <<"post_processing_completed">>]
             /\ life' = [life EXCEPT ![b] = "done"]
    BY <2>1, <2>3, LastState
  <2>4. life' = life => life' = [life EXCEPT ![b] = "upload"] BY <2>1, <1>0
  <2> QED BY <1>1, <2>2, <2>3, <2>4 DEF Upload, NextUpload, Completed, UploadAgain
<1>2. CASE Split(b) BY <1>2, <1>a, <1>b, QuietStage DEF Split
<1>3. CASE UploadPartial(b)
  <2>1. /\ UNCHANGED <<state, hook, aborted, session>>
        /\ life[b] = "partial" /\ say[b] = <<>>
    BY <1>3 DEF UploadPartial
  <2>2. CASE say' = say /\ life' = life BY <2>1, <2>2, <1>0, QuietStage
  <2>3. CASE /\ say' = [say EXCEPT ![b] = <<"canceled">>]
             /\ life' = [life EXCEPT ![b] = "done"]
    BY <2>1, <2>3, LastState
  <2> QED BY <1>3, <2>2, <2>3 DEF UploadPartial, UploadAgain
<1>4. CASE FinishFailed(b) BY <1>4, <1>a, QuietStage DEF FinishFailed
<1>5. CASE UploadDiagnostics(b)
  BY <1>5, <1>0, <1>a, <1>b, QuietStage DEF UploadDiagnostics
<1>6. CASE ReportFailure(b) BY <1>6, <1>a, <1>b, LastState DEF ReportFailure
<1> QED BY <1>1, <1>2, <1>3, <1>4, <1>5, <1>6

LEMMA NextKeeps == IInv /\ [Next]_vars => IInv'
<1> SUFFICES ASSUME IInv, [Next]_vars PROVE IInv' OBVIOUS
<1>1. CASE UNCHANGED vars
  <2>1. UNCHANGED <<say, state, life, hook, aborted, session>>
    BY <1>1 DEF vars, recorderVars, runtimeVars
  <2>2. Types' BY <2>1 DEF IInv, Types
  <2>3. \A b \in Bot : SaysInOrder(b)' /\ CanceledInTime(b)' BY <2>1, BotKept DEF IInv
  <2>4. Room' BY <2>1, <2>2, RoomKept DEF IInv
  <2> QED BY <2>2, <2>3, <2>4 DEF IInv
<1>2. ASSUME NEW b \in Bot, NEW id \in SessionId, Create(b, id) PROVE IInv'
  BY <1>2, CreateKeeps
<1>3. ASSUME NEW b \in Bot, Cancel(b) PROVE IInv' BY <1>3, CancelKeeps
<1>4. ASSUME NEW b \in Bot, DeadlinePasses(b) PROVE IInv'
  <2>1. UNCHANGED <<say, state, life, hook, aborted, session>>
    BY <1>4 DEF DeadlinePasses, Expire, runtimeVars
  <2>2. Types' BY <2>1 DEF IInv, Types
  <2>3. \A c \in Bot : SaysInOrder(c)' /\ CanceledInTime(c)' BY <2>1, BotKept DEF IInv
  <2>4. Room' BY <2>1, <2>2, RoomKept DEF IInv
  <2> QED BY <2>2, <2>3, <2>4 DEF IInv
<1>5. ASSUME NEW b \in Bot, BotStep(b) PROVE IInv'
  BY <1>5, TransitionKeeps, DeliverKeeps, RecordKeeps, ConcludeKeeps, UploadKeeps
     DEF BotStep
<1> QED BY <1>1, <1>2, <1>3, <1>4, <1>5 DEF Next

(* The inductive invariant holds in every reachable state.                  *)
THEOREM Invariant == Spec => []IInv
<1> QED BY Initially, NextKeeps, PTL DEF Spec

(* A bot that is canceled while it joins or records ends as canceled,       *)
(* whatever the page, the recorder and the uploads do (app.ts:332, 393).    *)
THEOREM CancelWinsHolds == Spec => []CancelWins
<1>1. IInv => CancelWins BY DEF IInv, CanceledInTime, Takes, CancelWins
<1> QED BY <1>1, Invariant, PTL

(* The process never runs more bots than its capacity, nor two live bots    *)
(* for one session (app.ts:235-243).                                        *)
THEOREM RoomForAllHolds == Spec => []RoomForAll
<1>1. IInv => RoomForAll BY DEF IInv, Room, LiveBots, RoomForAll
<1> QED BY <1>1, Invariant, PTL

----------------------------------------------------------------------------
(* The resources of record().                                               *)

Stages == JoinStages \cup {"idle", "capture", "release", "ended"}

(* Nothing is open before the sink is there, nor after the clean-up; only a *)
(* fault leaves an orphan.                                                  *)
Clean ==
    /\ rec \in [Bot -> Stages] /\ faults \in Nat
    /\ open \in [Bot -> SUBSET {"sink", "profile", "browser"}]
    /\ orphans \in [Bot -> SUBSET {"sink", "browser"}]
    /\ \A b \in Bot : /\ rec[b] \in {"idle", "sink", "ended"} => open[b] = {}
                      /\ faults = 0 => orphans[b] = {}

resourceVars == <<rec, open, orphans>>

LEMMA ResourcesKept ==
  ASSUME Clean, UNCHANGED resourceVars, faults' \in {faults, faults + 1}
  PROVE  Clean'
  BY DEF Clean, resourceVars

LEMMA RecordStepClean ==
  ASSUME Clean, NEW b \in Bot, StartRecord(b) \/ RecordStep(b)
  PROVE  Clean'
<1> USE DEF At, Say, Goto, Fault, Stages, JoinStages, FailJoin, Poll, pageVars, Joined
<1>1. CASE StartRecord(b) BY <1>1 DEF Clean, StartRecord
<1>2. CASE SinkReady(b) BY <1>2 DEF Clean, SinkReady
<1>3. CASE SinkFails(b) BY <1>3 DEF Clean, SinkFails
<1>4. CASE LoadBrowser(b) BY <1>4 DEF Clean, LoadBrowser
<1>5. CASE Launch(b) BY <1>5 DEF Clean, Launch
<1>6. CASE LaunchFails(b) BY <1>6 DEF Clean, LaunchFails
<1>7. CASE SeesMeeting(b) BY <1>7 DEF Clean, SeesMeeting
<1>8. CASE SeesLobby(b) BY <1>8 DEF Clean, SeesLobby
<1>9. CASE SeesBlocker(b) BY <1>9 DEF Clean, SeesBlocker
<1>10. CASE SeesNotStarted(b) BY <1>10 DEF Clean, SeesNotStarted
<1>11. CASE SeesNothing(b) BY <1>11 DEF Clean, SeesNothing
<1>12. CASE RunsOut(b) BY <1>12 DEF Clean, RunsOut
<1>13. CASE Admitted(b) BY <1>13 DEF Clean, Admitted
<1>14. CASE Waits(b) BY <1>14 DEF Clean, Waits
<1>15. CASE Capture(b) BY <1>15 DEF Clean, Capture
<1>16. CASE Release(b) BY <1>16 DEF Clean, Release
<1> QED
  BY <1>1, <1>2, <1>3, <1>4, <1>5, <1>6, <1>7, <1>8, <1>9, <1>10, <1>11, <1>12, <1>13,
     <1>14, <1>15, <1>16 DEF RecordStep

LEMMA CleanInductive == /\ Init => Clean
                        /\ Clean /\ [Next]_vars => Clean'
<1>1. Init => Clean BY DEF Init, RecorderInit, Clean, Stages
<1>2. ASSUME Clean, [Next]_vars PROVE Clean'
  <2> USE DEF resourceVars, lifeVars, diagnosisVars, deliveryVars, runtimeVars, Fault,
              Stores, Answered
  <2>1. CASE UNCHANGED vars BY <1>2, <2>1, ResourcesKept DEF vars, recorderVars
  <2>2. ASSUME NEW b \in Bot, NEW id \in SessionId, Create(b, id) PROVE Clean'
    BY <1>2, <2>2, ResourcesKept DEF Create
  <2>3. ASSUME NEW b \in Bot, Cancel(b) \/ DeadlinePasses(b) PROVE Clean'
    BY <1>2, <2>3, ResourcesKept DEF Cancel, DeadlinePasses, Expire
  <2>4. ASSUME NEW b \in Bot, Record(b) PROVE Clean'
    BY <1>2, <2>4, RecordStepClean DEF Record
  <2>5. ASSUME NEW b \in Bot, Transition(b) \/ Deliver(b) \/ Conclude(b) PROVE Clean'
    BY <1>2, <2>5, ResourcesKept DEF Transition, Deliver, Conclude
  <2>6. ASSUME NEW b \in Bot, Upload(b) \/ Split(b) \/ UploadPartial(b) PROVE Clean'
    BY <1>2, <2>6, ResourcesKept DEF Upload, Split, UploadPartial
  <2>7. ASSUME NEW b \in Bot,
               FinishFailed(b) \/ UploadDiagnostics(b) \/ ReportFailure(b)
        PROVE Clean'
    BY <1>2, <2>7, ResourcesKept DEF FinishFailed, UploadDiagnostics, ReportFailure
  <2> QED BY <1>2, <2>1, <2>2, <2>3, <2>4, <2>5, <2>6, <2>7 DEF Next, BotStep
<1> QED BY <1>1, <1>2

(* Whatever the page shows, however often the join is retried and whenever  *)
(* it is canceled, record() leaves no browser, profile or sink behind,      *)
(* short of a fault (runtime.ts:213-221).                                   *)
THEOREM NothingLeftBehindHolds == Spec => []NothingLeftBehind
<1>1. Clean => NothingLeftBehind BY DEF Clean, NothingLeftBehind
<1> QED BY <1>1, CleanInductive, PTL DEF Spec

----------------------------------------------------------------------------
(* What is reported.                                                        *)

Records == [todo : Seq(Diagnostics), kept : SUBSET Diagnostics, keys : SUBSET Diagnostics]

(* The parts before the one being uploaded are stored; a key is kept from   *)
(* the end of record() on, and by a canceled run only with its object.      *)
Reports(b) ==
    /\ session[b] = NoSession => life[b] = "none"
    /\ life[b] \in {"none", "record", "partial"} => part[b] = 0
    /\ life[b] \in {"none", "record"} => ~keyed[b]
    /\ \A p \in Parts : p < part[b] => p \in stored[b]
    /\ Takes(b, "post_processing_completed") =>
          /\ 0 \in stored[b]
          /\ bytes[b] = "large" => stored[b] = Parts
    /\ Takes(b, "canceled") /\ keyed[b] => 0 \in stored[b]
    /\ diag[b].keys \subseteq diag[b].kept

ReportsInv ==
    /\ part \in [Bot -> Parts] /\ stored \in [Bot -> SUBSET Parts]
    /\ keyed \in [Bot -> BOOLEAN] /\ diag \in [Bot -> Records]
    /\ bytes \in [Bot -> {"none", "small", "large"}]
    /\ \A b \in Bot : Reports(b)

reportVars == <<part, stored, keyed, diag>>

LEMMA ReportsKept ==
  ASSUME ReportsInv, session' = session, UNCHANGED reportVars,
         bytes' \in [Bot -> {"none", "small", "large"}],
         life' = life,
         \A b \in Bot : bytes'[b] = bytes[b] \/ ~Takes(b, "post_processing_completed")',
         \A b \in Bot : \A st \in Terminal : Takes(b, st)' => Takes(b, st)
  PROVE  ReportsInv'
  BY DEF ReportsInv, Reports, reportVars

(* Nothing is taken in the end that was not, unless the run is over.        *)
LEMMA NotOverTakesNone ==
  ASSUME IInv, NEW b \in Bot, life[b] # "done"
  PROVE  \A st \in Terminal : ~Takes(b, st)
  BY DEF IInv, SaysInOrder

LEMMA PartsFacts == Chunks \in Nat /\ \A p : p \in Parts <=> p \in Nat /\ p <= Chunks
<1>1. Chunks \in Nat OBVIOUS
<1> QED BY <1>1 DEF Parts

LEMMA StartReports ==
  ASSUME IInv, IInv', ReportsInv,
         \/ \E b \in Bot : \E id \in SessionId : Create(b, id)
         \/ \E b \in Bot : Cancel(b) \/ DeadlinePasses(b) \/ Record(b)
         \/ UNCHANGED vars
  PROVE  ReportsInv'
<1> USE DEF runtimeVars, reportVars
<1>1. ASSUME NEW b \in Bot, NEW id \in SessionId, Create(b, id) PROVE ReportsInv'
  <2>1. /\ UNCHANGED reportVars /\ session' = [session EXCEPT ![b] = id]
        /\ life' = [life EXCEPT ![b] = "record"] /\ session[b] = NoSession
        /\ UNCHANGED bytes
    BY <1>1 DEF Create
  <2>2. id # NoSession /\ life'[b] = "record" /\ session'[b] = id
    BY <2>1 DEF IInv, Types
  <2>3. Reports(b)'
    <3>1. \A st \in Terminal : ~Takes(b, st)' BY <2>2 DEF IInv, SaysInOrder
    <3> QED BY <2>1, <2>2, <3>1 DEF ReportsInv, Reports
  <2>4. ASSUME NEW c \in Bot \ {b} PROVE Reports(c)'
    <3>1. /\ session'[c] = session[c] /\ life'[c] = life[c]
          /\ say'[c] = say[c] /\ state'[c] = state[c]
      BY <1>1 DEF Create, Say, IInv, Types
    <3> QED BY <2>1, <3>1 DEF ReportsInv, Reports, Takes
  <2> QED BY <2>1, <2>3, <2>4 DEF ReportsInv
<1>2. ASSUME NEW b \in Bot, Cancel(b) \/ DeadlinePasses(b) PROVE ReportsInv'
  <2>1. UNCHANGED <<reportVars, session, life, say, state, bytes>>
    BY <1>2 DEF Cancel, DeadlinePasses, Expire
  <2>2. \A c \in Bot : \A st \in Terminal : Takes(c, st)' => Takes(c, st) BY <2>1 DEF Takes
  <2> QED BY <2>1, <2>2, ReportsKept DEF ReportsInv
<1>3. ASSUME NEW b \in Bot, Record(b) PROVE ReportsInv'
  <2>1. UNCHANGED <<reportVars, session, life, state>> /\ life[b] = "record"
    BY <1>3 DEF Record
  <2>2. \A st \in Terminal : ~Takes(b, st)' BY <2>1 DEF IInv, SaysInOrder
  <2>3. PICK t \in Brief : say' = [say EXCEPT ![b] = t]
    BY <1>3, RecordAnnounces DEF Record, IInv
  <2>4. /\ \A c \in Bot \ {b} : bytes'[c] = bytes[c] /\ say'[c] = say[c]
        /\ bytes' \in [Bot -> {"none", "small", "large"}]
    <3>1. \A c \in Bot \ {b} : say'[c] = say[c] BY <2>3 DEF IInv, Types
    <3>2. bytes' = bytes \/ \E x \in {"none", "small", "large"} : bytes' = [bytes EXCEPT ![b] = x]
      BY <1>3 DEF Record, RecordStep, StartRecord, SinkReady, SinkFails, LoadBrowser,
             Launch, LaunchFails, SeesMeeting, SeesLobby, SeesBlocker, SeesNotStarted,
             SeesNothing, RunsOut, Admitted, Waits, Capture, Release, FailJoin, Poll, pageVars
    <3> QED BY <3>1, <3>2 DEF ReportsInv
  <2>5. \A c \in Bot \ {b} : \A st \in Terminal : Takes(c, st)' => Takes(c, st)
    BY <2>1, <2>4 DEF Takes
  <2> QED BY <2>1, <2>2, <2>4, <2>5, ReportsKept DEF ReportsInv
<1>4. CASE UNCHANGED vars
  <2>1. UNCHANGED <<reportVars, session, life, say, state, bytes>>
    BY <1>4 DEF vars, recorderVars
  <2>2. \A c \in Bot : \A st \in Terminal : Takes(c, st)' => Takes(c, st) BY <2>1 DEF Takes
  <2> QED BY <2>1, <2>2, ReportsKept DEF ReportsInv
<1> QED BY <1>1, <1>2, <1>3, <1>4

(* Transitions take what was said, and deliveries drop it.                  *)
LEMMA TransitionReports ==
  ASSUME IInv, ReportsInv, NEW b \in Bot, Transition(b) \/ Deliver(b)
  PROVE  ReportsInv'
<1>1. UNCHANGED <<reportVars, session, life, bytes>>
  BY DEF Transition, Deliver, deliveryVars, reportVars
<1>2. /\ say[b] \in Seq(States) /\ say[b] # <<>> /\ Tail(say[b]) \in Seq(States)
      /\ Len(Tail(say[b])) = Len(say[b]) - 1
      /\ \A i \in 1..Len(Tail(say[b])) : Tail(say[b])[i] = say[b][i + 1]
      /\ Head(say[b]) = say[b][1] /\ Len(say[b]) \in Nat \ {0}
  BY HeadTailProperties, EmptySeq, LenProperties
     DEF Transition, Deliver, IInv, Types, SaysInOrder
<1>3. \/ state' = state
      \/ state' = [state EXCEPT ![b] = Head(say[b])]
  BY DEF Transition, Deliver, deliveryVars
<1>4. say' = say \/ say' = [say EXCEPT ![b] = Tail(say[b])]
  BY DEF Transition, Deliver, Say
<1>5. ASSUME NEW c \in Bot, NEW st \in Terminal, Takes(c, st)' PROVE Takes(c, st)
  <2>1. state'[c] = state[c] \/ (c = b /\ state'[c] = say[b][1])
    BY <1>2, <1>3 DEF IInv, Types
  <2>2. say'[c] = say[c] \/ (c = b /\ say'[c] = Tail(say[b]))
    BY <1>4 DEF IInv, Types
  <2>3. ASSUME NEW i \in 1..Len(Tail(say[b])) PROVE \E j \in 1..Len(say[b]) : Tail(say[b])[i] = say[b][j]
    <3>1. i + 1 \in 1..Len(say[b]) /\ Tail(say[b])[i] = say[b][i + 1] BY <1>2
    <3> QED BY <3>1
  <2>4. 1 \in 1..Len(say[b]) BY <1>2
  <2>5. CASE state'[c] = st BY <2>1, <2>4, <2>5 DEF Takes
  <2>6. ASSUME NEW i \in 1..Len(say'[c]), say'[c][i] = st PROVE Takes(c, st)
    BY <2>2, <2>3, <2>6 DEF Takes
  <2> QED BY <1>5, <2>5, <2>6 DEF Takes
<1>6. bytes' \in [Bot -> {"none", "small", "large"}] /\ \A c \in Bot : bytes'[c] = bytes[c]
  BY <1>1 DEF ReportsInv
<1> QED BY <1>1, <1>5, <1>6, ReportsKept DEF reportVars

(* A step of the life cycle of one bot, after which its report is in order. *)
LEMMA OneReports ==
  ASSUME IInv, ReportsInv, NEW b \in Bot, Reports(b)',
         part' \in [Bot -> Parts], stored' \in [Bot -> SUBSET Parts],
         keyed' \in [Bot -> BOOLEAN], diag' \in [Bot -> Records],
         UNCHANGED <<session, state, bytes>>,
         \A c \in Bot \ {b} : /\ life'[c] = life[c] /\ say'[c] = say[c]
                              /\ part'[c] = part[c] /\ stored'[c] = stored[c]
                              /\ keyed'[c] = keyed[c] /\ diag'[c] = diag[c]
  PROVE  ReportsInv'
<1>1. ASSUME NEW c \in Bot \ {b} PROVE Reports(c)'
  <2>1. \A st \in Terminal : Takes(c, st)' => Takes(c, st) BY DEF Takes
  <2>2. session'[c] = session[c] /\ bytes'[c] = bytes[c] OBVIOUS
  <2> QED BY <2>1, <2>2 DEF ReportsInv, Reports
<1> QED BY <1>1 DEF ReportsInv

LEMMA ConcludeReports ==
  ASSUME IInv, IInv', ReportsInv, NEW b \in Bot, Conclude(b)
  PROVE  ReportsInv'
<1> USE DEF lifeVars, Enter, Say, Keep, At
<1>1. /\ UNCHANGED <<session, state, bytes, part, stored, diag>>
      /\ life[b] = "record" /\ say[b] = <<>>
  BY DEF Conclude
<1>t. life \in [Bot -> Lives] /\ say \in [Bot -> Seq(States)] /\ keyed \in [Bot -> BOOLEAN]
  BY DEF IInv, Types, ReportsInv
<1>2. /\ keyed' = keyed \/ keyed' = [keyed EXCEPT ![b] = TRUE]
      /\ \E stage \in Lives : life' = [life EXCEPT ![b] = stage]
      /\ say' = say \/ \E t : say' = [say EXCEPT ![b] = t]
  BY <1>1 DEF Conclude
<1>3. session[b] # NoSession /\ part[b] = 0 /\ ~keyed[b]
  BY <1>1 DEF ReportsInv, Reports
<1>4. \A st \in Terminal : ~Takes(b, st) BY <1>1, NotOverTakesNone
<1>5. Reports(b)'
  <2>1. CASE life'[b] = "done" /\ keyed' = keyed /\ say'[b] = <<"stopping", "canceled">>
    <3>1. ~Takes(b, "post_processing_completed")'
      BY <1>1, <1>4, <2>1 DEF Takes
    <3> QED BY <1>1, <1>3, <2>1, <3>1 DEF ReportsInv, Reports
  <2>2. CASE life'[b] \in {"fail", "upload", "partial"}
    <3>1. \A st \in Terminal : ~Takes(b, st)' BY <2>2 DEF IInv, SaysInOrder
    <3> QED BY <1>1, <1>3, <2>2, <3>1 DEF ReportsInv, Reports
  <2> QED BY <1>1, <1>t, <2>1, <2>2 DEF Conclude
<1>6. /\ keyed' \in [Bot -> BOOLEAN]
      /\ \A c \in Bot \ {b} : /\ life'[c] = life[c] /\ say'[c] = say[c]
                              /\ keyed'[c] = keyed[c]
  BY <1>2, <1>t
<1> QED BY <1>1, <1>5, <1>6, OneReports DEF ReportsInv

(* A part that was stored stays so, and the next one's turn comes after it. *)
LEMMA UploadReports ==
  ASSUME IInv, IInv', ReportsInv, NEW b \in Bot, Upload(b)
  PROVE  ReportsInv'
<1> USE DEF lifeVars, Enter, Say, Completed, UploadAgain
<1>1. /\ UNCHANGED <<session, state, bytes, diag, keyed>>
      /\ life[b] = "upload" /\ say[b] = <<>>
  BY DEF Upload
<1>2. PICK answer \in Answers(bytes[b]) :
         /\ Stores(b, answer)
         /\ IF answer = "stored"
            THEN NextUpload(b) /\ tries' = [tries EXCEPT ![b] = 0] /\ UNCHANGED <<keyed, error>>
            ELSE IF GivesUp(b, answer)
            THEN Enter(b, "fail") /\ Throw(b, "upload") /\ UNCHANGED <<say, part, tries, keyed>>
            ELSE UploadAgain(b, answer)
  BY DEF Upload
<1>t. /\ part \in [Bot -> Parts] /\ stored \in [Bot -> SUBSET Parts]
      /\ say \in [Bot -> Seq(States)] /\ life \in [Bot -> Lives]
      /\ part[b] \in Nat /\ part[b] <= Chunks
  BY PartsFacts DEF IInv, Types, ReportsInv
<1>3. session[b] # NoSession /\ \A p \in Parts : p < part[b] => p \in stored[b]
  BY <1>1 DEF ReportsInv, Reports
<1>4. \/ stored' = [stored EXCEPT ![b] = stored[b] \cup {part[b]}]
      \/ stored' = stored /\ answer # "stored"
  BY <1>2, <1>t DEF Stores, Put
<1>5. /\ stored' \in [Bot -> SUBSET Parts] /\ stored[b] \subseteq stored'[b]
      /\ answer = "stored" => part[b] \in stored'[b]
      /\ \A c \in Bot \ {b} : stored'[c] = stored[c]
  <2>1. CASE stored' = [stored EXCEPT ![b] = stored[b] \cup {part[b]}]
    <3>1. stored[b] \cup {part[b]} \in SUBSET Parts BY <1>t
    <3>2. stored' \in [Bot -> SUBSET Parts] BY <2>1, <3>1, <1>t
    <3> QED BY <2>1, <3>2, <1>t
  <2>2. CASE stored' = stored /\ answer # "stored" BY <2>2, <1>t
  <2> QED BY <1>4, <2>1, <2>2
<1>6. CASE life' = [life EXCEPT ![b] = "done"]
  <2>1. /\ answer = "stored" /\ say' = [say EXCEPT ![b] = <<"post_processing_completed">>]
        /\ part' = part /\ (bytes[b] = "large" => part[b] >= Chunks)
    BY <1>1, <1>2, <1>6, <1>t DEF NextUpload
  <2>2. 0 \in stored'[b]
    <3>1. part[b] = 0 \/ 0 < part[b] BY <1>t
    <3>2. 0 \in Parts BY PartsFacts
    <3> QED BY <1>3, <1>5, <2>1, <3>1, <3>2
  <2>3. bytes[b] = "large" => stored'[b] = Parts
    <3>1. SUFFICES ASSUME bytes[b] = "large", NEW p \in Parts PROVE p \in stored'[b]
      BY <1>5
    <3>2. p \in Nat /\ p <= Chunks BY PartsFacts
    <3>3. p = part[b] \/ p < part[b] BY <1>t, <2>1, <3>1, <3>2
    <3> QED BY <1>3, <1>5, <2>1, <3>3
  <2>4. Reports(b)'
    BY <1>1, <1>3, <1>5, <1>6, <1>t, <2>1, <2>2, <2>3 DEF Reports, ReportsInv
  <2> QED BY <1>1, <1>5, <1>6, <1>t, <2>1, <2>4, OneReports DEF ReportsInv
<1>7. CASE \E stage \in {"upload", "split", "fail"} : life' = [life EXCEPT ![b] = stage]
  <2>1. life'[b] \in {"upload", "split", "fail"} BY <1>7, <1>t
  <2>2. say' = say BY <1>1, <1>2, <1>t, <2>1 DEF NextUpload
  <2>3. \/ part' = part
        \/ answer = "stored" /\ part[b] < Chunks /\ part' = [part EXCEPT ![b] = part[b] + 1]
    BY <1>1, <1>2, <1>t DEF NextUpload
  <2>4. part' \in [Bot -> Parts] /\ \A c \in Bot \ {b} : part'[c] = part[c]
    <3>1. part[b] < Chunks => part[b] + 1 \in Parts BY <1>t, PartsFacts
    <3> QED BY <2>3, <3>1, <1>t
  <2>5. ASSUME NEW p \in Parts, p < part'[b] PROVE p \in stored'[b]
    <3>1. p \in Nat BY PartsFacts
    <3>2. CASE part' = part BY <1>3, <1>5, <2>5, <3>2
    <3>3. CASE answer = "stored" /\ part' = [part EXCEPT ![b] = part[b] + 1]
      <4>1. p = part[b] \/ p < part[b] BY <1>t, <2>5, <3>1, <3>3
      <4> QED BY <1>3, <1>5, <3>3, <4>1
    <3> QED BY <2>3, <3>2, <3>3
  <2>6. \A st \in Terminal : ~Takes(b, st)' BY <2>1 DEF IInv, SaysInOrder
  <2>7. Reports(b)'
    BY <1>1, <1>3, <2>1, <2>5, <2>6 DEF Reports, ReportsInv
  <2> QED BY <1>1, <1>5, <1>7, <1>t, <2>2, <2>4, <2>7, OneReports DEF ReportsInv
<1>8. life' = life => life' = [life EXCEPT ![b] = "upload"] BY <1>1, <1>t
<1> QED BY <1>1, <1>2, <1>6, <1>7, <1>8 DEF NextUpload

(* A canceled run keeps its key only when its object is stored.             *)
LEMMA PartialReports ==
  ASSUME IInv, IInv', ReportsInv, NEW b \in Bot, UploadPartial(b)
  PROVE  ReportsInv'
<1> USE DEF lifeVars, Enter, Say, Keep, UploadAgain
<1>t. /\ part \in [Bot -> Parts] /\ stored \in [Bot -> SUBSET Parts]
      /\ say \in [Bot -> Seq(States)] /\ life \in [Bot -> Lives]
      /\ keyed \in [Bot -> BOOLEAN]
  BY DEF IInv, Types, ReportsInv
<1>0. 0 \in Parts BY PartsFacts
<1>1. /\ UNCHANGED <<session, state, bytes, diag, part>>
      /\ life[b] = "partial" /\ say[b] = <<>>
  BY DEF UploadPartial
<1>2. PICK answer \in Answers(bytes[b]) :
         /\ Stores(b, answer)
         /\ IF answer # "stored" /\ ~GivesUp(b, answer)
            THEN UploadAgain(b, answer)
            ELSE /\ Enter(b, "done") /\ Say(b, <<"canceled">>) /\ Keep(b, answer = "stored")
                 /\ UNCHANGED <<tries, part, error>>
  BY DEF UploadPartial
<1>3. session[b] # NoSession /\ part[b] = 0
  BY <1>1 DEF ReportsInv, Reports
<1>4. /\ stored' \in [Bot -> SUBSET Parts] /\ stored[b] \subseteq stored'[b]
      /\ answer = "stored" => 0 \in stored'[b]
      /\ \A c \in Bot \ {b} : stored'[c] = stored[c]
  <2>1. CASE stored' = [stored EXCEPT ![b] = stored[b] \cup {0}]
    <3>1. stored[b] \cup {0} \in SUBSET Parts BY <1>0, <1>t
    <3>2. stored' \in [Bot -> SUBSET Parts] BY <2>1, <3>1, <1>t
    <3> QED BY <2>1, <3>2, <1>t
  <2>2. CASE stored' = stored /\ answer # "stored" BY <2>2, <1>t
  <2>3. \/ stored' = [stored EXCEPT ![b] = stored[b] \cup {0}]
        \/ stored' = stored /\ answer # "stored"
    BY <1>2, <1>3, <1>t DEF Stores, Put
  <2> QED BY <2>1, <2>2, <2>3
<1>5. CASE UNCHANGED <<say, life, keyed>>
  <2>1. \A st \in Terminal : ~Takes(b, st)' BY <1>1, <1>5 DEF IInv, SaysInOrder
  <2>2. Reports(b)' BY <1>1, <1>3, <1>4, <1>5, <1>t, <2>1 DEF Reports, ReportsInv
  <2> QED BY <1>1, <1>4, <1>5, <1>t, <2>2, OneReports DEF ReportsInv
<1>6. CASE /\ life' = [life EXCEPT ![b] = "done"] /\ say' = [say EXCEPT ![b] = <<"canceled">>]
           /\ keyed' = [keyed EXCEPT ![b] = (answer = "stored")]
  <2>1. ~Takes(b, "post_processing_completed") BY <1>1, NotOverTakesNone
  <2>2. say'[b] = <<"canceled">> BY <1>6, <1>t
  <2>3. ~Takes(b, "post_processing_completed")' BY <1>1, <2>1, <2>2 DEF Takes
  <2>4. keyed'[b] => 0 \in stored'[b] BY <1>4, <1>6, <1>t
  <2>5. life'[b] = "done" BY <1>6, <1>t
  <2>6. \A p \in Parts : ~(p < part'[b])
    BY <1>1, <1>3, PartsFacts
  <2>7. Reports(b)' BY <1>1, <1>3, <2>3, <2>4, <2>5, <2>6 DEF Reports, ReportsInv
  <2> QED BY <1>1, <1>4, <1>6, <1>t, <2>7, OneReports DEF ReportsInv
<1> QED BY <1>2, <1>5, <1>6

LEMMA LifeReports ==
  ASSUME IInv, IInv', ReportsInv, NEW b \in Bot,
         Split(b) \/ FinishFailed(b) \/ UploadDiagnostics(b) \/ ReportFailure(b)
  PROVE  ReportsInv'
<1> USE DEF lifeVars, diagnosisVars, Enter, Say
<1>t. /\ diag \in [Bot -> Records] /\ part \in [Bot -> Parts]
      /\ stored \in [Bot -> SUBSET Parts] /\ keyed \in [Bot -> BOOLEAN]
      /\ say \in [Bot -> Seq(States)] /\ life \in [Bot -> Lives]
  BY DEF IInv, Types, ReportsInv
<1>1. UNCHANGED <<session, state, bytes, part, stored, keyed>> /\ life[b] \notin {"none", "done"}
  BY DEF Split, FinishFailed, UploadDiagnostics, ReportFailure
<1>2. session[b] # NoSession /\ \A st \in Terminal : ~Takes(b, st)
  BY <1>1, NotOverTakesNone DEF ReportsInv, Reports
<1>3. /\ life'[b] \notin {"none", "record", "partial"}
      /\ \A st \in Terminal \ {"failed"} : ~Takes(b, st)'
  <2>1. CASE ReportFailure(b)
    <3>1. life'[b] = "done" /\ say'[b] = <<"failed">> BY <2>1, <1>t DEF ReportFailure
    <3> QED BY <1>1, <1>2, <3>1 DEF Takes
  <2>2. CASE Split(b) \/ FinishFailed(b) \/ UploadDiagnostics(b)
    <3>1. life'[b] \in {"upload", "fail", "diagnose"}
      BY <2>2, <1>t DEF Split, FinishFailed, UploadDiagnostics
    <3> QED BY <3>1 DEF IInv, SaysInOrder
  <2> QED BY <2>1, <2>2
<1>4. \A c \in Bot \ {b} : life'[c] = life[c] /\ say'[c] = say[c]
  BY <1>t DEF Split, FinishFailed, UploadDiagnostics, ReportFailure
<1>5. /\ diag' \in [Bot -> Records] /\ \A c \in Bot \ {b} : diag'[c] = diag[c]
      /\ diag'[b].keys \subseteq diag'[b].kept
  <2>0. diag[b] \in Records /\ diag[b].keys \subseteq diag[b].kept
    BY <1>t DEF ReportsInv, Reports
  <2>1. CASE diag' = diag BY <2>0, <2>1, <1>t
  <2>2. CASE FinishFailed(b)
    <3>1. PICK page \in CapturePageDiagnostics(error[b]) :
             diag' = [diag EXCEPT ![b].todo = page \o <<"log">>]
      BY <2>2 DEF FinishFailed
    <3>2. page = <<>> \/ page = <<"page">> BY <3>1 DEF CapturePageDiagnostics
    <3>3. /\ <<>> \in Seq(Diagnostics) /\ <<"page">> \in Seq(Diagnostics)
          /\ <<"log">> \in Seq(Diagnostics)
      BY DEF Diagnostics
    <3> DEFINE t == page \o <<"log">>
    <3>4. t \in Seq(Diagnostics) BY <3>2, <3>3, ConcatProperties
    <3> HIDE DEF t
    <3>5. diag' = [diag EXCEPT ![b].todo = t] BY <3>1 DEF t
    <3>6. diag'[b] = [diag[b] EXCEPT !.todo = t] BY <3>5, <1>t
    <3>7. diag'[b] \in Records /\ diag'[b].keys = diag[b].keys /\ diag'[b].kept = diag[b].kept
      BY <2>0, <3>4, <3>6 DEF Records
    <3> QED BY <2>0, <3>5, <3>7, <1>t
  <2>3. CASE UploadDiagnostics(b)
    <3> DEFINE key == Head(diag[b].todo)
    <3>1. key \in Diagnostics /\ Tail(diag[b].todo) \in Seq(Diagnostics)
      BY <2>0, <2>3, HeadTailProperties DEF UploadDiagnostics, Records
    <3>2. PICK answer \in Answers("small") :
             diag' = [diag EXCEPT ![b] =
                           [todo |-> Tail(@.todo),
                            kept |-> IF Put(answer) THEN @.kept \cup {key} ELSE @.kept,
                            keys |-> IF answer = "stored" THEN @.keys \cup {key} ELSE @.keys]]
      BY <2>3 DEF UploadDiagnostics
    <3>3. answer = "stored" => Put(answer) BY DEF Put
    <3> HIDE DEF key
    <3> QED BY <2>0, <3>1, <3>2, <3>3, <1>t DEF Records
  <2> QED BY <2>1, <2>2, <2>3 DEF Split, ReportFailure
<1>6. Reports(b)'
  BY <1>1, <1>2, <1>3, <1>5 DEF Reports, ReportsInv
<1> QED BY <1>1, <1>4, <1>5, <1>6, <1>t, OneReports

LEMMA ReportsInductive == /\ Init => ReportsInv
                          /\ IInv /\ IInv' /\ ReportsInv /\ [Next]_vars => ReportsInv'
<1>1. ASSUME Init PROVE ReportsInv
  <2> USE <1>1 DEF Init, RecorderInit
  <2>1. /\ part \in [Bot -> Parts] /\ stored \in [Bot -> SUBSET Parts]
        /\ keyed \in [Bot -> BOOLEAN] /\ bytes \in [Bot -> {"none", "small", "large"}]
    BY PartsFacts
  <2>2. diag \in [Bot -> Records] BY DEF NoDiagnostics, Records
  <2>3. ASSUME NEW b \in Bot PROVE Reports(b)
    <3>1. \A st \in Terminal : ~Takes(b, st) BY DEF Takes
    <3>2. part[b] = 0 /\ \A p \in Parts : ~(p < 0) BY PartsFacts
    <3> QED BY <3>1, <3>2 DEF Reports, NoDiagnostics
  <2> QED BY <2>1, <2>2, <2>3 DEF ReportsInv
<1>2. ASSUME IInv, IInv', ReportsInv, [Next]_vars PROVE ReportsInv'
  BY <1>2, StartReports, TransitionReports, ConcludeReports, UploadReports, PartialReports,
     LifeReports DEF Next, BotStep
<1> QED BY <1>1, <1>2

(* Whatever fails and however often it is tried, a bot that completed has   *)
(* its recording and all of its chunks in storage, and reports no key of an *)
(* object that is not there (app.ts:393-394, 410-411).                      *)
THEOREM ReportedIsStoredHolds == Spec => []ReportedIsStored
<1>1. ReportsInv => ReportedIsStored BY DEF ReportsInv, Reports, Takes, ReportedIsStored
<1> QED BY <1>1, Invariant, ReportsInductive, PTL DEF Spec

----------------------------------------------------------------------------
(* What is heard.                                                           *)

(* Every attempt that failed was a fault.                                   *)
Hearing ==
    /\ faults \in Nat /\ hook \in [Bot -> Nat]
    /\ heard \in [Bot -> States] /\ state \in [Bot -> States]
    /\ \A b \in Bot : /\ hook[b] > 0 => WebhookAttempts <= hook[b] + faults
                      /\ hook[b] = 0 => heard[b] = state[b] \/ WebhookAttempts <= faults

LEMMA HearingKept ==
  ASSUME Hearing, UNCHANGED <<hook, heard, state>>, faults' \in {faults, faults + 1}
  PROVE  Hearing'
<1>1. faults' \in Nat /\ faults <= faults' BY DEF Hearing
<1>2. WebhookAttempts \in Nat \ {0} OBVIOUS
<1> QED BY <1>1, <1>2 DEF Hearing

LEMMA HearingInductive == /\ Init => Hearing
                          /\ IInv /\ IInv' /\ Hearing /\ [Next]_vars => Hearing'
<1>w. WebhookAttempts \in Nat \ {0} OBVIOUS
<1>1. Init => Hearing BY DEF Init, RecorderInit, Hearing
<1>2. ASSUME IInv, IInv', Hearing, [Next]_vars PROVE Hearing'
  <2> USE DEF lifeVars, diagnosisVars, runtimeVars, Fault, Stores, Answered
  <2>1. CASE UNCHANGED vars BY <1>2, <2>1, HearingKept DEF vars, recorderVars
  <2>2. ASSUME NEW b \in Bot, NEW id \in SessionId, Create(b, id) PROVE Hearing'
    <3>1. /\ UNCHANGED <<heard, faults>> /\ hook' = [hook EXCEPT ![b] = WebhookAttempts]
          /\ state' = [state EXCEPT ![b] = "created"]
      BY <2>2 DEF Create
    <3> QED BY <1>2, <1>w, <3>1 DEF Hearing
  <2>3. ASSUME NEW b \in Bot, Cancel(b) \/ DeadlinePasses(b) PROVE Hearing'
    BY <1>2, <2>3, HearingKept DEF Cancel, DeadlinePasses, Expire
  <2>4. ASSUME NEW b \in Bot, Record(b) PROVE Hearing'
    <3>1. UNCHANGED <<hook, heard, state>> BY <2>4 DEF Record
    <3>2. faults' \in {faults, faults + 1}
      BY <2>4 DEF Record, RecordStep, StartRecord, SinkReady, SinkFails, LoadBrowser, Launch,
             LaunchFails, SeesMeeting, SeesLobby, SeesBlocker, SeesNotStarted, SeesNothing,
             RunsOut, Admitted, Waits, Capture, Release, FailJoin, Poll, pageVars
    <3> QED BY <1>2, <3>1, <3>2, HearingKept
  <2>5. ASSUME NEW b \in Bot, Transition(b) PROVE Hearing'
    <3>1. CASE UNCHANGED <<state, hook, heard, faults>> BY <1>2, <3>1, HearingKept
    <3>2. CASE /\ hook' = [hook EXCEPT ![b] = WebhookAttempts] /\ UNCHANGED <<heard, faults>>
               /\ state' = [state EXCEPT ![b] = Head(say[b])]
      <4>1. state' \in [Bot -> States] BY <1>2 DEF IInv, Types
      <4> QED BY <1>2, <1>w, <3>2, <4>1 DEF Hearing
    <3> QED BY <2>5, <3>1, <3>2 DEF Transition
  <2>6. ASSUME NEW b \in Bot, Deliver(b) PROVE Hearing'
    <3>0. UNCHANGED state /\ hook[b] > 0 BY <2>6 DEF Deliver, deliveryVars
    <3>1. CASE /\ heard' = [heard EXCEPT ![b] = state[b]] /\ UNCHANGED faults
               /\ hook' = [hook EXCEPT ![b] = 0]
      BY <1>2, <1>w, <3>0, <3>1 DEF Hearing
    <3>2. CASE /\ UNCHANGED heard /\ faults' = faults + 1
               /\ hook' = [hook EXCEPT ![b] = hook[b] - 1]
      BY <1>2, <1>w, <3>0, <3>2 DEF Hearing
    <3> QED BY <2>6, <3>1, <3>2 DEF Deliver
  <2>7. ASSUME NEW b \in Bot, Conclude(b) \/ Upload(b) \/ Split(b) \/ UploadPartial(b)
        PROVE Hearing'
    BY <1>2, <2>7, HearingKept DEF Conclude, Upload, Split, UploadPartial
  <2>8. ASSUME NEW b \in Bot, FinishFailed(b) \/ UploadDiagnostics(b) \/ ReportFailure(b)
        PROVE Hearing'
    BY <1>2, <2>8, HearingKept DEF FinishFailed, UploadDiagnostics, ReportFailure
  <2> QED
    BY <1>2, <2>1, <2>2, <2>3, <2>4, <2>5, <2>6, <2>7, <2>8 DEF Next, BotStep
<1> QED BY <1>1, <1>2

(* The control plane learns how a session ended unless WEBHOOK_DELIVERY_    *)
(* ATTEMPTS attempts to tell it anything failed (app.ts:522-540).           *)
THEOREM EndIsHeardHolds == Spec => []EndIsHeard
<1>1. IInv /\ Hearing => EndIsHeard
  BY DEF IInv, SaysInOrder, Types, Hearing, EndIsHeard, Over
<1> QED BY <1>1, Invariant, HearingInductive, PTL DEF Spec

----------------------------------------------------------------------------
(* What a pass over the page may find.                                      *)

(* A set of numbers has a least one.                                        *)
LEMMA MinIsLeast ==
  ASSUME NEW S \in SUBSET Nat, S # {}
  PROVE  Min(S) \in S
<1>1. PICK x \in S : \A y \in S : <<y, x>> \notin OpToRel(<, Nat)
  BY NatLessThanWellFounded, WFMin
<1>2. ASSUME NEW y \in S PROVE x =< y
  <2>1. <<y, x>> \notin {ss \in Nat \X Nat : ss[1] < ss[2]} BY <1>1 DEF OpToRel
  <2>2. <<y, x>> \in Nat \X Nat /\ <<y, x>>[1] = y /\ <<y, x>>[2] = x OBVIOUS
  <2>3. ~(y < x) BY <2>1, <2>2
  <2> QED BY <2>3
<1> QED BY <1>2 DEF Min

(* A sign that is found is one of those that were looked for.               *)
LEMMA SignIsOneOf ==
  ASSUME NEW view \in Views, NEW signs \in Seq(Signs), FirstSign(view, signs) # "none"
  PROVE  \E j \in DOMAIN signs : FirstSign(view, signs) = signs[j]
<1> DEFINE shows(i, j) == signs[j] \in view[i]
           scopes == {i \in DOMAIN view : \E j \in DOMAIN signs : shows(i, j)}
           found == {j \in DOMAIN signs : shows(Min(scopes), j)}
<1>1. view \in Seq(SUBSET Signs) BY TeamsPageAssumption
<1>2. DOMAIN view \subseteq Nat /\ DOMAIN signs \subseteq Nat BY <1>1
<1>3. \E i \in DOMAIN view, j \in DOMAIN signs : shows(i, j) BY DEF FirstSign
<1>4. FirstSign(view, signs) = signs[Min(found)] BY <1>3 DEF FirstSign
<1>5. scopes \in SUBSET Nat /\ scopes # {} BY <1>2, <1>3
<1>6. Min(scopes) \in scopes BY <1>5, MinIsLeast
<1>7. found \in SUBSET Nat /\ found # {} BY <1>2, <1>6
<1>8. Min(found) \in found BY <1>7, MinIsLeast
<1> QED BY <1>4, <1>8

(* A pass of either loop that fails names a failure stage.                  *)
LEMMA FailsInAStage ==
  \A pass \in PrejoinPasses \cup AdmitPasses : pass.what = "fails" => pass.stage \in FailureStages
<1>1. ASSUME NEW view \in Views, Blocker(view) # "none"
      PROVE  StageOf(Blocker(view)) \in FailureStages
  <2>1. GuestBlockers \in Seq(Signs) /\ OtherBlockers \in Seq(Signs)
    BY DEF GuestBlockers, OtherBlockers, Signs
  <2>2. \/ \E j \in DOMAIN GuestBlockers : Blocker(view) = GuestBlockers[j]
        \/ \E j \in DOMAIN OtherBlockers : Blocker(view) = OtherBlockers[j]
    BY <1>1, <2>1, SignIsOneOf DEF Blocker
  <2>3. Blocker(view) \in {"login_form", "policy", "sign_in", "captcha", "denied", "ended",
                           "no_connection"}
    BY <2>2 DEF GuestBlockers, OtherBlockers
  <2> QED BY <2>3 DEF StageOf, FailureStages, Blockers
<1>2. ASSUME NEW what, what # "fails" PROVE Outcome(what).what # "fails"
  BY <1>2 DEF Outcome
<1>3. Throws.stage \in FailureStages BY DEF Throws, FailureStages
<1>4. ASSUME NEW view \in Views, Unjoined(view).what = "fails"
      PROVE  Unjoined(view).stage \in FailureStages
  BY <1>1, <1>4 DEF Unjoined, Fails, Outcome
<1>5. ASSUME NEW view \in Views, AdmitPass(view).what = "fails"
      PROVE  AdmitPass(view).stage \in FailureStages
  BY <1>4, <1>5 DEF AdmitPass, Outcome, JoinedOrLobbyState
<1>6. ASSUME NEW before \in Views, NEW clicked, NEW after \in Views,
             PrejoinPass(before, clicked, after).what = "fails"
      PROVE  PrejoinPass(before, clicked, after).stage \in FailureStages
  <2>1. CASE Blocker(before) # "none" BY <1>1, <2>1 DEF PrejoinPass, Fails
  <2>2. CASE Blocker(before) = "none" /\ clicked
    <3>1. PrejoinPass(before, clicked, after) \in {Outcome("joined"), Outcome("waiting_room")}
      BY <2>2 DEF PrejoinPass
    <3> QED BY <1>2, <1>6, <3>1
  <2>3. CASE Blocker(before) = "none" /\ ~clicked
    <3>1. \/ PrejoinPass(before, clicked, after) \in {Outcome("joined"), Outcome("waiting_room")}
          \/ PrejoinPass(before, clicked, after) = Unjoined(after)
      <4>1. JoinedOrLobbyState(after) \in {"joined", "waiting_room", "none"}
        BY DEF JoinedOrLobbyState
      <4>2. PrejoinPass(before, clicked, after)
              = IF JoinedOrLobbyState(after) # "none" THEN Outcome(JoinedOrLobbyState(after))
                ELSE Unjoined(after)
        BY <2>3 DEF PrejoinPass
      <4> QED BY <4>1, <4>2
    <3> QED BY <1>2, <1>4, <1>6, <3>1
  <2> QED BY <2>1, <2>2, <2>3
<1>7. ASSUME NEW pass \in PrejoinPasses
      PROVE  \/ pass = Throws
             \/ \E before \in Views : \E clicked :
                   \E after \in Views : pass = PrejoinPass(before, clicked, after)
  <2> DEFINE of(before) == {PrejoinPass(before, clicked, after) :
                              clicked \in Clicks(before), after \in Views}
  <2>1. pass = Throws \/ pass \in UNION {of(before) : before \in Views} BY DEF PrejoinPasses
  <2>2. \A before \in Views : pass \in of(before)
           => \E clicked : \E after \in Views : pass = PrejoinPass(before, clicked, after)
    OBVIOUS
  <2> HIDE DEF of
  <2> QED BY <2>1, <2>2
<1>8. \A pass \in AdmitPasses : pass = Throws \/ \E view \in Views : pass = AdmitPass(view)
  BY DEF AdmitPasses
<1> QED BY <1>3, <1>5, <1>6, <1>7, <1>8

----------------------------------------------------------------------------
(* The types.                                                               *)

Joins == [attempt : 1..JoinAttempts, poll : 0..(StartPolls - 1),
          notStarted : BOOLEAN, waiting : BOOLEAN]
Errors == FailureStages \cup {"none"}
ToDo == {<<"page", "log">>, <<"log">>, <<>>}

(* What the types say besides Types, Clean, ReportsInv and Hearing.  A join *)
(* that polled for the last time has failed.                                *)
Ranges ==
    /\ join \in [Bot -> Joins] /\ expired \in [Bot -> BOOLEAN]
    /\ error \in [Bot -> Errors] /\ faults \in 0..MaxFaults
    /\ hook \in [Bot -> 0..WebhookAttempts]
    /\ tries \in [Bot -> 0..(UploadAttempts - 1)]
    /\ \A b \in Bot : Len(say[b]) <= 3 /\ diag[b].todo \in ToDo

LEMMA Limits ==
  /\ JoinAttempts \in Nat /\ 1 <= JoinAttempts /\ StartPolls \in Nat /\ 1 <= StartPolls
  /\ MaxFaults \in Nat /\ WebhookAttempts \in Nat /\ 1 <= WebhookAttempts
  /\ UploadAttempts \in Nat /\ 1 <= UploadAttempts
  OBVIOUS

LEMMA FirstTryAgain ==
  ASSUME NEW n \in 1..JoinAttempts
  PROVE  [FirstTry EXCEPT !.attempt = n] \in Joins
<1>1. 0 \in 0..(StartPolls - 1) /\ 1 \in 1..JoinAttempts BY Limits
<1>2. FALSE \in BOOLEAN OBVIOUS
<1>3. FirstTry \in Joins BY <1>1, <1>2 DEF FirstTry, Joins
<1>4. \A t \in Joins : [t EXCEPT !.attempt = n] \in Joins BY DEF Joins
<1> QED BY <1>3, <1>4

LEMMA FailJoinTyped ==
  ASSUME join \in [Bot -> Joins], error \in [Bot -> Errors], NEW b \in Bot,
         NEW stage \in FailureStages, NEW retryable, FailJoin(b, stage, retryable)
  PROVE  join' \in [Bot -> Joins] /\ error' \in [Bot -> Errors]
<1>1. CASE join' = join /\ error' = [error EXCEPT ![b] = stage] BY <1>1 DEF Errors
<1>2. CASE /\ join[b].attempt < JoinAttempts /\ error' = error
           /\ join' = [join EXCEPT ![b] = [FirstTry EXCEPT !.attempt = join[b].attempt + 1]]
  <2>1. join[b].attempt \in 1..JoinAttempts BY DEF Joins
  <2>2. join[b].attempt + 1 \in 1..JoinAttempts BY <1>2, <2>1, Limits
  <2>3. [FirstTry EXCEPT !.attempt = join[b].attempt + 1] \in Joins BY <2>2, FirstTryAgain
  <2> QED BY <1>2, <2>3
<1> QED BY <1>1, <1>2 DEF FailJoin, Goto, Throw

LEMMA PollTyped ==
  ASSUME join \in [Bot -> Joins], error \in [Bot -> Errors], NEW b \in Bot,
         NEW notStarted \in BOOLEAN, NEW waiting \in BOOLEAN, Poll(b, notStarted, waiting)
  PROVE  join' \in [Bot -> Joins] /\ error' \in [Bot -> Errors]
<1>0. join[b] \in Joins /\ join[b].poll \in 0..(StartPolls - 1) BY DEF Joins
<1>1. CASE \/ FailJoin(b, "meeting_not_started_timeout", FALSE)
           \/ FailJoin(b, "page_load", TRUE)
  BY <1>1, FailJoinTyped DEF FailureStages
<1>2. CASE /\ join[b].poll + 1 # StartPolls /\ error' = error
           /\ join' = [join EXCEPT ![b].poll = join[b].poll + 1, ![b].notStarted = notStarted,
                                   ![b].waiting = waiting]
  <2>1. join[b].poll + 1 \in 0..(StartPolls - 1) BY <1>0, <1>2, Limits
  <2>2. join' = [join EXCEPT ![b] = [join[b] EXCEPT !.poll = join[b].poll + 1,
                                         !.notStarted = notStarted, !.waiting = waiting]]
    BY <1>2
  <2>3. [join[b] EXCEPT !.poll = join[b].poll + 1, !.notStarted = notStarted,
                        !.waiting = waiting] \in Joins
    BY <1>0, <2>1 DEF Joins
  <2> QED BY <1>2, <2>2, <2>3
<1> QED BY <1>1, <1>2 DEF Poll

(* A step of record() leaves its own variables typed.                       *)
LEMMA RecordTyped ==
  ASSUME join \in [Bot -> Joins], error \in [Bot -> Errors], NEW b \in Bot,
         StartRecord(b) \/ RecordStep(b)
  PROVE  join' \in [Bot -> Joins] /\ error' \in [Bot -> Errors]
<1> USE DEF Throw, Late, pageVars
<1>s. {"audio_setup", "internal", "lobby_timeout", "browser_launch", "navigation", "recording",
       "policy_blocked", "meeting_not_started_timeout"} \subseteq FailureStages
  BY DEF FailureStages, Blockers
<1>e. ASSUME NEW stage \in FailureStages, error' = [error EXCEPT ![b] = stage]
      PROVE  error' \in [Bot -> Errors]
  BY <1>e DEF Errors
<1>j. /\ join[b] \in Joins /\ join[b].notStarted \in BOOLEAN
      /\ join[b].poll \in 0..(StartPolls - 1)
  BY DEF Joins
<1>1. CASE StartRecord(b) \/ Release(b) BY <1>1 DEF StartRecord, Release
<1>2. CASE SinkReady(b) BY <1>2 DEF SinkReady
<1>3. CASE SinkFails(b)
  <2>1. join' = join /\ \E stage \in FailureStages : error' = [error EXCEPT ![b] = stage]
    BY <1>3, <1>s DEF SinkFails
  <2> QED BY <2>1, <1>e
<1>4. CASE LoadBrowser(b) BY <1>4, <1>s, <1>e DEF LoadBrowser
<1>5. CASE Launch(b) BY <1>5, <1>s, FailJoinTyped DEF Launch
<1>6. CASE LaunchFails(b) BY <1>6, <1>s, FailJoinTyped DEF LaunchFails
<1>7. CASE SeesMeeting(b) \/ Admitted(b) BY <1>7 DEF SeesMeeting, Admitted
<1>8. CASE SeesLobby(b)
  <2>1. 0 \in 0..(StartPolls - 1) /\ FALSE \in BOOLEAN BY Limits
  <2>2. [join[b] EXCEPT !.poll = 0, !.notStarted = FALSE, !.waiting = FALSE] \in Joins
    BY <1>j, <2>1 DEF Joins
  <2>3. /\ error' = error
        /\ join' = [join EXCEPT ![b] = [join[b] EXCEPT !.poll = 0, !.notStarted = FALSE,
                                                       !.waiting = FALSE]]
    BY <1>8 DEF SeesLobby
  <2> QED BY <2>2, <2>3
<1>9. CASE SeesBlocker(b)
  <2>1. \E pass \in PrejoinPasses \cup AdmitPasses :
           pass.what = "fails" /\ FailJoin(b, pass.stage, pass.retryable)
    BY <1>9 DEF SeesBlocker
  <2> QED BY <2>1, FailsInAStage, FailJoinTyped
<1>10. CASE SeesNotStarted(b)
  <2>1. TRUE \in BOOLEAN OBVIOUS
  <2> QED BY <1>10, <2>1, PollTyped DEF SeesNotStarted
<1>11. CASE SeesNothing(b)
  <2>1. FALSE \in BOOLEAN OBVIOUS
  <2> QED BY <1>11, <1>j, <2>1, PollTyped DEF SeesNothing
<1>12. CASE RunsOut(b)
  <2>1. \E stage \in FailureStages : FailJoin(b, stage, FALSE) BY <1>12, <1>s DEF RunsOut
  <2> QED BY <2>1, FailJoinTyped
<1>14. CASE Waits(b)
  <2>1. \/ \E notStarted \in BOOLEAN : Poll(b, notStarted, FALSE)
        \/ /\ join[b].poll + 1 < StartPolls /\ UNCHANGED error
           /\ join' = [join EXCEPT ![b].poll = join[b].poll + 1]
    <3>1. \A shows : (join[b].notStarted \/ shows = "not_started") \in BOOLEAN OBVIOUS
    <3> QED BY <1>14, <1>j, <3>1 DEF Waits
  <2>2. FALSE \in BOOLEAN OBVIOUS
  <2>3. CASE \E notStarted \in BOOLEAN : Poll(b, notStarted, FALSE)
    BY <2>2, <2>3, PollTyped
  <2>4. CASE /\ join[b].poll + 1 < StartPolls /\ UNCHANGED error
             /\ join' = [join EXCEPT ![b].poll = join[b].poll + 1]
    <3>1. join[b].poll + 1 \in 0..(StartPolls - 1) BY <1>j, <2>4, Limits
    <3>2. [join[b] EXCEPT !.poll = join[b].poll + 1] \in Joins BY <1>j, <3>1 DEF Joins
    <3> QED BY <2>4, <3>2
  <2> QED BY <2>1, <2>3, <2>4
<1>15. CASE Capture(b)
  <2>1. join' = join /\ (error' = error \/ error' = [error EXCEPT ![b] = "recording"])
    BY <1>15 DEF Capture
  <2> QED BY <2>1, <1>s, <1>e
<1> QED
  BY <1>1, <1>2, <1>3, <1>4, <1>5, <1>6, <1>7, <1>8, <1>9, <1>10, <1>11, <1>12,
     <1>14, <1>15 DEF RecordStep

(* A step of bot b, of whose variables each is as before or in its range.   *)
LEMMA RangesKept ==
  ASSUME Types, Ranges, NEW b \in Bot,
         join' = join \/ join' \in [Bot -> Joins],
         error' = error \/ error' \in [Bot -> Errors],
         expired' = expired \/ expired' = [expired EXCEPT ![b] = TRUE],
         faults' = faults \/ (faults < MaxFaults /\ faults' = faults + 1),
         hook' = hook \/ \E n \in 0..WebhookAttempts : hook' = [hook EXCEPT ![b] = n],
         tries' = tries \/ \E n \in 0..(UploadAttempts - 1) : tries' = [tries EXCEPT ![b] = n],
         say' = say \/ \E t : Len(t) <= 3 /\ say' = [say EXCEPT ![b] = t],
         \A c \in Bot : diag'[c].todo = diag[c].todo \/ diag'[c].todo \in ToDo
  PROVE  Ranges'
<1>1. join' \in [Bot -> Joins] /\ error' \in [Bot -> Errors] BY DEF Ranges
<1>2. expired' \in [Bot -> BOOLEAN]
  <2>1. expired \in [Bot -> BOOLEAN] /\ TRUE \in BOOLEAN BY DEF Ranges
  <2> QED BY <2>1
<1>3. faults' \in 0..MaxFaults BY Limits DEF Ranges
<1>4. hook' \in [Bot -> 0..WebhookAttempts] /\ tries' \in [Bot -> 0..(UploadAttempts - 1)]
  BY DEF Ranges
<1>5. \A c \in Bot : Len(say'[c]) <= 3 BY DEF Ranges, Types
<1>6. \A c \in Bot : diag'[c].todo \in ToDo BY DEF Ranges
<1> QED BY <1>1, <1>2, <1>3, <1>4, <1>5, <1>6 DEF Ranges

LEMMA RangesInductive == /\ Init => Ranges
                         /\ IInv /\ ReportsInv /\ Ranges /\ [Next]_vars => Ranges'
<1>1. ASSUME Init PROVE Ranges
  <2>1. FirstTry \in Joins
    <3>1. 1 \in 1..JoinAttempts BY Limits
    <3>2. [FirstTry EXCEPT !.attempt = 1] = FirstTry BY DEF FirstTry
    <3> QED BY <3>1, <3>2, FirstTryAgain
  <2>2. FALSE \in BOOLEAN /\ "none" \in Errors BY DEF Errors
  <2>3. \A b \in Bot : Len(say[b]) <= 3 /\ diag[b].todo \in ToDo
    BY <1>1 DEF Init, RecorderInit, NoDiagnostics, ToDo
  <2>4. expired \in [Bot -> BOOLEAN] BY <1>1, <2>2 DEF Init, RecorderInit
  <2> QED BY <1>1, <2>1, <2>2, <2>3, <2>4, Limits DEF Init, RecorderInit, Ranges
<1>2. ASSUME IInv, ReportsInv, Ranges, [Next]_vars PROVE Ranges'
  <2> USE DEF runtimeVars, lifeVars, diagnosisVars, deliveryVars, Fault, Say, Enter, Throw
  <2>0. /\ Types /\ say \in [Bot -> Seq(States)] /\ hook \in [Bot -> 0..WebhookAttempts]
        /\ tries \in [Bot -> 0..(UploadAttempts - 1)] /\ error \in [Bot -> Errors]
        /\ diag \in [Bot -> Records] /\ WebhookAttempts \in 0..WebhookAttempts
        /\ 0 \in 0..WebhookAttempts /\ 0 \in 0..(UploadAttempts - 1) /\ "upload" \in Errors
    BY <1>2, Limits DEF IInv, Types, Ranges, ReportsInv, Errors, FailureStages
  <2>l. /\ \A x : Len(<<x>>) <= 3 /\ \A y : Len(<<x, y>>) <= 3
        /\ \A b \in Bot : say[b] # <<>> => Len(Tail(say[b])) <= 3
    <3>1. ASSUME NEW b \in Bot, say[b] # <<>> PROVE Len(Tail(say[b])) <= 3
      <4>1. Len(Tail(say[b])) = Len(say[b]) - 1 /\ Len(say[b]) \in Nat /\ Len(say[b]) <= 3
        BY <1>2, <2>0, <3>1, HeadTailProperties, LenProperties DEF Ranges
      <4> QED BY <4>1
    <3> QED BY <3>1
  <2>u. ASSUME NEW b \in Bot, error' = [error EXCEPT ![b] = "upload"]
        PROVE  error' \in [Bot -> Errors]
    BY <2>0, <2>u
  <2>1. CASE UNCHANGED vars
    BY <1>2, <2>1 DEF vars, recorderVars, Ranges
  <2>2. ASSUME NEW b \in Bot, NEW id \in SessionId, Create(b, id) PROVE Ranges'
    <3>1. /\ UNCHANGED <<join, error, expired, faults, tries, diag>>
          /\ \E t : Len(t) <= 3 /\ say' = [say EXCEPT ![b] = t]
          /\ hook' = [hook EXCEPT ![b] = WebhookAttempts]
      BY <2>2, <2>l DEF Create
    <3> QED BY <1>2, <2>0, <3>1, RangesKept
  <2>3. ASSUME NEW b \in Bot, Cancel(b) \/ DeadlinePasses(b) PROVE Ranges'
    <3>1. /\ UNCHANGED <<join, error, faults, tries, diag, say, hook>>
          /\ expired' = expired \/ expired' = [expired EXCEPT ![b] = TRUE]
      BY <2>3 DEF Cancel, DeadlinePasses, Expire
    <3> QED BY <1>2, <2>0, <3>1, RangesKept
  <2>4. ASSUME NEW b \in Bot, Record(b) PROVE Ranges'
    <3>1. UNCHANGED <<tries, diag, hook>> /\ (StartRecord(b) \/ RecordStep(b))
      BY <2>4 DEF Record
    <3>2. join' \in [Bot -> Joins] /\ error' \in [Bot -> Errors]
      BY <1>2, <3>1, RecordTyped DEF Ranges
    <3>3. \E t : Len(t) <= 3 /\ say' = [say EXCEPT ![b] = t]
      BY <2>0, <3>1, RecordAnnounces, BriefFacts
    <3>4. expired' = expired /\ (faults' = faults \/ (faults < MaxFaults /\ faults' = faults + 1))
      BY <3>1 DEF RecordStep, StartRecord, SinkReady, SinkFails, LoadBrowser, Launch,
             LaunchFails, SeesMeeting, SeesLobby, SeesBlocker, SeesNotStarted, SeesNothing,
             RunsOut, Admitted, Waits, Capture, Release, FailJoin, Poll, pageVars
    <3> QED BY <1>2, <2>0, <3>1, <3>2, <3>3, <3>4, RangesKept
  <2>5. ASSUME NEW b \in Bot, Transition(b) PROVE Ranges'
    <3>1. /\ UNCHANGED <<join, error, expired, faults, tries, diag>>
          /\ say' = say \/ \E t : Len(t) <= 3 /\ say' = [say EXCEPT ![b] = t]
          /\ hook' = hook \/ hook' = [hook EXCEPT ![b] = WebhookAttempts]
      BY <2>5, <2>l DEF Transition
    <3> QED BY <1>2, <2>0, <3>1, RangesKept
  <2>6. ASSUME NEW b \in Bot, Deliver(b) PROVE Ranges'
    <3>0. say[b] # <<>> /\ hook[b] \in 0..WebhookAttempts /\ hook[b] > 0
      BY <1>2, <2>0, <2>6 DEF Deliver, IInv, SaysInOrder
    <3>1. hook[b] - 1 \in 0..WebhookAttempts BY <3>0, Limits
    <3>2. /\ UNCHANGED <<join, error, expired, tries, diag>>
          /\ say' = say \/ \E t : Len(t) <= 3 /\ say' = [say EXCEPT ![b] = t]
          /\ \E n \in 0..WebhookAttempts : hook' = [hook EXCEPT ![b] = n]
          /\ faults' = faults \/ (faults < MaxFaults /\ faults' = faults + 1)
      BY <2>0, <2>6, <2>l, <3>0, <3>1 DEF Deliver
    <3> QED BY <1>2, <2>0, <3>2, RangesKept
  <2>7. ASSUME NEW b \in Bot, Conclude(b) PROVE Ranges'
    <3>1. /\ UNCHANGED <<join, error, expired, faults, tries, diag, hook>>
          /\ say' = say \/ \E t : Len(t) <= 3 /\ say' = [say EXCEPT ![b] = t]
      BY <2>7, <2>l DEF Conclude
    <3> QED BY <1>2, <2>0, <3>1, RangesKept
  <2>a. ASSUME NEW size, NEW answer \in Answers(size), Answered(answer)
        PROVE  faults' = faults \/ (faults < MaxFaults /\ faults' = faults + 1)
    <3>1. CASE answer \in {"client_error", "server_error", "stored_unheard"} /\ faults < MaxFaults
      BY <2>a, <3>1 DEF Answered
    <3>2. CASE answer = "stored" \/ (Storage # "any" /\ answer = StoreRecording(UploadHeaders, size))
      BY <2>a, <3>2 DEF Answered, StoreRecording
    <3> QED BY <2>a, <3>1, <3>2 DEF Answers
  <2>t. ASSUME NEW b \in Bot, NEW answer, ~GivesUp(b, answer), UploadAgain(b, answer)
        PROVE  \E n \in 0..(UploadAttempts - 1) : tries' = [tries EXCEPT ![b] = n]
    <3>1. tries[b] \in 0..(UploadAttempts - 1) /\ tries[b] # UploadAttempts - 1
      BY <2>0, <2>t DEF GivesUp
    <3>2. tries[b] + 1 \in 0..(UploadAttempts - 1) BY <3>1, Limits
    <3> QED BY <2>t, <3>2 DEF UploadAgain
  <2>8. ASSUME NEW b \in Bot, Upload(b) PROVE Ranges'
    <3>1. PICK answer \in Answers(bytes[b]) :
             /\ Stores(b, answer)
             /\ IF answer = "stored"
                THEN NextUpload(b) /\ tries' = [tries EXCEPT ![b] = 0] /\ UNCHANGED <<keyed, error>>
                ELSE IF GivesUp(b, answer)
                THEN Enter(b, "fail") /\ Throw(b, "upload") /\ UNCHANGED <<say, part, tries, keyed>>
                ELSE UploadAgain(b, answer)
      BY <2>8 DEF Upload
    <3>2. UNCHANGED <<join, expired, diag, hook>> BY <2>8 DEF Upload
    <3>3. faults' = faults \/ (faults < MaxFaults /\ faults' = faults + 1)
      BY <2>a, <3>1 DEF Stores
    <3>4. CASE answer = "stored"
      <4>1. /\ tries' = [tries EXCEPT ![b] = 0] /\ error' = error
            /\ say' = say \/ \E t : Len(t) <= 3 /\ say' = [say EXCEPT ![b] = t]
        BY <2>l, <3>1, <3>4 DEF NextUpload, Completed
      <4> QED BY <1>2, <2>0, <3>2, <3>3, <4>1, RangesKept
    <3>5. CASE answer # "stored" /\ GivesUp(b, answer)
      <4>1. UNCHANGED <<tries, say>> /\ error' = [error EXCEPT ![b] = "upload"] BY <3>1, <3>5
      <4>2. error' \in [Bot -> Errors] BY <2>u, <4>1
      <4> QED BY <1>2, <2>0, <3>2, <3>3, <4>1, <4>2, RangesKept
    <3>6. CASE answer # "stored" /\ ~GivesUp(b, answer)
      <4>1. UploadAgain(b, answer) BY <3>1, <3>6
      <4>2. \E n \in 0..(UploadAttempts - 1) : tries' = [tries EXCEPT ![b] = n]
        BY <2>t, <3>6, <4>1
      <4>3. UNCHANGED <<say, error>> BY <4>1 DEF UploadAgain
      <4> QED BY <1>2, <2>0, <3>2, <3>3, <4>2, <4>3, RangesKept
    <3> QED BY <3>4, <3>5, <3>6
  <2>9. ASSUME NEW b \in Bot, Split(b) PROVE Ranges'
    <3>1. /\ UNCHANGED <<join, expired, diag, hook, tries, say>>
          /\ error' = error \/ error' = [error EXCEPT ![b] = "upload"]
          /\ faults' = faults \/ (faults < MaxFaults /\ faults' = faults + 1)
      BY <2>9 DEF Split
    <3>2. error' = error \/ error' \in [Bot -> Errors] BY <2>u, <3>1
    <3> QED BY <1>2, <2>0, <3>1, <3>2, RangesKept
  <2>10. ASSUME NEW b \in Bot, UploadPartial(b) PROVE Ranges'
    <3>1. PICK answer \in Answers(bytes[b]) :
             /\ Stores(b, answer)
             /\ IF answer # "stored" /\ ~GivesUp(b, answer)
                THEN UploadAgain(b, answer)
                ELSE /\ Enter(b, "done") /\ Say(b, <<"canceled">>) /\ Keep(b, answer = "stored")
                     /\ UNCHANGED <<tries, part, error>>
      BY <2>10 DEF UploadPartial
    <3>2. UNCHANGED <<join, expired, diag, hook>> BY <2>10 DEF UploadPartial
    <3>3. faults' = faults \/ (faults < MaxFaults /\ faults' = faults + 1)
      BY <2>a, <3>1 DEF Stores
    <3>4. CASE answer # "stored" /\ ~GivesUp(b, answer)
      <4>1. UploadAgain(b, answer) BY <3>1, <3>4
      <4>2. \E n \in 0..(UploadAttempts - 1) : tries' = [tries EXCEPT ![b] = n]
        BY <2>t, <3>4, <4>1
      <4>3. UNCHANGED <<say, error>> BY <4>1 DEF UploadAgain
      <4> QED BY <1>2, <2>0, <3>2, <3>3, <4>2, <4>3, RangesKept
    <3>5. CASE say' = [say EXCEPT ![b] = <<"canceled">>] /\ UNCHANGED <<tries, error>>
      <4>1. \E t : Len(t) <= 3 /\ say' = [say EXCEPT ![b] = t] BY <2>l, <3>5
      <4> QED BY <1>2, <2>0, <3>2, <3>3, <3>5, <4>1, RangesKept
    <3> QED BY <3>1, <3>4, <3>5
  <2>11. ASSUME NEW b \in Bot, FinishFailed(b) PROVE Ranges'
    <3>1. UNCHANGED <<join, expired, error, hook, tries, say, faults>>
      BY <2>11 DEF FinishFailed
    <3>2. \E t \in ToDo : diag' = [diag EXCEPT ![b].todo = t]
      <4>1. <<>> \o <<"log">> = <<"log">> /\ <<"page">> \o <<"log">> = <<"page", "log">>
        <5>1. <<>> \in Seq(Diagnostics) /\ <<"log">> \in Seq(Diagnostics) /\ <<"page">> \in Seq(Diagnostics)
          BY DEF Diagnostics
        <5>2. <<"page", "log">> \in Seq(Diagnostics) BY DEF Diagnostics
        <5> DEFINE t == <<"page">> \o <<"log">>
        <5>3. /\ t \in Seq(Diagnostics) /\ Len(t) = 2 /\ t[1] = "page" /\ t[2] = "log"
          BY <5>1, ConcatProperties
        <5>4. t = <<"page", "log">>
          <6> HIDE DEF t
          <6> QED BY <5>2, <5>3
        <5> QED BY <5>1, <5>4, ConcatEmptySeq
      <4>2. PICK page \in CapturePageDiagnostics(error[b]) :
               diag' = [diag EXCEPT ![b].todo = page \o <<"log">>]
        BY <2>11 DEF FinishFailed
      <4>3. page = <<>> \/ page = <<"page">> BY <4>2 DEF CapturePageDiagnostics
      <4>4. page \o <<"log">> \in ToDo BY <4>1, <4>3 DEF ToDo
      <4> QED BY <4>2, <4>4
    <3>3. \A c \in Bot : diag'[c].todo = diag[c].todo \/ diag'[c].todo \in ToDo
      BY <2>0, <3>2 DEF Records
    <3> QED BY <1>2, <2>0, <3>1, <3>3, RangesKept
  <2>12. ASSUME NEW b \in Bot, UploadDiagnostics(b) PROVE Ranges'
    <3>1. UNCHANGED <<join, expired, error, hook, tries, say>>
      BY <2>12 DEF UploadDiagnostics
    <3>2. faults' = faults \/ (faults < MaxFaults /\ faults' = faults + 1)
      BY <2>12, <2>a DEF UploadDiagnostics
    <3>3. diag[b].todo # <<>> /\ diag[b].todo \in ToDo
      BY <1>2, <2>12 DEF UploadDiagnostics, Ranges
    <3>4. Tail(diag[b].todo) \in ToDo
      <4>1. Tail(<<"page", "log">>) = <<"log">> /\ Tail(<<"log">>) = <<>> OBVIOUS
      <4> QED BY <3>3, <4>1 DEF ToDo
    <3>5. \A c \in Bot : \/ diag'[c].todo = diag[c].todo
                         \/ c = b /\ diag'[c].todo = Tail(diag[b].todo)
      BY <2>0, <2>12 DEF UploadDiagnostics
    <3>6. \A c \in Bot : diag'[c].todo = diag[c].todo \/ diag'[c].todo \in ToDo
      BY <3>4, <3>5
    <3> QED BY <1>2, <2>0, <3>1, <3>2, <3>6, RangesKept
  <2>13. ASSUME NEW b \in Bot, ReportFailure(b) PROVE Ranges'
    <3>1. /\ UNCHANGED <<join, expired, error, hook, tries, faults, diag>>
          /\ \E t : Len(t) <= 3 /\ say' = [say EXCEPT ![b] = t]
      BY <2>13, <2>l DEF ReportFailure
    <3> QED BY <1>2, <2>0, <3>1, RangesKept
  <2> QED
    BY <1>2, <2>1, <2>2, <2>3, <2>4, <2>5, <2>6, <2>7, <2>8, <2>9, <2>10, <2>11, <2>12, <2>13
       DEF Next, BotStep
<1> QED BY <1>1, <1>2

(* Every variable stays in its range, whatever the page shows and whatever  *)
(* fails: no retry, poll, webhook or upload goes past its budget            *)
(* (runtime.ts:346, app.ts:525, 560).                                       *)
THEOREM TypeOKHolds == Spec => []TypeOK
<1>1. IInv /\ Clean /\ ReportsInv /\ Hearing /\ Ranges => TypeOK
  <2> SUFFICES ASSUME IInv, Clean, ReportsInv, Hearing, Ranges PROVE TypeOK OBVIOUS
  <2>1. join \in [Bot -> [attempt : 1..JoinAttempts, poll : 0..StartPolls,
                          notStarted : BOOLEAN, waiting : BOOLEAN]]
    <3>1. \A n \in 0..(StartPolls - 1) : n \in 0..StartPolls BY Limits
    <3>2. Joins \subseteq [attempt : 1..JoinAttempts, poll : 0..StartPolls,
                           notStarted : BOOLEAN, waiting : BOOLEAN]
      BY <3>1 DEF Joins
    <3> QED BY <3>2 DEF Ranges
  <2>2. RecorderTypeOK
    BY <2>1 DEF RecorderTypeOK, Ranges, Clean, Stages, ReportsInv, IInv, Types, Errors
  <2>3. \A b \in Bot : /\ Len(say[b]) <= 3
                       /\ \A i \in 1..Len(say[b]) : say[b][i] \in States
    BY DEF Ranges, IInv, Types
  <2>4. diag \in [Bot -> [todo : {<<"page", "log">>, <<"log">>, <<>>},
                          kept : SUBSET Diagnostics, keys : SUBSET Diagnostics]]
    BY DEF ReportsInv, Records, Ranges, ToDo
  <2>5. /\ session \in [Bot -> SessionId \cup {NoSession}]
        /\ state \in [Bot -> States] /\ heard \in [Bot -> States]
        /\ life \in [Bot -> {"none", "record", "upload", "split", "partial", "fail",
                             "diagnose", "done"}]
        /\ hook \in [Bot -> 0..WebhookAttempts]
        /\ tries \in [Bot -> 0..(UploadAttempts - 1)]
        /\ part \in [Bot -> Parts] /\ stored \in [Bot -> SUBSET Parts]
        /\ keyed \in [Bot -> BOOLEAN]
    BY DEF IInv, Types, Hearing, Ranges, ReportsInv
  <2> QED BY <2>2, <2>3, <2>4, <2>5 DEF TypeOK
<1> QED
  BY <1>1, Invariant, CleanInductive, ReportsInductive, HearingInductive, RangesInductive,
     PTL DEF Spec

----------------------------------------------------------------------------
(* Recordings.                                                              *)

(* Short of a fault, what record() throws it throws without a recording:    *)
(* a recording is on its way to storage, or there.                          *)
Recorded(b) ==
    /\ rec[b] \notin {"release", "ended"} => bytes[b] = "none" /\ error[b] = "none"
    /\ error[b] # "none" => bytes[b] = "none"
    /\ life[b] \in {"fail", "diagnose"} => bytes[b] = "none"
    /\ life[b] = "done" /\ bytes[b] # "none" => 0 \in stored[b]

RecordedInv == faults = 0 => \A b \in Bot : Recorded(b)

LEMMA RecordedElsewhere ==
  ASSUME IInv, Clean, ReportsInv, Ranges, NEW b \in Bot, NEW c \in Bot, c # b, Recorded(c),
         rec' = rec \/ \E t : rec' = [rec EXCEPT ![b] = t],
         error' = error \/ \E t : error' = [error EXCEPT ![b] = t],
         bytes' = bytes \/ \E t : bytes' = [bytes EXCEPT ![b] = t],
         life' = life \/ \E t : life' = [life EXCEPT ![b] = t],
         stored' = stored \/ \E t : stored' = [stored EXCEPT ![b] = t]
  PROVE  Recorded(c)'
<1>1. /\ rec \in [Bot -> Stages] /\ error \in [Bot -> Errors] /\ life \in [Bot -> Lives]
      /\ bytes \in [Bot -> {"none", "small", "large"}] /\ stored \in [Bot -> SUBSET Parts]
  BY DEF IInv, Types, Clean, ReportsInv, Ranges
<1>2. /\ rec'[c] = rec[c] /\ error'[c] = error[c] /\ life'[c] = life[c]
      /\ bytes'[c] = bytes[c] /\ stored'[c] = stored[c]
  BY <1>1
<1> QED BY <1>2 DEF Recorded

(* record() ends with a recording, with what it threw, or with neither.     *)
LEMMA RecordStepRecorded ==
  ASSUME IInv, Clean, ReportsInv, Ranges, NEW b \in Bot, Record(b), Recorded(b)
  PROVE  /\ Recorded(b)'
         /\ rec' = rec \/ \E t : rec' = [rec EXCEPT ![b] = t]
         /\ error' = error \/ \E t : error' = [error EXCEPT ![b] = t]
         /\ bytes' = bytes \/ \E t : bytes' = [bytes EXCEPT ![b] = t]
<1>t. /\ rec \in [Bot -> Stages] /\ error \in [Bot -> Errors] /\ life \in [Bot -> Lives]
      /\ bytes \in [Bot -> {"none", "small", "large"}]
  BY DEF IInv, Types, Clean, ReportsInv, Ranges
<1>l. life' = life /\ stored' = stored /\ life[b] = "record" BY DEF Record, runtimeVars
<1> USE DEF At, Goto, Throw, FailJoin, Poll, pageVars, Joined
<1>c. /\ rec[b] \notin {"release", "ended"} => bytes[b] = "none" /\ error[b] = "none"
      /\ error[b] # "none" => bytes[b] = "none"
  BY DEF Recorded
<1>1. CASE StartRecord(b)
  BY <1>1, <1>t, <1>l, <1>c DEF Recorded, StartRecord
<1>2. CASE SinkReady(b) BY <1>2, <1>t, <1>l, <1>c DEF Recorded, SinkReady
<1>3. CASE SinkFails(b) BY <1>3, <1>t, <1>l, <1>c DEF Recorded, SinkFails
<1>4. CASE LoadBrowser(b) BY <1>4, <1>t, <1>l, <1>c DEF Recorded, LoadBrowser
<1>5. CASE Launch(b) BY <1>5, <1>t, <1>l, <1>c DEF Recorded, Launch
<1>6. CASE LaunchFails(b) BY <1>6, <1>t, <1>l, <1>c DEF Recorded, LaunchFails
<1>7. CASE SeesMeeting(b) \/ SeesLobby(b) \/ Admitted(b)
  BY <1>7, <1>t, <1>l, <1>c DEF Recorded, SeesMeeting, SeesLobby, Admitted
<1>9. CASE SeesBlocker(b) BY <1>9, <1>t, <1>l, <1>c DEF Recorded, SeesBlocker
<1>10. CASE SeesNotStarted(b) BY <1>10, <1>t, <1>l, <1>c DEF Recorded, SeesNotStarted
<1>11. CASE SeesNothing(b) BY <1>11, <1>t, <1>l, <1>c DEF Recorded, SeesNothing
<1>12. CASE RunsOut(b) BY <1>12, <1>t, <1>l, <1>c DEF Recorded, RunsOut
<1>14. CASE Waits(b) BY <1>14, <1>t, <1>l, <1>c DEF Recorded, Waits
<1>15. CASE Capture(b)
  <2>1. /\ rec' = [rec EXCEPT ![b] = "release"] /\ rec[b] = "capture"
        /\ \/ error' = [error EXCEPT ![b] = "recording"] /\ bytes' = bytes
           \/ error' = error /\ \E got : bytes' = [bytes EXCEPT ![b] = got]
    BY <1>15 DEF Capture
  <2> QED BY <2>1, <1>t, <1>l, <1>c DEF Recorded
<1>16. CASE Release(b) BY <1>16, <1>t, <1>l, <1>c DEF Recorded, Release
<1> QED
  BY <1>1, <1>2, <1>3, <1>4, <1>5, <1>6, <1>7, <1>9, <1>10, <1>11, <1>12,
     <1>14, <1>15, <1>16 DEF Record, RecordStep

(* Storage that takes any upload refuses none, short of a fault.            *)
LEMMA StoredShortOfFaults ==
  ASSUME Storage = "any", faults \in Nat, faults' = 0, NEW size, NEW answer \in Answers(size),
         Answered(answer)
  PROVE  answer = "stored"
<1>1. answer # "stored" => faults' = faults + 1 BY DEF Answered
<1> QED BY <1>1

LEMMA RecordedInductive ==
  ASSUME Storage = "any"
  PROVE  /\ Init => RecordedInv
         /\ IInv /\ Clean /\ ReportsInv /\ Ranges /\ RecordedInv /\ [Next]_vars => RecordedInv'
<1>1. ASSUME Init PROVE RecordedInv
  BY <1>1 DEF Init, RecorderInit, RecordedInv, Recorded
<1>2. ASSUME IInv, Clean, ReportsInv, Ranges, RecordedInv, [Next]_vars PROVE RecordedInv'
  <2> USE DEF runtimeVars, lifeVars, diagnosisVars, deliveryVars, Fault, Enter, Throw
  <2> SUFFICES ASSUME faults' = 0 PROVE \A c \in Bot : Recorded(c)' BY DEF RecordedInv
  <2>0. /\ faults \in Nat /\ rec \in [Bot -> Stages] /\ error \in [Bot -> Errors]
        /\ life \in [Bot -> Lives] /\ stored \in [Bot -> SUBSET Parts]
        /\ part \in [Bot -> Parts] /\ bytes \in [Bot -> {"none", "small", "large"}]
    BY <1>2 DEF IInv, Types, Clean, ReportsInv, Ranges
  <2>e. ASSUME NEW b \in Bot, Recorded(b)', UNCHANGED <<rec, bytes>>, faults = 0,
               error' = error \/ \E t : error' = [error EXCEPT ![b] = t],
               life' = life \/ \E t : life' = [life EXCEPT ![b] = t],
               stored' = stored \/ \E t : stored' = [stored EXCEPT ![b] = t]
        PROVE  \A c \in Bot : Recorded(c)'
    BY <1>2, <2>e, RecordedElsewhere DEF RecordedInv
  <2>1. CASE UNCHANGED <<rec, error, bytes, life, stored>> /\ faults = 0
    BY <1>2, <2>1 DEF RecordedInv, Recorded
  <2>2. ASSUME NEW b \in Bot, NEW id \in SessionId, Create(b, id)
        PROVE  \A c \in Bot : Recorded(c)'
    <3>1. UNCHANGED <<rec, error, bytes, stored, faults>> /\ life' = [life EXCEPT ![b] = "record"]
      BY <2>2 DEF Create
    <3>2. Recorded(b) BY <1>2, <3>1 DEF RecordedInv
    <3>3. Recorded(b)' BY <2>0, <3>1, <3>2 DEF Recorded
    <3> QED BY <2>e, <3>1, <3>3
  <2>3. ASSUME NEW b \in Bot, Cancel(b) \/ DeadlinePasses(b)
        PROVE  \A c \in Bot : Recorded(c)'
    BY <2>1, <2>3 DEF Cancel, DeadlinePasses, Expire
  <2>4. ASSUME NEW b \in Bot, Record(b) PROVE \A c \in Bot : Recorded(c)'
    <3>1. faults = 0
      <4>1. faults' \in {faults, faults + 1}
        BY <2>4 DEF Record, RecordStep, StartRecord, SinkReady, SinkFails, LoadBrowser, Launch,
               LaunchFails, SeesMeeting, SeesLobby, SeesBlocker, SeesNotStarted, SeesNothing,
               RunsOut, Admitted, Waits, Capture, Release, FailJoin, Poll, pageVars
      <4> QED BY <2>0, <4>1
    <3>2. \A c \in Bot : Recorded(c) BY <1>2, <3>1 DEF RecordedInv
    <3>3. UNCHANGED <<life, stored>> BY <2>4 DEF Record
    <3> QED BY <1>2, <2>4, <3>2, <3>3, RecordStepRecorded, RecordedElsewhere
  <2>5. ASSUME NEW b \in Bot, Transition(b) \/ Deliver(b) PROVE \A c \in Bot : Recorded(c)'
    <3>1. UNCHANGED <<rec, error, bytes, life, stored>> BY <2>5 DEF Transition, Deliver
    <3>2. faults' = faults \/ faults' = faults + 1 BY <2>5 DEF Transition, Deliver
    <3> QED BY <2>0, <2>1, <3>1, <3>2
  <2>6. ASSUME NEW b \in Bot, Conclude(b) PROVE \A c \in Bot : Recorded(c)'
    <3>1. /\ UNCHANGED <<rec, error, bytes, stored, faults>> /\ rec[b] = "ended"
          /\ \/ life' = [life EXCEPT ![b] = "partial"] \/ life' = [life EXCEPT ![b] = "upload"]
             \/ life' = [life EXCEPT ![b] = "done"] /\ bytes[b] = "none"
             \/ life' = [life EXCEPT ![b] = "fail"] /\ error[b] # "none"
      BY <2>6 DEF Conclude, At
    <3>2. Recorded(b) BY <1>2, <3>1 DEF RecordedInv
    <3>3. Recorded(b)' BY <2>0, <3>1, <3>2 DEF Recorded
    <3>4. faults = 0 /\ \E t : life' = [life EXCEPT ![b] = t] BY <3>1
    <3> QED BY <2>e, <3>1, <3>3, <3>4
  <2>7. ASSUME NEW b \in Bot, Upload(b) PROVE \A c \in Bot : Recorded(c)'
    <3>1. PICK answer \in Answers(bytes[b]) :
             /\ Stores(b, answer)
             /\ IF answer = "stored"
                THEN NextUpload(b) /\ tries' = [tries EXCEPT ![b] = 0] /\ UNCHANGED <<keyed, error>>
                ELSE IF GivesUp(b, answer)
                THEN Enter(b, "fail") /\ Throw(b, "upload") /\ UNCHANGED <<say, part, tries, keyed>>
                ELSE UploadAgain(b, answer)
      BY <2>7 DEF Upload
    <3>2. answer = "stored" BY <2>0, <3>1, StoredShortOfFaults DEF Stores
    <3>3. UNCHANGED <<rec, bytes, error>> /\ faults = 0
      BY <2>7, <3>1, <3>2 DEF Upload, Stores, Answered
    <3>4. stored' = [stored EXCEPT ![b] = stored[b] \cup {part[b]}]
      BY <2>0, <3>1, <3>2 DEF Stores, Put
    <3>5. \E t \in {"upload", "split", "done"} : life' = [life EXCEPT ![b] = t]
      BY <3>1, <3>2 DEF NextUpload, Completed
    <3>6. 0 \in stored'[b]
      <4>1. 0 \in Parts /\ part[b] \in Nat BY <2>0, PartsFacts
      <4>2. \A p \in Parts : p < part[b] => p \in stored[b] BY <1>2 DEF ReportsInv, Reports
      <4>3. part[b] = 0 \/ 0 < part[b] BY <4>1
      <4> QED BY <2>0, <3>4, <4>1, <4>2, <4>3
    <3>7. Recorded(b) BY <1>2, <3>3 DEF RecordedInv
    <3>8. Recorded(b)' BY <2>0, <3>3, <3>5, <3>6, <3>7 DEF Recorded
    <3> QED BY <2>e, <3>3, <3>4, <3>5, <3>8
  <2>8. ASSUME NEW b \in Bot, UploadPartial(b) PROVE \A c \in Bot : Recorded(c)'
    <3>1. PICK answer \in Answers(bytes[b]) :
             /\ Stores(b, answer)
             /\ IF answer # "stored" /\ ~GivesUp(b, answer)
                THEN UploadAgain(b, answer)
                ELSE /\ Enter(b, "done") /\ Say(b, <<"canceled">>) /\ Keep(b, answer = "stored")
                     /\ UNCHANGED <<tries, part, error>>
      BY <2>8 DEF UploadPartial
    <3>2. answer = "stored" BY <2>0, <3>1, StoredShortOfFaults DEF Stores
    <3>3. UNCHANGED <<rec, bytes, error>> /\ faults = 0
      BY <2>8, <3>1, <3>2 DEF UploadPartial, Stores, Answered
    <3>4. stored' = [stored EXCEPT ![b] = stored[b] \cup {part[b]}]
      BY <2>0, <3>1, <3>2 DEF Stores, Put
    <3>5. life' = [life EXCEPT ![b] = "done"] BY <3>1, <3>2
    <3>6. part[b] = 0 BY <1>2, <2>8 DEF ReportsInv, Reports, UploadPartial
    <3>7. Recorded(b) BY <1>2, <3>3 DEF RecordedInv
    <3>8. Recorded(b)' BY <2>0, <3>3, <3>4, <3>5, <3>6, <3>7 DEF Recorded
    <3> QED BY <2>e, <3>3, <3>4, <3>5, <3>8
  <2>9. ASSUME NEW b \in Bot, Split(b) PROVE \A c \in Bot : Recorded(c)'
    <3>1. /\ UNCHANGED <<rec, bytes, error, stored>> /\ faults = 0
          /\ life' = [life EXCEPT ![b] = "upload"]
      BY <2>0, <2>9 DEF Split
    <3>2. Recorded(b) BY <1>2, <3>1 DEF RecordedInv
    <3>3. Recorded(b)' BY <2>0, <3>1, <3>2 DEF Recorded
    <3> QED BY <2>e, <3>1, <3>3
  <2>10. ASSUME NEW b \in Bot, FinishFailed(b) \/ UploadDiagnostics(b) \/ ReportFailure(b)
         PROVE  \A c \in Bot : Recorded(c)'
    <3>1. /\ UNCHANGED <<rec, bytes, error, stored>> /\ life[b] \in {"fail", "diagnose"}
          /\ life' = life \/ \E t \in {"diagnose", "done"} : life' = [life EXCEPT ![b] = t]
      BY <2>10 DEF FinishFailed, UploadDiagnostics, ReportFailure
    <3>2. faults' = faults \/ faults' = faults + 1
      BY <2>10 DEF FinishFailed, UploadDiagnostics, ReportFailure, Answered
    <3>3. faults = 0 BY <2>0, <3>2
    <3>4. Recorded(b) BY <1>2, <3>3 DEF RecordedInv
    <3>5. Recorded(b)' BY <2>0, <3>1, <3>4 DEF Recorded
    <3> QED BY <2>e, <3>1, <3>3, <3>5
  <2>11. CASE UNCHANGED vars BY <2>1, <2>11 DEF vars, recorderVars
  <2> QED
    BY <1>2, <2>2, <2>3, <2>4, <2>5, <2>6, <2>7, <2>8, <2>9, <2>10, <2>11 DEF Next, BotStep
<1> QED BY <1>1, <1>2

(* Whenever it is canceled and however it ended, a recording that was made  *)
(* is in storage when its session is over, if nothing failed and storage    *)
(* takes what the runtime sends (docs/meeting-bot-runtime.md:61).           *)
THEOREM RecordingsUploadedHolds ==
  ASSUME Storage = "any"
  PROVE  Spec => []RecordingsUploaded
<1>1. RecordedInv => RecordingsUploaded BY DEF RecordedInv, Recorded, RecordingsUploaded, Over
<1> QED
  BY <1>1, Invariant, CleanInductive, ReportsInductive, RangesInductive, RecordedInductive,
     PTL DEF Spec

----------------------------------------------------------------------------
(* The contract of MeetingBot.                                              *)

Errs == [Bot -> Errors]
Early == {"idle"} \cup JoinStages
NotYet(t) == \A i \in 1..Len(t) : t[i] \in JoiningStates
Ordered(t) ==
    \A i, j \in 1..Len(t) : i < j /\ t[i] \notin JoiningStates => t[j] \notin JoiningStates

LEMMA Tuples ==
  /\ <<>> \in Seq(Announced) /\ NotYet(<<>>)
  /\ \A x \in Announced \cap JoiningStates : <<x>> \in Seq(Announced) /\ NotYet(<<x>>)
  /\ <<"joined", "recording">> \in Seq(Announced) /\ Ordered(<<"joined", "recording">>)
<1> USE DEF NotYet, Ordered, JoiningStates
<1>1. /\ <<>> \in Seq(Announced) /\ NotYet(<<>>)
      /\ \A x \in Announced \cap JoiningStates : <<x>> \in Seq(Announced) /\ NotYet(<<x>>)
  OBVIOUS
<1>2. <<"joined", "recording">> \in Seq(Announced) /\ Ordered(<<"joined", "recording">>)
  OBVIOUS
<1> QED BY <1>1, <1>2

LEMMA Prefixed ==
  ASSUME NEW s \in Seq(Announced)
  PROVE  /\ <<"prejoin">> \o s \in Seq(Announced)
         /\ NotYet(s) => NotYet(<<"prejoin">> \o s)
         /\ Ordered(s) => Ordered(<<"prejoin">> \o s)
<1> DEFINE p == <<"prejoin">>
           t == p \o s
<1>1. p \in Seq(Announced) /\ Len(p) = 1 /\ p[1] = "prejoin" OBVIOUS
<1>2. Len(s) \in Nat BY LenProperties
<1>3. /\ t \in Seq(Announced) /\ Len(t) = 1 + Len(s) /\ t[1] = "prejoin"
      /\ \A i \in 1..Len(t) : i > 1 => i - 1 \in 1..Len(s) /\ t[i] = s[i - 1]
  BY <1>1, <1>2, ConcatProperties
<1> HIDE DEF t
<1>i. \A i \in 1..Len(t) : i = 1 \/ i > 1 BY <1>2, <1>3
<1>4. ASSUME NotYet(s), NEW i \in 1..Len(t) PROVE t[i] \in JoiningStates
  BY <1>3, <1>4, <1>i DEF NotYet, JoiningStates
<1>5. ASSUME Ordered(s), NEW i \in 1..Len(t), NEW j \in 1..Len(t), i < j,
             t[i] \notin JoiningStates
      PROVE  t[j] \notin JoiningStates
  <2>1. i > 1 BY <1>3, <1>5, <1>i DEF JoiningStates
  <2>2. j > 1 /\ i - 1 < j - 1 BY <1>2, <1>3, <1>5, <2>1
  <2> QED BY <1>3, <1>5, <2>1, <2>2 DEF Ordered
<1>6. (NotYet(s) => NotYet(t)) /\ (Ordered(s) => Ordered(t)) BY <1>4, <1>5 DEF NotYet, Ordered
<1> QED BY <1>3, <1>6 DEF t

(* What one step of record() announces: states before the meeting, or the   *)
(* meeting, of which no error comes that forbids a retry.                   *)
Says(b, t) == t \in Seq(Announced) /\ say' = [say EXCEPT ![b] = t]

LEMMA RecordPhases ==
  ASSUME rec \in [Bot -> Stages], error \in Errs, Types, NEW b \in Bot,
         StartRecord(b) \/ RecordStep(b)
  PROVE  /\ say[b] = <<>> /\ aborted' = aborted
         /\ rec' = rec \/ \E r : rec' = [rec EXCEPT ![b] = r]
         /\ error' = error \/ \E e : error' = [error EXCEPT ![b] = e]
         /\ \/ /\ rec[b] \in Early
               /\ \E t : Says(b, t) /\ NotYet(t)
               /\ rec'[b] \in Early => error'[b] = error[b]
               /\ rec'[b] \in Early \cup {"release", "ended"}
            \/ /\ rec[b] \in Early /\ rec'[b] = "capture" /\ error'[b] = error[b]
               /\ \E t : Says(b, t) /\ Ordered(t)
            \/ /\ rec[b] \in {"capture", "release"} /\ rec'[b] \in {"release", "ended"}
               /\ error'[b] \in {error[b], "recording"} /\ say' = say
<1> USE DEF At, Goto, Throw, Say, FailJoin, Poll, pageVars, JoinStages, Stages, Errs, Early, Says
<1>0. <<>> \in Seq(Announced) /\ NotYet(<<>>) /\ (say[b] = <<>> => say = [say EXCEPT ![b] = <<>>])
  BY Tuples DEF Types
<1>s. \A x \in Announced \cap JoiningStates : <<x>> \in Seq(Announced) /\ NotYet(<<x>>)
  BY Tuples
<1>j. {"warming", "browser_starting", "prejoin", "waiting_for_start", "waiting_room"}
        \subseteq Announced \cap JoiningStates
  BY DEF JoiningStates
<1>1. CASE StartRecord(b) BY <1>1, <1>s, <1>j DEF StartRecord
<1>2. CASE SinkReady(b) BY <1>2, <1>s, <1>j DEF SinkReady
<1>3. CASE SinkFails(b) BY <1>3, <1>0 DEF SinkFails
<1>4. CASE LoadBrowser(b) BY <1>4, <1>0 DEF LoadBrowser
<1>5. CASE Launch(b) BY <1>5, <1>0, <1>s, <1>j DEF Launch
<1>6. CASE LaunchFails(b) BY <1>6, <1>0 DEF LaunchFails
<1>7. CASE SeesMeeting(b) BY <1>7, Tuples, Prefixed DEF SeesMeeting, LeaveWaiting, Joined
<1>8. CASE SeesLobby(b) BY <1>8, <1>s, <1>j, Prefixed DEF SeesLobby, LeaveWaiting
<1>9. CASE SeesBlocker(b) BY <1>9, <1>0 DEF SeesBlocker
<1>10. CASE SeesNotStarted(b) BY <1>10, <1>0, <1>s, <1>j DEF SeesNotStarted
<1>11. CASE SeesNothing(b) BY <1>11, <1>0, Prefixed DEF SeesNothing, LeaveWaiting
<1>12. CASE RunsOut(b) BY <1>12, <1>0 DEF RunsOut
<1>13. CASE Admitted(b) BY <1>13, Tuples DEF Admitted, Joined
<1>14. CASE Waits(b) BY <1>14, <1>0 DEF Waits
<1>15. CASE Capture(b)
  <2>1. /\ rec' = [rec EXCEPT ![b] = "release"] /\ rec[b] = "capture" /\ say[b] = <<>>
        /\ say' = say /\ aborted' = aborted
        /\ error' = [error EXCEPT ![b] = "recording"] \/ error' = error
    BY <1>15 DEF Capture
  <2> QED BY <2>1
<1>16. CASE Release(b) BY <1>16 DEF Release
<1> QED
  BY <1>1, <1>2, <1>3, <1>4, <1>5, <1>6, <1>7, <1>8, <1>9, <1>10, <1>11, <1>12, <1>13,
     <1>14, <1>15, <1>16 DEF RecordStep

(* Bot b has not been in the meeting, and is not about to announce it.      *)
NoneJoined(b) == state[b] \in JoiningStates /\ NotYet(say[b])

(* What b still has to say follows from where it is: no way leads back to   *)
(* the states before the meeting, which only record() announces.            *)
Follows(b) ==
    /\ session[b] = NoSession => state[b] = "none" /\ say[b] = <<>>
    /\ session[b] # NoSession => state[b] # "none"
    /\ \A i \in 1..Len(say[b]) : say[b][i] # "none"
    /\ hook[b] > 0 => state[b] = say[b][1]
    /\ hook[b] = 0 /\ say[b] # <<>> => state[b] \notin Terminal
    /\ Ordered(say[b])
    /\ state[b] \notin JoiningStates => \A i \in 1..Len(say[b]) : say[b][i] \notin JoiningStates
    /\ \A i \in 1..Len(say[b]) : say[b][i] \in JoiningStates => life[b] = "record"

(* How a run that is over ends: what is left is being announced, or is the  *)
(* one terminal state that the phase before it allows.                      *)
Ending(b) ==
    \/ say[b] = <<>>
    \/ hook[b] > 0 /\ state[b] \in Terminal
    \/ /\ hook[b] = 0
       /\ \/ say[b] = <<"failed">> /\ (error[b] \in Blockers => state[b] \in JoiningStates)
          \/ say[b] = <<"post_processing_completed">> /\ state[b] \in JoinedStates
          \/ say[b] = <<"canceled">> /\ state[b] \in JoinedStates /\ aborted[b] # "no"
    \/ say[b] = <<"stopping", "canceled">> /\ aborted[b] # "no"

(* Each stage of runBotLifecycle knows where its bot is: one that failed    *)
(* with a blocker, or has not captured anything, was never in the meeting.  *)
InStage(b) ==
    /\ life[b] = "record" /\ rec[b] \in Early => NoneJoined(b)
    /\ life[b] \in {"none", "record"} /\ rec[b] \in Early => error[b] = "none"
    /\ life[b] = "record" /\ error[b] \in Blockers => NoneJoined(b)
    /\ life[b] \in {"upload", "split", "partial"} /\ say[b] = <<>> => state[b] \in JoinedStates
    /\ life[b] \in {"fail", "diagnose"} =>
          say[b] = <<>> /\ (error[b] \in Blockers => state[b] \in JoiningStates)
    /\ life[b] = "partial" => aborted[b] # "no"
    /\ life[b] = "done" => Ending(b)

InOrder == \A b \in Bot : Follows(b) /\ InStage(b)

(* What the invariants proved above say of the variables here.              *)
Known ==
    /\ IInv /\ rec \in [Bot -> Stages] /\ error \in Errs /\ keyed \in [Bot -> BOOLEAN]
    /\ \A b \in Bot : session[b] = NoSession => life[b] = "none"

LEMMA KnownFacts == IInv /\ Clean /\ ReportsInv /\ Ranges => Known
  BY DEF Known, Clean, ReportsInv, Reports, Ranges, Errs

USE DEF JoiningStates, JoinedStates

LEMMA InOrderAtFirst == Init => InOrder
<1> SUFFICES ASSUME Init, NEW b \in Bot PROVE Follows(b) /\ InStage(b) BY DEF InOrder
<1>1. /\ session[b] = NoSession /\ state[b] = "none" /\ say[b] = <<>> /\ hook[b] = 0
      /\ life[b] = "none" /\ error[b] = "none"
  BY DEF Init, RecorderInit
<1> QED BY <1>1 DEF Follows, InStage, Ordered

(* A bot of which none of this changes.                                     *)
LEMMA InOrderKept ==
  ASSUME NEW b \in Bot, Follows(b), InStage(b),
         session'[b] = session[b], state'[b] = state[b], say'[b] = say[b],
         life'[b] = life[b], hook'[b] = hook[b], rec'[b] = rec[b], error'[b] = error[b],
         aborted'[b] = aborted[b] \/ aborted'[b] # "no"
  PROVE  Follows(b)' /\ InStage(b)'
<1>1. Follows(b)' BY DEF Follows, Ordered
<1>2. (NoneJoined(b) => NoneJoined(b)') /\ (Ending(b) => Ending(b)')
  BY DEF NoneJoined, NotYet, Ending
<1>3. InStage(b)' BY <1>2 DEF InStage
<1> QED BY <1>1, <1>3

(* A step of one bot leaves the others in order.                            *)
LEMMA OthersInOrder ==
  ASSUME Known, InOrder, NEW b \in Bot, Follows(b)' /\ InStage(b)',
         say' = say \/ \E t : say' = [say EXCEPT ![b] = t],
         session' = session \/ \E t : session' = [session EXCEPT ![b] = t],
         state' = state \/ \E t : state' = [state EXCEPT ![b] = t],
         life' = life \/ \E t : life' = [life EXCEPT ![b] = t],
         hook' = hook \/ \E t : hook' = [hook EXCEPT ![b] = t],
         rec' = rec \/ \E t : rec' = [rec EXCEPT ![b] = t],
         error' = error \/ \E t : error' = [error EXCEPT ![b] = t],
         aborted' = aborted \/ \E t : aborted' = [aborted EXCEPT ![b] = t]
  PROVE  InOrder'
<1> SUFFICES ASSUME NEW c \in Bot, c # b PROVE Follows(c)' /\ InStage(c)' BY DEF InOrder
<1> USE DEF Known, IInv, Types
<1>1. say'[c] = say[c] /\ session'[c] = session[c] OBVIOUS
<1>2. state'[c] = state[c] /\ life'[c] = life[c] OBVIOUS
<1>3. hook'[c] = hook[c] /\ rec'[c] = rec[c] OBVIOUS
<1>4. error'[c] = error[c] /\ aborted'[c] = aborted[c] BY DEF Errs
<1> QED BY <1>1, <1>2, <1>3, <1>4, InOrderKept DEF InOrder

----------------------------------------------------------------------------
(* The order is kept: one lemma for the steps of each kind.                 *)

LEMMA CreateInOrder ==
  ASSUME Known, InOrder, NEW b \in Bot, NEW id \in SessionId, Create(b, id)
  PROVE  InOrder'
<1> USE DEF Known, IInv, Types
<1> DEFINE t == <<"created">>
<1>0. t[1] = "created" /\ t # <<>> /\ \A i \in 1..Len(t) : i = 1 /\ t[i] = "created" OBVIOUS
<1>1. say' = [say EXCEPT ![b] = t] /\ say'[b] = t BY DEF Create, Say
<1> HIDE DEF t
<1>2. session'[b] = id /\ id # NoSession BY DEF Create
<1>3. /\ state'[b] = "created" /\ life'[b] = "record" /\ rec' = rec /\ error' = error
      /\ aborted' = aborted
  BY DEF Create
<1>4. Follows(b)'
  <2>1. Ordered(t) BY <1>0 DEF Ordered
  <2> QED BY <1>0, <1>1, <1>2, <1>3, <2>1 DEF Follows
<1>5. NoneJoined(b)'
  <2>1. NotYet(t) BY <1>0 DEF NotYet
  <2> QED BY <1>1, <1>3, <2>1 DEF NoneJoined
<1>6. rec[b] \in Early => error[b] = "none" BY DEF Create, InOrder, InStage
<1>7. InStage(b)' BY <1>3, <1>5, <1>6 DEF InStage
<1> QED BY <1>1, <1>3, <1>4, <1>7, OthersInOrder DEF Create

(* The head of say is announced.                                            *)
LEMMA AnnouncedInOrder ==
  ASSUME Known, InOrder, NEW b \in Bot, say[b] # <<>>, hook[b] = 0, say' = say,
         state' = [state EXCEPT ![b] = Head(say[b])],
         hook' = [hook EXCEPT ![b] = WebhookAttempts],
         UNCHANGED <<session, life, rec, error, aborted>>
  PROVE  InOrder'
<1> USE DEF Known, IInv, Types
<1> DEFINE t == say[b]
<1>0. /\ t \in Seq(States) /\ Len(t) \in Nat \ {0} /\ Head(t) = t[1] /\ 1 \in 1..Len(t)
  BY EmptySeq, LenProperties
<1>1. /\ say'[b] = t /\ state'[b] = t[1] /\ hook'[b] = WebhookAttempts /\ t # <<>>
      /\ WebhookAttempts > 0
  BY <1>0
<1>2. Follows(b) /\ InStage(b) BY DEF InOrder
<1>3. \A i \in 1..Len(t) : i = 1 \/ 1 < i BY <1>0
<1> HIDE DEF t
<1>4. Follows(b)'
  <2>1. session[b] # NoSession /\ t[1] # "none" /\ Ordered(t)
    BY <1>0, <1>2 DEF Follows, t
  <2>2. t[1] \notin JoiningStates => \A i \in 1..Len(t) : t[i] \notin JoiningStates
    BY <1>0, <1>3, <2>1 DEF Ordered
  <2>3. \A i \in 1..Len(t) : t[i] # "none" /\ (t[i] \in JoiningStates => life[b] = "record")
    BY <1>2 DEF Follows, t
  <2> QED BY <1>1, <2>1, <2>2, <2>3 DEF Follows
<1>5. NoneJoined(b) => NoneJoined(b)' BY <1>0, <1>1 DEF NoneJoined, NotYet, t
<1>6. Ending(b) => Ending(b)'
  <2>1. \A x \in Terminal : t = <<x>> => t[1] = x OBVIOUS
  <2> QED BY <1>1, <2>1 DEF Ending, t
<1>7. InStage(b)' BY <1>1, <1>2, <1>5, <1>6 DEF InStage, t
<1> QED BY <1>4, <1>7, OthersInOrder

(* The head of say was heard, given up, or dropped.                         *)
LEMMA LeavesInOrder ==
  ASSUME Known, InOrder, NEW b \in Bot, say[b] # <<>>,
         say' = [say EXCEPT ![b] = Tail(say[b])], hook' = [hook EXCEPT ![b] = 0],
         hook[b] = 0 => life[b] = "record",
         UNCHANGED <<session, state, life, rec, error, aborted>>
  PROVE  InOrder'
<1> USE DEF Known, IInv, Types
<1> DEFINE t == Tail(say[b])
<1>0. /\ t \in Seq(States) /\ Len(t) = Len(say[b]) - 1 /\ Len(say[b]) \in Nat \ {0}
      /\ \A i \in 1..Len(t) : t[i] = say[b][i + 1]
  BY HeadTailProperties, EmptySeq, LenProperties
<1>1. say'[b] = t /\ hook'[b] = 0 OBVIOUS
<1>2. /\ Follows(b) /\ InStage(b) /\ SaysInOrder(b) /\ state[b] \in States
      /\ (life[b] # "done" => \A st \in Terminal : ~Takes(b, st))
  BY DEF InOrder, SaysInOrder
<1>3. \A i \in 1..Len(t) : i + 1 \in 1..Len(say[b]) BY <1>0
<1>e. Len(t) = 0 => t = <<>> BY <1>0, EmptySeq
<1> HIDE DEF t
<1>4. Follows(b)'
  <2>1. session[b] # NoSession /\ state[b] # "none" BY <1>2 DEF Follows
  <2>2. \A i \in 1..Len(t) : /\ t[i] # "none"
                             /\ (t[i] \in JoiningStates => life[b] = "record")
                             /\ (state[b] \notin JoiningStates => t[i] \notin JoiningStates)
    BY <1>0, <1>2, <1>3 DEF Follows
  <2>3. Ordered(t)
    <3> SUFFICES ASSUME NEW i \in 1..Len(t), NEW j \in 1..Len(t), i < j,
                        t[i] \notin JoiningStates
                 PROVE  t[j] \notin JoiningStates
      BY DEF Ordered
    <3>1. i + 1 < j + 1 /\ i + 1 \in 1..Len(say[b]) /\ j + 1 \in 1..Len(say[b])
      BY <1>0, <1>3
    <3> QED BY <1>0, <1>2, <3>1 DEF Follows, Ordered
  <2>4. state[b] \in Terminal => t = <<>>
    <3>1. state[b] \in Terminal => Len(say[b]) = 1 BY <1>2 DEF SaysInOrder
    <3> QED BY <1>0, <1>e, <3>1
  <2>5. state'[b] = state[b] /\ life'[b] = life[b] /\ session'[b] = session[b] OBVIOUS
  <2>6. \A i \in 1..Len(say'[b]) :
           /\ say'[b][i] # "none" /\ (say'[b][i] \in JoiningStates => life'[b] = "record")
           /\ (state'[b] \notin JoiningStates => say'[b][i] \notin JoiningStates)
    BY <1>1, <2>2, <2>5
  <2>7. (hook'[b] = 0 /\ say'[b] # <<>> => state'[b] \notin Terminal) /\ ~(hook'[b] > 0)
    BY <1>1, <2>4, <2>5
  <2>8. Ordered(say'[b]) BY <1>1, <2>3
  <2> QED BY <2>1, <2>5, <2>6, <2>7, <2>8 DEF Follows
<1>5. NoneJoined(b) => NoneJoined(b)' BY <1>0, <1>1, <1>3 DEF NoneJoined, NotYet
<1>6. life[b] = "done" /\ Ending(b) => Ending(b)'
  <2>1. CASE state[b] \in Terminal
    <3>1. Len(say[b]) = 1 BY <2>1, <1>2 DEF SaysInOrder
    <3>2. t = <<>> BY <1>0, <1>e, <3>1
    <3> QED BY <1>1, <3>2 DEF Ending
  <2>2. CASE hook[b] > 0 /\ say[b] = <<"stopping", "canceled">> /\ aborted[b] # "no"
    <3>1. say[b][1] = "stopping" /\ t = <<"canceled">> BY <2>2 DEF t
    <3>2. state[b] = "stopping" BY <1>2, <2>2, <3>1 DEF Follows
    <3> QED BY <1>1, <2>2, <3>1, <3>2 DEF Ending
  <2>3. hook[b] = 0 \/ hook[b] > 0 OBVIOUS
  <2> QED BY <2>1, <2>2, <2>3 DEF Ending
<1>7. life[b] \in {"upload", "split", "partial"} /\ t = <<>> => state[b] \in JoinedStates
  <2> SUFFICES ASSUME life[b] \in {"upload", "split", "partial"}, t = <<>>
               PROVE  state[b] \in JoinedStates
    OBVIOUS
  <2>1. hook[b] > 0 /\ state[b] = say[b][1] /\ 1 \in 1..Len(say[b]) BY <1>0, <1>2 DEF Follows
  <2>2. state[b] \notin Terminal BY <1>2 DEF Takes
  <2>3. state[b] # "none" /\ state[b] \notin JoiningStates BY <1>2, <2>1 DEF Follows
  <2> QED BY <1>2, <2>2, <2>3
<1>8. InStage(b)' BY <1>1, <1>2, <1>5, <1>6, <1>7 DEF InStage
<1> QED BY <1>4, <1>8, OthersInOrder

LEMMA DeliveryInOrder ==
  ASSUME Known, InOrder, NEW b \in Bot, Transition(b) \/ Deliver(b)
  PROVE  InOrder'
<1> USE DEF Known, IInv, Types, Say
<1>h. hook[b] \in Nat /\ (hook[b] > 0 => say[b] # <<>>) BY DEF SaysInOrder
<1>1. CASE Transition(b)
  <2>1. /\ say[b] # <<>> /\ hook[b] = 0
        /\ UNCHANGED <<session, life, rec, error, aborted>>
    BY <1>1 DEF Transition
  <2>2. CASE /\ life[b] = "record" /\ UNCHANGED <<state, hook>>
             /\ say' = [say EXCEPT ![b] = Tail(say[b])]
    <3>1. hook' = [hook EXCEPT ![b] = 0] BY <2>1, <2>2
    <3> QED BY <2>1, <2>2, <3>1, LeavesInOrder
  <2>3. CASE /\ state' = [state EXCEPT ![b] = Head(say[b])] /\ say' = say
             /\ hook' = [hook EXCEPT ![b] = WebhookAttempts]
    BY <2>1, <2>3, AnnouncedInOrder
  <2> QED BY <1>1, <2>2, <2>3 DEF Transition
<1>2. CASE Deliver(b)
  <2>1. hook[b] > 0 /\ UNCHANGED <<session, state, life, rec, error, aborted>>
    BY <1>2 DEF Deliver, deliveryVars
  <2>2. CASE /\ say' = [say EXCEPT ![b] = Tail(say[b])]
             /\ hook' = [hook EXCEPT ![b] = 0]
    <3>1. say[b] # <<>> /\ (hook[b] = 0 => life[b] = "record") BY <1>h, <2>1
    <3> QED BY <2>1, <2>2, <3>1, LeavesInOrder
  <2>3. CASE say' = say /\ hook[b] # 1 /\ hook' = [hook EXCEPT ![b] = hook[b] - 1]
    <3>1. hook'[b] > 0 BY <1>h, <2>1, <2>3
    <3>2. UNCHANGED <<say[b], state[b], session[b], life[b], rec[b], error[b], aborted[b]>>
      BY <2>1, <2>3
    <3>3. Follows(b) /\ InStage(b) BY DEF InOrder
    <3>4. Follows(b)' BY <1>h, <2>1, <3>1, <3>2, <3>3 DEF Follows, Ordered
    <3>5. (NoneJoined(b) => NoneJoined(b)') /\ (Ending(b) => Ending(b)')
      BY <1>h, <2>1, <3>1, <3>2 DEF NoneJoined, NotYet, Ending
    <3>6. InStage(b)' BY <3>2, <3>3, <3>5 DEF InStage
    <3> QED BY <2>1, <2>3, <3>4, <3>6, OthersInOrder
  <2>4. hook[b] = 1 => hook[b] - 1 = 0 OBVIOUS
  <2> QED BY <1>2, <2>2, <2>3, <2>4 DEF Deliver
<1> QED BY <1>1, <1>2

LEMMA StartsInOrder ==
  ASSUME Known, InOrder, NEW b \in Bot, Cancel(b) \/ DeadlinePasses(b)
  PROVE  InOrder'
<1>1. /\ UNCHANGED <<session, state, say, life, hook, rec, error>>
      /\ \A c \in Bot : aborted'[c] = aborted[c] \/ aborted'[c] # "no"
  BY DEF Cancel, DeadlinePasses, Expire, runtimeVars, Known, IInv, Types
<1> QED BY <1>1, InOrderKept DEF InOrder

(* record() announces the meeting when no error was met, and no blocker     *)
(* from then on.                                                            *)
LEMMA RecordInOrder ==
  ASSUME Known, InOrder, NEW b \in Bot, Record(b)
  PROVE  InOrder'
<1> USE DEF Known, IInv, Types
<1>1. UNCHANGED <<session, state, life, hook>> /\ life[b] = "record"
  BY DEF Record, runtimeVars
<1>2. /\ say[b] = <<>> /\ aborted' = aborted
      /\ rec' = rec \/ \E r : rec' = [rec EXCEPT ![b] = r]
      /\ error' = error \/ \E e : error' = [error EXCEPT ![b] = e]
      /\ \/ /\ rec[b] \in Early
            /\ \E t : Says(b, t) /\ NotYet(t)
            /\ rec'[b] \in Early => error'[b] = error[b]
            /\ rec'[b] \in Early \cup {"release", "ended"}
         \/ /\ rec[b] \in Early /\ rec'[b] = "capture" /\ error'[b] = error[b]
            /\ \E t : Says(b, t) /\ Ordered(t)
         \/ /\ rec[b] \in {"capture", "release"} /\ rec'[b] \in {"release", "ended"}
            /\ error'[b] \in {error[b], "recording"} /\ say' = say
  BY RecordPhases DEF Record
<1>3. /\ Follows(b) /\ InStage(b) /\ hook[b] = 0 /\ session[b] # NoSession
      /\ state[b] \notin Terminal
  <2>1. \A st \in Terminal : ~Takes(b, st) BY <1>1 DEF SaysInOrder
  <2> QED BY <1>1, <1>2, <2>1 DEF InOrder, SaysInOrder, Takes
<1>r. "recording" \notin Blockers /\ "none" \notin Blockers
      /\ {"capture", "release", "ended"} \cap Early = {}
  BY DEF Blockers, Early, JoinStages
<1>4. ASSUME NEW t, Says(b, t), Ordered(t),
             state[b] \notin JoiningStates => \A i \in 1..Len(t) : t[i] \notin JoiningStates
      PROVE  Follows(b)' /\ say'[b] = t
  <2>1. say'[b] = t BY <1>4 DEF Says
  <2>2. t \in Seq(Announced) BY <1>4 DEF Says
  <2>3. \A i \in 1..Len(t) : t[i] \in Announced BY <2>2
  <2>4. \A i \in 1..Len(t) : t[i] # "none" BY <2>3
  <2> QED BY <1>1, <1>3, <1>4, <2>1, <2>4 DEF Follows
<1>5. \A t : NotYet(t) => Ordered(t) BY DEF NotYet, Ordered
<1>6. CASE /\ rec[b] \in Early /\ \E t : Says(b, t) /\ NotYet(t)
           /\ rec'[b] \in Early => error'[b] = error[b]
  <2>1. PICK t : Says(b, t) /\ NotYet(t) BY <1>6
  <2>2. NoneJoined(b) /\ error[b] = "none" BY <1>1, <1>3, <1>6 DEF InStage
  <2>3. Follows(b)' /\ say'[b] = t BY <1>4, <1>5, <2>1, <2>2 DEF NoneJoined
  <2>4. NoneJoined(b)' BY <1>1, <2>1, <2>2, <2>3 DEF NoneJoined
  <2>5. InStage(b)' BY <1>1, <1>6, <2>2, <2>4 DEF InStage
  <2> QED BY <1>1, <1>2, <2>1, <2>3, <2>5, OthersInOrder DEF Says
<1>7. CASE /\ rec[b] \in Early /\ rec'[b] = "capture" /\ error'[b] = error[b]
           /\ \E t : Says(b, t) /\ Ordered(t)
  <2>1. PICK t : Says(b, t) /\ Ordered(t) BY <1>7
  <2>2. NoneJoined(b) /\ error[b] = "none" BY <1>1, <1>3, <1>7 DEF InStage
  <2>3. Follows(b)' BY <1>4, <2>1, <2>2 DEF NoneJoined
  <2>4. InStage(b)' BY <1>1, <1>7, <1>r, <2>2 DEF InStage
  <2> QED BY <1>1, <1>2, <2>1, <2>3, <2>4, OthersInOrder DEF Says
<1>8. CASE /\ rec[b] \in {"capture", "release"} /\ rec'[b] \in {"release", "ended"}
           /\ error'[b] \in {error[b], "recording"} /\ say' = say
  <2>1. Follows(b)' BY <1>1, <1>3, <1>8 DEF Follows, Ordered
  <2>2. NoneJoined(b) => NoneJoined(b)' BY <1>1, <1>8 DEF NoneJoined, NotYet
  <2>3. InStage(b)' BY <1>1, <1>3, <1>8, <1>r, <2>2 DEF InStage
  <2> QED BY <1>1, <1>2, <1>8, <2>1, <2>3, OthersInOrder
<1> QED BY <1>2, <1>6, <1>7, <1>8

(* The stages after record() have announced all when they go on.            *)
LEMMA StageInOrder ==
  ASSUME Known, InOrder, NEW b \in Bot, life[b] \notin {"none", "done"}, say[b] = <<>>,
         NEW t, say' = [say EXCEPT ![b] = t],
         t = <<>> \/ t \in {<<"stopping", "uploading">>, <<"stopping", "canceled">>}
                  \/ \E st \in Terminal : t = <<st>>,
         NEW stage \in {"upload", "split", "partial", "fail", "diagnose", "done"},
         life' = [life EXCEPT ![b] = stage],
         InStage(b)', error' = error \/ \E e : error' = [error EXCEPT ![b] = e],
         UNCHANGED <<session, state, hook, rec, aborted>>
  PROVE  InOrder'
<1> USE DEF Known, IInv, Types
<1>1. /\ Follows(b) /\ hook[b] = 0 /\ session[b] # NoSession /\ state[b] \notin Terminal
  <2>1. \A st \in Terminal : ~Takes(b, st) BY DEF SaysInOrder
  <2>2. hook[b] \in Nat OBVIOUS
  <2> QED BY <2>1, <2>2 DEF InOrder, SaysInOrder, Takes
<1>2. \A i \in 1..Len(t) : t[i] # "none" /\ t[i] \notin JoiningStates
  <2>1. CASE t = <<>> BY <2>1
  <2>2. ASSUME NEW st \in {"uploading", "canceled"}, t = <<"stopping", st>>
        PROVE  \A i \in 1..Len(t) : t[i] # "none" /\ t[i] \notin JoiningStates
    <3>1. Len(t) = 2 /\ t[1] = "stopping" /\ t[2] = st BY <2>2
    <3>2. \A i \in 1..Len(t) : i = 1 \/ i = 2 BY <3>1
    <3> QED BY <3>1, <3>2
  <2>3. ASSUME NEW st \in Terminal, t = <<st>>
        PROVE  \A i \in 1..Len(t) : t[i] # "none" /\ t[i] \notin JoiningStates
    <3>1. \A i \in 1..Len(t) : t[i] = st BY <2>3
    <3> QED BY <3>1
  <2> QED BY <2>1, <2>2, <2>3
<1>3. Ordered(t) BY <1>2 DEF Ordered
<1>4. say'[b] = t OBVIOUS
<1>5. Follows(b)' BY <1>1, <1>2, <1>3, <1>4 DEF Follows
<1> QED BY <1>5, OthersInOrder

LEMMA ConcludeInOrder ==
  ASSUME Known, InOrder, NEW b \in Bot, Conclude(b)
  PROVE  InOrder'
<1> USE DEF Known, IInv, Types, At, Enter, Say, lifeVars
<1>1. /\ life[b] = "record" /\ say[b] = <<>> /\ InStage(b)
      /\ UNCHANGED <<session, state, hook, rec, error, aborted>>
  BY DEF Conclude, InOrder
<1>2. CASE /\ life' = [life EXCEPT ![b] = "fail"] /\ say' = say
  <2>1. say' = [say EXCEPT ![b] = <<>>] BY <1>1, <1>2
  <2>2. InStage(b)' BY <1>1, <1>2 DEF InStage, NoneJoined
  <2> QED BY <1>1, <1>2, <2>1, <2>2, StageInOrder
<1>3. ASSUME NEW stage \in {"partial", "upload"}, life' = [life EXCEPT ![b] = stage],
             say' = [say EXCEPT ![b] = <<"stopping", "uploading">>],
             stage = "partial" => aborted[b] # "no"
      PROVE  InOrder'
  <2>1. InStage(b)' BY <1>1, <1>3 DEF InStage
  <2> QED BY <1>1, <1>3, <2>1, StageInOrder
<1>4. CASE /\ life' = [life EXCEPT ![b] = "done"] /\ aborted[b] # "no"
           /\ say' = [say EXCEPT ![b] = <<"stopping", "canceled">>]
  <2>1. InStage(b)' BY <1>1, <1>4 DEF InStage, Ending
  <2> QED BY <1>1, <1>4, <2>1, StageInOrder
<1> QED BY <1>2, <1>3, <1>4 DEF Conclude

LEMMA UploadInOrder ==
  ASSUME Known, InOrder, NEW b \in Bot,
         \/ Upload(b) \/ Split(b) \/ UploadPartial(b) \/ FinishFailed(b)
         \/ UploadDiagnostics(b) \/ ReportFailure(b)
  PROVE  InOrder'
<1> USE DEF Known, IInv, Types, Enter, Say, Throw, lifeVars, diagnosisVars
<1>0. /\ InStage(b) /\ (life[b] \in {"split", "diagnose"} => say[b] = <<>>)
      /\ hook[b] \in Nat /\ (hook[b] > 0 => say[b] # <<>>)
      /\ UNCHANGED <<session, state, hook, rec, aborted>>
      /\ say[b] = <<>> => say = [say EXCEPT ![b] = <<>>]
      /\ "upload" \notin Blockers
  BY DEF InOrder, SaysInOrder, Blockers, Upload, Split, UploadPartial, FinishFailed,
         UploadDiagnostics, ReportFailure
<1>1. CASE Upload(b)
  <2>1. life[b] = "upload" /\ say[b] = <<>> /\ state[b] \in JoinedStates /\ hook[b] = 0
    BY <1>0, <1>1 DEF Upload, InStage
  <2>2. CASE /\ say' = say /\ error' = error
             /\ \E stage \in {"upload", "split"} : life' = [life EXCEPT ![b] = stage]
    <3>1. PICK stage \in {"upload", "split"} : life' = [life EXCEPT ![b] = stage] BY <2>2
    <3>2. InStage(b)' BY <1>0, <2>1, <2>2, <3>1 DEF InStage
    <3> QED BY <1>0, <2>1, <2>2, <3>1, <3>2, StageInOrder
  <2>3. CASE /\ say' = say /\ error' = [error EXCEPT ![b] = "upload"]
             /\ life' = [life EXCEPT ![b] = "fail"]
    <3>1. InStage(b)' BY <1>0, <2>1, <2>3 DEF InStage, Errs
    <3> QED BY <1>0, <2>1, <2>3, <3>1, StageInOrder
  <2>4. CASE /\ say' = [say EXCEPT ![b] = <<"post_processing_completed">>] /\ error' = error
             /\ life' = [life EXCEPT ![b] = "done"]
    <3>1. InStage(b)' BY <1>0, <2>1, <2>4 DEF InStage, Ending
    <3> QED BY <1>0, <2>1, <2>4, <3>1, StageInOrder
  <2>5. life' = life => life' = [life EXCEPT ![b] = "upload"] BY <2>1
  <2> QED BY <1>1, <2>2, <2>3, <2>4, <2>5 DEF Upload, NextUpload, Completed, UploadAgain
<1>2. CASE Split(b)
  <2>1. life[b] = "split" /\ say[b] = <<>> /\ state[b] \in JoinedStates /\ say' = say
    BY <1>0, <1>2 DEF Split, InStage
  <2>2. CASE life' = [life EXCEPT ![b] = "upload"] /\ error' = error
    <3>1. InStage(b)' BY <1>0, <2>1, <2>2 DEF InStage
    <3> QED BY <1>0, <2>1, <2>2, <3>1, StageInOrder
  <2>3. CASE life' = [life EXCEPT ![b] = "fail"] /\ error' = [error EXCEPT ![b] = "upload"]
    <3>1. InStage(b)' BY <1>0, <2>1, <2>3 DEF InStage, Errs
    <3> QED BY <1>0, <2>1, <2>3, <3>1, StageInOrder
  <2> QED BY <1>2, <2>2, <2>3 DEF Split
<1>3. CASE UploadPartial(b)
  <2>1. /\ life[b] = "partial" /\ say[b] = <<>> /\ state[b] \in JoinedStates /\ hook[b] = 0
        /\ aborted[b] # "no" /\ error' = error
    BY <1>0, <1>3 DEF UploadPartial, InStage, UploadAgain
  <2>2. CASE say' = say /\ life' = life
    <3>1. life' = [life EXCEPT ![b] = "partial"] BY <2>1, <2>2
    <3>2. InStage(b)' BY <1>0, <2>1, <2>2 DEF InStage
    <3> QED BY <1>0, <2>1, <2>2, <3>1, <3>2, StageInOrder
  <2>3. CASE /\ say' = [say EXCEPT ![b] = <<"canceled">>]
             /\ life' = [life EXCEPT ![b] = "done"]
    <3>1. InStage(b)' BY <1>0, <2>1, <2>3 DEF InStage, Ending
    <3> QED BY <1>0, <2>1, <2>3, <3>1, StageInOrder
  <2> QED BY <1>3, <2>2, <2>3 DEF UploadPartial, UploadAgain
<1>4. CASE FinishFailed(b) \/ UploadDiagnostics(b)
  <2>1. /\ life[b] \in {"fail", "diagnose"} /\ say[b] = <<>> /\ say' = say /\ error' = error
        /\ life' = [life EXCEPT ![b] = "diagnose"]
    BY <1>0, <1>4 DEF FinishFailed, UploadDiagnostics
  <2>2. InStage(b)' BY <1>0, <2>1 DEF InStage
  <2> QED BY <1>0, <2>1, <2>2, StageInOrder
<1>5. CASE ReportFailure(b)
  <2>1. /\ life[b] = "diagnose" /\ say[b] = <<>> /\ error' = error /\ hook[b] = 0
        /\ life' = [life EXCEPT ![b] = "done"] /\ say' = [say EXCEPT ![b] = <<"failed">>]
    BY <1>0, <1>5 DEF ReportFailure
  <2>2. InStage(b)' BY <1>0, <2>1 DEF InStage, Ending
  <2> QED BY <1>0, <2>1, <2>2, StageInOrder
<1> QED BY <1>1, <1>2, <1>3, <1>4, <1>5

LEMMA InOrderInductive == /\ Init => InOrder
                          /\ Known /\ InOrder /\ [Next]_vars => InOrder'
<1>1. ASSUME Known, InOrder, UNCHANGED vars PROVE InOrder'
  BY <1>1, InOrderKept DEF InOrder, vars, recorderVars, runtimeVars
<1> QED
  BY <1>1, InOrderAtFirst, CreateInOrder, StartsInOrder, DeliveryInOrder, RecordInOrder,
     ConcludeInOrder, UploadInOrder DEF Next, BotStep

----------------------------------------------------------------------------
(* A step of the runtime is one of its contract, or is not seen.            *)

LEMMA AtFirst == Init => Meeting!BotInit
<1> SUFFICES ASSUME Init PROVE Meeting!BotInit OBVIOUS
<1> USE DEF Init, RecorderInit
<1>1. \A b \in Bot : Phase(b) = "none" /\ Webhook(b) = "none" /\ aborted[b] = "no"
  BY DEF Phase, Webhook
<1> QED BY <1>1 DEF Meeting!BotInit

(* What is not announced is not seen: the error of a bot that has not       *)
(* failed, the key of one that was not canceled.                            *)
LEMMA Unseen ==
  ASSUME state' = state, \A b \in Bot : hook'[b] = 0 <=> hook[b] = 0,
         \A b \in Bot : aborted'[b] = "no" <=> aborted[b] = "no",
         \A b \in Bot : error'[b] = error[b] \/ state[b] # "failed",
         \A b \in Bot : keyed'[b] = keyed[b] \/ state[b] # "canceled"
  PROVE  UNCHANGED Meeting!botSessionVars
<1>1. \A b \in Bot : Phase(b)' = Phase(b) BY DEF Phase
<1>2. \A b \in Bot : Kind(b)' = Kind(b) BY <1>1 DEF Kind
<1>3. \A b \in Bot : Webhook(b)' = Webhook(b) BY <1>2 DEF Webhook
<1>4. [b \in Bot |-> Phase(b)]' = [b \in Bot |-> Phase(b)] BY <1>1
<1>5. [b \in Bot |-> Webhook(b)]' = [b \in Bot |-> Webhook(b)] BY <1>3
<1>6. {b \in Bot : aborted[b] # "no"}' = {b \in Bot : aborted[b] # "no"} OBVIOUS
<1> QED BY <1>4, <1>5, <1>6 DEF Meeting!botSessionVars

(* A step of bot b that leaves those of the others as they are.             *)
LEMMA OneSeen ==
  ASSUME Known, NEW b \in Bot,
         state' = state \/ \E t : state' = [state EXCEPT ![b] = t],
         hook' = hook \/ \E t : hook' = [hook EXCEPT ![b] = t],
         UNCHANGED <<error, keyed, aborted>>
  PROVE  /\ [c \in Bot |-> Phase(c)]' = [[c \in Bot |-> Phase(c)] EXCEPT ![b] = Phase(b)']
         /\ [c \in Bot |-> Webhook(c)]' =
               [[c \in Bot |-> Webhook(c)] EXCEPT ![b] = Webhook(b)']
         /\ UNCHANGED {c \in Bot : aborted[c] # "no"}
<1>1. \A c \in Bot \ {b} : state'[c] = state[c] /\ hook'[c] = hook[c]
  BY DEF Known, IInv, Types
<1>2. \A c \in Bot \ {b} : Phase(c)' = Phase(c) /\ Webhook(c)' = Webhook(c)
  BY <1>1 DEF Phase, Webhook, Kind
<1>3. [c \in Bot |-> Phase(c)]' = [[c \in Bot |-> Phase(c)] EXCEPT ![b] = Phase(b)']
  BY <1>2
<1>4. [c \in Bot |-> Webhook(c)]' = [[c \in Bot |-> Webhook(c)] EXCEPT ![b] = Webhook(b)']
  BY <1>2
<1> QED BY <1>3, <1>4

LEMMA CreateSeen ==
  ASSUME Known, InOrder, NEW b \in Bot, NEW id \in SessionId, Create(b, id)
  PROVE  Meeting!Starts(b)
<1> USE DEF Known, IInv, Types
<1>1. /\ state' = [state EXCEPT ![b] = "created"]
      /\ hook' = [hook EXCEPT ![b] = WebhookAttempts] /\ UNCHANGED <<error, keyed, aborted>>
  BY DEF Create
<1>2. Phase(b) = "none" BY DEF Create, InOrder, Follows, Phase
<1>3. state'[b] = "created" /\ hook'[b] # 0 BY <1>1
<1>4. Phase(b)' = "joining" BY <1>3 DEF Phase
<1>5. Webhook(b)' = "joining" BY <1>3, <1>4 DEF Webhook, Kind
<1> QED BY <1>1, <1>2, <1>4, <1>5, OneSeen DEF Meeting!Starts

LEMMA CancelSeen ==
  ASSUME Known, InOrder, NEW b \in Bot, Cancel(b)
  PROVE  Meeting!Aborts(b)
<1> USE DEF Known, IInv, Types
<1>1. /\ UNCHANGED <<state, hook, error, keyed>> /\ session[b] # NoSession
      /\ state[b] \notin Terminal
      /\ \E t \in {"running", "finished"} : aborted' = [aborted EXCEPT ![b] = t]
  BY DEF Cancel, Live, runtimeVars
<1>2. state[b] \in JoiningStates \cup JoinedStates
  <2>1. state[b] \in States /\ state[b] # "none" BY <1>1 DEF InOrder, Follows
  <2> QED BY <1>1, <2>1
<1>3. Phase(b) \in {"joining", "joined"} BY <1>2 DEF Phase
<1>4. UNCHANGED <<[c \in Bot |-> Phase(c)], [c \in Bot |-> Webhook(c)]>>
  BY <1>1 DEF Phase, Webhook, Kind
<1>5. {c \in Bot : aborted[c] # "no"}' = {c \in Bot : aborted[c] # "no"} \cup {b}
  BY <1>1
<1> QED BY <1>3, <1>4, <1>5 DEF Meeting!Aborts, Meeting!Live, Meeting!ActiveStates

(* The webhook of the state that b takes.                                   *)
LEMMA TransitionSeen ==
  ASSUME Known, InOrder, NEW b \in Bot, Transition(b)
  PROVE  \/ Meeting!Waits(b) \/ Meeting!Joins(b) \/ Meeting!Ends(b)
         \/ UNCHANGED Meeting!botSessionVars
<1> USE DEF Known, IInv, Types
<1> DEFINE st == Head(say[b])
<1>0. /\ say[b] # <<>> /\ hook[b] = 0 /\ st = say[b][1] /\ 1 \in 1..Len(say[b])
      /\ st \in States /\ UNCHANGED <<error, keyed, aborted>> /\ Follows(b) /\ InStage(b)
  BY EmptySeq, LenProperties, HeadTailProperties DEF Transition, InOrder
<1> HIDE DEF st
<1>1. CASE UNCHANGED <<state, hook>> BY <1>0, <1>1, Unseen
<1>2. CASE /\ state' = [state EXCEPT ![b] = st]
           /\ hook' = [hook EXCEPT ![b] = WebhookAttempts]
           /\ life[b] = "record" => aborted[b] = "no"
  <2>1. state[b] \in JoiningStates \cup JoinedStates
    <3>1. state[b] \in States \ Terminal /\ state[b] # "none" BY <1>0 DEF Follows
    <3> QED BY <3>1
  <2>2. Phase(b) \in {"joining", "joined"} /\ Webhook(b) = "none"
    BY <1>0, <2>1 DEF Phase, Webhook
  <2>3. state'[b] = st /\ hook'[b] # 0 /\ error'[b] = error[b] /\ keyed'[b] = keyed[b]
    BY <1>0, <1>2
  <2>4. Webhook(b)' = Kind(b)' BY <2>3 DEF Webhook
  <2>k. PICK kind : kind = Kind(b)' OBVIOUS
  <2>5. /\ [c \in Bot |-> Phase(c)]' = [[c \in Bot |-> Phase(c)] EXCEPT ![b] = Phase(b)']
        /\ [c \in Bot |-> Webhook(c)]' = [[c \in Bot |-> Webhook(c)] EXCEPT ![b] = kind]
        /\ UNCHANGED {c \in Bot : aborted[c] # "no"}
    BY <1>0, <1>2, <2>4, <2>k, OneSeen
  <2>6. ASSUME Phase(b)' = Meeting!StateOf(kind) PROVE Meeting!Announces(b, kind)
    BY <2>2, <2>5, <2>6 DEF Meeting!Announces, Meeting!Live, Meeting!ActiveStates
  <2>7. CASE st \in JoiningStates
    <3>1. state[b] \in JoiningStates /\ aborted[b] = "no" BY <1>0, <1>2, <2>7 DEF Follows
    <3>2. Phase(b) = "joining" /\ Phase(b)' = "joining" /\ kind = "joining"
      BY <2>3, <2>7, <2>k, <3>1 DEF Phase, Kind
    <3> QED BY <2>6, <3>1, <3>2 DEF Meeting!Waits, Meeting!StateOf
  <2>8. CASE st \in JoinedStates
    <3>1. Phase(b)' = "joined" /\ kind = "joined" BY <2>3, <2>8, <2>k DEF Phase, Kind
    <3> QED BY <2>6, <3>1 DEF Meeting!Joins, Meeting!StateOf
  <2>9. CASE st \in Terminal
    <3>1. life[b] = "done" BY <1>0, <2>9 DEF SaysInOrder, Takes
    <3>2. Ending(b) BY <1>0, <3>1 DEF InStage
    <3>3. \/ st = "failed" /\ (error[b] \in Blockers => state[b] \in JoiningStates)
          \/ st = "post_processing_completed" /\ state[b] \in JoinedStates
          \/ st = "canceled" /\ state[b] \in JoinedStates /\ aborted[b] # "no"
      BY <1>0, <2>9, <3>2 DEF Ending
    <3>4. CASE st = "failed" /\ error[b] \in Blockers /\ state[b] \in JoiningStates
      <4>1. Phase(b) = "joining" BY <3>4 DEF Phase
      <4>2. Phase(b)' = "failed" /\ kind = "failed_final" BY <2>3, <2>k, <3>4 DEF Phase, Kind
      <4> QED BY <2>6, <4>1, <4>2 DEF Meeting!Ends, Meeting!StateOf
    <3>5. CASE st = "failed" /\ error[b] \notin Blockers
      <4>1. Phase(b)' = "failed" /\ kind = "failed_retryable" BY <2>3, <2>k, <3>5 DEF Phase, Kind
      <4> QED BY <2>6, <4>1 DEF Meeting!Ends, Meeting!StateOf
    <3>6. CASE st = "post_processing_completed" /\ state[b] \in JoinedStates
      <4>1. Phase(b) = "joined" BY <3>6 DEF Phase
      <4>2. Phase(b)' = "done" /\ kind = "done" BY <2>3, <2>k, <3>6 DEF Phase, Kind
      <4> QED BY <2>6, <4>1, <4>2 DEF Meeting!Ends, Meeting!StateOf
    <3>7. CASE st = "canceled" /\ state[b] \in JoinedStates /\ aborted[b] # "no"
      <4>1. Phase(b) = "joined" BY <3>7 DEF Phase
      <4>2. Phase(b)' = "canceled" /\ kind \in {"canceled", "canceled_recorded"}
        BY <2>3, <2>k, <3>7 DEF Phase, Kind
      <4>3. b \in {c \in Bot : aborted[c] # "no"} BY <3>7
      <4> QED BY <2>6, <4>1, <4>2, <4>3 DEF Meeting!Ends, Meeting!StateOf
    <3> QED BY <3>3, <3>4, <3>5, <3>6, <3>7
  <2>10. st # "none" BY <1>0 DEF Follows
  <2> QED BY <1>0, <2>7, <2>8, <2>9, <2>10
<1> QED BY <1>1, <1>2 DEF Transition, st

LEMMA DeliverSeen ==
  ASSUME Known, InOrder, NEW b \in Bot, Deliver(b)
  PROVE  Meeting!Delivered(b) \/ UNCHANGED Meeting!botSessionVars
<1> USE DEF Known, IInv, Types
<1>1. hook[b] \in Nat /\ hook[b] > 0 /\ UNCHANGED <<state, error, keyed, aborted>>
  BY DEF Deliver, deliveryVars
<1>2. CASE hook' = [hook EXCEPT ![b] = 0]
  <2>1. state[b] # "none" BY <1>1 DEF InOrder, Follows, SaysInOrder
  <2>2. Webhook(b) # "none" BY <1>1, <2>1 DEF Webhook, Kind, Phase
  <2>3. Webhook(b)' = "none" BY <1>2 DEF Webhook
  <2>4. UNCHANGED [c \in Bot |-> Phase(c)] BY <1>1 DEF Phase
  <2> QED BY <1>1, <1>2, <2>2, <2>3, <2>4, OneSeen DEF Meeting!Delivered
<1>3. CASE hook[b] # 1 /\ hook' = [hook EXCEPT ![b] = hook[b] - 1]
  <2>1. hook'[b] # 0 /\ hook[b] # 0 BY <1>1, <1>3
  <2>2. \A c \in Bot : hook'[c] = 0 <=> hook[c] = 0 BY <1>3, <2>1
  <2> QED BY <1>1, <2>2, Unseen
<1>4. hook[b] = 1 => hook[b] - 1 = 0 OBVIOUS
<1> QED BY <1>2, <1>3, <1>4 DEF Deliver

(* The other steps announce nothing.                                        *)
LEMMA OthersUnseen ==
  ASSUME Known, InOrder, NEW b \in Bot,
         \/ DeadlinePasses(b) \/ Record(b) \/ Conclude(b) \/ Upload(b) \/ Split(b)
         \/ UploadPartial(b) \/ FinishFailed(b) \/ UploadDiagnostics(b) \/ ReportFailure(b)
  PROVE  UNCHANGED Meeting!botSessionVars
<1> USE DEF Known, IInv, Types, Enter, Keep, Throw, lifeVars, diagnosisVars, runtimeVars
<1>1. CASE DeadlinePasses(b) BY <1>1, Unseen DEF DeadlinePasses, Expire
<1>2. ASSUME life[b] # "done", UNCHANGED <<state, hook, aborted>>,
             error' = error \/ \E e : error' = [error EXCEPT ![b] = e],
             keyed' = keyed \/ \E k : keyed' = [keyed EXCEPT ![b] = k]
      PROVE  UNCHANGED Meeting!botSessionVars
  <2>1. state[b] \notin Terminal BY <1>2, NotOverTakesNone DEF Takes
  <2>2. \A c \in Bot : error'[c] = error[c] \/ state[c] # "failed" BY <1>2, <2>1 DEF Errs
  <2>3. \A c \in Bot : keyed'[c] = keyed[c] \/ state[c] # "canceled" BY <1>2, <2>1
  <2> QED BY <1>2, <2>2, <2>3, Unseen
<1>3. CASE Record(b)
  <2>1. /\ aborted' = aborted
        /\ error' = error \/ \E e : error' = [error EXCEPT ![b] = e]
    BY <1>3, RecordPhases DEF Record
  <2> QED BY <1>2, <1>3, <2>1 DEF Record
<1>4. CASE Conclude(b)
  <2>1. /\ life[b] = "record" /\ UNCHANGED <<state, hook, aborted, error>>
        /\ keyed' = keyed \/ \E k : keyed' = [keyed EXCEPT ![b] = k]
    BY <1>4 DEF Conclude
  <2> QED BY <1>2, <2>1
<1>5. CASE Upload(b)
  <2>1. /\ life[b] = "upload" /\ UNCHANGED <<state, hook, aborted, keyed>>
        /\ error' = error \/ \E e : error' = [error EXCEPT ![b] = e]
    BY <1>5 DEF Upload, UploadAgain
  <2> QED BY <1>2, <2>1
<1>6. CASE Split(b)
  <2>1. /\ life[b] = "split" /\ UNCHANGED <<state, hook, aborted, keyed>>
        /\ error' = error \/ \E e : error' = [error EXCEPT ![b] = e]
    BY <1>6 DEF Split
  <2> QED BY <1>2, <2>1
<1>7. CASE UploadPartial(b)
  <2>1. /\ life[b] = "partial" /\ UNCHANGED <<state, hook, aborted, error>>
        /\ keyed' = keyed \/ \E k : keyed' = [keyed EXCEPT ![b] = k]
    BY <1>7 DEF UploadPartial, UploadAgain
  <2> QED BY <1>2, <2>1
<1>8. CASE FinishFailed(b) \/ UploadDiagnostics(b) \/ ReportFailure(b)
  <2>1. life[b] # "done" /\ UNCHANGED <<state, hook, aborted, error, keyed>>
    BY <1>8 DEF FinishFailed, UploadDiagnostics, ReportFailure
  <2> QED BY <1>2, <2>1
<1> QED BY <1>1, <1>3, <1>4, <1>5, <1>6, <1>7, <1>8

LEMMA StepsImplement ==
  Known /\ InOrder /\ [Next]_vars => [Meeting!BotNext]_(Meeting!botSessionVars)
<1> SUFFICES ASSUME Known, InOrder, [Next]_vars
             PROVE  [Meeting!BotNext]_(Meeting!botSessionVars)
  OBVIOUS
<1>1. CASE UNCHANGED vars
  BY <1>1, Unseen DEF vars, recorderVars, runtimeVars
<1>2. ASSUME NEW b \in Bot, NEW id \in SessionId, Create(b, id) PROVE Meeting!BotNext
  BY <1>2, CreateSeen DEF Meeting!BotNext
<1>3. ASSUME NEW b \in Bot, Cancel(b) PROVE Meeting!BotNext
  BY <1>3, CancelSeen DEF Meeting!BotNext
<1>4. ASSUME NEW b \in Bot, DeadlinePasses(b) \/ BotStep(b)
      PROVE  Meeting!BotNext \/ UNCHANGED Meeting!botSessionVars
  <2>1. CASE Transition(b) BY <2>1, TransitionSeen DEF Meeting!BotNext
  <2>2. CASE Deliver(b) BY <2>2, DeliverSeen DEF Meeting!BotNext
  <2> QED BY <1>4, <2>1, <2>2, OthersUnseen DEF BotStep
<1> QED BY <1>1, <1>2, <1>3, <1>4 DEF Next

(* What the control plane assumes of a bot is true of the runtime, whatever *)
(* Teams shows, whatever fails and whenever the bot is canceled: its        *)
(* webhooks come one at a time and in the order of its phases, a failure    *)
(* that forbids a retry comes from a bot that did not join, and canceled    *)
(* from one that was aborted (app.ts:344-346, 479-489).                     *)
THEOREM MeetingBotImplemented == Spec => ImplementsMeetingBot
<1> QED
  BY Invariant, CleanInductive, ReportsInductive, RangesInductive, KnownFacts,
     InOrderInductive, AtFirst, StepsImplement, PTL DEF Spec, ImplementsMeetingBot, Meeting!BotSpec
=============================================================================
