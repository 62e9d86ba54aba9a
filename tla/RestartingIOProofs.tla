-------------------------- MODULE RestartingIOProofs --------------------------
(***************************************************************************)
(* Proofs about RestartingIO, for every number of snapshots, launches,     *)
(* faults and every limit on the attempts.                                 *)
(*                                                                         *)
(* The inductive invariant IInv joins the types, who is connected          *)
(* (Connected), what a connection carries (OneAtATime), what a consumer    *)
(* owes and has stored (Current, Consecutive, Ordered), and where the      *)
(* acknowledged snapshots are (AckedStored).  The safety properties follow *)
(* from it.                                                                *)
(***************************************************************************)
EXTENDS RestartingIO, SequenceTheorems, TLAPS

Last(s) == s[Len(s)]

\* The producer holds a connection on which it waits for nothing.
Resting == {"idle", "send", "rejected"}

\* Consumer c may still store snapshot s: s is on its way or being written.
Due(c, s) ==
    \/ Len(up[c]) > 0 /\ s = up[c][1] /\ s # End
    \/ phase[c] = "writing" /\ s = got[c]

\* The producer talks to the consumer that was started last, or to none.
Connected ==
    /\ output = 0 <=> pc \notin Resting \cup {"await", "lost"}
    /\ output # 0 => output = launched
    /\ \A c \in Consumers : phase[c] = "unborn" <=> c > launched
    /\ \A c \in Consumers : phase[c] = "unborn" =>
          up[c] = <<>> /\ down[c] = 0 /\ file[c] = <<>>

OneAtATime ==
    /\ \A c \in Consumers : InTransit(c) <= 1
    /\ pc \in Resting => InTransit(output) = 0

\* What the connected consumer has, owes and acknowledges.
Current ==
    output # 0 =>
        /\ \A s \in Nat : Due(output, s) => s = next
        /\ pc \in {"idle", "send"} => file[output] = <<>> \/ Last(file[output]) = next - 1
        /\ phase[output] = "acking" \/ down[output] > 0 =>
              file[output] # <<>> /\ Last(file[output]) = next

Consecutive ==
    \A c \in Consumers :
        /\ \A i \in 1 .. Len(file[c]) - 1 : file[c][i + 1] = file[c][i] + 1
        /\ file[c] # <<>> => Last(file[c]) <= next
        /\ \A s \in Nat : Due(c, s) =>
              s <= next /\ (file[c] # <<>> => s = Last(file[c]) + 1)

\* Nothing that an earlier consumer stored or may store comes after what a later one
\* began with or may store.
Ordered ==
    \A c, d \in Consumers : c < d =>
        /\ file[c] # <<>> /\ file[d] # <<>> => file[d][1] >= Last(file[c])
        /\ \A s \in Nat : Due(c, s) /\ file[d] # <<>> => file[d][1] >= s
        /\ \A t \in Nat : Due(d, t) /\ file[c] # <<>> => t >= Last(file[c])
        /\ \A s, t \in Nat : Due(c, s) /\ Due(d, t) => t >= s

IInv == TypeOK /\ Connected /\ OneAtATime /\ Current /\ Consecutive /\ Ordered /\ AckedStored

-------------------------------------------------------------------------------
(* Types.                                                                  *)

ProducerType ==
    /\ pc \in {"connect", "paused", "idle", "send", "await", "lost", "rejected", "raised",
               "closed", "unusable"}
    /\ next \in Nat /\ reason \in {"launch", "connection_lost"} /\ attempt \in Nat
    /\ restart_failure_notified \in BOOLEAN
    /\ limit \in Limits /\ key \in {"valid", "expired", "unreadable"}
    /\ faults \in Nat /\ alerts \in Nat /\ losses \in Nat /\ rejections \in Nat

RemoteType ==
    /\ output \in 0 .. launched /\ launched \in 0 .. MaxLaunches
    /\ phase \in [Consumers -> {"unborn", "listening", "reading", "writing", "acking",
                                "ended"}]
    /\ got \in [Consumers -> Nat] /\ file \in [Consumers -> Seq(Nat)]
    /\ up \in [Consumers -> Seq(Nat \cup {End})]
    /\ down \in [Consumers -> Nat] /\ broken \in [Consumers -> BOOLEAN]

LEMMA TypeParts == TypeOK <=> ProducerType /\ RemoteType
  BY DEF TypeOK, ProducerType, RemoteType

LEMMA TypeInit == Init => TypeOK
  <1> SUFFICES ASSUME Init PROVE ProducerType /\ RemoteType
    BY TypeParts
  <1>1. ProducerType
    BY DEF Init, ProducerType
  <1>2. RemoteType
    BY CountAssumption, EmptySeq DEF Init, RemoteType, Consumers
  <1>3. QED
    BY <1>1, <1>2

LEMMA ProducerTypeStep == TypeOK /\ [Next]_vars => ProducerType'
  <1> SUFFICES ASSUME ProducerType, [Next]_vars PROVE ProducerType'
    BY TypeParts
  <1>1. ASSUME AttemptFails, faults' \in Nat PROVE ProducerType'
    <2>1. pc' \in {"unusable", "raised", "paused", "connect"} 
      BY <1>1 DEF ProducerType, AttemptFails, LimitReached
    <2>2. attempt' \in Nat
      <3>1. attempt' = 0 \/ attempt' = attempt + 1
        BY <1>1, Zenon DEF AttemptFails
      <3>2. attempt \in Nat
        BY Zenon DEF ProducerType
      <3>3. QED
        BY <3>1, <3>2
    <2>3. alerts' \in Nat /\ restart_failure_notified' \in BOOLEAN
      <3>1. /\ alerts' = alerts + 1 \/ alerts' = alerts
            /\ restart_failure_notified' = TRUE
                  \/ restart_failure_notified' = restart_failure_notified
        <4>1. CASE reason = "connection_lost" /\ ~restart_failure_notified
          BY <1>1, <4>1, Zenon DEF AttemptFails
        <4>2. CASE ~(reason = "connection_lost" /\ ~restart_failure_notified)
          BY <1>1, <4>2, Zenon DEF AttemptFails
        <4>3. QED
          BY <4>1, <4>2
      <3>2. alerts' \in Nat
        <4>1. alerts \in Nat
          BY Zenon DEF ProducerType
        <4>2. alerts' = alerts + 1 \/ alerts' = alerts
          BY <3>1, Zenon
        <4>3. QED
          BY <4>1, <4>2
      <3>3. restart_failure_notified' \in BOOLEAN
        BY <3>1, Zenon DEF ProducerType
      <3>4. QED
        BY <3>2, <3>3
    <2>4. QED
      BY <1>1, <2>1, <2>2, <2>3 DEF ProducerType, AttemptFails
  <1>2. CASE LaunchSucceeds
    BY <1>2 DEF ProducerType, LaunchSucceeds, eventVars
  <1>3. CASE LaunchFailsLocally
    BY <1>1, <1>3 DEF ProducerType, LaunchFailsLocally, Fault
  <1>4. CASE LaunchFailsRemotely
    BY <1>1, <1>4 DEF ProducerType, LaunchFailsRemotely, Fault
  <1>5. CASE KeyNotUpdated \/ Done \/ UNCHANGED vars
    BY <1>5 DEF ProducerType, KeyNotUpdated, Done, vars, producerVars, eventVars
  <1>6. CASE KeyUpdateSeen \/ Write \/ SendReturns \/ AckReceived
    BY <1>6 DEF ProducerType, KeyUpdateSeen, Write, SendReturns, AckReceived, eventVars
  <1>7. CASE SendFails \/ AwaitFails
    <2>1. faults' \in Nat
      BY <1>7 DEF ProducerType, SendFails, AwaitFails, Unreachable, Fault
    <2>2. /\ pc' = "lost"
          /\ UNCHANGED <<next, reason, attempt, restart_failure_notified, limit, key, alerts,
                         losses, rejections>>
      BY <1>7, Zenon DEF SendFails, AwaitFails, eventVars
    <2>3. QED
      BY <2>1, <2>2 DEF ProducerType
  <1>8. CASE Discard
    <2>1. restart_failure_notified' \in BOOLEAN
      BY <1>8, Zenon DEF Discard
    <2>2. losses' \in Nat
      <3>1. losses' = losses + 1
        BY <1>8, Zenon DEF Discard
      <3>2. QED
        BY <3>1 DEF ProducerType
    <2>3. /\ pc' = "connect" /\ reason' = "connection_lost" /\ attempt' = 0
          /\ UNCHANGED <<next, limit, key, faults, alerts, rejections>>
      BY <1>8, Zenon DEF Discard
    <2>4. QED
      BY <2>1, <2>2, <2>3 DEF ProducerType
  <1>9. CASE Close \/ CloseRaised
    BY <1>9 DEF ProducerType, Close, CloseRaised, eventVars
  <1>10. ASSUME NEW c \in Consumers, ConsumerStep(c)
         PROVE  ProducerType'
    BY <1>10 DEF ProducerType, ConsumerStep, ReadData, ReadEnd, WriteStep, SendAck,
                 SendAckFails, producerVars, eventVars
  <1>11. ASSUME NEW c \in Consumers, Crash(c) \/ Break(c)
         PROVE  ProducerType'
    BY <1>11 DEF ProducerType, Crash, Break, Fault, producerVars, eventVars
  <1>12. CASE KeyFails \/ KeyReplaced
    BY <1>12 DEF ProducerType, KeyFails, KeyReplaced, Fault, producerVars, eventVars
  <1>13. CASE LaunchRejected \/ AckUnreadable
    <2>1. pc' \in {"unusable", "raised", "rejected"}
      BY <1>13 DEF LaunchRejected, AckUnreadable
    <2>2. faults' \in Nat /\ rejections' \in Nat
      BY <1>13 DEF ProducerType, LaunchRejected, AckUnreadable, Fault
    <2>3. UNCHANGED <<next, reason, attempt, restart_failure_notified, limit, key, alerts,
                      losses>>
      BY <1>13, Zenon DEF LaunchRejected, AckUnreadable
    <2>4. QED
      BY <2>1, <2>2, <2>3 DEF ProducerType
  <1>14. QED
    BY <1>2, <1>3, <1>4, <1>5, <1>6, <1>7, <1>8, <1>9, <1>10, <1>11, <1>12, <1>13
       DEF Next, ProducerStep

\* A script keeps the types of the consumers it stops and of the one it starts.
LEMMA StartedType ==
    ASSUME RemoteType, NEW stopped \in SUBSET Alive, NEW p \in {"listening", "reading"},
           Started(stopped, p)
    PROVE  /\ launched' = launched + 1 /\ launched' \in 1 .. MaxLaunches
           /\ phase' \in [Consumers -> {"unborn", "listening", "reading", "writing",
                                        "acking", "ended"}]
           /\ got' = got /\ file' = file
  BY CountAssumption DEF RemoteType, Started, Consumers

\* What a launch that made no connection left behind on the remote host.
LEMMA RemoteAttempt ==
    ASSUME NoConnectionMade
    PROVE  \E stopped \in SUBSET Alive :
              \/ Started(stopped, "listening") \/ Started(stopped, "reading")
              \/ /\ phase' = [c \in Consumers |-> IF c \in stopped THEN "ended"
                                                  ELSE phase[c]]
                 /\ UNCHANGED <<launched, got, file>>
  BY DEF NoConnectionMade

\* Both kinds of launches without a connection, in what they do to the rest.
LEMMA NoLaunch ==
    ASSUME LaunchFailsRemotely \/ LaunchRejected
    PROVE  /\ NoConnectionMade /\ pc = "connect"
           /\ pc' \in {"unusable", "raised", "paused", "connect"}
           /\ UNCHANGED <<next, output, up, down, broken>>
  BY DEF LaunchFailsRemotely, LaunchRejected, AttemptFails, LimitReached, channelVars

LEMMA RemoteTypeStep == TypeOK /\ Connected /\ [Next]_vars => RemoteType'
  <1> SUFFICES ASSUME RemoteType, Connected, next \in Nat, [Next]_vars
               PROVE  RemoteType'
    BY TypeParts DEF ProducerType
  <1> USE CountAssumption
  <1>1. CASE LaunchSucceeds
    <2>1. PICK stopped \in SUBSET Alive : Started(stopped, "reading")
      BY <1>1 DEF LaunchSucceeds
    <2>2. QED
      BY <1>1, <2>1, StartedType DEF RemoteType, LaunchSucceeds, channelVars
  <1>2. CASE LaunchFailsLocally
    BY <1>2 DEF RemoteType, LaunchFailsLocally, AttemptFails, channelVars, consumerVars
  <1>3. CASE LaunchFailsRemotely \/ LaunchRejected
    <2>1. UNCHANGED <<output, up, down, broken>>
      BY <1>3, NoLaunch
    <2>2. PICK stopped \in SUBSET Alive :
             \/ Started(stopped, "listening") \/ Started(stopped, "reading")
             \/ /\ phase' = [c \in Consumers |-> IF c \in stopped THEN "ended"
                                                 ELSE phase[c]]
                /\ UNCHANGED <<launched, got, file>>
      BY <1>3, NoLaunch, RemoteAttempt
    <2>3. CASE Started(stopped, "listening") \/ Started(stopped, "reading")
      BY <2>1, <2>3, StartedType DEF RemoteType
    <2>4. CASE /\ phase' = [c \in Consumers |-> IF c \in stopped THEN "ended"
                                               ELSE phase[c]]
               /\ UNCHANGED <<launched, got, file>>
      BY <2>1, <2>4 DEF RemoteType
    <2>5. QED
      BY <2>2, <2>3, <2>4
  <1>4. CASE KeyNotUpdated \/ KeyFails \/ KeyReplaced \/ Done \/ UNCHANGED vars
    BY <1>4 DEF RemoteType, KeyNotUpdated, KeyFails, KeyReplaced, Done, vars, producerVars,
                consumerVars, channelVars
  <1>5. CASE KeyUpdateSeen \/ Write \/ SendFails \/ AwaitFails \/ Discard \/ CloseRaised
    BY <1>5 DEF RemoteType, KeyUpdateSeen, Write, SendFails, AwaitFails, Unreachable,
                Discard, CloseRaised, consumerVars, channelVars
  <1>6. ASSUME pc \in Resting \cup {"await"} PROVE output \in Consumers
    BY <1>6 DEF Connected, RemoteType, Consumers
  <1>7. CASE SendReturns
    <2>1. output \in Consumers
      BY <1>6, <1>7 DEF SendReturns, Resting
    <2>2. up' \in [Consumers -> Seq(Nat \cup {End})]
      BY <1>7, <2>1 DEF RemoteType, SendReturns
    <2>3. QED
      BY <1>7, <2>1, <2>2 DEF RemoteType, SendReturns, consumerVars
  <1>8. CASE AckReceived \/ AckUnreadable
    <2>1. output \in Consumers
      BY <1>6, <1>8 DEF AckReceived, AckUnreadable
    <2>2. down' \in [Consumers -> Nat]
      <3>1. down[output] > 0 /\ down' = [down EXCEPT ![output] = @ - 1]
        BY <1>8, Zenon DEF AckReceived, AckUnreadable
      <3>2. QED
        BY <2>1, <3>1 DEF RemoteType
    <2>3. UNCHANGED <<output, launched, phase, got, file, up, broken>>
      BY <1>8, Zenon DEF AckReceived, AckUnreadable, consumerVars
    <2>4. QED
      BY <2>2, <2>3 DEF RemoteType
  <1>9. CASE Close
    <2>1. output \in Consumers
      BY <1>6, <1>9 DEF Close, Resting
    <2>2. up' \in [Consumers -> Seq(Nat \cup {End})]
      <3>1. CASE up' = up
        BY <3>1 DEF RemoteType
      <3>2. CASE up' = [up EXCEPT ![output] = Append(@, End)]
        BY <2>1, <3>2 DEF RemoteType
      <3>3. QED
        BY <1>9, <3>1, <3>2 DEF Close
    <2>3. output' = 0 /\ UNCHANGED <<launched, phase, got, file, down, broken>>
      BY <1>9, Zenon DEF Close, consumerVars
    <2>4. QED
      BY <2>2, <2>3 DEF RemoteType
  <1>10. ASSUME NEW c \in Consumers, ReadData(c) PROVE RemoteType'
    <2>1. Head(up[c]) \in Nat /\ Tail(up[c]) \in Seq(Nat \cup {End})
      BY <1>10 DEF RemoteType, ReadData
    <2>2. QED
      BY <1>10, <2>1 DEF RemoteType, ReadData, producerVars
  <1>11. ASSUME NEW c \in Consumers, WriteStep(c) PROVE RemoteType'
    <2>1. Append(file[c], got[c]) \in Seq(Nat)
      BY DEF RemoteType
    <2>2. QED
      BY <1>11, <2>1 DEF RemoteType, WriteStep, producerVars, channelVars
  <1>12. ASSUME NEW c \in Consumers, ReadEnd(c) \/ SendAckFails(c) \/ Crash(c)
         PROVE  RemoteType'
    BY <1>12 DEF RemoteType, ReadEnd, SendAckFails, Crash, producerVars, channelVars
  <1>13. ASSUME NEW c \in Consumers, SendAck(c) PROVE RemoteType'
    <2>1. down' \in [Consumers -> Nat]
      BY <1>13 DEF RemoteType, SendAck
    <2>2. QED
      BY <1>13, <2>1 DEF RemoteType, SendAck, producerVars
  <1>14. ASSUME NEW c \in Consumers, Break(c) PROVE RemoteType'
    BY <1>14, EmptySeq DEF RemoteType, Break, producerVars, consumerVars
  <1>15. QED
    BY <1>1, <1>2, <1>3, <1>4, <1>5, <1>7, <1>8, <1>9, <1>10, <1>11, <1>12, <1>13,
       <1>14 DEF Next, ProducerStep, ConsumerStep

LEMMA TypeStep == TypeOK /\ Connected /\ [Next]_vars => TypeOK'
  <1> SUFFICES ASSUME TypeOK, Connected, [Next]_vars PROVE ProducerType' /\ RemoteType'
    BY DEF TypeOK, ProducerType, RemoteType
  <1> QED
    BY ProducerTypeStep, RemoteTypeStep

-------------------------------------------------------------------------------
(* Most steps only lose, or pass on, what is between the producer and a    *)
(* consumer's output; only SendReturns, Close and WriteStep do not.        *)

\* Consumer c owes or has sent an acknowledgement.
Acks(c) == phase[c] = "acking" \/ down[c] > 0

Shrinks ==
    /\ \A c \in Consumers : InTransit(c)' <= InTransit(c)
    /\ \A c \in Consumers : \A s \in Nat : Due(c, s)' => Due(c, s)
    /\ \A c \in Consumers : Acks(c)' => Acks(c)
    /\ file' = file

LEMMA SumType == \A m, n \in Nat : \A k \in {0, 1} : m + n + k \in Nat
  OBVIOUS

LEMMA InTransitType == TypeOK => \A c \in Consumers : InTransit(c) \in Nat
  <1> SUFFICES ASSUME TypeOK, NEW c \in Consumers PROVE InTransit(c) \in Nat
    OBVIOUS
  <1>1. Len(up[c]) \in Nat /\ down[c] \in Nat
    BY LenProperties DEF TypeOK
  <1>2. (IF phase[c] \in {"writing", "acking"} THEN 1 ELSE 0) \in {0, 1}
    OBVIOUS
  <1>3. QED
    BY <1>1, <1>2, SumType, Zenon DEF InTransit

LEMMA InTransitTypeNext == TypeOK' => \A c \in Consumers : InTransit(c)' \in Nat
  <1> SUFFICES ASSUME TypeOK', NEW c \in Consumers PROVE InTransit(c)' \in Nat
    OBVIOUS
  <1>1. Len(up'[c]) \in Nat /\ down'[c] \in Nat
    BY LenProperties DEF TypeOK
  <1>2. (IF phase'[c] \in {"writing", "acking"} THEN 1 ELSE 0) \in {0, 1}
    OBVIOUS
  <1>3. QED
    BY <1>1, <1>2, SumType, Zenon DEF InTransit

LEMMA LastType == TypeOK => \A c \in Consumers : file[c] # <<>> => Last(file[c]) \in Nat
  <1> SUFFICES ASSUME TypeOK, NEW c \in Consumers, file[c] # <<>>
               PROVE  Last(file[c]) \in Nat
    OBVIOUS
  <1>1. file[c] \in Seq(Nat)
    BY DEF TypeOK
  <1>2. QED
    BY <1>1 DEF Last

LEMMA OutputIsConsumer ==
    ASSUME TypeOK, Connected, pc \in Resting \cup {"await", "lost"}
    PROVE  output \in Consumers /\ output # 0
  <1>1. output # 0
    BY DEF Connected
  <1>2. output \in 0 .. launched /\ launched \in 0 .. MaxLaunches
    BY DEF TypeOK
  <1>3. QED
    BY <1>1, <1>2, CountAssumption DEF Consumers

\* On a connection that carries nothing everything is at rest.
LEMMA NothingInTransit ==
    ASSUME TypeOK, NEW c \in Consumers, InTransit(c) = 0
    PROVE  up[c] = <<>> /\ down[c] = 0 /\ phase[c] \notin {"writing", "acking"}
  <1>1. up[c] \in Seq(Nat \cup {End}) /\ Len(up[c]) \in Nat /\ down[c] \in Nat
    BY LenProperties DEF TypeOK
  <1>2. Len(up[c]) + down[c] + (IF phase[c] \in {"writing", "acking"} THEN 1 ELSE 0) = 0
    BY DEF InTransit
  <1>3. \A m, n \in Nat : \A k \in {0, 1} : m + n + k = 0 => m = 0 /\ n = 0 /\ k = 0
    OBVIOUS
  <1>4. /\ Len(up[c]) = 0 /\ down[c] = 0
        /\ (IF phase[c] \in {"writing", "acking"} THEN 1 ELSE 0) = 0
    BY <1>1, <1>2, <1>3
  <1>5. QED
    BY <1>1, <1>4, EmptySeq

\* A connection never carries more after a step that only shrinks.
LEMMA ShrinkingKeepsOne ==
    ASSUME TypeOK, TypeOK', OneAtATime, Shrinks
    PROVE  \A c \in Consumers : InTransit(c)' <= 1
  <1> SUFFICES ASSUME NEW c \in Consumers PROVE InTransit(c)' <= 1
    OBVIOUS
  <1>1. InTransit(c) \in Nat /\ InTransit(c) <= 1 /\ InTransit(c)' <= InTransit(c)
    BY InTransitType DEF OneAtATime, Shrinks
  <1>2. InTransit(c)' \in Nat
    BY InTransitTypeNext
  <1>3. \A m, n \in Nat : m <= 1 /\ n <= m => n <= 1
    OBVIOUS
  <1>4. QED
    BY <1>1, <1>2, <1>3, Zenon

\* A step that only shrinks keeps the order of the outputs, and an acknowledgement of
\* the snapshot being written may come with it.
LEMMA ShrinkingKeepsOrder ==
    ASSUME IInv, Shrinks, next' \in Nat, next' >= next
    PROVE  Consecutive' /\ Ordered'
  <1>1. Consecutive'
    <2> SUFFICES ASSUME NEW c \in Consumers
                 PROVE  /\ \A i \in 1 .. Len(file[c]) - 1 : file[c][i + 1] = file[c][i] + 1
                        /\ file[c] # <<>> => Last(file[c]) <= next'
                        /\ \A s \in Nat : Due(c, s)' =>
                              s <= next' /\ (file[c] # <<>> => s = Last(file[c]) + 1)
      BY DEF Consecutive, Shrinks, Last
    <2>1. /\ \A i \in 1 .. Len(file[c]) - 1 : file[c][i + 1] = file[c][i] + 1
          /\ file[c] # <<>> => Last(file[c]) <= next
          /\ \A s \in Nat : Due(c, s) =>
                s <= next /\ (file[c] # <<>> => s = Last(file[c]) + 1)
      BY DEF IInv, Consecutive
    <2>2. \A s \in Nat : Due(c, s)' => Due(c, s)
      BY DEF Shrinks
    <2>3. next \in Nat /\ (file[c] # <<>> => Last(file[c]) \in Nat)
      BY DEF IInv, TypeOK, Last
    <2> HIDE DEF IInv
    <2>4. QED
      BY <2>1, <2>2, <2>3
  <1>2. Ordered'
    <2> SUFFICES ASSUME NEW c \in Consumers, NEW d \in Consumers, c < d
                 PROVE  /\ file[c] # <<>> /\ file[d] # <<>> => file[d][1] >= Last(file[c])
                        /\ \A s \in Nat : Due(c, s)' /\ file[d] # <<>> => file[d][1] >= s
                        /\ \A t \in Nat : Due(d, t)' /\ file[c] # <<>> => t >= Last(file[c])
                        /\ \A s, t \in Nat : Due(c, s)' /\ Due(d, t)' => t >= s
      BY DEF Ordered, Shrinks, Last
    <2>1. /\ file[c] # <<>> /\ file[d] # <<>> => file[d][1] >= Last(file[c])
          /\ \A s \in Nat : Due(c, s) /\ file[d] # <<>> => file[d][1] >= s
          /\ \A t \in Nat : Due(d, t) /\ file[c] # <<>> => t >= Last(file[c])
          /\ \A s, t \in Nat : Due(c, s) /\ Due(d, t) => t >= s
      BY DEF IInv, Ordered
    <2>2. /\ \A s \in Nat : Due(c, s)' => Due(c, s)
          /\ \A s \in Nat : Due(d, s)' => Due(d, s)
      BY DEF Shrinks
    <2>3. QED
      BY <2>1, <2>2
  <1>3. QED
    BY <1>1, <1>2

\* A step that only shrinks, of a producer that stays where it is or lets go of its
\* connection.
LEMMA ShrinkingKeepsCurrent ==
    ASSUME IInv, TypeOK', Shrinks, next' = next, output' \in {0, output},
           pc' \in Resting =>
              output' = output /\ (pc' = pc \/ (pc = "idle" /\ pc' = "send"))
    PROVE  OneAtATime' /\ Current' /\ Consecutive' /\ Ordered' /\ AckedStored'
  <1>1. Consecutive' /\ Ordered'
    <2>1. next' \in Nat /\ next' >= next
      BY DEF IInv, TypeOK
    <2>2. QED
      BY <2>1, ShrinkingKeepsOrder
  <1>2. AckedStored'
    BY DEF IInv, AckedStored, Holds, Shrinks
  <1>3. \A c \in Consumers : InTransit(c)' \in Nat
    BY InTransitTypeNext
  <1>4. output \in Consumers \cup {0}
    BY CountAssumption DEF IInv, TypeOK, Consumers
  <1>5. OneAtATime'
    <2>1. \A c \in Consumers : InTransit(c)' <= 1
      BY ShrinkingKeepsOne DEF IInv
    <2>2. ASSUME pc' \in Resting PROVE InTransit(output)' = 0
      <3>1. output' = output /\ pc \in Resting
        BY <2>2 DEF Resting
      <3>2. output \in Consumers /\ InTransit(output) = 0
        BY <3>1, <1>4 DEF IInv, OneAtATime, Connected
      <3>3. PICK o \in Consumers : o = output
        BY <3>2
      <3>4. InTransit(o)' <= 0 /\ InTransit(o)' \in Nat
        BY <3>2, <3>3, <1>3 DEF Shrinks
      <3>5. QED
        BY <3>1, <3>3, <3>4 DEF InTransit
    <2>3. QED
      BY <2>1, <2>2 DEF OneAtATime
  <1>6. Current'
    <2> SUFFICES ASSUME output' # 0 PROVE Current'
      BY DEF Current
    <2>1. output' = output /\ output # 0 /\ output \in Consumers
      BY <1>4
    <2>2. \A s \in Nat : Due(output, s)' => s = next
      BY <2>1 DEF IInv, Current, Shrinks
    <2>3. pc' \in {"idle", "send"} => file[output] = <<>> \/ Last(file[output]) = next - 1
      BY <2>1 DEF IInv, Current, Resting
    <2>4. Acks(output)' => file[output] # <<>> /\ Last(file[output]) = next
      BY <2>1 DEF IInv, Current, Shrinks, Acks
    <2>5. QED
      BY <2>1, <2>2, <2>3, <2>4 DEF Current, Shrinks, Acks, Due, Last
  <1>7. QED
    BY <1>1, <1>2, <1>5, <1>6

\* What a launch does to the consumers only shrinks.
LEMMA LaunchShrinks ==
    ASSUME TypeOK, UNCHANGED <<up, down, file, got>>,
           \A c \in Consumers : phase'[c] = phase[c]
                                \/ phase'[c] \in {"ended", "listening", "reading"}
    PROVE  Shrinks
  <1> SUFFICES ASSUME NEW c \in Consumers
               PROVE  /\ InTransit(c)' <= InTransit(c)
                      /\ \A s \in Nat : Due(c, s)' => Due(c, s)
                      /\ Acks(c)' => Acks(c)
    BY DEF Shrinks
  <1>1. Len(up[c]) \in Nat /\ down[c] \in Nat
    BY LenProperties DEF TypeOK
  <1>2. QED
    BY <1>1 DEF InTransit, Due, Acks

LEMMA ConsumerShrinks ==
    ASSUME TypeOK, OneAtATime, NEW c \in Consumers,
           ReadData(c) \/ ReadEnd(c) \/ SendAck(c) \/ SendAckFails(c) \/ Crash(c) \/ Break(c)
    PROVE  Shrinks
  <1>1. \A d \in Consumers : Len(up[d]) \in Nat /\ down[d] \in Nat
    BY LenProperties DEF TypeOK
  <1>2. CASE ReadEnd(c) \/ SendAckFails(c) \/ Crash(c)
    <2>1. UNCHANGED <<up, down, file, got>>
      BY <1>2 DEF ReadEnd, SendAckFails, Crash, channelVars
    <2>2. \A d \in Consumers : phase'[d] = phase[d] \/ phase'[d] = "ended"
      BY <1>2 DEF ReadEnd, SendAckFails, Crash, TypeOK
    <2>3. QED
      BY <2>1, <2>2, LaunchShrinks
  <1>3. CASE ReadData(c)
    <2>1. /\ phase[c] = "reading" /\ up[c] # <<>> /\ Head(up[c]) # End
          /\ got' = [got EXCEPT ![c] = Head(up[c])]
          /\ up' = [up EXCEPT ![c] = Tail(@)]
          /\ phase' = [phase EXCEPT ![c] = "writing"]
          /\ UNCHANGED <<file, down>>
      BY <1>3 DEF ReadData
    <2>2. up[c] \in Seq(Nat \cup {End}) /\ Len(up[c]) > 0 /\ Head(up[c]) = up[c][1]
          /\ Len(Tail(up[c])) = Len(up[c]) - 1
      BY <2>1, EmptySeq, HeadTailProperties, LenProperties DEF TypeOK
    <2>3. ASSUME NEW d \in Consumers PROVE InTransit(d)' <= InTransit(d)
      BY <1>1, <2>1, <2>2 DEF InTransit, TypeOK
    <2>4. ASSUME NEW d \in Consumers, NEW s \in Nat, Due(d, s)' PROVE Due(d, s)
      <3>1. CASE d # c
        BY <2>1, <2>4, <3>1 DEF Due, TypeOK
      <3>2. CASE d = c
        <4>1. Len(up[c]) = 1
          <5>1. InTransit(c) <= 1
            BY DEF OneAtATime
          <5>2. Len(up[c]) + down[c] <= 1
            BY <1>1, <2>1, <5>1 DEF InTransit
          <5>3. Len(up[c]) \in Nat /\ down[c] \in Nat /\ Len(up[c]) > 0
            BY <1>1, <2>2
          <5>4. \A m, n \in Nat : m + n <= 1 /\ m > 0 => m = 1
            OBVIOUS
          <5>5. QED
            BY <5>2, <5>3, <5>4, Zenon
        <4>2. Len(up'[c]) = 0 /\ got'[c] = up[c][1]
          BY <2>1, <2>2, <4>1 DEF TypeOK
        <4>3. s = up[c][1]
          BY <2>4, <3>2, <4>2 DEF Due
        <4>4. QED
          BY <2>1, <2>2, <3>2, <4>1, <4>3 DEF Due
      <3>3. QED
        BY <3>1, <3>2
    <2>5. ASSUME NEW d \in Consumers, Acks(d)' PROVE Acks(d)
      BY <2>1, <2>5 DEF Acks, TypeOK
    <2>6. QED
      BY <2>1, <2>3, <2>4, <2>5 DEF Shrinks
  <1>4. CASE SendAck(c)
    <2>1. /\ phase[c] = "acking"
          /\ down' = IF broken[c] THEN down ELSE [down EXCEPT ![c] = @ + 1]
          /\ phase' = [phase EXCEPT ![c] = "reading"]
          /\ UNCHANGED <<got, file, up>>
      BY <1>4 DEF SendAck
    <2>2. ASSUME NEW d \in Consumers PROVE InTransit(d)' <= InTransit(d)
      BY <1>1, <2>1 DEF InTransit, TypeOK
    <2>3. ASSUME NEW d \in Consumers, NEW s \in Nat, Due(d, s)' PROVE Due(d, s)
      BY <2>1, <2>3 DEF Due, TypeOK
    <2>4. ASSUME NEW d \in Consumers, Acks(d)' PROVE Acks(d)
      BY <1>1, <2>1, <2>4 DEF Acks, TypeOK
    <2>5. QED
      BY <2>1, <2>2, <2>3, <2>4 DEF Shrinks
  <1>5. CASE Break(c)
    <2>1. /\ up' = [up EXCEPT ![c] = <<>>] /\ down' = [down EXCEPT ![c] = 0]
          /\ UNCHANGED <<phase, got, file>>
      BY <1>5 DEF Break, consumerVars
    <2>2. ASSUME NEW d \in Consumers PROVE InTransit(d)' <= InTransit(d)
      BY <1>1, <2>1, EmptySeq DEF InTransit, TypeOK
    <2>3. ASSUME NEW d \in Consumers, NEW s \in Nat, Due(d, s)' PROVE Due(d, s)
      BY <2>1, <2>3, EmptySeq DEF Due, TypeOK
    <2>4. ASSUME NEW d \in Consumers, Acks(d)' PROVE Acks(d)
      BY <1>1, <2>1, <2>4 DEF Acks, TypeOK
    <2>5. QED
      BY <2>1, <2>2, <2>3, <2>4 DEF Shrinks
  <1>6. QED
    BY <1>2, <1>3, <1>4, <1>5

-------------------------------------------------------------------------------
(* Who is connected.                                                       *)

\* A script starts the next consumer and ends some of the others.
LEMMA StartedConsumers ==
    ASSUME TypeOK, Connected, NEW stopped \in SUBSET Alive,
           NEW p \in {"listening", "reading"}, Started(stopped, p)
    PROVE  /\ launched + 1 \in Consumers
           /\ phase'[launched + 1] = p
           /\ \A c \in Consumers : phase'[c] = "unborn" <=> c > launched + 1
           /\ \A c \in Consumers : phase'[c] = phase[c]
                                    \/ phase'[c] \in {"ended", "listening", "reading"}
  <1>1. launched + 1 \in Consumers /\ launched \in Nat
    BY CountAssumption DEF Started, TypeOK, Consumers
  <1>2. \A c \in Consumers : phase'[c] = IF c = launched + 1 THEN p
                                         ELSE IF c \in stopped THEN "ended" ELSE phase[c]
    BY DEF Started
  <1>3. \A c \in stopped : c <= launched
    BY <1>1 DEF Alive, Connected, Consumers
  <1>4. \A c \in Consumers : phase'[c] = "unborn" <=> c > launched + 1
    BY <1>1, <1>2, <1>3 DEF Connected, Consumers
  <1>5. QED
    BY <1>1, <1>2, <1>4

\* A step that starts no consumer, and moves no message to one that is not there.
LEMMA ConnectedKept ==
    ASSUME TypeOK, TypeOK', Connected, launched' = launched,
           output' = 0 \/ output' = output,
           output' = 0 <=> pc' \notin Resting \cup {"await", "lost"},
           \A c \in Consumers : phase'[c] = "unborn" <=> phase[c] = "unborn",
           \A c \in Consumers : phase[c] = "unborn" =>
              up'[c] = up[c] /\ down'[c] = down[c] /\ file'[c] = file[c]
    PROVE  Connected'
  BY DEF Connected

LEMMA ConnectedStep ==
    ASSUME IInv, TypeOK', Next
    PROVE  Connected'
  <1> USE DEF IInv, Resting
  <1>1. CASE LaunchSucceeds
    <2>1. PICK stopped \in SUBSET Alive : Started(stopped, "reading")
      BY <1>1 DEF LaunchSucceeds
    <2>2. /\ output' = launched + 1 /\ launched' = launched + 1
          /\ UNCHANGED <<up, down, file>>
      BY <1>1, <2>1 DEF LaunchSucceeds, Started, channelVars
    <2>3. pc' \in {"idle", "send"}
      BY <1>1 DEF LaunchSucceeds
    <2>4. \A c \in Consumers : phase'[c] = "unborn" <=> c > launched'
      BY <2>1, <2>2, StartedConsumers
    <2>5. \A c \in Consumers : phase'[c] = "unborn" =>
             up'[c] = <<>> /\ down'[c] = 0 /\ file'[c] = <<>>
      BY <2>2, <2>4 DEF Connected, TypeOK, Consumers
    <2>6. output' # 0
      BY <2>2 DEF TypeOK
    <2>7. QED
      BY <2>2, <2>3, <2>4, <2>5, <2>6 DEF Connected
  <1>2. CASE LaunchFailsRemotely \/ LaunchRejected
    <2>1. /\ output' = output /\ UNCHANGED <<up, down>> /\ pc = "connect"
      BY <1>2, NoLaunch
    <2>2. pc' \in {"unusable", "raised", "paused", "connect"}
      BY <1>2, NoLaunch
    <2>3. PICK stopped \in SUBSET Alive :
             \/ Started(stopped, "listening") \/ Started(stopped, "reading")
             \/ /\ phase' = [c \in Consumers |-> IF c \in stopped THEN "ended"
                                                 ELSE phase[c]]
                /\ UNCHANGED <<launched, got, file>>
      BY <1>2, NoLaunch, RemoteAttempt
    <2>4. output = 0
      BY <2>1 DEF Connected
    <2>5. CASE Started(stopped, "listening") \/ Started(stopped, "reading")
      <3>1. launched' = launched + 1 /\ file' = file
        BY <2>5 DEF Started
      <3>2. \A c \in Consumers : phase'[c] = "unborn" <=> c > launched'
        BY <2>5, <3>1, StartedConsumers
      <3>3. \A c \in Consumers : phase'[c] = "unborn" =>
               up'[c] = <<>> /\ down'[c] = 0 /\ file'[c] = <<>>
        BY <2>1, <3>1, <3>2 DEF Connected, TypeOK, Consumers
      <3>4. QED
        BY <2>1, <2>2, <2>4, <3>2, <3>3 DEF Connected
    <2>6. CASE /\ phase' = [c \in Consumers |-> IF c \in stopped THEN "ended"
                                               ELSE phase[c]]
               /\ UNCHANGED <<launched, got, file>>
      <3>1. \A c \in Consumers : phase'[c] = "unborn" <=> phase[c] = "unborn"
        BY <2>6 DEF Alive
      <3>2. QED
        BY <2>1, <2>2, <2>4, <2>6, <3>1, ConnectedKept
    <2>7. QED
      BY <2>3, <2>5, <2>6
  <1>3. CASE LaunchFailsLocally
    <2>1. /\ UNCHANGED <<output, launched, phase, up, down, file>> /\ pc = "connect"
      BY <1>3 DEF LaunchFailsLocally, AttemptFails, channelVars, consumerVars
    <2>2. pc' \in {"unusable", "raised", "paused", "connect"}
      BY <1>3 DEF LaunchFailsLocally, AttemptFails, LimitReached
    <2>3. QED
      BY <2>1, <2>2 DEF Connected
  <1>4. CASE KeyNotUpdated \/ Done \/ KeyFails \/ KeyReplaced
    BY <1>4, ConnectedKept DEF KeyNotUpdated, Done, KeyFails, KeyReplaced, vars, producerVars,
                consumerVars, channelVars, Connected
  <1>5. CASE KeyUpdateSeen \/ CloseRaised
    BY <1>5 DEF KeyUpdateSeen, CloseRaised, consumerVars, channelVars, Connected
  <1>6. CASE Write \/ SendFails \/ AwaitFails
    BY <1>6 DEF Write, SendFails, AwaitFails, Unreachable, consumerVars, channelVars, Connected
  <1>7. CASE Discard
    BY <1>7 DEF Discard, consumerVars, channelVars, Connected
  <1>8. ASSUME pc \in Resting \cup {"await"}
        PROVE  output \in Consumers /\ phase[output] # "unborn"
    <2>1. output = launched /\ output # 0
      BY <1>8 DEF Connected
    <2>2. launched \in 0 .. MaxLaunches /\ MaxLaunches \in Nat
      BY CountAssumption DEF TypeOK
    <2>3. output \in Consumers /\ ~(output > launched)
      BY <2>1, <2>2 DEF Consumers
    <2>4. QED
      BY <2>3 DEF Connected
  <1>9. CASE SendReturns \/ Close
    <2>1. \A c \in Consumers : c # output => up'[c] = up[c]
      BY <1>9 DEF SendReturns, Close, Unreachable, TypeOK
    <2>2. UNCHANGED <<launched, phase, down, file>>
      BY <1>9 DEF SendReturns, Close, consumerVars
    <2>3. \/ pc = "send" /\ pc' = "await" /\ output' = output
          \/ pc \in {"idle", "rejected"} /\ pc' = "closed" /\ output' = 0
      BY <1>9 DEF SendReturns, Close
    <2>4. output' = 0 <=> pc' \notin Resting \cup {"await", "lost"}
      BY <2>3 DEF Connected, Resting
    <2>5. QED
      BY <1>8, <2>1, <2>2, <2>3, <2>4, ConnectedKept
  <1>10. CASE AckReceived \/ AckUnreadable
    <2>1. /\ pc = "await" /\ pc' \in Resting
          /\ UNCHANGED <<output, launched, phase, up, file>>
          /\ \A c \in Consumers : c # output => down'[c] = down[c]
      BY <1>10 DEF AckReceived, AckUnreadable, consumerVars, TypeOK
    <2>2. QED
      BY <1>8, <2>1 DEF Connected
  <1>11. ASSUME NEW c \in Consumers, ConsumerStep(c) \/ Crash(c) \/ Break(c)
         PROVE  Connected'
    <2>1. UNCHANGED <<output, pc, launched>>
      <3>1. CASE ConsumerStep(c)
        BY <3>1 DEF ConsumerStep, ReadData, ReadEnd, WriteStep, SendAck, SendAckFails,
                    producerVars
      <3>2. CASE Crash(c) \/ Break(c)
        BY <3>2 DEF Crash, Break, producerVars, consumerVars
      <3>3. QED
        BY <1>11, <3>1, <3>2
    <2>2. phase[c] # "unborn"
      <3>1. CASE ConsumerStep(c)
        BY <3>1, Zenon DEF ConsumerStep, ReadData, ReadEnd, WriteStep, SendAck, SendAckFails
      <3>2. CASE Crash(c)
        BY <3>2, Zenon DEF Crash, Alive
      <3>3. CASE Break(c)
        BY <3>3 DEF Break, Connected, TypeOK, Consumers
      <3>4. QED
        BY <1>11, <3>1, <3>2, <3>3
    <2>3. /\ phase'[c] # "unborn"
          /\ \A d \in Consumers : d # c => /\ phase'[d] = phase[d] /\ up'[d] = up[d]
                                          /\ down'[d] = down[d] /\ file'[d] = file[d]
      <3>1. CASE ReadData(c) \/ ReadEnd(c)
        BY <3>1 DEF ReadData, ReadEnd, channelVars, TypeOK
      <3>2. CASE WriteStep(c)
        BY <3>2 DEF WriteStep, channelVars, TypeOK
      <3>3. CASE SendAck(c)
        BY <3>3 DEF SendAck, TypeOK
      <3>4. CASE SendAckFails(c) \/ Crash(c)
        BY <3>4 DEF SendAckFails, Crash, channelVars, TypeOK
      <3>5. CASE Break(c)
        BY <3>5, <2>2 DEF Break, consumerVars, TypeOK
      <3>6. QED
        BY <1>11, <3>1, <3>2, <3>3, <3>4, <3>5 DEF ConsumerStep
    <2>4. QED
      BY <2>1, <2>2, <2>3 DEF Connected
  <1>12. QED
    BY <1>1, <1>2, <1>3, <1>4, <1>5, <1>6, <1>7, <1>9, <1>10, <1>11 DEF Next, ProducerStep

-------------------------------------------------------------------------------
(* The six steps that change what the producer waits for or what an        *)
(* output holds.                                                           *)

\* A new connection carries nothing, and its output is empty.
LEMMA LaunchSucceedsKeeps ==
    ASSUME IInv, TypeOK', LaunchSucceeds
    PROVE  OneAtATime' /\ Current' /\ Consecutive' /\ Ordered' /\ AckedStored'
  <1>1. PICK stopped \in SUBSET Alive : Started(stopped, "reading")
    BY DEF LaunchSucceeds
  <1>2. /\ output' = launched + 1 /\ pc' \in {"idle", "send"}
        /\ UNCHANGED <<next, got, file, up, down>>
    BY <1>1 DEF LaunchSucceeds, Started, channelVars
  <1>3. /\ launched + 1 \in Consumers /\ phase'[launched + 1] = "reading"
        /\ \A c \in Consumers : phase'[c] = phase[c]
                                \/ phase'[c] \in {"ended", "listening", "reading"}
    BY <1>1, StartedConsumers DEF IInv
  <1>4. Shrinks
    BY <1>2, <1>3, LaunchShrinks DEF IInv
  <1>5. Consecutive' /\ Ordered'
    BY <1>2, <1>4, ShrinkingKeepsOrder DEF IInv, TypeOK
  <1>6. AckedStored'
    BY <1>2 DEF IInv, AckedStored, Holds
  <1>7. PICK c \in Consumers : c = launched + 1 /\ phase[c] = "unborn"
    BY <1>3 DEF IInv, Connected, TypeOK
  <1>8. up[c] = <<>> /\ down[c] = 0 /\ file[c] = <<>>
    BY <1>7 DEF IInv, Connected
  <1>9. up'[c] = <<>> /\ down'[c] = 0 /\ file'[c] = <<>> /\ phase'[c] = "reading"
    BY <1>2, <1>3, <1>7, <1>8
  <1>10. OneAtATime'
    <2>1. InTransit(c)' = 0
      BY <1>9, EmptySeq DEF InTransit
    <2>2. \A d \in Consumers : InTransit(d)' <= 1
      BY <1>4, ShrinkingKeepsOne DEF IInv
    <2>3. InTransit(output)' = 0
      BY <1>2, <1>7, <2>1 DEF InTransit
    <2>4. QED
      BY <2>2, <2>3 DEF OneAtATime
  <1>11. Current'
    BY <1>2, <1>7, <1>9, EmptySeq DEF Current, Due
  <1>12. QED
    BY <1>5, <1>6, <1>10, <1>11

\* Nothing else is under way on the connection the snapshot is sent on, and no
\* consumer has a later one.
LEMMA SendReturnsKeeps ==
    ASSUME IInv, TypeOK', SendReturns
    PROVE  OneAtATime' /\ Current' /\ Consecutive' /\ Ordered' /\ AckedStored'
  <1>1. output \in Consumers /\ output = launched /\ InTransit(output) = 0
    BY CountAssumption
       DEF SendReturns, IInv, Connected, OneAtATime, TypeOK, Consumers, Resting
  <1>2. PICK o \in Consumers : o = output
    BY <1>1
  <1>3. /\ pc = "send" /\ pc' = "await"
        /\ UNCHANGED <<next, output, launched, phase, got, file, down>>
    BY DEF SendReturns, consumerVars
  <1>4. up[o] = <<>> /\ down[o] = 0 /\ phase[o] \notin {"writing", "acking"}
    BY <1>1, <1>2, NothingInTransit DEF IInv
  <1>5. next \in Nat /\ (file[o] = <<>> \/ Last(file[o]) = next - 1)
    BY <1>2, <1>3, <1>1 DEF IInv, Current, TypeOK, Consumers
  <1>6. AckedStored'
    BY <1>3 DEF IInv, AckedStored, Holds
  <1>7. CASE broken[o]
    <2>1. up' = up
      BY <1>2, <1>7 DEF SendReturns
    <2>2. Shrinks
      BY <1>3, <2>1, InTransitType DEF Shrinks, InTransit, Due, Acks, IInv
    <2>3. QED
      BY <1>3, <2>2, ShrinkingKeepsCurrent DEF Resting
  <1>8. CASE ~broken[o]
    <2>1. /\ \A c \in Consumers : c # o => up'[c] = up[c]
          /\ up'[o] = Append(up[o], next)
      BY <1>2, <1>8 DEF SendReturns, IInv, TypeOK
    <2>2. up'[o] = <<next>>
      BY <1>4, <1>5, <2>1
    <2>3. Len(up'[o]) = 1 /\ up'[o][1] = next
      BY <2>2
    <2>4. \A c \in Consumers : c # o => InTransit(c)' = InTransit(c)
      BY <1>3, <2>1 DEF InTransit
    <2>5. InTransit(o)' = 1
      BY <1>3, <1>4, <2>3 DEF InTransit
    <2>6. OneAtATime'
      BY <1>3, <2>4, <2>5 DEF OneAtATime, IInv, Resting
    <2>7. \A s \in Nat : Due(o, s)' => s = next
      BY <1>3, <1>4, <2>3 DEF Due
    <2>8. \A c \in Consumers : \A s \in Nat : c # o => (Due(c, s)' <=> Due(c, s))
      BY <1>3, <2>1 DEF Due
    <2>9. Current'
      <3>1. ~(phase[o] = "acking" \/ down[o] > 0)
        BY <1>4
      <3>2. QED
        BY <1>1, <1>2, <1>3, <2>7, <3>1 DEF Current, Due
    <2>10. Consecutive'
      <3> SUFFICES ASSUME NEW c \in Consumers
                   PROVE  \A s \in Nat : Due(c, s)' =>
                             s <= next /\ (file[c] # <<>> => s = Last(file[c]) + 1)
        BY <1>3 DEF IInv, Consecutive, Last
      <3>1. CASE c = o
        BY <1>5, <2>7, <3>1 DEF IInv, TypeOK
      <3>2. CASE c # o
        BY <2>8, <3>2 DEF IInv, Consecutive
      <3>3. QED
        BY <3>1, <3>2
    <2>11. Ordered'
      <3> SUFFICES ASSUME NEW c \in Consumers, NEW d \in Consumers, c < d
                   PROVE  /\ file[c] # <<>> /\ file[d] # <<>> => file[d][1] >= Last(file[c])
                          /\ \A s \in Nat : Due(c, s)' /\ file[d] # <<>> => file[d][1] >= s
                          /\ \A t \in Nat : Due(d, t)' /\ file[c] # <<>> =>
                                t >= Last(file[c])
                          /\ \A s, t \in Nat : Due(c, s)' /\ Due(d, t)' => t >= s
        BY <1>3 DEF Ordered, Last
      <3>1. /\ file[c] # <<>> /\ file[d] # <<>> => file[d][1] >= Last(file[c])
            /\ \A s \in Nat : Due(c, s) /\ file[d] # <<>> => file[d][1] >= s
            /\ \A t \in Nat : Due(d, t) /\ file[c] # <<>> => t >= Last(file[c])
            /\ \A s, t \in Nat : Due(c, s) /\ Due(d, t) => t >= s
        BY DEF IInv, Ordered
      <3>2. CASE c # o /\ d # o
        BY <2>8, <3>1, <3>2
      <3>3. CASE d = o
        <4>1. /\ file[c] # <<>> => Last(file[c]) <= next
              /\ \A s \in Nat : Due(c, s) => s <= next
          BY DEF IInv, Consecutive
        <4>2. c # o /\ \A s \in Nat : Due(c, s)' <=> Due(c, s)
          BY <2>8, <3>3 DEF Consumers
        <4>3. \A t \in Nat : Due(d, t)' => t = next
          BY <2>7, <3>3
        <4>4. file[c] # <<>> => Last(file[c]) \in Nat
          BY LastType DEF IInv
        <4>5. QED
          BY <1>5, <3>1, <4>1, <4>2, <4>3, <4>4
      <3>4. CASE c = o
        <4>1. phase[d] = "unborn"
          BY <1>1, <1>2, <3>4 DEF IInv, Connected, TypeOK, Consumers
        <4>2. file[d] = <<>> /\ up[d] = <<>> /\ d # o
          BY <4>1, <3>4 DEF IInv, Connected, Consumers
        <4>3. \A t \in Nat : ~Due(d, t)'
          BY <2>8, <4>1, <4>2, EmptySeq DEF Due
        <4>4. QED
          BY <4>2, <4>3
      <3>5. QED
        BY <3>2, <3>3, <3>4
    <2>12. QED
      BY <1>6, <2>6, <2>9, <2>10, <2>11
  <1>9. QED
    BY <1>7, <1>8

\* The end message is alone on the connection, and stores nothing.
LEMMA CloseKeeps ==
    ASSUME IInv, TypeOK', Close
    PROVE  OneAtATime' /\ Current' /\ Consecutive' /\ Ordered' /\ AckedStored'
  <1>1. output \in Consumers /\ InTransit(output) = 0
    BY CountAssumption DEF Close, IInv, Connected, OneAtATime, TypeOK, Consumers, Resting
  <1>2. PICK o \in Consumers : o = output
    BY <1>1
  <1>3. /\ pc' = "closed" /\ output' = 0
        /\ UNCHANGED <<next, launched, phase, got, file, down>>
    BY DEF Close, consumerVars
  <1>4. up[o] = <<>> /\ down[o] = 0 /\ phase[o] \notin {"writing", "acking"}
    BY <1>1, <1>2, NothingInTransit DEF IInv
  <1>5. \/ up' = up
        \/ /\ \A c \in Consumers : c # o => up'[c] = up[c]
           /\ up'[o] = Append(up[o], End)
    BY <1>2 DEF Close, IInv, TypeOK
  <1>6. Len(up'[o]) = 0 \/ (Len(up'[o]) = 1 /\ up'[o][1] = End)
    <2>1. CASE up' = up
      BY <1>4, <2>1, EmptySeq
    <2>2. CASE up'[o] = Append(up[o], End)
      <3>1. up'[o] = <<End>>
        BY <1>4, <2>2
      <3>2. QED
        BY <3>1
    <2>3. QED
      BY <1>5, <2>1, <2>2
  <1>7. \A c \in Consumers : c # o => up'[c] = up[c]
    BY <1>5
  <1>8. ASSUME NEW c \in Consumers, NEW s \in Nat, Due(c, s)' PROVE Due(c, s)
    <2>1. CASE c = o
      BY <1>3, <1>4, <1>6, <1>8, <2>1 DEF Due
    <2>2. CASE c # o
      BY <1>3, <1>7, <1>8, <2>2 DEF Due
    <2>3. QED
      BY <2>1, <2>2
  <1>9. OneAtATime'
    <2>1. \A c \in Consumers : c # o => InTransit(c)' = InTransit(c)
      BY <1>3, <1>7 DEF InTransit
    <2>2. InTransit(o)' <= 1
      <3>1. down'[o] = 0 /\ phase'[o] \notin {"writing", "acking"} /\ Len(up'[o]) \in {0, 1}
        BY <1>3, <1>4, <1>6
      <3>2. (IF phase'[o] \in {"writing", "acking"} THEN 1 ELSE 0) = 0
        BY <3>1
      <3>3. InTransit(o)' = Len(up'[o]) + 0 + 0
        BY <3>1, <3>2, Zenon DEF InTransit
      <3>4. \A m \in {0, 1} : m + 0 + 0 <= 1
        OBVIOUS
      <3>5. QED
        BY <3>1, <3>3, <3>4, Zenon
    <2>3. QED
      BY <1>3, <2>1, <2>2 DEF OneAtATime, IInv, Resting
  <1>10. Current'
    BY <1>3 DEF Current
  <1>11. Consecutive'
    <2> SUFFICES ASSUME NEW c \in Consumers
                 PROVE  \A s \in Nat : Due(c, s)' =>
                           s <= next /\ (file[c] # <<>> => s = Last(file[c]) + 1)
      BY <1>3 DEF IInv, Consecutive, Last
    <2>1. QED
      BY <1>8 DEF IInv, Consecutive
  <1>12. Ordered'
    <2> SUFFICES ASSUME NEW c \in Consumers, NEW d \in Consumers, c < d
                 PROVE  /\ file[c] # <<>> /\ file[d] # <<>> => file[d][1] >= Last(file[c])
                        /\ \A s \in Nat : Due(c, s)' /\ file[d] # <<>> => file[d][1] >= s
                        /\ \A t \in Nat : Due(d, t)' /\ file[c] # <<>> => t >= Last(file[c])
                        /\ \A s, t \in Nat : Due(c, s)' /\ Due(d, t)' => t >= s
      BY <1>3 DEF Ordered, Last
    <2>1. QED
      BY <1>8 DEF IInv, Ordered
  <1>13. AckedStored'
    BY <1>3 DEF IInv, AckedStored, Holds
  <1>14. QED
    BY <1>9, <1>10, <1>11, <1>12, <1>13

\* Once the consumer's answer is read, readable or not, nothing else is under way.
AnswerRead ==
    /\ pc = "await" /\ down[output] > 0
    /\ down' = [down EXCEPT ![output] = @ - 1]
    /\ UNCHANGED <<output, launched, phase, got, file, up>>

LEMMA AnswerReadShrinks ==
    ASSUME IInv, AnswerRead
    PROVE  /\ output \in Consumers /\ output # 0
           /\ Shrinks /\ InTransit(output)' = 0
           /\ Acks(output) /\ ~Acks(output)' /\ \A s \in Nat : ~Due(output, s)
  <1>1. output \in Consumers
    BY OutputIsConsumer DEF AnswerRead, IInv
  <1>2. PICK o \in Consumers : o = output
    BY <1>1
  <1>3. /\ output' = output /\ down[o] > 0 /\ UNCHANGED <<phase, got, file, up>>
        /\ down'[o] = down[o] - 1 /\ \A c \in Consumers : c # o => down'[c] = down[c]
    BY <1>2 DEF AnswerRead, IInv, TypeOK
  <1>4. \A c \in Consumers : Len(up[c]) \in Nat /\ down[c] \in Nat
    BY LenProperties DEF IInv, TypeOK
  <1>5. Len(up[o]) = 0 /\ down[o] = 1 /\ phase[o] \notin {"writing", "acking"}
    <2>1. Len(up[o]) + down[o] + (IF phase[o] \in {"writing", "acking"} THEN 1 ELSE 0) <= 1
      BY DEF IInv, OneAtATime, InTransit
    <2>2. \A m, n \in Nat : \A k \in {0, 1} :
             m + n + k <= 1 /\ n > 0 => m = 0 /\ n = 1 /\ k = 0
      OBVIOUS
    <2>3. /\ Len(up[o]) = 0 /\ down[o] = 1
          /\ (IF phase[o] \in {"writing", "acking"} THEN 1 ELSE 0) = 0
      BY <1>3, <1>4, <2>1, <2>2
    <2>4. QED
      BY <2>3
  <1>6. InTransit(o)' = 0
    BY <1>3, <1>5 DEF InTransit
  <1>7. \A c \in Consumers : \A s \in Nat : Due(c, s)' => Due(c, s)
    BY <1>3 DEF Due
  <1>8. Shrinks
    <2>1. \A c \in Consumers : InTransit(c)' <= InTransit(c)
      <3>1. ASSUME NEW c \in Consumers, c # o PROVE InTransit(c)' <= InTransit(c)
        BY <1>3, <3>1, InTransitType DEF IInv, InTransit
      <3>2. InTransit(o)' <= InTransit(o)
        BY <1>6, InTransitType DEF IInv
      <3>3. QED
        BY <3>1, <3>2
    <2>2. \A c \in Consumers : Acks(c)' => Acks(c)
      BY <1>3, <1>5 DEF Acks
    <2>3. QED
      BY <1>3, <1>7, <2>1, <2>2 DEF Shrinks
  <1>9. Acks(o) /\ ~Acks(o)' /\ \A s \in Nat : ~Due(o, s)
    BY <1>3, <1>5 DEF Acks, Due
  <1>10. QED
    BY <1>2, <1>3, <1>6, <1>8, <1>9 DEF InTransit, Acks, Consumers

\* The acknowledgement is that of the snapshot being written, which its consumer
\* has stored.
LEMMA AckReceivedKeeps ==
    ASSUME IInv, TypeOK', AckReceived
    PROVE  OneAtATime' /\ Current' /\ Consecutive' /\ Ordered' /\ AckedStored'
  <1>1. pc' = "idle" /\ output' = output /\ next' = next + 1 /\ file' = file /\ AnswerRead
    BY DEF AckReceived, AnswerRead, consumerVars
  <1>2. PICK o \in Consumers : o = output /\ o # 0
    BY <1>1, AnswerReadShrinks
  <1>3. /\ Shrinks /\ InTransit(output)' = 0 /\ Acks(o) /\ ~Acks(output)'
        /\ \A s \in Nat : ~Due(o, s)
    BY <1>1, <1>2, AnswerReadShrinks
  <1>4. file[o] # <<>> /\ Last(file[o]) = next /\ next \in Nat
    BY <1>2, <1>3 DEF IInv, Current, TypeOK, Acks
  <1>5. OneAtATime'
    <2>1. \A c \in Consumers : InTransit(c)' <= 1
      BY <1>3, ShrinkingKeepsOne DEF IInv
    <2>2. QED
      BY <1>3, <2>1 DEF OneAtATime
  <1>6. Consecutive' /\ Ordered'
    BY <1>1, <1>3, <1>4, ShrinkingKeepsOrder
  <1>7. Current'
    <2>1. \A s \in Nat : ~Due(o, s)'
      BY <1>3 DEF Shrinks
    <2>2. Last(file'[o]) = next' - 1
      BY <1>1, <1>4
    <2>3. QED
      BY <1>1, <1>2, <1>3, <2>1, <2>2 DEF Current, Due, Acks
  <1>8. AckedStored'
    <2>1. Holds(o, next)
      <3>1. file[o] \in Seq(Nat) /\ file[o] # <<>>
        BY <1>4 DEF IInv, TypeOK
      <3>2. Len(file[o]) \in 1 .. Len(file[o])
        BY <3>1, EmptySeq, LenProperties
      <3>3. QED
        BY <1>4, <3>2 DEF Holds, Last
    <2>2. \A s \in 0 .. next : s \in 0 .. next - 1 \/ s = next
      BY <1>4
    <2>3. \A s \in 0 .. next : \E c \in Consumers : Holds(c, s)
      BY <2>1, <2>2 DEF IInv, AckedStored
    <2>4. next' - 1 = next
      BY <1>1, <1>4
    <2>5. QED
      BY <1>1, <2>3, <2>4 DEF AckedStored, Holds
  <1>9. QED
    BY <1>5, <1>6, <1>7, <1>8

\* An answer that is no acknowledgement is read off the connection, and acknowledges
\* nothing.
LEMMA AckUnreadableKeeps ==
    ASSUME IInv, TypeOK', AckUnreadable
    PROVE  OneAtATime' /\ Current' /\ Consecutive' /\ Ordered' /\ AckedStored'
  <1>1. /\ pc' = "rejected" /\ UNCHANGED <<output, next, file>> /\ AnswerRead
    BY DEF AckUnreadable, AnswerRead, consumerVars
  <1>2. PICK o \in Consumers : o = output /\ o # 0
    BY <1>1, AnswerReadShrinks
  <1>3. Shrinks /\ InTransit(output)' = 0 /\ ~Acks(output)' /\ \A s \in Nat : ~Due(o, s)
    BY <1>1, <1>2, AnswerReadShrinks
  <1>4. OneAtATime'
    <2>1. \A c \in Consumers : InTransit(c)' <= 1
      BY <1>3, ShrinkingKeepsOne DEF IInv
    <2>2. QED
      BY <1>3, <2>1 DEF OneAtATime
  <1>5. Consecutive' /\ Ordered'
    <2>1. next' \in Nat /\ next' >= next
      BY <1>1 DEF IInv, TypeOK
    <2>2. QED
      BY <1>3, <2>1, ShrinkingKeepsOrder
  <1>6. Current'
    <2>1. \A s \in Nat : ~Due(o, s)'
      BY <1>3 DEF Shrinks
    <2>2. QED
      BY <1>1, <1>2, <1>3, <2>1 DEF Current, Due, Acks
  <1>7. AckedStored'
    BY <1>1 DEF IInv, AckedStored, Holds
  <1>8. QED
    BY <1>4, <1>5, <1>6, <1>7

\* The snapshot an output gets comes right after the last one it has, and neither
\* before what an earlier output has nor after what a later one began with.
LEMMA WriteStepKeeps ==
    ASSUME IInv, TypeOK', NEW c \in Consumers, WriteStep(c)
    PROVE  OneAtATime' /\ Current' /\ Consecutive' /\ Ordered' /\ AckedStored'
  <1> DEFINE g == got[c]
  <1> DEFINE f == file[c]
  <1>1. /\ phase[c] = "writing" /\ file'[c] = Append(f, g)
        /\ phase'[c] = "acking"
        /\ UNCHANGED <<pc, next, output, got, up, down>>
        /\ \A d \in Consumers : d # c => file'[d] = file[d] /\ phase'[d] = phase[d]
    BY DEF WriteStep, producerVars, channelVars, IInv, TypeOK
  <1>2. f \in Seq(Nat) /\ g \in Nat /\ next \in Nat /\ Len(f) \in Nat
    BY LenProperties DEF IInv, TypeOK
  <1>3. /\ Len(file'[c]) = Len(f) + 1 /\ file'[c][Len(f) + 1] = g
        /\ \A i \in 1 .. Len(f) : file'[c][i] = f[i]
    BY <1>1, <1>2, AppendProperties
  <1>4. file'[c] # <<>> /\ Last(file'[c]) = g
    BY <1>2, <1>3, EmptySeq DEF Last
  <1>5. f = <<>> => file'[c][1] = g
    BY <1>3, EmptySeq
  <1>6. f # <<>> => file'[c][1] = f[1] /\ Last(f) \in Nat
    <2>1. f # <<>> => 1 \in 1 .. Len(f)
      BY <1>2, EmptySeq
    <2>2. QED
      BY <2>1, <1>3, LastType DEF IInv
  <1>7. Due(c, g)
    BY <1>1 DEF Due
  <1>8. /\ g <= next
        /\ f # <<>> => g = Last(f) + 1
        /\ output = c => g = next
    <2>1. g <= next /\ (f # <<>> => g = Last(f) + 1)
      BY <1>2, <1>7 DEF IInv, Consecutive
    <2>2. ASSUME output = c PROVE g = next
      <3>1. output # 0 /\ Due(output, g)
        BY <1>7, <2>2 DEF Consumers
      <3>2. QED
        BY <1>2, <3>1 DEF IInv, Current
    <2>3. QED
      BY <2>1, <2>2
  <1>9. Len(up[c]) = 0 /\ down[c] = 0
    <2>1. Len(up[c]) + down[c] + (IF phase[c] \in {"writing", "acking"} THEN 1 ELSE 0) <= 1
      BY DEF IInv, OneAtATime, InTransit
    <2>2. Len(up[c]) + down[c] + 1 <= 1
      BY <1>1, <2>1
    <2>3. Len(up[c]) \in Nat /\ down[c] \in Nat
      BY LenProperties DEF IInv, TypeOK
    <2>4. \A m, n \in Nat : m + n + 1 <= 1 => m = 0 /\ n = 0
      OBVIOUS
    <2>5. QED
      BY <2>2, <2>3, <2>4
  <1>10. /\ \A s \in Nat : ~Due(c, s)'
         /\ \A d \in Consumers : \A s \in Nat : d # c => (Due(d, s)' <=> Due(d, s))
    BY <1>1, <1>9 DEF Due
  <1> HIDE DEF g, f
  <1>11. \A d \in Consumers : InTransit(d)' = InTransit(d)
    BY <1>1 DEF InTransit
  <1>12. OneAtATime'
    <2>1. \A d \in Consumers : InTransit(d)' <= 1
      BY <1>11 DEF IInv, OneAtATime
    <2>2. ASSUME pc' \in Resting PROVE InTransit(output)' = 0
      <3>1. pc \in Resting /\ output' = output
        BY <1>1, <2>2
      <3>2. output \in Consumers /\ InTransit(output) = 0
        BY <3>1, OutputIsConsumer DEF IInv, OneAtATime
      <3>3. PICK o \in Consumers : o = output
        BY <3>2
      <3>4. InTransit(o)' = 0
        BY <1>11, <3>2, <3>3
      <3>5. QED
        BY <3>1, <3>3, <3>4 DEF InTransit
    <2>3. QED
      BY <2>1, <2>2 DEF OneAtATime
  <1>13. Current'
    <2> SUFFICES ASSUME output # 0 PROVE Current'
      BY <1>1 DEF Current
    <2>1. output \in Consumers
      BY CountAssumption DEF IInv, TypeOK, Consumers
    <2>2. CASE output = c
      <3>1. pc \notin {"idle", "send"}
        <4>1. InTransit(c) # 0
          BY <1>1, NothingInTransit DEF IInv
        <4>2. QED
          BY <2>2, <4>1 DEF IInv, OneAtATime, Resting
      <3>2. QED
        BY <1>1, <1>4, <1>8, <1>10, <2>2, <3>1 DEF Current, Due, Last
    <2>3. CASE output # c
      <3>1. PICK o \in Consumers : o = output
        BY <2>1
      <3>2. \A s \in Nat : Due(o, s)' => s = next
        BY <1>10, <2>3, <3>1 DEF IInv, Current
      <3>3. file'[o] = file[o] /\ phase'[o] = phase[o] /\ down'[o] = down[o]
        BY <1>1, <2>3, <3>1
      <3>4. /\ pc \in {"idle", "send"} => file[o] = <<>> \/ Last(file[o]) = next - 1
            /\ phase[o] = "acking" \/ down[o] > 0 => file[o] # <<>> /\ Last(file[o]) = next
        BY <3>1 DEF IInv, Current
      <3>5. QED
        BY <1>1, <3>1, <3>2, <3>3, <3>4 DEF Current, Due, Last
    <2>4. QED
      BY <2>2, <2>3
  <1>14. Consecutive'
    <2> SUFFICES ASSUME NEW d \in Consumers
                 PROVE  /\ \A i \in 1 .. Len(file'[d]) - 1 :
                              file'[d][i + 1] = file'[d][i] + 1
                        /\ file'[d] # <<>> => Last(file'[d]) <= next
                        /\ \A s \in Nat : Due(d, s)' =>
                              s <= next /\ (file'[d] # <<>> => s = Last(file'[d]) + 1)
      BY <1>1 DEF Consecutive, Last
    <2>1. CASE d = c
      <3>1. ASSUME NEW i \in 1 .. Len(f) PROVE file'[c][i + 1] = file'[c][i] + 1
        <4>1. CASE i < Len(f)
          <5>1. i \in 1 .. Len(f) - 1 /\ i + 1 \in 1 .. Len(f)
            BY <1>2, <4>1
          <5>2. f[i + 1] = f[i] + 1
            BY <5>1 DEF IInv, Consecutive, f
          <5>3. QED
            BY <1>3, <5>1, <5>2
        <4>2. CASE i = Len(f)
          <5>1. f # <<>> /\ Last(f) = f[i]
            BY <1>2, <4>2, EmptySeq DEF Last
          <5>2. QED
            BY <1>3, <1>8, <4>2, <5>1
        <4>3. QED
          BY <1>2, <4>1, <4>2
      <3>2. Len(file'[c]) - 1 = Len(f)
        BY <1>2, <1>3
      <3>3. QED
        BY <1>4, <1>8, <1>10, <2>1, <3>1, <3>2
    <2>2. CASE d # c
      <3>1. file'[d] = file[d] /\ \A s \in Nat : Due(d, s)' <=> Due(d, s)
        BY <1>1, <1>10, <2>2
      <3>2. QED
        BY <3>1 DEF IInv, Consecutive
    <2>3. QED
      BY <2>1, <2>2
  <1>15. Ordered'
    <2> SUFFICES ASSUME NEW b \in Consumers, NEW d \in Consumers, b < d
                 PROVE  /\ file'[b] # <<>> /\ file'[d] # <<>> =>
                              file'[d][1] >= Last(file'[b])
                        /\ \A s \in Nat : Due(b, s)' /\ file'[d] # <<>> => file'[d][1] >= s
                        /\ \A t \in Nat : Due(d, t)' /\ file'[b] # <<>> =>
                              t >= Last(file'[b])
                        /\ \A s, t \in Nat : Due(b, s)' /\ Due(d, t)' => t >= s
      BY DEF Ordered, Last
    <2>1. /\ file[b] # <<>> /\ file[d] # <<>> => file[d][1] >= Last(file[b])
          /\ \A s \in Nat : Due(b, s) /\ file[d] # <<>> => file[d][1] >= s
          /\ \A t \in Nat : Due(d, t) /\ file[b] # <<>> => t >= Last(file[b])
          /\ \A s, t \in Nat : Due(b, s) /\ Due(d, t) => t >= s
      BY DEF IInv, Ordered
    <2>2. CASE b # c /\ d # c
      <3>1. /\ file'[b] = file[b] /\ file'[d] = file[d]
            /\ \A s \in Nat : (Due(b, s)' <=> Due(b, s)) /\ (Due(d, s)' <=> Due(d, s))
        BY <1>1, <1>10, <2>2
      <3>2. QED
        BY <2>1, <3>1
    <2>3. CASE b = c
      <3>1. d # c /\ file'[d] = file[d] /\ \A s \in Nat : Due(d, s)' <=> Due(d, s)
        BY <1>1, <1>10, <2>3 DEF Consumers
      <3>2. QED
        BY <1>2, <1>4, <1>7, <1>10, <2>1, <2>3, <3>1
    <2>4. CASE d = c
      <3>1. /\ b # c /\ file'[b] = file[b]
            /\ \A s \in Nat : Due(b, s)' <=> Due(b, s)
        BY <1>1, <1>10, <2>4 DEF Consumers
      <3>2. CASE f = <<>>
        BY <1>2, <1>5, <1>7, <1>10, <2>1, <2>4, <3>1, <3>2
      <3>3. CASE f # <<>>
        BY <1>6, <1>10, <2>1, <2>4, <3>1, <3>3 DEF f
      <3>4. QED
        BY <3>2, <3>3
    <2>5. QED
      BY <2>2, <2>3, <2>4
  <1>16. AckedStored'
    <2>1. ASSUME NEW s \in 0 .. next - 1 PROVE \E d \in Consumers : Holds(d, s)'
      <3>1. PICK d \in Consumers : Holds(d, s)
        BY <2>1 DEF IInv, AckedStored
      <3>2. CASE d # c
        BY <1>1, <3>1, <3>2 DEF Holds
      <3>3. CASE d = c
        <4>1. PICK i \in 1 .. Len(f) : f[i] = s
          BY <3>1, <3>3 DEF Holds, f
        <4>2. i \in 1 .. Len(file'[c]) /\ file'[c][i] = s
          BY <1>2, <1>3, <4>1
        <4>3. QED
          BY <3>3, <4>2 DEF Holds
      <3>4. QED
        BY <3>2, <3>3
    <2>2. QED
      BY <1>1, <2>1 DEF AckedStored
  <1>17. QED
    BY <1>12, <1>13, <1>14, <1>15, <1>16

-------------------------------------------------------------------------------
(* The inductive invariant.                                                *)

LEMMA IInvInit == Init => IInv
  <1> SUFFICES ASSUME Init PROVE IInv
    OBVIOUS
  <1> USE CountAssumption
  <1>1. TypeOK
    BY TypeInit
  <1>2. Connected
    BY DEF Init, Connected, Consumers, Resting
  <1>3. \A c \in Consumers : /\ up[c] = <<>> /\ down[c] = 0 /\ file[c] = <<>>
                              /\ phase[c] = "unborn"
    BY DEF Init
  <1>4. \A c \in Consumers : InTransit(c) = 0 /\ \A s \in Nat : ~Due(c, s)
    BY <1>3, EmptySeq DEF InTransit, Due
  <1>5. OneAtATime /\ Current
    BY <1>4 DEF Init, OneAtATime, Current, Resting
  <1>6. Consecutive /\ Ordered
    BY <1>3, <1>4, EmptySeq DEF Consecutive, Ordered
  <1>7. AckedStored
    BY DEF Init, AckedStored
  <1>8. QED
    BY <1>1, <1>2, <1>5, <1>6, <1>7 DEF IInv

\* What every step has to keep besides the types and Connected.
Deliveries == OneAtATime /\ Current /\ Consecutive /\ Ordered /\ AckedStored

\* A step of the producer, or of a launch, that leaves alone what is under way.
LEMMA QuietKeeps ==
    ASSUME IInv, TypeOK', UNCHANGED <<next, up, down, file, got>>, output' \in {0, output},
           pc' \in Resting =>
              output' = output /\ (pc' = pc \/ (pc = "idle" /\ pc' = "send")),
           \A c \in Consumers : phase'[c] = phase[c]
                                \/ phase'[c] \in {"ended", "listening", "reading"}
    PROVE  Deliveries'
  <1>1. Shrinks
    BY LaunchShrinks DEF IInv
  <1>2. QED
    BY <1>1, ShrinkingKeepsCurrent DEF Deliveries

LEMMA DeliveriesStep ==
    ASSUME IInv, TypeOK', Next
    PROVE  Deliveries'
  <1> USE DEF Resting
  <1>1. CASE LaunchSucceeds
    BY <1>1, LaunchSucceedsKeeps DEF Deliveries
  <1>2. CASE SendReturns
    BY <1>2, SendReturnsKeeps DEF Deliveries
  <1>3. CASE Close
    BY <1>3, CloseKeeps DEF Deliveries
  <1>4. CASE AckReceived \/ AckUnreadable
    BY <1>4, AckReceivedKeeps, AckUnreadableKeeps DEF Deliveries
  <1>5. CASE LaunchFailsLocally
    <2>1. UNCHANGED <<next, output, up, down, file, got, phase>>
      BY <1>5 DEF LaunchFailsLocally, AttemptFails, consumerVars, channelVars
    <2>2. pc' \notin Resting
      BY <1>5 DEF LaunchFailsLocally, AttemptFails, LimitReached
    <2>3. QED
      BY <2>1, <2>2, QuietKeeps
  <1>6. CASE LaunchFailsRemotely \/ LaunchRejected
    <2>1. UNCHANGED <<next, up, down, output>>
      BY <1>6, NoLaunch
    <2>2. pc' \notin Resting
      BY <1>6, NoLaunch
    <2>3. PICK stopped \in SUBSET Alive :
             \/ Started(stopped, "listening") \/ Started(stopped, "reading")
             \/ /\ phase' = [c \in Consumers |-> IF c \in stopped THEN "ended"
                                                 ELSE phase[c]]
                /\ UNCHANGED <<launched, got, file>>
      BY <1>6, NoLaunch, RemoteAttempt
    <2>4. UNCHANGED <<file, got>>
      BY <2>3 DEF Started
    <2>5. \A c \in Consumers : phase'[c] = phase[c]
                               \/ phase'[c] \in {"ended", "listening", "reading"}
      BY <2>3 DEF Started
    <2>6. QED
      BY <2>1, <2>2, <2>4, <2>5, QuietKeeps
  <1>7. CASE KeyNotUpdated \/ KeyFails \/ KeyReplaced \/ Done
    <2>1. UNCHANGED <<pc, next, output, up, down, file, got, phase>>
      BY <1>7 DEF KeyNotUpdated, KeyFails, KeyReplaced, Done, vars, producerVars, consumerVars,
                  channelVars
    <2>2. QED
      BY <2>1, QuietKeeps
  <1>8. CASE KeyUpdateSeen \/ Write \/ CloseRaised \/ Discard
    <2>1. UNCHANGED <<next, up, down, file, got, phase>> /\ output' \in {0, output}
      BY <1>8 DEF KeyUpdateSeen, Write, CloseRaised, Discard, consumerVars, channelVars
    <2>2. pc' \in Resting =>
             output' = output /\ (pc' = pc \/ (pc = "idle" /\ pc' = "send"))
      BY <1>8 DEF KeyUpdateSeen, Write, CloseRaised, Discard
    <2>3. QED
      BY <2>1, <2>2, QuietKeeps
  <1>9. CASE SendFails \/ AwaitFails
    <2>1. UNCHANGED <<next, output, up, down, file, got, phase>> /\ pc' = "lost"
      BY <1>9 DEF SendFails, AwaitFails, Unreachable, consumerVars, channelVars
    <2>2. QED
      BY <2>1, QuietKeeps
  <1>10. ASSUME NEW c \in Consumers,
                ReadData(c) \/ ReadEnd(c) \/ SendAck(c) \/ SendAckFails(c) \/ Crash(c)
                \/ Break(c)
         PROVE  Deliveries'
    <2>1. UNCHANGED <<pc, next, output>>
      BY <1>10 DEF ReadData, ReadEnd, SendAck, SendAckFails, Crash, Break, producerVars
    <2>2. Shrinks
      BY <1>10, ConsumerShrinks DEF IInv
    <2>3. QED
      BY <2>1, <2>2, ShrinkingKeepsCurrent DEF Deliveries
  <1>11. ASSUME NEW c \in Consumers, WriteStep(c) PROVE Deliveries'
    BY <1>11, WriteStepKeeps DEF Deliveries
  <1>12. QED
    BY <1>1, <1>2, <1>3, <1>4, <1>5, <1>6, <1>7, <1>8, <1>9, <1>10, <1>11
       DEF Next, ProducerStep, ConsumerStep

LEMMA IInvStep == IInv /\ [Next]_vars => IInv'
  <1> SUFFICES ASSUME IInv, [Next]_vars PROVE IInv'
    OBVIOUS
  <1>1. TypeOK'
    BY TypeStep DEF IInv
  <1>2. CASE UNCHANGED vars
    <2>1. Shrinks
      BY <1>2, InTransitType DEF Shrinks, InTransit, Due, Acks, IInv, vars, consumerVars,
                                 channelVars
    <2>2. UNCHANGED <<pc, next, output>>
      BY <1>2 DEF vars, producerVars
    <2>3. Deliveries'
      BY <1>1, <2>1, <2>2, ShrinkingKeepsCurrent DEF Deliveries
    <2>4. Connected'
      BY <1>2 DEF IInv, Connected, vars, producerVars, consumerVars, channelVars
    <2>5. QED
      BY <1>1, <2>3, <2>4 DEF IInv, Deliveries
  <1>3. CASE Next
    BY <1>1, <1>3, ConnectedStep, DeliveriesStep DEF IInv, Deliveries
  <1>4. QED
    BY <1>2, <1>3

\* The invariant holds in every state of every behaviour.
THEOREM Invariant == Spec => []IInv
  <1>1. Init => IInv
    BY IInvInit
  <1>2. IInv /\ [Next]_vars => IInv'
    BY IInvStep
  <1>3. QED
    BY <1>1, <1>2, PTL DEF Spec

-------------------------------------------------------------------------------
(* The properties.                                                         *)

\* Every variable keeps its type, for every number of snapshots, launches and faults.
THEOREM TypeCorrect == Spec => []TypeOK
  <1>1. IInv => TypeOK
    BY DEF IInv
  <1>2. QED
    BY <1>1, Invariant, PTL

\* A snapshot whose write_data returned is in the output of some consumer, whatever
\* failed since (write_data waits for the acknowledgement, which the consumer sends
\* after it stored the snapshot).
THEOREM AcknowledgedIsStored == Spec => []AckedStored
  <1>1. IInv => AckedStored
    BY DEF IInv
  <1>2. QED
    BY <1>1, Invariant, PTL

\* The outputs of all consumers, also of those that were not stopped, are one run: no
\* snapshot is missing within an output, and an output starts no earlier than where
\* the outputs before it ended.
THEOREM OutputsAreOneRun == Spec => []OutputsJoin
  <1>1. IInv => OutputsJoin
    BY DEF IInv, Consecutive, Ordered, OutputsJoin, Last
  <1>2. QED
    BY <1>1, Invariant, PTL

\* An acknowledgement is never taken for that of another snapshot.
THEOREM AcknowledgementsMatch == Spec => []Lockstep
  <1>1. IInv => Lockstep
    <2> SUFFICES ASSUME IInv PROVE Lockstep
      OBVIOUS
    <2>1. \A c \in Consumers : InTransit(c) <= 1
      BY DEF IInv, OneAtATime
    <2>2. ASSUME pc = "await", down[output] > 0 PROVE Holds(output, next)
      <3>1. output \in Consumers
        BY <2>2, CountAssumption DEF IInv, Connected, TypeOK, Consumers
      <3>2. file[output] # <<>> /\ Last(file[output]) = next
        BY <2>2, <3>1 DEF IInv, Current, Consumers
      <3>3. file[output] \in Seq(Nat)
        BY <3>1 DEF IInv, TypeOK
      <3>4. Len(file[output]) \in 1 .. Len(file[output])
        BY <3>2, <3>3, EmptySeq, LenProperties
      <3>5. QED
        BY <3>2, <3>4 DEF Holds, Last
    <2>3. QED
      BY <2>1, <2>2 DEF Lockstep
  <1>2. QED
    BY <1>1, Invariant, PTL

\* Only an acknowledgement that is read and a snapshot that is stored show in next and
\* the outputs.
LEMMA VisibleSteps ==
    ASSUME Next
    PROVE  UNCHANGED <<next, file>> \/ AckReceived \/ \E c \in Consumers : WriteStep(c)
  <1>1. CASE \/ LaunchSucceeds \/ LaunchFailsLocally \/ LaunchFailsRemotely
             \/ LaunchRejected
    BY <1>1 DEF LaunchSucceeds, LaunchFailsLocally, LaunchFailsRemotely, LaunchRejected,
                NoConnectionMade, AttemptFails, Started, consumerVars
  <1>2. CASE ProducerStep
    BY <1>1, <1>2 DEF ProducerStep, KeyNotUpdated, KeyUpdateSeen, Write, SendReturns,
                      SendFails, AckUnreadable, AwaitFails, Discard, vars, producerVars,
                      consumerVars
  <1>3. CASE Close \/ CloseRaised \/ Done \/ KeyFails \/ KeyReplaced
    BY <1>3 DEF Close, CloseRaised, Done, KeyFails, KeyReplaced, vars, producerVars, consumerVars
  <1>4. ASSUME NEW c \in Consumers, ConsumerStep(c) \/ Crash(c) \/ Break(c)
        PROVE  UNCHANGED <<next, file>> \/ WriteStep(c)
    BY <1>4 DEF ConsumerStep, ReadData, ReadEnd, SendAck, SendAckFails, Crash, Break,
                producerVars, consumerVars
  <1>5. QED
    BY <1>2, <1>3, <1>4 DEF Next

\* The consumer the producer is connected to stores nothing but the snapshot that is
\* being written: _relaunch_and_retry sends no acknowledged snapshot again.
THEOREM StoresOnlyInterrupted == Spec => NothingResent
  <1>1. IInv /\ [Next]_vars => [StoresInterruptedOnly]_vars
    <2> SUFFICES ASSUME IInv, Next PROVE StoresInterruptedOnly
      BY DEF StoresInterruptedOnly, vars, consumerVars
    <2> SUFFICES ASSUME NEW c \in Consumers, file'[c] # file[c], output = c
                 PROVE  got[c] = next
      BY DEF StoresInterruptedOnly
    <2>1. PICK d \in Consumers : WriteStep(d)
      BY VisibleSteps DEF AckReceived, consumerVars
    <2>2. d = c /\ phase[c] = "writing"
      BY <2>1 DEF WriteStep, IInv, TypeOK
    <2>3. Due(output, got[c]) /\ got[c] \in Nat /\ output # 0
      BY <2>2 DEF Due, IInv, TypeOK, Consumers
    <2>4. QED
      BY <2>3 DEF IInv, Current
  <1>2. QED
    BY <1>1, Invariant, PTL DEF Spec, NothingResent

\* A snapshot is stored where Delivery lets it be.
LEMMA WriteStores ==
    ASSUME IInv, NEW c \in Consumers, WriteStep(c)
    PROVE  got[c] \in 0 .. next /\ AtLeastOnce!Store(c, got[c])
  <1>1. Due(c, got[c]) /\ got[c] \in Nat /\ next \in Nat
    BY DEF WriteStep, Due, IInv, TypeOK
  <1>2. got[c] <= next /\ (file[c] # <<>> => got[c] = Last(file[c]) + 1)
    BY <1>1 DEF IInv, Consecutive
  <1>3. \A d \in Consumers : d < c /\ file[d] # <<>> => Last(file[d]) <= got[c]
    <2> SUFFICES ASSUME NEW d \in Consumers, d < c, file[d] # <<>>
                 PROVE  Last(file[d]) <= got[c]
      OBVIOUS
    <2>1. got[c] >= Last(file[d])
      BY <1>1 DEF IInv, Ordered
    <2>2. Last(file[d]) \in Nat
      BY LastType DEF IInv
    <2>3. QED
      BY <1>1, <2>1, <2>2
  <1>4. \A d \in Consumers : c < d /\ file[d] # <<>> => got[c] <= file[d][1]
    <2> SUFFICES ASSUME NEW d \in Consumers, c < d, file[d] # <<>>
                 PROVE  got[c] <= file[d][1]
      OBVIOUS
    <2>1. file[d][1] >= got[c]
      BY <1>1 DEF IInv, Ordered
    <2>2. file[d][1] \in Nat
      <3>1. file[d] \in Seq(Nat)
        BY DEF IInv, TypeOK
      <3>2. QED
        BY <3>1, EmptySeq, LenProperties
    <2>3. QED
      BY <1>1, <2>1, <2>2
  <1>5. file' = [file EXCEPT ![c] = Append(@, got[c])] /\ next' = next
    BY DEF WriteStep, producerVars
  <1>6. QED
    BY <1>1, <1>2, <1>3, <1>4, <1>5 DEF AtLeastOnce!Store, AtLeastOnce!Latest, Last

\* write_data returns for what the consumer it is connected to stored last.
LEMMA AckAcknowledges ==
    ASSUME IInv, AckReceived
    PROVE  AtLeastOnce!Acknowledge
  <1>1. output \in Consumers
    BY OutputIsConsumer DEF IInv, AckReceived
  <1>2. file[output] # <<>> /\ Last(file[output]) = next
    BY <1>1 DEF IInv, Current, AckReceived, Consumers
  <1>3. next' = next + 1 /\ file' = file
    BY DEF AckReceived, consumerVars
  <1>4. QED
    BY <1>1, <1>2, <1>3 DEF AtLeastOnce!Acknowledge, AtLeastOnce!Latest, Last

\* The restarting output implements Delivery: whatever fails, and whichever consumers
\* are left behind, its outputs and the calls of write_data that return are those of
\* in-order delivery at least once.
THEOREM DeliversAtLeastOnce == Spec => ImplementsDelivery
  <1>1. Init => AtLeastOnce!Init
    BY DEF Init, AtLeastOnce!Init
  <1>2. IInv /\ [Next]_vars => [AtLeastOnce!Next]_(AtLeastOnce!deliveryVars)
    <2> SUFFICES ASSUME IInv, [Next]_vars
                 PROVE  AtLeastOnce!Next \/ UNCHANGED <<next, file>>
      BY DEF AtLeastOnce!deliveryVars
    <2>1. CASE UNCHANGED vars
      BY <2>1 DEF vars, producerVars, consumerVars
    <2>2. CASE AckReceived
      BY <2>2, AckAcknowledges DEF AtLeastOnce!Next
    <2>3. ASSUME NEW c \in Consumers, WriteStep(c) PROVE AtLeastOnce!Next
      BY <2>3, WriteStores DEF AtLeastOnce!Next
    <2>4. QED
      BY <2>1, <2>2, <2>3, VisibleSteps
  <1>3. QED
    BY <1>1, <1>2, Invariant, PTL DEF Spec, ImplementsDelivery, AtLeastOnce!Spec

\* One alert is still allowed: the series of attempts announced no failure yet.
Owed == IF reason = "connection_lost" /\ pc \in {"connect", "paused"}
           /\ ~restart_failure_notified THEN 1 ELSE 0

LEMMA OwedType == Owed \in {0, 1} /\ Owed' \in {0, 1}
  BY DEF Owed

LEMMA AlertStep == TypeOK /\ OneAlertPerLoss /\ [Next]_vars => OneAlertPerLoss'
  <1> SUFFICES ASSUME TypeOK, alerts + Owed <= losses, [Next]_vars
               PROVE  alerts' + Owed' <= losses'
    BY DEF OneAlertPerLoss, Owed
  <1>1. alerts \in Nat /\ losses \in Nat /\ Owed \in {0, 1} /\ Owed' \in {0, 1}
    BY OwedType DEF TypeOK
  <1>2. ASSUME UNCHANGED <<alerts, losses>>, Owed' = 0 \/ Owed' = Owed
        PROVE  alerts' + Owed' <= losses'
    <2>1. \A a, l \in Nat : \A m, n \in {0, 1} :
             a + m <= l /\ (n = 0 \/ n = m) => a + n <= l
      OBVIOUS
    <2>2. QED
      BY <1>1, <1>2, <2>1, Zenon
  <1>3. CASE AttemptFails
    <2>1. CASE reason = "connection_lost" /\ ~restart_failure_notified
      <3>1. alerts' = alerts + 1 /\ losses' = losses
        BY <1>3, <2>1, Zenon DEF AttemptFails
      <3>2. Owed = 1
        BY <1>3, <2>1, Zenon DEF AttemptFails, Owed
      <3>3. Owed' = 0
        BY <1>3, <2>1, Zenon DEF AttemptFails, Owed
      <3>4. \A a, l \in Nat : a + 1 <= l => (a + 1) + 0 <= l
        OBVIOUS
      <3>5. QED
        BY <1>1, <3>1, <3>2, <3>3, <3>4, Zenon
    <2>2. CASE ~(reason = "connection_lost" /\ ~restart_failure_notified)
      <3>1. UNCHANGED <<alerts, restart_failure_notified, reason, losses>>
        BY <1>3, <2>2, Zenon DEF AttemptFails
      <3>2. Owed' = 0
        BY <2>2, <3>1, Zenon DEF Owed
      <3>3. QED
        BY <1>2, <3>1, <3>2
    <2>3. QED
      BY <2>1, <2>2
  <1>4. CASE Discard
    <2>1. alerts' = alerts /\ losses' = losses + 1
      BY <1>4 DEF Discard
    <2>2. Owed = 0
      BY <1>4 DEF Discard, Owed
    <2>3. \A a, l \in Nat : \A n \in {0, 1} : a + 0 <= l => a + n <= l + 1
      OBVIOUS
    <2>4. QED
      BY <1>1, <2>1, <2>2, <2>3, Zenon
  <1>5. CASE \/ LaunchSucceeds \/ LaunchRejected \/ Write \/ SendReturns \/ SendFails
             \/ AckReceived \/ AckUnreadable \/ AwaitFails \/ CloseRaised \/ Close
    <2>1. UNCHANGED <<alerts, losses>>
      BY <1>5 DEF LaunchSucceeds, LaunchRejected, Write, SendReturns, SendFails, AckReceived,
                  AckUnreadable, AwaitFails, CloseRaised, Close, eventVars
    <2>2. pc' \notin {"connect", "paused"}
      BY <1>5 DEF LaunchSucceeds, LaunchRejected, Write, SendReturns, SendFails, AckReceived,
                  AckUnreadable, AwaitFails, CloseRaised, Close
    <2>3. Owed' = 0
      BY <2>2 DEF Owed
    <2>4. QED
      BY <1>2, <2>1, <2>3
  <1>6. CASE KeyUpdateSeen
    <2>1. /\ UNCHANGED <<alerts, losses, reason, restart_failure_notified>>
          /\ pc = "paused" /\ pc' = "connect"
      BY <1>6 DEF KeyUpdateSeen, eventVars
    <2>2. Owed' = Owed
      BY <2>1 DEF Owed
    <2>3. QED
      BY <1>2, <2>1, <2>2
  <1>7. ASSUME UNCHANGED <<producerVars, eventVars>> PROVE alerts' + Owed' <= losses'
    BY <1>2, <1>7 DEF producerVars, eventVars, Owed
  <1>8. CASE KeyNotUpdated \/ Done \/ KeyFails \/ KeyReplaced \/ UNCHANGED vars
    BY <1>7, <1>8 DEF KeyNotUpdated, Done, KeyFails, KeyReplaced, vars
  <1>9. ASSUME NEW c \in Consumers, ConsumerStep(c) \/ Crash(c) \/ Break(c)
        PROVE  alerts' + Owed' <= losses'
    BY <1>7, <1>9 DEF ConsumerStep, ReadData, ReadEnd, WriteStep, SendAck, SendAckFails,
                      Crash, Break
  <1>10. QED
    BY <1>3, <1>4, <1>5, <1>6, <1>8, <1>9
       DEF Next, ProducerStep, LaunchFailsLocally, LaunchFailsRemotely

\* However many attempts fail after a connection loss, and whether or not an expired
\* certificate paused them, _connect_with_retries sends at most one alert for it.
THEOREM AtMostOneAlert == Spec => []OneAlertPerLoss
  <1>1. Init => OneAlertPerLoss
    BY DEF Init, OneAlertPerLoss
  <1>2. IInv /\ OneAlertPerLoss /\ [Next]_vars => OneAlertPerLoss'
    BY AlertStep DEF IInv
  <1>3. QED
    BY <1>1, <1>2, Invariant, PTL DEF Spec

===============================================================================
