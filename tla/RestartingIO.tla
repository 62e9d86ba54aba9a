----------------------------- MODULE RestartingIO -----------------------------
(***************************************************************************)
(* Delivery of snapshots over a connection that fails:                     *)
(* RestartingSingleSocketIO of remote_consumer_io.py on top of             *)
(* SingleSocketIO, the single-socket protocol, and the consumer processes  *)
(* (receive_steps of mockConsumerSingleSocket.py).                         *)
(*                                                                         *)
(* The producer side is one thread, the worker of BufferedIO: it writes    *)
(* snapshots one at a time, waits for the acknowledgement of each, and on  *)
(* any failure drops the connection, launches a new consumer and sends     *)
(* the interrupted snapshot again.  Consumers are numbered in the order    *)
(* they were started; several may be alive, and each writes an output of   *)
(* its own.  Which of the older consumers a launch stops depends on        *)
(* pid_file, which may miss some (SSH timeouts leave remote scripts        *)
(* running): here a launch may stop any of them.  A snapshot is its number.*)
(***************************************************************************)
EXTENDS Integers, Sequences, FiniteSets

CONSTANTS
    Steps,         \* the snapshots to write are 0 .. Steps - 1
    Limits,        \* the values of max_relaunch_attempts; 0 is no limit
    MaxLaunches,   \* bound on the consumers started
    MaxFaults,     \* bound on the faults of the surroundings
    End            \* the protocol's end message

ASSUME CountAssumption ==
    /\ Steps \in Nat /\ Limits \subseteq Nat /\ MaxLaunches \in Nat /\ MaxFaults \in Nat
ASSUME EndAssumption == End \notin Int

VARIABLES
    \* RestartingSingleSocketIO: where it is, the number of acknowledged snapshots
    \* (the next one to write), the consumer it is connected to (0: _output is
    \* None), the locals of _connect_with_retries, and _max_relaunch_attempts
    pc, next, output, reason, attempt, restart_failure_notified, limit,
    \* the local SSH certificate
    key,
    \* the consumers: how many were started, and of each where it is, the snapshot
    \* it received last, and what its output holds
    launched, phase, got, file,
    \* the connections: messages to the consumer, acknowledgements to the producer
    up, down, broken,
    \* faults so far; the alerts and connection losses of the run, and the answers of
    \* the remote side that raised a ValueError
    faults, alerts, losses, rejections

producerVars == <<pc, next, output, reason, attempt, restart_failure_notified, limit>>
consumerVars == <<launched, phase, got, file>>
channelVars  == <<up, down, broken>>
eventVars    == <<alerts, losses, rejections>>

vars == <<producerVars, key, consumerVars, channelVars, faults, eventVars>>

Consumers == 1 .. MaxLaunches
Alive == {c \in Consumers : phase[c] \notin {"unborn", "ended"}}

Init ==
    /\ pc = "connect" /\ next = 0 /\ output = 0
    /\ reason = "launch" /\ attempt = 0 /\ restart_failure_notified = FALSE
    /\ limit \in Limits
    /\ key = "valid"
    /\ launched = 0
    /\ phase = [c \in Consumers |-> "unborn"]
    /\ got = [c \in Consumers |-> 0]
    /\ file = [c \in Consumers |-> <<>>]
    /\ up = [c \in Consumers |-> <<>>]
    /\ down = [c \in Consumers |-> 0]
    /\ broken = [c \in Consumers |-> FALSE]
    /\ faults = 0 /\ alerts = 0 /\ losses = 0 /\ rejections = 0

\* One more fault of the surroundings.
Fault == faults < MaxFaults /\ faults' = faults + 1

-------------------------------------------------------------------------------
(* The producer: _connect_with_retries.                                    *)

\* The remote script stopped the consumers in stopped and started one more.
Started(stopped, p) ==
    /\ launched < MaxLaunches /\ launched' = launched + 1
    /\ phase' = [c \in Consumers |-> IF c = launched + 1 THEN p
                                     ELSE IF c \in stopped THEN "ended" ELSE phase[c]]
    /\ UNCHANGED <<got, file>>

\* A consumer is launched, reached and authenticated; an interrupted snapshot is
\* next sent again by _relaunch_and_retry.
LaunchSucceeds ==
    /\ pc = "connect"
    /\ \E stopped \in SUBSET Alive : Started(stopped, "reading")
    /\ output' = launched + 1
    /\ pc' = IF reason = "launch" THEN "idle" ELSE "send"
    /\ UNCHANGED <<next, reason, attempt, restart_failure_notified, limit, key, channelVars,
                   faults, eventVars>>

LimitReached == limit > 0 /\ attempt + 1 >= limit

\* Faulty variant: every failed attempt is announced.
AttemptFailsAnnounced ==
    /\ pc = "connect"
    /\ alerts' = alerts + IF reason = "connection_lost" THEN 1 ELSE 0
    /\ attempt' = IF limit = 0 THEN 0 ELSE attempt + 1
    /\ pc' = IF LimitReached THEN IF reason = "launch" THEN "unusable" ELSE "raised"
             ELSE IF key = "expired" THEN "paused" ELSE "connect"
    /\ UNCHANGED <<next, output, reason, restart_failure_notified, limit, key, channelVars,
                   losses, rejections>>

\* The handler of an attempt that failed with an OSError, EOFError or RuntimeError.
\* attempt counts only when it is limited; the exception of a limit leaves the
\* constructor ("unusable") or write_data ("raised").
AttemptFails ==
    /\ pc = "connect"
    /\ IF reason = "connection_lost" /\ ~restart_failure_notified
         THEN alerts' = alerts + 1 /\ restart_failure_notified' = TRUE
         ELSE UNCHANGED <<alerts, restart_failure_notified>>
    /\ attempt' = IF limit = 0 THEN 0 ELSE attempt + 1
    /\ pc' = IF LimitReached THEN IF reason = "launch" THEN "unusable" ELSE "raised"
             ELSE IF key = "expired" THEN "paused" ELSE "connect"
    /\ UNCHANGED <<next, output, reason, limit, key, channelVars, losses, rejections>>

\* Nothing reached the remote host.  Without a valid certificate this is what a
\* new SSH connection comes to, and not counted as a fault.
LaunchFailsLocally ==
    /\ AttemptFails
    /\ IF key = "valid" THEN Fault ELSE UNCHANGED faults
    /\ UNCHANGED consumerVars

\* The script ran, and perhaps started a consumer, but no connection came of it: the
\* consumer keeps listening, or goes on to read the end of a connection that was made.
NoConnectionMade ==
    \E stopped \in SUBSET Alive :
       \/ Started(stopped, "listening") \/ Started(stopped, "reading")
       \/ /\ phase' = [c \in Consumers |-> IF c \in stopped THEN "ended" ELSE phase[c]]
          /\ UNCHANGED <<launched, got, file>>

\* A timeout, a lost reply or one that is no JSON, a refused connection, or a failed
\* handshake.
LaunchFailsRemotely == AttemptFails /\ Fault /\ NoConnectionMade

\* The answer is not usable: connection information that cannot be decrypted, of another
\* protocol or version or without an address, or a challenge that is no header.  Nobody
\* catches the ValueError: it ends the output at once, whatever the limit, without an
\* alert and without a look at the certificate.
LaunchRejected ==
    /\ pc = "connect"
    /\ Fault /\ NoConnectionMade
    /\ pc' = IF reason = "launch" THEN "unusable" ELSE "raised"
    /\ rejections' = rejections + 1
    /\ UNCHANGED <<next, output, reason, attempt, restart_failure_notified, limit, key,
                   channelVars, alerts, losses>>

\* Faulty variant: the replacement is taken for the expired certificate.
KeyUpdateMissed == pc = "paused" /\ key = "valid" /\ UNCHANGED vars

\* _wait_for_ssh_key_update reads the certificate: a valid replacement ends the
\* wait, anything else is read again later.
KeyNotUpdated == pc = "paused" /\ key # "valid" /\ UNCHANGED vars
KeyUpdateSeen ==
    /\ pc = "paused" /\ key = "valid"
    /\ pc' = "connect" /\ attempt' = 0
    /\ UNCHANGED <<next, output, reason, restart_failure_notified, limit, key, consumerVars,
                   channelVars, faults, eventVars>>

-------------------------------------------------------------------------------
(* The producer: write_data, _relaunch_and_retry, close.                   *)

Write ==
    /\ pc = "idle" /\ next < Steps
    /\ pc' = "send"
    /\ UNCHANGED <<next, output, reason, attempt, restart_failure_notified, limit, key,
                   consumerVars, channelVars, faults, eventVars>>

\* The whole message is handed to the transport, whoever is left to read it.
SendReturns ==
    /\ pc = "send"
    /\ up' = IF broken[output] THEN up ELSE [up EXCEPT ![output] = Append(@, next)]
    /\ pc' = "await"
    /\ UNCHANGED <<next, output, reason, attempt, restart_failure_notified, limit, key,
                   consumerVars, down, broken, faults, eventVars>>

\* The peer is gone, or it does not answer: an error at once or a timeout.
Unreachable == broken[output] \/ phase[output] = "ended"

\* The message was cut short; without a fault of the connection, by a timeout.
SendFails ==
    /\ pc = "send"
    /\ IF Unreachable THEN UNCHANGED faults ELSE Fault
    /\ pc' = "lost"
    /\ UNCHANGED <<next, output, reason, attempt, restart_failure_notified, limit, key,
                   consumerVars, channelVars, eventVars>>

\* Faulty variant: the producer does not wait for the acknowledgement.
AckNotAwaited ==
    /\ pc = "await"
    /\ down' = [down EXCEPT ![output] = @ - 1]
    /\ next' = next + 1 /\ pc' = "idle"
    /\ UNCHANGED <<output, reason, attempt, restart_failure_notified, limit, key,
                   consumerVars, up, broken, faults, eventVars>>

AckReceived ==
    /\ pc = "await" /\ down[output] > 0
    /\ down' = [down EXCEPT ![output] = @ - 1]
    /\ next' = next + 1 /\ pc' = "idle"
    /\ UNCHANGED <<output, reason, attempt, restart_failure_notified, limit, key,
                   consumerVars, up, broken, faults, eventVars>>

\* The connection ends, or the timeout passes, before the acknowledgement is read;
\* the timeout may come when the acknowledgement is already there.
AwaitFails ==
    /\ pc = "await"
    /\ IF Unreachable /\ down[output] = 0 THEN UNCHANGED faults ELSE Fault
    /\ pc' = "lost"
    /\ UNCHANGED <<next, output, reason, attempt, restart_failure_notified, limit, key,
                   consumerVars, channelVars, eventVars>>

\* What arrives in the place of the acknowledgement is no header.  The ValueError leaves
\* write_data past the relaunch, and leaves the output connected.
AckUnreadable ==
    /\ pc = "await" /\ down[output] > 0 /\ Fault
    /\ down' = [down EXCEPT ![output] = @ - 1]
    /\ pc' = "rejected" /\ rejections' = rejections + 1
    /\ UNCHANGED <<next, output, reason, attempt, restart_failure_notified, limit, key,
                   consumerVars, up, broken, alerts, losses>>

\* Faulty variant: the snapshot is sent again on the old socket.
DiscardNothing ==
    /\ pc = "lost"
    /\ pc' = "send" /\ losses' = losses + 1
    /\ UNCHANGED <<next, output, reason, attempt, restart_failure_notified, limit, key,
                   consumerVars, channelVars, faults, alerts, rejections>>

\* The socket is closed without an end message, and a reconnect series begins.
Discard ==
    /\ pc = "lost"
    /\ output' = 0 /\ pc' = "connect" /\ reason' = "connection_lost"
    /\ attempt' = 0 /\ restart_failure_notified' = FALSE
    /\ losses' = losses + 1
    /\ UNCHANGED <<next, limit, key, consumerVars, channelVars, faults, alerts, rejections>>

\* close() of a connected output, which the caller may call before the last snapshot, or
\* because write_data raised; the end message may not leave.
Close ==
    /\ pc \in {"idle", "rejected"}
    /\ \/ ~broken[output] /\ up' = [up EXCEPT ![output] = Append(@, End)]
       \/ Unreachable /\ UNCHANGED up
    /\ output' = 0 /\ pc' = "closed"
    /\ UNCHANGED <<next, reason, attempt, restart_failure_notified, limit, key, consumerVars,
                   down, broken, faults, eventVars>>

\* close() after a relaunch raised: there is no output left.
CloseRaised ==
    /\ pc = "raised"
    /\ pc' = "closed"
    /\ UNCHANGED <<next, output, reason, attempt, restart_failure_notified, limit, key,
                   consumerVars, channelVars, faults, eventVars>>

-------------------------------------------------------------------------------
(* A consumer: receive_steps.                                              *)

\* Faulty variant: the message is acknowledged before it is written.
ReadDataAcknowledging(c) ==
    /\ phase[c] = "reading" /\ up[c] # <<>> /\ Head(up[c]) # End
    /\ got' = [got EXCEPT ![c] = Head(up[c])]
    /\ up' = [up EXCEPT ![c] = Tail(@)]
    /\ down' = [down EXCEPT ![c] = @ + 1]
    /\ phase' = [phase EXCEPT ![c] = "writing"]
    /\ UNCHANGED <<producerVars, key, launched, file, broken, faults, eventVars>>

ReadData(c) ==
    /\ phase[c] = "reading" /\ up[c] # <<>> /\ Head(up[c]) # End
    /\ got' = [got EXCEPT ![c] = Head(up[c])]
    /\ up' = [up EXCEPT ![c] = Tail(@)]
    /\ phase' = [phase EXCEPT ![c] = "writing"]
    /\ UNCHANGED <<producerVars, key, launched, file, down, broken, faults, eventVars>>

\* The end message, or the end of the connection: the consumer closes its output.
ReadEnd(c) ==
    /\ phase[c] = "reading"
    /\ \/ up[c] # <<>> /\ Head(up[c]) = End
       \/ up[c] = <<>> /\ (broken[c] \/ output # c)
    /\ phase' = [phase EXCEPT ![c] = "ended"]
    /\ UNCHANGED <<producerVars, key, launched, got, file, channelVars, faults,
                   eventVars>>

WriteStep(c) ==
    /\ phase[c] = "writing"
    /\ file' = [file EXCEPT ![c] = Append(@, got[c])]
    /\ phase' = [phase EXCEPT ![c] = "acking"]
    /\ UNCHANGED <<producerVars, key, launched, got, channelVars, faults, eventVars>>

SendAck(c) ==
    /\ phase[c] = "acking"
    /\ down' = IF broken[c] THEN down ELSE [down EXCEPT ![c] = @ + 1]
    /\ phase' = [phase EXCEPT ![c] = "reading"]
    /\ UNCHANGED <<producerVars, key, launched, got, file, up, broken, faults,
                   eventVars>>

\* The acknowledgement cannot be sent: the producer is gone.
SendAckFails(c) ==
    /\ phase[c] = "acking" /\ (broken[c] \/ output # c)
    /\ phase' = [phase EXCEPT ![c] = "ended"]
    /\ UNCHANGED <<producerVars, key, launched, got, file, channelVars, faults,
                   eventVars>>

\* The output raises, the process is killed or the host fails.
Crash(c) ==
    /\ c \in Alive /\ Fault
    /\ phase' = [phase EXCEPT ![c] = "ended"]
    /\ UNCHANGED <<producerVars, key, launched, got, file, channelVars, eventVars>>

\* The connection breaks: what is in transit is lost, and neither side is told.
Break(c) ==
    /\ c <= launched /\ ~broken[c] /\ Fault
    /\ broken' = [broken EXCEPT ![c] = TRUE]
    /\ up' = [up EXCEPT ![c] = <<>>] /\ down' = [down EXCEPT ![c] = 0]
    /\ UNCHANGED <<producerVars, key, consumerVars, eventVars>>

\* The certificate expires or is, for a while, not readable; it is replaced.
KeyFails ==
    /\ Fault /\ \E k \in {"expired", "unreadable"} : key' = k
    /\ UNCHANGED <<producerVars, consumerVars, channelVars, eventVars>>
KeyReplaced ==
    /\ key # "valid" /\ key' = "valid"
    /\ UNCHANGED <<producerVars, consumerVars, channelVars, faults, eventVars>>

-------------------------------------------------------------------------------

ProducerStep ==
    \/ LaunchSucceeds \/ LaunchFailsLocally \/ LaunchFailsRemotely \/ LaunchRejected
    \/ KeyNotUpdated \/ KeyUpdateSeen
    \/ Write \/ SendReturns \/ SendFails \/ AckReceived \/ AckUnreadable \/ AwaitFails
    \/ Discard
ConsumerStep(c) ==
    ReadData(c) \/ ReadEnd(c) \/ WriteStep(c) \/ SendAck(c) \/ SendAckFails(c)

\* The producer is done with its output.
Done == pc \in {"closed", "unusable"} /\ UNCHANGED vars

Next ==
    \/ ProducerStep \/ Close \/ CloseRaised \/ Done
    \/ \E c \in Consumers : ConsumerStep(c) \/ Crash(c) \/ Break(c)
    \/ KeyFails \/ KeyReplaced

\* The producer and every consumer keep running.  The caller need not close, and
\* nothing is assumed of the surroundings but that faults stop.
Fairness == WF_vars(ProducerStep) /\ \A c \in Consumers : WF_vars(ConsumerStep(c))

Spec == Init /\ [][Next]_vars
FairSpec == Spec /\ Fairness

-------------------------------------------------------------------------------
(* Type.                                                                   *)

\* The values each variable takes.
TypeOK ==
    /\ pc \in {"connect", "paused", "idle", "send", "await", "lost", "rejected", "raised",
               "closed", "unusable"}
    /\ next \in Nat /\ output \in 0 .. launched
    /\ reason \in {"launch", "connection_lost"} /\ attempt \in Nat
    /\ restart_failure_notified \in BOOLEAN
    /\ limit \in Limits /\ key \in {"valid", "expired", "unreadable"}
    /\ launched \in 0 .. MaxLaunches
    /\ phase \in [Consumers -> {"unborn", "listening", "reading", "writing", "acking",
                                "ended"}]
    /\ got \in [Consumers -> Nat] /\ file \in [Consumers -> Seq(Nat)]
    /\ up \in [Consumers -> Seq(Nat \cup {End})]
    /\ down \in [Consumers -> Nat] /\ broken \in [Consumers -> BOOLEAN]
    /\ faults \in Nat /\ alerts \in Nat /\ losses \in Nat /\ rejections \in Nat

-------------------------------------------------------------------------------
(* Safety.                                                                 *)

Holds(c, s) == \E i \in 1 .. Len(file[c]) : file[c][i] = s

\* A snapshot for which write_data returned is in the output of some consumer,
\* whatever crashed or was cut off since.
AckedStored == \A s \in 0 .. next - 1 : \E c \in Consumers : Holds(c, s)

\* A connection carries one thing at a time: a snapshot on its way, a snapshot the
\* consumer is writing or about to acknowledge, or one acknowledgement.  So an
\* acknowledgement is never taken for that of another snapshot.
InTransit(c) ==
    Len(up[c]) + down[c] + IF phase[c] \in {"writing", "acking"} THEN 1 ELSE 0
Lockstep ==
    /\ \A c \in Consumers : InTransit(c) <= 1
    /\ pc = "await" /\ down[output] > 0 => Holds(output, next)

\* The outputs, in the order their consumers were started, are one run: each holds
\* consecutive snapshots, and a later one starts with the snapshot an earlier one
\* ends with, or after it.  Only an interrupted snapshot is there twice.
OutputsJoin ==
    /\ \A c \in Consumers : \A i \in 1 .. Len(file[c]) - 1 :
          file[c][i + 1] = file[c][i] + 1
    /\ \A c, d \in Consumers :
          c < d /\ file[c] # <<>> /\ file[d] # <<>> =>
             file[d][1] >= file[c][Len(file[c])]

\* At most one alert for each connection loss, however many attempts fail, whether
\* or not the series was paused by an expired certificate.
OneAlertPerLoss ==
    alerts + (IF reason = "connection_lost" /\ pc \in {"connect", "paused"}
                 /\ ~restart_failure_notified THEN 1 ELSE 0) <= losses

\* The consumer the producer is connected to stores only the snapshot the producer
\* is writing: nothing acknowledged is stored again.
StoresInterruptedOnly ==
    \A c \in Consumers : file'[c] # file[c] /\ output = c => got[c] = next
NothingResent == [][StoresInterruptedOnly]_vars

\* The restarting output implements the delivery the queue in front of it relies on:
\* in order and at least once, whatever fails and whoever is left behind.
AtLeastOnce == INSTANCE Delivery WITH Outputs <- Consumers
ImplementsDelivery == AtLeastOnce!Spec

\* README.md: "When the configured local SSH certificate is expired, one failed launch
\* is enough to pause further SSH attempts."  A launch whose answer is rejected is not
\* held against it.
PausesWhenExpired ==
    /\ pc = "connect" /\ pc' # "connect" /\ output' = 0 /\ UNCHANGED rejections
    /\ key = "expired"
    => pc' = "paused"
ExpiredPauses == [][PausesWhenExpired]_vars

-------------------------------------------------------------------------------
(* Liveness, under FairSpec.                                               *)

\* Once faults stop and as long as the certificate is replaced when it fails, every
\* snapshot is acknowledged, unless the caller closes a working output or write_data or
\* the constructor raises.  They raise for two reasons only: the limit on the attempts,
\* or an answer of the remote side that is taken for a ValueError, which ends an output
\* without a limit too.
AllAcknowledged ==
    []<>(key = "valid") =>
       <>(\/ next = Steps \/ pc = "closed"
          \/ pc \in {"raised", "unusable"} /\ (limit > 0 \/ rejections > 0)
          \/ pc = "rejected" /\ rejections > 0)

===============================================================================
