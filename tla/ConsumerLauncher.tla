--------------------------- MODULE ConsumerLauncher ---------------------------
(***************************************************************************)
(* How consumers are started, found and stopped on the remote host:        *)
(* SSHConsumerLauncher of remote_consumer_io.py with the shell script it   *)
(* runs there, and main of mockConsumerSingleSocket.py with the connection *)
(* file of connection_security.py.                                         *)
(*                                                                         *)
(* The script of a launch stops the process that pid_file names, removes   *)
(* the connection file, starts a consumer, records it in pid_file and      *)
(* waits for a connection file to print.  When the SSH command times out   *)
(* or its connection is lost the producer launches again, and the script   *)
(* goes on: two scripts may run at once.  Launch n starts consumer n; a    *)
(* file's content, a process id and a consumer are all such a number, 0    *)
(* for none.                                                               *)
(***************************************************************************)
EXTENDS Integers, FiniteSetsExt

CONSTANTS
    MaxLaunches,   \* bound on the launches
    MaxLost,       \* bound on the launches whose script the producer gives up
    MaxFaults,     \* bound on failing consumers, and on scripts that time out
    MaxSize,       \* bound on the snapshots a consumer stores
    Ports          \* the ports a consumer may listen at are 1 .. Ports

ASSUME BoundAssumption ==
    {MaxLaunches, MaxLost, MaxFaults, MaxSize, Ports} \subseteq Nat

VARIABLES
    \* the producer: where it is, and the consumer it is connected to
    pc, launched, peer,
    \* the scripts: where each is, the old process id it read, what it printed
    script, old_pid, reply,
    \* the remote files
    pid_file, connection_file,
    \* the consumers: where each is, the port it got, the snapshots its output holds
    consumer, port, size,
    \* the ports that other programs listen at, and how often the bounded events happened
    occupied, lost, faults

producerVars == <<pc, launched, peer>>
scriptVars   == <<script, old_pid, reply>>
fileVars     == <<pid_file, connection_file>>
consumerVars == <<consumer, port, size>>
boundVars    == <<occupied, lost, faults>>

vars == <<producerVars, scriptVars, fileVars, consumerVars, boundVars>>

Launches == 1 .. MaxLaunches

Init ==
    /\ pc = "ready" /\ launched = 0 /\ peer = 0
    /\ script = [n \in Launches |-> "none"]
    /\ old_pid = [n \in Launches |-> 0] /\ reply = [n \in Launches |-> 0]
    /\ pid_file = 0 /\ connection_file = 0
    /\ consumer = [n \in Launches |-> "none"]
    /\ port = [n \in Launches |-> 0] /\ size = [n \in Launches |-> 0]
    /\ occupied \in {1 .. q : q \in 0 .. Ports} /\ lost = 0 /\ faults = 0

Fault == faults < MaxFaults /\ faults' = faults + 1

Running(n) == consumer[n] \notin {"none", "ended"}

\* The consumers whose listener is open.
Bound == {n \in Launches : consumer[n] \in {"bound", "listening", "serving", "storing"}}
Free == (1 .. Ports) \ (occupied \cup {port[n] : n \in Bound})

-------------------------------------------------------------------------------
(* The producer.                                                           *)

Launch ==
    /\ pc = "ready" /\ launched < MaxLaunches
    /\ launched' = launched + 1
    /\ script' = [script EXCEPT ![launched + 1] = "begun"]
    /\ pc' = "waiting"
    /\ UNCHANGED <<peer, old_pid, reply, fileVars, consumerVars, boundVars>>

\* The SSH command times out or fails: OSError, and another attempt.
LaunchLost ==
    /\ pc = "waiting" /\ lost < MaxLost /\ lost' = lost + 1
    /\ pc' = "ready"
    /\ UNCHANGED <<launched, peer, scriptVars, fileVars, consumerVars, occupied, faults>>

\* The script exits with a status other than 0.
LaunchFails ==
    /\ pc = "waiting" /\ script[launched] = "failed"
    /\ pc' = "ready"
    /\ UNCHANGED <<launched, peer, scriptVars, fileVars, consumerVars, boundVars>>

\* The producer connects to the consumer the printed file names.
Connect ==
    /\ pc = "waiting" /\ script[launched] = "replied"
    /\ LET n == reply[launched]
       IN  /\ consumer[n] = "listening"
           /\ consumer' = [consumer EXCEPT ![n] = "serving"]
           /\ peer' = n
    /\ pc' = "connected"
    /\ UNCHANGED <<launched, scriptVars, fileVars, port, size, boundVars>>

\* That consumer does not accept a connection any more.  Another one that waits at its
\* port finds that the producer's information is stale, and raises.
ConnectFails ==
    /\ pc = "waiting" /\ script[launched] = "replied"
    /\ consumer[reply[launched]] # "listening"
    /\ pc' = "ready"
    /\ consumer' = [n \in Launches |->
          IF consumer[n] = "listening" /\ port[n] = port[reply[launched]] THEN "comparing"
                                                                         ELSE consumer[n]]
    /\ UNCHANGED <<launched, peer, scriptVars, fileVars, port, size, boundVars>>

\* The connection fails or an acknowledgement is late: the producer closes its end
\* and launches again.
Disconnect ==
    /\ pc = "connected"
    /\ peer' = 0 /\ pc' = "ready"
    /\ UNCHANGED <<launched, scriptVars, fileVars, consumerVars, boundVars>>

Close ==
    /\ pc = "connected"
    /\ peer' = 0 /\ pc' = "closed"
    /\ UNCHANGED <<launched, scriptVars, fileVars, consumerVars, boundVars>>

-------------------------------------------------------------------------------
(* The remote script, _remote_command.                                     *)

Goes(n, from, to) == script[n] = from /\ script' = [script EXCEPT ![n] = to]

ReadOldPid(n) ==
    /\ Goes(n, "begun", "stopping")
    /\ old_pid' = [old_pid EXCEPT ![n] = pid_file]
    /\ UNCHANGED <<producerVars, reply, fileVars, consumerVars, boundVars>>

Stopped(n) == [consumer EXCEPT ![n] = "ended"]

\* Faulty variant: the old process is left alone.
StoppableNever(n) == FALSE
Stoppable(n) == old_pid[n] # 0 /\ Running(old_pid[n])

\* A running consumer is killed without any cleanup; SIGKILL follows SIGTERM.
StopOld(n) ==
    /\ Goes(n, "stopping", "removing")
    /\ consumer' = IF Stoppable(n) THEN Stopped(old_pid[n]) ELSE consumer
    /\ UNCHANGED <<producerVars, old_pid, reply, fileVars, port, size, boundVars>>

\* Faulty variant: the connection file is left in place.
RemovedNot == connection_file
Removed == 0

RemoveConnectionFile(n) ==
    /\ Goes(n, "removing", "starting")
    /\ connection_file' = Removed
    /\ UNCHANGED <<producerVars, old_pid, reply, pid_file, consumerVars, boundVars>>

StartConsumer(n) ==
    /\ Goes(n, "starting", "recording")
    /\ consumer' = [consumer EXCEPT ![n] = "starting"]
    /\ UNCHANGED <<producerVars, old_pid, reply, fileVars, port, size, boundVars>>

RecordPid(n) ==
    /\ Goes(n, "recording", "polling")
    /\ pid_file' = n
    /\ UNCHANGED <<producerVars, old_pid, reply, connection_file, consumerVars,
                   boundVars>>

PollFindsFile(n) ==
    /\ Goes(n, "polling", "printing") /\ connection_file # 0
    /\ UNCHANGED <<producerVars, old_pid, reply, fileVars, consumerVars, boundVars>>

\* cat of the file, which may have gone in between: then set -e ends the script.
PrintFile(n) ==
    /\ Goes(n, "printing", IF connection_file = 0 THEN "failed" ELSE "replied")
    /\ reply' = [reply EXCEPT ![n] = connection_file]
    /\ UNCHANGED <<producerVars, old_pid, fileVars, consumerVars, boundVars>>

\* Faulty variant: the script does not look at the consumer.
ExitedUnseen(n) == FALSE
Exited(n) == consumer[n] = "ended"

PollSeesExit(n) ==
    /\ Goes(n, "polling", "failed")
    /\ connection_file = 0 /\ Exited(n)
    /\ UNCHANGED <<producerVars, old_pid, reply, fileVars, consumerVars, boundVars>>

\* No connection file in time: a fault when the consumer was about to write it, and
\* what must happen when the file is gone.
PollGivesUp(n) ==
    /\ Goes(n, "polling", "failed")
    /\ connection_file = 0 /\ Running(n)
    /\ IF consumer[n] \in {"starting", "bound"} THEN Fault ELSE UNCHANGED faults
    /\ consumer' = Stopped(n)
    /\ UNCHANGED <<producerVars, old_pid, reply, fileVars, port, size, occupied, lost>>

-------------------------------------------------------------------------------
(* A consumer, main of mockConsumerSingleSocket.                           *)

Moves(n, from, to) == consumer[n] = from /\ consumer' = [consumer EXCEPT ![n] = to]

\* create_tcp_listener binds the first port that is free, or raises.
CreateListener(n) ==
    /\ IF Free = {}
         THEN Moves(n, "starting", "ended") /\ UNCHANGED port
         ELSE Moves(n, "starting", "bound") /\ port' = [port EXCEPT ![n] = Min(Free)]
    /\ UNCHANGED <<producerVars, scriptVars, fileVars, size, boundVars>>

\* Its address is published then.
WriteConnectionFile(n) ==
    /\ Moves(n, "bound", "listening")
    /\ connection_file' = n
    /\ UNCHANGED <<producerVars, scriptVars, pid_file, port, size, boundVars>>

ReceiveSnapshot(n) ==
    /\ Moves(n, "serving", "storing") /\ peer = n /\ size[n] < MaxSize
    /\ UNCHANGED <<producerVars, scriptVars, fileVars, port, size, boundVars>>

StoreSnapshot(n) ==
    /\ Moves(n, "storing", "serving")
    /\ size' = [size EXCEPT ![n] = @ + 1]
    /\ UNCHANGED <<producerVars, scriptVars, fileVars, port, boundVars>>

\* The end message, or the end of the connection.
ConnectionEnds(n) ==
    /\ Moves(n, "serving", "comparing") /\ peer # n
    /\ UNCHANGED <<producerVars, scriptVars, fileVars, port, size, boundVars>>

\* An exception: before the connection file is written there is nothing to remove.
ConsumerRaises(n) ==
    /\ Fault
    /\ \/ \E s \in {"starting", "bound"} : Moves(n, s, "ended")
       \/ \E s \in {"listening", "serving", "storing"} : Moves(n, s, "comparing")
    /\ UNCHANGED <<producerVars, scriptVars, fileVars, port, size, occupied, lost>>

\* Faulty variant: the file always seems to be another one.
UnchangedNever(n) == FALSE
Unchanged(n) == connection_file = n

\* remove_connection_file_if_unchanged: the file is read and compared ...
CompareFile(n) ==
    /\ Moves(n, "comparing", IF Unchanged(n) THEN "unlinking" ELSE "ended")
    /\ UNCHANGED <<producerVars, scriptVars, fileVars, port, size, boundVars>>

\* ... and then removed, whatever it is by then.
UnlinkFile(n) ==
    /\ Moves(n, "unlinking", "ended")
    /\ connection_file' = 0
    /\ UNCHANGED <<producerVars, scriptVars, pid_file, port, size, boundVars>>

-------------------------------------------------------------------------------

ScriptStep(n) ==
    \/ ReadOldPid(n) \/ StopOld(n) \/ RemoveConnectionFile(n) \/ StartConsumer(n)
    \/ RecordPid(n) \/ PollFindsFile(n) \/ PrintFile(n) \/ PollSeesExit(n)
    \/ PollGivesUp(n)
ConsumerStep(n) ==
    \/ CreateListener(n) \/ WriteConnectionFile(n) \/ StoreSnapshot(n)
    \/ ConnectionEnds(n) \/ CompareFile(n) \/ UnlinkFile(n)
ProducerStep == Launch \/ LaunchFails \/ Connect \/ ConnectFails

\* The producer's run is over, or the bound on launches is reached.
Done ==
    /\ pc = "closed" \/ (pc = "ready" /\ launched = MaxLaunches)
    /\ UNCHANGED vars

Next ==
    \/ ProducerStep \/ LaunchLost \/ Disconnect \/ Close \/ Done
    \/ \E n \in Launches : \/ ScriptStep(n) \/ ConsumerStep(n)
                           \/ ReceiveSnapshot(n) \/ ConsumerRaises(n)

\* Every process keeps running.
Fairness ==
    /\ WF_vars(ProducerStep)
    /\ \A n \in Launches : WF_vars(ScriptStep(n)) /\ WF_vars(ConsumerStep(n))

Spec == Init /\ [][Next]_vars
FairSpec == Spec /\ Fairness

-------------------------------------------------------------------------------
(* Safety: as long as no launch was given up with its script still running. *)

Serial == lost = 0

\* remote_consumer_io.py, SSHConsumerLauncher: "Start a detached remote process and
\* return its encrypted rendezvous."  The printed file is that of the consumer just
\* started, never one left by an earlier consumer.
OwnRendezvous == Serial => \A n \in Launches : script[n] = "replied" => reply[n] = n

\* A consumer removes only its own connection file although it may have been
\* replaced between the comparison and the removal.
RemovesOwnFile ==
    Serial => \A n \in Launches : consumer[n] = "unlinking" => connection_file \in {0, n}

\* README.md: "outputs from before the reconnect remain unchanged."  Once the producer
\* is connected to a consumer no other one stores anything.
OthersUnchanged == \A n \in Launches : peer \notin {0, n} => size'[n] = size[n]
OldOutputsKept == [][Serial => OthersUnchanged]_vars

-------------------------------------------------------------------------------
(* Also when launches are given up.                                        *)

\* _remote_command: the consumers alive are at most one and one more for each launch that
\* was given up; so a consumer finds a port unless there were as many of these as ports
\* that no other program listens at.
OrphansBounded ==
    /\ Cardinality({n \in Launches : Running(n)}) <= 1 + lost
    /\ \A n \in Launches :
          consumer[n] = "starting" /\ Free = {} => lost >= Cardinality((1 .. Ports) \ occupied)

\* A launch ends: by a reply or by a failure, and a script that waits is not waiting
\* for a consumer that has ended.
LaunchEnds == pc = "waiting" ~> pc # "waiting"

\* When the producer has closed, its consumer ends and takes its connection file with
\* it: no stale rendezvous is left to a later producer.
CloseCleansUp == pc = "closed" /\ Serial ~> connection_file = 0
===============================================================================
