---------------------------- MODULE SocketChannels ----------------------------
(***************************************************************************)
(* The three-socket version: SocketIO of socket_io.py, its consumer        *)
(* mockConsumerSockets.py, and the messages of socket_protocol.py.         *)
(*                                                                         *)
(* A snapshot travels in three parts over three connections to one port.   *)
(* Only the first part carries the snapshot's number: the consumer joins   *)
(* the parts because it reads the connections in turn.  Which connection   *)
(* carries which part is said in the hello message of each; nothing in it  *)
(* tells two producers apart that were given the same connection           *)
(* information.  A part is the number of its snapshot.                     *)
(*                                                                         *)
(* The kind of a producer is what it comes with: the consumer's connection *)
(* information, that of an earlier consumer, a private key that does not   *)
(* fit, or an address outside the allowed networks.                        *)
(***************************************************************************)
EXTENDS Integers, Sequences

CONSTANTS
    Producers,     \* the processes that connect
    Kinds,         \* the kinds among them
    Steps,         \* a producer writes at most the snapshots 0 .. Steps - 1
    Buffer,        \* messages a connection holds
    MaxFaults,     \* bound on crashes and broken connections
    End, None

ASSUME NumberAssumption == Steps \in Nat /\ Buffer \in Nat \ {0} /\ MaxFaults \in Nat
ASSUME KindAssumption == Kinds \subseteq {"valid", "stale", "keyless", "outside"}
ASSUME MarkAssumption == End \notin Int /\ None \notin Producers

VARIABLES
    \* the producers: the kind of each, where it is, the channel it is at, and the
    \* snapshots it has written
    kind, producer, channel, step,
    \* connections not accepted yet; the producer whose connection is being greeted
    \* and the channel its hello names, 0 before the hello
    backlog, guest, hello,
    \* the messages in transit, and the connections that broke
    stream, broken,
    \* the consumer: where it is, the producer at each channel, the channel it reads
    \* next, the parts it read, and the parts of each snapshot it stored
    consumer, by_variables, position, messages, stored,
    faults

producerVars == <<kind, producer, channel, step>>
greetingVars == <<backlog, guest, hello>>
streamVars   == <<stream, broken>>
readerVars   == <<position, messages, stored>>
consumerVars == <<consumer, by_variables, readerVars>>

vars == <<producerVars, greetingVars, streamVars, consumerVars, faults>>

Channels == 1 .. 3

Init ==
    /\ kind \in [Producers -> Kinds]
    /\ producer = [p \in Producers |-> "connect"]
    /\ channel = [p \in Producers |-> 1] /\ step = [p \in Producers |-> 0]
    /\ backlog = <<>> /\ guest = None /\ hello = 0
    /\ stream = [p \in Producers |-> [k \in Channels |-> <<>>]]
    /\ broken = [p \in Producers |-> [k \in Channels |-> FALSE]]
    /\ consumer = "accepting" /\ by_variables = [k \in Channels |-> None]
    /\ position = 1 /\ messages = [k \in Channels |-> 0] /\ stored = <<>>
    /\ faults = 0

Fault == faults < MaxFaults /\ faults' = faults + 1

Over == consumer \in {"finished", "raised"}

\* After its last channel a producer is at state s, before it at the next channel.
NextChannel(p, s) ==
    IF channel[p] = 3
      THEN producer' = [producer EXCEPT ![p] = s] /\ UNCHANGED channel
      ELSE channel' = [channel EXCEPT ![p] = @ + 1] /\ UNCHANGED producer

-------------------------------------------------------------------------------
(* The producer.                                                           *)

\* The listener is open until the consumer is over: the connection is made whether or
\* not the consumer will accept it.
Connect(p) ==
    /\ producer[p] = "connect" /\ ~Over
    /\ backlog' = Append(backlog, p)
    /\ producer' = [producer EXCEPT ![p] = "prove"]
    /\ UNCHANGED <<kind, channel, step, guest, hello, streamVars, consumerVars, faults>>

\* The challenge is answered and hello sent; only then the next connection is made.
Prove(p) ==
    /\ producer[p] = "prove" /\ guest = p /\ hello = 0 /\ kind[p] # "keyless"
    /\ hello' = channel[p]
    /\ IF channel[p] = 3
         THEN producer' = [producer EXCEPT ![p] = "idle"] /\ UNCHANGED channel
         ELSE /\ producer' = [producer EXCEPT ![p] = "connect"]
              /\ channel' = [channel EXCEPT ![p] = @ + 1]
    /\ UNCHANGED <<kind, step, backlog, guest, streamVars, consumerVars, faults>>

\* The challenge cannot be answered, or the consumer closed the connection: the
\* constructor closes its connections and raises.
Unanswerable(p) == producer[p] = "prove" /\ guest = p /\ kind[p] = "keyless"
ConnectFails(p) ==
    /\ \/ Unanswerable(p) \/ producer[p] = "refused"
       \/ producer[p] \in {"connect", "prove"} /\ Over
    /\ producer' = [producer EXCEPT ![p] = "ended"]
    /\ UNCHANGED <<kind, channel, step, greetingVars, streamVars, consumerVars, faults>>

Write(p) ==
    /\ producer[p] = "idle" /\ step[p] < Steps
    /\ producer' = [producer EXCEPT ![p] = "send"]
    /\ channel' = [channel EXCEPT ![p] = 1]
    /\ UNCHANGED <<kind, step, greetingVars, streamVars, consumerVars, faults>>

\* A message goes to the channel p is at; on a broken connection it is lost.
Put(p, message) ==
    /\ Len(stream[p][channel[p]]) < Buffer
    /\ stream' = IF broken[p][channel[p]] THEN stream
                 ELSE [stream EXCEPT ![p][channel[p]] = Append(@, message)]

SendPart(p) ==
    /\ producer[p] = "send" /\ Put(p, step[p]) /\ NextChannel(p, "idle")
    /\ step' = [step EXCEPT ![p] = @ + IF channel[p] = 3 THEN 1 ELSE 0]
    /\ UNCHANGED <<kind, greetingVars, broken, consumerVars, faults>>

\* Faulty variant: the end of the consumer is not noticed.
UnreachableIfBroken(p) == broken[p][channel[p]]

Unreachable(p) == Over \/ broken[p][channel[p]]

\* write_data raises with some parts sent, on a connection that ended or an array that
\* cannot be encoded: BufferedIO writes nothing any more.
SendFails(p) ==
    /\ producer[p] = "send"
    /\ producer' = [producer EXCEPT ![p] = "failed"]
    /\ UNCHANGED <<kind, channel, step, greetingVars, streamVars, consumerVars>>
    /\ IF Unreachable(p) THEN UNCHANGED faults ELSE Fault

\* close(), after the last snapshot, an interruption or a failure.
Close(p) ==
    /\ producer[p] \in {"idle", "failed"}
    /\ producer' = [producer EXCEPT ![p] = "closing"]
    /\ channel' = [channel EXCEPT ![p] = 1]
    /\ UNCHANGED <<kind, step, greetingVars, streamVars, consumerVars, faults>>

\* Each channel that can take one gets an end message; then all are closed.
SendEnd(p) ==
    /\ producer[p] = "closing"
    /\ IF Unreachable(p) THEN UNCHANGED stream ELSE Put(p, End)
    /\ NextChannel(p, "ended")
    /\ UNCHANGED <<kind, step, greetingVars, broken, consumerVars, faults>>

-------------------------------------------------------------------------------
(* The consumer: accept_connections.                                       *)

Accept ==
    /\ consumer = "accepting" /\ backlog # <<>> /\ kind[Head(backlog)] # "outside"
    /\ guest' = Head(backlog) /\ backlog' = Tail(backlog) /\ hello' = 0
    /\ consumer' = "greeting"
    /\ UNCHANGED <<producerVars, streamVars, by_variables, readerVars, faults>>

\* accept_from_allowed_network closes other connections silently and accepts the next.
Refuse ==
    /\ consumer = "accepting" /\ backlog # <<>> /\ kind[Head(backlog)] = "outside"
    /\ backlog' = Tail(backlog)
    /\ producer' = [producer EXCEPT ![Head(backlog)] = IF @ = "prove" THEN "refused" ELSE @]
    /\ UNCHANGED <<kind, channel, step, guest, hello, streamVars, consumerVars, faults>>

\* Faulty variant: the later hello of a channel replaces the earlier one.
WelcomeReplacing == kind[guest] = "valid"

\* The current consumer id, and a channel nobody has yet.
Welcome == kind[guest] = "valid" /\ by_variables[hello] = None

Greeted ==
    /\ consumer = "greeting" /\ hello # 0 /\ Welcome
    /\ by_variables' = [by_variables EXCEPT ![hello] = guest]
    /\ consumer' = IF None \in {by_variables'[k] : k \in Channels} THEN "accepting"
                                                                   ELSE "reading"
    /\ guest' = None
    /\ UNCHANGED <<producerVars, backlog, hello, streamVars, readerVars, faults>>

\* A stale or repeated hello, or a peer that is gone, ends the consumer.
GreetingFails ==
    /\ consumer = "greeting"
    /\ IF hello # 0 THEN ~Welcome ELSE producer[guest] = "ended"
    /\ consumer' = "raised" /\ guest' = None
    /\ UNCHANGED <<producerVars, backlog, hello, streamVars, by_variables, readerVars,
                   faults>>

-------------------------------------------------------------------------------
(* The consumer: receive_steps.                                            *)

Peer == by_variables[position]

\* One message of the channel in turn; after the last one all are looked at.
ReadMessage ==
    /\ consumer = "reading" /\ stream[Peer][position] # <<>>
    /\ messages' = [messages EXCEPT ![position] = Head(stream[Peer][position])]
    /\ stream' = [stream EXCEPT ![Peer][position] = Tail(@)]
    /\ IF position = 3 THEN consumer' = "joining" /\ position' = 1
                       ELSE position' = position + 1 /\ UNCHANGED consumer
    /\ UNCHANGED <<producerVars, greetingVars, broken, by_variables, stored, faults>>

\* Faulty variant: the end of a connection is taken for the end of the run.
FailedQuietly == "finished"
Failed == "raised"

\* The connection ends inside a message or between two.
ReadFails ==
    /\ consumer = "reading" /\ stream[Peer][position] = <<>>
    /\ producer[Peer] = "ended" \/ broken[Peer][position]
    /\ consumer' = Failed
    /\ UNCHANGED <<producerVars, greetingVars, streamVars, by_variables, readerVars, faults>>

AllEnded == \A k \in Channels : messages[k] = End

\* Faulty variant: it is not looked for.
SomeEndedIgnored == AllEnded

\* "Socket channels ended at different times"
SomeEnded == \E k \in Channels : messages[k] = End

Finish ==
    /\ consumer = "joining" /\ AllEnded
    /\ consumer' = "finished"
    /\ UNCHANGED <<producerVars, greetingVars, streamVars, by_variables, readerVars, faults>>

\* That, or the output fails.
JoinFails ==
    /\ consumer = "joining" /\ ~AllEnded
    /\ IF SomeEnded THEN UNCHANGED faults ELSE Fault
    /\ consumer' = "raised"
    /\ UNCHANGED <<producerVars, greetingVars, streamVars, by_variables, readerVars>>

\* The parts are joined into one snapshot and written.
Store ==
    /\ consumer = "joining" /\ ~SomeEnded
    /\ stored' = Append(stored, messages)
    /\ consumer' = "reading"
    /\ UNCHANGED <<producerVars, greetingVars, streamVars, by_variables, position, messages,
                   faults>>

-------------------------------------------------------------------------------
(* Faults.                                                                 *)

\* A producer is killed: what it has sent can still be read.
ProducerCrash(p) ==
    /\ producer[p] # "ended" /\ Fault
    /\ producer' = [producer EXCEPT ![p] = "ended"]
    /\ UNCHANGED <<kind, channel, step, greetingVars, streamVars, consumerVars>>

ConsumerCrash ==
    /\ ~Over /\ Fault
    /\ consumer' = "raised"
    /\ UNCHANGED <<producerVars, greetingVars, streamVars, by_variables, readerVars>>

\* One of the connections breaks, the others do not; the end of its messages is lost.
Break(p, k) ==
    /\ \E c \in Channels : by_variables[c] = p
    /\ ~broken[p][k] /\ Fault
    /\ broken' = [broken EXCEPT ![p][k] = TRUE]
    /\ \E n \in 0 .. Len(stream[p][k]) :
          stream' = [stream EXCEPT ![p][k] = SubSeq(@, 1, n)]
    /\ UNCHANGED <<producerVars, greetingVars, consumerVars>>

-------------------------------------------------------------------------------

ProducerStep(p) ==
    \/ Connect(p) \/ Prove(p) \/ ConnectFails(p) \/ Write(p) \/ SendPart(p)
    \/ (Unreachable(p) /\ SendFails(p))
    \/ Close(p) \/ SendEnd(p)
ConsumerStep ==
    \/ Accept \/ Refuse \/ Greeted \/ GreetingFails
    \/ ReadMessage \/ ReadFails \/ Finish \/ JoinFails \/ Store

\* Nothing is left to do, or the consumer waits for a connection nobody will make.
Waiting == consumer = "accepting" /\ backlog = <<>>
Done ==
    /\ \A p \in Producers : producer[p] = "ended"
    /\ Over \/ Waiting
    /\ UNCHANGED vars

Next ==
    \/ \E p \in Producers : \/ ProducerStep(p) \/ SendFails(p) \/ ProducerCrash(p)
                            \/ \E k \in Channels : Break(p, k)
    \/ ConsumerStep \/ ConsumerCrash \/ Done

\* Every process keeps running.
Fairness == WF_vars(ConsumerStep) /\ \A p \in Producers : WF_vars(ProducerStep(p))

Spec == Init /\ [][Next]_vars
FairSpec == Spec /\ Fairness

-------------------------------------------------------------------------------
(* Safety.                                                                 *)

\* accept_connections: the three channels of a consumer belong to one producer, and to
\* one with its key and its id, however the connections of several interleave.
OneProducer ==
    \A j, k \in Channels :
       by_variables[j] # None /\ by_variables[k] # None =>
          by_variables[j] = by_variables[k] /\ kind[by_variables[j]] = "valid"

\* receive_steps: what is stored is a prefix of the run, and no snapshot is joined from
\* parts of two, although writes fail between two parts and single connections break.
WholeSteps ==
    \A i \in 1 .. Len(stored) : \A k \in Channels : stored[i][k] = i - 1

\* receive_steps: a consumer that ends without an exception has stored every snapshot
\* that was written.
CleanEndComplete ==
    consumer = "finished" => Len(stored) = step[by_variables[1]]

-------------------------------------------------------------------------------
(* Liveness, under FairSpec.                                               *)

\* The connections have no timeout; still every producer ends, also one in the backlog
\* of a consumer that serves another, and so does the consumer, unless a process died or
\* no producer was valid: then it may wait in accept() for a connection nobody makes.
EveryoneEnds ==
    <>(/\ \A p \in Producers : producer[p] = "ended"
       /\ \/ Over
          \/ Waiting /\ (faults > 0 \/ \A p \in Producers : kind[p] # "valid"))
===============================================================================
