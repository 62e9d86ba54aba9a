---------------------------- MODULE SocketProtocol ----------------------------
(***************************************************************************)
(* The framing of socket_protocol.py: send_arrays and send_end on one side *)
(* of a connection, receive_message on the other.                          *)
(*                                                                         *)
(* A message is the length of a header, the header, and the payload of     *)
(* each array it describes, all of them bytes on one stream.  sendall      *)
(* hands them over piece by piece and recv_into returns whatever has       *)
(* arrived, so that a piece may end anywhere in a message.  A payload is   *)
(* the array itself or, when that is shorter, its encoding.                *)
(*                                                                         *)
(* Bytes are counted in larger units: one for the length, HeaderUnits for  *)
(* the header.  A unit says which unit of which part of which message it   *)
(* is; the receiver looks only at what units mean, never where they        *)
(* belong.                                                                 *)
(***************************************************************************)
EXTENDS Integers, Sequences

CONSTANTS
    Messages,      \* bound on the data messages sent
    Arrays,        \* arrays in each
    Sizes,         \* sizes an array may have
    Encodes,       \* whether a data operation is configured
    HeaderUnits,   \* size of a header
    Buffer,        \* units that fit between sendall and recv_into
    End, Garbage

ASSUME NumberAssumption ==
    /\ Messages \in Nat /\ {Arrays, HeaderUnits, Buffer} \subseteq Nat \ {0}
    /\ Sizes \subseteq Nat \ {0} /\ Encodes \in BOOLEAN
ASSUME MarkAssumption == End \notin Int

VARIABLES
    \* the sender: what it does, the messages it began, the header of the latest, the
    \* part of it that sendall was called for last and the units that has left
    sender, sent, outgoing, part, unsent,
    \* the connection
    wire, broken,
    \* the receiver: what _recv_exact is called for, for how many units and those it
    \* has; the header read; the arrays of this message; the messages returned
    receiver, size, data, header, variables, received

senderVars   == <<sender, sent, outgoing, part, unsent>>
wireVars     == <<wire, broken>>
messageVars  == <<header, variables>>
receiverVars == <<receiver, size, data, messageVars, received>>

vars == <<senderVars, wireVars, receiverVars>>

-------------------------------------------------------------------------------
(* Messages as units.                                                      *)

\* How an array of n units is described: encoded when that is shorter, or raw.
EncodedDescriptions(n) ==
    IF Encodes THEN {[nbytes |-> n, payload_nbytes |-> p, operation |-> TRUE] : p \in 1 .. n - 1}
               ELSE {}

Descriptions(n) ==
    EncodedDescriptions(n) \cup {[nbytes |-> n, payload_nbytes |-> n, operation |-> FALSE]}

AllDescriptions == UNION {Descriptions(n) : n \in Sizes}

DataHeaders == [type : {"data"}, variables : [1 .. Arrays -> AllDescriptions]]
EndHeader == [type |-> "end", variables |-> <<>>]
Headers == DataHeaders \cup {EndHeader}

ASSUME GarbageAssumption == Garbage \notin Headers

\* The parts of a message, each handed to one sendall: 0 is the length, 1 the header and
\* 1 + a the payload of array a.
LastPart(h) == 1 + Len(h.variables)
PartSize(h, k) ==
    CASE k = 0 -> 1 [] k = 1 -> HeaderUnits [] OTHER -> h.variables[k - 1].payload_nbytes

Unit(m, h, k, i) == [message |-> m, header |-> h, part |-> k, index |-> i]
Part(m, h, k) == [i \in 1 .. PartSize(h, k) |-> Unit(m, h, k, i)]

Init ==
    /\ sender = "idle" /\ sent = 0 /\ outgoing = EndHeader /\ part = 0 /\ unsent = <<>>
    /\ wire = <<>> /\ broken = FALSE
    /\ receiver = "length" /\ size = 1 /\ data = <<>>
    /\ header = EndHeader /\ variables = <<>> /\ received = <<>>

-------------------------------------------------------------------------------
(* The sender.                                                             *)

\* Faulty variant: the payloads are sent in another order than described.
SendPartSwapped(k) ==
    /\ part' = k
    /\ unsent' = Part(sent', outgoing', IF k < 2 THEN k ELSE Arrays + 3 - k)

\* sendall is called for part k.
SendPart(k) == part' = k /\ unsent' = Part(sent', outgoing', k)

SendHeader(h) ==
    /\ sender = "idle" /\ sender' = "sending"
    /\ sent' = sent + 1 /\ outgoing' = h /\ SendPart(0)
    /\ UNCHANGED <<wireVars, receiverVars>>

SendArrays == sent < Messages /\ \E h \in DataHeaders : SendHeader(h)

\* close() of the output: the end message, then the connection is closed.
SendEnd == SendHeader(EndHeader)

\* A piece of what sendall has left; what is sent on a broken connection is lost.
SendAll ==
    /\ unsent # <<>>
    /\ \E n \in 1 .. Len(unsent) :
          /\ Len(wire) + n <= Buffer
          /\ wire' = IF broken THEN wire ELSE wire \o SubSeq(unsent, 1, n)
          /\ unsent' = SubSeq(unsent, n + 1, Len(unsent))
    /\ UNCHANGED <<sender, sent, outgoing, part, broken, receiverVars>>

\* sendall returned: there is another part, or the message is complete.
SendNext ==
    /\ sender = "sending" /\ unsent = <<>> /\ part < LastPart(outgoing)
    /\ UNCHANGED <<sender, sent, outgoing, wireVars, receiverVars>>
    /\ SendPart(part + 1)

SendReturns ==
    /\ sender = "sending" /\ unsent = <<>> /\ part = LastPart(outgoing)
    /\ sender' = IF outgoing = EndHeader THEN "closed" ELSE "idle"
    /\ UNCHANGED <<sent, outgoing, part, unsent, wireVars, receiverVars>>

\* sendall times out or finds the connection broken, with any part of the message
\* sent: the connection is closed without an end message, or after one that the broken
\* connection loses.
SendFails ==
    /\ sender = "sending"
    /\ sender' = "aborted" /\ unsent' = <<>>
    /\ UNCHANGED <<sent, outgoing, part, wireVars, receiverVars>>

\* The acknowledgement times out, or the process ends.
Abort ==
    /\ sender = "idle" /\ sender' = "aborted"
    /\ UNCHANGED <<sent, outgoing, part, unsent, wireVars, receiverVars>>

-------------------------------------------------------------------------------
(* The connection.                                                         *)

\* The latest units are lost, and so is what follows.
Break ==
    /\ ~broken /\ broken' = TRUE
    /\ \E n \in 0 .. Len(wire) : wire' = SubSeq(wire, 1, n)
    /\ UNCHANGED <<senderVars, receiverVars>>

-------------------------------------------------------------------------------
(* The receiver.                                                           *)

Receiving == receiver \in {"length", "header", "payload"}

\* _recv_exact goes on to read n units for r.
ReadsNext(r, n) == receiver' = r /\ size' = n /\ data' = <<>>

RecvInto ==
    /\ Receiving /\ Len(data) < size
    /\ \E n \in 1 .. Len(wire) :
          /\ n <= size - Len(data)
          /\ data' = data \o SubSeq(wire, 1, n) /\ wire' = SubSeq(wire, n + 1, Len(wire))
    /\ UNCHANGED <<senderVars, broken, receiver, size, messageVars, received>>

Raises ==
    /\ receiver' = "raised"
    /\ UNCHANGED <<senderVars, wireVars, size, data, messageVars, received>>

\* "Socket closed in the middle of a message", or between two.
RecvEnds ==
    /\ Receiving /\ Len(data) < size
    /\ wire = <<>> /\ (broken \/ sender \in {"closed", "aborted"})
    /\ Raises

Returned(r) == receiver = r /\ Len(data) = size

\* What the unit of a length says.  Faulty variant: it counts its own unit.
LengthBeyond(unit) == PartSize(unit.header, 1) + 1
Length(unit) == PartSize(unit.header, 1)

ReadLength ==
    /\ Returned("length")
    /\ IF data[1].part = 0
         THEN /\ ReadsNext("header", Length(data[1]))
              /\ UNCHANGED <<senderVars, wireVars, messageVars, received>>
         ELSE Raises

\* The header that the units decode to; anything but a whole header is not JSON.
Header ==
    IF data = Part(data[1].message, data[1].header, 1) THEN data[1].header ELSE Garbage

\* An array that is not encoded is as long as its shape says.
ValidSize(d) == d.operation \/ d.payload_nbytes = d.nbytes

ReadHeaderEnd ==
    /\ Returned("header") /\ Header = EndHeader
    /\ receiver' = "finished"
    /\ UNCHANGED <<senderVars, wireVars, size, data, messageVars, received>>

ReadHeaderData ==
    /\ Returned("header") /\ Header # EndHeader
    /\ IF Header # Garbage /\ ValidSize(Header.variables[1])
         THEN /\ ReadsNext("payload", Header.variables[1].payload_nbytes)
              /\ header' = Header /\ variables' = <<>>
              /\ UNCHANGED <<senderVars, wireVars, received>>
         ELSE Raises

\* The array reconstructed from a payload: raw bytes are taken as they are, an encoding
\* yields its array only when it is whole.
Array(units) ==
    LET u == units[1]
    IN  IF u.part > 1 /\ units = Part(u.message, u.header, u.part)
          THEN <<u.message, u.part - 1>> ELSE Garbage

ReadPayload ==
    /\ Returned("payload")
    /\ LET all == Append(variables, Array(data))
       IN  IF Len(all) = Len(header.variables)
             THEN /\ received' = Append(received, all)
                  /\ variables' = <<>> /\ header' = EndHeader /\ ReadsNext("length", 1)
             ELSE /\ variables' = all
                  /\ IF ValidSize(header.variables[Len(all) + 1])
                       THEN ReadsNext("payload", header.variables[Len(all) + 1].payload_nbytes)
                       ELSE receiver' = "raised" /\ UNCHANGED <<size, data>>
                  /\ UNCHANGED <<header, received>>
    /\ UNCHANGED <<senderVars, wireVars>>

-------------------------------------------------------------------------------

SenderStep == SendAll \/ SendNext \/ SendReturns
ReceiverStep ==
    \/ RecvInto \/ RecvEnds \/ ReadLength \/ ReadHeaderEnd \/ ReadHeaderData
    \/ ReadPayload

Done == sender \in {"closed", "aborted"} /\ ~Receiving /\ UNCHANGED vars

Next ==
    \/ SendArrays \/ SendEnd \/ SenderStep \/ SendFails \/ Abort \/ Break \/ ReceiverStep
    \/ Done

\* A sendall that was called goes on, and the receiver reads what arrives.
Fairness == WF_vars(SenderStep) /\ WF_vars(ReceiverStep)

Spec == Init /\ [][Next]_vars
FairSpec == Spec /\ Fairness

-------------------------------------------------------------------------------

\* However the bytes are cut into pieces and wherever the connection ends, a message is
\* returned whole, in order, each array from its own payload, or not at all.
ReceivedWhole ==
    \A m \in 1 .. Len(received) : received[m] = [a \in 1 .. Arrays |-> <<m, a>>]

-------------------------------------------------------------------------------
(* The framed stream is a channel of messages: a message is in it once its *)
(* last unit has been sent, and half a message is no message at all.       *)

MessageOf(m) == IF m = sent /\ outgoing = EndHeader THEN End ELSE m

\* How many messages have been returned, and how many of those sent are complete in front
\* of where the units on their way end.
Got == Len(received) + IF receiver = "finished" THEN 1 ELSE 0
EndsMessage(u) == u.part = LastPart(u.header) /\ u.index = PartSize(u.header, u.part)
Complete(u) == IF EndsMessage(u) THEN u.message ELSE u.message - 1
Through ==
    LET arriving == data \o wire
    IN  IF arriving = <<>> THEN Got ELSE Complete(arriving[Len(arriving)])

Channel == INSTANCE MessageChannel WITH
    Message  <- (1 .. Messages) \cup {End},
    stream   <- [i \in 1 .. Through - Got |-> MessageOf(Got + i)],
    received <- [m \in 1 .. Got |-> MessageOf(m)],
    open     <- ~broken /\ sender \notin {"closed", "aborted"}

\* receive_message implements the message channel of SocketChannels and RestartingIO: in
\* order, each message once, the latest ones lost when the connection fails, and every
\* message that has come through is returned.
ImplementsMessages == Channel!FairSpec
===============================================================================
