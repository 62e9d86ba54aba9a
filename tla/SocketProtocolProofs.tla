------------------------- MODULE SocketProtocolProofs -------------------------
(***************************************************************************)
(* Proofs about SocketProtocol, for any number of messages and arrays, any *)
(* sizes, any size of the header and of the connection's buffer.           *)
(*                                                                         *)
(* What is on its way (InFlight: what the receiver has of the part it      *)
(* reads, what the connection holds, what sendall has left) is one run of  *)
(* units (Flow): each part whole but the first and the last, the parts of  *)
(* a message in order, one message after the other.  It begins where the   *)
(* receiver expects (Begins) and, while the sender goes on, ends where it  *)
(* continues (Continued).  So a piece may end anywhere: when the receiver  *)
(* has as many units as it reads they are a whole part, and the right one. *)
(***************************************************************************)
EXTENDS SocketProtocol, SequenceTheorems, TLAPS

-------------------------------------------------------------------------------
(* Headers, parts and units.                                               *)

LEMMA DescriptionFacts ==
    ASSUME NEW d \in AllDescriptions
    PROVE  d.payload_nbytes \in Nat \ {0} /\ ValidSize(d)
  <1>1. PICK n \in Sizes : d \in Descriptions(n)
    BY DEF AllDescriptions
  <1>2. n \in Nat \ {0}
    BY NumberAssumption
  <1>3. CASE d \in EncodedDescriptions(n)
    <2>1. PICK p \in 1 .. n - 1 : d = [nbytes |-> n, payload_nbytes |-> p, operation |-> TRUE]
      BY <1>3 DEF EncodedDescriptions
    <2>2. d.payload_nbytes = p /\ d.operation
      BY <2>1
    <2>3. p \in Nat \ {0}
      BY <1>2
    <2>4. QED
      BY <2>2, <2>3 DEF ValidSize
  <1>4. CASE d = [nbytes |-> n, payload_nbytes |-> n, operation |-> FALSE]
    BY <1>2, <1>4 DEF ValidSize
  <1>5. QED
    BY <1>1, <1>3, <1>4 DEF Descriptions

LEMMA HeaderFacts ==
    /\ EndHeader \in Headers /\ EndHeader \notin DataHeaders /\ LastPart(EndHeader) = 1
    /\ DataHeaders \subseteq Headers
    /\ \A h \in DataHeaders :
          /\ Len(h.variables) = Arrays /\ LastPart(h) = 1 + Arrays
          /\ \A a \in 1 .. Arrays : h.variables[a] \in AllDescriptions
    /\ Arrays \in Nat \ {0} /\ HeaderUnits \in Nat \ {0}
  <1>1. Arrays \in Nat \ {0} /\ HeaderUnits \in Nat \ {0}
    BY NumberAssumption
  <1>2. LastPart(EndHeader) = 1 /\ EndHeader.type = "end"
    BY DEF LastPart, EndHeader
  <1>3. ASSUME NEW h \in DataHeaders
        PROVE  /\ h.type = "data" /\ Len(h.variables) = Arrays /\ LastPart(h) = 1 + Arrays
               /\ \A a \in 1 .. Arrays : h.variables[a] \in AllDescriptions
    <2>1. h.type = "data" /\ h.variables \in [1 .. Arrays -> AllDescriptions]
      BY DEF DataHeaders
    <2>2. Len(h.variables) = Arrays
      BY <1>1, <2>1
    <2>3. QED
      BY <2>1, <2>2 DEF LastPart
  <1>4. QED
    BY <1>1, <1>2, <1>3 DEF Headers

LEMMA PartFacts ==
    ASSUME NEW h \in Headers
    PROVE  /\ LastPart(h) \in Nat \ {0} /\ PartSize(h, 0) = 1 /\ PartSize(h, 1) = HeaderUnits
           /\ \A k \in 0 .. LastPart(h) : PartSize(h, k) \in Nat \ {0}
  <1>1. LastPart(h) \in Nat \ {0}
    BY HeaderFacts DEF Headers
  <1>2. PartSize(h, 0) = 1 /\ PartSize(h, 1) = HeaderUnits /\ HeaderUnits \in Nat \ {0}
    BY HeaderFacts DEF PartSize
  <1>3. ASSUME NEW k \in 0 .. LastPart(h), k # 0, k # 1
        PROVE  PartSize(h, k) \in Nat \ {0}
    <2>1. h \in DataHeaders
      BY <1>3, HeaderFacts DEF Headers
    <2>2. k - 1 \in 1 .. Arrays
      BY <1>1, <1>3, <2>1, HeaderFacts
    <2>3. h.variables[k - 1].payload_nbytes \in Nat \ {0}
      BY <2>1, <2>2, HeaderFacts, DescriptionFacts
    <2>4. QED
      BY <1>3, <2>3 DEF PartSize
  <1>4. QED
    BY <1>1, <1>2, <1>3

Units == [message : Nat \ {0}, header : Headers, part : Nat, index : Nat \ {0}]

Fits(u) == u.part <= LastPart(u.header) /\ u.index <= PartSize(u.header, u.part)

EndsPart(u) == u.index = PartSize(u.header, u.part)

LEMMA UnitFacts ==
    ASSUME NEW u \in Units
    PROVE  /\ u.message \in Nat \ {0} /\ u.header \in Headers /\ u.part \in Nat
           /\ u.index \in Nat \ {0}
           /\ u = Unit(u.message, u.header, u.part, u.index)
           /\ Fits(u) => PartSize(u.header, u.part) \in Nat \ {0}
  <1>1. /\ u.message \in Nat \ {0} /\ u.header \in Headers /\ u.part \in Nat
        /\ u.index \in Nat \ {0} /\ u = Unit(u.message, u.header, u.part, u.index)
    BY DEF Units, Unit
  <1>2. Fits(u) => u.part \in 0 .. LastPart(u.header)
    BY <1>1, PartFacts DEF Fits
  <1>3. QED
    BY <1>1, <1>2, PartFacts

LEMMA PartIsUnits ==
    ASSUME NEW m \in Nat \ {0}, NEW h \in Headers, NEW k \in 0 .. LastPart(h)
    PROVE  /\ Part(m, h, k) \in Seq(Units) /\ Len(Part(m, h, k)) = PartSize(h, k)
           /\ PartSize(h, k) \in Nat \ {0}
           /\ \A i \in 1 .. PartSize(h, k) :
                 /\ Part(m, h, k)[i] = Unit(m, h, k, i)
                 /\ Unit(m, h, k, i).message = m /\ Unit(m, h, k, i).header = h
                 /\ Unit(m, h, k, i).part = k /\ Unit(m, h, k, i).index = i
                 /\ Fits(Unit(m, h, k, i))
  <1>1. PartSize(h, k) \in Nat \ {0} /\ k \in Nat /\ k <= LastPart(h)
    BY PartFacts
  <1>2. ASSUME NEW i \in 1 .. PartSize(h, k)
        PROVE  /\ Unit(m, h, k, i) \in Units
               /\ Unit(m, h, k, i).message = m /\ Unit(m, h, k, i).header = h
               /\ Unit(m, h, k, i).part = k /\ Unit(m, h, k, i).index = i
               /\ Fits(Unit(m, h, k, i))
    BY <1>1 DEF Unit, Units, Fits
  <1>3. Part(m, h, k) \in [1 .. PartSize(h, k) -> Units]
    BY <1>1, <1>2 DEF Part
  <1>4. Part(m, h, k) \in Seq(Units) /\ Len(Part(m, h, k)) = PartSize(h, k)
    BY <1>1, <1>3
  <1>5. QED
    BY <1>1, <1>2, <1>4 DEF Part

-------------------------------------------------------------------------------
(* Runs of units.                                                          *)

\* v is the unit after u.
Follows(u, v) ==
    IF EndsPart(u)
      THEN /\ v.index = 1
           /\ IF u.part = LastPart(u.header)
                THEN v.message = u.message + 1 /\ v.part = 0
                ELSE v.message = u.message /\ v.header = u.header /\ v.part = u.part + 1
      ELSE v = Unit(u.message, u.header, u.part, u.index + 1)

\* Within a part every unit has its place, and parts follow each other.
InPart(s) ==
    \A i, j \in 1 .. Len(s) :
       i <= j /\ s[i].index + (j - i) <= PartSize(s[i].header, s[i].part)
          => s[j] = Unit(s[i].message, s[i].header, s[i].part, s[i].index + (j - i))
AcrossParts(s) == \A i \in 1 .. Len(s) - 1 : EndsPart(s[i]) => Follows(s[i], s[i + 1])
Ascending(s) == \A i, j \in 1 .. Len(s) : i <= j => s[i].message <= s[j].message

Flow(s) ==
    /\ s \in Seq(Units) /\ \A i \in 1 .. Len(s) : Fits(s[i])
    /\ InPart(s) /\ AcrossParts(s) /\ Ascending(s)

\* A run stays one when units are taken from either end.
LEMMA SliceFlows ==
    ASSUME NEW s, Flow(s), NEW t \in Seq(Units), NEW k \in Nat, Len(t) + k <= Len(s),
           \A i \in 1 .. Len(t) : t[i] = s[k + i]
    PROVE  Flow(t)
  <1>1. Len(s) \in Nat /\ Len(t) \in Nat
    BY LenProperties DEF Flow
  <1>2. \A i \in 1 .. Len(t) : k + i \in 1 .. Len(s) /\ k + i \in Nat /\ t[i] = s[k + i]
    BY <1>1
  <1>3. \A i \in 1 .. Len(t) : Fits(t[i])
    BY <1>2 DEF Flow
  <1>4. Ascending(t)
    <2>1. ASSUME NEW i \in 1 .. Len(t), NEW j \in 1 .. Len(t), i <= j
          PROVE  t[i].message <= t[j].message
      <3>1. k + i <= k + j /\ k + i \in 1 .. Len(s) /\ k + j \in 1 .. Len(s)
        BY <1>1, <2>1
      <3>2. s[k + i].message <= s[k + j].message
        BY <3>1 DEF Flow, Ascending
      <3>3. QED
        BY <1>2, <3>2
    <2>2. QED
      BY <2>1 DEF Ascending
  <1>5. InPart(t)
    <2>1. ASSUME NEW i \in 1 .. Len(t), NEW j \in 1 .. Len(t), i <= j,
                 t[i].index + (j - i) <= PartSize(t[i].header, t[i].part)
          PROVE  t[j] = Unit(t[i].message, t[i].header, t[i].part, t[i].index + (j - i))
      <3>1. (k + j) - (k + i) = j - i /\ k + i <= k + j
        BY <1>1, <2>1
      <3>2. s[k + i].index + ((k + j) - (k + i)) <= PartSize(s[k + i].header, s[k + i].part)
        BY <1>2, <2>1, <3>1
      <3>3. s[k + j] = Unit(s[k + i].message, s[k + i].header, s[k + i].part,
                            s[k + i].index + ((k + j) - (k + i)))
        BY <1>2, <3>1, <3>2 DEF Flow, InPart
      <3>4. QED
        BY <1>2, <3>1, <3>3
    <2>2. QED
      BY <2>1 DEF InPart
  <1>6. AcrossParts(t)
    <2>1. ASSUME NEW i \in 1 .. Len(t) - 1, EndsPart(t[i]) PROVE Follows(t[i], t[i + 1])
      <3>1. i \in 1 .. Len(t) /\ i + 1 \in 1 .. Len(t) /\ (k + i) + 1 = k + (i + 1)
        BY <1>1
      <3>2. k + i \in 1 .. Len(s) - 1
        BY <1>1, <2>1
      <3>3. t[i] = s[k + i] /\ t[i + 1] = s[(k + i) + 1]
        BY <1>2, <3>1
      <3>4. QED
        BY <2>1, <3>2, <3>3 DEF Flow, AcrossParts
    <2>2. QED
      BY <2>1 DEF AcrossParts
  <1>7. QED
    BY <1>3, <1>4, <1>5, <1>6 DEF Flow

\* A run goes on with a part that follows its last unit.
LEMMA PartContinues ==
    ASSUME NEW s, Flow(s), NEW m \in Nat \ {0}, NEW h \in Headers, NEW k \in 0 .. LastPart(h),
           \A i \in 1 .. Len(s) : s[i].message <= m,
           s # <<>> => Follows(s[Len(s)], Unit(m, h, k, 1))
    PROVE  Flow(s \o Part(m, h, k))
  <1> DEFINE p == Part(m, h, k)
             t == s \o p
             n == Len(s)
             z == PartSize(h, k)
  <1>1. /\ p \in Seq(Units) /\ Len(p) = z /\ z \in Nat \ {0} /\ s \in Seq(Units) /\ n \in Nat
        /\ \A i \in 1 .. z : p[i] = Unit(m, h, k, i) /\ Fits(p[i])
    BY PartIsUnits, LenProperties DEF Flow
  <1>2. /\ t \in Seq(Units) /\ Len(t) = n + z
        /\ \A i \in 1 .. n : t[i] = s[i]
        /\ \A i \in n + 1 .. n + z : i - n \in 1 .. z /\ t[i] = p[i - n]
    <2>1. /\ t \in Seq(Units) /\ Len(t) = n + z
          /\ \A i \in 1 .. n + z : t[i] = IF i <= n THEN s[i] ELSE p[i - n]
      BY <1>1, ConcatProperties
    <2>2. QED
      BY <1>1, <2>1
  <1>3. ASSUME NEW i \in n + 1 .. n + z
        PROVE  /\ i - n \in 1 .. z /\ t[i] = Unit(m, h, k, i - n) /\ Fits(t[i])
               /\ t[i].message = m /\ t[i].header = h /\ t[i].part = k /\ t[i].index = i - n
    <2>1. i - n \in 1 .. z
      BY <1>1
    <2>2. t[i] = Unit(m, h, k, i - n) /\ Fits(t[i])
      BY <1>1, <1>2, <2>1
    <2>3. QED
      BY <2>1, <2>2 DEF Unit
  <1>4. \A i \in 1 .. n : /\ s[i] \in Units /\ s[i] = t[i] /\ s[i].message \in Nat
                          /\ s[i].index \in Nat /\ PartSize(s[i].header, s[i].part) \in Nat
                          /\ Fits(s[i])
    BY <1>1, <1>2, ElementOfSeq, UnitFacts DEF Flow
  <1> HIDE DEF p, t, n, z
  <1>5. \A i \in 1 .. n + z : i \in 1 .. n \/ i \in n + 1 .. n + z
    BY <1>1
  <1>6. \A i \in 1 .. Len(t) : Fits(t[i])
    BY <1>2, <1>3, <1>4, <1>5
  <1>7. Ascending(t)
    <2>1. ASSUME NEW i \in 1 .. n + z, NEW j \in 1 .. n + z, i <= j
          PROVE  t[i].message <= t[j].message
      <3>1. CASE j \in 1 .. n
        <4>1. i \in 1 .. n /\ n = Len(s)
          BY <1>1, <2>1, <3>1 DEF n
        <4>2. s[i].message <= s[j].message
          BY <2>1, <3>1, <4>1 DEF Flow, Ascending
        <4>3. QED
          BY <1>4, <3>1, <4>1, <4>2
      <3>2. CASE j \in n + 1 .. n + z /\ i \in 1 .. n
        <4>1. s[i].message <= m
          BY <3>2 DEF n
        <4>2. QED
          BY <1>3, <1>4, <3>2, <4>1
      <3>3. CASE j \in n + 1 .. n + z /\ i \in n + 1 .. n + z
        BY <1>3, <3>3
      <3>4. QED
        BY <1>5, <3>1, <3>2, <3>3
    <2>2. QED
      BY <1>2, <2>1 DEF Ascending
  <1>8. ASSUME NEW i \in 1 .. n,
               s[i].index + (n - i) <= PartSize(s[i].header, s[i].part)
        PROVE  s[i].index + (n - i) = PartSize(s[i].header, s[i].part)
    <2>1. n \in 1 .. n /\ i <= n /\ n = Len(s) /\ s # <<>>
      BY <1>1, EmptySeq DEF n
    <2>2. s[n] = Unit(s[i].message, s[i].header, s[i].part, s[i].index + (n - i))
      BY <1>8, <2>1 DEF Flow, InPart
    <2>3. /\ s[n].header = s[i].header /\ s[n].part = s[i].part
          /\ s[n].index = s[i].index + (n - i)
      BY <2>2 DEF Unit
    <2>4. EndsPart(s[n])
      <3>1. Follows(s[n], Unit(m, h, k, 1)) /\ s[n].index \in Nat \ {0}
        BY <1>1, <2>1, ElementOfSeq, UnitFacts
      <3>2. ASSUME ~EndsPart(s[n]) PROVE FALSE
        <4>1. Unit(m, h, k, 1) = Unit(s[n].message, s[n].header, s[n].part, s[n].index + 1)
          BY <3>1, <3>2 DEF Follows
        <4>2. 1 = s[n].index + 1
          BY <4>1 DEF Unit
        <4>3. QED
          BY <3>1, <4>2
      <3>3. QED
        BY <3>2
    <2>5. QED
      BY <2>3, <2>4 DEF EndsPart
  <1>9. InPart(t)
    <2>1. ASSUME NEW i \in 1 .. n + z, NEW j \in 1 .. n + z, i <= j,
                 t[i].index + (j - i) <= PartSize(t[i].header, t[i].part)
          PROVE  t[j] = Unit(t[i].message, t[i].header, t[i].part, t[i].index + (j - i))
      <3>1. CASE j \in 1 .. n
        <4>1. i \in 1 .. n /\ n = Len(s) /\ t[i] = s[i] /\ t[j] = s[j]
          BY <1>1, <1>4, <2>1, <3>1 DEF n
        <4>2. QED
          BY <2>1, <3>1, <4>1 DEF Flow, InPart
      <3>2. CASE j \in n + 1 .. n + z /\ i \in 1 .. n
        <4>1. /\ s[i].index \in Nat /\ PartSize(s[i].header, s[i].part) \in Nat
              /\ s[i].index + (j - i) <= PartSize(s[i].header, s[i].part)
          BY <1>4, <2>1, <3>2
        <4>2. s[i].index + (n - i) < s[i].index + (j - i)
          BY <1>1, <3>2, <4>1
        <4>3. s[i].index + (n - i) < PartSize(s[i].header, s[i].part)
          BY <1>1, <3>2, <4>1, <4>2
        <4>4. QED
          BY <1>1, <1>8, <3>2, <4>1, <4>3
      <3>3. CASE j \in n + 1 .. n + z /\ i \in n + 1 .. n + z
        <4>1. (i - n) + (j - i) = j - n
          BY <1>1
        <4>2. QED
          BY <1>3, <3>3, <4>1
      <3>4. QED
        BY <1>1, <1>5, <2>1, <3>1, <3>2, <3>3
    <2>2. QED
      BY <1>2, <2>1 DEF InPart
  <1>10. AcrossParts(t)
    <2>1. ASSUME NEW i \in 1 .. (n + z) - 1, EndsPart(t[i]) PROVE Follows(t[i], t[i + 1])
      <3>1. CASE i < n
        <4>1. i \in 1 .. Len(s) - 1 /\ i \in 1 .. n /\ i + 1 \in 1 .. n
          BY <1>1, <3>1 DEF n
        <4>2. QED
          BY <1>4, <2>1, <4>1 DEF Flow, AcrossParts
      <3>2. CASE i = n
        <4>1. i \in 1 .. n /\ i + 1 \in n + 1 .. n + z /\ (i + 1) - n = 1 /\ s # <<>>
          BY <1>1, <3>2, EmptySeq DEF n
        <4>2. t[i + 1] = Unit(m, h, k, 1) /\ t[i] = s[Len(s)]
          BY <1>3, <1>4, <3>2, <4>1 DEF n
        <4>3. QED
          BY <4>1, <4>2
      <3>3. CASE i > n
        <4>1. i \in n + 1 .. n + z
          BY <1>1, <3>3
        <4>2. i - n = z
          BY <1>3, <2>1, <4>1 DEF EndsPart, z
        <4>3. QED
          BY <1>1, <4>2
      <3>4. QED
        BY <1>1, <3>1, <3>2, <3>3
    <2>2. QED
      BY <1>2, <2>1 DEF AcrossParts
  <1>11. QED
    BY <1>2, <1>6, <1>7, <1>9, <1>10 DEF Flow, t, p

-------------------------------------------------------------------------------
(* The invariant.                                                          *)

Arriving == data \o wire
Pending == IF broken THEN <<>> ELSE unsent
InFlight == Arriving \o Pending

SenderTypes ==
    /\ sender \in {"idle", "sending", "closed", "aborted"} /\ sent \in Nat
    /\ outgoing \in Headers /\ part \in 0 .. LastPart(outgoing) /\ unsent \in Seq(Units)
    /\ wire \in Seq(Units) /\ broken \in BOOLEAN

ReceiverTypes ==
    /\ receiver \in {"length", "header", "payload", "finished", "raised"}
    /\ size \in Nat \ {0} /\ data \in Seq(Units) /\ Len(data) <= size
    /\ header \in Headers /\ variables \in Seq(Nat \X Nat)
    /\ received \in Seq(Seq(Nat \X Nat))

\* What the sender is at: nothing of an end message is left when it is idle or has closed,
\* and no more than Messages others are sent.
SenderInv ==
    /\ sender # "sending" => unsent = <<>>
    /\ sender = "sending" => sent > 0
    /\ \A i \in 1 .. Len(unsent) : unsent[i].message = sent
    /\ sender = "idle" => outgoing # EndHeader \/ sent = 0
    /\ sent > 0 => sent <= Messages \/ (outgoing = EndHeader /\ sent = Messages + 1)

\* What the receiver reads is a part of message Len(received) + 1, whose arrays so far
\* are variables.
ReadsPart ==
    /\ receiver = "length" => size = 1 /\ variables = <<>>
    /\ receiver = "header" => size = HeaderUnits /\ variables = <<>>
    /\ receiver = "payload" => /\ header \in DataHeaders /\ Len(variables) < Arrays
                               /\ size = PartSize(header, 2 + Len(variables))
    /\ \A a \in 1 .. Len(variables) : variables[a] = <<Len(received) + 1, a>>

Begins(u) ==
    /\ u.message = Len(received) + 1
    /\ Receiving => u.index = 1
    /\ receiver = "length" => u.part = 0
    /\ receiver = "header" => u.part = 1
    /\ receiver = "payload" => u.part = 2 + Len(variables) /\ u.header = header

\* What the sender sends after what is on its way: another part, or message h.
NextUnit(h) ==
    IF sender = "sending" /\ part < LastPart(outgoing)
      THEN Unit(sent, outgoing, part + 1, 1) ELSE Unit(sent + 1, h, 0, 1)

Sending == ~broken /\ sender \in {"idle", "sending"}

Continued(v) ==
    IF InFlight = <<>> THEN Begins(v) ELSE Follows(InFlight[Len(InFlight)], v)

\* The units are those of the messages sent, and only the end message is the end.
Labelled ==
    \A i \in 1 .. Len(InFlight) :
       /\ InFlight[i].message <= sent
       /\ InFlight[i].header = EndHeader <=> InFlight[i].message = sent /\ outgoing = EndHeader

\* The receiver is done: with all there is, or because there is no more.
EndInv ==
    /\ receiver = "raised" => wire = <<>> /\ ~Sending
    /\ receiver = "finished" =>
          /\ sent = Len(received) + 1 /\ outgoing = EndHeader
          /\ wire = <<>> /\ (broken \/ unsent = <<>>) /\ (Sending => part = LastPart(outgoing))
          /\ data # <<>> /\ data[Len(data)].message = sent /\ EndsMessage(data[Len(data)])

FlightInv ==
    /\ Flow(InFlight) /\ Labelled
    /\ receiver # "finished" /\ InFlight # <<>> => Begins(InFlight[1])
    /\ Receiving /\ Sending => \A h \in Headers : Continued(NextUnit(h))

Inv ==
    /\ SenderTypes /\ ReceiverTypes /\ SenderInv
    /\ ReadsPart /\ EndInv /\ FlightInv /\ ReceivedWhole

-------------------------------------------------------------------------------
(* What is on its way.                                                     *)

LEMMA Joined ==
    ASSUME NEW a \in Seq(Units), NEW b \in Seq(Units)
    PROVE  /\ a \o b \in Seq(Units) /\ Len(a) \in Nat /\ Len(b) \in Nat
           /\ Len(a \o b) = Len(a) + Len(b)
           /\ \A i \in 1 .. Len(a) : (a \o b)[i] = a[i]
           /\ \A i \in 1 .. Len(b) : (a \o b)[Len(a) + i] = b[i]
  <1>1. Len(a) \in Nat /\ Len(b) \in Nat
    BY LenProperties
  <1>2. /\ a \o b \in Seq(Units) /\ Len(a \o b) = Len(a) + Len(b)
        /\ \A i \in 1 .. Len(a) + Len(b) : (a \o b)[i] = IF i <= Len(a) THEN a[i]
                                                         ELSE b[i - Len(a)]
    BY ConcatProperties
  <1>3. ASSUME NEW i \in 1 .. Len(b) PROVE (a \o b)[Len(a) + i] = b[i]
    <2>1. /\ Len(a) + i \in 1 .. Len(a) + Len(b) /\ ~(Len(a) + i <= Len(a))
          /\ (Len(a) + i) - Len(a) = i
      BY <1>1
    <2>2. QED
      BY <1>2, <2>1
  <1>4. QED
    BY <1>1, <1>2, <1>3

LEMMA Regrouped ==
    ASSUME NEW a \in Seq(Units), NEW b \in Seq(Units), NEW c \in Seq(Units)
    PROVE  (a \o b) \o c = a \o (b \o c)
  BY ConcatAssociative

\* The two ends of what SubSeq cuts.
LEMMA Cut ==
    ASSUME NEW s \in Seq(Units), NEW n \in 0 .. Len(s)
    PROVE  /\ SubSeq(s, 1, n) \in Seq(Units) /\ Len(SubSeq(s, 1, n)) = n
           /\ SubSeq(s, n + 1, Len(s)) \in Seq(Units)
           /\ Len(SubSeq(s, n + 1, Len(s))) = Len(s) - n
           /\ SubSeq(s, 1, n) \o SubSeq(s, n + 1, Len(s)) = s
           /\ \A i \in 1 .. n : SubSeq(s, 1, n)[i] = s[i]
           /\ \A i \in 1 .. Len(s) - n : SubSeq(s, n + 1, Len(s))[i] = s[n + i]
  <1>1. Len(s) \in Nat /\ n \in Nat /\ \A i \in 1 .. Len(s) : s[i] \in Units
    BY LenProperties, ElementOfSeq
  <1>2. /\ SubSeq(s, 1, n) \in Seq(Units) /\ Len(SubSeq(s, 1, n)) = n
        /\ \A i \in 1 .. n : SubSeq(s, 1, n)[i] = s[i]
    <2>1. \A i \in 1 .. n : s[i] \in Units
      BY <1>1
    <2>2. /\ SubSeq(s, 1, n) \in Seq(Units)
          /\ Len(SubSeq(s, 1, n)) = IF 1 <= n THEN (n - 1) + 1 ELSE 0
          /\ \A i \in 1 .. (n - 1) + 1 : SubSeq(s, 1, n)[i] = s[(1 + i) - 1]
      BY <1>1, <2>1, SubSeqProperties
    <2>3. QED
      BY <1>1, <2>2
  <1>3. /\ SubSeq(s, n + 1, Len(s)) \in Seq(Units)
        /\ Len(SubSeq(s, n + 1, Len(s))) = Len(s) - n
        /\ \A i \in 1 .. Len(s) - n : SubSeq(s, n + 1, Len(s))[i] = s[n + i]
    <2>1. \A i \in n + 1 .. Len(s) : s[i] \in Units
      BY <1>1
    <2>2. /\ SubSeq(s, n + 1, Len(s)) \in Seq(Units)
          /\ Len(SubSeq(s, n + 1, Len(s))) =
                IF n + 1 <= Len(s) THEN (Len(s) - (n + 1)) + 1 ELSE 0
          /\ \A i \in 1 .. (Len(s) - (n + 1)) + 1 :
                SubSeq(s, n + 1, Len(s))[i] = s[((n + 1) + i) - 1]
      BY <1>1, <2>1, SubSeqProperties
    <2>3. QED
      BY <1>1, <2>2
  <1>4. SubSeq(s, 1, n) \o SubSeq(s, n + 1, Len(s)) = s
    <2>1. 1 \in 1 .. Len(s) + 1 /\ n \in 1 - 1 .. Len(s) /\ Len(s) \in n .. Len(s)
      BY <1>1
    <2>2. SubSeq(s, 1, n) \o SubSeq(s, n + 1, Len(s)) = SubSeq(s, 1, Len(s))
      BY <2>1, ConcatAdjacentSubSeq
    <2>3. QED
      BY <2>2, SubSeqFull
  <1>5. QED
    BY <1>2, <1>3, <1>4

LEMMA NoUnits == /\ <<>> \in Seq(Units) /\ Len(<<>>) = 0
                 /\ \A s \in Seq(Units) : /\ s \o <<>> = s /\ <<>> \o s = s
                                          /\ Len(s) \in Nat /\ (s = <<>> <=> Len(s) = 0)
  <1>1. /\ <<>> \in Seq(Units) /\ Len(<<>>) = 0
        /\ \A s \in Seq(Units) : s # <<>> => Len(s) \in Nat \ {0}
    BY EmptySeq
  <1>2. \A s \in Seq(Units) : s \o <<>> = s /\ <<>> \o s = s
    BY ConcatEmptySeq
  <1>3. QED
    BY <1>1, <1>2

LEMMA FlightFacts ==
    ASSUME SenderTypes, ReceiverTypes
    PROVE  /\ Arriving \in Seq(Units) /\ Pending \in Seq(Units) /\ InFlight \in Seq(Units)
           /\ Len(data) \in Nat /\ Len(wire) \in Nat /\ Len(unsent) \in Nat
           /\ Len(Pending) \in Nat
           /\ Len(Arriving) = Len(data) + Len(wire)
           /\ Len(InFlight) = Len(Arriving) + Len(Pending)
           /\ \A i \in 1 .. Len(data) : Arriving[i] = data[i]
           /\ \A i \in 1 .. Len(wire) : Arriving[Len(data) + i] = wire[i]
           /\ \A i \in 1 .. Len(Arriving) : InFlight[i] = Arriving[i]
           /\ \A i \in 1 .. Len(Pending) : InFlight[Len(Arriving) + i] = Pending[i]
           /\ InFlight = data \o (wire \o Pending)
  <1>1. Pending \in Seq(Units) /\ data \in Seq(Units) /\ wire \in Seq(Units)
        /\ unsent \in Seq(Units)
    BY NoUnits DEF Pending, SenderTypes, ReceiverTypes
  <1>2. /\ Arriving \in Seq(Units) /\ Len(Arriving) = Len(data) + Len(wire)
        /\ Len(data) \in Nat /\ Len(wire) \in Nat
        /\ \A i \in 1 .. Len(data) : Arriving[i] = data[i]
        /\ \A i \in 1 .. Len(wire) : Arriving[Len(data) + i] = wire[i]
    BY <1>1, Joined DEF Arriving
  <1>3. /\ InFlight \in Seq(Units) /\ Len(InFlight) = Len(Arriving) + Len(Pending)
        /\ Len(Pending) \in Nat
        /\ \A i \in 1 .. Len(Arriving) : InFlight[i] = Arriving[i]
        /\ \A i \in 1 .. Len(Pending) : InFlight[Len(Arriving) + i] = Pending[i]
    BY <1>1, <1>2, Joined DEF InFlight
  <1>4. InFlight = data \o (wire \o Pending)
    BY <1>1, Regrouped DEF InFlight, Arriving
  <1>5. QED
    BY <1>1, <1>2, <1>3, <1>4, LenProperties

\* Of two neighbours on the way the second is the unit after the first.
LEMMA Neighbours ==
    ASSUME NEW s, Flow(s), NEW i \in 1 .. Len(s) - 1
    PROVE  Follows(s[i], s[i + 1])
  <1>1. /\ Len(s) \in Nat /\ i \in 1 .. Len(s) /\ i + 1 \in 1 .. Len(s)
        /\ (i + 1) - i = 1 /\ i <= i + 1
    BY LenProperties DEF Flow
  <1>2. CASE EndsPart(s[i])
    BY <1>2 DEF Flow, AcrossParts
  <1>3. CASE ~EndsPart(s[i])
    <2>1. /\ s[i].index \in Nat /\ s[i].index <= PartSize(s[i].header, s[i].part)
          /\ s[i].index # PartSize(s[i].header, s[i].part)
          /\ PartSize(s[i].header, s[i].part) \in Nat
      BY <1>1, <1>3, ElementOfSeq, UnitFacts DEF Flow, Fits, EndsPart
    <2>2. s[i].index + ((i + 1) - i) <= PartSize(s[i].header, s[i].part)
      BY <1>1, <2>1
    <2>3. s[i + 1] = Unit(s[i].message, s[i].header, s[i].part, s[i].index + 1)
      BY <1>1, <2>2 DEF Flow, InPart
    <2>4. QED
      BY <1>3, <2>3 DEF Follows
  <1>4. QED
    BY <1>2, <1>3

-------------------------------------------------------------------------------
(* Types.                                                                  *)

LEMMA PartSentTypes ==
    ASSUME SenderTypes, ReceiverTypes, sent' \in Nat \ {0}, outgoing' \in Headers, NEW k,
           k \in 0 .. LastPart(outgoing'), SendPart(k), sender' = "sending",
           UNCHANGED <<wireVars, receiverVars>>
    PROVE  SenderTypes' /\ ReceiverTypes'
  <1>1. part' \in 0 .. LastPart(outgoing') /\ unsent' \in Seq(Units)
    BY PartIsUnits DEF SendPart
  <1>2. QED
    BY <1>1 DEF SenderTypes, ReceiverTypes, wireVars, receiverVars, messageVars

LEMMA SendHeaderTypes ==
    ASSUME SenderTypes, ReceiverTypes, NEW h \in Headers, SendHeader(h)
    PROVE  SenderTypes' /\ ReceiverTypes'
  <1>1. /\ sent' \in Nat \ {0} /\ outgoing' \in Headers /\ 0 \in 0 .. LastPart(outgoing')
        /\ SendPart(0) /\ sender' = "sending" /\ UNCHANGED <<wireVars, receiverVars>>
    BY PartFacts DEF SendHeader, SenderTypes
  <1>2. QED
    BY <1>1, PartSentTypes

LEMMA SendNextTypes ==
    ASSUME SenderTypes, ReceiverTypes, sent > 0, SendNext
    PROVE  SenderTypes' /\ ReceiverTypes'
  <1>1. /\ sent' \in Nat \ {0} /\ outgoing' \in Headers
        /\ SendPart(part + 1) /\ sender' = "sending" /\ UNCHANGED <<wireVars, receiverVars>>
    BY DEF SendNext, SenderTypes
  <1>2. part + 1 \in 0 .. LastPart(outgoing')
    BY PartFacts DEF SendNext, SenderTypes
  <1>3. QED
    BY <1>1, <1>2, PartSentTypes

LEMMA SendAllTypes ==
    ASSUME SenderTypes, ReceiverTypes, SendAll
    PROVE  SenderTypes' /\ ReceiverTypes'
  <1>1. PICK n \in 1 .. Len(unsent) :
           /\ wire' = IF broken THEN wire ELSE wire \o SubSeq(unsent, 1, n)
           /\ unsent' = SubSeq(unsent, n + 1, Len(unsent))
    BY DEF SendAll
  <1>2. wire \in Seq(Units) /\ unsent \in Seq(Units) /\ n \in 0 .. Len(unsent)
    BY NoUnits DEF SenderTypes
  <1>3. SubSeq(unsent, 1, n) \in Seq(Units) /\ unsent' \in Seq(Units)
    BY <1>1, <1>2, Cut
  <1>4. wire' \in Seq(Units)
    BY <1>1, <1>2, <1>3, Joined
  <1>5. QED
    BY <1>3, <1>4 DEF SendAll, SenderTypes, ReceiverTypes, receiverVars, messageVars

LEMMA BreakTypes ==
    ASSUME SenderTypes, ReceiverTypes, Break
    PROVE  SenderTypes' /\ ReceiverTypes'
  <1>1. wire' \in Seq(Units)
    BY Cut DEF Break, SenderTypes
  <1>2. QED
    BY <1>1 DEF Break, SenderTypes, ReceiverTypes, senderVars, receiverVars, messageVars

LEMMA RecvIntoTypes ==
    ASSUME SenderTypes, ReceiverTypes, RecvInto
    PROVE  SenderTypes' /\ ReceiverTypes' /\ Arriving' = Arriving
  <1>1. PICK n \in 1 .. Len(wire) :
           /\ n <= size - Len(data)
           /\ data' = data \o SubSeq(wire, 1, n) /\ wire' = SubSeq(wire, n + 1, Len(wire))
    BY DEF RecvInto
  <1>2. /\ wire \in Seq(Units) /\ data \in Seq(Units) /\ n \in 0 .. Len(wire)
        /\ Len(data) \in Nat /\ size \in Nat
    BY NoUnits DEF SenderTypes, ReceiverTypes
  <1>3. /\ SubSeq(wire, 1, n) \in Seq(Units) /\ wire' \in Seq(Units)
        /\ Len(SubSeq(wire, 1, n)) = n /\ SubSeq(wire, 1, n) \o wire' = wire
    BY <1>1, <1>2, Cut
  <1>4. data' \in Seq(Units) /\ Len(data') = Len(data) + n
    BY <1>1, <1>2, <1>3, Joined
  <1>5. Len(data') <= size
    BY <1>1, <1>2, <1>4
  <1>6. Arriving' = Arriving
    <2> DEFINE piece == SubSeq(wire, 1, n)
    <2>1. (data \o piece) \o wire' = data \o (piece \o wire')
      BY <1>2, <1>3, Regrouped
    <2>2. QED
      BY <1>1, <1>3, <2>1 DEF Arriving
  <1>7. QED
    BY <1>3, <1>4, <1>5, <1>6
       DEF RecvInto, SenderTypes, ReceiverTypes, senderVars, messageVars

LEMMA ReadsNextTypes ==
    ASSUME SenderTypes, ReceiverTypes, UNCHANGED <<senderVars, wireVars>>,
           NEW r \in {"length", "header", "payload"}, NEW n \in Nat \ {0}, ReadsNext(r, n),
           header' \in Headers, variables' \in Seq(Nat \X Nat),
           received' \in Seq(Seq(Nat \X Nat))
    PROVE  SenderTypes' /\ ReceiverTypes'
  <1>1. data' \in Seq(Units) /\ Len(data') <= size'
    BY NoUnits DEF ReadsNext
  <1>2. QED
    BY <1>1 DEF ReadsNext, SenderTypes, ReceiverTypes, senderVars, wireVars

LEMMA OtherTypes ==
    ASSUME SenderTypes, ReceiverTypes,
           SendReturns \/ SendFails \/ Abort \/ Raises \/ ReadHeaderEnd \/ UNCHANGED vars
    PROVE  SenderTypes' /\ ReceiverTypes'
  <1> USE DEF SenderTypes, ReceiverTypes, senderVars, wireVars, receiverVars, messageVars
  <1>1. CASE SendReturns \/ SendFails \/ Abort
    BY <1>1, NoUnits DEF SendReturns, SendFails, Abort
  <1>2. CASE Raises \/ ReadHeaderEnd
    BY <1>2 DEF Raises, ReadHeaderEnd
  <1>3. CASE UNCHANGED vars
    BY <1>3 DEF vars
  <1>4. QED
    BY <1>1, <1>2, <1>3

-------------------------------------------------------------------------------
(* The sender's steps.                                                     *)

\* sendall is called for the next part: it continues what is on its way.
LEMMA PartSentFlight ==
    ASSUME Inv, SenderTypes', ReceiverTypes', NEW k, k \in 0 .. LastPart(outgoing'), SendPart(k),
           sender \in {"idle", "sending"}, unsent = <<>>, sender' = "sending",
           sent' \in Nat \ {0}, NextUnit(outgoing') = Unit(sent', outgoing', k, 1),
           \/ sent' = sent /\ outgoing' = outgoing /\ sender = "sending"
                 /\ part < LastPart(outgoing)
           \/ sent' = sent + 1 /\ sender = "idle",
           UNCHANGED <<wireVars, receiverVars>>
    PROVE  FlightInv'
  <1> DEFINE p == Part(sent', outgoing', k)
             z == PartSize(outgoing', k)
             n == Len(InFlight)
  <1>1. /\ SenderTypes /\ ReceiverTypes /\ SenderInv /\ EndInv /\ FlightInv
        /\ outgoing' \in Headers /\ sent \in Nat
    BY DEF Inv, SenderTypes
  <1>2. UNCHANGED <<receiver, data, wire, broken, size, header, variables, received>>
    BY DEF wireVars, receiverVars, messageVars
  <1>3. /\ p \in Seq(Units) /\ Len(p) = z /\ z \in Nat \ {0}
        /\ \A i \in 1 .. z : /\ p[i] = Unit(sent', outgoing', k, i)
                            /\ p[i].message = sent' /\ p[i].header = outgoing'
                            /\ p[i].part = k /\ p[i].index = i
    BY <1>1, PartIsUnits
  <1>4. InFlight \in Seq(Units) /\ Arriving \in Seq(Units) /\ n \in Nat
    BY <1>1, FlightFacts, NoUnits
  <1>5. InFlight = Arriving /\ Arriving' = Arriving
    BY <1>2, <1>4, NoUnits DEF InFlight, Arriving, Pending
  <1>6. unsent' = p /\ part' = k
    BY DEF SendPart
  <1> HIDE DEF p, z
  <1>7. \A i \in 1 .. n :
           /\ InFlight[i].message <= sent'
           /\ InFlight[i].header = EndHeader <=>
                 InFlight[i].message = sent' /\ outgoing' = EndHeader
    <2>1. ASSUME NEW i \in 1 .. n
          PROVE  /\ InFlight[i].message <= sent'
                 /\ InFlight[i].header = EndHeader <=>
                       InFlight[i].message = sent' /\ outgoing' = EndHeader
      <3>1. /\ InFlight[i].message <= sent /\ InFlight[i].message \in Nat \ {0}
            /\ InFlight[i].header = EndHeader <=>
                  InFlight[i].message = sent /\ outgoing = EndHeader
        BY <1>1, <1>4, ElementOfSeq, UnitFacts DEF FlightInv, Labelled
      <3>2. CASE sent' = sent /\ outgoing' = outgoing
        BY <3>1, <3>2
      <3>3. CASE sent' = sent + 1 /\ sender = "idle"
        <4>1. outgoing # EndHeader
          BY <1>1, <3>1, <3>3 DEF SenderInv
        <4>2. InFlight[i].message < sent' /\ InFlight[i].header # EndHeader
          BY <1>1, <3>1, <3>3, <4>1
        <4>3. QED
          BY <3>1, <4>2
      <3>4. QED
        BY <3>2, <3>3
    <2>2. QED
      BY <2>1
  <1>8. CASE broken
    <2>1. InFlight' = InFlight /\ ~Sending'
      BY <1>2, <1>4, <1>5, <1>8, NoUnits DEF InFlight, Pending, Sending
    <2>2. Labelled'
      BY <1>7, <2>1 DEF Labelled
    <2>3. receiver' # "finished" /\ InFlight' # <<>> => Begins(InFlight[1])'
      BY <1>1, <1>2, <2>1 DEF FlightInv, Begins, Receiving
    <2>4. QED
      BY <1>1, <2>1, <2>2, <2>3 DEF FlightInv
  <1>9. CASE ~broken
    <2>1. InFlight' = InFlight \o p
      BY <1>2, <1>5, <1>6, <1>9 DEF InFlight, Pending
    <2>2. Sending /\ Receiving
      <3>1. Sending
        BY <1>9 DEF Sending
      <3>2. receiver # "raised"
        BY <1>1, <3>1 DEF EndInv
      <3>3. receiver # "finished"
        <4>1. ASSUME receiver = "finished" PROVE FALSE
          <5>1. outgoing = EndHeader /\ part = LastPart(outgoing) /\ sent = Len(received) + 1
                /\ Len(received) \in Nat
            BY <1>1, <3>1, <4>1, LenProperties DEF EndInv, ReceiverTypes
          <5>2. sender # "idle"
            BY <1>1, <5>1 DEF SenderInv
          <5>3. QED
            BY <1>1, <5>1, <5>2, PartFacts DEF SenderTypes
        <4>2. QED
          BY <4>1
      <3>4. QED
        BY <1>1, <3>1, <3>2, <3>3 DEF Receiving, ReceiverTypes
    <2>3. Continued(Unit(sent', outgoing', k, 1))
      BY <1>1, <2>2 DEF FlightInv
    <2>4. Flow(InFlight')
      <3>1. Flow(InFlight) /\ (\A i \in 1 .. Len(InFlight) : InFlight[i].message <= sent')
            /\ (InFlight # <<>> => Follows(InFlight[n], Unit(sent', outgoing', k, 1)))
        BY <1>1, <1>7, <2>3 DEF FlightInv, Continued
      <3>2. QED
        BY <1>1, <2>1, <3>1, PartContinues DEF p
    <2>5. /\ Len(InFlight') = n + z
          /\ \A i \in 1 .. n : InFlight'[i] = InFlight[i]
          /\ \A i \in 1 .. z : InFlight'[n + i] = p[i]
      BY <1>3, <1>4, <2>1, Joined
    <2>6. Labelled'
      <3>1. ASSUME NEW i \in 1 .. n + z
            PROVE  /\ InFlight'[i].message <= sent'
                   /\ InFlight'[i].header = EndHeader <=>
                         InFlight'[i].message = sent' /\ outgoing' = EndHeader
        <4>1. CASE i \in 1 .. n
          BY <1>7, <2>5, <4>1
        <4>2. CASE i \notin 1 .. n
          <5>1. i - n \in 1 .. z /\ n + (i - n) = i
            BY <1>3, <1>4, <4>2
          <5>2. InFlight'[i] = p[i - n]
            BY <2>5, <5>1
          <5>3. QED
            BY <1>3, <5>1, <5>2
        <4>3. QED
          BY <4>1, <4>2
      <3>2. QED
        BY <2>5, <3>1 DEF Labelled
    <2>7. InFlight' # <<>> /\ Begins(InFlight[1])'
      <3>1. InFlight' # <<>>
        BY <1>3, <1>4, <2>5, NoUnits
      <3>2. CASE InFlight = <<>>
        <4>1. InFlight'[1] = Unit(sent', outgoing', k, 1)
          BY <1>3, <1>4, <2>1, <3>2, NoUnits
        <4>2. Begins(Unit(sent', outgoing', k, 1))
          BY <2>3, <3>2 DEF Continued
        <4>3. QED
          BY <1>2, <3>1, <4>1, <4>2 DEF Begins, Receiving
      <3>3. CASE InFlight # <<>>
        <4>1. InFlight'[1] = InFlight[1]
          BY <1>4, <2>5, <3>3, NoUnits
        <4>2. Begins(InFlight[1])
          BY <1>1, <2>2, <3>3 DEF FlightInv, Receiving
        <4>3. QED
          BY <1>2, <3>1, <4>1, <4>2 DEF Begins, Receiving
      <3>4. QED
        BY <3>2, <3>3
    <2>8. ASSUME NEW h \in Headers PROVE Continued(NextUnit(h))'
      <3>1. InFlight'[Len(InFlight')] = Unit(sent', outgoing', k, z)
        BY <1>3, <1>4, <2>5
      <3>2. Follows(Unit(sent', outgoing', k, z), NextUnit(h)')
        <4>1. /\ EndsPart(Unit(sent', outgoing', k, z))
              /\ NextUnit(h)' = IF k < LastPart(outgoing')
                                  THEN Unit(sent', outgoing', k + 1, 1)
                                  ELSE Unit(sent' + 1, h, 0, 1)
          BY <1>6 DEF NextUnit, EndsPart, Unit, z
        <4>2. CASE k < LastPart(outgoing')
          <5>1. k # LastPart(outgoing') /\ NextUnit(h)' = Unit(sent', outgoing', k + 1, 1)
            BY <1>1, <4>1, <4>2, PartFacts
          <5>2. QED
            BY <4>1, <5>1 DEF Follows, Unit
        <4>3. CASE ~(k < LastPart(outgoing'))
          <5>1. k = LastPart(outgoing')
            BY <1>1, <4>3, PartFacts
          <5>2. QED
            BY <4>1, <4>3, <5>1 DEF Follows, Unit
        <4>4. QED
          BY <4>2, <4>3
      <3>3. QED
        BY <2>7, <3>1, <3>2 DEF Continued
    <2>9. QED
      BY <2>4, <2>6, <2>7, <2>8 DEF FlightInv
  <1>10. QED
    BY <1>8, <1>9

LEMMA SendHeaderFlight ==
    ASSUME Inv, NEW h \in Headers, SendHeader(h)
    PROVE  SenderTypes' /\ ReceiverTypes' /\ FlightInv'
  <1>1. SenderTypes /\ ReceiverTypes /\ SenderInv
    BY DEF Inv
  <1>2. SenderTypes' /\ ReceiverTypes'
    BY <1>1, SendHeaderTypes
  <1>3. /\ SendPart(0) /\ sender \in {"idle", "sending"} /\ sender' = "sending"
        /\ sent' = sent + 1 /\ sender = "idle" /\ outgoing' = h /\ sent' \in Nat \ {0}
        /\ UNCHANGED <<wireVars, receiverVars>> /\ unsent = <<>>
        /\ 0 \in 0 .. LastPart(outgoing')
    BY <1>1, PartFacts DEF SendHeader, SenderTypes, SenderInv
  <1>4. NextUnit(outgoing') = Unit(sent', outgoing', 0, 1)
    BY <1>3 DEF NextUnit
  <1>5. QED
    BY <1>2, <1>3, <1>4, PartSentFlight

LEMMA SendNextFlight ==
    ASSUME Inv, SendNext
    PROVE  SenderTypes' /\ ReceiverTypes' /\ FlightInv'
  <1>1. SenderTypes /\ ReceiverTypes /\ SenderInv
    BY DEF Inv
  <1>2. /\ SendPart(part + 1) /\ sender \in {"idle", "sending"} /\ sender' = "sending"
        /\ sent' = sent /\ sender = "sending" /\ outgoing' = outgoing /\ sent' \in Nat \ {0}
        /\ UNCHANGED <<wireVars, receiverVars>> /\ unsent = <<>>
        /\ part + 1 \in 0 .. LastPart(outgoing') /\ part < LastPart(outgoing) /\ sent > 0
    BY <1>1, PartFacts DEF SendNext, SenderTypes, SenderInv
  <1>3. SenderTypes' /\ ReceiverTypes'
    BY <1>1, <1>2, SendNextTypes
  <1>4. NextUnit(outgoing') = Unit(sent', outgoing', part + 1, 1)
    BY <1>2 DEF NextUnit
  <1>5. QED
    BY <1>2, <1>3, <1>4, PartSentFlight

\* Steps that leave what is on its way as it is.
LEMMA SameFlight ==
    ASSUME FlightInv, InFlight' = InFlight, UNCHANGED <<sent, outgoing>>,
           UNCHANGED <<receiver, header, variables, received>>,
           \/ ~Sending'
           \/ Sending /\ \A h \in Headers : NextUnit(h)' = NextUnit(h)
    PROVE  FlightInv'
  <1>1. Flow(InFlight)' /\ Labelled'
    BY DEF FlightInv, Labelled
  <1>3. receiver' # "finished" /\ InFlight' # <<>> => Begins(InFlight[1])'
    <2>1. ASSUME receiver' # "finished", InFlight' # <<>> PROVE Begins(InFlight[1])'
      <3>1. Begins(InFlight[1])
        BY <2>1 DEF FlightInv
      <3>2. QED
        BY <3>1 DEF Begins, Receiving
    <2>2. QED
      BY <2>1
  <1>4. ASSUME Receiving', Sending', NEW h \in Headers PROVE Continued(NextUnit(h))'
    <2>1. Receiving /\ Sending /\ NextUnit(h)' = NextUnit(h)
      BY <1>4 DEF Receiving
    <2>2. Continued(NextUnit(h))
      BY <2>1 DEF FlightInv
    <2>3. CASE InFlight = <<>>
      <3>1. Begins(NextUnit(h)) /\ InFlight' = <<>>
        BY <2>2, <2>3 DEF Continued
      <3>2. Begins(NextUnit(h))'
        BY <2>1, <3>1 DEF Begins, Receiving
      <3>3. QED
        BY <3>1, <3>2 DEF Continued
    <2>4. CASE InFlight # <<>>
      BY <2>1, <2>2, <2>4 DEF Continued
    <2>5. QED
      BY <2>3, <2>4
  <1>5. QED
    BY <1>1, <1>3, <1>4 DEF FlightInv

\* Steps after which less is on its way and nothing follows.
LEMMA ShorterFlight ==
    ASSUME FlightInv, InFlight' \in Seq(Units), Len(InFlight') <= Len(InFlight),
           \A i \in 1 .. Len(InFlight') : InFlight'[i] = InFlight[i], ~Sending',
           UNCHANGED <<sent, outgoing, receiver, header, variables, received>>
    PROVE  FlightInv'
  <1>1. Len(InFlight) \in Nat /\ Len(InFlight') \in Nat /\ InFlight \in Seq(Units)
    BY NoUnits DEF FlightInv, Flow
  <1>2. \A i \in 1 .. Len(InFlight') : i \in 1 .. Len(InFlight) /\ InFlight'[i] = InFlight[0 + i]
    BY <1>1
  <1>3. Flow(InFlight')
    <2>1. Flow(InFlight) /\ 0 \in Nat /\ Len(InFlight') + 0 <= Len(InFlight)
      BY <1>1 DEF FlightInv
    <2>2. QED
      BY <1>1, <1>2, <2>1, SliceFlows
  <1>4. Labelled'
    BY <1>2 DEF FlightInv, Labelled
  <1>5. receiver' # "finished" /\ InFlight' # <<>> => Begins(InFlight[1])'
    <2>1. ASSUME receiver' # "finished", InFlight' # <<>> PROVE Begins(InFlight[1])'
      <3>1. 1 \in 1 .. Len(InFlight')
        BY <1>1, <2>1, NoUnits
      <3>2. InFlight'[1] = InFlight[1] /\ InFlight # <<>>
        BY <1>1, <1>2, <3>1, NoUnits
      <3>3. Begins(InFlight[1])
        BY <2>1, <3>2 DEF FlightInv
      <3>4. QED
        BY <3>2, <3>3 DEF Begins, Receiving
    <2>2. QED
      BY <2>1
  <1>6. QED
    BY <1>3, <1>4, <1>5 DEF FlightInv

LEMMA SendAllFlight ==
    ASSUME Inv, SendAll
    PROVE  InFlight' = InFlight /\ FlightInv'
  <1>1. PICK n \in 1 .. Len(unsent) :
           /\ wire' = IF broken THEN wire ELSE wire \o SubSeq(unsent, 1, n)
           /\ unsent' = SubSeq(unsent, n + 1, Len(unsent))
    BY DEF SendAll
  <1>2. /\ SenderTypes /\ ReceiverTypes /\ FlightInv
        /\ wire \in Seq(Units) /\ unsent \in Seq(Units) /\ data \in Seq(Units)
        /\ n \in 0 .. Len(unsent)
    BY NoUnits DEF Inv, SenderTypes, ReceiverTypes
  <1>3. /\ UNCHANGED <<sender, sent, outgoing, part, broken>>
        /\ UNCHANGED <<receiver, data, header, variables, received>>
    BY DEF SendAll, receiverVars, messageVars
  <1>4. InFlight' = InFlight
    <2>1. CASE broken
      BY <1>1, <1>3, <2>1 DEF InFlight, Arriving, Pending
    <2>2. CASE ~broken
      <3> DEFINE piece == SubSeq(unsent, 1, n)
                 rest == SubSeq(unsent, n + 1, Len(unsent))
      <3>1. piece \in Seq(Units) /\ rest \in Seq(Units) /\ piece \o rest = unsent
        BY <1>2, Cut
      <3> HIDE DEF piece, rest
      <3>2. data \o wire \in Seq(Units)
        BY <1>2, Joined
      <3>3. /\ data \o (wire \o piece) = (data \o wire) \o piece
            /\ ((data \o wire) \o piece) \o rest = (data \o wire) \o (piece \o rest)
        <4>1. (data \o wire) \o piece = data \o (wire \o piece)
          BY <1>2, <3>1, Regrouped
        <4>2. ((data \o wire) \o piece) \o rest = (data \o wire) \o (piece \o rest)
          BY <3>1, <3>2, Regrouped
        <4>3. QED
          BY <4>1, <4>2
      <3>4. InFlight' = (data \o (wire \o piece)) \o rest
        BY <1>1, <1>3, <2>2 DEF InFlight, Arriving, Pending, piece, rest
      <3>5. InFlight = (data \o wire) \o unsent
        BY <2>2 DEF InFlight, Arriving, Pending
      <3>6. QED
        BY <3>1, <3>3, <3>4, <3>5
    <2>3. QED
      BY <2>1, <2>2
  <1>5. \A h \in Headers : NextUnit(h)' = NextUnit(h)
    BY <1>3 DEF NextUnit
  <1>6. Sending' <=> Sending
    BY <1>3 DEF Sending
  <1>7. QED
    BY <1>2, <1>3, <1>4, <1>5, <1>6, SameFlight

LEMMA SendEndsFlight ==
    ASSUME Inv, SendReturns \/ SendFails \/ Abort
    PROVE  FlightInv'
  <1>1. /\ SenderTypes /\ ReceiverTypes /\ FlightInv /\ SenderInv
        /\ UNCHANGED <<sent, outgoing, part, wire, broken>>
        /\ UNCHANGED <<data, receiver, header, variables, received>>
    BY DEF Inv, SendReturns, SendFails, Abort, wireVars, receiverVars, messageVars
  <1>2. CASE SendFails
    <2>1. ~Sending' /\ InFlight' = Arriving
      <3>1. Pending' = <<>> /\ Arriving' = Arriving /\ ~Sending'
        BY <1>1, <1>2 DEF SendFails, Pending, Arriving, Sending
      <3>2. QED
        BY <1>1, <3>1, FlightFacts, NoUnits DEF InFlight
    <2>2. /\ InFlight' \in Seq(Units) /\ Len(InFlight') <= Len(InFlight)
          /\ \A i \in 1 .. Len(InFlight') : InFlight'[i] = InFlight[i]
      BY <1>1, <2>1, FlightFacts
    <2>3. QED
      BY <1>1, <2>1, <2>2, ShorterFlight
  <1>3. CASE SendReturns \/ Abort
    <2>1. unsent' = unsent
      BY <1>3 DEF SendReturns, Abort
    <2>2. InFlight' = InFlight
      BY <1>1, <2>1 DEF InFlight, Arriving, Pending
    <2>3. CASE Abort
      <3>1. ~Sending'
        BY <2>3 DEF Abort, Sending
      <3>2. QED
        BY <1>1, <2>2, <3>1, SameFlight
    <2>4. CASE SendReturns
      <3>1. \A h \in Headers : NextUnit(h)' = NextUnit(h)
        <4>1. ~(part < LastPart(outgoing)) /\ sender' # "sending"
          BY <1>1, <2>4, PartFacts DEF SendReturns, SenderTypes
        <4>2. QED
          BY <1>1, <4>1 DEF NextUnit
      <3>2. Sending' => Sending
        BY <1>1, <2>4 DEF SendReturns, Sending
      <3>3. QED
        BY <1>1, <2>2, <3>1, <3>2, SameFlight
    <2>5. QED
      BY <1>3, <2>3, <2>4
  <1>4. QED
    BY <1>2, <1>3

LEMMA BreakFlight ==
    ASSUME Inv, Break
    PROVE  FlightInv' /\ InFlight' = data \o wire'
  <1>1. /\ SenderTypes /\ ReceiverTypes /\ FlightInv
        /\ UNCHANGED <<sent, outgoing, data, receiver, header, variables, received>>
    BY DEF Inv, Break, senderVars, receiverVars, messageVars
  <1>2. PICK n \in 0 .. Len(wire) : wire' = SubSeq(wire, 1, n)
    BY DEF Break
  <1>3. /\ wire \in Seq(Units) /\ data \in Seq(Units) /\ wire' \in Seq(Units) /\ Len(wire') = n
        /\ \A i \in 1 .. n : wire'[i] = wire[i]
    BY <1>1, <1>2, Cut DEF SenderTypes, ReceiverTypes
  <1>4. InFlight' = data \o wire'
    <2>1. Pending' = <<>> /\ Arriving' = data \o wire' /\ data \o wire' \in Seq(Units)
      BY <1>1, <1>3, Joined DEF Break, Pending, Arriving
    <2>2. QED
      BY <2>1, NoUnits DEF InFlight
  <1>5. /\ InFlight' \in Seq(Units) /\ Len(InFlight') = Len(data) + n /\ Len(data) \in Nat
        /\ \A i \in 1 .. Len(data) : InFlight'[i] = data[i]
        /\ \A i \in 1 .. n : InFlight'[Len(data) + i] = wire[i]
    BY <1>3, <1>4, Joined
  <1>6. ASSUME NEW i \in 1 .. Len(InFlight') PROVE InFlight'[i] = InFlight[i]
    <2>1. /\ Len(wire) \in Nat /\ Len(Arriving) = Len(data) + Len(wire)
          /\ \A j \in 1 .. Len(Arriving) : InFlight[j] = Arriving[j]
          /\ \A j \in 1 .. Len(data) : Arriving[j] = data[j]
          /\ \A j \in 1 .. Len(wire) : Arriving[Len(data) + j] = wire[j]
      BY <1>1, FlightFacts
    <2>2. CASE i \in 1 .. Len(data)
      <3>1. i \in 1 .. Len(Arriving)
        BY <1>5, <2>1, <2>2
      <3>2. QED
        BY <1>5, <2>1, <2>2, <3>1
    <2>3. CASE i \notin 1 .. Len(data)
      <3> DEFINE j == i - Len(data)
      <3>1. j \in 1 .. n /\ j \in 1 .. Len(wire) /\ Len(data) + j = i /\ i \in 1 .. Len(Arriving)
        BY <1>5, <2>1, <2>3
      <3>2. InFlight'[i] = wire[j] /\ Arriving[i] = wire[j]
        BY <1>5, <2>1, <3>1
      <3>3. QED
        BY <2>1, <3>1, <3>2
    <2>4. QED
      BY <2>2, <2>3
  <1>7. Len(InFlight') <= Len(InFlight)
    BY <1>1, <1>5, FlightFacts
  <1>8. ~Sending'
    BY DEF Break, Sending
  <1>9. QED
    BY <1>1, <1>4, <1>5, <1>6, <1>7, <1>8, ShorterFlight

-------------------------------------------------------------------------------
(* The receiver's steps.                                                   *)

LEMMA SizeOfPart ==
    ASSUME Inv, Receiving, NEW u \in Units, Begins(u)
    PROVE  size = PartSize(u.header, u.part)
  <1>1. /\ ReadsPart /\ receiver \in {"length", "header", "payload"}
        /\ PartSize(u.header, 0) = 1 /\ PartSize(u.header, 1) = HeaderUnits
    BY PartFacts, UnitFacts DEF Inv, Receiving
  <1>2. QED
    BY <1>1 DEF ReadsPart, Begins

\* What the receiver has when _recv_exact returns is the part it is to read, whole, and
\* what follows on the way, or will be sent, is the unit after it.
LEMMA WholePart ==
    ASSUME Inv, Receiving, Len(data) = size
    PROVE  LET u == data[1]
               l == Unit(u.message, u.header, u.part, size)
               rest == wire \o Pending
           IN  /\ u \in Units /\ Begins(u) /\ Fits(u) /\ size = PartSize(u.header, u.part)
               /\ u.message <= sent
               /\ u.header = EndHeader <=> u.message = sent /\ outgoing = EndHeader
               /\ data = Part(u.message, u.header, u.part) /\ data[size] = l /\ l \in Units
               /\ EndsPart(l) /\ data # <<>>
               /\ Flow(rest)
               /\ \A i \in 1 .. Len(rest) : i + size \in 1 .. Len(InFlight)
                                          /\ rest[i] = InFlight[i + size]
               /\ Len(InFlight) = size + Len(rest) /\ Len(rest) \in Nat
               /\ rest # <<>> => Follows(l, rest[1])
               /\ rest = <<>> /\ Sending => \A h \in Headers : Follows(l, NextUnit(h))
  <1> DEFINE u == data[1]
             l == Unit(u.message, u.header, u.part, size)
             rest == wire \o Pending
  <1>1. SenderTypes /\ ReceiverTypes /\ FlightInv /\ ReadsPart
    BY DEF Inv
  <1>2. /\ data \in Seq(Units) /\ size \in Nat \ {0} /\ data # <<>> /\ 1 \in 1 .. size
        /\ size \in 1 .. size /\ wire \in Seq(Units) /\ Pending \in Seq(Units)
    BY <1>1, NoUnits, FlightFacts DEF ReceiverTypes, SenderTypes
  <1>3. /\ rest \in Seq(Units) /\ Len(rest) \in Nat
        /\ InFlight = data \o rest /\ Len(InFlight) = size + Len(rest)
        /\ \A i \in 1 .. size : InFlight[i] = data[i]
        /\ \A i \in 1 .. Len(rest) : InFlight[size + i] = rest[i]
    <2>1. rest \in Seq(Units)
      BY <1>2, Joined
    <2>2. InFlight = data \o rest
      BY <1>1, FlightFacts
    <2> HIDE DEF rest
    <2>3. /\ Len(rest) \in Nat /\ Len(data \o rest) = Len(data) + Len(rest)
          /\ \A i \in 1 .. Len(data) : (data \o rest)[i] = data[i]
          /\ \A i \in 1 .. Len(rest) : (data \o rest)[Len(data) + i] = rest[i]
      BY <1>2, <2>1, Joined
    <2>4. QED
      BY <2>1, <2>2, <2>3
  <1> HIDE DEF u, l, rest
  <1>4. InFlight # <<>> /\ InFlight \in Seq(Units) /\ 1 \in 1 .. Len(InFlight)
    BY <1>1, <1>2, <1>3, NoUnits, FlightFacts
  <1>5. /\ InFlight[1] = u /\ u \in Units /\ Begins(u) /\ Fits(u)
        /\ u.message <= sent
        /\ u.header = EndHeader <=> u.message = sent /\ outgoing = EndHeader
    <2>1. InFlight[1] = u /\ u \in Units
      BY <1>2, <1>3, ElementOfSeq DEF u
    <2>2. Begins(InFlight[1])
      BY <1>1, <1>4 DEF FlightInv, Receiving
    <2>3. Fits(InFlight[1])
      BY <1>1, <1>4 DEF FlightInv, Flow
    <2>4. /\ InFlight[1].message <= sent
          /\ InFlight[1].header = EndHeader <=> InFlight[1].message = sent /\ outgoing = EndHeader
      BY <1>1, <1>4 DEF FlightInv, Labelled
    <2>5. QED
      BY <2>1, <2>2, <2>3, <2>4
  <1>6. size = PartSize(u.header, u.part) /\ u.index = 1 /\ u.part \in 0 .. LastPart(u.header)
    BY <1>5, SizeOfPart, UnitFacts, PartFacts DEF Begins, Fits
  <1>7. ASSUME NEW i \in 1 .. size PROVE data[i] = Unit(u.message, u.header, u.part, i)
    <2>1. i \in 1 .. Len(InFlight) /\ 1 <= i /\ InFlight[1].index + (i - 1) = i /\ i <= size
      BY <1>3, <1>5, <1>6
    <2>2. InFlight[i] = Unit(u.message, u.header, u.part, InFlight[1].index + (i - 1))
      BY <1>1, <1>4, <1>5, <1>6, <2>1 DEF FlightInv, Flow, InPart
    <2>3. QED
      BY <1>3, <2>1, <2>2
  <1>8. data = Part(u.message, u.header, u.part)
    <2> DEFINE p == Part(u.message, u.header, u.part)
    <2>1. /\ p \in Seq(Units) /\ Len(p) = size
          /\ \A i \in 1 .. size : p[i] = Unit(u.message, u.header, u.part, i)
      BY <1>5, <1>6, UnitFacts, PartIsUnits
    <2> HIDE DEF p
    <2>2. \A i \in 1 .. Len(data) : data[i] = p[i]
      BY <1>7, <2>1
    <2>3. data = p
      BY <1>2, <2>1, <2>2, SeqEqual
    <2>4. QED
      BY <2>3 DEF p
  <1>9. data[size] = l /\ l \in Units /\ EndsPart(l)
    <2>1. data[size] = l
      BY <1>2, <1>7 DEF l
    <2>2. l \in Units
      BY <1>2, <2>1, ElementOfSeq
    <2>3. EndsPart(l)
      BY <1>6 DEF l, EndsPart, Unit
    <2>4. QED
      BY <2>1, <2>2, <2>3
  <1>10. Flow(rest)
    <2>1. Flow(InFlight) /\ size \in Nat /\ Len(rest) + size <= Len(InFlight)
      BY <1>1, <1>2, <1>3 DEF FlightInv
    <2>2. \A i \in 1 .. Len(rest) : rest[i] = InFlight[size + i]
      BY <1>3
    <2>3. QED
      BY <1>3, <2>1, <2>2, SliceFlows
  <1>11. ASSUME rest # <<>> PROVE Follows(l, rest[1])
    <2>1. size \in 1 .. Len(InFlight) - 1 /\ 1 \in 1 .. Len(rest)
      BY <1>2, <1>3, <1>11, NoUnits
    <2>2. Follows(InFlight[size], InFlight[size + 1])
      BY <1>1, <2>1, Neighbours DEF FlightInv
    <2>3. QED
      BY <1>2, <1>3, <1>9, <2>1, <2>2
  <1>12. ASSUME rest = <<>>, Sending, NEW h \in Headers PROVE Follows(l, NextUnit(h))
    <2>1. Len(InFlight) = size
      BY <1>2, <1>3, <1>12, NoUnits
    <2>2. Continued(NextUnit(h))
      BY <1>1, <1>12 DEF FlightInv
    <2>3. QED
      BY <1>2, <1>3, <1>4, <1>9, <2>1, <2>2 DEF Continued
  <1>13. \A i \in 1 .. Len(rest) : i + size \in 1 .. Len(InFlight) /\ rest[i] = InFlight[i + size]
    <2>1. \A i \in 1 .. Len(rest) : i + size = size + i /\ i + size \in 1 .. Len(InFlight)
      BY <1>2, <1>3
    <2>2. QED
      BY <1>3, <2>1
  <1>14. QED
    BY <1>2, <1>3, <1>5, <1>6, <1>8, <1>9, <1>10, <1>11, <1>12, <1>13 DEF u, l, rest

\* When it goes on to the next part, that part is what follows.
LEMMA NextPartFlight ==
    ASSUME Inv, Receiving, Len(data) = size, Receiving', data' = <<>>,
           UNCHANGED <<senderVars, wireVars>>,
           \A v : Follows(Unit(data[1].message, data[1].header, data[1].part, size), v)
                   => Begins(v)'
    PROVE  FlightInv'
  <1> DEFINE u == data[1]
             l == Unit(u.message, u.header, u.part, size)
             rest == wire \o Pending
  <1>1. /\ Flow(rest) /\ Len(rest) \in Nat /\ l = data[size]
        /\ \A i \in 1 .. Len(rest) : i + size \in 1 .. Len(InFlight) /\ rest[i] = InFlight[i + size]
        /\ Len(InFlight) = size + Len(rest)
        /\ rest # <<>> => Follows(l, rest[1])
        /\ rest = <<>> /\ Sending => \A h \in Headers : Follows(l, NextUnit(h))
    BY WholePart
  <1>2. InFlight' = rest
    <2>1. wire \in Seq(Units) /\ Pending' = Pending /\ wire' = wire
      BY DEF Inv, SenderTypes, Pending, senderVars, wireVars
    <2>2. QED
      BY <2>1, NoUnits DEF InFlight, Arriving
  <1>3. UNCHANGED <<sender, sent, outgoing, part, broken>>
    BY DEF senderVars, wireVars
  <1>4. SenderTypes /\ ReceiverTypes /\ FlightInv /\ size \in Nat
    BY DEF Inv, ReceiverTypes
  <1> HIDE DEF rest, l
  <1>5. Labelled'
    <2>1. ASSUME NEW i \in 1 .. Len(rest)
          PROVE  /\ rest[i].message <= sent
                 /\ rest[i].header = EndHeader <=> rest[i].message = sent /\ outgoing = EndHeader
      BY <1>1, <1>4 DEF FlightInv, Labelled
    <2>2. QED
      BY <1>2, <1>3, <2>1 DEF Labelled
  <1>6. \A v : Follows(l, v) => Begins(v)'
    BY DEF l
  <1>7. ASSUME InFlight' # <<>> PROVE Begins(InFlight[1])'
    BY <1>1, <1>2, <1>6, <1>7 DEF Begins
  <1>8. ASSUME Sending', NEW h \in Headers PROVE Continued(NextUnit(h))'
    <2>1. Sending /\ NextUnit(h)' = NextUnit(h)
      BY <1>3, <1>8 DEF Sending, NextUnit
    <2>2. CASE rest = <<>>
      <3>1. Follows(l, NextUnit(h))
        BY <1>1, <2>1, <2>2
      <3>2. Begins(NextUnit(h))'
        BY <1>6, <2>1, <3>1 DEF Begins
      <3>3. QED
        BY <1>2, <2>2, <3>2 DEF Continued
    <2>3. CASE rest # <<>>
      <3>1. Len(rest) \in 1 .. Len(rest) /\ Len(rest) + size = Len(InFlight) /\ InFlight # <<>>
        BY <1>1, <1>4, <2>3, NoUnits, FlightFacts DEF Flow
      <3>2. rest[Len(rest)] = InFlight[Len(InFlight)]
        BY <1>1, <3>1
      <3>3. Continued(NextUnit(h))
        BY <1>4, <2>1 DEF FlightInv
      <3>4. Follows(rest[Len(rest)], NextUnit(h))
        BY <3>1, <3>2, <3>3 DEF Continued
      <3>5. QED
        BY <1>2, <2>1, <2>3, <3>4 DEF Continued
    <2>4. QED
      BY <2>2, <2>3
  <1>9. QED
    BY <1>1, <1>2, <1>5, <1>7, <1>8 DEF FlightInv

ReaderInv == ReadsPart /\ EndInv /\ FlightInv /\ ReceivedWhole

LEMMA RecvIntoKeeps ==
    ASSUME Inv, RecvInto
    PROVE  SenderTypes' /\ ReceiverTypes' /\ ReaderInv' /\ InFlight' = InFlight
  <1>1. SenderTypes /\ ReceiverTypes /\ ReaderInv
    BY DEF Inv, ReaderInv
  <1>2. SenderTypes' /\ ReceiverTypes' /\ Arriving' = Arriving
    BY <1>1, RecvIntoTypes
  <1>3. /\ UNCHANGED <<sender, sent, outgoing, part, unsent, broken>>
        /\ UNCHANGED <<receiver, size, header, variables, received>> /\ Receiving
    BY DEF RecvInto, senderVars, messageVars
  <1>4. InFlight' = InFlight
    BY <1>2, <1>3 DEF InFlight, Pending
  <1>5. FlightInv'
    <2>1. (Sending' <=> Sending) /\ \A h \in Headers : NextUnit(h)' = NextUnit(h)
      BY <1>3 DEF Sending, NextUnit
    <2>2. QED
      BY <1>1, <1>3, <1>4, <2>1, SameFlight DEF ReaderInv
  <1>6. ReadsPart' /\ EndInv' /\ ReceivedWhole'
    BY <1>1, <1>3 DEF ReaderInv, ReadsPart, EndInv, ReceivedWhole, Receiving
  <1>7. QED
    BY <1>2, <1>4, <1>5, <1>6 DEF ReaderInv

LEMMA RecvEndsKeeps ==
    ASSUME Inv, RecvEnds
    PROVE  SenderTypes' /\ ReceiverTypes' /\ ReaderInv' /\ InFlight' = InFlight
  <1>1. SenderTypes /\ ReceiverTypes /\ ReaderInv /\ Receiving /\ receiver' = "raised"
    BY DEF Inv, ReaderInv, RecvEnds, Raises
  <1>2. SenderTypes' /\ ReceiverTypes'
    BY <1>1, OtherTypes DEF RecvEnds
  <1>3. /\ UNCHANGED <<sender, sent, outgoing, part, unsent, broken, wire>>
        /\ UNCHANGED <<size, data, header, variables, received>>
        /\ wire = <<>> /\ (broken \/ sender \in {"closed", "aborted"})
    BY DEF RecvEnds, Raises, senderVars, wireVars, messageVars
  <1>4. InFlight' = InFlight
    BY <1>3 DEF InFlight, Arriving, Pending
  <1>5. FlightInv'
    <2>1. Flow(InFlight)' /\ Labelled'
      BY <1>1, <1>3, <1>4 DEF ReaderInv, FlightInv, Labelled
    <2>2. ASSUME InFlight' # <<>> PROVE Begins(InFlight[1])'
      <3>1. Begins(InFlight[1])
        BY <1>1, <1>4, <2>2 DEF ReaderInv, FlightInv, Receiving
      <3>2. QED
        BY <1>1, <1>3, <1>4, <3>1 DEF Begins, Receiving
    <2>3. ~Receiving'
      BY <1>1 DEF Receiving
    <2>4. QED
      BY <2>1, <2>2, <2>3 DEF FlightInv
  <1>6. EndInv'
    BY <1>1, <1>3 DEF EndInv, Sending
  <1>7. ReadsPart' /\ ReceivedWhole'
    BY <1>1, <1>3 DEF ReaderInv, ReadsPart, ReceivedWhole
  <1>8. QED
    BY <1>2, <1>4, <1>5, <1>6, <1>7 DEF ReaderInv

LEMMA ReadLengthKeeps ==
    ASSUME Inv, ReadLength
    PROVE  SenderTypes' /\ ReceiverTypes' /\ ReaderInv' /\ ReadsNext("header", HeaderUnits)
  <1> DEFINE u == data[1]
             l == Unit(u.message, u.header, u.part, size)
  <1>1. SenderTypes /\ ReceiverTypes /\ ReaderInv /\ Receiving /\ Len(data) = size
        /\ receiver = "length"
    BY DEF Inv, ReaderInv, ReadLength, Returned, Receiving
  <1>2. u \in Units /\ Begins(u) /\ EndsPart(l)
    BY <1>1, WholePart
  <1>3. /\ u.header \in Headers /\ u.part = 0 /\ u.message = Len(received) + 1
        /\ LastPart(u.header) # 0 /\ Length(u) = HeaderUnits /\ HeaderUnits \in Nat \ {0}
    BY <1>1, <1>2, UnitFacts, PartFacts, HeaderFacts DEF Begins, Length
  <1>4. /\ ReadsNext("header", HeaderUnits)
        /\ UNCHANGED <<senderVars, wireVars, messageVars, received>>
    BY <1>3 DEF ReadLength
  <1>5. UNCHANGED <<header, variables, received>> /\ receiver' = "header" /\ size' = HeaderUnits
        /\ data' = <<>> /\ Receiving'
    BY <1>4 DEF messageVars, ReadsNext, Receiving
  <1>6. SenderTypes' /\ ReceiverTypes'
    BY <1>1, <1>3, <1>4, <1>5, ReadsNextTypes DEF ReceiverTypes
  <1>7. FlightInv'
    <2>1. ASSUME NEW v, Follows(l, v) PROVE Begins(v)'
      <3>1. v.index = 1 /\ v.message = u.message /\ v.part = 1
        BY <1>2, <1>3, <2>1 DEF Follows, Unit
      <3>2. QED
        BY <1>3, <1>5, <3>1 DEF Begins
    <2>2. QED
      BY <1>1, <1>4, <1>5, <2>1, NextPartFlight
  <1>8. ReadsPart' /\ ReceivedWhole'
    BY <1>1, <1>5 DEF ReaderInv, ReadsPart, ReceivedWhole
  <1>9. EndInv'
    BY <1>5 DEF EndInv
  <1>10. QED
    BY <1>4, <1>6, <1>7, <1>8, <1>9 DEF ReaderInv

\* A header that has been read is that of a message sent.
LEMMA HeaderRead ==
    ASSUME Inv, Returned("header")
    PROVE  LET u == data[1]
           IN  u.part = 1 /\ u.message = Len(received) + 1 /\ u.header \in Headers
                 /\ Header = u.header /\ Receiving /\ Len(data) = size
  <1>1. Receiving /\ Len(data) = size /\ receiver = "header"
    BY DEF Returned, Receiving
  <1>2. /\ data[1] \in Units /\ Begins(data[1])
        /\ data = Part(data[1].message, data[1].header, data[1].part)
    BY <1>1, WholePart
  <1>3. data[1].part = 1 /\ data[1].message = Len(received) + 1 /\ data[1].header \in Headers
    BY <1>1, <1>2, UnitFacts DEF Begins
  <1>4. QED
    BY <1>1, <1>2, <1>3 DEF Header

LEMMA ReadHeaderDataKeeps ==
    ASSUME Inv, ReadHeaderData
    PROVE  /\ SenderTypes' /\ ReceiverTypes' /\ ReaderInv'
           /\ data' = <<>> /\ receiver' = "payload" /\ received' = received
           /\ UNCHANGED <<senderVars, wireVars>>
  <1> DEFINE u == data[1]
             l == Unit(u.message, u.header, u.part, size)
  <1>1. SenderTypes /\ ReceiverTypes /\ ReaderInv /\ Returned("header") /\ Header # EndHeader
    BY DEF Inv, ReaderInv, ReadHeaderData
  <1>2. /\ u.part = 1 /\ u.message = Len(received) + 1 /\ u.header \in Headers
        /\ Header = u.header /\ Receiving /\ Len(data) = size
    BY <1>1, HeaderRead
  <1>3. EndsPart(l)
    BY <1>2, WholePart
  <1>4. /\ Header \in DataHeaders /\ Header # Garbage
        /\ Len(Header.variables) = Arrays /\ LastPart(Header) = 1 + Arrays
        /\ Header.variables[1] \in AllDescriptions /\ Arrays \in Nat \ {0}
        /\ LastPart(Header) # 1
    BY <1>1, <1>2, HeaderFacts, GarbageAssumption DEF Headers
  <1>5. ValidSize(Header.variables[1]) /\ Header.variables[1].payload_nbytes \in Nat \ {0}
    BY <1>4, DescriptionFacts
  <1>6. /\ ReadsNext("payload", Header.variables[1].payload_nbytes)
        /\ header' = Header /\ variables' = <<>>
        /\ UNCHANGED <<senderVars, wireVars, received>>
    BY <1>4, <1>5 DEF ReadHeaderData
  <1>7. /\ receiver' = "payload" /\ size' = Header.variables[1].payload_nbytes /\ data' = <<>>
        /\ Receiving'
    BY <1>6 DEF ReadsNext, Receiving
  <1>8. <<>> \in Seq(Nat \X Nat) /\ Len(<<>>) = 0
    BY EmptySeq
  <1>9. SenderTypes' /\ ReceiverTypes'
    <2>1. header' \in Headers /\ variables' \in Seq(Nat \X Nat)
          /\ received' \in Seq(Seq(Nat \X Nat))
      BY <1>1, <1>2, <1>6, <1>8 DEF ReceiverTypes
    <2>2. QED
      BY <1>1, <1>5, <1>6, <2>1, ReadsNextTypes
  <1>10. FlightInv'
    <2>1. ASSUME NEW v, Follows(l, v) PROVE Begins(v)'
      <3>1. v.index = 1 /\ v.message = u.message /\ v.part = 2 /\ v.header = Header
        BY <1>2, <1>3, <1>4, <2>1 DEF Follows, Unit
      <3>2. QED
        BY <1>2, <1>6, <1>7, <1>8, <3>1 DEF Begins
    <2>2. QED
      BY <1>1, <1>2, <1>6, <1>7, <2>1, NextPartFlight DEF Inv, ReaderInv
  <1>11. ReadsPart'
    <2>1. PartSize(Header, 2) = Header.variables[1].payload_nbytes
      BY DEF PartSize
    <2>2. QED
      BY <1>4, <1>6, <1>7, <1>8, <2>1 DEF ReadsPart
  <1>12. EndInv' /\ ReceivedWhole'
    BY <1>1, <1>6, <1>7 DEF EndInv, ReaderInv, ReceivedWhole
  <1>13. QED
    BY <1>6, <1>7, <1>9, <1>10, <1>11, <1>12 DEF ReaderInv

\* After the end message there is nothing: neither on the way nor to be sent.
LEMMA ReadHeaderEndKeeps ==
    ASSUME Inv, ReadHeaderEnd
    PROVE  /\ SenderTypes' /\ ReceiverTypes' /\ ReaderInv'
           /\ receiver' = "finished" /\ UNCHANGED <<senderVars, wireVars, data, received>>
           /\ Receiving
  <1> DEFINE u == data[1]
             l == Unit(u.message, u.header, u.part, size)
             rest == wire \o Pending
  <1>1. /\ SenderTypes /\ ReceiverTypes /\ ReaderInv /\ SenderInv /\ Returned("header")
        /\ Header = EndHeader
    BY DEF Inv, ReaderInv, ReadHeaderEnd
  <1>2. /\ u.part = 1 /\ u.message = Len(received) + 1 /\ Header = u.header /\ Receiving
        /\ Len(data) = size
    BY <1>1, HeaderRead
  <1>3. /\ u \in Units
        /\ u.header = EndHeader <=> u.message = sent /\ outgoing = EndHeader
        /\ data[size] = l /\ EndsPart(l) /\ data # <<>>
        /\ \A i \in 1 .. Len(rest) : i + size \in 1 .. Len(InFlight) /\ rest[i] = InFlight[i + size]
        /\ rest # <<>> => Follows(l, rest[1])
        /\ rest = <<>> /\ Sending => \A h \in Headers : Follows(l, NextUnit(h))
    BY <1>2, WholePart
  <1>4. u.message = sent /\ outgoing = EndHeader /\ sent \in Nat \ {0}
    BY <1>1, <1>2, <1>3, UnitFacts
  <1>5. /\ wire \in Seq(Units) /\ Pending \in Seq(Units) /\ rest \in Seq(Units)
        /\ Len(wire) \in Nat /\ Len(Pending) \in Nat /\ Len(rest) = Len(wire) + Len(Pending)
    BY <1>1, FlightFacts, Joined DEF SenderTypes
  <1>6. ASSUME NEW v, Follows(l, v) PROVE v.message = sent + 1
    <2>1. l.part = LastPart(l.header) /\ l.message = sent
      BY <1>1, <1>2, <1>4, HeaderFacts DEF Unit
    <2>2. QED
      BY <1>3, <1>6, <2>1 DEF Follows
  <1> HIDE DEF rest, l
  <1>7. rest = <<>>
    <2>1. ASSUME rest # <<>> PROVE FALSE
      <3>1. 1 \in 1 .. Len(rest) /\ rest[1].message = sent + 1
        BY <1>3, <1>5, <1>6, <2>1, NoUnits
      <3>2. rest[1].message <= sent
        BY <1>1, <1>3, <3>1 DEF ReaderInv, FlightInv, Labelled
      <3>3. QED
        BY <1>4, <3>1, <3>2
    <2>2. QED
      BY <2>1
  <1>8. wire = <<>> /\ Pending = <<>>
    BY <1>5, <1>7, NoUnits
  <1>9. Sending => part = LastPart(outgoing)
    <2>1. ASSUME Sending PROVE part = LastPart(outgoing)
      <3>1. NextUnit(EndHeader).message = sent + 1
        BY <1>3, <1>6, <1>7, <2>1, HeaderFacts
      <3>2. sender = "sending"
        BY <1>1, <1>4, <2>1 DEF Sending, SenderInv
      <3>3. ~(part < LastPart(outgoing))
        <4>1. ASSUME part < LastPart(outgoing) PROVE FALSE
          <5>1. NextUnit(EndHeader).message = sent
            BY <3>2, <4>1 DEF NextUnit, Unit
          <5>2. QED
            BY <1>4, <3>1, <5>1
        <4>2. QED
          BY <4>1
      <3>4. QED
        BY <1>1, <3>3, PartFacts DEF SenderTypes
    <2>2. QED
      BY <2>1
  <1>10. EndsMessage(data[Len(data)]) /\ data[Len(data)].message = sent
    BY <1>1, <1>2, <1>3, <1>4, HeaderFacts DEF EndsMessage, EndsPart, Unit, l
  <1>11. /\ receiver' = "finished"
         /\ UNCHANGED <<senderVars, wireVars, size, data, messageVars, received>>
    BY DEF ReadHeaderEnd
  <1>12. /\ UNCHANGED <<sender, sent, outgoing, part, unsent, wire, broken>>
         /\ UNCHANGED <<header, variables>>
    BY <1>11 DEF senderVars, wireVars, messageVars
  <1>13. SenderTypes' /\ ReceiverTypes'
    BY <1>1, OtherTypes
  <1>14. EndInv'
    BY <1>2, <1>3, <1>4, <1>8, <1>9, <1>10, <1>11, <1>12 DEF EndInv, Pending, Sending
  <1>15. FlightInv'
    <2>1. InFlight' = InFlight
      BY <1>11, <1>12 DEF InFlight, Arriving, Pending
    <2>2. QED
      BY <1>1, <1>11, <1>12, <2>1 DEF ReaderInv, FlightInv, Labelled, Receiving
  <1>16. ReadsPart' /\ ReceivedWhole'
    BY <1>1, <1>11, <1>12 DEF ReaderInv, ReadsPart, ReceivedWhole
  <1>17. QED
    BY <1>2, <1>11, <1>13, <1>14, <1>15, <1>16 DEF ReaderInv

\* A payload that has been read is that of the next array of the message.
LEMMA PayloadRead ==
    ASSUME Inv, Returned("payload")
    PROVE  LET u == data[1]
           IN  /\ u.message = Len(received) + 1 /\ u.part = 2 + Len(variables)
               /\ u.header = header /\ header \in DataHeaders /\ Len(header.variables) = Arrays
               /\ Array(data) = <<Len(received) + 1, Len(variables) + 1>>
               /\ Len(variables) \in Nat /\ Len(received) \in Nat /\ Len(variables) < Arrays
               /\ Append(variables, Array(data)) \in Seq(Nat \X Nat)
               /\ Len(Append(variables, Array(data))) = Len(variables) + 1
               /\ \A a \in 1 .. Len(variables) + 1 :
                     Append(variables, Array(data))[a] = <<Len(received) + 1, a>>
               /\ Receiving /\ Len(data) = size
  <1> DEFINE u == data[1]
             v == <<Len(received) + 1, Len(variables) + 1>>
  <1>1. Receiving /\ Len(data) = size /\ receiver = "payload"
    BY DEF Returned, Receiving
  <1>2. u \in Units /\ Begins(u) /\ data = Part(u.message, u.header, u.part)
    BY <1>1, WholePart
  <1>3. /\ u.message = Len(received) + 1 /\ u.part = 2 + Len(variables) /\ u.header = header
        /\ header \in DataHeaders /\ Len(header.variables) = Arrays /\ Len(variables) < Arrays
        /\ \A a \in 1 .. Len(variables) : variables[a] = <<Len(received) + 1, a>>
    BY <1>1, <1>2, HeaderFacts DEF Begins, Inv, ReadsPart
  <1>4. /\ variables \in Seq(Nat \X Nat) /\ received \in Seq(Seq(Nat \X Nat))
        /\ Len(variables) \in Nat /\ Len(received) \in Nat
    BY LenProperties DEF Inv, ReceiverTypes
  <1>5. Array(data) = v
    <2>1. u.part > 1 /\ u.part - 1 = Len(variables) + 1
      BY <1>3, <1>4
    <2>2. QED
      BY <1>2, <1>3, <2>1 DEF Array
  <1>6. /\ Append(variables, v) \in Seq(Nat \X Nat)
        /\ Len(Append(variables, v)) = Len(variables) + 1
        /\ Append(variables, v)[Len(variables) + 1] = v
        /\ \A a \in 1 .. Len(variables) : Append(variables, v)[a] = variables[a]
    <2>1. v \in Nat \X Nat
      BY <1>4
    <2>2. QED
      BY <1>4, <2>1, AppendProperties
  <1>7. ASSUME NEW a \in 1 .. Len(variables) + 1
        PROVE  Append(variables, v)[a] = <<Len(received) + 1, a>>
    <2>1. CASE a \in 1 .. Len(variables)
      BY <1>3, <1>6, <2>1
    <2>2. CASE a = Len(variables) + 1
      BY <1>6, <2>2
    <2>3. QED
      BY <1>4, <2>1, <2>2
  <1>8. QED
    BY <1>1, <1>3, <1>4, <1>5, <1>6, <1>7

\* What a step that reads a payload does: another array is to come, or the message is whole.
NextArray(all) ==
    /\ variables' = all /\ UNCHANGED <<header, received>>
    /\ ReadsNext("payload", PartSize(header, 2 + Len(all)))

WholeMessage(all) ==
    /\ received' = Append(received, all)
    /\ variables' = <<>> /\ header' = EndHeader /\ ReadsNext("length", 1)

LEMMA PayloadCases ==
    ASSUME Inv, ReadPayload
    PROVE  LET all == Append(variables, Array(data))
           IN  /\ UNCHANGED <<senderVars, wireVars>>
               /\ \/ Len(all) < Arrays /\ NextArray(all)
                  \/ Len(all) = Arrays /\ WholeMessage(all)
  <1> DEFINE all == Append(variables, Array(data))
  <1>1. Returned("payload") /\ UNCHANGED <<senderVars, wireVars>>
    BY DEF ReadPayload
  <1>2. /\ header \in DataHeaders /\ Len(header.variables) = Arrays /\ Len(all) = Len(variables) + 1
        /\ Len(variables) \in Nat /\ Len(variables) < Arrays /\ Arrays \in Nat
    BY <1>1, PayloadRead, HeaderFacts
  <1>3. CASE Len(all) = Arrays
    BY <1>1, <1>2, <1>3 DEF ReadPayload, WholeMessage
  <1>4. CASE Len(all) # Arrays
    <2> DEFINE n == Len(all)
    <2>1. n \in Nat /\ n + 1 \in 1 .. Arrays /\ n < Arrays
      BY <1>2, <1>4
    <2>2. header.variables[n + 1] \in AllDescriptions
      BY <1>2, <2>1, HeaderFacts
    <2>3. ValidSize(header.variables[n + 1])
      BY <2>2, DescriptionFacts
    <2>4. PartSize(header, 2 + n) = header.variables[n + 1].payload_nbytes
      <3>1. 2 + n # 0 /\ 2 + n # 1 /\ (2 + n) - 1 = n + 1
        BY <2>1
      <3>2. QED
        BY <3>1 DEF PartSize
    <2>5. NextArray(all)
      BY <1>2, <1>4, <2>3, <2>4 DEF ReadPayload, NextArray
    <2>6. QED
      BY <1>1, <2>1, <2>5
  <1>5. QED
    BY <1>3, <1>4

LEMMA NextArrayKeeps ==
    ASSUME Inv, Returned("payload"), UNCHANGED <<senderVars, wireVars>>,
           Len(Append(variables, Array(data))) < Arrays, NextArray(Append(variables, Array(data)))
    PROVE  SenderTypes' /\ ReceiverTypes' /\ ReaderInv'
  <1> DEFINE u == data[1]
             l == Unit(u.message, u.header, u.part, size)
             all == Append(variables, Array(data))
             n == Len(variables)
  <1>1. SenderTypes /\ ReceiverTypes /\ ReaderInv
    BY DEF Inv, ReaderInv
  <1>2. /\ u.message = Len(received) + 1 /\ u.part = 2 + n /\ u.header = header
        /\ header \in DataHeaders /\ n \in Nat /\ Len(received) \in Nat
        /\ all \in Seq(Nat \X Nat) /\ Len(all) = n + 1 /\ Receiving /\ Len(data) = size
        /\ \A a \in 1 .. n + 1 : all[a] = <<Len(received) + 1, a>>
    BY PayloadRead
  <1>3. header \in Headers /\ LastPart(header) = 1 + Arrays /\ Arrays \in Nat \ {0}
    BY <1>2, HeaderFacts
  <1>4. EndsPart(l)
    BY <1>2, WholePart
  <1> HIDE DEF all, n
  <1>5. /\ variables' = all /\ UNCHANGED <<header, received>> /\ data' = <<>>
        /\ receiver' = "payload" /\ size' = PartSize(header, 2 + Len(all)) /\ Receiving'
        /\ ReadsNext("payload", PartSize(header, 2 + Len(all)))
    BY DEF NextArray, ReadsNext, Receiving, all
  <1>6. n + 1 < Arrays /\ Len(all) < Arrays
    BY <1>2 DEF all
  <1>7. PartSize(header, 2 + Len(all)) \in Nat \ {0}
    <2>1. 2 + Len(all) \in 0 .. LastPart(header)
      BY <1>2, <1>3, <1>6
    <2>2. QED
      BY <1>3, <2>1, PartFacts
  <1>8. SenderTypes' /\ ReceiverTypes'
    <2>1. header' \in Headers /\ variables' \in Seq(Nat \X Nat)
          /\ received' \in Seq(Seq(Nat \X Nat))
      BY <1>1, <1>2, <1>3, <1>5 DEF ReceiverTypes
    <2>2. QED
      BY <1>1, <1>5, <1>7, <2>1, ReadsNextTypes
  <1>9. FlightInv'
    <2>1. ASSUME NEW v, Follows(l, v) PROVE Begins(v)'
      <3>1. l.part # LastPart(l.header) /\ l.message = u.message /\ l.header = header
            /\ l.part = 2 + n
        BY <1>2, <1>3, <1>6 DEF Unit
      <3>2. v.index = 1 /\ v.message = u.message /\ v.part = (2 + n) + 1 /\ v.header = header
        BY <1>4, <2>1, <3>1 DEF Follows
      <3>3. (2 + n) + 1 = 2 + Len(all)
        BY <1>2
      <3>4. QED
        BY <1>2, <1>5, <3>2, <3>3 DEF Begins
    <2>2. QED
      BY <1>2, <1>5, <2>1, NextPartFlight
  <1>10. ReadsPart' /\ EndInv' /\ ReceivedWhole'
    BY <1>1, <1>2, <1>5, <1>6 DEF ReaderInv, ReadsPart, EndInv, ReceivedWhole
  <1>11. QED
    BY <1>8, <1>9, <1>10 DEF ReaderInv

LEMMA WholeMessageKeeps ==
    ASSUME Inv, Returned("payload"), UNCHANGED <<senderVars, wireVars>>,
           Len(Append(variables, Array(data))) = Arrays,
           WholeMessage(Append(variables, Array(data)))
    PROVE  SenderTypes' /\ ReceiverTypes' /\ ReaderInv' /\ Len(received') = Len(received) + 1
  <1> DEFINE u == data[1]
             l == Unit(u.message, u.header, u.part, size)
             all == Append(variables, Array(data))
             n == Len(variables)
             m == Len(received)
  <1>1. SenderTypes /\ ReceiverTypes /\ ReaderInv
    BY DEF Inv, ReaderInv
  <1>2. /\ u.message = m + 1 /\ u.part = 2 + n /\ u.header = header
        /\ header \in DataHeaders /\ n \in Nat /\ m \in Nat
        /\ all \in Seq(Nat \X Nat) /\ Len(all) = n + 1 /\ Receiving /\ Len(data) = size
        /\ \A a \in 1 .. n + 1 : all[a] = <<m + 1, a>>
    BY PayloadRead
  <1>3. LastPart(header) = 1 + Arrays /\ Arrays \in Nat \ {0} /\ EndHeader \in Headers
    BY <1>2, HeaderFacts
  <1>4. EndsPart(l)
    BY <1>2, WholePart
  <1> HIDE DEF all, n, m
  <1>5. /\ received' = Append(received, all) /\ variables' = <<>> /\ header' = EndHeader
        /\ data' = <<>> /\ receiver' = "length" /\ size' = 1 /\ Receiving'
        /\ ReadsNext("length", 1)
    BY DEF WholeMessage, ReadsNext, Receiving, all
  <1>6. n + 1 = Arrays /\ Len(all) = Arrays
    BY <1>2 DEF all
  <1>7. /\ received' \in Seq(Seq(Nat \X Nat)) /\ Len(received') = m + 1
        /\ received'[m + 1] = all /\ \A i \in 1 .. m : received'[i] = received[i]
    BY <1>1, <1>2, <1>5, AppendProperties DEF ReceiverTypes, m
  <1>8. <<>> \in Seq(Nat \X Nat) /\ Len(<<>>) = 0
    BY EmptySeq
  <1>9. SenderTypes' /\ ReceiverTypes'
    <2>1. header' \in Headers /\ variables' \in Seq(Nat \X Nat) /\ 1 \in Nat \ {0}
      BY <1>3, <1>5, <1>8
    <2>2. QED
      BY <1>1, <1>5, <1>7, <2>1, ReadsNextTypes
  <1>10. FlightInv'
    <2>1. ASSUME NEW v, Follows(l, v) PROVE Begins(v)'
      <3>1. l.part = LastPart(l.header) /\ l.message = m + 1
        BY <1>2, <1>3, <1>6 DEF Unit
      <3>2. v.index = 1 /\ v.message = (m + 1) + 1 /\ v.part = 0
        BY <1>4, <2>1, <3>1 DEF Follows
      <3>3. QED
        BY <1>5, <1>7, <3>2 DEF Begins
    <2>2. QED
      BY <1>2, <1>5, <2>1, NextPartFlight
  <1>11. ReceivedWhole'
    <2>1. all = [a \in 1 .. Arrays |-> <<m + 1, a>>]
      <3> DEFINE f == [a \in 1 .. Arrays |-> <<m + 1, a>>]
      <3>1. f \in Seq(Nat \X Nat) /\ Len(f) = Arrays
        BY <1>2, <1>3
      <3>2. \A a \in 1 .. Arrays : all[a] = f[a]
        BY <1>2, <1>6
      <3> HIDE DEF f
      <3>3. all = f
        BY <1>2, <1>6, <3>1, <3>2, SeqEqual
      <3>4. QED
        BY <3>3 DEF f
    <2>2. \A i \in 1 .. m : received'[i] = [a \in 1 .. Arrays |-> <<i, a>>]
      BY <1>1, <1>7 DEF ReaderInv, ReceivedWhole, m
    <2>3. ASSUME NEW i \in 1 .. m + 1 PROVE received'[i] = [a \in 1 .. Arrays |-> <<i, a>>]
      <3>1. CASE i \in 1 .. m
        BY <2>2, <3>1
      <3>2. CASE i = m + 1
        BY <1>7, <2>1, <3>2
      <3>3. QED
        BY <1>2, <3>1, <3>2
    <2>4. QED
      BY <1>7, <2>3 DEF ReceivedWhole
  <1>12. ReadsPart' /\ EndInv'
    BY <1>5, <1>8 DEF ReadsPart, EndInv
  <1>13. QED
    BY <1>7, <1>9, <1>10, <1>11, <1>12 DEF ReaderInv, m

-------------------------------------------------------------------------------
(* The invariant holds.                                                    *)

\* The sender is at a message with the next number.
LEMMA SenderKeeps ==
    ASSUME Inv,
           \/ SendArrays \/ SendEnd \/ SendAll \/ SendNext \/ SendReturns \/ SendFails \/ Abort
           \/ UNCHANGED senderVars
    PROVE  SenderInv'
  <1>1. /\ SenderTypes /\ SenderInv /\ sent \in Nat /\ unsent \in Seq(Units) /\ Messages \in Nat
        /\ Len(<<>>) = 0
    BY NumberAssumption, NoUnits DEF Inv, SenderTypes
  <1>2. ASSUME NEW m \in Nat \ {0}, NEW h \in Headers, NEW k \in 0 .. LastPart(h)
        PROVE  \A i \in 1 .. Len(Part(m, h, k)) : Part(m, h, k)[i].message = m
    BY PartIsUnits
  <1>3. ASSUME NEW h \in Headers, SendHeader(h),
               sent + 1 <= Messages \/ (h = EndHeader /\ sent + 1 = Messages + 1)
        PROVE  SenderInv'
    <2>1. sender' = "sending" /\ sent' = sent + 1 /\ outgoing' = h /\ unsent' = Part(sent + 1, h, 0)
      BY <1>3 DEF SendHeader, SendPart
    <2>2. 0 \in 0 .. LastPart(h) /\ sent + 1 \in Nat \ {0}
      BY <1>1, PartFacts
    <2>3. \A i \in 1 .. Len(unsent') : unsent'[i].message = sent'
      BY <1>2, <2>1, <2>2
    <2>4. QED
      BY <1>1, <1>3, <2>1, <2>3 DEF SenderInv
  <1>4. CASE SendArrays
    <2>1. PICK h \in DataHeaders : SendHeader(h)
      BY <1>4 DEF SendArrays
    <2>2. h \in Headers /\ sent + 1 <= Messages
      BY <1>1, <1>4, HeaderFacts DEF SendArrays
    <2>3. QED
      BY <1>3, <2>1, <2>2
  <1>5. CASE SendEnd
    <2>1. SendHeader(EndHeader) /\ EndHeader \in Headers
      BY <1>5, HeaderFacts DEF SendEnd
    <2>2. sent + 1 <= Messages \/ sent + 1 = Messages + 1
      BY <1>1, <2>1 DEF SenderInv, SendHeader
    <2>3. QED
      BY <1>3, <2>1, <2>2
  <1>6. CASE SendAll
    <2>1. PICK n \in 1 .. Len(unsent) : unsent' = SubSeq(unsent, n + 1, Len(unsent))
      BY <1>6 DEF SendAll
    <2>2. /\ n \in 0 .. Len(unsent) /\ Len(unsent') = Len(unsent) - n /\ Len(unsent) \in Nat
          /\ \A i \in 1 .. Len(unsent) - n : unsent'[i] = unsent[n + i]
      BY <1>1, <2>1, Cut, NoUnits
    <2>3. ASSUME NEW i \in 1 .. Len(unsent') PROVE unsent'[i].message = sent
      <3>1. n + i \in 1 .. Len(unsent) /\ unsent'[i] = unsent[n + i]
        BY <2>2
      <3>2. QED
        BY <1>1, <3>1 DEF SenderInv
    <2>4. sender = "sending" /\ UNCHANGED <<sender, sent, outgoing>>
      BY <1>1, <1>6 DEF SendAll, SenderInv
    <2>5. QED
      BY <1>1, <2>3, <2>4 DEF SenderInv
  <1>7. CASE SendNext
    <2>1. /\ sender = "sending" /\ UNCHANGED <<sender, sent, outgoing>>
          /\ unsent' = Part(sent, outgoing, part + 1)
      BY <1>7 DEF SendNext, SendPart
    <2>2. /\ sent \in Nat \ {0} /\ outgoing \in Headers /\ part + 1 \in 0 .. LastPart(outgoing)
      BY <1>1, <1>7, <2>1, PartFacts DEF SenderInv, SenderTypes, SendNext
    <2>3. \A i \in 1 .. Len(unsent') : unsent'[i].message = sent'
      BY <1>2, <2>1, <2>2
    <2>4. QED
      BY <1>1, <2>1, <2>3 DEF SenderInv
  <1>8. CASE SendReturns \/ SendFails \/ Abort
    BY <1>1, <1>8 DEF SendReturns, SendFails, Abort, SenderInv
  <1>9. CASE UNCHANGED senderVars
    BY <1>1, <1>9 DEF SenderInv, senderVars
  <1>10. QED
    BY <1>4, <1>5, <1>6, <1>7, <1>8, <1>9

\* The sender and the connection leave the receiver alone, and one that is done stays so.
LEMMA EndKeeps ==
    ASSUME Inv,
           \/ \E h \in Headers : SendHeader(h)
           \/ SendAll \/ SendNext \/ SendReturns \/ SendFails \/ Abort \/ Break
    PROVE  ReadsPart' /\ EndInv' /\ ReceivedWhole'
  <1>1. /\ SenderTypes /\ ReceiverTypes /\ SenderInv /\ ReadsPart /\ EndInv /\ ReceivedWhole
        /\ Len(received) \in Nat /\ wire \in Seq(Units)
    BY LenProperties DEF Inv, ReceiverTypes, SenderTypes
  <1>2. UNCHANGED <<receiver, size, data, header, variables, received>>
    BY DEF SendHeader, SendAll, SendNext, SendReturns, SendFails, Abort, Break, receiverVars,
           messageVars
  <1>3. ReadsPart' /\ ReceivedWhole'
    BY <1>1, <1>2 DEF ReadsPart, ReceivedWhole
  <1>4. CASE \E h \in Headers : SendHeader(h)
    <2>1. sender = "idle" /\ UNCHANGED <<wire, broken>>
      BY <1>4 DEF SendHeader, wireVars
    <2>2. receiver # "finished"
      BY <1>1, <2>1 DEF EndInv, SenderInv
    <2>3. QED
      BY <1>1, <1>2, <1>3, <2>1, <2>2 DEF EndInv, Sending
  <1>5. CASE SendNext
    <2>1. /\ sender = "sending" /\ part < LastPart(outgoing)
          /\ UNCHANGED <<sender, sent, outgoing, wire, broken>>
      BY <1>5 DEF SendNext, wireVars
    <2>2. part # LastPart(outgoing)
      BY <1>1, <2>1, PartFacts DEF SenderTypes
    <2>3. QED
      BY <1>1, <1>2, <1>3, <2>1, <2>2 DEF EndInv, Sending
  <1>6. CASE SendAll
    <2>1. /\ sender = "sending" /\ unsent # <<>> /\ (broken => wire' = wire)
          /\ UNCHANGED <<sender, sent, outgoing, part, broken>>
      BY <1>1, <1>6 DEF SendAll, SenderInv
    <2>2. QED
      BY <1>1, <1>2, <1>3, <2>1 DEF EndInv, Sending
  <1>7. CASE SendReturns \/ SendFails \/ Abort
    <2>1. /\ UNCHANGED <<sent, outgoing, part, wire, broken>>
          /\ unsent' = unsent \/ unsent' = <<>>
          /\ Sending' => Sending
      BY <1>7 DEF SendReturns, SendFails, Abort, wireVars, Sending
    <2>2. QED
      BY <1>1, <1>2, <1>3, <2>1 DEF EndInv
  <1>8. CASE Break
    <2>1. UNCHANGED <<sender, sent, outgoing, part, unsent>> /\ broken' = TRUE
      BY <1>8 DEF Break, senderVars
    <2>2. wire = <<>> => wire' = <<>>
      <3>1. PICK n \in 0 .. Len(wire) : wire' = SubSeq(wire, 1, n)
        BY <1>8 DEF Break
      <3>2. wire' \in Seq(Units) /\ Len(wire') = n
        BY <1>1, <3>1, Cut
      <3>3. QED
        BY <3>2, NoUnits
    <2>3. QED
      BY <1>1, <1>2, <1>3, <2>1, <2>2 DEF EndInv, Sending
  <1>9. QED
    BY <1>3, <1>4, <1>5, <1>6, <1>7, <1>8

LEMMA InitEstablishes == Init => Inv
  <1> SUFFICES ASSUME Init PROVE Inv
    OBVIOUS
  <1> USE DEF Init
  <1>1. <<>> \in Seq(Units) /\ Len(<<>>) = 0 /\ <<>> \in Seq(Nat \X Nat)
        /\ <<>> \in Seq(Seq(Nat \X Nat)) /\ EndHeader \in Headers /\ LastPart(EndHeader) = 1
    BY EmptySeq, HeaderFacts
  <1>2. SenderTypes
    <2>1. part \in 0 .. LastPart(outgoing) /\ unsent \in Seq(Units) /\ wire \in Seq(Units)
      BY <1>1
    <2>2. QED
      BY <1>1, <2>1 DEF SenderTypes
  <1>3. ReceiverTypes
    BY <1>1 DEF ReceiverTypes
  <1>4. SenderInv
    <2>1. \A i \in 1 .. Len(unsent) : FALSE
      BY <1>1
    <2>2. QED
      BY <2>1 DEF SenderInv
  <1>5. ReadsPart /\ EndInv /\ ReceivedWhole
    BY <1>1 DEF ReadsPart, EndInv, ReceivedWhole
  <1>6. InFlight = <<>>
    BY <1>1, NoUnits DEF InFlight, Arriving, Pending
  <1>7. Flow(InFlight) /\ Labelled
    <2>1. \A i \in 1 .. Len(InFlight) : FALSE
      BY <1>1, <1>6
    <2>2. \A i \in 1 .. Len(InFlight) - 1 : FALSE
      BY <1>1, <1>6
    <2>3. QED
      BY <1>1, <1>6, <2>1, <2>2 DEF Flow, InPart, AcrossParts, Ascending, Labelled
  <1>8. ASSUME NEW h \in Headers PROVE Continued(NextUnit(h))
    BY <1>1, <1>6 DEF Continued, NextUnit, Begins, Unit
  <1>9. QED
    BY <1>2, <1>3, <1>4, <1>5, <1>6, <1>7, <1>8 DEF Inv, FlightInv

LEMMA NextKeeps == Inv /\ [Next]_vars => Inv'
  <1> SUFFICES ASSUME Inv, [Next]_vars PROVE Inv'
    OBVIOUS
  <1>1. SenderTypes /\ ReceiverTypes
    BY DEF Inv
  <1>2. ASSUME SenderTypes', ReceiverTypes', SenderInv', ReaderInv' PROVE Inv'
    BY <1>2 DEF Inv, ReaderInv
  <1>3. ASSUME SendArrays \/ SendEnd PROVE Inv'
    <2>1. PICK h \in Headers : SendHeader(h)
      BY <1>3, HeaderFacts DEF SendArrays, SendEnd
    <2>2. SenderTypes' /\ ReceiverTypes' /\ FlightInv'
      BY <2>1, SendHeaderFlight
    <2>3. SenderInv'
      BY <1>3, SenderKeeps
    <2>4. ReadsPart' /\ EndInv' /\ ReceivedWhole'
      BY <2>1, EndKeeps
    <2>5. QED
      BY <1>2, <2>2, <2>3, <2>4 DEF ReaderInv
  <1>4. CASE SendAll
    <2>1. SenderTypes' /\ ReceiverTypes' /\ FlightInv' /\ SenderInv'
      BY <1>1, <1>4, SendAllTypes, SendAllFlight, SenderKeeps
    <2>2. ReadsPart' /\ EndInv' /\ ReceivedWhole'
      BY <1>4, EndKeeps
    <2>3. QED
      BY <1>2, <2>1, <2>2 DEF ReaderInv
  <1>5. CASE SendNext
    <2>1. SenderTypes' /\ ReceiverTypes' /\ FlightInv' /\ SenderInv'
      BY <1>5, SendNextFlight, SenderKeeps
    <2>2. ReadsPart' /\ EndInv' /\ ReceivedWhole'
      BY <1>5, EndKeeps
    <2>3. QED
      BY <1>2, <2>1, <2>2 DEF ReaderInv
  <1>6. CASE SendReturns \/ SendFails \/ Abort
    <2>1. SenderTypes' /\ ReceiverTypes' /\ FlightInv' /\ SenderInv'
      BY <1>1, <1>6, OtherTypes, SendEndsFlight, SenderKeeps
    <2>2. ReadsPart' /\ EndInv' /\ ReceivedWhole'
      BY <1>6, EndKeeps
    <2>3. QED
      BY <1>2, <2>1, <2>2 DEF ReaderInv
  <1>7. CASE Break
    <2>1. SenderTypes' /\ ReceiverTypes' /\ FlightInv'
      BY <1>1, <1>7, BreakTypes, BreakFlight
    <2>2. SenderInv'
      BY <1>7, SenderKeeps DEF Break
    <2>3. ReadsPart' /\ EndInv' /\ ReceivedWhole'
      BY <1>7, EndKeeps
    <2>4. QED
      BY <1>2, <2>1, <2>2, <2>3 DEF ReaderInv
  <1>8. CASE ReceiverStep
    <2>1. SenderTypes' /\ ReceiverTypes' /\ ReaderInv'
      <3>1. CASE ReadPayload
        <4>1. Returned("payload")
          BY <3>1 DEF ReadPayload
        <4>2. QED
          BY <3>1, <4>1, PayloadCases, NextArrayKeeps, WholeMessageKeeps
      <3>2. CASE ReadHeaderData \/ ReadHeaderEnd \/ ReadLength
        BY <3>2, ReadHeaderDataKeeps, ReadHeaderEndKeeps, ReadLengthKeeps
      <3>3. CASE RecvInto \/ RecvEnds
        BY <3>3, RecvIntoKeeps, RecvEndsKeeps
      <3>4. QED
        BY <1>8, <3>1, <3>2, <3>3 DEF ReceiverStep
    <2>2. UNCHANGED senderVars
      BY <1>8 DEF ReceiverStep, RecvInto, RecvEnds, ReadLength, ReadHeaderEnd, ReadHeaderData,
                  ReadPayload, ReadsNext, Raises
    <2>3. QED
      BY <1>2, <2>1, <2>2, SenderKeeps
  <1>9. CASE UNCHANGED vars
    <2>1. /\ UNCHANGED <<sender, sent, outgoing, part, unsent, wire, broken, receiver, size>>
          /\ UNCHANGED <<data, header, variables, received>>
      BY <1>9 DEF vars, senderVars, wireVars, receiverVars, messageVars
    <2>2. SenderTypes' /\ ReceiverTypes'
      BY <1>1, <1>9, OtherTypes
    <2>3. SenderInv'
      BY <2>1, SenderKeeps DEF senderVars
    <2>4. ReadsPart' /\ EndInv' /\ ReceivedWhole'
      BY <2>1 DEF Inv, ReadsPart, EndInv, ReceivedWhole, Sending
    <2>5. FlightInv'
      <3>1. InFlight' = InFlight /\ (Sending' <=> Sending)
            /\ \A h \in Headers : NextUnit(h)' = NextUnit(h)
        BY <2>1 DEF InFlight, Arriving, Pending, Sending, NextUnit
      <3>2. QED
        BY <2>1, <3>1, SameFlight DEF Inv
    <2>6. QED
      BY <1>2, <2>2, <2>3, <2>4, <2>5 DEF ReaderInv
  <1>10. QED
    BY <1>3, <1>4, <1>5, <1>6, <1>7, <1>8, <1>9 DEF Next, SenderStep, Done

\* The types hold.
THEOREM TypesCorrect == Spec => [](SenderTypes /\ ReceiverTypes)
  <1>1. Inv => SenderTypes /\ ReceiverTypes
    BY DEF Inv
  <1>2. QED
    BY <1>1, InitEstablishes, NextKeeps, PTL DEF Spec

\* Each message is returned whole and in its turn, wherever the pieces that sendall sends
\* and recv_into returns begin and end, and however the connection ends.
THEOREM MessagesWhole == Spec => []ReceivedWhole
  <1>1. Inv => ReceivedWhole
    BY DEF Inv
  <1>2. QED
    BY <1>1, InitEstablishes, NextKeeps, PTL DEF Spec

\* Nothing of what a sender sends is rejected: receive_message raises only when the
\* connection has failed or was closed, with nothing left to read.
RaisesAtEnd == receiver = "raised" => wire = <<>> /\ (broken \/ sender \in {"closed", "aborted"})

\* It reads the end only when each message sent in front of it has been returned.
FinishesLast == receiver = "finished" => outgoing = EndHeader /\ sent = Len(received) + 1

THEOREM OnlyTheEndEnds == Spec => [](RaisesAtEnd /\ FinishesLast)
  <1>1. Inv => RaisesAtEnd /\ FinishesLast
    BY DEF Inv, EndInv, SenderTypes, Sending, RaisesAtEnd, FinishesLast
  <1>2. QED
    BY <1>1, InitEstablishes, NextKeeps, PTL DEF Spec

-------------------------------------------------------------------------------
(* The framed stream is a channel of messages.                             *)

NotAhead == Len(received) <= sent

LEMMA CompleteAscends ==
    ASSUME NEW s, Flow(s), NEW i \in 1 .. Len(s), NEW j \in 1 .. Len(s), i <= j
    PROVE  Complete(s[i]) <= Complete(s[j]) /\ Complete(s[i]) \in Nat /\ Complete(s[j]) \in Nat
  <1>1. /\ s[i].message \in Nat \ {0} /\ s[j].message \in Nat \ {0}
        /\ Len(s) \in Nat /\ s[i].message <= s[j].message
    BY ElementOfSeq, LenProperties, UnitFacts DEF Flow, Ascending
  <1>2. Complete(s[i]) \in Nat /\ Complete(s[j]) \in Nat
    BY <1>1 DEF Complete
  <1>3. CASE i = j
    BY <1>2, <1>3
  <1>4. CASE i # j /\ EndsMessage(s[i])
    <2>1. i \in 1 .. Len(s) - 1 /\ i + 1 \in 1 .. Len(s) /\ i + 1 <= j
      BY <1>1, <1>4
    <2>2. Follows(s[i], s[i + 1]) /\ s[i + 1].message <= s[j].message
      BY <2>1, Neighbours DEF Flow, Ascending
    <2>3. s[i + 1].message = s[i].message + 1
      BY <1>4, <2>2 DEF Follows, EndsMessage, EndsPart
    <2>4. s[i].message <= s[j].message - 1
      BY <1>1, <2>2, <2>3
    <2>5. QED
      BY <1>1, <1>4, <2>4 DEF Complete
  <1>5. CASE ~EndsMessage(s[i])
    BY <1>1, <1>5 DEF Complete
  <1>6. QED
    BY <1>2, <1>3, <1>4, <1>5

LEMMA ThroughFacts ==
    ASSUME Inv, NotAhead
    PROVE  /\ Got \in Nat /\ Through \in Nat /\ Got <= Through /\ Through <= sent
           /\ Arriving = <<>> => Through = Got
           /\ Arriving # <<>> => Through = Complete(Arriving[Len(Arriving)])
  <1> DEFINE k == Len(Arriving)
             latest == Arriving[k]
             m == Len(received)
  <1>1. /\ SenderTypes /\ ReceiverTypes /\ FlightInv /\ EndInv /\ m \in Nat /\ sent \in Nat
        /\ m <= sent /\ Arriving \in Seq(Units) /\ k \in Nat
    BY FlightFacts, LenProperties DEF Inv, ReceiverTypes, SenderTypes, NotAhead
  <1>2. Got \in Nat /\ Got = (IF receiver = "finished" THEN m + 1 ELSE m)
    BY <1>1 DEF Got
  <1>3. /\ Arriving = <<>> => Through = Got
        /\ Arriving # <<>> => Through = Complete(latest)
    BY DEF Through, Arriving
  <1>4. CASE receiver = "finished"
    <2>1. data \in Seq(Units) /\ wire = <<>> /\ data # <<>> /\ data[Len(data)].message = sent
          /\ EndsMessage(data[Len(data)]) /\ sent = m + 1
      BY <1>1, <1>4 DEF EndInv, ReceiverTypes
    <2>2. Arriving = data
      BY <2>1, NoUnits DEF Arriving
    <2>3. Through = sent
      BY <1>3, <2>1, <2>2 DEF Complete
    <2>4. QED
      BY <1>1, <1>2, <1>3, <1>4, <2>1, <2>3
  <1>5. CASE receiver # "finished" /\ Arriving = <<>>
    BY <1>1, <1>2, <1>3, <1>5
  <1>6. CASE receiver # "finished" /\ Arriving # <<>>
    <2>1. k \in 1 .. Len(InFlight) /\ 1 \in 1 .. Len(InFlight) /\ 1 <= k /\ InFlight[k] = latest
          /\ InFlight # <<>>
      BY <1>1, <1>6, FlightFacts, NoUnits
    <2>2. Flow(InFlight) /\ InFlight[1].message = m + 1 /\ latest.message <= sent
      BY <1>1, <1>6, <2>1 DEF FlightInv, Labelled, Begins
    <2>3. latest.message \in Nat \ {0} /\ m + 1 <= latest.message
      BY <2>1, <2>2, ElementOfSeq, UnitFacts DEF Flow, Ascending
    <2>4. m <= Complete(latest) /\ Complete(latest) \in Nat /\ Complete(latest) <= sent
      BY <1>1, <2>2, <2>3 DEF Complete
    <2>5. QED
      BY <1>2, <1>3, <1>6, <2>4
  <1>7. QED
    BY <1>4, <1>5, <1>6

LEMMA NotAheadKept == Inv /\ NotAhead /\ [Next]_vars => NotAhead'
  <1> SUFFICES ASSUME Inv, NotAhead, [Next]_vars PROVE NotAhead'
    OBVIOUS
  <1>1. sent \in Nat /\ Len(received) \in Nat
    BY LenProperties DEF Inv, SenderTypes, ReceiverTypes
  <1>2. CASE ReadPayload
    <2> DEFINE all == Append(variables, Array(data))
    <2>1. Returned("payload") /\ UNCHANGED <<senderVars, wireVars>>
      BY <1>2 DEF ReadPayload
    <2>2. CASE Len(all) = Arrays /\ WholeMessage(all)
      <3>1. Len(received') = Len(received) + 1
        BY <2>1, <2>2, WholeMessageKeeps
      <3>2. data[1].message = Len(received) + 1 /\ Receiving /\ Len(data) = size
        BY <2>1, PayloadRead
      <3>3. data[1].message <= sent
        BY <3>2, WholePart
      <3>4. QED
        BY <1>1, <2>1, <3>1, <3>2, <3>3 DEF NotAhead, senderVars
    <2>3. CASE NextArray(all)
      BY <2>1, <2>3 DEF NextArray, NotAhead, senderVars
    <2>4. QED
      BY <1>2, <2>2, <2>3, PayloadCases
  <1>3. CASE SendArrays \/ SendEnd
    BY <1>1, <1>3 DEF SendArrays, SendEnd, SendHeader, NotAhead, receiverVars
  <1>4. CASE SenderStep \/ SendFails \/ Abort \/ Break
    BY <1>4 DEF SenderStep, SendAll, SendNext, SendReturns, SendFails, Abort, Break, NotAhead,
                senderVars, receiverVars
  <1>5. CASE RecvInto \/ RecvEnds \/ ReadLength \/ ReadHeaderEnd \/ ReadHeaderData
    BY <1>5 DEF RecvInto, RecvEnds, ReadLength, ReadHeaderEnd, ReadHeaderData, Raises, NotAhead,
                senderVars
  <1>6. CASE UNCHANGED vars
    BY <1>6 DEF vars, senderVars, receiverVars, NotAhead
  <1>7. QED
    BY <1>2, <1>3, <1>4, <1>5, <1>6 DEF Next, ReceiverStep, Done

\* Sequences of messages, by number: the one numbered s is the end if o is its header.
Name(m, s, o) == IF m = s /\ o = EndHeader THEN End ELSE m
Names(g, n, s, o) == [i \in 1 .. n |-> Name(g + i, s, o)]

LEMMA NamesFacts ==
    ASSUME NEW g \in Nat, NEW n \in Nat, NEW s, NEW o
    PROVE  /\ Names(g, n, s, o) \in Seq(Nat \cup {End}) /\ Len(Names(g, n, s, o)) = n
           /\ \A i \in 1 .. n : Names(g, n, s, o)[i] = Name(g + i, s, o)
  <1>1. \A i \in 1 .. n : Name(g + i, s, o) \in Nat \cup {End}
    BY DEF Name
  <1>2. Names(g, n, s, o) \in [1 .. n -> Nat \cup {End}]
    BY <1>1 DEF Names
  <1>3. QED
    BY <1>2 DEF Names

LEMMA NamesGrow ==
    ASSUME NEW g \in Nat, NEW n \in Nat, NEW s, NEW o
    PROVE  Names(g, n + 1, s, o) = Append(Names(g, n, s, o), Name(g + (n + 1), s, o))
  <1> DEFINE a == Names(g, n, s, o)
             b == Names(g, n + 1, s, o)
             e == Name(g + (n + 1), s, o)
  <1>1. /\ a \in Seq(Nat \cup {End}) /\ Len(a) = n
        /\ \A i \in 1 .. n : a[i] = Name(g + i, s, o)
        /\ b \in Seq(Nat \cup {End}) /\ Len(b) = n + 1
        /\ \A i \in 1 .. n + 1 : b[i] = Name(g + i, s, o)
    BY NamesFacts
  <1>2. e \in Nat \cup {End}
    BY DEF Name
  <1> HIDE DEF a, b, e
  <1>3. /\ Append(a, e) \in Seq(Nat \cup {End}) /\ Len(Append(a, e)) = n + 1
        /\ \A i \in 1 .. n : Append(a, e)[i] = a[i]
        /\ Append(a, e)[n + 1] = e
    BY <1>1, <1>2, AppendProperties
  <1>4. ASSUME NEW i \in 1 .. n + 1 PROVE b[i] = Append(a, e)[i]
    <2>1. CASE i \in 1 .. n
      BY <1>1, <1>3, <2>1
    <2>2. CASE i = n + 1
      BY <1>1, <1>3, <2>2 DEF e
    <2>3. i \in 1 .. n \/ i = n + 1
      BY <1>4
    <2>4. QED
      BY <2>1, <2>2, <2>3
  <1>5. b = Append(a, e)
    BY <1>1, <1>3, <1>4, SeqEqual
  <1>6. QED
    BY <1>5 DEF a, b, e

LEMMA NamesShrink ==
    ASSUME NEW g \in Nat, NEW n \in Nat \ {0}, NEW s, NEW o
    PROVE  /\ Names(g, n, s, o) # <<>> /\ Head(Names(g, n, s, o)) = Name(g + 1, s, o)
           /\ Tail(Names(g, n, s, o)) = Names(g + 1, n - 1, s, o)
  <1> DEFINE a == Names(g, n, s, o)
             b == Names(g + 1, n - 1, s, o)
  <1>1. /\ a \in Seq(Nat \cup {End}) /\ Len(a) = n
        /\ \A i \in 1 .. n : a[i] = Name(g + i, s, o)
        /\ b \in Seq(Nat \cup {End}) /\ Len(b) = n - 1
        /\ \A i \in 1 .. n - 1 : b[i] = Name((g + 1) + i, s, o)
    <2>1. g + 1 \in Nat /\ n - 1 \in Nat
      OBVIOUS
    <2>2. QED
      BY <2>1, NamesFacts
  <1> HIDE DEF a, b
  <1>2. a # <<>> /\ Head(a) = a[1] /\ 1 \in 1 .. n
    BY <1>1, EmptySeq, HeadTailProperties
  <1>3. /\ Tail(a) \in Seq(Nat \cup {End}) /\ Len(Tail(a)) = n - 1
        /\ \A i \in 1 .. n - 1 : Tail(a)[i] = a[i + 1]
    BY <1>1, <1>2, HeadTailProperties
  <1>4. ASSUME NEW i \in 1 .. n - 1 PROVE Tail(a)[i] = b[i]
    <2>1. i + 1 \in 1 .. n /\ g + (i + 1) = (g + 1) + i
      OBVIOUS
    <2>2. QED
      BY <1>1, <1>3, <2>1
  <1>5. Tail(a) = b
    BY <1>1, <1>3, <1>4, SeqEqual
  <1>6. QED
    BY <1>1, <1>2, <1>5 DEF a, b

LEMMA NamesCut ==
    ASSUME NEW g \in Nat, NEW n \in Nat, NEW k \in 0 .. n, NEW s, NEW o
    PROVE  SubSeq(Names(g, n, s, o), 1, k) = Names(g, k, s, o)
  <1> DEFINE a == Names(g, n, s, o)
             b == Names(g, k, s, o)
             c == SubSeq(a, 1, k)
  <1>1. /\ a \in Seq(Nat \cup {End}) /\ Len(a) = n
        /\ \A i \in 1 .. n : a[i] = Name(g + i, s, o)
        /\ b \in Seq(Nat \cup {End}) /\ Len(b) = k
        /\ \A i \in 1 .. k : b[i] = Name(g + i, s, o)
    BY NamesFacts
  <1> HIDE DEF a, b
  <1>2. \A i \in 1 .. k : a[i] \in Nat \cup {End}
    BY <1>1, ElementOfSeq
  <1>3. /\ c \in Seq(Nat \cup {End}) /\ Len(c) = IF 1 <= k THEN (k - 1) + 1 ELSE 0
        /\ \A i \in 1 .. (k - 1) + 1 : c[i] = a[(1 + i) - 1]
    BY <1>1, <1>2, SubSeqProperties
  <1>4. Len(c) = k /\ \A i \in 1 .. k : c[i] = a[i]
    BY <1>3
  <1> HIDE DEF c
  <1>5. c = b
    BY <1>1, <1>3, <1>4, SeqEqual
  <1>6. QED
    BY <1>5 DEF a, b, c

\* The next message does not change what is the end among those in front of it.
LEMMA NamesKept ==
    ASSUME NEW g \in Nat, NEW n \in Nat, NEW s \in Nat, NEW o, NEW p, g + n <= s,
           o # EndHeader \/ s = 0
    PROVE  Names(g, n, s + 1, p) = Names(g, n, s, o)
  <1>1. \A i \in 1 .. n : Name(g + i, s + 1, p) = g + i /\ Name(g + i, s, o) = g + i
    BY DEF Name
  <1>2. QED
    BY <1>1 DEF Names

\* The variables of the channel.
ChannelStream == Names(Got, Through - Got, sent, outgoing)
ChannelReceived == Names(0, Got, sent, outgoing)
ChannelOpen == ~broken /\ sender \notin {"closed", "aborted"}

LEMMA ChannelVariables ==
    ASSUME Got \in Nat
    PROVE  /\ ChannelStream = [i \in 1 .. Through - Got |-> MessageOf(Got + i)]
           /\ ChannelReceived = [m \in 1 .. Got |-> MessageOf(m)]
  <1>1. \A i \in 1 .. Got : Name(0 + i, sent, outgoing) = MessageOf(i)
    BY DEF Name, MessageOf
  <1>2. ChannelReceived = [m \in 1 .. Got |-> MessageOf(m)]
    BY <1>1 DEF ChannelReceived, Names
  <1>3. QED
    BY <1>2 DEF ChannelStream, Names, Name, MessageOf

ChannelSame == UNCHANGED <<ChannelStream, ChannelReceived, ChannelOpen>>
ChannelPut ==
    /\ ChannelOpen
    /\ \E m \in (1 .. Messages) \cup {End} : ChannelStream' = Append(ChannelStream, m)
    /\ UNCHANGED <<ChannelReceived, ChannelOpen>>
ChannelGet ==
    /\ ChannelStream # <<>>
    /\ ChannelStream' = Tail(ChannelStream)
    /\ ChannelReceived' = Append(ChannelReceived, Head(ChannelStream))
    /\ UNCHANGED ChannelOpen
ChannelLose ==
    /\ ChannelOpen' = FALSE
    /\ \E n \in 0 .. Len(ChannelStream) : ChannelStream' = SubSeq(ChannelStream, 1, n)
    /\ UNCHANGED ChannelReceived

\* Messages come through one at a time.
LEMMA MapsToPut ==
    ASSUME Inv, NotAhead, UNCHANGED <<sent, outgoing, sender, broken>>,
           ChannelOpen, Got' = Got, Through' = Through \/ Through' = Through + 1,
           Through' <= sent
    PROVE  ChannelSame \/ ChannelPut
  <1>1. Got \in Nat /\ Through \in Nat /\ Got <= Through
    BY ThroughFacts
  <1>2. UNCHANGED <<ChannelReceived, ChannelOpen>>
    BY DEF ChannelReceived, ChannelOpen
  <1>3. CASE Through' = Through
    BY <1>2, <1>3 DEF ChannelStream, ChannelSame
  <1>4. CASE Through' = Through + 1
    <2> DEFINE n == Through - Got
               t == Through + 1
    <2>1. n \in Nat /\ Through' - Got' = n + 1 /\ Got + (n + 1) = t
      BY <1>1, <1>4
    <2> HIDE DEF n
    <2>2. Names(Got, n + 1, sent, outgoing)
            = Append(Names(Got, n, sent, outgoing), Name(Got + (n + 1), sent, outgoing))
      BY <1>1, <2>1, NamesGrow
    <2>3. ChannelStream' = Append(ChannelStream, Name(t, sent, outgoing))
      <3>1. ChannelStream' = Names(Got, n + 1, sent, outgoing)
        BY <2>1 DEF ChannelStream
      <3>2. ChannelStream = Names(Got, n, sent, outgoing)
        BY DEF ChannelStream, n
      <3>3. QED
        BY <2>1, <2>2, <3>1, <3>2
    <2>4. Name(t, sent, outgoing) \in (1 .. Messages) \cup {End}
      <3>1. /\ t \in Nat \ {0} /\ t <= sent /\ sent \in Nat /\ Messages \in Nat
            /\ sent <= Messages \/ (outgoing = EndHeader /\ sent = Messages + 1)
        BY <1>1, <1>4, NumberAssumption DEF Inv, SenderInv, SenderTypes
      <3>2. CASE t = sent /\ outgoing = EndHeader
        BY <3>2 DEF Name
      <3>3. CASE ~(t = sent /\ outgoing = EndHeader)
        <4>1. t <= Messages /\ Name(t, sent, outgoing) = t
          BY <3>1, <3>3 DEF Name
        <4>2. QED
          BY <3>1, <4>1
      <3>4. QED
        BY <3>2, <3>3
    <2>5. QED
      BY <1>2, <2>3, <2>4 DEF ChannelPut
  <1>5. QED
    BY <1>3, <1>4

LEMMA MapsToGet ==
    ASSUME Inv, NotAhead, UNCHANGED <<sent, outgoing, sender, broken>>,
           Through' = Through, \/ Got' = Got
                               \/ Got' = Got + 1 /\ Got + 1 <= Through
    PROVE  ChannelSame \/ ChannelGet
  <1>1. Got \in Nat /\ Through \in Nat
    BY ThroughFacts
  <1>2. UNCHANGED ChannelOpen
    BY DEF ChannelOpen
  <1>3. CASE Got' = Got
    BY <1>2, <1>3 DEF ChannelStream, ChannelReceived, ChannelSame
  <1>4. CASE Got' = Got + 1 /\ Got + 1 <= Through
    <2> DEFINE n == Through - Got
    <2>1. n \in Nat \ {0} /\ Through' - Got' = n - 1 /\ 0 + (Got + 1) = Got + 1
      BY <1>1, <1>4
    <2>2. /\ Names(Got, n, sent, outgoing) # <<>>
          /\ Head(Names(Got, n, sent, outgoing)) = Name(Got + 1, sent, outgoing)
          /\ Tail(Names(Got, n, sent, outgoing)) = Names(Got + 1, n - 1, sent, outgoing)
      BY <1>1, <2>1, NamesShrink
    <2>3. /\ ChannelStream # <<>> /\ Head(ChannelStream) = Name(Got + 1, sent, outgoing)
          /\ ChannelStream' = Tail(ChannelStream)
      BY <1>4, <2>1, <2>2 DEF ChannelStream
    <2>4. Names(0, Got + 1, sent, outgoing)
            = Append(Names(0, Got, sent, outgoing), Name(0 + (Got + 1), sent, outgoing))
      BY <1>1, NamesGrow
    <2>5. ChannelReceived' = Append(ChannelReceived, Head(ChannelStream))
      BY <1>4, <2>1, <2>3, <2>4 DEF ChannelReceived
    <2>6. QED
      BY <1>2, <2>3, <2>5 DEF ChannelGet
  <1>5. QED
    BY <1>3, <1>4

LEMMA MapsToLose ==
    ASSUME Inv, NotAhead, UNCHANGED <<sent, outgoing>>, ChannelOpen' = FALSE,
           Got' = Got, Through' \in Nat, Got' <= Through', Through' <= Through
    PROVE  ChannelLose
  <1> DEFINE n == Through - Got
             k == Through' - Got
  <1>1. Got \in Nat /\ Through \in Nat /\ n \in Nat /\ k \in 0 .. n
    BY ThroughFacts
  <1> HIDE DEF n, k
  <1>2. /\ SubSeq(Names(Got, n, sent, outgoing), 1, k) = Names(Got, k, sent, outgoing)
        /\ Len(Names(Got, n, sent, outgoing)) = n
    BY <1>1, NamesCut, NamesFacts
  <1>3. ChannelStream' = SubSeq(ChannelStream, 1, k) /\ Len(ChannelStream) = n
    BY <1>2 DEF ChannelStream, n, k
  <1>4. ChannelReceived' = ChannelReceived
    BY DEF ChannelReceived
  <1>5. QED
    BY <1>1, <1>3, <1>4 DEF ChannelLose

\* Where there is nothing to read, or something of a message, less has come through.
LEMMA ArrivingIsThrough ==
    ASSUME UNCHANGED <<data, wire, received, receiver>>
    PROVE  Got' = Got /\ Through' = Through
  BY DEF Got, Through

LEMMA SendHeaderMaps ==
    ASSUME Inv, NotAhead, NEW h \in Headers, SendHeader(h)
    PROVE  ChannelSame
  <1>1. /\ UNCHANGED <<data, wire, received, receiver, broken>> /\ sender = "idle"
        /\ sender' = "sending" /\ sent' = sent + 1
    BY DEF SendHeader, wireVars, receiverVars
  <1>2. Got' = Got /\ Through' = Through
    BY <1>1, ArrivingIsThrough
  <1>3. /\ Got \in Nat /\ Through \in Nat /\ Got <= Through /\ Through <= sent /\ sent \in Nat
        /\ outgoing # EndHeader \/ sent = 0
    BY <1>1, ThroughFacts DEF Inv, SenderTypes, SenderInv
  <1>4. ChannelStream' = ChannelStream
    <2> DEFINE n == Through - Got
    <2>1. n \in Nat /\ Got + n <= sent
      BY <1>3
    <2>2. Names(Got, n, sent + 1, outgoing') = Names(Got, n, sent, outgoing)
      BY <1>3, <2>1, NamesKept
    <2>3. QED
      BY <1>1, <1>2, <2>2 DEF ChannelStream
  <1>5. ChannelReceived' = ChannelReceived
    <2>1. 0 \in Nat /\ 0 + Got <= sent
      BY <1>3
    <2>2. Names(0, Got, sent + 1, outgoing') = Names(0, Got, sent, outgoing)
      BY <1>3, <2>1, NamesKept
    <2>3. QED
      BY <1>1, <1>2, <2>2 DEF ChannelReceived
  <1>6. ChannelOpen' = ChannelOpen
    BY <1>1 DEF ChannelOpen
  <1>7. QED
    BY <1>4, <1>5, <1>6 DEF ChannelSame

\* While a message is being sent, those in front of it have come through.
LEMMA SendAllThrough ==
    ASSUME Inv, NotAhead, ~broken, unsent # <<>>
    PROVE  Through = sent - 1 /\ unsent[1].message = sent
  <1> DEFINE k == Len(Arriving)
             latest == Arriving[k]
  <1>1. /\ SenderTypes /\ ReceiverTypes /\ FlightInv /\ EndInv /\ SenderInv
        /\ unsent \in Seq(Units) /\ Len(unsent) \in Nat \ {0} /\ 1 \in 1 .. Len(unsent)
        /\ sent \in Nat /\ Len(received) \in Nat
    BY NoUnits, LenProperties DEF Inv, SenderTypes, ReceiverTypes
  <1>2. unsent[1].message = sent /\ Pending = unsent /\ receiver # "finished"
    BY <1>1 DEF SenderInv, Pending, EndInv
  <1>3. /\ Arriving \in Seq(Units) /\ InFlight \in Seq(Units) /\ k \in Nat
        /\ Len(InFlight) = k + Len(unsent) /\ InFlight[k + 1] = unsent[1]
        /\ \A i \in 1 .. k : InFlight[i] = Arriving[i]
    BY <1>1, <1>2, FlightFacts, NoUnits
  <1>4. /\ Arriving = <<>> => Through = Got
        /\ Arriving # <<>> => Through = Complete(latest)
    BY ThroughFacts
  <1>5. CASE Arriving = <<>>
    <2>1. InFlight # <<>> /\ InFlight[1] = unsent[1]
      BY <1>1, <1>3, <1>5, NoUnits
    <2>2. sent = Len(received) + 1
      BY <1>1, <1>2, <2>1 DEF FlightInv, Begins
    <2>3. Got = Len(received)
      BY <1>1, <1>2 DEF Got
    <2>4. QED
      BY <1>1, <1>2, <1>4, <1>5, <2>2, <2>3
  <1>6. CASE Arriving # <<>>
    <2>1. k \in 1 .. Len(InFlight) - 1 /\ InFlight[k] = latest /\ latest \in Units
      BY <1>1, <1>3, <1>6, NoUnits, ElementOfSeq
    <2>2. Follows(latest, unsent[1])
      BY <1>1, <1>3, <2>1, Neighbours DEF FlightInv
    <2>3. latest.message \in Nat
      BY <2>1, UnitFacts
    <2>4. CASE EndsMessage(latest)
      <3>1. sent = latest.message + 1
        BY <1>2, <2>2, <2>4 DEF Follows, EndsMessage, EndsPart
      <3>2. QED
        BY <1>2, <1>4, <1>6, <2>3, <2>4, <3>1 DEF Complete
    <2>5. CASE ~EndsMessage(latest)
      <3>1. sent = latest.message
        BY <1>2, <2>2, <2>5 DEF Follows, EndsMessage, EndsPart, Unit
      <3>2. QED
        BY <1>2, <1>4, <1>6, <2>5, <3>1 DEF Complete
    <2>6. QED
      BY <2>4, <2>5
  <1>7. QED
    BY <1>5, <1>6

LEMMA SendAllMaps ==
    ASSUME Inv, NotAhead, SendAll
    PROVE  ChannelSame \/ ChannelPut
  <1>1. /\ SenderTypes /\ ReceiverTypes /\ SenderInv /\ unsent # <<>> /\ sent \in Nat
        /\ UNCHANGED <<sender, sent, outgoing, part, broken, data, received, receiver>>
    BY DEF Inv, SenderTypes, SendAll, receiverVars
  <1>2. Got' = Got
    BY <1>1 DEF Got
  <1>3. PICK n \in 1 .. Len(unsent) :
           wire' = IF broken THEN wire ELSE wire \o SubSeq(unsent, 1, n)
    BY DEF SendAll
  <1>4. CASE broken
    <2>1. Got' = Got /\ Through' = Through
      BY <1>1, <1>3, <1>4, ArrivingIsThrough
    <2>2. QED
      BY <1>1, <2>1 DEF ChannelSame, ChannelStream, ChannelReceived, ChannelOpen
  <1>5. CASE ~broken
    <2> DEFINE piece == SubSeq(unsent, 1, n)
               all == Arriving \o piece
    <2>1. /\ unsent \in Seq(Units) /\ wire \in Seq(Units) /\ data \in Seq(Units)
          /\ Arriving \in Seq(Units) /\ n \in Nat \ {0} /\ n \in 0 .. Len(unsent)
      BY <1>1, NoUnits, FlightFacts DEF SenderTypes, ReceiverTypes
    <2>2. /\ piece \in Seq(Units) /\ Len(piece) = n /\ n \in 1 .. n
          /\ \A i \in 1 .. n : piece[i] = unsent[i]
      BY <2>1, Cut
    <2> HIDE DEF piece
    <2>3. Arriving' = all
      <3>1. (data \o wire) \o piece = data \o (wire \o piece)
        BY <2>1, <2>2, Regrouped
      <3>2. QED
        BY <1>1, <1>3, <1>5, <3>1 DEF Arriving, piece
    <2>4. all \in Seq(Units) /\ all # <<>> /\ all[Len(all)] = unsent[n]
      <3>1. /\ all \in Seq(Units) /\ Len(all) = Len(Arriving) + n /\ Len(Arriving) \in Nat
            /\ all[Len(Arriving) + n] = piece[n]
        BY <2>1, <2>2, Joined
      <3>2. Len(all) # 0
        BY <2>1, <3>1
      <3>3. QED
        BY <2>2, <3>1, <3>2, NoUnits
    <2> HIDE DEF all
    <2>5. Through' = Complete(unsent[n])
      BY <2>3, <2>4 DEF Through, Arriving
    <2>6. unsent[n].message = sent /\ Through = sent - 1
      BY <1>1, <1>5, SendAllThrough DEF SenderInv
    <2>7. Through' <= sent /\ (Through' = Through \/ Through' = Through + 1)
      BY <1>1, <2>5, <2>6 DEF Complete
    <2>8. ChannelOpen
      BY <1>1, <1>5 DEF ChannelOpen, SenderInv
    <2>9. QED
      BY <1>1, <1>2, <2>7, <2>8, MapsToPut
  <1>6. QED
    BY <1>4, <1>5

\* Steps that leave what arrives alone, and may close the connection.
LEMMA SenderMaps ==
    ASSUME Inv, NotAhead, SendNext \/ SendReturns \/ SendFails \/ Abort
    PROVE  ChannelSame \/ ChannelLose
  <1>1. UNCHANGED <<sent, outgoing, data, wire, received, receiver, broken>>
    BY DEF SendNext, SendReturns, SendFails, Abort, wireVars, receiverVars
  <1>2. Got' = Got /\ Through' = Through
    BY <1>1, ArrivingIsThrough
  <1>3. Got \in Nat /\ Through \in Nat /\ Got <= Through
    BY ThroughFacts
  <1>4. CASE SendNext \/ (SendReturns /\ sender' = "idle")
    <2>1. ChannelOpen' = ChannelOpen
      BY <1>1, <1>4 DEF SendNext, SendReturns, ChannelOpen
    <2>2. QED
      BY <1>1, <1>2, <2>1 DEF ChannelSame, ChannelStream, ChannelReceived
  <1>5. CASE (SendReturns /\ sender' # "idle") \/ SendFails \/ Abort
    <2>1. ChannelOpen' = FALSE
      BY <1>5 DEF SendReturns, SendFails, Abort, ChannelOpen
    <2>2. Through' \in Nat /\ Got' <= Through' /\ Through' <= Through
      BY <1>2, <1>3
    <2>3. QED
      BY <1>1, <1>2, <2>1, <2>2, MapsToLose
  <1>6. QED
    BY <1>4, <1>5

\* The latest messages are lost, never one that has been returned.
LEMMA BreakMaps ==
    ASSUME Inv, NotAhead, Break
    PROVE  ChannelLose
  <1>1. /\ SenderTypes /\ ReceiverTypes /\ FlightInv /\ EndInv
        /\ UNCHANGED <<sent, outgoing, data, received, receiver>> /\ wire \in Seq(Units)
        /\ data \in Seq(Units) /\ ChannelOpen' = FALSE /\ Got' = Got
    BY DEF Inv, Break, SenderTypes, ReceiverTypes, senderVars, receiverVars, ChannelOpen, Got
  <1>2. /\ Got \in Nat /\ Through \in Nat /\ Got <= Through
        /\ Arriving # <<>> => Through = Complete(Arriving[Len(Arriving)])
    BY ThroughFacts
  <1>3. PICK n \in 0 .. Len(wire) : wire' = SubSeq(wire, 1, n)
    BY DEF Break
  <1>4. wire' \in Seq(Units) /\ Len(wire') = n /\ \A i \in 1 .. n : wire'[i] = wire[i]
    BY <1>1, <1>3, Cut
  <1> DEFINE i == Len(data) + n
             k == Len(Arriving)
  <1>5. /\ Arriving' = data \o wire' /\ Arriving' \in Seq(Units) /\ Len(Arriving') = i
        /\ \A j \in 1 .. Len(data) : Arriving'[j] = data[j]
        /\ \A j \in 1 .. n : Arriving'[Len(data) + j] = wire'[j]
    BY <1>1, <1>4, Joined DEF Arriving
  <1>6. /\ i \in Nat /\ k \in Nat /\ i <= k /\ k <= Len(InFlight) /\ n \in Nat
        /\ Len(data) \in Nat /\ Len(wire) \in Nat /\ Len(InFlight) \in Nat
        /\ \A j \in 1 .. k : InFlight[j] = Arriving[j]
        /\ \A j \in 1 .. Len(data) : Arriving[j] = data[j]
        /\ \A j \in 1 .. Len(wire) : Arriving[Len(data) + j] = wire[j]
    BY <1>1, FlightFacts, NoUnits
  <1> HIDE DEF k
  <1>7. /\ Arriving' = <<>> => Through' = Got
        /\ Arriving' # <<>> => Through' = Complete(Arriving'[i])
    BY <1>1, <1>5 DEF Through, Arriving
  <1>8. CASE receiver = "finished"
    <2>1. n = 0 /\ wire = <<>>
      BY <1>1, <1>6, <1>8, NoUnits DEF EndInv
    <2>2. wire' = wire
      BY <1>4, <2>1, NoUnits
    <2>3. Through' = Through
      BY <1>1, <2>2, ArrivingIsThrough
    <2>4. Through' \in Nat /\ Got' <= Through' /\ Through' <= Through
      BY <1>1, <1>2, <2>3
    <2>5. QED
      BY <1>1, <2>4, MapsToLose
  <1>9. CASE Arriving' = <<>>
    <2>1. Through' \in Nat /\ Got' <= Through' /\ Through' <= Through
      BY <1>1, <1>2, <1>7, <1>9
    <2>2. QED
      BY <1>1, <2>1, MapsToLose
  <1>10. CASE receiver # "finished" /\ Arriving' # <<>>
    <2>1. i \in 1 .. k /\ k \in 1 .. Len(InFlight) /\ i \in 1 .. Len(InFlight)
          /\ 1 \in 1 .. Len(InFlight) /\ 1 <= i /\ i <= k
      BY <1>5, <1>6, <1>10, NoUnits
    <2>2. Arriving'[i] = InFlight[i]
      <3>1. CASE n = 0
        <4>1. i = Len(data) /\ i \in 1 .. Len(data)
          BY <1>6, <2>1, <3>1
        <4>2. Arriving'[i] = data[i] /\ InFlight[i] = Arriving[i] /\ Arriving[i] = data[i]
          BY <1>5, <1>6, <2>1, <4>1
        <4>3. QED
          BY <4>2
      <3>2. CASE n # 0
        <4>1. n \in 1 .. n /\ n \in 1 .. Len(wire) /\ Len(data) + n = i
          BY <1>6, <3>2
        <4>2. Arriving'[i] = wire'[n] /\ wire'[n] = wire[n]
          BY <1>4, <1>5, <4>1
        <4>3. InFlight[i] = Arriving[i] /\ Arriving[i] = wire[n]
          BY <1>6, <2>1, <4>1
        <4>4. QED
          BY <4>2, <4>3
      <3>3. QED
        BY <3>1, <3>2
    <2>3. Flow(InFlight) /\ InFlight # <<>> /\ InFlight \in Seq(Units)
      BY <1>1, <2>1, EmptySeq DEF FlightInv, Flow
    <2> HIDE DEF i
    <2>4. Complete(InFlight[i]) <= Complete(InFlight[k]) /\ Complete(InFlight[i]) \in Nat
      BY <2>1, <2>3, CompleteAscends
    <2>5. Through = Complete(InFlight[k])
      <3>1. Len(Arriving) # 0 /\ InFlight[k] = Arriving[k]
        BY <1>6, <2>1 DEF k
      <3>2. Arriving # <<>>
        BY <3>1, EmptySeq
      <3>3. QED
        BY <1>2, <3>1, <3>2 DEF k
    <2>6. Got <= Complete(InFlight[i])
      <3>1. InFlight[1].message = Len(received) + 1 /\ Got = Len(received)
        BY <1>1, <1>10, <2>3 DEF FlightInv, Begins, Got
      <3>2. InFlight[1].message <= InFlight[i].message /\ InFlight[i].message \in Nat
        BY <2>1, <2>3, ElementOfSeq, UnitFacts DEF Flow, Ascending
      <3>3. QED
        BY <1>2, <3>1, <3>2 DEF Complete
    <2>7. Through' = Complete(InFlight[i])
      BY <1>7, <1>10, <2>2 DEF i
    <2>8. QED
      BY <1>1, <1>2, <2>4, <2>5, <2>6, <2>7, MapsToLose
  <1>11. QED
    BY <1>8, <1>9, <1>10

\* A part that has been read, and perhaps a message with it.
LEMMA PartReadMaps ==
    ASSUME Inv, NotAhead, Receiving, Len(data) = size, data' = <<>>,
           UNCHANGED <<senderVars, wireVars>>,
           Got' = Complete(Unit(data[1].message, data[1].header, data[1].part, size)),
           Got' = Got \/ Got' = Got + 1
    PROVE  ChannelSame \/ ChannelGet
  <1> DEFINE u == data[1]
             l == Unit(u.message, u.header, u.part, size)
             k == Len(Arriving)
  <1>1. /\ SenderTypes /\ ReceiverTypes /\ FlightInv /\ wire \in Seq(Units) /\ data \in Seq(Units)
        /\ size \in Nat \ {0}
        /\ UNCHANGED <<sender, sent, outgoing, broken, wire>>
    BY DEF Inv, SenderTypes, ReceiverTypes, senderVars, wireVars
  <1>2. /\ Got \in Nat /\ Through \in Nat
        /\ Arriving # <<>> => Through = Complete(Arriving[k])
    BY ThroughFacts
  <1>3. data[size] = l /\ data # <<>>
    BY WholePart
  <1> HIDE DEF l, u
  <1>4. /\ k = size + Len(wire) /\ Len(wire) \in Nat /\ k \in 1 .. Len(InFlight)
        /\ size \in 1 .. Len(InFlight) /\ size <= k /\ Arriving # <<>>
        /\ InFlight[size] = l /\ InFlight[k] = Arriving[k]
    <2>1. /\ Len(wire) \in Nat /\ k = Len(data) + Len(wire) /\ Arriving \in Seq(Units)
          /\ Len(InFlight) = k + Len(Pending) /\ Len(Pending) \in Nat
          /\ \A i \in 1 .. Len(data) : Arriving[i] = data[i]
          /\ \A i \in 1 .. k : InFlight[i] = Arriving[i]
      BY <1>1, FlightFacts
    <2> HIDE DEF k
    <2>2. /\ k = size + Len(wire) /\ size \in 1 .. Len(data) /\ size \in 1 .. k /\ k \in 1 .. k
          /\ k \in 1 .. Len(InFlight) /\ size \in 1 .. Len(InFlight) /\ size <= k /\ k # 0
      BY <1>1, <2>1
    <2>3. InFlight[size] = l /\ InFlight[k] = Arriving[k]
      BY <1>3, <2>1, <2>2
    <2>4. Arriving # <<>>
      BY <2>1, <2>2, NoUnits DEF k
    <2>5. QED
      BY <2>1, <2>2, <2>3, <2>4
  <1>5. Through = Complete(InFlight[k])
    BY <1>2, <1>4
  <1>6. Complete(l) <= Through
    BY <1>1, <1>4, <1>5, CompleteAscends DEF FlightInv
  <1>7. Through' = Through
    <2>1. Arriving' = wire
      BY <1>1, NoUnits DEF Arriving
    <2>2. CASE wire = <<>>
      <3>1. k = size
        BY <1>1, <1>4, <2>2, NoUnits
      <3>2. Through' = Got' /\ Through = Complete(l)
        BY <1>4, <1>5, <2>1, <2>2, <3>1 DEF Through, Arriving
      <3>3. QED
        BY <3>2 DEF l, u
    <2>3. CASE wire # <<>>
      <3>1. Len(wire) \in 1 .. Len(wire) /\ Len(data) + Len(wire) = k
        BY <1>1, <1>4, <2>3, NoUnits
      <3>2. Arriving[k] = wire[Len(wire)]
        BY <1>1, <3>1, FlightFacts
      <3>3. Through' = Complete(wire[Len(wire)])
        BY <2>1, <2>3 DEF Through, Arriving
      <3>4. QED
        BY <1>2, <1>4, <3>2, <3>3
    <2>4. QED
      BY <2>2, <2>3
  <1>8. Got' = Complete(l)
    BY DEF l, u
  <1>9. QED
    BY <1>1, <1>2, <1>6, <1>7, <1>8, MapsToGet

LEMMA ReceiverMaps ==
    ASSUME Inv, NotAhead, ReceiverStep
    PROVE  ChannelSame \/ ChannelGet
  <1> DEFINE u == data[1]
             l == Unit(u.message, u.header, u.part, size)
  <1>1. /\ ReceiverTypes /\ Len(received) \in Nat /\ sent \in Nat
        /\ receiver # "finished" => Got = Len(received)
        /\ receiver' # "finished" => Got' = Len(received')
        /\ receiver' = "finished" => Got' = Len(received') + 1
    BY LenProperties DEF Inv, SenderTypes, ReceiverTypes, Got
  <1>2. ASSUME Receiving, Len(data) = size
        PROVE  EndsPart(l) /\ u.message = Len(received) + 1 /\ receiver # "finished"
    BY <1>2, WholePart DEF Begins, Receiving
  <1>3. ASSUME Receiving, Len(data) = size, u.part # LastPart(u.header)
        PROVE  Complete(l) = Len(received)
    BY <1>1, <1>2, <1>3 DEF Complete, EndsMessage, Unit
  <1>4. CASE RecvInto
    <2>1. Arriving' = Arriving /\ UNCHANGED <<sender, sent, outgoing, broken, receiver, received>>
      BY <1>4, RecvIntoTypes DEF Inv, RecvInto, senderVars
    <2>2. Got' = Got /\ Through' = Through
      BY <2>1 DEF Got, Through, Arriving
    <2>3. QED
      BY <2>1, <2>2 DEF ChannelSame, ChannelStream, ChannelReceived, ChannelOpen
  <1>5. CASE RecvEnds
    <2>1. /\ UNCHANGED <<sender, sent, outgoing, broken, data, wire, received>>
          /\ receiver # "finished" /\ receiver' # "finished"
      BY <1>5 DEF RecvEnds, Raises, Receiving, senderVars, wireVars
    <2>2. Got' = Got /\ Through' = Through
      BY <2>1 DEF Got, Through
    <2>3. QED
      BY <2>1, <2>2 DEF ChannelSame, ChannelStream, ChannelReceived, ChannelOpen
  <1>6. CASE ReadLength
    <2>1. Returned("length") /\ Receiving /\ Len(data) = size
      BY <1>6 DEF ReadLength, Returned, Receiving
    <2>2. u.part = 0 /\ u.header \in Headers
      BY <2>1, WholePart, UnitFacts DEF Begins, Returned
    <2>3. u.part # LastPart(u.header)
      BY <2>2, PartFacts
    <2>4. ReadsNext("header", HeaderUnits)
      BY <1>6, ReadLengthKeeps
    <2>5. data' = <<>> /\ receiver' # "finished" /\ UNCHANGED <<senderVars, wireVars, received>>
      BY <1>6, <2>4 DEF ReadLength, ReadsNext, Raises
    <2>6. Got' = Complete(l) /\ Got' = Got
      BY <1>1, <1>2, <1>3, <2>1, <2>3, <2>5
    <2>7. QED
      BY <2>1, <2>5, <2>6, PartReadMaps
  <1>7. CASE ReadHeaderData
    <2>1. Returned("header") /\ Header # EndHeader
      BY <1>7 DEF ReadHeaderData
    <2>2. /\ u.part = 1 /\ u.header \in Headers /\ u.header # EndHeader /\ Receiving
          /\ Len(data) = size
      BY <2>1, HeaderRead
    <2>3. u.part # LastPart(u.header)
      BY <2>2, HeaderFacts DEF Headers
    <2>4. /\ data' = <<>> /\ receiver' # "finished" /\ received' = received
          /\ UNCHANGED <<senderVars, wireVars>>
      BY <1>7, ReadHeaderDataKeeps
    <2>5. Got' = Complete(l) /\ Got' = Got
      BY <1>1, <1>2, <1>3, <2>2, <2>3, <2>4
    <2>6. QED
      BY <2>2, <2>4, <2>5, PartReadMaps
  <1>8. CASE ReadPayload
    <2> DEFINE all == Append(variables, Array(data))
    <2>1. Returned("payload")
      BY <1>8 DEF ReadPayload
    <2>2. /\ u.part = 2 + Len(variables) /\ u.header = header /\ header \in DataHeaders
          /\ Len(variables) \in Nat /\ Len(all) = Len(variables) + 1
          /\ Receiving /\ Len(data) = size
      BY <2>1, PayloadRead
    <2>3. LastPart(u.header) = 1 + Arrays /\ Arrays \in Nat
      BY <2>2, HeaderFacts
    <2>4. UNCHANGED <<senderVars, wireVars>>
      BY <1>8, PayloadCases
    <2>5. CASE Len(all) < Arrays /\ NextArray(all)
      <3>1. u.part # LastPart(u.header)
        BY <2>2, <2>3, <2>5
      <3>2. data' = <<>> /\ receiver' # "finished" /\ received' = received
        BY <2>5 DEF NextArray, ReadsNext
      <3>3. Got' = Complete(l) /\ Got' = Got
        BY <1>1, <1>2, <1>3, <2>2, <3>1, <3>2
      <3>4. QED
        BY <2>2, <2>4, <3>2, <3>3, PartReadMaps
    <2>6. CASE Len(all) = Arrays /\ WholeMessage(all)
      <3>1. data' = <<>> /\ receiver' # "finished"
        BY <2>6 DEF WholeMessage, ReadsNext
      <3>2. Len(received') = Len(received) + 1
        BY <2>1, <2>4, <2>6, WholeMessageKeeps
      <3>3. u.part = LastPart(u.header)
        BY <2>2, <2>3, <2>6
      <3>4. EndsMessage(l)
        BY <1>2, <2>2, <3>3 DEF EndsMessage, EndsPart, Unit
      <3>5. Complete(l) = Len(received) + 1
        BY <1>2, <2>2, <3>4 DEF Complete, Unit
      <3>6. Got' = Complete(l) /\ Got' = Got + 1
        BY <1>1, <1>2, <2>2, <3>1, <3>2, <3>5
      <3>7. QED
        BY <2>2, <2>4, <3>1, <3>6, PartReadMaps
    <2>7. QED
      BY <1>8, <2>5, <2>6, PayloadCases
  <1>9. CASE ReadHeaderEnd
    <2>1. /\ EndInv' /\ receiver' = "finished" /\ UNCHANGED <<senderVars, wireVars, data, received>>
          /\ Receiving
      BY <1>9, ReadHeaderEndKeeps DEF ReaderInv
    <2>2. UNCHANGED <<sender, sent, outgoing, broken, wire>>
      BY <2>1 DEF senderVars, wireVars
    <2>3. /\ sent = Len(received) + 1 /\ wire = <<>> /\ data # <<>>
          /\ data[Len(data)].message = sent /\ EndsMessage(data[Len(data)])
      BY <2>1, <2>2 DEF EndInv
    <2>4. data \in Seq(Units) /\ data \o wire = data
      BY <1>1, <2>3, NoUnits DEF ReceiverTypes
    <2>5. Through = sent /\ Through' = sent
      BY <2>1, <2>2, <2>3, <2>4 DEF Through, Complete
    <2>6. Got = Len(received) /\ Got' = Len(received) + 1
      BY <1>1, <2>1 DEF Receiving
    <2>7. Got' = Got + 1 /\ Got + 1 <= Through /\ Through' = Through
      BY <1>1, <2>3, <2>5, <2>6
    <2>8. QED
      BY <2>2, <2>7, MapsToGet
  <1>10. QED
    BY <1>4, <1>5, <1>6, <1>7, <1>8, <1>9 DEF ReceiverStep

LEMMA StepMaps ==
    Inv /\ NotAhead /\ [Next]_vars => ChannelSame \/ ChannelPut \/ ChannelGet \/ ChannelLose
  <1> SUFFICES ASSUME Inv, NotAhead, [Next]_vars
               PROVE  ChannelSame \/ ChannelPut \/ ChannelGet \/ ChannelLose
    OBVIOUS
  <1>1. CASE SendArrays \/ SendEnd
    <2>1. PICK h \in Headers : SendHeader(h)
      BY <1>1, HeaderFacts DEF SendArrays, SendEnd
    <2>2. QED
      BY <2>1, SendHeaderMaps
  <1>2. CASE SenderStep \/ SendFails \/ Abort
    BY <1>2, SendAllMaps, SenderMaps DEF SenderStep
  <1>3. CASE Break
    BY <1>3, BreakMaps
  <1>4. CASE ReceiverStep
    BY <1>4, ReceiverMaps
  <1>5. CASE UNCHANGED vars
    BY <1>5 DEF vars, senderVars, wireVars, receiverVars, ChannelSame, ChannelStream,
                ChannelReceived, ChannelOpen, Got, Through
  <1>6. QED
    BY <1>1, <1>2, <1>3, <1>4, <1>5 DEF Next, Done

LEMMA InitMaps == Init => NotAhead /\ Channel!Init
  <1> SUFFICES ASSUME Init PROVE NotAhead /\ Channel!Init
    OBVIOUS
  <1>1. Len(<<>>) = 0 /\ <<>> \o <<>> = <<>>
    BY NoUnits
  <1>2. received = <<>> /\ Len(received) = 0 /\ Got = 0 /\ Through = 0 /\ Got \in Nat
    BY <1>1 DEF Init, Got, Through
  <1>3. NotAhead
    BY <1>2 DEF Init, NotAhead
  <1>4. Channel!Init
    <2>1. [i \in 1 .. Through - Got |-> MessageOf(Got + i)] = <<>>
      BY <1>2
    <2>2. [m \in 1 .. Got |-> MessageOf(m)] = <<>>
      BY <1>2
    <2>3. QED
      BY <2>1, <2>2 DEF Channel!Init, Init
  <1>5. QED
    BY <1>3, <1>4

\* What the receiver returns of the units sent is what a channel of messages, in order and
\* each once, with the latest lost when the connection fails, delivers.
THEOREM FramingIsAChannel == Spec => Channel!Spec
  <1> DEFINE AInv == Inv /\ NotAhead
  <1>1. Init => AInv /\ Channel!Init
    BY InitEstablishes, InitMaps
  <1>2. AInv /\ [Next]_vars => AInv'
    BY NextKeeps, NotAheadKept
  <1>3. AInv /\ AInv' /\ [Next]_vars => [Channel!Next]_(Channel!channelVars)
    <2> SUFFICES ASSUME Inv, NotAhead, Inv', NotAhead', [Next]_vars
                 PROVE  [Channel!Next]_(Channel!channelVars)
      BY DEF AInv
    <2>1. ChannelSame \/ ChannelPut \/ ChannelGet \/ ChannelLose
      BY StepMaps
    <2>2. Got \in Nat
      BY ThroughFacts
    <2>3. /\ ChannelStream = [i \in 1 .. Through - Got |-> MessageOf(Got + i)]
          /\ ChannelReceived = [m \in 1 .. Got |-> MessageOf(m)]
      BY <2>2, ChannelVariables
    <2>4. Got' \in Nat
      BY LenProperties DEF Inv, ReceiverTypes, Got
    <2>5. ChannelReceived' = [m \in 1 .. Got' |-> MessageOf(m)']
      <3>1. \A i \in 1 .. Got' : Name(0 + i, sent', outgoing') = MessageOf(i)'
        BY <2>4 DEF Name, MessageOf
      <3>2. QED
        BY <3>1 DEF ChannelReceived, Names
    <2>6. ChannelStream' = [i \in 1 .. Through' - Got' |-> MessageOf(Got + i)']
      BY DEF ChannelStream, Names, Name, MessageOf
    <2>7. QED
      BY <2>1, <2>3, <2>5, <2>6
         DEF Channel!Next, Channel!Put, Channel!Get, Channel!Lose, Channel!channelVars,
             ChannelSame, ChannelPut, ChannelGet, ChannelLose, ChannelOpen
  <1>4. QED
    BY <1>1, <1>2, <1>3, PTL DEF Spec, Channel!Spec
===============================================================================
