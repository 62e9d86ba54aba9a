------------------------ MODULE SocketChannelsProofs ------------------------
(***************************************************************************)
(* Proofs about SocketChannels, for every set of producers of any kinds,   *)
(* number of snapshots, buffer and number of faults.                       *)
(*                                                                         *)
(* OwnerInv is about the connections: a producer gets past its first       *)
(* channel only if it has the first channel of the consumer.  StreamInv    *)
(* adds what is on its way in each connection; WholeSteps and              *)
(* CleanEndComplete follow from it.                                        *)
(***************************************************************************)
EXTENDS SocketChannels, SequenceTheorems, TLAPS

Items == Nat \cup {End}

\* The types, in three parts that the provers treat one by one.
Control ==
    /\ producer \in [Producers ->
          {"connect", "prove", "refused", "idle", "send", "failed", "closing", "ended"}]
    /\ consumer \in {"accepting", "greeting", "reading", "joining", "finished", "raised"}
    /\ channel \in [Producers -> Channels] /\ position \in Channels
    /\ guest \in Producers \cup {None} /\ hello \in 0 .. 3
    /\ by_variables \in [Channels -> Producers \cup {None}]
    /\ consumer = "greeting" => guest # None
    /\ consumer \in {"reading", "joining", "finished"} =>
          \A k \in Channels : by_variables[k] # None

Counts == step \in [Producers -> Nat] /\ backlog \in Seq(Producers)

Data ==
    /\ stream \in [Producers -> [Channels -> Seq(Items)]]
    /\ broken \in [Producers -> [Channels -> BOOLEAN]]
    /\ messages \in [Channels -> Items] /\ stored \in Seq([Channels -> Items])

Types == Control /\ Counts /\ Data

-------------------------------------------------------------------------------
(* Data.                                                                   *)

\* The sums that count the messages of a connection, for the steps below to cite.
LEMMA Regroup ==
    \A r, n \in Nat : /\ (r + 1) + (n - 1) = r + n /\ r + (n + 1) = r + n + 1
                      /\ r + (n + 1) - 1 = r + n
  OBVIOUS

LEMMA LastOrBefore == \A n \in Nat : \A i \in 1 .. n + 1 : i \in 1 .. n \/ i = n + 1
  OBVIOUS

\* An update of one connection of one producer.
LEMMA Updated ==
    ASSUME NEW S, NEW f \in [Producers -> [Channels -> S]], NEW p \in Producers,
           NEW k \in Channels, NEW v \in S
    PROVE  /\ [f EXCEPT ![p][k] = v] \in [Producers -> [Channels -> S]]
           /\ [f EXCEPT ![p][k] = v][p][k] = v
           /\ \A q \in Producers : \A j \in Channels :
                 q # p \/ j # k => [f EXCEPT ![p][k] = v][q][j] = f[q][j]
  OBVIOUS

LEMMA Appended ==
    ASSUME NEW S, NEW s \in Seq(S), NEW x \in S
    PROVE  /\ Append(s, x) \in Seq(S) /\ Len(Append(s, x)) = Len(s) + 1 /\ Len(s) \in Nat
           /\ \A i \in 1 .. Len(s) : Append(s, x)[i] = s[i] /\ s[i] \in S
           /\ Append(s, x)[Len(s) + 1] = x
  BY LenProperties, ElementOfSeq, AppendProperties

LEMMA Shortened ==
    ASSUME NEW S, NEW s \in Seq(S), s # <<>>
    PROVE  /\ Tail(s) \in Seq(S) /\ Len(Tail(s)) = Len(s) - 1 /\ Len(s) \in Nat \ {0}
           /\ \A i \in 1 .. Len(s) - 1 : Tail(s)[i] = s[i + 1]
           /\ Head(s) = s[1] /\ Head(s) \in S
  <1>1. Len(s) \in Nat \ {0}
    BY EmptySeq
  <1>2. QED
    BY <1>1, HeadTailProperties

LEMMA CutOff ==
    ASSUME NEW S, NEW s \in Seq(S), NEW n \in 0 .. Len(s)
    PROVE  /\ SubSeq(s, 1, n) \in Seq(S) /\ Len(SubSeq(s, 1, n)) = n
           /\ \A i \in 1 .. n : SubSeq(s, 1, n)[i] = s[i]
  <1>1. Len(s) \in Nat /\ \A i \in 1 .. Len(s) : s[i] \in S
    BY LenProperties, ElementOfSeq
  <1>2. n \in Int /\ 1 \in Int /\ \A i \in 1 .. n : s[i] \in S
    BY <1>1
  <1>3. /\ SubSeq(s, 1, n) \in Seq(S)
        /\ Len(SubSeq(s, 1, n)) = IF 1 <= n THEN n - 1 + 1 ELSE 0
        /\ \A i \in 1 .. n - 1 + 1 : SubSeq(s, 1, n)[i] = s[1 + i - 1]
    BY <1>2, SubSeqProperties
  <1>4. QED
    BY <1>1, <1>3

-------------------------------------------------------------------------------
(* Types.                                                                  *)

LEMMA ControlStep == ASSUME Types, [Next]_vars PROVE Control'
  <1> USE DEF streamVars, consumerVars, readerVars, greetingVars, producerVars, Channels
  <1>0. Control
    BY DEF Types
  <1>1. ASSUME NEW p \in Producers,
               Connect(p) \/ ConnectFails(p) \/ Write(p) \/ SendFails(p) \/ Close(p)
               \/ ProducerCrash(p)
        PROVE  Control'
    BY <1>0, <1>1
       DEF Connect, ConnectFails, Write, SendFails, Close, ProducerCrash, Control
  <1>2. ASSUME NEW p \in Producers, Prove(p) PROVE Control'
    BY <1>0, <1>2 DEF Prove, Control
  <1>3. ASSUME NEW p \in Producers, SendPart(p) \/ SendEnd(p) PROVE Control'
    BY <1>0, <1>3 DEF SendPart, SendEnd, NextChannel, Control
  <1>4. CASE Accept
    <2>1. guest' \in Producers
      BY <1>4, Shortened DEF Accept, Types, Counts
    <2>2. QED
      BY <1>0, <1>4, <2>1, MarkAssumption DEF Accept, Control
  <1>5. CASE Refuse
    <2>1. Head(backlog) \in Producers
      BY <1>5, Shortened DEF Refuse, Types, Counts
    <2>2. QED
      BY <1>0, <1>5, <2>1 DEF Refuse, Control
  <1>6. CASE Greeted
    BY <1>0, <1>6 DEF Greeted, Control
  <1>7. CASE GreetingFails
    BY <1>0, <1>7 DEF GreetingFails, Control
  <1>8. CASE ReadMessage
    BY <1>0, <1>8 DEF ReadMessage, Control
  <1>9. CASE ReadFails \/ Finish \/ JoinFails \/ Store \/ ConsumerCrash
    BY <1>0, <1>9 DEF ReadFails, Failed, Finish, JoinFails, Store, ConsumerCrash, Control
  <1>10. ASSUME NEW p \in Producers, NEW k \in Channels, Break(p, k) PROVE Control'
    BY <1>0, <1>10 DEF Break, Control
  <1>11. CASE Done \/ UNCHANGED vars
    BY <1>0, <1>11 DEF Done, vars, Control
  <1>12. QED
    BY <1>1, <1>2, <1>3, <1>4, <1>5, <1>6, <1>7, <1>8, <1>9, <1>10, <1>11
       DEF Next, ProducerStep, ConsumerStep

LEMMA CountStep == ASSUME Types, [Next]_vars PROVE Counts'
  <1> USE DEF consumerVars, readerVars, greetingVars, producerVars
  <1>0. Counts
    BY DEF Types
  <1>1. ASSUME NEW p \in Producers, Connect(p) PROVE Counts'
    BY <1>0, <1>1, AppendProperties DEF Connect, Counts
  <1>2. ASSUME NEW p \in Producers,
               Prove(p) \/ ConnectFails(p) \/ Write(p) \/ SendFails(p) \/ Close(p)
               \/ SendEnd(p) \/ ProducerCrash(p)
        PROVE  Counts'
    BY <1>0, <1>2
       DEF Prove, ConnectFails, Write, SendFails, Close, SendEnd, ProducerCrash, Counts
  <1>3. ASSUME NEW p \in Producers, SendPart(p) PROVE Counts'
    <2>1. step[p] + (IF channel[p] = 3 THEN 1 ELSE 0) \in Nat
      BY <1>0 DEF Counts
    <2>2. step' \in [Producers -> Nat] /\ UNCHANGED backlog
      BY <1>0, <1>3, <2>1 DEF SendPart, Counts
    <2>3. QED
      BY <1>0, <2>2 DEF Counts
  <1>4. CASE Accept \/ Refuse
    <2>1. backlog # <<>> /\ backlog' = Tail(backlog) /\ UNCHANGED step
      BY <1>4 DEF Accept, Refuse
    <2>2. backlog' \in Seq(Producers)
      BY <1>0, <2>1, Shortened DEF Counts
    <2>3. QED
      BY <1>0, <2>1, <2>2 DEF Counts
  <1>5. CASE Greeted \/ GreetingFails \/ ReadMessage \/ ReadFails \/ Finish \/ JoinFails
             \/ Store \/ ConsumerCrash
    BY <1>0, <1>5 DEF Greeted, GreetingFails, ReadMessage, ReadFails, Finish, JoinFails,
                      Store, ConsumerCrash, Counts
  <1>6. ASSUME NEW p \in Producers, NEW k \in Channels, Break(p, k) PROVE Counts'
    BY <1>0, <1>6 DEF Break, Counts
  <1>7. CASE Done \/ UNCHANGED vars
    BY <1>0, <1>7 DEF Done, vars, Counts
  <1>8. QED
    BY <1>1, <1>2, <1>3, <1>4, <1>5, <1>6, <1>7 DEF Next, ProducerStep, ConsumerStep

LEMMA DataStep == ASSUME Types, [Next]_vars PROVE Data'
  <1> USE DEF streamVars, consumerVars, readerVars
  <1>0. Data
    BY DEF Types
  <1>1. ASSUME NEW p \in Producers, NEW m \in Items, Put(p, m)
        PROVE  stream' \in [Producers -> [Channels -> Seq(Items)]]
    <2>1. channel[p] \in Channels
      BY DEF Types, Control
    <2>2. stream[p][channel[p]] \in Seq(Items)
      BY <1>0, <2>1 DEF Data
    <2>3. Append(stream[p][channel[p]], m) \in Seq(Items)
      BY <2>2, Appended
    <2>4. QED
      BY <1>0, <1>1, <2>1, <2>3, Updated DEF Put, Data
  <1>2. ASSUME NEW p \in Producers, SendPart(p) \/ SendEnd(p) PROVE Data'
    <2>1. step[p] \in Items /\ End \in Items
      BY DEF Types, Counts, Items
    <2>2. stream' \in [Producers -> [Channels -> Seq(Items)]]
      BY <1>0, <1>1, <1>2, <2>1 DEF SendPart, SendEnd, Data
    <2>3. UNCHANGED <<broken, messages, stored>>
      BY <1>2 DEF SendPart, SendEnd
    <2>4. QED
      BY <1>0, <2>2, <2>3 DEF Data
  <1>3. ASSUME NEW p \in Producers,
               Connect(p) \/ Prove(p) \/ ConnectFails(p) \/ Write(p) \/ SendFails(p)
               \/ Close(p) \/ ProducerCrash(p)
        PROVE  Data'
    <2>1. UNCHANGED <<stream, broken, messages, stored>>
      BY <1>3 DEF Connect, Prove, ConnectFails, Write, SendFails, Close, ProducerCrash
    <2>2. QED
      BY <1>0, <2>1 DEF Data
  <1>4. CASE Accept \/ Refuse \/ Greeted \/ GreetingFails \/ ReadFails \/ Finish \/ JoinFails
             \/ ConsumerCrash \/ Done \/ UNCHANGED vars
    <2>1. UNCHANGED <<stream, broken, messages, stored>>
      BY <1>4 DEF Accept, Refuse, Greeted, GreetingFails, ReadFails, Finish, JoinFails,
                  ConsumerCrash, Done, vars
    <2>2. QED
      BY <1>0, <2>1 DEF Data
  <1>5. CASE ReadMessage
    <2>1. Peer \in Producers /\ position \in Channels
      BY <1>5 DEF ReadMessage, Types, Control, Peer
    <2>2. stream[Peer][position] \in Seq(Items)
      BY <1>0, <2>1 DEF Data
    <2>3. Head(stream[Peer][position]) \in Items /\ Tail(stream[Peer][position]) \in Seq(Items)
      BY <1>5, <2>2, Shortened DEF ReadMessage
    <2>4. stream' \in [Producers -> [Channels -> Seq(Items)]]
      BY <1>0, <1>5, <2>1, <2>3, Updated DEF ReadMessage, Data
    <2>5. messages' \in [Channels -> Items] /\ UNCHANGED <<broken, stored>>
      BY <1>0, <1>5, <2>3 DEF ReadMessage, Data
    <2>6. QED
      BY <1>0, <2>4, <2>5 DEF Data
  <1>6. CASE Store
    <2>1. stored' \in Seq([Channels -> Items]) /\ UNCHANGED <<stream, broken, messages>>
      BY <1>0, <1>6, AppendProperties DEF Store, Data
    <2>2. QED
      BY <1>0, <2>1 DEF Data
  <1>7. ASSUME NEW p \in Producers, NEW k \in Channels, Break(p, k) PROVE Data'
    <2>1. /\ broken' \in [Producers -> [Channels -> BOOLEAN]]
      BY <1>0, <1>7, Updated DEF Break, Data
    <2>2. PICK n \in 0 .. Len(stream[p][k]) :
             stream' = [stream EXCEPT ![p][k] = SubSeq(@, 1, n)]
      BY <1>7 DEF Break
    <2>3. stream[p][k] \in Seq(Items)
      BY <1>0 DEF Data
    <2>4. SubSeq(stream[p][k], 1, n) \in Seq(Items)
      BY <2>2, <2>3, CutOff
    <2>5. stream' \in [Producers -> [Channels -> Seq(Items)]]
      BY <1>0, <2>2, <2>4, Updated DEF Data
    <2>6. QED
      BY <1>0, <1>7, <2>1, <2>5 DEF Break, Data
  <1>8. QED
    BY <1>2, <1>3, <1>4, <1>5, <1>6, <1>7 DEF Next, ProducerStep, ConsumerStep

LEMMA TypeStep == ASSUME Types, [Next]_vars PROVE Types'
  BY ControlStep, CountStep, DataStep DEF Types

-------------------------------------------------------------------------------
(* The connections of a consumer belong to one producer.                   *)

\* A producer is past its first channel only with the first channel of the consumer, or
\* while its hello for it is looked at; and only then it has written.
OwnerInv ==
    /\ \A k \in Channels : by_variables[k] # None =>
          by_variables[k] = by_variables[1] /\ kind[by_variables[1]] = "valid"
    /\ \A p \in Producers : producer[p] \in {"connect", "prove"} /\ channel[p] # 1 =>
          by_variables[1] = p \/ (guest = p /\ hello = 1) \/ (Over /\ guest # p)
    /\ guest # None /\ hello \in {2, 3} => by_variables[1] = guest
    /\ \A p \in Producers : producer[p] \in {"idle", "send", "failed", "closing"} =>
          by_variables[1] = p
    /\ guest # None => consumer \in {"greeting", "raised"}

LEMMA OwnerStep == ASSUME Types, OwnerInv, [Next]_vars PROVE OwnerInv'
  <1> USE DEF streamVars, consumerVars, readerVars, greetingVars, producerVars, Channels
  <1>0. Control /\ None \notin Producers
    BY MarkAssumption DEF Types
  \* Steps that touch neither the greeting nor the channels of the consumer.
  <1>1. ASSUME UNCHANGED <<kind, guest, hello, by_variables>>, Over => Over',
               consumer' \in {consumer, "raised"} \/ consumer \in {"reading", "joining"},
               \A p \in Producers :
                  \/ producer'[p] = producer[p] /\ channel'[p] = channel[p]
                  \/ producer'[p] \in {"refused", "ended"}
                  \/ producer[p] = "connect" /\ producer'[p] = "prove" /\ channel'[p] = channel[p]
                  \/ /\ producer[p] \in {"idle", "send", "failed", "closing"}
                     /\ producer'[p] \in {"idle", "send", "failed", "closing"}
        PROVE  OwnerInv'
    BY <1>0, <1>1 DEF OwnerInv
  <1>2. ASSUME NEW p \in Producers, Prove(p) PROVE OwnerInv'
    BY <1>0, <1>2 DEF Prove, OwnerInv, Control, Over
  <1>3. CASE Accept
    BY <1>0, <1>3 DEF Accept, OwnerInv, Over
  <1>4. CASE Greeted
    BY <1>0, <1>4 DEF Greeted, Welcome, OwnerInv, Control, Over
  <1>5. CASE GreetingFails
    BY <1>0, <1>5 DEF GreetingFails, OwnerInv, Over
  <1>6. ASSUME NEW p \in Producers,
               \/ Connect(p) \/ ConnectFails(p) \/ Write(p) \/ SendPart(p) \/ SendFails(p)
               \/ Close(p) \/ SendEnd(p) \/ ProducerCrash(p)
        PROVE  OwnerInv'
    <2>1. /\ UNCHANGED <<kind, guest, hello, by_variables>> /\ UNCHANGED consumer
          /\ \A q \in Producers : q # p => producer'[q] = producer[q] /\ channel'[q] = channel[q]
      BY <1>0, <1>6 DEF Connect, ConnectFails, Write, SendPart, SendFails, Close, SendEnd,
                        NextChannel, ProducerCrash, Control
    <2>2. \/ producer'[p] = "ended"
          \/ producer[p] = "connect" /\ producer'[p] = "prove" /\ channel'[p] = channel[p]
          \/ /\ producer[p] \in {"idle", "send", "failed", "closing"}
             /\ producer'[p] \in {"idle", "send", "failed", "closing"}
      BY <1>0, <1>6 DEF Connect, ConnectFails, Write, SendPart, SendFails, Close, SendEnd,
                        NextChannel, ProducerCrash, Control
    <2>3. Over => Over'
      BY <2>1 DEF Over
    <2>4. QED
      BY <1>1, <2>1, <2>2, <2>3
  <1>7. CASE Refuse
    <2>1. /\ UNCHANGED <<kind, guest, hello, by_variables>> /\ UNCHANGED <<consumer, channel>>
          /\ \A q \in Producers : producer'[q] = producer[q] \/ producer'[q] = "refused"
      BY <1>0, <1>7 DEF Refuse, Control
    <2>2. QED
      BY <1>1, <2>1 DEF Over
  <1>8. CASE \/ ReadMessage \/ ReadFails \/ Finish \/ JoinFails \/ Store \/ ConsumerCrash
             \/ Done \/ UNCHANGED vars \/ \E p \in Producers : \E k \in Channels : Break(p, k)
    <2>1. /\ UNCHANGED <<kind, guest, hello, by_variables>> /\ UNCHANGED <<producer, channel>>
          /\ consumer' \in {consumer, "raised"} \/ consumer \in {"reading", "joining"}
          /\ Over => Over'
      BY <1>8 DEF ReadMessage, ReadFails, Failed, Finish, JoinFails, Store, ConsumerCrash, Done,
                  vars, Break, Over
    <2>2. QED
      BY <1>1, <2>1
  <1>9. QED
    BY <1>2, <1>3, <1>4, <1>5, <1>6, <1>7, <1>8 DEF Next, ProducerStep, ConsumerStep

-------------------------------------------------------------------------------
(* What is on its way.                                                     *)

\* How many messages of channel k the consumer has read.
Read(k) == Len(stored) + (IF consumer = "joining" \/ k < position THEN 1 ELSE 0)

\* How many snapshots p has put in channel k, while that can be told from its state.
Sent(p, k) == step[p] + (IF producer[p] = "send" /\ k < channel[p] THEN 1 ELSE 0)
Told(p, k) ==
    producer[p] \in {"idle", "send"} \/ (k = 3 /\ producer[p] \in {"failed", "closing"})

\* The end message of channel k is still to come.
Unended(p, k) ==
    producer[p] \in {"idle", "send", "failed"} \/ (producer[p] = "closing" /\ k >= channel[p])

\* Connection k of p carries the snapshots from the next one to be read, up to the last one
\* sent unless it broke, and the end message behind them.
Line(p, k) ==
    /\ \A i \in 1 .. Len(stream[p][k]) :
          \/ stream[p][k][i] = Read(k) + i - 1
          \/ stream[p][k][i] = End /\ i = Len(stream[p][k]) /\ ~Unended(p, k)
    /\ Told(p, k) /\ ~broken[p][k] => Read(k) + Len(stream[p][k]) = Sent(p, k)
    /\ k = 3 => \A i \in 1 .. Len(stream[p][k]) :
                   stream[p][k][i] = End => Read(k) + i - 1 = step[p]

\* Before the three connections are there nothing was written or read.
Beginning ==
    /\ consumer \in {"accepting", "greeting"} \/ guest # None =>
          position = 1 /\ stored = <<>> /\ \A k \in Channels : messages[k] # End
    /\ \A p \in Producers : producer[p] \in {"connect", "prove"} => step[p] = 0
    /\ \A p \in Producers : \A k \in Channels :
          producer[p] \in {"connect", "prove"} \/ by_variables[1] # p => stream[p][k] = <<>>

Lines ==
    ~Over => \A p \in Producers : by_variables[1] = p => \A k \in Channels : Line(p, k)

\* What was read in this round, and when that was the end.
Round ==
    /\ consumer = "joining" => position = 1
    /\ \A k \in Channels :
          consumer = "joining" \/ (consumer = "reading" /\ k < position) =>
             messages[k] = End \/ messages[k] = Len(stored)
    /\ \A p \in Producers : \A k \in Channels :
          by_variables[1] = p /\ Unended(p, k) => messages[k] # End
    /\ messages[3] = End =>
          by_variables[1] \in Producers /\ Len(stored) = step[by_variables[1]]
    /\ consumer = "finished" => messages[3] = End

StreamInv == Beginning /\ Lines /\ Round /\ WholeSteps

\* Steps of producers that send nothing.
LEMMA NothingSent ==
    ASSUME StreamInv,
           UNCHANGED <<stream, broken, consumer, by_variables, position, messages, stored, step,
                       guest>>,
           \A p \in Producers :
              /\ producer'[p] \in {"connect", "prove"} => producer[p] \in {"connect", "prove"}
              /\ \A k \in Channels :
                    /\ Unended(p, k)' => Unended(p, k)
                    /\ Told(p, k)' => Told(p, k) /\ Sent(p, k)' = Sent(p, k)
    PROVE  StreamInv'
  <1>1. Beginning'
    BY DEF StreamInv, Beginning
  <1>2. \A k \in Channels : Read(k)' = Read(k)
    BY DEF Read
  <1>3. \A p \in Producers : \A k \in Channels : Line(p, k) => Line(p, k)'
    BY <1>2 DEF Line
  <1>4. Lines'
    BY <1>3 DEF StreamInv, Lines, Over
  <1>5. Round' /\ WholeSteps'
    BY DEF StreamInv, Round, WholeSteps
  <1>6. QED
    BY <1>1, <1>4, <1>5 DEF StreamInv

LEMMA QuietProducer ==
    ASSUME Types, StreamInv, NEW p \in Producers,
           \/ Connect(p) \/ ConnectFails(p) \/ Write(p) \/ SendFails(p) \/ Close(p)
           \/ ProducerCrash(p)
    PROVE  StreamInv'
  <1> USE DEF streamVars, consumerVars, readerVars, greetingVars
  <1>0. Control
    BY DEF Types
  <1>1. /\ UNCHANGED <<stream, broken, consumer, by_variables, position, messages, stored, step>>
        /\ UNCHANGED guest
        /\ \A q \in Producers : q # p => producer'[q] = producer[q] /\ channel'[q] = channel[q]
    BY <1>0 DEF Connect, ConnectFails, Write, SendFails, Close, ProducerCrash, Control
  <1>2. \/ producer'[p] = "ended"
        \/ producer[p] = "connect" /\ producer'[p] = "prove"
        \/ producer[p] = "idle" /\ producer'[p] = "send" /\ channel'[p] = 1
        \/ producer[p] = "send" /\ producer'[p] = "failed"
        \/ producer[p] \in {"idle", "failed"} /\ producer'[p] = "closing" /\ channel'[p] = 1
    BY <1>0 DEF Connect, ConnectFails, Write, SendFails, Close, ProducerCrash, Control
  <1>3. \A k \in Channels : k \in 1 .. 3 /\ channel[p] \in 1 .. 3
    BY <1>0 DEF Control, Channels
  <1>4. \A q \in Producers :
           producer'[q] \in {"connect", "prove"} => producer[q] \in {"connect", "prove"}
    BY <1>1, <1>2
  <1>5. \A q \in Producers : \A k \in Channels : Unended(q, k)' => Unended(q, k)
    BY <1>1, <1>2 DEF Unended
  <1>6. \A q \in Producers : \A k \in Channels :
           Told(q, k)' => Told(q, k) /\ Sent(q, k)' = Sent(q, k)
    BY <1>1, <1>2, <1>3 DEF Told, Sent
  <1>7. QED
    BY <1>1, <1>4, <1>5, <1>6, NothingSent

\* The consumer is over, or goes on, without reading or storing.
LEMMA QuietConsumer ==
    ASSUME Types, StreamInv,
           \/ Accept \/ Refuse \/ GreetingFails \/ ReadFails \/ Finish \/ JoinFails
           \/ ConsumerCrash \/ Done \/ UNCHANGED vars
    PROVE  StreamInv'
  <1> USE DEF streamVars, consumerVars, readerVars, greetingVars, producerVars
  <1>0. Control
    BY DEF Types
  <1>1. ASSUME \/ consumer' \in {"raised", "finished"}
               \/ consumer = "accepting" /\ consumer' = "greeting",
               UNCHANGED <<stream, broken, by_variables, position, messages, stored, step, channel,
                           producer>>,
               guest' # None => guest # None \/ consumer' = "greeting",
               consumer' = "finished" => messages[3] = End
        PROVE  StreamInv'
    <2>1. Beginning'
      BY <1>1 DEF StreamInv, Beginning
    <2>2. ~Over' => \A k \in Channels : Read(k)' = Read(k)
      BY <1>1 DEF Over, Read
    <2>3. ~Over' => \A p \in Producers : \A k \in Channels : Line(p, k) => Line(p, k)'
      BY <1>1, <2>2 DEF Line, Told, Sent, Unended
    <2>4. Lines'
      BY <1>1, <2>3 DEF StreamInv, Lines, Over
    <2>5. Round'
      BY <1>1 DEF StreamInv, Round, Unended
    <2>6. WholeSteps'
      BY <1>1 DEF StreamInv, WholeSteps
    <2>7. QED
      BY <2>1, <2>4, <2>5, <2>6 DEF StreamInv
  <1>2. CASE Accept \/ GreetingFails \/ ReadFails \/ JoinFails \/ ConsumerCrash
    BY <1>0, <1>1, <1>2, MarkAssumption
       DEF Accept, GreetingFails, ReadFails, Failed, JoinFails, ConsumerCrash
  <1>3. CASE Finish
    BY <1>1, <1>3 DEF Finish, AllEnded, Channels
  <1>4. CASE Refuse
    <2>1. /\ UNCHANGED <<stream, broken, consumer, by_variables, position, messages, stored, step>>
          /\ UNCHANGED guest /\ UNCHANGED channel
          /\ \A q \in Producers : producer'[q] = producer[q] \/ producer'[q] = "refused"
      BY <1>0, <1>4 DEF Refuse, Control
    <2>2. \A q \in Producers :
             /\ producer'[q] \in {"connect", "prove"} => producer[q] \in {"connect", "prove"}
             /\ \A k \in Channels : /\ Unended(q, k)' => Unended(q, k)
                                    /\ Told(q, k)' => Told(q, k) /\ Sent(q, k)' = Sent(q, k)
      BY <2>1 DEF Unended, Told, Sent
    <2>3. QED
      BY <2>1, <2>2, NothingSent
  <1>5. CASE Done \/ UNCHANGED vars
    <2>1. UNCHANGED vars
      BY <1>5 DEF Done
    <2>2. QED
      BY <2>1, NothingSent DEF vars, Unended, Told, Sent
  <1>6. QED
    BY <1>2, <1>3, <1>4, <1>5

LEMMA ProveStep ==
    ASSUME Types, OwnerInv, StreamInv, NEW p \in Producers, Prove(p)
    PROVE  StreamInv'
  <1> USE DEF streamVars, consumerVars, readerVars
  <1>0. Control
    BY DEF Types
  <1>1. /\ UNCHANGED <<stream, broken, consumer, by_variables, position, messages, stored, step>>
        /\ UNCHANGED guest /\ guest = p /\ guest # None
        /\ producer[p] = "prove" /\ producer'[p] \in {"connect", "idle"}
        /\ \A q \in Producers : q # p => producer'[q] = producer[q] /\ channel'[q] = channel[q]
    BY <1>0, MarkAssumption DEF Prove, Control
  <1>2. /\ position = 1 /\ stored = <<>> /\ step[p] = 0
        /\ \A k \in Channels : messages[k] # End /\ stream[p][k] = <<>>
    BY <1>1 DEF StreamInv, Beginning
  <1>3. Beginning'
    BY <1>1, <1>2 DEF StreamInv, Beginning
  <1>4. ASSUME NEW q \in Producers, NEW k \in Channels, Line(q, k), ~Over PROVE Line(q, k)'
    <2>1. Read(k)' = Read(k)
      BY <1>1 DEF Read
    <2>2. CASE q # p
      BY <1>1, <1>4, <2>1, <2>2 DEF Line, Told, Sent, Unended
    <2>3. CASE q = p
      <3>1. consumer = "greeting"
        BY <1>1, <1>4 DEF OwnerInv, Over
      <3>2. Len(stored) = 0 /\ Len(stream'[p][k]) = 0
        BY <1>1, <1>2, EmptySeq
      <3>3. Read(k)' = 0
        BY <1>1, <1>2, <3>1, <3>2 DEF Read, Channels
      <3>4. Told(p, k)' => Sent(p, k)' = 0
        BY <1>1, <1>2 DEF Told, Sent
      <3>5. QED
        BY <2>3, <3>2, <3>3, <3>4 DEF Line
    <2>4. QED
      BY <2>2, <2>3
  <1>5. Lines'
    BY <1>1, <1>4 DEF StreamInv, Lines, Over
  <1>6. Round'
    BY <1>1, <1>2 DEF StreamInv, Round, Unended
  <1>7. WholeSteps'
    BY <1>1 DEF StreamInv, WholeSteps
  <1>8. QED
    BY <1>3, <1>5, <1>6, <1>7 DEF StreamInv

LEMMA GreetedStep ==
    ASSUME Types, OwnerInv, StreamInv, Greeted
    PROVE  StreamInv'
  <1> USE DEF streamVars, readerVars, producerVars, Channels
  <1>0. Control /\ None \notin Producers
    BY MarkAssumption DEF Types
  <1>1. /\ UNCHANGED <<stream, broken, position, messages, stored, step, producer, channel>>
        /\ consumer = "greeting" /\ consumer' \in {"accepting", "reading"} /\ guest' = None
        /\ \A k \in Channels : by_variables'[k] # by_variables[k] =>
              by_variables[k] = None /\ by_variables'[k] = guest /\ k = hello
        /\ guest \in Producers
    BY <1>0 DEF Greeted, Welcome, Control
  <1>2. position = 1 /\ \A k \in Channels : messages[k] # End
    BY <1>1 DEF StreamInv, Beginning
  <1>3. Beginning'
    BY <1>0, <1>1, <1>2 DEF StreamInv, Beginning
  <1>4. \A k \in Channels : Read(k)' = Read(k)
    BY <1>1, <1>2 DEF Read
  <1>5. ASSUME NEW p \in Producers, by_variables'[1] = p, NEW k \in Channels PROVE Line(p, k)'
    <2>1. CASE by_variables[1] = p
      BY <1>1, <1>4, <1>5, <2>1 DEF StreamInv, Lines, Over, Line, Told, Sent, Unended
    <2>2. CASE by_variables[1] # p
      <3>1. Len(stream'[p][k]) = 0
        BY <1>1, <2>2, EmptySeq DEF StreamInv, Beginning
      <3>2. ~Told(p, k)'
        BY <1>1, <2>2 DEF OwnerInv, Told
      <3>3. QED
        BY <3>1, <3>2 DEF Line
    <2>3. QED
      BY <2>1, <2>2
  <1>6. Lines'
    BY <1>5 DEF Lines
  <1>7. Round' /\ WholeSteps'
    BY <1>1, <1>2 DEF StreamInv, Round, Unended, WholeSteps
  <1>8. QED
    BY <1>3, <1>6, <1>7 DEF StreamInv

\* Putting message m into channel c of p, unless that connection broke.
LEMMA PutEffect ==
    ASSUME Types, NEW p \in Producers, NEW m \in Items, Put(p, m)
    PROVE  /\ \A q \in Producers : \A k \in Channels :
                 q # p \/ k # channel[p] \/ broken[p][k] => stream'[q][k] = stream[q][k]
           /\ ~broken[p][channel[p]] =>
                 LET s == stream[p][channel[p]]
                     t == stream'[p][channel[p]]
                 IN  /\ Len(t) = Len(s) + 1 /\ Len(s) \in Nat /\ t[Len(s) + 1] = m
                     /\ \A i \in 1 .. Len(s) : t[i] = s[i]
  <1>1. channel[p] \in Channels /\ stream \in [Producers -> [Channels -> Seq(Items)]]
    BY DEF Types, Control, Data
  <1>2. stream[p][channel[p]] \in Seq(Items)
    BY <1>1
  <1>3. CASE broken[p][channel[p]]
    BY <1>3 DEF Put
  <1>4. CASE ~broken[p][channel[p]]
    <2>1. stream' = [stream EXCEPT ![p][channel[p]] = Append(stream[p][channel[p]], m)]
      BY <1>4 DEF Put
    <2>2. stream'[p][channel[p]] = Append(stream[p][channel[p]], m)
      BY <1>1, <2>1
    <2>3. \A q \in Producers : \A k \in Channels :
             q # p \/ k # channel[p] => stream'[q][k] = stream[q][k]
      BY <1>1, <2>1
    <2>4. QED
      BY <1>2, <1>4, <2>2, <2>3, Appended
  <1>5. QED
    BY <1>3, <1>4

LEMMA SendPartStep ==
    ASSUME Types, OwnerInv, StreamInv, NEW p \in Producers, SendPart(p)
    PROVE  StreamInv'
  <1> USE DEF consumerVars, readerVars, greetingVars
  <1> DEFINE c == channel[p]
  <1>0. /\ Control /\ c \in 1 .. 3 /\ step[p] \in Nat /\ step[p] \in Items /\ End \notin Int
        /\ DOMAIN step = Producers /\ Len(stored) \in Nat /\ position \in 1 .. 3
    BY MarkAssumption, LenProperties DEF Types, Control, Channels, Counts, Items, Data
  <1>1. /\ UNCHANGED <<broken, consumer, by_variables, position, messages, stored>>
        /\ UNCHANGED guest /\ producer[p] = "send" /\ Put(p, step[p])
        /\ \A q \in Producers : q # p => producer'[q] = producer[q] /\ channel'[q] = channel[q]
                                         /\ step'[q] = step[q]
        /\ c = 3 => producer'[p] = "idle" /\ step'[p] = step[p] + 1
        /\ c # 3 => producer'[p] = "send" /\ step'[p] = step[p] /\ channel'[p] = c + 1
    BY <1>0 DEF SendPart, NextChannel, Control
  <1>2. by_variables[1] = p
    BY <1>1 DEF OwnerInv
  <1>3. Beginning'
    <2>1. \A q \in Producers : q # p => \A k \in Channels : stream'[q][k] = stream[q][k]
      BY <1>0, <1>1, PutEffect
    <2>2. QED
      BY <1>1, <1>2, <2>1 DEF StreamInv, Beginning
  <1>4. \A k \in Channels : Read(k)' = Read(k) /\ Read(k) \in Nat
    BY <1>0, <1>1 DEF Read
  <1>5. ASSUME NEW k \in Channels, ~Over PROVE Line(p, k)'
    <2>0. k \in 1 .. 3 /\ Line(p, k) /\ Told(p, k) /\ Unended(p, k) /\ Len(stream[p][k]) \in Nat
      BY <1>1, <1>2, <1>5, LenProperties
         DEF StreamInv, Lines, Told, Unended, Channels, Types, Data
    <2>1. \A i \in 1 .. Len(stream[p][k]) : stream[p][k][i] = Read(k) + i - 1
      BY <2>0 DEF Line
    <2>2. Sent(p, k)' = Sent(p, k) + (IF k = c THEN 1 ELSE 0)
      BY <1>0, <1>1, <2>0 DEF Sent
    <2>3. CASE broken[p][k]
      <3>1. stream'[p][k] = stream[p][k] /\ broken'[p][k]
        BY <1>0, <1>1, <2>3, PutEffect
      <3>2. \A i \in 1 .. Len(stream[p][k]) : stream[p][k][i] # End
        BY <1>0, <1>4, <2>1
      <3>3. QED
        BY <1>4, <2>1, <3>1, <3>2 DEF Line
    <2>4. CASE ~broken[p][k] /\ k # c
      <3>1. stream'[p][k] = stream[p][k]
        BY <1>0, <1>1, <2>4, PutEffect
      <3>2. \A i \in 1 .. Len(stream[p][k]) : stream[p][k][i] # End
        BY <1>0, <1>4, <2>1
      <3>3. Read(k) + Len(stream[p][k]) = Sent(p, k)
        BY <2>0, <2>4 DEF Line
      <3>4. Sent(p, k) \in Nat
        BY <1>0 DEF Sent
      <3>5. Sent(p, k)' = Sent(p, k)
        BY <2>2, <2>4, <3>4
      <3>6. QED
        BY <1>4, <2>1, <3>1, <3>2, <3>3, <3>5 DEF Line
    <2>5. CASE ~broken[p][k] /\ k = c
      <3>1. Read(k) + Len(stream[p][k]) = Sent(p, k) /\ Sent(p, k) = step[p]
        BY <1>0, <2>0, <2>5 DEF Line, Sent
      <3>2. /\ Len(stream'[p][k]) = Len(stream[p][k]) + 1
            /\ stream'[p][k][Len(stream[p][k]) + 1] = step[p]
            /\ \A i \in 1 .. Len(stream[p][k]) : stream'[p][k][i] = stream[p][k][i]
        BY <1>0, <1>1, <2>5, PutEffect
      <3>3. ASSUME NEW i \in 1 .. Len(stream'[p][k])
            PROVE  stream'[p][k][i] = Read(k) + i - 1
        <4>1. CASE i \in 1 .. Len(stream[p][k])
          BY <2>1, <3>2, <4>1
        <4>2. CASE i = Len(stream[p][k]) + 1
          <5>1. stream'[p][k][i] = Sent(p, k)
            BY <3>1, <3>2, <4>2
          <5>2. Read(k) \in Nat /\ Len(stream[p][k]) \in Nat
            BY <1>4, <2>0
          <5>3. Read(k) + i - 1 = Read(k) + Len(stream[p][k])
            BY <4>2, <5>2, Regroup, Zenon
          <5>4. QED
            BY <3>1, <5>1, <5>3, Zenon
        <4>3. i \in 1 .. Len(stream[p][k]) \/ i = Len(stream[p][k]) + 1
          BY <2>0, <3>2, LastOrBefore
        <4>4. QED
          BY <4>1, <4>2, <4>3
      <3>4. \A i \in 1 .. Len(stream'[p][k]) : stream'[p][k][i] # End
        BY <1>0, <1>4, <3>3
      <3>5. Read(k) + Len(stream'[p][k]) = Sent(p, k)'
        <4>1. Sent(p, k)' = Sent(p, k) + 1
          BY <2>2, <2>5
        <4>2. Len(stream'[p][k]) = Len(stream[p][k]) + 1
          BY <3>2
        <4>3. Read(k) \in Nat /\ Len(stream[p][k]) \in Nat
          BY <1>4, <2>0
        <4>4. Read(k) + (Len(stream[p][k]) + 1) = Read(k) + Len(stream[p][k]) + 1
          BY <4>3, Regroup
        <4>5. QED
          BY <3>1, <4>1, <4>2, <4>4
      <3>6. QED
        BY <1>4, <3>3, <3>4, <3>5 DEF Line
    <2>6. QED
      BY <2>3, <2>4, <2>5
  <1>6. Lines'
    BY <1>1, <1>2, <1>5 DEF Lines, Over
  <1>7. \A k \in Channels : messages[k] # End
    BY <1>1, <1>2 DEF StreamInv, Round, Unended
  <1>8. Round' /\ WholeSteps'
    BY <1>1, <1>7 DEF StreamInv, Round, WholeSteps, Channels
  <1>9. QED
    BY <1>3, <1>6, <1>8 DEF StreamInv

LEMMA SendEndStep ==
    ASSUME Types, OwnerInv, StreamInv, NEW p \in Producers, SendEnd(p)
    PROVE  StreamInv'
  <1> USE DEF consumerVars, readerVars, greetingVars
  <1> DEFINE c == channel[p]
  <1>0. /\ Control /\ c \in 1 .. 3 /\ End \in Items /\ End \notin Int
        /\ Len(stored) \in Nat /\ position \in 1 .. 3
    BY MarkAssumption, LenProperties DEF Types, Control, Channels, Items, Data
  <1>1. /\ UNCHANGED <<broken, consumer, by_variables, position, messages, stored>>
        /\ UNCHANGED guest /\ UNCHANGED step /\ producer[p] = "closing"
        /\ Put(p, End) \/ UNCHANGED stream
        /\ ~Over /\ ~broken[p][c] => Put(p, End)
        /\ \A q \in Producers : q # p => producer'[q] = producer[q] /\ channel'[q] = channel[q]
        /\ c = 3 => producer'[p] = "ended"
        /\ c # 3 => producer'[p] = "closing" /\ channel'[p] = c + 1
    BY <1>0 DEF SendEnd, NextChannel, Control, Unreachable
  <1>2. by_variables[1] = p
    BY <1>1 DEF OwnerInv
  <1>3. Beginning'
    <2>1. \A q \in Producers : q # p => \A k \in Channels : stream'[q][k] = stream[q][k]
      BY <1>0, <1>1, PutEffect
    <2>2. QED
      BY <1>1, <1>2, <2>1 DEF StreamInv, Beginning
  <1>4. \A k \in Channels : Read(k)' = Read(k) /\ Read(k) \in Nat
    BY <1>0, <1>1 DEF Read
  <1>5. \A k \in Channels :
           (Unended(p, k)' => Unended(p, k) /\ k # c) /\ (Told(p, k)' => Told(p, k) /\ k # c)
    BY <1>0, <1>1 DEF Unended, Told, Channels
  <1>6. ASSUME NEW k \in Channels, ~Over PROVE Line(p, k)'
    <2>0. k \in 1 .. 3 /\ Line(p, k) /\ Len(stream[p][k]) \in Nat /\ (Sent(p, k)' = Sent(p, k))
      BY <1>1, <1>2, <1>6, LenProperties DEF StreamInv, Lines, Channels, Types, Data, Sent
    <2>1. CASE stream'[p][k] = stream[p][k]
      BY <1>1, <1>4, <1>5, <2>0, <2>1 DEF Line
    <2>2. CASE stream'[p][k] # stream[p][k]
      <3>1. Put(p, End)
        BY <1>1, <2>2
      <3>2. \A j \in Channels : j # c \/ broken[p][j] => stream'[p][j] = stream[p][j]
        BY <1>0, <3>1, PutEffect
      <3>3. k = c
        BY <2>2, <3>2
      <3>4. ~broken[p][k]
        <4>1. ASSUME broken[p][k] PROVE stream'[p][k] = stream[p][k]
          BY <1>6, <3>2, <4>1, Zenon
        <4>2. QED
          BY <2>2, <4>1, Zenon
      <3>5. Unended(p, k) /\ (k = 3 => Told(p, k) /\ Sent(p, k) = step[p])
        <4>1. step[p] \in Nat /\ producer[p] = "closing"
          BY <1>1 DEF Types, Counts
        <4>2. Sent(p, k) = step[p]
          BY <4>1 DEF Sent
        <4>3. Unended(p, k)
          BY <1>0, <3>3, <4>1 DEF Unended
        <4>4. k = 3 => Told(p, k)
          BY <4>1 DEF Told
        <4>5. QED
          BY <4>2, <4>3, <4>4
      <3>6. /\ Len(stream'[p][k]) = Len(stream[p][k]) + 1
            /\ stream'[p][k][Len(stream[p][k]) + 1] = End
            /\ \A i \in 1 .. Len(stream[p][k]) : stream'[p][k][i] = stream[p][k][i]
        BY <1>0, <3>1, <3>3, <3>4, PutEffect
      <3>7. \A i \in 1 .. Len(stream[p][k]) :
               stream[p][k][i] = Read(k) + i - 1 /\ stream[p][k][i] # End
        BY <1>0, <1>4, <2>0, <3>5 DEF Line
      <3>8. ~Unended(p, k)' /\ ~Told(p, k)'
        BY <1>5, <3>1, <3>3, <3>4
      <3>9. \A i \in 1 .. Len(stream'[p][k]) :
               \/ stream'[p][k][i] = Read(k) + i - 1 /\ stream'[p][k][i] # End
               \/ stream'[p][k][i] = End /\ i = Len(stream'[p][k]) /\ i = Len(stream[p][k]) + 1
        <4>1. \A i \in 1 .. Len(stream'[p][k]) :
                 i \in 1 .. Len(stream[p][k]) \/ i = Len(stream[p][k]) + 1
          BY <2>0, <3>6, LastOrBefore
        <4>2. ASSUME NEW i \in 1 .. Len(stream[p][k])
              PROVE  stream'[p][k][i] = Read(k) + i - 1 /\ stream'[p][k][i] # End
          BY <3>6, <3>7, <4>2
        <4>3. QED
          BY <3>6, <4>1, <4>2
      <3>10. k = 3 => Read(k) + Len(stream[p][k]) = step[p]
        BY <2>0, <3>1, <3>3, <3>4, <3>5 DEF Line
      <3>11. k = 3 => \A i \in 1 .. Len(stream'[p][k]) :
                        stream'[p][k][i] = End => Read(k) + i - 1 = step[p]
        <4>1. Read(k) \in Nat /\ Len(stream[p][k]) \in Nat
          BY <1>4, <2>0
        <4>2. Read(k) + (Len(stream[p][k]) + 1) - 1 = Read(k) + Len(stream[p][k])
          BY <4>1, Regroup
        <4>3. QED
          BY <3>9, <3>10, <4>2
      <3>12. QED
        BY <1>1, <1>4, <3>8, <3>9, <3>11 DEF Line
    <2>3. QED
      BY <2>1, <2>2
  <1>7. Lines'
    BY <1>1, <1>2, <1>6 DEF Lines, Over
  <1>8. Round' /\ WholeSteps'
    BY <1>1, <1>2, <1>5 DEF StreamInv, Round, WholeSteps
  <1>9. QED
    BY <1>3, <1>7, <1>8 DEF StreamInv

\* What is left when connection k of p breaks is a part of what was on its way.
LEMMA BreakStep ==
    ASSUME Types, OwnerInv, StreamInv, NEW p \in Producers, NEW c \in Channels, Break(p, c)
    PROVE  StreamInv'
  <1> USE DEF consumerVars, readerVars, greetingVars, producerVars
  <1>1. /\ UNCHANGED <<consumer, by_variables, position, messages, stored, step>>
        /\ UNCHANGED guest /\ UNCHANGED <<producer, channel>>
    BY DEF Break
  <1>2. PICK n \in 0 .. Len(stream[p][c]) :
           stream' = [stream EXCEPT ![p][c] = SubSeq(@, 1, n)]
    BY DEF Break
  <1>3. /\ stream \in [Producers -> [Channels -> Seq(Items)]]
        /\ broken \in [Producers -> [Channels -> BOOLEAN]]
    BY DEF Types, Data
  <1>4. stream[p][c] \in Seq(Items)
    BY <1>3
  <1>5. /\ stream'[p][c] = SubSeq(stream[p][c], 1, n)
        /\ \A q \in Producers : \A k \in Channels :
              q # p \/ k # c => stream'[q][k] = stream[q][k]
    BY <1>2, <1>3
  <1>6. /\ Len(stream'[p][c]) = n /\ Len(stream[p][c]) \in Nat
        /\ \A i \in 1 .. n : stream'[p][c][i] = stream[p][c][i] /\ i \in 1 .. Len(stream[p][c])
    BY <1>4, <1>5, CutOff, LenProperties
  <1>7. broken'[p][c] /\ \A q \in Producers : \A k \in Channels :
                            q # p \/ k # c => (broken'[q][k] <=> broken[q][k])
    BY <1>3 DEF Break
  <1>8. Beginning'
    <2>1. ASSUME stream[p][c] = <<>> PROVE stream'[p][c] = <<>>
      <3>1. Len(stream[p][c]) = 0 /\ n = 0
        BY <2>1, <1>6
      <3>2. stream'[p][c] \in Seq(Items)
        BY <1>4, <1>5, CutOff
      <3>3. QED
        BY <3>1, <3>2, <1>6, EmptySeq
    <2>2. QED
      BY <1>1, <1>5, <2>1 DEF StreamInv, Beginning
  <1>9. \A k \in Channels : Read(k)' = Read(k)
    BY <1>1 DEF Read
  <1>10. ASSUME NEW q \in Producers, NEW k \in Channels, Line(q, k) PROVE Line(q, k)'
    <2>1. CASE q # p \/ k # c
      <3>1. stream'[q][k] = stream[q][k] /\ (broken'[q][k] <=> broken[q][k])
        BY <1>5, <1>7, <2>1, Zenon
      <3>2. (Told(q, k)' <=> Told(q, k)) /\ (Unended(q, k)' <=> Unended(q, k))
        BY <1>1 DEF Told, Unended
      <3>3. Sent(q, k)' = Sent(q, k) /\ step'[q] = step[q]
        BY <1>1 DEF Sent
      <3>4. Read(k)' = Read(k)
        BY <1>9
      <3>5. QED
        BY <1>10, <3>1, <3>2, <3>3, <3>4 DEF Line
    <2>2. CASE q = p /\ k = c
      <3>1. \A i \in 1 .. Len(stream'[p][c]) :
               \/ stream'[p][c][i] = Read(c) + i - 1
               \/ stream'[p][c][i] = End /\ i = Len(stream'[p][c]) /\ ~Unended(p, c)'
        <4>1. \A i \in 1 .. Len(stream[p][c]) :
                 \/ stream[p][c][i] = Read(c) + i - 1
                 \/ stream[p][c][i] = End /\ i = Len(stream[p][c]) /\ ~Unended(p, c)
          BY <1>10, <2>2 DEF Line
        <4>2. Unended(p, c)' <=> Unended(p, c)
          BY <1>1 DEF Unended
        <4>3. \A i \in 1 .. n : i = Len(stream[p][c]) => i = n
          BY <1>6
        <4>4. QED
          BY <1>6, <4>1, <4>2, <4>3
      <3>2. c = 3 => \A i \in 1 .. Len(stream'[p][c]) :
                        stream'[p][c][i] = End => Read(c) + i - 1 = step[p]
        BY <1>6, <1>10, <2>2 DEF Line
      <3>3. QED
        BY <1>1, <1>7, <1>9, <2>2, <3>1, <3>2 DEF Line
    <2>3. QED
      BY <2>1, <2>2
  <1>11. Lines'
    BY <1>1, <1>10 DEF StreamInv, Lines, Over
  <1>12. Round' /\ WholeSteps'
    BY <1>1 DEF StreamInv, Round, Unended, WholeSteps
  <1>13. QED
    BY <1>8, <1>11, <1>12 DEF StreamInv

\* The next snapshot of the channel in turn, or its end, is read.
LEMMA ReadStep ==
    ASSUME Types, OwnerInv, StreamInv, ReadMessage
    PROVE  StreamInv'
  <1> USE DEF producerVars, greetingVars
  <1> DEFINE p == by_variables[1]
             c == position
             s == stream[p][c]
             head == Head(s)
  <1>0. /\ Control /\ None \notin Producers /\ c \in 1 .. 3 /\ c \in Channels
        /\ Len(stored) \in Nat /\ End \notin Int
    BY MarkAssumption, LenProperties DEF Types, Control, Data, Channels
  <1>1. /\ consumer = "reading" /\ ~Over
        /\ UNCHANGED <<producer, channel, step, guest, broken, by_variables, stored>>
    BY DEF ReadMessage, Over
  <1>2. Peer = p /\ p \in Producers
    BY <1>0, <1>1 DEF OwnerInv, Control, Peer, Channels
  <1>3. /\ s # <<>> /\ messages' = [messages EXCEPT ![c] = head]
        /\ stream' = [stream EXCEPT ![p][c] = Tail(s)]
        /\ IF c = 3 THEN consumer' = "joining" /\ position' = 1
                    ELSE position' = c + 1 /\ UNCHANGED consumer
    BY <1>2 DEF ReadMessage
  <1>4. /\ stream \in [Producers -> [Channels -> Seq(Items)]]
        /\ messages \in [Channels -> Items] /\ s \in Seq(Items)
    BY <1>0, <1>2 DEF Types, Data
  <1>5. /\ Len(Tail(s)) = Len(s) - 1 /\ Len(s) \in Nat \ {0} /\ head = s[1]
        /\ \A i \in 1 .. Len(s) - 1 : Tail(s)[i] = s[i + 1]
    BY <1>3, <1>4, Shortened
  <1>6. /\ stream'[p][c] = Tail(s)
        /\ \A q \in Producers : \A k \in Channels :
              q # p \/ k # c => stream'[q][k] = stream[q][k]
    BY <1>0, <1>2, <1>3, <1>4
  <1>7. /\ messages'[c] = head /\ \A k \in Channels : k # c => messages'[k] = messages[k]
    BY <1>0, <1>3, <1>4
  <1>8. Read(c) = Len(stored) /\ \A k \in Channels :
              /\ Read(k) \in Nat /\ Read(k)' = Read(k) + (IF k = c THEN 1 ELSE 0)
    <2>1. consumer # "joining" /\ Len(stored') = Len(stored)
      BY <1>1
    <2>2. \A k \in Channels : Read(k) = Len(stored) + (IF k < c THEN 1 ELSE 0)
      BY <2>1 DEF Read
    <2>3. \A k \in Channels : Read(k)' = Len(stored) + (IF k <= c THEN 1 ELSE 0)
      <3>1. \A k \in Channels : k <= c <=> consumer' = "joining" \/ k < position'
        BY <1>0, <1>3, <2>1 DEF Channels
      <3>2. QED
        BY <2>1, <3>1 DEF Read
    <2>4. QED
      BY <1>0, <2>2, <2>3 DEF Channels
  <1>9. Line(p, c)
    BY <1>0, <1>1, <1>2 DEF StreamInv, Lines
  <1>10. \/ head = Len(stored) /\ head # End
         \/ head = End /\ ~Unended(p, c) /\ (c = 3 => Len(stored) = step[p])
    <2>1. 1 \in 1 .. Len(s)
      BY <1>5
    <2>2. QED
      BY <1>0, <1>5, <1>8, <1>9, <2>1 DEF Line
  <1>11. Beginning'
    <2>1. guest = None
      BY <1>1 DEF OwnerInv
    <2>2. QED
      BY <1>0, <1>1, <1>2, <1>3, <1>6, <2>1 DEF StreamInv, Beginning
  <1>12. ASSUME NEW k \in Channels PROVE Line(p, k)'
    <2>0. /\ (Told(p, k)' <=> Told(p, k)) /\ (Unended(p, k)' <=> Unended(p, k))
          /\ Line(p, k)
      BY <1>1, <1>2, <1>12 DEF Told, Unended, StreamInv, Lines
    <2>1. Sent(p, k)' = Sent(p, k) /\ step'[p] = step[p] /\ broken' = broken
      BY <1>1 DEF Sent
    <2>2. CASE k # c
      <3>1. stream'[p][k] = stream[p][k] /\ Read(k)' = Read(k)
        BY <1>2, <1>6, <1>8, <2>2
      <3>2. QED
        BY <1>1, <2>0, <2>1, <3>1 DEF Line
    <2>3. CASE k = c
      <3>1. /\ Len(stream'[p][k]) = Len(s) - 1 /\ Read(k)' = Read(k) + 1
            /\ \A i \in 1 .. Len(s) - 1 :
                  /\ stream'[p][k][i] = s[i + 1] /\ i + 1 \in 1 .. Len(s)
                  /\ i + 1 = Len(s) => i = Len(s) - 1
                  /\ Read(k) + (i + 1) - 1 = Read(k) + 1 + i - 1
        <4>1. stream'[p][k] = Tail(s) /\ Read(k) \in Nat /\ Read(k)' = Read(k) + 1
          BY <1>6, <1>8, <2>3
        <4>2. Len(stream'[p][k]) = Len(s) - 1
          BY <1>5, <4>1
        <4>3. \A i \in 1 .. Len(s) - 1 : stream'[p][k][i] = s[i + 1]
          BY <1>5, <4>1
        <4>4. \A i \in 1 .. Len(s) - 1 :
                 i + 1 \in 1 .. Len(s) /\ (i + 1 = Len(s) => i = Len(s) - 1)
          BY <1>5
        <4>5. \A r \in Nat : \A i \in 1 .. Len(s) - 1 : r + (i + 1) - 1 = r + 1 + i - 1
          BY <1>5
        <4>6. QED
          BY <4>1, <4>2, <4>3, <4>4, <4>5
      <3>2. \A i \in 1 .. Len(stream'[p][k]) :
               \/ stream'[p][k][i] = Read(k)' + i - 1
               \/ stream'[p][k][i] = End /\ i = Len(stream'[p][k]) /\ ~Unended(p, k)'
        <4>1. \A i \in 1 .. Len(s) : \/ s[i] = Read(k) + i - 1
                                     \/ s[i] = End /\ i = Len(s) /\ ~Unended(p, k)
          BY <2>0, <2>3 DEF Line
        <4>2. ASSUME NEW i \in 1 .. Len(s) - 1
              PROVE  \/ stream'[p][k][i] = Read(k)' + i - 1
                     \/ stream'[p][k][i] = End /\ i = Len(s) - 1 /\ ~Unended(p, k)
          <5>1. \/ s[i + 1] = Read(k) + (i + 1) - 1
                \/ s[i + 1] = End /\ i + 1 = Len(s) /\ ~Unended(p, k)
            BY <3>1, <4>1, <4>2
          <5>2. QED
            BY <3>1, <4>2, <5>1
        <4>3. QED
          BY <2>0, <3>1, <4>2
      <3>3. k = 3 => \A i \in 1 .. Len(stream'[p][k]) :
                        stream'[p][k][i] = End => Read(k)' + i - 1 = step[p]
        <4>1. k = 3 => \A i \in 1 .. Len(s) : s[i] = End => Read(k) + i - 1 = step[p]
          BY <2>0, <2>3 DEF Line
        <4>2. ASSUME k = 3, NEW i \in 1 .. Len(s) - 1, stream'[p][k][i] = End
              PROVE  Read(k)' + i - 1 = step[p]
          <5>1. s[i + 1] = End => Read(k) + (i + 1) - 1 = step[p]
            BY <3>1, <4>1, <4>2
          <5>2. QED
            BY <3>1, <4>2, <5>1
        <4>3. QED
          BY <3>1, <4>2
      <3>4. Told(p, k) /\ ~broken[p][k] => Read(k) + Len(s) = Sent(p, k)
        BY <2>0, <2>3 DEF Line
      <3>5. Told(p, k) /\ ~broken[p][k] => Read(k)' + Len(stream'[p][k]) = Sent(p, k)
        <4>1. Read(k) \in Nat /\ Len(s) \in Nat
          BY <1>5, <1>8
        <4>2. (Read(k) + 1) + (Len(s) - 1) = Read(k) + Len(s)
          BY <4>1, Regroup
        <4>3. Read(k)' + Len(stream'[p][k]) = Read(k) + Len(s)
          BY <3>1, <4>2
        <4>4. QED
          BY <3>4, <4>3
      <3>6. QED
        BY <1>1, <2>0, <2>1, <3>2, <3>3, <3>5 DEF Line
    <2>4. QED
      BY <2>2, <2>3
  <1>13. Lines'
    BY <1>1, <1>12 DEF Lines
  <1>14. Round'
    <2>1. consumer' = "joining" => position' = 1
      BY <1>0, <1>1, <1>3
    <2>2. ASSUME NEW k \in Channels,
                 consumer' = "joining" \/ (consumer' = "reading" /\ k < position')
          PROVE  messages'[k] = End \/ messages'[k] = Len(stored)
      <3>1. k = c \/ k < c
        BY <1>0, <1>1, <1>3, <2>2 DEF Channels
      <3>2. CASE k = c
        BY <1>7, <1>10, <3>2
      <3>3. CASE k < c
        BY <1>0, <1>1, <1>7, <3>3 DEF StreamInv, Round, Channels
      <3>4. QED
        BY <3>1, <3>2, <3>3
    <2>3. \A q \in Producers : \A k \in Channels :
             by_variables[1] = q /\ Unended(q, k)' => messages'[k] # End
      BY <1>0, <1>1, <1>7, <1>10 DEF StreamInv, Round, Unended
    <2>4. messages'[3] = End => Len(stored) = step[p]
      BY <1>0, <1>7, <1>10 DEF StreamInv, Round, Channels
    <2>5. consumer' # "finished"
      BY <1>1, <1>3
    <2>6. QED
      BY <1>1, <1>2, <2>1, <2>2, <2>3, <2>4, <2>5 DEF Round
  <1>15. WholeSteps'
    BY <1>1 DEF StreamInv, WholeSteps
  <1>16. QED
    BY <1>11, <1>13, <1>14, <1>15 DEF StreamInv

\* The three parts read in a round are those of the next snapshot.
LEMMA StoreStep ==
    ASSUME Types, OwnerInv, StreamInv, Store
    PROVE  StreamInv'
  <1> USE DEF producerVars, greetingVars, streamVars
  <1>0. /\ Control /\ Len(stored) \in Nat /\ position = 1
        /\ stored \in Seq([Channels -> Items]) /\ messages \in [Channels -> Items]
    BY LenProperties DEF Types, Data, Store, StreamInv, Round
  <1>1. /\ consumer = "joining" /\ consumer' = "reading" /\ stored' = Append(stored, messages)
        /\ UNCHANGED <<producer, channel, step, guest, stream, broken, by_variables, position,
                       messages>>
        /\ \A k \in Channels : messages[k] # End
    BY DEF Store, SomeEnded
  <1>2. /\ Len(stored') = Len(stored) + 1 /\ stored'[Len(stored) + 1] = messages
        /\ \A i \in 1 .. Len(stored) : stored'[i] = stored[i]
    BY <1>0, <1>1, Appended
  <1>3. \A k \in Channels : messages[k] = Len(stored)
    BY <1>1 DEF StreamInv, Round
  <1>4. Beginning'
    <2>1. guest = None
      BY <1>1 DEF OwnerInv
    <2>2. QED
      BY <1>1, <2>1 DEF StreamInv, Beginning
  <1>5. \A k \in Channels : Read(k)' = Read(k)
    BY <1>0, <1>1, <1>2 DEF Read, Channels
  <1>6. \A p \in Producers : \A k \in Channels : Line(p, k) => Line(p, k)'
    BY <1>1, <1>5 DEF Line, Told, Sent, Unended
  <1>7. Lines'
    BY <1>1, <1>6 DEF StreamInv, Lines, Over
  <1>8. Round'
    BY <1>0, <1>1 DEF StreamInv, Round, Unended, Channels
  <1>9. WholeSteps'
    <2>1. ASSUME NEW i \in 1 .. Len(stored'), NEW k \in Channels PROVE stored'[i][k] = i - 1
      <3>1. CASE i \in 1 .. Len(stored)
        BY <1>2, <3>1 DEF StreamInv, WholeSteps
      <3>2. CASE i = Len(stored) + 1
        BY <1>0, <1>2, <1>3, <3>2
      <3>3. QED
        BY <1>0, <1>2, <3>1, <3>2
    <2>2. QED
      BY <2>1 DEF WholeSteps
  <1>10. QED
    BY <1>4, <1>7, <1>8, <1>9 DEF StreamInv

LEMMA StreamStep == ASSUME Types, OwnerInv, StreamInv, [Next]_vars PROVE StreamInv'
  BY QuietProducer, QuietConsumer, ProveStep, GreetedStep, SendPartStep, SendEndStep, BreakStep,
     ReadStep, StoreStep
     DEF Next, ProducerStep, ConsumerStep

-------------------------------------------------------------------------------
(* The theorems.                                                           *)

LEMMA InitiallyGood == Init => Types /\ OwnerInv /\ StreamInv
  <1> SUFFICES ASSUME Init PROVE Types /\ OwnerInv /\ StreamInv
    OBVIOUS
  <1> USE DEF Channels
  <1>1. None \notin Producers /\ <<>> \in Seq(Items) /\ <<>> \in Seq(Producers)
        /\ <<>> \in Seq([Channels -> Items]) /\ 0 \in Items /\ 0 # End /\ Len(<<>>) = 0
    BY MarkAssumption, EmptySeq DEF Items
  <1>2. Control /\ Counts
    BY <1>1 DEF Init, Control, Counts
  <1>3. Data
    BY <1>1 DEF Init, Data
  <1>4. OwnerInv
    BY <1>1 DEF Init, OwnerInv
  <1>5. Beginning /\ WholeSteps
    BY <1>1 DEF Init, Beginning, WholeSteps
  <1>6. Lines /\ Round
    BY <1>1 DEF Init, Lines, Round
  <1>7. QED
    BY <1>2, <1>3, <1>4, <1>5, <1>6 DEF Types, StreamInv

LEMMA Inductive == Spec => [](Types /\ OwnerInv /\ StreamInv)
  <1>1. Types /\ OwnerInv /\ StreamInv /\ [Next]_vars => (Types /\ OwnerInv /\ StreamInv)'
    BY TypeStep, OwnerStep, StreamStep
  <1>2. QED
    BY InitiallyGood, <1>1, PTL DEF Spec

\* accept_connections of mockConsumerSockets.py: the connections a consumer accepts are
\* those of one producer, which has its key and its consumer id, for any number of
\* producers of every kind that connect at the same time.
THEOREM OneOwner == Spec => []OneProducer
  <1>1. OwnerInv => OneProducer
    BY DEF OwnerInv, OneProducer
  <1>2. QED
    BY Inductive, <1>1, PTL

\* receive_steps of mockConsumerSockets.py: the parts it joins are those of one snapshot,
\* and the snapshots stored are a prefix of the run, whichever writes fail half way and
\* whichever connections break.
THEOREM PartsBelongTogether == Spec => []WholeSteps
  <1>1. StreamInv => WholeSteps
    BY DEF StreamInv
  <1>2. QED
    BY Inductive, <1>1, PTL

\* receive_steps of mockConsumerSockets.py: the consumer returns normally only with every
\* snapshot the producer has written, for a buffer of any size.
THEOREM EndIsComplete == Spec => []CleanEndComplete
  <1>1. StreamInv => CleanEndComplete
    BY DEF StreamInv, Round, CleanEndComplete
  <1>2. QED
    BY Inductive, <1>1, PTL

===============================================================================
