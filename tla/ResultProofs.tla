----------------------------- MODULE ResultProofs -----------------------------
(***************************************************************************)
(* Proofs about what a run leaves behind: the files of its consumers       *)
(* (RotatingOutput), and its timing logs, with what the analyzer concludes *)
(* from them (Analysis).                                                   *)
(*                                                                         *)
(* RotatingOutput, for any number of consumers, steps and rotations,       *)
(* however often the wall clock repeats itself: a name is tested before it *)
(* is opened, which is safe only while the consumers follow one another    *)
(* (InTurn, of a launcher that does not let them overlap).  Then no other  *)
(* consumer opens the name in between (Chosen), a file is opened once      *)
(* (OpenedOnce), and what a consumer writes goes to the last of its own    *)
(* files (Current).  That a free name is always found among Names is a     *)
(* matter of counting (Room).                                              *)
(*                                                                         *)
(* Analysis, for any number of snapshots, capacity of the queue and number *)
(* of faults: a snapshot is evicted or all are queued and stored in order  *)
(* (Lined, WritesLogged).  The numbers in a consumer's log are its own,    *)
(* and are those of the snapshots only while one consumer goes on          *)
(* (Numbered, which needs Counting).  The peak of the queue is remembered  *)
(* by the call at which it was reached (PeakSeen), which stays in the logs.*)
(***************************************************************************)
EXTENDS RotatingOutput, Analysis, FiniteSetTheorems, SequenceTheorems, TLAPS

States == {"none", "idle", "naming", "probing", "opening", "writing", "ended"}
Records == Seq(Consumers \X Nat)

ClockTypes ==
    /\ clock \in Nat
    /\ now \in [Consumers -> Nat] /\ next_rotation \in [Consumers -> Nat]

FileTypes == files \in [Names -> Records \cup {Absent}]

ConsumerTypes ==
    /\ consumer \in [Consumers -> States]
    /\ output \in [Consumers -> Names \cup {Absent}]
    /\ candidate \in [Consumers -> (Timestamps \X Nat) \cup {Absent}]

RecordTypes == written \in [Consumers -> Nat] /\ opened \in [Consumers -> Seq(Names)]

Types == ClockTypes /\ FileTypes /\ ConsumerTypes /\ RecordTypes

-------------------------------------------------------------------------------
(* The invariant.                                                          *)

InTurn ==
    \A c, d \in Consumers : d < c /\ consumer[c] # "none" => consumer[d] = "ended"

OpenedNames == UNION {{opened[c][i] : i \in DOMAIN opened[c]} : c \in Consumers}

\* The files in the directory are those the consumers opened, each by one of them and once.
Recorded == \A n \in Names : files[n] # Absent <=> n \in OpenedNames
OpenedOnce ==
    \A c, d \in Consumers : \A i \in DOMAIN opened[c] : \A j \in DOMAIN opened[d] :
       opened[c][i] = opened[d][j] => c = d /\ i = j

\* A consumer opens a file at most for each of its steps.
Room ==
    \A c \in Consumers :
       /\ Len(opened[c]) <= Steps
       /\ consumer[c] \in {"naming", "probing", "opening", "writing"} => written[c] < Steps
       /\ consumer[c] # "ended" =>
             Len(opened[c]) <= written[c] + (IF consumer[c] = "writing" THEN 1 ELSE 0)

\* Of the names a consumer tries, those with a lower sequence number are taken, and the
\* one it is about to open is free.
Chosen ==
    \A c \in Consumers :
       /\ consumer[c] = "probing" =>
             /\ candidate[c] \in Timestamps \X Nat
             /\ \A m \in Nat : m < candidate[c][2] => <<candidate[c][1], m>> \in OpenedNames
       /\ consumer[c] = "opening" => candidate[c] \in Names /\ files[candidate[c]] = Absent

\* A consumer writes to the last of the files it opened.
Current ==
    \A c \in Consumers :
       /\ consumer[c] = "writing" => output[c] # Absent
       /\ output[c] # Absent =>
             opened[c] # <<>> /\ output[c] = opened[c][Len(opened[c])]

Inv ==
    /\ Types
    /\ InTurn /\ Recorded /\ OpenedOnce /\ Room /\ Chosen /\ Current
    /\ StepsKept

-------------------------------------------------------------------------------
(* What steps have in common.                                              *)

LEMMA OpenedName ==
    ASSUME NEW n
    PROVE  n \in OpenedNames <=> \E c \in Consumers : \E i \in DOMAIN opened[c] : opened[c][i] = n
  BY DEF OpenedNames

LEMMA SameNames == ASSUME UNCHANGED opened PROVE OpenedNames' = OpenedNames
  BY DEF OpenedNames

\* A consumer that goes from one place to another: the others stay where they are.
LEMMA Going ==
    ASSUME Types, NEW c \in Consumers, NEW from, NEW to \in States, Goes(c, from, to)
    PROVE  /\ consumer[c] = from /\ consumer' \in [Consumers -> States] /\ consumer'[c] = to
           /\ \A d \in Consumers : d # c => consumer'[d] = consumer[d]
  BY DEF Types, ConsumerTypes, Goes, States

\* A consumer that is alive keeps its turn, and gives it up only when it ends.
LEMMA KeepsTurn ==
    ASSUME InTurn, NEW c \in Consumers, consumer[c] \notin {"none", "ended"},
           \A d \in Consumers : d # c => consumer'[d] = consumer[d]
    PROVE  InTurn'
  BY DEF InTurn

\* While a consumer is alive, no other is.
LEMMA OneAlive ==
    ASSUME InTurn, NEW c \in Consumers, consumer[c] \notin {"none", "ended"},
           NEW d \in Consumers, d # c
    PROVE  consumer[d] \in {"none", "ended"}
  <1>1. c \in Nat /\ d \in Nat
    BY ConsumerAssumption
  <1>2. CASE d < c
    BY <1>2 DEF InTurn
  <1>3. CASE c < d
    BY <1>3 DEF InTurn
  <1>4. QED
    BY <1>1, <1>2, <1>3

\* A step that leaves the directory and the records alone.
LEMMA QuietKeeps ==
    ASSUME Inv, UNCHANGED <<files, opened, written>>,
           ClockTypes', ConsumerTypes', InTurn', Room', Chosen', Current'
    PROVE  Inv'
  <1>1. FileTypes' /\ RecordTypes'
    BY DEF Inv, Types, FileTypes, RecordTypes
  <1>2. Recorded' /\ OpenedOnce' /\ StepsKept'
    BY DEF Inv, Recorded, OpenedNames, OpenedOnce, StepsKept, Holds
  <1>3. QED
    BY <1>1, <1>2 DEF Inv, Types

\* Every name a consumer tries is one of Names: the lower ones are taken, and there are
\* not that many opened files.
LEMMA CandidateIsName ==
    ASSUME Inv, NEW c \in Consumers, consumer[c] = "probing"
    PROVE  /\ candidate[c] \in Names
           /\ candidate[c] = <<candidate[c][1], candidate[c][2]>>
           /\ candidate[c][1] \in Timestamps /\ candidate[c][2] \in Nat
  <1> DEFINE t == candidate[c][1]
             k == candidate[c][2]
             Places == Consumers \X (1 .. Steps)
             Place(m) == CHOOSE p \in Places : /\ p[2] \in DOMAIN opened[p[1]]
                                              /\ opened[p[1]][p[2]] = <<t, m>>
             place == [m \in 0 .. k - 1 |-> Place(m)]
  <1>1. /\ candidate[c] = <<t, k>> /\ t \in Timestamps /\ k \in Nat
        /\ \A m \in Nat : m < k => <<t, m>> \in OpenedNames
    BY DEF Inv, Chosen
  <1>2. ASSUME NEW m \in 0 .. k - 1
        PROVE  /\ Place(m) \in Places
               /\ opened[Place(m)[1]][Place(m)[2]] = <<t, m>>
    <2>1. m \in Nat /\ m < k
      BY <1>1
    <2>2. PICK d \in Consumers : \E i \in DOMAIN opened[d] : opened[d][i] = <<t, m>>
      BY <1>1, <2>1, OpenedName
    <2>3. PICK i \in DOMAIN opened[d] : opened[d][i] = <<t, m>>
      BY <2>2
    <2>4. i \in 1 .. Steps
      <3>1. opened[d] \in Seq(Names) /\ Len(opened[d]) <= Steps
        BY DEF Inv, Types, RecordTypes, Room
      <3>2. QED
        BY <3>1, NumberAssumption
    <2>5. <<d, i>> \in Places /\ <<d, i>>[1] = d /\ <<d, i>>[2] = i
      BY <2>4
    <2>6. QED
      BY <2>3, <2>5
  <1> HIDE DEF Place
  <1>3. IsFiniteSet(Places) /\ Cardinality(Places) = Cardinality(Consumers) * Steps
    <2>1. Steps \in Nat /\ IsFiniteSet(Consumers)
      BY NumberAssumption, ConsumerAssumption
    <2>2. IsFiniteSet(1 .. Steps) /\ Cardinality(1 .. Steps) = Steps
      BY <2>1, FS_Interval
    <2>3. QED
      BY <2>1, <2>2, FS_Product
  <1> HIDE DEF Places
  <1>4. place \in Injection(0 .. k - 1, Places)
    <2>1. place \in [0 .. k - 1 -> Places]
      BY <1>2
    <2>2. ASSUME NEW m \in 0 .. k - 1, NEW n \in 0 .. k - 1, place[m] = place[n]
          PROVE  m = n
      <3>1. <<t, m>> = <<t, n>>
        BY <1>2, <2>2
      <3>2. QED
        BY <3>1
    <2>3. QED
      BY <2>1, <2>2 DEF Injection, IsInjective
  <1>5. Cardinality(0 .. k - 1) <= Cardinality(Consumers) * Steps
    BY <1>3, <1>4, FS_Injection
  <1>6. Cardinality(0 .. k - 1) = k
    BY <1>1, FS_Interval
  <1>7. Cardinality(Consumers) * Steps \in Int
    <2>1. Cardinality(Consumers) \in Nat /\ Steps \in Nat
      BY ConsumerAssumption, NumberAssumption, FS_CardinalityType
    <2>2. QED
      BY <2>1
  <1>8. k \in 0 .. Cardinality(Consumers) * Steps
    BY <1>1, <1>5, <1>6, <1>7
  <1>9. QED
    BY <1>1, <1>8 DEF Names

-------------------------------------------------------------------------------
(* The steps that leave the directory alone.                               *)

LEMMA StartsKeeps == ASSUME ~Overlap, Inv, NEW c \in Consumers, Starts(c) PROVE Inv'
  <1>1. /\ consumer[c] = "none" /\ consumer' \in [Consumers -> States]
        /\ consumer'[c] = "idle"
        /\ \A d \in Consumers : d # c => consumer'[d] = consumer[d]
    BY Going DEF Starts, Inv, States
  <1>2. UNCHANGED <<clock, files, output, next_rotation, candidate, now, written, opened>>
    BY DEF Starts, localVars, recordVars
  <1>3. ClockTypes' /\ ConsumerTypes'
    BY <1>1, <1>2 DEF Inv, Types, ClockTypes, ConsumerTypes, States
  <1>4. InTurn'
    <2>1. \A d \in Consumers : d < c => consumer[d] = "ended"
      BY DEF Starts
    <2>2. \A d \in Consumers : ~(c < d /\ consumer[d] # "none")
      BY <1>1 DEF Inv, InTurn
    <2>3. \A d \in Consumers : ~(d < d)
      BY ConsumerAssumption
    <2>4. QED
      BY <1>1, <2>1, <2>2, <2>3 DEF Inv, InTurn
  <1>5. Room'
    BY <1>1, <1>2 DEF Inv, Room
  <1>6. Chosen'
    BY <1>1, <1>2, SameNames DEF Inv, Chosen
  <1>7. Current'
    BY <1>1, <1>2 DEF Inv, Current
  <1>8. QED
    BY <1>2, <1>3, <1>4, <1>5, <1>6, <1>7, QuietKeeps

LEMMA WriteBeginsKeeps == ASSUME Inv, NEW c \in Consumers, WriteBegins(c) PROVE Inv'
  <1>1. UNCHANGED <<clock, files, next_rotation, candidate, written, opened>>
        /\ written[c] < Steps /\ now' = [now EXCEPT ![c] = clock]
    BY DEF WriteBegins, recordVars
  <1>2. \/ Goes(c, "idle", "naming") /\ output' = [output EXCEPT ![c] = Absent]
        \/ Goes(c, "idle", "writing") /\ output' = output /\ output[c] # Absent
    BY DEF WriteBegins, RotationDue
  <1>3. /\ consumer[c] = "idle" /\ consumer' \in [Consumers -> States]
        /\ consumer'[c] \in {"naming", "writing"}
        /\ \A d \in Consumers : d # c => consumer'[d] = consumer[d]
    <2>1. "naming" \in States /\ "writing" \in States /\ Types
      BY DEF States, Inv
    <2>2. QED
      BY <1>2, <2>1, Going
  <1>4. /\ output' \in [Consumers -> Names \cup {Absent}]
        /\ \A d \in Consumers : output'[d] # Absent => output'[d] = output[d]
        /\ consumer'[c] = "writing" => output'[c] # Absent
        /\ \A d \in Consumers : d # c => output'[d] = output[d]
    <2>1. output \in [Consumers -> Names \cup {Absent}] /\ Types
      BY DEF Inv, Types, ConsumerTypes
    <2>2. CASE Goes(c, "idle", "naming") /\ output' = [output EXCEPT ![c] = Absent]
      <3>1. consumer'[c] = "naming"
        BY <2>1, <2>2, Going DEF States
      <3>2. QED
        BY <2>1, <2>2, <3>1
    <2>3. CASE output' = output /\ output[c] # Absent
      BY <2>1, <2>3
    <2>4. QED
      BY <1>2, <2>2, <2>3
  <1>5. ClockTypes' /\ ConsumerTypes'
    BY <1>1, <1>3, <1>4 DEF Inv, Types, ClockTypes, ConsumerTypes, States
  <1>6. InTurn'
    BY <1>3, KeepsTurn DEF Inv
  <1>7. Room'
    <2>1. Len(opened[c]) <= written[c] => Len(opened[c]) <= written[c] + 1
      BY DEF Inv, Types, RecordTypes
    <2>2. Len(opened[c]) \in Int /\ written[c] \in Int
      BY DEF Inv, Types, RecordTypes
    <2>3. ASSUME NEW d \in Consumers, d # c
          PROVE  consumer'[d] = consumer[d]
      BY <1>3, <2>3
    <2>4. Len(opened[c]) <= Steps /\ Len(opened[c]) <= written[c]
      BY <1>3, <2>2 DEF Inv, Room
    <2>5. QED
      BY <1>1, <1>3, <2>1, <2>2, <2>3, <2>4 DEF Inv, Room
  <1>8. Chosen'
    BY <1>1, <1>3, SameNames DEF Inv, Chosen
  <1>9. Current'
    BY <1>1, <1>3, <1>4 DEF Inv, Current
  <1>10. QED
    BY <1>1, <1>5, <1>6, <1>7, <1>8, <1>9, QuietKeeps

LEMMA TakesTimestampKeeps ==
    ASSUME Inv, NEW c \in Consumers, TakesTimestamp(c) PROVE Inv'
  <1>1. UNCHANGED <<clock, files, output, next_rotation, now, written, opened>>
        /\ Goes(c, "naming", "probing")
    BY DEF TakesTimestamp, recordVars
  <1>2. PICK t \in Timestamps : candidate' = [candidate EXCEPT ![c] = <<t, 0>>]
    BY DEF TakesTimestamp
  <1>3. /\ consumer[c] = "naming" /\ consumer' \in [Consumers -> States]
        /\ consumer'[c] = "probing"
        /\ \A d \in Consumers : d # c => consumer'[d] = consumer[d]
    BY <1>1, Going DEF Inv, States
  <1>4. /\ candidate' \in [Consumers -> (Timestamps \X Nat) \cup {Absent}]
        /\ candidate'[c] = <<t, 0>>
        /\ \A d \in Consumers : d # c => candidate'[d] = candidate[d]
    BY <1>2 DEF Inv, Types, ConsumerTypes
  <1>5. ClockTypes' /\ ConsumerTypes'
    BY <1>1, <1>3, <1>4 DEF Inv, Types, ClockTypes, ConsumerTypes, States
  <1>6. InTurn'
    BY <1>3, KeepsTurn DEF Inv
  <1>7. Room'
    BY <1>1, <1>3 DEF Inv, Room
  <1>8. Chosen'
    <2>1. \A m \in Nat : ~(m < 0)
      OBVIOUS
    <2>2. candidate'[c] \in Timestamps \X Nat /\ candidate'[c][2] = 0
      BY <1>4
    <2>3. OpenedNames' = OpenedNames
      BY <1>1, SameNames
    <2>4. QED
      BY <1>1, <1>3, <1>4, <2>1, <2>2, <2>3 DEF Inv, Chosen
  <1>9. Current'
    BY <1>1, <1>3 DEF Inv, Current
  <1>10. QED
    BY <1>1, <1>5, <1>6, <1>7, <1>8, <1>9, QuietKeeps

LEMMA ProbesTakenKeeps == ASSUME Inv, NEW c \in Consumers, ProbesTaken(c) PROVE Inv'
  <1>1. UNCHANGED <<clock, files, consumer, output, next_rotation, now, written, opened>>
        /\ consumer[c] = "probing" /\ files[candidate[c]] # Absent
        /\ candidate' = [candidate EXCEPT ![c] = <<@[1], @[2] + 1>>]
    BY DEF ProbesTaken, recordVars, Taken
  <1> DEFINE t == candidate[c][1]
             k == candidate[c][2]
  <1>2. candidate[c] \in Names /\ candidate[c] = <<t, k>> /\ t \in Timestamps /\ k \in Nat
    BY <1>1, CandidateIsName
  <1>3. /\ candidate' \in [Consumers -> (Timestamps \X Nat) \cup {Absent}]
        /\ candidate'[c] = <<t, k + 1>>
        /\ \A d \in Consumers : d # c => candidate'[d] = candidate[d]
    <2>1. <<t, k + 1>> \in Timestamps \X Nat
      BY <1>2
    <2>2. QED
      BY <1>1, <2>1 DEF Inv, Types, ConsumerTypes
  <1>4. ClockTypes' /\ ConsumerTypes'
    BY <1>1, <1>3 DEF Inv, Types, ClockTypes, ConsumerTypes
  <1>5. InTurn' /\ Room' /\ Current'
    BY <1>1 DEF Inv, InTurn, Room, Current
  <1>6. Chosen'
    <2>1. <<t, k>> \in OpenedNames
      BY <1>1, <1>2 DEF Inv, Recorded
    <2>2. \A m \in Nat : m < k + 1 => <<t, m>> \in OpenedNames
      <3>1. \A m \in Nat : m < k + 1 => m < k \/ m = k
        BY <1>2
      <3>2. \A m \in Nat : m < k => <<t, m>> \in OpenedNames
        BY <1>1 DEF Inv, Chosen
      <3>3. QED
        BY <2>1, <3>1, <3>2
    <2>3. candidate'[c] \in Timestamps \X Nat /\ candidate'[c][1] = t
          /\ candidate'[c][2] = k + 1
      BY <1>2, <1>3
    <2>4. OpenedNames' = OpenedNames
      BY <1>1, SameNames
    <2>5. \A m \in Nat : m < candidate'[c][2] => <<candidate'[c][1], m>> \in OpenedNames
      BY <2>2, <2>3
    <2>6. QED
      BY <1>1, <1>3, <2>3, <2>4, <2>5 DEF Inv, Chosen
  <1>7. QED
    BY <1>1, <1>4, <1>5, <1>6, QuietKeeps

LEMMA ProbesFreeKeeps == ASSUME Inv, NEW c \in Consumers, ProbesFree(c) PROVE Inv'
  <1>1. UNCHANGED <<clock, files, output, next_rotation, candidate, now, written, opened>>
        /\ Goes(c, "probing", "opening") /\ files[candidate[c]] = Absent
    BY DEF ProbesFree, localVars, recordVars, Taken
  <1>2. /\ consumer[c] = "probing" /\ consumer' \in [Consumers -> States]
        /\ consumer'[c] = "opening"
        /\ \A d \in Consumers : d # c => consumer'[d] = consumer[d]
    BY <1>1, Going DEF Inv, States
  <1>3. ClockTypes' /\ ConsumerTypes'
    BY <1>1, <1>2 DEF Inv, Types, ClockTypes, ConsumerTypes, States
  <1>4. InTurn'
    BY <1>2, KeepsTurn DEF Inv
  <1>5. Room'
    BY <1>1, <1>2 DEF Inv, Room
  <1>6. Chosen'
    <2>1. candidate[c] \in Names
      BY <1>2, CandidateIsName
    <2>2. QED
      BY <1>1, <1>2, <2>1, SameNames DEF Inv, Chosen
  <1>7. Current'
    BY <1>1, <1>2 DEF Inv, Current
  <1>8. QED
    BY <1>1, <1>3, <1>4, <1>5, <1>6, <1>7, QuietKeeps

LEMMA EndsKeeps == ASSUME Inv, NEW c \in Consumers, Ends(c) PROVE Inv'
  <1>1. UNCHANGED <<clock, files, next_rotation, candidate, now, written, opened>>
        /\ consumer[c] \notin {"none", "ended"}
        /\ consumer' = [consumer EXCEPT ![c] = "ended"]
        /\ output' = [output EXCEPT ![c] = Absent]
    BY DEF Ends, Alive, recordVars
  <1>2. /\ consumer' \in [Consumers -> States] /\ consumer'[c] = "ended"
        /\ \A d \in Consumers : d # c => consumer'[d] = consumer[d]
    BY <1>1 DEF Inv, Types, ConsumerTypes, States
  <1>3. /\ output' \in [Consumers -> Names \cup {Absent}] /\ output'[c] = Absent
        /\ \A d \in Consumers : d # c => output'[d] = output[d]
    BY <1>1 DEF Inv, Types, ConsumerTypes
  <1>4. ClockTypes' /\ ConsumerTypes'
    BY <1>1, <1>2, <1>3 DEF Inv, Types, ClockTypes, ConsumerTypes, States
  <1>5. InTurn'
    BY <1>1, <1>2, KeepsTurn DEF Inv
  <1>6. Room'
    <2>1. \A d \in Consumers : consumer'[d] \in {consumer[d], "ended"}
      BY <1>2
    <2>2. QED
      BY <1>1, <2>1 DEF Inv, Room
  <1>7. Chosen'
    BY <1>1, <1>2, SameNames DEF Inv, Chosen
  <1>8. Current'
    BY <1>1, <1>2, <1>3 DEF Inv, Current
  <1>9. QED
    BY <1>1, <1>4, <1>5, <1>6, <1>7, <1>8, QuietKeeps

LEMMA TickKeeps == ASSUME Inv, Tick PROVE Inv'
  <1>1. UNCHANGED <<files, consumer, output, next_rotation, candidate, now, written, opened>>
        /\ clock' = clock + 1
    BY DEF Tick, localVars, recordVars
  <1>2. ClockTypes' /\ ConsumerTypes'
    BY <1>1 DEF Inv, Types, ClockTypes, ConsumerTypes
  <1>3. InTurn' /\ Room' /\ Chosen' /\ Current'
    BY <1>1, SameNames DEF Inv, InTurn, Room, Chosen, Current
  <1>4. QED
    BY <1>1, <1>2, <1>3, QuietKeeps

-------------------------------------------------------------------------------
(* Opening a file.                                                         *)

\* The steps of one consumer are in its files, in order.
Kept(c) ==
    \E first \in [1 .. Len(opened[c]) + 1 -> 0 .. written[c]] :
       /\ first[1] = 0 /\ first[Len(opened[c]) + 1] = written[c]
       /\ Holds(c, opened[c], first)

LEMMA EachKept == StepsKept <=> \A c \in Consumers : Kept(c)
  BY DEF StepsKept, Kept

\* A consumer whose files a step leaves alone.
LEMMA OthersKept ==
    ASSUME StepsKept, NEW c \in Consumers,
           written'[c] = written[c], opened'[c] = opened[c],
           \A i \in DOMAIN opened[c] : files'[opened[c][i]] = files[opened[c][i]]
    PROVE  Kept(c)'
  BY EachKept DEF Kept, Holds

\* The file that is opened is new, and is the last of the consumer's files from now on.
LEMMA OpensRecords ==
    ASSUME Inv, NEW c \in Consumers, Opens(c)
    PROVE  LET n == candidate[c]
               L == Len(opened[c])
           IN  /\ n \in Names /\ files[n] = Absent /\ n \notin OpenedNames /\ L \in Nat
               /\ opened' \in [Consumers -> Seq(Names)]
               /\ Len(opened'[c]) = L + 1 /\ opened'[c][L + 1] = n
               /\ DOMAIN opened[c] = 1 .. L /\ DOMAIN opened'[c] = 1 .. L + 1
               /\ \A i \in 1 .. L : opened'[c][i] = opened[c][i] /\ opened[c][i] # n
               /\ \A d \in Consumers : d # c =>
                     /\ opened'[d] = opened[d]
                     /\ \A i \in DOMAIN opened[d] : opened[d][i] # n
  <1> DEFINE n == candidate[c]
             L == Len(opened[c])
  <1>1. n \in Names /\ files[n] = Absent
    BY DEF Opens, Goes, Inv, Chosen
  <1>2. n \notin OpenedNames
    BY <1>1 DEF Inv, Recorded
  <1>3. \A d \in Consumers : \A i \in DOMAIN opened[d] : opened[d][i] # n
    BY <1>2, OpenedName
  <1>4. opened \in [Consumers -> Seq(Names)] /\ opened[c] \in Seq(Names)
    BY DEF Inv, Types, RecordTypes
  <1>5. opened' = [opened EXCEPT ![c] = Append(opened[c], n)]
    BY DEF Opens
  <1>6. opened'[c] = Append(opened[c], n) /\ Append(opened[c], n) \in Seq(Names)
        /\ \A d \in Consumers : d # c => opened'[d] = opened[d]
    BY <1>1, <1>4, <1>5
  <1>7. opened' \in [Consumers -> Seq(Names)]
    BY <1>4, <1>5, <1>6
  <1>8. L \in Nat /\ DOMAIN opened[c] = 1 .. L /\ Len(opened'[c]) = L + 1
        /\ DOMAIN opened'[c] = 1 .. L + 1 /\ opened'[c][L + 1] = n
        /\ \A i \in 1 .. L : opened'[c][i] = opened[c][i]
    BY <1>1, <1>4, <1>6
  <1>9. \A i \in 1 .. L : opened[c][i] # n
    BY <1>3, <1>8
  <1>10. QED
    BY <1>1, <1>2, <1>3, <1>6, <1>7, <1>8, <1>9

LEMMA OpensKeepsSteps ==
    ASSUME Inv, NEW c \in Consumers, Opens(c)
    PROVE  StepsKept'
  <1> DEFINE n == candidate[c]
             L == Len(opened[c])
  <1>1. /\ L \in Nat /\ Len(opened'[c]) = L + 1 /\ opened'[c][L + 1] = n
        /\ DOMAIN opened[c] = 1 .. L /\ DOMAIN opened'[c] = 1 .. L + 1
        /\ \A i \in 1 .. L : opened'[c][i] = opened[c][i] /\ opened[c][i] # n
        /\ \A d \in Consumers : d # c =>
              opened'[d] = opened[d] /\ \A i \in DOMAIN opened[d] : opened[d][i] # n
        /\ n \in Names
    BY OpensRecords
  <1>2. /\ files'[n] = <<>> /\ written' = written
        /\ \A m : m # n => files'[m] = files[m]
    <2>1. files' = [files EXCEPT ![n] = <<>>] /\ written' = written
      BY DEF Opens
    <2>2. n \in DOMAIN files
      BY <1>1 DEF Inv, Types, FileTypes
    <2>3. \A m : m # n => files'[m] = files[m]
      BY <2>1
    <2>4. QED
      BY <2>1, <2>2, <2>3
  <1>3. ASSUME NEW d \in Consumers, d # c
        PROVE  Kept(d)'
    <2>1. \A i \in DOMAIN opened[d] : files'[opened[d][i]] = files[opened[d][i]]
      BY <1>1, <1>2, <1>3
    <2>2. opened'[d] = opened[d] /\ written'[d] = written[d] /\ StepsKept
      BY <1>1, <1>2, <1>3 DEF Inv
    <2>3. QED
      BY <2>1, <2>2, OthersKept
  <1>4. Kept(c)'
    <2>1. PICK first \in [1 .. L + 1 -> 0 .. written[c]] :
             /\ first[1] = 0 /\ first[L + 1] = written[c]
             /\ Holds(c, opened[c], first)
      BY EachKept DEF Inv, Kept
    <2>2. written[c] \in Nat
      BY DEF Inv, Types, RecordTypes
    <2>3. PICK next \in [1 .. L + 2 -> 0 .. written[c]] :
             /\ \A i \in 1 .. L + 1 : next[i] = first[i]
             /\ next[L + 2] = written[c]
      <3>1. [i \in 1 .. L + 2 |-> IF i = L + 2 THEN written[c] ELSE first[i]]
               \in [1 .. L + 2 -> 0 .. written[c]]
        <4>1. ASSUME NEW i \in 1 .. L + 2
              PROVE  (IF i = L + 2 THEN written[c] ELSE first[i]) \in 0 .. written[c]
          <5>1. i = L + 2 \/ i \in 1 .. L + 1
            BY <1>1
          <5>2. written[c] \in 0 .. written[c]
            BY <2>2
          <5>3. QED
            BY <2>1, <5>1, <5>2
        <4>2. QED
          BY <4>1
      <3>2. L + 2 \in 1 .. L + 2 /\ \A i \in 1 .. L + 1 : i \in 1 .. L + 2 /\ i # L + 2
        BY <1>1
      <3>3. QED
        BY <3>1, <3>2
    <2>4. next[1] = 0 /\ next[L + 2] = written[c]
      BY <1>1, <2>1, <2>3
    <2>5. ASSUME NEW i \in 1 .. L + 1
          PROVE  /\ next[i] <= next[i + 1]
                 /\ files'[opened'[c][i]] =
                       Run(c, next[i], next[i + 1])
      <3>1. CASE i \in 1 .. L
        <4>1. next[i] = first[i] /\ next[i + 1] = first[i + 1]
          BY <1>1, <2>3, <3>1
        <4>2. files'[opened'[c][i]] = files[opened[c][i]]
          BY <1>1, <1>2, <3>1
        <4>3. /\ first[i] <= first[i + 1]
              /\ files[opened[c][i]] =
                    Run(c, first[i], first[i + 1])
          BY <1>1, <2>1, <3>1 DEF Holds
        <4>4. QED
          BY <4>1, <4>2, <4>3
      <3>2. CASE i = L + 1
        <4>1. next[i] = written[c] /\ next[i + 1] = written[c]
          BY <1>1, <2>1, <2>3, <3>2
        <4>2. 1 .. written[c] - written[c] = {}
          BY <2>2
        <4>3. <<>> = Run(c, next[i], next[i + 1])
          BY <4>1, <4>2 DEF Run
        <4>4. QED
          BY <1>1, <1>2, <2>2, <3>2, <4>1, <4>3
      <3>3. QED
        BY <1>1, <2>5, <3>1, <3>2
    <2>6. L + 1 + 1 = L + 2
      BY <1>1
    <2>7. /\ next \in [1 .. Len(opened'[c]) + 1 -> 0 .. written'[c]]
          /\ next[1] = 0 /\ next[Len(opened'[c]) + 1] = written'[c]
      BY <1>1, <1>2, <2>3, <2>4, <2>6
    <2>8. \A i \in DOMAIN opened'[c] :
             /\ next[i] <= next[i + 1]
             /\ files'[opened'[c][i]] =
                   Run(c, next[i], next[i + 1])
      BY <1>1, <2>5
    <2>9. QED
      BY <2>7, <2>8 DEF Kept, Holds
  <1>5. (\A d \in Consumers : Kept(d))'
    BY <1>3, <1>4
  <1>6. QED
    BY <1>5 DEF StepsKept, Kept

LEMMA OpensKeeps == ASSUME Inv, NEW c \in Consumers, Opens(c) PROVE Inv'
  <1> DEFINE n == candidate[c]
             L == Len(opened[c])
  <1>1. UNCHANGED <<clock, candidate, now, written>> /\ Goes(c, "opening", "writing")
        /\ files' = [files EXCEPT ![n] = <<>>] /\ output' = [output EXCEPT ![c] = n]
        /\ next_rotation' = [next_rotation EXCEPT ![c] = now[c] + Interval]
    BY DEF Opens
  <1>2. /\ consumer[c] = "opening" /\ consumer' \in [Consumers -> States]
        /\ consumer'[c] = "writing"
        /\ \A d \in Consumers : d # c => consumer'[d] = consumer[d]
    BY <1>1, Going DEF Inv, States
  <1>3. /\ n \in Names /\ n \notin OpenedNames /\ L \in Nat
        /\ opened' \in [Consumers -> Seq(Names)]
        /\ Len(opened'[c]) = L + 1 /\ opened'[c][L + 1] = n
        /\ DOMAIN opened[c] = 1 .. L /\ DOMAIN opened'[c] = 1 .. L + 1
        /\ \A i \in 1 .. L : opened'[c][i] = opened[c][i] /\ opened[c][i] # n
        /\ \A d \in Consumers : d # c =>
              opened'[d] = opened[d] /\ \A i \in DOMAIN opened[d] : opened[d][i] # n
    BY OpensRecords
  <1>4. /\ output' \in [Consumers -> Names \cup {Absent}] /\ output'[c] = n
        /\ \A d \in Consumers : d # c => output'[d] = output[d]
    BY <1>1, <1>3 DEF Inv, Types, ConsumerTypes
  <1>5. <<>> \in Records /\ <<>> # Absent
    <2>1. <<>> \in Seq(Consumers \X Nat)
      OBVIOUS
    <2>2. QED
      BY <2>1, AbsentAssumption DEF Records
  <1>6. Types'
    <2>1. ClockTypes'
      BY <1>1, NumberAssumption DEF Inv, Types, ClockTypes
    <2>2. FileTypes'
      BY <1>1, <1>5 DEF Inv, Types, FileTypes
    <2>3. ConsumerTypes' /\ RecordTypes'
      BY <1>1, <1>2, <1>3, <1>4 DEF Inv, Types, ConsumerTypes, RecordTypes
    <2>4. QED
      BY <2>1, <2>2, <2>3 DEF Types
  <1>7. InTurn'
    BY <1>2, KeepsTurn DEF Inv
  <1>8. Recorded'
    <2>1. ASSUME NEW m \in Names
          PROVE  m \in OpenedNames' <=> m \in OpenedNames \/ m = n
      <3>1. m \in OpenedNames' <=>
               \E d \in Consumers : \E i \in DOMAIN opened'[d] : opened'[d][i] = m
        BY DEF OpenedNames
      <3>2. (\E i \in DOMAIN opened'[c] : opened'[c][i] = m)
               <=> (\E i \in DOMAIN opened[c] : opened[c][i] = m) \/ m = n
        <4>1. \A i : i \in 1 .. L + 1 <=> i \in 1 .. L \/ i = L + 1
          BY <1>3
        <4>2. QED
          BY <1>3, <4>1
      <3>3. \A d \in Consumers : d # c =>
               ((\E i \in DOMAIN opened'[d] : opened'[d][i] = m)
                  <=> (\E i \in DOMAIN opened[d] : opened[d][i] = m))
        BY <1>3
      <3>4. m \in OpenedNames <=>
               \E d \in Consumers : \E i \in DOMAIN opened[d] : opened[d][i] = m
        BY OpenedName
      <3>5. QED
        BY <3>1, <3>2, <3>3, <3>4
    <2>2. ASSUME NEW m \in Names
          PROVE  files'[m] # Absent <=> files[m] # Absent \/ m = n
      BY <1>1, <1>5 DEF Inv, Types, FileTypes
    <2>3. QED
      BY <2>1, <2>2 DEF Inv, Recorded
  <1>9. OpenedOnce'
    <2>1. ASSUME NEW d \in Consumers, NEW i \in DOMAIN opened'[d]
          PROVE  \/ d = c /\ i = L + 1 /\ opened'[d][i] = n
                 \/ /\ i \in DOMAIN opened[d] /\ opened'[d][i] = opened[d][i]
                    /\ opened[d][i] # n
      BY <1>3, <2>1
    <2>2. ASSUME NEW d \in Consumers, NEW e \in Consumers,
                 NEW i \in DOMAIN opened'[d], NEW j \in DOMAIN opened'[e],
                 opened'[d][i] = opened'[e][j]
          PROVE  d = e /\ i = j
      BY <2>1, <2>2 DEF Inv, OpenedOnce
    <2>3. QED
      BY <2>2 DEF OpenedOnce
  <1>10. Room'
    <2>1. written[c] \in Nat /\ Steps \in Nat /\ written[c] < Steps /\ L <= written[c]
      <3>1. written[c] \in Nat /\ Steps \in Nat
        BY NumberAssumption DEF Inv, Types, RecordTypes
      <3>2. written[c] < Steps /\ L <= written[c] + 0
        BY <1>2 DEF Inv, Room
      <3>3. QED
        BY <1>3, <3>1, <3>2
    <2>2. L + 1 <= Steps /\ L + 1 <= written[c] + 1
      BY <1>3, <2>1
    <2>3. ASSUME NEW d \in Consumers, d # c
          PROVE  opened'[d] = opened[d] /\ consumer'[d] = consumer[d]
      BY <1>2, <1>3, <2>3
    <2>4. QED
      BY <1>1, <1>2, <1>3, <2>1, <2>2, <2>3 DEF Inv, Room
  <1>11. \A d \in Consumers : consumer'[d] \notin {"probing", "opening"}
    BY <1>2, OneAlive DEF Inv
  <1>12. Chosen'
    BY <1>11 DEF Chosen
  <1>13. Current'
    <2>1. n # Absent /\ opened'[c] # <<>>
      <3>1. DOMAIN opened'[c] # {}
        BY <1>3
      <3>2. QED
        BY <1>3, <3>1, AbsentAssumption
    <2>2. QED
      BY <1>2, <1>3, <1>4, <2>1 DEF Inv, Current
  <1>14. StepsKept'
    BY OpensKeepsSteps
  <1>15. QED
    BY <1>6, <1>7, <1>8, <1>9, <1>10, <1>12, <1>13, <1>14 DEF Inv

-------------------------------------------------------------------------------
(* Writing a step.                                                         *)

LEMMA RunGrows ==
    ASSUME NEW c \in Consumers, NEW a \in Nat, NEW w \in Nat, a <= w
    PROVE  Append(Run(c, a, w), <<c, w>>) = Run(c, a, w + 1)
  <1> DEFINE old == [j \in 1 .. w - a |-> <<c, a + j - 1>>]
             new == [j \in 1 .. w + 1 - a |-> <<c, a + j - 1>>]
  <1>1. old \in Seq(Consumers \X Nat) /\ Len(old) = w - a
    <2>1. \A j \in 1 .. w - a : a + j - 1 \in Nat
      OBVIOUS
    <2>2. w - a \in Nat
      OBVIOUS
    <2>3. old \in [1 .. w - a -> Consumers \X Nat]
      BY <2>1
    <2>4. QED
      BY <2>2, <2>3
  <1>2. new \in Seq(Consumers \X Nat) /\ Len(new) = w + 1 - a
    <2>1. \A j \in 1 .. w + 1 - a : a + j - 1 \in Nat
      OBVIOUS
    <2>2. w + 1 - a \in Nat
      OBVIOUS
    <2>3. new \in [1 .. w + 1 - a -> Consumers \X Nat]
      BY <2>1
    <2>4. QED
      BY <2>2, <2>3
  <1> DEFINE grown == Append(old, <<c, w>>)
  <1>3. \A j \in 1 .. w - a : old[j] = new[j]
    OBVIOUS
  <1>4. new[w - a + 1] = <<c, w>>
    OBVIOUS
  <1> HIDE DEF old, new
  <1>5. /\ grown \in Seq(Consumers \X Nat) /\ Len(grown) = w + 1 - a
        /\ \A j \in 1 .. w - a : grown[j] = old[j]
        /\ grown[w - a + 1] = <<c, w>>
    BY <1>1
  <1> HIDE DEF grown
  <1>6. \A j \in 1 .. w + 1 - a : grown[j] = new[j]
    <2>1. \A j \in 1 .. w + 1 - a : j \in 1 .. w - a \/ j = w - a + 1
      OBVIOUS
    <2>2. QED
      BY <1>3, <1>4, <1>5, <2>1
  <1>7. grown = new
    BY <1>2, <1>5, <1>6, SeqEqual
  <1>8. QED
    BY <1>7 DEF grown, old, new, Run

\* What a consumer writes goes to its last file, and no other consumer has that one.
LEMMA WritesToLast ==
    ASSUME Inv, NEW c \in Consumers, Writes(c)
    PROVE  LET n == output[c]
               L == Len(opened[c])
           IN  /\ L \in Nat \ {0} /\ DOMAIN opened[c] = 1 .. L /\ n = opened[c][L]
               /\ n \in Names /\ files[n] \in Records
               /\ files'[n] = Append(files[n], <<c, written[c]>>)
               /\ files' \in [Names -> Records \cup {Absent}] /\ files'[n] # Absent
               /\ \A m : m # n => files'[m] = files[m]
               /\ \A i \in 1 .. L - 1 : opened[c][i] # n
               /\ \A d \in Consumers : d # c =>
                     \A i \in DOMAIN opened[d] : opened[d][i] # n
  <1> DEFINE n == output[c]
             L == Len(opened[c])
  <1>1. consumer[c] = "writing"
    BY DEF Writes, Goes
  <1>2. opened[c] # <<>> /\ n = opened[c][L]
    BY <1>1 DEF Inv, Current
  <1>3. opened[c] \in Seq(Names) /\ written[c] \in Nat
    BY DEF Inv, Types, RecordTypes
  <1>4. L \in Nat \ {0} /\ DOMAIN opened[c] = 1 .. L /\ L \in 1 .. L
    BY <1>2, <1>3
  <1>5. n \in Names /\ n \in OpenedNames
    BY <1>2, <1>3, <1>4, OpenedName
  <1>6. files \in [Names -> Records \cup {Absent}] /\ files[n] \in Records
    BY <1>5 DEF Inv, Recorded, Types, FileTypes
  <1> DEFINE grown == Append(files[n], <<c, written[c]>>)
  <1>7. grown \in Records /\ grown # Absent
    <2>1. <<c, written[c]>> \in Consumers \X Nat
      BY <1>3
    <2>2. grown \in Records
      BY <1>6, <2>1 DEF Records
    <2>3. QED
      BY <2>2, AbsentAssumption DEF Records
  <1>8. files' = [files EXCEPT ![n] = grown]
    BY DEF Writes
  <1> HIDE DEF grown
  <1>9. /\ files'[n] = grown /\ files' \in [Names -> Records \cup {Absent}]
        /\ \A m : m # n => files'[m] = files[m]
    BY <1>5, <1>6, <1>7, <1>8
  <1>10. \A i \in 1 .. L - 1 : opened[c][i] # n
    <2>1. \A i \in 1 .. L - 1 : i \in 1 .. L /\ i # L
      BY <1>4
    <2>2. \A i \in 1 .. L : opened[c][i] = opened[c][L] => i = L
      BY <1>4 DEF Inv, OpenedOnce
    <2>3. QED
      BY <1>2, <2>1, <2>2
  <1>11. \A d \in Consumers : d # c => \A i \in DOMAIN opened[d] : opened[d][i] # n
    BY <1>2, <1>4 DEF Inv, OpenedOnce
  <1>12. QED
    BY <1>2, <1>4, <1>5, <1>6, <1>7, <1>9, <1>10, <1>11 DEF grown

LEMMA WritesKeepsSteps ==
    ASSUME Inv, NEW c \in Consumers, Writes(c)
    PROVE  StepsKept'
  <1> DEFINE n == output[c]
             L == Len(opened[c])
             w == written[c]
  <1>1. /\ L \in Nat \ {0} /\ DOMAIN opened[c] = 1 .. L /\ n = opened[c][L]
        /\ files'[n] = Append(files[n], <<c, w>>)
        /\ \A m : m # n => files'[m] = files[m]
        /\ \A i \in 1 .. L - 1 : opened[c][i] # n
        /\ \A d \in Consumers : d # c => \A i \in DOMAIN opened[d] : opened[d][i] # n
    BY WritesToLast
  <1>2. /\ opened' = opened /\ written'[c] = w + 1 /\ w \in Nat
        /\ \A d \in Consumers : d # c => written'[d] = written[d]
    BY DEF Writes, Inv, Types, RecordTypes
  <1>3. ASSUME NEW d \in Consumers, d # c
        PROVE  Kept(d)'
    <2>1. \A i \in DOMAIN opened[d] : files'[opened[d][i]] = files[opened[d][i]]
      BY <1>1, <1>3
    <2>2. opened'[d] = opened[d] /\ written'[d] = written[d] /\ StepsKept
      BY <1>2, <1>3 DEF Inv
    <2>3. QED
      BY <2>1, <2>2, OthersKept
  <1>4. Kept(c)'
    <2>1. PICK first \in [1 .. L + 1 -> 0 .. w] :
             first[1] = 0 /\ first[L + 1] = w /\ Holds(c, opened[c], first)
      BY EachKept DEF Inv, Kept
    <2>2. PICK next \in [1 .. L + 1 -> 0 .. w + 1] :
             (\A i \in 1 .. L : next[i] = first[i]) /\ next[L + 1] = w + 1
      <3>1. [i \in 1 .. L + 1 |-> IF i = L + 1 THEN w + 1 ELSE first[i]]
               \in [1 .. L + 1 -> 0 .. w + 1]
        <4>1. ASSUME NEW i \in 1 .. L + 1
              PROVE  (IF i = L + 1 THEN w + 1 ELSE first[i]) \in 0 .. w + 1
          <5>1. first[i] \in 0 .. w
            BY <2>1
          <5>2. first[i] \in 0 .. w + 1 /\ w + 1 \in 0 .. w + 1
            BY <1>2, <5>1
          <5>3. QED
            BY <5>2
        <4>2. QED
          BY <4>1
      <3>2. L + 1 \in 1 .. L + 1 /\ \A i \in 1 .. L : i \in 1 .. L + 1 /\ i # L + 1
        BY <1>1
      <3>3. QED
        BY <3>1, <3>2
    <2>3. next[1] = 0 /\ next[L + 1] = w + 1
      BY <1>1, <2>1, <2>2
    <2>4. ASSUME NEW i \in 1 .. L
          PROVE  /\ next[i] <= next[i + 1]
                 /\ files'[opened[c][i]] =
                       Run(c, next[i], next[i + 1])
      <3>1. /\ first[i] <= first[i + 1]
            /\ files[opened[c][i]] =
                  Run(c, first[i], first[i + 1])
        BY <1>1, <2>1 DEF Holds
      <3>2. CASE i \in 1 .. L - 1
        <4>1. next[i] = first[i] /\ next[i + 1] = first[i + 1]
          BY <1>1, <2>2, <3>2
        <4>2. files'[opened[c][i]] = files[opened[c][i]]
          BY <1>1, <3>2
        <4>3. QED
          BY <3>1, <4>1, <4>2
      <3>3. CASE i = L
        <4>1. next[i] = first[i] /\ next[i + 1] = w + 1 /\ first[i + 1] = w
          BY <2>1, <2>2, <2>4, <3>3
        <4>2. first[i] \in Nat /\ first[i] <= w
          <5>1. i \in 1 .. L + 1
            BY <1>1, <2>4
          <5>2. first[i] \in 0 .. w
            BY <2>1, <5>1
          <5>3. QED
            BY <1>2, <5>2
        <4>3. PICK a \in Nat : a = first[i]
          BY <4>2
        <4> HIDE DEF w
        <4>4. files[n] = Run(c, a, w)
          BY <1>1, <3>1, <3>3, <4>1, <4>3
        <4>5. Append(Run(c, a, w), <<c, w>>)
                 = Run(c, a, w + 1)
          BY <1>2, <4>2, <4>3, RunGrows
        <4>6. files'[opened[c][i]] = Run(c, a, w + 1)
          BY <1>1, <3>3, <4>4, <4>5
        <4>7. next[i] = a /\ next[i + 1] = w + 1 /\ a <= w + 1
          BY <1>2, <4>1, <4>2, <4>3
        <4>8. QED
          BY <4>6, <4>7
      <3>4. QED
        BY <1>1, <2>4, <3>2, <3>3
    <2>5. /\ next \in [1 .. Len(opened'[c]) + 1 -> 0 .. written'[c]]
          /\ next[1] = 0 /\ next[Len(opened'[c]) + 1] = written'[c]
      BY <1>2, <2>2, <2>3
    <2>6. \A i \in DOMAIN opened'[c] :
             /\ next[i] <= next[i + 1]
             /\ files'[opened'[c][i]] =
                   Run(c, next[i], next[i + 1])
      BY <1>1, <1>2, <2>4
    <2>7. QED
      BY <2>5, <2>6 DEF Kept, Holds
  <1>5. (\A d \in Consumers : Kept(d))'
    BY <1>3, <1>4
  <1>6. QED
    BY <1>5 DEF StepsKept, Kept

LEMMA WritesKeeps == ASSUME Inv, NEW c \in Consumers, Writes(c) PROVE Inv'
  <1> DEFINE n == output[c]
  <1>1. UNCHANGED <<clock, output, next_rotation, candidate, now, opened>>
        /\ Goes(c, "writing", "idle") /\ written' = [written EXCEPT ![c] = written[c] + 1]
    BY DEF Writes, localVars
  <1>2. /\ consumer[c] = "writing" /\ consumer' \in [Consumers -> States]
        /\ consumer'[c] = "idle"
        /\ \A d \in Consumers : d # c => consumer'[d] = consumer[d]
    BY <1>1, Going DEF Inv, States
  <1>3. /\ written' \in [Consumers -> Nat] /\ written'[c] = written[c] + 1
        /\ written[c] \in Nat
        /\ \A d \in Consumers : d # c => written'[d] = written[d]
    BY <1>1 DEF Inv, Types, RecordTypes
  <1>4. /\ n \in Names /\ files[n] # Absent /\ files'[n] # Absent
        /\ files' \in [Names -> Records \cup {Absent}]
        /\ \A m : m # n => files'[m] = files[m]
    <2>1. \A r \in Records : r # Absent
      BY AbsentAssumption DEF Records
    <2>2. QED
      BY <2>1, WritesToLast
  <1>5. Types'
    BY <1>1, <1>2, <1>3, <1>4
       DEF Inv, Types, ClockTypes, FileTypes, ConsumerTypes, RecordTypes
  <1>6. InTurn'
    BY <1>2, KeepsTurn DEF Inv
  <1>7. Recorded'
    BY <1>1, <1>4, SameNames DEF Inv, Recorded
  <1>8. OpenedOnce'
    BY <1>1 DEF Inv, OpenedOnce
  <1>9. Room'
    <2>1. Len(opened[c]) <= written[c] + 1
      BY <1>2, <1>3 DEF Inv, Room
    <2>2. written[c] + 1 + 0 = written[c] + 1
      BY <1>3
    <2>3. QED
      BY <1>1, <1>2, <1>3, <2>1, <2>2 DEF Inv, Room
  <1>10. \A d \in Consumers : consumer'[d] \notin {"probing", "opening"}
    BY <1>2, OneAlive DEF Inv
  <1>11. Chosen'
    BY <1>10 DEF Chosen
  <1>12. Current'
    BY <1>1, <1>2 DEF Inv, Current
  <1>13. StepsKept'
    BY WritesKeepsSteps
  <1>14. QED
    BY <1>5, <1>6, <1>7, <1>8, <1>9, <1>11, <1>12, <1>13 DEF Inv

-------------------------------------------------------------------------------

LEMMA InitEstablishes == Init => Inv
  <1> SUFFICES ASSUME Init PROVE Inv
    OBVIOUS
  <1>1. Types
    <2>1. ClockTypes /\ FileTypes
      BY DEF Init, ClockTypes, FileTypes
    <2>2. ConsumerTypes
      BY DEF Init, ConsumerTypes, States
    <2>3. RecordTypes
      BY DEF Init, RecordTypes
    <2>4. QED
      BY <2>1, <2>2, <2>3 DEF Types
  <1>2. \A c \in Consumers : /\ consumer[c] = "none" /\ output[c] = Absent
                            /\ opened[c] = <<>> /\ written[c] = 0
    BY DEF Init
  <1>3. Recorded /\ OpenedOnce
    <2>1. \A n : n \notin OpenedNames
      BY <1>2, OpenedName
    <2>2. QED
      BY <1>2, <2>1 DEF Init, Recorded, OpenedOnce
  <1>4. InTurn /\ Chosen /\ Current
    BY <1>2 DEF InTurn, Chosen, Current
  <1>5. Room
    BY <1>2, NumberAssumption DEF Room
  <1>6. ASSUME NEW c \in Consumers
        PROVE  Kept(c)
    <2>1. opened[c] = <<>> /\ Len(opened[c]) = 0 /\ written[c] = 0
      BY <1>2
    <2>2. [i \in 1 .. 1 |-> 0] \in [1 .. Len(opened[c]) + 1 -> 0 .. written[c]]
      BY <2>1
    <2>3. \A first : Holds(c, opened[c], first)
      BY <2>1 DEF Holds
    <2>4. [i \in 1 .. 1 |-> 0][1] = 0 /\ Len(opened[c]) + 1 = 1
      BY <2>1
    <2>5. QED
      BY <2>1, <2>2, <2>3, <2>4 DEF Kept
  <1>7. QED
    BY <1>1, <1>3, <1>4, <1>5, <1>6, EachKept DEF Inv

LEMMA NextKeeps == ~Overlap => (Inv /\ [Next]_vars => Inv')
  <1> SUFFICES ASSUME ~Overlap, Inv, [Next]_vars PROVE Inv'
    OBVIOUS
  <1>1. CASE Tick
    BY <1>1, TickKeeps
  <1>2. ASSUME NEW c \in Consumers, Starts(c) \/ ConsumerStep(c) \/ Ends(c)
        PROVE  Inv'
    BY <1>2, StartsKeeps, WriteBeginsKeeps, TakesTimestampKeeps, ProbesTakenKeeps,
       ProbesFreeKeeps, OpensKeeps, WritesKeeps, EndsKeeps DEF ConsumerStep
  <1>3. CASE UNCHANGED vars
    <2>1. UNCHANGED <<clock, files, consumer, output, next_rotation, candidate, now, written,
                      opened>>
      BY <1>3 DEF vars, localVars, recordVars
    <2>2. ClockTypes' /\ ConsumerTypes'
      BY <2>1 DEF Inv, Types, ClockTypes, ConsumerTypes
    <2>3. InTurn' /\ Room' /\ Chosen' /\ Current'
      BY <2>1, SameNames DEF Inv, InTurn, Room, Chosen, Current
    <2>4. QED
      BY <2>1, <2>2, <2>3, QuietKeeps
  <1>4. QED
    BY <1>1, <1>2, <1>3 DEF Next, Done

-------------------------------------------------------------------------------

\* While a launcher does not let the consumers overlap, they write in turn, and each to
\* files that nobody opened before.
THEOREM Invariance == ASSUME ~Overlap PROVE Spec => []Inv
  <1>1. Inv /\ [Next]_vars => Inv'
    BY NextKeeps
  <1>2. QED
    BY <1>1, InitEstablishes, PTL DEF Spec

\* Every variable has its type: names tried are never more than there are.
THEOREM TypeCorrect == ASSUME ~Overlap PROVE Spec => []Types
  <1>1. Inv => Types
    BY DEF Inv
  <1>2. QED
    BY <1>1, Invariance, PTL

\* RotatingConsumerOutput never truncates nor appends to an output that holds steps: the
\* files of each consumer hold all its steps, in the order it wrote them, whatever the
\* wall clock shows and wherever a consumer ends.
THEOREM StepsAreKept == ASSUME ~Overlap PROVE Spec => []StepsKept
  <1>1. Inv => StepsKept
    BY DEF Inv
  <1>2. QED
    BY <1>1, Invariance, PTL

-------------------------------------------------------------------------------
(* The inductive invariant of Analysis, in parts.                          *)

DropRecords == [event : {"io.buffer_drop"}]
WriteRecords == [event : {"io.write"}, status : {"ok", "error"}, step : Nat, called_at : Nat]
StoreRecords == [status : {"ok", "error"}, step : Nat, completed_at : Nat, snapshot : Nat]

RunTypes ==
    /\ time \in Nat /\ produced \in Nat /\ logging \in BOOLEAN /\ dropping \in Nat
    /\ called_at \in Seq(Nat)
    /\ queue \in Seq(Nat) /\ flight \in Nat \cup {None}
    /\ awaiting \in BOOLEAN /\ failed \in BOOLEAN
    /\ step \in Nat /\ stored \subseteq Nat

LogTypes ==
    /\ producer_log \in Seq(DropRecords \cup WriteRecords)
    /\ consumer_log \in Seq(StoreRecords)

AnalyzerTypes ==
    /\ analyzer \in {"starting", "reading", "done"} /\ settled \in BOOLEAN
    /\ producer_records \in Seq(DropRecords \cup WriteRecords)
    /\ consumer_records \in Seq(StoreRecords)
    /\ peak \in Nat

AnalysisTypes == RunTypes /\ LogTypes /\ AnalyzerTypes

Enqueued == Len(called_at)

\* No snapshot was evicted.
NoDrops ==
    /\ dropping = 0
    /\ \A i \in DOMAIN producer_log : producer_log[i].event = "io.write"

\* The calls of write_data and their times.
Calls ==
    /\ Enqueued <= produced
    /\ ~failed \/ logging => produced = Enqueued
    /\ logging => Enqueued > 0
    /\ \A i \in 1 .. Enqueued : called_at[i] < time
    /\ \A i, j \in 1 .. Enqueued : i < j => called_at[i] < called_at[j]

\* An accepted snapshot is still to be logged.
Unlogged == IF logging THEN 1 ELSE 0

\* Without an eviction the producer's log holds the accepted snapshots in order, and
\* behind them at most one that was refused.
WritesLogged ==
    NoDrops =>
       /\ \A i \in DOMAIN producer_log :
             producer_log[i].status = "ok" =>
                i <= Enqueued /\ producer_log[i].step = i - 1
                  /\ producer_log[i].called_at = called_at[i]
       /\ (~failed \/ logging) =>
             \A i \in DOMAIN producer_log : producer_log[i].status = "ok"
       /\ (\A i \in DOMAIN producer_log : producer_log[i].status = "ok") =>
             Len(producer_log) + Unlogged = Enqueued

\* An output that failed has nothing left; what is acknowledged is stored.
OutputState ==
    /\ failed => queue = <<>> /\ flight = None
    /\ awaiting => flight # None /\ flight \in stored

\* Without an eviction the queue holds the latest snapshots, the one on its way is in
\* front of them, and those before are stored.
Lined ==
    NoDrops /\ ~failed =>
       /\ Len(queue) <= Enqueued
       /\ \A i \in 1 .. Len(queue) : queue[i] = Enqueued - Len(queue) + i - 1
       /\ flight # None => flight = Enqueued - Len(queue) - 1
       /\ stored = 0 .. Enqueued - Outstanding - 1

\* The consumers' log: its snapshots are stored, and every consumer counts from 0.
StoresLogged ==
    /\ \A i \in DOMAIN consumer_log :
          /\ consumer_log[i].completed_at < time
          /\ consumer_log[i].status = "ok" => consumer_log[i].snapshot \in stored
    /\ IF consumer_log = <<>> THEN step = 0 ELSE consumer_log[1].step = 0

\* The first n writes succeeded and are those of one consumer.
OneConsumer(n) ==
    \A i \in 1 .. n : consumer_log[i].status = "ok" /\ (i > 1 => consumer_log[i].step # 0)

\* The numbers of one consumer are those of the snapshots, if none was evicted.
Numbered ==
    NoDrops =>
       \A i \in DOMAIN consumer_log :
          OneConsumer(i) => consumer_log[i].step = i - 1 /\ consumer_log[i].snapshot = i - 1

\* The snapshot on its way is still to be stored.
ToStore == IF flight = None \/ awaiting THEN 0 ELSE 1

\* As long as the same consumer goes on it has written what left the queue.
Counting ==
    NoDrops /\ ~failed /\ OneConsumer(Len(consumer_log))
      /\ (step # 0 \/ consumer_log = <<>>) =>
         /\ step = Len(consumer_log)
         /\ Len(queue) + step + ToStore = Enqueued

\* The analyzer's copies.
Copied ==
    /\ Len(consumer_records) <= Len(consumer_log)
    /\ \A i \in DOMAIN consumer_records : consumer_records[i] = consumer_log[i]
    /\ settled => ~logging /\ dropping = 0 /\ producer_records = producer_log
                    /\ analyzer = "done"

\* The peak was reached at the p-th call, when all but k of the snapshots were outstanding.
PeakSeen ==
    NoDrops /\ peak > 0 =>
       \E p \in 1 .. Enqueued, k \in 0 .. Enqueued :
          /\ peak <= p - k
          /\ \A i \in DOMAIN consumer_log :
                OneConsumer(i) /\ consumer_log[i].completed_at <= called_at[p] => i <= k

AnalysisInv ==
    /\ AnalysisTypes /\ Calls /\ WritesLogged /\ OutputState /\ Lined /\ StoresLogged
    /\ Numbered /\ Counting /\ Copied /\ PeakSeen

-------------------------------------------------------------------------------
(* Types.                                                                  *)

LEMMA LogGrows ==
    ASSUME NEW S, NEW log \in Seq(S), NEW record \in S, NEW longer, longer = Append(log, record)
    PROVE  /\ longer \in Seq(S) /\ Len(longer) = Len(log) + 1 /\ longer # <<>>
           /\ DOMAIN log = 1 .. Len(log) /\ DOMAIN longer = 1 .. Len(log) + 1
           /\ \A i \in 1 .. Len(log) : longer[i] = log[i]
           /\ longer[Len(log) + 1] = record
  BY AppendProperties, LenProperties

LEMMA LogDomain ==
    ASSUME NEW S, NEW log \in Seq(S)
    PROVE  DOMAIN log = 1 .. Len(log) /\ Len(log) \in Nat /\ (log = <<>> <=> Len(log) = 0)
  BY LenProperties, EmptySeq

\* What a log is read to is a beginning of it.
LEMMA ReadIsPrefix ==
    ASSUME NEW S, NEW log \in Seq(S), NEW records \in ReadJsonLines(log)
    PROVE  /\ records \in Seq(S) /\ Len(records) <= Len(log)
           /\ \A i \in DOMAIN records : records[i] = log[i]
  <1>1. CASE records = log
    BY <1>1
  <1>2. CASE records = SubSeq(log, 1, Len(log) - 1)
    <2>1. CASE log = <<>>
      <3>1. records = <<>>
        BY <1>2, <2>1, LenProperties, SubSeqProperties, EmptySeq
      <3>2. QED
        BY <3>1, <2>1
    <2>2. CASE log # <<>>
      BY <1>2, <2>2, LenProperties, EmptySeq, SubSeqProperties
    <2>3. QED
      BY <2>1, <2>2
  <1>3. QED
    BY <1>1, <1>2 DEF ReadJsonLines

LEMMA RemoveAtType ==
    ASSUME NEW S, NEW s \in Seq(S), NEW i \in 1 .. Len(s)
    PROVE  RemoveAt(s, i) \in Seq(S)
  <1>1. SubSeq(s, 1, i - 1) \in Seq(S)
    BY LenProperties, SubSeqProperties
  <1>2. SubSeq(s, i + 1, Len(s)) \in Seq(S)
    BY LenProperties, SubSeqProperties
  <1>3. QED
    BY <1>1, <1>2, ConcatProperties DEF RemoveAt

LEMMA RecordType ==
    ASSUME RunTypes, LogTypes, flight # None, NEW status \in {"ok", "error"}, Record(status)
    PROVE  consumer_log' \in Seq(StoreRecords)
  <1>1. [status |-> status, step |-> step, completed_at |-> time, snapshot |-> flight]
           \in StoreRecords
    BY DEF RunTypes, StoreRecords
  <1>2. QED
    BY <1>1, LogGrows DEF Record, LogTypes

\* What LogWrite writes.
LEMMA LogWriteType ==
    ASSUME AnalysisTypes, Calls, LogWrite
    PROVE  /\ produced = Enqueued /\ Enqueued \in Nat \ {0} /\ called_at[produced] \in Nat
           /\ [event |-> "io.write", status |-> "ok", step |-> produced - 1,
               called_at |-> called_at[produced]] \in WriteRecords
  <1>1. produced = Enqueued /\ Enqueued \in Nat \ {0}
    BY LogDomain DEF LogWrite, Calls, Enqueued, AnalysisTypes, RunTypes
  <1>2. called_at[produced] \in Nat /\ produced - 1 \in Nat
    BY <1>1 DEF Enqueued, AnalysisTypes, RunTypes
  <1>3. QED
    BY <1>1, <1>2 DEF WriteRecords

LEMMA AnalysisTypesStep ==
    ASSUME AnalysisTypes, Calls, AnalysisNext
    PROVE  AnalysisTypes'
  <1> USE AnalysisAssumption
  <1>1. CASE Enqueue
    <2>1. queue' \in Seq(Nat) /\ dropping' \in Nat
      <3>1. CASE Len(queue) < Capacity
        <4>1. queue' = Append(queue, produced) /\ dropping' = dropping
          BY <1>1, <3>1 DEF Enqueue
        <4>2. QED
          BY <4>1 DEF AnalysisTypes, RunTypes
      <3>2. CASE ~(Len(queue) < Capacity)
        <4>1. PICK i \in 1 .. Len(queue) : queue' = Append(RemoveAt(queue, i), produced)
          BY <1>1, <3>2 DEF Enqueue
        <4>2. RemoveAt(queue, i) \in Seq(Nat)
          BY RemoveAtType DEF AnalysisTypes, RunTypes
        <4>3. dropping' = dropping + 1
          BY <1>1, <3>2 DEF Enqueue
        <4>4. QED
          BY <4>1, <4>2, <4>3 DEF AnalysisTypes, RunTypes
      <3>3. QED
        BY <3>1, <3>2
    <2>2. called_at' \in Seq(Nat) /\ time' \in Nat /\ produced' \in Nat /\ logging' = TRUE
      BY <1>1 DEF Enqueue, AnalysisTypes, RunTypes
    <2>3. Outstanding' \in Nat
      BY <2>1 DEF Outstanding
    <2>4. peak' \in Nat
      BY <1>1, <2>3 DEF Enqueue, AnalysisTypes, AnalyzerTypes, Larger
    <2>5. QED
      BY <1>1, <2>1, <2>2, <2>4
         DEF Enqueue, AnalysisTypes, RunTypes, LogTypes, AnalyzerTypes, consumerVars, analyzerVars
  <1>2. CASE LogDrop
    <2>1. [event |-> "io.buffer_drop"] \in DropRecords
      BY DEF DropRecords
    <2>2. producer_log' \in Seq(DropRecords \cup WriteRecords)
      BY <1>2, <2>1, LogGrows DEF LogDrop, AnalysisTypes, LogTypes
    <2>3. QED
      BY <1>2, <2>2
         DEF LogDrop, AnalysisTypes, RunTypes, LogTypes, AnalyzerTypes, workerVars, consumerVars,
             analyzerVars
  <1>3. CASE LogWrite
    <2>1. PICK record \in DropRecords \cup WriteRecords :
             producer_log' = Append(producer_log, record)
      BY <1>3, LogWriteType DEF LogWrite
    <2>2. producer_log' \in Seq(DropRecords \cup WriteRecords)
      BY <2>1, LogGrows DEF AnalysisTypes, LogTypes
    <2>3. QED
      BY <1>3, <2>2
         DEF LogWrite, AnalysisTypes, RunTypes, LogTypes, AnalyzerTypes, workerVars, consumerVars,
             analyzerVars
  <1>4. CASE WriteRefused
    <2>1. [event |-> "io.write", status |-> "error", step |-> produced, called_at |-> time]
             \in WriteRecords
      BY DEF WriteRecords, AnalysisTypes, RunTypes
    <2>2. producer_log' \in Seq(DropRecords \cup WriteRecords)
      BY <1>4, <2>1, LogGrows DEF WriteRefused, AnalysisTypes, LogTypes
    <2>3. QED
      BY <1>4, <2>2
         DEF WriteRefused, AnalysisTypes, RunTypes, LogTypes, AnalyzerTypes, workerVars,
             consumerVars, analyzerVars
  <1>5. CASE OutputFails \/ Acknowledged \/ Lost
    <2>1. /\ queue' \in Seq(Nat) /\ flight' \in Nat \cup {None} /\ awaiting' \in BOOLEAN
          /\ failed' \in BOOLEAN /\ step' \in Nat
      <3>1. CASE OutputFails
        <4>1. /\ queue' = <<>> /\ flight' = None /\ awaiting' = FALSE /\ failed' = TRUE
              /\ step' = step
          BY <3>1 DEF OutputFails, consumerVars
        <4>2. QED
          BY <4>1, EmptySeq DEF AnalysisTypes, RunTypes
      <3>2. CASE Acknowledged
        BY <3>2 DEF Acknowledged, AnalysisTypes, RunTypes, consumerVars
      <3>3. CASE Lost
        BY <3>3 DEF Lost, AnalysisTypes, RunTypes
      <3>4. QED
        BY <1>5, <3>1, <3>2, <3>3
    <2>2. UNCHANGED <<time, produced, logging, dropping, called_at, stored, producer_log,
                      consumer_log, analyzerVars, peak>>
      BY <1>5 DEF OutputFails, Acknowledged, Lost, simulationVars, consumerVars
    <2>3. QED
      BY <2>1, <2>2 DEF AnalysisTypes, RunTypes, LogTypes, AnalyzerTypes, analyzerVars
  <1>6. CASE Pop
    <2>1. Head(queue) \in Nat /\ Tail(queue) \in Seq(Nat)
      BY <1>6, HeadTailProperties DEF Pop, AnalysisTypes, RunTypes
    <2>2. QED
      BY <1>6, <2>1
         DEF Pop, AnalysisTypes, RunTypes, LogTypes, AnalyzerTypes, simulationVars, consumerVars,
             analyzerVars
  <1>7. CASE Store
    <2>1. consumer_log' \in Seq(StoreRecords)
      BY <1>7, RecordType DEF Store, AnalysisTypes
    <2>2. step' \in Nat /\ time' \in Nat /\ stored' \subseteq Nat
      BY <1>7 DEF Store, AnalysisTypes, RunTypes
    <2>3. QED
      BY <1>7, <2>1, <2>2
         DEF Store, AnalysisTypes, RunTypes, LogTypes, AnalyzerTypes, simulationVars, analyzerVars
  <1>8. CASE StoreFails
    <2>1. consumer_log' \in Seq(StoreRecords)
      BY <1>8, RecordType DEF StoreFails, AnalysisTypes
    <2>2. QED
      BY <1>8, <2>1
         DEF StoreFails, AnalysisTypes, RunTypes, LogTypes, AnalyzerTypes, simulationVars,
             workerVars, analyzerVars
  <1>9. CASE ReadConsumerLog
    <2>1. consumer_records' \in Seq(StoreRecords)
      BY <1>9, ReadIsPrefix DEF ReadConsumerLog, AnalysisTypes, LogTypes
    <2>2. QED
      BY <1>9, <2>1
         DEF ReadConsumerLog, AnalysisTypes, RunTypes, LogTypes, AnalyzerTypes, simulationVars,
             workerVars, consumerVars
  <1>10. CASE ReadProducerLog
    <2>1. producer_records' \in Seq(DropRecords \cup WriteRecords)
      BY <1>10, ReadIsPrefix DEF ReadProducerLog, AnalysisTypes, LogTypes
    <2>2. QED
      BY <1>10, <2>1
         DEF ReadProducerLog, AnalysisTypes, RunTypes, LogTypes, AnalyzerTypes, simulationVars,
             workerVars, consumerVars
  <1>11. CASE AnalysisDone
    BY <1>11
       DEF AnalysisDone, analysisVars, AnalysisTypes, RunTypes, LogTypes, AnalyzerTypes,
           simulationVars, workerVars, consumerVars, analyzerVars
  <1>12. QED
    BY <1>1, <1>2, <1>3, <1>4, <1>5, <1>6, <1>7, <1>8, <1>9, <1>10, <1>11 DEF AnalysisNext

-------------------------------------------------------------------------------
(* The calls and the producer's log.                                       *)

\* A snapshot that was evicted stays so: the log of the producer only grows.
LEMMA DropsStay ==
    ASSUME AnalysisTypes, Calls, AnalysisNext, NoDrops'
    PROVE  /\ NoDrops /\ ~LogDrop
           /\ \A i \in DOMAIN producer_log : producer_log'[i] = producer_log[i]
           /\ DOMAIN producer_log \subseteq DOMAIN producer_log'
  <1>1. CASE UNCHANGED producer_log
    <2>1. ~LogDrop
      <3> SUFFICES ASSUME LogDrop PROVE FALSE
        OBVIOUS
      <3>1. [event |-> "io.buffer_drop"] \in DropRecords \cup WriteRecords
        BY DEF DropRecords
      <3>2. Len(producer_log') = Len(producer_log) + 1
        BY <3>1, LogGrows DEF LogDrop, AnalysisTypes, LogTypes
      <3>3. QED
        BY <1>1, <3>2 DEF AnalysisTypes, LogTypes
    <2>2. dropping = 0
      <3>1. dropping' = 0 /\ dropping \in Nat
        BY DEF NoDrops, AnalysisTypes, RunTypes
      <3>2. CASE Enqueue
        BY <3>1, <3>2 DEF Enqueue
      <3>3. CASE ~Enqueue
        BY <2>1, <3>1, <3>3
           DEF AnalysisNext, LogWrite, WriteRefused, OutputFails, Pop, Store, Acknowledged, Lost,
               StoreFails, ReadConsumerLog, ReadProducerLog, AnalysisDone, analysisVars,
               simulationVars
      <3>4. QED
        BY <3>2, <3>3
    <2>3. QED
      BY <1>1, <2>1, <2>2 DEF NoDrops
  <1>2. ASSUME NEW record \in DropRecords \cup WriteRecords,
               producer_log' = Append(producer_log, record)
        PROVE  /\ DOMAIN producer_log \subseteq DOMAIN producer_log'
               /\ \A i \in DOMAIN producer_log : producer_log'[i] = producer_log[i]
               /\ Len(producer_log) + 1 \in DOMAIN producer_log'
               /\ producer_log'[Len(producer_log) + 1] = record
    BY <1>2, LogGrows DEF AnalysisTypes, LogTypes
  <1>3. CASE LogDrop
    <2>1. [event |-> "io.buffer_drop"] \in DropRecords \cup WriteRecords
      BY DEF DropRecords
    <2>2. producer_log'[Len(producer_log) + 1].event = "io.buffer_drop"
          /\ Len(producer_log) + 1 \in DOMAIN producer_log'
      BY <1>2, <1>3, <2>1 DEF LogDrop
    <2>3. QED
      BY <2>2 DEF NoDrops
  <1>4. CASE LogWrite \/ WriteRefused
    <2>1. PICK record \in WriteRecords : producer_log' = Append(producer_log, record)
      <3>1. CASE LogWrite
        BY <3>1, LogWriteType DEF LogWrite
      <3>2. CASE WriteRefused
        BY <3>2 DEF WriteRefused, WriteRecords, AnalysisTypes, RunTypes
      <3>3. QED
        BY <1>4, <3>1, <3>2
    <2>2. UNCHANGED dropping
      BY <1>4 DEF LogWrite, WriteRefused
    <2>3. /\ DOMAIN producer_log \subseteq DOMAIN producer_log'
          /\ \A i \in DOMAIN producer_log : producer_log'[i] = producer_log[i]
      BY <1>2, <2>1
    <2>4. dropping = 0 /\ ~LogDrop
      BY <2>2 DEF NoDrops, LogDrop
    <2>5. \A i \in DOMAIN producer_log : producer_log[i].event = "io.write"
      <3>1. \A i \in DOMAIN producer_log' : producer_log'[i].event = "io.write"
        BY DEF NoDrops
      <3>2. QED
        BY <2>3, <3>1
    <2>6. QED
      BY <2>3, <2>4, <2>5 DEF NoDrops
  <1>5. QED
    BY <1>1, <1>3, <1>4
       DEF AnalysisNext, Enqueue, OutputFails, Pop, Store, Acknowledged, Lost,
           StoreFails, ReadConsumerLog, ReadProducerLog, AnalysisDone, analysisVars,
           consumerVars

\* Of a step that queues no snapshot and refuses none.
LEMMA CallsQuiet ==
    ASSUME AnalysisTypes, Calls, UNCHANGED <<produced, called_at>>, time' \in {time, time + 1},
           logging' => logging, failed => failed'
    PROVE  Calls'
  <1>1. time \in Nat /\ time' >= time /\ called_at \in Seq(Nat)
    BY DEF AnalysisTypes, RunTypes
  <1>2. Enqueued' = Enqueued
    BY DEF Enqueued
  <1>3. \A i \in 1 .. Enqueued : called_at[i] \in Nat /\ called_at[i] < time
    BY <1>1 DEF Calls, Enqueued
  <1>4. \A i \in 1 .. Enqueued' : called_at'[i] < time'
    BY <1>1, <1>2, <1>3
  <1>5. /\ Enqueued <= produced /\ (~failed \/ logging => produced = Enqueued)
        /\ (logging => Enqueued > 0)
        /\ \A i, j \in 1 .. Enqueued : i < j => called_at[i] < called_at[j]
    BY DEF Calls
  <1>6. /\ Enqueued' <= produced' /\ (~failed' \/ logging' => produced' = Enqueued')
        /\ (logging' => Enqueued' > 0)
    BY <1>2, <1>5
  <1>7. \A i, j \in 1 .. Enqueued' : i < j => called_at'[i] < called_at'[j]
    BY <1>2, <1>5
  <1>8. QED
    BY <1>4, <1>6, <1>7 DEF Calls

LEMMA CallsStep ==
    ASSUME AnalysisTypes, Calls, AnalysisNext
    PROVE  Calls'
  <1>1. CASE Enqueue
    <2>1. /\ called_at \in Seq(Nat) /\ time \in Nat /\ produced \in Nat
          /\ called_at' = Append(called_at, time) /\ time' = time + 1
          /\ produced' = produced + 1 /\ produced = Enqueued
      BY <1>1 DEF Enqueue, AnalysisTypes, RunTypes, Calls
    <2>2. /\ Enqueued' = Enqueued + 1 /\ Enqueued \in Nat
          /\ \A i \in 1 .. Enqueued : called_at'[i] = called_at[i]
          /\ called_at'[Enqueued + 1] = time
      BY <2>1, LogGrows, LogDomain DEF Enqueued
    <2>3. \A i \in 1 .. Enqueued : called_at[i] \in Nat /\ called_at[i] < time
      BY <2>1 DEF Calls, Enqueued
    <2>4. \A i \in 1 .. Enqueued' : called_at'[i] < time'
      BY <2>1, <2>2, <2>3
    <2>5. \A i, j \in 1 .. Enqueued' : i < j => called_at'[i] < called_at'[j]
      <3> SUFFICES ASSUME NEW i \in 1 .. Enqueued', NEW j \in 1 .. Enqueued', i < j
                   PROVE  called_at'[i] < called_at'[j]
        OBVIOUS
      <3>1. CASE j = Enqueued + 1
        BY <2>2, <2>3, <3>1
      <3>2. CASE j # Enqueued + 1
        BY <2>2, <3>2 DEF Calls
      <3>3. QED
        BY <3>1, <3>2
    <2>6. QED
      BY <2>1, <2>2, <2>4, <2>5 DEF Calls
  <1>2. CASE WriteRefused
    <2>1. /\ UNCHANGED <<called_at, failed, logging>> /\ time' = time + 1 /\ failed /\ ~logging
          /\ produced' = TotalSteps /\ produced < TotalSteps
      BY <1>2 DEF WriteRefused, workerVars
    <2>2. time \in Nat /\ produced \in Nat /\ called_at \in Seq(Nat)
      BY DEF AnalysisTypes, RunTypes
    <2>3. \A i \in 1 .. Enqueued : called_at[i] \in Nat /\ called_at[i] < time
      BY <2>2 DEF Calls, Enqueued
    <2>4. Enqueued' = Enqueued /\ Enqueued \in Nat
      BY <2>1, <2>2, LogDomain DEF Enqueued
    <2>5. \A i \in 1 .. Enqueued' : called_at'[i] < time'
      BY <2>1, <2>2, <2>3, <2>4
    <2>6. Enqueued' <= produced'
      BY <2>1, <2>2, <2>4, AnalysisAssumption DEF Calls
    <2>7. QED
      BY <2>1, <2>4, <2>5, <2>6 DEF Calls
  <1>3. CASE LogDrop \/ LogWrite
    BY <1>3, CallsQuiet DEF LogDrop, LogWrite, workerVars
  <1>4. CASE OutputFails \/ Pop \/ Acknowledged \/ Lost
    BY <1>4, CallsQuiet DEF OutputFails, Pop, Acknowledged, Lost, simulationVars
  <1>5. CASE Store \/ StoreFails
    BY <1>5, CallsQuiet DEF Store, StoreFails, simulationVars, workerVars
  <1>6. CASE ReadConsumerLog \/ ReadProducerLog \/ AnalysisDone
    BY <1>6, CallsQuiet
       DEF ReadConsumerLog, ReadProducerLog, AnalysisDone, analysisVars, simulationVars,
           workerVars
  <1>7. QED
    BY <1>1, <1>2, <1>3, <1>4, <1>5, <1>6 DEF AnalysisNext

LEMMA WritesLoggedStep ==
    ASSUME AnalysisTypes, Calls, WritesLogged, AnalysisNext
    PROVE  WritesLogged'
  <1> SUFFICES ASSUME NoDrops' PROVE WritesLogged'
    BY DEF WritesLogged
  <1>1. NoDrops /\ ~LogDrop
    BY DropsStay
  <1>2. /\ DOMAIN producer_log = 1 .. Len(producer_log) /\ Len(producer_log) \in Nat
        /\ called_at \in Seq(Nat) /\ Enqueued \in Nat
    BY LogDomain DEF AnalysisTypes, RunTypes, LogTypes, Enqueued
  <1>12. Len(producer_log) \in Nat /\ Enqueued \in Nat
    BY <1>2
  <1>3. CASE Enqueue
    <2>1. /\ UNCHANGED producer_log /\ logging' = TRUE /\ ~logging /\ ~failed /\ ~failed'
          /\ called_at' = Append(called_at, time) /\ time \in Nat
      BY <1>3 DEF Enqueue, AnalysisTypes, RunTypes
    <2>2. /\ Enqueued' = Enqueued + 1
          /\ \A i \in 1 .. Enqueued : called_at'[i] = called_at[i]
      BY <1>2, <2>1, LogGrows DEF Enqueued
    <2>3. \A i \in DOMAIN producer_log : producer_log[i].status = "ok"
      BY <1>1, <2>1 DEF WritesLogged
    <2>4. Len(producer_log) = Enqueued
      <3>1. Len(producer_log) + Unlogged = Enqueued
        BY <1>1, <2>3 DEF WritesLogged
      <3>2. Unlogged = 0
        BY <2>1 DEF Unlogged
      <3>3. QED
        BY <1>12, <3>1, <3>2
    <2>5. \A i \in DOMAIN producer_log :
             i <= Enqueued /\ producer_log[i].step = i - 1
               /\ producer_log[i].called_at = called_at[i]
      BY <1>1, <2>3 DEF WritesLogged
    <2>6. \A i \in DOMAIN producer_log :
             i <= Enqueued' /\ producer_log[i].called_at = called_at'[i]
      BY <1>2, <2>2, <2>4, <2>5
    <2>7. Unlogged' = 1
      BY <2>1 DEF Unlogged
    <2>8. Len(producer_log') + Unlogged' = Enqueued'
      BY <2>1, <2>2, <2>4, <2>7
    <2>9. \A i \in DOMAIN producer_log' :
             /\ producer_log'[i].status = "ok" /\ i <= Enqueued'
             /\ producer_log'[i].step = i - 1 /\ producer_log'[i].called_at = called_at'[i]
      BY <2>1, <2>3, <2>5, <2>6
    <2>10. QED
      BY <2>8, <2>9 DEF WritesLogged
  <1>4. CASE LogWrite
    <2> DEFINE record == [event |-> "io.write", status |-> "ok", step |-> produced - 1,
                          called_at |-> called_at[produced]]
    <2>1. /\ logging /\ logging' = FALSE /\ UNCHANGED <<called_at, failed>>
          /\ producer_log' = Append(producer_log, record)
      BY <1>4 DEF LogWrite, workerVars
    <2>2. produced = Enqueued /\ record \in WriteRecords
      BY <1>4, LogWriteType
    <2>3. /\ Len(producer_log') = Len(producer_log) + 1
          /\ DOMAIN producer_log' = 1 .. Len(producer_log) + 1
          /\ \A i \in 1 .. Len(producer_log) : producer_log'[i] = producer_log[i]
          /\ producer_log'[Len(producer_log) + 1] = record
      BY <2>1, <2>2, LogGrows DEF AnalysisTypes, LogTypes
    <2>4. \A i \in DOMAIN producer_log : producer_log[i].status = "ok"
      BY <1>1, <2>1 DEF WritesLogged
    <2>5. Len(producer_log) + 1 = Enqueued
      <3>1. Len(producer_log) + Unlogged = Enqueued
        BY <1>1, <2>4 DEF WritesLogged
      <3>2. Unlogged = 1
        BY <2>1 DEF Unlogged
      <3>3. QED
        BY <3>1, <3>2
    <2>6. Enqueued' = Enqueued
      BY <2>1 DEF Enqueued
    <2>7. \A i \in DOMAIN producer_log :
             i <= Enqueued /\ producer_log[i].step = i - 1
               /\ producer_log[i].called_at = called_at[i]
      BY <1>1, <2>4 DEF WritesLogged
    <2>8. \A i \in DOMAIN producer_log' :
             /\ producer_log'[i].status = "ok" /\ i <= Enqueued'
             /\ producer_log'[i].step = i - 1 /\ producer_log'[i].called_at = called_at'[i]
      <3> SUFFICES ASSUME NEW i \in 1 .. Len(producer_log) + 1
                   PROVE  /\ producer_log'[i].status = "ok" /\ i <= Enqueued
                          /\ producer_log'[i].step = i - 1
                          /\ producer_log'[i].called_at = called_at[i]
        BY <2>1, <2>3, <2>6
      <3>1. CASE i \in 1 .. Len(producer_log)
        BY <1>2, <2>3, <2>4, <2>7, <3>1
      <3>2. CASE i = Len(producer_log) + 1
        BY <2>2, <2>3, <2>5, <3>2
      <3>3. QED
        BY <1>2, <3>1, <3>2
    <2>9. Len(producer_log') + Unlogged' = Enqueued'
      <3>1. Unlogged' = 0
        BY <2>1 DEF Unlogged
      <3>2. QED
        BY <1>12, <2>3, <2>5, <2>6, <3>1
    <2>10. QED
      BY <2>8, <2>9 DEF WritesLogged
  <1>5. CASE WriteRefused
    <2> DEFINE record == [event |-> "io.write", status |-> "error", step |-> produced,
                          called_at |-> time]
    <2>1. /\ ~logging /\ failed /\ UNCHANGED <<called_at, failed, logging>>
          /\ producer_log' = Append(producer_log, record)
      BY <1>5 DEF WriteRefused, workerVars
    <2>2. record \in WriteRecords
      BY DEF WriteRecords, AnalysisTypes, RunTypes
    <2>3. /\ DOMAIN producer_log' = 1 .. Len(producer_log) + 1
          /\ \A i \in 1 .. Len(producer_log) : producer_log'[i] = producer_log[i]
          /\ producer_log'[Len(producer_log) + 1].status = "error"
      BY <2>1, <2>2, LogGrows DEF AnalysisTypes, LogTypes
    <2>4. Enqueued' = Enqueued
      BY <2>1 DEF Enqueued
    <2>5. \A i \in DOMAIN producer_log' : producer_log'[i].status = "ok" =>
             i <= Enqueued' /\ producer_log'[i].step = i - 1
               /\ producer_log'[i].called_at = called_at'[i]
      <3> SUFFICES ASSUME NEW i \in 1 .. Len(producer_log) + 1, producer_log'[i].status = "ok"
                   PROVE  i <= Enqueued /\ producer_log'[i].step = i - 1
                            /\ producer_log'[i].called_at = called_at[i]
        BY <2>1, <2>3, <2>4
      <3>1. i \in 1 .. Len(producer_log) /\ i \in DOMAIN producer_log
        BY <1>2, <2>3
      <3>2. QED
        BY <1>1, <2>3, <3>1 DEF WritesLogged
    <2>6. ~(\A i \in DOMAIN producer_log' : producer_log'[i].status = "ok")
      BY <1>2, <2>3
    <2>7. QED
      BY <2>1, <2>5, <2>6 DEF WritesLogged
  <1>6. ASSUME UNCHANGED <<producer_log, called_at, logging>>, failed => failed'
        PROVE  WritesLogged'
    <2>1. Enqueued' = Enqueued /\ Unlogged' = Unlogged
      BY <1>6 DEF Enqueued, Unlogged
    <2>2. \A i \in DOMAIN producer_log' :
             producer_log'[i].status = "ok" =>
                i <= Enqueued' /\ producer_log'[i].step = i - 1
                  /\ producer_log'[i].called_at = called_at'[i]
      BY <1>1, <1>6, <2>1 DEF WritesLogged
    <2>3. (~failed' \/ logging') =>
             \A i \in DOMAIN producer_log' : producer_log'[i].status = "ok"
      BY <1>1, <1>6 DEF WritesLogged
    <2>4. (\A i \in DOMAIN producer_log' : producer_log'[i].status = "ok") =>
             Len(producer_log') + Unlogged' = Enqueued'
      BY <1>1, <1>6, <2>1 DEF WritesLogged
    <2>5. QED
      BY <2>2, <2>3, <2>4 DEF WritesLogged
  <1>7. CASE OutputFails \/ Pop \/ Acknowledged \/ Lost
    BY <1>6, <1>7 DEF OutputFails, Pop, Acknowledged, Lost, simulationVars
  <1>8. CASE Store \/ StoreFails
    BY <1>6, <1>8 DEF Store, StoreFails, simulationVars, workerVars
  <1>9. CASE ReadConsumerLog \/ ReadProducerLog \/ AnalysisDone
    BY <1>6, <1>9
       DEF ReadConsumerLog, ReadProducerLog, AnalysisDone, analysisVars, simulationVars,
           workerVars
  <1>10. QED
    BY <1>1, <1>3, <1>4, <1>5, <1>7, <1>8, <1>9 DEF AnalysisNext

-------------------------------------------------------------------------------
(* The queue and the snapshot on its way.                                  *)

LEMMA OutputStateStep ==
    ASSUME AnalysisTypes, OutputState, AnalysisNext
    PROVE  OutputState'
  <1> USE AnalysisAssumption
  <1>1. CASE Enqueue
    BY <1>1 DEF Enqueue, OutputState, consumerVars
  <1>2. CASE OutputFails
    BY <1>2 DEF OutputFails, OutputState
  <1>3. CASE Pop
    <2>1. /\ UNCHANGED <<awaiting, failed, stored>> /\ flight = None /\ queue # <<>>
      BY <1>3 DEF Pop, consumerVars
    <2>2. ~failed /\ ~awaiting
      BY <2>1 DEF OutputState
    <2>3. QED
      BY <2>1, <2>2 DEF OutputState
  <1>4. CASE Store
    BY <1>4 DEF Store, OutputState
  <1>5. CASE Acknowledged
    BY <1>5 DEF Acknowledged, OutputState
  <1>6. CASE Lost
    BY <1>6 DEF Lost, OutputState
  <1>7. ASSUME UNCHANGED <<queue, flight, failed, awaiting, stored>> PROVE OutputState'
    BY <1>7 DEF OutputState
  <1>8. CASE LogDrop \/ LogWrite \/ WriteRefused \/ StoreFails
    BY <1>7, <1>8 DEF LogDrop, LogWrite, WriteRefused, StoreFails, workerVars, consumerVars
  <1>9. CASE ReadConsumerLog \/ ReadProducerLog \/ AnalysisDone
    BY <1>7, <1>9
       DEF ReadConsumerLog, ReadProducerLog, AnalysisDone, analysisVars, workerVars,
           consumerVars
  <1>10. QED
    BY <1>1, <1>2, <1>3, <1>4, <1>5, <1>6, <1>8, <1>9 DEF AnalysisNext

\* A snapshot is outstanding on its way until it is stored.
OnItsWay == IF flight = None \/ flight \in stored THEN 0 ELSE 1

LEMMA OutstandingParts ==
    ASSUME AnalysisTypes
    PROVE  /\ Outstanding = Len(queue) + OnItsWay /\ OnItsWay \in {0, 1}
           /\ Len(queue) \in Nat /\ Enqueued \in Nat
  BY LogDomain DEF AnalysisTypes, RunTypes, Outstanding, OnItsWay, Enqueued

\* As long as nothing is evicted the queue only grows behind.
LEMMA EnqueueAppends ==
    ASSUME AnalysisTypes, Enqueue, NoDrops'
    PROVE  queue' = Append(queue, produced)
  <1>1. CASE Len(queue) < Capacity
    BY <1>1 DEF Enqueue
  <1>2. CASE ~(Len(queue) < Capacity)
    <2>1. dropping' = dropping + 1 /\ dropping \in Nat /\ dropping' = 0
      BY <1>2 DEF Enqueue, NoDrops, AnalysisTypes, RunTypes
    <2>2. QED
      BY <2>1
  <1>3. QED
    BY <1>1, <1>2

LEMMA LinedStep ==
    ASSUME AnalysisTypes, AnalysisTypes', Calls, OutputState, Lined, AnalysisNext
    PROVE  Lined'
  <1> USE AnalysisAssumption
  <1> SUFFICES ASSUME NoDrops', ~failed' PROVE Lined'
    BY DEF Lined
  <1>1. NoDrops /\ ~LogDrop
    BY DropsStay
  <1>2. ~failed
    BY DEF AnalysisNext, Enqueue, LogDrop, LogWrite, WriteRefused, OutputFails, Pop, Store,
           Acknowledged, Lost, StoreFails, ReadConsumerLog, ReadProducerLog, AnalysisDone,
           analysisVars, workerVars
  <1>3. /\ Len(queue) <= Enqueued /\ Len(queue) \in Nat /\ Enqueued \in Nat
        /\ \A i \in 1 .. Len(queue) : queue[i] = Enqueued - Len(queue) + i - 1
        /\ flight # None => flight = Enqueued - Len(queue) - 1
        /\ stored = 0 .. Enqueued - Outstanding - 1
        /\ Outstanding = Len(queue) + OnItsWay /\ OnItsWay \in {0, 1}
    BY <1>1, <1>2, OutstandingParts DEF Lined
  <1>4. /\ queue \in Seq(Nat) /\ flight \in Nat \cup {None} /\ called_at \in Seq(Nat)
        /\ time \in Nat /\ produced = Enqueued
    BY <1>2 DEF AnalysisTypes, RunTypes, Calls
  <1>5. Outstanding' = Len(queue') + OnItsWay'
    BY OutstandingParts DEF Outstanding, OnItsWay
  <1>6. CASE Enqueue
    <2>1. /\ called_at' = Append(called_at, time) /\ UNCHANGED <<flight, stored>>
      BY <1>6 DEF Enqueue, consumerVars
    <2>2. queue' = Append(queue, produced)
      BY <1>6, EnqueueAppends DEF AnalysisTypes, RunTypes
    <2>3. /\ Enqueued' = Enqueued + 1 /\ Len(queue') = Len(queue) + 1
          /\ \A i \in 1 .. Len(queue) : queue'[i] = queue[i]
          /\ queue'[Len(queue) + 1] = Enqueued
      BY <1>3, <1>4, <2>1, <2>2, LogGrows DEF Enqueued
    <2>4. OnItsWay' = OnItsWay
      BY <2>1 DEF OnItsWay
    <2>5. \A i \in 1 .. Len(queue') : queue'[i] = Enqueued' - Len(queue') + i - 1
      <3> SUFFICES ASSUME NEW i \in 1 .. Len(queue) + 1
                   PROVE  queue'[i] = Enqueued - Len(queue) + i - 1
        BY <1>3, <2>3
      <3>1. CASE i = Len(queue) + 1
        BY <1>3, <2>3, <3>1
      <3>2. CASE i \in 1 .. Len(queue)
        BY <1>3, <2>3, <3>2
      <3>3. QED
        BY <1>3, <3>1, <3>2
    <2>6. stored' = 0 .. Enqueued' - Outstanding' - 1
      BY <1>3, <1>5, <2>1, <2>3, <2>4
    <2>7. flight' # None => flight' = Enqueued' - Len(queue') - 1
      BY <1>3, <2>1, <2>3
    <2>8. QED
      BY <1>3, <2>3, <2>5, <2>6, <2>7 DEF Lined
  <1>7. CASE Pop
    <2>1. /\ flight = None /\ queue # <<>> /\ flight' = Head(queue) /\ queue' = Tail(queue)
          /\ UNCHANGED <<called_at, stored>>
      BY <1>7 DEF Pop, simulationVars, consumerVars
    <2>2. /\ Len(queue) > 0 /\ Len(queue') = Len(queue) - 1 /\ flight' = queue[1]
          /\ \A i \in 1 .. Len(queue') : queue'[i] = queue[i + 1]
      BY <1>3, <1>4, <2>1, HeadTailProperties, LogDomain
    <2>3. Enqueued' = Enqueued
      BY <2>1 DEF Enqueued
    <2>4. OnItsWay = 0 /\ flight' = Enqueued - Len(queue)
      BY <1>3, <2>1, <2>2 DEF OnItsWay
    <2>5. flight' \notin stored' /\ flight' # None
      BY <1>3, <2>1, <2>4
    <2>6. OnItsWay' = 1
      BY <2>5 DEF OnItsWay
    <2>7. stored' = 0 .. Enqueued' - Outstanding' - 1
      BY <1>3, <1>5, <2>1, <2>2, <2>3, <2>4, <2>6
    <2>8. \A i \in 1 .. Len(queue') : queue'[i] = Enqueued' - Len(queue') + i - 1
      BY <1>3, <2>2, <2>3
    <2>9. QED
      BY <1>3, <2>2, <2>3, <2>4, <2>7, <2>8 DEF Lined
  <1>8. CASE Store
    <2>1. /\ flight # None /\ UNCHANGED <<called_at, queue, flight>>
          /\ stored' = stored \cup {flight}
      BY <1>8 DEF Store, simulationVars
    <2>2. Enqueued' = Enqueued
      BY <2>1 DEF Enqueued
    <2>3. OnItsWay' = 0
      BY <2>1 DEF OnItsWay
    <2>4. stored' = 0 .. Enqueued' - Outstanding' - 1
      <3>1. flight = Enqueued - Len(queue) - 1 /\ flight \in Nat
        BY <1>3, <1>4, <2>1
      <3>2. CASE flight \in stored
        <4>1. OnItsWay = 0 /\ stored' = stored
          BY <2>1, <3>2 DEF OnItsWay
        <4>2. QED
          BY <1>3, <1>5, <2>1, <2>2, <2>3, <4>1
      <3>3. CASE flight \notin stored
        <4>1. OnItsWay = 1
          BY <2>1, <3>3 DEF OnItsWay
        <4>2. stored = 0 .. flight - 1
          BY <1>3, <3>1, <4>1
        <4>3. stored' = 0 .. flight
          BY <2>1, <3>1, <4>2
        <4>4. QED
          BY <1>3, <1>5, <2>1, <2>2, <2>3, <3>1, <4>3
      <3>4. QED
        BY <3>2, <3>3
    <2>5. QED
      BY <1>3, <2>1, <2>2, <2>4 DEF Lined
  <1>9. CASE Acknowledged
    <2>1. /\ awaiting /\ flight' = None /\ UNCHANGED <<called_at, queue, stored>>
      BY <1>9 DEF Acknowledged, simulationVars, consumerVars
    <2>2. Enqueued' = Enqueued
      BY <2>1 DEF Enqueued
    <2>3. OnItsWay = 0 /\ OnItsWay' = 0
      BY <2>1 DEF OnItsWay, OutputState
    <2>4. QED
      BY <1>3, <1>5, <2>1, <2>2, <2>3 DEF Lined
  <1>10. ASSUME UNCHANGED <<called_at, queue, flight, stored>> PROVE Lined'
    BY <1>3, <1>10 DEF Lined, Enqueued, Outstanding
  <1>11. CASE LogWrite \/ WriteRefused \/ Lost \/ StoreFails
    BY <1>10, <1>11
       DEF LogWrite, WriteRefused, Lost, StoreFails, workerVars, consumerVars, simulationVars
  <1>12. CASE ReadConsumerLog \/ ReadProducerLog \/ AnalysisDone
    BY <1>10, <1>12
       DEF ReadConsumerLog, ReadProducerLog, AnalysisDone, analysisVars, workerVars,
           consumerVars, simulationVars
  <1>13. CASE OutputFails
    BY <1>13 DEF OutputFails
  <1>14. QED
    BY <1>1, <1>6, <1>7, <1>8, <1>9, <1>11, <1>12, <1>13 DEF AnalysisNext

-------------------------------------------------------------------------------
(* The consumers' log.                                                     *)

\* A step leaves the consumers' log alone or puts one record behind it.
LEMMA ConsumerLogGrows ==
    ASSUME AnalysisTypes, AnalysisTypes', AnalysisNext, ~(UNCHANGED consumer_log)
    PROVE  /\ Store \/ StoreFails
           /\ Len(consumer_log') = Len(consumer_log) + 1 /\ Len(consumer_log) \in Nat
           /\ DOMAIN consumer_log = 1 .. Len(consumer_log)
           /\ DOMAIN consumer_log' = 1 .. Len(consumer_log) + 1
           /\ \A i \in 1 .. Len(consumer_log) : consumer_log'[i] = consumer_log[i]
           /\ LET record == consumer_log'[Len(consumer_log) + 1]
              IN  /\ record.status = (IF Store THEN "ok" ELSE "error")
                  /\ record.step = step /\ record.completed_at = time
                  /\ record.snapshot = flight
  <1>1. Store \/ StoreFails
    BY DEF AnalysisNext, Enqueue, LogDrop, LogWrite, WriteRefused, OutputFails, Pop,
           Acknowledged, Lost, ReadConsumerLog, ReadProducerLog, AnalysisDone, analysisVars,
           consumerVars
  <1>2. ASSUME NEW status \in {"ok", "error"}, Record(status), flight # None
        PROVE  /\ Len(consumer_log') = Len(consumer_log) + 1 /\ Len(consumer_log) \in Nat
               /\ DOMAIN consumer_log = 1 .. Len(consumer_log)
               /\ DOMAIN consumer_log' = 1 .. Len(consumer_log) + 1
               /\ \A i \in 1 .. Len(consumer_log) : consumer_log'[i] = consumer_log[i]
               /\ LET record == consumer_log'[Len(consumer_log) + 1]
                  IN  /\ record.status = status
                      /\ record.step = step /\ record.completed_at = time
                      /\ record.snapshot = flight
    <2> DEFINE record == [status |-> status, step |-> step, completed_at |-> time,
                          snapshot |-> flight]
    <2>1. record \in StoreRecords
      BY <1>2 DEF AnalysisTypes, RunTypes, StoreRecords
    <2>2. consumer_log' = Append(consumer_log, record) /\ consumer_log \in Seq(StoreRecords)
      BY <1>2 DEF Record, AnalysisTypes, LogTypes
    <2> HIDE DEF record
    <2>3. /\ Len(consumer_log') = Len(consumer_log) + 1 /\ Len(consumer_log) \in Nat
          /\ DOMAIN consumer_log = 1 .. Len(consumer_log)
          /\ DOMAIN consumer_log' = 1 .. Len(consumer_log) + 1
          /\ \A i \in 1 .. Len(consumer_log) : consumer_log'[i] = consumer_log[i]
          /\ consumer_log'[Len(consumer_log) + 1] = record
      BY <2>1, <2>2, LogGrows, LogDomain
    <2>4. /\ record.status = status /\ record.step = step /\ record.completed_at = time
          /\ record.snapshot = flight
      BY DEF record
    <2>5. QED
      BY <2>3, <2>4
  <1>3. CASE Store
    <2>1. Record("ok") /\ flight # None
      BY <1>3 DEF Store
    <2>2. QED
      BY <1>1, <1>2, <1>3, <2>1
  <1>4. CASE StoreFails /\ ~Store
    <2>1. Record("error") /\ flight # None
      BY <1>4 DEF StoreFails
    <2>2. QED
      BY <1>1, <1>2, <1>4, <2>1
  <1>5. QED
    BY <1>1, <1>3, <1>4

LEMMA TimeGoesOn ==
    ASSUME AnalysisTypes, AnalysisNext
    PROVE  time \in Nat /\ time' \in {time, time + 1}
  BY DEF AnalysisTypes, RunTypes, AnalysisNext, Enqueue, LogDrop, LogWrite, WriteRefused,
         OutputFails, Pop, Store, Acknowledged, Lost, StoreFails, ReadConsumerLog,
         ReadProducerLog, AnalysisDone, analysisVars

LEMMA StoredStays ==
    ASSUME AnalysisNext
    PROVE  stored \subseteq stored'
  BY DEF AnalysisNext, Enqueue, LogDrop, LogWrite, WriteRefused, OutputFails, Pop, Store,
         Acknowledged, Lost, StoreFails, ReadConsumerLog, ReadProducerLog, AnalysisDone,
         analysisVars, consumerVars

LEMMA StoresLoggedStep ==
    ASSUME AnalysisTypes, AnalysisTypes', StoresLogged, AnalysisNext
    PROVE  StoresLogged'
  <1>1. time \in Nat /\ time' \in {time, time + 1}
    BY TimeGoesOn
  <1>2. \A i \in DOMAIN consumer_log : consumer_log[i].completed_at \in Nat
    <2>1. \A i \in DOMAIN consumer_log : consumer_log[i] \in StoreRecords
      BY LogDomain DEF AnalysisTypes, LogTypes
    <2>2. \A record \in StoreRecords : record.completed_at \in Nat
      BY DEF StoreRecords
    <2>3. QED
      BY <2>1, <2>2
  <1>3. CASE UNCHANGED consumer_log
    <2>1. \A i \in DOMAIN consumer_log : consumer_log[i].completed_at < time'
      BY <1>1, <1>2 DEF StoresLogged
    <2>2. \A i \in DOMAIN consumer_log :
             consumer_log[i].status = "ok" => consumer_log[i].snapshot \in stored'
      BY StoredStays DEF StoresLogged
    <2>3. step' \in {step, 0}
      <3>1. ~Store
        <4> SUFFICES ASSUME Store PROVE FALSE
          OBVIOUS
        <4>1. RunTypes /\ LogTypes /\ flight # None /\ Record("ok")
          BY DEF Store, AnalysisTypes
        <4>2. [status |-> "ok", step |-> step, completed_at |-> time, snapshot |-> flight]
                 \in StoreRecords
          BY <4>1 DEF RunTypes, StoreRecords
        <4>3. Len(consumer_log') = Len(consumer_log) + 1 /\ Len(consumer_log) \in Nat
          BY <4>1, <4>2, LogGrows, LogDomain DEF Record, LogTypes
        <4>4. QED
          BY <1>3, <4>3
      <3>2. QED
        BY <3>1 DEF AnalysisNext, Enqueue, LogDrop, LogWrite, WriteRefused, OutputFails, Pop,
                    Acknowledged, Lost, StoreFails, ReadConsumerLog, ReadProducerLog,
                    AnalysisDone, analysisVars, consumerVars
    <2>4. QED
      BY <1>3, <2>1, <2>2, <2>3 DEF StoresLogged
  <1>4. CASE ~(UNCHANGED consumer_log)
    <2>1. /\ Store \/ StoreFails
          /\ DOMAIN consumer_log = 1 .. Len(consumer_log) /\ Len(consumer_log) \in Nat
          /\ DOMAIN consumer_log' = 1 .. Len(consumer_log) + 1
          /\ \A i \in 1 .. Len(consumer_log) : consumer_log'[i] = consumer_log[i]
          /\ consumer_log'[Len(consumer_log) + 1].step = step
          /\ consumer_log'[Len(consumer_log) + 1].completed_at = time
          /\ consumer_log'[Len(consumer_log) + 1].snapshot = flight
          /\ consumer_log'[Len(consumer_log) + 1].status = "ok" => Store
      BY <1>4, ConsumerLogGrows
    <2>2. time' = time + 1
      BY <2>1 DEF Store, StoreFails
    <2>3. ASSUME NEW i \in DOMAIN consumer_log'
          PROVE  /\ consumer_log'[i].completed_at < time'
                 /\ consumer_log'[i].status = "ok" => consumer_log'[i].snapshot \in stored'
      <3>1. CASE i \in 1 .. Len(consumer_log)
        <4>1. /\ consumer_log[i].completed_at < time
              /\ consumer_log[i].status = "ok" => consumer_log[i].snapshot \in stored
          BY <2>1, <3>1 DEF StoresLogged
        <4>2. consumer_log[i].completed_at \in Nat
          BY <1>2, <2>1, <3>1
        <4>3. consumer_log'[i] = consumer_log[i]
          BY <2>1, <3>1
        <4>4. QED
          BY <1>1, <2>2, <4>1, <4>2, <4>3, StoredStays
      <3>2. CASE i = Len(consumer_log) + 1
        <4>1. Store => flight \in stored'
          BY DEF Store
        <4>2. QED
          BY <1>1, <2>1, <2>2, <3>2, <4>1
      <3>3. QED
        BY <2>1, <2>3, <3>1, <3>2
    <2>4. consumer_log' # <<>>
      <3>1. Len(consumer_log') = Len(consumer_log) + 1
        BY <1>4, ConsumerLogGrows
      <3>2. QED
        BY <2>1, <3>1, EmptySeq
    <2>5. consumer_log'[1].step = 0
      <3>1. CASE Len(consumer_log) = 0
        <4>1. step = 0
          BY <3>1, LogDomain DEF StoresLogged, AnalysisTypes, LogTypes
        <4>2. QED
          BY <2>1, <3>1, <4>1
      <3>2. CASE Len(consumer_log) # 0
        <4>1. consumer_log[1].step = 0
          BY <3>2, LogDomain, EmptySeq DEF StoresLogged, AnalysisTypes, LogTypes
        <4>2. QED
          BY <2>1, <3>2, <4>1
      <3>3. QED
        BY <3>1, <3>2
    <2>6. QED
      BY <2>3, <2>4, <2>5 DEF StoresLogged
  <1>5. QED
    BY <1>3, <1>4

\* What is said of the first n writes stays true of them.
LEMMA OneConsumerStays ==
    ASSUME AnalysisTypes, AnalysisTypes', AnalysisNext, NEW n \in 0 .. Len(consumer_log)
    PROVE  OneConsumer(n)' <=> OneConsumer(n)
  <1>1. \A i \in 1 .. Len(consumer_log) : consumer_log'[i] = consumer_log[i]
    BY ConsumerLogGrows
  <1>2. Len(consumer_log) \in Nat
    BY LogDomain DEF AnalysisTypes, LogTypes
  <1>3. \A i \in 1 .. n : consumer_log'[i] = consumer_log[i]
    BY <1>1, <1>2
  <1>4. QED
    BY <1>3 DEF OneConsumer

LEMMA NumberedStep ==
    ASSUME AnalysisTypes, AnalysisTypes', Calls, OutputState, Lined, Numbered, Counting,
           AnalysisNext
    PROVE  Numbered'
  <1> SUFFICES ASSUME NoDrops', NEW i \in DOMAIN consumer_log', OneConsumer(i)'
               PROVE  consumer_log'[i].step = i - 1 /\ consumer_log'[i].snapshot = i - 1
    BY DEF Numbered
  <1>1. NoDrops
    BY DropsStay
  <1>2. Len(consumer_log) \in Nat /\ DOMAIN consumer_log = 1 .. Len(consumer_log)
    BY LogDomain DEF AnalysisTypes, LogTypes
  <1>3. CASE i \in 1 .. Len(consumer_log)
    <2>1. i \in 0 .. Len(consumer_log) /\ i \in DOMAIN consumer_log
      BY <1>2, <1>3
    <2>2. OneConsumer(i)
      BY <2>1, OneConsumerStays
    <2>3. consumer_log'[i] = consumer_log[i]
      BY <1>3, ConsumerLogGrows
    <2>4. consumer_log[i].step = i - 1 /\ consumer_log[i].snapshot = i - 1
      BY <1>1, <2>1, <2>2 DEF Numbered
    <2>5. QED
      BY <2>3, <2>4
  <1>4. CASE i \notin 1 .. Len(consumer_log)
    <2>1. ~(UNCHANGED consumer_log)
      BY <1>2, <1>4
    <2>2. /\ i = Len(consumer_log) + 1
          /\ consumer_log'[i].status = (IF Store THEN "ok" ELSE "error")
          /\ consumer_log'[i].step = step /\ consumer_log'[i].snapshot = flight
      BY <1>2, <1>4, <2>1, ConsumerLogGrows
    <2>3. i \in 1 .. i
      BY <1>2, <2>2
    <2>4. consumer_log'[i].status = "ok" /\ (i > 1 => consumer_log'[i].step # 0)
      BY <2>3 DEF OneConsumer
    <2>5. Store
      BY <2>2, <2>4
    <2>6. OneConsumer(Len(consumer_log))
      <3>1. \A j \in 1 .. Len(consumer_log) : consumer_log'[j] = consumer_log[j]
        BY <2>1, ConsumerLogGrows
      <3>2. \A j \in 1 .. Len(consumer_log) : j \in 1 .. i
        BY <1>2, <2>2
      <3>3. \A j \in 1 .. Len(consumer_log) :
               consumer_log[j].status = "ok" /\ (j > 1 => consumer_log[j].step # 0)
        BY <3>1, <3>2 DEF OneConsumer
      <3>4. QED
        BY <3>3 DEF OneConsumer
    <2>7. flight # None /\ ~awaiting /\ ~failed
      BY <2>5 DEF Store, OutputState
    <2>8. step # 0 \/ consumer_log = <<>>
      <3>1. CASE Len(consumer_log) = 0
        BY <3>1, LogDomain DEF AnalysisTypes, LogTypes
      <3>2. CASE Len(consumer_log) # 0
        BY <1>2, <2>2, <2>4, <3>2
      <3>3. QED
        BY <3>1, <3>2
    <2>9. step = Len(consumer_log) /\ Len(queue) + step + ToStore = Enqueued
      BY <1>1, <2>6, <2>7, <2>8 DEF Counting
    <2>10. flight = Enqueued - Len(queue) - 1
      BY <1>1, <2>7 DEF Lined
    <2>11. ToStore = 1
      BY <2>7 DEF ToStore
    <2>12. Len(queue) \in Nat /\ step \in Nat
      BY OutstandingParts DEF AnalysisTypes, RunTypes
    <2>13. step = i - 1 /\ flight = i - 1
      BY <1>2, <2>2, <2>9, <2>10, <2>11, <2>12
    <2>14. QED
      BY <2>2, <2>13
  <1>5. QED
    BY <1>3, <1>4

LEMMA CountingStep ==
    ASSUME AnalysisTypes, AnalysisTypes', Calls, OutputState, StoresLogged, Lined, Counting,
           AnalysisNext
    PROVE  Counting'
  <1> USE AnalysisAssumption
  <1> SUFFICES ASSUME NoDrops', ~failed', OneConsumer(Len(consumer_log))',
                      step' # 0 \/ consumer_log' = <<>>
               PROVE  /\ step' = Len(consumer_log')
                      /\ Len(queue') + step' + ToStore' = Enqueued'
    BY DEF Counting
  <1>1. NoDrops /\ ~LogDrop
    BY DropsStay
  <1>2. ~failed
    BY DEF AnalysisNext, Enqueue, LogDrop, LogWrite, WriteRefused, OutputFails, Pop, Store,
           Acknowledged, Lost, StoreFails, ReadConsumerLog, ReadProducerLog, AnalysisDone,
           analysisVars, workerVars
  <1>3. /\ Len(queue) \in Nat /\ Enqueued \in Nat /\ step \in Nat /\ queue \in Seq(Nat)
        /\ called_at \in Seq(Nat) /\ time \in Nat /\ flight \in Nat \cup {None}
        /\ ToStore \in {0, 1}
    BY OutstandingParts DEF AnalysisTypes, RunTypes, ToStore
  <1>4. Len(consumer_log) \in Nat
    BY LogDomain DEF AnalysisTypes, LogTypes
  <1>5. ASSUME UNCHANGED <<consumer_log, step>>
        PROVE  step = Len(consumer_log) /\ Len(queue) + step + ToStore = Enqueued
    <2>1. OneConsumer(Len(consumer_log))
      BY <1>5 DEF OneConsumer
    <2>2. QED
      BY <1>1, <1>2, <1>5, <2>1 DEF Counting
  <1>6. CASE Enqueue
    <2>1. UNCHANGED <<consumer_log, step, flight, awaiting>> /\ called_at' = Append(called_at, time)
      BY <1>6 DEF Enqueue, consumerVars
    <2>2. queue' = Append(queue, produced) /\ produced \in Nat
      BY <1>6, EnqueueAppends DEF AnalysisTypes, RunTypes
    <2>3. Enqueued' = Enqueued + 1 /\ Len(queue') = Len(queue) + 1
      BY <1>3, <2>1, <2>2, LogGrows DEF Enqueued
    <2>4. ToStore' = ToStore
      BY <2>1 DEF ToStore
    <2>5. step = Len(consumer_log) /\ Len(queue) + step + ToStore = Enqueued
      BY <1>5, <2>1
    <2>6. step' = Len(consumer_log')
      BY <2>1, <2>5
    <2>7. Len(queue) \in Nat /\ Enqueued \in Nat /\ step \in Nat /\ ToStore \in {0, 1}
      BY <1>3
    <2>8. Len(queue') + step' + ToStore' = Enqueued'
      BY <2>1, <2>3, <2>4, <2>5, <2>7
    <2>9. QED
      BY <2>6, <2>8
  <1>7. CASE Pop
    <2>1. /\ flight = None /\ queue # <<>> /\ flight' = Head(queue) /\ queue' = Tail(queue)
          /\ UNCHANGED <<called_at, awaiting, consumer_log, step>>
      BY <1>7 DEF Pop, simulationVars, consumerVars
    <2>2. Len(queue) > 0 /\ Len(queue') = Len(queue) - 1 /\ flight' \in Nat
      BY <1>3, <2>1, HeadTailProperties, LogDomain
    <2>3. ~awaiting' /\ flight' # None
      BY <2>1, <2>2 DEF OutputState
    <2>4. ToStore = 0 /\ ToStore' = 1
      BY <2>1, <2>3 DEF ToStore
    <2>5. Enqueued' = Enqueued
      BY <2>1 DEF Enqueued
    <2>6. QED
      BY <1>3, <1>5, <2>1, <2>2, <2>4, <2>5
  <1>8. CASE Acknowledged
    <2>1. awaiting /\ flight' = None /\ UNCHANGED <<called_at, queue, consumer_log, step>>
      BY <1>8 DEF Acknowledged, simulationVars, consumerVars
    <2>2. ToStore = 0 /\ ToStore' = 0
      BY <2>1 DEF ToStore
    <2>3. Enqueued' = Enqueued
      BY <2>1 DEF Enqueued
    <2>4. QED
      BY <1>3, <1>5, <2>1, <2>2, <2>3
  <1>9. CASE Lost
    <2>1. /\ flight # None /\ awaiting' = FALSE /\ step' = 0
          /\ UNCHANGED <<called_at, queue, flight, consumer_log>>
      BY <1>9 DEF Lost, simulationVars
    <2>2. consumer_log = <<>> /\ step = 0 /\ Len(consumer_log) = 0
      BY <2>1, EmptySeq DEF StoresLogged
    <2>3. OneConsumer(Len(consumer_log))
      BY <2>2 DEF OneConsumer
    <2>4. Len(queue) + step + ToStore = Enqueued
      BY <1>1, <1>2, <2>2, <2>3 DEF Counting
    <2>5. flight = Enqueued - Len(queue) - 1 /\ flight \in Nat
      BY <1>1, <1>2, <1>3, <2>1 DEF Lined
    <2>6. ToStore = 1
      BY <1>3, <2>2, <2>4, <2>5
    <2>7. ToStore' = 1 /\ Enqueued' = Enqueued
      BY <2>1 DEF ToStore, Enqueued
    <2>8. QED
      BY <2>1, <2>2, <2>4, <2>6, <2>7
  <1>10. CASE ~(UNCHANGED consumer_log)
    <2>1. /\ Len(consumer_log') = Len(consumer_log) + 1
          /\ \A i \in 1 .. Len(consumer_log) : consumer_log'[i] = consumer_log[i]
          /\ consumer_log'[Len(consumer_log) + 1].status = (IF Store THEN "ok" ELSE "error")
          /\ consumer_log'[Len(consumer_log) + 1].step = step
      BY <1>10, ConsumerLogGrows
    <2>2. \A i \in 1 .. Len(consumer_log) + 1 :
             consumer_log'[i].status = "ok" /\ (i > 1 => consumer_log'[i].step # 0)
      BY <2>1 DEF OneConsumer
    <2>3. /\ Store /\ (Len(consumer_log) > 0 => step # 0)
      <3>1. Len(consumer_log) + 1 \in 1 .. Len(consumer_log) + 1
        BY <1>4
      <3>2. QED
        BY <1>4, <2>1, <2>2, <3>1
    <2>4. OneConsumer(Len(consumer_log))
      <3>1. \A i \in 1 .. Len(consumer_log) :
               consumer_log[i].status = "ok" /\ (i > 1 => consumer_log[i].step # 0)
        BY <1>4, <2>1, <2>2
      <3>2. QED
        BY <3>1 DEF OneConsumer
    <2>5. step # 0 \/ consumer_log = <<>>
      BY <1>4, <2>3, LogDomain DEF AnalysisTypes, LogTypes
    <2>6. step = Len(consumer_log) /\ Len(queue) + step + ToStore = Enqueued
      BY <1>1, <1>2, <2>4, <2>5 DEF Counting
    <2>7. /\ flight # None /\ ~awaiting /\ awaiting' = TRUE /\ step' = step + 1
          /\ UNCHANGED <<called_at, queue>>
      BY <2>3 DEF Store, simulationVars
    <2>8. ToStore = 1 /\ ToStore' = 0 /\ Enqueued' = Enqueued
      BY <2>7 DEF ToStore, Enqueued
    <2>9. QED
      BY <1>3, <1>4, <2>1, <2>6, <2>7, <2>8
  <1>11. ASSUME UNCHANGED <<called_at, queue, flight, awaiting, step, consumer_log>>
         PROVE  /\ step' = Len(consumer_log')
                /\ Len(queue') + step' + ToStore' = Enqueued'
    <2>1. ToStore' = ToStore /\ Enqueued' = Enqueued
      BY <1>11 DEF ToStore, Enqueued
    <2>2. QED
      BY <1>5, <1>11, <2>1
  <1>12. CASE LogWrite \/ WriteRefused
    BY <1>11, <1>12 DEF LogWrite, WriteRefused, workerVars, consumerVars
  <1>13. CASE ReadConsumerLog \/ ReadProducerLog \/ AnalysisDone
    BY <1>11, <1>13
       DEF ReadConsumerLog, ReadProducerLog, AnalysisDone, analysisVars, workerVars,
           consumerVars, simulationVars
  <1>14. CASE OutputFails
    BY <1>14 DEF OutputFails
  <1>15. Store \/ StoreFails => ~(UNCHANGED consumer_log)
    <2> SUFFICES ASSUME NEW status \in {"ok", "error"}, Record(status), flight # None,
                        UNCHANGED consumer_log
                 PROVE  FALSE
      BY DEF Store, StoreFails
    <2>1. [status |-> status, step |-> step, completed_at |-> time, snapshot |-> flight]
             \in StoreRecords
      BY <1>3 DEF StoreRecords
    <2>2. Len(consumer_log') = Len(consumer_log) + 1
      BY <2>1, LogGrows DEF Record, AnalysisTypes, LogTypes
    <2>3. QED
      BY <1>4, <2>2
  <1>16. QED
    BY <1>1, <1>6, <1>7, <1>8, <1>9, <1>10, <1>12, <1>13, <1>14, <1>15 DEF AnalysisNext

LEMMA CopiedStep ==
    ASSUME AnalysisTypes, AnalysisTypes', Copied, AnalysisNext
    PROVE  Copied'
  <1>1. /\ Len(consumer_log) <= Len(consumer_log')
        /\ \A i \in 1 .. Len(consumer_log) : consumer_log'[i] = consumer_log[i]
        /\ Len(consumer_log) \in Nat /\ Len(consumer_log') \in Nat
    <2>1. Len(consumer_log) \in Nat /\ Len(consumer_log') \in Nat
      BY LogDomain DEF AnalysisTypes, LogTypes
    <2>2. CASE UNCHANGED consumer_log
      BY <2>1, <2>2
    <2>3. CASE ~(UNCHANGED consumer_log)
      BY <2>1, <2>3, ConsumerLogGrows
    <2>4. QED
      BY <2>2, <2>3
  <1>2. /\ DOMAIN consumer_records = 1 .. Len(consumer_records)
        /\ Len(consumer_records) \in Nat
    BY LogDomain DEF AnalysisTypes, AnalyzerTypes
  <1>3. CASE ReadConsumerLog
    <2>1. /\ consumer_records' \in ReadJsonLines(consumer_log) /\ UNCHANGED consumer_log
          /\ analyzer = "starting" /\ UNCHANGED settled
      BY <1>3 DEF ReadConsumerLog, consumerVars
    <2>2. /\ Len(consumer_records') <= Len(consumer_log)
          /\ \A i \in DOMAIN consumer_records' : consumer_records'[i] = consumer_log[i]
      BY <2>1, ReadIsPrefix DEF AnalysisTypes, LogTypes
    <2>3. ~settled
      BY <2>1 DEF Copied
    <2>4. QED
      BY <2>1, <2>2, <2>3 DEF Copied
  <1>4. ASSUME UNCHANGED consumer_records
        PROVE  /\ Len(consumer_records') <= Len(consumer_log')
               /\ \A i \in DOMAIN consumer_records' : consumer_records'[i] = consumer_log'[i]
    <2>1. Len(consumer_records) <= Len(consumer_log)
      BY DEF Copied
    <2>2. \A i \in DOMAIN consumer_records : i \in 1 .. Len(consumer_log)
      BY <1>1, <1>2, <2>1
    <2>3. \A i \in DOMAIN consumer_records : consumer_records[i] = consumer_log'[i]
      BY <1>1, <2>2 DEF Copied
    <2>4. QED
      BY <1>1, <1>2, <1>4, <2>1, <2>3
  <1>5. CASE ReadProducerLog
    <2>1. UNCHANGED <<consumer_records, logging, dropping, producer_log>>
          /\ settled' = (~logging /\ dropping = 0 /\ producer_records' = producer_log)
          /\ analyzer' = "done"
      BY <1>5 DEF ReadProducerLog, simulationVars
    <2>2. QED
      BY <1>4, <2>1 DEF Copied
  <1>6. CASE AnalysisDone
    BY <1>4, <1>6 DEF AnalysisDone, analysisVars, simulationVars, analyzerVars, Copied
  <1>7. CASE Running /\ UNCHANGED analyzerVars
    <2>1. UNCHANGED <<consumer_records, settled>> /\ ~settled
      BY <1>7 DEF analyzerVars, Running, Copied
    <2>2. QED
      BY <1>4, <2>1 DEF Copied
  <1>8. QED
    BY <1>3, <1>5, <1>6, <1>7
       DEF AnalysisNext, Enqueue, LogDrop, LogWrite, WriteRefused, OutputFails, Pop, Store,
           Acknowledged, Lost, StoreFails

-------------------------------------------------------------------------------
(* The peak.                                                               *)

\* The peak n was seen at the p-th call, when all but k of the snapshots were outstanding.
SeenAt(n, p, k) ==
    /\ n <= p - k
    /\ \A i \in DOMAIN consumer_log :
          OneConsumer(i) /\ consumer_log[i].completed_at <= called_at[p] => i <= k

\* What was seen at a call stays so: later writes complete after it.
LEMMA SeenStays ==
    ASSUME AnalysisTypes, AnalysisTypes', Calls, AnalysisNext,
           NEW n \in Nat, NEW p \in 1 .. Enqueued, NEW k \in 0 .. Enqueued, SeenAt(n, p, k)
    PROVE  SeenAt(n, p, k)' /\ p \in 1 .. Enqueued' /\ k \in 0 .. Enqueued'
  <1>1. Len(consumer_log) \in Nat /\ DOMAIN consumer_log = 1 .. Len(consumer_log)
    BY LogDomain DEF AnalysisTypes, LogTypes
  <1>2. Enqueued \in Nat /\ called_at \in Seq(Nat) /\ time \in Nat
    BY OutstandingParts DEF AnalysisTypes, RunTypes
  <1>3. called_at'[p] = called_at[p] /\ Enqueued' \in {Enqueued, Enqueued + 1}
    <2>1. CASE Enqueue
      <3>1. called_at' = Append(called_at, time)
        BY <2>1 DEF Enqueue
      <3>2. QED
        BY <1>2, <3>1, LogGrows DEF Enqueued
    <2>2. CASE ~Enqueue
      <3>1. called_at' = called_at
        BY <2>2 DEF AnalysisNext, LogDrop, LogWrite, WriteRefused, OutputFails, Pop, Store,
                    Acknowledged, Lost, StoreFails, ReadConsumerLog, ReadProducerLog,
                    AnalysisDone, analysisVars, simulationVars
      <3>2. QED
        BY <3>1 DEF Enqueued
    <2>3. QED
      BY <2>1, <2>2
  <1>4. ASSUME NEW i \in DOMAIN consumer_log', OneConsumer(i)',
               consumer_log'[i].completed_at <= called_at[p]
        PROVE  i <= k
    <2>1. CASE i \in 1 .. Len(consumer_log)
      <3>1. OneConsumer(i)
        BY <1>1, <1>4, <2>1, OneConsumerStays
      <3>2. consumer_log'[i] = consumer_log[i]
        BY <2>1, ConsumerLogGrows
      <3>3. QED
        BY <1>1, <1>4, <2>1, <3>1, <3>2 DEF SeenAt
    <2>2. CASE i \notin 1 .. Len(consumer_log)
      <3>1. consumer_log'[i].completed_at = time
        BY <1>1, <1>4, <2>2, ConsumerLogGrows
      <3>2. called_at[p] < time /\ called_at[p] \in Nat
        BY <1>2 DEF Calls, Enqueued
      <3>3. QED
        BY <1>2, <1>4, <3>1, <3>2
    <2>3. QED
      BY <2>1, <2>2
  <1>5. SeenAt(n, p, k)'
    BY <1>3, <1>4 DEF SeenAt
  <1>6. QED
    BY <1>2, <1>3, <1>5

LEMMA PeakSeenStep ==
    ASSUME AnalysisTypes, AnalysisTypes', Calls, Lined, StoresLogged, Numbered, PeakSeen,
           AnalysisNext
    PROVE  PeakSeen'
  <1> SUFFICES ASSUME NoDrops', peak' > 0
               PROVE  \E p \in 1 .. Enqueued', k \in 0 .. Enqueued' : SeenAt(peak, p, k)'
    BY DEF PeakSeen, SeenAt
  <1>1. NoDrops
    BY DropsStay
  <1>2. peak \in Nat /\ peak' \in Nat
    BY DEF AnalysisTypes, AnalyzerTypes
  <1>3. CASE peak' = peak
    <2>1. PICK p \in 1 .. Enqueued, k \in 0 .. Enqueued : SeenAt(peak, p, k)
      BY <1>1, <1>3 DEF PeakSeen, SeenAt
    <2>2. PICK n \in Nat : n = peak
      BY <1>2
    <2>3. SeenAt(n, p, k)
      BY <2>1, <2>2
    <2>4. SeenAt(n, p, k)' /\ p \in 1 .. Enqueued' /\ k \in 0 .. Enqueued'
      BY <2>3, SeenStays
    <2>5. SeenAt(peak, p, k)'
      BY <1>3, <2>2, <2>4 DEF SeenAt
    <2>6. QED
      BY <2>4, <2>5
  <1>4. CASE peak' # peak
    <2>1. Enqueue /\ peak' = Outstanding'
      <3>1. Enqueue
        BY <1>4 DEF AnalysisNext, LogDrop, LogWrite, WriteRefused, OutputFails, Pop, Store,
                    Acknowledged, Lost, StoreFails, ReadConsumerLog, ReadProducerLog,
                    AnalysisDone, analysisVars
      <3>2. QED
        BY <1>4, <3>1 DEF Enqueue, Larger
    <2>2. /\ ~failed /\ called_at' = Append(called_at, time) /\ queue' = Append(queue, produced)
          /\ UNCHANGED <<flight, stored, consumer_log>> /\ time \in Nat /\ produced \in Nat
          /\ queue \in Seq(Nat) /\ called_at \in Seq(Nat)
      BY <2>1, EnqueueAppends DEF Enqueue, consumerVars, AnalysisTypes, RunTypes
    <2>3. /\ Outstanding = Len(queue) + OnItsWay /\ OnItsWay \in {0, 1}
          /\ Len(queue) \in Nat /\ Enqueued \in Nat
      BY OutstandingParts
    <2>4. /\ Enqueued' = Enqueued + 1 /\ Len(queue') = Len(queue) + 1
          /\ called_at'[Enqueued + 1] = time
      BY <2>2, LogGrows DEF Enqueued
    <2>5. OnItsWay' = OnItsWay /\ Outstanding' = Len(queue') + OnItsWay'
      BY <2>2 DEF OnItsWay, Outstanding
    <2>6. Outstanding <= Enqueued
      <3>1. /\ Len(queue) <= Enqueued /\ stored = 0 .. Enqueued - Outstanding - 1
            /\ flight # None => flight = Enqueued - Len(queue) - 1
        BY <1>1, <2>2 DEF Lined
      <3>2. CASE flight = None
        BY <2>3, <3>1, <3>2 DEF OnItsWay
      <3>3. CASE flight # None
        <4>1. flight \in Nat
          BY <3>3 DEF AnalysisTypes, RunTypes
        <4>2. QED
          BY <2>3, <3>1, <3>3, <4>1
      <3>4. QED
        BY <3>2, <3>3
    <2> DEFINE k == Enqueued - Outstanding
    <2>7. k \in 0 .. Enqueued' /\ Enqueued + 1 \in 1 .. Enqueued'
      BY <2>3, <2>4, <2>6
    <2>8. peak' <= (Enqueued + 1) - k
      BY <2>1, <2>3, <2>4, <2>5
    <2>9. ASSUME NEW i \in DOMAIN consumer_log, OneConsumer(i)
          PROVE  i <= k
      <3>1. i \in Nat /\ i \in 1 .. i
        BY LogDomain DEF AnalysisTypes, LogTypes
      <3>2. consumer_log[i].status = "ok"
        BY <2>9, <3>1 DEF OneConsumer
      <3>3. consumer_log[i].snapshot \in stored /\ consumer_log[i].snapshot = i - 1
        BY <1>1, <2>9, <3>2 DEF StoresLogged, Numbered
      <3>4. stored = 0 .. Enqueued - Outstanding - 1
        BY <1>1, <2>2 DEF Lined
      <3>5. QED
        BY <2>3, <3>1, <3>3, <3>4
    <2> HIDE DEF k
    <2>10. PICK p \in 1 .. Enqueued', m \in 0 .. Enqueued' : p = Enqueued + 1 /\ m = k
      BY <2>7
    <2>11. peak' <= p - m
      BY <2>8, <2>10
    <2>12. \A i \in DOMAIN consumer_log' : OneConsumer(i)' => i <= m
      BY <2>2, <2>9, <2>10 DEF OneConsumer
    <2>13. SeenAt(peak, p, m)'
      BY <2>11, <2>12 DEF SeenAt
    <2>14. QED
      BY <2>13
  <1>5. QED
    BY <1>3, <1>4

-------------------------------------------------------------------------------
(* The invariant.                                                          *)

LEMMA AnalysisInvInit == AnalysisInit => AnalysisInv
  <1> SUFFICES ASSUME AnalysisInit PROVE AnalysisInv
    OBVIOUS
  <1> USE AnalysisAssumption
  <1>1. AnalysisTypes
    BY EmptySeq DEF AnalysisInit, AnalysisTypes, RunTypes, LogTypes, AnalyzerTypes
  <1>2. Enqueued = 0 /\ Unlogged = 0 /\ ToStore = 0 /\ Outstanding = 0
    BY EmptySeq DEF AnalysisInit, Enqueued, Unlogged, ToStore, Outstanding
  <1>3. DOMAIN producer_log = {} /\ DOMAIN consumer_log = {} /\ DOMAIN consumer_records = {}
        /\ Len(producer_log) = 0 /\ Len(consumer_log) = 0 /\ Len(consumer_records) = 0
        /\ Len(queue) = 0
    BY EmptySeq DEF AnalysisInit
  <1>4. Calls /\ WritesLogged /\ OutputState
    BY <1>2, <1>3 DEF AnalysisInit, Calls, WritesLogged, OutputState
  <1>5. Lined
    BY <1>2, <1>3 DEF AnalysisInit, Lined
  <1>6. StoresLogged /\ Numbered /\ Counting /\ Copied /\ PeakSeen
    BY <1>2, <1>3 DEF AnalysisInit, StoresLogged, Numbered, Counting, Copied, PeakSeen
  <1>7. QED
    BY <1>1, <1>4, <1>5, <1>6 DEF AnalysisInv

LEMMA AnalysisInvStep == AnalysisInv /\ [AnalysisNext]_analysisVars => AnalysisInv'
  <1> SUFFICES ASSUME AnalysisInv, [AnalysisNext]_analysisVars PROVE AnalysisInv'
    OBVIOUS
  <1>1. CASE AnalysisNext
    <2>1. AnalysisTypes'
      BY <1>1, AnalysisTypesStep DEF AnalysisInv
    <2>2. Calls' /\ WritesLogged' /\ OutputState'
      BY <1>1, CallsStep, WritesLoggedStep, OutputStateStep DEF AnalysisInv
    <2>3. Lined' /\ StoresLogged' /\ Copied'
      BY <1>1, <2>1, LinedStep, StoresLoggedStep, CopiedStep DEF AnalysisInv
    <2>4. Numbered' /\ Counting' /\ PeakSeen'
      BY <1>1, <2>1, NumberedStep, CountingStep, PeakSeenStep DEF AnalysisInv
    <2>5. QED
      BY <2>1, <2>2, <2>3, <2>4 DEF AnalysisInv
  <1>2. CASE UNCHANGED analysisVars
    <2>1. AnalysisTypes' /\ Calls' /\ OutputState' /\ StoresLogged' /\ Copied'
      BY <1>2 DEF analysisVars, simulationVars, workerVars, consumerVars, analyzerVars,
                  AnalysisInv, AnalysisTypes, RunTypes, LogTypes, AnalyzerTypes, Calls,
                  OutputState, StoresLogged, Copied, Enqueued
    <2>2. WritesLogged' /\ Lined' /\ Numbered' /\ Counting'
      BY <1>2 DEF analysisVars, simulationVars, workerVars, consumerVars, AnalysisInv,
                  WritesLogged, Lined, Numbered, Counting, Enqueued, Unlogged, ToStore,
                  Outstanding, NoDrops, OneConsumer
    <2>3. PeakSeen'
      BY <1>2 DEF analysisVars, simulationVars, consumerVars, AnalysisInv, PeakSeen, Enqueued,
                  NoDrops, OneConsumer
    <2>4. QED
      BY <2>1, <2>2, <2>3 DEF AnalysisInv
  <1>3. QED
    BY <1>1, <1>2

\* The invariant holds in every state of every behaviour.
THEOREM AnalysisInvariant == AnalysisSpec => []AnalysisInv
  <1>1. QED
    BY AnalysisInvInit, AnalysisInvStep, PTL DEF AnalysisSpec

-------------------------------------------------------------------------------
(* What summarize makes of the records.                                    *)

LEMMA FiniteCardinality ==
    ASSUME NEW n \in Nat, NEW S, S \subseteq 1 .. n
    PROVE  /\ IsFiniteSet(S) /\ Cardinality(S) \in 0 .. n /\ Cardinality(S) \in Nat
           /\ (Cardinality(S) = 0 <=> S = {})
  <1>1. IsFiniteSet(1 .. n) /\ Cardinality(1 .. n) = n
    BY FS_Interval
  <1>2. IsFiniteSet(S) /\ Cardinality(S) <= n
    BY <1>1, FS_Subset
  <1>3. Cardinality(S) \in Nat
    BY <1>2, FS_CardinalityType
  <1>4. Cardinality(S) = 0 <=> S = {}
    BY <1>2, FS_EmptySet
  <1>5. QED
    BY <1>2, <1>3, <1>4

\* A set of integers that has a bound has a largest element.
LEMMA MaxBounds ==
    ASSUME NEW S, S \subseteq Int, S # {}, NEW b \in Int, \A x \in S : x <= b
    PROVE  Max(S) \in S /\ \A y \in S : Max(S) >= y
  <1> DEFINE T == {b - x : x \in S}
  <1>1. T \subseteq Nat /\ T # {}
    <2>1. ASSUME NEW x \in S PROVE b - x \in Nat
      BY <2>1
    <2>2. QED
      BY <2>1
  <1>2. PICK d \in T : \A e \in T : ~(<<e, d>> \in OpToRel(<, Nat))
    BY <1>1, NatLessThanWellFounded, WFMin
  <1>3. \A e \in T : ~(e < d)
    BY <1>1, <1>2 DEF OpToRel
  <1>4. PICK m \in S : d = b - m
    OBVIOUS
  <1>5. \A y \in S : m >= y
    <2> SUFFICES ASSUME NEW y \in S PROVE m >= y
      OBVIOUS
    <2>1. ~(b - y < b - m)
      BY <1>3, <1>4
    <2>2. QED
      BY <2>1
  <1>6. QED
    BY <1>5 DEF Max

LEMMA MaxOfOne == ASSUME NEW x \in Int PROVE Max({x}) = x
  <1>1. Max({x}) \in {x}
    BY MaxBounds
  <1>2. QED
    BY <1>1

\* If as many steps are named as there are records, no two records name the same.
LEMMA DistinctSteps ==
    ASSUME NEW n \in Nat, NEW log, NEW places \in SUBSET (1 .. n),
           Cardinality(StepsOf(log, places)) = Cardinality(places)
    PROVE  \A i, j \in places : log[i].step = log[j].step => i = j
  <1> DEFINE named == [i \in places |-> log[i].step]
  <1>1. named \in Surjection(places, StepsOf(log, places))
    BY DEF Surjection, StepsOf
  <1>2. IsFiniteSet(places)
    BY FiniteCardinality
  <1>3. named \in Injection(places, StepsOf(log, places))
    BY <1>1, <1>2, FS_Surjection
  <1>4. \A i, j \in places : named[i] = named[j] => i = j
    BY <1>3 DEF Injection, IsInjective
  <1>5. QED
    BY <1>4

\* The producer's log of a healthy experiment has every accepted snapshot, in order.
LEMMA HealthyProducer ==
    ASSUME AnalysisInv, Healthy, settled
    PROVE  /\ NoDrops /\ Enqueued \in Nat /\ ProducerWrites = 1 .. Enqueued
           /\ \A i \in 1 .. Enqueued :
                 producer_records[i].step = i - 1 /\ producer_records[i].called_at = called_at[i]
  <1>1. /\ producer_records = producer_log /\ dropping = 0 /\ Unlogged = 0
    BY DEF AnalysisInv, Copied, Unlogged
  <1>2. /\ producer_log \in Seq(DropRecords \cup WriteRecords)
        /\ DOMAIN producer_log = 1 .. Len(producer_log) /\ Len(producer_log) \in Nat
        /\ Enqueued \in Nat
    BY LogDomain DEF AnalysisInv, AnalysisTypes, LogTypes, RunTypes, Enqueued
  <1>3. DOMAIN consumer_records = 1 .. Len(consumer_records) /\ Len(consumer_records) \in Nat
    BY LogDomain DEF AnalysisInv, AnalysisTypes, AnalyzerTypes
  <1> DEFINE D == {i \in DOMAIN producer_records :
                      producer_records[i].event = "io.buffer_drop"}
             P == {i \in DOMAIN producer_records :
                      /\ producer_records[i].event = "io.write"
                      /\ producer_records[i].status # "ok"}
             C == {i \in DOMAIN consumer_records : ~IsOk(consumer_records[i])}
  <1>4. Cardinality(D) = 0 /\ Cardinality(P) + Cardinality(C) = 0
    BY DEF Healthy, Drops, BadWrites
  <1>5. D = {}
    <2>1. D \subseteq 1 .. Len(producer_log)
      BY <1>1, <1>2
    <2>2. QED
      BY <1>2, <1>4, <2>1, FiniteCardinality
  <1>6. P = {}
    <2>1. P \subseteq 1 .. Len(producer_log) /\ C \subseteq 1 .. Len(consumer_records)
      BY <1>1, <1>2, <1>3
    <2>2. Cardinality(P) \in Nat /\ Cardinality(C) \in Nat /\ (Cardinality(P) = 0 <=> P = {})
      BY <1>2, <1>3, <2>1, FiniteCardinality
    <2> HIDE DEF P, C
    <2>3. QED
      BY <1>4, <2>2
  <1>7. \A i \in DOMAIN producer_log :
           producer_log[i].event = "io.write" /\ producer_log[i].status = "ok"
    <2> SUFFICES ASSUME NEW i \in DOMAIN producer_log
                 PROVE  producer_log[i].event = "io.write" /\ producer_log[i].status = "ok"
      OBVIOUS
    <2>1. producer_log[i].event \in {"io.buffer_drop", "io.write"}
      <3>1. producer_log[i] \in DropRecords \cup WriteRecords
        BY <1>2
      <3>2. QED
        BY <3>1 DEF DropRecords, WriteRecords
    <2>2. QED
      BY <1>1, <1>5, <1>6, <2>1
  <1>8. NoDrops
    BY <1>1, <1>7 DEF NoDrops
  <1>9. Len(producer_log) = Enqueued
    <2>1. Len(producer_log) + Unlogged = Enqueued
      BY <1>7, <1>8 DEF AnalysisInv, WritesLogged
    <2>2. Len(producer_log) \in Nat /\ Unlogged = 0
      BY <1>1, <1>2
    <2>3. QED
      BY <2>1, <2>2
  <1>10. ProducerWrites = 1 .. Enqueued
    BY <1>1, <1>2, <1>7, <1>9 DEF ProducerWrites, IsWrite
  <1>11. \A i \in DOMAIN producer_log :
            producer_log[i].step = i - 1 /\ producer_log[i].called_at = called_at[i]
    BY <1>7, <1>8 DEF AnalysisInv, WritesLogged
  <1>12. QED
    BY <1>1, <1>2, <1>8, <1>9, <1>10, <1>11

\* What was read of the consumers' log was written by one consumer, which has numbered
\* every snapshot by its place.
LEMMA HealthyConsumer ==
    ASSUME AnalysisInv, Healthy, settled
    PROVE  /\ Len(consumer_records) \in Nat
           /\ ConsumerWrites = 1 .. Len(consumer_records)
           /\ DOMAIN consumer_records = 1 .. Len(consumer_records)
           /\ Len(consumer_records) <= Len(consumer_log)
           /\ \A i \in 1 .. Len(consumer_records) :
                 /\ OneConsumer(i) /\ consumer_records[i] = consumer_log[i]
                 /\ consumer_records[i].step = i - 1 /\ consumer_records[i].snapshot = i - 1
  <1>1. /\ DOMAIN consumer_records = 1 .. Len(consumer_records)
        /\ Len(consumer_records) \in Nat
        /\ DOMAIN consumer_log = 1 .. Len(consumer_log) /\ Len(consumer_log) \in Nat
        /\ consumer_log = <<>> <=> Len(consumer_log) = 0
    BY LogDomain DEF AnalysisInv, AnalysisTypes, AnalyzerTypes, LogTypes
  <1>2. DOMAIN producer_records = 1 .. Len(producer_records) /\ Len(producer_records) \in Nat
    BY LogDomain DEF AnalysisInv, AnalysisTypes, AnalyzerTypes
  <1>3. /\ Len(consumer_records) <= Len(consumer_log)
        /\ \A i \in 1 .. Len(consumer_records) : consumer_records[i] = consumer_log[i]
    BY <1>1 DEF AnalysisInv, Copied
  <1> DEFINE P == {i \in DOMAIN producer_records :
                      /\ producer_records[i].event = "io.write"
                      /\ producer_records[i].status # "ok"}
             C == {i \in DOMAIN consumer_records : ~IsOk(consumer_records[i])}
  <1>4. C = {}
    <2>1. P \subseteq 1 .. Len(producer_records) /\ C \subseteq 1 .. Len(consumer_records)
      BY <1>1, <1>2
    <2>2. Cardinality(P) \in Nat
      BY <1>2, <2>1, FiniteCardinality
    <2>3. Cardinality(C) \in Nat /\ (Cardinality(C) = 0 <=> C = {})
      BY <1>1, <2>1, FiniteCardinality
    <2>4. Cardinality(P) + Cardinality(C) = 0
      BY DEF Healthy, BadWrites
    <2> HIDE DEF P, C
    <2>5. QED
      BY <2>2, <2>3, <2>4
  <1>5. \A i \in 1 .. Len(consumer_records) : consumer_records[i].status = "ok"
    BY <1>1, <1>4 DEF IsOk
  <1>6. ConsumerWrites = 1 .. Len(consumer_records)
    BY <1>1, <1>5 DEF ConsumerWrites, IsOk
  <1>7. \A i, j \in 1 .. Len(consumer_records) :
           consumer_records[i].step = consumer_records[j].step => i = j
    <2>1. Cardinality(StepsOf(consumer_records, ConsumerWrites)) = Cardinality(ConsumerWrites)
      BY DEF Healthy, IsContiguous
    <2>2. QED
      BY <1>1, <1>6, <2>1, DistinctSteps
  <1>8. ASSUME NEW i \in 1 .. Len(consumer_records)
        PROVE  OneConsumer(i)
    <2>1. i \in Nat /\ 1 \in 1 .. Len(consumer_records) /\ i <= Len(consumer_records)
      BY <1>1
    <2>2. consumer_log # <<>> /\ consumer_records[1] = consumer_log[1]
      BY <1>1, <1>3, <2>1
    <2>3. consumer_records[1].step = 0
      BY <2>2 DEF AnalysisInv, StoresLogged
    <2>4. ASSUME NEW j \in 1 .. i
          PROVE  consumer_log[j].status = "ok" /\ (j > 1 => consumer_log[j].step # 0)
      <3>1. j \in 1 .. Len(consumer_records)
        BY <1>1, <2>1
      <3>2. consumer_log[j] = consumer_records[j] /\ consumer_records[j].status = "ok"
        BY <1>3, <1>5, <3>1
      <3>3. j > 1 => consumer_records[j].step # consumer_records[1].step
        BY <1>7, <2>1, <3>1
      <3>4. QED
        BY <2>3, <3>2, <3>3
    <2>5. QED
      BY <2>4 DEF OneConsumer
  <1>9. ASSUME NEW i \in 1 .. Len(consumer_records)
        PROVE  consumer_log[i].step = i - 1 /\ consumer_log[i].snapshot = i - 1
    <2>1. i \in DOMAIN consumer_log
      BY <1>1, <1>3
    <2>2. NoDrops /\ OneConsumer(i)
      BY <1>8, HealthyProducer
    <2>3. QED
      BY <2>1, <2>2 DEF AnalysisInv, Numbered
  <1>10. QED
    BY <1>1, <1>3, <1>6, <1>8, <1>9

\* Of a step that one record has, ByStep finds that record.
LEMMA FoundByStep ==
    ASSUME NEW log, NEW places \in SUBSET Nat, NEW i \in places,
           \A j \in places : log[j].step = log[i].step => j = i
    PROVE  ByStep(log, places)[log[i].step] = log[i]
  <1> DEFINE s == log[i].step
  <1>1. {j \in places : log[j].step = s} = {i}
    OBVIOUS
  <1>2. Max({j \in places : log[j].step = s}) = i
    BY <1>1, MaxOfOne
  <1>3. s \in StepsOf(log, places)
    BY DEF StepsOf
  <1> HIDE DEF s
  <1>4. ByStep(log, places)[s] = log[Max({j \in places : log[j].step = s})]
    BY <1>3 DEF ByStep
  <1>5. QED
    BY <1>2, <1>4 DEF s

LEMMA HealthyReport == AnalysisInv => HealthyIsTrue
  <1> SUFFICES ASSUME AnalysisInv, Healthy, settled
               PROVE  /\ \A i \in DOMAIN consumer_records : consumer_records[i].snapshot = i - 1
                      /\ \A s \in Matched :
                            \E i \in DOMAIN consumer_records :
                               /\ consumer_records[i].snapshot = s
                               /\ LatencyByStep[s] =
                                     consumer_records[i].completed_at - called_at[s + 1]
    BY DEF HealthyIsTrue
  <1> DEFINE m == Len(consumer_records)
  <1>1. /\ m \in Nat /\ ConsumerWrites = 1 .. m /\ DOMAIN consumer_records = 1 .. m
        /\ \A i \in 1 .. m :
              consumer_records[i].step = i - 1 /\ consumer_records[i].snapshot = i - 1
    BY HealthyConsumer
  <1>2. /\ Enqueued \in Nat /\ ProducerWrites = 1 .. Enqueued
        /\ \A i \in 1 .. Enqueued :
              producer_records[i].step = i - 1 /\ producer_records[i].called_at = called_at[i]
    BY HealthyProducer
  <1> HIDE DEF m
  <1>3. ASSUME NEW s \in Matched
        PROVE  \E i \in DOMAIN consumer_records :
                  /\ consumer_records[i].snapshot = s
                  /\ LatencyByStep[s] = consumer_records[i].completed_at - called_at[s + 1]
    <2>1. PICK i \in 1 .. m : consumer_records[i].step = s
      BY <1>1 DEF Matched, ConsumerByStep, ByStep, StepsOf
    <2>2. PICK j \in 1 .. Enqueued : producer_records[j].step = s
      BY <1>2 DEF Matched, ProducerByStep, ByStep, StepsOf
    <2>3. i \in Nat /\ j \in Nat /\ s = i - 1 /\ s = j - 1
      BY <1>1, <1>2, <2>1, <2>2
    <2>4. i = s + 1 /\ j = s + 1
      BY <2>3
    <2>5. ConsumerByStep[s] = consumer_records[i]
      <3>1. \A l \in 1 .. m : consumer_records[l].step = consumer_records[i].step => l = i
        BY <1>1
      <3>2. 1 .. m \in SUBSET Nat
        BY <1>1
      <3>3. ByStep(consumer_records, 1 .. m)[consumer_records[i].step] = consumer_records[i]
        BY <3>1, <3>2, FoundByStep
      <3>4. QED
        BY <1>1, <2>1, <3>3 DEF ConsumerByStep
    <2>6. ProducerByStep[s] = producer_records[j]
      <3>1. \A l \in 1 .. Enqueued : producer_records[l].step = producer_records[j].step => l = j
        BY <1>2
      <3>2. 1 .. Enqueued \in SUBSET Nat
        BY <1>2
      <3>3. ByStep(producer_records, 1 .. Enqueued)[producer_records[j].step] = producer_records[j]
        BY <3>1, <3>2, FoundByStep
      <3>4. QED
        BY <1>2, <2>2, <3>3 DEF ProducerByStep
    <2>7. LatencyByStep[s] = consumer_records[i].completed_at - producer_records[j].called_at
      BY <2>5, <2>6 DEF LatencyByStep
    <2>8. QED
      BY <1>1, <1>2, <2>1, <2>3, <2>4, <2>7
  <1>4. QED
    BY <1>1, <1>3

\* The timeline cannot be larger than the number of writes of the producer.
LEMMA OutstandingBounded ==
    ASSUME NEW n \in Nat, NEW m \in Nat, ProducerWrites = 1 .. n, ConsumerWrites = 1 .. m,
           NEW t
    PROVE  OutstandingAt(t) \in Int /\ OutstandingAt(t) <= n
  <1> DEFINE A == {i \in ProducerWrites : producer_records[i].called_at <= t}
             B == {i \in ConsumerWrites : consumer_records[i].completed_at <= t}
  <1>1. A \subseteq 1 .. n /\ B \subseteq 1 .. m
    OBVIOUS
  <1>2. Cardinality(A) \in 0 .. n /\ Cardinality(B) \in 0 .. m
    BY <1>1, FiniteCardinality
  <1>3. OutstandingAt(t) = Cardinality(A) - Cardinality(B)
    BY DEF OutstandingAt
  <1> HIDE DEF A, B
  <1>4. QED
    BY <1>2, <1>3

\* The timeline reaches the peak at the call at which the peak was seen.
LEMMA PeakReached ==
    ASSUME AnalysisInv, Healthy, settled, peak > 0
    PROVE  \E p \in ProducerWrites : OutstandingAt(producer_records[p].called_at) >= peak
  <1> DEFINE m == Len(consumer_records)
  <1>1. /\ NoDrops /\ Enqueued \in Nat /\ ProducerWrites = 1 .. Enqueued
        /\ \A i \in 1 .. Enqueued : producer_records[i].called_at = called_at[i]
    BY HealthyProducer
  <1>2. /\ m \in Nat /\ ConsumerWrites = 1 .. m /\ m <= Len(consumer_log)
        /\ \A i \in 1 .. m : OneConsumer(i) /\ consumer_records[i] = consumer_log[i]
    BY HealthyConsumer
  <1> HIDE DEF m
  <1>3. PICK p \in 1 .. Enqueued, k \in 0 .. Enqueued : SeenAt(peak, p, k)
    BY <1>1 DEF AnalysisInv, PeakSeen, SeenAt
  <1> DEFINE A == {i \in ProducerWrites : producer_records[i].called_at <= called_at[p]}
             B == {i \in ConsumerWrites : consumer_records[i].completed_at <= called_at[p]}
  <1>4. 1 .. p \subseteq A /\ A \subseteq 1 .. Enqueued
    <2>1. called_at \in Seq(Nat) /\ \A i \in 1 .. Enqueued : called_at[i] \in Nat
      BY DEF AnalysisInv, AnalysisTypes, RunTypes, Enqueued
    <2>2. ASSUME NEW i \in 1 .. p
          PROVE  i \in 1 .. Enqueued /\ called_at[i] <= called_at[p]
      <3>1. i \in 1 .. Enqueued /\ (i = p \/ i < p)
        BY <1>1
      <3>2. i < p => called_at[i] < called_at[p]
        BY <3>1 DEF AnalysisInv, Calls
      <3>3. QED
        BY <2>1, <3>1, <3>2
    <2>3. QED
      BY <1>1, <2>2
  <1>5. B \subseteq 1 .. k
    <2> SUFFICES ASSUME NEW i \in 1 .. m, consumer_records[i].completed_at <= called_at[p]
                 PROVE  i \in 1 .. k
      BY <1>2
    <2>1. DOMAIN consumer_log = 1 .. Len(consumer_log) /\ Len(consumer_log) \in Nat
      BY LogDomain DEF AnalysisInv, AnalysisTypes, LogTypes
    <2>2. i \in DOMAIN consumer_log
      BY <1>2, <2>1
    <2>3. i <= k
      BY <1>2, <1>3, <2>2 DEF SeenAt
    <2>4. QED
      BY <1>1, <2>3
  <1>6. Cardinality(A) >= p
    <2>1. IsFiniteSet(A) /\ p \in Nat
      BY <1>1, <1>4, FiniteCardinality
    <2>2. Cardinality(1 .. p) <= Cardinality(A)
      BY <1>4, <2>1, FS_Subset
    <2>3. Cardinality(1 .. p) = p
      BY <1>1, FS_Interval
    <2>4. Cardinality(A) \in Nat
      BY <2>1, FS_CardinalityType
    <2> HIDE DEF A
    <2>5. QED
      BY <2>2, <2>3, <2>4
  <1>7. Cardinality(B) \in 0 .. k /\ Cardinality(A) \in Nat
    <2>1. k \in Nat
      BY <1>1
    <2>2. QED
      BY <1>1, <1>4, <1>5, <2>1, FiniteCardinality
  <1>8. OutstandingAt(called_at[p]) = Cardinality(A) - Cardinality(B)
    BY DEF OutstandingAt
  <1>9. peak <= p - k /\ peak \in Nat
    BY <1>3 DEF SeenAt, AnalysisInv, AnalysisTypes, AnalyzerTypes
  <1> HIDE DEF A, B
  <1>10. OutstandingAt(called_at[p]) >= peak
    BY <1>1, <1>6, <1>7, <1>8, <1>9
  <1>11. QED
    BY <1>1, <1>10

LEMMA PeakReported == AnalysisInv => NotUnderestimated
  <1> SUFFICES ASSUME AnalysisInv, Healthy, settled
               PROVE  MaximumUnacknowledged >= peak
    BY DEF NotUnderestimated
  <1> DEFINE Sums == {OutstandingAt(producer_records[i].called_at) : i \in ProducerWrites}
  <1>1. /\ Enqueued \in Nat /\ ProducerWrites = 1 .. Enqueued
        /\ Len(consumer_records) \in Nat /\ ConsumerWrites = 1 .. Len(consumer_records)
    BY HealthyProducer, HealthyConsumer
  <1>2. \A x \in {0} \cup Sums : x \in Int /\ x <= Enqueued
    BY <1>1, OutstandingBounded
  <1>3. MaximumUnacknowledged = Max({0} \cup Sums)
    BY DEF MaximumUnacknowledged
  <1>4. peak > 0 => \E x \in Sums : x >= peak
    BY PeakReached
  <1>5. peak \in Nat
    BY DEF AnalysisInv, AnalysisTypes, AnalyzerTypes
  <1> HIDE DEF Sums
  <1>6. /\ MaximumUnacknowledged \in {0} \cup Sums
        /\ \A x \in {0} \cup Sums : MaximumUnacknowledged >= x
    <2>1. {0} \cup Sums \subseteq Int /\ {0} \cup Sums # {}
      BY <1>2
    <2>2. Enqueued \in Int /\ \A x \in {0} \cup Sums : x <= Enqueued
      BY <1>1, <1>2
    <2>3. QED
      BY <1>3, <2>1, <2>2, MaxBounds
  <1>7. MaximumUnacknowledged \in Int /\ MaximumUnacknowledged >= 0
    BY <1>2, <1>6
  <1>8. CASE peak > 0
    <2>1. PICK x \in Sums : x >= peak
      BY <1>4, <1>8
    <2>2. x \in Int /\ MaximumUnacknowledged >= x
      BY <1>2, <1>6
    <2>3. QED
      BY <1>5, <1>7, <2>1, <2>2
  <1>9. QED
    BY <1>5, <1>7, <1>8

\* render_report calls an experiment healthy only if it was, whatever happened between the
\* two readings of the logs, for every length of the run, capacity of the queue and number
\* of faults: the consumer stored the snapshots it counts once and in order, and the
\* latency of each step is the one of that snapshot.
THEOREM HealthyReportsAreTrue == AnalysisSpec => []HealthyIsTrue
  <1>1. QED
    BY AnalysisInvariant, HealthyReport, PTL

\* The largest number of unacknowledged snapshots that summarize finds in the logs of a
\* healthy experiment is at least what there was in the queue and on its way.
THEOREM QueueNotUnderestimated == AnalysisSpec => []NotUnderestimated
  <1>1. QED
    BY AnalysisInvariant, PeakReported, PTL
===============================================================================
