------------------------ MODULE ConsumerLauncherProofs ------------------------
(***************************************************************************)
(* Proofs about ConsumerLauncher, for any number of launches, of launches  *)
(* that are given up and of ports.                                         *)
(*                                                                         *)
(* What has to be counted is Orphans: the scripts that were given up       *)
(* before they recorded a consumer, and the consumers that run although    *)
(* pid_file names another one.  There are never more of them than launches *)
(* given up.  That is inductive with what it means for the script the      *)
(* producer waits for when pid_file changes under it: then there is one    *)
(* orphan less than that.  With no launch given up nothing is orphaned,    *)
(* and the properties of a serial producer follow.                         *)
(***************************************************************************)
EXTENDS ConsumerLauncher, FiniteSetTheorems, TLAPS

Ids == 0 .. MaxLaunches

Unrecorded == {"begun", "stopping", "removing", "starting", "recording"}
Working == Unrecorded \cup {"polling", "printing"}
ScriptStates == Working \cup {"none", "failed", "replied"}
ConsumerStates == {"none", "starting", "bound", "listening", "serving", "storing",
                   "comparing", "unlinking", "ended"}

Types ==
    /\ pc \in {"ready", "waiting", "connected", "closed"}
    /\ launched \in Ids /\ peer \in Ids
    /\ pc \in {"waiting", "connected"} => launched # 0
    /\ script \in [Launches -> ScriptStates]
    /\ old_pid \in [Launches -> Ids] /\ reply \in [Launches -> Ids]
    /\ pid_file \in Ids /\ connection_file \in Ids
    /\ consumer \in [Launches -> ConsumerStates]
    /\ size \in [Launches -> Nat] /\ lost \in Nat

\* The script the producer waits for.
Current(n) == pc = "waiting" /\ n = launched

Orphans == {n \in Launches :
    IF script[n] \in Unrecorded THEN ~Current(n) ELSE Running(n) /\ n # pid_file}

\* A launch has a script once it was begun and a consumer once that was started.
Began == \A n \in Launches :
    /\ n > launched <=> script[n] = "none"
    /\ consumer[n] = "none" <=> script[n] \in {"none", "begun", "stopping", "removing",
                                               "starting"}

\* The consumers that are named have been recorded.
Recorded(i) == i # 0 => script[i] \notin Unrecorded \cup {"none"}
Names == Recorded(pid_file) /\ \A n \in Launches : Recorded(old_pid[n])

OldStopped == \A n \in Launches :
    script[n] \in {"removing", "starting", "recording"} /\ old_pid[n] # 0
       => ~Running(old_pid[n])

Producer ==
    /\ pc = "connected" => script[launched] = "replied" /\ peer = reply[launched]
    /\ pc # "connected" => peer = 0

\* The script the producer waits for was overtaken by one it had given up.
Overtaken(n) ==
    Current(n) /\ script[n] \in Unrecorded \ {"begun"} /\ pid_file # old_pid[n]

Counted ==
    /\ Cardinality(Orphans) <= lost
    /\ \A n \in Launches : Overtaken(n) => Cardinality(Orphans \ {old_pid[n]}) < lost

Alone == Serial =>
    /\ \A n \in Launches : script[n] \in Working => Current(n)
    /\ launched # 0 /\ script[launched] \notin Unrecorded => pid_file = launched

\* The connection file is one that the script at work lets appear.
OwnFile == Serial => \A n \in Launches :
    script[n] \in {"starting", "recording", "polling", "printing"}
       => connection_file \in {0, n}

-------------------------------------------------------------------------------
(* Sets of launches are finite.                                            *)

LEMMA BoundsAreNat == MaxLaunches \in Nat /\ Ports \in Nat
  BY BoundAssumption

LEMMA Counting ==
    ASSUME NEW S \in SUBSET Launches
    PROVE  /\ IsFiniteSet(S) /\ Cardinality(S) \in Nat
           /\ \A T \in SUBSET S : Cardinality(T) \in Nat /\ Cardinality(T) <= Cardinality(S)
           /\ \A x \in S : Cardinality(S \ {x}) = Cardinality(S) - 1
           /\ Cardinality(S) = 0 => S = {}
  <1>1. IsFiniteSet(Launches)
    BY BoundsAreNat, FS_Interval DEF Launches
  <1>2. IsFiniteSet(S)
    BY <1>1, FS_Subset
  <1>3. \A T \in SUBSET S : IsFiniteSet(T) /\ Cardinality(T) <= Cardinality(S)
    BY <1>2, FS_Subset
  <1>4. \A T \in SUBSET S : Cardinality(T) \in Nat
    BY <1>3, FS_CardinalityType
  <1>5. \A x \in S : Cardinality(S \ {x}) = Cardinality(S) - 1
    BY <1>2, FS_RemoveElement
  <1>6. Cardinality(S) = 0 => S = {}
    BY <1>2, FS_EmptySet
  <1>7. QED
    BY <1>2, <1>3, <1>4, <1>5, <1>6

\* One more element counts at most one.
LEMMA OneMore ==
    ASSUME NEW S \in SUBSET Launches, NEW T \in SUBSET Launches, NEW x, T \subseteq S \cup {x}
    PROVE  Cardinality(T) \in Nat /\ Cardinality(S) \in Nat
           /\ Cardinality(T) <= Cardinality(S) + 1
  <1>1. IsFiniteSet(S) /\ Cardinality(S) \in Nat /\ Cardinality(T) \in Nat
    BY Counting
  <1>2. /\ IsFiniteSet(S \cup {x})
        /\ Cardinality(S \cup {x}) = IF x \in S THEN Cardinality(S) ELSE Cardinality(S) + 1
    BY <1>1, FS_AddElement
  <1>3. Cardinality(T) <= Cardinality(S \cup {x})
    BY <1>2, FS_Subset
  <1>4. QED
    BY <1>1, <1>2, <1>3

-------------------------------------------------------------------------------
(* Types.                                                                  *)

LEMMA TypeInit == Init => Types
  BY BoundsAreNat DEF Init, Types, Ids, ScriptStates, Working, Unrecorded, ConsumerStates

\* A step of script n, and one of consumer n.
LEMMA Going ==
    ASSUME Types, NEW n \in Launches, NEW from, NEW to, Goes(n, from, to)
    PROVE  /\ script[n] = from /\ script'[n] = to
           /\ \A k \in Launches : k # n => script'[k] = script[k]
           /\ to \in ScriptStates => script' \in [Launches -> ScriptStates]
  BY DEF Types, Goes

LEMMA Moving ==
    ASSUME Types, NEW n \in Launches, NEW from, NEW to, Moves(n, from, to)
    PROVE  /\ consumer[n] = from /\ consumer'[n] = to
           /\ \A k \in Launches : k # n => consumer'[k] = consumer[k]
           /\ to \in ConsumerStates => consumer' \in [Launches -> ConsumerStates]
  BY DEF Types, Moves

LEMMA TypeStep == ASSUME Types, [Next]_vars PROVE Types'
  <1> USE DEF producerVars, scriptVars, fileVars, consumerVars, boundVars
  <1>a. Ids = 0 .. MaxLaunches /\ 0 \in Ids /\ Launches \subseteq Ids /\ Types
    BY BoundsAreNat DEF Ids, Launches
  <1>b. ScriptStates = {"begun", "stopping", "removing", "starting", "recording", "polling",
                        "printing", "none", "failed", "replied"}
    BY DEF ScriptStates, Working, Unrecorded
  <1>1. CASE Launch
    <2>1. launched' \in Ids /\ launched' \in Launches /\ launched' # 0
      BY <1>1, <1>a, BoundsAreNat DEF Types, Launch, Launches
    <2>2. script' \in [Launches -> ScriptStates]
      BY <1>1, <1>b DEF Types, Launch
    <2>3. QED
      BY <1>1, <2>1, <2>2 DEF Types, Launch
  <1>2. CASE LaunchLost \/ LaunchFails \/ Disconnect \/ Close
    BY <1>2, <1>a DEF Types, LaunchLost, LaunchFails, Disconnect, Close
  <1>3. CASE Connect \/ ConnectFails
    <2>1. CASE Connect
      <3>1. launched \in Launches
        BY <2>1, <1>a DEF Types, Connect, Launches
      <3>2. consumer' \in [Launches -> ConsumerStates]
        BY <2>1 DEF Types, Connect, ConsumerStates
      <3>3. QED
        BY <2>1, <3>1, <3>2 DEF Types, Connect
    <2>2. CASE ConnectFails
      <3>1. consumer' \in [Launches -> ConsumerStates]
        BY <2>2 DEF Types, ConnectFails, ConsumerStates
      <3>2. QED
        BY <2>2, <3>1 DEF Types, ConnectFails
    <2>3. QED
      BY <1>3, <2>1, <2>2
  <1>4. ASSUME NEW n \in Launches, ReadOldPid(n) PROVE Types'
    BY <1>4, <1>a, <1>b, Going DEF Types, ReadOldPid
  <1>5. ASSUME NEW n \in Launches, RemoveConnectionFile(n) PROVE Types'
    BY <1>5, <1>a, <1>b, Going DEF Types, RemoveConnectionFile, Removed
  <1>6. ASSUME NEW n \in Launches, RecordPid(n) PROVE Types'
    BY <1>6, <1>a, <1>b, Going DEF Types, RecordPid
  <1>7. ASSUME NEW n \in Launches, NEW k \in Launches, NEW x \in ConsumerStates
        PROVE  [consumer EXCEPT ![k] = x] \in [Launches -> ConsumerStates]
    BY <1>a DEF Types
  <1>8. "ended" \in ConsumerStates /\ "starting" \in ConsumerStates
    BY DEF ConsumerStates
  <1>9. ASSUME NEW n \in Launches, StopOld(n) PROVE Types'
    <2>1. script' \in [Launches -> ScriptStates]
      BY <1>9, <1>a, <1>b, Going DEF StopOld
    <2>2. consumer' \in [Launches -> ConsumerStates]
      <3>1. Stoppable(n) => old_pid[n] \in Launches
        BY <1>a DEF Stoppable, Types, Ids, Launches
      <3>2. QED
        BY <1>7, <1>8, <1>9, <1>a, <3>1 DEF StopOld, Stopped, Types
    <2>3. QED
      BY <1>9, <1>a, <2>1, <2>2 DEF StopOld, Types
  <1>10. ASSUME NEW n \in Launches, StartConsumer(n) PROVE Types'
    <2>1. script' \in [Launches -> ScriptStates]
      BY <1>10, <1>a, <1>b, Going DEF StartConsumer
    <2>2. QED
      BY <1>7, <1>8, <1>10, <1>a, <2>1 DEF StartConsumer, Types
  <1>11. ASSUME NEW n \in Launches, PollGivesUp(n) PROVE Types'
    <2>1. script' \in [Launches -> ScriptStates]
      BY <1>11, <1>a, <1>b, Going DEF PollGivesUp
    <2>2. QED
      BY <1>7, <1>8, <1>11, <1>a, <2>1 DEF PollGivesUp, Stopped, Types
  <1>12. ASSUME NEW n \in Launches, PollFindsFile(n) \/ PollSeesExit(n) PROVE Types'
    BY <1>12, <1>a, <1>b, Going DEF Types, PollFindsFile, PollSeesExit
  <1>13. ASSUME NEW n \in Launches, PrintFile(n) PROVE Types'
    <2>1. script' \in [Launches -> ScriptStates]
      BY <1>13, <1>a, <1>b, Going DEF PrintFile
    <2>2. QED
      BY <1>13, <1>a, <2>1 DEF Types, PrintFile
  <1>14. ASSUME NEW n \in Launches, NEW from, NEW to \in ConsumerStates, Moves(n, from, to)
         PROVE  consumer' \in [Launches -> ConsumerStates]
    BY <1>14, <1>a, Moving
  <1>15. {"starting", "bound", "listening", "serving", "storing", "comparing", "unlinking",
          "ended"} \subseteq ConsumerStates
    BY DEF ConsumerStates
  <1>16. ASSUME NEW n \in Launches,
                ConsumerStep(n) \/ ReceiveSnapshot(n) \/ ConsumerRaises(n)
         PROVE  Types'
    <2>1. consumer' \in [Launches -> ConsumerStates]
      BY <1>14, <1>15, <1>16
         DEF ConsumerStep, CreateListener, WriteConnectionFile, StoreSnapshot, ConnectionEnds,
             CompareFile, UnlinkFile, ReceiveSnapshot, ConsumerRaises
    <2>2. connection_file' \in Ids
      BY <1>16, <1>a
         DEF Types, ConsumerStep, CreateListener, WriteConnectionFile, StoreSnapshot,
             ConnectionEnds, CompareFile, UnlinkFile, ReceiveSnapshot, ConsumerRaises
    <2>3. size' \in [Launches -> Nat]
      BY <1>16, <1>a
         DEF Types, ConsumerStep, CreateListener, WriteConnectionFile, StoreSnapshot,
             ConnectionEnds, CompareFile, UnlinkFile, ReceiveSnapshot, ConsumerRaises
    <2>4. UNCHANGED <<pc, launched, peer, script, old_pid, reply, pid_file, lost>>
      BY <1>16
         DEF ConsumerStep, CreateListener, WriteConnectionFile, StoreSnapshot,
             ConnectionEnds, CompareFile, UnlinkFile, ReceiveSnapshot, ConsumerRaises
    <2>5. QED
      BY <1>a, <2>1, <2>2, <2>3, <2>4 DEF Types
  <1>17. CASE UNCHANGED vars
    BY <1>17 DEF vars, Types
  <1>18. QED
    BY <1>1, <1>2, <1>3, <1>4, <1>5, <1>6, <1>9, <1>10, <1>11, <1>12, <1>13, <1>16, <1>17
       DEF Next, ProducerStep, ScriptStep, Done

-------------------------------------------------------------------------------
(* What the steps have in common: a consumer runs only after StartConsumer. *)

OnlyEnds == \A k \in Launches : /\ Running(k)' => Running(k)
                                /\ consumer'[k] = "none" <=> consumer[k] = "none"

ScriptsRest == UNCHANGED <<launched, script, old_pid, reply, pid_file, lost>> /\ OnlyEnds

LEMMA ProducerRests ==
    ASSUME Types, LaunchFails \/ Connect \/ ConnectFails \/ Disconnect \/ Close
    PROVE  ScriptsRest
  <1> USE DEF producerVars, scriptVars, fileVars, consumerVars, boundVars
  <1>1. CASE LaunchFails \/ Disconnect \/ Close
    BY <1>1 DEF LaunchFails, Disconnect, Close, ScriptsRest, OnlyEnds, Running
  <1>2. CASE Connect \/ ConnectFails
    BY <1>2 DEF Connect, ConnectFails, ScriptsRest, OnlyEnds, Running, Types
  <1>3. QED
    BY <1>1, <1>2

LEMMA ConsumerRests ==
    ASSUME Types, NEW n \in Launches,
           ConsumerStep(n) \/ ReceiveSnapshot(n) \/ ConsumerRaises(n)
    PROVE  ScriptsRest /\ UNCHANGED <<pc, peer>>
  <1> USE DEF producerVars, scriptVars, fileVars, consumerVars, boundVars
  <1>1. UNCHANGED <<pc, launched, peer, script, old_pid, reply, pid_file, lost>>
    BY DEF ConsumerStep, CreateListener, WriteConnectionFile, StoreSnapshot,
           ConnectionEnds, CompareFile, UnlinkFile, ReceiveSnapshot, ConsumerRaises
  <1>2. ASSUME NEW from \in ConsumerStates \ {"none", "ended"},
               NEW to \in ConsumerStates \ {"none"}, Moves(n, from, to)
        PROVE  OnlyEnds
    BY <1>2, Moving DEF OnlyEnds, Running
  <1>3. {"starting", "bound", "listening", "serving", "storing", "comparing", "unlinking"}
           \subseteq ConsumerStates \ {"none", "ended"}
        /\ "ended" \in ConsumerStates \ {"none"}
    BY DEF ConsumerStates
  <1>4. OnlyEnds
    BY <1>2, <1>3
       DEF ConsumerStep, CreateListener, WriteConnectionFile, StoreSnapshot,
           ConnectionEnds, CompareFile, UnlinkFile, ReceiveSnapshot, ConsumerRaises
  <1>5. QED
    BY <1>1, <1>4 DEF ScriptsRest

\* The steps of script n other than StartConsumer start nothing either.
LEMMA ScriptEnds ==
    ASSUME Types, NEW n \in Launches, ScriptStep(n)
    PROVE  /\ StartConsumer(n) \/ OnlyEnds
           /\ UNCHANGED <<pc, launched, peer, lost>>
  <1> USE DEF producerVars, scriptVars, fileVars, consumerVars, boundVars
  <1>1. UNCHANGED <<pc, launched, peer, lost>>
    BY DEF ScriptStep, ReadOldPid, StopOld, RemoveConnectionFile, StartConsumer,
           RecordPid, PollFindsFile, PrintFile, PollSeesExit, PollGivesUp
  <1>2. \/ StartConsumer(n) \/ UNCHANGED consumer
        \/ StopOld(n) \/ PollGivesUp(n)
    BY DEF ScriptStep, ReadOldPid, RemoveConnectionFile, RecordPid, PollFindsFile,
           PrintFile, PollSeesExit
  <1>3. CASE UNCHANGED consumer
    BY <1>1, <1>3 DEF OnlyEnds, Running
  <1>4. CASE StopOld(n)
    <2>1. Stoppable(n) => old_pid[n] \in Launches /\ Running(old_pid[n])
      BY BoundsAreNat DEF Stoppable, Types, Ids, Launches
    <2>2. consumer' = IF Stoppable(n) THEN Stopped(old_pid[n]) ELSE consumer
      BY <1>4 DEF StopOld
    <2>3. OnlyEnds
      BY <2>1, <2>2 DEF OnlyEnds, Running, Stopped, Types
    <2>4. QED
      BY <1>1, <2>3
  <1>5. CASE PollGivesUp(n)
    <2>1. OnlyEnds
      BY <1>5 DEF PollGivesUp, Stopped, OnlyEnds, Running, Types
    <2>2. QED
      BY <1>1, <2>1
  <1>6. QED
    BY <1>1, <1>2, <1>3, <1>4, <1>5

-------------------------------------------------------------------------------
(* Began and Names.                                                        *)

LEMMA BeganStep == ASSUME Types, Began, [Next]_vars PROVE Began'
  <1> USE DEF producerVars, scriptVars, fileVars, consumerVars, boundVars
  <1>1. ASSUME ScriptsRest PROVE Began'
    BY <1>1 DEF ScriptsRest, OnlyEnds, Began
  <1>2. CASE Launch
    <2>1. launched + 1 \in Launches /\ launched \in Nat
      BY <1>2, BoundsAreNat DEF Launch, Types, Ids, Launches
    <2>2. \A n \in Launches : script'[n] = IF n = launched + 1 THEN "begun" ELSE script[n]
      BY <1>2, <2>1 DEF Launch, Types
    <2>3. \A n \in Launches : n > launched' <=> n > launched /\ n # launched + 1
      BY <1>2, <2>1 DEF Launch, Launches
    <2>4. consumer' = consumer /\ launched + 1 > launched
      BY <1>2, <2>1 DEF Launch
    <2>5. QED
      BY <2>1, <2>2, <2>3, <2>4 DEF Began
  <1>3. CASE LaunchLost
    BY <1>3 DEF LaunchLost, Began
  <1>4. ASSUME NEW n \in Launches, ScriptStep(n) PROVE Began'
    <2> DEFINE Early == {"none", "begun", "stopping", "removing", "starting"}
    <2>1. ASSUME NEW from, NEW to, Goes(n, from, to), from # "none", to # "none",
                 from \in Early <=> to \in Early, launched' = launched, OnlyEnds
          PROVE  Began'
      BY <2>1, Going DEF Began, OnlyEnds
    <2>2. CASE StartConsumer(n)
      <3>1. /\ script[n] = "starting" /\ script'[n] = "recording"
            /\ \A k \in Launches : k # n => script'[k] = script[k]
        BY <2>2, Going DEF StartConsumer
      <3>2. /\ consumer'[n] = "starting" /\ launched' = launched
            /\ \A k \in Launches : k # n => consumer'[k] = consumer[k]
        BY <2>2 DEF StartConsumer, Types
      <3>3. QED
        BY <3>1, <3>2 DEF Began
    <2>3. CASE OnlyEnds
      <3>1. launched' = launched
        BY <1>4, ScriptEnds
      <3>2. CASE StopOld(n) \/ ReadOldPid(n) \/ RemoveConnectionFile(n)
        BY <2>1, <2>3, <3>1, <3>2 DEF StopOld, ReadOldPid, RemoveConnectionFile
      <3>3. CASE RecordPid(n) \/ PollFindsFile(n) \/ PollSeesExit(n) \/ PollGivesUp(n)
        BY <2>1, <2>3, <3>1, <3>3 DEF RecordPid, PollFindsFile, PollSeesExit, PollGivesUp
      <3>4. CASE PrintFile(n)
        BY <2>1, <2>3, <3>1, <3>4 DEF PrintFile
      <3>5. QED
        BY <1>4, <2>2, <3>2, <3>3, <3>4 DEF ScriptStep
    <2>4. QED
      BY <1>4, <2>2, <2>3, ScriptEnds
  <1>5. CASE UNCHANGED vars
    BY <1>5 DEF vars, Began
  <1>6. QED
    BY <1>1, <1>2, <1>3, <1>4, <1>5, ProducerRests, ConsumerRests
       DEF Next, ProducerStep, Done


\* A script that has recorded its consumer does not go back.
LEMMA RecordedStays ==
    ASSUME Types, Began, [Next]_vars, NEW i \in Ids, Recorded(i)
    PROVE  Recorded(i)'
  <1> USE DEF producerVars, scriptVars, fileVars, consumerVars, boundVars
  <1> DEFINE Early == {"none", "begun", "stopping", "removing", "starting", "recording"}
  <1>a. Unrecorded \cup {"none"} = Early
    BY DEF Unrecorded
  <1>1. CASE script' = script
    BY <1>1 DEF Recorded
  <1>2. CASE Launch
    <2>1. launched + 1 \in Launches /\ launched + 1 > launched
      BY <1>2, BoundsAreNat DEF Launch, Types, Ids, Launches
    <2>2. script[launched + 1] = "none"
      BY <2>1 DEF Began
    <2>3. i # 0 => i \in Launches
      BY BoundsAreNat DEF Ids, Launches
    <2>4. QED
      BY <1>2, <1>a, <2>1, <2>2, <2>3 DEF Launch, Types, Recorded
  <1>3. ASSUME NEW n \in Launches, ScriptStep(n) PROVE Recorded(i)'
    <2>1. i # 0 => i \in Launches
      BY BoundsAreNat DEF Ids, Launches
    <2>2. ASSUME NEW from, NEW to, Goes(n, from, to), to \in Early => from \in Early
          PROVE  Recorded(i)'
      BY <1>a, <2>1, <2>2, Going DEF Recorded
    <2>3. QED
      BY <1>3, <2>2
         DEF ScriptStep, StopOld, ReadOldPid, RemoveConnectionFile, StartConsumer,
             RecordPid, PollFindsFile, PollSeesExit, PollGivesUp, PrintFile
  <1>4. CASE LaunchLost
    BY <1>1, <1>4 DEF LaunchLost
  <1>5. QED
    BY <1>1, <1>2, <1>3, <1>4, ProducerRests, ConsumerRests
       DEF Next, ProducerStep, Done, vars, ScriptsRest

\* The file and the number read from it name a recorded consumer; what they change to.
LEMMA NamesMove ==
    ASSUME Types, [Next]_vars
    PROVE  /\ UNCHANGED pid_file \/ \E n \in Launches : RecordPid(n)
           /\ UNCHANGED old_pid \/ \E n \in Launches : ReadOldPid(n)
           /\ UNCHANGED lost \/ LaunchLost
  <1> USE DEF producerVars, scriptVars, fileVars, consumerVars, boundVars
  <1>1. ASSUME NEW n \in Launches, ScriptStep(n)
        PROVE  /\ UNCHANGED pid_file \/ RecordPid(n)
               /\ UNCHANGED old_pid \/ ReadOldPid(n)
    BY <1>1 DEF ScriptStep, StopOld, ReadOldPid, RemoveConnectionFile, StartConsumer,
                RecordPid, PollFindsFile, PollSeesExit, PollGivesUp, PrintFile
  <1>2. CASE Launch \/ LaunchLost
    BY <1>2 DEF Launch, LaunchLost
  <1>3. QED
    BY <1>1, <1>2, ProducerRests, ConsumerRests, ScriptEnds
       DEF Next, ProducerStep, Done, vars, ScriptsRest

LEMMA NamesStep == ASSUME Types, Began, Names, [Next]_vars PROVE Names'
  <1> USE DEF producerVars, scriptVars, fileVars, consumerVars, boundVars
  <1>1. Recorded(pid_file)'
    <2>1. CASE UNCHANGED pid_file
      <3>1. pid_file \in Ids /\ Recorded(pid_file)
        BY DEF Types, Names
      <3>2. Recorded(pid_file')
        BY <2>1, <3>1
      <3>3. script[pid_file] \notin Unrecorded \cup {"none"} \/ pid_file = 0
        BY <3>1 DEF Recorded
      <3>4. QED
        BY <2>1, <3>1, RecordedStays DEF Recorded
    <2>2. ASSUME NEW n \in Launches, RecordPid(n) PROVE Recorded(pid_file)'
      <3>1. script'[n] = "polling" /\ pid_file' = n
        BY <2>2, Going DEF RecordPid
      <3>2. QED
        BY <3>1 DEF Recorded, Unrecorded
    <2>3. QED
      BY <2>1, <2>2, NamesMove
  <1>2. ASSUME NEW k \in Launches PROVE Recorded(old_pid[k])'
    <2>1. old_pid[k] \in Ids /\ Recorded(old_pid[k]) /\ pid_file \in Ids /\ Recorded(pid_file)
      BY DEF Types, Names
    <2>2. old_pid'[k] = old_pid[k] \/ old_pid'[k] = pid_file
      BY NamesMove DEF ReadOldPid, Types
    <2>3. ASSUME NEW i \in Ids, Recorded(i), old_pid'[k] = i
          PROVE  Recorded(old_pid[k])'
      BY <2>3, RecordedStays DEF Recorded
    <2>4. QED
      BY <2>1, <2>2, <2>3
  <1>3. QED
    BY <1>1, <1>2 DEF Names

-------------------------------------------------------------------------------
(* OldStopped and Producer.                                                *)

LEMMA OldStoppedStep ==
    ASSUME Types, Began, Names, OldStopped, [Next]_vars PROVE OldStopped'
  <1> USE DEF producerVars, scriptVars, fileVars, consumerVars, boundVars
  <1> DEFINE Late == {"removing", "starting", "recording"}
  <1>1. ASSUME NEW k \in Launches, old_pid[k] # 0
        PROVE  /\ old_pid[k] \in Launches
               /\ script[old_pid[k]] \notin {"starting", "none"}
    BY <1>1, BoundsAreNat DEF Types, Names, Recorded, Unrecorded, Ids, Launches
  \* Nobody starts a consumer that is named.
  <1>2. ASSUME NEW k \in Launches, script[k] \in Late,
               old_pid'[k] = old_pid[k], old_pid[k] # 0
        PROVE  ~Running(old_pid[k])'
    <2>1. ~Running(old_pid[k]) /\ old_pid[k] \in Launches
      BY <1>1, <1>2 DEF OldStopped
    <2>2. OnlyEnds \/ \E n \in Launches : StartConsumer(n)
      <3>1. CASE Launch \/ LaunchLost \/ UNCHANGED vars
        BY <3>1 DEF Launch, LaunchLost, vars, OnlyEnds, Running
      <3>2. QED
        BY <3>1, ProducerRests, ConsumerRests, ScriptEnds
           DEF Next, ProducerStep, Done, ScriptsRest
    <2>3. CASE OnlyEnds
      BY <1>2, <2>1, <2>3 DEF OnlyEnds, Running
    <2>4. ASSUME NEW n \in Launches, StartConsumer(n) PROVE ~Running(old_pid[k])'
      <3>1. old_pid[k] # n
        BY <1>1, <1>2, <2>4, Going DEF StartConsumer
      <3>2. consumer'[old_pid[k]] = consumer[old_pid[k]]
        BY <2>4, <3>1, <2>1 DEF StartConsumer, Types
      <3>3. QED
        BY <1>2, <2>1, <3>2 DEF Running
    <2>5. QED
      BY <2>2, <2>3, <2>4
  <1>3. ASSUME NEW k \in Launches, script'[k] \in Late, old_pid'[k] # 0
        PROVE  ~Running(old_pid[k])'
    <2>1. CASE script[k] \in Late /\ old_pid'[k] = old_pid[k]
      BY <1>2, <1>3, <2>1
    <2>2. CASE StopOld(k)
      <3>1. old_pid' = old_pid /\ old_pid[k] # 0 /\ old_pid[k] \in Launches
        BY <1>1, <1>3, <2>2 DEF StopOld
      <3>2. consumer' = IF Stoppable(k) THEN Stopped(old_pid[k]) ELSE consumer
        BY <2>2 DEF StopOld
      <3>3. Stoppable(k) <=> Running(old_pid[k])
        BY <3>1 DEF Stoppable
      <3>4. QED
        BY <3>1, <3>2, <3>3 DEF Running, Stopped, Types
    <2>3. StopOld(k) \/ (script[k] \in Late /\ old_pid'[k] = old_pid[k])
      <3>1. CASE script' = script /\ old_pid' = old_pid
        BY <1>3, <3>1
      <3>2. CASE Launch
        BY <1>3, <3>2 DEF Launch, Types
      <3>3. ASSUME NEW n \in Launches, ScriptStep(n)
            PROVE  StopOld(k) \/ (script[k] \in Late /\ old_pid'[k] = old_pid[k])
        <4>1. ReadOldPid(n) => n # k
          BY <1>3, Going DEF ReadOldPid
        <4>2. old_pid'[k] = old_pid[k]
          BY <3>3, <4>1, NamesMove
             DEF ReadOldPid, ScriptStep, StopOld, RemoveConnectionFile, StartConsumer,
                 RecordPid, PollFindsFile, PollSeesExit, PollGivesUp, PrintFile, Types
        <4>3. CASE n # k
          BY <1>3, <3>3, <4>2, <4>3, Going
             DEF ReadOldPid, ScriptStep, StopOld, RemoveConnectionFile, StartConsumer,
                 RecordPid, PollFindsFile, PollSeesExit, PollGivesUp, PrintFile
        <4>4. CASE n = k
          BY <1>3, <3>3, <4>2, <4>4, Going
             DEF ReadOldPid, ScriptStep, StopOld, RemoveConnectionFile, StartConsumer,
                 RecordPid, PollFindsFile, PollSeesExit, PollGivesUp, PrintFile
        <4>5. QED
          BY <4>3, <4>4
      <3>4. CASE LaunchLost
        BY <3>1, <3>4 DEF LaunchLost
      <3>5. QED
        BY <3>1, <3>2, <3>3, <3>4, ProducerRests, ConsumerRests
           DEF Next, ProducerStep, Done, vars, ScriptsRest
    <2>4. QED
      BY <2>1, <2>2, <2>3
  <1>4. QED
    BY <1>3 DEF OldStopped

LEMMA ProducerInvStep == ASSUME Types, Producer, [Next]_vars PROVE Producer'
  <1> USE DEF producerVars, scriptVars, fileVars, consumerVars, boundVars
  <1>1. CASE Launch \/ LaunchLost \/ LaunchFails \/ ConnectFails \/ Disconnect \/ Close
    BY <1>1 DEF Launch, LaunchLost, LaunchFails, ConnectFails, Disconnect, Close, Producer
  <1>2. CASE Connect
    BY <1>2 DEF Connect, Producer
  <1>3. ASSUME NEW n \in Launches, ScriptStep(n) PROVE Producer'
    <2>1. pc' = pc /\ launched' = launched /\ peer' = peer
      BY <1>3, ScriptEnds
    <2>2. script[n] # "replied"
      BY <1>3, Going
         DEF ReadOldPid, ScriptStep, StopOld, RemoveConnectionFile, StartConsumer,
             RecordPid, PollFindsFile, PollSeesExit, PollGivesUp, PrintFile
    <2>3. \A k \in Launches : k # n => script'[k] = script[k] /\ reply'[k] = reply[k]
      BY <1>3, Going
         DEF ReadOldPid, ScriptStep, StopOld, RemoveConnectionFile, StartConsumer,
             RecordPid, PollFindsFile, PollSeesExit, PollGivesUp, PrintFile, Types
    <2>4. pc = "connected" => launched \in Launches
      BY BoundsAreNat DEF Types, Ids, Launches
    <2>5. QED
      BY <2>1, <2>2, <2>3, <2>4 DEF Producer
  <1>4. CASE UNCHANGED vars
    BY <1>4 DEF vars, Producer
  <1>5. ASSUME NEW n \in Launches,
               ConsumerStep(n) \/ ReceiveSnapshot(n) \/ ConsumerRaises(n)
        PROVE  Producer'
    BY <1>5, ConsumerRests DEF ScriptsRest, Producer
  <1>6. QED
    BY <1>1, <1>2, <1>3, <1>4, <1>5 DEF Next, ProducerStep, Done

-------------------------------------------------------------------------------
(* Counted.                                                                *)

LEMMA OrphansType == Orphans \in SUBSET Launches
  BY DEF Orphans

\* A step that orphans nothing, and after which the script the producer waits for is not
\* newly overtaken.
LEMMA OrphansShrink ==
    ASSUME Types, Types', Counted, Orphans' \subseteq Orphans, lost' = lost,
           \A n \in Launches : Overtaken(n)' => Overtaken(n) /\ old_pid'[n] = old_pid[n]
    PROVE  Counted'
  <1>1. Cardinality(Orphans') <= lost'
    <2>1. /\ Cardinality(Orphans') \in Nat /\ Cardinality(Orphans) \in Nat
          /\ Cardinality(Orphans') <= Cardinality(Orphans)
      BY OrphansType, Counting
    <2>2. QED
      BY <2>1 DEF Counted, Types
  <1>2. ASSUME NEW n \in Launches, Overtaken(n)'
        PROVE  Cardinality(Orphans' \ {old_pid'[n]}) < lost'
    <2>1. Cardinality(Orphans \ {old_pid[n]}) < lost /\ old_pid'[n] = old_pid[n]
      BY <1>2 DEF Counted
    <2>2. /\ Orphans \ {old_pid[n]} \in SUBSET Launches
          /\ Orphans' \ {old_pid[n]} \in SUBSET (Orphans \ {old_pid[n]})
      BY OrphansType
    <2>3. /\ Cardinality(Orphans' \ {old_pid[n]}) \in Nat
          /\ Cardinality(Orphans \ {old_pid[n]}) \in Nat
          /\ Cardinality(Orphans' \ {old_pid[n]}) <= Cardinality(Orphans \ {old_pid[n]})
      BY <2>2, Counting
    <2>4. QED
      BY <2>1, <2>3 DEF Types
  <1>3. QED
    BY <1>1, <1>2 DEF Counted

\* The steps in which nothing is recorded and no launch is given up.
LEMMA NothingOrphaned ==
    ASSUME Types, Types', Began, Names, Producer, Counted, [Next]_vars,
           ~LaunchLost, \A n \in Launches : ~RecordPid(n)
    PROVE  Counted'
  <1> USE DEF producerVars, scriptVars, fileVars, consumerVars, boundVars
  <1>1. pid_file' = pid_file /\ lost' = lost
    BY NamesMove
  <1>2. ASSUME ScriptsRest, pc = "waiting" => pc' = "waiting" \/ script[launched] \notin Unrecorded,
               pc' = "waiting" => pc = "waiting"
        PROVE  Counted'
    <2>1. \A n \in Launches : Overtaken(n)' => Overtaken(n) /\ old_pid'[n] = old_pid[n]
      BY <1>1, <1>2 DEF Overtaken, Current, ScriptsRest
    <2>2. Orphans' \subseteq Orphans
      BY <1>1, <1>2 DEF Orphans, Current, ScriptsRest, OnlyEnds
    <2>3. QED
      BY <1>1, <2>1, <2>2, OrphansShrink
  <1>3. CASE LaunchFails \/ Connect \/ ConnectFails \/ Disconnect \/ Close
    <2>1. ScriptsRest
      BY <1>3, ProducerRests
    <2>2. /\ pc = "waiting" => pc' = "waiting" \/ script[launched] \notin Unrecorded
          /\ pc' = "waiting" => pc = "waiting"
      BY <1>3 DEF LaunchFails, Connect, ConnectFails, Disconnect, Close, Unrecorded
    <2>3. QED
      BY <1>2, <2>1, <2>2
  <1>4. ASSUME NEW n \in Launches,
               ConsumerStep(n) \/ ReceiveSnapshot(n) \/ ConsumerRaises(n)
        PROVE  Counted'
    BY <1>2, <1>4, ConsumerRests
  <1>5. CASE UNCHANGED vars
    BY <1>2, <1>5 DEF vars, ScriptsRest, OnlyEnds, Running
  <1>6. CASE Launch
    <2>1. launched' = launched + 1 /\ launched + 1 \in Launches /\ launched \in Nat
      BY <1>6, BoundsAreNat DEF Launch, Types, Ids, Launches
    <2>2. \A k \in Launches : script'[k] = IF k = launched + 1 THEN "begun" ELSE script[k]
      BY <1>6, <2>1 DEF Launch, Types
    <2>3. pc = "ready" /\ pc' = "waiting" /\ consumer' = consumer
      BY <1>6 DEF Launch
    <2>4. \A k \in Launches : ~Overtaken(k)'
      BY <2>1, <2>2, <2>3 DEF Overtaken, Current
    <2>5. Orphans' \subseteq Orphans
      <3>1. ASSUME NEW k \in Orphans' PROVE k \in Orphans
        <4>1. k \in Launches /\ k # launched + 1
          BY <2>1, <2>2, <2>3, <3>1 DEF Orphans, Current, Unrecorded
        <4>2. script'[k] = script[k] /\ Running(k)' = Running(k)
          BY <4>1, <2>2, <2>3 DEF Running
        <4>3. ~Current(k)
          BY <2>3 DEF Current
        <4>4. QED
          BY <1>1, <3>1, <4>1, <4>2, <4>3 DEF Orphans
      <3>2. QED
        BY <3>1
    <2>6. QED
      BY <1>1, <2>4, <2>5, OrphansShrink
  <1>7. ASSUME NEW n \in Launches, ScriptStep(n) PROVE Counted'
    <2>1. /\ pc' = pc /\ launched' = launched
          /\ StartConsumer(n) \/ OnlyEnds
      BY <1>7, ScriptEnds
    <2>2. \A k \in Launches : k # n => script'[k] = script[k] /\ old_pid'[k] = old_pid[k]
      BY <1>7, Going
         DEF ReadOldPid, ScriptStep, StopOld, RemoveConnectionFile, StartConsumer,
             RecordPid, PollFindsFile, PollSeesExit, PollGivesUp, PrintFile, Types
    <2>3. script'[n] \in Unrecorded <=> script[n] \in Unrecorded
      BY <1>7, Going
         DEF ReadOldPid, ScriptStep, StopOld, RemoveConnectionFile, StartConsumer,
             PollFindsFile, PollSeesExit, PollGivesUp, PrintFile, Unrecorded
    <2>4. \/ /\ script[n] = "begun" /\ script'[n] = "stopping" /\ old_pid'[n] = pid_file
          \/ script[n] # "begun" /\ old_pid'[n] = old_pid[n]
      BY <1>7, Going
         DEF ReadOldPid, ScriptStep, StopOld, RemoveConnectionFile, StartConsumer,
             PollFindsFile, PollSeesExit, PollGivesUp, PrintFile, Types
    <2>5. \A k \in Launches : Overtaken(k)' => Overtaken(k) /\ old_pid'[k] = old_pid[k]
      BY <1>1, <2>1, <2>2, <2>3, <2>4 DEF Overtaken, Current
    <2>6. \A k \in Launches : script[k] \notin Unrecorded /\ Running(k)' => Running(k)
      <3>1. CASE OnlyEnds
        BY <3>1 DEF OnlyEnds
      <3>2. CASE StartConsumer(n)
        <4>1. script[n] = "starting"
          BY <3>2, Going DEF StartConsumer
        <4>2. \A k \in Launches : k # n => consumer'[k] = consumer[k]
          BY <3>2 DEF StartConsumer, Types
        <4>3. QED
          BY <4>1, <4>2 DEF Unrecorded, Running
      <3>3. QED
        BY <2>1, <3>1, <3>2
    <2>7. \A k \in Launches : script'[k] \in Unrecorded <=> script[k] \in Unrecorded
      BY <2>2, <2>3
    <2>8. Orphans' \subseteq Orphans
      BY <1>1, <2>1, <2>6, <2>7 DEF Orphans, Current
    <2>9. QED
      BY <1>1, <2>5, <2>8, OrphansShrink
  <1>8. QED
    BY <1>3, <1>4, <1>5, <1>6, <1>7 DEF Next, ProducerStep, Done

\* A launch that is given up can orphan its script.
LEMMA LostCounted == ASSUME Types, Types', Counted, LaunchLost PROVE Counted'
  <1> USE DEF producerVars, scriptVars, fileVars, consumerVars, boundVars
  <1>1. Orphans' \subseteq Orphans \cup {launched}
    BY DEF LaunchLost, Orphans, Current, Running
  <1>2. Cardinality(Orphans') <= Cardinality(Orphans) + 1
        /\ Cardinality(Orphans') \in Nat /\ Cardinality(Orphans) \in Nat
    <2>1. Orphans \in SUBSET Launches /\ Orphans' \in SUBSET Launches
      BY OrphansType DEF Orphans
    <2>2. QED
      BY <1>1, <2>1, OneMore
  <1>3. lost' = lost + 1
    BY DEF LaunchLost
  <1>4. \A n \in Launches : ~Overtaken(n)'
    BY DEF LaunchLost, Overtaken, Current
  <1>5. QED
    BY <1>2, <1>3, <1>4 DEF Counted, Types

\* Script n records its consumer, which leaves the orphans or never was one; the consumer
\* recorded before is orphaned unless script n has stopped it.
LEMMA RecordCounted ==
    ASSUME Types, Types', Names, OldStopped, Counted, NEW n \in Launches, RecordPid(n)
    PROVE  Counted'
  <1> USE DEF producerVars, scriptVars, fileVars, consumerVars, boundVars
  <1>1. /\ script[n] = "recording" /\ script'[n] = "polling" /\ pid_file' = n
        /\ \A k \in Launches : k # n => script'[k] = script[k]
        /\ UNCHANGED <<pc, launched, old_pid, consumer, lost>>
    BY Going DEF RecordPid
  <1>2. n \notin Orphans'
    BY <1>1 DEF Orphans, Unrecorded
  <1>3. ASSUME NEW k \in Orphans', k # pid_file PROVE k \in Orphans
    <2>1. k \in Launches /\ k # n
      BY <1>2, <1>3 DEF Orphans
    <2>2. script'[k] = script[k] /\ (Running(k)' <=> Running(k)) /\ (Current(k)' <=> Current(k))
      BY <1>1, <2>1 DEF Running, Current
    <2>3. QED
      BY <1>3, <2>1, <2>2 DEF Orphans
  <1>4. pid_file \in Orphans' => pid_file \in Launches /\ Running(pid_file)
    <2>1. ASSUME pid_file \in Orphans' PROVE pid_file \in Launches /\ Running(pid_file)
      <3>0. pid_file \in Launches /\ pid_file # n
        <4>1. pid_file \in Launches
          BY <2>1 DEF Orphans
        <4>2. QED
          BY <4>1, <1>2, <2>1
      <3>1. pid_file \in Launches /\ pid_file # n /\ pid_file # 0
        BY <3>0, BoundsAreNat DEF Launches
      <3>2. script'[pid_file] \notin Unrecorded
        BY <1>1, <3>1 DEF Names, Recorded
      <3>3. consumer'[pid_file] \notin {"none", "ended"}
        BY <2>1, <3>2 DEF Orphans, Running
      <3>4. QED
        BY <1>1, <3>1, <3>3 DEF Running
    <2>2. QED
      BY <2>1
  <1>5. pid_file # n /\ \A k \in Launches : old_pid[k] # n
    <2>1. n # 0 /\ ~Recorded(n)
      BY <1>1 DEF Recorded, Unrecorded, Launches
    <2>2. QED
      BY <2>1 DEF Names
  <1>a. Orphans \in SUBSET Launches /\ Orphans' \in SUBSET Launches
    BY OrphansType DEF Orphans
  \* The script the producer gave up, or one that was overtaken.
  <1>6. CASE ~Current(n)
    <2>1. n \in Orphans
      BY <1>1, <1>6 DEF Orphans, Unrecorded
    <2>2. Orphans' \subseteq (Orphans \ {n}) \cup {pid_file}
      BY <1>2, <1>3
    <2>3. /\ Cardinality(Orphans \ {n}) = Cardinality(Orphans) - 1
          /\ Cardinality(Orphans) \in Nat /\ Cardinality(Orphans) <= lost
      BY <2>1, <1>a, Counting DEF Counted
    <2>4. Cardinality(Orphans') <= lost' /\ Cardinality(Orphans') \in Nat
      <3>1. Orphans \ {n} \in SUBSET Launches
        BY <1>a
      <3>2. Cardinality(Orphans') \in Nat
            /\ Cardinality(Orphans') <= Cardinality(Orphans \ {n}) + 1
        BY <1>a, <2>2, <3>1, OneMore
      <3>3. QED
        BY <1>1, <2>3, <3>2 DEF Types
    <2>5. ASSUME NEW c \in Launches, Overtaken(c)'
          PROVE  Cardinality(Orphans' \ {old_pid'[c]}) < lost'
      <3>1. c # n /\ script[c] \in Unrecorded \ {"begun"} /\ Current(c) /\ old_pid' = old_pid
        BY <1>1, <2>5, <1>6 DEF Overtaken, Current
      <3>2. CASE pid_file = old_pid[c]
        <4>1. Orphans' \ {old_pid[c]} \in SUBSET (Orphans \ {n})
          BY <2>2, <3>2, <1>2
        <4>2. Orphans \ {n} \in SUBSET Launches
          BY <1>a
        <4>3. /\ Cardinality(Orphans' \ {old_pid[c]}) \in Nat
              /\ Cardinality(Orphans' \ {old_pid[c]}) <= Cardinality(Orphans \ {n})
          BY <4>1, <4>2, Counting
        <4>4. QED
          BY <1>1, <2>3, <3>1, <4>3 DEF Types
      <3>3. CASE pid_file # old_pid[c]
        <4> DEFINE O == Orphans \ {old_pid[c]}
        <4>1. Overtaken(c)
          BY <3>1, <3>3 DEF Overtaken
        <4>2. O \in SUBSET Launches /\ n \in O
          BY <1>a, <2>1, <1>5
        <4>3. /\ Cardinality(O) < lost /\ Cardinality(O) \in Nat
              /\ Cardinality(O \ {n}) = Cardinality(O) - 1
          <5>1. Cardinality(O) < lost
            BY <4>1 DEF Counted
          <5>2. QED
            BY <4>2, <5>1, Counting
        <4>4. /\ Orphans' \ {old_pid[c]} \in SUBSET Launches
              /\ Orphans' \ {old_pid[c]} \subseteq (O \ {n}) \cup {pid_file}
              /\ O \ {n} \in SUBSET Launches
          BY <1>a, <2>2
        <4>5. /\ Cardinality(Orphans' \ {old_pid[c]}) \in Nat
              /\ Cardinality(Orphans' \ {old_pid[c]}) <= Cardinality(O \ {n}) + 1
          BY <4>4, OneMore
        <4>6. QED
          BY <1>1, <3>1, <4>3, <4>5 DEF Types
      <3>4. QED
        BY <3>2, <3>3
    <2>6. QED
      BY <2>4, <2>5 DEF Counted
  <1>7. CASE Current(n)
    <2>1. \A c \in Launches : ~Overtaken(c)'
      BY <1>1, <1>7 DEF Overtaken, Current, Unrecorded
    <2>2. CASE pid_file = old_pid[n]
      <3>1. pid_file \notin Orphans'
        BY <1>1, <1>4, <2>2 DEF OldStopped, Launches
      <3>2. Orphans' \in SUBSET Orphans
        BY <1>3, <3>1
      <3>3. /\ Cardinality(Orphans') \in Nat /\ Cardinality(Orphans) \in Nat
            /\ Cardinality(Orphans') <= Cardinality(Orphans)
        BY <1>a, <3>2, Counting
      <3>4. QED
        BY <1>1, <2>1, <3>3 DEF Counted, Types
    <2>3. CASE pid_file # old_pid[n]
      <3> DEFINE O == Orphans \ {old_pid[n]}
      <3>1. Cardinality(O) < lost
        <4>1. Overtaken(n)
          BY <1>1, <1>7, <2>3 DEF Overtaken, Unrecorded
        <4>2. QED
          BY <4>1 DEF Counted
      <3>2. old_pid[n] \notin Orphans'
        <4>1. ASSUME old_pid[n] \in Orphans' PROVE FALSE
          <5>0. old_pid[n] \in Launches
            BY <4>1 DEF Orphans
          <5>1. old_pid[n] \in Launches /\ old_pid[n] # 0 /\ old_pid[n] # n
            BY <1>5, <5>0, BoundsAreNat DEF Launches
          <5>2. ~Running(old_pid[n])
            BY <1>1, <5>1 DEF OldStopped
          <5>3. script[old_pid[n]] \notin Unrecorded
            BY <5>1 DEF Names, Recorded
          <5>4. QED
            BY <1>1, <4>1, <5>1, <5>2, <5>3 DEF Orphans, Running
        <4>2. QED
          BY <4>1
      <3>3. Orphans' \subseteq O \cup {pid_file} /\ O \in SUBSET Launches
        BY <1>3, <1>a, <3>2
      <3>4. /\ Cardinality(Orphans') \in Nat /\ Cardinality(O) \in Nat
            /\ Cardinality(Orphans') <= Cardinality(O) + 1
        BY <1>a, <3>3, OneMore
      <3>5. QED
        BY <1>1, <2>1, <3>1, <3>4 DEF Counted, Types
    <2>4. QED
      BY <2>2, <2>3
  <1>8. QED
    BY <1>6, <1>7

LEMMA CountedStep ==
    ASSUME Types, Types', Began, Names, OldStopped, Producer, Counted, [Next]_vars
    PROVE  Counted'
  BY NothingOrphaned, LostCounted, RecordCounted

-------------------------------------------------------------------------------
(* How many consumers run.                                                 *)

Runners == {n \in Launches : Running(n)}

LEMMA RunnersBounded ==
    ASSUME Types, Began, Names, OldStopped, Counted
    PROVE  Cardinality(Runners) \in Nat /\ Cardinality(Runners) <= 1 + lost
  <1>a. Runners \in SUBSET Launches /\ Orphans \in SUBSET Launches /\ lost \in Nat
    BY OrphansType DEF Runners, Types
  <1>b. Cardinality(Orphans) <= lost
    BY DEF Counted
  <1>1. ASSUME NEW k \in Runners, k # pid_file, k \notin Orphans
        PROVE  Current(k) /\ script[k] = "recording"
    <2>1. k \in Launches /\ Running(k)
      BY <1>1 DEF Runners
    <2>2. script[k] \in Unrecorded /\ Current(k)
      BY <1>1, <2>1 DEF Orphans
    <2>3. script[k] \notin {"none", "begun", "stopping", "removing", "starting"}
      BY <2>1 DEF Began, Running
    <2>4. QED
      BY <2>2, <2>3 DEF Unrecorded
  <1>2. CASE Runners \subseteq Orphans \cup {pid_file}
    <2>1. /\ Cardinality(Runners) \in Nat /\ Cardinality(Orphans) \in Nat
          /\ Cardinality(Runners) <= Cardinality(Orphans) + 1
      BY <1>a, <1>2, OneMore
    <2>2. QED
      BY <1>a, <1>b, <2>1
  <1>3. ASSUME NEW c \in Launches, Current(c), script[c] = "recording"
        PROVE  Cardinality(Runners) \in Nat /\ Cardinality(Runners) <= 1 + lost
    <2>1. old_pid[c] \notin Runners
      <3>1. ASSUME old_pid[c] \in Runners PROVE FALSE
        <4>1. old_pid[c] \in Launches /\ Running(old_pid[c])
          BY <3>1 DEF Runners
        <4>2. old_pid[c] # 0
          BY <4>1, BoundsAreNat DEF Launches
        <4>3. QED
          BY <1>3, <4>1, <4>2 DEF OldStopped
      <3>2. QED
        BY <3>1
    <2>2. ASSUME NEW k \in Runners, k # pid_file, k # c PROVE k \in Orphans
      BY <1>1, <1>3, <2>2 DEF Current
    <2>3. CASE pid_file = old_pid[c]
      <3>1. Runners \subseteq Orphans \cup {c}
        BY <2>1, <2>2, <2>3
      <3>2. /\ Cardinality(Runners) \in Nat /\ Cardinality(Orphans) \in Nat
            /\ Cardinality(Runners) <= Cardinality(Orphans) + 1
        BY <1>a, <3>1, OneMore
      <3>3. QED
        BY <1>a, <1>b, <3>2
    <2>4. CASE pid_file # old_pid[c]
      <3> DEFINE O == Orphans \ {old_pid[c]}
                 P == O \cup {c}
      <3>1. Cardinality(O) < lost
        <4>1. Overtaken(c)
          BY <1>3, <2>4 DEF Overtaken, Unrecorded
        <4>2. QED
          BY <4>1 DEF Counted
      <3>2. O \in SUBSET Launches /\ P \in SUBSET Launches /\ P \subseteq O \cup {c}
        BY <1>a
      <3>3. Runners \subseteq P \cup {pid_file}
        BY <2>1, <2>2
      <3> HIDE DEF O, P
      <3>4. /\ Cardinality(O) \in Nat /\ Cardinality(P) \in Nat
            /\ Cardinality(P) <= Cardinality(O) + 1
        BY <3>2, OneMore
      <3>5. /\ Cardinality(Runners) \in Nat /\ Cardinality(Runners) <= Cardinality(P) + 1
        BY <1>a, <3>2, <3>3, OneMore
      <3>6. QED
        BY <1>a, <3>1, <3>4, <3>5
    <2>5. QED
      BY <2>3, <2>4
  <1>4. QED
    <2>1. CASE \E k \in Runners : k # pid_file /\ k \notin Orphans
      BY <1>1, <1>3, <1>a, <2>1
    <2>2. CASE ~\E k \in Runners : k # pid_file /\ k \notin Orphans
      BY <1>2, <2>2
    <2>3. QED
      BY <2>1, <2>2

\* A consumer that finds no port: each port that no other program has is another consumer's.
LEMMA PortsTaken ==
    ASSUME Types, Cardinality(Runners) <= 1 + lost,
           NEW n \in Launches, consumer[n] = "starting", Free = {}
    PROVE  lost >= Cardinality((1 .. Ports) \ occupied)
  <1> DEFINE Wanted == (1 .. Ports) \ occupied
             Image == {port[k] : k \in Bound}
             f == [k \in Bound |-> port[k]]
             Others == Runners \ {n}
  <1>1. Runners \in SUBSET Launches /\ n \in Runners
    BY DEF Runners, Running
  <1>2. /\ Cardinality(Others) = Cardinality(Runners) - 1
        /\ Cardinality(Runners) \in Nat
    BY <1>1, Counting
  <1>3. Bound \in SUBSET Others /\ Others \in SUBSET Launches /\ Bound \in SUBSET Launches
    BY <1>1 DEF Bound, Runners, Running
  <1>4. /\ Cardinality(Bound) \in Nat /\ IsFiniteSet(Bound)
        /\ Cardinality(Bound) <= Cardinality(Others)
    BY <1>3, Counting
  <1>5. f \in Surjection(Bound, Image)
    BY DEF Surjection
  <1>6. IsFiniteSet(Image) /\ Cardinality(Image) <= Cardinality(Bound)
    BY <1>4, <1>5, FS_Surjection
  <1>7. Wanted \in SUBSET Image
    BY DEF Free
  <1>8. Cardinality(Wanted) <= Cardinality(Image)
    BY <1>6, <1>7, FS_Subset
  <1>9. Cardinality(Wanted) \in Nat /\ Cardinality(Image) \in Nat
    BY <1>6, <1>7, FS_Subset, FS_CardinalityType
  <1> HIDE DEF Wanted, Image, Others
  <1>10. Cardinality(Wanted) <= lost
    BY <1>2, <1>4, <1>6, <1>8, <1>9 DEF Types
  <1>11. QED
    BY <1>9, <1>10 DEF Types, Wanted

LEMMA Bounded ==
    ASSUME Types, Began, Names, OldStopped, Counted PROVE OrphansBounded
  BY RunnersBounded, PortsTaken DEF OrphansBounded, Runners

-------------------------------------------------------------------------------
(* A serial producer: no launch was given up.                              *)

LEMMA StaysSerial == ASSUME Types, [Next]_vars, Serial' PROVE Serial /\ ~LaunchLost
  BY NamesMove DEF Serial, LaunchLost, Types

LEMMA SerialOrphans ==
    ASSUME Types, Counted, Serial
    PROVE  Orphans = {} /\ \A n \in Launches : ~Overtaken(n)
  <1>1. Orphans \in SUBSET Launches
    BY OrphansType
  <1>2. \A T \in SUBSET Orphans : Cardinality(T) \in Nat
    BY <1>1, Counting
  <1>3. Orphans = {}
    <2>1. Cardinality(Orphans) \in Nat /\ Cardinality(Orphans) <= 0
      BY <1>2 DEF Counted, Serial
    <2>2. QED
      BY <1>1, <2>1, Counting
  <1>4. ASSUME NEW n \in Launches PROVE ~Overtaken(n)
    <2>1. Orphans \ {old_pid[n]} \in SUBSET Orphans
      OBVIOUS
    <2>2. Cardinality(Orphans \ {old_pid[n]}) \in Nat
      BY <1>2, <2>1
    <2>3. QED
      BY <2>2 DEF Counted, Serial
  <1>5. QED
    BY <1>3, <1>4

LEMMA SerialRunner ==
    ASSUME Types, Began, Names, OldStopped, Counted, Serial,
           NEW j \in Launches, NEW k \in Launches, Running(j), Running(k)
    PROVE  j = k
  <1>1. Runners \in SUBSET Launches /\ j \in Runners /\ k \in Runners
    BY DEF Runners
  <1>2. Cardinality(Runners) \in Nat /\ Cardinality(Runners) <= 1
    BY RunnersBounded DEF Serial
  <1>3. Cardinality(Runners \ {j}) \in Nat /\ Cardinality(Runners \ {j}) = Cardinality(Runners) - 1
    BY <1>1, Counting
  <1>4. Runners \ {j} = {}
    <2>1. Runners \ {j} \in SUBSET Launches /\ Cardinality(Runners \ {j}) = 0
      BY <1>1, <1>2, <1>3
    <2>2. QED
      BY <2>1, Counting
  <1>5. QED
    BY <1>1, <1>4

\* The consumers that run when no script works, and next to the script at work.
LEMMA NamedRunner ==
    ASSUME Types, Counted, Alone, Serial, NEW m \in Launches, Running(m), ~Current(m)
    PROVE  m = pid_file
  <1>1. script[m] \notin Unrecorded
    BY DEF Alone, Working
  <1>2. QED
    BY <1>1, SerialOrphans DEF Orphans

LEMMA OwnRunner ==
    ASSUME Types, OldStopped, Counted, Alone, Serial, NEW n \in Launches, NEW m \in Launches,
           script[n] \in Working \ {"begun", "stopping"}, Running(m)
    PROVE  m = n
  <1>1. Current(n) /\ n # 0
    BY BoundsAreNat DEF Alone, Launches
  <1>2. ASSUME m # n PROVE FALSE
    <2>1. ~Current(m)
      BY <1>1, <1>2 DEF Current
    <2>2. m = pid_file /\ m # 0
      BY <2>1, NamedRunner, BoundsAreNat DEF Launches
    <2>3. CASE script[n] \in Unrecorded
      <3>1. ~Overtaken(n)
        BY SerialOrphans
      <3>2. pid_file = old_pid[n]
        BY <1>1, <2>3, <3>1 DEF Overtaken
      <3>3. script[n] \in {"removing", "starting", "recording"}
        BY <2>3 DEF Unrecorded
      <3>4. QED
        BY <2>2, <3>2, <3>3 DEF OldStopped
    <2>4. CASE script[n] \notin Unrecorded
      BY <1>1, <1>2, <2>2, <2>4 DEF Alone, Current
    <2>5. QED
      BY <2>3, <2>4
  <1>3. QED
    BY <1>2

LEMMA AloneStep == ASSUME Types, Began, Alone, [Next]_vars PROVE Alone'
  <1> USE DEF producerVars, scriptVars, fileVars, consumerVars, boundVars
  <1> SUFFICES ASSUME Serial' PROVE Alone'
    BY DEF Alone
  <1>a. Serial /\ ~LaunchLost
    BY StaysSerial
  <1>b. /\ \A n \in Launches : script[n] \in Working => Current(n)
        /\ launched # 0 /\ script[launched] \notin Unrecorded => pid_file = launched
    BY <1>a DEF Alone
  <1>1. ASSUME ScriptsRest, pc = "waiting" => pc' = "waiting" \/ script[launched] \notin Working
        PROVE  Alone'
    <2>1. \A n \in Launches : script'[n] \in Working => Current(n)'
      BY <1>b, <1>1 DEF ScriptsRest, Current
    <2>2. launched' # 0 /\ script'[launched'] \notin Unrecorded => pid_file' = launched'
      BY <1>b, <1>1 DEF ScriptsRest
    <2>3. QED
      BY <2>1, <2>2 DEF Alone
  <1>2. CASE LaunchFails \/ Connect \/ ConnectFails \/ Disconnect \/ Close
    <2>1. pc = "waiting" => pc' = "waiting" \/ script[launched] \notin Working
      BY <1>2 DEF LaunchFails, Connect, ConnectFails, Disconnect, Close, Working, Unrecorded
    <2>2. QED
      BY <1>1, <1>2, <2>1, ProducerRests
  <1>3. ASSUME NEW n \in Launches,
               ConsumerStep(n) \/ ReceiveSnapshot(n) \/ ConsumerRaises(n)
        PROVE  Alone'
    BY <1>1, <1>3, ConsumerRests
  <1>4. CASE UNCHANGED vars
    BY <1>1, <1>4 DEF vars, ScriptsRest, OnlyEnds, Running
  <1>5. CASE Launch
    <2>1. launched' = launched + 1 /\ launched + 1 \in Launches
      BY <1>5, BoundsAreNat DEF Launch, Types, Ids, Launches
    <2>2. \A k \in Launches : script'[k] = IF k = launched + 1 THEN "begun" ELSE script[k]
      BY <1>5, <2>1 DEF Launch, Types
    <2>3. pc = "ready" /\ pc' = "waiting"
      BY <1>5 DEF Launch
    <2>4. \A k \in Launches : script'[k] \in Working => Current(k)'
      BY <1>b, <2>1, <2>2, <2>3 DEF Current
    <2>5. script'[launched'] \in Unrecorded
      BY <2>1, <2>2 DEF Unrecorded
    <2>6. QED
      BY <2>4, <2>5 DEF Alone
  <1>6. ASSUME NEW n \in Launches, ScriptStep(n) PROVE Alone'
    <2>1. pc' = pc /\ launched' = launched
      BY <1>6, ScriptEnds
    <2>2. /\ script[n] \in Working
          /\ \A k \in Launches : k # n => script'[k] = script[k]
      BY <1>6, Going
         DEF ReadOldPid, ScriptStep, StopOld, RemoveConnectionFile, StartConsumer,
             RecordPid, PollFindsFile, PollSeesExit, PollGivesUp, PrintFile, Working,
             Unrecorded
    <2>3. Current(n)
      BY <1>b, <2>2
    <2>4. \A k \in Launches : script'[k] \in Working => Current(k)'
      BY <1>b, <2>1, <2>2, <2>3 DEF Current
    <2>5. script'[n] \notin Unrecorded => pid_file' = n
      <3>1. CASE RecordPid(n)
        BY <3>1 DEF RecordPid
      <3>2. CASE PollFindsFile(n) \/ PollSeesExit(n) \/ PollGivesUp(n) \/ PrintFile(n)
        <4>1. script[n] \notin Unrecorded /\ n # 0
          BY <3>2, Going, BoundsAreNat
             DEF PollFindsFile, PollSeesExit, PollGivesUp, PrintFile, Unrecorded, Launches
        <4>2. pid_file' = pid_file
          BY <3>2 DEF PollFindsFile, PollSeesExit, PollGivesUp, PrintFile
        <4>3. QED
          BY <1>b, <2>3, <4>1, <4>2 DEF Current
      <3>3. CASE ReadOldPid(n) \/ StopOld(n) \/ RemoveConnectionFile(n) \/ StartConsumer(n)
        BY <3>3, Going
           DEF ReadOldPid, StopOld, RemoveConnectionFile, StartConsumer, Unrecorded
      <3>4. QED
        BY <1>6, <3>1, <3>2, <3>3 DEF ScriptStep
    <2>6. QED
      BY <2>1, <2>3, <2>4, <2>5 DEF Alone, Current
  <1>7. QED
    BY <1>a, <1>2, <1>3, <1>4, <1>5, <1>6 DEF Next, ProducerStep, Done

\* How the connection file changes: a consumer at work writes it, or it is removed.
LEMMA FileMoves ==
    ASSUME Types, [Next]_vars
    PROVE  \/ UNCHANGED connection_file \/ connection_file' = 0
           \/ \E n \in Launches : WriteConnectionFile(n)
  <1> USE DEF producerVars, scriptVars, fileVars, consumerVars, boundVars
  <1>1. ASSUME NEW n \in Launches, ScriptStep(n)
        PROVE  UNCHANGED connection_file \/ connection_file' = 0
    BY <1>1 DEF ReadOldPid, ScriptStep, StopOld, RemoveConnectionFile, StartConsumer,
                RecordPid, PollFindsFile, PollSeesExit, PollGivesUp, PrintFile, Removed
  <1>2. ASSUME NEW n \in Launches,
               ConsumerStep(n) \/ ReceiveSnapshot(n) \/ ConsumerRaises(n)
        PROVE  UNCHANGED connection_file \/ connection_file' = 0 \/ WriteConnectionFile(n)
    BY <1>2 DEF ConsumerStep, CreateListener, StoreSnapshot, ConnectionEnds,
                CompareFile, UnlinkFile, ReceiveSnapshot, ConsumerRaises
  <1>3. CASE Launch \/ LaunchLost \/ LaunchFails \/ Connect \/ ConnectFails \/ Disconnect \/ Close
    BY <1>3 DEF Launch, LaunchLost, LaunchFails, Connect, ConnectFails, Disconnect, Close
  <1>4. QED
    BY <1>1, <1>2, <1>3 DEF Next, ProducerStep, Done, vars

LEMMA OwnFileStep ==
    ASSUME Types, OldStopped, Counted, Alone, OwnFile, [Next]_vars
    PROVE  OwnFile'
  <1> USE DEF producerVars, scriptVars, fileVars, consumerVars, boundVars
  <1> DEFINE Late == {"starting", "recording", "polling", "printing"}
  <1> SUFFICES ASSUME Serial', NEW n \in Launches, script'[n] \in Late
               PROVE  connection_file' \in {0, n}
    BY DEF OwnFile
  <1>1. Serial
    BY StaysSerial
  <1>2. CASE script[n] \in Late
    <2>1. connection_file \in {0, n}
      BY <1>1, <1>2 DEF OwnFile
    <2>2. ASSUME NEW m \in Launches, WriteConnectionFile(m) PROVE connection_file' = n
      <3>1. Running(m) /\ connection_file' = m
        BY <2>2, Moving DEF WriteConnectionFile, Running
      <3>2. script[n] \in Working \ {"begun", "stopping"}
        BY <1>2 DEF Working, Unrecorded
      <3>3. QED
        BY <1>1, <3>1, <3>2, OwnRunner
    <2>3. QED
      BY <2>1, <2>2, FileMoves
  <1>3. CASE script[n] \notin Late
    <2>1. CASE Launch
      <3>1. launched + 1 \in Launches
        BY <2>1, BoundsAreNat DEF Launch, Types, Ids, Launches
      <3>2. QED
        BY <1>3, <2>1, <3>1 DEF Launch, Types
    <2>2. ASSUME NEW k \in Launches, ScriptStep(k) PROVE connection_file' \in {0, n}
      <3>1. k = n
        BY <1>3, <2>2, Going
           DEF ReadOldPid, ScriptStep, StopOld, RemoveConnectionFile, StartConsumer,
               RecordPid, PollFindsFile, PollSeesExit, PollGivesUp, PrintFile
      <3>2. RemoveConnectionFile(n)
        BY <1>3, <2>2, <3>1, Going
           DEF ReadOldPid, ScriptStep, StopOld, StartConsumer,
               RecordPid, PollFindsFile, PollSeesExit, PollGivesUp, PrintFile
      <3>3. QED
        BY <3>2 DEF RemoveConnectionFile, Removed
    <2>3. CASE UNCHANGED script
      BY <1>3, <2>3
    <2>4. QED
      BY <2>1, <2>2, <2>3, ProducerRests, ConsumerRests
         DEF Next, ProducerStep, LaunchLost, Done, vars, ScriptsRest
  <1>4. QED
    BY <1>2, <1>3

LEMMA OwnRendezvousStep ==
    ASSUME Types, OwnFile, OwnRendezvous, [Next]_vars
    PROVE  OwnRendezvous'
  <1> USE DEF producerVars, scriptVars, fileVars, consumerVars, boundVars
  <1> SUFFICES ASSUME Serial', NEW n \in Launches, script'[n] = "replied"
               PROVE  reply'[n] = n
    BY DEF OwnRendezvous
  <1>1. Serial
    BY StaysSerial
  <1>2. CASE UNCHANGED <<script, reply>>
    BY <1>1, <1>2 DEF OwnRendezvous
  <1>3. CASE Launch
    <2>1. launched + 1 \in Launches
      BY <1>3, BoundsAreNat DEF Launch, Types, Ids, Launches
    <2>2. script[n] = "replied" /\ reply' = reply
      BY <1>3, <2>1 DEF Launch, Types
    <2>3. QED
      BY <1>1, <2>2 DEF OwnRendezvous
  <1>4. ASSUME NEW k \in Launches, ScriptStep(k) PROVE reply'[n] = n
    <2>1. CASE PrintFile(k) /\ k = n
      <3>1. script[n] = "printing" /\ connection_file # 0 /\ reply'[n] = connection_file
        BY <2>1, Going DEF PrintFile, Types
      <3>2. QED
        BY <1>1, <3>1 DEF OwnFile
    <2>2. CASE ~(PrintFile(k) /\ k = n)
      <3>1. script[n] = "replied" /\ reply'[n] = reply[n]
        BY <1>4, <2>2, Going
           DEF ReadOldPid, ScriptStep, StopOld, RemoveConnectionFile, StartConsumer,
               RecordPid, PollFindsFile, PollSeesExit, PollGivesUp, PrintFile, Types
      <3>2. QED
        BY <1>1, <3>1 DEF OwnRendezvous
    <2>3. QED
      BY <2>1, <2>2
  <1>5. QED
    BY <1>2, <1>3, <1>4, ProducerRests, ConsumerRests
       DEF Next, ProducerStep, LaunchLost, Done, vars, ScriptsRest

LEMMA RemovesStep ==
    ASSUME Types, Began, Names, OldStopped, Counted, RemovesOwnFile, [Next]_vars
    PROVE  RemovesOwnFile'
  <1> USE DEF producerVars, scriptVars, fileVars, consumerVars, boundVars
  <1> SUFFICES ASSUME Serial', NEW n \in Launches, consumer'[n] = "unlinking"
               PROVE  connection_file' \in {0, n}
    BY DEF RemovesOwnFile
  <1>1. Serial
    BY StaysSerial
  <1>2. ASSUME NEW k \in Launches, k = n, CompareFile(k) PROVE connection_file' \in {0, n}
    BY <1>2, Moving DEF CompareFile, Unchanged
  <1>3. CASE consumer[n] = "unlinking"
    <2>1. connection_file \in {0, n} /\ Running(n)
      BY <1>1, <1>3 DEF RemovesOwnFile, Running
    <2>2. ASSUME NEW m \in Launches, WriteConnectionFile(m) PROVE FALSE
      <3>1. Running(m) /\ consumer'[m] = "listening"
        BY <2>2, Moving DEF WriteConnectionFile, Running
      <3>2. m = n
        BY <1>1, <2>1, <3>1, SerialRunner
      <3>3. QED
        BY <3>1, <3>2
    <2>3. QED
      BY <2>1, <2>2, FileMoves
  <1>4. CASE consumer[n] # "unlinking"
    <2>1. CASE LaunchFails \/ Connect \/ ConnectFails \/ Disconnect \/ Close \/ Launch
               \/ LaunchLost \/ UNCHANGED vars
      BY <1>4, <2>1 DEF LaunchFails, Connect, ConnectFails, Disconnect, Close, Launch,
                        LaunchLost, vars, Types
    <2>2. ASSUME NEW k \in Launches, ScriptStep(k) PROVE FALSE
      <3>1. consumer'[n] = consumer[n] \/ consumer'[n] \in {"ended", "starting"}
        BY <2>2 DEF ReadOldPid, ScriptStep, StopOld, RemoveConnectionFile, StartConsumer,
                    RecordPid, PollFindsFile, PollSeesExit, PollGivesUp, PrintFile,
                    Stopped, Types
      <3>2. QED
        BY <1>4, <3>1
    <2>3. ASSUME NEW k \in Launches, ConsumerStep(k) \/ ReceiveSnapshot(k) \/ ConsumerRaises(k)
          PROVE  connection_file' \in {0, n}
      <3>1. ASSUME NEW from, NEW to, Moves(k, from, to) PROVE k = n /\ to = "unlinking"
        BY <1>4, <3>1, Moving
      <3>2. CompareFile(k) /\ k = n
        BY <2>3, <3>1
           DEF ConsumerStep, CreateListener, WriteConnectionFile, StoreSnapshot,
               ConnectionEnds, UnlinkFile, ReceiveSnapshot, ConsumerRaises, CompareFile
      <3>3. QED
        BY <1>2, <3>2
    <2>4. QED
      BY <2>1, <2>2, <2>3 DEF Next, ProducerStep, Done
  <1>5. QED
    BY <1>3, <1>4

-------------------------------------------------------------------------------
(* The theorems.                                                           *)

Inv ==
    /\ Types /\ Began /\ Names /\ OldStopped /\ Producer
    /\ Counted /\ Alone /\ OwnFile
    /\ OwnRendezvous /\ RemovesOwnFile

LEMMA InvInit == Init => Inv
  <1> SUFFICES ASSUME Init PROVE Inv
    OBVIOUS
  <1>1. Types
    BY TypeInit
  <1>2. Began
    BY DEF Init, Began, Launches
  <1>3. Names /\ OldStopped /\ Producer /\ Alone /\ OwnFile
    BY DEF Init, Names, Recorded, OldStopped, Producer, Alone, OwnFile, Working, Unrecorded
  <1>4. Counted
    <2>1. Orphans = {}
      BY DEF Init, Orphans, Running, Unrecorded
    <2>2. \A n \in Launches : ~Overtaken(n)
      BY DEF Init, Overtaken, Current
    <2>3. Cardinality(Orphans) = 0
      BY <2>1, FS_EmptySet
    <2>4. QED
      BY <2>2, <2>3 DEF Counted, Init
  <1>5. OwnRendezvous /\ RemovesOwnFile
    BY DEF Init, OwnRendezvous, RemovesOwnFile
  <1>6. QED
    BY <1>1, <1>2, <1>3, <1>4, <1>5 DEF Inv

LEMMA InvStep == Inv /\ [Next]_vars => Inv'
  <1> SUFFICES ASSUME Inv, [Next]_vars PROVE Inv'
    OBVIOUS
  <1>1. Types' /\ Began' /\ Names'
    BY TypeStep, BeganStep, NamesStep DEF Inv
  <1>2. OldStopped' /\ Producer'
    BY OldStoppedStep, ProducerInvStep DEF Inv
  <1>3. Counted' /\ Alone' /\ OwnFile'
    BY <1>1, CountedStep, AloneStep, OwnFileStep DEF Inv
  <1>4. OwnRendezvous' /\ RemovesOwnFile'
    BY OwnRendezvousStep, RemovesStep DEF Inv
  <1>5. QED
    BY <1>1, <1>2, <1>3, <1>4 DEF Inv

THEOREM Invariance == Spec => []Inv
  BY InvInit, InvStep, PTL DEF Spec

\* The variables keep their types: a launch, its script and its consumer are where the
\* code can be, and what a file names is a launch.
THEOREM TypeCorrect == Spec => []Types
  <1>1. Inv => Types
    BY DEF Inv
  <1>2. QED
    BY <1>1, Invariance, PTL

\* _launch returns the rendezvous of the consumer it has started, not one an earlier
\* consumer left, as long as no launch was given up with its script running.
THEOREM OwnRendezvousHolds == Spec => []OwnRendezvous
  <1>1. Inv => OwnRendezvous
    BY DEF Inv
  <1>2. QED
    BY <1>1, Invariance, PTL

\* remove_connection_file_if_unchanged reads, compares and then unlinks; a consumer of a
\* serial producer removes no file but its own although nothing holds the file between.
THEOREM RemovesOwnFileHolds == Spec => []RemovesOwnFile
  <1>1. Inv => RemovesOwnFile
    BY DEF Inv
  <1>2. QED
    BY <1>1, Invariance, PTL

\* The scripts of _remote_command leave at most one consumer running for each launch that
\* was given up, next to the one that is in use, however they interleave; and a consumer
\* finds a port to listen at unless these have them all.
THEOREM OrphansBoundedHolds == Spec => []OrphansBounded
  <1>1. Inv => OrphansBounded
    BY Bounded DEF Inv
  <1>2. QED
    BY <1>1, Invariance, PTL

\* After a reconnect only the consumer that the producer is connected to stores
\* snapshots: outputs from before the reconnect remain unchanged.
THEOREM OldOutputsKeptHolds == Spec => OldOutputsKept
  <1> USE DEF producerVars, scriptVars, fileVars, consumerVars, boundVars
  <1>1. ASSUME Inv, [Next]_vars, Serial PROVE OthersUnchanged
    <2> SUFFICES ASSUME NEW n \in Launches, peer \notin {0, n} PROVE size'[n] = size[n]
      BY DEF OthersUnchanged
    <2>1. /\ pc = "connected" /\ launched \in Launches
          /\ peer = launched /\ pid_file = launched
      <3>1. pc = "connected" /\ script[launched] = "replied" /\ peer = reply[launched]
        BY <1>1 DEF Inv, Producer
      <3>2. launched \in Launches /\ launched # 0
        BY <1>1, <3>1, BoundsAreNat DEF Inv, Types, Ids, Launches
      <3>3. reply[launched] = launched
        BY <1>1, <3>1, <3>2 DEF Inv, OwnRendezvous
      <3>4. pid_file = launched
        BY <1>1, <3>1, <3>2 DEF Inv, Alone, Unrecorded
      <3>5. QED
        BY <3>1, <3>2, <3>3, <3>4
    <2>2. ASSUME NEW m \in Launches, StoreSnapshot(m) PROVE m # n
      <3>1. Running(m) /\ ~Current(m)
        BY <1>1, <2>1, <2>2, Moving DEF Inv, StoreSnapshot, Running, Current
      <3>2. m = pid_file
        BY <1>1, <3>1, NamedRunner DEF Inv
      <3>3. QED
        BY <2>1, <3>2
    <2>3. UNCHANGED size \/ \E m \in Launches : StoreSnapshot(m)
      <3>1. CASE LaunchFails \/ Connect \/ ConnectFails \/ Disconnect \/ Close \/ Launch
                 \/ LaunchLost \/ UNCHANGED vars
        BY <3>1 DEF LaunchFails, Connect, ConnectFails, Disconnect, Close, Launch,
                    LaunchLost, vars
      <3>2. ASSUME NEW k \in Launches, ScriptStep(k) PROVE UNCHANGED size
        BY <3>2 DEF ReadOldPid, ScriptStep, StopOld, RemoveConnectionFile, StartConsumer,
                    RecordPid, PollFindsFile, PollSeesExit, PollGivesUp, PrintFile
      <3>3. ASSUME NEW k \in Launches,
                   ConsumerStep(k) \/ ReceiveSnapshot(k) \/ ConsumerRaises(k)
            PROVE  UNCHANGED size \/ StoreSnapshot(k)
        BY <3>3 DEF ConsumerStep, CreateListener, WriteConnectionFile, ConnectionEnds,
                    UnlinkFile, ReceiveSnapshot, ConsumerRaises, CompareFile
      <3>4. QED
        BY <1>1, <3>1, <3>2, <3>3 DEF Next, ProducerStep, Done
    <2>4. QED
      BY <1>1, <2>2, <2>3 DEF StoreSnapshot, Inv, Types
  <1>2. Inv /\ [Next]_vars => [Serial => OthersUnchanged]_vars
    BY <1>1
  <1>3. QED
    BY <1>2, Invariance, PTL DEF Spec, OldOutputsKept

===============================================================================
