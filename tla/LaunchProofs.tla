----------------------------- MODULE LaunchProofs -----------------------------
(***************************************************************************)
(* Proofs about ProducerProcess, for every number of snapshots, capacity,  *)
(* failures and interruptions, and about Launch, for every set of scripts. *)
(*                                                                         *)
(* Of the producer: ThreadInv says how the phase of heat2d and the writer  *)
(* thread go together, and LogOutlivesWorker follows from it.  ReleaseInv  *)
(* adds what may still be held in each phase; Released follows from both.  *)
(*                                                                         *)
(* What is proved of a producer holds of the one that a script starts, and *)
(* so does OneRunAtATime.  That invariant says when a producer has started *)
(* (Fresh), where an undisturbed script can be while a process is alive    *)
(* (OneScript, Guarded) and whose logs there can be (OneWriter).           *)
(***************************************************************************)
EXTENDS Launch, FiniteSetTheorems, TLAPS

-------------------------------------------------------------------------------
(* Types, in three parts that the provers treat one by one.                *)

Phases ==
    /\ main \in Constructing \cup {"simulating"} \cup Closing \cup Leaving
    /\ worker \in {"none", "waiting", "writing", "relaunching", "ended"}
    /\ log \in {"none", "open", "closed"}
    /\ running \subseteq Resources /\ unsent \subseteq Notifiers
    /\ mishaps \subseteq {"construct", "finally", "exit", "flush"}

Numbers ==
    /\ step \in 0 .. Steps /\ queue \in 0 .. Capacity /\ helper \in 1 .. 5
    /\ faults \in 0 .. MaxFaults /\ interrupts \in 0 .. MaxInterrupts

Flags ==
    /\ remote \in BOOLEAN /\ closing \in BOOLEAN /\ closed \in BOOLEAN
    /\ error \in BOOLEAN /\ final \in BOOLEAN

LEMMA TypeParts == TypeOK <=> Phases /\ Numbers /\ Flags
  BY Zenon DEF TypeOK, Phases, Numbers, Flags

LEMMA PhaseStep == ASSUME Phases, [Next]_vars PROVE Phases'
  <1> USE DEF Phases, bufferVars, sharedVars, boundVars, Constructing, Closing,
          Leaving, Goes, Fault, MishapFault
  <1>1. CASE Configure \/ OpenLog \/ Create \/ ReadServerConfig \/ ReadConnectionInfo
    BY <1>1 DEF Configure, OpenLog, Create, ReadServerConfig, ReadConnectionInfo
  <1>2. CASE LoadOperation \/ ShareConnection \/ Connect \/ StartMonitor
    BY <1>2 DEF LoadOperation, ShareConnection, Connect, StartMonitor, Resources, Notifiers
  <1>3. CASE Launch \/ OpenStream
    BY <1>3 DEF Launch, OpenStream, AttemptFails, Resources, Notifiers
  <1>4. CASE StartWorker \/ Assign \/ Write \/ LoopEnds \/ BeginClose \/ Join
    BY <1>4 DEF StartWorker, Assign, Write, LoopEnds, BeginClose, Join
  <1>5. ASSUME NextHelper PROVE main' \in {main, "leaving", "finally"}
    BY <1>5 DEF NextHelper
  <1>6. CASE Release
    BY <1>5, <1>6 DEF Release
  <1>7. CASE ExitCommandFails
    BY <1>5, <1>7 DEF ExitCommandFails
  <1>8. CASE CloseLog \/ Exit
    BY <1>8 DEF CloseLog, Exit
  <1>9. CASE Interrupt
    BY <1>5, <1>9 DEF Interrupt
  <1>10. CASE WorkerTakes \/ WorkerReturns \/ Acknowledged \/ Relaunched
    BY <1>10 DEF WorkerTakes, WorkerReturns, Acknowledged, Relaunched, WorkerGoes, WorkerFails,
                Resources, Notifiers
  <1>11. CASE ConnectionLost
    BY <1>11 DEF ConnectionLost, WorkerGoes, WorkerFails, Notifiers
  <1>12. CASE RelaunchFails
    BY <1>12 DEF RelaunchFails, WorkerGoes, WorkerFails, Notifiers, Resources
  <1>13. CASE Publish \/ MonitorNotices \/ Done \/ UNCHANGED vars
    BY <1>13 DEF Publish, MonitorNotices, Done, vars
  <1>14. QED
    BY <1>1, <1>2, <1>3, <1>4, <1>6, <1>7, <1>8, <1>9, <1>10, <1>11, <1>12, <1>13
       DEF Next, MainStep, WorkerStep

LEMMA NumberStep == ASSUME Numbers, [Next]_vars PROVE Numbers'
  <1> USE CountAssumption DEF Numbers, bufferVars, boundVars, Fault, MishapFault
  <1>1. CASE MainStep
    <2>1. ASSUME NextHelper PROVE helper' \in 1 .. 5
      BY <2>1 DEF NextHelper
    <2> QED
      BY <1>1, <2>1
         DEF MainStep, Configure, OpenLog, Create, ReadServerConfig, ReadConnectionInfo,
             LoadOperation, Connect, ShareConnection, StartMonitor, Launch, OpenStream,
             StartWorker, Assign, Write, LoopEnds, BeginClose, Join, Release, CloseLog, Exit,
             AttemptFails
  <1>2. CASE ExitCommandFails \/ Interrupt
    <2>1. ASSUME NextHelper PROVE helper' \in 1 .. 5
      BY <2>1 DEF NextHelper
    <2> QED
      BY <1>2, <2>1 DEF ExitCommandFails, Interrupt
  <1>3. CASE WorkerStep \/ ConnectionLost \/ RelaunchFails
    BY <1>3 DEF WorkerStep, ConnectionLost, RelaunchFails, WorkerTakes, WorkerReturns,
                Acknowledged, Relaunched, WorkerGoes, WorkerFails
  <1>4. CASE Publish \/ MonitorNotices \/ Done \/ UNCHANGED vars
    BY <1>4 DEF Publish, MonitorNotices, Done, vars
  <1>5. QED
    BY <1>1, <1>2, <1>3, <1>4 DEF Next

LEMMA FlagStep == ASSUME Flags, [Next]_vars PROVE Flags'
  <1>1. CASE BeginClose
    BY <1>1, Zenon DEF Flags, BeginClose
  <1>2. ASSUME NextHelper PROVE closed' \in BOOLEAN
    BY <1>2, Zenon DEF Flags, NextHelper
  <1>3. CASE Release \/ ExitCommandFails \/ Interrupt
    <2>1. UNCHANGED <<remote, closing, error, final>>
      BY <1>3, Zenon DEF Release, ExitCommandFails, Interrupt
    <2>2. UNCHANGED closed \/ NextHelper
      BY <1>3, Zenon DEF Release, ExitCommandFails, Interrupt
    <2>3. QED
      BY <1>2, <2>1, <2>2, Zenon DEF Flags
  <1>4. ASSUME UNCHANGED <<remote, final, closed>>, WorkerFails \/ UNCHANGED <<error, closing>>
        PROVE  Flags'
    BY <1>4, Zenon DEF Flags, WorkerFails
  <1>5. CASE WorkerStep \/ ConnectionLost \/ RelaunchFails
    <2>1. UNCHANGED <<remote, final, closed>> /\ (WorkerFails \/ UNCHANGED <<error, closing>>)
      BY <1>5, Zenon
         DEF WorkerStep, ConnectionLost, RelaunchFails, WorkerTakes, WorkerReturns,
             Acknowledged, Relaunched, WorkerGoes, bufferVars
    <2>2. QED
      BY <1>4, <2>1
  <1>6. ASSUME UNCHANGED <<remote, closing, closed, error, final>> PROVE Flags'
    BY <1>6, Zenon DEF Flags
  <1>7. CASE MainStep /\ ~BeginClose /\ ~Release
    BY <1>6, <1>7, Zenon
       DEF MainStep, Configure, OpenLog, Create, ReadServerConfig, ReadConnectionInfo,
           LoadOperation, Connect, ShareConnection, StartMonitor, Launch, OpenStream,
           StartWorker, Assign, Write, LoopEnds, Join, CloseLog, Exit, bufferVars
  <1>8. CASE Publish \/ MonitorNotices \/ Done \/ UNCHANGED vars
    BY <1>6, <1>8, Zenon DEF Publish, MonitorNotices, Done, vars, bufferVars
  <1>9. QED
    BY <1>1, <1>3, <1>5, <1>7, <1>8, Zenon DEF Next, MainStep

\* The invariant of the types: heat2d, its writer and what they acquire.
THEOREM TypeCorrect == Spec => []TypeOK
  <1>1. ASSUME Init PROVE TypeOK
    <2>1. Phases
      BY <1>1 DEF Init, Phases, Constructing
    <2>2. Numbers
      BY <1>1, CountAssumption DEF Init, Numbers
    <2>3. Flags
      BY <1>1, Zenon DEF Init, Flags
    <2>4. QED
      BY <2>1, <2>2, <2>3, TypeParts
  <1>2. TypeOK /\ [Next]_vars => TypeOK'
    <2> SUFFICES ASSUME TypeOK, [Next]_vars PROVE TypeOK'
      OBVIOUS
    <2>1. Phases' /\ Numbers' /\ Flags'
      BY TypeParts, PhaseStep, NumberStep, FlagStep
    <2>2. QED
      BY <2>1, Zenon DEF TypeOK, Phases, Numbers, Flags
  <1>3. QED
    BY <1>1, <1>2, PTL DEF Spec

-------------------------------------------------------------------------------
(* The two threads.                                                        *)

\* What log, phase and closed say of the worker.
ThreadInv ==
    /\ log = "closed" => main \in {"returned", "exited"}
    /\ main \in Constructing \ {"assigning"} => worker = "none"
    /\ main = "releasing" \/ closed => worker = "ended"
    /\ main \in Leaving =>
          worker \in {"none", "ended"} \/ mishaps \cap {"construct", "finally"} # {}

LEMMA ThreadStep == ASSUME ThreadInv, [Next]_vars PROVE ThreadInv'
  <1> USE DEF ThreadInv, bufferVars, sharedVars, boundVars, Constructing, Closing,
          Leaving, Goes, Fault, MishapFault
  <1>1. CASE Configure \/ OpenLog \/ Create \/ ReadServerConfig \/ ReadConnectionInfo
    BY <1>1 DEF Configure, OpenLog, Create, ReadServerConfig, ReadConnectionInfo
  <1>2. CASE LoadOperation \/ ShareConnection \/ Connect \/ StartMonitor
    BY <1>2 DEF LoadOperation, ShareConnection, Connect, StartMonitor
  <1>3. CASE Launch \/ OpenStream
    BY <1>3 DEF Launch, OpenStream, AttemptFails
  <1>4. CASE StartWorker \/ Assign \/ Write \/ LoopEnds \/ BeginClose \/ Join
    BY <1>4 DEF StartWorker, Assign, Write, LoopEnds, BeginClose, ReturnsAtOnce, Join
  <1>5. CASE Release \/ ExitCommandFails
    BY <1>5 DEF Release, ExitCommandFails, NextHelper
  <1>6. CASE CloseLog \/ Exit
    BY <1>6 DEF CloseLog, Exit
  <1>7. CASE Interrupt
    BY <1>7 DEF Interrupt, NextHelper
  <1>8. CASE WorkerTakes \/ WorkerReturns \/ Acknowledged \/ Relaunched
    BY <1>8 DEF WorkerTakes, WorkerReturns, Acknowledged, Relaunched, WorkerGoes, WorkerFails
  <1>9. CASE ConnectionLost \/ RelaunchFails
    BY <1>9 DEF ConnectionLost, RelaunchFails, WorkerGoes, WorkerFails
  <1>10. CASE Publish \/ MonitorNotices \/ Done \/ UNCHANGED vars
    BY <1>10 DEF Publish, MonitorNotices, Done, vars
  <1>11. QED
    BY <1>1, <1>2, <1>3, <1>4, <1>5, <1>6, <1>7, <1>8, <1>9, <1>10
       DEF Next, MainStep, WorkerStep

\* heat2d closes the timing log when the writer thread has ended, so that no record of a
\* relaunch falls on a closed log, except after a second Ctrl-C or one in a constructor.
THEOREM LogIsOpenForWorker == Spec => []LogOutlivesWorker
  <1>1. Init => ThreadInv
    BY DEF Init, ThreadInv, Leaving
  <1>2. ThreadInv /\ [Next]_vars => ThreadInv'
    BY ThreadStep
  <1>3. ThreadInv => LogOutlivesWorker
    BY DEF ThreadInv, LogOutlivesWorker, Leaving
  <1>4. QED
    BY <1>1, <1>2, <1>3, PTL DEF Spec

-------------------------------------------------------------------------------
(* What is held.                                                           *)

\* What an interrupted close() may leave to the end of the process.
Left == IF interrupts = 0 THEN {} ELSE Resources \ {"control", "directory"}

\* Nothing was acquired yet, and what needs a server.conf.
Empty == {"start", "opening", "creating", "configuring", "reading", "preparing", "connecting"}
Remote == {"sharing", "monitoring", "launching", "tunnelling", "unwinding"}

\* The helpers in front of the one that close() is at.
ReleasedSoFar ==
    /\ helper > 1 /\ interrupts = 0 => "connection" \notin running
    /\ helper > 2 /\ interrupts = 0 => "monitor" \notin running
    /\ helper > 3 => "control" \notin running /\ "directory" \notin running
    /\ helper > 4 => "info" \notin unsent /\ (interrupts = 0 => "info" \notin running)

ReleaseInv ==
    /\ main \in Empty => running = {} /\ unsent = {}
    /\ main \in Remote => remote /\ "connection" \notin running
    /\ worker = "relaunching" => remote
    /\ ~remote => running \subseteq {"connection"} /\ unsent = {} /\ helper = 1
    /\ mishaps = {} /\ main \in {"releasing", "unwinding"} => ReleasedSoFar
    /\ mishaps = {} /\ (closed \/ main \in Leaving) => running \subseteq Left /\ unsent = {}

LEMMA HelperNames ==
    ASSUME helper \in 1 .. 5
    PROVE  /\ helper = 1 => Helpers[helper] = "connection"
           /\ helper = 2 => Helpers[helper] = "monitor"
           /\ helper = 3 => Helpers[helper] = "control"
           /\ helper = 4 => Helpers[helper] = "info"
           /\ helper = 5 => Helpers[helper] = "alert"
           /\ helper \in {1, 2, 3, 4, 5}
  BY DEF Helpers

LEMMA ConstructStep ==
    ASSUME Phases, ReleaseInv, ThreadInv, main \in Constructing \ {"unwinding"}, MainStep
    PROVE  ReleaseInv'
  <1> USE DEF ReleaseInv, ThreadInv, Phases, bufferVars, sharedVars, boundVars, Constructing,
          Leaving, Goes, Fault, MishapFault, Empty, Remote, ReleasedSoFar, Left
  <1>1. CASE Configure \/ OpenLog \/ Create \/ ReadServerConfig \/ ReadConnectionInfo
    BY <1>1 DEF Configure, OpenLog, Create, ReadServerConfig, ReadConnectionInfo
  <1>2. CASE LoadOperation
    BY <1>2 DEF LoadOperation, Notifiers
  <1>3. CASE ShareConnection
    BY <1>3 DEF ShareConnection
  <1>4. CASE Connect
    BY <1>4 DEF Connect
  <1>5. CASE StartMonitor
    BY <1>5 DEF StartMonitor
  <1>6. CASE Launch
    BY <1>6 DEF Launch, AttemptFails
  <1>7. CASE OpenStream
    BY <1>7 DEF OpenStream, AttemptFails
  <1>8. CASE StartWorker \/ Assign
    BY <1>8 DEF StartWorker, Assign
  <1>9. QED
    BY <1>1, <1>2, <1>3, <1>4, <1>5, <1>6, <1>7, <1>8
       DEF MainStep, Write, LoopEnds, BeginClose, Join, Release, CloseLog, Exit

\* One helper less: what is held afterwards is in order as soon as what the release of this
\* one leaves is.
LEMMA NextHelperStep ==
    ASSUME Phases, Numbers, ReleaseInv, NextHelper,
           main \in {"releasing", "unwinding"}, mishaps = {},
           running' \subseteq running, unsent' = unsent,
           interrupts' = interrupts \/ interrupts' = interrupts + 1, UNCHANGED remote,
           Helpers[helper] \notin unsent, interrupts' = 0 => Helpers[helper] \notin running',
           helper = 3 => {"control", "directory"} \cap running' = {}
    PROVE  /\ ~remote => helper' = 1
           /\ main' \in {"releasing", "unwinding"} => ReleasedSoFar'
           /\ closed' \/ main' \in Leaving => running' \subseteq Left' /\ unsent' = {}
  <1> USE DEF Phases, Numbers, ReleaseInv, ReleasedSoFar, Remote, Leaving
  <1>0. interrupts \in Nat /\ (interrupts' = 0 => interrupts = 0)
    BY CountAssumption
  <1>1. CASE helper < 5 /\ remote
    <2>1. helper' = helper + 1 /\ UNCHANGED <<main, closed>>
      BY <1>1 DEF NextHelper
    <2>2. ReleasedSoFar'
      BY <1>0, <1>1, <2>1, HelperNames
    <2>3. QED
      BY <1>0, <1>1, <2>1, <2>2 DEF Left
  <1>2. CASE ~(helper < 5 /\ remote)
    <2>1. UNCHANGED helper /\ main' \in {"leaving", "finally"}
      BY <1>2 DEF NextHelper
    <2>2. CASE ~remote
      <3>1. running' \subseteq {"connection"} /\ unsent = {} /\ helper = 1
        BY <2>2
      <3>2. interrupts' = 0 => running' = {}
        BY <3>1, HelperNames
      <3>3. QED
        BY <2>1, <2>2, <3>1, <3>2 DEF Left, Resources, Notifiers
    <2>3. CASE remote
      <3>1. helper = 5 /\ Helpers[helper] = "alert"
        BY <1>2, <2>3, HelperNames
      <3>2. unsent = {}
        BY <3>1 DEF Notifiers
      <3>3. running' \subseteq Left'
        BY <1>0, <3>1 DEF Left, Resources, Notifiers
      <3>4. QED
        BY <2>1, <2>3, <3>2, <3>3
    <2>4. QED
      BY <2>2, <2>3
  <1>3. QED
    BY <1>1, <1>2

LEMMA CloseStep ==
    ASSUME Phases, Numbers, ReleaseInv, ThreadInv,
           Release \/ ExitCommandFails \/ (Interrupt /\ main = "releasing")
    PROVE  ReleaseInv'
  <1>1. main \in {"releasing", "unwinding"} /\ UNCHANGED <<remote, worker, unsent>>
    BY DEF Release, ExitCommandFails, Interrupt
  <1>2. mishaps' = {} =>
           /\ mishaps = {} /\ Helpers[helper] \notin unsent
           /\ interrupts' = 0 => Helpers[helper] \notin running'
           /\ helper = 3 => {"control", "directory"} \cap running' = {}
    <2>1. CASE Release
      BY <2>1, HelperNames DEF Numbers, Release, Freed, boundVars
    <2>2. CASE ExitCommandFails
      BY <2>2, HelperNames DEF Phases, Notifiers, Numbers, ExitCommandFails, Fault, MishapFault
    <2>3. CASE Interrupt /\ main = "releasing"
      <3>1. interrupts' # 0
        BY <2>3, CountAssumption DEF Numbers, Interrupt
      <3>2. mishaps' = {} => mishaps = {} /\ Helpers[helper] # "control"
                             /\ Helpers[helper] \notin unsent
        BY <2>3 DEF Interrupt, Constructing, Closing
      <3>3. QED
        BY <3>1, <3>2, HelperNames DEF Numbers
    <2>4. QED
      BY <2>1, <2>2, <2>3
  <1>3. NextHelper /\ running' \subseteq running
    BY <1>1 DEF Release, ExitCommandFails, Interrupt, Constructing
  <1>4. interrupts' = interrupts \/ interrupts' = interrupts + 1
    BY DEF Release, ExitCommandFails, Interrupt, boundVars, Fault, MishapFault
  <1>5. mishaps' = {} =>
           /\ main' \in {"releasing", "unwinding"} => ReleasedSoFar'
           /\ closed' \/ main' \in Leaving => running' \subseteq Left' /\ unsent' = {}
    BY <1>1, <1>2, <1>3, <1>4, NextHelperStep
  <1>6. ~remote => helper' = 1
    BY <1>1, <1>3 DEF ReleaseInv, NextHelper
  <1>7. main' \in {main, "leaving", "finally"}
    BY <1>3 DEF NextHelper
  <1>8. QED
    BY <1>1, <1>3, <1>5, <1>6, <1>7 DEF ReleaseInv, Empty, Remote, Phases

LEMMA InterruptStep ==
    ASSUME Phases, Numbers, ReleaseInv, ThreadInv, Interrupt, main # "releasing"
    PROVE  ReleaseInv'
  <1>1. /\ main' \in {"finally", "leaving"}
        /\ UNCHANGED <<running, unsent, helper, closed, worker, remote>>
        /\ main' = "leaving" /\ mishaps' = {} => closed
        /\ mishaps' = {} => mishaps = {}
    BY DEF Interrupt
  <1>2. interrupts' # 0
    BY CountAssumption DEF Numbers, Interrupt
  <1>3. Left \subseteq Left'
    BY <1>2 DEF Left
  <1>4. QED
    BY <1>1, <1>3 DEF ReleaseInv, Empty, Remote, Leaving

\* The steps that only release, and those of the simulation.
LEMMA MainReleaseStep ==
    ASSUME Phases, Numbers, ReleaseInv, ThreadInv,
           \/ Write \/ LoopEnds \/ BeginClose \/ Join \/ CloseLog \/ Exit
           \/ Publish \/ MonitorNotices \/ Done \/ UNCHANGED vars
    PROVE  ReleaseInv'
  <1> USE DEF ReleaseInv, Empty, Remote, Leaving, ReleasedSoFar, bufferVars, sharedVars,
              boundVars, Goes, Left
  <1>1. CASE Write \/ LoopEnds
    BY <1>1 DEF Write, LoopEnds
  <1>2. CASE BeginClose
    BY <1>2 DEF BeginClose, ReturnsAtOnce
  <1>3. CASE Join
    BY <1>3 DEF Join
  <1>4. CASE CloseLog \/ Exit
    BY <1>4 DEF CloseLog, Exit
  <1>5. CASE Publish \/ MonitorNotices
    BY <1>5 DEF Publish, MonitorNotices
  <1>6. CASE Done \/ UNCHANGED vars
    BY <1>6 DEF Done, vars
  <1>7. QED
    BY <1>1, <1>2, <1>3, <1>4, <1>5, <1>6

\* While the worker runs nothing is claimed of what is held, except without a server.conf.
LEMMA WorkerReleaseStep ==
    ASSUME Phases, ReleaseInv, ThreadInv,
           \/ WorkerTakes \/ WorkerReturns \/ Acknowledged \/ Relaunched
           \/ ConnectionLost \/ RelaunchFails
    PROVE  ReleaseInv'
  <1>1. /\ worker \in {"waiting", "writing", "relaunching"} /\ ~closed
        /\ main \notin Constructing \ {"assigning"} /\ main # "releasing"
        /\ main \in Leaving => mishaps # {}
    BY DEF ThreadInv, Leaving, WorkerTakes, WorkerReturns, Acknowledged, Relaunched,
           ConnectionLost, RelaunchFails
  <1>2. /\ UNCHANGED <<main, closed, remote, helper, mishaps>>
        /\ ~remote => worker # "relaunching" /\ worker' # "relaunching"
                      /\ UNCHANGED <<running, unsent>>
    BY DEF ReleaseInv, WorkerTakes, WorkerReturns, Acknowledged, Relaunched, ConnectionLost,
           RelaunchFails, WorkerGoes, WorkerFails, sharedVars, bufferVars, boundVars, Fault
  <1>3. worker' = "relaunching" => remote
    BY <1>2
  <1>4. QED
    BY <1>1, <1>2, <1>3 DEF ReleaseInv, Constructing, Empty, Remote

\* Whatever fails, and whenever Ctrl-C comes but at the four points that mishaps names, a
\* heat2d that has returned has released what it acquired, and its messages are published.
THEOREM EverythingReleased == Spec => []Released
  <1> DEFINE Inv == Phases /\ Numbers /\ ThreadInv /\ ReleaseInv
  <1>1. Init => Inv
    <2> SUFFICES ASSUME Init PROVE Inv
      OBVIOUS
    <2>1. Phases
      BY DEF Init, Phases, Constructing
    <2>2. Numbers
      BY CountAssumption DEF Init, Numbers
    <2>3. ThreadInv
      BY DEF Init, ThreadInv, Leaving
    <2>4. ReleaseInv
      BY DEF Init, ReleaseInv, Empty, Remote, Leaving
    <2>5. QED
      BY <2>1, <2>2, <2>3, <2>4
  <1>2. Inv /\ [Next]_vars => Inv'
    <2> SUFFICES ASSUME Inv, [Next]_vars PROVE Inv'
      OBVIOUS
    <2>1. Phases' /\ Numbers' /\ ThreadInv'
      BY PhaseStep, NumberStep, ThreadStep
    <2>2. ReleaseInv'
      <3>1. CASE main \in Constructing \ {"unwinding"} /\ MainStep
        BY <3>1, ConstructStep
      <3>2. CASE MainStep /\ main \notin Constructing \ {"unwinding"}
        <4>1. Write \/ LoopEnds \/ BeginClose \/ Join \/ Release \/ CloseLog \/ Exit
          BY <3>2 DEF MainStep, Constructing, Goes, Configure, OpenLog, Create, ReadServerConfig,
                      ReadConnectionInfo, LoadOperation, Connect, ShareConnection, StartMonitor,
                      Launch, OpenStream, StartWorker, Assign
        <4>2. QED
          BY <4>1, MainReleaseStep, CloseStep
      <3>3. CASE ExitCommandFails \/ Interrupt
        BY <3>3, CloseStep, InterruptStep
      <3>4. CASE WorkerStep \/ ConnectionLost \/ RelaunchFails
        BY <3>4, WorkerReleaseStep DEF WorkerStep
      <3>5. CASE Publish \/ MonitorNotices \/ Done \/ UNCHANGED vars
        BY <3>5, MainReleaseStep
      <3>6. QED
        BY <3>1, <3>2, <3>3, <3>4, <3>5 DEF Next
    <2>3. QED
      BY <2>1, <2>2
  <1>3. Inv => Released
    BY DEF ReleaseInv, Released, Over, Left, Leaving
  <1>4. QED
    BY <1>1, <1>2, <1>3, PTL DEF Spec

-------------------------------------------------------------------------------
(* The launching scripts.                                                  *)

\* Scripts, signals to a process and other processes leave the producer alone, and it
\* takes only its own steps.
LEMMA ProducerSteps == ASSUME [LaunchNext]_launchVars PROVE [Next]_vars
  <1>1. CASE UNCHANGED launchVars
    BY <1>1 DEF launchVars
  <1>2. ASSUME NEW s \in Scripts,
               \/ Begins(s) \/ TestsPid(s) \/ TestsLogs(s) \/ Starts(s) \/ WritesPid(s)
               \/ Killed(s) \/ Redirects(s) \/ OtherOpensLog(s) \/ OtherEnds(s)
        PROVE  UNCHANGED vars
    BY <1>2, Zenon DEF Begins, TestsPid, TestsLogs, Starts, WritesPid, Killed, Script,
                Redirects, OtherOpensLog, OtherEnds
  <1>3. CASE This(Next)
    BY <1>3 DEF This
  <1>4. CASE RemoveLogs
    BY <1>4, Zenon DEF RemoveLogs
  <1>5. QED
    BY <1>1, <1>2, <1>3, <1>4 DEF LaunchNext

\* A producer behaves as ProducerProcess says, whether launch.sh starts it or a user does.
THEOREM LaunchedProducer == LaunchSpec => Spec
  <1>1. LaunchInit => Init
    BY DEF LaunchInit
  <1>2. [LaunchNext]_launchVars => [Next]_vars
    BY ProducerSteps
  <1>3. QED
    BY <1>1, <1>2, PTL DEF LaunchSpec, Spec

-------------------------------------------------------------------------------
(* One run at a time.                                                      *)

Active(s) == script[s] \notin {"idle", "over"}
Started(s) == process[s] # "none"
Living(s) == Started(s) /\ Alive(s)
Logs == stdout_log \cup timing_log

LaunchTypes ==
    /\ script \in [Scripts ->
          {"idle", "testing pid", "testing logs", "starting", "writing pid", "over"}]
    /\ process \in [Scripts -> {"none", "forked", "running", "logging", "ended"}]
    /\ pid_file \in Scripts \cup {0} /\ this \in Scripts \cup {0}
    /\ this # 0 => process[this] \in {"forked", "running"}
    /\ stdout_log \subseteq Scripts /\ timing_log \subseteq Scripts
    /\ disturbed \in BOOLEAN

\* A script starts its process near its end, and the producer in detail has not begun
\* before its process runs, or the user starts it.
Fresh ==
    /\ \A s \in Scripts : Started(s) => script[s] \in {"writing pid", "over"}
    /\ main # "start" =>
          IF this = 0 THEN \A s \in Scripts : script[s] = "over" ELSE process[this] = "running"

\* Scripts follow one another.
OneScript == \A s, t \in Scripts : Active(s) /\ Active(t) => s = t

\* A living producer is named in the pid file, or will be by the script at its last step;
\* no other script has then passed its test of the pid file.
Guarded ==
    \A s \in Scripts : Living(s) =>
       \/ script[s] = "writing pid"
       \/ /\ pid_file = s
          /\ \A t \in Scripts : script[t] \in {"idle", "testing pid", "over"}

\* There are logs of one process only, and while one lives they are its own.
OneWriter ==
    /\ \A s, t \in Logs : s = t
    /\ \A s \in Scripts : Living(s) => Logs \subseteq {s}
    /\ \A s \in Scripts : script[s] = "starting" => Logs = {}

LaunchInv == LaunchTypes /\ Fresh /\ (~disturbed => OneScript /\ Guarded /\ OneWriter)

LEMMA ScriptTypeStep ==
    ASSUME LaunchTypes, NEW s \in Scripts,
           \/ Begins(s) \/ TestsPid(s) \/ TestsLogs(s) \/ Starts(s) \/ WritesPid(s)
           \/ Killed(s)
    PROVE  LaunchTypes'
  <1> USE DEF LaunchTypes, Script, processVars
  <1>1. CASE Begins(s)
    BY <1>1 DEF Begins
  <1>2. CASE TestsPid(s) \/ TestsLogs(s)
    BY <1>2 DEF TestsPid, TestsLogs
  <1>3. CASE Starts(s)
    BY <1>3 DEF Starts
  <1>4. CASE WritesPid(s)
    BY <1>4 DEF WritesPid
  <1>5. CASE Killed(s)
    BY <1>5 DEF Killed
  <1>6. QED
    BY <1>1, <1>2, <1>3, <1>4, <1>5

LEMMA ProcessTypeStep ==
    ASSUME LaunchTypes, NEW s \in Scripts,
           Redirects(s) \/ OtherOpensLog(s) \/ OtherEnds(s)
    PROVE  LaunchTypes'
  BY DEF LaunchTypes, Process, scriptVars, Redirects, OtherOpensLog, OtherEnds

LEMMA ThisTypeStep ==
    ASSUME LaunchTypes, This(Next) \/ RemoveLogs \/ UNCHANGED launchVars
    PROVE  LaunchTypes'
  <1>1. CASE This(Next)
    BY <1>1 DEF LaunchTypes, This, scriptVars
  <1>2. CASE RemoveLogs \/ UNCHANGED launchVars
    BY <1>2 DEF LaunchTypes, RemoveLogs, launchVars, scriptVars, processVars
  <1>3. QED
    BY <1>1, <1>2

\* A step of a script that neither starts nor is at its end leaves every process alone.
LEMMA ScriptMoves ==
    ASSUME LaunchTypes, OneScript, Guarded, OneWriter, NEW s \in Scripts, ~disturbed',
           Begins(s) \/ TestsPid(s) \/ TestsLogs(s) \/ Killed(s)
    PROVE  OneScript' /\ Guarded' /\ OneWriter'
  <1>1. UNCHANGED <<main, process, this, stdout_log, timing_log>> /\ UNCHANGED pid_file
    <2>1. UNCHANGED main
      BY DEF Begins, TestsPid, TestsLogs, Killed, Script, vars
    <2>2. QED
      BY <2>1 DEF Begins, TestsPid, TestsLogs, Killed, processVars
  <1>2. /\ \A t \in Scripts : (Living(t)' <=> Living(t)) /\ (Started(t)' <=> Started(t))
        /\ Logs' = Logs
    BY <1>1 DEF Living, Started, Alive, Logs
  <1>3. DOMAIN script = Scripts
    BY DEF LaunchTypes
  <1>4. CASE Begins(s)
    <2>1. /\ script[s] = "idle" /\ script' = [script EXCEPT ![s] = "testing pid"]
          /\ \A t \in Scripts : script[t] \in {"idle", "over"}
      BY <1>4 DEF Begins, Script
    <2>2. QED
      BY <1>1, <1>2, <1>3, <2>1 DEF OneScript, Guarded, OneWriter, Active
  <1>5. CASE TestsPid(s)
    <2>1. /\ script[s] = "testing pid"
          /\ \/ script' = [script EXCEPT ![s] = "over"]
             \/ /\ script' = [script EXCEPT ![s] = "testing logs"]
                /\ pid_file # 0 => ~Alive(pid_file)
      BY <1>5 DEF TestsPid, Script, Refused
    <2>2. pid_file # 0 /\ ~Alive(pid_file) => ~Living(pid_file)
      BY DEF Living
    <2>3. 0 \notin Scripts
      BY ScriptAssumption
    <2>4. CASE script' = [script EXCEPT ![s] = "over"]
      BY <1>1, <1>2, <1>3, <2>1, <2>4 DEF OneScript, Guarded, OneWriter, Active
    <2>5. CASE /\ script' = [script EXCEPT ![s] = "testing logs"]
               /\ pid_file # 0 => ~Alive(pid_file)
      <3>1. \A t \in Scripts : ~Living(t)
        BY <2>1, <2>2, <2>3, <2>5 DEF OneScript, Guarded, Active
      <3>2. QED
        BY <1>1, <1>2, <1>3, <2>1, <2>5, <3>1 DEF OneScript, Guarded, OneWriter, Active
    <2>6. QED
      BY <2>1, <2>4, <2>5
  <1>6. CASE TestsLogs(s)
    <2>1. /\ script[s] = "testing logs"
          /\ \/ script' = [script EXCEPT ![s] = "over"]
             \/ script' = [script EXCEPT ![s] = "starting"] /\ Logs = {}
      BY <1>6 DEF TestsLogs, Script, LogsExist, Logs
    <2>2. \A t \in Scripts : ~Living(t)
      BY <2>1 DEF Guarded, OneScript, Active
    <2>3. QED
      BY <1>1, <1>2, <1>3, <2>1, <2>2 DEF OneScript, Guarded, OneWriter, Active
  <1>7. CASE Killed(s)
    <2>1. script[s] # "writing pid" /\ script' = [script EXCEPT ![s] = "over"]
      BY <1>7 DEF Killed, Script
    <2>2. QED
      BY <1>1, <1>2, <1>3, <2>1 DEF OneScript, Guarded, OneWriter, Active
  <1>8. QED
    BY <1>4, <1>5, <1>6, <1>7

LEMMA ScriptStarts ==
    ASSUME LaunchTypes, OneScript, Guarded, OneWriter, NEW s \in Scripts, Starts(s)
    PROVE  OneScript' /\ Guarded' /\ OneWriter'
  <1>1. UNCHANGED <<main, pid_file, stdout_log, timing_log>>
    BY DEF Starts, Script, vars
  <1>2. /\ script[s] = "starting" /\ script' = [script EXCEPT ![s] = "writing pid"]
        /\ process' = [process EXCEPT ![s] = "forked"]
        /\ this' = IF this = 0 THEN s ELSE this
    BY DEF Starts, Script
  <1>3. DOMAIN script = Scripts /\ DOMAIN process = Scripts
    BY DEF LaunchTypes
  <1>4. \A t \in Scripts : ~Living(t)
    BY <1>2 DEF Guarded, OneScript, Active
  <1>5. \A t \in Scripts : t # s => ~Living(t)' /\ (Started(t)' <=> Started(t))
    <2> TAKE t \in Scripts
    <2> HAVE t # s
    <2>1. process'[t] = process[t] /\ (t = this' <=> t = this)
      BY <1>2, <1>3, ScriptAssumption
    <2>2. QED
      BY <1>1, <1>4, <2>1 DEF Living, Started, Alive
  <1>6. Logs' = {}
    BY <1>1, <1>2 DEF Logs, OneWriter
  <1>7. OneScript'
    BY <1>2, <1>3, <1>5 DEF OneScript, Active
  <1>8. QED
    BY <1>2, <1>3, <1>5, <1>6, <1>7 DEF Guarded, OneWriter, OneScript, Active

LEMMA ScriptWrites ==
    ASSUME LaunchTypes, OneScript, Guarded, OneWriter, NEW s \in Scripts, WritesPid(s)
    PROVE  OneScript' /\ Guarded' /\ OneWriter'
  <1>1. UNCHANGED <<main, process, this, stdout_log, timing_log>>
    BY DEF WritesPid, Script, vars, processVars
  <1>2. /\ \A t \in Scripts : (Living(t)' <=> Living(t)) /\ (Started(t)' <=> Started(t))
        /\ Logs' = Logs
    BY <1>1 DEF Living, Started, Alive, Logs
  <1>3. /\ DOMAIN script = Scripts /\ pid_file' = s
        /\ script[s] = "writing pid" /\ script' = [script EXCEPT ![s] = "over"]
    BY DEF LaunchTypes, WritesPid, Script
  <1>4. \A t \in Scripts : t # s => script[t] \in {"idle", "over"} /\ ~Living(t)
    BY <1>3 DEF OneScript, Guarded, Active
  <1>5. QED
    BY <1>2, <1>3, <1>4 DEF OneScript, Guarded, OneWriter, Active

\* Between the steps of scripts processes end, and the living one opens a log.
LEMMA ProcessesMove ==
    ASSUME OneScript, Guarded, OneWriter, UNCHANGED <<script, pid_file>>,
           \A t \in Scripts : (Started(t)' <=> Started(t)) /\ (Living(t)' => Living(t)),
           \/ Logs' \subseteq Logs
           \/ \E s \in Scripts : Living(s) /\ Logs' = Logs \cup {s}
    PROVE  OneScript' /\ Guarded' /\ OneWriter'
  <1>1. OneScript' /\ Guarded'
    BY DEF OneScript, Guarded, Active
  <1>2. OneWriter'
    BY DEF OneScript, Guarded, OneWriter, Active
  <1>3. QED
    BY <1>1, <1>2

LEMMA OthersMove ==
    ASSUME LaunchTypes, Fresh, OneScript, Guarded, OneWriter, NEW s \in Scripts,
           Redirects(s) \/ OtherOpensLog(s) \/ OtherEnds(s)
    PROVE  OneScript' /\ Guarded' /\ OneWriter'
  <1>1. UNCHANGED <<script, pid_file>> /\ UNCHANGED <<main, this>>
    BY DEF Redirects, OtherOpensLog, OtherEnds, Process, vars, scriptVars
  <1>2. /\ process[s] \in {"forked", "running", "logging"}
        /\ \/ process' = [process EXCEPT ![s] = "running"]
           \/ process' = [process EXCEPT ![s] = "logging"]
           \/ process' = [process EXCEPT ![s] = "ended"]
        /\ OtherEnds(s) \/ s # this \/ process[s] = "forked"
    BY DEF LaunchTypes, Redirects, OtherOpensLog, OtherEnds, Process
  <1>3. DOMAIN process = Scripts
    BY DEF LaunchTypes
  <1>4. \A t \in Scripts : (Started(t)' <=> Started(t)) /\ (Living(t)' => Living(t))
    BY <1>1, <1>2, <1>3 DEF Living, Started, Alive
  <1>5. CASE OtherEnds(s)
    BY <1>1, <1>4, <1>5, ProcessesMove DEF OtherEnds, Logs
  <1>6. CASE Redirects(s) \/ OtherOpensLog(s)
    <2>1. Logs' = Logs \cup {s}
      BY <1>6 DEF Redirects, OtherOpensLog, Logs
    <2>2. CASE Living(s)
      BY <1>1, <1>4, <2>1, <2>2, ProcessesMove
    <2>3. CASE ~Living(s)
      BY <1>2, <1>6, <2>3, ScriptAssumption
         DEF Living, Started, Alive, Redirects, OtherOpensLog, Process, Fresh
    <2>4. QED
      BY <2>2, <2>3
  <1>7. QED
    BY <1>5, <1>6

\* A producer that opens its timing log is alive, and one that has ended stays so.
LEMMA ProducerEnds ==
    ASSUME [Next]_vars
    PROVE  /\ main = "exited" => main' = "exited"
           /\ log = "none" /\ log' = "open" => main # "exited"
  <1> USE DEF bufferVars, sharedVars, boundVars, Goes, Constructing
  <1>1. CASE MainStep
    BY <1>1 DEF MainStep, Configure, OpenLog, Create, ReadServerConfig, ReadConnectionInfo,
                LoadOperation, Connect, ShareConnection, StartMonitor, Launch, OpenStream,
                StartWorker, Assign, Write, LoopEnds, BeginClose, Join, Release, CloseLog, Exit,
                AttemptFails
  <1>2. CASE ExitCommandFails \/ Interrupt
    BY <1>2 DEF ExitCommandFails, Interrupt
  <1>3. CASE WorkerStep \/ ConnectionLost \/ RelaunchFails
    BY <1>3 DEF WorkerStep, WorkerTakes, WorkerReturns, Acknowledged, Relaunched,
                ConnectionLost, RelaunchFails
  <1>4. CASE Publish \/ MonitorNotices \/ Done \/ UNCHANGED vars
    BY <1>4 DEF Publish, MonitorNotices, Done, vars
  <1>5. QED
    BY <1>1, <1>2, <1>3, <1>4 DEF Next

LEMMA ThisMoves ==
    ASSUME LaunchTypes, OneScript, Guarded, OneWriter, This(Next)
    PROVE  OneScript' /\ Guarded' /\ OneWriter'
  <1>1. UNCHANGED <<script, pid_file>> /\ UNCHANGED <<process, this, stdout_log>>
    BY DEF This, scriptVars
  <1>2. /\ main = "exited" => main' = "exited"
        /\ log = "none" /\ log' = "open" => main # "exited"
    BY ProducerEnds DEF This
  <1>3. \A t \in Scripts : (Started(t)' <=> Started(t)) /\ (Living(t)' => Living(t))
    BY <1>1, <1>2 DEF Living, Started, Alive
  <1>4. Logs' = Logs \/ (this \in Scripts /\ Living(this) /\ Logs' = Logs \cup {this})
    BY <1>1, <1>2 DEF This, Logs, Living, Started, Alive, LaunchTypes
  <1>5. QED
    BY <1>1, <1>3, <1>4, ProcessesMove

LEMMA FreshStep == ASSUME LaunchTypes, Fresh, [LaunchNext]_launchVars PROVE Fresh'
  <1>1. ASSUME NEW s \in Scripts,
               Begins(s) \/ TestsPid(s) \/ TestsLogs(s) \/ WritesPid(s) \/ Killed(s)
        PROVE  Fresh'
    <2>1. UNCHANGED <<this, process>> /\ UNCHANGED main
      BY <1>1 DEF Begins, TestsPid, TestsLogs, WritesPid, Killed, Script, processVars, vars
    <2>2. /\ script[s] # "over" /\ DOMAIN script = Scripts
          /\ \/ script[s] \notin {"writing pid", "over"}
                /\ \E to \in {"testing pid", "testing logs", "starting", "over"} :
                      script' = [script EXCEPT ![s] = to]
             \/ script' = [script EXCEPT ![s] = "over"]
      BY <1>1 DEF Begins, TestsPid, TestsLogs, WritesPid, Killed, Script, LaunchTypes
    <2>3. QED
      BY <2>1, <2>2 DEF Fresh, Started
  <1>2. ASSUME NEW s \in Scripts, Starts(s) PROVE Fresh'
    <2>1. /\ UNCHANGED main /\ script[s] # "over"
          /\ this' = IF this = 0 THEN s ELSE this
          /\ process' = [process EXCEPT ![s] = "forked"]
          /\ script' = [script EXCEPT ![s] = "writing pid"]
      BY <1>2 DEF Starts, Script, vars
    <2>2. s # this
      BY <1>2, ScriptAssumption DEF Starts, Script, Fresh, Started, LaunchTypes
    <2>3. QED
      BY <2>1, <2>2, ScriptAssumption DEF Fresh, Started, LaunchTypes
  <1>3. ASSUME NEW s \in Scripts, Redirects(s) \/ OtherOpensLog(s) \/ OtherEnds(s)
        PROVE  Fresh'
    BY <1>3 DEF Redirects, OtherOpensLog, OtherEnds, Process, Fresh, Started, LaunchTypes,
                scriptVars, vars
  <1>4. CASE This(Next)
    BY <1>4 DEF This, Fresh, Started, scriptVars
  <1>5. CASE RemoveLogs \/ UNCHANGED launchVars
    BY <1>5 DEF RemoveLogs, launchVars, scriptVars, processVars, vars, Fresh, Started
  <1>6. QED
    BY <1>1, <1>2, <1>3, <1>4, <1>5 DEF LaunchNext

\* launch.sh: "refusing to start another", "refusing to append".  While launches follow one
\* another, and none is killed before it has written the pid file, at most one producer
\* runs and a log is that of one run.
THEOREM OneProducerAtATime == LaunchSpec => []OneRunAtATime
  <1>1. LaunchInit => LaunchInv
    BY DEF LaunchInit, Init, LaunchInv, LaunchTypes, Fresh, OneScript, Guarded, OneWriter,
           Active, Started, Living, Logs
  <1>2. LaunchInv /\ [LaunchNext]_launchVars => LaunchInv'
    <2> SUFFICES ASSUME LaunchInv, [LaunchNext]_launchVars PROVE LaunchInv'
      OBVIOUS
    <2>1. LaunchTypes'
      BY ScriptTypeStep, ProcessTypeStep, ThisTypeStep DEF LaunchInv, LaunchNext
    <2>2. Fresh'
      BY FreshStep DEF LaunchInv
    <2>3. ASSUME ~disturbed' PROVE ~disturbed
      BY <2>3
         DEF LaunchInv, LaunchTypes, LaunchNext, launchVars, scriptVars, Begins, TestsPid,
             TestsLogs, Starts, WritesPid, Killed, Redirects, OtherOpensLog, OtherEnds, This,
             RemoveLogs
    <2>4. ASSUME ~disturbed' PROVE OneScript' /\ Guarded' /\ OneWriter'
      <3>1. LaunchTypes /\ Fresh /\ OneScript /\ Guarded /\ OneWriter
        BY <2>3, <2>4 DEF LaunchInv
      <3>2. ASSUME NEW s \in Scripts,
                   \/ Begins(s) \/ TestsPid(s) \/ TestsLogs(s) \/ Starts(s) \/ WritesPid(s)
                   \/ Killed(s) \/ Redirects(s) \/ OtherOpensLog(s) \/ OtherEnds(s)
            PROVE  OneScript' /\ Guarded' /\ OneWriter'
        BY <2>4, <3>1, <3>2, ScriptMoves, ScriptStarts, ScriptWrites, OthersMove
      <3>3. CASE This(Next)
        BY <3>1, <3>3, ThisMoves
      <3>4. CASE RemoveLogs \/ UNCHANGED launchVars
        <4>1. /\ UNCHANGED <<script, pid_file>> /\ UNCHANGED <<process, this, main>>
              /\ Logs' \subseteq Logs
          BY <3>4 DEF RemoveLogs, launchVars, scriptVars, processVars, vars, Logs
        <4>2. \A t \in Scripts : (Started(t)' <=> Started(t)) /\ (Living(t)' => Living(t))
          BY <4>1 DEF Living, Started, Alive
        <4>3. QED
          BY <3>1, <4>1, <4>2, ProcessesMove
      <3>5. QED
        BY <3>2, <3>3, <3>4 DEF LaunchNext
    <2>5. QED
      BY <2>1, <2>2, <2>4 DEF LaunchInv
  <1>3. LaunchInv => OneRunAtATime
    <2> SUFFICES ASSUME LaunchInv, ~disturbed PROVE
                 /\ Cardinality({s \in Scripts : process[s] # "none" /\ Alive(s)}) <= 1
                 /\ Cardinality(stdout_log) <= 1 /\ Cardinality(timing_log) <= 1
      BY DEF OneRunAtATime
    <2>1. ASSUME NEW S, \A x, y \in S : x = y PROVE Cardinality(S) <= 1
      <3>1. CASE S = {}
        BY <3>1, FS_EmptySet
      <3>2. ASSUME NEW x \in S PROVE Cardinality(S) <= 1
        <4>1. S = {x}
          BY <2>1
        <4>2. Cardinality({x}) = 1
          BY FS_Singleton
        <4>3. QED
          BY <4>1, <4>2
      <3>3. QED
        BY <3>1, <3>2
    <2>2. \A s, t \in Scripts : Living(s) /\ Living(t) => s = t
      BY DEF LaunchInv, OneScript, Guarded, Active
    <2>3. \A s, t \in {r \in Scripts : process[r] # "none" /\ Alive(r)} : s = t
      BY <2>2 DEF Living, Started
    <2>4. /\ \A s, t \in stdout_log : s = t
          /\ \A s, t \in timing_log : s = t
      BY DEF LaunchInv, OneWriter, Logs
    <2>5. QED
      BY <2>1, <2>3, <2>4
  <1>4. QED
    BY <1>1, <1>2, <1>3, PTL DEF LaunchSpec

===============================================================================
