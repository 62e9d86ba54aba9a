--------------------------- MODULE ProducerProcess ---------------------------
(***************************************************************************)
(* One producer process, from heat2d of mockProducer.py to the end of the  *)
(* interpreter: what IO.create, RestartingSingleSocketIO and BufferedIO    *)
(* acquire (a timing log, two notifier threads, an SSH control connection  *)
(* with its directory, the key monitor process, a connection to the        *)
(* consumer, the writer thread), and who releases it when construction     *)
(* fails, a write fails, or Ctrl-C arrives, at any point and twice.        *)
(*                                                                         *)
(* The main and the writer thread are here in the steps in which they use  *)
(* these resources; what BufferedIO and RestartingSingleSocketIO do with   *)
(* the snapshots is the subject of the modules of those names.             *)
(***************************************************************************)
EXTENDS Integers

CONSTANTS
    Steps, Capacity,             \* snapshots of the run, and of the queue
    MaxFaults, MaxInterrupts     \* bounds on failures and on Ctrl-C

ASSUME CountAssumption ==
    Steps \in Nat /\ Capacity \in Nat \ {0} /\ MaxFaults \in Nat /\ MaxInterrupts \in Nat

VARIABLES
    remote,       \* whether the destination is a server.conf
    main, worker, \* where the two threads are; the worker is "none" before its start
    log,          \* the timing log: "none", "open" or "closed"
    running,      \* the resources acquired and not released
    unsent,       \* the notifiers whose thread still has messages to handle
    step, queue,  \* snapshots handed to write(), and waiting in the deque
    closing, closed, error,      \* of BufferedIO
    final,        \* whether heat2d is in its finally clause
    helper,       \* the resource close() is at, an index of Helpers
    faults, interrupts,
    mishaps       \* what of the reasons for a leak there was: see Interrupt

bufferVars  == <<step, queue, closing, closed, error>>
sharedVars  == <<log, running, unsent>>
boundVars   == <<faults, interrupts, mishaps>>
vars == <<remote, main, worker, sharedVars, bufferVars, final, helper, boundVars>>

\* In the order in which RestartingSingleSocketIO.close releases them.
Helpers == <<"connection", "monitor", "control", "info", "alert">>
Notifiers == {"info", "alert"}
Resources == Notifiers \cup {"connection", "monitor", "control", "directory"}
Constructing == {"start", "opening", "creating", "configuring", "reading", "preparing",
                 "connecting", "sharing", "monitoring", "launching", "tunnelling",
                 "unwinding", "starting", "assigning"}
Closing == {"closing", "finally", "joining", "releasing"}
Leaving == {"leaving", "returned", "exited"}

TypeOK ==
    /\ remote \in BOOLEAN
    /\ main \in Constructing \cup {"simulating"} \cup Closing \cup Leaving
    /\ worker \in {"none", "waiting", "writing", "relaunching", "ended"}
    /\ log \in {"none", "open", "closed"}
    /\ running \subseteq Resources /\ unsent \subseteq Notifiers
    /\ step \in 0 .. Steps /\ queue \in 0 .. Capacity
    /\ {closing, closed, error, final} \subseteq BOOLEAN
    /\ helper \in 1 .. 5 /\ faults \in 0 .. MaxFaults /\ interrupts \in 0 .. MaxInterrupts
    /\ mishaps \subseteq {"construct", "finally", "exit", "flush"}

Init ==
    /\ remote \in BOOLEAN /\ main = "start" /\ worker = "none"
    /\ log = "none" /\ running = {} /\ unsent = {}
    /\ step = 0 /\ queue = 0 /\ closing = FALSE /\ closed = FALSE /\ error = FALSE
    /\ final = FALSE /\ helper = 1 /\ faults = 0 /\ interrupts = 0 /\ mishaps = {}

Goes(from, to) == main = from /\ main' = to
Fault == faults < MaxFaults /\ faults' = faults + 1 /\ UNCHANGED <<interrupts, mishaps>>
MishapFault(mishap) ==
    /\ faults < MaxFaults /\ faults' = faults + 1
    /\ mishaps' = mishaps \cup {mishap} /\ UNCHANGED interrupts

-------------------------------------------------------------------------------
(* Construction: Settings, TimingLog, IO.create, the two outputs.          *)

\* Settings parses the arguments, or raises with nothing acquired.
Configure ==
    /\ \/ Goes("start", "opening") /\ UNCHANGED boundVars
       \/ Goes("start", "leaving") /\ Fault
    /\ UNCHANGED <<remote, worker, sharedVars, bufferVars, final, helper>>

OpenLog ==
    /\ \/ Goes("opening", "creating") /\ log' = "open" /\ UNCHANGED boundVars
       \/ Goes("opening", "leaving") /\ Fault /\ UNCHANGED log
    /\ UNCHANGED <<remote, worker, running, unsent, bufferVars, final, helper>>

\* IO.create reads the private key and looks at the destination.
Create ==
    /\ \/ Goes("creating", IF remote THEN "configuring" ELSE "reading") /\ UNCHANGED boundVars
       \/ Goes("creating", "leaving") /\ Fault
    /\ UNCHANGED <<remote, worker, sharedVars, bufferVars, final, helper>>

\* server.conf is read and every value in it checked.
ReadServerConfig ==
    /\ \/ Goes("configuring", "preparing") /\ UNCHANGED boundVars
       \/ Goes("configuring", "leaving") /\ Fault
    /\ UNCHANGED <<remote, worker, sharedVars, bufferVars, final, helper>>

\* The connection file is read and decrypted; a name that is no file is an ADIOS output.
ReadConnectionInfo ==
    /\ \/ Goes("reading", "preparing") /\ UNCHANGED boundVars
       \/ Goes("reading", "leaving") /\ Fault
    /\ UNCHANGED <<remote, worker, sharedVars, bufferVars, final, helper>>

\* The compression is configured, and its library found.
LoadOperation ==
    /\ \/ Goes("preparing", IF remote THEN "sharing" ELSE "connecting")
          /\ running' = (IF remote THEN Notifiers ELSE {}) /\ UNCHANGED boundVars
       \/ Goes("preparing", "leaving") /\ Fault /\ UNCHANGED running
    /\ UNCHANGED <<remote, worker, log, unsent, bufferVars, final, helper>>

\* The directory of the control socket is made, after the start of the notifiers and
\* before the try clause that would close them again.
ShareConnection ==
    /\ \/ Goes("sharing", "monitoring") /\ UNCHANGED boundVars
          /\ running' = running \cup {"directory"}
       \/ Goes("sharing", "leaving") /\ MishapFault("construct") /\ UNCHANGED running
    /\ UNCHANGED <<remote, worker, log, unsent, bufferVars, final, helper>>

\* SingleSocketIO or SocketIO; a constructor that raises has closed its connections.
Connect ==
    /\ \/ Goes("connecting", "starting") /\ running' = {"connection"} /\ UNCHANGED boundVars
       \/ Goes("connecting", "leaving") /\ Fault /\ UNCHANGED running
    /\ UNCHANGED <<remote, worker, log, unsent, bufferVars, final, helper>>

StartMonitor ==
    /\ \/ /\ Goes("monitoring", "launching") /\ running' = running \cup {"monitor"}
          /\ UNCHANGED <<boundVars, helper>>
       \/ Goes("monitoring", "unwinding") /\ Fault /\ helper' = 2 /\ UNCHANGED running
    /\ UNCHANGED <<remote, worker, log, unsent, bufferVars, final>>

\* The first command through ssh leaves the control connection behind (ControlPersist),
\* also when it fails; the attempts go on, or the last one raises.
AttemptFails ==
    /\ main' \in {"launching", "unwinding"} /\ Fault /\ helper' = 2

Launch ==
    /\ running' \in {running, running \cup {"control"}}
    /\ \/ /\ Goes("launching", "tunnelling") /\ "control" \in running'
          /\ UNCHANGED <<boundVars, helper>>
       \/ main = "launching" /\ AttemptFails
    /\ UNCHANGED <<remote, worker, log, unsent, bufferVars, final>>

\* A socket through ssh, or a direct one, and the handshake; the start is announced.
OpenStream ==
    /\ \/ /\ Goes("tunnelling", "starting") /\ UNCHANGED <<boundVars, helper>>
          /\ running' = running \cup {"connection"} /\ unsent' = {"info"}
       \/ main = "tunnelling" /\ AttemptFails /\ UNCHANGED <<running, unsent>>
    /\ UNCHANGED <<remote, worker, log, bufferVars, final>>

\* BufferedIO starts its thread; if it cannot, the output is in no variable of heat2d.
StartWorker ==
    /\ \/ Goes("starting", "assigning") /\ worker' = "waiting" /\ UNCHANGED boundVars
       \/ Goes("starting", "leaving") /\ MishapFault("construct") /\ UNCHANGED worker
    /\ UNCHANGED <<remote, sharedVars, bufferVars, final, helper>>

Assign ==
    /\ Goes("assigning", "simulating")
    /\ UNCHANGED <<remote, worker, sharedVars, bufferVars, final, helper, boundVars>>

-------------------------------------------------------------------------------
(* The simulation, and the two calls of close().                           *)

\* timed_write: the snapshot is queued, evicting one if need be, or the exception of a
\* failed writer is raised and leads to the finally clause.
Write ==
    /\ main = "simulating" /\ step < Steps
    /\ IF error \/ closing
         THEN main' = "finally" /\ UNCHANGED <<step, queue>>
         ELSE /\ step' = step + 1 /\ UNCHANGED main
              /\ queue' = IF queue < Capacity THEN queue + 1 ELSE queue
    /\ UNCHANGED <<remote, worker, sharedVars, closing, closed, error, final, helper, boundVars>>

LoopEnds ==
    /\ Goes("simulating", "closing") /\ step = Steps
    /\ UNCHANGED <<remote, worker, sharedVars, bufferVars, final, helper, boundVars>>

\* Faulty variant: it returns when a call has begun.
ReturnsOnceBegun == closing

\* BufferedIO.close: it returns at once when an earlier call went through.
ReturnsAtOnce == closed
BeginClose ==
    /\ main \in {"closing", "finally"} /\ final' = (main = "finally")
    /\ IF ReturnsAtOnce THEN main' = "leaving" /\ UNCHANGED closing
                     ELSE main' = "joining" /\ closing' = TRUE
    /\ UNCHANGED <<remote, worker, sharedVars, step, queue, closed, error, helper, boundVars>>

Join ==
    /\ Goes("joining", "releasing") /\ worker = "ended" /\ helper' = 1
    /\ UNCHANGED <<remote, worker, sharedVars, bufferVars, final, boundVars>>

\* The next resource to release; after the last one the output is closed, and heat2d
\* comes to its finally clause, whether or not close() raised.
NextHelper ==
    IF helper < 5 /\ remote
      THEN helper' = helper + 1 /\ UNCHANGED <<main, closed>>
      ELSE /\ closed' = (main = "releasing" \/ closed) /\ UNCHANGED helper
           /\ main' = IF main = "unwinding" \/ final THEN "leaving" ELSE "finally"

\* Faulty variant: the directory is left behind.
FreedAlone(h) == {h}

\* A notifier is joined when its thread has handled its messages; the control connection is
\* told to exit, and its directory removed.
Freed(h) == IF h = "control" THEN {"control", "directory"} ELSE {h}
Release ==
    /\ main \in {"releasing", "unwinding"} /\ Helpers[helper] \notin unsent
    /\ running' = running \ Freed(Helpers[helper])
    /\ NextHelper
    /\ UNCHANGED <<remote, worker, log, unsent, step, queue, closing, error, final, boundVars>>

\* "ssh -O exit" fails or takes longer than five seconds: that is passed over.
ExitCommandFails ==
    /\ main \in {"releasing", "unwinding"} /\ Helpers[helper] = "control"
    /\ IF "control" \in running THEN MishapFault("exit") ELSE Fault
    /\ running' = running \ {"directory"}
    /\ NextHelper
    /\ UNCHANGED <<remote, worker, log, unsent, step, queue, closing, error, final>>

CloseLog ==
    /\ Goes("leaving", "returned")
    /\ log' = IF log = "open" THEN "closed" ELSE log
    /\ UNCHANGED <<remote, worker, running, unsent, bufferVars, final, helper, boundVars>>

\* The interpreter waits for the writer thread, which is no daemon.  Sockets, daemon
\* threads and temporary directories end with the process, other processes do not.
Exit ==
    /\ Goes("returned", "exited") /\ worker \in {"none", "ended"}
    /\ running' = running \cap {"monitor", "control"}
    /\ UNCHANGED <<remote, worker, log, unsent, bufferVars, final, helper, boundVars>>

\* Ctrl-C.  It is no Exception: no except clause of a constructor runs, and heat2d, which
\* has no output yet, closes its log only.  The first one after that leads to the finally
\* clause, and one in the finally clause past the output.  In the close() of the output
\* it ends the release of one helper, the others follow.
Interrupt ==
    /\ interrupts < MaxInterrupts /\ interrupts' = interrupts + 1
    /\ \/ /\ main \in Constructing /\ main' = "leaving"
          /\ mishaps' = mishaps \cup {"construct"} /\ UNCHANGED <<running, helper, closed>>
       \/ /\ main \in {"simulating", "closing"} \/ (main = "joining" /\ ~final)
          /\ main' = "finally" /\ UNCHANGED <<mishaps, running, helper, closed>>
       \/ /\ main = "finally" \/ (main = "joining" /\ final)
          /\ main' = "leaving" /\ UNCHANGED <<running, helper, closed>>
          /\ mishaps' = IF closed THEN mishaps ELSE mishaps \cup {"finally"}
       \/ /\ main = "releasing"
          /\ running' = running \ (Freed(Helpers[helper]) \ {Helpers[helper]})
          /\ mishaps' = mishaps \cup CASE Helpers[helper] = "control" -> {"exit"}
                                       [] Helpers[helper] \in unsent -> {"flush"}
                                       [] OTHER -> {}
          /\ NextHelper
    /\ UNCHANGED <<remote, worker, log, unsent, step, queue, closing, error, final, faults>>

-------------------------------------------------------------------------------
(* The writer thread, in _write_pending, and what else runs.               *)

WorkerTakes ==
    /\ worker = "waiting" /\ queue > 0
    /\ worker' = "writing" /\ queue' = queue - 1
    /\ UNCHANGED <<remote, main, sharedVars, step, closing, closed, error, final, helper,
                   boundVars>>

\* Faulty variant: the worker waits for close() to be over.
DrainedOnceClosed == queue = 0 /\ closed
Drained == queue = 0 /\ closing

WorkerReturns ==
    /\ worker = "waiting" /\ Drained
    /\ worker' = "ended"
    /\ UNCHANGED <<remote, main, sharedVars, bufferVars, final, helper, boundVars>>

Acknowledged ==
    /\ worker = "writing" /\ worker' = "waiting"
    /\ UNCHANGED <<remote, main, sharedVars, bufferVars, final, helper, boundVars>>

\* An exception that is not retried, as that of a record in a closed log, ends the
\* thread and clears the queue.
WorkerFails == worker' = "ended" /\ error' = TRUE /\ closing' = TRUE /\ queue' = 0
WorkerGoes(to) == worker' = to /\ UNCHANGED <<error, closing, queue>>

\* The write fails.  A remote output records it, announces it and drops its connection,
\* unless the exception is a ValueError, which ends the thread as without a relaunch.
ConnectionLost ==
    /\ worker = "writing" /\ Fault
    /\ \/ /\ remote /\ log = "open" /\ WorkerGoes("relaunching")
          /\ running' = running \ {"connection"} /\ unsent' = unsent \cup {"info"}
       \/ WorkerFails /\ UNCHANGED <<running, unsent>>
    /\ UNCHANGED <<remote, main, log, step, closed, final, helper>>

Relaunched ==
    /\ worker = "relaunching" /\ running' = running \cup {"control", "connection"}
    /\ IF log = "open" THEN WorkerGoes("writing") /\ unsent' = unsent \cup {"info"}
                       ELSE WorkerFails /\ UNCHANGED unsent
    /\ UNCHANGED <<remote, main, log, step, closed, final, helper, boundVars>>

\* The failure is recorded, and the first of a series alerted.  The last attempt raises;
\* so does one whose answer is a ValueError, without record and alert.
RelaunchFails ==
    /\ worker = "relaunching" /\ Fault
    /\ running' \in {running, running \cup {"control"}}
    /\ IF log = "open" THEN WorkerFails \/ WorkerGoes("relaunching") ELSE WorkerFails
    /\ unsent' \in IF log = "open" THEN {unsent, unsent \cup {"alert"}} ELSE {unsent}
    /\ UNCHANGED <<remote, main, log, step, closed, final, helper>>

\* A notifier's thread, daemon as it is, publishes while the process runs.  One that died
\* of a message holds nobody up either; what then is not sent is the subject of Notifier.
Publish ==
    /\ \E n \in unsent \cap running : unsent' = unsent \ {n}
    /\ UNCHANGED <<remote, main, worker, log, running, bufferVars, final, helper, boundVars>>

\* The monitor finds that its parent is gone: see KeyMonitor.
MonitorNotices ==
    /\ main = "exited" /\ "monitor" \in running /\ running' = running \ {"monitor"}
    /\ UNCHANGED <<remote, main, worker, log, unsent, bufferVars, final, helper, boundVars>>

-------------------------------------------------------------------------------

\* The worker waits for a close() that nobody will call.
Abandoned == main = "returned" /\ worker = "waiting" /\ queue = 0 /\ ~closing

Done == (main = "exited" \/ Abandoned) /\ UNCHANGED vars

MainStep ==
    \/ Configure \/ OpenLog \/ Create \/ ReadServerConfig \/ ReadConnectionInfo
    \/ LoadOperation \/ Connect \/ ShareConnection \/ StartMonitor \/ Launch \/ OpenStream
    \/ StartWorker \/ Assign \/ Write \/ LoopEnds \/ BeginClose \/ Join \/ Release
    \/ CloseLog \/ Exit
WorkerStep == WorkerTakes \/ WorkerReturns \/ Acknowledged \/ Relaunched

Next ==
    \/ MainStep \/ ExitCommandFails \/ Interrupt
    \/ WorkerStep \/ ConnectionLost \/ RelaunchFails
    \/ Publish \/ MonitorNotices \/ Done

\* Threads run; a publication, a command, and with it a relaunch end by their timeouts.
Fairness ==
    WF_vars(MainStep) /\ WF_vars(WorkerStep) /\ WF_vars(Publish) /\ WF_vars(MonitorNotices)

Spec == Init /\ [][Next]_vars
FairSpec == Spec /\ Fairness

-------------------------------------------------------------------------------

Over == main \in {"returned", "exited"}

\* When heat2d has returned, whatever failed before, its output has released what it
\* acquired: no control connection, monitor or directory stays, and no notifier that lives
\* has a message left.  After Ctrl-C this is so unless it came at one of four points, which
\* mishaps names: during construction, where no except clause catches it; in the finally
\* clause of heat2d; in the command that ends the control connection; in the join of a
\* notifier.  A connection or monitor may then end with the process.
Released ==
    Over /\ mishaps = {} =>
       /\ running \subseteq IF interrupts = 0 THEN {} ELSE Resources \ {"control", "directory"}
       /\ unsent = {}

\* heat2d closes the timing log when the writer thread has ended, so that no record of a
\* relaunch falls on a closed log, unless a second Ctrl-C ends the close() of its finally
\* clause or the output was never assigned.
LogOutlivesWorker ==
    log = "closed" /\ worker \notin {"none", "ended"} =>
       mishaps \cap {"construct", "finally"} # {}

\* The process ends, the key monitor after it, whatever fails and whenever Ctrl-C comes;
\* except that a writer thread which no close() has told to stop waits for ever.
Exits ==
    /\ main # "start" ~> main = "exited" \/ Abandoned
    /\ main = "exited" ~> "monitor" \notin running
===============================================================================
