------------------------------- MODULE Launch -------------------------------
(***************************************************************************)
(* launch.sh and the producers it starts in the background.  The script    *)
(* refuses to start a second producer of a configuration by the pid in a   *)
(* file and by the log files that exist.  The pid file is written after    *)
(* the start, and the log files by the started process: the first by its   *)
(* shell, the second by TimingLog.                                         *)
(*                                                                         *)
(* Process s is started by script s.  The first one started is the process *)
(* of ProducerProcess, of the others only what scripts can see is kept.    *)
(* A background process ignores Ctrl-C; when no script has started one,    *)
(* the process of ProducerProcess is run by hand, in the foreground.       *)
(***************************************************************************)
EXTENDS ProducerProcess, FiniteSets

CONSTANT Scripts       \* the runs of launch.sh, numbers

ASSUME ScriptAssumption == Scripts \subseteq Nat \ {0}

VARIABLES
    script, pid_file,         \* where each script is; the process named, or 0
    process, this,            \* where each process is; the one in detail, or 0
    stdout_log, timing_log,   \* the processes that opened the file, {} if there is none
    disturbed                 \* two scripts overlapped, or one was killed too early

scriptVars == <<script, pid_file, disturbed>>
processVars == <<process, this, stdout_log, timing_log>>

LaunchInit ==
    /\ Init
    /\ \E s \in {"idle", "over"} : script = [i \in Scripts |-> s]
    /\ pid_file = 0 /\ disturbed = FALSE
    /\ process = [s \in Scripts |-> "none"] /\ this = 0
    /\ stdout_log = {} /\ timing_log = {}

Script(s, from, to) ==
    script[s] = from /\ script' = [script EXCEPT ![s] = to] /\ UNCHANGED vars
Process(s, from, to) ==
    process[s] \in from /\ process' = [process EXCEPT ![s] = to] /\ UNCHANGED this

\* kill -0
Alive(s) == IF s = this THEN main # "exited" ELSE process[s] \notin {"none", "ended"}

-------------------------------------------------------------------------------
(* The script.                                                             *)

Begins(s) ==
    /\ Script(s, "idle", "testing pid")
    /\ disturbed' = (disturbed \/ \E t \in Scripts : script[t] \notin {"idle", "over"})
    /\ UNCHANGED <<pid_file, processVars>>

\* Faulty variant: the process named in the file is not looked at.
NeverRefused == FALSE

\* "Producer process is already running; refusing to start another."
Refused == pid_file # 0 /\ Alive(pid_file)

\* "Run logs already exist; refusing to append to them."
LogsExist == stdout_log \cup timing_log # {}

TestsPid(s) ==
    /\ Script(s, "testing pid", IF Refused THEN "over" ELSE "testing logs")
    /\ UNCHANGED <<pid_file, disturbed, processVars>>

TestsLogs(s) ==
    /\ Script(s, "testing logs", IF LogsExist THEN "over" ELSE "starting")
    /\ UNCHANGED <<pid_file, disturbed, processVars>>

Starts(s) ==
    /\ Script(s, "starting", "writing pid")
    /\ process' = [process EXCEPT ![s] = "forked"]
    /\ this' = IF this = 0 THEN s ELSE this
    /\ UNCHANGED <<pid_file, disturbed, stdout_log, timing_log>>

WritesPid(s) ==
    /\ Script(s, "writing pid", "over") /\ pid_file' = s
    /\ UNCHANGED <<disturbed, processVars>>

Killed(s) ==
    /\ script[s] \notin {"idle", "over"} /\ Script(s, script[s], "over")
    /\ disturbed' = (disturbed \/ script[s] = "writing pid")
    /\ UNCHANGED <<pid_file, processVars>>

-------------------------------------------------------------------------------
(* The processes, and the operator, who may remove the logs of a run.      *)

\* The shell of the process opens its stdout and then runs python.
Redirects(s) ==
    /\ Process(s, {"forked"}, "running") /\ stdout_log' = stdout_log \cup {s}
    /\ UNCHANGED <<vars, scriptVars, timing_log>>

This(action) ==
    /\ \/ this # 0 /\ process[this] = "running" /\ UNCHANGED interrupts
       \/ this = 0 /\ \A s \in Scripts : script[s] = "over"
    /\ action
    /\ timing_log' = timing_log \cup IF log = "none" /\ log' = "open" THEN {this} \ {0} ELSE {}
    /\ UNCHANGED <<scriptVars, process, this, stdout_log>>

OtherOpensLog(s) ==
    /\ s # this /\ Process(s, {"running"}, "logging") /\ timing_log' = timing_log \cup {s}
    /\ UNCHANGED <<vars, scriptVars, stdout_log>>

OtherEnds(s) ==
    /\ s # this /\ Process(s, {"forked", "running", "logging"}, "ended")
    /\ UNCHANGED <<vars, scriptVars, stdout_log, timing_log>>

RemoveLogs ==
    /\ LogsExist /\ stdout_log' = {} /\ timing_log' = {}
    /\ UNCHANGED <<vars, scriptVars, process, this>>

LaunchNext ==
    \/ \E s \in Scripts :
          \/ Begins(s) \/ TestsPid(s) \/ TestsLogs(s) \/ Starts(s) \/ WritesPid(s)
          \/ Killed(s) \/ Redirects(s) \/ OtherOpensLog(s) \/ OtherEnds(s)
    \/ This(Next) \/ RemoveLogs

launchVars == <<vars, scriptVars, processVars>>
LaunchSpec ==
    /\ LaunchInit /\ [][LaunchNext]_launchVars
    /\ WF_launchVars(This(MainStep)) /\ WF_launchVars(This(WorkerStep))
    /\ WF_launchVars(This(Publish)) /\ WF_launchVars(This(MonitorNotices))

-------------------------------------------------------------------------------

\* launch.sh: "refusing to start another", "refusing to append".  While launches follow
\* one another, and none is killed between the start of its producer and the pid file, at
\* most one producer runs and no two runs write to one log, although the logs appear late
\* and may be removed at any time.
OneRunAtATime ==
    ~disturbed =>
       /\ Cardinality({s \in Scripts : process[s] # "none" /\ Alive(s)}) <= 1
       /\ Cardinality(stdout_log) <= 1 /\ Cardinality(timing_log) <= 1
===============================================================================
