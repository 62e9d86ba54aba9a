------------------------------ MODULE KeyMonitor ------------------------------
(***************************************************************************)
(* The monitor of the SSH certificate: SSHKeyExpiryChecker and monitor of  *)
(* ssh_key_monitor.py, a process of its own that                           *)
(* SSHKeyMonitorProcess of remote_consumer_io.py starts and stops.         *)
(*                                                                         *)
(* Each check takes the time, then has ssh-keygen read the file, and       *)
(* alerts at most once of each condition of one certificate.  Between      *)
(* checks the main thread waits on an Event that the signal handlers set;  *)
(* the handlers run in that thread too, whatever it is doing.              *)
(*                                                                         *)
(* A file is <<valid_after, valid_before>>, or <<reason>> when it cannot   *)
(* be read.  Time is counted in the unit of Hours.                         *)
(***************************************************************************)
EXTENDS Integers, Sequences

CONSTANTS
    Hours,          \* EXPIRY_WARNING_HOURS
    Lifetimes,      \* how long a new certificate is valid
    Reasons,        \* why a file cannot be read
    MaxTime,        \* bound on the time
    MaxChanges,     \* bound on the changes of the file
    MaxInterrupts   \* bound on the interrupts typed at the terminal

ASSUME SetAssumption == Hours \subseteq Nat \ {0} /\ Lifetimes \subseteq Nat \ {0}
ASSUME BoundAssumption == MaxTime \in Nat /\ MaxChanges \in Nat /\ MaxInterrupts \in Nat

VARIABLES
    \* the surroundings: the time, the certificate file and how often it changed
    time, file, changes,
    \* the checker: the time it took, and what it remembers between checks
    now, validity, warned_hours, read_error, not_yet_valid, expired,
    \* the alerts: [kind, file, change], and those sent more than once
    sent, repeated,
    \* the monitor's main thread and its Event, the producer, the interrupts
    monitor, stop_event, producer, interrupts

fileVars    == <<file, changes>>
memoryVars  == <<validity, warned_hours, read_error, not_yet_valid, expired>>
alertVars   == <<sent, repeated>>
processVars == <<stop_event, producer, interrupts>>

vars == <<time, fileVars, now, memoryVars, alertVars, monitor, processVars>>

Readable(f) == Len(f) = 2

\* What an alert is about: a threshold of Hours, or one of these.
Expired == 0
NotYetValid == -1
Unreadable == -2
Kinds == Hours \cup {Expired, NotYetValid, Unreadable}

\* The files there may be: certificates valid from now or a little later.
NewFiles == {<<time + d, time + d + l>> : d \in {0, 1}, l \in Lifetimes}
               \cup {<<r>> : r \in Reasons}

Init ==
    /\ time = 0 /\ changes = 0 /\ file \in NewFiles
    /\ now = 0 /\ validity = <<>> /\ warned_hours = {} /\ read_error = <<>>
    /\ not_yet_valid = FALSE /\ expired = FALSE
    /\ sent = {} /\ repeated = {}
    /\ monitor = "starting" /\ stop_event = FALSE
    /\ producer = "running" /\ interrupts = 0

-------------------------------------------------------------------------------
(* One check, SSHKeyExpiryChecker.check.                                   *)

Notify(kinds) ==
    LET alerts == {[kind |-> k, file |-> file, change |-> changes] : k \in kinds}
    IN  /\ sent' = sent \cup alerts
        /\ repeated' = repeated \cup (sent \cap alerts)

TakeTime ==
    /\ monitor = "checking"
    /\ now' = time
    /\ monitor' = "reading"
    /\ UNCHANGED <<time, fileVars, memoryVars, alertVars, processVars>>

\* Faulty variant: a failure is forgotten when there is nothing to announce.
KnownErrorOnce == IF read_error = file THEN <<>> ELSE file
KnownError == file

\* A failure to read is announced once for each reason.
CheckUnreadable ==
    /\ monitor = "reading" /\ ~Readable(file)
    /\ Notify(IF file # read_error THEN {Unreadable} ELSE {})
    /\ read_error' = KnownError
    /\ monitor' = "entering"
    /\ UNCHANGED <<time, fileVars, now, validity, warned_hours, not_yet_valid, expired,
                   processVars>>

\* Faulty variant: a new certificate does not clear the old one's warnings.
WarnedBefore == warned_hours

\* What the checker remembers of the certificate it has read: nothing of a new one.
IsNew  == file # validity
Warned == IF IsNew THEN {} ELSE warned_hours

CheckReadable ==
    /\ monitor = "reading" /\ Readable(file)
    /\ read_error' = <<>> /\ validity' = file
    /\ monitor' = "entering"
    /\ UNCHANGED <<time, fileVars, now, processVars>>

CheckNotYetValid ==
    /\ CheckReadable /\ now < file[1]
    /\ Notify(IF IsNew \/ ~not_yet_valid THEN {NotYetValid} ELSE {})
    /\ not_yet_valid' = TRUE
    /\ warned_hours' = Warned /\ expired' = (~IsNew /\ expired)

\* Faulty variant: an hour too early.
IsOverSoon == now + 1 >= file[2]
IsOver == now >= file[2]

CheckExpired ==
    /\ CheckReadable /\ now >= file[1] /\ IsOver
    /\ Notify(IF IsNew \/ ~expired THEN {Expired} ELSE {})
    /\ expired' = TRUE
    /\ warned_hours' = Warned /\ not_yet_valid' = FALSE

\* Every threshold reached and not warned of yet.
CheckValid ==
    /\ CheckReadable /\ now >= file[1] /\ ~IsOver
    /\ LET due == {h \in Hours : file[2] - now <= h} \ Warned
       IN  Notify(due) /\ warned_hours' = Warned \cup due
    /\ not_yet_valid' = FALSE /\ expired' = (~IsNew /\ expired)

-------------------------------------------------------------------------------
(* The monitor's loop.                                                     *)

\* From the time the signal handlers are installed.
Starts ==
    /\ monitor = "starting" /\ monitor' = "looping"
    /\ UNCHANGED <<time, fileVars, now, memoryVars, alertVars, processVars>>

\* Faulty variant: the parent is not looked at.
ParentUnwatched == FALSE
ParentGone == producer = "killed"

\* Another check, unless the event is set or the parent has changed.
LoopTests ==
    /\ monitor = "looping"
    /\ monitor' = IF stop_event \/ ParentGone THEN "closing" ELSE "checking"
    /\ UNCHANGED <<time, fileVars, now, memoryVars, alertVars, processVars>>

\* Event.wait: the lock of the event is taken, released for the wait, taken again.
WaitBegins ==
    /\ monitor = "entering"
    /\ monitor' = IF stop_event THEN "looping" ELSE "waiting"
    /\ UNCHANGED <<time, fileVars, now, memoryVars, alertVars, processVars>>
WaitEnds ==
    /\ monitor = "waiting" /\ monitor' = "leaving"
    /\ UNCHANGED <<time, fileVars, now, memoryVars, alertVars, processVars>>
WaitReturns ==
    /\ monitor = "leaving" /\ monitor' = "looping"
    /\ UNCHANGED <<time, fileVars, now, memoryVars, alertVars, processVars>>

\* The notifier has published or given up every alert.
Ends ==
    /\ monitor = "closing" /\ monitor' = "ended"
    /\ UNCHANGED <<time, fileVars, now, memoryVars, alertVars, processVars>>

\* A signal: before the handlers are installed it ends the process.  The handler sets
\* the event; when the main thread has the event's lock it waits for itself.
Signalled ==
    /\ monitor' = CASE monitor = "starting" -> "ended"
                    [] monitor \in {"entering", "leaving"} -> "stuck"
                    [] OTHER -> monitor
    /\ stop_event' = (stop_event \/ monitor \notin {"starting", "entering", "leaving",
                                                    "stuck", "ended"})
    /\ UNCHANGED <<time, fileVars, now, memoryVars, alertVars>>

-------------------------------------------------------------------------------
(* The producer, SSHKeyMonitorProcess.close, and the surroundings.         *)

CloseFindsEnded ==
    /\ producer = "running" /\ monitor = "ended"
    /\ producer' = "closed"
    /\ UNCHANGED <<time, fileVars, now, memoryVars, alertVars, monitor, stop_event,
                   interrupts>>

CloseTerminates ==
    /\ producer = "running" /\ monitor # "ended"
    /\ producer' = "terminating" /\ Signalled
    /\ UNCHANGED interrupts

\* The wait for the process ends with it, or by a timeout that kills it.
CloseKills ==
    /\ producer = "terminating" /\ monitor # "ended"
    /\ monitor' = "ended" /\ producer' = "closed"
    /\ UNCHANGED <<time, fileVars, now, memoryVars, alertVars, stop_event, interrupts>>
CloseReturns ==
    /\ producer = "terminating" /\ monitor = "ended"
    /\ producer' = "closed"
    /\ UNCHANGED <<time, fileVars, now, memoryVars, alertVars, monitor, stop_event,
                   interrupts>>

\* The producer dies without a chance to stop the monitor.
ProducerDies ==
    /\ producer \in {"running", "terminating"}
    /\ producer' = "killed"
    /\ UNCHANGED <<time, fileVars, now, memoryVars, alertVars, monitor, stop_event,
                   interrupts>>

\* An interrupt typed at the terminal reaches the monitor as well as the producer.
Interrupt ==
    /\ interrupts < MaxInterrupts /\ interrupts' = interrupts + 1
    /\ monitor # "ended" /\ Signalled
    /\ UNCHANGED producer

Tick ==
    /\ time < MaxTime /\ time' = time + 1
    /\ UNCHANGED <<fileVars, now, memoryVars, alertVars, monitor, processVars>>

FileChanges ==
    /\ changes < MaxChanges /\ changes' = changes + 1
    /\ \E f \in NewFiles : file' = f
    /\ UNCHANGED <<time, now, memoryVars, alertVars, monitor, processVars>>

-------------------------------------------------------------------------------

Check == TakeTime \/ CheckUnreadable \/ CheckNotYetValid \/ CheckExpired \/ CheckValid
MonitorStep ==
    Check \/ Starts \/ LoopTests \/ WaitBegins \/ WaitEnds \/ WaitReturns \/ Ends
CloseStep == CloseKills \/ CloseReturns

Done ==
    /\ producer \in {"closed", "killed"} /\ monitor \in {"ended", "stuck"}
    /\ UNCHANGED vars

Next ==
    \/ MonitorStep \/ CloseFindsEnded \/ CloseTerminates \/ CloseStep \/ ProducerDies
    \/ Interrupt \/ Tick \/ FileChanges \/ Done

\* The monitor keeps running, and a close() that was called goes on; nothing is
\* assumed of the clock, the file and the end of the producer.
Fairness == WF_vars(MonitorStep) /\ WF_vars(CloseStep)

Spec == Init /\ [][Next]_vars
FairSpec == Spec /\ Fairness

-------------------------------------------------------------------------------
(* Alerts.                                                                 *)

\* README.md: "sends one alert at ...".  However the checks fall, no alert is sent twice
\* for a file that did not change in between.
OneAlertEach == repeated = {}

\* An expiry is announced only of a certificate that has expired, whatever replaced it
\* while the check went on.
AnnouncedExpired ==
    [][\A a \in sent' \ sent : a.kind = Expired => time >= a.file[2]]_vars

\* What is due of the file as it is now.
Due(kind) ==
    CASE kind = Unreadable    -> ~Readable(file)
      [] kind = NotYetValid -> Readable(file) /\ time < file[1]
      [] kind = Expired       -> Readable(file) /\ time >= file[2]
      [] OTHER -> Readable(file) /\ time >= file[1] /\ time < file[2]
                     /\ file[2] - time <= kind
Watching == ~stop_event /\ producer = "running" /\ monitor \notin {"ended", "stuck"}

\* Whatever is due is announced, after a replacement again, unless it changes before or
\* the monitor ends.
DueAnnounced ==
    \A kind \in Kinds : \A c \in 0 .. MaxChanges :
       (Watching /\ Due(kind) /\ changes = c) ~>
          \/ changes # c \/ ~Due(kind) \/ ~Watching
          \/ \E a \in sent : a.kind = kind /\ a.file = file

-------------------------------------------------------------------------------
(* Processes.                                                              *)

\* README.md: "The monitor stops with the producer".  It does, whether the producer closes
\* or is killed, except when a signal handler blocked the monitor's main thread and the
\* producer is killed before close() could kill it.
MonitorStopsUnlessStuck ==
    producer \in {"terminating", "killed"} ~>
       monitor = "ended" \/ (monitor = "stuck" /\ producer = "killed")
===============================================================================
