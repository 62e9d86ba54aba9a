----------------------------- MODULE AlertProofs ------------------------------
(***************************************************************************)
(* Proofs about the alerts: the checker of KeyMonitor decides on them and  *)
(* hands them to the queue of Notifier, which publishes them.              *)
(*                                                                         *)
(* For any thresholds, lifetimes and reasons and any number of changes of  *)
(* the file: no alert is repeated because the checker remembers each alert *)
(* it has sent of the file as it is (Remembers), by the memory the kind of *)
(* alert goes by, or, of a certificate not yet valid, by the time.         *)
(*                                                                         *)
(* For any set of clients and number of messages: HandledInOrder needs     *)
(* that the numbers of a client increase through the queue and start above *)
(* what was handled (OrderInv); CloseFlushes needs that a promised message *)
(* stands in front of the first stop mark (FlushInv).                      *)
(***************************************************************************)
EXTENDS KeyMonitor, Notifier, SequenceTheorems, TLAPS

-------------------------------------------------------------------------------
(* The checker.                                                            *)


Certificates == {<<a, b>> : a \in Nat, b \in Nat}
Files == Certificates \cup {<<r>> : r \in Reasons}
Alerts == [kind : Kinds, file : Files, change : Nat]

MemoryTypes ==
    /\ validity \in Files \cup {<<>>} /\ read_error \in Files \cup {<<>>}
    /\ warned_hours \subseteq Hours
    /\ not_yet_valid \in BOOLEAN /\ expired \in BOOLEAN

AlertTypes == sent \subseteq Alerts /\ repeated \subseteq Alerts

ProcessTypes ==
    /\ monitor \in {"starting", "looping", "checking", "reading", "entering", "waiting",
                    "leaving", "closing", "ended", "stuck"}
    /\ stop_event \in BOOLEAN /\ interrupts \in Nat
    /\ producer \in {"running", "terminating", "closed", "killed"}

\* The time of a check is that of its beginning.
TimeTypes ==
    /\ time \in Nat /\ changes \in Nat /\ now \in Nat /\ now <= time
    /\ file \in Files

Types == TimeTypes /\ MemoryTypes /\ AlertTypes /\ ProcessTypes

\* How an alert of the file as it is shows in what the checker remembers.
Remembered(kind) ==
    IF kind = Unreadable
      THEN ~Readable(file) /\ read_error = file
      ELSE /\ Readable(file) /\ validity = file
           /\ kind = NotYetValid => not_yet_valid \/ now >= file[1]
           /\ kind = Expired => expired
           /\ kind \in Hours => kind \in warned_hours

Remembers ==
    \A a \in sent : /\ a.change <= changes
                    /\ a.change = changes => a.file = file /\ Remembered(a.kind)

Inv == Types /\ Remembers /\ OneAlertEach

-------------------------------------------------------------------------------

LEMMA HoursAreOther ==
    /\ \A h \in Hours : h \in Nat /\ h \notin {Expired, NotYetValid, Unreadable}
    /\ Expired # NotYetValid /\ Expired # Unreadable /\ NotYetValid # Unreadable
    /\ {Expired, NotYetValid, Unreadable} \cup Hours \subseteq Kinds
  BY SetAssumption DEF Expired, NotYetValid, Unreadable, Kinds

\* The files that appear.
LEMMA NewFilesType == ASSUME time \in Nat PROVE NewFiles \subseteq Files
  <1>1. ASSUME NEW d \in {0, 1}, NEW l \in Lifetimes
        PROVE  <<time + d, time + d + l>> \in Files
    <2>1. time + d \in Nat /\ time + d + l \in Nat
      BY SetAssumption
    <2>2. QED
      BY <2>1 DEF Files, Certificates
  <1>2. \A r \in Reasons : <<r>> \in Files
    BY DEF Files
  <1>3. QED
    BY <1>1, <1>2 DEF NewFiles

LEMMA FileParts ==
    ASSUME NEW f \in Files
    PROVE  Readable(f) => f \in Certificates /\ f[1] \in Nat /\ f[2] \in Nat
  BY DEF Files, Certificates, Readable

\* What Notify does: the alerts are of the file as it is, and those sent already are
\* the ones repeated.
LEMMA NotifyEffect ==
    ASSUME Types, NEW kinds \in SUBSET Kinds, Notify(kinds)
    PROVE  /\ AlertTypes'
           /\ \A a \in sent' : a \in sent \/ /\ a.kind \in kinds /\ a.file = file
                                             /\ a.change = changes
           /\ (\A k \in kinds : \A a \in sent :
                  ~(a.kind = k /\ a.file = file /\ a.change = changes))
              => repeated' = repeated
  <1> DEFINE alert(k) == [kind |-> k, file |-> file, change |-> changes]
             alerts == {alert(k) : k \in kinds}
  <1>1. sent' = sent \cup alerts /\ repeated' = repeated \cup (sent \cap alerts)
    BY DEF Notify
  <1>2. \A k \in kinds : /\ alert(k) \in Alerts
                         /\ alert(k).kind = k /\ alert(k).file = file
                         /\ alert(k).change = changes
    BY DEF Types, TimeTypes, Alerts
  <1> HIDE DEF alert
  <1>3. \A a \in alerts : a \in Alerts /\ a.kind \in kinds /\ a.file = file /\ a.change = changes
    BY <1>2
  <1>4. QED
    BY <1>1, <1>3 DEF AlertTypes, Types

\* A check that sends the alerts of some kinds keeps the invariant when these were not
\* remembered before and what was sent is remembered afterwards.
LEMMA CheckKeeps ==
    ASSUME Inv, NEW kinds \in SUBSET Kinds, Notify(kinds), UNCHANGED <<changes, file>>,
           \A k \in kinds : ~Remembered(k) /\ Remembered(k)',
           \A k \in Kinds : Remembered(k) => Remembered(k)'
    PROVE  AlertTypes' /\ Remembers' /\ OneAlertEach'
  <1>1. Types /\ Remembers /\ OneAlertEach
    BY DEF Inv
  <1>2. \A k \in kinds : \A a \in sent :
           ~(a.kind = k /\ a.file = file /\ a.change = changes)
    BY <1>1 DEF Remembers
  <1>3. AlertTypes' /\ OneAlertEach'
    BY <1>1, <1>2, NotifyEffect DEF OneAlertEach
  <1>4. ASSUME NEW a \in sent'
        PROVE  /\ a.change <= changes'
               /\ a.change = changes' => a.file = file' /\ Remembered(a.kind)'
    <2>1. CASE a \in sent
      <3>1. a.kind \in Kinds
        BY <1>1, <2>1 DEF Types, AlertTypes, Alerts
      <3>2. a.change <= changes /\ (a.change = changes => a.file = file /\ Remembered(a.kind))
        BY <1>1, <2>1 DEF Remembers
      <3>3. Remembered(a.kind) => \A k \in {a.kind} : Remembered(k)'
        BY <3>1
      <3>4. QED
        BY <3>2, <3>3
    <2>2. CASE a \notin sent
      <3>1. a.kind \in kinds /\ a.file = file /\ a.change = changes
        BY <1>1, <1>4, <2>2, NotifyEffect
      <3>2. \A k \in {a.kind} : Remembered(k)'
        BY <3>1
      <3>3. changes <= changes
        BY <1>1 DEF Types, TimeTypes
      <3>4. QED
        BY <3>1, <3>2, <3>3
    <2>3. QED
      BY <2>1, <2>2
  <1>5. QED
    BY <1>3, <1>4 DEF Remembers

-------------------------------------------------------------------------------
(* The checks.                                                             *)

\* What every check of a file that can be read does.
LEMMA ReadableKeeps ==
    ASSUME Inv, CheckReadable
    PROVE  /\ TimeTypes' /\ ProcessTypes' /\ Warned \subseteq Hours
           /\ validity' \in Files \cup {<<>>} /\ read_error' \in Files \cup {<<>>}
           /\ ~Remembered(Unreadable)
  BY DEF Inv, Types, TimeTypes, ProcessTypes, MemoryTypes, CheckReadable, fileVars,
         processVars, Warned, Remembered

LEMMA UnreadableKeeps == ASSUME Inv, CheckUnreadable PROVE Inv'
  <1> DEFINE kinds == IF file # read_error THEN {Unreadable} ELSE {}
  <1>1. Notify(kinds) /\ UNCHANGED <<changes, file>> /\ ~Readable(file) /\ read_error' = file
    BY DEF CheckUnreadable, KnownError, fileVars
  <1>2. kinds \in SUBSET Kinds
    BY HoursAreOther
  <1>3. TimeTypes' /\ ProcessTypes' /\ MemoryTypes'
    BY DEF Inv, Types, TimeTypes, ProcessTypes, MemoryTypes, CheckUnreadable, fileVars,
           processVars, KnownError
  <1>4. \A k \in kinds : ~Remembered(k) /\ Remembered(k)'
    BY <1>1 DEF Remembered
  <1>5. \A k \in Kinds : Remembered(k) => Remembered(k)'
    BY <1>1 DEF Remembered
  <1> HIDE DEF kinds
  <1>6. AlertTypes' /\ Remembers' /\ OneAlertEach'
    BY <1>1, <1>2, <1>4, <1>5, CheckKeeps
  <1>7. QED
    BY <1>3, <1>6 DEF Inv, Types

LEMMA NotYetValidKeeps == ASSUME Inv, CheckNotYetValid PROVE Inv'
  <1> DEFINE kinds == IF IsNew \/ ~not_yet_valid THEN {NotYetValid} ELSE {}
  <1>1. /\ CheckReadable /\ Notify(kinds) /\ UNCHANGED <<changes, file, now>>
        /\ Readable(file) /\ validity' = file /\ ~(now >= file[1])
    <2>1. file \in Files /\ now \in Nat
      BY DEF Inv, Types, TimeTypes
    <2>2. QED
      BY <2>1, FileParts DEF CheckNotYetValid, CheckReadable, fileVars
  <1>2. kinds \in SUBSET Kinds
    BY HoursAreOther
  <1>3. not_yet_valid' = TRUE /\ warned_hours' = Warned /\ expired' = (~IsNew /\ expired)
    BY DEF CheckNotYetValid
  <1>4. MemoryTypes' /\ TimeTypes' /\ ProcessTypes'
    BY <1>1, <1>3, ReadableKeeps DEF MemoryTypes
  <1>5. \A k \in kinds : ~Remembered(k) /\ Remembered(k)'
    BY <1>1, <1>3, HoursAreOther DEF Remembered, IsNew
  <1>6. \A k \in Kinds : Remembered(k) => Remembered(k)'
    BY <1>1, <1>3, ReadableKeeps DEF Remembered, IsNew, Warned
  <1> HIDE DEF kinds
  <1>7. AlertTypes' /\ Remembers' /\ OneAlertEach'
    BY <1>1, <1>2, <1>5, <1>6, CheckKeeps
  <1>8. QED
    BY <1>4, <1>7 DEF Inv, Types

LEMMA ExpiredKeeps == ASSUME Inv, CheckExpired PROVE Inv'
  <1> DEFINE kinds == IF IsNew \/ ~expired THEN {Expired} ELSE {}
  <1>1. /\ CheckReadable /\ Notify(kinds) /\ UNCHANGED <<changes, file, now>>
        /\ Readable(file) /\ validity' = file /\ now >= file[1]
    BY DEF CheckExpired, CheckReadable, fileVars
  <1>2. kinds \in SUBSET Kinds
    BY HoursAreOther
  <1>3. not_yet_valid' = FALSE /\ warned_hours' = Warned /\ expired' = TRUE
    BY DEF CheckExpired
  <1>4. MemoryTypes' /\ TimeTypes' /\ ProcessTypes'
    BY <1>1, <1>3, ReadableKeeps DEF MemoryTypes
  <1>5. \A k \in kinds : ~Remembered(k) /\ Remembered(k)'
    BY <1>1, <1>3, HoursAreOther DEF Remembered, IsNew
  <1>6. \A k \in Kinds : Remembered(k) => Remembered(k)'
    BY <1>1, <1>3, ReadableKeeps DEF Remembered, IsNew, Warned
  <1> HIDE DEF kinds
  <1>7. AlertTypes' /\ Remembers' /\ OneAlertEach'
    BY <1>1, <1>2, <1>5, <1>6, CheckKeeps
  <1>8. QED
    BY <1>4, <1>7 DEF Inv, Types

LEMMA ValidKeeps == ASSUME Inv, CheckValid PROVE Inv'
  <1> DEFINE due == {h \in Hours : file[2] - now <= h} \ Warned
  <1>1. /\ CheckReadable /\ Notify(due) /\ UNCHANGED <<changes, file, now>>
        /\ Readable(file) /\ validity' = file /\ now >= file[1]
    BY DEF CheckValid, CheckReadable, fileVars
  <1>2. due \subseteq Hours /\ due \in SUBSET Kinds /\ due \cap Warned = {}
    BY HoursAreOther
  <1>3. /\ not_yet_valid' = FALSE /\ warned_hours' = Warned \cup due
        /\ expired' = (~IsNew /\ expired)
    BY DEF CheckValid
  <1> HIDE DEF due
  <1>4. MemoryTypes' /\ TimeTypes' /\ ProcessTypes'
    BY <1>1, <1>2, <1>3, ReadableKeeps DEF MemoryTypes
  <1>5. \A k \in due : ~Remembered(k) /\ Remembered(k)'
    BY <1>1, <1>2, <1>3, HoursAreOther DEF Remembered, IsNew, Warned
  <1>6. \A k \in Kinds : Remembered(k) => Remembered(k)'
    BY <1>1, <1>2, <1>3, ReadableKeeps DEF Remembered, IsNew, Warned
  <1>7. AlertTypes' /\ Remembers' /\ OneAlertEach'
    BY <1>1, <1>2, <1>5, <1>6, CheckKeeps
  <1>8. QED
    BY <1>4, <1>7 DEF Inv, Types

-------------------------------------------------------------------------------
(* The other steps.                                                        *)

\* A step that leaves the checker and the file alone.
LEMMA OtherStepsKeep ==
    ASSUME Inv, UNCHANGED <<fileVars, now, memoryVars, alertVars>>,
           time' \in Nat, time <= time', ProcessTypes'
    PROVE  Inv'
  <1>1. UNCHANGED <<file, changes, now, validity, warned_hours, read_error, not_yet_valid,
                    expired, sent, repeated>>
    BY DEF fileVars, memoryVars, alertVars
  <1>2. Types /\ Remembers /\ OneAlertEach
    BY DEF Inv
  <1>3. TimeTypes'
    BY <1>1, <1>2 DEF Types, TimeTypes
  <1>4. MemoryTypes' /\ AlertTypes'
    BY <1>1, <1>2 DEF Types, MemoryTypes, AlertTypes
  <1>5. Remembers' /\ OneAlertEach'
    BY <1>1, <1>2 DEF Remembers, OneAlertEach, Remembered
  <1>6. QED
    BY <1>3, <1>4, <1>5 DEF Inv, Types

\* The time of the next check is not earlier than that of the last.
LEMMA TakeTimeKeeps == ASSUME Inv, TakeTime PROVE Inv'
  <1>1. UNCHANGED <<time, file, changes, validity, warned_hours, read_error, not_yet_valid,
                    expired, sent, repeated, stop_event, producer, interrupts>>
        /\ now' = time /\ monitor' = "reading"
    BY DEF TakeTime, fileVars, memoryVars, alertVars, processVars
  <1>2. Types /\ Remembers /\ OneAlertEach
    BY DEF Inv
  <1>3. Types'
    BY <1>1, <1>2 DEF Types, TimeTypes, MemoryTypes, AlertTypes, ProcessTypes
  <1>4. Readable(file) => (now >= file[1] => now' >= file[1])
    <2>1. now \in Nat /\ time \in Nat /\ now <= time /\ file \in Files
      BY <1>2 DEF Types, TimeTypes
    <2>2. Readable(file) => file[1] \in Nat
      BY <2>1, FileParts
    <2>3. QED
      BY <1>1, <2>1, <2>2
  <1>5. ASSUME NEW a \in sent, Remembered(a.kind)
        PROVE  \A k \in {a.kind} : Remembered(k)'
    BY <1>1, <1>4, <1>5 DEF Remembered
  <1>6. Remembers' /\ OneAlertEach'
    BY <1>1, <1>2, <1>5 DEF Remembers, OneAlertEach
  <1>7. QED
    BY <1>3, <1>6 DEF Inv

\* Of a new file nothing has been sent.
LEMMA FileChangesKeeps == ASSUME Inv, FileChanges PROVE Inv'
  <1>1. UNCHANGED <<time, now, validity, warned_hours, read_error, not_yet_valid, expired,
                    sent, repeated, monitor, stop_event, producer, interrupts>>
        /\ changes' = changes + 1 /\ file' \in NewFiles
    BY DEF FileChanges, memoryVars, alertVars, processVars
  <1>2. Types /\ Remembers /\ OneAlertEach
    BY DEF Inv
  <1>3. file' \in Files
    BY <1>1, <1>2, NewFilesType DEF Types, TimeTypes
  <1>4. Types'
    BY <1>1, <1>2, <1>3 DEF Types, TimeTypes, MemoryTypes, AlertTypes, ProcessTypes
  <1>5. \A a \in sent : a.change \in Nat /\ a.change <= changes
    BY <1>2 DEF Types, AlertTypes, Alerts, Remembers
  <1>6. \A a \in sent : a.change <= changes + 1 /\ a.change # changes + 1
    <2>1. changes \in Nat
      BY <1>2 DEF Types, TimeTypes
    <2>2. QED
      BY <1>5, <2>1
  <1>7. Remembers' /\ OneAlertEach'
    BY <1>1, <1>2, <1>6 DEF Remembers, OneAlertEach
  <1>8. QED
    BY <1>4, <1>7 DEF Inv

\* A signal leaves the monitor somewhere, and its event TRUE or FALSE.
LEMMA SignalledType ==
    ASSUME ProcessTypes, Signalled
    PROVE  /\ monitor' \in {"starting", "looping", "checking", "reading", "entering", "waiting",
                            "leaving", "closing", "ended", "stuck"}
           /\ stop_event' \in BOOLEAN
           /\ UNCHANGED <<time, fileVars, now, memoryVars, alertVars>>
  BY DEF ProcessTypes, Signalled

-------------------------------------------------------------------------------

LEMMA InitEstablishes == Init => Inv
  <1> SUFFICES ASSUME Init PROVE Inv
    OBVIOUS
  <1>1. file \in Files
    BY NewFilesType DEF Init
  <1>2. Types
    <2>1. TimeTypes /\ AlertTypes
      BY <1>1 DEF Init, TimeTypes, AlertTypes
    <2>2. MemoryTypes
      BY DEF Init, MemoryTypes
    <2>3. ProcessTypes
      BY DEF Init, ProcessTypes
    <2>4. QED
      BY <2>1, <2>2, <2>3 DEF Types
  <1>3. QED
    BY <1>2 DEF Init, Inv, Remembers, OneAlertEach

\* The steps of the monitor's loop, of the producer and of the clock.
LEMMA ProcessStepsKeep ==
    ASSUME Inv,
           \/ Starts \/ LoopTests \/ WaitBegins \/ WaitEnds \/ WaitReturns \/ Ends
           \/ CloseFindsEnded \/ CloseTerminates \/ CloseStep \/ ProducerDies \/ Interrupt
           \/ Tick \/ Done
    PROVE  Inv'
  <1>1. ProcessTypes /\ time \in Nat /\ time <= time
    BY DEF Inv, Types, TimeTypes
  <1>2. CASE Starts \/ LoopTests \/ WaitBegins \/ WaitEnds \/ WaitReturns \/ Ends
    <2>1. ProcessTypes'
      BY <1>1, <1>2 DEF ProcessTypes, processVars, Starts, LoopTests, WaitBegins, WaitEnds,
                        WaitReturns, Ends
    <2>2. UNCHANGED <<time, fileVars, now, memoryVars, alertVars>>
      BY <1>2 DEF Starts, LoopTests, WaitBegins, WaitEnds, WaitReturns, Ends
    <2>3. QED
      BY <1>1, <2>1, <2>2, OtherStepsKeep
  <1>3. CASE CloseFindsEnded \/ CloseStep \/ ProducerDies
    <2>1. ProcessTypes'
      BY <1>1, <1>3 DEF ProcessTypes, CloseFindsEnded, CloseStep, CloseKills, CloseReturns,
                        ProducerDies
    <2>2. UNCHANGED <<time, fileVars, now, memoryVars, alertVars>>
      BY <1>3 DEF CloseFindsEnded, CloseStep, CloseKills, CloseReturns, ProducerDies
    <2>3. QED
      BY <1>1, <2>1, <2>2, OtherStepsKeep
  <1>4. CASE CloseTerminates \/ Interrupt
    <2>1. Signalled /\ interrupts' \in Nat
          /\ producer' \in {"running", "terminating", "closed", "killed"}
      BY <1>1, <1>4 DEF ProcessTypes, CloseTerminates, Interrupt
    <2>2. ProcessTypes' /\ UNCHANGED <<time, fileVars, now, memoryVars, alertVars>>
      BY <1>1, <2>1, SignalledType DEF ProcessTypes
    <2>3. QED
      BY <1>1, <2>2, OtherStepsKeep
  <1>5. CASE Tick
    <2>1. ProcessTypes' /\ time' = time + 1
          /\ UNCHANGED <<fileVars, now, memoryVars, alertVars>>
      BY <1>1, <1>5 DEF Tick, ProcessTypes, processVars
    <2>2. time' \in Nat /\ time <= time'
      BY <1>1, <2>1
    <2>3. QED
      BY <2>1, <2>2, OtherStepsKeep
  <1>6. CASE Done
    <2>1. ProcessTypes' /\ UNCHANGED <<time, fileVars, now, memoryVars, alertVars>>
      BY <1>1, <1>6 DEF Done, vars, ProcessTypes, processVars
    <2>2. QED
      BY <1>1, <2>1, OtherStepsKeep
  <1>7. QED
    BY <1>2, <1>3, <1>4, <1>5, <1>6

LEMMA NextKeeps == Inv /\ [Next]_vars => Inv'
  <1> SUFFICES ASSUME Inv, [Next]_vars PROVE Inv'
    OBVIOUS
  <1>1. CASE Check
    BY <1>1, TakeTimeKeeps, UnreadableKeeps, NotYetValidKeeps, ExpiredKeeps, ValidKeeps
       DEF Check
  <1>2. CASE Next /\ ~Check /\ ~FileChanges
    BY <1>2, ProcessStepsKeep DEF Next, MonitorStep
  <1>3. CASE FileChanges
    BY <1>3, FileChangesKeeps
  <1>4. CASE UNCHANGED vars
    <2>1. ProcessTypes' /\ UNCHANGED <<time, fileVars, now, memoryVars, alertVars>>
      BY <1>4 DEF vars, Inv, Types, ProcessTypes, processVars
    <2>2. time \in Nat /\ time <= time
      BY DEF Inv, Types, TimeTypes
    <2>3. QED
      BY <2>1, <2>2, OtherStepsKeep
  <1>5. QED
    BY <1>1, <1>2, <1>3, <1>4

-------------------------------------------------------------------------------

\* The checker remembers every alert it has sent of the file as it is.
THEOREM Invariance == Spec => []Inv
  BY InitEstablishes, NextKeeps, PTL DEF Spec

\* Every variable of the monitor has its type, and the time of a check is not in the
\* future.
THEOREM TypeCorrect == Spec => []Types
  <1>1. Inv => Types
    BY DEF Inv
  <1>2. QED
    BY <1>1, Invariance, PTL

\* SSHKeyExpiryChecker sends no alert twice for a file that did not change in between,
\* however the checks, the changes of the file and the signals fall.
THEOREM NoAlertRepeated == Spec => []OneAlertEach
  <1>1. Inv => OneAlertEach
    BY DEF Inv
  <1>2. QED
    BY <1>1, Invariance, PTL

\* An expiry is announced only of a certificate that has expired, although the time is
\* taken before the file is read.
THEOREM ExpiryAnnouncedInTime == Spec => AnnouncedExpired
  <1> DEFINE InTime == \A a \in sent' \ sent : a.kind = Expired => time >= a.file[2]
  <1>1. ASSUME Inv, [Next]_vars
        PROVE  [InTime]_vars
    <2>1. TimeTypes /\ Types
      BY <1>1 DEF Inv, Types
    <2>2. CASE CheckExpired
      <3> DEFINE kinds == IF IsNew \/ ~expired THEN {Expired} ELSE {}
      <3>1. Notify(kinds) /\ Readable(file) /\ now >= file[2]
        BY <2>2 DEF CheckExpired, CheckReadable, IsOver
      <3>2. file[2] \in Nat /\ now \in Nat /\ time \in Nat /\ now <= time
        BY <2>1, <3>1, FileParts DEF TimeTypes
      <3>3. kinds \in SUBSET Kinds
        BY HoursAreOther
      <3> HIDE DEF kinds
      <3>4. \A a \in sent' \ sent : a.file = file
        BY <2>1, <3>1, <3>3, NotifyEffect
      <3>5. time >= file[2]
        BY <3>1, <3>2
      <3>6. QED
        BY <3>4, <3>5
    <2>3. CASE CheckUnreadable
      <3> DEFINE kinds == IF file # read_error THEN {Unreadable} ELSE {}
      <3>1. Notify(kinds) /\ kinds \in SUBSET Kinds /\ Expired \notin kinds
        BY <2>3, HoursAreOther DEF CheckUnreadable
      <3>2. QED
        BY <2>1, <3>1, NotifyEffect
    <2>4. CASE CheckNotYetValid
      <3> DEFINE kinds == IF IsNew \/ ~not_yet_valid THEN {NotYetValid} ELSE {}
      <3>1. Notify(kinds) /\ kinds \in SUBSET Kinds /\ Expired \notin kinds
        BY <2>4, HoursAreOther DEF CheckNotYetValid
      <3>2. QED
        BY <2>1, <3>1, NotifyEffect
    <2>5. CASE CheckValid
      <3> DEFINE due == {h \in Hours : file[2] - now <= h} \ Warned
      <3>1. Notify(due) /\ due \in SUBSET Kinds /\ Expired \notin due
        BY <2>5, HoursAreOther DEF CheckValid
      <3>2. QED
        BY <2>1, <3>1, NotifyEffect
    <2>6. CASE UNCHANGED alertVars
      BY <2>6 DEF alertVars
    <2>7. CASE UNCHANGED vars
      BY <2>7
    <2>8. QED
      BY <1>1, <2>2, <2>3, <2>4, <2>5, <2>6, <2>7
         DEF Next, MonitorStep, Check, TakeTime, Starts, LoopTests, WaitBegins, WaitEnds,
             WaitReturns, Ends, CloseFindsEnded, CloseTerminates, Signalled, CloseStep,
             CloseKills, CloseReturns, ProducerDies, Interrupt, Tick, FileChanges, Done
  <1>2. QED
    BY <1>1, Invariance, PTL DEF Spec, AnnouncedExpired

-------------------------------------------------------------------------------
(* The notifier.                                                           *)


Items == Messages \cup {Stop}

NotifierTypes ==
    /\ queue \in Seq(Items) /\ handled \in Seq(Messages)
    /\ closed \in BOOLEAN /\ worker \in {"getting", "publishing", "ended"}
    /\ client \in [Clients ->
          {"free", "putting", "closing", "joining", "joined", "ended"}]
    /\ count \in [Clients -> Nat] /\ promised \subseteq Messages /\ fatal \subseteq Messages
    /\ \A c \in Clients : count[c] <= MaxMessages
    /\ \A c \in Clients : client[c] = "putting" => count[c] < MaxMessages
    /\ worker = "publishing" => queue # <<>> /\ Head(queue) # Stop

\* What the steps do to the queue, element by element.
LEMMA Appended ==
    ASSUME NEW S, NEW s \in Seq(S), NEW x \in S
    PROVE  /\ Append(s, x) \in Seq(S) /\ Len(Append(s, x)) = Len(s) + 1 /\ Len(s) \in Nat
           /\ \A i \in 1 .. Len(s) : Append(s, x)[i] = s[i] /\ s[i] \in S
           /\ Append(s, x)[Len(s) + 1] = x
           /\ Head(Append(s, x)) = IF s = <<>> THEN x ELSE Head(s)
           /\ Append(s, x) # <<>>
  <1>1. Len(s) \in Nat /\ \A i \in 1 .. Len(s) : s[i] \in S
    BY LenProperties, ElementOfSeq
  <1>2. /\ Append(s, x) \in Seq(S) /\ Len(Append(s, x)) = Len(s) + 1
        /\ \A i \in 1 .. Len(s) : Append(s, x)[i] = s[i]
        /\ Append(s, x)[Len(s) + 1] = x
    BY <1>1, AppendProperties
  <1>3. Append(s, x) # <<>> /\ (s = <<>> => Len(s) = 0) /\ (s # <<>> => Len(s) > 0)
    BY <1>1, <1>2, EmptySeq
  <1>4. Head(Append(s, x)) = Append(s, x)[1] /\ (s # <<>> => Head(s) = s[1])
    BY <1>2, <1>3, HeadTailProperties
  <1>5. QED
    BY <1>1, <1>2, <1>3, <1>4

LEMMA Shortened ==
    ASSUME NEW S, NEW s \in Seq(S), s # <<>>
    PROVE  /\ Tail(s) \in Seq(S) /\ Len(Tail(s)) = Len(s) - 1 /\ Len(s) \in Nat \ {0}
           /\ \A i \in 1 .. Len(s) - 1 : Tail(s)[i] = s[i + 1]
           /\ Head(s) = s[1] /\ Head(s) \in S
  <1>1. Len(s) \in Nat \ {0}
    BY EmptySeq
  <1>2. QED
    BY <1>1, HeadTailProperties

LEMMA NotifierTypeStep == ASSUME NotifierTypes, [NotifierNext]_notifierVars PROVE NotifierTypes'
  <1> USE DEF Goes
  <1>1. ASSUME NEW c \in Clients,
               NotifyTests(c) \/ CloseTests(c) \/ CloseJoined(c) \/ ClientEnds(c)
        PROVE  NotifierTypes'
    BY <1>1, NumberAssumption DEF NotifierTypes, NotifyTests, CloseTests, CloseJoined, ClientEnds
  <1>2. ASSUME NEW m \in Items, queue' = Append(queue, m)
        PROVE  /\ queue' \in Seq(Items)
               /\ queue # <<>> => queue' # <<>> /\ Head(queue') = Head(queue)
    BY <1>2, Appended DEF NotifierTypes
  <1>3. ASSUME queue # <<>>
        PROVE  Tail(queue) \in Seq(Items) /\ Head(queue) \in Items
    BY <1>3, Shortened DEF NotifierTypes
  <1>4. ASSUME NEW c \in Clients, NotifyPuts(c) PROVE NotifierTypes'
    <2> DEFINE m == <<c, count[c] + 1>>
    <2>1. count[c] + 1 \in 1 .. MaxMessages
      BY <1>4, NumberAssumption DEF NotifierTypes, NotifyPuts
    <2>2. m \in Messages /\ m \in Items
      BY <2>1 DEF Messages, Items
    <2>3. /\ queue' \in Seq(Items)
          /\ queue # <<>> => queue' # <<>> /\ Head(queue') = Head(queue)
      BY <1>2, <1>4, <2>2 DEF NotifyPuts, Put
    <2>4. promised' \subseteq Messages
      BY <1>4, <2>2 DEF NotifyPuts, NotifierTypes
    <2>5. QED
      BY <1>4, <2>1, <2>3, <2>4, NumberAssumption DEF NotifyPuts, NotifierTypes
  <1>5. ASSUME NEW c \in Clients, ClosePuts(c) PROVE NotifierTypes'
    <2>1. /\ queue' \in Seq(Items)
          /\ queue # <<>> => queue' # <<>> /\ Head(queue') = Head(queue)
      BY <1>2, <1>5 DEF ClosePuts, Put, Items
    <2>2. QED
      BY <1>5, <2>1 DEF ClosePuts, NotifierTypes
  <1>6. CASE Gets
    BY <1>3, <1>6 DEF Gets, NotifierTypes
  <1>7. CASE Publishes
    <2>1. Head(queue) \in Messages /\ queue' \in Seq(Items)
      BY <1>3, <1>7 DEF Publishes, NotifierTypes, Items
    <2>2. handled' \in Seq(Messages)
      BY <1>7, <2>1, Appended DEF Publishes, NotifierTypes
    <2>3. QED
      BY <1>7, <2>1, <2>2 DEF Publishes, NotifierTypes
  <1>8. CASE RequestRaises
    <2>1. Head(queue) \in Messages /\ queue' \in Seq(Items)
      BY <1>3, <1>8 DEF RequestRaises, NotifierTypes, Items
    <2>2. QED
      BY <1>8, <2>1 DEF RequestRaises, NotifierTypes
  <1>9. CASE Exit \/ NotifierDone \/ UNCHANGED notifierVars
    BY <1>9 DEF Exit, NotifierDone, notifierVars, NotifierTypes
  <1>10. QED
    BY <1>1, <1>4, <1>5, <1>6, <1>7, <1>8, <1>9 DEF NotifierNext, ClientStep, WorkerStep

-------------------------------------------------------------------------------
(* Order.                                                                  *)

\* Of two messages of one client, x has the lower number.
Before(x, y) == x[1] = y[1] => x[2] < y[2]

OrderInv ==
    /\ \A i, j \in 1 .. Len(queue) :
          i < j /\ queue[i] # Stop /\ queue[j] # Stop => Before(queue[i], queue[j])
    /\ \A i \in 1 .. Len(handled) : \A j \in 1 .. Len(queue) :
          queue[j] # Stop => Before(handled[i], queue[j])
    /\ \A i, j \in 1 .. Len(handled) : i < j => Before(handled[i], handled[j])
    /\ \A j \in 1 .. Len(queue) : queue[j] # Stop => queue[j][2] <= count[queue[j][1]]
    /\ \A i \in 1 .. Len(handled) : handled[i][2] <= count[handled[i][1]]
    /\ \A f \in fatal : /\ \A j \in 1 .. Len(queue) : queue[j] # Stop => Before(f, queue[j])
                        /\ f[2] <= count[f[1]]

LEMMA OrderStep == ASSUME NotifierTypes, OrderInv, [NotifierNext]_notifierVars PROVE OrderInv'
  <1>0. /\ \A j \in 1 .. Len(queue) : queue[j] \in Items
        /\ \A i \in 1 .. Len(handled) : handled[i] \in Messages
        /\ Len(queue) \in Nat /\ Len(handled) \in Nat
    BY LenProperties, ElementOfSeq DEF NotifierTypes
  <1>1. ASSUME UNCHANGED <<queue, handled, fatal, count>> PROVE OrderInv'
    BY <1>1 DEF OrderInv
  <1>2. ASSUME NEW c \in Clients, NotifyPuts(c) PROVE OrderInv'
    <2> DEFINE m == <<c, count[c] + 1>>
    <2>1. /\ m \in Items /\ queue' = Append(queue, m) /\ UNCHANGED <<handled, fatal>>
          /\ count' = [count EXCEPT ![c] = @ + 1] /\ count[c] \in Nat
      BY <1>2, NumberAssumption DEF NotifyPuts, Put, NotifierTypes, Items, Messages, Goes
    <2>2. /\ Len(queue') = Len(queue) + 1 /\ queue'[Len(queue) + 1] = m
          /\ \A i \in 1 .. Len(queue) : queue'[i] = queue[i]
      BY <2>1, Appended DEF NotifierTypes
    <2>3. \A d \in Clients : /\ count[d] \in Nat /\ count'[d] \in Nat /\ count'[d] >= count[d]
                             /\ d = c => count'[d] = count[d] + 1
      BY <2>1 DEF NotifierTypes
    <2>4. \A x \in Messages : /\ x[1] \in Clients /\ x[2] \in Nat
                              /\ x[2] <= count[x[1]] => Before(x, m) /\ x[2] <= count'[x[1]]
      BY <2>3 DEF Messages, Before
    <2>5. m[2] <= count'[m[1]]
      BY <2>3
    <2>6. /\ \A j \in 1 .. Len(queue) : queue[j] # Stop => queue[j] \in Messages
          /\ Len(queue) \in Nat
      BY <1>0 DEF Items
    <2> HIDE DEF m
    <2>7. \A j \in 1 .. Len(queue') : j \in 1 .. Len(queue) \/ (j = Len(queue) + 1 /\ queue'[j] = m)
      BY <2>2, <2>6
    <2>8. /\ \A i, j \in 1 .. Len(queue') :
               i < j /\ queue'[i] # Stop /\ queue'[j] # Stop => Before(queue'[i], queue'[j])
      BY <2>2, <2>4, <2>6, <2>7 DEF OrderInv
    <2>9. /\ \A i \in 1 .. Len(handled) : \A j \in 1 .. Len(queue') :
               queue'[j] # Stop => Before(handled[i], queue'[j])
          /\ \A j \in 1 .. Len(queue') : queue'[j] # Stop => queue'[j][2] <= count'[queue'[j][1]]
          /\ \A i \in 1 .. Len(handled) : handled[i][2] <= count'[handled[i][1]]
      BY <1>0, <2>2, <2>4, <2>5, <2>6, <2>7 DEF OrderInv
    <2>10. \A f \in fatal : /\ \A j \in 1 .. Len(queue') : queue'[j] # Stop => Before(f, queue'[j])
                           /\ f[2] <= count'[f[1]]
      <3>1. fatal \subseteq Messages
        BY DEF NotifierTypes
      <3>2. QED
        BY <2>2, <2>4, <2>6, <2>7, <3>1 DEF OrderInv
    <2>11. QED
      BY <2>1, <2>8, <2>9, <2>10 DEF OrderInv
  <1>3. ASSUME NEW c \in Clients, ClosePuts(c) PROVE OrderInv'
    <2>1. /\ queue' = Append(queue, Stop) /\ UNCHANGED <<handled, fatal, count>>
      BY <1>3 DEF ClosePuts, Put
    <2>2. /\ Len(queue') = Len(queue) + 1 /\ queue'[Len(queue) + 1] = Stop
          /\ \A i \in 1 .. Len(queue) : queue'[i] = queue[i]
      BY <2>1, Appended DEF NotifierTypes, Items
    <2>3. \A j \in 1 .. Len(queue') : j \in 1 .. Len(queue) \/ queue'[j] = Stop
      BY <1>0, <2>2
    <2>4. QED
      BY <2>1, <2>2, <2>3 DEF OrderInv
  <1>4. ASSUME queue # <<>>, queue' = Tail(queue) PROVE
               /\ Len(queue') = Len(queue) - 1 /\ 1 \in 1 .. Len(queue)
               /\ \A i \in 1 .. Len(queue') : i + 1 \in 1 .. Len(queue) /\ queue'[i] = queue[i + 1]
    BY <1>0, <1>4, Shortened DEF NotifierTypes
  <1>5. CASE Gets
    <2>1. UNCHANGED queue \/ (queue # <<>> /\ queue' = Tail(queue))
      BY <1>5 DEF Gets
    <2>2. UNCHANGED <<handled, fatal, count>>
      BY <1>5 DEF Gets
    <2>3. CASE queue # <<>> /\ queue' = Tail(queue)
      BY <1>0, <1>4, <2>2, <2>3 DEF OrderInv
    <2>4. QED
      BY <1>1, <2>1, <2>2, <2>3
  <1>6. CASE Publishes
    <2>1. /\ queue # <<>> /\ Head(queue) # Stop /\ queue' = Tail(queue)
          /\ handled' = Append(handled, Head(queue)) /\ UNCHANGED <<fatal, count>>
      BY <1>6 DEF Publishes, NotifierTypes
    <2>2. Head(queue) = queue[1] /\ Head(queue) \in Messages
      BY <2>1, Shortened DEF NotifierTypes, Items
    <2>3. /\ Len(handled') = Len(handled) + 1 /\ handled'[Len(handled) + 1] = queue[1]
          /\ \A i \in 1 .. Len(handled) : handled'[i] = handled[i]
      BY <2>1, <2>2, Appended DEF NotifierTypes
    <2>4. \A j \in 1 .. Len(handled') :
             j \in 1 .. Len(handled) \/ (j = Len(handled) + 1 /\ handled'[j] = queue[1])
      BY <1>0, <2>3
    <2>5. QED
      BY <1>0, <1>4, <2>1, <2>2, <2>3, <2>4 DEF OrderInv
  <1>7. ASSUME NEW c \in Clients,
               NotifyTests(c) \/ CloseTests(c) \/ CloseJoined(c) \/ ClientEnds(c)
        PROVE  OrderInv'
    BY <1>1, <1>7 DEF NotifyTests, CloseTests, CloseJoined, ClientEnds
  <1>8. CASE Exit \/ NotifierDone \/ UNCHANGED notifierVars
    BY <1>1, <1>8 DEF Exit, NotifierDone, notifierVars
  <1>9. CASE RequestRaises
    <2>1. /\ queue # <<>> /\ Head(queue) # Stop /\ queue' = Tail(queue)
          /\ fatal' = {Head(queue)} /\ UNCHANGED <<handled, count>>
      BY <1>9 DEF RequestRaises, NotifierTypes
    <2>2. Head(queue) = queue[1]
      BY <2>1, Shortened DEF NotifierTypes
    <2>3. QED
      BY <1>0, <1>4, <2>1, <2>2 DEF OrderInv
  <1>10. QED
    BY <1>2, <1>3, <1>5, <1>6, <1>7, <1>8, <1>9 DEF NotifierNext, ClientStep, WorkerStep

-------------------------------------------------------------------------------
(* What close() flushes.                                                   *)

\* Message m will be published before the worker comes to a stop mark.
InFront(m) ==
    \E i \in 1 .. Len(queue) : queue[i] = m /\ \A j \in 1 .. i - 1 : queue[j] # Stop

Kept(m) == m \in ToSet(handled) \/ m \in fatal \/ InFront(m)

\* Before close() there is no stop mark and nobody joins; afterwards nothing is promised.
\* The worker ends at a mark, of a message, or with the process.
FlushInv ==
    /\ ~closed => /\ \A i \in 1 .. Len(queue) : queue[i] # Stop
                  /\ \A c \in Clients : client[c] \notin {"joining", "joined"}
                  /\ worker = "ended" /\ fatal = {} => \A c \in Clients : client[c] = "ended"
    /\ worker # "ended" \/ fatal # {} => \A m \in promised : Kept(m)
    /\ worker = "ended" /\ fatal = {} => \/ promised \subseteq ToSet(handled)
                                         \/ \A c \in Clients : client[c] = "ended"
    /\ worker # "ended" => fatal = {} /\ \A c \in Clients : client[c] # "joined"

LEMMA FlushStep == ASSUME NotifierTypes, FlushInv, [NotifierNext]_notifierVars PROVE FlushInv'
  <1>0. /\ Len(queue) \in Nat /\ Len(handled) \in Nat
        /\ DOMAIN client = Clients
    BY LenProperties DEF NotifierTypes
  <1>1. ASSUME UNCHANGED <<queue, closed, worker, handled, fatal, promised>>,
               NEW c \in Clients, NEW s, client' = [client EXCEPT ![c] = s],
               \/ s \in {"putting", "closing"} /\ client[c] = "free" /\ ~closed
               \/ s = "joined" /\ client[c] = "joining" /\ worker = "ended"
               \/ s = "ended" /\ client[c] \in {"free", "joining"}
        PROVE  FlushInv'
    <2>1. \A m \in promised : Kept(m)' <=> Kept(m)
      BY <1>1 DEF Kept, InFront
    <2>2. /\ client'[c] = s
          /\ \A d \in Clients : d # c => client'[d] = client[d]
      BY <1>0, <1>1
    <2>3. QED
      BY <1>1, <2>1, <2>2 DEF FlushInv
  <1>2. ASSUME NEW c \in Clients, NotifyTests(c) PROVE FlushInv'
    BY <1>1, <1>2 DEF NotifyTests, Goes
  <1>3. ASSUME NEW c \in Clients, CloseTests(c) PROVE FlushInv'
    BY <1>1, <1>3 DEF CloseTests, Goes
  <1>4. ASSUME NEW c \in Clients, CloseJoined(c) PROVE FlushInv'
    BY <1>1, <1>4 DEF CloseJoined, Goes
  <1>5. ASSUME NEW c \in Clients, ClientEnds(c) PROVE FlushInv'
    BY <1>1, <1>5 DEF ClientEnds
  \* What a client appends stands behind what is in front of the first mark.
  <1>6. ASSUME NEW x \in Items, queue' = Append(queue, x), UNCHANGED <<handled, fatal>>
        PROVE  /\ \A m : Kept(m) => Kept(m)'
               /\ (\A i \in 1 .. Len(queue) : queue[i] # Stop) => Kept(x)'
               /\ (\A i \in 1 .. Len(queue) : queue[i] # Stop) /\ x # Stop =>
                     \A i \in 1 .. Len(queue') : queue'[i] # Stop
    <2>1. /\ Len(queue') = Len(queue) + 1 /\ queue'[Len(queue) + 1] = x
          /\ \A i \in 1 .. Len(queue) : queue'[i] = queue[i]
      BY <1>6, Appended DEF NotifierTypes
    <2>2. QED
      BY <1>0, <1>6, <2>1 DEF Kept, InFront
  <1>7. ASSUME NEW c \in Clients, NotifyPuts(c) PROVE FlushInv'
    <2> DEFINE m == <<c, count[c] + 1>>
    <2>1. /\ m \in Items /\ m # Stop
      BY <1>7, NumberAssumption, StopAssumption DEF NotifyPuts, NotifierTypes, Items, Messages, Goes
    <2>2. /\ queue' = Append(queue, m) /\ UNCHANGED <<handled, fatal, worker, closed>>
          /\ client[c] = "putting" /\ client'[c] = "free"
          /\ \A d \in Clients : d # c => client'[d] = client[d]
          /\ promised' = promised \/ (~closed /\ promised' = promised \cup {m})
      BY <1>0, <1>7 DEF NotifyPuts, Put, Goes
    <2> HIDE DEF m
    <2>3. QED
      BY <1>0, <1>6, <2>1, <2>2 DEF FlushInv
  <1>8. ASSUME NEW c \in Clients, ClosePuts(c) PROVE FlushInv'
    <2>1. /\ queue' = Append(queue, Stop) /\ UNCHANGED <<handled, fatal, worker, promised>>
          /\ client[c] = "closing" /\ client'[c] = "joining"
          /\ \A d \in Clients : d # c => client'[d] = client[d]
          /\ closed' /\ Stop \in Items
      BY <1>0, <1>8 DEF ClosePuts, Put, Goes, Items
    <2>2. QED
      BY <1>0, <1>6, <2>1 DEF FlushInv
  <1>9. CASE Gets
    <2>1. queue # <<>> /\ Head(queue) = queue[1] /\ 1 \in 1 .. Len(queue)
      BY <1>9, Shortened DEF Gets, NotifierTypes
    <2>2. CASE queue[1] = Stop
      <3>1. /\ worker # "ended" /\ worker' = "ended"
            /\ UNCHANGED <<closed, handled, fatal, client, promised>>
        BY <1>9, <2>1, <2>2 DEF Gets
      <3>2. \A m \in promised : ~InFront(m)
        BY <1>0, <2>1, <2>2, StopAssumption DEF InFront, NotifierTypes
      <3>3. promised \subseteq ToSet(handled) /\ fatal = {}
        BY <3>1, <3>2 DEF FlushInv, Kept
      <3>4. closed
        BY <2>1, <2>2 DEF FlushInv
      <3>5. QED
        BY <3>1, <3>3, <3>4 DEF FlushInv
    <2>3. CASE queue[1] # Stop
      <3>1. worker # "ended" /\ worker' = "publishing"
            /\ UNCHANGED <<queue, closed, handled, fatal, client, promised>>
        BY <1>9, <2>1, <2>3 DEF Gets
      <3>2. QED
        BY <3>1 DEF FlushInv, Kept, InFront
    <2>4. QED
      BY <2>2, <2>3
  \* The message at the head is taken away, the others come one place forward.
  <1>10. ASSUME Publishes \/ RequestRaises
         PROVE  /\ queue # <<>> /\ Head(queue) = queue[1] /\ Head(queue) \in Messages
                /\ \A m : InFront(m) => m = queue[1] \/ InFront(m)'
                /\ (\A i \in 1 .. Len(queue) : queue[i] # Stop)
                      => \A i \in 1 .. Len(queue') : queue'[i] # Stop
    <2>1. queue # <<>> /\ queue' = Tail(queue) /\ Head(queue) # Stop
      BY <1>10 DEF Publishes, RequestRaises, NotifierTypes
    <2>2. /\ Head(queue) = queue[1] /\ Head(queue) \in Messages
          /\ Len(queue') = Len(queue) - 1
          /\ \A i \in 1 .. Len(queue') : queue'[i] = queue[i + 1]
      BY <2>1, Shortened DEF NotifierTypes, Items
    <2>3. ASSUME NEW m, InFront(m), m # queue[1] PROVE InFront(m)'
      <3>1. PICK i \in 1 .. Len(queue) : queue[i] = m /\ \A j \in 1 .. i - 1 : queue[j] # Stop
        BY <2>3 DEF InFront
      <3>2. i - 1 \in 1 .. Len(queue') /\ (i - 1) + 1 = i
        BY <1>0, <2>2, <2>3, <3>1
      <3>3. queue'[i - 1] = m
        BY <2>2, <3>1, <3>2
      <3>4. ASSUME NEW j \in 1 .. (i - 1) - 1 PROVE queue'[j] # Stop
        <4>1. j \in 1 .. Len(queue') /\ j + 1 \in 1 .. i - 1
          BY <3>2
        <4>2. QED
          BY <2>2, <3>1, <4>1
      <3>5. QED
        BY <3>2, <3>3, <3>4 DEF InFront
    <2>4. (\A i \in 1 .. Len(queue) : queue[i] # Stop)
             => \A i \in 1 .. Len(queue') : queue'[i] # Stop
      BY <1>0, <2>2
    <2>5. QED
      BY <2>1, <2>2, <2>3, <2>4
  <1>11. CASE Publishes
    <2>1. /\ worker # "ended" /\ worker' # "ended" /\ handled' = Append(handled, Head(queue))
          /\ UNCHANGED <<closed, fatal, client, promised>>
      BY <1>11 DEF Publishes
    <2>2. ToSet(handled) \subseteq ToSet(handled') /\ queue[1] \in ToSet(handled')
      <3>1. /\ Len(handled') = Len(handled) + 1 /\ handled'[Len(handled) + 1] = queue[1]
            /\ \A i \in 1 .. Len(handled) : handled'[i] = handled[i]
            /\ DOMAIN handled' = 1 .. Len(handled') /\ DOMAIN handled = 1 .. Len(handled)
        BY <1>10, <1>11, <2>1, Appended, LenProperties DEF NotifierTypes
      <3>2. QED
        BY <1>0, <3>1 DEF ToSet
    <2>3. \A m \in promised : Kept(m)'
      BY <1>10, <1>11, <2>1, <2>2 DEF FlushInv, Kept
    <2>4. QED
      BY <1>10, <1>11, <2>1, <2>3 DEF FlushInv
  <1>12. CASE RequestRaises
    <2>1. /\ worker # "ended" /\ worker' = "ended" /\ fatal' = {Head(queue)}
          /\ UNCHANGED <<closed, handled, client, promised>>
      BY <1>12 DEF RequestRaises
    <2>2. \A m \in promised : Kept(m)'
      BY <1>10, <1>12, <2>1 DEF FlushInv, Kept
    <2>3. QED
      BY <1>10, <1>12, <2>1, <2>2 DEF FlushInv
  <1>13. CASE Exit
    <2>1. \A c \in Clients : client[c] = "ended"
      BY <1>13 DEF Exit, FlushInv
    <2>2. QED
      BY <1>13, <2>1 DEF Exit, FlushInv
  <1>14. CASE NotifierDone \/ UNCHANGED notifierVars
    BY <1>14 DEF NotifierDone, notifierVars, FlushInv, Kept, InFront
  <1>15. QED
    BY <1>2, <1>3, <1>4, <1>5, <1>7, <1>8, <1>9, <1>11, <1>12, <1>13, <1>14
       DEF NotifierNext, ClientStep, WorkerStep

-------------------------------------------------------------------------------
(* The theorems.                                                           *)

LEMMA NotifierInitially == ASSUME NotifierInit PROVE NotifierTypes /\ OrderInv /\ FlushInv
  <1>1. /\ <<>> \in Seq(Items) /\ <<>> \in Seq(Messages) /\ Len(queue) = 0 /\ Len(handled) = 0
    BY EmptySeq DEF NotifierInit
  <1>2. NotifierTypes
    <2>1. queue \in Seq(Items) /\ handled \in Seq(Messages)
      BY <1>1, Zenon DEF NotifierInit
    <2>2. /\ closed \in BOOLEAN /\ worker = "getting"
          /\ promised \subseteq Messages /\ fatal \subseteq Messages
      BY Zenon DEF NotifierInit
    <2>3. /\ client \in [Clients ->
                {"free", "putting", "closing", "joining", "joined", "ended"}]
          /\ count \in [Clients -> Nat]
          /\ \A c \in Clients : client[c] = "free" /\ count[c] = 0
      BY DEF NotifierInit
    <2>4. QED
      BY <2>1, <2>2, <2>3, NumberAssumption DEF NotifierTypes
  <1>3. OrderInv
    BY <1>1 DEF NotifierInit, OrderInv
  <1>4. FlushInv
    BY <1>1 DEF NotifierInit, FlushInv
  <1>5. QED
    BY <1>2, <1>3, <1>4

\* The messages of a thread are handled in the order it sent them, each at most once, also
\* when the notifier is closed from two threads at once.
THEOREM MessagesInOrder == NotifierSpec => []HandledInOrder
  <1>1. NotifierInit => NotifierTypes /\ OrderInv
    BY NotifierInitially
  <1>2. NotifierTypes /\ OrderInv /\ [NotifierNext]_notifierVars => NotifierTypes' /\ OrderInv'
    BY NotifierTypeStep, OrderStep
  <1>3. OrderInv => HandledInOrder
    BY DEF OrderInv, HandledInOrder, Before
  <1>4. QED
    BY <1>1, <1>2, <1>3, PTL DEF NotifierSpec

\* What the thread leaves behind when it dies comes after the message it died of.
LEMMA LeftBehind == ASSUME NotifierTypes, OrderInv, FlushInv PROVE CloseFlushes
  <1> SUFFICES ASSUME NEW c \in Clients, client[c] = "joined",
                      NEW m \in promised \ ToSet(handled)
               PROVE  \E f \in fatal :
                         m = f \/ (m \in ToSet(queue) /\ (m[1] = f[1] => f[2] < m[2]))
    BY DEF CloseFlushes
  <1>1. worker = "ended" /\ fatal # {}
    BY DEF FlushInv
  <1>2. m \in fatal \/ InFront(m)
    BY <1>1 DEF FlushInv, Kept
  <1>3. CASE InFront(m)
    <2>1. PICK i \in 1 .. Len(queue) : queue[i] = m
      BY <1>3 DEF InFront
    <2>2. m \in ToSet(queue)
      BY <2>1, LenProperties DEF ToSet, NotifierTypes
    <2>3. m # Stop
      BY StopAssumption DEF NotifierTypes
    <2>4. PICK f \in fatal : Before(f, m)
      BY <1>1, <2>1, <2>3 DEF OrderInv
    <2>5. QED
      BY <2>2, <2>4 DEF Before
  <1>4. QED
    BY <1>2, <1>3

\* When a close() that did not find the notifier closed returns, everything handed over
\* before has been published or recorded as failed, unless the publishing thread died of
\* a message it could make no request of: then that message and later ones have not, and
\* none its sender handed over before it.
THEOREM LostOnlyAfterADeath == NotifierSpec => []CloseFlushes
  <1>1. NotifierInit => NotifierTypes /\ OrderInv /\ FlushInv
    BY NotifierInitially
  <1>2. NotifierTypes /\ OrderInv /\ FlushInv /\ [NotifierNext]_notifierVars
           => NotifierTypes' /\ OrderInv' /\ FlushInv'
    BY NotifierTypeStep, OrderStep, FlushStep
  <1>3. NotifierTypes /\ OrderInv /\ FlushInv => CloseFlushes
    BY LeftBehind
  <1>4. QED
    BY <1>1, <1>2, <1>3, PTL DEF NotifierSpec

===============================================================================
