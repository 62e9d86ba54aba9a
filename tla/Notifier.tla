------------------------------- MODULE Notifier -------------------------------
(***************************************************************************)
(* NtfyNotifier of ntfy_notifications.py: threads hand messages to a       *)
(* queue, a daemon thread publishes them, and close() has it publish what  *)
(* is queued and ends it.  The simulation and the writer share one         *)
(* notifier; the process ends when they have, with or without close().     *)
(* An exception of the thread outside the try clause of _publish ends it,  *)
(* and nobody is told.  A message is <<client, number>>.                   *)
(***************************************************************************)
EXTENDS Integers, SequencesExt

CONSTANTS
    Clients,       \* the threads that use the notifier
    MaxMessages,   \* bound on the messages of a client
    Stop           \* NtfyNotifier._STOP

ASSUME NumberAssumption == MaxMessages \in Nat

VARIABLES
    queue, closed,
    \* the thread of _publish_pending, the messages it has published or recorded as
    \* failed, and the message it died of, if any
    worker, handled, fatal,
    \* where each client is and how many messages it has handed over; the messages
    \* whose notify() was done before close() began
    client, count, promised

notifierVars == <<queue, closed, worker, handled, fatal, client, count, promised>>

Messages == Clients \X (1 .. MaxMessages)

ASSUME StopAssumption == Stop \notin Messages

NotifierInit ==
    /\ queue = <<>> /\ closed = FALSE /\ worker = "getting"
    /\ handled = <<>> /\ fatal = {}
    /\ client = [c \in Clients |-> "free"] /\ count = [c \in Clients |-> 0]
    /\ promised = {}

Goes(c, from, to) == client[c] = from /\ client' = [client EXCEPT ![c] = to]

-------------------------------------------------------------------------------
(* A client: notify, and close.                                            *)

\* The test of _closed and the put are two steps.
NotifyTests(c) ==
    /\ Goes(c, "free", "putting") /\ ~closed /\ count[c] < MaxMessages
    /\ UNCHANGED <<queue, closed, worker, handled, fatal, count, promised>>

\* Faulty variants: a message overtakes those that wait, but not the one being
\* published; the stop mark is forgotten.
PutInFront(m) ==
    IF worker = "publishing" THEN <<Head(queue), m>> \o Tail(queue) ELSE <<m>> \o queue
PutUnlessStop(m) == IF m = Stop THEN queue ELSE Append(queue, m)

Put(m) == Append(queue, m)

NotifyPuts(c) ==
    /\ Goes(c, "putting", "free")
    /\ count' = [count EXCEPT ![c] = @ + 1]
    /\ queue' = Put(<<c, count[c] + 1>>)
    /\ promised' = IF closed THEN promised ELSE promised \cup {<<c, count[c] + 1>>}
    /\ UNCHANGED <<closed, worker, handled, fatal>>

\* A second close() returns at once, even when the first still waits.
CloseTests(c) ==
    /\ Goes(c, "free", IF closed THEN "ended" ELSE "closing")
    /\ UNCHANGED <<queue, closed, worker, handled, fatal, count, promised>>

ClosePuts(c) ==
    /\ Goes(c, "closing", "joining")
    /\ closed' = TRUE /\ queue' = Put(Stop)
    /\ UNCHANGED <<worker, handled, fatal, count, promised>>

CloseJoined(c) ==
    /\ Goes(c, "joining", "joined") /\ worker = "ended"
    /\ UNCHANGED <<queue, closed, worker, handled, fatal, count, promised>>

\* The thread ends; one that has the notifier to close may be interrupted before.
ClientEnds(c) ==
    /\ client[c] \in {"free", "joining"} /\ client' = [client EXCEPT ![c] = "ended"]
    /\ UNCHANGED <<queue, closed, worker, handled, fatal, count, promised>>

-------------------------------------------------------------------------------
(* The publishing thread.                                                  *)

Gets ==
    /\ worker = "getting" /\ queue # <<>>
    /\ worker' = IF Head(queue) = Stop THEN "ended" ELSE "publishing"
    /\ IF Head(queue) = Stop THEN queue' = Tail(queue) ELSE UNCHANGED queue
    /\ UNCHANGED <<closed, handled, fatal, client, count, promised>>

\* The message is posted, or the attempt fails or times out, and what came of it is
\* recorded, if the timing log takes it.
Publishes ==
    /\ worker = "publishing"
    /\ worker' = "getting" /\ handled' = Append(handled, Head(queue))
    /\ queue' = Tail(queue)
    /\ UNCHANGED <<closed, fatal, client, count, promised>>

\* No request can be made of the message, as with a server's URL without a scheme or text
\* that cannot be encoded: that is before the try clause, and ends the thread.
RequestRaises ==
    /\ worker = "publishing"
    /\ worker' = "ended" /\ fatal' = {Head(queue)}
    /\ queue' = Tail(queue)
    /\ UNCHANGED <<closed, handled, client, count, promised>>

\* The process ends with its last other thread, and takes the daemon thread with it.
Exit ==
    /\ \A c \in Clients : client[c] \in {"ended", "joined"}
    /\ worker # "ended" /\ worker' = "ended"
    /\ UNCHANGED <<queue, closed, handled, fatal, client, count, promised>>

NotifierDone ==
    /\ \A c \in Clients : client[c] \in {"ended", "joined"}
    /\ worker = "ended"
    /\ UNCHANGED notifierVars

ClientStep(c) == NotifyPuts(c) \/ ClosePuts(c) \/ CloseJoined(c)
WorkerStep == Gets \/ Publishes \/ RequestRaises

NotifierNext ==
    \/ \E c \in Clients : \/ NotifyTests(c) \/ CloseTests(c) \/ ClientStep(c)
                          \/ ClientEnds(c)
    \/ WorkerStep \/ Exit \/ NotifierDone

\* A call that was begun goes on, and publishing ends by its timeout.
NotifierFairness == WF_notifierVars(WorkerStep) /\ \A c \in Clients : WF_notifierVars(ClientStep(c))

NotifierSpec == NotifierInit /\ [][NotifierNext]_notifierVars
NotifierFairSpec == NotifierSpec /\ NotifierFairness

-------------------------------------------------------------------------------

\* When a close() that did not find the notifier closed returns, every message handed
\* over before has been published or recorded as failed, unless the thread died: then
\* what has not is the message it died of and messages left in the queue behind it, none
\* of them sent by the same client before it.  Nothing else is lost but by a notify()
\* that was under way.
CloseFlushes ==
    \A c \in Clients : client[c] = "joined" =>
       \A m \in promised \ ToSet(handled) :
          \E f \in fatal : m = f \/ (m \in ToSet(queue) /\ (m[1] = f[1] => f[2] < m[2]))

\* The messages of a thread are handled in the order it sent them, each at most once,
\* also when the notifier is closed from two threads at once.
HandledInOrder ==
    \A i, j \in 1 .. Len(handled) :
       i < j /\ handled[i][1] = handled[j][1] => handled[i][2] < handled[j][2]

\* close() returns however the servers answer, unless its thread is interrupted.
CloseEnds == \A c \in Clients : client[c] = "joining" ~> client[c] \in {"joined", "ended"}
===============================================================================
