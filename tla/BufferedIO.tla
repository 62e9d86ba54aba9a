------------------------------ MODULE BufferedIO ------------------------------
(***************************************************************************)
(* The producer's output queue: class BufferedIO of mock_io.py, together   *)
(* with the main thread of mockProducer.heat2d that fills and closes it.   *)
(*                                                                         *)
(* Two threads share the state guarded by the condition variable           *)
(* _condition.  The main thread appends one snapshot per output step and,  *)
(* when the queue is full, evicts one queued snapshot to make room.  The   *)
(* worker thread takes snapshots from the head and hands each one to the   *)
(* output outside the lock.  A snapshot is abstracted to its step number.  *)
(* Each "with self._condition" block is one action; what a thread does     *)
(* between two blocks is an action of its own.                             *)
(***************************************************************************)
EXTENDS Integers, Sequences, SequencesExt

CONSTANTS
    Capacity,   \* _capacity: max(1, ceil(buffer_seconds / output interval))
    Steps,      \* settings.steps: the steps are 0 .. Steps - 1
    Interval,   \* HIGH_BUFFER_NOTIFICATION_INTERVAL_SECONDS, in clock units
    MaxTime,    \* bound on the clock
    None        \* Python's None

ASSUME CapacityAssumption == Capacity \in Nat \ {0}
ASSUME StepsAssumption == Steps \in Nat
ASSUME TimeAssumption == Interval \in Nat \ {0} /\ MaxTime \in Nat
ASSUME NoneAssumption == None \notin Int

VARIABLES
    \* fields of BufferedIO guarded by _condition
    buffer, closing, closed, error, dropped_steps, next_drop_index,
    notified_thresholds, last_high_notification_at,
    dropped_since_high_notification,
    \* the worker thread and the snapshot it is writing (at most one)
    worker, inflight,
    \* the main thread: where it is, the step it produces next, the locals of
    \* _enqueue it still has to report, the close() calls it has left to make,
    \* and whether heat2d leaves with an exception
    main, next_step, pending, close_calls, failed,
    \* the surroundings: what the output took, how often it was closed, the
    \* clock, the notifier's messages and the io.buffer_drop records
    delivered, output_closed, now, low_sent, high_sent, reported, drop_log,
    \* history: the last step evicted since the eviction cursor last wrapped
    pass_evicted

queueVars  == <<buffer, dropped_steps, next_drop_index, pass_evicted>>
stateVars  == <<closing, closed, error>>
alertVars  == <<notified_thresholds, last_high_notification_at,
                dropped_since_high_notification>>
workerVars == <<worker, inflight, delivered>>
mainVars   == <<main, next_step, pending, close_calls, failed>>
reportVars == <<low_sent, high_sent, reported, drop_log>>

vars == <<queueVars, stateVars, alertVars, workerVars, mainVars, reportVars,
          output_closed, now>>

LowPercents == {20, 40, 60}

\* Queue length at which the queue counts as percent full.
ThresholdDepth(percent) == (Capacity * percent + 99) \div 100

NothingToReport == [dropped |-> None, incoming |-> None, low |-> {}, high |-> None]

Init ==
    /\ buffer = <<>> /\ dropped_steps = 0 /\ pass_evicted = None
    /\ next_drop_index = IF Capacity > 1 THEN 1 ELSE 0
    /\ closing = FALSE /\ closed = FALSE /\ error = FALSE
    /\ notified_thresholds = {}
    /\ last_high_notification_at = None
    /\ dropped_since_high_notification = 0
    /\ worker = "ready" /\ inflight = <<>> /\ delivered = <<>>
    /\ main = "run" /\ next_step = 0 /\ pending = NothingToReport
    /\ close_calls = 2 /\ failed = FALSE
    /\ low_sent = [p \in LowPercents |-> 0] /\ high_sent = 0 /\ reported = 0
    /\ drop_log = <<>>
    /\ output_closed = 0 /\ now = 0

-------------------------------------------------------------------------------
(* The main thread: _enqueue.                                              *)

\* _condition.notify() and notify_all(): the worker is the only waiter.
Wake == worker' = IF worker = "waiting" THEN "ready" ELSE worker

Unavailable == error \/ closing \/ closed

\* The Python index of the snapshot to evict, and the cursor it leaves.
DropIndex == IF next_drop_index < Len(buffer) - 1 THEN next_drop_index
                                                  ELSE Len(buffer) - 1
\* Faulty variants: the cursor does not wrap; it stays on the snapshot that took the
\* evicted one's place.
CursorAfterDropUnwrapped == DropIndex + 1
CursorAfterDropUnmoved == DropIndex
CursorAfterDrop == IF DropIndex + 1 >= Capacity THEN 0 ELSE DropIndex + 1

\* What _enqueue decides under the lock once the queue holds depth snapshots.
CrossedLow(depth) ==
    {p \in LowPercents : depth >= ThresholdDepth(p)} \ notified_thresholds
\* Faulty variant: the hourly limit is missing.
HighDueAlways(depth) == depth >= ThresholdDepth(80)
HighDue(depth) ==
    /\ depth >= ThresholdDepth(80)
    /\ \/ last_high_notification_at = None
       \/ now - last_high_notification_at >= Interval

\* Faulty variant: the losses are not reset once they are to be reported.
AcceptKeepingLosses(kept, dropped) ==
    LET depth == Len(kept) + 1
        loss  == dropped_since_high_notification
                   + IF dropped = None THEN 0 ELSE 1
    IN  /\ buffer' = Append(kept, next_step)
        /\ next_step' = next_step + 1
        /\ notified_thresholds' = notified_thresholds \cup CrossedLow(depth)
        /\ last_high_notification_at' =
              IF HighDue(depth) THEN now ELSE last_high_notification_at
        /\ dropped_since_high_notification' = loss
        /\ pending' = [dropped |-> dropped, incoming |-> next_step,
                       low |-> CrossedLow(depth),
                       high |-> IF HighDue(depth) THEN loss ELSE None]
        /\ main' = "report"
        /\ Wake

\* Append next_step to the snapshots in kept; dropped is the one just evicted.
Accept(kept, dropped) ==
    LET depth == Len(kept) + 1
        loss  == dropped_since_high_notification
                   + IF dropped = None THEN 0 ELSE 1
    IN  /\ buffer' = Append(kept, next_step)
        /\ next_step' = next_step + 1
        /\ notified_thresholds' = notified_thresholds \cup CrossedLow(depth)
        /\ IF HighDue(depth)
             THEN /\ last_high_notification_at' = now
                  /\ dropped_since_high_notification' = 0
             ELSE /\ UNCHANGED last_high_notification_at
                  /\ dropped_since_high_notification' = loss
        /\ pending' = [dropped |-> dropped, incoming |-> next_step,
                       low |-> CrossedLow(depth),
                       high |-> IF HighDue(depth) THEN loss ELSE None]
        /\ main' = "report"
        /\ Wake

\* Faulty variant: one snapshot too many fits.
EnqueueFreeOneMore ==
    /\ main = "run" /\ next_step < Steps /\ ~Unavailable
    /\ Len(buffer) <= Capacity
    /\ Accept(buffer, None)
    /\ UNCHANGED <<dropped_steps, next_drop_index, pass_evicted, stateVars, inflight,
                   delivered, close_calls, failed, reportVars, output_closed, now>>

EnqueueFree ==
    /\ main = "run" /\ next_step < Steps /\ ~Unavailable
    /\ Len(buffer) < Capacity
    /\ Accept(buffer, None)
    /\ UNCHANGED <<dropped_steps, next_drop_index, pass_evicted, stateVars, inflight,
                   delivered, close_calls, failed, reportVars, output_closed, now>>

\* Faulty variant: the head is reported as evicted, whatever was.
EnqueueFullReportsHead ==
    /\ main = "run" /\ next_step < Steps /\ ~Unavailable
    /\ Len(buffer) >= Capacity
    /\ Accept(RemoveAt(buffer, DropIndex + 1), buffer[1])
    /\ dropped_steps' = dropped_steps + 1
    /\ next_drop_index' = CursorAfterDrop
    /\ pass_evicted' = IF CursorAfterDrop = 0 THEN None ELSE buffer[DropIndex + 1]
    /\ UNCHANGED <<stateVars, inflight, delivered, close_calls, failed, reportVars,
                   output_closed, now>>

\* The queue is full: _drop_one_pending_step first.
EnqueueFull ==
    /\ main = "run" /\ next_step < Steps /\ ~Unavailable
    /\ Len(buffer) >= Capacity
    /\ Accept(RemoveAt(buffer, DropIndex + 1), buffer[DropIndex + 1])
    /\ dropped_steps' = dropped_steps + 1
    /\ next_drop_index' = CursorAfterDrop
    /\ pass_evicted' = IF CursorAfterDrop = 0 THEN None ELSE buffer[DropIndex + 1]
    /\ UNCHANGED <<stateVars, inflight, delivered, close_calls, failed, reportVars,
                   output_closed, now>>

\* After the lock is released: notifier messages, then the io.buffer_drop record.
Report ==
    /\ main = "report"
    /\ low_sent' = [p \in LowPercents |-> low_sent[p] + IF p \in pending.low THEN 1 ELSE 0]
    /\ IF pending.high = None
         THEN UNCHANGED <<high_sent, reported>>
         ELSE high_sent' = high_sent + 1 /\ reported' = reported + pending.high
    /\ drop_log' = IF pending.dropped = None THEN drop_log
                   ELSE Append(drop_log, [dropped  |-> pending.dropped,
                                          incoming |-> pending.incoming])
    /\ pending' = NothingToReport
    /\ main' = "run"
    /\ UNCHANGED <<queueVars, stateVars, alertVars, workerVars, next_step, close_calls,
                   failed, output_closed, now>>

\* _raise_if_unavailable raises; heat2d unwinds to the close() of its finally.
EnqueueRaises ==
    /\ main = "run" /\ next_step < Steps /\ Unavailable
    /\ main' = "close" /\ close_calls' = 1 /\ failed' = TRUE
    /\ UNCHANGED <<queueVars, stateVars, alertVars, workerVars, next_step, pending,
                   reportVars, output_closed, now>>

\* The simulation raises, or Ctrl-C arrives, between two writes.
Interrupted ==
    /\ main = "run"
    /\ main' = "close" /\ close_calls' = 1 /\ failed' = TRUE
    /\ UNCHANGED <<queueVars, stateVars, alertVars, workerVars, next_step, pending,
                   reportVars, output_closed, now>>

\* The last step is written: heat2d calls close(), and its finally calls it again.
RunEnds ==
    /\ main = "run" /\ next_step = Steps
    /\ main' = "close"
    /\ UNCHANGED <<queueVars, stateVars, alertVars, workerVars, next_step, pending,
                   close_calls, failed, reportVars, output_closed, now>>

-------------------------------------------------------------------------------
(* The main thread: close.                                                 *)

\* A close() call of heat2d is over; the next one, if any, is that of finally.
CloseCallOver ==
    /\ close_calls' = close_calls - 1
    /\ main' = IF close_calls = 2 THEN "close" ELSE "exited"

\* Faulty variants: close() does not wake the worker; it begins again after it ended.
CloseBeginsSilently ==
    /\ main = "close" /\ ~closed
    /\ closing' = TRUE /\ main' = "join"
    /\ UNCHANGED <<queueVars, closed, error, alertVars, workerVars, next_step,
                   pending, close_calls, failed, reportVars, output_closed, now>>
CloseBeginsAgain ==
    /\ main = "close"
    /\ closing' = TRUE /\ main' = "join"
    /\ Wake
    /\ UNCHANGED <<queueVars, closed, error, alertVars, inflight, delivered, next_step,
                   pending, close_calls, failed, reportVars, output_closed, now>>

CloseBegins ==
    /\ main = "close" /\ ~closed
    /\ closing' = TRUE /\ main' = "join"
    /\ Wake
    /\ UNCHANGED <<queueVars, closed, error, alertVars, inflight, delivered, next_step,
                   pending, close_calls, failed, reportVars, output_closed, now>>

CloseReturnsAtOnce ==
    /\ main = "close" /\ closed
    /\ CloseCallOver
    /\ UNCHANGED <<queueVars, stateVars, alertVars, workerVars, next_step, pending,
                   failed, reportVars, output_closed, now>>

\* worker.join() returns, and output.close() is called.
JoinReturns ==
    /\ main = "join" /\ worker = "ended"
    /\ output_closed' = output_closed + 1
    /\ main' = "closing_output"
    /\ UNCHANGED <<queueVars, stateVars, alertVars, workerVars, next_step, pending,
                   close_calls, failed, reportVars, now>>

\* Ctrl-C during worker.join(): the call unwinds, the worker keeps draining.
JoinInterrupted ==
    /\ main = "join"
    /\ CloseCallOver /\ failed' = TRUE
    /\ UNCHANGED <<queueVars, stateVars, alertVars, workerVars, next_step, pending,
                   reportVars, output_closed, now>>

\* Faulty variant: close() forgets the worker's error.
CloseEndsQuietly ==
    /\ main = "closing_output"
    /\ closed' = TRUE
    /\ \E close_error \in BOOLEAN : failed' = (failed \/ close_error)
    /\ CloseCallOver
    /\ UNCHANGED <<queueVars, closing, error, alertVars, workerVars, next_step, pending,
                   reportVars, output_closed, now>>

\* output.close() returned or raised: close() ends, raising the worker's error
\* or else the output's.
CloseEnds ==
    /\ main = "closing_output"
    /\ closed' = TRUE
    /\ \E close_error \in BOOLEAN : failed' = (failed \/ error \/ close_error)
    /\ CloseCallOver
    /\ UNCHANGED <<queueVars, closing, error, alertVars, workerVars, next_step, pending,
                   reportVars, output_closed, now>>

-------------------------------------------------------------------------------
(* The worker thread: _write_pending.                                      *)

WorkerWaits ==
    /\ worker = "ready" /\ buffer = <<>> /\ ~closing
    /\ worker' = "waiting"
    /\ UNCHANGED <<queueVars, stateVars, alertVars, inflight, delivered, mainVars,
                   reportVars, output_closed, now>>

\* The cursor after the head was taken: it follows the queue, except that a head
\* that was the next to be evicted leaves the new head alone.
CursorAfterPop ==
    IF Capacity > 1 /\ next_drop_index = 0 THEN 1
    ELSE IF next_drop_index > 0 THEN next_drop_index - 1 ELSE next_drop_index

WorkerPops ==
    /\ worker = "ready" /\ buffer # <<>>
    /\ inflight' = <<Head(buffer)>> /\ buffer' = Tail(buffer)
    /\ next_drop_index' = CursorAfterPop
    /\ worker' = "writing"
    /\ UNCHANGED <<dropped_steps, pass_evicted, stateVars, alertVars, delivered, mainVars,
                   reportVars, output_closed, now>>

WorkerReturns ==
    /\ worker = "ready" /\ buffer = <<>> /\ closing
    /\ worker' = "ended"
    /\ UNCHANGED <<queueVars, stateVars, alertVars, inflight, delivered, mainVars,
                   reportVars, output_closed, now>>

\* output.write_data returns.
WriteReturns ==
    /\ worker = "writing"
    /\ delivered' = delivered \o inflight /\ inflight' = <<>>
    /\ worker' = "ready"
    /\ UNCHANGED <<queueVars, stateVars, alertVars, mainVars, reportVars, output_closed,
                   now>>

\* Faulty variant: the worker swallows the exception and goes on.
WriteRaisesIgnored ==
    /\ worker = "writing"
    /\ worker' = "ready" /\ inflight' = <<>>
    /\ UNCHANGED <<queueVars, stateVars, alertVars, delivered, mainVars,
                   reportVars, output_closed, now>>

\* output.write_data, or building the step's arrays, raises; the lock is not held.
WriteRaises ==
    /\ worker = "writing"
    /\ worker' = "failing"
    /\ UNCHANGED <<queueVars, stateVars, alertVars, inflight, delivered, mainVars,
                   reportVars, output_closed, now>>

\* The handler of the worker's exception, under the lock.
WorkerFails ==
    /\ worker = "failing"
    /\ error' = TRUE /\ closing' = TRUE
    /\ dropped_steps' = dropped_steps + Len(buffer) /\ buffer' = <<>>
    /\ inflight' = <<>> /\ worker' = "ended"
    /\ UNCHANGED <<next_drop_index, pass_evicted, closed, alertVars, delivered, mainVars,
                   reportVars, output_closed, now>>

-------------------------------------------------------------------------------

Tick ==
    /\ now < MaxTime
    /\ now' = now + 1
    /\ UNCHANGED <<queueVars, stateVars, alertVars, workerVars, mainVars, reportVars,
                   output_closed>>

\* Both threads are over.
Done == main = "exited" /\ worker = "ended" /\ UNCHANGED vars

MainStep == EnqueueFree \/ EnqueueFull \/ Report \/ EnqueueRaises \/ RunEnds
              \/ CloseBegins \/ CloseReturnsAtOnce \/ JoinReturns \/ CloseEnds
WorkerStep == WorkerWaits \/ WorkerPops \/ WorkerReturns \/ WriteReturns
                \/ WriteRaises \/ WorkerFails

Next == MainStep \/ WorkerStep \/ Interrupted \/ JoinInterrupted \/ Tick \/ Done

\* Both threads keep running; write_data and close of the output return or raise.
Fairness == WF_vars(MainStep) /\ WF_vars(WorkerStep)

Spec == Init /\ [][Next]_vars
FairSpec == Spec /\ Fairness

-------------------------------------------------------------------------------
(* Type.                                                                   *)

\* The values each variable takes.
TypeOK ==
    /\ buffer \in Seq(Nat) /\ inflight \in Seq(Nat) /\ delivered \in Seq(Nat)
    /\ closing \in BOOLEAN /\ closed \in BOOLEAN /\ error \in BOOLEAN
    /\ dropped_steps \in Nat /\ next_drop_index \in 0 .. Capacity - 1
    /\ notified_thresholds \subseteq LowPercents
    /\ last_high_notification_at \in Nat \cup {None}
    /\ dropped_since_high_notification \in Nat
    /\ worker \in {"ready", "waiting", "writing", "failing", "ended"}
    /\ main \in {"run", "report", "close", "join", "closing_output", "exited"}
    /\ next_step \in Nat /\ close_calls \in 0 .. 2 /\ failed \in BOOLEAN
    /\ pending \in [dropped : Nat \cup {None}, incoming : Nat \cup {None},
                     low : SUBSET LowPercents, high : Nat \cup {None}]
    /\ pending.dropped # None => pending.incoming # None
    /\ output_closed \in Nat /\ now \in Nat
    /\ low_sent \in [LowPercents -> Nat] /\ high_sent \in Nat /\ reported \in Nat
    /\ drop_log \in Seq([dropped : Nat, incoming : Nat])
    /\ pass_evicted \in Nat \cup {None}

-------------------------------------------------------------------------------
(* Safety.                                                                 *)

\* Everything accepted and not evicted, oldest first.
Pipeline == delivered \o inflight \o buffer

\* Snapshots reach the output in the order they were produced and at most once,
\* whatever was evicted in between and however the threads interleave.
InOrder ==
    /\ \A i, j \in 1 .. Len(Pipeline) : i < j => Pipeline[i] < Pipeline[j]
    /\ \A i \in 1 .. Len(Pipeline) : Pipeline[i] < next_step

\* Every accepted snapshot is delivered, being written, queued, counted in
\* dropped_steps, or the one snapshot whose write failed: the queue's counter
\* misses exactly that one.
Accounted ==
    next_step = Len(delivered) + Len(inflight) + Len(buffer) + dropped_steps
                  + IF error THEN 1 ELSE 0

\* The queue never exceeds its capacity, and the eviction cursor never leaves it:
\* the min() of _drop_one_pending_step never has anything to cut.
CursorInQueue ==
    /\ Len(buffer) <= Capacity
    /\ Len(buffer) = Capacity => next_drop_index < Len(buffer)
    /\ Capacity = 1 => next_drop_index = 0

\* The worker sleeps on the condition only while there is nothing to do: no
\* append and no close is missed between its test and its wait.
NoLostWakeup == worker = "waiting" => buffer = <<>> /\ ~closing

\* output.close() is called at most once although heat2d may call close() twice,
\* and never while the worker may still write.
OutputClosedLast ==
    /\ output_closed <= 1
    /\ output_closed = 1 => worker = "ended"

\* When heat2d ends without an exception every produced step reached the output
\* or is counted as dropped, and the output was closed.
CleanExitFlushed ==
    main = "exited" /\ ~failed =>
        /\ Len(delivered) + dropped_steps = Steps
        /\ output_closed = 1

\* A snapshot the timing log reports as evicted for a newer one never reaches the
\* output, and the log misses no eviction: while the writer has not failed its
\* records, with the one main is about to write, are as many as dropped_steps.
DropLogTrue ==
    LET unlogged == IF pending.dropped = None THEN 0 ELSE 1
    IN  /\ \A i \in 1 .. Len(drop_log) :
              /\ drop_log[i].dropped < drop_log[i].incoming
              /\ \A k \in 1 .. Len(Pipeline) : drop_log[i].dropped # Pipeline[k]
        /\ ~error => Len(drop_log) + unlogged = dropped_steps
        /\ error => Len(drop_log) + unlogged <= dropped_steps

\* The losses the high-buffer notifications report, with those not yet reported,
\* add up to the evictions: no eviction is reported twice or forgotten when the
\* counter is reset.
LossesReportedOnce ==
    reported + (IF pending.high = None THEN 0 ELSE pending.high)
             + dropped_since_high_notification
        = Len(drop_log) + IF pending.dropped = None THEN 0 ELSE 1

\* Each low threshold is announced at most once per run, and the number of
\* high-buffer notifications is what an hourly limit allows.
AlertsLimited ==
    /\ \A p \in LowPercents : low_sent[p] <= 1
    /\ (high_sent - 1) * Interval <= now

\* Until the eviction cursor wraps, two snapshots evicted one after the other
\* always have a snapshot between them that was kept (it is in the queue, being
\* written or delivered): "every other queued step is discarded".
KeptBetween(older, newer) ==
    \E k \in 1 .. Len(Pipeline) : older < Pipeline[k] /\ Pipeline[k] < newer
EveryOtherStep ==
    dropped_steps' = dropped_steps + 1 /\ next_step' # next_step
        /\ Capacity > 1 /\ pass_evicted # None
      => KeptBetween(pass_evicted, buffer[DropIndex + 1])
EveryOtherStepDropped == [][EveryOtherStep]_vars

-------------------------------------------------------------------------------
(* Liveness, under FairSpec.                                               *)

\* Both threads end: close() never waits for a worker that waits for it, however
\* the run ends, and a non-daemon worker never keeps the process alive.
BothThreadsEnd == <>(main = "exited" /\ worker = "ended")

-------------------------------------------------------------------------------
(* The queue implements LossyFifo: the snapshot being written still waits in *)
(* the abstract queue, which closes with closing.                          *)

Fifo == INSTANCE LossyFifo WITH
            accepted <- next_step, queue <- inflight \o buffer, open <- ~closing

\* Every behaviour of the two threads is one of the abstract queue: in order, lost
\* only by overflow or by a failed output, and nothing waits forever.
ImplementsLossyFifo == Fifo!FairSpec
===============================================================================
