------------------------------- MODULE Analysis -------------------------------
(***************************************************************************)
(* What analyze_remote_experiment.py concludes from the timing logs of a   *)
(* run that goes on while it looks.                                        *)
(*                                                                         *)
(* The producer logs a snapshot after it has queued it, with the time it   *)
(* began to, and an eviction after it has made it; a consumer logs a       *)
(* snapshot after it has stored it, under a number of its own that starts  *)
(* at 0 in every consumer.  The consumers of a run append to one log.  The *)
(* analyzer reads that log through SSH, then the producer's; the last line *)
(* of a log may not be whole yet when it is read.  Every step that has a   *)
(* time in a log takes the next value of the clock.                        *)
(***************************************************************************)
EXTENDS Integers, SequencesExt

CONSTANTS
    TotalSteps,  \* the snapshots are 0 .. TotalSteps - 1
    Capacity,    \* of the output queue
    MaxFaults,   \* bound on lost connections, failed writes and failures of the output
    None

ASSUME AnalysisAssumption ==
    TotalSteps \in Nat /\ Capacity \in Nat \ {0} /\ MaxFaults \in Nat /\ None \notin Int

VARIABLES
    time,
    \* the simulation: the snapshots queued, whether one of them is still to be logged,
    \* and the evictions still to be logged; when each was queued
    produced, logging, dropping, called_at,
    \* the queue, the snapshot on its way and whether its acknowledgement is, whether the
    \* output has failed for good, and the consumer's number for the next snapshot
    queue, flight, awaiting, failed, step,
    \* the logs, and the snapshots stored, without the retried ones
    producer_log, consumer_log, stored, faults,
    \* the analyzer, its copies of the logs, and whether the producer was not in the
    \* middle of a write when its log was read
    analyzer, producer_records, consumer_records, settled,
    \* the most snapshots that were queued or on their way until the consumer's log was
    \* read
    peak

simulationVars == <<produced, logging, dropping, called_at>>
workerVars     == <<queue, flight, awaiting, failed>>
consumerVars   == <<step, consumer_log, stored>>
analyzerVars   == <<analyzer, producer_records, consumer_records, settled>>

analysisVars == <<time, simulationVars, workerVars, consumerVars, producer_log, faults,
                  analyzerVars, peak>>

AnalysisInit ==
    /\ time = 0
    /\ produced = 0 /\ logging = FALSE /\ dropping = 0 /\ called_at = <<>>
    /\ queue = <<>> /\ flight = None /\ awaiting = FALSE
    /\ failed = FALSE /\ step = 0
    /\ producer_log = <<>> /\ consumer_log = <<>> /\ stored = {} /\ faults = 0
    /\ analyzer = "starting" /\ settled = FALSE
    /\ producer_records = <<>> /\ consumer_records = <<>>
    /\ peak = 0

Fault == faults < MaxFaults /\ faults' = faults + 1

Running == analyzer # "done"

-------------------------------------------------------------------------------
(* The run.                                                                *)

Outstanding == Len(queue) + IF flight = None \/ flight \in stored THEN 0 ELSE 1
Larger(p, n) == IF n > p THEN n ELSE p

\* write_data of BufferedIO: a full queue loses one of its snapshots.
Enqueue ==
    /\ Running /\ produced < TotalSteps /\ ~logging /\ ~failed
    /\ produced' = produced + 1 /\ logging' = TRUE
    /\ called_at' = Append(called_at, time) /\ time' = time + 1
    /\ IF Len(queue) < Capacity
         THEN queue' = Append(queue, produced) /\ UNCHANGED dropping
         ELSE /\ \E i \in 1 .. Len(queue) : queue' = Append(RemoveAt(queue, i), produced)
              /\ dropping' = dropping + 1
    /\ UNCHANGED <<flight, awaiting, failed, consumerVars, producer_log, faults, analyzerVars>>
    /\ peak' = IF analyzer = "starting" THEN Larger(peak, Outstanding') ELSE peak

\* _enqueue logs an eviction, then timed_write the snapshot.
LogDrop ==
    /\ Running /\ dropping > 0
    /\ producer_log' = Append(producer_log, [event |-> "io.buffer_drop"])
    /\ dropping' = 0
    /\ UNCHANGED <<time, produced, logging, called_at, workerVars, consumerVars, faults,
                   analyzerVars, peak>>
LogWrite ==
    /\ Running /\ logging /\ dropping = 0
    /\ producer_log' = Append(producer_log, [event |-> "io.write", status |-> "ok",
                                             step |-> produced - 1,
                                             called_at |-> called_at[produced]])
    /\ logging' = FALSE
    /\ UNCHANGED <<time, produced, dropping, called_at, workerVars, consumerVars, faults,
                   analyzerVars, peak>>

\* The output raises and the queue is cleared; the next write is refused, logged as an
\* error, and the last one.
OutputFails ==
    /\ Running /\ flight # None /\ Fault
    /\ queue' = <<>> /\ flight' = None /\ awaiting' = FALSE /\ failed' = TRUE
    /\ UNCHANGED <<time, simulationVars, consumerVars, producer_log, analyzerVars, peak>>
WriteRefused ==
    /\ Running /\ failed /\ produced < TotalSteps /\ ~logging
    /\ producer_log' = Append(producer_log, [event |-> "io.write", status |-> "error",
                                             step |-> produced, called_at |-> time])
    /\ produced' = TotalSteps /\ time' = time + 1
    /\ UNCHANGED <<logging, dropping, called_at, workerVars, consumerVars, faults,
                   analyzerVars, peak>>

Pop ==
    /\ Running /\ flight = None /\ queue # <<>>
    /\ flight' = Head(queue) /\ queue' = Tail(queue)
    /\ UNCHANGED <<time, simulationVars, awaiting, failed, consumerVars, producer_log, faults,
                   analyzerVars, peak>>

Record(status) ==
    consumer_log' = Append(consumer_log, [status |-> status, step |-> step,
                                          completed_at |-> time, snapshot |-> flight])

\* The consumer stores the snapshot and logs it.
Store ==
    /\ Running /\ flight # None /\ ~awaiting
    /\ Record("ok") /\ step' = step + 1 /\ stored' = stored \cup {flight}
    /\ awaiting' = TRUE /\ time' = time + 1
    /\ UNCHANGED <<simulationVars, queue, flight, failed, producer_log, faults, analyzerVars,
                   peak>>

Acknowledged ==
    /\ Running /\ awaiting
    /\ flight' = None /\ awaiting' = FALSE
    /\ UNCHANGED <<time, simulationVars, queue, failed, consumerVars, producer_log, faults,
                   analyzerVars, peak>>

\* The connection is lost before the snapshot was stored or after: a new consumer gets it
\* again.
Lost ==
    /\ Running /\ flight # None /\ Fault
    /\ awaiting' = FALSE /\ step' = 0
    /\ UNCHANGED <<time, simulationVars, queue, flight, failed, consumer_log, stored,
                   producer_log, analyzerVars, peak>>

\* The write fails: it is logged, and the consumer ends.
StoreFails ==
    /\ Running /\ flight # None /\ ~awaiting /\ Fault
    /\ Record("error") /\ step' = 0 /\ time' = time + 1
    /\ UNCHANGED <<simulationVars, workerVars, stored, producer_log, analyzerVars, peak>>

-------------------------------------------------------------------------------
(* The analyzer: remote_snapshot, then read_json_lines.                    *)

\* The records in a log, without the last one when its line is not whole.
ReadJsonLines(log) == {log, SubSeq(log, 1, Len(log) - 1)}

ReadConsumerLog ==
    /\ analyzer = "starting" /\ analyzer' = "reading"
    /\ consumer_records' \in ReadJsonLines(consumer_log)
    /\ UNCHANGED <<time, simulationVars, workerVars, consumerVars, producer_log, faults,
                   producer_records, settled, peak>>

ReadProducerLog ==
    /\ analyzer = "reading" /\ analyzer' = "done"
    /\ producer_records' \in ReadJsonLines(producer_log)
    /\ settled' = (~logging /\ dropping = 0 /\ producer_records' = producer_log)
    /\ UNCHANGED <<time, simulationVars, workerVars, consumerVars, producer_log, faults,
                   consumer_records, peak>>

AnalysisDone == analyzer = "done" /\ UNCHANGED analysisVars

AnalysisNext ==
    \/ Enqueue \/ LogDrop \/ LogWrite \/ WriteRefused \/ OutputFails
    \/ Pop \/ Store \/ Acknowledged \/ Lost \/ StoreFails
    \/ ReadConsumerLog \/ ReadProducerLog \/ AnalysisDone

AnalysisSpec == AnalysisInit /\ [][AnalysisNext]_analysisVars

-------------------------------------------------------------------------------
(* summarize.  The records it selects are given by their places in the log.*)

IsWrite(record) == record.event = "io.write" /\ record.status = "ok"
ProducerWrites == {i \in DOMAIN producer_records : IsWrite(producer_records[i])}
IsOk(record) == record.status = "ok"
ConsumerWrites == {i \in DOMAIN consumer_records : IsOk(consumer_records[i])}

StepsOf(log, places) == {log[i].step : i \in places}

\* The record of each step; of several the last.
ByStep(log, places) ==
    [s \in StepsOf(log, places) |-> log[Max({i \in places : log[i].step = s})]]

ProducerByStep == ByStep(producer_records, ProducerWrites)
ConsumerByStep == ByStep(consumer_records, ConsumerWrites)
Matched == DOMAIN ProducerByStep \cap DOMAIN ConsumerByStep
LatencyByStep ==
    [s \in Matched |-> ConsumerByStep[s].completed_at - ProducerByStep[s].called_at]

\* Faulty variant: gaps are looked for, repetitions are not.
ContiguousRange(log, places) ==
    LET S == StepsOf(log, places) IN S # {} /\ S = Min(S) .. Max(S)

IsContiguous(log, places) ==
    LET S == StepsOf(log, places)
    IN  /\ places # {}
        /\ Cardinality(S) = Cardinality(places)
        /\ Max(S) - Min(S) + 1 = Cardinality(places)

\* Faulty variant: what the timeline sums to at its end.
LastUnacknowledged == Larger(Cardinality(ProducerWrites) - Cardinality(ConsumerWrites), 0)

\* The timeline of +1 for each producer write and -1 for each consumer write, up to t.
OutstandingAt(t) ==
    Cardinality({i \in ProducerWrites : producer_records[i].called_at <= t})
      - Cardinality({i \in ConsumerWrites : consumer_records[i].completed_at <= t})

\* Its largest sum, which is reached at a producer write.
MaximumUnacknowledged ==
    Max({0} \cup {OutstandingAt(producer_records[i].called_at) : i \in ProducerWrites})

Drops ==
    Cardinality({i \in DOMAIN producer_records :
                    producer_records[i].event = "io.buffer_drop"})
BadWrites ==
    Cardinality({i \in DOMAIN producer_records :
                    /\ producer_records[i].event = "io.write"
                    /\ producer_records[i].status # "ok"})
      + Cardinality({i \in DOMAIN consumer_records : ~IsOk(consumer_records[i])})

\* summarize needs a write of each side; render_report calls the experiment healthy.
Healthy ==
    /\ analyzer = "done" /\ ProducerWrites # {} /\ ConsumerWrites # {}
    /\ Drops = 0 /\ BadWrites = 0
    /\ IsContiguous(producer_records, ProducerWrites)
    /\ IsContiguous(consumer_records, ConsumerWrites)

-------------------------------------------------------------------------------

\* A report that calls the experiment healthy is right, whatever happened between the two
\* readings: every snapshot it counts was stored once, and each latency is that of one
\* snapshot.  It takes a producer that is not inside a write when its log is read.
HealthyIsTrue ==
    Healthy /\ settled =>
       /\ \A i \in DOMAIN consumer_records : consumer_records[i].snapshot = i - 1
       /\ \A s \in Matched :
             \E i \in DOMAIN consumer_records :
                /\ consumer_records[i].snapshot = s
                /\ LatencyByStep[s] = consumer_records[i].completed_at - called_at[s + 1]

\* The queue of a healthy experiment is never reported shorter than it was when the
\* consumer's log was read.
NotUnderestimated == Healthy /\ settled => MaximumUnacknowledged >= peak

\* render_report: "End-to-end latency is measured from producer enqueue time through
\* completion of the matching consumer write".
LatencyOfOneSnapshot ==
    settled => \A s \in Matched : ConsumerByStep[s].snapshot = s
===============================================================================
