# A verification of mock_data_streamer

`mock_data_streamer` runs a simulation (a heat equation) that produces a snapshot
every so many steps and streams it to a consumer process, usually on a remote
supercomputer that is reached through SSH with a certificate that lives for a
day. The simulation must not stop because the remote side is slow or gone; what
reaches the remote files must be in order, complete where it was acknowledged,
and reported where it was lost.

This directory holds TLA+ models of the concurrent part of that program, TLC
configurations, and TLAPS proofs. Paths below are relative to `src/`.

## Inventory

| Component | Source | State | Operations | Modelled in |
|---|---|---|---|---|
| Producer output queue | `mock_io.py`, `BufferedIO` | deque of snapshots, eviction cursor, `_closing`, `_closed`, `_error`, loss counter, time of the last alert, the worker thread | `write_data`, `_worker`, `close` | `BufferedIO`, `LossyFifo` |
| Simulation driver | `mockProducer.py`, `heat2d` | the step, the exception in flight | construction of the output, timed writes, two `close()` calls, the timing log | main thread of `BufferedIO`; `ProducerProcess` |
| Restarting remote output | `remote_consumer_io.py`, `RestartingSingleSocketIO` | `_output`, attempt counter, "failure notified" flag | `write_data`, `_relaunch_and_retry`, `_connect_with_retries`, `_wait_for_ssh_key_update`, `close` | `RestartingIO`, `Delivery`; its constructor and what it holds in `ProducerProcess` |
| Single-socket channel | `single_socket_io.py`, `socket_protocol.py` | a socket, messages and acknowledgements in transit | `write_data`, `close`, `abort`; `send_arrays`, `send_end`, `receive_message`, `send_ack`, `receive_ack` | `RestartingIO`; its framing in `SocketProtocol`, `MessageChannel` |
| Single-socket consumer | `mockConsumerSingleSocket.py` | message in hand, output file | `receive_steps`, `main` | `RestartingIO`, `ConsumerLauncher` |
| Consumer launcher, remote script | `remote_consumer_io.py`, `SSHConsumerLauncher` | `pid_file`, the connection file, consumer processes | `launch`, `_remote_command` (a shell script) | `ConsumerLauncher` |
| Connection file | `connection_security.py` | a file in a shared directory | atomic write, conditional removal | `ConsumerLauncher` |
| Blocking test consumer | `mockConsumerSingleSocketBlocking.py` | none of its own | `receive_steps` with a random delay before each read | no module of its own: a delay is one of the interleavings of `RestartingIO`'s consumer |
| Three-socket channel | `socket_io.py`, `mockConsumerSockets.py` | three sockets of one producer, the accepted sockets by role, the part read last of each | `SocketIO` (connect, prove, write, close); `accept_connections`, `receive_steps` | `SocketChannels` |
| Rotating output | `consumer_output.py`, `pickle_io.py`, `adios_io.py` | the open file, its name, the time of the next rotation | `write_data`, `_rotate`, `_new_path`, `close` | `RotatingOutput` |
| Key monitor | `ssh_key_monitor.py`, `SSHKeyMonitorProcess` | validity last read, warnings already given, the stop event, the process | `check`, `monitor`, the signal handlers, `close` | `KeyMonitor` |
| Notifier | `ntfy_notifications.py` | message queue, `_closed`, the publishing thread | `notify`, `_publish_pending`, `close` | `Notifier` |
| Listener, allowed networks | `network_access.py` | a listening socket | `create_listener`, port range, network filter | the search for a free port in `ConsumerLauncher`, the refusal of other networks in `SocketChannels` |
| Data operations | `data_operations.py` | none | `encode`, `decode` | the length of their result in `SocketProtocol`, the loading of the library in `ProducerProcess` |
| Timing log | `timing_log.py` | a file, `_stream` is `None` after `close()` | `record`, `close` | its drop records in `BufferedIO`, opening and closing in `ProducerProcess`, records and torn lines in `Analysis` |
| SSH streams, control connection | `remote_consumer_io.py`, `SSHStreamSocket`, `SSHControlConnection` | `ssh` processes, the directory of the control socket | connect, share, exit | `ProducerProcess`; a stream that fails is a broken connection of `RestartingIO` |
| Output selection | `mock_io.py`, `IO.create`; `Settings` | none | reads the configuration and builds the output | `ProducerProcess` |
| Launch script | `launch.sh` | pid file, two log files | test, start, record | `Launch` |
| Experiment analysis | `analyze_remote_experiment.py` | copies of the two timing logs | parsing logs, matching records, statistics | `Analysis` |
| `keygen.py`, `check_pkl.py` | | none that lasts | one-shot scripts | not modelled |

### How the parts interact

The simulation thread calls `BufferedIO.write_data`, which appends to the deque
under a condition variable and returns; when the deque is full it evicts a
snapshot that is already queued. The worker thread takes the head, releases the
lock and calls `RestartingSingleSocketIO.write_data`, which blocks until the
consumer has acknowledged the snapshot, reconnecting for as long as it takes. A
reconnect runs a shell script at the remote host through `ssh`: it stops the
consumer recorded in `pid_file`, starts another and prints the connection file
that this one writes. The consumer accepts a single connection, stores each
snapshot and acknowledges it after the write. The key monitor process and the
producer put messages into the notifier's queue, which a thread publishes. `launch.sh`
starts the producer in the background unless a pid file or log files forbid it; the
producer's constructor acquires the timing log, two notifier threads, an SSH control
connection with its directory, the monitor process and the connection, and `heat2d` and
`close()` release them, each on its own path of failure.

### What is hard here

* two threads around a deque of which one takes the head and the other evicts
  from the middle, with a cursor that both move;
* alerts and drop records written after the lock was released;
* `close()` called twice, called after a failure, and interrupted by Ctrl-C while
  it joins the worker;
* an acknowledgement lost after the snapshot was stored, or arriving as the
  timeout passes: the snapshot is stored twice, and nothing else may be;
* a limit on relaunch attempts, a retry delay and a wait for a certificate in one
  handler, whose order decides between an end of the run and a pause;
* the SSH command timing out locally while its script goes on remotely, so that two
  scripts share `pid_file` and the connection file;
* files that are compared and then removed, or tested and then created;
* resources acquired one after another by constructors that may raise, or that Ctrl-C, which
  is no `Exception`, leaves without running their `except` clauses;
* a port range shared with other programs and with consumers nobody stops.

`PROJECT.json` lists each at its line under `hazards`, with the properties that
would catch it going wrong.

## The modules

One module per component; `MC<module>.tla` extends it for TLC, `<module>.cfg` gives the
constants their values. Definitions marked "Faulty variant" are wrong forms of the
definition that follows them: each property of a passing run is violated when one of them
is put in the place of that definition (`PROJECT.json`, `mutants`), so that no property
holds whatever the code does.

### `BufferedIO` and `LossyFifo`

State: `buffer` is the deque (a snapshot is its number), `next_drop_index` the eviction
cursor, `closing`, `closed` and `error` are the attributes of those names
(`error` is whether `_error` is set), `notified_thresholds`, `last_high_notification_at` and
`dropped_since_high_notification` the state of the alerts. `main` and `worker` are the
program counters of the two threads; `inflight` is the snapshot the worker took,
`delivered` what the output accepted. `pending` is what `_enqueue` still has to announce
after it released the lock.

One action is what happens between two points at which the other thread can run: a
critical section under `_condition` (`EnqueueFree`, `EnqueueFull`, `WorkerPops`,
`WorkerFails`, `CloseBegins`), or a call outside it (`Report`, `WriteReturns`,
`JoinReturns`). Ctrl-C and exceptions of the simulation are `Interrupted` (between two
writes) and `JoinInterrupted` (while `close()` joins the worker). `heat2d` calls `close()`
at the end of its loop and again in `finally`, which `close_calls` counts.

`LossyFifo` is the promise: a queue that delivers in order, may lose any waiting item when
it is full, everything when its output fails, and is closed once. `ImplementsLossyFifo` is
the refinement, with `queue <- inflight \o buffer`.

### `RestartingIO` and `Delivery`

The producer's side is the worker thread of `BufferedIO`, in
`RestartingSingleSocketIO.write_data` and what it calls: `pc`, the number `next` of the
snapshot to be written, the consumer it is connected to (`output`, 0 for `None`), the
locals of `_connect_with_retries` and `limit`, which is `_max_relaunch_attempts` and fixed
for a run. Consumer `c` is the `c`-th that was started; `phase`, `got` and `file` are where
it is in `receive_steps`, its message and what its output holds. `up` and `down` are the
messages and acknowledgements in transit. A launch may stop any set of the older consumers
and may leave a consumer behind that nobody reaches: which ones is `ConsumerLauncher`'s
subject. `key` is the certificate as `_wait_for_ssh_key_update` finds it.

The handlers at `remote_consumer_io.py:623`, `706` and `729` catch `OSError`, `EOFError` and
`RuntimeError`; those are `AttemptFails` (with `LaunchFailsLocally` and `LaunchFailsRemotely`),
`SendFails` and `AwaitFails`, and what follows them is retried. A `ValueError` passes all three. It is
raised where the remote side answers with something unusable: connection information that cannot
be decrypted or is that of another protocol, version or address, or a header that is too long or no
JSON. During a launch it is `LaunchRejected`, which ends the output without a record, an alert or
a pause, whatever the limit; in the place of an acknowledgement it is `AckUnreadable`, which leaves
`pc = "rejected"` with the connection still held, for `Close` to end. `rejections` counts both.

A message is sent or lost whole. That is sound because a consumer that has received part
of a message can only raise at the end of the connection: the framing implements
`MessageChannel` (`SocketProtocol`, `FramingIsAChannel`).

`Delivery` is the promise to the queue in front: delivery at least once and in order. It knows
the snapshot being written (`next`) and what the outputs hold (`file`), and nothing of
connections, failures and attempts: an output stores a snapshot where it continues what is
there before and behind it, and `write_data` returns for a stored snapshot only.
`ImplementsDelivery` is the refinement; the two variables are those of `RestartingIO`.

### `ProducerProcess` and `Launch`

`ProducerProcess` is a producer from the first statement of `heat2d` to the end of its
interpreter, seen from what it holds: `running` is the set of resources acquired and not
released, `unsent` the notifiers whose thread still has messages to handle (one that died of a
message has none), `log` the timing log. The
construction is one action per constructor that can raise (`Configure` to `Assign`), each
with its failing branch; `Release` is one step of `RestartingSingleSocketIO.close`, which
goes on to the next helper when one fails. The writer thread has the steps that use these
resources: a relaunch opens the control connection again and writes to the timing log.
`Interrupt` is Ctrl-C at any of these points. The queue is a number and the outcome of a
write a choice: `BufferedIO` and `RestartingIO` say what happens inside, and the wait for a
certificate is part of "relaunching".

The failures after which the code cannot release what it holds are named, by the set
`mishaps`: Ctrl-C or a failing `TemporaryDirectory` or thread start during construction,
Ctrl-C in the `finally` clause, a failing `ssh -O exit`, Ctrl-C in the join of a notifier.
`Released` speaks of all other runs, and the list of the exceptions is part of what it says.

`Launch` extends it with the runs of `launch.sh`: two tests, the start and the pid file are
separate steps, and the log files appear when the started process opens them. The first
process that a script starts is the one of `ProducerProcess`; of the others only what a
script can see is kept. `LaunchSpec` implements `Spec` of `ProducerProcess`
(`LaunchedProducer`), so the run `producer` checks both.

### `ConsumerLauncher`

Launch `n` is script `n` and consumer `n`. The shell script of `_remote_command` is modelled
command by command, because two of them run at once when `subprocess.run` times out at the
producer (`LaunchLost`). `pid_file` and `connection_file` hold the number of the consumer
they name. `main` of the consumer writes the file, serves one connection, compares the file
and unlinks it, the last two in two steps. `create_listener` takes the first port that is
neither `occupied` by another program nor held by a consumer that is still there, and fails
when there is none: consumers of launches that were given up hold theirs.

### `SocketChannels`

Producers that hold the same connection information connect to one consumer that accepts
three connections one by one. The `kind` of a producer is what it comes with: the valid
information, that of an earlier consumer (`stale`), a key that does not fit (`keyless`), or an
address outside the allowed networks, which `Refuse` closes silently. A hello that is stale
or names a taken channel ends the consumer. `stream[p][k]` is what is on its way in
connection `k`, `messages` what the consumer read in this round. A connection breaks alone; a
producer fails between two of the three parts of a snapshot and then closes, with an end
message on the channels that still work.

### `SocketProtocol` and `MessageChannel`

`send_arrays`, `send_end` and `receive_message` at the level of units (a few bytes each): a
message has parts, part 0 its length, part 1 its header and part `1 + a` the payload of array
`a`, and each part is handed to a `sendall` of its own (`SendHeader`, `SendNext`), as the code
does. `SendAll` and `RecvInto` move any number of units that fits in the transport's buffer. A
unit records which unit of which part of which message it is; what the receiver has read is
interpreted by what units mean, as the code does: a header it cannot decode, or a raw array whose
length differs from its shape, raises. `MessageChannel` is the abstract channel of whole messages.
`ImplementsMessages` maps the units on their way to it: `Got` messages have been returned,
`Through` is how many are complete in front of the last unit that has been sent, and those between
the two are in the channel. `MessageChannel` is fair to the receiver, so the refinement includes
that every whole message that has come through is returned.

### `KeyMonitor`

A check takes the time, then reads the file, then alerts (`TakeTime`, then one of the four
results); the file may be replaced in between. The loop waits on a `threading.Event` whose
lock the main thread holds at the beginning and at the end of `wait`; signal handlers run in
that thread. The producer closes, or is killed.

### `RotatingOutput`

A file name is a timestamp and a sequence number. The timestamps are taken from a wall clock
that may repeat itself, the rotation from a monotonic clock. `exists()` and `open(..., "wb")`
are two steps. With `Overlap = FALSE` consumers follow one another. That a file holds the
snapshots of one interval is a consequence of `Rotate`'s guard and is not a property of a run.

### `Notifier`

The test of `_closed`, the `put` and the two halves of `close()` are steps of their own;
clients end with or without `close()`, and the process then takes the daemon thread with it.
A message is taken from the queue and posted, or its failure is recorded (`Publishes`); but the
request is made before the `try` clause of `_publish`, and an exception there, as of a server's
URL without a scheme, ends the thread (`RequestRaises`). `fatal` holds the message it died of; what
is behind it stays in the queue, `notify` goes on to accept messages, and `close()` returns.

### `Analysis`

A run in small (queue, worker, consumer) writes the two timing logs with the times that the
program records; the analyzer copies the consumer's log, then the producer's, while the run
goes on. The last line of a log may be torn when it is copied, and is then skipped. The output
may fail for good, after which the next write is logged as an error. `summarize` is a set of
operators on the two copies, as the code computes it; the records it selects are given by
their places in the copy. `peak`, what was queued or on its way at most until the consumer's
log was read, is what the timeline of `summarize` is compared with.

## What each run checks

| Run | Configuration | What it shows |
|---|---|---|
| `queue` | `Capacity 3, Steps 8, Interval 2, MaxTime 3` | `OutputClosedLast`: one `output.close()`, after the worker's last write, for any combination of failures and Ctrl-C; `CleanExitFlushed`: no silent loss on a normal end; `DropLogTrue`, `LossesReportedOnce`, `AlertsLimited`: the log and the alerts say what happened although they are written after the lock is released; `EveryOtherStepDropped`; `BothThreadsEnd`; `ImplementsLossyFifo`, including its liveness |
| `delivery` | `Steps 3, Limits {0, 2}, MaxLaunches 3, MaxFaults 2` | `AckedStored`; `ImplementsDelivery`: in every step the outputs of the consumers are one run in which only an interrupted snapshot is repeated, at a seam, and `write_data` returns for nothing else than a stored snapshot; `NothingResent`; `OneAlertPerLoss`; `AllAcknowledged`: writes end with everything acknowledged unless the caller closes, a limit is reached or an answer of the remote side raised a `ValueError`; without the last two, no write raises |
| `expired_at_limit` | `Limits {2}` | counterexample to `ExpiredPauses` |
| `launcher` | `MaxLaunches 3, MaxLost 1, MaxFaults 1, MaxSize 1, Ports 2` | while no launch was given up: `OwnRendezvous`, `RemovesOwnFile`, `OldOutputsKept`, `CloseCleansUp`; in any case `OrphansBounded`: consumers nobody stops, and the ports they hold, are at most the launches given up; `LaunchEnds`, also when the port range is used up |
| `producer` | `Scripts {1, 2}, Steps 2, Capacity 1, MaxFaults 2, MaxInterrupts 2` | `Released`: a `heat2d` that returned has released everything and waited for its notifiers to handle their messages, unless one of the named mishaps happened; `LogOutlivesWorker`; `OneRunAtATime`: no two producers, no shared log, unless two scripts overlapped; `Exits`: the process ends, and the monitor with it |
| `channels` | two producers of any of four kinds, `Steps 2, Buffer 1, MaxFaults 2` | `OneProducer`, `WholeSteps`, `CleanEndComplete`, `EveryoneEnds` |
| `framing` | `Messages 2, Arrays 2, Sizes {1, 2}, HeaderUnits 2, Buffer 3` | `ReceivedWhole`, `ImplementsMessages` |
| `key_monitor` | `Hours {1, 2}, Lifetimes {1, 3}, MaxTime 3, MaxChanges 1, MaxInterrupts 1` | `OneAlertEach`, `AnnouncedExpired`, `DueAnnounced`, `MonitorStopsUnlessStuck` |
| `rotation` | two consumers, `Interval 2, Timestamps {1, 2}, Steps 3, MaxTime 3` | `StepsKept` |
| `notifier` | two clients, `MaxMessages 2` | `CloseFlushes`: a `close()` that returns has flushed what was handed over before, and if the thread died, all that the sender of the message it died of had handed over before that one; `HandledInOrder`; `CloseEnds` |
| `analysis` | `TotalSteps 4, Capacity 2, MaxFaults 2` | `HealthyIsTrue`, `NotUnderestimated` |
| `analysis_latency` | `TotalSteps 2, Capacity 1, MaxFaults 1` | counterexample to `LatencyOfOneSnapshot` |

Deadlock is checked in every run: each module has a `Done` step where its processes have
ended, or wait for an event that the code may legitimately wait for without end (a consumer
in `accept()`, a writer thread that no `close()` told to stop), and nothing else may stop.

### Bounds

* `Capacity 3` is the smallest queue with a cursor position that is neither its beginning
  nor its end; with 8 snapshots it fills, evicts through a whole pass of the cursor, wraps,
  and is drained while the cursor stands anywhere. The low thresholds fall on
  depths 1, 2 and 2, the high one on 3. Any other capacity, 1 among them, is covered by the proofs.
* `Interval 2` with `MaxTime 3` lets a second high-buffer alert be suppressed once and sent
  once.
* `MaxLaunches = MaxFaults + 1` in `RestartingIO`: a launch that starts a consumer
  follows a success or is itself a fault, so the bound on launches never stops a run that
  could go on. `Limits {0, 2}` is no limit, and one that is reached after a failure that was
  retried.
* `MaxLost 1` in `ConsumerLauncher` gives two scripts at once; the safety properties that are
  claimed for no lost launch speak of the states with `lost = 0`.
* `MaxFaults 1, MaxSize 1, Ports 2` in `ConsumerLauncher`: with two ports and three consumers
  the range can run out by another program, by an orphan, or by both; one stored snapshot is
  enough for an output to be changed.
* `MaxFaults 2, MaxInterrupts 2` in `Launch`: two failures are one in construction or in the run
  and one in the release; two Ctrl-C are what it takes to pass the `finally` clause. Two
  snapshots and a queue of one let the writer hold one while another waits. Two scripts is what
  it takes to overlap; the proofs cover any number of each.
* `Kinds` in `SocketChannels` are the four outcomes of the greeting; two producers give every
  pair of them, and three connections each give every order in one backlog.
* `Buffer 3` in `SocketProtocol` is shorter than any message (1 + 2 + 2 units or more), so
  every message is cut by the sender, and the receiver cuts it at each unit; a header of two
  units, and a payload of two, can be cut inside. The proofs cover any other size.
* `MaxTime 3` in `KeyMonitor` lets a certificate of lifetime 1 be warned of, expire, and be
  replaced by one that reaches both thresholds.
* In `Analysis`, 4 snapshots and a queue of 2 give evictions, two faults give two relaunches
  or a relaunch and a failed write.

### Fairness

* `BufferedIO`: weak fairness of each thread. Both are ordinary threads that block only on
  the condition, on `join` or in the output; that the output's calls return or raise is an
  assumption (it is what `AllAcknowledged` and the socket timeouts give). Ctrl-C, failures
  and the clock are not fair.
* `RestartingIO`: weak fairness of the producer's steps and of each consumer. The caller need not
  call `close()`: `Close` and `CloseRaised` are not fair. Faults, and the replacement of the
  certificate, are not fair; `AllAcknowledged` assumes `[]<>(key = "valid")`, and faults are
  bounded.
* `ConsumerLauncher`: weak fairness of each script, each consumer and the producer's
  attempts to connect; a bounded number of faults.
* `SocketChannels`: each process keeps running, with a socket that blocks but no timeout.
* `SocketProtocol`: each side goes on with a call that it began.
* `Launch`: the two threads, the publishing threads and the monitor run; that a relaunch and
  the release of a helper end is due to the timeouts of `ssh` commands and publications (a wait
  for a certificate is taken to end). Ctrl-C, failures, scripts and other processes are not fair.
* `KeyMonitor`: the monitor's main thread, and a `close()` that was begun.
* `Notifier`: the publishing thread, since a publication ends by its timeout or with the thread,
  and a call that a client has begun.

## Where the program and its documents differ

The violation runs, listed under `findings`:

* `expired_at_limit`: `README.md:240-242` says that a failed launch with an expired
  certificate pauses further attempts. `remote_consumer_io.py:643` tests the limit of
  attempts first, and the attempt that reaches it raises instead of pausing.
* `analysis_latency`: every report says that a latency is measured from the enqueueing to
  the *matching* consumer write. The producer's `step` is the number of the snapshot, the
  consumer's is its own count, so after an eviction, and after a relaunch, two different
  snapshots are matched.

Other differences, shown by the models without a run of their own or met while modelling:

* `README.md:238-239` says that outputs from before a reconnect remain unchanged. When the SSH
  command of a launch times out and its script goes on, the producer may talk to a consumer that
  `pid_file` does not name; the next launch stops another process, and this one still stores
  the snapshot it has received (`OldOutputsKept` without its condition `lost = 0`);
* `README.md:238-239` says that a zero `max_relaunch_attempts` retries indefinitely. A `ValueError` of
  the remote side's answer is not retried (`LaunchRejected`, `AckUnreadable`): `AllAcknowledged` names
  it next to the limit, and without that clause it does not hold with `limit = 0`;
* `README.md:285-286` says that notification failures are recorded as `notification.failed`. An
  exception before the `try` clause of `_publish` (`ntfy_notifications.py:85-90`) is not: it ends the
  publishing thread, and that message and those behind it are neither sent nor recorded
  (`RequestRaises`); `CloseFlushes` says which may be lost;
* Ctrl-C during construction, or a second one in `close()`, leaves the SSH control master or
  closes the timing log while the writer thread still drains: its next relaunch record raises
  `AttributeError` (`timing_log.py:24`), which is not retried and ends the output;
* when the directory of the control socket or the writer thread cannot be created, the
  notifiers, or the whole output, are left to the end of the process;
* a producer that still holds an earlier connection file reaches a new consumer when that one
  was given the same port, and its stale hello makes the consumer raise;
* a peer of an allowed network that connects and says nothing keeps `accept_connections` from
  serving anybody else: its greeting has no timeout;
* with a single write in the producer's log the analyzer's `cadence` is `None`, and rendering the
  report raises `TypeError` (`analyze_remote_experiment.py:617`);
* Ctrl-C while the writer waits for a certificate waits with it: `close()` joins the thread;
* a certificate that is replaced while `check()` reads it is compared with a time taken
  before, and announced as not yet valid although it is (`ssh_key_monitor.py:86`);
  `AnnouncedExpired` is about the other direction, in which the alert is true;
* a certificate first read with less than three hours left is announced as expiring in 6
  and in 3 hours at once (`ssh_key_monitor.py:135`);
* a signal that arrives inside `Event.wait` blocks the monitor in its own handler; if the
  producer is then killed it stays. `MonitorStopsUnlessStuck` names exactly that exception;
* with `Overlap = TRUE` in `RotatingOutput`, two living consumers that take the same
  timestamp both find the name free, and the later one empties the file of the earlier one;
* a launch whose predecessor was given up prints the connection file that exists, which may
  be that of the predecessor's consumer (`OwnRendezvous` without its condition);
* snapshots written between the copies of the two logs count as unacknowledged in the
  analysis, which may therefore report more than ever were (`NotUnderestimated` is the
  direction that holds).

"Every other queued step is discarded" (`README.md:77-78`) holds within a pass of the
eviction cursor; `EveryOtherStepDropped` says so, and at a wrap two neighbours may go.

## What is proved

`BufferedIOProofs` proves, for every capacity of at least 1, every number of steps and every
interval (assumptions `CapacityAssumption`, `StepsAssumption`, `TimeAssumption`,
`NoneAssumption` of `BufferedIO`), as theorems of `Spec`:

| Theorem | Property |
|---|---|
| `TypeCorrect` | `TypeOK` |
| `OrderPreserved` | `InOrder`: what is delivered, in flight and queued is increasing |
| `NoStepUnaccounted` | `Accounted`: every produced snapshot is delivered, waiting, counted as dropped, or the one whose write failed |
| `WakeupNeverLost` | `NoLostWakeup`: the worker sleeps only while there is nothing to do |
| `CursorValid` | `CursorInQueue` |
| `OutputNotUsedAfterClose` | `OutputClosedLast` |
| `CleanExitIsComplete` | `CleanExitFlushed` |
| `LossReportsExact` | `LossesReportedOnce` |
| `DropLogExact` | `DropLogTrue` |
| `AlertsAreLimited` | `AlertsLimited` |
| `EveryOtherStepTheorem` | `EveryOtherStepDropped` |

and `QueueIsLossyFifo`: the safety part of `ImplementsLossyFifo`.

The inductive invariant is

    IInv == TypeOK /\ Flow /\ NoLostWakeup /\ Bounded /\ InOrder /\ Accounted
              /\ ReportInv /\ AlertInv /\ DropsGone /\ PassInv

None of the properties is inductive alone. `Flow` says what each program counter implies about the
shared state: the worker holds a snapshot exactly while it writes or fails, `closing` is set before
`main` joins, `closed` only after the worker ended, and an error ends the worker with an empty
queue. Without it neither order nor accounting is inductive: a worker "writing" with nothing in hand
would count a snapshot that does not exist. `ReportInv` relates the loss counter, the message in
`pending` and the log; `AlertInv` counts an alert that is decided and not yet sent with those sent,
and compares them with the time of the last decision, which is the one that the code remembers;
`DropsGone` says that what is in the log, or about to be, is no longer in the pipeline, which needs
`InOrder` to show that it does not come back; `PassInv` says that the snapshot in front of the
cursor is newer than the one evicted last, so that the next eviction leaves it between the two. The
step lemmas have one step for each action; the facts about removing an element, taking the tail, and
appending that they use come first.

`RestartingIOProofs` proves, for every number of snapshots, launches and faults and every set
of limits (`CountAssumption`, `EndAssumption` of `RestartingIO`), as theorems of `Spec`:

| Theorem | Property |
|---|---|
| `TypeCorrect` | `TypeOK` |
| `AcknowledgedIsStored` | `AckedStored` |
| `OutputsAreOneRun` | `OutputsJoin`: each output holds consecutive snapshots and starts no earlier than where those before it end |
| `AcknowledgementsMatch` | `Lockstep`: a connection carries one thing at a time, and an acknowledgement that is there is that of the snapshot being written |
| `StoresOnlyInterrupted` | `NothingResent` |
| `AtMostOneAlert` | `OneAlertPerLoss` |
| `DeliversAtLeastOnce` | `ImplementsDelivery`: `Spec` implements `Spec` of `Delivery` |

Its invariant is

    IInv == TypeOK /\ Connected /\ OneAtATime /\ Current /\ Consecutive /\ Ordered /\ AckedStored

`AckedStored` needs to know that an acknowledgement means what `write_data` takes it for:
`OneAtATime` (a message, a snapshot in the consumer's hands and an acknowledgement exclude one
another) and `Current` (what the connected consumer may still store is the snapshot being written,
and when it acknowledges, that snapshot is the last in its output). `OutputsJoin` is about consumers
that were abandoned with a snapshot in hand and store it later, at any time: `Due(c, s)` says that
`c` may still store `s`, and `Ordered` extends the order of the outputs to what is due, so that a
late store finds its place already fixed. Nearly every step only shrinks what is in transit
(`Shrinks`) and keeps the last four parts for that reason alone; the six that do not have a lemma
each. One of them is `AckUnreadable`: it takes the acknowledgement out of a connection that stays
up, so the producer then waits for nothing on it, as it does between two writes (`Resting`). Of all the steps only two show in `Delivery`
(`VisibleSteps`): a consumer's `WriteStep`, which `Consecutive` and `Ordered` let be a `Store`
because what it writes was due, and `AckReceived`, which `Current` lets be an `Acknowledge`.

`CursorInQueue`, `InOrder`, `Accounted` and `NoLostWakeup`, and the types of `RestartingIO`, are
parts of these invariants and theorems, not properties of a run.

`LaunchProofs` proves, for every number of snapshots, every capacity of at least 1 and
any number of faults and interruptions (`CountAssumption`), as theorems of `Spec` of
`ProducerProcess`:

| Theorem | Property |
|---|---|
| `TypeCorrect` | `TypeOK` |
| `LogIsOpenForWorker` | `LogOutlivesWorker` |
| `EverythingReleased` | `Released` |

`LogOutlivesWorker` and `Released` follow from two inductive parts. `ThreadInv` says how the phase
of `heat2d` and the writer thread go together: no thread before the output was assigned, an ended
one once helpers are released, so that nothing the writer does can acquire again what was
released. `ReleaseInv` says what may still be held in each phase: nothing before the notifiers
start, no connection before the output is complete, and, unless a mishap is recorded, no control
connection, directory or message to be handled once `close()` is past the helper they belong to.

It also proves `LaunchedProducer` (`LaunchSpec => Spec`, so that the three theorems hold of
a producer that a script starts) and, for every set of scripts (`ScriptAssumption`),
`OneProducerAtATime` (`OneRunAtATime`). The property is not inductive: the log that forbids
a second start appears after the script has ended. `Guarded` says that a living process is
named by the pid file, or its script is about to name it; `OneScript` that no two scripts
are between their tests and that; `OneWriter` whose logs there can be meanwhile; `Fresh` that a
producer does nothing before its process runs.

`ConsumerLauncherProofs` proves, for every number of launches, of launches given up, of ports and
of faults (`BoundAssumption`), as theorems of `Spec`:

| Theorem | Property |
|---|---|
| `TypeCorrect` | `Types` |
| `OwnRendezvousHolds` | `OwnRendezvous` |
| `RemovesOwnFileHolds` | `RemovesOwnFile` |
| `OrphansBoundedHolds` | `OrphansBounded` |
| `OldOutputsKeptHolds` | `OldOutputsKept`, an action property |

The number of running consumers is not inductive: a script that was given up will still start one.
`Orphans` are the scripts given up that have not recorded a consumer yet, and the running consumers
that `pid_file` does not name, and `Counted` says that there are at most `lost` of them. That still
is not inductive. The script the producer waits for reads `pid_file` and stops the consumer it
names; if another script records its own consumer in between, that one becomes an orphan when
`pid_file` is written again. `Overtaken` is that situation, and the second part of `Counted` says
that there is room for one more when it has happened. `Names` and `OldStopped` say that what
`pid_file` names was recorded, and that the consumer a script read there is dead before the next one
starts. `Alone` and `OwnFile` are about `lost = 0`: a single script at a time, and the connection
file is nobody's or that of its consumer.

`AlertProofs` proves of `KeyMonitor`, for every set of thresholds, lifetimes and reasons and any
number of changes and interrupts (`SetAssumption`, `BoundAssumption`), as theorems of `Spec`,
`TypeCorrect` (`Types`), `NoAlertRepeated` (`OneAlertEach`) and `ExpiryAnnouncedInTime`
(`AnnouncedExpired`, an action property). `Remembers` says how each alert of the file as it is shows
in the memory of the checker: an unreadable file by its reason; a threshold by `warned_hours`, which
is cleared exactly when the validity read differs from the one remembered; an expiry by its flag;
and a certificate that was not yet valid by its flag or, once that was cleared, by the time, which
does not go back below the beginning of the validity. The last needs that the time of a check does
not decrease, which is part of the types (`now <= time`), as is what `AnnouncedExpired` needs.

`ResultProofs` proves of `RotatingOutput` `TypeCorrect` (`Types`) and `StepsAreKept` (`StepsKept`)
for every number of consumers, steps and timestamps and every interval (`NumberAssumption`,
`ConsumerAssumption`, `AbsentAssumption`), under the hypothesis `~Overlap` under which the property
holds: consumers follow one another. Then at most one is alive (`InTurn`), so that a name found free
is still free when it is opened (`Chosen`), a file is opened once (`OpenedOnce`), and what is
written goes to the end of the consumer's own last file (`Current`). `Room` bounds the files by the
steps, and with it an injection from the sequence numbers already tried into the pairs of a consumer
and a step shows that the search for a free name ends within `Names`.

`AlertProofs` proves of `Notifier`, for every set of clients and number of messages
(`StopAssumption`: the stop mark is not a message), `MessagesInOrder` (`HandledInOrder`) and
`LostOnlyAfterADeath` (`CloseFlushes`). For the first, the numbers of a client increase along the
queue and lie between those handled and its count. For the second, a promised message that is
neither handled nor the one the thread died of stands in the queue in front of the first stop mark
(`Kept`). A thread that ends at a stop mark therefore leaves none, and one that ends by
`RequestRaises` leaves those behind the message at the head; that they come later than it, if they
are of the same client, is the order of the first theorem (`LeftBehind`).

`ResultProofs` proves of `Analysis`, for any number of snapshots, capacity of the queue and
number of faults (`AnalysisAssumption`), as theorems of `AnalysisSpec`, `HealthyReportsAreTrue`
(`HealthyIsTrue`) and `QueueNotUnderestimated` (`NotUnderestimated`). The inductive invariant is

    AnalysisInv ==
        /\ AnalysisTypes /\ Calls /\ WritesLogged /\ OutputState /\ Lined /\ StoresLogged
        /\ Numbered /\ Counting /\ Copied /\ PeakSeen

Most of it speaks of a run without an eviction (`NoDrops`): the producer's log then holds the
accepted snapshots in order (`WritesLogged`), and the queue, the snapshot on its way and what is
stored are one interval (`Lined`). A consumer writes its own numbers. While every record
so far is a success and no later one has the number 0 (`OneConsumer`), they are those of the
snapshots (`Numbered`), which is not inductive without `Counting`: the consumer that goes on has
written all that left the queue. `PeakSeen` keeps the call at which the peak was reached and the
number of writes completed before it, since later ones only add to the log behind them. A healthy
report rules out evictions by its count of them, and a second consumer by `is_contiguous`: as
many steps as records means that no number occurs twice (`DistinctSteps`), and every consumer
begins at 0. From there the matched records are those of one snapshot, and the timeline
reaches the peak at that call (`PeakReached`). `Max` of the community modules is a `CHOOSE`; that
it finds the largest element of a bounded set (`MaxBounds`) comes from the well-founded order of
the naturals.

`SocketChannelsProofs` proves, for every set of producers of any kinds, number of snapshots, buffer
and number of faults (`NumberAssumption`, `KindAssumption`, `MarkAssumption`), as theorems of
`Spec`:

| Theorem | Property |
|---|---|
| `OneOwner` | `OneProducer` |
| `PartsBelongTogether` | `WholeSteps` |
| `EndIsComplete` | `CleanEndComplete` |

`OwnerInv` is about the greeting: a producer makes its second connection only after its first hello
was sent, so when it is at a later channel it has the first channel of the consumer, or its hello
for it is being looked at, or the consumer is over and will welcome nobody. From that the three
channels are one producer's, however the connections of several lie in the backlog. `StreamInv`
is about what is on its way: `Line(p, k)` says that connection `k` holds the consecutive
snapshots from the next one to be read, up to the last one sent unless it broke, and at most one
end message, behind them; on the third connection the number of snapshots in front of it is all
that were written. That is why an end on all three channels means that nothing is missing, while
an end on some of them, which the code treats as an error, does not. `Round` says what the messages
read in this round are, and `Beginning` that nothing was written or read before the connections
are there.

`SocketProtocolProofs` proves, for every number of messages and arrays, every set of sizes, with
and without a data operation, and every size of the header and the buffer (`NumberAssumption`,
`GarbageAssumption`: what cannot be decoded is no header), as theorems of `Spec`:

| Theorem | What it says |
|---|---|
| `TypesCorrect` | `SenderTypes` and `ReceiverTypes` |
| `MessagesWhole` | `ReceivedWhole` |
| `OnlyTheEndEnds` | `RaisesAtEnd`: nothing that was sent is rejected, `receive_message` raises only at the end of a failed or closed connection; `FinishesLast`: the end message is read when all in front of it were returned |
| `FramingIsAChannel` | `Spec` implements `Spec` of `MessageChannel`, by the mapping of `ImplementsMessages` |

The inductive invariant is

    Inv == SenderTypes /\ ReceiverTypes /\ SenderInv /\ ReadsPart /\ EndInv /\ FlightInv /\ ReceivedWhole

`FlightInv` carries it. What the receiver has of the part it reads, what the connection holds and
what `sendall` has left are one run of units (`InFlight`), and `Flow` says of a run, by positions
only, that a part is whole unless it is the first or the last, and that parts and messages follow
one another. A run stays one when units are taken from either end (`SliceFlows`) and when the part
that is sent next follows its last unit (`PartContinues`), so no step needs to take a message apart.
`Begins` says that the run starts with what the receiver reads now, and
`Continued` that it ends where the sender goes on: with both, `WholePart` shows that when the
receiver has as many units as it asked for they are one whole part and the right one. `ReadsPart`
says which one that is, `EndInv` that a receiver that is done left nothing behind.
For the refinement, `Complete` grows along a run (`CompleteAscends`), so that a break loses a suffix
of the messages in the channel and never one that was returned; `SendAllThrough` says that while a
message is being sent exactly those in front of it have come through, so that `sendall` adds one
message or none; and `PartReadMaps` that reading a part takes one message out or none.

Only model-checked: liveness (`BothThreadsEnd`, `AllAcknowledged`, `LaunchEnds`, `CloseCleansUp`,
`Exits`, `EveryoneEnds`, `MonitorStopsUnlessStuck`, `DueAnnounced`, `CloseEnds`, and the fairness of
the two refinements), because the prover does not treat `ENABLED`. Every safety property of a
passing run is also proved.

## Abstractions

* Data: a snapshot is its number, an array a value with a length, a certificate its interval
  of validity or the reason why it cannot be read. Cryptography, JSON, HTTP and the codec are
  not modelled; their failures are.
* Ctrl-C arrives between two writes of the simulation and while `close()` joins, not inside
  a critical section of `BufferedIO`.
* The notifier and the timing log are present. A call of `notify` does not fail, nor one of `record`
  while the log is open; that the notifier's thread may die of a message is modelled in `Notifier`,
  and in `ProducerProcess` it is a `Publish` like any other, since `close()` then does not wait.
* A `ValueError` that the remote side's answers raise is modelled in `RestartingIO`; one that the
  arguments of `write_data` raise locally (a snapshot without a variable, or a codec that rejects an
  array) is not, and neither are the other exceptions that answers of an unforeseen shape raise
  (a header that is no object), which end the output in the same way.
* A killed process is dead at once: SIGTERM is followed by SIGKILL in the script.
* `KeyMonitor` has an alert notifier; a file is identified by its validity, not by its inode.
* `RestartingIO` does not identify the certificate; a replacement is "valid again".
* `SocketProtocol` leaves out arrays of size 0 and the limit on the header's size.
* `ProducerProcess` has one Ctrl-C per step, in the main thread, as Python delivers it; a Ctrl-C
  that a library call swallows is not modelled. `SIGTERM` and `kill -9` are `KeyMonitor`'s subject.
* `Launch` knows a file by the processes that opened it; a pid is not used twice.
* A port of `ConsumerLauncher` is free as soon as its consumer ended (`SO_REUSEADDR`), and other
  programs keep theirs.
* The ranges and networks of `network_access.py` are sets: how they are parsed is left out.
* `Analysis` leaves out equal timestamps; `HealthyIsTrue` and
  `NotUnderestimated` speak of a producer that is not inside `write_data` when its log is read.
* `adios2` is a file that holds what was written; `PickleIO` flushes every step.

## Not modelled

* The blocking test consumer: `receive_steps` with a random delay before each read, and any delay
  is an interleaving of the consumer in `RestartingIO`.
* `keygen.py` and `check_pkl.py`: one-shot scripts around library calls.
* The codecs, cryptography and JSON of `data_operations.py`, `connection_security.py` and
  `socket_protocol.py`, and what `adios2` does with a step: libraries.
* The heat equation and the percentiles, throughput and rendering of reports: numerics and layout.

## Plan

Done: the queue with its abstract specification and proofs; delivery with its abstract specification
and proofs; the launcher with its ports and its proofs; the producer process and `launch.sh`, with
proofs; the two channels with the framing, both with proofs; rotation, key monitor and notifier with
proofs; analysis with torn logs and failing outputs, with proofs. What is left:

1. `BufferedIO` on top of `RestartingIO`, so that end-to-end order and loss, which now follow
   from `QueueIsLossyFifo` and `DeliversAtLeastOnce` only by hand, become one theorem. It takes
   a `LossyFifo` that keeps the snapshot on its way apart from those that wait: the queue never
   evicts the former, and `Delivery` stores it before it returns.
