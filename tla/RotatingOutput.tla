---------------------------- MODULE RotatingOutput ----------------------------
(***************************************************************************)
(* The files a consumer writes: RotatingConsumerOutput of                  *)
(* consumer_output.py over PickleIO or AdiosIO, which open their file for  *)
(* writing from its start.                                                 *)
(*                                                                         *)
(* A file is named by the time it is opened at, with a sequence number     *)
(* when the name is taken.  The name comes from the wall clock, which can  *)
(* be set back; the rotation goes by the monotonic clock.  Consumers that  *)
(* replace one another write to one directory, and one that was not        *)
(* stopped may still write when its successor does.  A file is the         *)
(* sequence of <<consumer, step>> it holds, a name is                      *)
(* <<timestamp, sequence>>.                                                *)
(***************************************************************************)
EXTENDS Integers, Sequences, FiniteSets

CONSTANTS
    Consumers,    \* 1 .. N: the consumer processes, in the order they start
    Overlap,      \* whether one may start while another is alive
    Interval,     \* interval_seconds
    Timestamps,   \* what the wall clock may show
    Steps,        \* bound on the steps a consumer writes
    MaxTime,      \* bound on the monotonic clock
    Absent

ASSUME NumberAssumption ==
    Interval \in Nat \ {0} /\ Steps \in Nat /\ MaxTime \in Nat /\ Overlap \in BOOLEAN
ASSUME ConsumerAssumption == Consumers \subseteq Nat /\ IsFiniteSet(Consumers)

VARIABLES
    clock,
    files,    \* the directory
    \* the consumers: where each is, its RotatingConsumerOutput (the open file and the
    \* next rotation), the time it took, and the name it is about to open
    consumer, output, next_rotation, now, candidate,
    written, opened    \* the steps each has written, and the files it opened, in order

localVars  == <<output, next_rotation, candidate, now>>
recordVars == <<written, opened>>

vars == <<clock, files, consumer, localVars, recordVars>>

\* A consumer that opens a file for each of its steps needs no higher sequence number.
Names == Timestamps \X (0 .. Cardinality(Consumers) * Steps)

ASSUME AbsentAssumption == Absent \notin Names /\ Absent \notin Seq(Consumers \X Nat)

Init ==
    /\ clock = 0
    /\ files = [n \in Names |-> Absent]
    /\ consumer = [c \in Consumers |-> "none"]
    /\ output = [c \in Consumers |-> Absent]
    /\ next_rotation = [c \in Consumers |-> 0]
    /\ candidate = [c \in Consumers |-> Absent]
    /\ now = [c \in Consumers |-> 0]
    /\ written = [c \in Consumers |-> 0] /\ opened = [c \in Consumers |-> <<>>]

Alive(c) == consumer[c] \notin {"none", "ended"}

Goes(c, from, to) == consumer[c] = from /\ consumer' = [consumer EXCEPT ![c] = to]

-------------------------------------------------------------------------------

Starts(c) ==
    /\ Goes(c, "none", "idle")
    /\ \A d \in Consumers : d < c => IF Overlap THEN consumer[d] # "none"
                                                ELSE consumer[d] = "ended"
    /\ UNCHANGED <<clock, files, localVars, recordVars>>

RotationDue(c) == output[c] = Absent \/ clock >= next_rotation[c]

\* write_data takes the time; a due rotation closes the open file first.
WriteBegins(c) ==
    /\ written[c] < Steps
    /\ now' = [now EXCEPT ![c] = clock]
    /\ IF RotationDue(c)
         THEN Goes(c, "idle", "naming") /\ output' = [output EXCEPT ![c] = Absent]
         ELSE Goes(c, "idle", "writing") /\ UNCHANGED output
    /\ UNCHANGED <<clock, files, next_rotation, candidate, recordVars>>

TakesTimestamp(c) ==
    /\ Goes(c, "naming", "probing")
    /\ \E t \in Timestamps : candidate' = [candidate EXCEPT ![c] = <<t, 0>>]
    /\ UNCHANGED <<clock, files, output, next_rotation, now, recordVars>>

\* Faulty variant: a file that is open and still empty does not count.
TakenIfWritten(n) == files[n] \notin {Absent, <<>>}
Taken(n) == files[n] # Absent

\* The next sequence number is tried.
ProbesTaken(c) ==
    /\ consumer[c] = "probing" /\ Taken(candidate[c])
    /\ candidate' = [candidate EXCEPT ![c] = <<@[1], @[2] + 1>>]
    /\ UNCHANGED <<clock, files, consumer, output, next_rotation, now, recordVars>>

ProbesFree(c) ==
    /\ Goes(c, "probing", "opening") /\ ~Taken(candidate[c])
    /\ UNCHANGED <<clock, files, localVars, recordVars>>

\* The file is opened for writing: whatever has its name is emptied.
Opens(c) ==
    /\ Goes(c, "opening", "writing")
    /\ files' = [files EXCEPT ![candidate[c]] = <<>>]
    /\ output' = [output EXCEPT ![c] = candidate[c]]
    /\ next_rotation' = [next_rotation EXCEPT ![c] = now[c] + Interval]
    /\ opened' = [opened EXCEPT ![c] = Append(@, candidate[c])]
    /\ UNCHANGED <<clock, candidate, now, written>>

\* The step is written and flushed to the open file.
Writes(c) ==
    /\ Goes(c, "writing", "idle")
    /\ files' = [files EXCEPT ![output[c]] = Append(@, <<c, written[c]>>)]
    /\ written' = [written EXCEPT ![c] = @ + 1]
    /\ UNCHANGED <<clock, localVars, opened>>

\* Closed by the consumer, stopped or killed, whatever it was doing.
Ends(c) ==
    /\ Alive(c)
    /\ consumer' = [consumer EXCEPT ![c] = "ended"]
    /\ output' = [output EXCEPT ![c] = Absent]
    /\ UNCHANGED <<clock, files, next_rotation, candidate, now, recordVars>>

Tick ==
    /\ clock < MaxTime /\ clock' = clock + 1
    /\ UNCHANGED <<files, consumer, localVars, recordVars>>

-------------------------------------------------------------------------------

ConsumerStep(c) ==
    \/ WriteBegins(c) \/ TakesTimestamp(c) \/ ProbesTaken(c) \/ ProbesFree(c) \/ Opens(c)
    \/ Writes(c)

Done == (\A c \in Consumers : consumer[c] = "ended") /\ UNCHANGED vars

Next == Tick \/ Done \/ \E c \in Consumers : Starts(c) \/ ConsumerStep(c) \/ Ends(c)

Spec == Init /\ [][Next]_vars

-------------------------------------------------------------------------------
(* Properties.                                                             *)

\* The steps of a consumer from one up to another, and that its files hold such runs: the
\* i-th file that from first[i] up to first[i + 1].
Run(c, from, to) == [j \in 1 .. to - from |-> <<c, from + j - 1>>]

Holds(c, names, first) ==
    \A i \in DOMAIN names :
       /\ first[i] <= first[i + 1]
       /\ files[names[i]] = Run(c, first[i], first[i + 1])

\* README.md: "A replacement never appends to an existing output"; the test of
\* consumer_output.py: "new consumer never overwrites same timestamp".  The files of a
\* consumer hold its steps in the order it wrote them, all of them and no others, although
\* the wall clock repeats itself.
StepsKept ==
    \A c \in Consumers :
       \E first \in [1 .. Len(opened[c]) + 1 -> 0 .. written[c]] :
          /\ first[1] = 0 /\ first[Len(opened[c]) + 1] = written[c]
          /\ Holds(c, opened[c], first)

===============================================================================
