------------------------------- MODULE Delivery -------------------------------
(***************************************************************************)
(* What the restarting output promises the queue in front of it: delivery  *)
(* at least once and in order.  Snapshots are numbered in the order they   *)
(* are written, next is the one for which write_data did not return yet,   *)
(* and file[c] is what the c-th consumer's output holds.  An output is a   *)
(* run of consecutive snapshots that starts no earlier than where those    *)
(* before it end, so that a snapshot is in two outputs only if it ends one *)
(* and begins the other; write_data returns for a stored snapshot only.    *)
(* Nothing is said of connections, failures and attempts, nor of when a    *)
(* consumer that lost its producer stores what it was sent before.         *)
(***************************************************************************)
EXTENDS Naturals, Sequences

CONSTANT Outputs   \* the numbers of the consumers, in the order of their starts
VARIABLES next, file

deliveryVars == <<next, file>>

Init == next = 0 /\ file = [c \in Outputs |-> <<>>]

Latest(c) == file[c][Len(file[c])]

\* Output c stores snapshot s: after what it holds and what the outputs before it
\* hold, and not after what those behind it began with.
Store(c, s) ==
    /\ file[c] # <<>> => s = Latest(c) + 1
    /\ \A d \in Outputs : d < c /\ file[d] # <<>> => Latest(d) <= s
    /\ \A d \in Outputs : c < d /\ file[d] # <<>> => s <= file[d][1]
    /\ file' = [file EXCEPT ![c] = Append(@, s)]
    /\ UNCHANGED next

\* write_data returns for a snapshot that an output ends with.
Acknowledge ==
    /\ \E c \in Outputs : file[c] # <<>> /\ Latest(c) = next
    /\ next' = next + 1
    /\ UNCHANGED file

Next == Acknowledge \/ \E c \in Outputs, s \in 0 .. next : Store(c, s)

Spec == Init /\ [][Next]_deliveryVars
===============================================================================
