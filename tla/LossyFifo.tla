------------------------------- MODULE LossyFifo -------------------------------
(***************************************************************************)
(* What the output queue promises the simulation and the output: steps     *)
(* numbered 0, 1, 2, ... are accepted while the queue is open and          *)
(* delivered in that order; a step is lost only to make room for a newer   *)
(* one when Capacity or more wait, one per accepted step, or together with *)
(* everything else that waits when the output fails, which ends the queue. *)
(* It says neither which step is evicted nor how two threads share the     *)
(* queue.                                                                  *)
(***************************************************************************)
EXTENDS Naturals, Sequences, SequencesExt

CONSTANT Capacity
VARIABLES accepted, queue, delivered, open

fifoVars == <<accepted, queue, delivered, open>>

Init == accepted = 0 /\ queue = <<>> /\ delivered = <<>> /\ open = TRUE

Accept ==
    /\ open
    /\ \/ Len(queue) <= Capacity /\ queue' = Append(queue, accepted)
       \/ /\ Len(queue) >= Capacity
          /\ \E i \in 1 .. Len(queue) : queue' = Append(RemoveAt(queue, i), accepted)
    /\ accepted' = accepted + 1
    /\ UNCHANGED <<delivered, open>>

Deliver ==
    /\ queue # <<>>
    /\ delivered' = Append(delivered, Head(queue)) /\ queue' = Tail(queue)
    /\ UNCHANGED <<accepted, open>>

Close == open' = FALSE /\ UNCHANGED <<accepted, queue, delivered>>

Abort ==
    /\ queue # <<>>
    /\ queue' = <<>> /\ open' = FALSE
    /\ UNCHANGED <<accepted, delivered>>

Next == Accept \/ Deliver \/ Close \/ Abort

Spec == Init /\ [][Next]_fifoVars

\* Nothing waits forever: it is delivered or given up.
FairSpec == Spec /\ WF_fifoVars(Deliver \/ Abort)
===============================================================================
