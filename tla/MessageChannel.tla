---------------------------- MODULE MessageChannel ----------------------------
(***************************************************************************)
(* What a connection promises those that write and read messages: the      *)
(* messages that arrive were sent, in that order and each once; when the   *)
(* connection fails the latest ones are lost, and nothing follows.  This   *)
(* is the channel that the models of the two consumers work with.          *)
(***************************************************************************)
EXTENDS Naturals, Sequences

CONSTANT Message
VARIABLES stream, received, open

channelVars == <<stream, received, open>>

Init == stream = <<>> /\ received = <<>> /\ open = TRUE

Put ==
    /\ open
    /\ \E m \in Message : stream' = Append(stream, m)
    /\ UNCHANGED <<received, open>>

Get ==
    /\ stream # <<>>
    /\ stream' = Tail(stream) /\ received' = Append(received, Head(stream))
    /\ UNCHANGED open

\* Closed by the sender, or broken.
Lose ==
    /\ open' = FALSE
    /\ \E n \in 0 .. Len(stream) : stream' = SubSeq(stream, 1, n)
    /\ UNCHANGED received

Next == Put \/ Get \/ Lose

Spec == Init /\ [][Next]_channelVars

\* What stays in the channel is received in the end.
FairSpec == Spec /\ WF_channelVars(Get)
===============================================================================
