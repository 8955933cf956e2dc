---------------------------- MODULE MessageFifo ----------------------------
(***************************************************************************)
(* What one direction of a connection promises to the application: a queue *)
(* of whole messages, first in, first out, that blocks the sender while    *)
(* the frames in it fill Capacity, and that passes every message on.  No   *)
(* rings, words, cards or positions: those of RDMAMessageBuffer implement  *)
(* it (Fifo there).                                                        *)
(***************************************************************************)
EXTENDS Integers, Sequences

CONSTANTS
  Messages,            \* what may be put
  Cost(_),             \* the bytes a message takes
  Capacity

VARIABLES
  queue,               \* put and not got
  used                 \* the bytes they take

vars == << queue, used >>

Init == queue = << >> /\ used = 0

Put(m) ==
  /\ used + Cost(m) <= Capacity
  /\ queue' = Append(queue, m)
  /\ used' = used + Cost(m)

Get ==
  /\ queue # << >>
  /\ queue' = Tail(queue)
  /\ used' = used - Cost(Head(queue))

Next == Get \/ \E m \in Messages : Put(m)

Spec == Init /\ [][Next]_vars

\* What is put is got, in the end.
FairSpec == Spec /\ WF_vars(Get)
=============================================================================
