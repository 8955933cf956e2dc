--------------------------- MODULE VerbsResources ---------------------------
(***************************************************************************)
(* What the constructors of an RDMAMessageBuffer acquire from the verbs    *)
(* library, in which order, and what the destructors of the objects that   *)
(* are complete give back when a constructor throws.                       *)
(***************************************************************************)
EXTENDS Integers, Sequences

\* The constructors.  Each step may throw; arming a queue acquires nothing.
ReceiveQueueSteps == << "srq" >>
CompletionQueuePairSteps(channel, send, recv) == << channel, send, recv, "armSend", "armRecv" >>
NetworkSteps ==
  << "devices", "context", "pd" >> \o ReceiveQueueSteps
     \o CompletionQueuePairSteps("channel", "send", "recv")
MemoryRegionSteps == << "mrSend", "mrReceive", "mrReadPos", "mrRemote" >>

\* Network owns a ReceiveQueue and a CompletionQueuePair; a buffer has, beside it, its
\* own CompletionQueuePair, a QueuePair, and four MemoryRegions.
Steps ==
  NetworkSteps \o CompletionQueuePairSteps("channel2", "send2", "recv2")
     \o << "qp" >> \o MemoryRegionSteps

QpStep    == 15
LastStep  == 19
Arming    == { "armSend", "armRecv" }
Acquires(n) == { Steps[n] } \ Arming

\* What the library refuses to give back while it is used, and by what (external).
Users ==
  [pd      |-> { "srq", "qp", "mrSend", "mrReceive", "mrReadPos", "mrRemote" },
   srq     |-> { "qp" },
   channel |-> { "send", "recv" },   channel2 |-> { "send2", "recv2" },
   send2   |-> { "qp" },             recv2    |-> { "qp" }]

-----------------------------------------------------------------------------
(* The destructors.  Slips: the channel forgotten, the protection domain   *)
(* freed before what uses it.                                              *)

ReceiveQueueFrees == << "srq" >>
CompletionQueuePairFreesMutant(channel, send, recv) == << send, recv >>
CompletionQueuePairFrees(channel, send, recv) == << send, recv, channel >>
NetworkFreesMutant ==
  << "pd" >> \o ReceiveQueueFrees \o CompletionQueuePairFrees("channel", "send", "recv")
     \o << "context", "devices" >>
NetworkFrees ==
  ReceiveQueueFrees \o CompletionQueuePairFrees("channel", "send", "recv")
     \o << "pd", "context", "devices" >>

\* An object: the step that completes it, the step that completes the object which
\* from then on destroys it in its own destructor, and what its destructor frees.
Object(last, owner, frees) == [last |-> last, owner |-> owner, frees |-> frees]

\* In the order of their construction.  ReceiveQueue belongs to Network once that is
\* complete; until then its unique_ptr destroys it.
Objects ==
  LET Region(n) == Object(n, LastStep + 1, << Steps[n] >>)
  IN  << Object(4, 9, ReceiveQueueFrees),
         Object(9, LastStep + 1, NetworkFrees),
         Object(14, LastStep + 1, CompletionQueuePairFrees("channel2", "send2", "recv2")),
         Object(15, LastStep + 1, << "qp" >>),
         Region(16), Region(17), Region(18), Region(19) >>

\* What is freed, in order, when an exception leaves the constructor after n steps, or
\* the buffer is destroyed after all of them: the last object complete comes first.
Unwind(n) ==
  LET Destroyed(o) == o.last <= n /\ n < o.owner
      freed[k \in 0 .. Len(Objects)] ==
        IF k = 0 THEN << >>
        ELSE (IF Destroyed(Objects[k]) THEN Objects[k].frees ELSE << >>) \o freed[k - 1]
  IN  freed[Len(Objects)]

UsersOf(r) == IF r \in DOMAIN Users THEN Users[r] ELSE {}

\* Freeing them one by one, none is used by a thing that is still there.
Orderly(held, frees) ==
  \A i \in DOMAIN frees :
    LET freed == { frees[j] : j \in 1 .. i - 1 }
    IN  /\ frees[i] \in held \ freed
        /\ UsersOf(frees[i]) \cap (held \ freed) = {}
=============================================================================
