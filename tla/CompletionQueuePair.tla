------------------------ MODULE CompletionQueuePair ------------------------
(***************************************************************************)
(* A pair of completion queues behind one completion channel.  Threads     *)
(* wait in waitForCompletion(), one at a time under the mutex guard, or    *)
(* poll a queue without it.  The card raises an event only for a           *)
(* completion that finds its queue armed, and that disarms the queue; so a *)
(* waiting thread arms the queue an event came from, then empties it, and  *)
(* keeps what it was not asked for in cachedCompletions.                   *)
(***************************************************************************)
EXTENDS Integers, Sequences, FiniteSets

CONSTANTS
  Threads,
  Pollers,             \* those of them that may call the polling functions
  NoThread,            \* the owner of a mutex that is free
  MaxCompletions,      \* bound of the model: work requests that complete
  MaxOdd               \* and how many of them with an error or of a write

ASSUME CompletionAssumption ==
  /\ Pollers \subseteq Threads /\ NoThread \notin Threads
  /\ MaxCompletions \in Nat /\ MaxOdd \in Nat

\* The two queues, named as waitForCompletion() does by isSendCompletion.
Queues == BOOLEAN

VARIABLES
  queue,               \* completions in sendQueue (TRUE) and receiveQueue (FALSE)
  armed,               \* ibv_req_notify_cq called, no event since
  events,              \* in the channel, by the queue they are for
  cachedCompletions,
  guard,               \* the thread that holds the mutex
  pc,                  \* where a thread is in waitForCompletion(), or in a blocking poll
  want,                \* its arguments restricted and onlySend; the queue it polls
  event,               \* the queue it is emptying
  found,               \* workCompletion, << >> while found is false
  completed,           \* history: all completions, oldest first
  waited,              \* history: what waitForCompletion() returned, in that order
  polled,              \* history: what the polling functions returned
  refused,             \* history: what they took and threw for
  dropped              \* history: what a waitForCompletion() that threw had taken

hwVars == << queue, armed, events, completed >>
vars   == << hwVars, cachedCompletions, guard, pc, want, event, found, waited, polled, refused, dropped >>

\* A completion is known by its age: the n-th of all is n.
Completion == [send : BOOLEAN, age : 1 .. MaxCompletions, ok : BOOLEAN,
               opcode : {"read", "write", "recv"}]

\* Opcodes a queue can get completions of.
Opcodes(q) == IF q THEN {"read", "write"} ELSE {"recv"}

SetOf(s) == { s[i] : i \in DOMAIN s }

Matches(w, c) == ~ w.restricted \/ c.send = w.onlySend

Init ==
  /\ queue = [q \in Queues |-> << >>]
  /\ armed = [q \in Queues |-> TRUE]
  /\ events = << >> /\ cachedCompletions = << >> /\ guard = NoThread
  /\ pc = [t \in Threads |-> "idle"]
  /\ want = [t \in Threads |-> [restricted |-> FALSE, onlySend |-> FALSE]]
  /\ event = [t \in Threads |-> FALSE]
  /\ found = [t \in Threads |-> << >>]
  /\ completed = << >> /\ waited = << >>
  /\ polled = {} /\ refused = {} /\ dropped = {}

-----------------------------------------------------------------------------
(* The card, and the kernel's event channel.                               *)

Odd(c) == ~ c.ok \/ c.opcode = "write"

Complete(q, ok, opcode) ==
  LET c == [send |-> q, age |-> Len(completed) + 1, ok |-> ok, opcode |-> opcode]
  IN  /\ Len(completed) < MaxCompletions
      /\ Odd(c) => Cardinality({ i \in DOMAIN completed : Odd(completed[i]) }) < MaxOdd
      /\ completed' = Append(completed, c)
      /\ queue' = [queue EXCEPT ![q] = Append(@, c)]
      /\ armed' = [armed EXCEPT ![q] = FALSE]
      /\ events' = IF armed[q] THEN Append(events, q) ELSE events
      /\ UNCHANGED << cachedCompletions, guard, pc, want, event, found, waited, polled, refused, dropped >>

-----------------------------------------------------------------------------
(* waitForCompletion().                                                    *)

\* The three public ways to call it.
Wants == { [restricted |-> FALSE, onlySend |-> FALSE],
           [restricted |-> TRUE, onlySend |-> TRUE],
           [restricted |-> TRUE, onlySend |-> FALSE] }

Call(t, w) ==
  /\ pc[t] = "idle"
  /\ pc' = [pc EXCEPT ![t] = "lock"]
  /\ want' = [want EXCEPT ![t] = w]
  /\ UNCHANGED << hwVars, cachedCompletions, guard, event, found, waited, polled, refused, dropped >>

\* Slip: a way out that leaves the mutex taken.
LeaveMutant(t) ==
  /\ guard' = guard
  /\ pc' = [pc EXCEPT ![t] = "idle"]
  /\ found' = [found EXCEPT ![t] = << >>]

\* Returning or throwing releases the mutex.
Leave(t) ==
  /\ guard' = NoThread
  /\ pc' = [pc EXCEPT ![t] = "idle"]
  /\ found' = [found EXCEPT ![t] = << >>]

\* The cached completions this call may return, by their place in the cache.
Cached(t) == { i \in DOMAIN cachedCompletions : Matches(want[t], cachedCompletions[i]) }
\* Slips: the cache searched from its end, nothing erased from it.
OldestMutant(s) == CHOOSE i \in s : \A j \in s : i >= j
WithoutMutant(s, i) == s

Oldest(s) == CHOOSE i \in s : \A j \in s : i <= j
Without(s, i) == SubSeq(s, 1, i - 1) \o SubSeq(s, i + 1, Len(s))

\* Take the mutex and look into the cache, which only its owner touches.
TakeCached(t) ==
  /\ pc[t] = "lock" /\ guard = NoThread /\ Cached(t) # {}
  /\ LET i == Oldest(Cached(t))
     IN  /\ waited' = Append(waited, cachedCompletions[i])
         /\ cachedCompletions' = Without(cachedCompletions, i)
  /\ Leave(t)
  /\ UNCHANGED << hwVars, want, event, polled, refused, dropped >>

NotCached(t) ==
  /\ pc[t] = "lock" /\ guard = NoThread /\ Cached(t) = {}
  /\ guard' = t
  /\ pc' = [pc EXCEPT ![t] = "event"]
  /\ UNCHANGED << hwVars, cachedCompletions, want, event, found, waited, polled, refused, dropped >>

\* ibv_get_cq_event blocks until there is one; the mutex stays taken.
GetEvent(t) ==
  /\ pc[t] = "event" /\ events # << >>
  /\ event' = [event EXCEPT ![t] = Head(events)]
  /\ events' = Tail(events)
  /\ pc' = [pc EXCEPT ![t] = "arm"]
  /\ UNCHANGED << queue, armed, completed, cachedCompletions, guard, want, found, waited, polled, refused, dropped >>

\* Slip: no ibv_req_notify_cq after an event.
ArmMutant(t) ==
  /\ pc[t] = "arm"
  /\ pc' = [pc EXCEPT ![t] = "drain"]
  /\ UNCHANGED << hwVars, cachedCompletions, guard, want, event, found, waited, polled, refused, dropped >>

Arm(t) ==
  /\ pc[t] = "arm"
  /\ armed' = [armed EXCEPT ![event[t]] = TRUE]
  /\ pc' = [pc EXCEPT ![t] = "drain"]
  /\ UNCHANGED << queue, events, completed, cachedCompletions, guard, want, event, found, waited, polled, refused, dropped >>

\* Slip: all of them added to the cache, which is only searched before the loop.
KeepMutant(t) ==
  LET c == Head(queue[event[t]])
  IN  /\ pc[t] = "drain" /\ queue[event[t]] # << >> /\ c.ok
      /\ queue' = [queue EXCEPT ![event[t]] = Tail(@)]
      /\ cachedCompletions' = Append(cachedCompletions, c)
      /\ UNCHANGED << armed, events, completed, guard, pc, want, event, found, waited, polled, refused, dropped >>

\* One ibv_poll_cq that gets a successful completion: the result or the cache.
Keep(t) ==
  LET c == Head(queue[event[t]])
  IN  /\ pc[t] = "drain" /\ queue[event[t]] # << >> /\ c.ok
      /\ queue' = [queue EXCEPT ![event[t]] = Tail(@)]
      /\ IF found[t] = << >> /\ Matches(want[t], c)
         THEN found' = [found EXCEPT ![t] = << c >>] /\ UNCHANGED cachedCompletions
         ELSE cachedCompletions' = Append(cachedCompletions, c) /\ UNCHANGED found
      /\ UNCHANGED << armed, events, completed, guard, pc, want, event, waited, polled, refused, dropped >>

\* One that gets another status: waitForCompletion() throws there and then, what
\* it had found and what is left in the queue notwithstanding.
Throw(t) ==
  /\ pc[t] = "drain" /\ queue[event[t]] # << >> /\ ~ Head(queue[event[t]]).ok
  /\ dropped' = dropped \cup {Head(queue[event[t]])} \cup SetOf(found[t])
  /\ queue' = [queue EXCEPT ![event[t]] = Tail(@)]
  /\ Leave(t)
  /\ UNCHANGED << armed, events, completed, cachedCompletions, want, event, waited, polled, refused >>

\* The queue is empty: return what was found, or wait for the next event.
Return(t) ==
  /\ pc[t] = "drain" /\ queue[event[t]] = << >> /\ found[t] # << >>
  /\ waited' = waited \o found[t]
  /\ Leave(t)
  /\ UNCHANGED << hwVars, cachedCompletions, want, event, polled, refused, dropped >>

WaitAgain(t) ==
  /\ pc[t] = "drain" /\ queue[event[t]] = << >> /\ found[t] = << >>
  /\ pc' = [pc EXCEPT ![t] = "event"]
  /\ UNCHANGED << hwVars, cachedCompletions, guard, want, event, found, waited, polled, refused, dropped >>

-----------------------------------------------------------------------------
(* The polling functions: neither the mutex nor the cache.                 *)

\* What they accept: pollSendCompletionQueue() any opcode, its other form the one it
\* is given, pollRecvCompletionQueue() a receive.
PollTypes(q) == IF q THEN { {"read", "write"}, {"read"}, {"write"} } ELSE { {"recv"} }

\* The blocking ones know one opcode each.
BlockingTypes(q) == IF q THEN {"read"} ELSE {"recv"}

\* One ibv_poll_cq: a completion that is returned, or thrown for and gone.
Taken(q, types) ==
  LET c == Head(queue[q])
  IN  /\ queue[q] # << >>
      /\ queue' = [queue EXCEPT ![q] = Tail(@)]
      /\ IF c.ok /\ c.opcode \in types
         THEN polled' = polled \cup {c} /\ UNCHANGED refused
         ELSE refused' = refused \cup {c} /\ UNCHANGED polled
      /\ UNCHANGED << armed, events, completed, cachedCompletions, guard, event, found, waited, dropped >>

Poll(t, q, types) ==
  /\ pc[t] = "idle" /\ Taken(q, types)
  /\ UNCHANGED << pc, want >>

PollBlocking(t, q) ==
  /\ pc[t] = "idle"
  /\ pc' = [pc EXCEPT ![t] = "spin"]
  /\ want' = [want EXCEPT ![t] = [restricted |-> TRUE, onlySend |-> q]]
  /\ UNCHANGED << hwVars, cachedCompletions, guard, event, found, waited, polled, refused, dropped >>

Spun(t) ==
  /\ pc[t] = "spin" /\ Taken(want[t].onlySend, BlockingTypes(want[t].onlySend))
  /\ pc' = [pc EXCEPT ![t] = "idle"]
  /\ UNCHANGED want

Step(t) ==
  \/ TakeCached(t) \/ NotCached(t) \/ GetEvent(t) \/ Arm(t)
  \/ Keep(t) \/ Throw(t) \/ Return(t) \/ WaitAgain(t) \/ Spun(t)

Next ==
  \/ \E q \in Queues, ok \in BOOLEAN : \E o \in Opcodes(q) : Complete(q, ok, o)
  \/ \E t \in Threads, w \in Wants : Call(t, w)
  \/ \E t \in Threads : Step(t)
  \/ \E t \in Pollers, q \in Queues :
       PollBlocking(t, q) \/ \E types \in PollTypes(q) : Poll(t, q, types)

Spec == Init /\ [][Next]_vars

\* A thread inside waitForCompletion() or a blocking poll is scheduled as long as it can go on.
FairSpec == Spec /\ \A t \in Threads : WF_vars(Step(t))

-----------------------------------------------------------------------------
(* Properties.                                                             *)

\* The variables keep their types, and the mutex excludes.
TypeOK ==
  /\ \A q \in Queues : SetOf(queue[q]) \subseteq Completion
  /\ armed \in [Queues -> BOOLEAN] /\ SetOf(events) \subseteq Queues
  /\ SetOf(cachedCompletions) \subseteq Completion
  /\ pc \in [Threads -> {"idle", "lock", "event", "arm", "drain", "spin"}]
  /\ want \in [Threads -> Wants] /\ event \in [Threads -> Queues]
  /\ \A t \in Threads : Len(found[t]) <= 1
  /\ \A t \in Threads : guard = t <=> pc[t] \in {"event", "arm", "drain"}

\* "We have to empty the completion queue ... as events are only generated when
\* new work completions are enqueued": as long as a queue holds a completion, an
\* event for it is on its way, or a thread is about to empty it.  Otherwise
\* waitForCompletion() may block for ever in front of a finished request.
NoLostWakeup ==
  \A q \in Queues :
    queue[q] # << >> =>
      \/ q \in SetOf(events)
      \/ \E t \in Threads : pc[t] \in {"arm", "drain"} /\ event[t] = q

\* That holds whichever threads wait and poll, until waitForCompletion() has thrown.
NoLostWakeupUnlessThrown == dropped = {} => NoLostWakeup

\* No completion is lost on the way through queue, cache and result but by a
\* waitForCompletion() that throws, or a poll that did not expect it, and none is
\* handed out twice, whichever threads wait and poll.
EachOnce ==
  LET held == SetOf(queue[TRUE]) \cup SetOf(queue[FALSE]) \cup SetOf(cachedCompletions)
              \cup UNION { SetOf(found[t]) : t \in Threads }
  IN  /\ SetOf(completed) = held \cup SetOf(waited)
                        \cup polled \cup refused \cup dropped
      /\ Len(completed) = Len(queue[TRUE]) + Len(queue[FALSE]) + Len(cachedCompletions)
                          + Cardinality({ t \in Threads : found[t] # << >> })
                          + Len(waited) + Cardinality(polled) + Cardinality(refused)
                          + Cardinality(dropped)

\* Completions of one queue leave waitForCompletion() in the order they happened,
\* although some come from the cache and some from the queue.
InOrderPerQueue ==
  \A i, j \in DOMAIN waited :
    i < j /\ waited[i].send = waited[j].send => waited[i].age < waited[j].age

\* A completion that t has asked for is in a queue or, while t has the mutex, has got
\* from there to its hand or the cache, which only t can do then.
ThereFor(t) ==
  \/ \E q \in Queues : \E c \in SetOf(queue[q]) : Matches(want[t], c)
  \/ /\ guard = t
     /\ \E c \in SetOf(found[t]) \cup SetOf(cachedCompletions) : Matches(want[t], c)

\* As long as no waitForCompletion() has thrown, a thread that has the mutex, or polls
\* and blocks, returns once a completion it asked for has happened.  To empty the
\* queue is not enough: what a thread with the mutex takes from there is still there
\* for it.  It may go on waiting only if others have polled all of that away before it
\* got there; a thread that polls, if others have taken it in whatever way.
WaiterServed ==
  \A t \in Threads :
    pc[t] \in {"event", "arm", "drain", "spin"} /\ ThereFor(t)
      ~> pc[t] = "idle" \/ ~ ThereFor(t) \/ dropped # {}
=============================================================================
