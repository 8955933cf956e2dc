--------------------- MODULE CompletionQueuePair_proofs ---------------------
(***************************************************************************)
(* For any number of threads and completions.  The mutex excludes, and no  *)
(* completion waits in a queue without an event or a thread on its way to  *)
(* it, as long as waitForCompletion() has not thrown.  What it returns of  *)
(* one queue is in the order in which it happened, although it comes out   *)
(* of the queue, the cache and the hands of several threads; and every     *)
(* completion is in one place, a queue, the cache, the hands of a thread,  *)
(* or with a caller: only an exception or a poll that did not expect it    *)
(* loses it.  And nobody is blocked before one that is there.              *)
(***************************************************************************)
EXTENDS CompletionQueuePair, SequenceTheorems, FiniteSetTheorems, TLAPS

-----------------------------------------------------------------------------
(* Sequences and the sets of their elements.                               *)

LEMMA SetOfAppend ==
  ASSUME NEW S, NEW s \in Seq(S), NEW x \in S
  PROVE  /\ Append(s, x) \in Seq(S)
         /\ SetOf(Append(s, x)) = SetOf(s) \cup {x}
<1>1. /\ Append(s, x) \in Seq(S) /\ Len(Append(s, x)) = Len(s) + 1
      /\ \A i \in 1 .. Len(s) : Append(s, x)[i] = s[i]
      /\ Append(s, x)[Len(s) + 1] = x
  BY AppendProperties
<1>2. Len(s) \in Nat /\ DOMAIN s = 1 .. Len(s) /\ DOMAIN Append(s, x) = 1 .. Len(s) + 1
  BY <1>1
<1>3. 1 .. Len(s) + 1 = 1 .. Len(s) \cup {Len(s) + 1}
  BY <1>2
<1> QED
  BY <1>1, <1>2, <1>3 DEF SetOf

LEMMA SetOfTail ==
  ASSUME NEW S, NEW s \in Seq(S), s # << >>
  PROVE  /\ Head(s) \in S /\ Tail(s) \in Seq(S)
         /\ SetOf(s) = {Head(s)} \cup SetOf(Tail(s))
<1>1. /\ Head(s) \in S /\ Tail(s) \in Seq(S) /\ Len(Tail(s)) = Len(s) - 1
      /\ Len(s) \in Nat /\ Len(s) >= 1
  BY HeadTailProperties
<1>2. Head(s) = s[1] /\ \A i \in 1 .. Len(s) - 1 : Tail(s)[i] = s[i + 1]
  BY <1>1, HeadTailProperties
<1>3. SetOf(s) \subseteq {Head(s)} \cup SetOf(Tail(s))
  <2> SUFFICES ASSUME NEW i \in 1 .. Len(s) PROVE s[i] \in {Head(s)} \cup SetOf(Tail(s))
    BY DEF SetOf
  <2>1. CASE i = 1
    BY <1>2, <2>1
  <2>2. CASE i # 1
    <3>1. i - 1 \in 1 .. Len(s) - 1 /\ s[i] = Tail(s)[i - 1]
      BY <1>2, <2>2
    <3>2. i - 1 \in DOMAIN Tail(s)
      BY <1>1, <3>1
    <3> QED
      BY <3>1, <3>2 DEF SetOf
  <2> QED
    BY <2>1, <2>2
<1>4. {Head(s)} \cup SetOf(Tail(s)) \subseteq SetOf(s)
  BY <1>1, <1>2 DEF SetOf
<1> QED
  BY <1>1, <1>3, <1>4

LEMMA SetOfSeq ==
  ASSUME NEW S, NEW s \in Seq(S)
  PROVE  SetOf(s) \subseteq S
  BY DEF SetOf

\* Erasing an element leaves a sequence of the same kind.
LEMMA WithoutType ==
  ASSUME NEW S, NEW s \in Seq(S), NEW i \in DOMAIN s
  PROVE  Without(s, i) \in Seq(S)
<1>1. i \in 1 .. Len(s)
  OBVIOUS
<1>2. SubSeq(s, 1, i - 1) \in Seq(S) /\ SubSeq(s, i + 1, Len(s)) \in Seq(S)
  BY <1>1, SubSeqProperties
<1> QED
  BY <1>2, ConcatProperties DEF Without

\* A set of naturals has a least element, because the intervals below its elements
\* are finite sets and the strict subset ordering of those is well-founded.
LEMMA LeastNat ==
  ASSUME NEW T \in SUBSET Nat, T # {}
  PROVE  \E m \in T : \A n \in T : m <= n
<1> DEFINE below == { 1 .. n : n \in T }
<1>1. below \subseteq FiniteSubsetsOf(Nat) /\ below # {}
  <2>1. \A n \in T : 1 .. n \in SUBSET Nat /\ IsFiniteSet(1 .. n)
    BY FS_Interval
  <2> QED
    BY <2>1 DEF FiniteSubsetsOf
<1>2. PICK b \in below : \A c \in below : ~ (<< c, b >> \in StrictSubsetOrdering(Nat))
  <2> HIDE DEF below
  <2> QED
    BY <1>1, FS_StrictSubsetOrderingWellFounded, WFMin
<1>3. PICK m \in T : b = 1 .. m
  OBVIOUS
<1>4. ASSUME NEW n \in T, n < m
      PROVE  FALSE
  <2>1. 1 .. n \in below /\ 1 .. n \subseteq 1 .. m /\ 1 .. n # 1 .. m
    <3>1. m \in 1 .. m /\ m \notin 1 .. n
      BY <1>4
    <3> QED
      BY <1>4, <3>1
  <2>2. << 1 .. n, 1 .. m >> \in StrictSubsetOrdering(Nat)
    BY <2>1 DEF StrictSubsetOrdering
  <2> QED
    BY <1>2, <1>3, <2>1, <2>2
<1> QED
  BY <1>4

\* The place of the oldest one is one of the places.
LEMMA OldestIn ==
  ASSUME NEW s \in SUBSET Nat, s # {}
  PROVE  Oldest(s) \in s
<1>1. \E i \in s : \A j \in s : i <= j
  BY LeastNat
<1> QED
  BY <1>1 DEF Oldest
-----------------------------------------------------------------------------
(* The inductive invariant.                                                *)

\* The variables keep their types.
TypeInv ==
  /\ queue \in [Queues -> Seq(Completion)] /\ armed \in [Queues -> BOOLEAN]
  /\ events \in Seq(Queues) /\ cachedCompletions \in Seq(Completion)
  /\ pc \in [Threads -> {"idle", "lock", "event", "arm", "drain", "spin"}]
  /\ want \in [Threads -> Wants] /\ event \in [Threads -> Queues]
  /\ found \in [Threads -> Seq(Completion)] /\ \A t \in Threads : Len(found[t]) <= 1
  /\ completed \in Seq(Completion)

\* The mutex is held from the look into the cache to the end.
Mutex == \A t \in Threads : guard = t <=> pc[t] \in {"event", "arm", "drain"}

\* A queue that is not armed has an event under way, or a thread that will arm it
\* before it empties it.
Disarmed ==
  \A q \in Queues :
    ~ armed[q] =>
      \/ q \in SetOf(events)
      \/ \E t \in Threads : pc[t] = "arm" /\ event[t] = q

IInv == TypeInv /\ Mutex /\ Disarmed /\ NoLostWakeupUnlessThrown

-----------------------------------------------------------------------------
LEMMA InitIInv == Init => IInv
<1> SUFFICES ASSUME Init PROVE IInv
  OBVIOUS
<1>1. TypeInv
  BY DEF Init, TypeInv, Queues, Wants
<1>2. Mutex
  BY CompletionAssumption DEF Init, Mutex
<1>3. Disarmed /\ NoLostWakeupUnlessThrown
  BY DEF Init, Disarmed, NoLostWakeupUnlessThrown, NoLostWakeup
<1> QED
  BY <1>1, <1>2, <1>3 DEF IInv

\* The card adds a completion: an event goes out with it if the queue was armed, and
\* is under way already, or taken by a thread that will arm the queue, if not.
LEMMA CompleteIInv ==
  ASSUME IInv, NEW q \in Queues, NEW ok \in BOOLEAN, NEW o \in Opcodes(q), Complete(q, ok, o)
  PROVE  IInv'
<1> DEFINE c == [send |-> q, age |-> Len(completed) + 1, ok |-> ok, opcode |-> o]
<1> USE DEF IInv, Complete
<1>1. c \in Completion
  <2>1. Len(completed) + 1 \in 1 .. MaxCompletions
    <3>1. Len(completed) \in Nat /\ Len(completed) < MaxCompletions
      BY DEF TypeInv
    <3> QED
      BY <3>1, CompletionAssumption
  <2>2. q \in BOOLEAN
    BY DEF Queues
  <2>3. o \in {"read", "write", "recv"}
    BY DEF Opcodes
  <2> QED
    BY <2>1, <2>2, <2>3, Zenon DEF Completion
<1>2. /\ queue' = [queue EXCEPT ![q] = Append(@, c)] /\ completed' = Append(completed, c)
      /\ armed' = [armed EXCEPT ![q] = FALSE]
      /\ events' = IF armed[q] THEN Append(events, q) ELSE events
      /\ UNCHANGED << cachedCompletions, guard, pc, want, event, found, dropped >>
  OBVIOUS
<1> HIDE DEF c, Complete
<1>3. TypeInv'
  BY <1>1, <1>2, SetOfAppend DEF TypeInv
<1>4. Mutex'
  BY <1>2 DEF Mutex
<1>5. SetOf(events') = IF armed[q] THEN SetOf(events) \cup {q} ELSE SetOf(events)
  <2>1. events \in Seq(Queues) /\ q \in Queues
    BY DEF TypeInv
  <2>2. SetOf(Append(events, q)) = SetOf(events) \cup {q}
    BY <2>1, SetOfAppend
  <2> QED
    BY <1>2, <2>2
<1>6. Disarmed'
  BY <1>2, <1>5 DEF Disarmed, TypeInv
<1>7. NoLostWakeupUnlessThrown'
  <2> SUFFICES ASSUME dropped = {}, NEW r \in Queues, queue'[r] # << >>
               PROVE  \/ r \in SetOf(events')
                      \/ \E t \in Threads : pc[t] \in {"arm", "drain"} /\ event[t] = r
    BY <1>2 DEF NoLostWakeupUnlessThrown, NoLostWakeup
  <2>1. CASE r = q
    BY <1>2, <1>5, <2>1 DEF Disarmed, TypeInv
  <2>2. CASE r # q
    BY <1>2, <1>5, <2>2 DEF NoLostWakeupUnlessThrown, NoLostWakeup, TypeInv
  <2> QED
    BY <2>1, <2>2
<1> QED
  BY <1>3, <1>4, <1>6, <1>7

\* A step of a thread that only takes completions from the queues, and does not turn
\* from a queue that is left in need of it, unless by throwing.
LEMMA TakingWoken ==
  ASSUME IInv, NEW t \in Threads,
         UNCHANGED << armed, events, event >>,
         \A u \in Threads \ {t} : pc'[u] = pc[u],
         pc[t] # "arm",
         pc[t] = "drain" =>
           queue[event[t]] = << >> \/ pc'[t] = "drain" \/ dropped' # {},
         \A q \in Queues : queue'[q] # << >> => queue[q] # << >>,
         dropped' = {} => dropped = {}
  PROVE  Disarmed' /\ NoLostWakeupUnlessThrown'
<1>1. Disarmed'
  <2> SUFFICES ASSUME NEW q \in Queues, ~ armed[q]
               PROVE  \/ q \in SetOf(events)
                      \/ \E u \in Threads : pc'[u] = "arm" /\ event[u] = q
    BY DEF Disarmed
  <2> QED
    BY DEF IInv, Disarmed
<1>2. NoLostWakeupUnlessThrown'
  <2> SUFFICES ASSUME dropped' = {}, NEW q \in Queues, queue'[q] # << >>
               PROVE  \/ q \in SetOf(events)
                      \/ \E u \in Threads : pc'[u] \in {"arm", "drain"} /\ event[u] = q
    BY DEF NoLostWakeupUnlessThrown, NoLostWakeup
  <2>1. \/ q \in SetOf(events)
        \/ \E u \in Threads : pc[u] \in {"arm", "drain"} /\ event[u] = q
    BY DEF IInv, NoLostWakeupUnlessThrown, NoLostWakeup
  <2>2. ASSUME NEW u \in Threads, pc[u] \in {"arm", "drain"}, event[u] = q
        PROVE  pc'[u] \in {"arm", "drain"}
    BY <2>2
  <2> QED
    BY <2>1, <2>2
<1> QED
  BY <1>1, <1>2

\* Entering waitForCompletion() or a blocking poll.
LEMMA EnterIInv ==
  ASSUME IInv, NEW t \in Threads,
         \/ \E w \in Wants : Call(t, w)
         \/ \E q \in Queues : PollBlocking(t, q)
  PROVE  IInv'
<1>1. PICK w \in Wants, step \in {"lock", "spin"} :
        /\ pc[t] = "idle" /\ pc' = [pc EXCEPT ![t] = step]
        /\ want' = [want EXCEPT ![t] = w]
        /\ UNCHANGED << queue, armed, events, completed, cachedCompletions, guard, event, found,
                        dropped >>
  <2>1. ASSUME NEW w \in Wants, Call(t, w)
        PROVE  /\ pc[t] = "idle" /\ pc' = [pc EXCEPT ![t] = "lock"]
               /\ want' = [want EXCEPT ![t] = w]
               /\ UNCHANGED << queue, armed, events, completed, cachedCompletions, guard, event,
                               found, dropped >>
    BY <2>1 DEF Call, hwVars
  <2>2. ASSUME NEW q \in Queues, PollBlocking(t, q)
        PROVE  /\ pc[t] = "idle" /\ pc' = [pc EXCEPT ![t] = "spin"]
               /\ want' = [want EXCEPT ![t] = [restricted |-> TRUE, onlySend |-> q]]
               /\ [restricted |-> TRUE, onlySend |-> q] \in Wants
               /\ UNCHANGED << queue, armed, events, completed, cachedCompletions, guard, event,
                               found, dropped >>
    <3>1. [restricted |-> TRUE, onlySend |-> q] \in Wants
      <4>1. q = TRUE \/ q = FALSE
        BY DEF Queues
      <4> QED
        BY <4>1, Zenon DEF Wants
    <3> QED
      BY <2>2, <3>1 DEF PollBlocking, hwVars
  <2> QED
    BY <2>1, <2>2
<1>2. TypeInv'
  BY <1>1 DEF IInv, TypeInv
<1>3. Mutex'
  BY <1>1 DEF IInv, TypeInv, Mutex
<1>4. Disarmed' /\ NoLostWakeupUnlessThrown'
  BY <1>1, TakingWoken DEF IInv, TypeInv
<1> QED
  BY <1>2, <1>3, <1>4 DEF IInv

\* With the mutex taken, what is asked for is in the cache, or it is not.
LEMMA LockIInv ==
  ASSUME IInv, NEW t \in Threads, TakeCached(t) \/ NotCached(t)
  PROVE  IInv'
<1>1. /\ pc[t] = "lock" /\ guard = NoThread
      /\ UNCHANGED << queue, armed, events, completed, want, event, dropped >>
  BY DEF TakeCached, NotCached, hwVars
<1>2. TypeInv' /\ Mutex' /\ \A u \in Threads \ {t} : pc'[u] = pc[u]
  <2>1. CASE TakeCached(t)
    <3>1. PICK i : i \in Cached(t) /\ cachedCompletions' = Without(cachedCompletions, i)
      <4>1. Cached(t) \in SUBSET Nat /\ Cached(t) # {}
        BY <2>1 DEF TakeCached, Cached, IInv, TypeInv
      <4> QED
        BY <2>1, <4>1, OldestIn DEF TakeCached
    <3>2. cachedCompletions' \in Seq(Completion)
      BY <3>1, WithoutType DEF Cached, IInv, TypeInv
    <3>3. /\ guard' = NoThread /\ pc' = [pc EXCEPT ![t] = "idle"]
          /\ found' = [found EXCEPT ![t] = << >>]
      BY <2>1 DEF TakeCached, Leave
    <3>4. << >> \in Seq(Completion) /\ Len(<< >>) <= 1
      OBVIOUS
    <3> QED
      BY <1>1, <3>2, <3>3, <3>4, CompletionAssumption DEF IInv, TypeInv, Mutex
  <2>2. CASE NotCached(t)
    <3>1. /\ guard' = t /\ pc' = [pc EXCEPT ![t] = "event"]
          /\ UNCHANGED << cachedCompletions, found >>
      BY <2>2 DEF NotCached
    <3> QED
      BY <1>1, <3>1, CompletionAssumption DEF IInv, TypeInv, Mutex
  <2> QED
    BY <2>1, <2>2
<1>3. Disarmed' /\ NoLostWakeupUnlessThrown'
  BY <1>1, <1>2, TakingWoken
<1> QED
  BY <1>2, <1>3 DEF IInv

\* The event is taken over by the thread, which is to arm its queue ...
LEMMA GetEventIInv ==
  ASSUME IInv, NEW t \in Threads, GetEvent(t)
  PROVE  IInv'
<1>1. /\ pc[t] = "event" /\ events # << >>
      /\ event' = [event EXCEPT ![t] = Head(events)] /\ events' = Tail(events)
      /\ pc' = [pc EXCEPT ![t] = "arm"]
      /\ UNCHANGED << queue, armed, completed, cachedCompletions, guard, want, found, dropped >>
  BY DEF GetEvent
<1>2. /\ Head(events) \in Queues /\ Tail(events) \in Seq(Queues)
      /\ SetOf(events) = {Head(events)} \cup SetOf(Tail(events))
  BY <1>1, SetOfTail DEF IInv, TypeInv
<1>3. TypeInv' /\ Mutex'
  BY <1>1, <1>2 DEF IInv, TypeInv, Mutex
<1>4. pc'[t] = "arm" /\ event'[t] = Head(events)
  BY <1>1 DEF IInv, TypeInv
<1>5. \A u \in Threads : u # t => pc'[u] = pc[u] /\ event'[u] = event[u]
  BY <1>1 DEF IInv, TypeInv
<1>6. Disarmed'
  BY <1>1, <1>2, <1>4, <1>5 DEF IInv, Disarmed
<1>7. NoLostWakeupUnlessThrown'
  BY <1>1, <1>2, <1>4, <1>5 DEF IInv, NoLostWakeupUnlessThrown, NoLostWakeup
<1> QED
  BY <1>3, <1>6, <1>7 DEF IInv

\* ... and then to empty it.
LEMMA ArmIInv ==
  ASSUME IInv, NEW t \in Threads, Arm(t)
  PROVE  IInv'
<1>1. /\ pc[t] = "arm" /\ armed' = [armed EXCEPT ![event[t]] = TRUE]
      /\ pc' = [pc EXCEPT ![t] = "drain"]
      /\ UNCHANGED << queue, events, completed, cachedCompletions, guard, want, event, found,
                      dropped >>
  BY DEF Arm
<1>2. TypeInv' /\ Mutex'
  BY <1>1 DEF IInv, TypeInv, Mutex
<1>3. /\ pc'[t] = "drain" /\ \A u \in Threads : u # t => pc'[u] = pc[u]
      /\ \A q \in Queues : ~ armed'[q] => ~ armed[q] /\ q # event[t]
  BY <1>1 DEF IInv, TypeInv
<1>4. Disarmed'
  BY <1>1, <1>3 DEF IInv, Disarmed
<1>5. NoLostWakeupUnlessThrown'
  BY <1>1, <1>3 DEF IInv, NoLostWakeupUnlessThrown, NoLostWakeup
<1> QED
  BY <1>2, <1>4, <1>5 DEF IInv

\* Taking a completion off a queue leaves the others as they are.
LEMMA TailOfQueue ==
  ASSUME IInv, NEW q \in Queues, queue[q] # << >>,
         queue' = [queue EXCEPT ![q] = Tail(@)]
  PROVE  /\ Head(queue[q]) \in Completion
         /\ queue' \in [Queues -> Seq(Completion)]
         /\ \A r \in Queues : queue'[r] # << >> => queue[r] # << >>
<1>1. queue[q] \in Seq(Completion)
  BY DEF IInv, TypeInv
<1>2. Head(queue[q]) \in Completion /\ Tail(queue[q]) \in Seq(Completion)
  BY <1>1, SetOfTail
<1> QED
  BY <1>2 DEF IInv, TypeInv

\* Emptying the queue: what a call keeps, and what ends it.
LEMMA KeepIInv ==
  ASSUME IInv, NEW t \in Threads, Keep(t)
  PROVE  IInv'
<1> DEFINE c == Head(queue[event[t]])
<1>1. /\ pc[t] = "drain" /\ queue[event[t]] # << >>
      /\ queue' = [queue EXCEPT ![event[t]] = Tail(@)]
      /\ \/ found' = [found EXCEPT ![t] = << c >>] /\ UNCHANGED cachedCompletions
         \/ cachedCompletions' = Append(cachedCompletions, c) /\ UNCHANGED found
      /\ UNCHANGED << armed, events, completed, guard, pc, want, event, dropped >>
  BY DEF Keep
<1>2. /\ c \in Completion /\ queue' \in [Queues -> Seq(Completion)]
      /\ \A r \in Queues : queue'[r] # << >> => queue[r] # << >>
  <2>1. event[t] \in Queues
    BY DEF IInv, TypeInv
  <2> QED
    BY <1>1, <2>1, TailOfQueue
<1> HIDE DEF c
<1>3. /\ found' \in [Threads -> Seq(Completion)] /\ \A u \in Threads : Len(found'[u]) <= 1
      /\ cachedCompletions' \in Seq(Completion)
  <2>1. << c >> \in Seq(Completion) /\ Len(<< c >>) = 1
    BY <1>2
  <2>2. Append(cachedCompletions, c) \in Seq(Completion)
    BY <1>2, SetOfAppend DEF IInv, TypeInv
  <2>3. CASE found' = [found EXCEPT ![t] = << c >>] /\ UNCHANGED cachedCompletions
    BY <2>1, <2>3 DEF IInv, TypeInv
  <2>4. CASE cachedCompletions' = Append(cachedCompletions, c) /\ UNCHANGED found
    BY <2>2, <2>4 DEF IInv, TypeInv
  <2> QED
    BY <1>1, <2>3, <2>4
<1>4. TypeInv' /\ Mutex'
  BY <1>1, <1>2, <1>3 DEF IInv, TypeInv, Mutex
<1>5. Disarmed' /\ NoLostWakeupUnlessThrown'
  BY <1>1, <1>2, TakingWoken
<1> QED
  BY <1>4, <1>5 DEF IInv

LEMMA LeaveDrainIInv ==
  ASSUME IInv, NEW t \in Threads, Throw(t) \/ Return(t) \/ WaitAgain(t)
  PROVE  IInv'
<1>1. /\ pc[t] = "drain" /\ UNCHANGED << armed, events, completed, cachedCompletions, want, event >>
      /\ \/ guard' = NoThread /\ pc' = [pc EXCEPT ![t] = "idle"] /\ found' = [found EXCEPT ![t] = << >>]
         \/ pc' = [pc EXCEPT ![t] = "event"] /\ UNCHANGED << guard, found >>
  BY DEF Throw, Return, WaitAgain, Leave, hwVars
<1>2. /\ queue' \in [Queues -> Seq(Completion)]
      /\ \A r \in Queues : queue'[r] # << >> => queue[r] # << >>
      /\ queue[event[t]] = << >> \/ dropped' # {}
      /\ dropped' = {} => dropped = {}
  <2>1. CASE Throw(t)
    <3>1. /\ event[t] \in Queues /\ queue[event[t]] # << >>
          /\ queue' = [queue EXCEPT ![event[t]] = Tail(@)]
          /\ dropped' = dropped \cup {Head(queue[event[t]])} \cup SetOf(found[t])
      BY <2>1 DEF Throw, IInv, TypeInv
    <3>2. Head(queue[event[t]]) \in dropped'
      BY <3>1
    <3> QED
      BY <3>1, <3>2, TailOfQueue
  <2>2. CASE Return(t) \/ WaitAgain(t)
    <3>1. queue[event[t]] = << >> /\ UNCHANGED << queue, dropped >>
      BY <2>2 DEF Return, WaitAgain, hwVars
    <3> QED
      BY <3>1 DEF IInv, TypeInv
  <2> QED
    BY <2>1, <2>2
<1>3. << >> \in Seq(Completion) /\ Len(<< >>) <= 1
  OBVIOUS
<1>4. TypeInv'
  BY <1>1, <1>2, <1>3 DEF IInv, TypeInv
<1>5. Mutex'
  BY <1>1, CompletionAssumption DEF IInv, TypeInv, Mutex
<1>6. \A u \in Threads \ {t} : pc'[u] = pc[u]
  BY <1>1 DEF IInv, TypeInv
<1>7. Disarmed' /\ NoLostWakeupUnlessThrown'
  BY <1>1, <1>2, <1>6, TakingWoken
<1> QED
  BY <1>4, <1>5, <1>7 DEF IInv

\* A thread in a blocking poll polls a queue.
LEMMA WantedQueue ==
  ASSUME IInv, NEW t \in Threads
  PROVE  want[t].onlySend \in Queues
<1>1. \E w \in Wants : w = want[t]
  BY DEF IInv, TypeInv
<1>2. /\ [restricted |-> FALSE, onlySend |-> FALSE].onlySend = FALSE
      /\ [restricted |-> TRUE, onlySend |-> TRUE].onlySend = TRUE
      /\ [restricted |-> TRUE, onlySend |-> FALSE].onlySend = FALSE
  OBVIOUS
<1>3. ASSUME NEW w \in Wants
      PROVE  w.onlySend = TRUE \/ w.onlySend = FALSE
  BY <1>2, Zenon DEF Wants
<1> QED
  BY <1>1, <1>3, Zenon DEF Queues

\* Polling takes from a queue and wakes nobody, whatever the waiting threads are doing.
LEMMA PollIInv ==
  ASSUME IInv, NEW t \in Threads,
         \/ \E q \in Queues : \E types \in PollTypes(q) : Poll(t, q, types)
         \/ Spun(t)
  PROVE  IInv'
<1>1. PICK q \in Queues :
        /\ pc[t] \in {"idle", "spin"} /\ queue[q] # << >>
        /\ queue' = [queue EXCEPT ![q] = Tail(@)]
        /\ pc' = pc \/ pc' = [pc EXCEPT ![t] = "idle"]
        /\ UNCHANGED << armed, events, completed, cachedCompletions, guard, want, event, found,
                        dropped >>
  <2>1. ASSUME NEW q \in Queues, NEW types, Poll(t, q, types)
        PROVE  /\ pc[t] \in {"idle", "spin"} /\ queue[q] # << >>
               /\ queue' = [queue EXCEPT ![q] = Tail(@)]
               /\ pc' = pc
               /\ UNCHANGED << armed, events, completed, cachedCompletions, guard, want, event,
                               found, dropped >>
    BY <2>1 DEF Poll, Taken
  <2>2. ASSUME Spun(t)
        PROVE  /\ want[t].onlySend \in Queues
               /\ pc[t] \in {"idle", "spin"} /\ queue[want[t].onlySend] # << >>
               /\ queue' = [queue EXCEPT ![want[t].onlySend] = Tail(@)]
               /\ pc' = [pc EXCEPT ![t] = "idle"]
               /\ UNCHANGED << armed, events, completed, cachedCompletions, guard, want, event,
                               found, dropped >>
    BY <2>2, WantedQueue DEF Spun, Taken
  <2> QED
    BY <2>1, <2>2
<1>2. /\ queue' \in [Queues -> Seq(Completion)]
      /\ \A r \in Queues : queue'[r] # << >> => queue[r] # << >>
  BY <1>1, TailOfQueue
<1>3. TypeInv' /\ Mutex'
  BY <1>1, <1>2 DEF IInv, TypeInv, Mutex
<1>4. \A u \in Threads \ {t} : pc'[u] = pc[u]
  BY <1>1 DEF IInv, TypeInv
<1>5. Disarmed' /\ NoLostWakeupUnlessThrown'
  BY <1>1, <1>2, <1>4, TakingWoken
<1> QED
  BY <1>3, <1>5 DEF IInv

LEMMA NextIInv == IInv /\ [Next]_vars => IInv'
<1> SUFFICES ASSUME IInv, [Next]_vars PROVE IInv'
  OBVIOUS
<1>1. ASSUME NEW q \in Queues, NEW ok \in BOOLEAN, NEW o \in Opcodes(q), Complete(q, ok, o)
      PROVE  IInv'
  BY <1>1, CompleteIInv
<1>2. ASSUME NEW t \in Threads, NEW w \in Wants, Call(t, w)
      PROVE  IInv'
  BY <1>2, EnterIInv
<1>3. ASSUME NEW t \in Threads, Step(t)
      PROVE  IInv'
  BY <1>3, LockIInv, GetEventIInv, ArmIInv, KeepIInv, LeaveDrainIInv, PollIInv DEF Step
<1>4. ASSUME NEW t \in Pollers, NEW q \in Queues,
             PollBlocking(t, q) \/ \E types \in PollTypes(q) : Poll(t, q, types)
      PROVE  IInv'
  BY <1>4, EnterIInv, PollIInv, CompletionAssumption
<1>5. CASE UNCHANGED vars
  BY <1>5 DEF vars, hwVars, IInv, TypeInv, Mutex, Disarmed, NoLostWakeupUnlessThrown, NoLostWakeup
<1> QED
  BY <1>1, <1>2, <1>3, <1>4, <1>5 DEF Next

LEMMA SpecIInv == Spec => []IInv
<1> QED
  BY InitIInv, NextIInv, PTL DEF Spec

-----------------------------------------------------------------------------
\* For any number of threads, queues keep completions and every thread is where
\* waitForCompletion() or a poll can be, and the mutex is held by exactly the thread
\* between the cache and its way out.
THEOREM TypeCorrect == Spec => []TypeOK
<1>1. IInv => TypeOK
  <2> SUFFICES ASSUME IInv PROVE TypeOK
    OBVIOUS
  <2>1. \A q \in Queues : SetOf(queue[q]) \subseteq Completion
    BY SetOfSeq DEF IInv, TypeInv
  <2>2. SetOf(events) \subseteq Queues /\ SetOf(cachedCompletions) \subseteq Completion
    BY SetOfSeq DEF IInv, TypeInv
  <2> QED
    BY <2>1, <2>2 DEF IInv, TypeInv, Mutex, TypeOK
<1> QED
  BY <1>1, SpecIInv, PTL

\* For any number of threads that wait and poll, until a waitForCompletion() throws a
\* queue with a completion in it has an event under way or a thread about to empty it.
THEOREM NoWakeupLost == Spec => []NoLostWakeupUnlessThrown
<1>1. IInv => NoLostWakeupUnlessThrown
  BY DEF IInv
<1> QED
  BY <1>1, SpecIInv, PTL

-----------------------------------------------------------------------------
(* Sequences in which the completions of each queue are in their order.    *)

Ordered(s) ==
  \A i, j \in DOMAIN s : i < j /\ s[i].send = s[j].send => s[i].age < s[j].age

\* Completions of one queue that are in A have happened before those that are in B.
Before(A, B) == \A c \in A, d \in B : c.send = d.send => c.age < d.age

LEMMA OrderedAppend ==
  ASSUME NEW S, NEW s \in Seq(S), NEW x \in S, Ordered(s), Before(SetOf(s), {x})
  PROVE  Ordered(Append(s, x))
<1>1. /\ Len(Append(s, x)) = Len(s) + 1 /\ DOMAIN Append(s, x) = 1 .. Len(s) + 1
      /\ \A i \in 1 .. Len(s) : Append(s, x)[i] = s[i]
      /\ Append(s, x)[Len(s) + 1] = x
      /\ Len(s) \in Nat /\ DOMAIN s = 1 .. Len(s)
  BY AppendProperties, LenProperties
<1> SUFFICES ASSUME NEW i \in 1 .. Len(s) + 1, NEW j \in 1 .. Len(s) + 1, i < j,
                    Append(s, x)[i].send = Append(s, x)[j].send
             PROVE  Append(s, x)[i].age < Append(s, x)[j].age
  BY <1>1 DEF Ordered
<1>2. i \in 1 .. Len(s) /\ Append(s, x)[i] = s[i] /\ s[i] \in SetOf(s)
  BY <1>1 DEF SetOf
<1>3. CASE j = Len(s) + 1
  BY <1>1, <1>2, <1>3 DEF Before
<1>4. CASE j # Len(s) + 1
  <2>1. j \in 1 .. Len(s) /\ Append(s, x)[j] = s[j]
    BY <1>1, <1>4
  <2> QED
    BY <1>1, <1>2, <2>1 DEF Ordered
<1> QED
  BY <1>3, <1>4

LEMMA OrderedTail ==
  ASSUME NEW S, NEW s \in Seq(S), s # << >>, Ordered(s)
  PROVE  Ordered(Tail(s)) /\ Before({Head(s)}, SetOf(Tail(s)))
<1>1. /\ Tail(s) \in Seq(S) /\ Len(Tail(s)) = Len(s) - 1
      /\ DOMAIN Tail(s) = 1 .. Len(s) - 1 /\ Len(s) \in Nat /\ Len(s) >= 1
      /\ DOMAIN s = 1 .. Len(s) /\ Head(s) = s[1]
  BY HeadTailProperties, LenProperties
<1>2. \A i \in 1 .. Len(s) - 1 : Tail(s)[i] = s[i + 1] /\ i + 1 \in 1 .. Len(s)
  BY <1>1, HeadTailProperties
<1>3. Ordered(Tail(s))
  <2> SUFFICES ASSUME NEW i \in 1 .. Len(s) - 1, NEW j \in 1 .. Len(s) - 1, i < j,
                      s[i + 1].send = s[j + 1].send
               PROVE  s[i + 1].age < s[j + 1].age
    BY <1>1, <1>2 DEF Ordered
  <2>1. i + 1 \in DOMAIN s /\ j + 1 \in DOMAIN s /\ i + 1 < j + 1
    BY <1>1, <1>2
  <2> QED
    BY <2>1 DEF Ordered
<1>4. Before({Head(s)}, SetOf(Tail(s)))
  <2> SUFFICES ASSUME NEW i \in 1 .. Len(s) - 1, s[1].send = s[i + 1].send
               PROVE  s[1].age < s[i + 1].age
    BY <1>1, <1>2 DEF Before, SetOf
  <2>1. 1 \in DOMAIN s /\ i + 1 \in DOMAIN s /\ 1 < i + 1
    BY <1>1, <1>2
  <2> QED
    BY <2>1 DEF Ordered
<1> QED
  BY <1>3, <1>4

\* Erasing an element keeps the others, in their order.
LEMMA OrderedWithout ==
  ASSUME NEW S, NEW s \in Seq(S), NEW i \in DOMAIN s, Ordered(s)
  PROVE  /\ Ordered(Without(s, i)) /\ Len(Without(s, i)) = Len(s) - 1
         /\ SetOf(Without(s, i)) = { s[j] : j \in DOMAIN s \ {i} }
<1> DEFINE front == SubSeq(s, 1, i - 1)
           back  == SubSeq(s, i + 1, Len(s))
           place(k) == IF k < i THEN k ELSE k + 1
<1>1. i \in 1 .. Len(s) /\ DOMAIN s = 1 .. Len(s) /\ Len(s) \in Nat
  BY LenProperties
<1>2. /\ front \in Seq(S) /\ Len(front) = i - 1
      /\ \A k \in 1 .. i - 1 : front[k] = s[k]
  <2>1. \A k \in 1 .. i - 1 : s[k] \in S
    BY <1>1
  <2> QED
    BY <1>1, <2>1, SubSeqProperties
<1>3. /\ back \in Seq(S) /\ Len(back) = Len(s) - i
      /\ \A k \in 1 .. Len(s) - i : back[k] = s[k + i]
  <2>1. \A k \in i + 1 .. Len(s) : s[k] \in S
    BY <1>1
  <2>2. i + 1 \in Int /\ Len(s) \in Int
    BY <1>1
  <2>3. /\ back \in Seq(S) /\ Len(back) = IF i + 1 <= Len(s) THEN Len(s) - (i + 1) + 1 ELSE 0
        /\ \A k \in 1 .. Len(s) - (i + 1) + 1 : back[k] = s[(i + 1) + k - 1]
    BY <2>1, <2>2, SubSeqProperties
  <2> HIDE DEF back
  <2>4. Len(s) - (i + 1) + 1 = Len(s) - i /\ Len(back) = Len(s) - i
    BY <1>1, <2>3
  <2>5. \A k \in 1 .. Len(s) - i : (i + 1) + k - 1 = k + i
    BY <1>1
  <2> QED
    BY <2>3, <2>4, <2>5
<1> HIDE DEF front, back
<1>4. /\ Without(s, i) = front \o back
      /\ Without(s, i) \in Seq(S) /\ Len(Without(s, i)) = Len(s) - 1
      /\ \A k \in 1 .. Len(s) - 1 : Without(s, i)[k] = IF k <= i - 1 THEN front[k] ELSE back[k - (i - 1)]
  <2>1. Without(s, i) = front \o back
    BY DEF Without, front, back
  <2>2. /\ front \o back \in Seq(S) /\ Len(front \o back) = Len(front) + Len(back)
        /\ \A k \in 1 .. Len(front) + Len(back) :
             (front \o back)[k] = IF k <= Len(front) THEN front[k] ELSE back[k - Len(front)]
    BY <1>2, <1>3, ConcatProperties
  <2>3. Len(front) + Len(back) = Len(s) - 1
    BY <1>1, <1>2, <1>3
  <2> QED
    BY <1>2, <2>1, <2>2, <2>3
<1>5. /\ DOMAIN Without(s, i) = 1 .. Len(s) - 1
      /\ \A k \in 1 .. Len(s) - 1 : Without(s, i)[k] = s[place(k)] /\ place(k) \in DOMAIN s \ {i}
  <2>1. ASSUME NEW k \in 1 .. Len(s) - 1
        PROVE  Without(s, i)[k] = s[place(k)] /\ place(k) \in DOMAIN s \ {i}
    <3>1. CASE k < i
      BY <1>1, <1>2, <1>4, <3>1
    <3>2. CASE ~ k < i
      <4>1. k - (i - 1) \in 1 .. Len(s) - i /\ ~ (k <= i - 1) /\ k - (i - 1) + i = k + 1
        BY <1>1, <3>2
      <4>2. Without(s, i)[k] = s[k + 1]
        BY <1>3, <1>4, <4>1
      <4> QED
        BY <1>1, <3>2, <4>2
    <3> QED
      BY <3>1, <3>2
  <2> QED
    BY <1>4, <2>1, LenProperties
<1>6. Ordered(Without(s, i))
  <2> SUFFICES ASSUME NEW k \in 1 .. Len(s) - 1, NEW l \in 1 .. Len(s) - 1, k < l,
                      s[place(k)].send = s[place(l)].send
               PROVE  s[place(k)].age < s[place(l)].age
    BY <1>5 DEF Ordered
  <2>1. place(k) < place(l)
    BY <1>1
  <2> QED
    BY <1>5, <2>1 DEF Ordered
<1>7. SetOf(Without(s, i)) = { s[j] : j \in DOMAIN s \ {i} }
  <2>1. SetOf(Without(s, i)) \subseteq { s[j] : j \in DOMAIN s \ {i} }
    BY <1>5 DEF SetOf
  <2>2. ASSUME NEW j \in DOMAIN s \ {i}
        PROVE  \E k \in 1 .. Len(s) - 1 : place(k) = j
    <3>1. CASE j < i
      BY <1>1, <3>1
    <3>2. CASE i < j
      <4>1. j - 1 \in 1 .. Len(s) - 1 /\ place(j - 1) = j
        BY <1>1, <3>2
      <4> QED
        BY <4>1
    <3> QED
      BY <1>1, <3>1, <3>2
  <2>3. { s[j] : j \in DOMAIN s \ {i} } \subseteq SetOf(Without(s, i))
    BY SMTT(30), <1>5, <2>2 DEF SetOf
  <2> QED
    BY <2>1, <2>3
<1> QED
  BY <1>4, <1>6, <1>7

LEMMA OneElement ==
  ASSUME NEW S, NEW s \in Seq(S), s # << >>, Len(s) <= 1
  PROVE  \E x \in S : s = << x >>
<1>1. Len(s) \in Nat \ {0} /\ DOMAIN s = 1 .. Len(s)
  BY EmptySeq, LenProperties
<1>2. Len(s) = 1 /\ s[1] \in S
  BY <1>1
<1>3. << s[1] >> \in Seq(S) /\ Len(<< s[1] >>) = 1 /\ << s[1] >>[1] = s[1]
  BY <1>2
<1>4. s = << s[1] >>
  BY <1>2, <1>3, SeqEqual
<1> QED
  BY <1>2, <1>4

\* The place of the oldest one is the least.
LEMMA OldestLeast ==
  ASSUME NEW s \in SUBSET Nat, s # {}
  PROVE  Oldest(s) \in s /\ \A j \in s : Oldest(s) <= j
<1>1. \E i \in s : \A j \in s : i <= j
  BY LeastNat
<1> QED
  BY <1>1 DEF Oldest

-----------------------------------------------------------------------------
(* The inductive invariant: the four places a completion passes, from the  *)
(* queue to the caller, each hold older ones than the places before it.    *)

Queued   == UNION { SetOf(queue[q]) : q \in Queues }
Kept     == SetOf(cachedCompletions)
Have     == UNION { SetOf(found[t]) : t \in Threads }
Returned == SetOf(waited)

Ages == \A c \in Queued \cup Kept \cup Have \cup Returned : c.age <= Len(completed)

Sorted ==
  /\ waited \in Seq(Completion) /\ Ordered(waited) /\ Ordered(cachedCompletions)
  /\ \A q \in Queues : Ordered(queue[q]) /\ \A c \in SetOf(queue[q]) : c.send = q

Staged ==
  /\ Before(Returned, Have) /\ Before(Returned, Kept) /\ Before(Returned, Queued)
  /\ Before(Have, Kept) /\ Before(Have, Queued) /\ Before(Kept, Queued)

\* Only the thread that is emptying a queue has found something, and until then the
\* cache holds nothing that it asked for.
Holder ==
  \A t \in Threads :
    /\ found[t] # << >> => pc[t] = "drain"
    /\ pc[t] \in {"event", "arm", "drain"} /\ found[t] = << >> =>
         \A c \in Kept : ~ Matches(want[t], c)

OInv == IInv /\ Ages /\ Sorted /\ Staged /\ Holder

-----------------------------------------------------------------------------
LEMMA InitOInv == Init => OInv
<1> SUFFICES ASSUME Init PROVE OInv
  OBVIOUS
<1>1. SetOf(<< >>) = {} /\ Ordered(<< >>) /\ << >> \in Seq(Completion)
  BY DEF SetOf, Ordered
<1>2. Queued = {} /\ Kept = {} /\ Have = {} /\ Returned = {}
  BY <1>1 DEF Init, Queued, Kept, Have, Returned
<1>3. Ages /\ Staged
  BY <1>2 DEF Ages, Staged, Before
<1>4. Sorted /\ Holder
  BY <1>1, <1>2 DEF Init, Sorted, Holder
<1> QED
  BY <1>3, <1>4, InitIInv DEF OInv

\* What is in the four places are completions, and their ages numbers.
LEMMA AgesAreNumbers ==
  ASSUME OInv
  PROVE  /\ \A c \in Queued \cup Kept \cup Have \cup Returned : c \in Completion /\ c.age \in Nat
         /\ Len(completed) \in Nat
<1>1. \A q \in Queues : SetOf(queue[q]) \subseteq Completion
  BY SetOfSeq DEF OInv, IInv, TypeInv
<1>2. \A t \in Threads : SetOf(found[t]) \subseteq Completion
  BY SetOfSeq DEF OInv, IInv, TypeInv
<1>3. Kept \subseteq Completion /\ Returned \subseteq Completion
  BY SetOfSeq DEF OInv, IInv, TypeInv, Sorted, Kept, Returned
<1>4. Queued \subseteq Completion /\ Have \subseteq Completion
  BY <1>1, <1>2 DEF Queued, Have
<1>5. \A c \in Completion : c.age \in Nat
  BY DEF Completion
<1> QED
  BY <1>3, <1>4, <1>5, LenProperties DEF OInv, IInv, TypeInv

\* Only the owner of the mutex has found something.
LEMMA OwnerHas ==
  ASSUME OInv, NEW t \in Threads
  PROVE  /\ guard = NoThread => Have = {}
         /\ guard = t => Have = SetOf(found[t])
<1>1. \A u \in Threads : found[u] # << >> => guard = u
  BY DEF OInv, IInv, Mutex, Holder
<1>2. SetOf(<< >>) = {}
  BY DEF SetOf
<1>3. \A u \in Threads : guard # u => SetOf(found[u]) = {}
  BY <1>1, <1>2
<1> QED
  BY <1>3, CompletionAssumption DEF Have

\* A completion taken off a queue is older than those left, of its queue.
LEMMA HeadFirst ==
  ASSUME OInv, NEW q \in Queues, queue[q] # << >>, queue' = [queue EXCEPT ![q] = Tail(@)]
  PROVE  /\ Head(queue[q]) \in Queued /\ Head(queue[q]).send = q
         /\ Queued = {Head(queue[q])} \cup Queued' /\ Before({Head(queue[q])}, Queued')
         /\ \A r \in Queues : Ordered(queue'[r]) /\ \A c \in SetOf(queue'[r]) : c.send = r
<1>1. queue[q] \in Seq(Completion) /\ queue'[q] = Tail(queue[q])
  BY DEF OInv, IInv, TypeInv
<1>2. SetOf(queue[q]) = {Head(queue[q])} \cup SetOf(queue'[q])
  BY <1>1, SetOfTail
<1>3. Ordered(queue'[q]) /\ Before({Head(queue[q])}, SetOf(queue'[q]))
  BY <1>1, OrderedTail DEF OInv, Sorted
<1>4. \A r \in Queues : r # q => queue'[r] = queue[r]
  BY DEF OInv, IInv, TypeInv
<1>5. \A r \in Queues : Ordered(queue'[r]) /\ \A c \in SetOf(queue'[r]) : c.send = r
  BY <1>2, <1>3, <1>4 DEF OInv, Sorted
<1>6. Head(queue[q]) \in Queued /\ Head(queue[q]).send = q
  BY <1>2 DEF OInv, Sorted, Queued
<1>7. Queued = {Head(queue[q])} \cup Queued'
  BY <1>2, <1>4 DEF Queued
<1>8. Before({Head(queue[q])}, Queued')
  <2> SUFFICES ASSUME NEW r \in Queues, NEW d \in SetOf(queue'[r]), Head(queue[q]).send = d.send
               PROVE  Head(queue[q]).age < d.age
    BY DEF Before, Queued
  <2>1. r = q
    BY <1>5, <1>6
  <2> QED
    BY <1>3, <2>1 DEF Before
<1> QED
  BY <1>5, <1>6, <1>7, <1>8

\* Nothing changes place, and no thread becomes the owner of the mutex.
LEMMA NothingMoves ==
  ASSUME OInv, IInv', UNCHANGED << queue, cachedCompletions, found, waited, completed >>,
         \A t \in Threads : /\ pc[t] = "drain" /\ found[t] # << >> => pc'[t] = "drain"
                            /\ pc'[t] \in {"event", "arm", "drain"} =>
                                 /\ want'[t] = want[t]
                                 /\ pc[t] \in {"event", "arm", "drain"} \/ Cached(t) = {}
  PROVE  OInv'
<1>1. Queued' = Queued /\ Kept' = Kept /\ Have' = Have /\ Returned' = Returned
  BY DEF Queued, Kept, Have, Returned
<1>2. Ages' /\ Staged' /\ Sorted'
  BY <1>1 DEF OInv, Ages, Staged, Sorted
<1>3. \A t \in Threads : Cached(t) = {} => \A c \in Kept : ~ Matches(want[t], c)
  BY DEF Cached, Kept, SetOf
<1>4. Holder'
  BY <1>1, <1>3 DEF OInv, Holder
<1> QED
  BY <1>2, <1>4 DEF OInv

-----------------------------------------------------------------------------
\* A new completion is younger than all there are.
LEMMA CompleteOInv ==
  ASSUME OInv, NEW q \in Queues, NEW ok \in BOOLEAN, NEW o \in Opcodes(q), Complete(q, ok, o)
  PROVE  OInv'
<1> DEFINE c == [send |-> q, age |-> Len(completed) + 1, ok |-> ok, opcode |-> o]
<1>1. IInv'
  BY CompleteIInv DEF OInv
<1>2. /\ queue' = [queue EXCEPT ![q] = Append(@, c)] /\ completed' = Append(completed, c)
      /\ UNCHANGED << cachedCompletions, pc, want, found, waited >>
  BY DEF Complete
<1>3. c.send = q /\ c.age = Len(completed) + 1
  OBVIOUS
<1> HIDE DEF c
<1>4. c \in Completion
  <2>1. completed' \in Seq(Completion) /\ completed' # << >> /\ Len(completed') = Len(completed) + 1
        /\ completed'[Len(completed) + 1] = c
    <3>1. completed' \in Seq(Completion)
      BY <1>1 DEF IInv, TypeInv
    <3>2. completed \in Seq(Completion \cup {c})
      BY SeqMonotonic DEF OInv, IInv, TypeInv
    <3> QED
      BY <1>2, <3>1, <3>2, AppendProperties
  <2> QED
    BY <2>1, AgesAreNumbers
<1>5. completed \in Seq(Completion) /\ queue[q] \in Seq(Completion) /\ Len(completed) \in Nat
  BY LenProperties DEF OInv, IInv, TypeInv
<1>6. Len(completed') = Len(completed) + 1
  BY <1>2, <1>4, <1>5, AppendProperties
<1>7. /\ \A r \in Queues : r # q => queue'[r] = queue[r]
      /\ queue'[q] = Append(queue[q], c) /\ SetOf(queue'[q]) = SetOf(queue[q]) \cup {c}
  <2>1. queue \in [Queues -> Seq(Completion)]
    BY DEF OInv, IInv, TypeInv
  <2>2. SetOf(Append(queue[q], c)) = SetOf(queue[q]) \cup {c}
    BY <1>4, <1>5, SetOfAppend
  <2> QED
    BY <1>2, <2>1, <2>2
<1>8. Queued' = Queued \cup {c} /\ Kept' = Kept /\ Have' = Have /\ Returned' = Returned
  BY <1>2, <1>7 DEF Queued, Kept, Have, Returned
<1>9. \A d \in Queued \cup Kept \cup Have \cup Returned : d.age < c.age
  BY <1>3, AgesAreNumbers DEF OInv, Ages
<1>10. Ages'
  BY <1>3, <1>6, <1>8, AgesAreNumbers DEF OInv, Ages
<1>11. Staged'
  BY <1>8, <1>9 DEF OInv, Staged, Before
<1>12. Sorted'
  <2>1. Before(SetOf(queue[q]), {c})
    BY <1>9 DEF Before, Queued
  <2>2. Ordered(queue'[q])
    BY <1>4, <1>5, <1>7, <2>1, OrderedAppend DEF OInv, Sorted
  <2> QED
    BY <1>2, <1>3, <1>7, <2>2 DEF OInv, Sorted
<1>13. Holder'
  BY <1>2, <1>8 DEF OInv, Holder
<1> QED
  BY <1>1, <1>10, <1>11, <1>12, <1>13 DEF OInv

\* A completion leaves a queue and goes nowhere that matters: a poll, or an exception.
LEMMA TakenOInv ==
  ASSUME OInv, IInv', NEW q \in Queues, queue[q] # << >>,
         queue' = [queue EXCEPT ![q] = Tail(@)],
         UNCHANGED << completed, cachedCompletions, waited, want >>,
         NEW t \in Threads, pc' = pc \/ pc' = [pc EXCEPT ![t] = "idle"],
         \/ UNCHANGED found /\ pc[t] # "drain"
         \/ found' = [found EXCEPT ![t] = << >>] /\ pc'[t] = "idle"
  PROVE  OInv'
<1>1. /\ \A u \in Threads : found'[u] = found[u] \/ (found'[u] = << >> /\ pc'[u] = "idle")
      /\ \A u \in Threads : pc'[u] = pc[u] \/ (u = t /\ pc'[u] = "idle")
  BY DEF OInv, IInv, TypeInv
<1>2. SetOf(<< >>) = {}
  BY DEF SetOf
<1>3. Have' \subseteq Have
  BY <1>1, <1>2 DEF Have
<1>4. /\ Queued' \subseteq Queued
      /\ \A r \in Queues : Ordered(queue'[r]) /\ \A c \in SetOf(queue'[r]) : c.send = r
  BY HeadFirst
<1>5. Kept' = Kept /\ Returned' = Returned
  BY DEF Kept, Returned
<1>6. Ages' /\ Staged'
  BY <1>3, <1>4, <1>5 DEF OInv, Ages, Staged, Before
<1>7. Sorted'
  BY <1>4 DEF OInv, Sorted
<1>8. Holder'
  <2> SUFFICES ASSUME NEW u \in Threads
               PROVE  /\ found'[u] # << >> => pc'[u] = "drain"
                      /\ pc'[u] \in {"event", "arm", "drain"} /\ found'[u] = << >> =>
                           \A c \in Kept : ~ Matches(want[u], c)
    BY <1>5 DEF Holder
  <2>1. found[u] # << >> => pc[u] = "drain"
    BY DEF OInv, Holder
  <2>2. found'[u] # << >> => pc'[u] = "drain"
    BY <1>1, <2>1 DEF OInv, IInv, TypeInv
  <2>3. CASE pc'[u] \in {"event", "arm", "drain"} /\ found'[u] = << >>
    BY <1>1, <2>3 DEF OInv, Holder
  <2> QED
    BY <2>2, <2>3
<1> QED
  BY <1>6, <1>7, <1>8 DEF OInv

\* From a queue to the result, or to the cache.
LEMMA KeepOInv ==
  ASSUME OInv, NEW t \in Threads, Keep(t)
  PROVE  OInv'
<1> DEFINE c == Head(queue[event[t]])
<1>1. IInv'
  BY KeepIInv DEF OInv
<1>2. /\ pc[t] = "drain" /\ queue[event[t]] # << >>
      /\ queue' = [queue EXCEPT ![event[t]] = Tail(@)]
      /\ \/ /\ found[t] = << >> /\ Matches(want[t], c)
            /\ found' = [found EXCEPT ![t] = << c >>] /\ UNCHANGED cachedCompletions
         \/ /\ ~ (found[t] = << >> /\ Matches(want[t], c))
            /\ cachedCompletions' = Append(cachedCompletions, c) /\ UNCHANGED found
      /\ UNCHANGED << completed, guard, pc, want, waited >>
  BY DEF Keep
<1>3. event[t] \in Queues /\ guard = t
  BY <1>2 DEF OInv, IInv, TypeInv, Mutex
<1>4. /\ c \in Queued /\ Queued' \subseteq Queued /\ Before({c}, Queued')
      /\ \A r \in Queues : Ordered(queue'[r]) /\ \A d \in SetOf(queue'[r]) : d.send = r
  BY <1>2, <1>3, HeadFirst
<1>5. c \in Completion
  BY <1>4, AgesAreNumbers
<1> HIDE DEF c
<1>6. Returned' = Returned
  BY <1>2 DEF Returned
<1>7. CASE /\ found[t] = << >> /\ Matches(want[t], c)
           /\ found' = [found EXCEPT ![t] = << c >>] /\ UNCHANGED cachedCompletions
  <2>1. Kept' = Kept
    BY <1>7 DEF Kept
  <2>2. Have = {} /\ Have' = {c}
    <3>1. SetOf(<< >>) = {} /\ SetOf(<< c >>) = {c} /\ << c >> # << >>
      BY <1>5 DEF SetOf
    <3>2. Have = {}
      BY <1>3, <1>7, <3>1, OwnerHas
    <3>3. \A u \in Threads : u # t => found'[u] = found[u]
      BY <1>7 DEF OInv, IInv, TypeInv
    <3>4. found'[t] = << c >>
      BY <1>7 DEF OInv, IInv, TypeInv
    <3> QED
      BY <3>1, <3>2, <3>3, <3>4 DEF Have
  <2>3. Before({c}, Kept)
    <3> SUFFICES ASSUME NEW d \in Kept, c.send = d.send PROVE FALSE
      BY DEF Before
    <3>1. Matches(want[t], d)
      BY <1>7 DEF Matches
    <3> QED
      BY <1>2, <1>7, <3>1 DEF OInv, Holder
  <2>4. Ages'
    BY <1>2, <1>4, <1>6, <2>1, <2>2 DEF OInv, Ages
  <2>5. Staged'
    BY <1>4, <1>6, <2>1, <2>2, <2>3 DEF OInv, Staged, Before
  <2>6. Sorted'
    BY <1>2, <1>4, <1>7 DEF OInv, Sorted
  <2>7. Holder'
    <3>1. \A u \in Threads : u # t => found'[u] = found[u] /\ pc'[u] = pc[u]
      BY <1>2, <1>7 DEF OInv, IInv, TypeInv
    <3>2. found'[t] # << >> /\ pc'[t] = "drain"
      BY <1>2, <1>7 DEF OInv, IInv, TypeInv
    <3> QED
      BY <1>2, <2>1, <3>1, <3>2 DEF OInv, Holder
  <2> QED
    BY <1>1, <2>4, <2>5, <2>6, <2>7 DEF OInv
<1>8. CASE /\ ~ (found[t] = << >> /\ Matches(want[t], c))
           /\ cachedCompletions' = Append(cachedCompletions, c) /\ UNCHANGED found
  <2>1. cachedCompletions \in Seq(Completion)
    BY DEF OInv, IInv, TypeInv
  <2>2. Kept' = Kept \cup {c} /\ Have' = Have
    BY <1>5, <1>8, <2>1, SetOfAppend DEF Kept, Have
  <2>3. Ages'
    BY <1>2, <1>4, <1>6, <2>2 DEF OInv, Ages
  <2>4. Staged'
    BY <1>4, <1>6, <2>2 DEF OInv, Staged, Before
  <2>5. Sorted'
    <3>1. Before(SetOf(cachedCompletions), {c})
      BY <1>4 DEF OInv, Staged, Before, Kept
    <3>2. Ordered(cachedCompletions')
      BY <1>5, <1>8, <2>1, <3>1, OrderedAppend DEF OInv, Sorted
    <3> QED
      BY <1>2, <1>4, <3>2 DEF OInv, Sorted
  <2>6. Holder'
    <3>1. \A u \in Threads : pc[u] \in {"event", "arm", "drain"} => u = t
      BY <1>3, CompletionAssumption DEF OInv, IInv, Mutex
    <3> QED
      BY <1>2, <1>8, <2>2, <3>1 DEF OInv, Holder
  <2> QED
    BY <1>1, <2>3, <2>4, <2>5, <2>6 DEF OInv
<1> QED
  BY <1>2, <1>7, <1>8

\* From the cache to the caller: the oldest of those it asked for, so that no other one of
\* its queue is older.
LEMMA TakeCachedOInv ==
  ASSUME OInv, NEW t \in Threads, TakeCached(t)
  PROVE  OInv'
<1> DEFINE i == Oldest(Cached(t))
           c == cachedCompletions[i]
<1>1. IInv'
  BY LockIInv DEF OInv
<1>2. /\ guard = NoThread /\ Cached(t) # {}
      /\ waited' = Append(waited, c) /\ cachedCompletions' = Without(cachedCompletions, i)
      /\ pc' = [pc EXCEPT ![t] = "idle"] /\ found' = [found EXCEPT ![t] = << >>]
      /\ UNCHANGED << queue, completed, want >>
  BY DEF TakeCached, Leave, hwVars
<1>3. /\ cachedCompletions \in Seq(Completion) /\ waited \in Seq(Completion)
      /\ Ordered(cachedCompletions) /\ Ordered(waited)
  BY DEF OInv, IInv, TypeInv, Sorted
<1>4. i \in Cached(t) /\ \A j \in Cached(t) : i <= j
  <2>1. Cached(t) \in SUBSET Nat
    BY <1>3 DEF Cached
  <2> QED
    BY <1>2, <2>1, OldestLeast
<1>5. i \in DOMAIN cachedCompletions /\ i \in Nat /\ Matches(want[t], c) /\ c \in Kept /\ c \in Completion
  <2>1. i \in DOMAIN cachedCompletions /\ Matches(want[t], cachedCompletions[i])
    <3> HIDE DEF i
    <3> QED
      BY <1>4 DEF Cached
  <2>2. i \in Nat /\ cachedCompletions[i] \in Completion /\ cachedCompletions[i] \in Kept
    <3> HIDE DEF i
    <3> QED
      BY <1>3, <2>1 DEF Kept, SetOf
  <2> QED
    BY <2>1, <2>2
<1>6. /\ Ordered(cachedCompletions')
      /\ Kept' \subseteq { cachedCompletions[j] : j \in DOMAIN cachedCompletions \ {i} }
  BY <1>2, <1>3, <1>5, OrderedWithout DEF Kept
<1>7. Kept' \subseteq Kept
  BY <1>6 DEF Kept, SetOf
<1>8. Before({c}, Kept')
  <2> SUFFICES ASSUME NEW j \in DOMAIN cachedCompletions \ {i}, c.send = cachedCompletions[j].send
               PROVE  c.age < cachedCompletions[j].age
    BY <1>6 DEF Before
  <2>1. Matches(want[t], cachedCompletions[j])
    BY <1>5 DEF Matches
  <2>2. j \in Cached(t)
    BY <2>1 DEF Cached
  <2>3. i < j
    <3>1. j \in Nat /\ j # i
      BY <1>3
    <3> QED
      BY <1>4, <1>5, <2>2, <3>1
  <2> QED
    BY <1>3, <1>5, <2>3 DEF Ordered
<1> HIDE DEF c, i
<1>9. Have = {} /\ \A u \in Threads : pc[u] \notin {"event", "arm", "drain"} /\ found[u] = << >>
  BY <1>2, OwnerHas, CompletionAssumption DEF OInv, IInv, Mutex, Holder
<1>10. /\ \A u \in Threads : found'[u] = << >> /\ (pc'[u] = pc[u] \/ pc'[u] = "idle")
       /\ Have' = {}
  <2>1. \A u \in Threads : found'[u] = << >> /\ (pc'[u] = pc[u] \/ pc'[u] = "idle")
    BY <1>2, <1>9 DEF OInv, IInv, TypeInv
  <2>2. SetOf(<< >>) = {}
    BY DEF SetOf
  <2> QED
    BY <2>1, <2>2 DEF Have
<1>11. Returned' = Returned \cup {c} /\ waited' \in Seq(Completion)
  BY <1>2, <1>3, <1>5, SetOfAppend DEF Returned
<1>12. Queued' = Queued
  BY <1>2 DEF Queued
<1>13. Ages'
  BY <1>2, <1>5, <1>7, <1>10, <1>11, <1>12 DEF OInv, Ages
<1>14. Staged'
  BY <1>5, <1>7, <1>8, <1>10, <1>11, <1>12 DEF OInv, Staged, Before
<1>15. Sorted'
  <2>1. Before(SetOf(waited), {c})
    BY <1>5 DEF OInv, Staged, Before, Returned
  <2>2. Ordered(waited')
    BY <1>2, <1>3, <1>5, <2>1, OrderedAppend
  <2> QED
    BY <1>2, <1>6, <1>11, <2>2 DEF OInv, Sorted
<1>16. Holder'
  BY <1>9, <1>10 DEF Holder
<1> QED
  BY <1>1, <1>13, <1>14, <1>15, <1>16 DEF OInv

\* What a call has found goes to the caller: it was taken before all that is in the cache
\* of its queue.
LEMMA ReturnOInv ==
  ASSUME OInv, NEW t \in Threads, Return(t)
  PROVE  OInv'
<1>1. IInv'
  BY LeaveDrainIInv DEF OInv
<1>2. /\ pc[t] = "drain" /\ found[t] # << >> /\ waited' = waited \o found[t]
      /\ pc' = [pc EXCEPT ![t] = "idle"] /\ found' = [found EXCEPT ![t] = << >>]
      /\ UNCHANGED << queue, completed, cachedCompletions, want >>
  BY DEF Return, Leave, hwVars
<1>3. PICK c \in Completion : found[t] = << c >>
  BY <1>2, OneElement DEF OInv, IInv, TypeInv
<1>4. SetOf(<< c >>) = {c} /\ SetOf(<< >>) = {}
  BY <1>3 DEF SetOf
<1>5. guard = t /\ Have = {c}
  BY <1>2, <1>3, <1>4, OwnerHas DEF OInv, IInv, Mutex
<1>6. /\ \A u \in Threads : u # t => found'[u] = found[u] /\ pc'[u] = pc[u]
      /\ found'[t] = << >> /\ pc'[t] = "idle"
  BY <1>2 DEF OInv, IInv, TypeInv
<1>7. \A u \in Threads : u # t => pc[u] \notin {"event", "arm", "drain"} /\ found[u] = << >>
  BY <1>5, CompletionAssumption DEF OInv, IInv, Mutex, Holder
<1>8. Have' = {}
  BY <1>4, <1>6, <1>7 DEF Have
<1>9. waited \in Seq(Completion) /\ waited' = Append(waited, c)
  BY <1>2, <1>3, AppendIsConcat DEF OInv, Sorted
<1>10. Returned' = Returned \cup {c} /\ waited' \in Seq(Completion)
  BY <1>3, <1>9, SetOfAppend DEF Returned
<1>11. Queued' = Queued /\ Kept' = Kept
  BY <1>2 DEF Queued, Kept
<1>12. Ages'
  BY <1>2, <1>5, <1>8, <1>10, <1>11 DEF OInv, Ages
<1>13. Staged'
  BY <1>5, <1>8, <1>10, <1>11 DEF OInv, Staged, Before
<1>14. Sorted'
  <2>1. Before(SetOf(waited), {c})
    BY <1>5 DEF OInv, Staged, Returned
  <2>2. Ordered(waited')
    BY <1>3, <1>9, <2>1, OrderedAppend DEF OInv, Sorted
  <2> QED
    BY <1>2, <1>10, <2>2 DEF OInv, Sorted
<1>15. Holder'
  BY <1>6, <1>7 DEF Holder
<1> QED
  BY <1>1, <1>12, <1>13, <1>14, <1>15 DEF OInv

\* The other steps of a thread.
LEMMA OtherStepOInv ==
  ASSUME OInv, NEW t \in Threads, NotCached(t) \/ GetEvent(t) \/ Arm(t) \/ WaitAgain(t)
  PROVE  OInv'
<1>1. IInv'
  BY LockIInv, GetEventIInv, ArmIInv, LeaveDrainIInv DEF OInv
<1>2. /\ UNCHANGED << queue, cachedCompletions, found, waited, completed, want >>
      /\ \E step \in {"event", "arm", "drain"} : pc' = [pc EXCEPT ![t] = step]
      /\ (pc[t] = "lock" /\ Cached(t) = {}) \/ pc[t] \in {"event", "arm", "drain"}
      /\ pc[t] = "drain" => found[t] = << >>
  BY DEF NotCached, GetEvent, Arm, WaitAgain, hwVars
<1>3. \A u \in Threads : u # t => pc'[u] = pc[u]
  BY <1>2 DEF OInv, IInv, TypeInv
<1> QED
  BY <1>1, <1>2, <1>3, NothingMoves

\* Entering waitForCompletion() or a blocking poll.
LEMMA EnterOInv ==
  ASSUME OInv, NEW t \in Threads,
         \/ \E w \in Wants : Call(t, w)
         \/ \E q \in Queues : PollBlocking(t, q)
  PROVE  OInv'
<1>1. IInv'
  BY EnterIInv DEF OInv
<1>2. /\ UNCHANGED << queue, cachedCompletions, found, waited, completed >>
      /\ pc[t] = "idle" /\ \E step \in {"lock", "spin"} : pc' = [pc EXCEPT ![t] = step]
      /\ \E w : want' = [want EXCEPT ![t] = w]
  BY DEF Call, PollBlocking, hwVars
<1>3. /\ \A u \in Threads : u # t => pc'[u] = pc[u] /\ want'[u] = want[u]
      /\ pc'[t] \in {"lock", "spin"}
  BY <1>2 DEF OInv, IInv, TypeInv
<1> QED
  BY <1>1, <1>2, <1>3, NothingMoves

\* A completion that is thrown for, or polled.
LEMMA LeaveQueueOInv ==
  ASSUME OInv, NEW t \in Threads,
         \/ Throw(t) \/ Spun(t)
         \/ \E q \in Queues : \E types \in PollTypes(q) : Poll(t, q, types)
  PROVE  OInv'
<1>1. IInv'
  BY LeaveDrainIInv, PollIInv DEF OInv
<1>2. CASE Throw(t)
  <2>1. /\ queue[event[t]] # << >> /\ queue' = [queue EXCEPT ![event[t]] = Tail(@)]
        /\ UNCHANGED << completed, cachedCompletions, waited, want >>
        /\ pc' = [pc EXCEPT ![t] = "idle"] /\ found' = [found EXCEPT ![t] = << >>]
    BY <1>2 DEF Throw, Leave
  <2>2. event[t] \in Queues /\ pc'[t] = "idle"
    BY <2>1 DEF OInv, IInv, TypeInv
  <2> QED
    BY <1>1, <2>1, <2>2, TakenOInv
<1>3. CASE Spun(t)
  <2>1. want[t].onlySend \in Queues
    BY WantedQueue DEF OInv
  <2>2. /\ pc[t] = "spin" /\ queue[want[t].onlySend] # << >>
        /\ queue' = [queue EXCEPT ![want[t].onlySend] = Tail(@)]
        /\ UNCHANGED << completed, cachedCompletions, waited, want, found >>
        /\ pc' = [pc EXCEPT ![t] = "idle"]
    BY <1>3 DEF Spun, Taken
  <2> QED
    BY <1>1, <2>1, <2>2, TakenOInv
<1>4. ASSUME NEW q \in Queues, NEW types \in PollTypes(q), Poll(t, q, types)
      PROVE  OInv'
  <2>1. /\ pc[t] = "idle" /\ queue[q] # << >> /\ queue' = [queue EXCEPT ![q] = Tail(@)]
        /\ UNCHANGED << completed, cachedCompletions, waited, want, found, pc >>
    BY <1>4 DEF Poll, Taken
  <2> QED
    BY <1>1, <2>1, TakenOInv
<1> QED
  BY <1>2, <1>3, <1>4

LEMMA NextOInv == OInv /\ [Next]_vars => OInv'
<1> SUFFICES ASSUME OInv, [Next]_vars PROVE OInv'
  OBVIOUS
<1>1. ASSUME NEW q \in Queues, NEW ok \in BOOLEAN, NEW o \in Opcodes(q), Complete(q, ok, o)
      PROVE  OInv'
  BY <1>1, CompleteOInv
<1>2. ASSUME NEW t \in Threads, NEW w \in Wants, Call(t, w)
      PROVE  OInv'
  BY <1>2, EnterOInv
<1>3. ASSUME NEW t \in Threads, Step(t)
      PROVE  OInv'
  BY <1>3, TakeCachedOInv, OtherStepOInv, KeepOInv, LeaveQueueOInv, ReturnOInv DEF Step
<1>4. ASSUME NEW t \in Pollers, NEW q \in Queues,
             PollBlocking(t, q) \/ \E types \in PollTypes(q) : Poll(t, q, types)
      PROVE  OInv'
  BY <1>4, EnterOInv, LeaveQueueOInv, CompletionAssumption
<1>5. CASE UNCHANGED vars
  <2>1. IInv'
    BY <1>5, NextIInv DEF OInv
  <2> QED
    BY <1>5, <2>1, NothingMoves DEF vars, hwVars
<1> QED
  BY <1>1, <1>2, <1>3, <1>4, <1>5 DEF Next

-----------------------------------------------------------------------------
\* However many threads wait, for whatever they ask, and whoever polls meanwhile: the
\* completions of one queue come out of waitForCompletion() in the order they happened.
THEOREM OutInOrder == Spec => []InOrderPerQueue
<1>1. OInv => InOrderPerQueue
  BY DEF OInv, Sorted, Ordered, InOrderPerQueue
<1> QED
  BY <1>1, InitOInv, NextOInv, PTL DEF Spec

-----------------------------------------------------------------------------
(* The inductive invariant: the places hold all completions there were,    *)
(* those that are left are apart from those that are gone, and counted.    *)

Gone == polled \cup refused \cup dropped

InSend    == Len(queue[TRUE])
InReceive == Len(queue[FALSE])
InQueues  == InSend + InReceive
InCache  == Len(cachedCompletions)
InHands  == Cardinality({ t \in Threads : found[t] # << >> })
Given    == Len(waited)
Total    == Len(completed)
Polled   == Cardinality(polled)
Refused  == Cardinality(refused)
Dropped  == Cardinality(dropped)

Accounted == SetOf(completed) = Queued \cup Kept \cup Have \cup Returned \cup Gone

Apart == (Queued \cup Have) \cap Gone = {}

Finite  == IsFiniteSet(polled) /\ IsFiniteSet(refused) /\ IsFiniteSet(dropped)
Counted == Total = InQueues + InCache + InHands + Given + Polled + Refused + Dropped

Old == \A c \in SetOf(completed) : c.age <= Total

XInv == OInv /\ Accounted /\ Apart /\ Finite /\ Counted /\ Old

-----------------------------------------------------------------------------
\* When at most one thread has found something, the count of those is plain.
LEMMA OneHand ==
  ASSUME NEW f, NEW t \in Threads, \A u \in Threads : u # t => f[u] = << >>
  PROVE  Cardinality({ u \in Threads : f[u] # << >> }) = IF f[t] = << >> THEN 0 ELSE 1
<1>1. CASE f[t] = << >>
  <2>1. { u \in Threads : f[u] # << >> } = {}
    BY <1>1
  <2> QED
    BY <1>1, <2>1, FS_EmptySet
<1>2. CASE f[t] # << >>
  <2>1. { u \in Threads : f[u] # << >> } = {t}
    BY <1>2
  <2> QED
    BY <1>2, <2>1, FS_Singleton
<1> QED
  BY <1>1, <1>2

LEMMA NoHand ==
  ASSUME NEW f, \A u \in Threads : f[u] = << >>
  PROVE  Cardinality({ u \in Threads : f[u] # << >> }) = 0
<1>1. { u \in Threads : f[u] # << >> } = {}
  OBVIOUS
<1> QED
  BY <1>1, FS_EmptySet

\* A finite set and an element it does not have.
LEMMA OneMore ==
  ASSUME NEW S, IsFiniteSet(S), NEW x, x \notin S
  PROVE  IsFiniteSet(S \cup {x}) /\ Cardinality(S \cup {x}) = Cardinality(S) + 1
BY FS_AddElement

LEMMA CountsAreNumbers ==
  ASSUME XInv
  PROVE  /\ InQueues \in Nat /\ InCache \in Nat /\ InHands \in {0, 1} /\ Given \in Nat
         /\ Total \in Nat /\ Polled \in Nat /\ Refused \in Nat /\ Dropped \in Nat
<1>1. /\ InSend \in Nat /\ InReceive \in Nat
      /\ InCache \in Nat /\ Given \in Nat /\ Total \in Nat
  <2>1. /\ queue[TRUE] \in Seq(Completion) /\ queue[FALSE] \in Seq(Completion)
        /\ cachedCompletions \in Seq(Completion) /\ waited \in Seq(Completion)
        /\ completed \in Seq(Completion)
    BY DEF XInv, OInv, IInv, TypeInv, Sorted, Queues
  <2> QED
    BY <2>1, LenProperties DEF InSend, InReceive, InCache, Given, Total
<1>2. InHands \in {0, 1}
  <2>1. \A u \in Threads : found[u] # << >> => guard = u
    BY DEF XInv, OInv, IInv, Mutex, Holder
  <2>2. CASE guard \in Threads
    <3>1. InHands = IF found[guard] = << >> THEN 0 ELSE 1
      BY <2>1, <2>2, OneHand DEF InHands
    <3> QED
      BY <3>1
  <2>3. CASE guard \notin Threads
    BY <2>1, <2>3, NoHand DEF InHands
  <2> QED
    BY <2>2, <2>3
<1>3. Polled \in Nat /\ Refused \in Nat /\ Dropped \in Nat
  BY FS_CardinalityType DEF XInv, Finite, Polled, Refused, Dropped
<1> QED
  BY <1>1, <1>2, <1>3 DEF InQueues

LEMMA HeadCounts ==
  ASSUME XInv, NEW q \in Queues, queue[q] # << >>, queue' = [queue EXCEPT ![q] = Tail(@)]
  PROVE  InQueues' = InQueues - 1
<1>1. queue \in [Queues -> Seq(Completion)] /\ TRUE \in Queues /\ FALSE \in Queues
  BY DEF XInv, OInv, IInv, TypeInv, Queues
<1>2. InSend \in Nat /\ InReceive \in Nat
  BY <1>1, LenProperties DEF InSend, InReceive
<1>3. queue'[q] = Tail(queue[q]) /\ Len(Tail(queue[q])) = Len(queue[q]) - 1
  BY <1>1, HeadTailProperties
<1>4. CASE q = TRUE
  <2>1. InSend' = InSend - 1
    BY <1>3, <1>4 DEF InSend
  <2>2. queue'[FALSE] = queue[FALSE]
    BY <1>1, <1>4
  <2>3. InReceive' = InReceive
    BY <2>2 DEF InReceive
  <2> QED
    BY <1>2, <2>1, <2>3 DEF InQueues
<1>5. CASE q = FALSE
  <2>1. InReceive' = InReceive - 1
    BY <1>3, <1>5 DEF InReceive
  <2>2. queue'[TRUE] = queue[TRUE]
    BY <1>1, <1>5
  <2>3. InSend' = InSend
    BY <2>2 DEF InSend
  <2> QED
    BY <1>2, <2>1, <2>3 DEF InQueues
<1> QED
  BY <1>4, <1>5, Zenon DEF Queues

\* A completion taken off a queue is nowhere else.
LEMMA HeadApart ==
  ASSUME XInv, NEW q \in Queues, queue[q] # << >>, queue' = [queue EXCEPT ![q] = Tail(@)]
  PROVE  /\ Queued = {Head(queue[q])} \cup Queued' /\ Head(queue[q]) \notin Queued'
         /\ Head(queue[q]) \notin Have /\ Head(queue[q]) \notin Gone
<1> DEFINE c == Head(queue[q])
<1>1. Queued = {c} \cup Queued' /\ Before({c}, Queued')
  BY HeadFirst DEF XInv
<1>2. c \in Queued /\ c.age \in Nat
  BY <1>1, AgesAreNumbers DEF XInv
<1> HIDE DEF c
<1>3. c \notin Queued' /\ c \notin Have
  BY <1>1, <1>2 DEF Before, XInv, OInv, Staged
<1>4. c \notin Gone
  BY <1>2 DEF XInv, Apart
<1> QED
  BY <1>1, <1>3, <1>4 DEF c

-----------------------------------------------------------------------------
LEMMA InitXInv == Init => XInv
<1> SUFFICES ASSUME Init PROVE XInv
  OBVIOUS
<1>1. SetOf(<< >>) = {} /\ Len(<< >>) = 0
  BY DEF SetOf
<1>2. /\ queue[TRUE] = << >> /\ queue[FALSE] = << >>
      /\ \A q \in Queues : queue[q] = << >>
      /\ \A t \in Threads : found[t] = << >>
      /\ cachedCompletions = << >> /\ waited = << >> /\ completed = << >>
      /\ polled = {} /\ refused = {} /\ dropped = {}
  BY DEF Init, Queues
<1>3. /\ Queued = {} /\ Kept = {} /\ Have = {} /\ Returned = {} /\ Gone = {}
      /\ SetOf(completed) = {}
  BY <1>1, <1>2 DEF Queued, Kept, Have, Returned, Gone
<1>4. /\ InSend = 0 /\ InReceive = 0 /\ InCache = 0 /\ Given = 0 /\ Total = 0
      /\ Polled = 0 /\ Refused = 0 /\ Dropped = 0
  BY <1>2, FS_EmptySet DEF InSend, InReceive, InCache, Given, Total, Polled, Refused, Dropped
<1>5. InHands = 0
  BY <1>2, NoHand DEF InHands
<1>6. Finite
  BY <1>2, FS_EmptySet DEF Finite
<1>7. Counted
  BY <1>4, <1>5 DEF Counted, InQueues
<1> QED
  BY <1>3, <1>6, <1>7, InitOInv DEF XInv, Accounted, Apart, Old

\* A step that leaves all where it is.
LEMMA NothingCounted ==
  ASSUME XInv, OInv',
         UNCHANGED << queue, cachedCompletions, found, waited, completed, polled, refused, dropped >>
  PROVE  XInv'
<1>1. /\ UNCHANGED << Queued, Kept, Have, Returned, Gone >>
      /\ UNCHANGED << InSend, InReceive, InCache, InHands, Given, Total, Polled, Refused, Dropped >>
  BY DEF Queued, Kept, Have, Returned, Gone, InSend, InReceive, InCache, InHands, Given, Total,
         Polled, Refused, Dropped
<1> QED
  BY <1>1 DEF XInv, Accounted, Apart, Finite, Counted, Old, InQueues

\* A new completion is nowhere yet.
LEMMA CompleteXInv ==
  ASSUME XInv, NEW q \in Queues, NEW ok \in BOOLEAN, NEW o \in Opcodes(q), Complete(q, ok, o)
  PROVE  XInv'
<1> DEFINE c == [send |-> q, age |-> Len(completed) + 1, ok |-> ok, opcode |-> o]
<1>1. OInv'
  BY CompleteOInv DEF XInv
<1>2. /\ queue' = [queue EXCEPT ![q] = Append(@, c)] /\ completed' = Append(completed, c)
      /\ UNCHANGED << cachedCompletions, found, waited, polled, refused, dropped >>
  BY DEF Complete
<1>3. c.age = Total + 1
  BY DEF Total
<1> HIDE DEF c
<1>4. /\ completed \in Seq(Completion) /\ completed' \in Seq(Completion)
      /\ queue \in [Queues -> Seq(Completion)] /\ queue[q] \in Seq(Completion)
  BY <1>1 DEF XInv, OInv, IInv, TypeInv
<1>5. c \in Completion
  <2>1. completed \in Seq(Completion \cup {c})
    BY <1>4, SeqMonotonic
  <2>2. completed'[Len(completed) + 1] = c /\ Len(completed') = Len(completed) + 1
    BY <1>2, <2>1, AppendProperties
  <2>3. Len(completed) + 1 \in 1 .. Len(completed')
    BY <1>4, <2>2, LenProperties
  <2> QED
    BY <1>4, <2>2, <2>3, ElementOfSeq
<1>6. Total' = Total + 1 /\ SetOf(completed') = SetOf(completed) \cup {c}
  BY <1>2, <1>4, <1>5, AppendProperties, SetOfAppend DEF Total
<1>7. queue'[q] = Append(queue[q], c) /\ \A r \in Queues : r # q => queue'[r] = queue[r]
  BY <1>2, <1>4
<1>8. Len(queue'[q]) = Len(queue[q]) + 1 /\ SetOf(queue'[q]) = SetOf(queue[q]) \cup {c}
  BY <1>4, <1>5, <1>7, AppendProperties, SetOfAppend
<1>9. /\ Queued' = Queued \cup {c} /\ Kept' = Kept /\ Have' = Have
      /\ Returned' = Returned /\ Gone' = Gone
  BY <1>2, <1>7, <1>8 DEF Queued, Kept, Have, Returned, Gone
<1>10. c \notin SetOf(completed)
  BY <1>3, CountsAreNumbers DEF XInv, Old
<1>11. c \notin Gone
  BY <1>10 DEF XInv, Accounted
<1>12. Accounted' /\ Apart'
  BY <1>6, <1>9, <1>11 DEF XInv, Accounted, Apart
<1>13. Old'
  <2>1. \A d \in SetOf(completed) : d.age \in Nat
    <3>1. SetOf(completed) \subseteq Completion
      BY <1>4, SetOfSeq
    <3>2. \A d \in Completion : d.age \in Nat
      BY DEF Completion
    <3> QED
      BY <3>1, <3>2
  <2> QED
    BY <1>3, <1>6, <2>1, CountsAreNumbers DEF XInv, Old
<1>14. InQueues' = InQueues + 1
  <2>1. TRUE \in Queues /\ FALSE \in Queues
    BY DEF Queues
  <2>2. InSend \in Nat /\ InReceive \in Nat
    BY <1>4, <2>1, LenProperties DEF InSend, InReceive
  <2>3. CASE q = TRUE
    <3>1. InSend' = InSend + 1
      BY <1>8, <2>3 DEF InSend
    <3>2. queue'[FALSE] = queue[FALSE]
      BY <1>7, <2>1, <2>3
    <3>3. InReceive' = InReceive
      BY <3>2 DEF InReceive
    <3> QED
      BY <2>2, <3>1, <3>3 DEF InQueues
  <2>4. CASE q = FALSE
    <3>1. InReceive' = InReceive + 1
      BY <1>8, <2>4 DEF InReceive
    <3>2. queue'[TRUE] = queue[TRUE]
      BY <1>7, <2>1, <2>4
    <3>3. InSend' = InSend
      BY <3>2 DEF InSend
    <3> QED
      BY <2>2, <3>1, <3>3 DEF InQueues
  <2> QED
    BY <2>3, <2>4, Zenon DEF Queues
<1>15. /\ InCache' = InCache /\ InHands' = InHands /\ Given' = Given
       /\ Polled' = Polled /\ Refused' = Refused /\ Dropped' = Dropped
  BY <1>2 DEF InCache, InHands, Given, Polled, Refused, Dropped
<1>16. Counted'
  BY <1>6, <1>14, <1>15, CountsAreNumbers DEF XInv, Counted
<1>17. Finite'
  BY <1>2 DEF XInv, Finite
<1> QED
  BY <1>1, <1>12, <1>13, <1>16, <1>17 DEF XInv

\* A poll: the completion is returned, or thrown for.
LEMMA TakenXInv ==
  ASSUME XInv, OInv', NEW q \in Queues, NEW types, Taken(q, types)
  PROVE  XInv'
<1> DEFINE c == Head(queue[q])
<1>1. /\ queue[q] # << >> /\ queue' = [queue EXCEPT ![q] = Tail(@)]
      /\ UNCHANGED << completed, cachedCompletions, found, waited, dropped >>
      /\ \/ polled' = polled \cup {c} /\ UNCHANGED refused
         \/ refused' = refused \cup {c} /\ UNCHANGED polled
  BY DEF Taken
<1>2. /\ Queued = {c} \cup Queued' /\ c \notin Queued' /\ c \notin Have /\ c \notin Gone
      /\ InQueues' = InQueues - 1
  BY <1>1, HeadApart, HeadCounts
<1> HIDE DEF c
<1>3. Kept' = Kept /\ Have' = Have /\ Returned' = Returned /\ Gone' = Gone \cup {c}
  BY <1>1 DEF Kept, Have, Returned, Gone
<1>4. Accounted' /\ Apart' /\ Old'
  <2>1. Total' = Total
    BY <1>1 DEF Total
  <2> QED
    BY <1>1, <1>2, <1>3, <2>1 DEF XInv, Accounted, Apart, Old
<1>5. /\ InCache' = InCache /\ InHands' = InHands /\ Given' = Given
      /\ Dropped' = Dropped /\ Total' = Total
  BY <1>1 DEF InCache, InHands, Given, Dropped, Total
<1>6. /\ IsFiniteSet(polled') /\ IsFiniteSet(refused')
      /\ Polled' + Refused' = Polled + Refused + 1 /\ Polled' \in Nat /\ Refused' \in Nat
  <2>1. c \notin polled /\ c \notin refused /\ IsFiniteSet(polled) /\ IsFiniteSet(refused)
    BY <1>2 DEF Gone, XInv, Finite
  <2>2. CASE polled' = polled \cup {c} /\ UNCHANGED refused
    <3>1. IsFiniteSet(polled') /\ Polled' = Polled + 1 /\ Refused' = Refused
      BY <2>1, <2>2, OneMore DEF Polled, Refused
    <3> QED
      BY <2>1, <2>2, <3>1, CountsAreNumbers
  <2>3. CASE refused' = refused \cup {c} /\ UNCHANGED polled
    <3>1. IsFiniteSet(refused') /\ Refused' = Refused + 1 /\ Polled' = Polled
      BY <2>1, <2>3, OneMore DEF Polled, Refused
    <3> QED
      BY <2>1, <2>3, <3>1, CountsAreNumbers
  <2> QED
    BY <1>1, <2>2, <2>3
<1>7. Counted'
  BY <1>2, <1>5, <1>6, CountsAreNumbers DEF XInv, Counted
<1>8. Finite'
  BY <1>1, <1>6 DEF XInv, Finite
<1> QED
  BY <1>4, <1>7, <1>8 DEF XInv

\* From a queue to the hands of the thread, or to the cache.
LEMMA KeepXInv ==
  ASSUME XInv, NEW t \in Threads, Keep(t)
  PROVE  XInv'
<1> DEFINE c == Head(queue[event[t]])
<1>1. OInv'
  BY KeepOInv DEF XInv
<1>2. /\ pc[t] = "drain" /\ queue[event[t]] # << >>
      /\ queue' = [queue EXCEPT ![event[t]] = Tail(@)]
      /\ \/ /\ found[t] = << >>
            /\ found' = [found EXCEPT ![t] = << c >>] /\ UNCHANGED cachedCompletions
         \/ cachedCompletions' = Append(cachedCompletions, c) /\ UNCHANGED found
      /\ UNCHANGED << completed, waited, polled, refused, dropped >>
  BY DEF Keep
<1>3. event[t] \in Queues /\ guard = t
  BY <1>2 DEF XInv, OInv, IInv, TypeInv, Mutex
<1>4. /\ Queued = {c} \cup Queued' /\ c \notin Queued' /\ c \notin Have /\ c \notin Gone
      /\ InQueues' = InQueues - 1
  BY <1>2, <1>3, HeadApart, HeadCounts
<1>5. c \in Completion
  BY <1>4, AgesAreNumbers DEF XInv
<1> HIDE DEF c
<1>6. /\ Returned' = Returned /\ Gone' = Gone /\ Total' = Total /\ Given' = Given
      /\ Polled' = Polled /\ Refused' = Refused /\ Dropped' = Dropped
  BY <1>2 DEF Returned, Gone, Total, Given, Polled, Refused, Dropped
<1>7. \/ /\ Have = {} /\ Have' = {c} /\ Kept' = Kept
         /\ InHands = 0 /\ InHands' = 1 /\ InCache' = InCache
      \/ /\ Have' = Have /\ Kept' = Kept \cup {c}
         /\ InHands' = InHands /\ InCache' = InCache + 1
  <2>1. CASE found[t] = << >> /\ found' = [found EXCEPT ![t] = << c >>] /\ UNCHANGED cachedCompletions
    <3>1. SetOf(<< >>) = {} /\ SetOf(<< c >>) = {c} /\ << c >> # << >>
      BY <1>5 DEF SetOf
    <3>2. \A u \in Threads : u # t => found[u] = << >>
      BY <1>3, CompletionAssumption DEF XInv, OInv, IInv, Mutex, Holder
    <3>3. found'[t] = << c >> /\ \A u \in Threads : u # t => found'[u] = << >>
      BY <2>1, <3>2 DEF XInv, OInv, IInv, TypeInv
    <3>4. InHands = 0
      BY <2>1, <3>2, OneHand DEF InHands
    <3>5. InHands' = 1
      BY <3>1, <3>3, OneHand DEF InHands
    <3>6. Have = {}
      BY <2>1, <3>1, <3>2 DEF Have
    <3>7. Have' = {c}
      BY <3>1, <3>3 DEF Have
    <3>8. Kept' = Kept /\ InCache' = InCache
      BY <2>1 DEF Kept, InCache
    <3> QED
      BY <3>4, <3>5, <3>6, <3>7, <3>8
  <2>2. CASE cachedCompletions' = Append(cachedCompletions, c) /\ UNCHANGED found
    <3>1. cachedCompletions \in Seq(Completion)
      BY DEF XInv, OInv, IInv, TypeInv
    <3>2. Kept' = Kept \cup {c}
      BY <1>5, <2>2, <3>1, SetOfAppend DEF Kept
    <3>3. InCache' = InCache + 1
      BY <1>5, <2>2, <3>1, AppendProperties DEF InCache
    <3>4. Have' = Have /\ InHands' = InHands
      BY <2>2 DEF Have, InHands
    <3> QED
      BY <3>2, <3>3, <3>4
  <2> QED
    BY <1>2, <2>1, <2>2
<1>8. Accounted' /\ Apart' /\ Old'
  BY <1>2, <1>4, <1>6, <1>7 DEF XInv, Accounted, Apart, Old
<1>9. Counted'
  BY <1>4, <1>6, <1>7, CountsAreNumbers DEF XInv, Counted
<1>10. Finite'
  BY <1>2 DEF XInv, Finite
<1> QED
  BY <1>1, <1>8, <1>9, <1>10 DEF XInv

\* From the cache, or from the hands of the thread, to the caller.
LEMMA TakeCachedXInv ==
  ASSUME XInv, NEW t \in Threads, TakeCached(t)
  PROVE  XInv'
<1> DEFINE i == Oldest(Cached(t))
<1>1. OInv'
  BY TakeCachedOInv DEF XInv
<1>2. /\ guard = NoThread /\ Cached(t) # {}
      /\ waited' = Append(waited, cachedCompletions[i])
      /\ cachedCompletions' = Without(cachedCompletions, i)
      /\ found' = [found EXCEPT ![t] = << >>]
      /\ UNCHANGED << queue, completed, polled, refused, dropped >>
  BY DEF TakeCached, Leave, hwVars
<1>3. /\ cachedCompletions \in Seq(Completion) /\ waited \in Seq(Completion)
      /\ Ordered(cachedCompletions)
  BY DEF XInv, OInv, IInv, TypeInv, Sorted
<1>4. i \in Cached(t)
  <2>1. Cached(t) \in SUBSET Nat
    BY <1>3 DEF Cached
  <2> QED
    BY <1>2, <2>1, OldestLeast
<1> HIDE DEF i
<1>5. i \in DOMAIN cachedCompletions /\ cachedCompletions[i] \in Completion
  BY <1>3, <1>4 DEF Cached
<1> DEFINE c == cachedCompletions[i]
<1>6. /\ Len(Without(cachedCompletions, i)) = Len(cachedCompletions) - 1
      /\ SetOf(Without(cachedCompletions, i)) =
           { cachedCompletions[j] : j \in DOMAIN cachedCompletions \ {i} }
  BY <1>3, <1>5, OrderedWithout
<1>7. InCache' = InCache - 1 /\ Kept = Kept' \cup {c}
  <2>1. InCache' = InCache - 1
    BY <1>2, <1>6 DEF InCache
  <2>2. Kept' = { cachedCompletions[j] : j \in DOMAIN cachedCompletions \ {i} }
    BY <1>2, <1>6 DEF Kept
  <2>3. Kept = { cachedCompletions[j] : j \in DOMAIN cachedCompletions }
    BY DEF Kept, SetOf
  <2>4. Kept = Kept' \cup {c}
    <3>1. Kept \subseteq Kept' \cup {c}
      BY <2>2, <2>3
    <3>2. Kept' \subseteq Kept
      BY <2>2, <2>3
    <3>3. c \in Kept
      BY <1>5, <2>3
    <3> QED
      BY <3>1, <3>2, <3>3
  <2> QED
    BY <2>1, <2>4
<1>8. Given' = Given + 1 /\ Returned' = Returned \cup {c}
  BY <1>2, <1>3, <1>5, AppendProperties, SetOfAppend DEF Given, Returned
<1> HIDE DEF c
<1>9. Have' = Have /\ InHands' = InHands
  <2>1. \A u \in Threads : found[u] = << >>
    BY <1>2, CompletionAssumption DEF XInv, OInv, IInv, Mutex, Holder
  <2>2. found' = found
    BY <1>2, <2>1 DEF XInv, OInv, IInv, TypeInv
  <2> QED
    BY <2>2 DEF Have, InHands
<1>10. /\ Queued' = Queued /\ Gone' = Gone /\ Total' = Total /\ InQueues' = InQueues
       /\ Polled' = Polled /\ Refused' = Refused /\ Dropped' = Dropped
  BY <1>2 DEF Queued, Gone, Total, InQueues, InSend, InReceive, Polled, Refused, Dropped
<1>11. Accounted' /\ Apart' /\ Old'
  BY <1>2, <1>7, <1>8, <1>9, <1>10 DEF XInv, Accounted, Apart, Old
<1>12. Counted'
  BY <1>7, <1>8, <1>9, <1>10, CountsAreNumbers DEF XInv, Counted
<1>13. Finite'
  BY <1>2 DEF XInv, Finite
<1> QED
  BY <1>1, <1>11, <1>12, <1>13 DEF XInv

\* What a thread has in its hands, as it leaves.
LEMMA Hands ==
  ASSUME OInv, NEW t \in Threads, guard = t, found[t] # << >>, found' = [found EXCEPT ![t] = << >>]
  PROVE  /\ \E c \in Completion : found[t] = << c >> /\ Have = {c}
         /\ Have' = {} /\ InHands = 1 /\ InHands' = 0
<1>1. PICK c \in Completion : found[t] = << c >>
  BY OneElement DEF OInv, IInv, TypeInv
<1>2. SetOf(<< c >>) = {c} /\ SetOf(<< >>) = {}
  BY DEF SetOf
<1>3. \A u \in Threads : u # t => found[u] = << >>
  BY DEF OInv, IInv, Mutex, Holder
<1>4. \A u \in Threads : found'[u] = << >>
  BY <1>3 DEF OInv, IInv, TypeInv
<1>5. Have = {c} /\ Have' = {}
  BY <1>1, <1>2, <1>3, <1>4 DEF Have
<1>6. InHands = 1
  BY <1>3, OneHand DEF InHands
<1>7. InHands' = 0
  BY <1>4, NoHand DEF InHands
<1> QED
  BY <1>1, <1>5, <1>6, <1>7

LEMMA ReturnXInv ==
  ASSUME XInv, NEW t \in Threads, Return(t)
  PROVE  XInv'
<1>1. OInv'
  BY ReturnOInv DEF XInv
<1>2. /\ pc[t] = "drain" /\ found[t] # << >> /\ waited' = waited \o found[t]
      /\ found' = [found EXCEPT ![t] = << >>]
      /\ UNCHANGED << queue, completed, cachedCompletions, polled, refused, dropped >>
  BY DEF Return, Leave, hwVars
<1>3. PICK c \in Completion : /\ found[t] = << c >> /\ Have = {c}
                              /\ Have' = {} /\ InHands = 1 /\ InHands' = 0
  <2>1. guard = t
    BY <1>2 DEF XInv, OInv, IInv, Mutex
  <2> QED
    BY <1>2, <2>1, Hands DEF XInv
<1>4. waited \in Seq(Completion) /\ waited' = Append(waited, c)
  BY <1>2, <1>3, AppendIsConcat DEF XInv, OInv, Sorted
<1>5. Given' = Given + 1 /\ Returned' = Returned \cup {c}
  BY <1>3, <1>4, AppendProperties, SetOfAppend DEF Given, Returned
<1>6. /\ Queued' = Queued /\ Kept' = Kept /\ Gone' = Gone /\ Total' = Total
      /\ InQueues' = InQueues /\ InCache' = InCache
      /\ Polled' = Polled /\ Refused' = Refused /\ Dropped' = Dropped
  BY <1>2 DEF Queued, Kept, Gone, Total, InQueues, InSend, InReceive, InCache, Polled, Refused,
              Dropped
<1>7. Accounted' /\ Apart' /\ Old'
  BY <1>2, <1>3, <1>5, <1>6 DEF XInv, Accounted, Apart, Old
<1>8. Counted'
  BY <1>3, <1>5, <1>6, CountsAreNumbers DEF XInv, Counted
<1>9. Finite'
  BY <1>2 DEF XInv, Finite
<1> QED
  BY <1>1, <1>7, <1>8, <1>9 DEF XInv

\* An exception: the completion with an error is gone, and what had been found before it.
LEMMA ThrowXInv ==
  ASSUME XInv, NEW t \in Threads, Throw(t)
  PROVE  XInv'
<1> DEFINE c == Head(queue[event[t]])
<1>1. OInv'
  BY LeaveQueueOInv DEF XInv
<1>2. /\ pc[t] = "drain" /\ queue[event[t]] # << >>
      /\ queue' = [queue EXCEPT ![event[t]] = Tail(@)]
      /\ dropped' = dropped \cup {c} \cup SetOf(found[t])
      /\ found' = [found EXCEPT ![t] = << >>]
      /\ UNCHANGED << completed, cachedCompletions, waited, polled, refused >>
  BY DEF Throw, Leave
<1>3. event[t] \in Queues /\ guard = t
  BY <1>2 DEF XInv, OInv, IInv, TypeInv, Mutex
<1>4. /\ Queued = {c} \cup Queued' /\ c \notin Queued' /\ c \notin Have /\ c \notin Gone
      /\ InQueues' = InQueues - 1
  BY <1>2, <1>3, HeadApart, HeadCounts
<1> HIDE DEF c
<1>5. Have = SetOf(found[t])
  BY <1>3, OwnerHas DEF XInv
<1>6. IsFiniteSet(dropped) /\ c \notin dropped /\ IsFiniteSet(dropped \cup {c})
      /\ Cardinality(dropped \cup {c}) = Dropped + 1
  BY <1>4, OneMore DEF XInv, Finite, Gone, Dropped
<1>7. /\ Have' = {} /\ InHands' = 0 /\ Have \cap Queued' = {}
      /\ IsFiniteSet(dropped') /\ Dropped' = Dropped + 1 + InHands
  <2>1. CASE found[t] = << >>
    <3>1. SetOf(<< >>) = {}
      BY DEF SetOf
    <3>2. dropped' = dropped \cup {c} /\ Have = {}
      BY <1>2, <1>5, <2>1, <3>1
    <3>3. found' = found
      BY <1>2, <2>1 DEF XInv, OInv, IInv, TypeInv
    <3>4. \A u \in Threads : u # t => found[u] = << >>
      BY <1>3 DEF XInv, OInv, IInv, Mutex, Holder
    <3>5. InHands = 0
      BY <2>1, <3>4, OneHand DEF InHands
    <3>6. Have' = Have /\ InHands' = InHands
      BY <3>3 DEF Have, InHands
    <3>7. Dropped' = Dropped + 1 /\ IsFiniteSet(dropped')
      BY <1>6, <3>2 DEF Dropped
    <3> QED
      BY <3>2, <3>5, <3>6, <3>7, CountsAreNumbers
  <2>2. CASE found[t] # << >>
    <3>1. PICK f \in Completion : /\ found[t] = << f >> /\ Have = {f}
                                  /\ Have' = {} /\ InHands = 1 /\ InHands' = 0
      BY <1>2, <1>3, <2>2, Hands DEF XInv
    <3>2. f \notin Queued
      <4>1. f.age \in Nat
        BY <3>1, AgesAreNumbers DEF XInv
      <4> QED
        BY <3>1, <4>1 DEF XInv, OInv, Staged, Before
    <3>3. f \notin dropped \cup {c}
      BY <1>4, <3>1 DEF XInv, Apart, Gone
    <3>4. dropped' = (dropped \cup {c}) \cup {f}
      BY <1>2, <1>5, <3>1
    <3>5. IsFiniteSet(dropped') /\ Dropped' = (Dropped + 1) + 1
      BY <1>6, <3>3, <3>4, OneMore DEF Dropped
    <3> QED
      BY <1>4, <3>1, <3>2, <3>5, CountsAreNumbers
  <2> QED
    BY <2>1, <2>2
<1>8. /\ Kept' = Kept /\ Returned' = Returned /\ Gone' = Gone \cup {c} \cup Have
  BY <1>2, <1>5 DEF Kept, Returned, Gone
<1>9. /\ Total' = Total /\ InCache' = InCache /\ Given' = Given
      /\ Polled' = Polled /\ Refused' = Refused
  BY <1>2 DEF Total, InCache, Given, Polled, Refused
<1>10. Accounted' /\ Apart' /\ Old'
  BY <1>2, <1>4, <1>7, <1>8, <1>9 DEF XInv, Accounted, Apart, Old
<1>11. Counted'
  BY <1>4, <1>7, <1>9, CountsAreNumbers DEF XInv, Counted
<1>12. Finite'
  BY <1>2, <1>7 DEF XInv, Finite
<1> QED
  BY <1>1, <1>10, <1>11, <1>12 DEF XInv

LEMMA NextXInv == XInv /\ [Next]_vars => XInv'
<1> SUFFICES ASSUME XInv, [Next]_vars PROVE XInv'
  OBVIOUS
<1>1. OInv'
  BY NextOInv DEF XInv
<1>2. ASSUME NEW q \in Queues, NEW ok \in BOOLEAN, NEW o \in Opcodes(q), Complete(q, ok, o)
      PROVE  XInv'
  BY <1>2, CompleteXInv
<1>3. ASSUME NEW t \in Threads, NEW w \in Wants, Call(t, w)
      PROVE  XInv'
  BY <1>1, <1>3, NothingCounted DEF Call, hwVars
<1>4. ASSUME NEW t \in Threads, Step(t)
      PROVE  XInv'
  <2>1. CASE TakeCached(t) \/ Keep(t) \/ Throw(t) \/ Return(t)
    BY <2>1, TakeCachedXInv, KeepXInv, ThrowXInv, ReturnXInv
  <2>2. CASE NotCached(t) \/ GetEvent(t) \/ Arm(t) \/ WaitAgain(t)
    BY <1>1, <2>2, NothingCounted DEF NotCached, GetEvent, Arm, WaitAgain, hwVars
  <2>3. CASE Spun(t)
    <3>1. want[t].onlySend \in Queues
      BY WantedQueue DEF XInv, OInv
    <3> QED
      BY <1>1, <2>3, <3>1, TakenXInv DEF Spun
  <2> QED
    BY <1>4, <2>1, <2>2, <2>3 DEF Step
<1>5. ASSUME NEW t \in Pollers, NEW q \in Queues,
             PollBlocking(t, q) \/ \E types \in PollTypes(q) : Poll(t, q, types)
      PROVE  XInv'
  <2>1. CASE PollBlocking(t, q)
    BY <1>1, <2>1, NothingCounted DEF PollBlocking, hwVars
  <2>2. ASSUME NEW types \in PollTypes(q), Poll(t, q, types)
        PROVE  XInv'
    BY <1>1, <2>2, TakenXInv DEF Poll
  <2> QED
    BY <1>5, <2>1, <2>2
<1>6. CASE UNCHANGED vars
  BY <1>1, <1>6, NothingCounted DEF vars, hwVars
<1> QED
  BY <1>2, <1>3, <1>4, <1>5, <1>6 DEF Next

-----------------------------------------------------------------------------
\* However many threads wait and poll: no completion is lost on its way through queue, cache
\* and result but by an exception of waitForCompletion(), or a poll that did not expect it,
\* and none is handed out twice.
THEOREM OnceEach == Spec => []EachOnce
<1>1. XInv => EachOnce
  <2> SUFFICES ASSUME XInv PROVE EachOnce
    OBVIOUS
  <2>1. Queued = SetOf(queue[TRUE]) \cup SetOf(queue[FALSE])
    BY Zenon DEF Queued, Queues
  <2>2. SetOf(completed) = SetOf(queue[TRUE]) \cup SetOf(queue[FALSE]) \cup Kept \cup Have
                             \cup Returned \cup polled \cup refused \cup dropped
    BY <2>1 DEF XInv, Accounted, Gone
  <2>3. Total = InSend + InReceive + InCache + InHands + Given + Polled + Refused + Dropped
    BY DEF XInv, Counted, InQueues
  <2> QED
    BY <2>2, <2>3 DEF EachOnce, Kept, Have, Returned, InSend, InReceive, InCache, InHands, Given,
                      Total, Polled, Refused, Dropped
<1> QED
  BY <1>1, InitXInv, NextXInv, PTL DEF Spec

-----------------------------------------------------------------------------
(* The safety half of WaiterServed.                                        *)

\* While a thread is blocked on an empty channel, both queues are armed, so that the
\* next completion of either wakes it; nothing it asked for lies in the cache, which it does
\* not look at again; and, until a waitForCompletion() has thrown, nothing lies in
\* a queue either.
SleepsForCause ==
  \A t \in Threads : pc[t] = "event" /\ events = << >> =>
    /\ \A q \in Queues : armed[q]
    /\ Cached(t) = {} /\ found[t] = << >>
    /\ dropped = {} => \A q \in Queues : queue[q] = << >>

\* However many threads wait and poll, nobody is blocked in ibv_get_cq_event before a
\* completion that is already there, in a queue or in what another thread has put aside.
THEOREM NobodySleepsInVain == Spec => []SleepsForCause
<1>1. OInv => SleepsForCause
  <2> SUFFICES ASSUME OInv, NEW t \in Threads, pc[t] = "event", events = << >>
               PROVE  /\ \A q \in Queues : armed[q]
                      /\ Cached(t) = {} /\ found[t] = << >>
                      /\ dropped = {} => \A q \in Queues : queue[q] = << >>
    BY DEF SleepsForCause
  <2>1. SetOf(events) = {}
    BY DEF SetOf
  <2>2. \A u \in Threads : pc[u] \notin {"arm", "drain"}
    <3> SUFFICES ASSUME NEW u \in Threads, pc[u] \in {"arm", "drain"} PROVE FALSE
      OBVIOUS
    <3>1. guard = t /\ guard = u
      BY DEF OInv, IInv, Mutex
    <3> QED
      BY <3>1
  <2>3. \A q \in Queues : armed[q]
    BY <2>1, <2>2 DEF OInv, IInv, Disarmed
  <2>4. found[t] = << >>
    BY <2>2 DEF OInv, Holder
  <2>5. Cached(t) = {}
    BY <2>4 DEF OInv, Holder, Cached, Kept, SetOf
  <2>6. dropped = {} => \A q \in Queues : queue[q] = << >>
    BY <2>1, <2>2 DEF OInv, IInv, NoLostWakeupUnlessThrown, NoLostWakeup
  <2> QED
    BY <2>3, <2>4, <2>5, <2>6
<1> QED
  BY <1>1, InitOInv, NextOInv, PTL DEF Spec
=============================================================================
