-------------------------- MODULE ConnectionSetup --------------------------
(***************************************************************************)
(* Both sides of a connection construct an RDMAMessageBuffer.  Each tells  *)
(* the other the address of its queue pair, then the keys of its memory,   *)
(* over the TCP connection that RDMA is to replace, and takes what it      *)
(* reads there for what the other one has to tell.  After that nobody asks *)
(* whether the far side is ready: the first write must find a connected    *)
(* queue pair and registered memory, because there are no retries.         *)
(***************************************************************************)
EXTENDS Integers, Sequences, VerbsResources

CONSTANTS
  Sides,
  Pieces,              \* whether TCP may deliver what one send() wrote in pieces
  MaxAppWrites         \* bound of the model: fall-back writes of each application

ASSUME SidesAssumption ==
  /\ \E a, b \in Sides : a # b /\ Sides = {a, b}
  /\ Pieces \in BOOLEAN /\ MaxAppWrites \in Nat

Peer(s) == CHOOSE p \in Sides : p # s

VARIABLES
  pc,                  \* the next step of a side's constructor, "ready", "failed", "ended"
  stream,              \* TCP: what is on its way to a side or waits there to be read
  closed,              \* TCP: a side's socket is closed
  addr,                \* local variable of exchangeQPNAndConnect
  rmrInfo,             \* what remoteReceive and remoteReadPos are set from
  qp,                  \* state of the queue pair
  dest,                \* the address it is connected to
  made,                \* steps of VerbsResources the constructor has made
  held,                \* what the side holds of the verbs library
  posted,              \* history: the fate of a side's last write
  appRead,             \* history: what an application read from the socket
  appWrites            \* and how often it wrote there

vars == << pc, stream, closed, addr, rmrInfo, qp, dest, made, held, posted, appRead, appWrites >>

\* A struct is sent and received in units, two of them.
Unit(what, s, i) == [what |-> what, of |-> s, part |-> i]
Struct(what, s)  == << Unit(what, s, 1), Unit(what, s, 2) >>
Zeros(s)         == Struct("zero", s)

Init ==
  /\ pc = [s \in Sides |-> "create"]
  /\ stream = [s \in Sides |-> << >>] /\ closed = [s \in Sides |-> FALSE]
  /\ addr = [s \in Sides |-> Zeros(s)] /\ rmrInfo = [s \in Sides |-> Zeros(s)]
  /\ qp = [s \in Sides |-> "none"] /\ dest = [s \in Sides |-> Zeros(s)]
  /\ made = [s \in Sides |-> 0] /\ held = [s \in Sides |-> {}]
  /\ posted = [s \in Sides |-> "none"]
  /\ appRead = [s \in Sides |-> << >>] /\ appWrites = [s \in Sides |-> 0]

\* The order of the constructor, members first.  Slips: the queue pair connected
\* when all is exchanged; the keys of the other side not read; reading first.
AfterLate ==
  [create |-> "writeAddress", writeAddress |-> "readAddress", readAddress |-> "register",
   register |-> "writeRmr", writeRmr |-> "readRmr", readRmr |-> "connect", connect |-> "ready"]
AfterUnread ==
  [create |-> "writeAddress", writeAddress |-> "readAddress", readAddress |-> "connect",
   connect |-> "register", register |-> "writeRmr", writeRmr |-> "ready", readRmr |-> "ready"]
AfterReadFirst ==
  [create |-> "readAddress", readAddress |-> "writeAddress", writeAddress |-> "connect",
   connect |-> "register", register |-> "writeRmr", writeRmr |-> "readRmr", readRmr |-> "ready"]

After ==
  [create |-> "writeAddress", writeAddress |-> "readAddress", readAddress |-> "connect",
   connect |-> "register", register |-> "writeRmr", writeRmr |-> "readRmr", readRmr |-> "ready"]

SetOf(seq) == { seq[i] : i \in DOMAIN seq }

Goto(s, step) == pc' = [pc EXCEPT ![s] = step]

\* Slip: the queue pair is left behind.
FailMutant(s) ==
  /\ Goto(s, "failed")
  /\ held' = [held EXCEPT ![s] = @ \ SetOf(Unwind(made[s]))]
  /\ UNCHANGED << qp, made >>

\* An exception destroys the objects that are complete.
Fail(s) ==
  /\ Goto(s, "failed")
  /\ held' = [held EXCEPT ![s] = @ \ SetOf(Unwind(made[s]))]
  /\ qp' = [qp EXCEPT ![s] = "none"]
  /\ UNCHANGED made

-----------------------------------------------------------------------------
(* TCP, and tcp_write and tcp_read on top of it.                           *)

\* recv(): what is there, at most n; 0 at the end of the stream.  Otherwise it blocks.
Received(s, n) ==
  LET there == IF Len(stream[s]) < n THEN Len(stream[s]) ELSE n
  IN  IF there = 0 THEN IF closed[Peer(s)] THEN {0} ELSE {}
      ELSE IF Pieces THEN 1 .. there ELSE {there}

\* tcp_read looks at the sign of recv()'s result only: the k units that have come
\* are put over the front of the struct.
Filled(s, struct, k) == [i \in 1 .. Len(struct) |-> IF i <= k THEN stream[s][i] ELSE struct[i]]
Consume(s, k) == stream' = [stream EXCEPT ![s] = SubSeq(@, k + 1, Len(@))]

Written(s, units) == stream' = [stream EXCEPT ![Peer(s)] = @ \o units]

TcpWrite(s, units) ==
  /\ Written(s, units)
  /\ Goto(s, After[pc[s]])
  /\ UNCHANGED << qp, made, held >>

-----------------------------------------------------------------------------
(* The constructor.                                                        *)

\* One step of VerbsResources.
Make(s) ==
  /\ made' = [made EXCEPT ![s] = @ + 1]
  /\ held' = [held EXCEPT ![s] = @ \cup Acquires(made[s] + 1)]

\* Network, CompletionQueuePair and QueuePair.
Create(s) ==
  /\ pc[s] = "create"
  /\ Make(s)
  /\ IF made'[s] = QpStep
     THEN /\ Goto(s, After[pc[s]])
          /\ qp' = [qp EXCEPT ![s] = "RESET"]
          /\ addr' = [addr EXCEPT ![s] = Struct("address", s)]
     ELSE UNCHANGED << pc, qp, addr >>
  /\ UNCHANGED << stream, closed, rmrInfo, dest, posted, appRead, appWrites >>

\* exchangeQPNAndConnect writes addr and reads the answer into it.
WriteAddress(s) ==
  /\ pc[s] = "writeAddress"
  /\ TcpWrite(s, addr[s])
  /\ UNCHANGED << closed, addr, rmrInfo, dest, posted, appRead, appWrites >>

ReadAddress(s) ==
  /\ pc[s] = "readAddress"
  /\ \E k \in Received(s, 2) :
       /\ addr' = [addr EXCEPT ![s] = Filled(s, @, k)]
       /\ Consume(s, k)
  /\ Goto(s, After[pc[s]])
  /\ UNCHANGED << closed, rmrInfo, qp, dest, made, held, posted, appRead, appWrites >>

\* QueuePair::connect, one ibv_modify_qp after the other.
NextState == [RESET |-> "INIT", INIT |-> "RTR", RTR |-> "RTS"]

ModifyQp(s) ==
  /\ pc[s] = "connect"
  /\ qp' = [qp EXCEPT ![s] = NextState[@]]
  /\ dest' = IF qp[s] = "INIT" THEN [dest EXCEPT ![s] = addr[s]] ELSE dest
  /\ pc' = IF qp[s] = "RTR" THEN [pc EXCEPT ![s] = After[@]] ELSE pc
  /\ UNCHANGED << stream, closed, addr, rmrInfo, made, held, posted, appRead, appWrites >>

\* The memory regions of the buffers and of the positions; the check of the size.
Register(s) ==
  /\ pc[s] = "register"
  /\ Make(s)
  /\ pc' = IF made'[s] = LastStep THEN [pc EXCEPT ![s] = After[@]] ELSE pc
  /\ UNCHANGED << stream, closed, addr, rmrInfo, qp, dest, posted, appRead, appWrites >>

WriteRmr(s) ==
  /\ pc[s] = "writeRmr"
  /\ TcpWrite(s, Struct("rmr", s))
  /\ UNCHANGED << closed, addr, rmrInfo, dest, posted, appRead, appWrites >>

ReadRmr(s) ==
  /\ pc[s] = "readRmr"
  /\ \E k \in Received(s, 2) :
       /\ rmrInfo' = [rmrInfo EXCEPT ![s] = Filled(s, Zeros(s), k)]
       /\ Consume(s, k)
  /\ Goto(s, After[pc[s]])
  /\ UNCHANGED << closed, addr, qp, dest, made, held, posted, appRead, appWrites >>

\* A call fails.  Of the verbs library (before the address is written, that is
\* getLID()), or send() or recv(): a reset, or a signal while recv() blocks, makes
\* tcp_write and tcp_read throw.
Throw(s) ==
  /\ pc[s] \notin {"ready", "failed", "ended"}
  /\ Fail(s)
  /\ UNCHANGED << stream, closed, addr, rmrInfo, dest, posted, appRead, appWrites >>

-----------------------------------------------------------------------------
(* What comes after.                                                       *)

\* A write is placed if the far queue pair is connected to this one and can
\* receive, and the key and the address are those of memory registered there.
Lands(s) ==
  /\ dest[s] = Struct("address", Peer(s)) /\ rmrInfo[s] = Struct("rmr", Peer(s))
  /\ qp[s] = "RTS" /\ qp[Peer(s)] \in {"RTR", "RTS"}
  /\ dest[Peer(s)] = Struct("address", s)
  /\ { "mrReceive", "mrReadPos" } \subseteq held[Peer(s)]

\* The card carries out a write.  The first that is lost is an error of the queue
\* pair, which discards all that come after it.
Post(s) ==
  /\ pc[s] = "ready"
  /\ posted' = [posted EXCEPT ![s] = IF @ # "lost" /\ Lands(s) THEN "landed" ELSE "lost"]
  /\ UNCHANGED << pc, stream, closed, addr, rmrInfo, qp, dest, made, held, appRead, appWrites >>

\* The process ends, because nobody caught the exception or for another reason.
Exit(s) ==
  /\ pc[s] # "ended"
  /\ closed' = [closed EXCEPT ![s] = TRUE]
  /\ Goto(s, "ended")
  /\ held' = [held EXCEPT ![s] = {}]
  /\ qp' = [qp EXCEPT ![s] = "none"]
  /\ UNCHANGED << made, stream, addr, rmrInfo, dest, posted, appRead, appWrites >>

\* Or the application goes on with the socket.
AppWrite(s) ==
  /\ pc[s] = "failed" /\ appWrites[s] < MaxAppWrites
  /\ Written(s, << Unit("app", s, 0) >>)
  /\ appWrites' = [appWrites EXCEPT ![s] = @ + 1]
  /\ UNCHANGED << pc, closed, addr, rmrInfo, qp, dest, made, held, posted, appRead >>

AppRead(s) ==
  /\ pc[s] = "failed" /\ stream[s] # << >>
  /\ appRead' = [appRead EXCEPT ![s] = Append(@, Head(stream[s]))]
  /\ stream' = [stream EXCEPT ![s] = Tail(@)]
  /\ UNCHANGED << pc, closed, addr, rmrInfo, qp, dest, made, held, posted, appWrites >>

Proceed(s) ==
  \/ Create(s) \/ WriteAddress(s) \/ ReadAddress(s) \/ ModifyQp(s)
  \/ Register(s) \/ WriteRmr(s) \/ ReadRmr(s)

Constructor(s) == Proceed(s) \/ Throw(s)

Next ==
  \E s \in Sides : Constructor(s) \/ Post(s) \/ Exit(s) \/ AppWrite(s) \/ AppRead(s)

Spec == Init /\ [][Next]_vars

\* Constructors run, and no call has to fail; a process whose constructor has thrown
\* comes to its end.
FairSpec ==
  /\ Spec
  /\ \A s \in Sides : WF_vars(Proceed(s)) /\ WF_vars(pc[s] = "failed" /\ Exit(s))

-----------------------------------------------------------------------------
(* Properties.                                                             *)

\* The variables keep their types; the steps of a constructor find the queue pair
\* in the state they need, and a failed one leaves no queue pair behind.
TypeOK ==
  /\ pc \in [Sides -> DOMAIN After \cup {"ready", "failed", "ended"}]
  /\ closed \in [Sides -> BOOLEAN] /\ made \in [Sides -> 0 .. LastStep]
  /\ held \in [Sides -> SUBSET (SetOf(Steps) \ Arming)]
  /\ \A s \in Sides :
       qp[s] \in CASE pc[s] \in {"create", "failed", "ended"}   -> {"none"}
                   [] pc[s] \in {"writeAddress", "readAddress"} -> {"RESET"}
                   [] pc[s] = "connect"                         -> {"RESET", "INIT", "RTR"}
                   [] OTHER                                     -> {"RTS"}

\* A side whose constructor has returned may write at once, and as long as it likes:
\* every write finds the far queue pair connected and the far memory registered
\* under the keys it was told, unless the far side has given up or ended by then.
WritesLand ==
  \A s \in Sides : posted[s] = "lost" => pc[Peer(s)] \in {"failed", "ended"}

\* Wherever a constructor is, an exception would free what is there in an order that
\* the verbs library accepts.  It refuses what is in use, and a destructor that
\* throws because of it ends the process.
UnwindsInOrder ==
  \A s \in Sides : pc[s] \notin {"failed", "ended"} => Orderly(held[s], Unwind(made[s]))

\* From the queue pair on, that is when the other side has a part in it, a failure
\* leaves nothing behind.  (Before that, an object that is not complete does.)
NothingHeldAfterFailure ==
  \A s \in Sides : pc[s] = "failed" /\ made[s] >= QpStep => held[s] = {}

\* When both constructors have returned, nothing of their talk is left in the socket.
NoLeftovers ==
  (\A s \in Sides : pc[s] = "ready") => (\A s \in Sides : stream[s] = << >>)

\* Every constructor returns or throws, whether the other one does or not.
Settles == \A s \in Sides : <>(pc[s] \in {"ready", "failed", "ended"})

\* Writeup.md: "we can always fall back to the TCP connection, if anything goes
\* wrong".  Then the applications must find nothing but each other's data there.
FallsBack ==
  \A s \in Sides : \A i \in DOMAIN appRead[s] : appRead[s][i].what = "app"
=============================================================================
