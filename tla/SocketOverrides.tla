-------------------------- MODULE SocketOverrides --------------------------
(***************************************************************************)
(* The overridden socket functions in the processes of one program.  A     *)
(* descriptor that accept() or connect() found to lead to a host reachable *)
(* by RDMA is marked; the first read() or write() on it, in a process of   *)
(* the fork generation named by RDMA_FORKGEN, opens a message buffer over  *)
(* its TCP connection, and all later ones go to that buffer.  Marks and    *)
(* buffers are kept by descriptor number, and fork() copies both.  The     *)
(* other calls that send and receive come to read() and write(), or leave  *)
(* for the socket on the way.                                              *)
(***************************************************************************)
EXTENDS Integers, FiniteSets

CONSTANTS
  Procs, Root,         \* processes, and the one that is there at first
  Fds,                 \* descriptor numbers accept() and socket() may give out
  Conns, Streams,      \* connections; those of a SOCK_STREAM socket in AF_INET
  Peer, RdmaHost,      \* the host a connection leads to; the host USE_RDMA names
  None,                \* no connection
  Terminal,            \* what descriptor 0 is open on
  ForkGen,             \* RDMA_FORKGEN
  MaxAlive             \* bound of the model: processes at a time

ASSUME DescriptorAssumption ==
  /\ Root \in Procs /\ Fds \subseteq Nat \ {0}
  /\ None \notin Conns /\ Terminal \notin Conns /\ None # Terminal
  /\ ForkGen \in Nat /\ MaxAlive \in Nat

VARIABLES
  alive,               \* processes that exist
  open,                \* kernel: what a descriptor of a process is open on
  bridge,              \* by descriptor: the connection of its message buffer, or None
  nullEntry,           \* descriptors whose entry in bridge holds no buffer
  rdmableSockets,      \* the marks
  forkGeneration,
  setup,               \* calls the constructor has still to make, and its descriptor
  handles,             \* the application: [fd, conn], as accept() and connect() told it
  user,                \* the application: the process that uses a connection
  depth,               \* the application: how many fork() lie between Root and a process
  past,                \* history: what a number has been used for in a process
  last                 \* history: where the last step, sending or receiving, went

\* shouldServerIntercept() and shouldClientIntercept(): only a TCP socket, and only to
\* the one host.  USE_RDMA unset is the address 0, which is no host's.
isTcpSocket(c) == c \in Streams
Reachable      == { c \in Conns : isTcpSocket(c) /\ Peer[c] = RdmaHost }

libVars == << bridge, nullEntry, rdmableSockets, forkGeneration, setup >>
vars    == << alive, open, libVars, handles, user, depth, past, last >>

Idle       == [fd |-> 0, left |-> 0]
SetupCalls == 4             \* tcp_write and tcp_read, for the address and for the keys
NoCall     == [fd |-> 0, conn |-> None, via |-> "socket", to |-> None, plain |-> TRUE, stale |-> FALSE]

\* The kernel gives out the lowest number that is free.
Free(p, fd)   == open[p][fd] = None
Lowest(p, fd) == Free(p, fd) /\ \A g \in Fds : Free(p, g) => fd <= g

Init ==
  /\ alive = {Root}
  /\ open = [p \in Procs |-> [fd \in Fds \cup {0} |-> IF fd = 0 THEN Terminal ELSE None]]
  /\ bridge = [p \in Procs |-> [fd \in Fds \cup {0} |-> None]]
  /\ nullEntry = [p \in Procs |-> {}] /\ rdmableSockets = [p \in Procs |-> {}]
  /\ forkGeneration = [p \in Procs |-> 0]
  /\ setup = [p \in Procs |-> Idle]
  /\ handles = [p \in Procs |-> {}]
  /\ user = [c \in Conns |-> None] /\ depth = [p \in Procs |-> 0]
  /\ past = [p \in Procs |-> [fd \in Fds |-> "fresh"]] /\ last = NoCall

Running(p) == p \in alive /\ setup[p] = Idle

\* A connection has not been accepted or connected yet.
Fresh(c) == \A p \in Procs, fd \in Fds : open[p][fd] # c /\ [fd |-> fd, conn |-> c] \notin handles[p]

\* A number is "fresh" until a connection to be intercepted is given it, "led" until that
\* is used in the process (or was, before a fork(), in its parent), and then "used".  It
\* is "stale" once a connection gets it that comes after a used one, or that is not to be
\* intercepted and comes after one that is.
PastWith(was, c) ==
  IF c \in Reachable THEN (IF was \in {"fresh", "led"} THEN "led" ELSE "stale")
  ELSE IF was = "fresh" THEN "fresh" ELSE "stale"

Given(p, fd, c) == past' = [past EXCEPT ![p][fd] = PastWith(@, c)]

\* A process has not been there before, or has not used a connection.
New(q) == q \notin alive /\ \A c \in Conns : user[c] # q

-----------------------------------------------------------------------------
(* Descriptors.                                                            *)

\* accept() answers with SUCCESS, 0, when it does not intercept the connection.
Accept(p, fd, c) ==
  /\ Running(p) /\ Fresh(c) /\ user[c] = None
  /\ Lowest(p, fd) /\ Given(p, fd, c)
  /\ open' = [open EXCEPT ![p][fd] = c]
  /\ IF c \in Reachable
     THEN /\ rdmableSockets' = [rdmableSockets EXCEPT ![p] = @ \cup {fd}]
          /\ handles' = [handles EXCEPT ![p] = @ \cup {[fd |-> fd, conn |-> c]}]
     ELSE /\ handles' = [handles EXCEPT ![p] = @ \cup {[fd |-> 0, conn |-> c]}]
          /\ UNCHANGED rdmableSockets
  /\ last' = NoCall
  /\ UNCHANGED << alive, bridge, nullEntry, forkGeneration, setup, user, depth >>

\* socket() and connect().
Connect(p, fd, c) ==
  /\ Running(p) /\ Fresh(c) /\ user[c] = None
  /\ Lowest(p, fd) /\ Given(p, fd, c)
  /\ open' = [open EXCEPT ![p][fd] = c]
  /\ rdmableSockets' =
       IF c \in Reachable THEN [rdmableSockets EXCEPT ![p] = @ \cup {fd}] ELSE rdmableSockets
  /\ handles' = [handles EXCEPT ![p] = @ \cup {[fd |-> fd, conn |-> c]}]
  /\ last' = NoCall
  /\ UNCHANGED << alive, bridge, nullEntry, forkGeneration, setup, user, depth >>

\* close(): dontCloseRDMA is true from the start and stays so; the mark is left too.
Close(p, h) ==
  /\ Running(p) /\ h \in handles[p] /\ h.fd # 0
  /\ open' = [open EXCEPT ![p][h.fd] = None]
  /\ handles' = [handles EXCEPT ![p] = @ \ {h}]
  /\ last' = NoCall
  /\ UNCHANGED << alive, libVars, user, depth, past >>

\* Slip: the parent counts as well.
ForkMutant(p, q) ==
  /\ Running(p) /\ New(q) /\ depth[p] < ForkGen /\ Cardinality(alive) < MaxAlive
  /\ alive' = alive \cup {q}
  /\ open' = [open EXCEPT ![q] = open[p]]
  /\ bridge' = [bridge EXCEPT ![q] = bridge[p]]
  /\ nullEntry' = [nullEntry EXCEPT ![q] = nullEntry[p]]
  /\ rdmableSockets' = [rdmableSockets EXCEPT ![q] = rdmableSockets[p]]
  /\ handles' = [handles EXCEPT ![q] = handles[p]]
  /\ forkGeneration' = [forkGeneration EXCEPT ![q] = forkGeneration[p] + 1, ![p] = @ + 1]
  /\ depth' = [depth EXCEPT ![q] = depth[p] + 1]
  /\ past' = [past EXCEPT ![q] = past[p]]
  /\ last' = NoCall
  /\ UNCHANGED << setup, user >>

\* fork(): the child is one generation on.  README.md: "You need to know in which
\* generation your program stops to fork" - it does stop there.
Fork(p, q) ==
  /\ Running(p) /\ New(q) /\ depth[p] < ForkGen /\ Cardinality(alive) < MaxAlive
  /\ alive' = alive \cup {q}
  /\ open' = [open EXCEPT ![q] = open[p]]
  /\ bridge' = [bridge EXCEPT ![q] = bridge[p]]
  /\ nullEntry' = [nullEntry EXCEPT ![q] = nullEntry[p]]
  /\ rdmableSockets' = [rdmableSockets EXCEPT ![q] = rdmableSockets[p]]
  /\ handles' = [handles EXCEPT ![q] = handles[p]]
  /\ forkGeneration' = [forkGeneration EXCEPT ![q] = forkGeneration[p] + 1]
  /\ depth' = [depth EXCEPT ![q] = depth[p] + 1]
  /\ past' = [past EXCEPT ![q] = past[p]]
  /\ last' = NoCall
  /\ UNCHANGED << setup, user >>

-----------------------------------------------------------------------------
(* Calls that send or receive: how many buffers they name, whether they    *)
(* name an address, and their flags.  read() and write() are those with    *)
(* one buffer, no address and no flags.                                    *)

Flags     == {"none", "MSG_NOSIGNAL", "other"}
CallForms == [iovlen : {1, 2}, name : BOOLEAN, flags : Flags]

\* The calls that are no more than a read() or a write().
Plain == [iovlen : {1}, name : {FALSE}, flags : {"none", "MSG_NOSIGNAL"}]

\* Slip: send() and recv() know no flags at all.
UnflaggedMutant(call) == call.flags = "none"

\* send() and recv() pass a call on to write() and read() ...
Unflagged(call) == call.flags \in {"none", "MSG_NOSIGNAL"}
\* ... sendto() and recvfrom() to send() and recv() ...
Stream(call) == ~ call.name /\ Unflagged(call)
\* ... and sendmsg() and recvmsg() to those.  All others are for the socket.
ReadOrWrite(call) == call.iovlen = 1 /\ Stream(call)

Route(p, fd) ==
  IF bridge[p][fd] # None \/ fd \in nullEntry[p] THEN "buffer"
  ELSE IF forkGeneration[p] = ForkGen /\ fd \in rdmableSockets[p] THEN "open"
  ELSE "socket"

RouteOf(p, fd, call) == IF ReadOrWrite(call) THEN Route(p, fd) ELSE "socket"

\* The application uses a connection in one process only and, if it is one for
\* RDMA, in the generation it has named.
MayUse(p, h) ==
  /\ Running(p) /\ h \in handles[p]
  /\ user[h.conn] \in {None, p}
  /\ h.conn \in Reachable => depth[p] = ForkGen

Used(p, h, call, via, to) ==
  /\ user' = [user EXCEPT ![h.conn] = p]
  /\ last' = [fd |-> h.fd, conn |-> h.conn, via |-> via, to |-> to, plain |-> call \in Plain,
              stale |-> h.fd # 0 /\ past[p][h.fd] = "stale"]

ViaBuffer(p, h, call) ==
  /\ MayUse(p, h) /\ RouteOf(p, h.fd, call) = "buffer"
  /\ Used(p, h, call, "buffer", bridge[p][h.fd])
  /\ UNCHANGED << alive, open, libVars, handles, depth, past >>

ViaSocket(p, h, call) ==
  /\ MayUse(p, h) /\ RouteOf(p, h.fd, call) = "socket"
  /\ Used(p, h, call, "socket", open[p][h.fd])
  /\ UNCHANGED << alive, open, libVars, handles, depth, past >>

\* The mark goes, then the constructor runs.  C++14 does not say whether bridge[fd] has
\* made its entry before that.
OpenBuffer(p, h, call) ==
  /\ MayUse(p, h) /\ RouteOf(p, h.fd, call) = "open"
  /\ rdmableSockets' = [rdmableSockets EXCEPT ![p] = @ \ {h.fd}]
  /\ nullEntry' \in {nullEntry, [nullEntry EXCEPT ![p] = @ \cup {h.fd}]}
  /\ setup' = [setup EXCEPT ![p] = [fd |-> h.fd, left |-> SetupCalls]]
  /\ user' = [user EXCEPT ![h.conn] = p]
  /\ past' = [past EXCEPT ![p][h.fd] = IF @ = "led" THEN "used" ELSE @]
  /\ last' = NoCall
  /\ UNCHANGED << alive, open, bridge, forkGeneration, handles, depth >>

\* The constructor's own send() and recv() are the overridden ones.
SetupCall(p) ==
  /\ p \in alive /\ setup[p].left > 0 /\ Route(p, setup[p].fd) = "socket"
  /\ setup' = [setup EXCEPT ![p].left = @ - 1]
  /\ last' = NoCall
  /\ UNCHANGED << alive, open, bridge, nullEntry, rdmableSockets, forkGeneration, handles, user, depth, past >>

\* The buffer leads to where the exchange went; read() or write() starts again.
BufferReady(p) ==
  LET fd == setup[p].fd
  IN  /\ p \in alive /\ setup[p] # Idle /\ setup[p].left = 0
      /\ bridge' = [bridge EXCEPT ![p][fd] = open[p][fd]]
      /\ nullEntry' = [nullEntry EXCEPT ![p] = @ \ {fd}]
      /\ setup' = [setup EXCEPT ![p] = Idle]
      /\ last' = NoCall
      /\ UNCHANGED << alive, open, rdmableSockets, forkGeneration, handles, user, depth, past >>

\* The process ends; the kernel closes its descriptors.
EndsProcess(p) ==
  /\ alive' = alive \ {p}
  /\ setup' = [setup EXCEPT ![p] = Idle]
  /\ open' = [open EXCEPT ![p] = [fd \in DOMAIN @ |-> None]]
  /\ handles' = [handles EXCEPT ![p] = {}]
  /\ bridge' = [bridge EXCEPT ![p] = [fd \in DOMAIN @ |-> None]]
  /\ nullEntry' = [nullEntry EXCEPT ![p] = {}]
  /\ rdmableSockets' = [rdmableSockets EXCEPT ![p] = {}]
  /\ past' = [past EXCEPT ![p] = [fd \in Fds |-> "fresh"]]
  /\ last' = NoCall
  /\ UNCHANGED << forkGeneration, user, depth >>

Exit(p) == Running(p) /\ EndsProcess(p)

\* The constructor throws.  A program written for sockets has no handler.
Throw(p) == p \in alive /\ setup[p] # Idle /\ EndsProcess(p)

\* The constructor's first call finds the entry, and goes through its null pointer.
Dereference(p) ==
  p \in alive /\ setup[p].left > 0 /\ Route(p, setup[p].fd) = "buffer" /\ EndsProcess(p)

Next ==
  \/ \E p \in Procs, fd \in Fds, c \in Conns : Accept(p, fd, c) \/ Connect(p, fd, c)
  \/ \E p \in Procs : \E h \in handles[p] :
       \/ Close(p, h)
       \/ \E call \in CallForms :
            ViaBuffer(p, h, call) \/ ViaSocket(p, h, call) \/ OpenBuffer(p, h, call)
  \/ \E p, q \in Procs : Fork(p, q)
  \/ \E p \in Procs : SetupCall(p) \/ BufferReady(p) \/ Throw(p) \/ Dereference(p) \/ Exit(p)

Spec == Init /\ [][Next]_vars

-----------------------------------------------------------------------------
(* Properties.                                                             *)

TypeOK ==
  /\ alive \subseteq Procs
  /\ open \in [Procs -> [Fds \cup {0} -> Conns \cup {None, Terminal}]]
  /\ bridge \in [Procs -> [Fds \cup {0} -> Conns \cup {None, Terminal}]]
  /\ nullEntry \in [Procs -> SUBSET Fds] /\ rdmableSockets \in [Procs -> SUBSET Fds]
  /\ forkGeneration \in [Procs -> 0 .. ForkGen]
  /\ setup \in [Procs -> [fd : Fds \cup {0}, left : 0 .. SetupCalls]]
  /\ handles \in [Procs -> SUBSET [fd : Fds \cup {0}, conn : Conns]]
  /\ user \in [Conns -> Procs \cup {None}] /\ depth \in [Procs -> 0 .. ForkGen]
  /\ past \in [Procs -> [Fds -> {"fresh", "led", "used", "stale"}]]

\* overrides.h: "we can intercept messages that would be sent via TCP to a host also
\* reachable by RDMA".  What the application reads or writes on a connection goes to
\* that connection and no other, whether it is intercepted or not.  The 0 that accept()
\* hands out for a connection it does not intercept is not one of it.
ReachesItsConnection == last.fd # 0 => last.to = last.conn

\* As long as the number is not stale, for a parent that gets the same number again and
\* again as well as for its children, that is so; and it goes over RDMA if the host is
\* reachable by it - its library will not look at the socket any more - and over the
\* socket if not.  Calls that the library has on purpose left to the socket are not meant.
RightConnection ==
  last.fd # 0 /\ ~ last.stale =>
    /\ ReachesItsConnection
    /\ (last.conn \in Reachable => last.plain) =>
         last.via = (IF last.conn \in Reachable THEN "buffer" ELSE "socket")
=============================================================================
