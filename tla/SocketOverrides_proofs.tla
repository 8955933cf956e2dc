----------------------- MODULE SocketOverrides_proofs -----------------------
(***************************************************************************)
(* For any number of processes, descriptors, connections and generations,  *)
(* with numbers given out again as the kernel does it, and in whatever     *)
(* order bridge[fd] and the constructor are evaluated: as long as a number *)
(* is not stale, reads and writes on it reach the right connection.        *)
(***************************************************************************)
EXTENDS SocketOverrides, TLAPS

LEMMA ReachableConns == Reachable \subseteq Conns
  BY DEF Reachable

-----------------------------------------------------------------------------
(* The inductive invariant.                                                *)

\* What a number has been used for tells what the library remembers of it, unless it is
\* stale: nothing, or the mark of an open connection, or its buffer.
Remembered ==
  \A p \in Procs, fd \in Fds :
    /\ open[p][fd] # Terminal
    /\ past[p][fd] \in {"fresh", "led"} => bridge[p][fd] = None /\ setup[p].fd # fd
    /\ past[p][fd] = "fresh" => fd \notin rdmableSockets[p] /\ open[p][fd] \notin Reachable
    /\ past[p][fd] = "led" /\ open[p][fd] # None =>
         fd \in rdmableSockets[p] /\ open[p][fd] \in Reachable
    /\ past[p][fd] = "used" =>
         /\ fd \notin rdmableSockets[p]
         /\ open[p][fd] # None => /\ open[p][fd] \in Reachable
                                  /\ bridge[p][fd] = open[p][fd] \/ setup[p].fd = fd

\* Descriptor 0 is never bridged, and no entry of bridge lacks its buffer but the one
\* of a constructor at work.
NothingElse ==
  \A p \in Procs : bridge[p][0] = None /\ \A fd \in nullEntry[p] : setup[p].fd = fd

\* A descriptor the application holds is open on the connection it is held for.
Held == \A p \in Procs : \A h \in handles[p] : h.fd # 0 => open[p][h.fd] = h.conn

\* A constructor works in a process that is there.
InSetup == \A p \in Procs : setup[p] # Idle => p \in alive /\ setup[p].fd \in Fds

\* The library counts generations as the application does.
Counted == \A p \in Procs : forkGeneration[p] = depth[p]

IInv == TypeOK /\ Remembered /\ NothingElse /\ Held /\ InSetup /\ Counted /\ RightConnection

\* A step that sends and receives nothing.
LEMMA Quiet == ASSUME last' = NoCall PROVE RightConnection'
  BY DEF RightConnection, NoCall

-----------------------------------------------------------------------------
\* Initially no process has a connection.
LEMMA InitIInv == Init => IInv
<1> SUFFICES ASSUME Init PROVE IInv
  OBVIOUS
<1> USE DescriptorAssumption, ReachableConns DEF Init
<1>1. TypeOK
  BY DEF TypeOK, Idle, SetupCalls
<1>2. Remembered
  BY DEF Remembered, Idle
<1>3. NothingElse /\ Held
  BY DEF NothingElse, Held
<1>4. InSetup /\ Counted /\ RightConnection
  BY DEF InSetup, Counted, RightConnection, NoCall
<1> QED
  BY <1>1, <1>2, <1>3, <1>4 DEF IInv

\* accept() and connect(): the descriptor is open on the new connection, and marked if
\* that is to be intercepted; the application is told of it or, by accept(), of 0.
Opened(p, fd, c, n) ==
  /\ p \in Procs /\ fd \in Fds /\ c \in Conns /\ n \in {0, fd}
  /\ Running(p) /\ Lowest(p, fd) /\ Given(p, fd, c)
  /\ open' = [open EXCEPT ![p][fd] = c]
  /\ rdmableSockets' =
       IF c \in Reachable THEN [rdmableSockets EXCEPT ![p] = @ \cup {fd}] ELSE rdmableSockets
  /\ handles' = [handles EXCEPT ![p] = @ \cup {[fd |-> n, conn |-> c]}]
  /\ last' = NoCall
  /\ UNCHANGED << alive, bridge, nullEntry, forkGeneration, setup, user, depth >>

LEMMA OpenedIInv ==
  ASSUME IInv, NEW p, NEW fd, NEW c, NEW n, Opened(p, fd, c, n)
  PROVE  IInv'
<1> USE DEF IInv, Opened
<1>1. open[p][fd] = None /\ setup[p] = Idle /\ c # None /\ c # Terminal
  BY DescriptorAssumption, ReachableConns DEF Lowest, Free, Running
<1>2. TypeOK'
  <2>1. handles' \in [Procs -> SUBSET [fd : Fds \cup {0}, conn : Conns]]
    BY DEF TypeOK
  <2>2. open' \in [Procs -> [Fds \cup {0} -> Conns \cup {None, Terminal}]]
    BY DEF TypeOK
  <2>3. rdmableSockets' \in [Procs -> SUBSET Fds]
    BY DEF TypeOK
  <2>4. past' \in [Procs -> [Fds -> {"fresh", "led", "used", "stale"}]]
    <3>1. PastWith(past[p][fd], c) \in {"fresh", "led", "used", "stale"}
      BY DEF PastWith
    <3>2. [past[p] EXCEPT ![fd] = PastWith(past[p][fd], c)] \in [Fds -> {"fresh", "led", "used", "stale"}]
      BY <3>1 DEF TypeOK
    <3>3. past' = [past EXCEPT ![p] = [past[p] EXCEPT ![fd] = PastWith(past[p][fd], c)]]
      BY DEF Given, TypeOK
    <3> QED
      BY <3>2, <3>3 DEF TypeOK
  <2> QED
    BY <2>1, <2>2, <2>3, <2>4 DEF TypeOK
<1>3. Remembered'
  <2> SUFFICES ASSUME NEW q \in Procs, NEW g \in Fds
               PROVE  /\ open'[q][g] # Terminal
                      /\ past'[q][g] \in {"fresh", "led"} => bridge[q][g] = None /\ setup[q].fd # g
                      /\ past'[q][g] = "fresh" =>
                           g \notin rdmableSockets'[q] /\ open'[q][g] \notin Reachable
                      /\ past'[q][g] = "led" /\ open'[q][g] # None =>
                           g \in rdmableSockets'[q] /\ open'[q][g] \in Reachable
                      /\ past'[q][g] = "used" =>
                           /\ g \notin rdmableSockets'[q]
                           /\ open'[q][g] # None =>
                                /\ open'[q][g] \in Reachable
                                /\ bridge[q][g] = open'[q][g] \/ setup[q].fd = g
    BY DEF Remembered
  <2>1. CASE q = p /\ g = fd
    <3>1. open'[q][g] = c /\ past'[q][g] = PastWith(past[p][fd], c)
      BY <2>1 DEF Given, TypeOK
    <3>2. g \in rdmableSockets'[q] <=> g \in rdmableSockets[q] \/ c \in Reachable
      BY <2>1 DEF TypeOK
    <3>3. past'[q][g] # "used"
      BY <3>1 DEF PastWith
    <3>4. past'[q][g] = "fresh" => past[q][g] = "fresh" /\ c \notin Reachable
      BY <2>1, <3>1 DEF PastWith
    <3>5. past'[q][g] = "led" => past[q][g] \in {"fresh", "led"} /\ c \in Reachable
      BY <2>1, <3>1 DEF PastWith
    <3> QED
      BY <1>1, <2>1, <3>1, <3>2, <3>3, <3>4, <3>5 DEF Remembered
  <2>2. CASE ~ (q = p /\ g = fd)
    <3>1. open'[q][g] = open[q][g] /\ past'[q][g] = past[q][g]
      BY <2>2 DEF Given, TypeOK
    <3>2. g \in rdmableSockets'[q] <=> g \in rdmableSockets[q]
      BY <2>2 DEF TypeOK
    <3> QED
      BY <3>1, <3>2 DEF Remembered
  <2> QED
    BY <2>1, <2>2
<1>4. NothingElse'
  BY DEF NothingElse
<1>5. Held'
  <2> SUFFICES ASSUME NEW q \in Procs, NEW h \in handles'[q], h.fd # 0
               PROVE  open'[q][h.fd] = h.conn
    BY DEF Held
  <2>1. CASE h \in handles[q]
    <3>1. open[q][h.fd] = h.conn
      BY <2>1 DEF Held
    <3>2. h.conn \in Conns /\ h.fd \in Fds
      BY <2>1 DEF TypeOK
    <3>3. ~ (q = p /\ h.fd = fd)
      BY <1>1, <3>1, <3>2, DescriptorAssumption, ReachableConns
    <3> QED
      BY <3>1, <3>2, <3>3 DEF TypeOK
  <2>2. CASE h \notin handles[q]
    <3>1. q = p /\ h = [fd |-> n, conn |-> c]
      BY <2>2 DEF TypeOK
    <3> QED
      BY <3>1 DEF TypeOK
  <2> QED
    BY <2>1, <2>2
<1>6. InSetup' /\ Counted'
  BY DEF InSetup, Counted
<1>7. RightConnection'
  BY Quiet
<1> QED
  BY <1>2, <1>3, <1>4, <1>5, <1>6, <1>7

\* close() takes the descriptor from the application and the kernel.
LEMMA CloseIInv ==
  ASSUME IInv, NEW p \in Procs, NEW h \in handles[p], Close(p, h)
  PROVE  IInv'
<1> USE DEF IInv, Close, libVars
<1>1. /\ h.fd \in Fds /\ h = [fd |-> h.fd, conn |-> h.conn]
      /\ open[p][h.fd] = h.conn
  BY DescriptorAssumption, ReachableConns DEF TypeOK, Held, Running
<1>2. TypeOK'
  <2>1. handles' \in [Procs -> SUBSET [fd : Fds \cup {0}, conn : Conns]]
    BY DEF TypeOK
  <2>2. open' \in [Procs -> [Fds \cup {0} -> Conns \cup {None, Terminal}]]
    BY DEF TypeOK
  <2> QED
    BY <2>1, <2>2 DEF TypeOK
<1>3. Remembered'
  <2>1. ASSUME NEW q \in Procs, NEW g \in Fds
        PROVE  open'[q][g] = None \/ open'[q][g] = open[q][g]
    BY DEF TypeOK
  <2>2. None # Terminal /\ None \notin Reachable
    BY DescriptorAssumption, ReachableConns
  <2> QED
    BY <2>1, <2>2 DEF Remembered
<1>4. NothingElse' /\ InSetup' /\ Counted'
  BY DEF NothingElse, InSetup, Counted
<1>5. Held'
  <2> SUFFICES ASSUME NEW q \in Procs, NEW g \in handles'[q], g.fd # 0
               PROVE  open'[q][g.fd] = g.conn
    BY DEF Held
  <2>1. /\ g \in handles[q] /\ (q = p => g # h)
        /\ g.fd \in Fds /\ g = [fd |-> g.fd, conn |-> g.conn]
    BY DEF TypeOK
  <2>2. open[q][g.fd] = g.conn
    BY <2>1 DEF Held
  <2>3. ~ (q = p /\ g.fd = h.fd)
    BY <1>1, <2>1, <2>2
  <2> QED
    BY <2>1, <2>2, <2>3 DEF TypeOK
<1>6. RightConnection'
  BY Quiet
<1> QED
  BY <1>2, <1>3, <1>4, <1>5, <1>6

\* The child of fork() starts with its parent's memory, one generation on.
LEMMA ForkIInv ==
  ASSUME IInv, NEW p \in Procs, NEW q \in Procs, Fork(p, q)
  PROVE  IInv'
<1> USE DEF IInv, Fork
<1>1. /\ p # q /\ setup[p] = Idle /\ setup[q] = Idle
      /\ forkGeneration[p] = depth[p] /\ depth[p] + 1 \in 0 .. ForkGen
  BY DescriptorAssumption, ReachableConns DEF Running, New, InSetup, Counted, TypeOK
<1>2. /\ handles'[q] = handles[p] /\ open'[q] = open[p] /\ bridge'[q] = bridge[p]
      /\ rdmableSockets'[q] = rdmableSockets[p] /\ nullEntry'[q] = nullEntry[p]
      /\ past'[q] = past[p]
  BY DEF TypeOK
<1>3. ASSUME NEW r \in Procs, r # q
      PROVE  /\ handles'[r] = handles[r] /\ open'[r] = open[r] /\ bridge'[r] = bridge[r]
             /\ rdmableSockets'[r] = rdmableSockets[r] /\ nullEntry'[r] = nullEntry[r]
             /\ past'[r] = past[r]
  BY <1>3 DEF TypeOK
<1>4. TypeOK'
  BY <1>1 DEF TypeOK
<1>5. Remembered'
  BY <1>1, <1>2, <1>3 DEF Remembered
<1>6. NothingElse'
  BY <1>1, <1>2, <1>3 DEF NothingElse
<1>7. Held'
  BY <1>2, <1>3 DEF Held
<1>8. InSetup'
  BY DEF InSetup, TypeOK
<1>9. Counted'
  BY <1>1 DEF Counted, TypeOK
<1>10. RightConnection'
  BY Quiet
<1> QED
  BY <1>4, <1>5, <1>6, <1>7, <1>8, <1>9, <1>10

\* A call on a buffer reaches the connection it is made on, which is one for RDMA;
\* a call on a socket is one on a connection that is not, or not meant for read() or
\* write(); unless the number is stale.
LEMMA UseIInv ==
  ASSUME IInv, NEW p \in Procs, NEW h \in handles[p], NEW call,
         ViaBuffer(p, h, call) \/ ViaSocket(p, h, call)
  PROVE  IInv'
<1> USE DEF IInv, libVars, MayUse, Used
<1>1. /\ h.fd \in Fds \cup {0} /\ h.conn \in Conns /\ setup[p] = Idle /\ setup[p].fd = 0
      /\ h.fd # 0 => h.fd \in Fds /\ open[p][h.fd] = h.conn /\ h.conn # None
  BY DescriptorAssumption, ReachableConns DEF TypeOK, Held, ViaBuffer, ViaSocket, Running, Idle
<1>2. /\ UNCHANGED << alive, open, libVars, handles, depth, past >>
      /\ user' = [user EXCEPT ![h.conn] = p]
  BY DEF ViaBuffer, ViaSocket
<1>3. TypeOK'
  BY <1>1, <1>2 DEF TypeOK
<1>4. Remembered' /\ NothingElse' /\ Held' /\ InSetup' /\ Counted'
  BY <1>2 DEF Remembered, NothingElse, Held, InSetup, Counted
<1>5. RightConnection'
  <2> SUFFICES ASSUME h.fd # 0, past[p][h.fd] # "stale"
               PROVE  /\ last'.to = h.conn
                      /\ (h.conn \in Reachable => call \in Plain) =>
                           last'.via = (IF h.conn \in Reachable THEN "buffer" ELSE "socket")
    <3>1. \E v, t : last' = [fd |-> h.fd, conn |-> h.conn, via |-> v, to |-> t,
                             plain |-> call \in Plain,
                             stale |-> h.fd # 0 /\ past[p][h.fd] = "stale"]
      BY DEF ViaBuffer, ViaSocket
    <3>2. last'.fd = h.fd /\ last'.conn = h.conn
      BY <3>1
    <3>3. last'.plain = (call \in Plain) /\ last'.stale = (h.fd # 0 /\ past[p][h.fd] = "stale")
      BY <3>1
    <3> HIDE DEF IInv, MayUse, Used
    <3> QED
      BY <3>2, <3>3, Zenon DEF RightConnection, ReachesItsConnection
  <2>1. past[p][h.fd] \in {"fresh", "led", "used"}
    BY <1>1 DEF TypeOK
  <2>2. h.fd \notin nullEntry[p]
    BY <1>1 DEF NothingElse
  <2>3. past[p][h.fd] = "used" => bridge[p][h.fd] = h.conn /\ h.conn \in Reachable
    BY <1>1 DEF Remembered
  <2>4. CASE ViaBuffer(p, h, call)
    <3>1. bridge[p][h.fd] # None /\ last'.to = bridge[p][h.fd] /\ last'.via = "buffer"
      BY <2>2, <2>4 DEF ViaBuffer, RouteOf, Route
    <3>2. past[p][h.fd] = "used"
      BY <1>1, <2>1, <3>1 DEF Remembered
    <3> QED
      BY <2>3, <3>1, <3>2
  <2>5. CASE ViaSocket(p, h, call)
    <3>1. last'.to = open[p][h.fd] /\ last'.via = "socket"
      BY <2>5 DEF ViaSocket
    <3>2. ASSUME h.conn \in Reachable, call \in Plain PROVE FALSE
      <4>1. ReadOrWrite(call) /\ Route(p, h.fd) = "socket"
        BY <2>5, <3>2 DEF ViaSocket, RouteOf, ReadOrWrite, Stream, Unflagged, Plain
      <4>2. forkGeneration[p] = ForkGen
        BY <2>5, <3>2 DEF ViaSocket, Counted
      <4>3. bridge[p][h.fd] = None /\ h.fd \notin rdmableSockets[p]
        BY <4>1, <4>2 DEF Route
      <4> QED
        BY <1>1, <2>1, <2>3, <3>2, <4>3 DEF Remembered
    <3> QED
      BY <1>1, <3>1, <3>2
  <2> QED
    BY <2>4, <2>5
<1> QED
  BY <1>3, <1>4, <1>5

\* The first call on a marked descriptor turns the mark into a constructor.
LEMMA OpenBufferIInv ==
  ASSUME IInv, NEW p \in Procs, NEW h \in handles[p], NEW call, OpenBuffer(p, h, call)
  PROVE  IInv'
<1> USE DEF IInv, OpenBuffer, MayUse
<1>1. /\ h.fd \in rdmableSockets[p] /\ bridge[p][h.fd] = None
      /\ h.conn \in Conns /\ p \in alive /\ setup[p] = Idle
  BY DEF RouteOf, Route, TypeOK, Running
<1>2. h.fd \in Fds /\ h.fd # 0
  BY <1>1, DescriptorAssumption DEF TypeOK
<1>3. past[p][h.fd] \in {"led", "stale"}
  BY <1>1, <1>2 DEF Remembered, TypeOK
<1>4. /\ setup'[p] = [fd |-> h.fd, left |-> SetupCalls]
      /\ rdmableSockets'[p] = rdmableSockets[p] \ {h.fd}
      /\ past'[p][h.fd] \in {"used", "stale"}
      /\ past'[p][h.fd] = "used" => past[p][h.fd] = "led"
      /\ \A g \in Fds : g # h.fd => past'[p][g] = past[p][g]
  BY <1>2, <1>3 DEF TypeOK
<1>5. ASSUME NEW q \in Procs, q # p
      PROVE  /\ setup'[q] = setup[q] /\ rdmableSockets'[q] = rdmableSockets[q]
             /\ past'[q] = past[q] /\ nullEntry'[q] = nullEntry[q]
  BY <1>5 DEF TypeOK
<1>6. nullEntry'[p] \subseteq nullEntry[p] \cup {h.fd}
  BY DEF TypeOK
<1>7. TypeOK'
  <2>1. setup' \in [Procs -> [fd : Fds \cup {0}, left : 0 .. SetupCalls]]
    <3>1. [fd |-> h.fd, left |-> SetupCalls] \in [fd : Fds \cup {0}, left : 0 .. SetupCalls]
      BY <1>2 DEF SetupCalls
    <3> QED
      BY <3>1 DEF TypeOK
  <2>2. rdmableSockets' \in [Procs -> SUBSET Fds]
    BY DEF TypeOK
  <2>3. nullEntry' \in [Procs -> SUBSET Fds]
    <3>1. [nullEntry EXCEPT ![p] = @ \cup {h.fd}] \in [Procs -> SUBSET Fds]
      BY <1>2 DEF TypeOK
    <3>2. nullEntry' = nullEntry \/ nullEntry' = [nullEntry EXCEPT ![p] = @ \cup {h.fd}]
      OBVIOUS
    <3> QED
      BY <3>1, <3>2 DEF TypeOK
  <2>4. user' \in [Conns -> Procs \cup {None}]
    BY DEF TypeOK
  <2>5. past' \in [Procs -> [Fds -> {"fresh", "led", "used", "stale"}]]
    <3> DEFINE now == IF past[p][h.fd] = "led" THEN "used" ELSE past[p][h.fd]
    <3>1. now \in {"fresh", "led", "used", "stale"}
      BY <1>3
    <3>2. past' = [past EXCEPT ![p] = [past[p] EXCEPT ![h.fd] = now]]
      BY DEF TypeOK
    <3> HIDE DEF now
    <3>3. [past[p] EXCEPT ![h.fd] = now] \in [Fds -> {"fresh", "led", "used", "stale"}]
      BY <3>1 DEF TypeOK
    <3> QED
      BY <3>2, <3>3 DEF TypeOK
  <2> QED
    BY <2>1, <2>2, <2>3, <2>4, <2>5 DEF TypeOK
<1>8. Remembered'
  <2> SUFFICES ASSUME NEW q \in Procs, NEW g \in Fds
               PROVE  /\ open[q][g] # Terminal
                      /\ past'[q][g] \in {"fresh", "led"} => bridge[q][g] = None /\ setup'[q].fd # g
                      /\ past'[q][g] = "fresh" =>
                           g \notin rdmableSockets'[q] /\ open[q][g] \notin Reachable
                      /\ past'[q][g] = "led" /\ open[q][g] # None =>
                           g \in rdmableSockets'[q] /\ open[q][g] \in Reachable
                      /\ past'[q][g] = "used" =>
                           /\ g \notin rdmableSockets'[q]
                           /\ open[q][g] # None =>
                                /\ open[q][g] \in Reachable
                                /\ bridge[q][g] = open[q][g] \/ setup'[q].fd = g
    BY DEF Remembered
  <2>1. CASE q = p /\ g = h.fd
    BY <1>4, <2>1 DEF Remembered
  <2>2. CASE q = p /\ g # h.fd
    <3>1. setup[p].fd = 0 /\ g # 0
      BY <1>1, DescriptorAssumption DEF Idle
    <3> QED
      BY <1>4, <2>2, <3>1 DEF Remembered
  <2>3. CASE q # p
    BY <1>5, <2>3 DEF Remembered
  <2> QED
    BY <2>1, <2>2, <2>3
<1>9. NothingElse'
  <2> SUFFICES ASSUME NEW q \in Procs, NEW g \in nullEntry'[q] PROVE setup'[q].fd = g
    BY DEF NothingElse
  <2>1. CASE q = p
    <3>1. nullEntry[p] = {}
      <4> SUFFICES ASSUME NEW f \in nullEntry[p] PROVE FALSE
        OBVIOUS
      <4>1. f = 0 /\ f \in Fds
        BY <1>1 DEF NothingElse, Idle, TypeOK
      <4> QED
        BY <4>1, DescriptorAssumption
    <3> QED
      BY <1>4, <1>6, <2>1, <3>1
  <2>2. CASE q # p
    BY <1>5, <2>2 DEF NothingElse
  <2> QED
    BY <2>1, <2>2
<1>10. Held' /\ Counted'
  BY DEF Held, Counted
<1>11. InSetup'
  BY <1>1, <1>2, <1>4, <1>5 DEF InSetup
<1>12. RightConnection'
  BY Quiet
<1> QED
  BY <1>7, <1>8, <1>9, <1>10, <1>11, <1>12

\* A constructor with one call less to make.
LEMMA OneLess ==
  ASSUME NEW s \in [fd : Fds \cup {0}, left : 0 .. SetupCalls], s.left - 1 \in 0 .. SetupCalls
  PROVE  [s EXCEPT !.left = s.left - 1] \in [fd : Fds \cup {0}, left : 0 .. SetupCalls]
  OBVIOUS

\* The constructor goes on ...
LEMMA SetupCallIInv ==
  ASSUME IInv, NEW p \in Procs, SetupCall(p)
  PROVE  IInv'
<1> USE DEF IInv, SetupCall
<1>1. setup[p].fd \in Fds \cup {0} /\ setup[p].left \in 0 .. SetupCalls
  BY DEF TypeOK
<1>2. setup[p].left \in 1 .. SetupCalls /\ setup[p].left - 1 \in 0 .. SetupCalls
  BY <1>1 DEF SetupCalls
<1>3. setup[p] # Idle
  BY <1>2 DEF Idle
<1>4. \A q \in Procs : setup'[q].fd = setup[q].fd /\ (setup'[q] # Idle => setup[q] # Idle)
  BY <1>3 DEF TypeOK
<1>5. TypeOK'
  <2>1. setup' \in [Procs -> [fd : Fds \cup {0}, left : 0 .. SetupCalls]]
    <3>1. [setup[p] EXCEPT !.left = setup[p].left - 1]
            \in [fd : Fds \cup {0}, left : 0 .. SetupCalls]
      <4>1. setup[p] \in [fd : Fds \cup {0}, left : 0 .. SetupCalls]
        BY DEF TypeOK
      <4> QED
        BY <1>2, <4>1, OneLess
    <3> QED
      BY <3>1 DEF TypeOK
  <2> QED
    BY <2>1 DEF TypeOK
<1>6. Remembered' /\ NothingElse' /\ InSetup'
  BY <1>4 DEF Remembered, NothingElse, InSetup
<1>7. Held' /\ Counted'
  BY DEF Held, Counted
<1>8. RightConnection'
  BY Quiet
<1> QED
  BY <1>5, <1>6, <1>7, <1>8

\* ... and leaves a buffer over the connection it has talked on.
LEMMA BufferReadyIInv ==
  ASSUME IInv, NEW p \in Procs, BufferReady(p)
  PROVE  IInv'
<1> DEFINE fd == setup[p].fd
<1> USE DEF IInv, BufferReady
<1>1. /\ fd \in Fds /\ fd # 0 /\ past[p][fd] \in {"used", "stale"}
      /\ bridge' = [bridge EXCEPT ![p][fd] = open[p][fd]]
      /\ setup' = [setup EXCEPT ![p] = Idle]
      /\ nullEntry' = [nullEntry EXCEPT ![p] = @ \ {fd}]
  <2>1. fd \in Fds /\ fd # 0
    BY DescriptorAssumption DEF InSetup
  <2>2. past[p][fd] \in {"fresh", "led", "used", "stale"} /\ past[p][fd] \notin {"fresh", "led"}
    BY <2>1 DEF Remembered, TypeOK
  <2> QED
    BY <2>1, <2>2
<1>2. open[p][fd] \in Conns \cup {None, Terminal}
  BY <1>1 DEF TypeOK
<1>3. fd = setup[p].fd
  OBVIOUS
<1> HIDE DEF fd
<1>4. /\ bridge'[p][fd] = open[p][fd] /\ setup'[p].fd = 0 /\ setup'[p] = Idle
      /\ \A g \in Fds \cup {0} : g # fd => bridge'[p][g] = bridge[p][g]
      /\ nullEntry'[p] = nullEntry[p] \ {fd}
  BY <1>1 DEF TypeOK, Idle
<1>5. ASSUME NEW q \in Procs, q # p
      PROVE  bridge'[q] = bridge[q] /\ setup'[q] = setup[q] /\ nullEntry'[q] = nullEntry[q]
  BY <1>1, <1>5 DEF TypeOK
<1>6. TypeOK'
  <2>1. bridge' \in [Procs -> [Fds \cup {0} -> Conns \cup {None, Terminal}]]
    <3>1. [bridge[p] EXCEPT ![fd] = open[p][fd]] \in [Fds \cup {0} -> Conns \cup {None, Terminal}]
      BY <1>1, <1>2 DEF TypeOK
    <3> HIDE DEF BufferReady
    <3> QED
      BY <1>1, <3>1 DEF TypeOK
  <2>2. setup' \in [Procs -> [fd : Fds \cup {0}, left : 0 .. SetupCalls]]
    BY <1>1 DEF TypeOK, Idle, SetupCalls
  <2>3. nullEntry' \in [Procs -> SUBSET Fds]
    BY <1>1 DEF TypeOK
  <2> QED
    BY <2>1, <2>2, <2>3 DEF TypeOK
<1>7. Remembered'
  <2> SUFFICES ASSUME NEW q \in Procs, NEW g \in Fds
               PROVE  /\ open[q][g] # Terminal
                      /\ past[q][g] \in {"fresh", "led"} => bridge'[q][g] = None /\ setup'[q].fd # g
                      /\ past[q][g] = "fresh" =>
                           g \notin rdmableSockets[q] /\ open[q][g] \notin Reachable
                      /\ past[q][g] = "led" /\ open[q][g] # None =>
                           g \in rdmableSockets[q] /\ open[q][g] \in Reachable
                      /\ past[q][g] = "used" =>
                           /\ g \notin rdmableSockets[q]
                           /\ open[q][g] # None =>
                                /\ open[q][g] \in Reachable
                                /\ bridge'[q][g] = open[q][g] \/ setup'[q].fd = g
    BY DEF Remembered
  <2>1. CASE q = p /\ g = fd
    BY <1>1, <1>4, <2>1 DEF Remembered
  <2>2. CASE q = p /\ g # fd
    <3>1. g # 0
      BY DescriptorAssumption
    <3> QED
      BY <1>3, <1>4, <2>2, <3>1 DEF Remembered
  <2>3. CASE q # p
    BY <1>5, <2>3 DEF Remembered
  <2> QED
    BY <2>1, <2>2, <2>3
<1>8. NothingElse'
  <2>1. bridge'[p][0] = None /\ nullEntry'[p] = {}
    BY <1>1, <1>3, <1>4 DEF NothingElse
  <2> QED
    BY <1>5, <2>1 DEF NothingElse
<1>9. InSetup'
  BY <1>4, <1>5 DEF InSetup
<1>10. Held' /\ Counted'
  BY DEF Held, Counted
<1>11. RightConnection'
  BY Quiet
<1> QED
  BY <1>6, <1>7, <1>8, <1>9, <1>10, <1>11

\* A process that ends holds and remembers nothing any more.
LEMMA EndsIInv ==
  ASSUME IInv, NEW p \in Procs, EndsProcess(p)
  PROVE  IInv'
<1> USE DEF IInv, EndsProcess
<1>1. /\ setup'[p] = Idle /\ handles'[p] = {} /\ rdmableSockets'[p] = {} /\ nullEntry'[p] = {}
      /\ \A fd \in Fds \cup {0} : open'[p][fd] = None /\ bridge'[p][fd] = None
      /\ \A fd \in Fds : past'[p][fd] = "fresh"
  BY DEF TypeOK
<1>2. ASSUME NEW q \in Procs, q # p
      PROVE  /\ setup'[q] = setup[q] /\ handles'[q] = handles[q] /\ open'[q] = open[q]
             /\ bridge'[q] = bridge[q] /\ nullEntry'[q] = nullEntry[q] /\ past'[q] = past[q]
             /\ rdmableSockets'[q] = rdmableSockets[q]
             /\ q \in alive => q \in alive'
  BY <1>2 DEF TypeOK
<1>3. TypeOK'
  <2>1. open' \in [Procs -> [Fds \cup {0} -> Conns \cup {None, Terminal}]]
    BY DEF TypeOK
  <2>2. setup' \in [Procs -> [fd : Fds \cup {0}, left : 0 .. SetupCalls]]
    BY DEF TypeOK, Idle, SetupCalls
  <2>3. handles' \in [Procs -> SUBSET [fd : Fds \cup {0}, conn : Conns]]
    BY DEF TypeOK
  <2>4. bridge' \in [Procs -> [Fds \cup {0} -> Conns \cup {None, Terminal}]]
    BY DEF TypeOK
  <2>5. nullEntry' \in [Procs -> SUBSET Fds] /\ rdmableSockets' \in [Procs -> SUBSET Fds]
    BY DEF TypeOK
  <2>6. past' \in [Procs -> [Fds -> {"fresh", "led", "used", "stale"}]]
    BY DEF TypeOK
  <2> QED
    BY <2>1, <2>2, <2>3, <2>4, <2>5, <2>6 DEF TypeOK
<1>4. Remembered'
  <2>1. None # Terminal /\ None \notin Reachable /\ \A fd \in Fds : fd # 0
    BY DescriptorAssumption, ReachableConns
  <2>2. setup'[p].fd = 0
    BY <1>1 DEF Idle
  <2> QED
    BY <1>1, <1>2, <2>1, <2>2 DEF Remembered
<1>5. NothingElse' /\ Held' /\ InSetup'
  BY <1>1, <1>2 DEF NothingElse, Held, InSetup
<1>6. Counted'
  BY DEF Counted
<1>7. RightConnection'
  BY Quiet
<1> QED
  BY <1>3, <1>4, <1>5, <1>6, <1>7

\* Every step preserves the invariant.
LEMMA NextIInv == IInv /\ [Next]_vars => IInv'
<1> SUFFICES ASSUME IInv, [Next]_vars PROVE IInv'
  OBVIOUS
<1>1. ASSUME NEW p \in Procs, NEW fd \in Fds, NEW c \in Conns,
             Accept(p, fd, c) \/ Connect(p, fd, c)
      PROVE  IInv'
  <2>1. CASE c \in Reachable \/ Connect(p, fd, c)
    <3>1. Opened(p, fd, c, fd)
      BY <1>1, <2>1 DEF Opened, Accept, Connect
    <3> QED
      BY <3>1, OpenedIInv
  <2>2. CASE c \notin Reachable /\ Accept(p, fd, c)
    <3>1. Opened(p, fd, c, 0)
      BY <2>2 DEF Opened, Accept
    <3> QED
      BY <3>1, OpenedIInv
  <2> QED
    BY <1>1, <2>1, <2>2
<1>2. ASSUME NEW p \in Procs, NEW h \in handles[p], Close(p, h)
      PROVE  IInv'
  BY <1>2, CloseIInv
<1>3. ASSUME NEW p \in Procs, NEW h \in handles[p], NEW call \in CallForms,
             ViaBuffer(p, h, call) \/ ViaSocket(p, h, call) \/ OpenBuffer(p, h, call)
      PROVE  IInv'
  BY <1>3, UseIInv, OpenBufferIInv
<1>4. ASSUME NEW p \in Procs, NEW q \in Procs, Fork(p, q)
      PROVE  IInv'
  BY <1>4, ForkIInv
<1>5. ASSUME NEW p \in Procs,
             SetupCall(p) \/ BufferReady(p) \/ Throw(p) \/ Dereference(p) \/ Exit(p)
      PROVE  IInv'
  BY <1>5, SetupCallIInv, BufferReadyIInv, EndsIInv DEF Throw, Dereference, Exit
<1>6. CASE UNCHANGED vars
  <2>1. UNCHANGED << alive, open, bridge, nullEntry, rdmableSockets, forkGeneration, setup,
                     handles, user, depth, past, last >>
    BY <1>6 DEF vars, libVars
  <2>2. TypeOK'
    BY <2>1 DEF IInv, TypeOK
  <2>3. Remembered' /\ NothingElse' /\ Held'
    BY <2>1 DEF IInv, Remembered, NothingElse, Held
  <2>4. InSetup' /\ Counted' /\ RightConnection'
    BY <2>1 DEF IInv, InSetup, Counted, RightConnection, ReachesItsConnection
  <2> QED
    BY <2>2, <2>3, <2>4 DEF IInv
<1> QED
  BY <1>1, <1>2, <1>3, <1>4, <1>5, <1>6 DEF Next

-----------------------------------------------------------------------------
\* The library's variables stay what they are declared to be, for any number of
\* processes; in particular no generation counter leaves its range.
THEOREM TypeCorrect == Spec => []TypeOK
<1>1. Init => IInv
  BY InitIInv
<1>2. IInv /\ [Next]_vars => IInv'
  BY NextIInv
<1>3. IInv => TypeOK
  BY DEF IInv
<1> QED
  BY <1>1, <1>2, <1>3, PTL DEF Spec

\* Reads and writes on a descriptor that is not stale reach the connection they are made
\* on, over RDMA where the far library expects it, in every process.
THEOREM RightConnectionAlways == Spec => []RightConnection
<1>1. Init => IInv
  BY InitIInv
<1>2. IInv /\ [Next]_vars => IInv'
  BY NextIInv
<1>3. IInv => RightConnection
  BY DEF IInv
<1> QED
  BY <1>1, <1>2, <1>3, PTL DEF Spec
=============================================================================
