-------------------------- MODULE TcpServers_proofs --------------------------
(***************************************************************************)
(* For any number of clients and messages, and however often fork() fails: *)
(* the two TCP servers count the answers they send and have at most one    *)
(* accepted connection open at a time; and nobody in them waits for a      *)
(* process that will not act, or is forgotten by one.                      *)
(***************************************************************************)
EXTENDS TcpServers, SequenceTheorems, TLAPS

-----------------------------------------------------------------------------
(* The inductive invariant.  A client is accepted once: while it waits in  *)
(* the backlog nobody serves it, and it is there only after it connected.  *)

ClientSteps == {"connect", "write", "read", "done", "threw", "crashed"}
WorkSteps   == {"none", "start", "read", "write", "close"}
                 \cup (IF Forking THEN {"exited", "reaped"} ELSE {"served", "gone"})
ServerSteps == {"accept", "gone"}
                 \cup (IF Forking THEN {"fork", "close", "interrupted"} ELSE {"serve"})
Processes   == {"server", "child"}

Typed ==
  /\ cpc \in [Clients -> ClientSteps] /\ wpc \in [Clients -> WorkSteps] /\ spc \in ServerSteps
  /\ cround \in [Clients -> Nat] /\ wround \in [Clients -> Nat] /\ down \in [Clients -> Nat]
  /\ backlog \in Seq(Clients) /\ holders \in [Clients -> SUBSET Processes]
  /\ (pending => Forking) /\ (handling => Forking)

Queued == { backlog[i] : i \in 1 .. Len(backlog) }

\* A connection is in the backlog once, and nobody has begun to serve it.
Waiting ==
  /\ \A i, j \in 1 .. Len(backlog) : i # j => backlog[i] # backlog[j]
  /\ \A c \in Queued : cpc[c] # "connect"
  /\ \A c \in Clients : c \in Queued \/ cpc[c] = "connect" => wpc[c] = "none"

\* Between accept() and fork() the connection is nobody's but the server's.
InHand == spc = "fork" => /\ acced \in Clients /\ wpc[acced] = "none"
                          /\ cpc[acced] # "connect" /\ acced \notin Queued

\* Every answer is with the client or on its way, and there are no more than Messages.
Rounds ==
  \A c \in Clients :
    /\ wround[c] = cround[c] + down[c] /\ wround[c] <= Messages
    /\ wpc[c] = "none" => wround[c] = 0
    /\ wpc[c] \in {"start", "read", "write"} => wround[c] < Messages

\* The server has one connection at most, and serves, if it serves itself, that one.
OneOpen ==
  \A c \in Clients :
    /\ "server" \in holders[c] => spc \in {"fork", "close", "serve"} /\ c = acced
    /\ ~ Forking /\ wpc[c] \in {"start", "read", "write", "close"} => spc = "serve" /\ c = acced

IInv == Typed /\ Waiting /\ InHand /\ Rounds /\ OneOpen

-----------------------------------------------------------------------------
LEMMA InitIInv == Init => IInv
<1> SUFFICES ASSUME Init PROVE IInv
  OBVIOUS
<1>1. Messages \in Nat /\ Messages > 0
  BY TcpAssumption
<1>2. /\ backlog = << >> /\ Len(<< >>) = 0 /\ << >> \in Seq(Clients) /\ spc = "accept"
      /\ cpc = [c \in Clients |-> "connect"] /\ wpc = [c \in Clients |-> "none"]
      /\ cround = [c \in Clients |-> 0] /\ wround = [c \in Clients |-> 0]
      /\ down = [c \in Clients |-> 0] /\ holders = [c \in Clients |-> {}]
      /\ pending = FALSE /\ handling = FALSE
  BY DEF Init
<1>3. Typed
  BY <1>2 DEF Typed, ClientSteps, WorkSteps, ServerSteps
<1>4. Waiting /\ InHand
  BY <1>2 DEF Waiting, Queued, InHand
<1>5. Rounds
  BY <1>1, <1>2 DEF Rounds
<1>6. OneOpen
  BY <1>2 DEF OneOpen
<1> QED
  BY <1>3, <1>4, <1>5, <1>6 DEF IInv

-----------------------------------------------------------------------------
(* The backlog.                                                            *)

LEMMA QueuedClients == backlog \in Seq(Clients) => Queued \subseteq Clients
BY ElementOfSeq DEF Queued

\* A client joins that is not there yet.
LEMMA Joins ==
  ASSUME NEW c \in Clients, backlog \in Seq(Clients), backlog' = Append(backlog, c)
  PROVE  /\ backlog' \in Seq(Clients) /\ Queued' = Queued \cup {c}
         /\ (c \notin Queued /\ (\A i, j \in 1 .. Len(backlog) : i # j => backlog[i] # backlog[j]))
              => \A i, j \in 1 .. Len(backlog') : i # j => backlog'[i] # backlog'[j]
<1>1. /\ backlog' \in Seq(Clients) /\ Len(backlog') = Len(backlog) + 1 /\ Len(backlog) \in Nat
      /\ \A i \in 1 .. Len(backlog) : backlog'[i] = backlog[i]
      /\ backlog'[Len(backlog) + 1] = c
  BY AppendProperties, LenProperties
<1>2. Queued' = Queued \cup {c}
  BY <1>1 DEF Queued
<1>3. ASSUME c \notin Queued, \A i, j \in 1 .. Len(backlog) : i # j => backlog[i] # backlog[j],
             NEW i \in 1 .. Len(backlog'), NEW j \in 1 .. Len(backlog'), i # j
      PROVE  backlog'[i] # backlog'[j]
  <2>1. \A k \in 1 .. Len(backlog) : backlog[k] # c
    BY <1>3 DEF Queued
  <2> QED
    BY <1>1, <1>3, <2>1
<1> QED
  BY <1>1, <1>2, <1>3

\* The first one leaves.
LEMMA Leaves ==
  ASSUME backlog \in Seq(Clients), backlog # << >>, backlog' = Tail(backlog),
         \A i, j \in 1 .. Len(backlog) : i # j => backlog[i] # backlog[j]
  PROVE  /\ Head(backlog) \in Clients /\ Head(backlog) \in Queued
         /\ backlog' \in Seq(Clients) /\ Queued' = Queued \ {Head(backlog)}
         /\ \A i, j \in 1 .. Len(backlog') : i # j => backlog'[i] # backlog'[j]
<1>1. /\ backlog' \in Seq(Clients) /\ Len(backlog') = Len(backlog) - 1
      /\ Len(backlog) \in Nat /\ Len(backlog) >= 1
      /\ Head(backlog) = backlog[1] /\ backlog[1] \in Clients
      /\ \A i \in 1 .. Len(backlog') : backlog'[i] = backlog[i + 1]
  BY HeadTailProperties, LenProperties, EmptySeq
<1>2. Head(backlog) \in Queued
  BY <1>1 DEF Queued
<1>3. \A x : x \in Queued' <=> \E i \in 2 .. Len(backlog) : x = backlog[i]
  <2>1. ASSUME NEW i \in 2 .. Len(backlog) PROVE i - 1 \in 1 .. Len(backlog') /\ backlog'[i - 1] = backlog[i]
    BY <1>1
  <2>2. ASSUME NEW i \in 1 .. Len(backlog') PROVE i + 1 \in 2 .. Len(backlog) /\ backlog'[i] = backlog[i + 1]
    BY <1>1
  <2> QED
    BY <2>1, <2>2 DEF Queued
<1>4. \A x : x \in Queued \ {Head(backlog)} <=> \E i \in 2 .. Len(backlog) : x = backlog[i]
  BY <1>1 DEF Queued
<1> QED
  BY <1>1, <1>2, <1>3, <1>4

-----------------------------------------------------------------------------
(* The clients.                                                            *)

LEMMA ConnectIInv == ASSUME IInv, NEW c \in Clients, Connect(c) PROVE IInv'
<1>1. /\ cpc[c] = "connect"
      /\ \/ /\ cpc' = [cpc EXCEPT ![c] = "write"] /\ backlog' = Append(backlog, c)
         \/ cpc' = [cpc EXCEPT ![c] = "threw"] /\ backlog' = backlog
      /\ UNCHANGED << program, cround, down, spc, acced, wpc, wround, holders, pending, handling >>
  BY DEF Connect, ClientGoes, clientVars, workVars, signalVars
<1>2. WorkSteps' = WorkSteps /\ ServerSteps' = ServerSteps /\ Forking' = Forking
  BY <1>1 DEF WorkSteps, ServerSteps, Forking
<1>3. c \notin Queued /\ wpc[c] = "none"
  BY <1>1 DEF IInv, Waiting
<1>4. /\ backlog' \in Seq(Clients) /\ (Queued' = Queued \cup {c} \/ Queued' = Queued)
      /\ \A i, j \in 1 .. Len(backlog') : i # j => backlog'[i] # backlog'[j]
  <2>1. CASE backlog' = Append(backlog, c)
    BY <1>3, <2>1, Joins DEF IInv, Typed, Waiting
  <2>2. CASE backlog' = backlog
    BY <2>2 DEF IInv, Typed, Waiting, Queued
  <2> QED
    BY <1>1, <2>1, <2>2
<1>5. /\ cpc' \in [Clients -> ClientSteps] /\ cpc'[c] # "connect"
      /\ \A d \in Clients : d # c => cpc'[d] = cpc[d]
  BY <1>1 DEF IInv, Typed, ClientSteps
<1>6. Typed'
  BY <1>1, <1>2, <1>4, <1>5 DEF IInv, Typed, Processes, ClientSteps
<1>7. Queued \subseteq Clients
  BY QueuedClients DEF IInv, Typed
<1>8. Waiting'
  <2>1. ASSUME NEW d \in Queued' PROVE cpc'[d] # "connect"
    BY <1>4, <1>5, <1>7 DEF IInv, Waiting
  <2>2. ASSUME NEW d \in Clients, d \in Queued' \/ cpc'[d] = "connect" PROVE wpc'[d] = "none"
    BY <1>1, <1>3, <1>4, <1>5, <2>2 DEF IInv, Waiting
  <2> QED
    BY <1>4, <2>1, <2>2 DEF Waiting
<1>9. InHand'
  BY <1>1, <1>4, <1>5 DEF IInv, InHand
<1>10. Rounds' /\ OneOpen'
  BY <1>1, <1>2 DEF IInv, Rounds, OneOpen
<1> QED
  BY <1>6, <1>8, <1>9, <1>10 DEF IInv

\* What a client that has connected does.
LEMMA ClientMoves ==
  ASSUME IInv, NEW c \in Clients, NEW step \in {"write", "read", "done", "threw", "crashed"},
         cpc[c] # "connect", cpc' = [cpc EXCEPT ![c] = step],
         UNCHANGED << program, backlog, spc, acced, wpc, wround, holders, pending, handling >>,
         cround' \in [Clients -> Nat], down' \in [Clients -> Nat],
         \A d \in Clients : cround'[d] + down'[d] = cround[d] + down[d]
  PROVE  IInv'
<1>1. WorkSteps' = WorkSteps /\ ServerSteps' = ServerSteps /\ Forking' = Forking /\ Queued' = Queued
  BY DEF WorkSteps, ServerSteps, Forking, Queued
<1>2. /\ cpc' \in [Clients -> ClientSteps]
      /\ \A d \in Clients : cpc'[d] = "connect" <=> cpc[d] = "connect"
  BY DEF IInv, Typed, ClientSteps
<1>3. Typed'
  BY <1>1, <1>2 DEF IInv, Typed, Processes, ClientSteps
<1>4. Queued \subseteq Clients
  BY QueuedClients DEF IInv, Typed
<1>5. Waiting' /\ InHand'
  BY <1>1, <1>2, <1>4 DEF IInv, Waiting, InHand
<1>6. Rounds' /\ OneOpen'
  BY <1>1 DEF IInv, Rounds, OneOpen
<1> QED
  BY <1>3, <1>5, <1>6 DEF IInv

LEMMA ClientIInv ==
  ASSUME IInv, NEW c \in Clients, ClientWrite(c) \/ ClientRead(c) \/ ClientCrash(c)
  PROVE  IInv'
<1>1. CASE ClientWrite(c) \/ ClientCrash(c)
  <2>1. /\ cpc[c] # "connect"
        /\ \E step \in {"write", "read", "done", "threw", "crashed"} : cpc' = [cpc EXCEPT ![c] = step]
        /\ UNCHANGED << program, backlog, spc, acced, wpc, wround, holders, pending, handling,
                        cround, down >>
    BY <1>1 DEF ClientWrite, ClientCrash, ClientEnd, ClientGoes, workVars, signalVars
  <2> QED
    BY <2>1, ClientMoves DEF IInv, Typed
<1>2. CASE ClientRead(c)
  <2>1. /\ cpc[c] # "connect"
        /\ \E step \in {"write", "read", "done", "threw", "crashed"} : cpc' = [cpc EXCEPT ![c] = step]
        /\ UNCHANGED << program, backlog, spc, acced, wpc, wround, holders, pending, handling >>
        /\ \/ /\ down[c] > 0
              /\ down' = [down EXCEPT ![c] = @ - 1] /\ cround' = [cround EXCEPT ![c] = @ + 1]
           \/ down' = down /\ cround' = cround
    BY <1>2 DEF ClientRead, ClientGoes, workVars, signalVars
  <2>2. /\ cround' \in [Clients -> Nat] /\ down' \in [Clients -> Nat]
        /\ \A d \in Clients : cround'[d] + down'[d] = cround[d] + down[d]
    <3>1. cround \in [Clients -> Nat] /\ down \in [Clients -> Nat]
      BY DEF IInv, Typed
    <3> QED
      BY <2>1, <3>1
  <2> QED
    BY <2>1, <2>2, ClientMoves
<1> QED
  BY <1>1, <1>2

-----------------------------------------------------------------------------
(* The server.                                                             *)

\* Of the two servers' steps, which ones there are.
LEMMA Steps ==
  ASSUME IInv
  PROVE  /\ spc = "fork" \/ spc = "close" \/ spc = "interrupted" => Forking
         /\ spc = "serve" => ~ Forking
         /\ "fork" \in ServerSteps <=> Forking
         /\ "close" \in ServerSteps <=> Forking
         /\ "interrupted" \in ServerSteps <=> Forking
         /\ "serve" \in ServerSteps <=> ~ Forking
         /\ "accept" \in ServerSteps /\ "gone" \in ServerSteps
         /\ {"none", "start", "read", "write", "close"} \subseteq WorkSteps
         /\ "exited" \in WorkSteps <=> Forking
         /\ "reaped" \in WorkSteps <=> Forking
         /\ "served" \in WorkSteps <=> ~ Forking
         /\ "gone" \in WorkSteps <=> ~ Forking
BY DEF IInv, Typed, ServerSteps, WorkSteps

LEMMA AcceptIInv == IInv /\ Accept => IInv'
<1> SUFFICES ASSUME IInv, Accept PROVE IInv'
  OBVIOUS
<1> DEFINE c == Head(backlog)
<1>1. /\ spc = "accept" /\ backlog # << >> /\ acced' = c /\ backlog' = Tail(backlog)
      /\ holders' = [holders EXCEPT ![c] = {"server"}]
      /\ \/ Forking /\ spc' = "fork" /\ wpc' = wpc
         \/ ~ Forking /\ spc' = "serve" /\ wpc' = [wpc EXCEPT ![c] = "read"]
      /\ UNCHANGED << program, cpc, cround, down, wround, pending, handling >>
  BY DEF Accept, clientVars, signalVars
<1>2. /\ c \in Clients /\ c \in Queued /\ backlog' \in Seq(Clients) /\ Queued' = Queued \ {c}
      /\ \A i, j \in 1 .. Len(backlog') : i # j => backlog'[i] # backlog'[j]
  BY <1>1, Leaves DEF IInv, Typed, Waiting
<1> HIDE DEF c
<1>3. WorkSteps' = WorkSteps /\ ServerSteps' = ServerSteps /\ Forking' = Forking
  BY <1>1 DEF WorkSteps, ServerSteps, Forking
<1>4. wpc[c] = "none" /\ cpc[c] # "connect"
  BY <1>2 DEF IInv, Waiting
<1>5. /\ wpc' \in [Clients -> WorkSteps] /\ spc' \in ServerSteps
      /\ \A d \in Clients : d # c => wpc'[d] = wpc[d]
      /\ (wpc'[c] = "none" /\ Forking) \/ (wpc'[c] = "read" /\ ~ Forking)
  <2>1. wpc \in [Clients -> WorkSteps]
    BY DEF IInv, Typed
  <2>2. CASE Forking /\ spc' = "fork" /\ wpc' = wpc
    BY <1>4, <2>1, <2>2, Steps
  <2>3. CASE ~ Forking /\ spc' = "serve" /\ wpc' = [wpc EXCEPT ![c] = "read"]
    BY <1>2, <2>1, <2>3, Steps
  <2> QED
    BY <1>1, <2>2, <2>3
<1>6. /\ holders' \in [Clients -> SUBSET Processes]
      /\ \A d \in Clients : d # c => holders'[d] = holders[d]
  BY <1>1, <1>2 DEF IInv, Typed, Processes
<1>7. Typed'
  BY <1>1, <1>2, <1>3, <1>5, <1>6 DEF IInv, Typed, Processes, ClientSteps
<1>8. Waiting'
  <2>1. ASSUME NEW d \in Clients, d \in Queued' \/ cpc'[d] = "connect" PROVE wpc'[d] = "none"
    BY <1>1, <1>2, <1>4, <1>5, <2>1 DEF IInv, Waiting
  <2>2. ASSUME NEW d \in Queued' PROVE cpc'[d] # "connect"
    BY <1>1, <1>2 DEF IInv, Waiting
  <2> QED
    BY <1>2, <2>1, <2>2 DEF Waiting
<1>9. InHand'
  BY <1>1, <1>2, <1>4, <1>5 DEF InHand
<1>10. Rounds'
  <2>1. Messages \in Nat /\ Messages > 0
    BY TcpAssumption
  <2>2. wround[c] = 0
    BY <1>2, <1>4 DEF IInv, Rounds
  <2> QED
    BY <1>1, <1>5, <2>1, <2>2 DEF IInv, Rounds
<1>11. OneOpen'
  <2>1. \A d \in Clients : /\ "server" \notin holders[d]
                           /\ ~ Forking => wpc[d] \notin {"start", "read", "write", "close"}
    BY <1>1 DEF IInv, OneOpen
  <2>2. spc' \in {"fork", "serve"} /\ (~ Forking => spc' = "serve")
    BY <1>1
  <2> QED
    BY <1>1, <1>3, <1>5, <1>6, <2>1, <2>2 DEF OneOpen
<1> QED
  BY <1>7, <1>8, <1>9, <1>10, <1>11 DEF IInv

LEMMA ForkIInv == IInv /\ Fork => IInv'
<1> SUFFICES ASSUME IInv, Fork PROVE IInv'
  OBVIOUS
<1>1. /\ spc = "fork" /\ spc' = "close"
      /\ \/ /\ wpc' = [wpc EXCEPT ![acced] = "start"]
            /\ holders' = [holders EXCEPT ![acced] = @ \cup {"child"}]
         \/ wpc' = wpc /\ holders' = holders
      /\ UNCHANGED << program, cpc, cround, backlog, down, acced, wround, pending, handling >>
  BY DEF Fork, clientVars, signalVars
<1>2. /\ Forking /\ acced \in Clients /\ wpc[acced] = "none" /\ cpc[acced] # "connect"
      /\ acced \notin Queued
  BY <1>1, Steps DEF IInv, InHand
<1>3. WorkSteps' = WorkSteps /\ ServerSteps' = ServerSteps /\ Forking' = Forking /\ Queued' = Queued
  BY <1>1 DEF WorkSteps, ServerSteps, Forking, Queued
<1>4. /\ wpc' \in [Clients -> WorkSteps] /\ spc' \in ServerSteps
      /\ \A d \in Clients : d # acced => wpc'[d] = wpc[d]
      /\ wpc'[acced] \in {"none", "start"}
  BY <1>1, <1>2, Steps DEF IInv, Typed
<1>5. /\ holders' \in [Clients -> SUBSET Processes]
      /\ \A d \in Clients : "server" \in holders'[d] => "server" \in holders[d]
  <2>1. holders \in [Clients -> SUBSET Processes] /\ "child" \in Processes
    BY DEF IInv, Typed, Processes
  <2>2. CASE holders' = [holders EXCEPT ![acced] = @ \cup {"child"}]
    <3>1. \A d \in Clients : holders'[d] = IF d = acced THEN holders[d] \cup {"child"} ELSE holders[d]
      BY <2>1, <2>2
    <3>2. holders' \in [Clients -> SUBSET Processes]
      BY <2>1, <2>2, <3>1
    <3> QED
      BY <3>1, <3>2
  <2>3. CASE holders' = holders
    BY <2>1, <2>3
  <2> QED
    BY <1>1, <2>2, <2>3
<1>6. Typed'
  BY <1>1, <1>3, <1>4, <1>5 DEF IInv, Typed, Processes, ClientSteps
<1>7. Waiting'
  BY <1>1, <1>2, <1>3, <1>4 DEF IInv, Waiting
<1>8. InHand'
  BY <1>1 DEF InHand
<1>9. Rounds'
  <2>1. Messages \in Nat /\ Messages > 0
    BY TcpAssumption
  <2>2. wround[acced] = 0
    BY <1>2 DEF IInv, Rounds
  <2> QED
    BY <1>1, <1>4, <2>1, <2>2 DEF IInv, Rounds
<1>10. OneOpen'
  BY <1>1, <1>2, <1>3, <1>5 DEF IInv, OneOpen
<1> QED
  BY <1>6, <1>7, <1>8, <1>9, <1>10 DEF IInv

LEMMA CloseAccedIInv == IInv /\ CloseAcced => IInv'
<1> SUFFICES ASSUME IInv, CloseAcced PROVE IInv'
  OBVIOUS
<1>1. /\ spc = "close" /\ spc' = "accept"
      /\ holders' = [holders EXCEPT ![acced] = @ \ {"server"}]
      /\ UNCHANGED << program, cpc, cround, backlog, down, acced, wpc, wround, pending, handling >>
  BY DEF CloseAcced, clientVars, workVars, signalVars
<1>2. Forking
  BY <1>1, Steps
<1>3. WorkSteps' = WorkSteps /\ ServerSteps' = ServerSteps /\ Forking' = Forking /\ Queued' = Queued
  BY <1>1 DEF WorkSteps, ServerSteps, Forking, Queued
<1>4. /\ holders' \in [Clients -> SUBSET Processes]
      /\ \A d \in Clients : "server" \notin holders'[d]
  BY <1>1 DEF IInv, Typed, OneOpen
<1>5. Typed'
  BY <1>1, <1>3, <1>4, Steps DEF IInv, Typed, Processes, ClientSteps
<1>6. Waiting' /\ InHand' /\ Rounds' /\ OneOpen'
  BY <1>1, <1>2, <1>3, <1>4 DEF IInv, Waiting, InHand, Rounds, OneOpen
<1> QED
  BY <1>5, <1>6 DEF IInv

-----------------------------------------------------------------------------
(* SIGCHLD.                                                                *)

\* What a step does that touches neither clients nor connections.
LEMMA SameConnections ==
  ASSUME IInv, UNCHANGED << program, cpc, cround, backlog, down, acced, wpc, wround, holders >>,
         spc' \in ServerSteps, (pending' => Forking) /\ (handling' => Forking),
         spc' # spc => spc \in {"accept", "interrupted"} /\ spc' \in {"interrupted", "gone"} /\ Forking
  PROVE  IInv'
<1>1. WorkSteps' = WorkSteps /\ ServerSteps' = ServerSteps /\ Forking' = Forking /\ Queued' = Queued
  BY DEF WorkSteps, ServerSteps, Forking, Queued
<1>2. Typed'
  BY <1>1 DEF IInv, Typed, Processes, ClientSteps
<1>3. Waiting' /\ Rounds'
  BY <1>1 DEF IInv, Waiting, Rounds
<1>4. InHand'
  BY <1>1 DEF IInv, InHand
<1>5. OneOpen'
  BY <1>1 DEF IInv, OneOpen
<1> QED
  BY <1>2, <1>3, <1>4, <1>5 DEF IInv

LEMMA ReapIInv == ASSUME IInv, NEW c \in Clients, Reap(c) PROVE IInv'
<1>1. /\ wpc[c] = "exited" /\ wpc' = [wpc EXCEPT ![c] = "reaped"]
      /\ UNCHANGED << program, cpc, cround, backlog, down, spc, acced, wround, holders,
                      pending, handling >>
  BY DEF Reap, clientVars, signalVars
<1>2. WorkSteps' = WorkSteps /\ ServerSteps' = ServerSteps /\ Forking' = Forking /\ Queued' = Queued
  BY <1>1 DEF WorkSteps, ServerSteps, Forking, Queued
<1>3. Forking
  BY <1>1, Steps DEF IInv, Typed
<1>4. /\ wpc' \in [Clients -> WorkSteps] /\ wpc'[c] = "reaped"
      /\ \A d \in Clients : d # c => wpc'[d] = wpc[d]
  BY <1>1, <1>3, Steps DEF IInv, Typed
<1>5. Typed'
  BY <1>1, <1>2, <1>4 DEF IInv, Typed, Processes, ClientSteps
<1>6. Waiting' /\ InHand'
  BY <1>1, <1>2, <1>4 DEF IInv, Waiting, InHand
<1>7. Rounds' /\ OneOpen'
  BY <1>1, <1>2, <1>3, <1>4 DEF IInv, Rounds, OneOpen
<1> QED
  BY <1>5, <1>6, <1>7 DEF IInv

LEMMA HandlerIInv == IInv /\ Handler => IInv'
<1> SUFFICES ASSUME IInv, Handler PROVE IInv'
  OBVIOUS
<1>1. CASE Signal
  <2>1. /\ Forking /\ handling' = TRUE /\ pending' = FALSE
        /\ spc' = spc \/ (spc = "accept" /\ spc' = "interrupted")
        /\ UNCHANGED << program, cpc, cround, backlog, down, acced, wpc, wround, holders >>
    BY <1>1 DEF IInv, Typed, Signal, clientVars, workVars
  <2>2. spc' \in ServerSteps
    BY <2>1, Steps DEF IInv, Typed
  <2> QED
    BY <2>1, <2>2, SameConnections
<1>2. CASE HandlerReturns
  <2>1. /\ Forking /\ handling' = FALSE /\ pending' = pending
        /\ spc' = spc \/ (spc = "interrupted" /\ spc' = "gone")
        /\ UNCHANGED << program, cpc, cround, backlog, down, acced, wpc, wround, holders >>
    BY <1>2 DEF IInv, Typed, HandlerReturns, clientVars, workVars
  <2>2. spc' \in ServerSteps
    BY <2>1, Steps DEF IInv, Typed
  <2> QED
    BY <2>1, <2>2, SameConnections DEF IInv, Typed
<1> QED
  BY <1>1, <1>2, ReapIInv DEF Handler

-----------------------------------------------------------------------------
(* The process that serves a client.                                       *)

\* What it does to the clients that wait, and to those the server has in hand: nothing.
LEMMA WorkerMoves ==
  ASSUME IInv, NEW c \in Clients, NEW step \in WorkSteps \ {"none"},
         wpc[c] \in {"start", "read", "write", "close"}, wpc' = [wpc EXCEPT ![c] = step],
         UNCHANGED << program, cpc, backlog, acced >>, spc' = spc \/ spc' \in {"accept", "gone"}
  PROVE  /\ Waiting' /\ InHand' /\ wpc' \in [Clients -> WorkSteps] /\ wpc'[c] = step
         /\ \A d \in Clients : d # c => wpc'[d] = wpc[d]
         /\ WorkSteps' = WorkSteps /\ ServerSteps' = ServerSteps /\ Forking' = Forking
<1>1. WorkSteps' = WorkSteps /\ ServerSteps' = ServerSteps /\ Forking' = Forking /\ Queued' = Queued
  BY DEF WorkSteps, ServerSteps, Forking, Queued
<1>2. /\ wpc' \in [Clients -> WorkSteps] /\ wpc'[c] = step /\ wpc[c] # "none"
      /\ \A d \in Clients : d # c => wpc'[d] = wpc[d]
  BY DEF IInv, Typed
<1>3. Waiting'
  BY <1>1, <1>2 DEF IInv, Waiting
<1>4. InHand'
  BY <1>1, <1>2 DEF IInv, InHand
<1> QED
  BY <1>1, <1>2, <1>3, <1>4

\* It goes on with its client, having counted what it has sent.
LEMMA GoesOn ==
  ASSUME IInv, NEW c \in Clients, NEW step \in {"read", "write", "close"},
         wpc[c] \in {"start", "read", "write"}, wpc' = [wpc EXCEPT ![c] = step],
         UNCHANGED << program, cpc, backlog, acced, spc, holders, pending, handling, cround >>,
         \/ UNCHANGED << down, wround >> /\ step # "close"
         \/ /\ down' = [down EXCEPT ![c] = @ + 1] /\ wround' = [wround EXCEPT ![c] = @ + 1]
            /\ step = IF wround[c] + 1 = Messages THEN "close" ELSE "read"
  PROVE  IInv'
<1>1. /\ Waiting' /\ InHand' /\ wpc' \in [Clients -> WorkSteps] /\ wpc'[c] = step
      /\ \A d \in Clients : d # c => wpc'[d] = wpc[d]
      /\ WorkSteps' = WorkSteps /\ ServerSteps' = ServerSteps /\ Forking' = Forking
  <2>1. step \in WorkSteps \ {"none"}
    BY Steps
  <2> QED
    BY <2>1, WorkerMoves
<1>2. down \in [Clients -> Nat] /\ wround \in [Clients -> Nat] /\ cround \in [Clients -> Nat]
  BY DEF IInv, Typed
<1>3. /\ down' \in [Clients -> Nat] /\ wround' \in [Clients -> Nat]
      /\ \A d \in Clients : d # c => down'[d] = down[d] /\ wround'[d] = wround[d]
      /\ \/ down'[c] = down[c] /\ wround'[c] = wround[c] /\ step # "close"
         \/ /\ down'[c] = down[c] + 1 /\ wround'[c] = wround[c] + 1
            /\ step = IF wround[c] + 1 = Messages THEN "close" ELSE "read"
  BY <1>2
<1>4. Typed'
  BY <1>1, <1>3 DEF IInv, Typed, Processes, ClientSteps
<1>5. Rounds'
  <2>1. Messages \in Nat
    BY TcpAssumption
  <2>2. wround[c] < Messages /\ wround[c] = cround[c] + down[c]
    BY DEF IInv, Rounds
  <2>3. ASSUME NEW d \in Clients
        PROVE  /\ wround'[d] = cround'[d] + down'[d] /\ wround'[d] <= Messages
               /\ wpc'[d] = "none" => wround'[d] = 0
               /\ wpc'[d] \in {"start", "read", "write"} => wround'[d] < Messages
    <3>1. CASE d = c
      BY <1>1, <1>2, <1>3, <2>1, <2>2, <3>1
    <3>2. CASE d # c
      BY <1>1, <1>3, <3>2 DEF IInv, Rounds
    <3> QED
      BY <3>1, <3>2
  <2> QED
    BY <2>3 DEF Rounds
<1>6. OneOpen'
  BY <1>1 DEF IInv, OneOpen
<1> QED
  BY <1>1, <1>4, <1>5, <1>6 DEF IInv

\* It ends, as a child that the server is told about, or as the server.
LEMMA Ends ==
  ASSUME IInv, NEW c \in Clients, wpc[c] \in {"start", "read", "write", "close"},
         ~ Forking => spc = "serve",
         UNCHANGED << program, cpc, backlog, acced, cround, down, wround, handling >>,
         \/ /\ Forking /\ wpc' = [wpc EXCEPT ![c] = "exited"]
            /\ holders' = [holders EXCEPT ![c] = @ \ {"child"}] /\ spc' = spc
         \/ /\ ~ Forking /\ wpc' = [wpc EXCEPT ![c] = "gone"] /\ spc' = "gone"
            /\ holders' = [d \in Clients |-> holders[d] \ {"server"}] /\ pending' = pending
         \/ /\ ~ Forking /\ wpc' = [wpc EXCEPT ![c] = "served"] /\ spc' = "accept"
            /\ holders' = [holders EXCEPT ![c] = {}] /\ pending' = pending
  PROVE  IInv'
<1>1. PICK step \in WorkSteps \ {"none", "start", "read", "write", "close"} : wpc' = [wpc EXCEPT ![c] = step]
  BY Steps
<1>2. /\ Waiting' /\ InHand' /\ wpc' \in [Clients -> WorkSteps] /\ wpc'[c] = step
      /\ \A d \in Clients : d # c => wpc'[d] = wpc[d]
      /\ WorkSteps' = WorkSteps /\ ServerSteps' = ServerSteps /\ Forking' = Forking
  BY <1>1, WorkerMoves
<1>3. spc' \in ServerSteps
  BY Steps DEF IInv, Typed
<1>4. ~ Forking => c = acced
  BY DEF IInv, OneOpen
<1>5. /\ holders' \in [Clients -> SUBSET Processes]
      /\ \A d \in Clients : /\ "server" \in holders'[d] => "server" \in holders[d]
                            /\ ~ Forking => "server" \notin holders'[d]
  <2>1. holders \in [Clients -> SUBSET Processes]
    BY DEF IInv, Typed
  <2>2. CASE holders' = [holders EXCEPT ![c] = @ \ {"child"}] /\ Forking
    BY <2>1, <2>2
  <2>3. CASE holders' = [d \in Clients |-> holders[d] \ {"server"}]
    BY <2>1, <2>3
  <2>4. CASE holders' = [holders EXCEPT ![c] = {}] /\ ~ Forking
    <3>1. \A d \in Clients : d # c => "server" \notin holders[d]
      BY <1>4, <2>4 DEF IInv, OneOpen
    <3> QED
      BY <2>1, <2>4, <3>1
  <2> QED
    BY <2>2, <2>3, <2>4
<1>6. Typed'
  BY <1>2, <1>3, <1>5 DEF IInv, Typed, Processes, ClientSteps
<1>7. Rounds'
  BY <1>1, <1>2 DEF IInv, Rounds
<1>8. OneOpen'
  <2>1. CASE Forking
    BY <1>2, <1>5, <2>1 DEF IInv, OneOpen
  <2>2. CASE ~ Forking
    <3>1. \A d \in Clients : wpc'[d] \notin {"start", "read", "write", "close"}
      BY <1>1, <1>2, <1>4, <2>2 DEF IInv, OneOpen
    <3> QED
      BY <1>2, <1>5, <2>2, <3>1 DEF OneOpen
  <2> QED
    BY <2>1, <2>2
<1> QED
  BY <1>2, <1>6, <1>7, <1>8 DEF IInv

LEMMA WorkerIInv == ASSUME IInv, NEW c \in Clients, Worker(c) PROVE IInv'
<1>1. CASE Start(c)
  <2>1. /\ wpc[c] = "start" /\ wpc' = [wpc EXCEPT ![c] = "read"]
        /\ UNCHANGED << program, cpc, backlog, acced, spc, holders, pending, handling, cround,
                        down, wround >>
    BY <1>1 DEF Start, Serves, WorkerGoes, clientVars, signalVars
  <2> QED
    BY <2>1, GoesOn
<1>2. ASSUME Killed(c), wpc[c] \in {"start", "read", "write", "close"}, Forking \/ spc = "serve",
             UNCHANGED << program, cpc, backlog, acced, cround, down, wround, handling >>
      PROVE  IInv'
  BY <1>2, Ends DEF Killed, WorkerEnds, ServerEnds, WorkerGoes
<1>3. CASE Read(c)
  <2>1. /\ wpc[c] = "read" /\ (Forking \/ spc = "serve")
        /\ UNCHANGED << program, cpc, backlog, acced, cround, down, wround, handling >>
        /\ \/ wpc' = [wpc EXCEPT ![c] = "write"] /\ UNCHANGED << holders, spc, pending >>
           \/ Killed(c)
    BY <1>3 DEF Read, Serves, WorkerGoes, clientVars
  <2> QED
    BY <1>2, <2>1, GoesOn
<1>4. CASE Write(c)
  <2>1. /\ wpc[c] = "write" /\ (Forking \/ spc = "serve")
        /\ UNCHANGED << program, cpc, backlog, acced, cround, handling >>
        /\ \/ /\ down' = [down EXCEPT ![c] = @ + 1] /\ wround' = [wround EXCEPT ![c] = @ + 1]
              /\ wpc' = [wpc EXCEPT ![c] = IF wround[c] + 1 = Messages THEN "close" ELSE "read"]
              /\ UNCHANGED << holders, spc, pending >>
           \/ Killed(c) /\ UNCHANGED << down, wround >>
    BY <1>4 DEF Write, Serves, WorkerGoes, clientVars
  <2> QED
    BY <1>2, <2>1, GoesOn
<1>5. CASE Close(c)
  <2>1. /\ wpc[c] = "close" /\ (Forking \/ spc = "serve")
        /\ UNCHANGED << program, cpc, backlog, acced, cround, down, wround, handling >>
    BY <1>5 DEF Close, Serves, clientVars
  <2>2. \/ /\ Forking /\ wpc' = [wpc EXCEPT ![c] = "exited"]
           /\ holders' = [holders EXCEPT ![c] = @ \ {"child"}] /\ spc' = spc
        \/ /\ ~ Forking /\ wpc' = [wpc EXCEPT ![c] = "served"] /\ spc' = "accept"
           /\ holders' = [holders EXCEPT ![c] = {}] /\ pending' = pending
    BY <1>5 DEF Close, WorkerEnds, WorkerGoes
  <2> QED
    BY <2>1, <2>2, Ends
<1> QED
  BY <1>1, <1>3, <1>4, <1>5 DEF Worker

-----------------------------------------------------------------------------
LEMMA NextIInv == IInv /\ [Next]_vars => IInv'
<1> SUFFICES ASSUME IInv, [Next]_vars PROVE IInv'
  OBVIOUS
<1>1. ASSUME NEW c \in Clients, Client(c) \/ ClientCrash(c) \/ Worker(c) PROVE IInv'
  BY <1>1, ConnectIInv, ClientIInv, WorkerIInv DEF Client
<1>2. CASE Main
  BY <1>2, AcceptIInv, ForkIInv, CloseAccedIInv DEF Main
<1>3. CASE Handler
  BY <1>3, HandlerIInv
<1>4. CASE UNCHANGED vars
  <2>1. UNCHANGED << program, cpc, cround, backlog, down, acced, wpc, wround, holders, spc,
                     pending, handling >>
    BY <1>4 DEF vars, clientVars, workVars, signalVars
  <2> QED
    BY <2>1, SameConnections DEF IInv, Typed
<1> QED
  BY <1>1, <1>2, <1>3, <1>4 DEF Next

\* However many clients there are, of however many messages: a client has no more answers
\* than have been sent to it, and those are Messages at most; a server that forks and one
\* that does not keep to their own steps; and but the one accepted connection that it hands
\* on or serves, the server has none open, whatever fork() and the signals do.
THEOREM ServersTypeCorrect == FairSpec => []TypeOK
<1>1. IInv => TypeOK
  <2> SUFFICES ASSUME IInv PROVE TypeOK
    OBVIOUS
  <2>1. ASSUME NEW c \in Clients
        PROVE  cround[c] \in 0 .. wround[c] /\ wround[c] \in 0 .. Messages
    <3>1. /\ cround[c] \in Nat /\ down[c] \in Nat /\ wround[c] \in Nat /\ Messages \in Nat
          /\ wround[c] = cround[c] + down[c] /\ wround[c] <= Messages
      BY TcpAssumption DEF IInv, Typed, Rounds
    <3> QED
      BY <3>1
  <2>2. ASSUME NEW c \in Clients
        PROVE  cpc[c] \in ClientSteps /\ wpc[c] \in WorkSteps
    BY DEF IInv, Typed
  <2> QED
    BY <2>1, <2>2 DEF IInv, Typed, OneOpen, TypeOK, ClientSteps, WorkSteps, ServerSteps
<1> QED
  BY <1>1, InitIInv, NextIInv, PTL DEF FairSpec

-----------------------------------------------------------------------------
(* Who waits for whom.  The one message of a client's exchange is with the *)
(* client, on its way, or with the process that serves it.                 *)

Working == {"start", "read", "write", "close"}
Over    == {"exited", "reaped", "served", "gone"}

Answering(c) == IF wpc[c] = "write" THEN 1 ELSE 0
Asked(c)     == IF cpc[c] = "read" THEN 1 ELSE 0

\* Of a client that goes on there is one message, from its write() to its read().
Exchange ==
  /\ up \in [Clients -> Nat]
  /\ \A c \in Clients : cpc[c] = "connect" => up[c] = 0
  /\ \A c \in Clients : ClientEnd(c) => /\ up[c] + down[c] + Answering(c) = Asked(c)
                                        /\ cround[c] < Messages

\* A process that serves a client holds the connection, and ends before the client's
\* last message only if the client did.
Faithful ==
  \A c \in Clients :
    /\ wpc[c] \in Working => (IF Forking THEN "child" ELSE "server") \in holders[c]
    /\ wpc[c] = "none" => holders[c] \subseteq {"server"}
    /\ wpc[c] = "close" \/ (wpc[c] \in Over /\ ClientEnd(c)) => wround[c] = Messages

\* A client that nobody serves is in the backlog, in the server's hands, or dropped.
Accounted ==
  /\ \A c \in Clients : ClientEnd(c) /\ wpc[c] = "none" =>
       c \in Queued \/ (spc = "fork" /\ c = acced) \/ c \in dropped
  /\ spc = "fork" => holders[acced] = {"server"}
  /\ ~ Forking => dropped = {}

\* A client gives up before anybody serves it, and nobody will.
GivenUp ==
  \A c \in Clients : cpc[c] = "threw" => /\ wpc[c] = "none" /\ (c \in Queued => spc = "gone")
                                         /\ spc = "fork" => c # acced

\* The server has still to hear of a child that has ended, or is being told.
Announced == (\E c \in Clients : wpc[c] = "exited") => pending \/ handling

CareInv == Exchange /\ Faithful /\ Accounted /\ GivenUp /\ Announced

\* Whoever is in recv() has a message, or the end of the stream, to read, or the other
\* side of its connection is about to read, to write or to be started.
WaitsForAnother ==
  \A c \in Clients :
    /\ cpc[c] = "read" =>
         \/ down[c] > 0 \/ ~ ServerEnd(c)
         \/ c \in Queued /\ Listening
         \/ c = acced /\ spc \in {"fork", "close"}
         \/ wpc[c] \in {"start", "write"}
         \/ wpc[c] = "read" /\ up[c] > 0
    /\ wpc[c] = "read" =>
         \/ up[c] > 0 \/ ~ ClientEnd(c)
         \/ cpc[c] = "write"
         \/ cpc[c] = "read" /\ down[c] > 0

\* No client that somebody began to serve sees its connection break.
NoneCutOff == \A c \in Clients : wpc[c] # "none" => cpc[c] # "threw"

-----------------------------------------------------------------------------
LEMMA CareInit == Init => CareInv
<1> SUFFICES ASSUME Init PROVE CareInv
  OBVIOUS
<1>1. /\ backlog = << >> /\ spc = "accept"
      /\ cpc = [c \in Clients |-> "connect"] /\ wpc = [c \in Clients |-> "none"]
      /\ up = [c \in Clients |-> 0] /\ holders = [c \in Clients |-> {}] /\ dropped = {}
  BY DEF Init
<1> QED
  BY <1>1 DEF CareInv, Exchange, Faithful, Accounted, GivenUp, Announced, ClientEnd, Working, Over

\* What a client does leaves the processes alone, and they it.
LEMMA ClientsDo ==
  ASSUME IInv, CareInv, NEW c \in Clients, Faithful',
         UNCHANGED << program, wpc, holders, spc, acced, dropped, pending, handling >>,
         Queued \subseteq Queued', up' \in [Clients -> Nat],
         \A d \in Clients : d # c => /\ cpc'[d] = cpc[d] /\ cround'[d] = cround[d]
                                     /\ up'[d] = up[d] /\ down'[d] = down[d]
                                     /\ d \in Queued' <=> d \in Queued,
         ClientEnd(c)' => /\ up'[c] + down'[c] + Answering(c) = Asked(c)'
                          /\ cround'[c] < Messages
                          /\ wpc[c] = "none" => c \in Queued' \/ ClientEnd(c),
         cpc'[c] # "connect",
         cpc'[c] = "threw" => /\ wpc[c] = "none" /\ (c \in Queued' => spc = "gone")
                              /\ spc = "fork" => c # acced
  PROVE  CareInv'
<1>1. Exchange'
  BY DEF CareInv, Exchange, ClientEnd, Answering, Asked
<1>2. Accounted'
  BY DEF CareInv, Accounted, ClientEnd, Forking
<1>3. GivenUp'
  BY DEF CareInv, GivenUp
<1>4. Announced'
  BY DEF CareInv, Announced
<1> QED
  BY <1>1, <1>2, <1>3, <1>4 DEF CareInv

LEMMA ConnectCare == ASSUME IInv, CareInv, NEW c \in Clients, Connect(c) PROVE CareInv'
<1>1. /\ cpc[c] = "connect"
      /\ \/ cpc' = [cpc EXCEPT ![c] = "write"] /\ backlog' = Append(backlog, c)
         \/ ~ Listening /\ cpc' = [cpc EXCEPT ![c] = "threw"] /\ backlog' = backlog
      /\ UNCHANGED << program, cround, up, down, spc, acced, wpc, wround, holders, pending,
                      handling, dropped >>
  BY DEF Connect, ClientGoes, workVars, signalVars
<1>2. /\ backlog \in Seq(Clients) /\ cpc \in [Clients -> ClientSteps]
      /\ cround \in [Clients -> Nat] /\ down \in [Clients -> Nat]
  BY DEF IInv, Typed
<1>3. /\ c \notin Queued /\ wpc[c] = "none" /\ wround[c] = 0
      /\ wround[c] = cround[c] + down[c] /\ up[c] = 0 /\ (spc = "fork" => acced # c)
  BY <1>1 DEF IInv, Waiting, InHand, Rounds, CareInv, Exchange
<1>4. cround[c] = 0 /\ down[c] = 0 /\ cround[c] < Messages
  BY <1>2, <1>3, TcpAssumption
<1>5. \/ cpc'[c] = "write" /\ Queued' = Queued \cup {c}
      \/ cpc'[c] = "threw" /\ Queued' = Queued
  <2>1. CASE backlog' = Append(backlog, c) /\ cpc' = [cpc EXCEPT ![c] = "write"]
    BY <1>2, <2>1, Joins
  <2>2. CASE backlog' = backlog /\ cpc' = [cpc EXCEPT ![c] = "threw"]
    BY <1>2, <2>2 DEF Queued
  <2> QED
    BY <1>1, <2>1, <2>2
<1>6. Faithful'
  <2>1. \A d \in Clients : wpc[d] \in Over => d # c
    BY <1>3 DEF Over
  <2>2. \A d \in Clients : d # c => cpc'[d] = cpc[d]
    BY <1>1, <1>2
  <2> QED
    BY <1>1, <1>3, <2>1, <2>2 DEF CareInv, Faithful, ClientEnd, Forking
<1>8. up \in [Clients -> Nat]
  BY DEF CareInv, Exchange
<1>9. /\ \A d \in Clients : d # c => /\ cpc'[d] = cpc[d] /\ cround'[d] = cround[d]
                                     /\ up'[d] = up[d] /\ down'[d] = down[d]
                                     /\ d \in Queued' <=> d \in Queued
      /\ Queued \subseteq Queued'
  BY <1>1, <1>2, <1>5
<1>10. ClientEnd(c)' => /\ up'[c] + down'[c] + Answering(c) = Asked(c)'
                        /\ cround'[c] < Messages
                        /\ wpc[c] = "none" => c \in Queued' \/ ClientEnd(c)
  BY <1>1, <1>2, <1>3, <1>4, <1>5 DEF ClientEnd, Answering, Asked
<1>11. /\ cpc'[c] # "connect"
       /\ cpc'[c] = "threw" => /\ wpc[c] = "none" /\ (c \in Queued' => spc = "gone")
                               /\ spc = "fork" => c # acced
  BY <1>3, <1>5
<1> QED
  BY <1>1, <1>6, <1>8, <1>9, <1>10, <1>11, ClientsDo

\* The connection of a client that reads or writes breaks only before anybody serves it.
LEMMA Breaks ==
  ASSUME IInv, CareInv, NEW c \in Clients, ClientEnd(c), ~ ServerEnd(c),
         cpc[c] = "read" => down[c] = 0
  PROVE  /\ wpc[c] = "none" /\ (c \in Queued => spc = "gone")
         /\ spc = "fork" => c # acced
<1>1. holders[c] = {} /\ ~ (Listening /\ c \in Queued)
  <2>1. holders[c] = {} /\ ~ (Listening /\ \E i \in DOMAIN backlog : backlog[i] = c)
    BY DEF ServerEnd
  <2>2. backlog \in Seq(Clients)
    BY DEF IInv, Typed
  <2>3. DOMAIN backlog = 1 .. Len(backlog)
    BY <2>2, LenProperties
  <2> QED
    BY <2>1, <2>3 DEF Queued
<1>2. /\ up[c] \in Nat /\ down[c] \in Nat /\ cround[c] \in Nat /\ wpc[c] \in WorkSteps
      /\ wround[c] = cround[c] + down[c] /\ up[c] + down[c] + Answering(c) = Asked(c)
      /\ cround[c] < Messages /\ Messages \in Nat
  BY TcpAssumption DEF IInv, Typed, Rounds, CareInv, Exchange
<1>3. wpc[c] \notin Working
  BY <1>1 DEF CareInv, Faithful
<1>4. wpc[c] \notin Over
  <2> SUFFICES ASSUME wpc[c] \in Over PROVE FALSE
    OBVIOUS
  <2>1. wround[c] = Messages
    BY DEF CareInv, Faithful
  <2>2. cpc[c] = "write" \/ cpc[c] = "read"
    BY DEF ClientEnd
  <2>3. down[c] = 0
    BY <1>2, <2>2 DEF Asked, Answering
  <2> QED
    BY <1>2, <2>1, <2>3
<1>5. wpc[c] = "none"
  BY <1>2, <1>3, <1>4 DEF WorkSteps, Working, Over
<1>6. c \in Queued => spc = "gone"
  BY <1>1 DEF Listening
<1>7. spc = "fork" => c # acced
  BY <1>1 DEF CareInv, Accounted
<1> QED
  BY <1>5, <1>6, <1>7

LEMMA ClientCare ==
  ASSUME IInv, CareInv, NEW c \in Clients, ClientWrite(c) \/ ClientRead(c) \/ ClientCrash(c)
  PROVE  CareInv'
<1>1. /\ UNCHANGED << program, backlog, wpc, wround, holders, spc, acced, dropped, pending, handling >>
      /\ ClientEnd(c)
  BY DEF ClientWrite, ClientRead, ClientCrash, ClientEnd, workVars, signalVars
<1>2. /\ up \in [Clients -> Nat] /\ down \in [Clients -> Nat] /\ cround \in [Clients -> Nat]
      /\ cpc \in [Clients -> ClientSteps] /\ up[c] + down[c] + Answering(c) = Asked(c)
      /\ cround[c] < Messages /\ Messages \in Nat /\ Queued' = Queued
  BY <1>1, TcpAssumption DEF IInv, Typed, CareInv, Exchange, Queued
<1>3. /\ up' \in [Clients -> Nat] /\ cpc' = [cpc EXCEPT ![c] = cpc'[c]]
      /\ cpc'[c] \in {"write", "read", "done", "threw", "crashed"}
      /\ \A d \in Clients : d # c => /\ cpc'[d] = cpc[d] /\ cround'[d] = cround[d]
                                     /\ up'[d] = up[d] /\ down'[d] = down[d]
      /\ ClientEnd(c)' => /\ up'[c] + down'[c] + Answering(c) = Asked(c)'
                          /\ cround'[c] < Messages
      /\ cpc'[c] = "threw" => ~ ServerEnd(c) /\ (cpc[c] = "read" => down[c] = 0)
  <2>1. Answering(c) \in {0, 1}
    BY DEF Answering
  <2>2. CASE ClientWrite(c)
    BY <1>2, <2>1, <2>2 DEF ClientWrite, ClientGoes, ClientEnd, Asked
  <2>3. CASE ClientRead(c)
    <3>1. CASE down[c] > 0
      <4>1. /\ cpc[c] = "read" /\ up' = up
            /\ down' = [down EXCEPT ![c] = @ - 1] /\ cround' = [cround EXCEPT ![c] = @ + 1]
            /\ cpc' = [cpc EXCEPT ![c] = IF cround[c] + 1 = Messages THEN "done" ELSE "write"]
        BY <2>3, <3>1 DEF ClientRead, ClientGoes
      <4>2. /\ cpc'[c] = IF cround[c] + 1 = Messages THEN "done" ELSE "write"
            /\ down'[c] = down[c] - 1 /\ cround'[c] = cround[c] + 1
        BY <1>2, <4>1
      <4>3. up[c] + down[c] + Answering(c) = 1
        BY <1>2, <4>1 DEF Asked
      <4> QED
        BY <1>2, <2>1, <4>1, <4>2, <4>3 DEF ClientEnd, Asked
    <3>2. CASE ~ (down[c] > 0)
      <4>1. /\ UNCHANGED << up, down, cround >> /\ down[c] = 0 /\ ~ ServerEnd(c)
            /\ cpc' = [cpc EXCEPT ![c] = "threw"]
        BY <2>3, <3>2 DEF ClientRead, ClientGoes
      <4> QED
        BY <1>2, <4>1 DEF ClientEnd
    <3> QED
      BY <3>1, <3>2
  <2>4. CASE ClientCrash(c)
    BY <1>2, <2>1, <2>4 DEF ClientCrash, ClientGoes, ClientEnd, Asked
  <2> QED
    BY <2>2, <2>3, <2>4
<1>4. Faithful'
  BY <1>1, <1>2, <1>3 DEF CareInv, Faithful, ClientEnd, Forking
<1> QED
  BY <1>1, <1>2, <1>3, <1>4, Breaks, ClientsDo

-----------------------------------------------------------------------------
LEMMA AcceptCare == ASSUME IInv, CareInv, Accept PROVE CareInv'
<1> DEFINE c == Head(backlog)
<1>1. /\ spc = "accept" /\ backlog # << >> /\ acced' = c /\ backlog' = Tail(backlog)
      /\ holders' = [holders EXCEPT ![c] = {"server"}]
      /\ \/ Forking /\ spc' = "fork" /\ wpc' = wpc
         \/ ~ Forking /\ spc' = "serve" /\ wpc' = [wpc EXCEPT ![c] = "read"]
      /\ UNCHANGED << program, cpc, cround, up, down, wround, dropped, pending, handling >>
  BY DEF Accept, clientVars, signalVars
<1>2. c \in Clients /\ c \in Queued /\ Queued' = Queued \ {c}
  BY <1>1, Leaves DEF IInv, Typed, Waiting
<1> HIDE DEF c
<1>3. wpc[c] = "none" /\ cpc[c] # "connect" /\ cpc[c] # "threw"
  BY <1>1, <1>2 DEF IInv, Waiting, CareInv, GivenUp
<1>4. /\ \A d \in Clients : d # c => wpc'[d] = wpc[d] /\ holders'[d] = holders[d]
      /\ (wpc'[c] = "none" /\ Forking) \/ (wpc'[c] = "read" /\ ~ Forking)
      /\ holders'[c] = {"server"}
  BY <1>1, <1>2, <1>3 DEF IInv, Typed
<1>5. \A d \in Clients : Answering(d)' = Answering(d)
  BY <1>3, <1>4 DEF Answering
<1>6. Exchange'
  BY <1>1, <1>5 DEF CareInv, Exchange, ClientEnd, Asked
<1>7. Faithful'
  <2>1. ASSUME NEW d \in Clients, d # c
        PROVE  /\ wpc'[d] \in Working => (IF Forking THEN "child" ELSE "server") \in holders'[d]
               /\ wpc'[d] = "none" => holders'[d] \subseteq {"server"}
               /\ wpc'[d] = "close" \/ (wpc'[d] \in Over /\ ClientEnd(d)) => wround[d] = Messages
    BY <1>4, <2>1 DEF CareInv, Faithful
  <2>2. /\ wpc'[c] \in Working => (IF Forking THEN "child" ELSE "server") \in holders'[c]
        /\ wpc'[c] # "close" /\ wpc'[c] \notin Over
    BY <1>4 DEF Working, Over
  <2> QED
    BY <1>1, <1>4, <2>1, <2>2 DEF Faithful, Forking, ClientEnd
<1>8. Accounted'
  BY <1>1, <1>2, <1>4 DEF CareInv, Accounted, ClientEnd, Forking
<1>9. GivenUp'
  BY <1>1, <1>2, <1>3, <1>4 DEF CareInv, GivenUp
<1>10. Announced'
  BY <1>1, <1>4 DEF CareInv, Announced
<1> QED
  BY <1>6, <1>7, <1>8, <1>9, <1>10 DEF CareInv

LEMMA ForkCare == ASSUME IInv, CareInv, Fork PROVE CareInv'
<1>1. /\ spc = "fork" /\ spc' = "close"
      /\ \/ /\ wpc' = [wpc EXCEPT ![acced] = "start"]
            /\ holders' = [holders EXCEPT ![acced] = @ \cup {"child"}] /\ dropped' = dropped
         \/ wpc' = wpc /\ holders' = holders /\ dropped' = dropped \cup {acced}
      /\ UNCHANGED << program, cpc, cround, up, down, backlog, acced, wround, pending, handling >>
  BY DEF Fork, clientVars, signalVars
<1>2. /\ Forking /\ acced \in Clients /\ wpc[acced] = "none" /\ cpc[acced] # "connect"
      /\ acced \notin Queued /\ holders[acced] = {"server"} /\ cpc[acced] # "threw"
      /\ Queued' = Queued
  BY <1>1, Steps DEF IInv, InHand, CareInv, Accounted, GivenUp, Queued
<1>3. /\ \A d \in Clients : d # acced => wpc'[d] = wpc[d] /\ holders'[d] = holders[d]
      /\ \/ wpc'[acced] = "start" /\ "child" \in holders'[acced]
         \/ wpc'[acced] = "none" /\ holders'[acced] = {"server"} /\ acced \in dropped'
  BY <1>1, <1>2 DEF IInv, Typed
<1>4. \A d \in Clients : Answering(d)' = Answering(d)
  BY <1>2, <1>3 DEF Answering
<1>5. Exchange'
  BY <1>1, <1>4 DEF CareInv, Exchange, ClientEnd, Asked
<1>6. Faithful'
  <2>1. ASSUME NEW d \in Clients, d # acced
        PROVE  /\ wpc'[d] \in Working => (IF Forking THEN "child" ELSE "server") \in holders'[d]
               /\ wpc'[d] = "none" => holders'[d] \subseteq {"server"}
               /\ wpc'[d] = "close" \/ (wpc'[d] \in Over /\ ClientEnd(d)) => wround[d] = Messages
    BY <1>3, <2>1 DEF CareInv, Faithful
  <2>2. /\ wpc'[acced] \in Working => "child" \in holders'[acced]
        /\ wpc'[acced] = "none" => holders'[acced] \subseteq {"server"}
        /\ wpc'[acced] # "close" /\ wpc'[acced] \notin Over
    BY <1>3 DEF Working, Over
  <2> QED
    BY <1>1, <1>2, <2>1, <2>2 DEF Faithful, Forking, ClientEnd
<1>7. Accounted'
  BY <1>1, <1>2, <1>3 DEF CareInv, Accounted, ClientEnd, Forking
<1>8. GivenUp'
  BY <1>1, <1>2, <1>3 DEF CareInv, GivenUp
<1>9. Announced'
  BY <1>1, <1>2, <1>3 DEF CareInv, Announced
<1> QED
  BY <1>5, <1>6, <1>7, <1>8, <1>9 DEF CareInv

LEMMA CloseAccedCare == ASSUME IInv, CareInv, CloseAcced PROVE CareInv'
<1>1. /\ spc = "close" /\ spc' = "accept"
      /\ holders' = [holders EXCEPT ![acced] = @ \ {"server"}]
      /\ UNCHANGED << program, cpc, cround, up, down, backlog, acced, wpc, wround, pending,
                      handling, dropped >>
  BY DEF CloseAcced, clientVars, workVars, signalVars
<1>2. Forking /\ Queued' = Queued
  BY <1>1, Steps DEF Queued
<1>3. \A d \in Clients : holders'[d] = holders[d] \/ holders'[d] = holders[d] \ {"server"}
  BY <1>1 DEF IInv, Typed
<1>4. Exchange' /\ Accounted' /\ GivenUp' /\ Announced'
  BY <1>1, <1>2 DEF CareInv, Exchange, Accounted, GivenUp, Announced, ClientEnd, Asked, Answering, Forking
<1>5. Faithful'
  BY <1>1, <1>2, <1>3 DEF CareInv, Faithful, ClientEnd, Forking
<1> QED
  BY <1>4, <1>5 DEF CareInv

LEMMA HandlerCare == ASSUME IInv, CareInv, Handler PROVE CareInv'
<1>1. ASSUME UNCHANGED << program, cpc, cround, up, down, backlog, acced, wpc, wround, holders, dropped >>,
             spc' = spc \/ (spc # "gone" /\ spc # "fork" /\ spc' \in {"interrupted", "gone"}),
             Announced'
      PROVE  CareInv'
  <2>1. Queued' = Queued
    BY <1>1 DEF Queued
  <2>2. Exchange' /\ Faithful'
    BY <1>1 DEF CareInv, Exchange, Faithful, ClientEnd, Asked, Answering, Forking
  <2>3. Accounted'
    BY <1>1, <2>1 DEF CareInv, Accounted, ClientEnd, Forking
  <2> QED
    BY <1>1, <2>1, <2>2, <2>3 DEF CareInv, GivenUp
<1>2. CASE Signal
  BY <1>1, <1>2 DEF Signal, clientVars, workVars, Announced
<1>3. CASE HandlerReturns
  BY <1>1, <1>3 DEF HandlerReturns, clientVars, workVars, Announced
<1>4. ASSUME NEW c \in Clients, Reap(c) PROVE CareInv'
  <2>1. /\ handling /\ wpc[c] = "exited" /\ wpc' = [wpc EXCEPT ![c] = "reaped"]
        /\ UNCHANGED << program, cpc, cround, up, down, backlog, spc, acced, wround, holders,
                        pending, handling, dropped >>
    BY <1>4 DEF Reap, clientVars, signalVars
  <2>2. /\ Queued' = Queued /\ wpc'[c] = "reaped"
        /\ \A d \in Clients : d # c => wpc'[d] = wpc[d]
    BY <2>1 DEF Queued, IInv, Typed
  <2>3. Exchange'
    BY <2>1, <2>2 DEF CareInv, Exchange, ClientEnd, Asked, Answering
  <2>4. Faithful'
    <3>1. \A d \in Clients : /\ wpc'[d] \in Working => wpc[d] \in Working
                             /\ wpc'[d] \in Over => wpc[d] \in Over
                             /\ wpc'[d] \in {"none", "close"} => wpc[d] = wpc'[d]
      BY <2>1, <2>2 DEF Working, Over
    <3> QED
      BY <2>1, <3>1 DEF CareInv, Faithful, ClientEnd, Forking
  <2>5. Accounted' /\ GivenUp' /\ Announced'
    BY <2>1, <2>2 DEF CareInv, Accounted, GivenUp, Announced, ClientEnd, Forking
  <2> QED
    BY <2>3, <2>4, <2>5 DEF CareInv
<1> QED
  BY <1>2, <1>3, <1>4 DEF Handler

-----------------------------------------------------------------------------
\* What the process that serves a client leaves alone.
LEMMA WorkersDo ==
  ASSUME IInv, CareInv, NEW c \in Clients, NEW step \in Working \cup Over,
         wpc[c] \in Working, wpc' = [wpc EXCEPT ![c] = step], Faithful',
         UNCHANGED << program, cpc, cround, backlog, acced, dropped, handling >>,
         up' \in [Clients -> Nat],
         \A d \in Clients : d # c => up'[d] = up[d] /\ down'[d] = down[d],
         ClientEnd(c) => up'[c] + down'[c] + Answering(c)' = Asked(c),
         spc' = spc \/ (spc = "serve" /\ spc' \in {"accept", "gone"}),
         spc = "fork" => \A d \in Clients : d # c => holders'[d] = holders[d],
         pending => pending', step = "exited" => pending'
  PROVE  CareInv'
<1>1. /\ Queued' = Queued /\ wpc'[c] = step /\ wpc[c] # "none" /\ step # "none"
      /\ \A d \in Clients : d # c => wpc'[d] = wpc[d]
  BY DEF Queued, IInv, Typed, Working, Over
<1>2. c \notin Queued /\ cpc[c] # "connect" /\ cpc[c] # "threw" /\ (spc = "fork" => acced # c)
  BY <1>1 DEF IInv, Waiting, InHand, CareInv, GivenUp
<1>3. \A d \in Clients : d # c => Answering(d)' = Answering(d)
  BY <1>1 DEF Answering
<1>4. Exchange'
  BY <1>2, <1>3 DEF CareInv, Exchange, ClientEnd, Asked
<1>5. Accounted'
  BY <1>1, <1>2 DEF CareInv, Accounted, ClientEnd, Forking, IInv, InHand
<1>6. GivenUp'
  <2>1. spc = "gone" => spc' = "gone"
    OBVIOUS
  <2>2. spc' = "fork" => spc = "fork"
    OBVIOUS
  <2> QED
    BY <1>1, <1>2, <2>1, <2>2 DEF CareInv, GivenUp
<1>7. Announced'
  BY <1>1 DEF CareInv, Announced
<1> QED
  BY <1>4, <1>5, <1>6, <1>7 DEF CareInv

\* It goes on with its client.
LEMMA GoesOnCare ==
  ASSUME IInv, CareInv, NEW c \in Clients, NEW step \in {"read", "write", "close"},
         wpc[c] \in {"start", "read", "write"}, wpc' = [wpc EXCEPT ![c] = step],
         UNCHANGED << program, cpc, cround, backlog, acced, dropped, handling, spc, holders, pending >>,
         up' \in [Clients -> Nat],
         \A d \in Clients : d # c => /\ up'[d] = up[d] /\ down'[d] = down[d]
                                     /\ wround'[d] = wround[d],
         ClientEnd(c) => up'[c] + down'[c] + Answering(c)' = Asked(c),
         step = "close" => wround'[c] = Messages
  PROVE  CareInv'
<1>1. wpc'[c] = step /\ \A d \in Clients : d # c => wpc'[d] = wpc[d]
  BY DEF IInv, Typed
<1>2. Faithful'
  <2>1. ASSUME NEW d \in Clients, d # c
        PROVE  /\ wpc'[d] \in Working => (IF Forking THEN "child" ELSE "server") \in holders[d]
               /\ wpc'[d] = "none" => holders[d] \subseteq {"server"}
               /\ wpc'[d] = "close" \/ (wpc'[d] \in Over /\ ClientEnd(d)) => wround'[d] = Messages
    BY <1>1, <2>1 DEF CareInv, Faithful
  <2>2. wpc'[c] \notin Over /\ wpc'[c] # "none" /\ wpc[c] \in Working
    BY <1>1 DEF Over, Working
  <2>3. (IF Forking THEN "child" ELSE "server") \in holders[c]
    BY <2>2 DEF CareInv, Faithful
  <2> QED
    BY <1>1, <2>1, <2>2, <2>3 DEF Faithful, Forking, ClientEnd
<1> QED
  BY <1>2, WorkersDo DEF Working

\* It ends: after the last message, or because its client has ended.
LEMMA EndsCare ==
  ASSUME IInv, CareInv, NEW c \in Clients, wpc[c] \in Working,
         wpc[c] = "close" \/ ~ ClientEnd(c), ~ Forking => spc = "serve",
         UNCHANGED << program, cpc, cround, backlog, acced, dropped, handling, up, down, wround >>,
         \/ /\ Forking /\ wpc' = [wpc EXCEPT ![c] = "exited"] /\ pending' = TRUE
            /\ holders' = [holders EXCEPT ![c] = @ \ {"child"}] /\ spc' = spc
         \/ /\ ~ Forking /\ wpc' = [wpc EXCEPT ![c] = "gone"] /\ spc' = "gone"
            /\ holders' = [d \in Clients |-> holders[d] \ {"server"}] /\ pending' = pending
         \/ /\ ~ Forking /\ wpc' = [wpc EXCEPT ![c] = "served"] /\ spc' = "accept"
            /\ holders' = [holders EXCEPT ![c] = {}] /\ pending' = pending
  PROVE  CareInv'
<1>1. PICK step \in Over : wpc' = [wpc EXCEPT ![c] = step] /\ (step = "exited" => pending')
  BY DEF Over
<1>2. wpc'[c] = step /\ \A d \in Clients : d # c => wpc'[d] = wpc[d]
  BY <1>1 DEF IInv, Typed
<1>3. ClientEnd(c) => wround[c] = Messages
  BY DEF CareInv, Faithful
<1>4. /\ \A d \in Clients : holders'[d] \subseteq holders[d]
      /\ Forking => \A d \in Clients : d # c => holders'[d] = holders[d]
  BY DEF IInv, Typed
<1>5. Faithful'
  <2>1. ASSUME NEW d \in Clients, d # c
        PROVE  /\ wpc'[d] \in Working => (IF Forking THEN "child" ELSE "server") \in holders'[d]
               /\ wpc'[d] = "none" => holders'[d] \subseteq {"server"}
               /\ wpc'[d] = "close" \/ (wpc'[d] \in Over /\ ClientEnd(d)) => wround[d] = Messages
    <3>1. ~ Forking => wpc[d] \notin Working
      <4> SUFFICES ASSUME ~ Forking PROVE wpc[d] \notin Working
        OBVIOUS
      <4>1. c = acced
        BY DEF IInv, OneOpen, Working
      <4> QED
        BY <2>1, <4>1 DEF IInv, OneOpen, Working
    <3>2. wpc'[d] \in Working => (IF Forking THEN "child" ELSE "server") \in holders'[d]
      BY <1>2, <1>4, <2>1, <3>1 DEF CareInv, Faithful
    <3>3. wpc'[d] = "none" => holders'[d] \subseteq {"server"}
      BY <1>2, <1>4, <2>1 DEF CareInv, Faithful
    <3> QED
      BY <1>2, <2>1, <3>2, <3>3 DEF CareInv, Faithful
  <2>2. wpc'[c] \notin Working /\ wpc'[c] # "none" /\ wpc'[c] # "close"
    BY <1>2 DEF Over, Working
  <2> QED
    BY <1>3, <2>1, <2>2 DEF Faithful, Forking, ClientEnd
<1>6. up \in [Clients -> Nat] /\ (ClientEnd(c) => up[c] + down[c] + Answering(c)' = Asked(c))
  <2>1. ClientEnd(c) => Answering(c) = 0
    BY DEF Answering
  <2>2. Answering(c)' = 0
    BY <1>2 DEF Answering, Over
  <2> QED
    BY <2>1, <2>2 DEF CareInv, Exchange
<1>7. pending => pending'
  OBVIOUS
<1>8. spc = "fork" => \A d \in Clients : d # c => holders'[d] = holders[d]
  BY <1>4, Steps
<1>9. spc' = spc \/ (spc = "serve" /\ spc' \in {"accept", "gone"})
  OBVIOUS
<1> QED
  BY <1>1, <1>5, <1>6, <1>7, <1>8, <1>9, WorkersDo

LEMMA WorkerCare == ASSUME IInv, CareInv, NEW c \in Clients, Worker(c) PROVE CareInv'
<1>1. /\ up \in [Clients -> Nat] /\ down \in [Clients -> Nat] /\ wround \in [Clients -> Nat]
      /\ wpc \in [Clients -> WorkSteps]
      /\ ClientEnd(c) => up[c] + down[c] + Answering(c) = Asked(c)
  BY DEF IInv, Typed, CareInv, Exchange
<1>2. ASSUME Killed(c), wpc[c] \in Working, Forking \/ spc = "serve",
             UNCHANGED << program, cpc, cround, backlog, acced, dropped, handling, up, down, wround >>
      PROVE  CareInv'
  BY <1>2, EndsCare DEF Killed, WorkerEnds, ServerEnds, WorkerGoes
<1>3. CASE Start(c)
  <2>1. /\ wpc[c] = "start" /\ wpc' = [wpc EXCEPT ![c] = "read"]
        /\ UNCHANGED << program, cpc, cround, backlog, acced, dropped, handling, spc, holders,
                        pending, up, down, wround >>
    BY <1>3 DEF Start, Serves, WorkerGoes, clientVars, signalVars
  <2>2. Answering(c)' = 0 /\ Answering(c) = 0
    BY <1>1, <2>1 DEF Answering
  <2> QED
    BY <1>1, <2>1, <2>2, GoesOnCare
<1>4. CASE Read(c)
  <2>1. /\ wpc[c] = "read" /\ (Forking \/ spc = "serve")
        /\ UNCHANGED << program, cpc, cround, backlog, acced, dropped, handling, down, wround >>
        /\ \/ /\ up[c] > 0 \/ ~ ClientEnd(c)
              /\ up' = [up EXCEPT ![c] = IF @ > 0 THEN @ - 1 ELSE 0]
              /\ wpc' = [wpc EXCEPT ![c] = "write"] /\ UNCHANGED << holders, spc, pending >>
           \/ Killed(c) /\ up' = up
    BY <1>4 DEF Read, Serves, WorkerGoes, clientVars
  <2>2. CASE wpc' = [wpc EXCEPT ![c] = "write"]
             /\ UNCHANGED << holders, spc, pending >>
             /\ up' = [up EXCEPT ![c] = IF @ > 0 THEN @ - 1 ELSE 0]
             /\ (up[c] > 0 \/ ~ ClientEnd(c))
    <3>1. /\ up' \in [Clients -> Nat] /\ (ClientEnd(c) => up'[c] = up[c] - 1)
          /\ \A d \in Clients : d # c => up'[d] = up[d]
      BY <1>1, <2>2
    <3>2. Answering(c)' = 1 /\ Answering(c) = 0
      BY <1>1, <2>1, <2>2 DEF Answering
    <3>3. ClientEnd(c) => up'[c] + down'[c] + Answering(c)' = Asked(c)
      BY <1>1, <2>1, <3>1, <3>2
    <3> QED
      BY <2>1, <2>2, <3>1, <3>3, GoesOnCare
  <2>3. CASE Killed(c) /\ up' = up
    BY <1>2, <2>1, <2>3 DEF Working
  <2> QED
    BY <2>1, <2>2, <2>3
<1>5. CASE Write(c)
  <2>1. /\ wpc[c] = "write" /\ (Forking \/ spc = "serve")
        /\ UNCHANGED << program, cpc, cround, backlog, acced, dropped, handling, up >>
        /\ \/ /\ down' = [down EXCEPT ![c] = @ + 1] /\ wround' = [wround EXCEPT ![c] = @ + 1]
              /\ wpc' = [wpc EXCEPT ![c] = IF wround[c] + 1 = Messages THEN "close" ELSE "read"]
              /\ UNCHANGED << holders, spc, pending >>
           \/ Killed(c) /\ UNCHANGED << down, wround >>
    BY <1>5 DEF Write, Serves, WorkerGoes, clientVars
  <2>2. CASE /\ down' = [down EXCEPT ![c] = @ + 1] /\ wround' = [wround EXCEPT ![c] = @ + 1]
             /\ wpc' = [wpc EXCEPT ![c] = IF wround[c] + 1 = Messages THEN "close" ELSE "read"]
             /\ UNCHANGED << holders, spc, pending >>
    <3>1. /\ down'[c] = down[c] + 1 /\ wround'[c] = wround[c] + 1
          /\ \A d \in Clients : d # c => down'[d] = down[d] /\ wround'[d] = wround[d]
      BY <1>1, <2>2
    <3>2. Answering(c)' = 0 /\ Answering(c) = 1
      BY <1>1, <2>1, <2>2 DEF Answering
    <3>3. ClientEnd(c) => up'[c] + down'[c] + Answering(c)' = Asked(c)
      BY <1>1, <2>1, <3>1, <3>2
    <3> QED
      BY <1>1, <2>1, <2>2, <3>1, <3>3, GoesOnCare
  <2>3. CASE Killed(c) /\ UNCHANGED << down, wround >>
    BY <1>2, <2>1, <2>3 DEF Working
  <2> QED
    BY <2>1, <2>2, <2>3
<1>6. CASE Close(c)
  <2>1. /\ wpc[c] = "close" /\ (Forking \/ spc = "serve")
        /\ UNCHANGED << program, cpc, cround, backlog, acced, dropped, handling, up, down, wround >>
    BY <1>6 DEF Close, Serves, clientVars
  <2>2. \/ /\ Forking /\ wpc' = [wpc EXCEPT ![c] = "exited"] /\ pending' = TRUE
           /\ holders' = [holders EXCEPT ![c] = @ \ {"child"}] /\ spc' = spc
        \/ /\ ~ Forking /\ wpc' = [wpc EXCEPT ![c] = "served"] /\ spc' = "accept"
           /\ holders' = [holders EXCEPT ![c] = {}] /\ pending' = pending
    BY <1>6 DEF Close, WorkerEnds, WorkerGoes
  <2> QED
    BY <2>1, <2>2, EndsCare DEF Working
<1> QED
  BY <1>3, <1>4, <1>5, <1>6 DEF Worker

LEMMA CareNext == IInv /\ CareInv /\ [Next]_vars => CareInv'
<1> SUFFICES ASSUME IInv, CareInv, [Next]_vars PROVE CareInv'
  OBVIOUS
<1>1. ASSUME NEW c \in Clients, Client(c) \/ ClientCrash(c) \/ Worker(c) PROVE CareInv'
  BY <1>1, ConnectCare, ClientCare, WorkerCare DEF Client
<1>2. CASE Main
  BY <1>2, AcceptCare, ForkCare, CloseAccedCare DEF Main
<1>3. CASE Handler
  BY <1>3, HandlerCare
<1>4. CASE UNCHANGED vars
  <2>1. UNCHANGED << program, cpc, cround, backlog, up, down, acced, wpc, wround, holders, spc,
                     pending, handling, dropped >>
    BY <1>4 DEF vars, clientVars, workVars, signalVars
  <2>2. Queued' = Queued
    BY <2>1 DEF Queued
  <2> QED
    BY <2>1, <2>2 DEF CareInv, Exchange, Faithful, Accounted, GivenUp, Announced, ClientEnd,
                      Answering, Asked, Forking
<1> QED
  BY <1>1, <1>2, <1>3, <1>4 DEF Next

\* The parts of Served and Reaped that are about states.  However many clients there are,
\* whichever of them crash, and however the signals fall: no client that a process has
\* begun to serve sees its connection break; whoever waits in recv() waits for somebody
\* who is about to act on its connection; and an ended child is never forgotten, for the
\* signal is pending or the handler still in its loop.
THEOREM NobodyForgotten == FairSpec => [](NoneCutOff /\ WaitsForAnother /\ Announced)
<1>1. ASSUME IInv, CareInv PROVE WaitsForAnother
  <2> SUFFICES ASSUME NEW c \in Clients
               PROVE  /\ cpc[c] = "read" =>
                           \/ down[c] > 0 \/ ~ ServerEnd(c)
                           \/ c \in Queued /\ Listening
                           \/ c = acced /\ spc \in {"fork", "close"}
                           \/ wpc[c] \in {"start", "write"}
                           \/ wpc[c] = "read" /\ up[c] > 0
                      /\ wpc[c] = "read" =>
                           \/ up[c] > 0 \/ ~ ClientEnd(c)
                           \/ cpc[c] = "write"
                           \/ cpc[c] = "read" /\ down[c] > 0
    BY DEF WaitsForAnother
  <2>1. /\ up[c] \in Nat /\ down[c] \in Nat /\ cround[c] \in Nat /\ wpc[c] \in WorkSteps
        /\ wround[c] = cround[c] + down[c] /\ Messages \in Nat
        /\ ClientEnd(c) => /\ up[c] + down[c] + Answering(c) = Asked(c)
                           /\ cround[c] < Messages
    BY <1>1, TcpAssumption DEF IInv, Typed, Rounds, CareInv, Exchange
  <2>2. ASSUME wpc[c] = "read", ClientEnd(c), cpc[c] # "write" PROVE up[c] > 0 \/ (cpc[c] = "read" /\ down[c] > 0)
    <3>1. cpc[c] = "read" /\ Answering(c) = 0 /\ Asked(c) = 1
      BY <2>2 DEF ClientEnd, Answering, Asked
    <3> QED
      BY <2>1, <2>2, <3>1
  <2>3. ASSUME cpc[c] = "read", down[c] = 0, ServerEnd(c)
        PROVE  \/ c \in Queued /\ Listening
               \/ c = acced /\ spc \in {"fork", "close"}
               \/ wpc[c] \in {"start", "write"}
               \/ wpc[c] = "read" /\ up[c] > 0
    <3>1. ClientEnd(c) /\ cpc[c] # "write"
      BY <2>3 DEF ClientEnd
    <3>2. CASE wpc[c] = "none"
      <4>1. backlog \in Seq(Clients)
        BY <1>1 DEF IInv, Typed
      <4>2. DOMAIN backlog = 1 .. Len(backlog)
        BY <4>1, LenProperties
      <4>3. holders[c] # {} \/ (Listening /\ c \in Queued)
        BY <2>3, <4>2 DEF ServerEnd, Queued
      <4>4. holders[c] # {} => "server" \in holders[c]
        BY <1>1, <3>2 DEF CareInv, Faithful
      <4>5. "server" \in holders[c] => spc \in {"fork", "close", "serve"} /\ c = acced
        BY <1>1 DEF IInv, OneOpen
      <4>6. ~ (spc = "serve" /\ c \notin Queued)
        BY <1>1, <3>1, <3>2, Steps DEF CareInv, Accounted
      <4>7. CASE spc = "serve"
        <5>1. Listening
          BY <4>7 DEF Listening
        <5> QED
          BY <4>3, <4>4, <4>5, <4>6, <4>7, <5>1
      <4> QED
        BY <4>3, <4>4, <4>5, <4>7
    <3>3. CASE wpc[c] \in Over \/ wpc[c] = "close"
      <4>1. wround[c] = Messages
        BY <1>1, <3>1, <3>3 DEF CareInv, Faithful
      <4> QED
        BY <2>1, <2>3, <3>1, <4>1
    <3>4. CASE wpc[c] = "read"
      BY <2>1, <2>2, <2>3, <3>1, <3>4
    <3> QED
      BY <2>1, <3>2, <3>3, <3>4 DEF WorkSteps, Over
  <2> QED
    BY <2>1, <2>2, <2>3
<1>2. CareInv => NoneCutOff /\ Announced
  BY DEF CareInv, GivenUp, NoneCutOff
<1>3. IInv /\ CareInv => NoneCutOff /\ WaitsForAnother /\ Announced
  BY <1>1, <1>2
<1> QED
  BY <1>3, InitIInv, NextIInv, CareInit, CareNext, PTL DEF FairSpec
=============================================================================
