--------------------------- MODULE PingPong_proofs ---------------------------
(***************************************************************************)
(* For any number of messages and sizes, and any capacity of the rings:    *)
(* the two RDMA programs never have more than one message under way, so    *)
(* they never wait for each other, for room or for an answer, and their    *)
(* counts agree; and every answer is the message that was sent last.       *)
(***************************************************************************)
EXTENDS PingPong, ConnectionSetup_proofs

-----------------------------------------------------------------------------
LEMMA ProgramSides ==
  /\ Client \in Sides /\ Server \in Sides /\ Client # Server
  /\ Peer(Client) = Server /\ Peer(Server) = Client
<1>1. Client \in Sides /\ Server \in Sides /\ Client # Server
  BY SidesAssumption, ProgramAssumption
<1>2. \A p : p \in Sides /\ p # Client <=> p = Server
  BY <1>1, ProgramAssumption
<1>3. \A p : p \in Sides /\ p # Server <=> p = Client
  BY <1>1, ProgramAssumption
<1> QED
  BY <1>1, <1>2, <1>3 DEF Peer

-----------------------------------------------------------------------------
(* The inductive invariant: there is one token.  It is the message under   *)
(* way, or the turn of the side that is about to send; it can get lost,    *)
(* but nothing makes a second one.                                         *)

Turn(s)   == IF app[s] = "send" THEN 1 ELSE 0
Flying(s) == Len(flying[s])
InRing(s) == Len(ring[s])

Typed ==
  /\ program \in DOMAIN Programs /\ ping \in Nat
  /\ DOMAIN pc = Sides
  /\ app \in [Sides -> {"send", "receive", "finished"}]
  /\ round \in [Sides -> Nat]
  /\ flying \in [Sides -> Seq(Nat)] /\ ring \in [Sides -> Seq(Nat)]

OneToken ==
  Flying(Client) + Flying(Server) + InRing(Client) + InRing(Server)
    + Turn(Client) + Turn(Server) <= 1

\* Where the token is tells whether the server is an answer ahead.
Counts ==
  /\ round[Client] <= round[Server] /\ round[Server] <= round[Client] + 1
  /\ Flying(Client) + InRing(Server) + Turn(Server) > 0 => round[Server] = round[Client]
  /\ Flying(Server) + InRing(Client) > 0 => round[Server] = round[Client] + 1
  /\ Turn(Client) = 1 /\ pc[Client] # "ended" => round[Server] = round[Client]

IInv == Typed /\ OneToken /\ Counts

-----------------------------------------------------------------------------
LEMMA InitIInv == AppInit => IInv
<1> SUFFICES ASSUME AppInit PROVE IInv
  OBVIOUS
<1>1. /\ app[Client] = "send" /\ app[Server] = "receive"
      /\ \A s \in Sides : round[s] = 0 /\ flying[s] = << >> /\ ring[s] = << >>
  BY ProgramSides DEF AppInit
<1>2. Typed
  BY ProgramSides DEF AppInit, Init, Typed
<1>3. /\ Turn(Client) = 1 /\ Turn(Server) = 0
      /\ \A s \in Sides : Flying(s) = 0 /\ InRing(s) = 0
  BY <1>1 DEF Turn, Flying, InRing
<1>4. OneToken /\ Counts
  BY <1>1, <1>3, ProgramSides DEF OneToken, Counts
<1> QED
  BY <1>2, <1>4 DEF IInv

\* What the client sends are numbers; how often the two sides do so are, too.
LEMMA Contents ==
  ASSUME program \in DOMAIN Programs
  PROVE  /\ Len(Sends) \in Nat /\ Answers \in Nat
         /\ \A r \in 1 .. Len(Sends) : Sends[r] \in Nat
<1>1. Messages \in Nat /\ Messages > 0 /\ Sizes \in Nat
  BY ProgramAssumption
<1>2. PICK total \in Nat : total = Sizes * (Messages + Messages)
  BY <1>1
<1>3. /\ ComparisonClient = [r \in 1 .. total |-> 1 + ((r - 1) \div (2 * Messages))]
      /\ PingPongClient = [r \in 1 .. Messages |-> 64]
  BY <1>2 DEF ComparisonClient, PingPongClient
<1>4. Len(ComparisonClient) = total /\ Len(PingPongClient) = Messages
  BY <1>1, <1>3
<1>5. \A r \in 1 .. total : ComparisonClient[r] \in Nat
  <2>1. 2 * Messages \in Nat /\ 2 * Messages > 0
    BY <1>1
  <2>2. ASSUME NEW r \in 1 .. total PROVE 1 + ((r - 1) \div (2 * Messages)) \in Nat
    <3>1. PICK d \in Nat : d = 2 * Messages /\ d > 0
      BY <2>1
    <3>2. PICK n \in Nat : n = r - 1
      OBVIOUS
    <3>3. n \div d \in Nat
      BY <3>1
    <3> QED
      BY <3>1, <3>2, <3>3
  <2> QED
    BY <1>3, <2>2
<1>6. \A r \in 1 .. Messages : PingPongClient[r] \in Nat
  BY <1>3
<1>7. PingPongServer \in Nat /\ ComparisonServer \in Nat
  BY <1>1 DEF PingPongServer, ComparisonServer
<1>8. program = "rdmaPingPong" \/ program = "rdmaInlineComparison"
  BY DEF Programs
<1>9. CASE program = "rdmaPingPong"
  <2>1. Sends = PingPongClient /\ Answers = PingPongServer
    BY <1>9 DEF Sends, Answers, Programs
  <2> QED
    BY <1>1, <1>4, <1>6, <1>7, <2>1
<1>10. CASE program = "rdmaInlineComparison"
  <2>1. Sends = ComparisonClient /\ Answers = ComparisonServer
    BY <1>10 DEF Sends, Answers, Programs
  <2> QED
    BY <1>2, <1>4, <1>5, <1>7, <2>1
<1> QED
  BY <1>8, <1>9, <1>10

\* A side that has ended stays so.
LEMMA EndedStays ==
  ASSUME Typed, NEW s \in Sides,
         Constructor(s) \/ AppWrite(s) \/ AppRead(s) \/ Exit(s) \/ Post(s) \/ UNCHANGED vars
  PROVE  DOMAIN pc' = Sides /\ (pc'[Client] # "ended" => pc[Client] # "ended")
<1>1. pc' = pc \/ (pc[s] # "ended" /\ \E step : pc' = [pc EXCEPT ![s] = step])
  <2>1. CASE Constructor(s)
    BY <2>1 DEF Constructor, Proceed, Create, WriteAddress, ReadAddress, ModifyQp, Register, WriteRmr,
                ReadRmr, Throw, TcpWrite, Fail, Goto
  <2>2. CASE AppWrite(s) \/ AppRead(s) \/ Exit(s) \/ Post(s) \/ UNCHANGED vars
    BY <2>2 DEF AppWrite, AppRead, Exit, Post, Goto, vars
  <2> QED
    BY <2>1, <2>2
<1> QED
  BY <1>1, ProgramSides DEF Typed

LEMMA Numbers ==
  ASSUME Typed
  PROVE  \A s \in Sides : /\ flying[s] \in Seq(Nat) /\ ring[s] \in Seq(Nat)
                          /\ Flying(s) \in Nat /\ InRing(s) \in Nat
                          /\ round[s] \in Nat /\ Turn(s) \in {0, 1}
BY DEF Typed, Turn, Flying, InRing

LEMMA NumbersNext ==
  ASSUME Typed'
  PROVE  \A s \in Sides : Flying(s)' \in Nat /\ InRing(s)' \in Nat /\ Turn(s)' \in {0, 1}
BY DEF Typed, Turn, Flying, InRing

LEMMA CountsOn ==
  ASSUME NEW f \in [Sides -> Nat], NEW s \in Sides
  PROVE  [f EXCEPT ![s] = @ + 1] \in [Sides -> Nat]
OBVIOUS

LEMMA AppendLength ==
  ASSUME NEW S, NEW q \in Seq(S), NEW x \in S
  PROVE  Append(q, x) \in Seq(S) /\ Len(Append(q, x)) = Len(q) + 1
BY AppendProperties

LEMMA TailLength ==
  ASSUME NEW S, NEW q \in Seq(S), q # << >>
  PROVE  /\ Head(q) \in S /\ Tail(q) \in Seq(S) /\ Len(Tail(q)) = Len(q) - 1
         /\ Len(q) \in Nat /\ Len(q) >= 1
BY HeadTailProperties

-----------------------------------------------------------------------------
\* The client's turn becomes the message it sends.
LEMMA ClientSendIInv == IInv /\ ClientSend => IInv'
<1> SUFFICES ASSUME IInv, ClientSend PROVE IInv'
  OBVIOUS
<1> DEFINE m == Sends[round[Client] + 1]
<1>1. /\ app[Client] = "send" /\ pc[Client] = "ready"
      /\ flying' = [flying EXCEPT ![Client] = Append(@, m)]
      /\ app' = [app EXCEPT ![Client] = "receive"]
      /\ UNCHANGED << program, round, ping, ring, pc >>
      /\ round[Client] < Len(Sends)
  BY DEF ClientSend, Send, Going, vars
<1>2. m \in Nat
  <2>1. Len(Sends) \in Nat /\ \A r \in 1 .. Len(Sends) : Sends[r] \in Nat
    BY Contents DEF IInv, Typed
  <2>2. round[Client] + 1 \in 1 .. Len(Sends)
    BY <1>1, <2>1, ProgramSides, Numbers DEF IInv
  <2> QED
    BY <2>1, <2>2
<1> HIDE DEF m
<1>3. /\ Append(flying[Client], m) \in Seq(Nat)
      /\ Len(Append(flying[Client], m)) = Len(flying[Client]) + 1
  BY <1>2, AppendLength, Numbers, ProgramSides DEF IInv
<1>4. Typed'
  BY <1>1, <1>3 DEF IInv, Typed
<1>5. /\ Flying(Client)' = Flying(Client) + 1 /\ Flying(Server)' = Flying(Server)
      /\ InRing(Client)' = InRing(Client) /\ InRing(Server)' = InRing(Server)
      /\ Turn(Client) = 1 /\ Turn(Client)' = 0 /\ Turn(Server)' = Turn(Server)
  BY <1>1, <1>3, ProgramSides DEF IInv, Typed, Turn, Flying, InRing
<1>6. OneToken' /\ Counts'
  BY SMTT(30), <1>1, <1>5, Numbers, ProgramSides DEF IInv, OneToken, Counts
<1> QED
  BY <1>4, <1>6 DEF IInv

\* Steps that add no message and give nobody the turn.
LEMMA Fewer ==
  ASSUME IInv, Typed', UNCHANGED round, pc'[Client] # "ended" => pc[Client] # "ended",
         \A s \in Sides : Flying(s)' <= Flying(s) /\ InRing(s)' <= InRing(s) /\ Turn(s)' <= Turn(s)
  PROVE  IInv'
<1>1. \A s \in Sides : Flying(s) \in Nat /\ InRing(s) \in Nat /\ Turn(s) \in {0, 1} /\ round[s] \in Nat
  BY Numbers DEF IInv
<1>2. \A s \in Sides : Flying(s)' \in Nat /\ InRing(s)' \in Nat /\ Turn(s)' \in {0, 1}
  BY NumbersNext
<1>3. OneToken' /\ Counts'
  BY <1>1, <1>2, ProgramSides DEF IInv, OneToken, Counts
<1> QED
  BY <1>3 DEF IInv

\* The message that is taken becomes the turn of the side that takes it.
LEMMA TakenFromRing ==
  ASSUME Typed, NEW s \in Sides, Receive(s), app' = [app EXCEPT ![s] = "send"]
  PROVE  /\ Head(ring[s]) \in Nat /\ ring' \in [Sides -> Seq(Nat)]
         /\ InRing(s) >= 1 /\ InRing(s)' = InRing(s) - 1 /\ Turn(s) = 0 /\ Turn(s)' = 1
         /\ \A u \in Sides : u # s => InRing(u)' = InRing(u) /\ Turn(u)' = Turn(u)
<1>1. app[s] = "receive" /\ ring[s] # << >> /\ ring' = [ring EXCEPT ![s] = Tail(@)]
  BY DEF Receive
<1>2. /\ Head(ring[s]) \in Nat /\ Tail(ring[s]) \in Seq(Nat)
      /\ Len(Tail(ring[s])) = Len(ring[s]) - 1 /\ Len(ring[s]) >= 1
  BY <1>1, TailLength, Numbers
<1> QED
  BY <1>1, <1>2 DEF Typed, InRing, Turn

LEMMA ClientReceiveIInv == IInv /\ ClientReceive => IInv'
<1> SUFFICES ASSUME IInv, ClientReceive PROVE IInv'
  OBVIOUS
<1>1. /\ Receive(Client) /\ app' = [app EXCEPT ![Client] = "send"] /\ UNCHANGED << program, ping >>
      /\ \/ /\ round' = [round EXCEPT ![Client] = @ + 1]
            /\ UNCHANGED << flying, pc >>
         \/ /\ pc' = [pc EXCEPT ![Client] = "ended"]
            /\ flying' = [flying EXCEPT ![Client] = << >>] /\ UNCHANGED round
  BY DEF ClientReceive, Going, Exit, Goto, vars
<1>2. /\ ring' \in [Sides -> Seq(Nat)]
      /\ InRing(Client) >= 1 /\ InRing(Client)' = InRing(Client) - 1
      /\ InRing(Server)' = InRing(Server)
      /\ Turn(Client) = 0 /\ Turn(Client)' = 1 /\ Turn(Server)' = Turn(Server)
  BY <1>1, TakenFromRing, ProgramSides DEF IInv
<1>3. round[Client] \in Nat /\ << >> \in Seq(Nat) /\ Len(<< >>) = 0
  BY Numbers, ProgramSides DEF IInv
<1>4. Typed'
  <2>1. round' \in [Sides -> Nat]
    <3>1. round \in [Sides -> Nat] /\ [round EXCEPT ![Client] = @ + 1] \in [Sides -> Nat]
      BY CountsOn, ProgramSides DEF IInv, Typed
    <3>2. round' = [round EXCEPT ![Client] = @ + 1] \/ round' = round
      BY <1>1
    <3> QED
      BY <3>1, <3>2, Zenon
  <2>2. flying' \in [Sides -> Seq(Nat)]
    BY <1>1, <1>3 DEF IInv, Typed
  <2>3. DOMAIN pc' = Sides /\ app' \in [Sides -> {"send", "receive", "finished"}]
    BY <1>1 DEF IInv, Typed
  <2> QED
    BY <1>1, <1>2, <2>1, <2>2, <2>3 DEF IInv, Typed
<1>5. \A s \in Sides : Flying(s)' \in Nat /\ Flying(s)' <= Flying(s)
  <2>1. ASSUME NEW s \in Sides
        PROVE  flying'[s] = flying[s] \/ flying'[s] = << >>
    BY <1>1 DEF IInv, Typed
  <2>2. \A s \in Sides : Flying(s)' = Flying(s) \/ Flying(s)' = 0
    BY <2>1 DEF Flying
  <2> QED
    BY <2>2, Numbers DEF IInv
<1>6. OneToken'
  <2>1. /\ Flying(Client)' \in Nat /\ Flying(Client)' <= Flying(Client)
        /\ Flying(Server)' \in Nat /\ Flying(Server)' <= Flying(Server)
    BY <1>5, ProgramSides
  <2>2. /\ InRing(Client) \in Nat /\ InRing(Server) \in Nat /\ Turn(Server) \in {0, 1}
        /\ Flying(Client) \in Nat /\ Flying(Server) \in Nat
    BY Numbers, ProgramSides DEF IInv
  <2> QED
    BY <1>2, <2>1, <2>2 DEF IInv, OneToken
<1>7. Counts'
  <2>1. \/ round'[Client] = round[Client] + 1 /\ round'[Server] = round[Server]
        \/ pc'[Client] = "ended" /\ round' = round
    BY <1>1, ProgramSides DEF IInv, Typed
  <2>2. round[Server] = round[Client] + 1 /\ Flying(Client) = 0 /\ InRing(Server) = 0 /\ Turn(Server) = 0
        /\ InRing(Client) = 1 /\ Flying(Server) = 0
    BY SMTT(30), <1>2, Numbers, ProgramSides DEF IInv, OneToken, Counts
  <2>3. /\ Flying(Client)' = 0 /\ Flying(Server)' = 0 /\ InRing(Client)' = 0 /\ InRing(Server)' = 0
        /\ Turn(Server)' = 0
    BY <1>2, <1>5, <2>2, ProgramSides
  <2> QED
    BY <2>1, <2>2, <2>3, Numbers, ProgramSides DEF IInv, Counts
<1> QED
  BY <1>4, <1>6, <1>7 DEF IInv

LEMMA ServerReceiveIInv == IInv /\ ServerReceive => IInv'
<1> SUFFICES ASSUME IInv, ServerReceive PROVE IInv'
  OBVIOUS
<1>1. /\ Receive(Server) /\ app' = [app EXCEPT ![Server] = "send"] /\ ping' = Head(ring[Server])
      /\ UNCHANGED << program, round, flying, pc >>
  BY DEF ServerReceive, Going, vars
<1>2. /\ ping' \in Nat /\ ring' \in [Sides -> Seq(Nat)]
      /\ InRing(Server) >= 1 /\ InRing(Server)' = InRing(Server) - 1
      /\ InRing(Client)' = InRing(Client)
      /\ Turn(Server) = 0 /\ Turn(Server)' = 1 /\ Turn(Client)' = Turn(Client)
  BY <1>1, TakenFromRing, ProgramSides DEF IInv
<1>3. Typed'
  BY <1>1, <1>2 DEF IInv, Typed
<1>4. Flying(Client)' = Flying(Client) /\ Flying(Server)' = Flying(Server)
  BY <1>1 DEF Flying
<1>5. OneToken' /\ Counts'
  BY SMTT(30), <1>1, <1>2, <1>4, Numbers, ProgramSides DEF IInv, OneToken, Counts
<1> QED
  BY <1>3, <1>5 DEF IInv

LEMMA ServerSendIInv == IInv /\ ServerSend => IInv'
<1> SUFFICES ASSUME IInv, ServerSend PROVE IInv'
  OBVIOUS
<1>1. /\ app[Server] = "send"
      /\ flying' = [flying EXCEPT ![Server] = Append(@, ping)]
      /\ app' = [app EXCEPT ![Server] = "receive"]
      /\ round' = [round EXCEPT ![Server] = @ + 1]
      /\ UNCHANGED << program, ping, ring, pc >>
  BY DEF ServerSend, Send, Going, vars
<1>2. /\ Append(flying[Server], ping) \in Seq(Nat)
      /\ Len(Append(flying[Server], ping)) = Len(flying[Server]) + 1
  BY AppendLength, Numbers, ProgramSides DEF IInv, Typed
<1>3. round[Server] \in Nat
  BY Numbers, ProgramSides DEF IInv
<1>4. Typed'
  <2>1. round' \in [Sides -> Nat]
    BY <1>1, CountsOn, ProgramSides DEF IInv, Typed
  <2> QED
    BY <1>1, <1>2, <2>1 DEF IInv, Typed
<1>5. /\ Flying(Server)' = Flying(Server) + 1 /\ Flying(Client)' = Flying(Client)
      /\ InRing(Client)' = InRing(Client) /\ InRing(Server)' = InRing(Server)
      /\ Turn(Server) = 1 /\ Turn(Server)' = 0 /\ Turn(Client)' = Turn(Client)
      /\ round'[Server] = round[Server] + 1 /\ round'[Client] = round[Client]
  BY <1>1, <1>2, ProgramSides DEF IInv, Typed, Turn, Flying, InRing
<1>6. OneToken'
  BY SMTT(30), <1>5, Numbers, ProgramSides DEF IInv, OneToken
<1>7. Counts'
  <2>1. /\ round[Server] = round[Client] /\ Flying(Client) = 0 /\ InRing(Server) = 0
        /\ Turn(Client) = 0 /\ InRing(Client) = 0 /\ Flying(Server) = 0
    BY SMTT(30), <1>5, Numbers, ProgramSides DEF IInv, OneToken, Counts
  <2> QED
    BY <1>5, <2>1, Numbers, ProgramSides DEF IInv, Counts
<1> QED
  BY <1>4, <1>6, <1>7 DEF IInv

\* The end of a program, and of a process.
LEMMA EndIInv ==
  ASSUME IInv, NEW s \in Sides, Finish(s) \/ Crash(s)
  PROVE  IInv'
<1>1. /\ pc' = [pc EXCEPT ![s] = "ended"] /\ flying' = [flying EXCEPT ![s] = << >>]
      /\ app' = app \/ app' = [app EXCEPT ![s] = "finished"]
      /\ UNCHANGED << program, round, ping, ring >>
  BY DEF Finish, Crash, Going, Exit, Goto
<1>2. << >> \in Seq(Nat) /\ Len(<< >>) = 0
  OBVIOUS
<1>3. Typed'
  BY <1>1, <1>2 DEF IInv, Typed
<1>4. pc'[Client] # "ended" => pc[Client] # "ended"
  BY <1>1, ProgramSides DEF IInv, Typed
<1>5. ASSUME NEW u \in Sides
      PROVE  Flying(u)' <= Flying(u) /\ InRing(u)' <= InRing(u) /\ Turn(u)' <= Turn(u)
  <2>1. flying'[u] = flying[u] \/ flying'[u] = << >>
    BY <1>1 DEF IInv, Typed
  <2>2. Flying(u)' = Flying(u) \/ Flying(u)' = 0
    BY <2>1 DEF Flying
  <2>3. InRing(u)' = InRing(u)
    BY <1>1 DEF InRing
  <2>4. Turn(u)' <= Turn(u)
    BY <1>1 DEF IInv, Typed, Turn
  <2> QED
    BY <2>2, <2>3, <2>4, Numbers DEF IInv
<1> QED
  BY <1>1, <1>3, <1>4, <1>5, Fewer

\* The card moves a message from the sender to the ring of the other side, or loses it.
LEMMA PlaceIInv ==
  ASSUME IInv, NEW s \in Sides, Place(s)
  PROVE  IInv'
<1> DEFINE p == Peer(s)
<1>1. /\ flying[s] # << >> /\ flying' = [flying EXCEPT ![s] = Tail(@)]
      /\ ring' = [ring EXCEPT ![p] = Append(@, Head(flying[s]))] \/ ring' = ring
      /\ UNCHANGED << program, app, round, ping, pc >>
  BY DEF Place, Post
<1>2. p \in Sides /\ ((s = Client /\ p = Server) \/ (s = Server /\ p = Client))
  BY ProgramSides, ProgramAssumption
<1> HIDE DEF p
<1>3. /\ Head(flying[s]) \in Nat /\ Tail(flying[s]) \in Seq(Nat)
      /\ Len(Tail(flying[s])) = Len(flying[s]) - 1 /\ Len(flying[s]) >= 1
  BY <1>1, TailLength, Numbers DEF IInv
<1>4. /\ Append(ring[p], Head(flying[s])) \in Seq(Nat)
      /\ Len(Append(ring[p], Head(flying[s]))) = Len(ring[p]) + 1
  BY <1>2, <1>3, AppendLength, Numbers DEF IInv
<1>5. Typed'
  <2>1. ring' \in [Sides -> Seq(Nat)]
    BY <1>1, <1>4 DEF IInv, Typed
  <2> QED
    BY <1>1, <1>3, <2>1 DEF IInv, Typed
<1>6. /\ Flying(s) >= 1 /\ Flying(s)' = Flying(s) - 1 /\ Flying(p)' = Flying(p)
      /\ InRing(s)' = InRing(s) /\ (InRing(p)' = InRing(p) \/ InRing(p)' = InRing(p) + 1)
      /\ Turn(Client)' = Turn(Client) /\ Turn(Server)' = Turn(Server)
  <2>1. /\ Flying(s) >= 1 /\ Flying(s)' = Flying(s) - 1 /\ Flying(p)' = Flying(p)
    BY <1>1, <1>2, <1>3, ProgramSides DEF IInv, Typed, Flying
  <2>2. InRing(s)' = InRing(s) /\ (InRing(p)' = InRing(p) \/ InRing(p)' = InRing(p) + 1)
    BY <1>1, <1>2, <1>4, ProgramSides DEF IInv, Typed, InRing
  <2>3. Turn(Client)' = Turn(Client) /\ Turn(Server)' = Turn(Server)
    BY <1>1 DEF Turn
  <2> QED
    BY <2>1, <2>2, <2>3
<1>7. OneToken' /\ Counts'
  <2>1. CASE s = Client /\ p = Server
    <3>1. /\ Flying(Client) = 1 /\ Flying(Server) = 0 /\ InRing(Client) = 0 /\ InRing(Server) = 0
          /\ Turn(Client) = 0 /\ Turn(Server) = 0 /\ round[Server] = round[Client]
      BY <1>6, <2>1, Numbers, ProgramSides DEF IInv, OneToken, Counts
    <3>2. /\ Flying(Client)' = 0 /\ Flying(Server)' = 0 /\ InRing(Server)' \in {0, 1}
          /\ InRing(Client)' = 0 /\ Turn(Client)' = 0 /\ Turn(Server)' = 0
      BY <1>6, <2>1, <3>1
    <3>3. round[Client] \in Nat
      BY Numbers, ProgramSides DEF IInv
    <3> QED
      BY <1>1, <3>1, <3>2, <3>3 DEF OneToken, Counts
  <2>2. CASE s = Server /\ p = Client
    <3>1. /\ Flying(Server) = 1 /\ Flying(Client) = 0 /\ InRing(Client) = 0 /\ InRing(Server) = 0
          /\ Turn(Client) = 0 /\ Turn(Server) = 0 /\ round[Server] = round[Client] + 1
      BY <1>6, <2>2, Numbers, ProgramSides DEF IInv, OneToken, Counts
    <3>2. /\ Flying(Server)' = 0 /\ Flying(Client)' = 0 /\ InRing(Client)' \in {0, 1}
          /\ InRing(Server)' = 0 /\ Turn(Client)' = 0 /\ Turn(Server)' = 0
      BY <1>6, <2>2, <3>1
    <3>3. round[Client] \in Nat
      BY Numbers, ProgramSides DEF IInv
    <3> QED
      BY <1>1, <3>1, <3>2, <3>3 DEF OneToken, Counts
  <2> QED
    BY <1>2, <2>1, <2>2
<1> QED
  BY <1>5, <1>7 DEF IInv

\* The constructors, and what does not change the programs.
LEMMA SetupIInv ==
  ASSUME IInv, NEW s \in Sides, UNCHANGED appVars,
         Constructor(s) \/ AppWrite(s) \/ AppRead(s) \/ UNCHANGED vars
  PROVE  IInv'
<1>1. UNCHANGED << program, app, round, ping, flying, ring >>
  BY DEF appVars
<1>2. DOMAIN pc' = Sides /\ (pc'[Client] # "ended" => pc[Client] # "ended")
  BY EndedStays DEF IInv
<1>3. Typed'
  BY <1>1, <1>2 DEF IInv, Typed
<1>4. \A u \in Sides : Flying(u)' = Flying(u) /\ InRing(u)' = InRing(u) /\ Turn(u)' = Turn(u)
  BY <1>1 DEF Flying, InRing, Turn
<1>5. \A u \in Sides : Flying(u)' <= Flying(u) /\ InRing(u)' <= InRing(u) /\ Turn(u)' <= Turn(u)
  BY <1>4, Numbers DEF IInv
<1> QED
  BY <1>1, <1>2, <1>3, <1>5, Fewer

LEMMA NextIInv == IInv /\ [AppNext]_allVars => IInv'
<1> SUFFICES ASSUME IInv, [AppNext]_allVars PROVE IInv'
  OBVIOUS
<1>1. ASSUME NEW s \in Sides, Main(s)
      PROVE  IInv'
  BY <1>1, ClientSendIInv, ClientReceiveIInv, ServerReceiveIInv, ServerSendIInv, EndIInv DEF Main
<1>2. ASSUME NEW s \in Sides, Crash(s) \/ Place(s)
      PROVE  IInv'
  BY <1>2, EndIInv, PlaceIInv
<1>3. ASSUME NEW s \in Sides, (Constructor(s) \/ AppWrite(s) \/ AppRead(s)) /\ UNCHANGED appVars
      PROVE  IInv'
  BY <1>3, SetupIInv
<1>4. CASE UNCHANGED allVars
  BY <1>4, SetupIInv, ProgramSides DEF allVars
<1> QED
  BY <1>1, <1>2, <1>3, <1>4 DEF AppNext

-----------------------------------------------------------------------------
\* However many messages the programs exchange, and of however many sizes: one at most is
\* under way, so that no send() waits for room, and the server, which counts for itself, is
\* never more than one answer ahead of the client.
THEOREM OneUnderWayAlways == AppSpec => []OneUnderWay
<1>1. IInv => OneUnderWay
  <2> SUFFICES ASSUME IInv PROVE OneUnderWay
    OBVIOUS
  <2>1. Flying(Client) + Flying(Server) + InRing(Client) + InRing(Server) <= 1
    BY SMTT(30), Numbers, ProgramSides DEF IInv, OneToken
  <2> QED
    BY <2>1 DEF IInv, Counts, OneUnderWay, Flying, InRing
<1> QED
  BY <1>1, InitIInv, NextIInv, PTL DEF AppSpec

-----------------------------------------------------------------------------
(* The programs do nothing with their buffers and sockets that the setup   *)
(* does not allow, so what it promises holds when they run.                *)

LEMMA MainSteps == ASSUME NEW s \in Sides, Main(s) PROVE [Next]_vars
<1>1. ASSUME ClientSend \/ ServerSend \/ ServerReceive PROVE UNCHANGED vars
  BY <1>1 DEF ClientSend, ServerSend, ServerReceive
<1>2. ASSUME ClientReceive PROVE UNCHANGED vars \/ Exit(Client)
  BY <1>2 DEF ClientReceive
<1>3. ASSUME Finish(s) PROVE Exit(s)
  BY <1>3 DEF Finish
<1>4. UNCHANGED vars \/ \E t \in Sides : Exit(t)
  BY <1>1, <1>2, <1>3, ProgramSides DEF Main
<1> QED
  BY <1>4 DEF Next

LEMMA SetupSteps == [AppNext]_allVars => [Next]_vars
<1>1. ASSUME NEW s \in Sides, Constructor(s) \/ AppWrite(s) \/ AppRead(s) PROVE Next
  BY <1>1 DEF Next
<1>2. ASSUME NEW s \in Sides, Crash(s) \/ Place(s) PROVE Next
  <2>1. Exit(s) \/ Post(s)
    BY <1>2 DEF Crash, Place
  <2> QED
    BY <2>1 DEF Next
<1>3. ASSUME UNCHANGED allVars PROVE UNCHANGED vars
  BY <1>3 DEF allVars
<1> QED
  BY <1>1, <1>2, <1>3, MainSteps DEF AppNext

\* Whatever the two programs do, crashes included, is a behaviour of two sides that
\* construct a buffer, write through it and come to an end.
THEOREM ProgramsRespectSetup == AppSpec => Spec
<1>1. AppInit => Init
  BY DEF AppInit
<1> QED
  BY <1>1, SetupSteps, PTL DEF AppSpec, Spec

\* Hence no message of theirs is lost as long as the other program runs.
THEOREM NoMessageLost == Whole => (AppSpec => []WritesLand)
BY ProgramsRespectSetup, WritesLandAlways, PTL

-----------------------------------------------------------------------------
(* No side is about to do what it has done often enough: the client waits  *)
(* only for an answer it counts, the server has an answer under way only   *)
(* while it still counts.                                                  *)

Awaited == IF app[Client] = "receive" THEN 1 ELSE 0

Rounds == round[Client] + Awaited <= Len(Sends) /\ round[Server] + Turn(Server) <= Answers

LEMMA InitRounds == AppInit => Rounds
<1> SUFFICES ASSUME AppInit PROVE Rounds
  OBVIOUS
<1>1. /\ app[Client] = "send" /\ app[Server] = "receive" /\ round[Client] = 0 /\ round[Server] = 0
  BY ProgramSides DEF AppInit
<1>2. Awaited = 0 /\ Turn(Server) = 0
  BY <1>1 DEF Awaited, Turn
<1>3. Len(Sends) \in Nat /\ Answers \in Nat
  BY Contents DEF AppInit
<1> QED
  BY <1>1, <1>2, <1>3 DEF Rounds

\* A step that counts nothing and makes nobody wait or answer.
LEMMA RoundsStay ==
  ASSUME Typed, Rounds, UNCHANGED << program, round >>,
         app' = app \/ \E s \in Sides : app' = [app EXCEPT ![s] = "finished"]
  PROVE  Rounds'
<1>1. Sends' = Sends /\ Answers' = Answers
  BY DEF Sends, Answers
<1>2. Len(Sends) \in Nat /\ Answers \in Nat
  BY Contents DEF Typed
<1>3. Awaited \in {0, 1} /\ Awaited' \in {0, 1} /\ Awaited' <= Awaited
  BY ProgramSides DEF Typed, Awaited
<1>4. Turn(Server) \in {0, 1} /\ Turn(Server)' \in {0, 1} /\ Turn(Server)' <= Turn(Server)
  BY ProgramSides DEF Typed, Turn
<1>5. round[Client] \in Nat /\ round[Server] \in Nat /\ round' = round
  BY ProgramSides DEF Typed
<1> QED
  BY <1>1, <1>2, <1>3, <1>4, <1>5 DEF Rounds

LEMMA MainRounds ==
  ASSUME Typed, Rounds, NEW s \in Sides, Main(s)
  PROVE  Rounds'
<1>1. Len(Sends) \in Nat /\ Answers \in Nat /\ round[Client] \in Nat /\ round[Server] \in Nat
  BY Contents, ProgramSides DEF Typed
<1>2. CASE ClientSend
  <2>1. /\ round[Client] < Len(Sends) /\ app' = [app EXCEPT ![Client] = "receive"]
        /\ UNCHANGED << program, round >>
    BY <1>2 DEF ClientSend, Going
  <2>2. Sends' = Sends /\ Answers' = Answers /\ round' = round
    BY <2>1 DEF Sends, Answers
  <2>3. Awaited' = 1 /\ Turn(Server)' = Turn(Server)
    BY <2>1, ProgramSides DEF Typed, Awaited, Turn
  <2> QED
    BY <1>1, <2>1, <2>2, <2>3 DEF Rounds
<1>3. CASE ClientReceive
  <2>1. /\ app[Client] = "receive" /\ app' = [app EXCEPT ![Client] = "send"] /\ UNCHANGED program
        /\ round' = [round EXCEPT ![Client] = @ + 1] \/ round' = round
    BY <1>3 DEF ClientReceive, Receive, Going
  <2>2. Sends' = Sends /\ Answers' = Answers
    BY <2>1 DEF Sends, Answers
  <2>3. Awaited = 1 /\ Awaited' = 0 /\ Turn(Server)' = Turn(Server)
    BY <2>1, ProgramSides DEF Typed, Awaited, Turn
  <2>4. /\ round'[Client] = round[Client] + 1 \/ round'[Client] = round[Client]
        /\ round'[Server] = round[Server]
    BY <2>1, ProgramSides DEF Typed
  <2> QED
    BY <1>1, <2>2, <2>3, <2>4 DEF Rounds
<1>4. CASE ServerReceive
  <2>1. /\ round[Server] < Answers /\ app' = [app EXCEPT ![Server] = "send"]
        /\ UNCHANGED << program, round >>
    BY <1>4 DEF ServerReceive, Going
  <2>2. Sends' = Sends /\ Answers' = Answers /\ round' = round
    BY <2>1 DEF Sends, Answers
  <2>3. Awaited' = Awaited /\ Turn(Server)' = 1
    BY <2>1, ProgramSides DEF Typed, Awaited, Turn
  <2> QED
    BY <1>1, <2>1, <2>2, <2>3 DEF Rounds
<1>5. CASE ServerSend
  <2>1. /\ app[Server] = "send" /\ app' = [app EXCEPT ![Server] = "receive"] /\ UNCHANGED program
        /\ round' = [round EXCEPT ![Server] = @ + 1]
    BY <1>5 DEF ServerSend, Send, Going
  <2>2. Sends' = Sends /\ Answers' = Answers
    BY <2>1 DEF Sends, Answers
  <2>3. Turn(Server) = 1 /\ Turn(Server)' = 0 /\ Awaited' = Awaited
    BY <2>1, ProgramSides DEF Typed, Awaited, Turn
  <2>4. round'[Server] = round[Server] + 1 /\ round'[Client] = round[Client]
    BY <2>1, ProgramSides DEF Typed
  <2> QED
    BY <1>1, <2>2, <2>3, <2>4 DEF Rounds
<1>6. CASE Finish(s)
  <2>1. UNCHANGED << program, round >> /\ app' = [app EXCEPT ![s] = "finished"]
    BY <1>6 DEF Finish, Going
  <2> QED
    BY <2>1, RoundsStay
<1> QED
  BY <1>2, <1>3, <1>4, <1>5, <1>6 DEF Main

LEMMA NextRounds == Typed /\ Rounds /\ [AppNext]_allVars => Rounds'
<1> SUFFICES ASSUME Typed, Rounds, [AppNext]_allVars PROVE Rounds'
  OBVIOUS
<1>1. ASSUME NEW s \in Sides, Crash(s) \/ Place(s) \/ UNCHANGED appVars
      PROVE  Rounds'
  <2>1. UNCHANGED << program, round >> /\ app' = app
    BY <1>1 DEF Crash, Place, appVars
  <2> QED
    BY <2>1, RoundsStay
<1>2. ASSUME UNCHANGED allVars PROVE UNCHANGED appVars
  BY <1>2 DEF allVars
<1> QED
  BY <1>1, <1>2, MainRounds, ProgramSides DEF AppNext

\* The variables of both programs and of the buffers they construct keep their types, however
\* many messages and sizes there are; and no program starts a round beyond the ones it counts:
\* the client never waits for an answer, nor the server holds one, that is one too many.
THEOREM ProgramsTypeCorrect == AppSpec => []AppTypeOK
<1>1. AppInit => IInv /\ Rounds
  BY InitIInv, InitRounds
<1>2. IInv /\ Rounds /\ [AppNext]_allVars => (IInv /\ Rounds)'
  BY NextIInv, NextRounds DEF IInv
<1>3. IInv /\ Rounds /\ TypeOK => AppTypeOK
  <2> SUFFICES ASSUME Typed, Rounds, TypeOK PROVE AppTypeOK
    BY DEF IInv
  <2>1. Len(Sends) \in Nat /\ Answers \in Nat /\ round[Client] \in Nat /\ round[Server] \in Nat
    BY Contents, ProgramSides DEF Typed
  <2>2. round[Client] \in 0 .. Len(Sends) - (IF app[Client] = "receive" THEN 1 ELSE 0)
    BY <2>1 DEF Rounds, Awaited
  <2>3. round[Server] \in 0 .. Answers - (IF app[Server] = "send" THEN 1 ELSE 0)
    BY <2>1 DEF Rounds, Turn
  <2> QED
    BY <2>2, <2>3, ProgramSides DEF Typed, AppTypeOK
<1> QED
  BY <1>1, <1>2, <1>3, ProgramsRespectSetup, SetupTypeCorrect, PTL DEF AppSpec
-----------------------------------------------------------------------------
(* The answers.  Whatever carries the token holds the message the client   *)
(* is waiting for, and nothing else is under way.                          *)

Current == Sends[round[Client] + 1]

AllCurrent(q) == \A i \in 1 .. Len(q) : q[i] = Current

EchoInv ==
  /\ \A s \in Sides : AllCurrent(flying[s]) /\ AllCurrent(ring[s])
  /\ app[Server] = "send" => ping = Current

LEMMA EmptyIsCurrent == ASSUME NEW q, Len(q) = 0 PROVE AllCurrent(q)
BY DEF AllCurrent

\* Steps that take nothing new on the way, in the same round.
LEMMA EchoKept ==
  ASSUME EchoInv, UNCHANGED << program, ping >>, round'[Client] = round[Client],
         app'[Server] = "send" => app[Server] = "send",
         \A s \in Sides : /\ flying'[s] = flying[s] \/ flying'[s] = << >>
                          /\ ring'[s] = ring[s] \/ ring'[s] = << >>
  PROVE  EchoInv'
<1>1. Current' = Current
  BY DEF Current, Sends
<1>2. Len(<< >>) = 0
  OBVIOUS
<1>3. ASSUME NEW s \in Sides PROVE AllCurrent(flying[s])' /\ AllCurrent(ring[s])'
  BY <1>1, <1>2 DEF EchoInv, AllCurrent
<1> QED
  BY <1>1, <1>3 DEF EchoInv, AllCurrent

\* Nothing is under way but the token.
LEMMA NothingElse ==
  ASSUME IInv
  PROVE  /\ Turn(Client) = 1 => \A s \in Sides : Flying(s) = 0 /\ InRing(s) = 0 /\ Turn(Server) = 0
         /\ Turn(Server) = 1 => \A s \in Sides : Flying(s) = 0 /\ InRing(s) = 0 /\ Turn(Client) = 0
         /\ \A t \in Sides : Flying(t) > 0 =>
              /\ Flying(t) = 1 /\ Turn(Client) = 0 /\ Turn(Server) = 0
              /\ \A s \in Sides : InRing(s) = 0 /\ (s # t => Flying(s) = 0)
         /\ \A t \in Sides : InRing(t) > 0 =>
              /\ InRing(t) = 1 /\ Turn(Client) = 0 /\ Turn(Server) = 0
              /\ \A s \in Sides : Flying(s) = 0 /\ (s # t => InRing(s) = 0)
<1>1. \A s \in Sides : s = Client \/ s = Server
  BY ProgramAssumption
<1>2. /\ Flying(Client) \in Nat /\ InRing(Client) \in Nat /\ Turn(Client) \in {0, 1}
      /\ Flying(Server) \in Nat /\ InRing(Server) \in Nat /\ Turn(Server) \in {0, 1}
  BY Numbers, ProgramSides DEF IInv
<1>3. Flying(Client) + Flying(Server) + InRing(Client) + InRing(Server)
        + Turn(Client) + Turn(Server) <= 1
  BY DEF IInv, OneToken
<1>4. Turn(Client) = 1 => \A s \in Sides : Flying(s) = 0 /\ InRing(s) = 0 /\ Turn(Server) = 0
  BY <1>1, <1>2, <1>3
<1>5. Turn(Server) = 1 => \A s \in Sides : Flying(s) = 0 /\ InRing(s) = 0 /\ Turn(Client) = 0
  BY <1>1, <1>2, <1>3
<1>6. ASSUME NEW t \in Sides, Flying(t) > 0
      PROVE  /\ Flying(t) = 1 /\ Turn(Client) = 0 /\ Turn(Server) = 0
             /\ \A s \in Sides : InRing(s) = 0 /\ (s # t => Flying(s) = 0)
  BY <1>1, <1>2, <1>3, <1>6
<1>7. ASSUME NEW t \in Sides, InRing(t) > 0
      PROVE  /\ InRing(t) = 1 /\ Turn(Client) = 0 /\ Turn(Server) = 0
             /\ \A s \in Sides : Flying(s) = 0 /\ (s # t => InRing(s) = 0)
  BY <1>1, <1>2, <1>3, <1>7
<1> QED
  BY <1>4, <1>5, <1>6, <1>7

\* A sequence that one message has been appended to, or taken from.
LEMMA Singly ==
  ASSUME NEW q \in Seq(Nat), Len(q) = 0, NEW m \in Nat
  PROVE  Len(Append(q, m)) = 1 /\ Append(q, m)[1] = m
BY AppendProperties

LEMMA FirstIs ==
  ASSUME NEW q \in Seq(Nat), Len(q) = 1
  PROVE  q # << >> /\ Head(q) = q[1] /\ q[1] \in Nat /\ Len(Tail(q)) = 0
<1>1. Len(<< >>) = 0
  OBVIOUS
<1>2. q # << >>
  <2> SUFFICES ASSUME q = << >> PROVE 1 = 0
    OBVIOUS
  <2> QED
    BY <1>1
<1> QED
  BY <1>2, HeadTailProperties, ElementOfSeq

LEMMA EchoMain ==
  ASSUME IInv, EchoInv, NEW s \in Sides, Main(s)
  PROVE  EchoInv'
<1> USE ProgramSides
<1>1. /\ \A t \in Sides : flying[t] \in Seq(Nat) /\ ring[t] \in Seq(Nat)
      /\ DOMAIN flying = Sides /\ DOMAIN ring = Sides /\ DOMAIN app = Sides /\ DOMAIN round = Sides
  BY Numbers DEF IInv, Typed
<1>2. CASE ClientSend
  <2>1. /\ app[Client] = "send" /\ flying' = [flying EXCEPT ![Client] = Append(@, Current)]
        /\ app' = [app EXCEPT ![Client] = "receive"]
        /\ UNCHANGED << program, round, ping, ring >> /\ round[Client] < Len(Sends)
    BY <1>2 DEF ClientSend, Send, Going, Current
  <2>2. Current' = Current
    BY <2>1 DEF Current, Sends
  <2>3. Current \in Nat
    <3>1. Len(Sends) \in Nat /\ \A r \in 1 .. Len(Sends) : Sends[r] \in Nat
      BY Contents DEF IInv, Typed
    <3>2. round[Client] + 1 \in 1 .. Len(Sends)
      BY <2>1, <3>1, Numbers DEF IInv
    <3> QED
      BY <3>1, <3>2 DEF Current
  <2>4. \A t \in Sides : Len(flying[t]) = 0 /\ Len(ring[t]) = 0
    <3>1. Turn(Client) = 1
      BY <2>1 DEF Turn
    <3> QED
      BY <3>1, NothingElse DEF Flying, InRing
  <2>5. Len(flying'[Client]) = 1 /\ flying'[Client][1] = Current
    BY <1>1, <2>1, <2>3, <2>4, Singly
  <2>6. /\ \A t \in Sides : t # Client => flying'[t] = flying[t]
        /\ app'[Server] = app[Server]
    BY <1>1, <2>1
  <2> QED
    BY <2>1, <2>2, <2>4, <2>5, <2>6 DEF EchoInv, AllCurrent
<1>3. CASE ClientReceive
  <2>1. /\ ring[Client] # << >> /\ ring' = [ring EXCEPT ![Client] = Tail(@)]
        /\ app' = [app EXCEPT ![Client] = "send"]
        /\ flying' = flying \/ flying' = [flying EXCEPT ![Client] = << >>]
    BY <1>3 DEF ClientReceive, Receive, Going
  <2>2. Len(ring[Client]) > 0
    BY <1>1, <2>1, EmptySeq, LenProperties
  <2>3. /\ Len(ring[Client]) = 1 /\ Turn(Server) = 0
        /\ \A t \in Sides : Len(flying[t]) = 0 /\ (t # Client => Len(ring[t]) = 0)
    BY <2>2, NothingElse DEF Flying, InRing
  <2>4. Len(Tail(ring[Client])) = 0 /\ Len(<< >>) = 0
    BY <1>1, <2>3, FirstIs
  <2>5. \A t \in Sides : Len(flying'[t]) = 0 /\ Len(ring'[t]) = 0
    BY <1>1, <2>1, <2>3, <2>4
  <2>6. app'[Server] # "send"
    BY <1>1, <2>1, <2>3 DEF Turn
  <2> QED
    BY <2>5, <2>6 DEF EchoInv, AllCurrent
<1>4. CASE ServerReceive
  <2>1. /\ ring[Server] # << >> /\ ring' = [ring EXCEPT ![Server] = Tail(@)]
        /\ ping' = Head(ring[Server]) /\ UNCHANGED << program, round, flying >>
    BY <1>4 DEF ServerReceive, Receive
  <2>2. Len(ring[Server]) > 0
    BY <1>1, <2>1, EmptySeq, LenProperties
  <2>3. /\ Len(ring[Server]) = 1
        /\ \A t \in Sides : Len(flying[t]) = 0 /\ (t # Server => Len(ring[t]) = 0)
    BY <2>2, NothingElse DEF Flying, InRing
  <2>4. Len(Tail(ring[Server])) = 0 /\ Head(ring[Server]) = ring[Server][1]
    BY <1>1, <2>3, FirstIs
  <2>5. ring[Server][1] = Current
    BY <2>3 DEF EchoInv, AllCurrent
  <2>6. Current' = Current
    BY <2>1 DEF Current, Sends
  <2>7. \A t \in Sides : Len(flying'[t]) = 0 /\ Len(ring'[t]) = 0
    BY <1>1, <2>1, <2>3, <2>4
  <2> QED
    BY <2>1, <2>4, <2>5, <2>6, <2>7 DEF EchoInv, AllCurrent
<1>5. CASE ServerSend
  <2>1. /\ app[Server] = "send" /\ flying' = [flying EXCEPT ![Server] = Append(@, ping)]
        /\ app' = [app EXCEPT ![Server] = "receive"]
        /\ round' = [round EXCEPT ![Server] = @ + 1] /\ UNCHANGED << program, ping, ring >>
    BY <1>5 DEF ServerSend, Send, Going
  <2>2. Current' = Current
    BY <1>1, <2>1 DEF Current, Sends
  <2>3. ping = Current /\ ping \in Nat
    BY <2>1 DEF EchoInv, IInv, Typed
  <2>4. \A t \in Sides : Len(flying[t]) = 0 /\ Len(ring[t]) = 0
    <3>1. Turn(Server) = 1
      BY <2>1 DEF Turn
    <3> QED
      BY <3>1, NothingElse DEF Flying, InRing
  <2>5. Len(flying'[Server]) = 1 /\ flying'[Server][1] = Current
    BY <1>1, <2>1, <2>3, <2>4, Singly
  <2>6. /\ \A t \in Sides : t # Server => flying'[t] = flying[t]
        /\ app'[Server] = "receive"
    BY <1>1, <2>1
  <2> QED
    BY <2>1, <2>2, <2>4, <2>5, <2>6 DEF EchoInv, AllCurrent
<1>6. CASE Finish(s)
  <2>1. /\ flying' = [flying EXCEPT ![s] = << >>] /\ app' = [app EXCEPT ![s] = "finished"]
        /\ UNCHANGED << program, round, ping, ring >>
    BY <1>6 DEF Finish, Going
  <2>2. app'[Server] = "send" => app[Server] = "send"
    BY <1>1, <2>1
  <2>3. \A t \in Sides : flying'[t] = flying[t] \/ flying'[t] = << >>
    BY <1>1, <2>1
  <2> QED
    BY <2>1, <2>2, <2>3, EchoKept
<1> QED
  BY <1>2, <1>3, <1>4, <1>5, <1>6 DEF Main

LEMMA EchoPlace ==
  ASSUME IInv, EchoInv, NEW s \in Sides, Place(s)
  PROVE  EchoInv'
<1> DEFINE p == Peer(s)
<1>1. /\ flying[s] # << >> /\ flying' = [flying EXCEPT ![s] = Tail(@)]
      /\ ring' = [ring EXCEPT ![p] = Append(@, Head(flying[s]))] \/ ring' = ring
      /\ UNCHANGED << program, app, round, ping >>
  BY DEF Place
<1>2. p \in Sides
  BY TwoSides
<1> HIDE DEF p
<1>3. /\ \A t \in Sides : flying[t] \in Seq(Nat) /\ ring[t] \in Seq(Nat)
      /\ DOMAIN flying = Sides /\ DOMAIN ring = Sides
  BY Numbers DEF IInv, Typed
<1>4. Len(flying[s]) > 0
  BY <1>1, <1>3, EmptySeq, LenProperties
<1>5. /\ Len(flying[s]) = 1
      /\ \A t \in Sides : Len(ring[t]) = 0 /\ (t # s => Len(flying[t]) = 0)
  BY <1>4, NothingElse DEF Flying, InRing
<1>6. Len(Tail(flying[s])) = 0 /\ Head(flying[s]) = flying[s][1] /\ flying[s][1] \in Nat
  BY <1>3, <1>5, FirstIs
<1>7. flying[s][1] = Current
  BY <1>5 DEF EchoInv, AllCurrent
<1>8. Current' = Current
  BY <1>1 DEF Current, Sends
<1>9. \A t \in Sides : Len(flying'[t]) = 0
  BY <1>1, <1>3, <1>5, <1>6
<1>10. ASSUME NEW t \in Sides PROVE AllCurrent(ring[t])'
  <2>1. Len(Append(ring[p], Head(flying[s]))) = 1 /\ Append(ring[p], Head(flying[s]))[1] = Current
    BY <1>2, <1>3, <1>5, <1>6, <1>7, Singly
  <2>2. Len(ring'[t]) = 0 \/ (Len(ring'[t]) = 1 /\ ring'[t][1] = Current)
    BY <1>1, <1>2, <1>3, <1>5, <2>1
  <2> QED
    BY <1>8, <2>2 DEF AllCurrent
<1> QED
  BY <1>1, <1>8, <1>9, <1>10 DEF EchoInv, AllCurrent

LEMMA EchoStep == IInv /\ EchoInv /\ [AppNext]_allVars => EchoInv'
<1> SUFFICES ASSUME IInv, EchoInv, [AppNext]_allVars PROVE EchoInv'
  OBVIOUS
<1>1. ASSUME NEW s \in Sides, Crash(s) PROVE EchoInv'
  <2>1. /\ flying' = [flying EXCEPT ![s] = << >>] /\ UNCHANGED << program, app, round, ping, ring >>
    BY <1>1 DEF Crash
  <2>2. \A t \in Sides : flying'[t] = flying[t] \/ flying'[t] = << >>
    BY <2>1 DEF IInv, Typed
  <2> QED
    BY <2>1, <2>2, EchoKept
<1>2. ASSUME UNCHANGED appVars PROVE EchoInv'
  BY <1>2, EchoKept DEF appVars
<1>3. UNCHANGED allVars => UNCHANGED appVars
  BY DEF allVars
<1> QED
  BY <1>1, <1>2, <1>3, EchoMain, EchoPlace DEF AppNext

LEMMA EchoInit == AppInit => EchoInv
<1> SUFFICES ASSUME AppInit PROVE EchoInv
  OBVIOUS
<1>1. \A s \in Sides : flying[s] = << >> /\ ring[s] = << >>
  BY DEF AppInit
<1>2. Len(<< >>) = 0 /\ app[Server] = "receive"
  BY ProgramSides DEF AppInit
<1> QED
  BY <1>1, <1>2 DEF EchoInv, AllCurrent

\* What the client compares the answer with: nothing comes in its ring but the message it
\* has sent last.
AnswerIsEcho == ring[Client] # << >> => Head(ring[Client]) = Sends[round[Client] + 1]

\* The client's exception for an answer of another size or content is never thrown, although
\* the answer is taken from a local variable of the server's loop, and no message says which one it answers.
THEOREM EveryAnswerIsEcho == AppSpec => []AnswerIsEcho
<1>1. IInv /\ EchoInv => AnswerIsEcho
  <2> SUFFICES ASSUME IInv, EchoInv, ring[Client] # << >> PROVE Head(ring[Client]) = Current
    BY DEF AnswerIsEcho, Current
  <2>1. ring[Client] \in Seq(Nat)
    BY Numbers, ProgramSides DEF IInv
  <2>2. Head(ring[Client]) = ring[Client][1] /\ Len(ring[Client]) >= 1 /\ Len(ring[Client]) \in Nat
    BY <2>1, HeadTailProperties, EmptySeq, LenProperties
  <2> QED
    BY <2>2, ProgramSides DEF EchoInv, AllCurrent
<1> QED
  BY <1>1, InitIInv, NextIInv, EchoInit, EchoStep, PTL DEF AppSpec
-----------------------------------------------------------------------------
(* The token is not lost as long as both sides run.                        *)

Tokens ==
  Flying(Client) + Flying(Server) + InRing(Client) + InRing(Server) + Turn(Client) + Turn(Server)

BothIn == \A s \in Sides : InPlay(s)

TokenLeft == BothIn => Tokens >= 1

FinishedEnds == \A s \in Sides : app[s] = "finished" => pc[s] = "ended"

GoesOnInv == TokenLeft /\ FinishedEnds

LEMMA GoesOnInit == AppInit => GoesOnInv
<1> SUFFICES ASSUME AppInit PROVE GoesOnInv
  OBVIOUS
<1>1. /\ app[Client] = "send" /\ app[Server] = "receive"
      /\ \A s \in Sides : app[s] # "finished"
  BY ProgramSides DEF AppInit
<1>2. IInv
  BY InitIInv
<1>3. Turn(Client) = 1
  BY <1>1 DEF Turn
<1>4. Tokens >= 1
  BY <1>2, <1>3, Numbers, ProgramSides DEF IInv, Tokens
<1> QED
  BY <1>1, <1>4 DEF GoesOnInv, TokenLeft, FinishedEnds

\* Who has given up or ended stays so.
LEMMA OutStaysOut ==
  ASSUME Typed, NEW s \in Sides,
         Constructor(s) \/ AppWrite(s) \/ AppRead(s) \/ Exit(s) \/ Post(s) \/ UNCHANGED vars
  PROVE  /\ \A t \in Sides : InPlay(t)' => InPlay(t)
         /\ \A t \in Sides : pc[t] = "ended" => pc'[t] = "ended"
<1>1. \/ pc' = pc
      \/ InPlay(s) /\ \E step : pc' = [pc EXCEPT ![s] = step]
      \/ pc' = [pc EXCEPT ![s] = "ended"]
  <2>1. CASE Constructor(s)
    BY <2>1 DEF Constructor, Proceed, Create, WriteAddress, ReadAddress, ModifyQp, Register, WriteRmr,
                ReadRmr, Throw, TcpWrite, Fail, Goto, InPlay
  <2>2. CASE AppWrite(s) \/ AppRead(s) \/ Exit(s) \/ Post(s) \/ UNCHANGED vars
    BY <2>2 DEF AppWrite, AppRead, Exit, Post, Goto, vars
  <2> QED
    BY <2>1, <2>2
<1> QED
  BY <1>1 DEF Typed, InPlay

\* Steps that leave the programs alone.
LEMMA GoesOnSetup ==
  ASSUME IInv, GoesOnInv, NEW s \in Sides, UNCHANGED appVars,
         Constructor(s) \/ AppWrite(s) \/ AppRead(s) \/ UNCHANGED vars
  PROVE  GoesOnInv'
<1>1. UNCHANGED << app, flying, ring >>
  BY DEF appVars
<1>2. Tokens' = Tokens
  BY <1>1 DEF Tokens, Flying, InRing, Turn
<1> QED
  BY <1>1, <1>2, OutStaysOut DEF IInv, GoesOnInv, TokenLeft, FinishedEnds, BothIn

\* A process that ends takes the token with it, perhaps, but is not in play any more.
LEMMA GoesOnEnd ==
  ASSUME IInv, GoesOnInv, NEW s \in Sides, Finish(s) \/ Crash(s)
  PROVE  GoesOnInv'
<1>1. pc' = [pc EXCEPT ![s] = "ended"] /\ (app' = app \/ app' = [app EXCEPT ![s] = "finished"])
  BY DEF Finish, Crash, Exit, Goto, Going
<1>2. ~ InPlay(s)' /\ DOMAIN pc = Sides /\ DOMAIN app = Sides
  BY <1>1 DEF InPlay, IInv, Typed
<1> QED
  BY <1>1, <1>2 DEF GoesOnInv, TokenLeft, FinishedEnds, BothIn

LEMMA GoesOnMain ==
  ASSUME IInv, GoesOnInv, IInv', NEW s \in Sides, Main(s)
  PROVE  GoesOnInv'
<1> USE ProgramSides
<1>1. /\ \A t \in Sides : flying[t] \in Seq(Nat) /\ ring[t] \in Seq(Nat)
      /\ DOMAIN flying = Sides /\ DOMAIN ring = Sides /\ DOMAIN app = Sides /\ DOMAIN pc = Sides
  BY Numbers DEF IInv, Typed
<1>2. /\ Flying(Client)' \in Nat /\ InRing(Client)' \in Nat /\ Turn(Client)' \in {0, 1}
      /\ Flying(Server)' \in Nat /\ InRing(Server)' \in Nat /\ Turn(Server)' \in {0, 1}
  <2>1. Typed'
    BY DEF IInv
  <2> QED
    BY <2>1, NumbersNext
<1>3. CASE ClientSend \/ ServerSend
  <2>1. PICK t \in Sides, m \in Nat :
          /\ flying' = [flying EXCEPT ![t] = Append(@, m)]
          /\ app' = [app EXCEPT ![t] = "receive"] /\ pc' = pc
    <3>1. CASE ServerSend
      <4>1. ping \in Nat
        BY DEF IInv, Typed
      <4> QED
        BY <3>1, <4>1 DEF ServerSend, Send, Going, vars
    <3>2. CASE ClientSend
      <4>1. Sends[round[Client] + 1] \in Nat
        <5>1. Len(Sends) \in Nat /\ \A r \in 1 .. Len(Sends) : Sends[r] \in Nat
          BY Contents DEF IInv, Typed
        <5>2. round[Client] + 1 \in 1 .. Len(Sends)
          BY <3>2, <5>1, Numbers DEF IInv, ClientSend
        <5> QED
          BY <5>1, <5>2
      <4> QED
        BY <3>2, <4>1 DEF ClientSend, Send, Going, vars
    <3> QED
      BY <1>3, <3>1, <3>2
  <2>2. Len(Append(flying[t], m)) = Len(flying[t]) + 1 /\ Len(flying[t]) \in Nat
    BY <1>1, AppendLength, LenProperties
  <2>3. Flying(t)' >= 1
    BY <1>1, <2>1, <2>2 DEF Flying
  <2>4. t = Client \/ t = Server
    BY ProgramAssumption
  <2>5. Tokens' >= 1
    BY <1>2, <2>3, <2>4 DEF Tokens
  <2>6. FinishedEnds'
    BY <1>1, <2>1 DEF GoesOnInv, FinishedEnds
  <2> QED
    BY <2>5, <2>6 DEF GoesOnInv, TokenLeft
<1>4. CASE ClientReceive \/ ServerReceive
  <2>1. PICK t \in Sides :
          /\ app' = [app EXCEPT ![t] = "send"] /\ pc[t] = "ready"
          /\ pc' = pc \/ pc' = [pc EXCEPT ![Client] = "ended"]
    BY <1>4 DEF ClientReceive, ServerReceive, Receive, Going, Exit, Goto, vars
  <2>2. Turn(t)' = 1
    BY <1>1, <2>1 DEF Turn
  <2>3. t = Client \/ t = Server
    BY ProgramAssumption
  <2>4. Tokens' >= 1
    BY <1>2, <2>2, <2>3 DEF Tokens
  <2>5. FinishedEnds'
    BY <1>1, <2>1 DEF GoesOnInv, FinishedEnds
  <2> QED
    BY <2>4, <2>5 DEF GoesOnInv, TokenLeft
<1>5. CASE Finish(s)
  BY <1>5, GoesOnEnd
<1> QED
  BY <1>3, <1>4, <1>5 DEF Main

\* The card: what it puts into the far ring lands, as long as the far side is in play.
LEMMA GoesOnPlace ==
  ASSUME IInv, GoesOnInv, SetupInv, WritesLand', IInv', NEW s \in Sides, Place(s)
  PROVE  GoesOnInv'
<1>1. Peer(s) \in Sides /\ (s = Client \/ s = Server)
  BY TwoSides, ProgramAssumption
<1>2. /\ UNCHANGED << app, pc >>
      /\ posted' = [posted EXCEPT ![s] = IF @ # "lost" /\ Lands(s) THEN "landed" ELSE "lost"]
      /\ ring' = IF posted'[s] = "landed"
                 THEN [ring EXCEPT ![Peer(s)] = Append(@, Head(flying[s]))] ELSE ring
      /\ flying[s] # << >>
  BY DEF Place, Post
<1>3. FinishedEnds'
  BY <1>2 DEF GoesOnInv, FinishedEnds
<1>4. ASSUME BothIn' PROVE Tokens' >= 1
  <2>1. posted'[s] \in {"landed", "lost"}
    BY <1>2 DEF SetupInv, SetupTyped, Domains
  <2>2. posted'[s] # "lost"
    <3>1. pc'[Peer(s)] \notin {"failed", "ended"}
      BY <1>1, <1>4 DEF BothIn, InPlay
    <3> QED
      BY <1>1, <3>1 DEF WritesLand, Peer
  <2>3. ring'[Peer(s)] = Append(ring[Peer(s)], Head(flying[s]))
    BY <1>1, <1>2, <2>1, <2>2 DEF IInv, Typed
  <2>4. Len(ring'[Peer(s)]) >= 1
    <3>1. Head(flying[s]) \in Nat /\ ring[Peer(s)] \in Seq(Nat)
      BY <1>1, <1>2, TailLength, Numbers DEF IInv
    <3>2. Len(ring'[Peer(s)]) = Len(ring[Peer(s)]) + 1
      BY <2>3, <3>1, AppendLength
    <3> QED
      BY <3>1, <3>2, LenProperties
  <2>5. InRing(Client)' >= 1 \/ InRing(Server)' >= 1
    BY <1>1, <2>4, ProgramSides, ProgramAssumption DEF InRing
  <2>6. /\ Flying(Client)' \in Nat /\ InRing(Client)' \in Nat /\ Turn(Client)' \in {0, 1}
        /\ Flying(Server)' \in Nat /\ InRing(Server)' \in Nat /\ Turn(Server)' \in {0, 1}
    <3>1. Typed'
      BY DEF IInv
    <3> QED
      BY <3>1, NumbersNext, ProgramSides
  <2> QED
    BY <2>5, <2>6 DEF Tokens
<1> QED
  BY <1>3, <1>4 DEF GoesOnInv, TokenLeft

LEMMA GoesOnStep ==
  ASSUME IInv, GoesOnInv, SetupInv, IInv', WritesLand', [AppNext]_allVars
  PROVE  GoesOnInv'
<1>1. CASE UNCHANGED allVars
  BY <1>1, GoesOnSetup, ProgramSides DEF allVars
<1> QED
  BY <1>1, GoesOnSetup, GoesOnEnd, GoesOnMain, GoesOnPlace DEF AppNext

\* The server's loop is as long as the client's.
LEMMA SameCounts == ASSUME program \in DOMAIN Programs PROVE Len(Sends) = Answers
<1>1. Messages \in Nat /\ Sizes \in Nat
  BY ProgramAssumption
<1>2. PICK n \in Nat : n = Sizes * Messages
  BY <1>1
<1>3. Sizes * (Messages + Messages) = n + n
  BY <1>1, <1>2
<1>4. Len(ComparisonClient) = n + n /\ Len(PingPongClient) = Messages
  <2>1. ComparisonClient = [r \in 1 .. n + n |-> 1 + ((r - 1) \div (2 * Messages))]
    BY <1>3 DEF ComparisonClient
  <2>2. PingPongClient = [r \in 1 .. Messages |-> 64]
    BY DEF PingPongClient
  <2> QED
    BY <1>1, <1>2, <2>1, <2>2
<1>5. ComparisonServer = n + n /\ PingPongServer = Messages
  BY <1>2 DEF ComparisonServer, PingPongServer
<1> QED
  BY <1>4, <1>5 DEF Sends, Answers, Programs

Room(s) == Len(flying[s]) + Len(ring[Peer(s)]) < Capacity

\* As long as both sides are between their constructors and their ends, one of the two, or
\* the card, has something to do: the guards of Place, Finish, Send and Receive in turn.
GoesOn ==
  (\A s \in Sides : pc[s] = "ready") =>
    \/ \E s \in Sides : flying[s] # << >>
    \/ app[Client] = "send" /\ round[Client] = Len(Sends)
    \/ app[Client] = "send" /\ round[Client] < Len(Sends) /\ Room(Client)
    \/ app[Server] = "send" /\ Room(Server)
    \/ app[Client] = "receive" /\ ring[Client] # << >>
    \/ app[Server] = "receive" /\ ring[Server] # << >> /\ round[Server] < Answers

\* The programs never come to a state in which each waits for the other, for an answer or
\* for room in a ring, however small the rings are: the safety half of EchoCompletes.
THEOREM NeverStuck == Whole => (AppSpec => []GoesOn)
<1> SUFFICES ASSUME Whole PROVE AppSpec => []GoesOn
  OBVIOUS
<1>1. ASSUME IInv, Rounds, GoesOnInv, \A s \in Sides : pc[s] = "ready"
      PROVE  GoesOn
  <2> USE ProgramSides
  <2>1. Tokens >= 1 /\ \A s \in Sides : app[s] # "finished"
    BY <1>1 DEF GoesOnInv, TokenLeft, FinishedEnds, BothIn, InPlay
  <2>2. /\ Flying(Client) \in Nat /\ InRing(Client) \in Nat /\ Turn(Client) \in {0, 1}
        /\ Flying(Server) \in Nat /\ InRing(Server) \in Nat /\ Turn(Server) \in {0, 1}
    BY <1>1, Numbers DEF IInv
  <2>3. \/ Flying(Client) > 0 \/ Flying(Server) > 0 \/ InRing(Client) > 0 \/ InRing(Server) > 0
        \/ Turn(Client) = 1 \/ Turn(Server) = 1
    BY <2>1, <2>2 DEF Tokens
  <2>4. Len(<< >>) = 0 /\ Capacity > 0 /\ Capacity \in Nat
    BY ProgramAssumption
  <2>5. /\ Len(Sends) \in Nat /\ Answers \in Nat /\ Len(Sends) = Answers
        /\ round[Client] \in Nat /\ round[Server] \in Nat
    BY <1>1, Contents, SameCounts DEF IInv, Typed
  <2>6. \A s \in Sides : app[s] \in {"send", "receive"}
    BY <1>1, <2>1 DEF IInv, Typed
  <2>7. CASE Flying(Client) > 0 \/ Flying(Server) > 0
    BY <2>4, <2>7 DEF Flying, GoesOn
  <2>8. CASE InRing(Client) > 0
    <3>1. Turn(Client) = 0
      BY <1>1, <2>8, NothingElse
    <3>2. app[Client] = "receive" /\ ring[Client] # << >>
      BY <2>4, <2>6, <2>8, <3>1 DEF Turn, InRing
    <3> QED
      BY <3>2 DEF GoesOn
  <2>9. CASE InRing(Server) > 0
    <3>1. Turn(Client) = 0 /\ Turn(Server) = 0
      BY <1>1, <2>9, NothingElse
    <3>2. app[Server] = "receive" /\ app[Client] = "receive" /\ ring[Server] # << >>
      BY <2>4, <2>6, <2>9, <3>1 DEF Turn, InRing
    <3>3. round[Server] = round[Client]
      BY <1>1, <2>2, <2>9 DEF IInv, Counts
    <3>4. round[Client] + 1 <= Len(Sends)
      BY <1>1, <3>2 DEF Rounds, Awaited
    <3>5. round[Server] < Answers
      BY <2>5, <3>3, <3>4
    <3> QED
      BY <3>2, <3>5 DEF GoesOn
  <2>10. CASE Turn(Client) = 1
    <3>1. \A s \in Sides : Len(flying[s]) = 0 /\ Len(ring[s]) = 0
      BY <1>1, <2>10, NothingElse DEF Flying, InRing
    <3>2. app[Client] = "send" /\ Room(Client)
      <4>1. app[Client] = "send"
        BY <2>10 DEF Turn
      <4>2. Len(flying[Client]) = 0 /\ Len(ring[Peer(Client)]) = 0
        BY <3>1
      <4> QED
        BY <4>1, <4>2, ProgramAssumption DEF Room
    <3>3. round[Client] <= Len(Sends)
      BY <1>1, <2>5, <3>2 DEF Rounds, Awaited
    <3> QED
      BY <2>5, <3>2, <3>3 DEF GoesOn
  <2>11. CASE Turn(Server) = 1
    <3>1. \A s \in Sides : Len(flying[s]) = 0 /\ Len(ring[s]) = 0
      BY <1>1, <2>11, NothingElse DEF Flying, InRing
    <3>2. app[Server] = "send"
      BY <2>11 DEF Turn
    <3>3. Room(Server)
      <4>1. Len(flying[Server]) = 0 /\ Len(ring[Peer(Server)]) = 0
        BY <3>1
      <4> QED
        BY <4>1, ProgramAssumption DEF Room
    <3> QED
      BY <3>2, <3>3 DEF GoesOn
  <2> QED
    BY <2>3, <2>7, <2>8, <2>9, <2>10, <2>11
<1>2. IInv /\ Rounds /\ GoesOnInv => GoesOn
  BY <1>1 DEF GoesOn
<1>3. AppInit => IInv /\ Rounds /\ GoesOnInv
  BY InitIInv, InitRounds, GoesOnInit
<1>4. IInv /\ Rounds /\ [AppNext]_allVars => (IInv /\ Rounds)'
  BY NextIInv, NextRounds DEF IInv
<1>5. AppSpec => [](IInv /\ Rounds)
  BY <1>3, <1>4, PTL DEF AppSpec
<1>6. SetupInv => WritesLand
  BY DEF SetupInv
<1>7. IInv /\ GoesOnInv /\ SetupInv /\ IInv' /\ WritesLand' /\ [AppNext]_allVars => GoesOnInv'
  BY GoesOnStep
<1>8. Spec => []SetupInv
  <2>1. Init => SetupInv
    BY SetupInvInit
  <2>2. SetupInv /\ [Next]_vars => SetupInv'
    BY SetupInvNext
  <2> QED
    BY <2>1, <2>2, PTL DEF Spec
<1> QED
  BY <1>2, <1>3, <1>5, <1>6, <1>7, <1>8, ProgramsRespectSetup, PTL DEF AppSpec
=============================================================================
