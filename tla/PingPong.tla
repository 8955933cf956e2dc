------------------------------ MODULE PingPong ------------------------------
(***************************************************************************)
(* The two RDMA programs of the repository, from the construction of their *)
(* RDMAMessageBuffers to their end: rdmaPingPong and rdmaInlineComparison. *)
(* In both the client sends a message and waits for the answer, over and   *)
(* over, and the server sends back what it receives; how often is not      *)
(* agreed on, each side counts for itself.  A program that has come to its *)
(* end destroys its buffer without asking whether its writes are done.     *)
(***************************************************************************)
EXTENDS ConnectionSetup

CONSTANTS
  Client, Server,
  Messages,            \* MESSAGES: messages of a kind
  Sizes,               \* the sizes rdmaInlineComparison tries, minSize .. maxSize
  Capacity             \* messages that fit into a ring

ASSUME ProgramAssumption ==
  /\ Sides = {Client, Server}
  /\ Messages \in Nat \ {0} /\ Sizes \in Nat \ {0} /\ Capacity \in Nat \ {0}

VARIABLES
  program,             \* which of the two programs both sides run
  app,                 \* what a side's main() is about to do
  round,               \* answers the client has taken, answers the server has sent
  ping,                \* the server's local variable
  flying,              \* messages a side's send() has posted, not placed yet
  ring                 \* messages placed in a side's ring, not received yet

appVars == << program, app, round, ping, flying, ring >>
allVars == << vars, appVars >>

\* What the client sends, in order, and how many messages the server answers.  One
\* content of rdmaPingPong; in rdmaInlineComparison each size, inline and then not.
PingPongClient   == [r \in 1 .. Messages |-> 64]
PingPongServer   == Messages
ComparisonClient == [r \in 1 .. Sizes * (Messages + Messages) |-> 1 + ((r - 1) \div (2 * Messages))]

\* Slip: the non-inline messages forgotten.
ComparisonServerMutant == Sizes * Messages

ComparisonServer == Sizes * Messages + Sizes * Messages

Programs ==
  [rdmaPingPong         |-> [sends |-> PingPongClient,   answers |-> PingPongServer],
   rdmaInlineComparison |-> [sends |-> ComparisonClient, answers |-> ComparisonServer]]

Sends   == Programs[program].sends
Answers == Programs[program].answers

AppInit ==
  /\ Init
  /\ program \in DOMAIN Programs
  /\ app = [s \in Sides |-> IF s = Client THEN "send" ELSE "receive"]
  /\ round = [s \in Sides |-> 0] /\ ping = 0
  /\ flying = [s \in Sides |-> << >>] /\ ring = [s \in Sides |-> << >>]

Going(s, what) == app' = [app EXCEPT ![s] = what]

\* send() comes back when the frame is in the send buffer and its writes are posted.
\* It waits for room in the far ring.
Send(s, m) ==
  /\ pc[s] = "ready" /\ app[s] = "send"
  /\ Len(flying[s]) + Len(ring[Peer(s)]) < Capacity
  /\ flying' = [flying EXCEPT ![s] = Append(@, m)]

Receive(s) ==
  /\ pc[s] = "ready" /\ app[s] = "receive"
  /\ ring[s] # << >>
  /\ ring' = [ring EXCEPT ![s] = Tail(@)]

\* Slip: the next message sent without waiting for the answer to this one.
ClientSendMutant ==
  /\ round[Client] < Len(Sends)
  /\ Send(Client, Sends[round[Client] + 1])
  /\ round' = [round EXCEPT ![Client] = @ + 1]
  /\ UNCHANGED << program, app, ping, ring, vars >>

ClientSend ==
  /\ round[Client] < Len(Sends)
  /\ Send(Client, Sends[round[Client] + 1])
  /\ Going(Client, "receive")
  /\ UNCHANGED << program, round, ping, ring, vars >>

\* The process ends, and with it what the card had still to do for it.
Crash(s) ==
  /\ Exit(s)
  /\ flying' = [flying EXCEPT ![s] = << >>]
  /\ UNCHANGED << program, app, round, ping, ring >>

\* An answer of another size or content is an exception that nobody catches.
ClientReceive ==
  /\ Receive(Client)
  /\ Going(Client, "send")
  /\ IF Head(ring[Client]) = Sends[round[Client] + 1]
     THEN round' = [round EXCEPT ![Client] = @ + 1] /\ UNCHANGED << flying, vars >>
     ELSE /\ Exit(Client)
          /\ flying' = [flying EXCEPT ![Client] = << >>] /\ UNCHANGED round
  /\ UNCHANGED << program, ping >>

ServerReceive ==
  /\ round[Server] < Answers
  /\ Receive(Server)
  /\ Going(Server, "send") /\ ping' = Head(ring[Server])
  /\ UNCHANGED << program, round, flying, vars >>

ServerSend ==
  /\ Send(Server, ping)
  /\ Going(Server, "receive")
  /\ round' = [round EXCEPT ![Server] = @ + 1]
  /\ UNCHANGED << program, ping, ring, vars >>

\* The end of main(): the socket is closed, the buffer destroyed.
Finish(s) ==
  /\ pc[s] = "ready"
  /\ round[s] = IF s = Client THEN Len(Sends) ELSE Answers
  /\ Exit(s)
  /\ Going(s, "finished")
  /\ flying' = [flying EXCEPT ![s] = << >>]
  /\ UNCHANGED << program, round, ping, ring >>

\* The card places a message in the far ring, or loses it.
Place(s) ==
  /\ flying[s] # << >>
  /\ Post(s)
  /\ flying' = [flying EXCEPT ![s] = Tail(@)]
  /\ ring' = IF posted'[s] = "landed"
             THEN [ring EXCEPT ![Peer(s)] = Append(@, Head(flying[s]))] ELSE ring
  /\ UNCHANGED << program, app, round, ping >>

Main(s) ==
  \/ s = Client /\ (ClientSend \/ ClientReceive)
  \/ s = Server /\ (ServerReceive \/ ServerSend)
  \/ Finish(s)

AppNext ==
  \E s \in Sides :
    \/ (Constructor(s) \/ AppWrite(s) \/ AppRead(s)) /\ UNCHANGED appVars
    \/ Crash(s) \/ Main(s) \/ Place(s)

\* Constructors, programs and the card keep running.  No call of a constructor has
\* to fail, and nobody has to crash.
AppSpec ==
  /\ AppInit /\ [][AppNext]_allVars
  /\ \A s \in Sides :
       /\ WF_allVars(Proceed(s) /\ UNCHANGED appVars)
       /\ WF_allVars(pc[s] = "failed" /\ Crash(s))
       /\ WF_allVars(Main(s)) /\ WF_allVars(Place(s))

-----------------------------------------------------------------------------
(* Properties.                                                             *)

\* The variables of the buffers' construction and those of the programs keep their
\* types, and a program that is about to do something is not about to do it too often.
AppTypeOK ==
  /\ TypeOK
  /\ program \in DOMAIN Programs
  /\ app[Client] \in {"send", "receive", "finished"}
  /\ app[Server] \in {"send", "receive", "finished"}
  /\ round[Client] \in 0 .. Len(Sends) - (IF app[Client] = "receive" THEN 1 ELSE 0)
  /\ round[Server] \in 0 .. Answers - (IF app[Server] = "send" THEN 1 ELSE 0)
  /\ \A s \in Sides : flying[s] \in Seq(Nat) /\ ring[s] \in Seq(Nat)

\* One message at most is under way, whichever of the two it goes to: no send() of
\* the programs has to wait for room, so the two never wait for each other's; and
\* the server, which counts for itself, is never more than one answer ahead.
OneUnderWay ==
  /\ Len(flying[Client]) + Len(flying[Server]) + Len(ring[Client]) + Len(ring[Server]) <= 1
  /\ round[Client] <= round[Server] /\ round[Server] <= round[Client] + 1

\* A program that has ended before its time.
Crashed == \E s \in Sides : pc[s] = "ended" /\ app[s] # "finished"

\* Both sides having constructed their buffers, the client gets its answers: all of
\* them, except the last if the server has ended before the card has sent it, and
\* unless a side crashes, which the other one does not notice.
EchoCompletes ==
  (\A s \in Sides : pc[s] = "ready") ~> (round[Client] >= Len(Sends) - 1 \/ Crashed)
=============================================================================
