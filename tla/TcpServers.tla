----------------------------- MODULE TcpServers -----------------------------
(***************************************************************************)
(* The two plain TCP programs, forkingPingPong and tcpPingPong, with any   *)
(* number of clients: the server's accept loop, the process that answers a *)
(* client (a child, or the server itself), the clients, and SIGCHLD.       *)
(* A message is sent and received whole: tcp_read takes whatever recv()    *)
(* returns for the message, and is right only then.                        *)
(***************************************************************************)
EXTENDS Integers, Sequences, FiniteSets

CONSTANTS
  Clients,
  Messages,            \* MESSAGES, the messages of a client
  MaxForkFailures      \* bound of the model: how often fork() fails

ASSUME TcpAssumption == Messages \in Nat \ {0} /\ MaxForkFailures \in Nat

VARIABLES
  program,             \* "forkingPingPong" or "tcpPingPong"
  cpc, cround,         \* a client's next step, the answers it has
  backlog,             \* connections nobody has accepted yet
  up, down,            \* messages on their way to the server, to the client
  spc,                 \* the server's next step; "gone": the process has ended
  acced,               \* its local variable
  wpc, wround,         \* next step of the process that serves a client, answers sent
  holders,             \* processes with a descriptor of a connection's server end
  pending, handling,   \* SIGCHLD is pending, the server is in sigchldHandler
  dropped              \* clients a failing fork() has left without a child

clientVars == << cpc, cround >>
workVars   == << wpc, wround >>
signalVars == << pending, handling >>
vars == << program, clientVars, backlog, up, down, spc, acced, workVars, holders,
           signalVars, dropped >>

Forking == program = "forkingPingPong"

Init ==
  /\ program \in {"forkingPingPong", "tcpPingPong"}
  /\ cpc = [c \in Clients |-> "connect"] /\ cround = [c \in Clients |-> 0]
  /\ backlog = << >> /\ up = [c \in Clients |-> 0] /\ down = [c \in Clients |-> 0]
  /\ spc = "accept" /\ acced = CHOOSE c \in Clients : TRUE
  /\ wpc = [c \in Clients |-> "none"] /\ wround = [c \in Clients |-> 0]
  /\ holders = [c \in Clients |-> {}]
  /\ pending = FALSE /\ handling = FALSE /\ dropped = {}

\* The listening socket is open as long as a process has it: the server, or a child
\* that has not closed it yet.
Listening == spc # "gone" \/ \E c \in Clients : wpc[c] = "start"

\* A connection has two ends.  Closing one lets the other side read what is under
\* way; after that recv() returns 0 or fails, and send() fails sooner or later.
ServerEnd(c) == holders[c] # {} \/ (Listening /\ \E i \in DOMAIN backlog : backlog[i] = c)
ClientEnd(c) == cpc[c] \in {"write", "read"}

-----------------------------------------------------------------------------
(* A client.                                                               *)

ClientGoes(c, step) == cpc' = [cpc EXCEPT ![c] = step]

Connect(c) ==
  /\ cpc[c] = "connect"
  /\ IF Listening THEN ClientGoes(c, "write") /\ backlog' = Append(backlog, c)
                  ELSE ClientGoes(c, "threw") /\ UNCHANGED backlog
  /\ UNCHANGED << program, cround, up, down, spc, acced, workVars, holders, signalVars, dropped >>

ClientWrite(c) ==
  /\ cpc[c] = "write"
  /\ \/ ClientGoes(c, "read") /\ up' = [up EXCEPT ![c] = @ + 1]
     \/ ~ ServerEnd(c) /\ ClientGoes(c, "threw") /\ UNCHANGED up
  /\ UNCHANGED << program, cround, backlog, down, spc, acced, workVars, holders, signalVars, dropped >>

\* recv() returning 0 leaves the zeros of fill(), which are not DATA.
ClientRead(c) ==
  /\ cpc[c] = "read"
  /\ \/ /\ down[c] > 0
        /\ down' = [down EXCEPT ![c] = @ - 1] /\ cround' = [cround EXCEPT ![c] = @ + 1]
        /\ ClientGoes(c, IF cround[c] + 1 = Messages THEN "done" ELSE "write")
     \/ /\ down[c] = 0 /\ ~ ServerEnd(c)
        /\ ClientGoes(c, "threw") /\ UNCHANGED << down, cround >>
  /\ UNCHANGED << program, backlog, up, spc, acced, workVars, holders, signalVars, dropped >>

ClientCrash(c) ==
  /\ ClientEnd(c)
  /\ ClientGoes(c, "crashed")
  /\ UNCHANGED << program, cround, backlog, up, down, spc, acced, workVars, holders, signalVars,
                  dropped >>

-----------------------------------------------------------------------------
(* The server.  While it is in the signal handler it does nothing else.    *)

Accept ==
  /\ spc = "accept" /\ ~ handling /\ backlog # << >>
  /\ acced' = Head(backlog) /\ backlog' = Tail(backlog)
  /\ holders' = [holders EXCEPT ![acced'] = {"server"}]
  /\ IF Forking THEN spc' = "fork" /\ UNCHANGED wpc
                ELSE spc' = "serve" /\ wpc' = [wpc EXCEPT ![acced'] = "read"]
  /\ UNCHANGED << program, clientVars, up, down, wround, signalVars, dropped >>

\* fork() == 0 is all the code asks for: a failure counts as being the parent.
Fork ==
  /\ spc = "fork" /\ ~ handling
  /\ spc' = "close"
  /\ \/ /\ wpc' = [wpc EXCEPT ![acced] = "start"]
        /\ holders' = [holders EXCEPT ![acced] = @ \cup {"child"}]
        /\ UNCHANGED dropped
     \/ /\ Cardinality(dropped) < MaxForkFailures
        /\ dropped' = dropped \cup {acced}
        /\ UNCHANGED << wpc, holders >>
  /\ UNCHANGED << program, clientVars, backlog, up, down, acced, wround, signalVars >>

\* Slip: the parent keeps its descriptor.
CloseAccedMutant ==
  /\ spc = "close" /\ ~ handling
  /\ spc' = "accept"
  /\ UNCHANGED << program, clientVars, backlog, up, down, acced, workVars, holders, signalVars,
                  dropped >>

CloseAcced ==
  /\ spc = "close" /\ ~ handling
  /\ spc' = "accept" /\ holders' = [holders EXCEPT ![acced] = @ \ {"server"}]
  /\ UNCHANGED << program, clientVars, backlog, up, down, acced, workVars, signalVars, dropped >>

\* SIGCHLD comes at any time; sigaction() asked for no SA_RESTART, so an accept() it
\* finds waiting fails with EINTR.
Signal ==
  /\ pending /\ ~ handling /\ spc # "gone"
  /\ pending' = FALSE /\ handling' = TRUE
  /\ \/ UNCHANGED spc
     \/ spc = "accept" /\ backlog = << >> /\ spc' = "interrupted"
  /\ UNCHANGED << program, clientVars, backlog, up, down, acced, workVars, holders, dropped >>

\* Slip: "if" for "while".
ReapMutant(c) ==
  /\ handling /\ wpc[c] = "exited"
  /\ wpc' = [wpc EXCEPT ![c] = "reaped"] /\ handling' = FALSE
  /\ UNCHANGED << program, clientVars, backlog, up, down, spc, acced, wround, holders, pending,
                  dropped >>

Reap(c) ==
  /\ handling /\ wpc[c] = "exited"
  /\ wpc' = [wpc EXCEPT ![c] = "reaped"]
  /\ UNCHANGED << program, clientVars, backlog, up, down, spc, acced, wround, holders, signalVars,
                  dropped >>

\* tcp_accept throws if it was interrupted, and nobody catches that.
HandlerReturns ==
  /\ handling /\ \A c \in Clients : wpc[c] # "exited"
  /\ handling' = FALSE
  /\ spc' = IF spc = "interrupted" THEN "gone" ELSE spc
  /\ UNCHANGED << program, clientVars, backlog, up, down, acced, workVars, holders, pending, dropped >>

-----------------------------------------------------------------------------
(* The process that serves a client.                                       *)

Serves(c, step) == wpc[c] = step /\ (Forking \/ spc = "serve")

WorkerGoes(c, step) == wpc' = [wpc EXCEPT ![c] = step]

\* A process ends and closes what it has.  The end of a child is a signal for the
\* server, one signal however many have ended since the server has seen the last.
WorkerEnds(c) ==
  /\ WorkerGoes(c, "exited") /\ holders' = [holders EXCEPT ![c] = @ \ {"child"}]
  /\ pending' = TRUE /\ UNCHANGED spc

ServerEnds == spc' = "gone" /\ holders' = [c \in Clients |-> holders[c] \ {"server"}]

\* An exception of tcp_read or tcp_write, or SIGPIPE.
Killed(c) ==
  /\ ~ ClientEnd(c)
  /\ IF Forking THEN WorkerEnds(c)
                ELSE ServerEnds /\ WorkerGoes(c, "gone") /\ UNCHANGED pending

Start(c) ==
  /\ Serves(c, "start")
  /\ WorkerGoes(c, "read")
  /\ UNCHANGED << program, clientVars, backlog, up, down, spc, acced, wround, holders, signalVars,
                  dropped >>

\* recv() returning 0 leaves the buffer as it was, and the loop goes on.
Read(c) ==
  /\ Serves(c, "read")
  /\ \/ /\ up[c] > 0 \/ ~ ClientEnd(c)
        /\ up' = [up EXCEPT ![c] = IF @ > 0 THEN @ - 1 ELSE 0]
        /\ WorkerGoes(c, "write")
        /\ UNCHANGED << holders, spc, pending >>
     \/ Killed(c) /\ UNCHANGED up
  /\ UNCHANGED << program, clientVars, backlog, down, acced, wround, handling, dropped >>

\* Slip: one round less than the client's.
WriteMutant(c) ==
  /\ Serves(c, "write")
  /\ down' = [down EXCEPT ![c] = @ + 1]
  /\ wround' = [wround EXCEPT ![c] = @ + 1]
  /\ WorkerGoes(c, IF wround[c] + 1 >= Messages - 1 THEN "close" ELSE "read")
  /\ UNCHANGED << program, clientVars, backlog, up, acced, handling, dropped, holders, spc, pending >>

Write(c) ==
  /\ Serves(c, "write")
  /\ \/ /\ down' = [down EXCEPT ![c] = @ + 1]
        /\ wround' = [wround EXCEPT ![c] = @ + 1]
        /\ WorkerGoes(c, IF wround[c] + 1 = Messages THEN "close" ELSE "read")
        /\ UNCHANGED << holders, spc, pending >>
     \/ Killed(c) /\ UNCHANGED << down, wround >>
  /\ UNCHANGED << program, clientVars, backlog, up, acced, handling, dropped >>

Close(c) ==
  /\ Serves(c, "close")
  /\ IF Forking THEN WorkerEnds(c)
                ELSE /\ spc' = "accept" /\ holders' = [holders EXCEPT ![c] = {}]
                     /\ WorkerGoes(c, "served") /\ UNCHANGED pending
  /\ UNCHANGED << program, clientVars, backlog, up, down, acced, wround, handling, dropped >>

-----------------------------------------------------------------------------
Client(c) == Connect(c) \/ ClientWrite(c) \/ ClientRead(c)
Handler   == Signal \/ (\E c \in Clients : Reap(c)) \/ HandlerReturns
Main      == Accept \/ Fork \/ CloseAcced
Worker(c) == Start(c) \/ Read(c) \/ Write(c) \/ Close(c)

Next ==
  \/ \E c \in Clients : Client(c) \/ ClientCrash(c) \/ Worker(c)
  \/ Main \/ Handler

\* Processes that can go on do, and a signal is delivered.
FairSpec ==
  /\ Init /\ [][Next]_vars
  /\ WF_vars(Main) /\ WF_vars(Handler)
  /\ \A c \in Clients : WF_vars(Client(c)) /\ WF_vars(Worker(c))

-----------------------------------------------------------------------------
(* Properties.                                                             *)

\* Types; and the server has at most one accepted connection open, the one it is
\* about to hand on or is serving, so its descriptors do not run out.
TypeOK ==
  /\ \A c \in Clients :
       /\ cpc[c] \in {"connect", "write", "read", "done", "threw", "crashed"}
       /\ wpc[c] \in {"none", "start", "read", "write", "close"}
                       \cup (IF Forking THEN {"exited", "reaped"} ELSE {"served", "gone"})
       /\ cround[c] \in 0 .. wround[c] /\ wround[c] \in 0 .. Messages
       /\ "server" \in holders[c] => spc \in {"fork", "close", "serve"} /\ c = acced
  /\ spc \in {"accept", "gone"}
               \cup (IF Forking THEN {"fork", "close", "interrupted"} ELSE {"serve"})
  /\ handling => Forking

\* Every client that has connected is served to its last message, unless it ends
\* before that itself, the server has gone, or fork() has failed for it.  Once a
\* process serves it, whatever happens to the server and the others makes no odds.
Served ==
  \A c \in Clients :
    /\ (cpc[c] = "write") ~> (cpc[c] \in {"done", "crashed"} \/ spc = "gone" \/ c \in dropped)
    /\ (wpc[c] # "none") ~> (cpc[c] \in {"done", "crashed"})

\* No child stays a zombie, although the ends of several children may be a single
\* signal, and a child may end while the handler is at work.
Reaped ==
  \A c \in Clients : (wpc[c] = "exited") ~> (wpc[c] = "reaped" \/ spc = "gone")
=============================================================================
