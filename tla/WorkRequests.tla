---------------------------- MODULE WorkRequests ----------------------------
(***************************************************************************)
(* The work requests of WorkRequest.cpp and the builders that fill them:   *)
(* what postWorkRequest hands to the network card.  A read copies the far  *)
(* side's readPos, a write one slice of the send buffer; begin and end are *)
(* the slice's offsets, remote is the offset in the far ring it goes to.   *)
(* Requests that name one variable, not a slice of a ring, have 0 in all   *)
(* three.                                                                  *)
(***************************************************************************)
EXTENDS Integers, Sequences

\* ReadWorkRequest::getId(), and what its builder gives every read of a region.
ReadId == 42

\* A fresh request: all zero, so neither signaled nor inline, and with id 0.
NewRequest(opcode) ==
  [op |-> opcode, id |-> 0, signaled |-> FALSE, inln |-> FALSE,
   begin |-> 0, end |-> 0, remote |-> 0, bytes |-> << >>]

\* setLocalAddress and setRemoteAddress.
Addressed(wr, local, remote) ==
  [wr EXCEPT !.begin = local.begin, !.end = local.end, !.remote = remote]

SetId(wr, id)           == [wr EXCEPT !.id = id]
SetCompletion(wr, flag) == [wr EXCEPT !.signaled = flag]
SetSendInline(wr, flag) == [wr EXCEPT !.inln = flag]

\* Slip: the builder for a slice of a region, which sets no id.
ReadBuilderMutant(local, remote, completion) ==
  SetCompletion(Addressed(NewRequest("read"), local, remote), completion)

ReadBuilder(local, remote, completion) ==
  SetId(SetCompletion(Addressed(NewRequest("read"), local, remote), completion), ReadId)

WriteBuilder(local, remote, completion) ==
  SetCompletion(Addressed(NewRequest("write"), local, remote), completion)
=============================================================================
