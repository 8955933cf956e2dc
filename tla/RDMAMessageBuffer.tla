------------------------- MODULE RDMAMessageBuffer -------------------------
(***************************************************************************)
(* One direction of a connection: the thread inside send() on one side,    *)
(* the thread inside receive() or hasData() on the other, and the network  *)
(* card that executes the sender's queue pair.  The two sides share no     *)
(* memory: the card copies frames                                          *)
(*                                                                         *)
(*     length word  |  data  |  validity word                              *)
(*                                                                         *)
(* into the receiver's zeroed ring one byte after the other, and copies    *)
(* the receiver's readPos back when the sender runs out of room.  Nothing  *)
(* else tells the receiver that a frame is there, or the sender that its   *)
(* bytes have left the send buffer.                                        *)
(***************************************************************************)
EXTENDS Wraparound, WorkRequests, FiniteSets

CONSTANTS
  WordLen,          \* sizeof(size_t): the bytes of the length and the validity word
  Byte,             \* the values of a byte
  Validity,         \* the bytes of the constant validity, as they lie in memory
  LenBytes(_),      \* the bytes of a length, as they lie in memory
  LenValue(_),      \* the length that bytes read from memory stand for
  Payloads,         \* the messages an application sends
  RecvCaps,         \* the buffer sizes it passes to receive(whereTo, maxSize)
  MaxInline,        \* maxInlineSize of the queue pair
  MaxSendWr,        \* max_send_wr of the queue pair
  CqSize,           \* entries of the send completion queue
  MaxMsgs           \* bound of the model: calls of send()

Word == [1 .. WordLen -> Byte]

ASSUME ByteAssumption ==
  /\ Byte \subseteq Nat /\ 0 \in Byte
  /\ WordLen \in Nat \ {0} /\ 2 * WordLen <= Size
  /\ Validity \in Word
  /\ \A n \in 0 .. Size - 2 * WordLen : LenBytes(n) \in Word
  /\ \A w \in Word : LenValue(w) \in Nat

ASSUME ParameterAssumption ==
  /\ Payloads \subseteq Seq(Byte)
  /\ RecvCaps \subseteq Nat
  /\ MaxInline \in Nat /\ MaxSendWr \in Nat /\ CqSize \in Nat \ {0} /\ MaxMsgs \in Nat

\* A word of which some bytes have been read before they were delivered: the ring
\* was zero there.
Torn(w, whole) == \A i \in 1 .. WordLen : w[i] \in {0, whole[i]}

\* How a size_t lies in memory: what is written is read, and clearing bytes of it
\* makes it no larger.  The last byte of validity is not zero.
ASSUME WordAssumption ==
  /\ Validity[WordLen] # 0
  /\ \A n \in 0 .. Size - 2 * WordLen :
       /\ LenValue(LenBytes(n)) = n
       /\ \A w \in Word : Torn(w, LenBytes(n)) => LenValue(w) <= n

VARIABLES
  spc,                   \* where send() is; "failed": postWorkRequest threw
  part,                  \* which of its three calls of writeToSendBuffer it is in
  msg, inln,             \* its arguments
  startOfWrite,          \* its local variable
  slice,                 \* the slice it posts next
  sendPos, currentRemoteReceive, sendBuffer,
  sq,                    \* work requests the card has not finished
  done,                  \* bytes of the first of them it has placed
  resp,                  \* the remote readPos it has fetched, -1 if none
  cq,                    \* ids in the send completion queue
  outstanding,           \* send queue slots taken
  rpc,                   \* where receive() or hasData() is
  rop, rcap,             \* which of the two, and maxSize
  rbytes,                \* bytes it has read of the length and validity word
  rdata,                 \* the result vector, or *whereTo
  receiveBuffer, readPos,
  sent, received,        \* history: data of the calls so far of send(), receive()
  delivered,             \* history: stream position the card has written up to
  avail                  \* history: hasData() was true and nothing received since

sendVars == << spc, part, msg, inln, startOfWrite, slice, sendPos, sendBuffer, sent >>
nicVars  == << sq, done, resp, cq, outstanding, currentRemoteReceive, delivered >>
recvVars == << rpc, rop, rcap, rbytes, rdata, readPos, received, avail >>
vars     == << sendVars, nicVars, recvVars, receiveBuffer >>

-----------------------------------------------------------------------------
(* Frames and work requests.                                               *)

FrameLen(n) == WordLen + n + WordLen

\* The three pieces send() passes to writeToSendBuffer.
PartBytes(p, d) == CASE p = "header" -> LenBytes(Len(d))
                     [] p = "data"   -> d
                     [] p = "footer" -> Validity

NoCap  == Size          \* rcap of receive() without maxSize

ReadWr == ReadBuilder([begin |-> 0, end |-> 0], 0, TRUE)

\* Slip: the slice's end given for its size.
WriteWrMutant(s, inl) ==
  SetSendInline(WriteBuilder([s EXCEPT !.end = s.begin + s.end], s.begin, FALSE), FALSE)

\* Slip: every write asks for a completion.
WriteWrMutantSignaled(s, inl) ==
  SetSendInline(WriteBuilder(s, s.begin, TRUE), inl)

\* One slice of the frame, to the same place in the far ring.
WriteWr(s, inl) ==
  SetSendInline(WriteBuilder(s, s.begin, FALSE), inl)

\* The card takes the bytes of an inline write when it is posted, those of any
\* other write from the send buffer when it gets to them.
Posted(wr) ==
  IF wr.inln
  THEN [wr EXCEPT !.bytes =
          [i \in 1 .. wr.end - wr.begin |-> sendBuffer[wr.begin + i - 1]]]
  ELSE wr

Init ==
  /\ spc = "idle" /\ part = "header" /\ msg = << >> /\ inln = FALSE
  /\ startOfWrite = 0 /\ slice = 1 /\ sendPos = 0 /\ currentRemoteReceive = 0
  /\ sendBuffer = [c \in Offsets |-> 0]
  /\ sq = << >> /\ done = 0 /\ resp = -1 /\ cq = << >> /\ outstanding = 0
  /\ rpc = "idle" /\ rop = "receive" /\ rcap = NoCap /\ rbytes = << >> /\ rdata = << >>
  /\ receiveBuffer = [c \in Offsets |-> 0] /\ readPos = 0
  /\ sent = << >> /\ received = << >> /\ delivered = 0 /\ avail = FALSE

-----------------------------------------------------------------------------
(* The sending thread.                                                     *)

\* send(data, length, inln).  A frame longer than the ring makes it throw
\* before it has changed anything.
Send(d, inl) ==
  /\ spc = "idle" /\ Len(sent) < MaxMsgs
  /\ FrameLen(Len(d)) <= Size
  /\ spc' = "write" /\ part' = "header" /\ msg' = d /\ inln' = inl
  /\ startOfWrite' = sendPos
  /\ sent' = Append(sent, d)
  /\ UNCHANGED << slice, sendPos, sendBuffer, nicVars, recvVars, receiveBuffer >>

\* Slip: room counted from the start of this send().
SafeToWriteMutant == Size - (startOfWrite - currentRemoteReceive)

SafeToWrite == Size - (sendPos - currentRemoteReceive)

\* writeToSendBuffer, when there is room: copy the part, go on to the next.
WritePart ==
  LET bytes == PartBytes(part, msg)
  IN  /\ spc = "write"
      /\ Len(bytes) <= SafeToWrite
      /\ sendBuffer' = CopyIn(sendBuffer, sendPos, bytes)
      /\ sendPos' = sendPos + Len(bytes)
      /\ \/ part = "header" /\ part' = "data"   /\ spc' = "write"
         \/ part = "data"   /\ part' = "footer" /\ spc' = "write"
         \/ part = "footer" /\ part' = "header" /\ spc' = "post"
      /\ UNCHANGED << msg, inln, startOfWrite, slice, sent, nicVars, recvVars, receiveBuffer >>

\* postWorkRequest: the queue takes the request, or the call throws out of send().
Post(wr, next) ==
  IF outstanding < MaxSendWr
  THEN /\ sq' = Append(sq, Posted(wr)) /\ outstanding' = outstanding + 1
       /\ spc' = next
  ELSE /\ spc' = "failed"
       /\ UNCHANGED << sq, outstanding >>

\* Slip: go round without waiting for the answer.
PostReadMutant ==
  /\ spc = "write"
  /\ Len(PartBytes(part, msg)) > SafeToWrite
  /\ Post(ReadWr, "write")
  /\ UNCHANGED << part, msg, inln, startOfWrite, slice, sendPos, sendBuffer, sent,
                  done, resp, cq, currentRemoteReceive, delivered, recvVars, receiveBuffer >>

\* writeToSendBuffer, when there is not: ask the card for the remote readPos ...
PostRead ==
  /\ spc = "write"
  /\ Len(PartBytes(part, msg)) > SafeToWrite
  /\ Post(ReadWr, "poll")
  /\ UNCHANGED << part, msg, inln, startOfWrite, slice, sendPos, sendBuffer, sent,
                  done, resp, cq, currentRemoteReceive, delivered, recvVars, receiveBuffer >>

\* Taking a completion frees the slots of all requests up to its own; those
\* the card has not finished were posted later.
SlotsAfterPoll == Len(sq)

\* ... and poll until the read's id shows up, then look at the room again.
Poll ==
  /\ spc = "poll" /\ cq # << >>
  /\ spc' = IF Head(cq) = ReadId THEN "write" ELSE "poll"
  /\ cq' = Tail(cq)
  /\ outstanding' = SlotsAfterPoll
  /\ UNCHANGED << part, msg, inln, startOfWrite, slice, sendPos, sendBuffer, sent,
                  sq, done, resp, currentRemoteReceive, delivered, recvVars, receiveBuffer >>

\* The end of send(): one unsignaled write per slice of the frame.
PostSlice ==
  LET slices == Slices(startOfWrite, FrameLen(Len(msg)))
      s      == slices[slice]
      last   == slice = Len(slices)
  IN  /\ spc = "post"
      /\ Post(WriteWr(s, inln /\ SliceLen(s) <= MaxInline), IF last THEN "idle" ELSE "post")
      /\ slice' = IF last THEN 1 ELSE slice + 1
      /\ UNCHANGED << part, msg, inln, startOfWrite, sendPos, sendBuffer, sent,
                      done, resp, cq, currentRemoteReceive, delivered, recvVars, receiveBuffer >>

-----------------------------------------------------------------------------
(* The network card: a reliable connection executes requests in the order  *)
(* they were posted and places the bytes of a write first to last.         *)

ByteOf(wr, i) == IF wr.inln THEN wr.bytes[i + 1] ELSE sendBuffer[wr.begin + i]

\* Finishing the first request, which reports it if it asked for that.
Finish(wr) ==
  /\ sq' = Tail(sq)
  /\ cq' = IF wr.signaled THEN Append(cq, wr.id) ELSE cq

DeliverByte ==
  /\ sq # << >> /\ Head(sq).op = "write"
  /\ LET wr == Head(sq)
     IN  /\ receiveBuffer' = [receiveBuffer EXCEPT ![wr.remote + done] = ByteOf(wr, done)]
         /\ IF done + 1 = SliceLen(wr)
            THEN Finish(wr) /\ done' = 0
            ELSE UNCHANGED << sq, cq >> /\ done' = done + 1
  /\ delivered' = delivered + 1
  /\ UNCHANGED << sendVars, resp, outstanding, currentRemoteReceive, recvVars >>

\* The far card reads readPos; the answer travels; it is stored and completed.
FetchReadPos ==
  /\ sq # << >> /\ Head(sq).op = "read" /\ resp = -1
  /\ resp' = readPos
  /\ UNCHANGED << sendVars, sq, done, cq, outstanding, currentRemoteReceive, delivered,
                  recvVars, receiveBuffer >>

CompleteRead ==
  /\ resp # -1
  /\ currentRemoteReceive' = resp /\ resp' = -1
  /\ Finish(Head(sq))
  /\ UNCHANGED << sendVars, done, outstanding, delivered, recvVars, receiveBuffer >>

-----------------------------------------------------------------------------
(* The receiving thread.                                                   *)

\* receive() (cap = NoCap), receive(whereTo, cap) and hasData().
Receive(cap) ==
  /\ rpc = "idle"
  /\ rpc' = "scan" /\ rop' = "receive" /\ rcap' = cap
  /\ UNCHANGED << rbytes, rdata, readPos, received, avail, sendVars, nicVars, receiveBuffer >>

HasData ==
  /\ rpc = "idle"
  /\ rpc' = "scan" /\ rop' = "hasData"
  /\ UNCHANGED << rcap, rbytes, rdata, readPos, received, avail, sendVars, nicVars, receiveBuffer >>

receiveSize     == LenValue(SubSeq(rbytes, 1, WordLen))
receiveValidity == SubSeq(rbytes, WordLen + 1, 2 * WordLen)

\* Where the next byte of the length word, then of the validity word, is read.
ScanOffset ==
  LET n == Len(rbytes)
  IN  IF n < WordLen
      THEN OffsetOf(Slices(readPos, WordLen), n)
      ELSE OffsetOf(Slices(readPos + WordLen + receiveSize, WordLen), n - WordLen)

\* Only bytes are written atomically (README.md): a word may be read torn.
ScanByte ==
  /\ rpc = "scan" /\ Len(rbytes) < 2 * WordLen
  /\ rbytes' = Append(rbytes, receiveBuffer[ScanOffset])
  /\ UNCHANGED << rpc, rop, rcap, rdata, readPos, received, avail, sendVars, nicVars, receiveBuffer >>

Scanned == rpc = "scan" /\ Len(rbytes) = 2 * WordLen

\* Slip: a length is all hasData() looks at.
AnswerMutant ==
  /\ Scanned /\ rop = "hasData"
  /\ avail' = (receiveSize # 0)
  /\ rpc' = "idle" /\ rbytes' = << >>
  /\ UNCHANGED << rop, rcap, rdata, readPos, received, sendVars, nicVars, receiveBuffer >>

\* hasData() returns.
Answer ==
  /\ Scanned /\ rop = "hasData"
  /\ avail' = (receiveValidity = Validity)
  /\ rpc' = "idle" /\ rbytes' = << >>
  /\ UNCHANGED << rop, rcap, rdata, readPos, received, sendVars, nicVars, receiveBuffer >>

\* receive() loops.
Retry ==
  /\ Scanned /\ rop = "receive" /\ receiveValidity # Validity
  /\ rbytes' = << >>
  /\ UNCHANGED << rpc, rop, rcap, rdata, readPos, received, avail, sendVars, nicVars, receiveBuffer >>

\* receive(whereTo, maxSize) throws and leaves the message where it is.
TooBig ==
  /\ Scanned /\ rop = "receive" /\ receiveValidity = Validity
  /\ rcap # NoCap /\ receiveSize > rcap
  /\ rpc' = "idle" /\ rbytes' = << >>
  /\ UNCHANGED << rop, rcap, rdata, readPos, received, avail, sendVars, nicVars, receiveBuffer >>

\* Slip: the validity word is not compared.
CopyDataMutant ==
  /\ Scanned /\ rop = "receive"
  /\ rcap = NoCap \/ receiveSize <= rcap
  /\ rpc' = "zero"
  /\ rdata' = CopyOut(receiveBuffer, readPos + WordLen, receiveSize)
  /\ UNCHANGED << rop, rcap, rbytes, readPos, received, avail, sendVars, nicVars, receiveBuffer >>

CopyData ==
  /\ Scanned /\ rop = "receive" /\ receiveValidity = Validity
  /\ rcap = NoCap \/ receiveSize <= rcap
  /\ rpc' = "zero"
  /\ rdata' = CopyOut(receiveBuffer, readPos + WordLen, receiveSize)
  /\ UNCHANGED << rop, rcap, rbytes, readPos, received, avail, sendVars, nicVars, receiveBuffer >>

\* Slip: the footer is not cleared.
ZeroLenMutant == WordLen + receiveSize

\* The bytes zeroReceiveBuffer is told to clear.
ZeroLen == FrameLen(receiveSize)

Zero ==
  /\ rpc = "zero"
  /\ rpc' = "advance"
  /\ receiveBuffer' = Zeroed(receiveBuffer, readPos, ZeroLen)
  /\ UNCHANGED << rop, rcap, rbytes, rdata, readPos, received, avail, sendVars, nicVars >>

\* Slip: readPos stays behind by the footer.
AdvanceMutant ==
  /\ rpc = "advance"
  /\ rpc' = "idle" /\ rbytes' = << >> /\ rdata' = << >>
  /\ readPos' = readPos + WordLen + receiveSize
  /\ received' = Append(received, rdata)
  /\ avail' = FALSE
  /\ UNCHANGED << rop, rcap, sendVars, nicVars, receiveBuffer >>

\* The sender learns of the room from readPos alone.
Advance ==
  /\ rpc = "advance"
  /\ rpc' = "idle" /\ rbytes' = << >> /\ rdata' = << >>
  /\ readPos' = readPos + FrameLen(receiveSize)
  /\ received' = Append(received, rdata)
  /\ avail' = FALSE
  /\ UNCHANGED << rop, rcap, sendVars, nicVars, receiveBuffer >>

-----------------------------------------------------------------------------
Sender   == WritePart \/ PostRead \/ Poll \/ PostSlice
Nic      == DeliverByte \/ FetchReadPos \/ CompleteRead
Receiver == ScanByte \/ Answer \/ Retry \/ TooBig \/ CopyData \/ Zero \/ Advance

Next ==
  \/ \E d \in Payloads, inl \in BOOLEAN : Send(d, inl)
  \/ Sender
  \/ Nic
  \/ \E cap \in RecvCaps \cup {NoCap} : Receive(cap)
  \/ HasData
  \/ Receiver

Spec == Init /\ [][Next]_vars

\* Threads inside a call and the card keep running; the application is one that
\* comes back to receive() again and again, whatever else it calls.
FairSpec ==
  /\ Spec
  /\ WF_vars(Sender) /\ WF_vars(Nic) /\ WF_vars(Receiver)
  /\ SF_vars(Receive(NoCap))
-----------------------------------------------------------------------------
(* Properties.                                                             *)

WorkRequest ==
  [op : {"read", "write"}, id : {0, ReadId}, signaled : BOOLEAN, inln : BOOLEAN,
   begin : 0 .. Size, end : 0 .. Size, remote : 0 .. Size, bytes : Seq(Byte)]

\* Every variable keeps its type.  Those of rdata and received, which hold what
\* the far side's bytes say, are part of AcceptedIsComplete and InOrderExactlyOnce.
TypeOK ==
  /\ spc \in {"idle", "write", "poll", "post", "failed"}
  /\ part \in {"header", "data", "footer"}
  /\ msg \in Seq(Byte) /\ inln \in BOOLEAN /\ startOfWrite \in Nat /\ slice \in 1 .. 2
  /\ sendPos \in Nat /\ currentRemoteReceive \in Nat /\ sendBuffer \in [Offsets -> Byte]
  /\ sq \in Seq(WorkRequest) /\ done \in 0 .. Size - 1 /\ resp \in Nat \cup {-1}
  /\ cq \in Seq({0, ReadId}) /\ outstanding \in Nat
  /\ rpc \in {"idle", "scan", "zero", "advance"} /\ rop \in {"receive", "hasData"}
  /\ rcap \in RecvCaps \cup {NoCap}
  /\ rbytes \in Seq(Byte) /\ Len(rbytes) <= 2 * WordLen
  /\ receiveBuffer \in [Offsets -> Byte] /\ readPos \in Nat
  /\ sent \in Seq(Seq(Byte)) /\ delivered \in Nat /\ avail \in BOOLEAN

\* Byte i, from 0, of the frame of a message.
FrameByte(d, i) ==
  IF i < WordLen THEN LenBytes(Len(d))[i + 1]
  ELSE IF i < WordLen + Len(d) THEN d[i - WordLen + 1]
  ELSE Validity[i - WordLen - Len(d) + 1]

\* The messages are such that wherever a torn length makes receive() look for the
\* validity word, the frame has at least one byte that is not the validity word's.
NoPhantom ==
  \A d \in Payloads : FrameLen(Len(d)) <= Size =>
    \A w \in Word : Torn(w, LenBytes(Len(d))) /\ LenValue(w) # Len(d) =>
      \E i \in 1 .. WordLen :
        /\ Validity[i] # 0
        /\ FrameByte(d, WordLen + LenValue(w) + i - 1) # Validity[i]

\* A send queue longer than a ring can hold frames without data, by two requests:
\* one frame may be cut in two, and one read may ask for room.
EnoughSlots == Size < 2 * WordLen * (MaxSendWr - 1)

\* What receive() has returned so far is what send() was called with first, in
\* that order: nothing lost, doubled, swapped or mixed up, whatever wraps around.
InOrderExactlyOnce ==
  /\ Len(received) <= Len(sent)
  /\ \A i \in DOMAIN received : received[i] = sent[i]

\* The next message to be received, and whether the card has placed all of it.
NextMsg == sent[Len(received) + 1]
NextDelivered ==
  /\ Len(received) < Len(sent)
  /\ delivered >= readPos + FrameLen(Len(NextMsg))

\* The sender never has more than a ring of bytes that the receiver has not given
\* back, although it only knows a readPos of the past; so safeToWrite, computed
\* in size_t, does not wrap below zero.
NoOverrun ==
  /\ 0 <= SafeToWrite
  /\ sendPos <= readPos + Size
  /\ currentRemoteReceive <= readPos

\* Writeup.md's first assumption, "We always write to zero'ed memory": every cell
\* the sender may still fill, up to a ring ahead of readPos, is zero.
FreeIsZero ==
  \A p \in delivered .. readPos + Size - 1 : receiveBuffer[Cell(p)] = 0

\* A receive() that takes the validity word for genuine has the right length and
\* the right data, all of it delivered, although it may have read both words torn.
AcceptedIsComplete ==
  rpc \in {"zero", "advance"} =>
    /\ NextDelivered
    /\ receiveSize = Len(NextMsg) /\ rdata = NextMsg

\* From the moment a frame is accepted until readPos moves, nobody but the
\* receiver writes to its cells: copying and clearing it need no lock.
AcceptedStable ==
  [][ DeliverByte /\ (rpc \in {"zero", "advance"}) =>
        \A i \in 0 .. FrameLen(receiveSize) - 1 :
          receiveBuffer'[Cell(readPos + i)] = receiveBuffer[Cell(readPos + i)] ]_vars

\* send() returns while the card has still to read the send buffer.  The bytes a
\* posted write has not placed yet are never overwritten by a later send().
InFlightStable ==
  [][ \A k \in DOMAIN sq : sq[k].op = "write" /\ ~ sq[k].inln =>
        \A c \in Offsets :
          /\ sq[k].begin + (IF k = 1 THEN done ELSE 0) <= c /\ c < sq[k].end
          => sendBuffer'[c] = sendBuffer[c] ]_vars

\* Unsignaled writes keep their send queue slots until a later read completes;
\* still the queue is never full, and postWorkRequest never throws half way
\* through a send().
SendQueueNeverFull == spc # "failed"

\* Only the reads of the far readPos report back, and send() takes each report
\* before it asks again: the completion queue never holds, nor is promised, more
\* than one entry, however many writes are under way.
CqNeverOverruns ==
  Len(cq) + Cardinality({k \in DOMAIN sq : sq[k].signaled}) <= CqSize

\* hasData(): "whether there is data to be read non-blockingly".  Once it has said
\* yes, a whole frame is there, and a receive() does not go round its loop.
HasDataNonBlocking ==
  avail => /\ NextDelivered
           /\ Scanned /\ rop = "receive" => receiveValidity = Validity



\* No send() waits for ever for room, as long as the application on the other
\* side receives; and every message sent is received in the end.
SendReturns == (spc # "idle") ~> (spc = "idle")

EveryMessageArrives ==
  \A k \in 1 .. MaxMsgs : (Len(sent) >= k) ~> (Len(received) >= k)

-----------------------------------------------------------------------------
(* One direction is a bounded queue of whole messages.  A message is put   *)
(* when its footer is in the send buffer, because send() can no longer     *)
(* wait from then on, and got when readPos passes it.                      *)

Unfinished == spc \in {"write", "poll"}

MsgCost(d) == FrameLen(Len(d))

Fifo == INSTANCE MessageFifo WITH
  Messages <- Payloads,
  Cost     <- MsgCost,
  Capacity <- Size,
  queue    <- SubSeq(sent, Len(received) + 1, IF Unfinished THEN Len(sent) - 1 ELSE Len(sent)),
  used     <- (IF Unfinished THEN startOfWrite ELSE sendPos) - readPos

\* Every behaviour of the buffers is one of the queue, and with a fair card and an
\* application that receives every message put is got.
ImplementsFifo == Fifo!FairSpec
=============================================================================
