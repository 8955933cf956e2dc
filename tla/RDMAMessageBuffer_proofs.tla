---------------------- MODULE RDMAMessageBuffer_proofs ----------------------
(***************************************************************************)
(* Type correctness and the flow control of RDMAMessageBuffer, for every   *)
(* ring size, word length, set of messages and queue length; and the mask, *)
(* for every power of two.                                                 *)
(***************************************************************************)
EXTENDS RDMAMessageBuffer, FiniteSetTheorems, WellFoundedInduction, TLAPS

-----------------------------------------------------------------------------
(* The ring.                                                               *)

\* A stream position is masked to an offset of the ring.
LEMMA CellInRing ==
  ASSUME NEW p \in Nat
  PROVE  Cell(p) \in Offsets
BY SizeAssumption DEF Cell, Offsets

\* The pieces wraparound() cuts a frame into lie inside the ring.
LEMMA SlicesInRing ==
  ASSUME NEW pos \in Nat, NEW todo \in 0 .. Size
  PROVE  /\ Len(Slices(pos, todo)) \in 1 .. 2
         /\ \A k \in 1 .. Len(Slices(pos, todo)) :
              LET s == Slices(pos, todo)[k]
              IN  /\ s.begin \in 0 .. Size /\ s.end \in 0 .. Size /\ s.prev \in Nat
                  /\ s.begin <= s.end
                  /\ todo > 0 => s.begin < s.end
                  /\ s.prev + SliceLen(s) <= todo
<1> DEFINE b == Cell(pos)
<1>1. b \in 0 .. Size - 1
  BY CellInRing DEF Offsets
<1>2. CASE Size - b >= todo
  <2>1. Slices(pos, todo) = << Slice(0, b, b + todo) >>
    BY <1>2 DEF Slices
  <2> QED
    BY <1>1, <1>2, <2>1, SizeAssumption DEF Slice, SliceLen
<1>3. CASE ~ (Size - b >= todo)
  <2>1. Slices(pos, todo) = << Slice(0, b, Size), Slice(Size - b, 0, todo - (Size - b)) >>
    BY <1>3 DEF Slices
  <2> QED
    BY <1>1, <1>3, <2>1, SizeAssumption DEF Slice, SliceLen
<1> QED
  BY <1>2, <1>3

\* The same for one slice of a piece that is not empty.
LEMMA SliceInRing ==
  ASSUME NEW pos \in Nat, NEW todo \in 1 .. Size, NEW k \in 1 .. Len(Slices(pos, todo))
  PROVE  /\ Slices(pos, todo)[k].begin \in 0 .. Size
         /\ Slices(pos, todo)[k].end \in 0 .. Size
         /\ Slices(pos, todo)[k].begin < Slices(pos, todo)[k].end
<1>1. todo \in 0 .. Size /\ todo > 0
  BY SizeAssumption
<1> QED
  BY <1>1, SlicesInRing

\* wraparound() calls its function once or twice.
LEMMA SlicesCount ==
  ASSUME NEW pos \in Nat, NEW todo \in 0 .. Size
  PROVE  Len(Slices(pos, todo)) \in 1 .. 2
BY SlicesInRing, Zenon

\* A byte of a word read through wraparound() is a byte of the ring.
LEMMA OffsetInRing ==
  ASSUME NEW pos \in Nat, NEW n \in 0 .. Size, NEW i \in 0 .. n - 1
  PROVE  OffsetOf(Slices(pos, n), i) \in Offsets
<1> DEFINE b == Cell(pos)
<1>1. b \in 0 .. Size - 1
  BY CellInRing DEF Offsets
<1>2. CASE Size - b >= n
  <2>1. Slices(pos, n) = << Slice(0, b, b + n) >>
    BY <1>2 DEF Slices
  <2> QED
    BY <1>1, <1>2, <2>1, SizeAssumption DEF Slice, SliceLen, OffsetOf, Offsets
<1>3. CASE ~ (Size - b >= n)
  <2>1. Slices(pos, n) = << Slice(0, b, Size), Slice(Size - b, 0, n - (Size - b)) >>
    BY <1>3 DEF Slices
  <2> QED
    BY <1>1, <1>3, <2>1, SizeAssumption DEF Slice, SliceLen, OffsetOf, Offsets
<1> QED
  BY <1>2, <1>3

\* Copying bytes into a ring of bytes leaves a ring of bytes.
LEMMA CopyInType ==
  ASSUME NEW ring \in [Offsets -> Byte], NEW pos \in Nat,
         NEW bytes \in Seq(Byte), Len(bytes) <= Size
  PROVE  CopyIn(ring, pos, bytes) \in [Offsets -> Byte]
<1> DEFINE sl == Slices(pos, Len(bytes))
           From(s, c) == bytes[s.prev + (c - s.begin) + 1]
<1>1. Len(bytes) \in 0 .. Size
  BY SizeAssumption
<1>2. ASSUME NEW k \in 1 .. Len(sl), NEW c \in Offsets, Holds(sl[k], c)
      PROVE  From(sl[k], c) \in Byte
  <2>1. /\ sl[k].begin \in 0 .. Size /\ sl[k].end \in 0 .. Size /\ sl[k].prev \in Nat
        /\ sl[k].prev + (sl[k].end - sl[k].begin) <= Len(bytes)
    BY <1>1, SlicesInRing DEF SliceLen
  <2>2. sl[k].begin <= c /\ c < sl[k].end
    BY <1>2 DEF Holds
  <2> HIDE DEF sl
  <2>3. ASSUME NEW p \in Nat, NEW b \in 0 .. Size, NEW e \in 0 .. Size, NEW L \in Nat,
               p + (e - b) <= L, b <= c, c < e
        PROVE  p + (c - b) + 1 \in 1 .. L
    BY <2>3, SizeAssumption DEF Offsets
  <2>4. sl[k].prev + (c - sl[k].begin) + 1 \in 1 .. Len(bytes)
    BY <1>1, <2>1, <2>2, <2>3
  <2> QED
    BY <2>4
<1>3. Len(sl) \in 1 .. 2
  BY <1>1, SlicesInRing
<1> HIDE DEF sl, From
<1>4. CopyIn(ring, pos, bytes) =
        [c \in Offsets |->
           IF Holds(sl[1], c) THEN From(sl[1], c)
           ELSE IF Len(sl) = 2 /\ Holds(sl[2], c) THEN From(sl[2], c)
           ELSE ring[c]]
  BY DEF CopyIn, sl, From
<1>5. ASSUME NEW c \in Offsets
      PROVE (IF Holds(sl[1], c) THEN From(sl[1], c)
             ELSE IF Len(sl) = 2 /\ Holds(sl[2], c) THEN From(sl[2], c)
             ELSE ring[c]) \in Byte
  BY <1>2, <1>3
<1> QED
  BY <1>4, <1>5

\* Clearing part of a ring of bytes leaves a ring of bytes.
LEMMA ZeroedType ==
  ASSUME NEW ring \in [Offsets -> Byte], NEW pos, NEW n
  PROVE  Zeroed(ring, pos, n) \in [Offsets -> Byte]
BY ByteAssumption DEF Zeroed

-----------------------------------------------------------------------------
(* Type correctness.  Alone it is not inductive: that done stays an offset *)
(* needs the shape of the requests in the send queue, and that needs the   *)
(* slice send() posts next to be one of its frame's.                       *)

\* Write requests cover a non-empty piece of the ring and go to the same piece of
\* the far ring, and an inline one carries all its bytes; the card is inside the first request; a read of the remote
\* readPos is answered while it is that first request.
QueueShape ==
  /\ \A k \in 1 .. Len(sq) :
       sq[k].op = "write" =>
         /\ sq[k].remote = sq[k].begin /\ sq[k].begin < sq[k].end
         /\ sq[k].inln => Len(sq[k].bytes) = sq[k].end - sq[k].begin
  /\ sq # << >> /\ Head(sq).op = "write" => done < SliceLen(Head(sq))
  /\ ~ (sq # << >> /\ Head(sq).op = "write") => done = 0
  /\ resp # -1 => sq # << >> /\ Head(sq).op = "read"

\* The frame being sent fits the ring, and slice is one of its slices.
FrameFits ==
  /\ FrameLen(Len(msg)) <= Size
  /\ spc \in {"idle", "write", "poll"} => slice = 1
  /\ spc = "post" => slice <= Len(Slices(startOfWrite, FrameLen(Len(msg))))

\* An accepted message's length and validity word have been read.
ScanDone == rpc \in {"zero", "advance"} => Len(rbytes) = 2 * WordLen

TypeInv == TypeOK /\ QueueShape /\ FrameFits /\ ScanDone

\* The three pieces of a frame are byte sequences no longer than the ring.
LEMMA PartBytesType ==
  ASSUME NEW p \in {"header", "data", "footer"}, NEW d \in Seq(Byte), FrameLen(Len(d)) <= Size
  PROVE  PartBytes(p, d) \in Seq(Byte) /\ Len(PartBytes(p, d)) <= Size
<1>1. ASSUME NEW w \in Word
      PROVE  w \in Seq(Byte) /\ Len(w) = WordLen
  BY ByteAssumption DEF Word
<1>2. Len(d) \in 0 .. Size - 2 * WordLen
  BY ByteAssumption, SizeAssumption DEF FrameLen
<1>3. LenBytes(Len(d)) \in Word /\ Validity \in Word
  BY <1>2, ByteAssumption
<1> QED
  BY <1>1, <1>2, <1>3, ByteAssumption, SizeAssumption DEF PartBytes

\* Setting a field of a request leaves a request, and the other fields alone.
LEMMA SetterTypes ==
  ASSUME NEW wr \in WorkRequest
  PROVE  /\ \A flag \in BOOLEAN :
              /\ SetCompletion(wr, flag) \in WorkRequest
              /\ SetCompletion(wr, flag).signaled = flag
              /\ \A f \in {"op", "id", "inln", "begin", "end", "remote"} :
                   SetCompletion(wr, flag)[f] = wr[f]
         /\ \A flag \in BOOLEAN :
              /\ SetSendInline(wr, flag) \in WorkRequest
              /\ \A f \in {"op", "id", "signaled", "begin", "end", "remote"} :
                   SetSendInline(wr, flag)[f] = wr[f]
         /\ SetId(wr, ReadId) \in WorkRequest /\ SetId(wr, ReadId).id = ReadId
         /\ \A f \in {"op", "signaled", "begin", "end", "remote"} : SetId(wr, ReadId)[f] = wr[f]
BY DEF SetCompletion, SetSendInline, SetId, WorkRequest

\* A request with the addresses of a slice of the ring.
LEMMA AddressedType ==
  ASSUME NEW opcode \in {"read", "write"}, NEW s,
         s.begin \in 0 .. Size, s.end \in 0 .. Size, NEW r \in 0 .. Size
  PROVE  /\ Addressed(NewRequest(opcode), s, r) \in WorkRequest
         /\ Addressed(NewRequest(opcode), s, r).op = opcode
         /\ Addressed(NewRequest(opcode), s, r).begin = s.begin
         /\ Addressed(NewRequest(opcode), s, r).end = s.end
         /\ Addressed(NewRequest(opcode), s, r).remote = r
<1> DEFINE a == NewRequest(opcode)
<1>1. << >> \in Seq(Byte)
  OBVIOUS
<1>2. a \in WorkRequest /\ a.op = opcode
  BY <1>1, SizeAssumption DEF NewRequest, WorkRequest
<1> HIDE DEF a
<1>3. /\ Addressed(a, s, r) \in WorkRequest /\ Addressed(a, s, r).op = opcode
      /\ Addressed(a, s, r).begin = s.begin /\ Addressed(a, s, r).end = s.end
      /\ Addressed(a, s, r).remote = r
  BY <1>2 DEF Addressed, WorkRequest
<1> QED
  BY <1>3 DEF a

\* The request for a slice of a frame goes to the same place in the far ring.
LEMMA WriteWrType ==
  ASSUME NEW s, NEW inl \in BOOLEAN, s.begin \in 0 .. Size, s.end \in 0 .. Size
  PROVE  /\ WriteWr(s, inl) \in WorkRequest
         /\ WriteWr(s, inl).op = "write"
         /\ WriteWr(s, inl).begin = s.begin /\ WriteWr(s, inl).end = s.end
         /\ WriteWr(s, inl).remote = s.begin
         /\ WriteWr(s, inl).signaled = FALSE
<1> DEFINE b == Addressed(NewRequest("write"), s, s.begin)
           c == SetCompletion(b, FALSE)
<1>1. /\ b \in WorkRequest /\ b.op = "write"
      /\ b.begin = s.begin /\ b.end = s.end /\ b.remote = s.begin
  BY AddressedType
<1> HIDE DEF b
<1>2. /\ c \in WorkRequest /\ c.op = "write" /\ c.signaled = FALSE
      /\ c.begin = s.begin /\ c.end = s.end /\ c.remote = s.begin
  BY <1>1, SetterTypes
<1> HIDE DEF c
<1>3. WriteWr(s, inl) = SetSendInline(c, inl)
  BY DEF WriteWr, WriteBuilder, b, c
<1>4. /\ SetSendInline(c, inl) \in WorkRequest
      /\ \A f \in {"op", "id", "signaled", "begin", "end", "remote"} :
           SetSendInline(c, inl)[f] = c[f]
  BY <1>2, SetterTypes
<1>5. /\ SetSendInline(c, inl).op = "write" /\ SetSendInline(c, inl).signaled = FALSE
      /\ SetSendInline(c, inl).begin = s.begin /\ SetSendInline(c, inl).end = s.end
      /\ SetSendInline(c, inl).remote = s.begin
  BY <1>2, <1>4
<1> QED
  BY <1>3, <1>4, <1>5

\* The request to read the far readPos asks for a completion send() recognizes.
LEMMA ReadWrType ==
  /\ ReadWr \in WorkRequest /\ ReadWr.op = "read"
  /\ ReadWr.begin = 0 /\ ReadWr.end = 0
  /\ ReadWr.signaled = TRUE /\ ReadWr.id = ReadId
<1> DEFINE b == Addressed(NewRequest("read"), [begin |-> 0, end |-> 0], 0)
           c == SetCompletion(b, TRUE)
<1>1. b \in WorkRequest /\ b.op = "read" /\ b.begin = 0 /\ b.end = 0
  BY AddressedType, SizeAssumption
<1> HIDE DEF b
<1>2. c \in WorkRequest /\ c.op = "read" /\ c.begin = 0 /\ c.end = 0 /\ c.signaled = TRUE
  BY <1>1, SetterTypes
<1> HIDE DEF c
<1>3. ReadWr = SetId(c, ReadId)
  BY DEF ReadWr, ReadBuilder, b, c
<1> QED
  BY <1>2, <1>3, SetterTypes

\* The card's copy of the bytes of an inline write is all of them.
LEMMA PostedType ==
  ASSUME TypeOK, NEW wr \in WorkRequest, wr.begin <= wr.end
  PROVE  /\ Posted(wr) \in WorkRequest
         /\ \A f \in {"op", "id", "signaled", "inln", "begin", "end", "remote"} :
              Posted(wr)[f] = wr[f]
         /\ wr.inln => Len(Posted(wr).bytes) = wr.end - wr.begin
<1>1. CASE ~ wr.inln
  BY <1>1 DEF Posted
<1>2. CASE wr.inln
  <2> DEFINE n  == wr.end - wr.begin
             bs == [i \in 1 .. n |-> sendBuffer[wr.begin + i - 1]]
  <2>1. wr.begin \in 0 .. Size /\ wr.end \in 0 .. Size /\ n \in Nat
    BY SizeAssumption DEF WorkRequest
  <2>2. \A i \in 1 .. n : wr.begin + i - 1 \in Offsets
    BY <2>1, SizeAssumption DEF Offsets
  <2>3. \A i \in 1 .. n : sendBuffer[wr.begin + i - 1] \in Byte
    BY <2>2 DEF TypeOK
  <2>4. bs \in [1 .. n -> Byte]
    BY <2>3, Zenon
  <2>5. Posted(wr) = [wr EXCEPT !.bytes = bs]
    BY <1>2 DEF Posted
  <2> HIDE DEF bs, n
  <2>6. bs \in Seq(Byte) /\ Len(bs) = n
    BY <2>1, <2>4
  <2> QED
    BY <2>5, <2>6 DEF WorkRequest, n
<1> QED
  BY <1>1, <1>2

\* Posting a well-formed request behind a well-formed queue.
LEMMA PostKeepsShape ==
  ASSUME TypeOK, QueueShape, NEW wr \in WorkRequest, NEW next, wr.begin <= wr.end,
         wr.op = "write" => wr.remote = wr.begin /\ wr.begin < wr.end,
         Post(wr, next), UNCHANGED << done, resp >>
  PROVE  /\ sq' \in Seq(WorkRequest) /\ outstanding' \in Nat
         /\ QueueShape'
         /\ spc' = next \/ spc' = "failed"
<1>1. CASE UNCHANGED << sq, outstanding >> /\ spc' = "failed"
  BY <1>1 DEF TypeOK, QueueShape
<1>2. CASE /\ sq' = Append(sq, Posted(wr)) /\ outstanding' = outstanding + 1
           /\ spc' = next
  <2> DEFINE pw == Posted(wr)
  <2>0. /\ pw \in WorkRequest
        /\ pw.op = "write" => /\ pw.remote = pw.begin /\ pw.begin < pw.end
                              /\ pw.inln => Len(pw.bytes) = pw.end - pw.begin
    BY PostedType
  <2> HIDE DEF pw
  <2>1. /\ sq \in Seq(WorkRequest) /\ outstanding \in Nat
    BY DEF TypeOK
  <2>2. sq' \in Seq(WorkRequest) /\ outstanding' \in Nat
    BY <1>2, <2>0, <2>1 DEF pw
  <2>3. /\ Len(sq') = Len(sq) + 1 /\ sq' # << >>
        /\ \A k \in 1 .. Len(sq) : sq'[k] = sq[k]
        /\ sq'[Len(sq) + 1] = pw
        /\ Head(sq') = IF sq = << >> THEN pw ELSE Head(sq)
    BY <1>2, <2>0, <2>1 DEF pw
  <2>4. \A k \in 1 .. Len(sq') :
          sq'[k].op = "write" =>
            /\ sq'[k].remote = sq'[k].begin /\ sq'[k].begin < sq'[k].end
            /\ sq'[k].inln => Len(sq'[k].bytes) = sq'[k].end - sq'[k].begin
    <3> SUFFICES ASSUME NEW k \in 1 .. Len(sq'), sq'[k].op = "write"
                 PROVE  /\ sq'[k].remote = sq'[k].begin /\ sq'[k].begin < sq'[k].end
                        /\ sq'[k].inln => Len(sq'[k].bytes) = sq'[k].end - sq'[k].begin
      OBVIOUS
    <3>1. k \in 1 .. Len(sq) \/ k = Len(sq) + 1
      BY <2>1, <2>3
    <3> QED
      BY <2>0, <2>3, <3>1 DEF QueueShape
  <2>5. /\ sq' # << >> /\ Head(sq').op = "write" => done' < SliceLen(Head(sq'))
        /\ ~ (sq' # << >> /\ Head(sq').op = "write") => done' = 0
    <3>1. CASE sq = << >>
      <4>1. Head(sq') = pw /\ done' = 0
        BY <3>1, <2>3 DEF QueueShape
      <4>2. pw.begin \in 0 .. Size /\ pw.end \in 0 .. Size
        BY <2>0 DEF WorkRequest
      <4> QED
        BY <2>0, <4>1, <4>2, SizeAssumption DEF SliceLen
    <3>2. CASE sq # << >>
      BY <3>2, <2>3 DEF QueueShape
    <3> QED
      BY <3>1, <3>2
  <2>6. resp' # -1 => sq' # << >> /\ Head(sq').op = "read"
    BY <2>3 DEF QueueShape
  <2> QED
    BY <1>2, <2>2, <2>4, <2>5, <2>6 DEF QueueShape
<1> QED
  BY <1>1, <1>2 DEF Post

\* Taking the first request off a well-formed queue.
LEMMA TailKeepsShape ==
  ASSUME TypeOK, QueueShape, sq # << >>, sq' = Tail(sq), done' = 0, resp' = -1
  PROVE  sq' \in Seq(WorkRequest) /\ QueueShape'
<1>1. sq \in Seq(WorkRequest)
  BY DEF TypeOK
<1>2. /\ sq' \in Seq(WorkRequest)
      /\ Len(sq') = Len(sq) - 1
      /\ \A k \in 1 .. Len(sq') : sq'[k] = sq[k + 1] /\ k + 1 \in 1 .. Len(sq)
  BY <1>1
<1>3. \A k \in 1 .. Len(sq') :
        sq'[k].op = "write" =>
          /\ sq'[k].remote = sq'[k].begin /\ sq'[k].begin < sq'[k].end
          /\ sq'[k].inln => Len(sq'[k].bytes) = sq'[k].end - sq'[k].begin
  BY <1>2 DEF QueueShape
<1>4. sq' # << >> => Head(sq') = sq'[1] /\ 1 \in 1 .. Len(sq') /\ sq'[1] \in WorkRequest
  BY <1>2
<1>5. ASSUME sq' # << >>, Head(sq').op = "write"
      PROVE  0 < SliceLen(Head(sq'))
  <2>1. sq'[1].begin < sq'[1].end /\ sq'[1].begin \in 0 .. Size /\ sq'[1].end \in 0 .. Size
    BY <1>3, <1>4, <1>5 DEF WorkRequest
  <2> QED
    BY <1>4, <1>5, <2>1, SizeAssumption DEF SliceLen
<1> QED
  BY <1>2, <1>3, <1>5 DEF QueueShape

\* Once a word has been read, it stands for a length.
LEMMA ReceiveSizeType ==
  ASSUME rbytes \in Seq(Byte), Len(rbytes) >= WordLen
  PROVE  receiveSize \in Nat
<1> DEFINE w == SubSeq(rbytes, 1, WordLen)
<1>1. WordLen \in Nat \ {0}
  BY ByteAssumption
<1>2. w = [i \in 1 .. WordLen |-> rbytes[i]]
  BY <1>1
<1>3. \A i \in 1 .. WordLen : rbytes[i] \in Byte
  BY <1>1
<1>4. w \in Word
  BY <1>2, <1>3 DEF Word
<1> QED
  BY <1>4, ByteAssumption DEF receiveSize

LEMMA TypeInvInit == Init => TypeInv
<1> SUFFICES ASSUME Init PROVE TypeInv
  OBVIOUS
<1>1. TypeOK
  BY ByteAssumption, SizeAssumption DEF Init, TypeOK, Offsets, NoCap
<1>2. QueueShape /\ FrameFits /\ ScanDone
  BY ByteAssumption, SizeAssumption DEF Init, QueueShape, FrameFits, FrameLen, ScanDone
<1> QED
  BY <1>1, <1>2 DEF TypeInv

LEMMA TypeInvNext == TypeInv /\ [Next]_vars => TypeInv'
<1> SUFFICES ASSUME TypeInv, [Next]_vars PROVE TypeInv'
  OBVIOUS
<1> USE DEF TypeInv
<1>0. << >> \in Seq(Byte) /\ Len(<< >>) <= 2 * WordLen
  BY ByteAssumption
<1>1. ASSUME NEW d \in Payloads, NEW inl \in BOOLEAN, Send(d, inl)
      PROVE  TypeInv'
  <2>1. d \in Seq(Byte)
    BY ParameterAssumption
  <2>2. TypeOK'
    BY <1>1, <2>1 DEF Send, TypeOK, nicVars, recvVars
  <2>3. QueueShape'
    BY <1>1 DEF Send, QueueShape, nicVars
  <2>4. FrameFits'
    BY <1>1 DEF Send, FrameFits
  <2>5. ScanDone'
    BY <1>1 DEF Send, ScanDone, recvVars
  <2> QED
    BY <2>2, <2>3, <2>4, <2>5
<1>2. CASE WritePart
  <2>1. part \in {"header", "data", "footer"} /\ msg \in Seq(Byte) /\ FrameLen(Len(msg)) <= Size
    BY DEF TypeOK, FrameFits
  <2>2. PartBytes(part, msg) \in Seq(Byte) /\ Len(PartBytes(part, msg)) <= Size
    BY <2>1, PartBytesType
  <2>3. sendBuffer' \in [Offsets -> Byte]
    BY <1>2, <2>2, CopyInType DEF WritePart, TypeOK
  <2>4. sendPos' \in Nat
    BY <1>2, <2>2 DEF WritePart, TypeOK
  <2>5. TypeOK'
    BY <1>2, <2>3, <2>4 DEF WritePart, TypeOK, nicVars, recvVars
  <2>6. QueueShape'
    BY <1>2 DEF WritePart, QueueShape, nicVars
  <2>7. Len(Slices(startOfWrite, FrameLen(Len(msg)))) >= 1
    <3>1. startOfWrite \in Nat /\ FrameLen(Len(msg)) \in 0 .. Size
      BY <2>1, ByteAssumption, SizeAssumption DEF TypeOK, FrameLen
    <3>2. Len(Slices(startOfWrite, FrameLen(Len(msg)))) \in 1 .. 2
      BY <3>1, SlicesCount
    <3> QED
      BY <3>2
  <2>8. FrameFits'
    BY <1>2, <2>7 DEF WritePart, FrameFits
  <2>9. ScanDone'
    BY <1>2 DEF WritePart, ScanDone, recvVars
  <2> QED
    BY <2>5, <2>6, <2>8, <2>9
<1>3. CASE PostRead
  <2>1. ReadWr \in WorkRequest /\ ReadWr.op = "read" /\ ReadWr.begin <= ReadWr.end
    BY ReadWrType
  <2>2. Post(ReadWr, "poll") /\ UNCHANGED << done, resp >>
    BY <1>3 DEF PostRead
  <2>3. /\ sq' \in Seq(WorkRequest) /\ outstanding' \in Nat
        /\ QueueShape'
        /\ spc' = "poll" \/ spc' = "failed"
    BY <2>1, <2>2, PostKeepsShape
  <2>4. TypeOK'
    BY <1>3, <2>3 DEF PostRead, TypeOK, recvVars
  <2>5. FrameFits'
    BY <1>3, <2>3 DEF PostRead, FrameFits
  <2>6. ScanDone'
    BY <1>3 DEF PostRead, ScanDone, recvVars
  <2> QED
    BY <2>3, <2>4, <2>5, <2>6
<1>4. CASE Poll
  <2>1. TypeOK'
    BY <1>4 DEF Poll, TypeOK, SlotsAfterPoll, recvVars
  <2>2. QueueShape'
    BY <1>4 DEF Poll, QueueShape
  <2>3. FrameFits'
    BY <1>4 DEF Poll, FrameFits
  <2>4. ScanDone'
    BY <1>4 DEF Poll, ScanDone, recvVars
  <2> QED
    BY <2>1, <2>2, <2>3, <2>4
<1>5. CASE PostSlice
  <2> DEFINE sl   == Slices(startOfWrite, FrameLen(Len(msg)))
             last == slice = Len(sl)
             wr   == WriteWr(sl[slice], inln /\ SliceLen(sl[slice]) <= MaxInline)
             next == IF last THEN "idle" ELSE "post"
  <2>1. startOfWrite \in Nat /\ FrameLen(Len(msg)) \in 1 .. Size
    BY ByteAssumption, SizeAssumption DEF TypeOK, FrameFits, FrameLen
  <2>2. Len(sl) \in 1 .. 2 /\ slice \in 1 .. Len(sl)
    <3>1. FrameLen(Len(msg)) \in 0 .. Size
      BY <2>1
    <3>2. Len(sl) \in 1 .. 2
      BY <2>1, <3>1, SlicesCount
    <3> QED
      BY <1>5, <3>2 DEF PostSlice, TypeOK, FrameFits
  <2>3. /\ sl[slice].begin \in 0 .. Size /\ sl[slice].end \in 0 .. Size
        /\ sl[slice].begin < sl[slice].end
    BY <2>1, <2>2, SliceInRing
  <2> HIDE DEF sl
  <2>4. (inln /\ SliceLen(sl[slice]) <= MaxInline) \in BOOLEAN
    OBVIOUS
  <2>5. /\ wr \in WorkRequest /\ wr.remote = wr.begin
        /\ wr.begin < wr.end /\ wr.begin <= wr.end
    <3>1. ASSUME NEW s, s = sl[slice], NEW inl \in BOOLEAN
          PROVE  /\ WriteWr(s, inl) \in WorkRequest
                 /\ WriteWr(s, inl).begin = s.begin
                 /\ WriteWr(s, inl).end = s.end
                 /\ WriteWr(s, inl).remote = s.begin
      BY <2>3, <3>1, WriteWrType
    <3>2. /\ wr \in WorkRequest /\ wr.remote = wr.begin
          /\ wr.begin = sl[slice].begin /\ wr.end = sl[slice].end
      BY <2>4, <3>1
    <3> HIDE DEF wr
    <3> QED
      BY <2>3, <3>2, SizeAssumption
  <2> HIDE DEF wr
  <2>6. Post(wr, next) /\ UNCHANGED << done, resp >>
    BY <1>5 DEF PostSlice, sl, wr
  <2>7. /\ sq' \in Seq(WorkRequest) /\ outstanding' \in Nat
        /\ QueueShape'
        /\ spc' = next \/ spc' = "failed"
    BY <2>5, <2>6, PostKeepsShape
  <2>8. slice' = IF last THEN 1 ELSE slice + 1
    BY <1>5 DEF PostSlice, sl
  <2>9. slice' \in 1 .. Len(sl) /\ (spc' = "idle" => slice' = 1)
    BY <2>2, <2>7, <2>8
  <2>10. TypeOK'
    <3>0. \A n \in 1 .. 2 : \A i \in 1 .. n : i \in 1 .. 2
      OBVIOUS
    <3>1. slice' \in 1 .. 2
      BY <2>2, <2>9, <3>0, Zenon
    <3>2. spc' \in {"idle", "post", "failed"}
      <4>1. next \in {"idle", "post"}
        OBVIOUS
      <4>2. spc' = next \/ spc' = "failed"
        BY <2>7
      <4> HIDE DEF next
      <4> QED
        BY <4>1, <4>2
    <3> QED
      BY <1>5, <2>7, <3>1, <3>2 DEF PostSlice, TypeOK, recvVars
  <2>11. FrameFits'
    BY <1>5, <2>2, <2>7, <2>9 DEF PostSlice, FrameFits, sl
  <2>12. ScanDone'
    BY <1>5 DEF PostSlice, ScanDone, recvVars
  <2> QED
    BY <2>7, <2>10, <2>11, <2>12
<1>6. CASE DeliverByte
  <2> DEFINE wr == Head(sq)
  <2>1. /\ sq # << >> /\ wr.op = "write" /\ wr = sq[1]
        /\ wr \in WorkRequest /\ 1 \in 1 .. Len(sq)
    BY <1>6 DEF DeliverByte, TypeOK
  <2>2. /\ wr.begin < wr.end /\ wr.begin \in 0 .. Size /\ wr.end \in 0 .. Size
        /\ wr.remote = wr.begin
        /\ wr.inln => Len(wr.bytes) = wr.end - wr.begin
        /\ done \in Nat /\ done < wr.end - wr.begin
        /\ wr.bytes \in Seq(Byte)
    <3>1. wr.begin \in 0 .. Size /\ wr.end \in 0 .. Size /\ wr.bytes \in Seq(Byte)
      BY <2>1 DEF WorkRequest
    <3>2. /\ wr.begin < wr.end /\ wr.remote = wr.begin
          /\ wr.inln => Len(wr.bytes) = wr.end - wr.begin
          /\ done < wr.end - wr.begin
      BY <2>1 DEF QueueShape, SliceLen
    <3>3. done \in Nat
      BY DEF TypeOK
    <3> QED
      BY <3>1, <3>2, <3>3
  <2>3. /\ receiveBuffer' = [receiveBuffer EXCEPT ![wr.remote + done] = ByteOf(wr, done)]
        /\ IF done + 1 = SliceLen(wr)
           THEN sq' = Tail(sq) /\ done' = 0
           ELSE sq' = sq /\ done' = done + 1
        /\ cq' = cq \/ cq' = Append(cq, wr.id)
        /\ resp' = resp
    BY <1>6 DEF DeliverByte, Finish
  <2>12. cq' \in Seq({0, ReadId})
    <3>1. wr.id \in {0, ReadId} /\ cq \in Seq({0, ReadId})
      BY <2>1 DEF TypeOK, WorkRequest
    <3> HIDE DEF wr
    <3> QED
      BY <2>3, <3>1
  <2> HIDE DEF wr
  <2>4. wr.begin + done \in Offsets
    BY <2>2, SizeAssumption DEF Offsets
  <2>5. ByteOf(wr, done) \in Byte
    <3>1. CASE wr.inln
      <4>1. done + 1 \in 1 .. Len(wr.bytes)
        BY <2>2, <3>1
      <4> QED
        BY <2>2, <3>1, <4>1 DEF ByteOf
    <3>2. CASE ~ wr.inln
      BY <2>4, <3>2 DEF ByteOf, TypeOK
    <3> QED
      BY <3>1, <3>2
  <2>6. receiveBuffer' \in [Offsets -> Byte]
    BY <2>2, <2>3, <2>4, <2>5 DEF TypeOK
  <2>7. resp' = -1
    BY <2>1, <2>3 DEF QueueShape, wr
  <2>8. sq' \in Seq(WorkRequest) /\ done' \in 0 .. Size - 1 /\ QueueShape'
    <3>1. CASE done + 1 = SliceLen(wr)
      BY <2>1, <2>3, <2>7, <3>1, TailKeepsShape, SizeAssumption
    <3>2. CASE done + 1 # SliceLen(wr)
      <4>1. sq' = sq /\ done' = done + 1 /\ done + 1 < SliceLen(wr) /\ SliceLen(wr) <= Size
        BY <2>2, <2>3, <3>2, SizeAssumption DEF SliceLen
      <4>2. done' \in 0 .. Size - 1
        BY <2>2, <4>1, SizeAssumption DEF SliceLen
      <4> QED
        BY <2>1, <2>7, <4>1, <4>2 DEF TypeOK, QueueShape, wr
    <3> QED
      BY <3>1, <3>2
  <2>9. TypeOK'
    BY <1>6, <2>6, <2>8, <2>12 DEF DeliverByte, TypeOK, sendVars, recvVars
  <2>10. FrameFits'
    BY <1>6 DEF DeliverByte, FrameFits, sendVars
  <2>11. ScanDone'
    BY <1>6 DEF DeliverByte, ScanDone, recvVars
  <2> QED
    BY <2>8, <2>9, <2>10, <2>11
<1>7. CASE FetchReadPos
  <2>1. TypeOK'
    BY <1>7 DEF FetchReadPos, TypeOK, sendVars, recvVars
  <2>2. QueueShape'
    BY <1>7 DEF FetchReadPos, QueueShape
  <2>3. FrameFits'
    BY <1>7 DEF FetchReadPos, FrameFits, sendVars
  <2>4. ScanDone'
    BY <1>7 DEF FetchReadPos, ScanDone, recvVars
  <2> QED
    BY <2>1, <2>2, <2>3, <2>4
<1>8. CASE CompleteRead
  <2>1. sq # << >> /\ Head(sq).op = "read" /\ done = 0
    BY <1>8 DEF CompleteRead, QueueShape
  <2>2. sq' = Tail(sq) /\ done' = 0 /\ resp' = -1
    BY <1>8, <2>1 DEF CompleteRead, Finish
  <2>3. sq' \in Seq(WorkRequest) /\ QueueShape'
    BY <2>1, <2>2, TailKeepsShape
  <2>4. Head(sq).id \in {0, ReadId}
    <3>1. Head(sq) \in WorkRequest
      BY <2>1 DEF TypeOK
    <3> QED
      BY <3>1 DEF WorkRequest
  <2>5. cq' \in Seq({0, ReadId})
    BY <1>8, <2>4 DEF CompleteRead, Finish, TypeOK
  <2>6. TypeOK'
    BY <1>8, <2>2, <2>3, <2>5, SizeAssumption DEF CompleteRead, TypeOK, sendVars, recvVars
  <2>7. FrameFits'
    BY <1>8 DEF CompleteRead, FrameFits, sendVars
  <2>8. ScanDone'
    BY <1>8 DEF CompleteRead, ScanDone, recvVars
  <2> QED
    BY <2>3, <2>6, <2>7, <2>8
<1>9. ASSUME NEW cap \in RecvCaps \cup {NoCap}, Receive(cap)
      PROVE  TypeInv'
  BY <1>9 DEF Receive, TypeOK, QueueShape, FrameFits, ScanDone, sendVars, nicVars
<1>10. CASE HasData
  BY <1>10 DEF HasData, TypeOK, QueueShape, FrameFits, ScanDone, sendVars, nicVars
<1>11. CASE ScanByte
  <2>1. rbytes \in Seq(Byte) /\ readPos \in Nat /\ Len(rbytes) < 2 * WordLen
    BY <1>11 DEF ScanByte, TypeOK
  <2>2. ScanOffset \in Offsets
    <3>1. CASE Len(rbytes) < WordLen
      BY <2>1, <3>1, OffsetInRing, ByteAssumption, SizeAssumption DEF ScanOffset
    <3>2. CASE ~ (Len(rbytes) < WordLen)
      <4>2. receiveSize \in Nat
        BY <2>1, <3>2, ReceiveSizeType, ByteAssumption
      <4>3. readPos + WordLen + receiveSize \in Nat /\ WordLen \in 0 .. Size
            /\ Len(rbytes) - WordLen \in 0 .. WordLen - 1
        BY <2>1, <3>2, <4>2, ByteAssumption, SizeAssumption
      <4> QED
        BY <3>2, <4>3, OffsetInRing DEF ScanOffset
    <3> QED
      BY <3>1, <3>2
  <2>3. rbytes' \in Seq(Byte) /\ Len(rbytes') <= 2 * WordLen
    BY <1>11, <2>1, <2>2, ByteAssumption DEF ScanByte, TypeOK
  <2>4. TypeOK'
    BY <1>11, <2>3 DEF ScanByte, TypeOK, sendVars, nicVars
  <2> QED
    BY <1>11, <2>4 DEF ScanByte, QueueShape, FrameFits, ScanDone, sendVars, nicVars
<1>12. CASE Answer
  <2>1. TypeOK'
    BY <1>0, <1>12 DEF Answer, TypeOK, sendVars, nicVars
  <2> QED
    BY <1>12, <2>1 DEF Answer, QueueShape, FrameFits, ScanDone, sendVars, nicVars
<1>13. CASE Retry
  <2>1. TypeOK'
    BY <1>0, <1>13 DEF Retry, TypeOK, sendVars, nicVars
  <2> QED
    BY <1>13, <2>1 DEF Retry, Scanned, QueueShape, FrameFits, ScanDone, sendVars, nicVars
<1>14. CASE TooBig
  <2>1. TypeOK'
    BY <1>0, <1>14 DEF TooBig, TypeOK, sendVars, nicVars
  <2> QED
    BY <1>14, <2>1 DEF TooBig, QueueShape, FrameFits, ScanDone, sendVars, nicVars
<1>15. CASE CopyData
  BY <1>15 DEF CopyData, Scanned, TypeOK, QueueShape, FrameFits, ScanDone, sendVars, nicVars
<1>16. CASE Zero
  <2>1. receiveBuffer' \in [Offsets -> Byte]
    BY <1>16, ZeroedType DEF Zero, TypeOK
  <2>2. TypeOK'
    BY <1>16, <2>1 DEF Zero, TypeOK, sendVars, nicVars
  <2> QED
    BY <1>16, <2>2 DEF Zero, QueueShape, FrameFits, ScanDone, sendVars, nicVars
<1>17. CASE Advance
  <2>1. readPos' \in Nat
    <3>1. Len(rbytes) = 2 * WordLen /\ rbytes \in Seq(Byte) /\ readPos \in Nat
      BY <1>17 DEF Advance, TypeOK, ScanDone
    <3>2. receiveSize \in Nat
      BY <3>1, ReceiveSizeType, ByteAssumption
    <3> QED
      BY <1>17, <3>1, <3>2, ByteAssumption DEF Advance, FrameLen
  <2>2. TypeOK'
    BY <1>0, <1>17, <2>1 DEF Advance, TypeOK, sendVars, nicVars
  <2> QED
    BY <1>17, <2>2 DEF Advance, QueueShape, FrameFits, ScanDone, sendVars, nicVars
<1>18. CASE UNCHANGED vars
  BY <1>18 DEF vars, TypeOK, QueueShape, FrameFits, ScanDone, sendVars, nicVars, recvVars
<1> QED
  BY <1>1, <1>2, <1>3, <1>4, <1>5, <1>6, <1>7, <1>8, <1>9, <1>10, <1>11, <1>12,
     <1>13, <1>14, <1>15, <1>16, <1>17, <1>18 DEF Next, Sender, Nic, Receiver

\* Every variable of the message buffer keeps its type, whatever the ring size,
\* the messages and the interleaving of the two threads and the card.
THEOREM TypeCorrect == Spec => []TypeOK
<1>1. TypeInv => TypeOK
  BY DEF TypeInv
<1> QED
  BY <1>1, TypeInvInit, TypeInvNext, PTL DEF Spec

-----------------------------------------------------------------------------
(* Flow control.  The sender works with a readPos of the past: one the     *)
(* last completed read brought, or one a read is bringing.  Both are lower *)
(* bounds of readPos, and the one in flight is no older than the one in    *)
(* use, so replacing it never takes room away that is already filled.      *)

FlowInv ==
  /\ sendPos <= currentRemoteReceive + Size
  /\ currentRemoteReceive <= readPos
  /\ resp # -1 => currentRemoteReceive <= resp /\ resp <= readPos

LEMMA FlowInvInit == Init => FlowInv
BY SizeAssumption DEF Init, FlowInv

LEMMA FlowInvNext == TypeInv /\ FlowInv /\ [Next]_vars => FlowInv'
<1> SUFFICES ASSUME TypeInv, FlowInv, [Next]_vars PROVE FlowInv'
  OBVIOUS
<1>1. /\ sendPos \in Nat /\ currentRemoteReceive \in Nat /\ readPos \in Nat
      /\ resp \in Nat \cup {-1}
  BY DEF TypeInv, TypeOK
<1>2. ASSUME UNCHANGED << sendPos, currentRemoteReceive, readPos, resp >>
      PROVE  FlowInv'
  BY <1>2 DEF FlowInv
<1>3. CASE WritePart
  <2> DEFINE bytes == PartBytes(part, msg)
  <2>1. bytes \in Seq(Byte)
    BY PartBytesType DEF TypeInv, TypeOK, FrameFits
  <2>2. Len(bytes) <= Size - (sendPos - currentRemoteReceive) /\ sendPos' = sendPos + Len(bytes)
    BY <1>3 DEF WritePart, SafeToWrite
  <2>3. UNCHANGED << currentRemoteReceive, readPos, resp >>
    BY <1>3 DEF WritePart, nicVars, recvVars
  <2>4. Len(bytes) \in Nat
    BY <2>1
  <2> HIDE DEF bytes
  <2> QED
    BY <1>1, <2>2, <2>3, <2>4, SizeAssumption DEF FlowInv
<1>4. CASE FetchReadPos
  <2>1. resp' = readPos /\ UNCHANGED << sendPos, currentRemoteReceive, readPos >>
    BY <1>4 DEF FetchReadPos, sendVars, recvVars
  <2> QED
    BY <1>1, <2>1 DEF FlowInv
<1>5. CASE CompleteRead
  <2>1. /\ resp # -1 /\ currentRemoteReceive' = resp /\ resp' = -1
        /\ UNCHANGED << sendPos, readPos >>
    BY <1>5 DEF CompleteRead, sendVars, recvVars
  <2> QED
    BY <1>1, <2>1, SizeAssumption DEF FlowInv
<1>6. CASE Advance
  <2>1. /\ readPos' = readPos + FrameLen(receiveSize)
        /\ UNCHANGED << sendPos, currentRemoteReceive, resp >>
    BY <1>6 DEF Advance, sendVars, nicVars
  <2>2. rbytes \in Seq(Byte) /\ Len(rbytes) >= WordLen
    BY <1>6, ByteAssumption DEF Advance, TypeInv, TypeOK, ScanDone
  <2>3. FrameLen(receiveSize) \in Nat
    BY <2>2, ReceiveSizeType, ByteAssumption DEF FrameLen
  <2> QED
    BY <1>1, <2>1, <2>3 DEF FlowInv
<1>7. ASSUME NEW d \in Payloads, NEW inl \in BOOLEAN, Send(d, inl)
      PROVE  FlowInv'
  BY <1>2, <1>7 DEF Send, nicVars, recvVars
<1>8. CASE PostRead \/ Poll \/ PostSlice \/ DeliverByte
  BY <1>2, <1>8 DEF PostRead, Poll, PostSlice, DeliverByte, sendVars, recvVars
<1>9. ASSUME NEW cap \in RecvCaps \cup {NoCap}, Receive(cap)
      PROVE  FlowInv'
  BY <1>2, <1>9 DEF Receive, sendVars, nicVars
<1>10. CASE HasData \/ ScanByte \/ Answer \/ Retry \/ TooBig \/ CopyData \/ Zero
  BY <1>2, <1>10 DEF HasData, ScanByte, Answer, Retry, TooBig, CopyData, Zero, sendVars, nicVars
<1>11. CASE UNCHANGED vars
  BY <1>2, <1>11 DEF vars, sendVars, nicVars, recvVars
<1> QED
  BY <1>3, <1>4, <1>5, <1>6, <1>7, <1>8, <1>9, <1>10, <1>11 DEF Next, Sender, Nic, Receiver

\* The sender never runs more than a ring ahead of the receiver, and the room it
\* computes in size_t never wraps below zero, although the readPos it knows is old.
THEOREM FlowControl == Spec => []NoOverrun
<1>1. TypeInv /\ FlowInv => NoOverrun
  <2> SUFFICES ASSUME TypeInv, FlowInv PROVE NoOverrun
    OBVIOUS
  <2>1. sendPos \in Nat /\ currentRemoteReceive \in Nat /\ readPos \in Nat
    BY DEF TypeInv, TypeOK
  <2> QED
    BY <2>1, SizeAssumption DEF FlowInv, NoOverrun, SafeToWrite
<1> QED
  BY <1>1, TypeInvInit, TypeInvNext, FlowInvInit, FlowInvNext, PTL DEF Spec

-----------------------------------------------------------------------------
(* Completions.  One request at most asks for a completion, and send() is  *)
(* then polling for it; its answer leaves the send queue for the           *)
(* completion queue, and send() takes it from there before it goes on.     *)

AskedOnce ==
  /\ \A k \in 1 .. Len(sq) : sq[k].signaled => sq[k].id = ReadId /\ spc = "poll" /\ cq = << >>
  /\ \A j, k \in 1 .. Len(sq) : sq[j].signaled /\ sq[k].signaled => j = k
  /\ cq # << >> => spc = "poll" /\ cq = << ReadId >>

LEMMA AskedOnceInit == Init => AskedOnce
BY DEF Init, AskedOnce

\* Appending the copy of a request that is signaled only if it is a read's.
LEMMA PostAsks ==
  ASSUME TypeOK, AskedOnce, NEW wr \in WorkRequest, wr.begin <= wr.end,
         spc # "poll", NEW next, Post(wr, next), cq' = cq,
         wr.signaled => wr.id = ReadId /\ next = "poll"
  PROVE  AskedOnce'
<1>1. CASE UNCHANGED << sq, outstanding >> /\ spc' = "failed"
  BY <1>1 DEF AskedOnce
<1>2. CASE sq' = Append(sq, Posted(wr)) /\ spc' = next
  <2> DEFINE pw == Posted(wr)
  <2>1. pw \in WorkRequest /\ pw.signaled = wr.signaled /\ pw.id = wr.id
    BY PostedType
  <2> HIDE DEF pw
  <2>2. sq \in Seq(WorkRequest)
    BY DEF TypeOK
  <2>3. /\ Len(sq') = Len(sq) + 1
        /\ \A k \in 1 .. Len(sq) : sq'[k] = sq[k] /\ ~ sq[k].signaled
        /\ sq'[Len(sq) + 1] = pw /\ cq = << >>
    BY <1>2, <2>1, <2>2 DEF pw, AskedOnce
  <2>4. \A k \in 1 .. Len(sq') : sq'[k].signaled => k = Len(sq) + 1 /\ wr.signaled
    <3> SUFFICES ASSUME NEW k \in 1 .. Len(sq'), sq'[k].signaled
                 PROVE  k = Len(sq) + 1 /\ wr.signaled
      OBVIOUS
    <3>1. k \in 1 .. Len(sq) \/ k = Len(sq) + 1
      BY <2>2, <2>3
    <3> QED
      BY <2>1, <2>3, <3>1
  <2>5. \A k \in 1 .. Len(sq') :
          sq'[k].signaled => sq'[k].id = ReadId /\ spc' = "poll" /\ cq' = << >>
    BY <1>2, <2>1, <2>3, <2>4
  <2> QED
    BY <2>3, <2>4, <2>5 DEF AskedOnce
<1> QED
  BY <1>1, <1>2 DEF Post

\* The first request leaves, its completion enters the queue if it asked for one.
LEMMA FinishAnswers ==
  ASSUME TypeOK, AskedOnce, sq # << >>, Finish(Head(sq)), spc' = spc
  PROVE  AskedOnce'
<1>1. sq \in Seq(WorkRequest) /\ cq \in Seq({0, ReadId})
  BY DEF TypeOK
<1>2. /\ Len(sq') = Len(sq) - 1 /\ Head(sq) = sq[1] /\ 1 \in 1 .. Len(sq)
      /\ \A k \in 1 .. Len(sq') : sq'[k] = sq[k + 1] /\ k + 1 \in 1 .. Len(sq)
      /\ Len(sq') \in Nat
  BY <1>1 DEF Finish
<1>3. \A j, k \in 1 .. Len(sq') : sq'[j].signaled /\ sq'[k].signaled => j = k
  <2> SUFFICES ASSUME NEW j \in 1 .. Len(sq'), NEW k \in 1 .. Len(sq'),
                      sq'[j].signaled, sq'[k].signaled
               PROVE  j = k
    OBVIOUS
  <2>1. j + 1 = k + 1
    BY <1>2 DEF AskedOnce
  <2> QED
    BY <2>1
<1>4. CASE sq[1].signaled
  <2>1. cq = << >> /\ cq' = Append(cq, ReadId) /\ spc = "poll"
    BY <1>2, <1>4 DEF AskedOnce, Finish
  <2>2. \A k \in 1 .. Len(sq') : ~ sq'[k].signaled
    <3> SUFFICES ASSUME NEW k \in 1 .. Len(sq'), sq'[k].signaled PROVE FALSE
      OBVIOUS
    <3>1. k + 1 = 1
      BY <1>2, <1>4 DEF AskedOnce
    <3> QED
      BY <3>1
  <2>3. cq' = << ReadId >>
    BY <2>1
  <2> QED
    BY <1>3, <2>1, <2>2, <2>3 DEF AskedOnce
<1>5. CASE ~ sq[1].signaled
  <2>1. cq' = cq
    BY <1>2, <1>5 DEF Finish
  <2> QED
    BY <1>2, <1>3, <2>1 DEF AskedOnce
<1> QED
  BY <1>4, <1>5

LEMMA AskedOnceNext == TypeInv /\ AskedOnce /\ [Next]_vars => AskedOnce'
<1> SUFFICES ASSUME TypeInv, AskedOnce, [Next]_vars PROVE AskedOnce'
  OBVIOUS
<1>0. TypeOK /\ sq \in Seq(WorkRequest) /\ cq \in Seq({0, ReadId})
  BY DEF TypeInv, TypeOK
<1>1. ASSUME UNCHANGED << sq, cq >>, spc' = spc \/ spc # "poll"
      PROVE  AskedOnce'
  BY <1>1 DEF AskedOnce
<1>2. ASSUME NEW d \in Payloads, NEW inl \in BOOLEAN, Send(d, inl)
      PROVE  AskedOnce'
  BY <1>1, <1>2 DEF Send, nicVars
<1>3. CASE WritePart
  BY <1>1, <1>3 DEF WritePart, nicVars
<1>4. CASE PostRead
  <2>1. /\ ReadWr \in WorkRequest /\ ReadWr.begin <= ReadWr.end
        /\ ReadWr.id = ReadId
    BY ReadWrType
  <2>2. Post(ReadWr, "poll") /\ cq' = cq /\ spc # "poll"
    BY <1>4 DEF PostRead
  <2> QED
    BY <1>0, <2>1, <2>2, PostAsks
<1>5. CASE Poll
  <2>1. cq = << ReadId >> /\ cq' = Tail(cq) /\ sq' = sq
    BY <1>5 DEF Poll, AskedOnce
  <2>2. \A k \in 1 .. Len(sq) : ~ sq[k].signaled
    BY <2>1 DEF AskedOnce
  <2>3. cq' = << >>
    BY <2>1
  <2> QED
    BY <2>1, <2>2, <2>3 DEF AskedOnce
<1>6. CASE PostSlice
  <2> DEFINE sl   == Slices(startOfWrite, FrameLen(Len(msg)))
             wr   == WriteWr(sl[slice], inln /\ SliceLen(sl[slice]) <= MaxInline)
             next == IF slice = Len(sl) THEN "idle" ELSE "post"
  <2>1. startOfWrite \in Nat /\ FrameLen(Len(msg)) \in 1 .. Size
    BY ByteAssumption, SizeAssumption DEF TypeInv, TypeOK, FrameFits, FrameLen
  <2>2. slice \in 1 .. Len(sl)
    <3>1. FrameLen(Len(msg)) \in 0 .. Size
      BY <2>1
    <3>2. Len(sl) \in 1 .. 2
      BY <2>1, <3>1, SlicesCount
    <3> QED
      BY <1>6, <3>2 DEF PostSlice, TypeInv, TypeOK, FrameFits
  <2>3. /\ sl[slice].begin \in 0 .. Size /\ sl[slice].end \in 0 .. Size
        /\ sl[slice].begin < sl[slice].end
    BY <2>1, <2>2, SliceInRing
  <2> HIDE DEF sl
  <2>4. (inln /\ SliceLen(sl[slice]) <= MaxInline) \in BOOLEAN
    OBVIOUS
  <2>5. /\ wr \in WorkRequest /\ wr.signaled = FALSE
        /\ wr.begin = sl[slice].begin /\ wr.end = sl[slice].end
    <3>1. ASSUME NEW s, s = sl[slice], NEW inl \in BOOLEAN
          PROVE  /\ WriteWr(s, inl) \in WorkRequest
                 /\ WriteWr(s, inl).signaled = FALSE
                 /\ WriteWr(s, inl).begin = s.begin
                 /\ WriteWr(s, inl).end = s.end
      BY <2>3, <3>1, WriteWrType
    <3> QED
      BY <2>4, <3>1
  <2> HIDE DEF wr
  <2>6. wr.begin <= wr.end
    BY <2>3, <2>5, SizeAssumption
  <2>7. Post(wr, next) /\ cq' = cq /\ spc # "poll"
    BY <1>6 DEF PostSlice, sl, wr
  <2> HIDE DEF next
  <2> QED
    BY <1>0, <2>5, <2>6, <2>7, PostAsks
<1>7. CASE DeliverByte
  <2>1. sq # << >> /\ spc' = spc
    BY <1>7 DEF DeliverByte, sendVars
  <2>2. Finish(Head(sq)) \/ UNCHANGED << sq, cq >>
    BY <1>7 DEF DeliverByte
  <2> QED
    BY <1>0, <1>1, <2>1, <2>2, FinishAnswers
<1>8. CASE FetchReadPos
  BY <1>1, <1>8 DEF FetchReadPos, sendVars
<1>9. CASE CompleteRead
  <2>1. sq # << >> /\ spc' = spc /\ Finish(Head(sq))
    BY <1>9 DEF CompleteRead, TypeInv, QueueShape, sendVars
  <2> QED
    BY <1>0, <2>1, FinishAnswers
<1>10. ASSUME NEW cap \in RecvCaps \cup {NoCap}, Receive(cap)
       PROVE  AskedOnce'
  BY <1>1, <1>10 DEF Receive, sendVars, nicVars
<1>11. CASE HasData \/ ScanByte \/ Answer \/ Retry \/ TooBig \/ CopyData \/ Zero \/ Advance
  BY <1>1, <1>11 DEF HasData, ScanByte, Answer, Retry, TooBig, CopyData, Zero, Advance,
                     sendVars, nicVars
<1>12. CASE UNCHANGED vars
  BY <1>1, <1>12 DEF vars, sendVars, nicVars
<1> QED
  BY <1>2, <1>3, <1>4, <1>5, <1>6, <1>7, <1>8, <1>9, <1>10, <1>11, <1>12
     DEF Next, Sender, Nic, Receiver

\* A completion queue of one entry is enough for any number of messages: no
\* request's completion can overrun it.
THEOREM OneCompletionAtATime == Spec => []CqNeverOverruns
<1>1. TypeInv /\ AskedOnce => CqNeverOverruns
  <2> SUFFICES ASSUME TypeInv, AskedOnce PROVE CqNeverOverruns
    OBVIOUS
  <2> DEFINE S == {k \in DOMAIN sq : sq[k].signaled}
  <2>1. sq \in Seq(WorkRequest) /\ DOMAIN sq = 1 .. Len(sq)
    BY DEF TypeInv, TypeOK
  <2>2. CqSize \in Nat /\ 1 <= CqSize
    BY ParameterAssumption
  <2>3. CASE S = {}
    <3>1. Len(cq) \in {0, 1}
      BY DEF AskedOnce
    <3>2. Cardinality(S) = 0
      BY <2>3, FS_EmptySet
    <3> HIDE DEF S
    <3>3. Len(cq) + Cardinality(S) <= CqSize
      BY <2>2, <3>1, <3>2
    <3> QED
      BY <3>3 DEF CqNeverOverruns, S
  <2>4. CASE S # {}
    <3>1. PICK k \in 1 .. Len(sq) : sq[k].signaled
      BY <2>1, <2>4
    <3>2. S = {k} /\ cq = << >>
      BY <2>1, <3>1 DEF AskedOnce
    <3>3. Cardinality(S) = 1
      BY <3>2, FS_Singleton
    <3> HIDE DEF S
    <3>4. Len(cq) + Cardinality(S) <= CqSize
      BY <2>2, <3>2, <3>3
    <3> QED
      BY <3>4 DEF CqNeverOverruns, S
  <2> QED
    BY <2>3, <2>4
<1> QED
  BY <1>1, TypeInvInit, TypeInvNext, AskedOnceInit, AskedOnceNext, PTL DEF Spec

-----------------------------------------------------------------------------
(* The mask.  The library's induction is about operators; for sets it      *)
(* follows from the order of the numbers being well-founded.               *)

\* A set of numbers has a least one.
LEMMA LeastNumber ==
  ASSUME NEW T, T \subseteq Nat, T # {}
  PROVE  \E n \in T : \A m \in T : n <= m
<1>1. PICK n \in T : \A m \in T : ~ (<< m, n >> \in OpToRel(<, Nat))
  BY WFMin, NatLessThanWellFounded, Zenon
<1>2. ASSUME NEW m \in T PROVE n <= m
  <2>1. m \in Nat /\ n \in Nat /\ ~ (<< m, n >> \in OpToRel(<, Nat))
    BY <1>1
  <2> QED
    BY <2>1 DEF OpToRel
<1> QED
  BY <1>2

\* What holds of 0, and of the number after each of which it holds, holds of all.
LEMMA AllNumbers ==
  ASSUME NEW S, 0 \in S, \A n \in Nat : n \in S => n + 1 \in S
  PROVE  \A n \in Nat : n \in S
<1> DEFINE T == { n \in Nat : n \notin S }
<1> SUFFICES ASSUME T # {} PROVE FALSE
  OBVIOUS
<1>1. PICK n \in T : \A m \in T : n <= m
  BY LeastNumber
<1>2. n \in Nat /\ n \notin S /\ n # 0
  BY <1>1
<1>3. n - 1 \in Nat /\ n - 1 \notin T
  BY <1>1, <1>2
<1> QED
  BY <1>2, <1>3

\* The recursion of And, for masks of up to n digits.
Digit(p, q, rest) == (p % 2) * (q % 2) + 2 * rest

NoDigits     == [p \in Nat |-> [q \in Nat |-> 0]]
OneMore(low) == [p \in Nat |-> [q \in Nat |-> Digit(p, q, low[p \div 2][q \div 2])]]

AreLow(g, n) == g = [w \in 0 .. n |-> IF w = 0 THEN NoDigits ELSE OneMore(g[w - 1])]

\* It has a solution.
LEMMA LowExists == \A n \in Nat : \E g : AreLow(g, n)
<1> DEFINE S == { n \in Nat : \E g : AreLow(g, n) }
<1>1. 0 \in S
  <2>1. AreLow([w \in 0 .. 0 |-> NoDigits], 0)
    BY DEF AreLow
  <2> QED
    BY <2>1
<1>2. ASSUME NEW m \in Nat, m \in S PROVE m + 1 \in S
  <2>1. PICK g : AreLow(g, m)
    BY <1>2
  <2> DEFINE h == [w \in 0 .. m + 1 |-> IF w = m + 1 THEN OneMore(g[m]) ELSE g[w]]
  <2>2. \A w \in 0 .. m : h[w] = g[w]
    OBVIOUS
  <2>3. ASSUME NEW w \in 0 .. m + 1
        PROVE  h[w] = IF w = 0 THEN NoDigits ELSE OneMore(h[w - 1])
    <3>1. CASE w = m + 1
      <4>1. h[w - 1] = g[m] /\ w # 0
        BY <3>1, <2>2
      <4> QED
        BY <3>1, <4>1
    <3>2. CASE w # m + 1
      <4>1. w \in 0 .. m /\ h[w] = g[w]
        BY <3>2
      <4>2. g[w] = IF w = 0 THEN NoDigits ELSE OneMore(g[w - 1])
        BY <4>1, <2>1 DEF AreLow
      <4>3. w # 0 => w - 1 \in 0 .. m /\ h[w - 1] = g[w - 1]
        BY <4>1
      <4> HIDE DEF h
      <4> QED
        BY <4>1, <4>2, <4>3
    <3> QED
      BY <3>1, <3>2
  <2>4. AreLow(h, m + 1)
    BY <2>3 DEF AreLow
  <2> QED
    BY <2>4
<1>3. \A n \in Nat : n \in S
  <2> HIDE DEF S
  <2> QED
    BY <1>1, <1>2, AllNumbers
<1> QED
  BY <1>3

\* And is what it gives for all the digits of the mask.
LEMMA AndUnfolded ==
  ASSUME NEW mask \in Nat
  PROVE  \E g : AreLow(g, mask) /\ \A pos : And(pos, mask) = g[mask][pos][mask]
<1> DEFINE low == CHOOSE g : AreLow(g, mask)
<1>1. AreLow(low, mask)
  BY LowExists
<1>2. \A pos : And(pos, mask) = low[mask][pos][mask]
  BY DEF And, AreLow, NoDigits, OneMore, Digit
<1> QED
  BY <1>1, <1>2

\* One digit more.
LEMMA NextDigit ==
  ASSUME NEW n \in Nat, NEW g, AreLow(g, n)
  PROVE  /\ \A p, q \in Nat : g[0][p][q] = 0
         /\ \A w \in 0 .. n - 1 : \A p, q \in Nat :
              g[w + 1][p][q] = Digit(p, q, g[w][p \div 2][q \div 2])
<1>1. ASSUME NEW w \in 0 .. n PROVE g[w] = IF w = 0 THEN NoDigits ELSE OneMore(g[w - 1])
  BY <1>1 DEF AreLow
<1>2. g[0] = NoDigits
  BY <1>1
<1>3. ASSUME NEW w \in 0 .. n - 1 PROVE g[w + 1] = OneMore(g[w])
  BY <1>1
<1>4. ASSUME NEW p \in Nat, NEW q \in Nat PROVE g[0][p][q] = 0
  BY <1>2 DEF NoDigits
<1>5. ASSUME NEW w \in 0 .. n - 1, NEW p \in Nat, NEW q \in Nat
      PROVE  g[w + 1][p][q] = Digit(p, q, g[w][p \div 2][q \div 2])
  <2>1. g[w + 1] = OneMore(g[w])
    BY <1>3
  <2>2. OneMore(g[w])[p][q] = Digit(p, q, g[w][p \div 2][q \div 2])
    BY Zenon DEF OneMore
  <2> QED
    BY <2>1, <2>2
<1> QED
  BY <1>4, <1>5

LEMMA Halves ==
  ASSUME NEW p \in Nat
  PROVE  /\ p % 2 \in {0, 1} /\ p \div 2 \in Nat /\ p = 2 * (p \div 2) + (p % 2)
         /\ \A k \in Nat : (2 * k) % 2 = 0 /\ (2 * k) \div 2 = k
         /\ \A k \in Nat : (2 * k + 1) % 2 = 1 /\ (2 * k + 1) \div 2 = k
OBVIOUS

LEMMA AndTyped ==
  ASSUME NEW n \in Nat, NEW g, AreLow(g, n)
  PROVE  \A w \in 0 .. n : \A p, q \in Nat : g[w][p][q] \in Nat
<1> DEFINE S == { w \in Nat : w <= n => \A p, q \in Nat : g[w][p][q] \in Nat }
<1>1. 0 \in S
  BY NextDigit
<1>2. ASSUME NEW w \in Nat, w \in S PROVE w + 1 \in S
  <2> SUFFICES ASSUME w + 1 <= n, NEW p \in Nat, NEW q \in Nat PROVE g[w + 1][p][q] \in Nat
    OBVIOUS
  <2>1. w \in 0 .. n - 1
    OBVIOUS
  <2>2. g[w + 1][p][q] = Digit(p, q, g[w][p \div 2][q \div 2])
    BY <2>1, NextDigit
  <2>3. g[w][p \div 2][q \div 2] \in Nat
    BY <1>2, Halves
  <2>4. (p % 2) * (q % 2) \in {0, 1}
    BY Halves
  <2> QED
    BY <2>2, <2>3, <2>4 DEF Digit
<1>3. \A w \in Nat : w \in S
  <2> HIDE DEF S
  <2> QED
    BY <1>1, <1>2, AllNumbers
<1> QED
  BY <1>3

\* Nothing is left of a number masked with 0, all of it if masked with itself.
LEMMA AndNothing ==
  ASSUME NEW n \in Nat, NEW g, AreLow(g, n)
  PROVE  \A w \in 0 .. n : \A p \in Nat : g[w][p][0] = 0
<1> DEFINE S == { w \in Nat : w <= n => \A p \in Nat : g[w][p][0] = 0 }
<1>1. 0 \in S
  BY NextDigit
<1>2. ASSUME NEW w \in Nat, w \in S PROVE w + 1 \in S
  <2> SUFFICES ASSUME w + 1 <= n, NEW p \in Nat PROVE g[w + 1][p][0] = 0
    OBVIOUS
  <2>1. g[w + 1][p][0] = Digit(p, 0, g[w][p \div 2][0 \div 2])
    <3>1. w \in 0 .. n - 1 /\ 0 \in Nat
      OBVIOUS
    <3> QED
      BY <3>1, NextDigit
  <2>2. g[w][p \div 2][0] = 0
    BY <1>2, Halves
  <2>3. 0 % 2 = 0 /\ 0 \div 2 = 0
    OBVIOUS
  <2> QED
    BY <2>1, <2>2, <2>3, Halves DEF Digit
<1>3. \A w \in Nat : w \in S
  <2> HIDE DEF S
  <2> QED
    BY <1>1, <1>2, AllNumbers
<1> QED
  BY <1>3

LEMMA AndItself ==
  ASSUME NEW n \in Nat, NEW g, AreLow(g, n)
  PROVE  \A w \in 0 .. n : \A q \in 0 .. w : g[w][q][q] = q
<1> DEFINE S == { w \in Nat : w <= n => \A q \in 0 .. w : g[w][q][q] = q }
<1>1. 0 \in S
  BY NextDigit
<1>2. ASSUME NEW w \in Nat, w \in S PROVE w + 1 \in S
  <2> SUFFICES ASSUME w + 1 <= n, NEW q \in 0 .. w + 1 PROVE g[w + 1][q][q] = q
    OBVIOUS
  <2>1. g[w + 1][q][q] = Digit(q, q, g[w][q \div 2][q \div 2])
    <3>1. w \in 0 .. n - 1 /\ q \in Nat
      OBVIOUS
    <3> QED
      BY <3>1, NextDigit
  <2>2. q \div 2 \in 0 .. w
    OBVIOUS
  <2>3. g[w][q \div 2][q \div 2] = q \div 2
    BY <1>2, <2>2
  <2>4. (q % 2) * (q % 2) = q % 2
    BY Halves
  <2> QED
    BY <2>1, <2>3, <2>4, Halves DEF Digit
<1>3. \A w \in Nat : w \in S
  <2> HIDE DEF S
  <2> QED
    BY <1>1, <1>2, AllNumbers
<1> QED
  BY <1>3

\* Dividing by 2k is dividing by 2 and then by k.
LEMMA Doubled ==
  ASSUME NEW p \in Nat, NEW k \in Nat \ {0}
  PROVE  (p % 2) + 2 * ((p \div 2) % k) = p % (2 * k)
<1> DEFINE t == (p \div 2) \div k
           r == (p % 2) + 2 * ((p \div 2) % k)
<1>1. p \div 2 = k * t + ((p \div 2) % k) /\ t \in Nat /\ (p \div 2) % k \in 0 .. k - 1
  BY Halves
<1>2. p = (2 * k) * t + r /\ r \in 0 .. 2 * k - 1
  <2>1. PICK a \in Nat, b \in Nat, c \in {0, 1}, d \in Nat :
          a = p \div 2 /\ b = (p \div 2) % k /\ c = p % 2 /\ d = k * t
    <3>1. /\ p \div 2 \in Nat /\ (p \div 2) % k \in Nat /\ p % 2 \in {0, 1}
          /\ k * t \in Nat
      BY <1>1, Halves
    <3> HIDE DEF t
    <3> QED
      BY <3>1, Zenon
  <2>2. p = 2 * a + c /\ a = d + b /\ b <= k - 1
    BY <1>1, <2>1, Halves
  <2>3. (2 * k) * t = 2 * d
    BY <1>1, <2>1
  <2> QED
    BY <2>1, <2>2, <2>3
<1> HIDE DEF t, r
<1>3. ASSUME NEW s \in Nat \ {0} , NEW a \in Nat, NEW b \in 0 .. s - 1 PROVE (s * a + b) % s = b
  OBVIOUS
<1>4. 2 * k \in Nat \ {0}
  OBVIOUS
<1>5. p % (2 * k) = r
  BY <1>1, <1>2, <1>3, <1>4
<1> QED
  BY <1>5 DEF r

\* A size that has no digit in common with the number before it is a power of two, and
\* the number before it the mask of the remainder.
LEMMA MaskRemains ==
  ASSUME NEW n \in Nat, NEW g, AreLow(g, n)
  PROVE  \A w \in 0 .. n : \A h \in 1 .. w + 1 :
           g[w][h][h - 1] = 0 => \A p \in Nat : g[w][p][h - 1] = p % h
<1> DEFINE Masks(w) == \A h \in 1 .. w + 1 :
                         g[w][h][h - 1] = 0 => \A p \in Nat : g[w][p][h - 1] = p % h
           S == { w \in Nat : w <= n => Masks(w) }
<1>1. 0 \in S
  <2>1. \A p \in Nat : g[0][p][0] = 0 /\ p % 1 = 0
    BY NextDigit
  <2> QED
    BY <2>1
<1>2. ASSUME NEW w \in Nat, w \in S PROVE w + 1 \in S
  <2> SUFFICES ASSUME w + 1 <= n, NEW h \in 1 .. w + 2, g[w + 1][h][h - 1] = 0, NEW p \in Nat
               PROVE  g[w + 1][p][h - 1] = p % h
    OBVIOUS
  <2>1. CASE h = 1
    <3>1. g[w + 1][p][0] = 0 /\ p % 1 = 0
      BY AndNothing
    <3> QED
      BY <2>1, <3>1
  <2>2. CASE h # 1
    <3>1. PICK k \in Nat : h = 2 * k \/ h = 2 * k + 1
      <4>1. h \div 2 \in Nat /\ (h = 2 * (h \div 2) \/ h = 2 * (h \div 2) + 1)
        OBVIOUS
      <4> QED
        BY <4>1
    <3>2. k \in 1 .. w + 1 /\ h - 1 \in Nat /\ h \in Nat
      BY <2>2, <3>1
    <3>3. /\ g[w + 1][h][h - 1] = Digit(h, h - 1, g[w][h \div 2][(h - 1) \div 2])
          /\ g[w + 1][p][h - 1] = Digit(p, h - 1, g[w][p \div 2][(h - 1) \div 2])
      <4>1. w \in 0 .. n - 1
        OBVIOUS
      <4> QED
        BY <3>2, <4>1, NextDigit
    <3>4. CASE h = 2 * k + 1
      <4>1. h % 2 = 1 /\ h \div 2 = k /\ (h - 1) % 2 = 0 /\ (h - 1) \div 2 = k
        BY <3>4, Halves
      <4>2. k \in 0 .. w
        BY <3>2, <3>4
      <4>3. g[w][k][k] = k
        BY <4>2, AndItself
      <4>4. g[w + 1][h][h - 1] = 2 * k
        BY <3>2, <3>3, <4>1, <4>3 DEF Digit
      <4> QED
        BY <3>2, <4>4
    <3>5. CASE h = 2 * k
      <4>1. h % 2 = 0 /\ h \div 2 = k /\ (h - 1) % 2 = 1 /\ (h - 1) \div 2 = k - 1
        <5>1. h - 1 = 2 * (k - 1) + 1 /\ k - 1 \in Nat
          BY <3>2, <3>5
        <5> QED
          BY <3>5, <5>1, Halves
      <4>2. 0 = 0 * 1 + 2 * g[w][k][k - 1]
        BY <3>3, <4>1 DEF Digit
      <4>3. g[w][k][k - 1] = 0
        <5>1. g[w][k][k - 1] \in Nat
          BY <3>2, AndTyped
        <5> QED
          BY <4>2, <5>1
      <4>4. \A q \in Nat : g[w][q][k - 1] = q % k
        BY <1>2, <3>2, <4>3
      <4>5. p \div 2 \in Nat /\ p % 2 \in Nat
        OBVIOUS
      <4>6. g[w][p \div 2][k - 1] = (p \div 2) % k
        BY <4>4, <4>5
      <4>7. g[w + 1][p][h - 1] = (p % 2) + 2 * ((p \div 2) % k)
        BY <3>3, <4>1, <4>5, <4>6 DEF Digit
      <4>8. k \in Nat \ {0}
        BY <3>2
      <4>9. (p % 2) + 2 * ((p \div 2) % k) = p % (2 * k)
        BY <4>8, Doubled
      <4> QED
        BY <3>5, <4>7, <4>9
    <3> QED
      BY <3>1, <3>4, <3>5
  <2> QED
    BY <2>1, <2>2
<1>3. \A w \in Nat : w \in S
  <2> HIDE DEF S
  <2> QED
    BY <1>1, <1>2, AllNumbers
<1> QED
  BY <1>3

\* What the constructor's test makes of every size that passes it.
LEMMA MaskOfPower ==
  ASSUME NEW size \in Nat \ {0}, PowerOfTwo(size), NEW pos \in Nat
  PROVE  And(pos, size - 1) = pos % size
<1>0. size - 1 \in Nat
  OBVIOUS
<1>1. PICK g : AreLow(g, size - 1) /\ \A p : And(p, size - 1) = g[size - 1][p][size - 1]
  BY <1>0, AndUnfolded
<1>2. g[size - 1][size][size - 1] = 0
  BY <1>1 DEF PowerOfTwo
<1> DEFINE w == size - 1
<1>3. w \in Nat /\ w \in 0 .. w /\ size \in 1 .. w + 1
  OBVIOUS
<1>4. AreLow(g, w) /\ g[w][size][size - 1] = 0
  BY <1>1, <1>2
<1> HIDE DEF w
<1>5. \A p \in Nat : g[w][p][size - 1] = p % size
  BY <1>3, <1>4, MaskRemains
<1> QED
  BY <1>1, <1>5 DEF w
=============================================================================
