----------------------- MODULE MessageDelivery_proofs -----------------------
(***************************************************************************)
(* What one direction of a connection promises about the messages: in      *)
(* order, once, whole, and through rings whose bytes nobody changes while  *)
(* another one needs them; and that nobody is stuck.  For every ring size, *)
(* word length, bound on the messages and interleaving of the two threads  *)
(* and the card.                                                           *)
(***************************************************************************)
EXTENDS RDMAMessageBuffer_proofs, SequenceTheorems

-----------------------------------------------------------------------------
(* The ring as the positions of a stream: a window of Size positions meets *)
(* every cell once, and what wraparound() does to a piece of the ring it   *)
(* does to the cells of the piece's positions.                             *)

\* A position is a number of whole rings and a cell.
LEMMA CellDecomposes ==
  ASSUME NEW p \in Nat
  PROVE  /\ p \div Size \in Nat /\ Cell(p) \in 0 .. Size - 1
         /\ p = Size * (p \div Size) + Cell(p)
BY SizeAssumption DEF Cell

\* ... in one way only.
LEMMA CellIsRest ==
  ASSUME NEW k \in Nat, NEW r \in 0 .. Size - 1
  PROVE  Cell(Size * k + r) = r
<1> DEFINE p == Size * k + r
           d == k - (p \div Size)
<1>1. p \in Nat
  BY SizeAssumption
<1>2. /\ p \div Size \in Nat /\ Cell(p) \in 0 .. Size - 1
      /\ p = Size * (p \div Size) + Cell(p)
  BY <1>1, CellDecomposes
<1>3. d \in Int /\ Size * d = Cell(p) - r
  BY <1>2, SizeAssumption
<1> HIDE DEF d, p
<1>4. ASSUME NEW a \in Int, a >= 1 PROVE Size * a >= Size
  BY <1>4, SizeAssumption
<1>5. ASSUME NEW a \in Int, a <= -1 PROVE Size * a <= -Size
  BY <1>5, SizeAssumption
<1>6. d >= 1 \/ d <= -1 \/ d = 0
  BY <1>3
<1>7. d = 0
  BY <1>2, <1>3, <1>4, <1>5, <1>6, SizeAssumption
<1>8. Cell(p) = r
  BY <1>2, <1>3, <1>7, SizeAssumption
<1> QED
  BY <1>8 DEF p

\* The cell of a position less than a ring ahead.
LEMMA CellAhead ==
  ASSUME NEW p \in Nat, NEW i \in 0 .. Size - 1
  PROVE  Cell(p + i) = IF Cell(p) + i < Size THEN Cell(p) + i ELSE Cell(p) + i - Size
<1> DEFINE k == p \div Size
           r == Cell(p)
<1>1. k \in Nat /\ r \in 0 .. Size - 1 /\ p = Size * k + r
  BY CellDecomposes
<1> HIDE DEF k, r
<1>2. CASE r + i < Size
  <2>1. r + i \in 0 .. Size - 1 /\ p + i = Size * k + (r + i)
    BY <1>1, <1>2, SizeAssumption
  <2>2. Cell(p + i) = r + i
    BY <1>1, <2>1, CellIsRest
  <2> QED
    BY <1>2, <2>2 DEF r
<1>3. CASE ~ (r + i < Size)
  <2>1. r + i - Size \in 0 .. Size - 1 /\ k + 1 \in Nat /\ p + i = Size * (k + 1) + (r + i - Size)
    BY <1>1, <1>3, SizeAssumption
  <2>2. Cell(p + i) = r + i - Size
    BY <1>1, <2>1, CellIsRest
  <2> QED
    BY <1>3, <2>2 DEF r
<1> QED
  BY <1>2, <1>3

\* Two positions of a window of one ring have two cells.
LEMMA CellsApart ==
  ASSUME NEW base \in Nat, NEW p \in base .. base + Size - 1,
         NEW q \in base .. base + Size - 1, p # q
  PROVE  Cell(p) # Cell(q)
<1>1. ASSUME NEW a \in base .. base + Size - 1, NEW b \in base .. base + Size - 1, a < b
      PROVE  Cell(a) # Cell(b)
  <2>1. a \in Nat /\ b - a \in 0 .. Size - 1 /\ b - a > 0 /\ b = a + (b - a)
    BY <1>1, SizeAssumption
  <2>2. Cell(a) \in 0 .. Size - 1
    BY <2>1, CellDecomposes
  <2>3. Cell(b) = IF Cell(a) + (b - a) < Size THEN Cell(a) + (b - a) ELSE Cell(a) + (b - a) - Size
    BY <2>1, CellAhead
  <2> QED
    BY <2>1, <2>2, <2>3, SizeAssumption
<1> QED
  BY <1>1, SizeAssumption

\* Every cell is that of a position of the window.
LEMMA CellsCover ==
  ASSUME NEW base \in Nat, NEW c \in Offsets
  PROVE  \E p \in base .. base + Size - 1 : Cell(p) = c
<1> DEFINE b == Cell(base)
           i == IF c >= b THEN c - b ELSE c - b + Size
<1>1. b \in 0 .. Size - 1 /\ c \in 0 .. Size - 1
  BY CellDecomposes DEF Offsets
<1>2. i \in 0 .. Size - 1
  BY <1>1, SizeAssumption
<1>3. Cell(base + i) = IF b + i < Size THEN b + i ELSE b + i - Size
  BY <1>2, CellAhead
<1>4. Cell(base + i) = c
  BY <1>1, <1>2, <1>3, SizeAssumption
<1>5. base + i \in base .. base + Size - 1
  BY <1>2, SizeAssumption
<1> HIDE DEF i
<1> QED
  BY <1>4, <1>5

\* The two ways a piece is cut.
LEMMA SlicesCut ==
  ASSUME NEW pos \in Nat, NEW n \in 0 .. Size
  PROVE  \/ /\ Cell(pos) + n <= Size
            /\ Slices(pos, n) = << Slice(0, Cell(pos), Cell(pos) + n) >>
         \/ /\ Cell(pos) + n > Size
            /\ Slices(pos, n) = << Slice(0, Cell(pos), Size),
                                   Slice(Size - Cell(pos), 0, n - (Size - Cell(pos))) >>
<1>1. Cell(pos) \in 0 .. Size - 1
  BY CellDecomposes
<1> QED
  BY <1>1, SizeAssumption DEF Slices

\* Which slice holds the cell of a position, and where in the slice it is.
LEMMA SlicesHold ==
  ASSUME NEW pos \in Nat, NEW n \in 0 .. Size, NEW i \in 0 .. Size - 1,
         NEW k \in 1 .. Len(Slices(pos, n))
  PROVE  LET s == Slices(pos, n)[k]
         IN  /\ Holds(s, Cell(pos + i)) <=> s.prev <= i /\ i < s.prev + SliceLen(s)
             /\ Holds(s, Cell(pos + i)) => s.prev + (Cell(pos + i) - s.begin) = i
             /\ s.prev + SliceLen(s) <= n
             /\ i < n => \/ i < SliceLen(Slices(pos, n)[1])
                         \/ Len(Slices(pos, n)) = 2 /\ Holds(Slices(pos, n)[2], Cell(pos + i))
<1> DEFINE b == Cell(pos)
           c == Cell(pos + i)
<1>1. b \in 0 .. Size - 1 /\ c = IF b + i < Size THEN b + i ELSE b + i - Size
  BY CellDecomposes, CellAhead
<1> HIDE DEF c
<1>2. CASE b + n <= Size
  <2>1. Slices(pos, n) = << Slice(0, b, b + n) >>
    BY <1>1, <1>2, SlicesCut, SizeAssumption
  <2> HIDE DEF b
  <2>2. k = 1 /\ Slices(pos, n)[k] = [prev |-> 0, begin |-> b, end |-> b + n]
    BY <2>1 DEF Slice
  <2> QED
    BY <1>1, <1>2, <2>2, SizeAssumption DEF Holds, SliceLen, c
<1>3. CASE b + n > Size
  <2>1. Slices(pos, n) = << Slice(0, b, Size), Slice(Size - b, 0, n - (Size - b)) >>
    BY <1>1, <1>3, SlicesCut, SizeAssumption
  <2> HIDE DEF b
  <2>2. /\ k = 1 \/ k = 2
        /\ Slices(pos, n)[1] = [prev |-> 0, begin |-> b, end |-> Size]
        /\ Slices(pos, n)[2] = [prev |-> Size - b, begin |-> 0, end |-> n - (Size - b)]
        /\ Len(Slices(pos, n)) = 2
    BY <2>1 DEF Slice
  <2>3. CASE k = 1
    BY <1>1, <1>3, <2>2, <2>3, SizeAssumption DEF Holds, SliceLen, c
  <2>4. CASE k = 2
    BY <1>1, <1>3, <2>2, <2>4, SizeAssumption DEF Holds, SliceLen, c
  <2> QED
    BY <2>2, <2>3, <2>4
<1> QED
  BY <1>1, <1>2, <1>3, SizeAssumption

\* Byte i of a piece that is read is in the cell of its position.
LEMMA OffsetIsCell ==
  ASSUME NEW pos \in Nat, NEW n \in 0 .. Size, NEW i \in 0 .. n - 1
  PROVE  OffsetOf(Slices(pos, n), i) = Cell(pos + i)
<1> DEFINE b == Cell(pos)
<1>1. /\ b \in 0 .. Size - 1 /\ i \in 0 .. Size - 1
      /\ Cell(pos + i) = IF b + i < Size THEN b + i ELSE b + i - Size
  BY CellDecomposes, CellAhead, SizeAssumption
<1>2. CASE b + n <= Size
  <2>1. Slices(pos, n) = << Slice(0, b, b + n) >>
    BY <1>1, <1>2, SlicesCut, SizeAssumption
  <2> HIDE DEF b
  <2> QED
    BY <1>1, <1>2, <2>1, SizeAssumption DEF Slice, SliceLen, OffsetOf
<1>3. CASE b + n > Size
  <2>1. Slices(pos, n) = << Slice(0, b, Size), Slice(Size - b, 0, n - (Size - b)) >>
    BY <1>1, <1>3, SlicesCut, SizeAssumption
  <2> HIDE DEF b
  <2> QED
    BY <1>1, <1>3, <2>1, SizeAssumption DEF Slice, SliceLen, OffsetOf
<1> QED
  BY <1>1, <1>2, <1>3, SizeAssumption

\* Copying into the ring writes the cells of the piece, and no others.
LEMMA CopyInCells ==
  ASSUME NEW ring, NEW pos \in Nat, NEW bytes, Len(bytes) \in 0 .. Size,
         NEW p \in pos .. pos + Size - 1
  PROVE  CopyIn(ring, pos, bytes)[Cell(p)] =
           IF p < pos + Len(bytes) THEN bytes[p - pos + 1] ELSE ring[Cell(p)]
<1> DEFINE n  == Len(bytes)
           i  == p - pos
           sl == Slices(pos, n)
           c  == Cell(p)
           From(s) == bytes[s.prev + (c - s.begin) + 1]
<1>1. i \in 0 .. Size - 1 /\ p = pos + i /\ p \in Nat
  BY SizeAssumption
<1>2. c \in Offsets
  BY <1>1, CellInRing
<1>3. Len(sl) \in 1 .. 2
  BY SlicesCount
<1>4. ASSUME NEW k \in 1 .. Len(sl)
      PROVE  /\ Holds(sl[k], c) => i < n /\ From(sl[k]) = bytes[i + 1]
             /\ i < n => Holds(sl[1], c) \/ (Len(sl) = 2 /\ Holds(sl[2], c))
  <2> DEFINE s == sl[k]
  <2>1. /\ Holds(s, c) <=> s.prev <= i /\ i < s.prev + SliceLen(s)
        /\ Holds(s, c) => s.prev + (c - s.begin) = i
        /\ s.prev + SliceLen(s) <= n
        /\ i < n => i < SliceLen(sl[1]) \/ (Len(sl) = 2 /\ Holds(sl[2], c))
    BY <1>1, SlicesHold
  <2>2. s.prev \in Nat /\ s.begin \in 0 .. Size /\ s.end \in 0 .. Size
    BY SlicesInRing
  <2>3. 1 \in 1 .. Len(sl)
    BY <1>3
  <2>4. /\ Holds(sl[1], c) <=> sl[1].prev <= i /\ i < sl[1].prev + SliceLen(sl[1])
    BY <1>1, <2>3, SlicesHold
  <2>5. sl[1].prev = 0
    BY SlicesCut DEF Slice
  <2>6. sl[1].begin \in 0 .. Size /\ sl[1].end \in 0 .. Size
    BY <2>3, SlicesInRing
  <2> HIDE DEF sl, n, i, c
  <2>7. Holds(s, c) => i < n
    BY <1>1, <2>1, <2>2, SizeAssumption, SMTT(30) DEF SliceLen, n
  <2>8. i < n => Holds(sl[1], c) \/ (Len(sl) = 2 /\ Holds(sl[2], c))
    BY <1>1, <2>1, <2>4, <2>5, <2>6, SizeAssumption DEF SliceLen
  <2> QED
    BY <2>1, <2>7, <2>8
<1>5. CopyIn(ring, pos, bytes)[c] =
        IF Holds(sl[1], c) THEN From(sl[1])
        ELSE IF Len(sl) = 2 /\ Holds(sl[2], c) THEN From(sl[2])
        ELSE ring[c]
  BY <1>2 DEF CopyIn
<1>6. i < n <=> p < pos + n
  BY <1>1
<1> HIDE DEF sl, c, n, From
<1>7. CASE i < n
  BY <1>3, <1>4, <1>5, <1>6, <1>7 DEF c, n
<1>8. CASE ~ (i < n)
  BY <1>3, <1>4, <1>5, <1>6, <1>8 DEF c, n
<1> QED
  BY <1>7, <1>8

\* Clearing clears the cells of the piece, and no others.
LEMMA ZeroedCells ==
  ASSUME NEW ring, NEW pos \in Nat, NEW n \in 0 .. Size, NEW p \in pos .. pos + Size - 1
  PROVE  Zeroed(ring, pos, n)[Cell(p)] = IF p < pos + n THEN 0 ELSE ring[Cell(p)]
<1> DEFINE i  == p - pos
           sl == Slices(pos, n)
           c  == Cell(p)
<1>1. i \in 0 .. Size - 1 /\ p = pos + i /\ p \in Nat
  BY SizeAssumption
<1>2. c \in Offsets
  BY <1>1, CellInRing
<1>3. Len(sl) \in 1 .. 2 /\ DOMAIN sl = 1 .. Len(sl)
  BY SlicesCount, SlicesCut
<1>4. (\E k \in DOMAIN sl : Holds(sl[k], c)) <=> i < n
  <2>1. ASSUME NEW k \in 1 .. Len(sl), Holds(sl[k], c)
        PROVE  i < n
    <3>1. i < sl[k].prev + SliceLen(sl[k]) /\ sl[k].prev + SliceLen(sl[k]) <= n
      BY <1>1, <2>1, SlicesHold
    <3>2. sl[k].prev \in Nat /\ sl[k].begin \in 0 .. Size /\ sl[k].end \in 0 .. Size
      BY SlicesInRing
    <3> QED
      BY <1>1, <3>1, <3>2, SizeAssumption DEF SliceLen
  <2>2. ASSUME i < n
        PROVE  \E k \in 1 .. Len(sl) : Holds(sl[k], c)
    <3>1. 1 \in 1 .. Len(sl)
      BY <1>3
    <3>2. /\ Holds(sl[1], c) <=> sl[1].prev <= i /\ i < sl[1].prev + SliceLen(sl[1])
          /\ i < SliceLen(sl[1]) \/ (Len(sl) = 2 /\ Holds(sl[2], c))
      BY <1>1, <2>2, <3>1, SlicesHold
    <3>3. sl[1].prev = 0 /\ sl[1].begin \in 0 .. Size /\ sl[1].end \in 0 .. Size
      BY <3>1, SlicesCut, SlicesInRing DEF Slice
    <3>4. Holds(sl[1], c) \/ (Len(sl) = 2 /\ Holds(sl[2], c))
      BY <1>1, <3>2, <3>3, SizeAssumption DEF SliceLen
    <3> QED
      BY <3>1, <3>4
  <2> QED
    BY <1>3, <2>1, <2>2
<1>5. Zeroed(ring, pos, n)[c] = IF \E k \in DOMAIN sl : Holds(sl[k], c) THEN 0 ELSE ring[c]
  BY <1>2 DEF Zeroed
<1>6. i < n <=> p < pos + n
  BY <1>1
<1> HIDE DEF sl, c, i
<1> QED
  BY <1>4, <1>5, <1>6 DEF c

-----------------------------------------------------------------------------
(* The stream.  start[k] is the stream position of the frame of the k-th   *)
(* message, text[p] the byte the stream has at position p, and from[k] the *)
(* position at which the k-th request in the send queue begins; the last   *)
(* element of start and of from is the position behind the last one.  That *)
(* there are such start, text and from is the inductive invariant.         *)

\* Where in its frame the part begins that send() writes next.
PartOffset ==
  IF part = "header" THEN 0 ELSE IF part = "data" THEN WordLen ELSE WordLen + Len(msg)

\* The frames follow each other, and readPos is the first not received.
Layout(start) ==
  /\ start \in Seq(Nat) /\ Len(start) = Len(sent) + 1
  /\ \A j, k \in 1 .. Len(start) : j < k => start[j] + FrameLen(Len(sent[j])) <= start[k]
  /\ \A k \in 1 .. Len(sent) :
       /\ sent[k] \in Payloads /\ FrameLen(Len(sent[k])) <= Size
       /\ start[k + 1] = start[k] + FrameLen(Len(sent[k]))
  /\ received \in Seq(Seq(Byte)) /\ Len(received) <= Len(sent)
  /\ start[Len(received) + 1] = readPos

\* The sender is in the last of them.
Sending(start) ==
  /\ sendPos <= start[Len(sent) + 1]
  /\ spc \in {"idle", "post"} => sendPos = start[Len(sent) + 1]
  /\ spc # "idle" => /\ Len(sent) \in Nat \ {0} /\ msg = sent[Len(sent)]
                     /\ startOfWrite = start[Len(sent)]
  /\ spc \in {"write", "poll"} => sendPos = startOfWrite + PartOffset

\* The text of the stream is that of the frames.
Text(start, text) ==
  /\ text \in [Nat -> Byte]
  /\ \A k \in 1 .. Len(sent) : \A i \in 0 .. FrameLen(Len(sent[k])) - 1 :
       text[start[k] + i] = FrameByte(sent[k], i)

\* receive() has cleared the cell of this position, and readPos is still before it.
Cleared(p) == rpc = "advance" /\ p < readPos + FrameLen(receiveSize)

\* The send buffer holds the text that is to be delivered, the receive buffer what
\* is to be read, and nothing else.
Rings(text) ==
  /\ readPos <= delivered
  /\ \A p \in delivered .. sendPos - 1 : sendBuffer[Cell(p)] = text[p]
  /\ \A p \in readPos .. delivered - 1 :
       receiveBuffer[Cell(p)] = IF Cleared(p) THEN 0 ELSE text[p]
  /\ \A p \in delivered .. readPos + Size - 1 : receiveBuffer[Cell(p)] = 0

\* The requests in the queue are the stream from where the card is to where send()
\* has posted it.
Queue(text, from) ==
  /\ from \in Seq(Nat) /\ Len(from) = Len(sq) + 1
  /\ from[1] + done = delivered
  /\ \A j, k \in 1 .. Len(from) : j <= k => from[j] <= from[k]
  /\ \A k \in 1 .. Len(sq) :
       /\ from[k + 1] = from[k] + SliceLen(sq[k])
       /\ sq[k].op = "read" => SliceLen(sq[k]) = 0
       /\ sq[k].op = "write" => sq[k].begin = Cell(from[k])
       /\ sq[k].op = "write" /\ sq[k].inln =>
            \A i \in 0 .. SliceLen(sq[k]) - 1 : sq[k].bytes[i + 1] = text[from[k] + i]
  /\ from[Len(sq) + 1] <= sendPos

\* How far that is.
PostedTo(from) ==
  /\ spc = "idle" => from[Len(sq) + 1] = sendPos
  /\ spc \in {"write", "poll"} => from[Len(sq) + 1] = startOfWrite
  /\ spc = "post" =>
       from[Len(sq) + 1] = startOfWrite + Slices(startOfWrite, FrameLen(Len(msg)))[slice].prev

\* The position of the i-th byte that receive() or hasData() reads of the words.
ReadAt(i) == IF i <= WordLen THEN readPos + i - 1 ELSE readPos + receiveSize + i - 1

\* A byte it has read was zero, not being delivered, or is the text's.
Scan(text) ==
  /\ rpc = "idle" => rbytes = << >>
  /\ \A i \in 1 .. Len(rbytes) :
       rbytes[i] # 0 => ReadAt(i) < delivered /\ rbytes[i] = text[ReadAt(i)]

\* After hasData() has said yes, it is the text's.
Ready(text) ==
  avail => /\ NextDelivered
           /\ rpc = "scan" => \A i \in 1 .. Len(rbytes) :
                                ReadAt(i) < delivered /\ rbytes[i] = text[ReadAt(i)]

Shape(start, text, from) ==
  /\ Layout(start) /\ Sending(start) /\ Text(start, text) /\ Rings(text)
  /\ Queue(text, from) /\ PostedTo(from) /\ Scan(text) /\ Ready(text)

DeliveryInv ==
  /\ TypeInv /\ FlowInv /\ AcceptedIsComplete /\ InOrderExactlyOnce
  /\ \E start, text, from : Shape(start, text, from)

-----------------------------------------------------------------------------
(* Frames.                                                                 *)

LEMMA FrameLenType ==
  ASSUME NEW n \in Nat
  PROVE  FrameLen(n) \in Nat /\ FrameLen(n) = n + 2 * WordLen /\ FrameLen(n) > n
BY ByteAssumption DEF FrameLen

\* A word is a sequence of WordLen bytes, and the two words of a frame are words.
LEMMA FrameWords ==
  ASSUME NEW d \in Seq(Byte), FrameLen(Len(d)) <= Size
  PROVE  /\ Len(d) \in 0 .. Size - 2 * WordLen
         /\ LenBytes(Len(d)) \in Word /\ Validity \in Word
         /\ LenBytes(Len(d)) \in Seq(Byte) /\ Len(LenBytes(Len(d))) = WordLen
         /\ Validity \in Seq(Byte) /\ Len(Validity) = WordLen
<1>1. ASSUME NEW w \in Word
      PROVE  w \in Seq(Byte) /\ Len(w) = WordLen
  BY ByteAssumption DEF Word
<1>2. Len(d) \in 0 .. Size - 2 * WordLen
  BY ByteAssumption, SizeAssumption DEF FrameLen
<1>3. LenBytes(Len(d)) \in Word /\ Validity \in Word
  BY <1>2, ByteAssumption
<1> QED
  BY <1>1, <1>2, <1>3

LEMMA FrameByteType ==
  ASSUME NEW d \in Seq(Byte), FrameLen(Len(d)) <= Size, NEW i \in 0 .. FrameLen(Len(d)) - 1
  PROVE  FrameByte(d, i) \in Byte
<1> DEFINE h == LenBytes(Len(d))
           n == Len(d)
<1>1. /\ h \in Seq(Byte) /\ Len(h) = WordLen
      /\ Validity \in Seq(Byte) /\ Len(Validity) = WordLen
  BY FrameWords
<1>2. n \in Nat /\ WordLen \in Nat /\ i \in Nat /\ i < WordLen + n + WordLen
  BY ByteAssumption, FrameLenType DEF FrameLen
<1> HIDE DEF h
<1>3. CASE i < WordLen
  <2>1. i + 1 \in 1 .. Len(h)
    BY <1>1, <1>2, <1>3
  <2> QED
    BY <1>1, <1>3, <2>1 DEF FrameByte, h
<1>4. CASE ~ (i < WordLen) /\ i < WordLen + n
  <2>1. i - WordLen + 1 \in 1 .. Len(d)
    BY <1>2, <1>4
  <2> QED
    BY <1>4, <2>1 DEF FrameByte
<1>5. CASE ~ (i < WordLen) /\ ~ (i < WordLen + n)
  <2>1. i - WordLen - n + 1 \in 1 .. Len(Validity)
    BY <1>1, <1>2, <1>5
  <2> QED
    BY <1>1, <1>5, <2>1 DEF FrameByte
<1> QED
  BY <1>3, <1>4, <1>5

\* The parts that send() writes one after the other make up the frame.
LEMMA PartsMakeFrame ==
  ASSUME TypeInv, NEW j \in 0 .. Len(PartBytes(part, msg)) - 1
  PROVE  /\ PartOffset + j \in 0 .. FrameLen(Len(msg)) - 1
         /\ PartBytes(part, msg)[j + 1] = FrameByte(msg, PartOffset + j)
<1> DEFINE h == LenBytes(Len(msg))
<1>1. /\ h \in Seq(Byte) /\ Len(h) = WordLen
      /\ Validity \in Seq(Byte) /\ Len(Validity) = WordLen
  BY FrameWords DEF TypeInv, TypeOK, FrameFits
<1>2. msg \in Seq(Byte) /\ Len(msg) \in Nat /\ WordLen \in Nat /\ part \in {"header", "data", "footer"}
  BY ByteAssumption DEF TypeInv, TypeOK
<1> HIDE DEF h
<1>3. CASE part = "header"
  <2>1. PartBytes(part, msg) = h /\ PartOffset = 0
    BY <1>3 DEF PartBytes, PartOffset, h
  <2> QED
    BY <1>1, <1>2, <2>1 DEF FrameByte, FrameLen, h
<1>4. CASE part = "data"
  <2>1. PartBytes(part, msg) = msg /\ PartOffset = WordLen
    BY <1>4 DEF PartBytes, PartOffset
  <2> QED
    BY <1>1, <1>2, <2>1 DEF FrameByte, FrameLen
<1>5. CASE part = "footer"
  <2>1. PartBytes(part, msg) = Validity /\ PartOffset = WordLen + Len(msg)
    BY <1>5 DEF PartBytes, PartOffset
  <2> QED
    BY <1>1, <1>2, <2>1 DEF FrameByte, FrameLen
<1> QED
  BY <1>2, <1>3, <1>4, <1>5

-----------------------------------------------------------------------------
(* What the shape says of the positions, the head of the queue and the     *)
(* words that receive() and hasData() have read.                           *)

\* The positions are in order, and within a ring.
LEMMA Bounds ==
  ASSUME TypeInv, FlowInv, NEW start, NEW text, NEW from, Shape(start, text, from)
  PROVE  /\ readPos \in Nat /\ delivered \in Nat /\ sendPos \in Nat
         /\ from[Len(sq) + 1] \in Nat /\ start[Len(sent) + 1] \in Nat
         /\ readPos <= delivered /\ delivered <= from[Len(sq) + 1]
         /\ from[Len(sq) + 1] <= sendPos /\ sendPos <= start[Len(sent) + 1]
         /\ sendPos <= readPos + Size
<1>1. /\ readPos \in Nat /\ delivered \in Nat /\ sendPos \in Nat /\ done \in Nat
      /\ currentRemoteReceive \in Nat /\ sq \in Seq(WorkRequest) /\ sent \in Seq(Seq(Byte))
  BY DEF TypeInv, TypeOK
<1>2. /\ from \in Seq(Nat) /\ Len(from) = Len(sq) + 1
      /\ from[1] + done = delivered
      /\ \A j, k \in 1 .. Len(from) : j <= k => from[j] <= from[k]
      /\ \A k \in 1 .. Len(sq) : from[k + 1] = from[k] + SliceLen(sq[k])
  BY DEF Shape, Queue
<1>3. from[1] \in Nat /\ from[Len(sq) + 1] \in Nat
  BY <1>1, <1>2
<1>4. start[Len(sent) + 1] \in Nat
  BY <1>1 DEF Shape, Layout
<1>5. delivered <= from[Len(sq) + 1]
  <2>1. CASE sq # << >> /\ Head(sq).op = "write"
    <3>1. /\ 1 \in 1 .. Len(sq) /\ 2 \in 1 .. Len(from) /\ Len(from) \in 1 .. Len(from)
          /\ 2 <= Len(from) /\ Head(sq) = sq[1]
      BY <1>1, <1>2, <2>1
    <3>2. from[2] = from[1] + SliceLen(sq[1]) /\ from[2] <= from[Len(from)] /\ from[2] \in Nat
      BY <1>2, <3>1
    <3>3. done < SliceLen(sq[1])
      BY <2>1, <3>1 DEF TypeInv, QueueShape
    <3>4. sq[1].begin \in 0 .. Size /\ sq[1].end \in 0 .. Size
      <4>1. sq[1] \in WorkRequest
        BY <1>1, <3>1
      <4> QED
        BY <4>1 DEF WorkRequest
    <3>5. SliceLen(sq[1]) \in Int
      BY <3>4, SizeAssumption DEF SliceLen
    <3> QED
      BY <1>1, <1>2, <1>3, <3>2, <3>3, <3>5
  <2>2. CASE ~ (sq # << >> /\ Head(sq).op = "write")
    <3>1. done = 0
      BY <2>2 DEF TypeInv, QueueShape
    <3>2. 1 \in 1 .. Len(from) /\ Len(from) \in 1 .. Len(from) /\ 1 <= Len(from)
      BY <1>1, <1>2
    <3>3. from[1] <= from[Len(from)]
      BY <1>2, <3>2
    <3> QED
      BY <1>1, <1>2, <1>3, <3>1, <3>3
  <2> QED
    BY <2>1, <2>2
<1>6. sendPos <= readPos + Size
  BY <1>1, SizeAssumption DEF FlowInv
<1> QED
  BY <1>1, <1>3, <1>4, <1>5, <1>6 DEF Shape, Rings, Queue, Sending

\* The requests in the queue, and the frames of the stream, lie one behind the other.
LEMMA InPiece ==
  ASSUME NEW a \in Nat, NEW s \in Nat, NEW e \in Nat, a + s <= e, NEW i \in 0 .. s - 1
  PROVE  a + i \in Nat /\ a + i < e
OBVIOUS

LEMMA QueuePositions ==
  ASSUME TypeInv, NEW text, NEW from, Queue(text, from), NEW k \in 1 .. Len(sq)
  PROVE  /\ sq[k] \in WorkRequest /\ SliceLen(sq[k]) \in Nat
         /\ from[k] \in Nat /\ from[k + 1] \in Nat /\ from[Len(sq) + 1] \in Nat
         /\ from[1] \in Nat /\ from[1] <= from[k]
         /\ from[k + 1] = from[k] + SliceLen(sq[k])
         /\ from[k + 1] <= from[Len(sq) + 1]
         /\ \A i \in 0 .. SliceLen(sq[k]) - 1 :
              from[k] + i \in Nat /\ from[k] + i < from[Len(sq) + 1]
<1>1. sq \in Seq(WorkRequest)
  BY DEF TypeInv, TypeOK
<1>2. /\ from \in Seq(Nat) /\ Len(from) = Len(sq) + 1
      /\ \A a, b \in 1 .. Len(from) : a <= b => from[a] <= from[b]
      /\ from[k + 1] = from[k] + SliceLen(sq[k])
  BY DEF Queue
<1>3. /\ 1 \in 1 .. Len(from) /\ k \in 1 .. Len(from) /\ k + 1 \in 1 .. Len(from)
      /\ Len(sq) + 1 \in 1 .. Len(from) /\ k + 1 <= Len(sq) + 1 /\ 1 <= k /\ k <= k + 1
  BY <1>1, <1>2
<1>4. /\ from[1] \in Nat /\ from[k] \in Nat /\ from[k + 1] \in Nat /\ from[Len(sq) + 1] \in Nat
  BY <1>2, <1>3
<1>5. from[1] <= from[k] /\ from[k] <= from[k + 1] /\ from[k + 1] <= from[Len(sq) + 1]
  BY <1>2, <1>3
<1>6. sq[k] \in WorkRequest
  BY <1>1
<1>7. SliceLen(sq[k]) \in Int
  BY <1>6, SizeAssumption DEF SliceLen, WorkRequest
<1>8. SliceLen(sq[k]) \in Nat
  BY <1>2, <1>4, <1>5, <1>7
<1>9. ASSUME NEW i \in 0 .. SliceLen(sq[k]) - 1
      PROVE  from[k] + i \in Nat /\ from[k] + i < from[Len(sq) + 1]
  <2>1. from[k] + SliceLen(sq[k]) <= from[Len(sq) + 1]
    BY <1>2, <1>5
  <2> HIDE DEF SliceLen
  <2> QED
    BY <1>4, <1>8, <2>1, InPiece
<1> QED
  BY <1>2, <1>4, <1>5, <1>6, <1>8, <1>9

LEMMA FramePositions ==
  ASSUME TypeInv, NEW start, Layout(start), NEW k \in 1 .. Len(sent)
  PROVE  /\ sent[k] \in Seq(Byte) /\ sent[k] \in Payloads
         /\ FrameLen(Len(sent[k])) \in Nat /\ FrameLen(Len(sent[k])) <= Size
         /\ start[k] \in Nat /\ start[k + 1] \in Nat /\ start[Len(sent) + 1] \in Nat
         /\ start[k + 1] = start[k] + FrameLen(Len(sent[k]))
         /\ start[k + 1] <= start[Len(sent) + 1]
         /\ \A i \in 0 .. FrameLen(Len(sent[k])) - 1 :
              start[k] + i \in Nat /\ start[k] + i < start[Len(sent) + 1]
<1>1. sent \in Seq(Seq(Byte))
  BY DEF TypeInv, TypeOK
<1>2. /\ start \in Seq(Nat) /\ Len(start) = Len(sent) + 1
      /\ \A a, b \in 1 .. Len(start) : a < b => start[a] + FrameLen(Len(sent[a])) <= start[b]
      /\ start[k + 1] = start[k] + FrameLen(Len(sent[k]))
      /\ sent[k] \in Payloads /\ FrameLen(Len(sent[k])) <= Size
  BY DEF Layout
<1>3. /\ k \in 1 .. Len(start) /\ k + 1 \in 1 .. Len(start)
      /\ Len(sent) + 1 \in 1 .. Len(start) /\ k < Len(sent) + 1
  BY <1>1, <1>2
<1>4. /\ start[k] \in Nat /\ start[k + 1] \in Nat /\ start[Len(sent) + 1] \in Nat
  BY <1>2, <1>3
<1>5. sent[k] \in Seq(Byte)
  BY <1>1
<1>6. Len(sent[k]) \in Nat
  BY <1>5
<1>8. FrameLen(Len(sent[k])) \in Nat
  BY <1>6, FrameLenType
<1>7. start[k] + FrameLen(Len(sent[k])) <= start[Len(sent) + 1]
  BY <1>2, <1>3
<1>9. ASSUME NEW i \in 0 .. FrameLen(Len(sent[k])) - 1
      PROVE  start[k] + i \in Nat /\ start[k] + i < start[Len(sent) + 1]
  BY <1>4, <1>7, <1>8, InPiece
<1> QED
  BY <1>2, <1>4, <1>5, <1>7, <1>8, <1>9

\* The byte the card places next is the text's, and the sender is past it.
LEMMA HeadByte ==
  ASSUME TypeInv, FlowInv, NEW start, NEW text, NEW from, Shape(start, text, from),
         sq # << >>, Head(sq).op = "write"
  PROVE  /\ Head(sq).remote + done = Cell(delivered)
         /\ ByteOf(Head(sq), done) = text[delivered]
         /\ delivered < from[2] /\ from[2] = from[1] + SliceLen(Head(sq))
         /\ SliceLen(Head(sq)) \in Nat
         /\ delivered < sendPos /\ delivered < from[Len(sq) + 1]
<1> DEFINE wr == sq[1]
<1>1. sq \in Seq(WorkRequest) /\ done \in Nat /\ delivered \in Nat
  BY DEF TypeInv, TypeOK
<1>2. 1 \in 1 .. Len(sq) /\ wr \in WorkRequest /\ Head(sq) = wr /\ wr.op = "write"
  BY <1>1
<1>3. /\ wr.begin \in 0 .. Size /\ wr.end \in 0 .. Size /\ wr.inln \in BOOLEAN
      /\ wr.remote = wr.begin /\ wr.begin < wr.end /\ done < wr.end - wr.begin
  BY <1>2 DEF TypeInv, QueueShape, WorkRequest, SliceLen
<1>4. /\ from \in Seq(Nat) /\ Len(from) = Len(sq) + 1 /\ from[1] + done = delivered
      /\ from[2] = from[1] + SliceLen(wr) /\ wr.begin = Cell(from[1])
      /\ wr.inln => \A i \in 0 .. SliceLen(wr) - 1 : wr.bytes[i + 1] = text[from[1] + i]
  BY <1>2 DEF Shape, Queue
<1>5. from[1] \in Nat /\ from[2] \in Nat /\ from[2] <= from[Len(sq) + 1]
      /\ from[Len(sq) + 1] \in Nat
  BY <1>1, <1>2, <1>4 DEF Shape, Queue
<1> HIDE DEF wr
<1>6. done \in 0 .. Size - 1 /\ SliceLen(wr) \in Nat /\ done \in 0 .. SliceLen(wr) - 1
  BY <1>1, <1>3, SizeAssumption DEF SliceLen
<1>7. wr.begin + done = Cell(delivered)
  <2>1. Cell(from[1] + done) = IF Cell(from[1]) + done < Size THEN Cell(from[1]) + done
                               ELSE Cell(from[1]) + done - Size
    BY <1>5, <1>6, CellAhead
  <2> QED
    BY <1>1, <1>3, <1>4, <2>1, SizeAssumption, SMTT(30)
<1>8. delivered < from[2] /\ delivered < sendPos /\ delivered < from[Len(sq) + 1]
  <2>1. from[Len(sq) + 1] <= sendPos /\ sendPos \in Nat
    BY Bounds
  <2>2. delivered < from[2]
    <3>1. /\ from[1] + done = delivered /\ from[2] = from[1] + SliceLen(wr)
          /\ from[1] \in Nat /\ from[2] \in Nat
          /\ done \in Nat /\ SliceLen(wr) \in Nat /\ done < SliceLen(wr)
      BY <1>1, <1>4, <1>5, <1>6
    <3> QED
      BY <3>1
  <2>3. from[2] <= from[Len(sq) + 1] /\ from[2] \in Nat /\ from[Len(sq) + 1] \in Nat
    BY <1>5
  <2> QED
    BY <1>1, <2>1, <2>2, <2>3
<1>9. ByteOf(wr, done) = text[delivered]
  <2>1. CASE wr.inln
    BY <1>4, <1>6, <2>1 DEF ByteOf
  <2>2. CASE ~ wr.inln
    <3>1. sendPos \in Nat /\ delivered \in delivered .. sendPos - 1
      BY <1>1, <1>8, Bounds
    <3>2. sendBuffer[Cell(delivered)] = text[delivered]
      BY <3>1 DEF Shape, Rings
    <3> QED
      BY <1>7, <2>2, <3>2 DEF ByteOf
  <2> QED
    BY <2>1, <2>2
<1> QED
  BY <1>2, <1>3, <1>4, <1>6, <1>7, <1>8, <1>9

\* The frame to be received next.
LEMMA NextFrame ==
  ASSUME TypeInv, FlowInv, NEW start, NEW text, NEW from, Shape(start, text, from),
         Len(received) < Len(sent)
  PROVE  /\ NextMsg \in Payloads /\ NextMsg \in Seq(Byte) /\ FrameLen(Len(NextMsg)) <= Size
         /\ \A i \in 0 .. FrameLen(Len(NextMsg)) - 1 :
              text[readPos + i] = FrameByte(NextMsg, i)
<1>1. sent \in Seq(Seq(Byte)) /\ received \in Seq(Seq(Byte))
  BY DEF TypeInv, TypeOK, Shape, Layout
<1> DEFINE k == Len(received) + 1
<1>2. k \in 1 .. Len(sent)
  BY <1>1
<1>3. /\ sent[k] \in Payloads /\ sent[k] \in Seq(Byte) /\ FrameLen(Len(sent[k])) <= Size
      /\ start[k] = readPos
  BY <1>1, <1>2, SMTT(30) DEF Shape, Layout
<1>4. \A i \in 0 .. FrameLen(Len(sent[k])) - 1 : text[start[k] + i] = FrameByte(sent[k], i)
  BY <1>2 DEF Shape, Text
<1> QED
  BY <1>3, <1>4 DEF NextMsg

\* Without one, nothing has been delivered that is not received.
LEMMA NoFrame ==
  ASSUME TypeInv, FlowInv, NEW start, NEW text, NEW from, Shape(start, text, from),
         ~ (Len(received) < Len(sent))
  PROVE  delivered = readPos
<1>1. sent \in Seq(Seq(Byte)) /\ received \in Seq(Seq(Byte)) /\ Len(received) <= Len(sent)
  BY DEF TypeInv, TypeOK, Shape, Layout
<1>2. Len(received) = Len(sent)
  BY <1>1
<1>3. start[Len(sent) + 1] = readPos
  BY <1>2 DEF Shape, Layout
<1> QED
  BY <1>3, Bounds

\* A length word that has been read, however torn, is no more than that of the frame
\* to come; so that the validity word is looked for within the frame.
LEMMA LengthRead ==
  ASSUME TypeInv, FlowInv, NEW start, NEW text, NEW from, Shape(start, text, from),
         Len(rbytes) >= WordLen
  PROVE  /\ receiveSize \in Nat
         /\ receiveSize + 2 * WordLen <= Size
         /\ Len(received) < Len(sent) =>
              /\ SubSeq(rbytes, 1, WordLen) \in Word
              /\ Torn(SubSeq(rbytes, 1, WordLen), LenBytes(Len(NextMsg)))
              /\ receiveSize <= Len(NextMsg)
<1> DEFINE w == SubSeq(rbytes, 1, WordLen)
<1>1. WordLen \in Nat \ {0} /\ rbytes \in Seq(Byte) /\ readPos \in Nat
  BY ByteAssumption DEF TypeInv, TypeOK
<1>2. w \in Word /\ \A i \in 1 .. WordLen : w[i] = rbytes[i] /\ i \in 1 .. Len(rbytes)
  <2>1. w = [i \in 1 .. WordLen |-> rbytes[i]]
    BY <1>1
  <2>2. \A i \in 1 .. WordLen : rbytes[i] \in Byte
    BY <1>1
  <2>3. w \in [1 .. WordLen -> Byte]
    BY <2>1, <2>2
  <2>4. \A i \in 1 .. WordLen : w[i] = rbytes[i]
    BY <2>1
  <2>5. \A i \in 1 .. WordLen : i \in 1 .. Len(rbytes)
    BY <1>1
  <2> QED
    BY <2>3, <2>4, <2>5 DEF Word
<1>3. receiveSize = LenValue(w)
  BY DEF receiveSize
<1> HIDE DEF w
<1>4. \A i \in 1 .. WordLen : w[i] # 0 => readPos + i - 1 < delivered /\ w[i] = text[readPos + i - 1]
  BY <1>1, <1>2 DEF Shape, Scan, ReadAt
<1>5. CASE Len(received) < Len(sent)
  <2> DEFINE n == Len(NextMsg)
  <2>1. NextMsg \in Seq(Byte) /\ FrameLen(n) <= Size
        /\ \A i \in 0 .. FrameLen(n) - 1 : text[readPos + i] = FrameByte(NextMsg, i)
    BY <1>5, NextFrame
  <2>2. n \in 0 .. Size - 2 * WordLen /\ n \in Nat
    BY <2>1, FrameWords
  <2>3. ASSUME NEW i \in 1 .. WordLen, w[i] # 0
        PROVE  w[i] = LenBytes(n)[i]
    <3>1. i - 1 \in 0 .. FrameLen(n) - 1 /\ i - 1 < WordLen /\ readPos + i - 1 = readPos + (i - 1)
      BY <1>1, <2>2 DEF FrameLen
    <3>2. text[readPos + (i - 1)] = FrameByte(NextMsg, i - 1)
      BY <2>1, <3>1
    <3>3. FrameByte(NextMsg, i - 1) = LenBytes(n)[i]
      BY <3>1 DEF FrameByte
    <3> QED
      BY <1>4, <2>3, <3>1, <3>2, <3>3
  <2>4. Torn(w, LenBytes(n))
    BY <2>3 DEF Torn
  <2>5. LenValue(w) <= n /\ LenValue(w) \in Nat
    BY <1>2, <2>2, <2>4, WordAssumption, ByteAssumption
  <2> HIDE DEF n
  <2>6. receiveSize \in Nat /\ receiveSize <= n /\ receiveSize + 2 * WordLen <= Size
    BY <1>1, <1>3, <2>2, <2>5, SizeAssumption
  <2> QED
    BY <1>2, <2>4, <2>6 DEF n, w
<1>6. CASE ~ (Len(received) < Len(sent))
  <2>1. delivered = readPos
    BY <1>6, NoFrame
  <2>2. \A i \in 1 .. WordLen : w[i] = 0
    BY <1>1, <1>4, <2>1
  <2>3. Torn(w, LenBytes(0))
    BY <2>2 DEF Torn
  <2>4. 0 \in 0 .. Size - 2 * WordLen
    BY ByteAssumption, SizeAssumption
  <2>5. LenValue(w) <= 0 /\ LenValue(w) \in Nat
    BY <1>2, <2>3, <2>4, WordAssumption, ByteAssumption
  <2> QED
    BY <1>1, <1>3, <1>6, <2>5, ByteAssumption, SizeAssumption
<1> QED
  BY <1>5, <1>6

\* receive() and hasData() read within a ring from readPos on.
LEMMA ReadInRing ==
  ASSUME TypeInv, FlowInv, NEW start, NEW text, NEW from, Shape(start, text, from),
         NEW i \in 1 .. 2 * WordLen, i > WordLen => Len(rbytes) >= WordLen
  PROVE  ReadAt(i) \in readPos .. readPos + Size - 1 /\ ReadAt(i) \in Nat
<1>1. readPos \in Nat /\ WordLen \in Nat \ {0} /\ 2 * WordLen <= Size
  BY ByteAssumption DEF TypeInv, TypeOK
<1>2. CASE i <= WordLen
  BY <1>1, <1>2, SizeAssumption DEF ReadAt
<1>3. CASE ~ (i <= WordLen)
  <2>1. receiveSize \in Nat /\ receiveSize + 2 * WordLen <= Size
    BY <1>1, <1>3, LengthRead
  <2> HIDE DEF receiveSize
  <2> QED
    BY <1>1, <1>3, <2>1, SizeAssumption DEF ReadAt
<1> QED
  BY <1>2, <1>3

\* Once a validity word has been read that is right, a whole frame has been
\* delivered, and the length that goes with it is the frame's.
LEMMA Genuine ==
  ASSUME NoPhantom, TypeInv, FlowInv, NEW start, NEW text, NEW from, Shape(start, text, from),
         Scanned, receiveValidity = Validity
  PROVE  NextDelivered /\ receiveSize = Len(NextMsg)
<1>1. WordLen \in Nat \ {0} /\ 2 * WordLen <= Size /\ readPos \in Nat /\ delivered \in Nat
  BY ByteAssumption DEF TypeInv, TypeOK
<1>2. rbytes \in Seq(Byte) /\ Len(rbytes) = 2 * WordLen
  BY DEF TypeInv, TypeOK, Scanned
<1>3. ASSUME NEW i \in 1 .. WordLen
      PROVE  /\ rbytes[WordLen + i] = Validity[i]
             /\ WordLen + i \in 1 .. Len(rbytes)
             /\ ReadAt(WordLen + i) = readPos + (WordLen + receiveSize + i - 1)
  <2>1. Validity = SubSeq(rbytes, WordLen + 1, 2 * WordLen)
    BY DEF receiveValidity
  <2>2. SubSeq(rbytes, WordLen + 1, 2 * WordLen)[i] = rbytes[WordLen + i]
    BY <1>1, <1>2
  <2>3. receiveSize \in Nat
    BY <1>1, <1>2, LengthRead
  <2> HIDE DEF receiveSize
  <2>4. ReadAt(WordLen + i) = readPos + (WordLen + receiveSize + i - 1)
    BY <1>1, <2>3 DEF ReadAt
  <2>5. WordLen + i \in 1 .. Len(rbytes)
    BY <1>1, <1>2
  <2>6. rbytes[WordLen + i] = Validity[i]
    BY <2>1, <2>2, Zenon
  <2> QED
    BY <2>4, <2>5, <2>6
<1>4. ASSUME NEW i \in 1 .. WordLen, Validity[i] # 0
      PROVE  /\ readPos + (WordLen + receiveSize + i - 1) < delivered
             /\ text[readPos + (WordLen + receiveSize + i - 1)] = Validity[i]
  BY <1>3, <1>4 DEF Shape, Scan
<1>5. receiveSize \in Nat
  BY <1>1, <1>2, LengthRead
<1>6. readPos + (WordLen + receiveSize + WordLen - 1) < delivered
  BY <1>1, <1>4, WordAssumption
<1> DEFINE m == receiveSize
           n == Len(NextMsg)
           w == SubSeq(rbytes, 1, WordLen)
<1> HIDE DEF receiveSize
<1>7. Len(received) < Len(sent)
  <2>1. delivered # readPos
    BY <1>1, <1>5, <1>6
  <2> QED
    BY <2>1, NoFrame
<1>8. /\ NextMsg \in Payloads /\ NextMsg \in Seq(Byte) /\ FrameLen(n) <= Size
      /\ \A i \in 0 .. FrameLen(n) - 1 : text[readPos + i] = FrameByte(NextMsg, i)
  BY <1>7, NextFrame
<1>9. w \in Word /\ Torn(w, LenBytes(n)) /\ m <= n
  BY <1>1, <1>2, <1>7, LengthRead
<1>10. m = LenValue(w)
  BY DEF receiveSize
<1>11. n \in Nat
  BY <1>8
<1> HIDE DEF w, n
<1>12. m = n
  <2>1. SUFFICES ASSUME m # n PROVE FALSE
    OBVIOUS
  <2>2. PICK i \in 1 .. WordLen :
          Validity[i] # 0 /\ FrameByte(NextMsg, WordLen + m + i - 1) # Validity[i]
    BY <1>8, <1>9, <1>10, <2>1 DEF NoPhantom, n
  <2>3. WordLen + m + i - 1 \in 0 .. FrameLen(n) - 1
    BY <1>1, <1>5, <1>9, <1>11 DEF FrameLen
  <2>4. text[readPos + (WordLen + m + i - 1)] = FrameByte(NextMsg, WordLen + m + i - 1)
    BY <1>8, <2>3
  <2> QED
    BY <1>4, <2>2, <2>4
<1>13. delivered >= readPos + FrameLen(n)
  BY <1>1, <1>5, <1>6, <1>11, <1>12 DEF FrameLen
<1> QED
  BY <1>7, <1>12, <1>13 DEF NextDelivered, n

\* What lies where a delivered frame's data is expected is the data.
LEMMA DataRead ==
  ASSUME TypeInv, FlowInv, NEW start, NEW text, NEW from, Shape(start, text, from),
         NextDelivered, rpc # "advance"
  PROVE  CopyOut(receiveBuffer, readPos + WordLen, Len(NextMsg)) = NextMsg
<1> DEFINE n == Len(NextMsg)
           d == CopyOut(receiveBuffer, readPos + WordLen, n)
<1>1. /\ WordLen \in Nat \ {0} /\ 2 * WordLen <= Size
      /\ readPos \in Nat /\ delivered \in Nat
  BY ByteAssumption DEF TypeInv, TypeOK
<1>2. /\ NextMsg \in Seq(Byte) /\ FrameLen(n) <= Size /\ delivered >= readPos + FrameLen(n)
      /\ \A i \in 0 .. FrameLen(n) - 1 : text[readPos + i] = FrameByte(NextMsg, i)
  BY NextFrame DEF NextDelivered
<1>3. n \in 0 .. Size /\ n \in Nat
  BY <1>1, <1>2, SizeAssumption DEF FrameLen
<1>4. ASSUME NEW i \in 1 .. n
      PROVE  receiveBuffer[OffsetOf(Slices(readPos + WordLen, n), i - 1)] = NextMsg[i]
  <2> DEFINE p == readPos + WordLen + (i - 1)
  <2>1. i - 1 \in 0 .. n - 1 /\ readPos + WordLen \in Nat
    BY <1>1, <1>3
  <2>2. OffsetOf(Slices(readPos + WordLen, n), i - 1) = Cell(p)
    BY <1>3, <2>1, OffsetIsCell
  <2>3. p \in readPos .. delivered - 1 /\ p = readPos + (WordLen + i - 1)
        /\ WordLen + i - 1 \in 0 .. FrameLen(n) - 1
    BY <1>1, <1>2, <1>3 DEF FrameLen
  <2>4. receiveBuffer[Cell(p)] = text[p]
    BY <2>3 DEF Shape, Rings, Cleared
  <2>5. text[p] = FrameByte(NextMsg, WordLen + i - 1)
    BY <1>2, <2>3
  <2>6. FrameByte(NextMsg, WordLen + i - 1) = NextMsg[i]
    BY <1>1, <1>3 DEF FrameByte
  <2> QED
    BY <2>2, <2>4, <2>5, <2>6
<1>5. d = [i \in 1 .. n |-> receiveBuffer[OffsetOf(Slices(readPos + WordLen, n), i - 1)]]
  BY DEF CopyOut
<1>6. NextMsg = [i \in 1 .. n |-> NextMsg[i]]
  BY <1>2
<1> HIDE DEF n, d
<1> QED
  BY <1>4, <1>5, <1>6 DEF d, n

-----------------------------------------------------------------------------
(* Steps that leave a part of the shape alone.                             *)

LEMMA KeepFrames ==
  ASSUME NEW start, NEW text, Layout(start), Sending(start), Text(start, text),
         UNCHANGED << sent, received, readPos, sendPos, spc, msg, startOfWrite, part >>
  PROVE  Layout(start)' /\ Sending(start)' /\ Text(start, text)'
BY DEF Layout, Sending, Text, PartOffset

LEMMA KeepRings ==
  ASSUME NEW text, Rings(text), UNCHANGED << delivered, readPos, sendPos, sendBuffer, receiveBuffer >>,
         UNCHANGED << rpc, rbytes >> \/ (rpc # "advance" /\ rpc' # "advance")
  PROVE  Rings(text)'
BY DEF Rings, Cleared, receiveSize

LEMMA KeepQueue ==
  ASSUME NEW text, NEW from, Queue(text, from), PostedTo(from),
         UNCHANGED << sq, done, delivered, spc, sendPos, startOfWrite, slice, msg >>
  PROVE  Queue(text, from)' /\ PostedTo(from)'
BY DEF Queue, PostedTo

LEMMA KeepScan ==
  ASSUME NEW text, Scan(text), Ready(text),
         UNCHANGED << rpc, rbytes, readPos, delivered, avail, sent, received >>
  PROVE  Scan(text)' /\ Ready(text)'
BY DEF Scan, Ready, ReadAt, NextDelivered, NextMsg, receiveSize

LEMMA KeepAccepted ==
  ASSUME AcceptedIsComplete, InOrderExactlyOnce,
         UNCHANGED << rpc, rbytes, rdata, readPos, delivered, sent, received >>
  PROVE  AcceptedIsComplete' /\ InOrderExactlyOnce'
BY DEF AcceptedIsComplete, InOrderExactlyOnce, NextDelivered, NextMsg, receiveSize

\* A step that does not change the shape's variables, or only what no part of it is about.
LEMMA KeepShape ==
  ASSUME TypeInv, AcceptedIsComplete, InOrderExactlyOnce, NEW start, NEW text, NEW from, Shape(start, text, from),
         UNCHANGED << sent, received, readPos, sendPos, spc, msg, startOfWrite, part, sq, done,
                      delivered, slice, sendBuffer, receiveBuffer, rpc, rbytes, rdata, avail >>
  PROVE  Shape(start, text, from)' /\ AcceptedIsComplete' /\ InOrderExactlyOnce'
BY KeepFrames, KeepRings, KeepQueue, KeepScan, KeepAccepted DEF Shape

LEMMA ShapeInit ==
  ASSUME Init
  PROVE  /\ AcceptedIsComplete /\ InOrderExactlyOnce
         /\ \E start, text, from : Shape(start, text, from)
<1> DEFINE start == << 0 >>
           text  == [p \in Nat |-> 0]
<1>1. /\ start \in Seq(Nat) /\ Len(start) = 1 /\ start[1] = 0
  OBVIOUS
<1>2. text \in [Nat -> Byte] /\ \A p \in Nat : text[p] = 0
  BY ByteAssumption
<1>3. Len(<< >>) = 0 /\ << >> \in Seq(Seq(Byte))
  OBVIOUS
<1> HIDE DEF start, text
<1>4. Layout(start) /\ Sending(start)
  BY <1>1, <1>3 DEF Init, Layout, Sending
<1>5. Text(start, text)
  BY <1>1, <1>2, <1>3 DEF Init, Text
<1>6. Rings(text)
  <2>1. \A p \in Nat : Cell(p) \in Offsets
    BY CellInRing
  <2> QED
    BY <2>1, SizeAssumption DEF Init, Rings
<1>7. Queue(text, start) /\ PostedTo(start)
  BY <1>1, <1>3 DEF Init, Queue, PostedTo
<1>8. Scan(text) /\ Ready(text)
  BY <1>3 DEF Init, Scan, Ready
<1>9. AcceptedIsComplete /\ InOrderExactlyOnce
  BY <1>3 DEF Init, AcceptedIsComplete, InOrderExactlyOnce
<1> QED
  BY <1>4, <1>5, <1>6, <1>7, <1>8, <1>9 DEF Shape

-----------------------------------------------------------------------------
(* The steps of the sender.                                                *)

\* What a message that is appended to the sent ones does to the next one to receive.
LEMMA SentGrows ==
  ASSUME TypeInv, AcceptedIsComplete, InOrderExactlyOnce, NEW d \in Seq(Byte),
         received \in Seq(Seq(Byte)), sent' = Append(sent, d),
         UNCHANGED << rpc, rbytes, rdata, readPos, delivered, received >>
  PROVE  /\ NextDelivered => NextDelivered'
         /\ AcceptedIsComplete' /\ InOrderExactlyOnce'
<1>1. sent \in Seq(Seq(Byte)) /\ received \in Seq(Seq(Byte))
  BY DEF TypeInv, TypeOK
<1>2. /\ Len(sent') = Len(sent) + 1 /\ \A k \in 1 .. Len(sent) : sent'[k] = sent[k]
  BY <1>1
<1>3. Len(received) < Len(sent) => NextMsg' = NextMsg /\ Len(received) < Len(sent')
  BY <1>1, <1>2 DEF NextMsg
<1>4. NextDelivered => NextDelivered' /\ NextMsg' = NextMsg
  BY <1>3 DEF NextDelivered
<1>5. AcceptedIsComplete'
  BY <1>4 DEF AcceptedIsComplete, receiveSize
<1>6. InOrderExactlyOnce'
  BY <1>1, <1>2 DEF InOrderExactlyOnce
<1> QED
  BY <1>4, <1>5, <1>6

\* send() begins: its frame is the next of the stream.
LEMMA SendStep ==
  ASSUME TypeInv, FlowInv, AcceptedIsComplete, InOrderExactlyOnce,
         NEW start, NEW text, NEW from, Shape(start, text, from),
         NEW d \in Payloads, NEW inl \in BOOLEAN, Send(d, inl)
  PROVE  /\ AcceptedIsComplete' /\ InOrderExactlyOnce'
         /\ \E start2, text2, from2 : Shape(start2, text2, from2)'
<1> DEFINE n  == FrameLen(Len(d))
<1>a. PICK L : L = Len(sent)
  OBVIOUS
<1>b. PICK start2 : start2 = Append(start, sendPos + n)
  OBVIOUS
<1>c. PICK text2 : text2 = [p \in Nat |-> IF sendPos <= p /\ p < sendPos + n
                                          THEN FrameByte(d, p - sendPos) ELSE text[p]]
  OBVIOUS
<1>1. /\ spc = "idle" /\ n <= Size /\ sent' = Append(sent, d)
      /\ spc' = "write" /\ part' = "header" /\ msg' = d /\ startOfWrite' = sendPos
      /\ UNCHANGED << slice, sendPos, sendBuffer, sq, done, resp, cq, outstanding,
                      currentRemoteReceive, delivered, rpc, rop, rcap, rbytes, rdata, readPos,
                      received, avail, receiveBuffer >>
  BY DEF Send, nicVars, recvVars
<1>2. d \in Seq(Byte) /\ n \in Nat
  BY ParameterAssumption, FrameLenType
<1> HIDE DEF n
<1>3. sent \in Seq(Seq(Byte)) /\ L \in Nat /\ received \in Seq(Seq(Byte))
  BY <1>a DEF TypeInv, TypeOK, Shape, Layout
<1>4. /\ Len(sent') = L + 1 /\ sent'[L + 1] = d /\ \A k \in 1 .. L : sent'[k] = sent[k]
      /\ sent' \in Seq(Seq(Byte))
  BY <1>1, <1>2, <1>3, <1>a
<1>5. /\ readPos \in Nat /\ delivered \in Nat /\ sendPos \in Nat /\ readPos <= delivered
      /\ delivered <= from[Len(sq) + 1] /\ from[Len(sq) + 1] <= sendPos
      /\ from[Len(sq) + 1] \in Nat /\ sendPos <= readPos + Size
  BY Bounds
<1>6. /\ start \in Seq(Nat) /\ Len(start) = L + 1 /\ start[L + 1] = sendPos
      /\ \A j, k \in 1 .. Len(start) : j < k => start[j] + FrameLen(Len(sent[j])) <= start[k]
  BY <1>1, <1>a DEF Shape, Layout, Sending
<1>7. /\ start2 \in Seq(Nat) /\ Len(start2) = L + 2 /\ start2[L + 2] = sendPos + n
      /\ \A k \in 1 .. L + 1 : start2[k] = start[k] /\ start[k] \in Nat
  <2>1. sendPos + n \in Nat
    BY <1>2, <1>5
  <2>2. start \in Seq(Nat) /\ Len(start) = L + 1
    BY <1>6
  <2>3. /\ start2 \in Seq(Nat) /\ Len(start2) = Len(start) + 1 /\ start2[Len(start) + 1] = sendPos + n
        /\ \A k \in 1 .. Len(start) : start2[k] = start[k]
    BY <2>1, <2>2, <1>b, AppendProperties
  <2>4. \A k \in 1 .. L + 1 : start[k] \in Nat
    BY <2>2
  <2> QED
    BY <1>3, <2>2, <2>3, <2>4
<1>8. /\ text \in [Nat -> Byte] /\ text2 \in [Nat -> Byte]
      /\ \A p \in Nat : p < sendPos => text2[p] = text[p]
      /\ \A i \in 0 .. n - 1 : text2[sendPos + i] = FrameByte(d, i)
  <2>1. text \in [Nat -> Byte]
    BY DEF Shape, Text
  <2>2. ASSUME NEW p \in Nat, sendPos <= p /\ p < sendPos + n
        PROVE  FrameByte(d, p - sendPos) \in Byte
    <3>1. p - sendPos \in 0 .. n - 1
      BY <1>2, <1>5, <2>2
    <3> QED
      BY <1>1, <1>2, <3>1, FrameByteType DEF n
  <2>3. text2 \in [Nat -> Byte]
    BY <1>c, <2>1, <2>2
  <2>4. ASSUME NEW i \in 0 .. n - 1
        PROVE  text2[sendPos + i] = FrameByte(d, i)
    <3>1. sendPos + i \in Nat /\ sendPos <= sendPos + i /\ sendPos + i < sendPos + n
          /\ (sendPos + i) - sendPos = i
      BY <1>2, <1>5
    <3> QED
      BY <1>c, <3>1
  <2>5. ASSUME NEW p \in Nat, p < sendPos
        PROVE  text2[p] = text[p]
    <3>1. ~ (sendPos <= p)
      BY <1>5, <2>5
    <3> QED
      BY <1>c, <3>1
  <2> QED
    BY <2>1, <2>3, <2>4, <2>5
<1>9. Layout(start2)'
  <2>1. ASSUME NEW j \in 1 .. Len(start2), NEW k \in 1 .. Len(start2), j < k
        PROVE  start2[j] + FrameLen(Len(sent'[j])) <= start2[k]
    <3>0. j \in 1 .. L + 1
      BY <1>3, <1>7, <2>1
    <3>1. CASE k \in 1 .. L + 1
      <4>1. j \in 1 .. L
        BY <1>3, <2>1, <3>1
      <4> QED
        BY <1>4, <1>6, <1>7, <2>1, <3>0, <3>1, <4>1
    <3>2. CASE k = L + 2 /\ j = L + 1
      BY <1>4, <1>6, <1>7, <3>0, <3>2 DEF n
    <3>3. CASE k = L + 2 /\ j \in 1 .. L
      <4>1. j \in 1 .. Len(sent) /\ Layout(start)
        BY <1>a, <3>3 DEF Shape
      <4>2. /\ start[j] + FrameLen(Len(sent[j])) <= sendPos
            /\ FrameLen(Len(sent[j])) \in Nat
        BY <1>6, <1>a, <4>1, FramePositions
      <4> QED
        BY <1>2, <1>4, <1>5, <1>7, <3>0, <3>3, <4>2, SMTT(30)
    <3> QED
      BY <1>3, <1>7, <3>0, <3>1, <3>2, <3>3
  <2>2. ASSUME NEW k \in 1 .. L + 1
        PROVE  /\ sent'[k] \in Payloads /\ FrameLen(Len(sent'[k])) <= Size
               /\ start2[k + 1] = start2[k] + FrameLen(Len(sent'[k]))
    <3>1. CASE k \in 1 .. L
      <4>1. /\ sent[k] \in Payloads /\ FrameLen(Len(sent[k])) <= Size
            /\ start[k + 1] = start[k] + FrameLen(Len(sent[k]))
        BY <1>a, <3>1 DEF Shape, Layout
      <4>2. k \in 1 .. L + 1 /\ k + 1 \in 1 .. L + 1
        BY <1>3, <3>1
      <4> QED
        BY <1>4, <1>7, <3>1, <4>1, <4>2
    <3>2. CASE k = L + 1
      BY <1>1, <1>3, <1>4, <1>6, <1>7, <3>2 DEF n
    <3> QED
      BY <1>3, <3>1, <3>2
  <2>3. Len(received) <= Len(sent) /\ start[Len(received) + 1] = readPos
    BY DEF Shape, Layout
  <2>4. Len(received) <= L + 1 /\ start2[Len(received) + 1] = readPos
    <3>1. Len(received) \in Nat /\ Len(received) + 1 \in 1 .. L + 1 /\ L + 1 \in Nat
      BY <1>3, <1>a, <2>3
    <3> QED
      BY <1>3, <1>7, <2>3, <3>1
  <2>5. UNCHANGED << received, readPos >>
    BY <1>1
  <2>6. Len(start2) = Len(sent') + 1 /\ Len(received) <= Len(sent')
    BY <1>3, <1>4, <1>7, <2>4
  <2> QED
    BY <1>3, <1>4, <1>7, <2>1, <2>2, <2>4, <2>5, <2>6 DEF Layout
<1>10. Sending(start2)'
  BY <1>1, <1>2, <1>3, <1>4, <1>5, <1>6, <1>7, SMTT(30) DEF Sending, PartOffset
<1>11. Text(start2, text2)'
  <2>1. ASSUME NEW k \in 1 .. L + 1, NEW i \in 0 .. FrameLen(Len(sent'[k])) - 1
        PROVE  text2[start2[k] + i] = FrameByte(sent'[k], i)
    <3>1. CASE k \in 1 .. L
      <4>1. k \in 1 .. Len(sent) /\ Layout(start)
        BY <1>a, <3>1 DEF Shape
      <4>4. i \in 0 .. FrameLen(Len(sent[k])) - 1
        BY <1>4, <3>1
      <4>5. start[k] + i \in Nat /\ start[k] + i < sendPos
        BY <1>6, <1>a, <4>1, <4>4, FramePositions
      <4>6. text[start[k] + i] = FrameByte(sent[k], i)
        BY <1>a, <3>1, <4>4 DEF Shape, Text
      <4> QED
        BY <1>4, <1>7, <1>8, <3>1, <4>5, <4>6
    <3>2. CASE k = L + 1
      <4>1. start2[k] = sendPos /\ sent'[k] = d
        BY <1>3, <1>4, <1>6, <1>7, <3>2
      <4> QED
        BY <1>8, <4>1 DEF n
    <3> QED
      BY <1>3, <3>1, <3>2
  <2> QED
    BY <1>4, <1>8, <2>1 DEF Text
<1>12. Rings(text2)'
  <2>1. \A p \in delivered .. sendPos - 1 : text2[p] = text[p]
    BY <1>5, <1>8
  <2>2. \A p \in readPos .. delivered - 1 : text2[p] = text[p]
    BY <1>5, <1>8
  <2> QED
    BY <1>1, <2>1, <2>2 DEF Shape, Rings, Cleared, receiveSize
<1>13. Queue(text2, from)'
  <2>1. /\ from \in Seq(Nat) /\ Len(from) = Len(sq) + 1 /\ sq \in Seq(WorkRequest)
        /\ \A j, k \in 1 .. Len(from) : j <= k => from[j] <= from[k]
    BY DEF Shape, Queue, TypeInv, TypeOK
  <2>2. ASSUME NEW k \in 1 .. Len(sq), NEW i \in 0 .. SliceLen(sq[k]) - 1
        PROVE  text2[from[k] + i] = text[from[k] + i]
    <3>1. Queue(text, from)
      BY DEF Shape
    <3>2. from[k] + i \in Nat /\ from[k] + i < from[Len(sq) + 1]
      BY <3>1, QueuePositions
    <3>3. from[k] + i < sendPos
      BY <1>5, <3>2
    <3> QED
      BY <1>8, <3>2, <3>3
  <2>3. /\ from[1] + done = delivered
        /\ \A k \in 1 .. Len(sq) :
             /\ from[k + 1] = from[k] + SliceLen(sq[k])
             /\ sq[k].op = "read" => SliceLen(sq[k]) = 0
             /\ sq[k].op = "write" => sq[k].begin = Cell(from[k])
             /\ sq[k].op = "write" /\ sq[k].inln =>
                  \A i \in 0 .. SliceLen(sq[k]) - 1 : sq[k].bytes[i + 1] = text2[from[k] + i]
    <3> SUFFICES ASSUME NEW k \in 1 .. Len(sq)
                 PROVE  /\ from[1] + done = delivered
                        /\ from[k + 1] = from[k] + SliceLen(sq[k])
                        /\ sq[k].op = "read" => SliceLen(sq[k]) = 0
                        /\ sq[k].op = "write" => sq[k].begin = Cell(from[k])
                        /\ sq[k].op = "write" /\ sq[k].inln =>
                             \A i \in 0 .. SliceLen(sq[k]) - 1 : sq[k].bytes[i + 1] = text2[from[k] + i]
      BY DEF Shape, Queue
    <3>1. /\ from[1] + done = delivered
          /\ from[k + 1] = from[k] + SliceLen(sq[k])
          /\ sq[k].op = "read" => SliceLen(sq[k]) = 0
          /\ sq[k].op = "write" => sq[k].begin = Cell(from[k])
          /\ sq[k].op = "write" /\ sq[k].inln =>
               \A i \in 0 .. SliceLen(sq[k]) - 1 : sq[k].bytes[i + 1] = text[from[k] + i]
      BY DEF Shape, Queue
    <3> QED
      BY <2>2, <3>1
  <2>4. UNCHANGED << sq, done, delivered, sendPos >>
    BY <1>1
  <2> QED
    BY <1>5, <2>1, <2>3, <2>4 DEF Queue
<1>14. PostedTo(from)'
  BY <1>1 DEF Shape, PostedTo
<1>15. \A i \in 1 .. Len(rbytes) : ReadAt(i) < delivered => text2[ReadAt(i)] = text[ReadAt(i)]
  <2> SUFFICES ASSUME NEW i \in 1 .. Len(rbytes), ReadAt(i) < delivered
               PROVE  text2[ReadAt(i)] = text[ReadAt(i)]
    OBVIOUS
  <2>1. rbytes \in Seq(Byte) /\ Len(rbytes) <= 2 * WordLen
    BY DEF TypeInv, TypeOK
  <2>2. i \in 1 .. 2 * WordLen /\ (i > WordLen => Len(rbytes) >= WordLen)
    BY <2>1, ByteAssumption
  <2>3. ReadAt(i) \in Nat
    BY <2>2, ReadInRing
  <2> QED
    BY <1>5, <1>8, <2>3
<1>16. Scan(text2)' /\ Ready(text2)'
  <2>1. \A i : ReadAt(i)' = ReadAt(i)
    BY <1>1 DEF ReadAt, receiveSize
  <2>2. NextDelivered => NextDelivered'
    BY <1>1, <1>2, <1>3, SentGrows
  <2>3. Scan(text2)'
    BY <1>1, <1>15, <2>1 DEF Shape, Scan
  <2>4. Ready(text2)'
    BY <1>1, <1>15, <2>1, <2>2 DEF Shape, Ready
  <2> QED
    BY <2>3, <2>4
<1>17. AcceptedIsComplete' /\ InOrderExactlyOnce'
  BY <1>1, <1>2, <1>3, SentGrows
<1>18. Shape(start2, text2, from)'
  BY <1>9, <1>10, <1>11, <1>12, <1>13, <1>14, <1>16 DEF Shape
<1> QED
  BY <1>17, <1>18

\* The positions that a part of a frame fills are a ring ahead of ones the receiver
\* has given back: the bytes that are still to be delivered keep their cells.
LEMMA CellRepeats ==
  ASSUME NEW p \in Nat
  PROVE  Cell(p + Size) = Cell(p)
<1>1. /\ p \div Size \in Nat /\ Cell(p) \in 0 .. Size - 1
      /\ p = Size * (p \div Size) + Cell(p)
  BY CellDecomposes
<1> DEFINE k == p \div Size
           r == Cell(p)
<1>2. k \in Nat /\ r \in 0 .. Size - 1 /\ p = Size * k + r
  BY <1>1
<1> HIDE DEF k, r
<1>3. k + 1 \in Nat /\ p + Size = Size * (k + 1) + r
  BY <1>2, SizeAssumption
<1>4. Cell(Size * (k + 1) + r) = r
  BY <1>2, <1>3, CellIsRest
<1> QED
  BY <1>3, <1>4 DEF r

LEMMA WriteKeeps ==
  ASSUME TypeInv, FlowInv, WritePart, NEW p \in readPos .. sendPos - 1
  PROVE  sendBuffer'[Cell(p)] = sendBuffer[Cell(p)]
<1> DEFINE bytes == PartBytes(part, msg)
<1>1. /\ readPos \in Nat /\ sendPos \in Nat /\ currentRemoteReceive \in Nat
      /\ currentRemoteReceive <= readPos
  BY DEF TypeInv, TypeOK, FlowInv
<1>2. bytes \in Seq(Byte) /\ Len(bytes) <= Size
  BY PartBytesType DEF TypeInv, TypeOK, FrameFits
<1>3. /\ Len(bytes) <= Size - (sendPos - currentRemoteReceive)
      /\ sendBuffer' = CopyIn(sendBuffer, sendPos, bytes)
  BY DEF WritePart, SafeToWrite
<1> HIDE DEF bytes
<1>4. Len(bytes) \in 0 .. Size
  BY <1>2, SizeAssumption
<1>5. p \in Nat /\ p + Size \in sendPos .. sendPos + Size - 1 /\ ~ (p + Size < sendPos + Len(bytes))
  BY <1>1, <1>3, <1>4, SizeAssumption
<1>6. Cell(p + Size) = Cell(p)
  BY <1>5, CellRepeats
<1>7. CopyIn(sendBuffer, sendPos, bytes)[Cell(p + Size)] = sendBuffer[Cell(p + Size)]
  BY <1>1, <1>4, <1>5, CopyInCells
<1> QED
  BY <1>3, <1>6, <1>7

\* writeToSendBuffer puts the next part of the last frame's text into the ring.
LEMMA WriteStep ==
  ASSUME TypeInv, FlowInv, AcceptedIsComplete, InOrderExactlyOnce,
         NEW start, NEW text, NEW from, Shape(start, text, from), WritePart
  PROVE  /\ AcceptedIsComplete' /\ InOrderExactlyOnce'
         /\ Shape(start, text, from)'
<1> DEFINE bytes == PartBytes(part, msg)
           n     == Len(bytes)
<1>1. /\ spc = "write" /\ n <= Size - (sendPos - currentRemoteReceive)
      /\ sendBuffer' = CopyIn(sendBuffer, sendPos, bytes) /\ sendPos' = sendPos + n
      /\ \/ part = "header" /\ part' = "data"   /\ spc' = "write"
         \/ part = "data"   /\ part' = "footer" /\ spc' = "write"
         \/ part = "footer" /\ part' = "header" /\ spc' = "post"
  BY DEF WritePart, SafeToWrite
<1>2. UNCHANGED << msg, inln, startOfWrite, slice, sent, sq, done, resp, cq, outstanding,
                   currentRemoteReceive, delivered, rpc, rop, rcap, rbytes, rdata, readPos,
                   received, avail, receiveBuffer >>
  BY DEF WritePart, nicVars, recvVars
<1>3. bytes \in Seq(Byte) /\ n \in 0 .. Size
  <2>1. bytes \in Seq(Byte) /\ n <= Size
    BY PartBytesType DEF TypeInv, TypeOK, FrameFits
  <2> QED
    BY <2>1, SizeAssumption
<1>4. /\ readPos \in Nat /\ delivered \in Nat /\ sendPos \in Nat /\ startOfWrite \in Nat
      /\ readPos <= delivered /\ delivered <= sendPos
  <2>1. /\ readPos \in Nat /\ delivered \in Nat /\ sendPos \in Nat /\ from[Len(sq) + 1] \in Nat
        /\ readPos <= delivered /\ delivered <= from[Len(sq) + 1] /\ from[Len(sq) + 1] <= sendPos
    BY Bounds
  <2>2. delivered <= sendPos
    BY <2>1
  <2>3. startOfWrite \in Nat
    BY DEF TypeInv, TypeOK
  <2> QED
    BY <2>1, <2>2, <2>3
<1>5. /\ Len(sent) \in Nat \ {0} /\ msg = sent[Len(sent)] /\ startOfWrite = start[Len(sent)]
      /\ sendPos = startOfWrite + PartOffset
  BY <1>1 DEF Shape, Sending
<1>6. /\ Len(msg) \in Nat /\ FrameLen(Len(msg)) \in Nat
      /\ start[Len(sent) + 1] = startOfWrite + FrameLen(Len(msg))
      /\ \A i \in 0 .. FrameLen(Len(msg)) - 1 :
           text[startOfWrite + i] = FrameByte(msg, i)
  <2>1. Len(sent) \in 1 .. Len(sent) /\ Layout(start)
    BY <1>5 DEF Shape
  <2>2. sent[Len(sent)] \in Seq(Byte) /\ FrameLen(Len(msg)) \in Nat
        /\ start[Len(sent) + 1] = startOfWrite + FrameLen(Len(msg))
    BY <1>5, <2>1, FramePositions
  <2>3. \A i \in 0 .. FrameLen(Len(msg)) - 1 : text[startOfWrite + i] = FrameByte(msg, i)
    BY <1>5, <2>1 DEF Shape, Text
  <2> QED
    BY <1>5, <2>2, <2>3
<1>7. /\ spc' = "write" => PartOffset' = PartOffset + n
      /\ spc' = "post"  => FrameLen(Len(msg)) = PartOffset + n
      /\ PartOffset + n <= FrameLen(Len(msg)) /\ PartOffset \in Nat
  <2>1. /\ Len(LenBytes(Len(msg))) = WordLen /\ Len(Validity) = WordLen
    BY FrameWords DEF TypeInv, TypeOK, FrameFits
  <2>2. WordLen \in Nat /\ Len(msg) \in Nat
    BY <1>6, ByteAssumption
  <2> QED
    BY <1>1, <1>2, <2>1, <2>2 DEF PartOffset, PartBytes, FrameLen
<1>8. Layout(start)' /\ Text(start, text)'
  <2>1. UNCHANGED << sent, received, readPos >>
    BY <1>2
  <2> QED
    BY <2>1 DEF Shape, Layout, Text
<1>9. Sending(start)'
  <2> HIDE DEF n
  <2>1. n \in Nat /\ sendPos' = startOfWrite + (PartOffset + n)
    BY <1>1, <1>3, <1>4, <1>5, <1>7
  <2>2. UNCHANGED << sent, msg, startOfWrite >> /\ spc' \in {"write", "post"}
    BY <1>1, <1>2
  <2>3. sendPos' <= start[Len(sent) + 1]
    BY <1>4, <1>6, <1>7, <2>1
  <2>4. spc' = "post" => sendPos' = start[Len(sent) + 1]
    BY <1>6, <1>7, <2>1
  <2>5. spc' = "write" => sendPos' = startOfWrite + PartOffset'
    BY <1>7, <2>1
  <2> QED
    BY <1>5, <2>2, <2>3, <2>4, <2>5 DEF Sending
<1>10. Rings(text)'
  <2>1. ASSUME NEW p \in delivered .. sendPos' - 1
        PROVE  sendBuffer'[Cell(p)] = text[p]
    <3>1. CASE p < sendPos
      <4>1. p \in readPos .. sendPos - 1 /\ p \in delivered .. sendPos - 1
        BY <1>4, <2>1, <3>1
      <4>2. sendBuffer'[Cell(p)] = sendBuffer[Cell(p)]
        BY <4>1, WriteKeeps
      <4>3. sendBuffer[Cell(p)] = text[p]
        BY <4>1 DEF Shape, Rings
      <4> QED
        BY <4>2, <4>3
    <3>2. CASE ~ (p < sendPos)
      <4> DEFINE j == p - sendPos
      <4> HIDE DEF bytes
      <4>1. /\ j \in 0 .. n - 1 /\ p < sendPos + n /\ p \in sendPos .. sendPos + Size - 1
            /\ p = sendPos + j
        BY <1>1, <1>3, <1>4, <2>1, <3>2, SizeAssumption
      <4>2. sendBuffer'[Cell(p)] = bytes[j + 1]
        BY <1>1, <1>3, <1>4, <4>1, CopyInCells
      <4>3. PartOffset + j \in 0 .. FrameLen(Len(msg)) - 1 /\ bytes[j + 1] = FrameByte(msg, PartOffset + j)
        BY <4>1, PartsMakeFrame DEF bytes
      <4>4. p = startOfWrite + (PartOffset + j)
        <5>1. j \in Nat /\ PartOffset \in Nat /\ sendPos = startOfWrite + PartOffset /\ p = sendPos + j
          BY <1>3, <1>5, <1>7, <4>1
        <5> HIDE DEF j
        <5> QED
          BY <1>4, <5>1
      <4> QED
        BY <1>6, <4>2, <4>3, <4>4
    <3> QED
      BY <3>1, <3>2
  <2>2. UNCHANGED << delivered, readPos, receiveBuffer, rpc, rbytes >>
    BY <1>2
  <2> QED
    BY <2>1, <2>2 DEF Shape, Rings, Cleared, receiveSize
<1>11. Queue(text, from)'
  <2>1. from[Len(sq) + 1] \in Nat /\ from[Len(sq) + 1] <= sendPos + n
    <3>1. from[Len(sq) + 1] \in Nat /\ from[Len(sq) + 1] <= sendPos
      BY Bounds
    <3> HIDE DEF n
    <3> QED
      BY <1>3, <1>4, <3>1
  <2>2. UNCHANGED << sq, done, delivered >> /\ sendPos' = sendPos + n
    BY <1>1, <1>2
  <2> HIDE DEF n
  <2> QED
    BY <2>1, <2>2 DEF Shape, Queue
<1>12. PostedTo(from)'
  <2>1. slice = 1
    BY <1>1 DEF TypeInv, FrameFits
  <2>2. Slices(startOfWrite, FrameLen(Len(msg)))[1].prev = 0
    BY <1>4, <1>6, SlicesCut DEF Slice, TypeInv, FrameFits
  <2>3. UNCHANGED << sq, startOfWrite, slice, msg >> /\ spc' \in {"write", "post"}
    BY <1>1, <1>2
  <2>4. from[Len(sq) + 1] = startOfWrite
    BY <1>1 DEF Shape, PostedTo
  <2> QED
    BY <1>4, <2>1, <2>2, <2>3, <2>4 DEF PostedTo
<1>13. Scan(text)' /\ Ready(text)'
  BY <1>2, KeepScan DEF Shape
<1>14. AcceptedIsComplete' /\ InOrderExactlyOnce'
  BY <1>2, KeepAccepted
<1> QED
  BY <1>8, <1>9, <1>10, <1>11, <1>12, <1>13, <1>14 DEF Shape

\* The slices of a frame follow each other, each from its position's cell on.
LEMMA SliceChain ==
  ASSUME NEW pos \in Nat, NEW n \in 1 .. Size, NEW k \in 1 .. Len(Slices(pos, n))
  PROVE  LET sl == Slices(pos, n)
         IN  /\ sl[1].prev = 0 /\ sl[k].prev \in Nat /\ SliceLen(sl[k]) \in Nat
             /\ sl[k].begin = Cell(pos + sl[k].prev)
             /\ sl[k].prev + SliceLen(sl[k]) <= n
             /\ k = Len(sl)  => sl[k].prev + SliceLen(sl[k]) = n
             /\ k # Len(sl) => /\ k + 1 \in 1 .. Len(sl)
                               /\ sl[k + 1].prev = sl[k].prev + SliceLen(sl[k])
<1> DEFINE b == Cell(pos)
<1>1. b \in 0 .. Size - 1 /\ n \in 0 .. Size
  BY CellDecomposes, SizeAssumption
<1>2. CASE b + n <= Size
  <2>1. Slices(pos, n) = << Slice(0, b, b + n) >>
    BY <1>1, <1>2, SlicesCut, SizeAssumption
  <2>2. Cell(pos + 0) = b
    OBVIOUS
  <2> HIDE DEF b
  <2> QED
    BY <1>1, <1>2, <2>1, <2>2, SizeAssumption DEF SliceLen, Slice
<1>3. CASE b + n > Size
  <2>1. Slices(pos, n) = << Slice(0, b, Size), Slice(Size - b, 0, n - (Size - b)) >>
    BY <1>1, <1>3, SlicesCut, SizeAssumption
  <2>2. Cell(pos + 0) = b
    OBVIOUS
  <2>3. Size - b \in 0 .. Size - 1
    BY <1>1, <1>3, SizeAssumption
  <2>4. Cell(pos + (Size - b)) = 0
    <3>1. Cell(pos + (Size - b)) = IF b + (Size - b) < Size THEN b + (Size - b)
                                   ELSE b + (Size - b) - Size
      BY <2>3, CellAhead
    <3> HIDE DEF b
    <3> QED
      BY <1>1, <3>1, SizeAssumption
  <2> HIDE DEF b
  <2>5. k = 1 \/ k = 2
    BY <2>1
  <2>6. CASE k = 1
    BY <1>1, <1>3, <2>1, <2>2, <2>6, SizeAssumption DEF SliceLen, Slice
  <2>7. CASE k = 2
    BY <1>1, <1>3, <2>1, <2>4, <2>7, SizeAssumption DEF SliceLen, Slice
  <2> QED
    BY <2>5, <2>6, <2>7
<1> QED
  BY <1>1, <1>2, <1>3, SizeAssumption

\* A request that the queue takes continues the stream where the last one ended.
LEMMA PostExtends ==
  ASSUME TypeInv, FlowInv, NEW start, NEW text, NEW from, Shape(start, text, from),
         NEW wr \in WorkRequest, NEW last \in Nat, last = from[Len(sq) + 1],
         wr.begin <= wr.end, last + SliceLen(wr) <= sendPos,
         wr.op = "read" => SliceLen(wr) = 0,
         wr.op = "write" => wr.begin = Cell(last),
         sq' = Append(sq, Posted(wr)), UNCHANGED << done, delivered, sendPos >>
  PROVE  \E from2 : /\ Queue(text, from2)'
                    /\ Len(sq') = Len(sq) + 1 /\ from2[Len(sq') + 1] = last + SliceLen(wr)
<1>a. PICK from2 : from2 = Append(from, last + SliceLen(wr))
  OBVIOUS
<1>b. PICK L : L = Len(sq)
  OBVIOUS
<1>1. sq \in Seq(WorkRequest) /\ L \in Nat
  BY <1>b DEF TypeInv, TypeOK
<1>2. wr.begin \in 0 .. Size /\ wr.end \in 0 .. Size
  BY DEF WorkRequest
<1>3. SliceLen(wr) \in Nat
  BY <1>2, SizeAssumption DEF SliceLen
<1>4. /\ readPos \in Nat /\ delivered \in Nat /\ sendPos \in Nat /\ delivered <= last
  BY Bounds
<1> DEFINE pw == Posted(wr)
<1>5. /\ pw \in WorkRequest /\ pw.op = wr.op /\ pw.begin = wr.begin /\ pw.end = wr.end
      /\ SliceLen(pw) = SliceLen(wr)
  BY PostedType DEF TypeInv, SliceLen
<1>6. /\ Len(sq') = L + 1 /\ sq'[L + 1] = pw /\ \A k \in 1 .. L : sq'[k] = sq[k]
  BY <1>1, <1>5, <1>b
<1>7. /\ from \in Seq(Nat) /\ Len(from) = L + 1 /\ from[1] + done = delivered
      /\ \A j, k \in 1 .. Len(from) : j <= k => from[j] <= from[k]
      /\ from[L + 1] = last
  BY <1>b DEF Shape, Queue
<1>8. /\ from2 \in Seq(Nat) /\ Len(from2) = L + 2 /\ from2[L + 2] = last + SliceLen(wr)
      /\ \A k \in 1 .. L + 1 : from2[k] = from[k] /\ from[k] \in Nat
  BY <1>1, <1>3, <1>7, <1>a, SMTT(30)
<1>9. wr.op = "write" /\ pw.inln =>
        \A i \in 0 .. SliceLen(wr) - 1 : pw.bytes[i + 1] = text[last + i]
  <2> SUFFICES ASSUME wr.op = "write", pw.inln, NEW i \in 0 .. SliceLen(wr) - 1
               PROVE  pw.bytes[i + 1] = text[last + i]
    OBVIOUS
  <2>1. pw = [wr EXCEPT !.bytes =
                [j \in 1 .. wr.end - wr.begin |-> sendBuffer[wr.begin + j - 1]]]
    BY DEF Posted
  <2>2. pw.bytes = [j \in 1 .. wr.end - wr.begin |-> sendBuffer[wr.begin + j - 1]]
    BY <2>1 DEF WorkRequest
  <2>3. i + 1 \in 1 .. wr.end - wr.begin /\ wr.begin + (i + 1) - 1 = wr.begin + i
    BY <1>2, SizeAssumption DEF SliceLen
  <2>4. pw.bytes[i + 1] = sendBuffer[wr.begin + i]
    BY <2>2, <2>3
  <2> HIDE DEF pw
  <2>5. wr.begin = Cell(last) /\ i \in 0 .. Size - 1 /\ wr.begin + i < Size
    BY <1>2, SizeAssumption DEF SliceLen
  <2>6. Cell(last + i) = wr.begin + i
    BY <2>5, CellAhead
  <2>7. last + i \in delivered .. sendPos - 1
    <3>1. i \in Nat /\ i < SliceLen(wr)
      BY <1>3
    <3> HIDE DEF SliceLen
    <3> QED
      BY <1>3, <1>4, <3>1
  <2>8. sendBuffer[Cell(last + i)] = text[last + i]
    BY <2>7 DEF Shape, Rings
  <2> QED
    BY <2>4, <2>6, <2>8
<1> HIDE DEF pw
<1>10. \A j, k \in 1 .. Len(from2) : j <= k => from2[j] <= from2[k]
  <2> SUFFICES ASSUME NEW j \in 1 .. L + 2, NEW k \in 1 .. L + 2, j <= k
               PROVE  from2[j] <= from2[k]
    BY <1>8
  <2>1. CASE k \in 1 .. L + 1
    <3>1. j \in 1 .. L + 1
      BY <1>1, <2>1
    <3> QED
      BY <1>7, <1>8, <2>1, <3>1
  <2>2. CASE k = L + 2 /\ j \in 1 .. L + 1
    <3>1. L + 1 \in 1 .. Len(from) /\ j <= L + 1 /\ j \in 1 .. Len(from)
      BY <1>1, <1>7, <2>2
    <3>2. from[j] <= last /\ from[j] \in Nat
      BY <1>7, <1>8, <2>2, <3>1
    <3> QED
      BY <1>3, <1>8, <2>2, <3>2
  <2>3. CASE k = L + 2 /\ j = L + 2
    BY <1>3, <1>8, <2>3
  <2> QED
    BY <1>1, <2>1, <2>2, <2>3
<1>11. ASSUME NEW k \in 1 .. L + 1
       PROVE  /\ from2[k + 1] = from2[k] + SliceLen(sq'[k])
              /\ sq'[k].op = "read" => SliceLen(sq'[k]) = 0
              /\ sq'[k].op = "write" => sq'[k].begin = Cell(from2[k])
              /\ sq'[k].op = "write" /\ sq'[k].inln =>
                   \A i \in 0 .. SliceLen(sq'[k]) - 1 : sq'[k].bytes[i + 1] = text[from2[k] + i]
  <2>1. CASE k \in 1 .. L
    <3>1. /\ from[k + 1] = from[k] + SliceLen(sq[k])
          /\ sq[k].op = "read" => SliceLen(sq[k]) = 0
          /\ sq[k].op = "write" => sq[k].begin = Cell(from[k])
          /\ sq[k].op = "write" /\ sq[k].inln =>
               \A i \in 0 .. SliceLen(sq[k]) - 1 : sq[k].bytes[i + 1] = text[from[k] + i]
      BY <1>b, <2>1 DEF Shape, Queue
    <3>2. k \in 1 .. L + 1 /\ k + 1 \in 1 .. L + 1
      BY <1>1, <2>1
    <3>3. sq'[k] = sq[k] /\ from2[k] = from[k] /\ from2[k + 1] = from[k + 1]
      BY <1>6, <1>8, <2>1, <3>2
    <3> QED
      BY <3>1, <3>3
  <2>2. CASE k = L + 1
    <3>1. sq'[k] = pw /\ from2[k] = last /\ from2[k + 1] = last + SliceLen(wr)
      <4>1. k + 1 = L + 2 /\ L + 1 \in 1 .. L + 1
        BY <1>1, <2>2
      <4> QED
        BY <1>6, <1>7, <1>8, <2>2, <4>1
    <3> QED
      BY <1>5, <1>9, <3>1
  <2>3. k \in 1 .. L \/ k = L + 1
    BY <1>1
  <2> QED
    BY <2>1, <2>2, <2>3, Zenon
<1>12. from2[1] + done' = delivered' /\ from2[Len(sq') + 1] = last + SliceLen(wr)
  <2>1. 1 \in 1 .. L + 1 /\ Len(sq') + 1 = L + 2
    BY <1>1, <1>6
  <2> QED
    BY <1>7, <1>8, <2>1
<1>13. Len(from2) = Len(sq') + 1
  BY <1>1, <1>6, <1>8
<1> HIDE DEF SliceLen
<1>14. Queue(text, from2)'
  <2>1. sendPos' = sendPos /\ last + SliceLen(wr) <= sendPos
    OBVIOUS
  <2> QED
    BY <1>6, <1>8, <1>10, <1>11, <1>12, <1>13, <2>1, ZenonT(60) DEF Queue
<1> QED
  BY <1>6, <1>12, <1>14, <1>b

\* All that a call of postWorkRequest leaves alone, whatever comes of it.
LEMMA PostKeeps ==
  ASSUME TypeInv, AcceptedIsComplete, InOrderExactlyOnce,
         NEW start, NEW text, NEW from, Shape(start, text, from),
         UNCHANGED << part, msg, inln, startOfWrite, sendPos, sendBuffer, sent, done, resp, cq,
                      currentRemoteReceive, delivered, recvVars, receiveBuffer >>,
         \/ spc = "write" /\ spc' \in {"poll", "failed"}
         \/ spc = "post"  /\ spc' \in {"idle", "post", "failed"}
  PROVE  /\ Layout(start)' /\ Sending(start)' /\ Text(start, text)' /\ Rings(text)'
         /\ Scan(text)' /\ Ready(text)'
         /\ AcceptedIsComplete' /\ InOrderExactlyOnce'
         /\ UNCHANGED sq /\ spc' = "failed" => Queue(text, from)' /\ PostedTo(from)'
<1>1. UNCHANGED << part, msg, startOfWrite, sendPos, sendBuffer, sent, done, delivered,
                   rpc, rbytes, rdata, readPos, received, avail, receiveBuffer >>
  BY DEF recvVars
<1>2. Layout(start)' /\ Text(start, text)'
  <2>1. UNCHANGED << sent, received, readPos >>
    BY <1>1
  <2> QED
    BY <2>1 DEF Shape, Layout, Text
<1>3. Sending(start)'
  <2>1. UNCHANGED << part, msg, startOfWrite, sendPos, sent >>
    BY <1>1
  <2>2. PartOffset' = PartOffset
    BY <2>1 DEF PartOffset
  <2>3. spc = "write" => sendPos = startOfWrite + PartOffset
    BY DEF Shape, Sending
  <2>4. CASE spc = "write"
    BY <2>1, <2>2, <2>3, <2>4 DEF Shape, Sending
  <2>5. CASE spc = "post"
    <3>1. spc' # "poll"
      BY <2>5
    <3> QED
      BY <2>1, <2>2, <2>5, <3>1 DEF Shape, Sending
  <2> QED
    BY <2>4, <2>5
<1>4. Rings(text)'
  <2>1. UNCHANGED << delivered, readPos, sendPos, sendBuffer, receiveBuffer, rpc, rbytes >>
    BY <1>1
  <2> QED
    BY <2>1 DEF Shape, Rings, Cleared, receiveSize
<1>5. Scan(text)' /\ Ready(text)'
  BY <1>1, KeepScan DEF Shape
<1>6. AcceptedIsComplete' /\ InOrderExactlyOnce'
  BY <1>1, KeepAccepted
<1>7. UNCHANGED sq /\ spc' = "failed" => Queue(text, from)' /\ PostedTo(from)'
  <2>1. UNCHANGED << done, delivered, sendPos >>
    BY <1>1
  <2> QED
    BY <2>1 DEF Shape, Queue, PostedTo
<1> QED
  BY <1>2, <1>3, <1>4, <1>5, <1>6, <1>7

\* The request for the far readPos takes no part of the stream.
LEMMA PostReadStep ==
  ASSUME TypeInv, FlowInv, AcceptedIsComplete, InOrderExactlyOnce,
         NEW start, NEW text, NEW from, Shape(start, text, from), PostRead
  PROVE  /\ AcceptedIsComplete' /\ InOrderExactlyOnce'
         /\ \E from2 : Shape(start, text, from2)'
<1>1. /\ spc = "write" /\ Post(ReadWr, "poll")
      /\ UNCHANGED << part, msg, inln, startOfWrite, slice, sendPos, sendBuffer, sent,
                      done, resp, cq, currentRemoteReceive, delivered, recvVars, receiveBuffer >>
  BY DEF PostRead
<1>2. /\ ReadWr \in WorkRequest /\ ReadWr.op = "read" /\ ReadWr.begin = 0 /\ ReadWr.end = 0
      /\ SliceLen(ReadWr) = 0
  BY ReadWrType DEF SliceLen
<1>3. /\ Layout(start)' /\ Sending(start)' /\ Text(start, text)' /\ Rings(text)'
      /\ Scan(text)' /\ Ready(text)' /\ AcceptedIsComplete' /\ InOrderExactlyOnce'
      /\ UNCHANGED sq /\ spc' = "failed" => Queue(text, from)' /\ PostedTo(from)'
  BY <1>1, PostKeeps DEF Post
<1>4. CASE UNCHANGED sq /\ spc' = "failed"
  BY <1>3, <1>4 DEF Shape
<1>5. CASE sq' = Append(sq, Posted(ReadWr)) /\ spc' = "poll"
  <2>1. PICK last : last = from[Len(sq) + 1]
    OBVIOUS
  <2>2. last \in Nat /\ sendPos \in Nat /\ last <= sendPos
    BY <2>1, Bounds
  <2>3. last = startOfWrite
    BY <1>1, <2>1 DEF Shape, PostedTo
  <2>4. PICK from2 : /\ Queue(text, from2)'
                     /\ Len(sq') = Len(sq) + 1 /\ from2[Len(sq') + 1] = last + SliceLen(ReadWr)
    BY <1>1, <1>2, <1>5, <2>1, <2>2, PostExtends
  <2>5. PostedTo(from2)'
    <3>1. from2[Len(sq') + 1] = startOfWrite'
      BY <1>1, <1>2, <2>2, <2>3, <2>4
    <3> QED
      BY <1>5, <3>1 DEF PostedTo
  <2> QED
    BY <1>3, <2>4, <2>5 DEF Shape
<1> QED
  BY <1>1, <1>4, <1>5 DEF Post

\* The slices of a frame take its part of the stream, one after the other.
LEMMA PostSliceStep ==
  ASSUME TypeInv, FlowInv, AcceptedIsComplete, InOrderExactlyOnce,
         NEW start, NEW text, NEW from, Shape(start, text, from), PostSlice
  PROVE  /\ AcceptedIsComplete' /\ InOrderExactlyOnce'
         /\ \E from2 : Shape(start, text, from2)'
<1> DEFINE n  == FrameLen(Len(msg))
           sl == Slices(startOfWrite, n)
           s  == sl[slice]
           wr == WriteWr(s, inln /\ SliceLen(s) <= MaxInline)
<1>1. /\ spc = "post" /\ Post(wr, IF slice = Len(sl) THEN "idle" ELSE "post")
      /\ slice' = IF slice = Len(sl) THEN 1 ELSE slice + 1
      /\ UNCHANGED << part, msg, inln, startOfWrite, sendPos, sendBuffer, sent,
                      done, resp, cq, currentRemoteReceive, delivered, recvVars, receiveBuffer >>
  BY DEF PostSlice
<1>2. /\ startOfWrite \in Nat /\ sendPos \in Nat /\ slice \in 1 .. Len(sl) /\ inln \in BOOLEAN
      /\ n \in 1 .. Size
  <2>1. Len(msg) \in Nat /\ n <= Size
    BY DEF TypeInv, TypeOK, FrameFits
  <2>2. n \in Nat /\ n > 0
    BY <2>1, FrameLenType
  <2>3. slice \in 1 .. 2 /\ slice <= Len(sl)
    BY <1>1 DEF TypeInv, TypeOK, FrameFits
  <2>4. n \in 1 .. Size
    BY <2>1, <2>2, SizeAssumption
  <2>5. startOfWrite \in Nat /\ sendPos \in Nat /\ inln \in BOOLEAN
    BY DEF TypeInv, TypeOK
  <2>6. Len(sl) \in 1 .. 2
    BY <2>4, <2>5, SlicesCount, SizeAssumption
  <2> HIDE DEF sl
  <2> QED
    BY <2>3, <2>4, <2>5, <2>6
<1>3. /\ s.begin \in 0 .. Size /\ s.end \in 0 .. Size /\ s.begin < s.end
  BY <1>2, SliceInRing
<1>4. /\ sl[1].prev = 0 /\ s.prev \in Nat /\ SliceLen(s) \in Nat
      /\ s.begin = Cell(startOfWrite + s.prev) /\ s.prev + SliceLen(s) <= n
      /\ slice = Len(sl)  => s.prev + SliceLen(s) = n
      /\ slice # Len(sl) => sl[slice + 1].prev = s.prev + SliceLen(s)
  BY <1>2, SliceChain
<1>5. /\ wr \in WorkRequest /\ wr.op = "write" /\ wr.begin = s.begin /\ wr.end = s.end
      /\ SliceLen(wr) = SliceLen(s)
  BY <1>2, <1>3, WriteWrType DEF SliceLen
<1> HIDE DEF wr
<1>6. /\ sendPos = startOfWrite + n
  <2>1. /\ Len(sent) \in Nat \ {0} /\ msg = sent[Len(sent)] /\ startOfWrite = start[Len(sent)]
        /\ sendPos = start[Len(sent) + 1]
    BY <1>1 DEF Shape, Sending
  <2>2. Len(sent) \in 1 .. Len(sent) /\ Layout(start)
    BY <2>1 DEF Shape
  <2> QED
    BY <2>1, <2>2, FramePositions
<1>7. /\ Layout(start)' /\ Sending(start)' /\ Text(start, text)' /\ Rings(text)'
      /\ Scan(text)' /\ Ready(text)' /\ AcceptedIsComplete' /\ InOrderExactlyOnce'
      /\ UNCHANGED sq /\ spc' = "failed" => Queue(text, from)' /\ PostedTo(from)'
  BY <1>1, PostKeeps DEF Post
<1>8. CASE UNCHANGED sq /\ spc' = "failed"
  BY <1>7, <1>8 DEF Shape
<1>9. CASE sq' = Append(sq, Posted(wr)) /\ spc' = IF slice = Len(sl) THEN "idle" ELSE "post"
  <2>1. PICK last : last = from[Len(sq) + 1]
    OBVIOUS
  <2>2. last = startOfWrite + s.prev
    BY <1>1, <2>1 DEF Shape, PostedTo
  <2>3. PICK len : len = SliceLen(wr)
    OBVIOUS
  <2>4. PICK prev : prev = s.prev
    OBVIOUS
  <2>5. last \in Nat /\ last + len <= sendPos /\ last + len = startOfWrite + (prev + len)
    <3>1. /\ startOfWrite \in Nat /\ prev \in Nat /\ len \in Nat /\ prev + len <= n /\ n \in Nat
          /\ last = startOfWrite + prev
      BY <1>2, <1>4, <1>5, <2>2, <2>3, <2>4
    <3> HIDE DEF n, sl, s
    <3> QED
      BY <1>6, <3>1
  <2>6. PICK from2 : /\ Queue(text, from2)'
                     /\ Len(sq') = Len(sq) + 1 /\ from2[Len(sq') + 1] = last + SliceLen(wr)
    <3>1. /\ wr \in WorkRequest /\ wr.op = "write" /\ wr.begin <= wr.end /\ wr.begin = Cell(last)
      BY <1>3, <1>4, <1>5, <2>2, SizeAssumption
    <3>2. last \in Nat /\ last + SliceLen(wr) <= sendPos
      BY <2>3, <2>5
    <3>3. sq' = Append(sq, Posted(wr)) /\ UNCHANGED << done, delivered, sendPos >>
      BY <1>1, <1>9
    <3> HIDE DEF s, sl, n
    <3> QED
      BY <2>1, <3>1, <3>2, <3>3, PostExtends
  <2>7. PostedTo(from2)'
    <3>1. sl' = sl /\ startOfWrite' = startOfWrite /\ sendPos' = sendPos
      BY <1>1
    <3>2. from2[Len(sq') + 1] = startOfWrite + (prev + len)
      BY <2>3, <2>5, <2>6
    <3>3. CASE slice = Len(sl)
      <4>1. spc' = "idle" /\ prev + len = n
        BY <1>4, <1>5, <1>9, <2>3, <2>4, <3>3
      <4> QED
        BY <1>6, <3>1, <3>2, <4>1 DEF PostedTo
    <3>4. CASE slice # Len(sl)
      <4>1. spc' = "post" /\ slice' = slice + 1 /\ sl[slice + 1].prev = prev + len
        BY <1>1, <1>4, <1>5, <1>9, <2>3, <2>4, <3>4
      <4>2. sl'[slice'].prev = prev + len
        BY <3>1, <4>1
      <4> QED
        BY <3>1, <3>2, <4>1, <4>2 DEF PostedTo
    <3> QED
      BY <3>3, <3>4
  <2> QED
    BY <1>7, <2>6, <2>7 DEF Shape
<1> QED
  BY <1>1, <1>8, <1>9 DEF Post

\* send() takes a completion, and looks at the room again if it is the read's.
LEMMA PollStep ==
  ASSUME TypeInv, AcceptedIsComplete, InOrderExactlyOnce,
         NEW start, NEW text, NEW from, Shape(start, text, from), Poll
  PROVE  /\ AcceptedIsComplete' /\ InOrderExactlyOnce'
         /\ Shape(start, text, from)'
<1>1. /\ spc = "poll" /\ spc' \in {"write", "poll"}
      /\ UNCHANGED << part, msg, startOfWrite, slice, sendPos, sendBuffer, sent, sq, done, delivered,
                      rpc, rbytes, rdata, readPos, received, avail, receiveBuffer >>
  BY DEF Poll, recvVars
<1>2. Layout(start)' /\ Text(start, text)'
  <2>1. UNCHANGED << sent, received, readPos >>
    BY <1>1
  <2> QED
    BY <2>1 DEF Shape, Layout, Text
<1>3. Sending(start)'
  <2>1. UNCHANGED << part, msg, startOfWrite, sendPos, sent >>
    BY <1>1
  <2>2. PartOffset' = PartOffset
    BY <2>1 DEF PartOffset
  <2> QED
    BY <1>1, <2>1, <2>2 DEF Shape, Sending
<1>4. Rings(text)'
  <2>1. UNCHANGED << delivered, readPos, sendPos, sendBuffer, receiveBuffer, rpc, rbytes >>
    BY <1>1
  <2> QED
    BY <2>1 DEF Shape, Rings, Cleared, receiveSize
<1>5. Queue(text, from)' /\ PostedTo(from)'
  <2>1. UNCHANGED << sq, done, delivered, sendPos, startOfWrite >>
    BY <1>1
  <2> QED
    BY <1>1, <2>1 DEF Shape, Queue, PostedTo
<1>6. Scan(text)' /\ Ready(text)'
  BY <1>1, KeepScan DEF Shape
<1>7. AcceptedIsComplete' /\ InOrderExactlyOnce'
  BY <1>1, KeepAccepted
<1> QED
  BY <1>2, <1>3, <1>4, <1>5, <1>6, <1>7 DEF Shape

-----------------------------------------------------------------------------
(* The steps of the card.                                                  *)

\* The rest of the queue, when the card has come to the end of the first request.
LEMMA TailQueue ==
  ASSUME TypeInv, NEW text, NEW from, Queue(text, from), PostedTo(from), sq # << >>,
         sq' = Tail(sq), done' = 0, delivered' = from[2],
         UNCHANGED << spc, sendPos, startOfWrite, slice, msg >>
  PROVE  \E from2 : Queue(text, from2)' /\ PostedTo(from2)'
<1>a. PICK from2 : from2 = Tail(from)
  OBVIOUS
<1>b. PICK L : L = Len(sq)
  OBVIOUS
<1>1. sq \in Seq(WorkRequest) /\ L \in Nat \ {0}
  BY <1>b DEF TypeInv, TypeOK
<1>2. /\ from \in Seq(Nat) /\ Len(from) = L + 1
      /\ \A j, k \in 1 .. Len(from) : j <= k => from[j] <= from[k]
      /\ from[L + 1] <= sendPos
  BY <1>b DEF Queue
<1>3. Len(sq') = L - 1 /\ \A k \in 1 .. L - 1 : sq'[k] = sq[k + 1]
  BY <1>1, <1>b
<1>4. from2 \in Seq(Nat) /\ Len(from2) = L /\ \A k \in 1 .. L : from2[k] = from[k + 1]
  BY <1>1, <1>2, <1>a
<1>5. \A j, k \in 1 .. Len(from2) : j <= k => from2[j] <= from2[k]
  <2> SUFFICES ASSUME NEW j \in 1 .. L, NEW k \in 1 .. L, j <= k
               PROVE  from2[j] <= from2[k]
    BY <1>4
  <2>1. j + 1 \in 1 .. Len(from) /\ k + 1 \in 1 .. Len(from) /\ j + 1 <= k + 1
    BY <1>1, <1>2
  <2>2. from[j + 1] <= from[k + 1]
    BY <1>2, <2>1
  <2> QED
    BY <1>4, <2>2
<1>6. ASSUME NEW k \in 1 .. L - 1
      PROVE  /\ from2[k + 1] = from2[k] + SliceLen(sq'[k])
             /\ sq'[k].op = "read" => SliceLen(sq'[k]) = 0
             /\ sq'[k].op = "write" => sq'[k].begin = Cell(from2[k])
             /\ sq'[k].op = "write" /\ sq'[k].inln =>
                  \A i \in 0 .. SliceLen(sq'[k]) - 1 : sq'[k].bytes[i + 1] = text[from2[k] + i]
  <2>1. k + 1 \in 1 .. L /\ k \in 1 .. L
    BY <1>1
  <2>2. sq'[k] = sq[k + 1] /\ from2[k] = from[k + 1] /\ from2[k + 1] = from[(k + 1) + 1]
    BY <1>3, <1>4, <2>1
  <2>3. /\ from[(k + 1) + 1] = from[k + 1] + SliceLen(sq[k + 1])
        /\ sq[k + 1].op = "read" => SliceLen(sq[k + 1]) = 0
        /\ sq[k + 1].op = "write" => sq[k + 1].begin = Cell(from[k + 1])
        /\ sq[k + 1].op = "write" /\ sq[k + 1].inln =>
             \A i \in 0 .. SliceLen(sq[k + 1]) - 1 : sq[k + 1].bytes[i + 1] = text[from[k + 1] + i]
    BY <1>b, <2>1 DEF Queue
  <2> QED
    BY <2>2, <2>3
<1>7. from2[1] = from[2] /\ from2[1] \in Nat /\ from2[Len(sq') + 1] = from[L + 1]
  <2>1. 1 \in 1 .. L /\ 1 + 1 = 2 /\ L \in 1 .. L /\ Len(sq') + 1 = L
    BY <1>1, <1>3
  <2> QED
    BY <1>4, <2>1
<1>8. Queue(text, from2)'
  <2>1. from2[1] + done' = delivered' /\ Len(from2) = Len(sq') + 1
    BY <1>1, <1>3, <1>4, <1>7
  <2> QED
    BY <1>2, <1>3, <1>4, <1>5, <1>6, <1>7, <2>1, ZenonT(60) DEF Queue
<1>9. PostedTo(from2)'
  BY <1>7, <1>b DEF PostedTo
<1> QED
  BY <1>8, <1>9

\* The answer to a read takes no part of the stream with it.
LEMMA CompleteReadStep ==
  ASSUME TypeInv, FlowInv, AcceptedIsComplete, InOrderExactlyOnce,
         NEW start, NEW text, NEW from, Shape(start, text, from), CompleteRead
  PROVE  /\ AcceptedIsComplete' /\ InOrderExactlyOnce'
         /\ \E from2 : Shape(start, text, from2)'
<1>1. /\ resp # -1 /\ sq' = Tail(sq)
      /\ UNCHANGED << spc, part, msg, inln, startOfWrite, slice, sendPos, sendBuffer, sent, done,
                      delivered, rpc, rbytes, rdata, readPos, received, avail, receiveBuffer >>
  BY DEF CompleteRead, Finish, sendVars, recvVars
<1>2. sq # << >> /\ Head(sq).op = "read" /\ done = 0 /\ sq \in Seq(WorkRequest)
  BY <1>1 DEF TypeInv, TypeOK, QueueShape
<1>3. 1 \in 1 .. Len(sq) /\ Head(sq) = sq[1] /\ Queue(text, from) /\ PostedTo(from)
  BY <1>2 DEF Shape
<1>4. delivered' = from[2] /\ done' = 0
  <2>1. from[1] + done = delivered /\ from[1 + 1] = from[1] + SliceLen(sq[1]) /\ SliceLen(sq[1]) = 0
    BY <1>2, <1>3 DEF Queue
  <2>2. from[1] \in Nat
    BY <1>3, QueuePositions
  <2> QED
    BY <1>1, <1>2, <2>1, <2>2
<1>5. PICK from2 : Queue(text, from2)' /\ PostedTo(from2)'
  BY <1>1, <1>2, <1>3, <1>4, TailQueue
<1>6. Layout(start)' /\ Sending(start)' /\ Text(start, text)'
  BY <1>1, KeepFrames DEF Shape
<1>7. Rings(text)'
  BY <1>1, KeepRings DEF Shape
<1>8. Scan(text)' /\ Ready(text)'
  BY <1>1, KeepScan DEF Shape
<1>9. AcceptedIsComplete' /\ InOrderExactlyOnce'
  BY <1>1, KeepAccepted
<1> QED
  BY <1>5, <1>6, <1>7, <1>8, <1>9 DEF Shape

\* An accepted frame has been delivered.
LEMMA AcceptedLength ==
  ASSUME TypeInv, FlowInv, AcceptedIsComplete, NEW start, NEW text, NEW from,
         Shape(start, text, from), rpc \in {"zero", "advance"}
  PROVE  /\ Len(received) < Len(sent) /\ receiveSize = Len(NextMsg) /\ rdata = NextMsg
         /\ FrameLen(receiveSize) \in 1 .. Size
         /\ readPos + FrameLen(receiveSize) <= delivered
<1>1. /\ Len(received) < Len(sent) /\ receiveSize = Len(NextMsg) /\ rdata = NextMsg
      /\ delivered >= readPos + FrameLen(Len(NextMsg))
  BY DEF AcceptedIsComplete, NextDelivered
<1>2. NextMsg \in Seq(Byte) /\ FrameLen(Len(NextMsg)) <= Size
  BY <1>1, NextFrame
<1>3. FrameLen(Len(NextMsg)) \in Nat /\ FrameLen(Len(NextMsg)) > 0
  <2>1. Len(NextMsg) \in Nat
    BY <1>2
  <2> QED
    BY <2>1, FrameLenType
<1>4. readPos \in Nat /\ delivered \in Nat
  BY DEF TypeInv, TypeOK
<1> QED
  BY <1>1, <1>2, <1>3, <1>4, SizeAssumption

\* A byte that the card places gets to the cell of its position, and to no other
\* position of the ring.
LEMMA DeliverCells ==
  ASSUME TypeInv, FlowInv, NEW start, NEW text, NEW from, Shape(start, text, from), DeliverByte,
         NEW p \in readPos .. readPos + Size - 1
  PROVE  receiveBuffer'[Cell(p)] = IF p = delivered THEN text[delivered] ELSE receiveBuffer[Cell(p)]
<1>1. /\ sq # << >> /\ Head(sq).op = "write"
      /\ receiveBuffer' = [receiveBuffer EXCEPT ![Head(sq).remote + done] = ByteOf(Head(sq), done)]
  BY DEF DeliverByte
<1>2. /\ Head(sq).remote + done = Cell(delivered) /\ ByteOf(Head(sq), done) = text[delivered]
      /\ delivered < sendPos
  BY <1>1, HeadByte
<1>3. /\ readPos \in Nat /\ delivered \in Nat /\ sendPos \in Nat /\ readPos <= delivered
      /\ sendPos <= readPos + Size
  BY Bounds
<1>4. delivered \in readPos .. readPos + Size - 1 /\ p \in Nat
  BY <1>2, <1>3, SizeAssumption
<1>5. Cell(p) \in Offsets /\ receiveBuffer \in [Offsets -> Byte]
  BY <1>4, CellInRing DEF TypeInv, TypeOK
<1>6. p # delivered => Cell(p) # Cell(delivered)
  BY <1>3, <1>4, CellsApart
<1> QED
  BY <1>1, <1>2, <1>5, <1>6

\* The card places a byte of the stream.
LEMMA DeliverStep ==
  ASSUME TypeInv, FlowInv, AcceptedIsComplete, InOrderExactlyOnce,
         NEW start, NEW text, NEW from, Shape(start, text, from), DeliverByte
  PROVE  /\ AcceptedIsComplete' /\ InOrderExactlyOnce'
         /\ \E from2 : Shape(start, text, from2)'
<1> DEFINE wr == Head(sq)
<1>1. /\ sq # << >> /\ wr.op = "write" /\ delivered' = delivered + 1
      /\ \/ done + 1 = SliceLen(wr) /\ sq' = Tail(sq) /\ done' = 0
         \/ done + 1 # SliceLen(wr) /\ sq' = sq /\ done' = done + 1
      /\ UNCHANGED << spc, part, msg, inln, startOfWrite, slice, sendPos, sendBuffer, sent,
                      rpc, rbytes, rdata, readPos, received, avail >>
  BY DEF DeliverByte, Finish, sendVars, recvVars
<1>2. /\ readPos \in Nat /\ delivered \in Nat /\ sendPos \in Nat /\ readPos <= delivered
      /\ sendPos <= readPos + Size
  BY Bounds
<1>3. /\ delivered < sendPos /\ SliceLen(wr) \in Nat /\ from[2] = from[1] + SliceLen(wr)
  BY <1>1, HeadByte
<1>4. Queue(text, from) /\ PostedTo(from) /\ done \in Nat
  BY DEF Shape, TypeInv, TypeOK
<1>5. from[1] \in Nat /\ from[1] + done = delivered
  <2>1. 1 \in 1 .. Len(sq)
    BY <1>1 DEF TypeInv, TypeOK
  <2> QED
    BY <1>4, <2>1, QueuePositions DEF Queue
<1> HIDE DEF wr
<1>6. \E from2 : Queue(text, from2)' /\ PostedTo(from2)'
  <2>1. CASE done + 1 = SliceLen(wr) /\ sq' = Tail(sq) /\ done' = 0
    <3>1. delivered' = from[2]
      BY <1>1, <1>3, <1>4, <1>5, <2>1
    <3> QED
      BY <1>1, <1>4, <2>1, <3>1, TailQueue
  <2>2. CASE sq' = sq /\ done' = done + 1
    <3>1. from[1] + done' = delivered'
      BY <1>1, <1>4, <1>5, <2>2
    <3>2. UNCHANGED << spc, sendPos, startOfWrite, slice, msg, sq >>
      BY <1>1, <2>2
    <3>3. Queue(text, from)'
      BY <1>4, <3>1, <3>2 DEF Queue
    <3>4. PostedTo(from)'
      BY <1>4, <3>2 DEF PostedTo
    <3> QED
      BY <3>3, <3>4
  <2> QED
    BY <1>1, <2>1, <2>2
<1>7. Layout(start)' /\ Sending(start)' /\ Text(start, text)'
  BY <1>1, KeepFrames DEF Shape
<1>8. Rings(text)'
  <2>1. UNCHANGED << readPos, sendPos, sendBuffer, rpc, rbytes >> /\ delivered' = delivered + 1
    BY <1>1
  <2>2. \A p : Cleared(p)' <=> Cleared(p)
    BY <2>1 DEF Cleared, receiveSize
  <2>3. ~ Cleared(delivered)
    <3>1. rpc = "advance" => /\ FrameLen(receiveSize) \in 1 .. Size
                             /\ readPos + FrameLen(receiveSize) <= delivered
      BY AcceptedLength
    <3> HIDE DEF receiveSize
    <3> QED
      BY <1>2, <3>1 DEF Cleared
  <2>4. ASSUME NEW p \in readPos .. delivered
        PROVE  receiveBuffer'[Cell(p)] = IF Cleared(p) THEN 0 ELSE text[p]
    <3>1. p \in readPos .. readPos + Size - 1
      BY <1>2, <1>3, SizeAssumption
    <3>2. p = delivered \/ p \in readPos .. delivered - 1
      BY <1>2
    <3>3. receiveBuffer'[Cell(p)] = IF p = delivered THEN text[delivered] ELSE receiveBuffer[Cell(p)]
      BY <3>1, DeliverCells
    <3>4. p # delivered => receiveBuffer[Cell(p)] = IF Cleared(p) THEN 0 ELSE text[p]
      BY <3>2 DEF Shape, Rings
    <3> QED
      BY <2>3, <3>3, <3>4
  <2>5. ASSUME NEW p \in delivered + 1 .. readPos + Size - 1
        PROVE  receiveBuffer'[Cell(p)] = 0
    <3>1. p \in readPos .. readPos + Size - 1 /\ p # delivered /\ p \in delivered .. readPos + Size - 1
      BY <1>2, SizeAssumption
    <3>2. receiveBuffer'[Cell(p)] = IF p = delivered THEN text[delivered] ELSE receiveBuffer[Cell(p)]
      BY <3>1, DeliverCells
    <3> QED
      BY <3>1, <3>2 DEF Shape, Rings
  <2>6. \A p \in delivered' .. sendPos - 1 : sendBuffer[Cell(p)] = text[p]
    BY <1>2, <2>1 DEF Shape, Rings
  <2>7. readPos <= delivered' /\ delivered' - 1 = delivered
    BY <1>2, <2>1
  <2>8. \A p \in readPos .. delivered' - 1 :
          receiveBuffer'[Cell(p)] = IF Cleared(p)' THEN 0 ELSE text[p]
    BY <2>2, <2>4, <2>7
  <2>9. \A p \in delivered' .. readPos + Size - 1 : receiveBuffer'[Cell(p)] = 0
    BY <2>1, <2>5
  <2> QED
    BY <2>1, <2>6, <2>7, <2>8, <2>9 DEF Rings
<1>9. NextDelivered => NextDelivered'
  <2>1. UNCHANGED << sent, received, readPos >> /\ delivered' >= delivered
    BY <1>1, <1>2
  <2>2. NextMsg' = NextMsg
    BY <2>1 DEF NextMsg
  <2> SUFFICES ASSUME NextDelivered PROVE NextDelivered'
    OBVIOUS
  <2>3. Len(received) < Len(sent) /\ delivered >= readPos + FrameLen(Len(NextMsg))
    BY DEF NextDelivered
  <2>4. FrameLen(Len(NextMsg)) \in Nat
    <3>1. Len(NextMsg) \in Nat
      BY <2>3, NextFrame
    <3> QED
      BY <3>1, FrameLenType
  <2>5. delivered' >= readPos + FrameLen(Len(NextMsg))
    BY <1>1, <1>2, <2>3, <2>4
  <2> QED
    BY <2>1, <2>2, <2>3, <2>5 DEF NextDelivered
<1>10. Scan(text)' /\ Ready(text)'
  <2>1. UNCHANGED << rpc, rbytes, readPos, avail >>
    BY <1>1
  <2>2. \A i : ReadAt(i)' = ReadAt(i)
    BY <2>1 DEF ReadAt, receiveSize
  <2>3. ASSUME NEW i \in 1 .. Len(rbytes), ReadAt(i) < delivered
        PROVE  ReadAt(i) < delivered'
    <3>1. rbytes \in Seq(Byte) /\ Len(rbytes) <= 2 * WordLen /\ WordLen \in Nat
      BY ByteAssumption DEF TypeInv, TypeOK
    <3>2. i \in 1 .. 2 * WordLen /\ (i > WordLen => Len(rbytes) >= WordLen)
      BY <3>1
    <3>3. ReadAt(i) \in Nat
      BY <3>2, ReadInRing
    <3> QED
      BY <1>1, <1>2, <2>3, <3>3
  <2> QED
    BY <1>9, <2>1, <2>2, <2>3 DEF Shape, Scan, Ready
<1>11. AcceptedIsComplete' /\ InOrderExactlyOnce'
  <2>1. UNCHANGED << rpc, rbytes, rdata, sent, received >>
    BY <1>1
  <2>2. NextMsg' = NextMsg /\ receiveSize' = receiveSize
    BY <2>1 DEF NextMsg, receiveSize
  <2> QED
    BY <1>9, <2>1, <2>2 DEF AcceptedIsComplete, InOrderExactlyOnce
<1> QED
  BY <1>6, <1>7, <1>8, <1>10, <1>11 DEF Shape

-----------------------------------------------------------------------------
(* The steps of the receiver.                                              *)

\* What receive() and hasData() leave alone until they clear a frame.
LEMMA ReceiverKeeps ==
  ASSUME InOrderExactlyOnce, NEW start, NEW text, NEW from, Shape(start, text, from),
         UNCHANGED << sendVars, nicVars, receiveBuffer, readPos, received >>,
         rpc # "advance", rpc' # "advance"
  PROVE  /\ Layout(start)' /\ Sending(start)' /\ Text(start, text)' /\ Rings(text)'
         /\ Queue(text, from)' /\ PostedTo(from)' /\ InOrderExactlyOnce'
         /\ NextMsg' = NextMsg /\ NextDelivered' = NextDelivered
         /\ UNCHANGED << delivered, readPos >>
<1>1. UNCHANGED << spc, part, msg, inln, startOfWrite, slice, sendPos, sendBuffer, sent, sq, done,
                   delivered, readPos, received, receiveBuffer >>
  BY DEF sendVars, nicVars
<1>2. Layout(start)' /\ Sending(start)' /\ Text(start, text)'
  BY <1>1, KeepFrames DEF Shape
<1>3. Rings(text)'
  BY <1>1, KeepRings DEF Shape
<1>4. Queue(text, from)' /\ PostedTo(from)'
  BY <1>1, KeepQueue DEF Shape
<1>5. InOrderExactlyOnce'
  BY <1>1 DEF InOrderExactlyOnce
<1>6. NextMsg' = NextMsg
  BY <1>1 DEF NextMsg
<1>7. NextDelivered' = NextDelivered
  BY <1>1, <1>6 DEF NextDelivered
<1> QED
  BY <1>1, <1>2, <1>3, <1>4, <1>5, <1>6, <1>7

\* A call that begins, one that returns without a message, and the loop.
LEMMA RestartStep ==
  ASSUME InOrderExactlyOnce, NEW start, NEW text, NEW from, Shape(start, text, from),
         UNCHANGED << sendVars, nicVars, receiveBuffer, readPos, received >>,
         rpc # "advance", rpc' \in {"idle", "scan"}, rbytes' = << >>,
         avail' => NextDelivered
  PROVE  Shape(start, text, from)' /\ AcceptedIsComplete' /\ InOrderExactlyOnce'
<1>1. /\ Layout(start)' /\ Sending(start)' /\ Text(start, text)' /\ Rings(text)'
      /\ Queue(text, from)' /\ PostedTo(from)' /\ InOrderExactlyOnce'
      /\ NextDelivered' = NextDelivered
  BY ReceiverKeeps
<1>2. Len(rbytes') = 0 /\ 1 .. 0 = {}
  OBVIOUS
<1>3. Scan(text)'
  BY <1>2 DEF Scan
<1>4. Ready(text)'
  BY <1>1, <1>2 DEF Ready
<1>5. AcceptedIsComplete'
  BY DEF AcceptedIsComplete
<1> QED
  BY <1>1, <1>3, <1>4, <1>5 DEF Shape

LEMMA BeginStep ==
  ASSUME InOrderExactlyOnce, NEW start, NEW text, NEW from, Shape(start, text, from),
         HasData \/ \E cap : Receive(cap)
  PROVE  Shape(start, text, from)' /\ AcceptedIsComplete' /\ InOrderExactlyOnce'
<1>1. /\ rpc = "idle" /\ rpc' = "scan"
      /\ UNCHANGED << rbytes, sendVars, nicVars, receiveBuffer, readPos, received, avail >>
  BY DEF HasData, Receive
<1>2. rbytes = << >> /\ (avail => NextDelivered)
  BY <1>1 DEF Shape, Scan, Ready
<1> QED
  BY <1>1, <1>2, RestartStep

LEMMA GiveUpStep ==
  ASSUME NoPhantom, TypeInv, FlowInv, InOrderExactlyOnce,
         NEW start, NEW text, NEW from, Shape(start, text, from),
         Answer \/ Retry \/ TooBig
  PROVE  Shape(start, text, from)' /\ AcceptedIsComplete' /\ InOrderExactlyOnce'
<1>1. /\ Scanned /\ rpc = "scan" /\ rpc' \in {"idle", "scan"} /\ rbytes' = << >>
      /\ UNCHANGED << sendVars, nicVars, receiveBuffer, readPos, received >>
  BY DEF Answer, Retry, TooBig, Scanned
<1>a. avail' => avail \/ receiveValidity = Validity
  BY Zenon DEF Answer, Retry, TooBig
<1>2. avail => NextDelivered
  BY DEF Shape, Ready
<1>3. receiveValidity = Validity => NextDelivered
  BY <1>1, Genuine
<1>4. rpc # "advance" /\ (avail' => NextDelivered)
  BY <1>1, <1>2, <1>3, <1>a
<1> QED
  BY <1>1, <1>4, RestartStep

\* After hasData() has said yes, the length word is the frame's.
LEMMA ReadyLength ==
  ASSUME TypeInv, FlowInv, NEW start, NEW text, NEW from, Shape(start, text, from),
         avail, rpc = "scan", Len(rbytes) >= WordLen
  PROVE  NextDelivered /\ receiveSize = Len(NextMsg)
<1> DEFINE w == SubSeq(rbytes, 1, WordLen)
           n == Len(NextMsg)
<1>1. WordLen \in Nat \ {0} /\ rbytes \in Seq(Byte) /\ readPos \in Nat
  BY ByteAssumption DEF TypeInv, TypeOK
<1>2. /\ NextDelivered
      /\ \A i \in 1 .. Len(rbytes) : rbytes[i] = text[ReadAt(i)]
  BY DEF Shape, Ready
<1>3. /\ NextMsg \in Seq(Byte) /\ FrameLen(n) <= Size
      /\ \A i \in 0 .. FrameLen(n) - 1 : text[readPos + i] = FrameByte(NextMsg, i)
  BY <1>2, NextFrame DEF NextDelivered
<1>4. n \in 0 .. Size - 2 * WordLen /\ n \in Nat /\ LenBytes(n) \in Word
  BY <1>3, FrameWords
<1>5. w \in Word
  BY <1>2, LengthRead DEF NextDelivered
<1>6. ASSUME NEW i \in 1 .. WordLen
      PROVE  w[i] = LenBytes(n)[i]
  <2>1. w[i] = rbytes[i] /\ i \in 1 .. Len(rbytes)
    BY <1>1
  <2>2. rbytes[i] = text[readPos + i - 1]
    BY <1>2, <2>1 DEF ReadAt
  <2>3. i - 1 \in 0 .. FrameLen(n) - 1 /\ i - 1 < WordLen /\ readPos + i - 1 = readPos + (i - 1)
        /\ (i - 1) + 1 = i
    BY <1>1, <1>4 DEF FrameLen
  <2> HIDE DEF n, w
  <2>4. text[readPos + (i - 1)] = FrameByte(NextMsg, i - 1)
    BY <1>3, <2>3
  <2>5. FrameByte(NextMsg, i - 1) = LenBytes(n)[i]
    BY <2>3 DEF FrameByte, n
  <2> QED
    BY <2>1, <2>2, <2>3, <2>4, <2>5
<1> HIDE DEF w, n
<1>7. w = LenBytes(n)
  <2>1. PICK h : h = LenBytes(n)
    OBVIOUS
  <2>2. h \in [1 .. WordLen -> Byte] /\ w \in [1 .. WordLen -> Byte]
    BY <1>4, <1>5, <2>1 DEF Word
  <2>3. \A i \in 1 .. WordLen : w[i] = h[i]
    BY <1>6, <2>1
  <2>4. w = [i \in 1 .. WordLen |-> w[i]] /\ h = [i \in 1 .. WordLen |-> h[i]]
    BY <2>2
  <2>5. [i \in 1 .. WordLen |-> w[i]] = [i \in 1 .. WordLen |-> h[i]]
    BY <2>3
  <2> QED
    BY <2>1, <2>4, <2>5
<1>8. receiveSize = LenValue(w)
  BY DEF receiveSize, w
<1>9. LenValue(LenBytes(n)) = n
  BY <1>4, WordAssumption
<1> QED
  BY <1>2, <1>7, <1>8, <1>9 DEF n

\* A byte of the length or the validity word is read.
LEMMA ScanStep ==
  ASSUME TypeInv, FlowInv, InOrderExactlyOnce,
         NEW start, NEW text, NEW from, Shape(start, text, from), ScanByte
  PROVE  Shape(start, text, from)' /\ AcceptedIsComplete' /\ InOrderExactlyOnce'
<1>a. PICK L : L = Len(rbytes)
  OBVIOUS
<1>b. PICK p : p = ReadAt(L + 1)
  OBVIOUS
<1>1. /\ rpc = "scan" /\ rpc' = "scan" /\ L < 2 * WordLen
      /\ rbytes' = Append(rbytes, receiveBuffer[ScanOffset])
      /\ UNCHANGED << sendVars, nicVars, receiveBuffer, readPos, received, avail >>
  BY <1>a DEF ScanByte
<1>2. /\ Layout(start)' /\ Sending(start)' /\ Text(start, text)' /\ Rings(text)'
      /\ Queue(text, from)' /\ PostedTo(from)' /\ InOrderExactlyOnce'
      /\ NextMsg' = NextMsg /\ NextDelivered' = NextDelivered
      /\ UNCHANGED << delivered, readPos >>
  BY <1>1, ReceiverKeeps
<1>3. /\ WordLen \in Nat \ {0} /\ 2 * WordLen <= Size /\ rbytes \in Seq(Byte) /\ L \in Nat
      /\ readPos \in Nat /\ delivered \in Nat
  BY <1>a, ByteAssumption DEF TypeInv, TypeOK
<1>4. L >= WordLen => /\ receiveSize \in Nat /\ receiveSize + 2 * WordLen <= Size
                      /\ receiveSize' = receiveSize
  <2> SUFFICES ASSUME L >= WordLen
               PROVE  /\ receiveSize \in Nat /\ receiveSize + 2 * WordLen <= Size
                      /\ receiveSize' = receiveSize
    OBVIOUS
  <2>1. receiveSize \in Nat /\ receiveSize + 2 * WordLen <= Size
    BY <1>a, LengthRead
  <2>2. SubSeq(rbytes', 1, WordLen) = SubSeq(rbytes, 1, WordLen)
    <3>1. receiveBuffer[ScanOffset] \in Byte
      <4>1. rbytes' \in Seq(Byte)
        BY TypeInvNext DEF Next, Receiver, TypeInv, TypeOK
      <4>2. rbytes'[L + 1] = receiveBuffer[ScanOffset] /\ L + 1 \in 1 .. Len(rbytes')
        BY <1>1, <1>3, <1>a
      <4> QED
        BY <4>1, <4>2
    <3>2. \A i \in 1 .. WordLen : rbytes'[i] = rbytes[i]
      BY <1>1, <1>3, <1>a, <3>1
    <3>3. SubSeq(rbytes', 1, WordLen) = [i \in 1 .. WordLen |-> rbytes'[i]]
      BY <1>3
    <3>4. SubSeq(rbytes, 1, WordLen) = [i \in 1 .. WordLen |-> rbytes[i]]
      BY <1>3
    <3> QED
      BY <3>2, <3>3, <3>4
  <2>3. receiveSize' = receiveSize
    BY <2>2 DEF receiveSize
  <2> QED
    BY <2>1, <2>3
<1> HIDE DEF receiveSize
<1>5. \A i \in 1 .. L + 1 : ReadAt(i)' = ReadAt(i)
  BY <1>2, <1>3, <1>4 DEF ReadAt
<1>6. p \in readPos .. readPos + Size - 1 /\ p \in Nat
  <2>1. L + 1 \in 1 .. 2 * WordLen /\ (L + 1 > WordLen => Len(rbytes) >= WordLen)
    BY <1>1, <1>3, <1>a
  <2> QED
    BY <1>b, <2>1, ReadInRing
<1>7. ScanOffset = Cell(p)
  <2>1. CASE L < WordLen
    <3>1. ScanOffset = OffsetOf(Slices(readPos, WordLen), L)
      BY <1>a, <2>1 DEF ScanOffset
    <3>2. WordLen \in 0 .. Size /\ L \in 0 .. WordLen - 1
      BY <1>3, <2>1, SizeAssumption
    <3>3. p = readPos + L
      BY <1>3, <1>b, <2>1 DEF ReadAt
    <3> QED
      BY <1>3, <3>1, <3>2, <3>3, OffsetIsCell
  <2>2. CASE ~ (L < WordLen)
    <3>1. ScanOffset = OffsetOf(Slices(readPos + WordLen + receiveSize, WordLen), L - WordLen)
      BY <1>a, <2>2 DEF ScanOffset
    <3>2. /\ WordLen \in 0 .. Size /\ L - WordLen \in 0 .. WordLen - 1
          /\ receiveSize \in Nat /\ readPos + WordLen + receiveSize \in Nat
      BY <1>1, <1>3, <1>4, <2>2, SizeAssumption
    <3>3. p = (readPos + WordLen + receiveSize) + (L - WordLen)
      BY <1>3, <1>b, <2>2, <3>2 DEF ReadAt
    <3> QED
      BY <3>1, <3>2, <3>3, OffsetIsCell
  <2> QED
    BY <2>1, <2>2
<1>8. receiveBuffer[Cell(p)] = IF p < delivered THEN text[p] ELSE 0
  <2>1. CASE p < delivered
    <3>1. p \in readPos .. delivered - 1
      BY <1>3, <1>6, <2>1
    <3> QED
      BY <1>1, <2>1, <3>1 DEF Shape, Rings, Cleared
  <2>2. CASE ~ (p < delivered)
    <3>1. p \in delivered .. readPos + Size - 1
      BY <1>3, <1>6, <2>2
    <3> QED
      BY <2>2, <3>1 DEF Shape, Rings
  <2> QED
    BY <2>1, <2>2
<1>9. /\ Len(rbytes') = L + 1 /\ \A i \in 1 .. L : rbytes'[i] = rbytes[i]
      /\ rbytes'[L + 1] = IF p < delivered THEN text[p] ELSE 0
  BY <1>1, <1>3, <1>7, <1>8, <1>a
<1>10. ASSUME NEW i \in 1 .. L + 1
       PROVE  i \in 1 .. L \/ (i = L + 1 /\ ReadAt(i) = p)
  BY <1>3, <1>b
<1>11. Scan(text)'
  <2>1. ASSUME NEW i \in 1 .. L + 1, rbytes'[i] # 0
        PROVE  ReadAt(i) < delivered /\ rbytes'[i] = text[ReadAt(i)]
    <3>1. CASE i \in 1 .. L
      BY <1>9, <1>a, <2>1, <3>1 DEF Shape, Scan
    <3>2. CASE i = L + 1 /\ ReadAt(i) = p
      BY <1>9, <2>1, <3>2
    <3> QED
      BY <1>10, <3>1, <3>2
  <2> QED
    BY <1>1, <1>2, <1>5, <1>9, <2>1 DEF Scan
<1>12. Ready(text)'
  <2> SUFFICES ASSUME avail
               PROVE  /\ NextDelivered
                      /\ \A i \in 1 .. L + 1 : ReadAt(i) < delivered /\ rbytes'[i] = text[ReadAt(i)]
    BY <1>1, <1>2, <1>5, <1>9 DEF Ready
  <2>1. /\ NextDelivered
        /\ \A i \in 1 .. L : ReadAt(i) < delivered /\ rbytes[i] = text[ReadAt(i)]
    BY <1>1, <1>a DEF Shape, Ready
  <2>2. p < delivered
    <3> DEFINE n == Len(NextMsg)
    <3>1. delivered >= readPos + FrameLen(n) /\ n \in Nat
      BY <2>1, NextFrame DEF NextDelivered
    <3> HIDE DEF n
    <3>2. CASE L < WordLen
      BY <1>3, <1>b, <3>1, <3>2 DEF ReadAt, FrameLen
    <3>3. CASE ~ (L < WordLen)
      <4>1. receiveSize = n
        BY <1>1, <1>3, <1>a, <3>3, ReadyLength DEF n
      <4> QED
        BY <1>1, <1>3, <1>b, <3>1, <3>3, <4>1 DEF ReadAt, FrameLen
    <3> QED
      BY <3>2, <3>3
  <2>3. ASSUME NEW i \in 1 .. L + 1
        PROVE  ReadAt(i) < delivered /\ rbytes'[i] = text[ReadAt(i)]
    <3>1. CASE i \in 1 .. L
      BY <1>9, <2>1, <3>1
    <3>2. CASE i = L + 1 /\ ReadAt(i) = p
      BY <1>9, <2>2, <3>2
    <3> QED
      BY <1>10, <3>1, <3>2
  <2> QED
    BY <2>1, <2>3
<1>13. AcceptedIsComplete'
  BY <1>1 DEF AcceptedIsComplete
<1> QED
  BY <1>2, <1>11, <1>12, <1>13 DEF Shape

\* The message is copied out.
LEMMA CopyDataStep ==
  ASSUME NoPhantom, TypeInv, FlowInv, InOrderExactlyOnce,
         NEW start, NEW text, NEW from, Shape(start, text, from), CopyData
  PROVE  Shape(start, text, from)' /\ AcceptedIsComplete' /\ InOrderExactlyOnce'
<1>1. /\ Scanned /\ rpc = "scan" /\ receiveValidity = Validity /\ rpc' = "zero"
      /\ rdata' = CopyOut(receiveBuffer, readPos + WordLen, receiveSize)
      /\ UNCHANGED << sendVars, nicVars, receiveBuffer, readPos, received, rbytes, avail >>
  BY DEF CopyData, Scanned
<1>2. /\ Layout(start)' /\ Sending(start)' /\ Text(start, text)' /\ Rings(text)'
      /\ Queue(text, from)' /\ PostedTo(from)' /\ InOrderExactlyOnce'
      /\ NextMsg' = NextMsg /\ NextDelivered' = NextDelivered
      /\ UNCHANGED << delivered, readPos >>
  <2>1. rpc # "advance" /\ rpc' # "advance"
    BY <1>1
  <2> QED
    BY <1>1, <2>1, ReceiverKeeps
<1>3. NextDelivered /\ receiveSize = Len(NextMsg)
  BY <1>1, Genuine
<1>4. CopyOut(receiveBuffer, readPos + WordLen, Len(NextMsg)) = NextMsg
  BY <1>1, <1>3, DataRead
<1>5. receiveSize' = receiveSize
  BY <1>1 DEF receiveSize
<1>6. AcceptedIsComplete'
  BY <1>1, <1>2, <1>3, <1>4, <1>5 DEF AcceptedIsComplete
<1>7. Scan(text)'
  <2>1. \A i : ReadAt(i)' = ReadAt(i)
    BY <1>2, <1>5 DEF ReadAt
  <2> QED
    BY <1>1, <1>2, <2>1 DEF Shape, Scan
<1>8. Ready(text)'
  BY <1>1, <1>2, <1>3 DEF Ready
<1> QED
  BY <1>2, <1>6, <1>7, <1>8 DEF Shape

\* Its frame is cleared.
LEMMA ZeroStep ==
  ASSUME TypeInv, FlowInv, AcceptedIsComplete, InOrderExactlyOnce,
         NEW start, NEW text, NEW from, Shape(start, text, from), Zero
  PROVE  Shape(start, text, from)' /\ AcceptedIsComplete' /\ InOrderExactlyOnce'
<1> DEFINE n == FrameLen(receiveSize)
<1>1. /\ rpc = "zero" /\ rpc' = "advance"
      /\ receiveBuffer' = Zeroed(receiveBuffer, readPos, n)
      /\ UNCHANGED << rbytes, rdata, readPos, received, avail, sendVars, nicVars >>
  BY DEF Zero, ZeroLen
<1>2. UNCHANGED << spc, part, msg, inln, startOfWrite, slice, sendPos, sendBuffer, sent, sq, done,
                   delivered, rbytes, rdata, readPos, received, avail >>
  BY <1>1 DEF sendVars, nicVars
<1>3. n \in 1 .. Size /\ readPos + n <= delivered
  BY <1>1, AcceptedLength
<1>4. readPos \in Nat /\ delivered \in Nat
  BY DEF TypeInv, TypeOK
<1>5. receiveSize' = receiveSize /\ n' = n
  BY <1>2 DEF receiveSize
<1> HIDE DEF n
<1>6. ASSUME NEW p \in readPos .. readPos + Size - 1
      PROVE  receiveBuffer'[Cell(p)] = IF p < readPos + n THEN 0 ELSE receiveBuffer[Cell(p)]
  <2>1. n \in 0 .. Size
    BY <1>3, SizeAssumption
  <2>2. Zeroed(receiveBuffer, readPos, n)[Cell(p)] = IF p < readPos + n THEN 0 ELSE receiveBuffer[Cell(p)]
    BY <1>4, <2>1, ZeroedCells
  <2> QED
    BY <1>1, <2>2
<1>7. \A p : (Cleared(p)' <=> p < readPos + n) /\ ~ Cleared(p)
  BY <1>1, <1>2, <1>5 DEF Cleared, n
<1>8. Rings(text)'
  <2>1. ASSUME NEW p \in readPos .. delivered - 1
        PROVE  receiveBuffer'[Cell(p)] = IF Cleared(p)' THEN 0 ELSE text[p]
    <3>1. p \in readPos .. readPos + Size - 1
      <4>1. delivered <= readPos + Size
        <5>1. /\ delivered <= from[Len(sq) + 1] /\ from[Len(sq) + 1] <= sendPos
              /\ sendPos <= readPos + Size /\ sendPos \in Nat /\ from[Len(sq) + 1] \in Nat
          BY Bounds
        <5> QED
          BY <1>4, <5>1, SizeAssumption
      <4> QED
        BY <1>4, <4>1, SizeAssumption
    <3>2. receiveBuffer[Cell(p)] = text[p]
      BY <1>7 DEF Shape, Rings
    <3> QED
      BY <1>6, <1>7, <3>1, <3>2
  <2>2. ASSUME NEW p \in delivered .. readPos + Size - 1
        PROVE  receiveBuffer'[Cell(p)] = 0
    <3>1. p \in readPos .. readPos + Size - 1 /\ ~ (p < readPos + n)
      BY <1>3, <1>4, SizeAssumption
    <3>2. receiveBuffer[Cell(p)] = 0
      BY DEF Shape, Rings
    <3> QED
      BY <1>6, <3>1, <3>2
  <2>3. readPos <= delivered /\ \A p \in delivered .. sendPos - 1 : sendBuffer[Cell(p)] = text[p]
    BY DEF Shape, Rings
  <2> QED
    BY <1>2, <2>1, <2>2, <2>3 DEF Rings
<1>9. Layout(start)' /\ Sending(start)' /\ Text(start, text)'
  BY <1>2, KeepFrames DEF Shape
<1>10. Queue(text, from)' /\ PostedTo(from)'
  BY <1>2, KeepQueue DEF Shape
<1>11. NextMsg' = NextMsg /\ NextDelivered' = NextDelivered
  BY <1>2 DEF NextMsg, NextDelivered
<1>12. Scan(text)' /\ Ready(text)'
  <2>1. \A i : ReadAt(i)' = ReadAt(i)
    BY <1>2, <1>5 DEF ReadAt
  <2>2. Scan(text)'
    BY <1>1, <1>2, <2>1 DEF Shape, Scan
  <2>3. Ready(text)'
    BY <1>1, <1>2, <1>11 DEF Shape, Ready
  <2> QED
    BY <2>2, <2>3
<1>13. AcceptedIsComplete' /\ InOrderExactlyOnce'
  <2>1. AcceptedIsComplete'
    BY <1>1, <1>2, <1>5, <1>11 DEF AcceptedIsComplete
  <2>2. InOrderExactlyOnce'
    BY <1>2 DEF InOrderExactlyOnce
  <2> QED
    BY <2>1, <2>2
<1> QED
  BY <1>8, <1>9, <1>10, <1>12, <1>13 DEF Shape

\* The sender is given its room back, and the message to the application.
LEMMA AdvanceStep ==
  ASSUME TypeInv, FlowInv, AcceptedIsComplete, InOrderExactlyOnce,
         NEW start, NEW text, NEW from, Shape(start, text, from), Advance
  PROVE  Shape(start, text, from)' /\ AcceptedIsComplete' /\ InOrderExactlyOnce'
<1> DEFINE n == FrameLen(receiveSize)
<1>1. /\ rpc = "advance" /\ rpc' = "idle" /\ rbytes' = << >> /\ avail' = FALSE
      /\ readPos' = readPos + n /\ received' = Append(received, rdata)
      /\ UNCHANGED << sendVars, nicVars, receiveBuffer >>
  BY DEF Advance
<1>2. UNCHANGED << spc, part, msg, inln, startOfWrite, slice, sendPos, sendBuffer, sent, sq, done,
                   delivered, receiveBuffer >>
  BY <1>1 DEF sendVars, nicVars
<1>3. /\ n \in 1 .. Size /\ readPos + n <= delivered
      /\ Len(received) < Len(sent) /\ receiveSize = Len(NextMsg) /\ rdata = NextMsg
  BY <1>1, AcceptedLength
<1>4. readPos \in Nat /\ delivered \in Nat /\ sent \in Seq(Seq(Byte))
  BY DEF TypeInv, TypeOK
<1>a. PICK R : R = Len(received)
  OBVIOUS
<1>5. received \in Seq(Seq(Byte)) /\ R \in Nat /\ start[R + 1] = readPos
  BY <1>a DEF Shape, Layout
<1>6. R + 1 \in 1 .. Len(sent) /\ NextMsg = sent[R + 1] /\ NextMsg \in Seq(Byte)
  BY <1>3, <1>4, <1>5, <1>a DEF NextMsg
<1>7. /\ received' \in Seq(Seq(Byte)) /\ Len(received') = R + 1
      /\ received'[R + 1] = sent[R + 1] /\ \A k \in 1 .. R : received'[k] = received[k]
  BY <1>1, <1>3, <1>5, <1>6, <1>a
<1>8. readPos' = start[(R + 1) + 1]
  BY <1>1, <1>3, <1>5, <1>6 DEF Shape, Layout
<1> HIDE DEF n
<1>9. Layout(start)'
  <2>1. Len(received') <= Len(sent) /\ start[Len(received') + 1] = readPos'
    BY <1>4, <1>6, <1>7, <1>8
  <2> QED
    BY <1>2, <1>7, <2>1 DEF Shape, Layout
<1>10. Sending(start)' /\ Text(start, text)'
  <2>1. PartOffset' = PartOffset
    BY <1>2 DEF PartOffset
  <2> QED
    BY <1>2, <2>1 DEF Shape, Sending, Text
<1>11. Queue(text, from)' /\ PostedTo(from)'
  BY <1>2, KeepQueue DEF Shape
<1>12. Rings(text)'
  <2>1. /\ \A p \in delivered .. sendPos - 1 : sendBuffer[Cell(p)] = text[p]
        /\ \A p \in readPos .. delivered - 1 :
             receiveBuffer[Cell(p)] = IF p < readPos + n THEN 0 ELSE text[p]
        /\ \A p \in delivered .. readPos + Size - 1 : receiveBuffer[Cell(p)] = 0
    BY <1>1 DEF Shape, Rings, Cleared, n
  <2>2. \A p : ~ Cleared(p)'
    BY <1>1 DEF Cleared
  <2>3. ASSUME NEW p \in readPos' .. delivered - 1
        PROVE  receiveBuffer[Cell(p)] = text[p]
    <3>1. p \in readPos .. delivered - 1 /\ ~ (p < readPos + n)
      BY <1>1, <1>3, <1>4
    <3> QED
      BY <2>1, <3>1
  <2>4. ASSUME NEW p \in delivered .. readPos' + Size - 1
        PROVE  receiveBuffer[Cell(p)] = 0
    <3>1. CASE p \in delivered .. readPos + Size - 1
      BY <2>1, <3>1
    <3>2. CASE p \in readPos + Size .. readPos + n + Size - 1
      <4> DEFINE q == p - Size
      <4>1. /\ q \in readPos .. delivered - 1 /\ q < readPos + n /\ q \in Nat /\ p = q + Size
        BY <1>3, <1>4, <3>2, SizeAssumption
      <4>2. Cell(p) = Cell(q)
        BY <4>1, CellRepeats
      <4> QED
        BY <2>1, <4>1, <4>2
    <3> QED
      BY <1>1, <1>3, <1>4, <3>1, <3>2, SizeAssumption
  <2> QED
    BY <1>1, <1>2, <1>3, <2>1, <2>2, <2>3, <2>4 DEF Rings
<1>13. Scan(text)' /\ Ready(text)'
  <2>1. Len(rbytes') = 0 /\ 1 .. 0 = {}
    BY <1>1
  <2> QED
    BY <1>1, <2>1 DEF Scan, Ready
<1>14. AcceptedIsComplete'
  BY <1>1 DEF AcceptedIsComplete
<1>15. InOrderExactlyOnce'
  <2>1. Len(received') <= Len(sent)
    BY <1>4, <1>6, <1>7
  <2>2. ASSUME NEW i \in 1 .. R + 1
        PROVE  received'[i] = sent[i]
    <3>1. i \in 1 .. R \/ i = R + 1
      BY <1>5
    <3>2. DOMAIN received = 1 .. R
      BY <1>5, <1>a
    <3>3. \A k \in 1 .. R : received[k] = sent[k]
      BY <3>2 DEF InOrderExactlyOnce
    <3> QED
      BY <1>7, <3>1, <3>3
  <2> QED
    BY <1>2, <1>7, <2>1, <2>2 DEF InOrderExactlyOnce
<1> QED
  BY <1>9, <1>10, <1>11, <1>12, <1>13, <1>14, <1>15 DEF Shape

-----------------------------------------------------------------------------
(* Delivery.                                                               *)

LEMMA DeliveryInit == Init => DeliveryInv
BY TypeInvInit, FlowInvInit, ShapeInit DEF DeliveryInv

\* A step that changes nothing the shape is about.
LEMMA StutterStep ==
  ASSUME TypeInv, AcceptedIsComplete, InOrderExactlyOnce,
         NEW start, NEW text, NEW from, Shape(start, text, from),
         FetchReadPos \/ UNCHANGED vars
  PROVE  Shape(start, text, from)' /\ AcceptedIsComplete' /\ InOrderExactlyOnce'
BY KeepShape DEF FetchReadPos, vars, sendVars, nicVars, recvVars

LEMMA DeliveryNext ==
  ASSUME NoPhantom, DeliveryInv, [Next]_vars
  PROVE  DeliveryInv'
<1>1. TypeInv /\ FlowInv /\ AcceptedIsComplete /\ InOrderExactlyOnce
  BY DEF DeliveryInv
<1>2. TypeInv' /\ FlowInv'
  BY <1>1, TypeInvNext, FlowInvNext
<1>3. PICK start, text, from : Shape(start, text, from)
  BY DEF DeliveryInv
<1> SUFFICES /\ AcceptedIsComplete' /\ InOrderExactlyOnce'
             /\ \E start2, text2, from2 : Shape(start2, text2, from2)'
  BY <1>2 DEF DeliveryInv
<1>4. ASSUME NEW d \in Payloads, NEW inl \in BOOLEAN, Send(d, inl)
      PROVE  /\ AcceptedIsComplete' /\ InOrderExactlyOnce'
             /\ \E start2, text2, from2 : Shape(start2, text2, from2)'
  BY <1>1, <1>3, <1>4, SendStep
<1>5. CASE WritePart
  BY <1>1, <1>3, <1>5, WriteStep
<1>6. CASE PostRead
  BY <1>1, <1>3, <1>6, PostReadStep
<1>7. CASE Poll
  BY <1>1, <1>3, <1>7, PollStep
<1>8. CASE PostSlice
  BY <1>1, <1>3, <1>8, PostSliceStep
<1>9. CASE DeliverByte
  BY <1>1, <1>3, <1>9, DeliverStep
<1>10. CASE CompleteRead
  BY <1>1, <1>3, <1>10, CompleteReadStep
<1>11. CASE FetchReadPos \/ UNCHANGED vars
  BY <1>1, <1>3, <1>11, StutterStep
<1>12. CASE HasData \/ \E cap \in RecvCaps \cup {NoCap} : Receive(cap)
  BY <1>1, <1>3, <1>12, BeginStep
<1>13. CASE ScanByte
  BY <1>1, <1>3, <1>13, ScanStep
<1>14. CASE Answer \/ Retry \/ TooBig
  BY <1>1, <1>3, <1>14, GiveUpStep
<1>15. CASE CopyData
  BY <1>1, <1>3, <1>15, CopyDataStep
<1>16. CASE Zero
  BY <1>1, <1>3, <1>16, ZeroStep
<1>17. CASE Advance
  BY <1>1, <1>3, <1>17, AdvanceStep
<1> QED
  BY <1>4, <1>5, <1>6, <1>7, <1>8, <1>9, <1>10, <1>11, <1>12, <1>13, <1>14, <1>15, <1>16, <1>17
  DEF Next, Sender, Nic, Receiver

LEMMA DeliveryHolds == NoPhantom => (Spec => []DeliveryInv)
<1> SUFFICES ASSUME NoPhantom PROVE Spec => []DeliveryInv
  OBVIOUS
<1> QED
  BY DeliveryInit, DeliveryNext, PTL DEF Spec

\* receive() returns what send() was called with, message after message, whatever
\* the two rings, the two threads and the card do.
THEOREM InOrderDelivery == NoPhantom => (Spec => []InOrderExactlyOnce)
<1>1. DeliveryInv => InOrderExactlyOnce
  BY DEF DeliveryInv
<1> SUFFICES ASSUME NoPhantom PROVE Spec => []InOrderExactlyOnce
  OBVIOUS
<1>2. Spec => []DeliveryInv
  BY DeliveryHolds
<1> QED
  BY <1>1, <1>2, PTL

\* A receive() that takes a validity word for genuine has all of the next message.
THEOREM AcceptedWhole == NoPhantom => (Spec => []AcceptedIsComplete)
<1>1. DeliveryInv => AcceptedIsComplete
  BY DEF DeliveryInv
<1> SUFFICES ASSUME NoPhantom PROVE Spec => []AcceptedIsComplete
  OBVIOUS
<1>2. Spec => []DeliveryInv
  BY DeliveryHolds
<1> QED
  BY <1>1, <1>2, PTL

\* "We always write to zero'ed memory": the cells the sender may fill are clear.
THEOREM WritesToZeroedMemory == NoPhantom => (Spec => []FreeIsZero)
<1>1. DeliveryInv => FreeIsZero
  BY DEF DeliveryInv, Shape, Rings, FreeIsZero
<1> SUFFICES ASSUME NoPhantom PROVE Spec => []FreeIsZero
  OBVIOUS
<1>2. Spec => []DeliveryInv
  BY DeliveryHolds
<1> QED
  BY <1>1, <1>2, PTL

\* What hasData() has promised a later receive() finds at once.
THEOREM HasDataKeepsItsWord == NoPhantom => (Spec => []HasDataNonBlocking)
<1>1. ASSUME DeliveryInv, avail, Scanned
      PROVE  receiveValidity = Validity
  <2>1. TypeInv /\ FlowInv
    BY <1>1 DEF DeliveryInv
  <2>2. PICK start, text, from : Shape(start, text, from)
    BY <1>1 DEF DeliveryInv
  <2> DEFINE n == Len(NextMsg)
  <2>3. WordLen \in Nat \ {0} /\ rbytes \in Seq(Byte) /\ readPos \in Nat
    BY <2>1, ByteAssumption DEF TypeInv, TypeOK
  <2>4. rpc = "scan" /\ Len(rbytes) = 2 * WordLen
    BY <1>1 DEF Scanned
  <2>5. NextDelivered /\ receiveSize = n
    BY <1>1, <2>1, <2>2, <2>3, <2>4, ReadyLength
  <2>6. /\ NextMsg \in Seq(Byte) /\ FrameLen(n) <= Size
        /\ \A i \in 0 .. FrameLen(n) - 1 : text[readPos + i] = FrameByte(NextMsg, i)
    BY <2>1, <2>2, <2>5, NextFrame DEF NextDelivered
  <2>7. n \in Nat /\ Validity \in Seq(Byte) /\ Len(Validity) = WordLen
    BY <2>6, FrameWords
  <2> HIDE DEF n
  <2>8. ASSUME NEW i \in 1 .. WordLen
        PROVE  rbytes[WordLen + i] = Validity[i]
    <3>1. WordLen + i \in 1 .. Len(rbytes)
      BY <2>3, <2>4
    <3>2. rbytes[WordLen + i] = text[ReadAt(WordLen + i)]
      BY <1>1, <2>2, <2>4, <3>1 DEF Shape, Ready
    <3>3. ReadAt(WordLen + i) = readPos + (WordLen + n + i - 1)
      BY <2>3, <2>5, <2>7 DEF ReadAt
    <3>4. WordLen + n + i - 1 \in 0 .. FrameLen(n) - 1
      BY <2>3, <2>7 DEF FrameLen
    <3>5. FrameByte(NextMsg, WordLen + n + i - 1) = Validity[i]
      <4>1. /\ ~ (WordLen + n + i - 1 < WordLen) /\ ~ (WordLen + n + i - 1 < WordLen + n)
            /\ (WordLen + n + i - 1) - WordLen - n + 1 = i
        BY <2>3, <2>7
      <4> QED
        BY <4>1 DEF FrameByte, n
    <3> QED
      BY <2>6, <3>2, <3>3, <3>4, <3>5
  <2>9. receiveValidity = [i \in 1 .. WordLen |-> rbytes[WordLen + i]]
    <3>1. receiveValidity = SubSeq(rbytes, WordLen + 1, 2 * WordLen)
      BY DEF receiveValidity
    <3>2. SubSeq(rbytes, WordLen + 1, 2 * WordLen) \in Seq(Byte)
          /\ Len(SubSeq(rbytes, WordLen + 1, 2 * WordLen)) = WordLen
      BY <2>3, <2>4
    <3>3. \A i \in 1 .. WordLen : SubSeq(rbytes, WordLen + 1, 2 * WordLen)[i] = rbytes[WordLen + i]
      BY <2>3, <2>4
    <3>4. PICK v : v = SubSeq(rbytes, WordLen + 1, 2 * WordLen)
      OBVIOUS
    <3>5. v \in Seq(Byte) /\ Len(v) = WordLen /\ \A i \in 1 .. WordLen : v[i] = rbytes[WordLen + i]
      BY <3>2, <3>3, <3>4
    <3>6. v = [i \in 1 .. WordLen |-> v[i]]
      BY <3>5
    <3>7. [i \in 1 .. WordLen |-> v[i]] = [i \in 1 .. WordLen |-> rbytes[WordLen + i]]
      BY <3>5
    <3> QED
      BY <3>1, <3>4, <3>6, <3>7
  <2>10. Validity = [i \in 1 .. WordLen |-> Validity[i]]
    BY <2>7
  <2> QED
    BY <2>8, <2>9, <2>10
<1>2. DeliveryInv /\ avail => NextDelivered
  BY DEF DeliveryInv, Shape, Ready
<1>3. DeliveryInv => HasDataNonBlocking
  BY <1>1, <1>2 DEF HasDataNonBlocking
<1> SUFFICES ASSUME NoPhantom PROVE Spec => []HasDataNonBlocking
  OBVIOUS
<1>4. Spec => []DeliveryInv
  BY DeliveryHolds
<1> QED
  BY <1>3, <1>4, PTL

\* The card does not write to an accepted frame.
THEOREM AcceptedUntouched == NoPhantom => (Spec => AcceptedStable)
<1> DEFINE A == DeliverByte /\ (rpc \in {"zero", "advance"}) =>
                  \A i \in 0 .. FrameLen(receiveSize) - 1 :
                    receiveBuffer'[Cell(readPos + i)] = receiveBuffer[Cell(readPos + i)]
<1>1. ASSUME DeliveryInv PROVE A
  <2> SUFFICES ASSUME DeliverByte, rpc \in {"zero", "advance"},
                      NEW i \in 0 .. FrameLen(receiveSize) - 1
               PROVE  receiveBuffer'[Cell(readPos + i)] = receiveBuffer[Cell(readPos + i)]
    OBVIOUS
  <2>1. TypeInv /\ FlowInv /\ AcceptedIsComplete
    BY <1>1 DEF DeliveryInv
  <2>2. PICK start, text, from : Shape(start, text, from)
    BY <1>1 DEF DeliveryInv
  <2>3. /\ FrameLen(receiveSize) \in 1 .. Size
        /\ readPos + FrameLen(receiveSize) <= delivered
    BY <2>1, <2>2, AcceptedLength
  <2>4. readPos \in Nat /\ delivered \in Nat
    BY <2>1 DEF TypeInv, TypeOK
  <2>5. readPos + i \in readPos .. readPos + Size - 1 /\ readPos + i # delivered
    <3> HIDE DEF receiveSize
    <3> QED
      BY <2>3, <2>4, SizeAssumption
  <2> QED
    BY <2>1, <2>2, <2>5, DeliverCells
<1> SUFFICES ASSUME NoPhantom PROVE Spec => AcceptedStable
  OBVIOUS
<1>2. Spec => []DeliveryInv
  BY DeliveryHolds
<1> HIDE DEF A
<1>3. Spec => [][A]_vars
  BY <1>1, <1>2, PTL DEF Spec
<1> QED
  BY <1>3 DEF AcceptedStable, A

\* The card is not past a request behind the first one.
LEMMA NotPlaced ==
  ASSUME TypeInv, NEW text, NEW from, Queue(text, from), NEW k \in 1 .. Len(sq), k # 1
  PROVE  delivered <= from[k]
<1>1. sq \in Seq(WorkRequest) /\ done \in Nat /\ delivered \in Nat
  BY DEF TypeInv, TypeOK
<1>2. 1 \in 1 .. Len(sq) /\ sq # << >> /\ Head(sq) = sq[1] /\ 2 <= k /\ k <= Len(sq)
  BY <1>1
<1>3. /\ SliceLen(sq[1]) \in Nat /\ from[1] \in Nat /\ from[1] + done = delivered
      /\ from[1 + 1] = from[1] + SliceLen(sq[1]) /\ from[k] \in Nat
  <2>1. SliceLen(sq[1]) \in Nat /\ from[1] \in Nat /\ from[1 + 1] = from[1] + SliceLen(sq[1])
    BY <1>2, QueuePositions
  <2>2. from[k] \in Nat
    BY QueuePositions
  <2> QED
    BY <2>1, <2>2 DEF Queue
<1>4. done <= SliceLen(sq[1])
  <2>1. CASE Head(sq).op = "write"
    <3>1. done < SliceLen(sq[1])
      BY <1>2, <2>1 DEF TypeInv, QueueShape
    <3> QED
      BY <1>1, <1>3, <3>1
  <2>2. CASE Head(sq).op # "write"
    <3>1. done = 0
      BY <1>2, <2>2 DEF TypeInv, QueueShape
    <3> QED
      BY <1>3, <3>1
  <2> QED
    BY <2>1, <2>2
<1>5. from[2] <= from[k]
  <2>1. Len(from) = Len(sq) + 1 /\ \A a, b \in 1 .. Len(from) : a <= b => from[a] <= from[b]
    BY DEF Queue
  <2>2. 2 \in 1 .. Len(from) /\ k \in 1 .. Len(from)
    BY <1>1, <1>2, <2>1
  <2> QED
    BY <1>2, <2>1, <2>2
<1>6. from[2] = from[1] + SliceLen(sq[1])
  BY <1>3
<1> QED
  BY <1>1, <1>3, <1>4, <1>5, <1>6

\* A later send() does not write to the bytes of a posted one that the card has
\* still to read.
THEOREM InFlightUntouched == NoPhantom => (Spec => InFlightStable)
<1> DEFINE A == \A k \in DOMAIN sq : sq[k].op = "write" /\ ~ sq[k].inln =>
                  \A c \in Offsets :
                    /\ sq[k].begin + (IF k = 1 THEN done ELSE 0) <= c /\ c < sq[k].end
                    => sendBuffer'[c] = sendBuffer[c]
<1>1. ASSUME [Next]_vars PROVE WritePart \/ UNCHANGED sendBuffer
  BY <1>1 DEF Next, Sender, Nic, Receiver, Send, PostRead, Poll, PostSlice, DeliverByte,
     FetchReadPos, CompleteRead, Receive, HasData, ScanByte, Answer, Retry, TooBig, CopyData,
     Zero, Advance, vars, sendVars
<1>2. ASSUME DeliveryInv, [Next]_vars PROVE A
  <2>1. CASE UNCHANGED sendBuffer
    BY <2>1
  <2>2. CASE WritePart
    <3> SUFFICES ASSUME NEW k \in DOMAIN sq, sq[k].op = "write", NEW c \in Offsets,
                        sq[k].begin + (IF k = 1 THEN done ELSE 0) <= c, c < sq[k].end
                 PROVE  sendBuffer'[c] = sendBuffer[c]
      OBVIOUS
    <3>1. TypeInv /\ FlowInv
      BY <1>2 DEF DeliveryInv
    <3>2. PICK start, text, from : Shape(start, text, from)
      BY <1>2 DEF DeliveryInv
    <3>3. k \in 1 .. Len(sq) /\ sq[k] \in WorkRequest /\ done \in Nat
      BY <3>1 DEF TypeInv, TypeOK
    <3>4. Queue(text, from) /\ sq[k].begin = Cell(from[k]) /\ from[1] + done = delivered
      BY <3>2, <3>3 DEF Shape, Queue
    <3>5. /\ from[k] \in Nat /\ from[1] \in Nat /\ from[1] <= from[k]
          /\ \A i \in 0 .. SliceLen(sq[k]) - 1 :
               from[k] + i \in Nat /\ from[k] + i < from[Len(sq) + 1]
      BY <3>1, <3>3, <3>4, QueuePositions
    <3>6. sq[k].begin \in 0 .. Size /\ sq[k].end \in 0 .. Size /\ c \in 0 .. Size - 1
      BY <3>3 DEF WorkRequest, Offsets
    <3>a. PICK b : b = sq[k].begin
      OBVIOUS
    <3>b. b \in 0 .. Size /\ b <= c /\ c - b < SliceLen(sq[k]) /\ (k = 1 => b + done <= c)
      BY <3>3, <3>6, <3>a, SizeAssumption DEF SliceLen
    <3>7. PICK i : i = c - b
      OBVIOUS
    <3>8. /\ i \in 0 .. SliceLen(sq[k]) - 1 /\ i \in 0 .. Size - 1 /\ b + i = c
          /\ k = 1 => done <= i
      <4>1. SliceLen(sq[k]) \in Nat
        BY <3>1, <3>3, <3>4, QueuePositions
      <4> QED
        BY <3>3, <3>6, <3>7, <3>b, <4>1, SizeAssumption
    <3>9. Cell(from[k] + i) = c
      <4>1. Cell(from[k] + i) = IF b + i < Size THEN b + i ELSE b + i - Size
        BY <3>4, <3>5, <3>8, <3>a, CellAhead
      <4>2. b + i < Size
        BY <3>6, <3>8, SizeAssumption
      <4> QED
        BY <3>8, <4>1, <4>2
    <3>10. from[k] + i \in readPos .. sendPos - 1
      <4>1. /\ readPos \in Nat /\ delivered \in Nat /\ sendPos \in Nat
            /\ from[Len(sq) + 1] \in Nat /\ readPos <= delivered /\ from[Len(sq) + 1] <= sendPos
        BY <3>1, <3>2, Bounds
      <4>2. from[k] + i \in Nat /\ from[k] + i < sendPos
        BY <3>5, <3>8, <4>1
      <4>3. readPos <= from[k] + i
        <5>1. CASE k = 1
          BY <3>3, <3>4, <3>5, <3>8, <4>1, <5>1
        <5>2. CASE k # 1
          <6>1. delivered <= from[k]
            BY <3>1, <3>3, <3>4, <5>2, NotPlaced
          <6>2. i \in Nat
            BY <3>8
          <6> QED
            BY <3>5, <4>1, <6>1, <6>2
        <5> QED
          BY <5>1, <5>2
      <4> QED
        BY <4>1, <4>2, <4>3
    <3> QED
      BY <2>2, <3>1, <3>9, <3>10, WriteKeeps
  <2> QED
    BY <1>1, <1>2, <2>1, <2>2
<1> SUFFICES ASSUME NoPhantom PROVE Spec => InFlightStable
  OBVIOUS
<1>3. Spec => []DeliveryInv
  BY DeliveryHolds
<1> HIDE DEF A
<1>4. Spec => [][A]_vars
  BY <1>2, <1>3, PTL DEF Spec
<1> QED
  BY <1>4 DEF InFlightStable, A

-----------------------------------------------------------------------------
(* The send queue.  A request holds its slot until send() has taken the    *)
(* completion of a later read, so the slots taken are those of the frames  *)
(* behind the readPos that read brought.  A frame is no shorter than its   *)
(* two words; at most one of those frames is cut in two, because they fit  *)
(* in one ring.                                                            *)

Words == 2 * WordLen

\* The end of the ring lies between the readPos that the sender knows and p.
Crossed(p) == p - Cell(p) > currentRemoteReceive

\* n requests, for the frames up to p.
Fits(n, p) ==
  \/ Words * n <= p - currentRemoteReceive
  \/ Crossed(p) /\ Words * (n - 1) <= p - currentRemoteReceive

Slots ==
  /\ spc # "failed"
  /\ \A k \in 1 .. Len(sq) : sq[k].op = "read" => sq[k].signaled
  /\ spc = "idle"  => Fits(outstanding, sendPos)
  /\ spc = "write" => Fits(outstanding, startOfWrite)
  /\ spc = "post"  => Fits(outstanding - (slice - 1), startOfWrite)
  /\ spc = "poll"  => IF cq = << >> THEN sq # << >> /\ sq[Len(sq)].signaled ELSE sq = << >>
  /\ spc \in {"write", "poll", "post"} => currentRemoteReceive <= startOfWrite

LEMMA WordsType == Words \in Nat /\ Words > 0
BY ByteAssumption DEF Words

LEMMA WordsMore ==
  ASSUME NEW a \in Int
  PROVE  Words * a \in Int /\ Words * (a + 1) = Words * a + Words /\ Words * (a - 1) = Words * a - Words
BY WordsType

LEMMA WordsFewer ==
  ASSUME NEW a \in Int, NEW b \in Int, Words * a < Words * b
  PROVE  a < b
<1> SUFFICES ASSUME a >= b PROVE FALSE
  OBVIOUS
<1>1. PICK k : k = a - b
  OBVIOUS
<1>2. k \in Nat /\ a = b + k
  BY <1>1
<1>3. Words * a = Words * b + Words * k
  BY <1>2, WordsType
<1>4. Words * k >= 0
  BY <1>2, WordsType
<1>5. Words * a \in Int /\ Words * b \in Int /\ Words * k \in Int
  BY <1>2, WordsType
<1> QED
  BY <1>3, <1>4, <1>5

\* What fits leaves a slot free.
LEMMA SlotFree ==
  ASSUME EnoughSlots, NEW n \in Int, NEW x \in Int, x <= Size, Words * (n - 1) <= x
  PROVE  n < MaxSendWr
<1>1. MaxSendWr \in Nat /\ Size \in Nat /\ Words \in Nat
  BY ParameterAssumption, SizeAssumption, WordsType
<1>2. Size < Words * (MaxSendWr - 1)
  BY DEF EnoughSlots, Words
<1>3. Words * (n - 1) \in Int /\ Words * (MaxSendWr - 1) \in Int
  BY <1>1
<1>4. Words * (n - 1) < Words * (MaxSendWr - 1)
  BY <1>1, <1>2, <1>3
<1>5. n - 1 < MaxSendWr - 1
  BY <1>1, <1>4, WordsFewer
<1> QED
  BY <1>1, <1>5

LEMMA FitsWeaker ==
  ASSUME NEW n \in Int, NEW p \in Int, currentRemoteReceive \in Nat, Fits(n, p)
  PROVE  Words * (n - 1) <= p - currentRemoteReceive
<1>1. Words * n \in Int /\ Words * (n - 1) = Words * n - Words /\ Words \in Nat
  BY WordsMore, WordsType
<1>2. CASE Words * n <= p - currentRemoteReceive
  BY <1>1, <1>2
<1>3. CASE Words * (n - 1) <= p - currentRemoteReceive
  BY <1>3
<1> QED
  BY <1>2, <1>3 DEF Fits

\* A frame that is not cut adds one request.
LEMMA FitsWhole ==
  ASSUME NEW n \in Int, NEW p \in Nat, NEW len \in Nat, len >= Words, len <= Size,
         currentRemoteReceive \in Nat, Cell(p) + len <= Size, Fits(n, p)
  PROVE  Fits(n + 1, p + len)
<1> DEFINE c == currentRemoteReceive
<1>1. /\ Words * n \in Int /\ Words * (n + 1) = Words * n + Words
      /\ Words * (n - 1) = Words * n - Words /\ Words \in Nat
  BY WordsMore, WordsType
<1>2. CASE Words * n <= p - c
  <2>1. Words * (n + 1) <= (p + len) - c
    BY <1>1, <1>2
  <2> QED
    BY <2>1 DEF Fits
<1>3. CASE Crossed(p) /\ Words * (n - 1) <= p - c
  <2>1. Words * ((n + 1) - 1) <= (p + len) - c
    <3>1. (n + 1) - 1 = n
      OBVIOUS
    <3> QED
      BY <1>1, <1>3, <3>1
  <2>2. Crossed(p + len)
    <3>1. Cell(p) \in 0 .. Size - 1 /\ p - Cell(p) > c
      BY <1>3, CellDecomposes DEF Crossed
    <3>2. Cell(p + len) <= Cell(p) + len /\ Cell(p + len) \in Int
      <4>1. CASE len < Size
        <5>1. len \in 0 .. Size - 1
          BY <4>1, SizeAssumption
        <5>2. Cell(p + len) = IF Cell(p) + len < Size THEN Cell(p) + len ELSE Cell(p) + len - Size
          BY <5>1, CellAhead
        <5> QED
          BY <3>1, <5>2, SizeAssumption
      <4>2. CASE len = Size
        <5>1. Cell(p + len) = Cell(p)
          BY <4>2, CellRepeats
        <5> QED
          BY <3>1, <5>1, SizeAssumption
      <4> QED
        BY <4>1, <4>2, SizeAssumption
    <3> QED
      BY <3>1, <3>2, SizeAssumption DEF Crossed
  <2> QED
    BY <2>1, <2>2 DEF Fits
<1> QED
  BY <1>2, <1>3 DEF Fits

\* One that is cut adds two, once.
LEMMA FitsCut ==
  ASSUME NEW n \in Int, NEW p \in Nat, NEW len \in Nat, len >= Words, len <= Size,
         currentRemoteReceive \in Nat, currentRemoteReceive <= p,
         p + len <= currentRemoteReceive + Size,
         Cell(p) + len > Size, Fits(n, p)
  PROVE  Fits(n + 2, p + len)
<1> DEFINE c == currentRemoteReceive
<1>1. /\ Words * n \in Int /\ Words * (n + 1) = Words * n + Words /\ Words \in Nat
  BY WordsMore, WordsType
<1>2. Cell(p) \in 0 .. Size - 1
  BY CellDecomposes
<1>3. ~ Crossed(p)
  BY <1>2, SizeAssumption DEF Crossed
<1>4. Words * n <= p - c
  BY <1>3 DEF Fits
<1>5. Words * ((n + 2) - 1) <= (p + len) - c
  <2>1. (n + 2) - 1 = n + 1
    OBVIOUS
  <2> QED
    BY <1>1, <1>4, <2>1
<1>6. Crossed(p + len)
  <2>1. Cell(p + len) = Cell(p) + len - Size
    <3>1. CASE len < Size
      <4>1. len \in 0 .. Size - 1
        BY <3>1, SizeAssumption
      <4>2. Cell(p + len) = IF Cell(p) + len < Size THEN Cell(p) + len ELSE Cell(p) + len - Size
        BY <4>1, CellAhead
      <4> QED
        BY <1>2, <4>2, SizeAssumption
    <3>2. CASE len = Size
      <4>1. Cell(p + len) = Cell(p)
        BY <3>2, CellRepeats
      <4> QED
        BY <1>2, <3>2, <4>1, SizeAssumption
    <3> QED
      BY <3>1, <3>2, SizeAssumption
  <2> QED
    BY <1>2, <2>1, SizeAssumption DEF Crossed
<1> QED
  BY <1>5, <1>6 DEF Fits

LEMMA SlotsInit == Init => Slots
<1> SUFFICES ASSUME Init PROVE Slots
  OBVIOUS
<1>1. /\ spc = "idle" /\ sq = << >> /\ outstanding = 0 /\ sendPos = 0 /\ currentRemoteReceive = 0
  BY DEF Init
<1>2. Words * 0 = 0 /\ Len(<< >>) = 0
  BY WordsType
<1>3. Fits(0, 0)
  BY <1>1, <1>2 DEF Fits
<1> QED
  BY <1>1, <1>2, <1>3 DEF Slots

\* A step that leaves the sender and its queue alone.
LEMMA KeepSlots ==
  ASSUME Slots, UNCHANGED << spc, sq, cq, outstanding, sendPos, startOfWrite, slice, currentRemoteReceive >>
  PROVE  Slots'
<1>1. \A n, p : Fits(n, p)' <=> Fits(n, p)
  BY DEF Fits, Crossed
<1>2. /\ spc' = "idle"  => Fits(outstanding, sendPos)'
      /\ spc' = "write" => Fits(outstanding, startOfWrite)'
      /\ spc' = "post"  => Fits(outstanding - (slice - 1), startOfWrite)'
  BY DEF Slots, Fits, Crossed
<1> QED
  BY <1>2 DEF Slots

\* The card finishes its first request.
LEMMA FinishSlots ==
  ASSUME TypeInv, AskedOnce, Slots, sq # << >>, Finish(Head(sq)),
         UNCHANGED << spc, outstanding, sendPos, startOfWrite, slice >>,
         currentRemoteReceive' = currentRemoteReceive
           \/ (spc = "poll" /\ currentRemoteReceive' <= startOfWrite)
  PROVE  Slots'
<1>1. sq \in Seq(WorkRequest) /\ Len(sq) \in Nat \ {0} /\ cq \in Seq({0, ReadId})
  BY DEF TypeInv, TypeOK
<1>2. sq' = Tail(sq) /\ cq' = IF sq[1].signaled THEN Append(cq, sq[1].id) ELSE cq
  BY <1>1 DEF Finish
<1>3. Len(sq') = Len(sq) - 1 /\ \A k \in 1 .. Len(sq) - 1 : sq'[k] = sq[k + 1]
  BY <1>1, <1>2
<1>4. \A k \in 1 .. Len(sq') : sq'[k].op = "read" => sq'[k].signaled
  BY <1>1, <1>3 DEF Slots
<1>5. /\ spc # "failed"
      /\ spc \in {"write", "poll", "post"} => currentRemoteReceive' <= startOfWrite
  BY DEF Slots
<1>6. spc = "poll" => IF cq' = << >> THEN sq' # << >> /\ sq'[Len(sq')].signaled ELSE sq' = << >>
  <2> SUFFICES ASSUME spc = "poll"
               PROVE  IF cq' = << >> THEN sq' # << >> /\ sq'[Len(sq')].signaled ELSE sq' = << >>
    OBVIOUS
  <2>1. cq = << >> /\ sq[Len(sq)].signaled
    BY DEF Slots
  <2>2. CASE Len(sq) = 1
    <3>1. sq' = << >>
      BY <1>1, <1>2, <2>2
    <3>2. cq' = Append(cq, sq[1].id) /\ sq[1] \in WorkRequest
      BY <1>1, <1>2, <2>1, <2>2
    <3>3. cq' # << >>
      BY <2>1, <3>2
    <3> QED
      BY <3>1, <3>3
  <2>3. CASE Len(sq) # 1
    <3>1. 1 \in 1 .. Len(sq) /\ Len(sq) \in 1 .. Len(sq) /\ Len(sq) - 1 \in 1 .. Len(sq) - 1
      <4>1. PICK L : L = Len(sq)
        OBVIOUS
      <4>2. L \in Nat /\ L # 0 /\ L # 1
        BY <1>1, <2>3, <4>1
      <4>3. 1 \in 1 .. L /\ L \in 1 .. L /\ L - 1 \in 1 .. L - 1
        BY <4>2
      <4> QED
        BY <4>1, <4>3
    <3>2. ~ sq[1].signaled
      BY <2>1, <2>3, <3>1 DEF AskedOnce
    <3>3. cq' = << >> /\ Len(sq') # 0
      BY <1>1, <1>2, <1>3, <2>1, <2>3, <3>2
    <3>4. sq'[Len(sq')] = sq[Len(sq)]
      <4>1. (Len(sq) - 1) + 1 = Len(sq)
        BY <1>1
      <4> QED
        BY <1>3, <3>1, <4>1
    <3> QED
      BY <2>1, <3>3, <3>4
  <2> QED
    BY <2>2, <2>3
<1>7. CASE spc = "poll"
  BY <1>4, <1>5, <1>6, <1>7 DEF Slots
<1>8. CASE currentRemoteReceive' = currentRemoteReceive
  <2>1. /\ spc' = "idle"  => Fits(outstanding, sendPos)'
        /\ spc' = "write" => Fits(outstanding, startOfWrite)'
        /\ spc' = "post"  => Fits(outstanding - (slice - 1), startOfWrite)'
    BY <1>8 DEF Slots, Fits, Crossed
  <2> QED
    BY <1>4, <1>5, <1>6, <2>1 DEF Slots
<1> QED
  BY <1>7, <1>8

\* A request that is posted is not unsignaled if it is a read.
LEMMA PostedReads ==
  ASSUME TypeInv, Slots, NEW wr \in WorkRequest, wr.begin <= wr.end,
         wr.op = "read" => wr.signaled, sq' = Append(sq, Posted(wr))
  PROVE  /\ Len(sq') = Len(sq) + 1 /\ sq'[Len(sq')].signaled = wr.signaled /\ sq' # << >>
         /\ \A k \in 1 .. Len(sq') : sq'[k].op = "read" => sq'[k].signaled
<1> DEFINE pw == Posted(wr)
<1>1. pw \in WorkRequest /\ pw.op = wr.op /\ pw.signaled = wr.signaled
  BY PostedType DEF TypeInv
<1>2. sq \in Seq(WorkRequest) /\ Len(sq) \in Nat
  BY DEF TypeInv, TypeOK
<1> HIDE DEF pw
<1>3. /\ Len(sq') = Len(sq) + 1 /\ sq'[Len(sq) + 1] = pw /\ sq' # << >>
      /\ \A k \in 1 .. Len(sq) : sq'[k] = sq[k]
  BY <1>1, <1>2 DEF pw
<1>4. ASSUME NEW k \in 1 .. Len(sq'), sq'[k].op = "read"
      PROVE  sq'[k].signaled
  <2>1. k \in 1 .. Len(sq) \/ k = Len(sq) + 1
    BY <1>2, <1>3
  <2> QED
    BY <1>1, <1>3, <1>4, <2>1 DEF Slots
<1> QED
  BY <1>1, <1>3, <1>4

\* The position at which the last frame begins is not before the readPos the sender
\* knows, nor before the one it is told next.
LEMMA StartAhead ==
  ASSUME TypeInv, FlowInv, NEW start, NEW text, NEW from, Shape(start, text, from),
         spc \in {"write", "poll"}
  PROVE  readPos <= startOfWrite
<1>1. from[Len(sq) + 1] = startOfWrite
  BY DEF Shape, PostedTo
<1>2. /\ readPos \in Nat /\ delivered \in Nat /\ from[Len(sq) + 1] \in Nat
      /\ readPos <= delivered /\ delivered <= from[Len(sq) + 1]
  BY Bounds
<1> QED
  BY <1>1, <1>2

LEMMA SlotsNext ==
  ASSUME EnoughSlots, DeliveryInv, AskedOnce, Slots, [Next]_vars
  PROVE  Slots'
<1> DEFINE c == currentRemoteReceive
<1>1. TypeInv /\ FlowInv
  BY DEF DeliveryInv
<1>2. PICK start, text, from : Shape(start, text, from)
  BY DEF DeliveryInv
<1>3. /\ c \in Nat /\ sendPos \in Nat /\ startOfWrite \in Nat /\ outstanding \in Nat
      /\ readPos \in Nat /\ sq \in Seq(WorkRequest) /\ slice \in 1 .. 2
      /\ sendPos <= c + Size /\ c <= readPos /\ (resp # -1 => resp <= readPos) /\ Size \in Nat
  BY <1>1, SizeAssumption DEF TypeInv, TypeOK, FlowInv
<1>4. ASSUME NEW d \in Payloads, NEW inl \in BOOLEAN, Send(d, inl)
      PROVE  Slots'
  <2>1. /\ spc = "idle" /\ spc' = "write" /\ startOfWrite' = sendPos
        /\ UNCHANGED << sq, cq, outstanding, currentRemoteReceive >>
    BY <1>4 DEF Send, nicVars
  <2>2. c <= sendPos
    <3>1. readPos <= delivered /\ delivered <= from[Len(sq) + 1] /\ from[Len(sq) + 1] <= sendPos
          /\ delivered \in Nat /\ from[Len(sq) + 1] \in Nat
      BY <1>1, <1>2, Bounds
    <3> QED
      BY <1>3, <3>1
  <2>3. Fits(outstanding, startOfWrite)'
    BY <2>1 DEF Slots, Fits, Crossed
  <2> QED
    BY <2>1, <2>2, <2>3 DEF Slots
<1>5. CASE WritePart
  <2>1. /\ spc = "write" /\ spc' \in {"write", "post"}
        /\ UNCHANGED << startOfWrite, slice, sq, cq, outstanding, currentRemoteReceive >>
    BY <1>5 DEF WritePart, nicVars
  <2>2. slice = 1 /\ outstanding - (slice - 1) = outstanding
    BY <1>1, <1>3, <2>1 DEF TypeInv, FrameFits
  <2>3. Fits(outstanding, startOfWrite)'
    BY <2>1 DEF Slots, Fits, Crossed
  <2>4. Fits(outstanding - (slice - 1), startOfWrite)'
    BY <2>1, <2>2, <2>3 DEF Fits, Crossed
  <2> QED
    BY <2>1, <2>3, <2>4 DEF Slots
<1>6. CASE PostRead
  <2>1. /\ spc = "write" /\ Post(ReadWr, "poll")
        /\ UNCHANGED << cq, startOfWrite, currentRemoteReceive >>
    BY <1>6 DEF PostRead
  <2>2. outstanding < MaxSendWr
    <3>1. Words * (outstanding - 1) <= startOfWrite - c
      BY <1>3, <2>1, FitsWeaker DEF Slots
    <3>2. startOfWrite <= sendPos
      BY <1>1, <1>2, <2>1, Bounds DEF Shape, PostedTo
    <3>3. startOfWrite - c \in Int /\ startOfWrite - c <= Size
      BY <1>3, <3>2
    <3> QED
      BY <1>3, <3>1, <3>3, SlotFree
  <2>3. sq' = Append(sq, Posted(ReadWr)) /\ spc' = "poll"
    BY <2>1, <2>2 DEF Post
  <2>4. /\ ReadWr \in WorkRequest /\ ReadWr.begin <= ReadWr.end /\ ReadWr.signaled = TRUE
    BY ReadWrType
  <2>5. /\ Len(sq') = Len(sq) + 1 /\ sq'[Len(sq')].signaled = ReadWr.signaled /\ sq' # << >>
        /\ \A k \in 1 .. Len(sq') : sq'[k].op = "read" => sq'[k].signaled
    BY <1>1, <2>3, <2>4, PostedReads
  <2>6. cq = << >>
    BY <2>1 DEF AskedOnce
  <2> QED
    BY <2>1, <2>3, <2>4, <2>5, <2>6 DEF Slots
<1>7. CASE Poll
  <2>1. /\ spc = "poll" /\ cq # << >> /\ spc' = IF Head(cq) = ReadId THEN "write" ELSE "poll"
        /\ outstanding' = Len(sq) /\ UNCHANGED << sq, startOfWrite, currentRemoteReceive >>
    BY <1>7 DEF Poll, SlotsAfterPoll
  <2>2. cq = << ReadId >> /\ sq = << >>
    BY <2>1 DEF AskedOnce, Slots
  <2>3. spc' = "write" /\ outstanding' = 0 /\ sq' = << >> /\ Len(<< >>) = 0
    BY <2>1, <2>2
  <2>4. c <= startOfWrite
    BY <2>1 DEF Slots
  <2>5. Fits(outstanding, startOfWrite)'
    <3>1. Words * 0 = 0
      BY WordsType
    <3> QED
      BY <1>3, <2>1, <2>3, <2>4, <3>1 DEF Fits
  <2> QED
    BY <2>1, <2>3, <2>4, <2>5 DEF Slots
<1>8. CASE PostSlice
  <2> DEFINE n  == FrameLen(Len(msg))
             sl == Slices(startOfWrite, n)
             s  == sl[slice]
             wr == WriteWr(s, inln /\ SliceLen(s) <= MaxInline)
             m  == outstanding - (slice - 1)
  <2>1. /\ spc = "post" /\ Post(wr, IF slice = Len(sl) THEN "idle" ELSE "post")
        /\ slice' = IF slice = Len(sl) THEN 1 ELSE slice + 1
        /\ UNCHANGED << startOfWrite, sendPos, cq, currentRemoteReceive >>
    BY <1>8 DEF PostSlice
  <2>2. n \in 1 .. Size /\ n >= Words /\ n \in Nat
    <3>1. Len(msg) \in Nat /\ n <= Size
      BY <1>1 DEF TypeInv, TypeOK, FrameFits
    <3>2. n = Len(msg) + 2 * WordLen /\ n > Len(msg) /\ WordLen \in Nat
      BY <3>1, FrameLenType, ByteAssumption DEF FrameLen
    <3>3. n \in Nat /\ n > 0 /\ n >= Words
      <4>1. PICK l : l = Len(msg)
        OBVIOUS
      <4> HIDE DEF n
      <4>3. n = l + 2 * WordLen /\ n > l /\ l \in Nat
        BY <3>1, <3>2, <4>1
      <4> QED
        BY <3>2, <4>3 DEF Words
    <3> QED
      BY <1>3, <3>1, <3>3
  <2>3. slice \in 1 .. Len(sl)
    BY <1>1, <1>3, <2>1 DEF TypeInv, FrameFits
  <2>4. sendPos = startOfWrite + n
    <3>1. /\ Len(sent) \in Nat \ {0} /\ msg = sent[Len(sent)] /\ startOfWrite = start[Len(sent)]
          /\ sendPos = start[Len(sent) + 1]
      BY <1>2, <2>1 DEF Shape, Sending
    <3>2. Len(sent) \in 1 .. Len(sent) /\ Layout(start)
      BY <1>2, <3>1 DEF Shape
    <3> QED
      BY <1>1, <3>1, <3>2, FramePositions
  <2>5. Fits(m, startOfWrite) /\ c <= startOfWrite /\ m \in Int
    BY <1>3, <2>1 DEF Slots
  <2>6. \/ Len(sl) = 1 /\ Cell(startOfWrite) + n <= Size
        \/ Len(sl) = 2 /\ Cell(startOfWrite) + n > Size
    <3>1. n \in 0 .. Size
      BY <1>3, <2>2
    <3> QED
      BY <1>3, <3>1, SlicesCut
  <2>7. /\ wr \in WorkRequest /\ wr.op = "write" /\ wr.begin <= wr.end
    <3>1. s.begin \in 0 .. Size /\ s.end \in 0 .. Size /\ s.begin < s.end
      BY <1>3, <2>2, <2>3, SliceInRing
    <3>2. inln \in BOOLEAN
      BY <1>1 DEF TypeInv, TypeOK
    <3>3. wr \in WorkRequest /\ wr.op = "write" /\ wr.begin = s.begin /\ wr.end = s.end
      BY <3>1, <3>2, WriteWrType
    <3> QED
      BY <1>3, <3>1, <3>3
  <2> HIDE DEF wr, s, sl, n
  <2>8. outstanding < MaxSendWr
    <3>1. Words * (m - 1) <= startOfWrite - c
      BY <1>3, <2>5, FitsWeaker
    <3>2. startOfWrite + n - c <= Size /\ startOfWrite - c \in Int
      BY <1>3, <2>2, <2>4
    <3>3. CASE slice = 1
      <4>1. outstanding = m /\ startOfWrite - c <= Size
        BY <1>3, <2>2, <3>2, <3>3
      <4> QED
        BY <1>3, <3>1, <3>2, <4>1, SlotFree
    <3>4. CASE slice = 2
      <4>1. outstanding = m + 1 /\ outstanding - 1 = m /\ Words \in Nat
        BY <1>3, <3>4, WordsType
      <4>2. Words * m \in Int /\ Words * (m - 1) = Words * m - Words
        BY <2>5, WordsMore
      <4> HIDE DEF m
      <4>3. Words * m <= startOfWrite + n - c
        BY <1>3, <2>2, <2>5, <3>1, <4>1, <4>2
      <4>4. Words * (outstanding - 1) <= startOfWrite + n - c
        BY <4>1, <4>3
      <4>5. startOfWrite + n - c \in Int /\ outstanding \in Int
        BY <1>3, <2>2
      <4> QED
        BY <3>2, <4>4, <4>5, SlotFree
    <3> QED
      BY <1>3, <3>3, <3>4
  <2>9. /\ sq' = Append(sq, Posted(wr)) /\ outstanding' = outstanding + 1
        /\ spc' = IF slice = Len(sl) THEN "idle" ELSE "post"
    BY <2>1, <2>8 DEF Post
  <2>10. \A k \in 1 .. Len(sq') : sq'[k].op = "read" => sq'[k].signaled
    BY <1>1, <2>7, <2>9, PostedReads
  <2>11. CASE slice = Len(sl) /\ Len(sl) = 1
    <3>1. m = outstanding /\ outstanding' = m + 1
      BY <1>3, <2>9, <2>11
    <3>2. Fits(m + 1, startOfWrite + n)
      BY <1>3, <2>2, <2>5, <2>6, <2>11, FitsWhole
    <3>3. Fits(outstanding, sendPos)'
      BY <2>1, <2>4, <3>1, <3>2 DEF Fits, Crossed
    <3> QED
      BY <2>9, <2>10, <2>11, <3>3 DEF Slots
  <2>12. CASE slice = Len(sl) /\ Len(sl) = 2
    <3>1. outstanding' = m + 2
      BY <1>3, <2>9, <2>12
    <3>2. startOfWrite + n <= c + Size
      BY <1>3, <2>4
    <3>3. Fits(m + 2, startOfWrite + n)
      BY <1>3, <2>2, <2>5, <2>6, <2>12, <3>2, FitsCut
    <3>4. Fits(outstanding, sendPos)'
      BY <2>1, <2>4, <3>1, <3>3 DEF Fits, Crossed
    <3> QED
      BY <2>9, <2>10, <2>12, <3>4 DEF Slots
  <2>13. CASE slice # Len(sl)
    <3>1. spc' = "post" /\ slice' = slice + 1
      BY <2>1, <2>9, <2>13
    <3>2. outstanding' - (slice' - 1) = m
      BY <1>3, <2>9, <3>1
    <3>3. Fits(outstanding - (slice - 1), startOfWrite)'
      BY <2>1, <2>5, <3>2 DEF Fits, Crossed
    <3> QED
      BY <2>1, <2>5, <2>10, <3>1, <3>3 DEF Slots
  <2> QED
    BY <2>6, <2>11, <2>12, <2>13
<1>9. CASE DeliverByte
  <2>1. /\ sq # << >> /\ UNCHANGED << spc, outstanding, sendPos, startOfWrite, slice, currentRemoteReceive >>
        /\ Finish(Head(sq)) \/ UNCHANGED << sq, cq >>
    BY <1>9 DEF DeliverByte, sendVars
  <2> QED
    BY <1>1, <2>1, FinishSlots, KeepSlots
<1>10. CASE CompleteRead
  <2>1. /\ resp # -1 /\ c' = resp /\ Finish(Head(sq))
        /\ UNCHANGED << spc, outstanding, sendPos, startOfWrite, slice >>
    BY <1>10 DEF CompleteRead, sendVars
  <2>2. sq # << >> /\ Head(sq).op = "read" /\ Head(sq) = sq[1] /\ 1 \in 1 .. Len(sq)
    BY <1>1, <1>3, <2>1 DEF TypeInv, QueueShape
  <2>3. spc = "poll"
    BY <2>2 DEF Slots, AskedOnce
  <2>4. c' <= startOfWrite
    <3>1. readPos <= startOfWrite
      BY <1>1, <1>2, <2>3, StartAhead
    <3>2. resp \in Nat
      BY <1>1, <2>1 DEF TypeInv, TypeOK
    <3> QED
      BY <1>3, <2>1, <3>1, <3>2
  <2> QED
    BY <1>1, <2>1, <2>2, <2>3, <2>4, FinishSlots
<1>11. CASE FetchReadPos \/ UNCHANGED vars
  BY <1>11, KeepSlots DEF FetchReadPos, vars, sendVars, nicVars
<1>12. CASE HasData \/ ScanByte \/ Answer \/ Retry \/ TooBig \/ CopyData \/ Zero \/ Advance
  BY <1>12, KeepSlots DEF HasData, ScanByte, Answer, Retry, TooBig, CopyData, Zero, Advance,
     sendVars, nicVars
<1>13. ASSUME NEW cap \in RecvCaps \cup {NoCap}, Receive(cap)
       PROVE  Slots'
  BY <1>13, KeepSlots DEF Receive, sendVars, nicVars
<1> QED
  BY <1>4, <1>5, <1>6, <1>7, <1>8, <1>9, <1>10, <1>11, <1>12, <1>13 DEF Next, Sender, Nic, Receiver

LEMMA SlotsHold == NoPhantom /\ EnoughSlots => (Spec => [](AskedOnce /\ Slots))
<1> SUFFICES ASSUME NoPhantom, EnoughSlots PROVE Spec => [](AskedOnce /\ Slots)
  OBVIOUS
<1>1. Spec => []DeliveryInv
  BY DeliveryHolds
<1>2. TypeInv /\ AskedOnce /\ [Next]_vars => AskedOnce'
  BY AskedOnceNext
<1>3. DeliveryInv => TypeInv
  BY DEF DeliveryInv
<1>4. Spec => []AskedOnce
  BY <1>1, <1>2, <1>3, AskedOnceInit, PTL DEF Spec
<1>5. DeliveryInv /\ AskedOnce /\ Slots /\ [Next]_vars => Slots'
  BY SlotsNext
<1> QED
  BY <1>1, <1>4, <1>5, SlotsInit, PTL DEF Spec

\* postWorkRequest never throws out of a send(): although its own writes report no
\* completion, the send queue has a slot for each of them.
THEOREM AlwaysASlot == NoPhantom /\ EnoughSlots => (Spec => []SendQueueNeverFull)
<1> SUFFICES ASSUME NoPhantom, EnoughSlots PROVE Spec => []SendQueueNeverFull
  OBVIOUS
<1>1. AskedOnce /\ Slots => SendQueueNeverFull
  BY DEF Slots, SendQueueNeverFull
<1> QED
  BY <1>1, SlotsHold, PTL

-----------------------------------------------------------------------------
(* The abstract queue.  A message is in it from the write of its footer to *)
(* the step that moves readPos past it; every other step leaves it alone.  *)

\* A message more at the end of what the queue shows is one appended to it.
LEMMA QueueGrows ==
  ASSUME NEW S, NEW s \in Seq(S), NEW a \in 1 .. Len(s)
  PROVE  SubSeq(s, a, Len(s)) = Append(SubSeq(s, a, Len(s) - 1), s[Len(s)])
<1> DEFINE n == Len(s)
<1>1. n \in Nat /\ a \in 1 .. n
  OBVIOUS
<1>2. /\ SubSeq(s, a, n) \in Seq(S) /\ Len(SubSeq(s, a, n)) = n - a + 1
      /\ \A i \in 1 .. n - a + 1 : SubSeq(s, a, n)[i] = s[a + i - 1]
  BY <1>1
<1>3. /\ SubSeq(s, a, n - 1) \in Seq(S) /\ Len(SubSeq(s, a, n - 1)) = n - a
      /\ \A i \in 1 .. n - a : SubSeq(s, a, n - 1)[i] = s[a + i - 1]
  BY <1>1
<1> QED
  BY <1>1, <1>2, <1>3

\* What is appended behind it does not change it.
LEMMA QueueSees ==
  ASSUME NEW S, NEW s \in Seq(S), NEW x \in S, NEW a \in 1 .. Len(s) + 1
  PROVE  SubSeq(Append(s, x), a, Len(s)) = SubSeq(s, a, Len(s))
OBVIOUS

\* A frame behind another one begins behind it.
LEMMA StartOrder ==
  ASSUME TypeInv, NEW start, Layout(start),
         NEW a \in 1 .. Len(sent) + 1, NEW b \in 1 .. Len(sent) + 1, start[a] <= start[b]
  PROVE  a <= b
<1> SUFFICES ASSUME b < a PROVE FALSE
  OBVIOUS
<1>1. Len(sent) \in Nat
  BY DEF TypeInv, TypeOK
<1>2. b \in 1 .. Len(sent) /\ a \in 1 .. Len(start) /\ b \in 1 .. Len(start)
  BY <1>1 DEF Layout
<1>3. start[b] + FrameLen(Len(sent[b])) <= start[a]
  BY <1>2 DEF Layout
<1>6. start[a] \in Nat /\ start[b] \in Nat
  BY <1>2, SMTT(30) DEF Layout
<1>4. Len(sent[b]) \in Nat
  BY <1>2, FramePositions
<1>5. FrameLen(Len(sent[b])) \in Nat /\ FrameLen(Len(sent[b])) > Len(sent[b])
  BY <1>4, FrameLenType
<1> QED
  BY <1>3, <1>4, <1>5, <1>6

\* The message that send() is still writing has not been received, ...
LEMMA UnfinishedAhead ==
  ASSUME TypeInv, FlowInv, NEW start, NEW text, NEW from, Shape(start, text, from), Unfinished
  PROVE  Len(received) + 1 \in 1 .. Len(sent)
<1>1. spc \in {"write", "poll"} /\ readPos <= startOfWrite
  BY StartAhead DEF Unfinished
<1>2. /\ Len(sent) \in Nat \ {0} /\ startOfWrite = start[Len(sent)]
      /\ Layout(start)
  BY <1>1 DEF Shape, Sending
<1>3. /\ Len(received) \in Nat /\ Len(received) <= Len(sent)
      /\ start[Len(received) + 1] = readPos
  BY <1>2 DEF Layout
<1>4. Len(received) + 1 <= Len(sent)
  <2>1. Len(received) + 1 \in 1 .. Len(sent) + 1 /\ Len(sent) \in 1 .. Len(sent) + 1
    BY <1>2, <1>3
  <2> QED
    BY <1>1, <1>2, <1>3, <2>1, StartOrder
<1> QED
  BY <1>2, <1>3, <1>4

\* ... and is not the one a receive() has accepted.
LEMMA AcceptedFinished ==
  ASSUME TypeInv, FlowInv, AcceptedIsComplete, NEW start, NEW text, NEW from,
         Shape(start, text, from), rpc = "advance", Unfinished
  PROVE  Len(received) + 2 \in 1 .. Len(sent)
<1> DEFINE n == FrameLen(receiveSize)
<1>1. /\ n \in 1 .. Size /\ readPos + n <= delivered
      /\ Len(received) < Len(sent) /\ receiveSize = Len(NextMsg)
  BY AcceptedLength
<1>2. spc \in {"write", "poll"} /\ from[Len(sq) + 1] = startOfWrite
  BY DEF Unfinished, Shape, PostedTo
<1>3. /\ Len(sent) \in Nat \ {0} /\ startOfWrite = start[Len(sent)]
      /\ Layout(start)
  BY <1>2 DEF Shape, Sending
<1>4. Len(received) + 1 \in 1 .. Len(sent) /\ Len(received) \in Nat
  BY UnfinishedAhead
<1>5. start[(Len(received) + 1) + 1] = readPos + n
  BY <1>1, <1>3, <1>4 DEF Layout, NextMsg
<1>6. /\ readPos \in Nat /\ delivered \in Nat /\ delivered <= from[Len(sq) + 1]
      /\ from[Len(sq) + 1] \in Nat
  BY Bounds
<1> HIDE DEF n
<1>7. start[Len(received) + 2] <= start[Len(sent)]
  BY <1>1, <1>2, <1>3, <1>4, <1>5, <1>6
<1>8. Len(received) + 2 \in 1 .. Len(sent) + 1 /\ Len(sent) \in 1 .. Len(sent) + 1
  BY <1>3, <1>4
<1>9. Len(received) + 2 <= Len(sent)
  BY <1>3, <1>7, <1>8, StartOrder
<1> QED
  BY <1>3, <1>4, <1>9


\* The footer goes in: the message is put.
LEMMA PutStep ==
  ASSUME TypeInv, FlowInv, NEW start, NEW text, NEW from, Shape(start, text, from),
         WritePart, part = "footer"
  PROVE  Fifo!Next
<1> DEFINE m == sent[Len(sent)]
<1>1. /\ spc = "write" /\ spc' = "post" /\ sendPos' = sendPos + Len(PartBytes(part, msg))
      /\ Len(PartBytes(part, msg)) <= SafeToWrite
      /\ UNCHANGED << msg, startOfWrite, sent, received, readPos >>
  BY DEF WritePart, recvVars
<1>2. Unfinished /\ ~ Unfinished'
  BY <1>1 DEF Unfinished
<1>3. /\ Len(sent) \in Nat \ {0} /\ msg = m /\ sendPos = startOfWrite + (WordLen + Len(m))
      /\ Layout(start)
  <2>1. PartOffset = WordLen + Len(msg)
    BY DEF PartOffset
  <2>2. Len(sent) \in Nat \ {0} /\ msg = m /\ sendPos = startOfWrite + PartOffset /\ Layout(start)
    BY <1>1 DEF Shape, Sending
  <2> QED
    BY <2>1, <2>2
<1>4. /\ m \in Payloads /\ Len(m) \in Nat /\ WordLen \in Nat /\ startOfWrite \in Nat /\ readPos \in Nat
      /\ sendPos \in Nat /\ currentRemoteReceive \in Nat /\ currentRemoteReceive <= readPos
      /\ sent \in Seq(Seq(Byte)) /\ Size \in Nat
  <2>1. Len(sent) \in 1 .. Len(sent)
    BY <1>3
  <2>2. m \in Payloads /\ m \in Seq(Byte)
    BY <1>3, <2>1, FramePositions
  <2>3. Len(m) \in Nat
    BY <2>2
  <2>4. /\ startOfWrite \in Nat /\ readPos \in Nat /\ sendPos \in Nat /\ currentRemoteReceive \in Nat
        /\ currentRemoteReceive <= readPos /\ sent \in Seq(Seq(Byte))
    BY DEF TypeInv, TypeOK, FlowInv
  <2> QED
    BY <2>2, <2>3, <2>4, ByteAssumption, SizeAssumption
<1>5. Len(PartBytes(part, msg)) = WordLen
  <2>1. PartBytes(part, msg) = Validity
    BY DEF PartBytes
  <2> QED
    BY <2>1, <1>4, ByteAssumption DEF Word
<1>6. Len(received) + 1 \in 1 .. Len(sent)
  BY <1>2, UnfinishedAhead
<1>7. SubSeq(sent, Len(received) + 1, Len(sent))
        = Append(SubSeq(sent, Len(received) + 1, Len(sent) - 1), m)
  BY <1>4, <1>6, QueueGrows
<1>8. sendPos' - readPos = (startOfWrite - readPos) + MsgCost(m)
  <2>1. sendPos' = sendPos + WordLen /\ MsgCost(m) = WordLen + Len(m) + WordLen
    BY <1>1, <1>5 DEF MsgCost, FrameLen
  <2> HIDE DEF m
  <2> QED
    BY <1>3, <1>4, <2>1
<1>9. (startOfWrite - readPos) + MsgCost(m) <= Size
  <2>1. WordLen <= Size - (sendPos - currentRemoteReceive) /\ MsgCost(m) = WordLen + Len(m) + WordLen
    BY <1>1, <1>5 DEF MsgCost, FrameLen, SafeToWrite
  <2> HIDE DEF m
  <2> QED
    BY <1>3, <1>4, <2>1
<1>10. Fifo!Put(m)
  BY <1>1, <1>2, <1>7, <1>8, <1>9 DEF Fifo!Put
<1> QED
  BY <1>4, <1>10 DEF Fifo!Next

\* readPos moves: the first message of the queue is got.
LEMMA GetStep ==
  ASSUME TypeInv, FlowInv, AcceptedIsComplete, NEW start, NEW text, NEW from,
         Shape(start, text, from), Advance
  PROVE  Fifo!Next
<1> DEFINE n == FrameLen(receiveSize)
           e == IF Unfinished THEN Len(sent) - 1 ELSE Len(sent)
           u == IF Unfinished THEN startOfWrite ELSE sendPos
<1>1. /\ rpc = "advance" /\ readPos' = readPos + n /\ received' = Append(received, rdata)
      /\ UNCHANGED << spc, startOfWrite, sendPos, sent >>
  BY DEF Advance, sendVars
<1>2. /\ n \in 1 .. Size /\ Len(received) < Len(sent) /\ receiveSize = Len(NextMsg)
      /\ rdata = NextMsg
  BY <1>1, AcceptedLength
<1>3. /\ readPos \in Nat /\ startOfWrite \in Nat /\ sendPos \in Nat /\ sent \in Seq(Seq(Byte))
      /\ received \in Seq(Seq(Byte))
  BY DEF TypeInv, TypeOK, Shape, Layout
<1>4. Len(received) + 1 \in 1 .. Len(sent) /\ NextMsg \in Seq(Byte)
  BY <1>2, <1>3 DEF NextMsg
<1>5. e \in Len(received) + 1 .. Len(sent)
  <2>1. CASE Unfinished
    <3>1. Len(received) + 2 \in 1 .. Len(sent)
      BY <1>1, <2>1, AcceptedFinished
    <3> QED
      BY <1>3, <2>1, <3>1
  <2>2. CASE ~ Unfinished
    BY <1>3, <1>4, <2>2
  <2> QED
    BY <2>1, <2>2
<1>6. e' = e /\ u' = u /\ u \in Nat
  BY <1>1, <1>3 DEF Unfinished
<1>7. Len(received') = Len(received) + 1
  BY <1>1, <1>2, <1>3, <1>4
<1> HIDE DEF e, u
<1>8. /\ Head(SubSeq(sent, Len(received) + 1, e)) = NextMsg
      /\ Tail(SubSeq(sent, Len(received) + 1, e)) = SubSeq(sent, Len(received) + 2, e)
      /\ SubSeq(sent, Len(received) + 1, e) # << >>
  <2>1. PICK a : a = Len(received) + 1
    OBVIOUS
  <2>2. a + 1 = Len(received) + 2
    BY <1>3, <2>1
  <2>3. /\ Head(SubSeq(sent, a, e)) = sent[a]
        /\ Tail(SubSeq(sent, a, e)) = SubSeq(sent, a + 1, e)
    BY <1>3, <1>4, <1>5, <2>1, HeadTailOfSubSeq
  <2>4. SubSeq(sent, a, e) # << >>
    <3>1. a \in 1 .. Len(sent) /\ e \in a .. Len(sent)
      BY <1>4, <1>5, <2>1
    <3>2. Len(SubSeq(sent, a, e)) = e - a + 1
      BY <1>3, <3>1
    <3>3. e - a + 1 # 0
      BY <3>1
    <3> QED
      BY <3>2, <3>3
  <2> QED
    BY <2>1, <2>2, <2>3, <2>4 DEF NextMsg
<1>9. SubSeq(sent, Len(received) + 1, e)' = SubSeq(sent, Len(received) + 2, e)
  <2>1. (Len(received) + 1)' = Len(received) + 2
    BY <1>3, <1>7
  <2> QED
    BY <1>1, <1>6, <2>1
<1>10. (u - readPos)' = (u - readPos) - MsgCost(NextMsg)
  <2>1. MsgCost(NextMsg) = n
    BY <1>2 DEF MsgCost
  <2>2. n \in Nat
    BY <1>2, SizeAssumption
  <2> HIDE DEF n
  <2> QED
    BY <1>1, <1>3, <1>6, <2>1, <2>2
<1>11. Fifo!Get
  BY <1>8, <1>9, <1>10 DEF Fifo!Get, e, u
<1> QED
  BY <1>11 DEF Fifo!Next

\* Every other step leaves the queue alone.
LEMMA QueueStays ==
  ASSUME DeliveryInv, SendQueueNeverFull', [Next]_vars, ~ Advance, ~ (WritePart /\ part = "footer")
  PROVE  UNCHANGED Fifo!vars
<1> DEFINE e == IF Unfinished THEN Len(sent) - 1 ELSE Len(sent)
           u == IF Unfinished THEN startOfWrite ELSE sendPos
<1>1. TypeInv /\ FlowInv
  BY DEF DeliveryInv
<1>2. PICK start, text, from : Shape(start, text, from)
  BY DEF DeliveryInv
<1> SUFFICES UNCHANGED << SubSeq(sent, Len(received) + 1, e), u - readPos >>
  BY DEF Fifo!vars
<1>3. ASSUME NEW d \in Payloads, NEW inl \in BOOLEAN, Send(d, inl)
      PROVE  UNCHANGED << SubSeq(sent, Len(received) + 1, e), u - readPos >>
  <2>1. /\ spc = "idle" /\ spc' = "write" /\ startOfWrite' = sendPos /\ sent' = Append(sent, d)
        /\ UNCHANGED << received, readPos >>
    BY <1>3 DEF Send, recvVars
  <2>2. ~ Unfinished /\ Unfinished'
    BY <2>1 DEF Unfinished
  <2>3. sent \in Seq(Seq(Byte)) /\ d \in Seq(Byte)
    BY <1>1, ParameterAssumption DEF TypeInv, TypeOK
  <2>4. e = Len(sent) /\ e' = Len(sent) /\ u' = u
    BY <2>1, <2>2, <2>3
  <2>5. Len(received) + 1 \in 1 .. Len(sent) + 1
    BY <1>2, <2>3 DEF Shape, Layout
  <2>6. SubSeq(sent', Len(received) + 1, Len(sent)) = SubSeq(sent, Len(received) + 1, Len(sent))
    BY <2>1, <2>3, <2>5, QueueSees
  <2> HIDE DEF e, u
  <2> QED
    BY <2>1, <2>4, <2>6
<1>4. ASSUME UNCHANGED << sent, received, readPos, startOfWrite >>,
             Unfinished' = Unfinished, ~ Unfinished => sendPos' = sendPos
      PROVE  UNCHANGED << SubSeq(sent, Len(received) + 1, e), u - readPos >>
  <2>1. e' = e /\ u' = u
    BY <1>4
  <2> HIDE DEF e, u
  <2> QED
    BY <1>4, <2>1
<1>5. CASE WritePart
  <2>1. spc = "write" /\ spc' = "write" /\ UNCHANGED << sent, received, readPos, startOfWrite >>
    BY <1>5 DEF WritePart, recvVars
  <2> QED
    BY <1>4, <2>1 DEF Unfinished
<1>6. CASE PostRead \/ Poll
  <2>1. /\ spc \in {"write", "poll"} /\ spc' \in {"write", "poll", "failed"}
        /\ UNCHANGED << sent, received, readPos, startOfWrite >>
    BY <1>6 DEF PostRead, Poll, Post, recvVars
  <2> QED
    BY <1>4, <2>1 DEF Unfinished, SendQueueNeverFull
<1>7. CASE PostSlice
  <2>1. /\ spc = "post" /\ spc' \in {"idle", "post", "failed"}
        /\ UNCHANGED << sent, received, readPos, startOfWrite, sendPos >>
    BY <1>7 DEF PostSlice, Post, recvVars
  <2> QED
    BY <1>4, <2>1 DEF Unfinished
<1>8. CASE UNCHANGED << sendVars, received, readPos >>
  BY <1>4, <1>8 DEF sendVars, Unfinished
<1>9. CASE DeliverByte \/ FetchReadPos \/ CompleteRead \/ UNCHANGED vars
  BY <1>8, <1>9 DEF DeliverByte, FetchReadPos, CompleteRead, vars, recvVars
<1>10. CASE HasData \/ ScanByte \/ Answer \/ Retry \/ TooBig \/ CopyData \/ Zero
  BY <1>8, <1>10 DEF HasData, ScanByte, Answer, Retry, TooBig, CopyData, Zero
<1>11. ASSUME NEW cap \in RecvCaps \cup {NoCap}, Receive(cap)
       PROVE  UNCHANGED << sendVars, received, readPos >>
  BY <1>11 DEF Receive
<1> QED
  BY <1>3, <1>5, <1>6, <1>7, <1>8, <1>9, <1>10, <1>11 DEF Next, Sender, Nic, Receiver

LEMMA FifoInit == Init => Fifo!Init
<1> SUFFICES ASSUME Init PROVE Fifo!Init
  OBVIOUS
<1>1. sent = << >> /\ received = << >> /\ spc = "idle" /\ sendPos = 0 /\ readPos = 0
  BY DEF Init
<1>2. ~ Unfinished
  BY <1>1 DEF Unfinished
<1>3. SubSeq(sent, Len(received) + 1, Len(sent)) = << >>
  BY <1>1
<1> QED
  BY <1>1, <1>2, <1>3 DEF Fifo!Init

\* Each step is one of the queue, or none.
LEMMA FifoNext ==
  ASSUME DeliveryInv, SendQueueNeverFull', [Next]_vars
  PROVE  [Fifo!Next]_(Fifo!vars)
<1>1. TypeInv /\ FlowInv /\ AcceptedIsComplete
  BY DEF DeliveryInv
<1>2. PICK start, text, from : Shape(start, text, from)
  BY DEF DeliveryInv
<1>3. CASE WritePart /\ part = "footer"
  BY <1>1, <1>2, <1>3, PutStep
<1>4. CASE Advance
  BY <1>1, <1>2, <1>4, GetStep
<1>5. CASE ~ Advance /\ ~ (WritePart /\ part = "footer")
  BY <1>5, QueueStays
<1> QED
  BY <1>3, <1>4, <1>5

\* One direction of a connection is a queue of whole messages that never takes
\* more than a ring holds: what rings, words, slices, the card and the polling add
\* is invisible to the two applications.
THEOREM RefinesFifo == NoPhantom /\ EnoughSlots => (Spec => Fifo!Spec)
<1> SUFFICES ASSUME NoPhantom, EnoughSlots PROVE Spec => Fifo!Spec
  OBVIOUS
<1>1. Spec => []DeliveryInv
  BY DeliveryHolds
<1>2. Spec => []SendQueueNeverFull
  BY AlwaysASlot
<1>3. DeliveryInv /\ SendQueueNeverFull' /\ [Next]_vars => [Fifo!Next]_(Fifo!vars)
  BY FifoNext
<1> QED
  BY <1>1, <1>2, <1>3, FifoInit, PTL DEF Spec, Fifo!Spec

-----------------------------------------------------------------------------
(* The safety half of SendReturns and EveryMessageArrives: wherever the    *)
(* two threads are in their loops, what ends the loop is on its way.       *)

\* The calls of send() that have returned.
Returned == IF spc = "idle" THEN Len(sent) ELSE Len(sent) - 1

\* A send() that polls has its answer in the completion queue, or a request in the
\* send queue that will bring it.
AnswerComes ==
  spc = "poll" => \/ cq = << ReadId >>
                  \/ \E k \in DOMAIN sq : sq[k].signaled /\ sq[k].id = ReadId

\* If a send() has no room even by the receiver's own readPos, then there is a message,
\* sent before this one, that the receiver has not taken: it is not its own that it waits for.
WaitsForReceiver ==
  spc \in {"write", "poll"} /\ Len(PartBytes(part, msg)) > Size - (sendPos - readPos) =>
    Len(received) < Returned

\* A message that has been sent and not received is in the ring, or some of it is a
\* write that the card has still to make.
OnItsWay ==
  Len(received) < Returned => NextDelivered \/ \E k \in DOMAIN sq : sq[k].op = "write"

\* One that is in the ring is found by the first scan that begins then: each byte of
\* it is where receive() and hasData() look for it.
FoundAtOnce ==
  NextDelivered /\ rpc # "advance" =>
    \A i \in 0 .. FrameLen(Len(NextMsg)) - 1 :
      receiveBuffer[Cell(readPos + i)] = FrameByte(NextMsg, i)

NobodyStuck == AnswerComes /\ WaitsForReceiver /\ OnItsWay /\ FoundAtOnce

\* Without a write in the send queue, the card has delivered all that has been posted.
LEMMA NoWriteLeft ==
  ASSUME TypeInv, NEW text, NEW from, Queue(text, from), \A k \in DOMAIN sq : sq[k].op # "write"
  PROVE  from[Len(sq) + 1] <= delivered
<1> DEFINE T == {k \in 1 .. Len(sq) + 1 : from[k] > delivered}
<1>1. sq \in Seq(WorkRequest) /\ delivered \in Nat /\ DOMAIN sq = 1 .. Len(sq)
  BY DEF TypeInv, TypeOK
<1>2. from \in Seq(Nat) /\ Len(from) = Len(sq) + 1 /\ from[1] + done = delivered
  BY DEF Queue
<1>3. done = 0
  <2>1. ~ (sq # << >> /\ Head(sq).op = "write")
    BY <1>1
  <2> QED
    BY <2>1 DEF TypeInv, QueueShape
<1>4. from[1] = delivered
  BY <1>1, <1>2, <1>3
<1>5. \A k \in 1 .. Len(sq) : from[k + 1] = from[k]
  <2> SUFFICES ASSUME NEW k \in 1 .. Len(sq) PROVE from[k + 1] = from[k]
    OBVIOUS
  <2>1. sq[k].op \in {"read", "write"}
    <3>1. sq[k] \in WorkRequest
      BY <1>1
    <3> QED
      BY <3>1 DEF WorkRequest
  <2>2. sq[k].op = "read"
    BY <1>1, <2>1
  <2>3. SliceLen(sq[k]) = 0 /\ from[k + 1] = from[k] + SliceLen(sq[k]) /\ from[k] \in Nat
    BY <1>1, <1>2, <2>2 DEF Queue
  <2> QED
    BY <2>3
<1>6. T = {}
  <2> SUFFICES ASSUME T # {} PROVE FALSE
    OBVIOUS
  <2>1. T \subseteq Nat
    BY <1>1
  <2> HIDE DEF T
  <2>2. PICK n \in T : \A m \in T : n <= m
    BY <2>1, LeastNumber
  <2>3. n \in 1 .. Len(sq) + 1 /\ from[n] > delivered
    BY DEF T
  <2>4. n # 1
    BY <1>1, <1>4, <2>3
  <2>5. n - 1 \in 1 .. Len(sq) /\ n - 1 \in 1 .. Len(sq) + 1 /\ (n - 1) + 1 = n
    BY <1>1, <2>3, <2>4
  <2>6. from[n - 1] = from[n]
    BY <1>5, <2>5
  <2>7. n - 1 \in T
    BY <2>3, <2>5, <2>6 DEF T
  <2> QED
    BY <2>2, <2>5, <2>7
<1>7. Len(sq) + 1 \in 1 .. Len(sq) + 1 /\ from[Len(sq) + 1] \in Nat
  BY <1>1, <1>2
<1> HIDE DEF T
<1>8. ~ (from[Len(sq) + 1] > delivered)
  BY <1>6, <1>7 DEF T
<1> QED
  BY <1>1, <1>7, <1>8

\* All messages whose send() has returned have been posted.
LEMMA ReturnedPosted ==
  ASSUME TypeInv, FlowInv, Slots, NEW start, NEW text, NEW from, Shape(start, text, from)
  PROVE  /\ Returned \in Nat /\ Returned + 1 \in 1 .. Len(sent) + 1
         /\ start[Returned + 1] <= from[Len(sq) + 1]
<1>1. /\ sent \in Seq(Seq(Byte)) /\ spc \in {"idle", "write", "poll", "post"}
      /\ startOfWrite \in Nat /\ slice \in 1 .. 2
  BY DEF TypeInv, TypeOK, Slots
<1>5. Len(sent) \in Nat /\ Len(sent) + 1 \in 1 .. Len(sent) + 1 /\ sendPos \in Nat
  BY <1>1 DEF TypeInv, TypeOK
<1>2. CASE spc = "idle"
  <2>1. start[Len(sent) + 1] = sendPos /\ from[Len(sq) + 1] = sendPos
    BY <1>2 DEF Shape, PostedTo, Sending
  <2>2. Returned = Len(sent)
    BY <1>2 DEF Returned
  <2> QED
    BY <1>5, <2>1, <2>2
<1>3. CASE spc \in {"write", "poll"}
  <2>1. Len(sent) \in Nat \ {0} /\ start[Len(sent)] = startOfWrite /\ from[Len(sq) + 1] = startOfWrite
    BY <1>3 DEF Shape, PostedTo, Sending
  <2>2. Returned = Len(sent) - 1
    BY <1>3 DEF Returned
  <2>3. Returned + 1 = Len(sent) /\ Returned \in Nat /\ Len(sent) \in 1 .. Len(sent) + 1
    BY <2>1, <2>2
  <2> QED
    BY <1>1, <2>1, <2>3
<1>4. CASE spc = "post"
  <2> DEFINE sl == Slices(startOfWrite, FrameLen(Len(msg)))
  <2>1. /\ Len(sent) \in Nat \ {0} /\ startOfWrite = start[Len(sent)]
        /\ from[Len(sq) + 1] = startOfWrite + sl[slice].prev
    BY <1>4 DEF Shape, Sending, PostedTo
  <2>2. FrameLen(Len(msg)) \in 1 .. Size /\ slice \in 1 .. Len(sl)
    <3>1. FrameLen(Len(msg)) \in 1 .. Size
      BY ByteAssumption, SizeAssumption DEF TypeInv, TypeOK, FrameFits, FrameLen
    <3>2. Len(sl) \in Nat
      BY <1>1, <3>1, SlicesCount
    <3> QED
      BY <1>1, <1>4, <3>1, <3>2 DEF TypeInv, FrameFits
  <2>3. sl[slice].prev \in Nat
    BY <1>1, <2>2, SliceChain
  <2> HIDE DEF sl
  <2>4. Returned = Len(sent) - 1
    BY <1>4 DEF Returned
  <2>5. Returned + 1 = Len(sent) /\ Returned \in Nat /\ Len(sent) \in 1 .. Len(sent) + 1
    BY <2>1, <2>4
  <2>6. startOfWrite <= startOfWrite + sl[slice].prev
    BY <1>1, <2>3
  <2> QED
    BY <2>1, <2>5, <2>6
<1> QED
  BY <1>1, <1>2, <1>3, <1>4

LEMMA StuckNowhere ==
  ASSUME TypeInv, FlowInv, AskedOnce, Slots,
         NEW start, NEW text, NEW from, Shape(start, text, from)
  PROVE  NobodyStuck
<1>1. /\ sq \in Seq(WorkRequest) /\ DOMAIN sq = 1 .. Len(sq) /\ sent \in Seq(Seq(Byte))
      /\ readPos \in Nat /\ delivered \in Nat
      /\ Layout(start) /\ received \in Seq(Seq(Byte)) /\ Len(received) <= Len(sent)
      /\ start[Len(received) + 1] = readPos
  BY DEF TypeInv, TypeOK, Shape, Layout
<1>2. AnswerComes
  <2> SUFFICES ASSUME spc = "poll", cq = << >>
               PROVE  \E k \in DOMAIN sq : sq[k].signaled /\ sq[k].id = ReadId
    BY DEF AnswerComes, AskedOnce
  <2>1. sq # << >> /\ sq[Len(sq)].signaled
    BY DEF Slots
  <2>2. Len(sq) \in 1 .. Len(sq)
    BY <1>1, <2>1
  <2> QED
    BY <1>1, <2>1, <2>2 DEF AskedOnce
<1>3. WaitsForReceiver
  <2> SUFFICES ASSUME spc \in {"write", "poll"}, ~ (Len(received) < Returned)
               PROVE  ~ (Len(PartBytes(part, msg)) > Size - (sendPos - readPos))
    BY DEF WaitsForReceiver
  <2>1. Len(received) + 1 \in 1 .. Len(sent) /\ Returned = Len(sent) - 1
    BY UnfinishedAhead DEF Unfinished, Returned
  <2>2. Len(received) + 1 = Len(sent)
    BY <1>1, <2>1
  <2>3. /\ startOfWrite = readPos /\ msg = sent[Len(sent)]
        /\ sendPos = startOfWrite + PartOffset
    BY <1>1, <2>2 DEF Shape, Sending
  <2>4. FrameLen(Len(msg)) <= Size /\ msg \in Seq(Byte)
    BY <1>1, <2>1, <2>2, <2>3, FramePositions
  <2>5. PartOffset + Len(PartBytes(part, msg)) <= FrameLen(Len(msg)) /\ PartOffset \in Nat
        /\ Len(PartBytes(part, msg)) \in Nat
    <3>1. /\ LenBytes(Len(msg)) \in Word /\ Validity \in Word /\ WordLen \in Nat
          /\ Len(msg) \in Nat
      BY <2>4, FrameWords, ByteAssumption
    <3>2. Len(LenBytes(Len(msg))) = WordLen /\ Len(Validity) = WordLen
      BY <3>1 DEF Word
    <3>3. CASE part = "header"
      BY <3>1, <3>2, <3>3 DEF PartOffset, PartBytes, FrameLen
    <3>4. CASE part = "data"
      BY <3>1, <3>4 DEF PartOffset, PartBytes, FrameLen
    <3>5. CASE part = "footer"
      BY <3>1, <3>2, <3>5 DEF PartOffset, PartBytes, FrameLen
    <3> QED
      BY <3>3, <3>4, <3>5 DEF TypeInv, TypeOK
  <2>6. FrameLen(Len(msg)) \in Nat
    BY <2>4, FrameLenType
  <2>7. sendPos - readPos = PartOffset
    BY <1>1, <2>3, <2>5
  <2> QED
    BY <2>4, <2>5, <2>6, <2>7, SizeAssumption
<1>4. OnItsWay
  <2> SUFFICES ASSUME Len(received) < Returned, \A k \in DOMAIN sq : sq[k].op # "write"
               PROVE  NextDelivered
    BY DEF OnItsWay
  <2>1. /\ Returned \in Nat /\ Returned + 1 \in 1 .. Len(sent) + 1
        /\ start[Returned + 1] <= from[Len(sq) + 1]
    BY ReturnedPosted
  <2>2. from[Len(sq) + 1] <= delivered /\ from[Len(sq) + 1] \in Nat
    BY NoWriteLeft, Bounds DEF Shape
  <2>3. Len(received) + 1 \in 1 .. Len(sent) /\ Len(received) < Len(sent)
    BY <1>1, <2>1
  <2>4. readPos + FrameLen(Len(NextMsg)) <= start[Returned + 1]
    <3> DEFINE j == Len(received) + 1
               k == Returned + 1
    <3>1. \A a, b \in 1 .. Len(start) : a < b => start[a] + FrameLen(Len(sent[a])) <= start[b]
      BY <1>1 DEF Layout
    <3>2. Len(start) = Len(sent) + 1
      BY <1>1 DEF Layout
    <3>3. j \in 1 .. Len(start) /\ k \in 1 .. Len(start) /\ j < k
      BY <1>1, <2>1, <2>3, <3>2
    <3>4. start[j] = readPos
      BY <1>1
    <3> HIDE DEF j, k
    <3>5. start[j] + FrameLen(Len(sent[j])) <= start[k]
      BY <3>1, <3>3
    <3> QED
      BY <3>4, <3>5 DEF j, k, NextMsg
  <2>5. FrameLen(Len(NextMsg)) \in Nat /\ start[Returned + 1] \in Nat
    <3> DEFINE k == Len(received) + 1
    <3>1. k \in 1 .. Len(sent)
      BY <2>3
    <3> HIDE DEF k
    <3>2. FrameLen(Len(sent[k])) \in Nat
      BY <1>1, <3>1, FramePositions
    <3>3. start[Returned + 1] \in Nat
      <4> DEFINE j == Returned + 1
      <4>1. start \in Seq(Nat) /\ j \in 1 .. Len(start)
        BY <1>1, <2>1 DEF Layout
      <4> HIDE DEF j
      <4>2. start[j] \in Nat
        BY <4>1
      <4> QED
        BY <4>2 DEF j
    <3> QED
      BY <3>2, <3>3 DEF k, NextMsg
  <2> HIDE DEF FrameLen, NextMsg
  <2>6. readPos \in Nat /\ delivered \in Nat
    BY <1>1
  <2>7. readPos + FrameLen(Len(NextMsg)) <= delivered
    BY <2>1, <2>2, <2>4, <2>5, <2>6
  <2> QED
    BY <2>3, <2>5, <2>6, <2>7 DEF NextDelivered
<1>5. FoundAtOnce
  <2> SUFFICES ASSUME NextDelivered, rpc # "advance", NEW i \in 0 .. FrameLen(Len(NextMsg)) - 1
               PROVE  receiveBuffer[Cell(readPos + i)] = FrameByte(NextMsg, i)
    BY DEF FoundAtOnce
  <2>1. /\ NextMsg \in Seq(Byte) /\ text[readPos + i] = FrameByte(NextMsg, i)
        /\ delivered >= readPos + FrameLen(Len(NextMsg))
    BY NextFrame DEF NextDelivered
  <2>2. FrameLen(Len(NextMsg)) \in Nat
    BY <2>1, FrameLenType
  <2>3. readPos + i \in readPos .. delivered - 1
    BY <1>1, <2>1, <2>2
  <2> QED
    BY <2>1, <2>3 DEF Shape, Rings, Cleared
<1> QED
  BY <1>2, <1>3, <1>4, <1>5 DEF NobodyStuck

\* The states of SendReturns and EveryMessageArrives.  Whatever the two threads and the
\* card do: a send() that polls gets its answer; one that finds no room although
\* it knows the true readPos waits for a message the other application can receive;
\* that message is in the ring or still being written; and in the ring it is found.
THEOREM NothingStuck == NoPhantom /\ EnoughSlots => (Spec => []NobodyStuck)
<1> SUFFICES ASSUME NoPhantom, EnoughSlots PROVE Spec => []NobodyStuck
  OBVIOUS
<1>1. DeliveryInv /\ AskedOnce /\ Slots => NobodyStuck
  BY StuckNowhere DEF DeliveryInv
<1> QED
  BY <1>1, DeliveryHolds, SlotsHold, PTL
=============================================================================
