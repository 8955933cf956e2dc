----------------------------- MODULE Wraparound -----------------------------
(***************************************************************************)
(* The higher order function wraparound() of RDMAMessageBuffer.cpp: every  *)
(* access to one of the two rings (the send buffer, the receive buffer)    *)
(* and every slice handed to the network card goes through it.  It maps an *)
(* ever-growing stream position to the one or two contiguous pieces of a   *)
(* ring of Size bytes.                                                     *)
(***************************************************************************)
EXTENDS Integers, Sequences

CONSTANT Size              \* the ring's size in bytes, totalSize in the code

ASSUME SizeAssumption == Size \in Nat \ {0}

Offsets == 0 .. Size - 1

-----------------------------------------------------------------------------
\* beginPos: the code masks with totalSize - 1, which for the powers of two
\* the constructor insists on is the remainder (MaskOfPower in RDMAMessageBuffer_proofs).
Cell(pos) == pos % Size

\* The operator & of numbers, digit by digit; mask has no more than mask digits.
And(pos, mask) ==
  LET low[n \in 0 .. mask] ==      \* of the lowest n digits
        IF n = 0 THEN [p \in Nat |-> [q \in Nat |-> 0]]
        ELSE [p \in Nat |-> [q \in Nat |->
                (p % 2) * (q % 2) + 2 * low[n - 1][p \div 2][q \div 2]]]
  IN  low[mask][pos][mask]

\* The constructor's test of size.
PowerOfTwo(size) == size # 0 /\ And(size, size - 1) = 0

Slice(prev, begin, end) == [prev |-> prev, begin |-> begin, end |-> end]

\* Slip: the second slice takes its bytes from the start again.
SlicesMutant(pos, todo) ==
  LET beginPos == Cell(pos)
      fst      == Size - beginPos
  IN  IF fst >= todo
      THEN << Slice(0, beginPos, beginPos + todo) >>
      ELSE << Slice(0, beginPos, Size), Slice(0, 0, todo - fst) >>

\* The calls wraparound() makes of its function, in order: one when todo bytes
\* fit before the end of the ring, else one up to the end and one from offset 0.
Slices(pos, todo) ==
  LET beginPos == Cell(pos)
      fst      == Size - beginPos
  IN  IF fst >= todo
      THEN << Slice(0, beginPos, beginPos + todo) >>
      ELSE << Slice(0, beginPos, Size), Slice(fst, 0, todo - fst) >>

SliceLen(s) == s.end - s.begin

Holds(s, c) == s.begin <= c /\ c < s.end

\* The ring offset of byte i (from 0) of a piece of the stream cut into slices.
OffsetOf(slices, i) ==
  IF i < SliceLen(slices[1])
  THEN slices[1].begin + i
  ELSE slices[2].begin + (i - slices[2].prev)

-----------------------------------------------------------------------------
(* The three functions the code passes to wraparound().                    *)

\* writeToSendBuffer: copy bytes into the ring from stream position pos on.
CopyIn(ring, pos, bytes) ==
  LET slices     == Slices(pos, Len(bytes))
      From(s, c) == bytes[s.prev + (c - s.begin) + 1]
  IN  [c \in Offsets |->
         IF Holds(slices[1], c) THEN From(slices[1], c)
         ELSE IF Len(slices) = 2 /\ Holds(slices[2], c) THEN From(slices[2], c)
         ELSE ring[c]]

\* readFromReceiveBuffer: n bytes of the ring from stream position pos on.
CopyOut(ring, pos, n) ==
  [i \in 1 .. n |-> ring[OffsetOf(Slices(pos, n), i - 1)]]

\* zeroReceiveBuffer: clear n bytes of the ring from stream position pos on.
Zeroed(ring, pos, n) ==
  LET slices == Slices(pos, n)
  IN  [c \in Offsets |->
         IF \E k \in DOMAIN slices : Holds(slices[k], c) THEN 0 ELSE ring[c]]
=============================================================================
