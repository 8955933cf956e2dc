------------------------ MODULE MCRDMAMessageBuffer ------------------------
(* Constants of RDMAMessageBuffer for TLC: words of two bytes, bytes 0 to 2, *)
(* lengths stored least significant byte first.                            *)
EXTENDS RDMAMessageBuffer

MCByte        == 0 .. 2
MCLenBytes(n) == << n % 3, n \div 3 >>
MCLenValue(w) == w[1] + 3 * w[2]
MCValidity    == << 1, 2 >>

\* Sends of 4, 5 and 8 bytes of a ring of 8, and one of 9 that send() refuses.
\* The length 4 has two non-zero bytes, so it is read as 0, 1, 3 or 4.
MCPayloads == { << >>, << 2 >>, << 2, 2, 1, 1 >>, << 1, 1, 1, 1, 1 >> }

\* Fewer of them for the temporal properties.
LivePayloads == { << 2 >>, << 2, 2, 1, 1 >>, << 1, 1, 1, 1, 1 >> }

\* A message that has the bytes of the validity word in it.
PhantomPayloads == { << 2 >>, << 2, 1, 2, 1 >> }

\* What the theorems about delivery take for granted holds in the runs they cover.
ASSUME Payloads # PhantomPayloads => NoPhantom /\ EnoughSlots

\* The size of the runs' ring is one the constructor accepts.
ASSUME PowerOfTwo(Size)

=============================================================================
