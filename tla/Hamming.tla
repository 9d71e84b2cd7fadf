------------------------------ MODULE Hamming ------------------------------
(***************************************************************************)
(* How alike two result bitmaps are (src/observers/hamming.ts): bits that  *)
(* differ, among the first gatewayCount bits.                              *)
(*                                                                         *)
(* A blob is a sequence of bytes and a byte the set of its bits, 0 being   *)
(* the lowest.  A similarity, or a threshold, is a fraction <<numerator,   *)
(* denominator>>: they are compared exactly, where the code rounds to a    *)
(* double.                                                                 *)
(***************************************************************************)
EXTENDS Naturals, Sequences, FiniteSets

Byte == SUBSET (0 .. 7)
Smaller(m, n) == IF m <= n THEN m ELSE n

MeaningfulBytes(gatewayCount) == (gatewayCount + 7) \div 8

\* The bits of the last byte that stand for a gateway.
FinalByteMask(gatewayCount) ==
  IF gatewayCount % 8 = 0 THEN 0 .. 7 ELSE 0 .. (gatewayCount % 8) - 1

\* Mutant of MaskedPrefix: the padding of the last byte stays.
UnmaskedPrefix(blob, gatewayCount) ==
  [i \in 1 .. Smaller(MeaningfulBytes(gatewayCount), Len(blob)) |-> blob[i]]

\* Only the byte the count ends in is masked: a blob that is shorter has data there.  Its
\* sha256, the maskedDigest, is taken to be as good as the prefix itself.
MaskedPrefix(blob, gatewayCount) ==
  [i \in 1 .. Smaller(MeaningfulBytes(gatewayCount), Len(blob)) |->
     IF i = MeaningfulBytes(gatewayCount)
     THEN blob[i] \cap FinalByteMask(gatewayCount)
     ELSE blob[i]]

ByteAt(prefix, i) == IF i <= Len(prefix) THEN prefix[i] ELSE {}

\* The bits set in the xor of the two prefixes, each with its byte.
DifferingBits(a, b, comparedBits) ==
  LET A == MaskedPrefix(a, comparedBits)
      B == MaskedPrefix(b, comparedBits)
  IN  {p \in (1 .. MeaningfulBytes(comparedBits)) \X (0 .. 7) :
         p[2] \in (ByteAt(A, p[1]) \ ByteAt(B, p[1])) \cup (ByteAt(B, p[1]) \ ByteAt(A, p[1]))}

\* Nothing compared is no similarity.
Similarity(a, b, countA, countB) ==
  LET comparedBits == Smaller(countA, countB)
  IN  IF comparedBits = 0 THEN <<0, 1>>
      ELSE <<comparedBits - Cardinality(DifferingBits(a, b, comparedBits)), comparedBits>>

AtLeast(a, b) == a[1] * b[2] >= b[1] * a[2]

\* The fraction a + b.
Raised(a, b) == <<a[1] * b[2] + b[1] * a[2], a[2] * b[2]>>
-----------------------------------------------------------------------------
(***************************************************************************)
(* What the bytes say: gateway k has the k-th bit, and a bit that is       *)
(* missing is clear.                                                       *)
(***************************************************************************)
Vote(blob, k) == k \div 8 < Len(blob) /\ k % 8 \in blob[(k \div 8) + 1]

Votes(blob, gatewayCount) == {k \in 0 .. gatewayCount - 1 : Vote(blob, k)}
=============================================================================
