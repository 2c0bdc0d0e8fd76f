--------------------------------- MODULE Crc32 ---------------------------------
(***************************************************************************)
(* The checksum of a packet: init_crc32_table and compute_crc32            *)
(* (utils.cpp).  A word is the set of the numbers of its bits that are 1,  *)
(* so that ^ is SymDiff, & 0xFF the intersection with 0 .. 7, and 0 is {}. *)
(***************************************************************************)
EXTENDS Naturals, Sequences, FiniteSetsExt, SequencesExt

Byte == SUBSET (0 .. 7)    \* uint8_t
Ones == 0 .. 31            \* 0xFFFFFFFF
Word == SUBSET Ones        \* uint32_t

Poly == {5, 8, 9, 15, 19, 20, 21, 23, 24, 26, 27, 29, 30, 31}    \* 0xEDB88320

ShiftRight(x, n) == {i \in Ones : i + n \in x}

\* Mutant: the bit that is tested is the one after the shift.
Bug_TestShifted(crc) ==
    LET s == ShiftRight(crc, 1) IN IF 0 \in s THEN SymDiff(s, Poly) ELSE s

\* One round of the inner loop of init_crc32_table.
BitStep(crc) ==
    IF 0 \in crc THEN SymDiff(ShiftRight(crc, 1), Poly) ELSE ShiftRight(crc, 1)

TwoSteps(crc)   == BitStep(BitStep(crc))
FourSteps(crc)  == TwoSteps(TwoSteps(crc))
EightSteps(crc) == FourSteps(FourSteps(crc))

\* crc32_table as init_crc32_table leaves it, on the first call and only then.
Table == [b \in Byte |-> EightSteps(b)]

\* One round of the loop of compute_crc32.
Update(crc, d) == SymDiff(Table[SymDiff(crc, d) \intersect (0 .. 7)], ShiftRight(crc, 8))

compute_crc32(data) == SymDiff(FoldLeft(Update, Ones, data), Ones)

-----------------------------------------------------------------------------
(***************************************************************************)
(* The reference, independent of the code: the "IEEE polynomial" of the    *)
(* comment at utils.cpp:39 as polynomials over GF(2), each the set of its  *)
(* exponents.                                                              *)
(***************************************************************************)

Generator == {0, 1, 2, 4, 5, 7, 8, 10, 11, 12, 16, 22, 23, 26, 32}

\* The multiple of Generator whose highest exponent is e is taken from r.
Cancel(r, e) ==
    IF e \in r THEN SymDiff(r, {e - 32 + g : g \in Generator}) ELSE r

\* What long division by Generator leaves of p, whose exponents are below n:
\* divide[k] cancels the exponents from 31 + k down to 32.
Remainder(p, n) ==
    LET divide[k \in 0 .. n - 32] ==
          [r \in SUBSET (0 .. n) |->
              IF k = 0 THEN r ELSE divide[k - 1][Cancel(r, 31 + k)]]
    IN  divide[n - 32][p]

\* The exponents of the bits of a word, the least first, when j is the exponent
\* above them.
Terms(x, j) == {j - 1 - k : k \in x}

\* CRC-32 of data: its bits, the least of each byte first, are the
\* coefficients from the highest down, the first 32 of them inverted; so is
\* the remainder, which is read in the same order.
IeeeCrc(data) ==
    LET n       == 8 * Len(data) + 32
        message == UNION {Terms(data[i], n - 8 * (i - 1)) : i \in DOMAIN data}
        rem     == Remainder(SymDiff(message, Terms(Ones, n)), n)
    IN  Ones \ Terms(rem, 32)

=============================================================================
