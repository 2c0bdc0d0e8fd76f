------------------------------ MODULE Crc32_proofs ------------------------------
(***************************************************************************)
(* What compute_crc32 does: one round of it for every register and byte,   *)
(* then all of it for every message.                                       *)
(***************************************************************************)
EXTENDS Crc32, Induction_proofs

\* ^ is the exclusive or of words: closed, associative, and it can be undone.
LEMMA SymDiffWord ==
    ASSUME NEW x \in Word, NEW y \in Word
    PROVE  SymDiff(x, y) \in Word
  BY DEF SymDiff, Word

\* An exclusive or with the same word loses nothing.
LEMMA SymDiffCancels ==
    ASSUME NEW x, NEW y, NEW z, SymDiff(x, z) = SymDiff(y, z)
    PROVE  x = y
  <1>1. \A i : i \in x <=> i \in y
    <2> SUFFICES ASSUME NEW i PROVE i \in x <=> i \in y
      OBVIOUS
    <2>1. i \in SymDiff(x, z) <=> i \in SymDiff(y, z)
      OBVIOUS
    <2> QED BY <2>1 DEF SymDiff
  <1> QED BY <1>1

\* >> moves every bit on its own.
LEMMA ShiftRightWord ==
    ASSUME NEW x, NEW n \in Nat
    PROVE  ShiftRight(x, n) \in Word
  BY DEF ShiftRight, Word

\* A shift of an exclusive or is that of the shifts.
LEMMA ShiftRightLinear ==
    ASSUME NEW x, NEW y, NEW n \in Nat
    PROVE  ShiftRight(SymDiff(x, y), n) = SymDiff(ShiftRight(x, n), ShiftRight(y, n))
  BY DEF ShiftRight, SymDiff

\* Two shifts are one by the sum.
LEMMA ShiftRightAdds ==
    ASSUME NEW x \in Word, NEW m \in Nat, NEW n \in Nat
    PROVE  ShiftRight(ShiftRight(x, m), n) = ShiftRight(x, n + m)
  <1>1. ASSUME NEW i \in Ones
        PROVE  i \in ShiftRight(ShiftRight(x, m), n) <=> i \in ShiftRight(x, n + m)
    <2>1. i \in Nat /\ (i + n) + m = i + (n + m)
      BY DEF Ones
    <2>2. i + (n + m) \in x => i + n \in Ones
      BY <2>1 DEF Word, Ones
    <2> QED BY <2>1, <2>2 DEF ShiftRight
  <1> QED BY <1>1 DEF ShiftRight

\* The polynomial is a word whose highest bit is 1.
LEMMA PolyWord == Poly \in Word /\ 31 \in Poly
  BY DEF Poly, Word, Ones

\* The inner loop keeps a word a word.
LEMMA BitStepWord ==
    ASSUME NEW x \in Word
    PROVE  BitStep(x) \in Word
  BY ShiftRightWord, SymDiffWord, PolyWord DEF BitStep

-----------------------------------------------------------------------------
(***************************************************************************)
(* Eight rounds of the bit loop.                                           *)
(***************************************************************************)

\* A round of the bit loop is linear ...
LEMMA BitStepLinear ==
    ASSUME NEW x \in Word, NEW y \in Word
    PROVE  BitStep(SymDiff(x, y)) = SymDiff(BitStep(x), BitStep(y))
  <1> DEFINE s == ShiftRight(x, 1)
             t == ShiftRight(y, 1)
  <1>1. ShiftRight(SymDiff(x, y), 1) = SymDiff(s, t)
    BY ShiftRightLinear
  <1>2. 0 \in SymDiff(x, y) <=> ~(0 \in x <=> 0 \in y)
    BY DEF SymDiff
  <1> HIDE DEF s, t
  <1>3. /\ SymDiff(SymDiff(s, t), Poly) = SymDiff(SymDiff(s, Poly), t)
        /\ SymDiff(SymDiff(s, t), Poly) = SymDiff(s, SymDiff(t, Poly))
        /\ SymDiff(s, t) = SymDiff(SymDiff(s, Poly), SymDiff(t, Poly))
    BY DEF SymDiff
  <1>4. CASE 0 \in x /\ 0 \in y
    BY <1>1, <1>2, <1>3, <1>4 DEF BitStep, s, t
  <1>5. CASE 0 \in x /\ 0 \notin y
    BY <1>1, <1>2, <1>3, <1>5 DEF BitStep, s, t
  <1>6. CASE 0 \notin x /\ 0 \in y
    BY <1>1, <1>2, <1>3, <1>6 DEF BitStep, s, t
  <1>7. CASE 0 \notin x /\ 0 \notin y
    BY <1>1, <1>2, <1>7 DEF BitStep, s, t
  <1> QED BY <1>4, <1>5, <1>6, <1>7

\* ... and loses nothing: the highest bit of the result says whether the lowest
\* bit was set, because the polynomial has it and a shifted word has not.
LEMMA BitStepInjective ==
    ASSUME NEW x \in Word, NEW y \in Word, BitStep(x) = BitStep(y)
    PROVE  x = y
  <1>1. \A w \in Word : 31 \notin ShiftRight(w, 1)
    BY DEF ShiftRight, Word, Ones
  <1>2. \A w \in Word : 31 \in BitStep(w) <=> 0 \in w
    BY <1>1, PolyWord DEF BitStep, SymDiff
  <1>3. 0 \in x <=> 0 \in y
    BY <1>2
  <1>4. ShiftRight(x, 1) = ShiftRight(y, 1)
    <2>1. CASE 0 \in x
      <3>1. SymDiff(ShiftRight(x, 1), Poly) = SymDiff(ShiftRight(y, 1), Poly)
        BY <1>3, <2>1 DEF BitStep
      <3> QED BY <3>1, SymDiffCancels
    <2>2. CASE 0 \notin x
      BY <1>3, <2>2 DEF BitStep
    <2> QED BY <2>1, <2>2
  <1>5. ASSUME NEW i \in Ones
        PROVE  i \in x <=> i \in y
    <2>1. CASE i = 0
      BY <1>3, <2>1
    <2>2. CASE i # 0
      <3>1. i - 1 \in Ones /\ (i - 1) + 1 = i
        BY <2>2 DEF Ones
      <3>2. \A w : i \in w <=> i - 1 \in ShiftRight(w, 1)
        BY <3>1 DEF ShiftRight
      <3> QED BY <1>4, <3>2
    <2> QED BY <2>1, <2>2
  <1> QED BY <1>5 DEF Word

\* So do and are eight.
LEMMA EightStepsWord ==
    ASSUME NEW x \in Word
    PROVE  EightSteps(x) \in Word
  BY BitStepWord DEF EightSteps, FourSteps, TwoSteps

\* Eight rounds are linear.
LEMMA EightStepsLinear ==
    ASSUME NEW x \in Word, NEW y \in Word
    PROVE  EightSteps(SymDiff(x, y)) = SymDiff(EightSteps(x), EightSteps(y))
  <1>1. \A u, v \in Word : TwoSteps(SymDiff(u, v)) = SymDiff(TwoSteps(u), TwoSteps(v))
    BY BitStepLinear, BitStepWord DEF TwoSteps
  <1>2. \A u \in Word : TwoSteps(u) \in Word
    BY BitStepWord DEF TwoSteps
  <1>3. \A u, v \in Word : FourSteps(SymDiff(u, v)) = SymDiff(FourSteps(u), FourSteps(v))
    BY <1>1, <1>2 DEF FourSteps
  <1>4. \A u \in Word : FourSteps(u) \in Word
    BY <1>2 DEF FourSteps
  <1> QED BY <1>3, <1>4 DEF EightSteps

\* Eight rounds lose nothing.
LEMMA EightStepsInjective ==
    ASSUME NEW x \in Word, NEW y \in Word, EightSteps(x) = EightSteps(y)
    PROVE  x = y
  <1>1. \A u, v \in Word : TwoSteps(u) = TwoSteps(v) => u = v
    BY BitStepInjective, BitStepWord DEF TwoSteps
  <1>2. \A u \in Word : TwoSteps(u) \in Word
    BY BitStepWord DEF TwoSteps
  <1>3. \A u, v \in Word : FourSteps(u) = FourSteps(v) => u = v
    BY <1>1, <1>2 DEF FourSteps
  <1>4. \A u \in Word : FourSteps(u) \in Word
    BY <1>2 DEF FourSteps
  <1> QED BY <1>3, <1>4 DEF EightSteps

\* A word whose low byte is zero is only shifted.
LEMMA BitStepShifts ==
    ASSUME NEW x \in Word, NEW n \in Nat, x \intersect (0 .. n) = {}
    PROVE  /\ BitStep(x) = ShiftRight(x, 1)
           /\ \A m \in Nat : m < n => BitStep(x) \intersect (0 .. m) = {}
  <1>1. 0 \notin x
    OBVIOUS
  <1>2. BitStep(x) = ShiftRight(x, 1)
    BY <1>1 DEF BitStep
  <1>3. ASSUME NEW m \in Nat, m < n, NEW i \in 0 .. m
        PROVE  i \notin ShiftRight(x, 1)
    <2>1. i + 1 \in 0 .. n
      BY <1>3
    <2> QED BY <2>1 DEF ShiftRight
  <1> QED BY <1>2, <1>3

\* Eight rounds of a word whose lowest byte is 0 are a shift.
LEMMA EightStepsShift ==
    ASSUME NEW x \in Word, x \intersect (0 .. 7) = {}
    PROVE  EightSteps(x) = ShiftRight(x, 8)
  <1> DEFINE Clear(w, n) == w \intersect (0 .. n) = {}
  <1>1. ASSUME NEW w \in Word, NEW n \in Nat, n >= 1, Clear(w, n)
        PROVE  /\ TwoSteps(w) = ShiftRight(w, 2)
               /\ TwoSteps(w) \in Word
               /\ \A m \in Nat : m + 1 < n => Clear(TwoSteps(w), m)
    <2> n - 1 \in Nat
      BY <1>1
    <2>1. BitStep(w) = ShiftRight(w, 1) /\ Clear(BitStep(w), n - 1)
      BY <1>1, BitStepShifts
    <2>2. BitStep(w) \in Word
      BY BitStepWord
    <2>3. /\ TwoSteps(w) = ShiftRight(BitStep(w), 1)
          /\ \A m \in Nat : m < n - 1 => Clear(TwoSteps(w), m)
      BY <2>1, <2>2, BitStepShifts DEF TwoSteps
    <2>4. ShiftRight(ShiftRight(w, 1), 1) = ShiftRight(w, 2)
      BY ShiftRightAdds
    <2> QED BY <2>1, <2>2, <2>3, <2>4, BitStepWord DEF TwoSteps
  <1>2. ASSUME NEW w \in Word, NEW n \in Nat, n >= 3, Clear(w, n)
        PROVE  /\ FourSteps(w) = ShiftRight(w, 4)
               /\ FourSteps(w) \in Word
               /\ n = 7 => Clear(FourSteps(w), 3)
    <2> n - 2 \in Nat /\ n - 2 >= 1
      BY <1>2
    <2>1. TwoSteps(w) = ShiftRight(w, 2) /\ TwoSteps(w) \in Word /\ Clear(TwoSteps(w), n - 2)
      BY <1>1, <1>2
    <2>2. /\ FourSteps(w) = ShiftRight(TwoSteps(w), 2) /\ FourSteps(w) \in Word
          /\ \A m \in Nat : m + 1 < n - 2 => Clear(FourSteps(w), m)
      BY <1>1, <2>1 DEF FourSteps
    <2>3. ShiftRight(ShiftRight(w, 2), 2) = ShiftRight(w, 4)
      BY ShiftRightAdds
    <2> QED BY <2>1, <2>2, <2>3
  <1>3. FourSteps(x) = ShiftRight(x, 4) /\ FourSteps(x) \in Word /\ Clear(FourSteps(x), 3)
    BY <1>2
  <1>4. EightSteps(x) = ShiftRight(FourSteps(x), 4)
    BY <1>2, <1>3 DEF EightSteps
  <1> QED BY <1>3, <1>4, ShiftRightAdds

-----------------------------------------------------------------------------
(***************************************************************************)
(* The loop of compute_crc32.                                              *)
(***************************************************************************)

\* One look-up in the table and one shift by eight do what eight rounds of the
\* bit loop would do to the register with the byte in it (utils.cpp:63).
THEOREM OneLookUpIsEightSteps ==
    ASSUME NEW crc \in Word, NEW d \in Byte
    PROVE  Update(crc, d) = EightSteps(SymDiff(crc, d))
  <1> DEFINE x    == SymDiff(crc, d)
             low  == x \intersect (0 .. 7)
             high == x \ (0 .. 7)
  <1>1. d \in Word
    BY DEF Byte, Word, Ones
  <1>2. x \in Word
    BY <1>1, SymDiffWord
  <1>3. low \in Byte /\ low \in Word /\ high \in Word
    BY <1>2 DEF Byte, Word
  <1>4. x = SymDiff(low, high) /\ high \intersect (0 .. 7) = {}
    BY DEF SymDiff
  <1>5. ShiftRight(high, 8) = ShiftRight(crc, 8)
    <2>1. ASSUME NEW i \in Ones
          PROVE  i + 8 \in high <=> i + 8 \in crc
      <3>1. i + 8 \notin 0 .. 7 /\ i + 8 \notin d
        BY DEF Ones, Byte
      <3> QED BY <3>1 DEF SymDiff
    <2> QED BY <2>1 DEF ShiftRight
  <1>6. Update(crc, d) = SymDiff(EightSteps(low), ShiftRight(crc, 8))
    BY <1>3 DEF Update, Table
  <1> HIDE DEF low, high, x
  <1>7. EightSteps(x) = SymDiff(EightSteps(low), EightSteps(high))
    BY <1>3, <1>4, EightStepsLinear
  <1>8. EightSteps(high) = ShiftRight(high, 8)
    BY <1>3, <1>4, EightStepsShift
  <1> QED BY <1>5, <1>6, <1>7, <1>8 DEF x

\* Registers that differ still differ after the same byte, and equal registers
\* differ after different bytes: what one damaged byte of a packet does to the
\* checksum no later byte takes back (utils.cpp:62-64).
THEOREM DamageStays ==
    ASSUME NEW c1 \in Word, NEW c2 \in Word, NEW d1 \in Byte, NEW d2 \in Byte,
           c1 = c2 <=> d1 # d2
    PROVE  Update(c1, d1) # Update(c2, d2)
  <1>1. d1 \in Word /\ d2 \in Word
    BY DEF Byte, Word, Ones
  <1>2. SymDiff(c1, d1) # SymDiff(c2, d2)
    <2>1. CASE d1 = d2
      BY <2>1, SymDiffCancels
    <2>2. CASE d1 # d2
      <3>1. c1 = c2
        BY <2>2
      <3>2. SymDiff(c1, d1) = SymDiff(d1, c1) /\ SymDiff(c2, d2) = SymDiff(d2, c1)
        BY <3>1 DEF SymDiff
      <3> QED BY <2>2, <3>2, SymDiffCancels
    <2> QED BY <2>1, <2>2
  <1>3. SymDiff(c1, d1) \in Word /\ SymDiff(c2, d2) \in Word
    BY <1>1, SymDiffWord
  <1>4. EightSteps(SymDiff(c1, d1)) # EightSteps(SymDiff(c2, d2))
    BY <1>2, <1>3, EightStepsInjective
  <1> QED BY <1>4, OneLookUpIsEightSteps

-----------------------------------------------------------------------------
(***************************************************************************)
(* compute_crc32 for a message of any length.                              *)
(***************************************************************************)

\* One round of the loop over the message keeps a word a word.
LEMMA UpdateWord ==
    ASSUME NEW crc \in Word, NEW d \in Byte
    PROVE  Update(crc, d) \in Word
  <1>1. d \in Word
    BY DEF Byte, Word, Ones
  <1> QED BY <1>1, SymDiffWord, EightStepsWord, OneLookUpIsEightSteps

\* c[i] is the register after the first i bytes.
Registers(c, data) ==
    /\ c \in [0 .. Len(data) -> Word]
    /\ c[0] = Ones
    /\ \A i \in 1 .. Len(data) : c[i] = Update(c[i - 1], data[i])
    /\ compute_crc32(data) = SymDiff(c[Len(data)], Ones)

\* The fold over a message is the chain of its rounds (utils.cpp:60-66).
LEMMA FoldIsLoop ==
    ASSUME NEW data \in Seq(Byte)
    PROVE  \E c : Registers(c, data)
  <1> DEFINE n == Len(data)
             rec(h, S) == [s \in SUBSET S |->
                IF s = {} THEN Ones ELSE Update(h[s \ {Max(s)}], data[Max(s)])]
             Good(f, k) == f \in [SUBSET (1 .. k) -> Word] /\ f = rec(f, 1 .. k)
             T == {k \in Nat : k <= n => \E f : Good(f, k)}
  <1>1. n \in Nat /\ DOMAIN data = 1 .. n /\ \A i \in 1 .. n : data[i] \in Byte
    OBVIOUS
  <1>2. Ones \in Word
    BY DEF Ones, Word
  <1>3. 0 \in T
    <2> DEFINE f == [s \in SUBSET (1 .. 0) |-> Ones]
    <2>1. f = rec(f, 1 .. 0)
      OBVIOUS
    <2> QED BY <2>1, <1>2
  <1>4. ASSUME NEW k \in Nat, k + 1 <= n, NEW s \in SUBSET (1 .. k + 1), k + 1 \in s
        PROVE  Max(s) = k + 1
    <2>1. \A x \in s : x \in Nat /\ k + 1 >= x
      BY <1>4
    <2>2. \A x \in s : (\A y \in s : x >= y) => x = k + 1
      BY <1>4, <2>1
    <2> QED BY <1>4, <2>1, <2>2 DEF Max
  <1>5. ASSUME NEW k \in Nat, k \in T PROVE k + 1 \in T
    <2> DEFINE m == k + 1
    <2>0. m \in Nat /\ (m <= n => k <= n)
      BY <1>1
    <2> HIDE DEF Good
    <2>1. SUFFICES ASSUME m <= n PROVE \E f : Good(f, m)
      BY <2>0
    <2>2. PICK f : Good(f, k)
      BY <1>5, <2>0, <2>1
    <2> USE DEF Good
    <2> DEFINE g == [s \in SUBSET (1 .. m) |->
                       IF m \in s THEN Update(f[s \ {m}], data[m]) ELSE f[s]]
    <2>3. \A s \in SUBSET (1 .. m) :
             /\ s \ {m} \in SUBSET (1 .. k)
             /\ m \notin s => s \in SUBSET (1 .. k)
             /\ m \in s => s # {} /\ Max(s) = m
      BY <1>4, <2>1
    <2>4. data[m] \in Byte
      BY <1>1, <2>1
    <2>5. g \in [SUBSET (1 .. m) -> Word]
      <3>1. ASSUME NEW s \in SUBSET (1 .. m)
            PROVE  (IF m \in s THEN Update(f[s \ {m}], data[m]) ELSE f[s]) \in Word
        BY <2>2, <2>3, <2>4, UpdateWord
      <3> QED BY <3>1
    <2>6. \A s \in SUBSET (1 .. k) : s \in SUBSET (1 .. m) /\ m \notin s /\ g[s] = f[s]
      OBVIOUS
    <2>7. \A s \in SUBSET (1 .. m) :
             g[s] = IF m \in s THEN Update(f[s \ {m}], data[m]) ELSE f[s]
      OBVIOUS
    <2>8. \A s \in SUBSET (1 .. k) :
             f[s] = IF s = {} THEN Ones ELSE Update(f[s \ {Max(s)}], data[Max(s)])
      BY <2>2
    <2> HIDE DEF g, m
    <2>9. ASSUME NEW s \in SUBSET (1 .. m)
          PROVE  g[s] = IF s = {} THEN Ones ELSE Update(g[s \ {Max(s)}], data[Max(s)])
      <3>1. CASE m \in s
        <4>1. s # {} /\ Max(s) = m /\ s \ {m} \in SUBSET (1 .. k)
          BY <2>3, <3>1
        <4>2. g[s] = Update(g[s \ {m}], data[m])
          BY <3>1, <4>1, <2>6, <2>7
        <4> QED BY <4>1, <4>2
      <3>2. CASE m \notin s
        <4>1. s \in SUBSET (1 .. k) /\ s \ {Max(s)} \in SUBSET (1 .. k)
          BY <2>3, <3>2
        <4>2. g[s] = f[s] /\ g[s \ {Max(s)}] = f[s \ {Max(s)}]
          BY <4>1, <2>6
        <4> QED BY <4>1, <4>2, <2>8
      <3> QED BY <3>1, <3>2
    <2>10. g = rec(g, 1 .. m)
      BY <2>5, <2>9
    <2> QED BY <2>5, <2>10
  <1>6. Nat \subseteq T
    <2> HIDE DEF T
    <2> QED BY <1>3, <1>5, NatSetInduction
  <1>7. PICK f : Good(f, n)
    <2> HIDE DEF Good
    <2> QED BY <1>1, <1>6
  <1> DEFINE h == CHOOSE h : h = rec(h, 1 .. n)
             c == [i \in 0 .. n |-> h[1 .. i]]
  <1>8. h = rec(h, 1 .. n)
    BY <1>7
  <1>9. compute_crc32(data) = SymDiff(h[1 .. n], Ones)
    BY <1>1 DEF compute_crc32, FoldLeft, MapThenFoldSet
  <1> HIDE DEF h
  <1>10. \A s \in SUBSET (1 .. n) :
           h[s] = IF s = {} THEN Ones ELSE Update(h[s \ {Max(s)}], data[Max(s)])
    BY <1>8
  <1>11. c[0] = Ones
    <2>1. 1 .. 0 = {} /\ {} \in SUBSET (1 .. n) /\ 0 \in 0 .. n
      BY <1>1
    <2>2. h[{}] = Ones
      BY <2>1, <1>10
    <2> QED BY <2>1, <2>2
  <1>12. ASSUME NEW i \in 1 .. n PROVE c[i] = Update(c[i - 1], data[i])
    <2>1. 1 .. i \in SUBSET (1 .. n) /\ 1 .. i # {} /\ (1 .. i) \ {i} = 1 .. i - 1
          /\ i - 1 \in Nat /\ i \in 1 .. i /\ (i - 1) + 1 = i
      BY <1>1
    <2>2. Max(1 .. i) = i
      <3> DEFINE k == i - 1
      <3>1. k \in Nat /\ k + 1 = i /\ k + 1 <= n
        BY <1>1
      <3> HIDE DEF k
      <3>2. 1 .. i \in SUBSET (1 .. k + 1) /\ k + 1 \in 1 .. i
        BY <3>1
      <3> QED BY <3>1, <3>2, <1>4
    <2>3. h[1 .. i] = Update(h[1 .. i - 1], data[i])
      BY <2>1, <2>2, <1>10
    <2> QED BY <2>3, <1>1
  <1> HIDE DEF c
  <1>13. \A i \in 0 .. n : c[i] \in Word
    <2> DEFINE U == {i \in Nat : i <= n => c[i] \in Word}
    <2>1. 0 \in U
      BY <1>2, <1>11
    <2>2. ASSUME NEW i \in Nat, i \in U PROVE i + 1 \in U
      <3>1. SUFFICES ASSUME i + 1 <= n PROVE c[i + 1] \in Word
        OBVIOUS
      <3>2. i + 1 \in 1 .. n /\ (i + 1) - 1 = i /\ c[i] \in Word /\ data[i + 1] \in Byte
        BY <3>1, <2>2, <1>1
      <3> QED BY <3>2, <1>12, UpdateWord
    <2>3. Nat \subseteq U
      <3> HIDE DEF U
      <3> QED BY <2>1, <2>2, NatSetInduction
    <2> QED BY <2>3, <1>1
  <1>14. c \in [0 .. n -> Word] /\ c[n] = h[1 .. n]
    BY <1>13, <1>1 DEF c
  <1> QED BY <1>9, <1>11, <1>12, <1>14 DEF Registers

\* The difference of two registers goes through the loop as a register does.
LEMMA UpdateLinear ==
    ASSUME NEW c1 \in Word, NEW c2 \in Word, NEW d1 \in Byte, NEW d2 \in Byte
    PROVE  /\ SymDiff(Update(c1, d1), Update(c2, d2))
                 = EightSteps(SymDiff(SymDiff(c1, c2), SymDiff(d1, d2)))
           /\ SymDiff(c1, c2) \in Word /\ SymDiff(d1, d2) \in Byte
  <1>1. d1 \in Word /\ d2 \in Word
    BY DEF Byte, Word, Ones
  <1>2. SymDiff(c1, d1) \in Word /\ SymDiff(c2, d2) \in Word /\ SymDiff(c1, c2) \in Word
    BY <1>1, SymDiffWord
  <1>3. SymDiff(SymDiff(c1, c2), SymDiff(d1, d2)) = SymDiff(SymDiff(c1, d1), SymDiff(c2, d2))
    BY DEF SymDiff
  <1>4. SymDiff(d1, d2) \in Byte
    BY DEF SymDiff, Byte
  <1> QED BY <1>2, <1>3, <1>4, EightStepsLinear, OneLookUpIsEightSteps

\* The words with no bit from m on.
Below(m) == SUBSET (0 .. m - 1)

\* Eight rounds end in a word below bit 24 only if they began with that word
\* eight bits higher, and then the byte that went in is its low byte.
LEMMA EightStepsUndone ==
    ASSUME NEW x \in Word, NEW e \in Byte, NEW m \in {0, 8, 16, 24},
           NEW y \in Below(m), EightSteps(SymDiff(x, e)) = y
    PROVE  /\ x \in Below(m + 8)
           /\ x = {} => e = {} /\ y = {}
  <1>0. y \in SUBSET (0 .. m - 1)
    BY DEF Below
  <1> DEFINE w == {i \in Ones : i >= 8 /\ i - 8 \in y}
  <1>1. w \in Word /\ w \intersect (0 .. 7) = {}
    BY DEF Word
  <1>2. ShiftRight(w, 8) = y
    <2>1. \A i \in y : i \in Ones /\ i + 8 \in Ones /\ i + 8 >= 8 /\ (i + 8) - 8 = i
      BY <1>0 DEF Ones
    <2>2. \A i \in Ones : i + 8 \in w <=> i \in y
      BY <2>1 DEF Ones
    <2> HIDE DEF w
    <2> QED BY <2>1, <2>2 DEF ShiftRight
  <1>3. SymDiff(x, e) \in Word
    <2>1. e \in Word
      BY DEF Byte, Word, Ones
    <2> QED BY <2>1, SymDiffWord
  <1>4. SymDiff(x, e) = w
    <2> HIDE DEF w
    <2> QED BY <1>1, <1>2, <1>3, EightStepsShift, EightStepsInjective
  <1>5. \A i \in w : i \in 8 .. m + 7 /\ i \notin e
    BY <1>0 DEF Ones, Byte
  <1>6. x \in Below(m + 8)
    <2>1. ASSUME NEW i \in x PROVE i \in 0 .. m + 7
      <3>1. CASE i \in e
        BY <3>1 DEF Byte
      <3>2. CASE i \notin e
        BY <3>2, <1>4, <1>5 DEF SymDiff
      <3> QED BY <3>1, <3>2
    <2> QED BY <2>1 DEF Below
  <1>7. ASSUME x = {} PROVE e = {} /\ y = {}
    <2>1. e = w
      BY <1>4, <1>7 DEF SymDiff
    <2>2. w = {}
      BY <2>1, <1>5
    <2>3. y = {}
      <3> HIDE DEF w
      <3> QED BY <2>2, <1>2 DEF ShiftRight
    <2> QED BY <2>1, <2>2, <2>3
  <1> QED BY <1>6, <1>7

\* delta[i] is the difference of the registers after i bytes of two messages
\* of length n, e[i] that of their bytes.
Difference(delta, e, data1, data2, n) ==
    /\ delta \in [0 .. n -> Word]
    /\ e \in [1 .. n -> Byte]
    /\ delta[0] = {}
    /\ \A i \in 1 .. n : delta[i] = EightSteps(SymDiff(delta[i - 1], e[i]))
    /\ \A i \in 1 .. n : e[i] = {} <=> data1[i] = data2[i]
    /\ compute_crc32(data1) = compute_crc32(data2) => delta[n] = {}

\* Two messages of the same length have a chain of differences.
LEMMA DifferenceExists ==
    ASSUME NEW n \in Nat, NEW data1 \in [1 .. n -> Byte], NEW data2 \in [1 .. n -> Byte]
    PROVE  \E delta, e : Difference(delta, e, data1, data2, n)
  <1>1. /\ data1 \in Seq(Byte) /\ data2 \in Seq(Byte)
        /\ Len(data1) = n /\ Len(data2) = n
    OBVIOUS
  <1>2. PICK c1 : Registers(c1, data1)
    BY <1>1, FoldIsLoop
  <1>3. PICK c2 : Registers(c2, data2)
    BY <1>1, FoldIsLoop
  <1> DEFINE delta == [i \in 0 .. n |-> SymDiff(c1[i], c2[i])]
             e == [i \in 1 .. n |-> SymDiff(data1[i], data2[i])]
  <1>4. \A x, y : SymDiff(x, y) = {} <=> x = y
    BY DEF SymDiff
  <1>5. \A i \in 0 .. n : c1[i] \in Word /\ c2[i] \in Word
    BY <1>1, <1>2, <1>3 DEF Registers
  <1>6. delta \in [0 .. n -> Word]
    BY <1>5, SymDiffWord
  <1>7. e \in [1 .. n -> Byte]
    <2>1. \A i \in 1 .. n : SymDiff(data1[i], data2[i]) \in Byte
      BY DEF SymDiff, Byte
    <2> QED BY <2>1
  <1>8. delta[0] = {}
    <2>1. c1[0] = Ones /\ c2[0] = Ones /\ 0 \in 0 .. n
      BY <1>2, <1>3 DEF Registers
    <2> QED BY <2>1, <1>4
  <1>9. ASSUME NEW i \in 1 .. n
        PROVE  delta[i] = EightSteps(SymDiff(delta[i - 1], e[i]))
    <2>1. i \in 0 .. n /\ i - 1 \in 0 .. n
      OBVIOUS
    <2>2. c1[i] = Update(c1[i - 1], data1[i]) /\ c2[i] = Update(c2[i - 1], data2[i])
      BY <1>1, <1>2, <1>3 DEF Registers
    <2> QED BY <2>1, <2>2, <1>5, UpdateLinear
  <1>10. compute_crc32(data1) = compute_crc32(data2) => delta[n] = {}
    <2>1. /\ compute_crc32(data1) = SymDiff(c1[n], Ones)
          /\ compute_crc32(data2) = SymDiff(c2[n], Ones)
      BY <1>1, <1>2, <1>3 DEF Registers
    <2>2. compute_crc32(data1) = compute_crc32(data2) => c1[n] = c2[n]
      BY <2>1, SymDiffCancels
    <2>3. n \in 0 .. n
      OBVIOUS
    <2> QED BY <2>2, <2>3, <1>4
  <1>11. \A i \in 1 .. n : e[i] = {} <=> data1[i] = data2[i]
    BY <1>4
  <1> HIDE DEF delta, e
  <1>12. Difference(delta, e, data1, data2, n)
    BY <1>6, <1>7, <1>8, <1>9, <1>10, <1>11 DEF Difference
  <1> QED BY <1>12

\* Damage confined to four bytes in a row never goes unnoticed: two messages
\* of the same length that differ, and that only there, have different
\* checksums (utils.cpp:54-66).
THEOREM DamageDetected ==
    ASSUME NEW n \in Nat, NEW data1 \in [1 .. n -> Byte], NEW data2 \in [1 .. n -> Byte],
           data1 # data2,
           NEW j \in 1 .. n, \A i \in 1 .. n : data1[i] # data2[i] => i \in j .. j + 3
    PROVE  compute_crc32(data1) # compute_crc32(data2)
  <1> DEFINE m == IF j + 3 <= n THEN j + 3 ELSE n
  <1>1. m \in j .. n /\ m <= j + 3 /\ j \in Nat /\ j >= 1
    OBVIOUS
  <1>2. \A i \in 1 .. n : data1[i] # data2[i] => i \in j .. m
    OBVIOUS
  <1> HIDE DEF m
  <1>3. PICK delta, e : Difference(delta, e, data1, data2, n)
    BY DifferenceExists
  <1>4. /\ delta \in [0 .. n -> Word] /\ e \in [1 .. n -> Byte]
        /\ delta[0] = {}
        /\ \A i \in 1 .. n : delta[i] = EightSteps(SymDiff(delta[i - 1], e[i]))
        /\ \A i \in 1 .. n : e[i] = {} <=> data1[i] = data2[i]
        /\ compute_crc32(data1) = compute_crc32(data2) => delta[n] = {}
    BY <1>3 DEF Difference
  <1>5. \A i \in 1 .. n : i \notin j .. m => e[i] = {}
    BY <1>2, <1>4
  <1>6. (\A i \in 1 .. n : e[i] = {}) => data1 = data2
    <2>1. (\A i \in 1 .. n : e[i] = {}) => \A i \in 1 .. n : data1[i] = data2[i]
      BY <1>4
    <2> QED BY <2>1
  <1>7. SUFFICES ASSUME delta[n] = {} PROVE \A i \in 1 .. n : e[i] = {}
    BY <1>4, <1>6
  <1>8. EightSteps({}) = {} /\ SymDiff({}, {}) = {} /\ {} \in Word
    <2>1. ShiftRight({}, 8) = {} /\ {} \in Word /\ SymDiff({}, {}) = {}
      BY DEF ShiftRight, Word, SymDiff
    <2> QED BY <2>1, EightStepsShift
  \* Nothing differs before the damage ...
  <1>9. delta[j - 1] = {}
    <2> DEFINE T == {i \in Nat : i < j => delta[i] = {}}
    <2>1. 0 \in T
      BY <1>4
    <2>2. ASSUME NEW i \in Nat, i \in T PROVE i + 1 \in T
      <3>1. SUFFICES ASSUME i + 1 < j PROVE delta[i + 1] = {}
        OBVIOUS
      <3>2. i + 1 \in 1 .. n /\ (i + 1) - 1 = i /\ i + 1 \notin j .. m /\ delta[i] = {}
        BY <3>1, <1>1, <2>2
      <3>3. delta[i + 1] = EightSteps(SymDiff(delta[(i + 1) - 1], e[i + 1])) /\ e[i + 1] = {}
        BY <3>2, <1>4, <1>5
      <3> QED BY <3>2, <3>3, <1>8
    <2>3. Nat \subseteq T
      <3> HIDE DEF T
      <3> QED BY <2>1, <2>2, NatSetInduction
    <2> QED BY <2>3, <1>1
  \* ... and, the checksums being the same, nothing after it.
  <1>10. delta[m] = {}
    <2> DEFINE T == {i \in Nat : i <= n - m => delta[n - i] = {}}
    <2>1. 0 \in T
      BY <1>7
    <2>2. ASSUME NEW i \in Nat, i \in T PROVE i + 1 \in T
      <3> DEFINE k == n - i
      <3>1. SUFFICES ASSUME i + 1 <= n - m PROVE delta[n - (i + 1)] = {}
        OBVIOUS
      <3>2. /\ k \in 1 .. n /\ k - 1 = n - (i + 1) /\ k \notin j .. m /\ k - 1 \in 0 .. n
            /\ i <= n - m
        BY <3>1, <1>1
      <3>0. delta[k] = {}
        BY <3>2, <2>2
      <3> HIDE DEF k
      <3>3. e[k] = {} /\ {} = EightSteps(SymDiff(delta[k - 1], {}))
        BY <3>0, <3>2, <1>4, <1>5
      <3>4. SymDiff(delta[k - 1], {}) = delta[k - 1]
        BY DEF SymDiff
      <3>5. delta[k - 1] \in Word /\ EightSteps(delta[k - 1]) = EightSteps({})
        BY <3>2, <3>3, <3>4, <1>4, <1>8
      <3>6. delta[k - 1] = {}
        BY <3>5, <1>8, EightStepsInjective
      <3> QED BY <3>2, <3>6
    <2>3. Nat \subseteq T
      <3> HIDE DEF T
      <3> QED BY <2>1, <2>2, NatSetInduction
    <2>4. n - m \in Nat /\ n - (n - m) = m /\ n - m <= n - m
      BY <1>1
    <2>5. n - m \in T
      BY <2>3, <2>4
    <2> QED BY <2>4, <2>5
  \* Going back from m, the registers differ in one more byte a round.
  <1>11. ASSUME NEW k \in 1 .. n, NEW b \in {0, 8, 16, 24}, delta[k] \in Below(b)
         PROVE  /\ delta[k - 1] \in Below(b + 8)
                /\ delta[k - 1] = {} => e[k] = {} /\ delta[k] = {}
    <2>1. k - 1 \in 0 .. n
      OBVIOUS
    <2>2. delta[k - 1] \in Word /\ e[k] \in Byte
          /\ EightSteps(SymDiff(delta[k - 1], e[k])) = delta[k]
      BY <2>1, <1>4
    <2> QED BY <2>2, <1>11, EightStepsUndone
  <1>12. \A k \in j .. m : delta[k] \in Below(24)
    <2>1. delta[m] \in Below(0)
      BY <1>10 DEF Below
    <2>2. m - 1 >= j => delta[m - 1] \in Below(8)
      <3>1. m \in 1 .. n /\ 0 + 8 = 8
        BY <1>1
      <3> QED BY <3>1, <2>1, <1>11
    <2>3. m - 2 >= j => delta[m - 2] \in Below(16)
      <3>1. SUFFICES ASSUME m - 2 >= j PROVE delta[m - 2] \in Below(16)
        OBVIOUS
      <3>2. m - 1 \in 1 .. n /\ (m - 1) - 1 = m - 2 /\ 8 + 8 = 16 /\ m - 1 >= j
        BY <3>1, <1>1
      <3> QED BY <3>2, <2>2, <1>11
    <2>4. m - 3 >= j => delta[m - 3] \in Below(24)
      <3>1. SUFFICES ASSUME m - 3 >= j PROVE delta[m - 3] \in Below(24)
        OBVIOUS
      <3>2. m - 2 \in 1 .. n /\ (m - 2) - 1 = m - 3 /\ 16 + 8 = 24 /\ m - 2 >= j
        BY <3>1, <1>1
      <3> QED BY <3>2, <2>3, <1>11
    <2>5. ASSUME NEW k \in j .. m PROVE delta[k] \in Below(24)
      <3>1. /\ k = m \/ k = m - 1 \/ k = m - 2 \/ k = m - 3
            /\ k >= j
        BY <1>1
      <3>2. \A b \in {0, 8, 16, 24} : Below(b) \subseteq Below(24)
        BY DEF Below
      <3> QED BY <3>1, <3>2, <2>1, <2>2, <2>3, <2>4
    <2> QED BY <2>5
  \* So no byte of the damage can differ, from the first of them on.
  <1>13. \A i \in j .. m : e[i] = {}
    <2> DEFINE T == {i \in Nat : i \in j - 1 .. m =>
                        delta[i] = {} /\ (i >= j => e[i] = {})}
    <2>1. 0 \in T
      BY <1>1, <1>9
    <2>2. ASSUME NEW i \in Nat, i \in T PROVE i + 1 \in T
      <3> DEFINE k == i + 1
      <3>1. SUFFICES ASSUME k \in j - 1 .. m
                     PROVE  delta[k] = {} /\ (k >= j => e[k] = {})
        OBVIOUS
      <3>2. CASE k = j - 1
        BY <3>2, <1>9, <1>1
      <3>3. CASE k # j - 1
        <4>1. k \in j .. m /\ k \in 1 .. n /\ k - 1 = i /\ delta[i] = {}
          BY <3>1, <3>3, <1>1, <2>2
        <4>2. delta[k] \in Below(24)
          BY <4>1, <1>12
        <4> QED BY <4>1, <4>2, <1>11
      <3> QED BY <3>2, <3>3
    <2>3. Nat \subseteq T
      <3> HIDE DEF T
      <3> QED BY <2>1, <2>2, NatSetInduction
    <2>4. \A i \in j .. m : i \in Nat /\ i \in j - 1 .. m /\ i >= j
      BY <1>1
    <2> QED BY <2>3, <2>4
  <1> QED BY <1>5, <1>13

-----------------------------------------------------------------------------
(***************************************************************************)
(* The loop against the definition by polynomials.                         *)
(***************************************************************************)

\* The exponents that the bits of a word stand for when j is the exponent
\* above them: bit 0 is the highest coefficient.
WordAt(x, j) == {v \in Nat : j - 1 - v \in x}

\* The place of an exclusive or is that of the places.
LEMMA WordAtSums ==
    ASSUME NEW x, NEW y, NEW j \in Nat
    PROVE  WordAt(SymDiff(x, y), j) = SymDiff(WordAt(x, j), WordAt(y, j))
  BY DEF WordAt, SymDiff

\* The exponents of a word below j.
LEMMA TermsAreWordAt ==
    ASSUME NEW x \in Word, NEW j \in Nat, j >= 32
    PROVE  Terms(x, j) = WordAt(x, j)
  <1>1. \A k \in x : k \in 0 .. 31
    BY DEF Word, Ones
  <1>2. \A v : v \in Terms(x, j) <=> v \in WordAt(x, j)
    BY <1>1 DEF Terms, WordAt
  <1> QED BY <1>2, Zenon

\* To cancel the highest coefficient is one round of the bit loop.
LEMMA CancelIsBitStep ==
    ASSUME NEW j \in Nat, j >= 33, NEW x \in Word, NEW rest \in SUBSET (0 .. j - 2)
    PROVE  Cancel(SymDiff(rest, WordAt(x, j)), j - 1)
              = SymDiff(rest, WordAt(BitStep(x), j - 1))
  <1> DEFINE r == SymDiff(rest, WordAt(x, j))
             t == {(j - 1) - 32 + g : g \in Generator}
  <1>1. j - 1 \in r <=> 0 \in x
    <2>1. j - 1 \in Nat /\ j - 1 \notin rest /\ j - 1 - (j - 1) = 0
      OBVIOUS
    <2> QED BY <2>1 DEF SymDiff, WordAt
  <1>2. x \subseteq 0 .. 31
    BY DEF Word, Ones
  <1>3. ASSUME NEW v \in Nat
        PROVE  v \in WordAt(ShiftRight(x, 1), j - 1) <=> v \in WordAt(x, j) /\ v # j - 1
    <2>1. v \in WordAt(ShiftRight(x, 1), j - 1) <=> j - 2 - v \in Ones /\ j - 1 - v \in x
      BY DEF WordAt, ShiftRight
    <2>2. v \in WordAt(x, j) <=> j - 1 - v \in x
      BY DEF WordAt
    <2>3. j - 1 - v \in x => (j - 2 - v \in Ones <=> v # j - 1)
      BY <1>2 DEF Ones
    <2> QED BY <2>1, <2>2, <2>3
  <1>4. ASSUME NEW v \in Nat
        PROVE  v \in t <=> v = j - 1 \/ v \in WordAt(Poly, j - 1)
    <2>1. v \in t <=> v - (j - 1) + 32 \in Generator
      BY DEF Generator
    <2>2. v \in WordAt(Poly, j - 1) <=> j - 2 - v \in Poly
      BY DEF WordAt
    <2>3. ASSUME NEW i \in Int PROVE i + 32 \in Generator <=> i = 0 \/ -1 - i \in Poly
      BY DEF Generator, Poly
    <2> QED BY <2>1, <2>2, <2>3
  <1>5. t \subseteq Nat /\ rest \subseteq Nat /\ j - 1 \notin WordAt(Poly, j - 1)
    BY DEF Generator, WordAt, Poly
  <1> HIDE DEF t
  <1>6. CASE 0 \in x
    <2>1. Cancel(r, j - 1) = SymDiff(r, t)
      BY <1>1, <1>6 DEF Cancel, t
    <2>2. WordAt(BitStep(x), j - 1)
            = SymDiff(WordAt(ShiftRight(x, 1), j - 1), WordAt(Poly, j - 1))
      BY <1>6, WordAtSums DEF BitStep
    <2>3. j - 1 \in WordAt(x, j) /\ j - 1 \notin rest
      BY <1>6 DEF WordAt
    <2>4. \A v : v \in SymDiff(r, t)
             <=> v \in SymDiff(rest, SymDiff(WordAt(ShiftRight(x, 1), j - 1), WordAt(Poly, j - 1)))
      <3>1. \A v : \/ v \in WordAt(ShiftRight(x, 1), j - 1)
                  \/ v \in WordAt(Poly, j - 1)
                  \/ v \in WordAt(x, j)
                  \/ v \in t
                  \/ v \in rest
                  => v \in Nat
        BY <1>5 DEF WordAt
      <3> QED BY <3>1, <1>3, <1>4, <1>5, <2>3 DEF SymDiff
    <2> HIDE DEF r
    <2>5. SymDiff(r, t) = SymDiff(rest, WordAt(BitStep(x), j - 1))
      BY <2>2, <2>4, Zenon
    <2> QED BY <2>1, <2>5 DEF r
  <1>7. CASE 0 \notin x
    <2>1. Cancel(r, j - 1) = r
      BY <1>1, <1>7 DEF Cancel
    <2>2. WordAt(BitStep(x), j - 1) = WordAt(ShiftRight(x, 1), j - 1)
      BY <1>7 DEF BitStep
    <2>3. j - 1 \notin WordAt(x, j)
      BY <1>7 DEF WordAt
    <2>4. WordAt(ShiftRight(x, 1), j - 1) = WordAt(x, j)
      <3>1. \A v : v \in WordAt(ShiftRight(x, 1), j - 1) \/ v \in WordAt(x, j) => v \in Nat
        BY DEF WordAt
      <3> QED BY <3>1, <1>3, <2>3
    <2> QED BY <2>1, <2>2, <2>4
  <1> QED BY <1>6, <1>7

\* d is the recursion that Remainder(p, n) stands for.
Division(d, n) ==
    /\ \A r \in SUBSET (0 .. n) : d[0][r] = r
    /\ \A k \in 1 .. n - 32 : \A r \in SUBSET (0 .. n) :
          d[k][r] = d[k - 1][Cancel(r, 31 + k)]
    /\ \A p : Remainder(p, n) = d[n - 32][p]

\* Every long division has its chain of remainders.
LEMMA DivisionExists ==
    ASSUME NEW n \in Nat, n >= 32
    PROVE  \E d : Division(d, n)
  <1> DEFINE X == SUBSET (0 .. n)
             S == [X -> X]
             m == n - 32
             base == [r \in X |-> r]
             step == [q \in (1 .. m) \X S |-> [r \in X |-> q[2][Cancel(r, 31 + q[1])]]]
             rec(h) == [k \in 0 .. m |->
                          [r \in X |-> IF k = 0 THEN r ELSE h[k - 1][Cancel(r, 31 + k)]]]
             d == CHOOSE h : h = rec(h)
  <1>1. m \in Nat /\ base \in S
    OBVIOUS
  <1>2. ASSUME NEW r \in X, NEW k \in 1 .. m PROVE Cancel(r, 31 + k) \in X
    <2>1. \A g \in Generator : (31 + k) - 32 + g \in 0 .. n
      BY DEF Generator
    <2> QED BY <2>1 DEF Cancel, SymDiff
  <1>3. step \in [(1 .. m) \X S -> S]
    <2>1. ASSUME NEW q \in (1 .. m) \X S
          PROVE  [r \in X |-> q[2][Cancel(r, 31 + q[1])]] \in S
      <3>1. q[1] \in 1 .. m /\ q[2] \in S
        OBVIOUS
      <3>2. \A r \in X : q[2][Cancel(r, 31 + q[1])] \in X
        <4> HIDE DEF X, m
        <4> QED BY <3>1, <1>2
      <3> HIDE DEF X
      <3> QED BY <3>2
    <2> HIDE DEF S, X, m
    <2> QED BY <2>1
  <1>4. PICK f : Iterates(f, S, base, m, step)
    <2> HIDE DEF S, base, step, m
    <2> QED BY <1>1, <1>3, PrimitiveRecursion
  <1>5. f = rec(f)
    <2>1. f \in [0 .. m -> S] /\ f[0] = base /\ \A k \in 1 .. m : f[k] = step[<<k, f[k - 1]>>]
      BY <1>4 DEF Iterates
    <2>2. ASSUME NEW k \in 0 .. m
          PROVE  f[k] = [r \in X |-> IF k = 0 THEN r ELSE f[k - 1][Cancel(r, 31 + k)]]
      <3>1. CASE k = 0
        BY <3>1, <2>1
      <3>2. CASE k # 0
        <4>1. k \in 1 .. m /\ k - 1 \in 0 .. m
          BY <3>2
        <4>2. f[k - 1] \in S
          BY <4>1, <2>1
        <4>3. step[<<k, f[k - 1]>>] = [r \in X |-> f[k - 1][Cancel(r, 31 + k)]]
          <5> HIDE DEF S, X, m
          <5> QED BY <4>1, <4>2
        <4>4. f[k] = [r \in X |-> f[k - 1][Cancel(r, 31 + k)]]
          BY <4>1, <4>3, <2>1
        <4> QED BY <4>4, <3>2
      <3> QED BY <3>1, <3>2
    <2> HIDE DEF X, S, m
    <2> QED BY <2>1, <2>2
  <1>6. d = rec(d)
    BY <1>5
  <1>7. \A p : Remainder(p, n) = d[m][p]
    BY DEF Remainder
  <1> HIDE DEF d
  <1>8. \A k \in 0 .. m : \A r \in X :
           d[k][r] = IF k = 0 THEN r ELSE d[k - 1][Cancel(r, 31 + k)]
    <2> HIDE DEF X, m
    <2>1. ASSUME NEW k \in 0 .. m
          PROVE  d[k] = [r \in X |-> IF k = 0 THEN r ELSE d[k - 1][Cancel(r, 31 + k)]]
      BY <1>6
    <2>2. ASSUME NEW k \in 0 .. m
          PROVE  \A r \in X : d[k][r] = IF k = 0 THEN r ELSE d[k - 1][Cancel(r, 31 + k)]
      <3> DEFINE below == d[k - 1]
                 e == 31 + k
      <3>1. d[k] = [r \in X |-> IF k = 0 THEN r ELSE below[Cancel(r, e)]]
        BY <2>1
      <3> HIDE DEF below, e
      <3>2. \A r \in X : d[k][r] = IF k = 0 THEN r ELSE below[Cancel(r, e)]
        BY <3>1
      <3> QED BY <3>2 DEF below, e
    <2> QED BY <2>2
  <1>9. Division(d, n)
    BY <1>1, <1>7, <1>8 DEF Division
  <1> QED BY <1>9

\* Eight coefficients are cancelled by eight rounds of the bit loop.
LEMMA EightCancels ==
    ASSUME NEW n \in Nat, NEW d, Division(d, n), NEW x \in Word,
           NEW k \in 8 .. n - 32, NEW rest \in SUBSET (0 .. k + 23)
    PROVE  d[k][SymDiff(rest, WordAt(x, k + 32))]
              = d[k - 8][SymDiff(rest, WordAt(EightSteps(x), k + 24))]
  <1> DEFINE P(i, w) == d[i][SymDiff(rest, WordAt(w, i + 32))]
  <1>1. ASSUME NEW i \in k - 7 .. k, NEW w \in Word
        PROVE  P(i, w) = P(i - 1, BitStep(w))
    <2> DEFINE j == i + 32
               r == SymDiff(rest, WordAt(w, j))
    <2>1. i \in 1 .. n - 32 /\ j \in Nat /\ j >= 33 /\ j - 1 = 31 + i /\ j - 1 = (i - 1) + 32
      OBVIOUS
    <2>2. rest \in SUBSET (0 .. j - 2)
      OBVIOUS
    <2>3. r \in SUBSET (0 .. n)
      <3>1. \A v \in WordAt(w, j) : v \in 0 .. n
        BY DEF WordAt, Word, Ones
      <3>2. \A v \in rest : v \in 0 .. n
        OBVIOUS
      <3> QED BY <3>1, <3>2 DEF SymDiff
    <2>4. d[i][r] = d[i - 1][Cancel(r, j - 1)]
      <3> HIDE DEF r
      <3> QED BY <2>1, <2>3 DEF Division
    <2>5. Cancel(r, j - 1) = SymDiff(rest, WordAt(BitStep(w), j - 1))
      <3> HIDE DEF j
      <3> QED BY <2>1, <2>2, CancelIsBitStep
    <2> QED BY <2>1, <2>4, <2>5
  <1> HIDE DEF P
  <1>2. ASSUME NEW i \in k - 6 .. k, NEW w \in Word
        PROVE  P(i, w) = P(i - 2, TwoSteps(w)) /\ TwoSteps(w) \in Word
    <2>1. i \in k - 7 .. k /\ i - 1 \in k - 7 .. k /\ (i - 1) - 1 = i - 2
      OBVIOUS
    <2>2. BitStep(w) \in Word /\ BitStep(BitStep(w)) \in Word
      BY BitStepWord
    <2> QED BY <2>1, <2>2, <1>1 DEF TwoSteps
  <1>3. ASSUME NEW i \in k - 4 .. k, NEW w \in Word
        PROVE  P(i, w) = P(i - 4, FourSteps(w)) /\ FourSteps(w) \in Word
    <2>1. i \in k - 6 .. k /\ i - 2 \in k - 6 .. k /\ (i - 2) - 2 = i - 4
      OBVIOUS
    <2> QED BY <2>1, <1>2 DEF FourSteps
  <1>4. P(k, x) = P(k - 8, EightSteps(x))
    <2>1. k \in k - 4 .. k /\ k - 4 \in k - 4 .. k /\ (k - 4) - 4 = k - 8
      OBVIOUS
    <2> QED BY <2>1, <1>3 DEF EightSteps
  <1>5. (k - 8) + 32 = k + 24
    OBVIOUS
  <1> QED BY <1>4, <1>5 DEF P

\* The table-driven loop computes what the polynomial defines, for every
\* message (utils.cpp:39-66).
THEOREM CrcIsPolynomial ==
    ASSUME NEW data \in Seq(Byte)
    PROVE  compute_crc32(data) = IeeeCrc(data)
  <1> DEFINE len == Len(data)
             n == 8 * len + 32
             at(i) == n - 8 * i
             bits(i) == Terms(data[i], n - 8 * (i - 1))
             rest(i) == UNION {bits(l) : l \in i + 1 .. len}
             message == UNION {bits(i) : i \in DOMAIN data}
             p == SymDiff(message, Terms(Ones, n))
  <1>1. /\ len \in Nat /\ DOMAIN data = 1 .. len /\ n \in Nat /\ n >= 32 /\ n - 32 = 8 * len
        /\ \A i \in 1 .. len : data[i] \in Byte
        /\ Ones \in Word /\ \A d \in Byte : d \in Word
    BY DEF Byte, Word, Ones
  <1>2. PICK c : Registers(c, data)
    BY FoldIsLoop
  <1>3. PICK d : Division(d, n)
    <2> HIDE DEF n
    <2> QED BY <1>1, DivisionExists
  <1>4. /\ \A i \in 0 .. len : c[i] \in Word
        /\ c[0] = Ones
        /\ \A i \in 1 .. len : c[i] = Update(c[i - 1], data[i])
        /\ compute_crc32(data) = SymDiff(c[len], Ones)
    BY <1>2 DEF Registers
  <1> DEFINE left(i) == d[n - 32 - 8 * i][SymDiff(rest(i), WordAt(c[i], at(i)))]
  <1>5. ASSUME NEW i \in 1 .. len
        PROVE  /\ bits(i) = WordAt(data[i], at(i - 1))
               /\ \A v \in bits(i) : v \in at(i) .. at(i) + 7
    <2> DEFINE j == at(i - 1)
    <2>1. j \in Nat /\ j >= 32 /\ j - 8 = at(i)
      BY <1>1
    <2>2. bits(i) = Terms(data[i], j)
      OBVIOUS
    <2>3. data[i] \in Byte /\ data[i] \in Word
      BY <1>1
    <2> HIDE DEF j
    <2>4. \A v \in Terms(data[i], j) : v \in (j - 8) .. (j - 8) + 7
      BY <2>1, <2>3 DEF Terms, Byte
    <2>5. Terms(data[i], j) = WordAt(data[i], j)
      BY <2>1, <2>3, TermsAreWordAt
    <2> HIDE DEF bits
    <2> QED BY <2>1, <2>2, <2>4, <2>5 DEF j
  <1>6. \A i \in 0 .. len : \A v \in rest(i) : v \in 0 .. at(i) - 1
    <2>1. ASSUME NEW i \in 0 .. len, NEW v \in rest(i) PROVE v \in 0 .. at(i) - 1
      <3>1. PICK l \in i + 1 .. len : v \in bits(l)
        OBVIOUS
      <3>2. l \in 1 .. len /\ l >= i + 1 /\ at(l) \in Nat /\ at(l) + 7 <= at(i) - 1
        BY <1>1
      <3> HIDE DEF bits
      <3>3. v \in at(l) .. at(l) + 7
        BY <1>5, <3>1, <3>2
      <3> QED BY <3>2, <3>3
    <2> QED BY <2>1
  <1> HIDE DEF bits
  \* At the start the window holds the inverted bits.
  <1>7. p = SymDiff(rest(0), WordAt(c[0], n))
    <2>1. message = rest(0)
      <3>1. DOMAIN data = 0 + 1 .. len
        BY <1>1
      <3> QED BY <3>1
    <2>2. Terms(Ones, n) = WordAt(Ones, n)
      <3> HIDE DEF n
      <3> QED BY <1>1, TermsAreWordAt
    <2> HIDE DEF message, rest, n
    <2> QED BY <2>1, <2>2, <1>4
  \* A byte enters the window, and eight coefficients leave it.
  <1>8. ASSUME NEW i \in 1 .. len PROVE left(i - 1) = left(i)
    <2> DEFINE j == at(i - 1)
               k == j - 32
               x == SymDiff(c[i - 1], data[i])
    <2>1. /\ j \in Nat /\ k \in 8 .. n - 32 /\ k = n - 32 - 8 * (i - 1)
          /\ k - 8 = n - 32 - 8 * i /\ k + 32 = j /\ k + 24 = at(i) /\ k + 23 = at(i) - 1
          /\ i \in 0 .. len /\ i - 1 \in 0 .. len
      BY <1>1
    <2>2. rest(i - 1) = SymDiff(rest(i), WordAt(data[i], j))
      <3>1. ASSUME NEW v
            PROVE  v \in rest(i - 1) <=> v \in rest(i) \/ v \in bits(i)
        <4>1. v \in rest(i - 1) <=> \E l \in (i - 1) + 1 .. len : v \in bits(l)
          OBVIOUS
        <4>2. v \in rest(i) <=> \E l \in i + 1 .. len : v \in bits(l)
          OBVIOUS
        <4>3. i \in 1 .. len /\ \A l : l \in (i - 1) + 1 .. len <=> l = i \/ l \in i + 1 .. len
          BY <1>1
        <4> QED BY <4>1, <4>2, <4>3
      <3>2. \A v \in rest(i) : v \notin bits(i)
        <4>1. \A v \in rest(i) : v \in 0 .. at(i) - 1
          BY <1>6, <2>1
        <4>2. \A v \in bits(i) : v \in at(i) .. at(i) + 7
          BY <1>5
        <4>3. at(i) \in Nat
          BY <1>1
        <4> HIDE DEF rest, at
        <4> QED BY <4>1, <4>2, <4>3
      <3> HIDE DEF rest
      <3>3. rest(i - 1) = SymDiff(rest(i), bits(i))
        BY <3>1, <3>2 DEF SymDiff
      <3>4. bits(i) = WordAt(data[i], j)
        BY <1>5
      <3> QED BY <3>3, <3>4
    <2> HIDE DEF rest, j, k
    <2>3. SymDiff(rest(i - 1), WordAt(c[i - 1], j)) = SymDiff(rest(i), WordAt(x, j))
      <3>1. WordAt(x, j) = SymDiff(WordAt(c[i - 1], j), WordAt(data[i], j))
        BY <2>1, WordAtSums
      <3> HIDE DEF x
      <3>2. \A u, v, w : SymDiff(SymDiff(u, w), v) = SymDiff(u, SymDiff(v, w))
        BY DEF SymDiff
      <3> QED BY <2>2, <3>1, <3>2
    <2>4. x \in Word /\ c[i] = EightSteps(x)
      <3>1. c[i - 1] \in Word /\ data[i] \in Byte /\ data[i] \in Word
        BY <1>1, <1>4, <2>1
      <3>2. c[i] = Update(c[i - 1], data[i])
        BY <1>4
      <3> QED BY <3>1, <3>2, SymDiffWord, OneLookUpIsEightSteps
    <2>5. rest(i) \in SUBSET (0 .. k + 23)
      BY <1>6, <2>1
    <2> HIDE DEF x
    <2>6. d[k][SymDiff(rest(i), WordAt(x, k + 32))]
            = d[k - 8][SymDiff(rest(i), WordAt(EightSteps(x), k + 24))]
      <3> DEFINE r == rest(i)
      <3>1. r \in SUBSET (0 .. k + 23)
        BY <2>5
      <3> HIDE DEF r, n
      <3>2. n \in Nat /\ k \in 8 .. n - 32
        BY <1>1, <2>1
      <3>3. d[k][SymDiff(r, WordAt(x, k + 32))]
              = d[k - 8][SymDiff(r, WordAt(EightSteps(x), k + 24))]
        BY <1>3, <2>4, <3>1, <3>2, EightCancels, ZenonT(60)
      <3> QED BY <3>3 DEF r
    <2>7. left(i - 1) = d[k][SymDiff(rest(i), WordAt(x, k + 32))]
      <3>1. left(i - 1) = d[k][SymDiff(rest(i - 1), WordAt(c[i - 1], j))]
        BY <2>1 DEF j
      <3> QED BY <3>1, <2>1, <2>3
    <2>8. left(i) = d[k - 8][SymDiff(rest(i), WordAt(EightSteps(x), k + 24))]
      BY <2>1, <2>4
    <2> QED BY <2>6, <2>7, <2>8
  <1>9. left(0) = left(len)
    <2> HIDE DEF left, n
    <2> DEFINE T == {i \in Nat : i <= len => left(0) = left(i)}
    <2>1. 0 \in T
      OBVIOUS
    <2>2. ASSUME NEW i \in Nat, i \in T PROVE i + 1 \in T
      <3>1. SUFFICES ASSUME i + 1 <= len PROVE left(0) = left(i + 1)
        OBVIOUS
      <3>2. i + 1 \in 1 .. len /\ (i + 1) - 1 = i /\ i <= len
        BY <3>1, <1>1
      <3>3. left((i + 1) - 1) = left(i + 1)
        BY <3>2, <1>8
      <3> QED BY <3>2, <3>3, <2>2
    <2>3. Nat \subseteq T
      <3> HIDE DEF T
      <3> QED BY <2>1, <2>2, NatSetInduction
    <2> QED BY <2>3, <1>1
  <1>10. Remainder(p, n) = left(0)
    <2>1. Remainder(p, n) = d[n - 32][p]
      <3> HIDE DEF p, n
      <3> QED BY <1>3 DEF Division
    <2>2. n - 32 - 8 * 0 = n - 32 /\ at(0) = n
      BY <1>1
    <2> HIDE DEF p, n, rest, at
    <2> QED BY <2>1, <2>2, <1>7
  <1>11. left(len) = WordAt(c[len], 32)
    <2>1. n - 32 - 8 * len = 0 /\ at(len) = 32 /\ rest(len) = {} /\ len \in 0 .. len
      BY <1>1
    <2>2. SymDiff({}, WordAt(c[len], 32)) = WordAt(c[len], 32)
      BY DEF SymDiff
    <2>3. WordAt(c[len], 32) \in SUBSET (0 .. n)
      <3>1. c[len] \in Word
        BY <1>4, <2>1
      <3>2. \A v \in WordAt(c[len], 32) : v \in 0 .. 31
        <4> DEFINE x == c[len]
        <4>1. x \subseteq 0 .. 31
          BY <3>1 DEF Word, Ones
        <4> HIDE DEF x
        <4>2. \A v \in WordAt(x, 32) : v \in 0 .. 31
          BY <4>1 DEF WordAt
        <4> QED BY <4>2 DEF x
      <3>3. 0 .. 31 \subseteq 0 .. n
        BY <1>1
      <3> HIDE DEF n, len
      <3> QED BY <3>2, <3>3
    <2>4. d[0][WordAt(c[len], 32)] = WordAt(c[len], 32)
      <3> HIDE DEF n, len
      <3> QED BY <1>3, <2>3 DEF Division
    <2> HIDE DEF n, at, rest, len
    <2> QED BY <2>1, <2>2, <2>4
  <1>12. Ones \ Terms(WordAt(c[len], 32), 32) = SymDiff(c[len], Ones)
    <2>1. c[len] \in Word
      BY <1>1, <1>4
    <2> DEFINE x == c[len]
    <2> HIDE DEF x
    <2>2. Terms(WordAt(x, 32), 32) = x
      <3>1. x \subseteq 0 .. 31
        BY <2>1 DEF x, Word, Ones
      <3>2. \A v \in x : 31 - v \in WordAt(x, 32) /\ v = 31 - (31 - v)
        BY <3>1 DEF WordAt
      <3>3. \A v \in WordAt(x, 32) : 31 - v \in x
        BY DEF WordAt
      <3>4. \A v : v \in Terms(WordAt(x, 32), 32) <=> v \in x
        BY <3>2, <3>3 DEF Terms
      <3> QED BY <3>4, Zenon
    <2>3. Ones \ x = SymDiff(x, Ones)
      BY <2>1 DEF SymDiff, Word, x
    <2> QED BY <2>2, <2>3 DEF x
  <1>13. IeeeCrc(data) = Ones \ Terms(Remainder(p, n), 32)
    BY DEF IeeeCrc, bits
  <1> HIDE DEF p, n, left, len
  <1> QED BY <1>4, <1>9, <1>10, <1>11, <1>12, <1>13
=============================================================================
