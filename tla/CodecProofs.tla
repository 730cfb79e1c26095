------------------------------ MODULE CodecProofs ------------------------------
(***************************************************************************)
(* What Codec promises, proved for every width of the integer types, every *)
(* limit, every call and every answer: the encoders stay in their buffers  *)
(* and no frame is that of another call or begins one, and the decoders    *)
(* accept exactly what the layouts write for a value the protocol allows.  *)
(*                                                                         *)
(* A number is written in bytes and read from them without loss, and bytes *)
(* are read as a number that is written as these bytes; so is a part of a  *)
(* frame, number by number, and a whole frame, row by row (ReadingWritten, *)
(* WrittenReading).  Each decoder is then shown to compare exactly what    *)
(* makes the bytes those of a valid value (Decoders), and a header to      *)
(* announce what follows it.                                               *)
(*                                                                         *)
(* The other way, a frame that begins another has the same magic number,   *)
(* the same method or type, and numbers and a payload of the same length   *)
(* (PartsSame); the payload then gives back what the encoder read of its   *)
(* call, a list of blocks block by block (PayloadSame, ListSame).          *)
(***************************************************************************)
EXTENDS Codec, SequenceTheorems, NaturalsInduction, WellFoundedInduction, TLAPS

-----------------------------------------------------------------------------
(* Numbers and recursion                                                   *)

\* A set of numbers with an element has a least one.
LEMMA LeastNatural ==
  ASSUME NEW T \in SUBSET Nat, T # {}
  PROVE  \E x \in T : \A y \in T : x <= y
<1> DEFINE R == OpToRel(<, Nat)
<1>1. IsWellFoundedOn(R, Nat)
  BY NatLessThanWellFounded, Zenon
<1>2. PICK x \in T : \A y \in T : ~ (<<y, x>> \in R)
  <2> HIDE DEF R
  <2> QED BY <1>1, WFMin
<1>3. ASSUME NEW a \in Nat, NEW b \in Nat, a < b
      PROVE  <<a, b>> \in R
  BY <1>3 DEF OpToRel
<1>4. ASSUME NEW y \in T
      PROVE  x <= y
  <2>1. <<y, x>> \notin R
    BY <1>2
  <2> HIDE DEF R
  <2> QED BY <1>3, <2>1
<1> QED BY <1>4

\* Induction up to a bound, for a set of numbers.
LEMMA Upwards ==
  ASSUME NEW n \in Nat, NEW T, 0 \in T, \A i \in 1..n : i - 1 \in T => i \in T
  PROVE  \A i \in 0..n : i \in T
<1> DEFINE Missing == {i \in 0..n : i \notin T}
<1> SUFFICES ASSUME Missing # {} PROVE FALSE
  OBVIOUS
<1>1. PICK i \in Missing : \A j \in Missing : i <= j
  <2>1. Missing \in SUBSET Nat
    OBVIOUS
  <2> HIDE DEF Missing
  <2> QED BY <2>1, LeastNatural
<1>2. i \in 1..n
  BY <1>1
<1>3. i - 1 \in 0..n /\ ~(i <= i - 1)
  BY <1>2
<1>4. i - 1 \in T
  BY <1>1, <1>3
<1> QED BY <1>1, <1>2, <1>4

\* A function defined by recursion over 0..n from steps that stay in V exists.
StaysIn(V, n, step) == \A i \in 1..n : \A x \in V : step[<<i, x>>] \in V

\* What a recursive function with this step is, up to n.
FollowsStep(f, n, base, step) ==
  f[0] = base /\ \A i \in 1..n : f[i] = step[<<i, f[i - 1]>>]

\* There is such a function, with values in V.
Recursive(V, n, base, step) == \E f \in [0..n -> V] : FollowsStep(f, n, base, step)

\* A step that stays in V has such a function.
LEMMA RecursionExists ==
  ASSUME NEW V, NEW n \in Nat, NEW base \in V, NEW step, StaysIn(V, n, step)
  PROVE  Recursive(V, n, base, step)
<1> DEFINE T == {k \in 0..n : Recursive(V, k, base, step)}
<1>1. 0 \in T
  <2> DEFINE f == [i \in 0..0 |-> base]
  <2>1. f \in [0..0 -> V] /\ FollowsStep(f, 0, base, step)
    BY DEF FollowsStep
  <2>2. 0 \in 0..n
    OBVIOUS
  <2> HIDE DEF f
  <2> QED BY <2>1, <2>2 DEF Recursive
<1>2. ASSUME NEW k \in 1..n, k - 1 \in T
      PROVE  k \in T
  <2>1. PICK f \in [0..k - 1 -> V] : FollowsStep(f, k - 1, base, step)
    BY <1>2 DEF Recursive
  <2> DEFINE g == [i \in 0..k |-> IF i = k THEN step[<<k, f[k - 1]>>] ELSE f[i]]
  <2>2. f[k - 1] \in V /\ step[<<k, f[k - 1]>>] \in V
    BY DEF StaysIn
  <2>3. g \in [0..k -> V]
    BY <2>2
  <2>4. g[0] = base
    BY <2>1 DEF FollowsStep
  <2>5. ASSUME NEW i \in 1..k
        PROVE  g[i] = step[<<i, g[i - 1]>>]
    <3>1. CASE i = k
      <4>1. g[i - 1] = f[k - 1] /\ g[i] = step[<<k, f[k - 1]>>]
        BY <3>1
      <4> QED BY <4>1, <3>1
    <3>2. CASE i # k
      <4>1. i \in 1..k - 1 /\ g[i] = f[i] /\ g[i - 1] = f[i - 1]
        BY <3>2
      <4> QED BY <4>1, <2>1 DEF FollowsStep
    <3> QED BY <3>1, <3>2
  <2> HIDE DEF g
  <2>6. FollowsStep(g, k, base, step)
    BY <2>4, <2>5 DEF FollowsStep
  <2> QED BY <2>3, <2>6 DEF Recursive
<1> HIDE DEF T
<1>3. \A i \in 0..n : i \in T
  BY <1>1, <1>2, Upwards
<1> QED BY <1>3 DEF T

-----------------------------------------------------------------------------

\* A number is what its quotient and its remainder make.
LEMMA DivMod ==
  ASSUME NEW v \in Nat, NEW B \in Nat \ {0}
  PROVE  v \div B \in Nat /\ v % B \in 0..B - 1 /\ v = ((v \div B) * B) + (v % B)
<1>1. v \div B \in Nat
  OBVIOUS
<1>2. v % B \in 0..B - 1
  OBVIOUS
<1>3. ASSUME NEW q \in Int, q = v \div B, NEW r \in Int, r = v % B
      PROVE  v = q * B + r
  <2>1. v = B * q + r
    BY <1>3, SMTT(30)
  <2>2. B * q = q * B
    OBVIOUS
  <2> QED BY <2>1, <2>2
<1>4. PICK q \in Nat, r \in 0..B - 1 : q = v \div B /\ r = v % B
  BY <1>1, <1>2
<1>5. v = q * B + r
  BY <1>3, <1>4
<1> QED BY <1>1, <1>2, <1>4, <1>5

\* The quotient of a number is a number.
LEMMA DivNat ==
  ASSUME NEW v \in Nat, NEW B \in Nat \ {0}
  PROVE  v \div B \in Nat
BY DivMod

\* A quotient and a remainder come back from what they make.
LEMMA DivUnique ==
  ASSUME NEW a \in Nat, NEW B \in Nat \ {0}, NEW r \in 0..B - 1
  PROVE  (a * B + r) \div B = a /\ (a * B + r) % B = r
OBVIOUS

\* Shifted is the recursive function it is written as.
LEMMA ShiftedFacts ==
  ASSUME NEW v \in Nat, NEW w \in Nat
  PROVE  /\ Shifted(v, w) \in [0..w -> Nat]
         /\ Shifted(v, w)[0] = v
         /\ \A i \in 1..w : Shifted(v, w)[i] = Shifted(v, w)[i - 1] \div Base
<1>0. Base \in Nat \ {0}
  BY WireAssumption DEF WireAssumption
<1> DEFINE step == [p \in (1..w) \X Nat |-> p[2] \div Base]
           Is(f) == f = [i \in 0..w |-> IF i = 0 THEN v ELSE f[i - 1] \div Base]
<1>1. \A i \in 1..w, x \in Nat : step[<<i, x>>] = x \div Base
  OBVIOUS
<1>2. StaysIn(Nat, w, step)
  <2> HIDE DEF step
  <2> QED BY <1>0, <1>1, DivNat DEF StaysIn
<1>3. Recursive(Nat, w, v, step)
  <2> HIDE DEF step
  <2> QED BY <1>2, RecursionExists
<1>4. PICK f \in [0..w -> Nat] : f[0] = v /\ \A i \in 1..w : f[i] = f[i - 1] \div Base
  <2> HIDE DEF step
  <2>1. PICK f \in [0..w -> Nat] : FollowsStep(f, w, v, step)
    BY <1>3 DEF Recursive
  <2>2. \A i \in 1..w : f[i] = f[i - 1] \div Base
    <3> SUFFICES ASSUME NEW i \in 1..w PROVE f[i] = f[i - 1] \div Base
      OBVIOUS
    <3>1. f[i - 1] \in Nat
      OBVIOUS
    <3>2. f[i] = step[<<i, f[i - 1]>>]
      BY <2>1 DEF FollowsStep
    <3> QED BY <1>1, <3>1, <3>2
  <2> QED BY <2>1, <2>2 DEF FollowsStep
<1>5. Is(f)
  BY <1>4
<1>6. Shifted(v, w) = CHOOSE g : Is(g)
  BY DEF Shifted
<1> DEFINE g == Shifted(v, w)
<1>7. Is(g)
  <2> HIDE DEF Is
  <2> QED BY <1>5, <1>6
<1> HIDE DEF g
<1>8. /\ DOMAIN g = 0..w /\ g = [i \in 0..w |-> g[i]]
      /\ \A i \in 0..w : g[i] = IF i = 0 THEN v ELSE g[i - 1] \div Base
  BY <1>7
<1> HIDE DEF Is
<1>9. g[0] = v /\ \A i \in 1..w : g[i] = g[i - 1] \div Base
  <2>1. g[0] = v
    <3>1. 0 \in 0..w
      OBVIOUS
    <3> QED BY <1>8, <3>1
  <2>2. ASSUME NEW i \in 1..w PROVE g[i] = g[i - 1] \div Base
    <3>1. i \in 0..w /\ i # 0
      OBVIOUS
    <3> QED BY <1>8, <3>1
  <2> QED BY <2>1, <2>2
<1>10. \A i \in 0..w : g[i] \in Nat
  <2> DEFINE T == {i \in 0..w : g[i] \in Nat}
  <2>1. 0 \in T
    BY <1>9
  <2>2. ASSUME NEW i \in 1..w, i - 1 \in T PROVE i \in T
    <3>1. g[i - 1] \in Nat /\ g[i] = g[i - 1] \div Base
      BY <1>9, <2>2
    <3>2. g[i] \in Nat
      BY <1>0, <3>1, DivNat
    <3> QED BY <3>2
  <2> HIDE DEF T
  <2>3. \A i \in 0..w : i \in T
    BY <2>1, <2>2, Upwards
  <2> QED BY <2>3 DEF T
<1>11. g \in [0..w -> Nat]
  BY <1>8, <1>10
<1> QED BY <1>9, <1>11 DEF g

\* A byte is a number, below Base.
LEMMA BaseFacts == Base \in Nat \ {0} /\ \A x \in Byte : x \in Nat
BY WireAssumption DEF WireAssumption, Byte

\* The next value of Number's recursion is a number.
LEMMA StepNat == ASSUME NEW x \in Nat, NEW B \in Nat, NEW r \in Nat PROVE x * B + r \in Nat
OBVIOUS

\* The values read on the way.
Reads(b, f) ==
  /\ f \in [0..Len(b) -> Nat]
  /\ f[0] = 0
  /\ \A i \in 1..Len(b) : f[i] = f[i - 1] * Base + b[i]

\* Number is the recursive function it is written as.
LEMMA NumberFacts ==
  ASSUME NEW b \in Seq(Byte)
  PROVE  \E f : Reads(b, f) /\ Number(b) = f[Len(b)]
<1> DEFINE w == Len(b)
           step == [p \in (1..w) \X Nat |-> p[2] * Base + b[p[1]]]
           Is(f) == f = [i \in 0..w |-> IF i = 0 THEN 0 ELSE f[i - 1] * Base + b[i]]
<1>0. w \in Nat /\ \A i \in 1..w : b[i] \in Nat
  BY BaseFacts
<1>1. \A i \in 1..w, x \in Nat : step[<<i, x>>] = x * Base + b[i]
  OBVIOUS
<1>2. StaysIn(Nat, w, step)
  <2> HIDE DEF step, w
  <2> SUFFICES ASSUME NEW i \in 1..w, NEW x \in Nat PROVE step[<<i, x>>] \in Nat
    BY DEF StaysIn
  <2>1. b[i] \in Nat /\ step[<<i, x>>] = x * Base + b[i]
    BY <1>0, <1>1
  <2> QED BY <2>1, StepNat, BaseFacts
<1>3. Recursive(Nat, w, 0, step)
  <2> HIDE DEF step, w
  <2> QED BY <1>0, <1>2, RecursionExists
<1>4. PICK f \in [0..w -> Nat] : f[0] = 0 /\ \A i \in 1..w : f[i] = f[i - 1] * Base + b[i]
  <2> HIDE DEF step, w
  <2>1. PICK f \in [0..w -> Nat] : FollowsStep(f, w, 0, step)
    BY <1>3 DEF Recursive
  <2>2. ASSUME NEW i \in 1..w PROVE f[i] = f[i - 1] * Base + b[i]
    <3>1. f[i - 1] \in Nat
      BY <1>0
    <3>2. f[i] = step[<<i, f[i - 1]>>]
      BY <2>1 DEF FollowsStep
    <3> QED BY <1>1, <3>1, <3>2
  <2> QED BY <2>1, <2>2 DEF FollowsStep
<1>5. Is(f)
  BY <1>4
<1>6. Number(b) = (CHOOSE g : Is(g))[w]
  BY DEF Number
<1> DEFINE g == CHOOSE g : Is(g)
<1>7. Is(g)
  <2> HIDE DEF Is
  <2> QED BY <1>5
<1> HIDE DEF g
<1>8. /\ DOMAIN g = 0..w /\ g = [i \in 0..w |-> g[i]]
      /\ \A i \in 0..w : g[i] = IF i = 0 THEN 0 ELSE g[i - 1] * Base + b[i]
  BY <1>7
<1> HIDE DEF Is, w
<1>9. g[0] = 0 /\ \A i \in 1..w : g[i] = g[i - 1] * Base + b[i]
  <2>1. g[0] = 0
    <3>1. 0 \in 0..w
      BY <1>0
    <3> QED BY <1>8, <3>1
  <2>2. ASSUME NEW i \in 1..w PROVE g[i] = g[i - 1] * Base + b[i]
    <3>1. i \in 0..w /\ i # 0
      OBVIOUS
    <3> QED BY <1>8, <3>1
  <2> QED BY <2>1, <2>2
<1>10. \A i \in 0..w : g[i] \in Nat
  <2> DEFINE T == {i \in 0..w : g[i] \in Nat}
  <2>1. 0 \in T
    BY <1>0, <1>9
  <2>2. ASSUME NEW i \in 1..w, i - 1 \in T PROVE i \in T
    <3>1. g[i - 1] \in Nat /\ g[i] = g[i - 1] * Base + b[i] /\ b[i] \in Nat
      BY <1>0, <1>9, <2>2
    <3>2. g[i] \in Nat
      BY <3>1, StepNat, BaseFacts
    <3> QED BY <3>2
  <2> HIDE DEF T
  <2>3. \A i \in 0..w : i \in T
    BY <1>0, <2>1, <2>2, Upwards
  <2> QED BY <2>3 DEF T
<1>11. g \in [0..w -> Nat]
  BY <1>8, <1>10
<1>12. Reads(b, g) /\ Number(b) = g[w]
  BY <1>6, <1>9, <1>11 DEF Reads, w, g
<1> QED BY <1>12 DEF w

\* A number is written in as many bytes as asked for.
LEMMA BytesType ==
  ASSUME NEW v \in Nat, NEW w \in Nat
  PROVE  Bytes(v, w) \in Seq(Byte) /\ Len(Bytes(v, w)) = w
<1>1. ASSUME NEW i \in 1..w PROVE Shifted(v, w)[w - i] % Base \in Byte
  <2>1. w - i \in 0..w
    OBVIOUS
  <2>2. Shifted(v, w)[w - i] \in Nat
    BY <2>1, ShiftedFacts
  <2> QED BY <2>2, BaseFacts, DivMod DEF Byte
<1>2. Bytes(v, w) \in [1..w -> Byte]
  BY <1>1 DEF Bytes
<1> QED BY <1>2

\* What is read is written again, byte for byte.
LEMMA BytesOfNumber ==
  ASSUME NEW b \in Seq(Byte)
  PROVE  Number(b) \in Nat /\ Fits(Number(b), Len(b)) /\ Bytes(Number(b), Len(b)) = b
<1> DEFINE w == Len(b)
           v == Number(b)
           s == Shifted(v, w)
<1>1. PICK f : Reads(b, f) /\ v = f[w]
  BY NumberFacts
<1>2. w \in Nat /\ v \in Nat /\ \A i \in 1..w : b[i] \in Byte
  BY <1>1 DEF Reads
<1> HIDE DEF w, v
<1>3. s \in [0..w -> Nat] /\ s[0] = v /\ \A i \in 1..w : s[i] = s[i - 1] \div Base
  BY <1>2, ShiftedFacts
<1> HIDE DEF s
<1>4. \A i \in 1..w : /\ f[i] \div Base = f[i - 1] /\ f[i] % Base = b[i]
  <2> SUFFICES ASSUME NEW i \in 1..w
               PROVE  f[i] \div Base = f[i - 1] /\ f[i] % Base = b[i]
    OBVIOUS
  <2>1. f[i - 1] \in Nat /\ f[i] = f[i - 1] * Base + b[i] /\ b[i] \in 0..Base - 1
    BY <1>1, <1>2 DEF Reads, w, Byte
  <2>2. PICK x \in Nat, y \in 0..Base - 1 : x = f[i - 1] /\ y = b[i]
    BY <2>1
  <2>3. (x * Base + y) \div Base = x /\ (x * Base + y) % Base = y
    BY BaseFacts, DivUnique
  <2> QED BY <2>1, <2>2, <2>3
<1>5. \A j \in 0..w : s[j] = f[w - j]
  <2> DEFINE T == {j \in 0..w : s[j] = f[w - j]}
  <2>1. 0 \in T
    BY <1>1, <1>2, <1>3
  <2>2. ASSUME NEW j \in 1..w, j - 1 \in T PROVE j \in T
    <3>1. s[j - 1] = f[w - (j - 1)] /\ s[j] = s[j - 1] \div Base
      BY <1>3, <2>2
    <3>2. w - (j - 1) \in 1..w /\ w - (j - 1) - 1 = w - j
      BY <1>2
    <3>3. f[w - (j - 1)] \div Base = f[w - j]
      BY <1>4, <3>2
    <3> QED BY <3>1, <3>3
  <2> HIDE DEF T
  <2>3. \A i \in 0..w : i \in T
    BY <1>2, <2>1, <2>2, Upwards
  <2> QED BY <2>3 DEF T
<1>6. Fits(v, w)
  BY <1>1, <1>2, <1>5 DEF Fits, Reads, s
<1>7. \A i \in 1..w : Bytes(v, w)[i] = b[i]
  <2> SUFFICES ASSUME NEW i \in 1..w PROVE s[w - i] % Base = b[i]
    BY DEF Bytes, s
  <2>1. w - i \in 0..w /\ w - (w - i) = i
    BY <1>2
  <2>2. s[w - i] = f[i]
    BY <1>5, <2>1
  <2> QED BY <1>4, <2>2
<1>8. Bytes(v, w) = b
  <2>1. Bytes(v, w) \in Seq(Byte) /\ Len(Bytes(v, w)) = w
    BY <1>2, BytesType
  <2>2. b \in Seq(Byte) /\ Len(b) = w
    BY DEF w
  <2> QED BY <1>7, <2>1, <2>2, SeqEqual
<1> QED BY <1>2, <1>6, <1>8 DEF v, w

\* What is written is read again, if it fits.
LEMMA NumberOfBytes ==
  ASSUME NEW v \in Nat, NEW w \in Nat, Fits(v, w)
  PROVE  Number(Bytes(v, w)) = v
<1> DEFINE b == Bytes(v, w)
           s == Shifted(v, w)
<1>1. b \in Seq(Byte) /\ Len(b) = w /\ \A i \in 1..w : b[i] = s[w - i] % Base
  BY BytesType DEF Bytes
<1> HIDE DEF b
<1>2. PICK f : Reads(b, f) /\ Number(b) = f[w]
  BY <1>1, NumberFacts
<1>3. s \in [0..w -> Nat] /\ s[0] = v /\ s[w] = 0 /\ \A i \in 1..w : s[i] = s[i - 1] \div Base
  BY ShiftedFacts DEF Fits
<1> HIDE DEF s
<1>4. \A i \in 0..w : f[i] = s[w - i]
  <2> DEFINE T == {i \in 0..w : f[i] = s[w - i]}
  <2>1. 0 \in T
    BY <1>2, <1>3 DEF Reads
  <2>2. ASSUME NEW i \in 1..w, i - 1 \in T PROVE i \in T
    <3>1. f[i - 1] = s[w - i + 1] /\ f[i] = f[i - 1] * Base + b[i]
      BY <1>1, <1>2, <2>2 DEF Reads
    <3>2. w - i + 1 \in 1..w /\ (w - i + 1) - 1 = w - i /\ w - i \in 0..w
      OBVIOUS
    <3>3. s[w - i] \in Nat /\ s[w - i + 1] = s[w - i] \div Base
      BY <1>3, <3>2
    <3>4. s[w - i] = ((s[w - i] \div Base) * Base) + (s[w - i] % Base)
      BY <3>3, DivMod, BaseFacts
    <3> QED BY <1>1, <3>1, <3>3, <3>4
  <2> HIDE DEF T
  <2>3. \A i \in 0..w : i \in T
    BY <2>1, <2>2, Upwards
  <2> QED BY <2>3 DEF T
<1>5. w \in 0..w /\ w - w = 0
  OBVIOUS
<1> QED BY <1>2, <1>3, <1>4, <1>5 DEF b

-----------------------------------------------------------------------------
(* Sequences of bytes put one behind the other                             *)

\* Pieces of a frame.
ByteSeqs == Seq(Seq(Byte))

\* What is flattened on the way.
Flattens(seqs, f) ==
  /\ f \in [0..Len(seqs) -> Seq(Byte)]
  /\ f[0] = <<>>
  /\ \A i \in 1..Len(seqs) : f[i] = f[i - 1] \o seqs[i]

\* Two pieces make one, of both lengths.
LEMMA ConcatType ==
  ASSUME NEW s \in Seq(Byte), NEW t \in Seq(Byte)
  PROVE  s \o t \in Seq(Byte) /\ Len(s \o t) = Len(s) + Len(t)
BY ConcatProperties

\* FlattenSeq puts its pieces one behind the other, as a recursion does.
LEMMA FlattenFacts ==
  ASSUME NEW seqs \in ByteSeqs
  PROVE  \E f : Flattens(seqs, f) /\ FlattenSeq(seqs) = f[Len(seqs)]
<1> DEFINE n == Len(seqs)
           step == [p \in (1..n) \X Seq(Byte) |-> p[2] \o seqs[p[1]]]
           Is(f) == f = [i \in 1..n |-> IF i = 1 THEN seqs[i] ELSE f[i - 1] \o seqs[i]]
<1>0. n \in Nat /\ <<>> \in Seq(Byte) /\ \A i \in 1..n : seqs[i] \in Seq(Byte)
  BY DEF ByteSeqs
<1>1. \A i \in 1..n, x \in Seq(Byte) : step[<<i, x>>] = x \o seqs[i]
  OBVIOUS
<1>2. StaysIn(Seq(Byte), n, step)
  <2> HIDE DEF step, n
  <2> SUFFICES ASSUME NEW i \in 1..n, NEW x \in Seq(Byte) PROVE step[<<i, x>>] \in Seq(Byte)
    BY DEF StaysIn
  <2>1. seqs[i] \in Seq(Byte) /\ step[<<i, x>>] = x \o seqs[i]
    BY <1>0, <1>1
  <2> QED BY <2>1, ConcatType
<1>3. Recursive(Seq(Byte), n, <<>>, step)
  <2> HIDE DEF step, n
  <2> QED BY <1>0, <1>2, RecursionExists
<1>4. PICK f \in [0..n -> Seq(Byte)] : f[0] = <<>> /\ \A i \in 1..n : f[i] = f[i - 1] \o seqs[i]
  <2> HIDE DEF step, n
  <2>1. PICK f \in [0..n -> Seq(Byte)] : FollowsStep(f, n, <<>>, step)
    BY <1>3 DEF Recursive
  <2>2. ASSUME NEW i \in 1..n PROVE f[i] = f[i - 1] \o seqs[i]
    <3>1. f[i - 1] \in Seq(Byte)
      BY <1>0
    <3>2. f[i] = step[<<i, f[i - 1]>>]
      BY <2>1 DEF FollowsStep
    <3> QED BY <1>1, <3>1, <3>2
  <2> QED BY <2>1, <2>2 DEF FollowsStep
<1> HIDE DEF n, step
<1>5. CASE n = 0
  <2>1. seqs = <<>> /\ FlattenSeq(seqs) = seqs
    BY <1>0, <1>5, EmptySeq DEF FlattenSeq, n, ByteSeqs
  <2>2. Flattens(seqs, f) /\ f[n] = <<>>
    BY <1>4, <1>5 DEF Flattens, n
  <2> QED BY <2>1, <2>2 DEF n
<1>6. CASE n # 0
  <2> DEFINE g == CHOOSE h : Is(h)
             r == [i \in 1..n |-> f[i]]
  <2>1. Is(r)
    <3>1. ASSUME NEW i \in 1..n
          PROVE  f[i] = IF i = 1 THEN seqs[i] ELSE r[i - 1] \o seqs[i]
      <4>1. CASE i = 1
        <5>1. f[1] = <<>> \o seqs[1] /\ seqs[1] \in Seq(Byte)
          BY <1>0, <1>4, <4>1, 1 \in 1..n, 1 - 1 = 0
        <5> QED BY <4>1, <5>1, ConcatEmptySeq
      <4>2. CASE i # 1
        <5>1. i - 1 \in 1..n
          BY <1>0, <4>2
        <5> QED BY <1>4, <4>2, <5>1
      <4> QED BY <4>1, <4>2
    <3> QED BY <3>1
  <2>2. FlattenSeq(seqs) = g[n]
    BY <1>6 DEF FlattenSeq, n
  <2>3. Is(g)
    <3> HIDE DEF Is, r
    <3> QED BY <2>1
  <2> HIDE DEF g
  <2>4. \A i \in 1..n : g[i] = IF i = 1 THEN seqs[i] ELSE g[i - 1] \o seqs[i]
    BY <2>3
  <2> HIDE DEF Is
  <2> DEFINE h == [i \in 0..n |-> IF i = 0 THEN <<>> ELSE g[i]]
  <2>5. h[0] = <<>> /\ \A i \in 1..n : h[i] = g[i]
    BY <1>0
  <2>6. DOMAIN h = 0..n /\ h = [i \in 0..n |-> h[i]]
    OBVIOUS
  <2> HIDE DEF h
  <2>7. ASSUME NEW i \in 1..n PROVE h[i] = h[i - 1] \o seqs[i]
    <3>1. CASE i = 1
      <4>1. seqs[i] \in Seq(Byte) /\ h[i] = seqs[i] /\ h[i - 1] = <<>>
        BY <1>0, <2>4, <2>5, <3>1
      <4> QED BY <4>1, ConcatEmptySeq
    <3>2. CASE i # 1
      <4>1. i - 1 \in 1..n
        BY <1>0, <3>2
      <4> QED BY <2>4, <2>5, <3>2, <4>1
    <3> QED BY <3>1, <3>2
  <2>8. \A i \in 0..n : h[i] \in Seq(Byte)
    <3> DEFINE T == {i \in 0..n : h[i] \in Seq(Byte)}
    <3>1. 0 \in T
      <4>1. h[0] \in Seq(Byte)
        BY <1>0, <2>5
      <4>2. 0 \in 0..n
        BY <1>0
      <4> QED BY <4>1, <4>2
    <3>2. ASSUME NEW i \in 1..n, i - 1 \in T PROVE i \in T
      <4>1. h[i - 1] \in Seq(Byte) /\ seqs[i] \in Seq(Byte) /\ h[i] = h[i - 1] \o seqs[i]
        BY <1>0, <2>7, <3>2
      <4>2. h[i] \in Seq(Byte)
        BY <4>1, ConcatType
      <4> QED BY <4>2
    <3> HIDE DEF T
    <3>3. \A i \in 0..n : i \in T
      BY <1>0, <3>1, <3>2, Upwards
    <3> QED BY <3>3 DEF T
  <2>9. h \in [0..n -> Seq(Byte)]
    BY <2>6, <2>8
  <2>10. Flattens(seqs, h)
    BY <2>5, <2>7, <2>9 DEF Flattens, n
  <2>11. FlattenSeq(seqs) = h[n]
    BY <1>0, <1>6, <2>2, <2>5
  <2> QED BY <2>10, <2>11 DEF n
<1> QED BY <1>5, <1>6

\* Pieces put together are bytes.
LEMMA FlattenType ==
  ASSUME NEW seqs \in ByteSeqs
  PROVE  FlattenSeq(seqs) \in Seq(Byte)
<1>1. Len(seqs) \in 0..Len(seqs)
  BY DEF ByteSeqs
<1> QED BY <1>1, FlattenFacts DEF Flattens

\* Nothing put together is nothing.
LEMMA FlattenEmpty == FlattenSeq(<<>>) = <<>>
BY DEF FlattenSeq

\* Where each part begins and ends.
Offsets(seqs, off) ==
  /\ off \in [0..Len(seqs) -> Nat]
  /\ off[0] = 0
  /\ \A i \in 1..Len(seqs) : off[i] = off[i - 1] + Len(seqs[i])

\* Every sequence of pieces has such offsets.
LEMMA OffsetsExist ==
  ASSUME NEW seqs \in ByteSeqs
  PROVE  \E off : Offsets(seqs, off)
<1> DEFINE n == Len(seqs)
<1>1. PICK f : Flattens(seqs, f)
  BY FlattenFacts
<1> DEFINE off == [i \in 0..n |-> Len(f[i])]
<1>0. n \in Nat /\ \A i \in 1..n : seqs[i] \in Seq(Byte)
  BY DEF ByteSeqs
<1>2. f \in [0..n -> Seq(Byte)] /\ f[0] = <<>> /\ \A i \in 1..n : f[i] = f[i - 1] \o seqs[i]
  BY <1>1 DEF Flattens
<1>3. off \in [0..n -> Nat] /\ off[0] = 0
  <2> HIDE DEF n
  <2> QED BY <1>0, <1>2
<1>4. ASSUME NEW i \in 1..n PROVE off[i] = off[i - 1] + Len(seqs[i])
  <2> HIDE DEF n
  <2>0. i - 1 \in 0..n
    BY <1>0
  <2>1. f[i - 1] \in Seq(Byte) /\ f[i] = f[i - 1] \o seqs[i] /\ seqs[i] \in Seq(Byte)
    BY <1>0, <1>2, <2>0
  <2>2. Len(f[i]) = Len(f[i - 1]) + Len(seqs[i])
    BY <2>1, ConcatType
  <2>3. i \in 0..n /\ i - 1 \in 0..n
    BY <1>0
  <2> QED BY <2>2, <2>3
<1> HIDE DEF off
<1>5. Offsets(seqs, off)
  BY <1>3, <1>4 DEF Offsets
<1> QED BY <1>5

\* A later piece begins behind an earlier one.
LEMMA OffsetsGrow ==
  ASSUME NEW seqs \in ByteSeqs, NEW off, Offsets(seqs, off)
  PROVE  \A i \in 0..Len(seqs) : \A k \in 0..i : off[k] <= off[i]
<1> DEFINE n == Len(seqs)
           T == {i \in 0..n : \A k \in 0..i : off[k] <= off[i]}
<1>0. n \in Nat /\ \A i \in 1..n : Len(seqs[i]) \in Nat
  BY DEF ByteSeqs
<1>1. off \in [0..n -> Nat] /\ \A i \in 1..n : off[i] = off[i - 1] + Len(seqs[i])
  BY DEF Offsets
<1> HIDE DEF n
<1>2. 0 \in T
  BY <1>0, <1>1
<1>3. ASSUME NEW i \in 1..n, i - 1 \in T PROVE i \in T
  <2>0. i \in 0..n /\ i - 1 \in 0..n
    BY <1>0
  <2>1. off[i - 1] <= off[i] /\ off[i] \in Nat /\ off[i - 1] \in Nat
    <3>1. /\ off[i] \in Nat /\ off[i - 1] \in Nat /\ Len(seqs[i]) \in Nat
          /\ off[i] = off[i - 1] + Len(seqs[i])
      BY <1>0, <1>1, <2>0
    <3> QED BY <3>1
  <2>2. ASSUME NEW k \in 0..i PROVE off[k] <= off[i]
    <3>1. CASE k = i
      BY <2>1, <3>1
    <3>2. CASE k # i
      <4>1. k \in 0..i - 1 /\ k \in 0..n
        BY <1>0, <3>2
      <4>2. off[k] <= off[i - 1] /\ off[k] \in Nat
        BY <1>1, <1>3, <4>1
      <4> QED BY <2>1, <4>2
    <3> QED BY <3>1, <3>2
  <2> QED BY <2>2
<1> HIDE DEF T
<1>4. \A i \in 0..n : i \in T
  BY <1>0, <1>2, <1>3, Upwards
<1> QED BY <1>4 DEF T, n

\* Each part is found again in its place.
LEMMA FlattenParts ==
  ASSUME NEW seqs \in ByteSeqs, NEW off, Offsets(seqs, off)
  PROVE  /\ Len(FlattenSeq(seqs)) = off[Len(seqs)]
         /\ \A k \in 1..Len(seqs) : \A j \in 1..Len(seqs[k]) :
              FlattenSeq(seqs)[off[k - 1] + j] = seqs[k][j]
<1> DEFINE n == Len(seqs)
<1>1. PICK f : Flattens(seqs, f) /\ FlattenSeq(seqs) = f[n]
  BY FlattenFacts
<1>0. n \in Nat /\ \A i \in 1..n : seqs[i] \in Seq(Byte) /\ Len(seqs[i]) \in Nat
  BY DEF ByteSeqs
<1>2. f \in [0..n -> Seq(Byte)] /\ f[0] = <<>> /\ \A i \in 1..n : f[i] = f[i - 1] \o seqs[i]
  BY <1>1 DEF Flattens
<1>3. /\ off \in [0..n -> Nat] /\ off[0] = 0
      /\ \A i \in 1..n : off[i] = off[i - 1] + Len(seqs[i])
      /\ \A i \in 0..n : \A k \in 0..i : off[k] <= off[i]
  BY OffsetsGrow DEF Offsets
<1> HIDE DEF n
<1> DEFINE Part(i, k) == \A j \in 1..Len(seqs[k]) : f[i][off[k - 1] + j] = seqs[k][j]
           T == {i \in 0..n : Len(f[i]) = off[i] /\ \A k \in 1..i : Part(i, k)}
<1>4. 0 \in T
  BY <1>0, <1>2, <1>3
<1>5. ASSUME NEW i \in 1..n, i - 1 \in T PROVE i \in T
  <2>1. /\ f[i - 1] \in Seq(Byte) /\ seqs[i] \in Seq(Byte) /\ f[i] = f[i - 1] \o seqs[i]
        /\ Len(f[i - 1]) = off[i - 1] /\ off[i] = off[i - 1] + Len(seqs[i])
        /\ off[i - 1] \in Nat /\ Len(seqs[i]) \in Nat
    BY <1>0, <1>2, <1>3, <1>5
  <2>2. /\ Len(f[i]) = off[i]
        /\ \A p \in 1..off[i] : f[i][p] = IF p <= off[i - 1] THEN f[i - 1][p]
                                          ELSE seqs[i][p - off[i - 1]]
    <3>1. /\ Len(f[i]) = Len(f[i - 1]) + Len(seqs[i])
          /\ \A p \in 1..Len(f[i - 1]) + Len(seqs[i]) :
               f[i][p] = IF p <= Len(f[i - 1]) THEN f[i - 1][p] ELSE seqs[i][p - Len(f[i - 1])]
      <4> DEFINE s == f[i - 1]
                 t == seqs[i]
                 u == f[i]
      <4>1. s \in Seq(Byte) /\ t \in Seq(Byte) /\ u = s \o t
        BY <2>1
      <4> HIDE DEF s, t, u
      <4>2. /\ Len(u) = Len(s) + Len(t)
            /\ \A p \in 1..Len(s) + Len(t) : u[p] = IF p <= Len(s) THEN s[p] ELSE t[p - Len(s)]
        BY <4>1, ConcatProperties
      <4> QED BY <4>2 DEF s, t, u
    <3> QED BY <2>1, <3>1
  <2>3. Part(i, i)
    <3> SUFFICES ASSUME NEW j \in 1..Len(seqs[i]) PROVE f[i][off[i - 1] + j] = seqs[i][j]
      OBVIOUS
    <3>1. off[i - 1] + j \in 1..off[i] /\ ~(off[i - 1] + j <= off[i - 1])
          /\ (off[i - 1] + j) - off[i - 1] = j
      BY <2>1
    <3> QED BY <2>2, <3>1
  <2>4. ASSUME NEW k \in 1..i, k # i PROVE Part(i, k)
    <3> SUFFICES ASSUME NEW j \in 1..Len(seqs[k]) PROVE f[i][off[k - 1] + j] = seqs[k][j]
      OBVIOUS
    <3>1. k \in 1..n /\ k \in 1..i - 1 /\ k - 1 \in 0..n /\ k \in 0..i - 1 /\ i - 1 \in 0..n
      BY <1>0, <2>4
    <3>2. f[i - 1][off[k - 1] + j] = seqs[k][j]
      BY <1>5, <3>1
    <3>3. /\ off[k] = off[k - 1] + Len(seqs[k]) /\ off[k] <= off[i - 1]
          /\ off[k - 1] \in Nat /\ off[k] \in Nat /\ Len(seqs[k]) \in Nat
      BY <1>0, <1>3, <3>1
    <3>4. off[k - 1] + j \in 1..off[i] /\ off[k - 1] + j <= off[i - 1]
      <4> DEFINE x == off[k - 1]
                 l == Len(seqs[k])
                 y == off[i - 1]
                 z == off[i]
      <4>1. /\ x \in Nat /\ l \in Nat /\ y \in Nat /\ z \in Nat
            /\ off[k] = x + l /\ off[k] <= y /\ z = y + Len(seqs[i]) /\ Len(seqs[i]) \in Nat
            /\ j \in 1..l
        <5>1. x \in Nat /\ l \in Nat /\ off[k] = x + l /\ off[k] <= y
          BY ONLY <3>3 DEF x, l, y
        <5>2. y \in Nat /\ z = y + Len(seqs[i]) /\ Len(seqs[i]) \in Nat
          BY ONLY <2>1 DEF y, z
        <5>3. j \in 1..l
          BY DEF l
        <5>4. z \in Nat
          <6> HIDE DEF z, y
          <6> QED BY ONLY <5>2
        <5> QED BY ONLY <5>1, <5>2, <5>3, <5>4
      <4> HIDE DEF x, l, y, z
      <4>2. x + l <= y /\ y <= z
        BY <4>1
      <4>3. x + j \in 1..z /\ x + j <= y
        BY <4>1, <4>2
      <4> QED BY <4>3 DEF x, y, z
    <3> QED BY <2>2, <3>2, <3>4
  <2>5. \A k \in 1..i : Part(i, k)
    BY <2>3, <2>4
  <2> HIDE DEF Part
  <2> QED BY <2>2, <2>5
<1> HIDE DEF T
<1>6. n \in T
  <2>1. \A i \in 0..n : i \in T
    BY <1>0, <1>4, <1>5, Upwards
  <2> QED BY <1>0, <2>1
<1>7. Len(f[n]) = off[n] /\ \A k \in 1..n : Part(n, k)
  BY <1>6 DEF T
<1> QED BY <1>1, <1>7 DEF n

\* Parts cut from one sequence, one behind the other, make what they were cut from.
LEMMA FlattenSlices ==
  ASSUME NEW seqs \in ByteSeqs, NEW off, Offsets(seqs, off),
         NEW b \in Seq(Byte), NEW skip \in Nat, skip + off[Len(seqs)] <= Len(b),
         \A k \in 1..Len(seqs) : seqs[k] = SubSeq(b, skip + off[k - 1] + 1, skip + off[k])
  PROVE  FlattenSeq(seqs) = SubSeq(b, skip + 1, skip + off[Len(seqs)])
<1> DEFINE n == Len(seqs)
<1>1. PICK f : Flattens(seqs, f) /\ FlattenSeq(seqs) = f[n]
  BY FlattenFacts
<1>0. n \in Nat /\ (\A i \in 1..n : seqs[i] \in Seq(Byte)) /\ Len(b) \in Nat
  BY DEF ByteSeqs
<1>2. f[0] = <<>> /\ \A i \in 1..n : f[i] = f[i - 1] \o seqs[i]
  BY <1>1 DEF Flattens
<1>3. /\ off \in [0..n -> Nat] /\ off[0] = 0 /\ skip + off[n] <= Len(b)
      /\ \A i \in 0..n : \A k \in 0..i : off[k] <= off[i]
  BY OffsetsGrow DEF Offsets
<1>4. \A k \in 1..n : seqs[k] = SubSeq(b, skip + off[k - 1] + 1, skip + off[k])
  OBVIOUS
<1> HIDE DEF n
<1> DEFINE T == {i \in 0..n : f[i] = SubSeq(b, skip + 1, skip + off[i])}
<1>5. 0 \in T
  <2>1. 0 \in 0..n /\ skip + 1 \in Int /\ skip + off[0] \in Int /\ skip + off[0] < skip + 1
    BY <1>0, <1>3
  <2>2. SubSeq(b, skip + 1, skip + off[0]) = <<>>
    BY <2>1, SubSeqEmpty
  <2> QED BY <1>2, <2>1, <2>2
<1>6. ASSUME NEW i \in 1..n, i - 1 \in T PROVE i \in T
  <2>1. /\ off[i - 1] \in Nat /\ off[i] \in Nat /\ off[i - 1] <= off[i]
        /\ off[i] <= off[n] /\ off[n] \in Nat
    BY <1>0, <1>3
  <2>2. f[i] = SubSeq(b, skip + 1, skip + off[i - 1])
                 \o SubSeq(b, skip + off[i - 1] + 1, skip + off[i])
    BY <1>2, <1>4, <1>6
  <2>3. /\ skip + 1 \in 1..Len(b) + 1 /\ skip + off[i - 1] \in (skip + 1) - 1..Len(b)
        /\ skip + off[i] \in skip + off[i - 1]..Len(b)
    BY <1>0, <1>3, <2>1
  <2>4. f[i] = SubSeq(b, skip + 1, skip + off[i])
    BY <2>2, <2>3, ConcatAdjacentSubSeq
  <2> QED BY <2>4
<1> HIDE DEF T
<1>7. n \in T
  <2>1. \A i \in 0..n : i \in T
    BY <1>0, <1>5, <1>6, Upwards
  <2> QED BY <1>0, <2>1
<1> QED BY <1>1, <1>7 DEF T, n

-----------------------------------------------------------------------------
(* A part of a frame: where its numbers are                                *)

\* Where each number of a layout's part begins.
Places(widths, off) ==
  /\ off \in [0..Len(widths) -> Nat]
  /\ off[0] = 0
  /\ \A i \in 1..Len(widths) : off[i] = off[i - 1] + widths[i]

\* Numbers, and numbers that the widths can hold.
AreNumbers(widths, numbers) == \A i \in 1..Len(widths) : numbers[i] \in Nat
AllFit(widths, numbers) ==
  \A i \in 1..Len(widths) : numbers[i] \in Nat /\ Fits(numbers[i], widths[i])

\* The numbers of a part, each in its bytes.
Pieces(widths, numbers) == [i \in 1..Len(widths) |-> Bytes(numbers[i], widths[i])]

\* Each piece has the length of its number.
LEMMA PiecesFacts ==
  ASSUME NEW widths \in Seq(Nat), NEW numbers, AreNumbers(widths, numbers)
  PROVE  /\ Pieces(widths, numbers) \in ByteSeqs
         /\ Len(Pieces(widths, numbers)) = Len(widths)
         /\ \A i \in 1..Len(widths) :
              /\ Pieces(widths, numbers)[i] = Bytes(numbers[i], widths[i])
              /\ Len(Pieces(widths, numbers)[i]) = widths[i]
         /\ Packed(widths, numbers) = FlattenSeq(Pieces(widths, numbers))
<1>1. ASSUME NEW i \in 1..Len(widths)
      PROVE  Bytes(numbers[i], widths[i]) \in Seq(Byte) /\ Len(Bytes(numbers[i], widths[i])) = widths[i]
  <2>1. numbers[i] \in Nat /\ widths[i] \in Nat
    BY DEF AreNumbers
  <2> QED BY <2>1, BytesType
<1>2. Pieces(widths, numbers) \in [1..Len(widths) -> Seq(Byte)]
  BY <1>1 DEF Pieces
<1>3. Pieces(widths, numbers) \in ByteSeqs /\ Len(Pieces(widths, numbers)) = Len(widths)
  BY <1>2 DEF ByteSeqs
<1>4. ASSUME NEW i \in 1..Len(widths)
      PROVE  Pieces(widths, numbers)[i] = Bytes(numbers[i], widths[i])
  BY DEF Pieces
<1> QED BY <1>1, <1>3, <1>4 DEF Packed, Pieces

\* Every byte of a packed part is that of its number.
LEMMA PackedFacts ==
  ASSUME NEW widths \in Seq(Nat), NEW numbers, AreNumbers(widths, numbers),
         NEW off, Places(widths, off)
  PROVE  /\ Packed(widths, numbers) \in Seq(Byte)
         /\ Len(Packed(widths, numbers)) = off[Len(widths)]
         /\ \A k \in 1..Len(widths) : \A j \in 1..widths[k] :
              Packed(widths, numbers)[off[k - 1] + j] = Bytes(numbers[k], widths[k])[j]
<1> DEFINE seqs == Pieces(widths, numbers)
<1>1. /\ seqs \in ByteSeqs /\ Len(seqs) = Len(widths)
      /\ \A i \in 1..Len(widths) : /\ seqs[i] = Bytes(numbers[i], widths[i])
                                   /\ Len(seqs[i]) = widths[i]
      /\ Packed(widths, numbers) = FlattenSeq(seqs)
  BY PiecesFacts
<1> HIDE DEF seqs
<1>2. Offsets(seqs, off)
  BY <1>1 DEF Places, Offsets
<1>3. /\ Len(FlattenSeq(seqs)) = off[Len(seqs)]
      /\ \A k \in 1..Len(seqs) : \A j \in 1..Len(seqs[k]) :
           FlattenSeq(seqs)[off[k - 1] + j] = seqs[k][j]
  BY <1>1, <1>2, FlattenParts
<1>4. FlattenSeq(seqs) \in Seq(Byte)
  BY <1>1, FlattenType
<1> QED BY <1>1, <1>3, <1>4

\* The same, to be cited.
IsPacked(p, widths, numbers, off) ==
  /\ p \in Seq(Byte) /\ Len(p) = off[Len(widths)]
  /\ \A k \in 1..Len(widths) : \A j \in 1..widths[k] :
       p[off[k - 1] + j] = Bytes(numbers[k], widths[k])[j]
LEMMA PackedParts ==
  ASSUME NEW widths \in Seq(Nat), NEW numbers, AreNumbers(widths, numbers),
         NEW off, Places(widths, off)
  PROVE  IsPacked(Packed(widths, numbers), widths, numbers, off)
BY PackedFacts DEF IsPacked

\* A number where it stands, read and written.
LEMMA SliceFacts ==
  ASSUME NEW b \in Seq(Byte), NEW skip \in Nat, NEW width \in Nat, skip + width <= Len(b)
  PROVE  /\ SubSeq(b, skip + 1, skip + width) \in Seq(Byte)
         /\ Len(SubSeq(b, skip + 1, skip + width)) = width
         /\ \A j \in 1..width : SubSeq(b, skip + 1, skip + width)[j] = b[skip + j]
<1>1. \A i \in skip + 1..skip + width : b[i] \in Byte
  BY LenProperties
<1>2. /\ SubSeq(b, skip + 1, skip + width) \in Seq(Byte)
      /\ Len(SubSeq(b, skip + 1, skip + width))
           = IF skip + 1 <= skip + width THEN skip + width - (skip + 1) + 1 ELSE 0
      /\ \A i \in 1..skip + width - (skip + 1) + 1 :
           SubSeq(b, skip + 1, skip + width)[i] = b[skip + 1 + i - 1]
  BY <1>1, SubSeqProperties
<1> DEFINE q == SubSeq(b, skip + 1, skip + width)
           n == skip + width - (skip + 1) + 1
<1>3. n = width /\ (IF skip + 1 <= skip + width THEN n ELSE 0) = width
      /\ \A j \in 1..width : skip + 1 + j - 1 = skip + j
  OBVIOUS
<1>4. /\ q \in Seq(Byte) /\ Len(q) = IF skip + 1 <= skip + width THEN n ELSE 0
      /\ \A i \in 1..n : q[i] = b[skip + 1 + i - 1]
  BY <1>2
<1> HIDE DEF q, n
<1>5. q \in Seq(Byte) /\ Len(q) = width
  BY <1>3, <1>4
<1>6. ASSUME NEW j \in 1..width PROVE q[j] = b[skip + j]
  <2>1. j \in 1..n /\ skip + 1 + j - 1 = skip + j
    BY <1>3
  <2>2. q[j] = b[skip + 1 + j - 1]
    BY <1>4, <2>1
  <2> QED BY <2>1, <2>2
<1> QED BY <1>5, <1>6 DEF q

\* A number read is written in the bytes it was read from.
LEMMA AtFacts ==
  ASSUME NEW b \in Seq(Byte), NEW skip \in Nat, NEW width \in Nat, skip + width <= Len(b)
  PROVE  /\ At(b, skip, width) \in Nat
         /\ Fits(At(b, skip, width), width)
         /\ Bytes(At(b, skip, width), width) = SubSeq(b, skip + 1, skip + width)
BY SliceFacts, BytesOfNumber DEF At

\* A number is read from the bytes it was written in.
LEMMA AtWritten ==
  ASSUME NEW b \in Seq(Byte), NEW skip \in Nat, NEW width \in Nat, skip + width <= Len(b),
         NEW v \in Nat, Fits(v, width),
         \A j \in 1..width : b[skip + j] = Bytes(v, width)[j]
  PROVE  At(b, skip, width) = v
<1> DEFINE s == SubSeq(b, skip + 1, skip + width)
<1>1. s \in Seq(Byte) /\ Len(s) = width /\ \A j \in 1..width : s[j] = b[skip + j]
  BY SliceFacts
<1>2. At(b, skip, width) = Number(s)
  BY DEF At
<1> HIDE DEF s
<1>3. Bytes(v, width) \in Seq(Byte) /\ Len(Bytes(v, width)) = width
  BY BytesType
<1>4. s = Bytes(v, width)
  BY <1>1, <1>3, SeqEqual
<1> QED BY <1>2, <1>4, NumberOfBytes

\* A number ends before the part does.
LEMMA PlacesGrow ==
  ASSUME NEW widths \in Seq(Nat), NEW off, Places(widths, off)
  PROVE  \A i \in 0..Len(widths) : \A k \in 0..i : off[k] <= off[i]
<1> DEFINE numbers == [i \in 1..Len(widths) |-> 0]
           seqs == Pieces(widths, numbers)
<1>1. AreNumbers(widths, numbers)
  BY DEF AreNumbers
<1> HIDE DEF numbers
<1>2. /\ seqs \in ByteSeqs /\ Len(seqs) = Len(widths)
      /\ \A i \in 1..Len(widths) : Len(seqs[i]) = widths[i]
  BY <1>1, PiecesFacts
<1> HIDE DEF seqs
<1>3. Offsets(seqs, off)
  BY <1>2 DEF Places, Offsets
<1> QED BY <1>2, <1>3, OffsetsGrow

\* Numbers read by a layout are written again as the bytes they were read from.
LEMMA PackedRead ==
  ASSUME NEW widths \in Seq(Nat), NEW off, Places(widths, off),
         NEW b \in Seq(Byte), NEW skip \in Nat, skip + off[Len(widths)] <= Len(b),
         NEW numbers,
         \A k \in 1..Len(widths) : numbers[k] = At(b, skip + off[k - 1], widths[k])
  PROVE  /\ AllFit(widths, numbers)
         /\ Packed(widths, numbers) = SubSeq(b, skip + 1, skip + off[Len(widths)])
<1> DEFINE n == Len(widths)
<1>0. n \in Nat /\ \A k \in 1..n : widths[k] \in Nat
  BY LenProperties
<1>1. /\ \A k \in 1..n : off[k - 1] \in Nat /\ off[k] = off[k - 1] + widths[k]
      /\ \A k \in 1..n : off[k] <= off[n] /\ off[n] \in Nat
  <2>1. off \in [0..n -> Nat] /\ \A k \in 1..n : off[k] = off[k - 1] + widths[k]
    BY DEF Places
  <2>2. \A i \in 0..n : \A k \in 0..i : off[k] <= off[i]
    BY PlacesGrow
  <2> HIDE DEF n
  <2>3. \A k \in 1..n : k - 1 \in 0..n /\ k \in 0..n
    BY <1>0
  <2>4. n \in 0..n
    BY <1>0
  <2> QED BY <2>1, <2>2, <2>3, <2>4
<1>2. ASSUME NEW k \in 1..n
      PROVE  /\ numbers[k] \in Nat /\ Fits(numbers[k], widths[k])
             /\ Bytes(numbers[k], widths[k])
                  = SubSeq(b, skip + off[k - 1] + 1, skip + off[k])
  <2>1. skip + off[k - 1] \in Nat /\ widths[k] \in Nat /\ skip + off[k - 1] + widths[k] <= Len(b)
        /\ (skip + off[k - 1]) + widths[k] = skip + off[k]
    <3> DEFINE x == off[k - 1]
               y == widths[k]
               z == off[n]
    <3>1. x \in Nat /\ y \in Nat /\ z \in Nat /\ off[k] = x + y /\ off[k] <= z
          /\ skip + z <= Len(b) /\ Len(b) \in Nat
      BY <1>0, <1>1, LenProperties
    <3> HIDE DEF x, y, z
    <3>2. skip + x \in Nat /\ skip + x + y <= Len(b) /\ (skip + x) + y = skip + (x + y)
      BY <3>1
    <3> QED BY <3>1, <3>2 DEF x, y
  <2>2. numbers[k] = At(b, skip + off[k - 1], widths[k])
    OBVIOUS
  <2>3. /\ At(b, skip + off[k - 1], widths[k]) \in Nat
        /\ Fits(At(b, skip + off[k - 1], widths[k]), widths[k])
        /\ Bytes(At(b, skip + off[k - 1], widths[k]), widths[k])
             = SubSeq(b, (skip + off[k - 1]) + 1, (skip + off[k - 1]) + widths[k])
    BY <2>1, AtFacts
  <2> QED BY <2>1, <2>2, <2>3
<1>3. AllFit(widths, numbers) /\ AreNumbers(widths, numbers)
  BY <1>2 DEF AllFit, AreNumbers
<1> DEFINE seqs == Pieces(widths, numbers)
<1>4. /\ seqs \in ByteSeqs /\ Len(seqs) = n
      /\ \A i \in 1..n : seqs[i] = Bytes(numbers[i], widths[i]) /\ Len(seqs[i]) = widths[i]
      /\ Packed(widths, numbers) = FlattenSeq(seqs)
  BY <1>3, PiecesFacts
<1> HIDE DEF seqs
<1>5. Offsets(seqs, off)
  BY <1>4 DEF Places, Offsets
<1>6. \A k \in 1..Len(seqs) : seqs[k] = SubSeq(b, skip + off[k - 1] + 1, skip + off[k])
  BY <1>2, <1>4
<1>7. skip + off[Len(seqs)] <= Len(b)
  BY <1>4
<1>8. FlattenSeq(seqs) = SubSeq(b, skip + 1, skip + off[Len(seqs)])
  BY <1>4, <1>5, <1>6, <1>7, FlattenSlices
<1> QED BY <1>3, <1>4, <1>8

-----------------------------------------------------------------------------
(* A fixed part and rows                                                   *)

\* Rows follow one another, and the last one ends with the frame.
LEMMA RowPlaces ==
  ASSUME NEW size \in Nat, NEW count \in Nat
  PROVE  /\ count * size \in Nat /\ 0 * size = 0
         /\ \A i \in 1..count : /\ (i - 1) * size \in Nat /\ i * size \in Nat
                                /\ (i - 1) * size + size = i * size
                                /\ i * size <= count * size
<1>1. ASSUME NEW i \in 1..count
      PROVE  /\ (i - 1) * size \in Nat /\ i * size \in Nat
             /\ (i - 1) * size + size = i * size
             /\ i * size <= count * size
  <2>1. (i - 1) * size \in Nat /\ i * size \in Nat /\ (count - i) * size \in Nat
    OBVIOUS
  <2>2. (i - 1) * size + size = i * size
    OBVIOUS
  <2>3. count * size = i * size + (count - i) * size
    OBVIOUS
  <2> QED BY <2>1, <2>2, <2>3
<1>2. count * size \in Nat /\ 0 * size = 0
  OBVIOUS
<1> QED BY <1>1, <1>2

\* A layout is a sequence of widths for the fixed part and one for a row.
IsLayout(layout) == layout.head \in Seq(Nat) /\ layout.row \in Seq(Nat)
\* The sizes of a fixed part and of a row.
Span(widths, off) == off[Len(widths)]

\* A part has a size.
LEMMA SpanNat ==
  ASSUME NEW widths \in Seq(Nat), NEW off, Places(widths, off)
  PROVE  Span(widths, off) \in Nat
BY DEF Places, Span

\* A number begins and ends within its part.
LEMMA PlacesFacts ==
  ASSUME NEW widths \in Seq(Nat), NEW off, Places(widths, off)
  PROVE  \A k \in 1..Len(widths) :
           /\ off[k - 1] \in Nat /\ off[k] \in Nat /\ off[k] = off[k - 1] + widths[k]
           /\ widths[k] \in Nat /\ off[k - 1] + widths[k] <= Span(widths, off)
<1> SUFFICES ASSUME NEW k \in 1..Len(widths)
             PROVE /\ off[k - 1] \in Nat /\ off[k] \in Nat /\ off[k] = off[k - 1] + widths[k]
                   /\ widths[k] \in Nat /\ off[k - 1] + widths[k] <= Span(widths, off)
  OBVIOUS
<1>1. off \in [0..Len(widths) -> Nat] /\ off[k] = off[k - 1] + widths[k]
  BY DEF Places
<1>2. Len(widths) \in 0..Len(widths) /\ k \in 0..Len(widths) /\ k - 1 \in 0..Len(widths)
  BY LenProperties
<1>3. off[k] <= off[Len(widths)]
  BY <1>2, PlacesGrow
<1>4. widths[k] \in Nat
  OBVIOUS
<1> QED BY <1>1, <1>2, <1>3, <1>4 DEF Span

\* The rows are numbers.
RowNumbers(layout, rows) == \A r \in 1..Len(rows) : AreNumbers(layout.row, rows[r])

\* The rows, each packed.
RowPieces(layout, rows) == [i \in 1..Len(rows) |-> Packed(layout.row, rows[i])]

\* Each packed row has the size of a row.
RowsPacked(layout, ro, rows) ==
  /\ RowPieces(layout, rows) \in ByteSeqs
  /\ Len(RowPieces(layout, rows)) = Len(rows)
  /\ \A r \in 1..Len(rows) :
       /\ RowPieces(layout, rows)[r] = Packed(layout.row, rows[r])
       /\ Len(RowPieces(layout, rows)[r]) = Span(layout.row, ro)
  /\ Offsets(RowPieces(layout, rows),
             [i \in 0..Len(rows) |-> i * Span(layout.row, ro)])
LEMMA RowPiecesFacts ==
  ASSUME NEW layout, IsLayout(layout), NEW ro, Places(layout.row, ro),
         NEW rows, Len(rows) \in Nat, RowNumbers(layout, rows)
  PROVE  RowsPacked(layout, ro, rows)
<1> DEFINE seqs == RowPieces(layout, rows)
           n == Len(rows)
           size == Span(layout.row, ro)
           off == [i \in 0..n |-> i * size]
<1>0. layout.row \in Seq(Nat) /\ n \in Nat /\ size \in Nat
  BY SpanNat DEF IsLayout
<1>1. ASSUME NEW r \in 1..n
      PROVE  /\ Packed(layout.row, rows[r]) \in Seq(Byte)
             /\ Len(Packed(layout.row, rows[r])) = size
  BY <1>0, PackedFacts DEF Span, RowNumbers
<1>2. seqs \in [1..n -> Seq(Byte)]
  BY <1>1 DEF RowPieces
<1>3. \A r \in 1..n : seqs[r] = Packed(layout.row, rows[r])
  BY DEF RowPieces
<1> HIDE DEF n, seqs, size
<1>4. seqs \in ByteSeqs /\ Len(seqs) = n
  BY <1>0, <1>2 DEF ByteSeqs
<1>5. Offsets(seqs, off)
  <2>1. \A i \in 0..n : i * size \in Nat
    BY <1>0, RowPlaces
  <2>2. off \in [0..n -> Nat]
    BY <2>1
  <2>3. off[0] = 0
    BY <1>0, RowPlaces
  <2>4. ASSUME NEW i \in 1..n PROVE off[i] = off[i - 1] + Len(seqs[i])
    <3>1. i \in 0..n /\ i - 1 \in 0..n
      BY <1>0
    <3>2. off[i] = i * size /\ off[i - 1] = (i - 1) * size
      BY <3>1
    <3>3. (i - 1) * size + size = i * size
      BY <1>0, RowPlaces
    <3>4. Len(seqs[i]) = size
      BY <1>1, <1>3
    <3> QED BY <3>2, <3>3, <3>4
  <2> HIDE DEF off
  <2> QED BY <1>4, <2>2, <2>3, <2>4 DEF Offsets
<1>6. \A r \in 1..n : Len(seqs[r]) = size
  BY <1>1, <1>3
<1> QED BY <1>3, <1>4, <1>5, <1>6 DEF n, seqs, size, RowsPacked

\* A fixed part, and rows behind it, as they are read from their places.
HeadIs(b, widths, off, head) ==
  \A k \in 1..Len(widths) : head[k] = At(b, off[k - 1], widths[k])

\* The rows are the numbers at their places behind the fixed part.
RowsAre(b, skip, widths, off, rows) ==
  \A r \in 1..Len(rows) : \A k \in 1..Len(widths) :
    rows[r][k] = At(b, skip + (r - 1) * Span(widths, off) + off[k - 1], widths[k])

\* What is read by a layout, to the last byte, is written again as it was.
ReadBy(layout, ho, ro, b, head, rows) ==
  /\ IsLayout(layout) /\ Places(layout.head, ho) /\ Places(layout.row, ro)
  /\ Len(rows) \in Nat
  /\ b \in Seq(Byte)
  /\ Len(b) = Span(layout.head, ho) + Len(rows) * Span(layout.row, ro)
  /\ HeadIs(b, layout.head, ho, head)
  /\ RowsAre(b, Span(layout.head, ho), layout.row, ro, rows)

\* The numbers read from a frame make the frame.
LEMMA WrittenRead ==
  ASSUME NEW layout, NEW ho, NEW ro, NEW b, NEW head, NEW rows,
         ReadBy(layout, ho, ro, b, head, rows)
  PROVE  /\ Written(layout, head, rows) = b
         /\ AllFit(layout.head, head)
         /\ \A r \in 1..Len(rows) : AllFit(layout.row, rows[r])
<1> USE DEF ReadBy
<1> DEFINE n == Len(rows)
           hs == Span(layout.head, ho)
           rs == Span(layout.row, ro)
           seqs == RowPieces(layout, rows)
           off == [i \in 0..n |-> i * rs]
<1>0. layout.head \in Seq(Nat) /\ layout.row \in Seq(Nat) /\ n \in Nat
      /\ hs \in Nat /\ rs \in Nat /\ Len(b) \in Nat /\ Len(b) = hs + n * rs
  BY SpanNat, LenProperties DEF IsLayout
<1>1. n * rs \in Nat /\ 0 * rs = 0 /\ \A i \in 1..n : /\ (i - 1) * rs \in Nat /\ i * rs \in Nat
                              /\ (i - 1) * rs + rs = i * rs
                              /\ i * rs <= n * rs
  BY <1>0, RowPlaces
<1>2. /\ AllFit(layout.head, head)
      /\ Packed(layout.head, head) = SubSeq(b, 1, hs)
  <2> DEFINE ws == layout.head
             z == 0
  <2>1. ws \in Seq(Nat) /\ Places(ws, ho) /\ z \in Nat /\ ho[Len(ws)] = hs
    BY <1>0 DEF Span
  <2>2. \A k \in 1..Len(ws) : ho[k - 1] \in Nat
    BY <1>0, PlacesFacts
  <2>3. \A k \in 1..Len(ws) : head[k] = At(b, z + ho[k - 1], ws[k])
    BY <2>2 DEF HeadIs
  <2>4. z + ho[Len(ws)] <= Len(b)
    BY <1>0, <1>1, <2>1
  <2>5. z + 1 = 1 /\ z + hs = hs
    BY <1>0
  <2> HIDE DEF ws, z, hs
  <2>6. AllFit(ws, head) /\ Packed(ws, head) = SubSeq(b, z + 1, z + ho[Len(ws)])
    BY <2>1, <2>3, <2>4, PackedRead
  <2> QED BY <2>1, <2>5, <2>6 DEF ws
<1>3. ASSUME NEW r \in 1..n
      PROVE  /\ AllFit(layout.row, rows[r])
             /\ Packed(layout.row, rows[r]) = SubSeq(b, hs + (r - 1) * rs + 1, hs + r * rs)
  <2> DEFINE skip == hs + (r - 1) * rs
  <2>1. skip \in Nat /\ skip + rs = hs + r * rs /\ skip + rs <= Len(b)
    <3> DEFINE x == (r - 1) * rs
               y == r * rs
               z == n * rs
    <3>1. x \in Nat /\ y \in Nat /\ z \in Nat /\ x + rs = y /\ y <= z
      BY <1>1
    <3> HIDE DEF x, y, z, hs, rs, n, ReadBy
    <3>2. hs + x \in Nat /\ (hs + x) + rs = hs + y /\ (hs + x) + rs <= hs + z
      BY <1>0, <3>1
    <3> QED BY <1>0, <3>2 DEF x, y, z
  <2>2. \A k \in 1..Len(layout.row) : rows[r][k] = At(b, skip + ro[k - 1], layout.row[k])
    BY DEF RowsAre
  <2> HIDE DEF skip
  <2> DEFINE ws == layout.row
             row == rows[r]
  <2>3. skip + ro[Len(ws)] <= Len(b) /\ ws \in Seq(Nat) /\ Places(ws, ro)
    BY <1>0, <2>1 DEF Span
  <2> HIDE DEF ws, row
  <2>4. \A k \in 1..Len(ws) : row[k] = At(b, skip + ro[k - 1], ws[k])
    BY <2>2 DEF ws, row
  <2>5. AllFit(ws, row) /\ Packed(ws, row) = SubSeq(b, skip + 1, skip + ro[Len(ws)])
    BY <2>1, <2>3, <2>4, PackedRead
  <2>6. Packed(ws, row) = SubSeq(b, skip + 1, hs + r * rs)
    BY <2>1, <2>5 DEF Span, ws
  <2> QED BY <2>5, <2>6 DEF skip, ws, row
<1>4. RowNumbers(layout, rows)
  BY <1>3 DEF AllFit, AreNumbers, RowNumbers
<1>5. /\ seqs \in ByteSeqs /\ Len(seqs) = n /\ Offsets(seqs, off)
      /\ \A r \in 1..n : seqs[r] = Packed(layout.row, rows[r])
  <2>1. IsLayout(layout) /\ Places(layout.row, ro) /\ Len(rows) \in Nat
    OBVIOUS
  <2>2. RowsPacked(layout, ro, rows)
    <3> HIDE DEF ReadBy
    <3> QED BY <1>4, <2>1, RowPiecesFacts
  <2> QED BY <2>2 DEF RowsPacked
<1>6. /\ \A i \in 1..n : off[i] = i * rs /\ off[i - 1] = (i - 1) * rs
      /\ off[n] = n * rs
  <2> HIDE DEF n
  <2>1. \A i \in 1..n : i \in 0..n /\ i - 1 \in 0..n
    BY <1>0
  <2>2. n \in 0..n
    BY <1>0
  <2> QED BY <2>1, <2>2
<1>7. Written(layout, head, rows) = Packed(layout.head, head) \o FlattenSeq(seqs)
  BY DEF Written, RowPieces
<1> HIDE DEF seqs, off, n, hs, rs
<1>8. FlattenSeq(seqs) = SubSeq(b, hs + 1, hs + n * rs)
  <2>1. \A k \in 1..Len(seqs) : seqs[k] = SubSeq(b, hs + off[k - 1] + 1, hs + off[k])
    BY <1>3, <1>5, <1>6
  <2>2. hs + off[Len(seqs)] <= Len(b)
    BY <1>0, <1>1, <1>5, <1>6
  <2>3. FlattenSeq(seqs) = SubSeq(b, hs + 1, hs + off[Len(seqs)])
    BY <1>0, <1>5, <2>1, <2>2, FlattenSlices
  <2> QED BY <1>5, <1>6, <2>3
<1>9. SubSeq(b, 1, hs) \o SubSeq(b, hs + 1, Len(b)) = b
  <2>1. 1 \in 1..Len(b) + 1 /\ hs \in 1 - 1..Len(b) /\ Len(b) \in hs..Len(b)
    <3> DEFINE z == n * rs
    <3>1. z \in Nat /\ Len(b) = hs + z
      BY <1>0, <1>1
    <3> HIDE DEF z
    <3> QED BY <1>0, <3>1
  <2>2. SubSeq(b, 1, hs) \o SubSeq(b, hs + 1, Len(b)) = SubSeq(b, 1, Len(b))
    BY <2>1, ConcatAdjacentSubSeq
  <2> QED BY <2>2, SubSeqFull
<1> QED BY <1>0, <1>2, <1>3, <1>7, <1>8, <1>9 DEF n

\* What is written by a layout is read again.
WrittenBy(layout, ho, ro, b, head, rows) ==
  /\ IsLayout(layout) /\ Places(layout.head, ho) /\ Places(layout.row, ro)
  /\ AreNumbers(layout.head, head)
  /\ Len(rows) \in Nat
  /\ RowNumbers(layout, rows)
  /\ b = Written(layout, head, rows)

\* A frame written by a layout has its numbers at their places.
LEMMA WrittenParts ==
  ASSUME NEW layout, NEW ho, NEW ro, NEW b, NEW head, NEW rows,
         WrittenBy(layout, ho, ro, b, head, rows)
  PROVE  /\ b \in Seq(Byte)
         /\ Len(b) = Span(layout.head, ho) + Len(rows) * Span(layout.row, ro)
         /\ AllFit(layout.head, head) => HeadIs(b, layout.head, ho, head)
         /\ (\A r \in 1..Len(rows) : AllFit(layout.row, rows[r]))
              => RowsAre(b, Span(layout.head, ho), layout.row, ro, rows)
<1> USE DEF WrittenBy
<1> DEFINE n == Len(rows)
           hs == Span(layout.head, ho)
           rs == Span(layout.row, ro)
           seqs == RowPieces(layout, rows)
           off == [i \in 0..n |-> i * rs]
           h == Packed(layout.head, head)
           t == FlattenSeq(seqs)
<1>0. layout.head \in Seq(Nat) /\ layout.row \in Seq(Nat) /\ n \in Nat
      /\ hs \in Nat /\ rs \in Nat
  BY SpanNat DEF IsLayout
<1>1. n * rs \in Nat /\ \A i \in 1..n : /\ (i - 1) * rs \in Nat /\ i * rs \in Nat
                              /\ (i - 1) * rs + rs = i * rs
                              /\ i * rs <= n * rs
  BY <1>0, RowPlaces
<1>2. /\ h \in Seq(Byte) /\ Len(h) = hs
      /\ \A k \in 1..Len(layout.head) : \A j \in 1..layout.head[k] :
           h[ho[k - 1] + j] = Bytes(head[k], layout.head[k])[j]
  <2> DEFINE ws == layout.head
  <2>1. ws \in Seq(Nat) /\ AreNumbers(ws, head) /\ Places(ws, ho) /\ hs = ho[Len(ws)]
    BY <1>0 DEF Span
  <2> HIDE DEF WrittenBy, ws, hs
  <2>2. IsPacked(Packed(ws, head), ws, head, ho)
    BY <2>1, PackedParts
  <2>3. IsPacked(h, layout.head, head, ho)
    BY <2>2 DEF ws
  <2> HIDE DEF h
  <2> QED BY <2>1, <2>3 DEF IsPacked, ws
<1>3. /\ seqs \in ByteSeqs /\ Len(seqs) = n /\ Offsets(seqs, off)
      /\ \A r \in 1..n : seqs[r] = Packed(layout.row, rows[r]) /\ Len(seqs[r]) = rs
  <2>1. RowsPacked(layout, ro, rows)
    BY RowPiecesFacts
  <2> HIDE DEF WrittenBy
  <2> QED BY <2>1 DEF RowsPacked
<1>4. /\ \A i \in 1..n : off[i] = i * rs /\ off[i - 1] = (i - 1) * rs
      /\ off[n] = n * rs
  <2> HIDE DEF n
  <2>1. \A i \in 1..n : i \in 0..n /\ i - 1 \in 0..n
    BY <1>0
  <2>2. n \in 0..n
    BY <1>0
  <2> QED BY <2>1, <2>2
<1>5. b = h \o t
  BY DEF Written, RowPieces
<1> HIDE DEF seqs, off, n, hs, rs, h
<1>6. /\ t \in Seq(Byte) /\ Len(t) = n * rs
      /\ \A r \in 1..n : \A j \in 1..rs : t[(r - 1) * rs + j] = seqs[r][j]
  <2>1. /\ Len(FlattenSeq(seqs)) = off[Len(seqs)]
        /\ \A k \in 1..Len(seqs) : \A j \in 1..Len(seqs[k]) :
             FlattenSeq(seqs)[off[k - 1] + j] = seqs[k][j]
    BY <1>3, FlattenParts
  <2>2. t \in Seq(Byte)
    BY <1>3, FlattenType
  <2> HIDE DEF WrittenBy
  <2>3. Len(t) = n * rs
    BY <1>3, <1>4, <2>1
  <2>4. ASSUME NEW r \in 1..n, NEW j \in 1..rs PROVE t[(r - 1) * rs + j] = seqs[r][j]
    <3>1. r \in 1..Len(seqs) /\ j \in 1..Len(seqs[r])
      BY <1>3
    <3>2. t[off[r - 1] + j] = seqs[r][j]
      BY <2>1, <3>1
    <3>3. off[r - 1] = (r - 1) * rs
      BY <1>4
    <3> QED BY <3>2, <3>3
  <2> QED BY <2>2, <2>3, <2>4
<1> HIDE DEF t
<1>7. /\ b \in Seq(Byte) /\ Len(b) = hs + n * rs
      /\ \A p \in 1..hs + n * rs : b[p] = IF p <= hs THEN h[p] ELSE t[p - hs]
  <2> DEFINE z == n * rs
  <2>1. z \in Nat /\ Len(t) = z
    BY <1>1, <1>6
  <2> HIDE DEF z
  <2>2. /\ b \in Seq(Byte) /\ Len(b) = hs + z
        /\ \A p \in 1..hs + z : b[p] = IF p <= hs THEN h[p] ELSE t[p - hs]
    <3>1. h \in Seq(Byte) /\ t \in Seq(Byte) /\ Len(h) = hs
      BY <1>2, <1>6
    <3>2. /\ h \o t \in Seq(Byte) /\ Len(h \o t) = Len(h) + Len(t)
          /\ \A p \in 1..Len(h) + Len(t) : (h \o t)[p] = IF p <= Len(h) THEN h[p] ELSE t[p - Len(h)]
      BY <3>1, ConcatProperties
    <3> QED BY <1>5, <2>1, <3>1, <3>2
  <2> QED BY <2>2 DEF z
<1>8. ASSUME AllFit(layout.head, head), NEW k \in 1..Len(layout.head)
      PROVE  At(b, ho[k - 1], layout.head[k]) = head[k]
  <2> DEFINE x == ho[k - 1]
             w == layout.head[k]
             v == head[k]
  <2>1. x \in Nat /\ w \in Nat /\ x + w <= hs
    BY <1>0, PlacesFacts DEF hs
  <2>2. v \in Nat /\ Fits(v, w) /\ \A j \in 1..w : h[x + j] = Bytes(v, w)[j]
    BY <1>2, <1>8 DEF AllFit
  <2> HIDE DEF x, w, v
  <2>3. x + w <= Len(b) /\ \A j \in 1..w : b[x + j] = Bytes(v, w)[j]
    <3>1. \A j \in 1..w : x + j \in 1..hs + n * rs /\ x + j <= hs
      <4> DEFINE z == n * rs
      <4>1. z \in Nat
        BY <1>1
      <4> HIDE DEF z
      <4>2. \A j \in 1..w : x + j \in 1..hs + z /\ x + j <= hs
        BY <1>0, <2>1, <4>1
      <4> QED BY <4>2 DEF z
    <3>2. x + w <= Len(b)
      <4> DEFINE z == n * rs
      <4>1. z \in Nat /\ Len(b) = hs + z
        BY <1>1, <1>7
      <4> HIDE DEF z
      <4> QED BY <1>0, <2>1, <4>1
    <3> QED BY <1>7, <2>2, <3>1, <3>2
  <2>4. At(b, x, w) = v
    BY <1>7, <2>1, <2>2, <2>3, AtWritten
  <2> QED BY <2>4 DEF x, w, v
<1>9. ASSUME NEW r \in 1..n, AllFit(layout.row, rows[r]), NEW k \in 1..Len(layout.row)
      PROVE  At(b, hs + (r - 1) * rs + ro[k - 1], layout.row[k]) = rows[r][k]
  <2> DEFINE x == ro[k - 1]
             w == layout.row[k]
             v == rows[r][k]
             s == (r - 1) * rs
  <2>1. x \in Nat /\ w \in Nat /\ x + w <= rs
    BY <1>0, PlacesFacts DEF rs
  <2>2. v \in Nat /\ Fits(v, w) /\ \A j \in 1..w : seqs[r][x + j] = Bytes(v, w)[j]
    <3> DEFINE ws == layout.row
               row == rows[r]
    <3>1. AreNumbers(ws, row) /\ ws \in Seq(Nat) /\ Places(ws, ro) /\ k \in 1..Len(ws)
      BY <1>0, <1>9 DEF AllFit, AreNumbers
    <3>2. \A j \in 1..w : Packed(layout.row, rows[r])[x + j] = Bytes(v, w)[j]
      <4> HIDE DEF WrittenBy, ws, row
      <4>1. IsPacked(Packed(ws, row), ws, row, ro)
        BY <3>1, PackedParts
      <4>2. \A j \in 1..ws[k] : Packed(ws, row)[ro[k - 1] + j] = Bytes(row[k], ws[k])[j]
        BY <3>1, <4>1 DEF IsPacked
      <4> QED BY <4>2 DEF ws, row
    <3> QED BY <1>3, <1>9, <3>2 DEF AllFit
  <2>3. s \in Nat /\ s + rs <= n * rs /\ \A j \in 1..rs : t[s + j] = seqs[r][j]
    <3>1. (r - 1) * rs + rs = r * rs /\ r * rs <= n * rs /\ (r - 1) * rs \in Nat
      BY <1>1
    <3> QED BY <1>6, <3>1
  <2> HIDE DEF x, w, v, s
  <2> DEFINE z == n * rs
  <2>4. z \in Nat /\ s + rs <= z /\ Len(b) = hs + z
        /\ \A p \in 1..hs + z : b[p] = IF p <= hs THEN h[p] ELSE t[p - hs]
    BY <1>1, <1>7, <2>3
  <2> HIDE DEF z
  <2>5. /\ hs + s + x \in Nat /\ hs + s + x + w <= Len(b)
        /\ \A j \in 1..w : b[hs + s + x + j] = Bytes(v, w)[j]
    <3>1. hs + s + x \in Nat /\ hs + s + x + w <= hs + z
      BY <1>0, <2>1, <2>3, <2>4
    <3>2. ASSUME NEW j \in 1..w PROVE b[hs + s + x + j] = Bytes(v, w)[j]
      <4>1. /\ hs + s + x + j \in 1..hs + z /\ ~(hs + s + x + j <= hs)
            /\ (hs + s + x + j) - hs = s + (x + j)
            /\ x + j \in 1..rs
        BY <1>0, <2>1, <2>3, <2>4
      <4>2. b[hs + s + x + j] = t[s + (x + j)]
        BY <2>4, <4>1
      <4>3. t[s + (x + j)] = seqs[r][x + j]
        BY <2>3, <4>1
      <4> QED BY <2>2, <4>2, <4>3
    <3> QED BY <2>4, <3>1, <3>2
  <2>6. At(b, hs + s + x, w) = v
    BY <1>7, <2>1, <2>2, <2>5, AtWritten
  <2> QED BY <2>6 DEF x, w, v, s
<1>10. AllFit(layout.head, head) => HeadIs(b, layout.head, ho, head)
  BY <1>8 DEF HeadIs
<1>11. (\A r \in 1..n : AllFit(layout.row, rows[r])) => RowsAre(b, hs, layout.row, ro, rows)
  BY <1>9 DEF RowsAre, n, rs
<1> QED BY <1>7, <1>10, <1>11 DEF n, hs, rs

\* Ends says where each number of a part is.
LEMMA EndsFacts ==
  ASSUME NEW widths \in Seq(Nat)
  PROVE  Places(widths, Ends(widths))
<1> DEFINE n == Len(widths)
           step == [p \in (1..n) \X Nat |-> p[2] + widths[p[1]]]
           Is(f) == f = [k \in 0..n |-> IF k = 0 THEN 0 ELSE f[k - 1] + widths[k]]
<1>1. n \in Nat /\ \A k \in 1..n : widths[k] \in Nat
  BY LenProperties
<1> HIDE DEF n
<1>2. StaysIn(Nat, n, step)
  <2> SUFFICES ASSUME NEW i \in 1..n, NEW x \in Nat PROVE step[<<i, x>>] \in Nat
    BY DEF StaysIn
  <2>1. step[<<i, x>>] = x + widths[i]
    BY <1>1
  <2> QED BY <1>1, <2>1
<1>3. Recursive(Nat, n, 0, step)
  BY <1>1, <1>2, RecursionExists
<1>4. PICK g \in [0..n -> Nat] : FollowsStep(g, n, 0, step)
  BY <1>3 DEF Recursive
<1>5. \A i \in 1..n : g[i - 1] \in Nat /\ g[i] = g[i - 1] + widths[i]
  <2> SUFFICES ASSUME NEW i \in 1..n PROVE g[i - 1] \in Nat /\ g[i] = g[i - 1] + widths[i]
    OBVIOUS
  <2>1. i - 1 \in 0..n /\ i \in 0..n
    BY <1>1
  <2>2. g[i - 1] \in Nat
    BY <1>4, <2>1
  <2>3. g[i] = step[<<i, g[i - 1]>>]
    BY <1>4 DEF FollowsStep
  <2> QED BY <2>2, <2>3
<1>6. g[0] = 0
  BY <1>4 DEF FollowsStep
<1>7. Is(g)
  BY <1>4, <1>5, <1>6
<1>8. Ends(widths) = CHOOSE f : Is(f)
  BY DEF Ends, n
<1> HIDE DEF Is
<1>9. Is(Ends(widths))
  BY <1>7, <1>8
<1>10. PICK e : e = Ends(widths)
  OBVIOUS
<1>11. e = [k \in 0..n |-> IF k = 0 THEN 0 ELSE e[k - 1] + widths[k]]
  BY <1>9, <1>10 DEF Is
<1>12. \A k \in 0..n : e[k] = g[k]
  <2> DEFINE T == {k \in 0..n : e[k] = g[k]}
  <2>1. 0 \in T
    BY <1>1, <1>6, <1>11
  <2>2. \A i \in 1..n : i - 1 \in T => i \in T
    BY <1>1, <1>5, <1>11
  <2> HIDE DEF T
  <2>3. \A i \in 0..n : i \in T
    BY <1>1, <2>1, <2>2, Upwards
  <2> QED BY <2>3 DEF T
<1>13. e \in [0..n -> Nat]
  BY <1>4, <1>11, <1>12
<1>14. e[0] = 0 /\ \A i \in 1..n : e[i] = e[i - 1] + widths[i]
  BY <1>1, <1>11
<1> QED BY <1>10, <1>13, <1>14 DEF Places, n

-----------------------------------------------------------------------------
(* Reading what is written, and writing what is read                       *)

\* What a decoder gives that reads every number from its place.
HeadOf(b, widths) == [k \in 1..Len(widths) |-> At(b, Ends(widths)[k - 1], widths[k])]

\* The fixed part and n rows, read from their places.
Reading(layout, b, n) ==
  Decoded(HeadOf(b, layout.head), Rows(b, Size(layout.head), layout.row, n))
\* So many rows end with the last byte.
Whole(layout, b, n) ==
  n \in Nat /\ Len(b) = Size(layout.head) + n * Size(layout.row)

\* Numbers that a structure with this layout can hold.
Structure(layout, head, rows) ==
  /\ head \in Seq(Nat) /\ rows \in Seq(Seq(Nat))
  /\ Holds(layout.head, head)
  /\ \A r \in 1..Len(rows) : Holds(layout.row, rows[r])

\* The size of a part is where its last number ends.
LEMMA SizeType ==
  ASSUME NEW widths \in Seq(Nat)
  PROVE  /\ Size(widths) \in Nat /\ Size(widths) = Span(widths, Ends(widths))
         /\ Places(widths, Ends(widths))
BY EndsFacts, SpanNat DEF Size, Span

\* Whatever bytes there are, the numbers read from all of them are written
\* as these bytes.
LEMMA ReadingWritten ==
  ASSUME NEW layout, IsLayout(layout), NEW b \in Seq(Byte), NEW n, Whole(layout, b, n)
  PROVE  Written(layout, Reading(layout, b, n).head, Reading(layout, b, n).rows) = b
<1> DEFINE head == HeadOf(b, layout.head)
           rows == Rows(b, Size(layout.head), layout.row, n)
           ho == Ends(layout.head)
           ro == Ends(layout.row)
<1>1. /\ Places(layout.head, ho) /\ Places(layout.row, ro)
      /\ Size(layout.head) = Span(layout.head, ho) /\ Size(layout.row) = Span(layout.row, ro)
  BY SizeType DEF IsLayout
<1>2. Len(rows) = n /\ n \in Nat
  BY DEF Rows, Whole
<1>3. Len(b) = Span(layout.head, ho) + Len(rows) * Span(layout.row, ro)
  BY <1>1, <1>2 DEF Whole
<1>4. HeadIs(b, layout.head, ho, head)
  BY DEF HeadIs, HeadOf
<1>5. RowsAre(b, Span(layout.head, ho), layout.row, ro, rows)
  BY <1>1, <1>2 DEF RowsAre, Rows
<1>6. Reading(layout, b, n).head = head /\ Reading(layout, b, n).rows = rows
  BY DEF Reading, Decoded
<1> HIDE DEF head, rows, ho, ro
<1>7. ReadBy(layout, ho, ro, b, head, rows)
  BY <1>1, <1>2, <1>3, <1>4, <1>5 DEF ReadBy
<1>8. Written(layout, head, rows) = b
  BY <1>7, WrittenRead
<1> QED BY <1>6, <1>8

\* Whatever a structure holds, it is read from the bytes it is written in.
LEMMA WrittenReading ==
  ASSUME NEW layout, IsLayout(layout), NEW head, NEW rows, Structure(layout, head, rows),
         NEW b, b = Written(layout, head, rows)
  PROVE  /\ b \in Seq(Byte)
         /\ Whole(layout, b, Len(rows))
         /\ Reading(layout, b, Len(rows)) = Decoded(head, rows)
<1> DEFINE ho == Ends(layout.head)
           ro == Ends(layout.row)
           n == Len(rows)
<1>1. /\ Places(layout.head, ho) /\ Places(layout.row, ro)
      /\ Size(layout.head) = Span(layout.head, ho) /\ Size(layout.row) = Span(layout.row, ro)
  BY SizeType DEF IsLayout
<1>2. AreNumbers(layout.head, head) /\ AllFit(layout.head, head)
  BY DEF Structure, Holds, AreNumbers, AllFit
<1>3. /\ RowNumbers(layout, rows)
      /\ \A r \in 1..Len(rows) : AllFit(layout.row, rows[r])
  BY DEF Structure, Holds, RowNumbers, AreNumbers, AllFit
<1>4. n \in Nat
  BY LenProperties DEF Structure
<1> HIDE DEF ho, ro
<1>5. /\ b \in Seq(Byte)
      /\ Len(b) = Span(layout.head, ho) + n * Span(layout.row, ro)
      /\ HeadIs(b, layout.head, ho, head)
      /\ RowsAre(b, Span(layout.head, ho), layout.row, ro, rows)
  <2>1. WrittenBy(layout, ho, ro, b, head, rows)
    BY <1>1, <1>2, <1>3, <1>4 DEF WrittenBy
  <2> QED BY <1>2, <1>3, <2>1, WrittenParts DEF n
<1>6. HeadOf(b, layout.head) = head
  <2>1. head \in Seq(Nat) /\ Len(head) = Len(layout.head)
    BY DEF Structure, Holds
  <2>2. head = [k \in 1..Len(layout.head) |-> head[k]]
    BY <2>1
  <2>3. \A k \in 1..Len(layout.head) : head[k] = At(b, ho[k - 1], layout.head[k])
    BY <1>5 DEF HeadIs
  <2> QED BY <2>2, <2>3 DEF HeadOf, ho
<1>7. Rows(b, Size(layout.head), layout.row, n) = rows
  <2>1. rows \in Seq(Seq(Nat)) /\ rows = [r \in 1..n |-> rows[r]]
    BY DEF Structure
  <2>2. ASSUME NEW r \in 1..n
        PROVE  rows[r] = [k \in 1..Len(layout.row) |->
                 At(b, Size(layout.head) + (r - 1) * Size(layout.row) + ro[k - 1], layout.row[k])]
    <3>1. rows[r] \in Seq(Nat) /\ Len(rows[r]) = Len(layout.row)
      BY <2>1 DEF Structure, Holds
    <3>2. rows[r] = [k \in 1..Len(layout.row) |-> rows[r][k]]
      BY <3>1
    <3>3. \A k \in 1..Len(layout.row) : rows[r][k] =
            At(b, Size(layout.head) + (r - 1) * Size(layout.row) + ro[k - 1], layout.row[k])
      BY <1>1, <1>5 DEF RowsAre
    <3> QED BY <3>2, <3>3
  <2> QED BY <2>1, <2>2 DEF Rows, ro
<1>8. Len(b) = Size(layout.head) + n * Size(layout.row)
  BY <1>1, <1>5
<1> QED BY <1>4, <1>5, <1>6, <1>7, <1>8 DEF Whole, Reading

-----------------------------------------------------------------------------
(* What a decoder promises                                                 *)

\* Values of a kind that the bytes of b are, row after row to the last one.
Fit(kind, b, n) == Whole(LayoutOf(kind), b, n) /\ (kind \notin Listed => n = 0)

\* What the decoder gives, as a value of its kind.
Value(kind, d) == [kind |-> kind, head |-> d.head, rows |-> d.rows]

\* The decoder gives nothing but a value the protocol allows, read from every
\* byte there is.
Sound(kind, b) ==
  /\ DecodeOf(kind, b).ok \in BOOLEAN
  /\ DecodeOf(kind, b).ok =>
       \E n : /\ Fit(kind, b, n)
              /\ DecodeOf(kind, b) = Reading(LayoutOf(kind), b, n)
              /\ Valid(Value(kind, DecodeOf(kind, b)))

\* The decoder gives every value the protocol allows.
Complete(kind, b) ==
  \A n : Fit(kind, b, n) /\ Valid(Value(kind, Reading(LayoutOf(kind), b, n)))
           => DecodeOf(kind, b) = Reading(LayoutOf(kind), b, n)

\* The widths are numbers.
LEMMA Widths ==
  W16 \in Nat /\ W32 \in Nat /\ W64 \in Nat /\ IdSize \in Nat /\ WorkSize \in Nat
BY WireAssumption DEF WireAssumption

\* A layout without rows reads its fixed part from all the bytes.
LEMMA FixedFacts ==
  ASSUME NEW widths \in Seq(Nat), NEW b
  PROVE  /\ IsLayout(Fixed(widths))
         /\ Reading(Fixed(widths), b, 0) = Decoded(HeadOf(b, widths), <<>>)
         /\ Whole(Fixed(widths), b, 0) <=> Len(b) = Size(widths)
<1>1. Fixed(widths).head = widths /\ Fixed(widths).row = <<1>> /\ <<1>> \in Seq(Nat)
  BY DEF Fixed, Layout
<1>2. Size(<<1>>) \in Nat /\ Size(widths) \in Nat
  BY <1>1, SizeType
<1>3. 0 * Size(<<1>>) = 0
  BY <1>2
<1>4. Rows(b, Size(widths), <<1>>, 0) = <<>>
  BY DEF Rows
<1> QED BY <1>1, <1>2, <1>3, <1>4 DEF IsLayout, Whole, Reading

\* Ends, number by number.
LEMMA EndsAre ==
  ASSUME NEW widths \in Seq(Nat)
  PROVE  /\ Ends(widths)[0] = 0
         /\ \A k \in 1..Len(widths) : Ends(widths)[k] = Ends(widths)[k - 1] + widths[k]
BY EndsFacts DEF Places

\* The sums of the first widths.
Sums(widths, e) ==
  LET n == Len(widths)
  IN  /\ e[0] = 0
      /\ 1 <= n => e[1] = widths[1]
      /\ 2 <= n => e[2] = widths[1] + widths[2]
      /\ 3 <= n => e[3] = widths[1] + widths[2] + widths[3]
      /\ 4 <= n => e[4] = widths[1] + widths[2] + widths[3] + widths[4]
      /\ 5 <= n => e[5] = widths[1] + widths[2] + widths[3] + widths[4] + widths[5]
      /\ 6 <= n => e[6] = widths[1] + widths[2] + widths[3] + widths[4] + widths[5] + widths[6]
      /\ 7 <= n => e[7] = widths[1] + widths[2] + widths[3] + widths[4] + widths[5]
                            + widths[6] + widths[7]
      /\ 8 <= n => e[8] = widths[1] + widths[2] + widths[3] + widths[4] + widths[5]
                            + widths[6] + widths[7] + widths[8]

\* The first eight of them.
LEMMA FirstEnds ==
  ASSUME NEW widths \in Seq(Nat)
  PROVE  Sums(widths, Ends(widths))
<1> DEFINE e == Ends(widths)
           n == Len(widths)
<1>1. n \in Nat /\ e[0] = 0 /\ \A k \in 1..n : widths[k] \in Nat /\ e[k] = e[k - 1] + widths[k]
  BY EndsAre, LenProperties
<1> HIDE DEF e, n
<1>2. \A k \in 1..n : \A j \in 0..n : k = j + 1 => widths[k] \in Nat /\ e[k] = e[j] + widths[k]
  BY <1>1
<1>3. 1 <= n => widths[1] \in Nat /\ e[1] = e[0] + widths[1]
  <2> SUFFICES ASSUME 1 <= n PROVE widths[1] \in Nat /\ e[1] = e[0] + widths[1]
    OBVIOUS
  <2>1. 1 \in 1..n /\ 0 \in 0..n /\ 1 = 0 + 1
    BY <1>1
  <2> QED BY <1>2, <2>1
<1>4. 2 <= n => widths[2] \in Nat /\ e[2] = e[1] + widths[2]
  <2> SUFFICES ASSUME 2 <= n PROVE widths[2] \in Nat /\ e[2] = e[1] + widths[2]
    OBVIOUS
  <2>1. 2 \in 1..n /\ 1 \in 0..n /\ 2 = 1 + 1
    BY <1>1
  <2> QED BY <1>2, <2>1
<1>5. 3 <= n => widths[3] \in Nat /\ e[3] = e[2] + widths[3]
  <2> SUFFICES ASSUME 3 <= n PROVE widths[3] \in Nat /\ e[3] = e[2] + widths[3]
    OBVIOUS
  <2>1. 3 \in 1..n /\ 2 \in 0..n /\ 3 = 2 + 1
    BY <1>1
  <2> QED BY <1>2, <2>1
<1>6. 4 <= n => widths[4] \in Nat /\ e[4] = e[3] + widths[4]
  <2> SUFFICES ASSUME 4 <= n PROVE widths[4] \in Nat /\ e[4] = e[3] + widths[4]
    OBVIOUS
  <2>1. 4 \in 1..n /\ 3 \in 0..n /\ 4 = 3 + 1
    BY <1>1
  <2> QED BY <1>2, <2>1
<1>7. 5 <= n => widths[5] \in Nat /\ e[5] = e[4] + widths[5]
  <2> SUFFICES ASSUME 5 <= n PROVE widths[5] \in Nat /\ e[5] = e[4] + widths[5]
    OBVIOUS
  <2>1. 5 \in 1..n /\ 4 \in 0..n /\ 5 = 4 + 1
    BY <1>1
  <2> QED BY <1>2, <2>1
<1>8. 6 <= n => widths[6] \in Nat /\ e[6] = e[5] + widths[6]
  <2> SUFFICES ASSUME 6 <= n PROVE widths[6] \in Nat /\ e[6] = e[5] + widths[6]
    OBVIOUS
  <2>1. 6 \in 1..n /\ 5 \in 0..n /\ 6 = 5 + 1
    BY <1>1
  <2> QED BY <1>2, <2>1
<1>9. 7 <= n => widths[7] \in Nat /\ e[7] = e[6] + widths[7]
  <2> SUFFICES ASSUME 7 <= n PROVE widths[7] \in Nat /\ e[7] = e[6] + widths[7]
    OBVIOUS
  <2>1. 7 \in 1..n /\ 6 \in 0..n /\ 7 = 6 + 1
    BY <1>1
  <2> QED BY <1>2, <2>1
<1>10. 8 <= n => widths[8] \in Nat /\ e[8] = e[7] + widths[8]
  <2> SUFFICES ASSUME 8 <= n PROVE widths[8] \in Nat /\ e[8] = e[7] + widths[8]
    OBVIOUS
  <2>1. 8 \in 1..n /\ 7 \in 0..n /\ 8 = 7 + 1
    BY <1>1
  <2> QED BY <1>2, <2>1
<1> QED BY <1>1, <1>3, <1>4, <1>5, <1>6, <1>7, <1>8, <1>9, <1>10 DEF e, n, Sums

\* A decoder that compares the length and looks at some numbers.
FixedDecoder(kind, widths, b, good) ==
  /\ widths \in Seq(Nat)
  /\ LayoutOf(kind) = Fixed(widths) /\ kind \notin Listed
  /\ DecodeOf(kind, b) =
       IF Len(b) = Size(widths) /\ good THEN Decoded(HeadOf(b, widths), <<>>) ELSE Rejected
  /\ Len(b) = Size(widths) =>
       (good <=> Valid(Value(kind, Decoded(HeadOf(b, widths), <<>>))))

\* Such a decoder is sound and complete.
LEMMA FixedForm ==
  ASSUME NEW kind, NEW widths, NEW b, NEW good, FixedDecoder(kind, widths, b, good)
  PROVE  Sound(kind, b) /\ Complete(kind, b)
<1> DEFINE d == DecodeOf(kind, b)
           r == Decoded(HeadOf(b, widths), <<>>)
<1>1. /\ LayoutOf(kind) = Fixed(widths) /\ kind \notin Listed
      /\ d = IF Len(b) = Size(widths) /\ good THEN r ELSE Rejected
      /\ Len(b) = Size(widths) => (good <=> Valid(Value(kind, r)))
      /\ widths \in Seq(Nat)
  BY DEF FixedDecoder
<1>2. Reading(LayoutOf(kind), b, 0) = r /\ (Fit(kind, b, 0) <=> Len(b) = Size(widths))
  BY <1>1, FixedFacts DEF Fit
<1>3. r.ok = TRUE /\ Rejected.ok = FALSE
  BY DEF Decoded, Rejected
<1> HIDE DEF r, d
<1>4. Sound(kind, b)
  <2>1. CASE Len(b) = Size(widths) /\ good
    BY <1>1, <1>2, <1>3, <2>1 DEF Sound, d
  <2>2. CASE ~(Len(b) = Size(widths) /\ good)
    BY <1>1, <1>3, <2>2 DEF Sound, d
  <2> QED BY <2>1, <2>2
<1>5. Complete(kind, b)
  <2> SUFFICES ASSUME NEW n, Fit(kind, b, n), Valid(Value(kind, Reading(LayoutOf(kind), b, n)))
               PROVE  d = Reading(LayoutOf(kind), b, n)
    BY DEF Complete, d
  <2>1. n = 0
    BY <1>1 DEF Fit
  <2> QED BY <1>1, <1>2, <2>1
<1> QED BY <1>4, <1>5

\* What is read of a fixed part that is there is numbers.
LEMMA HeadNat ==
  ASSUME NEW widths \in Seq(Nat), NEW b \in Seq(Byte), Size(widths) <= Len(b)
  PROVE  \A k \in 1..Len(widths) : HeadOf(b, widths)[k] \in Nat
<1> SUFFICES ASSUME NEW k \in 1..Len(widths) PROVE At(b, Ends(widths)[k - 1], widths[k]) \in Nat
  BY DEF HeadOf
<1> DEFINE e == Ends(widths)
<1>1. /\ Places(widths, e) /\ Size(widths) = Span(widths, e) /\ Size(widths) \in Nat
  BY SizeType
<1>2. /\ e[k - 1] \in Nat /\ widths[k] \in Nat /\ e[k - 1] + widths[k] <= Span(widths, e)
  BY <1>1, PlacesFacts
<1>3. Len(b) \in Nat /\ e[k - 1] + widths[k] <= Len(b)
  BY <1>1, <1>2, LenProperties
<1> HIDE DEF e
<1> QED BY <1>2, <1>3, AtFacts DEF e

-----------------------------------------------------------------------------
(* The decoders of STNC, one by one                                        *)

\* Nothing is left of zero.
LEMMA ShiftedZero ==
  ASSUME NEW w \in Nat
  PROVE  Fits(0, w) /\ Bytes(0, w) = [i \in 1..w |-> 0]
<1> DEFINE s == Shifted(0, w)
           T == {i \in 0..w : s[i] = 0}
<1>1. Base \in Nat \ {0}
  BY BaseFacts
<1>2. s[0] = 0 /\ \A i \in 1..w : s[i] = s[i - 1] \div Base
  BY ShiftedFacts
<1>3. 0 \div Base = 0 /\ 0 % Base = 0
  <2>1. 0 \in 0..Base - 1
    BY <1>1
  <2>2. (0 * Base + 0) \div Base = 0 /\ (0 * Base + 0) % Base = 0
    BY <1>1, <2>1, DivUnique
  <2>3. 0 * Base + 0 = 0
    BY <1>1
  <2> QED BY <2>2, <2>3
<1> HIDE DEF s
<1>4. 0 \in T
  BY <1>2
<1>5. \A i \in 1..w : i - 1 \in T => i \in T
  BY <1>2, <1>3
<1> HIDE DEF T
<1>6. \A i \in 0..w : i \in T
  BY <1>4, <1>5, Upwards
<1>7. \A i \in 0..w : s[i] = 0
  BY <1>6 DEF T
<1>8. Fits(0, w)
  <2>1. w \in 0..w
    OBVIOUS
  <2> QED BY <1>7, <2>1 DEF Fits, s
<1>9. ASSUME NEW i \in 1..w PROVE s[w - i] % Base = 0
  <2>1. w - i \in 0..w
    OBVIOUS
  <2> QED BY <1>3, <1>7, <2>1
<1> QED BY <1>8, <1>9 DEF Bytes, s

\* A number read is zero if and only if all its bytes are.
LEMMA ZeroAt ==
  ASSUME NEW b \in Seq(Byte), NEW skip \in Nat, NEW width \in Nat, Len(b) = skip + width
  PROVE  (\E i \in skip + 1..Len(b) : b[i] # 0) <=> At(b, skip, width) # 0
<1> DEFINE c == SubSeq(b, skip + 1, skip + width)
<1>1. c \in Seq(Byte) /\ Len(c) = width /\ \A j \in 1..width : c[j] = b[skip + j]
  BY SliceFacts
<1>2. At(b, skip, width) = Number(c)
  BY DEF At
<1>3. Bytes(Number(c), width) = c
  BY <1>1, BytesOfNumber
<1>4. Fits(0, width) /\ Bytes(0, width) = [i \in 1..width |-> 0] /\ Number(Bytes(0, width)) = 0
  BY ShiftedZero, NumberOfBytes
<1> HIDE DEF c
<1>5. Number(c) = 0 <=> c = [i \in 1..width |-> 0]
  BY <1>3, <1>4
<1>6. c = [i \in 1..width |-> c[i]]
  BY <1>1
<1>7. c = [i \in 1..width |-> 0] <=> \A j \in 1..width : c[j] = 0
  BY <1>6
<1>8. (\A j \in 1..width : c[j] = 0) <=> \A i \in skip + 1..Len(b) : b[i] = 0
  <2>1. ASSUME NEW i \in skip + 1..Len(b) PROVE i - skip \in 1..width /\ skip + (i - skip) = i
    OBVIOUS
  <2>2. ASSUME NEW j \in 1..width PROVE skip + j \in skip + 1..Len(b)
    OBVIOUS
  <2>3. (\A j \in 1..width : c[j] = 0) => \A i \in skip + 1..Len(b) : b[i] = 0
    BY <1>1, <2>1
  <2>4. (\A i \in skip + 1..Len(b) : b[i] = 0) => \A j \in 1..width : c[j] = 0
    BY <1>1, <2>2
  <2> QED BY <2>3, <2>4
<1> QED BY <1>2, <1>5, <1>7, <1>8

\* Decoding of kind header.
LEMMA HeaderForm == ASSUME NEW b \in Seq(Byte) PROVE Sound("header", b) /\ Complete("header", b)
<1> DEFINE w == <<4, W16, W16, W16, W16, W64, W32>>
           e == Ends(w)
           good == /\ At(b, 0, 4) = StncMagic /\ At(b, 4, W16) = Version
                   /\ At(b, 4 + W16, W16) = Response
<1>1. w \in Seq(Nat) /\ Len(w) = 7
  BY Widths, WireAssumption
<1>2. /\ e[0] = 0
      /\ e[1] = 4
      /\ e[2] = 4 + W16
      /\ e[3] = 4 + 2 * W16
      /\ e[4] = 4 + 3 * W16
      /\ e[5] = 4 + 4 * W16
      /\ e[6] = 4 + 4 * W16 + W64
      /\ e[7] = HeaderSize
  <2>1. w[1] = 4 /\ w[2] = W16 /\ w[3] = W16 /\ w[4] = W16 /\ w[5] = W16 /\ w[6] = W64 /\ w[7] = W32
    OBVIOUS
  <2> HIDE DEF w
  <2>2. Sums(w, e)
    BY <1>1, FirstEnds
  <2> HIDE DEF e
  <2>3. /\ e[0] = 0
        /\ e[1] = w[1]
        /\ e[2] = w[1] + w[2]
        /\ e[3] = w[1] + w[2] + w[3]
        /\ e[4] = w[1] + w[2] + w[3] + w[4]
        /\ e[5] = w[1] + w[2] + w[3] + w[4] + w[5]
        /\ e[6] = w[1] + w[2] + w[3] + w[4] + w[5] + w[6]
        /\ e[7] = w[1] + w[2] + w[3] + w[4] + w[5] + w[6] + w[7]
    BY <1>1, <2>2 DEF Sums
  <2> QED BY <2>1, <2>3, Widths DEF HeaderSize
<1> HIDE DEF e, good
<1>3. HeadOf(b, w) = <<At(b, e[0], 4), At(b, e[1], W16), At(b, e[2], W16), At(b, e[3], W16), At(b, e[4], W16), At(b, e[5], W64), At(b, e[6], W32)>>
  BY <1>1 DEF HeadOf, e
<1>4. HeadOf(b, w) = <<At(b, 0, 4), At(b, 4, W16), At(b, 4 + W16, W16), At(b, 4 + 2 * W16, W16), At(b, 4 + 3 * W16, W16), At(b, 4 + 4 * W16, W64), At(b, 4 + 4 * W16 + W64, W32)>>
  BY <1>2, <1>3, Zenon
<1>5. DecodeOf("header", b) =
        IF Len(b) = Size(w) /\ good THEN Decoded(HeadOf(b, w), <<>>) ELSE Rejected
  <2>1. Size(w) = HeaderSize
    BY <1>1, <1>2 DEF Size, e
  <2>2. DecodeOf("header", b) = DecodeHeader(b)
    BY DEF DecodeOf, DecodeStnc, StnpKinds
  <2> QED BY <1>4, <2>1, <2>2 DEF DecodeHeader, good
<1>6. LayoutOf("header") = Fixed(w) /\ "header" \notin Listed
  BY DEF LayoutOf, StnpKinds, StncLayout, Listed, HeaderLayout
<1>7. Len(b) = Size(w) => (good <=> Valid(Value("header", Decoded(HeadOf(b, w), <<>>))))
  <2> SUFFICES ASSUME Len(b) = Size(w) PROVE good <=> Valid(Value("header", Decoded(HeadOf(b, w), <<>>)))
    OBVIOUS
  <2>1. Size(w) <= Len(b)
    BY <1>1, SizeType
  <2> HIDE DEF w
  <2>2. \A k \in 1..7 : HeadOf(b, w)[k] \in Nat
    BY <1>1, <2>1, HeadNat
  <2> QED BY <1>4, <2>2 DEF good, Valid, Value, StncValid, StnpKinds, Decoded
<1> HIDE DEF w
<1>8. FixedDecoder("header", w, b, good)
  BY <1>1, <1>5, <1>6, <1>7 DEF FixedDecoder
<1> QED BY <1>8, FixedForm

\* Decoding of kind info.
LEMMA InfoForm == ASSUME NEW b \in Seq(Byte) PROVE Sound("info", b) /\ Complete("info", b)
<1> DEFINE w == <<IdSize, IdSize, W64, IdSize, WorkSize, IdSize, W32, W32>>
           e == Ends(w)
           good == TRUE
<1>1. w \in Seq(Nat) /\ Len(w) = 8
  BY Widths, WireAssumption
<1>2. /\ e[0] = 0
      /\ e[1] = IdSize
      /\ e[2] = 2 * IdSize
      /\ e[3] = 2 * IdSize + W64
      /\ e[4] = 3 * IdSize + W64
      /\ e[5] = 3 * IdSize + W64 + WorkSize
      /\ e[6] = 3 * IdSize + W64 + WorkSize + IdSize
      /\ e[7] = 3 * IdSize + W64 + WorkSize + IdSize + W32
      /\ e[8] = InfoSize
  <2>1. w[1] = IdSize /\ w[2] = IdSize /\ w[3] = W64 /\ w[4] = IdSize /\ w[5] = WorkSize /\ w[6] = IdSize /\ w[7] = W32 /\ w[8] = W32
    OBVIOUS
  <2> HIDE DEF w
  <2>2. Sums(w, e)
    BY <1>1, FirstEnds
  <2> HIDE DEF e
  <2>3. /\ e[0] = 0
        /\ e[1] = w[1]
        /\ e[2] = w[1] + w[2]
        /\ e[3] = w[1] + w[2] + w[3]
        /\ e[4] = w[1] + w[2] + w[3] + w[4]
        /\ e[5] = w[1] + w[2] + w[3] + w[4] + w[5]
        /\ e[6] = w[1] + w[2] + w[3] + w[4] + w[5] + w[6]
        /\ e[7] = w[1] + w[2] + w[3] + w[4] + w[5] + w[6] + w[7]
        /\ e[8] = w[1] + w[2] + w[3] + w[4] + w[5] + w[6] + w[7] + w[8]
    BY <1>1, <2>2 DEF Sums
  <2> QED BY <2>1, <2>3, Widths DEF InfoSize
<1> HIDE DEF e, good
<1>3. HeadOf(b, w) = <<At(b, e[0], IdSize), At(b, e[1], IdSize), At(b, e[2], W64), At(b, e[3], IdSize), At(b, e[4], WorkSize), At(b, e[5], IdSize), At(b, e[6], W32), At(b, e[7], W32)>>
  BY <1>1 DEF HeadOf, e
<1>4. HeadOf(b, w) = <<At(b, 0, IdSize), At(b, IdSize, IdSize), At(b, 2 * IdSize, W64), At(b, 2 * IdSize + W64, IdSize), At(b, 3 * IdSize + W64, WorkSize), At(b, 3 * IdSize + W64 + WorkSize, IdSize), At(b, 3 * IdSize + W64 + WorkSize + IdSize, W32), At(b, 3 * IdSize + W64 + WorkSize + IdSize + W32, W32)>>
  BY <1>2, <1>3, Zenon
<1>5. DecodeOf("info", b) =
        IF Len(b) = Size(w) /\ good THEN Decoded(HeadOf(b, w), <<>>) ELSE Rejected
  <2>1. Size(w) = InfoSize
    BY <1>1, <1>2 DEF Size, e
  <2>2. DecodeOf("info", b) = DecodeInfo(b)
    BY DEF DecodeOf, DecodeStnc, StnpKinds
  <2> QED BY <1>4, <2>1, <2>2 DEF DecodeInfo, good
<1>6. LayoutOf("info") = Fixed(w) /\ "info" \notin Listed
  BY DEF LayoutOf, StnpKinds, StncLayout, Listed
<1>7. Len(b) = Size(w) => (good <=> Valid(Value("info", Decoded(HeadOf(b, w), <<>>))))
  <2> SUFFICES ASSUME Len(b) = Size(w) PROVE good <=> Valid(Value("info", Decoded(HeadOf(b, w), <<>>)))
    OBVIOUS
  <2>1. Size(w) <= Len(b)
    BY <1>1, SizeType
  <2> HIDE DEF w
  <2>2. \A k \in 1..8 : HeadOf(b, w)[k] \in Nat
    BY <1>1, <2>1, HeadNat
  <2> QED BY <1>4, <2>2 DEF good, Valid, Value, StncValid, StnpKinds, Decoded
<1> HIDE DEF w
<1>8. FixedDecoder("info", w, b, good)
  BY <1>1, <1>5, <1>6, <1>7 DEF FixedDecoder
<1> QED BY <1>8, FixedForm

\* Decoding of kind context.
LEMMA ContextForm == ASSUME NEW b \in Seq(Byte) PROVE Sound("context", b) /\ Complete("context", b)
<1> DEFINE w == <<IdSize, IdSize, W64, W32>>
           e == Ends(w)
           good == ~(At(b, 2 * IdSize + W64, W32) > 1)
<1>1. w \in Seq(Nat) /\ Len(w) = 4
  BY Widths, WireAssumption
<1>2. /\ e[0] = 0
      /\ e[1] = IdSize
      /\ e[2] = 2 * IdSize
      /\ e[3] = 2 * IdSize + W64
      /\ e[4] = ContextSize
  <2>1. w[1] = IdSize /\ w[2] = IdSize /\ w[3] = W64 /\ w[4] = W32
    OBVIOUS
  <2> HIDE DEF w
  <2>2. Sums(w, e)
    BY <1>1, FirstEnds
  <2> HIDE DEF e
  <2>3. /\ e[0] = 0
        /\ e[1] = w[1]
        /\ e[2] = w[1] + w[2]
        /\ e[3] = w[1] + w[2] + w[3]
        /\ e[4] = w[1] + w[2] + w[3] + w[4]
    BY <1>1, <2>2 DEF Sums
  <2> QED BY <2>1, <2>3, Widths DEF ContextSize
<1> HIDE DEF e, good
<1>3. HeadOf(b, w) = <<At(b, e[0], IdSize), At(b, e[1], IdSize), At(b, e[2], W64), At(b, e[3], W32)>>
  BY <1>1 DEF HeadOf, e
<1>4. HeadOf(b, w) = <<At(b, 0, IdSize), At(b, IdSize, IdSize), At(b, 2 * IdSize, W64), At(b, 2 * IdSize + W64, W32)>>
  BY <1>2, <1>3, Zenon
<1>5. DecodeOf("context", b) =
        IF Len(b) = Size(w) /\ good THEN Decoded(HeadOf(b, w), <<>>) ELSE Rejected
  <2>1. Size(w) = ContextSize
    BY <1>1, <1>2 DEF Size, e
  <2>2. DecodeOf("context", b) = DecodeContext(b)
    BY DEF DecodeOf, DecodeStnc, StnpKinds
  <2> QED BY <1>4, <2>1, <2>2 DEF DecodeContext, good
<1>6. LayoutOf("context") = Fixed(w) /\ "context" \notin Listed
  BY DEF LayoutOf, StnpKinds, StncLayout, Listed
<1>7. Len(b) = Size(w) => (good <=> Valid(Value("context", Decoded(HeadOf(b, w), <<>>))))
  <2> SUFFICES ASSUME Len(b) = Size(w) PROVE good <=> Valid(Value("context", Decoded(HeadOf(b, w), <<>>)))
    OBVIOUS
  <2>1. Size(w) <= Len(b)
    BY <1>1, SizeType
  <2> HIDE DEF w
  <2>2. \A k \in 1..4 : HeadOf(b, w)[k] \in Nat
    BY <1>1, <2>1, HeadNat
  <2> QED BY <1>4, <2>2 DEF good, Valid, Value, StncValid, StnpKinds, Decoded
<1> HIDE DEF w
<1>8. FixedDecoder("context", w, b, good)
  BY <1>1, <1>5, <1>6, <1>7 DEF FixedDecoder
<1> QED BY <1>8, FixedForm

\* Decoding of kind accepted.
LEMMA AcceptedForm == ASSUME NEW b \in Seq(Byte) PROVE Sound("accepted", b) /\ Complete("accepted", b)
<1> DEFINE w == <<IdSize, W64, WorkSize>>
           e == Ends(w)
           good == TRUE
<1>1. w \in Seq(Nat) /\ Len(w) = 3
  BY Widths, WireAssumption
<1>2. /\ e[0] = 0
      /\ e[1] = IdSize
      /\ e[2] = IdSize + W64
      /\ e[3] = AcceptedSize
  <2>1. w[1] = IdSize /\ w[2] = W64 /\ w[3] = WorkSize
    OBVIOUS
  <2> HIDE DEF w
  <2>2. Sums(w, e)
    BY <1>1, FirstEnds
  <2> HIDE DEF e
  <2>3. /\ e[0] = 0
        /\ e[1] = w[1]
        /\ e[2] = w[1] + w[2]
        /\ e[3] = w[1] + w[2] + w[3]
    BY <1>1, <2>2 DEF Sums
  <2> QED BY <2>1, <2>3, Widths DEF AcceptedSize
<1> HIDE DEF e, good
<1>3. HeadOf(b, w) = <<At(b, e[0], IdSize), At(b, e[1], W64), At(b, e[2], WorkSize)>>
  BY <1>1 DEF HeadOf, e
<1>4. HeadOf(b, w) = <<At(b, 0, IdSize), At(b, IdSize, W64), At(b, IdSize + W64, WorkSize)>>
  BY <1>2, <1>3, Zenon
<1>5. DecodeOf("accepted", b) =
        IF Len(b) = Size(w) /\ good THEN Decoded(HeadOf(b, w), <<>>) ELSE Rejected
  <2>1. Size(w) = AcceptedSize
    BY <1>1, <1>2 DEF Size, e
  <2>2. DecodeOf("accepted", b) = DecodeAccepted(b)
    BY DEF DecodeOf, DecodeStnc, StnpKinds
  <2> QED BY <1>4, <2>1, <2>2 DEF DecodeAccepted, good
<1>6. LayoutOf("accepted") = Fixed(w) /\ "accepted" \notin Listed
  BY DEF LayoutOf, StnpKinds, StncLayout, Listed
<1>7. Len(b) = Size(w) => (good <=> Valid(Value("accepted", Decoded(HeadOf(b, w), <<>>))))
  <2> SUFFICES ASSUME Len(b) = Size(w) PROVE good <=> Valid(Value("accepted", Decoded(HeadOf(b, w), <<>>)))
    OBVIOUS
  <2>1. Size(w) <= Len(b)
    BY <1>1, SizeType
  <2> HIDE DEF w
  <2>2. \A k \in 1..3 : HeadOf(b, w)[k] \in Nat
    BY <1>1, <2>1, HeadNat
  <2> QED BY <1>4, <2>2 DEF good, Valid, Value, StncValid, StnpKinds, Decoded
<1> HIDE DEF w
<1>8. FixedDecoder("accepted", w, b, good)
  BY <1>1, <1>5, <1>6, <1>7 DEF FixedDecoder
<1> QED BY <1>8, FixedForm

\* Decoding the state of a contract.
LEMMA ContractForm == ASSUME NEW b \in Seq(Byte) PROVE Sound("contract", b) /\ Complete("contract", b)
<1> DEFINE w == <<W16, W16, W64, W64, W16, W32>>
           e == Ends(w)
           good == /\ At(b, 0, W16) \in 1..9 /\ At(b, W16, W16) \in 1..6
                   /\ ~(At(b, 2 * W16 + 2 * W64, W16) > ParticipantsMax)
                   /\ ~(At(b, 3 * W16 + 2 * W64, W32) > TermsMax)
<1>1. w \in Seq(Nat) /\ Len(w) = 6
  BY Widths, WireAssumption
<1>2. /\ e[0] = 0
      /\ e[1] = W16
      /\ e[2] = 2 * W16
      /\ e[3] = 2 * W16 + W64
      /\ e[4] = 2 * W16 + 2 * W64
      /\ e[5] = 3 * W16 + 2 * W64
      /\ e[6] = ContractStateSize
  <2>1. w[1] = W16 /\ w[2] = W16 /\ w[3] = W64 /\ w[4] = W64 /\ w[5] = W16 /\ w[6] = W32
    OBVIOUS
  <2> HIDE DEF w
  <2>2. Sums(w, e)
    BY <1>1, FirstEnds
  <2> HIDE DEF e
  <2>3. /\ e[0] = 0
        /\ e[1] = w[1]
        /\ e[2] = w[1] + w[2]
        /\ e[3] = w[1] + w[2] + w[3]
        /\ e[4] = w[1] + w[2] + w[3] + w[4]
        /\ e[5] = w[1] + w[2] + w[3] + w[4] + w[5]
        /\ e[6] = w[1] + w[2] + w[3] + w[4] + w[5] + w[6]
    BY <1>1, <2>2 DEF Sums
  <2> QED BY <2>1, <2>3, Widths DEF ContractStateSize
<1> HIDE DEF e, good
<1>3. HeadOf(b, w) = <<At(b, e[0], W16), At(b, e[1], W16), At(b, e[2], W64), At(b, e[3], W64), At(b, e[4], W16), At(b, e[5], W32)>>
  BY <1>1 DEF HeadOf, e
<1>4. HeadOf(b, w) = <<At(b, 0, W16), At(b, W16, W16), At(b, 2 * W16, W64), At(b, 2 * W16 + W64, W64), At(b, 2 * W16 + 2 * W64, W16), At(b, 3 * W16 + 2 * W64, W32)>>
  BY <1>2, <1>3, Zenon
<1>5. DecodeOf("contract", b) =
        IF Len(b) = Size(w) /\ good THEN Decoded(HeadOf(b, w), <<>>) ELSE Rejected
  <2>1. Size(w) = ContractStateSize
    BY <1>1, <1>2 DEF Size, e
  <2>2. DecodeOf("contract", b) = DecodeContractState(b)
    BY DEF DecodeOf, DecodeStnc, StnpKinds
  <2> QED BY <1>4, <2>1, <2>2 DEF DecodeContractState, good
<1>6. LayoutOf("contract") = Fixed(w) /\ "contract" \notin Listed
  BY DEF LayoutOf, StnpKinds, StncLayout, Listed
<1>7. Len(b) = Size(w) => (good <=> Valid(Value("contract", Decoded(HeadOf(b, w), <<>>))))
  <2> SUFFICES ASSUME Len(b) = Size(w) PROVE good <=> Valid(Value("contract", Decoded(HeadOf(b, w), <<>>)))
    OBVIOUS
  <2>1. Size(w) <= Len(b)
    BY <1>1, SizeType
  <2> HIDE DEF w
  <2>2. \A k \in 1..6 : HeadOf(b, w)[k] \in Nat
    BY <1>1, <2>1, HeadNat
  <2> QED BY <1>4, <2>2, StncAssumption DEF good, Valid, Value, StncValid, StnpKinds, Decoded, StncAssumption
<1> HIDE DEF w
<1>8. FixedDecoder("contract", w, b, good)
  BY <1>1, <1>5, <1>6, <1>7 DEF FixedDecoder
<1> QED BY <1>8, FixedForm

\* Decoding of kind balance.
LEMMA BalanceForm == ASSUME NEW b \in Seq(Byte) PROVE Sound("balance", b) /\ Complete("balance", b)
<1> DEFINE w == <<W64>>
           e == Ends(w)
           good == TRUE
<1>1. w \in Seq(Nat) /\ Len(w) = 1
  BY Widths, WireAssumption
<1>2. /\ e[0] = 0
      /\ e[1] = W64
  <2>1. w[1] = W64
    OBVIOUS
  <2> HIDE DEF w
  <2>2. Sums(w, e)
    BY <1>1, FirstEnds
  <2> HIDE DEF e
  <2>3. /\ e[0] = 0
        /\ e[1] = w[1]
    BY <1>1, <2>2 DEF Sums
  <2> QED BY <2>1, <2>3, Widths DEF Sums
<1> HIDE DEF e, good
<1>3. HeadOf(b, w) = <<At(b, e[0], W64)>>
  BY <1>1 DEF HeadOf, e
<1>4. HeadOf(b, w) = <<At(b, 0, W64)>>
  BY <1>2, <1>3, Zenon
<1>5. DecodeOf("balance", b) =
        IF Len(b) = Size(w) /\ good THEN Decoded(HeadOf(b, w), <<>>) ELSE Rejected
  <2>1. Size(w) = W64
    BY <1>1, <1>2 DEF Size, e
  <2>2. DecodeOf("balance", b) = DecodeBalance(b)
    BY DEF DecodeOf, DecodeStnc, StnpKinds
  <2> QED BY <1>4, <2>1, <2>2 DEF DecodeBalance, good
<1>6. LayoutOf("balance") = Fixed(w) /\ "balance" \notin Listed
  BY DEF LayoutOf, StnpKinds, StncLayout, Listed
<1>7. Len(b) = Size(w) => (good <=> Valid(Value("balance", Decoded(HeadOf(b, w), <<>>))))
  <2> SUFFICES ASSUME Len(b) = Size(w) PROVE good <=> Valid(Value("balance", Decoded(HeadOf(b, w), <<>>)))
    OBVIOUS
  <2>1. Size(w) <= Len(b)
    BY <1>1, SizeType
  <2> HIDE DEF w
  <2>2. \A k \in 1..1 : HeadOf(b, w)[k] \in Nat
    BY <1>1, <2>1, HeadNat
  <2> QED BY <1>4, <2>2 DEF good, Valid, Value, StncValid, StnpKinds, Decoded
<1> HIDE DEF w
<1>8. FixedDecoder("balance", w, b, good)
  BY <1>1, <1>5, <1>6, <1>7 DEF FixedDecoder
<1> QED BY <1>8, FixedForm

\* Decoding of kind pending.
LEMMA PendingForm == ASSUME NEW b \in Seq(Byte) PROVE Sound("pending", b) /\ Complete("pending", b)
<1> DEFINE w == <<W32, W32, W32, W32>>
           e == Ends(w)
           good == /\ At(b, W32, W32) # 0 /\ At(b, 3 * W32, W32) # 0
                   /\ ~(At(b, 0, W32) > At(b, W32, W32))
                   /\ ~(At(b, 2 * W32, W32) > At(b, 3 * W32, W32))
<1>1. w \in Seq(Nat) /\ Len(w) = 4
  BY Widths, WireAssumption
<1>2. /\ e[0] = 0
      /\ e[1] = W32
      /\ e[2] = 2 * W32
      /\ e[3] = 3 * W32
      /\ e[4] = PendingSize
  <2>1. w[1] = W32 /\ w[2] = W32 /\ w[3] = W32 /\ w[4] = W32
    OBVIOUS
  <2> HIDE DEF w
  <2>2. Sums(w, e)
    BY <1>1, FirstEnds
  <2> HIDE DEF e
  <2>3. /\ e[0] = 0
        /\ e[1] = w[1]
        /\ e[2] = w[1] + w[2]
        /\ e[3] = w[1] + w[2] + w[3]
        /\ e[4] = w[1] + w[2] + w[3] + w[4]
    BY <1>1, <2>2 DEF Sums
  <2> QED BY <2>1, <2>3, Widths DEF PendingSize
<1> HIDE DEF e, good
<1>3. HeadOf(b, w) = <<At(b, e[0], W32), At(b, e[1], W32), At(b, e[2], W32), At(b, e[3], W32)>>
  BY <1>1 DEF HeadOf, e
<1>4. HeadOf(b, w) = <<At(b, 0, W32), At(b, W32, W32), At(b, 2 * W32, W32), At(b, 3 * W32, W32)>>
  BY <1>2, <1>3, Zenon
<1>5. DecodeOf("pending", b) =
        IF Len(b) = Size(w) /\ good THEN Decoded(HeadOf(b, w), <<>>) ELSE Rejected
  <2>1. Size(w) = PendingSize
    BY <1>1, <1>2 DEF Size, e
  <2>2. DecodeOf("pending", b) = DecodePending(b)
    BY DEF DecodeOf, DecodeStnc, StnpKinds
  <2> DEFINE f == [i \in 1..4 |-> At(b, (i - 1) * W32, W32)]
  <2>3. \A i \in 1..4 : f[i] = <<At(b, 0, W32), At(b, W32, W32), At(b, 2 * W32, W32), At(b, 3 * W32, W32)>>[i]
    <3> DEFINE place(i) == (i - 1) * W32
    <3>1. place(1) = 0 /\ place(2) = W32 /\ place(3) = 2 * W32 /\ place(4) = 3 * W32
      BY Widths
    <3>2. \A i \in 1..4 : f[i] = At(b, place(i), W32)
      OBVIOUS
    <3> HIDE DEF place, f
    <3> QED BY <3>1, <3>2
  <2>4. f = HeadOf(b, w)
    <3> HIDE DEF w
    <3>1. Len(w) = 4 /\ HeadOf(b, w) = [k \in 1..4 |-> HeadOf(b, w)[k]]
      BY <1>1 DEF HeadOf
    <3> QED BY <1>4, <2>3, <3>1
  <2>5. DecodePending(b) = IF \/ Len(b) # PendingSize \/ f[2] = 0 \/ f[4] = 0
                              \/ f[1] > f[2] \/ f[3] > f[4]
                           THEN Rejected ELSE Decoded(f, <<>>)
    BY DEF DecodePending
  <2> HIDE DEF f, w
  <2> QED BY <1>4, <2>1, <2>2, <2>4, <2>5 DEF good
<1>6. LayoutOf("pending") = Fixed(w) /\ "pending" \notin Listed
  BY DEF LayoutOf, StnpKinds, StncLayout, Listed
<1>7. Len(b) = Size(w) => (good <=> Valid(Value("pending", Decoded(HeadOf(b, w), <<>>))))
  <2> SUFFICES ASSUME Len(b) = Size(w) PROVE good <=> Valid(Value("pending", Decoded(HeadOf(b, w), <<>>)))
    OBVIOUS
  <2>1. Size(w) <= Len(b)
    BY <1>1, SizeType
  <2> HIDE DEF w
  <2>2. \A k \in 1..4 : HeadOf(b, w)[k] \in Nat
    BY <1>1, <2>1, HeadNat
  <2>3. \A x, y : {x, y} \cap {0} = {} <=> x # 0 /\ y # 0
    OBVIOUS
  <2>4. At(b, 0, W32) \in Nat /\ At(b, W32, W32) \in Nat
        /\ At(b, 2 * W32, W32) \in Nat /\ At(b, 3 * W32, W32) \in Nat
    BY <1>4, <2>2
  <2>5. Valid(Value("pending", Decoded(HeadOf(b, w), <<>>))) <=>
          /\ {At(b, W32, W32), At(b, 3 * W32, W32)} \cap {0} = {}
          /\ At(b, 0, W32) <= At(b, W32, W32) /\ At(b, 2 * W32, W32) <= At(b, 3 * W32, W32)
    BY <1>4 DEF Valid, Value, StncValid, StnpKinds, Decoded
  <2> QED BY <2>3, <2>4, <2>5 DEF good
<1> HIDE DEF w
<1>8. FixedDecoder("pending", w, b, good)
  BY <1>1, <1>5, <1>6, <1>7 DEF FixedDecoder
<1> QED BY <1>8, FixedForm

\* Decoding of kind submission.
LEMMA SubmissionForm == ASSUME NEW b \in Seq(Byte) PROVE Sound("submission", b) /\ Complete("submission", b)
<1> DEFINE w == <<W16, W16, IdSize>>
           e == Ends(w)
           good == /\ At(b, 0, W16) = 1 /\ ~(At(b, W16, W16) > 8)
                   /\ ~(At(b, W16, W16) > 1 /\ \E i \in 2 * W16 + 1..Len(b) : b[i] # 0)
<1>1. w \in Seq(Nat) /\ Len(w) = 3
  BY Widths, WireAssumption
<1>2. /\ e[0] = 0
      /\ e[1] = W16
      /\ e[2] = 2 * W16
      /\ e[3] = SubmissionSize
  <2>1. w[1] = W16 /\ w[2] = W16 /\ w[3] = IdSize
    OBVIOUS
  <2> HIDE DEF w
  <2>2. Sums(w, e)
    BY <1>1, FirstEnds
  <2> HIDE DEF e
  <2>3. /\ e[0] = 0
        /\ e[1] = w[1]
        /\ e[2] = w[1] + w[2]
        /\ e[3] = w[1] + w[2] + w[3]
    BY <1>1, <2>2 DEF Sums
  <2> QED BY <2>1, <2>3, Widths DEF SubmissionSize
<1> HIDE DEF e, good
<1>3. HeadOf(b, w) = <<At(b, e[0], W16), At(b, e[1], W16), At(b, e[2], IdSize)>>
  BY <1>1 DEF HeadOf, e
<1>4. HeadOf(b, w) = <<At(b, 0, W16), At(b, W16, W16), At(b, 2 * W16, IdSize)>>
  BY <1>2, <1>3, Zenon
<1>5. DecodeOf("submission", b) =
        IF Len(b) = Size(w) /\ good THEN Decoded(HeadOf(b, w), <<>>) ELSE Rejected
  <2>1. Size(w) = SubmissionSize
    BY <1>1, <1>2 DEF Size, e
  <2>2. DecodeOf("submission", b) = DecodeSubmission(b)
    BY DEF DecodeOf, DecodeStnc, StnpKinds
  <2> QED BY <1>4, <2>1, <2>2 DEF DecodeSubmission, good
<1>6. LayoutOf("submission") = Fixed(w) /\ "submission" \notin Listed
  BY DEF LayoutOf, StnpKinds, StncLayout, Listed
<1>7. Len(b) = Size(w) => (good <=> Valid(Value("submission", Decoded(HeadOf(b, w), <<>>))))
  <2> SUFFICES ASSUME Len(b) = Size(w)
               PROVE  good <=> Valid(Value("submission", Decoded(HeadOf(b, w), <<>>)))
    OBVIOUS
  <2>1. Size(w) <= Len(b)
    BY <1>1, SizeType
  <2>2. Len(b) = 2 * W16 + IdSize
    BY <1>1, <1>2 DEF Size, SubmissionSize, e
  <2>3. (\E i \in 2 * W16 + 1..Len(b) : b[i] # 0) <=> At(b, 2 * W16, IdSize) # 0
    BY <2>2, Widths, ZeroAt
  <2> HIDE DEF w
  <2>4. \A k \in 1..3 : HeadOf(b, w)[k] \in Nat
    BY <1>1, <2>1, HeadNat
  <2>5. At(b, 0, W16) \in Nat /\ At(b, W16, W16) \in Nat
    BY <1>4, <2>4
  <2> QED BY <1>4, <2>3, <2>5 DEF good, Valid, Value, StncValid, StnpKinds, Decoded
<1> HIDE DEF w
<1>8. FixedDecoder("submission", w, b, good)
  BY <1>1, <1>5, <1>6, <1>7 DEF FixedDecoder
<1> QED BY <1>8, FixedForm

-----------------------------------------------------------------------------
(* The decoders of STNP, one by one                                        *)

\* The sizes of the peer protocol are numbers.
LEMMA StnpWidths ==
  /\ W16 \in Nat /\ W32 \in Nat /\ W64 \in Nat /\ IdSize \in Nat /\ WorkSize \in Nat
  /\ HeaderWire \in Nat /\ IpSize \in Nat /\ TypedLen \in Nat /\ StnpHeaderSize \in Nat
BY Widths, StnpAssumption, StncAssumption DEF StnpAssumption, StncAssumption, StnpHeaderSize

\* A header of four numbers and what follows it, as one sequence.
LEMMA Join1 ==
  ASSUME NEW a, NEW b, NEW c, NEW d, NEW x
  PROVE  <<a, b, c, d>> \o <<x>> = <<a, b, c, d, x>>
<1> DEFINE S == {a, b, c, d, x}
           s == <<a, b, c, d>>
           t == <<x>>
           u == <<a, b, c, d, x>>
<1>1. s \in Seq(S) /\ t \in Seq(S) /\ u \in Seq(S) /\ Len(s) = 4 /\ Len(t) = 1 /\ Len(u) = 5
  OBVIOUS
<1>2. s \o t \in Seq(S) /\ Len(s \o t) = 5
  BY <1>1
<1>3. \A i \in 1..5 : (s \o t)[i] = IF i <= 4 THEN s[i] ELSE t[i - 4]
  BY <1>1
<1>4. (s \o t)[1] = a /\ (s \o t)[2] = b /\ (s \o t)[3] = c /\ (s \o t)[4] = d /\ (s \o t)[5] = x
  BY <1>3
<1>5. u[1] = a /\ u[2] = b /\ u[3] = c /\ u[4] = d /\ u[5] = x
  OBVIOUS
<1>6. \A i \in 1..5 : i = 1 \/ i = 2 \/ i = 3 \/ i = 4 \/ i = 5
  OBVIOUS
<1> HIDE DEF s, t, u
<1>7. \A i \in 1..5 : (s \o t)[i] = u[i]
  BY <1>4, <1>5, <1>6
<1> QED BY <1>1, <1>2, <1>7, SeqEqual DEF s, t, u

\* The same with two numbers behind the header.
LEMMA Join2 ==
  ASSUME NEW a, NEW b, NEW c, NEW d, NEW x, NEW y
  PROVE  <<a, b, c, d>> \o <<x, y>> = <<a, b, c, d, x, y>>
<1> DEFINE S == {a, b, c, d, x, y}
           s == <<a, b, c, d>>
           t == <<x, y>>
           u == <<a, b, c, d, x, y>>
<1>1. s \in Seq(S) /\ t \in Seq(S) /\ u \in Seq(S) /\ Len(s) = 4 /\ Len(t) = 2 /\ Len(u) = 6
  OBVIOUS
<1>2. s \o t \in Seq(S) /\ Len(s \o t) = 6
  BY <1>1
<1>3. \A i \in 1..6 : (s \o t)[i] = IF i <= 4 THEN s[i] ELSE t[i - 4]
  BY <1>1
<1>4. (s \o t)[1] = a /\ (s \o t)[2] = b /\ (s \o t)[3] = c /\ (s \o t)[4] = d /\ (s \o t)[5] = x /\ (s \o t)[6] = y
  BY <1>3
<1>5. u[1] = a /\ u[2] = b /\ u[3] = c /\ u[4] = d /\ u[5] = x /\ u[6] = y
  OBVIOUS
<1>6. \A i \in 1..6 : i = 1 \/ i = 2 \/ i = 3 \/ i = 4 \/ i = 5 \/ i = 6
  OBVIOUS
<1> HIDE DEF s, t, u
<1>7. \A i \in 1..6 : (s \o t)[i] = u[i]
  BY <1>4, <1>5, <1>6
<1> QED BY <1>1, <1>2, <1>7, SeqEqual DEF s, t, u

\* The same with three.
LEMMA Join3 ==
  ASSUME NEW a, NEW b, NEW c, NEW d, NEW x, NEW y, NEW z
  PROVE  <<a, b, c, d>> \o <<x, y, z>> = <<a, b, c, d, x, y, z>>
<1> DEFINE S == {a, b, c, d, x, y, z}
           s == <<a, b, c, d>>
           t == <<x, y, z>>
           u == <<a, b, c, d, x, y, z>>
<1>1. s \in Seq(S) /\ t \in Seq(S) /\ u \in Seq(S) /\ Len(s) = 4 /\ Len(t) = 3 /\ Len(u) = 7
  OBVIOUS
<1>2. s \o t \in Seq(S) /\ Len(s \o t) = 7
  BY <1>1
<1>3. \A i \in 1..7 : (s \o t)[i] = IF i <= 4 THEN s[i] ELSE t[i - 4]
  BY <1>1
<1>4. (s \o t)[1] = a /\ (s \o t)[2] = b /\ (s \o t)[3] = c /\ (s \o t)[4] = d /\ (s \o t)[5] = x /\ (s \o t)[6] = y /\ (s \o t)[7] = z
  BY <1>3
<1>5. u[1] = a /\ u[2] = b /\ u[3] = c /\ u[4] = d /\ u[5] = x /\ u[6] = y /\ u[7] = z
  OBVIOUS
<1>6. \A i \in 1..7 : i = 1 \/ i = 2 \/ i = 3 \/ i = 4 \/ i = 5 \/ i = 6 \/ i = 7
  OBVIOUS
<1> HIDE DEF s, t, u
<1>7. \A i \in 1..7 : (s \o t)[i] = u[i]
  BY <1>4, <1>5, <1>6
<1> QED BY <1>1, <1>2, <1>7, SeqEqual DEF s, t, u

\* The same with four.
LEMMA Join4 ==
  ASSUME NEW a, NEW b, NEW c, NEW d, NEW x, NEW y, NEW z, NEW v
  PROVE  <<a, b, c, d>> \o <<x, y, z, v>> = <<a, b, c, d, x, y, z, v>>
<1> DEFINE S == {a, b, c, d, x, y, z, v}
           s == <<a, b, c, d>>
           t == <<x, y, z, v>>
           u == <<a, b, c, d, x, y, z, v>>
<1>1. s \in Seq(S) /\ t \in Seq(S) /\ u \in Seq(S) /\ Len(s) = 4 /\ Len(t) = 4 /\ Len(u) = 8
  OBVIOUS
<1>2. s \o t \in Seq(S) /\ Len(s \o t) = 8
  BY <1>1
<1>3. \A i \in 1..8 : (s \o t)[i] = IF i <= 4 THEN s[i] ELSE t[i - 4]
  BY <1>1
<1>4. (s \o t)[1] = a /\ (s \o t)[2] = b /\ (s \o t)[3] = c /\ (s \o t)[4] = d /\ (s \o t)[5] = x /\ (s \o t)[6] = y /\ (s \o t)[7] = z /\ (s \o t)[8] = v
  BY <1>3
<1>5. u[1] = a /\ u[2] = b /\ u[3] = c /\ u[4] = d /\ u[5] = x /\ u[6] = y /\ u[7] = z /\ u[8] = v
  OBVIOUS
<1>6. \A i \in 1..8 : i = 1 \/ i = 2 \/ i = 3 \/ i = 4 \/ i = 5 \/ i = 6 \/ i = 7 \/ i = 8
  OBVIOUS
<1> HIDE DEF s, t, u
<1>7. \A i \in 1..8 : (s \o t)[i] = u[i]
  BY <1>4, <1>5, <1>6
<1> QED BY <1>1, <1>2, <1>7, SeqEqual DEF s, t, u

\* A header is that of a valid frame if it names the kind and counts the bytes.
LEMMA ValidHeader ==
  ASSUME NEW kind \in Framed, IsLayout(LayoutOf(kind)),
         NEW b \in Seq(Byte), Len(b) >= StnpHeaderSize,
         NEW n, Whole(LayoutOf(kind), b, n),
         NEW r, r = Reading(LayoutOf(kind), b, n),
         r.head[1] = At(b, 0, 4), r.head[2] = At(b, 4, W16),
         r.head[3] = At(b, 4 + W16, W16), r.head[4] = Length(b)
  PROVE  Headed(kind, r.head, r.rows)
           <=> Begins(b, kind) /\ Length(b) = Len(b) - StnpHeaderSize
<1>1. LayoutOf(kind) = StnpLayout(kind)
  BY DEF LayoutOf, Framed
<1>2. Written(LayoutOf(kind), r.head, r.rows) = b
  BY ReadingWritten
<1> QED BY <1>1, <1>2 DEF Headed, Begins

\* Decoding of kind hello.
LEMMA HelloForm == ASSUME NEW b \in Seq(Byte) PROVE Sound("hello", b) /\ Complete("hello", b)
<1> DEFINE w == <<4, W16, W16, W32, IdSize, IdSize, W32>>
           e == Ends(w)
           at == StnpHeaderSize
           good == Begins(b, "hello") /\ Length(b) = HelloSize
           r == Decoded(HeadOf(b, w), <<>>)
<1>1. w \in Seq(Nat) /\ Len(w) = 7
  BY Widths
<1>2. /\ e[0] = 0
      /\ e[1] = 4
      /\ e[2] = 4 + W16
      /\ e[3] = 4 + 2 * W16
      /\ e[4] = at
      /\ e[5] = at + IdSize
      /\ e[6] = at + 2 * IdSize
      /\ e[7] = at + HelloSize
  <2>1. w[1] = 4 /\ w[2] = W16 /\ w[3] = W16 /\ w[4] = W32 /\ w[5] = IdSize /\ w[6] = IdSize /\ w[7] = W32
    OBVIOUS
  <2> HIDE DEF w
  <2>2. Sums(w, e)
    BY <1>1, FirstEnds
  <2> HIDE DEF e
  <2>3. /\ e[0] = 0
        /\ e[1] = w[1]
        /\ e[2] = w[1] + w[2]
        /\ e[3] = w[1] + w[2] + w[3]
        /\ e[4] = w[1] + w[2] + w[3] + w[4]
        /\ e[5] = w[1] + w[2] + w[3] + w[4] + w[5]
        /\ e[6] = w[1] + w[2] + w[3] + w[4] + w[5] + w[6]
        /\ e[7] = w[1] + w[2] + w[3] + w[4] + w[5] + w[6] + w[7]
    BY <1>1, <2>2 DEF Sums
  <2> QED BY <2>1, <2>3, Widths DEF HelloSize, StnpHeaderSize
<1> HIDE DEF e, good, at
<1>3. HeadOf(b, w) = <<At(b, e[0], 4), At(b, e[1], W16), At(b, e[2], W16), At(b, e[3], W32), At(b, e[4], IdSize), At(b, e[5], IdSize), At(b, e[6], W32)>>
  BY <1>1 DEF HeadOf, e
<1>4. HeadOf(b, w) =
        <<At(b, 0, 4), At(b, 4, W16), At(b, 4 + W16, W16), Length(b),
          At(b, at, IdSize), At(b, at + IdSize, IdSize), At(b, at + 2 * IdSize, W32)>>
  BY <1>2, <1>3, Zenon DEF Length
<1>5. Size(w) = at + HelloSize /\ Size(w) >= at /\ at \in Nat
  BY <1>1, <1>2, Widths, StnpWidths DEF Size, e, HelloSize, at
<1>6. DecodeOf("hello", b) = IF Len(b) = Size(w) /\ good THEN r ELSE Rejected
  <2>1. DecodeOf("hello", b) = DecodeHello(b)
    BY DEF DecodeOf, DecodeStnp, StnpKinds
  <2>2. HeadNumbers(b, "hello") \o <<At(b, at, IdSize), At(b, at + IdSize, IdSize), At(b, at + 2 * IdSize, W32)>>
          = <<StnpMagic, Version, Type["hello"], Length(b),
              At(b, at, IdSize), At(b, at + IdSize, IdSize), At(b, at + 2 * IdSize, W32)>>
    BY Join3 DEF HeadNumbers
  <2>3. good => /\ At(b, 0, 4) = StnpMagic /\ At(b, 4, W16) = Version
                /\ At(b, 4 + W16, W16) = Type["hello"]
    BY DEF good, Begins
  <2> HIDE DEF w
  <2> QED BY <1>4, <1>5, <2>1, <2>2, <2>3 DEF DecodeHello, at, good
<1>7. LayoutOf("hello") = Fixed(w) /\ "hello" \notin Listed /\ "hello" \in Framed
  <2>1. StnpHeader \o <<IdSize, IdSize, W32>> = w
    BY Join3 DEF StnpHeader
  <2>2. StnpLayout("hello") = Fixed(StnpHeader \o <<IdSize, IdSize, W32>>)
    BY DEF StnpLayout
  <2> HIDE DEF w
  <2> QED BY <2>1, <2>2 DEF LayoutOf, StnpKinds, Listed, Framed
<1>8. Len(b) = Size(w) => (good <=> Valid(Value("hello", r)))
  <2> SUFFICES ASSUME Len(b) = Size(w) PROVE good <=> Valid(Value("hello", r))
    OBVIOUS
  <2>1. r = Reading(LayoutOf("hello"), b, 0) /\ Whole(LayoutOf("hello"), b, 0) /\ IsLayout(LayoutOf("hello"))
    BY <1>1, <1>7, FixedFacts
  <2>2. r.head = HeadOf(b, w)
    BY DEF Decoded
  <2>3. /\ r.head[1] = At(b, 0, 4) /\ r.head[2] = At(b, 4, W16)
        /\ r.head[3] = At(b, 4 + W16, W16) /\ r.head[4] = Length(b)
    BY <1>4, <2>2
  <2>7. \A i \in 1..7 : r.head[i] \in Nat
    <3>1. Size(w) <= Len(b)
      BY <1>1, SizeType
    <3> HIDE DEF w, r
    <3> QED BY <1>1, <2>2, <3>1, HeadNat
  <2>8. r.head[5] = At(b, at, IdSize) /\ r.head[6] = At(b, at + IdSize, IdSize) /\ r.head[7] = At(b, at + 2 * IdSize, W32)
    BY <1>4, <2>2
  <2> HIDE DEF r, w
  <2>4. Headed("hello", r.head, r.rows) <=> Begins(b, "hello") /\ Length(b) = Len(b) - StnpHeaderSize
    BY <1>5, <1>7, <2>1, <2>3, ValidHeader DEF at
  <2>5. Valid(Value("hello", r)) <=> Headed("hello", r.head, r.rows)
    BY DEF Valid, Value, StnpValid, StnpKinds
  <2>6. HelloSize \in Nat /\ Len(b) - StnpHeaderSize = HelloSize
    BY <1>5, Widths DEF at, HelloSize
  <2> QED BY <2>4, <2>5, <2>6, <2>7, <2>8 DEF good
<1> HIDE DEF w, r
<1>9. FixedDecoder("hello", w, b, good)
  BY <1>1, <1>6, <1>7, <1>8 DEF FixedDecoder, r
<1> QED BY <1>9, FixedForm

\* Decoding of kind state.
LEMMA StateForm == ASSUME NEW b \in Seq(Byte) PROVE Sound("state", b) /\ Complete("state", b)
<1> DEFINE w == <<4, W16, W16, W32, W64, IdSize, WorkSize, W32>>
           e == Ends(w)
           at == StnpHeaderSize
           good == /\ Begins(b, "state") /\ Length(b) = StateSize
                   /\ At(b, at + W64 + IdSize + WorkSize, W32) # 0
                   /\ At(b, at, W64) = At(b, at + W64 + IdSize + WorkSize, W32) - 1
           r == Decoded(HeadOf(b, w), <<>>)
<1>1. w \in Seq(Nat) /\ Len(w) = 8
  BY Widths
<1>2. /\ e[0] = 0
      /\ e[1] = 4
      /\ e[2] = 4 + W16
      /\ e[3] = 4 + 2 * W16
      /\ e[4] = at
      /\ e[5] = at + W64
      /\ e[6] = at + W64 + IdSize
      /\ e[7] = at + W64 + IdSize + WorkSize
      /\ e[8] = at + StateSize
  <2>1. w[1] = 4 /\ w[2] = W16 /\ w[3] = W16 /\ w[4] = W32 /\ w[5] = W64 /\ w[6] = IdSize /\ w[7] = WorkSize /\ w[8] = W32
    OBVIOUS
  <2> HIDE DEF w
  <2>2. Sums(w, e)
    BY <1>1, FirstEnds
  <2> HIDE DEF e
  <2>3. /\ e[0] = 0
        /\ e[1] = w[1]
        /\ e[2] = w[1] + w[2]
        /\ e[3] = w[1] + w[2] + w[3]
        /\ e[4] = w[1] + w[2] + w[3] + w[4]
        /\ e[5] = w[1] + w[2] + w[3] + w[4] + w[5]
        /\ e[6] = w[1] + w[2] + w[3] + w[4] + w[5] + w[6]
        /\ e[7] = w[1] + w[2] + w[3] + w[4] + w[5] + w[6] + w[7]
        /\ e[8] = w[1] + w[2] + w[3] + w[4] + w[5] + w[6] + w[7] + w[8]
    BY <1>1, <2>2 DEF Sums
  <2> QED BY <2>1, <2>3, Widths DEF StateSize, StnpHeaderSize
<1> HIDE DEF e, good, at
<1>3. HeadOf(b, w) = <<At(b, e[0], 4), At(b, e[1], W16), At(b, e[2], W16), At(b, e[3], W32), At(b, e[4], W64), At(b, e[5], IdSize), At(b, e[6], WorkSize), At(b, e[7], W32)>>
  BY <1>1 DEF HeadOf, e
<1>4. HeadOf(b, w) =
        <<At(b, 0, 4), At(b, 4, W16), At(b, 4 + W16, W16), Length(b),
          At(b, at, W64), At(b, at + W64, IdSize), At(b, at + W64 + IdSize, WorkSize), At(b, at + W64 + IdSize + WorkSize, W32)>>
  BY <1>2, <1>3, Zenon DEF Length
<1>5. Size(w) = at + StateSize /\ Size(w) >= at /\ at \in Nat
  <2>1. Size(w) = e[8]
    BY <1>1 DEF Size, e
  <2>2. StateSize \in Nat /\ at \in Nat
    BY Widths, StnpWidths DEF StateSize, at
  <2> HIDE DEF at, w
  <2> QED BY <1>2, <2>1, <2>2
<1>6. DecodeOf("state", b) = IF Len(b) = Size(w) /\ good THEN r ELSE Rejected
  <2>1. DecodeOf("state", b) = DecodeState(b)
    BY DEF DecodeOf, DecodeStnp, StnpKinds
  <2>2. HeadNumbers(b, "state") \o <<At(b, at, W64), At(b, at + W64, IdSize), At(b, at + W64 + IdSize, WorkSize), At(b, at + W64 + IdSize + WorkSize, W32)>>
          = <<StnpMagic, Version, Type["state"], Length(b),
              At(b, at, W64), At(b, at + W64, IdSize), At(b, at + W64 + IdSize, WorkSize), At(b, at + W64 + IdSize + WorkSize, W32)>>
    BY Join4 DEF HeadNumbers
  <2>3. good => /\ At(b, 0, 4) = StnpMagic /\ At(b, 4, W16) = Version
                /\ At(b, 4 + W16, W16) = Type["state"]
    BY DEF good, Begins
  <2> HIDE DEF w
  <2> QED BY <1>4, <1>5, <2>1, <2>2, <2>3 DEF DecodeState, at, good
<1>7. LayoutOf("state") = Fixed(w) /\ "state" \notin Listed /\ "state" \in Framed
  <2>1. StnpHeader \o <<W64, IdSize, WorkSize, W32>> = w
    BY Join4 DEF StnpHeader
  <2>2. StnpLayout("state") = Fixed(StnpHeader \o <<W64, IdSize, WorkSize, W32>>)
    BY DEF StnpLayout
  <2> HIDE DEF w
  <2> QED BY <2>1, <2>2 DEF LayoutOf, StnpKinds, Listed, Framed
<1>8. Len(b) = Size(w) => (good <=> Valid(Value("state", r)))
  <2> SUFFICES ASSUME Len(b) = Size(w) PROVE good <=> Valid(Value("state", r))
    OBVIOUS
  <2>1. r = Reading(LayoutOf("state"), b, 0) /\ Whole(LayoutOf("state"), b, 0) /\ IsLayout(LayoutOf("state"))
    BY <1>1, <1>7, FixedFacts
  <2>2. r.head = HeadOf(b, w)
    BY DEF Decoded
  <2>3. /\ r.head[1] = At(b, 0, 4) /\ r.head[2] = At(b, 4, W16)
        /\ r.head[3] = At(b, 4 + W16, W16) /\ r.head[4] = Length(b)
    BY <1>4, <2>2
  <2>7. \A i \in 1..8 : r.head[i] \in Nat
    <3>1. Size(w) <= Len(b)
      BY <1>1, SizeType
    <3> HIDE DEF w, r
    <3> QED BY <1>1, <2>2, <3>1, HeadNat
  <2>8. r.head[5] = At(b, at, W64) /\ r.head[6] = At(b, at + W64, IdSize) /\ r.head[7] = At(b, at + W64 + IdSize, WorkSize) /\ r.head[8] = At(b, at + W64 + IdSize + WorkSize, W32)
    BY <1>4, <2>2
  <2> HIDE DEF r, w
  <2>4. Headed("state", r.head, r.rows) <=> Begins(b, "state") /\ Length(b) = Len(b) - StnpHeaderSize
    BY <1>5, <1>7, <2>1, <2>3, ValidHeader DEF at
  <2>5. Valid(Value("state", r)) <=> Headed("state", r.head, r.rows) /\ r.head[8] # 0 /\ r.head[5] + 1 = r.head[8]
    BY DEF Valid, Value, StnpValid, StnpKinds
  <2>6. StateSize \in Nat /\ Len(b) - StnpHeaderSize = StateSize
    BY <1>5, Widths DEF at, StateSize
  <2>9. r.head[5] \in Nat /\ r.head[8] \in Nat
    BY <2>7
  <2>10. r.head[5] = r.head[8] - 1 <=> r.head[5] + 1 = r.head[8]
    BY <2>9
  <2>11. good <=> /\ Begins(b, "state") /\ Length(b) = StateSize
                  /\ r.head[8] # 0 /\ r.head[5] = r.head[8] - 1
    BY <2>8 DEF good
  <2> QED BY <2>4, <2>5, <2>6, <2>10, <2>11
<1> HIDE DEF w, r
<1>9. FixedDecoder("state", w, b, good)
  BY <1>1, <1>6, <1>7, <1>8 DEF FixedDecoder, r
<1> QED BY <1>9, FixedForm

-----------------------------------------------------------------------------
(* The decoders of lists                                                   *)

\* A decoder that compares the length with a number of rows.
ListDecoder(kind, b, good, count) ==
  /\ kind \in Listed
  /\ DecodeOf(kind, b) = IF good THEN Reading(LayoutOf(kind), b, count) ELSE Rejected
  /\ good => /\ Whole(LayoutOf(kind), b, count)
             /\ Valid(Value(kind, Reading(LayoutOf(kind), b, count)))
  /\ \A n : Whole(LayoutOf(kind), b, n) /\ Valid(Value(kind, Reading(LayoutOf(kind), b, n)))
              => good /\ n = count

\* Such a decoder is sound and complete.
LEMMA ListForm ==
  ASSUME NEW kind, NEW b, NEW good, NEW count, ListDecoder(kind, b, good, count)
  PROVE  Sound(kind, b) /\ Complete(kind, b)
<1> DEFINE d == DecodeOf(kind, b)
           r == Reading(LayoutOf(kind), b, count)
<1>1. /\ kind \in Listed /\ d = IF good THEN r ELSE Rejected
      /\ good => Whole(LayoutOf(kind), b, count) /\ Valid(Value(kind, r))
      /\ \A n : Whole(LayoutOf(kind), b, n) /\ Valid(Value(kind, Reading(LayoutOf(kind), b, n)))
                  => good /\ n = count
  BY DEF ListDecoder
<1>2. r.ok = TRUE /\ Rejected.ok = FALSE
  BY DEF Reading, Decoded, Rejected
<1>3. Sound(kind, b)
  <2>1. CASE good
    <3>1. Fit(kind, b, count)
      BY <1>1, <2>1 DEF Fit
    <3> HIDE DEF r
    <3>2. d = r /\ d.ok = TRUE
      BY <1>1, <1>2, <2>1
    <3> HIDE DEF d
    <3> QED BY <1>1, <2>1, <3>1, <3>2 DEF Sound, d, r
  <2>2. CASE ~good
    <3>1. d = Rejected
      BY <1>1, <2>2
    <3> QED BY <1>2, <3>1 DEF Sound
  <2> QED BY <2>1, <2>2
<1>4. Complete(kind, b)
  BY <1>1 DEF Complete, Fit
<1> QED BY <1>3, <1>4

\* Rows of one byte are the bytes.
LEMMA OneByte ==
  ASSUME NEW x \in Byte
  PROVE  Number(<<x>>) = x
<1>1. <<x>> \in Seq(Byte) /\ Len(<<x>>) = 1 /\ <<x>>[1] = x
  OBVIOUS
<1>2. PICK f : Reads(<<x>>, f) /\ Number(<<x>>) = f[Len(<<x>>)]
  BY <1>1, NumberFacts
<1>3. f[0] = 0 /\ f[1] = f[0] * Base + <<x>>[1]
  <2>1. 1 \in 1..Len(<<x>>) /\ 1 - 1 = 0
    BY <1>1
  <2>2. \A i \in 1..Len(<<x>>) : f[i] = f[i - 1] * Base + <<x>>[i]
    BY <1>2 DEF Reads
  <2>3. f[1] = f[1 - 1] * Base + <<x>>[1]
    BY <2>1, <2>2
  <2> QED BY <1>2, <2>1, <2>3 DEF Reads
<1>4. 0 * Base = 0 /\ x \in Nat
  BY BaseFacts
<1> QED BY <1>1, <1>2, <1>3, <1>4

\* A row of one byte has one byte.
LEMMA OneEnds == Ends(<<1>>)[0] = 0 /\ Size(<<1>>) = 1
<1> DEFINE w == <<1>>
<1>1. w \in Seq(Nat) /\ Len(w) = 1 /\ w[1] = 1
  OBVIOUS
<1> HIDE DEF w
<1>2. Sums(w, Ends(w))
  BY <1>1, FirstEnds
<1>3. Ends(w)[0] = 0 /\ Ends(w)[1] = 1
  BY <1>1, <1>2 DEF Sums
<1>4. Size(w) = 1
  BY <1>1, <1>3 DEF Size
<1> QED BY <1>3, <1>4 DEF w

\* The bytes behind a fixed part, read as rows of one byte.
LEMMA SinglesRows ==
  ASSUME NEW b \in Seq(Byte), NEW skip \in Nat, NEW n \in Nat, Len(b) = skip + n
  PROVE  /\ Rows(b, skip, <<1>>, n) = Singles(From(b, skip))
         /\ Len(Rows(b, skip, <<1>>, n)) = n
         /\ \A r \in 1..n : Rows(b, skip, <<1>>, n)[r] = <<b[skip + r]>>
<1> DEFINE c == From(b, skip)
           rows == Rows(b, skip, <<1>>, n)
<1>1. Len(c) = n /\ \A j \in 1..n : c[j] = b[skip + j]
  BY SliceFacts DEF From
<1>2. ASSUME NEW r \in 1..n
      PROVE  [k \in 1..Len(<<1>>) |-> At(b, skip + (r - 1) * Size(<<1>>) + Ends(<<1>>)[k - 1], <<1>>[k])]
               = <<b[skip + r]>>
  <2> DEFINE p == skip + r - 1
             x == b[skip + r]
             d == SubSeq(b, p + 1, p + 1)
  <2>1. p \in Nat /\ p + 1 <= Len(b) /\ p + 1 = skip + r
    OBVIOUS
  <2>2. skip + (r - 1) * Size(<<1>>) + Ends(<<1>>)[1 - 1] = p
    BY OneEnds
  <2>3. x \in Byte
    OBVIOUS
  <2> HIDE DEF p
  <2>4. d \in Seq(Byte) /\ Len(d) = 1 /\ \A j \in 1..1 : d[j] = b[p + j]
    <3>1. p \in Nat /\ 1 \in Nat /\ p + 1 <= Len(b) /\ b \in Seq(Byte)
      BY <2>1
    <3> QED BY <3>1, SliceFacts DEF d
  <2> HIDE DEF x, d
  <2>5. d[1] = x
    BY <2>1, <2>4 DEF x
  <2>6. d = <<x>>
    BY <2>4, <2>5
  <2>7. At(b, p, 1) = x
    BY <2>3, <2>6, OneByte DEF At, d
  <2>8. Len(<<1>>) = 1 /\ <<1>>[1] = 1
    OBVIOUS
  <2>9. [k \in 1..1 |-> At(b, skip + (r - 1) * Size(<<1>>) + Ends(<<1>>)[k - 1], <<1>>[k])] = <<x>>
    BY <2>2, <2>7, <2>8
  <2> QED BY <2>8, <2>9 DEF x
<1>4. rows = [r \in 1..n |-> <<b[skip + r]>>]
  BY <1>2 DEF Rows
<1>3. Len(rows) = n /\ \A r \in 1..n : rows[r] = <<b[skip + r]>>
  <2> HIDE DEF rows
  <2> QED BY <1>4
<1>5. Singles(c) = [r \in 1..n |-> <<b[skip + r]>>]
  <2> HIDE DEF c
  <2> QED BY <1>1 DEF Singles
<1> QED BY <1>3, <1>4, <1>5

\* What is read of a fixed part and so many bytes behind it.
ReadSingles(w, b, n) ==
  /\ IsLayout(Fixed(w)) /\ Size(w) \in Nat
  /\ Whole(Fixed(w), b, n) <=> n \in Nat /\ Len(b) = Size(w) + n
  /\ Reading(Fixed(w), b, n).head = HeadOf(b, w)
  /\ Whole(Fixed(w), b, n) =>
       /\ Reading(Fixed(w), b, n) = Decoded(HeadOf(b, w), Singles(From(b, Size(w))))
       /\ Len(Reading(Fixed(w), b, n).rows) = n
       /\ \A r \in 1..n : Reading(Fixed(w), b, n).rows[r] = <<b[Size(w) + r]>>

\* Rows of one byte take all the bytes that are left.
LEMMA SinglesFacts ==
  ASSUME NEW w \in Seq(Nat), NEW b \in Seq(Byte), NEW n
  PROVE  ReadSingles(w, b, n)
<1>1. Fixed(w).head = w /\ Fixed(w).row = <<1>> /\ <<1>> \in Seq(Nat) /\ Size(w) \in Nat
  BY SizeType DEF Fixed, Layout
<1>2. Size(<<1>>) = 1
  BY OneEnds
<1>3. Whole(Fixed(w), b, n) <=> n \in Nat /\ Len(b) = Size(w) + n
  <2>1. n \in Nat => n * 1 = n
    OBVIOUS
  <2> QED BY <1>1, <1>2, <2>1 DEF Whole
<1>4. Reading(Fixed(w), b, n) = Decoded(HeadOf(b, w), Rows(b, Size(w), <<1>>, n))
  BY <1>1 DEF Reading
<1>5. ASSUME Whole(Fixed(w), b, n)
      PROVE  /\ Rows(b, Size(w), <<1>>, n) = Singles(From(b, Size(w)))
             /\ Len(Rows(b, Size(w), <<1>>, n)) = n
             /\ \A r \in 1..n : Rows(b, Size(w), <<1>>, n)[r] = <<b[Size(w) + r]>>
  BY <1>1, <1>3, <1>5, SinglesRows
<1>6. IsLayout(Fixed(w))
  BY <1>1 DEF IsLayout
<1> DEFINE rows == Rows(b, Size(w), <<1>>, n)
<1>7. Reading(Fixed(w), b, n).head = HeadOf(b, w) /\ Reading(Fixed(w), b, n).rows = rows
  BY <1>4 DEF Decoded
<1> HIDE DEF rows
<1> QED BY <1>1, <1>3, <1>4, <1>5, <1>6, <1>7 DEF rows, ReadSingles

\* Decoding of kind template.
LEMMA TemplateForm ==
  ASSUME NEW b \in Seq(Byte) PROVE Sound("template", b) /\ Complete("template", b)
<1> DEFINE w == <<IdSize, IdSize, W32>>
           e == Ends(w)
           size == TemplatePrefixSize
           length == At(b, 2 * IdSize, W32)
           good == Len(b) >= size /\ length \in BlockHeaderSize..BlockMax /\ length = Len(b) - size
           count == Len(b) - size
           r(n) == Reading(Fixed(w), b, n)
<1>1. w \in Seq(Nat) /\ Len(w) = 3
  BY Widths
<1>2. e[0] = 0 /\ e[1] = IdSize /\ e[2] = 2 * IdSize /\ e[3] = size
  <2>1. w[1] = IdSize /\ w[2] = IdSize /\ w[3] = W32
    OBVIOUS
  <2> HIDE DEF w
  <2>2. Sums(w, e)
    BY <1>1, FirstEnds
  <2> HIDE DEF e
  <2>3. e[0] = 0 /\ e[1] = w[1] /\ e[2] = w[1] + w[2] /\ e[3] = w[1] + w[2] + w[3]
    BY <1>1, <2>2 DEF Sums
  <2> QED BY <2>1, <2>3, Widths DEF TemplatePrefixSize
<1> HIDE DEF e
<1>3. HeadOf(b, w) = <<At(b, e[0], IdSize), At(b, e[1], IdSize), At(b, e[2], W32)>>
  BY <1>1 DEF HeadOf, e
<1>4. HeadOf(b, w) = <<At(b, 0, IdSize), At(b, IdSize, IdSize), length>>
  BY <1>2, <1>3, Zenon
<1>5. Size(w) = size /\ size \in Nat /\ Len(b) \in Nat
  BY <1>1, <1>2, Widths, LenProperties DEF Size, e, TemplatePrefixSize
<1>6. LayoutOf("template") = Fixed(w) /\ "template" \in Listed
  BY DEF LayoutOf, StnpKinds, StncLayout, Listed
<1>7. DecodeOf("template", b) =
        IF good THEN Decoded(HeadOf(b, w), Singles(From(b, size))) ELSE Rejected
  <2>1. DecodeOf("template", b) = DecodeTemplate(b)
    BY DEF DecodeOf, DecodeStnc, StnpKinds
  <2>2. ~(Len(b) < size) <=> Len(b) >= size
    BY <1>5
  <2> HIDE DEF w
  <2> QED BY <1>4, <2>1, <2>2 DEF DecodeTemplate
<1>8. \A n : /\ Whole(Fixed(w), b, n) <=> n \in Nat /\ Len(b) = size + n
             /\ r(n).head = HeadOf(b, w)
             /\ Whole(Fixed(w), b, n) =>
                  r(n) = Decoded(HeadOf(b, w), Singles(From(b, size))) /\ Len(r(n).rows) = n
  <2> HIDE DEF w
  <2> QED BY <1>1, <1>5, SinglesFacts DEF ReadSingles
<1>9. HeadOf(b, w)[3] = length
  BY <1>4
<1>10. \A n : Valid(Value("template", r(n))) <=>
          r(n).head[3] = Len(r(n).rows) /\ Len(r(n).rows) \in BlockHeaderSize..BlockMax
  <2> HIDE DEF r
  <2> QED BY DEF Valid, Value, StncValid, StnpKinds
<1> HIDE DEF w, size, length, r
<1>11. good => /\ Whole(Fixed(w), b, count) /\ Valid(Value("template", r(count)))
               /\ r(count) = Decoded(HeadOf(b, w), Singles(From(b, size)))
  <2> SUFFICES ASSUME good
               PROVE  /\ Whole(Fixed(w), b, count) /\ Valid(Value("template", r(count)))
                      /\ r(count) = Decoded(HeadOf(b, w), Singles(From(b, size)))
    OBVIOUS
  <2>1. count \in Nat /\ Len(b) = size + count
    BY <1>5
  <2> HIDE DEF count
  <2>2. Whole(Fixed(w), b, count)
    BY <1>8, <2>1
  <2>3. Len(r(count).rows) = count /\ r(count).head[3] = length
        /\ r(count) = Decoded(HeadOf(b, w), Singles(From(b, size)))
    BY <1>8, <1>9, <2>2
  <2> QED BY <1>10, <2>2, <2>3 DEF count
<1>12. ASSUME NEW n, Whole(Fixed(w), b, n), Valid(Value("template", r(n)))
       PROVE  good /\ n = count
  <2>1. n \in Nat /\ Len(b) = size + n
    BY <1>8, <1>12
  <2>2. length = n /\ n \in BlockHeaderSize..BlockMax
    BY <1>8, <1>9, <1>10, <1>12
  <2> QED BY <1>5, <2>1, <2>2
<1>13. ListDecoder("template", b, good, count)
  <2> HIDE DEF good, count
  <2> QED BY <1>6, <1>7, <1>11, <1>12 DEF ListDecoder, r
<1> QED BY <1>13, ListForm

\* An address is its bytes: the length and the first byte are compared.
LEMMA AddressForm ==
  ASSUME NEW kind \in Listed, LayoutOf(kind) = Fixed(<<>>),
         NEW length \in Nat \ {0}, length <= TypedLen, TypedLen \in Nat, NEW mark,
         NEW b \in Seq(Byte),
         DecodeOf(kind, b) =
           IF Len(b) # length \/ TypedLen + 1 <= Len(b) \/ b[1] # mark THEN Rejected
           ELSE Decoded(<<>>, Singles(b)),
         \A rows : Valid(Value(kind, Decoded(<<>>, rows))) <=>
                     Len(rows) = length /\ rows[1][1] = mark
  PROVE  Sound(kind, b) /\ Complete(kind, b)
<1> DEFINE w == <<>>
           good == Len(b) = length /\ b[1] = mark
           count == Len(b)
           r(n) == Reading(Fixed(w), b, n)
<1>1. w \in Seq(Nat) /\ Len(w) = 0 /\ Len(b) \in Nat
  BY LenProperties
<1>2. Size(w) = 0
  <2> HIDE DEF w
  <2> QED BY <1>1, EndsAre DEF Size
<1>3. HeadOf(b, w) = <<>>
  BY DEF HeadOf
<1>4. DecodeOf(kind, b) = IF good THEN Decoded(<<>>, Singles(b)) ELSE Rejected
  BY <1>1
<1>5. From(b, 0) = b
  <2>1. From(b, 0) \in Seq(Byte) /\ Len(From(b, 0)) = Len(b) /\ \A j \in 1..Len(b) : From(b, 0)[j] = b[j]
    <3>1. 0 + Len(b) = Len(b) /\ \A j \in 1..Len(b) : 0 + j = j
      BY <1>1
    <3> QED BY <1>1, <3>1, SliceFacts DEF From
  <2> QED BY <2>1, SeqEqual
<1>6. \A n : /\ Whole(Fixed(w), b, n) <=> n \in Nat /\ Len(b) = 0 + n
             /\ Whole(Fixed(w), b, n) =>
                  /\ r(n) = Decoded(<<>>, Singles(b)) /\ Len(r(n).rows) = n
                  /\ \A i \in 1..n : r(n).rows[i] = <<b[0 + i]>>
  <2> SUFFICES ASSUME NEW n
               PROVE  /\ Whole(Fixed(w), b, n) <=> n \in Nat /\ Len(b) = 0 + n
                      /\ Whole(Fixed(w), b, n) =>
                           /\ r(n) = Decoded(<<>>, Singles(b)) /\ Len(r(n).rows) = n
                           /\ \A i \in 1..n : r(n).rows[i] = <<b[0 + i]>>
    OBVIOUS
  <2> DEFINE z == Size(w)
             h == HeadOf(b, w)
  <2> HIDE DEF w
  <2>1. /\ Whole(Fixed(w), b, n) <=> n \in Nat /\ Len(b) = z + n
        /\ Whole(Fixed(w), b, n) =>
             /\ Reading(Fixed(w), b, n) = Decoded(h, Singles(From(b, z)))
             /\ Len(Reading(Fixed(w), b, n).rows) = n
             /\ \A i \in 1..n : Reading(Fixed(w), b, n).rows[i] = <<b[z + i]>>
    <3>1. ReadSingles(w, b, n)
      BY <1>1, SinglesFacts
    <3> QED BY <3>1 DEF ReadSingles
  <2>2. z = 0 /\ h = <<>>
    BY <1>2, <1>3
  <2> HIDE DEF z, h
  <2> QED BY <1>5, <2>1, <2>2
<1>7. \A n : Whole(Fixed(w), b, n) =>
               (Valid(Value(kind, r(n))) <=> Len(b) = length /\ b[1] = mark)
  <2> SUFFICES ASSUME NEW n, Whole(Fixed(w), b, n)
               PROVE  Valid(Value(kind, r(n))) <=> Len(b) = length /\ b[1] = mark
    OBVIOUS
  <2> HIDE DEF w, r
  <2>1. n \in Nat /\ Len(b) = n /\ r(n) = Decoded(<<>>, Singles(b)) /\ Len(r(n).rows) = n
        /\ \A i \in 1..n : r(n).rows[i] = <<b[0 + i]>>
    BY <1>1, <1>6
  <2>2. r(n).rows = Singles(b)
    BY <2>1 DEF Decoded
  <2>3. n = length => Singles(b)[1] = <<b[1]>> /\ Singles(b)[1][1] = b[1]
    <3> SUFFICES ASSUME n = length PROVE Singles(b)[1] = <<b[1]>> /\ Singles(b)[1][1] = b[1]
      OBVIOUS
    <3>1. 1 \in 1..n /\ 0 + 1 = 1
      BY <2>1
    <3> QED BY <2>1, <2>2, <3>1
  <2>4. Valid(Value(kind, r(n))) <=> Len(Singles(b)) = length /\ Singles(b)[1][1] = mark
    BY <2>1
  <2> QED BY <2>1, <2>2, <2>3, <2>4
<1>8. good => Whole(Fixed(w), b, count) /\ Valid(Value(kind, r(count))) /\ r(count) = Decoded(<<>>, Singles(b))
  <2> HIDE DEF w, r
  <2>1. Whole(Fixed(w), b, count)
    BY <1>1, <1>6
  <2> QED BY <1>6, <1>7, <2>1
<1>9. ASSUME NEW n, Whole(Fixed(w), b, n), Valid(Value(kind, r(n)))
      PROVE  good /\ n = count
  <2> HIDE DEF w, r
  <2> QED BY <1>1, <1>6, <1>7, <1>9
<1>10. ListDecoder(kind, b, good, count)
  <2>1. r(count) = Reading(LayoutOf(kind), b, count) /\ \A n : r(n) = Reading(LayoutOf(kind), b, n)
    OBVIOUS
  <2> HIDE DEF good, count
  <2> QED BY <1>4, <1>8, <1>9 DEF ListDecoder
<1> QED BY <1>10, ListForm

\* Decoding of kind identity.
LEMMA IdentityForm ==
  ASSUME NEW b \in Seq(Byte) PROVE Sound("identity", b) /\ Complete("identity", b)
<1>1. /\ IdentityLen \in Nat \ {0} /\ IdentityLen <= TypedLen /\ TypedLen \in Nat
  BY StncAssumption DEF StncAssumption
<1>2. LayoutOf("identity") = Fixed(<<>>)
  BY DEF LayoutOf, StnpKinds, StncLayout
<1>3. DecodeOf("identity", b) = DecodeAddress("identity", b, TypedLen + 1)
  BY DEF DecodeOf, DecodeStnc, StnpKinds
<1>4. DecodeOf("identity", b) =
        IF Len(b) # IdentityLen \/ TypedLen + 1 <= Len(b) \/ b[1] # IdentityMark THEN Rejected
        ELSE Decoded(<<>>, Singles(b))
  BY <1>3 DEF DecodeAddress
<1>5. \A rows : Valid(Value("identity", Decoded(<<>>, rows))) <=>
                Len(rows) = IdentityLen /\ rows[1][1] = IdentityMark
  BY DEF Valid, Value, StncValid, StnpKinds, Decoded
<1> QED BY <1>1, <1>2, <1>4, <1>5, AddressForm DEF Listed

\* Decoding of kind contract_address.
LEMMA ContractAddressForm ==
  ASSUME NEW b \in Seq(Byte) PROVE Sound("contract_address", b) /\ Complete("contract_address", b)
<1>1. /\ TypedLen \in Nat \ {0} /\ TypedLen <= TypedLen /\ TypedLen \in Nat
  BY StncAssumption DEF StncAssumption
<1>2. LayoutOf("contract_address") = Fixed(<<>>)
  BY DEF LayoutOf, StnpKinds, StncLayout
<1>3. DecodeOf("contract_address", b) = DecodeAddress("contract_address", b, TypedLen + 1)
  BY DEF DecodeOf, DecodeStnc, StnpKinds
<1>4. DecodeOf("contract_address", b) =
        IF Len(b) # TypedLen \/ TypedLen + 1 <= Len(b) \/ b[1] # ContractMark THEN Rejected
        ELSE Decoded(<<>>, Singles(b))
  BY <1>3 DEF DecodeAddress
<1>5. \A rows : Valid(Value("contract_address", Decoded(<<>>, rows))) <=>
                Len(rows) = TypedLen /\ rows[1][1] = ContractMark
  BY DEF Valid, Value, StncValid, StnpKinds, Decoded
<1> QED BY <1>1, <1>2, <1>4, <1>5, AddressForm DEF Listed

\* Decoding of kind wallet.
LEMMA WalletForm ==
  ASSUME NEW b \in Seq(Byte) PROVE Sound("wallet", b) /\ Complete("wallet", b)
<1>1. /\ TypedLen \in Nat \ {0} /\ TypedLen <= TypedLen /\ TypedLen \in Nat
  BY StncAssumption DEF StncAssumption
<1>2. LayoutOf("wallet") = Fixed(<<>>)
  BY DEF LayoutOf, StnpKinds, StncLayout
<1>3. DecodeOf("wallet", b) = DecodeAddress("wallet", b, TypedLen + 1)
  BY DEF DecodeOf, DecodeStnc, StnpKinds
<1>4. DecodeOf("wallet", b) =
        IF Len(b) # TypedLen \/ TypedLen + 1 <= Len(b) \/ b[1] # WalletMark THEN Rejected
        ELSE Decoded(<<>>, Singles(b))
  BY <1>3 DEF DecodeAddress
<1>5. \A rows : Valid(Value("wallet", Decoded(<<>>, rows))) <=>
                Len(rows) = TypedLen /\ rows[1][1] = WalletMark
  BY DEF Valid, Value, StncValid, StnpKinds, Decoded
<1> QED BY <1>1, <1>2, <1>4, <1>5, AddressForm DEF Listed

\* What is read of a fixed part and n rows.
ReadRows(w, row, b, n) ==
  /\ IsLayout(Layout(w, row))
  /\ Whole(Layout(w, row), b, n) <=> n \in Nat /\ Len(b) = Size(w) + n * Size(row)
  /\ Reading(Layout(w, row), b, n) = Decoded(HeadOf(b, w), Rows(b, Size(w), row, n))
  /\ Reading(Layout(w, row), b, n).head = HeadOf(b, w)
  /\ Reading(Layout(w, row), b, n).rows = Rows(b, Size(w), row, n)
  /\ n \in Nat => Len(Reading(Layout(w, row), b, n).rows) = n

\* That is what Reading reads.
LEMMA RowsFacts ==
  ASSUME NEW w \in Seq(Nat), NEW row \in Seq(Nat), NEW b, NEW n
  PROVE  ReadRows(w, row, b, n)
<1> DEFINE rows == Rows(b, Size(w), row, n)
           layout == Layout(w, row)
<1>1. layout.head = w /\ layout.row = row
  BY DEF Layout
<1>2. n \in Nat => Len(rows) = n
  BY DEF Rows
<1> HIDE DEF rows, layout
<1>3. Reading(layout, b, n) = Decoded(HeadOf(b, w), rows)
  BY <1>1 DEF Reading, rows
<1>4. Reading(layout, b, n).head = HeadOf(b, w) /\ Reading(layout, b, n).rows = rows
  BY <1>3 DEF Decoded
<1>5. Whole(layout, b, n) <=> n \in Nat /\ Len(b) = Size(w) + n * Size(row)
  BY <1>1 DEF Whole
<1>6. IsLayout(layout)
  BY <1>1 DEF IsLayout
<1> QED BY <1>2, <1>3, <1>4, <1>5, <1>6 DEF ReadRows, rows, layout

\* A frame of this kind has a layout that begins with the header.
FrameOf(kind, w, row, b) ==
  /\ kind \in Framed /\ w \in Seq(Nat) /\ row \in Seq(Nat)
  /\ LayoutOf(kind) = Layout(w, row) /\ Len(w) >= 4 /\ Size(w) >= StnpHeaderSize
  /\ HeadOf(b, w)[1] = At(b, 0, 4) /\ HeadOf(b, w)[2] = At(b, 4, W16)
  /\ HeadOf(b, w)[3] = At(b, 4 + W16, W16) /\ HeadOf(b, w)[4] = Length(b)

\* The header, as the protocol wants it, and as the decoder looks at it.
ValidAsFrame(kind, b, r) ==
  Headed(kind, r.head, r.rows) <=> Begins(b, kind) /\ Length(b) = Len(b) - StnpHeaderSize

\* The header of a frame with rows, as a value the protocol allows has it.
LEMMA ValidFrame ==
  ASSUME NEW kind, NEW w, NEW row, NEW b \in Seq(Byte), FrameOf(kind, w, row, b),
         NEW n, Whole(LayoutOf(kind), b, n)
  PROVE  ValidAsFrame(kind, b, Reading(LayoutOf(kind), b, n))
<1>1. /\ kind \in Framed /\ w \in Seq(Nat) /\ row \in Seq(Nat)
      /\ LayoutOf(kind) = Layout(w, row) /\ Len(w) >= 4 /\ Size(w) >= StnpHeaderSize
      /\ HeadOf(b, w)[1] = At(b, 0, 4) /\ HeadOf(b, w)[2] = At(b, 4, W16)
      /\ HeadOf(b, w)[3] = At(b, 4 + W16, W16) /\ HeadOf(b, w)[4] = Length(b)
  BY DEF FrameOf
<1>2. ReadRows(w, row, b, n)
  BY <1>1, RowsFacts
<1> DEFINE r == Reading(LayoutOf(kind), b, n)
<1>3. r.head = HeadOf(b, w) /\ IsLayout(LayoutOf(kind)) /\ n \in Nat
      /\ Len(b) = Size(w) + n * Size(row)
  BY <1>1, <1>2 DEF ReadRows
<1>4. Len(b) >= StnpHeaderSize
  <2>1. Size(w) \in Nat /\ Size(row) \in Nat
    BY <1>1, SizeType
  <2>2. n * Size(row) \in Nat
    BY <1>3, <2>1, RowPlaces
  <2> QED BY <1>1, <1>3, <2>1, <2>2, StnpWidths
<1>5. r.head[1] = At(b, 0, 4) /\ r.head[2] = At(b, 4, W16)
      /\ r.head[3] = At(b, 4 + W16, W16) /\ r.head[4] = Length(b)
  BY <1>1, <1>3
<1> HIDE DEF r
<1> QED BY <1>1, <1>3, <1>4, <1>5, ValidHeader DEF r, ValidAsFrame

\* Decoding of kind block.
LEMMA BlockForm == ASSUME NEW b \in Seq(Byte) PROVE Sound("block", b) /\ Complete("block", b)
<1> DEFINE w == <<4, W16, W16, W32, W32>>
           e == Ends(w)
           at == StnpHeaderSize
           size == at + W32
           good == /\ Begins(b, "block") /\ Length(b) \in W32 + 1..BlockPayloadMax
                   /\ Len(b) = at + Length(b)
           count == Len(b) - size
           r(n) == Reading(Fixed(w), b, n)
<1>1. w \in Seq(Nat) /\ Len(w) = 5
  BY Widths
<1>2. /\ e[0] = 0
      /\ e[1] = 4
      /\ e[2] = 4 + W16
      /\ e[3] = 4 + 2 * W16
      /\ e[4] = at
      /\ e[5] = size
  <2>1. w[1] = 4 /\ w[2] = W16 /\ w[3] = W16 /\ w[4] = W32 /\ w[5] = W32
    OBVIOUS
  <2> HIDE DEF w
  <2>2. Sums(w, e)
    BY <1>1, FirstEnds
  <2> HIDE DEF e
  <2>3. /\ e[0] = 0
        /\ e[1] = w[1]
        /\ e[2] = w[1] + w[2]
        /\ e[3] = w[1] + w[2] + w[3]
        /\ e[4] = w[1] + w[2] + w[3] + w[4]
        /\ e[5] = w[1] + w[2] + w[3] + w[4] + w[5]
    BY <1>1, <2>2 DEF Sums
  <2> QED BY <2>1, <2>3, Widths DEF StnpHeaderSize
<1> HIDE DEF e, good, at, size
<1>3. HeadOf(b, w) = <<At(b, e[0], 4), At(b, e[1], W16), At(b, e[2], W16), At(b, e[3], W32), At(b, e[4], W32)>>
  BY <1>1 DEF HeadOf, e
<1>4. HeadOf(b, w) =
        <<At(b, 0, 4), At(b, 4, W16), At(b, 4 + W16, W16), Length(b),
          At(b, at, W32)>>
  BY <1>2, <1>3, Zenon DEF Length
<1>5. /\ Size(w) = size /\ at \in Nat /\ size \in Nat /\ size = at + W32 /\ W32 \in Nat
      /\ Len(b) \in Nat
  BY <1>1, <1>2, Widths, StnpWidths, LenProperties DEF Size, e, at, size
<1>6. HeadNumbers(b, "block") \o <<At(b, at, W32)>>
          = <<StnpMagic, Version, Type["block"], Length(b), At(b, at, W32)>>
  BY Join1 DEF HeadNumbers
<1>7. Begins(b, "block") => /\ At(b, 0, 4) = StnpMagic /\ At(b, 4, W16) = Version
                        /\ At(b, 4 + W16, W16) = Type["block"]
  BY DEF Begins
<1>8. StnpHeader \o <<W32>> = w
  BY Join1 DEF StnpHeader
<1>9. /\ HeadOf(b, w)[1] = At(b, 0, 4) /\ HeadOf(b, w)[2] = At(b, 4, W16)
      /\ HeadOf(b, w)[3] = At(b, 4 + W16, W16) /\ HeadOf(b, w)[4] = Length(b)
  BY <1>4
<1>10. Begins(b, "block") => HeadNumbers(b, "block") \o <<At(b, at, W32)>> = HeadOf(b, w)
  BY <1>4, <1>6, <1>7
<1>11. LayoutOf("block") = Fixed(w) /\ LayoutOf("block") = Layout(w, <<1>>) /\ "block" \in Framed
       /\ "block" \in Listed
  <2>1. StnpLayout("block") = Fixed(StnpHeader \o <<W32>>)
    BY DEF StnpLayout
  <2> HIDE DEF w
  <2> QED BY <1>8, <2>1 DEF LayoutOf, StnpKinds, Framed, Listed, Fixed
<1>12. DecodeOf("block", b) = IF good THEN Decoded(HeadOf(b, w), Singles(From(b, size))) ELSE Rejected
  <2>1. DecodeOf("block", b) = DecodeBlock(b)
    BY DEF DecodeOf, DecodeStnp, StnpKinds
  <2>2. good <=> BlockFollows(b) # NoLength /\ Len(b) = at + BlockFollows(b)
    <3>1. \A x \in W32 + 1..BlockPayloadMax : x # -1
      BY Widths
    <3> QED BY <3>1 DEF good, BlockFollows, NoLength
  <2>3. good => Begins(b, "block")
    BY DEF good
  <2> HIDE DEF w
  <2> QED BY <1>10, <2>1, <2>2, <2>3 DEF DecodeBlock, at, size
<1>13. \A n : Whole(Fixed(w), b, n) =>
                (Valid(Value("block", r(n))) <=>
                   Begins(b, "block") /\ Length(b) = Len(b) - at /\ n \in 1..BlockMax)
  <2> SUFFICES ASSUME NEW n, Whole(Fixed(w), b, n)
               PROVE  Valid(Value("block", r(n))) <=>
                        Begins(b, "block") /\ Length(b) = Len(b) - at /\ n \in 1..BlockMax
    OBVIOUS
  <2>1. Len(r(n).rows) = n
    <3>1. w \in Seq(Nat)
      BY <1>1
    <3> HIDE DEF w
    <3>2. ReadSingles(w, b, n)
      BY <3>1, SinglesFacts
    <3> QED BY <3>2 DEF ReadSingles
  <2>2. Headed("block", r(n).head, r(n).rows) <=> Begins(b, "block") /\ Length(b) = Len(b) - at
    <3>1. LayoutOf("block") = Fixed(w) /\ <<1>> \in Seq(Nat)
      BY <1>11
    <3>2. FrameOf("block", w, <<1>>, b)
      <4>1. Len(w) >= 4 /\ Size(w) >= StnpHeaderSize /\ w \in Seq(Nat)
        BY <1>1, <1>5 DEF at
      <4> HIDE DEF w
      <4> QED BY <1>9, <1>11, <3>1, <4>1 DEF FrameOf
    <3> HIDE DEF w
    <3>3. Whole(LayoutOf("block"), b, n) /\ r(n) = Reading(LayoutOf("block"), b, n)
      BY <3>1
    <3> HIDE DEF r
    <3>4. ValidAsFrame("block", b, r(n))
      BY <3>2, <3>3, ValidFrame
    <3> QED BY <3>4 DEF ValidAsFrame, at
  <2> HIDE DEF w, r
  <2>3. Valid(Value("block", r(n))) <=> Headed("block", r(n).head, r(n).rows) /\ Len(r(n).rows) \in 1..BlockMax
    BY DEF Valid, Value, StnpValid, StnpKinds
  <2> QED BY <2>1, <2>2, <2>3
<1>14. \A n : /\ Whole(Fixed(w), b, n) <=> n \in Nat /\ Len(b) = size + n
              /\ Whole(Fixed(w), b, n) => r(n) = Decoded(HeadOf(b, w), Singles(From(b, size)))
  <2> SUFFICES ASSUME NEW n
               PROVE  /\ Whole(Fixed(w), b, n) <=> n \in Nat /\ Len(b) = size + n
                      /\ Whole(Fixed(w), b, n) => r(n) = Decoded(HeadOf(b, w), Singles(From(b, size)))
    OBVIOUS
  <2>1. w \in Seq(Nat)
    BY <1>1
  <2> HIDE DEF w
  <2>2. ReadSingles(w, b, n)
    BY <2>1, SinglesFacts
  <2> QED BY <1>5, <2>2 DEF ReadSingles
<1> HIDE DEF w, r
<1>15. BlockPayloadMax = W32 + BlockMax /\ BlockMax \in Nat
  BY WireAssumption DEF WireAssumption, BlockPayloadMax
<1>16. good => /\ Whole(Fixed(w), b, count) /\ Valid(Value("block", r(count)))
               /\ r(count) = Decoded(HeadOf(b, w), Singles(From(b, size)))
  <2> SUFFICES ASSUME good
               PROVE  /\ Whole(Fixed(w), b, count) /\ Valid(Value("block", r(count)))
                      /\ r(count) = Decoded(HeadOf(b, w), Singles(From(b, size)))
    OBVIOUS
  <2>1. Begins(b, "block") /\ Length(b) \in W32 + 1..BlockPayloadMax /\ Len(b) = at + Length(b)
    BY DEF good
  <2>2. count \in 1..BlockMax /\ Len(b) = size + count /\ Length(b) = Len(b) - at
    BY <1>5, <1>15, <2>1
  <2> HIDE DEF count
  <2>3. Whole(Fixed(w), b, count)
    BY <1>14, <2>2
  <2> QED BY <1>13, <1>14, <2>1, <2>2, <2>3
<1>17. ASSUME NEW n, Whole(Fixed(w), b, n), Valid(Value("block", r(n)))
       PROVE  good /\ n = count
  <2>1. n \in Nat /\ Len(b) = size + n
    BY <1>14, <1>17
  <2>2. Begins(b, "block") /\ Length(b) = Len(b) - at /\ n \in 1..BlockMax
    BY <1>13, <1>17
  <2>3. Length(b) \in W32 + 1..BlockPayloadMax /\ Len(b) = at + Length(b) /\ n = count
    BY <1>5, <1>15, <2>1, <2>2
  <2> QED BY <2>2, <2>3 DEF good
<1>18. ListDecoder("block", b, good, count)
  <2> HIDE DEF count
  <2> QED BY <1>11, <1>12, <1>16, <1>17 DEF ListDecoder, r
<1> QED BY <1>18, ListForm

\* A frame whose header counts the rows behind it.
RowDecoder(kind, w, row, b, k, lo, hi, good) ==
  /\ FrameOf(kind, w, row, b) /\ kind \in Listed /\ lo \in Nat /\ hi \in Nat
  /\ good <=> /\ Begins(b, kind) /\ Length(b) = Len(b) - StnpHeaderSize
              /\ HeadOf(b, w)[k] \in lo..hi
              /\ Len(b) = Size(w) + HeadOf(b, w)[k] * Size(row)
  /\ DecodeOf(kind, b) =
       IF good THEN Decoded(HeadOf(b, w), Rows(b, Size(w), row, HeadOf(b, w)[k])) ELSE Rejected
  /\ \A r : Valid(Value(kind, r)) <=>
              Headed(kind, r.head, r.rows) /\ r.head[k] = Len(r.rows) /\ Len(r.rows) \in lo..hi

\* Such a decoder is sound and complete.
LEMMA RowsForm ==
  ASSUME NEW kind, NEW w, NEW row, NEW b \in Seq(Byte), NEW k, NEW lo, NEW hi, NEW good,
         RowDecoder(kind, w, row, b, k, lo, hi, good)
  PROVE  Sound(kind, b) /\ Complete(kind, b)
<1> DEFINE count == HeadOf(b, w)[k]
           r(n) == Reading(LayoutOf(kind), b, n)
           frame == Begins(b, kind) /\ Length(b) = Len(b) - StnpHeaderSize
<1>1. /\ FrameOf(kind, w, row, b) /\ kind \in Listed /\ lo \in Nat /\ hi \in Nat
      /\ w \in Seq(Nat) /\ row \in Seq(Nat) /\ LayoutOf(kind) = Layout(w, row)
  BY DEF RowDecoder, FrameOf
<1>2. /\ good <=> frame /\ count \in lo..hi /\ Len(b) = Size(w) + count * Size(row)
      /\ DecodeOf(kind, b) =
           IF good THEN Decoded(HeadOf(b, w), Rows(b, Size(w), row, count)) ELSE Rejected
  BY DEF RowDecoder
<1>3. \A n : Valid(Value(kind, r(n))) <=>
               Headed(kind, r(n).head, r(n).rows) /\ r(n).head[k] = Len(r(n).rows)
                 /\ Len(r(n).rows) \in lo..hi
  BY DEF RowDecoder
<1>4. \A n : /\ Whole(LayoutOf(kind), b, n) <=> n \in Nat /\ Len(b) = Size(w) + n * Size(row)
             /\ r(n) = Decoded(HeadOf(b, w), Rows(b, Size(w), row, n))
             /\ r(n).head = HeadOf(b, w)
             /\ n \in Nat => Len(r(n).rows) = n
  BY <1>1, RowsFacts DEF ReadRows
<1>5. \A n : Whole(LayoutOf(kind), b, n) => (Headed(kind, r(n).head, r(n).rows) <=> frame)
  <2> SUFFICES ASSUME NEW n, Whole(LayoutOf(kind), b, n)
               PROVE  Headed(kind, r(n).head, r(n).rows) <=> frame
    OBVIOUS
  <2>1. ValidAsFrame(kind, b, r(n))
    BY <1>1, ValidFrame
  <2> QED BY <2>1 DEF ValidAsFrame
<1> HIDE DEF r, frame, count
<1>6. \A n : Whole(LayoutOf(kind), b, n) =>
               (Valid(Value(kind, r(n))) <=> frame /\ count = n /\ n \in lo..hi)
  BY <1>3, <1>4, <1>5 DEF count
<1>7. good => Whole(LayoutOf(kind), b, count) /\ Valid(Value(kind, r(count)))
  BY <1>1, <1>2, <1>4, <1>6
<1>8. \A n : Whole(LayoutOf(kind), b, n) /\ Valid(Value(kind, r(n))) => good /\ n = count
  BY <1>2, <1>4, <1>6
<1>9. DecodeOf(kind, b) = IF good THEN r(count) ELSE Rejected
  BY <1>2, <1>4
<1>10. ListDecoder(kind, b, good, count)
  BY <1>1, <1>7, <1>8, <1>9 DEF ListDecoder, r
<1> QED BY <1>10, ListForm

\* So many rows of one size, and at most so many.
LEMMA Room ==
  ASSUME NEW size \in Nat \ {0}, NEW n \in Nat, NEW m \in Nat, n <= m
  PROVE  n * size \in Nat /\ n * size <= m * size /\ (n * size) % size = 0
<1>1. (n * size + 0) % size = 0 /\ n * size \in Nat /\ m * size \in Nat
  <2>1. 0 \in 0..size - 1
    OBVIOUS
  <2> QED BY <2>1, DivUnique
<1>2. n * size <= m * size
  <2>1. m * size = n * size + (m - n) * size
    OBVIOUS
  <2>2. (m - n) * size \in Nat
    OBVIOUS
  <2> QED BY <1>1, <2>1, <2>2
<1>3. n * size + 0 = n * size
  BY <1>1
<1> QED BY <1>1, <1>2, <1>3

\* The sizes of the rows of the three lists.
LEMMA RowSizes ==
  /\ Size(<<HeaderWire>>) = HeaderWire
  /\ Size(<<IpSize, W16>>) = IpSize + W16
  /\ Size(<<TypedLen, W16, W16, W64, W64>>) = EntrySize
  /\ {<<HeaderWire>>, <<IpSize, W16>>, <<TypedLen, W16, W16, W64, W64>>} \subseteq Seq(Nat)
<1>1. <<HeaderWire>> \in Seq(Nat) /\ <<IpSize, W16>> \in Seq(Nat)
      /\ <<TypedLen, W16, W16, W64, W64>> \in Seq(Nat)
  BY StnpWidths
<1>3. Size(<<HeaderWire>>) = HeaderWire
  <2> DEFINE s == <<HeaderWire>>
  <2>1. s \in Seq(Nat) /\ Len(s) = 1 /\ s[1] = HeaderWire
    BY <1>1
  <2> HIDE DEF s
  <2>2. Sums(s, Ends(s)) /\ Size(s) = Ends(s)[Len(s)]
    BY <2>1, FirstEnds DEF Size
  <2>3. Size(s) = s[1]
    BY <2>1, <2>2 DEF Sums
  <2>4. Size(s) = HeaderWire
    BY <2>1, <2>3, StnpWidths
  <2> QED BY <2>4 DEF s
<1>4. Size(<<IpSize, W16>>) = IpSize + W16
  <2> DEFINE s == <<IpSize, W16>>
  <2>1. s \in Seq(Nat) /\ Len(s) = 2 /\ s[1] = IpSize /\ s[2] = W16
    BY <1>1
  <2> HIDE DEF s
  <2>2. Sums(s, Ends(s)) /\ Size(s) = Ends(s)[Len(s)]
    BY <2>1, FirstEnds DEF Size
  <2>3. Size(s) = s[1] + s[2]
    BY <2>1, <2>2 DEF Sums
  <2>4. Size(s) = IpSize + W16
    BY <2>1, <2>3, StnpWidths
  <2> QED BY <2>4 DEF s
<1>5. Size(<<TypedLen, W16, W16, W64, W64>>) = EntrySize
  <2> DEFINE s == <<TypedLen, W16, W16, W64, W64>>
  <2>1. s \in Seq(Nat) /\ Len(s) = 5 /\ s[1] = TypedLen /\ s[2] = W16 /\ s[3] = W16 /\ s[4] = W64 /\ s[5] = W64
    BY <1>1
  <2> HIDE DEF s
  <2>2. Sums(s, Ends(s)) /\ Size(s) = Ends(s)[Len(s)]
    BY <2>1, FirstEnds DEF Size
  <2>3. Size(s) = s[1] + s[2] + s[3] + s[4] + s[5]
    BY <2>1, <2>2 DEF Sums
  <2>4. Size(s) = EntrySize
    BY <2>1, <2>3, StnpWidths DEF EntrySize
  <2> QED BY <2>4 DEF s
<1> QED BY <1>1, <1>3, <1>4, <1>5

\* Decoding of kind headers.
LEMMA HeadersForm == ASSUME NEW b \in Seq(Byte) PROVE Sound("headers", b) /\ Complete("headers", b)
<1> DEFINE w == <<4, W16, W16, W32, W32, W32>>
           row == <<HeaderWire>>
           e == Ends(w)
           at == StnpHeaderSize
           size == at + 2 * W32
           count == At(b, at + W32, W32)
           good == /\ Begins(b, "headers") /\ Length(b) = Len(b) - at
                   /\ count \in 1..HeadersMax /\ Len(b) = size + count * (HeaderWire)
<1>1. w \in Seq(Nat) /\ Len(w) = 6
  BY Widths
<1>2. /\ e[0] = 0
      /\ e[1] = 4
      /\ e[2] = 4 + W16
      /\ e[3] = 4 + 2 * W16
      /\ e[4] = at
      /\ e[5] = at + W32
      /\ e[6] = size
  <2>1. w[1] = 4 /\ w[2] = W16 /\ w[3] = W16 /\ w[4] = W32 /\ w[5] = W32 /\ w[6] = W32
    OBVIOUS
  <2> HIDE DEF w
  <2>2. Sums(w, e)
    BY <1>1, FirstEnds
  <2> HIDE DEF e
  <2>3. /\ e[0] = 0
        /\ e[1] = w[1]
        /\ e[2] = w[1] + w[2]
        /\ e[3] = w[1] + w[2] + w[3]
        /\ e[4] = w[1] + w[2] + w[3] + w[4]
        /\ e[5] = w[1] + w[2] + w[3] + w[4] + w[5]
        /\ e[6] = w[1] + w[2] + w[3] + w[4] + w[5] + w[6]
    BY <1>1, <2>2 DEF Sums
  <2> QED BY <2>1, <2>3, Widths DEF StnpHeaderSize
<1> HIDE DEF e, good, at, size
<1>3. HeadOf(b, w) = <<At(b, e[0], 4), At(b, e[1], W16), At(b, e[2], W16), At(b, e[3], W32), At(b, e[4], W32), At(b, e[5], W32)>>
  BY <1>1 DEF HeadOf, e
<1>4. HeadOf(b, w) =
        <<At(b, 0, 4), At(b, 4, W16), At(b, 4 + W16, W16), Length(b),
          At(b, at, W32), At(b, at + W32, W32)>>
  BY <1>2, <1>3, Zenon DEF Length
<1>5. /\ Size(w) = size /\ at \in Nat /\ size \in Nat /\ size = at + 2 * W32 /\ 2 * W32 \in Nat
      /\ Len(b) \in Nat
  BY <1>1, <1>2, Widths, StnpWidths, LenProperties DEF Size, e, at, size
<1>6. HeadNumbers(b, "headers") \o <<At(b, at, W32), At(b, at + W32, W32)>>
          = <<StnpMagic, Version, Type["headers"], Length(b), At(b, at, W32), At(b, at + W32, W32)>>
  BY Join2 DEF HeadNumbers
<1>7. Begins(b, "headers") => /\ At(b, 0, 4) = StnpMagic /\ At(b, 4, W16) = Version
                        /\ At(b, 4 + W16, W16) = Type["headers"]
  BY DEF Begins
<1>8. StnpHeader \o <<W32, W32>> = w
  BY Join2 DEF StnpHeader
<1>9. /\ HeadOf(b, w)[1] = At(b, 0, 4) /\ HeadOf(b, w)[2] = At(b, 4, W16)
      /\ HeadOf(b, w)[3] = At(b, 4 + W16, W16) /\ HeadOf(b, w)[4] = Length(b)
  BY <1>4
<1>10. Begins(b, "headers") => HeadNumbers(b, "headers") \o <<At(b, at, W32), At(b, at + W32, W32)>> = HeadOf(b, w)
  BY <1>4, <1>6, <1>7
<1>11. LayoutOf("headers") = Layout(w, row) /\ "headers" \in Framed /\ "headers" \in Listed
  <2>1. StnpLayout("headers") = Layout(StnpHeader \o <<W32, W32>>, row)
    BY DEF StnpLayout
  <2> HIDE DEF w, row
  <2> QED BY <1>8, <2>1 DEF LayoutOf, StnpKinds, Framed, Listed
<1>12. row \in Seq(Nat) /\ Size(row) = HeaderWire
  BY RowSizes
<1>13. FrameOf("headers", w, row, b)
  <2>1. Len(w) >= 4 /\ Size(w) >= StnpHeaderSize /\ w \in Seq(Nat)
    BY <1>1, <1>5 DEF at
  <2> HIDE DEF w, row
  <2> QED BY <1>9, <1>11, <1>12, <2>1 DEF FrameOf
<1>14. HeadOf(b, w)[6] = count /\ (Len(b) >= size => count \in Nat)
  <2>1. HeadOf(b, w)[6] = count /\ 6 \in 1..Len(w)
    BY <1>1, <1>4
  <2> HIDE DEF w, count
  <2>2. Len(b) >= size => \A j \in 1..Len(w) : HeadOf(b, w)[j] \in Nat
    BY <1>1, <1>5, HeadNat
  <2> QED BY <2>1, <2>2
<1> DEFINE s == HeaderWire
<1>15. s \in Nat \ {0} /\ HeadersMax \in Nat /\ HeadersPayloadMax = 2 * W32 + HeadersMax * s /\ 2 * W32 \in Nat
  <2>1. s \in Nat \ {0} /\ HeadersMax \in Nat
    BY Widths, StnpAssumption DEF StnpAssumption
  <2>2. s * HeadersMax = HeadersMax * s
    BY <2>1
  <2> QED BY <2>1, <2>2, Widths DEF HeadersPayloadMax
<1>16. good => /\ Begins(b, "headers")
               /\ Length(b) \in 2 * W32..HeadersPayloadMax
               /\ (Length(b) - 2 * W32) % s = 0
               /\ Len(b) = at + Length(b)
               /\ Length(b) = 2 * W32 + count * s
  <2> SUFFICES ASSUME good
               PROVE  /\ Begins(b, "headers")
                      /\ Length(b) \in 2 * W32..HeadersPayloadMax
                      /\ (Length(b) - 2 * W32) % s = 0
                      /\ Len(b) = at + Length(b)
                      /\ Length(b) = 2 * W32 + count * s
    OBVIOUS
  <2>1. Begins(b, "headers") /\ Length(b) = Len(b) - at /\ count \in 1..HeadersMax /\ Len(b) = size + count * s
    BY DEF good
  <2> HIDE DEF s, count
  <2>2. count \in Nat /\ count <= HeadersMax
    BY <1>15, <2>1
  <2> DEFINE p == count * s
             q == HeadersMax * s
             f == 2 * W32
             max == HeadersPayloadMax
  <2>3. p \in Nat /\ q \in Nat /\ p <= q /\ p % s = 0
    <3>1. q \in Nat
      BY <1>15
    <3> QED BY <1>15, <2>2, <3>1, Room
  <2>4. /\ size = at + f /\ Len(b) = size + p /\ max = f + q /\ f \in Nat /\ at \in Nat
        /\ Length(b) = Len(b) - at
    BY <1>5, <1>15, <2>1
  <2> HIDE DEF p, q, f, max
  <2>5. Length(b) = f + p /\ Length(b) \in f..max /\ Length(b) - f = p /\ Len(b) = at + Length(b)
    BY <2>3, <2>4
  <2> QED BY <2>1, <2>3, <2>5 DEF p, f, max
<1>17. ASSUME Begins(b, "headers"), Length(b) \in 2 * W32..HeadersPayloadMax, Len(b) = at + Length(b),
              count \in 1..HeadersMax, Length(b) = 2 * W32 + count * s
       PROVE  good
  <2> DEFINE p == count * s
             f == 2 * W32
  <2>1. Length(b) = f + p /\ Length(b) \in f..HeadersPayloadMax /\ size = at + f /\ f \in Nat /\ HeadersPayloadMax \in Nat
    <3>1. HeadersMax * s \in Nat
      BY <1>15, Room
    <3>2. HeadersPayloadMax \in Nat
      BY <1>15, <3>1
    <3> QED BY <1>5, <1>15, <1>17, <3>2
  <2>2. Length(b) \in Nat /\ Len(b) >= size
    <3> HIDE DEF f, p
    <3> QED BY <1>5, <1>17, <2>1
  <2>3. count \in Nat
    BY <1>14, <2>2
  <2> HIDE DEF count, s
  <2>4. p \in Nat
    BY <1>15, <2>3, Room
  <2> HIDE DEF p, f
  <2>5. Len(b) = size + p /\ Length(b) = Len(b) - at
    <3>1. Len(b) = at + Length(b) /\ at \in Nat
      BY <1>5, <1>17
    <3> QED BY <2>1, <2>2, <2>4, <3>1
  <2>6. count \in 1..HeadersMax
    BY <1>15, <1>17, <2>3
  <2> QED BY <1>17, <2>5, <2>6 DEF good, p, s
<1>18. DecodeOf("headers", b) = IF good THEN Decoded(HeadOf(b, w), Rows(b, size, row, count)) ELSE Rejected
  <2>1. DecodeOf("headers", b) = DecodeHeaders(b)
    BY DEF DecodeOf, DecodeStnp, StnpKinds
  <2>2. good <=> /\ HeadersFollow(b) # NoLength /\ Len(b) = at + HeadersFollow(b)
                 /\ count \in 1..HeadersMax /\ HeadersFollow(b) = 2 * W32 + count * s
    <3>1. \A x \in 2 * W32..HeadersPayloadMax : x # -1
      BY <1>15
    <3>2. CASE /\ Begins(b, "headers") /\ Length(b) \in 2 * W32..HeadersPayloadMax
               /\ (Length(b) - 2 * W32) % s = 0
      <4>1. HeadersFollow(b) = Length(b) /\ HeadersFollow(b) # NoLength
        BY <3>1, <3>2 DEF HeadersFollow, NoLength
      <4>2. good => count \in 1..HeadersMax
        BY <1>15 DEF good
      <4> HIDE DEF count, s
      <4> QED BY <1>16, <1>17, <3>2, <4>1, <4>2
    <3>3. CASE ~ /\ Begins(b, "headers") /\ Length(b) \in 2 * W32..HeadersPayloadMax
                 /\ (Length(b) - 2 * W32) % s = 0
      <4>1. HeadersFollow(b) = NoLength
        BY <3>3 DEF HeadersFollow
      <4> HIDE DEF count, s
      <4> QED BY <1>16, <3>3, <4>1
    <3> QED BY <3>2, <3>3
  <2>3. good => Begins(b, "headers")
    BY DEF good
  <2>4. DecodeHeaders(b) =
          IF good THEN Decoded(HeadNumbers(b, "headers") \o <<At(b, at, W32), At(b, at + W32, W32)>>, Rows(b, size, row, count)) ELSE Rejected
    <3>1. HeadersFollow(b) # NoLength /\ Len(b) = at + HeadersFollow(b) => count \in Int
      <4> SUFFICES ASSUME HeadersFollow(b) # NoLength, Len(b) = at + HeadersFollow(b) PROVE Len(b) >= size
        BY <1>14
      <4>1. HeadersFollow(b) \in 2 * W32..HeadersPayloadMax /\ HeadersPayloadMax \in Nat
        <5>1. HeadersMax * s \in Nat
          BY <1>15, Room
        <5> HIDE DEF s
        <5> QED BY <1>15, <5>1 DEF HeadersFollow
      <4> QED BY <1>5, <1>15, <4>1
    <3> HIDE DEF w
    <3> QED BY <1>15, <2>2, <3>1 DEF DecodeHeaders, at, size
  <2> HIDE DEF w, row, count
  <2> QED BY <1>10, <2>1, <2>3, <2>4
<1>19. \A x : Valid(Value("headers", x)) <=>
              Headed("headers", x.head, x.rows) /\ x.head[6] = Len(x.rows) /\ Len(x.rows) \in 1..HeadersMax
  <2> SUFFICES ASSUME NEW x
               PROVE  Valid(Value("headers", x)) <=>
                        Headed("headers", x.head, x.rows) /\ x.head[6] = Len(x.rows) /\ Len(x.rows) \in 1..HeadersMax
    OBVIOUS
  <2>1. Valid(Value("headers", x)) <=>
          Headed("headers", x.head, x.rows) /\ x.head[6] = Len(x.rows) /\ Len(x.rows) \in 1..HeadersMax
    BY DEF Valid, Value, StnpValid, StnpKinds
  <2> QED BY <2>1, <1>15
<1>20. RowDecoder("headers", w, row, b, 6, 1, HeadersMax, good)
  <2> HIDE DEF w, row, count, s
  <2>1. good <=> /\ Begins(b, "headers") /\ Length(b) = Len(b) - StnpHeaderSize
                 /\ HeadOf(b, w)[6] \in 1..HeadersMax
                 /\ Len(b) = Size(w) + HeadOf(b, w)[6] * Size(row)
    BY <1>5, <1>12, <1>14 DEF good, at
  <2> QED BY <1>5, <1>11, <1>13, <1>14, <1>15, <1>18, <1>19, <2>1 DEF RowDecoder
<1> QED BY <1>20, RowsForm

\* Decoding of kind peers.
LEMMA PeersForm == ASSUME NEW b \in Seq(Byte) PROVE Sound("peers", b) /\ Complete("peers", b)
<1> DEFINE w == <<4, W16, W16, W32, W16>>
           row == <<IpSize, W16>>
           e == Ends(w)
           at == StnpHeaderSize
           size == at + W16
           count == At(b, at, W16)
           good == /\ Begins(b, "peers") /\ Length(b) = Len(b) - at
                   /\ count \in 0..PeersMax /\ Len(b) = size + count * (IpSize + W16)
<1>1. w \in Seq(Nat) /\ Len(w) = 5
  BY Widths
<1>2. /\ e[0] = 0
      /\ e[1] = 4
      /\ e[2] = 4 + W16
      /\ e[3] = 4 + 2 * W16
      /\ e[4] = at
      /\ e[5] = size
  <2>1. w[1] = 4 /\ w[2] = W16 /\ w[3] = W16 /\ w[4] = W32 /\ w[5] = W16
    OBVIOUS
  <2> HIDE DEF w
  <2>2. Sums(w, e)
    BY <1>1, FirstEnds
  <2> HIDE DEF e
  <2>3. /\ e[0] = 0
        /\ e[1] = w[1]
        /\ e[2] = w[1] + w[2]
        /\ e[3] = w[1] + w[2] + w[3]
        /\ e[4] = w[1] + w[2] + w[3] + w[4]
        /\ e[5] = w[1] + w[2] + w[3] + w[4] + w[5]
    BY <1>1, <2>2 DEF Sums
  <2> QED BY <2>1, <2>3, Widths DEF StnpHeaderSize
<1> HIDE DEF e, good, at, size
<1>3. HeadOf(b, w) = <<At(b, e[0], 4), At(b, e[1], W16), At(b, e[2], W16), At(b, e[3], W32), At(b, e[4], W16)>>
  BY <1>1 DEF HeadOf, e
<1>4. HeadOf(b, w) =
        <<At(b, 0, 4), At(b, 4, W16), At(b, 4 + W16, W16), Length(b),
          At(b, at, W16)>>
  BY <1>2, <1>3, Zenon DEF Length
<1>5. /\ Size(w) = size /\ at \in Nat /\ size \in Nat /\ size = at + W16 /\ W16 \in Nat
      /\ Len(b) \in Nat
  BY <1>1, <1>2, Widths, StnpWidths, LenProperties DEF Size, e, at, size
<1>6. HeadNumbers(b, "peers") \o <<At(b, at, W16)>>
          = <<StnpMagic, Version, Type["peers"], Length(b), At(b, at, W16)>>
  BY Join1 DEF HeadNumbers
<1>7. Begins(b, "peers") => /\ At(b, 0, 4) = StnpMagic /\ At(b, 4, W16) = Version
                        /\ At(b, 4 + W16, W16) = Type["peers"]
  BY DEF Begins
<1>8. StnpHeader \o <<W16>> = w
  BY Join1 DEF StnpHeader
<1>9. /\ HeadOf(b, w)[1] = At(b, 0, 4) /\ HeadOf(b, w)[2] = At(b, 4, W16)
      /\ HeadOf(b, w)[3] = At(b, 4 + W16, W16) /\ HeadOf(b, w)[4] = Length(b)
  BY <1>4
<1>10. Begins(b, "peers") => HeadNumbers(b, "peers") \o <<At(b, at, W16)>> = HeadOf(b, w)
  BY <1>4, <1>6, <1>7
<1>11. LayoutOf("peers") = Layout(w, row) /\ "peers" \in Framed /\ "peers" \in Listed
  <2>1. StnpLayout("peers") = Layout(StnpHeader \o <<W16>>, row)
    BY DEF StnpLayout
  <2> HIDE DEF w, row
  <2> QED BY <1>8, <2>1 DEF LayoutOf, StnpKinds, Framed, Listed
<1>12. row \in Seq(Nat) /\ Size(row) = IpSize + W16
  BY RowSizes
<1>13. FrameOf("peers", w, row, b)
  <2>1. Len(w) >= 4 /\ Size(w) >= StnpHeaderSize /\ w \in Seq(Nat)
    BY <1>1, <1>5 DEF at
  <2> HIDE DEF w, row
  <2> QED BY <1>9, <1>11, <1>12, <2>1 DEF FrameOf
<1>14. HeadOf(b, w)[5] = count /\ (Len(b) >= size => count \in Nat)
  <2>1. HeadOf(b, w)[5] = count /\ 5 \in 1..Len(w)
    BY <1>1, <1>4
  <2> HIDE DEF w, count
  <2>2. Len(b) >= size => \A j \in 1..Len(w) : HeadOf(b, w)[j] \in Nat
    BY <1>1, <1>5, HeadNat
  <2> QED BY <2>1, <2>2
<1> DEFINE s == IpSize + W16
<1>15. s \in Nat \ {0} /\ PeersMax \in Nat /\ PeersPayloadMax = W16 + PeersMax * s /\ W16 \in Nat
  <2>1. s \in Nat \ {0} /\ PeersMax \in Nat
    BY Widths, StnpAssumption DEF StnpAssumption
  <2>2. s * PeersMax = PeersMax * s
    BY <2>1
  <2> QED BY <2>1, <2>2, Widths DEF PeersPayloadMax
<1>16. good => /\ Begins(b, "peers")
               /\ Length(b) \in W16..PeersPayloadMax
               /\ (Length(b) - W16) % s = 0
               /\ Len(b) = at + Length(b)
               /\ Length(b) = W16 + count * s
  <2> SUFFICES ASSUME good
               PROVE  /\ Begins(b, "peers")
                      /\ Length(b) \in W16..PeersPayloadMax
                      /\ (Length(b) - W16) % s = 0
                      /\ Len(b) = at + Length(b)
                      /\ Length(b) = W16 + count * s
    OBVIOUS
  <2>1. Begins(b, "peers") /\ Length(b) = Len(b) - at /\ count \in 0..PeersMax /\ Len(b) = size + count * s
    BY DEF good
  <2> HIDE DEF s, count
  <2>2. count \in Nat /\ count <= PeersMax
    BY <1>15, <2>1
  <2> DEFINE p == count * s
             q == PeersMax * s
             f == W16
             max == PeersPayloadMax
  <2>3. p \in Nat /\ q \in Nat /\ p <= q /\ p % s = 0
    <3>1. q \in Nat
      BY <1>15
    <3> QED BY <1>15, <2>2, <3>1, Room
  <2>4. /\ size = at + f /\ Len(b) = size + p /\ max = f + q /\ f \in Nat /\ at \in Nat
        /\ Length(b) = Len(b) - at
    BY <1>5, <1>15, <2>1
  <2> HIDE DEF p, q, f, max
  <2>5. Length(b) = f + p /\ Length(b) \in f..max /\ Length(b) - f = p /\ Len(b) = at + Length(b)
    BY <2>3, <2>4
  <2> QED BY <2>1, <2>3, <2>5 DEF p, f, max
<1>17. ASSUME Begins(b, "peers"), Length(b) \in W16..PeersPayloadMax, Len(b) = at + Length(b),
              count <= PeersMax, Length(b) = W16 + count * s
       PROVE  good
  <2> DEFINE p == count * s
             f == W16
  <2>1. Length(b) = f + p /\ Length(b) \in f..PeersPayloadMax /\ size = at + f /\ f \in Nat /\ PeersPayloadMax \in Nat
    <3>1. PeersMax * s \in Nat
      BY <1>15, Room
    <3>2. PeersPayloadMax \in Nat
      BY <1>15, <3>1
    <3> QED BY <1>5, <1>15, <1>17, <3>2
  <2>2. Length(b) \in Nat /\ Len(b) >= size
    <3> HIDE DEF f, p
    <3> QED BY <1>5, <1>17, <2>1
  <2>3. count \in Nat
    BY <1>14, <2>2
  <2> HIDE DEF count, s
  <2>4. p \in Nat
    BY <1>15, <2>3, Room
  <2> HIDE DEF p, f
  <2>5. Len(b) = size + p /\ Length(b) = Len(b) - at
    <3>1. Len(b) = at + Length(b) /\ at \in Nat
      BY <1>5, <1>17
    <3> QED BY <2>1, <2>2, <2>4, <3>1
  <2>6. count \in 0..PeersMax
    BY <1>15, <1>17, <2>3
  <2> QED BY <1>17, <2>5, <2>6 DEF good, p, s
<1>18. DecodeOf("peers", b) = IF good THEN Decoded(HeadOf(b, w), Rows(b, size, row, count)) ELSE Rejected
  <2>1. DecodeOf("peers", b) = DecodePeers(b)
    BY DEF DecodeOf, DecodeStnp, StnpKinds
  <2>2. good <=> /\ PeersFollow(b) # NoLength /\ Len(b) = at + PeersFollow(b)
                 /\ count <= PeersMax /\ PeersFollow(b) = W16 + count * s
    <3>1. \A x \in W16..PeersPayloadMax : x # -1
      BY <1>15
    <3>2. CASE /\ Begins(b, "peers") /\ Length(b) \in W16..PeersPayloadMax
               /\ (Length(b) - W16) % s = 0
      <4>1. PeersFollow(b) = Length(b) /\ PeersFollow(b) # NoLength
        BY <3>1, <3>2 DEF PeersFollow, NoLength
      <4>2. good => count <= PeersMax
        BY <1>15 DEF good
      <4> HIDE DEF count, s
      <4> QED BY <1>16, <1>17, <3>2, <4>1, <4>2
    <3>3. CASE ~ /\ Begins(b, "peers") /\ Length(b) \in W16..PeersPayloadMax
                 /\ (Length(b) - W16) % s = 0
      <4>1. PeersFollow(b) = NoLength
        BY <3>3 DEF PeersFollow
      <4> HIDE DEF count, s
      <4> QED BY <1>16, <3>3, <4>1
    <3> QED BY <3>2, <3>3
  <2>3. good => Begins(b, "peers")
    BY DEF good
  <2>4. DecodePeers(b) =
          IF good THEN Decoded(HeadNumbers(b, "peers") \o <<At(b, at, W16)>>, Rows(b, size, row, count)) ELSE Rejected
    <3>1. PeersFollow(b) # NoLength /\ Len(b) = at + PeersFollow(b) => count \in Int
      <4> SUFFICES ASSUME PeersFollow(b) # NoLength, Len(b) = at + PeersFollow(b) PROVE Len(b) >= size
        BY <1>14
      <4>1. PeersFollow(b) \in W16..PeersPayloadMax /\ PeersPayloadMax \in Nat
        <5>1. PeersMax * s \in Nat
          BY <1>15, Room
        <5> HIDE DEF s
        <5> QED BY <1>15, <5>1 DEF PeersFollow
      <4> QED BY <1>5, <1>15, <4>1
    <3> HIDE DEF w
    <3> QED BY <1>15, <2>2, <3>1 DEF DecodePeers, at, size
  <2> HIDE DEF w, row, count
  <2> QED BY <1>10, <2>1, <2>3, <2>4
<1>19. \A x : Valid(Value("peers", x)) <=>
              Headed("peers", x.head, x.rows) /\ x.head[5] = Len(x.rows) /\ Len(x.rows) \in 0..PeersMax
  <2> SUFFICES ASSUME NEW x
               PROVE  Valid(Value("peers", x)) <=>
                        Headed("peers", x.head, x.rows) /\ x.head[5] = Len(x.rows) /\ Len(x.rows) \in 0..PeersMax
    OBVIOUS
  <2>1. Valid(Value("peers", x)) <=>
          Headed("peers", x.head, x.rows) /\ x.head[5] = Len(x.rows) /\ Len(x.rows) <= PeersMax
    BY DEF Valid, Value, StnpValid, StnpKinds
  <2> QED BY <2>1, <1>15
<1>20. RowDecoder("peers", w, row, b, 5, 0, PeersMax, good)
  <2> HIDE DEF w, row, count, s
  <2>1. good <=> /\ Begins(b, "peers") /\ Length(b) = Len(b) - StnpHeaderSize
                 /\ HeadOf(b, w)[5] \in 0..PeersMax
                 /\ Len(b) = Size(w) + HeadOf(b, w)[5] * Size(row)
    BY <1>5, <1>12, <1>14 DEF good, at
  <2> QED BY <1>5, <1>11, <1>13, <1>14, <1>15, <1>18, <1>19, <2>1 DEF RowDecoder
<1> QED BY <1>20, RowsForm

\* An entry of the list of contracts, its address, and the entries.
EntryRow == <<TypedLen, W16, W16, W64, W64>>
Address(b, r) ==
  SubSeq(b, W16 + (r - 1) * EntrySize + 1, W16 + (r - 1) * EntrySize + TypedLen)
Entries(b, n) == Rows(b, W16, EntryRow, n)

\* What an entry has to be.
Entry(b, n, r) ==
  /\ HexAddress(Address(b, r), ContractMark)
  /\ Entries(b, n)[r][2] \in 1..9 /\ Entries(b, n)[r][3] \in 1..6

\* The first number of a row is the address the decoder compares.
LEMMA EntryAddress ==
  ASSUME NEW b \in Seq(Byte), NEW n \in Nat, Len(b) = W16 + n * EntrySize, NEW r \in 1..n
  PROVE  Bytes(Entries(b, n)[r][1], TypedLen) = Address(b, r)
<1> DEFINE row == EntryRow
           skip == W16 + (r - 1) * EntrySize
<1>1. row \in Seq(Nat) /\ Len(row) = 5 /\ row[1] = TypedLen /\ Size(row) = EntrySize
  BY RowSizes DEF EntryRow
<1> HIDE DEF row
<1>2. Ends(row)[0] = 0 /\ 1 \in 1..Len(row)
  BY <1>1, EndsAre
<1>3. EntrySize \in Nat /\ W16 \in Nat /\ TypedLen \in Nat /\ TypedLen <= EntrySize
  BY StnpWidths DEF EntrySize
<1>4. /\ (r - 1) * EntrySize \in Nat /\ r * EntrySize \in Nat /\ n * EntrySize \in Nat
      /\ (r - 1) * EntrySize + EntrySize = r * EntrySize
      /\ r * EntrySize <= n * EntrySize
  BY <1>3, RowPlaces
<1>5. skip \in Nat /\ skip + TypedLen <= Len(b)
  <2> DEFINE p == (r - 1) * EntrySize
             q == n * EntrySize
             o == r * EntrySize
  <2>1. p \in Nat /\ q \in Nat /\ o \in Nat /\ p + EntrySize = o /\ o <= q /\ Len(b) = W16 + q /\ skip = W16 + p
    BY <1>4
  <2> HIDE DEF p, q, o, skip
  <2> QED BY <1>3, <2>1
<1>6. Entries(b, n)[r][1] = At(b, W16 + (r - 1) * Size(row) + Ends(row)[1 - 1], row[1])
  BY <1>2 DEF Entries, Rows, row
<1>7. 1 - 1 = 0 /\ skip + 0 = skip
  BY <1>5
<1>8. Entries(b, n)[r][1] = At(b, skip, TypedLen)
  BY <1>1, <1>2, <1>6, <1>7
<1>9. Bytes(At(b, skip, TypedLen), TypedLen) = SubSeq(b, skip + 1, skip + TypedLen)
  BY <1>3, <1>5, AtFacts
<1> QED BY <1>8, <1>9 DEF Address

\* Decoding the list of contracts.
LEMMA ContractsForm ==
  ASSUME NEW b \in Seq(Byte)
  PROVE  Sound("contracts", b) /\ Complete("contracts", b)
<1> DEFINE w == <<W16>>
           row == EntryRow
           count == At(b, 0, W16)
           fits(n) == Len(b) = W16 + n * EntrySize
           good == /\ Len(b) >= W16 /\ count \in 0..ContractsMax /\ fits(count)
                   /\ \A r \in 1..count : Entry(b, count, r)
           r(n) == Reading(Layout(w, row), b, n)
<1>1. /\ w \in Seq(Nat) /\ Len(w) = 1 /\ w[1] = W16 /\ row \in Seq(Nat) /\ Size(row) = EntrySize
      /\ W16 \in Nat /\ EntrySize \in Nat /\ Len(b) \in Nat /\ ContractsMax \in Nat
  BY RowSizes, StnpWidths, StnpAssumption, LenProperties DEF EntryRow, EntrySize, StnpAssumption
<1>2. Size(w) = W16 /\ HeadOf(b, w) = <<count>>
  <2>1. Ends(w)[0] = 0 /\ Ends(w)[1] = Ends(w)[0] + w[1]
    <3>1. 1 \in 1..Len(w) /\ 1 - 1 = 0
      BY <1>1
    <3> HIDE DEF w
    <3> QED BY <1>1, <3>1, EndsAre
  <2>2. Size(w) = W16
    <3> HIDE DEF w
    <3> QED BY <1>1, <2>1 DEF Size
  <2>3. HeadOf(b, w) = <<At(b, Ends(w)[0], W16)>>
    <3> DEFINE e == Ends(w)
    <3>1. HeadOf(b, w) = <<At(b, e[0], W16)>>
      <4> HIDE DEF e
      <4> QED BY <1>1 DEF HeadOf, e
    <3> QED BY <3>1
  <2> QED BY <2>1, <2>2, <2>3
<1>3. LayoutOf("contracts") = Layout(w, row) /\ "contracts" \in Listed
  BY DEF LayoutOf, StnpLayout, StnpKinds, Listed, EntryRow
<1>4. Len(b) >= W16 => count \in Nat
  <2>1. Len(b) >= W16 => 0 + W16 <= Len(b)
    BY <1>1
  <2> QED BY <1>1, <2>1, AtFacts
<1> HIDE DEF w, row, count
<1>5. \A n : /\ Whole(Layout(w, row), b, n) <=> n \in Nat /\ fits(n)
             /\ r(n) = Decoded(<<count>>, Entries(b, n))
             /\ r(n).head[1] = count
             /\ r(n).rows = Entries(b, n)
             /\ n \in Nat => Len(Entries(b, n)) = n
  <2> SUFFICES ASSUME NEW n
               PROVE  /\ Whole(Layout(w, row), b, n) <=> n \in Nat /\ fits(n)
                      /\ r(n) = Decoded(<<count>>, Entries(b, n))
                      /\ r(n).head[1] = count
                      /\ r(n).rows = Entries(b, n)
                      /\ n \in Nat => Len(Entries(b, n)) = n
    OBVIOUS
  <2>1. ReadRows(w, row, b, n)
    BY <1>1, RowsFacts
  <2>2. <<count>>[1] = count
    OBVIOUS
  <2> QED BY <1>1, <1>2, <2>1, <2>2 DEF ReadRows, Entries, row
<1> HIDE DEF r
<1>6. DecodeOf("contracts", b) = IF good THEN Decoded(<<count>>, Entries(b, count)) ELSE Rejected
  <2>1. DecodeOf("contracts", b) = DecodeContracts(b)
    BY DEF DecodeOf, DecodeStnp, StnpKinds
  <2>2. good <=> ~ \/ Len(b) < W16
                   \/ count > ContractsMax
                   \/ Len(b) # W16 + count * EntrySize
                   \/ \E i \in 1..count :
                        \/ ~HexAddress(Address(b, i), ContractMark)
                        \/ Entries(b, count)[i][2] \notin 1..9
                        \/ Entries(b, count)[i][3] \notin 1..6
    <3>1. Len(b) < W16 <=> ~(Len(b) >= W16)
      BY <1>1
    <3>2. CASE Len(b) >= W16
      <4>1. count \in 0..ContractsMax <=> ~(count > ContractsMax)
        BY <1>1, <1>4, <3>2
      <4> QED BY <3>1, <3>2, <4>1, Zenon DEF Entry
    <3>3. CASE ~(Len(b) >= W16)
      BY <3>1, <3>3
    <3> QED BY <3>2, <3>3
  <2> QED BY <2>1, <2>2, Zenon DEF DecodeContracts, Address, Entries, EntryRow, count
<1>7. \A n \in Nat : fits(n) =>
        (Valid(Value("contracts", r(n))) <=>
           count = n /\ n <= ContractsMax /\ \A i \in 1..n : Entry(b, n, i))
  <2> SUFFICES ASSUME NEW n \in Nat, fits(n)
               PROVE  Valid(Value("contracts", r(n))) <=>
                        count = n /\ n <= ContractsMax /\ \A i \in 1..n : Entry(b, n, i)
    OBVIOUS
  <2> DEFINE x == Entries(b, n)
  <2>1. Valid(Value("contracts", r(n))) <=>
          /\ r(n).head[1] = Len(r(n).rows) /\ Len(r(n).rows) <= ContractsMax
          /\ \A i \in 1..Len(r(n).rows) :
               /\ HexAddress(Bytes(r(n).rows[i][1], TypedLen), ContractMark)
               /\ r(n).rows[i][2] \in 1..9 /\ r(n).rows[i][3] \in 1..6
    BY DEF Valid, Value, StnpValid, StnpKinds
  <2>2. r(n).head[1] = count /\ r(n).rows = x /\ Len(x) = n
    BY <1>5
  <2>3. \A i \in 1..n : Bytes(x[i][1], TypedLen) = Address(b, i)
    BY EntryAddress
  <2> HIDE DEF x
  <2>4. \A i \in 1..n :
          Entry(b, n, i) <=> /\ HexAddress(Bytes(x[i][1], TypedLen), ContractMark)
                             /\ x[i][2] \in 1..9 /\ x[i][3] \in 1..6
    BY <2>3 DEF Entry, x
  <2> QED BY <2>1, <2>2, <2>4
<1>8. good => Whole(Layout(w, row), b, count) /\ Valid(Value("contracts", r(count)))
  <2> SUFFICES ASSUME good
               PROVE  Whole(Layout(w, row), b, count) /\ Valid(Value("contracts", r(count)))
    OBVIOUS
  <2>1. count \in Nat /\ count <= ContractsMax
    BY <1>1
  <2> QED BY <1>5, <1>7, <2>1
<1>9. \A n : Whole(Layout(w, row), b, n) /\ Valid(Value("contracts", r(n))) => good /\ n = count
  <2> SUFFICES ASSUME NEW n, Whole(Layout(w, row), b, n), Valid(Value("contracts", r(n)))
               PROVE  good /\ n = count
    OBVIOUS
  <2>1. n \in Nat /\ fits(n)
    BY <1>5
  <2>2. count = n /\ n <= ContractsMax /\ \A i \in 1..n : Entry(b, n, i)
    BY <1>7, <2>1
  <2>3. Len(b) >= W16
    <3>1. n * EntrySize \in Nat
      BY <1>1, <2>1, RowPlaces
    <3> QED BY <1>1, <2>1, <3>1
  <2> QED BY <1>1, <2>1, <2>2, <2>3
<1> HIDE DEF good
<1>10. DecodeOf("contracts", b) = IF good THEN r(count) ELSE Rejected
  BY <1>5, <1>6
<1>11. ListDecoder("contracts", b, good, count)
  BY <1>3, <1>8, <1>9, <1>10 DEF ListDecoder, r
<1> QED BY <1>11, ListForm

\* Every decoder accepts a value the protocol allows, from all its bytes, and
\* refuses nothing that one has.
LEMMA Decoders ==
  ASSUME NEW kind \in StncKinds \cup StnpKinds, NEW b \in Seq(Byte)
  PROVE  Sound(kind, b) /\ Complete(kind, b)
<1>1. kind \in {"header", "info", "context", "template", "accepted", "pending", "submission",
                "contract", "balance", "identity", "contract_address", "wallet",
                "hello", "state", "headers", "block", "peers", "contracts"}
  BY DEF StncKinds, StnpKinds
<1> QED
  BY <1>1, HeaderForm, InfoForm, ContextForm, TemplateForm, AcceptedForm, PendingForm,
     SubmissionForm, ContractForm, BalanceForm, IdentityForm, ContractAddressForm, WalletForm,
     HelloForm, StateForm, HeadersForm, BlockForm, PeersForm, ContractsForm

-----------------------------------------------------------------------------
(* Reading a frame in two steps                                            *)

\* The first bytes of a frame are read as they are in the frame.
LEMMA AtPrefix ==
  ASSUME NEW b \in Seq(Byte), NEW n \in Nat, n <= Len(b), NEW skip \in Nat, NEW width \in Nat,
         skip + width <= n
  PROVE  At(SubSeq(b, 1, n), skip, width) = At(b, skip, width)
<1> DEFINE p == SubSeq(b, 1, n)
           s == SubSeq(p, skip + 1, skip + width)
           t == SubSeq(b, skip + 1, skip + width)
<1>1. p \in Seq(Byte) /\ Len(p) = n /\ \A j \in 1..n : p[j] = b[j]
  <2>1. 0 + n <= Len(b) /\ 0 + 1 = 1 /\ 0 + n = n /\ \A j \in 1..n : 0 + j = j
    OBVIOUS
  <2> QED BY <2>1, SliceFacts
<1> HIDE DEF p
<1>2. s \in Seq(Byte) /\ Len(s) = width /\ \A j \in 1..width : s[j] = p[skip + j]
  BY <1>1, SliceFacts
<1>3. t \in Seq(Byte) /\ Len(t) = width /\ \A j \in 1..width : t[j] = b[skip + j]
  <2>1. skip + width <= Len(b)
    BY LenProperties
  <2> QED BY <2>1, SliceFacts
<1>4. \A j \in 1..width : skip + j \in 1..n
  OBVIOUS
<1> HIDE DEF s, t
<1>5. s = t
  BY <1>1, <1>2, <1>3, <1>4, SeqEqual
<1> QED BY <1>5 DEF At, p, s, t

\* The header of a frame is read from the first bytes as from the whole.
LEMMA HeaderPrefix ==
  ASSUME NEW b \in Seq(Byte), StnpHeaderSize <= Len(b)
  PROVE  LET p == SubSeq(b, 1, StnpHeaderSize)
         IN  /\ Length(p) = Length(b)
             /\ \A type : Begins(p, type) <=> Begins(b, type)
<1> DEFINE n == StnpHeaderSize
           p == SubSeq(b, 1, n)
<1>1. /\ W16 \in Nat /\ W32 \in Nat /\ n \in Nat /\ n = 4 + 2 * W16 + W32 /\ Len(b) \in Nat
      /\ n <= Len(b)
  BY StnpWidths, LenProperties DEF StnpHeaderSize
<1>2. Len(p) = n
  <2>1. 0 + n <= Len(b) /\ 0 + 1 = 1 /\ 0 + n = n
    BY <1>1
  <2> HIDE DEF n
  <2> QED BY <1>1, <2>1, SliceFacts
<1> HIDE DEF n
<1>3. At(p, 0, 4) = At(b, 0, 4)
  <2>1. 0 + 4 <= n
    BY <1>1
  <2> QED BY <1>1, <2>1, AtPrefix
<1>4. At(p, 4, W16) = At(b, 4, W16)
  <2>1. 4 + W16 <= n
    BY <1>1
  <2> QED BY <1>1, <2>1, AtPrefix
<1>5. At(p, 4 + W16, W16) = At(b, 4 + W16, W16)
  <2>1. (4 + W16) + W16 <= n /\ 4 + W16 \in Nat
    BY <1>1
  <2> QED BY <1>1, <2>1, AtPrefix
<1>6. At(p, 4 + 2 * W16, W32) = At(b, 4 + 2 * W16, W32)
  <2>1. (4 + 2 * W16) + W32 <= n /\ 4 + 2 * W16 \in Nat
    BY <1>1
  <2> QED BY <1>1, <2>1, AtPrefix
<1> HIDE DEF p
<1>7. Length(p) = Length(b)
  BY <1>6 DEF Length
<1>8. ASSUME NEW type PROVE Begins(p, type) <=> Begins(b, type)
  <2>1. Len(p) >= StnpHeaderSize /\ Len(b) >= StnpHeaderSize
    BY <1>1, <1>2 DEF n
  <2> QED BY <1>3, <1>4, <1>5, <2>1 DEF Begins
<1> QED BY <1>7, <1>8 DEF p, n

\* So is what it announces.
LEMMA FollowsPrefix ==
  ASSUME NEW kind \in Framed, NEW b \in Seq(Byte), StnpHeaderSize <= Len(b)
  PROVE  Follows(kind, SubSeq(b, 1, StnpHeaderSize)) = Follows(kind, b)
<1> DEFINE p == SubSeq(b, 1, StnpHeaderSize)
<1>1. Length(p) = Length(b) /\ \A type : Begins(p, type) <=> Begins(b, type)
  BY HeaderPrefix
<1> HIDE DEF p
<1>2. HeadersFollow(p) = HeadersFollow(b)
  BY <1>1 DEF HeadersFollow
<1>3. BlockFollows(p) = BlockFollows(b)
  BY <1>1 DEF BlockFollows
<1>4. PeersFollow(p) = PeersFollow(b)
  BY <1>1 DEF PeersFollow
<1>5. Follows(kind, p) = Follows(kind, b)
  BY <1>2, <1>3, <1>4 DEF Follows
<1> QED BY <1>5 DEF p

\* The header of an accepted frame has announced all of it.
LEMMA FollowsAccepted ==
  ASSUME NEW kind \in Framed, NEW b \in Seq(Byte), DecodeOf(kind, b).ok = TRUE
  PROVE  Follows(kind, b) # NoLength /\ Len(b) = StnpHeaderSize + Follows(kind, b)
<1>1. Rejected.ok = FALSE
  BY DEF Rejected
<1>2. kind \in {"hello", "state", "headers", "block", "peers"} /\ kind \in StnpKinds
  BY DEF Framed, StnpKinds
<1>3. DecodeOf(kind, b) = DecodeStnp(kind, b)
  BY <1>2 DEF DecodeOf
<1>4. CASE kind = "hello"
  <2>1. DecodeOf(kind, b) = DecodeHello(b) /\ Follows(kind, b) = HelloSize
    BY <1>3, <1>4 DEF DecodeStnp, Follows
  <2>2. Len(b) = StnpHeaderSize + HelloSize
    BY <1>1, <2>1 DEF DecodeHello
  <2>3. HelloSize \in Nat
    BY StnpWidths DEF HelloSize
  <2> QED BY <2>1, <2>2, <2>3 DEF NoLength
<1>5. CASE kind = "state"
  <2>1. DecodeOf(kind, b) = DecodeState(b) /\ Follows(kind, b) = StateSize
    BY <1>3, <1>5 DEF DecodeStnp, Follows
  <2>2. Len(b) = StnpHeaderSize + StateSize
    BY <1>1, <2>1 DEF DecodeState
  <2>3. StateSize \in Nat
    BY StnpWidths DEF StateSize
  <2> QED BY <2>1, <2>2, <2>3 DEF NoLength
<1>6. CASE kind = "headers"
  <2>1. DecodeOf(kind, b) = DecodeHeaders(b) /\ Follows(kind, b) = HeadersFollow(b)
    BY <1>3, <1>6 DEF DecodeStnp, Follows
  <2> QED BY <1>1, <2>1 DEF DecodeHeaders
<1>7. CASE kind = "block"
  <2>1. DecodeOf(kind, b) = DecodeBlock(b) /\ Follows(kind, b) = BlockFollows(b)
    BY <1>3, <1>7 DEF DecodeStnp, Follows
  <2> QED BY <1>1, <2>1 DEF DecodeBlock
<1>8. CASE kind = "peers"
  <2>1. DecodeOf(kind, b) = DecodePeers(b) /\ Follows(kind, b) = PeersFollow(b)
    BY <1>3, <1>8 DEF DecodeStnp, Follows
  <2> QED BY <1>1, <2>1 DEF DecodePeers
<1> QED BY <1>2, <1>4, <1>5, <1>6, <1>7, <1>8

\* No header announces more than the caller has room for.
LEMMA FollowsFit ==
  ASSUME NEW kind \in Framed, NEW b
  PROVE  Follows(kind, b) = NoLength \/ Follows(kind, b) \in 0..PayloadMax(kind)
<1>1. kind \in {"hello", "state", "headers", "block", "peers"}
  BY DEF Framed, StnpKinds
<1>2. W16 \in Nat /\ W32 \in Nat /\ HelloSize \in Nat /\ StateSize \in Nat
  BY StnpWidths DEF HelloSize, StateSize
<1>3. CASE kind = "hello"
  BY <1>2, <1>3 DEF Follows, PayloadMax
<1>4. CASE kind = "state"
  BY <1>2, <1>4 DEF Follows, PayloadMax
<1>5. CASE kind = "headers"
  <2>1. Follows(kind, b) = HeadersFollow(b) /\ PayloadMax(kind) = HeadersPayloadMax
    BY <1>5 DEF Follows, PayloadMax
  <2>2. HeadersFollow(b) = NoLength \/ HeadersFollow(b) \in 2 * W32..HeadersPayloadMax
    BY DEF HeadersFollow
  <2> QED BY <1>2, <2>1, <2>2
<1>6. CASE kind = "block"
  <2>1. Follows(kind, b) = BlockFollows(b) /\ PayloadMax(kind) = BlockPayloadMax
    BY <1>6 DEF Follows, PayloadMax
  <2>2. BlockFollows(b) = NoLength \/ BlockFollows(b) \in W32 + 1..BlockPayloadMax
    BY DEF BlockFollows
  <2> QED BY <1>2, <2>1, <2>2
<1>7. CASE kind = "peers"
  <2>1. Follows(kind, b) = PeersFollow(b) /\ PayloadMax(kind) = PeersPayloadMax
    BY <1>7 DEF Follows, PayloadMax
  <2>2. PeersFollow(b) = NoLength \/ PeersFollow(b) \in W16..PeersPayloadMax
    BY DEF PeersFollow
  <2> QED BY <1>2, <2>1, <2>2
<1> QED BY <1>1, <1>3, <1>4, <1>5, <1>6, <1>7

\* The caller's room is a number of bytes.
LEMMA PayloadRoom == \A kind \in Framed : PayloadMax(kind) \in Nat
<1> SUFFICES ASSUME NEW kind \in Framed PROVE PayloadMax(kind) \in Nat
  OBVIOUS
<1>1. /\ HelloSize \in Nat /\ StateSize \in Nat /\ W16 \in Nat /\ W32 \in Nat
      /\ HeadersMax \in Nat /\ PeersMax \in Nat /\ HeaderWire \in Nat /\ IpSize \in Nat
      /\ BlockMax \in Nat
  BY StnpWidths, StnpAssumption, WireAssumption
     DEF HelloSize, StateSize, StnpAssumption, WireAssumption
<1>2. HeaderWire * HeadersMax \in Nat /\ (IpSize + W16) * PeersMax \in Nat
  BY <1>1
<1>3. HeadersPayloadMax \in Nat /\ BlockPayloadMax \in Nat /\ PeersPayloadMax \in Nat
  BY <1>1, <1>2 DEF HeadersPayloadMax, BlockPayloadMax, PeersPayloadMax
<1> QED BY <1>1, <1>3 DEF PayloadMax

\* Every kind has a layout.
LEMMA Layouts == \A kind \in StncKinds \cup StnpKinds : IsLayout(LayoutOf(kind))
<1>1. StnpHeader \in Seq(Nat) /\ <<1>> \in Seq(Nat)
  BY StnpWidths DEF StnpHeader
<1>2. \A h \in Seq(Nat), r \in Seq(Nat) : IsLayout(Layout(h, r)) /\ IsLayout(Fixed(h))
  <2>1. \A h, r : Layout(h, r).head = h /\ Layout(h, r).row = r
    BY DEF Layout
  <2>2. ASSUME NEW h \in Seq(Nat), NEW r \in Seq(Nat) PROVE IsLayout(Layout(h, r))
    BY <2>1 DEF IsLayout
  <2>3. ASSUME NEW h \in Seq(Nat) PROVE IsLayout(Fixed(h))
    <3>1. Fixed(h) = Layout(h, <<1>>)
      BY DEF Fixed
    <3> QED BY <1>1, <2>2, <3>1
  <2> QED BY <2>2, <2>3
<1>3. \A kind \in StncKinds : IsLayout(StncLayout(kind))
  <2> SUFFICES ASSUME NEW kind \in StncKinds PROVE IsLayout(StncLayout(kind))
    OBVIOUS
  <2>1. /\ <<4, W16, W16, W16, W16, W64, W32>> \in Seq(Nat)
        /\ <<IdSize, IdSize, W64, IdSize, WorkSize, IdSize, W32, W32>> \in Seq(Nat)
        /\ <<IdSize, IdSize, W64, W32>> \in Seq(Nat)
        /\ <<IdSize, IdSize, W32>> \in Seq(Nat)
        /\ <<IdSize, W64, WorkSize>> \in Seq(Nat)
        /\ <<W32, W32, W32, W32>> \in Seq(Nat)
        /\ <<W16, W16, IdSize>> \in Seq(Nat)
        /\ <<W16, W16, W64, W64, W16, W32>> \in Seq(Nat)
        /\ <<W64>> \in Seq(Nat) /\ <<>> \in Seq(Nat)
    BY StnpWidths
  <2> QED BY <1>2, <2>1, Zenon DEF StncLayout, HeaderLayout
<1>4. \A kind \in StnpKinds : IsLayout(StnpLayout(kind))
  <2> SUFFICES ASSUME NEW kind \in StnpKinds PROVE IsLayout(StnpLayout(kind))
    OBVIOUS
  <2>1. \A t \in Seq(Nat) : StnpHeader \o t \in Seq(Nat)
    BY <1>1, ConcatProperties
  <2>2. /\ <<IdSize, IdSize, W32>> \in Seq(Nat) /\ <<W64, IdSize, WorkSize, W32>> \in Seq(Nat)
        /\ <<W32, W32>> \in Seq(Nat) /\ <<W32>> \in Seq(Nat) /\ <<W16>> \in Seq(Nat)
        /\ <<HeaderWire>> \in Seq(Nat) /\ <<IpSize, W16>> \in Seq(Nat)
        /\ <<TypedLen, W16, W16, W64, W64>> \in Seq(Nat)
    BY StnpWidths
  <2> QED BY <1>2, <2>1, <2>2, Zenon DEF StnpLayout
<1> QED BY <1>3, <1>4 DEF LayoutOf

-----------------------------------------------------------------------------
(* The encoders                                                            *)

\* A frame that the buffer holds.
InBuffer(frame, capacity) == frame \in Seq(Byte) /\ Len(frame) <= capacity

\* An encoder that refuses writes nothing.
LEMMA RefusedFits == \A capacity \in Nat : InBuffer(Refused, capacity)
<1>1. Refused \in Seq(Byte) /\ Len(Refused) = 0
  BY DEF Refused
<1> QED BY <1>1 DEF InBuffer

\* A packed part is bytes, as many as its size.
LEMMA PackedType ==
  ASSUME NEW widths \in Seq(Nat), NEW numbers \in Seq(Nat), Len(numbers) = Len(widths)
  PROVE  Packed(widths, numbers) \in Seq(Byte) /\ Len(Packed(widths, numbers)) = Size(widths)
<1>1. AreNumbers(widths, numbers)
  BY DEF AreNumbers
<1>2. Places(widths, Ends(widths))
  BY EndsFacts
<1> QED BY <1>1, <1>2, PackedFacts DEF Size

\* The header of a request has HeaderSize bytes.
LEMMA HeaderSizes ==
  /\ HeaderLayout.head \in Seq(Nat) /\ Len(HeaderLayout.head) = 7
  /\ Size(HeaderLayout.head) = HeaderSize /\ HeaderSize \in Nat
<1> DEFINE w == <<4, W16, W16, W16, W16, W64, W32>>
<1>1. HeaderLayout.head = w
  BY DEF HeaderLayout, Fixed, Layout
<1>2. w \in Seq(Nat) /\ Len(w) = 7
      /\ w[1] = 4 /\ w[2] = W16 /\ w[3] = W16 /\ w[4] = W16 /\ w[5] = W16 /\ w[6] = W64 /\ w[7] = W32
  BY Widths
<1> HIDE DEF w
<1>3. Sums(w, Ends(w)) /\ Size(w) = Ends(w)[Len(w)]
  BY <1>2, FirstEnds DEF Size
<1>4. Size(w) = w[1] + w[2] + w[3] + w[4] + w[5] + w[6] + w[7]
  BY <1>2, <1>3 DEF Sums
<1>5. Size(w) = HeaderSize /\ HeaderSize \in Nat
  BY <1>2, <1>4, Widths DEF HeaderSize
<1> QED BY <1>1, <1>2, <1>5

\* stnc_stnc_encode writes a header and the payload, or nothing.
LEMMA EncodeFits ==
  ASSUME NEW method \in Methods, NEW id \in Nat, NEW payload \in Seq(Byte), NEW capacity \in Nat
  PROVE  InBuffer(Encode(method, id, payload, capacity), capacity)
<1> DEFINE numbers == <<StncMagic, Version, Request, Method[method], OK, id, Len(payload)>>
           head == Packed(HeaderLayout.head, numbers)
           refused == \/ Len(payload) > U32Max
                      \/ capacity < HeaderSize
                      \/ Len(payload) > capacity - HeaderSize
<1>1. Encode(method, id, payload, capacity) = IF refused THEN Refused ELSE head \o payload
  BY DEF Encode
<1>2. Method[method] \in Nat /\ StncMagic \in Nat /\ Version \in Nat /\ Len(payload) \in Nat
  BY StncAssumption, WireAssumption, LenProperties DEF StncAssumption, WireAssumption
<1>3. numbers \in Seq(Nat) /\ Len(numbers) = 7
  BY <1>2 DEF Request, OK
<1> HIDE DEF numbers
<1>4. head \in Seq(Byte) /\ Len(head) = HeaderSize
  BY <1>3, HeaderSizes, PackedType
<1> HIDE DEF head
<1>5. CASE refused
  BY <1>1, <1>5, RefusedFits
<1>6. CASE ~refused
  <2>1. head \o payload \in Seq(Byte) /\ Len(head \o payload) = HeaderSize + Len(payload)
    BY <1>4, ConcatType
  <2>2. HeaderSize + Len(payload) <= capacity
    BY <1>2, <1>6, HeaderSizes
  <2> QED BY <1>1, <1>6, <2>1, <2>2 DEF InBuffer
<1> QED BY <1>5, <1>6

\* A list of blocks, each behind its length, is bytes.
LEMMA ListType ==
  ASSUME NEW blocks \in Seq(Seq(Byte))
  PROVE  List(blocks) \in Seq(Byte)
<1> DEFINE seqs == [i \in 1..Len(blocks) |-> Bytes(Len(blocks[i]), W32) \o blocks[i]]
<1>1. ASSUME NEW i \in 1..Len(blocks)
      PROVE  Bytes(Len(blocks[i]), W32) \o blocks[i] \in Seq(Byte)
  <2>1. blocks[i] \in Seq(Byte)
    OBVIOUS
  <2>2. Len(blocks[i]) \in Nat /\ W32 \in Nat
    BY <2>1, LenProperties, Widths
  <2>3. Bytes(Len(blocks[i]), W32) \in Seq(Byte)
    BY <2>2, BytesType
  <2> QED BY <2>1, <2>3, ConcatType
<1>2. seqs \in [1..Len(blocks) -> Seq(Byte)] /\ Len(blocks) \in Nat
  BY <1>1, LenProperties
<1>3. seqs \in ByteSeqs
  <2> DEFINE n == Len(blocks)
             S == Seq(Byte)
  <2>1. seqs \in [1..n -> S] /\ n \in Nat
    BY <1>2
  <2> HIDE DEF seqs, n, S
  <2>2. seqs \in Seq(S)
    BY <2>1
  <2> QED BY <2>2 DEF ByteSeqs, S
<1> QED BY <1>3, FlattenType DEF List

\* The same for an encoder of a list of blocks.
LEMMA EncodeListFits ==
  ASSUME NEW method \in Methods, NEW id \in Nat, NEW numbers \in Seq(Nat),
         NEW blocks \in Seq(Seq(Byte)), NEW capacity \in Nat
  PROVE  InBuffer(EncodeList(method, id, numbers, blocks, capacity), capacity)
<1> DEFINE widths == [i \in 1..Len(numbers) |-> W32]
           head == Packed(widths, numbers)
<1>1. widths \in Seq(Nat) /\ Len(widths) = Len(numbers)
  BY Widths, LenProperties
<1> HIDE DEF widths
<1>2. head \in Seq(Byte)
  BY <1>1, PackedType
<1>3. head \o List(blocks) \in Seq(Byte)
  BY <1>2, ListType, ConcatType
<1> HIDE DEF head
<1>4. InBuffer(Encode(method, id, head \o List(blocks), capacity), capacity)
  BY <1>3, EncodeFits
<1> QED BY <1>4, RefusedFits, Zenon DEF EncodeList, head, widths

\* A call has the types of an encoder's parameters.
IsCall(c) ==
  /\ c.op \in StncOps \cup StnpOps /\ c.id \in Nat /\ c.method \in STRING /\ c.data \in Seq(Byte)
  /\ c.blocks \in Seq(Seq(Byte)) /\ c.identity \in Seq(Byte)
  /\ c.parent \in Nat /\ c.work \in Nat /\ c.type \in Nat /\ c.number \in Nat /\ c.count \in Nat
  /\ c.op = "bare" => c.method \in {"state", "get_peers"}
  /\ Fits(c.id, W64) /\ Fits(c.parent, IdSize) /\ Fits(c.work, IdSize)
  /\ Fits(c.type, W16) /\ Fits(c.count, W32)
  /\ Fits(c.number, IF c.op = "height" THEN W64 ELSE W32)

\* Every call is one.
LEMMA CallTypes == \A c \in Calls : IsCall(c)
BY CallsAssumption DEF CallsAssumption, IsCall

\* The methods the encoders name.
LEMMA MethodNames ==
  {"mining_context", "mining_template", "check_work_base", "submit_work", "block_height",
   "derive_address", "balance", "contract_state", "submit_transaction",
   "submit_block_evidence", "submit_history_evidence", "submit_suffix_evidence",
   "suffix_stage_begin", "suffix_stage_append", "suffix_stage_commit",
   "suffix_stage_abort"} \subseteq Methods
BY DEF Methods

\* No encoder of STNC writes more than its buffer has.
LEMMA StncFits ==
  ASSUME NEW c, IsCall(c), NEW capacity \in Nat
  PROVE  InBuffer(EncodeStnc(c, capacity), capacity)
<1>1. /\ c.id \in Nat /\ c.data \in Seq(Byte)
      /\ c.blocks \in Seq(Seq(Byte)) /\ c.identity \in Seq(Byte)
      /\ c.parent \in Nat /\ c.work \in Nat /\ c.type \in Nat /\ c.number \in Nat /\ c.count \in Nat
  BY DEF IsCall
<1>2. Len(c.data) \in Nat /\ Len(c.blocks) \in Nat
  BY <1>1, LenProperties
<1>3. <<>> \in Seq(Byte)
  OBVIOUS
<1>4. InBuffer(EncodeEmpty(c, capacity), capacity)
  <2>1. CASE c.method \in {"mining_context", "mining_template"}
    <3>1. InBuffer(Encode(c.method, c.id, <<>>, capacity), capacity)
      BY <1>1, <1>3, <2>1, MethodNames, EncodeFits
    <3> QED BY <2>1, <3>1 DEF EncodeEmpty
  <2>2. CASE c.method \notin {"mining_context", "mining_template"}
    BY <2>2, RefusedFits DEF EncodeEmpty
  <2> QED BY <2>1, <2>2
<1>5. InBuffer(EncodeWorkBase(c, capacity), capacity)
  BY <1>1, MethodNames, EncodeFits DEF EncodeWorkBase
<1>6. InBuffer(EncodeSubmitWork(c, capacity), capacity)
  <2> DEFINE prefix == Packed(<<IdSize, IdSize, W32>>, <<c.parent, c.work, Len(c.data)>>)
             payload == prefix \o c.identity \o c.data
  <2>1. prefix \in Seq(Byte)
    <3>1. /\ <<IdSize, IdSize, W32>> \in Seq(Nat) /\ <<c.parent, c.work, Len(c.data)>> \in Seq(Nat)
          /\ Len(<<c.parent, c.work, Len(c.data)>>) = Len(<<IdSize, IdSize, W32>>)
      BY <1>1, <1>2, Widths
    <3> QED BY <3>1, PackedType
  <2> HIDE DEF prefix
  <2>2. payload \in Seq(Byte)
    <3>1. prefix \o c.identity \in Seq(Byte)
      BY <1>1, <2>1, ConcatType
    <3> QED BY <1>1, <3>1, ConcatType
  <2> HIDE DEF payload
  <2>3. InBuffer(Encode("submit_work", c.id, payload, capacity), capacity)
    BY <1>1, <2>2, MethodNames, EncodeFits
  <2> QED BY <2>3, RefusedFits, Zenon DEF EncodeSubmitWork, payload, prefix
<1>7. InBuffer(EncodeBlockHeight(c, capacity), capacity)
  <2>1. Bytes(c.number, W64) \in Seq(Byte)
    BY <1>1, Widths, BytesType
  <2> QED BY <1>1, <2>1, MethodNames, EncodeFits DEF EncodeBlockHeight
<1>8. InBuffer(EncodeDerive(c, capacity), capacity)
  <2> DEFINE prefix == Packed(<<W16, W32>>, <<c.type, Len(c.data)>>)
             payload == prefix \o c.data
  <2>1. prefix \in Seq(Byte)
    <3>1. /\ <<W16, W32>> \in Seq(Nat) /\ <<c.type, Len(c.data)>> \in Seq(Nat)
          /\ Len(<<c.type, Len(c.data)>>) = Len(<<W16, W32>>)
      BY <1>1, <1>2, Widths
    <3> QED BY <3>1, PackedType
  <2> HIDE DEF prefix
  <2>2. payload \in Seq(Byte)
    BY <1>1, <2>1, ConcatType
  <2> HIDE DEF payload
  <2>3. InBuffer(Encode("derive_address", c.id, payload, capacity), capacity)
    BY <1>1, <2>2, MethodNames, EncodeFits
  <2> QED BY <2>3, RefusedFits, Zenon DEF EncodeDerive, payload, prefix
<1>9. InBuffer(EncodeAddressQuery(c, capacity), capacity)
  <2>1. CASE c.method \in {"balance", "contract_state"}
    <3>1. InBuffer(Encode(c.method, c.id, c.data, capacity), capacity)
      BY <1>1, <2>1, MethodNames, EncodeFits
    <3> QED BY <3>1, RefusedFits, Zenon DEF EncodeAddressQuery
  <2>2. CASE c.method \notin {"balance", "contract_state"}
    BY <2>2, RefusedFits DEF EncodeAddressQuery
  <2> QED BY <2>1, <2>2
<1>10. InBuffer(EncodeTransaction(c, capacity), capacity)
  <2>1. InBuffer(Encode("submit_transaction", c.id, c.data, capacity), capacity)
    BY <1>1, MethodNames, EncodeFits
  <2> QED BY <2>1, RefusedFits, Zenon DEF EncodeTransaction
<1>11. InBuffer(EncodeBlockEvidence(c, capacity), capacity)
  <2>1. InBuffer(Encode("submit_block_evidence", c.id, c.data, capacity), capacity)
    BY <1>1, MethodNames, EncodeFits
  <2> QED BY <2>1, RefusedFits, Zenon DEF EncodeBlockEvidence
<1>12. <<Len(c.blocks)>> \in Seq(Nat) /\ <<c.number, Len(c.blocks)>> \in Seq(Nat)
  BY <1>1, <1>2
<1>13. InBuffer(EncodeHistory(c, capacity), capacity)
  BY <1>1, <1>12, MethodNames, EncodeListFits DEF EncodeHistory
<1>14. InBuffer(EncodeSuffix(c, capacity), capacity)
  <2>1. InBuffer(EncodeList("submit_suffix_evidence", c.id, <<c.number, Len(c.blocks)>>, c.blocks, capacity), capacity)
    BY <1>1, <1>12, MethodNames, EncodeListFits
  <2> QED BY <2>1, RefusedFits, Zenon DEF EncodeSuffix
<1>15. InBuffer(EncodeStageAppend(c, capacity), capacity)
  BY <1>1, <1>12, MethodNames, EncodeListFits DEF EncodeStageAppend
<1>16. InBuffer(EncodeStageBegin(c, capacity), capacity)
  <2>1. Packed(<<W32, W32>>, <<c.number, c.count>>) \in Seq(Byte)
    <3>1. /\ <<W32, W32>> \in Seq(Nat) /\ <<c.number, c.count>> \in Seq(Nat)
          /\ Len(<<c.number, c.count>>) = Len(<<W32, W32>>)
      BY <1>1, Widths
    <3> QED BY <3>1, PackedType
  <2>2. InBuffer(Encode("suffix_stage_begin", c.id, Packed(<<W32, W32>>, <<c.number, c.count>>), capacity), capacity)
    BY <1>1, <2>1, MethodNames, EncodeFits
  <2> QED BY <2>2, RefusedFits, Zenon DEF EncodeStageBegin
<1>17. InBuffer(EncodeStageControl(c, capacity), capacity)
  <2>1. CASE c.method \in {"suffix_stage_commit", "suffix_stage_abort"}
    <3>1. InBuffer(Encode(c.method, c.id, <<>>, capacity), capacity)
      BY <1>1, <1>3, <2>1, MethodNames, EncodeFits
    <3> QED BY <2>1, <3>1 DEF EncodeStageControl
  <2>2. CASE c.method \notin {"suffix_stage_commit", "suffix_stage_abort"}
    BY <2>2, RefusedFits DEF EncodeStageControl
  <2> QED BY <2>1, <2>2
<1> QED
  BY <1>4, <1>5, <1>6, <1>7, <1>8, <1>9, <1>10, <1>11, <1>13, <1>14, <1>15, <1>16, <1>17
     DEF EncodeStnc

\* A frame of the peer protocol is written when the buffer has room for it.
LEMMA StnpFrameFits ==
  ASSUME NEW type, Type[type] \in Nat, NEW numbers \in Seq(Nat), NEW widths \in Seq(Nat),
         Len(numbers) = Len(widths), NEW capacity \in Nat
  PROVE  InBuffer(StnpFrame(type, numbers, widths, capacity), capacity)
<1> DEFINE length == Len(Packed(widths, numbers))
           h == <<StnpMagic, Version, Type[type], length>>
           frame == Packed(StnpHeader \o widths, h \o numbers)
<1>1. length \in Nat
  BY PackedType, LenProperties
<1>2. StnpMagic \in Nat /\ Version \in Nat
  BY StnpAssumption, WireAssumption DEF StnpAssumption, WireAssumption
<1> HIDE DEF length
<1>3. h \in Seq(Nat) /\ Len(h) = 4 /\ StnpHeader \in Seq(Nat) /\ Len(StnpHeader) = 4
  BY <1>1, <1>2, Widths DEF StnpHeader
<1> HIDE DEF h
<1>4. /\ h \o numbers \in Seq(Nat) /\ StnpHeader \o widths \in Seq(Nat)
      /\ Len(h \o numbers) = Len(StnpHeader \o widths)
  <2>1. \A s \in Seq(Nat), t \in Seq(Nat) : s \o t \in Seq(Nat) /\ Len(s \o t) = Len(s) + Len(t)
    BY ConcatProperties
  <2>2. h \o numbers \in Seq(Nat) /\ Len(h \o numbers) = 4 + Len(numbers)
    <3>1. h \o numbers \in Seq(Nat) /\ Len(h \o numbers) = Len(h) + Len(numbers)
      BY <1>3, <2>1, Zenon
    <3> QED BY <1>3, <3>1, Zenon
  <2>3. StnpHeader \o widths \in Seq(Nat) /\ Len(StnpHeader \o widths) = 4 + Len(widths)
    BY <1>3, <2>1
  <2> QED BY <2>2, <2>3
<1>5. frame \in Seq(Byte)
  BY <1>4, PackedType
<1>6. StnpFrame(type, numbers, widths, capacity) = IF capacity < Len(frame) THEN Refused ELSE frame
  BY DEF StnpFrame, h, length
<1> HIDE DEF frame
<1>7. Len(frame) \in Nat
  BY <1>5, LenProperties
<1> QED BY <1>5, <1>6, <1>7, RefusedFits DEF InBuffer

\* No encoder of STNP writes more than its buffer has.
LEMMA StnpFits ==
  ASSUME NEW c, IsCall(c), c.op \in StnpOps, NEW capacity \in Nat
  PROVE  InBuffer(EncodeStnp(c, capacity), capacity)
<1>1. c.parent \in Nat /\ c.work \in Nat /\ c.number \in Nat /\ c.count \in Nat
      /\ (c.op = "bare" => c.method \in {"state", "get_peers"})
  BY DEF IsCall
<1>2. CASE c.op = "hello"
  <2>1. <<c.parent, c.work, c.number>> \in Seq(Nat) /\ <<IdSize, IdSize, W32>> \in Seq(Nat)
        /\ Len(<<c.parent, c.work, c.number>>) = Len(<<IdSize, IdSize, W32>>)
        /\ Type["hello"] \in Nat
    BY <1>1, Widths DEF Type
  <2> QED BY <1>2, <2>1, StnpFrameFits DEF EncodeStnp, EncodeHello
<1>3. CASE c.op = "get_headers"
  <2>1. <<c.number, c.count>> \in Seq(Nat) /\ <<W32, W32>> \in Seq(Nat)
        /\ Len(<<c.number, c.count>>) = Len(<<W32, W32>>)
        /\ Type["get_headers"] \in Nat
    BY <1>1, Widths DEF Type
  <2>2. InBuffer(StnpFrame("get_headers", <<c.number, c.count>>, <<W32, W32>>, capacity), capacity)
    BY <2>1, StnpFrameFits
  <2> QED BY <1>3, <2>2, RefusedFits DEF EncodeStnp, EncodeGetHeaders
<1>4. CASE c.op = "get_block"
  <2>1. <<c.number>> \in Seq(Nat) /\ <<W32>> \in Seq(Nat) /\ Len(<<c.number>>) = Len(<<W32>>)
        /\ Type["get_block"] \in Nat
    BY <1>1, Widths DEF Type
  <2> QED BY <1>4, <2>1, StnpFrameFits DEF EncodeStnp, EncodeGetBlock
<1>5. CASE c.op = "bare"
  <2>1. <<>> \in Seq(Nat) /\ Len(<<>>) = Len(<<>>)
    OBVIOUS
  <2>2. Type[c.method] \in Nat
    BY <1>1, <1>5 DEF Type
  <2> QED BY <1>5, <2>1, <2>2, StnpFrameFits DEF EncodeStnp, EncodeBare
<1> QED BY <1>2, <1>3, <1>4, <1>5 DEF StnpOps

\* Every encoder writes bytes, and no more of them than its buffer has.
LEMMA FrameFits ==
  ASSUME NEW c \in Calls, NEW capacity \in Capacities
  PROVE  InBuffer(Frame(c, capacity), capacity)
<1>1. IsCall(c) /\ capacity \in Nat
  BY CallTypes, BufferAssumption DEF BufferAssumption
<1> QED BY <1>1, StncFits, StnpFits DEF Frame

-----------------------------------------------------------------------------
(* What a frame says: the encoders write no two calls alike                 *)

\* One sequence of bytes begins another.
Starts(f, g) == Len(f) <= Len(g) /\ \A j \in 1..Len(f) : f[j] = g[j]

\* That is what a prefix is.
LEMMA PrefixStarts ==
  ASSUME NEW f \in Seq(Byte), NEW g \in Seq(Byte), IsPrefix(f, g)
  PROVE  Starts(f, g)
<1> DEFINE n == Len(f)
<1>1. n \in Nat /\ n <= Len(g) /\ SubSeq(f, 1, n) = SubSeq(g, 1, n)
  BY LenProperties DEF IsPrefix
<1>2. 0 + n <= Len(f) /\ 0 + n <= Len(g) /\ 0 + 1 = 1 /\ 0 + n = n /\ \A j \in 1..n : 0 + j = j
  BY <1>1, LenProperties
<1> HIDE DEF n
<1>3. \A j \in 1..n : SubSeq(f, 1, n)[j] = f[j]
  BY <1>1, <1>2, SliceFacts
<1>4. \A j \in 1..n : SubSeq(g, 1, n)[j] = g[j]
  BY <1>1, <1>2, SliceFacts
<1> QED BY <1>1, <1>3, <1>4 DEF Starts, n

\* A number is the same in both, if it is in the shorter one.
LEMMA AtStarts ==
  ASSUME NEW f \in Seq(Byte), NEW g \in Seq(Byte), Starts(f, g),
         NEW skip \in Nat, NEW width \in Nat, skip + width <= Len(f)
  PROVE  At(f, skip, width) = At(g, skip, width)
<1> DEFINE s == SubSeq(f, skip + 1, skip + width)
           t == SubSeq(g, skip + 1, skip + width)
<1>1. skip + width <= Len(g) /\ \A j \in 1..Len(f) : f[j] = g[j]
  BY LenProperties DEF Starts
<1>2. s \in Seq(Byte) /\ Len(s) = width /\ \A j \in 1..width : s[j] = f[skip + j]
  BY SliceFacts
<1>3. t \in Seq(Byte) /\ Len(t) = width /\ \A j \in 1..width : t[j] = g[skip + j]
  BY <1>1, SliceFacts
<1>4. \A j \in 1..width : skip + j \in 1..Len(f)
  BY LenProperties
<1> HIDE DEF s, t
<1>5. s = t
  BY <1>1, <1>2, <1>3, <1>4, SeqEqual
<1> QED BY <1>5 DEF At, s, t

\* A part and what is behind it.
Led(f, widths, numbers, rest) ==
  /\ widths \in Seq(Nat) /\ AreNumbers(widths, numbers) /\ rest \in Seq(Byte)
  /\ f = Packed(widths, numbers) \o rest

\* Where the numbers and the rest are then.
InPlace(f, widths, numbers, rest) ==
  /\ f \in Seq(Byte) /\ Size(widths) \in Nat /\ Len(f) = Size(widths) + Len(rest)
  /\ \A k \in 1..Len(widths) :
       /\ Ends(widths)[k - 1] \in Nat /\ widths[k] \in Nat
       /\ Ends(widths)[k - 1] + widths[k] <= Size(widths)
       /\ Fits(numbers[k], widths[k]) => At(f, Ends(widths)[k - 1], widths[k]) = numbers[k]
  /\ \A j \in 1..Len(rest) : f[Size(widths) + j] = rest[j]

\* They are there.
LEMMA LedFacts ==
  ASSUME NEW f, NEW widths, NEW numbers, NEW rest, Led(f, widths, numbers, rest)
  PROVE  InPlace(f, widths, numbers, rest)
<1> DEFINE e == Ends(widths)
           s == Size(widths)
           p == Packed(widths, numbers)
<1>1. /\ widths \in Seq(Nat) /\ AreNumbers(widths, numbers) /\ rest \in Seq(Byte)
      /\ f = p \o rest
  BY DEF Led
<1>2. Places(widths, e) /\ s = Span(widths, e) /\ s \in Nat
  BY <1>1, SizeType
<1>3. /\ p \in Seq(Byte) /\ Len(p) = e[Len(widths)]
      /\ \A k \in 1..Len(widths) : \A j \in 1..widths[k] : p[e[k - 1] + j] = Bytes(numbers[k], widths[k])[j]
  BY <1>1, <1>2, PackedFacts
<1>4. Len(p) = s
  BY <1>2, <1>3 DEF Span
<1> HIDE DEF p, e, s
<1>5. /\ f \in Seq(Byte) /\ Len(f) = s + Len(rest) /\ Len(rest) \in Nat
      /\ \A j \in 1..s + Len(rest) : f[j] = IF j <= s THEN p[j] ELSE rest[j - s]
  BY <1>1, <1>3, <1>4, ConcatProperties, LenProperties
<1>6. ASSUME NEW k \in 1..Len(widths)
      PROVE  /\ e[k - 1] \in Nat /\ widths[k] \in Nat /\ e[k - 1] + widths[k] <= s
             /\ Fits(numbers[k], widths[k]) => At(f, e[k - 1], widths[k]) = numbers[k]
  <2> DEFINE x == e[k - 1]
             w == widths[k]
             v == numbers[k]
  <2>1. x \in Nat /\ w \in Nat /\ x + w <= s
    BY <1>1, <1>2, PlacesFacts
  <2>2. v \in Nat
    BY <1>1 DEF AreNumbers
  <2>3. \A j \in 1..w : p[x + j] = Bytes(v, w)[j]
    BY <1>3
  <2> HIDE DEF x, w, v
  <2>4. ASSUME NEW j \in 1..w PROVE f[x + j] = Bytes(v, w)[j]
    <3>1. x + j \in 1..s + Len(rest) /\ x + j <= s
      BY <1>2, <1>5, <2>1
    <3>2. f[x + j] = p[x + j]
      BY <1>5, <3>1
    <3> QED BY <2>3, <3>2
  <2>5. x + w <= Len(f)
    BY <1>2, <1>5, <2>1
  <2>6. Fits(v, w) => At(f, x, w) = v
    BY <1>5, <2>1, <2>2, <2>4, <2>5, AtWritten
  <2> QED BY <2>1, <2>6 DEF x, w, v
<1>7. ASSUME NEW j \in 1..Len(rest) PROVE f[s + j] = rest[j]
  <2>1. s + j \in 1..s + Len(rest) /\ ~(s + j <= s) /\ (s + j) - s = j
    BY <1>2, <1>5
  <2> QED BY <1>5, <2>1
<1> QED BY <1>2, <1>5, <1>6, <1>7 DEF e, s, InPlace

\* If one frame begins another with a part of the same widths, the numbers that
\* fit are the same and one rest begins the other.
LEMMA PartsSame ==
  ASSUME NEW f, NEW g, NEW widths, NEW a, NEW c, NEW p, NEW q,
         Led(f, widths, a, p), Led(g, widths, c, q), Starts(f, g)
  PROVE  /\ \A k \in 1..Len(widths) :
              Fits(a[k], widths[k]) /\ Fits(c[k], widths[k]) => a[k] = c[k]
         /\ Starts(p, q)
<1> DEFINE e == Ends(widths)
           s == Size(widths)
<1>1. /\ f \in Seq(Byte) /\ s \in Nat /\ Len(f) = s + Len(p)
      /\ \A k \in 1..Len(widths) :
           /\ e[k - 1] \in Nat /\ widths[k] \in Nat /\ e[k - 1] + widths[k] <= s
           /\ Fits(a[k], widths[k]) => At(f, e[k - 1], widths[k]) = a[k]
      /\ \A j \in 1..Len(p) : f[s + j] = p[j]
  <2>1. InPlace(f, widths, a, p)
    BY LedFacts
  <2> QED BY <2>1 DEF InPlace
<1>2. /\ g \in Seq(Byte) /\ Len(g) = s + Len(q)
      /\ \A k \in 1..Len(widths) : Fits(c[k], widths[k]) => At(g, e[k - 1], widths[k]) = c[k]
      /\ \A j \in 1..Len(q) : g[s + j] = q[j]
  <2>1. InPlace(g, widths, c, q)
    BY LedFacts
  <2> QED BY <2>1 DEF InPlace
<1>3. Len(p) \in Nat /\ Len(q) \in Nat
  BY LenProperties DEF Led
<1> HIDE DEF e, s
<1>4. ASSUME NEW k \in 1..Len(widths), Fits(a[k], widths[k]), Fits(c[k], widths[k])
      PROVE  a[k] = c[k]
  <2> DEFINE x == e[k - 1]
             w == widths[k]
  <2>1. x \in Nat /\ w \in Nat /\ x + w <= s /\ At(f, x, w) = a[k] /\ At(g, x, w) = c[k]
    BY <1>1, <1>2, <1>4
  <2> HIDE DEF x, w
  <2>2. x + w <= Len(f)
    BY <1>1, <1>3, <2>1
  <2> QED BY <1>1, <1>2, <2>1, <2>2, AtStarts
<1>5. Starts(p, q)
  <2>1. Len(p) <= Len(q)
    BY <1>1, <1>2, <1>3 DEF Starts
  <2>2. ASSUME NEW j \in 1..Len(p) PROVE p[j] = q[j]
    <3>1. s + j \in 1..Len(f) /\ j \in 1..Len(q)
      BY <1>1, <1>3, <2>1
    <3>2. f[s + j] = g[s + j]
      BY <3>1 DEF Starts
    <3> QED BY <1>1, <1>2, <3>1, <3>2
  <2> QED BY <2>1, <2>2 DEF Starts
<1> QED BY <1>4, <1>5

\* Of the same length, they are the same.
LEMMA StartsWhole ==
  ASSUME NEW p \in Seq(Byte), NEW q \in Seq(Byte), Starts(p, q), Len(p) = Len(q)
  PROVE  p = q
BY SeqEqual DEF Starts

\* Division keeps the order.
LEMMA DivLess ==
  ASSUME NEW B \in Nat \ {0}, NEW x \in Nat, NEW y \in Nat, x <= y
  PROVE  x \div B <= y \div B
<1> DEFINE p == x \div B
           q == y \div B
           r == x % B
           t == y % B
<1>1. /\ p \in Nat /\ q \in Nat /\ r \in 0..B - 1 /\ t \in 0..B - 1
      /\ x = p * B + r /\ y = q * B + t
  BY DivMod
<1> HIDE DEF p, q, r, t
<1>2. CASE q < p
  <2>1. q + 1 <= p /\ q + 1 \in Nat
    BY <1>1, <1>2
  <2>2. (q + 1) * B <= p * B
    <3>1. p * B = (q + 1) * B + (p - (q + 1)) * B
      BY <1>1
    <3>2. (p - (q + 1)) * B \in Nat /\ (q + 1) * B \in Nat
      <4>1. p - (q + 1) \in Nat
        BY <1>1, <2>1
      <4> QED BY <2>1, <4>1
    <3> QED BY <3>1, <3>2
  <2>3. (q + 1) * B = q * B + B
    BY <1>1
  <2>4. q * B \in Nat /\ p * B \in Nat
    BY <1>1
  <2> QED BY <1>1, <2>2, <2>3, <2>4
<1>3. CASE p <= q
  BY <1>3 DEF p, q
<1> QED BY <1>1, <1>2, <1>3

\* What is not larger than a number that fits does fit.
LEMMA FitsLess ==
  ASSUME NEW v \in Nat, NEW u \in Nat, NEW w \in Nat, v <= u, Fits(u, w)
  PROVE  Fits(v, w)
<1> DEFINE s == Shifted(v, w)
           t == Shifted(u, w)
           T == {i \in 0..w : s[i] <= t[i]}
<1>1. s \in [0..w -> Nat] /\ s[0] = v /\ \A i \in 1..w : s[i] = s[i - 1] \div Base
  BY ShiftedFacts
<1>2. t \in [0..w -> Nat] /\ t[0] = u /\ \A i \in 1..w : t[i] = t[i - 1] \div Base
  BY ShiftedFacts
<1>3. t[w] = 0
  BY DEF Fits
<1> HIDE DEF s, t
<1>4. 0 \in T
  BY <1>1, <1>2
<1>5. ASSUME NEW i \in 1..w, i - 1 \in T PROVE i \in T
  <2>1. i - 1 \in 0..w /\ i \in 0..w
    OBVIOUS
  <2>2. s[i - 1] \in Nat /\ t[i - 1] \in Nat /\ s[i - 1] <= t[i - 1]
    BY <1>1, <1>2, <1>5, <2>1
  <2>3. s[i - 1] \div Base <= t[i - 1] \div Base
    BY <2>2, BaseFacts, DivLess
  <2> QED BY <1>1, <1>2, <2>1, <2>3
<1> HIDE DEF T
<1>6. \A i \in 0..w : i \in T
  BY <1>4, <1>5, Upwards
<1>7. w \in 0..w
  OBVIOUS
<1>8. s[w] \in Nat /\ s[w] <= 0
  BY <1>1, <1>3, <1>6, <1>7 DEF T
<1> QED BY <1>8 DEF Fits, s

\* The largest length is a number.
LEMMA LargestLength == U32Max \in Nat
<1>1. [i \in 1..W32 |-> Base - 1] \in Seq(Byte)
  BY Widths, BaseFacts DEF Byte
<1> QED BY <1>1, BytesOfNumber DEF U32Max

\* A length up to the largest fits its field.
LEMMA LengthFits ==
  ASSUME NEW n \in Nat, n <= U32Max
  PROVE  Fits(n, W32)
<1> DEFINE b == [i \in 1..W32 |-> Base - 1]
<1>1. W32 \in Nat /\ Base - 1 \in Byte
  BY Widths, BaseFacts DEF Byte
<1>2. b \in Seq(Byte) /\ Len(b) = W32
  BY <1>1
<1>3. U32Max = Number(b)
  BY DEF U32Max
<1> HIDE DEF b
<1>4. U32Max \in Nat /\ Fits(U32Max, W32)
  BY <1>2, <1>3, BytesOfNumber
<1> QED BY <1>1, <1>4, FitsLess

\* The header of a request.
RequestHead(method, id, length) ==
  <<StncMagic, Version, Request, Method[method], OK, id, length>>

\* What stnc_stnc_encode writes when it does not refuse.
LEMMA EncodeLed ==
  ASSUME NEW method \in Methods, NEW id \in Nat, NEW payload \in Seq(Byte), NEW capacity \in Nat,
         Encode(method, id, payload, capacity) # Refused
  PROVE  /\ Led(Encode(method, id, payload, capacity), HeaderLayout.head,
                RequestHead(method, id, Len(payload)), payload)
         /\ Len(payload) \in Nat /\ Fits(Len(payload), W32)
<1> DEFINE numbers == RequestHead(method, id, Len(payload))
<1>1. /\ Encode(method, id, payload, capacity) = Packed(HeaderLayout.head, numbers) \o payload
      /\ ~(Len(payload) > U32Max)
  BY DEF Encode, RequestHead
<1>2. Method[method] \in Nat /\ StncMagic \in Nat /\ Version \in Nat /\ Len(payload) \in Nat
  BY StncAssumption, WireAssumption, LenProperties DEF StncAssumption, WireAssumption
<1>3. AreNumbers(HeaderLayout.head, numbers)
  <2>1. numbers \in Seq(Nat) /\ Len(numbers) = 7
    BY <1>2 DEF Request, OK, RequestHead
  <2> HIDE DEF numbers
  <2>2. ASSUME NEW i \in 1..7 PROVE numbers[i] \in Nat
    <3>1. i \in 1..Len(numbers)
      BY <2>1
    <3> QED BY <2>1, <3>1, ElementOfSeq
  <2>3. Len(HeaderLayout.head) = 7
    BY HeaderSizes
  <2> QED BY <2>2, <2>3 DEF AreNumbers
<1>4. Fits(Len(payload), W32)
  <2>1. U32Max \in Nat
    BY LargestLength
  <2> QED BY <1>1, <1>2, <2>1, LengthFits
<1> QED BY <1>1, <1>2, <1>3, <1>4, HeaderSizes DEF Led

\* A request that begins another is that request.
LEMMA EncodeSame ==
  ASSUME NEW m \in Methods, NEW i \in Nat, Fits(i, W64), NEW p \in Seq(Byte),
         NEW n \in Methods, NEW j \in Nat, Fits(j, W64), NEW q \in Seq(Byte),
         NEW c \in Nat, NEW d \in Nat,
         Encode(m, i, p, c) # Refused, Encode(n, j, q, d) # Refused,
         Starts(Encode(m, i, p, c), Encode(n, j, q, d))
  PROVE  m = n /\ i = j /\ p = q
<1> DEFINE w == HeaderLayout.head
           a == RequestHead(m, i, Len(p))
           b == RequestHead(n, j, Len(q))
           f == Encode(m, i, p, c)
           g == Encode(n, j, q, d)
<1>1. Led(f, w, a, p) /\ Fits(Len(p), W32)
  BY EncodeLed
<1>2. Led(g, w, b, q) /\ Fits(Len(q), W32)
  BY EncodeLed
<1>3. /\ Len(w) = 7 /\ w[4] = W16 /\ w[6] = W64 /\ w[7] = W32
      /\ a[4] = Method[m] /\ a[6] = i /\ a[7] = Len(p)
      /\ b[4] = Method[n] /\ b[6] = j /\ b[7] = Len(q)
  BY DEF RequestHead, HeaderLayout, Fixed, Layout
<1>4. Fits(Method[m], W16) /\ Fits(Method[n], W16)
  BY StncAssumption DEF StncAssumption
<1> HIDE DEF w, a, b, f, g
<1>5. /\ \A k \in 1..Len(w) : Fits(a[k], w[k]) /\ Fits(b[k], w[k]) => a[k] = b[k]
      /\ Starts(p, q)
  <2>1. Starts(f, g)
    BY DEF f, g
  <2> QED BY <1>1, <1>2, <2>1, PartsSame
<1>6. 4 \in 1..Len(w) /\ 6 \in 1..Len(w) /\ 7 \in 1..Len(w)
  BY <1>3
<1>7. Method[m] = Method[n] /\ i = j /\ Len(p) = Len(q)
  BY <1>1, <1>2, <1>3, <1>4, <1>5, <1>6
<1>8. m = n
  BY <1>7, StncAssumption DEF StncAssumption
<1>9. p = q
  BY <1>5, <1>7, StartsWhole
<1> QED BY <1>7, <1>8, <1>9

\* The entries of a list of blocks: each block behind its length.
Counted(block) == Bytes(Len(block), W32) \o block
Listing(blocks) == [i \in 1..Len(blocks) |-> Counted(blocks[i])]

\* An entry is four bytes and the block, in the code's widths.
LEMMA CountedFacts ==
  ASSUME NEW block \in Seq(Byte)
  PROVE  /\ Counted(block) \in Seq(Byte) /\ Len(block) \in Nat /\ W32 \in Nat
         /\ Len(Counted(block)) = W32 + Len(block)
         /\ \A j \in 1..W32 : Counted(block)[j] = Bytes(Len(block), W32)[j]
         /\ \A j \in 1..Len(block) : Counted(block)[W32 + j] = block[j]
<1> DEFINE s == Bytes(Len(block), W32)
           e == Counted(block)
<1>1. Len(block) \in Nat /\ W32 \in Nat
  BY LenProperties, Widths
<1>2. s \in Seq(Byte) /\ Len(s) = W32
  BY <1>1, BytesType
<1>3. e = s \o block
  BY DEF Counted
<1> HIDE DEF s, e
<1>4. /\ e \in Seq(Byte) /\ Len(e) = W32 + Len(block)
      /\ \A j \in 1..W32 + Len(block) : e[j] = IF j <= W32 THEN s[j] ELSE block[j - W32]
  BY <1>2, <1>3, ConcatProperties
<1>5. \A j \in 1..W32 : j \in 1..W32 + Len(block) /\ j <= W32
  BY <1>1
<1>6. \A j \in 1..Len(block) : /\ W32 + j \in 1..W32 + Len(block)
                               /\ ~(W32 + j <= W32) /\ (W32 + j) - W32 = j
  BY <1>1
<1>7. ASSUME NEW j \in 1..Len(block) PROVE e[W32 + j] = block[j]
  BY <1>4, <1>6
<1> QED BY <1>1, <1>4, <1>5, <1>7 DEF e, s

\* Where the entries of a list are.
InList(blocks, off) ==
  /\ Offsets(Listing(blocks), off) /\ Len(List(blocks)) = off[Len(blocks)]
  /\ off \in [0..Len(blocks) -> Nat] /\ off[0] = 0
  /\ \A i \in 1..Len(blocks) :
       /\ off[i] = off[i - 1] + Len(Counted(blocks[i]))
       /\ off[i] <= off[Len(blocks)]
       /\ \A j \in 1..Len(Counted(blocks[i])) :
            List(blocks)[off[i - 1] + j] = Counted(blocks[i])[j]

\* They are one behind the other.
LEMMA ListPlaces ==
  ASSUME NEW blocks \in Seq(Seq(Byte))
  PROVE  \E off : InList(blocks, off)
<1> DEFINE n == Len(blocks)
           seqs == Listing(blocks)
<1>1. n \in Nat /\ \A i \in 1..n : blocks[i] \in Seq(Byte)
  BY LenProperties
<1>2. seqs \in ByteSeqs /\ Len(seqs) = n /\ \A i \in 1..n : seqs[i] = Counted(blocks[i])
  <2> DEFINE S == Seq(Byte)
  <2>1. \A i \in 1..n : Counted(blocks[i]) \in S
    BY <1>1, CountedFacts
  <2> HIDE DEF n, S
  <2>2. seqs = [i \in 1..n |-> Counted(blocks[i])]
    BY DEF Listing, n
  <2> HIDE DEF seqs
  <2>3. seqs \in Seq(S) /\ Len(seqs) = n /\ \A i \in 1..n : seqs[i] = Counted(blocks[i])
    BY <1>1, <2>1, <2>2
  <2> QED BY <2>3 DEF ByteSeqs, S
<1>3. FlattenSeq(seqs) = List(blocks)
  BY DEF List, Listing, Counted
<1> HIDE DEF seqs, n
<1>4. PICK off : Offsets(seqs, off)
  BY <1>2, OffsetsExist
<1>5. /\ Len(List(blocks)) = off[n]
      /\ \A i \in 1..n : \A j \in 1..Len(Counted(blocks[i])) :
           List(blocks)[off[i - 1] + j] = Counted(blocks[i])[j]
  BY <1>2, <1>3, <1>4, FlattenParts
<1>6. /\ off \in [0..n -> Nat] /\ off[0] = 0
      /\ \A i \in 1..n : off[i] = off[i - 1] + Len(Counted(blocks[i]))
  BY <1>2, <1>4 DEF Offsets
<1>7. \A i \in 1..n : off[i] <= off[n]
  <2>1. \A i \in 0..n : \A k \in 0..i : off[k] <= off[i]
    BY <1>2, <1>4, OffsetsGrow
  <2>2. n \in 0..n /\ \A i \in 1..n : i \in 0..n
    BY <1>1
  <2> QED BY <2>1, <2>2
<1>8. InList(blocks, off)
  BY <1>4, <1>5, <1>6, <1>7 DEF InList, n, seqs
<1> QED BY <1>8

\* No block is longer than the list.
LEMMA ListLonger ==
  ASSUME NEW blocks \in Seq(Seq(Byte))
  PROVE  \A i \in 1..Len(blocks) : Len(blocks[i]) \in Nat /\ Len(blocks[i]) <= Len(List(blocks))
<1>1. PICK off : InList(blocks, off)
  BY ListPlaces
<1> DEFINE n == Len(blocks)
<1>2. n \in Nat /\ \A i \in 1..n : blocks[i] \in Seq(Byte)
  BY LenProperties
<1>3. /\ off \in [0..n -> Nat] /\ Len(List(blocks)) = off[n]
      /\ \A i \in 1..n : off[i] = off[i - 1] + Len(Counted(blocks[i])) /\ off[i] <= off[n]
  BY <1>1 DEF InList
<1> HIDE DEF n
<1>4. ASSUME NEW i \in 1..n
      PROVE  Len(blocks[i]) \in Nat /\ Len(blocks[i]) <= Len(List(blocks))
  <2>1. /\ Len(blocks[i]) \in Nat /\ W32 \in Nat
        /\ Len(Counted(blocks[i])) = W32 + Len(blocks[i])
    BY <1>2, CountedFacts
  <2>2. i - 1 \in 0..n /\ n \in 0..n /\ i \in 0..n
    BY <1>2
  <2>3. off[i - 1] \in Nat /\ off[n] \in Nat /\ off[i] \in Nat
    BY <1>3, <2>2
  <2> QED BY <1>3, <2>1, <2>3
<1> QED BY <1>4 DEF n

\* A list says its blocks.
LEMMA ListSame ==
  ASSUME NEW a \in Seq(Seq(Byte)), NEW b \in Seq(Seq(Byte)), Len(a) = Len(b), List(a) = List(b),
         \A i \in 1..Len(a) : Fits(Len(a[i]), W32) /\ Fits(Len(b[i]), W32)
  PROVE  a = b
<1> DEFINE n == Len(a)
           l == List(a)
<1>1. PICK o : InList(a, o)
  BY ListPlaces
<1>2. PICK u : InList(b, u)
  BY ListPlaces
<1>3. n \in Nat /\ \A i \in 1..n : a[i] \in Seq(Byte) /\ b[i] \in Seq(Byte)
  BY LenProperties
<1>4. /\ o \in [0..n -> Nat] /\ o[0] = 0
      /\ \A i \in 1..n : /\ o[i] = o[i - 1] + Len(Counted(a[i]))
                         /\ \A j \in 1..Len(Counted(a[i])) : l[o[i - 1] + j] = Counted(a[i])[j]
  BY <1>1 DEF InList
<1>5. /\ u \in [0..n -> Nat] /\ u[0] = 0
      /\ \A i \in 1..n : /\ u[i] = u[i - 1] + Len(Counted(b[i]))
                         /\ \A j \in 1..Len(Counted(b[i])) : l[u[i - 1] + j] = Counted(b[i])[j]
  <2>1. Len(b) = n /\ List(b) = l
    OBVIOUS
  <2> QED BY <1>2, <2>1 DEF InList
<1>6. \A i \in 1..n : Fits(Len(a[i]), W32) /\ Fits(Len(b[i]), W32)
  OBVIOUS
<1> HIDE DEF n, l
<1> DEFINE T == {i \in 0..n : o[i] = u[i] /\ (i > 0 => a[i] = b[i])}
<1>7. 0 \in T
  BY <1>3, <1>4, <1>5
<1>8. ASSUME NEW i \in 1..n, i - 1 \in T PROVE i \in T
  <2> DEFINE x == a[i]
             y == b[i]
             p == o[i - 1]
  <2>1. x \in Seq(Byte) /\ y \in Seq(Byte) /\ Fits(Len(x), W32) /\ Fits(Len(y), W32)
    BY <1>3, <1>6
  <2>2. p = u[i - 1] /\ o[i] = p + Len(Counted(x)) /\ u[i] = p + Len(Counted(y))
    BY <1>4, <1>5, <1>8
  <2>3. /\ \A j \in 1..Len(Counted(x)) : l[p + j] = Counted(x)[j]
        /\ \A j \in 1..Len(Counted(y)) : l[p + j] = Counted(y)[j]
    BY <1>4, <1>5, <2>2
  <2> HIDE DEF x, y, p
  <2>4. /\ Len(x) \in Nat /\ W32 \in Nat /\ Len(Counted(x)) = W32 + Len(x)
        /\ \A j \in 1..W32 : Counted(x)[j] = Bytes(Len(x), W32)[j]
        /\ \A j \in 1..Len(x) : Counted(x)[W32 + j] = x[j]
    BY <2>1, CountedFacts
  <2>5. /\ Len(y) \in Nat /\ Len(Counted(y)) = W32 + Len(y)
        /\ \A j \in 1..W32 : Counted(y)[j] = Bytes(Len(y), W32)[j]
        /\ \A j \in 1..Len(y) : Counted(y)[W32 + j] = y[j]
    BY <2>1, CountedFacts
  <2>6. Len(x) = Len(y)
    <3>1. \A j \in 1..W32 : j \in 1..Len(Counted(x)) /\ j \in 1..Len(Counted(y))
      BY <2>4, <2>5
    <3>2. \A j \in 1..W32 : Bytes(Len(x), W32)[j] = Bytes(Len(y), W32)[j]
      BY <2>3, <2>4, <2>5, <3>1
    <3>3. /\ Bytes(Len(x), W32) \in Seq(Byte) /\ Len(Bytes(Len(x), W32)) = W32
          /\ Bytes(Len(y), W32) \in Seq(Byte) /\ Len(Bytes(Len(y), W32)) = W32
      BY <2>4, <2>5, BytesType
    <3>4. Bytes(Len(x), W32) = Bytes(Len(y), W32)
      BY <3>2, <3>3, SeqEqual
    <3>5. Number(Bytes(Len(x), W32)) = Len(x) /\ Number(Bytes(Len(y), W32)) = Len(y)
      BY <2>1, <2>4, <2>5, NumberOfBytes
    <3> QED BY <3>4, <3>5
  <2>7. x = y
    <3>1. \A j \in 1..Len(x) : W32 + j \in 1..Len(Counted(x)) /\ W32 + j \in 1..Len(Counted(y)) /\ j \in 1..Len(y)
      BY <2>4, <2>5, <2>6
    <3>2. \A j \in 1..Len(x) : x[j] = y[j]
      BY <2>3, <2>4, <2>5, <3>1
    <3> QED BY <2>1, <2>6, <3>2, SeqEqual
  <2>8. o[i] = u[i]
    BY <2>2, <2>7
  <2>9. i \in 0..n
    BY <1>3
  <2> QED BY <2>7, <2>8, <2>9 DEF x, y
<1> HIDE DEF T
<1>9. \A i \in 0..n : i \in T
  BY <1>3, <1>7, <1>8, Upwards
<1>10. \A i \in 1..n : a[i] = b[i]
  <2> SUFFICES ASSUME NEW i \in 1..n PROVE a[i] = b[i]
    OBVIOUS
  <2>1. i \in 0..n /\ i > 0
    BY <1>3
  <2> QED BY <1>9, <2>1 DEF T
<1> QED BY <1>10, SeqEqual DEF n

\* The method a request of an encoder has, and the encoder it is of.
MethodOf(c) ==
  CASE c.op = "work_base"   -> "check_work_base"
    [] c.op = "submit_work" -> "submit_work"
    [] c.op = "height"      -> "block_height"
    [] c.op = "derive"      -> "derive_address"
    [] c.op = "transaction" -> "submit_transaction"
    [] c.op = "block"       -> "submit_block_evidence"
    [] c.op = "history"     -> "submit_history_evidence"
    [] c.op = "suffix"      -> "submit_suffix_evidence"
    [] c.op = "begin"       -> "suffix_stage_begin"
    [] c.op = "append"      -> "suffix_stage_append"
    [] OTHER                -> c.method
OpOf(method) ==
  CASE method \in {"mining_context", "mining_template"}           -> "empty"
    [] method = "check_work_base"                                 -> "work_base"
    [] method = "submit_work"                                     -> "submit_work"
    [] method = "block_height"                                    -> "height"
    [] method = "derive_address"                                  -> "derive"
    [] method \in {"balance", "contract_state"}                   -> "address"
    [] method = "submit_transaction"                              -> "transaction"
    [] method = "submit_block_evidence"                           -> "block"
    [] method = "submit_history_evidence"                         -> "history"
    [] method = "submit_suffix_evidence"                          -> "suffix"
    [] method = "suffix_stage_begin"                              -> "begin"
    [] method = "suffix_stage_append"                             -> "append"
    [] OTHER                                                      -> "control"

\* The numbers before a list of blocks.
ListHead(c) ==
  IF c.op = "history" THEN <<Len(c.blocks)>> ELSE <<c.number, Len(c.blocks)>>
Fields(numbers) == [i \in 1..Len(numbers) |-> W32]

\* The payload a request of an encoder has.
PayloadOf(c) ==
  CASE c.op \in {"empty", "control"} -> <<>>
    [] c.op = "submit_work" ->
         Packed(<<IdSize, IdSize, W32>>, <<c.parent, c.work, Len(c.data)>>) \o c.identity \o c.data
    [] c.op = "height" -> Bytes(c.number, W64)
    [] c.op = "derive" -> Packed(<<W16, W32>>, <<c.type, Len(c.data)>>) \o c.data
    [] c.op \in {"history", "suffix", "append"} ->
         Packed(Fields(ListHead(c)), ListHead(c)) \o List(c.blocks)
    [] c.op = "begin" -> Packed(<<W32, W32>>, <<c.number, c.count>>)
    [] OTHER -> c.data

\* What the encoder has made sure of.
Checked(c) ==
  /\ c.op = "submit_work" => Len(c.identity) = IdentityLen
  /\ c.op \in {"history", "suffix", "append"} => Len(c.blocks) <= U32Max

\* A request of a call.
IsRequest(c, frame, capacity) ==
  /\ MethodOf(c) \in Methods /\ OpOf(MethodOf(c)) = c.op
  /\ PayloadOf(c) \in Seq(Byte)
  /\ frame = Encode(MethodOf(c), c.id, PayloadOf(c), capacity)
  /\ Checked(c)

\* The numbers before a list are written as a part of the frame.
LEMMA ListHeadFacts ==
  ASSUME NEW c, IsCall(c)
  PROVE  /\ ListHead(c) \in Seq(Nat) /\ Fields(ListHead(c)) \in Seq(Nat)
         /\ Len(Fields(ListHead(c))) = Len(ListHead(c))
         /\ Packed(Fields(ListHead(c)), ListHead(c)) \in Seq(Byte)
<1> DEFINE h == ListHead(c)
           w == Fields(h)
<1>1. c.number \in Nat /\ Len(c.blocks) \in Nat /\ W32 \in Nat
  BY Widths, LenProperties DEF IsCall
<1>2. h \in Seq(Nat)
  BY <1>1 DEF ListHead
<1> HIDE DEF h
<1>3. w \in Seq(Nat) /\ Len(w) = Len(h)
  BY <1>1, <1>2, LenProperties DEF Fields
<1> HIDE DEF w
<1>4. Packed(w, h) \in Seq(Byte)
  BY <1>2, <1>3, PackedType
<1> QED BY <1>2, <1>3, <1>4 DEF h, w

\* Every encoder of STNC writes a request, or nothing.
LEMMA StncRequest ==
  ASSUME NEW c, IsCall(c), c.op \in StncOps, NEW capacity \in Nat,
         EncodeStnc(c, capacity) # Refused
  PROVE  IsRequest(c, EncodeStnc(c, capacity), capacity)
<1>1. /\ c.id \in Nat /\ c.data \in Seq(Byte)
      /\ c.blocks \in Seq(Seq(Byte)) /\ c.identity \in Seq(Byte)
      /\ c.parent \in Nat /\ c.work \in Nat /\ c.type \in Nat /\ c.number \in Nat /\ c.count \in Nat
  BY DEF IsCall
<1>2. Len(c.data) \in Nat /\ Len(c.blocks) \in Nat
  BY <1>1, LenProperties
<1>3. <<>> \in Seq(Byte)
  OBVIOUS
<1>4. CASE c.op = "empty"
  <2>1. EncodeStnc(c, capacity) = EncodeEmpty(c, capacity)
    BY <1>4 DEF EncodeStnc
  <2>2. c.method \in {"mining_context", "mining_template"}
        /\ EncodeStnc(c, capacity) = Encode(c.method, c.id, <<>>, capacity)
    BY <2>1 DEF EncodeEmpty
  <2>3. MethodOf(c) = c.method /\ PayloadOf(c) = <<>> /\ Checked(c)
    BY <1>4 DEF MethodOf, PayloadOf, Checked
  <2>4. OpOf(c.method) = "empty" /\ c.method \in Methods
    BY <2>2 DEF OpOf, Methods
  <2> QED BY <1>3, <1>4, <2>2, <2>3, <2>4 DEF IsRequest
<1>5. CASE c.op = "work_base"
  <2>1. EncodeStnc(c, capacity) = Encode("check_work_base", c.id, c.data, capacity)
    BY <1>5 DEF EncodeStnc, EncodeWorkBase
  <2>2. MethodOf(c) = "check_work_base" /\ PayloadOf(c) = c.data /\ Checked(c)
    BY <1>5 DEF MethodOf, PayloadOf, Checked
  <2>3. OpOf("check_work_base") = "work_base" /\ "check_work_base" \in Methods
    BY DEF OpOf, Methods
  <2> QED BY <1>1, <1>5, <2>1, <2>2, <2>3 DEF IsRequest
<1>6. CASE c.op = "submit_work"
  <2> DEFINE prefix == Packed(<<IdSize, IdSize, W32>>, <<c.parent, c.work, Len(c.data)>>)
             payload == prefix \o c.identity \o c.data
  <2>1. EncodeStnc(c, capacity) = EncodeSubmitWork(c, capacity)
    BY <1>6 DEF EncodeStnc
  <2>2. Len(c.identity) = IdentityLen
        /\ EncodeStnc(c, capacity) = Encode("submit_work", c.id, payload, capacity)
    <3> HIDE DEF payload, prefix
    <3> QED BY <2>1, Zenon DEF EncodeSubmitWork, payload, prefix
  <2>3. prefix \in Seq(Byte)
    <3>1. /\ <<IdSize, IdSize, W32>> \in Seq(Nat) /\ <<c.parent, c.work, Len(c.data)>> \in Seq(Nat)
          /\ Len(<<c.parent, c.work, Len(c.data)>>) = Len(<<IdSize, IdSize, W32>>)
      BY <1>1, <1>2, Widths
    <3> QED BY <3>1, PackedType
  <2> HIDE DEF prefix
  <2>4. payload \in Seq(Byte)
    <3>1. prefix \o c.identity \in Seq(Byte)
      BY <1>1, <2>3, ConcatType
    <3> QED BY <1>1, <3>1, ConcatType
  <2>5. PayloadOf(c) = payload
    BY <1>6 DEF PayloadOf, prefix
  <2> HIDE DEF payload
  <2>6. MethodOf(c) = "submit_work" /\ Checked(c)
    BY <1>6, <2>2 DEF MethodOf, Checked
  <2>7. OpOf("submit_work") = "submit_work" /\ "submit_work" \in Methods
    BY DEF OpOf, Methods
  <2> QED BY <1>6, <2>2, <2>4, <2>5, <2>6, <2>7 DEF IsRequest
<1>7. CASE c.op = "height"
  <2>1. EncodeStnc(c, capacity) = Encode("block_height", c.id, Bytes(c.number, W64), capacity)
    BY <1>7 DEF EncodeStnc, EncodeBlockHeight
  <2>2. MethodOf(c) = "block_height" /\ PayloadOf(c) = Bytes(c.number, W64) /\ Checked(c)
    BY <1>7 DEF MethodOf, PayloadOf, Checked
  <2>3. OpOf("block_height") = "height" /\ "block_height" \in Methods
    BY DEF OpOf, Methods
  <2>4. Bytes(c.number, W64) \in Seq(Byte)
    BY <1>1, Widths, BytesType
  <2> QED BY <1>7, <2>1, <2>2, <2>3, <2>4 DEF IsRequest
<1>8. CASE c.op = "derive"
  <2> DEFINE prefix == Packed(<<W16, W32>>, <<c.type, Len(c.data)>>)
             payload == prefix \o c.data
  <2>1. EncodeStnc(c, capacity) = EncodeDerive(c, capacity)
    BY <1>8 DEF EncodeStnc
  <2>2. EncodeStnc(c, capacity) = Encode("derive_address", c.id, payload, capacity)
    <3> HIDE DEF payload, prefix
    <3> QED BY <2>1, Zenon DEF EncodeDerive, payload, prefix
  <2>3. prefix \in Seq(Byte)
    <3>1. /\ <<W16, W32>> \in Seq(Nat) /\ <<c.type, Len(c.data)>> \in Seq(Nat)
          /\ Len(<<c.type, Len(c.data)>>) = Len(<<W16, W32>>)
      BY <1>1, <1>2, Widths
    <3> QED BY <3>1, PackedType
  <2> HIDE DEF prefix
  <2>4. payload \in Seq(Byte)
    BY <1>1, <2>3, ConcatType
  <2>5. PayloadOf(c) = payload
    BY <1>8 DEF PayloadOf, prefix
  <2> HIDE DEF payload
  <2>6. MethodOf(c) = "derive_address" /\ Checked(c)
    BY <1>8 DEF MethodOf, Checked
  <2>7. OpOf("derive_address") = "derive" /\ "derive_address" \in Methods
    BY DEF OpOf, Methods
  <2> QED BY <1>8, <2>2, <2>4, <2>5, <2>6, <2>7 DEF IsRequest
<1>9. CASE c.op = "address"
  <2>1. EncodeStnc(c, capacity) = EncodeAddressQuery(c, capacity)
    BY <1>9 DEF EncodeStnc
  <2>2. c.method \in {"balance", "contract_state"}
        /\ EncodeStnc(c, capacity) = Encode(c.method, c.id, c.data, capacity)
    BY <2>1, Zenon DEF EncodeAddressQuery
  <2>3. MethodOf(c) = c.method /\ PayloadOf(c) = c.data /\ Checked(c)
    BY <1>9 DEF MethodOf, PayloadOf, Checked
  <2>4. OpOf(c.method) = "address" /\ c.method \in Methods
    BY <2>2 DEF OpOf, Methods
  <2> QED BY <1>1, <1>9, <2>2, <2>3, <2>4 DEF IsRequest
<1>10. CASE c.op = "transaction"
  <2>1. EncodeStnc(c, capacity) = Encode("submit_transaction", c.id, c.data, capacity)
    BY <1>10 DEF EncodeStnc, EncodeTransaction
  <2>2. MethodOf(c) = "submit_transaction" /\ PayloadOf(c) = c.data /\ Checked(c)
    BY <1>10 DEF MethodOf, PayloadOf, Checked
  <2>3. OpOf("submit_transaction") = "transaction" /\ "submit_transaction" \in Methods
    BY DEF OpOf, Methods
  <2> QED BY <1>1, <1>10, <2>1, <2>2, <2>3 DEF IsRequest
<1>11. CASE c.op = "block"
  <2>1. EncodeStnc(c, capacity) = Encode("submit_block_evidence", c.id, c.data, capacity)
    BY <1>11 DEF EncodeStnc, EncodeBlockEvidence
  <2>2. MethodOf(c) = "submit_block_evidence" /\ PayloadOf(c) = c.data /\ Checked(c)
    BY <1>11 DEF MethodOf, PayloadOf, Checked
  <2>3. OpOf("submit_block_evidence") = "block" /\ "submit_block_evidence" \in Methods
    BY DEF OpOf, Methods
  <2> QED BY <1>1, <1>11, <2>1, <2>2, <2>3 DEF IsRequest
<1>12. ASSUME NEW m, EncodeStnc(c, capacity) = EncodeList(m, c.id, ListHead(c), c.blocks, capacity),
              m \in Methods, MethodOf(c) = m, OpOf(m) = c.op,
              c.op \in {"history", "suffix", "append"}
       PROVE  IsRequest(c, EncodeStnc(c, capacity), capacity)
  <2> DEFINE head == Packed(Fields(ListHead(c)), ListHead(c))
             payload == head \o List(c.blocks)
  <2>1. Len(c.blocks) \in 1..U32Max /\ EncodeStnc(c, capacity) = Encode(m, c.id, payload, capacity)
    <3>1. Fields(ListHead(c)) = [i \in 1..Len(ListHead(c)) |-> W32]
      BY DEF Fields
    <3> HIDE DEF payload, head
    <3> QED BY <1>12, <3>1, Zenon DEF EncodeList, payload, head
  <2>2. head \in Seq(Byte)
    BY ListHeadFacts
  <2>3. PayloadOf(c) = payload
    BY <1>12 DEF PayloadOf
  <2> HIDE DEF head
  <2>4. payload \in Seq(Byte)
    BY <1>1, <2>2, ListType, ConcatType
  <2> HIDE DEF payload
  <2>5. Len(c.blocks) <= U32Max
    BY <2>1, <1>2
  <2>6. Checked(c)
    BY <1>12, <2>5 DEF Checked
  <2> QED BY <1>12, <2>1, <2>3, <2>4, <2>6 DEF IsRequest
<1>13. CASE c.op = "history"
  <2>1. EncodeStnc(c, capacity)
          = EncodeList("submit_history_evidence", c.id, ListHead(c), c.blocks, capacity)
    BY <1>13 DEF EncodeStnc, EncodeHistory, ListHead
  <2>2. MethodOf(c) = "submit_history_evidence"
        /\ OpOf("submit_history_evidence") = c.op /\ "submit_history_evidence" \in Methods
    BY <1>13 DEF MethodOf, OpOf, Methods
  <2> QED BY <1>12, <1>13, <2>1, <2>2
<1>14. CASE c.op = "suffix"
  <2>1. EncodeStnc(c, capacity)
          = EncodeList("submit_suffix_evidence", c.id, ListHead(c), c.blocks, capacity)
    BY <1>14 DEF EncodeStnc, EncodeSuffix, ListHead
  <2>2. MethodOf(c) = "submit_suffix_evidence"
        /\ OpOf("submit_suffix_evidence") = c.op /\ "submit_suffix_evidence" \in Methods
    BY <1>14 DEF MethodOf, OpOf, Methods
  <2> QED BY <1>12, <1>14, <2>1, <2>2
<1>15. CASE c.op = "append"
  <2>1. EncodeStnc(c, capacity)
          = EncodeList("suffix_stage_append", c.id, ListHead(c), c.blocks, capacity)
    BY <1>15 DEF EncodeStnc, EncodeStageAppend, ListHead
  <2>2. MethodOf(c) = "suffix_stage_append"
        /\ OpOf("suffix_stage_append") = c.op /\ "suffix_stage_append" \in Methods
    BY <1>15 DEF MethodOf, OpOf, Methods
  <2> QED BY <1>12, <1>15, <2>1, <2>2
<1>16. CASE c.op = "begin"
  <2> DEFINE payload == Packed(<<W32, W32>>, <<c.number, c.count>>)
  <2>1. EncodeStnc(c, capacity) = Encode("suffix_stage_begin", c.id, payload, capacity)
    <3>1. EncodeStnc(c, capacity) = EncodeStageBegin(c, capacity)
      BY <1>16 DEF EncodeStnc
    <3> HIDE DEF payload
    <3> QED BY <3>1, Zenon DEF EncodeStageBegin, payload
  <2>2. payload \in Seq(Byte)
    <3>1. /\ <<W32, W32>> \in Seq(Nat) /\ <<c.number, c.count>> \in Seq(Nat)
          /\ Len(<<c.number, c.count>>) = Len(<<W32, W32>>)
      BY <1>1, Widths
    <3> QED BY <3>1, PackedType
  <2>3. PayloadOf(c) = payload
    BY <1>16 DEF PayloadOf
  <2> HIDE DEF payload
  <2>4. MethodOf(c) = "suffix_stage_begin" /\ Checked(c)
    BY <1>16 DEF MethodOf, Checked
  <2>5. OpOf("suffix_stage_begin") = "begin" /\ "suffix_stage_begin" \in Methods
    BY DEF OpOf, Methods
  <2> QED BY <1>16, <2>1, <2>2, <2>3, <2>4, <2>5 DEF IsRequest
<1>17. CASE c.op = "control"
  <2>1. EncodeStnc(c, capacity) = EncodeStageControl(c, capacity)
    BY <1>17 DEF EncodeStnc
  <2>2. c.method \in {"suffix_stage_commit", "suffix_stage_abort"}
        /\ EncodeStnc(c, capacity) = Encode(c.method, c.id, <<>>, capacity)
    BY <2>1 DEF EncodeStageControl
  <2>3. MethodOf(c) = c.method /\ PayloadOf(c) = <<>> /\ Checked(c)
    BY <1>17 DEF MethodOf, PayloadOf, Checked
  <2>4. OpOf(c.method) = "control" /\ c.method \in Methods
    BY <2>2 DEF OpOf, Methods
  <2> QED BY <1>3, <1>17, <2>2, <2>3, <2>4 DEF IsRequest
<1> QED
  BY <1>4, <1>5, <1>6, <1>7, <1>8, <1>9, <1>10, <1>11, <1>13, <1>14, <1>15, <1>16, <1>17
     DEF StncOps

\* Every sequence begins itself.
LEMMA StartsItself == ASSUME NEW f PROVE Len(f) \in Nat => Starts(f, f)
BY DEF Starts

\* Lists of which the numbers before them and the bytes are the same have the
\* same blocks.
LEMMA ListsSame ==
  ASSUME NEW a \in Seq(Seq(Byte)), NEW b \in Seq(Seq(Byte)), Len(a) = Len(b), List(a) = List(b),
         Len(List(a)) <= U32Max
  PROVE  a = b
<1>1. U32Max \in Nat /\ Len(List(a)) \in Nat
  BY LargestLength, ListType, LenProperties
<1>2. ASSUME NEW i \in 1..Len(a) PROVE Fits(Len(a[i]), W32)
  <2>1. Len(a[i]) \in Nat /\ Len(a[i]) <= Len(List(a))
    BY ListLonger
  <2>2. Len(a[i]) <= U32Max
    BY <1>1, <2>1
  <2> QED BY <2>1, <2>2, LengthFits
<1>3. ASSUME NEW i \in 1..Len(a) PROVE Fits(Len(b[i]), W32)
  <2>1. Len(b[i]) \in Nat /\ Len(b[i]) <= Len(List(b))
    BY ListLonger
  <2>2. Len(b[i]) <= U32Max
    BY <1>1, <2>1
  <2> QED BY <2>1, <2>2, LengthFits
<1> QED BY <1>2, <1>3, ListSame

\* A part and a rest that are the same bytes are the same numbers, those that
\* fit, and the same rest.
LEMMA PartsEqual ==
  ASSUME NEW f, NEW widths, NEW a, NEW c, NEW p, NEW q,
         Led(f, widths, a, p), Led(f, widths, c, q)
  PROVE  /\ \A k \in 1..Len(widths) :
              Fits(a[k], widths[k]) /\ Fits(c[k], widths[k]) => a[k] = c[k]
         /\ p = q
         /\ Len(p) <= Len(f)
<1>1. InPlace(f, widths, a, p) /\ InPlace(f, widths, c, q)
  BY LedFacts
<1>2. f \in Seq(Byte) /\ Size(widths) \in Nat
      /\ Len(f) = Size(widths) + Len(p) /\ Len(f) = Size(widths) + Len(q)
  BY <1>1 DEF InPlace
<1>3. Len(p) \in Nat /\ Len(q) \in Nat /\ p \in Seq(Byte) /\ q \in Seq(Byte)
  BY LenProperties DEF Led
<1>4. Starts(f, f)
  BY <1>2, LenProperties, StartsItself
<1>5. /\ \A k \in 1..Len(widths) :
           Fits(a[k], widths[k]) /\ Fits(c[k], widths[k]) => a[k] = c[k]
      /\ Starts(p, q)
  BY <1>4, PartsSame
<1>6. p = q
  BY <1>2, <1>3, <1>5, StartsWhole
<1>7. Len(p) <= Len(f)
  BY <1>2, <1>3
<1> QED BY <1>5, <1>6, <1>7

\* A payload that begins with numbers.
LEMMA PayloadLed ==
  ASSUME NEW widths \in Seq(Nat), NEW numbers \in Seq(Nat), Len(numbers) = Len(widths),
         NEW rest \in Seq(Byte)
  PROVE  Led(Packed(widths, numbers) \o rest, widths, numbers, rest)
<1>1. AreNumbers(widths, numbers)
  BY DEF AreNumbers
<1> QED BY <1>1 DEF Led

\* The payload of a request says what the encoder read of the call.
LEMMA PayloadSame ==
  ASSUME NEW c, IsCall(c), NEW d, IsCall(d), c.op = d.op, c.op \in StncOps,
         MethodOf(c) = MethodOf(d), c.id = d.id,
         PayloadOf(c) = PayloadOf(d), PayloadOf(c) \in Seq(Byte), Len(PayloadOf(c)) <= U32Max,
         Checked(c), Checked(d)
  PROVE  SaysTheSame(c, d)
<1> DEFINE p == PayloadOf(c)
           q == PayloadOf(d)
<1>1. /\ c.data \in Seq(Byte) /\ c.blocks \in Seq(Seq(Byte)) /\ c.identity \in Seq(Byte)
      /\ c.parent \in Nat /\ c.work \in Nat /\ c.type \in Nat /\ c.number \in Nat /\ c.count \in Nat
      /\ Fits(c.parent, IdSize) /\ Fits(c.work, IdSize) /\ Fits(c.type, W16) /\ Fits(c.count, W32)
      /\ Fits(c.number, IF c.op = "height" THEN W64 ELSE W32)
  BY DEF IsCall
<1>2. /\ d.data \in Seq(Byte) /\ d.blocks \in Seq(Seq(Byte)) /\ d.identity \in Seq(Byte)
      /\ d.parent \in Nat /\ d.work \in Nat /\ d.type \in Nat /\ d.number \in Nat /\ d.count \in Nat
      /\ Fits(d.parent, IdSize) /\ Fits(d.work, IdSize) /\ Fits(d.type, W16) /\ Fits(d.count, W32)
      /\ Fits(d.number, IF d.op = "height" THEN W64 ELSE W32)
  BY DEF IsCall
<1>3. p = q /\ p \in Seq(Byte) /\ Len(p) \in Nat /\ Len(p) <= U32Max
  BY LenProperties
<1>4. U32Max \in Nat
  BY LargestLength
<1>5. /\ Len(c.data) \in Nat /\ Len(d.data) \in Nat /\ Len(c.blocks) \in Nat /\ Len(d.blocks) \in Nat
      /\ Len(c.identity) \in Nat /\ Len(d.identity) \in Nat
  BY <1>1, <1>2, LenProperties
<1>6. CASE c.op \in {"empty", "control"}
  <2>1. c.method = d.method
    BY <1>6 DEF MethodOf
  <2>2. Arguments(c.op) = {"id", "method"}
    BY <1>6 DEF Arguments
  <2>3. c["id"] = d["id"] /\ c["method"] = d["method"]
    BY <2>1
  <2> QED BY <2>2, <2>3 DEF SaysTheSame
<1>7. CASE c.op \in {"work_base", "transaction", "block"}
  <2>1. c.data = d.data
    BY <1>7 DEF PayloadOf
  <2>2. Arguments(c.op) = {"id", "data"}
    BY <1>7 DEF Arguments
  <2>3. c["id"] = d["id"] /\ c["data"] = d["data"]
    BY <2>1
  <2> QED BY <2>2, <2>3 DEF SaysTheSame
<1>8. CASE c.op = "submit_work"
  <2> DEFINE w == <<IdSize, IdSize, W32>>
             a == <<c.parent, c.work, Len(c.data)>>
             b == <<d.parent, d.work, Len(d.data)>>
             r == c.identity \o c.data
             s == d.identity \o d.data
  <2>1. Len(c.identity) = IdentityLen /\ Len(d.identity) = IdentityLen
    BY <1>8 DEF Checked
  <2>2. r \in Seq(Byte) /\ s \in Seq(Byte)
        /\ Len(r) = Len(c.identity) + Len(c.data) /\ Len(s) = Len(d.identity) + Len(d.data)
    BY <1>1, <1>2, ConcatType
  <2>3. /\ w \in Seq(Nat) /\ Len(w) = 3 /\ w[1] = IdSize /\ w[2] = IdSize /\ w[3] = W32
        /\ a \in Seq(Nat) /\ Len(a) = 3 /\ a[1] = c.parent /\ a[2] = c.work /\ a[3] = Len(c.data)
        /\ b \in Seq(Nat) /\ Len(b) = 3 /\ b[1] = d.parent /\ b[2] = d.work /\ b[3] = Len(d.data)
    BY <1>1, <1>2, <1>5, Widths
  <2>4. p = Packed(w, a) \o c.identity \o c.data /\ q = Packed(w, b) \o d.identity \o d.data
    BY <1>8 DEF PayloadOf
  <2> HIDE DEF p, q, w, a, b
  <2>5. p = Packed(w, a) \o r /\ q = Packed(w, b) \o s
    <3>1. Packed(w, a) \in Seq(Byte) /\ Packed(w, b) \in Seq(Byte)
      BY <2>3, PackedType
    <3>0. \A x, y, z \in Seq(Byte) : (x \o y) \o z = x \o (y \o z)
      BY ConcatAssociative
    <3>2. (Packed(w, a) \o c.identity) \o c.data = Packed(w, a) \o (c.identity \o c.data)
      BY <1>1, <3>0, <3>1, Zenon
    <3>3. (Packed(w, b) \o d.identity) \o d.data = Packed(w, b) \o (d.identity \o d.data)
      BY <1>2, <3>0, <3>1, Zenon
    <3> QED BY <2>4, <3>2, <3>3
  <2> HIDE DEF r, s
  <2>6. Led(p, w, a, r) /\ Led(p, w, b, s)
    BY <1>3, <2>2, <2>3, <2>5, PayloadLed
  <2>7. /\ \A k \in 1..Len(w) : Fits(a[k], w[k]) /\ Fits(b[k], w[k]) => a[k] = b[k]
        /\ r = s /\ Len(r) <= Len(p)
    BY <2>6, PartsEqual
  <2>8. Fits(Len(c.data), W32) /\ Fits(Len(d.data), W32)
    <3>0. Len(r) <= Len(p) /\ Len(s) = Len(r)
      BY <2>7
    <3>1. Len(c.data) <= U32Max /\ Len(d.data) <= U32Max
      <4>1. \A x, y, z, u \in Nat : x + y <= z /\ z <= u => y <= u
        OBVIOUS
      <4>2. Len(p) \in Nat /\ Len(p) <= U32Max
        BY <1>3 DEF p
      <4>3. Len(c.identity) + Len(c.data) <= Len(p) /\ Len(d.identity) + Len(d.data) <= Len(p)
        BY <2>2, <3>0
      <4> QED BY <1>4, <1>5, <4>1, <4>2, <4>3
    <3> QED BY <1>5, <3>1, LengthFits
  <2>9. c.parent = d.parent /\ c.work = d.work /\ Len(c.data) = Len(d.data)
    <3>1. 1 \in 1..Len(w) /\ 2 \in 1..Len(w) /\ 3 \in 1..Len(w)
      BY <2>3
    <3> QED BY <1>1, <1>2, <2>3, <2>7, <2>8, <3>1
  <2>10. c.identity = d.identity /\ c.data = d.data
    <3>1. \A j \in 1..Len(c.identity) + Len(c.data) :
            r[j] = IF j <= Len(c.identity) THEN c.identity[j] ELSE c.data[j - Len(c.identity)]
      BY <1>1, ConcatProperties DEF r
    <3>2. \A j \in 1..Len(d.identity) + Len(d.data) :
            s[j] = IF j <= Len(d.identity) THEN d.identity[j] ELSE d.data[j - Len(d.identity)]
      BY <1>2, ConcatProperties DEF s
    <3>3. ASSUME NEW j \in 1..Len(c.identity) PROVE c.identity[j] = d.identity[j]
      <4>1. j \in 1..Len(c.identity) + Len(c.data) /\ j <= Len(c.identity) /\ Len(c.identity) = Len(d.identity)
            /\ j \in 1..Len(d.identity) + Len(d.data)
        BY <1>5, <2>1
      <4> QED BY <2>7, <3>1, <3>2, <4>1
    <3>4. ASSUME NEW j \in 1..Len(c.data) PROVE c.data[j] = d.data[j]
      <4> DEFINE k == Len(c.identity) + j
      <4>1. k \in 1..Len(c.identity) + Len(c.data) /\ ~(k <= Len(c.identity)) /\ k - Len(c.identity) = j
            /\ Len(c.identity) = Len(d.identity) /\ k \in 1..Len(d.identity) + Len(d.data)
        BY <1>5, <2>1, <2>9
      <4> HIDE DEF k
      <4>2. r[k] = c.data[j]
        BY <3>1, <4>1
      <4>3. s[k] = d.data[j]
        BY <3>2, <4>1
      <4> QED BY <2>7, <4>2, <4>3
    <3>5. c.identity = d.identity
      BY <1>1, <1>2, <2>1, <3>3, SeqEqual
    <3> QED BY <1>1, <1>2, <2>9, <3>4, <3>5, SeqEqual
  <2>11. Arguments(c.op) = {"id", "parent", "work", "identity", "data"}
    BY <1>8 DEF Arguments
  <2>12. c["id"] = d["id"] /\ c["parent"] = d["parent"] /\ c["work"] = d["work"]
         /\ c["identity"] = d["identity"] /\ c["data"] = d["data"]
    BY <2>9, <2>10
  <2> QED BY <2>11, <2>12 DEF SaysTheSame
<1>9. CASE c.op = "height"
  <2>1. Bytes(c.number, W64) = Bytes(d.number, W64)
    BY <1>9 DEF PayloadOf
  <2>2. Fits(c.number, W64) /\ Fits(d.number, W64)
    BY <1>1, <1>2, <1>9
  <2>3. c.number = d.number
    BY <1>1, <1>2, <2>1, <2>2, Widths, NumberOfBytes
  <2>4. Arguments(c.op) = {"id", "number"}
    BY <1>9 DEF Arguments
  <2>5. c["id"] = d["id"] /\ c["number"] = d["number"]
    BY <2>3
  <2> QED BY <2>4, <2>5 DEF SaysTheSame
<1>10. CASE c.op = "derive"
  <2> DEFINE w == <<W16, W32>>
             a == <<c.type, Len(c.data)>>
             b == <<d.type, Len(d.data)>>
  <2>1. /\ w \in Seq(Nat) /\ Len(w) = 2 /\ w[1] = W16 /\ w[2] = W32
        /\ a \in Seq(Nat) /\ Len(a) = 2 /\ a[1] = c.type
        /\ b \in Seq(Nat) /\ Len(b) = 2 /\ b[1] = d.type
    BY <1>1, <1>2, <1>5, Widths
  <2>2. p = Packed(w, a) \o c.data /\ q = Packed(w, b) \o d.data
    BY <1>10 DEF PayloadOf
  <2> HIDE DEF p, q, w, a, b
  <2>3. Led(p, w, a, c.data) /\ Led(p, w, b, d.data)
    BY <1>1, <1>2, <1>3, <2>1, <2>2, PayloadLed
  <2>4. /\ \A k \in 1..Len(w) : Fits(a[k], w[k]) /\ Fits(b[k], w[k]) => a[k] = b[k]
        /\ c.data = d.data
    BY <2>3, PartsEqual
  <2>5. c.type = d.type
    <3>1. 1 \in 1..Len(w)
      BY <2>1
    <3> QED BY <1>1, <1>2, <2>1, <2>4, <3>1
  <2>6. Arguments(c.op) = {"id", "type", "data"}
    BY <1>10 DEF Arguments
  <2>7. c["id"] = d["id"] /\ c["type"] = d["type"] /\ c["data"] = d["data"]
    BY <2>4, <2>5
  <2> QED BY <2>6, <2>7 DEF SaysTheSame
<1>11. CASE c.op = "address"
  <2>1. c.data = d.data
    BY <1>11 DEF PayloadOf
  <2>2. c.method = d.method
    BY <1>11 DEF MethodOf
  <2>3. Arguments(c.op) = {"id", "method", "data"}
    BY <1>11 DEF Arguments
  <2>4. c["id"] = d["id"] /\ c["method"] = d["method"] /\ c["data"] = d["data"]
    BY <2>1, <2>2
  <2> QED BY <2>3, <2>4 DEF SaysTheSame
<1>12. ASSUME c.op \in {"history", "suffix", "append"}
       PROVE  c.blocks = d.blocks /\ (c.op # "history" => c.number = d.number)
  <2> DEFINE w == Fields(ListHead(c))
             a == ListHead(c)
             b == ListHead(d)
  <2>1. Len(c.blocks) <= U32Max /\ Len(d.blocks) <= U32Max
    BY <1>12 DEF Checked
  <2>2. Fits(Len(c.blocks), W32) /\ Fits(Len(d.blocks), W32)
    BY <1>5, <2>1, LengthFits
  <2>3. /\ a \in Seq(Nat) /\ w \in Seq(Nat) /\ Len(w) = Len(a)
        /\ b \in Seq(Nat) /\ Len(b) = Len(a) /\ Fields(b) = w
    <3>1. Len(a) = Len(b)
      BY <1>12 DEF ListHead
    <3> HIDE DEF a, b
    <3>2. Fields(b) = Fields(a)
      BY <3>1 DEF Fields
    <3> QED BY <3>1, <3>2, ListHeadFacts DEF a, b
  <2>4. p = Packed(w, a) \o List(c.blocks) /\ q = Packed(Fields(b), b) \o List(d.blocks)
    BY <1>12 DEF PayloadOf
  <2>5. \A k \in 1..Len(w) : w[k] = W32
    BY <2>3 DEF Fields
  <2>6. CASE c.op = "history"
    <3>1. Len(a) = 1 /\ a[1] = Len(c.blocks) /\ b[1] = Len(d.blocks)
      BY <2>6 DEF ListHead
    <3> HIDE DEF p, q, w, a, b
    <3>2. Led(p, w, a, List(c.blocks)) /\ Led(p, w, b, List(d.blocks))
      BY <1>1, <1>2, <1>3, <2>3, <2>4, ListType, PayloadLed
    <3>3. /\ \A k \in 1..Len(w) : Fits(a[k], w[k]) /\ Fits(b[k], w[k]) => a[k] = b[k]
          /\ List(c.blocks) = List(d.blocks) /\ Len(List(c.blocks)) <= Len(p)
      BY <3>2, PartsEqual
    <3>4. Len(c.blocks) = Len(d.blocks)
      <4>1. 1 \in 1..Len(w)
        BY <2>3, <3>1
      <4> QED BY <2>2, <2>5, <3>1, <3>3, <4>1
    <3>5. Len(List(c.blocks)) <= U32Max
      <4>1. Len(List(c.blocks)) \in Nat
        BY <1>1, ListType, LenProperties
      <4> QED BY <1>3, <1>4, <3>3, <4>1
    <3>6. c.blocks = d.blocks
      BY <1>1, <1>2, <3>3, <3>4, <3>5, ListsSame
    <3> QED BY <2>6, <3>6
  <2>7. CASE c.op # "history"
    <3>1. Len(a) = 2 /\ a[1] = c.number /\ b[1] = d.number
          /\ a[2] = Len(c.blocks) /\ b[2] = Len(d.blocks)
      BY <1>12, <2>7 DEF ListHead
    <3>0. Fits(c.number, W32) /\ Fits(d.number, W32)
      BY <1>1, <1>2, <1>12
    <3> HIDE DEF p, q, w, a, b
    <3>2. Led(p, w, a, List(c.blocks)) /\ Led(p, w, b, List(d.blocks))
      BY <1>1, <1>2, <1>3, <2>3, <2>4, ListType, PayloadLed
    <3>3. /\ \A k \in 1..Len(w) : Fits(a[k], w[k]) /\ Fits(b[k], w[k]) => a[k] = b[k]
          /\ List(c.blocks) = List(d.blocks) /\ Len(List(c.blocks)) <= Len(p)
      BY <3>2, PartsEqual
    <3>4. Len(c.blocks) = Len(d.blocks) /\ c.number = d.number
      <4>1. 1 \in 1..Len(w) /\ 2 \in 1..Len(w)
        BY <2>3, <3>1
      <4> QED BY <2>2, <2>5, <3>0, <3>1, <3>3, <4>1
    <3>5. Len(List(c.blocks)) <= U32Max
      <4>1. Len(List(c.blocks)) \in Nat
        BY <1>1, ListType, LenProperties
      <4> QED BY <1>3, <1>4, <3>3, <4>1
    <3>6. c.blocks = d.blocks
      BY <1>1, <1>2, <3>3, <3>4, <3>5, ListsSame
    <3> QED BY <3>4, <3>6
  <2> QED BY <2>6, <2>7
<1>13. CASE c.op = "history"
  <2>1. Arguments(c.op) = {"id", "blocks"}
    BY <1>13 DEF Arguments
  <2>2. c["id"] = d["id"] /\ c["blocks"] = d["blocks"]
    BY <1>12, <1>13
  <2> QED BY <2>1, <2>2 DEF SaysTheSame
<1>14. CASE c.op \in {"suffix", "append"}
  <2>1. Arguments(c.op) = {"id", "number", "blocks"}
    BY <1>14 DEF Arguments
  <2>2. c["id"] = d["id"] /\ c["number"] = d["number"] /\ c["blocks"] = d["blocks"]
    BY <1>12, <1>14
  <2> QED BY <2>1, <2>2 DEF SaysTheSame
<1>15. CASE c.op = "begin"
  <2> DEFINE w == <<W32, W32>>
             a == <<c.number, c.count>>
             b == <<d.number, d.count>>
             e == <<>>
  <2>1. /\ w \in Seq(Nat) /\ Len(w) = 2 /\ w[1] = W32 /\ w[2] = W32
        /\ a \in Seq(Nat) /\ Len(a) = 2 /\ a[1] = c.number /\ a[2] = c.count
        /\ b \in Seq(Nat) /\ Len(b) = 2 /\ b[1] = d.number /\ b[2] = d.count
        /\ Fits(c.number, W32) /\ Fits(d.number, W32)
    BY <1>1, <1>2, <1>15, Widths
  <2>2. p = Packed(w, a) /\ q = Packed(w, b)
    BY <1>15 DEF PayloadOf
  <2> HIDE DEF p, q, w, a, b
  <2>3. p = Packed(w, a) \o e /\ q = Packed(w, b) \o e /\ e \in Seq(Byte)
    <3> DEFINE S == Seq(Byte)
    <3>1. p \in Seq(Byte) /\ q \in Seq(Byte)
      BY <1>3
    <3>2. p \o <<>> = p /\ q \o <<>> = q
      BY <3>1, ConcatEmptySeq
    <3> QED BY <2>2, <3>2
  <2> HIDE DEF e
  <2>4. Led(p, w, a, e) /\ Led(p, w, b, e)
    BY <1>3, <2>1, <2>3, PayloadLed
  <2>5. \A k \in 1..Len(w) : Fits(a[k], w[k]) /\ Fits(b[k], w[k]) => a[k] = b[k]
    BY <2>4, PartsEqual
  <2>6. c.number = d.number /\ c.count = d.count
    <3>1. 1 \in 1..Len(w) /\ 2 \in 1..Len(w)
      BY <2>1
    <3> QED BY <1>1, <1>2, <2>1, <2>5, <3>1
  <2>7. Arguments(c.op) = {"id", "number", "count"}
    BY <1>15 DEF Arguments
  <2>8. c["id"] = d["id"] /\ c["number"] = d["number"] /\ c["count"] = d["count"]
    BY <2>6
  <2> QED BY <2>7, <2>8 DEF SaysTheSame
<1> QED BY <1>6, <1>7, <1>8, <1>9, <1>10, <1>11, <1>13, <1>14, <1>15 DEF StncOps

\* What a frame of a peer's call consists of.
TypeOf(c) == IF c.op = "bare" THEN c.method ELSE c.op
WidthsOf(type) ==
  CASE type = "hello"       -> <<IdSize, IdSize, W32>>
    [] type = "get_headers" -> <<W32, W32>>
    [] type = "get_block"   -> <<W32>>
    [] OTHER                -> <<>>
NumbersOf(c) ==
  CASE c.op = "hello"       -> <<c.parent, c.work, c.number>>
    [] c.op = "get_headers" -> <<c.number, c.count>>
    [] c.op = "get_block"   -> <<c.number>>
    [] OTHER                -> <<>>
AskTypes == {"hello", "get_headers", "get_block", "state", "get_peers"}

\* The header of such a frame.
FrameHead(c) ==
  <<StnpMagic, Version, Type[TypeOf(c)], Len(Packed(WidthsOf(TypeOf(c)), NumbersOf(c)))>>

\* A frame of a call of a peer.
IsFrame(c, frame) ==
  /\ TypeOf(c) \in AskTypes
  /\ Led(frame, StnpHeader \o WidthsOf(TypeOf(c)), FrameHead(c) \o NumbersOf(c), <<>>)

\* Its parts are numbers, as many as widths, and fit.
LEMMA NumbersFacts ==
  ASSUME NEW c, IsCall(c), c.op \in StnpOps
  PROVE  /\ TypeOf(c) \in AskTypes
         /\ NumbersOf(c) \in Seq(Nat) /\ WidthsOf(TypeOf(c)) \in Seq(Nat)
         /\ Len(NumbersOf(c)) = Len(WidthsOf(TypeOf(c)))
         /\ \A k \in 1..Len(NumbersOf(c)) : Fits(NumbersOf(c)[k], WidthsOf(TypeOf(c))[k])
<1> DEFINE a == NumbersOf(c)
           w == WidthsOf(TypeOf(c))
<1>1. /\ c.parent \in Nat /\ c.work \in Nat /\ c.number \in Nat /\ c.count \in Nat
      /\ Fits(c.parent, IdSize) /\ Fits(c.work, IdSize) /\ Fits(c.count, W32)
      /\ Fits(c.number, IF c.op = "height" THEN W64 ELSE W32)
      /\ (c.op = "bare" => c.method \in {"state", "get_peers"})
  BY DEF IsCall
<1>2. W32 \in Nat /\ IdSize \in Nat
  BY Widths
<1>3. c.op \in {"hello", "get_headers", "get_block", "bare"}
  BY DEF StnpOps
<1>4. Fits(c.number, W32)
  BY <1>1, <1>3
<1>5. CASE c.op = "hello"
  <2>1. TypeOf(c) = "hello"
    BY <1>5 DEF TypeOf
  <2>2. a = <<c.parent, c.work, c.number>>
    BY <1>5 DEF NumbersOf
  <2>3. w = <<IdSize, IdSize, W32>>
    BY <2>1 DEF WidthsOf
  <2>4. a \in Seq(Nat) /\ w \in Seq(Nat) /\ Len(a) = 3 /\ Len(w) = 3
        /\ a[1] = c.parent /\ a[2] = c.work /\ a[3] = c.number
        /\ w[1] = IdSize /\ w[2] = IdSize /\ w[3] = W32
    BY <1>1, <1>2, <2>2, <2>3
  <2> HIDE DEF a, w
  <2>5. \A k \in 1..Len(a) : k = 1 \/ k = 2 \/ k = 3
    BY <2>4
  <2>6. \A k \in 1..Len(a) : Fits(a[k], w[k])
    BY <1>1, <1>4, <2>4, <2>5, Zenon
  <2> QED BY <2>1, <2>4, <2>6 DEF a, w, AskTypes
<1>6. CASE c.op = "get_headers"
  <2>1. TypeOf(c) = "get_headers"
    BY <1>6 DEF TypeOf
  <2>2. a = <<c.number, c.count>>
    BY <1>6 DEF NumbersOf
  <2>3. w = <<W32, W32>>
    BY <2>1 DEF WidthsOf
  <2>4. a \in Seq(Nat) /\ w \in Seq(Nat) /\ Len(a) = 2 /\ Len(w) = 2
        /\ a[1] = c.number /\ a[2] = c.count /\ w[1] = W32 /\ w[2] = W32
    BY <1>1, <1>2, <2>2, <2>3
  <2> HIDE DEF a, w
  <2>5. \A k \in 1..Len(a) : k = 1 \/ k = 2
    BY <2>4
  <2>6. \A k \in 1..Len(a) : Fits(a[k], w[k])
    BY <1>1, <1>4, <2>4, <2>5, Zenon
  <2> QED BY <2>1, <2>4, <2>6 DEF a, w, AskTypes
<1>7. CASE c.op = "get_block"
  <2>1. TypeOf(c) = "get_block"
    BY <1>7 DEF TypeOf
  <2>2. a = <<c.number>>
    BY <1>7 DEF NumbersOf
  <2>3. w = <<W32>>
    BY <2>1 DEF WidthsOf
  <2>4. a \in Seq(Nat) /\ w \in Seq(Nat) /\ Len(a) = 1 /\ Len(w) = 1
        /\ a[1] = c.number /\ w[1] = W32
    BY <1>1, <1>2, <2>2, <2>3
  <2> HIDE DEF a, w
  <2>5. \A k \in 1..Len(a) : k = 1
    BY <2>4
  <2>6. \A k \in 1..Len(a) : Fits(a[k], w[k])
    BY <1>4, <2>4, <2>5, Zenon
  <2> QED BY <2>1, <2>4, <2>6 DEF a, w, AskTypes
<1>8. CASE c.op = "bare"
  <2>1. TypeOf(c) \in {"state", "get_peers"}
    BY <1>1, <1>8 DEF TypeOf
  <2>2. a = <<>>
    BY <1>8 DEF NumbersOf
  <2>3. w = <<>>
    BY <2>1 DEF WidthsOf
  <2> QED BY <2>1, <2>2, <2>3 DEF AskTypes
<1> QED BY <1>3, <1>5, <1>6, <1>7, <1>8

\* The header and what follows, number by number.
LEMMA HeadJoined ==
  ASSUME NEW h \in Seq(Nat), Len(h) = 4, NEW a \in Seq(Nat)
  PROVE  /\ h \o a \in Seq(Nat) /\ Len(h \o a) = 4 + Len(a) /\ Len(a) \in Nat
         /\ (h \o a)[1] = h[1] /\ (h \o a)[2] = h[2] /\ (h \o a)[3] = h[3]
         /\ \A k \in 1..Len(a) : 4 + k \in 1..Len(h \o a) /\ (h \o a)[4 + k] = a[k]
<1> DEFINE j == h \o a
<1>1. Len(a) \in Nat
  BY LenProperties
<1>2. /\ j \in Seq(Nat) /\ Len(j) = 4 + Len(a)
      /\ \A i \in 1..4 + Len(a) : j[i] = IF i <= 4 THEN h[i] ELSE a[i - 4]
  <2>1. /\ j \in Seq(Nat) /\ Len(j) = Len(h) + Len(a)
        /\ \A i \in 1..Len(h) + Len(a) : j[i] = IF i <= Len(h) THEN h[i] ELSE a[i - Len(h)]
    BY ConcatProperties
  <2>2. Len(h) = 4
    OBVIOUS
  <2> HIDE DEF j
  <2> QED BY <2>1, <2>2, Zenon
<1> HIDE DEF j
<1>3. 1 \in 1..4 + Len(a) /\ 2 \in 1..4 + Len(a) /\ 3 \in 1..4 + Len(a)
  BY <1>1
<1>4. j[1] = h[1] /\ j[2] = h[2] /\ j[3] = h[3]
  BY <1>2, <1>3
<1>5. ASSUME NEW k \in 1..Len(a) PROVE 4 + k \in 1..Len(j) /\ j[4 + k] = a[k]
  <2>1. 4 + k \in 1..4 + Len(a) /\ ~(4 + k <= 4) /\ (4 + k) - 4 = k
    BY <1>1
  <2> QED BY <1>2, <2>1
<1> QED BY <1>1, <1>2, <1>4, <1>5 DEF j

\* The header of a call.
LEMMA FrameHeadFacts ==
  ASSUME NEW c, IsCall(c), c.op \in StnpOps
  PROVE  /\ FrameHead(c) \in Seq(Nat) /\ Len(FrameHead(c)) = 4
         /\ FrameHead(c)[1] = StnpMagic /\ FrameHead(c)[3] = Type[TypeOf(c)]
<1> DEFINE length == Len(Packed(WidthsOf(TypeOf(c)), NumbersOf(c)))
<1>1. length \in Nat
  BY NumbersFacts, PackedType, LenProperties
<1>2. Type[TypeOf(c)] \in Nat
  <2>1. TypeOf(c) \in AskTypes
    BY NumbersFacts
  <2> QED BY <2>1 DEF Type, AskTypes
<1>3. StnpMagic \in Nat /\ Version \in Nat
  BY StnpAssumption, WireAssumption DEF StnpAssumption, WireAssumption
<1> DEFINE t == Type[TypeOf(c)]
<1>4. FrameHead(c) = <<StnpMagic, Version, t, length>>
  BY DEF FrameHead
<1> HIDE DEF length, t
<1>5. t \in Nat
  BY <1>2 DEF t
<1>6. <<StnpMagic, Version, t, length>> \in Seq(Nat) /\ Len(<<StnpMagic, Version, t, length>>) = 4
  BY <1>1, <1>3, <1>5
<1> QED BY <1>4, <1>6 DEF t

\* Every encoder of STNP writes such a frame, or nothing.
LEMMA StnpFrameOf ==
  ASSUME NEW c, IsCall(c), c.op \in StnpOps, NEW capacity \in Nat,
         EncodeStnp(c, capacity) # Refused
  PROVE  IsFrame(c, EncodeStnp(c, capacity))
<1> DEFINE type == TypeOf(c)
           a == NumbersOf(c)
           w == WidthsOf(type)
           frame == Packed(StnpHeader \o w, FrameHead(c) \o a)
<1>1. EncodeStnp(c, capacity) = StnpFrame(type, a, w, capacity)
  <2>1. c.op \in {"hello", "get_headers", "get_block", "bare"}
    BY DEF StnpOps
  <2>2. CASE c.op = "hello"
    BY <2>2 DEF EncodeStnp, EncodeHello, TypeOf, WidthsOf, NumbersOf
  <2>3. CASE c.op = "get_headers"
    <3>1. EncodeStnp(c, capacity) = EncodeGetHeaders(c, capacity)
      BY <2>3 DEF EncodeStnp
    <3>2. EncodeGetHeaders(c, capacity)
            = StnpFrame("get_headers", <<c.number, c.count>>, <<W32, W32>>, capacity)
      BY <3>1, Zenon DEF EncodeGetHeaders
    <3>3. type = "get_headers" /\ a = <<c.number, c.count>>
      BY <2>3 DEF TypeOf, NumbersOf
    <3>4. w = <<W32, W32>>
      BY <3>3 DEF WidthsOf
    <3> HIDE DEF type, a, w
    <3> QED BY <3>1, <3>2, <3>3, <3>4
  <2>4. CASE c.op = "get_block"
    BY <2>4 DEF EncodeStnp, EncodeGetBlock, TypeOf, WidthsOf, NumbersOf
  <2>5. CASE c.op = "bare"
    <3>1. EncodeStnp(c, capacity) = StnpFrame(c.method, <<>>, <<>>, capacity)
      BY <2>5 DEF EncodeStnp, EncodeBare
    <3>2. type = c.method /\ c.method \in {"state", "get_peers"} /\ a = <<>>
      BY <2>5 DEF IsCall, TypeOf, NumbersOf
    <3>3. w = <<>>
      BY <3>2 DEF WidthsOf
    <3> HIDE DEF type, a, w
    <3> QED BY <3>1, <3>2, <3>3
  <2> QED BY <2>1, <2>2, <2>3, <2>4, <2>5
<1>2. StnpFrame(type, a, w, capacity) = IF capacity < Len(frame) THEN Refused ELSE frame
  BY DEF StnpFrame, FrameHead
<1>3. EncodeStnp(c, capacity) = frame
  <2> HIDE DEF frame, type, a, w
  <2> QED BY <1>1, <1>2
<1>4. type \in AskTypes /\ a \in Seq(Nat) /\ w \in Seq(Nat) /\ Len(a) = Len(w)
  BY NumbersFacts
<1>5. StnpHeader \in Seq(Nat) /\ Len(StnpHeader) = 4
  BY Widths DEF StnpHeader
<1>6. /\ FrameHead(c) \o a \in Seq(Nat) /\ StnpHeader \o w \in Seq(Nat)
      /\ Len(FrameHead(c) \o a) = Len(StnpHeader \o w)
  <2>1. FrameHead(c) \o a \in Seq(Nat) /\ Len(FrameHead(c) \o a) = 4 + Len(a)
    BY <1>4, FrameHeadFacts, HeadJoined
  <2>2. StnpHeader \o w \in Seq(Nat) /\ Len(StnpHeader \o w) = 4 + Len(w)
    BY <1>4, <1>5, HeadJoined
  <2> QED BY <1>4, <2>1, <2>2
<1>7. AreNumbers(StnpHeader \o w, FrameHead(c) \o a)
  BY <1>6 DEF AreNumbers
<1>8. frame \in Seq(Byte)
  BY <1>6, PackedType
<1>9. frame = frame \o <<>>
  <2> HIDE DEF frame
  <2> QED BY <1>8, ConcatEmptySeq
<1>10. <<>> \in Seq(Byte)
  OBVIOUS
<1>11. Led(frame, StnpHeader \o w, FrameHead(c) \o a, <<>>)
  BY <1>6, <1>7, <1>9, <1>10 DEF Led
<1> HIDE DEF frame
<1> QED BY <1>3, <1>4, <1>11 DEF IsFrame

\* A frame has the magic number of its protocol.
Marked(f, magic) == f \in Seq(Byte) /\ 4 <= Len(f) /\ At(f, 0, 4) = magic

\* What is led by a first number of four bytes has it.
LEMMA LedMarked ==
  ASSUME NEW f, NEW widths, NEW numbers, NEW rest, Led(f, widths, numbers, rest),
         Len(widths) \in Nat \ {0}, widths[1] = 4, Fits(numbers[1], 4)
  PROVE  Marked(f, numbers[1])
<1>1. InPlace(f, widths, numbers, rest)
  BY LedFacts
<1>2. 1 \in 1..Len(widths) /\ Ends(widths)[0] = 0
  BY EndsAre DEF Led
<1>3. /\ f \in Seq(Byte) /\ Size(widths) \in Nat /\ Len(f) = Size(widths) + Len(rest)
      /\ Ends(widths)[1 - 1] + widths[1] <= Size(widths)
      /\ At(f, Ends(widths)[1 - 1], widths[1]) = numbers[1]
  BY <1>1, <1>2 DEF InPlace
<1>4. Len(rest) \in Nat /\ 1 - 1 = 0
  BY LenProperties DEF Led
<1>5. 4 <= Size(widths) /\ At(f, 0, 4) = numbers[1]
  BY <1>2, <1>3, <1>4
<1> QED BY <1>3, <1>4, <1>5 DEF Marked

\* A frame of a peer's call and its type.
LEMMA FrameMarked ==
  ASSUME NEW c, IsCall(c), c.op \in StnpOps, NEW f, IsFrame(c, f)
  PROVE  /\ Marked(f, StnpMagic) /\ 4 + 2 * W16 <= Len(f)
         /\ At(f, 4 + W16, W16) = Type[TypeOf(c)]
<1> DEFINE w == StnpHeader \o WidthsOf(TypeOf(c))
           a == FrameHead(c) \o NumbersOf(c)
<1>1. Led(f, w, a, <<>>) /\ TypeOf(c) \in AskTypes
  BY DEF IsFrame
<1>2. StnpHeader \in Seq(Nat) /\ Len(StnpHeader) = 4
      /\ StnpHeader[1] = 4 /\ StnpHeader[2] = W16 /\ StnpHeader[3] = W16 /\ StnpHeader[4] = W32
  BY Widths DEF StnpHeader
<1>3. WidthsOf(TypeOf(c)) \in Seq(Nat) /\ NumbersOf(c) \in Seq(Nat)
  BY NumbersFacts
<1>4. /\ w \in Seq(Nat) /\ Len(w) = 4 + Len(WidthsOf(TypeOf(c)))
      /\ Len(WidthsOf(TypeOf(c))) \in Nat /\ w[1] = 4 /\ w[2] = W16 /\ w[3] = W16
  BY <1>2, <1>3, HeadJoined
<1>5. a[1] = StnpMagic /\ a[3] = Type[TypeOf(c)]
  BY <1>3, FrameHeadFacts, HeadJoined
<1>6. Fits(StnpMagic, 4) /\ Fits(Type[TypeOf(c)], W16)
  BY <1>1, StnpAssumption DEF StnpAssumption, AskTypes, Type
<1> HIDE DEF w, a
<1>7. Marked(f, a[1])
  BY <1>1, <1>4, <1>5, <1>6, LedMarked
<1>8. InPlace(f, w, a, <<>>)
  BY <1>1, LedFacts
<1>9. Sums(w, Ends(w))
  BY <1>4, FirstEnds
<1>10. Ends(w)[2] = 4 + W16
  BY <1>4, <1>9 DEF Sums
<1>11. 3 \in 1..Len(w) /\ 3 - 1 = 2
  BY <1>4
<1>12. /\ Ends(w)[2] + W16 <= Size(w)
       /\ At(f, Ends(w)[2], W16) = a[3]
       /\ Len(f) = Size(w) + Len(<<>>) /\ Size(w) \in Nat
  <2>1. Ends(w)[3 - 1] + w[3] <= Size(w)
        /\ (Fits(a[3], w[3]) => At(f, Ends(w)[3 - 1], w[3]) = a[3])
        /\ Len(f) = Size(w) + Len(<<>>) /\ Size(w) \in Nat
    BY <1>8, <1>11 DEF InPlace
  <2> QED BY <1>4, <1>5, <1>6, <1>11, <2>1
<1>13. W16 \in Nat /\ Len(<<>>) = 0
  BY Widths
<1> QED BY <1>5, <1>7, <1>10, <1>12, <1>13

\* A request has the other magic number.
LEMMA RequestMarked ==
  ASSUME NEW c, IsCall(c), NEW f, NEW capacity \in Nat, IsRequest(c, f, capacity), f # Refused
  PROVE  Marked(f, StncMagic)
<1> DEFINE h == RequestHead(MethodOf(c), c.id, Len(PayloadOf(c)))
           w == HeaderLayout.head
<1>1. /\ MethodOf(c) \in Methods /\ PayloadOf(c) \in Seq(Byte) /\ c.id \in Nat
      /\ f = Encode(MethodOf(c), c.id, PayloadOf(c), capacity)
  BY DEF IsRequest, IsCall
<1>2. Led(f, w, h, PayloadOf(c))
  BY <1>1, EncodeLed
<1>3. h[1] = StncMagic /\ w[1] = 4 /\ Len(w) = 7
  BY DEF RequestHead, HeaderLayout, Fixed, Layout
<1>4. Fits(StncMagic, 4)
  BY StncAssumption DEF StncAssumption
<1> HIDE DEF h, w
<1> QED BY <1>2, <1>3, <1>4, LedMarked

\* Different frames of calls of a peer do not begin each other.
LEMMA FramesSame ==
  ASSUME NEW c, IsCall(c), c.op \in StnpOps, NEW d, IsCall(d), d.op \in StnpOps,
         NEW f, IsFrame(c, f), NEW g, IsFrame(d, g), Starts(f, g)
  PROVE  SaysTheSame(c, d)
<1> DEFINE t == TypeOf(c)
           a == NumbersOf(c)
           b == NumbersOf(d)
           w == WidthsOf(t)
<1>1. /\ f \in Seq(Byte) /\ 4 + 2 * W16 <= Len(f) /\ At(f, 4 + W16, W16) = Type[t]
  BY FrameMarked DEF Marked
<1>2. g \in Seq(Byte) /\ At(g, 4 + W16, W16) = Type[TypeOf(d)]
  BY FrameMarked DEF Marked
<1>3. At(f, 4 + W16, W16) = At(g, 4 + W16, W16)
  <2>1. 4 + W16 \in Nat /\ W16 \in Nat /\ (4 + W16) + W16 <= Len(f)
    BY <1>1, Widths, LenProperties
  <2> QED BY <1>1, <1>2, <2>1, AtStarts
<1>4. t = TypeOf(d)
  <2>1. t \in AskTypes /\ TypeOf(d) \in AskTypes
    BY NumbersFacts
  <2>2. Type[t] = Type[TypeOf(d)]
    BY <1>1, <1>2, <1>3
  <2>3. \A x, y \in AskTypes : Type[x] = Type[y] => x = y
    BY DEF AskTypes, Type
  <2> HIDE DEF t
  <2> QED BY <2>1, <2>2, <2>3
<1>5. c.op = d.op /\ (c.op = "bare" => c.method = d.method)
  BY <1>4 DEF TypeOf, StnpOps, IsCall
<1>6. /\ a \in Seq(Nat) /\ b \in Seq(Nat) /\ w \in Seq(Nat) /\ Len(a) = Len(w) /\ Len(b) = Len(w)
      /\ (\A k \in 1..Len(a) : Fits(a[k], w[k])) /\ (\A k \in 1..Len(b) : Fits(b[k], w[k]))
  BY <1>4, NumbersFacts
<1>7. \A k \in 1..Len(w) : a[k] = b[k]
  <2> DEFINE u == StnpHeader \o w
             x == FrameHead(c) \o a
             y == FrameHead(d) \o b
  <2>1. Led(f, u, x, <<>>) /\ Led(g, u, y, <<>>)
    BY <1>4 DEF IsFrame
  <2>2. StnpHeader \in Seq(Nat) /\ Len(StnpHeader) = 4
    BY Widths DEF StnpHeader
  <2>3. \A k \in 1..Len(w) : 4 + k \in 1..Len(u) /\ u[4 + k] = w[k]
    BY <1>6, <2>2, HeadJoined
  <2>0. /\ FrameHead(c) \in Seq(Nat) /\ Len(FrameHead(c)) = 4
        /\ FrameHead(d) \in Seq(Nat) /\ Len(FrameHead(d)) = 4
    BY FrameHeadFacts
  <2>4. \A k \in 1..Len(a) : x[4 + k] = a[k]
    <3> DEFINE h == FrameHead(c)
    <3>1. h \in Seq(Nat) /\ Len(h) = 4 /\ a \in Seq(Nat)
      BY <1>6, <2>0
    <3> HIDE DEF a, w, b, h
    <3>2. \A k \in 1..Len(a) : (h \o a)[4 + k] = a[k]
      BY <3>1, HeadJoined
    <3> QED BY <3>2 DEF h
  <2>5. \A k \in 1..Len(b) : y[4 + k] = b[k]
    <3> DEFINE h == FrameHead(d)
    <3>1. h \in Seq(Nat) /\ Len(h) = 4 /\ b \in Seq(Nat)
      BY <1>6, <2>0
    <3> HIDE DEF a, w, b, h
    <3>2. \A k \in 1..Len(b) : (h \o b)[4 + k] = b[k]
      BY <3>1, HeadJoined
    <3> QED BY <3>2 DEF h
  <2> HIDE DEF u, x, y, a, b, w
  <2>6. \A k \in 1..Len(u) : Fits(x[k], u[k]) /\ Fits(y[k], u[k]) => x[k] = y[k]
    BY <2>1, PartsSame
  <2> SUFFICES ASSUME NEW k \in 1..Len(w) PROVE a[k] = b[k]
    OBVIOUS
  <2>7. 4 + k \in 1..Len(u) /\ u[4 + k] = w[k] /\ x[4 + k] = a[k] /\ y[4 + k] = b[k]
    BY <1>6, <2>3, <2>4, <2>5
  <2>8. Fits(a[k], w[k]) /\ Fits(b[k], w[k])
    BY <1>6
  <2> QED BY <2>6, <2>7, <2>8
<1>8. a = b
  BY <1>6, <1>7, SeqEqual
<1>9. CASE c.op = "hello"
  <2>1. <<c.parent, c.work, c.number>> = <<d.parent, d.work, d.number>>
    BY <1>5, <1>8, <1>9 DEF NumbersOf
  <2>2. c["parent"] = d["parent"] /\ c["work"] = d["work"] /\ c["number"] = d["number"]
    BY <2>1
  <2>3. Arguments(c.op) = {"parent", "work", "number"}
    BY <1>9 DEF Arguments
  <2> QED BY <1>5, <2>2, <2>3 DEF SaysTheSame
<1>10. CASE c.op = "get_headers"
  <2>1. <<c.number, c.count>> = <<d.number, d.count>>
    BY <1>5, <1>8, <1>10 DEF NumbersOf
  <2>2. c["number"] = d["number"] /\ c["count"] = d["count"]
    BY <2>1
  <2>3. Arguments(c.op) = {"number", "count"}
    BY <1>10 DEF Arguments
  <2> QED BY <1>5, <2>2, <2>3 DEF SaysTheSame
<1>11. CASE c.op = "get_block"
  <2>1. <<c.number>> = <<d.number>>
    BY <1>5, <1>8, <1>11 DEF NumbersOf
  <2>2. c["number"] = d["number"]
    BY <2>1
  <2>3. Arguments(c.op) = {"number"}
    BY <1>11 DEF Arguments
  <2> QED BY <1>5, <2>2, <2>3 DEF SaysTheSame
<1>12. CASE c.op = "bare"
  <2>1. c["method"] = d["method"]
    BY <1>5, <1>12
  <2>2. Arguments(c.op) = {"method"}
    BY <1>12 DEF Arguments
  <2> QED BY <1>5, <2>1, <2>2 DEF SaysTheSame
<1> QED BY <1>9, <1>10, <1>11, <1>12 DEF StnpOps

\* No frame begins the frame of a call that says something else.
LEMMA Distinct ==
  ASSUME NEW c \in Calls, NEW d \in Calls, NEW n \in Capacities, NEW m \in Capacities,
         Frame(c, n) # Refused, Frame(d, m) # Refused, IsPrefix(Frame(c, n), Frame(d, m))
  PROVE  SaysTheSame(c, d)
<1> DEFINE f == Frame(c, n)
           g == Frame(d, m)
<1>1. /\ IsCall(c) /\ IsCall(d) /\ n \in Nat /\ m \in Nat
      /\ c.op \in StncOps \cup StnpOps /\ d.op \in StncOps \cup StnpOps
  BY CallTypes, BufferAssumption DEF BufferAssumption, IsCall
<1>2. f \in Seq(Byte) /\ g \in Seq(Byte)
  BY FrameFits DEF InBuffer
<1>3. Starts(f, g)
  BY <1>2, PrefixStarts
<1>4. \A x : ~(x \in StncOps /\ x \in StnpOps)
  BY DEF StncOps, StnpOps
<1>5. c.op \in StnpOps => IsFrame(c, f) /\ Marked(f, StnpMagic)
  BY <1>1, StnpFrameOf, FrameMarked DEF Frame
<1>6. d.op \in StnpOps => IsFrame(d, g) /\ Marked(g, StnpMagic)
  BY <1>1, StnpFrameOf, FrameMarked DEF Frame
<1>7. c.op \in StncOps => IsRequest(c, f, n) /\ Marked(f, StncMagic)
  BY <1>1, <1>4, StncRequest, RequestMarked DEF Frame
<1>8. d.op \in StncOps => IsRequest(d, g, m) /\ Marked(g, StncMagic)
  BY <1>1, <1>4, StncRequest, RequestMarked DEF Frame
<1>9. f # Refused /\ g # Refused
  OBVIOUS
<1> HIDE DEF f, g
<1>10. \A x, y : Marked(f, x) /\ Marked(g, y) => x = y
  <2> SUFFICES ASSUME NEW x, NEW y, Marked(f, x), Marked(g, y) PROVE x = y
    OBVIOUS
  <2>1. 4 <= Len(f) /\ At(f, 0, 4) = x /\ At(g, 0, 4) = y
    BY DEF Marked
  <2>2. 0 \in Nat /\ 4 \in Nat /\ 0 + 4 <= Len(f)
    BY <2>1
  <2> QED BY <1>2, <1>3, <2>1, <2>2, AtStarts
<1>11. StnpMagic # StncMagic
  BY StnpAssumption DEF StnpAssumption
<1>12. CASE c.op \in StnpOps
  <2>1. d.op \in StnpOps
    BY <1>1, <1>5, <1>8, <1>10, <1>11, <1>12
  <2> QED BY <1>1, <1>3, <1>5, <1>6, <1>12, <2>1, FramesSame
<1>13. CASE c.op \in StncOps
  <2>1. d.op \in StncOps
    BY <1>1, <1>6, <1>7, <1>10, <1>11, <1>13
  <2>2. IsRequest(c, f, n) /\ IsRequest(d, g, m)
    BY <1>7, <1>8, <1>13, <2>1
  <2> DEFINE p == PayloadOf(c)
             q == PayloadOf(d)
             x == MethodOf(c)
             y == MethodOf(d)
  <2>3. /\ x \in Methods /\ OpOf(x) = c.op /\ p \in Seq(Byte) /\ Checked(c)
        /\ f = Encode(x, c.id, p, n)
    BY <2>2 DEF IsRequest
  <2>4. /\ y \in Methods /\ OpOf(y) = d.op /\ q \in Seq(Byte) /\ Checked(d)
        /\ g = Encode(y, d.id, q, m)
    BY <2>2 DEF IsRequest
  <2>5. c.id \in Nat /\ d.id \in Nat /\ Fits(c.id, W64) /\ Fits(d.id, W64)
    BY <1>1 DEF IsCall
  <2>6. Len(p) <= U32Max
    <3>1. U32Max \in Nat /\ Len(p) \in Nat
      BY <2>3, LargestLength, LenProperties
    <3> HIDE DEF p, x
    <3>2. ~(Len(p) > U32Max)
      BY <1>9, <2>3, Zenon DEF Encode
    <3> QED BY <3>1, <3>2
  <2>7. x = y /\ c.id = d.id /\ p = q
    <3> HIDE DEF p, q, x, y
    <3> QED BY <1>1, <1>3, <1>9, <2>3, <2>4, <2>5, EncodeSame
  <2>8. c.op = d.op
    <3> HIDE DEF x, y
    <3> QED BY <2>3, <2>4, <2>7
  <2> QED BY <1>1, <1>13, <2>3, <2>4, <2>6, <2>7, <2>8, PayloadSame
<1> QED BY <1>1, <1>12, <1>13

-----------------------------------------------------------------------------
(* The invariant                                                           *)

\* What was sent is what the encoders make, and fits its buffer.
SentType ==
  \A i \in 1..Len(sent) :
    /\ sent[i].call \in Calls /\ sent[i].capacity \in Capacities
    /\ sent[i].frame = Frame(sent[i].call, sent[i].capacity)
    /\ InBuffer(sent[i].frame, sent[i].capacity)

\* What the service means, what arrives, and where the exchange is.
AnswerType ==
  /\ pc \in {"idle", "answered", "header", "read", "failed"}
  /\ sent \in Seq([call : Calls, capacity : Capacities, frame : Seq(Byte)])
  /\ answer \in Answers \cup {NoAnswer}
  /\ pc # "idle" => answer \in Answers
  /\ pc = "header" => answer.kind \in Framed
  /\ wire \in Seq(Byte)
  /\ decoded.ok \in BOOLEAN

\* A header read announces no more than the caller has room for.
FollowInv ==
  /\ pc \in {"idle", "header"} => follow = 0
  /\ follow # NoLength /\ answer.kind \in Framed => follow \in 0..PayloadMax(answer.kind)

\* What was decoded is what the bytes that arrived decode to.
ReadInv == pc = "read" => decoded = DecodeOf(answer.kind, wire)

\* An exchange fails only if the bytes are not those of a valid answer.
FailedInv == pc = "failed" => ~(wire = WrittenAs(answer) /\ Valid(answer))

\* All of it.
CodecInv == SentType /\ AnswerType /\ FollowInv /\ ReadInv /\ FailedInv

\* A service's value and what it puts on the wire.
IsAnswer(a) ==
  /\ a.kind \in StncKinds \cup StnpKinds
  /\ a = [kind |-> a.kind, head |-> a.head, rows |-> a.rows]
  /\ Structure(LayoutOf(a.kind), a.head, a.rows)
  /\ a.kind \notin Listed => a.rows = <<>>

\* Every answer is one.
LEMMA AnswerFacts == \A a \in Answers : IsAnswer(a)
<1> SUFFICES ASSUME NEW a \in Answers PROVE IsAnswer(a)
  OBVIOUS
<1>1. /\ a \in [kind : StncKinds \cup StnpKinds, head : Seq(Nat), rows : Seq(Seq(Nat))]
      /\ Holds(LayoutOf(a.kind).head, a.head)
      /\ \A r \in 1..Len(a.rows) : Holds(LayoutOf(a.kind).row, a.rows[r])
      /\ a.kind \notin Listed => a.rows = <<>>
  BY AnswersAssumption DEF AnswersAssumption
<1> QED BY <1>1 DEF IsAnswer, Structure

\* What a service writes is bytes, the decoder takes them all, and if the
\* protocol allows the value, that is the value it gives.
LEMMA WrittenDecoded ==
  ASSUME NEW a, IsAnswer(a)
  PROVE  /\ WrittenAs(a) \in Seq(Byte)
         /\ Valid(a) => DecodeOf(a.kind, WrittenAs(a)) = Decoded(a.head, a.rows)
<1> DEFINE layout == LayoutOf(a.kind)
           b == Written(layout, a.head, a.rows)
           n == Len(a.rows)
           r == Reading(layout, b, n)
<1>1. /\ a.kind \in StncKinds \cup StnpKinds
      /\ a = [kind |-> a.kind, head |-> a.head, rows |-> a.rows]
      /\ Structure(layout, a.head, a.rows)
      /\ a.kind \notin Listed => a.rows = <<>>
  BY DEF IsAnswer
<1>2. IsLayout(layout)
  BY <1>1, Layouts
<1> HIDE DEF layout
<1>3. b \in Seq(Byte) /\ Whole(layout, b, n) /\ r = Decoded(a.head, a.rows)
  BY <1>1, <1>2, WrittenReading
<1>4. WrittenAs(a) = b
  BY DEF WrittenAs, layout
<1>5. Fit(a.kind, b, n)
  <2>1. a.kind \notin Listed => n = 0
    BY <1>1
  <2> HIDE DEF n, b
  <2> QED BY <1>3, <2>1 DEF Fit, layout
<1>6. Value(a.kind, r) = a
  <2>1. Value(a.kind, Decoded(a.head, a.rows)) = [kind |-> a.kind, head |-> a.head, rows |-> a.rows]
    BY DEF Value, Decoded
  <2> HIDE DEF r
  <2> QED BY <1>1, <1>3, <2>1
<1> HIDE DEF b, n
<1>7. Complete(a.kind, b)
  BY <1>1, <1>3, Decoders
<1>8. Valid(a) => DecodeOf(a.kind, b) = Decoded(a.head, a.rows)
  <2> SUFFICES ASSUME Valid(a) PROVE DecodeOf(a.kind, b) = r
    BY <1>3
  <2>1. Valid(Value(a.kind, r))
    BY <1>6
  <2> QED BY <1>5, <1>7, <2>1 DEF Complete, r, layout
<1> QED BY <1>3, <1>4, <1>8

\* The invariant holds at first.
LEMMA InvInit == Init => CodecInv
<1> SUFFICES ASSUME Init PROVE CodecInv
  OBVIOUS
<1>1. /\ pc = "idle" /\ sent = <<>> /\ answer = NoAnswer /\ wire = <<>> /\ follow = 0
      /\ decoded = Rejected
  BY DEF Init
<1>2. NoAnswer.kind \notin Framed
  BY DEF NoAnswer, Framed, StnpKinds
<1>3. decoded.ok = FALSE
  BY <1>1 DEF Rejected
<1>4. SentType
  BY <1>1 DEF SentType
<1>5. AnswerType
  <2>1. sent \in Seq([call : Calls, capacity : Capacities, frame : Seq(Byte)])
    <3> DEFINE S == [call : Calls, capacity : Capacities, frame : Seq(Byte)]
    <3>1. <<>> \in Seq(S)
      <4> HIDE DEF S
      <4> QED OBVIOUS
    <3> QED BY <1>1, <3>1
  <2>2. wire \in Seq(Byte)
    BY <1>1
  <2> QED BY <1>1, <1>3, <2>1, <2>2 DEF AnswerType
<1>6. FollowInv
  BY <1>1, <1>2 DEF FollowInv
<1>7. ReadInv /\ FailedInv
  BY <1>1 DEF ReadInv, FailedInv
<1> QED BY <1>4, <1>5, <1>6, <1>7 DEF CodecInv

\* A request: the frame is what the encoder makes.
LEMMA InvAsk == CodecInv /\ (\E c \in Calls, n \in Capacities : Ask(c, n)) => CodecInv'
<1> SUFFICES ASSUME CodecInv, NEW c \in Calls, NEW n \in Capacities, Ask(c, n) PROVE CodecInv'
  OBVIOUS
<1> DEFINE new == [call |-> c, capacity |-> n, frame |-> Frame(c, n)]
<1>1. /\ pc = "idle" /\ sent' = Append(sent, new)
      /\ pc' = pc /\ answer' = answer /\ wire' = wire /\ follow' = follow /\ decoded' = decoded
  BY DEF Ask
<1>2. SentType /\ AnswerType /\ FollowInv /\ ReadInv /\ FailedInv
  BY DEF CodecInv
<1>3. InBuffer(Frame(c, n), n) /\ Frame(c, n) \in Seq(Byte)
  BY FrameFits DEF InBuffer
<1> DEFINE S == [call : Calls, capacity : Capacities, frame : Seq(Byte)]
<1>4. new \in S /\ new.call = c /\ new.capacity = n /\ new.frame = Frame(c, n)
  BY <1>3
<1>5. sent \in Seq(S)
  BY <1>2 DEF AnswerType
<1> HIDE DEF new, S
<1>6. sent' \in Seq(S) /\ \A i \in 1..Len(sent') : sent'[i] = new \/ (i \in 1..Len(sent) /\ sent'[i] = sent[i])
  BY <1>1, <1>4, <1>5, AppendProperties
<1>7. SentType'
  BY <1>2, <1>3, <1>4, <1>6 DEF SentType
<1>8. AnswerType'
  BY <1>1, <1>2, <1>6 DEF AnswerType, S
<1>9. FollowInv' /\ ReadInv' /\ FailedInv'
  BY <1>1, <1>2 DEF FollowInv, ReadInv, FailedInv, WrittenAs, Valid
<1> QED BY <1>7, <1>8, <1>9 DEF CodecInv

\* An answer: the service writes bytes.
LEMMA InvAnswer == CodecInv /\ (\E a \in Answers : Answer(a)) => CodecInv'
<1> SUFFICES ASSUME CodecInv, NEW a \in Answers, Answer(a) PROVE CodecInv'
  OBVIOUS
<1>1. /\ pc = "idle" /\ answer' = a /\ wire' = WrittenAs(a)
      /\ pc' = IF a.kind \in Framed THEN "header" ELSE "answered"
      /\ sent' = sent /\ follow' = follow /\ decoded' = decoded
  BY DEF Answer
<1>2. SentType /\ AnswerType /\ FollowInv
  BY DEF CodecInv
<1>3. WrittenAs(a) \in Seq(Byte)
  BY AnswerFacts, WrittenDecoded
<1>4. SentType'
  BY <1>1, <1>2 DEF SentType
<1>5. AnswerType'
  BY <1>1, <1>2, <1>3 DEF AnswerType
<1>6. follow' = 0
  BY <1>1, <1>2 DEF FollowInv
<1>7. FollowInv'
  <2>1. a.kind \in Framed => 0 \in 0..PayloadMax(a.kind)
    BY PayloadRoom
  <2> QED BY <1>1, <1>6, <2>1 DEF FollowInv
<1>8. ReadInv' /\ FailedInv'
  BY <1>1 DEF ReadInv, FailedInv
<1> QED BY <1>4, <1>5, <1>7, <1>8 DEF CodecInv

\* A fault on the way leaves bytes.
LEMMA InvDamage == CodecInv /\ Damage => CodecInv'
<1> SUFFICES ASSUME CodecInv, Damage PROVE CodecInv'
  OBVIOUS
<1>1. /\ pc \in {"answered", "header"} /\ pc' = pc /\ sent' = sent /\ answer' = answer
      /\ follow' = follow /\ decoded' = decoded
  BY DEF Damage
<1>2. SentType /\ AnswerType /\ FollowInv
  BY DEF CodecInv
<1>3. wire' \in Seq(Byte)
  <2>1. wire \in Seq(Byte) /\ Len(wire) \in Nat
    BY <1>2, LenProperties DEF AnswerType
  <2>2. 0 \in Byte
    BY WireAssumption DEF WireAssumption, Byte
  <2>3. CASE wire' = Cut
    <3>1. CASE Len(wire) = 0
      <4>1. Cut = <<>>
        BY <2>1, <3>1 DEF Cut
      <4> QED BY <2>3, <4>1
    <3>2. CASE Len(wire) # 0
      <4>1. Len(wire) - 1 \in Nat /\ 0 + (Len(wire) - 1) <= Len(wire) /\ 0 + 1 = 1
            /\ 0 + (Len(wire) - 1) = Len(wire) - 1
        BY <2>1, <3>2
      <4>2. SubSeq(wire, 0 + 1, 0 + (Len(wire) - 1)) \in Seq(Byte)
        BY <2>1, <4>1, SliceFacts
      <4> QED BY <2>3, <4>1, <4>2 DEF Cut
    <3> QED BY <3>1, <3>2
  <2>4. CASE wire' = Append(wire, 0)
    BY <2>1, <2>2, <2>4, AppendProperties
  <2>5. ASSUME NEW i \in 1..Len(wire), NEW x \in Alterations, wire' = [wire EXCEPT ![i] = x]
        PROVE  wire' \in Seq(Byte)
    <3>1. x \in Byte
      BY BufferAssumption DEF BufferAssumption
    <3> QED BY <2>1, <2>5, <3>1, ExceptSeq
  <2> QED BY <2>3, <2>4, <2>5 DEF Damage
<1>4. SentType'
  BY <1>1, <1>2 DEF SentType
<1>5. AnswerType'
  BY <1>1, <1>2, <1>3 DEF AnswerType
<1>6. FollowInv' /\ ReadInv' /\ FailedInv'
  BY <1>1, <1>2 DEF FollowInv, ReadInv, FailedInv
<1> QED BY <1>4, <1>5, <1>6 DEF CodecInv

\* The header of a whole, valid frame leads to the end of it.
LEMMA WholeFrame ==
  ASSUME NEW a, IsAnswer(a), a.kind \in Framed, Valid(a)
  PROVE  /\ StnpHeaderSize <= Len(WrittenAs(a))
         /\ Follows(a.kind, SubSeq(WrittenAs(a), 1, StnpHeaderSize)) # NoLength
         /\ Len(WrittenAs(a)) =
              StnpHeaderSize + Follows(a.kind, SubSeq(WrittenAs(a), 1, StnpHeaderSize))
<1> DEFINE b == WrittenAs(a)
           kind == a.kind
<1>1. b \in Seq(Byte) /\ DecodeOf(kind, b) = Decoded(a.head, a.rows)
  BY WrittenDecoded
<1> HIDE DEF b, kind
<1>2. kind \in Framed
  BY DEF kind
<1>3. DecodeOf(kind, b).ok = TRUE
  BY <1>1 DEF Decoded
<1>4. Follows(kind, b) # NoLength /\ Len(b) = StnpHeaderSize + Follows(kind, b)
  BY <1>1, <1>2, <1>3, FollowsAccepted
<1>5. Follows(kind, b) \in Nat
  BY <1>2, <1>4, FollowsFit
<1>6. StnpHeaderSize <= Len(b)
  BY <1>4, <1>5, StnpWidths
<1>7. Follows(kind, SubSeq(b, 1, StnpHeaderSize)) = Follows(kind, b)
  BY <1>1, <1>2, <1>6, FollowsPrefix
<1> QED BY <1>4, <1>6, <1>7 DEF b, kind

\* Reading the header fails on no valid answer, and leaves bytes.
LEMMA InvReadHeader == CodecInv /\ ReadHeader => CodecInv'
<1> SUFFICES ASSUME CodecInv, ReadHeader PROVE CodecInv'
  OBVIOUS
<1> DEFINE found == Follows(answer.kind, SubSeq(wire, 1, StnpHeaderSize))
<1>1. /\ pc = "header"
      /\ follow' = IF Len(wire) < StnpHeaderSize THEN NoLength ELSE found
      /\ pc' = IF follow' = NoLength \/ StnpHeaderSize + follow' > Len(wire) THEN "failed" ELSE "answered"
      /\ wire' = IF pc' = "failed" THEN wire ELSE SubSeq(wire, 1, StnpHeaderSize + follow')
      /\ sent' = sent /\ answer' = answer /\ decoded' = decoded
  BY DEF ReadHeader
<1>2. SentType /\ AnswerType /\ FollowInv
  BY DEF CodecInv
<1>3. answer \in Answers /\ answer.kind \in Framed /\ wire \in Seq(Byte) /\ Len(wire) \in Nat
  BY <1>1, <1>2, LenProperties DEF AnswerType
<1>4. follow' = NoLength \/ follow' \in 0..PayloadMax(answer.kind)
  BY <1>1, <1>3, FollowsFit
<1> HIDE DEF found
<1>5. wire' \in Seq(Byte)
  <2>1. CASE pc' = "failed"
    BY <1>1, <1>3, <2>1
  <2>2. CASE pc' # "failed"
    <3> DEFINE n == StnpHeaderSize + follow'
    <3>1. follow' # NoLength /\ ~(n > Len(wire))
      BY <1>1, <2>2
    <3>2. n \in Nat /\ 0 + n <= Len(wire) /\ 0 + 1 = 1 /\ 0 + n = n
      BY <1>3, <1>4, <3>1, StnpWidths
    <3> HIDE DEF n
    <3>3. SubSeq(wire, 1, n) \in Seq(Byte)
      BY <1>3, <3>2, SliceFacts
    <3> QED BY <1>1, <2>2, <3>3 DEF n
  <2> QED BY <2>1, <2>2
<1>6. SentType'
  BY <1>1, <1>2 DEF SentType
<1>7. AnswerType'
  <2>1. pc' \in {"failed", "answered"}
    BY <1>1
  <2> QED BY <1>1, <1>2, <1>3, <1>5, <2>1 DEF AnswerType
<1>8. FollowInv'
  BY <1>1, <1>4 DEF FollowInv
<1>9. ReadInv'
  BY <1>1 DEF ReadInv
<1>10. FailedInv'
  <2> SUFFICES ASSUME pc' = "failed", wire' = WrittenAs(answer), Valid(answer)
               PROVE  FALSE
    BY <1>1 DEF FailedInv, WrittenAs, Valid
  <2>1. wire = WrittenAs(answer)
    BY <1>1
  <2>2. /\ StnpHeaderSize <= Len(wire) /\ found # NoLength
        /\ Len(wire) = StnpHeaderSize + found
    BY <1>3, <2>1, AnswerFacts, WholeFrame DEF found
  <2>3. follow' = found
    BY <1>1, <1>3, <2>2, StnpWidths
  <2>4. StnpHeaderSize + follow' = Len(wire) /\ follow' # NoLength
    BY <2>2, <2>3
  <2> QED BY <1>1, <1>3, <2>4
<1> QED BY <1>6, <1>7, <1>8, <1>9, <1>10 DEF CodecInv

\* Decoding the answer.
LEMMA InvDecode == CodecInv /\ Decode => CodecInv'
<1> SUFFICES ASSUME CodecInv, Decode PROVE CodecInv'
  OBVIOUS
<1>1. /\ pc = "answered" /\ decoded' = DecodeOf(answer.kind, wire) /\ pc' = "read"
      /\ sent' = sent /\ answer' = answer /\ wire' = wire /\ follow' = follow
  BY DEF Decode
<1>2. SentType /\ AnswerType /\ FollowInv
  BY DEF CodecInv
<1>3. decoded'.ok \in BOOLEAN
  <2>1. answer \in Answers /\ wire \in Seq(Byte)
    BY <1>1, <1>2 DEF AnswerType
  <2>2. answer.kind \in StncKinds \cup StnpKinds
    BY <2>1, AnswerFacts DEF IsAnswer
  <2> QED BY <1>1, <2>1, <2>2, Decoders DEF Sound
<1>4. SentType' /\ FollowInv'
  BY <1>1, <1>2 DEF SentType, FollowInv
<1>5. AnswerType'
  BY <1>1, <1>2, <1>3 DEF AnswerType
<1>6. ReadInv' /\ FailedInv'
  BY <1>1 DEF ReadInv, FailedInv
<1> QED BY <1>4, <1>5, <1>6 DEF CodecInv

\* The next exchange.
LEMMA InvAgain == CodecInv /\ Again => CodecInv'
<1> SUFFICES ASSUME CodecInv, Again PROVE CodecInv'
  OBVIOUS
<1>1. /\ pc' = "idle" /\ sent' = <<>> /\ answer' = NoAnswer /\ wire' = <<>> /\ follow' = 0
      /\ decoded' = Rejected
  BY DEF Again
<1>2. NoAnswer.kind \notin Framed
  BY DEF NoAnswer, Framed, StnpKinds
<1>3. decoded'.ok = FALSE
  BY <1>1 DEF Rejected
<1>4. SentType'
  BY <1>1 DEF SentType
<1>5. AnswerType'
  <2>1. sent' \in Seq([call : Calls, capacity : Capacities, frame : Seq(Byte)])
    <3> DEFINE S == [call : Calls, capacity : Capacities, frame : Seq(Byte)]
    <3>1. <<>> \in Seq(S)
      <4> HIDE DEF S
      <4> QED OBVIOUS
    <3> QED BY <1>1, <3>1
  <2>2. wire' \in Seq(Byte)
    BY <1>1
  <2> QED BY <1>1, <1>3, <2>1, <2>2 DEF AnswerType
<1>6. FollowInv'
  BY <1>1, <1>2 DEF FollowInv
<1>7. ReadInv' /\ FailedInv'
  BY <1>1 DEF ReadInv, FailedInv
<1> QED BY <1>4, <1>5, <1>6, <1>7 DEF CodecInv

\* Every step keeps the invariant.
LEMMA InvNext == CodecInv /\ [Next]_vars => CodecInv'
<1>1. CodecInv /\ UNCHANGED vars => CodecInv'
  BY DEF vars, CodecInv, SentType, AnswerType, FollowInv, ReadInv, FailedInv, WrittenAs, Valid
<1> QED BY <1>1, InvAsk, InvAnswer, InvDamage, InvReadHeader, InvDecode, InvAgain DEF Next

\* The invariant holds always.
LEMMA InvAlways == Spec => []CodecInv
BY InvInit, InvNext, PTL DEF Spec

\* The invariant gives the types.
LEMMA InvTypes == CodecInv => TypeOK
<1> SUFFICES ASSUME CodecInv PROVE TypeOK
  OBVIOUS
<1>1. SentType /\ AnswerType /\ FollowInv
  BY DEF CodecInv
<1>2. \A i \in 1..Len(sent) : sent[i].call \in Calls /\ sent[i].frame \in Seq(Byte)
  BY <1>1 DEF SentType, InBuffer
<1> QED BY <1>1, <1>2 DEF AnswerType, FollowInv, TypeOK

\* The invariant gives what is accepted: by the soundness of the decoders and
\* ReadingWritten on one side, by WrittenReading and their completeness on the
\* other.
LEMMA InvAccepts == CodecInv => AcceptsOnlyWritten /\ AcceptsWritten
<1> SUFFICES ASSUME CodecInv PROVE AcceptsOnlyWritten /\ AcceptsWritten
  OBVIOUS
<1>1. AnswerType /\ ReadInv /\ FailedInv
  BY DEF CodecInv
<1>2. ASSUME pc = "read", decoded.ok
      PROVE  Valid(Means(decoded)) /\ WrittenAs(Means(decoded)) = wire
  <2> DEFINE kind == answer.kind
  <2>1. answer \in Answers /\ wire \in Seq(Byte) /\ decoded = DecodeOf(kind, wire)
    BY <1>1, <1>2 DEF AnswerType, ReadInv
  <2>2. kind \in StncKinds \cup StnpKinds
    BY <2>1, AnswerFacts DEF IsAnswer
  <2>3. Means(decoded) = Value(kind, decoded)
    BY DEF Means, Value
  <2> HIDE DEF kind
  <2>4. PICK n : /\ Fit(kind, wire, n)
                 /\ decoded = Reading(LayoutOf(kind), wire, n)
                 /\ Valid(Value(kind, decoded))
    <3>1. Sound(kind, wire)
      BY <2>1, <2>2, Decoders
    <3> QED BY <1>2, <2>1, <3>1 DEF Sound
  <2>5. Written(LayoutOf(kind), decoded.head, decoded.rows) = wire
    <3>1. IsLayout(LayoutOf(kind)) /\ Whole(LayoutOf(kind), wire, n)
      BY <2>2, <2>4, Layouts DEF Fit
    <3> QED BY <2>1, <2>4, <3>1, ReadingWritten
  <2>6. WrittenAs(Value(kind, decoded)) = Written(LayoutOf(kind), decoded.head, decoded.rows)
    BY DEF WrittenAs, Value
  <2> QED BY <2>3, <2>4, <2>5, <2>6
<1>3. ASSUME pc \in {"read", "failed"}, wire = WrittenAs(answer), Valid(answer)
      PROVE  pc = "read" /\ decoded = Decoded(answer.head, answer.rows)
  <2>1. pc = "read"
    BY <1>1, <1>3 DEF FailedInv
  <2>2. answer \in Answers /\ decoded = DecodeOf(answer.kind, wire)
    BY <1>1, <2>1 DEF AnswerType, ReadInv
  <2> QED BY <1>3, <2>1, <2>2, AnswerFacts, WrittenDecoded
<1> QED BY <1>2, <1>3 DEF AcceptsOnlyWritten, AcceptsWritten

\* The invariant gives that no frame is another's.
LEMMA InvUnambiguous == CodecInv => Unambiguous
<1> SUFFICES ASSUME CodecInv PROVE Unambiguous
  OBVIOUS
<1>1. SentType
  BY DEF CodecInv
<1>2. FramesFit
  BY <1>1 DEF SentType, InBuffer, FramesFit
<1>3. ASSUME Len(sent) = 2,
             Refused \notin {sent[1].frame, sent[2].frame},
             IsPrefix(sent[1].frame, sent[2].frame)
      PROVE  SaysTheSame(sent[1].call, sent[2].call)
  <2>1. 1 \in 1..Len(sent) /\ 2 \in 1..Len(sent)
    BY <1>3
  <2>2. /\ sent[1].call \in Calls /\ sent[1].capacity \in Capacities
        /\ sent[1].frame = Frame(sent[1].call, sent[1].capacity)
        /\ sent[2].call \in Calls /\ sent[2].capacity \in Capacities
        /\ sent[2].frame = Frame(sent[2].call, sent[2].capacity)
    BY <1>1, <2>1 DEF SentType
  <2>3. Frame(sent[1].call, sent[1].capacity) # Refused /\ Frame(sent[2].call, sent[2].capacity) # Refused
    BY <1>3, <2>2
  <2>4. IsPrefix(Frame(sent[1].call, sent[1].capacity), Frame(sent[2].call, sent[2].capacity))
    BY <1>3, <2>2
  <2> QED BY <2>2, <2>3, <2>4, Distinct
<1> QED BY <1>2, <1>3 DEF Unambiguous

\* Types; and no header makes the caller of the peer protocol read more than
\* its buffer holds (stnc_stnp_decode_headers_header and the like).
THEOREM CodecTypeCorrect == Spec => []TypeOK
BY InvAlways, InvTypes, PTL

\* No encoder of stnc_stnc.c or stnc_stnp.c writes behind the end of its
\* buffer, whatever its arguments and the buffer's size.
THEOREM FramesInBuffers == Spec => []FramesFit
<1>1. CodecInv => FramesFit
  BY DEF CodecInv, SentType, InBuffer, FramesFit
<1> QED BY <1>1, InvAlways, PTL

\* What goes over the stream says what was asked: if the frame of one call is
\* that of another one or begins it, the calls are of the same encoder of
\* stnc_stnc.c or stnc_stnp.c, with the same values in all it reads of them.
THEOREM FramesUnambiguous == Spec => []Unambiguous
BY InvAlways, InvUnambiguous, PTL

\* A decoder of stnc_stnc.c, stnc_stnp.c or stnc_contract_list.c accepts, of
\* any bytes whatever, only those a service writes for a value the protocol
\* allows, and gives that value.
THEOREM AcceptsNothingElse == Spec => []AcceptsOnlyWritten
BY InvAlways, InvAccepts, PTL

\* A value the protocol allows, written by the layouts and not damaged, is read
\* as it was meant, also where the header is read first.
THEOREM AcceptsEverything == Spec => []AcceptsWritten
BY InvAlways, InvAccepts, PTL
================================================================================
