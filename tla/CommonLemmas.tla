---------------------------- MODULE CommonLemmas ----------------------------
(***************************************************************************)
(* Lemmas that several of the proofs need.                                 *)
(*                                                                         *)
(* Induction over the naturals for a set of them, and what follows from    *)
(* it: least and greatest elements, that a function which is defined from  *)
(* its value one before exists, quotient and rest, and what FlattenSeq     *)
(* makes of a sequence of sequences to which one is appended.              *)
(*                                                                         *)
(* The laws of the field of words, as far as they follow from how products *)
(* are made by doubling, for every word size of up to a byte.              *)
(***************************************************************************)
EXTENDS GaloisField, SequencesExt, WellFoundedInduction, FiniteSetTheorems, TLAPS

\* A set of naturals has a least element, which CHOOSE finds.
LEMMA LeastOf ==
    ASSUME NEW S \in SUBSET Nat, S # {}
    PROVE  LET least == CHOOSE d \in S : \A e \in S : d <= e
           IN  least \in S /\ \A e \in S : least <= e
<1>1. \E d \in S : \A e \in S : ~(<<e, d>> \in OpToRel(<, Nat))
  BY NatLessThanWellFounded, WFMin, Zenon
<1>2. PICK d \in S : \A e \in S : ~(<<e, d>> \in OpToRel(<, Nat))
  BY <1>1
<1>3. ASSUME NEW e \in S PROVE d <= e
  <2>1. <<e, d>> \in Nat \X Nat /\ ~(<<e, d>> \in OpToRel(<, Nat))
    BY <1>2
  <2>2. ~(e < d)
    BY <2>1 DEF OpToRel
  <2>. QED  BY <2>2
<1>. QED  BY <1>3

\* A set of naturals up to a bound has a greatest one.
LEMMA GreatestOf ==
    ASSUME NEW top \in Nat, NEW S \in SUBSET (0..top), S # {}
    PROVE  LET greatest == CHOOSE c \in S : \A e \in S : e <= c
           IN  greatest \in S /\ \A e \in S : e <= greatest
<1> DEFINE T == {top - c : c \in S}
<1>1. T \subseteq Nat /\ T # {}
  <2>1. \A c \in S : top - c \in Nat
    OBVIOUS
  <2>2. T # {}
    BY Zenon
  <2>. QED  BY <2>1, <2>2, Zenon
<1>2. \E x \in T : \A y \in T : x <= y
  <2> HIDE DEF T
  <2>. QED  BY <1>1, LeastOf
<1>3. PICK c \in S : \A y \in T : top - c <= y
  BY <1>2
<1>4. ASSUME NEW e \in S PROVE e <= c
  <2>1. top - c <= top - e
    BY <1>3
  <2>. QED  BY <2>1
<1>. QED  BY <1>4

\* Induction.
LEMMA SetInduction ==
    ASSUME NEW T, 0 \in T, \A q \in Nat : q \in T => q + 1 \in T
    PROVE  \A q \in Nat : q \in T
<1> SUFFICES ASSUME NEW r \in Nat, r \notin T PROVE FALSE
  OBVIOUS
<1> DEFINE Out == Nat \ T
<1>1. PICK x \in Out : \A y \in Out : x <= y
  <2>1. Out \in SUBSET Nat /\ Out # {}
    OBVIOUS
  <2> HIDE DEF Out
  <2>. QED  BY <2>1, LeastOf
<1>2. x \in Nat /\ x \notin T /\ x # 0
  OBVIOUS
<1>3. x - 1 \in Nat /\ x - 1 < x /\ (x - 1) + 1 = x
  BY <1>2
<1>4. x - 1 \in Out
  BY <1>2, <1>3
<1>. QED  BY <1>1, <1>2, <1>3, <1>4

\* The value of f at p is made from the one at p - 1.
MadeStepwise(f, b, step, top) ==
    \A p \in 0..top : f[p] = IF p = 0 THEN b ELSE step[p][f[p - 1]]

\* Such a function exists.
LEMMA RecursiveFunction ==
    ASSUME NEW V, NEW b \in V, NEW step \in [Nat -> [V -> V]], NEW top \in Nat
    PROVE  \E f \in [0..top -> V] : MadeStepwise(f, b, step, top)
<1> DEFINE Good(f, q) == \A p \in 0..q : f[p] = IF p = 0 THEN b ELSE step[p][f[p - 1]]
           T == {q \in Nat : \E f \in [0..q -> V] : Good(f, q)}
<1>1. 0 \in T
  <2>1. [p \in 0..0 |-> b] \in [0..0 -> V] /\ Good([p \in 0..0 |-> b], 0)
    OBVIOUS
  <2>. QED  BY <2>1
<1>2. ASSUME NEW q \in Nat, q \in T PROVE q + 1 \in T
  <2>1. PICK f \in [0..q -> V] : Good(f, q)
    BY <1>2
  <2> DEFINE g == [p \in 0..q+1 |-> IF p = q + 1 THEN step[q + 1][f[q]] ELSE f[p]]
  <2>2. g \in [0..q+1 -> V]
    <3>1. step[q + 1][f[q]] \in V
      BY <2>1
    <3>2. \A p \in 0..q+1 : p # q + 1 => p \in 0..q
      OBVIOUS
    <3>. QED  BY <2>1, <3>1, <3>2
  <2>3. ASSUME NEW p \in 0..q+1
        PROVE  g[p] = IF p = 0 THEN b ELSE step[p][g[p - 1]]
    <3>1. CASE p = q + 1
      <4>1. p # 0 /\ p - 1 = q /\ q \in 0..q+1 /\ q # q + 1
        BY <3>1
      <4>. QED  BY <3>1, <4>1
    <3>2. CASE p = 0
      <4>1. g[0] = f[0] /\ f[0] = b
        BY <2>1
      <4>. QED  BY <3>2, <4>1
    <3>3. CASE p \in 1..q
      <4>1. /\ p # 0 /\ p # q + 1 /\ p \in 0..q
            /\ p - 1 \in 0..q+1 /\ p - 1 # q + 1
        BY <3>3
      <4>2. f[p] = step[p][f[p - 1]]
        BY <2>1, <4>1
      <4>3. g[p] = f[p] /\ g[p - 1] = f[p - 1]
        BY <4>1
      <4>. QED  BY <4>1, <4>2, <4>3
    <3>. QED  BY <3>1, <3>2, <3>3
  <2>4. q + 1 \in Nat /\ \E h \in [0..q+1 -> V] : Good(h, q + 1)
    <3> HIDE DEF g
    <3>. QED  BY <2>2, <2>3
  <2>. QED  BY <2>4
<1>3. top \in T
  <2> HIDE DEF T
  <2>. QED  BY <1>1, <1>2, SetInduction
<1>. QED  BY <1>3 DEF MadeStepwise

-----------------------------------------------------------------------------
(* Sequences one after the other                                           *)

Flat(seqs) == CHOOSE f : f = [i \in 1..Len(seqs) |->
                                  IF i = 1 THEN seqs[i] ELSE f[i - 1] \o seqs[i]]

LEMMA FlatIs ==
    ASSUME NEW S, NEW seqs \in Seq(Seq(S)), Len(seqs) > 0
    PROVE  /\ FlattenSeq(seqs) = Flat(seqs)[Len(seqs)]
           /\ Flat(seqs)[1] = seqs[1]
           /\ \A i \in 1..Len(seqs) : i # 1 => Flat(seqs)[i] = Flat(seqs)[i - 1] \o seqs[i]
<1> DEFINE R == Len(seqs)
           step == [q \in Nat |-> [s \in Seq(S) |->
                      IF q + 1 \in 1..R THEN s \o seqs[q + 1] ELSE s]]
           Is(f) == f = [i \in 1..R |-> IF i = 1 THEN seqs[i] ELSE f[i - 1] \o seqs[i]]
<1>0. R \in Nat /\ R > 0 /\ R - 1 \in Nat /\ seqs[1] \in Seq(S)
  OBVIOUS
<1>1. step \in [Nat -> [Seq(S) -> Seq(S)]]
  <2>1. \A i \in 1..R : seqs[i] \in Seq(S)
    OBVIOUS
  <2>2. \A i \in 1..R, s \in Seq(S) : s \o seqs[i] \in Seq(S)
    BY <2>1
  <2>. QED  BY <2>2
<1>2. PICK f \in [0..(R - 1) -> Seq(S)] : MadeStepwise(f, seqs[1], step, R - 1)
  <2> HIDE DEF step, R
  <2>. QED  BY <1>0, <1>1, RecursiveFunction
<1> DEFINE h == [i \in 1..R |-> f[i - 1]]
<1>3. \A i \in 1..R : h[i] = IF i = 1 THEN seqs[i] ELSE h[i - 1] \o seqs[i]
  <2> SUFFICES ASSUME NEW i \in 1..R PROVE h[i] = IF i = 1 THEN seqs[i] ELSE h[i - 1] \o seqs[i]
    OBVIOUS
  <2>1. CASE i = 1
    <3>1. 0 \in 0..(R - 1)
      BY <1>0
    <3> HIDE DEF step
    <3>2. f[0] = IF 0 = 0 THEN seqs[1] ELSE step[0][f[0 - 1]]
      BY <1>2, <3>1 DEF MadeStepwise
    <3>. QED  BY <2>1, <3>2
  <2>2. CASE i # 1
    <3>1. /\ i - 1 \in 0..(R - 1) /\ i - 1 # 0 /\ i - 1 \in Nat /\ (i - 1) + 1 = i
          /\ i - 1 \in 1..R /\ (i - 1) - 1 \in 0..(R - 1)
      BY <2>2
    <3> DEFINE p == i - 1
    <3>2. f[p] = step[p][f[p - 1]] /\ f[p - 1] \in Seq(S)
      <4> HIDE DEF step
      <4>. QED  BY <1>2, <3>1 DEF MadeStepwise
    <3>3. step[p][f[p - 1]] = f[p - 1] \o seqs[i]
      BY <3>1, <3>2
    <3>4. h[i] = f[p] /\ h[i - 1] = f[p - 1]
      BY <3>1
    <3> HIDE DEF p, h, step
    <3>. QED  BY <2>2, <3>2, <3>3, <3>4
  <2>. QED  BY <2>1, <2>2
<1>4. Is(h)
  <2> HIDE DEF R
  <2>. QED  BY <1>3
<1>5. Flat(seqs) = CHOOSE g : Is(g)
  BY DEF Flat
<1>6. Is(Flat(seqs))
  <2> HIDE DEF h, Is
  <2>. QED  BY <1>4, <1>5
<1>7. FlattenSeq(seqs) = Flat(seqs)[R]
  <2>1. R # 0
    BY <1>0
  <2>. QED  BY <2>1 DEF FlattenSeq, Flat
<1> DEFINE g == Flat(seqs)
<1>8. Is(g)
  BY <1>6
<1> HIDE DEF g
<1>9. g[1] = seqs[1] /\ \A i \in 1..R : i # 1 => g[i] = g[i - 1] \o seqs[i]
  <2>1. 1 \in 1..R
    BY <1>0
  <2>. QED  BY <1>8, <2>1
<1>. QED  BY <1>7, <1>9 DEF g

LEMMA SameSeq ==
    ASSUME NEW S, NEW p \in Seq(S), NEW q \in Seq(S), Len(p) = Len(q),
           \A i \in 1..Len(p) : p[i] = q[i]
    PROVE  p = q
OBVIOUS

LEMMA Joined ==
    ASSUME NEW S, NEW p \in Seq(S), NEW q \in Seq(S)
    PROVE  /\ p \o q \in Seq(S) /\ Len(p \o q) = Len(p) + Len(q)
           /\ \A i \in 1..Len(p) : (p \o q)[i] = p[i]
           /\ \A i \in 1..Len(q) : (p \o q)[Len(p) + i] = q[i]
OBVIOUS

LEMMA FlatAppend ==
    ASSUME NEW S, NEW seqs \in Seq(Seq(S)), NEW last \in Seq(S)
    PROVE  /\ FlattenSeq(seqs) \in Seq(S)
           /\ FlattenSeq(Append(seqs, last)) = FlattenSeq(seqs) \o last
<1> DEFINE R == Len(seqs)
           all == Append(seqs, last)
<1>1. /\ R \in Nat /\ all \in Seq(Seq(S)) /\ Len(all) = R + 1 /\ all[R + 1] = last
      /\ \A i \in 1..R : all[i] = seqs[i] /\ seqs[i] \in Seq(S)
  OBVIOUS
<1>2. /\ FlattenSeq(all) = Flat(all)[R + 1] /\ Flat(all)[1] = all[1]
      /\ \A i \in 1..(R + 1) : i # 1 => Flat(all)[i] = Flat(all)[i - 1] \o all[i]
  <2> HIDE DEF all, R
  <2>1. Len(all) > 0
    BY <1>1
  <2>2. /\ FlattenSeq(all) = Flat(all)[Len(all)] /\ Flat(all)[1] = all[1]
        /\ \A i \in 1..Len(all) : i # 1 => Flat(all)[i] = Flat(all)[i - 1] \o all[i]
    BY <1>1, <2>1, FlatIs
  <2>. QED  BY <1>1, <2>2
<1> HIDE DEF all, R
<1>3. CASE R = 0
  <2>1. FlattenSeq(seqs) = <<>> /\ seqs = <<>>
    BY <1>3 DEF FlattenSeq, R
  <2>2. FlattenSeq(all) = last
    BY <1>1, <1>2, <1>3
  <2>3. <<>> \in Seq(S) /\ <<>> \o last = last
    OBVIOUS
  <2>. QED  BY <2>1, <2>2, <2>3 DEF all
<1>4. CASE R # 0
  <2>1. /\ FlattenSeq(seqs) = Flat(seqs)[R] /\ Flat(seqs)[1] = seqs[1]
        /\ \A i \in 1..R : i # 1 => Flat(seqs)[i] = Flat(seqs)[i - 1] \o seqs[i]
    <3>1. Len(seqs) > 0
      BY <1>4 DEF R
    <3>2. /\ FlattenSeq(seqs) = Flat(seqs)[Len(seqs)] /\ Flat(seqs)[1] = seqs[1]
          /\ \A i \in 1..Len(seqs) : i # 1 => Flat(seqs)[i] = Flat(seqs)[i - 1] \o seqs[i]
      BY <3>1, FlatIs
    <3>. QED  BY <3>2 DEF R
  <2> DEFINE Same(q) == Flat(all)[q] = Flat(seqs)[q] /\ Flat(seqs)[q] \in Seq(S)
             T == {q \in Nat : q + 1 \in 1..R => Same(q + 1)}
  <2>2. 0 \in T
    <3>1. Same(1)
      BY <1>1, <1>2, <1>4, <2>1
    <3>. QED  BY <3>1
  <2>3. ASSUME NEW q \in Nat, q \in T PROVE q + 1 \in T
    <3> SUFFICES ASSUME (q + 1) + 1 \in 1..R PROVE Same((q + 1) + 1)
      OBVIOUS
    <3> DEFINE r == q + 1
    <3>1. r \in 1..R /\ r + 1 \in 1..R /\ r + 1 \in 1..(R + 1) /\ r + 1 # 1 /\ (r + 1) - 1 = r
      BY <1>1
    <3>2. Same(r)
      BY <2>3, <3>1
    <3> HIDE DEF r
    <3>3. Flat(all)[r + 1] = Flat(all)[r] \o all[r + 1] /\ Flat(seqs)[r + 1] = Flat(seqs)[r] \o seqs[r + 1]
      BY <1>2, <2>1, <3>1
    <3>4. all[r + 1] = seqs[r + 1] /\ seqs[r + 1] \in Seq(S)
      BY <1>1, <3>1
    <3>5. Flat(seqs)[r + 1] \in Seq(S)
      BY <3>2, <3>3, <3>4
    <3>6. Same(r + 1)
      BY <3>2, <3>3, <3>4, <3>5
    <3>. QED  BY <3>6 DEF r
  <2>4. Same(R)
    <3>1. R - 1 \in Nat /\ (R - 1) + 1 = R /\ R \in 1..R
      BY <1>1, <1>4
    <3>2. \A q \in Nat : q \in T
      <4> HIDE DEF T
      <4>. QED  BY <2>2, <2>3, SetInduction
    <3>. QED  BY <3>1, <3>2
  <2>5. FlattenSeq(all) = Flat(all)[R] \o last
    <3>1. R + 1 # 1 /\ (R + 1) - 1 = R /\ R + 1 \in 1..(R + 1)
      BY <1>1, <1>4
    <3>. QED  BY <1>1, <1>2, <3>1
  <2>. QED  BY <2>1, <2>4, <2>5 DEF all
<1>. QED  BY <1>3, <1>4

\* Quotient and rest.
LEMMA DivRest ==
    ASSUME NEW q \in Nat, NEW u \in Nat \ {0}, NEW r \in 0..(u - 1)
    PROVE  (u * q + r) \div u = q /\ (u * q + r) % u = r
<1> DEFINE x == u * q + r
           d == x \div u
           e == x % u
<1>1. x \in Nat /\ u * q \in Nat
  <2>1. u * q \in Nat
    OBVIOUS
  <2>. QED  BY <2>1
<1>2. d \in Int /\ e \in 0..(u - 1) /\ x = u * d + e
  <2>1. \A y \in Nat : y \div u \in Int /\ y % u \in 0..(u - 1) /\ y = u * (y \div u) + (y % u)
    OBVIOUS
  <2> HIDE DEF x
  <2>. QED  BY <1>1, <2>1
<1>3. u * q + r = u * d + e
  BY <1>2
<1> HIDE DEF d, e
<1>4. d = q
  <2>1. CASE d < q
    <3>1. q - d \in Nat \ {0} /\ u * q = u * d + u * (q - d)
      BY <1>2, <2>1
    <3>2. \A y \in Nat \ {0} : u * y \in Nat /\ u * y >= u
      OBVIOUS
    <3>3. u * (q - d) >= u
      BY <3>1, <3>2
    <3>4. u * d \in Int /\ u * (q - d) \in Int
      BY <1>2, <3>1
    <3>. QED  BY <1>2, <1>3, <3>1, <3>3, <3>4
  <2>2. CASE q < d
    <3>1. d - q \in Nat \ {0} /\ u * d = u * q + u * (d - q)
      BY <1>2, <2>2
    <3>2. \A y \in Nat \ {0} : u * y \in Nat /\ u * y >= u
      OBVIOUS
    <3>3. u * (d - q) >= u
      BY <3>1, <3>2
    <3>4. u * q \in Int /\ u * (d - q) \in Int
      BY <1>2, <3>1
    <3>. QED  BY <1>2, <1>3, <3>1, <3>3, <3>4
  <2>. QED  BY <1>2, <2>1, <2>2
<1>5. e = r
  <2>1. u * q \in Int
    OBVIOUS
  <2>. QED  BY <1>2, <1>3, <1>4, <2>1
<1>. QED  BY <1>4, <1>5 DEF d, e

-----------------------------------------------------------------------------
(* Sums and products of words *)

LEMMA ParityOfDifference ==
    ASSUME NEW A, NEW B, IsFiniteSet(A), IsFiniteSet(B)
    PROVE  Cardinality(Plus(A, B)) % 2 = 1
               <=> ~(Cardinality(A) % 2 = 1 <=> Cardinality(B) % 2 = 1)
<1>1. /\ IsFiniteSet(A \ B) /\ Cardinality(A \ B) = Cardinality(A) - Cardinality(A \cap B)
      /\ IsFiniteSet(B \ A) /\ Cardinality(B \ A) = Cardinality(B) - Cardinality(B \cap A)
  BY FS_Difference
<1>2. (A \ B) \cap (B \ A) = {} /\ B \cap A = A \cap B
  OBVIOUS
<1>3. IsFiniteSet(A \cap B) /\ Cardinality({}) = 0
  BY FS_Intersection, FS_EmptySet
<1>4. Cardinality(Plus(A, B)) = Cardinality(A \ B) + Cardinality(B \ A) - 0
  BY <1>1, <1>2, <1>3, FS_Union DEF Plus
<1>5. Cardinality(B \ A) = Cardinality(B) - Cardinality(A \cap B)
  BY <1>1, <1>2
<1>6. /\ Cardinality(A) \in Nat /\ Cardinality(B) \in Nat /\ Cardinality(A \cap B) \in Nat
  BY <1>3, FS_CardinalityType
<1>7. Cardinality(Plus(A, B)) = Cardinality(A) + Cardinality(B) - 2 * Cardinality(A \cap B)
  <2> DEFINE a == Cardinality(A)   b == Cardinality(B)   c == Cardinality(A \cap B)
  <2>1. Cardinality(Plus(A, B)) = (a - c) + (b - c) - 0
    BY <1>1, <1>4, <1>5
  <2>2. a \in Nat /\ b \in Nat /\ c \in Nat
    BY <1>6
  <2> HIDE DEF a, b, c
  <2>3. (a - c) + (b - c) - 0 = a + b - 2 * c
    BY <2>2
  <2>. QED  BY <2>1, <2>3 DEF a, b, c
<1>8. \A a, b, c \in Nat : (a + b - 2 * c) % 2 = 1 <=> ~(a % 2 = 1 <=> b % 2 = 1)
  OBVIOUS
<1>. QED  BY <1>6, <1>7, <1>8

\* Words with Plus are a group in which each element is its own negative.
LEMMA PlusLaws ==
    ASSUME NEW w \in 1..8, NEW x \in Elements(w), NEW y \in Elements(w),
           NEW z \in Elements(w)
    PROVE  /\ Plus(x, y) \in Elements(w) /\ Plus(x, y) = Plus(y, x)
           /\ Plus(Plus(x, y), z) = Plus(x, Plus(y, z))
           /\ Plus(x, Zero) = x /\ Plus(x, x) = Zero
  BY DEF Plus, Elements, Zero

LEMMA WordsAreFinite ==
    ASSUME NEW w \in 1..8, NEW x \in Elements(w) PROVE IsFiniteSet(x)
<1>1. w \in Nat /\ x \subseteq 0..w-1
  BY DEF Elements
<1>2. IsFiniteSet(0..w-1)
  BY <1>1, FS_Interval
<1>. QED  BY <1>1, <1>2, FS_Subset

LEMMA ZeroAndOne ==
    ASSUME NEW w \in 1..8
    PROVE  Zero \in Elements(w) /\ One \in Elements(w) /\ One # Zero
  BY DEF Elements, Zero, One

\* The table of all products, as galois_create_mult_tables makes it.
Mul(w) ==
    [x \in Elements(w) |-> [y \in Elements(w) |-> ShiftMultiply(x, y, w)]]

LEMMA ProductsAre ==
    ASSUME NEW w \in 1..8, NEW x \in Elements(w), NEW y \in Elements(w)
    PROVE  /\ Mul(w)[x][y] = ShiftMultiply(x, y, w)
           /\ Mul(w)[x][y] \in Elements(w)
  BY DEF Mul, ShiftMultiply, Elements

\* What doubling and scratch[0] are.
LEMMA DoubleType ==
    ASSUME NEW w \in 1..8, NEW y \in Elements(w) PROVE Double(y, w) \in Elements(w)
<1>1. w \in 1..8 /\ y \subseteq 0..w-1
  BY DEF Elements
<1> DEFINE shifted == {b + 1 : b \in y}
<1>2. \A c \in shifted : c \in 1..w
  BY <1>1
<1>3. CASE w \in shifted
  BY <1>3 DEF Double, Elements
<1>4. CASE w \notin shifted
  <2>1. \A c \in shifted : c \in 0..w-1
    BY <1>1, <1>2, <1>4
  <2>. QED  BY <1>4, <2>1 DEF Double, Elements
<1>. QED  BY <1>3, <1>4

LEMMA ScratchIs ==
    ASSUME NEW w \in 1..8, NEW y \in Elements(w)
    PROVE  /\ Scratch(y, w) \in [0..w-1 -> Elements(w)]
           /\ Scratch(y, w) =
                 [q \in 0..w-1 |->
                    IF q = 0 THEN y ELSE Double(Scratch(y, w)[q - 1], w)]
<1> DEFINE step == [q \in Nat |-> [v \in Elements(w) |-> Double(v, w)]]
           Is(f) == f = [q \in 0..w-1 |->
                           IF q = 0 THEN y ELSE Double(f[q - 1], w)]
<1>1. step \in [Nat -> [Elements(w) -> Elements(w)]] /\ w - 1 \in Nat
  BY DoubleType
<1>2. PICK f \in [0..w-1 -> Elements(w)] : MadeStepwise(f, y, step, w - 1)
  <2> HIDE DEF step
  <2>. QED  BY <1>1, RecursiveFunction
<1>3. Is(f)
  <2>1. \A q \in 0..w-1 : q # 0 => q - 1 \in 0..w-1 /\ q \in Nat
    OBVIOUS
  <2>2. \A q \in 0..w-1 : f[q] = IF q = 0 THEN y ELSE Double(f[q - 1], w)
    BY <1>2, <2>1 DEF MadeStepwise
  <2>. QED  BY <1>2, <2>2
<1>4. Scratch(y, w) = CHOOSE g : Is(g)
  BY DEF Scratch
<1>5. Is(Scratch(y, w))
  BY <1>3, <1>4
<1>6. Scratch(y, w) \in [0..w-1 -> Elements(w)]
  <2> DEFINE g == Scratch(y, w)
             T == {q \in Nat : q \in 0..w-1 => g[q] \in Elements(w)}
  <2>1. 0 \in T
    BY <1>5
  <2>2. ASSUME NEW q \in Nat, q \in T PROVE q + 1 \in T
    <3>1. SUFFICES ASSUME q + 1 \in 0..w-1 PROVE g[q + 1] \in Elements(w)
      OBVIOUS
    <3>2. q \in 0..w-1 /\ q + 1 # 0 /\ (q + 1) - 1 = q
      BY <3>1
    <3>3. g[q + 1] = Double(g[q], w)
      BY <1>5, <3>1, <3>2
    <3>. QED  BY <2>2, <3>2, <3>3, DoubleType
  <2>3. \A q \in Nat : q \in T
    <3> HIDE DEF T
    <3>. QED  BY <2>1, <2>2, SetInduction
  <2>4. \A q \in 0..w-1 : g[q] \in Elements(w)
    BY <2>3
  <2>. QED  BY <1>5, <2>4
<1>. QED  BY <1>5, <1>6

\* A product is a sum over the bits of its first factor, whatever scratch holds.
LEMMA TimesDistributes ==
    ASSUME NEW w \in 1..8, NEW x \in Elements(w), NEW y \in Elements(w),
           NEW z \in Elements(w)
    PROVE  Mul(w)[Plus(x, y)][z] = Plus(Mul(w)[x][z], Mul(w)[y][z])
<1> DEFINE s == Scratch(z, w)
           Odd(v, b) == Cardinality({q \in v : b \in s[q]}) % 2 = 1
<1>1. \A v \in Elements(w) : Mul(w)[v][z] = {b \in 0..w-1 : Odd(v, b)}
  BY ProductsAre DEF ShiftMultiply
<1>2. ASSUME NEW b PROVE Odd(Plus(x, y), b) <=> ~(Odd(x, b) <=> Odd(y, b))
  <2> DEFINE X == {q \in x : b \in s[q]}   Y == {q \in y : b \in s[q]}
  <2>1. {q \in Plus(x, y) : b \in s[q]} = Plus(X, Y)
    BY DEF Plus
  <2>2. IsFiniteSet(X) /\ IsFiniteSet(Y)
    BY WordsAreFinite, FS_Subset
  <2>3. Cardinality(Plus(X, Y)) % 2 = 1 <=> ~(Cardinality(X) % 2 = 1 <=> Cardinality(Y) % 2 = 1)
    <3> HIDE DEF X, Y
    <3>. QED  BY <2>2, ParityOfDifference
  <2>. QED  BY <2>1, <2>3
<1>3. Plus(x, y) \in Elements(w)
  BY PlusLaws
<1> HIDE DEF Odd
<1>. QED  BY <1>1, <1>2, <1>3 DEF Plus

\* The bits of a word below one, and induction over them: a set of words that is
\* closed under sums has all words when it has those of one bit.
LowBits(x, q) == {b \in x : b < q}

LEMMA LowBitsEnds ==
    ASSUME NEW w \in 1..8, NEW x \in Elements(w)
    PROVE  LowBits(x, 0) = Zero /\ LowBits(x, w) = x
<1>1. \A b \in x : b \in Int /\ b >= 0 /\ b < w
  BY DEF Elements
<1>2. \A b \in x : ~(b < 0)
  BY <1>1
<1>3. {b \in x : b < 0} = {}
  BY <1>2
<1>4. {b \in x : b < w} = x
  BY <1>1
<1>. QED  BY <1>3, <1>4 DEF LowBits, Zero

LEMMA LowBitsStep ==
    ASSUME NEW w \in 1..8, NEW x \in Elements(w), NEW q \in Nat
    PROVE  /\ LowBits(x, q) \in Elements(w)
           /\ q \notin x => LowBits(x, q + 1) = LowBits(x, q)
           /\ q \in x => /\ q \in 0..w-1 /\ {q} \in Elements(w)
                         /\ LowBits(x, q + 1) = Plus(LowBits(x, q), {q})
<1>1. x \subseteq 0..w-1 /\ \A b \in x : b \in Int
  BY DEF Elements
<1>2. LowBits(x, q) \in Elements(w)
  BY <1>1 DEF LowBits, Elements
<1>3. \A b \in x : b < q + 1 <=> b < q \/ b = q
  BY <1>1
<1>4. ~(q < q)
  OBVIOUS
<1>5. q \notin x => LowBits(x, q + 1) = LowBits(x, q)
  BY <1>3 DEF LowBits
<1>6. q \in x => LowBits(x, q + 1) = Plus(LowBits(x, q), {q})
  BY <1>3, <1>4 DEF LowBits, Plus
<1>. QED  BY <1>1, <1>2, <1>5, <1>6 DEF Elements

LEMMA BitInduction ==
    ASSUME NEW w \in 1..8, NEW T, Zero \in T, \A q \in 0..w-1 : {q} \in T,
           \A v, y \in Elements(w) : v \in T /\ y \in T => Plus(v, y) \in T
    PROVE  \A x \in Elements(w) : x \in T
<1> SUFFICES ASSUME NEW x \in Elements(w) PROVE x \in T
  OBVIOUS
<1> DEFINE Q == {q \in Nat : LowBits(x, q) \in T}
<1>1. 0 \in Q
  BY LowBitsEnds
<1>2. ASSUME NEW q \in Nat, q \in Q PROVE q + 1 \in Q
  <2>1. CASE q \in x
    <3>1. /\ LowBits(x, q + 1) = Plus(LowBits(x, q), {q})
          /\ LowBits(x, q) \in Elements(w) /\ {q} \in Elements(w) /\ q \in 0..w-1
      BY <2>1, LowBitsStep
    <3>2. LowBits(x, q) \in T
      BY <1>2
    <3>3. Plus(LowBits(x, q), {q}) \in T
      BY <3>1, <3>2
    <3>4. LowBits(x, q + 1) \in T
      BY <3>1, <3>3
    <3>. QED  BY <3>4
  <2>2. CASE q \notin x
    <3>1. LowBits(x, q + 1) = LowBits(x, q)
      BY <2>2, LowBitsStep
    <3>2. LowBits(x, q) \in T
      BY <1>2
    <3>. QED  BY <3>1, <3>2
  <2>. QED  BY <2>1, <2>2
<1>3. w \in Q
  <2>1. w \in Nat
    OBVIOUS
  <2> HIDE DEF Q
  <2>. QED  BY <1>1, <1>2, <2>1, SetInduction
<1>. QED  BY <1>3, LowBitsEnds

LEMMA DoublePlus ==
    ASSUME NEW w \in 1..8, NEW x \in Elements(w), NEW y \in Elements(w)
    PROVE  Double(Plus(x, y), w) = Plus(Double(x, w), Double(y, w))
<1> DEFINE Up(v) == {b + 1 : b \in v}
           poly == prim_poly[w]
           low == 0..w-1
<1>1. /\ w \in 1..8 /\ w \notin low
      /\ \A v \in Elements(w) : \A b \in v : b \in Int /\ b \in low
      /\ \A v \in Elements(w) : \A c \in Up(v) : c # w => c \in low
  <2>1. w \in 1..8 /\ w \notin low
    OBVIOUS
  <2>2. \A v \in Elements(w) : \A b \in v : b \in Int /\ b \in low
    BY <2>1 DEF Elements
  <2>3. \A b \in low : b + 1 # w => b + 1 \in low
    BY <2>1
  <2>4. \A v \in Elements(w) : \A c \in Up(v) : c # w => c \in low
    <3> HIDE DEF low
    <3>. QED  BY <2>2, <2>3
  <2>. QED  BY <2>1, <2>2, <2>4
<1>2. Up(Plus(x, y)) = Plus(Up(x), Up(y))
  <2>1. \A a, b \in Int : a + 1 = b + 1 => a = b
    OBVIOUS
  <2>. QED  BY <1>1, <2>1 DEF Plus
<1>3. \A v : Double(v, w) = IF w \in Up(v) THEN Plus(Up(v), poly) \cap low
                                                         ELSE Up(v)
  BY DEF Double
<1>4. Plus(x, y) \in Elements(w)
  BY PlusLaws
<1> HIDE DEF Up, poly, low
<1>5. \A v \in Elements(w) : Double(v, w)
          = {c \in low : c \in Up(v) <=> ~(w \in Up(v) /\ c \in poly)}
  <2> SUFFICES ASSUME NEW v \in Elements(w)
               PROVE  Double(v, w)
                 = {c \in low : c \in Up(v) <=> ~(w \in Up(v) /\ c \in poly)}
    OBVIOUS
  <2>1. CASE w \in Up(v)
    BY <1>3, <2>1 DEF Plus
  <2>2. CASE w \notin Up(v)
    <3>1. Double(v, w) = Up(v) /\ \A c \in Up(v) : c \in low
      BY <1>1, <1>3, <2>2
    <3>. QED  BY <2>2, <3>1
  <2>. QED  BY <2>1, <2>2
<1>6. \A c : c \in Up(Plus(x, y)) <=> ~(c \in Up(x) <=> c \in Up(y))
  BY <1>2 DEF Plus
<1>. QED  BY <1>4, <1>5, <1>6 DEF Plus

\* scratch of a sum, of a double, and of 1.
LEMMA ScratchStep ==
    ASSUME NEW w \in 1..8, NEW y \in Elements(w)
    PROVE  /\ Scratch(y, w)[0] = y
           /\ \A q \in 0..w-1 : Scratch(y, w)[q] \in Elements(w)
           /\ \A q \in Nat : q + 1 \in 0..w-1 =>
                 /\ q \in 0..w-1
                 /\ Scratch(y, w)[q + 1] = Double(Scratch(y, w)[q], w)
<1> DEFINE s == Scratch(y, w)
<1>1. /\ s \in [0..w-1 -> Elements(w)]
      /\ s = [q \in 0..w-1 |-> IF q = 0 THEN y ELSE Double(s[q - 1], w)]
  BY ScratchIs
<1>2. w \in 1..8
  OBVIOUS
<1> HIDE DEF s
<1>3. ASSUME NEW q \in Nat, q + 1 \in 0..w-1
      PROVE  q \in 0..w-1 /\ s[q + 1] = Double(s[q], w)
  <2>1. q \in 0..w-1 /\ q + 1 # 0 /\ (q + 1) - 1 = q
    BY <1>2, <1>3
  <2>. QED  BY <1>1, <1>3, <2>1
<1>4. s[0] = y
  BY <1>1, <1>2
<1>. QED  BY <1>1, <1>3, <1>4 DEF s

LEMMA ScratchPlus ==
    ASSUME NEW w \in 1..8, NEW y \in Elements(w), NEW z \in Elements(w)
    PROVE  \A q \in 0..w-1 : Scratch(Plus(y, z), w)[q]
                         = Plus(Scratch(y, w)[q], Scratch(z, w)[q])
<1> DEFINE s == Scratch(y, w)   t == Scratch(z, w)
           u == Scratch(Plus(y, z), w)
           T == {q \in Nat : q \in 0..w-1 => u[q] = Plus(s[q], t[q])}
<1>0. Plus(y, z) \in Elements(w)
  BY PlusLaws
<1>1. 0 \in T
  BY <1>0, ScratchStep
<1>2. ASSUME NEW q \in Nat, q \in T PROVE q + 1 \in T
  <2> SUFFICES ASSUME q + 1 \in 0..w-1 PROVE u[q + 1] = Plus(s[q + 1], t[q + 1])
    OBVIOUS
  <2>1. /\ q \in 0..w-1 /\ u[q + 1] = Double(u[q], w)
        /\ s[q + 1] = Double(s[q], w) /\ t[q + 1] = Double(t[q], w)
        /\ s[q] \in Elements(w) /\ t[q] \in Elements(w)
    BY <1>0, ScratchStep
  <2>2. u[q] = Plus(s[q], t[q])
    BY <1>2, <2>1
  <2> HIDE DEF s, t, u
  <2>. QED  BY <2>1, <2>2, DoublePlus
<1>3. \A q \in Nat : q \in T
  <2> HIDE DEF T
  <2>. QED  BY <1>1, <1>2, SetInduction
<1>4. \A q \in 0..w-1 : q \in Nat
  OBVIOUS
<1>. QED  BY <1>3, <1>4

LEMMA ScratchDouble ==
    ASSUME NEW w \in 1..8, NEW y \in Elements(w)
    PROVE  \A q \in 0..w-1 : Scratch(Double(y, w), w)[q]
                         = Double(Scratch(y, w)[q], w)
<1> DEFINE s == Scratch(y, w)   u == Scratch(Double(y, w), w)
           T == {q \in Nat : q \in 0..w-1 => u[q] = Double(s[q], w)}
<1>0. Double(y, w) \in Elements(w)
  BY DoubleType
<1>1. 0 \in T
  BY <1>0, ScratchStep
<1>2. ASSUME NEW q \in Nat, q \in T PROVE q + 1 \in T
  <2> SUFFICES ASSUME q + 1 \in 0..w-1 PROVE u[q + 1] = Double(s[q + 1], w)
    OBVIOUS
  <2>1. /\ q \in 0..w-1 /\ u[q + 1] = Double(u[q], w)
        /\ s[q + 1] = Double(s[q], w)
    BY <1>0, ScratchStep
  <2>2. u[q] = Double(s[q], w)
    BY <1>2, <2>1
  <2>. QED  BY <2>1, <2>2
<1>3. \A q \in Nat : q \in T
  <2> HIDE DEF T
  <2>. QED  BY <1>1, <1>2, SetInduction
<1>4. \A q \in 0..w-1 : q \in Nat
  OBVIOUS
<1>. QED  BY <1>3, <1>4

LEMMA ScratchOne ==
    ASSUME NEW w \in 1..8
    PROVE  \A q \in 0..w-1 : Scratch(One, w)[q] = {q}
<1> DEFINE s == Scratch(One, w)
           T == {q \in Nat : q \in 0..w-1 => s[q] = {q}}
<1>1. 0 \in T
  BY ScratchStep, ZeroAndOne DEF One
<1>2. ASSUME NEW q \in Nat, q \in T PROVE q + 1 \in T
  <2> SUFFICES ASSUME q + 1 \in 0..w-1 PROVE s[q + 1] = {q + 1}
    OBVIOUS
  <2>1. q \in 0..w-1 /\ s[q + 1] = Double(s[q], w)
    BY ScratchStep, ZeroAndOne
  <2>2. s[q] = {q}
    BY <1>2, <2>1
  <2>3. {b + 1 : b \in {q}} = {q + 1} /\ w \notin {q + 1}
    OBVIOUS
  <2> HIDE DEF s
  <2>. QED  BY <2>1, <2>2, <2>3 DEF Double
<1>3. \A q \in Nat : q \in T
  <2> HIDE DEF T
  <2>. QED  BY <1>1, <1>2, SetInduction
<1>4. \A q \in 0..w-1 : q \in Nat
  OBVIOUS
<1>. QED  BY <1>3, <1>4

\* A word of one bit picks an element of scratch.
LEMMA TimesBit ==
    ASSUME NEW w \in 1..8, NEW q \in 0..w-1, NEW y \in Elements(w)
    PROVE  {q} \in Elements(w) /\ Mul(w)[{q}][y] = Scratch(y, w)[q]
<1> DEFINE s == Scratch(y, w)
<1>0. {q} \in Elements(w)
  BY DEF Elements
<1>1. s[q] \in Elements(w)
  BY ScratchStep
<1>2. ASSUME NEW b PROVE Cardinality({p \in {q} : b \in s[p]}) % 2 = 1 <=> b \in s[q]
  <2>1. CASE b \in s[q]
    <3>1. {p \in {q} : b \in s[p]} = {q}
      BY <2>1
    <3>2. Cardinality({q}) = 1
      BY FS_Singleton
    <3>3. 1 % 2 = 1
      OBVIOUS
    <3>. QED  BY <2>1, <3>1, <3>2, <3>3
  <2>2. CASE b \notin s[q]
    <3>1. {p \in {q} : b \in s[p]} = {}
      BY <2>2
    <3>2. Cardinality({}) = 0
      BY FS_EmptySet
    <3>3. ~(0 % 2 = 1)
      OBVIOUS
    <3>. QED  BY <2>2, <3>1, <3>2, <3>3
  <2>. QED  BY <2>1, <2>2
<1>3. ShiftMultiply({q}, y, w)
          = {b \in 0..w-1 : Cardinality({p \in {q} : b \in s[p]}) % 2 = 1}
  BY DEF ShiftMultiply
<1> HIDE DEF s
<1>4. s[q] \subseteq 0..w-1
  BY <1>1 DEF Elements
<1>5. ShiftMultiply({q}, y, w) = s[q]
  BY <1>2, <1>3, <1>4
<1>. QED  BY <1>0, <1>5, ProductsAre DEF s

LEMMA ZeroTimes ==
    ASSUME NEW w \in 1..8, NEW y \in Elements(w)
    PROVE  Mul(w)[Zero][y] = Zero
<1>1. \A b : {q \in {} : b \in Scratch(y, w)[q]} = {}
  OBVIOUS
<1>2. Cardinality({}) % 2 = 0
  BY FS_EmptySet
<1>3. ShiftMultiply(Zero, y, w) = Zero
  BY <1>1, <1>2 DEF ShiftMultiply, Zero
<1>. QED  BY <1>3, ProductsAre, ZeroAndOne

\* A product is linear in its second factor too, and doubling moves through it.
LEMMA TimesLinear ==
    ASSUME NEW w \in 1..8, NEW y \in Elements(w), NEW z \in Elements(w)
    PROVE  \A x \in Elements(w) :
              /\ Mul(w)[x][Plus(y, z)] = Plus(Mul(w)[x][y], Mul(w)[x][z])
              /\ Mul(w)[x][Double(y, w)] = Double(Mul(w)[x][y], w)
<1> DEFINE T == {x \in Elements(w) :
              /\ Mul(w)[x][Plus(y, z)] = Plus(Mul(w)[x][y], Mul(w)[x][z])
              /\ Mul(w)[x][Double(y, w)] = Double(Mul(w)[x][y], w)}
<1>0. Plus(y, z) \in Elements(w) /\ Double(y, w) \in Elements(w)
  BY PlusLaws, DoubleType
<1>1. Zero \in T
  <2>1. Plus(Zero, Zero) = Zero
    BY PlusLaws, ZeroAndOne
  <2>2. Double(Zero, w) = Zero
    BY DEF Double, Zero
  <2>. QED  BY <1>0, <2>1, <2>2, ZeroTimes, ZeroAndOne
<1>2. ASSUME NEW q \in 0..w-1 PROVE {q} \in T
  <2>1. \A v \in Elements(w) : {q} \in Elements(w) /\ Mul(w)[{q}][v] = Scratch(v, w)[q]
    BY TimesBit
  <2>2. /\ Scratch(Plus(y, z), w)[q]
               = Plus(Scratch(y, w)[q], Scratch(z, w)[q])
        /\ Scratch(Double(y, w), w)[q] = Double(Scratch(y, w)[q], w)
    BY ScratchPlus, ScratchDouble
  <2>. QED  BY <1>0, <2>1, <2>2
<1>3. ASSUME NEW u \in Elements(w), NEW v \in Elements(w), u \in T, v \in T
      PROVE  Plus(u, v) \in T
  <2>1. Plus(u, v) \in Elements(w)
    BY PlusLaws
  <2>2. \A p \in Elements(w) : /\ Mul(w)[Plus(u, v)][p] = Plus(Mul(w)[u][p], Mul(w)[v][p])
                         /\ Mul(w)[u][p] \in Elements(w) /\ Mul(w)[v][p] \in Elements(w)
    <3>1. \A p \in Elements(w) : Mul(w)[Plus(u, v)][p] = Plus(Mul(w)[u][p], Mul(w)[v][p])
      BY TimesDistributes
    <3>2. \A p \in Elements(w) : Mul(w)[u][p] \in Elements(w) /\ Mul(w)[v][p] \in Elements(w)
      BY ProductsAre
    <3>. QED  BY <3>1, <3>2
  <2>3. Mul(w)[Plus(u, v)][Plus(y, z)] = Plus(Mul(w)[Plus(u, v)][y], Mul(w)[Plus(u, v)][z])
    <3>1. \A a, b, c, e \in Elements(w) : Plus(Plus(a, b), Plus(c, e)) = Plus(Plus(a, c), Plus(b, e))
      BY DEF Plus, Elements
    <3>2. Mul(w)[u][Plus(y, z)] = Plus(Mul(w)[u][y], Mul(w)[u][z])
          /\ Mul(w)[v][Plus(y, z)] = Plus(Mul(w)[v][y], Mul(w)[v][z])
      BY <1>3
    <3>3. Mul(w)[Plus(u, v)][Plus(y, z)]
              = Plus(Plus(Mul(w)[u][y], Mul(w)[u][z]), Plus(Mul(w)[v][y], Mul(w)[v][z]))
      BY <1>0, <2>2, <3>2
    <3>4. /\ Mul(w)[u][y] \in Elements(w) /\ Mul(w)[u][z] \in Elements(w)
          /\ Mul(w)[v][y] \in Elements(w) /\ Mul(w)[v][z] \in Elements(w)
      BY <2>2
    <3>5. Plus(Plus(Mul(w)[u][y], Mul(w)[u][z]), Plus(Mul(w)[v][y], Mul(w)[v][z]))
              = Plus(Plus(Mul(w)[u][y], Mul(w)[v][y]), Plus(Mul(w)[u][z], Mul(w)[v][z]))
      <4> PICK a \in Elements(w), b \in Elements(w), c \in Elements(w), e \in Elements(w) :
               /\ a = Mul(w)[u][y] /\ b = Mul(w)[u][z]
               /\ c = Mul(w)[v][y] /\ e = Mul(w)[v][z]
        BY <3>4
      <4>1. Plus(Plus(a, b), Plus(c, e)) = Plus(Plus(a, c), Plus(b, e))
        BY <3>1
      <4>. QED  BY <4>1
    <3>. QED  BY <2>2, <3>3, <3>5
  <2>4. Mul(w)[Plus(u, v)][Double(y, w)] = Double(Mul(w)[Plus(u, v)][y], w)
    <3>1. \A a, b \in Elements(w) : Double(Plus(a, b), w)
                                 = Plus(Double(a, w), Double(b, w))
      BY DoublePlus
    <3>. QED  BY <1>0, <1>3, <2>2, <3>1
  <2>. QED  BY <2>1, <2>3, <2>4
<1>4. \A x \in Elements(w) : x \in T
  <2> HIDE DEF T
  <2>. QED  BY <1>1, <1>2, <1>3, BitInduction
<1>. QED  BY <1>4

\* Factors change places.
LEMMA TimesExchange ==
    ASSUME NEW w \in 1..8, NEW y \in Elements(w), NEW z \in Elements(w)
    PROVE  \A x \in Elements(w) : Mul(w)[x][Mul(w)[y][z]] = Mul(w)[y][Mul(w)[x][z]]
<1> DEFINE T == {x \in Elements(w) : Mul(w)[x][Mul(w)[y][z]] = Mul(w)[y][Mul(w)[x][z]]}
           s == Scratch(z, w)   u == Scratch(Mul(w)[y][z], w)
           Q == {q \in Nat : q \in 0..w-1 => u[q] = Mul(w)[y][s[q]]}
<1>0. Mul(w)[y][z] \in Elements(w)
  BY ProductsAre
<1>1. Zero \in T
  <2>1. Mul(w)[y][Zero] = Zero
    <3>1. Mul(w)[y][Plus(z, z)] = Plus(Mul(w)[y][z], Mul(w)[y][z])
      BY TimesLinear
    <3>. QED  BY <1>0, <3>1, PlusLaws
  <2>. QED  BY <1>0, <2>1, ZeroTimes, ZeroAndOne
<1>2. ASSUME NEW q \in 0..w-1 PROVE {q} \in T
  <2>1. 0 \in Q
    BY <1>0, ScratchStep
  <2>2. ASSUME NEW p \in Nat, p \in Q PROVE p + 1 \in Q
    <3> SUFFICES ASSUME p + 1 \in 0..w-1 PROVE u[p + 1] = Mul(w)[y][s[p + 1]]
      OBVIOUS
    <3>1. /\ p \in 0..w-1 /\ u[p + 1] = Double(u[p], w)
          /\ s[p + 1] = Double(s[p], w) /\ s[p] \in Elements(w)
      BY <1>0, ScratchStep
    <3>2. u[p] = Mul(w)[y][s[p]]
      BY <2>2, <3>1
    <3> HIDE DEF s, u
    <3>3. Mul(w)[y][Double(s[p], w)] = Double(Mul(w)[y][s[p]], w)
      BY <3>1, TimesLinear
    <3>. QED  BY <3>1, <3>2, <3>3
  <2>3. \A p \in Nat : p \in Q
    <3> HIDE DEF Q
    <3>. QED  BY <2>1, <2>2, SetInduction
  <2>4. q \in Nat
    OBVIOUS
  <2>5. u[q] = Mul(w)[y][s[q]]
    BY <2>3, <2>4
  <2>6. Mul(w)[{q}][Mul(w)[y][z]] = u[q] /\ Mul(w)[{q}][z] = s[q] /\ {q} \in Elements(w)
    BY <1>0, TimesBit
  <2>. QED  BY <2>5, <2>6
<1>3. ASSUME NEW a \in Elements(w), NEW b \in Elements(w), a \in T, b \in T
      PROVE  Plus(a, b) \in T
  <2>1. /\ Plus(a, b) \in Elements(w)
        /\ Mul(w)[a][z] \in Elements(w) /\ Mul(w)[b][z] \in Elements(w)
    BY PlusLaws, ProductsAre
  <2>2. Mul(w)[Plus(a, b)][Mul(w)[y][z]]
            = Plus(Mul(w)[a][Mul(w)[y][z]], Mul(w)[b][Mul(w)[y][z]])
    BY <1>0, TimesDistributes
  <2>3. Mul(w)[Plus(a, b)][z] = Plus(Mul(w)[a][z], Mul(w)[b][z])
    BY TimesDistributes
  <2>4. Mul(w)[y][Plus(Mul(w)[a][z], Mul(w)[b][z])]
            = Plus(Mul(w)[y][Mul(w)[a][z]], Mul(w)[y][Mul(w)[b][z]])
    <3>1. \A p, r \in Elements(w) : Mul(w)[y][Plus(p, r)] = Plus(Mul(w)[y][p], Mul(w)[y][r])
      BY TimesLinear
    <3>. QED  BY <2>1, <3>1
  <2>5. /\ Mul(w)[a][Mul(w)[y][z]] = Mul(w)[y][Mul(w)[a][z]]
        /\ Mul(w)[b][Mul(w)[y][z]] = Mul(w)[y][Mul(w)[b][z]]
    BY <1>3
  <2>6. Mul(w)[Plus(a, b)][Mul(w)[y][z]] = Mul(w)[y][Mul(w)[Plus(a, b)][z]]
    BY <2>2, <2>3, <2>4, <2>5
  <2>. QED  BY <2>1, <2>6
<1>4. \A x \in Elements(w) : x \in T
  <2> HIDE DEF T
  <2>. QED  BY <1>1, <1>2, <1>3, BitInduction
<1>. QED  BY <1>4

LEMMA TimesOne ==
    ASSUME NEW w \in 1..8, NEW y \in Elements(w)
    PROVE  Mul(w)[One][y] = y /\ Mul(w)[y][One] = y
<1> DEFINE T == {x \in Elements(w) : Mul(w)[x][One] = x}
<1>1. Mul(w)[One][y] = y
  <2>1. 0 \in 0..w-1
    OBVIOUS
  <2>. QED  BY <2>1, TimesBit, ScratchStep DEF One
<1>2. Zero \in T
  BY ZeroTimes, ZeroAndOne
<1>3. ASSUME NEW q \in 0..w-1 PROVE {q} \in T
  <2>1. One \in Elements(w)
    BY ZeroAndOne
  <2>2. {q} \in Elements(w) /\ Mul(w)[{q}][One] = Scratch(One, w)[q]
    BY <2>1, TimesBit
  <2>3. Scratch(One, w)[q] = {q}
    BY ScratchOne
  <2>. QED  BY <2>2, <2>3
<1>4. ASSUME NEW a \in Elements(w), NEW b \in Elements(w), a \in T, b \in T
      PROVE  Plus(a, b) \in T
  <2>1. Mul(w)[Plus(a, b)][One] = Plus(Mul(w)[a][One], Mul(w)[b][One])
    BY TimesDistributes, ZeroAndOne
  <2>. QED  BY <1>4, <2>1, PlusLaws
<1>5. \A x \in Elements(w) : x \in T
  <2> HIDE DEF T
  <2>. QED  BY <1>2, <1>3, <1>4, BitInduction
<1>. QED  BY <1>1, <1>5

LEMMA TimesCommutes ==
    ASSUME NEW w \in 1..8, NEW x \in Elements(w), NEW y \in Elements(w)
    PROVE  Mul(w)[x][y] = Mul(w)[y][x]
<1>1. Mul(w)[x][Mul(w)[y][One]] = Mul(w)[y][Mul(w)[x][One]]
  BY TimesExchange, ZeroAndOne
<1>. QED  BY <1>1, TimesOne

LEMMA TimesAssociates ==
    ASSUME NEW w \in 1..8, NEW x \in Elements(w), NEW y \in Elements(w),
           NEW z \in Elements(w)
    PROVE  Mul(w)[Mul(w)[x][y]][z] = Mul(w)[x][Mul(w)[y][z]]
<1>1. Mul(w)[x][y] \in Elements(w) /\ Mul(w)[y][z] \in Elements(w) /\ Mul(w)[z][y] \in Elements(w)
  BY ProductsAre
<1>2. Mul(w)[Mul(w)[x][y]][z] = Mul(w)[z][Mul(w)[x][y]]
  BY <1>1, TimesCommutes
<1>3. Mul(w)[z][Mul(w)[x][y]] = Mul(w)[x][Mul(w)[z][y]]
  BY TimesExchange
<1>4. Mul(w)[z][y] = Mul(w)[y][z]
  BY TimesCommutes
<1>. QED  BY <1>2, <1>3, <1>4

LEMMA TimesZero ==
    ASSUME NEW w \in 1..8, NEW y \in Elements(w)
    PROVE  Mul(w)[Zero][y] = Zero /\ Mul(w)[y][Zero] = Zero
  BY ZeroTimes, TimesCommutes, ZeroAndOne

LEMMA InversesInvert ==
    ASSUME NEW w \in 1..8, HasInverses(w),
           NEW x \in Elements(w), x # Zero
    PROVE  /\ Quotient(One, x, w) \in Elements(w)
           /\ Mul(w)[x][Quotient(One, x, w)] = One
<1> DEFINE y == Quotient(One, x, w)
<1>1. \E z \in Elements(w) : ShiftMultiply(z, x, w) = One
  BY DEF HasInverses
<1>2. y = CHOOSE z \in Elements(w) : ShiftMultiply(z, x, w) = One
  BY DEF Quotient
<1>3. y \in Elements(w) /\ ShiftMultiply(y, x, w) = One
  BY <1>1, <1>2
<1> HIDE DEF y
<1>4. Mul(w)[x][y] = One
  BY <1>3, ProductsAre, TimesCommutes
<1>. QED  BY <1>3, <1>4 DEF y

\* Multiplying by what is not zero loses nothing.
LEMMA NoZeroDivisors ==
    ASSUME NEW w \in 1..8, HasInverses(w),
           NEW x \in Elements(w), NEW y \in Elements(w), y # Zero,
           Mul(w)[x][y] = Zero
    PROVE  x = Zero
<1> PICK z : z = Quotient(One, y, w)
  OBVIOUS
<1>1. z \in Elements(w) /\ Mul(w)[y][z] = One
  BY InversesInvert
<1>2. Mul(w)[Mul(w)[x][y]][z]
          = Mul(w)[x][Mul(w)[y][z]]
  BY <1>1, TimesAssociates
<1>3. Mul(w)[x][One] = x
  BY TimesOne
<1>4. Mul(w)[Zero][z] = Zero
  BY <1>1, TimesZero
<1>. QED  BY <1>1, <1>2, <1>3, <1>4

=============================================================================
