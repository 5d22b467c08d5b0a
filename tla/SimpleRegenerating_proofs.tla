-------------------- MODULE SimpleRegenerating_proofs --------------------
(***************************************************************************)
(* Theorems about the simple regenerating code for every number of nodes,  *)
(* data nodes and stripes, every size of the input, of the buffer and of a *)
(* word.                                                                   *)
(***************************************************************************)
EXTENDS SimpleRegenerating, CommonLemmas, FiniteSetTheorems

\* Slot s of the node files, as far as it holds index c; and the byte there.
Ix(s, e) == (e + n - s) % n
At(nd, s, c, q) == nd[(c + s) % n][s * chunkSize + q]

Odd(S) == Cardinality(S) % 2 = 1

\* The sum of the chunks with index c in slots up to s.
SumAt(nd, s, c, q) ==
    {t \in UNION {At(nd, o, c, q) : o \in 0..s-1} : Odd({o \in 0..s-1 : t \in At(nd, o, c, q)})}

\* Slot s holds one codeword at place q.
CodeAt(nd, s, q) ==
    \A row \in 0..m-1 :
        At(nd, s, k + row, q) = UNION {Times(row, c, At(nd, s, c, q)) : c \in Sources}

\* The place of byte p of this read-in, and the piece with index c of a stripe.
Cur(p) == (z - 1) * buffersize + p
Piece(c) == IF c < k THEN data[c] ELSE coding[c - k]

NodeShape ==
    /\ node = [e \in Nodes |-> node[e]]
    /\ \A e \in Nodes : DOMAIN node[e] = 0..(f+1)*chunkSize-1

\* What the read-ins so far left behind.
DealtInv ==
    \A q \in 0..(z-1)*buffersize-1 :
        /\ \A s \in 0..f-1 : CodeAt(node, s, q)
        /\ \A c \in Nodes : At(node, f, c, q) = SumAt(node, f, c, q)

\* What the stripes of this read-in left behind.
StripeInv ==
    /\ z <= readins /\ i \in 0..f
    /\ \A s \in 0..i-1, p \in Buffer : CodeAt(node, s, Cur(p))

\* The sums of the stripes so far, before and after the stripe is written.
SumsOf(added) ==
    \A c \in Nodes, p \in Buffer :
        xor[c][p] = IF added THEN Xor(SumAt(node, i, c, Cur(p)), Piece(c)[p])
                    ELSE SumAt(node, i, c, Cur(p))

WriteInv ==
    /\ i < f /\ j \in 0..n
    /\ \A row \in 0..m-1, p \in Buffer : coding[row][p] = Coded(row, data, p)
    /\ \A e \in 0..j-1, p \in Buffer :
          node[e][i * chunkSize + Cur(p)] = Piece(Ix(i, e))[p]

XorsInv ==
    /\ i = f /\ j \in 0..n
    /\ \A e \in 0..j-1, p \in Buffer :
          node[e][i * chunkSize + Cur(p)] = xor[Ix(i, e)][p]

Begun == pc \notin {"adjust", "sizes", "table"}

SRInv ==
    /\ args \in Inputs
    /\ pc \in {"adjust", "sizes", "table", "readin", "read", "encode", "write", "xors", "done"}
    /\ buffersize \in Nat
    /\ pc \notin {"adjust", "sizes"} =>
          readins \in Nat \ {0} /\ chunkSize \in Nat /\ chunkSize = readins * buffersize
    /\ ~Begun => z = 1
    /\ Begun => LookupTable = Placement /\ z \in 1..readins+1 /\ NodeShape /\ DealtInv
    /\ pc \in {"read", "encode", "write", "xors"} => StripeInv
    /\ pc \in {"read", "encode", "xors"} => SumsOf(FALSE)
    /\ pc = "encode" => i < f
    /\ pc = "write" => SumsOf(TRUE) /\ WriteInv
    /\ pc = "xors" => XorsInv

-----------------------------------------------------------------------------
(* Numbers *)

LEMMA ArgsAre ==
    ASSUME args \in Inputs
    PROVE  /\ k \in Nat \ {0} /\ n \in Nat \ {0} /\ n >= k /\ f \in 1..n-1 /\ f \in Nat
           /\ args.size \in Nat /\ args.buffersize \in Nat \ {0} /\ Unit \in Nat \ {0}
           /\ m = n - k /\ m \in Nat
BY SRCAssumption DEF k, n, f, m

\* Indexes go around the nodes, and the placement is undone by the holder.
LEMMA Around ==
    ASSUME NEW v \in Nat \ {0}, NEW s \in 0..v-1, NEW e \in 0..v-1
    PROVE  /\ (e + v - s) % v = IF e >= s THEN e - s ELSE (e + v) - s
           /\ (e + s) % v = IF e + s < v THEN e + s ELSE (e + s) - v
<1>1. \A x \in 0..v-1 : x % v = x /\ (v + x) % v = x
  <2> SUFFICES ASSUME NEW x \in 0..v-1 PROVE x % v = x /\ (v + x) % v = x
    OBVIOUS
  <2>1. v * 0 + x = x /\ v * 1 + x = v + x
    OBVIOUS
  <2>2. (v * 0 + x) % v = x /\ (v * 1 + x) % v = x
    <3>1. 0 \in Nat /\ 1 \in Nat
      OBVIOUS
    <3>. QED  BY <3>1, DivRest
  <2>. QED  BY <2>1, <2>2
<1>2. (e + v - s) % v = IF e >= s THEN e - s ELSE (e + v) - s
  <2>1. CASE e >= s
    <3>1. e - s \in 0..v-1 /\ v + (e - s) = e + v - s
      BY <2>1
    <3>. QED  BY <1>1, <2>1, <3>1
  <2>2. CASE ~(e >= s)
    <3>1. e + v - s \in 0..v-1
      BY <2>2
    <3>. QED  BY <1>1, <2>2, <3>1
  <2>. QED  BY <2>1, <2>2
<1>3. (e + s) % v = IF e + s < v THEN e + s ELSE (e + s) - v
  <2>1. CASE e + s < v
    <3>1. e + s \in 0..v-1
      BY <2>1
    <3>. QED  BY <1>1, <2>1, <3>1
  <2>2. CASE ~(e + s < v)
    <3>1. (e + s) - v \in 0..v-1 /\ v + ((e + s) - v) = e + s
      BY <2>2
    <3>. QED  BY <1>1, <2>2, <3>1
  <2>. QED  BY <2>1, <2>2
<1>. QED  BY <1>2, <1>3

LEMMA HolderOf ==
    ASSUME args \in Inputs, NEW s \in 0..f
    PROVE  /\ \A e \in Nodes : Ix(s, e) \in Nodes /\ (Ix(s, e) + s) % n = e
           /\ \A c \in Nodes : (c + s) % n \in Nodes /\ Ix(s, (c + s) % n) = c
<1>1. n \in Nat \ {0} /\ s \in 0..n-1 /\ Nodes = 0..n-1
  BY ArgsAre DEF Nodes
<1>2. ASSUME NEW e \in Nodes PROVE Ix(s, e) \in Nodes /\ (Ix(s, e) + s) % n = e
  <2>1. Ix(s, e) = IF e >= s THEN e - s ELSE (e + n) - s
    BY <1>1, <1>2, Around DEF Ix
  <2>2. Ix(s, e) \in 0..n-1
    BY <1>1, <2>1
  <2>3. (Ix(s, e) + s) % n = IF Ix(s, e) + s < n THEN Ix(s, e) + s ELSE (Ix(s, e) + s) - n
    BY <1>1, <2>2, Around
  <2>. QED  BY <1>1, <2>1, <2>2, <2>3
<1>3. ASSUME NEW c \in Nodes PROVE (c + s) % n \in Nodes /\ Ix(s, (c + s) % n) = c
  <2> DEFINE e == (c + s) % n
  <2>1. e = IF c + s < n THEN c + s ELSE (c + s) - n
    BY <1>1, <1>3, Around
  <2>2. e \in 0..n-1
    BY <1>1, <2>1
  <2> HIDE DEF e
  <2>3. Ix(s, e) = IF e >= s THEN e - s ELSE (e + n) - s
    BY <1>1, <2>2, Around DEF Ix
  <2>4. Ix(s, e) = c
    BY <1>1, <2>1, <2>2, <2>3
  <2>. QED  BY <1>1, <2>2, <2>4 DEF e
<1>. QED  BY <1>2, <1>3

\* Places in different slots, or of different read-ins, are different.
LEMMA PlacesApart ==
    ASSUME NEW b \in Nat, NEW r \in Nat, NEW done \in 0..r-1, NEW size, size = r * b,
           NEW slot \in Nat, NEW s \in Nat, NEW q \in 0..size-1,
           (s * size + q) - (done * b + slot * size) \in 0..b-1
    PROVE  s = slot /\ q - done * b \in 0..b-1
<1>1. r * b \in Nat /\ done * b \in Nat /\ done * b + b <= size /\ size \in Nat
  <2>1. r - done - 1 \in Nat
    OBVIOUS
  <2>2. r * b = done * b + b + (r - done - 1) * b /\ (r - done - 1) * b \in Nat
    BY <2>1
  <2>3. done * b \in Nat
    OBVIOUS
  <2>. QED  BY <2>2, <2>3
<1> DEFINE rest == q - done * b
<1>2. rest \in Int /\ rest > b - size - 1 /\ rest < size
  BY <1>1
<1>3. s * size \in Nat /\ slot * size \in Nat
  BY <1>1
<1>4. s * size - slot * size + rest \in 0..b-1
  BY <1>1, <1>3
<1>5. ~(s > slot)
  <2> SUFFICES ASSUME s > slot PROVE FALSE
    OBVIOUS
  <2>1. s - slot - 1 \in Nat
    OBVIOUS
  <2>2. s * size - slot * size = size + (s - slot - 1) * size /\ (s - slot - 1) * size \in Nat
    BY <1>1, <2>1
  <2> HIDE DEF rest
  <2>. QED  BY <1>1, <1>2, <1>3, <1>4, <2>2
<1>6. ~(s < slot)
  <2> SUFFICES ASSUME s < slot PROVE FALSE
    OBVIOUS
  <2>1. slot - s - 1 \in Nat
    OBVIOUS
  <2>2. slot * size - s * size = size + (slot - s - 1) * size /\ (slot - s - 1) * size \in Nat
    BY <1>1, <2>1
  <2> HIDE DEF rest
  <2>. QED  BY <1>1, <1>2, <1>3, <1>4, <2>2
<1>7. s = slot
  BY <1>5, <1>6
<1>. QED  BY <1>1, <1>3, <1>4, <1>7

-----------------------------------------------------------------------------
(* Sums *)

\* The slots whose byte has a term.
Having(nd, s, c, q, t) == {o \in 0..s-1 : t \in At(nd, o, c, q)}

LEMMA HavingIsFinite ==
    ASSUME NEW nd, NEW s \in Nat, NEW c, NEW q, NEW t
    PROVE  /\ IsFiniteSet(Having(nd, s, c, q, t)) /\ Cardinality(Having(nd, s, c, q, t)) \in Nat
           /\ t \in SumAt(nd, s, c, q) <=> Odd(Having(nd, s, c, q, t))
<1> DEFINE H == Having(nd, s, c, q, t)
<1>1. IsFiniteSet(0..s-1) /\ H \subseteq 0..s-1
  BY FS_Interval DEF Having
<1>2. IsFiniteSet(H) /\ Cardinality(H) \in Nat
  BY <1>1, FS_Subset, FS_CardinalityType
<1>3. Odd(H) => H # {}
  <2>1. Cardinality({}) = 0 /\ 0 % 2 # 1
    BY FS_EmptySet
  <2>. QED  BY <2>1 DEF Odd
<1>4. H # {} => t \in UNION {At(nd, o, c, q) : o \in 0..s-1}
  BY DEF Having
<1>5. t \in SumAt(nd, s, c, q) <=> t \in UNION {At(nd, o, c, q) : o \in 0..s-1} /\ Odd(H)
  BY DEF SumAt, Having
<1> HIDE DEF H
<1>6. t \in SumAt(nd, s, c, q) <=> Odd(H)
  BY <1>3, <1>4, <1>5
<1>. QED  BY <1>2, <1>6 DEF H

\* One more slot is one more addition.
LEMMA SumPlusOne ==
    ASSUME NEW nd, NEW s \in Nat, NEW c, NEW q
    PROVE  SumAt(nd, s + 1, c, q) = Xor(SumAt(nd, s, c, q), At(nd, s, c, q))
<1> SUFFICES ASSUME NEW t
             PROVE  t \in SumAt(nd, s + 1, c, q) <=> ~(t \in SumAt(nd, s, c, q) <=> t \in At(nd, s, c, q))
  BY DEF Xor
<1> DEFINE H == Having(nd, s, c, q, t)
           G == Having(nd, s + 1, c, q, t)
<1>1. G = IF t \in At(nd, s, c, q) THEN H \cup {s} ELSE H
  <2>1. 0..(s+1)-1 = (0..s-1) \cup {s}
    OBVIOUS
  <2>. QED  BY <2>1 DEF Having
<1>2. s \notin H
  BY DEF Having
<1>3. IsFiniteSet(H) /\ Cardinality(H) \in Nat /\ (t \in SumAt(nd, s, c, q) <=> Odd(H))
  BY HavingIsFinite
<1>4. t \in SumAt(nd, s + 1, c, q) <=> Odd(G)
  <2>1. s + 1 \in Nat
    OBVIOUS
  <2>. QED  BY <2>1, HavingIsFinite
<1> HIDE DEF H, G
<1>5. Cardinality(H \cup {s}) = Cardinality(H) + 1
  BY <1>2, <1>3, FS_AddElement
<1>6. \A x \in Nat : (x + 1) % 2 = 1 <=> ~(x % 2 = 1)
  OBVIOUS
<1>7. Odd(H \cup {s}) <=> ~Odd(H)
  BY <1>3, <1>5, <1>6 DEF Odd
<1>. QED  BY <1>1, <1>3, <1>4, <1>7

LEMMA SumOfNone ==
    ASSUME NEW nd, NEW c, NEW q PROVE SumAt(nd, 0, c, q) = {}
<1>1. 0..0-1 = {}
  OBVIOUS
<1>. QED  BY <1>1 DEF SumAt

\* SumOver, for the values of a function.
SumOfValues(S, g) ==
    LET terms == {<<s, t>> : s \in S, t \in UNION {g[s] : s \in S}}
        present == {x \in terms : x[2] \in g[x[1]]}
    IN  {t \in {x[2] : x \in present} : Odd({x \in present : x[2] = t})}

\* If the last slot is the sum of the others, each is the sum of all others.
LEMMA EachIsSum ==
    ASSUME NEW r \in Nat, NEW g, NEW s \in 0..r,
           \A t : t \in g[r] <=> Odd({o \in 0..r-1 : t \in g[o]})
    PROVE  g[s] = SumOfValues((0..r) \ {s}, g)
<1> DEFINE S == (0..r) \ {s}
           Holds(t) == {o \in S : t \in g[o]}
           All(t) == {o \in 0..r : t \in g[o]}
           terms == {<<o, t>> : o \in S, t \in UNION {g[o] : o \in S}}
           present == {x \in terms : x[2] \in g[x[1]]}
<1>1. ASSUME NEW t PROVE Odd({x \in present : x[2] = t}) <=> Odd(Holds(t))
  <2> DEFINE P == {x \in present : x[2] = t}
             h == [o \in Holds(t) |-> <<o, t>>]
  <2>1. P = {<<o, t>> : o \in Holds(t)}
    <3>1. ASSUME NEW x \in P PROVE x \in {<<o, t>> : o \in Holds(t)}
      <4>1. PICK o \in S, u \in UNION {g[y] : y \in S} : x = <<o, u>>
        OBVIOUS
      <4>2. u = t /\ t \in g[o]
        BY <4>1
      <4>. QED  BY <4>1, <4>2
    <3>2. ASSUME NEW o \in Holds(t) PROVE <<o, t>> \in P
      <4>1. o \in S /\ t \in g[o]
        OBVIOUS
      <4>2. <<o, t>> \in terms
        BY <4>1
      <4>. QED  BY <4>1, <4>2
    <3>. QED  BY <3>1, <3>2
  <2> HIDE DEF P, Holds
  <2>2. h \in Bijection(Holds(t), P)
    <3>1. h \in Surjection(Holds(t), P)
      BY <2>1, Zenon DEF Surjection
    <3>2. h \in Injection(Holds(t), P)
      BY <2>1 DEF Injection, IsInjective
    <3>. QED  BY <3>1, <3>2 DEF Bijection
  <2>3. IsFiniteSet(Holds(t))
    <3>1. IsFiniteSet(0..r) /\ Holds(t) \subseteq 0..r
      BY FS_Interval DEF Holds
    <3>. QED  BY <3>1, FS_Subset
  <2>4. Cardinality(P) = Cardinality(Holds(t))
    BY <2>2, <2>3, FS_Bijection DEF ExistsBijection
  <2>. QED  BY <2>4 DEF P, Odd
<1>2. ASSUME NEW t PROVE t \in g[s] <=> Odd(Holds(t))
  <2> DEFINE F == {o \in 0..r-1 : t \in g[o]}
  <2>1. IsFiniteSet(0..r) /\ IsFiniteSet(F) /\ IsFiniteSet(Holds(t))
    <3>1. IsFiniteSet(0..r) /\ F \subseteq 0..r /\ Holds(t) \subseteq 0..r
      BY FS_Interval
    <3>. QED  BY <3>1, FS_Subset
  <2>2. /\ All(t) = IF t \in g[r] THEN F \cup {r} ELSE F
        /\ All(t) = IF t \in g[s] THEN Holds(t) \cup {s} ELSE Holds(t)
        /\ r \notin F /\ s \notin Holds(t)
    <3>1. 0..r = (0..r-1) \cup {r} /\ 0..r = S \cup {s} /\ r \notin 0..r-1
      OBVIOUS
    <3> HIDE DEF S
    <3>2. s \notin S
      BY DEF S
    <3>. QED  BY <3>1, <3>2
  <2>3. Odd(F) <=> t \in g[r]
    OBVIOUS
  <2> HIDE DEF F, Holds, All
  <2>4. /\ Cardinality(F) \in Nat /\ Cardinality(Holds(t)) \in Nat
        /\ Cardinality(F \cup {r}) = Cardinality(F) + 1
        /\ Cardinality(Holds(t) \cup {s}) = Cardinality(Holds(t)) + 1
    BY <2>1, <2>2, FS_AddElement, FS_CardinalityType
  <2>5. \A x \in Nat : (x + 1) % 2 = 1 <=> ~(x % 2 = 1)
    OBVIOUS
  <2>6. ~ Odd(All(t))
    BY <2>2, <2>3, <2>4, <2>5 DEF Odd
  <2>. QED  BY <2>2, <2>4, <2>5, <2>6 DEF Odd
<1>3. SumOfValues(S, g) = {t \in {x[2] : x \in present} : Odd({x \in present : x[2] = t})}
  BY DEF SumOfValues
<1>4. ASSUME NEW t, Odd(Holds(t)) PROVE t \in {x[2] : x \in present}
  <2>1. Cardinality({}) = 0 /\ 0 % 2 # 1
    BY FS_EmptySet
  <2>2. Holds(t) # {}
    BY <1>4, <2>1 DEF Odd
  <2>3. PICK o \in S : t \in g[o]
    BY <2>2
  <2>4. <<o, t>> \in terms
    BY <2>3
  <2>5. <<o, t>> \in present /\ <<o, t>>[2] = t
    BY <2>3, <2>4
  <2>. QED  BY <2>5
<1>5. ASSUME NEW t PROVE t \in g[s] <=> t \in {u \in {x[2] : x \in present} : Odd({x \in present : x[2] = u})}
  <2> HIDE DEF present, Holds
  <2>. QED  BY <1>1, <1>2, <1>4
<1> HIDE DEF present
<1>6. g[s] = {u \in {x[2] : x \in present} : Odd({x \in present : x[2] = u})}
  <2> DEFINE R == {u \in {x[2] : x \in present} : Odd({x \in present : x[2] = u})}
  <2>1. \A t : t \in g[s] <=> t \in R
    BY <1>5
  <2> HIDE DEF R
  <2>2. g[s] = R
    BY <2>1
  <2>. QED  BY <2>2 DEF R
<1>. QED  BY <1>3, <1>6

-----------------------------------------------------------------------------
(* Sizes *)

LEMMA MinIs ==
    ASSUME NEW S \in SUBSET Nat, S # {}
    PROVE  Min(S) \in S /\ \A e \in S : Min(S) <= e
BY LeastOf DEF Min

LEMMA RestOf ==
    ASSUME NEW x \in Nat, NEW u \in Nat \ {0}
    PROVE  /\ x \div u \in Nat /\ x % u \in 0..u-1 /\ x = u * (x \div u) + (x % u)
           /\ x % u <= x
<1> DEFINE d == x \div u
           e == x % u
<1>1. d \in Int /\ e \in 0..u-1 /\ x = u * d + e
  OBVIOUS
<1> HIDE DEF d, e
<1>2. d \in Nat
  <2> SUFFICES ASSUME d < 0 PROVE FALSE
    BY <1>1
  <2>1. 0 - d - 1 \in Nat
    BY <1>1
  <2>2. u * (0 - d - 1) \in Nat /\ u * d = 0 - u - u * (0 - d - 1)
    BY <1>1, <2>1
  <2>3. u * d \in Int
    BY <1>1
  <2>. QED  BY <1>1, <2>2, <2>3
<1>3. u * d \in Nat
  BY <1>2
<1>. QED  BY <1>1, <1>2, <1>3 DEF d, e

\* The buffer stays a number, also when it is adjusted to 0.
LEMMA AdjustKeeps ==
    ASSUME SRInv, AdjustBuffersize PROVE SRInv'
<1> DEFINE b == buffersize
           T == {s \in 0..Unit : (b + s) % Unit = 0 \/ (b - s) % Unit = 0}
           steps == Min(T)
<1>1. /\ args \in Inputs /\ b \in Nat /\ pc = "adjust" /\ z = 1 /\ Unit \in Nat \ {0}
  BY ArgsAre DEF SRInv, AdjustBuffersize, Begun
<1>2. b % Unit \in T
  <2> DEFINE d == b \div Unit
             e == b % Unit
  <2>1. d \in Nat /\ e \in 0..Unit-1 /\ b = Unit * d + e
    BY <1>1, RestOf
  <2> HIDE DEF d, e
  <2>2. 0 \in 0..Unit-1 /\ Unit * d \in Nat /\ b - e = Unit * d + 0
    <3>1. Unit * d \in Nat
      BY <1>1, <2>1
    <3>. QED  BY <1>1, <2>1, <3>1
  <2>3. (Unit * d + 0) % Unit = 0
    BY <1>1, <2>1, <2>2, DivRest
  <2>. QED  BY <1>1, <2>1, <2>2, <2>3 DEF e
<1>3. T \in SUBSET Nat /\ T # {}
  <2>1. T \subseteq 0..Unit /\ 0..Unit \subseteq Nat
    BY <1>1
  <2> HIDE DEF T
  <2>. QED  BY <1>2, <2>1
<1>4. steps \in T /\ steps <= b % Unit
  BY <1>2, <1>3, MinIs
<1>5. steps \in Nat /\ b - steps \in Nat
  <2>1. b % Unit \in Nat /\ b % Unit <= b
    BY <1>1, RestOf
  <2>2. steps \in Nat
    BY <1>3, <1>4
  <2> HIDE DEF steps, T
  <2>. QED  BY <1>1, <1>4, <2>1, <2>2
<1>6. buffersize' = IF (b + steps) % Unit = 0 THEN b + steps ELSE b - steps
  BY DEF AdjustBuffersize
<1> HIDE DEF steps, T
<1>7. buffersize' \in Nat
  BY <1>1, <1>5, <1>6
<1>8. pc' = "sizes" /\ args' = args /\ z' = z
  BY DEF AdjustBuffersize
<1>. QED  BY <1>1, <1>7, <1>8 DEF SRInv, Begun

\* There is a size that chunks and buffers divide.
LEMMA SizeFound ==
    ASSUME args \in Inputs, buffersize \in Nat \ {0}
    PROVE  /\ NewSize \in Nat /\ f * k \in Nat \ {0}
           /\ (NewSize \div (f * k)) % buffersize = 0
           /\ NewSize >= args.size /\ NewSize % (k * f * Unit) = 0
<1> DEFINE b == buffersize
           fk == f * k
           v == k * f * Unit
           P == v * b
           S == {s \in args.size..Bound : Divides(s)}
<1>1. /\ k \in Nat \ {0} /\ f \in Nat \ {0} /\ Unit \in Nat \ {0} /\ args.size \in Nat
      /\ b \in Nat \ {0}
  BY ArgsAre
<1> HIDE DEF b
<1>2. /\ fk \in Nat \ {0} /\ k * f = fk
  BY <1>1
<1>3. v = fk * Unit /\ v \in Nat \ {0} /\ P \in Nat \ {0}
  <2>1. v = fk * Unit
    BY <1>2
  <2>2. v \in Nat \ {0}
    <3> HIDE DEF fk, v
    <3>. QED  BY <1>1, <1>2, <2>1
  <2>3. P \in Nat \ {0}
    <3> HIDE DEF v
    <3>. QED  BY <1>1, <2>2
  <2>. QED  BY <2>1, <2>2, <2>3
<1>4. Bound = args.size + P
  BY DEF Bound, b
<1> HIDE DEF P, v, fk
<1> DEFINE t == args.size \div P + 1
           s0 == P * t
<1>5. t \in Nat /\ s0 \in args.size..Bound
  <2> DEFINE d == args.size \div P
             e == args.size % P
  <2>1. d \in Nat /\ e \in 0..P-1 /\ args.size = P * d + e
    BY <1>1, <1>3, RestOf
  <2> HIDE DEF d, e
  <2>2. t = d + 1 /\ P * (d + 1) = P * d + P /\ P * d \in Nat
    BY <1>3, <2>1 DEF d
  <2>. QED  BY <1>3, <1>4, <2>1, <2>2
<1> HIDE DEF t
<1>6. ASSUME NEW u \in Nat \ {0}, NEW y \in Nat PROVE (u * y) \div u = y /\ (u * y) % u = 0
  <2>1. u * y + 0 = u * y /\ 0 \in 0..u-1
    BY <1>6
  <2>2. (u * y + 0) \div u = y /\ (u * y + 0) % u = 0
    BY <1>6, <2>1, DivRest
  <2>. QED  BY <2>1, <2>2
<1>7. s0 = v * (b * t) /\ s0 = b * (v * t) /\ s0 = fk * (b * (Unit * t))
  <2>1. s0 = (v * b) * t
    BY DEF P
  <2>2. (v * b) * t = v * (b * t) /\ (v * b) * t = b * (v * t)
    BY <1>1, <1>3, <1>5
  <2>3. v * (b * t) = fk * (b * (Unit * t))
    <3>1. (fk * Unit) * (b * t) = fk * (Unit * (b * t))
      BY <1>1, <1>2, <1>5
    <3>2. Unit * (b * t) = b * (Unit * t)
      BY <1>1, <1>5
    <3>. QED  BY <1>3, <3>1, <3>2
  <2>. QED  BY <2>1, <2>2, <2>3
<1> HIDE DEF s0
<1>8. Divides(s0)
  <2>1. b * t \in Nat /\ v * t \in Nat /\ Unit * t \in Nat
    BY <1>1, <1>3, <1>5
  <2>2. b * (Unit * t) \in Nat
    BY <1>1, <2>1
  <2>3. s0 % v = 0 /\ s0 % b = 0 /\ s0 \div fk = b * (Unit * t)
    <3>1. (v * (b * t)) % v = 0
      BY <1>3, <1>6, <2>1
    <3>2. (b * (v * t)) % b = 0
      BY <1>1, <1>6, <2>1
    <3>3. (fk * (b * (Unit * t))) \div fk = b * (Unit * t)
      BY <1>2, <1>6, <2>2
    <3>. QED  BY <1>7, <3>1, <3>2, <3>3
  <2>4. (b * (Unit * t)) % b = 0
    BY <1>1, <1>6, <2>1
  <2>. QED  BY <2>3, <2>4 DEF Divides, b, v, fk
<1>9. S # {} /\ S \in SUBSET Nat
  BY <1>1, <1>3, <1>4, <1>5, <1>8
<1>10. NewSize \in S
  <2>1. NewSize = Min(S)
    BY <1>1 DEF NewSize, b
  <2> HIDE DEF S
  <2>. QED  BY <1>9, <2>1, MinIs
<1>11. NewSize \in Nat /\ NewSize >= args.size /\ Divides(NewSize)
  BY <1>1, <1>3, <1>4, <1>9, <1>10
<1>. QED  BY <1>2, <1>11 DEF Divides, fk

LEMMA FindSizesKeeps ==
    ASSUME SRInv, FindSizes PROVE SRInv'
<1> DEFINE b == buffersize
           cs == NewSize \div (f * k)
<1>1. /\ args \in Inputs /\ b \in Nat /\ pc = "sizes" /\ z = 1
  BY DEF SRInv, FindSizes, Begun
<1>2. /\ pc' = "table" /\ args' = args /\ z' = z /\ chunkSize' = cs
      /\ IF cs > b /\ b # 0 THEN readins' = cs \div b /\ buffersize' = b
                            ELSE readins' = 1 /\ buffersize' = cs
  BY DEF FindSizes
<1>3. NewSize \in Nat /\ f * k \in Nat \ {0} /\ (b # 0 => cs % b = 0)
  <2>1. CASE b # 0
    <3>1. buffersize \in Nat \ {0}
      BY <1>1, <2>1
    <3>. QED  BY <1>1, <3>1, SizeFound
  <2>2. CASE b = 0
    <3>1. k \in Nat \ {0} /\ f \in Nat \ {0} /\ args.size \in Nat
      BY <1>1, ArgsAre
    <3>. QED  BY <2>2, <3>1 DEF NewSize
  <2>. QED  BY <2>1, <2>2
<1>4. cs \in Nat
  BY <1>3, RestOf
<1> HIDE DEF cs, b
<1>5. /\ buffersize' \in Nat /\ chunkSize' \in Nat /\ readins' \in Nat \ {0}
      /\ chunkSize' = readins' * buffersize'
  <2>1. CASE cs > b /\ b # 0
    <3> DEFINE d == cs \div b
    <3>1. b \in Nat \ {0} /\ d \in Nat /\ cs = b * d + (cs % b) /\ cs % b = 0
      BY <1>1, <1>3, <1>4, <2>1, RestOf
    <3> HIDE DEF d
    <3>2. cs = b * d /\ b * d = d * b
      <4>1. b * d \in Nat /\ b * d = d * b
        BY <3>1
      <4>. QED  BY <3>1, <4>1
    <3>3. d # 0
      <4>1. b * 0 = 0
        BY <3>1
      <4>. QED  BY <1>1, <1>4, <2>1, <3>1, <3>2, <4>1
    <3>. QED  BY <1>1, <1>2, <1>4, <2>1, <3>1, <3>2, <3>3 DEF d
  <2>2. CASE ~(cs > b /\ b # 0)
    BY <1>2, <1>4, <2>2
  <2>. QED  BY <2>1, <2>2
<1>. QED  BY <1>1, <1>2, <1>5 DEF SRInv, Begun

-----------------------------------------------------------------------------
(* The places of the node files *)

\* The sizes as they are once the table is made.
SizesInv ==
    /\ args \in Inputs /\ buffersize \in Nat /\ readins \in Nat \ {0}
    /\ chunkSize \in Nat /\ chunkSize = readins * buffersize
    /\ LookupTable = Placement

LEMMA Indices ==
    ASSUME args \in Inputs
    PROVE  /\ \A c \in Sources : c \in Nodes /\ c < k
           /\ \A row \in 0..m-1 : k + row \in Nodes /\ ~(k + row < k) /\ (k + row) - k = row
           /\ \A c \in Nodes : (c < k => c \in Sources) /\ (~(c < k) => c - k \in 0..m-1)
           /\ \A s \in 0..f-1 : s \in 0..f
           /\ Nodes = 0..n-1 /\ n \in Nat \ {0} /\ f \in Nat
<1>1. /\ k \in Nat \ {0} /\ n \in Nat \ {0} /\ n >= k /\ f \in Nat /\ m = n - k
  BY ArgsAre
<1>. QED  BY <1>1 DEF Sources, Nodes

\* The bytes of this read-in lie in the chunk, behind those dealt with.
LEMMA CurFits ==
    ASSUME SizesInv, z \in 1..readins
    PROVE  /\ \A p \in Buffer : Cur(p) \in 0..chunkSize-1 /\ Cur(p) - (z-1)*buffersize = p
           /\ \A q \in 0..(z-1)*buffersize-1 :
                 q \in 0..chunkSize-1 /\ q - (z-1)*buffersize \notin Buffer
           /\ \A q \in 0..z*buffersize-1 : \/ q \in 0..(z-1)*buffersize-1
                                            \/ \E p \in Buffer : q = Cur(p)
<1> DEFINE b == buffersize
           done == (z - 1) * b
<1>1. b \in Nat /\ readins \in Nat /\ z - 1 \in Nat /\ readins - z \in Nat /\ chunkSize = readins * b
  BY DEF SizesInv
<1>2. done \in Nat /\ done + b <= chunkSize /\ z * b = done + b /\ chunkSize \in Nat
  <2>1. readins * b = done + b + (readins - z) * b /\ (readins - z) * b \in Nat
    BY <1>1
  <2>2. done \in Nat /\ z * b = done + b
    BY <1>1
  <2>. QED  BY <1>1, <2>1, <2>2
<1> HIDE DEF done
<1>3. \A p \in Buffer : Cur(p) = done + p /\ p \in 0..b-1
  BY DEF Cur, done, Buffer
<1>4. \A p \in Buffer : Cur(p) \in 0..chunkSize-1 /\ Cur(p) - done = p
  BY <1>1, <1>2, <1>3
<1>5. \A q \in 0..done-1 : q \in 0..chunkSize-1 /\ q - done \notin Buffer
  BY <1>1, <1>2 DEF Buffer
<1>6. ASSUME NEW q \in 0..z*b-1
      PROVE  q \in 0..done-1 \/ \E p \in Buffer : q = Cur(p)
  <2>1. CASE q < done
    BY <1>1, <1>2, <2>1
  <2>2. CASE ~(q < done)
    <3>1. q - done \in Buffer /\ q = done + (q - done)
      BY <1>1, <1>2, <2>2 DEF Buffer
    <3>. QED  BY <1>3, <3>1
  <2>. QED  BY <2>1, <2>2
<1>. QED  BY <1>4, <1>5, <1>6 DEF done

LEMMA PlaceFits ==
    ASSUME args \in Inputs, chunkSize \in Nat, NEW s \in 0..f, NEW q \in 0..chunkSize-1
    PROVE  s * chunkSize + q \in 0..(f+1)*chunkSize-1
<1>1. f - s \in Nat /\ f \in Nat
  BY ArgsAre
<1>2. (f+1)*chunkSize = s * chunkSize + chunkSize + (f - s) * chunkSize
      /\ (f - s) * chunkSize \in Nat /\ s * chunkSize \in Nat
  BY <1>1
<1>. QED  BY <1>2

\* Writing a piece changes the bytes it is for and no others.
LEMMA WrittenIs ==
    ASSUME SizesInv, NodeShape, z \in 1..readins, i \in 0..f, j \in Nodes, NEW piece,
           node' = Written(piece), UNCHANGED <<args, chunkSize>>
    PROVE  /\ NodeShape'
           /\ \A e \in Nodes, s \in 0..f, q \in 0..chunkSize-1 :
                 (e # j \/ s # i \/ q - (z-1)*buffersize \notin Buffer)
                    => node'[e][s * chunkSize + q] = node[e][s * chunkSize + q]
           /\ \A p \in Buffer : node'[j][i * chunkSize + Cur(p)] = piece[p]
<1> DEFINE place == (z - 1) * buffersize + i * chunkSize
           new == [q \in DOMAIN node[j] |->
                     IF q - place \in Buffer THEN piece[q - place] ELSE node[j][q]]
<1>1. /\ args \in Inputs /\ chunkSize \in Nat /\ buffersize \in Nat /\ readins \in Nat
      /\ chunkSize = readins * buffersize /\ z - 1 \in 0..readins-1
      /\ (z - 1) * buffersize \in Nat /\ i \in Nat /\ i * chunkSize \in Nat /\ place \in Nat
  <2>1. /\ args \in Inputs /\ chunkSize \in Nat /\ buffersize \in Nat /\ readins \in Nat
        /\ chunkSize = readins * buffersize /\ z - 1 \in 0..readins-1 /\ z - 1 \in Nat
    BY DEF SizesInv
  <2>2. i \in Nat /\ (z - 1) * buffersize \in Nat
    BY <2>1
  <2>3. i * chunkSize \in Nat
    BY <2>1, <2>2
  <2>. QED  BY <2>1, <2>2, <2>3
<1>2. node' = [node EXCEPT ![j] = new]
  BY DEF Written
<1>3. /\ node' = [e \in Nodes |-> node'[e]] /\ node'[j] = new
      /\ \A e \in Nodes : e # j => node'[e] = node[e]
  <2> HIDE DEF new
  <2>. QED  BY <1>2 DEF NodeShape
<1>4. DOMAIN node[j] = 0..(f+1)*chunkSize-1 /\ DOMAIN new = DOMAIN node[j]
  BY DEF NodeShape
<1>5. NodeShape'
  <2>1. Nodes' = Nodes /\ f' = f
    BY DEF Nodes, n, f
  <2> HIDE DEF new
  <2>2. \A e \in Nodes : DOMAIN node'[e] = 0..(f+1)*chunkSize-1
    BY <1>3, <1>4 DEF NodeShape
  <2>. QED  BY <1>3, <2>1, <2>2 DEF NodeShape
<1>6. ASSUME NEW e \in Nodes, NEW s \in 0..f, NEW q \in 0..chunkSize-1,
             e # j \/ s # i \/ q - (z-1)*buffersize \notin Buffer
      PROVE  node'[e][s * chunkSize + q] = node[e][s * chunkSize + q]
  <2>1. CASE e # j
    BY <1>3, <2>1
  <2>2. CASE e = j
    <3> DEFINE x == s * chunkSize + q
    <3>1. x \in DOMAIN node[j]
      BY <1>1, <1>4, PlaceFits
    <3>2. x - place \notin Buffer
      <4> SUFFICES ASSUME x - place \in Buffer PROVE FALSE
        OBVIOUS
      <4>1. s \in Nat /\ x - ((z - 1) * buffersize + i * chunkSize) \in 0..buffersize-1
        BY DEF Buffer
      <4>2. s = i /\ q - (z - 1) * buffersize \in 0..buffersize-1
        BY <1>1, <4>1, PlacesApart
      <4>. QED  BY <1>6, <2>2, <4>2 DEF Buffer
    <3>3. new[x] = node[j][x]
      BY <3>1, <3>2
    <3>. QED  BY <1>3, <2>2, <3>3
  <2>. QED  BY <2>1, <2>2
<1>7. ASSUME NEW p \in Buffer PROVE node'[j][i * chunkSize + Cur(p)] = piece[p]
  <2> DEFINE x == i * chunkSize + Cur(p)
  <2>1. x \in DOMAIN node[j]
    BY <1>1, <1>4, CurFits, PlaceFits
  <2>2. x - place = p
    <3>1. p \in Int /\ Cur(p) = (z - 1) * buffersize + p
      BY <1>1 DEF Cur, Buffer
    <3>. QED  BY <1>1, <3>1
  <2> HIDE DEF x, place
  <2>3. new[x] = piece[p]
    BY <2>1, <2>2
  <2>. QED  BY <1>3, <2>3 DEF x
<1>. QED  BY <1>5, <1>6, <1>7

-----------------------------------------------------------------------------
(* What is said of the node files depends on the bytes it is about. *)

Same(s, q) == \A e \in Nodes : node'[e][s * chunkSize + q] = node[e][s * chunkSize + q]

LEMMA SizesKept ==
    ASSUME UNCHANGED sizes
    PROVE  /\ SizesInv => SizesInv'
           /\ k' = k /\ n' = n /\ f' = f /\ m' = m /\ Nodes' = Nodes /\ Sources' = Sources
           /\ Buffer' = Buffer /\ args' = args /\ buffersize' = buffersize
           /\ chunkSize' = chunkSize /\ readins' = readins /\ LookupTable' = LookupTable
<1>1. /\ args' = args /\ buffersize' = buffersize /\ chunkSize' = chunkSize
      /\ readins' = readins /\ LookupTable' = LookupTable
  BY DEF sizes
<1>2. k' = k /\ n' = n /\ f' = f
  BY <1>1 DEF k, n, f
<1>3. m' = m /\ Nodes' = Nodes /\ Sources' = Sources /\ Buffer' = Buffer
  BY <1>1, <1>2 DEF m, Nodes, Sources, Buffer
<1>4. Placement' = Placement
  BY <1>2, <1>3 DEF Placement
<1>. QED  BY <1>1, <1>2, <1>3, <1>4 DEF SizesInv

LEMMA AtKept ==
    ASSUME UNCHANGED sizes, args \in Inputs, NEW s \in 0..f, NEW q, Same(s, q)
    PROVE  /\ \A c \in Nodes : At(node, s, c, q)' = At(node, s, c, q)
           /\ CodeAt(node, s, q) => CodeAt(node, s, q)'
<1>1. k' = k /\ n' = n /\ m' = m /\ Sources' = Sources /\ chunkSize' = chunkSize
  BY SizesKept
<1>2. \A c \in Nodes : At(node, s, c, q)' = At(node, s, c, q)
  <2>1. \A c \in Nodes : (c + s) % n \in Nodes
    BY HolderOf
  <2>. QED  BY <1>1, <2>1 DEF At, Same
<1>3. ASSUME CodeAt(node, s, q) PROVE CodeAt(node, s, q)'
  <2> SUFFICES ASSUME NEW row \in 0..m-1
               PROVE  At(node, s, k + row, q)' = UNION {Times(row, c, At(node, s, c, q)') : c \in Sources}
    BY <1>1, Zenon DEF CodeAt
  <2>1. At(node, s, k + row, q)' = At(node, s, k + row, q)
    <3>1. k + row \in Nodes
      BY Indices
    <3>2. \A c \in Nodes : node'[(c + s) % n'][s * chunkSize' + q] = node[(c + s) % n][s * chunkSize + q]
      BY <1>2 DEF At
    <3>. QED  BY <1>1, <3>1, <3>2 DEF At
  <2>2. {Times(row, c, At(node, s, c, q)') : c \in Sources} = {Times(row, c, At(node, s, c, q)) : c \in Sources}
    BY <1>2, Indices
  <2>3. At(node, s, k + row, q) = UNION {Times(row, c, At(node, s, c, q)) : c \in Sources}
    BY <1>3 DEF CodeAt
  <2>. QED  BY <2>1, <2>2, <2>3
<1>. QED  BY <1>2, <1>3

LEMMA SumKept ==
    ASSUME UNCHANGED sizes, args \in Inputs, NEW s \in 0..f, NEW q, NEW c \in Nodes,
           \A o \in 0..s-1 : Same(o, q)
    PROVE  SumAt(node, s, c, q)' = SumAt(node, s, c, q)
<1>1. \A o \in 0..s-1 : At(node, o, c, q)' = At(node, o, c, q)
  <2> SUFFICES ASSUME NEW o \in 0..s-1 PROVE At(node, o, c, q)' = At(node, o, c, q)
    OBVIOUS
  <2>1. o \in 0..f
    BY ArgsAre
  <2>. QED  BY <2>1, AtKept
<1>2. {At(node, o, c, q)' : o \in 0..s-1} = {At(node, o, c, q) : o \in 0..s-1}
  BY <1>1
<1>3. \A t : {o \in 0..s-1 : t \in At(node, o, c, q)'} = {o \in 0..s-1 : t \in At(node, o, c, q)}
  BY <1>1
<1>. QED  BY <1>2, <1>3 DEF SumAt, Odd

-----------------------------------------------------------------------------
(* The steps *)

\* What a step leaves alone that leaves the node files and the counters alone.
LEMMA BegunIs ==
    ASSUME SRInv, Begun
    PROVE  SizesInv /\ z \in 1..readins+1 /\ z \in Nat /\ NodeShape /\ DealtInv
BY DEF SRInv, Begun, SizesInv

LEMMA DealtKept ==
    ASSUME UNCHANGED sizes, z' = z, SizesInv, DealtInv,
           \A s \in 0..f, q \in 0..(z-1)*buffersize-1 : Same(s, q)
    PROVE  DealtInv'
<1>1. /\ f' = f /\ Nodes' = Nodes /\ buffersize' = buffersize /\ args \in Inputs
  BY SizesKept DEF SizesInv
<1>2. f \in 0..f /\ \A s \in 0..f-1 : s \in 0..f
  BY <1>1, ArgsAre
<1>3. ASSUME NEW q \in 0..(z-1)*buffersize-1, NEW s \in 0..f-1 PROVE CodeAt(node, s, q)'
  <2>1. CodeAt(node, s, q) /\ Same(s, q) /\ s \in 0..f
    BY <1>2 DEF DealtInv
  <2>. QED  BY <1>1, <2>1, AtKept
<1>4. ASSUME NEW q \in 0..(z-1)*buffersize-1, NEW c \in Nodes
      PROVE  At(node, f, c, q)' = SumAt(node, f, c, q)'
  <2>1. At(node, f, c, q) = SumAt(node, f, c, q) /\ Same(f, q)
    BY <1>2 DEF DealtInv
  <2>2. node'[(c + f) % n'][f * chunkSize' + q] = At(node, f, c, q)
    <3>1. \A y \in Nodes : node'[(y + f) % n'][f * chunkSize' + q] = At(node, f, y, q)
      BY <1>1, <1>2, <2>1, AtKept DEF At
    <3>. QED  BY <3>1
  <2>3. At(node, f, c, q)' = At(node, f, c, q)
    BY <1>1, <2>2 DEF At
  <2>4. \A o \in 0..f-1 : Same(o, q)
    BY <1>2
  <2>5. SumAt(node, f, c, q)' = SumAt(node, f, c, q)
    <3> DEFINE g == f
    <3>1. g \in 0..f /\ \A o \in 0..g-1 : Same(o, q)
      BY <1>2, <2>4
    <3>2. g' = g
      BY <1>1
    <3>3. PICK y : y = g
      OBVIOUS
    <3>4. SumAt(node, y, c, q)' = SumAt(node, y, c, q)
      BY <1>1, <3>1, <3>3, SumKept
    <3>. QED  BY <3>2, <3>3, <3>4 DEF SumAt
  <2>. QED  BY <2>1, <2>3, <2>5
<1>. QED  BY <1>1, <1>3, <1>4 DEF DealtInv

LEMMA StripesKept ==
    ASSUME UNCHANGED sizes, UNCHANGED <<z, i>>, SizesInv, StripeInv,
           \A s \in 0..i-1, p \in Buffer : Same(s, Cur(p))
    PROVE  StripeInv'
<1>1. /\ f' = f /\ Buffer' = Buffer /\ readins' = readins /\ args \in Inputs
      /\ buffersize' = buffersize
  BY SizesKept DEF SizesInv
<1>2. z <= readins /\ i \in 0..f /\ \A s \in 0..i-1 : s \in 0..f
  BY <1>1, ArgsAre DEF StripeInv
<1>3. ASSUME NEW s \in 0..i-1, NEW p \in Buffer PROVE CodeAt(node, s, Cur(p))'
  <2>1. PICK q : q = Cur(p)
    OBVIOUS
  <2>2. CodeAt(node, s, q) /\ Same(s, q) /\ s \in 0..f
    BY <1>2, <2>1 DEF StripeInv
  <2>3. CodeAt(node, s, q)'
    BY <1>1, <2>2, AtKept
  <2>4. Cur(p)' = q
    BY <1>1, <2>1 DEF Cur
  <2>. QED  BY <2>3, <2>4 DEF CodeAt, At
<1>. QED  BY <1>1, <1>2, <1>3 DEF StripeInv

LEMMA NodesRest ==
    ASSUME UNCHANGED sizes, UNCHANGED <<node, z>>, SizesInv, NodeShape, DealtInv
    PROVE  NodeShape' /\ DealtInv' /\ (StripeInv /\ i' = i => StripeInv')
<1>1. \A s, q : Same(s, q)
  BY DEF Same
<1>2. Nodes' = Nodes /\ f' = f /\ chunkSize' = chunkSize /\ z' = z /\ node' = node
  BY SizesKept
<1>3. NodeShape'
  BY <1>2 DEF NodeShape
<1>. QED  BY <1>1, <1>2, <1>3, DealtKept, StripesKept

LEMMA CreateTableKeeps ==
    ASSUME SRInv, CreateTable PROVE SRInv'
<1>1. /\ args \in Inputs /\ buffersize \in Nat /\ readins \in Nat \ {0} /\ chunkSize \in Nat
      /\ chunkSize = readins * buffersize /\ z = 1
  BY DEF SRInv, CreateTable, Begun
<1>2. /\ args' = args /\ buffersize' = buffersize /\ readins' = readins /\ chunkSize' = chunkSize
      /\ z' = z /\ LookupTable' = Placement /\ pc' = "readin"
      /\ node' = [e \in Nodes |-> [q \in 0..(f+1)*chunkSize-1 |-> {}]]
  BY DEF CreateTable
<1>3. k' = k /\ n' = n /\ f' = f
  BY <1>2 DEF k, n, f
<1>4. Nodes' = Nodes
  BY <1>3 DEF Nodes
<1>5. LookupTable' = Placement'
  BY <1>2, <1>3, <1>4 DEF Placement
<1>6. NodeShape'
  BY <1>2, <1>3, <1>4 DEF NodeShape
<1>7. DealtInv'
  <2>1. (z' - 1) * buffersize' = 0
    BY <1>1, <1>2
  <2>2. 0..((z' - 1) * buffersize')-1 = {}
    BY <2>1
  <2>. QED  BY <2>2 DEF DealtInv
<1>8. z' \in 1..readins'+1
  BY <1>1, <1>2
<1>. QED  BY <1>1, <1>2, <1>5, <1>6, <1>7, <1>8 DEF SRInv, Begun

LEMMA BeginReadInKeeps ==
    ASSUME SRInv, BeginReadIn PROVE SRInv'
<1>1. SizesInv /\ z \in 1..readins+1 /\ NodeShape /\ DealtInv /\ Begun
  BY BegunIs DEF BeginReadIn, Begun
<1>2. /\ UNCHANGED sizes /\ UNCHANGED <<node, z>> /\ z <= readins /\ i' = 0 /\ pc' = "read"
      /\ xor' = [e \in Nodes |-> [q \in Buffer |-> {}]]
  BY DEF BeginReadIn
<1>3. /\ Nodes' = Nodes /\ Buffer' = Buffer /\ f' = f /\ readins' = readins /\ SizesInv'
  BY <1>1, <1>2, SizesKept
<1>4. args \in Inputs /\ buffersize \in Nat /\ f \in Nat
  BY <1>1, ArgsAre DEF SizesInv
<1>5. NodeShape' /\ DealtInv'
  BY <1>1, <1>2, NodesRest
<1>6. StripeInv'
  <2>1. i' \in 0..f /\ 0..i'-1 = {} /\ z' <= readins'
    BY <1>2, <1>3, <1>4
  <2>. QED  BY <1>3, <2>1 DEF StripeInv
<1>7. SumsOf(FALSE)'
  <2>1. ASSUME NEW c \in Nodes, NEW p \in Buffer
        PROVE  xor'[c][p] = SumAt(node, i, c, Cur(p))'
    <3>1. 0..i'-1 = {}
      BY <1>2
    <3>2. xor'[c][p] = {}
      BY <1>2
    <3>. QED  BY <3>1, <3>2 DEF SumAt
  <2>. QED  BY <1>3, <2>1, Zenon DEF SumsOf
<1>. QED  BY <1>1, <1>2, <1>3, <1>5, <1>6, <1>7 DEF SRInv, Begun, SizesInv

LEMMA ReturnKeeps ==
    ASSUME SRInv, Return PROVE SRInv'
<1>1. SizesInv /\ z \in 1..readins+1 /\ NodeShape /\ DealtInv
  BY BegunIs DEF Return, Begun
<1>2. UNCHANGED sizes /\ UNCHANGED <<node, z>> /\ pc' = "done"
  BY DEF Return
<1>3. args \in Inputs /\ buffersize \in Nat
  BY <1>1 DEF SizesInv
<1>4. NodeShape' /\ DealtInv' /\ SizesInv' /\ readins' = readins
  BY <1>1, <1>2, NodesRest, SizesKept
<1>. QED  BY <1>1, <1>2, <1>4 DEF SRInv, Begun, SizesInv

LEMMA SumsKept ==
    ASSUME UNCHANGED sizes, UNCHANGED <<z, i>>, SizesInv, i \in 0..f,
           \A s \in 0..i-1, p \in Buffer : Same(s, Cur(p))
    PROVE  \A c \in Nodes, p \in Buffer :
               SumAt(node, i, c, Cur(p))' = SumAt(node, i, c, Cur(p))
<1> SUFFICES ASSUME NEW c \in Nodes, NEW p \in Buffer
             PROVE  SumAt(node, i, c, Cur(p))' = SumAt(node, i, c, Cur(p))
  OBVIOUS
<1>1. args \in Inputs /\ buffersize' = buffersize
  BY SizesKept DEF SizesInv
<1>2. PICK q : q = Cur(p)
  OBVIOUS
<1>3. PICK y : y = i
  OBVIOUS
<1>4. SumAt(node, y, c, q)' = SumAt(node, y, c, q)
  BY <1>1, <1>2, <1>3, SumKept
<1>5. Cur(p)' = q /\ i' = y
  BY <1>1, <1>2, <1>3 DEF Cur
<1>. QED  BY <1>2, <1>3, <1>4, <1>5 DEF SumAt

\* Steps between pieces.
LEMMA ReadStripeKeeps ==
    ASSUME SRInv, ReadStripe PROVE SRInv'
<1>1. /\ SizesInv /\ z \in 1..readins+1 /\ NodeShape /\ DealtInv /\ StripeInv /\ SumsOf(FALSE)
  BY BegunIs DEF ReadStripe, Begun, SRInv
<1>2. /\ UNCHANGED sizes /\ UNCHANGED <<node, z>> /\ i' = i /\ i < f /\ pc' = "encode"
      /\ xor' = xor
  BY DEF ReadStripe
<1>3. /\ Nodes' = Nodes /\ Buffer' = Buffer /\ f' = f /\ readins' = readins /\ SizesInv'
  BY <1>1, <1>2, SizesKept
<1>4. NodeShape' /\ DealtInv' /\ StripeInv'
  BY <1>1, <1>2, NodesRest
<1>5. SumsOf(FALSE)'
  <2>1. \A c \in Nodes, p \in Buffer : SumAt(node, i, c, Cur(p))' = SumAt(node, i, c, Cur(p))
    <3>1. i \in 0..f /\ \A s, q : Same(s, q)
      BY <1>1, <1>2 DEF StripeInv, Same
    <3>. QED  BY <1>1, <1>2, <3>1, SumsKept
  <2>2. ASSUME NEW c \in Nodes, NEW p \in Buffer PROVE xor'[c][p] = SumAt(node, i, c, Cur(p))'
    <3>1. xor[c][p] = SumAt(node, i, c, Cur(p))
      BY <1>1 DEF SumsOf
    <3>. QED  BY <1>2, <2>1, <3>1
  <2>. QED  BY <1>3, <2>2, Zenon DEF SumsOf
<1>. QED  BY <1>1, <1>2, <1>3, <1>4, <1>5 DEF SRInv, Begun, SizesInv

LEMMA EncodeStripeKeeps ==
    ASSUME SRInv, EncodeStripe PROVE SRInv'
<1>1. /\ SizesInv /\ z \in 1..readins+1 /\ NodeShape /\ DealtInv /\ StripeInv /\ SumsOf(FALSE)
      /\ i < f
  BY BegunIs DEF EncodeStripe, Begun, SRInv
<1>2. /\ UNCHANGED sizes /\ UNCHANGED <<node, z>> /\ i' = i /\ pc' = "write" /\ j' = 0
      /\ data' = data
      /\ coding' = [row \in 0..m-1 |-> [q \in Buffer |-> Coded(row, data, q)]]
      /\ xor' = [e \in Nodes |-> [q \in Buffer |->
                    Xor(xor[e][q], IF e < k THEN data[e][q] ELSE coding'[e - k][q])]]
  BY DEF EncodeStripe
<1>3. /\ Nodes' = Nodes /\ Buffer' = Buffer /\ f' = f /\ readins' = readins /\ SizesInv'
      /\ k' = k /\ m' = m /\ Sources' = Sources /\ n' = n /\ n \in Nat
  BY <1>1, <1>2, SizesKept, ArgsAre DEF SizesInv
<1>4. NodeShape' /\ DealtInv' /\ StripeInv'
  BY <1>1, <1>2, NodesRest
<1>5. SumsOf(TRUE)'
  <2>1. \A c \in Nodes, p \in Buffer : SumAt(node, i, c, Cur(p))' = SumAt(node, i, c, Cur(p))
    <3>1. i \in 0..f /\ \A s, q : Same(s, q)
      BY <1>1, <1>2 DEF StripeInv, Same
    <3>. QED  BY <1>1, <1>2, <3>1, SumsKept
  <2>2. ASSUME NEW c \in Nodes, NEW p \in Buffer
        PROVE  xor'[c][p] = Xor(SumAt(node, i, c, Cur(p))', Piece(c)'[p])
    <3>1. xor[c][p] = SumAt(node, i, c, Cur(p))
      BY <1>1 DEF SumsOf
    <3>2. Piece(c)'[p] = IF c < k THEN data[c][p] ELSE coding'[c - k][p]
      BY <1>2, <1>3 DEF Piece
    <3>3. xor'[c][p] = Xor(xor[c][p], IF c < k THEN data[c][p] ELSE coding'[c - k][p])
      BY <1>2
    <3>. QED  BY <2>1, <3>1, <3>2, <3>3
  <2>. QED  BY <1>3, <2>2, Zenon DEF SumsOf
<1>6. WriteInv'
  <2>1. ASSUME NEW row \in 0..m-1, NEW p \in Buffer PROVE coding'[row][p] = Coded(row, data, p)'
    <3>1. coding'[row][p] = Coded(row, data, p)
      BY <1>2
    <3>2. Coded(row, data, p)' = Coded(row, data, p)
      BY <1>2, <1>3 DEF Coded
    <3>. QED  BY <3>1, <3>2
  <2>2. 0..j'-1 = {} /\ j' \in 0..n' /\ i' < f'
    BY <1>1, <1>2, <1>3
  <2>3. \A row \in 0..m'-1, p \in Buffer' : coding'[row][p] = Coded(row, data, p)'
    BY <1>3, <2>1, Zenon
  <2>. QED  BY <2>2, <2>3 DEF WriteInv
<1>. QED  BY <1>1, <1>2, <1>3, <1>4, <1>5, <1>6 DEF SRInv, Begun, SizesInv

LEMMA StripesDoneKeeps ==
    ASSUME SRInv, StripesDone PROVE SRInv'
<1>1. /\ SizesInv /\ z \in 1..readins+1 /\ NodeShape /\ DealtInv /\ StripeInv /\ SumsOf(FALSE)
  BY BegunIs DEF StripesDone, Begun, SRInv
<1>2. /\ UNCHANGED sizes /\ UNCHANGED <<node, z>> /\ i' = i /\ i = f /\ pc' = "xors" /\ j' = 0
      /\ xor' = xor
  BY DEF StripesDone
<1>3. /\ Nodes' = Nodes /\ Buffer' = Buffer /\ f' = f /\ readins' = readins /\ SizesInv'
      /\ n' = n /\ n \in Nat
  BY <1>1, <1>2, SizesKept, ArgsAre DEF SizesInv
<1>4. NodeShape' /\ DealtInv' /\ StripeInv'
  BY <1>1, <1>2, NodesRest
<1>5. SumsOf(FALSE)'
  <2>1. \A c \in Nodes, p \in Buffer : SumAt(node, i, c, Cur(p))' = SumAt(node, i, c, Cur(p))
    <3>1. i \in 0..f /\ \A s, q : Same(s, q)
      BY <1>1, <1>2 DEF StripeInv, Same
    <3>. QED  BY <1>1, <1>2, <3>1, SumsKept
  <2>2. ASSUME NEW c \in Nodes, NEW p \in Buffer PROVE xor'[c][p] = SumAt(node, i, c, Cur(p))'
    <3>1. xor[c][p] = SumAt(node, i, c, Cur(p))
      BY <1>1 DEF SumsOf
    <3>. QED  BY <1>2, <2>1, <3>1
  <2>. QED  BY <1>3, <2>2, Zenon DEF SumsOf
<1>6. XorsInv'
  <2>1. 0..j'-1 = {} /\ j' \in 0..n' /\ i' = f'
    BY <1>2, <1>3
  <2>. QED  BY <2>1 DEF XorsInv
<1>. QED  BY <1>1, <1>2, <1>3, <1>4, <1>5, <1>6 DEF SRInv, Begun, SizesInv

\* When every node has its piece, the stripe holds a codeword.
LEMMA NextStripeKeeps ==
    ASSUME SRInv, NextStripe PROVE SRInv'
<1>1. /\ SizesInv /\ z \in 1..readins+1 /\ NodeShape /\ DealtInv /\ StripeInv /\ SumsOf(TRUE)
      /\ WriteInv
  BY BegunIs DEF NextStripe, Begun, SRInv
<1>2. /\ UNCHANGED sizes /\ UNCHANGED <<node, z>> /\ i' = i + 1 /\ j = n /\ pc' = "read"
      /\ xor' = xor
  BY DEF NextStripe
<1>3. /\ Nodes' = Nodes /\ Buffer' = Buffer /\ f' = f /\ readins' = readins /\ SizesInv'
      /\ buffersize' = buffersize /\ chunkSize' = chunkSize
      /\ k' = k /\ m' = m /\ Sources' = Sources /\ n' = n /\ n \in Nat /\ args \in Inputs
  BY <1>1, <1>2, SizesKept, ArgsAre DEF SizesInv
<1>4. NodeShape' /\ DealtInv'
  BY <1>1, <1>2, NodesRest
<1>5. /\ z <= readins /\ i \in 0..f-1 /\ i \in 0..f /\ i \in Nat
      /\ \A s \in 0..i-1, p \in Buffer : CodeAt(node, s, Cur(p))
  <2>1. f \in Nat
    BY <1>3, ArgsAre
  <2>. QED  BY <1>1, <2>1 DEF StripeInv, WriteInv
<1>6. ASSUME NEW c \in Nodes, NEW p \in Buffer PROVE At(node, i, c, Cur(p)) = Piece(c)[p]
  <2>1. (c + i) % n \in Nodes /\ Ix(i, (c + i) % n) = c /\ Nodes = 0..n-1
    BY <1>3, <1>5, HolderOf, Indices
  <2> DEFINE e == (c + i) % n
  <2>2. e \in 0..j-1
    BY <1>2, <2>1
  <2> HIDE DEF e
  <2>3. node[e][i * chunkSize + Cur(p)] = Piece(Ix(i, e))[p]
    BY <1>1, <2>2 DEF WriteInv
  <2>. QED  BY <2>1, <2>3 DEF At, e
<1>7. ASSUME NEW p \in Buffer PROVE CodeAt(node, i, Cur(p))
  <2> SUFFICES ASSUME NEW row \in 0..m-1
               PROVE  At(node, i, k + row, Cur(p))
                        = UNION {Times(row, c, At(node, i, c, Cur(p))) : c \in Sources}
    BY DEF CodeAt
  <2>1. At(node, i, k + row, Cur(p)) = coding[row][p]
    <3>1. k + row \in Nodes /\ ~(k + row < k) /\ (k + row) - k = row
      BY <1>3, Indices
    <3>. QED  BY <1>6, <3>1 DEF Piece
  <2>2. \A c \in Sources : At(node, i, c, Cur(p)) = data[c][p]
    <3>1. \A c \in Sources : c \in Nodes /\ c < k
      BY <1>3, Indices
    <3>. QED  BY <1>6, <3>1 DEF Piece
  <2>3. coding[row][p] = UNION {Times(row, c, data[c][p]) : c \in Sources}
    BY <1>1 DEF WriteInv, Coded
  <2>4. {Times(row, c, At(node, i, c, Cur(p))) : c \in Sources} = {Times(row, c, data[c][p]) : c \in Sources}
    BY <2>2
  <2>. QED  BY <2>1, <2>3, <2>4
<1>8. StripeInv'
  <2>1. z' <= readins' /\ i' \in 0..f' /\ \A s \in 0..i'-1 : s \in 0..i-1 \/ s = i
    <3>1. \A s \in 0..(i+1)-1 : s \in 0..i-1 \/ s = i
      BY <1>5
    <3>2. i + 1 \in 0..f
      BY <1>3, <1>5, ArgsAre
    <3>. QED  BY <1>2, <1>3, <1>5, <3>1, <3>2
  <2>2. \A s \in 0..i'-1, p \in Buffer : CodeAt(node, s, Cur(p))
    BY <1>5, <1>7, <2>1
  <2>3. \A s \in 0..i'-1 : s \in 0..f
    <3>1. \A s \in 0..(i+1)-1 : s \in 0..f
      BY <1>3, <1>5, ArgsAre
    <3>. QED  BY <1>2, <3>1
  <2>4. ASSUME NEW s \in 0..i'-1, NEW p \in Buffer PROVE CodeAt(node, s, Cur(p))'
    <3>1. PICK q : q = Cur(p)
      OBVIOUS
    <3>2. CodeAt(node, s, q) /\ Same(s, q) /\ s \in 0..f
      BY <1>2, <2>2, <2>3, <3>1 DEF Same
    <3>3. CodeAt(node, s, q)'
      BY <1>2, <1>3, <3>2, AtKept
    <3>4. Cur(p)' = q
      BY <1>2, <1>3, <3>1 DEF Cur
    <3>. QED  BY <3>3, <3>4 DEF CodeAt, At
  <2>. QED  BY <1>3, <2>1, <2>4 DEF StripeInv
<1>9. SumsOf(FALSE)'
  <2>1. ASSUME NEW c \in Nodes, NEW p \in Buffer PROVE xor'[c][p] = SumAt(node, i, c, Cur(p))'
    <3>1. xor[c][p] = Xor(SumAt(node, i, c, Cur(p)), At(node, i, c, Cur(p)))
      BY <1>1, <1>6 DEF SumsOf
    <3>2. PICK q : q = Cur(p)
      OBVIOUS
    <3>3. PICK y : y = i + 1
      OBVIOUS
    <3>4. xor[c][p] = SumAt(node, y, c, q)
      BY <1>5, <3>1, <3>2, <3>3, SumPlusOne
    <3>5. SumAt(node, y, c, q)' = SumAt(node, y, c, q)
      <4>1. y \in 0..f /\ \A o \in 0..y-1 : Same(o, q)
        BY <1>2, <1>3, <1>5, <3>3, ArgsAre DEF Same
      <4>. QED  BY <1>2, <1>3, <4>1, SumKept
    <3>6. Cur(p)' = q /\ i' = y
      BY <1>2, <1>3, <3>2, <3>3 DEF Cur
    <3>. QED  BY <1>2, <3>4, <3>5, <3>6 DEF SumAt
  <2>. QED  BY <1>3, <2>1, Zenon DEF SumsOf
<1>. QED  BY <1>1, <1>2, <1>3, <1>4, <1>8, <1>9 DEF SRInv, Begun, SizesInv

\* A piece that is written to one node.
LEMMA PieceWritten ==
    ASSUME SizesInv, z \in 1..readins+1, NodeShape, DealtInv, StripeInv, j \in Nodes, NEW piece,
           node' = Written(piece), UNCHANGED sizes, UNCHANGED <<z, i>>
    PROVE  /\ NodeShape' /\ DealtInv' /\ StripeInv'
           /\ \A c \in Nodes, p \in Buffer :
                 SumAt(node, i, c, Cur(p))' = SumAt(node, i, c, Cur(p))
           /\ \A p \in Buffer : node'[j][i * chunkSize + Cur(p)] = piece[p]
           /\ \A e \in Nodes \ {j}, p \in Buffer :
                 node'[e][i * chunkSize + Cur(p)] = node[e][i * chunkSize + Cur(p)]
<1>1. /\ args \in Inputs /\ UNCHANGED <<args, chunkSize>> /\ i \in 0..f /\ z \in 1..readins
      /\ f \in Nat
  <2>1. /\ args \in Inputs /\ UNCHANGED <<args, chunkSize>> /\ i \in 0..f /\ z <= readins
        /\ readins \in Nat
    BY DEF SizesInv, StripeInv, sizes
  <2>. QED  BY <2>1, ArgsAre
<1>2. /\ NodeShape'
      /\ \A e \in Nodes, s \in 0..f, q \in 0..chunkSize-1 :
            (e # j \/ s # i \/ q - (z-1)*buffersize \notin Buffer)
               => node'[e][s * chunkSize + q] = node[e][s * chunkSize + q]
      /\ \A p \in Buffer : node'[j][i * chunkSize + Cur(p)] = piece[p]
  BY <1>1, WrittenIs
<1>3. /\ \A p \in Buffer : Cur(p) \in 0..chunkSize-1
      /\ \A q \in 0..(z-1)*buffersize-1 :
            q \in 0..chunkSize-1 /\ q - (z-1)*buffersize \notin Buffer
  BY <1>1, CurFits
<1>4. \A s \in 0..f, q \in 0..(z-1)*buffersize-1 : Same(s, q)
  <2> SUFFICES ASSUME NEW s \in 0..f, NEW q \in 0..(z-1)*buffersize-1, NEW e \in Nodes
               PROVE  node'[e][s * chunkSize + q] = node[e][s * chunkSize + q]
    BY DEF Same
  <2>1. q \in 0..chunkSize-1 /\ q - (z-1)*buffersize \notin Buffer
    BY <1>3
  <2>. QED  BY <1>2, <2>1
<1>5. \A s \in 0..i-1, p \in Buffer : Same(s, Cur(p))
  <2> SUFFICES ASSUME NEW s \in 0..i-1, NEW p \in Buffer, NEW e \in Nodes
               PROVE  node'[e][s * chunkSize + Cur(p)] = node[e][s * chunkSize + Cur(p)]
    BY DEF Same
  <2>1. s \in 0..f /\ s # i
    BY <1>1
  <2>2. PICK q \in 0..chunkSize-1 : q = Cur(p)
    BY <1>3
  <2>3. node'[e][s * chunkSize + q] = node[e][s * chunkSize + q]
    BY <1>2, <2>1
  <2>. QED  BY <2>2, <2>3
<1>6. DealtInv' /\ StripeInv'
  BY <1>4, <1>5, DealtKept, StripesKept
<1>7. \A c \in Nodes, p \in Buffer : SumAt(node, i, c, Cur(p))' = SumAt(node, i, c, Cur(p))
  BY <1>1, <1>5, SumsKept
<1>8. ASSUME NEW e \in Nodes \ {j}, NEW p \in Buffer
      PROVE  node'[e][i * chunkSize + Cur(p)] = node[e][i * chunkSize + Cur(p)]
  <2>1. PICK q \in 0..chunkSize-1 : q = Cur(p)
    BY <1>3
  <2>2. node'[e][i * chunkSize + q] = node[e][i * chunkSize + q]
    BY <1>1, <1>2
  <2>. QED  BY <2>1, <2>2
<1>. QED  BY <1>2, <1>6, <1>7, <1>8

LEMMA WritePieceKeeps ==
    ASSUME SRInv, WritePiece PROVE SRInv'
<1> DEFINE index == LookupTable[<<i, j>>]
<1>1. /\ SizesInv /\ z \in 1..readins+1 /\ NodeShape /\ DealtInv /\ StripeInv /\ SumsOf(TRUE)
      /\ WriteInv
  BY BegunIs DEF WritePiece, Begun, SRInv
<1>2. /\ UNCHANGED sizes /\ UNCHANGED <<z, i>> /\ j < n /\ j' = j + 1 /\ pc' = "write"
      /\ xor' = xor /\ data' = data /\ coding' = coding
      /\ node' = Written(Piece(index))
  <2>1. Piece(index) = IF index < k THEN data[index] ELSE coding[index - k]
    BY DEF Piece
  <2>. QED  BY <2>1 DEF WritePiece
<1>3. /\ Nodes' = Nodes /\ Buffer' = Buffer /\ f' = f /\ readins' = readins /\ SizesInv'
      /\ buffersize' = buffersize /\ chunkSize' = chunkSize
      /\ k' = k /\ m' = m /\ Sources' = Sources /\ n' = n /\ n \in Nat /\ args \in Inputs
  BY <1>1, <1>2, SizesKept, ArgsAre DEF SizesInv
<1>4. /\ i \in 0..f /\ j \in 0..n-1 /\ j \in Nodes /\ i < f
  BY <1>1, <1>2, <1>3 DEF StripeInv, WriteInv, Nodes
<1>5. index = Ix(i, j)
  BY <1>1, <1>4 DEF SizesInv, Placement, Ix
<1> HIDE DEF index
<1>6. /\ NodeShape' /\ DealtInv' /\ StripeInv'
      /\ \A c \in Nodes, p \in Buffer : SumAt(node, i, c, Cur(p))' = SumAt(node, i, c, Cur(p))
      /\ \A p \in Buffer : node'[j][i * chunkSize + Cur(p)] = Piece(index)[p]
      /\ \A e \in Nodes \ {j}, p \in Buffer :
            node'[e][i * chunkSize + Cur(p)] = node[e][i * chunkSize + Cur(p)]
  BY <1>1, <1>2, <1>4, PieceWritten
<1>7. \A c : Piece(c)' = Piece(c)
  BY <1>2, <1>3 DEF Piece
<1>8. SumsOf(TRUE)'
  <2>1. ASSUME NEW c \in Nodes, NEW p \in Buffer
        PROVE  xor'[c][p] = Xor(SumAt(node, i, c, Cur(p))', Piece(c)'[p])
    <3>1. xor[c][p] = Xor(SumAt(node, i, c, Cur(p)), Piece(c)[p])
      BY <1>1 DEF SumsOf
    <3>. QED  BY <1>2, <1>6, <1>7, <3>1
  <2>. QED  BY <1>3, <2>1, Zenon DEF SumsOf
<1>9. WriteInv'
  <2>1. ASSUME NEW row \in 0..m-1, NEW p \in Buffer PROVE coding'[row][p] = Coded(row, data, p)'
    <3>1. coding[row][p] = Coded(row, data, p)
      BY <1>1 DEF WriteInv
    <3>2. Coded(row, data, p)' = Coded(row, data, p)
      BY <1>2, <1>3 DEF Coded
    <3>. QED  BY <1>2, <3>1, <3>2
  <2>2. \A row \in 0..m'-1, p \in Buffer' : coding'[row][p] = Coded(row, data, p)'
    BY <1>3, <2>1, Zenon
  <2>3. j' \in 0..n' /\ i' < f' /\ \A e \in 0..j'-1 : e \in Nodes /\ (e # j => e \in 0..j-1)
    BY <1>2, <1>3, <1>4 DEF Nodes
  <2>4. ASSUME NEW e \in 0..j'-1, NEW p \in Buffer
        PROVE  node'[e][i * chunkSize + Cur(p)] = Piece(Ix(i, e))[p]
    <3>1. CASE e = j
      BY <1>5, <1>6, <3>1
    <3>2. CASE e # j
      <4>1. node'[e][i * chunkSize + Cur(p)] = node[e][i * chunkSize + Cur(p)]
        BY <1>6, <2>3, <3>2
      <4>2. node[e][i * chunkSize + Cur(p)] = Piece(Ix(i, e))[p]
        BY <1>1, <2>3, <3>2 DEF WriteInv
      <4>. QED  BY <4>1, <4>2
    <3>. QED  BY <3>1, <3>2
  <2>5. ASSUME NEW e \in 0..j'-1, NEW p \in Buffer'
        PROVE  node'[e][i' * chunkSize' + Cur(p)'] = Piece(Ix(i, e))'[p]
    <3>1. Cur(p)' = Cur(p) /\ Ix(i, e)' = Ix(i, e)
      BY <1>2, <1>3 DEF Cur, Ix
    <3>2. PICK c : c = Ix(i, e)
      OBVIOUS
    <3>3. Piece(Ix(i, e))' = Piece(c)'
      BY <3>1, <3>2 DEF Piece
    <3>. QED  BY <1>2, <1>3, <1>7, <2>4, <3>1, <3>2, <3>3
  <2>. QED  BY <2>2, <2>3, <2>5 DEF WriteInv
<1>. QED  BY <1>1, <1>2, <1>3, <1>6, <1>8, <1>9 DEF SRInv, Begun, SizesInv

LEMMA WriteXorKeeps ==
    ASSUME SRInv, WriteXor PROVE SRInv'
<1> DEFINE index == LookupTable[<<i, j>>]
<1>1. /\ SizesInv /\ z \in 1..readins+1 /\ NodeShape /\ DealtInv /\ StripeInv /\ SumsOf(FALSE)
      /\ XorsInv
  BY BegunIs DEF WriteXor, Begun, SRInv
<1>2. /\ UNCHANGED sizes /\ UNCHANGED <<z, i>> /\ j < n /\ j' = j + 1 /\ pc' = "xors"
      /\ xor' = xor /\ node' = Written(xor[index])
  BY DEF WriteXor
<1>3. /\ Nodes' = Nodes /\ Buffer' = Buffer /\ f' = f /\ readins' = readins /\ SizesInv'
      /\ buffersize' = buffersize /\ chunkSize' = chunkSize
      /\ n' = n /\ n \in Nat /\ args \in Inputs
  BY <1>1, <1>2, SizesKept, ArgsAre DEF SizesInv
<1>4. /\ i \in 0..f /\ j \in 0..n-1 /\ j \in Nodes /\ i = f
  BY <1>1, <1>2, <1>3 DEF StripeInv, XorsInv, Nodes
<1>5. index = Ix(i, j)
  BY <1>1, <1>4 DEF SizesInv, Placement, Ix
<1> HIDE DEF index
<1>6. /\ NodeShape' /\ DealtInv' /\ StripeInv'
      /\ \A c \in Nodes, p \in Buffer : SumAt(node, i, c, Cur(p))' = SumAt(node, i, c, Cur(p))
      /\ \A p \in Buffer : node'[j][i * chunkSize + Cur(p)] = xor[index][p]
      /\ \A e \in Nodes \ {j}, p \in Buffer :
            node'[e][i * chunkSize + Cur(p)] = node[e][i * chunkSize + Cur(p)]
  BY <1>1, <1>2, <1>4, PieceWritten
<1>7. SumsOf(FALSE)'
  <2>1. ASSUME NEW c \in Nodes, NEW p \in Buffer PROVE xor'[c][p] = SumAt(node, i, c, Cur(p))'
    <3>1. xor[c][p] = SumAt(node, i, c, Cur(p))
      BY <1>1 DEF SumsOf
    <3>. QED  BY <1>2, <1>6, <3>1
  <2>. QED  BY <1>3, <2>1, Zenon DEF SumsOf
<1>8. XorsInv'
  <2>1. j' \in 0..n' /\ i' = f' /\ \A e \in 0..j'-1 : e \in Nodes /\ (e # j => e \in 0..j-1)
    BY <1>2, <1>3, <1>4 DEF Nodes
  <2>2. ASSUME NEW e \in 0..j'-1, NEW p \in Buffer
        PROVE  node'[e][i * chunkSize + Cur(p)] = xor[Ix(i, e)][p]
    <3>1. CASE e = j
      BY <1>5, <1>6, <3>1
    <3>2. CASE e # j
      <4>1. node'[e][i * chunkSize + Cur(p)] = node[e][i * chunkSize + Cur(p)]
        BY <1>6, <2>1, <3>2
      <4>2. node[e][i * chunkSize + Cur(p)] = xor[Ix(i, e)][p]
        BY <1>1, <2>1, <3>2 DEF XorsInv
      <4>. QED  BY <4>1, <4>2
    <3>. QED  BY <3>1, <3>2
  <2>3. ASSUME NEW e \in 0..j'-1, NEW p \in Buffer'
        PROVE  node'[e][i' * chunkSize' + Cur(p)'] = xor'[Ix(i, e)'][p]
    <3>1. Cur(p)' = Cur(p) /\ Ix(i, e)' = Ix(i, e)
      BY <1>2, <1>3 DEF Cur, Ix
    <3>. QED  BY <1>2, <1>3, <2>2, <3>1
  <2>. QED  BY <2>1, <2>3 DEF XorsInv
<1>. QED  BY <1>1, <1>2, <1>3, <1>6, <1>7, <1>8 DEF SRInv, Begun, SizesInv

\* When every node has its sum, the read-in is dealt with.
LEMMA NextReadInKeeps ==
    ASSUME SRInv, NextReadIn PROVE SRInv'
<1>1. /\ SizesInv /\ z \in 1..readins+1 /\ NodeShape /\ DealtInv /\ StripeInv /\ SumsOf(FALSE)
      /\ XorsInv
  BY BegunIs DEF NextReadIn, Begun, SRInv
<1>2. /\ UNCHANGED sizes /\ UNCHANGED <<node>> /\ z' = z + 1 /\ j = n /\ pc' = "readin"
  BY DEF NextReadIn
<1>3. /\ Nodes' = Nodes /\ f' = f /\ readins' = readins /\ SizesInv'
      /\ buffersize' = buffersize /\ chunkSize' = chunkSize
      /\ n' = n /\ n \in Nat /\ args \in Inputs /\ f \in Nat
  BY <1>1, <1>2, SizesKept, ArgsAre DEF SizesInv
<1>4. /\ z \in 1..readins /\ z' \in 1..readins'+1 /\ i = f /\ z \in Nat
      /\ \A s \in 0..f-1, p \in Buffer : CodeAt(node, s, Cur(p))
  <2>1. readins \in Nat
    BY <1>1 DEF SizesInv
  <2>. QED  BY <1>1, <1>2, <1>3, <2>1 DEF StripeInv, XorsInv
<1>5. NodeShape'
  BY <1>1, <1>2, <1>3 DEF NodeShape
<1>6. ASSUME NEW c \in Nodes, NEW p \in Buffer
      PROVE  At(node, f, c, Cur(p)) = SumAt(node, f, c, Cur(p))
  <2>1. f \in 0..f
    BY <1>3
  <2>2. (c + f) % n \in Nodes /\ Ix(f, (c + f) % n) = c /\ Nodes = 0..n-1
    BY <1>3, <2>1, HolderOf, Indices
  <2> DEFINE e == (c + f) % n
  <2>3. e \in 0..j-1
    BY <1>2, <2>2
  <2> HIDE DEF e
  <2>4. node[e][f * chunkSize + Cur(p)] = xor[Ix(f, e)][p]
    BY <1>1, <1>4, <2>3 DEF XorsInv
  <2>5. xor[c][p] = SumAt(node, f, c, Cur(p))
    BY <1>1, <1>4 DEF SumsOf
  <2>. QED  BY <2>2, <2>4, <2>5 DEF At, e
<1>7. DealtInv'
  <2> SUFFICES ASSUME NEW q \in 0..z*buffersize-1
               PROVE  /\ \A s \in 0..f-1 : CodeAt(node, s, q)'
                      /\ \A c \in Nodes : At(node, f, c, q)' = SumAt(node, f, c, q)'
    <3>1. (z' - 1) * buffersize' = z * buffersize
      BY <1>2, <1>3, <1>4
    <3>. QED  BY <1>3, <3>1, Zenon DEF DealtInv
  <2>1. /\ \A s \in 0..f-1 : CodeAt(node, s, q)
        /\ \A c \in Nodes : At(node, f, c, q) = SumAt(node, f, c, q)
    <3>1. CASE q \in 0..(z-1)*buffersize-1
      BY <1>1, <3>1 DEF DealtInv
    <3>2. CASE \E p \in Buffer : q = Cur(p)
      BY <1>4, <1>6, <3>2
    <3>. QED  BY <1>1, <1>4, <3>1, <3>2, CurFits
  <2>2. \A s : Same(s, q)
    BY <1>2 DEF Same
  <2>3. \A s \in 0..f-1 : CodeAt(node, s, q)'
    <3>1. \A s \in 0..f-1 : s \in 0..f
      BY <1>3
    <3>. QED  BY <1>2, <1>3, <2>1, <2>2, <3>1, AtKept
  <2>4. ASSUME NEW c \in Nodes PROVE At(node, f, c, q)' = SumAt(node, f, c, q)'
    <3>1. PICK y \in 0..f : y = f
      BY <1>3
    <3>2. SumAt(node, y, c, q)' = SumAt(node, y, c, q)
      BY <1>2, <1>3, <2>2, SumKept
    <3>3. At(node, f, c, q)' = At(node, f, c, q)
      BY <1>2, <1>3 DEF At
    <3>4. SumAt(node, f, c, q)' = SumAt(node, y, c, q)'
      BY <1>3, <3>1 DEF SumAt
    <3>. QED  BY <2>1, <3>1, <3>2, <3>3, <3>4
  <2>. QED  BY <2>3, <2>4
<1>. QED  BY <1>1, <1>2, <1>3, <1>4, <1>5, <1>7 DEF SRInv, Begun, SizesInv

-----------------------------------------------------------------------------
(* The theorems *)

LEMMA InitHolds == Init => SRInv
<1> SUFFICES ASSUME Init PROVE SRInv
  OBVIOUS
<1>1. args \in Inputs /\ buffersize = args.buffersize /\ z = 1 /\ pc = "adjust"
  BY DEF Init
<1>2. buffersize \in Nat
  BY <1>1, ArgsAre
<1>. QED  BY <1>1, <1>2 DEF SRInv, Begun

LEMMA StepKeeps == SRInv /\ [Next]_vars => SRInv'
<1> SUFFICES ASSUME SRInv, [Next]_vars PROVE SRInv'
  OBVIOUS
<1>1. CASE UNCHANGED vars
  <2>1. /\ UNCHANGED sizes /\ UNCHANGED <<node, z>> /\ i' = i /\ j' = j /\ pc' = pc
        /\ xor' = xor /\ data' = data /\ coding' = coding
    BY <1>1 DEF vars
  <2>2. CASE ~Begun
    BY <2>1, <2>2 DEF SRInv, Begun, sizes
  <2>3. CASE Begun
    <3>1. SizesInv /\ z \in 1..readins+1 /\ NodeShape /\ DealtInv
      BY <2>3, BegunIs
    <3>2. SizesInv' /\ NodeShape' /\ DealtInv' /\ (StripeInv => StripeInv') /\ readins' = readins
          /\ k' = k /\ n' = n /\ m' = m /\ f' = f /\ Nodes' = Nodes /\ Sources' = Sources
          /\ Buffer' = Buffer /\ buffersize' = buffersize /\ chunkSize' = chunkSize
      BY <2>1, <3>1, NodesRest, SizesKept
    <3>3. \A c : Piece(c)' = Piece(c)
      BY <2>1, <3>2 DEF Piece
    <3>4. StripeInv => \A c \in Nodes, p \in Buffer :
                          SumAt(node, i, c, Cur(p))' = SumAt(node, i, c, Cur(p))
      <4> SUFFICES ASSUME StripeInv
                   PROVE  \A c \in Nodes, p \in Buffer :
                              SumAt(node, i, c, Cur(p))' = SumAt(node, i, c, Cur(p))
        OBVIOUS
      <4>1. i \in 0..f /\ \A s, q : Same(s, q)
        BY <2>1 DEF StripeInv, Same
      <4>. QED  BY <2>1, <3>1, <4>1, SumsKept
    <3>5. StripeInv /\ SumsOf(FALSE) => SumsOf(FALSE)'
      <4> SUFFICES ASSUME StripeInv, SumsOf(FALSE), NEW c \in Nodes, NEW p \in Buffer
                   PROVE  xor'[c][p] = SumAt(node, i, c, Cur(p))'
        BY <3>2, Zenon DEF SumsOf
      <4>1. xor[c][p] = SumAt(node, i, c, Cur(p))
        BY DEF SumsOf
      <4>. QED  BY <2>1, <3>4, <4>1
    <3>6. StripeInv /\ SumsOf(TRUE) => SumsOf(TRUE)'
      <4> SUFFICES ASSUME StripeInv, SumsOf(TRUE), NEW c \in Nodes, NEW p \in Buffer
                   PROVE  xor'[c][p] = Xor(SumAt(node, i, c, Cur(p))', Piece(c)'[p])
        BY <3>2, Zenon DEF SumsOf
      <4>1. xor[c][p] = Xor(SumAt(node, i, c, Cur(p)), Piece(c)[p])
        BY DEF SumsOf
      <4>. QED  BY <2>1, <3>3, <3>4, <4>1
    <3>7. \A p, e : Cur(p)' = Cur(p) /\ Ix(i, e)' = Ix(i, e)
      BY <2>1, <3>2 DEF Cur, Ix
    <3>8. WriteInv => WriteInv'
      <4> SUFFICES ASSUME WriteInv PROVE WriteInv'
        OBVIOUS
      <4>1. \A row \in 0..m-1, p \in Buffer : coding'[row][p] = Coded(row, data, p)'
        <5>1. \A row, p : Coded(row, data, p)' = Coded(row, data, p)
          BY <2>1, <3>2 DEF Coded
        <5>. QED  BY <2>1, <5>1 DEF WriteInv
      <4>2. ASSUME NEW e \in 0..j-1, NEW p \in Buffer
            PROVE  node'[e][i' * chunkSize' + Cur(p)'] = Piece(Ix(i, e))'[p]
        <5>1. node[e][i * chunkSize + Cur(p)] = Piece(Ix(i, e))[p]
          BY DEF WriteInv
        <5>2. PICK c : c = Ix(i, e)
          OBVIOUS
        <5>3. Piece(Ix(i, e))' = Piece(c)'
          BY <3>7, <5>2 DEF Piece
        <5>. QED  BY <2>1, <3>2, <3>3, <3>7, <5>1, <5>2, <5>3
      <4>3. i' < f' /\ j' \in 0..n'
        BY <2>1, <3>2 DEF WriteInv
      <4>. QED  BY <2>1, <3>2, <4>1, <4>2, <4>3, Zenon DEF WriteInv
    <3>9. XorsInv => XorsInv'
      <4> SUFFICES ASSUME XorsInv PROVE XorsInv'
        OBVIOUS
      <4>1. ASSUME NEW e \in 0..j-1, NEW p \in Buffer
            PROVE  node'[e][i' * chunkSize' + Cur(p)'] = xor'[Ix(i, e)'][p]
        <5>1. node[e][i * chunkSize + Cur(p)] = xor[Ix(i, e)][p]
          BY DEF XorsInv
        <5>. QED  BY <2>1, <3>2, <3>7, <5>1
      <4>2. i' = f' /\ j' \in 0..n'
        BY <2>1, <3>2 DEF XorsInv
      <4>. QED  BY <2>1, <3>2, <4>1, <4>2, Zenon DEF XorsInv
    <3>. QED  BY <2>1, <2>3, <3>1, <3>2, <3>5, <3>6, <3>8, <3>9 DEF SRInv, Begun, SizesInv
  <2>. QED  BY <2>2, <2>3
<1>. QED  BY <1>1, AdjustKeeps, FindSizesKeeps, CreateTableKeeps, BeginReadInKeeps, ReturnKeeps,
             ReadStripeKeeps, EncodeStripeKeeps, WritePieceKeeps, NextStripeKeeps,
             StripesDoneKeeps, WriteXorKeeps, NextReadInKeeps DEF Next

LEMMA SRInvariant == Spec => []SRInv
BY InitHolds, StepKeeps, PTL DEF Spec

LEMMA StoredIs ==
    ASSUME SizesInv, NEW s \in 0..f
    PROVE  /\ \A e \in Nodes : LookupTable[<<s, e>>] = Ix(s, e)
           /\ \A c \in Nodes : /\ Holder(s, c) = (c + s) % n
                               /\ \A q : Stored(s, c, q) = At(node, s, c, q)
<1>1. args \in Inputs /\ \A e \in Nodes : LookupTable[<<s, e>>] = Ix(s, e)
  BY DEF SizesInv, Placement, Ix
<1>2. ASSUME NEW c \in Nodes PROVE Holder(s, c) = (c + s) % n
  <2> DEFINE h == (c + s) % n
  <2>1. h \in Nodes /\ Ix(s, h) = c
    BY <1>1, HolderOf
  <2>2. \A e \in Nodes : Ix(s, e) = c => e = h
    BY <1>1, HolderOf
  <2> HIDE DEF h
  <2>3. Holder(s, c) = CHOOSE e \in Nodes : Ix(s, e) = c
    BY <1>1 DEF Holder
  <2>4. Holder(s, c) \in Nodes /\ Ix(s, Holder(s, c)) = c
    BY <2>1, <2>3
  <2>. QED  BY <2>2, <2>4 DEF h
<1>. QED  BY <1>1, <1>2 DEF Stored, At

\* AnyKNodes: the pieces of a stripe are those of one codeword, one on each node.
THEOREM AnyKNodesHolds == Spec => []AnyKNodes
<1>1. SRInv => AnyKNodes
  <2> SUFFICES ASSUME SRInv, NEW s \in 0..f-1, NEW q \in Dealt
               PROVE  /\ {LookupTable[<<s, e>>] : e \in Nodes} = Nodes
                      /\ \A row \in 0..m-1 :
                            Stored(s, k + row, q)
                              = UNION {Times(row, c, Stored(s, c, q)) : c \in Sources}
    BY DEF AnyKNodes
  <2>1. Begun /\ q \in 0..(z-1)*buffersize-1
    BY DEF Dealt, Begun
  <2>2. SizesInv /\ DealtInv /\ args \in Inputs
    BY <2>1, BegunIs DEF SizesInv
  <2>3. s \in 0..f
    BY <2>2, Indices
  <2>4. CodeAt(node, s, q)
    BY <2>1, <2>2 DEF DealtInv
  <2>5. /\ \A e \in Nodes : LookupTable[<<s, e>>] = Ix(s, e) /\ Ix(s, e) \in Nodes
        /\ \A c \in Nodes : /\ (c + s) % n \in Nodes /\ Ix(s, (c + s) % n) = c
                            /\ Stored(s, c, q) = At(node, s, c, q)
    BY <2>2, <2>3, HolderOf, StoredIs
  <2>6. {LookupTable[<<s, e>>] : e \in Nodes} = Nodes
    BY <2>5
  <2>7. ASSUME NEW row \in 0..m-1
        PROVE  Stored(s, k + row, q) = UNION {Times(row, c, Stored(s, c, q)) : c \in Sources}
    <3>1. k + row \in Nodes /\ \A c \in Sources : c \in Nodes
      BY <2>2, Indices
    <3>2. At(node, s, k + row, q) = UNION {Times(row, c, At(node, s, c, q)) : c \in Sources}
      BY <2>4 DEF CodeAt
    <3>3. {Times(row, c, At(node, s, c, q)) : c \in Sources} = {Times(row, c, Stored(s, c, q)) : c \in Sources}
      BY <2>5, <3>1
    <3>. QED  BY <2>5, <3>1, <3>2, <3>3
  <2>. QED  BY <2>6, <2>7
<1>. QED  BY <1>1, SRInvariant, PTL

\* RebuiltByXor: a lost node file is rebuilt from f others, which are all different.
THEOREM RebuiltByXorHolds == Spec => []RebuiltByXor
<1>1. SRInv => RebuiltByXor
  <2> SUFFICES ASSUME SRInv, NEW e \in Nodes, NEW s \in 0..f, NEW q \in Dealt
               PROVE  LET c == LookupTable[<<s, e>>]
                          others == (0..f) \ {s}
                      IN  /\ \A o \in others : Holder(o, c) # e
                          /\ node[e][s * chunkSize + q] = SumOver(others, LAMBDA o : Stored(o, c, q))
    BY DEF RebuiltByXor
  <2> DEFINE c == LookupTable[<<s, e>>]
             others == (0..f) \ {s}
  <2>1. Begun /\ q \in 0..(z-1)*buffersize-1
    BY DEF Dealt, Begun
  <2>2. SizesInv /\ DealtInv /\ args \in Inputs /\ f \in Nat /\ f \in 1..n-1 /\ n \in Nat \ {0}
    BY <2>1, BegunIs, ArgsAre DEF SizesInv
  <2>3. c = Ix(s, e) /\ c \in Nodes /\ (c + s) % n = e
    <3>1. Ix(s, e) \in Nodes /\ (Ix(s, e) + s) % n = e
      BY <2>2, HolderOf
    <3>2. c = Ix(s, e)
      BY <2>2, StoredIs
    <3>. QED  BY <3>1, <3>2
  <2> HIDE DEF c
  <2>4. \A o \in 0..f : Holder(o, c) = (c + o) % n /\ Stored(o, c, q) = At(node, o, c, q)
    BY <2>2, <2>3, StoredIs
  <2>5. ASSUME NEW o \in others PROVE Holder(o, c) # e
    <3>1. Nodes = 0..n-1 /\ o \in 0..n-1 /\ s \in 0..n-1 /\ o # s /\ o \in 0..f
      BY <2>2, Indices
    <3>2. /\ (c + o) % n = IF c + o < n THEN c + o ELSE (c + o) - n
          /\ (c + s) % n = IF c + s < n THEN c + s ELSE (c + s) - n
      BY <2>2, <2>3, <3>1, Around
    <3>3. (c + o) % n # (c + s) % n
      <4> DEFINE x == (c + o) % n
                 y == (c + s) % n
      <4>1. c \in 0..n-1 /\ n \in Nat
        BY <2>2, <2>3, <3>1
      <4>2. /\ x = IF c + o < n THEN c + o ELSE (c + o) - n
            /\ y = IF c + s < n THEN c + s ELSE (c + s) - n
        BY <3>2
      <4> HIDE DEF x, y
      <4>3. x # y
        BY <3>1, <4>1, <4>2
      <4>. QED  BY <4>3 DEF x, y
    <3>. QED  BY <2>3, <2>4, <3>1, <3>3
  <2> DEFINE g == [o \in 0..f |-> At(node, o, c, q)]
  <2>6. \A t : t \in g[f] <=> Odd({o \in 0..f-1 : t \in g[o]})
    <3> SUFFICES ASSUME NEW t PROVE t \in g[f] <=> Odd({o \in 0..f-1 : t \in g[o]})
      OBVIOUS
    <3>1. At(node, f, c, q) = SumAt(node, f, c, q)
      BY <2>1, <2>2, <2>3 DEF DealtInv
    <3>2. t \in SumAt(node, f, c, q) <=> Odd(Having(node, f, c, q, t))
      BY <2>2, HavingIsFinite
    <3>3. {o \in 0..f-1 : t \in g[o]} = Having(node, f, c, q, t)
      <4>1. \A o \in 0..f-1 : o \in 0..f
        BY <2>2
      <4>. QED  BY <4>1 DEF Having
    <3>4. g[f] = At(node, f, c, q)
      BY <2>2
    <3>. QED  BY <3>1, <3>2, <3>3, <3>4
  <2>7. g[s] = node[e][s * chunkSize + q]
    BY <2>3 DEF At
  <2>8. g[s] = SumOfValues(others, g)
    <3> HIDE DEF g
    <3>. QED  BY <2>2, <2>6, EachIsSum
  <2>9. \A o \in others : Stored(o, c, q) = g[o]
    BY <2>4
  <2>10. SumOver(others, LAMBDA o : Stored(o, c, q)) = SumOfValues(others, g)
    <3> DEFINE U == UNION {Stored(o, c, q) : o \in others}
               V == UNION {g[o] : o \in others}
               P == {x \in {<<o, t>> : o \in others, t \in U} : x[2] \in Stored(x[1], c, q)}
               Q == {x \in {<<o, t>> : o \in others, t \in V} : x[2] \in g[x[1]]}
    <3>1. U = V
      BY <2>9
    <3>2. P = Q
      <4> HIDE DEF U, V, g, others
      <4>1. \A o \in others, t \in V : t \in Stored(o, c, q) <=> t \in g[o]
        BY <2>9
      <4>. QED  BY <3>1, <4>1
    <3>3. SumOver(others, LAMBDA o : Stored(o, c, q))
            = {t \in {x[2] : x \in P} : Odd({x \in P : x[2] = t})}
      BY DEF SumOver, Odd
    <3>4. SumOfValues(others, g) = {t \in {x[2] : x \in Q} : Odd({x \in Q : x[2] = t})}
      BY DEF SumOfValues
    <3> HIDE DEF P, Q
    <3>. QED  BY <3>2, <3>3, <3>4
  <2>. QED  BY <2>5, <2>7, <2>8, <2>10 DEF c
<1>. QED  BY <1>1, SRInvariant, PTL

-----------------------------------------------------------------------------
(* What is stored of the input *)

\* A buffersize that is not adjusted to 0.
Wide == 2 * args.buffersize >= Unit

\* A number of bytes up to b, if a of them are left.
Clip(b, a) == IF a < 0 THEN 0 ELSE IF a < b THEN a ELSE b

\* The bytes of a chunk that have been dealt with, if those of the first r
\* stripes of this read-in have, and the place of such a byte in the input.
Until(s, r) == IF s < r THEN z * buffersize ELSE (z - 1) * buffersize
Pos(s, c, q) == (c + s * k) * chunkSize + q

TotalsTo(r) ==
    /\ DOMAIN total = 0..f*k-1
    /\ \A s \in 0..f-1, c \in Sources :
          total[c + s * k] = Clip(Until(s, r), args.size - (c + s * k) * chunkSize)
KeptTo(r) ==
    \A s \in 0..f-1, c \in Sources : \A q \in 0..Until(s, r)-1 :
        Pos(s, c, q) < args.size => At(node, s, c, q) = Read(Pos(s, c, q))
PieceRead ==
    \A c \in Sources, p \in Buffer :
        Pos(i, c, Cur(p)) < args.size => data[c][p] = Read(Pos(i, c, Cur(p)))

StoreInv ==
    /\ pc = "adjust" => buffersize = args.buffersize
    /\ pc = "sizes" /\ Wide => buffersize # 0
    /\ pc \notin {"adjust", "sizes"} /\ Wide => args.size <= (f * k) * chunkSize
    /\ pc = "done" => z = readins + 1
    /\ pc \in {"readin", "done"} => TotalsTo(0) /\ KeptTo(0)
    /\ pc \in {"read", "xors"} => TotalsTo(i) /\ KeptTo(i)
    /\ pc \in {"encode", "write"} => TotalsTo(i + 1) /\ KeptTo(i) /\ PieceRead

LEMMA ClipIs ==
    ASSUME NEW y \in Nat, NEW a \in Int
    PROVE  Max({0, Min({y, a})}) = Clip(y, a)
<1> DEFINE low == IF y <= a THEN y ELSE a
<1>1. Min({y, a}) = low
  <2>1. low \in {y, a} /\ \A e \in {y, a} : low <= e
    OBVIOUS
  <2>2. \A d \in {y, a} : (\A e \in {y, a} : d <= e) => d = low
    OBVIOUS
  <2> HIDE DEF low
  <2>. QED  BY <2>1, <2>2 DEF Min
<1>2. low \in Int
  OBVIOUS
<1> DEFINE high == IF 0 >= low THEN 0 ELSE low
<1>3. Max({0, low}) = high
  <2> HIDE DEF low
  <2>1. high \in {0, low} /\ \A e \in {0, low} : high >= e
    BY <1>2
  <2>2. \A d \in {0, low} : (\A e \in {0, low} : d >= e) => d = high
    BY <1>2
  <2> HIDE DEF high
  <2>. QED  BY <2>1, <2>2 DEF Max
<1>4. high = Clip(y, a)
  BY DEF Clip
<1>. QED  BY <1>1, <1>3, <1>4

LEMMA ClipAdds ==
    ASSUME NEW d \in Nat, NEW b \in Nat, NEW a \in Int
    PROVE  /\ Clip(d, a) + Clip(b, a - d) = Clip(d + b, a)
           /\ Clip(d, a) \in 0..d
           /\ \A p \in 0..b-1 : p < Clip(b, a - d) <=> p < a - d
BY DEF Clip

\* The chunks of the input are numbered through the stripes.
LEMMA ChunkNumbers ==
    ASSUME args \in Inputs
    PROVE  /\ \A s \in 0..f-1, c \in Sources :
                 /\ c + s * k \in 0..f*k-1 /\ c + k * s = c + s * k /\ s \in Nat /\ c \in Nat
                 /\ \A t \in 0..f-1, d \in Sources : d + t * k = c + s * k => t = s /\ d = c
           /\ \A x \in 0..f*k-1 : \E s \in 0..f-1, c \in Sources : x = c + s * k
<1>1. k \in Nat \ {0} /\ f \in Nat /\ Sources = 0..k-1
  BY ArgsAre DEF Sources
<1>2. ASSUME NEW s \in 0..f-1, NEW c \in Sources
      PROVE  /\ c + s * k \in 0..f*k-1 /\ c + k * s = c + s * k /\ s \in Nat /\ c \in Nat
             /\ (c + s * k) \div k = s /\ (c + s * k) % k = c
  <2>1. s \in Nat /\ f - s - 1 \in Nat /\ c \in 0..k-1
    BY <1>1
  <2>2. s * k \in Nat /\ (f - s - 1) * k \in Nat /\ f * k = s * k + k + (f - s - 1) * k
    BY <1>1, <2>1
  <2>3. (k * s + c) \div k = s /\ (k * s + c) % k = c
    BY <1>1, <2>1, DivRest
  <2>4. k * s + c = c + s * k /\ c + k * s = c + s * k
    BY <1>1, <2>1
  <2>. QED  BY <1>1, <2>1, <2>2, <2>3, <2>4
<1>3. ASSUME NEW s \in 0..f-1, NEW c \in Sources, NEW t \in 0..f-1, NEW d \in Sources,
             d + t * k = c + s * k
      PROVE  t = s /\ d = c
  <2>1. (c + s * k) \div k = s /\ (c + s * k) % k = c
    BY <1>2
  <2>2. (d + t * k) \div k = t /\ (d + t * k) % k = d
    BY <1>2
  <2>. QED  BY <1>3, <2>1, <2>2
<1>4. ASSUME NEW x \in 0..f*k-1 PROVE \E s \in 0..f-1, c \in Sources : x = c + s * k
  <2>0. f * k \in Nat /\ x \in Nat
    BY <1>1
  <2>1. x \div k \in Nat /\ x % k \in 0..k-1 /\ x = k * (x \div k) + (x % k)
    BY <1>1, <2>0, RestOf
  <2>2. PICK s \in Nat, c \in 0..k-1 : s = x \div k /\ c = x % k /\ x = k * s + c
    BY <2>1
  <2>3. x = c + s * k
    <3>1. k * s = s * k /\ s * k \in Nat
      BY <1>1
    <3>. QED  BY <2>2, <3>1
  <2>4. s < f
    <3> SUFFICES ASSUME s >= f PROVE FALSE
      BY <1>1
    <3>1. s - f \in Nat /\ (s - f) * k \in Nat /\ s * k = f * k + (s - f) * k
      BY <1>1
    <3>. QED  BY <2>0, <2>2, <2>3, <3>1
  <2>5. s \in 0..f-1 /\ c \in Sources
    BY <1>1, <2>2, <2>4
  <2>. QED  BY <2>3, <2>5, Zenon
<1>. QED  BY <1>2, <1>3, <1>4

-----------------------------------------------------------------------------
(* Sizes *)

\* A buffersize of at least half a unit is not adjusted to 0.
LEMMA AdjustWide ==
    ASSUME SRInv, StoreInv, AdjustBuffersize, Wide PROVE buffersize' # 0
<1> DEFINE b == buffersize
           T == {s \in 0..Unit : (b + s) % Unit = 0 \/ (b - s) % Unit = 0}
           steps == Min(T)
<1>1. /\ args \in Inputs /\ b \in Nat \ {0} /\ 2 * b >= Unit /\ Unit \in Nat \ {0}
  BY ArgsAre DEF SRInv, StoreInv, AdjustBuffersize, Wide
<1>2. buffersize' = IF (b + steps) % Unit = 0 THEN b + steps ELSE b - steps
  BY DEF AdjustBuffersize
<1> HIDE DEF b
<1>3. Unit % Unit = 0
  <2>1. 0 \in 0..Unit-1 /\ 1 \in Nat /\ Unit * 1 + 0 = Unit
    BY <1>1
  <2>2. (Unit * 1 + 0) % Unit = 0
    BY <1>1, <2>1, DivRest
  <2>. QED  BY <2>1, <2>2
<1>4. b \in T \/ Unit - b \in T => steps \in 0..Unit /\ \A e \in T : steps <= e
  <2> SUFFICES ASSUME T # {} PROVE steps \in 0..Unit /\ \A e \in T : steps <= e
    OBVIOUS
  <2>1. T \subseteq 0..Unit /\ T \in SUBSET Nat
    BY <1>1
  <2> HIDE DEF T
  <2>. QED  BY <2>1, MinIs
<1>5. CASE b > Unit
  <2>1. T \subseteq 0..Unit
    OBVIOUS
  <2>2. b % Unit \in T
    <3> DEFINE d == b \div Unit
               e == b % Unit
    <3>1. d \in Nat /\ e \in 0..Unit-1 /\ b = Unit * d + e
      BY <1>1, RestOf
    <3> HIDE DEF d, e
    <3>2. 0 \in 0..Unit-1 /\ b - e = Unit * d + 0
      <4>1. Unit * d \in Nat
        BY <1>1, <3>1
      <4>. QED  BY <1>1, <3>1, <4>1
    <3>3. (Unit * d + 0) % Unit = 0
      BY <1>1, <3>1, <3>2, DivRest
    <3>. QED  BY <1>1, <3>1, <3>2, <3>3 DEF e
  <2>3. steps \in 0..Unit
    <3> HIDE DEF T
    <3>1. T \in SUBSET Nat /\ T # {}
      BY <1>1, <2>1, <2>2
    <3>2. steps \in T
      BY <3>1, MinIs
    <3>. QED  BY <2>1, <3>2
  <2> HIDE DEF T, steps
  <2>. QED  BY <1>1, <1>2, <1>5, <2>3
<1>6. CASE b <= Unit
  <2>1. Unit - b \in T
    <3>1. Unit - b \in 0..Unit /\ b + (Unit - b) = Unit
      BY <1>1, <1>6
    <3>. QED  BY <1>3, <3>1
  <2>2. steps \in 0..Unit /\ steps <= Unit - b
    BY <1>4, <2>1
  <2> HIDE DEF T, steps
  <2>3. CASE steps = b
    <3>1. b + steps = Unit
      BY <1>1, <2>2, <2>3
    <3>. QED  BY <1>1, <1>2, <1>3, <3>1
  <2>4. CASE steps # b
    BY <1>1, <1>2, <2>2, <2>4
  <2>. QED  BY <2>3, <2>4
<1>. QED  BY <1>1, <1>5, <1>6

\* The chunks are large enough for the input.
LEMMA SizeCovers ==
    ASSUME SRInv, StoreInv, FindSizes, Wide
    PROVE  args.size <= (f * k) * (NewSize \div (f * k))
<1> DEFINE fk == f * k
           size == NewSize
<1>1. args \in Inputs /\ buffersize \in Nat \ {0}
  BY DEF SRInv, StoreInv, FindSizes
<1>2. size \in Nat /\ fk \in Nat \ {0} /\ size >= args.size /\ size % (k * f * Unit) = 0
  BY <1>1, SizeFound
<1>3. k \in Nat /\ f \in Nat /\ Unit \in Nat \ {0} /\ args.size \in Nat
  BY <1>1, ArgsAre
<1> DEFINE u == k * f * Unit
           d == size \div u
<1>4. u = fk * Unit /\ u \in Nat \ {0}
  <2>1. u = fk * Unit
    BY <1>3
  <2> HIDE DEF fk, u
  <2>. QED  BY <1>2, <1>3, <2>1
<1>5. d \in Nat /\ size = u * d
  <2> HIDE DEF size, u
  <2>1. size \div u \in Nat /\ size = u * (size \div u) + (size % u) /\ size % u = 0
    BY <1>2, <1>4, RestOf DEF u
  <2>2. u * d \in Nat
    BY <1>4, <2>1
  <2>. QED  BY <2>1, <2>2
<1> HIDE DEF fk, size, u, d
<1>6. size = fk * (Unit * d) + 0 /\ Unit * d \in Nat /\ 0 \in 0..fk-1
  <2>1. size = (fk * Unit) * d
    BY <1>4, <1>5
  <2>2. Unit * d \in Nat
    BY <1>3, <1>5
  <2>3. (fk * Unit) * d = fk * (Unit * d) /\ fk * (Unit * d) \in Nat
    BY <1>2, <1>3, <1>5, <2>2
  <2>. QED  BY <1>2, <2>1, <2>2, <2>3
<1>7. size \div fk = Unit * d
  BY <1>2, <1>6, DivRest
<1>8. fk * (Unit * d) = size
  <2>1. fk * (Unit * d) \in Nat
    BY <1>2, <1>6
  <2>. QED  BY <1>6, <2>1
<1>9. args.size <= fk * (size \div fk)
  BY <1>2, <1>7, <1>8
<1>. QED  BY <1>9 DEF fk, size

-----------------------------------------------------------------------------
(* What a step leaves alone *)

LEMMA TotalsRest ==
    ASSUME UNCHANGED sizes, total' = total, NEW r, NEW t, TotalsTo(r),
           \A s \in 0..f-1 : Until(s, r) = Until(s, t)'
    PROVE  TotalsTo(t)'
<1>1. f' = f /\ k' = k /\ Sources' = Sources /\ args' = args /\ chunkSize' = chunkSize
  BY SizesKept
<1>2. ASSUME NEW s \in 0..f-1, NEW c \in Sources
      PROVE  total'[c + s * k'] = Clip(Until(s, t)', args'.size - (c + s * k') * chunkSize')
  <2>1. total[c + s * k] = Clip(Until(s, r), args.size - (c + s * k) * chunkSize)
    BY DEF TotalsTo
  <2>2. Until(s, r) = Until(s, t)'
    OBVIOUS
  <2>. QED  BY <1>1, <2>1, <2>2
<1>3. DOMAIN total' = 0..f'*k'-1
  BY <1>1 DEF TotalsTo
<1>4. \A s \in 0..f'-1, c \in Sources' :
         total'[c + s * k'] = Clip(Until(s, t)', args'.size - (c + s * k') * chunkSize')
  BY <1>1, <1>2
<1>. QED  BY <1>3, <1>4, Zenon DEF TotalsTo, Clip

LEMMA KeptRest ==
    ASSUME UNCHANGED sizes, args \in Inputs, NEW r, NEW t, KeptTo(r),
           \A s \in 0..f-1 : Until(s, r) = Until(s, t)',
           \A s \in 0..f-1 : \A q \in 0..Until(s, r)-1 : Same(s, q)
    PROVE  KeptTo(t)'
<1>1. f' = f /\ k' = k /\ Sources' = Sources /\ args' = args /\ chunkSize' = chunkSize
  BY SizesKept
<1>2. \A s, c, q : Pos(s, c, q)' = Pos(s, c, q)
  BY <1>1 DEF Pos
<1>3. ASSUME NEW s \in 0..f-1, NEW c \in Sources, NEW q \in 0..Until(s, t)'-1,
             Pos(s, c, q)' < args'.size
      PROVE  At(node, s, c, q)' = Read(Pos(s, c, q)')
  <2>1. q \in 0..Until(s, r)-1 /\ Pos(s, c, q) < args.size
    BY <1>1, <1>2, <1>3
  <2>2. At(node, s, c, q) = Read(Pos(s, c, q))
    BY <2>1 DEF KeptTo
  <2>3. Same(s, q) /\ s \in 0..f /\ c \in Nodes
    BY <2>1, Indices
  <2>4. At(node, s, c, q)' = At(node, s, c, q)
    BY <2>3, AtKept
  <2>. QED  BY <1>2, <2>2, <2>4
<1>. QED  BY <1>1, <1>3 DEF KeptTo

\* What is known in every state once the table is made.
LEMMA StoreArgs ==
    ASSUME SizesInv
    PROVE  /\ args \in Inputs /\ f \in Nat /\ k \in Nat \ {0} /\ f * k \in Nat
           /\ args.size \in Nat /\ chunkSize \in Nat /\ buffersize \in Nat
           /\ \A s \in 0..f-1, c \in Sources :
                 args.size - (c + s * k) * chunkSize \in Int
BY ArgsAre, ChunkNumbers DEF SizesInv

LEMMA CreateTableStores ==
    ASSUME SRInv, StoreInv, CreateTable PROVE StoreInv'
<1>1. /\ args \in Inputs /\ z = 1 /\ buffersize \in Nat /\ chunkSize \in Nat
      /\ (Wide => args.size <= (f * k) * chunkSize)
  BY DEF SRInv, StoreInv, CreateTable, Begun
<1>2. /\ args' = args /\ buffersize' = buffersize /\ chunkSize' = chunkSize /\ z' = z
      /\ pc' = "readin" /\ total' = [c \in 0..f*k-1 |-> 0]
  BY DEF CreateTable
<1>3. f' = f /\ k' = k /\ Sources' = Sources /\ Wide' = Wide
  BY <1>2 DEF f, k, Sources, Wide
<1>4. \A s \in 0..f-1 : Until(s, 0)' = 0
  BY <1>1, <1>2 DEF Until
<1>5. f \in Nat /\ k \in Nat /\ args.size \in Nat
  BY <1>1, ArgsAre
<1>6. TotalsTo(0)'
  <2>1. ASSUME NEW s \in 0..f-1, NEW c \in Sources
        PROVE  total'[c + s * k'] = Clip(Until(s, 0)', args'.size - (c + s * k') * chunkSize')
    <3>1. c + s * k \in 0..f*k-1
      BY <1>1, ChunkNumbers
    <3>2. total'[c + s * k] = 0
      BY <1>2, <3>1
    <3>3. (c + s * k) * chunkSize \in Int
      BY <1>1, <1>5, ChunkNumbers
    <3>4. Clip(0, args.size - (c + s * k) * chunkSize) = 0
      BY <1>5, <3>3 DEF Clip
    <3>. QED  BY <1>2, <1>3, <1>4, <3>2, <3>4
  <2>2. DOMAIN total' = 0..f'*k'-1
    BY <1>2, <1>3
  <2>3. \A s \in 0..f'-1, c \in Sources' :
           total'[c + s * k'] = Clip(Until(s, 0)', args'.size - (c + s * k') * chunkSize')
    BY <1>3, <2>1
  <2>. QED  BY <2>2, <2>3, Zenon DEF TotalsTo, Clip
<1>7. KeptTo(0)'
  <2>1. \A s \in 0..f'-1 : 0..Until(s, 0)'-1 = {}
    BY <1>3, <1>4
  <2>. QED  BY <2>1 DEF KeptTo
<1>. QED  BY <1>1, <1>2, <1>3, <1>6, <1>7 DEF StoreInv

LEMMA ReadInStores ==
    ASSUME SRInv, StoreInv, BeginReadIn \/ Return PROVE StoreInv'
<1>1. /\ SizesInv /\ z \in 1..readins+1 /\ args \in Inputs /\ TotalsTo(0) /\ KeptTo(0)
      /\ (Wide => args.size <= (f * k) * chunkSize)
  BY BegunIs DEF BeginReadIn, Return, Begun, SizesInv, StoreInv
<1>2. /\ UNCHANGED sizes /\ UNCHANGED <<node, z, total>>
      /\ \/ pc' = "read" /\ i' = 0
         \/ pc' = "done" /\ z > readins
  BY DEF BeginReadIn, Return
<1>3. /\ f' = f /\ k' = k /\ chunkSize' = chunkSize /\ args' = args /\ Wide' = Wide
      /\ readins' = readins /\ buffersize' = buffersize
  BY <1>2, SizesKept DEF Wide
<1>4. \A s : Until(s, 0) = Until(s, 0)'
  BY <1>2, <1>3 DEF Until
<1>5. TotalsTo(0)' /\ KeptTo(0)'
  <2>1. \A s, q : Same(s, q)
    BY <1>2 DEF Same
  <2>. QED  BY <1>1, <1>2, <1>4, <2>1, TotalsRest, KeptRest
<1>6. CASE pc' = "read" /\ i' = 0
  BY <1>1, <1>3, <1>5, <1>6 DEF StoreInv, TotalsTo, KeptTo, Until
<1>7. CASE pc' = "done" /\ z > readins
  <2>1. z' = readins' + 1
    BY <1>1, <1>2, <1>3, <1>7 DEF SizesInv
  <2>. QED  BY <1>1, <1>3, <1>5, <1>7, <2>1 DEF StoreInv
<1>. QED  BY <1>2, <1>6, <1>7

-----------------------------------------------------------------------------
(* Reading *)

\* The next piece of chunk c of this stripe is what the input still has of it.
LEMMA ReadingOf ==
    ASSUME SizesInv, z \in 1..readins, i \in 0..f-1, TotalsTo(i), NEW c \in Sources
    PROVE  LET left == args.size - (c + i * k) * chunkSize
           IN  /\ (Complete(c) \/ Short(c) => buffersize = 0)
               /\ Got(c) = Clip(buffersize, left - (z - 1) * buffersize)
               /\ total[c + k * i] = Clip((z - 1) * buffersize, left)
               /\ total[c + k * i] + Got(c) = Clip(z * buffersize, left)
               /\ (buffersize = 0 => total[c + k * i] = Clip(z * buffersize, left))
               /\ \A p \in Buffer :
                     /\ Start(c) + p = Pos(i, c, Cur(p))
                     /\ Pos(i, c, Cur(p)) < args.size => p < Got(c)
<1> DEFINE b == buffersize
           d == (z - 1) * b
           base == (c + i * k) * chunkSize
           left == args.size - base
           t == total[c + k * i]
<1>1. /\ b \in Nat /\ readins \in Nat /\ z - 1 \in Nat /\ readins - z \in Nat /\ z \in Nat
      /\ chunkSize = readins * b /\ args \in Inputs /\ args.size \in Nat
  BY ArgsAre DEF SizesInv
<1>2. d \in Nat /\ z * b = d + b /\ d + b <= chunkSize /\ chunkSize \in Nat
  <2>1. readins * b = d + b + (readins - z) * b /\ (readins - z) * b \in Nat
    BY <1>1
  <2>2. d \in Nat /\ z * b = d + b
    BY <1>1
  <2>. QED  BY <1>1, <2>1, <2>2
<1>3. base \in Int /\ c + k * i = c + i * k /\ left \in Int
  <2>1. c + i * k \in Nat /\ c + k * i = c + i * k
    <3>1. c + i * k \in 0..f*k-1 /\ c + k * i = c + i * k
      BY <1>1, ChunkNumbers
    <3>. QED  BY <3>1
  <2>2. base \in Int
    BY <1>2, <2>1
  <2>. QED  BY <1>1, <2>1, <2>2
<1>4. t = Clip(d, left)
  <2>1. Until(i, i) = d
    BY DEF Until
  <2>2. total[c + i * k] = Clip(Until(i, i), left)
    BY DEF TotalsTo
  <2>. QED  BY <1>3, <2>1, <2>2
<1>5. Start(c) = base + d
  BY DEF Start
<1> HIDE DEF base, d, b
<1>6. args.size - Start(c) = left - d
  BY <1>1, <1>2, <1>3, <1>5
<1>7. Got(c) = Clip(b, left - d)
  <2>1. left - d \in Int
    BY <1>2, <1>3
  <2>2. Got(c) = Max({0, Min({b, left - d})})
    BY <1>6 DEF Got, b
  <2>. QED  BY <1>1, <2>1, <2>2, ClipIs
<1> HIDE DEF left, t
<1>8. /\ Clip(d, left) + Clip(b, left - d) = Clip(d + b, left)
      /\ Clip(d, left) \in 0..d
      /\ \A p \in 0..b-1 : p < Clip(b, left - d) <=> p < left - d
  BY <1>1, <1>2, <1>3, ClipAdds
<1>9. Complete(c) \/ Short(c) => b = 0
  <2>1. Complete(c) <=> t = chunkSize
    BY DEF Complete, t
  <2>2. Short(c) => t + b > chunkSize
    BY DEF Short, t, b
  <2>. QED  BY <1>1, <1>2, <1>4, <1>8, <2>1, <2>2
<1>10. b = 0 => t = Clip(z * b, left)
  <2> SUFFICES ASSUME b = 0 PROVE t = Clip(z * b, left)
    OBVIOUS
  <2>1. z * b = d
    BY <1>1, <1>2
  <2>. QED  BY <1>4, <2>1
<1>11. t + Got(c) = Clip(z * b, left)
  BY <1>2, <1>4, <1>7, <1>8
<1>12. ASSUME NEW p \in Buffer
       PROVE  /\ Start(c) + p = Pos(i, c, Cur(p))
              /\ Pos(i, c, Cur(p)) < args.size => p < Got(c)
  <2>1. p \in 0..b-1 /\ Cur(p) = d + p /\ Pos(i, c, Cur(p)) = base + Cur(p)
    BY DEF Buffer, Cur, Pos, b, d, base
  <2>2. Start(c) + p = Pos(i, c, Cur(p))
    BY <1>1, <1>2, <1>3, <1>5, <2>1
  <2>3. Pos(i, c, Cur(p)) < args.size => p < left - d
    BY <1>1, <1>2, <1>3, <2>1 DEF left
  <2>. QED  BY <1>7, <1>8, <2>1, <2>2, <2>3
<1>. QED  BY <1>4, <1>7, <1>9, <1>10, <1>11, <1>12 DEF b, d, left, t, base

LEMMA ReadStripeStores ==
    ASSUME SRInv, StoreInv, ReadStripe PROVE StoreInv'
<1>1. /\ SizesInv /\ z \in 1..readins /\ i \in 0..f-1 /\ args \in Inputs /\ TotalsTo(i) /\ KeptTo(i)
      /\ (Wide => args.size <= (f * k) * chunkSize)
  <2>1. /\ SizesInv /\ z \in 1..readins+1 /\ z <= readins /\ i \in 0..f /\ i < f /\ args \in Inputs
        /\ readins \in Nat
    BY BegunIs DEF ReadStripe, Begun, SizesInv, SRInv, StripeInv
  <2>2. f \in Nat
    BY <2>1, ArgsAre
  <2>. QED  BY <2>1, <2>2 DEF StoreInv, ReadStripe
<1>2. /\ UNCHANGED sizes /\ UNCHANGED <<node, z, i>> /\ pc' = "encode"
      /\ data' = [c \in Sources |-> ReadPiece(c)]
      /\ total' = [x \in DOMAIN total |->
                   IF x \in {c + k * i : c \in {s \in Sources : ~Complete(s) /\ ~Short(s)}}
                   THEN total[x] + Got(x - k * i) ELSE total[x]]
  BY DEF ReadStripe
<1>3. /\ f' = f /\ k' = k /\ chunkSize' = chunkSize /\ args' = args /\ Wide' = Wide
      /\ readins' = readins /\ buffersize' = buffersize /\ Sources' = Sources /\ Buffer' = Buffer
  BY <1>2, SizesKept DEF Wide
<1> DEFINE b == buffersize
           Left(s, c) == args.size - (c + s * k) * chunkSize
<1>4. ASSUME NEW c \in Sources PROVE total'[c + i * k] = Clip(z * b, Left(i, c))
  <2> DEFINE x == c + k * i
             Read0 == {s \in Sources : ~Complete(s) /\ ~Short(s)}
  <2>1. x = c + i * k /\ x \in DOMAIN total /\ x - k * i = c
    <3>1. c + k * i = c + i * k /\ c + i * k \in 0..f*k-1 /\ c \in Nat
      BY <1>1, ChunkNumbers
    <3>2. k * i \in Int
      BY <1>1, ArgsAre
    <3>. QED  BY <1>1, <3>1, <3>2 DEF TotalsTo
  <2>2. /\ (Complete(c) \/ Short(c) => b = 0)
        /\ total[x] + Got(c) = Clip(z * b, Left(i, c))
        /\ (b = 0 => total[x] = Clip(z * b, Left(i, c)))
    BY <1>1, ReadingOf
  <2>3. x \in {s + k * i : s \in Read0} \/ c \notin Read0
    OBVIOUS
  <2>4. total'[x] = IF x \in {s + k * i : s \in Read0} THEN total[x] + Got(x - k * i) ELSE total[x]
    BY <1>2, <2>1
  <2> HIDE DEF x
  <2>5. CASE x \in {s + k * i : s \in Read0}
    BY <2>1, <2>2, <2>4, <2>5
  <2>6. CASE ~(x \in {s + k * i : s \in Read0})
    BY <2>1, <2>2, <2>3, <2>4, <2>6
  <2>. QED  BY <2>5, <2>6
<1>5. ASSUME NEW s \in 0..f-1, s # i, NEW c \in Sources PROVE total'[c + s * k] = total[c + s * k]
  <2>1. c + s * k \in DOMAIN total
    BY <1>1, ChunkNumbers DEF TotalsTo
  <2>2. \A d \in Sources : d + k * i # c + s * k
    BY <1>1, <1>5, ChunkNumbers
  <2>. QED  BY <1>2, <2>1, <2>2
<1>6. TotalsTo(i + 1)'
  <2>1. ASSUME NEW s \in 0..f-1, NEW c \in Sources
        PROVE  total'[c + s * k] = Clip(Until(s, i + 1)', Left(s, c))
    <3>1. CASE s = i
      <4>1. Until(s, i + 1)' = z * b
        BY <1>1, <1>2, <1>3, <3>1 DEF Until
      <4>. QED  BY <1>4, <3>1, <4>1
    <3>2. CASE s # i
      <4>1. Until(s, i + 1)' = Until(s, i)
        BY <1>1, <1>2, <1>3, <3>2 DEF Until
      <4>2. total[c + s * k] = Clip(Until(s, i), Left(s, c))
        BY <1>1 DEF TotalsTo
      <4>. QED  BY <1>5, <3>2, <4>1, <4>2
    <3>. QED  BY <3>1, <3>2
  <2>2. DOMAIN total' = 0..f'*k'-1
    BY <1>1, <1>2, <1>3 DEF TotalsTo
  <2>3. \A s \in 0..f'-1, c \in Sources' :
           total'[c + s * k'] = Clip(Until(s, i + 1)', args'.size - (c + s * k') * chunkSize')
    BY <1>3, <2>1
  <2>. QED  BY <2>2, <2>3, Zenon DEF TotalsTo, Clip
<1>7. KeptTo(i)'
  <2>1. \A s, q : Same(s, q)
    BY <1>2 DEF Same
  <2>2. \A s : Until(s, i) = Until(s, i)'
    BY <1>2, <1>3 DEF Until
  <2>3. PICK y : y = i
    OBVIOUS
  <2>4. \A s \in 0..f-1 : Until(s, y) = Until(s, y)'
    BY <1>2, <1>3 DEF Until
  <2>5. KeptTo(y)'
    BY <1>1, <1>2, <2>1, <2>3, <2>4, KeptRest
  <2>. QED  BY <1>2, <2>3, <2>5 DEF KeptTo, Until
<1>8. PieceRead'
  <2>1. ASSUME NEW c \in Sources, NEW p \in Buffer, Pos(i, c, Cur(p)) < args.size
        PROVE  data'[c][p] = Read(Pos(i, c, Cur(p)))
    <3>1. b # 0
      BY <1>1 DEF Buffer, SizesInv
    <3>2. /\ ~Complete(c) /\ ~Short(c)
          /\ Start(c) + p = Pos(i, c, Cur(p)) /\ p < Got(c)
      BY <1>1, <2>1, <3>1, ReadingOf
    <3>3. data'[c] = ReadPiece(c)
      BY <1>2
    <3>4. ReadPiece(c)[p] = Read(Start(c) + p)
      BY <3>2 DEF ReadPiece
    <3>. QED  BY <3>2, <3>3, <3>4
  <2>2. \A c, p : Pos(i, c, Cur(p))' = Pos(i, c, Cur(p))
    BY <1>2, <1>3 DEF Pos, Cur
  <2>3. ASSUME NEW c \in Sources', NEW p \in Buffer', Pos(i, c, Cur(p))' < args'.size
        PROVE  data'[c][p] = Read(Pos(i, c, Cur(p))')
    BY <1>3, <2>1, <2>2, <2>3
  <2>. QED  BY <2>3 DEF PieceRead
<1>. QED  BY <1>1, <1>2, <1>3, <1>6, <1>7, <1>8 DEF StoreInv

-----------------------------------------------------------------------------
(* Writing *)

\* What the steps between reading a stripe and the next read-in start from.
LEMMA StoringIs ==
    ASSUME SRInv, StoreInv, pc \in {"read", "encode", "write", "xors"}
    PROVE  /\ SizesInv /\ z \in 1..readins /\ i \in 0..f /\ args \in Inputs /\ f \in Nat
           /\ NodeShape /\ (Wide => args.size <= (f * k) * chunkSize)
<1>1. SizesInv /\ z \in 1..readins+1 /\ StripeInv /\ NodeShape /\ args \in Inputs /\ readins \in Nat
  BY BegunIs DEF Begun, SRInv, SizesInv
<1>2. z <= readins /\ i \in 0..f
  BY <1>1 DEF StripeInv
<1>3. Wide => args.size <= (f * k) * chunkSize
  BY DEF StoreInv
<1>. QED  BY <1>1, <1>2, <1>3, ArgsAre

LEMMA EncodeStripeStores ==
    ASSUME SRInv, StoreInv, EncodeStripe PROVE StoreInv'
<1>1. /\ SizesInv /\ args \in Inputs /\ TotalsTo(i + 1) /\ KeptTo(i) /\ PieceRead
      /\ (Wide => args.size <= (f * k) * chunkSize)
  BY StoringIs DEF EncodeStripe, StoreInv
<1>2. UNCHANGED sizes /\ UNCHANGED <<node, z, i, total, data>> /\ pc' = "write"
  BY DEF EncodeStripe
<1>3. /\ f' = f /\ k' = k /\ chunkSize' = chunkSize /\ args' = args /\ Wide' = Wide
      /\ readins' = readins /\ buffersize' = buffersize /\ Sources' = Sources /\ Buffer' = Buffer
  BY <1>2, SizesKept DEF Wide
<1>4. \A s, c, q : /\ Until(s, i)' = Until(s, i) /\ Until(s, i + 1)' = Until(s, i + 1)
                   /\ Pos(s, c, q)' = Pos(s, c, q) /\ Same(s, q)
  BY <1>2, <1>3 DEF Until, Pos, Same
<1>5. PICK y : y = i
  OBVIOUS
<1>6. PICK x : x = i + 1
  OBVIOUS
<1>7. TotalsTo(x)' /\ KeptTo(y)'
  <2>1. \A s \in 0..f-1 : Until(s, x) = Until(s, x)' /\ Until(s, y) = Until(s, y)'
    BY <1>2, <1>3 DEF Until
  <2>. QED  BY <1>1, <1>2, <1>4, <1>5, <1>6, <2>1, TotalsRest, KeptRest
<1>8. TotalsTo(i + 1)' /\ KeptTo(i)'
  BY <1>2, <1>5, <1>6, <1>7 DEF TotalsTo, KeptTo, Until
<1>9. PieceRead'
  <2>1. \A c, p : Pos(i, c, Cur(p))' = Pos(i, c, Cur(p))
    BY <1>2, <1>3 DEF Pos, Cur
  <2>. QED  BY <1>1, <1>2, <1>3, <2>1 DEF PieceRead
<1>. QED  BY <1>1, <1>2, <1>3, <1>8, <1>9 DEF StoreInv

LEMMA StoredKept ==
    ASSUME SizesInv, NodeShape, z \in 1..readins, i \in 0..f, j \in Nodes, NEW piece,
           node' = Written(piece), UNCHANGED sizes, UNCHANGED <<z, i>>, KeptTo(i)
    PROVE  KeptTo(i)'
<1>1. args \in Inputs /\ UNCHANGED <<args, chunkSize, buffersize>>
  BY SizesKept DEF SizesInv
<1>2. \A e \in Nodes, s \in 0..f, q \in 0..chunkSize-1 :
         (e # j \/ s # i \/ q - (z-1)*buffersize \notin Buffer)
            => node'[e][s * chunkSize + q] = node[e][s * chunkSize + q]
  BY <1>1, WrittenIs
<1>3. ASSUME NEW s \in 0..f-1, NEW q \in 0..Until(s, i)-1 PROVE Same(s, q)
  <2>1. s \in 0..f
    BY <1>1, Indices
  <2>2. CASE s < i
    <3>1. q \in 0..z*buffersize-1
      BY <2>2 DEF Until
    <3>2. q \in 0..chunkSize-1
      BY <3>1, CurFits
    <3>. QED  BY <1>2, <2>1, <2>2, <3>2 DEF Same
  <2>3. CASE ~(s < i)
    <3>1. q \in 0..(z-1)*buffersize-1
      BY <2>3 DEF Until
    <3>2. q \in 0..chunkSize-1 /\ q - (z-1)*buffersize \notin Buffer
      BY <3>1, CurFits
    <3>. QED  BY <1>2, <2>1, <3>2 DEF Same
  <2>. QED  BY <2>2, <2>3
<1>4. PICK y : y = i
  OBVIOUS
<1>5. \A s \in 0..f-1 : Until(s, y) = Until(s, y)'
  BY <1>1 DEF Until
<1>6. KeptTo(y)'
  BY <1>1, <1>3, <1>4, <1>5, KeptRest
<1>. QED  BY <1>4, <1>6 DEF KeptTo, Until

LEMMA WritePieceStores ==
    ASSUME SRInv, StoreInv, WritePiece PROVE StoreInv'
<1>1. /\ SizesInv /\ args \in Inputs /\ TotalsTo(i + 1) /\ KeptTo(i) /\ PieceRead
      /\ (Wide => args.size <= (f * k) * chunkSize)
      /\ NodeShape /\ z \in 1..readins /\ i \in 0..f
  BY StoringIs DEF WritePiece, StoreInv
<1>2. /\ UNCHANGED sizes /\ UNCHANGED <<z, i, total, data>> /\ pc' = "write" /\ j < n
      /\ \E piece : node' = Written(piece)
  BY Zenon DEF WritePiece
<1>3. /\ f' = f /\ k' = k /\ chunkSize' = chunkSize /\ args' = args /\ Wide' = Wide
      /\ readins' = readins /\ buffersize' = buffersize /\ Sources' = Sources /\ Buffer' = Buffer
  BY <1>2, SizesKept DEF Wide
<1>4. j \in Nodes
  <2>1. j \in 0..n /\ n \in Nat
    BY <1>1, ArgsAre DEF SRInv, WriteInv, WritePiece
  <2>. QED  BY <1>2, <2>1 DEF Nodes
<1>5. KeptTo(i)'
  BY <1>1, <1>2, <1>4, StoredKept
<1>6. TotalsTo(i + 1)'
  <2>1. PICK x : x = i + 1
    OBVIOUS
  <2>2. \A s \in 0..f-1 : Until(s, x) = Until(s, x)'
    BY <1>2, <1>3 DEF Until
  <2>3. TotalsTo(x)'
    BY <1>1, <1>2, <2>1, <2>2, TotalsRest
  <2>. QED  BY <1>2, <2>1, <2>3 DEF TotalsTo, Until
<1>7. PieceRead'
  <2>1. \A c, p : Pos(i, c, Cur(p))' = Pos(i, c, Cur(p))
    BY <1>2, <1>3 DEF Pos, Cur
  <2>. QED  BY <1>1, <1>2, <1>3, <2>1 DEF PieceRead
<1>. QED  BY <1>1, <1>2, <1>3, <1>5, <1>6, <1>7 DEF StoreInv

LEMMA WriteXorStores ==
    ASSUME SRInv, StoreInv, WriteXor PROVE StoreInv'
<1>1. /\ SizesInv /\ args \in Inputs /\ TotalsTo(i) /\ KeptTo(i)
      /\ (Wide => args.size <= (f * k) * chunkSize)
      /\ NodeShape /\ z \in 1..readins /\ i \in 0..f
  BY StoringIs DEF WriteXor, StoreInv
<1>2. /\ UNCHANGED sizes /\ UNCHANGED <<z, i, total>> /\ pc' = "xors" /\ j < n
      /\ \E piece : node' = Written(piece)
  BY Zenon DEF WriteXor
<1>3. /\ f' = f /\ k' = k /\ chunkSize' = chunkSize /\ args' = args /\ Wide' = Wide
      /\ buffersize' = buffersize
  BY <1>2, SizesKept DEF Wide
<1>4. j \in Nodes
  <2>1. j \in 0..n /\ n \in Nat
    BY <1>1, ArgsAre DEF SRInv, XorsInv, WriteXor
  <2>. QED  BY <1>2, <2>1 DEF Nodes
<1>5. KeptTo(i)'
  BY <1>1, <1>2, <1>4, StoredKept
<1>6. TotalsTo(i)'
  <2>1. PICK x : x = i
    OBVIOUS
  <2>2. \A s \in 0..f-1 : Until(s, x) = Until(s, x)'
    BY <1>2, <1>3 DEF Until
  <2>3. TotalsTo(x)'
    BY <1>1, <1>2, <2>1, <2>2, TotalsRest
  <2>. QED  BY <1>2, <2>1, <2>3 DEF TotalsTo, Until
<1>. QED  BY <1>1, <1>2, <1>3, <1>5, <1>6 DEF StoreInv

LEMMA StripesDoneStores ==
    ASSUME SRInv, StoreInv, StripesDone PROVE StoreInv'
<1>1. /\ SizesInv /\ args \in Inputs /\ TotalsTo(i) /\ KeptTo(i)
      /\ (Wide => args.size <= (f * k) * chunkSize)
  BY StoringIs DEF StripesDone, StoreInv
<1>2. UNCHANGED sizes /\ UNCHANGED <<node, z, i, total>> /\ pc' = "xors"
  BY DEF StripesDone
<1>3. /\ f' = f /\ k' = k /\ chunkSize' = chunkSize /\ args' = args /\ Wide' = Wide
      /\ buffersize' = buffersize
  BY <1>2, SizesKept DEF Wide
<1>4. TotalsTo(i)' /\ KeptTo(i)'
  <2>1. PICK x : x = i
    OBVIOUS
  <2>2. \A s \in 0..f-1 : Until(s, x) = Until(s, x)'
    BY <1>2, <1>3 DEF Until
  <2>3. \A s, q : Same(s, q)
    BY <1>2 DEF Same
  <2>4. TotalsTo(x)' /\ KeptTo(x)'
    BY <1>1, <1>2, <2>1, <2>2, <2>3, TotalsRest, KeptRest
  <2>. QED  BY <1>2, <2>1, <2>4 DEF TotalsTo, KeptTo, Until
<1>. QED  BY <1>1, <1>2, <1>3, <1>4 DEF StoreInv

\* When every node has its piece, the bytes of the stripe are in their places.
LEMMA NextStripeStores ==
    ASSUME SRInv, StoreInv, NextStripe PROVE StoreInv'
<1>1. /\ SizesInv /\ args \in Inputs /\ TotalsTo(i + 1) /\ KeptTo(i) /\ PieceRead
      /\ (Wide => args.size <= (f * k) * chunkSize)
      /\ z \in 1..readins /\ i \in 0..f /\ f \in Nat /\ WriteInv
  BY StoringIs DEF NextStripe, StoreInv, SRInv
<1>2. UNCHANGED sizes /\ UNCHANGED <<node, z, total>> /\ i' = i + 1 /\ j = n /\ pc' = "read"
  BY DEF NextStripe
<1>3. /\ f' = f /\ k' = k /\ chunkSize' = chunkSize /\ args' = args /\ Wide' = Wide
      /\ buffersize' = buffersize
  BY <1>2, SizesKept DEF Wide
<1>4. ASSUME NEW c \in Sources, NEW p \in Buffer PROVE At(node, i, c, Cur(p)) = data[c][p]
  <2> DEFINE e == (c + i) % n
  <2>1. e \in Nodes /\ Ix(i, e) = c /\ Nodes = 0..n-1 /\ c < k
    BY <1>1, HolderOf, Indices
  <2>2. e \in 0..j-1
    BY <1>2, <2>1
  <2> HIDE DEF e
  <2>3. node[e][i * chunkSize + Cur(p)] = Piece(Ix(i, e))[p]
    BY <1>1, <2>2 DEF WriteInv
  <2>. QED  BY <2>1, <2>3 DEF At, e, Piece
<1>5. KeptTo(i + 1)
  <2> SUFFICES ASSUME NEW s \in 0..f-1, NEW c \in Sources, NEW q \in 0..Until(s, i + 1)-1,
                      Pos(s, c, q) < args.size
               PROVE  At(node, s, c, q) = Read(Pos(s, c, q))
    BY DEF KeptTo
  <2>1. CASE s # i
    <3>1. Until(s, i + 1) = Until(s, i)
      BY <1>1, <2>1 DEF Until
    <3>. QED  BY <1>1, <3>1 DEF KeptTo
  <2>2. CASE s = i
    <3>1. q \in 0..z*buffersize-1
      BY <1>1, <2>2 DEF Until
    <3>2. q \in 0..(z-1)*buffersize-1 \/ \E p \in Buffer : q = Cur(p)
      BY <1>1, <3>1, CurFits
    <3>3. CASE q \in 0..(z-1)*buffersize-1
      <4>1. Until(s, i) = (z-1)*buffersize
        BY <2>2 DEF Until
      <4>. QED  BY <1>1, <3>3, <4>1 DEF KeptTo
    <3>4. CASE \E p \in Buffer : q = Cur(p)
      <4>1. PICK p \in Buffer : q = Cur(p)
        BY <3>4
      <4>2. data[c][p] = Read(Pos(i, c, Cur(p)))
        BY <1>1, <2>2, <4>1 DEF PieceRead
      <4>. QED  BY <1>4, <2>2, <4>1, <4>2
    <3>. QED  BY <3>2, <3>3, <3>4
  <2>. QED  BY <2>1, <2>2
<1>6. PICK x : x = i + 1
  OBVIOUS
<1>7. TotalsTo(x)' /\ KeptTo(x)'
  <2>1. \A s \in 0..f-1 : Until(s, x) = Until(s, x)'
    BY <1>2, <1>3 DEF Until
  <2>2. \A s, q : Same(s, q)
    BY <1>2 DEF Same
  <2>. QED  BY <1>1, <1>2, <1>5, <1>6, <2>1, <2>2, TotalsRest, KeptRest
<1>8. TotalsTo(i)' /\ KeptTo(i)'
  BY <1>2, <1>6, <1>7 DEF TotalsTo, KeptTo, Until
<1>. QED  BY <1>1, <1>2, <1>3, <1>8 DEF StoreInv

LEMMA NextReadInStores ==
    ASSUME SRInv, StoreInv, NextReadIn PROVE StoreInv'
<1>1. /\ SizesInv /\ args \in Inputs /\ TotalsTo(i) /\ KeptTo(i)
      /\ (Wide => args.size <= (f * k) * chunkSize)
      /\ z \in 1..readins /\ i = f /\ f \in Nat
  BY StoringIs DEF NextReadIn, StoreInv, SRInv, XorsInv
<1>2. UNCHANGED sizes /\ UNCHANGED <<node, i, total>> /\ z' = z + 1 /\ pc' = "readin"
  BY DEF NextReadIn
<1>3. /\ f' = f /\ k' = k /\ chunkSize' = chunkSize /\ args' = args /\ Wide' = Wide
      /\ buffersize' = buffersize
  BY <1>2, SizesKept DEF Wide
<1>4. \A s \in 0..f-1 : Until(s, i) = Until(s, 0)'
  <2> SUFFICES ASSUME NEW s \in 0..f-1 PROVE Until(s, i) = Until(s, 0)'
    OBVIOUS
  <2>1. Until(s, i) = z * buffersize
    BY <1>1 DEF Until
  <2>2. Until(s, 0)' = (z' - 1) * buffersize
    BY <1>3 DEF Until
  <2>3. z' - 1 = z
    BY <1>1, <1>2
  <2>. QED  BY <2>1, <2>2, <2>3
<1>5. PICK x : x = i
  OBVIOUS
<1>6. TotalsTo(0)' /\ KeptTo(0)'
  <2>1. \A s \in 0..f-1 : Until(s, x) = Until(s, 0)'
    BY <1>4, <1>5
  <2>2. \A s, q : Same(s, q)
    BY <1>2 DEF Same
  <2>. QED  BY <1>1, <1>2, <1>5, <2>1, <2>2, TotalsRest, KeptRest
<1>. QED  BY <1>1, <1>2, <1>3, <1>6 DEF StoreInv

-----------------------------------------------------------------------------
(* The theorem *)

LEMMA SizesStore ==
    ASSUME SRInv, StoreInv, AdjustBuffersize \/ FindSizes PROVE StoreInv'
<1>1. CASE AdjustBuffersize
  <2>1. pc' = "sizes" /\ (Wide' <=> Wide)
    BY <1>1 DEF AdjustBuffersize, Wide
  <2>. QED  BY <1>1, <2>1, AdjustWide DEF StoreInv
<1>2. CASE FindSizes
  <2>1. pc' = "table" /\ args' = args /\ chunkSize' = NewSize \div (f * k)
    BY <1>2 DEF FindSizes
  <2>2. f' = f /\ k' = k /\ (Wide' <=> Wide)
    BY <2>1 DEF f, k, Wide
  <2>3. Wide => args.size <= (f * k) * (NewSize \div (f * k))
    BY <1>2, SizeCovers
  <2>. QED  BY <2>1, <2>2, <2>3 DEF StoreInv
<1>. QED  BY <1>1, <1>2

LEMMA StoreInvariant == Spec => [](SRInv /\ StoreInv)
<1>1. Init => StoreInv
  BY DEF Init, StoreInv
<1>2. SRInv /\ StoreInv /\ [Next]_vars => StoreInv'
  <2> SUFFICES ASSUME SRInv, StoreInv, [Next]_vars PROVE StoreInv'
    OBVIOUS
  <2>1. CASE UNCHANGED vars
    <3>1. /\ pc' = pc /\ args' = args /\ buffersize' = buffersize /\ chunkSize' = chunkSize
          /\ readins' = readins /\ z' = z /\ i' = i /\ total' = total /\ data' = data /\ node' = node
      BY <2>1 DEF vars, sizes
    <3>2. /\ f' = f /\ k' = k /\ n' = n /\ Sources' = Sources /\ Buffer' = Buffer /\ (Wide' <=> Wide)
      BY <3>1 DEF f, k, n, Sources, Buffer, Wide
    <3>3. TotalsTo(0)' = TotalsTo(0) /\ TotalsTo(i)' = TotalsTo(i) /\ TotalsTo(i+1)' = TotalsTo(i+1)
      BY <3>1, <3>2 DEF TotalsTo, Until, Clip
    <3>4. KeptTo(0)' = KeptTo(0) /\ KeptTo(i)' = KeptTo(i)
      BY <3>1, <3>2 DEF KeptTo, Until, Pos, At
    <3>5. PieceRead' = PieceRead
      BY <3>1, <3>2 DEF PieceRead, Pos, Cur
    <3>. QED  BY <3>1, <3>2, <3>3, <3>4, <3>5 DEF StoreInv
  <2>. QED  BY <2>1, SizesStore, CreateTableStores, ReadInStores, ReadStripeStores,
               EncodeStripeStores, WritePieceStores, NextStripeStores, StripesDoneStores,
               WriteXorStores, NextReadInStores DEF Next
<1>. QED  BY <1>1, <1>2, SRInvariant, PTL DEF Spec

\* InputStored: no byte of the input is lost, and none is counted twice.
THEOREM InputStoredHolds == Spec => []InputStored
<1>1. SRInv /\ StoreInv => InputStored
  <2> SUFFICES ASSUME SRInv, StoreInv, pc = "done", Wide
               PROVE  /\ \A pos \in 0..args.size-1 :
                            \E s \in 0..f-1, c \in Sources, q \in Chunks :
                                /\ pos = (c + s * k) * chunkSize + q
                                /\ Stored(s, c, q) = Read(pos)
                      /\ \A x \in 0..f*k-1 :
                            total[x] = Max({0, Min({chunkSize, args.size - x * chunkSize})})
    BY DEF InputStored, Wide
  <2>1. /\ SizesInv /\ TotalsTo(0) /\ KeptTo(0) /\ z = readins + 1
        /\ args.size <= (f * k) * chunkSize
    BY BegunIs DEF Begun, StoreInv
  <2>2. /\ args \in Inputs /\ k \in Nat \ {0} /\ f \in Nat /\ args.size \in Nat
        /\ chunkSize \in Nat /\ f * k \in Nat
    BY <2>1, StoreArgs
  <2>3. \A s \in 0..f-1 : Until(s, 0) = chunkSize
    <3>1. (z - 1) * buffersize = chunkSize
      <4>1. z - 1 = readins /\ chunkSize = readins * buffersize
        BY <2>1 DEF SizesInv
      <4>. QED  BY <4>1
    <3>. QED  BY <3>1 DEF Until
  <2>4. ASSUME NEW pos \in 0..args.size-1
        PROVE  \E s \in 0..f-1, c \in Sources, q \in Chunks :
                   pos = (c + s * k) * chunkSize + q /\ Stored(s, c, q) = Read(pos)
    <3>1. chunkSize # 0
      <4> SUFFICES ASSUME chunkSize = 0 PROVE FALSE
        OBVIOUS
      <4>1. (f * k) * chunkSize = 0
        BY <2>2
      <4>. QED  BY <2>1, <2>2, <4>1
    <3> DEFINE y == pos \div chunkSize
               q == pos % chunkSize
    <3>2. /\ pos \in Nat /\ y \in Nat /\ q \in 0..chunkSize-1 /\ pos = chunkSize * y + q
      <4>1. pos \in Nat /\ chunkSize \in Nat \ {0}
        BY <2>2, <3>1
      <4>2. /\ pos \div chunkSize \in Nat /\ pos % chunkSize \in 0..chunkSize-1
            /\ pos = chunkSize * (pos \div chunkSize) + (pos % chunkSize)
        BY <4>1, RestOf
      <4>. QED  BY <4>1, <4>2
    <3> HIDE DEF y, q
    <3>3. y \in 0..f*k-1
      <4> DEFINE fk == f * k
      <4> SUFFICES ASSUME y >= fk PROVE FALSE
        BY <2>2, <3>2
      <4>1. fk \in Nat
        BY <2>2
      <4> HIDE DEF fk
      <4>2. /\ y - fk \in Nat /\ (y - fk) * chunkSize \in Nat /\ fk * chunkSize \in Nat
            /\ chunkSize * y = fk * chunkSize + (y - fk) * chunkSize
        BY <2>2, <3>2, <4>1
      <4>3. args.size <= fk * chunkSize
        BY <2>1 DEF fk
      <4>. QED  BY <2>2, <3>2, <4>1, <4>2, <4>3
    <3>4. PICK s \in 0..f-1, c \in Sources : y = c + s * k
      BY <2>2, <3>3, ChunkNumbers
    <3>5. pos = (c + s * k) * chunkSize + q
      <4>1. chunkSize * y = y * chunkSize
        BY <2>2, <3>2
      <4>. QED  BY <3>2, <3>4, <4>1
    <3>6. At(node, s, c, q) = Read(pos)
      <4>1. q \in 0..Until(s, 0)-1 /\ Pos(s, c, q) = pos /\ pos < args.size
        BY <2>2, <2>3, <3>2, <3>5 DEF Pos
      <4>. QED  BY <2>1, <4>1 DEF KeptTo
    <3>7. Stored(s, c, q) = At(node, s, c, q)
      <4>1. s \in 0..f /\ c \in Nodes
        BY <2>2, Indices
      <4>. QED  BY <2>1, <4>1, StoredIs
    <3>8. q \in Chunks
      BY <3>2 DEF Chunks
    <3>. QED  BY <3>5, <3>6, <3>7, <3>8
  <2>5. ASSUME NEW x \in 0..f*k-1
        PROVE  total[x] = Max({0, Min({chunkSize, args.size - x * chunkSize})})
    <3>1. PICK s \in 0..f-1, c \in Sources : x = c + s * k
      BY <2>2, ChunkNumbers
    <3>2. total[x] = Clip(chunkSize, args.size - x * chunkSize)
      BY <2>1, <2>3, <3>1 DEF TotalsTo
    <3>3. args.size - x * chunkSize \in Int
      BY <2>2
    <3>. QED  BY <2>2, <3>2, <3>3, ClipIs
  <2>. QED  BY <2>4, <2>5
<1>. QED  BY <1>1, StoreInvariant, PTL
=============================================================================
