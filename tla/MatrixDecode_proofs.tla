------------------------ MODULE MatrixDecode_proofs ------------------------
(***************************************************************************)
(* Theorems about jerasure_invert_matrix and jerasure_matrix_decode for    *)
(* every k, m, word size, set of matrices and set of erasures, in both     *)
(* copies of the library: the laws of vectors over the field, then the     *)
(* sweeps of the inversion, then the decoder that calls it.                *)
(***************************************************************************)
EXTENDS MatrixDecode, CommonLemmas, FiniteSetTheorems

-----------------------------------------------------------------------------
(* The laws of the field, for the words of the decoder *)

LEMMA WordTables ==
    /\ wordsize \in 1..8 /\ HasInverses(wordsize)
    /\ Field = Elements(wordsize) /\ Products = Mul(wordsize)
    /\ \A x \in Field : x # Zero => Inverses[x] = Quotient(One, x, wordsize)
  BY FieldAssumption DEF Field, Products, Mul, Inverses

LEMMA SumLaws ==
    ASSUME NEW x \in Field, NEW y \in Field, NEW z \in Field
    PROVE  /\ Plus(x, y) \in Field /\ Plus(x, y) = Plus(y, x)
           /\ Plus(Plus(x, y), z) = Plus(x, Plus(y, z))
           /\ Plus(x, Zero) = x /\ Plus(x, x) = Zero
  BY DEF Plus, Field, Elements, Zero

LEMMA ZeroOne == Zero \in Field /\ One \in Field /\ One # Zero
  BY FieldAssumption DEF Field, Elements, Zero, One

LEMMA ProductType ==
    ASSUME NEW x \in Field, NEW y \in Field
    PROVE  /\ Products[x][y] = ShiftMultiply(x, y, wordsize)
           /\ Products[x][y] \in Field
  BY DEF Products, ShiftMultiply, Field, Elements

LEMMA ProductDistributes ==
    ASSUME NEW x \in Field, NEW y \in Field, NEW z \in Field
    PROVE  Products[Plus(x, y)][z] = Plus(Products[x][z], Products[y][z])
  BY WordTables, TimesDistributes

LEMMA ProductOne ==
    ASSUME NEW y \in Field PROVE Products[One][y] = y /\ Products[y][One] = y
  BY WordTables, TimesOne

LEMMA ProductCommutes ==
    ASSUME NEW x \in Field, NEW y \in Field PROVE Products[x][y] = Products[y][x]
  BY WordTables, TimesCommutes

LEMMA ProductAssociates ==
    ASSUME NEW x \in Field, NEW y \in Field, NEW z \in Field
    PROVE  Products[Products[x][y]][z] = Products[x][Products[y][z]]
  BY WordTables, TimesAssociates

LEMMA ProductZero ==
    ASSUME NEW y \in Field PROVE Products[Zero][y] = Zero /\ Products[y][Zero] = Zero
  BY WordTables, TimesZero

LEMMA InverseOf ==
    ASSUME NEW x \in Field, x # Zero
    PROVE  Inverses[x] \in Field /\ Products[x][Inverses[x]] = One
  BY WordTables, InversesInvert

\* Multiplying by what is not zero loses nothing.
LEMMA NoZeroProduct ==
    ASSUME NEW x \in Field, NEW y \in Field, y # Zero, Products[x][y] = Zero
    PROVE  x = Zero
  BY WordTables, NoZeroDivisors

-----------------------------------------------------------------------------
(* Sums over the columns, and the product of two vectors *)

Vectors == [Index -> Field]
Total(f) == SumOver(Index, LAMBDA c : f[c])

LEMMA IndexIsFinite == IsFiniteSet(Index)
  BY FieldAssumption, FS_Interval DEF Index

LEMMA TotalType ==
    ASSUME NEW f \in Vectors PROVE Total(f) \in Field
  BY DEF Total, SumOver, Field, Elements

LEMMA TotalPlus ==
    ASSUME NEW f \in Vectors, NEW g \in Vectors
    PROVE  Total(RowPlus(f, g)) = Plus(Total(f), Total(g))
<1> DEFINE Odd(v, b) == Cardinality({c \in Index : b \in v[c]}) % 2 = 1
<1>1. \A v : Total(v) = {b \in 0..wordsize-1 : Odd(v, b)}
  BY DEF Total, SumOver
<1>2. ASSUME NEW b PROVE Odd(RowPlus(f, g), b) <=> ~(Odd(f, b) <=> Odd(g, b))
  <2> DEFINE F == {c \in Index : b \in f[c]}   G == {c \in Index : b \in g[c]}
  <2>1. {c \in Index : b \in RowPlus(f, g)[c]} = Plus(F, G)
    BY DEF Plus, RowPlus
  <2>2. IsFiniteSet(F) /\ IsFiniteSet(G)
    BY IndexIsFinite, FS_Subset
  <2>3. Cardinality(Plus(F, G)) % 2 = 1 <=> ~(Cardinality(F) % 2 = 1 <=> Cardinality(G) % 2 = 1)
    <3> HIDE DEF F, G
    <3>. QED  BY <2>2, ParityOfDifference
  <2>. QED  BY <2>1, <2>3
<1> HIDE DEF Odd
<1>. QED  BY <1>1, <1>2 DEF Plus

\* The vector with x at q.
Single(q, x) == [c \in Index |-> IF c = q THEN x ELSE Zero]

LEMMA TotalSingle ==
    ASSUME NEW q \in Index, NEW x \in Field
    PROVE  Single(q, x) \in Vectors /\ Total(Single(q, x)) = x
<1>1. Single(q, x) \in Vectors
  BY ZeroOne DEF Single, Vectors
<1>2. ASSUME NEW b
      PROVE  Cardinality({c \in Index : b \in Single(q, x)[c]}) % 2 = 1 <=> b \in x
  <2>1. CASE b \in x
    <3>1. {c \in Index : b \in Single(q, x)[c]} = {q}
      BY <2>1 DEF Single, Zero
    <3>2. Cardinality({q}) = 1
      BY FS_Singleton
    <3>3. 1 % 2 = 1
      OBVIOUS
    <3>. QED  BY <2>1, <3>1, <3>2, <3>3
  <2>2. CASE b \notin x
    <3>1. {c \in Index : b \in Single(q, x)[c]} = {}
      BY <2>2 DEF Single, Zero
    <3>. QED  BY <2>2, <3>1, FS_EmptySet
  <2>. QED  BY <2>1, <2>2
<1>3. x \subseteq 0..wordsize-1
  BY DEF Field, Elements
<1>4. Total(Single(q, x))
          = {b \in 0..wordsize-1 : Cardinality({c \in Index : b \in Single(q, x)[c]}) % 2 = 1}
  BY DEF Total, SumOver
<1>. QED  BY <1>1, <1>2, <1>3, <1>4

LEMMA TotalZero ==
    Total([c \in Index |-> Zero]) = Zero
<1>1. ASSUME NEW b PROVE {c \in Index : b \in [e \in Index |-> Zero][c]} = {}
  BY DEF Zero
<1>2. Cardinality({}) % 2 = 0
  BY FS_EmptySet
<1>. QED  BY <1>1, <1>2 DEF Total, SumOver, Zero

\* A factor moves out of a sum, one summand after the other.
LEMMA TotalScaled ==
    ASSUME NEW f \in Vectors, NEW y \in Field
    PROVE  Total(Scaled(f, y)) = Products[Total(f)][y]
<1> DEFINE First(q) == [c \in Index |-> IF c < q THEN f[c] ELSE Zero]
           T == {q \in Nat : q <= k =>
                    Total(Scaled(First(q), y)) = Products[Total(First(q))][y]}
<1>a. \A q : First(q) \in Vectors
  BY ZeroOne DEF Vectors
<1>b. \A v \in Vectors : Scaled(v, y) \in Vectors
  BY ProductType DEF Vectors, Scaled
<1>c. k \in Nat /\ \A c \in Index : c \in Nat /\ c < k
  BY FieldAssumption DEF Index
<1>1. 0 \in T
  <2>1. First(0) = [c \in Index |-> Zero]
    BY <1>c
  <2>2. Scaled(First(0), y) = [c \in Index |-> Zero]
    BY <2>1, ProductZero DEF Scaled
  <2>. QED  BY <2>1, <2>2, TotalZero, ProductZero
<1>2. ASSUME NEW q \in Nat, q \in T PROVE q + 1 \in T
  <2>1. SUFFICES ASSUME q + 1 <= k
                 PROVE  Total(Scaled(First(q + 1), y)) = Products[Total(First(q + 1))][y]
    OBVIOUS
  <2>2. q \in Index /\ q <= k
    BY <1>c, <2>1 DEF Index
  <2>3. f[q] \in Field /\ Products[f[q]][y] \in Field
    BY <2>2, ProductType DEF Vectors
  <2>4. First(q + 1) = RowPlus(First(q), Single(q, f[q]))
    <3>1. \A c \in Index : c < q + 1 <=> c < q \/ c = q
      BY <1>c
    <3>2. \A c \in Index : ~(c < q /\ c = q)
      BY <1>c
    <3>3. \A x \in Field : Plus(x, Zero) = x /\ Plus(Zero, x) = x
      BY SumLaws, ZeroOne
    <3>. QED  BY <3>1, <3>2, <3>3, ZeroOne DEF RowPlus, Single, Vectors
  <2> HIDE DEF First
  <2>5. Scaled(First(q + 1), y) = RowPlus(Scaled(First(q), y), Single(q, Products[f[q]][y]))
    <3>1. \A c \in Index : Products[Plus(First(q)[c], Single(q, f[q])[c])][y]
                               = Plus(Products[First(q)[c]][y], Products[Single(q, f[q])[c]][y])
      <4>1. First(q) \in Vectors /\ Single(q, f[q]) \in Vectors
        BY <1>a, <2>2, <2>3, TotalSingle
      <4>2. \A c \in Index : First(q)[c] \in Field /\ Single(q, f[q])[c] \in Field
        BY <4>1 DEF Vectors
      <4>. QED  BY <4>2, ProductDistributes
    <3>2. \A c \in Index : Products[Single(q, f[q])[c]][y] = Single(q, Products[f[q]][y])[c]
      BY ProductZero DEF Single
    <3>. QED  BY <2>4, <3>1, <3>2 DEF RowPlus, Scaled
  <2>6. /\ Single(q, f[q]) \in Vectors /\ Total(Single(q, f[q])) = f[q]
        /\ Single(q, Products[f[q]][y]) \in Vectors
        /\ Total(Single(q, Products[f[q]][y])) = Products[f[q]][y]
    BY <2>2, <2>3, TotalSingle
  <2>7. Total(Scaled(First(q + 1), y)) = Plus(Total(Scaled(First(q), y)), Products[f[q]][y])
    BY <1>a, <1>b, <2>5, <2>6, TotalPlus
  <2>8. Total(First(q + 1)) = Plus(Total(First(q)), f[q])
    BY <1>a, <2>4, <2>6, TotalPlus
  <2>9. Total(First(q)) \in Field
    BY <1>a, TotalType
  <2>10. Products[Total(First(q + 1))][y] = Plus(Products[Total(First(q))][y], Products[f[q]][y])
    BY <2>3, <2>8, <2>9, ProductDistributes
  <2>. QED  BY <1>2, <2>2, <2>7, <2>10
<1>3. k \in T
  <2> HIDE DEF T
  <2>. QED  BY <1>1, <1>2, <1>c, SetInduction
<1>4. First(k) = f
  BY <1>c DEF Vectors
<1>. QED  BY <1>3, <1>4, <1>c

LEMMA DotIs ==
    ASSUME NEW v \in Vectors, NEW u \in Vectors
    PROVE  LET vu == [c \in Index |-> Products[v[c]][u[c]]]
           IN  vu \in Vectors /\ Dot(v, u) = Total(vu)
<1> DEFINE vu == [c \in Index |-> Products[v[c]][u[c]]]
<1>1. vu \in Vectors
  BY ProductType DEF Vectors
<1>2. \A b : {c \in Index : b \in vu[c]} = {c \in Index : b \in Products[v[c]][u[c]]}
  OBVIOUS
<1>3. Dot(v, u) = Total(vu)
  BY <1>2 DEF Dot, Total, SumOver
<1>. QED  BY <1>1, <1>3

LEMMA DotType ==
    ASSUME NEW v \in Vectors, NEW u \in Vectors PROVE Dot(v, u) \in Field
  BY DotIs, TotalType

LEMMA DotCommutes ==
    ASSUME NEW v \in Vectors, NEW u \in Vectors PROVE Dot(v, u) = Dot(u, v)
<1>1. [c \in Index |-> Products[v[c]][u[c]]] = [c \in Index |-> Products[u[c]][v[c]]]
  BY ProductCommutes DEF Vectors
<1>2. Dot(v, u) = Total([c \in Index |-> Products[v[c]][u[c]]])
  BY DotIs
<1>3. Dot(u, v) = Total([c \in Index |-> Products[u[c]][v[c]]])
  BY DotIs
<1>. QED  BY <1>1, <1>2, <1>3, Zenon

LEMMA RowTypes ==
    ASSUME NEW v \in Vectors, NEW u \in Vectors, NEW f \in Field
    PROVE  RowPlus(v, u) \in Vectors /\ Scaled(v, f) \in Vectors
  BY SumLaws, ProductType DEF RowPlus, Scaled, Vectors

LEMMA DotPlus ==
    ASSUME NEW v \in Vectors, NEW w \in Vectors, NEW u \in Vectors
    PROVE  Dot(RowPlus(v, w), u) = Plus(Dot(v, u), Dot(w, u))
<1> DEFINE Times(x) == [c \in Index |-> Products[x[c]][u[c]]]
<1>1. Times(RowPlus(v, w)) = RowPlus(Times(v), Times(w))
  <2>1. \A c \in Index : v[c] \in Field /\ w[c] \in Field /\ u[c] \in Field
    BY DEF Vectors
  <2>2. \A c \in Index : Products[Plus(v[c], w[c])][u[c]]
                             = Plus(Products[v[c]][u[c]], Products[w[c]][u[c]])
    BY <2>1, ProductDistributes
  <2>. QED  BY <2>2 DEF RowPlus
<1>2. \A x \in Vectors : Times(x) \in Vectors /\ Dot(x, u) = Total(Times(x))
  BY DotIs
<1> HIDE DEF Times
<1>. QED  BY <1>1, <1>2, TotalPlus, RowTypes, ZeroOne

LEMMA DotScaled ==
    ASSUME NEW v \in Vectors, NEW f \in Field, NEW u \in Vectors
    PROVE  Dot(Scaled(v, f), u) = Products[Dot(v, u)][f]
<1> DEFINE Times(x) == [c \in Index |-> Products[x[c]][u[c]]]
<1>1. Times(Scaled(v, f)) = Scaled(Times(v), f)
  <2>1. \A c \in Index : v[c] \in Field /\ u[c] \in Field
    BY DEF Vectors
  <2>2. ASSUME NEW x \in Field, NEW y \in Field
        PROVE  Products[Products[x][f]][y] = Products[Products[x][y]][f]
    <3>1. Products[f][y] = Products[y][f]
      BY ProductCommutes
    <3>. QED  BY <3>1, ProductAssociates
  <2>. QED  BY <2>1, <2>2 DEF Scaled
<1>2. \A x \in Vectors : Times(x) \in Vectors /\ Dot(x, u) = Total(Times(x))
  BY DotIs
<1> HIDE DEF Times
<1>. QED  BY <1>1, <1>2, TotalScaled, RowTypes

LEMMA DotSingle ==
    ASSUME NEW v \in Vectors, NEW q \in Index, NEW x \in Field
    PROVE  Dot(v, Single(q, x)) = Products[v[q]][x]
<1>1. v[q] \in Field /\ Products[v[q]][x] \in Field
  BY ProductType DEF Vectors
<1>2. Single(q, x) \in Vectors
  BY TotalSingle
<1>3. [c \in Index |-> Products[v[c]][Single(q, x)[c]]] = Single(q, Products[v[q]][x])
  BY ProductZero DEF Single, Vectors
<1>. QED  BY <1>1, <1>2, <1>3, DotIs, TotalSingle

LEMMA IdentityIs ==
    /\ Identity \in Square
    /\ \A r \in Index : Identity[r] = Single(r, One)
    /\ \A r \in Index, u \in Vectors : Dot(Identity[r], u) = u[r]
<1>1. Identity \in Square
  BY ZeroOne DEF Identity, Square
<1>2. ASSUME NEW r \in Index PROVE Identity[r] = Single(r, One)
  BY DEF Identity, Single
<1>3. ASSUME NEW r \in Index, NEW u \in Vectors PROVE Dot(Identity[r], u) = u[r]
  <2>1. Single(r, One) \in Vectors /\ u[r] \in Field
    BY TotalSingle, ZeroOne DEF Vectors
  <2>2. Dot(Single(r, One), u) = Products[u[r]][One]
    BY <2>1, DotCommutes, DotSingle, ZeroOne
  <2>. QED  BY <1>2, <2>1, <2>2, ProductOne
<1>. QED  BY <1>1, <1>2, <1>3

-----------------------------------------------------------------------------
(* Row operations *)

Column(a, c) == [r \in Index |-> a[r][c]]

\* a times o is b.
TimesIs(a, o, b) == \A r, c \in Index : Dot(a[r], Column(o, c)) = b[r][c]

\* The data that a matrix maps to zero.
Kernel(a) == {u \in Vectors : \A r \in Index : Dot(a[r], u) = Zero}

\* a has gone through the row operations that make b out of o.
SameRows(a, o, b) ==
    /\ b \in Square /\ a \in Square /\ o \in Square
    /\ TimesIs(a, o, b)
    /\ Kernel(b) = Kernel(o)

WithRow(a, r, v) == [a EXCEPT ![r] = v]
RowScaled(a, r, f) == WithRow(a, r, Scaled(a[r], f))
RowAdded(a, r, s, f) == WithRow(a, r, RowPlus(a[r], Scaled(a[s], f)))

LEMMA SquareRows ==
    ASSUME NEW a \in Square
    PROVE  /\ \A r \in Index : a[r] \in Vectors /\ Column(a, r) \in Vectors
           /\ \A r, c \in Index : a[r][c] \in Field
  BY DEF Square, Vectors, Column

\* Two matrices with the same rows but for one.
LEMMA OtherRow ==
    ASSUME NEW a \in Square, NEW r \in Index, NEW v \in Vectors
    PROVE  /\ WithRow(a, r, v) \in Square /\ WithRow(a, r, v)[r] = v
           /\ \A s \in Index \ {r} : WithRow(a, r, v)[s] = a[s]
  BY DEF WithRow, Square, Vectors

LEMMA SwapKeeps ==
    ASSUME NEW a, NEW b, NEW o, SameRows(a, o, b), NEW r \in Index, NEW s \in Index
    PROVE  SameRows(Swapped(a, r, s), o, Swapped(b, r, s))
<1> USE DEF SameRows
<1> DEFINE other(t) == IF t = r THEN s ELSE IF t = s THEN r ELSE t
<1>1. ASSUME NEW x \in Square
      PROVE  Swapped(x, r, s) \in Square /\ \A t \in Index : Swapped(x, r, s)[t] = x[other(t)]
  BY DEF Swapped, Square
<1>2. \A t \in Index : other(t) \in Index /\ other(other(t)) = t
  OBVIOUS
<1>3. TimesIs(Swapped(a, r, s), o, Swapped(b, r, s))
  <2> HIDE DEF other
  <2>. QED  BY <1>1, <1>2 DEF TimesIs
<1>4. Kernel(Swapped(b, r, s)) = Kernel(b)
  <2> HIDE DEF other
  <2>. QED  BY <1>1, <1>2 DEF Kernel
<1>. QED  BY <1>1, <1>3, <1>4

LEMMA ScaleKeeps ==
    ASSUME NEW a, NEW b, NEW o, SameRows(a, o, b),
           NEW r \in Index, NEW f \in Field, f # Zero
    PROVE  SameRows(RowScaled(a, r, f), o, RowScaled(b, r, f))
<1> DEFINE aa == RowScaled(a, r, f)
           bb == RowScaled(b, r, f)
<1>0. a \in Square /\ b \in Square /\ o \in Square /\ TimesIs(a, o, b) /\ Kernel(b) = Kernel(o)
  BY DEF SameRows
<1>1. a[r] \in Vectors /\ b[r] \in Vectors
  BY <1>0, SquareRows
<1>2. Scaled(a[r], f) \in Vectors /\ Scaled(b[r], f) \in Vectors
  BY <1>1, RowTypes
<1>3. /\ aa \in Square /\ aa[r] = Scaled(a[r], f) /\ \A s \in Index \ {r} : aa[s] = a[s]
      /\ bb \in Square /\ bb[r] = Scaled(b[r], f) /\ \A s \in Index \ {r} : bb[s] = b[s]
  BY <1>0, <1>2, OtherRow DEF RowScaled
<1> HIDE DEF aa, bb
<1>4. TimesIs(aa, o, bb)
  <2> SUFFICES ASSUME NEW s \in Index, NEW c \in Index
               PROVE  Dot(aa[s], Column(o, c)) = bb[s][c]
    BY DEF TimesIs
  <2>1. CASE s = r
    <3>1. Dot(Scaled(a[r], f), Column(o, c)) = Products[Dot(a[r], Column(o, c))][f]
      BY <1>0, <1>1, SquareRows, DotScaled
    <3>2. Scaled(b[r], f)[c] = Products[b[r][c]][f]
      BY DEF Scaled
    <3>. QED  BY <1>0, <1>3, <2>1, <3>1, <3>2 DEF TimesIs
  <2>2. CASE s # r
    BY <1>0, <1>3, <2>2 DEF TimesIs
  <2>. QED  BY <2>1, <2>2
<1>5. Kernel(bb) = Kernel(b)
  <2> SUFFICES ASSUME NEW u \in Vectors, NEW s \in Index
               PROVE  Dot(bb[s], u) = Zero <=> Dot(b[s], u) = Zero
    BY DEF Kernel
  <2>1. CASE s = r
    <3>1. Dot(bb[r], u) = Products[Dot(b[r], u)][f] /\ Dot(b[r], u) \in Field
      BY <1>1, <1>3, DotScaled, DotType
    <3>. QED  BY <2>1, <3>1, NoZeroProduct, ProductZero
  <2>2. CASE s # r
    BY <1>3, <2>2
  <2>. QED  BY <2>1, <2>2
<1>. QED  BY <1>0, <1>3, <1>4, <1>5 DEF SameRows, aa, bb

LEMMA AddKeeps ==
    ASSUME NEW a, NEW b, NEW o, SameRows(a, o, b),
           NEW r \in Index, NEW s \in Index, r # s, NEW f \in Field
    PROVE  SameRows(RowAdded(a, r, s, f), o, RowAdded(b, r, s, f))
<1> DEFINE aa == RowAdded(a, r, s, f)
           bb == RowAdded(b, r, s, f)
<1>0. a \in Square /\ b \in Square /\ o \in Square /\ TimesIs(a, o, b) /\ Kernel(b) = Kernel(o)
  BY DEF SameRows
<1>1. a[r] \in Vectors /\ b[r] \in Vectors /\ a[s] \in Vectors /\ b[s] \in Vectors
  BY <1>0, SquareRows
<1>2. Scaled(a[s], f) \in Vectors /\ Scaled(b[s], f) \in Vectors
  BY <1>1, RowTypes
<1>3. /\ aa \in Square /\ aa[r] = RowPlus(a[r], Scaled(a[s], f))
      /\ \A t \in Index \ {r} : aa[t] = a[t]
      /\ bb \in Square /\ bb[r] = RowPlus(b[r], Scaled(b[s], f))
      /\ \A t \in Index \ {r} : bb[t] = b[t]
  <2>1. RowPlus(a[r], Scaled(a[s], f)) \in Vectors /\ RowPlus(b[r], Scaled(b[s], f)) \in Vectors
    BY <1>1, <1>2, RowTypes
  <2>2. /\ aa \in Square /\ aa[r] = RowPlus(a[r], Scaled(a[s], f))
        /\ \A t \in Index \ {r} : aa[t] = a[t]
    BY <1>0, <2>1, OtherRow DEF RowAdded
  <2>3. /\ bb \in Square /\ bb[r] = RowPlus(b[r], Scaled(b[s], f))
        /\ \A t \in Index \ {r} : bb[t] = b[t]
    BY <1>0, <2>1, OtherRow DEF RowAdded
  <2>. QED  BY <2>2, <2>3
<1> HIDE DEF aa, bb
<1>a. ASSUME NEW u \in Vectors
      PROVE  /\ Dot(aa[r], u) = Plus(Dot(a[r], u), Products[Dot(a[s], u)][f])
             /\ Dot(bb[r], u) = Plus(Dot(b[r], u), Products[Dot(b[s], u)][f])
  BY <1>1, <1>2, <1>3, DotPlus, DotScaled
<1>4. TimesIs(aa, o, bb)
  <2> SUFFICES ASSUME NEW t \in Index, NEW c \in Index
               PROVE  Dot(aa[t], Column(o, c)) = bb[t][c]
    BY DEF TimesIs
  <2>1. CASE t = r
    <3>1. Dot(aa[r], Column(o, c))
              = Plus(Dot(a[r], Column(o, c)), Products[Dot(a[s], Column(o, c))][f])
      BY <1>0, <1>a, SquareRows
    <3>2. bb[r][c] = Plus(b[r][c], Products[b[s][c]][f])
      BY <1>3 DEF Scaled, RowPlus
    <3>. QED  BY <1>0, <2>1, <3>1, <3>2 DEF TimesIs
  <2>2. CASE t # r
    BY <1>0, <1>3, <2>2 DEF TimesIs
  <2>. QED  BY <2>1, <2>2
<1>5. Kernel(bb) = Kernel(b)
  <2> SUFFICES ASSUME NEW u \in Vectors,
                      \A t \in Index \ {r} : Dot(b[t], u) = Zero
               PROVE  Dot(bb[r], u) = Zero <=> Dot(b[r], u) = Zero
    BY <1>3 DEF Kernel
  <2>1. Dot(b[s], u) = Zero /\ Products[Zero][f] = Zero /\ Dot(b[r], u) \in Field
    BY <1>1, ProductZero, DotType
  <2>2. Dot(bb[r], u) = Plus(Dot(b[r], u), Zero)
    BY <1>a, <2>1
  <2>. QED  BY <2>1, <2>2, SumLaws, ZeroOne
<1>. QED  BY <1>0, <1>3, <1>4, <1>5 DEF SameRows, aa, bb

-----------------------------------------------------------------------------
(* What elimination has reached *)

\* The columns before q are those of an upper triangular matrix with ones.
Upper(a, q) ==
    \A c \in Index : c < q =>
        a[c][c] = One /\ \A r \in Index : c < r => a[r][c] = Zero

\* The rows before q have nothing above the diagonal in column c.
ClearedAbove(a, c, q) == \A r \in Index : r < q /\ r < c => a[r][c] = Zero

\* Both matrices have gone through the same row operations, and how far the
\* two sweeps have come.
IInv ==
    pc # "idle" =>
        /\ mat \in Square /\ inv \in Square /\ orig \in Square
        /\ TimesIs(inv, orig, mat)
        /\ Kernel(mat) = Kernel(orig)
        /\ i \in 0..k /\ j \in 0..k
        /\ pc \in {"pivot", "below", "above", "done", "singular"}
        /\ pc \in {"pivot", "below", "singular"} => Upper(mat, i)
        /\ pc = "below" =>
              /\ i < j /\ mat[i][i] = One
              /\ \A r \in Index : i < r /\ r < j => mat[r][i] = Zero
        /\ pc = "singular" => i < k /\ \A r \in Index : i <= r => mat[r][i] = Zero
        /\ pc = "above" =>
              /\ i < k /\ j <= i /\ Upper(mat, k)
              /\ \A c \in Index : i < c => ClearedAbove(mat, c, k)
              /\ ClearedAbove(mat, i, j)
        /\ pc = "done" => mat = Identity

LEMMA IndexFacts ==
    /\ k \in Nat \ {0} /\ Index = 0..(k - 1)
    /\ \A c \in Index : c \in Nat /\ c < k
  BY FieldAssumption DEF Index

\* A row operation on mat and the same on inv keep all but the shape.
RowsInv == SameRows(inv, orig, mat)
LEMMA RowsInvPrimed == SameRows(inv', orig', mat') => RowsInv'
  BY DEF RowsInv, SameRows, TimesIs, Kernel

LEMMA CallKeeps ==
    ASSUME NEW a \in Square, Call(a) PROVE IInv'
<1>1. /\ mat' = a /\ orig' = a /\ inv' = Identity /\ i' = 0 /\ j' = 0 /\ pc' = "pivot"
  BY DEF Call
<1>2. TimesIs(Identity, a, a)
  BY IdentityIs, SquareRows DEF TimesIs, Column
<1>3. Upper(a, 0)
  BY IndexFacts DEF Upper
<1>. QED  BY <1>1, <1>2, <1>3, IdentityIs, IndexFacts DEF IInv, Kernel, TimesIs, Upper

LEMMA PivotKeeps ==
    ASSUME IInv, Pivot PROVE IInv'
<1> DEFINE p == FirstPivot
           swapped == Swapped(mat, i, p)
           sinv == Swapped(inv, i, p)
           f == Inverses[swapped[i][i]]
<1>1. /\ RowsInv /\ i \in Index /\ Upper(mat, i)
      /\ i' = i /\ j' = i + 1 /\ pc' = "below" /\ orig' = orig /\ pc = "pivot"
  BY IndexFacts DEF IInv, Pivot, RowsInv, SameRows
<1>2. p \in Index /\ i <= p /\ mat[p][i] # Zero
  <2>1. Pivots \in SUBSET Nat /\ Pivots # {}
    BY <1>1, IndexFacts DEF Pivots, Pivot
  <2>2. p \in Pivots
    BY <2>1, LeastOf DEF FirstPivot
  <2>. QED  BY <1>1, <2>2, IndexFacts DEF Pivots
<1>3. mat' = RowScaled(swapped, i, f) /\ inv' = RowScaled(sinv, i, f)
  BY DEF Pivot, RowScaled, WithRow
<1>4. SameRows(sinv, orig, swapped) /\ swapped \in Square
  <2>1. SameRows(sinv, orig, swapped)
    BY <1>1, <1>2, SwapKeeps DEF RowsInv
  <2>. QED  BY <2>1 DEF SameRows
<1>5. /\ swapped[i] = mat[p]
      /\ \A r \in Index : r < i => swapped[r] = mat[r]
      /\ \A r \in Index : i <= r => \E s \in Index : i <= s /\ swapped[r] = mat[s]
  BY <1>1, <1>2, IndexFacts DEF Swapped, RowsInv, SameRows, Square
<1> HIDE DEF swapped, sinv, p
<1>6. swapped[i][i] \in Field /\ swapped[i][i] # Zero
  BY <1>1, <1>2, <1>4, <1>5, SquareRows
<1>7. f \in Field /\ f # Zero /\ Products[swapped[i][i]][f] = One
  BY <1>6, InverseOf, ProductZero, ZeroOne
<1> HIDE DEF f
<1>8. RowsInv'
  <2>1. SameRows(inv', orig, mat')
    BY <1>1, <1>3, <1>4, <1>7, ScaleKeeps
  <2>. QED  BY <1>1, <2>1, RowsInvPrimed
<1>9. /\ \A c \in Index : mat'[i][c] = Products[swapped[i][c]][f]
      /\ \A r \in Index \ {i} : mat'[r] = swapped[r]
  BY <1>1, <1>3, <1>4 DEF RowScaled, WithRow, Scaled, Square
<1>10. mat'[i][i] = One
  BY <1>1, <1>7, <1>9
<1>11. Upper(mat, i)'
  <2> SUFFICES ASSUME NEW c \in Index, c < i
               PROVE  mat'[c][c] = One /\ \A r \in Index : c < r => mat'[r][c] = Zero
    BY <1>1 DEF Upper
  <2>1. mat'[c][c] = One
    <3>1. c # i /\ mat[c][c] = One
      BY <1>1, IndexFacts DEF Upper
    <3>2. mat'[c] = swapped[c] /\ swapped[c] = mat[c]
      BY <1>5, <1>9, <3>1
    <3>. QED  BY <3>1, <3>2
  <2>2. ASSUME NEW r \in Index, c < r PROVE mat'[r][c] = Zero
    <3>1. swapped[r][c] = Zero
      <4>1. CASE r < i
        BY <1>1, <1>5, <2>2, <4>1 DEF Upper
      <4>2. CASE i <= r
        <5>1. PICK s \in Index : i <= s /\ swapped[r] = mat[s]
          BY <1>5, <4>2
        <5>2. c < s
          BY <1>1, <5>1, IndexFacts
        <5>. QED  BY <1>1, <5>1, <5>2 DEF Upper
      <4>. QED  BY <1>1, <4>1, <4>2, IndexFacts
    <3>. QED  BY <1>7, <1>9, <3>1, ProductZero
  <2>. QED  BY <2>1, <2>2
<1>. QED  BY <1>1, <1>8, <1>10, <1>11, IndexFacts DEF IInv, RowsInv, SameRows

LEMMA BelowKeeps ==
    ASSUME IInv, Below PROVE IInv'
<1> DEFINE f == mat[j][i]
<1>1. /\ RowsInv /\ i \in Index /\ j \in Index /\ i < j /\ Upper(mat, i)
      /\ mat[i][i] = One /\ \A r \in Index : i < r /\ r < j => mat[r][i] = Zero
      /\ i' = i /\ j' = j + 1 /\ pc' = "below" /\ orig' = orig
      /\ mat' = RowAdded(mat, j, i, f) /\ inv' = RowAdded(inv, j, i, f)
  BY IndexFacts DEF IInv, Below, RowAdded, WithRow, RowsInv, SameRows
<1>2. f \in Field
  BY <1>1, SquareRows DEF RowsInv, SameRows
<1>3. i # j
  BY <1>1, IndexFacts
<1> HIDE DEF f
<1>4. RowsInv'
  <2>1. SameRows(inv', orig, mat')
    BY <1>1, <1>2, <1>3, AddKeeps DEF RowsInv
  <2>. QED  BY <1>1, <2>1, RowsInvPrimed
<1>5. /\ \A c \in Index : mat'[j][c] = Plus(mat[j][c], Products[mat[i][c]][f])
      /\ \A r \in Index \ {j} : mat'[r] = mat[r]
  BY <1>1 DEF RowAdded, WithRow, RowsInv, SameRows, Square, RowPlus, Scaled
<1>6. mat'[j][i] = Zero
  <2>1. Products[One][f] = f /\ Plus(f, f) = Zero
    BY <1>2, ProductOne, SumLaws
  <2>. QED  BY <1>1, <1>5, <2>1 DEF f
<1>7. Upper(mat, i)'
  <2> SUFFICES ASSUME NEW c \in Index, c < i
               PROVE  mat'[c][c] = One /\ \A r \in Index : c < r => mat'[r][c] = Zero
    BY <1>1 DEF Upper
  <2>1. c # j /\ c < j
    BY <1>1, IndexFacts
  <2>2. mat'[c][c] = One
    BY <1>1, <1>5, <2>1 DEF Upper
  <2>3. mat'[j][c] = Zero
    <3>1. mat[j][c] = Zero /\ mat[i][c] = Zero
      BY <1>1, <2>1 DEF Upper
    <3>2. Products[Zero][f] = Zero /\ Plus(Zero, Zero) = Zero
      BY <1>2, ProductZero, SumLaws, ZeroOne
    <3>. QED  BY <1>5, <3>1, <3>2
  <2>. QED  BY <1>1, <1>5, <2>2, <2>3 DEF Upper
<1>8. \A r \in Index : i < r /\ r < j + 1 => mat'[r][i] = Zero
  BY <1>1, <1>5, <1>6, IndexFacts
<1>9. mat'[i][i] = One
  BY <1>1, <1>3, <1>5
<1>. QED  BY <1>1, <1>4, <1>7, <1>8, <1>9, IndexFacts DEF IInv, RowsInv, SameRows

LEMMA AboveKeeps ==
    ASSUME IInv, Above PROVE IInv'
<1> DEFINE f == mat[j][i]
<1>1. /\ RowsInv /\ i \in Index /\ j \in Index /\ j < i /\ Upper(mat, k)
      /\ \A c \in Index : i < c => ClearedAbove(mat, c, k)
      /\ ClearedAbove(mat, i, j)
      /\ i' = i /\ j' = j + 1 /\ pc' = "above" /\ orig' = orig
      /\ mat' = [mat EXCEPT ![j][i] = Zero]
      /\ inv' = RowAdded(inv, j, i, f)
  BY IndexFacts DEF IInv, Above, RowAdded, WithRow, RowsInv, SameRows
<1>2. f \in Field /\ i # j
  BY <1>1, SquareRows, IndexFacts DEF RowsInv, SameRows
<1>3. /\ mat'[j] = [mat[j] EXCEPT ![i] = Zero]
      /\ \A r \in Index \ {j} : mat'[r] = mat[r]
      /\ mat' = [mat EXCEPT ![j] = mat'[j]]
  BY <1>1 DEF RowsInv, SameRows, Square
\* Row i holds nothing but its one, so clearing an entry is subtracting that row.
<1>4. mat'[j] = RowPlus(mat[j], Scaled(mat[i], f))
  <2>1. \A c \in Index : mat[i][c] = IF c = i THEN One ELSE Zero
    <3> SUFFICES ASSUME NEW c \in Index PROVE mat[i][c] = IF c = i THEN One ELSE Zero
      OBVIOUS
    <3>1. CASE c = i
      BY <1>1, <3>1, IndexFacts DEF Upper
    <3>2. CASE c < i
      BY <1>1, <3>2, IndexFacts DEF Upper
    <3>3. CASE i < c
      BY <1>1, <3>3, IndexFacts DEF ClearedAbove
    <3>. QED  BY <1>1, <3>1, <3>2, <3>3, IndexFacts
  <2>2. \A c \in Index : mat[j][c] \in Field
    BY <1>1, SquareRows DEF RowsInv, SameRows
  <2>3. ASSUME NEW c \in Index
        PROVE  mat'[j][c] = Plus(mat[j][c], Products[mat[i][c]][f])
    <3>1. CASE c = i
      <4>1. Products[mat[i][c]][f] = f /\ Plus(f, f) = Zero /\ mat[j][c] = f
        BY <1>2, <2>1, <3>1, ProductOne, SumLaws
      <4>2. mat'[j][c] = Zero
        BY <1>1, <1>3, <3>1 DEF RowsInv, SameRows, Square
      <4>. QED  BY <4>1, <4>2
    <3>2. CASE c # i
      <4>1. Products[mat[i][c]][f] = Zero
        BY <1>2, <2>1, <3>2, ProductZero
      <4>2. mat'[j][c] = mat[j][c]
        BY <1>1, <1>3, <3>2 DEF RowsInv, SameRows, Square
      <4>. QED  BY <2>2, <4>1, <4>2, SumLaws, ZeroOne
    <3>. QED  BY <3>1, <3>2
  <2>4. DOMAIN mat'[j] = Index /\ mat'[j] = [c \in Index |-> mat'[j][c]]
    BY <1>1, <1>3 DEF RowsInv, SameRows, Square
  <2>. QED  BY <2>3, <2>4 DEF RowPlus, Scaled
<1>5. RowsInv'
  <2>1. mat' = RowAdded(mat, j, i, f)
    BY <1>3, <1>4 DEF RowAdded, WithRow
  <2> HIDE DEF f
  <2>2. SameRows(inv', orig, mat')
    <3>1. SameRows(inv, orig, mat) /\ inv' = RowAdded(inv, j, i, f)
      BY <1>1 DEF RowsInv
    <3>2. i \in Index /\ j \in Index /\ j # i
      BY <1>1, <1>2
    <3>. QED  BY <1>2, <2>1, <3>1, <3>2, AddKeeps
  <2>. QED  BY <1>1, <2>2, RowsInvPrimed
<1>6. \A r, c \in Index : r # j \/ c # i => mat'[r][c] = mat[r][c]
  BY <1>1, <1>3 DEF RowsInv, SameRows, Square
<1>7. Upper(mat', k)
  BY <1>1, <1>6, IndexFacts DEF Upper
<1>8. \A c \in Index : i < c => ClearedAbove(mat', c, k)
  BY <1>1, <1>6, IndexFacts DEF ClearedAbove
<1>9. ClearedAbove(mat', i, j + 1)
  <2>1. mat'[j][i] = Zero
    BY <1>1, <1>3 DEF RowsInv, SameRows, Square
  <2>. QED  BY <1>1, <1>6, <2>1, IndexFacts DEF ClearedAbove
<1>. QED  BY <1>1, <1>5, <1>7, <1>8, <1>9, IndexFacts DEF IInv, RowsInv, SameRows, Upper, ClearedAbove

LEMMA SingularKeeps ==
    ASSUME IInv, Singular PROVE IInv'
<1>1. /\ RowsInv /\ i \in Index /\ j \in 0..k /\ Upper(mat, i) /\ Pivots = {}
      /\ pc' = "singular" /\ UNCHANGED <<mat, inv, i, j, orig>>
  BY IndexFacts DEF IInv, Singular, RowsInv, SameRows
<1>2. \A r \in Index : i <= r => mat[r][i] = Zero
  BY <1>1, IndexFacts DEF Pivots
<1>3. RowsInv' /\ Upper(mat, i)'
  BY <1>1, RowsInvPrimed DEF RowsInv, Upper
<1>. QED  BY <1>1, <1>2, <1>3, IndexFacts DEF IInv, RowsInv, SameRows

LEMMA TurnsKeep ==
    ASSUME IInv, NextPivot \/ GoBack \/ PreviousPivot PROVE IInv'
<1>1. RowsInv /\ UNCHANGED <<mat, inv, orig>> /\ i \in 0..k /\ j \in 0..k
  BY DEF IInv, NextPivot, GoBack, PreviousPivot, RowsInv, SameRows
<1>2. RowsInv'
  BY <1>1, RowsInvPrimed DEF RowsInv
<1>3. CASE NextPivot
  <2>1. /\ i \in Index /\ i' = i + 1 /\ j' = k /\ pc' = "pivot" /\ Upper(mat, i)
        /\ mat[i][i] = One /\ \A r \in Index : i < r /\ r < k => mat[r][i] = Zero
    BY <1>1, <1>3, IndexFacts DEF NextPivot, IInv
  <2>2. Upper(mat', i + 1)
    BY <1>1, <2>1, IndexFacts DEF Upper
  <2>. QED  BY <1>2, <2>1, <2>2, IndexFacts DEF IInv, RowsInv, SameRows, Upper
<1>4. CASE GoBack
  <2>1. i' = k - 1 /\ j' = 0 /\ pc' = "above" /\ Upper(mat, k)
    BY <1>4, IndexFacts DEF GoBack, IInv
  <2>2. Upper(mat', k)
    BY <1>1, <2>1
  <2>3. /\ \A c \in Index : k - 1 < c => ClearedAbove(mat', c, k)
        /\ ClearedAbove(mat', k - 1, 0)
    BY IndexFacts DEF ClearedAbove
  <2>. QED  BY <1>2, <2>1, <2>2, <2>3, IndexFacts DEF IInv, RowsInv, SameRows, Upper, ClearedAbove
<1>5. CASE PreviousPivot
  <2>1. /\ i \in Index /\ Upper(mat, k) /\ ClearedAbove(mat, i, i)
        /\ \A c \in Index : i < c => ClearedAbove(mat, c, k)
        /\ j' = 0
    BY <1>5, IndexFacts DEF PreviousPivot, IInv
  <2>2. \A c \in Index : i <= c => ClearedAbove(mat', c, k)
    BY <1>1, <2>1, IndexFacts DEF ClearedAbove
  <2>3. Upper(mat', k)
    BY <1>1, <2>1
  <2>4. CASE i = 0
    <3>1. pc' = "done" /\ i' = 0
      BY <1>5, <2>4 DEF PreviousPivot
    <3>2. mat' = Identity
      <4>1. ASSUME NEW r \in Index, NEW c \in Index
            PROVE  mat'[r][c] = IF r = c THEN One ELSE Zero
        <5>1. CASE r < c
          BY <2>2, <2>4, <5>1, IndexFacts DEF ClearedAbove
        <5>2. CASE c < r
          BY <2>3, <5>2, IndexFacts DEF Upper
        <5>3. CASE r = c
          BY <2>3, <5>3, IndexFacts DEF Upper
        <5>. QED  BY <5>1, <5>2, <5>3, IndexFacts
      <4>2. mat' \in Square
        BY <1>2 DEF RowsInv, SameRows, Square
      <4>. QED  BY <4>1, <4>2 DEF Identity, Square
    <3>. QED  BY <1>2, <2>1, <3>1, <3>2, IndexFacts, IdentityIs DEF IInv, RowsInv, SameRows, Identity
  <2>5. CASE i # 0
    <3>1. pc' = "above" /\ i' = i - 1
      BY <1>5, <2>5 DEF PreviousPivot
    <3>2. \A c \in Index : i - 1 < c => ClearedAbove(mat', c, k)
      BY <2>1, <2>2, IndexFacts
    <3>3. ClearedAbove(mat', i - 1, 0)
      BY IndexFacts DEF ClearedAbove
    <3>4. i - 1 \in 0..k /\ i - 1 < k /\ 0 <= i - 1
      BY <2>1, <2>5, IndexFacts
    <3>. QED  BY <1>2, <2>1, <2>3, <3>1, <3>2, <3>3, <3>4, IndexFacts
               DEF IInv, RowsInv, SameRows, Upper, ClearedAbove
  <2>. QED  BY <2>4, <2>5
<1>. QED  BY <1>3, <1>4, <1>5

LEMMA StepKeeps ==
    ASSUME IInv, IStep PROVE IInv'
  BY PivotKeeps, BelowKeeps, AboveKeeps, SingularKeeps, TurnsKeep DEF IStep

\* Nobody calls: nothing changes.
LEMMA NoStepKeeps ==
    ASSUME IInv, UNCHANGED ivars PROVE IInv'
  BY DEF ivars, IInv, TimesIs, Kernel, Upper, ClearedAbove

-----------------------------------------------------------------------------
(* What elimination says *)

\* A vector gets the value x at q, where it was zero.
WithEntry(u, q, x) == [u EXCEPT ![q] = x]
LEMMA DotUpdated ==
    ASSUME NEW v \in Vectors, NEW u \in Vectors, NEW q \in Index, u[q] = Zero,
           NEW x \in Field
    PROVE  /\ WithEntry(u, q, x) \in Vectors
           /\ Dot(v, WithEntry(u, q, x)) = Plus(Dot(v, u), Products[v[q]][x])
<1> DEFINE uu == WithEntry(u, q, x)
<1>1. Single(q, x) \in Vectors /\ uu \in Vectors
  BY TotalSingle DEF Vectors, WithEntry
<1>2. uu = RowPlus(u, Single(q, x))
  <2>1. \A y \in Field : Plus(y, Zero) = y /\ Plus(Zero, y) = y
    BY SumLaws, ZeroOne
  <2>. QED  BY <2>1, ZeroOne DEF WithEntry, RowPlus, Single, Vectors
<1>3. Dot(v, uu) = Dot(uu, v) /\ Dot(v, u) = Dot(u, v) /\ Dot(v, Single(q, x)) = Dot(Single(q, x), v)
  BY <1>1, DotCommutes
<1>4. Dot(uu, v) = Plus(Dot(u, v), Dot(Single(q, x), v))
  BY <1>1, <1>2, DotPlus
<1>. QED  BY <1>1, <1>3, <1>4, DotSingle

\* Without a pivot in column i, the equations can be solved from row i - 1
\* upwards with 1 at i.
LEMMA NoPivotNoInverse ==
    ASSUME NEW a \in Square, NEW q \in Index, Upper(a, q),
           \A r \in Index : q <= r => a[r][q] = Zero
    PROVE  \E u \in Vectors : u[q] = One /\ \A r \in Index : Dot(a[r], u) = Zero
<1> DEFINE Solves(u, s) == /\ u[q] = One
                           /\ \A c \in Index : c < s => u[c] = Zero
                           /\ \A r \in Index : s <= r => Dot(a[r], u) = Zero
           T == {t \in Nat : t <= q => \E u \in Vectors : Solves(u, q - t)}
<1>0. q \in Nat
  BY IndexFacts
<1>1. 0 \in T
  <2>1. Single(q, One) \in Vectors
    BY TotalSingle, ZeroOne
  <2>2. \A c \in Index : Single(q, One)[c] = IF c = q THEN One ELSE Zero
    BY DEF Single
  <2>3. ASSUME NEW r \in Index, q <= r PROVE Dot(a[r], Single(q, One)) = Zero
    <3>1. Dot(a[r], Single(q, One)) = Products[Zero][One]
      BY <2>3, SquareRows, DotSingle, ZeroOne
    <3>. QED  BY <3>1, ProductZero, ZeroOne
  <2>4. Solves(Single(q, One), q)
    BY <2>2, <2>3, IndexFacts
  <2>. QED  BY <1>0, <2>1, <2>4
<1>2. ASSUME NEW t \in Nat, t \in T PROVE t + 1 \in T
  <2> DEFINE s == q - (t + 1)
  <2>1. SUFFICES ASSUME t + 1 <= q PROVE \E u \in Vectors : Solves(u, s)
    OBVIOUS
  <2>2. s \in Index /\ s < q /\ s + 1 = q - t /\ t <= q
    BY <2>1, <1>0, IndexFacts
  <2>3. PICK u \in Vectors : Solves(u, q - t)
    BY <1>2, <2>2
  <2> DEFINE x == Dot(a[s], u)
             uu == WithEntry(u, s, x)
  <2>4. x \in Field /\ u[s] = Zero
    BY <1>0, <2>2, <2>3, SquareRows, DotType
  <2>5. /\ uu \in Vectors
        /\ \A r \in Index : Dot(a[r], uu) = Plus(Dot(a[r], u), Products[a[r][s]][x])
    <3> HIDE DEF x, s
    <3>. QED  BY <2>2, <2>4, SquareRows, DotUpdated
  <2>6. \A c \in Index : c # s => uu[c] = u[c]
    BY DEF Vectors, WithEntry
  <2> HIDE DEF x, uu
  <2>7. uu[q] = One
    BY <2>2, <2>3, <2>6, <1>0
  <2>8. \A c \in Index : c < s => uu[c] = Zero
    BY <2>2, <2>3, <2>6, <1>0, IndexFacts
  <2>9. ASSUME NEW r \in Index, s <= r PROVE Dot(a[r], uu) = Zero
    <3>1. CASE r = s
      <4>1. a[s][s] = One
        BY <2>2 DEF Upper
      <4>2. Dot(a[s], uu) = Plus(x, Products[One][x])
        BY <2>2, <2>5, <4>1 DEF x
      <4>. QED  BY <2>4, <3>1, <4>2, ProductOne, SumLaws
    <3>2. CASE r # s
      <4>1. s < r /\ q - t <= r
        BY <1>0, <2>2, <2>9, <3>2, IndexFacts
      <4>2. a[r][s] = Zero /\ Dot(a[r], u) = Zero
        BY <2>2, <2>3, <4>1 DEF Upper
      <4>3. Plus(Zero, Products[Zero][x]) = Zero
        BY <2>4, ProductZero, SumLaws, ZeroOne
      <4>. QED  BY <2>5, <4>2, <4>3
    <3>. QED  BY <3>1, <3>2
  <2>10. Solves(uu, s)
    BY <2>7, <2>8, <2>9
  <2>. QED  BY <2>5, <2>10
<1>3. q \in T
  <2> HIDE DEF T
  <2>. QED  BY <1>0, <1>1, <1>2, SetInduction
<1>4. PICK u \in Vectors : Solves(u, q - q)
  BY <1>0, <1>3
<1>. QED  BY <1>0, <1>4, IndexFacts

\* The inversion returns the inverse, or finds that there is none.
LEMMA InversionIsRight ==
    ASSUME IInv PROVE InvertsOrReports
<1>1. RowOperations
  <2>1. ASSUME pc # "idle" PROVE MatrixTimes(inv, orig) = mat
    <3>1. mat \in Square /\ TimesIs(inv, orig, mat)
      BY <2>1 DEF IInv
    <3>. QED  BY <3>1 DEF MatrixTimes, RowTimes, TimesIs, Column, Square
  <2>. QED  BY <2>1 DEF RowOperations
<1>2. ASSUME pc = "done" PROVE MatrixTimes(inv, orig) = Identity /\ ~Dependent(orig)
  <2>1. mat = Identity /\ Kernel(mat) = Kernel(orig)
    BY <1>2 DEF IInv
  <2>2. MatrixTimes(inv, orig) = Identity
    BY <1>1, <1>2, <2>1 DEF RowOperations
  <2>3. ASSUME NEW u \in Vectors, \A r \in Index : Dot(orig[r], u) = Zero
        PROVE  \A c \in Index : u[c] = Zero
    <3>1. u \in Kernel(Identity)
      BY <2>1, <2>3 DEF Kernel
    <3>. QED  BY <3>1, IdentityIs DEF Kernel
  <2>. QED  BY <2>2, <2>3 DEF Dependent, Vectors
<1>3. ASSUME pc = "singular" PROVE Dependent(orig)
  <2>1. /\ mat \in Square /\ i \in Index /\ Upper(mat, i) /\ Kernel(mat) = Kernel(orig)
        /\ \A r \in Index : i <= r => mat[r][i] = Zero
    BY <1>3, IndexFacts DEF IInv
  <2>2. PICK u \in Vectors : u[i] = One /\ \A r \in Index : Dot(mat[r], u) = Zero
    BY <2>1, NoPivotNoInverse
  <2>3. u \in Kernel(orig)
    BY <2>1, <2>2 DEF Kernel
  <2>. QED  BY <2>1, <2>2, <2>3, ZeroOne DEF Dependent, Kernel, Vectors
<1>. QED  BY <1>1, <1>2, <1>3 DEF InvertsOrReports

-----------------------------------------------------------------------------
(* The decoder *)

\* Erased data devices from a place on.
LeftFrom(c) == {e \in Data : erased[e] /\ e >= c}

LEMMA LeftIsFinite ==
    ASSUME NEW c PROVE IsFiniteSet(LeftFrom(c)) /\ Cardinality(LeftFrom(c)) \in Nat
<1>1. IsFiniteSet(Data)
  BY DecodeAssumption, FieldAssumption, FS_Interval DEF Data
<1>2. LeftFrom(c) \subseteq Data
  BY DEF LeftFrom
<1>. QED  BY <1>1, <1>2, FS_Subset, FS_CardinalityType

\* What has been written when, and how many devices are left.
DecodeInv ==
    /\ erased \in [Devices -> BOOLEAN] /\ block = [dev \in Devices |-> block[dev]]
    /\ d \in Nat
    /\ dpc \in {"begin", "invert", "decode", "reencode", "returned"}
    /\ dpc \in {"begin", "invert"} => d = 0
    /\ dpc \in {"invert", "decode"} =>
          /\ edd = Cardinality(LeftFrom(d)) /\ d <= lastdrive
          /\ lastdrive = k \/ lastdrive \in ErasedData
    /\ dpc = "reencode" => d <= m
    /\ \A dev \in Devices : erased[dev] /\ block[dev] # Garbage =>
          \/ dpc = "decode" /\ dev < d
          \/ dpc = "reencode" /\ dev < k + d
          \/ dpc = "returned"

\* No step writes to a device that holds what it should hold.
WritesGarbage ==
    \A dev \in Devices : block'[dev] # block[dev] => erased[dev] /\ block[dev] = Garbage

LEMMA BeginsRight ==
    ASSUME DecodeInv, Begin PROVE DecodeInv' /\ WritesGarbage
<1>1. /\ dpc = "begin" /\ dpc' \in {"invert", "decode"} /\ UNCHANGED <<erased, block, d>>
      /\ edd' = Cardinality(ErasedData) /\ d = 0
  BY DEF Begin, DecodeInv
<1>2. k \in Nat \ {0} /\ Data = 0..(k - 1) /\ ErasedData \in SUBSET (0..(k - 1))
  BY DecodeAssumption, FieldAssumption DEF Data, ErasedData
<1>3. lastdrive' = k \/ lastdrive' \in ErasedData
  <2>1. CASE UseParity /\ ErasedData # {}
    <3>1. lastdrive' = CHOOSE c \in ErasedData : \A e \in ErasedData : e <= c
      BY <2>1 DEF Begin
    <3>. QED  BY <1>2, <2>1, <3>1, GreatestOf
  <2>2. CASE ~(UseParity /\ ErasedData # {})
    BY <2>2 DEF Begin
  <2>. QED  BY <2>1, <2>2
<1>4. LeftFrom(0) = ErasedData /\ LeftFrom(d)' = LeftFrom(0)
  BY <1>1, <1>2 DEF LeftFrom, ErasedData
<1>5. ErasedData' = ErasedData
  BY <1>1 DEF ErasedData
<1>6. 0 <= lastdrive'
  <2>1. k >= 0 /\ \A c \in ErasedData : c >= 0
    BY <1>2
  <2>. QED  BY <1>3, <2>1
<1>. QED  BY <1>1, <1>3, <1>4, <1>5, <1>6 DEF DecodeInv, WritesGarbage

LEMMA DecodesData ==
    ASSUME DecodeInv, DecodeData PROVE DecodeInv' /\ WritesGarbage
<1>1. /\ dpc = "decode" /\ d < lastdrive /\ d' = d + 1
      /\ UNCHANGED <<erased, lastdrive, dpc>>
      /\ edd = Cardinality(LeftFrom(d)) /\ d \in Nat
      /\ block = [dev \in Devices |-> block[dev]] /\ erased \in [Devices -> BOOLEAN]
      /\ lastdrive = k \/ lastdrive \in ErasedData
  BY DEF DecodeData, DecodeInv
<1>2. /\ k \in Nat \ {0} /\ m \in Nat \ {0} /\ Data = 0..(k - 1) /\ Devices = 0..(k + m - 1)
      /\ lastdrive \in Nat /\ lastdrive <= k /\ d \in Data /\ d \in Devices
  BY <1>1, DecodeAssumption, FieldAssumption DEF Data, Devices, ErasedData
<1>3. ErasedData' = ErasedData /\ LeftFrom(d)' = LeftFrom(d + 1)
  BY <1>1 DEF ErasedData, LeftFrom
<1>4. CASE erased[d]
  <2>1. /\ edd' = edd - 1
        /\ block' = [block EXCEPT ![d] = Dotprod(d, decoding_matrix[d], dm_ids)]
    BY <1>4 DEF DecodeData
  <2>2. block[d] = Garbage
    BY <1>1, <1>2, <1>4 DEF DecodeInv
  <2>3. LeftFrom(d + 1) = LeftFrom(d) \ {d} /\ d \in LeftFrom(d)
    BY <1>1, <1>2, <1>4 DEF LeftFrom
  <2>4. Cardinality(LeftFrom(d + 1)) = edd - 1
    BY <1>1, <2>3, LeftIsFinite, FS_RemoveElement
  <2>5. /\ \A dev \in Devices \ {d} : block'[dev] = block[dev]
        /\ block' = [dev \in Devices |-> block'[dev]]
    BY <1>1, <1>2, <2>1
  <2>6. WritesGarbage
    BY <1>4, <2>2, <2>5 DEF WritesGarbage
  <2>7. ASSUME NEW dev \in Devices, erased[dev], block'[dev] # Garbage
        PROVE  dev < d + 1
    <3>1. CASE dev = d
      BY <1>1, <3>1
    <3>2. CASE dev # d
      <4>1. block[dev] # Garbage
        BY <2>5, <2>7, <3>2
      <4>2. dev < d
        BY <1>1, <2>7, <4>1 DEF DecodeInv
      <4>. QED  BY <1>1, <1>2, <4>2
    <3>. QED  BY <3>1, <3>2
  <2>8. Garbage' = Garbage
    BY DEF Garbage, Unit
  <2>9. DecodeInv'
    <3>1. /\ edd' = Cardinality(LeftFrom(d)') /\ d' <= lastdrive' /\ d' \in Nat
          /\ lastdrive' = k \/ lastdrive' \in ErasedData'
      <4>1. d + 1 <= lastdrive /\ d + 1 \in Nat
        BY <1>1, <1>2
      <4>. QED  BY <1>1, <1>3, <2>1, <2>4, <4>1
    <3>2. erased' \in [Devices -> BOOLEAN] /\ dpc' = "decode"
      BY <1>1
    <3>3. \A dev \in Devices : erased'[dev] /\ block'[dev] # Garbage' => dev < d'
      BY <1>1, <2>7, <2>8
    <3>. QED  BY <2>5, <3>1, <3>2, <3>3 DEF DecodeInv
  <2>. QED  BY <2>6, <2>9
<1>5. CASE ~erased[d]
  <2>1. UNCHANGED <<block, edd>>
    BY <1>5 DEF DecodeData
  <2>2. LeftFrom(d + 1) = LeftFrom(d)
    BY <1>1, <1>2, <1>5 DEF LeftFrom
  <2>. QED  BY <1>1, <1>2, <1>3, <1>5, <2>1, <2>2 DEF DecodeInv, WritesGarbage, Garbage, Unit
<1>. QED  BY <1>4, <1>5

\* The last device is erased if any is left, and nobody has written to it.
LEMMA DecodesLast ==
    ASSUME DecodeInv, DecodeLast PROVE DecodeInv' /\ WritesGarbage
<1>1. /\ dpc = "decode" /\ ~(edd > 0 /\ d < lastdrive) /\ d' = 0 /\ dpc' = "reencode"
      /\ UNCHANGED erased
      /\ edd = Cardinality(LeftFrom(d)) /\ d \in Nat /\ d <= lastdrive
      /\ block = [dev \in Devices |-> block[dev]] /\ erased \in [Devices -> BOOLEAN]
      /\ lastdrive = k \/ lastdrive \in ErasedData
  BY DEF DecodeLast, DecodeInv
<1>2. /\ k \in Nat \ {0} /\ m \in Nat \ {0} /\ Data = 0..(k - 1) /\ Devices = 0..(k + m - 1)
  BY DecodeAssumption, FieldAssumption DEF Data, Devices
<1>3. CASE edd > 0
  <2>1. d = lastdrive
    BY <1>1, <1>2, <1>3 DEF ErasedData
  <2>2. lastdrive # k
    <3>1. SUFFICES ASSUME lastdrive = k PROVE FALSE
      OBVIOUS
    <3>2. LeftFrom(d) = {}
      BY <1>2, <2>1, <3>1 DEF LeftFrom
    <3>. QED  BY <1>1, <1>3, <3>2, FS_EmptySet
  <2>3. lastdrive \in Devices /\ lastdrive < k /\ erased[lastdrive] /\ block[lastdrive] = Garbage
    BY <1>1, <1>2, <2>1, <2>2 DEF DecodeInv, ErasedData
  <2>4. block' = [block EXCEPT ![lastdrive] = Dotprod(lastdrive, matrix[0], OtherDevices)]
    BY <1>3 DEF DecodeLast
  <2>5. /\ \A dev \in Devices \ {lastdrive} : block'[dev] = block[dev]
        /\ block' = [dev \in Devices |-> block'[dev]]
    BY <1>1, <2>3, <2>4
  <2>. QED  BY <1>1, <1>2, <2>1, <2>3, <2>5 DEF DecodeInv, WritesGarbage, Garbage, Unit
<1>4. CASE ~(edd > 0)
  <2>1. UNCHANGED block
    BY <1>4 DEF DecodeLast
  <2>2. \A dev \in Devices : dev < d => dev < k + 0
    BY <1>1, <1>2 DEF ErasedData
  <2>. QED  BY <1>1, <1>2, <2>1, <2>2 DEF DecodeInv, WritesGarbage, Garbage, Unit
<1>. QED  BY <1>3, <1>4

LEMMA Reencodes ==
    ASSUME DecodeInv, Reencode PROVE DecodeInv' /\ WritesGarbage
<1>1. /\ dpc = "reencode" /\ d < m /\ d' = d + 1 /\ UNCHANGED <<erased, dpc>>
      /\ d \in Nat /\ block = [dev \in Devices |-> block[dev]]
      /\ erased \in [Devices -> BOOLEAN]
  BY DEF Reencode, DecodeInv
<1>2. /\ k \in Nat \ {0} /\ m \in Nat \ {0} /\ Devices = 0..(k + m - 1) /\ k + d \in Devices
  BY <1>1, DecodeAssumption, FieldAssumption DEF Devices
<1>3. CASE erased[k + d]
  <2>1. block' = [block EXCEPT ![k + d] = Encoded(d)]
    BY <1>3 DEF Reencode
  <2>2. block[k + d] = Garbage
    BY <1>1, <1>2, <1>3 DEF DecodeInv
  <2>3. /\ \A dev \in Devices \ {k + d} : block'[dev] = block[dev]
        /\ block' = [dev \in Devices |-> block'[dev]]
    BY <1>1, <1>2, <2>1
  <2>4. WritesGarbage
    BY <1>3, <2>2, <2>3 DEF WritesGarbage
  <2>5. ASSUME NEW dev \in Devices, erased[dev], block'[dev] # Garbage
        PROVE  dev < k + (d + 1)
    <3>1. CASE dev = k + d
      BY <1>1, <1>2, <3>1
    <3>2. CASE dev # k + d
      <4>1. block[dev] # Garbage
        BY <2>3, <2>5, <3>2
      <4>2. dev < k + d
        BY <1>1, <2>5, <4>1 DEF DecodeInv
      <4>. QED  BY <1>1, <1>2, <4>2
    <3>. QED  BY <3>1, <3>2
  <2>6. Garbage' = Garbage
    BY DEF Garbage, Unit
  <2>7. d + 1 \in Nat /\ d + 1 <= m
    BY <1>1, <1>2
  <2>8. DecodeInv'
    BY <1>1, <2>3, <2>5, <2>6, <2>7 DEF DecodeInv
  <2>. QED  BY <2>4, <2>8
<1>4. CASE ~erased[k + d]
  <2>1. UNCHANGED block
    BY <1>4 DEF Reencode
  <2>. QED  BY <1>1, <1>2, <1>4, <2>1 DEF DecodeInv, WritesGarbage, Garbage, Unit
<1>. QED  BY <1>3, <1>4

LEMMA DecodesInOrder ==
    ASSUME DecodeInv, [Next]_<<dvars, ivars>> PROVE DecodeInv' /\ WritesGarbage
<1>a. UNCHANGED <<erased, block, d, edd, lastdrive>> =>
          LeftFrom(d)' = LeftFrom(d) /\ ErasedData' = ErasedData
  BY DEF LeftFrom, ErasedData
<1>1. CASE TooMany
  BY <1>1 DEF TooMany, DecodeInv, WritesGarbage, Garbage, Unit
<1>2. CASE Inverting \/ UNCHANGED <<dvars, ivars>>
  <2>1. UNCHANGED dvars
    BY <1>2 DEF Inverting
  <2>. QED  BY <1>a, <2>1 DEF dvars, DecodeInv, WritesGarbage, Garbage, Unit
<1>3. CASE InvertReturns
  <2>1. dpc = "invert" /\ dpc' \in {"decode", "returned"}
        /\ UNCHANGED <<erased, block, d, edd, lastdrive>>
    BY <1>3 DEF InvertReturns
  <2>. QED  BY <1>a, <2>1 DEF DecodeInv, WritesGarbage, Garbage, Unit
<1>4. CASE Return
  BY <1>4 DEF Return, DecodeInv, WritesGarbage, Garbage, Unit
<1>. QED
  BY <1>1, <1>2, <1>3, <1>4, BeginsRight, DecodesData, DecodesLast, Reencodes DEF Next

\* Whatever is erased and however each device is decoded, a call never writes
\* to an intact device, and to an erased one at most once.
THEOREM WritesErasedOnceHolds == Spec => WritesErasedOnce
<1>1. Init => DecodeInv
  BY DecodeAssumption, FieldAssumption DEF Init, DecodeInv, Garbage, Unit
<1>2. DecodeInv /\ [Next]_<<dvars, ivars>> => DecodeInv' /\ WritesGarbage
  BY DecodesInOrder
<1>3. WritesGarbage => [\A dev \in Devices :
          block'[dev] # block[dev] => erased[dev] /\ block[dev] = Garbage]_<<dvars, ivars>>
  BY DEF WritesGarbage
<1>. QED  BY <1>1, <1>2, <1>3, PTL DEF Spec, WritesErasedOnce

-----------------------------------------------------------------------------
(* What a block is made of *)

Blocks == [0..k -> Field]

LEMMA Sizes ==
    /\ k \in Nat \ {0} /\ m \in Nat \ {0} /\ Data = Index /\ Index = 0..(k - 1)
    /\ Devices = 0..(k + m - 1)
    /\ \A e \in 0..k : e \in Index \/ e = k
    /\ k \notin Index /\ k \in Devices /\ \A e \in Index : e \in 0..k /\ e \in Devices
  BY FieldAssumption, DecodeAssumption DEF Data, Index, Devices

\* The blocks V, scaled by the elements of a row and added up.
Combination(V, row) == XorOver(Data, LAMBDA c : Scale(V[c], row[c]))

LEMMA CombinationIs ==
    ASSUME NEW V \in [Index -> Blocks], NEW row \in Vectors
    PROVE  /\ \A e \in 0..k : Column(V, e) \in Vectors
           /\ Combination(V, row) = [e \in 0..k |-> Dot(row, Column(V, e))]
<1>1. \A e \in 0..k : Column(V, e) \in Vectors
  BY DEF Column, Vectors, Blocks
<1>2. ASSUME NEW e \in 0..k
      PROVE  SumOver(Data, LAMBDA c : Scale(V[c], row[c])[e]) = Dot(row, Column(V, e))
  <2> DEFINE vu == [c \in Index |-> Products[Column(V, e)[c]][row[c]]]
  <2>1. \A c \in Index : Scale(V[c], row[c])[e] = vu[c]
    BY DEF Scale, Column
  <2> HIDE DEF vu
  <2>2. \A b : {c \in Data : b \in Scale(V[c], row[c])[e]} = {c \in Index : b \in vu[c]}
    BY <2>1, Sizes
  <2>3. SumOver(Data, LAMBDA c : Scale(V[c], row[c])[e]) = Total(vu)
    BY <2>2 DEF SumOver, Total
  <2>4. Dot(Column(V, e), row) = Total(vu)
    BY <1>1, DotIs DEF vu
  <2>. QED  BY <1>1, <2>3, <2>4, DotCommutes
<1>. QED  BY <1>1, <1>2 DEF Combination, XorOver

LEMMA DotZero ==
    ASSUME NEW v \in Vectors
    PROVE  Dot(v, [c \in Index |-> Zero]) = Zero /\ Dot([c \in Index |-> Zero], v) = Zero
<1>1. [c \in Index |-> Zero] \in Vectors
  BY ZeroOne DEF Vectors
<1>2. [c \in Index |-> Products[v[c]][[e \in Index |-> Zero][c]]] = [c \in Index |-> Zero]
  BY ProductZero DEF Vectors
<1>. QED  BY <1>1, <1>2, DotIs, TotalZero, DotCommutes

\* The coordinates of a block that is encoded from the data devices.
Coordinates(row) == [e \in 0..k |-> IF e = k THEN Zero ELSE row[e]]

LEMMA UnitIs ==
    /\ \A c \in 0..k : Unit(c) \in Blocks
    /\ \A c \in Index : Unit(c) = Coordinates(Identity[c])
<1>1. \A c \in 0..k : Unit(c) \in Blocks
  BY ZeroOne DEF Unit, Blocks
<1>2. ASSUME NEW c \in Index PROVE Unit(c) = Coordinates(Identity[c])
  BY Sizes DEF Unit, Coordinates, Identity
<1>. QED  BY <1>1, <1>2

LEMMA EncodedIs ==
    ASSUME NEW row \in Vectors
    PROVE  /\ Coordinates(row) \in Blocks
           /\ Combination([c \in Index |-> Unit(c)], row) = Coordinates(row)
<1> DEFINE V == [c \in Index |-> Unit(c)]
<1>1. V \in [Index -> Blocks]
  BY UnitIs, Sizes
<1>2. Coordinates(row) \in Blocks
  BY ZeroOne, Sizes DEF Coordinates, Blocks, Vectors
<1>3. ASSUME NEW e \in 0..k PROVE Dot(row, Column(V, e)) = Coordinates(row)[e]
  <2>1. CASE e = k
    <3>1. Column(V, e) = [c \in Index |-> Zero]
      BY <2>1, Sizes DEF Column, Unit
    <3>. QED  BY <2>1, <3>1, DotZero DEF Coordinates
  <2>2. CASE e \in Index
    <3>1. Column(V, e) = Single(e, One)
      BY <2>2, Sizes DEF Column, Unit, Single
    <3>2. row[e] \in Field
      BY <2>2 DEF Vectors
    <3>. QED  BY <2>2, <3>1, <3>2, DotSingle, ProductOne, ZeroOne, Sizes DEF Coordinates
  <2>. QED  BY <2>1, <2>2, Sizes
<1> HIDE DEF V
<1>4. [e \in 0..k |-> Dot(row, Column(V, e))] = Coordinates(row)
  BY <1>3 DEF Coordinates
<1>5. Combination(V, row) = Coordinates(row)
  BY <1>1, <1>4, CombinationIs
<1>. QED  BY <1>2, <1>5 DEF V

-----------------------------------------------------------------------------
(* What each device should hold *)

\* The code, which no step changes.
CodeInv ==
    /\ matrix \in [0..m-1 -> Vectors]
    /\ \A r \in 0..m-1 : \E c \in Index : matrix[r][c] # Zero
    /\ row_k_ones => \A c \in Index : matrix[0][c] = One
    /\ erased \in [Devices -> BOOLEAN]

LEMMA CodewordIs ==
    ASSUME CodeInv
    PROVE  /\ \A dev \in Devices : Codeword(dev) \in Blocks
           /\ \A dev \in Index : Codeword(dev) = Unit(dev)
           /\ \A r \in 0..m-1 : k + r \in Devices /\ Codeword(k + r) = Coordinates(matrix[r])
<1>1. ASSUME NEW r \in 0..m-1 PROVE k + r \in Devices /\ Codeword(k + r) = Coordinates(matrix[r])
  <2>1. k + r \in Devices /\ ~(k + r < k) /\ (k + r) - k = r /\ matrix[r] \in Vectors
    BY Sizes DEF CodeInv
  <2>2. Codeword(k + r) = XorOver(Data, LAMBDA c : Scale(Unit(c), matrix[r][c]))
    <3> DEFINE Row(q) == XorOver(Data, LAMBDA c : Scale(Unit(c), matrix[q][c]))
    <3>1. Codeword(k + r) = Row((k + r) - k)
      BY <2>1 DEF Codeword
    <3> HIDE DEF Row
    <3>2. Codeword(k + r) = Row(r)
      BY <2>1, <3>1
    <3>. QED  BY <3>2 DEF Row
  <2>3. Combination([c \in Index |-> Unit(c)], matrix[r])
            = XorOver(Data, LAMBDA c : Scale(Unit(c), matrix[r][c]))
    <3>1. \A e, b : {c \in Data : b \in Scale(Unit(c), matrix[r][c])[e]}
             = {c \in Data : b \in Scale([f \in Index |-> Unit(f)][c], matrix[r][c])[e]}
      BY Sizes
    <3>. QED  BY <3>1 DEF Combination, XorOver, SumOver
  <2>. QED  BY <2>1, <2>2, <2>3, EncodedIs
<1>2. ASSUME NEW dev \in Index PROVE Codeword(dev) = Unit(dev)
  BY Sizes DEF Codeword
<1>3. ASSUME NEW dev \in Devices PROVE dev \in Index \/ \E r \in 0..m-1 : dev = k + r
  <2>1. dev \notin Index => dev - k \in 0..m-1 /\ dev = k + (dev - k)
    BY Sizes
  <2>. QED  BY <2>1
<1>4. ASSUME NEW dev \in Devices PROVE Codeword(dev) \in Blocks
  <2>1. CASE dev \in Index
    BY <1>2, <2>1, UnitIs, Sizes
  <2>2. CASE dev \notin Index
    <3>1. PICK r \in 0..m-1 : dev = k + r
      BY <1>3, <2>2
    <3>2. Codeword(k + r) = Coordinates(matrix[r]) /\ matrix[r] \in Vectors
      BY <1>1 DEF CodeInv
    <3>. QED  BY <3>1, <3>2, EncodedIs
  <2>. QED  BY <2>1, <2>2
<1>. QED  BY <1>1, <1>2, <1>4

\* A dotprod that has something to add up is a combination of its sources.
LEMMA DotprodIs ==
    ASSUME NEW dest, NEW row, NEW ids, \E c \in Index : row[c] # Zero
    PROVE  Dotprod(dest, row, ids) = Combination([c \in Index |-> block[ids[c]]], row)
<1> DEFINE A(e, b) == {c \in Data : b \in Scale(block[ids[c]], row[c])[e]}
           B(e, b) == {c \in Data :
                          b \in Scale([f \in Index |-> block[ids[f]]][c], row[c])[e]}
           Odd(S) == Cardinality(S) % 2 = 1
<1>1. Dotprod(dest, row, ids) = [e \in 0..k |-> {b \in 0..wordsize-1 : Odd(A(e, b))}]
  BY Sizes DEF Dotprod, XorOver, SumOver
<1>2. Combination([c \in Index |-> block[ids[c]]], row)
          = [e \in 0..k |-> {b \in 0..wordsize-1 : Odd(B(e, b))}]
  BY DEF Combination, XorOver, SumOver
<1>3. \A e, b : A(e, b) = B(e, b)
  BY Sizes
<1> HIDE DEF A, B, Odd
<1>4. \A e : {b \in 0..wordsize-1 : Odd(A(e, b))} = {b \in 0..wordsize-1 : Odd(B(e, b))}
  BY <1>3
<1>. QED  BY <1>1, <1>2, <1>4

-----------------------------------------------------------------------------
(* The devices that are left *)

Left == {dev \in Devices : ~erased[dev]}
Enough == Cardinality(Left) >= k

LEMMA DevicesAreFinite ==
    IsFiniteSet(Devices) /\ Cardinality(Devices) = k + m
<1> DEFINE top == k + m - 1
<1>1. 0 \in Int /\ top \in Int /\ ~(0 > top) /\ Devices = 0..top
  BY Sizes
<1>2. top - 0 + 1 = k + m
  BY Sizes
<1> HIDE DEF top
<1>3. Cardinality(0..top) = top - 0 + 1 /\ IsFiniteSet(0..top)
  BY <1>1, FS_Interval
<1>. QED  BY <1>1, <1>2, <1>3

\* When enough are left, the first k of them have numbers.
LEMMA IdsExist ==
    ASSUME Enough
    PROVE  /\ dm_ids \in [Data -> Devices]
           /\ \A c \in Data : ~erased[dm_ids[c]]
<1> DEFINE Before(x) == {e \in 0..x : ~erased[e]}
           Is(c, x) == ~erased[x] /\ Cardinality(Before(x)) = c + 1
<1>0. \A x \in Devices : IsFiniteSet(Before(x)) /\ Cardinality(Before(x)) \in Nat
  <2> SUFFICES ASSUME NEW x \in Devices PROVE IsFiniteSet(Before(x)) /\ Cardinality(Before(x)) \in Nat
    OBVIOUS
  <2>1. Before(x) \subseteq Devices
    BY Sizes
  <2>2. IsFiniteSet(Before(x))
    BY <2>1, DevicesAreFinite, FS_Subset
  <2>. QED  BY <2>2, FS_CardinalityType
<1>1. ASSUME NEW c \in Data PROVE \E x \in Devices : Is(c, x)
  <2> DEFINE S == {x \in Devices : Cardinality(Before(x)) >= c + 1}
  <2>1. k + m - 1 \in S
    <3>1. Before(k + m - 1) = Left /\ k + m - 1 \in Devices
      BY Sizes DEF Left
    <3>2. Cardinality(Left) \in Nat
      BY <1>0, <3>1
    <3>3. Cardinality(Left) >= c + 1
      BY <3>2, Sizes DEF Enough
    <3>. QED  BY <3>1, <3>3
  <2>2. PICK x \in S : \A y \in S : x <= y
    <3>1. S \in SUBSET Nat /\ S # {}
      <4>1. Devices \subseteq Nat
        BY Sizes
      <4>. QED  BY <2>1, <4>1
    <3> HIDE DEF S
    <3>. QED  BY <3>1, LeastOf
  <2>3. x \in Devices /\ Cardinality(Before(x)) >= c + 1 /\ x \in Nat /\ c \in Nat
    BY <2>2, Sizes
  <2>4. CASE x = 0
    <3>1. ~erased[0] /\ Before(0) = {0}
      <4>1. Before(0) = {} \/ (~erased[0] /\ Before(0) = {0})
        OBVIOUS
      <4>2. Cardinality({}) = 0
        BY FS_EmptySet
      <4>. QED  BY <2>3, <2>4, <4>1, <4>2
    <3>2. Cardinality({0}) = 1
      BY FS_Singleton
    <3>3. c + 1 = 1
      BY <2>3, <2>4, <3>1, <3>2
    <3>. QED  BY <2>3, <2>4, <3>1, <3>2, <3>3
  <2>5. CASE x # 0
    <3>1. x - 1 \in Devices /\ x - 1 \notin S
      BY <2>2, <2>3, <2>5, Sizes
    <3>2. Cardinality(Before(x - 1)) < c + 1
      BY <1>0, <2>3, <3>1
    <3>3. ~erased[x]
      <4>1. erased[x] => Before(x) = Before(x - 1)
        BY <2>3, <2>5
      <4>. QED  BY <1>0, <2>3, <3>1, <3>2, <4>1
    <3>4. Before(x) = Before(x - 1) \cup {x} /\ x \notin Before(x - 1)
      BY <2>3, <2>5, <3>3
    <3>5. Cardinality(Before(x)) = Cardinality(Before(x - 1)) + 1
      BY <1>0, <3>1, <3>4, FS_AddElement
    <3> HIDE DEF Before
    <3>6. Cardinality(Before(x)) = c + 1
      BY <1>0, <2>3, <3>1, <3>2, <3>5
    <3>. QED  BY <2>3, <3>3, <3>6
  <2>. QED  BY <2>4, <2>5
<1>2. \E ids \in [Data -> Devices] : \A c \in Data : Is(c, ids[c])
  <2> DEFINE ids == [c \in Data |-> CHOOSE x \in Devices : Is(c, x)]
  <2> HIDE DEF Is
  <2>1. \A c \in Data : ids[c] \in Devices /\ Is(c, ids[c])
    BY <1>1
  <2>. QED  BY <2>1
<1>3. \E ids \in [Data -> Devices] :
          /\ \A c \in Data : ~erased[ids[c]]
          /\ \A c \in Data : Cardinality({e \in 0..ids[c] : ~erased[e]}) = c + 1
  BY <1>2
<1>. QED  BY <1>3 DEF dm_ids

LEMMA SurvivorsAre ==
    ASSUME CodeInv, Enough
    PROVE  /\ Survivors \in Square
           /\ \A c \in Index : Codeword(dm_ids[c]) = Coordinates(Survivors[c])
<1>1. \A c \in Index : dm_ids[c] \in Devices
  BY IdsExist, Sizes
<1>2. ASSUME NEW c \in Index
      PROVE  /\ Survivors[c] \in Vectors
             /\ Codeword(dm_ids[c]) = Coordinates(Survivors[c])
  <2> DEFINE x == dm_ids[c]
  <2>0. x \in Devices
    BY <1>1
  <2>1. Survivors[c] = [e \in Data |-> IF x < k THEN IF x = e THEN One ELSE Zero
                                                 ELSE matrix[x - k][e]]
    BY Sizes DEF Survivors
  <2> HIDE DEF x
  <2>2. CASE x < k
    <3>1. x \in Index /\ Survivors[c] = Identity[x]
      BY <2>0, <2>1, <2>2, Sizes DEF Identity
    <3>. QED  BY <3>1, CodewordIs, UnitIs, IdentityIs, SquareRows DEF x
  <2>3. CASE ~(x < k)
    <3>1. x - k \in 0..m-1 /\ x = k + (x - k)
      BY <2>0, <2>3, Sizes
    <3>2. matrix[x - k] \in Vectors
      BY <3>1 DEF CodeInv
    <3>3. Survivors[c] = matrix[x - k]
      BY <2>1, <2>3, <3>2, Sizes DEF Vectors
    <3>4. Codeword(x) = Coordinates(matrix[x - k])
      BY <3>1, CodewordIs
    <3>. QED  BY <3>2, <3>3, <3>4 DEF x
  <2>. QED  BY <2>2, <2>3
<1>3. Survivors = [c \in Index |-> Survivors[c]]
  BY Sizes DEF Survivors
<1>. QED  BY <1>2, <1>3 DEF Square, Vectors

\* A row of the inverse recreates a data device out of the survivors.
LEMMA InverseDecodes ==
    ASSUME CodeInv, Enough, NEW a \in Square, TimesIs(a, Survivors, Identity),
           NEW dev \in Index, \A c \in Index : block[dm_ids[c]] = Codeword(dm_ids[c])
    PROVE  Dotprod(dev, a[dev], dm_ids) = Unit(dev)
<1> DEFINE V == [c \in Index |-> block[dm_ids[c]]]
<1>1. /\ Survivors \in Square
      /\ \A c \in Index : V[c] = Coordinates(Survivors[c]) /\ Survivors[c] \in Vectors
  BY SurvivorsAre, SquareRows
<1>2. V \in [Index -> Blocks]
  BY <1>1, EncodedIs
<1>3. a[dev] \in Vectors
  BY SquareRows
<1> HIDE DEF V
<1>a. \A c \in Index : \A e \in 0..k : V[c][e] = IF e = k THEN Zero ELSE Survivors[c][e]
  <2>1. ASSUME NEW row PROVE \A e \in 0..k : Coordinates(row)[e] = IF e = k THEN Zero ELSE row[e]
    BY DEF Coordinates
  <2>2. \A c \in Index : V[c] = Coordinates(Survivors[c])
    BY <1>1
  <2>. QED  BY <2>1, <2>2
<1> DEFINE R == Survivors
<1>b. \A c \in Index : \A e \in 0..k : V[c][e] = IF e = k THEN Zero ELSE R[c][e]
  BY <1>a
<1> HIDE DEF R
<1>c. \A e \in Index : Column(V, e) = Column(R, e)
  BY <1>b, Sizes DEF Column
<1>4. \A e \in Index : Column(V, e) = Column(Survivors, e)
  BY <1>c DEF R
<1>5. Column(V, k) = [c \in Index |-> Zero]
  BY <1>b, Sizes DEF Column
<1>6. \A e \in Index : Dot(a[dev], Column(V, e)) = Identity[dev][e]
  BY <1>4 DEF TimesIs
<1>7. Dot(a[dev], Column(V, k)) = Zero
  BY <1>3, <1>5, DotZero
<1>8. \E c \in Index : a[dev][c] # Zero
  <2> SUFFICES ASSUME \A c \in Index : a[dev][c] = Zero PROVE FALSE
    OBVIOUS
  <2>1. a[dev] = [c \in Index |-> Zero]
    BY <1>3 DEF Vectors
  <2>2. Dot(a[dev], Column(Survivors, dev)) = Zero
    BY <1>1, <2>1, DotZero, SquareRows
  <2>3. Identity[dev][dev] = One
    BY DEF Identity
  <2>. QED  BY <2>2, <2>3, ZeroOne DEF TimesIs
<1>9. Combination(V, a[dev]) = Unit(dev)
  <2>1. Combination(V, a[dev]) = [e \in 0..k |-> Dot(a[dev], Column(V, e))]
    BY <1>2, <1>3, CombinationIs
  <2>2. [e \in 0..k |-> Dot(a[dev], Column(V, e))] = Coordinates(Identity[dev])
    BY <1>6, <1>7, Sizes DEF Coordinates
  <2>. QED  BY <2>1, <2>2, UnitIs
<1>. QED  BY <1>8, <1>9, DotprodIs DEF V

\* Out of the data devices, a row of the matrix makes its coding device.
LEMMA MatrixEncodes ==
    ASSUME CodeInv, NEW r \in 0..m-1, \A c \in Index : block[c] = Unit(c)
    PROVE  Dotprod(k + r, matrix[r], [c \in Data |-> c]) = Codeword(k + r)
<1>1. matrix[r] \in Vectors /\ \E c \in Index : matrix[r][c] # Zero
  BY DEF CodeInv
<1>2. [c \in Index |-> block[[e \in Data |-> e][c]]] = [c \in Index |-> Unit(c)]
  BY Sizes
<1>3. Combination([c \in Index |-> Unit(c)], matrix[r]) = Codeword(k + r)
  BY <1>1, EncodedIs, CodewordIs
<1>. QED  BY <1>1, <1>2, <1>3, DotprodIs

\* The sum of the other data devices and of the parity device is the last one.
LEMMA ParityDecodes ==
    ASSUME CodeInv, row_k_ones, lastdrive \in Index, block[k] = Codeword(k),
           \A c \in Index \ {lastdrive} : block[c] = Unit(c)
    PROVE  Dotprod(lastdrive, matrix[0], OtherDevices) = Unit(lastdrive)
<1> DEFINE V == [c \in Index |-> block[OtherDevices[c]]]
           ones == [c \in Index |-> One]
<1>1. matrix[0] = ones /\ matrix[0] \in Vectors /\ 0 \in 0..m-1
  BY Sizes DEF CodeInv, Vectors
<1>2. k - 1 \in Index /\ OtherDevices[k - 1] = k
  BY Sizes DEF OtherDevices
<1>3. ASSUME NEW c \in Index, c # k - 1
      PROVE  OtherDevices[c] \in Index /\ OtherDevices[c] # lastdrive
  BY <1>3, Sizes DEF OtherDevices
<1>4. V[k - 1] = Coordinates(ones)
  <2>1. Codeword(k + 0) = Coordinates(matrix[0]) /\ k + 0 = k
    BY <1>1, CodewordIs, Sizes
  <2>. QED  BY <1>1, <1>2, <2>1
<1>5. \A c \in Index : c # k - 1 => V[c] = Unit(OtherDevices[c])
  BY <1>3
<1> HIDE DEF V
<1>a. \A c \in Index : c # k - 1 =>
          \A e \in 0..k : V[c][e] = IF e = OtherDevices[c] THEN One ELSE Zero
  <2>1. \A c \in Index, e \in 0..k : Unit(c)[e] = IF e = c THEN One ELSE Zero
    BY DEF Unit
  <2>. QED  BY <1>3, <1>5, <2>1
<1>6. V \in [Index -> Blocks]
  <2>1. \A c \in Index : V[c] \in Blocks
    <3>1. V[k - 1] \in Blocks
      BY <1>1, <1>4, EncodedIs
    <3>2. \A c \in Index : c # k - 1 => V[c] \in Blocks
      BY <1>3, <1>5, UnitIs, Sizes
    <3>. QED  BY <3>1, <3>2
  <2>. QED  BY <2>1 DEF V
<1>7. ASSUME NEW v \in Vectors PROVE Dot(ones, v) = Total(v)
  <2>1. [c \in Index |-> Products[ones[c]][v[c]]] = v
    BY ProductOne DEF Vectors
  <2>. QED  BY <1>1, <2>1, DotIs
<1>8. ASSUME NEW e \in Index, e # lastdrive PROVE Total(Column(V, e)) = Zero
  <2> DEFINE at == IF e < lastdrive THEN e ELSE e - 1
  <2>1. at \in Index /\ at # k - 1
    BY <1>8, Sizes
  <2>2. \A c \in Index : c # k - 1 => (OtherDevices[c] = e <=> c = at)
    BY <1>8, Sizes DEF OtherDevices
  <2> HIDE DEF at
  <2>3. ASSUME NEW c \in Index
        PROVE  Column(V, e)[c] = Plus(Single(at, One)[c], Single(k - 1, One)[c])
    <3>0. Plus(Zero, One) = One /\ Plus(One, Zero) = One /\ Plus(Zero, Zero) = Zero
      BY SumLaws, ZeroOne
    <3>1. CASE c = k - 1
      BY <1>2, <1>4, <2>1, <3>0, <3>1, Sizes DEF Column, Coordinates, Single
    <3>2. CASE c # k - 1
      <4>1. V[c][e] = IF c = at THEN One ELSE Zero
        BY <1>a, <2>2, <3>2, Sizes
      <4>. QED  BY <3>0, <3>2, <4>1 DEF Column, Single
    <3>. QED  BY <3>1, <3>2
  <2>4. Column(V, e) = RowPlus(Single(at, One), Single(k - 1, One))
    BY <2>3 DEF Column, RowPlus
  <2>5. Total(Column(V, e)) = Plus(One, One)
    BY <1>2, <2>1, <2>4, TotalPlus, TotalSingle, ZeroOne
  <2>. QED  BY <2>5, SumLaws, ZeroOne
<1>9. Total(Column(V, lastdrive)) = One
  <2>1. Column(V, lastdrive) = Single(k - 1, One)
    <3>1. V[k - 1][lastdrive] = One
      BY <1>4, Sizes DEF Coordinates
    <3>2. \A c \in Index : c # k - 1 => V[c][lastdrive] = Zero
      BY <1>3, <1>a, Sizes
    <3>. QED  BY <3>1, <3>2 DEF Column, Single
  <2>. QED  BY <1>2, <2>1, TotalSingle, ZeroOne
<1>10. Column(V, k) = [c \in Index |-> Zero]
  <2>1. V[k - 1][k] = Zero
    BY <1>4, Sizes DEF Coordinates
  <2>2. \A c \in Index : c # k - 1 => V[c][k] = Zero
    BY <1>3, <1>a, Sizes
  <2>. QED  BY <2>1, <2>2 DEF Column
<1>11. ASSUME NEW e \in 0..k PROVE Dot(ones, Column(V, e)) = Unit(lastdrive)[e]
  <2>1. Column(V, e) \in Vectors
    BY <1>1, <1>6, CombinationIs
  <2>2. CASE e = k
    BY <1>1, <1>7, <1>10, <2>1, <2>2, TotalZero, Sizes DEF Unit
  <2>3. CASE e = lastdrive
    BY <1>7, <1>9, <2>1, <2>3, Sizes DEF Unit
  <2>4. CASE e \in Index /\ e # lastdrive
    BY <1>7, <1>8, <2>1, <2>4, Sizes DEF Unit
  <2>. QED  BY <2>2, <2>3, <2>4, Sizes
<1>12. Combination(V, matrix[0]) = Unit(lastdrive)
  <2>1. Combination(V, matrix[0]) = [e \in 0..k |-> Dot(ones, Column(V, e))]
    <3>1. V \in [Index -> Blocks] /\ matrix[0] \in Vectors /\ matrix[0] = ones
      BY <1>1, <1>6, <1>7
    <3>2. Combination(V, matrix[0]) = [e \in 0..k |-> Dot(matrix[0], Column(V, e))]
      BY <3>1, CombinationIs, Zenon
    <3>. QED  BY <3>1, <3>2, Zenon
  <2>2. [e \in 0..k |-> Dot(ones, Column(V, e))] = Unit(lastdrive)
    BY <1>11 DEF Unit
  <2>. QED  BY <2>1, <2>2
<1>13. \E c \in Index : matrix[0][c] # Zero
  BY <1>1, <1>2, ZeroOne
<1>. QED  BY <1>12, <1>13, DotprodIs DEF V

-----------------------------------------------------------------------------
(* The inductive invariant *)

\* What a call has come to: the inversion is of the survivors, its result is
\* there when a row of it is going to be used, and a last device is left to the
\* parity device only when that one can recreate it.
CallInv ==
    /\ IInv
    /\ IF dpc = "returned" THEN ret \in {0, -1} ELSE ret = NULL
    /\ dpc \in {"invert", "decode"} =>
          /\ Enough
          /\ lastdrive # k =>
                row_k_ones /\ ~erased[k] /\ \A c \in ErasedData : c <= lastdrive
    /\ dpc = "invert" => pc # "idle" /\ orig = Survivors
    /\ dpc = "decode" /\ (\E c \in ErasedData : c < lastdrive) =>
          /\ decoding_matrix \in Square
          /\ TimesIs(decoding_matrix, Survivors, Identity)
    /\ ret = -1 =>
          \/ Cardinality({dev \in Devices : erased[dev]}) > m
          \/ Dependent(Survivors)

Written(dev) ==
    \/ dpc = "decode" /\ dev < d
    \/ dpc = "reencode" /\ dev < k + d
    \/ dpc = "returned" /\ ret = 0

\* What is recreated is right, and nothing else is touched; of the coding
\* devices the incremental library recreates nothing is said.
Target(dev) == IF erased[dev] /\ ~Written(dev) THEN Garbage ELSE Codeword(dev)
Settled(dev) == dev < k \/ ~Incremental \/ ~(erased[dev] /\ Written(dev))
HoldsInv == \A dev \in Devices : Settled(dev) => block[dev] = Target(dev)

Safe == DecodeInv /\ CodeInv /\ CallInv /\ HoldsInv

\* No step changes the code or the erasures, nor what follows from them.
Row(a, r) == XorOver(Data, LAMBDA c : Scale(Unit(c), a[r][c]))
IdsOf(e) ==
    CHOOSE ids \in [Data -> Devices] :
        /\ \A c \in Data : ~e[ids[c]]
        /\ \A c \in Data : Cardinality({x \in 0..ids[c] : ~e[x]}) = c + 1
SurvivorsOf(a, e) ==
    LET ids == IdsOf(e) IN
    [r \in Data |-> [c \in Data |->
        IF ids[r] < k THEN IF ids[r] = c THEN One ELSE Zero
                      ELSE a[ids[r] - k][c]]]

LEMMA CodeStays ==
    ASSUME UNCHANGED <<matrix, row_k_ones, erased>>
    PROVE  /\ CodeInv => CodeInv'
           /\ ErasedData' = ErasedData /\ Enough' = Enough
           /\ dm_ids' = dm_ids /\ Survivors' = Survivors
           /\ \A dev \in Devices : Codeword(dev)' = Codeword(dev)
<1>1. CodeInv => CodeInv'
  BY DEF CodeInv
<1>2. ErasedData' = ErasedData /\ Enough' = Enough
  BY DEF ErasedData, Enough, Left
<1>3. dm_ids = IdsOf(erased) /\ dm_ids' = IdsOf(erased')
  BY DEF dm_ids, IdsOf
<1>4. Survivors = SurvivorsOf(matrix, erased) /\ Survivors' = SurvivorsOf(matrix', erased')
  BY <1>3 DEF Survivors, SurvivorsOf
<1>5. ASSUME NEW dev \in Devices PROVE Codeword(dev)' = Codeword(dev)
  <2>1. CASE dev < k
    BY <2>1 DEF Codeword
  <2>2. CASE ~(dev < k)
    <3>1. Codeword(dev) = Row(matrix, dev - k)
      BY <2>2, Zenon DEF Codeword, Row
    <3>2. Codeword(dev)' = Row(matrix', dev - k)
      BY <2>2, Zenon DEF Codeword, Row, XorOver, SumOver
    <3>. QED  BY <3>1, <3>2
  <2>. QED  BY <2>1, <2>2
<1>. QED  BY <1>1, <1>2, <1>3, <1>4, <1>5

LEMMA CodeStaysInStep ==
    ASSUME [Next]_<<dvars, ivars>> PROVE UNCHANGED <<matrix, row_k_ones, erased>>
  BY DEF Next, TooMany, Begin, Inverting, InvertReturns, DecodeData, DecodeLast,
         Reencode, Return, dvars

\* Nothing is written, or x is.
LEMMA HoldsKept ==
    ASSUME UNCHANGED <<matrix, row_k_ones, erased, block>>, HoldsInv,
           \A dev \in Devices : erased[dev] => (Written(dev)' <=> Written(dev))
    PROVE  HoldsInv'
<1>1. \A dev \in Devices : Codeword(dev)' = Codeword(dev)
  BY CodeStays
<1>2. Garbage' = Garbage
  BY DEF Garbage, Unit
<1>. QED  BY <1>1, <1>2 DEF HoldsInv, Target, Settled

LEMMA HoldsWritten ==
    ASSUME UNCHANGED <<matrix, row_k_ones, erased>>, HoldsInv,
           NEW x \in Devices, erased[x], Written(x)',
           (x >= k /\ Incremental) \/ block'[x] = Codeword(x),
           \A dev \in Devices \ {x} :
              /\ block'[dev] = block[dev]
              /\ erased[dev] => (Written(dev)' <=> Written(dev))
    PROVE  HoldsInv'
<1>1. \A dev \in Devices : Codeword(dev)' = Codeword(dev)
  BY CodeStays
<1>2. Garbage' = Garbage
  BY DEF Garbage, Unit
<1>3. ~(x < k /\ x >= k)
  BY Sizes
<1>4. Settled(x)' => block'[x] = Target(x)'
  BY <1>1, <1>3 DEF Settled, Target
<1>5. ASSUME NEW dev \in Devices \ {x}, Settled(dev)' PROVE block'[dev] = Target(dev)'
  <2>1. Settled(dev)
    BY <1>5 DEF Settled
  <2>2. block[dev] = Target(dev)
    BY <2>1 DEF HoldsInv
  <2>3. Target(dev)' = Target(dev)
    BY <1>1, <1>2 DEF Target
  <2>. QED  BY <2>2, <2>3
<1>. QED  BY <1>4, <1>5 DEF HoldsInv

LEMMA SafeAtInit ==
    ASSUME Init PROVE Safe
<1>0. NULL \notin {0, -1}
  BY DecodeAssumption
<1>1. DecodeInv
  BY DecodeAssumption, FieldAssumption DEF Init, DecodeInv, Garbage, Unit
<1>2. CodeInv
  BY DecodeAssumption, Sizes DEF Init, CodeInv, Vectors
<1>3. CallInv
  BY <1>0 DEF Init, IInit, CallInv, IInv
<1>4. HoldsInv
  BY DEF Init, HoldsInv, Target, Written
<1>. QED  BY <1>1, <1>2, <1>3, <1>4 DEF Safe

LEMMA SafeTooMany ==
    ASSUME Safe, TooMany PROVE CallInv' /\ HoldsInv'
<1>1. /\ dpc = "begin" /\ dpc' = "returned" /\ ret' = -1
      /\ UNCHANGED <<matrix, row_k_ones, erased, block, ivars>>
      /\ ~Enough /\ ret = NULL /\ IInv
  <2>1. ~Enough
    <3>1. Cardinality(Left) < k /\ Cardinality(Left) \in Nat
      <4>1. Left \subseteq Devices
        BY DEF Left
      <4>2. Cardinality(Left) \in Nat
        BY <4>1, DevicesAreFinite, FS_Subset, FS_CardinalityType
      <4>. QED  BY <4>2 DEF TooMany, Left
    <3>. QED  BY <3>1, Sizes DEF Enough
  <2>. QED  BY <2>1 DEF TooMany, Safe, CallInv
<1>2. IInv'
  BY <1>1, NoStepKeeps
<1>3. Cardinality({dev \in Devices : erased[dev]}) > m
  <2> DEFINE Gone == {dev \in Devices : erased[dev]}
  <2>1. Gone = Devices \ Left /\ Devices \cap Left = Left
    BY DEF Left
  <2>2. Cardinality(Gone) = Cardinality(Devices) - Cardinality(Left)
    <3>1. IsFiniteSet(Devices)
      BY DevicesAreFinite
    <3>2. Cardinality(Devices \ Left) = Cardinality(Devices) - Cardinality(Devices \cap Left)
      BY <3>1, FS_Difference, Zenon
    <3>. QED  BY <2>1, <3>2, Zenon
  <2>3. Cardinality(Left) \in Nat
    BY <2>1, DevicesAreFinite, FS_Intersection, FS_Subset, FS_CardinalityType DEF Left
  <2> HIDE DEF Gone
  <2>4. Cardinality(Left) < k
    BY <1>1, <2>3, Sizes DEF Enough
  <2>5. Cardinality(Gone) > m
    BY <2>2, <2>3, <2>4, DevicesAreFinite, Sizes
  <2>. QED  BY <2>5 DEF Gone
<1>4. CallInv'
  BY <1>1, <1>2, <1>3 DEF CallInv
<1>5. HoldsInv'
  <2>1. \A dev \in Devices : Written(dev)' <=> Written(dev)
    BY <1>1 DEF Written
  <2>. QED  BY <1>1, <2>1, HoldsKept DEF Safe
<1>. QED  BY <1>4, <1>5

\* The inversion is left out only when no data device in front of the last one
\* is erased.
LEMMA SafeBegin ==
    ASSUME Safe, Begin PROVE CallInv' /\ HoldsInv'
<1>1. /\ dpc = "begin" /\ dpc' \in {"invert", "decode"} /\ d = 0
      /\ UNCHANGED <<matrix, row_k_ones, erased, block, d, ret>>
      /\ ret = NULL /\ IInv
      /\ edd' = Cardinality(ErasedData)
  BY DEF Begin, Safe, CallInv, DecodeInv
<1>2. Enough
  BY DEF Begin, Enough, Left
<1>3. ErasedData \in SUBSET Nat /\ \A c \in ErasedData : c \in Index
  BY Sizes DEF ErasedData
<1>4. IF UseParity /\ ErasedData # {}
      THEN lastdrive' \in ErasedData /\ \A e \in ErasedData : e <= lastdrive'
      ELSE lastdrive' = k
  <2>1. CASE UseParity /\ ErasedData # {}
    <3>1. lastdrive' = CHOOSE c \in ErasedData : \A e \in ErasedData : e <= c
      BY <2>1 DEF Begin
    <3>2. k \in Nat /\ ErasedData \in SUBSET (0..(k - 1))
      BY Sizes DEF ErasedData
    <3>. QED  BY <2>1, <3>1, <3>2, Sizes, GreatestOf
  <2>2. CASE ~(UseParity /\ ErasedData # {})
    BY <2>2 DEF Begin
  <2>. QED  BY <2>1, <2>2
<1>5. lastdrive' # k => row_k_ones /\ ~erased[k] /\ \A c \in ErasedData : c <= lastdrive'
  BY <1>4 DEF UseParity
<1>6. ErasedData' = ErasedData /\ Enough' = Enough /\ Survivors' = Survivors
  BY <1>1, CodeStays
<1>7. IInv' /\ (dpc' = "invert" => pc' # "idle" /\ orig' = Survivors)
  <2>1. CASE edd' > 1 \/ (edd' > 0 /\ ~UseParity)
    <3>1. Call(Survivors)
      BY <2>1 DEF Begin
    <3>2. Survivors \in Square
      BY <1>2, SurvivorsAre DEF Safe
    <3>3. pc' # "idle" /\ orig' = Survivors
      BY <3>1 DEF Call
    <3>. QED  BY <3>1, <3>2, <3>3, CallKeeps
  <2>2. CASE ~(edd' > 1 \/ (edd' > 0 /\ ~UseParity))
    <3>1. UNCHANGED ivars /\ dpc' = "decode"
      BY <2>2 DEF Begin
    <3>. QED  BY <1>1, <3>1, NoStepKeeps
  <2>. QED  BY <2>1, <2>2
<1>8. dpc' = "decode" => ~\E c \in ErasedData : c < lastdrive'
  <2> SUFFICES ASSUME dpc' = "decode", NEW c \in ErasedData, c < lastdrive' PROVE FALSE
    OBVIOUS
  <2>1. ~(edd' > 1 \/ (edd' > 0 /\ ~UseParity))
    BY DEF Begin
  <2>2. IsFiniteSet(ErasedData)
    <3>1. ErasedData \subseteq Devices
      BY Sizes DEF ErasedData
    <3>. QED  BY <3>1, DevicesAreFinite, FS_Subset
  <2>3. edd' \in Nat /\ edd' # 0
    BY <1>1, <2>2, FS_CardinalityType, FS_EmptySet
  <2>4. UseParity /\ edd' = 1
    BY <2>1, <2>3
  <2>5. PICK x : ErasedData = {x}
    BY <1>1, <2>2, <2>4, FS_Singleton
  <2>6. lastdrive' = c
    BY <1>4, <2>4, <2>5
  <2>. QED  BY <1>3, <2>6
<1>9. CallInv'
  <2>1. IF dpc' = "returned" THEN ret' \in {0, -1} ELSE ret' = NULL
    BY <1>1
  <2>2. ret' # -1
    BY <1>1, DecodeAssumption
  <2>. QED  BY <1>1, <1>2, <1>5, <1>6, <1>7, <1>8, <2>1, <2>2 DEF CallInv
<1>10. HoldsInv'
  <2>1. \A dev \in Devices : Written(dev)' <=> Written(dev)
    BY <1>1, Sizes DEF Written
  <2>. QED  BY <1>1, <2>1, HoldsKept DEF Safe
<1>. QED  BY <1>9, <1>10

LEMMA SafeInverting ==
    ASSUME Safe, Inverting PROVE CallInv' /\ HoldsInv'
<1>1. /\ dpc = "invert" /\ IStep
      /\ UNCHANGED <<matrix, row_k_ones, erased, block, edd, lastdrive,
                     decoding_matrix, d, dpc, ret>>
  BY DEF Inverting, dvars
<1>2. IInv' /\ pc' # "idle" /\ orig' = orig
  <2>1. IInv'
    BY <1>1, StepKeeps DEF Safe, CallInv
  <2>2. pc # "idle"
    BY <1>1 DEF Safe, CallInv
  <2>3. pc' # "idle" /\ orig' = orig
    BY <1>1, <2>2 DEF IStep, Pivot, Singular, Below, NextPivot, GoBack, Above, PreviousPivot
  <2>. QED  BY <2>1, <2>3
<1>3. ErasedData' = ErasedData /\ Enough' = Enough /\ Survivors' = Survivors
  BY <1>1, CodeStays
<1>4. ret' # -1
  BY <1>1, DecodeAssumption DEF Safe, CallInv
<1>5. CallInv'
  BY <1>1, <1>2, <1>3, <1>4 DEF CallInv, Safe
<1>6. HoldsInv'
  <2>1. \A dev \in Devices : Written(dev)' <=> Written(dev)
    BY <1>1 DEF Written
  <2>. QED  BY <1>1, <2>1, HoldsKept DEF Safe
<1>. QED  BY <1>5, <1>6

\* -1 when the survivors have no inverse; their inverse otherwise.
LEMMA SafeInvertReturns ==
    ASSUME Safe, InvertReturns PROVE CallInv' /\ HoldsInv'
<1>1. /\ dpc = "invert" /\ dpc' \in {"decode", "returned"}
      /\ UNCHANGED <<matrix, row_k_ones, erased, block, edd, lastdrive, d, ivars>>
      /\ IInv /\ orig = Survivors /\ pc # "idle" /\ ret = NULL /\ d = 0
      /\ Enough
      /\ lastdrive # k =>
            row_k_ones /\ ~erased[k] /\ \A c \in ErasedData : c <= lastdrive
  BY DEF InvertReturns, Safe, CallInv, DecodeInv
<1>2. IInv'
  BY <1>1, NoStepKeeps
<1>3. ErasedData' = ErasedData /\ Enough' = Enough /\ Survivors' = Survivors
  BY <1>1, CodeStays
<1>4. CASE pc = "singular"
  <2>1. dpc' = "returned" /\ ret' = -1
    BY <1>4 DEF InvertReturns
  <2>2. Dependent(Survivors)
    BY <1>1, <1>4, InversionIsRight DEF InvertsOrReports
  <2>3. Dependent(Survivors)'
    BY <1>3, <2>2 DEF Dependent
  <2>4. CallInv'
    BY <1>1, <1>2, <2>1, <2>3 DEF CallInv
  <2>5. \A dev \in Devices : Written(dev)' <=> Written(dev)
    BY <1>1, <2>1 DEF Written
  <2>. QED  BY <1>1, <2>4, <2>5, HoldsKept DEF Safe
<1>5. CASE pc # "singular"
  <2>1. pc = "done" /\ decoding_matrix' = inv /\ dpc' = "decode" /\ ret' = NULL
    BY <1>1, <1>5 DEF InvertReturns
  <2>2. inv \in Square /\ TimesIs(inv, Survivors, Identity)
    BY <1>1, <2>1 DEF IInv
  <2>3. decoding_matrix' \in Square /\ TimesIs(decoding_matrix', Survivors', Identity)
    BY <1>3, <2>1, <2>2 DEF TimesIs
  <2>4. ret' # -1
    BY <2>1, DecodeAssumption
  <2>5. CallInv'
    BY <1>1, <1>2, <1>3, <2>1, <2>3, <2>4 DEF CallInv, TimesIs
  <2>6. \A dev \in Devices : Written(dev)' <=> Written(dev)
    BY <1>1, <2>1, Sizes DEF Written
  <2>. QED  BY <1>1, <2>5, <2>6, HoldsKept DEF Safe
<1>. QED  BY <1>4, <1>5

\* Until a device is recreated, the devices that are left hold their codewords.
LEMMA LeftHold ==
    ASSUME HoldsInv PROVE \A dev \in Left : block[dev] = Codeword(dev)
  BY DEF HoldsInv, Settled, Target, Left

LEMMA SafeDecodeData ==
    ASSUME Safe, DecodeData PROVE CallInv' /\ HoldsInv'
<1>1. /\ dpc = "decode" /\ d < lastdrive /\ d' = d + 1 /\ d \in Nat
      /\ UNCHANGED <<matrix, row_k_ones, erased, lastdrive, decoding_matrix, dpc, ret, ivars>>
      /\ IInv /\ Enough /\ ret = NULL
      /\ block = [dev \in Devices |-> block[dev]]
      /\ lastdrive = k \/ lastdrive \in ErasedData
  BY DEF DecodeData, Safe, CallInv, DecodeInv
<1>2. d \in Index /\ d \in Devices /\ d < k
  BY <1>1, Sizes DEF ErasedData
<1>3. ErasedData' = ErasedData /\ Enough' = Enough /\ Survivors' = Survivors
  BY <1>1, CodeStays
<1>4. IInv' /\ ret' # -1
  BY <1>1, NoStepKeeps, DecodeAssumption
<1>5. CallInv'
  BY <1>1, <1>3, <1>4 DEF CallInv, Safe, TimesIs
<1>6. CASE erased[d]
  <2>1. block' = [block EXCEPT ![d] = Dotprod(d, decoding_matrix[d], dm_ids)]
    BY <1>6 DEF DecodeData
  <2>2. decoding_matrix \in Square /\ TimesIs(decoding_matrix, Survivors, Identity)
    <3>1. d \in ErasedData
      BY <1>2, <1>6, Sizes DEF ErasedData
    <3>. QED  BY <1>1, <3>1 DEF Safe, CallInv
  <2>3. \A c \in Index : block[dm_ids[c]] = Codeword(dm_ids[c])
    <3>1. \A c \in Index : dm_ids[c] \in Left
      BY <1>1, IdsExist, Sizes DEF Left
    <3>. QED  BY <3>1, LeftHold DEF Safe
  <2>4. Dotprod(d, decoding_matrix[d], dm_ids) = Unit(d)
    BY <1>1, <1>2, <2>2, <2>3, InverseDecodes DEF Safe
  <2>5. block'[d] = Codeword(d)
    BY <1>1, <1>2, <2>1, <2>4, CodewordIs DEF Safe
  <2>6. \A dev \in Devices \ {d} :
            block'[dev] = block[dev] /\ (Written(dev)' <=> Written(dev))
    <3>1. \A dev \in Devices \ {d} : block'[dev] = block[dev]
      BY <1>1, <2>1
    <3>2. \A dev \in Devices \ {d} : dev < d + 1 <=> dev < d
      BY <1>2, Sizes
    <3>3. \A dev : (Written(dev) <=> dev < d) /\ (Written(dev)' <=> dev < d + 1)
      BY <1>1 DEF Written
    <3>. QED  BY <3>1, <3>2, <3>3
  <2>7. PICK x \in Devices : x = d
    BY <1>2
  <2>8. Written(x)'
    BY <1>1, <1>2, <2>7, Sizes DEF Written
  <2>9. HoldsInv'
    BY <1>1, <1>6, <2>5, <2>6, <2>7, <2>8, HoldsWritten DEF Safe
  <2>. QED  BY <1>5, <2>9
<1>7. CASE ~erased[d]
  <2>1. UNCHANGED block
    BY <1>7 DEF DecodeData
  <2>2. \A dev \in Devices : erased[dev] => (Written(dev)' <=> Written(dev))
    <3>1. \A dev \in Devices \ {d} : dev < d + 1 <=> dev < d
      BY <1>2, Sizes
    <3>2. \A dev : (Written(dev) <=> dev < d) /\ (Written(dev)' <=> dev < d + 1)
      BY <1>1 DEF Written
    <3>. QED  BY <1>7, <3>1, <3>2
  <2>. QED  BY <1>1, <1>5, <2>1, <2>2, HoldsKept DEF Safe
<1>. QED  BY <1>6, <1>7

LEMMA SafeDecodeLast ==
    ASSUME Safe, DecodeLast PROVE CallInv' /\ HoldsInv'
<1>1. /\ dpc = "decode" /\ ~(edd > 0 /\ d < lastdrive) /\ d' = 0 /\ dpc' = "reencode"
      /\ UNCHANGED <<matrix, row_k_ones, erased, edd, lastdrive, decoding_matrix, ret, ivars>>
      /\ IInv /\ Enough /\ ret = NULL /\ d \in Nat /\ d <= lastdrive
      /\ block = [dev \in Devices |-> block[dev]]
      /\ lastdrive = k \/ lastdrive \in ErasedData
      /\ edd = Cardinality(LeftFrom(d))
      /\ lastdrive # k =>
            row_k_ones /\ ~erased[k] /\ \A c \in ErasedData : c <= lastdrive
  BY DEF DecodeLast, Safe, CallInv, DecodeInv
<1>2. /\ \A c \in ErasedData : c \in Index /\ c \in Nat /\ c < k /\ c \in Devices
      /\ k \in Nat /\ k + 0 = k
      /\ \A dev \in Devices : dev \in Nat /\ (erased[dev] /\ dev < k => dev \in ErasedData)
  BY Sizes DEF ErasedData
<1>3. CallInv'
  <2>1. IInv' /\ ret' # -1
    BY <1>1, NoStepKeeps, DecodeAssumption
  <2>. QED  BY <1>1, <2>1 DEF CallInv
<1>4. \A dev : (Written(dev) <=> dev < d) /\ (Written(dev)' <=> dev < k)
  BY <1>1, <1>2 DEF Written
<1>5. CASE edd > 0
  <2>1. lastdrive \in ErasedData /\ d = lastdrive
    <3>1. d = lastdrive
      BY <1>1, <1>2, <1>5
    <3>2. LeftFrom(d) # {}
      BY <1>1, <1>5, FS_EmptySet
    <3>3. lastdrive # k
      BY <1>2, <3>1, <3>2 DEF LeftFrom, ErasedData
    <3>. QED  BY <1>1, <3>1, <3>3
  <2>2. /\ lastdrive \in Index /\ lastdrive # k /\ lastdrive < k /\ lastdrive \in Devices
        /\ erased[lastdrive] /\ lastdrive \in Nat
    BY <1>2, <2>1, Sizes DEF ErasedData
  <2>3. block[k] = Codeword(k)
    <3>1. k \in Left
      BY <1>1, <2>2, Sizes DEF Left
    <3>. QED  BY <3>1, LeftHold DEF Safe
  <2>4. \A c \in Index \ {lastdrive} : block[c] = Unit(c)
    <3> SUFFICES ASSUME NEW c \in Index \ {lastdrive} PROVE block[c] = Unit(c)
      OBVIOUS
    <3>1. erased[c] => Written(c)
      BY <1>1, <1>2, <1>4, <2>1, <2>2, Sizes DEF ErasedData
    <3>2. c \in Devices /\ c < k
      BY Sizes
    <3>3. block[c] = Codeword(c)
      BY <3>1, <3>2 DEF Safe, HoldsInv, Settled, Target
    <3>. QED  BY <3>3, CodewordIs DEF Safe
  <2>5. block' = [block EXCEPT ![lastdrive] = Dotprod(lastdrive, matrix[0], OtherDevices)]
    BY <1>5 DEF DecodeLast
  <2>6. Dotprod(lastdrive, matrix[0], OtherDevices) = Unit(lastdrive)
    BY <1>1, <2>2, <2>3, <2>4, ParityDecodes DEF Safe
  <2>7. block'[lastdrive] = Codeword(lastdrive)
    BY <1>1, <2>2, <2>5, <2>6, CodewordIs DEF Safe
  <2>8. PICK x \in Devices : x = lastdrive
    BY <2>2
  <2>9. Written(x)'
    BY <1>4, <2>2, <2>8
  <2>10. \A dev \in Devices \ {lastdrive} : block'[dev] = block[dev]
    BY <1>1, <2>5
  <2>11. \A dev \in Devices \ {lastdrive} : erased[dev] => (Written(dev)' <=> Written(dev))
    BY <1>1, <1>2, <1>4, <2>1, <2>2
  <2>12. HoldsInv'
    BY <1>1, <2>2, <2>7, <2>8, <2>9, <2>10, <2>11, HoldsWritten DEF Safe
  <2>. QED  BY <1>3, <2>12
<1>6. CASE ~(edd > 0)
  <2>1. UNCHANGED block
    BY <1>6 DEF DecodeLast
  <2>2. LeftFrom(d) = {}
    <3>1. edd = 0
      BY <1>1, <1>6, LeftIsFinite
    <3>2. IsFiniteSet(LeftFrom(d))
      BY LeftIsFinite
    <3>. QED  BY <1>1, <3>1, <3>2, FS_EmptySet
  <2>3. \A c \in ErasedData : c < d
    BY <1>1, <1>2, <2>2 DEF LeftFrom, ErasedData
  <2>4. d <= k
    BY <1>1, <1>2
  <2>5. \A dev \in Devices : erased[dev] => (Written(dev)' <=> Written(dev))
    BY <1>1, <1>2, <1>4, <2>3, <2>4
  <2>. QED  BY <1>1, <1>3, <2>1, <2>5, HoldsKept DEF Safe
<1>. QED  BY <1>5, <1>6

\* A coding device is recreated from data devices that are all as they were.
LEMMA SafeReencode ==
    ASSUME Safe, Reencode PROVE CallInv' /\ HoldsInv'
<1>1. /\ dpc = "reencode" /\ d < m /\ d' = d + 1 /\ d \in Nat
      /\ UNCHANGED <<matrix, row_k_ones, erased, edd, lastdrive, decoding_matrix,
                     dpc, ret, ivars>>
      /\ IInv /\ ret = NULL
      /\ block = [dev \in Devices |-> block[dev]]
  BY DEF Reencode, Safe, CallInv, DecodeInv
<1>2. CallInv'
  <2>1. IInv' /\ ret' # -1
    BY <1>1, NoStepKeeps, DecodeAssumption
  <2>. QED  BY <1>1, <2>1 DEF CallInv
<1>3. PICK x \in Devices : x = k + d
  BY <1>1, Sizes
<1>4. \A dev : (Written(dev) <=> dev < k + d) /\ (Written(dev)' <=> dev < k + (d + 1))
  BY <1>1 DEF Written
<1>5. \A dev \in Devices \ {x} : Written(dev)' <=> Written(dev)
  <2>1. \A dev \in Devices \ {x} : dev < k + d <=> dev < k + (d + 1)
    BY <1>1, <1>3, Sizes
  <2>. QED  BY <1>4, <2>1
<1>6. Written(x)'
  BY <1>1, <1>3, <1>4, Sizes
<1>7. CASE erased[k + d]
  <2>1. block' = [block EXCEPT ![x] = Encoded(d)]
    BY <1>3, <1>7 DEF Reencode
  <2>2. \A dev \in Devices \ {x} : block'[dev] = block[dev]
    BY <1>1, <2>1
  <2>3. CASE Incremental
    <3>1. x >= k
      BY <1>1, <1>3, Sizes
    <3>. QED  BY <1>1, <1>2, <1>3, <1>5, <1>6, <1>7, <2>2, <2>3, <3>1, HoldsWritten DEF Safe
  <2>4. CASE ~Incremental
    <3>1. Encoded(d) = Dotprod(k + d, matrix[d], [c \in Data |-> c])
      BY <2>4 DEF Encoded
    <3>2. \A c \in Index : block[c] = Unit(c)
      <4> SUFFICES ASSUME NEW c \in Index PROVE block[c] = Unit(c)
        OBVIOUS
      <4>1. c \in Devices /\ c < k /\ c < k + d
        BY <1>1, Sizes
      <4>2. block[c] = Codeword(c)
        BY <1>4, <4>1 DEF Safe, HoldsInv, Settled, Target
      <4>. QED  BY <4>2, CodewordIs DEF Safe
    <3>3. Encoded(d) = Codeword(k + d)
      <4>1. d \in 0..m-1
        BY <1>1, Sizes
      <4>. QED  BY <3>1, <3>2, <4>1, MatrixEncodes DEF Safe
    <3>4. block'[x] = Codeword(x)
      BY <1>1, <1>3, <2>1, <3>3
    <3>5. HoldsInv'
      BY <1>1, <1>3, <1>5, <1>6, <1>7, <2>2, <3>4, HoldsWritten DEF Safe
    <3>. QED  BY <1>2, <3>5
  <2>. QED  BY <2>3, <2>4
<1>8. CASE ~erased[k + d]
  <2>1. UNCHANGED block
    BY <1>8 DEF Reencode
  <2>2. \A dev \in Devices : erased[dev] => (Written(dev)' <=> Written(dev))
    BY <1>3, <1>5, <1>8
  <2>. QED  BY <1>1, <1>2, <2>1, <2>2, HoldsKept DEF Safe
<1>. QED  BY <1>7, <1>8

LEMMA SafeReturn ==
    ASSUME Safe, Return PROVE CallInv' /\ HoldsInv'
<1>1. /\ dpc = "reencode" /\ d = m /\ dpc' = "returned" /\ ret' = 0
      /\ UNCHANGED <<matrix, row_k_ones, erased, block, ivars>> /\ IInv
  BY DEF Return, Safe, CallInv
<1>2. CallInv'
  <2>1. IInv' /\ ret' # -1
    BY <1>1, NoStepKeeps
  <2>. QED  BY <1>1, <2>1 DEF CallInv
<1>3. \A dev \in Devices : Written(dev)' /\ Written(dev)
  BY <1>1, Sizes DEF Written
<1>. QED  BY <1>1, <1>2, <1>3, HoldsKept DEF Safe

LEMMA SafeStutter ==
    ASSUME Safe, UNCHANGED <<dvars, ivars>> PROVE CallInv' /\ HoldsInv'
<1>1. /\ UNCHANGED <<matrix, row_k_ones, erased, block, edd, lastdrive, decoding_matrix,
                     d, dpc, ret, ivars>>
      /\ UNCHANGED <<mat, inv, i, j, pc, orig>>
  BY DEF dvars, ivars
<1>2. IInv'
  BY <1>1, NoStepKeeps DEF Safe, CallInv
<1>3. ErasedData' = ErasedData /\ Enough' = Enough /\ Survivors' = Survivors
  BY <1>1, CodeStays
<1>4. Dependent(Survivors)' <=> Dependent(Survivors)
  BY <1>3 DEF Dependent
<1>5. CallInv'
  BY <1>1, <1>2, <1>3, <1>4 DEF CallInv, Safe, TimesIs
<1>6. \A dev \in Devices : Written(dev)' <=> Written(dev)
  BY <1>1 DEF Written
<1>. QED  BY <1>1, <1>5, <1>6, HoldsKept DEF Safe

LEMMA SafeAlways == Spec => []Safe
<1>1. Safe /\ [Next]_<<dvars, ivars>> => Safe'
  <2> SUFFICES ASSUME Safe, [Next]_<<dvars, ivars>> PROVE Safe'
    OBVIOUS
  <2>1. DecodeInv'
    BY DecodesInOrder DEF Safe
  <2>2. CodeInv'
    BY CodeStaysInStep, CodeStays DEF Safe
  <2>3. CallInv' /\ HoldsInv'
    BY SafeTooMany, SafeBegin, SafeInverting, SafeInvertReturns, SafeDecodeData,
       SafeDecodeLast, SafeReencode, SafeReturn, SafeStutter DEF Next
  <2>. QED  BY <2>1, <2>2, <2>3 DEF Safe
<1>. QED  BY <1>1, SafeAtInit, PTL DEF Spec

-----------------------------------------------------------------------------
(* Theorems *)

\* Whatever matrix the survivors make up, jerasure_invert_matrix says 0 with
\* its inverse or -1 for a matrix that has none, and the row operations up to
\* there are always those that made mat of the original.
THEOREM InvertsOrReportsHolds == Spec => []InvertsOrReports
<1>1. Safe => InvertsOrReports
  BY InversionIsRight DEF Safe, CallInv
<1>. QED  BY <1>1, SafeAlways, PTL

\* However many data devices are lost, wherever decoding stops and whether the
\* last one is left to the parity device: after 0 each data device holds its
\* data, and -1 comes only for losses that cannot be recreated, with no device
\* touched.
THEOREM DecodesOrRefusesHolds == Spec => []DecodesOrRefuses
<1>1. Safe => DecodesOrRefuses
  <2> SUFFICES ASSUME Safe PROVE DecodesOrRefuses
    OBVIOUS
  <2>0. \A dev \in Devices : ret = 0 \/ ret = -1 => dpc = "returned"
    BY DecodeAssumption DEF Safe, CallInv
  <2>1. ASSUME ret = 0, NEW c \in Data PROVE block[c] = Unit(c)
    <3>1. c \in Devices /\ c < k /\ c \in Index
      BY Sizes
    <3>2. block[c] = Codeword(c)
      BY <2>0, <2>1, <3>1 DEF Safe, HoldsInv, Settled, Target, Written
    <3>. QED  BY <3>1, <3>2, CodewordIs DEF Safe
  <2>2. ASSUME ret = -1, NEW dev \in Devices
        PROVE  block[dev] = IF erased[dev] THEN Garbage ELSE Codeword(dev)
    <3>1. ~Written(dev)
      BY <2>0, <2>2 DEF Written
    <3>. QED  BY <3>1 DEF Safe, HoldsInv, Settled, Target
  <2>. QED  BY <2>1, <2>2 DEF DecodesOrRefuses, DataRecreated, RefusesCleanly, Safe, CallInv
<1>. QED  BY <1>1, SafeAlways, PTL

\* jerasure.c re-encodes the coding devices too, whichever are erased; the copy
\* in jerasure_incr.c does not, see the run bug_reencode.
THEOREM CodingRecreatedHolds ==
    ASSUME ~Incremental PROVE Spec => []CodingRecreated
<1>1. Safe => CodingRecreated
  <2> SUFFICES ASSUME Safe, ret = 0, NEW dev \in k..k+m-1 PROVE block[dev] = Codeword(dev)
    BY DEF CodingRecreated
  <2>1. dev \in Devices
    BY Sizes
  <2>2. Written(dev)
    BY DecodeAssumption DEF Safe, CallInv, Written
  <2>. QED  BY <2>1, <2>2 DEF Safe, HoldsInv, Settled, Target
<1>. QED  BY <1>1, SafeAlways, PTL
=============================================================================
