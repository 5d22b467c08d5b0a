------------------------- MODULE CodingMatrix_proofs -------------------------
(***************************************************************************)
(* Theorems about the matrices an encoder begins with, for every number of *)
(* devices: a pivot is always left where reed_sol.c would exit, and every  *)
(* square submatrix of the coding rows is regular, from the Vandermonde    *)
(* and the Cauchy matrices on and after every row and column scaled.       *)
(*                                                                         *)
(* The first half is about matrices over any field of words.  That a       *)
(* matrix can be inverted is stated by what its rows do to vectors         *)
(* (Determines, Regular): only the vector of zeros is made zero by as many *)
(* rows as it has elements.  It holds of Vandermonde matrices, since a     *)
(* polynomial has no more roots than its degree, of Cauchy matrices and of *)
(* two rows of which one is all ones; scaling, adding and swapping keep    *)
(* it, and it gives determinants that are not zero.                        *)
(*                                                                         *)
(* The second half is about the steps of the model.                        *)
(***************************************************************************)
EXTENDS CodingMatrix, CommonLemmas

-----------------------------------------------------------------------------
(* Words are a vector space over the field of words with a table of        *)
(* products, where 1 + 1 = 0.                                              *)

\* F is a set of words with Plus, T the products of its elements.
IsField(F, T) ==
    /\ Zero \in F /\ One \in F /\ One # Zero
    /\ \A x, y \in F : Plus(x, y) \in F /\ T[x][y] \in F /\ T[x][y] = T[y][x]
    /\ \A x \in F : T[x][Zero] = Zero /\ T[x][One] = x
    /\ \A x, y, z \in F : /\ T[x][T[y][z]] = T[T[x][y]][z]
                          /\ T[x][Plus(y, z)] = Plus(T[x][y], T[x][z])
    /\ \A x \in F : x # Zero => \E y \in F : T[x][y] = One

LEMMA WordsAreAField ==
    ASSUME NEW width \in 1..8, HasInverses(width)
    PROVE  IsField(Elements(width), Mul(width))
<1> DEFINE F == Elements(width)   T == Mul(width)
<1>1. Zero \in F /\ One \in F /\ One # Zero
  BY ZeroAndOne
<1>2. \A x, y \in F : Plus(x, y) \in F /\ T[x][y] \in F /\ T[x][y] = T[y][x]
  BY PlusLaws, ProductsAre, TimesCommutes
<1>3. \A x \in F : T[x][Zero] = Zero /\ T[x][One] = x
  BY TimesZero, TimesOne
<1>4. ASSUME NEW x \in F, NEW y \in F, NEW z \in F
      PROVE  /\ T[x][T[y][z]] = T[T[x][y]][z]
             /\ T[x][Plus(y, z)] = Plus(T[x][y], T[x][z])
  <2>1. T[x][T[y][z]] = T[T[x][y]][z]
    BY TimesAssociates
  <2>2. T[x][Plus(y, z)] = Plus(T[x][y], T[x][z])
    BY TimesLinear
  <2>. QED  BY <2>1, <2>2
<1>5. \A x \in F : x # Zero => \E y \in F : T[x][y] = One
  BY InversesInvert
<1> HIDE DEF F, T
<1>6. IsField(F, T)
  BY <1>1, <1>2, <1>3, <1>4, <1>5 DEF IsField
<1>. QED  BY <1>6 DEF F, T

\* What Plus does to any words.
LEMMA Sums ==
    ASSUME NEW x, NEW y, NEW z
    PROVE  /\ Plus(x, y) = Plus(y, x)
           /\ Plus(Plus(x, y), z) = Plus(x, Plus(y, z))
           /\ Plus(x, Zero) = x /\ Plus(Zero, x) = x /\ Plus(x, x) = Zero
           /\ Plus(x, y) = Zero <=> x = y
  BY DEF Plus, Zero

LEMMA FourSums ==
    ASSUME NEW a, NEW b, NEW c, NEW d
    PROVE  Plus(Plus(a, b), Plus(c, d)) = Plus(Plus(a, c), Plus(b, d))
  BY DEF Plus

\* The laws of a field for elements that are at hand.
LEMMA Laws ==
    ASSUME NEW F, NEW T, IsField(F, T), NEW x \in F, NEW y \in F
    PROVE  /\ Plus(x, y) \in F /\ T[x][y] \in F /\ T[x][y] = T[y][x]
           /\ T[x][Zero] = Zero /\ T[Zero][x] = Zero
           /\ T[x][One] = x /\ T[One][x] = x
           /\ Zero \in F /\ One \in F /\ One # Zero
<1>1. Plus(x, y) \in F /\ T[x][y] \in F /\ T[x][y] = T[y][x]
  BY DEF IsField
<1>2. T[x][Zero] = Zero /\ T[x][One] = x
  BY DEF IsField
<1>3. Zero \in F /\ One \in F /\ One # Zero
  BY DEF IsField
<1>4. T[x][Zero] = T[Zero][x] /\ T[x][One] = T[One][x]
  BY <1>3 DEF IsField
<1>. QED  BY <1>1, <1>2, <1>3, <1>4

LEMMA Distributes ==
    ASSUME NEW F, NEW T, IsField(F, T), NEW x \in F, NEW y \in F, NEW z \in F
    PROVE  /\ T[x][Plus(y, z)] = Plus(T[x][y], T[x][z])
           /\ T[Plus(y, z)][x] = Plus(T[y][x], T[z][x])
<1>1. T[x][Plus(y, z)] = Plus(T[x][y], T[x][z])
  BY DEF IsField
<1>2. Plus(y, z) \in F
  BY Laws
<1>3. T[x][Plus(y, z)] = T[Plus(y, z)][x] /\ T[x][y] = T[y][x] /\ T[x][z] = T[z][x]
  BY <1>2, Laws
<1>. QED  BY <1>1, <1>3

LEMMA Associates ==
    ASSUME NEW F, NEW T, IsField(F, T), NEW x \in F, NEW y \in F, NEW z \in F
    PROVE  /\ T[x][T[y][z]] = T[T[x][y]][z]
           /\ T[x][T[y][z]] = T[y][T[x][z]]
<1>1. T[x][T[y][z]] = T[T[x][y]][z] /\ T[y][T[x][z]] = T[T[y][x]][z]
  BY DEF IsField
<1>2. T[x][y] = T[y][x]
  BY Laws
<1>. QED  BY <1>1, <1>2

LEMMA NoDivisors ==
    ASSUME NEW F, NEW T, IsField(F, T), NEW x \in F, NEW y \in F,
           T[x][y] = Zero, x # Zero
    PROVE  y = Zero
<1>1. PICK z \in F : T[x][z] = One
  BY DEF IsField
<1>2. T[T[z][x]][y] = T[z][T[x][y]]
  BY Associates
<1>3. T[z][x] = One
  BY <1>1 DEF IsField
<1>4. T[One][y] = y
  BY Laws
<1>5. T[z][Zero] = Zero
  BY Laws
<1>. QED  BY <1>2, <1>3, <1>4, <1>5

-----------------------------------------------------------------------------
(* Sums over finite sets                                                   *)

\* Induction over the parts of a finite set.
LEMMA PartInduction ==
    ASSUME NEW X, IsFiniteSet(X), NEW P, {} \in P,
           \A S \in SUBSET X : \A c \in X \ S : S \in P => S \cup {c} \in P
    PROVE  \A S \in SUBSET X : S \in P
<1> DEFINE N == {n \in Nat : \A S \in SUBSET X : Cardinality(S) = n => S \in P}
<1>1. 0 \in N
  <2>1. \A S \in SUBSET X : Cardinality(S) = 0 => S = {}
    BY FS_Subset, FS_EmptySet
  <2>. QED  BY <2>1
<1>2. ASSUME NEW n \in Nat, n \in N PROVE n + 1 \in N
  <2> SUFFICES ASSUME NEW S \in SUBSET X, Cardinality(S) = n + 1 PROVE S \in P
    OBVIOUS
  <2>1. IsFiniteSet(S) /\ S # {}
    BY FS_Subset, FS_EmptySet
  <2>2. PICK c \in S : TRUE
    BY <2>1
  <2> DEFINE R == S \ {c}
  <2>3. R \in SUBSET X /\ c \in X \ R /\ R \cup {c} = S
    OBVIOUS
  <2>4. Cardinality(R) = n
    <3>1. Cardinality(R) = Cardinality(S) - 1
      BY <2>1, FS_RemoveElement
    <3>. QED  BY <3>1
  <2>5. R \in P
    BY <1>2, <2>3, <2>4
  <2> HIDE DEF R
  <2>. QED  BY <2>3, <2>5
<1>3. \A n \in Nat : n \in N
  <2> HIDE DEF N
  <2>. QED  BY <1>1, <1>2, SetInduction
<1> SUFFICES ASSUME NEW S \in SUBSET X PROVE S \in P
  OBVIOUS
<1>4. Cardinality(S) \in Nat
  BY FS_Subset, FS_CardinalityType
<1>. QED  BY <1>3, <1>4

\* The sum of the values of f over S: bit by bit, whether it is in an odd
\* number of them.
Total(S, f) ==
    {b \in UNION {f[c] : c \in S} : Cardinality({c \in S : b \in f[c]}) % 2 = 1}

LEMMA TotalIs ==
    ASSUME NEW S, NEW f, NEW b
    PROVE  b \in Total(S, f) <=> Cardinality({c \in S : b \in f[c]}) % 2 = 1
<1> DEFINE X == {c \in S : b \in f[c]}
<1>1. CASE X = {}
  <2>1. Cardinality(X) % 2 # 1
    <3>1. Cardinality(X) = 0
      BY <1>1, FS_EmptySet
    <3>. QED  BY <3>1
  <2>. QED  BY <2>1 DEF Total
<1>2. CASE X # {}
  <2>1. b \in UNION {f[c] : c \in S}
    BY <1>2
  <2>. QED  BY <2>1 DEF Total
<1>. QED  BY <1>1, <1>2

LEMMA TotalEmpty ==
    ASSUME NEW f PROVE Total({}, f) = Zero
  BY DEF Total, Zero

LEMMA TotalAdd ==
    ASSUME NEW S, NEW f, NEW e, IsFiniteSet(S), e \notin S
    PROVE  Total(S \cup {e}, f) = Plus(Total(S, f), f[e])
<1> SUFFICES ASSUME NEW b PROVE b \in Total(S \cup {e}, f) <=> b \in Plus(Total(S, f), f[e])
  OBVIOUS
<1> DEFINE X == {c \in S : b \in f[c]}   Y == {c \in S \cup {e} : b \in f[c]}
<1>1. IsFiniteSet(X) /\ e \notin X
  BY FS_Subset
<1>2. b \in Total(S, f) <=> Cardinality(X) % 2 = 1
  BY TotalIs
<1>3. b \in Total(S \cup {e}, f) <=> Cardinality(Y) % 2 = 1
  BY TotalIs
<1>4. CASE b \in f[e]
  <2>1. Y = X \cup {e}
    BY <1>4
  <2> HIDE DEF X, Y
  <2>2. Cardinality(Y) = Cardinality(X) + 1 /\ Cardinality(X) \in Nat
    BY <1>1, <2>1, FS_AddElement, FS_CardinalityType
  <2>3. \A n \in Nat : (n + 1) % 2 = 1 <=> ~(n % 2 = 1)
    OBVIOUS
  <2>4. Cardinality(Y) % 2 = 1 <=> ~(Cardinality(X) % 2 = 1)
    BY <2>2, <2>3
  <2>. QED  BY <1>2, <1>3, <1>4, <2>4 DEF Plus
<1>5. CASE b \notin f[e]
  <2>1. Y = X
    BY <1>5
  <2> HIDE DEF X, Y
  <2>. QED  BY <1>2, <1>3, <1>5, <2>1 DEF Plus
<1>. QED  BY <1>4, <1>5

\* Sums are linear, over a field and a finite set X of indices.
LEMMA TotalType ==
    ASSUME NEW F, NEW T, IsField(F, T), NEW X, IsFiniteSet(X), NEW f \in [X -> F]
    PROVE  \A S \in SUBSET X : Total(S, f) \in F
<1> DEFINE P == {S \in SUBSET X : Total(S, f) \in F}
<1>1. {} \in P
  BY TotalEmpty DEF IsField
<1>2. ASSUME NEW S \in SUBSET X, NEW c \in X \ S, S \in P PROVE S \cup {c} \in P
  <2>1. Total(S \cup {c}, f) = Plus(Total(S, f), f[c])
    BY FS_Subset, TotalAdd
  <2>2. Total(S, f) \in F /\ f[c] \in F
    BY <1>2
  <2>. QED  BY <2>1, <2>2 DEF IsField
<1>3. \A S \in SUBSET X : S \in P
  <2> HIDE DEF P
  <2>. QED  BY <1>1, <1>2, PartInduction
<1>. QED  BY <1>3

LEMMA TotalSame ==
    ASSUME NEW S, NEW f, NEW g, \A c \in S : f[c] = g[c]
    PROVE  Total(S, f) = Total(S, g)
<1> SUFFICES ASSUME NEW b PROVE b \in Total(S, f) <=> b \in Total(S, g)
  OBVIOUS
<1>1. {c \in S : b \in f[c]} = {c \in S : b \in g[c]}
  OBVIOUS
<1>2. b \in Total(S, f) <=> Cardinality({c \in S : b \in f[c]}) % 2 = 1
  BY TotalIs
<1>3. b \in Total(S, g) <=> Cardinality({c \in S : b \in g[c]}) % 2 = 1
  BY TotalIs
<1>. QED  BY <1>1, <1>2, <1>3

LEMMA TotalZero ==
    ASSUME NEW S, NEW f, \A c \in S : f[c] = Zero
    PROVE  Total(S, f) = Zero
  BY DEF Total, Zero

LEMMA TotalPlus ==
    ASSUME NEW X, IsFiniteSet(X), NEW f, NEW g, NEW h,
           \A c \in X : h[c] = Plus(f[c], g[c])
    PROVE  Total(X, h) = Plus(Total(X, f), Total(X, g))
<1> DEFINE P == {S \in SUBSET X : Total(S, h) = Plus(Total(S, f), Total(S, g))}
<1>1. {} \in P
  <2>1. Plus(Zero, Zero) = Zero
    BY Sums
  <2>. QED  BY <2>1, TotalEmpty
<1>2. ASSUME NEW S \in SUBSET X, NEW c \in X \ S, S \in P PROVE S \cup {c} \in P
  <2>1. IsFiniteSet(S)
    BY FS_Subset
  <2>2. /\ Total(S \cup {c}, f) = Plus(Total(S, f), f[c])
        /\ Total(S \cup {c}, g) = Plus(Total(S, g), g[c])
        /\ Total(S \cup {c}, h) = Plus(Total(S, h), h[c])
    BY <2>1, TotalAdd
  <2>3. Total(S, h) = Plus(Total(S, f), Total(S, g)) /\ h[c] = Plus(f[c], g[c])
    BY <1>2
  <2>4. Plus(Plus(Total(S, f), Total(S, g)), Plus(f[c], g[c]))
            = Plus(Plus(Total(S, f), f[c]), Plus(Total(S, g), g[c]))
    BY FourSums
  <2>5. Total(S \cup {c}, h) = Plus(Total(S \cup {c}, f), Total(S \cup {c}, g))
    BY <2>2, <2>3, <2>4
  <2>. QED  BY <2>5
<1>3. \A S \in SUBSET X : S \in P
  <2> HIDE DEF P
  <2>. QED  BY <1>1, <1>2, PartInduction
<1>4. X \in P
  BY <1>3
<1>. QED  BY <1>4

LEMMA TotalTimes ==
    ASSUME NEW F, NEW T, IsField(F, T), NEW X, IsFiniteSet(X), NEW f \in [X -> F],
           NEW a \in F, NEW h, \A c \in X : h[c] = T[a][f[c]]
    PROVE  Total(X, h) = T[a][Total(X, f)]
<1> DEFINE P == {S \in SUBSET X : Total(S, h) = T[a][Total(S, f)]}
<1>1. {} \in P
  <2>1. T[a][Zero] = Zero
    BY Laws
  <2>. QED  BY <2>1, TotalEmpty
<1>2. ASSUME NEW S \in SUBSET X, NEW c \in X \ S, S \in P PROVE S \cup {c} \in P
  <2>1. IsFiniteSet(S)
    BY FS_Subset
  <2>2. /\ Total(S \cup {c}, f) = Plus(Total(S, f), f[c])
        /\ Total(S \cup {c}, h) = Plus(Total(S, h), h[c])
    BY <2>1, TotalAdd
  <2>3. Total(S, h) = T[a][Total(S, f)] /\ h[c] = T[a][f[c]]
    BY <1>2
  <2>4. Total(S, f) \in F /\ f[c] \in F
    BY TotalType
  <2>5. T[a][Plus(Total(S, f), f[c])] = Plus(T[a][Total(S, f)], T[a][f[c]])
    BY <2>4, Distributes
  <2>. QED  BY <2>2, <2>3, <2>5
<1>3. \A S \in SUBSET X : S \in P
  <2> HIDE DEF P
  <2>. QED  BY <1>1, <1>2, PartInduction
<1>4. X \in P
  BY <1>3
<1>. QED  BY <1>4

\* One term is taken out.
LEMMA TotalWithout ==
    ASSUME NEW S, IsFiniteSet(S), NEW c \in S, NEW f
    PROVE  Total(S, f) = Plus(Total(S \ {c}, f), f[c])
<1>1. (S \ {c}) \cup {c} = S /\ c \notin S \ {c} /\ IsFiniteSet(S \ {c})
  BY FS_RemoveElement
<1>. QED  BY <1>1, TotalAdd

LEMMA TotalOne ==
    ASSUME NEW S, IsFiniteSet(S), NEW c \in S, NEW f, \A e \in S : e # c => f[e] = Zero
    PROVE  Total(S, f) = f[c]
<1>1. Total(S \ {c}, f) = Zero
  BY TotalZero
<1>2. Plus(Zero, f[c]) = f[c]
  BY Sums
<1>. QED  BY <1>1, <1>2, TotalWithout

\* Zeros can be left out.
LEMMA TotalOfPart ==
    ASSUME NEW X, IsFiniteSet(X), NEW C \in SUBSET X, NEW f, \A c \in X \ C : f[c] = Zero
    PROVE  Total(X, f) = Total(C, f)
<1> SUFFICES ASSUME NEW b PROVE b \in Total(X, f) <=> b \in Total(C, f)
  OBVIOUS
<1>1. {c \in X : b \in f[c]} = {c \in C : b \in f[c]}
  BY DEF Zero
<1>2. b \in Total(X, f) <=> Cardinality({c \in X : b \in f[c]}) % 2 = 1
  BY TotalIs
<1>3. b \in Total(C, f) <=> Cardinality({c \in C : b \in f[c]}) % 2 = 1
  BY TotalIs
<1>. QED  BY <1>1, <1>2, <1>3

\* Two sums change places.
SumsAlong(X, Y, h) == [x \in X |-> Total(Y, [y \in Y |-> h[x][y]])]
SumsAcross(X, Y, h) == [y \in Y |-> Total(X, [x \in X |-> h[x][y]])]

LEMMA TotalExchange ==
    ASSUME NEW X, IsFiniteSet(X), NEW Y, IsFiniteSet(Y), NEW h
    PROVE  Total(X, SumsAlong(X, Y, h)) = Total(Y, SumsAcross(X, Y, h))
<1> DEFINE row == [x \in X |-> Total(Y, [y \in Y |-> h[x][y]])]
           column(S) == [y \in Y |-> Total(S, [x \in X |-> h[x][y]])]
           P == {S \in SUBSET X : Total(S, row) = Total(Y, column(S))}
<1>1. {} \in P
  <2>1. \A y \in Y : column({})[y] = Zero
    BY TotalEmpty
  <2>2. Total(Y, column({})) = Zero
    <3> HIDE DEF column
    <3>. QED  BY <2>1, TotalZero
  <2>. QED  BY <2>2, TotalEmpty
<1>2. ASSUME NEW S \in SUBSET X, NEW e \in X \ S, S \in P PROVE S \cup {e} \in P
  <2>1. IsFiniteSet(S)
    BY FS_Subset
  <2> DEFINE here == [y \in Y |-> h[e][y]]
  <2>2. Total(S \cup {e}, row) = Plus(Total(S, row), row[e])
    <3> HIDE DEF row
    <3>. QED  BY <2>1, TotalAdd
  <2>3. row[e] = Total(Y, here)
    OBVIOUS
  <2>4. ASSUME NEW y \in Y PROVE column(S \cup {e})[y] = Plus(column(S)[y], here[y])
    <3> DEFINE line == [x \in X |-> h[x][y]]
    <3>1. line[e] = h[e][y]
      OBVIOUS
    <3>2. Total(S \cup {e}, line) = Plus(Total(S, line), line[e])
      <4> HIDE DEF line
      <4>. QED  BY <2>1, TotalAdd
    <3>. QED  BY <3>1, <3>2
  <2>5. Total(Y, column(S \cup {e})) = Plus(Total(Y, column(S)), Total(Y, here))
    <3> PICK f, g, p : f = column(S) /\ g = here /\ p = column(S \cup {e})
      OBVIOUS
    <3>1. \A y \in Y : p[y] = Plus(f[y], g[y])
      BY <2>4
    <3> HIDE DEF column, here
    <3>2. Total(Y, p) = Plus(Total(Y, f), Total(Y, g))
      BY <3>1, TotalPlus
    <3>. QED  BY <3>2
  <2>6. Total(S, row) = Total(Y, column(S))
    BY <1>2
  <2> HIDE DEF row, column, here
  <2>7. Total(S \cup {e}, row) = Total(Y, column(S \cup {e}))
    BY <2>2, <2>3, <2>5, <2>6
  <2>. QED  BY <2>7
<1>3. \A S \in SUBSET X : S \in P
  <2> HIDE DEF P
  <2>. QED  BY <1>1, <1>2, PartInduction
<1>4. X \in P
  BY <1>3
<1>. QED  BY <1>4 DEF SumsAlong, SumsAcross

\* A square that is its own mirror image, with zeros in the diagonal, adds up
\* to zero.
IsMirror(X, h) ==
    (\A x, y \in X : h[x][y] = h[y][x]) /\ \A x \in X : h[x][x] = Zero

LEMMA TotalMirror ==
    ASSUME NEW X, IsFiniteSet(X), NEW h, IsMirror(X, h)
    PROVE  Total(X, [x \in X |-> Total(X, [y \in X |-> h[x][y]])]) = Zero
<1> DEFINE line(x) == [y \in X |-> h[x][y]]
           row(S) == [x \in X |-> Total(S, line(x))]
           P == {S \in SUBSET X : Total(S, row(S)) = Zero}
<1>1. {} \in P
  BY TotalEmpty
<1>2. ASSUME NEW S \in SUBSET X, NEW e \in X \ S, S \in P PROVE S \cup {e} \in P
  <2>1. IsFiniteSet(S)
    BY FS_Subset
  <2>2. ASSUME NEW x \in X PROVE row(S \cup {e})[x] = Plus(row(S)[x], line(e)[x])
    <3>1. line(x)[e] = line(e)[x]
      BY DEF IsMirror
    <3>2. Total(S \cup {e}, line(x)) = Plus(Total(S, line(x)), line(x)[e])
      <4> HIDE DEF line
      <4>. QED  BY <2>1, TotalAdd
    <3> HIDE DEF line
    <3>. QED  BY <3>1, <3>2
  <2>3. Total(S, row(S \cup {e})) = Plus(Total(S, row(S)), Total(S, line(e)))
    <3> PICK f, g, p : f = row(S) /\ g = line(e) /\ p = row(S \cup {e})
      OBVIOUS
    <3>1. \A x \in S : p[x] = Plus(f[x], g[x])
      BY <2>2
    <3> HIDE DEF row, line
    <3>2. Total(S, p) = Plus(Total(S, f), Total(S, g))
      BY <2>1, <3>1, TotalPlus
    <3>. QED  BY <3>2
  <2>4. Total(S, row(S)) = Zero
    BY <1>2
  <2>5. row(S \cup {e})[e] = Plus(Total(S, line(e)), Zero)
    <3>1. line(e)[e] = Zero /\ row(S)[e] = Total(S, line(e))
      BY DEF IsMirror
    <3> HIDE DEF row, line
    <3>. QED  BY <2>2, <3>1
  <2> HIDE DEF row, line
  <2>6. Total(S \cup {e}, row(S \cup {e}))
            = Plus(Total(S, row(S \cup {e})), row(S \cup {e})[e])
    BY <2>1, TotalAdd
  <2>7. Total(S \cup {e}, row(S \cup {e})) = Zero
    BY <2>3, <2>4, <2>5, <2>6, Sums
  <2>. QED  BY <2>7
<1>3. \A S \in SUBSET X : S \in P
  <2> HIDE DEF P
  <2>. QED  BY <1>1, <1>2, PartInduction
<1>4. X \in P
  BY <1>3
<1>. QED  BY <1>4

\* One term grows by d.
LEMMA TotalChanged ==
    ASSUME NEW S, IsFiniteSet(S), NEW e \in S, NEW f, NEW g, NEW d,
           g[e] = Plus(f[e], d), \A c \in S : c # e => g[c] = f[c]
    PROVE  Total(S, g) = Plus(Total(S, f), d)
<1>1. /\ Total(S, f) = Plus(Total(S \ {e}, f), f[e])
      /\ Total(S, g) = Plus(Total(S \ {e}, g), g[e])
  BY TotalWithout
<1>2. Total(S \ {e}, g) = Total(S \ {e}, f)
  BY TotalSame
<1>3. Plus(Plus(Total(S \ {e}, f), f[e]), d) = Plus(Total(S \ {e}, f), Plus(f[e], d))
  BY Sums
<1>. QED  BY <1>1, <1>2, <1>3

-----------------------------------------------------------------------------
(* Rows and vectors                                                        *)

\* What a row makes of a vector, both indexed by X.
Dot(T, X, v, u) == Total(X, [c \in X |-> T[v[c]][u[c]]])
\* Element e of a vector times a; element d times a added to it; all times a.
ElementTimes(T, v, e, a) == [v EXCEPT ![e] = T[a][v[e]]]
ElementPlus(T, v, d, e, a) == [v EXCEPT ![e] = Plus(v[e], T[a][v[d]])]
AllTimes(T, X, v, a) == [c \in X |-> T[a][v[c]]]
ColumnTimes(T, N, b, e, f) == [r \in N |-> ElementTimes(T, b[r], e, f)]
UnitOf(X, e) == [c \in X |-> IF c = e THEN One ELSE Zero]
IsZero(X, u) == \A c \in X : u[c] = Zero

LEMMA DotType ==
    ASSUME NEW F, NEW T, IsField(F, T), NEW X, IsFiniteSet(X),
           NEW v \in [X -> F], NEW u \in [X -> F]
    PROVE  Dot(T, X, v, u) \in F
<1> DEFINE f == [c \in X |-> T[v[c]][u[c]]]
<1>1. \A c \in X : T[v[c]][u[c]] \in F
  BY Laws
<1>2. f \in [X -> F]
  BY <1>1
<1>3. X \in SUBSET X
  OBVIOUS
<1> HIDE DEF f
<1>4. Total(X, f) \in F
  BY <1>2, <1>3, TotalType
<1>. QED  BY <1>4 DEF f, Dot

\* Equal terms, equal sums.
LEMMA DotSame ==
    ASSUME NEW T, NEW X, NEW v, NEW u, NEW p, NEW q,
           \A c \in X : T[v[c]][u[c]] = T[p[c]][q[c]]
    PROVE  Dot(T, X, v, u) = Dot(T, X, p, q)
<1> DEFINE f == [c \in X |-> T[v[c]][u[c]]]   g == [c \in X |-> T[p[c]][q[c]]]
<1>1. f = g
  OBVIOUS
<1>. QED  BY <1>1 DEF Dot

LEMMA DotUnit ==
    ASSUME NEW F, NEW T, IsField(F, T), NEW X, IsFiniteSet(X),
           NEW e \in X, NEW u \in [X -> F]
    PROVE  /\ Dot(T, X, UnitOf(X, e), u) = u[e]
           /\ Dot(T, X, u, UnitOf(X, e)) = u[e]
           /\ UnitOf(X, e) \in [X -> F]
<1> DEFINE v == UnitOf(X, e)
           f == [c \in X |-> T[v[c]][u[c]]]   g == [c \in X |-> T[u[c]][v[c]]]
<1>1. v \in [X -> F]
  BY DEF IsField, UnitOf
<1>2. v[e] = One /\ \A c \in X : c # e => v[c] = Zero
  BY DEF UnitOf
<1> HIDE DEF v
<1>3. \A x \in F : T[x][Zero] = Zero /\ T[Zero][x] = Zero /\ T[x][One] = x /\ T[One][x] = x
  BY Laws
<1>4. f[e] = u[e] /\ g[e] = u[e]
  BY <1>2, <1>3
<1>5. \A c \in X : c # e => f[c] = Zero /\ g[c] = Zero
  BY <1>2, <1>3
<1> HIDE DEF f, g
<1>6. Total(X, f) = u[e] /\ Total(X, g) = u[e]
  BY <1>4, <1>5, TotalOne
<1>. QED  BY <1>1, <1>6 DEF Dot, f, g, v

LEMMA DotPlus ==
    ASSUME NEW F, NEW T, IsField(F, T), NEW X, IsFiniteSet(X),
           NEW v \in [X -> F], NEW p \in [X -> F], NEW q \in [X -> F], NEW u,
           \A c \in X : u[c] = Plus(p[c], q[c])
    PROVE  Dot(T, X, v, u) = Plus(Dot(T, X, v, p), Dot(T, X, v, q))
<1> DEFINE f == [c \in X |-> T[v[c]][p[c]]]   g == [c \in X |-> T[v[c]][q[c]]]
           h == [c \in X |-> T[v[c]][u[c]]]
<1>1. ASSUME NEW c \in X PROVE h[c] = Plus(f[c], g[c])
  <2>1. T[v[c]][Plus(p[c], q[c])] = Plus(T[v[c]][p[c]], T[v[c]][q[c]])
    BY Distributes
  <2>. QED  BY <2>1
<1> HIDE DEF f, g, h
<1>2. Total(X, h) = Plus(Total(X, f), Total(X, g))
  BY <1>1, TotalPlus
<1>. QED  BY <1>2 DEF Dot, f, g, h

\* A row is multiplied by a.
LEMMA DotScaledRow ==
    ASSUME NEW F, NEW T, IsField(F, T), NEW X, IsFiniteSet(X),
           NEW v \in [X -> F], NEW u \in [X -> F], NEW a \in F
    PROVE  Dot(T, X, AllTimes(T, X, v, a), u) = T[a][Dot(T, X, v, u)]
<1> DEFINE p == AllTimes(T, X, v, a)
           f == [c \in X |-> T[v[c]][u[c]]]   h == [c \in X |-> T[p[c]][u[c]]]
<1>1. \A c \in X : T[v[c]][u[c]] \in F
  BY Laws
<1>2. f \in [X -> F]
  BY <1>1
<1>3. ASSUME NEW c \in X PROVE h[c] = T[a][f[c]]
  <2>1. T[T[a][v[c]]][u[c]] = T[a][T[v[c]][u[c]]]
    BY Associates
  <2>. QED  BY <2>1 DEF AllTimes
<1> HIDE DEF f, h, p
<1>4. Total(X, h) = T[a][Total(X, f)]
  BY <1>2, <1>3, TotalTimes
<1>. QED  BY <1>4 DEF Dot, f, h, p

\* Column e of a row is multiplied by a: as if element e of the vector were.
LEMMA DotScaledColumn ==
    ASSUME NEW F, NEW T, IsField(F, T), NEW X, IsFiniteSet(X),
           NEW v \in [X -> F], NEW u \in [X -> F], NEW a \in F, NEW e \in X
    PROVE  Dot(T, X, ElementTimes(T, v, e, a), u) = Dot(T, X, v, ElementTimes(T, u, e, a))
<1> DEFINE p == ElementTimes(T, v, e, a)   q == ElementTimes(T, u, e, a)
<1>1. ASSUME NEW c \in X PROVE T[p[c]][u[c]] = T[v[c]][q[c]]
  <2>1. T[T[a][v[e]]][u[e]] = T[a][T[v[e]][u[e]]] /\ T[v[e]][T[a][u[e]]] = T[a][T[v[e]][u[e]]]
    BY Associates
  <2>. QED  BY <2>1 DEF ElementTimes
<1> HIDE DEF p, q
<1>2. Dot(T, X, p, u) = Dot(T, X, v, q)
  BY <1>1, DotSame
<1>. QED  BY <1>2 DEF p, q

\* Column d times a is added to column e.
LEMMA DotAddedColumn ==
    ASSUME NEW F, NEW T, IsField(F, T), NEW X, IsFiniteSet(X),
           NEW v \in [X -> F], NEW u \in [X -> F], NEW a \in F, NEW d \in X, NEW e \in X
    PROVE  Dot(T, X, ElementPlus(T, v, d, e, a), u)
             = Dot(T, X, v, ElementPlus(T, u, e, d, a))
<1> DEFINE p == ElementPlus(T, v, d, e, a)
           q == ElementPlus(T, u, e, d, a)
           f == [c \in X |-> T[v[c]][u[c]]]
           g == [c \in X |-> T[p[c]][u[c]]]   h == [c \in X |-> T[v[c]][q[c]]]
           more == T[v[d]][T[a][u[e]]]
<1>0. T[a][v[d]] \in F /\ T[a][u[e]] \in F
  BY Laws
<1>1. g[e] = Plus(f[e], more)
  <2>1. T[Plus(v[e], T[a][v[d]])][u[e]] = Plus(T[v[e]][u[e]], T[T[a][v[d]]][u[e]])
    BY <1>0, Distributes
  <2>2. T[T[a][v[d]]][u[e]] = T[a][T[v[d]][u[e]]] /\ T[a][T[v[d]][u[e]]] = more
    BY Associates
  <2>3. p[e] = Plus(v[e], T[a][v[d]])
    BY DEF ElementPlus
  <2>. QED  BY <2>1, <2>2, <2>3
<1>2. h[d] = Plus(f[d], more)
  <2>1. T[v[d]][Plus(u[d], T[a][u[e]])] = Plus(T[v[d]][u[d]], more)
    BY <1>0, Distributes
  <2>2. q[d] = Plus(u[d], T[a][u[e]])
    BY DEF ElementPlus
  <2>. QED  BY <2>1, <2>2
<1>3. /\ \A c \in X : c # e => g[c] = f[c]
      /\ \A c \in X : c # d => h[c] = f[c]
  BY DEF ElementPlus
<1> HIDE DEF f, g, h, more
<1>4. Total(X, g) = Plus(Total(X, f), more)
  BY <1>1, <1>3, TotalChanged
<1>5. Total(X, h) = Plus(Total(X, f), more)
  BY <1>2, <1>3, TotalChanged
<1>. QED  BY <1>4, <1>5 DEF Dot, g, h

-----------------------------------------------------------------------------
(* Matrices of which some rows determine every vector                      *)

ZeroRows(T, X, N, a, u) == {r \in N : Dot(T, X, a[r], u) = Zero}
ZerosOf(X, u) == {c \in X : u[c] = Zero}

\* As many rows as a vector has elements leave no vector but zero when they
\* make it zero: they can be inverted.
Determines(F, T, X, N, a) ==
    \A u \in [X -> F] :
        Cardinality(ZeroRows(T, X, N, a, u)) >= Cardinality(X) => IsZero(X, u)

\* The same of the rows of the identity and those of a together.
Regular(F, T, X, N, a) ==
    \A u \in [X -> F] :
        Cardinality(ZerosOf(X, u)) + Cardinality(ZeroRows(T, X, N, a, u)) >= Cardinality(X)
            => IsZero(X, u)

LEMMA DeterminesColumnScaled ==
    ASSUME NEW F, NEW T, IsField(F, T), NEW X, IsFiniteSet(X), NEW N,
           NEW a \in [N -> [X -> F]], NEW f \in F, f # Zero, NEW e \in X,
           Determines(F, T, X, N, a)
    PROVE  Determines(F, T, X, N, ColumnTimes(T, N, a, e, f))
<1> DEFINE b == [r \in N |-> ElementTimes(T, a[r], e, f)]
<1> SUFFICES ASSUME NEW u \in [X -> F],
                    Cardinality(ZeroRows(T, X, N, b, u)) >= Cardinality(X)
             PROVE  IsZero(X, u)
  BY DEF Determines, ColumnTimes
<1> DEFINE q == ElementTimes(T, u, e, f)
<1>1. q \in [X -> F]
  BY Laws DEF ElementTimes
<1>2. ASSUME NEW r \in N PROVE Dot(T, X, b[r], u) = Dot(T, X, a[r], q)
  <2> PICK v \in [X -> F] : v = a[r]
    OBVIOUS
  <2>1. Dot(T, X, ElementTimes(T, v, e, f), u) = Dot(T, X, v, q)
    BY DotScaledColumn
  <2>. QED  BY <2>1
<1>3. ZeroRows(T, X, N, b, u) = ZeroRows(T, X, N, a, q)
  BY <1>2 DEF ZeroRows
<1>4. IsZero(X, q)
  <2> HIDE DEF q, b
  <2>. QED  BY <1>1, <1>3 DEF Determines
<1>5. T[f][u[e]] = Zero /\ \A c \in X : c # e => u[c] = Zero
  BY <1>4 DEF IsZero, ElementTimes
<1>6. u[e] = Zero
  BY <1>5, NoDivisors
<1>. QED  BY <1>5, <1>6 DEF IsZero

ColumnAdded(T, N, a, d, e, f) == [r \in N |-> ElementPlus(T, a[r], d, e, f)]

LEMMA DeterminesColumnAdded ==
    ASSUME NEW F, NEW T, IsField(F, T), NEW X, IsFiniteSet(X), NEW N,
           NEW a \in [N -> [X -> F]], NEW f \in F, NEW d \in X, NEW e \in X, d # e,
           Determines(F, T, X, N, a)
    PROVE  Determines(F, T, X, N, ColumnAdded(T, N, a, d, e, f))
<1> DEFINE b == [r \in N |-> ElementPlus(T, a[r], d, e, f)]
<1> SUFFICES ASSUME NEW u \in [X -> F],
                    Cardinality(ZeroRows(T, X, N, b, u)) >= Cardinality(X)
             PROVE  IsZero(X, u)
  BY DEF Determines, ColumnAdded
<1> DEFINE q == ElementPlus(T, u, e, d, f)
<1>1. q \in [X -> F]
  BY DEF IsField, ElementPlus
<1>2. ASSUME NEW r \in N PROVE Dot(T, X, b[r], u) = Dot(T, X, a[r], q)
  <2> PICK v \in [X -> F] : v = a[r]
    OBVIOUS
  <2>1. Dot(T, X, ElementPlus(T, v, d, e, f), u) = Dot(T, X, v, q)
    BY DotAddedColumn
  <2>. QED  BY <2>1
<1>3. ZeroRows(T, X, N, b, u) = ZeroRows(T, X, N, a, q)
  BY <1>2 DEF ZeroRows
<1>4. IsZero(X, q)
  <2> HIDE DEF q, b
  <2>. QED  BY <1>1, <1>3 DEF Determines
<1>5. Plus(u[d], T[f][u[e]]) = Zero /\ \A c \in X : c # d => u[c] = Zero
  BY <1>4 DEF IsZero, ElementPlus
<1>6. T[f][u[e]] = Zero
  <2>1. u[e] = Zero
    BY <1>5
  <2>2. T[f][Zero] = Zero
    BY Laws
  <2>. QED  BY <2>1, <2>2
<1>7. u[d] = Zero
  BY <1>5, <1>6, Sums
<1>. QED  BY <1>5, <1>7 DEF IsZero

\* Sets with a pairing of their elements have as many.
LEMMA SameSize ==
    ASSUME NEW S, IsFiniteSet(S), NEW V, NEW f \in [S -> V],
           \A x, y \in S : f[x] = f[y] => x = y,
           \A y \in V : \E x \in S : f[x] = y
    PROVE  IsFiniteSet(V) /\ Cardinality(V) = Cardinality(S)
<1>1. f \in Bijection(S, V)
  BY DEF Bijection, Injection, Surjection, IsInjective
<1>2. ExistsBijection(S, V)
  BY <1>1 DEF ExistsBijection
<1>. QED  BY <1>2, FS_Bijection

\* Rows x and p of a change places in b.
Exchanged(r, x, p) == IF r = x THEN p ELSE IF r = p THEN x ELSE r
AreExchanged(N, a, b, x, p) == \A r \in N : b[r] = a[Exchanged(r, x, p)]

LEMMA DeterminesSwapped ==
    ASSUME NEW F, NEW T, NEW X, NEW N, IsFiniteSet(N), NEW a, NEW p \in N, NEW q \in N,
           NEW b, AreExchanged(N, a, b, p, q), Determines(F, T, X, N, a)
    PROVE  Determines(F, T, X, N, b)
<1> SUFFICES ASSUME NEW u \in [X -> F],
                    Cardinality(ZeroRows(T, X, N, b, u)) >= Cardinality(X)
             PROVE  IsZero(X, u)
  BY DEF Determines
<1> DEFINE S == ZeroRows(T, X, N, b, u)   V == ZeroRows(T, X, N, a, u)
           swap(r) == Exchanged(r, p, q)
           f == [r \in S |-> swap(r)]
<1>1. \A r \in N : swap(r) \in N /\ swap(swap(r)) = r
  BY DEF Exchanged
<1>2. \A r \in N : r \in S <=> swap(r) \in V
  <2> HIDE DEF swap
  <2>1. \A r \in N : b[r] = a[swap(r)]
    BY DEF AreExchanged, swap
  <2>. QED  BY <1>1, <2>1 DEF ZeroRows
<1>3. S \subseteq N /\ V \subseteq N /\ IsFiniteSet(S)
  BY FS_Subset DEF ZeroRows
<1> HIDE DEF S, V, swap
<1>4. f \in [S -> V] /\ (\A x, y \in S : f[x] = f[y] => x = y)
  BY <1>1, <1>2, <1>3
<1>5. ASSUME NEW y \in V PROVE \E x \in S : f[x] = y
  <2>1. swap(y) \in N /\ swap(swap(y)) = y
    BY <1>1, <1>3
  <2>2. swap(y) \in S
    BY <1>2, <2>1
  <2>. QED  BY <2>1, <2>2
<1> HIDE DEF f
<1>6. Cardinality(V) = Cardinality(S)
  BY <1>3, <1>4, <1>5, SameSize
<1>. QED  BY <1>6 DEF S, V, Determines

LEMMA RegularColumnScaled ==
    ASSUME NEW F, NEW T, IsField(F, T), NEW X, IsFiniteSet(X), NEW N,
           NEW a \in [N -> [X -> F]], NEW f \in F, f # Zero, NEW e \in X,
           Regular(F, T, X, N, a)
    PROVE  Regular(F, T, X, N, ColumnTimes(T, N, a, e, f))
<1> DEFINE b == [r \in N |-> ElementTimes(T, a[r], e, f)]
<1> SUFFICES ASSUME NEW u \in [X -> F],
                    Cardinality(ZerosOf(X, u)) + Cardinality(ZeroRows(T, X, N, b, u))
                      >= Cardinality(X)
             PROVE  IsZero(X, u)
  BY DEF Regular, ColumnTimes
<1> DEFINE q == ElementTimes(T, u, e, f)
<1>1. q \in [X -> F]
  BY Laws DEF ElementTimes
<1>2. ASSUME NEW r \in N PROVE Dot(T, X, b[r], u) = Dot(T, X, a[r], q)
  <2> PICK v \in [X -> F] : v = a[r]
    OBVIOUS
  <2>1. Dot(T, X, ElementTimes(T, v, e, f), u) = Dot(T, X, v, q)
    BY IsField(F, T), IsFiniteSet(X), v \in [X -> F], u \in [X -> F], DotScaledColumn
  <2>. QED  BY <2>1
<1>3. ZeroRows(T, X, N, b, u) = ZeroRows(T, X, N, a, q)
  BY <1>2 DEF ZeroRows
<1>4. \A c \in X : q[c] = Zero <=> u[c] = Zero
  <2>1. T[f][u[e]] = Zero => u[e] = Zero
    BY NoDivisors
  <2>2. T[f][Zero] = Zero
    BY Laws
  <2>. QED  BY <2>1, <2>2 DEF ElementTimes
<1>5. ZerosOf(X, q) = ZerosOf(X, u)
  BY <1>4 DEF ZerosOf
<1> HIDE DEF q, b
<1>6. IsZero(X, q)
  BY <1>1, <1>3, <1>5 DEF Regular
<1>. QED  BY <1>4, <1>6 DEF IsZero

LEMMA RegularRowScaled ==
    ASSUME NEW F, NEW T, IsField(F, T), NEW X, IsFiniteSet(X), NEW N,
           NEW a \in [N -> [X -> F]], NEW f \in F, f # Zero, NEW p \in N,
           Regular(F, T, X, N, a)
    PROVE  Regular(F, T, X, N, [a EXCEPT ![p] = AllTimes(T, X, a[p], f)])
<1> DEFINE b == [a EXCEPT ![p] = AllTimes(T, X, a[p], f)]
<1> SUFFICES ASSUME NEW u \in [X -> F],
                    Cardinality(ZerosOf(X, u)) + Cardinality(ZeroRows(T, X, N, b, u))
                      >= Cardinality(X)
             PROVE  IsZero(X, u)
  BY DEF Regular
<1>1. Dot(T, X, b[p], u) = T[f][Dot(T, X, a[p], u)]
  <2> PICK v \in [X -> F] : v = a[p]
    OBVIOUS
  <2>1. Dot(T, X, AllTimes(T, X, v, f), u) = T[f][Dot(T, X, v, u)]
    BY DotScaledRow
  <2>. QED  BY <2>1
<1>2. Dot(T, X, a[p], u) \in F
  BY DotType
<1>3. Dot(T, X, b[p], u) = Zero <=> Dot(T, X, a[p], u) = Zero
  <2>1. T[f][Zero] = Zero
    BY Laws
  <2>. QED  BY <1>1, <1>2, <2>1, NoDivisors
<1>4. \A r \in N : r # p => b[r] = a[r]
  OBVIOUS
<1> HIDE DEF b
<1>5. ZeroRows(T, X, N, b, u) = ZeroRows(T, X, N, a, u)
  BY <1>3, <1>4 DEF ZeroRows
<1>. QED  BY <1>5 DEF Regular

\* A column of zeros would leave the vector of that column undetermined.
IsTall(X, N) == Cardinality(N) >= Cardinality(X)

LEMMA NoZeroColumn ==
    ASSUME NEW F, NEW T, IsField(F, T), NEW X, IsFiniteSet(X), NEW N, IsTall(X, N),
           NEW a \in [N -> [X -> F]], NEW e \in X,
           Determines(F, T, X, N, a)
    PROVE  \E r \in N : a[r][e] # Zero
<1> SUFFICES ASSUME \A r \in N : a[r][e] = Zero PROVE FALSE
  OBVIOUS
<1> DEFINE u == UnitOf(X, e)
<1>1. u \in [X -> F]
  BY DEF UnitOf, IsField
<1>2. ASSUME NEW r \in N PROVE Dot(T, X, a[r], u) = Zero
  <2> PICK v \in [X -> F] : v = a[r]
    OBVIOUS
  <2>1. Dot(T, X, v, u) = v[e]
    BY DotUnit
  <2>. QED  BY <2>1
<1>3. ZeroRows(T, X, N, a, u) = N
  BY <1>2 DEF ZeroRows
<1>4. u[e] = One /\ One # Zero
  BY DEF UnitOf, IsField
<1> HIDE DEF u
<1>5. IsZero(X, u)
  BY <1>1, <1>3 DEF Determines, IsTall
<1>. QED  BY <1>4, <1>5 DEF IsZero

\* A vector with one element is made zero by no row.
LEMMA NoZeroElement ==
    ASSUME NEW F, NEW T, IsField(F, T), NEW X, IsFiniteSet(X), NEW N, IsFiniteSet(N),
           NEW a \in [N -> [X -> F]], NEW e \in X, NEW r \in N, Regular(F, T, X, N, a)
    PROVE  a[r][e] # Zero
<1> SUFFICES ASSUME a[r][e] = Zero PROVE FALSE
  OBVIOUS
<1> DEFINE u == UnitOf(X, e)
<1>1. u \in [X -> F]
  BY DotUnit
<1>2. Dot(T, X, a[r], u) = Zero
  <2> PICK v \in [X -> F] : v = a[r]
    OBVIOUS
  <2>1. Dot(T, X, v, u) = v[e]
    BY DotUnit
  <2>. QED  BY <2>1
<1>3. u[e] = One /\ One # Zero /\ \A c \in X : c # e => u[c] = Zero
  BY DEF UnitOf, IsField
<1> HIDE DEF u
<1>4. X \ {e} = ZerosOf(X, u)
  BY <1>3 DEF ZerosOf
<1>5. Cardinality(ZerosOf(X, u)) = Cardinality(X) - 1 /\ Cardinality(X) \in Nat
  BY <1>4, FS_RemoveElement, FS_CardinalityType
<1>6. Cardinality(ZeroRows(T, X, N, a, u)) >= 1
  <2> DEFINE S == ZeroRows(T, X, N, a, u)
  <2>1. r \in S /\ IsFiniteSet(S)
    BY <1>2, FS_Subset DEF ZeroRows
  <2> HIDE DEF S
  <2>2. Cardinality(S) \in Nat /\ Cardinality(S) # 0
    BY <2>1, FS_CardinalityType, FS_EmptySet
  <2>3. \A n \in Nat : n # 0 => n >= 1
    OBVIOUS
  <2>4. Cardinality(S) >= 1
    BY <2>2, <2>3
  <2>. QED  BY <2>4 DEF S
<1>7. Cardinality(ZeroRows(T, X, N, a, u)) \in Nat
  BY FS_Subset, FS_CardinalityType DEF ZeroRows
<1>8. \A z, t \in Nat : z >= 1 => (t - 1) + z >= t
  OBVIOUS
<1>9. IsZero(X, u)
  BY <1>1, <1>5, <1>6, <1>7, <1>8 DEF Regular
<1>. QED  BY <1>3, <1>9 DEF IsZero

\* The rows b under an identity.
IsSystematic(cols, rows, a, b) ==
    /\ \A c \in 0..cols-1 : a[c] = UnitOf(0..cols-1, c)
    /\ \A r \in 0..rows-1 : b[r] = a[cols + r]

LEMMA RowsUnderIdentity ==
    ASSUME NEW F, NEW T, IsField(F, T), NEW cols \in Nat, NEW rows \in Nat, NEW a, NEW b,
           Determines(F, T, 0..cols-1, 0..cols+rows-1, a), IsSystematic(cols, rows, a, b)
    PROVE  Regular(F, T, 0..cols-1, 0..rows-1, b)
<1> DEFINE X == 0..cols-1   N == 0..cols+rows-1   M == 0..rows-1
<1>0. (\A c \in X : a[c] = UnitOf(X, c)) /\ \A r \in M : b[r] = a[cols + r]
  BY DEF IsSystematic
<1> SUFFICES ASSUME NEW u \in [X -> F],
                    Cardinality(ZerosOf(X, u)) + Cardinality(ZeroRows(T, X, M, b, u))
                      >= Cardinality(X)
             PROVE  IsZero(X, u)
  BY DEF Regular
<1> DEFINE A == ZerosOf(X, u)   B == ZeroRows(T, X, M, b, u)
           S == ZeroRows(T, X, N, a, u)
           C == {cols + r : r \in B}
           f == [r \in B |-> cols + r]
<1>1. IsFiniteSet(X) /\ IsFiniteSet(M)
  BY FS_Interval
<1>2. A \subseteq X /\ B \subseteq M /\ IsFiniteSet(A) /\ IsFiniteSet(B)
  BY <1>1, FS_Subset DEF ZerosOf, ZeroRows
<1>3. ASSUME NEW c \in X PROVE c \in S <=> c \in A
  <2>1. Dot(T, X, UnitOf(X, c), u) = u[c]
    BY <1>1, DotUnit
  <2>2. c \in N
    OBVIOUS
  <2>. QED  BY <1>0, <2>1, <2>2 DEF ZerosOf, ZeroRows
<1>4. ASSUME NEW r \in M PROVE cols + r \in S <=> r \in B
  <2>1. cols + r \in N
    OBVIOUS
  <2>. QED  BY <1>0, <2>1 DEF ZeroRows
<1>5. A \cap C = {}
  <2>1. \A r \in M : cols + r \notin X
    OBVIOUS
  <2> HIDE DEF A, B, X, M
  <2>. QED  BY <1>2, <2>1
<1>6. S = A \cup C
  <2>1. \A r \in N : r \in X \/ (r - cols \in M /\ r = cols + (r - cols))
    OBVIOUS
  <2>2. S \subseteq N
    BY DEF ZeroRows
  <2>3. ASSUME NEW r \in S PROVE r \in A \cup C
    <3>1. CASE r \in X
      <4> HIDE DEF A, S, X, C
      <4>. QED  BY <1>3, <3>1
    <3>2. CASE r - cols \in M /\ r = cols + (r - cols)
      <4> PICK t : t = r - cols
        OBVIOUS
      <4>1. t \in M /\ r = cols + t
        BY <3>2
      <4> HIDE DEF B, S, M, A
      <4>2. t \in B
        BY <1>4, <4>1
      <4>. QED  BY <4>1, <4>2
    <3> HIDE DEF S, X, M, N, A, C
    <3>. QED  BY <2>1, <2>2, <3>1, <3>2
  <2>4. A \subseteq S
    <3> HIDE DEF A, S, X
    <3>. QED  BY <1>2, <1>3
  <2>5. C \subseteq S
    <3> HIDE DEF B, S, M
    <3>. QED  BY <1>2, <1>4
  <2> HIDE DEF A, S, C
  <2>. QED  BY <2>3, <2>4, <2>5
<1>7. IsFiniteSet(C) /\ Cardinality(C) = Cardinality(B)
  <2>1. f \in [B -> C]
    <3> HIDE DEF B
    <3>. QED  OBVIOUS
  <2>2. \A x, y \in B : f[x] = f[y] => x = y
    <3>1. \A x, y \in M : cols + x = cols + y => x = y
      OBVIOUS
    <3> HIDE DEF B, M
    <3>. QED  BY <1>2, <3>1
  <2>3. \A y \in C : \E x \in B : f[x] = y
    <3> HIDE DEF B
    <3>. QED  OBVIOUS
  <2> HIDE DEF B, C, f
  <2>. QED  BY <1>2, <2>1, <2>2, <2>3, SameSize
<1> HIDE DEF A, B, C, S
<1>8. Cardinality(S) = Cardinality(A) + Cardinality(B) - 0
  BY <1>2, <1>5, <1>6, <1>7, FS_Union, FS_EmptySet
<1>9. Cardinality(A) \in Nat /\ Cardinality(B) \in Nat
  BY <1>2, FS_CardinalityType
<1>10. Cardinality(S) >= Cardinality(X)
  BY <1>8, <1>9 DEF A, B
<1>. QED  BY <1>10 DEF S, Determines

-----------------------------------------------------------------------------
(* The Vandermonde matrix: a polynomial has no more roots than its degree. *)

\* p holds the powers of x; h the values of the tails of the polynomial u at x,
\* from the last one, which is empty.
IsPowers(T, size, x, p) == p[0] = One /\ \A c \in 1..size-1 : p[c] = T[p[c-1]][x]
IsHorner(T, size, u, x, h) ==
    h[size] = Zero /\ \A c \in 0..size-1 : h[c] = Plus(u[c], T[x][h[c+1]])

LEMMA HornerExists ==
    ASSUME NEW F, NEW T, IsField(F, T), NEW size \in Nat, NEW u \in [0..size-1 -> F],
           NEW x \in F
    PROVE  \E h \in [0..size -> F] : IsHorner(T, size, u, x, h)
<1> DEFINE step == [q \in Nat |-> [v \in F |-> IF q \in 1..size
                                               THEN Plus(u[size - q], T[x][v]) ELSE v]]
<1>1. step \in [Nat -> [F -> F]]
  <2>1. ASSUME NEW q \in 1..size, NEW v \in F PROVE Plus(u[size - q], T[x][v]) \in F
    <3>1. size - q \in 0..size-1
      OBVIOUS
    <3>2. u[size - q] \in F /\ T[x][v] \in F
      BY <3>1, Laws
    <3>. QED  BY <3>2, Laws
  <2>. QED  BY <2>1
<1>2. Zero \in F
  BY DEF IsField
<1>3. PICK g \in [0..size -> F] : MadeStepwise(g, Zero, step, size)
  <2> HIDE DEF step
  <2>. QED  BY <1>1, <1>2, RecursiveFunction
<1> DEFINE h == [c \in 0..size |-> g[size - c]]
<1>4. h \in [0..size -> F]
  <2>1. \A c \in 0..size : size - c \in 0..size
    OBVIOUS
  <2>. QED  BY <1>3, <2>1
<1>5. h[size] = Zero
  <2>1. size \in 0..size /\ size - size = 0 /\ 0 \in 0..size
    OBVIOUS
  <2>. QED  BY <1>3, <2>1 DEF MadeStepwise
<1>6. ASSUME NEW c \in 0..size-1 PROVE h[c] = Plus(u[c], T[x][h[c+1]])
  <2> PICK q : q = size - c
    OBVIOUS
  <2>1. /\ q \in 1..size /\ q \in 0..size /\ q # 0 /\ q \in Nat /\ size - q = c
        /\ c \in 0..size /\ c + 1 \in 0..size /\ size - (c + 1) = q - 1 /\ q - 1 \in 0..size
    OBVIOUS
  <2>2. g[q] = step[q][g[q - 1]]
    BY <1>3, <2>1 DEF MadeStepwise
  <2>3. g[q - 1] \in F
    BY <1>3, <2>1
  <2>4. g[q] = Plus(u[c], T[x][g[q - 1]])
    BY <2>1, <2>2, <2>3
  <2>5. h[c] = g[q] /\ h[c + 1] = g[q - 1]
    BY <2>1
  <2>. QED  BY <2>4, <2>5
<1>. QED  BY <1>4, <1>5, <1>6 DEF IsHorner

\* Downwards, from size to 0.
LEMMA DownInduction ==
    ASSUME NEW size \in Nat, NEW P, size \in P,
           \A c \in 0..size-1 : c + 1 \in P => c \in P
    PROVE  \A c \in 0..size : c \in P
<1> DEFINE N == {q \in Nat : q \in 0..size => size - q \in P}
<1>1. 0 \in N
  OBVIOUS
<1>2. ASSUME NEW q \in Nat, q \in N PROVE q + 1 \in N
  <2> SUFFICES ASSUME q + 1 \in 0..size PROVE size - (q + 1) \in P
    OBVIOUS
  <2> PICK c : c = size - (q + 1)
    OBVIOUS
  <2>1. q \in 0..size /\ c \in 0..size-1 /\ c + 1 = size - q
    OBVIOUS
  <2>2. size - q \in P
    BY <1>2, <2>1
  <2>. QED  BY <2>1, <2>2
<1>3. \A q \in Nat : q \in N
  <2> HIDE DEF N
  <2>. QED  BY <1>1, <1>2, SetInduction
<1> SUFFICES ASSUME NEW c \in 0..size PROVE c \in P
  OBVIOUS
<1>4. size - c \in Nat /\ size - c \in 0..size /\ size - (size - c) = c
  OBVIOUS
<1>. QED  BY <1>3, <1>4

LEMMA HornerTerm ==
    ASSUME NEW F, NEW T, IsField(F, T), NEW x \in F, NEW y \in F, NEW z \in F, NEW v \in F
    PROVE  /\ T[z][Plus(v, T[x][y])] = Plus(T[T[z][x]][y], T[z][v])
           /\ T[z][Plus(v, T[x][Zero])] = Plus(Zero, T[z][v])
<1>1. T[x][y] \in F
  BY Laws
<1>2. T[z][Plus(v, T[x][y])] = Plus(T[z][v], T[z][T[x][y]])
  BY <1>1, Distributes
<1>3. T[z][T[x][y]] = T[T[z][x]][y]
  BY Associates
<1>4. T[x][Zero] = Zero
  BY Laws
<1>. QED  BY <1>2, <1>3, <1>4, Sums

\* The row of the powers of x makes of u its value at x.
LEMMA PowersEvaluate ==
    ASSUME NEW F, NEW T, IsField(F, T), NEW size \in Nat \ {0}, NEW u \in [0..size-1 -> F],
           NEW x \in F, NEW p \in [0..size-1 -> F], IsPowers(T, size, x, p),
           NEW h \in [0..size -> F], IsHorner(T, size, u, x, h)
    PROVE  Dot(T, 0..size-1, p, u) = h[0]
<1> DEFINE X == 0..size-1
           f == [c \in X |-> T[p[c]][u[c]]]
           From(c) == {e \in X : e >= c}
           P == {c \in 0..size : c \in X => Total(From(c), f) = T[p[c]][h[c]]}
<1>1. IsFiniteSet(X)
  BY FS_Interval
<1>2. size \in P
  OBVIOUS
<1>3. \A y, z, v \in F : /\ T[z][Plus(v, T[x][y])] = Plus(T[T[z][x]][y], T[z][v])
                          /\ T[z][Plus(v, T[x][Zero])] = Plus(Zero, T[z][v])
  BY HornerTerm
<1>4. ASSUME NEW c \in X, c + 1 \in P PROVE c \in P
  <2>1. /\ c \in 0..size /\ c \in From(c) /\ IsFiniteSet(From(c))
        /\ From(c) \ {c} = From(c + 1)
    BY <1>1, FS_Subset
  <2>2. Total(From(c), f) = Plus(Total(From(c + 1), f), f[c])
    <3> HIDE DEF f, From
    <3>. QED  BY <2>1, TotalWithout
  <2>3. h[c] = Plus(u[c], T[x][h[c + 1]])
    BY DEF IsHorner
  <2>4. c + 1 \in 0..size
    OBVIOUS
  <2> PICK y \in F, z \in F, v \in F : y = h[c + 1] /\ z = p[c] /\ v = u[c]
    BY <2>4
  <2>5. /\ T[z][Plus(v, T[x][y])] = Plus(T[T[z][x]][y], T[z][v])
        /\ T[z][Plus(v, T[x][Zero])] = Plus(Zero, T[z][v])
    BY <1>3
  <2>6. T[p[c]][h[c]] = Plus(Total(From(c + 1), f), T[z][v])
    <3>1. CASE c + 1 \in X
      <4>1. Total(From(c + 1), f) = T[p[c + 1]][h[c + 1]]
        BY <1>4, <3>1
      <4>2. p[c + 1] = T[p[c]][x]
        <5>1. c + 1 \in 1..size-1 /\ (c + 1) - 1 = c
          BY <3>1
        <5>. QED  BY <5>1 DEF IsPowers
      <4>. QED  BY <2>3, <2>5, <4>1, <4>2
    <3>2. CASE c + 1 \notin X
      <4>1. c + 1 = size
        BY <3>2
      <4>2. From(c + 1) = {}
        BY <4>1
      <4>3. h[c + 1] = Zero
        BY <4>1 DEF IsHorner
      <4>4. Total(From(c + 1), f) = Zero
        <5> HIDE DEF From, f
        <5>. QED  BY <4>2, TotalEmpty
      <4>. QED  BY <2>3, <2>5, <4>3, <4>4
    <3>. QED  BY <3>1, <3>2
  <2>7. Total(From(c), f) = T[p[c]][h[c]]
    <3>1. f[c] = T[z][v]
      OBVIOUS
    <3>. QED  BY <2>2, <2>6, <3>1
  <2>. QED  BY <2>1, <2>7
<1>5. 0 \in P
  <2>1. 0 \in 0..size
    OBVIOUS
  <2> HIDE DEF P
  <2>. QED  BY <1>2, <1>4, <2>1, DownInduction
<1>6. From(0) = X /\ 0 \in X
  OBVIOUS
<1>7. T[p[0]][h[0]] = h[0]
  <2>1. h[0] \in F
    OBVIOUS
  <2>2. T[One][h[0]] = h[0]
    BY <2>1, Laws
  <2>. QED  BY <2>2 DEF IsPowers
<1>8. Total(X, f) = h[0]
  BY <1>5, <1>6, <1>7
<1>. QED  BY <1>8 DEF Dot

\* One step of the division of a polynomial by x + a.
IsDivided(T, x, a, p, q, g) == Plus(p, q) = T[Plus(x, a)][g]
DivisionStep(F, T, x, a) ==
    \A p, q, g, t \in F : IsDivided(T, x, a, p, q, g) =>
        IsDivided(T, x, a, Plus(t, T[x][p]), Plus(t, T[a][q]), Plus(q, T[x][g]))

LEMMA DivisionSteps ==
    ASSUME NEW F, NEW T, IsField(F, T), NEW x \in F, NEW a \in F
    PROVE  DivisionStep(F, T, x, a)
<1> PICK s : s = Plus(x, a)
  OBVIOUS
<1> SUFFICES ASSUME NEW p \in F, NEW q \in F, NEW g \in F, NEW t \in F,
                    Plus(p, q) = T[s][g]
             PROVE  Plus(Plus(t, T[x][p]), Plus(t, T[a][q])) = T[s][Plus(q, T[x][g])]
  BY DEF DivisionStep, IsDivided
<1>1. s \in F /\ T[x][p] \in F /\ T[a][q] \in F /\ T[x][q] \in F /\ T[x][g] \in F
  BY Laws
<1>2. Plus(Plus(t, T[x][p]), Plus(t, T[a][q])) = Plus(T[x][p], T[a][q])
  <2>1. \A y, z : Plus(Plus(t, y), Plus(t, z)) = Plus(y, z)
    BY DEF Plus
  <2>. QED  BY <2>1
<1>3. Plus(T[x][p], T[a][q]) = Plus(Plus(T[x][p], T[x][q]), Plus(T[x][q], T[a][q]))
  <2>1. \A y, z, v : Plus(y, z) = Plus(Plus(y, v), Plus(v, z))
    BY DEF Plus
  <2>. QED  BY <2>1
<1>4. Plus(T[x][p], T[x][q]) = T[x][T[s][g]]
  <2>1. T[x][Plus(p, q)] = Plus(T[x][p], T[x][q])
    BY Distributes
  <2>. QED  BY <2>1
<1>5. Plus(T[x][q], T[a][q]) = T[s][q]
  BY Distributes
<1>6. T[x][T[s][g]] = T[s][T[x][g]]
  <2>1. \A y, z \in F : T[x][T[y][z]] = T[y][T[x][z]]
    BY Associates
  <2>. QED  BY <1>1, <2>1
<1>7. T[s][Plus(q, T[x][g])] = Plus(T[s][q], T[s][T[x][g]])
  BY <1>1, Distributes
<1>. QED  BY <1>2, <1>3, <1>4, <1>5, <1>6, <1>7, Sums

\* The quotient by x + a has the tails at a for its elements.
AreTails(size, v, h) == \A c \in 0..size-1 : v[c] = h[c + 1]
Divides(F, T, size, u, a, h, v) ==
    \A x \in F : \A p, g \in [0..size -> F] :
        IsHorner(T, size, u, x, p) /\ IsHorner(T, size, v, x, g)
            => Plus(p[0], h[0]) = T[Plus(x, a)][g[0]]

LEMMA Division ==
    ASSUME NEW F, NEW T, IsField(F, T), NEW size \in Nat, NEW u \in [0..size-1 -> F],
           NEW a \in F, NEW h \in [0..size -> F], IsHorner(T, size, u, a, h),
           NEW v \in [0..size-1 -> F], AreTails(size, v, h)
    PROVE  Divides(F, T, size, u, a, h, v)
<1> SUFFICES ASSUME NEW x \in F,
                    NEW p \in [0..size -> F], IsHorner(T, size, u, x, p),
                    NEW g \in [0..size -> F], IsHorner(T, size, v, x, g)
             PROVE  Plus(p[0], h[0]) = T[Plus(x, a)][g[0]]
  BY DEF Divides
<1> DEFINE P == {c \in 0..size : IsDivided(T, x, a, p[c], h[c], g[c])}
<1>1. size \in P
  <2>1. Plus(Zero, Zero) = Zero
    BY Sums
  <2>2. T[Plus(x, a)][Zero] = Zero
    BY Laws
  <2>. QED  BY <2>1, <2>2 DEF IsHorner, IsDivided
<1>2. DivisionStep(F, T, x, a)
  BY DivisionSteps
<1>3. ASSUME NEW c \in 0..size-1, c + 1 \in P PROVE c \in P
  <2>1. c + 1 \in 0..size /\ c \in 0..size
    OBVIOUS
  <2> PICK y \in F, q \in F, z \in F, t \in F :
           y = p[c + 1] /\ q = h[c + 1] /\ z = g[c + 1] /\ t = u[c]
    BY <2>1
  <2>2. IsDivided(T, x, a, y, q, z)
    BY <1>3
  <2>3. IsDivided(T, x, a, Plus(t, T[x][y]), Plus(t, T[a][q]), Plus(q, T[x][z]))
    <3> HIDE DEF P
    <3>. QED  BY <1>2, <2>2 DEF DivisionStep
  <2>4. /\ p[c] = Plus(t, T[x][y]) /\ h[c] = Plus(t, T[a][q])
        /\ g[c] = Plus(q, T[x][z])
    BY DEF IsHorner, AreTails
  <2>5. IsDivided(T, x, a, p[c], h[c], g[c])
    BY <2>3, <2>4
  <2>. QED  BY <2>1, <2>5
<1>4. 0 \in P
  <2>1. 0 \in 0..size
    OBVIOUS
  <2> HIDE DEF P
  <2>. QED  BY <1>1, <1>3, <2>1, DownInduction
<1>. QED  BY <1>4 DEF IsDivided

IsRoot(F, T, size, u, x) ==
    \E h \in [0..size -> F] : IsHorner(T, size, u, x, h) /\ h[0] = Zero
Ends(size, u, n) == \A c \in 0..size-1 : c >= n => u[c] = Zero

LEMMA QuotientRoot ==
    ASSUME NEW F, NEW T, IsField(F, T), NEW size \in Nat, NEW u \in [0..size-1 -> F],
           NEW a \in F, NEW h \in [0..size -> F], IsHorner(T, size, u, a, h), h[0] = Zero,
           NEW v \in [0..size-1 -> F], AreTails(size, v, h),
           NEW x \in F, x # a, IsRoot(F, T, size, u, x)
    PROVE  IsRoot(F, T, size, v, x)
<1>1. PICK p \in [0..size -> F] : IsHorner(T, size, u, x, p) /\ p[0] = Zero
  BY DEF IsRoot
<1>2. PICK g \in [0..size -> F] : IsHorner(T, size, v, x, g)
  BY HornerExists
<1>3. Plus(p[0], h[0]) = T[Plus(x, a)][g[0]]
  <2>1. Divides(F, T, size, u, a, h, v)
    BY Division
  <2>. QED  BY <1>1, <1>2, <2>1 DEF Divides
<1>4. T[Plus(x, a)][g[0]] = Zero
  BY <1>1, <1>3, Sums
<1>5. Plus(x, a) # Zero
  BY Sums
<1>6. Plus(x, a) \in F /\ g[0] \in F
  BY Laws
<1>7. g[0] = Zero
  BY <1>4, <1>5, <1>6, NoDivisors
<1>. QED  BY <1>2, <1>7 DEF IsRoot

\* A polynomial of n elements with n roots is zero.
LEMMA Roots ==
    ASSUME NEW F, NEW T, IsField(F, T), NEW size \in Nat
    PROVE  \A n \in Nat : \A u \in [0..size-1 -> F], Z \in SUBSET F :
              /\ IsFiniteSet(Z) /\ Cardinality(Z) >= n /\ Ends(size, u, n)
              /\ \A x \in Z : IsRoot(F, T, size, u, x)
              => IsZero(0..size-1, u)
<1> DEFINE X == 0..size-1
           P == {n \in Nat : \A u \in [X -> F], Z \in SUBSET F :
              /\ IsFiniteSet(Z) /\ Cardinality(Z) >= n /\ Ends(size, u, n)
              /\ \A x \in Z : IsRoot(F, T, size, u, x)
              => IsZero(X, u)}
<1>1. 0 \in P
  <2>1. \A u \in [X -> F] : Ends(size, u, 0) => IsZero(X, u)
    BY DEF Ends, IsZero
  <2>. QED  BY <2>1
<1>2. ASSUME NEW n \in Nat, n \in P PROVE n + 1 \in P
  <2> SUFFICES ASSUME NEW u \in [X -> F], NEW Z \in SUBSET F,
                      IsFiniteSet(Z), Cardinality(Z) >= n + 1, Ends(size, u, n + 1),
                      \A x \in Z : IsRoot(F, T, size, u, x)
               PROVE  IsZero(X, u)
    OBVIOUS
  <2>1. Cardinality(Z) \in Nat /\ Z # {}
    BY FS_CardinalityType, FS_EmptySet
  <2>2. PICK a \in Z : TRUE
    BY <2>1
  <2>3. PICK h \in [0..size -> F] : IsHorner(T, size, u, a, h) /\ h[0] = Zero
    BY DEF IsRoot
  <2> DEFINE Y == Z \ {a}
  <2>4. PICK v \in [X -> F] : AreTails(size, v, h)
    <3>1. [c \in X |-> h[c + 1]] \in [X -> F]
      OBVIOUS
    <3>2. AreTails(size, [c \in X |-> h[c + 1]], h)
      BY DEF AreTails
    <3>. QED  BY <3>1, <3>2
  <2>5. Ends(size, v, n)
    <3> DEFINE Q == {c \in 0..size : c >= n + 1 => h[c] = Zero}
    <3>1. size \in Q
      BY <2>3 DEF IsHorner
    <3>2. ASSUME NEW c \in X, c + 1 \in Q PROVE c \in Q
      <4>1. SUFFICES ASSUME c >= n + 1 PROVE h[c] = Zero
        OBVIOUS
      <4>2. h[c + 1] = Zero /\ u[c] = Zero
        BY <3>2, <4>1 DEF Ends
      <4>3. T[a][Zero] = Zero
        BY Laws
      <4>4. h[c] = Plus(Zero, Zero)
        BY <2>3, <4>2, <4>3 DEF IsHorner
      <4>. QED  BY <4>4, Sums
    <3>3. \A c \in 0..size : c \in Q
      <4> HIDE DEF Q
      <4>. QED  BY <3>1, <3>2, DownInduction
    <3>4. \A c \in X : c >= n => h[c + 1] = Zero
      BY <3>3
    <3>. QED  BY <2>4, <3>4 DEF Ends, AreTails
  <2>6. ASSUME NEW x \in Y PROVE IsRoot(F, T, size, v, x)
    <3>1. x \in F /\ x # a /\ a \in F
      OBVIOUS
    <3>2. IsRoot(F, T, size, u, x)
      OBVIOUS
    <3>. QED  BY <2>3, <2>4, <3>1, <3>2, QuotientRoot
  <2>7. IsFiniteSet(Y) /\ Cardinality(Y) >= n
    <3>1. Cardinality(Y) = Cardinality(Z) - 1 /\ IsFiniteSet(Y)
      BY FS_RemoveElement
    <3>. QED  BY <2>1, <3>1
  <2>8. IsZero(X, v)
    <3>1. Y \in SUBSET F
      OBVIOUS
    <3> HIDE DEF Y
    <3>. QED  BY <1>2, <2>4, <2>5, <2>6, <2>7, <3>1
  <2>9. ASSUME NEW c \in 0..size PROVE h[c] = Zero
    <3>1. CASE c = 0
      BY <2>3, <3>1
    <3>2. CASE c \in 1..size
      <4>1. c - 1 \in X /\ (c - 1) + 1 = c
        BY <3>2
      <4>. QED  BY <2>4, <2>8, <4>1 DEF AreTails, IsZero
    <3>. QED  BY <3>1, <3>2
  <2>10. ASSUME NEW c \in X PROVE u[c] = Zero
    <3>1. c \in 0..size /\ c + 1 \in 0..size
      OBVIOUS
    <3>2. h[c] = Plus(u[c], T[a][h[c + 1]])
      BY <2>3 DEF IsHorner
    <3>3. T[a][Zero] = Zero
      BY Laws
    <3>4. Plus(u[c], Zero) = Zero
      BY <2>9, <3>1, <3>2, <3>3
    <3>. QED  BY <3>4, Sums
  <2>. QED  BY <2>10 DEF IsZero
<1>3. \A n \in Nat : n \in P
  <2> HIDE DEF P
  <2>. QED  BY <1>1, <1>2, SetInduction
<1>. QED  BY <1>3


\* Row r of a Vandermonde matrix holds the powers of point[r], all different;
\* the last row is that of infinity.
IsVandermonde(T, size, top, point, a) ==
    /\ \A r \in 0..top-1 : IsPowers(T, size, point[r], a[r])
    /\ a[top] = UnitOf(0..size-1, size-1)
    /\ \A r, s \in 0..top-1 : point[r] = point[s] => r = s

LEMMA VandermondeDetermines ==
    ASSUME NEW F, NEW T, IsField(F, T), NEW size \in Nat \ {0}, NEW top \in Nat,
           NEW a \in [0..top -> [0..size-1 -> F]], NEW point \in [0..top-1 -> F],
           IsVandermonde(T, size, top, point, a)
    PROVE  Determines(F, T, 0..size-1, 0..top, a)
<1> DEFINE X == 0..size-1   N == 0..top
<1> SUFFICES ASSUME NEW u \in [X -> F], Cardinality(ZeroRows(T, X, N, a, u)) >= Cardinality(X)
             PROVE  IsZero(X, u)
  BY DEF Determines
<1> DEFINE S == ZeroRows(T, X, N, a, u)
           R == S \ {top}
           Z == {point[r] : r \in R}
           f == [r \in R |-> point[r]]
<1>1. IsFiniteSet(X) /\ Cardinality(X) = size /\ IsFiniteSet(N)
  BY FS_Interval
<1>2. S \subseteq N /\ IsFiniteSet(S) /\ Cardinality(S) \in Nat /\ Cardinality(S) >= size
  BY <1>1, FS_Subset, FS_CardinalityType DEF ZeroRows
<1>3. R \subseteq 0..top-1 /\ IsFiniteSet(R)
  <2>1. \A r \in 0..top : r # top => r \in 0..top-1
    OBVIOUS
  <2> HIDE DEF S
  <2>. QED  BY <1>2, <2>1, FS_Subset
<1>4. IsFiniteSet(Z) /\ Cardinality(Z) = Cardinality(R) /\ Z \in SUBSET F
  <2> HIDE DEF R
  <2>1. f \in [R -> Z]
    OBVIOUS
  <2>2. \A x, y \in R : f[x] = f[y] => x = y
    BY <1>3 DEF IsVandermonde
  <2>3. \A y \in Z : \E x \in R : f[x] = y
    OBVIOUS
  <2>4. Z \in SUBSET F
    BY <1>3
  <2> HIDE DEF f, Z
  <2>. QED  BY <1>3, <2>1, <2>2, <2>3, <2>4, SameSize
<1>5. ASSUME NEW z \in Z PROVE IsRoot(F, T, size, u, z)
  <2>1. PICK r \in R : z = point[r]
    OBVIOUS
  <2>2. r \in 0..top-1 /\ r \in N /\ z \in F
    BY <1>3, <2>1
  <2>3. PICK p \in [X -> F] : p = a[r]
    BY <2>2
  <2>4. IsPowers(T, size, z, p)
    BY <2>1, <2>2, <2>3 DEF IsVandermonde
  <2>5. PICK h \in [0..size -> F] : IsHorner(T, size, u, z, h)
    BY <2>2, HornerExists
  <2>6. Dot(T, X, p, u) = h[0]
    BY <2>2, <2>4, <2>5, IsField(F, T), p \in [X -> F], u \in [X -> F], PowersEvaluate
  <2>7. Dot(T, X, p, u) = Zero
    BY <2>3 DEF ZeroRows
  <2>. QED  BY <2>5, <2>6, <2>7 DEF IsRoot
<1> HIDE DEF Z
<1>6. CASE top \in S
  <2>1. Cardinality(R) = Cardinality(S) - 1
    <3> HIDE DEF S
    <3>. QED  BY <1>2, <1>6, FS_RemoveElement
  <2>2. u[size - 1] = Zero
    <3>1. size - 1 \in X
      OBVIOUS
    <3>2. Dot(T, X, UnitOf(X, size - 1), u) = u[size - 1]
      BY <1>1, <3>1, DotUnit
    <3>. QED  BY <1>6, <3>2 DEF ZeroRows, IsVandermonde
  <2>3. Ends(size, u, size - 1)
    <3>1. \A c \in X : c >= size - 1 => c = size - 1
      OBVIOUS
    <3>. QED  BY <2>2, <3>1 DEF Ends
  <2>4. size - 1 \in Nat /\ Cardinality(Z) >= size - 1
    <3> HIDE DEF S, R
    <3>. QED  BY <1>2, <1>4, <2>1
  <2> HIDE DEF S, R
  <2>. QED  BY <1>4, <1>5, <2>3, <2>4, Roots
<1>7. CASE top \notin S
  <2>1. R = S
    BY <1>7
  <2>2. Ends(size, u, size)
    BY DEF Ends
  <2> HIDE DEF S, R
  <2>3. Cardinality(Z) >= size
    BY <1>2, <1>4, <2>1
  <2>. QED  BY <1>4, <1>5, <2>2, <2>3, Roots
<1>. QED  BY <1>6, <1>7


-----------------------------------------------------------------------------
(* The Cauchy matrix: the inverses of the sums of different points.         *)

\* Of rows x and y and columns d and c: p and q are the inverses of x + c and of
\* y + c, v is the element of the vector in column c.
AreInverses(F, T, s, t, p, q, e, v) ==
    /\ s \in F /\ t \in F /\ p \in F /\ q \in F /\ e \in F /\ v \in F
    /\ T[s][p] = One /\ T[t][q] = One
CancelsInverse(T, e, r, x, v) == T[Plus(e, r)][T[x][v]] = Plus(T[T[v][e]][x], v)
InversesAgree(T, s, t, p, q, e, v) ==
    T[Plus(s, t)][T[q][T[T[v][e]][p]]] = Plus(T[Plus(e, s)][T[p][v]], T[Plus(e, t)][T[q][v]])
AreCauchy(F, T, x, y, d, c, p, q, v, o) ==
    /\ x \in F /\ y \in F /\ d \in F /\ c \in F /\ p \in F /\ q \in F /\ v \in F
    /\ T[Plus(x, c)][p] = One /\ T[Plus(y, c)][q] = One
    /\ o = T[T[v][Plus(d, c)]][p]

LEMMA FieldLaws ==
    ASSUME NEW F, NEW T, IsField(F, T)
    PROVE  /\ \A x, y \in F : Plus(x, y) \in F /\ T[x][y] \in F /\ T[x][y] = T[y][x]
           /\ \A x, y, z \in F : T[x][T[y][z]] = T[T[x][y]][z] /\ T[x][T[y][z]] = T[y][T[x][z]]
           /\ \A x, y, z \in F : T[x][Plus(y, z)] = Plus(T[x][y], T[x][z])
           /\ \A x, y, z \in F : T[Plus(y, z)][x] = Plus(T[y][x], T[z][x])
           /\ \A x \in F : T[One][x] = x /\ T[x][One] = x
<1>1. \A x, y \in F : Plus(x, y) \in F /\ T[x][y] \in F /\ T[x][y] = T[y][x]
  BY DEF IsField
<1>2. \A x, y, z \in F : T[x][T[y][z]] = T[T[x][y]][z] /\ T[x][T[y][z]] = T[y][T[x][z]]
  BY Associates
<1>3. \A x, y, z \in F : T[x][Plus(y, z)] = Plus(T[x][y], T[x][z])
  BY Distributes
<1>4. \A x, y, z \in F : T[Plus(y, z)][x] = Plus(T[y][x], T[z][x])
  BY Distributes
<1>5. \A x \in F : T[One][x] = x /\ T[x][One] = x
  BY Laws
<1>. QED  BY <1>1, <1>2, <1>3, <1>4, <1>5, Zenon

LEMMA ZeroLaws ==
    ASSUME NEW F, NEW T, IsField(F, T)
    PROVE  \A x \in F : T[x][Zero] = Zero /\ T[Zero][x] = Zero
<1> SUFFICES ASSUME NEW x \in F PROVE T[x][Zero] = Zero /\ T[Zero][x] = Zero
  OBVIOUS
<1>1. T[x][Zero] = Zero /\ Zero \in F
  BY DEF IsField
<1>2. T[x][Zero] = T[Zero][x]
  BY <1>1 DEF IsField
<1>. QED  BY <1>1, <1>2

LEMMA OneInverse ==
    ASSUME NEW F, NEW T, IsField(F, T), NEW e \in F, NEW r \in F, NEW x \in F, NEW v \in F,
           T[r][x] = One
    PROVE  CancelsInverse(T, e, r, x, v)
<1>11. \A y, z \in F : T[y][z] \in F /\ T[y][z] = T[z][y]
  BY FieldLaws
<1>12. \A c, y, z \in F : T[c][T[y][z]] = T[T[c][y]][z]
  BY FieldLaws
<1>13. \A c, y, z \in F : T[c][T[y][z]] = T[y][T[c][z]]
  BY FieldLaws
<1>14. \A c, y, z \in F : T[Plus(y, z)][c] = Plus(T[y][c], T[z][c])
  BY FieldLaws
<1>15. T[One][v] = v
  BY FieldLaws
<1>1. T[x][v] \in F /\ T[v][e] = T[e][v] /\ T[e][v] \in F
  BY <1>11
<1>2. T[Plus(e, r)][T[x][v]] = Plus(T[e][T[x][v]], T[r][T[x][v]])
  BY <1>14, <1>1
<1>3. T[e][T[x][v]] = T[x][T[e][v]]
  BY <1>13
<1>4. T[r][T[x][v]] = v
  BY <1>12, <1>15
<1>5. T[x][T[e][v]] = T[T[e][v]][x]
  BY <1>11, <1>1
<1>6. T[Plus(e, r)][T[x][v]] = Plus(T[T[v][e]][x], v)
  BY <1>1, <1>2, <1>3, <1>4, <1>5
<1>. QED  BY <1>6 DEF CancelsInverse

LEMMA TwoInverses ==
    ASSUME NEW F, NEW T, IsField(F, T), NEW s, NEW t, NEW p, NEW q, NEW e, NEW v,
           AreInverses(F, T, s, t, p, q, e, v)
    PROVE  InversesAgree(T, s, t, p, q, e, v)
<1>11. \A y, z \in F : Plus(y, z) \in F /\ T[y][z] \in F /\ T[y][z] = T[z][y]
  BY FieldLaws
<1>12. \A c, y, z \in F : T[c][T[y][z]] = T[T[c][y]][z]
  BY FieldLaws
<1>13. \A c, y, z \in F : T[c][T[y][z]] = T[y][T[c][z]]
  BY FieldLaws
<1>14. \A c, y, z \in F : T[c][Plus(y, z)] = Plus(T[c][y], T[c][z])
  BY FieldLaws
<1>15. \A c, y, z \in F : T[Plus(y, z)][c] = Plus(T[y][c], T[z][c])
  BY FieldLaws
<1>16. \A c \in F : T[One][c] = c
  BY FieldLaws
<1>1. /\ s \in F /\ t \in F /\ p \in F /\ q \in F /\ e \in F /\ v \in F
      /\ T[s][p] = One /\ T[t][q] = One
  BY DEF AreInverses
<1> PICK z \in F, y \in F : z = Plus(s, t) /\ y = T[v][e]
  BY <1>11, <1>1
<1>2. T[q][p] \in F /\ T[q][p] = T[p][q]
  BY <1>11, <1>1
<1>3. T[z][T[q][p]] = Plus(p, q)
  <2>1. T[z][T[q][p]] = Plus(T[s][T[q][p]], T[t][T[q][p]])
    BY <1>15, <1>1, <1>2
  <2>2. T[s][T[p][q]] = T[T[s][p]][q] /\ T[t][T[q][p]] = T[T[t][q]][p]
    BY <1>12, <1>1
  <2>3. T[One][q] = q /\ T[One][p] = p
    BY <1>16, <1>1
  <2>4. Plus(q, p) = Plus(p, q)
    BY Sums
  <2>. QED  BY <1>1, <1>2, <2>1, <2>2, <2>3, <2>4
<1>4. T[q][T[y][p]] = T[y][T[q][p]]
  BY <1>13, <1>1
<1>5. T[z][T[y][T[q][p]]] = T[y][T[z][T[q][p]]]
  BY <1>13, <1>2
<1>6. T[y][Plus(p, q)] = Plus(T[y][p], T[y][q])
  BY <1>14, <1>1
<1>7. T[Plus(e, s)][T[p][v]] = Plus(T[y][p], v)
  <2>1. CancelsInverse(T, e, s, p, v)
    BY <1>1, OneInverse
  <2>. QED  BY <2>1 DEF CancelsInverse
<1>8. T[Plus(e, t)][T[q][v]] = Plus(T[y][q], v)
  <2>1. CancelsInverse(T, e, t, q, v)
    BY <1>1, OneInverse
  <2>. QED  BY <2>1 DEF CancelsInverse
<1>9. \A b, c : Plus(Plus(b, v), Plus(c, v)) = Plus(b, c)
  BY DEF Plus
<1>10. T[Plus(s, t)][T[q][T[T[v][e]][p]]]
         = Plus(T[Plus(e, s)][T[p][v]], T[Plus(e, t)][T[q][v]])
  BY <1>3, <1>4, <1>5, <1>6, <1>7, <1>8, <1>9
<1>. QED  BY <1>10 DEF InversesAgree

LEMMA CauchyTerm ==
    ASSUME NEW F, NEW T, IsField(F, T), NEW x, NEW y, NEW d, NEW c, NEW p, NEW q, NEW v,
           NEW o, AreCauchy(F, T, x, y, d, c, p, q, v, o)
    PROVE  T[Plus(x, y)][T[q][o]] = Plus(T[Plus(d, x)][T[p][v]], T[Plus(d, y)][T[q][v]])
<1> PICK s, t, e : s = Plus(x, c) /\ t = Plus(y, c) /\ e = Plus(d, c)
  OBVIOUS
<1>1. AreInverses(F, T, s, t, p, q, e, v) /\ o = T[T[v][e]][p]
  BY DEF AreCauchy, AreInverses, IsField
<1>2. Plus(s, t) = Plus(x, y) /\ Plus(e, s) = Plus(d, x) /\ Plus(e, t) = Plus(d, y)
  <2>1. \A b, n : Plus(Plus(b, c), Plus(n, c)) = Plus(b, n)
    BY DEF Plus
  <2>. QED  BY <2>1
<1>3. T[Plus(s, t)][T[q][o]] = Plus(T[Plus(e, s)][T[p][v]], T[Plus(e, t)][T[q][v]])
  <2>1. T[Plus(s, t)][T[q][T[T[v][e]][p]]]
          = Plus(T[Plus(e, s)][T[p][v]], T[Plus(e, t)][T[q][v]])
    <3>1. AreInverses(F, T, s, t, p, q, e, v)
      BY <1>1
    <3>2. InversesAgree(T, s, t, p, q, e, v)
      BY <3>1, TwoInverses
    <3>. QED  BY <3>2 DEF InversesAgree
  <2>. QED  BY <1>1, <2>1
<1>. QED  BY <1>2, <1>3

LEMMA TimesTotal ==
    ASSUME NEW F, NEW T, IsField(F, T), NEW X, IsFiniteSet(X)
    PROVE  \A a \in F, f \in [X -> F] : Total(X, AllTimes(T, X, f, a)) = T[a][Total(X, f)]
<1> SUFFICES ASSUME NEW a \in F, NEW f \in [X -> F]
             PROVE  Total(X, AllTimes(T, X, f, a)) = T[a][Total(X, f)]
  OBVIOUS
<1>1. \A c \in X : AllTimes(T, X, f, a)[c] = T[a][f[c]]
  BY DEF AllTimes
<1>. QED  BY <1>1, TotalTimes

IsCauchy(F, T, X, N, p, q, a) ==
    /\ \A r \in N, c \in X : p[r] # q[c] /\ T[Plus(p[r], q[c])][a[r][c]] = One
    /\ \A r, s \in N : p[r] = p[s] => r = s
    /\ \A c, d \in X : q[c] = q[d] => c = d

\* Column d is taken out of the vector u with the help of row r.
Without(T, X, q, a, u, r, d) == [c \in X |-> T[T[u[c]][Plus(q[d], q[c])]][a[r][c]]]

TakesOut(T, X, N, q, a, u, d) ==
    \A r, s \in N : r # s /\ Dot(T, X, a[r], u) = Zero /\ Dot(T, X, a[s], u) = Zero =>
        Dot(T, X, a[s], Without(T, X, q, a, u, r, d)) = Zero

LEMMA WithoutColumn ==
    ASSUME NEW F, NEW T, IsField(F, T), NEW X, IsFiniteSet(X), NEW N,
           NEW p \in [N -> F], NEW q \in [X -> F], NEW a \in [N -> [X -> F]],
           IsCauchy(F, T, X, N, p, q, a), NEW u \in [X -> F], NEW d \in X
    PROVE  TakesOut(T, X, N, q, a, u, d)
<1> SUFFICES ASSUME NEW r \in N, NEW s \in N, r # s,
                    Dot(T, X, a[r], u) = Zero, Dot(T, X, a[s], u) = Zero
             PROVE  Dot(T, X, a[s], Without(T, X, q, a, u, r, d)) = Zero
  BY DEF TakesOut
<1> DEFINE v == Without(T, X, q, a, u, r, d)
<1>0. PICK z \in F, y \in F, x \in F :
          z = Plus(p[r], p[s]) /\ y = Plus(q[d], p[r]) /\ x = Plus(q[d], p[s])
  BY Laws
<1> DEFINE f == [c \in X |-> T[a[s][c]][v[c]]]
           g == [c \in X |-> T[a[r][c]][u[c]]]   h == [c \in X |-> T[a[s][c]][u[c]]]
           fz == AllTimes(T, X, f, z)
           gy == AllTimes(T, X, g, y)   hx == AllTimes(T, X, h, x)
<1>1. ASSUME NEW c \in X
      PROVE  /\ fz[c] = Plus(gy[c], hx[c])
             /\ f[c] \in F /\ g[c] \in F /\ h[c] \in F /\ v[c] \in F
  <2>0. \A b, e \in F : Plus(b, e) \in F /\ T[b][e] \in F
    BY DEF IsField
  <2>1. /\ p[r] \in F /\ p[s] \in F /\ q[d] \in F /\ q[c] \in F
        /\ a[r][c] \in F /\ a[s][c] \in F /\ u[c] \in F
    OBVIOUS
  <2>2. T[Plus(p[r], q[c])][a[r][c]] = One /\ T[Plus(p[s], q[c])][a[s][c]] = One
    BY DEF IsCauchy
  <2>3. v[c] = T[T[u[c]][Plus(q[d], q[c])]][a[r][c]]
    BY DEF Without
  <2>4. v[c] \in F
    BY <2>0, <2>1, <2>3
  <2> HIDE DEF v
  <2>5. T[z][T[a[s][c]][v[c]]] = Plus(T[y][T[a[r][c]][u[c]]], T[x][T[a[s][c]][u[c]]])
    <3>1. AreCauchy(F, T, p[r], p[s], q[d], q[c], a[r][c], a[s][c], u[c], v[c])
      BY <2>1, <2>2, <2>3 DEF AreCauchy
    <3>2. T[Plus(p[r], p[s])][T[a[s][c]][v[c]]]
            = Plus(T[Plus(q[d], p[r])][T[a[r][c]][u[c]]], T[Plus(q[d], p[s])][T[a[s][c]][u[c]]])
      BY <3>1, CauchyTerm
    <3>. QED  BY <1>0, <3>2
  <2>6. f[c] = T[a[s][c]][v[c]] /\ g[c] = T[a[r][c]][u[c]] /\ h[c] = T[a[s][c]][u[c]]
    OBVIOUS
  <2>7. f[c] \in F /\ g[c] \in F /\ h[c] \in F
    BY <2>0, <2>1, <2>4, <2>6
  <2>8. fz[c] = T[z][f[c]] /\ gy[c] = T[y][g[c]] /\ hx[c] = T[x][h[c]]
    BY DEF AllTimes
  <2> HIDE DEF f, g, h, fz, gy, hx
  <2>. QED  BY <2>4, <2>5, <2>6, <2>7, <2>8
<1>2. f \in [X -> F] /\ g \in [X -> F] /\ h \in [X -> F]
  BY <1>1
<1>3. Total(X, g) = Zero /\ Total(X, h) = Zero
  BY DEF Dot
<1>4. z # Zero
  <2>1. p[r] # p[s]
    BY DEF IsCauchy
  <2>2. \A b, e : Plus(b, e) = Zero <=> b = e
    BY Sums
  <2>. QED  BY <1>0, <2>1, <2>2
<1>5. Dot(T, X, a[s], v) = Total(X, f)
  BY DEF Dot
<1> HIDE DEF f, g, h
<1>6. /\ Total(X, fz) = T[z][Total(X, f)] /\ Total(X, gy) = T[y][Total(X, g)]
      /\ Total(X, hx) = T[x][Total(X, h)]
  <2>1. \A b \in F, e \in [X -> F] :
          Total(X, AllTimes(T, X, e, b)) = T[b][Total(X, e)]
    BY TimesTotal
  <2>. QED  BY <1>2, <2>1
<1>7. Total(X, fz) = Plus(Total(X, gy), Total(X, hx))
  <2> HIDE DEF fz, gy, hx
  <2>. QED  BY <1>1, TotalPlus
<1>8. T[y][Zero] = Zero /\ T[x][Zero] = Zero
  BY Laws
<1>9. T[z][Total(X, f)] = Zero
  <2>1. Plus(Zero, Zero) = Zero
    BY Sums
  <2>. QED  BY <1>3, <1>6, <1>7, <1>8, <2>1
<1>10. Total(X, f) \in F
  BY <1>2, TotalType
<1>. QED  BY <1>4, <1>5, <1>9, <1>10, NoDivisors


\* A vector that is zero outside D is zero when as many rows as D has columns
\* make it so.
AreSolved(F, T, X, N, a, D) ==
    \A u \in [X -> F], Z \in SUBSET N :
        /\ IsFiniteSet(Z) /\ Cardinality(Z) >= Cardinality(D)
        /\ \A c \in X \ D : u[c] = Zero
        /\ \A r \in Z : Dot(T, X, a[r], u) = Zero
        => IsZero(X, u)

LEMMA CauchySolved ==
    ASSUME NEW F, NEW T, IsField(F, T), NEW X, IsFiniteSet(X), NEW N,
           NEW p \in [N -> F], NEW q \in [X -> F], NEW a \in [N -> [X -> F]],
           IsCauchy(F, T, X, N, p, q, a),
           NEW D \in SUBSET X, NEW d \in X \ D, AreSolved(F, T, X, N, a, D)
    PROVE  AreSolved(F, T, X, N, a, D \cup {d})
<1> SUFFICES ASSUME NEW u \in [X -> F], NEW Z \in SUBSET N, IsFiniteSet(Z),
                    Cardinality(Z) >= Cardinality(D \cup {d}),
                    \A c \in X \ (D \cup {d}) : u[c] = Zero,
                    \A r \in Z : Dot(T, X, a[r], u) = Zero
             PROVE  IsZero(X, u)
  BY DEF AreSolved
<1>1. /\ Cardinality(D \cup {d}) = Cardinality(D) + 1 /\ Cardinality(D) \in Nat
      /\ Cardinality(Z) \in Nat
  BY FS_Subset, FS_AddElement, FS_CardinalityType
<1>2. PICK r \in Z : TRUE
  BY <1>1, FS_EmptySet
<1>3. IsFiniteSet(Z \ {r}) /\ Cardinality(Z \ {r}) >= Cardinality(D)
  <2>1. IsFiniteSet(Z \ {r}) /\ Cardinality(Z \ {r}) = Cardinality(Z) - 1
    BY FS_RemoveElement
  <2>. QED  BY <1>1, <2>1
<1> DEFINE v == Without(T, X, q, a, u, r, d)
<1>4. ASSUME NEW c \in X
      PROVE  /\ v[c] = T[T[u[c]][Plus(q[d], q[c])]][a[r][c]]
             /\ T[u[c]][Plus(q[d], q[c])] \in F /\ v[c] \in F
  <2>1. v[c] = T[T[u[c]][Plus(q[d], q[c])]][a[r][c]]
    BY DEF Without
  <2>2. \A y, z \in F : Plus(y, z) \in F /\ T[y][z] \in F
    BY DEF IsField
  <2>3. T[u[c]][Plus(q[d], q[c])] \in F
    BY <2>2
  <2>4. a[r][c] \in F
    OBVIOUS
  <2> HIDE DEF v
  <2>. QED  BY <2>1, <2>2, <2>3, <2>4
<1>5. v \in [X -> F]
  <2>1. DOMAIN v = X /\ v = [c \in X |-> v[c]]
    BY DEF Without
  <2> HIDE DEF v
  <2>. QED  BY <1>4, <2>1
<1>6. ASSUME NEW c \in X \ D PROVE v[c] = Zero
  <2>1. \A y \in F : T[y][Zero] = Zero /\ T[Zero][y] = Zero
    BY ZeroLaws
  <2>2. CASE c = d
    <3>1. Plus(q[d], q[c]) = Zero
      BY <2>2, Sums
    <3>2. T[u[c]][Zero] = Zero /\ T[Zero][a[r][c]] = Zero
      BY <2>1
    <3> HIDE DEF v
    <3>. QED  BY <1>4, <3>1, <3>2
  <2>3. CASE c # d
    <3>1. u[c] = Zero
      BY <2>3
    <3>2. T[Zero][Plus(q[d], q[c])] = Zero /\ T[Zero][a[r][c]] = Zero
      <4>1. Plus(q[d], q[c]) \in F
        BY DEF IsField
      <4>. QED  BY <2>1, <4>1
    <3> HIDE DEF v
    <3>. QED  BY <1>4, <3>1, <3>2
  <2>. QED  BY <2>2, <2>3
<1>7. ASSUME NEW s \in Z \ {r} PROVE Dot(T, X, a[s], v) = Zero
  <2>1. r \in N /\ s \in N /\ r # s /\ d \in X
    OBVIOUS
  <2>2. Dot(T, X, a[r], u) = Zero /\ Dot(T, X, a[s], u) = Zero
    OBVIOUS
  <2>3. TakesOut(T, X, N, q, a, u, d)
    BY WithoutColumn
  <2>. QED  BY <2>1, <2>2, <2>3 DEF TakesOut
<1> HIDE DEF v
<1>8. IsZero(X, v)
  <2>1. Z \ {r} \in SUBSET N
    OBVIOUS
  <2>. QED  BY <1>3, <1>5, <1>6, <1>7, <2>1 DEF AreSolved
<1>9. ASSUME NEW c \in X PROVE a[r][c] # Zero
  <2> PICK z : z = Plus(p[r], q[c])
    OBVIOUS
  <2>1. T[z][a[r][c]] = One
    <3>1. T[Plus(p[r], q[c])][a[r][c]] = One
      BY DEF IsCauchy
    <3>. QED  BY <3>1
  <2>2. T[z][Zero] = Zero /\ One # Zero
    <3>1. \A y, e \in F : Plus(y, e) \in F
      BY DEF IsField
    <3>2. z \in F
      BY <3>1
    <3>. QED  BY <3>2 DEF IsField
  <2>. QED  BY <2>1, <2>2
<1>12. \A y, z \in F : T[y][z] = T[z][y] /\ T[y][z] \in F /\ Plus(y, z) \in F
  BY FieldLaws
<1>13. \A y, z \in F : T[y][z] = Zero /\ z # Zero => y = Zero
  <2>1. \A y, z \in F : T[z][y] = Zero /\ z # Zero => y = Zero
    BY NoDivisors
  <2>. QED  BY <1>12, <2>1
<1>10. ASSUME NEW c \in X, c # d PROVE u[c] = Zero
  <2> PICK z \in F : z = Plus(q[d], q[c])
    BY <1>12
  <2>1. z # Zero
    <3>1. q[d] # q[c]
      BY <1>10 DEF IsCauchy
    <3>. QED  BY <3>1, Sums
  <2>2. T[T[u[c]][z]][a[r][c]] = Zero /\ T[u[c]][z] \in F
    BY <1>4, <1>8 DEF IsZero
  <2>3. a[r][c] # Zero /\ a[r][c] \in F /\ u[c] \in F
    BY <1>9
  <2>4. T[u[c]][z] = Zero
    BY <1>13, <2>2, <2>3
  <2>. QED  BY <1>13, <2>1, <2>3, <2>4
<1>11. u[d] = Zero
  <2>1. Dot(T, X, a[r], u) = T[a[r][d]][u[d]]
    <3> DEFINE f == [c \in X |-> T[a[r][c]][u[c]]]
    <3>1. \A c \in X : c # d => f[c] = Zero
      <4>1. \A y \in F : T[y][Zero] = Zero
        BY Laws
      <4>. QED  BY <1>10, <4>1
    <3>2. f[d] = T[a[r][d]][u[d]]
      OBVIOUS
    <3>3. Dot(T, X, a[r], u) = Total(X, f)
      BY DEF Dot
    <3> HIDE DEF f
    <3>4. Total(X, f) = f[d]
      BY <3>1, TotalOne
    <3>. QED  BY <3>2, <3>3, <3>4
  <2>2. T[a[r][d]][u[d]] = Zero
    BY <2>1
  <2>3. a[r][d] # Zero /\ a[r][d] \in F /\ u[d] \in F
    BY <1>9
  <2>. QED  BY <2>2, <2>3, NoDivisors
<1>. QED  BY <1>10, <1>11 DEF IsZero

LEMMA CauchyRegular ==
    ASSUME NEW F, NEW T, IsField(F, T), NEW X, IsFiniteSet(X), NEW N, IsFiniteSet(N),
           NEW p \in [N -> F], NEW q \in [X -> F], NEW a \in [N -> [X -> F]],
           IsCauchy(F, T, X, N, p, q, a)
    PROVE  Regular(F, T, X, N, a)
<1> DEFINE P == {D \in SUBSET X : AreSolved(F, T, X, N, a, D)}
<1>1. {} \in P
  BY DEF AreSolved, IsZero
<1>2. ASSUME NEW D \in SUBSET X, NEW d \in X \ D, D \in P PROVE D \cup {d} \in P
  <2>1. AreSolved(F, T, X, N, a, D)
    BY <1>2
  <2>2. AreSolved(F, T, X, N, a, D \cup {d})
    BY <2>1, CauchySolved
  <2>. QED  BY <2>2
<1>3. \A D \in SUBSET X : D \in P
  <2> HIDE DEF P
  <2>. QED  BY <1>1, <1>2, PartInduction
<1> SUFFICES ASSUME NEW u \in [X -> F],
                    Cardinality(ZerosOf(X, u)) + Cardinality(ZeroRows(T, X, N, a, u))
                      >= Cardinality(X)
             PROVE  IsZero(X, u)
  BY DEF Regular
<1> DEFINE Z == ZeroRows(T, X, N, a, u)   D == X \ ZerosOf(X, u)
<1>4. AreSolved(F, T, X, N, a, D)
  <2>1. D \in SUBSET X
    OBVIOUS
  <2>. QED  BY <1>3, <2>1
<1>5. Z \in SUBSET N /\ IsFiniteSet(Z) /\ \A r \in Z : Dot(T, X, a[r], u) = Zero
  BY FS_Subset DEF ZeroRows
<1>6. \A c \in X \ D : u[c] = Zero
  BY DEF ZerosOf
<1>7. Cardinality(Z) >= Cardinality(D)
  <2>1. ZerosOf(X, u) \subseteq X
    BY DEF ZerosOf
  <2>2. X \cap ZerosOf(X, u) = ZerosOf(X, u)
    BY <2>1
  <2>3. Cardinality(D) = Cardinality(X) - Cardinality(ZerosOf(X, u))
    BY <2>2, FS_Difference
  <2>4. IsFiniteSet(ZerosOf(X, u))
    BY <2>1, FS_Subset
  <2>5. /\ Cardinality(Z) \in Nat /\ Cardinality(X) \in Nat
        /\ Cardinality(ZerosOf(X, u)) \in Nat
    BY <1>5, <2>4, FS_CardinalityType
  <2>6. Cardinality(ZerosOf(X, u)) + Cardinality(Z) >= Cardinality(X)
    OBVIOUS
  <2> HIDE DEF Z, D
  <2>. QED  BY <2>3, <2>5, <2>6
<1> HIDE DEF Z, D
<1>. QED  BY <1>4, <1>5, <1>6, <1>7 DEF AreSolved


-----------------------------------------------------------------------------
(* A row of ones and a row of different elements.                           *)

LEMMA DotOfOne ==
    ASSUME NEW F, NEW T, IsField(F, T), NEW X, IsFiniteSet(X), NEW v \in [X -> F],
           NEW u \in [X -> F], NEW d \in X, \A c \in X : c # d => u[c] = Zero
    PROVE  Dot(T, X, v, u) = T[v[d]][u[d]]
<1> DEFINE f == [c \in X |-> T[v[c]][u[c]]]
<1>1. \A c \in X : c # d => f[c] = Zero
  <2>1. \A y \in F : T[y][Zero] = Zero
    BY ZeroLaws
  <2>. QED  BY <2>1
<1>2. f[d] = T[v[d]][u[d]] /\ Dot(T, X, v, u) = Total(X, f)
  BY DEF Dot
<1> HIDE DEF f
<1>3. Total(X, f) = f[d]
  BY <1>1, TotalOne
<1>. QED  BY <1>2, <1>3

IsPair(X, u, d, e) ==
    d \in X /\ e \in X /\ d # e /\ \A c \in X : c # d /\ c # e => u[c] = Zero

LEMMA DotOfTwo ==
    ASSUME NEW F, NEW T, IsField(F, T), NEW X, IsFiniteSet(X), NEW v \in [X -> F],
           NEW u \in [X -> F], NEW d, NEW e, IsPair(X, u, d, e)
    PROVE  Dot(T, X, v, u) = Plus(T[v[d]][u[d]], T[v[e]][u[e]])
<1>0. d \in X /\ e \in X /\ d # e /\ \A c \in X : c # d /\ c # e => u[c] = Zero
  BY DEF IsPair
<1> DEFINE f == [c \in X |-> T[v[c]][u[c]]]
<1>1. \A c \in X \ {e} : c # d => f[c] = Zero
  <2>1. \A y \in F : T[y][Zero] = Zero
    BY ZeroLaws
  <2>. QED  BY <1>0, <2>1
<1>2. /\ f[d] = T[v[d]][u[d]] /\ f[e] = T[v[e]][u[e]]
      /\ Dot(T, X, v, u) = Total(X, f)
  BY <1>0 DEF Dot
<1>3. IsFiniteSet(X \ {e}) /\ d \in X \ {e}
  BY <1>0, FS_RemoveElement
<1> HIDE DEF f
<1>4. Total(X, f) = Plus(Total(X \ {e}, f), f[e])
  BY <1>0, TotalWithout
<1>5. Total(X \ {e}, f) = f[d]
  BY <1>1, <1>3, TotalOne
<1>. QED  BY <1>2, <1>4, <1>5

LEMMA PairSize ==
    ASSUME NEW d, NEW e, d # e PROVE IsFiniteSet({d, e}) /\ Cardinality({d, e}) = 2
<1>1. IsFiniteSet({d}) /\ Cardinality({d}) = 1
  BY FS_Singleton
<1>2. IsFiniteSet({d} \cup {e}) /\ Cardinality({d} \cup {e}) = Cardinality({d}) + 1
  BY <1>1, FS_AddElement
<1>3. {d} \cup {e} = {d, e}
  OBVIOUS
<1>. QED  BY <1>1, <1>2, <1>3

LEMMA TwoRows == IsFiniteSet(0..1) /\ Cardinality(0..1) = 2
<1>1. IsFiniteSet({0, 1}) /\ Cardinality({0, 1}) = 2
  <2>1. 0 # 1
    OBVIOUS
  <2>. QED  BY <2>1, PairSize
<1>2. 0..1 = {0, 1}
  OBVIOUS
<1>. QED  BY <1>1, <1>2

OnesAndOthers(X, a) ==
    /\ \A c \in X : a[0][c] = One /\ a[1][c] # Zero
    /\ \A c, d \in X : a[1][c] = a[1][d] => c = d

LEMMA TwoRowsRegular ==
    ASSUME NEW F, NEW T, IsField(F, T), NEW X, IsFiniteSet(X),
           NEW a \in [0..1 -> [X -> F]], OnesAndOthers(X, a)
    PROVE  Regular(F, T, X, 0..1, a)
<1> SUFFICES ASSUME NEW u \in [X -> F],
                    Cardinality(ZerosOf(X, u)) + Cardinality(ZeroRows(T, X, 0..1, a, u))
                      >= Cardinality(X),
                    ~IsZero(X, u)
             PROVE  FALSE
  BY DEF Regular
<1> DEFINE Z == ZeroRows(T, X, 0..1, a, u)   S == X \ ZerosOf(X, u)
<1>1. Z \subseteq 0..1 /\ IsFiniteSet(Z) /\ \A r \in Z : Dot(T, X, a[r], u) = Zero
  <2>1. IsFiniteSet(0..1)
    BY TwoRows
  <2>. QED  BY <2>1, FS_Subset DEF ZeroRows
<1>2. S \subseteq X /\ IsFiniteSet(S) /\ \A c \in X : u[c] = Zero <=> c \notin S
  BY FS_Subset DEF ZerosOf
<1>3. Cardinality(Z) >= Cardinality(S) /\ Cardinality(Z) \in Nat /\ Cardinality(S) \in Nat
  <2>1. ZerosOf(X, u) \subseteq X
    BY DEF ZerosOf
  <2>2. X \cap ZerosOf(X, u) = ZerosOf(X, u)
    BY <2>1
  <2>3. Cardinality(S) = Cardinality(X) - Cardinality(ZerosOf(X, u))
    BY <2>2, FS_Difference
  <2>4. IsFiniteSet(ZerosOf(X, u))
    BY <2>1, FS_Subset
  <2>5. /\ Cardinality(Z) \in Nat /\ Cardinality(X) \in Nat
        /\ Cardinality(ZerosOf(X, u)) \in Nat /\ Cardinality(S) \in Nat
    BY <1>1, <1>2, <2>4, FS_CardinalityType
  <2>6. Cardinality(ZerosOf(X, u)) + Cardinality(Z) >= Cardinality(X)
    OBVIOUS
  <2> HIDE DEF Z, S
  <2>. QED  BY <2>3, <2>5, <2>6
<1> HIDE DEF Z, S
<1>4. PICK d \in S : TRUE
  BY <1>2 DEF IsZero
<1>5. u[d] # Zero /\ d \in X /\ u[d] \in F
  BY <1>2
<1>6. \A r \in 0..1, c \in X : a[r][c] \in F /\ a[r][c] # Zero
  <2>1. \A r \in 0..1 : r = 0 \/ r = 1
    OBVIOUS
  <2>2. \A c \in X : a[0][c] # Zero /\ a[1][c] # Zero
    BY DEF OnesAndOthers, IsField
  <2>. QED  BY <2>1, <2>2
<1>7. CASE S = {d}
  <2>1. Z # {}
    <3>1. Cardinality({d}) = 1 /\ Cardinality({}) = 0
      BY FS_Singleton, FS_EmptySet
    <3>2. Cardinality(Z) >= 1 /\ Cardinality(Z) \in Nat
      BY <1>3, <1>7, <3>1
    <3>3. Cardinality(Z) # 0
      BY <3>2
    <3>. QED  BY <3>1, <3>3
  <2>2. PICK r \in Z : TRUE
    BY <2>1
  <2> PICK v \in [X -> F] : v = a[r]
    BY <1>1
  <2>3. \A c \in X : c # d => u[c] = Zero
    BY <1>2, <1>7
  <2>4. Dot(T, X, v, u) = T[v[d]][u[d]]
    BY <1>5, <2>3, DotOfOne
  <2>5. T[v[d]][u[d]] = Zero
    BY <1>1, <2>4
  <2>6. v[d] \in F /\ v[d] # Zero
    BY <1>1, <1>5, <1>6
  <2>. QED  BY <1>5, <2>5, <2>6, NoDivisors
<1>8. CASE S # {d}
  <2>1. PICK e \in S : e # d
    BY <1>8
  <2>2. IsFiniteSet({d, e}) /\ Cardinality({d, e}) = 2
    BY <2>1, PairSize
  <2>3. IsFiniteSet(0..1) /\ Cardinality(0..1) = 2
    BY TwoRows
  <2>4. Cardinality({d, e}) <= Cardinality(S) /\ Cardinality(Z) <= Cardinality(0..1)
    BY <1>1, <1>2, <2>1, <2>2, <2>3, FS_Subset
  <2>5. Cardinality(S) = 2 /\ Cardinality(Z) = 2
    BY <1>3, <2>2, <2>3, <2>4
  <2>6. S = {d, e} /\ Z = 0..1
    <3>1. {d, e} \subseteq S
      BY <2>1
    <3>. QED  BY <1>1, <1>2, <2>2, <2>3, <2>5, <3>1, FS_Subset
  <2>7. e \in X /\ u[e] \in F /\ \A c \in X : c # d /\ c # e => u[c] = Zero
    BY <1>2, <2>6
  <2>8. ASSUME NEW v \in [X -> F]
        PROVE  Dot(T, X, v, u) = Plus(T[v[d]][u[d]], T[v[e]][u[e]])
    <3>1. IsPair(X, u, d, e)
      BY <1>5, <2>1, <2>7 DEF IsPair
    <3>. QED  BY <3>1, DotOfTwo
  <2>9. a[0] \in [X -> F] /\ a[1] \in [X -> F]
    OBVIOUS
  <2>10. u[d] = u[e]
    <3>1. a[0][d] = One /\ a[0][e] = One
      BY <1>5, <2>7 DEF OnesAndOthers
    <3>2. \A y \in F : T[One][y] = y
      BY FieldLaws
    <3>3. Plus(T[a[0][d]][u[d]], T[a[0][e]][u[e]]) = Zero
      BY <1>1, <2>6, <2>8, <2>9
    <3>4. Plus(u[d], u[e]) = Zero
      BY <1>5, <2>7, <3>1, <3>2, <3>3
    <3>. QED  BY <3>4, Sums
  <2>11. Plus(T[a[1][d]][u[d]], T[a[1][e]][u[d]]) = Zero
    BY <1>1, <2>6, <2>8, <2>9, <2>10
  <2> PICK y \in F, z \in F, t \in F : y = a[1][d] /\ z = a[1][e] /\ t = u[d]
    BY <1>5, <1>6, <2>7
  <2>12. T[Plus(y, z)][t] = Zero
    <3>1. \A b, n, o \in F : T[Plus(n, o)][b] = Plus(T[n][b], T[o][b])
      BY FieldLaws
    <3>. QED  BY <2>11, <3>1
  <2>13. y # z
    BY <1>5, <2>1, <2>7 DEF OnesAndOthers
  <2>14. Plus(y, z) # Zero /\ Plus(y, z) \in F
    <3>1. Plus(y, z) # Zero
      BY <2>13, Sums
    <3>2. Plus(y, z) \in F
      BY DEF IsField
    <3>. QED  BY <3>1, <3>2
  <2>15. t = Zero
    BY <2>12, <2>14, NoDivisors
  <2>. QED  BY <1>5, <2>15
<1>. QED  BY <1>7, <1>8


-----------------------------------------------------------------------------
(* Determinants, expanded along the last row                                *)

RowTotals(C, h) == [c \in C |-> Total(C, h[c])]
Flipped(C, h) == [d \in C |-> [c \in C |-> h[c][d]]]

IsSquare(C, h) == h = [c \in C |-> [d \in C |-> h[c][d]]]

LEMMA SquareExchange ==
    ASSUME NEW C, IsFiniteSet(C), NEW h, IsSquare(C, h)
    PROVE  Total(C, RowTotals(C, h)) = Total(C, RowTotals(C, Flipped(C, h)))
<1>1. ASSUME NEW c \in C PROVE h[c] = [d \in C |-> h[c][d]]
  BY DEF IsSquare
<1>2. RowTotals(C, h) = SumsAlong(C, C, h)
  BY <1>1 DEF RowTotals, SumsAlong
<1>3. RowTotals(C, Flipped(C, h)) = SumsAcross(C, C, h)
  BY DEF RowTotals, Flipped, SumsAcross
<1>. QED  BY <1>2, <1>3, TotalExchange

LEMMA SquareMirror ==
    ASSUME NEW C, IsFiniteSet(C), NEW h, IsSquare(C, h), IsMirror(C, h)
    PROVE  Total(C, RowTotals(C, h)) = Zero
<1>1. ASSUME NEW c \in C PROVE h[c] = [d \in C |-> h[c][d]]
  BY DEF IsSquare
<1>2. RowTotals(C, h) = [c \in C |-> Total(C, [d \in C |-> h[c][d]])]
  BY <1>1 DEF RowTotals
<1>3. Total(C, [c \in C |-> Total(C, [d \in C |-> h[c][d]])]) = Zero
  BY TotalMirror
<1>. QED  BY <1>2, <1>3

\* The row v expanded with the minors G of the other rows; and the row v
\* expanded with those of y and the minors of the rest.
Expanded(T, G, v, C) == Total(C, [c \in C |-> T[v[c]][G[C \ {c}]]])
Twice(T, G, v, y, C) == [c \in C |-> T[v[c]][Expanded(T, G, y, C \ {c})]]
Cells(T, G, v, y, C) ==
    [c \in C |-> [d \in C |-> IF c = d THEN Zero
                              ELSE T[v[c]][T[y[d]][G[(C \ {c}) \ {d}]]]]]

CanExpand(F, T, X, G, v, y, C) ==
    /\ IsField(F, T) /\ G \in [SUBSET X -> F] /\ v \in [X -> F] /\ y \in [X -> F]
    /\ C \in SUBSET X /\ IsFiniteSet(C)

LEMMA CellsType ==
    ASSUME NEW F, NEW T, NEW X, NEW G, NEW v, NEW y, NEW C, CanExpand(F, T, X, G, v, y, C)
    PROVE  /\ IsSquare(C, Cells(T, G, v, y, C))
           /\ Flipped(C, Cells(T, G, v, y, C)) = Cells(T, G, y, v, C)
<1>0. /\ IsField(F, T) /\ G \in [SUBSET X -> F] /\ v \in [X -> F] /\ y \in [X -> F]
      /\ C \in SUBSET X /\ IsFiniteSet(C)
  BY DEF CanExpand
<1>1. \A b, e \in F : T[b][e] \in F
  BY <1>0, FieldLaws
<1>2. \A b, e, o \in F : T[b][T[e][o]] = T[e][T[b][o]]
  BY <1>0, FieldLaws
<1>4. ASSUME NEW c \in C, NEW d \in C
      PROVE  Cells(T, G, v, y, C)[c][d] = Cells(T, G, y, v, C)[d][c]
  <2>1. CASE c = d
    BY <2>1 DEF Cells
  <2>2. CASE c # d
    <3> DEFINE D == (C \ {c}) \ {d}
    <3>1. D = (C \ {d}) \ {c} /\ D \in SUBSET X
      BY <1>0
    <3>2. v[c] \in F /\ y[d] \in F /\ G[D] \in F
      BY <1>0, <3>1
    <3>3. /\ Cells(T, G, v, y, C)[c][d] = T[v[c]][T[y[d]][G[D]]]
          /\ Cells(T, G, y, v, C)[d][c] = T[y[d]][T[v[c]][G[D]]]
      BY <2>2, <3>1 DEF Cells
    <3> HIDE DEF D
    <3>. QED  BY <1>2, <3>2, <3>3
  <2>. QED  BY <2>1, <2>2
<1>5. /\ Cells(T, G, v, y, C) = [c \in C |-> [d \in C |-> Cells(T, G, v, y, C)[c][d]]]
      /\ Cells(T, G, y, v, C) = [c \in C |-> [d \in C |-> Cells(T, G, y, v, C)[c][d]]]
  BY DEF Cells
<1>6. Flipped(C, Cells(T, G, v, y, C)) = [d \in C |-> [c \in C |-> Cells(T, G, v, y, C)[c][d]]]
  BY DEF Flipped
<1>7. IsSquare(C, Cells(T, G, v, y, C))
  BY <1>5 DEF IsSquare
<1>. QED  BY <1>4, <1>5, <1>6, <1>7

LEMMA CellsRow ==
    ASSUME NEW F, NEW T, NEW X, NEW G, NEW v, NEW y, NEW C, CanExpand(F, T, X, G, v, y, C)
    PROVE  RowTotals(C, Cells(T, G, v, y, C)) = Twice(T, G, v, y, C)
<1>0. /\ IsField(F, T) /\ G \in [SUBSET X -> F] /\ v \in [X -> F] /\ y \in [X -> F]
      /\ C \in SUBSET X /\ IsFiniteSet(C)
  BY DEF CanExpand
<1> SUFFICES ASSUME NEW c \in C
             PROVE  Total(C, Cells(T, G, v, y, C)[c]) = T[v[c]][Expanded(T, G, y, C \ {c})]
  BY DEF RowTotals, Twice
<1> DEFINE f == Cells(T, G, v, y, C)[c]
           D == C \ {c}
           g == [d \in D |-> T[y[d]][G[D \ {d}]]]
<1>1. IsFiniteSet(D) /\ D \in SUBSET X /\ v[c] \in F
  BY <1>0, FS_Subset
<1>2. f[c] = Zero
  BY DEF Cells
<1>3. ASSUME NEW d \in D PROVE f[d] = T[v[c]][g[d]]
  BY DEF Cells
<1>4. g \in [D -> F]
  <2>1. \A b, e \in F : T[b][e] \in F
    BY <1>0, FieldLaws
  <2>2. \A d \in D : y[d] \in F /\ G[D \ {d}] \in F
    <3> HIDE DEF D
    <3>. QED  BY <1>0, <1>1
  <2> HIDE DEF D
  <2>. QED  BY <2>1, <2>2
<1>5. Expanded(T, G, y, D) = Total(D, g)
  BY DEF Expanded
<1> HIDE DEF f, g
<1>6. Total(C, f) = Plus(Total(D, f), f[c])
  BY <1>0, TotalWithout
<1>7. Total(C, f) = Total(D, f)
  BY <1>2, <1>6, Sums
<1> HIDE DEF D
<1>8. Total(D, f) = T[v[c]][Total(D, g)]
  BY <1>0, <1>1, <1>3, <1>4, TotalTimes
<1>9. Total(C, f) = T[v[c]][Expanded(T, G, y, D)]
  BY <1>5, <1>7, <1>8
<1>. QED  BY <1>9 DEF f, D

\* Two rows may change places, and equal rows make zero.
LEMMA TwiceLaws ==
    ASSUME NEW F, NEW T, NEW X, NEW G, NEW v, NEW y, NEW C, CanExpand(F, T, X, G, v, y, C)
    PROVE  /\ Total(C, Twice(T, G, v, y, C)) = Total(C, Twice(T, G, y, v, C))
           /\ v = y => Total(C, Twice(T, G, v, y, C)) = Zero
<1>0. /\ IsField(F, T) /\ G \in [SUBSET X -> F] /\ v \in [X -> F] /\ y \in [X -> F]
      /\ C \in SUBSET X /\ IsFiniteSet(C)
  BY DEF CanExpand
<1> DEFINE h == Cells(T, G, v, y, C)
<1>1. IsSquare(C, h) /\ Flipped(C, h) = Cells(T, G, y, v, C)
  BY CellsType
<1>2. /\ RowTotals(C, h) = Twice(T, G, v, y, C)
      /\ RowTotals(C, Cells(T, G, y, v, C)) = Twice(T, G, y, v, C)
  <2>1. RowTotals(C, Cells(T, G, v, y, C)) = Twice(T, G, v, y, C)
    BY CellsRow
  <2>2. RowTotals(C, Cells(T, G, y, v, C)) = Twice(T, G, y, v, C)
    <3>1. CanExpand(F, T, X, G, y, v, C)
      BY <1>0 DEF CanExpand
    <3>. QED  BY <3>1, CellsRow
  <2>. QED  BY <2>1, <2>2
<1>3. ASSUME v = y PROVE IsMirror(C, h)
  <2>1. Flipped(C, h) = h
    BY <1>1, <1>3
  <2>2. \A c \in C : h[c][c] = Zero
    BY DEF Cells
  <2>3. \A c, d \in C : Flipped(C, h)[d][c] = h[c][d]
    BY DEF Flipped
  <2> HIDE DEF h
  <2>. QED  BY <2>1, <2>2, <2>3 DEF IsMirror
<1> HIDE DEF h
<1>4. Total(C, RowTotals(C, h)) = Total(C, RowTotals(C, Flipped(C, h)))
  BY <1>0, <1>1, SquareExchange
<1>5. v = y => Total(C, RowTotals(C, h)) = Zero
  BY <1>0, <1>1, <1>3, SquareMirror
<1>. QED  BY <1>1, <1>2, <1>4, <1>5


\* g holds the minors of the rows of a: those of no rows are 1, the others are
\* expanded along the row that top picks.
IsMinors(F, T, X, N, a, top, g) ==
    /\ g \in [SUBSET N -> [SUBSET X -> F]]
    /\ \A R \in SUBSET N, C \in SUBSET X :
          g[R][C] = IF R = {} THEN One ELSE Expanded(T, g[R \ {top[R]}], a[top[R]], C)
    /\ \A R \in SUBSET N : R # {} => top[R] \in R

HasMinors(F, T, X, N, a, top, g) ==
    /\ IsField(F, T) /\ IsFiniteSet(X) /\ IsFiniteSet(N) /\ a \in [N -> [X -> F]]
    /\ IsMinors(F, T, X, N, a, top, g)

LEMMA ExpandedTwice ==
    ASSUME NEW F, NEW T, NEW X, NEW N, NEW a, NEW top, NEW g,
           HasMinors(F, T, X, N, a, top, g),
           NEW R \in SUBSET N, R # {}, NEW r \in N, NEW C \in SUBSET X
    PROVE  Expanded(T, g[R], a[r], C)
             = Total(C, Twice(T, g[R \ {top[R]}], a[r], a[top[R]], C))
<1> DEFINE G == g[R \ {top[R]}]   y == a[top[R]]
<1>1. ASSUME NEW c \in C PROVE g[R][C \ {c}] = Expanded(T, G, y, C \ {c})
  <2>1. C \ {c} \in SUBSET X
    OBVIOUS
  <2>. QED  BY <2>1 DEF HasMinors, IsMinors
<1> HIDE DEF G, y
<1>2. [c \in C |-> T[a[r][c]][g[R][C \ {c}]]] = Twice(T, G, a[r], y, C)
  BY <1>1 DEF Twice
<1>3. Expanded(T, g[R], a[r], C) = Total(C, Twice(T, G, a[r], y, C))
  BY <1>2 DEF Expanded
<1>. QED  BY <1>3 DEF G, y

\* A row expanded with the minors of rows it is one of.
LEMMA RepeatedRow ==
    ASSUME NEW F, NEW T, NEW X, NEW N, NEW a, NEW top, NEW g,
           HasMinors(F, T, X, N, a, top, g)
    PROVE  \A R \in SUBSET N, r \in N, C \in SUBSET X :
              r \in R => Expanded(T, g[R], a[r], C) = Zero
<1>0. /\ IsField(F, T) /\ IsFiniteSet(X) /\ IsFiniteSet(N) /\ a \in [N -> [X -> F]]
      /\ g \in [SUBSET N -> [SUBSET X -> F]]
      /\ \A R \in SUBSET N : R # {} => top[R] \in R
  BY DEF HasMinors, IsMinors
<1> DEFINE P == {n \in Nat : \A R \in SUBSET N, r \in N, C \in SUBSET X :
                    r \in R /\ Cardinality(R) = n => Expanded(T, g[R], a[r], C) = Zero}
<1>1. 0 \in P
  <2>1. \A R \in SUBSET N : Cardinality(R) = 0 => R = {}
    BY <1>0, FS_Subset, FS_EmptySet
  <2>. QED  BY <2>1
<1>2. ASSUME NEW n \in Nat, n \in P PROVE n + 1 \in P
  <2> SUFFICES ASSUME NEW R \in SUBSET N, NEW r \in N, NEW C \in SUBSET X,
                      r \in R, Cardinality(R) = n + 1
               PROVE  Expanded(T, g[R], a[r], C) = Zero
    OBVIOUS
  <2>1. top[R] \in R
    BY <1>0
  <2> PICK s \in N : s = top[R] /\ s \in R
    BY <2>1
  <2> DEFINE S == R \ {s}
  <2>2. S \in SUBSET N /\ Cardinality(S) = n
    <3>1. IsFiniteSet(R)
      BY <1>0, FS_Subset
    <3>2. Cardinality(S) = Cardinality(R) - 1
      BY <3>1, FS_RemoveElement
    <3>. QED  BY <3>2
  <2>3. Expanded(T, g[R], a[r], C) = Total(C, Twice(T, g[S], a[r], a[s], C))
    BY ExpandedTwice
  <2> HIDE DEF S
  <2>4. CanExpand(F, T, X, g[S], a[r], a[s], C)
    <3>1. g[S] \in [SUBSET X -> F] /\ a[r] \in [X -> F] /\ a[s] \in [X -> F]
      BY <1>0, <2>2
    <3>2. IsFiniteSet(C)
      BY <1>0, FS_Subset
    <3>. QED  BY <1>0, <3>1, <3>2 DEF CanExpand
  <2>5. CASE r = s
    BY <2>3, <2>4, <2>5, TwiceLaws
  <2>6. CASE r # s
    <3>1. Total(C, Twice(T, g[S], a[r], a[s], C)) = Total(C, Twice(T, g[S], a[s], a[r], C))
      BY <2>4, TwiceLaws
    <3>2. \A c \in C : Twice(T, g[S], a[s], a[r], C)[c] = Zero
      <4> SUFFICES ASSUME NEW c \in C PROVE T[a[s][c]][Expanded(T, g[S], a[r], C \ {c})] = Zero
        BY DEF Twice
      <4>1. r \in S /\ C \ {c} \in SUBSET X
        BY <2>6 DEF S
      <4>2. Expanded(T, g[S], a[r], C \ {c}) = Zero
        BY <1>2, <2>2, <4>1
      <4>3. \A b \in F : T[b][Zero] = Zero
        BY <1>0, ZeroLaws
      <4>4. a[s][c] \in F
        BY <1>0
      <4>. QED  BY <4>2, <4>3, <4>4
    <3>3. Total(C, Twice(T, g[S], a[s], a[r], C)) = Zero
      BY <3>2, TotalZero
    <3>. QED  BY <2>3, <3>1, <3>3
  <2>. QED  BY <2>5, <2>6
<1>3. \A n \in Nat : n \in P
  <2> HIDE DEF P
  <2>. QED  BY <1>1, <1>2, SetInduction
<1> SUFFICES ASSUME NEW R \in SUBSET N, NEW r \in N, NEW C \in SUBSET X, r \in R
             PROVE  Expanded(T, g[R], a[r], C) = Zero
  OBVIOUS
<1>4. Cardinality(R) \in Nat
  BY <1>0, FS_Subset, FS_CardinalityType
<1>. QED  BY <1>3, <1>4

\* The minors of regular rows are not zero.
LEMMA MinorsNotZero ==
    ASSUME NEW F, NEW T, NEW X, NEW N, NEW a, NEW top, NEW g,
           HasMinors(F, T, X, N, a, top, g), Regular(F, T, X, N, a)
    PROVE  \A R \in SUBSET N, C \in SUBSET X :
              Cardinality(R) = Cardinality(C) => g[R][C] # Zero
<1>0. /\ IsField(F, T) /\ IsFiniteSet(X) /\ IsFiniteSet(N) /\ a \in [N -> [X -> F]]
      /\ g \in [SUBSET N -> [SUBSET X -> F]]
      /\ \A R \in SUBSET N : R # {} => top[R] \in R
      /\ \A R \in SUBSET N, C \in SUBSET X :
            g[R][C] = IF R = {} THEN One ELSE Expanded(T, g[R \ {top[R]}], a[top[R]], C)
  BY DEF HasMinors, IsMinors
<1> DEFINE P == {n \in Nat : \A R \in SUBSET N, C \in SUBSET X :
                    Cardinality(R) = n /\ Cardinality(C) = n => g[R][C] # Zero}
<1>1. 0 \in P
  <2>1. \A R \in SUBSET N : Cardinality(R) = 0 => R = {}
    BY <1>0, FS_Subset, FS_EmptySet
  <2>2. One # Zero
    BY <1>0 DEF IsField
  <2>. QED  BY <1>0, <2>1, <2>2
<1>2. ASSUME NEW n \in Nat, n \in P PROVE n + 1 \in P
  <2> SUFFICES ASSUME NEW R \in SUBSET N, NEW C \in SUBSET X,
                      Cardinality(R) = n + 1, Cardinality(C) = n + 1, g[R][C] = Zero
               PROVE  FALSE
    OBVIOUS
  <2>1. IsFiniteSet(R) /\ IsFiniteSet(C) /\ R # {} /\ C # {}
    BY <1>0, FS_Subset, FS_EmptySet
  <2> PICK s \in N : s = top[R] /\ s \in R
    BY <1>0, <2>1
  <2> DEFINE S == R \ {s}
             u == [c \in X |-> IF c \in C THEN g[S][C \ {c}] ELSE Zero]
  <2>2. S \in SUBSET N /\ Cardinality(S) = n
    <3>1. Cardinality(S) = Cardinality(R) - 1
      BY <2>1, FS_RemoveElement
    <3>. QED  BY <3>1
  <2>3. g[R][C] = Expanded(T, g[S], a[s], C)
    BY <1>0, <2>1
  <2> HIDE DEF S
  <2>4. \A c \in C : C \ {c} \in SUBSET X /\ g[S][C \ {c}] \in F
    BY <1>0, <2>2
  <2>5. u \in [X -> F]
    <3>1. Zero \in F
      BY <1>0 DEF IsField
    <3>. QED  BY <2>4, <3>1
  <2>6. ASSUME NEW r \in N PROVE Dot(T, X, a[r], u) = Expanded(T, g[S], a[r], C)
    <3> DEFINE f == [c \in X |-> T[a[r][c]][u[c]]]
               h == [c \in C |-> T[a[r][c]][g[S][C \ {c}]]]
    <3>1. \A c \in X \ C : f[c] = Zero
      <4>1. \A b \in F : T[b][Zero] = Zero
        BY <1>0, ZeroLaws
      <4>2. \A c \in X : a[r][c] \in F
        BY <1>0
      <4>. QED  BY <4>1, <4>2
    <3>2. \A c \in C : f[c] = h[c]
      OBVIOUS
    <3>3. Dot(T, X, a[r], u) = Total(X, f) /\ Expanded(T, g[S], a[r], C) = Total(C, h)
      BY DEF Dot, Expanded
    <3> HIDE DEF f, h
    <3>4. Total(X, f) = Total(C, f)
      BY <1>0, <3>1, TotalOfPart
    <3>5. Total(C, f) = Total(C, h)
      BY <3>2, TotalSame
    <3>. QED  BY <3>3, <3>4, <3>5
  <2>7. \A c \in X : c \notin C => u[c] = Zero
    OBVIOUS
  <2>8. \A c \in C : u[c] # Zero
    <3> SUFFICES ASSUME NEW c \in C PROVE g[S][C \ {c}] # Zero
      OBVIOUS
    <3>1. Cardinality(C \ {c}) = n
      <4>1. Cardinality(C \ {c}) = Cardinality(C) - 1
        BY <2>1, FS_RemoveElement
      <4>. QED  BY <4>1
    <3>. QED  BY <1>2, <2>2, <2>4, <3>1
  <2> HIDE DEF u
  <2>9. R \subseteq ZeroRows(T, X, N, a, u)
    <3> SUFFICES ASSUME NEW r \in R PROVE Dot(T, X, a[r], u) = Zero
      BY DEF ZeroRows
    <3>1. CASE r = s
      BY <2>3, <2>6, <3>1
    <3>2. CASE r # s
      <4>1. r \in S /\ r \in N
        BY <3>2 DEF S
      <4>2. Expanded(T, g[S], a[r], C) = Zero
        BY <2>2, <4>1, RepeatedRow
      <4>. QED  BY <2>6, <4>1, <4>2
    <3>. QED  BY <3>1, <3>2
  <2>10. X \ C = ZerosOf(X, u)
    BY <2>7, <2>8 DEF ZerosOf
  <2>11. Cardinality(ZeroRows(T, X, N, a, u)) >= n + 1
    <3>1. IsFiniteSet(ZeroRows(T, X, N, a, u))
      BY <1>0, FS_Subset DEF ZeroRows
    <3>2. Cardinality(R) <= Cardinality(ZeroRows(T, X, N, a, u))
      BY <2>9, <3>1, FS_Subset
    <3>3. Cardinality(ZeroRows(T, X, N, a, u)) \in Nat
      BY <3>1, FS_CardinalityType
    <3>. QED  BY <3>2, <3>3
  <2>12. Cardinality(ZerosOf(X, u)) = Cardinality(X) - (n + 1)
    <3>1. X \cap C = C
      OBVIOUS
    <3>2. Cardinality(X \ C) = Cardinality(X) - Cardinality(C)
      BY <1>0, <3>1, FS_Difference
    <3>. QED  BY <2>10, <3>2
  <2>13. IsZero(X, u)
    <3>1. Cardinality(X) \in Nat /\ Cardinality(ZeroRows(T, X, N, a, u)) \in Nat
      BY <1>0, FS_Subset, FS_CardinalityType DEF ZeroRows
    <3>2. \A b, e \in Nat : e >= n + 1 => (b - (n + 1)) + e >= b
      OBVIOUS
    <3>. QED  BY <2>5, <2>11, <2>12, <3>1, <3>2 DEF Regular
  <2>. QED  BY <2>1, <2>8, <2>13 DEF IsZero
<1>3. \A n \in Nat : n \in P
  <2> HIDE DEF P
  <2>. QED  BY <1>1, <1>2, SetInduction
<1> SUFFICES ASSUME NEW R \in SUBSET N, NEW C \in SUBSET X, Cardinality(R) = Cardinality(C)
             PROVE  g[R][C] # Zero
  OBVIOUS
<1>4. Cardinality(R) \in Nat
  BY <1>0, FS_Subset, FS_CardinalityType
<1>. QED  BY <1>3, <1>4

-----------------------------------------------------------------------------
(* The steps.  What holds between them is stated for a shape s and matrices  *)
(* a, so that it does not matter which state they are of.                    *)

FieldOf(s) == Elements(s.w)
TimesOf(s) == Mul(s.w)
ColsOf(s) == 0..s.k-1
RowsOf(s) == 0..s.k+s.m-1
CodingOf(s) == 0..s.m-1

IsDist(s, a) == a \in [RowsOf(s) -> [ColsOf(s) -> FieldOf(s)]]
UnitRows(s, a, n) == \A r \in 0..n-1 : a[r] = UnitOf(ColsOf(s), r)
\* f is 1 / e.
IsInverse(s, e, f) == f \in FieldOf(s) /\ f # Zero /\ TimesOf(s)[e][f] = One
Below(s, a) == [r \in CodingOf(s) |-> a[s.k + r]]

\* Before column i is worked on, and while the others are cleared with it.
IsPivotal(s, a, x) ==
    /\ x \in 1..s.k
    /\ IsDist(s, a) /\ UnitRows(s, a, x)
    /\ Determines(FieldOf(s), TimesOf(s), ColsOf(s), RowsOf(s), a)
IsClearing(s, a, x, y) ==
    /\ x \in 1..s.k-1 /\ y \in 0..s.k
    /\ IsPivotal(s, a, x)
    /\ a[x][x] = One
    /\ \A c \in ColsOf(s) : c < y /\ c # x => a[x][c] = Zero

IsRegular(s, b) ==
    /\ b \in [CodingOf(s) -> [ColsOf(s) -> FieldOf(s)]]
    /\ Regular(FieldOf(s), TimesOf(s), ColsOf(s), CodingOf(s), b)
IsTopped(s, a) == IsDist(s, a) /\ UnitRows(s, a, s.k) /\ IsRegular(s, Below(s, a))
OnesTo(s, b, y) == \A c \in ColsOf(s) : c < y => b[0][c] = One
OnesDown(s, b, y) == \A r \in CodingOf(s) : r < y => b[r][0] = One

DistInv(s, a, x, y, p) ==
    /\ p = "pivot" => IsPivotal(s, a, x)
    /\ p = "clear" => IsClearing(s, a, x, y)
    /\ p \in {"ones_row", "ones_column"} => IsTopped(s, a)
    /\ p = "ones_row" => y \in 0..s.k /\ OnesTo(s, Below(s, a), y)
    /\ p = "ones_column" => /\ x \in s.k+1..s.k+s.m
                            /\ OnesTo(s, Below(s, a), s.k) /\ OnesDown(s, Below(s, a), x - s.k)

IsMade(s, b, x, y, p, t) ==
    /\ p \in {"columns", "improve", "done"} => IsRegular(s, b)
    /\ p = "columns" => t = "cauchy_good" /\ x = 1 /\ y \in 0..s.k /\ OnesTo(s, b, y)
    /\ p = "improve" => t = "cauchy_good" /\ x \in 1..s.m /\ OnesTo(s, b, s.k)
    /\ p = "done" /\ t # "cauchy_orig" => OnesTo(s, b, s.k)
    /\ p = "done" /\ t = "reed_sol_van" => OnesDown(s, b, s.m)
    /\ p \notin {"columns", "improve", "done"} => b = NULL

Steps == {"start", "null", "pivot", "clear", "ones_row", "ones_column", "columns",
          "improve", "done"}
InvOf(s, t, a, b, x, y, p) ==
    /\ s \in Shapes
    /\ p \in Steps
    /\ t \in {"reed_sol_van", "cauchy_orig", "cauchy_good"}
    /\ p = "null" => 2^s.w < s.k + s.m
    /\ DistInv(s, a, x, y, p)
    /\ IsMade(s, b, x, y, p, t)
MatrixInv == InvOf(shape, tech, dist, matrix, i, j, pc)

LEMMA ShapeLaws ==
    ASSUME NEW s \in Shapes
    PROVE  /\ s.k \in Nat \ {0} /\ s.m \in Nat \ {0} /\ s.w \in 1..8
           /\ IsField(FieldOf(s), TimesOf(s))
           /\ IsFiniteSet(ColsOf(s)) /\ Cardinality(ColsOf(s)) = s.k
           /\ IsFiniteSet(RowsOf(s)) /\ Cardinality(RowsOf(s)) = s.k + s.m
           /\ IsFiniteSet(CodingOf(s)) /\ Cardinality(CodingOf(s)) = s.m
<1>1. s.k \in Nat \ {0} /\ s.m \in Nat \ {0} /\ s.w \in 1..8
  BY ShapesAssumption
<1>2. HasInverses(s.w)
  BY FieldAssumption
<1>3. IsField(FieldOf(s), TimesOf(s))
  BY <1>1, <1>2, WordsAreAField DEF FieldOf, TimesOf
<1>4. IsFiniteSet(ColsOf(s)) /\ Cardinality(ColsOf(s)) = s.k
  <2>1. 0 \in Int /\ s.k - 1 \in Int /\ (s.k - 1) - 0 + 1 = s.k /\ ~(0 > s.k - 1)
    BY <1>1
  <2>. QED  BY <2>1, FS_Interval DEF ColsOf
<1>5. IsFiniteSet(RowsOf(s)) /\ Cardinality(RowsOf(s)) = s.k + s.m
  <2>1. /\ 0 \in Int /\ s.k + s.m - 1 \in Int /\ (s.k + s.m - 1) - 0 + 1 = s.k + s.m
        /\ ~(0 > s.k + s.m - 1)
    BY <1>1
  <2>. QED  BY <2>1, FS_Interval DEF RowsOf
<1>6. IsFiniteSet(CodingOf(s)) /\ Cardinality(CodingOf(s)) = s.m
  <2>1. 0 \in Int /\ s.m - 1 \in Int /\ (s.m - 1) - 0 + 1 = s.m /\ ~(0 > s.m - 1)
    BY <1>1
  <2>. QED  BY <2>1, FS_Interval DEF CodingOf
<1>. QED  BY <1>1, <1>3, <1>4, <1>5, <1>6

\* The operators of the model for the shape of a state.
LEMMA ProductsOfShape ==
    ASSUME shape \in Shapes, NEW x, NEW y
    PROVE  Times(x, y) = TimesOf(shape)[x][y]
<1>1. shape.w \in Widths
  BY DEF Widths
<1>2. Products[shape.w] = Mul(shape.w)
  BY <1>1 DEF Products, Mul
<1>. QED  BY <1>2 DEF Times, w, TimesOf

LEMMA InversesOfShape ==
    ASSUME shape \in Shapes, NEW x \in FieldOf(shape), x # Zero
    PROVE  IsInverse(shape, x, OneOver(x))
<1>1. shape.w \in Widths /\ shape.w \in 1..8 /\ HasInverses(shape.w)
  BY ShapeLaws, FieldAssumption DEF Widths
<1>2. OneOver(x) = Quotient(One, x, shape.w)
  BY <1>1 DEF OneOver, Inverses, w, FieldOf
<1>3. /\ Quotient(One, x, shape.w) \in Elements(shape.w)
      /\ Mul(shape.w)[x][Quotient(One, x, shape.w)] = One
  BY <1>1, InversesInvert DEF FieldOf
<1>4. OneOver(x) \in FieldOf(shape) /\ TimesOf(shape)[x][OneOver(x)] = One
  BY <1>2, <1>3 DEF FieldOf, TimesOf
<1>5. TimesOf(shape)[x][Zero] = Zero /\ One # Zero
  <2>1. IsField(FieldOf(shape), TimesOf(shape))
    BY ShapeLaws
  <2>. QED  BY <2>1 DEF IsField
<1>. QED  BY <1>4, <1>5 DEF IsInverse

-----------------------------------------------------------------------------
(* The Vandermonde matrix becomes a systematic one                         *)

LEMMA PivotExists ==
    ASSUME NEW s \in Shapes, NEW a, NEW x, x < s.k, IsPivotal(s, a, x)
    PROVE  \E r \in x..s.k+s.m-1 : a[r][x] # Zero
<1> DEFINE F == FieldOf(s)   T == TimesOf(s)   X == ColsOf(s)   N == RowsOf(s)
<1>1. /\ s.k \in Nat \ {0} /\ s.m \in Nat \ {0} /\ IsField(F, T) /\ IsFiniteSet(X)
      /\ Cardinality(X) = s.k /\ Cardinality(N) = s.k + s.m
  BY ShapeLaws
<1>2. x \in 1..s.k /\ a \in [N -> [X -> F]] /\ UnitRows(s, a, x) /\ Determines(F, T, X, N, a)
  BY DEF IsPivotal, IsDist
<1>3. x \in X
  BY <1>1, <1>2 DEF ColsOf
<1>4. PICK r \in N : a[r][x] # Zero
  <2>1. IsTall(X, N)
    BY <1>1 DEF IsTall
  <2> HIDE DEF F, T, X, N
  <2>2. IsField(F, T) /\ IsFiniteSet(X) /\ a \in [N -> [X -> F]] /\ Determines(F, T, X, N, a)
    BY <1>1, <1>2
  <2>. QED  BY <1>3, <2>1, <2>2, NoZeroColumn
<1>5. ASSUME r < x PROVE FALSE
  <2>1. r \in 0..x-1 /\ r \in X /\ x # r
    BY <1>1, <1>2, <1>4, <1>5 DEF RowsOf, ColsOf
  <2>2. a[r] = UnitOf(X, r)
    BY <1>2, <2>1 DEF UnitRows
  <2>3. UnitOf(X, r)[x] = Zero
    BY <1>3, <2>1 DEF UnitOf
  <2>. QED  BY <1>4, <2>2, <2>3
<1>6. r \in x..s.k+s.m-1
  BY <1>1, <1>2, <1>4, <1>5 DEF RowsOf
<1>. QED  BY <1>4, <1>6

LEMMA Pivoted ==
    ASSUME NEW s \in Shapes, NEW a, NEW x, x < s.k, IsPivotal(s, a, x),
           NEW p \in x..s.k+s.m-1, NEW f, IsInverse(s, a[p][x], f),
           NEW g, g = [r \in RowsOf(s) |-> a[Exchanged(r, x, p)]],
           NEW b, b = ColumnTimes(TimesOf(s), RowsOf(s), g, x, f)
    PROVE  IsClearing(s, b, x, 0)
<1> DEFINE F == FieldOf(s)   T == TimesOf(s)   X == ColsOf(s)   N == RowsOf(s)
<1>1. /\ s.k \in Nat \ {0} /\ s.m \in Nat \ {0} /\ IsField(F, T) /\ IsFiniteSet(X)
      /\ IsFiniteSet(N)
  BY ShapeLaws
<1>2. x \in 1..s.k /\ a \in [N -> [X -> F]] /\ UnitRows(s, a, x) /\ Determines(F, T, X, N, a)
  BY DEF IsPivotal, IsDist
<1>3. x \in X /\ x \in N /\ p \in N /\ x \in 1..s.k-1 /\ 0 \in 0..s.k
  BY <1>1, <1>2 DEF ColsOf, RowsOf
<1>0. f \in F /\ f # Zero /\ b = ColumnTimes(T, N, g, x, f) /\ T[a[p][x]][f] = One
  BY DEF IsInverse
<1>4. \A r \in N : Exchanged(r, x, p) \in N /\ g[r] = a[Exchanged(r, x, p)]
  BY <1>3 DEF Exchanged
<1>5. g \in [N -> [X -> F]]
  BY <1>2, <1>4
<1> HIDE DEF F, T, X, N
<1>6. Determines(F, T, X, N, g)
  <2>1. AreExchanged(N, a, g, x, p)
    BY <1>4 DEF AreExchanged
  <2>. QED  BY <1>1, <1>2, <1>3, <2>1, DeterminesSwapped
<1>7. Determines(F, T, X, N, b)
  BY <1>0, <1>1, <1>3, <1>5, <1>6, DeterminesColumnScaled
<1>8. b = [r \in N |-> ElementTimes(T, g[r], x, f)]
  BY <1>0 DEF ColumnTimes
<1>9. ASSUME NEW v \in [X -> F]
      PROVE  /\ ElementTimes(T, v, x, f) \in [X -> F] /\ ElementTimes(T, v, x, f)[x] = T[f][v[x]]
             /\ v[x] = Zero => ElementTimes(T, v, x, f) = v
  <2>1. T[f][v[x]] \in F /\ v[x] \in F /\ T[f][Zero] = Zero
    <3>1. \A y, z \in F : T[y][z] \in F
      BY <1>1, FieldLaws
    <3>2. T[f][Zero] = Zero
      BY <1>0, <1>1, ZeroLaws
    <3>. QED  BY <1>0, <1>3, <3>1, <3>2
  <2>2. ElementTimes(T, v, x, f) = [v EXCEPT ![x] = T[f][v[x]]]
    BY DEF ElementTimes
  <2>. QED  BY <1>3, <2>1, <2>2
<1>10. b \in [N -> [X -> F]]
  BY <1>5, <1>8, <1>9
<1>11. b[x][x] = One
  <2>1. g[x] = a[p] /\ a[p] \in [X -> F] /\ a[p][x] \in F
    BY <1>2, <1>3, <1>4 DEF Exchanged
  <2>2. b[x][x] = T[f][a[p][x]]
    BY <1>3, <1>8, <1>9, <2>1
  <2>3. \A y, z \in F : T[y][z] = T[z][y]
    BY <1>1, FieldLaws
  <2>. QED  BY <1>0, <2>1, <2>2, <2>3
<1>12. ASSUME NEW r \in 0..x-1 PROVE b[r] = UnitOf(X, r)
  <2>1. r \in N /\ r \in X /\ r # x /\ r # p
    BY <1>1, <1>2 DEF N, X, RowsOf, ColsOf
  <2>2. g[r] = a[r]
    BY <1>4, <2>1 DEF Exchanged
  <2>3. a[r] = UnitOf(X, r)
    BY <1>2 DEF UnitRows, X
  <2>4. UnitOf(X, r)[x] = Zero
    BY <1>3, <2>1 DEF UnitOf
  <2>5. a[r] \in [X -> F]
    BY <1>2, <2>1
  <2> PICK v \in [X -> F] : v = a[r] /\ v[x] = Zero
    BY <2>3, <2>4, <2>5
  <2>6. b[r] = v
    BY <1>8, <1>9, <2>1, <2>2
  <2>. QED  BY <2>3, <2>6
<1>13. UnitRows(s, b, x) /\ IsDist(s, b)
  BY <1>10, <1>12 DEF UnitRows, IsDist, X, N, F
<1>14. IsPivotal(s, b, x)
  BY <1>2, <1>7, <1>13 DEF IsPivotal, F, T, X, N
<1>15. \A c \in ColsOf(s) : ~(c < 0)
  BY <1>1 DEF ColsOf
<1>. QED  BY <1>3, <1>11, <1>14, <1>15 DEF IsClearing

LEMMA Cleared ==
    ASSUME NEW s \in Shapes, NEW a, NEW x, NEW y, y # s.k, IsClearing(s, a, x, y),
           NEW b, b = IF y = x THEN a
                      ELSE [r \in RowsOf(s) |-> ElementPlus(TimesOf(s), a[r], x, y, a[x][y])]
    PROVE  IsClearing(s, b, x, y + 1)
<1> DEFINE F == FieldOf(s)   T == TimesOf(s)   X == ColsOf(s)   N == RowsOf(s)
<1>1. /\ s.k \in Nat \ {0} /\ s.m \in Nat \ {0} /\ IsField(F, T) /\ IsFiniteSet(X)
      /\ IsFiniteSet(N)
  BY ShapeLaws
<1>2. /\ x \in 1..s.k-1 /\ y \in 0..s.k /\ a \in [N -> [X -> F]] /\ UnitRows(s, a, x)
      /\ Determines(F, T, X, N, a) /\ a[x][x] = One
      /\ \A c \in X : c < y /\ c # x => a[x][c] = Zero
  BY DEF IsClearing, IsPivotal, IsDist
<1>3. x \in X /\ y \in X /\ x \in N /\ y + 1 \in 0..s.k
  BY <1>1, <1>2 DEF ColsOf, RowsOf
<1>4. CASE y = x
  <2>1. \A c \in X : c < y + 1 /\ c # x => c < y
    BY <1>1, <1>2, <1>4 DEF ColsOf
  <2>. QED  BY <1>2, <1>3, <1>4, <2>1 DEF IsClearing
<1>5. CASE y # x
  <2> PICK e \in F : e = a[x][y]
    BY <1>2, <1>3
  <2>1. b = [r \in N |-> ElementPlus(T, a[r], x, y, e)]
    BY <1>5
  <2> HIDE DEF F, T, X, N
  <2>2. Determines(F, T, X, N, b)
    <3>1. IsField(F, T) /\ IsFiniteSet(X) /\ a \in [N -> [X -> F]] /\ Determines(F, T, X, N, a)
      BY <1>1, <1>2
    <3>2. x \in X /\ y \in X /\ x # y
      BY <1>3, <1>5
    <3>3. Determines(F, T, X, N, ColumnAdded(T, N, a, x, y, e))
      BY <3>1, <3>2, DeterminesColumnAdded
    <3>. QED  BY <2>1, <3>3 DEF ColumnAdded
  <2>3. ASSUME NEW v \in [X -> F]
        PROVE  /\ ElementPlus(T, v, x, y, e) \in [X -> F]
               /\ ElementPlus(T, v, x, y, e)[y] = Plus(v[y], T[e][v[x]])
               /\ \A c \in X : c # y => ElementPlus(T, v, x, y, e)[c] = v[c]
               /\ v[x] = Zero => ElementPlus(T, v, x, y, e) = v
    <3>1. \A d, c \in F : Plus(d, c) \in F /\ T[d][c] \in F
      BY <1>1, FieldLaws
    <3>2. T[e][Zero] = Zero /\ Plus(v[y], Zero) = v[y]
      BY <1>1, ZeroLaws, Sums
    <3>3. Plus(v[y], T[e][v[x]]) \in F
      BY <1>3, <3>1
    <3>. QED  BY <1>3, <3>2, <3>3 DEF ElementPlus
  <2>4. b \in [N -> [X -> F]]
    BY <1>2, <2>1, <2>3
  <2>5. /\ b[x][x] = One /\ b[x][y] = Zero
        /\ \A c \in X : c < y /\ c # x => b[x][c] = Zero
    <3> PICK v \in [X -> F] : v = a[x]
      BY <1>2, <1>3
    <3>1. b[x] = ElementPlus(T, v, x, y, e)
      BY <1>3, <2>1
    <3>2. b[x][y] = Plus(e, T[e][One])
      BY <1>2, <2>3, <3>1
    <3>3. T[e][One] = e
      <4>1. \A d \in F : T[d][One] = d
        BY <1>1, FieldLaws
      <4>. QED  BY <4>1
    <3>4. b[x][y] = Zero
      BY <3>2, <3>3, Sums
    <3>5. \A c \in X : c < y => c # y
      BY <1>1, <1>2 DEF X, ColsOf
    <3>. QED  BY <1>2, <1>3, <1>5, <2>3, <3>1, <3>4, <3>5
  <2>6. ASSUME NEW r \in 0..x-1 PROVE b[r] = UnitOf(X, r)
    <3>1. r \in N /\ r \in X /\ r # x
      BY <1>1, <1>2 DEF N, X, RowsOf, ColsOf
    <3>2. a[r] = UnitOf(X, r) /\ UnitOf(X, r)[x] = Zero
      BY <1>2, <1>3, <3>1 DEF UnitRows, X, UnitOf
    <3> PICK v \in [X -> F] : v = a[r] /\ v[x] = Zero
      BY <1>2, <3>1, <3>2
    <3>3. b[r] = v
      BY <2>1, <2>3, <3>1
    <3>. QED  BY <3>2, <3>3
  <2>7. IsPivotal(s, b, x)
    <3>1. x \in 1..s.k
      BY <1>1, <1>2
    <3>2. UnitRows(s, b, x) /\ IsDist(s, b)
      BY <2>4, <2>6 DEF UnitRows, IsDist, X, N, F
    <3>. QED  BY <2>2, <3>1, <3>2 DEF IsPivotal, F, T, X, N
  <2>8. ASSUME NEW c \in ColsOf(s), c < y + 1, c # x PROVE b[x][c] = Zero
    <3>1. c < y \/ c = y
      BY <1>1, <1>2, <2>8 DEF ColsOf
    <3>. QED  BY <2>5, <2>8, <3>1 DEF X
  <2>. QED  BY <1>2, <1>3, <2>5, <2>7, <2>8 DEF IsClearing
<1>. QED  BY <1>4, <1>5

LEMMA ColumnDone ==
    ASSUME NEW s \in Shapes, NEW a, NEW x, IsClearing(s, a, x, s.k)
    PROVE  IsPivotal(s, a, x + 1)
<1>1. /\ s.k \in Nat \ {0} /\ s.m \in Nat \ {0} /\ x \in 1..s.k-1 /\ x + 1 \in 1..s.k
      /\ IsPivotal(s, a, x)
      /\ a[x][x] = One /\ \A c \in ColsOf(s) : c < s.k /\ c # x => a[x][c] = Zero
  BY ShapeLaws DEF IsClearing
<1>2. \A c \in ColsOf(s) : c < s.k /\ c \in Nat
  BY <1>1 DEF ColsOf
<1>3. x \in RowsOf(s) /\ a[x] \in [ColsOf(s) -> FieldOf(s)]
  BY <1>1 DEF IsPivotal, IsDist, RowsOf
<1>4. a[x] = UnitOf(ColsOf(s), x)
  <2>1. \A c \in ColsOf(s) : a[x][c] = IF c = x THEN One ELSE Zero
    BY <1>1, <1>2
  <2>. QED  BY <1>3, <2>1 DEF UnitOf
<1>5. \A r \in 0..(x + 1)-1 : r = x \/ r \in 0..x-1
  BY <1>1
<1>6. UnitRows(s, a, x + 1)
  BY <1>1, <1>4, <1>5 DEF UnitRows, IsPivotal
<1>. QED  BY <1>1, <1>6 DEF IsPivotal

LEMMA TopMade ==
    ASSUME NEW s \in Shapes, NEW a, IsPivotal(s, a, s.k)
    PROVE  IsTopped(s, a) /\ OnesTo(s, Below(s, a), 0) /\ 0 \in 0..s.k
<1> DEFINE F == FieldOf(s)   T == TimesOf(s)
<1>1. s.k \in Nat \ {0} /\ s.m \in Nat \ {0} /\ IsField(F, T)
  BY ShapeLaws
<1>2. /\ IsDist(s, a) /\ UnitRows(s, a, s.k)
      /\ Determines(F, T, 0..s.k-1, 0..s.k+s.m-1, a)
  BY DEF IsPivotal, ColsOf, RowsOf
<1>3. \A c \in 0..s.k-1 : a[c] = UnitOf(0..s.k-1, c)
  BY <1>2 DEF UnitRows, ColsOf
<1>4. \A r \in 0..s.m-1 : Below(s, a)[r] = a[s.k + r] /\ s.k + r \in RowsOf(s)
  BY <1>1 DEF Below, CodingOf, RowsOf
<1>5. Regular(F, T, 0..s.k-1, 0..s.m-1, Below(s, a))
  <2> PICK b : b = Below(s, a)
    OBVIOUS
  <2> PICK cols \in Nat, rows \in Nat : cols = s.k /\ rows = s.m
    BY <1>1
  <2>1. Determines(F, T, 0..cols-1, 0..cols+rows-1, a)
    BY <1>2
  <2>2. IsSystematic(cols, rows, a, b)
    BY <1>3, <1>4 DEF IsSystematic
  <2> HIDE DEF F, T
  <2>4. Regular(F, T, 0..cols-1, 0..rows-1, b)
    BY <1>1, <2>1, <2>2, RowsUnderIdentity
  <2>. QED  BY <2>4
<1>6. Below(s, a) \in [CodingOf(s) -> [ColsOf(s) -> F]]
  BY <1>2, <1>4 DEF Below, CodingOf, IsDist
<1>7. IsTopped(s, a)
  BY <1>2, <1>5, <1>6 DEF IsTopped, IsRegular, CodingOf, ColsOf
<1>8. OnesTo(s, Below(s, a), 0)
  BY <1>1 DEF OnesTo, ColsOf
<1>. QED  BY <1>1, <1>7, <1>8

\* Every element of such rows has an inverse.
LEMMA RegularElement ==
    ASSUME NEW s \in Shapes, NEW b, IsRegular(s, b), NEW r \in CodingOf(s), NEW c \in ColsOf(s)
    PROVE  b[r][c] \in FieldOf(s) /\ b[r][c] # Zero
<1> DEFINE F == FieldOf(s)   T == TimesOf(s)   X == ColsOf(s)   M == CodingOf(s)
<1>1. /\ IsField(F, T) /\ IsFiniteSet(X) /\ IsFiniteSet(M) /\ b \in [M -> [X -> F]]
      /\ Regular(F, T, X, M, b) /\ r \in M /\ c \in X
  BY ShapeLaws DEF IsRegular
<1> HIDE DEF F, T, X, M
<1>2. b[r][c] # Zero
  BY <1>1, NoZeroElement
<1>3. b[r][c] \in F
  BY <1>1
<1>. QED  BY <1>2, <1>3 DEF F

\* A column is scaled so that it begins with a one.
LEMMA ColumnScaled ==
    ASSUME NEW s \in Shapes, NEW b, IsRegular(s, b), NEW y \in ColsOf(s),
           OnesTo(s, b, y), NEW f, IsInverse(s, b[0][y], f),
           NEW g, g = ColumnTimes(TimesOf(s), CodingOf(s), b, y, f)
    PROVE  IsRegular(s, g) /\ OnesTo(s, g, y + 1) /\ y + 1 \in 0..s.k
<1> DEFINE F == FieldOf(s)   T == TimesOf(s)   X == ColsOf(s)   M == CodingOf(s)
<1>1. /\ s.k \in Nat \ {0} /\ s.m \in Nat \ {0}
      /\ IsField(F, T) /\ IsFiniteSet(X) /\ b \in [M -> [X -> F]] /\ Regular(F, T, X, M, b)
  BY ShapeLaws DEF IsRegular
<1>2. y \in X /\ 0 \in M /\ y + 1 \in 0..s.k
  BY <1>1 DEF ColsOf, CodingOf
<1>3. f \in F /\ f # Zero /\ g = ColumnTimes(T, M, b, y, f) /\ T[b[0][y]][f] = One
  BY DEF IsInverse
<1> HIDE DEF F, T, X, M
<1>4. Regular(F, T, X, M, g)
  <2>1. IsField(F, T) /\ IsFiniteSet(X) /\ b \in [M -> [X -> F]] /\ Regular(F, T, X, M, b)
    BY <1>1
  <2>2. f \in F /\ f # Zero /\ y \in X
    BY <1>2, <1>3
  <2>3. g = ColumnTimes(T, M, b, y, f)
    BY <1>3
  <2>. QED  BY <2>1, <2>2, <2>3, RegularColumnScaled
<1>5. ASSUME NEW v \in [X -> F]
      PROVE  /\ ElementTimes(T, v, y, f) \in [X -> F]
             /\ ElementTimes(T, v, y, f)[y] = T[v[y]][f]
             /\ \A c \in X : c # y => ElementTimes(T, v, y, f)[c] = v[c]
  <2>1. \A d, c \in F : T[d][c] \in F /\ T[d][c] = T[c][d]
    BY <1>1, FieldLaws
  <2>2. T[f][v[y]] \in F /\ T[f][v[y]] = T[v[y]][f]
    BY <1>2, <1>3, <2>1
  <2>. QED  BY <1>2, <2>2 DEF ElementTimes
<1>0. g = [r \in M |-> ElementTimes(T, b[r], y, f)]
  BY <1>3 DEF ColumnTimes
<1>6. g \in [M -> [X -> F]]
  BY <1>0, <1>1, <1>5
<1>7. ASSUME NEW c \in X, c < y + 1 PROVE g[0][c] = One
  <2> PICK v \in [X -> F] : v = b[0]
    BY <1>1, <1>2
  <2>1. g[0] = ElementTimes(T, v, y, f)
    BY <1>0, <1>2
  <2>2. CASE c = y
    BY <1>3, <1>5, <2>1, <2>2
  <2>3. CASE c # y
    <3>1. c < y
      BY <1>1, <1>7, <2>3 DEF X, ColsOf
    <3>2. v[c] = One
      BY <3>1 DEF OnesTo, X
    <3>. QED  BY <1>5, <2>1, <2>3, <3>2
  <2>. QED  BY <2>2, <2>3
<1>8. IsRegular(s, g)
  BY <1>4, <1>6 DEF IsRegular, F, T, X, M
<1>9. OnesTo(s, g, y + 1)
  BY <1>7 DEF OnesTo, X
<1>. QED  BY <1>2, <1>8, <1>9

IsRowScaled(s, b, p, f, g) ==
    g = [b EXCEPT ![p] = AllTimes(TimesOf(s), ColsOf(s), b[p], f)]

\* A row below the first one is scaled.
LEMMA RowScaled ==
    ASSUME NEW s \in Shapes, NEW b, IsRegular(s, b), NEW p \in CodingOf(s), p # 0,
           NEW f \in FieldOf(s), f # Zero,
           NEW g, IsRowScaled(s, b, p, f, g)
    PROVE  /\ IsRegular(s, g)
           /\ OnesTo(s, b, s.k) => OnesTo(s, g, s.k)
           /\ OnesDown(s, b, p) /\ IsInverse(s, b[p][0], f) => OnesDown(s, g, p + 1)
<1> DEFINE F == FieldOf(s)   T == TimesOf(s)   X == ColsOf(s)   M == CodingOf(s)
<1>1. /\ s.k \in Nat \ {0} /\ s.m \in Nat \ {0}
      /\ IsField(F, T) /\ IsFiniteSet(X) /\ b \in [M -> [X -> F]] /\ Regular(F, T, X, M, b)
  BY ShapeLaws DEF IsRegular
<1>2. /\ f \in F /\ p \in M /\ g = [b EXCEPT ![p] = AllTimes(T, X, b[p], f)]
      /\ 0 \in X /\ 0 \in M
  BY <1>1 DEF ColsOf, CodingOf, IsRowScaled
<1> HIDE DEF F, T, X, M
<1>3. Regular(F, T, X, M, g)
  <2>1. IsField(F, T) /\ IsFiniteSet(X) /\ b \in [M -> [X -> F]] /\ Regular(F, T, X, M, b)
    BY <1>1
  <2>2. f \in F /\ p \in M
    BY <1>2
  <2>3. Regular(F, T, X, M, [b EXCEPT ![p] = AllTimes(T, X, b[p], f)])
    BY <2>1, <2>2, RegularRowScaled
  <2>. QED  BY <1>2, <2>3
<1>4. ASSUME NEW v \in [X -> F]
      PROVE  AllTimes(T, X, v, f) \in [X -> F] /\ AllTimes(T, X, v, f)[0] = T[v[0]][f]
  <2>1. \A d, c \in F : T[d][c] \in F /\ T[d][c] = T[c][d]
    BY <1>1, FieldLaws
  <2>. QED  BY <1>2, <2>1 DEF AllTimes
<1>5. g \in [M -> [X -> F]] /\ \A r \in M : r # p => g[r] = b[r]
  BY <1>1, <1>2, <1>4
<1>6. IsRegular(s, g)
  BY <1>3, <1>5 DEF IsRegular, F, T, X, M
<1>7. OnesTo(s, b, s.k) => OnesTo(s, g, s.k)
  BY <1>2, <1>5 DEF OnesTo
<1>8. ASSUME OnesDown(s, b, p), IsInverse(s, b[p][0], f), NEW r \in M, r < p + 1
      PROVE  g[r][0] = One
  <2>1. CASE r = p
    BY <1>1, <1>2, <1>4, <1>8, <2>1 DEF IsInverse, T
  <2>2. CASE r # p
    <3>1. r < p
      BY <1>1, <1>2, <1>8, <2>2 DEF M, CodingOf
    <3>. QED  BY <1>5, <1>8, <2>2, <3>1 DEF OnesDown, M
  <2>. QED  BY <2>1, <2>2
<1>. QED  BY <1>6, <1>7, <1>8 DEF OnesDown, M

-----------------------------------------------------------------------------
(* The matrices that are begun with                                        *)

\* Numbers with the same bits are the same.
LEMMA BitsOfNumber ==
    ASSUME NEW x \in 0..15
    PROVE  /\ x = ((x \div 1) % 2) + 2 * ((x \div 2) % 2) + 4 * ((x \div 4) % 2)
                    + 8 * ((x \div 8) % 2)
           /\ x < 8 => (x \div 8) % 2 = 0
           /\ x < 4 => (x \div 4) % 2 = 0
           /\ x < 2 => (x \div 2) % 2 = 0
           /\ (x \div 1) % 2 \in 0..1 /\ (x \div 2) % 2 \in 0..1
           /\ (x \div 4) % 2 \in 0..1 /\ (x \div 8) % 2 \in 0..1
  OBVIOUS

LEMMA WordsOfNumbers ==
    ASSUME NEW width \in 1..4
    PROVE  /\ \A x : Word(x, width) \in Elements(width)
           /\ \A x, y \in 0..2^width-1 : Word(x, width) = Word(y, width) => x = y
           /\ Word(0, width) = Zero
<1>1. 2^0 = 1 /\ 2^1 = 2 /\ 2^2 = 4 /\ 2^3 = 8 /\ 2^4 = 16
  OBVIOUS
<1>2. \A x : Word(x, width) \in Elements(width)
  BY DEF Word, Elements
<1>3. ASSUME NEW x \in 0..15, NEW y \in 0..15, Word(x, width) = Word(y, width),
             NEW b \in 0..width-1
      PROVE  (x \div 2^b) % 2 = 1 <=> (y \div 2^b) % 2 = 1
  BY <1>3 DEF Word
<1>4. ASSUME NEW x \in 0..2^width-1, NEW y \in 0..2^width-1,
             Word(x, width) = Word(y, width)
      PROVE  x = y
  <2>0. \/ width = 1 /\ 2^width = 2
        \/ width = 2 /\ 2^width = 4
        \/ width = 3 /\ 2^width = 8
        \/ width = 4 /\ 2^width = 16
    <3>1. width = 1 \/ width = 2 \/ width = 3 \/ width = 4
      OBVIOUS
    <3>. QED  BY <1>1, <3>1
  <2> PICK size : size = 2^width
    OBVIOUS
  <2>a. x \in 0..size-1 /\ y \in 0..size-1
    OBVIOUS
  <2>1. x \in 0..15 /\ y \in 0..15
    BY <2>0, <2>a
  <2>2. \A b \in 0..width-1 : (x \div 2^b) % 2 = 1 <=> (y \div 2^b) % 2 = 1
    BY <1>3, <1>4, <2>1
  <2>3. (x \div 1) % 2 = 1 <=> (y \div 1) % 2 = 1
    <3>1. 0 \in 0..width-1
      OBVIOUS
    <3>. QED  BY <1>1, <2>2, <3>1
  <2>4. width >= 2 => ((x \div 2) % 2 = 1 <=> (y \div 2) % 2 = 1)
    <3>1. width >= 2 => 1 \in 0..width-1
      OBVIOUS
    <3>. QED  BY <1>1, <2>2, <3>1
  <2>5. width >= 3 => ((x \div 4) % 2 = 1 <=> (y \div 4) % 2 = 1)
    <3>1. width >= 3 => 2 \in 0..width-1
      OBVIOUS
    <3>. QED  BY <1>1, <2>2, <3>1
  <2>6. width >= 4 => ((x \div 8) % 2 = 1 <=> (y \div 8) % 2 = 1)
    <3>1. width >= 4 => 3 \in 0..width-1
      OBVIOUS
    <3>. QED  BY <1>1, <2>2, <3>1
  <2>7. /\ width < 4 => x < 8 /\ y < 8
        /\ width < 3 => x < 4 /\ y < 4
        /\ width < 2 => x < 2 /\ y < 2
    BY <2>0, <2>a
  <2>. QED  BY <2>0, <2>1, <2>3, <2>4, <2>5, <2>6, <2>7, BitsOfNumber
<1>5. Word(0, width) = Zero
  <2>1. \A b \in 0..width-1 : (0 \div 2^b) % 2 # 1
    <3> SUFFICES ASSUME NEW b \in 0..width-1 PROVE (0 \div 2^b) % 2 # 1
      OBVIOUS
    <3>1. b = 0 \/ b = 1 \/ b = 2 \/ b = 3
      OBVIOUS
    <3>2. 0 \div 1 = 0 /\ 0 \div 2 = 0 /\ 0 \div 4 = 0 /\ 0 \div 8 = 0 /\ 0 % 2 # 1
      OBVIOUS
    <3>. QED  BY <1>1, <3>1, <3>2
  <2>. QED  BY <2>1 DEF Word, Zero
<1>. QED  BY <1>2, <1>4, <1>5

\* Power(r) holds the powers of the word of r.
LEMMA PowersOf ==
    ASSUME shape \in Shapes, NEW r
    PROVE  /\ Power(r) \in [ColsOf(shape) -> FieldOf(shape)]
           /\ IsPowers(TimesOf(shape), shape.k, Word(r, shape.w), Power(r))
<1> DEFINE F == FieldOf(shape)   T == TimesOf(shape)   X == ColsOf(shape)
           x == Word(r, shape.w)   top == shape.k - 1
           Is(p) == p = [c \in Cols |-> IF c = 0 THEN One ELSE Times(p[c-1], Word(r, w))]
           step == [c \in Nat |-> [e \in F |-> T[e][x]]]
<1>1. /\ IsField(F, T) /\ top \in Nat /\ X = 0..top /\ shape.k - 1 = top
      /\ shape.w \in 1..4
  BY ShapeLaws, ShapesAssumption DEF ColsOf
<1>2. x \in F
  BY <1>1, WordsOfNumbers DEF FieldOf
<1>3. One \in F /\ \A e, d \in F : T[e][d] \in F
  BY <1>1, FieldLaws DEF IsField
<1>4. Cols = X /\ w = shape.w /\ \A e, d : Times(e, d) = T[e][d]
  BY ProductsOfShape DEF Cols, ColsOf, w, k
<1>5. \A p : Is(p) <=> p = [c \in X |-> IF c = 0 THEN One ELSE T[p[c-1]][x]]
  BY <1>4
<1>6. Power(r) = CHOOSE p : Is(p)
  BY DEF Power
<1> HIDE DEF F, T, X, x, Is, top
<1>7. step \in [Nat -> [F -> F]]
  BY <1>2, <1>3
<1>8. PICK f \in [0..top -> F] : MadeStepwise(f, One, step, top)
  <2> HIDE DEF step
  <2>. QED  BY <1>1, <1>3, <1>7, RecursiveFunction
<1>9. \A c \in X : f[c] = IF c = 0 THEN One ELSE T[f[c-1]][x]
  <2> SUFFICES ASSUME NEW c \in X PROVE f[c] = IF c = 0 THEN One ELSE T[f[c-1]][x]
    OBVIOUS
  <2>1. f[c] = IF c = 0 THEN One ELSE step[c][f[c-1]]
    BY <1>1, <1>8 DEF MadeStepwise
  <2>2. c # 0 => c \in Nat /\ c - 1 \in 0..top
    BY <1>1
  <2>3. c # 0 => f[c-1] \in F
    BY <2>2
  <2>. QED  BY <2>1, <2>2, <2>3
<1>10. Is(f)
  <2>1. f = [c \in X |-> f[c]]
    BY <1>1
  <2>. QED  BY <1>5, <1>9, <2>1
<1>11. PICK p : p = Power(r) /\ Is(p)
  BY <1>6, <1>10
<1>12. p = [c \in X |-> IF c = 0 THEN One ELSE T[p[c-1]][x]]
  BY <1>5, <1>11
<1>13. p[0] = One /\ \A c \in 1..top : p[c] = T[p[c-1]][x]
  <2>1. 0 \in X /\ \A c \in 1..top : c \in X /\ c # 0
    BY <1>1
  <2>. QED  BY <1>12, <2>1
<1>14. \A c \in X : p[c] \in F
  <2> DEFINE P == {c \in Nat : c \in X => p[c] \in F}
  <2>1. 0 \in P
    BY <1>3, <1>13
  <2>2. ASSUME NEW c \in Nat, c \in P PROVE c + 1 \in P
    <3> SUFFICES ASSUME c + 1 \in X PROVE p[c + 1] \in F
      OBVIOUS
    <3>1. c + 1 \in 1..top /\ c \in X /\ (c + 1) - 1 = c
      BY <1>1
    <3>2. p[c + 1] = T[p[c]][x] /\ p[c] \in F
      BY <1>13, <2>2, <3>1
    <3>. QED  BY <1>2, <1>3, <3>2
  <2>3. \A c \in Nat : c \in P
    <3> HIDE DEF P
    <3>. QED  BY <2>1, <2>2, SetInduction
  <2>4. \A c \in X : c \in Nat
    BY <1>1
  <2>. QED  BY <2>3, <2>4
<1>15. p \in [X -> F]
  BY <1>12, <1>14
<1>. QED  BY <1>1, <1>11, <1>13, <1>15 DEF IsPowers, F, T, X, x

LEMMA VandermondePivotal ==
    ASSUME shape \in Shapes, ~(2^w < k + m)
    PROVE  IsPivotal(shape, ExtendedVandermonde, 1)
<1> DEFINE F == FieldOf(shape)   T == TimesOf(shape)   X == ColsOf(shape)
           N == RowsOf(shape)
           point == [r \in 0..(k + m - 1)-1 |-> Word(r, w)]
           a == ExtendedVandermonde
<1>1. /\ k \in Nat \ {0} /\ m \in Nat \ {0} /\ w \in 1..4 /\ k = shape.k /\ m = shape.m
      /\ w = shape.w /\ IsField(F, T)
  BY ShapeLaws, ShapesAssumption DEF k, m, w
<1>2. /\ X = 0..k-1 /\ N = 0..k+m-1 /\ Cols = X /\ Rows = N /\ 0 \in X /\ 0 \in N
      /\ 1 \in 1..k
  BY <1>1 DEF ColsOf, RowsOf, Cols, Rows
<1>3. \A c : Unit(c) = UnitOf(X, c)
  BY <1>2 DEF Unit, UnitOf
<1>4. \A c : UnitOf(X, c) \in [X -> F]
  <2>1. One \in F /\ Zero \in F
    BY <1>1 DEF IsField
  <2> HIDE DEF F, X
  <2>. QED  BY <2>1 DEF UnitOf
<1>5. \A r : Power(r) \in [X -> F] /\ IsPowers(T, k, Word(r, w), Power(r))
  BY <1>1, PowersOf
<1>6. a = [r \in N |-> IF r = 0 THEN UnitOf(X, 0)
                       ELSE IF r = k + m - 1 THEN UnitOf(X, k - 1) ELSE Power(r)]
  BY <1>2, <1>3 DEF ExtendedVandermonde
<1>7. point \in [0..(k + m - 1)-1 -> F]
  BY <1>1, WordsOfNumbers DEF FieldOf
<1> PICK top \in Nat : top = k + m - 1
  BY <1>1
<1> HIDE DEF F, T, X, N, a
<1>8. a \in [N -> [X -> F]]
  BY <1>4, <1>5, <1>6
<1>9. \A r \in 0..top-1 : r \in N /\ r # top
  <2>1. N = 0..top
    BY <1>2
  <2>. QED  BY <2>1
<1>10. ASSUME NEW r \in 0..top-1 PROVE IsPowers(T, k, point[r], a[r])
  <2>1. point[r] = Word(r, w)
    OBVIOUS
  <2>2. CASE r = 0
    <3>1. a[r] = UnitOf(X, 0) /\ point[r] = Zero
      BY <1>1, <1>6, <1>9, <2>1, <2>2, WordsOfNumbers
    <3>2. UnitOf(X, 0)[0] = One
      BY <1>2 DEF UnitOf
    <3>3. ASSUME NEW c \in 1..k-1
          PROVE  UnitOf(X, 0)[c] = T[UnitOf(X, 0)[c-1]][Zero]
      <4>1. c \in X /\ c - 1 \in X /\ c # 0
        BY <1>1, <1>2
      <4>2. UnitOf(X, 0)[c] = Zero /\ UnitOf(X, 0)[c-1] \in F
        BY <1>4, <4>1 DEF UnitOf
      <4>3. \A e \in F : T[e][Zero] = Zero
        BY <1>1, ZeroLaws
      <4>. QED  BY <4>2, <4>3
    <3>. QED  BY <3>1, <3>2, <3>3 DEF IsPowers
  <2>3. CASE r # 0
    <3>1. a[r] = Power(r)
      BY <1>6, <1>9, <2>3
    <3>. QED  BY <1>5, <2>1, <3>1
  <2>. QED  BY <2>2, <2>3
<1>11. a[top] = UnitOf(X, k - 1)
  <2>1. top \in N /\ top # 0
    BY <1>1, <1>2
  <2>. QED  BY <1>6, <2>1
<1>12. ASSUME NEW r \in 0..top-1, NEW q \in 0..top-1, point[r] = point[q] PROVE r = q
  <2>1. Word(r, w) = Word(q, w)
    BY <1>12
  <2> PICK size : size = 2^w
    OBVIOUS
  <2>2. size \in Nat
    <3>1. 2^1 = 2 /\ 2^2 = 4 /\ 2^3 = 8 /\ 2^4 = 16
      OBVIOUS
    <3>2. w = 1 \/ w = 2 \/ w = 3 \/ w = 4
      BY <1>1
    <3>3. 2^w = 2 \/ 2^w = 4 \/ 2^w = 8 \/ 2^w = 16
      BY <3>1, <3>2
    <3>. QED  BY <3>3
  <2>3. r \in 0..size-1 /\ q \in 0..size-1
    BY <1>1, <2>2
  <2>. QED  BY <1>1, <2>1, <2>3, WordsOfNumbers
<1> HIDE DEF point
<1>13. IsVandermonde(T, k, top, point, a)
  BY <1>2, <1>10, <1>11, <1>12 DEF IsVandermonde
<1>14. Determines(F, T, 0..k-1, 0..top, a)
  <2> PICK size \in Nat \ {0} : size = k
    BY <1>1
  <2>1. a \in [0..top -> [0..size-1 -> F]] /\ point \in [0..top-1 -> F]
    BY <1>2, <1>7, <1>8
  <2>2. IsVandermonde(T, size, top, point, a)
    BY <1>13
  <2>3. Determines(F, T, 0..size-1, 0..top, a)
    BY <1>1, <2>1, <2>2, VandermondeDetermines
  <2>. QED  BY <2>3
<1>15. \A r \in 0..1-1 : a[r] = UnitOf(X, r)
  <2>1. \A r \in 0..1-1 : r = 0
    OBVIOUS
  <2>. QED  BY <1>2, <1>6, <2>1
<1>16. Determines(F, T, X, N, a)
  BY <1>2, <1>14
<1>17. IsDist(shape, a) /\ UnitRows(shape, a, 1)
  BY <1>8, <1>15 DEF IsDist, UnitRows, F, X, N
<1>. QED  BY <1>1, <1>2, <1>16, <1>17 DEF IsPivotal, F, T, X, N, a

LEMMA OriginalRegular ==
    ASSUME shape \in Shapes, ~(2^w < k + m)
    PROVE  IsRegular(shape, Original)
<1> DEFINE F == FieldOf(shape)   T == TimesOf(shape)   X == ColsOf(shape)
           M == CodingOf(shape)
           p == [r \in M |-> Word(r, w)]
           q == [c \in X |-> Word(m + c, w)]
           a == Original
<1>1. /\ k \in Nat \ {0} /\ m \in Nat \ {0} /\ w \in 1..4 /\ k = shape.k /\ m = shape.m
      /\ w = shape.w /\ IsField(F, T) /\ IsFiniteSet(X) /\ IsFiniteSet(M)
      /\ F = Elements(w) /\ X = 0..k-1 /\ M = 0..m-1
  BY ShapeLaws, ShapesAssumption DEF k, m, w, FieldOf, ColsOf, CodingOf
<1> PICK size : size = 2^w
  OBVIOUS
<1>2. size \in Nat /\ ~(size < k + m)
  <2>1. 2^1 = 2 /\ 2^2 = 4 /\ 2^3 = 8 /\ 2^4 = 16
    OBVIOUS
  <2>2. w = 1 \/ w = 2 \/ w = 3 \/ w = 4
    BY <1>1
  <2>3. 2^w = 2 \/ 2^w = 4 \/ 2^w = 8 \/ 2^w = 16
    BY <2>1, <2>2
  <2>. QED  BY <2>3
<1>3. \A x, y \in 0..size-1 : Word(x, w) = Word(y, w) => x = y
  BY <1>1, WordsOfNumbers
<1>4. /\ \A r \in M : r \in 0..size-1
      /\ \A c \in X : m + c \in 0..size-1
  <2> HIDE DEF M, X
  <2> PICK x, y : x = k /\ y = m
    OBVIOUS
  <2>1. x \in Nat /\ y \in Nat /\ X = 0..x-1 /\ M = 0..y-1 /\ ~(size < x + y)
    BY <1>1, <1>2
  <2>2. \A c \in 0..x-1 : y + c \in 0..size-1
    BY <1>2, <2>1
  <2>3. \A r \in 0..y-1 : r \in 0..size-1
    BY <1>2, <2>1
  <2>. QED  BY <2>1, <2>2, <2>3
<1>5. p \in [M -> F] /\ q \in [X -> F]
  <2>1. \A x : Word(x, w) \in Elements(w)
    BY DEF Word, Elements
  <2>2. F = Elements(w)
    BY <1>1
  <2> HIDE DEF F, M, X
  <2>. QED  BY <2>1, <2>2
<1>6. \A r, s \in M : p[r] = p[s] => r = s
  BY <1>3, <1>4
<1>7. \A c, d \in X : q[c] = q[d] => c = d
  <2>1. \A c, d \in X : m + c = m + d => c = d
    BY <1>1
  <2>. QED  BY <1>3, <1>4, <2>1
<1>8. \A r \in M, c \in X : p[r] # q[c]
  <2>1. \A r \in M, c \in X : m + c # r
    BY <1>1
  <2>. QED  BY <1>3, <1>4, <2>1
<1>9. a = [r \in M |-> [c \in X |-> OneOver(Plus(p[r], q[c]))]]
  BY <1>1 DEF Original, Cols
<1> HIDE DEF F, T, X, M, p, q, a
<1>10. ASSUME NEW r \in M, NEW c \in X
       PROVE  a[r][c] \in F /\ T[Plus(p[r], q[c])][a[r][c]] = One
  <2> PICK e \in F : e = Plus(p[r], q[c]) /\ e # Zero
    <3>1. Plus(p[r], q[c]) # Zero
      BY <1>8, Sums
    <3>2. \A x, y \in F : Plus(x, y) \in F
      BY <1>1, FieldLaws
    <3>. QED  BY <1>5, <3>1, <3>2
  <2>1. a[r][c] = OneOver(e)
    BY <1>9
  <2>2. IsInverse(shape, e, OneOver(e))
    BY InversesOfShape DEF F
  <2>. QED  BY <2>1, <2>2 DEF IsInverse, F, T
<1>11. a \in [M -> [X -> F]]
  <2>1. \A r \in M, c \in X : OneOver(Plus(p[r], q[c])) \in F
    BY <1>9, <1>10
  <2>. QED  BY <1>9, <2>1
<1>12. IsCauchy(F, T, X, M, p, q, a)
  BY <1>6, <1>7, <1>8, <1>10 DEF IsCauchy
<1>13. Regular(F, T, X, M, a)
  <2>1. IsField(F, T) /\ IsFiniteSet(X) /\ IsFiniteSet(M)
    BY <1>1
  <2>. QED  BY <1>5, <1>11, <1>12, <2>1, CauchyRegular
<1>. QED  BY <1>11, <1>13 DEF IsRegular, F, T, X, M, a

\* The elements of a row of cbest differ, and none is 0.
LEMMA BestAre ==
    ASSUME NEW v \in 1..4
    PROVE  /\ Len(cbest[v]) \in Nat
           /\ \A c \in 1..Len(cbest[v]) : cbest[v][c] \in 1..2^v-1
           /\ \A c, d \in 1..Len(cbest[v]) : cbest[v][c] = cbest[v][d] => c = d
<1>1. CASE v = 1
  BY <1>1 DEF cbest
<1>2. CASE v = 2
  BY <1>2 DEF cbest
<1>3. CASE v = 3
  BY <1>3 DEF cbest
<1>4. CASE v = 4
  BY <1>4 DEF cbest
<1>. QED  BY <1>1, <1>2, <1>3, <1>4

LEMMA BestRegular ==
    ASSUME shape \in Shapes, m = 2, k <= Len(cbest[w])
    PROVE  IsRegular(shape, BestRows) /\ OnesTo(shape, BestRows, shape.k)
<1> DEFINE F == FieldOf(shape)   T == TimesOf(shape)   X == ColsOf(shape)
           M == CodingOf(shape)
           a == BestRows
           best(c) == cbest[w][c+1]
<1>1. /\ k \in Nat \ {0} /\ w \in 1..4 /\ k = shape.k /\ m = shape.m
      /\ w = shape.w /\ IsField(F, T) /\ IsFiniteSet(X)
      /\ F = Elements(w) /\ X = 0..k-1 /\ M = 0..1 /\ Cols = X
  <2>1. /\ k \in Nat \ {0} /\ m \in Nat /\ w \in 1..4 /\ k = shape.k /\ m = shape.m
        /\ w = shape.w /\ IsField(F, T) /\ IsFiniteSet(X)
        /\ F = Elements(w) /\ X = 0..k-1 /\ Cols = X
    BY ShapeLaws, ShapesAssumption DEF k, m, w, FieldOf, ColsOf, CodingOf, Cols
  <2>2. M = 0..shape.m-1 /\ 2 - 1 = 1
    BY DEF CodingOf
  <2>. QED  BY <2>1, <2>2
<1>2. a = [r \in M |-> [c \in X |-> IF r = 0 THEN One ELSE Word(best(c), w)]]
  BY <1>1 DEF BestRows
<1> HIDE DEF F, T, X, M, a
<1>3. ASSUME NEW c \in X PROVE c + 1 \in 1..Len(cbest[w]) /\ best(c) \in 1..2^w-1
  <2>1. Len(cbest[w]) \in Nat
    BY <1>1, BestAre
  <2>2. c + 1 \in 1..Len(cbest[w])
    BY <1>1, <2>1
  <2>. QED  BY <1>1, <2>2, BestAre
<1>4. \A c, d \in X : best(c) = best(d) => c = d
  <2>1. \A c, d \in X : c + 1 = d + 1 => c = d
    BY <1>1
  <2>. QED  BY <1>1, <1>3, <2>1, BestAre
<1>5. /\ \A x, y \in 0..2^w-1 : Word(x, w) = Word(y, w) => x = y
      /\ \A x : Word(x, w) \in F
      /\ Word(0, w) = Zero
  BY <1>1, WordsOfNumbers
<1> PICK size : size = 2^w
  OBVIOUS
<1>6. size \in Nat \ {0}
  <2>1. 2^1 = 2 /\ 2^2 = 4 /\ 2^3 = 8 /\ 2^4 = 16
    OBVIOUS
  <2>2. w = 1 \/ w = 2 \/ w = 3 \/ w = 4
    BY <1>1
  <2>3. 2^w = 2 \/ 2^w = 4 \/ 2^w = 8 \/ 2^w = 16
    BY <2>1, <2>2
  <2>. QED  BY <2>3
<1>7. \A c \in X : best(c) \in 0..size-1 /\ best(c) # 0
  <2>1. \A x \in 1..size-1 : x \in 0..size-1 /\ x # 0
    BY <1>6
  <2>. QED  BY <1>3, <2>1
<1>8. 0 \in 0..size-1
  BY <1>6
<1> HIDE DEF best
<1>9. /\ \A c \in X : Word(best(c), w) # Zero
      /\ \A c, d \in X : Word(best(c), w) = Word(best(d), w) => c = d
  BY <1>4, <1>5, <1>7, <1>8
<1>10. One \in F
  BY <1>1 DEF IsField
<1>11. a \in [0..1 -> [X -> F]]
  BY <1>1, <1>2, <1>5, <1>10
<1>12. OnesAndOthers(X, a)
  <2>1. 0 \in M /\ 1 \in M /\ 1 # 0
    BY <1>1
  <2>2. \A c \in X : a[0][c] = One /\ a[1][c] = Word(best(c), w)
    BY <1>2, <2>1
  <2>. QED  BY <1>9, <2>2 DEF OnesAndOthers
<1>13. Regular(F, T, X, 0..1, a)
  <2>1. IsField(F, T) /\ IsFiniteSet(X)
    BY <1>1
  <2>. QED  BY <1>11, <1>12, <2>1, TwoRowsRegular
<1>14. M = 0..1
  BY <1>1
<1>15. IsRegular(shape, a)
  BY <1>11, <1>13, <1>14 DEF IsRegular, F, T, X, M
<1>16. OnesTo(shape, a, shape.k)
  BY <1>12 DEF OnesTo, OnesAndOthers, X
<1>. QED  BY <1>15, <1>16 DEF a

-----------------------------------------------------------------------------
(* Functions of the parts of a finite set                                  *)

\* The value of g at S is made from the one at S without the element picked.
MadeByParts(X, g, b, pick, step) ==
    \A S \in SUBSET X : g[S] = IF S = {} THEN b ELSE step[S][g[S \ {pick[S]}]]
Picks(X, pick) == \A S \in SUBSET X : S # {} => pick[S] \in S

LEMMA PartSize ==
    ASSUME NEW X, IsFiniteSet(X), NEW S \in SUBSET X
    PROVE  /\ Cardinality(S) \in Nat /\ (Cardinality(S) = 0 <=> S = {})
           /\ \A e \in S : Cardinality(S \ {e}) + 1 = Cardinality(S)
<1>1. IsFiniteSet(S)
  BY FS_Subset
<1>2. Cardinality(S) \in Nat /\ (Cardinality(S) = 0 <=> S = {})
  BY <1>1, FS_CardinalityType, FS_EmptySet
<1>3. \A e \in S : Cardinality(S \ {e}) = Cardinality(S) - 1
  BY <1>1, FS_RemoveElement
<1>. QED  BY <1>2, <1>3

LEMMA PickInduction ==
    ASSUME NEW X, IsFiniteSet(X), NEW pick, Picks(X, pick), NEW P, {} \in P,
           \A S \in SUBSET X : S # {} /\ S \ {pick[S]} \in P => S \in P
    PROVE  \A S \in SUBSET X : S \in P
<1> DEFINE T == {n \in Nat : \A S \in SUBSET X : Cardinality(S) = n => S \in P}
<1>1. 0 \in T
  <2>1. \A S \in SUBSET X : Cardinality(S) = 0 => S = {}
    BY PartSize
  <2>. QED  BY <2>1
<1>2. ASSUME NEW n \in Nat, n \in T PROVE n + 1 \in T
  <2> SUFFICES ASSUME NEW S \in SUBSET X, Cardinality(S) = n + 1 PROVE S \in P
    OBVIOUS
  <2>1. S # {} /\ pick[S] \in S
    BY PartSize DEF Picks
  <2> PICK R \in SUBSET X : R = S \ {pick[S]}
    OBVIOUS
  <2>2. Cardinality(R) = n
    BY <2>1, PartSize
  <2>3. R \in P
    BY <1>2, <2>2
  <2>. QED  BY <2>1, <2>3
<1>3. \A n \in Nat : n \in T
  <2> HIDE DEF T
  <2>. QED  BY <1>1, <1>2, SetInduction
<1>. QED  BY <1>3, PartSize

LEMMA PartsRecursion ==
    ASSUME NEW X, IsFiniteSet(X), NEW V, NEW b \in V, NEW pick, Picks(X, pick),
           NEW step \in [SUBSET X -> [V -> V]]
    PROVE  \E g \in [SUBSET X -> V] : MadeByParts(X, g, b, pick, step)
<1> DEFINE W == [SUBSET X -> V]
           base == [S \in SUBSET X |-> b]
           next(h) == [S \in SUBSET X |-> IF S = {} THEN b ELSE step[S][h[S \ {pick[S]}]]]
           level == [n \in Nat |-> [h \in W |-> next(h)]]
           top == Cardinality(X)
<1>1. top \in Nat /\ \A S \in SUBSET X : Cardinality(S) \in 0..top
  <2>1. \A S \in SUBSET X : Cardinality(S) <= top /\ Cardinality(S) \in Nat
    BY FS_Subset, PartSize
  <2>2. top \in Nat
    BY FS_CardinalityType
  <2>. QED  BY <2>1, <2>2
<1>2. base \in W
  OBVIOUS
<1>3. ASSUME NEW h \in W PROVE next(h) \in W
  <2>1. \A S \in SUBSET X : S \ {pick[S]} \in SUBSET X
    OBVIOUS
  <2>. QED  BY <2>1
<1>4. level \in [Nat -> [W -> W]]
  <2> HIDE DEF next, W
  <2>. QED  BY <1>3
<1>5. PICK f \in [0..top -> W] : MadeStepwise(f, base, level, top)
  <2> HIDE DEF level, base, top, W
  <2>. QED  BY <1>1, <1>2, <1>4, RecursiveFunction
<1> DEFINE g == [S \in SUBSET X |-> f[Cardinality(S)][S]]
<1>6. g \in [SUBSET X -> V]
  <2> HIDE DEF top
  <2>1. \A S \in SUBSET X : f[Cardinality(S)] \in [SUBSET X -> V]
    BY <1>1
  <2>. QED  BY <2>1
<1>7. ASSUME NEW S \in SUBSET X
      PROVE  g[S] = IF S = {} THEN b ELSE step[S][g[S \ {pick[S]}]]
  <2> PICK n : n = Cardinality(S)
    OBVIOUS
  <2>1. n \in 0..top
    BY <1>1
  <2>2. f[n] = IF n = 0 THEN base ELSE level[n][f[n - 1]]
    <3> HIDE DEF level, base, top
    <3>. QED  BY <1>5, <2>1 DEF MadeStepwise
  <2>3. CASE S = {}
    <3>1. n = 0
      BY <2>3, PartSize
    <3>. QED  BY <2>2, <2>3, <3>1
  <2>4. CASE S # {}
    <3> PICK R \in SUBSET X : R = S \ {pick[S]}
      OBVIOUS
    <3>1. n # 0 /\ pick[S] \in S
      BY <2>4, PartSize DEF Picks
    <3>2. Cardinality(R) = n - 1 /\ n - 1 \in 0..top /\ n \in Nat
      <4>1. Cardinality(R) + 1 = n /\ Cardinality(R) \in Nat
        BY <3>1, PartSize
      <4> HIDE DEF top
      <4>. QED  BY <1>1, <2>1, <4>1
    <3> PICK h \in W : h = f[n - 1]
      <4> HIDE DEF W, top
      <4>. QED  BY <3>2
    <3>3. f[n] = next(h)
      BY <2>2, <3>1, <3>2
    <3>4. next(h)[S] = step[S][h[R]]
      BY <2>4
    <3>5. g[S] = f[n][S] /\ g[R] = h[R]
      <4>1. g[R] = f[Cardinality(R)][R]
        OBVIOUS
      <4>. QED  BY <3>2, <4>1
    <3> HIDE DEF g, next
    <3>. QED  BY <2>4, <3>3, <3>4, <3>5
  <2>. QED  BY <2>3, <2>4
<1> HIDE DEF g
<1>. QED  BY <1>6, <1>7 DEF MadeByParts

\* A function to the integers on a finite set has a least value.
LEMMA LeastValue ==
    ASSUME NEW X, IsFiniteSet(X), X # {}, NEW h \in [X -> Int]
    PROVE  \E c \in X : \A d \in X : h[c] <= h[d]
<1> DEFINE P == {S \in SUBSET X : S = {} \/ \E c \in S : \A d \in S : h[c] <= h[d]}
<1>1. {} \in P
  OBVIOUS
<1>2. ASSUME NEW S \in SUBSET X, NEW e \in X \ S, S \in P PROVE S \cup {e} \in P
  <2> SUFFICES \E c \in S \cup {e} : \A d \in S \cup {e} : h[c] <= h[d]
    OBVIOUS
  <2>1. \A c, d \in X : h[c] \in Int /\ h[d] \in Int
    OBVIOUS
  <2>2. CASE S = {}
    BY <2>1, <2>2
  <2>3. CASE S # {}
    <3> PICK c \in S : \A d \in S : h[c] <= h[d]
      BY <1>2, <2>3
    <3>1. CASE h[c] <= h[e]
      BY <3>1
    <3>2. CASE ~(h[c] <= h[e])
      <4>1. \A d \in S : h[e] <= h[d]
        BY <2>1, <3>2
      <4>2. h[e] <= h[e]
        BY <2>1
      <4>. QED  BY <4>1, <4>2
    <3>. QED  BY <3>1, <3>2
  <2>. QED  BY <2>2, <2>3
<1>3. \A S \in SUBSET X : S \in P
  <2> HIDE DEF P
  <2>. QED  BY <1>1, <1>2, PartInduction
<1>. QED  BY <1>3

-----------------------------------------------------------------------------
(* The ones of a row, and a row that is divided                            *)

CountsOf(v) == [n : Elements(v), ones : Int, sum : Int]
FirstCount(x) == [n |-> x, ones |-> Cardinality(x), sum |-> Cardinality(x)]
NextCount(last, v) ==
    LET PP == Double({v-1}, v)
        n == Double(last.n, v)
        ones == IF v-1 \in last.n
                THEN last.ones - 1 + Cardinality(PP \cap n) - Cardinality(PP \ n)
                ELSE last.ones
    IN  [n |-> n, ones |-> ones, sum |-> last.sum + ones]
AreCounts(column, x, v) ==
    column = [c \in 0..v-1 |-> IF c = 0 THEN FirstCount(x) ELSE NextCount(column[c-1], v)]

LEMMA CountStep ==
    ASSUME NEW v \in 1..8
    PROVE  /\ \A x \in Elements(v) : FirstCount(x) \in CountsOf(v)
           /\ \A last \in CountsOf(v) : NextCount(last, v) \in CountsOf(v)
<1>1. \A x \in Elements(v) : IsFiniteSet(x) /\ Cardinality(x) \in Int
  BY WordsAreFinite, FS_CardinalityType
<1>2. ASSUME NEW x \in Elements(v) PROVE FirstCount(x) \in CountsOf(v)
  BY <1>1 DEF FirstCount, CountsOf
<1>3. ASSUME NEW last \in CountsOf(v) PROVE NextCount(last, v) \in CountsOf(v)
  <2> PICK n \in Elements(v), PP \in Elements(v) :
             n = Double(last.n, v) /\ PP = Double({v-1}, v)
    <3>1. last.n \in Elements(v) /\ {v-1} \in Elements(v)
      BY DEF CountsOf, Elements
    <3>. QED  BY <3>1, DoubleType
  <2>1. Cardinality(PP \cap n) \in Int /\ Cardinality(PP \ n) \in Int
    <3>1. PP \cap n \in Elements(v) /\ PP \ n \in Elements(v)
      BY DEF Elements
    <3>. QED  BY <1>1, <3>1
  <2>2. last.ones \in Int /\ last.sum \in Int
    BY DEF CountsOf
  <2> PICK ones \in Int : ones = IF v-1 \in last.n
                THEN last.ones - 1 + Cardinality(PP \cap n) - Cardinality(PP \ n)
                ELSE last.ones
    BY <2>1, <2>2
  <2>3. NextCount(last, v) = [n |-> n, ones |-> ones, sum |-> last.sum + ones]
    BY DEF NextCount
  <2>. QED  BY <2>2, <2>3 DEF CountsOf
<1>. QED  BY <1>2, <1>3

LEMMA OnesType ==
    ASSUME NEW v \in 1..8, NEW x \in Elements(v) PROVE n_ones(x, v) \in Int
<1> DEFINE V == CountsOf(v)   top == v - 1
           step == [c \in Nat |-> [last \in V |-> NextCount(last, v)]]
<1>1. n_ones(x, v) = (CHOOSE column : AreCounts(column, x, v))[v-1].sum
  BY DEF n_ones, AreCounts, FirstCount, NextCount
<1>2. FirstCount(x) \in V /\ step \in [Nat -> [V -> V]] /\ top \in Nat
  BY CountStep
<1>3. PICK f \in [0..top -> V] : MadeStepwise(f, FirstCount(x), step, top)
  <2> HIDE DEF step, top, V
  <2>. QED  BY <1>2, RecursiveFunction
<1>4. \A c \in 0..top : f[c] = IF c = 0 THEN FirstCount(x) ELSE NextCount(f[c-1], v)
  <2> SUFFICES ASSUME NEW c \in 0..top
               PROVE  f[c] = IF c = 0 THEN FirstCount(x) ELSE NextCount(f[c-1], v)
    OBVIOUS
  <2>1. f[c] = IF c = 0 THEN FirstCount(x) ELSE step[c][f[c-1]]
    <3> HIDE DEF step, top, V
    <3>. QED  BY <1>3 DEF MadeStepwise
  <2>2. c # 0 => c \in Nat /\ c - 1 \in 0..top
    BY <1>2
  <2>3. c # 0 => f[c-1] \in V
    BY <2>2
  <2> HIDE DEF V, top
  <2>. QED  BY <2>1, <2>2, <2>3
<1>5. AreCounts(f, x, v)
  <2>1. f = [c \in 0..v-1 |-> f[c]]
    OBVIOUS
  <2>. QED  BY <1>4, <2>1 DEF AreCounts
<1>6. PICK column : column = (CHOOSE c : AreCounts(c, x, v)) /\ AreCounts(column, x, v)
  BY <1>5
<1>7. \A c \in 0..top : column[c] = IF c = 0 THEN FirstCount(x) ELSE NextCount(column[c-1], v)
  BY <1>6 DEF AreCounts
<1> DEFINE P == {c \in Nat : c \in 0..top => column[c] \in V}
<1>8. 0 \in P
  <2> HIDE DEF V
  <2>. QED  BY <1>2, <1>7
<1>9. ASSUME NEW c \in Nat, c \in P PROVE c + 1 \in P
  <2> SUFFICES ASSUME c + 1 \in 0..top PROVE column[c + 1] \in V
    OBVIOUS
  <2>1. c \in 0..top /\ c + 1 # 0 /\ (c + 1) - 1 = c
    BY <1>2
  <2>2. column[c + 1] = NextCount(column[c], v) /\ column[c] \in V
    BY <1>7, <1>9, <2>1
  <2>. QED  BY <2>2, CountStep
<1>10. \A c \in Nat : c \in P
  <2> HIDE DEF P
  <2>. QED  BY <1>8, <1>9, SetInduction
<1>11. column[v-1] \in V
  <2>1. v - 1 \in Nat /\ v - 1 \in 0..top
    OBVIOUS
  <2> HIDE DEF V, top
  <2>. QED  BY <1>10, <2>1
<1>. QED  BY <1>1, <1>6, <1>11 DEF CountsOf

AnyOf(S) == CHOOSE c \in S : TRUE
IsSum(sum, X, row, v) ==
    sum = [S \in SUBSET X |-> IF S = {} THEN 0 ELSE n_ones(row[AnyOf(S)], v) + sum[S \ {AnyOf(S)}]]

LEMMA SumIsInt ==
    ASSUME NEW v \in 1..8, NEW X, IsFiniteSet(X), NEW row \in [X -> Elements(v)]
    PROVE  (CHOOSE sum : IsSum(sum, X, row, v))[X] \in Int
<1> DEFINE h == [c \in X |-> n_ones(row[c], v)]
           pick == [S \in SUBSET X |-> AnyOf(S)]
           step == [S \in SUBSET X |-> [n \in Int |-> IF S = {} THEN n ELSE h[pick[S]] + n]]
<1>1. \A S \in SUBSET X : S # {} => AnyOf(S) \in S
  BY DEF AnyOf
<1>0. h \in [X -> Int]
  BY OnesType
<1>2. Picks(X, pick)
  BY <1>1 DEF Picks
<1>3. step \in [SUBSET X -> [Int -> Int]]
  <2>1. \A S \in SUBSET X : S # {} => h[pick[S]] \in Int
    BY <1>0, <1>1
  <2> HIDE DEF pick, h
  <2>. QED  BY <2>1
<1>4. \A sum \in [SUBSET X -> Int] : MadeByParts(X, sum, 0, pick, step) => IsSum(sum, X, row, v)
  <2> SUFFICES ASSUME NEW sum \in [SUBSET X -> Int], MadeByParts(X, sum, 0, pick, step)
               PROVE  IsSum(sum, X, row, v)
    OBVIOUS
  <2>1. ASSUME NEW S \in SUBSET X
        PROVE  sum[S] = IF S = {} THEN 0
                        ELSE n_ones(row[AnyOf(S)], v) + sum[S \ {AnyOf(S)}]
    <3> PICK R \in SUBSET X : R = S \ {pick[S]}
      OBVIOUS
    <3>1. sum[S] = IF S = {} THEN 0 ELSE step[S][sum[R]]
      BY DEF MadeByParts
    <3>2. S # {} => step[S][sum[R]] = h[pick[S]] + sum[R]
      <4> HIDE DEF h, pick
      <4>. QED  OBVIOUS
    <3>3. S # {} => h[pick[S]] = n_ones(row[AnyOf(S)], v)
      BY <1>1
    <3> HIDE DEF step, h
    <3>. QED  BY <3>1, <3>2, <3>3
  <2>. QED  BY <2>1 DEF IsSum
<1>5. \E sum : IsSum(sum, X, row, v)
  <2> PICK V : V = Int
    OBVIOUS
  <2> PICK zero \in V : zero = 0
    OBVIOUS
  <2> HIDE DEF pick, step, h
  <2>1. step \in [SUBSET X -> [V -> V]]
    BY <1>3
  <2>2. \E sum \in [SUBSET X -> V] : MadeByParts(X, sum, zero, pick, step)
    BY <1>2, <2>1, PartsRecursion
  <2>. QED  BY <1>4, <2>2
<1>6. PICK sum : sum = (CHOOSE s : IsSum(s, X, row, v)) /\ IsSum(sum, X, row, v)
  BY <1>5
<1>7. \A S \in SUBSET X : sum[S] \in Int
  <2> DEFINE P == {S \in SUBSET X : sum[S] \in Int}
  <2>1. {} \in P
    <3>1. sum[{}] = 0
      <4>1. {} \in SUBSET X
        OBVIOUS
      <4>. QED  BY <1>6, <4>1 DEF IsSum
    <3>. QED  BY <3>1
  <2>2. ASSUME NEW S \in SUBSET X, S # {}, S \ {pick[S]} \in P PROVE S \in P
    <3> PICK R \in SUBSET X : R = S \ {AnyOf(S)}
      OBVIOUS
    <3>1. sum[S] = n_ones(row[AnyOf(S)], v) + sum[R]
      BY <1>6, <2>2 DEF IsSum
    <3>2. n_ones(row[AnyOf(S)], v) \in Int /\ sum[R] \in Int
      BY <1>1, <2>2, OnesType
    <3>. QED  BY <3>1, <3>2
  <2>3. \A S \in SUBSET X : S \in P
    <3> HIDE DEF P, pick, h
    <3>. QED  BY <1>2, <2>1, <2>2, PickInduction
  <2>. QED  BY <2>3
<1>. QED  BY <1>6, <1>7

LEMMA RowOnesType ==
    ASSUME shape \in Shapes, NEW row \in [ColsOf(shape) -> FieldOf(shape)]
    PROVE  RowOnes(row) \in Int
<1>1. RowOnes(row) = (CHOOSE sum : IsSum(sum, Cols, row, w))[Cols]
  BY DEF RowOnes, MapThenSumSet, MapThenFoldSet, IsSum, AnyOf
<1>2. /\ w \in 1..8 /\ Cols = ColsOf(shape) /\ IsFiniteSet(Cols)
      /\ row \in [Cols -> Elements(w)]
  BY ShapeLaws DEF w, Cols, k, ColsOf, FieldOf
<1>. QED  BY <1>1, <1>2, SumIsInt

\* A row stays as it is or is divided by one of its elements.
LEMMA DividedIs ==
    ASSUME shape \in Shapes, NEW row \in [ColsOf(shape) -> FieldOf(shape)],
           \A c \in ColsOf(shape) : row[c] # Zero
    PROVE  \/ Divided(row) = row
           \/ \E f \in FieldOf(shape) \ {Zero} :
                 Divided(row) = AllTimes(TimesOf(shape), ColsOf(shape), row, f)
<1> DEFINE F == FieldOf(shape)   T == TimesOf(shape)   X == ColsOf(shape)
           by(c) == Scaled(row, OneOver(row[c]))
           h == [c \in X |-> RowOnes(by(c))]
           fewest == Min({RowOnes(by(c)) : c \in X})
           best == {c \in X : RowOnes(by(c)) = fewest}
<1>1. /\ IsField(F, T) /\ IsFiniteSet(X) /\ Cols = X /\ X # {} /\ X \subseteq Nat
  BY ShapeLaws DEF Cols, k, ColsOf
<1>2. ASSUME NEW c \in X
      PROVE  /\ OneOver(row[c]) \in F \ {Zero}
             /\ by(c) = AllTimes(T, X, row, OneOver(row[c]))
             /\ by(c) \in [X -> F]
  <2>1. row[c] \in F /\ row[c] # Zero
    OBVIOUS
  <2> PICK f : f = OneOver(row[c])
    OBVIOUS
  <2>2. f \in F \ {Zero}
    BY <2>1, InversesOfShape DEF IsInverse
  <2>3. Scaled(row, f) = [d \in X |-> T[row[d]][f]]
    BY <1>1, ProductsOfShape DEF Scaled
  <2> HIDE DEF F, T, X
  <2>4. \A e, d \in F : T[e][d] \in F /\ T[e][d] = T[d][e]
    BY <1>1, FieldLaws
  <2>5. row \in [X -> F]
    BY DEF X, F
  <2>6. Scaled(row, f) = AllTimes(T, X, row, f) /\ Scaled(row, f) \in [X -> F]
    BY <2>2, <2>3, <2>4, <2>5 DEF AllTimes
  <2>. QED  BY <2>2, <2>6
<1>3. h \in [X -> Int]
  <2> HIDE DEF by
  <2>. QED  BY <1>2, RowOnesType
<1>4. Divided(row) = IF fewest < RowOnes(row) THEN by(Min(best)) ELSE row
  BY <1>1 DEF Divided
<1> HIDE DEF F, T, X, by
<1>5. best # {}
  <2>1. PICK c \in X : \A d \in X : h[c] <= h[d]
    <3> HIDE DEF h
    <3>. QED  BY <1>1, <1>3, LeastValue
  <2> PICK S : S = {RowOnes(by(d)) : d \in X}
    OBVIOUS
  <2>2. h[c] \in S /\ \A y \in S : h[c] <= y
    <3>1. \A d \in X : h[d] = RowOnes(by(d))
      OBVIOUS
    <3> HIDE DEF h
    <3>. QED  BY <2>1, <3>1
  <2>3. fewest \in S
    BY <2>2 DEF Min
  <2> HIDE DEF fewest
  <2>. QED  BY <2>3
<1>6. Min(best) \in X
  <2> PICK S \in SUBSET Nat : S = best /\ S # {} /\ S \subseteq X
    <3> HIDE DEF fewest
    <3>. QED  BY <1>1, <1>5
  <2>1. Min(S) \in S
    BY LeastOf DEF Min
  <2>. QED  BY <2>1
<1> HIDE DEF fewest, best
<1>. QED  BY <1>2, <1>4, <1>6 DEF F, T, X

-----------------------------------------------------------------------------
(* The steps of the model                                                  *)

LEMMA ShapeOf ==
    ASSUME shape \in Shapes
    PROVE  /\ k = shape.k /\ m = shape.m /\ w = shape.w
           /\ Cols = ColsOf(shape) /\ Rows = RowsOf(shape)
           /\ 0..m-1 = CodingOf(shape)
           /\ \A c : Unit(c) = UnitOf(ColsOf(shape), c)
  BY DEF k, m, w, Cols, Rows, ColsOf, RowsOf, CodingOf, Unit, UnitOf

\* An element that is scaled, in the order of the code.
LEMMA ColumnTimesIs ==
    ASSUME shape \in Shapes, NEW N, NEW a \in [N -> [ColsOf(shape) -> FieldOf(shape)]],
           NEW e \in ColsOf(shape), NEW f \in FieldOf(shape)
    PROVE  /\ \A r \in N : [a[r] EXCEPT ![e] = Times(@, f)]
                             = ElementTimes(TimesOf(shape), a[r], e, f)
           /\ [r \in N |-> [a[r] EXCEPT ![e] = Times(@, f)]]
                 = ColumnTimes(TimesOf(shape), N, a, e, f)
<1> DEFINE F == FieldOf(shape)   T == TimesOf(shape)
<1>1. \A x, y \in F : T[x][y] = T[y][x]
  <2>1. IsField(F, T)
    BY ShapeLaws
  <2>. QED  BY <2>1, FieldLaws
<1>2. ASSUME NEW r \in N
      PROVE  [a[r] EXCEPT ![e] = Times(@, f)] = ElementTimes(T, a[r], e, f)
  <2>1. Times(a[r][e], f) = T[f][a[r][e]]
    <3>1. Times(a[r][e], f) = T[a[r][e]][f]
      BY ProductsOfShape
    <3>2. a[r][e] \in F
      OBVIOUS
    <3>. QED  BY <1>1, <3>1, <3>2
  <2>. QED  BY <2>1 DEF ElementTimes
<1>. QED  BY <1>2 DEF ColumnTimes

LEMMA InvInit == Init => MatrixInv
<1> SUFFICES ASSUME Init PROVE MatrixInv
  OBVIOUS
<1>. QED  BY DEF Init, MatrixInv, InvOf, DistInv, IsMade, Steps

LEMMA StepVandermonde ==
    ASSUME MatrixInv, Vandermonde PROVE MatrixInv'
<1>1. shape \in Shapes /\ shape' = shape /\ tech' = tech /\ matrix' = matrix /\ i' = 1
      /\ tech = "reed_sol_van" /\ matrix = NULL
  BY DEF MatrixInv, InvOf, IsMade, Vandermonde
<1>2. CASE 2^w < k + m
  <2>1. pc' = "null" /\ 2^shape.w < shape.k + shape.m
    BY <1>1, <1>2, ShapeOf DEF Vandermonde
  <2>. QED  BY <1>1, <2>1 DEF MatrixInv, InvOf, DistInv, IsMade, Steps
<1>3. CASE ~(2^w < k + m)
  <2>1. pc' = "pivot" /\ dist' = ExtendedVandermonde
    BY <1>3 DEF Vandermonde
  <2>2. IsPivotal(shape, dist', i')
    BY <1>1, <1>3, <2>1, VandermondePivotal
  <2>. QED  BY <1>1, <2>1, <2>2 DEF MatrixInv, InvOf, DistInv, IsMade, Steps
<1>. QED  BY <1>2, <1>3

LEMMA StepPivotColumn ==
    ASSUME MatrixInv, PivotColumn PROVE MatrixInv'
<1>1. /\ shape \in Shapes /\ shape' = shape /\ tech' = tech /\ matrix' = matrix /\ i' = i
      /\ j' = 0 /\ pc = "pivot" /\ i < shape.k /\ IsPivotal(shape, dist, i)
      /\ matrix = NULL /\ tech \in {"reed_sol_van", "cauchy_orig", "cauchy_good"}
  BY ShapeOf DEF MatrixInv, InvOf, DistInv, IsMade, PivotColumn
<1> DEFINE F == FieldOf(shape)   T == TimesOf(shape)   X == ColsOf(shape)
           N == RowsOf(shape)
<1>2. /\ shape.k \in Nat \ {0} /\ shape.m \in Nat \ {0}
      /\ i \in 1..shape.k /\ dist \in [N -> [X -> F]] /\ i \in X /\ i \in N
  BY <1>1, ShapeLaws DEF IsPivotal, IsDist, ColsOf, RowsOf
<1>3. PivotRows = {r \in i..shape.k+shape.m-1 : dist[r][i] # Zero}
  BY <1>1, ShapeOf DEF PivotRows
<1>4. PivotRows # {}
  BY <1>1, <1>3, PivotExists
<1>5. PICK p : p = Min(PivotRows)
  OBVIOUS
<1>6. p \in i..shape.k+shape.m-1 /\ dist[p][i] # Zero /\ p \in N
  <2>1. PivotRows \in SUBSET Nat
    BY <1>2, <1>3
  <2>2. p \in PivotRows
    BY <1>4, <1>5, <2>1, LeastOf DEF Min
  <2>. QED  BY <1>2, <1>3, <2>2 DEF RowsOf
<1>7. PICK g : g = [dist EXCEPT ![i] = dist[p], ![p] = dist[i]]
  OBVIOUS
<1> HIDE DEF F, T, X, N
<1>8. g = [r \in N |-> dist[Exchanged(r, i, p)]]
  BY <1>2, <1>6, <1>7 DEF Exchanged
<1>9. g \in [N -> [X -> F]] /\ g[i] = dist[p]
  BY <1>2, <1>6, <1>7
<1>10. PICK f : f = OneOver(g[i][i])
  OBVIOUS
<1>11. IsInverse(shape, dist[p][i], f)
  <2>1. dist[p][i] \in FieldOf(shape)
    BY <1>2, <1>6 DEF F
  <2>. QED  BY <1>1, <1>6, <1>9, <1>10, <2>1, InversesOfShape
<1>12. /\ pc' = "clear"
       /\ dist' = [r \in N |-> [g[r] EXCEPT ![i] = Times(@, f)]]
  BY <1>1, <1>4, <1>5, <1>7, <1>10, ShapeOf DEF PivotColumn, N
<1>13. dist' = ColumnTimes(TimesOf(shape), RowsOf(shape), g, i, f)
  <2>1. f \in F
    BY <1>11 DEF IsInverse, F
  <2>. QED  BY <1>1, <1>2, <1>9, <1>12, <2>1, ColumnTimesIs DEF F, X, N
<1>14. IsClearing(shape, dist', i, 0)
  <2>1. g = [r \in RowsOf(shape) |-> dist[Exchanged(r, i, p)]]
    BY <1>8 DEF N
  <2>. QED  BY <1>1, <1>6, <1>11, <1>13, <2>1, Pivoted
<1>. QED  BY <1>1, <1>12, <1>14 DEF MatrixInv, InvOf, DistInv, IsMade, Steps

LEMMA StepClearColumn ==
    ASSUME MatrixInv, ClearColumn PROVE MatrixInv'
<1>1. /\ shape \in Shapes /\ shape' = shape /\ tech' = tech /\ matrix' = matrix /\ i' = i
      /\ j' = j + 1 /\ pc = "clear" /\ pc' = "clear" /\ IsClearing(shape, dist, i, j)
      /\ matrix = NULL /\ tech \in {"reed_sol_van", "cauchy_orig", "cauchy_good"}
      /\ j < shape.k
  BY ShapeOf DEF MatrixInv, InvOf, DistInv, IsMade, ClearColumn
<1> DEFINE F == FieldOf(shape)   T == TimesOf(shape)   X == ColsOf(shape)
           N == RowsOf(shape)
<1>2. /\ shape.k \in Nat \ {0} /\ shape.m \in Nat \ {0} /\ IsField(F, T)
      /\ i \in 1..shape.k-1 /\ j \in 0..shape.k /\ dist \in [N -> [X -> F]]
  BY <1>1, ShapeLaws DEF IsClearing, IsPivotal, IsDist
<1>3. i \in X /\ i \in N /\ j \in X /\ j # shape.k
  BY <1>1, <1>2 DEF ColsOf, RowsOf
<1> PICK e : e = dist[i][j]
  OBVIOUS
<1>4. dist' = IF j = i THEN dist
              ELSE [r \in N |-> ElementPlus(T, dist[r], i, j, e)]
  <2>1. CASE j = i
    BY <1>1, <1>2, <2>1 DEF ClearColumn
  <2>2. CASE j # i
    <3>1. dist' = [r \in N |-> [dist[r] EXCEPT ![j] = Plus(@, Times(e, dist[r][i]))]]
      BY <1>1, <2>2, ShapeOf DEF ClearColumn
    <3>2. \A r \in N : [dist[r] EXCEPT ![j] = Plus(@, Times(e, dist[r][i]))]
                         = ElementPlus(T, dist[r], i, j, e)
      <4>1. \A x, y : Times(x, y) = T[x][y]
        BY <1>1, ProductsOfShape
      <4> HIDE DEF T, N
      <4>. QED  BY <1>2, <4>1 DEF ElementPlus
    <3>. QED  BY <2>2, <3>1, <3>2
  <2>. QED  BY <2>1, <2>2
<1>5. IsClearing(shape, dist', i, j + 1)
  BY <1>1, <1>3, <1>4, Cleared
<1>. QED  BY <1>1, <1>5 DEF MatrixInv, InvOf, DistInv, IsMade, Steps

LEMMA StepNextColumn ==
    ASSUME MatrixInv, NextColumn PROVE MatrixInv'
<1>1. /\ shape \in Shapes /\ shape' = shape /\ tech' = tech /\ matrix' = matrix /\ dist' = dist
      /\ i' = i + 1 /\ pc' = "pivot" /\ IsClearing(shape, dist, i, shape.k)
      /\ matrix = NULL /\ tech \in {"reed_sol_van", "cauchy_orig", "cauchy_good"}
  BY ShapeOf DEF MatrixInv, InvOf, DistInv, IsMade, NextColumn
<1>2. IsPivotal(shape, dist, i + 1)
  BY <1>1, ColumnDone
<1>. QED  BY <1>1, <1>2 DEF MatrixInv, InvOf, DistInv, IsMade, Steps

LEMMA StepIdentityMade ==
    ASSUME MatrixInv, IdentityMade PROVE MatrixInv'
<1>1. /\ shape \in Shapes /\ shape' = shape /\ tech' = tech /\ matrix' = matrix /\ dist' = dist
      /\ j' = 0 /\ pc' = "ones_row" /\ IsPivotal(shape, dist, shape.k)
      /\ matrix = NULL /\ tech \in {"reed_sol_van", "cauchy_orig", "cauchy_good"}
  BY ShapeOf DEF MatrixInv, InvOf, DistInv, IsMade, IdentityMade
<1>2. IsTopped(shape, dist) /\ OnesTo(shape, Below(shape, dist), 0) /\ 0 \in 0..shape.k
  BY <1>1, TopMade
<1>. QED  BY <1>1, <1>2 DEF MatrixInv, InvOf, DistInv, IsMade, Steps

\* Rows of dist change below the identity.
LEMMA BelowIs ==
    ASSUME NEW s \in Shapes, NEW a, IsTopped(s, a), NEW b, IsRegular(s, b),
           NEW d, d = [r \in RowsOf(s) |-> IF r < s.k THEN a[r] ELSE b[r - s.k]]
    PROVE  IsTopped(s, d) /\ Below(s, d) = b
<1> DEFINE F == FieldOf(s)   X == ColsOf(s)   N == RowsOf(s)   M == CodingOf(s)
<1>1. /\ s.k \in Nat \ {0} /\ s.m \in Nat \ {0} /\ N = 0..s.k+s.m-1 /\ M = 0..s.m-1
      /\ a \in [N -> [X -> F]] /\ b \in [M -> [X -> F]]
      /\ \A r \in 0..s.k-1 : a[r] = UnitOf(X, r)
  BY ShapeLaws DEF IsTopped, IsRegular, RowsOf, CodingOf, IsDist, UnitRows
<1> HIDE DEF F, X, N, M
<1>2. d = [r \in N |-> IF r < s.k THEN a[r] ELSE b[r - s.k]]
  BY DEF N
<1>3. d \in [N -> [X -> F]]
  <2>1. \A r \in N : ~(r < s.k) => r - s.k \in M
    BY <1>1
  <2>. QED  BY <1>1, <1>2, <2>1
<1>4. \A r \in 0..s.k-1 : d[r] = UnitOf(X, r)
  <2>1. \A r \in 0..s.k-1 : r \in N /\ r < s.k
    BY <1>1
  <2>. QED  BY <1>1, <1>2, <2>1
<1>5. \A r \in M : s.k + r \in N /\ d[s.k + r] = b[r]
  <2>1. \A r \in M : s.k + r \in N /\ ~(s.k + r < s.k) /\ (s.k + r) - s.k = r
    BY <1>1
  <2>. QED  BY <1>2, <2>1
<1>6. Below(s, d) = b
  BY <1>1, <1>5 DEF Below, M
<1>. QED  BY <1>3, <1>4, <1>6 DEF IsTopped, IsDist, UnitRows, F, X, N

LEMMA BelowType ==
    ASSUME NEW s \in Shapes, NEW a, IsTopped(s, a)
    PROVE  /\ IsRegular(s, Below(s, a))
           /\ \A r \in RowsOf(s) : ~(r < s.k) => /\ r - s.k \in CodingOf(s)
                                                /\ Below(s, a)[r - s.k] = a[r]
           /\ Below(s, a)[0] = a[s.k]
<1>1. s.k \in Nat \ {0} /\ s.m \in Nat \ {0} /\ IsRegular(s, Below(s, a))
  BY ShapeLaws DEF IsTopped
<1>2. ASSUME NEW r \in RowsOf(s), ~(r < s.k)
      PROVE  r - s.k \in CodingOf(s) /\ Below(s, a)[r - s.k] = a[r]
  <2>1. r - s.k \in CodingOf(s) /\ s.k + (r - s.k) = r
    BY <1>1, <1>2 DEF RowsOf, CodingOf
  <2>. QED  BY <2>1 DEF Below
<1>3. Below(s, a)[0] = a[s.k]
  <2>1. 0 \in CodingOf(s) /\ s.k + 0 = s.k
    BY <1>1 DEF CodingOf
  <2>. QED  BY <2>1 DEF Below
<1>. QED  BY <1>1, <1>2, <1>3

LEMMA StepOnesRow ==
    ASSUME MatrixInv, OnesRow PROVE MatrixInv'
<1>1. /\ shape \in Shapes /\ shape' = shape /\ tech' = tech /\ matrix' = matrix /\ i' = i
      /\ j' = j + 1 /\ pc' = "ones_row" /\ IsTopped(shape, dist)
      /\ j \in 0..shape.k /\ j < shape.k /\ OnesTo(shape, Below(shape, dist), j)
      /\ matrix = NULL /\ tech \in {"reed_sol_van", "cauchy_orig", "cauchy_good"}
  BY ShapeOf DEF MatrixInv, InvOf, DistInv, IsMade, OnesRow
<1> DEFINE F == FieldOf(shape)   X == ColsOf(shape)   N == RowsOf(shape)   M == CodingOf(shape)
<1>2. /\ shape.k \in Nat \ {0} /\ shape.m \in Nat \ {0} /\ j \in X /\ 0 \in M
      /\ dist \in [N -> [X -> F]]
  BY <1>1, ShapeLaws DEF ColsOf, CodingOf, IsTopped, IsDist
<1>3. PICK b : b = Below(shape, dist)
  OBVIOUS
<1>4. /\ IsRegular(shape, b) /\ b \in [M -> [X -> F]] /\ b[0] = dist[shape.k]
      /\ \A r \in N : ~(r < shape.k) => r - shape.k \in M /\ b[r - shape.k] = dist[r]
  BY <1>1, <1>3, BelowType DEF IsRegular
<1>5. PICK f : f = OneOver(b[0][j])
  OBVIOUS
<1>6. IsInverse(shape, b[0][j], f)
  BY <1>1, <1>2, <1>4, <1>5, RegularElement, InversesOfShape
<1>7. f \in F
  BY <1>6 DEF IsInverse
<1>8. PICK g : g = ColumnTimes(TimesOf(shape), M, b, j, f)
  OBVIOUS
<1>9. IsRegular(shape, g) /\ OnesTo(shape, g, j + 1) /\ j + 1 \in 0..shape.k
  BY <1>1, <1>2, <1>3, <1>4, <1>6, <1>8, ColumnScaled
<1>10. g = [r \in M |-> [b[r] EXCEPT ![j] = Times(@, f)]]
  <2> HIDE DEF M
  <2>1. b \in [M -> [ColsOf(shape) -> FieldOf(shape)]]
    BY <1>4
  <2>2. [r \in M |-> [b[r] EXCEPT ![j] = Times(@, f)]]
          = ColumnTimes(TimesOf(shape), M, b, j, f)
    <3>1. shape \in Shapes /\ j \in ColsOf(shape) /\ f \in FieldOf(shape)
      BY <1>1, <1>2, <1>7
    <3> HIDE DEF F, X, N
    <3>. QED  BY <2>1, <3>1, ColumnTimesIs
  <2>. QED  BY <1>8, <2>2
<1>11. dist' = [r \in N |-> IF r < shape.k THEN dist[r]
                            ELSE [dist[r] EXCEPT ![j] = Times(@, f)]]
  BY <1>1, <1>4, <1>5, ShapeOf DEF OnesRow
<1>12. dist' = [r \in N |-> IF r < shape.k THEN dist[r] ELSE g[r - shape.k]]
  <2> HIDE DEF N, M
  <2>1. \A r \in N : ~(r < shape.k) =>
                        g[r - shape.k] = [dist[r] EXCEPT ![j] = Times(@, f)]
    BY <1>4, <1>10
  <2>. QED  BY <1>11, <2>1
<1>13. IsTopped(shape, dist') /\ Below(shape, dist') = g
  BY <1>1, <1>9, <1>12, BelowIs
<1>. QED  BY <1>1, <1>9, <1>13 DEF MatrixInv, InvOf, DistInv, IsMade, Steps

LEMMA StepRowMade ==
    ASSUME MatrixInv, RowMade PROVE MatrixInv'
<1>1. /\ shape \in Shapes /\ shape' = shape /\ tech' = tech /\ matrix' = matrix /\ dist' = dist
      /\ i' = shape.k + 1 /\ pc' = "ones_column" /\ IsTopped(shape, dist)
      /\ OnesTo(shape, Below(shape, dist), shape.k)
      /\ matrix = NULL /\ tech \in {"reed_sol_van", "cauchy_orig", "cauchy_good"}
  BY ShapeOf DEF MatrixInv, InvOf, DistInv, IsMade, RowMade
<1>2. shape.k \in Nat \ {0} /\ shape.m \in Nat \ {0}
  BY <1>1, ShapeLaws
<1>3. /\ shape.k + 1 \in shape.k+1..shape.k+shape.m
      /\ (shape.k + 1) - shape.k = 1 /\ 0 \in ColsOf(shape) /\ 0 < shape.k
      /\ \A r \in CodingOf(shape) : r < 1 => r = 0
  BY <1>2 DEF ColsOf, CodingOf
<1>4. OnesDown(shape, Below(shape, dist), 1)
  BY <1>1, <1>3 DEF OnesTo, OnesDown
<1>. QED  BY <1>1, <1>3, <1>4 DEF MatrixInv, InvOf, DistInv, IsMade, Steps

\* A row that is scaled, in the order of the code.
LEMMA ScaledIs ==
    ASSUME shape \in Shapes, NEW row \in [ColsOf(shape) -> FieldOf(shape)],
           NEW f \in FieldOf(shape)
    PROVE  Scaled(row, f) = AllTimes(TimesOf(shape), ColsOf(shape), row, f)
<1> DEFINE F == FieldOf(shape)   T == TimesOf(shape)   X == ColsOf(shape)
<1>1. Scaled(row, f) = [c \in X |-> T[row[c]][f]]
  BY ShapeOf, ProductsOfShape DEF Scaled
<1>2. IsField(F, T)
  BY ShapeLaws
<1>3. row \in [X -> F] /\ f \in F
  OBVIOUS
<1> HIDE DEF F, T, X
<1>4. \A x, y \in F : T[x][y] = T[y][x]
  BY <1>2, FieldLaws
<1>5. \A c \in X : T[row[c]][f] = T[f][row[c]]
  BY <1>3, <1>4
<1>. QED  BY <1>1, <1>5 DEF AllTimes, T, X

LEMMA StepOnesColumn ==
    ASSUME MatrixInv, OnesColumn PROVE MatrixInv'
<1>1. /\ shape \in Shapes /\ shape' = shape /\ tech' = tech /\ matrix' = matrix
      /\ i' = i + 1 /\ pc' = "ones_column" /\ IsTopped(shape, dist)
      /\ i \in shape.k+1..shape.k+shape.m /\ i < shape.k + shape.m
      /\ OnesTo(shape, Below(shape, dist), shape.k)
      /\ OnesDown(shape, Below(shape, dist), i - shape.k)
      /\ matrix = NULL /\ tech \in {"reed_sol_van", "cauchy_orig", "cauchy_good"}
      /\ dist' = [dist EXCEPT ![i] = Scaled(@, OneOver(@[0]))]
  BY ShapeOf DEF MatrixInv, InvOf, DistInv, IsMade, OnesColumn
<1> DEFINE F == FieldOf(shape)   X == ColsOf(shape)   N == RowsOf(shape)   M == CodingOf(shape)
           p == i - shape.k
<1>2. /\ shape.k \in Nat \ {0} /\ shape.m \in Nat \ {0} /\ 0 \in X
      /\ dist \in [N -> [X -> F]]
  BY <1>1, ShapeLaws DEF ColsOf, IsTopped, IsDist
<1>3. /\ i \in N /\ ~(i < shape.k) /\ p \in M /\ p # 0 /\ (i + 1) - shape.k = p + 1
      /\ i + 1 \in shape.k+1..shape.k+shape.m
  BY <1>1, <1>2 DEF RowsOf, CodingOf
<1>4. PICK b : b = Below(shape, dist)
  OBVIOUS
<1>5. /\ IsRegular(shape, b) /\ b \in [M -> [X -> F]]
      /\ \A r \in N : ~(r < shape.k) => r - shape.k \in M /\ b[r - shape.k] = dist[r]
  BY <1>1, <1>4, BelowType DEF IsRegular
<1>6. PICK f : f = OneOver(b[p][0])
  OBVIOUS
<1>7. IsInverse(shape, b[p][0], f) /\ f \in F /\ f # Zero
  <2>1. b[p][0] \in FieldOf(shape) /\ b[p][0] # Zero
    BY <1>1, <1>2, <1>3, <1>5, RegularElement
  <2>2. IsInverse(shape, b[p][0], f)
    BY <1>1, <1>6, <2>1, InversesOfShape
  <2>. QED  BY <2>2 DEF IsInverse
<1>8. PICK row : row = AllTimes(TimesOf(shape), ColsOf(shape), b[p], f)
  OBVIOUS
<1>9. PICK g : g = [b EXCEPT ![p] = row]
  OBVIOUS
<1>10. /\ IsRegular(shape, g) /\ OnesTo(shape, g, shape.k) /\ OnesDown(shape, g, p + 1)
  <2>1. OnesTo(shape, b, shape.k) /\ OnesDown(shape, b, p)
    BY <1>1, <1>4
  <2>2. IsRowScaled(shape, b, p, f, g)
    BY <1>8, <1>9 DEF IsRowScaled
  <2>3. p \in CodingOf(shape) /\ f \in FieldOf(shape)
    BY <1>3, <1>7
  <2> HIDE DEF F, X, N, M, p
  <2>4. shape \in Shapes /\ IsRegular(shape, b) /\ p # 0 /\ f # Zero
    BY <1>1, <1>3, <1>5, <1>7
  <2>5. IsInverse(shape, b[p][0], f)
    BY <1>7
  <2>. QED  BY <2>1, <2>2, <2>3, <2>4, <2>5, RowScaled
<1>11. dist' = [dist EXCEPT ![i] = row]
  <2>1. dist[i] = b[p] /\ b[p] \in [ColsOf(shape) -> FieldOf(shape)]
    BY <1>3, <1>5
  <2>2. Scaled(b[p], f) = row
    BY <1>1, <1>7, <1>8, <2>1, ScaledIs
  <2>. QED  BY <1>1, <1>6, <2>1, <2>2
<1>12. dist' = [r \in N |-> IF r < shape.k THEN dist[r] ELSE g[r - shape.k]]
  <2>1. \A r \in N : ~(r < shape.k) /\ r # i => r - shape.k # p
    BY <1>1, <1>2 DEF RowsOf
  <2> HIDE DEF N, M, p
  <2>2. \A r \in N : ~(r < shape.k) /\ r # i => g[r - shape.k] = dist[r]
    BY <1>5, <1>9, <2>1
  <2>3. g[i - shape.k] = row
    BY <1>3, <1>5, <1>9 DEF p
  <2>. QED  BY <1>2, <1>3, <1>11, <2>2, <2>3
<1>13. IsTopped(shape, dist') /\ Below(shape, dist') = g
  <2>1. shape \in Shapes /\ IsTopped(shape, dist) /\ IsRegular(shape, g)
    BY <1>1, <1>10
  <2>2. dist' = [r \in RowsOf(shape) |-> IF r < shape.k THEN dist[r] ELSE g[r - shape.k]]
    BY <1>12
  <2>. QED  BY <2>1, <2>2, BelowIs
<1>. QED  BY <1>1, <1>3, <1>10, <1>13 DEF MatrixInv, InvOf, DistInv, IsMade, Steps

LEMMA StepCodingRows ==
    ASSUME MatrixInv, CodingRows PROVE MatrixInv'
<1>1. /\ shape \in Shapes /\ shape' = shape /\ tech' = tech /\ dist' = dist
      /\ pc' = "done" /\ IsTopped(shape, dist) /\ i = shape.k + shape.m
      /\ OnesTo(shape, Below(shape, dist), shape.k)
      /\ OnesDown(shape, Below(shape, dist), i - shape.k)
      /\ tech \in {"reed_sol_van", "cauchy_orig", "cauchy_good"}
  BY ShapeOf DEF MatrixInv, InvOf, DistInv, IsMade, CodingRows
<1>2. matrix' = Below(shape, dist)
  BY <1>1, ShapeOf DEF CodingRows, Below
<1>3. i - shape.k = shape.m
  BY <1>1, ShapeLaws
<1>4. IsRegular(shape, matrix') /\ OnesTo(shape, matrix', shape.k)
      /\ OnesDown(shape, matrix', shape.m)
  BY <1>1, <1>2, <1>3 DEF IsTopped
<1>. QED  BY <1>1, <1>4 DEF MatrixInv, InvOf, DistInv, IsMade, Steps

LEMMA StepCauchy ==
    ASSUME MatrixInv, Cauchy PROVE MatrixInv'
<1>1. /\ shape \in Shapes /\ shape' = shape /\ tech' = tech /\ dist' = dist
      /\ i' = 1 /\ j' = 0 /\ pc = "start" /\ tech \in {"cauchy_orig", "cauchy_good"}
      /\ matrix = NULL
  BY DEF MatrixInv, InvOf, IsMade, Cauchy
<1>2. shape.k \in Nat \ {0} /\ 0 \in 0..shape.k /\ \A c \in ColsOf(shape) : ~(c < 0)
  BY <1>1, ShapeLaws DEF ColsOf
<1>3. CASE UsesBest
  <2>1. pc' = "done" /\ matrix' = BestRows
    BY <1>3 DEF Cauchy
  <2>2. IsRegular(shape, matrix') /\ OnesTo(shape, matrix', shape.k)
    BY <1>1, <1>3, <2>1, BestRegular DEF UsesBest
  <2>. QED  BY <1>1, <2>1, <2>2 DEF MatrixInv, InvOf, DistInv, IsMade, Steps
<1>4. CASE ~UsesBest /\ 2^w < k + m
  <2>1. pc' = "null" /\ matrix' = matrix /\ 2^shape.w < shape.k + shape.m
    BY <1>1, <1>4, ShapeOf DEF Cauchy
  <2>. QED  BY <1>1, <2>1 DEF MatrixInv, InvOf, DistInv, IsMade, Steps
<1>5. CASE ~UsesBest /\ ~(2^w < k + m)
  <2>1. matrix' = Original /\ pc' = IF tech = "cauchy_orig" THEN "done" ELSE "columns"
    BY <1>5 DEF Cauchy
  <2>2. IsRegular(shape, matrix')
    BY <1>1, <1>5, <2>1, OriginalRegular
  <2>3. OnesTo(shape, matrix', 0)
    BY <1>2 DEF OnesTo
  <2>4. CASE tech = "cauchy_orig"
    BY <1>1, <2>1, <2>2, <2>4 DEF MatrixInv, InvOf, DistInv, IsMade, Steps
  <2>5. CASE tech = "cauchy_good"
    BY <1>1, <1>2, <2>1, <2>2, <2>3, <2>5 DEF MatrixInv, InvOf, DistInv, IsMade, Steps
  <2>. QED  BY <1>1, <2>4, <2>5
<1>. QED  BY <1>3, <1>4, <1>5

LEMMA StepDivideColumn ==
    ASSUME MatrixInv, DivideColumn PROVE MatrixInv'
<1>1. /\ shape \in Shapes /\ shape' = shape /\ tech' = tech /\ dist' = dist /\ i' = i
      /\ j' = j + 1 /\ pc' = "columns" /\ i = 1 /\ tech = "cauchy_good"
      /\ j \in 0..shape.k /\ j < shape.k /\ IsRegular(shape, matrix)
      /\ OnesTo(shape, matrix, j)
  BY ShapeOf DEF MatrixInv, InvOf, IsMade, DivideColumn
<1> DEFINE F == FieldOf(shape)   X == ColsOf(shape)   M == CodingOf(shape)
<1>2. j \in X /\ 0 \in M /\ matrix \in [M -> [X -> F]]
  BY <1>1, ShapeLaws DEF ColsOf, CodingOf, IsRegular
<1>3. PICK f : f = OneOver(matrix[0][j])
  OBVIOUS
<1>4. IsInverse(shape, matrix[0][j], f) /\ f \in F
  <2>1. matrix[0][j] \in FieldOf(shape) /\ matrix[0][j] # Zero
    BY <1>1, <1>2, RegularElement
  <2>. QED  BY <1>1, <1>3, <2>1, InversesOfShape DEF IsInverse
<1>5. PICK g : g = ColumnTimes(TimesOf(shape), M, matrix, j, f)
  OBVIOUS
<1>6. IsRegular(shape, g) /\ OnesTo(shape, g, j + 1) /\ j + 1 \in 0..shape.k
  <2>1. g = ColumnTimes(TimesOf(shape), CodingOf(shape), matrix, j, f)
    BY <1>5
  <2>2. j \in ColsOf(shape) /\ IsInverse(shape, matrix[0][j], f)
    BY <1>2, <1>4
  <2> HIDE DEF F, X, M
  <2>. QED  BY <1>1, <2>1, <2>2, ColumnScaled
<1>7. [r \in M |-> [matrix[r] EXCEPT ![j] = Times(@, f)]] = g
  <2>1. matrix \in [M -> [ColsOf(shape) -> FieldOf(shape)]]
    BY <1>2
  <2>2. shape \in Shapes /\ j \in ColsOf(shape) /\ f \in FieldOf(shape)
    BY <1>1, <1>2, <1>4
  <2> HIDE DEF F, X, M
  <2>3. [r \in M |-> [matrix[r] EXCEPT ![j] = Times(@, f)]]
          = ColumnTimes(TimesOf(shape), M, matrix, j, f)
    BY <2>1, <2>2, ColumnTimesIs
  <2>. QED  BY <1>5, <2>3
<1>8. matrix' = [r \in M |-> [matrix[r] EXCEPT ![j] = Times(@, f)]]
  BY <1>1, <1>3, ShapeOf DEF DivideColumn
<1>. QED  BY <1>1, <1>6, <1>7, <1>8 DEF MatrixInv, InvOf, DistInv, IsMade, Steps

LEMMA StepColumnsDivided ==
    ASSUME MatrixInv, ColumnsDivided PROVE MatrixInv'
<1>1. /\ shape \in Shapes /\ shape' = shape /\ tech' = tech /\ matrix' = matrix /\ dist' = dist
      /\ i' = i /\ i = 1 /\ pc' = "improve" /\ tech = "cauchy_good"
      /\ IsRegular(shape, matrix) /\ OnesTo(shape, matrix, shape.k)
  BY ShapeOf DEF MatrixInv, InvOf, IsMade, ColumnsDivided
<1>2. 1 \in 1..shape.m
  BY <1>1, ShapeLaws
<1>. QED  BY <1>1, <1>2 DEF MatrixInv, InvOf, DistInv, IsMade, Steps

LEMMA StepImproveRow ==
    ASSUME MatrixInv, ImproveRow PROVE MatrixInv'
<1>1. /\ shape \in Shapes /\ shape' = shape /\ tech' = tech /\ dist' = dist
      /\ i' = i + 1 /\ pc' = "improve" /\ tech = "cauchy_good"
      /\ i \in 1..shape.m /\ i < shape.m /\ IsRegular(shape, matrix)
      /\ OnesTo(shape, matrix, shape.k)
      /\ matrix' = [matrix EXCEPT ![i] = Divided(@)]
  BY ShapeOf DEF MatrixInv, InvOf, IsMade, ImproveRow
<1> DEFINE F == FieldOf(shape)   X == ColsOf(shape)   M == CodingOf(shape)
<1>2. i \in M /\ i # 0 /\ i + 1 \in 1..shape.m /\ matrix \in [M -> [X -> F]]
  BY <1>1, ShapeLaws DEF CodingOf, IsRegular
<1>3. \/ Divided(matrix[i]) = matrix[i]
      \/ \E f \in F \ {Zero} : Divided(matrix[i]) = AllTimes(TimesOf(shape), X, matrix[i], f)
  <2>1. matrix[i] \in [X -> F] /\ \A c \in X : matrix[i][c] # Zero
    BY <1>1, <1>2, RegularElement
  <2>. QED  BY <1>1, <2>1, DividedIs
<1>4. IsRegular(shape, matrix') /\ OnesTo(shape, matrix', shape.k)
  <2>1. CASE Divided(matrix[i]) = matrix[i]
    <3>1. matrix' = matrix
      BY <1>1, <1>2, <2>1
    <3>. QED  BY <1>1, <3>1
  <2>2. ASSUME NEW f \in F \ {Zero},
               Divided(matrix[i]) = AllTimes(TimesOf(shape), X, matrix[i], f)
        PROVE  IsRegular(shape, matrix') /\ OnesTo(shape, matrix', shape.k)
    <3> PICK g : g = matrix'
      OBVIOUS
    <3>1. IsRowScaled(shape, matrix, i, f, g)
      BY <1>1, <2>2 DEF IsRowScaled
    <3>2. i \in CodingOf(shape) /\ i # 0 /\ f \in FieldOf(shape) /\ f # Zero
      BY <1>2, <2>2
    <3> HIDE DEF F, X, M
    <3>3. IsRegular(shape, g) /\ OnesTo(shape, g, shape.k)
      BY <1>1, <3>1, <3>2, RowScaled
    <3>. QED  BY <3>3
  <2>. QED  BY <1>3, <2>1, <2>2
<1>. QED  BY <1>1, <1>2, <1>4 DEF MatrixInv, InvOf, DistInv, IsMade, Steps

LEMMA StepImproved ==
    ASSUME MatrixInv, Improved PROVE MatrixInv'
<1>1. /\ shape \in Shapes /\ shape' = shape /\ tech' = tech /\ matrix' = matrix /\ dist' = dist
      /\ pc' = "done" /\ tech = "cauchy_good"
      /\ IsRegular(shape, matrix) /\ OnesTo(shape, matrix, shape.k)
  BY ShapeOf DEF MatrixInv, InvOf, IsMade, Improved
<1>. QED  BY <1>1 DEF MatrixInv, InvOf, DistInv, IsMade, Steps

LEMMA StepsKeepMatrixInv == MatrixInv /\ [Next]_vars => MatrixInv'
<1> SUFFICES ASSUME MatrixInv, [Next]_vars PROVE MatrixInv'
  OBVIOUS
<1>1. CASE UNCHANGED vars
  BY <1>1 DEF vars, MatrixInv
<1>2. CASE Next
  BY <1>2, StepVandermonde, StepPivotColumn, StepClearColumn, StepNextColumn,
     StepIdentityMade, StepOnesRow, StepRowMade, StepOnesColumn, StepCodingRows,
     StepCauchy, StepDivideColumn, StepColumnsDivided, StepImproveRow, StepImproved
     DEF Next
<1>. QED  BY <1>1, <1>2

\* What holds of the matrices between all steps: the rows above column i are
\* those of the identity and dist determines the data, and once the coding
\* rows are made every square submatrix of them is regular.
THEOREM MatrixInvHolds == Spec => []MatrixInv
<1>. QED  BY InvInit, StepsKeepMatrixInv, PTL DEF Spec

-----------------------------------------------------------------------------
(* A pivot is always left                                                  *)

LEMMA InvGivesPivot == MatrixInv => PivotLeft
<1> SUFFICES ASSUME MatrixInv PROVE PivotLeft
  OBVIOUS
<1>1. shape \in Shapes
  BY DEF MatrixInv, InvOf
<1>2. pc = "pivot" => IsPivotal(shape, dist, i)
  BY DEF MatrixInv, InvOf, DistInv
<1>3. pc = "pivot" => \A r \in 0..i-1 : dist[r] = Unit(r)
  BY <1>1, <1>2, ShapeOf DEF IsPivotal, UnitRows
<1>4. ASSUME pc = "pivot", i < k PROVE PivotRows # {}
  <2>1. PivotRows = {r \in i..shape.k+shape.m-1 : dist[r][i] # Zero} /\ i < shape.k
    BY <1>1, <1>4, ShapeOf DEF PivotRows
  <2>2. \E r \in i..shape.k+shape.m-1 : dist[r][i] # Zero
    BY <1>1, <1>2, <1>4, <2>1, PivotExists
  <2>. QED  BY <2>1, <2>2
<1>5. pc # "exit"
  BY DEF MatrixInv, InvOf, Steps
<1>6. pc = "null" => 2^w < k + m
  BY <1>1, ShapeOf DEF MatrixInv, InvOf
<1>. QED  BY <1>3, <1>4, <1>5, <1>6 DEF PivotLeft

\* "This should never happen if rows/w are correct" (reed_sol.c:275): the
\* construction of the Vandermonde matrix finds a pivot for every column, for
\* all numbers of devices that the field has elements for.
THEOREM PivotLeftHolds == Spec => []PivotLeft
<1>. QED  BY MatrixInvHolds, InvGivesPivot, PTL

-----------------------------------------------------------------------------
(* Every square submatrix of the coding rows is regular                    *)

LEMMA ParityIs ==
    ASSUME NEW S, NEW f, \A c \in S : f[c] \in Elements(w)
    PROVE  Parity(S, f) = Total(S, f)
<1> SUFFICES ASSUME NEW b PROVE b \in Parity(S, f) <=> b \in Total(S, f)
  OBVIOUS
<1>1. b \in Total(S, f) <=> Cardinality({c \in S : b \in f[c]}) % 2 = 1
  BY TotalIs
<1>2. CASE b \in 0..w-1
  BY <1>1, <1>2 DEF Parity
<1>3. CASE b \notin 0..w-1
  <2>1. b \notin UNION {f[c] : c \in S}
    BY <1>3 DEF Elements
  <2>. QED  BY <1>3, <2>1 DEF Parity, Total
<1>. QED  BY <1>2, <1>3

\* The minors of the rows R, from those of the rows without the first.
NextMinors(a, R, G) ==
    [C \in SUBSET Cols |->
        IF R = {} THEN One
        ELSE Parity(C, [c \in C |-> Times(a[Min(R)][c], G[C \ {c}])])]
AreMinors(h, a) ==
    h = [R \in SUBSET (0..m-1) |-> NextMinors(a, R, h[R \ {Min(R)}])]

LEMMA NextMinorsAre ==
    ASSUME shape \in Shapes, NEW a \in [CodingOf(shape) -> [ColsOf(shape) -> FieldOf(shape)]],
           NEW R \in SUBSET CodingOf(shape),
           NEW G \in [SUBSET ColsOf(shape) -> FieldOf(shape)]
    PROVE  /\ R # {} => Min(R) \in R
           /\ R # {} => NextMinors(a, R, G)
                          = [C \in SUBSET ColsOf(shape) |->
                                Expanded(TimesOf(shape), G, a[Min(R)], C)]
           /\ R = {} => NextMinors(a, R, G) = [C \in SUBSET ColsOf(shape) |-> One]
           /\ NextMinors(a, R, G) \in [SUBSET ColsOf(shape) -> FieldOf(shape)]
<1> DEFINE F == FieldOf(shape)   T == TimesOf(shape)   X == ColsOf(shape)
           M == CodingOf(shape)
<1>1. /\ IsField(F, T) /\ IsFiniteSet(X) /\ Cols = X /\ F = Elements(w)
      /\ \A x, y : Times(x, y) = T[x][y]
      /\ a \in [M -> [X -> F]] /\ G \in [SUBSET X -> F]
  BY ShapeLaws, ShapeOf, ProductsOfShape DEF FieldOf
<1>2. ASSUME R # {} PROVE Min(R) \in R
  <2>1. R \in SUBSET Nat
    BY ShapeLaws DEF CodingOf
  <2>. QED  BY <1>2, <2>1, LeastOf DEF Min
<1>3. ASSUME R = {}
      PROVE  /\ NextMinors(a, R, G) = [C \in SUBSET X |-> One]
             /\ NextMinors(a, R, G) \in [SUBSET X -> F]
  <2>1. One \in F
    BY <1>1 DEF IsField
  <2>. QED  BY <1>1, <1>3, <2>1 DEF NextMinors
<1>4. ASSUME R # {}
      PROVE  /\ NextMinors(a, R, G) = [C \in SUBSET X |-> Expanded(T, G, a[Min(R)], C)]
             /\ NextMinors(a, R, G) \in [SUBSET X -> F]
  <2> PICK r \in M : r = Min(R)
    BY <1>2, <1>4
  <2> PICK v \in [X -> F] : v = a[r]
    BY <1>1
  <2> HIDE DEF F, T, X, M
  <2>1. ASSUME NEW C \in SUBSET X
        PROVE  /\ Parity(C, [c \in C |-> Times(a[Min(R)][c], G[C \ {c}])])
                    = Expanded(T, G, a[Min(R)], C)
               /\ Expanded(T, G, a[Min(R)], C) \in F
    <3> PICK f : f = [c \in C |-> T[v[c]][G[C \ {c}]]]
      OBVIOUS
    <3>1. f \in [C -> F]
      <4>1. \A x, y \in F : T[x][y] \in F
        BY <1>1, FieldLaws
      <4>2. \A c \in C : v[c] \in F /\ G[C \ {c}] \in F
        BY <1>1
      <4>. QED  BY <4>1, <4>2
    <3>2. [c \in C |-> Times(a[Min(R)][c], G[C \ {c}])] = f
      BY <1>1
    <3>3. \A c \in C : f[c] \in Elements(w)
      BY <1>1, <3>1
    <3>4. Parity(C, f) = Total(C, f)
      BY <3>3, ParityIs
    <3>5. Expanded(T, G, a[Min(R)], C) = Total(C, f)
      BY DEF Expanded
    <3>6. Total(C, f) \in F
      <4>1. IsFiniteSet(C) /\ C \in SUBSET C
        BY <1>1, FS_Subset
      <4>. QED  BY <1>1, <3>1, <4>1, TotalType
    <3>. QED  BY <3>2, <3>4, <3>5, <3>6
  <2>2. NextMinors(a, R, G)
          = [C \in SUBSET X |-> Parity(C, [c \in C |-> Times(a[Min(R)][c], G[C \ {c}])])]
    BY <1>1, <1>4 DEF NextMinors
  <2>. QED  BY <2>1, <2>2
<1>. QED  BY <1>2, <1>3, <1>4

\* The model's minors are those that the expansion of regular rows gives.
LEMMA MinorsExist ==
    ASSUME shape \in Shapes, NEW a \in [CodingOf(shape) -> [ColsOf(shape) -> FieldOf(shape)]]
    PROVE  \E g : /\ AreMinors(g, a)
                  /\ HasMinors(FieldOf(shape), TimesOf(shape), ColsOf(shape), CodingOf(shape),
                               a, [R \in SUBSET CodingOf(shape) |-> Min(R)], g)
<1> DEFINE F == FieldOf(shape)   T == TimesOf(shape)   X == ColsOf(shape)
           M == CodingOf(shape)
           V == [SUBSET X -> F]
           pick == [R \in SUBSET M |-> Min(R)]
           first == [C \in SUBSET X |-> One]
           step == [R \in SUBSET M |-> [G \in V |-> NextMinors(a, R, G)]]
<1>1. /\ IsField(F, T) /\ IsFiniteSet(X) /\ IsFiniteSet(M) /\ 0..m-1 = M
      /\ a \in [M -> [X -> F]]
  BY ShapeLaws, ShapeOf
<1>2. ASSUME NEW R \in SUBSET M, NEW G \in V
      PROVE  /\ R # {} => Min(R) \in R
             /\ R # {} => NextMinors(a, R, G) = [C \in SUBSET X |-> Expanded(T, G, a[Min(R)], C)]
             /\ R = {} => NextMinors(a, R, G) = first
             /\ NextMinors(a, R, G) \in V
  BY NextMinorsAre
<1>3. first \in V
  BY <1>1 DEF IsField
<1> HIDE DEF F, T, X, M, V, first
<1>4. Picks(M, pick)
  <2>1. \E G : G \in V
    BY <1>3
  <2>. QED  BY <1>2, <2>1 DEF Picks
<1>5. step \in [SUBSET M -> [V -> V]]
  BY <1>2
<1>6. PICK g \in [SUBSET M -> V] : MadeByParts(M, g, first, pick, step)
  <2> HIDE DEF pick, step
  <2>. QED  BY <1>1, <1>3, <1>4, <1>5, PartsRecursion
<1>7. ASSUME NEW R \in SUBSET M
      PROVE  /\ R = {} => g[R] = first
             /\ R # {} => g[R] = NextMinors(a, R, g[R \ {Min(R)}])
  <2>1. g[R] = IF R = {} THEN first ELSE step[R][g[R \ {pick[R]}]]
    BY <1>6 DEF MadeByParts
  <2> PICK S \in SUBSET M : S = R \ {Min(R)}
    OBVIOUS
  <2> PICK G \in V : G = g[S]
    OBVIOUS
  <2>. QED  BY <2>1
<1>8. ASSUME NEW R \in SUBSET M PROVE g[R] = NextMinors(a, R, g[R \ {Min(R)}])
  <2> PICK S \in SUBSET M : S = R \ {Min(R)}
    OBVIOUS
  <2> PICK G \in V : G = g[S]
    OBVIOUS
  <2>. QED  BY <1>2, <1>7
<1>9. AreMinors(g, a)
  BY <1>1, <1>8 DEF AreMinors
<1>10. ASSUME NEW R \in SUBSET M, NEW C \in SUBSET X
       PROVE  g[R][C] = IF R = {} THEN One ELSE Expanded(T, g[R \ {pick[R]}], a[pick[R]], C)
  <2> PICK S \in SUBSET M : S = R \ {Min(R)}
    OBVIOUS
  <2> PICK G \in V : G = g[S]
    OBVIOUS
  <2>1. CASE R = {}
    BY <1>7, <2>1 DEF first
  <2>2. CASE R # {}
    <3>1. g[R] = [D \in SUBSET X |-> Expanded(T, G, a[Min(R)], D)]
      BY <1>2, <1>7, <2>2
    <3>. QED  BY <2>2, <3>1
  <2>. QED  BY <2>1, <2>2
<1>11. IsMinors(F, T, X, M, a, pick, g)
  <2>1. g \in [SUBSET M -> [SUBSET X -> F]]
    BY DEF V
  <2>2. \A R \in SUBSET M : R # {} => pick[R] \in R
    BY <1>4 DEF Picks
  <2> HIDE DEF pick
  <2>. QED  BY <1>10, <2>1, <2>2 DEF IsMinors
<1>12. HasMinors(F, T, X, M, a, pick, g)
  BY <1>1, <1>11 DEF HasMinors
<1>. QED  BY <1>9, <1>12 DEF F, T, X, M

LEMMA DeterminantsNotZero ==
    ASSUME shape \in Shapes, IsRegular(shape, Coding)
    PROVE  \A R \in SUBSET (0..m-1), C \in SUBSET Cols :
              Cardinality(R) = Cardinality(C) => Determinant(R, C) # Zero
<1> DEFINE F == FieldOf(shape)   T == TimesOf(shape)   X == ColsOf(shape)
           M == CodingOf(shape)
           pick == [R \in SUBSET M |-> Min(R)]
<1> PICK a : a = Coding
  OBVIOUS
<1>1. /\ IsFiniteSet(M) /\ 0..m-1 = M /\ Cols = X
      /\ a \in [M -> [X -> F]] /\ Regular(F, T, X, M, a)
  BY ShapeLaws, ShapeOf DEF IsRegular
<1>2. PICK g : AreMinors(g, a) /\ HasMinors(F, T, X, M, a, pick, g)
  BY <1>1, MinorsExist
<1>3. Minors = CHOOSE h : AreMinors(h, a)
  BY DEF Minors, AreMinors, NextMinors
<1>4. AreMinors(Minors, a)
  BY <1>2, <1>3
<1> HIDE DEF F, T, X, M
<1>5. Picks(M, pick)
  BY <1>2 DEF HasMinors, IsMinors, Picks
<1> DEFINE P == {R \in SUBSET M : Minors[R] = g[R]}
<1>6. \A R \in SUBSET M : /\ Minors[R] = NextMinors(a, R, Minors[R \ {pick[R]}])
                          /\ g[R] = NextMinors(a, R, g[R \ {pick[R]}])
  BY <1>1, <1>2, <1>4 DEF AreMinors
<1>7. {} \in P
  <2>1. \A G, H : NextMinors(a, {}, G) = NextMinors(a, {}, H)
    BY DEF NextMinors
  <2>. QED  BY <1>6, <2>1
<1>8. ASSUME NEW R \in SUBSET M, R # {}, R \ {pick[R]} \in P PROVE R \in P
  <2> HIDE DEF pick
  <2>. QED  BY <1>6, <1>8
<1>9. \A R \in SUBSET M : R \in P
  <2> HIDE DEF P, pick
  <2>. QED  BY <1>1, <1>5, <1>7, <1>8, PickInduction
<1>10. \A R \in SUBSET M, C \in SUBSET X : Cardinality(R) = Cardinality(C) => g[R][C] # Zero
  <2> HIDE DEF pick
  <2>. QED  BY <1>1, <1>2, MinorsNotZero
<1>. QED  BY <1>1, <1>9, <1>10 DEF Determinant

LEMMA InvGivesFit == MatrixInv => FitForDecoders
<1> SUFFICES ASSUME MatrixInv PROVE FitForDecoders
  OBVIOUS
<1>1. shape \in Shapes
  BY DEF MatrixInv, InvOf
<1>2. pc \in Top => IsTopped(shape, dist)
  BY DEF MatrixInv, InvOf, DistInv, Top
<1>3. pc \in Top => \A c \in Cols : dist[c] = Unit(c)
  BY <1>1, <1>2, ShapeOf DEF IsTopped, UnitRows, ColsOf
<1>4. pc \in Top \/ matrix # NULL => IsRegular(shape, Coding)
  <2>1. CASE pc \in Top
    <3>1. Coding = Below(shape, dist)
      BY <1>1, <2>1, ShapeOf DEF Coding, Below
    <3>. QED  BY <1>2, <2>1, <3>1 DEF IsTopped
  <2>2. CASE pc \notin Top /\ matrix # NULL
    <3>1. Coding = matrix
      BY <2>2 DEF Coding
    <3>. QED  BY <2>2, <3>1 DEF MatrixInv, InvOf, IsMade
  <2>. QED  BY <2>1, <2>2
<1>5. AnyKRowsRegular
  <2>1. pc \in Top \/ matrix # NULL =>
           \A R \in SUBSET (0..m-1), C \in SUBSET Cols :
              Cardinality(R) = Cardinality(C) => Determinant(R, C) # Zero
    BY <1>1, <1>4, DeterminantsNotZero
  <2>. QED  BY <1>3, <2>1 DEF AnyKRowsRegular
<1>6. FirstRowOfOnes
  <2> SUFFICES ASSUME pc = "done", tech # "cauchy_orig"
               PROVE  /\ \A c \in Cols : matrix[0][c] = One
                      /\ tech = "reed_sol_van" => \A r \in 0..m-1 : matrix[r][0] = One
    BY DEF FirstRowOfOnes
  <2>1. /\ OnesTo(shape, matrix, shape.k)
        /\ tech = "reed_sol_van" => OnesDown(shape, matrix, shape.m)
    BY DEF MatrixInv, InvOf, IsMade
  <2>2. \A c \in ColsOf(shape) : c < shape.k
    BY <1>1, ShapeLaws DEF ColsOf
  <2>3. \A r \in CodingOf(shape) : r < shape.m
    BY <1>1, ShapeLaws DEF CodingOf
  <2>. QED  BY <1>1, <2>1, <2>2, <2>3, ShapeOf DEF OnesTo, OnesDown
<1>. QED  BY <1>5, <1>6 DEF FitForDecoders

\* Any k of the k + m devices determine the data, and the first coding row of
\* a matrix for the decoders that XOR is all ones: for every number of
\* devices, of both the Vandermonde and the Cauchy matrices.
THEOREM FitForDecodersHolds == Spec => []FitForDecoders
<1>. QED  BY MatrixInvHolds, InvGivesFit, PTL

=============================================================================
