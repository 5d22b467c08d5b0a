----------------------------- MODULE CodingMatrix -----------------------------
(***************************************************************************)
(* The coding matrices an encoder makes before it encodes: the Vandermonde *)
(* matrix of reed_sol.c, and the Cauchy matrices of cauchy.c, original and *)
(* improved.  One action is one column or row that is worked on.           *)
(*                                                                         *)
(* Words are sets of bits, as in GaloisField.                              *)
(***************************************************************************)
EXTENDS GaloisField, FiniteSetsExt, Sequences

CONSTANTS Shapes,       \* records of k, m and w
          NULL

ASSUME ShapesAssumption ==
    \A s \in Shapes : s.k \in Nat \ {0} /\ s.m \in Nat \ {0} /\ s.w \in 1..4
\* The polynomials that galois.c takes are irreducible.
ASSUME FieldAssumption == \A s \in Shapes : HasInverses(s.w)

VARIABLES
    tech, shape,
    dist,       \* the distribution matrix: k + m rows
    matrix,     \* the coding matrix: m rows
    i, j,       \* loop counters
    pc

vars == <<tech, shape, dist, matrix, i, j, pc>>

k == shape.k
m == shape.m
w == shape.w
Cols == 0..k-1
Rows == 0..k+m-1
Field == Elements(w)

\* The word of an integer, and tables of products and inverses for every w.
Word(x, width) == {b \in 0..width-1 : (x \div 2^b) % 2 = 1}
Widths == {s.w : s \in Shapes}
Products == [v \in Widths |->
    [x \in Elements(v) |-> [y \in Elements(v) |-> ShiftMultiply(x, y, v)]]]
Inverses == [v \in Widths |-> [y \in Elements(v) \ {Zero} |-> Quotient(One, y, v)]]
Times(x, y) == Products[w][x][y]
\* 1/0 is -1 in the code; no matrix here has a 0 that is divided by.
OneOver(x) == IF x = Zero THEN Zero ELSE Inverses[w][x]

Unit(c) == [x \in Cols |-> IF x = c THEN One ELSE Zero]
Scaled(row, f) == [x \in Cols |-> Times(row[x], f)]

-----------------------------------------------------------------------------
(* reed_sol.c *)

\* Row r holds the powers of r; the last row is that of infinity.
Power(r) ==
    LET p[x \in Cols] == IF x = 0 THEN One ELSE Times(p[x-1], Word(r, w)) IN p
ExtendedVandermonde ==
    [r \in Rows |-> IF r = 0 THEN Unit(0)
                    ELSE IF r = k + m - 1 THEN Unit(k - 1)
                    ELSE Power(r)]

Vandermonde ==
    /\ pc = "start" /\ tech = "reed_sol_van"
    /\ IF 2^w < k + m
       THEN pc' = "null" /\ UNCHANGED dist
       ELSE pc' = "pivot" /\ dist' = ExtendedVandermonde
    /\ i' = 1 /\ j' = 0
    /\ UNCHANGED <<tech, shape, matrix>>

\* Row i gets an element i,i other than 0, which is made 1 by scaling column i.
PivotRows == {r \in i..k+m-1 : dist[r][i] # Zero}
PivotColumn ==
    /\ pc = "pivot"
    /\ i < k
    /\ IF PivotRows = {}
       THEN pc' = "exit" /\ UNCHANGED dist
       ELSE LET p == Min(PivotRows)
                swapped == [dist EXCEPT ![i] = dist[p], ![p] = dist[i]]
                f == OneOver(swapped[i][i])
            IN  /\ dist' = [r \in Rows |-> [swapped[r] EXCEPT ![i] = Times(@, f)]]
                /\ pc' = "clear"
    /\ j' = 0
    /\ UNCHANGED <<tech, shape, matrix, i>>

\* Column j loses its element in row i.
Mutant_ClearRight ==
    /\ pc = "clear"
    /\ j < k
    /\ IF j <= i
       THEN UNCHANGED dist
       ELSE LET e == dist[i][j] IN
            dist' = [r \in Rows |-> [dist[r] EXCEPT ![j] = Plus(@, Times(e, dist[r][i]))]]
    /\ j' = j + 1
    /\ UNCHANGED <<tech, shape, matrix, i, pc>>
Mutant_ClearColumn ==
    /\ pc = "clear"
    /\ j < k
    /\ IF j = i
       THEN UNCHANGED dist
       ELSE LET e == dist[i][j] IN
            dist' = [r \in Rows |->
                       IF r < k THEN [dist[r] EXCEPT ![j] = Plus(@, Times(e, dist[r][i]))]
                                ELSE dist[r]]
    /\ j' = j + 1
    /\ UNCHANGED <<tech, shape, matrix, i, pc>>
ClearColumn ==
    /\ pc = "clear"
    /\ j < k
    /\ IF j = i
       THEN UNCHANGED dist
       ELSE LET e == dist[i][j] IN
            dist' = [r \in Rows |-> [dist[r] EXCEPT ![j] = Plus(@, Times(e, dist[r][i]))]]
    /\ j' = j + 1
    /\ UNCHANGED <<tech, shape, matrix, i, pc>>

NextColumn ==
    /\ pc = "clear"
    /\ j = k
    /\ i' = i + 1
    /\ pc' = "pivot"
    /\ UNCHANGED <<tech, shape, dist, matrix, j>>

\* The top is the identity; the first coding row is to be all ones.
IdentityMade ==
    /\ pc = "pivot"
    /\ i = k
    /\ j' = 0
    /\ pc' = "ones_row"
    /\ UNCHANGED <<tech, shape, dist, matrix, i>>

OnesRow ==
    /\ pc = "ones_row"
    /\ j < k
    /\ LET f == OneOver(dist[k][j]) IN
       dist' = [r \in Rows |-> IF r < k THEN dist[r]
                                        ELSE [dist[r] EXCEPT ![j] = Times(@, f)]]
    /\ j' = j + 1
    /\ UNCHANGED <<tech, shape, matrix, i, pc>>

RowMade ==
    /\ pc = "ones_row"
    /\ j = k
    /\ i' = k + 1
    /\ pc' = "ones_column"
    /\ UNCHANGED <<tech, shape, dist, matrix, j>>

\* Each row below it begins with a one.
OnesColumn ==
    /\ pc = "ones_column"
    /\ i < k + m
    /\ dist' = [dist EXCEPT ![i] = Scaled(@, OneOver(@[0]))]
    /\ i' = i + 1
    /\ UNCHANGED <<tech, shape, matrix, j, pc>>

\* reed_sol_vandermonde_coding_matrix: the rows under the identity.
CodingRows ==
    /\ pc = "ones_column"
    /\ i = k + m
    /\ matrix' = [r \in 0..m-1 |-> dist[k + r]]
    /\ pc' = "done"
    /\ UNCHANGED <<tech, shape, dist, i, j>>

-----------------------------------------------------------------------------
(* cauchy.c *)

\* What cauchy_n_ones computes: the ones of the w x w bitmatrix of x, whose
\* columns are x, 2x, 4x, ...  It follows how the count changes from column to
\* column: a carry drops the high bit and flips the bits of the polynomial.
Mutant_n_ones(x, v) ==
    LET PP == Double({v-1}, v)
        column[c \in 0..v-1] ==
            IF c = 0 THEN [n |-> x, ones |-> Cardinality(x), sum |-> Cardinality(x)]
            ELSE LET last == column[c-1]
                     n == Double(last.n, v)
                     ones == IF v-1 \in last.n
                             THEN last.ones + Cardinality(PP \cap n) - Cardinality(PP \ n)
                             ELSE last.ones
                 IN  [n |-> n, ones |-> ones, sum |-> last.sum + ones]
    IN  column[v-1].sum
n_ones(x, v) ==
    LET PP == Double({v-1}, v)
        column[c \in 0..v-1] ==
            IF c = 0 THEN [n |-> x, ones |-> Cardinality(x), sum |-> Cardinality(x)]
            ELSE LET last == column[c-1]
                     n == Double(last.n, v)
                     ones == IF v-1 \in last.n
                             THEN last.ones - 1 + Cardinality(PP \cap n) - Cardinality(PP \ n)
                             ELSE last.ones
                 IN  [n |-> n, ones |-> ones, sum |-> last.sum + ones]
    IN  column[v-1].sum
RowOnes(row) == MapThenSumSet(LAMBDA c : n_ones(row[c], w), Cols)

\* cbest_2, cbest_3 and cbest_4: elements with few ones, for a second row.
cbest == <<<<>>, <<1, 2, 3>>, <<1, 2, 5, 4, 7, 3, 6>>,
           <<1, 2, 9, 4, 8, 13, 3, 6, 12, 5, 11, 15, 10, 14, 7>>>>
BestRows == [r \in 0..1 |-> [c \in Cols |-> IF r = 0 THEN One ELSE Word(cbest[w][c+1], w)]]

\* cauchy_original_coding_matrix: 1 / (i ^ (m + j)).
Original ==
    [r \in 0..m-1 |-> [c \in Cols |->
        OneOver(Plus(Word(r, w), Word(m + c, w)))]]

UsesBest == tech = "cauchy_good" /\ m = 2 /\ k <= Len(cbest[w])

Cauchy ==
    /\ pc = "start" /\ tech # "reed_sol_van"
    /\ IF UsesBest THEN pc' = "done" /\ matrix' = BestRows
       ELSE IF 2^w < k + m THEN pc' = "null" /\ UNCHANGED matrix
       ELSE /\ matrix' = Original
            /\ pc' = IF tech = "cauchy_orig" THEN "done" ELSE "columns"
    /\ i' = 1 /\ j' = 0
    /\ UNCHANGED <<tech, shape, dist>>

\* cauchy_improve_coding_matrix: column j is divided by its first element.
DivideColumn ==
    /\ pc = "columns"
    /\ j < k
    /\ LET f == OneOver(matrix[0][j]) IN
       matrix' = [r \in 0..m-1 |-> [matrix[r] EXCEPT ![j] = Times(@, f)]]
    /\ j' = j + 1
    /\ UNCHANGED <<tech, shape, dist, i, pc>>

ColumnsDivided ==
    /\ pc = "columns"
    /\ j = k
    /\ pc' = "improve"
    /\ UNCHANGED <<tech, shape, dist, matrix, i, j>>

\* Row i is divided by that element of it that leaves the fewest ones, the
\* first of several, if these are fewer than it has.
Divided(row) ==
    LET by(c) == Scaled(row, OneOver(row[c]))
        fewest == Min({RowOnes(by(c)) : c \in Cols})
    IN  IF fewest < RowOnes(row)
        THEN by(Min({c \in Cols : RowOnes(by(c)) = fewest}))
        ELSE row
ImproveRow ==
    /\ pc = "improve"
    /\ i < m
    /\ matrix' = [matrix EXCEPT ![i] = Divided(@)]
    /\ i' = i + 1
    /\ UNCHANGED <<tech, shape, dist, j, pc>>

Improved ==
    /\ pc = "improve"
    /\ i = m
    /\ pc' = "done"
    /\ UNCHANGED <<tech, shape, dist, matrix, i, j>>

-----------------------------------------------------------------------------
Init ==
    /\ tech \in {"reed_sol_van", "cauchy_orig", "cauchy_good"}
    /\ shape \in Shapes
    /\ dist = NULL /\ matrix = NULL
    /\ i = 1 /\ j = 0
    /\ pc = "start"

Next ==
    \/ Vandermonde \/ PivotColumn \/ ClearColumn \/ NextColumn \/ IdentityMade
    \/ OnesRow \/ RowMade \/ OnesColumn \/ CodingRows
    \/ Cauchy \/ DivideColumn \/ ColumnsDivided \/ ImproveRow \/ Improved

Spec == Init /\ [][Next]_vars

-----------------------------------------------------------------------------
\* The coding rows, from where the top of dist is the identity.
Top == {"ones_row", "ones_column"}
Coding == IF pc \in Top THEN [r \in 0..m-1 |-> dist[k + r]] ELSE matrix

\* Determinants of the submatrices of Coding, expanded along the first row; in
\* a field with 1 + 1 = 0 the terms have no signs.
Parity(S, f) == {b \in 0..w-1 : Cardinality({c \in S : b \in f[c]}) % 2 = 1}
Minors ==
    LET a == Coding
        minor[R \in SUBSET (0..m-1)] ==
            [C \in SUBSET Cols |->
                IF R = {} THEN One
                ELSE LET r == Min(R) IN
                     Parity(C, [c \in C |-> Times(a[r][c], minor[R \ {r}][C \ {c}])])]
    IN  minor
Determinant(R, C) == Minors[R][C]

\* Any k of the k + m devices determine the data: the top of the distribution
\* matrix is the identity and every square submatrix of the coding rows is
\* regular, in the finished matrix and after every step of the rows and
\* columns being scaled to ones.
AnyKRowsRegular ==
    /\ pc \in Top => \A c \in Cols : dist[c] = Unit(c)
    /\ pc \in Top \/ matrix # NULL =>
          \A R \in SUBSET (0..m-1), C \in SUBSET Cols :
              Cardinality(R) = Cardinality(C) => Determinant(R, C) # Zero

\* The decoders are told row_k_ones = 1 and rebuild a device by plain XOR: the
\* first coding row of these matrices is all ones.  "Finally, we'd like the
\* first column of each row to be all ones" (reed_sol.c:338).
FirstRowOfOnes ==
    pc = "done" /\ tech # "cauchy_orig" =>
        /\ \A c \in Cols : matrix[0][c] = One
        /\ tech = "reed_sol_van" => \A r \in 0..m-1 : matrix[r][0] = One

\* What the decoders rely on, both when they invert and when they XOR.
FitForDecoders == AnyKRowsRegular /\ FirstRowOfOnes

\* jerasure_matrix_to_bitmatrix: column x of the square of an element is the
\* element times 2^x.
BitSquare(x) == [c \in 0..w-1 |-> Times(x, Word(2^c, w))]
TrueOnes(a) ==
    MapThenSumSet(LAMBDA e : MapThenSumSet(
        LAMBDA c : Cardinality(BitSquare(a[e[1]][e[2]])[c]), 0..w-1), (0..m-1) \X Cols)

\* Ones are XORs.  cauchy_n_ones counts those of the bitmatrix; a good matrix
\* has no more of them than the original one, no row of it can be divided by
\* one of its elements with gain, and a row that is looked up is the best.
FewOnes ==
    pc = "done" =>
        /\ \A r \in 0..m-1, c \in Cols :
              n_ones(matrix[r][c], w) =
                MapThenSumSet(LAMBDA b : Cardinality(BitSquare(matrix[r][c])[b]), 0..w-1)
        /\ tech = "cauchy_good" /\ k + m <= 2^w => TrueOnes(matrix) <= TrueOnes(Original)
        /\ tech = "cauchy_good" /\ ~UsesBest =>
              \A r \in 1..m-1, c \in Cols :
                  RowOnes(matrix[r]) <= RowOnes(Scaled(matrix[r], OneOver(matrix[r][c])))
        /\ UsesBest =>
              \A c \in Cols, x \in Field \ {Zero} :
                  x \in {matrix[1][e] : e \in Cols}
                    \/ n_ones(matrix[1][c], w) <= n_ones(x, w)

\* "This should never happen if rows/w are correct" (reed_sol.c:275): when
\* column i comes up, the rows above i are those of the identity and a pivot
\* is left below them, so that the construction never exits.  Only a field
\* with too few elements ends in NULL.
PivotLeft ==
    /\ pc = "pivot" => \A r \in 0..i-1 : dist[r] = Unit(r)
    /\ pc = "pivot" /\ i < k => PivotRows # {}
    /\ pc # "exit"
    /\ pc = "null" => 2^w < k + m
=============================================================================
