---------------------------- MODULE MatrixInvert ----------------------------
(***************************************************************************)
(* jerasure_invert_matrix and, with w = 1, jerasure_invert_bitmatrix: a    *)
(* Gaussian elimination on mat, with every row operation applied to inv    *)
(* too.  One action is one pivot or one row that a pivot is added to.      *)
(***************************************************************************)
EXTENDS GaloisField

CONSTANTS k,        \* rows and columns
          wordsize, \* w of the field
          NULL      \* mat and inv outside a call

ASSUME FieldAssumption ==
    /\ k \in Nat \ {0}
    /\ wordsize \in 1..8
    /\ HasInverses(wordsize)

VARIABLES mat, inv, i, j, pc,
          orig      \* history: the matrix to invert, which mat destroys

ivars == <<mat, inv, i, j, pc, orig>>

Index == 0..k-1
Field == Elements(wordsize)
Square == [Index -> [Index -> Field]]
Identity == [r \in Index |-> [c \in Index |-> IF r = c THEN One ELSE Zero]]

\* Tables of products and quotients, as galois_single_multiply and
\* galois_single_divide look them up.
Products == [x \in Field |-> [y \in Field |-> ShiftMultiply(x, y, wordsize)]]
Inverses == [y \in Field \ {Zero} |-> Quotient(One, y, wordsize)]

Scaled(r, f) == [c \in Index |-> Products[r[c]][f]]
RowPlus(r, s) == [c \in Index |-> Plus(r[c], s[c])]
Swapped(a, r, s) == [a EXCEPT ![r] = a[s], ![s] = a[r]]

IInit ==
    /\ mat = NULL /\ inv = NULL /\ orig = NULL
    /\ i = 0 /\ j = 0
    /\ pc = "idle"

\* A call: inv starts as the identity.
Call(a) ==
    /\ pc \in {"idle", "done", "singular"}
    /\ mat' = a /\ orig' = a
    /\ inv' = Identity
    /\ i' = 0 /\ j' = 0
    /\ pc' = "pivot"

\* Rows from i on with an element in column i; i itself is preferred, then the
\* next one.
Pivots == {r \in i..k-1 : mat[r][i] # Zero}
FirstPivot == CHOOSE r \in Pivots : \A s \in Pivots : r <= s

\* The pivot row is swapped into place and divided by its element i,i.
Pivot ==
    /\ pc = "pivot"
    /\ i < k
    /\ Pivots # {}
    /\ LET swapped == Swapped(mat, i, FirstPivot)
           sinv == Swapped(inv, i, FirstPivot)
           f == Inverses[swapped[i][i]]
       IN  /\ mat' = [swapped EXCEPT ![i] = Scaled(@, f)]
           /\ inv' = [sinv EXCEPT ![i] = Scaled(@, f)]
    /\ j' = i + 1
    /\ pc' = "below"
    /\ UNCHANGED <<i, orig>>

\* No row can be swapped in: the matrix was not invertible.
Singular ==
    /\ pc = "pivot"
    /\ i < k
    /\ Pivots = {}
    /\ pc' = "singular"
    /\ UNCHANGED <<mat, inv, i, j, orig>>

\* Row j > i loses its element in column i.
Below ==
    /\ pc = "below"
    /\ j < k
    /\ LET f == mat[j][i] IN
          /\ mat' = [mat EXCEPT ![j] = RowPlus(@, Scaled(mat[i], f))]
          /\ inv' = [inv EXCEPT ![j] = RowPlus(@, Scaled(inv[i], f))]
    /\ j' = j + 1
    /\ UNCHANGED <<i, pc, orig>>

NextPivot ==
    /\ pc = "below"
    /\ j = k
    /\ i' = i + 1
    /\ pc' = "pivot"
    /\ UNCHANGED <<mat, inv, j, orig>>

\* The matrix is upper triangular; the way back starts at the last row.
GoBack ==
    /\ pc = "pivot"
    /\ i = k
    /\ i' = k - 1
    /\ j' = 0
    /\ pc' = "above"
    /\ UNCHANGED <<mat, inv, orig>>

\* Row j < i loses its element in column i; of mat nothing else is computed.
Mutant_Above ==
    /\ pc = "above"
    /\ j < i
    /\ LET f == mat[j][i] IN
          /\ mat' = [mat EXCEPT ![j][i] = Zero]
          /\ inv' = [inv EXCEPT ![j] = RowPlus(@, Scaled(inv[i], mat'[j][i]))]
    /\ j' = j + 1
    /\ UNCHANGED <<i, pc, orig>>
Above ==
    /\ pc = "above"
    /\ j < i
    /\ LET f == mat[j][i] IN
          /\ mat' = [mat EXCEPT ![j][i] = Zero]
          /\ inv' = [inv EXCEPT ![j] = RowPlus(@, Scaled(inv[i], f))]
    /\ j' = j + 1
    /\ UNCHANGED <<i, pc, orig>>

PreviousPivot ==
    /\ pc = "above"
    /\ j = i
    /\ IF i = 0 THEN pc' = "done" /\ i' = i ELSE pc' = pc /\ i' = i - 1
    /\ j' = 0
    /\ UNCHANGED <<mat, inv, orig>>

IStep == Pivot \/ Singular \/ Below \/ NextPivot \/ GoBack \/ Above \/ PreviousPivot

-----------------------------------------------------------------------------
\* Sum of a set of products, and the product of two matrices.
SumOver(S, f(_)) ==
    {bit \in 0..wordsize-1 : Cardinality({c \in S : bit \in f(c)}) % 2 = 1}
Dot(v, u) == SumOver(Index, LAMBDA c : Products[v[c]][u[c]])
RowTimes(v, a) == [c \in Index |-> Dot(v, [r \in Index |-> a[r][c]])]
MatrixTimes(a, b) == [r \in Index |-> RowTimes(a[r], b)]

\* Some data other than zero is mapped to zero, so two different data are mapped
\* to the same: the matrix has no inverse.
Dependent(a) ==
    \E u \in [Index -> Field] :
        /\ \E c \in Index : u[c] # Zero
        /\ \A r \in Index : Dot(a[r], u) = Zero

\* Whatever rows are swapped, scaled and added, inv times the original matrix
\* is mat, also on the way back, where mat is only cleared entry by entry.
RowOperations == pc # "idle" => MatrixTimes(inv, orig) = mat

\* 0 is returned with the inverse, -1 exactly for a singular matrix.
InvertsOrReports ==
    /\ RowOperations
    /\ pc = "done" => MatrixTimes(inv, orig) = Identity /\ ~Dependent(orig)
    /\ pc = "singular" => Dependent(orig)
=============================================================================
