---------------------------- MODULE GaloisRegions ----------------------------
(***************************************************************************)
(* What galois.c and reed_sol.c build on the tables of GaloisTables: the   *)
(* split tables of GF(2^32), inverses by elimination, products of regions, *)
(* and the RAID-6 encoder that doubles several words at a time.            *)
(*                                                                         *)
(* A byte has w bits here and a word of the split tables four bytes, as in *)
(* the code, where w = 8; galois_region_multiply for w = 16 uses words of  *)
(* w bits, and the RAID-6 encoder packs Lanes of them.                     *)
(***************************************************************************)
EXTENDS GaloisTables, SequencesExt

CONSTANT FREED          \* a pointer to memory that was freed

VARIABLES
    split,      \* galois_split_w8[0..6]: NULL, FREED or a table
    spc         \* where galois_single_multiply for w = 32 has got to

gvars == <<vars, split, spc>>

Tables == 0..6
wide == 4 * w
Bytes == Elements(w)
Lanes == 2

GInit == Init /\ split = [t \in Tables |-> NULL] /\ spc = "idle"

\* The tables of GaloisTables are made for themselves, or for the split ones.
MakeTables ==
    /\ \/ spc = "idle" /\ Next
       \/ spc = "mult" /\ pc # "idle" /\ Next
    /\ UNCHANGED <<split, spc>>

\* The first product finds no split table and begins to make them.
NeedSplit ==
    /\ pc = "idle" /\ spc = "idle"
    /\ wide \in DOMAIN prim_poly
    /\ split[0] = NULL
    /\ spc' = "mult"
    /\ IF mult = NULL THEN CreateMult ELSE UNCHANGED vars
    /\ UNCHANGED split

Mutant_Exits == "idle"
\* "cannot make": the caller exits.
Exits == "exit"
MultFailed ==
    /\ spc = "mult" /\ pc = "idle" /\ mult = NULL
    /\ spc' = Exits
    /\ UNCHANGED <<vars, split>>

\* When table f cannot be allocated those before it are freed, but their
\* pointers stay set; with f = 7 all are there.
AllocateSplit ==
    /\ spc = "mult" /\ pc = "idle" /\ mult # NULL
    /\ \E f \in 0..7 :
          IF f < 7
          THEN /\ split' = [t \in Tables |-> IF t < f THEN FREED ELSE NULL]
               /\ spc' = Exits
          ELSE /\ split' = [t \in Tables |-> [p \in Bytes \X Bytes |-> Zero]]
               /\ spc' = "fill"
    /\ UNCHANGED vars

\* The pairs (i, j) that a table is filled for, one for every i + j.
Pairs == {<<0, 0>>, <<0, 1>>, <<0, 2>>, <<0, 3>>, <<3, 1>>, <<3, 2>>, <<3, 3>>}
ByteAt(x, i) == {b0 + i * w : b0 \in x}         \* x << 8i

FillSplit ==
    /\ spc = "fill"
    /\ split' = [t \in Tables |->
          IF \E q \in Pairs : q[1] + q[2] = t
          THEN LET q == CHOOSE q \in Pairs : q[1] + q[2] = t
               IN  [p \in Bytes \X Bytes |->
                      ShiftMultiply(ByteAt(p[1], q[1]), ByteAt(p[2], q[2]), wide)]
          ELSE split[t]]
    /\ spc' = "idle"
    /\ UNCHANGED vars

GNext == MakeTables \/ NeedSplit \/ MultFailed \/ AllocateSplit \/ FillSplit

GSpec == GInit /\ [][GNext]_gvars

-----------------------------------------------------------------------------
Sum(words) == FoldLeft(Plus, Zero, words)
ByteOf(x, i) == {b0 \in 0..w-1 : b0 + i * w \in x}

\* galois_split_w8_multiply, and each word of galois_w32_region_multiply: the
\* products of all bytes of the one with all bytes of the other.
SplitMultiply(x, y) ==
    Sum([n \in 1..16 |->
            LET i == (n - 1) \div 4
                l == (n - 1) % 4
            IN  split[i + l][<<ByteOf(x, i), ByteOf(y, l)>>]])

\* galois_w16_region_multiply into another region, over it or added to it.
RegionMultiply(region, multby, r2, add) ==
    LET product == [n \in DOMAIN region |->
            IF multby = Zero \/ region[n] = Zero THEN Zero
            ELSE Ilog(log[region[n]] + log[multby])]
    IN  [n \in DOMAIN region |-> IF add THEN Plus(r2[n], product[n]) ELSE product[n]]

\* galois_invert_binary_matrix: rows are swapped and added below the diagonal;
\* on the way back only the inverse is changed.
Swapped(rows, c, p) == [rows EXCEPT ![c] = rows[p], ![p] = rows[c]]
AddedTo(rows, c, to) == [r \in DOMAIN rows |-> IF r \in to THEN Plus(rows[r], rows[c])
                                               ELSE rows[r]]
Column(st, c) ==
    LET p == CHOOSE r \in DOMAIN st.mat :
                /\ r >= c /\ c \in st.mat[r]
                /\ \A s \in c..r-1 : c \notin st.mat[s]
        mat == Swapped(st.mat, c, p)
        below == {r \in DOMAIN mat : r > c /\ c \in mat[r]}
    IN  [mat |-> AddedTo(mat, c, below), inv |-> AddedTo(Swapped(st.inv, c, p), c, below)]
WayBack(st, c) ==
    [st EXCEPT !.inv = AddedTo(@, c, {r \in DOMAIN st.mat : r < c /\ c \in st.mat[r]})]
InvertBinary(mat, u) ==
    LET columns == [n \in 1..u |-> n - 1]
        down == FoldLeft(Column, [mat |-> mat, inv |-> [r \in 0..u-1 |-> {r}]], columns)
    IN  FoldLeft(WayBack, down, Reverse(columns)).inv

\* Row i of the matrix is y * 2^i.
ShiftInverse(y, u) ==
    InvertBinary([i \in 0..u-1 |-> ShiftMultiply({i}, y, u)], u)[0]

-----------------------------------------------------------------------------
\* The same w bits in every lane of a packed word.
Repeated(x) == UNION {{b0 + l * w : b0 \in x} : l \in 0..Lanes-1}
Packed == Elements(Lanes * w)
Number(x) == SumSet({2^b0 : b0 \in x})
BitsOf(number) == {b0 \in 0..Lanes*w-1 : (number \div 2^b0) % 2 = 1}

\* reed_sol_galois_w08_region_multby_2 on one packed word.  tmp2 has the top
\* bits; twice tmp2 less tmp2 moved down is a lane of ones for each of them.
\* The arithmetic is modulo the size of the packed word.
multby_2(x) ==
    LET prim == Repeated(Double({w-1}, w))
        tmp == {b0 + 1 : b0 \in x} \cap Repeated(1..w-1)
        tmp2 == Number(x \cap Repeated({w-1}))
        lanes == BitsOf((2 * tmp2 - tmp2 \div 2^(w-1)) % 2^(Lanes*w))
    IN  Plus(tmp, lanes \cap prim)

\* reed_sol_r6_encode: the second region is doubled between two devices, from
\* the last device to the first.
R6Encode(data) ==
    <<Sum(data),
      FoldLeft(LAMBDA region, d : Plus(multby_2(region), d), Zero, Reverse(data))>>
\* The second row of reed_sol_r6_coding_matrix, from the multiplication table.
R6Row(n) == LET power[i \in 1..n] == IF i = 1 THEN One ELSE mult[power[i-1]][{1}] IN power

-----------------------------------------------------------------------------
\* A caller that finds the first split table finds all seven, and none that was
\* freed: a product put together from 16 lookups is the product in the wide
\* field.  Whoever fails to make them exits; that is all that keeps the freed
\* ones from being used.
SplitMultiplies ==
    spc = "idle" /\ split[0] # NULL =>
        /\ \A t \in Tables : split[t] \notin {NULL, FREED}
        /\ \A x \in Elements(wide), y \in {{b0} : b0 \in 0..wide-1} \cup {0..wide-1} :
              SplitMultiply(x, y) = PolynomialProduct(x, y, wide)

\* "Put the sum of (2^j)*Dj into coding region 1" (reed_sol.c:199): the packed
\* doubling works lane by lane, carries nothing from one to the next, and the
\* two regions are those that the RAID-6 matrix stands for.
R6IsMatrixProduct ==
    pc = "idle" /\ mult # NULL /\ w \in 2..4 =>
        /\ \A x \in Packed, l \in 0..Lanes-1 :
              ByteOf(multby_2(x), l) = Double(ByteOf(x, l), w)
        /\ \A data \in [1..3 -> {Zero, {0}, Repeated({w-1}), 0..Lanes*w-1}] :
              \A l \in 0..Lanes-1 :
                 ByteOf(R6Encode(data)[2], l) =
                    Sum([n \in 1..3 |-> mult[R6Row(3)[n]][ByteOf(data[n], l)]])

\* Regions are multiplied word by word, over or onto what is there, and the
\* inverses of words too wide for a table, made by elimination without a look
\* at the result, are inverses.
RegionsMultiply ==
    pc = "idle" /\ log # NULL =>
        \A x, c \in Words :
            /\ RegionMultiply(<<x>>, c, <<One>>, FALSE) = <<PolynomialProduct(x, c, w)>>
            /\ RegionMultiply(<<x>>, c, <<One>>, TRUE) = <<Plus(One, PolynomialProduct(x, c, w))>>
            /\ x # Zero => PolynomialProduct(ShiftInverse(x, w), x, w) = One

\* The two table properties of GaloisTables, for a run that has both.
TablesAreFull == LogsMultiply /\ TablesMultiply
WideWords == SplitMultiplies /\ R6IsMatrixProduct /\ RegionsMultiply
=============================================================================
