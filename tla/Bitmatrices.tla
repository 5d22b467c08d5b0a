----------------------------- MODULE Bitmatrices -----------------------------
(***************************************************************************)
(* The coding bitmatrices of liberation.c and of jerasure.c.  A row is the *)
(* set of its columns that are 1; column c is packet c % w of data device  *)
(* c \div w, row r packet r % w of coding device r \div w.                 *)
(***************************************************************************)
EXTENDS GaloisField

Xor(a, b) == (a \ b) \cup (b \ a)

\* The first w rows of a RAID-6 bitmatrix: an identity matrix per data device.
Identities(k, w, l) == {j * w + l : j \in 0..k-1}

\* The other rows: a permutation matrix per device, and one more 1 for all but
\* device 0.
ShiftedBy(j, l, w) == (j + l) % w
ExtraRow(j, w) == (j * ((w - 1) \div 2)) % w

Liberation(k, w) ==
    [r \in 0..2*w-1 |->
        IF r < w THEN Identities(k, w, r)
        ELSE LET l == r - w IN
             {j * w + ShiftedBy(j, l, w) : j \in 0..k-1} \cup
             {j * w + ((l + j - 1) % w) : j \in {x \in 1..k-1 : ExtraRow(x, w) = l}}]

\* Row l, from 1, of the block of device j > 0: multiplication by x^j modulo
\* 1 + x + ... + x^w, for p = w + 1.
BlaumRothColumns(j, l, w) ==
    LET p == w + 1 IN
    IF l # p - j
    THEN {(IF l + j >= p THEN l + j - p ELSE l + j) - 1}
    ELSE {j - 1, (IF j % 2 = 0 THEN j \div 2 ELSE p \div 2 + 1 + j \div 2) - 1}

BlaumRoth(k, w) ==
    [r \in 0..2*w-1 |->
        IF r < w THEN Identities(k, w, r)
        ELSE {r - w} \cup UNION {{j * w + c : c \in BlaumRothColumns(j, r - w + 1, w)}
                                   : j \in 1..k-1}]

\* The rows were found by a search: the column of each row, and the one more.
liber8tion_columns ==
    << <<0, 1, 2, 3, 4, 5, 6, 7>>, <<7, 3, 0, 2, 6, 1, 5, 4>>,
       <<6, 2, 4, 0, 7, 3, 1, 5>>, <<2, 5, 7, 6, 0, 3, 4, 1>>,
       <<5, 6, 1, 7, 2, 4, 3, 0>>, <<1, 2, 3, 4, 5, 6, 7, 0>>,
       <<3, 0, 6, 5, 1, 7, 4, 2>>, <<4, 7, 1, 5, 3, 2, 0, 6>> >>
liber8tion_more == << <<>>, <<4, 7>>, <<1, 3>>, <<5, 4>>, <<2, 0>>, <<7, 2>>,
                      <<6, 5>>, <<3, 1>> >>

Liber8tion(k) ==
    [r \in 0..15 |->
        IF r < 8 THEN Identities(k, 8, r)
        ELSE {j * 8 + liber8tion_columns[j+1][r - 7] : j \in 0..k-1} \cup
             {j * 8 + liber8tion_more[j+1][2] :
                j \in {x \in 1..k-1 : liber8tion_more[x+1][1] = r - 8}}]

\* jerasure_matrix_to_bitmatrix: column x of a block holds the bits of the
\* element times 2^x.
matrix_to_bitmatrix(k, m, w, matrix) ==
    LET times[x \in 0..w-1] == IF x = 0 THEN [i \in 0..m-1 |-> matrix[i]]
            ELSE [i \in 0..m-1 |-> [j \in 0..k-1 |-> Double(times[x-1][i][j], w)]]
    IN  [r \in 0..m*w-1 |->
            {c \in 0..k*w-1 : r % w \in times[c % w][r \div w][c \div w]}]

\* cauchy_original_coding_matrix: 1 / (i ^ (m + j)).
Word(x, w) == {b \in 0..w-1 : (x \div 2^b) % 2 = 1}
cauchy_original(k, m, w) ==
    [i \in 0..m-1 |-> [j \in 0..k-1 |->
        Quotient(One, Plus(Word(i, w), Word(m + j, w)), w)]]

\* The encoder's is_prime, and the checks it makes before it asks for one of
\* these bitmatrices.
IsPrime(x) == \A d \in 2..x-1 : x % d # 0
Mutant_Accepts(c) ==
    CASE c.tech = "liberation" ->
            c.k <= c.w /\ c.w > 2 /\ c.w % 2 = 1 /\ IsPrime(c.w)
      [] c.tech = "blaum_roth" ->
            c.k <= c.w /\ c.w > 2 /\ c.w % 2 = 1 /\ IsPrime(c.w)
      [] c.tech = "liber8tion" -> c.w = 8 /\ c.m = 2 /\ c.k <= c.w
      [] c.tech = "cauchy_orig" -> TRUE
Accepts(c) ==
    CASE c.tech = "liberation" ->
            c.k <= c.w /\ c.w > 2 /\ c.w % 2 = 1 /\ IsPrime(c.w)
      [] c.tech = "blaum_roth" ->
            c.k <= c.w /\ c.w > 2 /\ (c.w + 1) % 2 = 1 /\ IsPrime(c.w + 1)
      [] c.tech = "liber8tion" -> c.w = 8 /\ c.m = 2 /\ c.k <= c.w
      [] c.tech = "cauchy_orig" -> TRUE

Bitmatrix(c) ==
    CASE c.tech = "liberation" -> Liberation(c.k, c.w)
      [] c.tech = "blaum_roth" -> BlaumRoth(c.k, c.w)
      [] c.tech = "liber8tion" -> Liber8tion(c.k)
      [] c.tech = "cauchy_orig" ->
            matrix_to_bitmatrix(c.k, c.m, c.w, cauchy_original(c.k, c.m, c.w))
=============================================================================
