---------------------------- MODULE IncrDecoder ----------------------------
(***************************************************************************)
(* The decoder of the incremental store, jerasure/van_decoder_incr.c.  It  *)
(* takes disks 1 and 2 to be lost, every other data disk to be all zero,   *)
(* reads two blocks of every parity file it can open, solves for the two   *)
(* disks and appends the result to 1_decoded and 2_decoded.                *)
(***************************************************************************)
EXTENDS Integers, Sequences, FiniteSets

CONSTANTS
    K,              \* number of data disks (argument k of the encoder)
    M,              \* number of parity files
    Junk            \* what fresh memory holds

VARIABLES
    mfile,          \* the parity files, shared with the encoder
    dpc,            \* what the decoder does next
    dn, drow,       \* its loop counters n and i
    got,            \* its coding[]: the parity blocks read in this iteration
    lost,           \* parity files it could not open in this iteration
    solved,         \* data[0], data[1] after decoding
    decoded         \* the files 1_decoded and 2_decoded

dvars == <<dpc, dn, drow, got, lost, solved, decoded>>

Rows == 1..M
ReadInsDecoded == 2
LostDisks == {1, 2}

\* int matrix[3][10], passed on as a flat array whose rows have k entries.
FlatMatrix == <<1, 1, 1, 1, 1, 1, 1, 1, 1, 1,
                1, 147, 138, 73, 93, 161, 103, 58, 99, 178,
                1, 220, 166, 123, 82, 143, 245, 40, 167, 122>>
Coefficient(i, d) == FlatMatrix[(i - 1) * K + d]

-----------------------------------------------------------------------------
Init ==
    /\ dpc = "idle"
    /\ dn = 1 /\ drow = 1
    /\ got = [i \in Rows |-> {}]
    /\ lost = {}
    /\ solved = [d \in LostDisks |-> {}]
    /\ decoded = [d \in LostDisks |-> <<>>]

DStart ==
    /\ dpc = "idle"
    /\ dpc' = "read" /\ dn' = 1 /\ drow' = 1 /\ lost' = {}
    /\ UNCHANGED <<got, solved, decoded>>

Mutant_OpenAnyway(i) == TRUE
\* The file can be opened; a short read goes unnoticed.
Opens(i) == mfile[i] # <<>>
BlockRead(i) == IF dn <= Len(mfile[i]) THEN mfile[i][dn] ELSE {Junk}

DRead ==
    /\ dpc = "read"
    /\ IF Opens(drow)
          THEN got' = [got EXCEPT ![drow] = BlockRead(drow)] /\ lost' = lost
          ELSE lost' = lost \cup {drow} /\ got' = got
    /\ IF drow < M THEN drow' = drow + 1 /\ dpc' = "read"
                   ELSE drow' = 1 /\ dpc' = "decode"
    /\ UNCHANGED <<dn, solved, decoded>>

\* jerasure_make_decoding_matrix takes the first k intact devices: here the
\* disks 3..k and the first two parity rows that could be read.
FirstIntact == {i \in Rows \ lost : Cardinality({j \in Rows \ lost : j < i}) < 2}

\* The 2x2 system of rows p and q is regular.  For every k in 2..10 one row of
\* each pair is (1, 1), or both begin with 1: it is regular iff they differ.
Regular(p, q) ==
    <<Coefficient(p, 1), Coefficient(p, 2)>> #
    <<Coefficient(q, 1), Coefficient(q, 2)>>

Decodable ==
    /\ Cardinality(FirstIntact) = 2
    /\ \A p, q \in FirstIntact : p # q => Regular(p, q)

\* Solving for two disks with the others taken as zero: a term both rows agree
\* on and that belongs to disk 1 or 2 is found; any other term ends up, with
\* some factor, in both results, and is shown as Junk.
Common == {t \in got[CHOOSE p \in FirstIntact : TRUE] :
             \A q \in FirstIntact : t \in got[q]}
Foreign == (UNION {got[p] : p \in FirstIntact})
             \ {t \in Common : t[1] \in LostDisks}
Solution(d) == {t \in Common : t[1] = d} \cup
               (IF Foreign = {} THEN {} ELSE {Junk})

DDecode ==
    /\ dpc = "decode" /\ Decodable
    /\ solved' = [d \in LostDisks |-> Solution(d)]
    /\ dpc' = "write1"
    /\ UNCHANGED <<dn, drow, got, lost, decoded>>

\* "Unsuccessful!": the program exits.
DUnsuccessful ==
    /\ dpc = "decode" /\ ~Decodable
    /\ dpc' = "idle"
    /\ UNCHANGED <<dn, drow, got, lost, solved, decoded>>

\* The files are opened for append, whatever is in them.
DWrite(d) ==
    /\ dpc = IF d = 1 THEN "write1" ELSE "write2"
    /\ decoded' = [decoded EXCEPT ![d] = Append(@, solved[d])]
    /\ IF d = 1
          THEN dpc' = "write2" /\ UNCHANGED <<dn, lost>>
          ELSE /\ dn' = dn + 1 /\ lost' = {}
               /\ dpc' = IF dn < ReadInsDecoded THEN "read" ELSE "idle"
    /\ UNCHANGED <<drow, got, solved>>

DStep == DRead \/ DDecode \/ DUnsuccessful \/ \E d \in LostDisks : DWrite(d)
=============================================================================
