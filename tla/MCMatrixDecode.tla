--------------------------- MODULE MCMatrixDecode ---------------------------
(***************************************************************************)
(* Coding matrices with a first row of ones, as reed_sol.c makes them, or  *)
(* of 1, 2, 3, and any second row but zeros: from dependent rows to MDS.   *)
(***************************************************************************)
EXTENDS MatrixDecode, TLC

Ones == [c \in 0..k-1 |-> {0}]
OneTwoThree == (0 :> {0}) @@ (1 :> {1}) @@ (2 :> {0,1})
Rows == [0..k-1 -> Elements(wordsize)] \ {[c \in 0..k-1 |-> {}]}

SmallMatrices == {(0 :> r) @@ (1 :> s) : r \in {Ones, OneTwoThree}, s \in Rows}
=============================================================================
