-------------------------- MODULE MCSmartSchedule --------------------------
(***************************************************************************)
(* Every 4x5 bitmatrix, up to the order of its columns: the columns are    *)
(* sorted so that the first row is 1..10..0, and so are the two parts of   *)
(* the second row under its ones and under its zeros.  With three columns  *)
(* a row would only ever be derived from a row that it contains.           *)
(***************************************************************************)
EXTENDS SmartSchedule, TLC

FirstTwo == {<<0..a-1, (0..x-1) \cup (a..a+y-1)>> :
               <<a, x, y>> \in {t \in (0..C) \X (0..C) \X (0..C) :
                                  t[2] <= t[1] /\ t[3] <= C - t[1]}}
SortedBitmatrices ==
    {(0 :> p[1]) @@ (1 :> p[2]) @@ (2 :> s) @@ (3 :> t) :
        p \in FirstTwo, s \in SUBSET (0..C-1), t \in SUBSET (0..C-1)}
=============================================================================
