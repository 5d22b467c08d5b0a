--------------------------- MODULE MCCodingMatrix ---------------------------
(***************************************************************************)
(* Every k up to 6 and m up to 4 that the field has room for, and the     *)
(* next ones, for which it has none.                                       *)
(***************************************************************************)
EXTENDS CodingMatrix

SmallShapes == {s \in [k : 1..6, m : 1..4, w : 1..4] : s.k + s.m <= 2^s.w + 1}
=============================================================================
