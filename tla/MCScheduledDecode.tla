------------------------- MODULE MCScheduledDecode -------------------------
(***************************************************************************)
(* One small code of every kind, one that allows three losses, and two    *)
(* that the encoder does not accept.                                       *)
(***************************************************************************)
EXTENDS BitmatrixDecode

Code(tech, dk, dm, dw) == [tech |-> tech, k |-> dk, m |-> dm, w |-> dw]
SmallCodes ==
    {Code("liberation", 3, 2, 3), Code("blaum_roth", 4, 2, 4),
     Code("liber8tion", 2, 2, 8), Code("cauchy_orig", 2, 2, 2),
     Code("cauchy_orig", 2, 3, 3),
     Code("liberation", 4, 2, 4), Code("blaum_roth", 3, 2, 5)}
=============================================================================
