--------------------------- MODULE MCGaloisTables ---------------------------
(* Word sizes up to 6; the polynomials of all of them, and of 7 and 8. *)
EXTENDS GaloisRegions

SmallWidths == 1..6

ASSUME PolynomialsAreIrreducible == \A width \in 1..8 : HasInverses(width)
=============================================================================
