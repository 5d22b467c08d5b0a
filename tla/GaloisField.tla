----------------------------- MODULE GaloisField -----------------------------
(***************************************************************************)
(* Arithmetic of galois.c in GF(2^w).  A word is the set of its bits that  *)
(* are 1, so ^ is the symmetric difference and << 1 adds 1 to every bit.   *)
(***************************************************************************)
EXTENDS Integers, FiniteSets

Elements(w) == SUBSET (0..w-1)
Zero == {}
One == {0}

\* prim_poly[w]: the bits of the octal constants, up to one byte.
prim_poly == << {0}, {0,1,2}, {0,1,3}, {0,1,4}, {0,2,5}, {0,1,6}, {0,3,7},
                {0,2,3,4,8} >>

Plus(x, y) == (x \ y) \cup (y \ x)

\* y << 1, reduced by the polynomial when bit w is set.
Double(y, w) ==
    LET shifted == {b + 1 : b \in y} IN
    IF w \in shifted THEN Plus(shifted, prim_poly[w]) \cap (0..w-1) ELSE shifted

\* galois_shift_multiply: scratch[i] is y * 2^i; those for the bits of x are
\* added up.
Scratch(y, w) ==
    LET scratch[i \in 0..w-1] == IF i = 0 THEN y ELSE Double(scratch[i-1], w)
    IN  scratch
ShiftMultiply(x, y, w) ==
    LET scratch == Scratch(y, w)
    IN  {b \in 0..w-1 : Cardinality({i \in x : b \in scratch[i]}) % 2 = 1}

\* galois_single_divide: see GaloisTables for the tables it looks it up in.
Quotient(x, y, w) == CHOOSE z \in Elements(w) : ShiftMultiply(z, y, w) = x

\* What elimination needs of the polynomial of w: it has to be irreducible.
HasInverses(w) ==
    \A x \in Elements(w) \ {Zero} :
        \E y \in Elements(w) : ShiftMultiply(y, x, w) = One

\* Reference: the product of two polynomials over GF(2), and its remainder.
PolynomialProduct(x, y, w) ==
    LET all == {d \in 0..2*w-2 :
                  Cardinality({p \in x \X y : p[1] + p[2] = d}) % 2 = 1}
        \* all, with the terms of degree d and more divided out
        rest[d \in w..2*w] ==
            IF d > 2*w - 2 THEN all
            ELSE IF d \in rest[d+1]
                 THEN Plus(rest[d+1], {b + d - w : b \in prim_poly[w] \cup {w}})
                 ELSE rest[d+1]
    IN  IF w = 1 THEN all ELSE rest[w]
=============================================================================
