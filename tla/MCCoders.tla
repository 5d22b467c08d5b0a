------------------------------ MODULE MCCoders ------------------------------
EXTENDS Coders, TLC

MCSymmetry == Permutations(Names)
MCSize == [v \in Versions |-> IF v = "a" THEN 3 ELSE 5]

Args(k, m, w, packetsize, buffersize, tech) ==
    [k |-> k, m |-> m, w |-> w, packetsize |-> packetsize,
     buffersize |-> buffersize, tech |-> tech]

\* one and several read-ins, padding, k = 1, m = 2, packets, no coding
MCCalls == {<<"b", Args(2, 1, 1, 0, 0, "reed_sol_van")>>,
            <<"a", Args(2, 1, 1, 0, 2, "reed_sol_van")>>,
            <<"b", Args(2, 2, 1, 0, 3, "reed_sol_r6_op")>>,
            <<"a", Args(1, 2, 1, 2, 1, "cauchy_good")>>,
            <<"a", Args(2, 1, 1, 0, 2, "no_coding")>>}

\* the codes for k = m = 2 over GF(4): 1/(i xor (m+j)), the best X values of
\* cauchy_best_r6.c, and the first columns of encoder.c's own (Vandermonde) matrix
One == <<"copied", 1>>
Packets(c) == <<"packets", c>>
MCCoefficient(code, i, d) ==
    CASE code = "cauchy_orig" -> IF i = d THEN Packets(3) ELSE Packets(2)
      [] code = "cauchy_good" /\ i = 2 /\ d = 2 -> Packets(2)
      [] code = OwnMatrix /\ i = 2 /\ d = 2 -> <<"words", 147>>
      [] OTHER -> One

\* four runs of "incr" reach the rename: disks 1, 1, 2, 2
MCMaxCalls == [p \in Programs |-> IF p = "incr" THEN 4 ELSE 3]
=============================================================================
