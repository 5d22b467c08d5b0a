------------------------ MODULE MCSimpleRegenerating ------------------------
(***************************************************************************)
(* Codes of up to 4 nodes, from one stripe to three, without coding chunks *)
(* and with two of them; files from nothing to a bit more than a read-in,  *)
(* and buffers from less than half a unit to more than a chunk.            *)
(***************************************************************************)
EXTENDS SimpleRegenerating

Codes == {c \in [k : 1..3, n : 2..4, f : 1..3] : c.k <= c.n /\ c.n - c.k <= 2 /\ c.f < c.n}
SmallInputs == {[k |-> c.k, n |-> c.n, f |-> c.f, size |-> s, buffersize |-> b] :
                  c \in Codes, s \in {0, 1, 5, 12, 19}, b \in {1, 2, 3, 5, 8}}
=============================================================================
