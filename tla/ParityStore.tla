---------------------------- MODULE ParityStore ----------------------------
(***************************************************************************)
(* What an incrementally encoded parity store promises.  Parity row i      *)
(* protects, in each of its blocks, a set of disks.  One disk joins at a   *)
(* time; each row takes it in with all its blocks at once; the disk has    *)
(* joined when every row protects it, and a disk that cannot join leaves   *)
(* no trace.  No row ever forgets a disk.                                  *)
(***************************************************************************)
EXTENDS Integers

CONSTANTS Disks, Rows, Blocks

VARIABLES
    parity,     \* parity[i][b]: the disks protected by block b of row i
    joining     \* the disk that is being added, 0 when none is

vars == <<parity, joining>>

Protects(i, d) == \A b \in Blocks : d \in parity[i][b]
Untouched(i, d) == \A b \in Blocks : d \notin parity[i][b]

Init ==
    /\ parity = [i \in Rows |-> [b \in Blocks |-> {}]]
    /\ joining = 0

Begin(d) ==
    /\ joining = 0
    /\ \A i \in Rows : Untouched(i, d)
    /\ joining' = d
    /\ UNCHANGED parity

Switch(i) ==
    /\ joining # 0
    /\ Untouched(i, joining)
    /\ parity' = [parity EXCEPT ![i] =
                     [b \in Blocks |-> parity[i][b] \cup {joining}]]
    /\ UNCHANGED joining

Joined ==
    /\ joining # 0
    /\ \A i \in Rows : Protects(i, joining)
    /\ joining' = 0
    /\ UNCHANGED parity

Refused ==
    /\ joining # 0
    /\ \A i \in Rows : Untouched(i, joining)
    /\ joining' = 0
    /\ UNCHANGED parity

Next ==
    \/ \E d \in Disks : Begin(d)
    \/ \E i \in Rows : Switch(i)
    \/ Joined
    \/ Refused

Spec == Init /\ [][Next]_vars
=============================================================================
