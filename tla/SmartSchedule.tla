---------------------------- MODULE SmartSchedule ----------------------------
(***************************************************************************)
(* jerasure_smart_bitmatrix_to_schedule: turns a coding bitmatrix into a   *)
(* list of packet copies and XORs.  Rows are taken greedily; a row is      *)
(* either built from the data packets or derived from a row that is done.  *)
(* The rows still to do are a doubly linked list in flink/blink.           *)
(*                                                                         *)
(* A row of the bitmatrix is the set of its columns that are 1.  Row r is  *)
(* packet r % w of coding device r / w, column c packet c % w of data      *)
(* device c / w; both conversions are one to one and are left out.         *)
(***************************************************************************)
EXTENDS Integers, Sequences, FiniteSets

CONSTANTS R,            \* rows of the bitmatrix, m*w
          C,            \* its columns, k*w
          Bitmatrices   \* the bitmatrices to schedule

Rows == 0..R-1
Cols == 0..C-1

ASSUME ScheduleAssumption ==
    /\ R \in Nat \ {0} /\ C \in Nat \ {0}
    /\ Bitmatrices \subseteq [Rows -> SUBSET Cols]

VARIABLES
    bitmatrix,
    diff,           \* operations it takes to do a row
    from,           \* the row it is derived from, -1 for none
    flink, blink, top,      \* the list of rows to do
    row, bestrow, bestdiff, i,
    operations,     \* the schedule so far
    pc,
    order           \* history: the rows done so far, in their order

lists == <<flink, blink, top>>
vars == <<bitmatrix, diff, from, lists, row, bestrow, bestdiff, i,
          operations, pc, order>>

Xor(a, b) == (a \ b) \cup (b \ a)

\* An operation copies (xor = 0) or adds (xor = 1) a packet to a coding packet.
FromData(c, r, x) == [src |-> <<"data", c>>, dst |-> r, xor |-> x]
FromCoding(s, r) == [src |-> <<"coding", s>>, dst |-> r, xor |-> 0]

Ascending(S) ==
    [p \in 1..Cardinality(S) |->
        CHOOSE c \in S : Cardinality({e \in S : e < c}) = p - 1]

\* Build a row: copy its first data packet, add the others.
BuildOps(r) ==
    LET cs == Ascending(bitmatrix[r]) IN
    [p \in 1..Len(cs) |-> FromData(cs[p], r, IF p = 1 THEN 0 ELSE 1)]

\* Derive a row: copy the row it comes from, add where the two differ.
Mutant_DeriveByUnion(r, s) ==
    LET cs == Ascending(bitmatrix[r] \ bitmatrix[s]) IN
    <<FromCoding(s, r)>> \o [p \in 1..Len(cs) |-> FromData(cs[p], r, 1)]
DeriveOps(r, s) ==
    LET cs == Ascending(Xor(bitmatrix[r], bitmatrix[s])) IN
    <<FromCoding(s, r)>> \o [p \in 1..Len(cs) |-> FromData(cs[p], r, 1)]

\* The first row with the fewest ones.
FirstBest(m, r) ==
    /\ \A s \in Rows : Cardinality(m[r]) <= Cardinality(m[s])
    /\ \A s \in 0..r-1 : Cardinality(m[r]) < Cardinality(m[s])

\* Every row is followed by the next one; the last one ends the list.
FullList == [r \in Rows |-> IF r = R - 1 THEN -1 ELSE r + 1]

-----------------------------------------------------------------------------
Init ==
    /\ bitmatrix \in Bitmatrices
    /\ diff = [r \in Rows |-> Cardinality(bitmatrix[r])]
    /\ from = [r \in Rows |-> -1]
    /\ flink = FullList
    /\ blink = [r \in Rows |-> r - 1]
    /\ top = 0
    /\ bestrow \in Rows /\ FirstBest(bitmatrix, bestrow)
    /\ bestdiff = Cardinality(bitmatrix[bestrow])
    /\ row = 0 /\ i = -1
    /\ operations = <<>>
    /\ pc = "take"
    /\ order = <<>>

\* Take row r off the list of rows to do.
Mutant_UnlinkForwardOnly(r) ==
    IF blink[r] = -1
    THEN /\ top' = flink[r]
         /\ blink' = IF flink[r] = -1 THEN blink
                                      ELSE [blink EXCEPT ![flink[r]] = -1]
         /\ flink' = flink
    ELSE /\ top' = top
         /\ flink' = [flink EXCEPT ![blink[r]] = flink[r]]
         /\ blink' = blink
UnlinkRow(r) ==
    IF blink[r] = -1
    THEN /\ top' = flink[r]
         /\ blink' = IF flink[r] = -1 THEN blink
                                      ELSE [blink EXCEPT ![flink[r]] = -1]
         /\ flink' = flink
    ELSE /\ top' = top
         /\ flink' = [flink EXCEPT ![blink[r]] = flink[r]]
         /\ blink' = IF flink[r] = -1 THEN blink
                                      ELSE [blink EXCEPT ![flink[r]] = blink[r]]

\* The search for the next row starts afresh.
Mutant_KeepBest == bestdiff' = bestdiff
ForgetBest == bestdiff' = C + 1

\* The best row is unlinked and its operations are emitted.
Take ==
    /\ pc = "take"
    /\ top # -1
    /\ row' = bestrow
    /\ UnlinkRow(bestrow)
    /\ operations' = operations \o
          (IF from[bestrow] = -1 THEN BuildOps(bestrow)
                                 ELSE DeriveOps(bestrow, from[bestrow]))
    /\ order' = Append(order, bestrow)
    /\ ForgetBest
    /\ i' = top'
    /\ pc' = "scan"
    /\ UNCHANGED <<bitmatrix, diff, from, bestrow>>

\* What deriving row r from row s would take: the copy and one XOR per column.
Mutant_ForgetCopy(r, s) == Cardinality(Xor(bitmatrix[r], bitmatrix[s]))
DeriveCost(r, s) == 1 + Cardinality(Xor(bitmatrix[r], bitmatrix[s]))

\* The row that row r would be derived from: the one just done.
Source == row

\* The walk along the rows to do goes on whether the cost of the row changed or not.
Mutant_NextIfChanged(no) == IF no < diff[i] THEN flink[i] ELSE i
After(no) == flink[i]

\* One step of the walk along the rows to do.
Scan ==
    /\ pc = "scan"
    /\ i # -1
    /\ LET no == DeriveCost(i, row)
           new == IF no < diff[i] THEN no ELSE diff[i]
       IN  /\ from' = IF no < diff[i] THEN [from EXCEPT ![i] = Source] ELSE from
           /\ diff' = [diff EXCEPT ![i] = new]
           /\ IF new < bestdiff
                 THEN bestdiff' = new /\ bestrow' = i
                 ELSE UNCHANGED <<bestdiff, bestrow>>
           /\ i' = After(no)
    /\ UNCHANGED <<bitmatrix, lists, row, operations, pc, order>>

ScanEnds ==
    /\ pc = "scan"
    /\ i = -1
    /\ pc' = "take"
    /\ UNCHANGED <<bitmatrix, diff, from, lists, row, bestrow, bestdiff, i,
                   operations, order>>

Return ==
    /\ pc = "take"
    /\ top = -1
    /\ pc' = "done"
    /\ UNCHANGED <<bitmatrix, diff, from, lists, row, bestrow, bestdiff, i,
                   operations, order>>

Next == Take \/ Scan \/ ScanEnds \/ Return

Spec == Init /\ [][Next]_vars /\ WF_vars(Next)

-----------------------------------------------------------------------------
Done == {order[p] : p \in 1..Len(order)}
Todo == Rows \ Done

TypeOK ==
    /\ bitmatrix \in [Rows -> SUBSET Cols]
    /\ diff \in [Rows -> Nat]
    /\ from \in [Rows -> Rows \cup {-1}]
    /\ flink \in [Rows -> Rows \cup {-1}] /\ blink \in [Rows -> Rows \cup {-1}]
    /\ top \in Rows \cup {-1} /\ i \in Rows \cup {-1}
    /\ row \in Rows /\ bestrow \in Rows /\ bestdiff \in Nat
    /\ pc \in {"take", "scan", "done"}
    /\ order \in Seq(Rows)

\* x is the first, or the last, of the rows in S, and -1 if there is none.
IsFirst(x, S) == IF S = {} THEN x = -1 ELSE x \in S /\ \A s \in S : x <= s
IsLast(x, S) == IF S = {} THEN x = -1 ELSE x \in S /\ \A s \in S : s <= x

\* Unlinking keeps a well-formed list: from top, flink visits exactly the rows
\* that are not done, in ascending order, and blink is its converse.
ListIsTodo ==
    /\ IsFirst(top, Todo)
    /\ \A r \in Todo : /\ IsFirst(flink[r], {s \in Todo : s > r})
                       /\ IsLast(blink[r], {s \in Todo : s < r})

\* Every row is emitted once, and the row taken is a cheapest one.
GreedyChoice ==
    /\ \A p, q \in 1..Len(order) : order[p] = order[q] => p = q
    /\ pc = "take" /\ top # -1 =>
          /\ bestrow \in Todo
          /\ \A r \in Todo : diff[bestrow] <= diff[r]

\* The array has room for k*m*w*w operations and the end mark; deriving rows
\* never makes the schedule longer than building each of them.
FitsOperations ==
    /\ Len(operations) <= R * C
    /\ \A r \in Done :
          Cardinality({p \in 1..Len(operations) : operations[p].dst = r})
             = diff[r]
    /\ \A r \in Rows : diff[r] <= Cardinality(bitmatrix[r])

\* jerasure_do_scheduled_operations on symbolic packets: a coding packet is
\* the set of data packets it is the sum of, or stale memory.
Stale == {C}
Perform(mem, op) ==
    LET value == IF op.src[1] = "data" THEN {op.src[2]} ELSE mem[op.src[2]]
    IN  [mem EXCEPT ![op.dst] = IF op.xor = 1 THEN Xor(@, value) ELSE value]
Performing(schedule) ==
    LET mem[p \in 0..Len(schedule)] ==
            IF p = 0 THEN [r \in Rows |-> Stale] ELSE Perform(mem[p-1], schedule[p])
    IN  mem
Performed(schedule) == Performing(schedule)[Len(schedule)]
Memory == Performed(operations)

\* jerasure_dumb_bitmatrix_to_schedule: every row is built from data.
BuiltRows ==
    LET ops[r \in 0..R] == IF r = 0 THEN <<>> ELSE ops[r-1] \o BuildOps(r - 1)
    IN  ops
dumb_schedule == BuiltRows[R]

\* Performing the schedule computes the product of the bitmatrix and the data;
\* the packet of an all-zero row is not written at all.  The dumb schedule does
\* the same, and is never the shorter of the two.
Product(r) == IF bitmatrix[r] = {} THEN Stale ELSE bitmatrix[r]
ComputesProduct ==
    /\ LET mem == Memory IN \A r \in Done : mem[r] = Product(r)
    /\ pc = "done" => /\ Performed(dumb_schedule) = [r \in Rows |-> Product(r)]
                      /\ Len(operations) <= Len(dumb_schedule)

\* The schedule is finished, with every row in it.
Finishes == <>(pc = "done" /\ Done = Rows)
=============================================================================
