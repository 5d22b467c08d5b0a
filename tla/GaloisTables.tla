----------------------------- MODULE GaloisTables -----------------------------
(***************************************************************************)
(* The logarithm, multiplication and division tables of galois.c: how they *)
(* are allocated and filled the first time they are asked for, and what    *)
(* the lookups in them return.                                             *)
(***************************************************************************)
EXTENDS GaloisField

CONSTANTS Widths,       \* word sizes w to build tables for
          NULL          \* a pointer that is not set

ASSUME GaloisAssumption == Widths \subseteq 1..8

VARIABLES
    w,
    log,        \* galois_log_tables[w]
    ilog,       \* galois_ilog_tables[w], before the pointer is moved to nwm1
    mult,       \* galois_mult_tables[w]
    div,        \* galois_div_tables[w]
    b, j,       \* locals of galois_create_log_tables
    caller,     \* who called galois_create_log_tables
    pc

vars == <<w, log, ilog, mult, div, b, j, caller, pc>>

nw == 2^w
nwm1 == nw - 1
Words == Elements(w)

Init ==
    /\ w \in Widths
    /\ log = NULL /\ ilog = NULL /\ mult = NULL /\ div = NULL
    /\ b = One /\ j = 0
    /\ caller = "user"
    /\ pc = "idle"

\* Both arrays are allocated, or neither; an entry of log is nwm1 until set.
AllocateLog(ok) ==
    IF ok
    THEN /\ log' = [x \in Words |-> nwm1]
         /\ ilog' = [p \in 0..3*nw-1 |-> Zero]
         /\ b' = One /\ j' = 0
    ELSE UNCHANGED <<log, ilog, b, j>>

\* galois_create_log_tables is called by its user.
CreateLog ==
    /\ pc = "idle"
    /\ log = NULL
    /\ \E ok \in BOOLEAN : AllocateLog(ok) /\ pc' = IF ok THEN "fill" ELSE "idle"
    /\ caller' = "user"
    /\ UNCHANGED <<w, mult, div>>

\* galois_create_mult_tables: allocates both tables, and the logarithms when
\* they are missing; when one allocation fails all of its own are undone.
Mutant_CreateMult ==
    /\ pc = "idle"
    /\ mult = NULL
    /\ \E mok, dok, lok \in BOOLEAN :
          LET log_ok == IF log = NULL THEN lok ELSE TRUE IN
          /\ mult' = IF mok THEN [x \in Words |-> [y \in Words |-> Zero]] ELSE NULL
          /\ div' = IF mok /\ dok /\ log_ok THEN mult' ELSE NULL
          /\ IF mok /\ dok /\ log = NULL
                THEN AllocateLog(lok) ELSE UNCHANGED <<log, ilog, b, j>>
          /\ pc' = IF ~(mok /\ dok /\ log_ok) THEN "idle"
                   ELSE IF log = NULL THEN "fill" ELSE "tables"
    /\ caller' = "mult"
    /\ UNCHANGED w
CreateMult ==
    /\ pc = "idle"
    /\ mult = NULL
    /\ \E mok, dok, lok \in BOOLEAN :
          LET ok == mok /\ dok /\ (log = NULL => lok) IN
          /\ mult' = IF ok THEN [x \in Words |-> [y \in Words |-> Zero]] ELSE NULL
          /\ div' = mult'
          /\ IF mok /\ dok /\ log = NULL
                THEN AllocateLog(lok) ELSE UNCHANGED <<log, ilog, b, j>>
          /\ pc' = IF ~ok THEN "idle" ELSE IF log = NULL THEN "fill" ELSE "tables"
    /\ caller' = "mult"
    /\ UNCHANGED w

\* One power of 2; a word met twice means that the polynomial is not primitive.
FillLog ==
    /\ pc = "fill"
    /\ j < nwm1
    /\ IF log[b] # nwm1
       THEN pc' = "exit" /\ UNCHANGED <<log, ilog, b, j>>
       ELSE /\ log' = [log EXCEPT ![b] = j]
            /\ ilog' = [ilog EXCEPT ![j] = b]
            /\ b' = Double(b, w)
            /\ j' = j + 1
            /\ pc' = pc
    /\ UNCHANGED <<w, mult, div, caller>>

\* The powers are written three times, so that a sum or a difference of two
\* logarithms needs no reduction.
Copies == [p \in 0..3*nw-1 |-> IF p < 3*nwm1 THEN ilog[p % nwm1] ELSE ilog[p]]

Replicate ==
    /\ pc = "fill"
    /\ j = nwm1
    /\ ilog' = Copies
    /\ pc' = IF caller = "mult" THEN "tables" ELSE "idle"
    /\ UNCHANGED <<w, log, mult, div, b, j, caller>>

Ilog(i) == ilog[i + nwm1]

\* Division by 0 gives -1, told apart here from every word.
Error == {-1}
LogMultiply(x, y) == IF x = Zero \/ y = Zero THEN Zero ELSE Ilog(log[x] + log[y])
LogDivide(x, y) == IF y = Zero THEN Error
                   ELSE IF x = Zero THEN Zero ELSE Ilog(log[x] - log[y])

\* All the entries of both tables; the rows do not depend on each other.
FillTables ==
    /\ pc = "tables"
    /\ mult' = [x \in Words |-> [y \in Words |-> LogMultiply(x, y)]]
    /\ div' = [x \in Words |-> [y \in Words |-> LogDivide(x, y)]]
    /\ pc' = "idle"
    /\ UNCHANGED <<w, log, ilog, b, j, caller>>

Next == CreateLog \/ CreateMult \/ FillLog \/ Replicate \/ FillTables

Spec == Init /\ [][Next]_vars /\ WF_vars(FillLog \/ Replicate \/ FillTables)

-----------------------------------------------------------------------------
\* A caller that finds logarithm tables finds complete ones: products and
\* quotients read from them are those of polynomials modulo prim_poly, and
\* those of galois_shift_multiply; the lookups stay inside the array.  The
\* polynomials are primitive: no power of 2 comes up twice, and the program
\* never exits with "Galois_create_log_tables Error".
LogsMultiply ==
    /\ pc # "exit"
    /\ pc = "idle" /\ log # NULL =>
          \A x, y \in Words :
              /\ LogMultiply(x, y) = PolynomialProduct(x, y, w)
              /\ ShiftMultiply(x, y, w) = PolynomialProduct(x, y, w)
              /\ y # Zero => PolynomialProduct(LogDivide(x, y), y, w) = x

\* galois_single_multiply and galois_single_divide test one pointer and read
\* its table: whatever allocation failed before, a table that is there is full.
TablesMultiply ==
    pc = "idle" =>
        /\ (mult = NULL) = (div = NULL)
        /\ mult # NULL =>
              \A x, y \in Words :
                  /\ mult[x][y] = PolynomialProduct(x, y, w)
                  /\ y # Zero => PolynomialProduct(div[x][y], y, w) = x
=============================================================================
