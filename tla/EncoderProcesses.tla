-------------------------- MODULE EncoderProcesses --------------------------
(***************************************************************************)
(* The encoder of IncrEncoder run by several operators: every process has  *)
(* its own copy of the locals, and nothing locks the files they share.     *)
(* Between the append to a staging file and the look at its size another   *)
(* process may append, so these are two steps here.                        *)
(***************************************************************************)
EXTENDS Integers, Sequences, FiniteSets

CONSTANTS
    Procs,
    Disks, M, ReadIns, InitValues, Retry, MaxRuns, MaxCrashes   \* of IncrEncoder

\* As in IncrEncoder.
ASSUME ProcessesAssumption ==
    /\ Disks \subseteq Nat \ {0}
    /\ M \in Nat \ {0}
    /\ ReadIns \subseteq Nat \ {0}
    /\ InitValues \subseteq {0, 1}
    /\ Retry \in BOOLEAN
    /\ MaxRuns \in Nat
    /\ MaxCrashes \in Nat

VARIABLES
    kfile, mfile, stage, meta, runs, crashes,   \* of IncrEncoder
    proc,           \* of every process: pc and the locals of IncrEncoder, and
                    \* status.st_size, in blocks, of the last stat that succeeded
    last,           \* history: the process that ran last
    overlapped      \* history: did a process run while another did?

pfiles == <<kfile, mfile, stage, meta>>
evars == <<pfiles, runs, crashes, proc, last, overlapped>>

\* Two blocks have been appended and nobody has looked at the size yet: of
\* IncrEncoder's step the decision is still to come.
Decided(l) == IF Len(stage[l.row]) = 2 THEN [l EXCEPT !.pc = "rename"]
              ELSE IF l.row < M THEN [l EXCEPT !.pc = "parity", !.row = @ + 1]
              ELSE [l EXCEPT !.pc = "meta", !.row = 1]

\* A process as IncrEncoder sees it; its process is the one that ran last.
AsSeen(l) == IF l.pc = "stat" THEN Decided(l) ELSE l
Seen == AsSeen(proc[last])

E == INSTANCE IncrEncoder WITH
        pc <- Seen.pc, disk_no <- Seen.disk_no, readins <- Seen.readins,
        n <- Seen.n, row <- Seen.row, init <- Seen.init, coding <- Seen.coding

EncodersInit ==
    /\ kfile = [d \in Disks |-> <<>>]
    /\ mfile = [i \in 1..M |-> <<>>]
    /\ stage = [i \in 1..M |-> <<>>]
    /\ meta = [d \in Disks |-> 0]
    /\ runs = 0 /\ crashes = 0
    /\ proc = [p \in Procs |-> [pc |-> "idle", disk_no |-> 1, readins |-> 1, n |-> 1,
                                row |-> 1, init |-> 0, coding |-> [i \in 1..M |-> {}],
                                st_size |-> 0]]
    /\ last \in Procs
    /\ overlapped = FALSE

Running(p) == proc[p].pc # "idle"

\* Process p takes a step from one place of its program to the next.
At(p, pc) ==
    /\ proc[p].pc = pc
    /\ last' = p
    /\ overlapped' = (overlapped \/ \E q \in Procs \ {p} : Running(q))

Goes(p, l) == proc' = [proc EXCEPT ![p] = l]
After(l, here, there) ==
    IF l.row < M THEN [l EXCEPT !.row = @ + 1, !.pc = here]
                 ELSE [l EXCEPT !.row = 1, !.pc = there]

\* Nobody adds one disk twice at the same time, so the k file and the metadata
\* of a disk have one writer.  The first stat is that of the input, which here
\* fills its read-ins.
StartRun(p, d, r) ==
    /\ At(p, "idle")
    /\ \A q \in Procs : Running(q) => proc[q].disk_no # d
    /\ runs < MaxRuns
    /\ Retry \/ kfile[d] = <<>>
    /\ \E i0 \in InitValues :
          Goes(p, [pc |-> E!LoopHead(d), disk_no |-> d, readins |-> r, n |-> 1, row |-> 1,
                   init |-> i0, coding |-> [i \in 1..M |-> {E!Junk}], st_size |-> r])
    /\ runs' = runs + 1
    /\ UNCHANGED <<pfiles, crashes>>

Counters == UNCHANGED <<runs, crashes>>

\* A stat of a staging file that is not there leaves status as it was.
StatSize(l) == IF stage[l.row] = <<>> THEN l.st_size ELSE Len(stage[l.row])

\* The old parity is read where the staging file ends.  One parity file is read
\* in one step, an abstraction: a rename between the fopen of the parity file and
\* the stat of the staging file is left out.
Load(p) ==
    LET l == proc[p]
        at == Len(stage[l.row]) + 1
    IN  /\ At(p, "load")
        /\ Goes(p, IF at > Len(mfile[l.row]) THEN [l EXCEPT !.pc = "idle"]
                   ELSE After([l EXCEPT !.coding[l.row] = mfile[l.row][at], !.init = 1,
                                        !.st_size = StatSize(l)],
                              "load", "encode"))
        /\ UNCHANGED pfiles /\ Counters

Mutant_KOnlyAppended(p) ==
    LET l == proc[p]
    IN  /\ At(p, "encode")
        /\ Goes(p, [l EXCEPT !.pc = "parity",
                        !.coding = [i \in 1..M |-> E!Encoded(@[i], l.disk_no, l.n, l.init)]])
        /\ kfile' = IF kfile[l.disk_no] = <<>> THEN kfile ELSE
                    [kfile EXCEPT ![l.disk_no] = Append(@, E!InputBlock(l.disk_no, l.n))]
        /\ UNCHANGED <<mfile, stage, meta>> /\ Counters
EncodeAndAppendK(p) ==
    LET l == proc[p]
    IN  /\ At(p, "encode")
        /\ Goes(p, [l EXCEPT !.pc = "parity",
                        !.coding = [i \in 1..M |-> E!Encoded(@[i], l.disk_no, l.n, l.init)]])
        /\ kfile' = [kfile EXCEPT ![l.disk_no] = Append(@, E!InputBlock(l.disk_no, l.n))]
        /\ UNCHANGED <<mfile, stage, meta>> /\ Counters

AppendToParity(p) ==
    LET l == proc[p]
    IN  /\ At(p, "parity") /\ l.disk_no = 1
        /\ Goes(p, After(l, "parity", "meta"))
        /\ mfile' = [mfile EXCEPT ![l.row] = Append(@, l.coding[l.row])]
        /\ UNCHANGED <<kfile, stage, meta>> /\ Counters

AppendToStage(p) ==
    LET l == proc[p]
    IN  /\ At(p, "parity") /\ l.disk_no > 1
        /\ Goes(p, [l EXCEPT !.pc = "stat"])
        /\ stage' = [stage EXCEPT ![l.row] = Append(@, l.coding[l.row])]
        /\ UNCHANGED <<kfile, mfile, meta>> /\ Counters

Mutant_SizeAsLoaded(p) ==
    LET l == proc[p]
    IN  /\ At(p, "stat")
        /\ Goes(p, IF l.st_size = E!FullStage THEN [l EXCEPT !.pc = "rename"]
                   ELSE After(l, "parity", "meta"))
        /\ UNCHANGED pfiles /\ Counters
StatStage(p) ==
    LET l == proc[p]
        told == [l EXCEPT !.st_size = StatSize(l)]
    IN  /\ At(p, "stat")
        /\ Goes(p, IF told.st_size = E!FullStage THEN [told EXCEPT !.pc = "rename"]
                   ELSE After(told, "parity", "meta"))
        /\ UNCHANGED pfiles /\ Counters

\* rename fails, unnoticed, if another process was first.
RenameStage(p) ==
    LET l == proc[p]
    IN  /\ At(p, "rename")
        /\ Goes(p, After(l, "parity", "meta"))
        /\ IF stage[l.row] = <<>> THEN UNCHANGED <<mfile, stage>>
           ELSE /\ mfile' = [mfile EXCEPT ![l.row] = stage[l.row]]
                /\ stage' = [stage EXCEPT ![l.row] = <<>>]
        /\ UNCHANGED <<kfile, meta>> /\ Counters

AppendMeta(p) ==
    LET l == proc[p]
    IN  /\ At(p, "meta")
        /\ Goes(p, [l EXCEPT !.n = @ + 1,
                        !.pc = IF l.n < l.readins THEN E!LoopHead(l.disk_no) ELSE "idle"])
        /\ meta' = [meta EXCEPT ![l.disk_no] = @ + 1]
        /\ UNCHANGED <<kfile, mfile, stage>> /\ Counters

\* Nobody reads the locals of a process that is gone; what stays of them is
\* what stays in IncrEncoder.
KillProcess(p) ==
    /\ Running(p) /\ At(p, proc[p].pc)
    /\ crashes < MaxCrashes /\ crashes' = crashes + 1
    /\ Goes(p, [AsSeen(proc[p]) EXCEPT !.pc = "idle"])
    /\ UNCHANGED <<pfiles, runs>>

ProcessStep(p) ==
    \/ Load(p) \/ EncodeAndAppendK(p) \/ AppendToParity(p) \/ AppendToStage(p)
    \/ StatStage(p) \/ RenameStage(p) \/ AppendMeta(p)

EncodersNext ==
    \E p \in Procs :
        \/ \E d \in Disks, r \in ReadIns : StartRun(p, d, r)
        \/ ProcessStep(p)
        \/ KillProcess(p)

EncodersSpec == EncodersInit /\ [][EncodersNext]_evars

------------------------------------------------------------------------------
(* Properties *)

\* As long as no process has run while another did, the processes do what
\* IncrEncoder says, step for step, whichever process does it: what is proved
\* of IncrEncoder holds of them.
SerialRunsImplement ==
    [][proc' # proc => overlapped' \/ E!Next \/ UNCHANGED E!vars]_evars

\* Whatever the interleaving, a parity file contains nothing of a disk that has
\* no data block.
KBeforeAnyParity == E!KBeforeParity

=============================================================================
