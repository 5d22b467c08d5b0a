---------------------------- MODULE IncrEncoder ----------------------------
(***************************************************************************)
(* The incremental Reed-Solomon encoder, jerasure/van_encoder_incr.c.      *)
(*                                                                         *)
(* One run adds the data of one disk to a store of files under coding/:    *)
(* it appends the disk's blocks to k<disk_no>, folds them into the parity  *)
(* files m1..m<M>, and appends a metadata record.  For every disk but the  *)
(* first the new parity is collected in a staging file m0<i>, which is     *)
(* renamed over m<i> when it has 640 bytes, that is two blocks of 320.     *)
(*                                                                         *)
(* A block is kept symbolically: the set of input chunks whose (scaled)    *)
(* sum it is.  Addition in GF(2^w) cancels equal terms, so it is the       *)
(* symmetric difference.  The scale factors are the entries of the coding  *)
(* matrix; no two chunks are equal, so they matter only to the decoder.    *)
(***************************************************************************)
EXTENDS Integers, Sequences, FiniteSets

CONSTANTS
    Disks,        \* the values of disk_no the encoder is run with
    M,            \* number of parity files (argument m)
    ReadIns,      \* the numbers of read-ins the input files lead to
    InitValues,   \* what the build may leave in the uninitialised local init
    Retry,        \* may a disk that already has a k file be encoded again?
    MaxRuns,      \* bound: runs of the encoder
    MaxCrashes    \* bound: runs that are killed half way

\* disk_no = 0 and disk_no > k index outside data[]; m = 0 keeps no parity.
ASSUME EncoderAssumption ==
    /\ Disks \subseteq Nat \ {0}
    /\ M \in Nat \ {0}
    /\ ReadIns \subseteq Nat \ {0}
    /\ InitValues \subseteq {0, 1}
    /\ Retry \in BOOLEAN
    /\ MaxRuns \in Nat
    /\ MaxCrashes \in Nat

Rows == 1..M

\* Chunk c of the input of disk d, and the contents of a fresh malloc.
Junk == <<0, 0>>
Term == ((Nat \ {0}) \X (Nat \ {0})) \cup {Junk}
Block == SUBSET Term

\* 640 bytes, in blocks of blocksize = 320.
Mutant_RenameEarly == 1
FullStage == 2

VARIABLES
    kfile,      \* coding/k<d>: the blocks of disk d (no block: no file)
    mfile,      \* coding/m<i>: the blocks of parity i
    stage,      \* coding/m0<i>: the blocks staged for parity i
    meta,       \* number of records in coding/<d>_meta.txt
    pc,         \* what the running encoder does next; "idle" when none runs
    disk_no, readins, n, row,    \* its argument and loop counters
    init,       \* the local init: 0 makes encoding overwrite, 1 accumulate
    coding,     \* its buffers coding[1..M]
    runs, crashes                \* counters, for the bounds

files == <<kfile, mfile, stage, meta>>
locals == <<disk_no, readins, n, row, init, coding>>
vars == <<files, pc, locals, runs, crashes>>

-----------------------------------------------------------------------------
Xor(a, b) == (a \ b) \cup (b \ a)

\* What a read-in leaves in block: the input is opened anew in every
\* iteration, so the first buffersize bytes are read each time.
InputBlock(d, k) == {<<d, 1>>}

\* Mutants, here and below, are never part of the specification: each is the
\* definition after it with one slip, for the property that must catch it.
Mutant_Overwrite(old, d, k, i0) == InputBlock(d, k)
\* jerasure_matrix_encode with one source: column d of a row is added to the
\* buffer, or stored over it when init is 0.
Encoded(old, d, k, i0) ==
    IF i0 = 0 THEN InputBlock(d, k) ELSE Xor(old, InputBlock(d, k))

\* Where a read-in begins: only a later disk loads the old parity.
LoopHead(d) == IF d > 1 THEN "load" ELSE "encode"

Mutant_OneRowMore(here, after) ==
    IF row <= M THEN row' = row + 1 /\ pc' = here
                ELSE row' = 1 /\ pc' = after
\* The step after row i of a loop over the parity files.
NextRow(here, after) ==
    IF row < M THEN row' = row + 1 /\ pc' = here
               ELSE row' = 1 /\ pc' = after

-----------------------------------------------------------------------------
Init ==
    /\ kfile = [d \in Disks |-> <<>>]
    /\ mfile = [i \in Rows |-> <<>>]
    /\ stage = [i \in Rows |-> <<>>]
    /\ meta = [d \in Disks |-> 0]
    /\ pc = "idle"
    /\ disk_no = 1 /\ readins = 1 /\ n = 1 /\ row = 1 /\ init = 0
    /\ coding = [i \in Rows |-> {}]
    /\ runs = 0 /\ crashes = 0

\* The operator starts the encoder for disk d on an input of r read-ins.
Start(d, r) ==
    /\ pc = "idle"
    /\ runs < MaxRuns
    /\ Retry \/ kfile[d] = <<>>
    /\ disk_no' = d /\ readins' = r /\ n' = 1 /\ row' = 1
    /\ init' \in InitValues
    /\ coding' = [i \in Rows |-> {Junk}]
    /\ pc' = LoopHead(d)
    /\ runs' = runs + 1
    /\ UNCHANGED <<files, crashes>>

\* m2_size, in blocks: the old parity is read where the staging file ends.
Offset(i) == Len(stage[i])
Loadable(i) == Offset(i) < Len(mfile[i])

LoadRow ==
    /\ pc = "load"
    /\ Loadable(row)
    /\ coding' = [coding EXCEPT ![row] = mfile[row][Offset(row) + 1]]
    /\ init' = 1
    /\ NextRow("load", "encode")
    /\ UNCHANGED <<files, disk_no, readins, n, runs, crashes>>

Mutant_LoadRetries ==
    /\ pc = "load"
    /\ ~Loadable(row)
    /\ UNCHANGED vars
Mutant_LoadContinues ==
    /\ pc = "load"
    /\ ~Loadable(row)
    /\ NextRow("load", "encode")
    /\ UNCHANGED <<files, disk_no, readins, n, init, coding, runs, crashes>>
\* "can't access" and "read failed": the program exits.
LoadFails ==
    /\ pc = "load"
    /\ ~Loadable(row)
    /\ pc' = "idle"
    /\ UNCHANGED <<files, locals, runs, crashes>>

Mutant_KOnlyAppended ==
    /\ pc = "encode"
    /\ coding' = [i \in Rows |-> Encoded(coding[i], disk_no, n, init)]
    /\ kfile' = IF kfile[disk_no] = <<>> THEN kfile ELSE
                [kfile EXCEPT ![disk_no] = Append(@, InputBlock(disk_no, n))]
    /\ pc' = "parity"
    /\ UNCHANGED <<mfile, stage, meta, disk_no, readins, n, row, init,
                   runs, crashes>>
\* Encode in memory, then append the data block to the k file.
EncodeAppendK ==
    /\ pc = "encode"
    /\ coding' = [i \in Rows |-> Encoded(coding[i], disk_no, n, init)]
    /\ kfile' = [kfile EXCEPT ![disk_no] = Append(@, InputBlock(disk_no, n))]
    /\ pc' = "parity"
    /\ UNCHANGED <<mfile, stage, meta, disk_no, readins, n, row, init,
                   runs, crashes>>

\* The first disk appends to the parity file itself.
AppendParity ==
    /\ pc = "parity" /\ disk_no = 1
    /\ mfile' = [mfile EXCEPT ![row] = Append(@, coding[row])]
    /\ NextRow("parity", "meta")
    /\ UNCHANGED <<kfile, stage, meta, disk_no, readins, n, init, coding,
                   runs, crashes>>

\* Every other disk appends to the staging file and looks at its size.
AppendStage ==
    /\ pc = "parity" /\ disk_no > 1
    /\ stage' = [stage EXCEPT ![row] = Append(@, coding[row])]
    /\ IF Len(stage[row]) + 1 = FullStage
          THEN pc' = "rename" /\ row' = row
          ELSE NextRow("parity", "meta")
    /\ UNCHANGED <<kfile, mfile, meta, disk_no, readins, n, init, coding,
                   runs, crashes>>

RenameStage ==
    /\ pc = "rename"
    /\ mfile' = [mfile EXCEPT ![row] = stage[row]]
    /\ stage' = [stage EXCEPT ![row] = <<>>]
    /\ NextRow("parity", "meta")
    /\ UNCHANGED <<kfile, meta, disk_no, readins, n, init, coding,
                   runs, crashes>>

\* Append a metadata record; loop or end.
WriteMeta ==
    /\ pc = "meta"
    /\ meta' = [meta EXCEPT ![disk_no] = @ + 1]
    /\ n' = n + 1
    /\ pc' = IF n < readins THEN LoopHead(disk_no) ELSE "idle"
    /\ UNCHANGED <<kfile, mfile, stage, disk_no, readins, row, init, coding,
                   runs, crashes>>

\* The process is killed: its memory is gone, the files stay.
Crash ==
    /\ pc # "idle"
    /\ crashes < MaxCrashes
    /\ crashes' = crashes + 1
    /\ pc' = "idle"
    /\ UNCHANGED <<files, locals, runs>>

EncoderStep ==
    \/ LoadRow
    \/ LoadFails
    \/ EncodeAppendK
    \/ AppendParity
    \/ AppendStage
    \/ RenameStage
    \/ WriteMeta

Next ==
    \/ \E d \in Disks, r \in ReadIns : Start(d, r)
    \/ EncoderStep
    \/ Crash

Spec == Init /\ [][Next]_vars

\* A running process is scheduled; nobody has to start or kill one.
FairSpec == Spec /\ WF_vars(EncoderStep)
-----------------------------------------------------------------------------
(***************************************************************************)
(* Properties.                                                             *)
(***************************************************************************)
TypeOK ==
    /\ kfile \in [Disks -> Seq(Block)]
    /\ mfile \in [Rows -> Seq(Block)]
    /\ stage \in [Rows -> Seq(Block)]
    /\ meta \in [Disks -> Nat]
    /\ pc \in {"idle", "load", "encode", "parity", "rename", "meta"}
    /\ pc # "idle" => disk_no \in Disks
    /\ disk_no \in Nat \ {0} /\ readins \in Nat \ {0} /\ n \in Nat \ {0}
    /\ row \in Rows
    /\ init \in {0, 1}
    /\ coding \in [Rows -> Block]
    /\ runs \in Nat /\ crashes \in Nat

\* The chunks that are terms of some block of a file.
TermsOf(file) == UNION {file[b] : b \in DOMAIN file}

\* A disk is folded into parity, or staged, only after a data block of it is
\* on disk: whatever crashes and retries happen, no parity depends on data
\* that was never written (the k file is written first, lines 498-510).
KBeforeParity ==
    \A i \in Rows : \A t \in TermsOf(mfile[i]) \cup TermsOf(stage[i]) :
        t = Junk \/ (t[1] \in Disks /\ kfile[t[1]] # <<>>)

\* Metadata records are written last: they never outnumber the data blocks,
\* and they fall behind by the runs that were killed plus the one under way.
MetaAccountsForK ==
    \A d \in Disks :
        LET gap == Len(kfile[d]) - meta[d]
            inFlight == pc \in {"parity", "rename", "meta"} /\ disk_no = d
        IN  /\ gap >= IF inFlight THEN 1 ELSE 0
            /\ gap <= crashes + IF inFlight THEN 1 ELSE 0

\* Between runs every parity file is, block by block, the sum of the k files
\* ("m of the files are encoded", van_encoder_incr.c:44-45), all parity files
\* have caught up with the same disks, and nothing is left staged.
StripeBlock(b) == UNION {kfile[d][b] : d \in {e \in Disks : b <= Len(kfile[e])}}
ParityConsistent ==
    pc = "idle" =>
        \A i \in Rows :
            /\ stage[i] = <<>>
            /\ \A d \in Disks : Len(kfile[d]) <= Len(mfile[i])
            /\ \A b \in 1..Len(mfile[i]) : mfile[i][b] = StripeBlock(b)

\* A crash between the append that fills a staging file and its rename leaves
\* a full staging file behind.  From then on that row is frozen (unless disk 1
\* is encoded again, which lengthens the parity file): the row never changes
\* and no later disk can be added, because its run fails to load the old
\* parity.  The half-renamed generation is at least not built upon.
FullStageBlocks ==
    [][\A i \in Rows :
         (/\ Len(stage[i]) = FullStage /\ Len(mfile[i]) <= FullStage
          /\ ~(pc = "rename" /\ row = i)) =>
             /\ stage'[i] = stage[i]
             /\ mfile'[i] = mfile[i] \/ disk_no = 1
             /\ \A d \in Disks \ {1} : kfile'[d] = kfile[d]]_vars

\* Every run that is not killed comes to its end (line 601), whatever files
\* an earlier one left behind.
EncoderTerminates == (pc # "idle") ~> (pc = "idle")

-----------------------------------------------------------------------------
(***************************************************************************)
(* What the store promises when each disk is added once by an undisturbed  *)
(* run: a parity file goes from one set of disks to the next in one step.  *)
(***************************************************************************)
DisksIn(block) == {t[1] : t \in block}

\* A parity file of the first disk counts when both its blocks are there.
ParityOf(i) ==
    [b \in 1..FullStage |->
        IF Len(mfile[i]) = FullStage THEN DisksIn(mfile[i][b]) ELSE {}]
Joining == IF pc = "idle" THEN 0 ELSE disk_no

Promise == INSTANCE ParityStore WITH
    Blocks <- 1..FullStage,
    parity <- [i \in Rows |-> ParityOf(i)],
    joining <- Joining

\* The encoder implements the abstract parity store.
ImplementsParityStore == Promise!Spec
=============================================================================
