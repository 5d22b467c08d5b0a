------------------------- MODULE IncrSystem_proofs -------------------------
(***************************************************************************)
(* Theorems about the incremental store in use.  First the encoder         *)
(* processes that work on the same files, for any number of processes,     *)
(* disks, parity files and read-ins, with kills and retries; then the same *)
(* with the decoder and with parity files that get lost, and what the      *)
(* decoder recovers.  The second half is about the decoders of the library *)
(* that work with bitmatrices, for every code and every list of devices:   *)
(* what they write, and that it is what was lost.                          *)
(***************************************************************************)
EXTENDS IncrSystem, BitmatrixDecode, CommonLemmas, SequenceTheorems, FiniteSetTheorems, TLAPS

Rows == 1..M
Block == E!Block

\* The locals of a process.
Locals ==
    [pc : {"idle", "load", "encode", "parity", "stat", "rename", "meta"},
     disk_no : Nat \ {0}, readins : Nat \ {0}, n : Nat \ {0}, row : Rows,
     init : {0, 1}, coding : [Rows -> Block], st_size : Nat]

FilesOK ==
    /\ kfile \in [Disks -> Seq(Block)]
    /\ mfile \in [Rows -> Seq(Block)]
    /\ stage \in [Rows -> Seq(Block)]
    /\ meta \in [Disks -> Nat]

EncodersTypeOK ==
    /\ FilesOK
    /\ proc \in [Procs -> Locals]
    /\ \A p \in Procs : Running(p) => proc[p].disk_no \in Disks
    /\ last \in Procs /\ overlapped \in BOOLEAN
    /\ runs \in Nat /\ crashes \in Nat

LEMMA JunkIsBlock == {E!Junk} \in Block /\ {} \in Block
BY DEF Block, E!Block, E!Term, E!Junk

LEMMA InputIsBlock ==
    ASSUME NEW d \in Disks, NEW readin PROVE E!InputBlock(d, readin) \in Block
BY ProcessesAssumption DEF Block, E!Block, E!Term, E!InputBlock

\* Encoding yields a block.
LEMMA EncodedIsBlock ==
    ASSUME NEW old \in Block, NEW d \in Disks, NEW readin, NEW i0
    PROVE  E!Encoded(old, d, readin, i0) \in Block
<1>1. E!InputBlock(d, readin) \in Block
  BY InputIsBlock
<1>2. E!Xor(old, E!InputBlock(d, readin)) \in Block
  BY <1>1 DEF E!Xor, Block, E!Block
<1>. QED  BY <1>1, <1>2 DEF E!Encoded

\* The step to the next parity file changes the row and the place only.
LEMMA AfterFields ==
    ASSUME NEW l \in Locals,
           NEW here \in {"load", "encode", "parity", "meta"},
           NEW there \in {"load", "encode", "parity", "meta"}
    PROVE  LET a == After(l, here, there) IN
           /\ a \in Locals
           /\ a.disk_no = l.disk_no /\ a.readins = l.readins /\ a.n = l.n
           /\ a.init = l.init /\ a.coding = l.coding
           /\ IF l.row < M THEN a.row = l.row + 1 /\ a.pc = here
                           ELSE a.row = 1 /\ a.pc = there
<1>1. CASE l.row < M
  <2>1. l.row + 1 \in Rows
    BY <1>1, ProcessesAssumption DEF Locals, Rows
  <2>. QED  BY <1>1, <2>1 DEF After, Locals
<1>2. CASE ~(l.row < M)
  <2>1. 1 \in Rows
    BY ProcessesAssumption DEF Rows
  <2>. QED  BY <1>2, <2>1 DEF After, Locals
<1>. QED  BY <1>1, <1>2

\* So does the view that IncrEncoder has of a process.
LEMMA AsSeenFields ==
    ASSUME NEW l \in Locals
    PROVE  LET a == AsSeen(l) IN
           /\ a \in Locals
           /\ a.disk_no = l.disk_no /\ a.readins = l.readins /\ a.n = l.n
           /\ a.init = l.init /\ a.coding = l.coding
           /\ l.pc # "stat" => a = l
           /\ l.pc = "stat" =>
                 IF Len(stage[l.row]) = 2 THEN a.row = l.row /\ a.pc = "rename"
                 ELSE IF l.row < M THEN a.row = l.row + 1 /\ a.pc = "parity"
                 ELSE a.row = 1 /\ a.pc = "meta"
<1>1. l.row < M => l.row + 1 \in Rows
  BY ProcessesAssumption DEF Locals, Rows
<1>2. 1 \in Rows
  BY ProcessesAssumption DEF Rows
<1>3. CASE l.pc # "stat"
  BY <1>3 DEF AsSeen
<1>4. CASE l.pc = "stat" /\ Len(stage[l.row]) = 2
  BY <1>4 DEF AsSeen, Decided, Locals
<1>5. CASE l.pc = "stat" /\ Len(stage[l.row]) # 2 /\ l.row < M
  BY <1>1, <1>5 DEF AsSeen, Decided, Locals
<1>6. CASE l.pc = "stat" /\ Len(stage[l.row]) # 2 /\ ~(l.row < M)
  BY <1>2, <1>6 DEF AsSeen, Decided, Locals
<1>. QED  BY <1>3, <1>4, <1>5, <1>6

\* What a step of process p does to the processes.
LEMMA GoesTo ==
    ASSUME EncodersTypeOK, NEW p \in Procs, NEW l, Goes(p, l)
    PROVE  proc'[p] = l /\ \A q \in Procs \ {p} : proc'[q] = proc[q]
BY DEF EncodersTypeOK, Goes

\* A step that gives a process sound locals and a disk keeps the types.
LEMMA StepKeepsTypes ==
    ASSUME EncodersTypeOK, NEW p \in Procs, NEW l \in Locals, Goes(p, l),
           l.pc # "idle" => l.disk_no \in Disks,
           NEW place, At(p, place), FilesOK', runs' \in Nat, crashes' \in Nat
    PROVE  EncodersTypeOK'
<1>1. proc' \in [Procs -> Locals]
  BY DEF EncodersTypeOK, Goes
<1>2. \A q \in Procs : Running(q)' => proc'[q].disk_no \in Disks
  BY GoesTo DEF EncodersTypeOK, Running
<1>3. last' \in Procs /\ overlapped' \in BOOLEAN
  BY DEF EncodersTypeOK, At
<1>. QED  BY <1>1, <1>2, <1>3 DEF EncodersTypeOK

\* A file that is appended to keeps what it had.
LEMMA AppendedFile ==
    ASSUME NEW file \in Seq(Block), NEW block \in Block
    PROVE  /\ Append(file, block) \in Seq(Block)
           /\ Len(Append(file, block)) = Len(file) + 1
           /\ Append(file, block) # <<>>
           /\ Append(file, block)[Len(file) + 1] = block
           /\ \A b \in 1..Len(file) : Append(file, block)[b] = file[b]
BY AppendProperties

-----------------------------------------------------------------------------
(* What the steps of a running process do, as its types and its next place. *)

\* The locals of a process that begins with disk d.
Fresh(d, r, i0) ==
    [pc |-> E!LoopHead(d), disk_no |-> d, readins |-> r, n |-> 1, row |-> 1,
     init |-> i0, coding |-> [i \in 1..M |-> {E!Junk}], st_size |-> r]

LEMMA FreshIsLocals ==
    ASSUME NEW d \in Disks, NEW r \in ReadIns, NEW i0 \in InitValues
    PROVE  Fresh(d, r, i0) \in Locals
BY ProcessesAssumption, JunkIsBlock DEF Fresh, Locals, Rows, E!LoopHead

LEMMA RunningLocals ==
    ASSUME EncodersTypeOK, NEW p \in Procs, NEW place, place # "idle", At(p, place)
    PROVE  proc[p] \in Locals /\ proc[p].disk_no \in Disks /\ proc[p].row \in Rows
BY DEF EncodersTypeOK, At, Running, Locals

\* A process that has loaded the block at place at of its parity file.
Loaded(l, at) ==
    [l EXCEPT !.coding[l.row] = mfile[l.row][at], !.init = 1, !.st_size = StatSize(l)]

LEMMA LoadedIsLocals ==
    ASSUME NEW l \in Locals, FilesOK, NEW at \in 1..Len(mfile[l.row])
    PROVE  /\ Loaded(l, at) \in Locals
           /\ Loaded(l, at).disk_no = l.disk_no /\ Loaded(l, at).row = l.row
           /\ Loaded(l, at).readins = l.readins /\ Loaded(l, at).n = l.n
           /\ Loaded(l, at).init = 1
           /\ Loaded(l, at).coding = [l.coding EXCEPT ![l.row] = mfile[l.row][at]]
<1>1. mfile[l.row][at] \in Block /\ StatSize(l) \in Nat
  BY DEF FilesOK, Locals, StatSize
<1>. QED  BY <1>1 DEF Loaded, Locals

LEMMA LoadGoes ==
    ASSUME EncodersTypeOK, NEW p \in Procs, Load(p)
    PROVE  LET l == proc[p]
               at == Len(stage[l.row]) + 1
           IN  /\ at \in Nat \ {0} /\ Len(mfile[l.row]) \in Nat
               /\ at > Len(mfile[l.row]) => Goes(p, [l EXCEPT !.pc = "idle"])
               /\ ~(at > Len(mfile[l.row])) =>
                     /\ at \in 1..Len(mfile[l.row])
                     /\ Goes(p, After(Loaded(l, at), "load", "encode"))
<1>1. proc[p].row \in Rows
  BY RunningLocals DEF Load
<1>2. /\ Len(stage[proc[p].row]) \in Nat
      /\ Len(mfile[proc[p].row]) \in Nat
  BY <1>1 DEF EncodersTypeOK, FilesOK
<1>. QED  BY <1>2 DEF Load, Loaded

\* A process whose buffers hold the encoded blocks.
Filled(l) ==
    [l EXCEPT !.pc = "parity",
              !.coding = [i \in 1..M |-> E!Encoded(@[i], l.disk_no, l.n, l.init)]]

LEMMA FilledIsLocals ==
    ASSUME NEW l \in Locals, l.disk_no \in Disks
    PROVE  /\ Filled(l) \in Locals
           /\ Filled(l).disk_no = l.disk_no /\ Filled(l).row = l.row
           /\ Filled(l).readins = l.readins /\ Filled(l).n = l.n
           /\ Filled(l).init = l.init /\ Filled(l).pc = "parity"
           /\ Filled(l).coding =
                [i \in 1..M |-> E!Encoded(l.coding[i], l.disk_no, l.n, l.init)]
<1>1. \A i \in Rows : E!Encoded(l.coding[i], l.disk_no, l.n, l.init) \in Block
  BY EncodedIsBlock DEF Locals
<1>. QED  BY <1>1 DEF Filled, Locals, Rows

\* A process that has been told the size of its staging file.
Told(l) == [l EXCEPT !.st_size = StatSize(l)]

LEMMA ToldIsLocals ==
    ASSUME NEW l \in Locals, FilesOK
    PROVE  /\ Told(l) \in Locals /\ [Told(l) EXCEPT !.pc = "rename"] \in Locals
           /\ Told(l).st_size = StatSize(l)
           /\ \A a \in {Told(l), [Told(l) EXCEPT !.pc = "rename"]} :
                 /\ a.disk_no = l.disk_no /\ a.row = l.row
                 /\ a.readins = l.readins /\ a.n = l.n
                 /\ a.init = l.init /\ a.coding = l.coding
           /\ [Told(l) EXCEPT !.pc = "rename"].pc = "rename"
<1>1. StatSize(l) \in Nat
  BY DEF FilesOK, Locals, StatSize
<1>. QED  BY <1>1 DEF Told, Locals

\* A process that goes to a place, and one that also begins a read-in.
Placed(l, place) == [l EXCEPT !.pc = place]
NextReadIn(l, place) == [l EXCEPT !.n = @ + 1, !.pc = place]
Places == {"idle", "load", "encode", "parity", "stat", "rename", "meta"}

LEMMA PlacedIsLocals ==
    ASSUME NEW l \in Locals, NEW place \in Places
    PROVE  LET a == Placed(l, place) IN
           /\ a \in Locals /\ a.pc = place /\ a.n = l.n
           /\ a.disk_no = l.disk_no /\ a.row = l.row /\ a.readins = l.readins
           /\ a.init = l.init /\ a.coding = l.coding
BY DEF Locals, Placed, Places

LEMMA NextReadInIsLocals ==
    ASSUME NEW l \in Locals, NEW place \in Places
    PROVE  LET a == NextReadIn(l, place) IN
           /\ a \in Locals /\ a.pc = place /\ a.n = l.n + 1
           /\ a.disk_no = l.disk_no /\ a.row = l.row /\ a.readins = l.readins
           /\ a.init = l.init /\ a.coding = l.coding
<1>1. l.n + 1 \in Nat \ {0}
  BY DEF Locals
<1>. QED  BY <1>1 DEF Locals, NextReadIn, Places

-----------------------------------------------------------------------------
LEMMA InitTypes == EncodersInit => EncodersTypeOK
<1> SUFFICES ASSUME EncodersInit PROVE EncodersTypeOK
  OBVIOUS
<1>1. [pc |-> "idle", disk_no |-> 1, readins |-> 1, n |-> 1, row |-> 1, init |-> 0,
       coding |-> [i \in 1..M |-> {}], st_size |-> 0] \in Locals
  BY ProcessesAssumption, JunkIsBlock DEF Locals, Rows
<1>2. proc \in [Procs -> Locals] /\ \A p \in Procs : ~Running(p)
  BY <1>1 DEF EncodersInit, Running
<1>3. FilesOK
  BY DEF EncodersInit, FilesOK, Rows
<1>. QED  BY <1>2, <1>3 DEF EncodersInit, EncodersTypeOK

LEMMA StepTypes ==
    EncodersTypeOK /\ [EncodersNext]_evars => EncodersTypeOK'
<1> SUFFICES ASSUME EncodersTypeOK, [EncodersNext]_evars PROVE EncodersTypeOK'
  OBVIOUS
<1>0. FilesOK /\ runs \in Nat /\ crashes \in Nat
  BY DEF EncodersTypeOK
<1>1. ASSUME NEW p \in Procs, NEW d \in Disks, NEW r \in ReadIns, StartRun(p, d, r)
      PROVE  EncodersTypeOK'
  <2>1. PICK i0 \in InitValues : Goes(p, Fresh(d, r, i0))
    BY <1>1 DEF StartRun, Fresh
  <2>2. Fresh(d, r, i0) \in Locals /\ Fresh(d, r, i0).disk_no = d
    BY FreshIsLocals DEF Fresh
  <2>3. At(p, "idle") /\ FilesOK' /\ runs' \in Nat /\ crashes' \in Nat
    BY <1>0, <1>1 DEF StartRun, FilesOK, pfiles
  <2>. QED  BY <2>1, <2>2, <2>3, StepKeepsTypes
<1>2. ASSUME NEW p \in Procs, Load(p) PROVE EncodersTypeOK'
  <2> DEFINE l == proc[p]
             at == Len(stage[l.row]) + 1
  <2>1. At(p, "load") /\ FilesOK' /\ runs' \in Nat /\ crashes' \in Nat
    BY <1>0, <1>2 DEF Load, FilesOK, pfiles, Counters
  <2>2. l \in Locals /\ l.disk_no \in Disks
    BY <2>1, RunningLocals
  <2>3. CASE at > Len(mfile[l.row])
    <3>1. Goes(p, Placed(l, "idle"))
      BY <1>2, <2>3, LoadGoes DEF Placed
    <3>. QED  BY <2>1, <2>2, <3>1, PlacedIsLocals, StepKeepsTypes DEF Places
  <2>4. CASE ~(at > Len(mfile[l.row]))
    <3>1. at \in 1..Len(mfile[l.row]) /\ Goes(p, After(Loaded(l, at), "load", "encode"))
      BY <1>2, <2>4, LoadGoes
    <3>2. Loaded(l, at) \in Locals /\ Loaded(l, at).disk_no = l.disk_no
      BY <1>0, <2>2, <3>1, LoadedIsLocals
    <3>3. /\ After(Loaded(l, at), "load", "encode") \in Locals
          /\ After(Loaded(l, at), "load", "encode").disk_no = l.disk_no
      BY <3>2, AfterFields
    <3>. QED  BY <2>1, <2>2, <3>1, <3>3, StepKeepsTypes
  <2>. QED  BY <2>3, <2>4
<1>3. ASSUME NEW p \in Procs, EncodeAndAppendK(p) PROVE EncodersTypeOK'
  <2>1. At(p, "encode") /\ runs' \in Nat /\ crashes' \in Nat
    BY <1>0, <1>3 DEF EncodeAndAppendK, Counters
  <2>2. proc[p] \in Locals /\ proc[p].disk_no \in Disks
    BY <2>1, RunningLocals
  <2>3. Goes(p, Filled(proc[p]))
    BY <1>3 DEF EncodeAndAppendK, Filled
  <2>4. FilesOK'
    <3>1. E!InputBlock(proc[p].disk_no, proc[p].n) \in Block
      BY <2>2, InputIsBlock
    <3>2. Append(kfile[proc[p].disk_no], E!InputBlock(proc[p].disk_no, proc[p].n))
             \in Seq(Block)
      BY <1>0, <2>2, <3>1, AppendedFile DEF FilesOK
    <3>. QED  BY <1>0, <1>3, <2>2, <3>2 DEF EncodeAndAppendK, FilesOK
  <2>. QED  BY <2>1, <2>2, <2>3, <2>4, FilledIsLocals, StepKeepsTypes
<1>4. ASSUME NEW p \in Procs, AppendToParity(p) PROVE EncodersTypeOK'
  <2>1. At(p, "parity") /\ runs' \in Nat /\ crashes' \in Nat
    BY <1>0, <1>4 DEF AppendToParity, Counters
  <2>2. proc[p] \in Locals /\ proc[p].disk_no \in Disks /\ proc[p].row \in Rows
    BY <2>1, RunningLocals
  <2>3. Goes(p, After(proc[p], "parity", "meta"))
    BY <1>4 DEF AppendToParity
  <2>4. FilesOK'
    <3>1. Append(mfile[proc[p].row], proc[p].coding[proc[p].row]) \in Seq(Block)
      BY <1>0, <2>2, AppendedFile DEF FilesOK, Locals
    <3>. QED  BY <1>0, <1>4, <2>2, <3>1 DEF AppendToParity, FilesOK
  <2>5. /\ After(proc[p], "parity", "meta") \in Locals
        /\ After(proc[p], "parity", "meta").disk_no = proc[p].disk_no
    BY <2>2, AfterFields
  <2>. QED  BY <2>1, <2>2, <2>3, <2>4, <2>5, StepKeepsTypes
<1>5. ASSUME NEW p \in Procs, AppendToStage(p) PROVE EncodersTypeOK'
  <2>1. At(p, "parity") /\ runs' \in Nat /\ crashes' \in Nat
    BY <1>0, <1>5 DEF AppendToStage, Counters
  <2>2. proc[p] \in Locals /\ proc[p].disk_no \in Disks /\ proc[p].row \in Rows
    BY <2>1, RunningLocals
  <2>3. Goes(p, Placed(proc[p], "stat"))
    BY <1>5 DEF AppendToStage, Placed
  <2>4. FilesOK'
    <3>1. Append(stage[proc[p].row], proc[p].coding[proc[p].row]) \in Seq(Block)
      BY <1>0, <2>2, AppendedFile DEF FilesOK, Locals
    <3>. QED  BY <1>0, <1>5, <2>2, <3>1 DEF AppendToStage, FilesOK
  <2>. QED  BY <2>1, <2>2, <2>3, <2>4, PlacedIsLocals, StepKeepsTypes DEF Places
<1>6. ASSUME NEW p \in Procs, StatStage(p) PROVE EncodersTypeOK'
  <2>1. At(p, "stat") /\ FilesOK' /\ runs' \in Nat /\ crashes' \in Nat
    BY <1>0, <1>6 DEF StatStage, Counters, FilesOK, pfiles
  <2>2. proc[p] \in Locals /\ proc[p].disk_no \in Disks
    BY <2>1, RunningLocals
  <2>3. /\ Told(proc[p]) \in Locals /\ Told(proc[p]).disk_no = proc[p].disk_no
        /\ Placed(Told(proc[p]), "rename") \in Locals
        /\ Placed(Told(proc[p]), "rename").disk_no = proc[p].disk_no
    BY <1>0, <2>2, ToldIsLocals DEF Placed
  <2>4. /\ After(Told(proc[p]), "parity", "meta") \in Locals
        /\ After(Told(proc[p]), "parity", "meta").disk_no = proc[p].disk_no
    BY <2>3, AfterFields
  <2>5. \/ Goes(p, Placed(Told(proc[p]), "rename"))
        \/ Goes(p, After(Told(proc[p]), "parity", "meta"))
    BY <1>6 DEF StatStage, Told, Placed
  <2>. QED  BY <2>1, <2>2, <2>3, <2>4, <2>5, StepKeepsTypes
<1>7. ASSUME NEW p \in Procs, RenameStage(p) PROVE EncodersTypeOK'
  <2>1. At(p, "rename") /\ runs' \in Nat /\ crashes' \in Nat
    BY <1>0, <1>7 DEF RenameStage, Counters
  <2>2. proc[p] \in Locals /\ proc[p].disk_no \in Disks /\ proc[p].row \in Rows
    BY <2>1, RunningLocals
  <2>3. Goes(p, After(proc[p], "parity", "meta"))
    BY <1>7 DEF RenameStage
  <2>4. FilesOK'
    <3>1. stage[proc[p].row] \in Seq(Block) /\ <<>> \in Seq(Block)
      BY <1>0, <2>2 DEF FilesOK
    <3>2. CASE stage[proc[p].row] = <<>>
      BY <1>0, <1>7, <3>2 DEF RenameStage, FilesOK
    <3>3. CASE stage[proc[p].row] # <<>>
      <4>1. /\ UNCHANGED <<kfile, meta>>
            /\ mfile' = [mfile EXCEPT ![proc[p].row] = stage[proc[p].row]]
            /\ stage' = [stage EXCEPT ![proc[p].row] = <<>>]
        BY <1>7, <3>3 DEF RenameStage
      <4>. QED  BY <1>0, <2>2, <3>1, <4>1 DEF FilesOK
    <3>. QED  BY <3>2, <3>3
  <2>5. /\ After(proc[p], "parity", "meta") \in Locals
        /\ After(proc[p], "parity", "meta").disk_no = proc[p].disk_no
    BY <2>2, AfterFields
  <2>. QED  BY <2>1, <2>2, <2>3, <2>4, <2>5, StepKeepsTypes
<1>8. ASSUME NEW p \in Procs, AppendMeta(p) PROVE EncodersTypeOK'
  <2>1. At(p, "meta") /\ runs' \in Nat /\ crashes' \in Nat
    BY <1>0, <1>8 DEF AppendMeta, Counters
  <2>2. proc[p] \in Locals /\ proc[p].disk_no \in Disks
    BY <2>1, RunningLocals
  <2>3. PICK place \in Places : Goes(p, NextReadIn(proc[p], place))
    <3>1. E!LoopHead(proc[p].disk_no) \in Places /\ "idle" \in Places
      BY DEF E!LoopHead, Places
    <3>. QED  BY <1>8, <3>1 DEF AppendMeta, NextReadIn
  <2>4. FilesOK'
    <3>1. meta[proc[p].disk_no] + 1 \in Nat
      BY <1>0, <2>2 DEF FilesOK
    <3>. QED  BY <1>0, <1>8, <2>2, <3>1 DEF AppendMeta, FilesOK
  <2>. QED  BY <2>1, <2>2, <2>3, <2>4, NextReadInIsLocals, StepKeepsTypes
<1>9. ASSUME NEW p \in Procs, KillProcess(p) PROVE EncodersTypeOK'
  <2>1. Running(p) /\ At(p, proc[p].pc) /\ FilesOK' /\ runs' \in Nat /\ crashes' \in Nat
    BY <1>0, <1>9 DEF KillProcess, FilesOK, pfiles
  <2>2. proc[p] \in Locals
    BY DEF EncodersTypeOK
  <2>3. Goes(p, Placed(AsSeen(proc[p]), "idle"))
    BY <1>9 DEF KillProcess, Placed
  <2>4. /\ Placed(AsSeen(proc[p]), "idle") \in Locals
        /\ Placed(AsSeen(proc[p]), "idle").pc = "idle"
    BY <2>2, AsSeenFields, PlacedIsLocals DEF Places
  <2>. QED  BY <2>1, <2>3, <2>4, StepKeepsTypes
<1>10. CASE UNCHANGED evars
  BY <1>10 DEF EncodersTypeOK, FilesOK, Running, evars, pfiles
<1>. QED
  BY <1>1, <1>2, <1>3, <1>4, <1>5, <1>6, <1>7, <1>8, <1>9, <1>10
  DEF EncodersNext, ProcessStep

\* Every variable keeps its type, and a running process has a disk.
THEOREM TypeCorrect == EncodersSpec => []EncodersTypeOK
BY InitTypes, StepTypes, PTL DEF EncodersSpec

-----------------------------------------------------------------------------
\* Every term of a block is junk or belongs to a disk with a k file in kf.
Backed(kf, block) ==
    \A t \in block : t = E!Junk \/ (t[1] \in Disks /\ kf[t[1]] # <<>>)
BackedFiles(kf, rows) == \A i \in Rows : \A b \in DOMAIN rows[i] : Backed(kf, rows[i][b])
BackedBuffers(kf, l) == \A i \in Rows : Backed(kf, l.coding[i])

\* The inductive form of KBeforeAnyParity speaks of the buffers of all processes.
KInv == /\ BackedFiles(kfile, mfile) /\ BackedFiles(kfile, stage)
        /\ \A p \in Procs : BackedBuffers(kfile, proc[p])

LEMMA KInvImplies == KInv => KBeforeAnyParity
BY DEF KInv, KBeforeAnyParity, Backed, BackedFiles, E!KBeforeParity, E!TermsOf, E!Rows, Rows

\* k files never get empty again.
Grow(kf, kg) == \A d \in Disks : kf[d] # <<>> => kg[d] # <<>>

LEMMA BackedStays ==
    ASSUME NEW kf, NEW kg, Grow(kf, kg)
    PROVE  /\ \A block : Backed(kf, block) => Backed(kg, block)
           /\ \A rows : BackedFiles(kf, rows) => BackedFiles(kg, rows)
           /\ \A l : BackedBuffers(kf, l) => BackedBuffers(kg, l)
BY DEF Grow, Backed, BackedFiles, BackedBuffers

\* A step of process p: the files after it are backed, and its buffers.
LEMMA StepKeepsBacked ==
    ASSUME EncodersTypeOK, KInv, NEW p \in Procs, NEW l, Goes(p, l),
           Grow(kfile, kfile'), BackedBuffers(kfile', l),
           BackedFiles(kfile', mfile'), BackedFiles(kfile', stage')
    PROVE  KInv'
<1>1. \A q \in Procs \ {p} : BackedBuffers(kfile', proc'[q])
  BY GoesTo, BackedStays DEF KInv
<1>2. BackedBuffers(kfile', proc'[p])
  BY GoesTo
<1>. QED  BY <1>1, <1>2 DEF KInv, BackedBuffers, BackedFiles, Backed

\* Appending a backed block to a file, or putting a backed file in its place.
LEMMA AppendBacked ==
    ASSUME NEW kf, NEW rows \in [Rows -> Seq(Block)], BackedFiles(kf, rows),
           NEW i \in Rows, NEW block \in Block, Backed(kf, block)
    PROVE  BackedFiles(kf, [rows EXCEPT ![i] = Append(@, block)])
<1> DEFINE new == [rows EXCEPT ![i] = Append(@, block)]
<1>1. ASSUME NEW j \in Rows, NEW b \in DOMAIN new[j] PROVE Backed(kf, new[j][b])
  <2>1. CASE j = i
    <3>1. new[j] = Append(rows[i], block)
      BY <2>1
    <3>2. b \in DOMAIN rows[i] \/ new[j][b] = block
      BY <3>1
    <3>3. b \in DOMAIN rows[i] => new[j][b] = rows[i][b]
      BY <3>1
    <3>. QED  BY <3>2, <3>3 DEF BackedFiles
  <2>2. CASE j # i
    BY <2>2 DEF BackedFiles
  <2>. QED  BY <2>1, <2>2
<1>. QED  BY <1>1 DEF BackedFiles

LEMMA ReplaceBacked ==
    ASSUME NEW kf, NEW rows \in [Rows -> Seq(Block)], BackedFiles(kf, rows),
           NEW i \in Rows, NEW file, \A b \in DOMAIN file : Backed(kf, file[b])
    PROVE  BackedFiles(kf, [rows EXCEPT ![i] = file])
BY DEF BackedFiles

LEMMA InitBacked == EncodersInit => KInv
<1> SUFFICES ASSUME EncodersInit PROVE KInv
  OBVIOUS
<1>1. \A p \in Procs, i \in Rows : proc[p].coding[i] = {}
  BY DEF EncodersInit, Rows
<1>2. \A i \in Rows : mfile[i] = <<>> /\ stage[i] = <<>>
  BY DEF EncodersInit, Rows
<1>3. BackedFiles(kfile, mfile) /\ BackedFiles(kfile, stage)
  BY <1>2 DEF BackedFiles
<1>. QED  BY <1>1, <1>3 DEF KInv, Backed, BackedBuffers

LEMMA StepBacked ==
    EncodersTypeOK /\ KInv /\ [EncodersNext]_evars => KInv'
<1> SUFFICES ASSUME EncodersTypeOK, KInv, [EncodersNext]_evars PROVE KInv'
  OBVIOUS
<1>0. /\ FilesOK
      /\ BackedFiles(kfile, mfile) /\ BackedFiles(kfile, stage)
      /\ \A p \in Procs : BackedBuffers(kfile, proc[p])
  BY DEF EncodersTypeOK, KInv
<1>a. kfile' = kfile => Grow(kfile, kfile')
  BY DEF Grow
<1>1. ASSUME NEW p \in Procs, NEW d \in Disks, NEW r \in ReadIns, StartRun(p, d, r)
      PROVE  KInv'
  <2>1. PICK i0 \in InitValues : Goes(p, Fresh(d, r, i0))
    BY <1>1 DEF StartRun, Fresh
  <2>2. BackedBuffers(kfile', Fresh(d, r, i0))
    BY DEF Fresh, BackedBuffers, Backed, Rows
  <2>3. UNCHANGED <<kfile, mfile, stage>>
    BY <1>1 DEF StartRun, pfiles
  <2>. QED  BY <1>0, <1>a, <2>1, <2>2, <2>3, StepKeepsBacked
<1>2. ASSUME NEW p \in Procs, Load(p) PROVE KInv'
  <2> DEFINE l == proc[p]
             at == Len(stage[l.row]) + 1
  <2>1. UNCHANGED <<kfile, mfile, stage>> /\ At(p, "load")
    BY <1>2 DEF Load, pfiles
  <2>2. l \in Locals /\ l.row \in Rows
    BY <2>1, RunningLocals
  <2>3. CASE at > Len(mfile[l.row])
    <3>1. Goes(p, Placed(l, "idle"))
      BY <1>2, <2>3, LoadGoes DEF Placed
    <3>2. BackedBuffers(kfile', Placed(l, "idle"))
      BY <1>0, <2>1, <2>2, PlacedIsLocals DEF Places, BackedBuffers
    <3>. QED  BY <1>0, <1>a, <2>1, <3>1, <3>2, StepKeepsBacked
  <2>4. CASE ~(at > Len(mfile[l.row]))
    <3>1. at \in 1..Len(mfile[l.row]) /\ Goes(p, After(Loaded(l, at), "load", "encode"))
      BY <1>2, <2>4, LoadGoes
    <3>2. /\ Loaded(l, at) \in Locals
          /\ Loaded(l, at).coding = [l.coding EXCEPT ![l.row] = mfile[l.row][at]]
      BY <1>0, <2>2, <3>1, LoadedIsLocals
    <3>3. After(Loaded(l, at), "load", "encode").coding = Loaded(l, at).coding
      BY <3>2, AfterFields
    <3>4. Backed(kfile, mfile[l.row][at])
      BY <1>0, <2>2, <3>1 DEF BackedFiles, FilesOK
    <3>5. BackedBuffers(kfile', After(Loaded(l, at), "load", "encode"))
      BY <1>0, <2>1, <2>2, <3>2, <3>3, <3>4 DEF BackedBuffers, Locals
    <3>. QED  BY <1>0, <1>a, <2>1, <3>1, <3>5, StepKeepsBacked
  <2>. QED  BY <2>3, <2>4
<1>3. ASSUME NEW p \in Procs, EncodeAndAppendK(p) PROVE KInv'
  <2> DEFINE l == proc[p]
  <2>1. UNCHANGED <<mfile, stage>> /\ At(p, "encode")
    BY <1>3 DEF EncodeAndAppendK
  <2>2. l \in Locals /\ l.disk_no \in Disks
    BY <2>1, RunningLocals
  <2>3. Goes(p, Filled(l))
    BY <1>3 DEF EncodeAndAppendK, Filled
  <2>4. kfile'[l.disk_no] # <<>> /\ Grow(kfile, kfile')
    <3>1. Append(kfile[l.disk_no], E!InputBlock(l.disk_no, l.n)) # <<>>
      BY <1>0, <2>2, InputIsBlock, AppendedFile DEF FilesOK
    <3>. QED  BY <1>0, <1>3, <2>2, <3>1 DEF EncodeAndAppendK, FilesOK, Grow
  <2>5. ASSUME NEW i \in Rows PROVE Backed(kfile', Filled(l).coding[i])
    <3>1. Filled(l).coding[i] = E!Encoded(l.coding[i], l.disk_no, l.n, l.init)
      BY <2>2, FilledIsLocals DEF Rows
    <3>2. \A t \in Filled(l).coding[i] : t \in l.coding[i] \/ t = <<l.disk_no, 1>>
      BY <3>1 DEF E!Encoded, E!Xor, E!InputBlock
    <3>3. Backed(kfile', l.coding[i])
      BY <1>0, <2>4, BackedStays DEF BackedBuffers
    <3>. QED  BY <2>2, <2>4, <3>2, <3>3 DEF Backed
  <2>6. BackedFiles(kfile', mfile') /\ BackedFiles(kfile', stage')
    BY <1>0, <2>1, <2>4, BackedStays
  <2>. QED  BY <2>3, <2>4, <2>5, <2>6, StepKeepsBacked DEF BackedBuffers
<1>4. ASSUME NEW p \in Procs, AppendToParity(p) PROVE KInv'
  <2> DEFINE l == proc[p]
  <2>1. /\ UNCHANGED <<kfile, stage>> /\ At(p, "parity")
        /\ mfile' = [mfile EXCEPT ![l.row] = Append(@, l.coding[l.row])]
        /\ Goes(p, After(l, "parity", "meta"))
    BY <1>4 DEF AppendToParity
  <2>2. l \in Locals /\ l.row \in Rows /\ l.coding[l.row] \in Block
    BY <2>1, RunningLocals DEF Locals
  <2>3. BackedBuffers(kfile', After(l, "parity", "meta"))
    BY <1>0, <2>1, <2>2, AfterFields DEF BackedBuffers
  <2>4. BackedFiles(kfile', mfile')
    BY <1>0, <2>1, <2>2, AppendBacked DEF FilesOK, BackedBuffers
  <2>. QED  BY <1>0, <1>a, <2>1, <2>3, <2>4, StepKeepsBacked
<1>5. ASSUME NEW p \in Procs, AppendToStage(p) PROVE KInv'
  <2> DEFINE l == proc[p]
  <2>1. /\ UNCHANGED <<kfile, mfile>> /\ At(p, "parity")
        /\ stage' = [stage EXCEPT ![l.row] = Append(@, l.coding[l.row])]
        /\ Goes(p, Placed(l, "stat"))
    BY <1>5 DEF AppendToStage, Placed
  <2>2. l \in Locals /\ l.row \in Rows /\ l.coding[l.row] \in Block
    BY <2>1, RunningLocals DEF Locals
  <2>3. BackedBuffers(kfile', Placed(l, "stat"))
    BY <1>0, <2>1, <2>2, PlacedIsLocals DEF Places, BackedBuffers
  <2>4. BackedFiles(kfile', stage')
    BY <1>0, <2>1, <2>2, AppendBacked DEF FilesOK, BackedBuffers
  <2>. QED  BY <1>0, <1>a, <2>1, <2>3, <2>4, StepKeepsBacked
<1>6. ASSUME NEW p \in Procs, StatStage(p) PROVE KInv'
  <2> DEFINE l == proc[p]
  <2>1. UNCHANGED <<kfile, mfile, stage>> /\ At(p, "stat")
    BY <1>6 DEF StatStage, pfiles
  <2>2. l \in Locals
    BY <2>1, RunningLocals
  <2>3. /\ Told(l) \in Locals /\ Told(l).coding = l.coding
        /\ Placed(Told(l), "rename").coding = l.coding
    BY <1>0, <2>2, ToldIsLocals DEF Placed
  <2>4. After(Told(l), "parity", "meta").coding = l.coding
    BY <2>3, AfterFields
  <2>5. \/ Goes(p, Placed(Told(l), "rename"))
        \/ Goes(p, After(Told(l), "parity", "meta"))
    BY <1>6 DEF StatStage, Told, Placed
  <2>6. /\ BackedBuffers(kfile', Placed(Told(l), "rename"))
        /\ BackedBuffers(kfile', After(Told(l), "parity", "meta"))
    BY <1>0, <2>1, <2>3, <2>4 DEF BackedBuffers
  <2>. QED  BY <1>0, <1>a, <2>1, <2>5, <2>6, StepKeepsBacked
<1>7. ASSUME NEW p \in Procs, RenameStage(p) PROVE KInv'
  <2> DEFINE l == proc[p]
  <2>1. UNCHANGED <<kfile>> /\ At(p, "rename") /\ Goes(p, After(l, "parity", "meta"))
    BY <1>7 DEF RenameStage
  <2>2. l \in Locals /\ l.row \in Rows
    BY <2>1, RunningLocals
  <2>3. BackedBuffers(kfile', After(l, "parity", "meta"))
    BY <1>0, <2>1, <2>2, AfterFields DEF BackedBuffers
  <2>4. CASE stage[l.row] = <<>>
    <3>1. UNCHANGED <<mfile, stage>>
      BY <1>7, <2>4 DEF RenameStage
    <3>. QED  BY <1>0, <1>a, <2>1, <2>3, <3>1, StepKeepsBacked
  <2>5. CASE stage[l.row] # <<>>
    <3>1. /\ mfile' = [mfile EXCEPT ![l.row] = stage[l.row]]
          /\ stage' = [stage EXCEPT ![l.row] = <<>>]
      BY <1>7, <2>5 DEF RenameStage
    <3>2. \A b \in DOMAIN stage[l.row] : Backed(kfile, stage[l.row][b])
      BY <1>0, <2>2 DEF BackedFiles
    <3>3. BackedFiles(kfile', mfile')
      BY <1>0, <2>1, <2>2, <3>1, <3>2, ReplaceBacked DEF FilesOK
    <3>4. \A b \in DOMAIN <<>> : Backed(kfile, <<>>[b])
      OBVIOUS
    <3>5. BackedFiles(kfile', stage')
      BY <1>0, <2>1, <2>2, <3>1, <3>4, ReplaceBacked DEF FilesOK
    <3>. QED  BY <1>a, <2>1, <2>3, <3>3, <3>5, StepKeepsBacked
  <2>. QED  BY <2>4, <2>5
<1>8. ASSUME NEW p \in Procs, AppendMeta(p) PROVE KInv'
  <2> DEFINE l == proc[p]
  <2>1. UNCHANGED <<kfile, mfile, stage>> /\ At(p, "meta")
    BY <1>8 DEF AppendMeta
  <2>2. l \in Locals
    BY <2>1, RunningLocals
  <2>3. PICK place \in Places : Goes(p, NextReadIn(l, place))
    <3>1. E!LoopHead(l.disk_no) \in Places /\ "idle" \in Places
      BY DEF E!LoopHead, Places
    <3>. QED  BY <1>8, <3>1 DEF AppendMeta, NextReadIn
  <2>4. BackedBuffers(kfile', NextReadIn(l, place))
    BY <1>0, <2>1, <2>2, NextReadInIsLocals DEF BackedBuffers
  <2>. QED  BY <1>0, <1>a, <2>1, <2>3, <2>4, StepKeepsBacked
<1>9. ASSUME NEW p \in Procs, KillProcess(p) PROVE KInv'
  <2> DEFINE l == proc[p]
  <2>1. UNCHANGED <<kfile, mfile, stage>> /\ Goes(p, Placed(AsSeen(l), "idle"))
    BY <1>9 DEF KillProcess, pfiles, Placed
  <2>2. l \in Locals
    BY DEF EncodersTypeOK
  <2>3. Placed(AsSeen(l), "idle").coding = l.coding
    BY <2>2, AsSeenFields, PlacedIsLocals DEF Places
  <2>4. BackedBuffers(kfile', Placed(AsSeen(l), "idle"))
    BY <1>0, <2>1, <2>3 DEF BackedBuffers
  <2>. QED  BY <1>0, <1>a, <2>1, <2>4, StepKeepsBacked
<1>10. CASE UNCHANGED evars
  BY <1>10 DEF KInv, Backed, BackedFiles, BackedBuffers, evars, pfiles
<1>. QED
  BY <1>1, <1>2, <1>3, <1>4, <1>5, <1>6, <1>7, <1>8, <1>9, <1>10
  DEF EncodersNext, ProcessStep

\* However many processes overlap, are killed and are started again, no parity
\* or staging file ever contains anything of a disk without a data block.
THEOREM KBeforeAnyParityHolds == EncodersSpec => []KBeforeAnyParity
BY InitBacked, StepBacked, TypeCorrect, KInvImplies, PTL DEF EncodersSpec

-----------------------------------------------------------------------------
\* As long as runs are serial only the process that ran last is running, and a
\* staging file that it has appended to is there until it is renamed.
SerialInv ==
    ~overlapped =>
        /\ \A p \in Procs : Running(p) => p = last
        /\ proc[last].pc \in {"stat", "rename"} => stage[proc[last].row] # <<>>

\* A step of p from one place to another, with nobody else running.
LEMMA SerialStep ==
    ASSUME EncodersTypeOK, SerialInv, NEW p \in Procs, NEW place, At(p, place), ~overlapped'
    PROVE  /\ ~overlapped /\ last' = p
           /\ \A q \in Procs \ {p} : ~Running(q)
           /\ place # "idle" => last = p /\ Seen = AsSeen(proc[p])
           /\ place \notin {"idle", "stat"} => Seen = proc[p]
           /\ place = "idle" => Seen.pc = "idle"
<1>1. ~overlapped /\ last' = p /\ \A q \in Procs \ {p} : ~Running(q)
  BY DEF At, EncodersTypeOK
<1>2. CASE place # "idle"
  <2>1. Running(p) /\ last = p
    BY <1>1, <1>2 DEF At, Running, SerialInv
  <2>. QED  BY <1>1, <1>2, <2>1 DEF Seen, AsSeen, At
<1>3. CASE place = "idle"
  <2>1. proc[last].pc = "idle"
    BY <1>1, <1>3 DEF At, Running, EncodersTypeOK
  <2>. QED  BY <1>1, <1>3, <2>1 DEF Seen, AsSeen
<1>. QED  BY <1>2, <1>3

\* The view after a step of p to locals l.
LEMMA SeenAfter ==
    ASSUME EncodersTypeOK, NEW p \in Procs, NEW l, Goes(p, l), last' = p
    PROVE  l.pc # "stat" => Seen' = l
BY GoesTo DEF Seen, AsSeen

\* SerialInv after a step of p to locals l.
LEMMA SerialInvAfter ==
    ASSUME EncodersTypeOK, SerialInv, NEW p \in Procs, NEW l, Goes(p, l),
           NEW place, At(p, place),
           ~overlapped' /\ l.pc \in {"stat", "rename"} => stage'[l.row] # <<>>
    PROVE  SerialInv'
<1> SUFFICES ASSUME ~overlapped'
             PROVE  /\ \A q \in Procs : Running(q)' => q = last'
                    /\ proc'[last'].pc \in {"stat", "rename"} =>
                          stage'[proc'[last'].row] # <<>>
  BY DEF SerialInv
<1>1. last' = p /\ \A q \in Procs \ {p} : ~Running(q)
  BY SerialStep
<1>2. proc'[p] = l /\ \A q \in Procs \ {p} : ~Running(q)'
  BY <1>1, GoesTo DEF Running
<1>. QED  BY <1>1, <1>2

\* E!Next, or a step that IncrEncoder does not see.
Implements == overlapped' \/ E!Next \/ UNCHANGED E!vars

LEMMA StartImplements ==
    ASSUME EncodersTypeOK, SerialInv,
           NEW p \in Procs, NEW d \in Disks, NEW r \in ReadIns, StartRun(p, d, r)
    PROVE  SerialInv' /\ Implements
<1>1. PICK i0 \in InitValues : Goes(p, Fresh(d, r, i0))
  BY DEF StartRun, Fresh
<1>2. At(p, "idle") /\ Fresh(d, r, i0).pc \in {"load", "encode"}
  BY DEF StartRun, Fresh, E!LoopHead
<1>3. SerialInv'
  BY <1>1, <1>2, SerialInvAfter
<1>4. ASSUME ~overlapped' PROVE E!Next
  <2>1. Seen.pc = "idle" /\ last' = p
    BY <1>2, <1>4, SerialStep
  <2>2. Seen' = Fresh(d, r, i0)
    BY <1>1, <1>2, <2>1, SeenAfter
  <2>3. E!Start(d, r)
    BY <2>1, <2>2 DEF E!Start, StartRun, Fresh, E!files, pfiles, E!Rows, E!locals
  <2>. QED  BY <2>3 DEF E!Next
<1>. QED  BY <1>3, <1>4 DEF Implements

LEMMA LoadImplements ==
    ASSUME EncodersTypeOK, SerialInv, NEW p \in Procs, Load(p)
    PROVE  SerialInv' /\ Implements
<1> DEFINE l == proc[p]
           at == Len(stage[l.row]) + 1
<1>1. At(p, "load") /\ UNCHANGED <<kfile, mfile, stage, meta, runs, crashes>>
  BY DEF Load, pfiles, Counters
<1>2. l \in Locals /\ FilesOK /\ l.pc = "load"
  BY <1>1, RunningLocals DEF EncodersTypeOK, At
<1>3. CASE at > Len(mfile[l.row])
  <2>1. Goes(p, Placed(l, "idle"))
    BY <1>3, LoadGoes DEF Placed
  <2>2. LET a == Placed(l, "idle") IN
        /\ a.pc = "idle" /\ a.n = l.n
        /\ a.disk_no = l.disk_no /\ a.row = l.row /\ a.readins = l.readins
        /\ a.init = l.init /\ a.coding = l.coding
    BY <1>2, PlacedIsLocals DEF Places
  <2>3. SerialInv'
    BY <1>1, <2>1, <2>2, SerialInvAfter
  <2>4. ASSUME ~overlapped' PROVE E!Next
    <3>1. Seen = l /\ Seen' = Placed(l, "idle")
      BY <1>1, <2>1, <2>2, <2>4, SerialStep, SeenAfter
    <3>2. ~E!Loadable(Seen.row)
      BY <1>3, <3>1, LoadGoes DEF E!Loadable, E!Offset
    <3>3. E!LoadFails
      BY <1>1, <1>2, <2>2, <3>1, <3>2 DEF E!LoadFails, E!files, E!locals
    <3>. QED  BY <3>3 DEF E!Next, E!EncoderStep
  <2>. QED  BY <2>3, <2>4 DEF Implements
<1>4. CASE ~(at > Len(mfile[l.row]))
  <2> DEFINE b == Loaded(l, at)
             a == After(b, "load", "encode")
  <2>1. at \in 1..Len(mfile[l.row]) /\ Goes(p, a)
    BY <1>4, LoadGoes
  <2>2. /\ b \in Locals
        /\ b.disk_no = l.disk_no /\ b.row = l.row
        /\ b.readins = l.readins /\ b.n = l.n /\ b.init = 1
        /\ b.coding = [l.coding EXCEPT ![l.row] = mfile[l.row][at]]
    BY <1>2, <2>1, LoadedIsLocals
  <2>3. /\ a.disk_no = l.disk_no /\ a.readins = l.readins /\ a.n = l.n
        /\ a.init = 1 /\ a.coding = [l.coding EXCEPT ![l.row] = mfile[l.row][at]]
        /\ IF l.row < M THEN a.row = l.row + 1 /\ a.pc = "load"
                        ELSE a.row = 1 /\ a.pc = "encode"
    <3> HIDE DEF b
    <3>. QED  BY <2>2, AfterFields
  <2> HIDE DEF a, b
  <2>4. SerialInv'
    BY <1>1, <2>1, <2>3, SerialInvAfter
  <2>5. ASSUME ~overlapped' PROVE E!Next
    <3>1. Seen = l /\ Seen' = a
      BY <1>1, <2>1, <2>3, <2>5, SerialStep, SeenAfter
    <3>2. E!Loadable(Seen.row)
      BY <2>1, <3>1, LoadGoes DEF E!Loadable, E!Offset
    <3>3. E!LoadRow
      BY <1>1, <1>2, <2>3, <3>1, <3>2
      DEF E!LoadRow, E!NextRow, E!Offset, E!files
    <3>. QED  BY <3>3 DEF E!Next, E!EncoderStep
  <2>. QED  BY <2>4, <2>5 DEF Implements
<1>. QED  BY <1>3, <1>4

LEMMA EncodeImplements ==
    ASSUME EncodersTypeOK, SerialInv, NEW p \in Procs, EncodeAndAppendK(p)
    PROVE  SerialInv' /\ Implements
<1> DEFINE l == proc[p]
           a == Filled(l)
<1>1. /\ At(p, "encode") /\ UNCHANGED <<mfile, stage, meta, runs, crashes>>
      /\ kfile' = [kfile EXCEPT ![l.disk_no] = Append(@, E!InputBlock(l.disk_no, l.n))]
      /\ Goes(p, a)
  BY DEF EncodeAndAppendK, Counters, Filled
<1>2. /\ l.pc = "encode" /\ l.disk_no \in Disks
      /\ a.disk_no = l.disk_no /\ a.row = l.row /\ a.readins = l.readins
      /\ a.n = l.n /\ a.init = l.init /\ a.pc = "parity"
      /\ a.coding = [i \in 1..M |-> E!Encoded(l.coding[i], l.disk_no, l.n, l.init)]
  BY <1>1, RunningLocals, FilledIsLocals DEF At
<1> HIDE DEF a
<1>3. SerialInv'
  BY <1>1, <1>2, SerialInvAfter
<1>4. ASSUME ~overlapped' PROVE E!Next
  <2>1. Seen = l /\ Seen' = a
    BY <1>1, <1>2, <1>4, SerialStep, SeenAfter
  <2>2. E!EncodeAppendK
    BY <1>1, <1>2, <2>1 DEF E!EncodeAppendK, E!Rows
  <2>. QED  BY <2>2 DEF E!Next, E!EncoderStep
<1>. QED  BY <1>3, <1>4 DEF Implements

LEMMA ParityImplements ==
    ASSUME EncodersTypeOK, SerialInv, NEW p \in Procs, AppendToParity(p)
    PROVE  SerialInv' /\ Implements
<1> DEFINE l == proc[p]
           a == After(l, "parity", "meta")
<1>1. /\ At(p, "parity") /\ l.disk_no = 1
      /\ UNCHANGED <<kfile, stage, meta, runs, crashes>>
      /\ mfile' = [mfile EXCEPT ![l.row] = Append(@, l.coding[l.row])]
      /\ Goes(p, a)
  BY DEF AppendToParity, Counters
<1>2. /\ l.pc = "parity"
      /\ a.disk_no = l.disk_no /\ a.readins = l.readins /\ a.n = l.n
      /\ a.init = l.init /\ a.coding = l.coding
      /\ IF l.row < M THEN a.row = l.row + 1 /\ a.pc = "parity"
                      ELSE a.row = 1 /\ a.pc = "meta"
  BY <1>1, RunningLocals, AfterFields DEF At
<1> HIDE DEF a
<1>3. SerialInv'
  BY <1>1, <1>2, SerialInvAfter
<1>4. ASSUME ~overlapped' PROVE E!Next
  <2>1. Seen = l /\ Seen' = a
    BY <1>1, <1>2, <1>4, SerialStep, SeenAfter
  <2>2. E!AppendParity
    BY <1>1, <1>2, <2>1 DEF E!AppendParity, E!NextRow
  <2>. QED  BY <2>2 DEF E!Next, E!EncoderStep
<1>. QED  BY <1>3, <1>4 DEF Implements

\* The append to a staging file is where IncrEncoder decides.
LEMMA AppendStageImplements ==
    ASSUME EncodersTypeOK, SerialInv, NEW p \in Procs, AppendToStage(p)
    PROVE  SerialInv' /\ Implements
<1> DEFINE l == proc[p]
           a == Placed(l, "stat")
<1>1. /\ At(p, "parity") /\ l.disk_no > 1
      /\ UNCHANGED <<kfile, mfile, meta, runs, crashes>>
      /\ stage' = [stage EXCEPT ![l.row] = Append(@, l.coding[l.row])]
      /\ Goes(p, a)
  BY DEF AppendToStage, Counters, Placed
<1>2. l \in Locals /\ l.row \in Rows /\ l.pc = "parity" /\ FilesOK
  BY <1>1, RunningLocals DEF At, EncodersTypeOK
<1>3. /\ a \in Locals /\ a.pc = "stat"
      /\ a.disk_no = l.disk_no /\ a.readins = l.readins /\ a.n = l.n
      /\ a.row = l.row /\ a.init = l.init /\ a.coding = l.coding
  BY <1>2, PlacedIsLocals DEF Places
<1>4. /\ stage'[l.row] # <<>>
      /\ Len(stage'[l.row]) = Len(stage[l.row]) + 1
  <2>1. stage[l.row] \in Seq(Block) /\ l.coding[l.row] \in Block
    BY <1>2 DEF FilesOK, Locals
  <2>2. stage'[l.row] = Append(stage[l.row], l.coding[l.row])
    BY <1>1, <1>2 DEF FilesOK
  <2>. QED  BY <2>1, <2>2, AppendedFile
<1> HIDE DEF a
<1>5. SerialInv'
  BY <1>1, <1>3, <1>4, SerialInvAfter
<1>6. ASSUME ~overlapped' PROVE E!Next
  <2>1. Seen = l /\ last' = p /\ proc'[p] = a
    BY <1>1, <1>6, SerialStep, GoesTo
  <2>2. Seen' = IF Len(stage'[l.row]) = 2 THEN [a EXCEPT !.pc = "rename"]
                ELSE IF l.row < M THEN [a EXCEPT !.pc = "parity", !.row = @ + 1]
                ELSE [a EXCEPT !.pc = "meta", !.row = 1]
    BY <1>3, <2>1 DEF Seen, AsSeen, Decided
  <2>3. /\ Seen'.disk_no = l.disk_no /\ Seen'.readins = l.readins /\ Seen'.n = l.n
        /\ Seen'.init = l.init /\ Seen'.coding = l.coding
        /\ IF Len(stage[l.row]) + 1 = 2 THEN Seen'.row = l.row /\ Seen'.pc = "rename"
           ELSE IF l.row < M THEN Seen'.row = l.row + 1 /\ Seen'.pc = "parity"
           ELSE Seen'.row = 1 /\ Seen'.pc = "meta"
    <3>1. CASE Len(stage'[l.row]) = 2
      BY <1>3, <1>4, <2>2, <3>1 DEF Locals
    <3>2. CASE Len(stage'[l.row]) # 2 /\ l.row < M
      BY <1>3, <1>4, <2>2, <3>2 DEF Locals
    <3>3. CASE Len(stage'[l.row]) # 2 /\ ~(l.row < M)
      BY <1>3, <1>4, <2>2, <3>3 DEF Locals
    <3>. QED  BY <3>1, <3>2, <3>3
  <2>4. E!AppendStage
    BY <1>1, <1>2, <2>1, <2>3 DEF E!AppendStage, E!NextRow, E!FullStage
  <2>. QED  BY <2>4 DEF E!Next, E!EncoderStep
<1>. QED  BY <1>5, <1>6 DEF Implements

\* The stat that follows is a stutter: with nobody else running the size is
\* what the append made it.
LEMMA StatImplements ==
    ASSUME EncodersTypeOK, SerialInv, NEW p \in Procs, StatStage(p)
    PROVE  SerialInv' /\ Implements
<1> DEFINE l == proc[p]
           t == Told(l)
           a == IF t.st_size = 2 THEN Placed(t, "rename") ELSE After(t, "parity", "meta")
<1>1. /\ At(p, "stat")
      /\ UNCHANGED <<kfile, mfile, stage, meta, runs, crashes>>
      /\ Goes(p, a)
  BY DEF StatStage, Counters, pfiles, Told, Placed, E!FullStage
<1>2. l \in Locals /\ l.row \in Rows /\ l.pc = "stat" /\ FilesOK
  BY <1>1, RunningLocals DEF At, EncodersTypeOK
<1>3. /\ t \in Locals /\ t.st_size = StatSize(l)
      /\ t.disk_no = l.disk_no /\ t.readins = l.readins /\ t.n = l.n
      /\ t.row = l.row /\ t.init = l.init /\ t.coding = l.coding
  BY <1>2, ToldIsLocals
<1> HIDE DEF t
<1>4. /\ a.disk_no = l.disk_no /\ a.readins = l.readins /\ a.n = l.n
      /\ a.init = l.init /\ a.coding = l.coding
      /\ IF t.st_size = 2 THEN a.row = l.row /\ a.pc = "rename"
         ELSE IF l.row < M THEN a.row = l.row + 1 /\ a.pc = "parity"
         ELSE a.row = 1 /\ a.pc = "meta"
  <2>1. CASE t.st_size = 2
    BY <1>3, <2>1, PlacedIsLocals DEF Places
  <2>2. CASE t.st_size # 2
    BY <1>3, <2>2, AfterFields
  <2>. QED  BY <2>1, <2>2
<1> HIDE DEF a
<1>5. ASSUME ~overlapped' PROVE Seen = AsSeen(l) /\ last = p /\ stage[l.row] # <<>>
  <2>1. Seen = AsSeen(l) /\ last = p /\ ~overlapped
    BY <1>1, <1>5, SerialStep
  <2>. QED  BY <1>2, <2>1 DEF SerialInv
<1>6. SerialInv'
  BY <1>1, <1>4, <1>5, SerialInvAfter
<1>7. ASSUME ~overlapped' PROVE UNCHANGED E!vars
  <2>1. t.st_size = Len(stage[l.row])
    BY <1>3, <1>5, <1>7 DEF StatSize
  <2>2. Seen' = a
    BY <1>1, <1>4, <1>7, SerialStep, SeenAfter
  <2>3. LET s == AsSeen(l) IN
        /\ s.disk_no = a.disk_no /\ s.readins = a.readins /\ s.n = a.n
        /\ s.init = a.init /\ s.coding = a.coding /\ s.row = a.row /\ s.pc = a.pc
    BY <1>2, <1>4, <2>1, AsSeenFields
  <2>. QED  BY <1>1, <1>5, <1>7, <2>2, <2>3 DEF E!vars, E!files, E!locals
<1>. QED  BY <1>6, <1>7 DEF Implements

LEMMA RenameImplements ==
    ASSUME EncodersTypeOK, SerialInv, NEW p \in Procs, RenameStage(p)
    PROVE  SerialInv' /\ Implements
<1> DEFINE l == proc[p]
           a == After(l, "parity", "meta")
<1>1. At(p, "rename") /\ UNCHANGED <<kfile, meta, runs, crashes>> /\ Goes(p, a)
  BY DEF RenameStage, Counters
<1>2. /\ l.pc = "rename" /\ l.row \in Rows
      /\ a.disk_no = l.disk_no /\ a.readins = l.readins /\ a.n = l.n
      /\ a.init = l.init /\ a.coding = l.coding
      /\ IF l.row < M THEN a.row = l.row + 1 /\ a.pc = "parity"
                      ELSE a.row = 1 /\ a.pc = "meta"
  BY <1>1, RunningLocals, AfterFields DEF At
<1> HIDE DEF a
<1>3. SerialInv'
  BY <1>1, <1>2, SerialInvAfter
<1>4. ASSUME ~overlapped' PROVE E!Next
  <2>1. Seen = l /\ Seen' = a /\ last = p /\ ~overlapped
    BY <1>1, <1>2, <1>4, SerialStep, SeenAfter
  <2>2. stage[l.row] # <<>>
    BY <1>2, <2>1 DEF SerialInv
  <2>3. /\ mfile' = [mfile EXCEPT ![l.row] = stage[l.row]]
        /\ stage' = [stage EXCEPT ![l.row] = <<>>]
    BY <2>2 DEF RenameStage
  <2>4. E!RenameStage
    BY <1>1, <1>2, <2>1, <2>3 DEF E!RenameStage, E!NextRow
  <2>. QED  BY <2>4 DEF E!Next, E!EncoderStep
<1>. QED  BY <1>3, <1>4 DEF Implements

LEMMA MetaImplements ==
    ASSUME EncodersTypeOK, SerialInv, NEW p \in Procs, AppendMeta(p)
    PROVE  SerialInv' /\ Implements
<1> DEFINE l == proc[p]
           place == IF l.n < l.readins THEN E!LoopHead(l.disk_no) ELSE "idle"
           a == NextReadIn(l, place)
<1>1. /\ At(p, "meta") /\ UNCHANGED <<kfile, mfile, stage, runs, crashes>>
      /\ meta' = [meta EXCEPT ![l.disk_no] = @ + 1]
      /\ Goes(p, a)
  BY DEF AppendMeta, Counters, NextReadIn
<1>2. l \in Locals /\ l.pc = "meta" /\ place \in Places /\ place \notin {"stat", "rename"}
  BY <1>1, RunningLocals DEF At, E!LoopHead, Places
<1>3. /\ a.pc = place /\ a.n = l.n + 1
      /\ a.disk_no = l.disk_no /\ a.row = l.row /\ a.readins = l.readins
      /\ a.init = l.init /\ a.coding = l.coding
  BY <1>2, NextReadInIsLocals
<1> HIDE DEF a
<1>4. SerialInv'
  BY <1>1, <1>2, <1>3, SerialInvAfter
<1>5. ASSUME ~overlapped' PROVE E!Next
  <2>1. Seen = l /\ Seen' = a
    BY <1>1, <1>2, <1>3, <1>5, SerialStep, SeenAfter
  <2>2. E!WriteMeta
    BY <1>1, <1>2, <1>3, <2>1 DEF E!WriteMeta
  <2>. QED  BY <2>2 DEF E!Next, E!EncoderStep
<1>. QED  BY <1>4, <1>5 DEF Implements

LEMMA KillImplements ==
    ASSUME EncodersTypeOK, SerialInv, NEW p \in Procs, KillProcess(p)
    PROVE  SerialInv' /\ Implements
<1> DEFINE l == proc[p]
           s == AsSeen(l)
           a == Placed(s, "idle")
<1>1. /\ At(p, l.pc) /\ l.pc # "idle" /\ Goes(p, a)
      /\ crashes < MaxCrashes /\ crashes' = crashes + 1
      /\ UNCHANGED <<kfile, mfile, stage, meta, runs>>
  BY DEF KillProcess, pfiles, Placed, Running
<1>2. l \in Locals
  BY DEF EncodersTypeOK
<1>3. s \in Locals /\ s.pc # "idle"
  BY <1>1, <1>2, AsSeenFields
<1>4. /\ a.pc = "idle" /\ a.n = s.n
      /\ a.disk_no = s.disk_no /\ a.row = s.row /\ a.readins = s.readins
      /\ a.init = s.init /\ a.coding = s.coding
  BY <1>3, PlacedIsLocals DEF Places
<1> HIDE DEF a
<1>5. SerialInv'
  BY <1>1, <1>4, SerialInvAfter
<1>6. ASSUME ~overlapped' PROVE E!Next
  <2>1. Seen = s /\ Seen' = a
    BY <1>1, <1>4, <1>6, SerialStep, SeenAfter
  <2>2. E!Crash
    BY <1>1, <1>3, <1>4, <2>1 DEF E!Crash, E!files, E!locals
  <2>. QED  BY <2>2 DEF E!Next
<1>. QED  BY <1>5, <1>6 DEF Implements

LEMMA InitSerial == EncodersInit => SerialInv
<1> SUFFICES ASSUME EncodersInit PROVE SerialInv
  OBVIOUS
<1>1. \A p \in Procs : proc[p].pc = "idle"
  BY DEF EncodersInit
<1>. QED  BY <1>1 DEF EncodersInit, SerialInv, Running

LEMMA StepSerial ==
    EncodersTypeOK /\ SerialInv /\ [EncodersNext]_evars =>
        SerialInv' /\ Implements
<1> SUFFICES ASSUME EncodersTypeOK, SerialInv, [EncodersNext]_evars
             PROVE  SerialInv' /\ Implements
  OBVIOUS
<1>1. CASE EncodersNext
  BY <1>1, StartImplements, LoadImplements, EncodeImplements, ParityImplements,
     AppendStageImplements, StatImplements, RenameImplements, MetaImplements,
     KillImplements DEF EncodersNext, ProcessStep
<1>2. CASE UNCHANGED evars
  BY <1>2 DEF SerialInv, Running, Implements, E!vars, E!files, E!locals, Seen, AsSeen,
              Decided, evars, pfiles
<1>. QED  BY <1>1, <1>2

\* As long as no run overlaps another, every step of any process is a step of
\* IncrEncoder or one that it does not see, with kills and retries at any
\* point: what is proved of the single encoder holds of them.
THEOREM SerialRunsImplementHolds == EncodersSpec => SerialRunsImplement
<1>1. Implements => [proc' # proc => overlapped' \/ E!Next \/ UNCHANGED E!vars]_evars
  BY DEF Implements
<1>. QED
  BY <1>1, InitSerial, StepSerial, TypeCorrect, PTL DEF EncodersSpec, SerialRunsImplement

-----------------------------------------------------------------------------
(***************************************************************************)
(* The whole system.  The latest run, as the model of one run sees it: what *)
(* is proved of a store that one process works on holds here of a store    *)
(* whose runs do not overlap.                                              *)
(***************************************************************************)
P == INSTANCE IncrEncoder_proofs WITH
        pc <- Seen.pc, disk_no <- Seen.disk_no, readins <- Seen.readins,
        n <- Seen.n, row <- Seen.row, init <- Seen.init, coding <- Seen.coding

LEMMA SameStart ==
    ASSUME NEW d, NEW r PROVE E!Start(d, r) <=> P!Start(d, r)
BY DEF E!Start, P!Start, E!LoopHead, P!LoopHead, E!files, P!files, E!Junk, P!Junk, E!Rows, P!Rows

LEMMA SameNext == E!Next <=> P!Next
<1>1. E!LoadRow <=> P!LoadRow
  BY DEF E!LoadRow, P!LoadRow, E!Loadable, P!Loadable, E!Offset, P!Offset, E!NextRow, P!NextRow, E!files, P!files
<1>2. E!LoadFails <=> P!LoadFails
  BY DEF E!LoadFails, P!LoadFails, E!Loadable, P!Loadable, E!Offset, P!Offset, E!files, P!files, E!locals, P!locals
<1>3. E!EncodeAppendK <=> P!EncodeAppendK
  BY DEF E!EncodeAppendK, P!EncodeAppendK, E!Encoded, P!Encoded, E!InputBlock, P!InputBlock, E!Xor, P!Xor, E!Rows, P!Rows
<1>4. E!AppendParity <=> P!AppendParity
  BY DEF E!AppendParity, P!AppendParity, E!NextRow, P!NextRow
<1>5. E!AppendStage <=> P!AppendStage
  BY DEF E!AppendStage, P!AppendStage, E!NextRow, P!NextRow, E!FullStage, P!FullStage
<1>6. E!RenameStage <=> P!RenameStage
  BY DEF E!RenameStage, P!RenameStage, E!NextRow, P!NextRow
<1>7. E!WriteMeta <=> P!WriteMeta
  BY DEF E!WriteMeta, P!WriteMeta, E!LoopHead, P!LoopHead
<1>8. E!Crash <=> P!Crash
  BY DEF E!Crash, P!Crash, E!files, P!files, E!locals, P!locals
<1>. QED BY <1>1, <1>2, <1>3, <1>4, <1>5, <1>6, <1>7, <1>8, SameStart DEF E!Next, P!Next, E!EncoderStep, P!EncoderStep

-----------------------------------------------------------------------------
\* The steps of the system, as the encoders see them.
LEMMA SystemSteps ==
    ASSUME [SysNext]_sysvars
    PROVE  \/ EncodersNext /\ UNCHANGED <<dvars, env>> /\ (Exclusive => dpc = "idle")
           \/ UNCHANGED evars
           \/ \E i \in Rows : Lose(i)
BY DEF SysNext, Encode, BeginDecode, Decode, sysvars, Rows

LEMMA LoseTypes ==
    ASSUME EncodersTypeOK, NEW i \in Rows, Lose(i)
    PROVE  /\ EncodersTypeOK' /\ UNCHANGED <<kfile, stage, meta, proc, last, overlapped>>
           /\ mfile'[i] = <<>> /\ \A j \in Rows \ {i} : mfile'[j] = mfile[j]
<1>1. /\ mfile' = [mfile EXCEPT ![i] = <<>>]
      /\ UNCHANGED <<kfile, stage, meta, runs, crashes, proc, last, overlapped>>
  BY DEF Lose
<1>2. mfile' \in [Rows -> Seq(Block)]
  BY <1>1 DEF EncodersTypeOK, FilesOK
<1>3. EncodersTypeOK'
  BY <1>1, <1>2 DEF EncodersTypeOK, FilesOK, Running
<1>. QED  BY <1>1, <1>3 DEF EncodersTypeOK, FilesOK

LEMMA SystemTypesStep == EncodersTypeOK /\ [SysNext]_sysvars => EncodersTypeOK'
BY SystemSteps, StepTypes, LoseTypes

\* The types of the encoders, with the decoder at work and files that get lost.
THEOREM SystemTypes == SysSpec => []EncodersTypeOK
<1>1. SysInit => EncodersTypeOK
  BY InitTypes DEF SysInit
<1>. QED  BY <1>1, SystemTypesStep, PTL DEF SysSpec

LEMMA SystemBackedStep == EncodersTypeOK /\ KInv /\ [SysNext]_sysvars => KInv'
<1> SUFFICES ASSUME EncodersTypeOK, KInv, [SysNext]_sysvars PROVE KInv'
  OBVIOUS
<1>1. CASE EncodersNext \/ UNCHANGED evars
  BY <1>1, StepBacked
<1>2. ASSUME NEW i \in Rows, Lose(i) PROVE KInv'
  BY <1>2, LoseTypes DEF KInv, BackedFiles, BackedBuffers, Backed
<1>. QED  BY <1>1, <1>2, SystemSteps

\* With parity files that get lost and the decoder at work, too, no parity refers
\* to a disk without data.
THEOREM SystemKBeforeAnyParity == SysSpec => []KBeforeAnyParity
<1>1. SysInit => KInv
  BY InitBacked DEF SysInit
<1>. QED  BY <1>1, SystemTypes, SystemBackedStep, KInvImplies, PTL DEF SysSpec

LEMMA LoseSerial ==
    ASSUME EncodersTypeOK, SerialInv, NEW i \in Rows, Lose(i)
    PROVE  SerialInv' /\ proc' = proc /\ NoEncoder
BY LoseTypes DEF SerialInv, Running, Lose, EncodersTypeOK

LEMMA SystemSerialStep ==
    EncodersTypeOK /\ SerialInv /\ [SysNext]_sysvars =>
        SerialInv' /\ (proc' # proc => Implements)
<1> SUFFICES ASSUME EncodersTypeOK, SerialInv, [SysNext]_sysvars
             PROVE  SerialInv' /\ (proc' # proc => Implements)
  OBVIOUS
<1>1. CASE EncodersNext \/ UNCHANGED evars
  BY <1>1, StepSerial
<1>2. ASSUME NEW i \in Rows, Lose(i) PROVE SerialInv' /\ proc' = proc
  BY <1>2, LoseSerial
<1>. QED  BY <1>1, <1>2, SystemSteps

\* In the whole system, too, only the process that ran last is running until
\* runs overlap, and what it has staged is there.
THEOREM SystemSerialInvariant == SysSpec => []SerialInv
<1>1. SysInit => SerialInv
  BY InitSerial DEF SysInit
<1>. QED  BY <1>1, SystemTypes, SystemSerialStep, PTL DEF SysSpec

\* The encoder steps of the system are those of IncrEncoder as long as no run
\* overlaps another, whatever parity files were lost before.
THEOREM SystemSerialRuns == SysSpec => SerialRunsImplement
<1>1. (proc' # proc => Implements) =>
         [proc' # proc => overlapped' \/ E!Next \/ UNCHANGED E!vars]_evars
  BY DEF Implements
<1>. QED
  BY <1>1, SystemTypes, SystemSerialInvariant, SystemSerialStep, PTL
  DEF SysSpec, SerialRunsImplement

-----------------------------------------------------------------------------
\* A disk is added once, by a run of two read-ins that finds init zero.
PlainUse == InitValues = {0} /\ ReadIns = {2} /\ ~Retry

Undisturbed == ~overlapped /\ crashes = 0
StoreInv == Undisturbed => P!SInv

LEMMA SeenTypes ==
    ASSUME EncodersTypeOK, SerialInv
    PROVE  P!TypeOK
<1>1. proc[last] \in Locals /\ FilesOK
  BY DEF EncodersTypeOK
<1>2. Seen \in Locals /\ Seen.disk_no = proc[last].disk_no
  BY <1>1, AsSeenFields DEF Seen
<1>3. Seen.pc # "stat"
  BY <1>1, AsSeenFields DEF Seen
<1>4. Seen.pc # "idle" => proc[last].pc # "idle"
  BY <1>1, AsSeenFields DEF Seen
<1>5. Seen.pc # "idle" => Seen.disk_no \in Disks
  BY <1>2, <1>4 DEF EncodersTypeOK, Running
<1>6. Block = P!Block /\ Rows = P!Rows
  BY DEF Block, E!Block, P!Block, E!Term, P!Term, E!Junk, P!Junk, Rows, P!Rows
<1>7. /\ Seen.pc \in {"idle", "load", "encode", "parity", "rename", "meta"}
      /\ Seen.disk_no \in Nat \ {0} /\ Seen.readins \in Nat \ {0} /\ Seen.n \in Nat \ {0}
      /\ Seen.row \in Rows /\ Seen.init \in {0, 1} /\ Seen.coding \in [Rows -> Block]
  BY <1>2, <1>3 DEF Locals
<1>. QED  BY <1>1, <1>5, <1>6, <1>7 DEF P!TypeOK, FilesOK, EncodersTypeOK

LEMMA SeenInit == EncodersInit => StoreInv
<1> SUFFICES ASSUME EncodersInit PROVE P!SInv
  BY DEF StoreInv
<1>1. proc[last].pc = "idle" /\ Seen = proc[last]
  BY DEF EncodersInit, Seen, AsSeen
<1>. QED
  BY <1>1 DEF EncodersInit, P!SInv, P!KInvariant, P!Idle, P!AtRest, P!Stored, P!Rows

LEMMA StoreStep ==
    ASSUME PlainUse, EncodersTypeOK, SerialInv, StoreInv, EncodersNext
    PROVE  StoreInv'
<1> SUFFICES ASSUME Undisturbed' PROVE P!SInv'
  BY DEF StoreInv
<1>1. crashes' = crashes /\ crashes = 0
  BY DEF Undisturbed, EncodersTypeOK, EncodersNext, StartRun, ProcessStep, Load,
     EncodeAndAppendK, AppendToParity, AppendToStage, StatStage, RenameStage, AppendMeta,
     KillProcess, Counters
<1>2. ~overlapped
  BY DEF Undisturbed, EncodersNext, StartRun, ProcessStep, Load, At, EncodersTypeOK,
     EncodeAndAppendK, AppendToParity, AppendToStage, StatStage, RenameStage, AppendMeta,
     KillProcess
<1>3. P!SInv
  BY <1>1, <1>2 DEF StoreInv, Undisturbed
<1>4. E!Next \/ UNCHANGED E!vars
  BY StepSerial DEF Implements, Undisturbed
<1>5. P!Next \/ UNCHANGED P!vars
  BY <1>4, SameNext DEF E!vars, P!vars, E!files, P!files, E!locals, P!locals
<1>6. P!PlainRuns
  BY DEF PlainUse, P!PlainRuns
<1>7. P!TypeOK
  BY SeenTypes
<1>. QED  BY <1>1, <1>3, <1>5, <1>6, <1>7, ProcessesAssumption, P!PlainStep

LEMMA StoreStays ==
    ASSUME EncodersTypeOK, StoreInv, UNCHANGED evars
    PROVE  StoreInv'
<1>1. /\ Seen' = Seen
      /\ UNCHANGED <<kfile, mfile, stage, overlapped, crashes>>
  BY DEF evars, pfiles, Seen, AsSeen, Decided
<1>2. P!Stored' = P!Stored /\ P!Old' = P!Old /\ P!New' = P!New
  BY <1>1 DEF P!Stored, P!Old, P!New
<1>3. (P!KInvariant <=> P!KInvariant') /\ (P!Idle <=> P!Idle') /\ (P!Running <=> P!Running')
  BY <1>1, <1>2 DEF P!KInvariant, P!Idle, P!AtRest, P!Running, P!Holds, P!Rows
<1>4. \A i : P!Past(i)' <=> P!Past(i)
  BY <1>1 DEF P!Past
<1>5. (P!First <=> P!First') /\ (P!Looking <=> P!Looking')
  BY <1>1, <1>2, <1>4 DEF P!First, P!Looking, P!AtRest, P!Holds, P!Rows
<1>6. P!Later <=> P!Later'
  BY <1>1, <1>2, <1>4 DEF P!Later, P!Holds, P!Rows
<1>. QED  BY <1>1, <1>3, <1>5, <1>6 DEF StoreInv, Undisturbed, P!SInv

LEMMA StoreLoses ==
    ASSUME EncodersTypeOK, StoreInv, NEW i \in Rows, Lose(i)
    PROVE  StoreInv'
<1> SUFFICES ASSUME Undisturbed' PROVE P!SInv'
  BY DEF StoreInv
<1>1. /\ UNCHANGED <<kfile, stage, proc, last, overlapped, crashes>>
      /\ mfile'[i] = <<>> /\ \A j \in Rows \ {i} : mfile'[j] = mfile[j]
  BY LoseTypes DEF Lose
<1>2. P!SInv
  BY <1>1 DEF StoreInv, Undisturbed
<1>3. Seen.pc = "idle" /\ Seen' = Seen
  BY <1>1 DEF Lose, NoEncoder, Running, Seen, AsSeen, EncodersTypeOK
<1>4. P!Stored' = P!Stored /\ P!Old' = P!Old
  BY <1>1, <1>3 DEF P!Stored, P!Old
<1>5. P!KInvariant'
  BY <1>1, <1>2, <1>3, <1>4 DEF P!SInv, P!KInvariant, P!Holds
<1>6. ASSUME NEW j \in P!Rows PROVE P!AtRest(j)'
  BY <1>1, <1>2, <1>3, <1>4 DEF P!SInv, P!Idle, P!AtRest, P!Holds, P!Rows, Rows
<1>. QED  BY <1>3, <1>5, <1>6 DEF P!SInv, P!Idle

LEMMA SystemStoreStep ==
    PlainUse /\ EncodersTypeOK /\ SerialInv /\ StoreInv /\ [SysNext]_sysvars => StoreInv'
BY SystemSteps, StoreStep, StoreStays, StoreLoses

-----------------------------------------------------------------------------
(***************************************************************************)
(* The decoder.  While it runs the store is at rest; it collects the sum   *)
(* of the stored disks from each parity file that is there, and with two   *)
(* of them it finds the blocks of disks 1 and 2.                           *)
(***************************************************************************)
StoredDisks == {d \in Disks : kfile[d] # <<>>}
Sum == {<<d, 1>> : d \in StoredDisks}
There == {i \in Rows : mfile[i] # <<>>}
OnlyLost == \A d \in Disks \ {1, 2} : kfile[d] = <<>>

TwoOf(file, block) == Len(file) = 2 /\ file[1] = block /\ file[2] = block
AtRest ==
    /\ \A i \in There : TwoOf(mfile[i], Sum)
    /\ \A d \in StoredDisks : TwoOf(kfile[d], {<<d, 1>>})

LEMMA IdleIsAtRest ==
    ASSUME EncodersTypeOK, SerialInv, StoreInv, Undisturbed, NoEncoder
    PROVE  AtRest
<1>1. P!SInv /\ Seen.pc = "idle"
  BY DEF StoreInv, NoEncoder, Running, Seen, AsSeen, EncodersTypeOK
<1>2. P!Stored = StoredDisks
  BY <1>1 DEF P!Stored, StoredDisks
<1>3. P!Old = Sum
  BY <1>2 DEF P!Old, Sum
<1>4. \A i \in There : P!Holds(mfile[i], 2, Sum)
  BY <1>1, <1>3 DEF P!SInv, P!Idle, P!AtRest, There, Rows, P!Rows
<1>5. \A d \in StoredDisks : P!Holds(kfile[d], 2, {<<d, 1>>})
  BY <1>1, <1>2 DEF P!SInv, P!KInvariant
<1>6. ASSUME NEW file, NEW block, P!Holds(file, 2, block) PROVE TwoOf(file, block)
  BY <1>6 DEF P!Holds, TwoOf
<1>. QED  BY <1>4, <1>5, <1>6 DEF AtRest

\* Two parity files are always enough to solve for two disks, with k = 10.
LEMMA RowsDiffer ==
    ASSUME K = 10, NEW p \in Rows, NEW q \in Rows, p # q
    PROVE  D!Regular(p, q)
<1>1. M \in 1..3
  BY SystemAssumption
<1>2. \A i \in Rows : i \in {1, 2, 3}
  BY <1>1 DEF Rows
<1>3. /\ D!FlatMatrix[2] = 1 /\ D!FlatMatrix[12] = 147 /\ D!FlatMatrix[22] = 220
  BY DEF D!FlatMatrix
<1>4. /\ D!Coefficient(1, 2) = 1 /\ D!Coefficient(2, 2) = 147 /\ D!Coefficient(3, 2) = 220
  BY <1>3 DEF D!Coefficient
<1>5. D!Coefficient(p, 2) # D!Coefficient(q, 2)
  BY <1>2, <1>4
<1>. QED  BY <1>5 DEF D!Regular

LEMMA RowsFinite ==
    ASSUME NEW S \in SUBSET Rows
    PROVE  IsFiniteSet(S) /\ Cardinality(S) \in Nat
<1>1. IsFiniteSet(Rows)
  BY ProcessesAssumption, FS_Interval DEF Rows
<1>2. IsFiniteSet(S)
  BY <1>1, FS_Subset
<1>. QED  BY <1>2, FS_CardinalityType

LEMMA Pair ==
    ASSUME NEW a, NEW b, a # b
    PROVE  Cardinality({a, b}) = 2
<1>1. IsFiniteSet({a}) /\ Cardinality({a}) = 1
  BY FS_Singleton
<1>2. b \notin {a}
  OBVIOUS
<1>3. Cardinality({a} \cup {b}) = Cardinality({a}) + 1
  BY <1>1, <1>2, FS_AddElement
<1>4. {a, b} = {a} \cup {b}
  OBVIOUS
<1>. QED  BY <1>1, <1>3, <1>4

\* A set of parity files that is not empty has a first one.
LEMMA FirstRow ==
    ASSUME NEW S \in SUBSET Rows, S # {}
    PROVE  \E a \in S : \A b \in S : a <= b
<1>1. M \in 1..3
  BY SystemAssumption
<1>2. \A x \in S : x = 1 \/ x = 2 \/ x = 3
  BY <1>1 DEF Rows
<1>3. CASE 1 \in S
  BY <1>2, <1>3
<1>4. CASE 1 \notin S /\ 2 \in S
  BY <1>2, <1>4
<1>5. CASE 1 \notin S /\ 2 \notin S
  <2>1. PICK x : x \in S
    OBVIOUS
  <2>2. x = 3 /\ \A y \in S : y = 3
    BY <1>2, <1>5, <2>1
  <2>. QED  BY <2>1, <2>2
<1>. QED  BY <1>3, <1>4, <1>5

\* Cardinality as IncrDecoder's instance of FiniteSets has it.
LEMMA SameCardinality ==
    ASSUME NEW S PROVE D!Cardinality(S) = Cardinality(S)
BY DEF D!Cardinality, Cardinality

\* The first two parity files that are there are two if there are two.
LEMMA FirstTwo ==
    ASSUME lost = Rows \ There
    PROVE  /\ D!FirstIntact \subseteq There
           /\ Cardinality(D!FirstIntact) = 2 <=> Cardinality(There) >= 2
<1> DEFINE F == D!FirstIntact
           Below(i) == {j \in There : j < i}
<1>1. There \subseteq Rows /\ D!Rows \ lost = There
  BY DEF There, D!Rows, Rows
<1>2. F = {i \in There : Cardinality(Below(i)) < 2}
  <2>1. F = {i \in There : D!Cardinality(Below(i)) < 2}
    BY <1>1, Zenon DEF D!FirstIntact
  <2>. QED  BY <2>1, SameCardinality
<1> HIDE DEF F
<1>3. F \subseteq There
  BY <1>2
<1>4. ASSUME Cardinality(F) = 2 PROVE Cardinality(There) >= 2
  <2>1. IsFiniteSet(There) /\ Cardinality(There) \in Nat
    BY <1>1, RowsFinite
  <2>2. Cardinality(F) <= Cardinality(There)
    BY <1>3, <2>1, FS_Subset
  <2>. QED  BY <1>4, <2>1, <2>2
<1>5. ASSUME Cardinality(There) >= 2 PROVE Cardinality(F) = 2
  <2>1. There # {} /\ \A x : There # {x}
    <3>1. Cardinality({}) = 0 /\ \A x : Cardinality({x}) = 1
      BY FS_EmptySet, FS_Singleton
    <3>2. There # {}
      BY <1>5, <3>1
    <3>3. ASSUME NEW x, There = {x} PROVE FALSE
      <4>1. Cardinality(There) = 1
        BY <3>1, <3>3
      <4>. QED  BY <1>5, <4>1
    <3>. QED  BY <3>2, <3>3
  <2>2. PICK a \in There : \A c \in There : a <= c
    BY <1>1, <2>1, FirstRow
  <2>3. There \ {a} # {} /\ There \ {a} \in SUBSET Rows
    BY <1>1, <2>1, <2>2
  <2>4. PICK b \in There \ {a} : \A c \in There \ {a} : b <= c
    BY <2>3, FirstRow
  <2>5. There \subseteq Nat
    BY <1>1 DEF Rows
  <2>6. a # b /\ a < b
    BY <2>2, <2>4, <2>5
  <2>7. \A j \in There : ~(j < a) /\ (j < b <=> j = a)
    BY <2>2, <2>4, <2>5, <2>6
  <2>8. Below(a) = {} /\ Below(b) = {a}
    BY <2>2, <2>7
  <2>9. Cardinality(Below(a)) = 0 /\ Cardinality(Below(b)) = 1
    BY <2>8, FS_EmptySet, FS_Singleton
  <2>10. ASSUME NEW c \in There \ {a, b} PROVE c \notin F
    <3>1. a < c /\ b < c
      BY <2>2, <2>4, <2>5, <2>10
    <3>2. {a, b} \subseteq Below(c) /\ Below(c) \in SUBSET Rows
      BY <1>1, <3>1
    <3> HIDE DEF Below
    <3>3. IsFiniteSet(Below(c)) /\ Cardinality(Below(c)) \in Nat
      BY <3>2, RowsFinite
    <3>4. Cardinality({a, b}) <= Cardinality(Below(c))
      BY <3>2, <3>3, FS_Subset
    <3>5. Cardinality({a, b}) = 2
      BY <2>6, Pair
    <3>. QED  BY <1>2, <3>3, <3>4, <3>5
  <2>11. F = {a, b}
    BY <1>2, <2>2, <2>4, <2>9, <2>10
  <2>. QED  BY <2>6, <2>11, Pair
<1>. QED  BY <1>3, <1>4, <1>5 DEF F

\* Decoding is possible when two parity files are there, and only then.
LEMMA EnoughRows ==
    ASSUME K = 10, lost = Rows \ There
    PROVE  D!Decodable <=> Cardinality(There) >= 2
<1>0. D!FirstIntact \subseteq Rows
  BY FirstTwo DEF There
<1>1. \A p, q \in D!FirstIntact : p # q => D!Regular(p, q)
  BY <1>0, RowsDiffer
<1>2. Cardinality(D!FirstIntact) = 2 <=> Cardinality(There) >= 2
  BY FirstTwo
<1>3. D!Cardinality(D!FirstIntact) = Cardinality(D!FirstIntact)
  BY SameCardinality
<1>. QED  BY <1>1, <1>2, <1>3 DEF D!Decodable

LEMMA CountThere ==
    2 + Cardinality({i \in 1..M : mfile[i] = <<>>}) <= M <=> Cardinality(There) >= 2
<1> DEFINE Gone == {i \in 1..M : mfile[i] = <<>>}
<1>1. IsFiniteSet(Rows) /\ Cardinality(Rows) = M /\ M \in Nat
  BY ProcessesAssumption, FS_Interval DEF Rows
<1>2. Gone = Rows \ There /\ Rows \cap There = There
  BY DEF There, Rows
<1>3. Cardinality(Rows \ There) = Cardinality(Rows) - Cardinality(Rows \cap There)
  BY <1>1, FS_Difference
<1>4. Cardinality(There) \in Nat
  BY RowsFinite DEF There
<1>5. Cardinality(Gone) = M - Cardinality(There)
  BY <1>1, <1>2, <1>3
<1> HIDE DEF Gone
<1>6. 2 + Cardinality(Gone) <= M <=> Cardinality(There) >= 2
  BY <1>1, <1>4, <1>5
<1>. QED  BY <1>6 DEF Gone

\* What the rows that are there give for a disk when only 1 and 2 are stored.
LEMMA SolvedRight ==
    ASSUME D!FirstIntact \subseteq There, D!FirstIntact # {},
           \A j \in There : got[j] = Sum, OnlyLost, NEW d \in StoredDisks
    PROVE  D!Solution(d) = {<<d, 1>>}
<1> DEFINE F == D!FirstIntact
<1>1. (CHOOSE p \in F : TRUE) \in F
  OBVIOUS
<1>2. \A p \in F : got[p] = Sum
  OBVIOUS
<1>3. D!Common = Sum
  BY <1>1, <1>2 DEF D!Common
<1>4. \A t \in Sum : t[1] \in StoredDisks /\ t = <<t[1], 1>>
  BY DEF Sum
<1>5. StoredDisks \subseteq {1, 2}
  BY DEF OnlyLost, StoredDisks
<1>6. UNION {got[p] : p \in F} \subseteq Sum
  BY <1>2
<1>7. D!Foreign = {}
  <2>1. \A t \in Sum : t \in {u \in D!Common : u[1] \in D!LostDisks}
    BY <1>3, <1>4, <1>5 DEF D!LostDisks
  <2>. QED  BY <1>6, <2>1 DEF D!Foreign
<1>8. {t \in D!Common : t[1] = d} = {<<d, 1>>}
  <2>1. <<d, 1>> \in Sum /\ <<d, 1>>[1] = d
    BY DEF Sum
  <2>. QED  BY <1>3, <1>4, <2>1
<1>. QED  BY <1>7, <1>8 DEF D!Solution

Nothing == [d \in {1, 2} |-> <<>>]
Copies(d, c) == [b \in 1..c |-> {<<d, 1>>}]

LEMMA OneMore ==
    ASSUME NEW d, NEW c \in Nat
    PROVE  Append(Copies(d, c), {<<d, 1>>}) = Copies(d, c + 1)
<1>1. Copies(d, c) \in Seq({{<<d, 1>>}}) /\ Len(Copies(d, c)) = c
  BY DEF Copies
<1>2. Append(Copies(d, c), {<<d, 1>>}) =
        [b \in 1..(c + 1) |-> IF b = c + 1 THEN {<<d, 1>>} ELSE Copies(d, c)[b]]
  BY <1>1
<1>3. \A b \in 1..(c + 1) :
         (IF b = c + 1 THEN {<<d, 1>>} ELSE Copies(d, c)[b]) = {<<d, 1>>}
  BY DEF Copies
<1>. QED  BY <1>2, <1>3 DEF Copies

\* What it has read: a parity file that is there gives the sum.
Reading ==
    /\ dn \in 1..2 /\ drow \in Rows
    /\ dpc = "read" =>
          /\ lost = {j \in Rows : j < drow /\ mfile[j] = <<>>}
          /\ \A j \in There : j < drow => got[j] = Sum
    /\ dpc # "read" =>
          /\ lost = Rows \ There /\ drow = 1
          /\ \A j \in There : got[j] = Sum

\* What it has written: nothing with less than two parity files, and the
\* blocks of the lost disks otherwise.
Writing ==
    /\ Cardinality(There) < 2 => dpc \in {"read", "decode"} /\ decoded = Nothing
    /\ OnlyLost =>
          \A d \in StoredDisks :
             /\ dpc \in {"write1", "write2"} => solved[d] = {<<d, 1>>}
             /\ decoded[d] = Copies(d, IF dpc = "write2" /\ d = 1 THEN dn ELSE dn - 1)

DecoderInv ==
    /\ dpc \in {"idle", "read", "decode", "write1", "write2"}
    /\ DOMAIN got = Rows /\ DOMAIN decoded = {1, 2}
    /\ decodes \in {0, 1}
    /\ decodes = 0 => dpc = "idle" /\ decoded = Nothing
    /\ dpc # "idle" => NoEncoder
    /\ dpc # "idle" /\ Undisturbed => Reading /\ Writing

\* The decoder is kept apart from encoders, is run once, and k is 10, for which
\* the matrix was made.
DecoderUse == PlainUse /\ K = 10 /\ Exclusive /\ MaxDecodes <= 1

LEMMA DecoderInit == SysInit => DecoderInv
BY DEF SysInit, D!Init, DecoderInv, Nothing, D!Rows, D!LostDisks, Rows

LEMMA BeginDecodes ==
    ASSUME DecoderUse, DecoderInv, EncodersTypeOK, BeginDecode
    PROVE  DecoderInv'
<1>1. /\ dpc = "idle" /\ dpc' = "read" /\ dn' = 1 /\ drow' = 1 /\ lost' = {}
      /\ UNCHANGED <<got, solved, decoded, evars>> /\ NoEncoder
      /\ decodes < MaxDecodes /\ decodes' = decodes + 1
  BY DEF BeginDecode, D!DStart, DecoderUse
<1>2. decodes = 0 /\ decodes' = 1
  BY <1>1, SystemAssumption DEF DecoderUse, DecoderInv
<1>3. decoded = Nothing
  BY <1>2 DEF DecoderInv
<1>4. UNCHANGED <<kfile, mfile, proc, overlapped, crashes>>
  BY <1>1 DEF evars, pfiles
<1>5. 1 \in Rows /\ \A j \in Rows : ~(j < 1)
  BY ProcessesAssumption DEF Rows
<1>6. Reading'
  BY <1>1, <1>5 DEF Reading, There
<1>7. Writing'
  <2>1. \A d \in StoredDisks' : OnlyLost' => d \in {1, 2}
    BY DEF OnlyLost, StoredDisks
  <2>2. \A d : Copies(d, 0) = <<>>
    BY DEF Copies
  <2>. QED  BY <1>1, <1>3, <2>1, <2>2 DEF Writing, Nothing
<1>8. NoEncoder'
  BY <1>1, <1>4 DEF NoEncoder, Running
<1>. QED  BY <1>1, <1>2, <1>6, <1>7, <1>8 DEF DecoderInv

\* The store while the decoder runs.
Still == UNCHANGED <<kfile, mfile, proc, overlapped, crashes>>

LEMMA StillSame ==
    Still => /\ StoredDisks' = StoredDisks /\ Sum' = Sum /\ There' = There
             /\ OnlyLost' = OnlyLost /\ NoEncoder' = NoEncoder /\ Undisturbed' = Undisturbed
BY DEF Still, StoredDisks, Sum, There, OnlyLost, NoEncoder, Undisturbed, Running

LEMMA ReadsRow ==
    ASSUME AtRest, Reading, Writing, DOMAIN got = Rows, Still, D!DRead
    PROVE  Reading' /\ Writing'
<1>1. M \in Nat \ {0} /\ Rows = 1..M
  BY ProcessesAssumption DEF Rows
<1>2. /\ dpc = "read" /\ UNCHANGED <<dn, solved, decoded>>
      /\ \/ drow < M /\ drow' = drow + 1 /\ dpc' = "read"
         \/ ~(drow < M) /\ drow' = 1 /\ dpc' = "decode"
  BY DEF D!DRead
<1>3. mfile' = mfile /\ There' = There /\ Sum' = Sum
  BY StillSame DEF Still
<1>4. drow \in Rows /\ dn \in 1..2
  BY DEF Reading
<1>5. CASE drow \in There
  <2>1. got' = [got EXCEPT ![drow] = D!BlockRead(drow)] /\ lost' = lost
    BY <1>5 DEF D!DRead, D!Opens, There
  <2>2. D!BlockRead(drow) = Sum
    BY <1>4, <1>5 DEF AtRest, TwoOf, D!BlockRead
  <2>3. got'[drow] = Sum /\ \A j \in Rows \ {drow} : got'[j] = got[j]
    BY <1>4, <2>1, <2>2
  <2>4. \A j \in There : j < drow + 1 => got'[j] = Sum
    BY <1>1, <1>2, <1>4, <2>3 DEF Reading, There
  <2>5. lost' = {j \in Rows : j < drow + 1 /\ mfile[j] = <<>>}
    BY <1>1, <1>2, <1>4, <1>5, <2>1 DEF Reading, There
  <2>6. Reading'
    <3>1. CASE drow < M
      BY <1>1, <1>2, <1>3, <1>4, <2>4, <2>5, <3>1 DEF Reading
    <3>2. CASE ~(drow < M)
      <4>1. \A j \in Rows : j < drow + 1
        BY <1>1, <1>4, <3>2
      <4>. QED  BY <1>1, <1>2, <1>3, <1>4, <2>4, <2>5, <3>2, <4>1 DEF Reading, There
    <3>. QED  BY <3>1, <3>2
  <2>. QED  BY <1>2, <1>3, <2>6, StillSame DEF Writing
<1>6. CASE drow \notin There
  <2>1. got' = got /\ lost' = lost \cup {drow} /\ mfile[drow] = <<>>
    BY <1>4, <1>6 DEF D!DRead, D!Opens, There
  <2>2. \A j \in There : j < drow + 1 => got'[j] = Sum
    BY <1>1, <1>2, <1>4, <1>6, <2>1 DEF Reading, There
  <2>3. lost' = {j \in Rows : j < drow + 1 /\ mfile[j] = <<>>}
    BY <1>1, <1>2, <1>4, <2>1 DEF Reading
  <2>4. Reading'
    <3>1. CASE drow < M
      BY <1>1, <1>2, <1>3, <1>4, <2>2, <2>3, <3>1 DEF Reading
    <3>2. CASE ~(drow < M)
      <4>1. \A j \in Rows : j < drow + 1
        BY <1>1, <1>4, <3>2
      <4>. QED  BY <1>1, <1>2, <1>3, <1>4, <2>2, <2>3, <3>2, <4>1 DEF Reading, There
    <3>. QED  BY <3>1, <3>2
  <2>. QED  BY <1>2, <1>3, <2>4, StillSame DEF Writing
<1>. QED  BY <1>5, <1>6

LEMMA Solves ==
    ASSUME K = 10, Reading, Writing, Still, D!DDecode
    PROVE  Reading' /\ Writing'
<1>1. /\ dpc = "decode" /\ dpc' = "write1" /\ UNCHANGED <<dn, drow, got, lost, decoded>>
      /\ solved' = [d \in {1, 2} |-> D!Solution(d)] /\ D!Decodable
  BY DEF D!DDecode, D!LostDisks
<1>2. lost = Rows \ There /\ \A j \in There : got[j] = Sum
  BY <1>1 DEF Reading
<1>3. Cardinality(There) >= 2 /\ Cardinality(There) \in Nat
  BY <1>1, <1>2, EnoughRows, RowsFinite DEF There
<1>4. D!FirstIntact \subseteq There /\ D!FirstIntact # {}
  BY <1>2, <1>3, FirstTwo, FS_EmptySet
<1>5. ASSUME OnlyLost, NEW d \in StoredDisks
      PROVE  d \in {1, 2} /\ solved'[d] = {<<d, 1>>}
  <2>1. d \in {1, 2}
    BY <1>5 DEF OnlyLost, StoredDisks
  <2>. QED  BY <1>1, <1>2, <1>4, <1>5, <2>1, SolvedRight
<1>6. Reading'
  BY <1>1, StillSame DEF Reading, Still
<1>7. Writing'
  BY <1>1, <1>3, <1>5, StillSame DEF Writing
<1>. QED  BY <1>6, <1>7

LEMMA Appends ==
    ASSUME Reading, Writing, DOMAIN decoded = {1, 2}, Still, NEW disk \in {1, 2}, D!DWrite(disk)
    PROVE  /\ dpc' # "idle" => Reading' /\ Writing'
           /\ dpc' = "idle" =>
                 /\ Cardinality(There) >= 2
                 /\ OnlyLost => \A d \in StoredDisks : decoded'[d] = Copies(d, 2)
<1>1. /\ dpc = IF disk = 1 THEN "write1" ELSE "write2"
      /\ decoded' = [decoded EXCEPT ![disk] = Append(decoded[disk], solved[disk])]
      /\ UNCHANGED <<drow, got, solved>>
      /\ disk = 1 => dpc' = "write2" /\ UNCHANGED <<dn, lost>>
      /\ disk = 2 => dn' = dn + 1 /\ lost' = {} /\ dpc' = IF dn < 2 THEN "read" ELSE "idle"
  BY DEF D!DWrite, D!ReadInsDecoded
<1>2. dn \in 1..2 /\ drow = 1 /\ lost = Rows \ There /\ \A j \in There : got[j] = Sum
  BY <1>1 DEF Reading
<1>3. Cardinality(There) >= 2 /\ Cardinality(There) \in Nat
  BY <1>1, RowsFinite DEF Writing, There
<1>4. ASSUME OnlyLost, NEW d \in StoredDisks
      PROVE  /\ solved'[d] = {<<d, 1>>}
             /\ disk = 1 => decoded'[d] = Copies(d, IF d = 1 THEN dn ELSE dn - 1)
             /\ disk = 2 => decoded'[d] = Copies(d, dn)
  <2>1. d \in {1, 2}
    BY <1>4 DEF OnlyLost, StoredDisks
  <2>2. solved[d] = {<<d, 1>>} /\ solved' = solved
    BY <1>1, <1>4 DEF Writing
  <2>3. decoded[d] = Copies(d, IF disk = 2 /\ d = 1 THEN dn ELSE dn - 1)
    BY <1>1, <1>4 DEF Writing
  <2>4. CASE d = disk
    <3>1. decoded'[d] = Append(Copies(d, dn - 1), {<<d, 1>>})
      BY <1>1, <2>1, <2>2, <2>3, <2>4
    <3>2. Append(Copies(d, dn - 1), {<<d, 1>>}) = Copies(d, (dn - 1) + 1) /\ (dn - 1) + 1 = dn
      <4>1. dn - 1 \in Nat /\ (dn - 1) + 1 = dn
        BY <1>2
      <4>. QED  BY <4>1, OneMore
    <3>. QED  BY <2>2, <2>4, <3>1, <3>2
  <2>5. CASE d # disk
    <3>1. decoded'[d] = decoded[d]
      BY <1>1, <2>1, <2>5
    <3>. QED  BY <2>1, <2>2, <2>3, <2>5, <3>1
  <2>. QED  BY <2>4, <2>5
<1>5. CASE disk = 1
  <2>1. Reading'
    BY <1>1, <1>2, <1>5, StillSame DEF Reading, Still
  <2>2. Writing'
    BY <1>1, <1>3, <1>4, <1>5, StillSame DEF Writing
  <2>. QED  BY <1>1, <1>5, <2>1, <2>2
<1>6. CASE disk = 2 /\ dn = 1
  <2>1. dpc' = "read" /\ dn' = 2 /\ drow' = 1 /\ lost' = {}
    BY <1>1, <1>2, <1>6
  <2>2. 1 \in Rows /\ \A j \in Rows : ~(j < 1)
    BY ProcessesAssumption DEF Rows
  <2>3. Reading'
    <3>1. lost' = {j \in Rows : j < drow' /\ mfile'[j] = <<>>}
      BY <2>1, <2>2
    <3>2. \A j \in There' : j < drow' => got'[j] = Sum'
      <4>1. \A j \in There' : j \in Rows
        BY DEF There, Rows
      <4>. QED  BY <2>1, <2>2, <4>1
    <3>. QED  BY <2>1, <2>2, <3>1, <3>2 DEF Reading
  <2>4. Writing'
    BY <1>3, <1>4, <1>6, <2>1, StillSame DEF Writing
  <2>. QED  BY <2>1, <2>3, <2>4
<1>7. CASE disk = 2 /\ dn = 2
  BY <1>1, <1>3, <1>4, <1>7
<1>. QED  BY <1>2, <1>5, <1>6, <1>7

\* What DecoderRecovers says of a step.
Recovers ==
    dpc # "idle" /\ dpc' = "idle" /\ Undisturbed =>
        /\ Cardinality(There) >= 2 =>
               (OnlyLost => \A d \in StoredDisks : decoded'[d] = kfile[d])
        /\ ~(Cardinality(There) >= 2) => decoded' = Nothing

LEMMA DecodeSteps ==
    ASSUME K = 10, EncodersTypeOK, SerialInv, StoreInv, DecoderInv, Decode
    PROVE  DecoderInv' /\ Recovers
<1>1. D!DStep /\ Still /\ decodes' = decodes
  BY DEF Decode, evars, env, pfiles, Still
<1>2. /\ dpc # "idle" /\ decodes = 1 /\ NoEncoder
      /\ dpc' \in {"idle", "read", "decode", "write1", "write2"}
      /\ DOMAIN got' = Rows /\ DOMAIN decoded' = {1, 2}
  <2>1. dpc \in {"read", "decode", "write1", "write2"}
    BY <1>1 DEF D!DStep, D!DRead, D!DDecode, D!DUnsuccessful, D!DWrite, D!LostDisks
  <2>2. decodes = 1 /\ NoEncoder
    BY <2>1 DEF DecoderInv
  <2>3. dpc' \in {"idle", "read", "decode", "write1", "write2"}
    BY <1>1 DEF D!DStep, D!DRead, D!DDecode, D!DUnsuccessful, D!DWrite, D!LostDisks
  <2>4. DOMAIN got' = DOMAIN got /\ DOMAIN decoded' = DOMAIN decoded
    BY <1>1 DEF D!DStep, D!DRead, D!DDecode, D!DUnsuccessful, D!DWrite, D!LostDisks
  <2>. QED  BY <2>1, <2>2, <2>3, <2>4 DEF DecoderInv
<1>3. NoEncoder' /\ Undisturbed' = Undisturbed
  BY <1>1, <1>2, StillSame
<1>4. ASSUME Undisturbed
      PROVE  (dpc' # "idle" => Reading' /\ Writing') /\ Recovers
  <2>1. AtRest /\ Reading /\ Writing /\ DOMAIN got = Rows /\ DOMAIN decoded = {1, 2}
    BY <1>2, <1>4, IdleIsAtRest DEF DecoderInv
  <2>2. CASE D!DRead
    BY <1>1, <2>1, <2>2, ReadsRow DEF D!DRead, Recovers
  <2>3. CASE D!DDecode
    BY <1>1, <2>1, <2>3, Solves DEF D!DDecode, Recovers
  <2>4. CASE D!DUnsuccessful
    <3>1. dpc = "decode" /\ dpc' = "idle" /\ decoded' = decoded /\ ~D!Decodable
      BY <2>4 DEF D!DUnsuccessful
    <3>2. lost = Rows \ There
      BY <2>1, <3>1 DEF Reading
    <3>3. ~(Cardinality(There) >= 2) /\ Cardinality(There) \in Nat
      BY <3>1, <3>2, EnoughRows, RowsFinite DEF There
    <3>4. decoded' = Nothing
      BY <2>1, <3>1, <3>3 DEF Writing
    <3>. QED  BY <3>1, <3>3, <3>4 DEF Recovers
  <2>5. ASSUME NEW disk \in {1, 2}, D!DWrite(disk)
        PROVE  (dpc' # "idle" => Reading' /\ Writing') /\ Recovers
    <3>1. ASSUME OnlyLost, NEW d \in StoredDisks
          PROVE  kfile[d] = Copies(d, 2)
      <4>1. TwoOf(kfile[d], {<<d, 1>>}) /\ kfile[d] \in Seq(Block)
        BY <2>1, <3>1 DEF AtRest, StoredDisks, EncodersTypeOK, FilesOK
      <4>2. /\ kfile[d] = [b \in 1..Len(kfile[d]) |-> kfile[d][b]]
            /\ Len(kfile[d]) = 2
        BY <4>1 DEF TwoOf
      <4>3. \A b \in 1..2 : kfile[d][b] = {<<d, 1>>}
        BY <4>1 DEF TwoOf
      <4>. QED  BY <4>2, <4>3 DEF Copies
    <3>2. /\ dpc' # "idle" => Reading' /\ Writing'
          /\ dpc' = "idle" =>
                /\ Cardinality(There) >= 2
                /\ OnlyLost => \A d \in StoredDisks : decoded'[d] = Copies(d, 2)
      BY <1>1, <2>1, <2>5, Appends
    <3>. QED  BY <3>1, <3>2 DEF Recovers
  <2>. QED  BY <1>1, <2>2, <2>3, <2>4, <2>5 DEF D!DStep, D!LostDisks
<1>5. DecoderInv'
  BY <1>1, <1>2, <1>3, <1>4 DEF DecoderInv
<1>6. Recovers
  BY <1>4 DEF Recovers
<1>. QED  BY <1>5, <1>6

LEMMA DecoderStep ==
    DecoderUse /\ EncodersTypeOK /\ SerialInv /\ StoreInv /\ DecoderInv /\ [SysNext]_sysvars =>
        DecoderInv' /\ Recovers
<1> SUFFICES ASSUME DecoderUse, EncodersTypeOK, SerialInv, StoreInv, DecoderInv, [SysNext]_sysvars
             PROVE  DecoderInv' /\ Recovers
  OBVIOUS
<1>1. CASE Encode
  <2>1. UNCHANGED <<dvars, env>> /\ dpc = "idle"
    BY <1>1 DEF Encode, DecoderUse
  <2>. QED  BY <2>1 DEF dvars, env, DecoderInv, Recovers
<1>2. CASE BeginDecode
  <2>1. dpc = "idle"
    BY <1>2 DEF BeginDecode, D!DStart
  <2>. QED  BY <1>2, <2>1, BeginDecodes DEF Recovers
<1>3. CASE Decode
  BY <1>3, DecodeSteps DEF DecoderUse
<1>4. ASSUME NEW i \in 1..M, Lose(i) PROVE DecoderInv' /\ Recovers
  <2>1. UNCHANGED <<dvars, decodes>> /\ dpc = "idle"
    BY <1>4 DEF Lose
  <2>. QED  BY <2>1 DEF dvars, DecoderInv, Recovers
<1>5. CASE UNCHANGED sysvars
  <2>1. UNCHANGED dvars /\ decodes' = decodes /\ Still
    BY <1>5 DEF sysvars, evars, env, pfiles, Still
  <2>2. UNCHANGED <<dpc, dn, drow, got, lost, solved, decoded>>
    BY <2>1 DEF dvars
  <2>3. Reading' = Reading /\ Writing' = Writing
    BY <2>1, <2>2, StillSame DEF Reading, Writing, Still
  <2>. QED  BY <2>1, <2>2, <2>3, StillSame DEF DecoderInv, Recovers
<1>. QED  BY <1>1, <1>2, <1>3, <1>4, <1>5 DEF SysNext

LEMMA RecoversSays ==
    Recovers =>
        (dpc # "idle" /\ dpc' = "idle" /\ ~overlapped /\ crashes = 0 =>
           IF 2 + Cardinality({i \in 1..M : mfile[i] = <<>>}) <= M
           THEN (\A d \in Disks \ {1, 2} : kfile[d] = <<>>) =>
                   \A d \in {1, 2} \cap Disks :
                      kfile[d] # <<>> => decoded'[d] = kfile[d]
           ELSE decoded' = [d \in {1, 2} |-> <<>>])
BY CountThere DEF Recovers, Undisturbed, OnlyLost, StoredDisks, Nothing

\* Used as it is meant to be (disks added once, no encoder while the decoder
\* runs, one decoding, k = 10), the decoder writes the k files of disks 1 and 2
\* when two parity files are left, and nothing when fewer are.
THEOREM DecoderRecoversHolds ==
    ASSUME DecoderUse
    PROVE  SysSpec => DecoderRecovers
<1>1. SysInit => DecoderInv
  BY DecoderInit DEF SysInit
<1>2. PlainUse
  BY DEF DecoderUse
<1>3. EncodersTypeOK /\ SerialInv /\ StoreInv /\ DecoderInv /\ [SysNext]_sysvars
        => DecoderInv' /\ Recovers
  BY DecoderStep
<1>4. SysSpec => []EncodersTypeOK /\ []SerialInv
  BY SystemTypes, SystemSerialInvariant, PTL
<1>5. EncodersTypeOK /\ SerialInv /\ StoreInv /\ [SysNext]_sysvars => StoreInv'
  BY <1>2, SystemStoreStep
<1>6. SysInit => StoreInv
  BY SeenInit DEF SysInit
<1>. QED
  BY <1>1, <1>3, <1>4, <1>5, <1>6, RecoversSays, PTL DEF SysSpec, DecoderRecovers

-----------------------------------------------------------------------------
(***************************************************************************)
(* Decoding by bitmatrices: BitmatrixDecode, and ScheduledDecode in it.    *)
(* First the sizes of a code, the places of lost devices, and what the     *)
(* decoders write (DecodeInvariant); then sums of sets, the matrices that  *)
(* are left and their elimination, and what is recreated (Recreation).     *)
(***************************************************************************)
LEMMA CodeIs ==
    ASSUME code \in Codes
    PROVE  k \in Nat \ {0} /\ m \in Nat \ {0} /\ w \in Nat \ {0} /\ k + m \in Nat
BY CodesAssumption DEF k, m, w

\* A packet and its device.
LEMMA PacketIs ==
    ASSUME code \in Codes, NEW dev \in Nat, NEW x \in 0..w-1
    PROVE  /\ Packet(dev, x) \in Nat
           /\ Packet(dev, x) \div w = dev /\ Packet(dev, x) % w = x
<1>1. w \in Nat \ {0}
  BY CodeIs
<1>2. w * dev = dev * w /\ w * dev \in Nat
  BY <1>1
<1>3. (w * dev + x) \div w = dev /\ (w * dev + x) % w = x
  BY <1>1, DivRest
<1>. QED  BY <1>1, <1>2, <1>3 DEF Packet

LEMMA DeviceIs ==
    ASSUME code \in Codes, NEW p \in Nat
    PROVE  /\ p \div w \in Nat /\ p % w \in 0..w-1 /\ p = Packet(p \div w, p % w)
           /\ \A top \in Nat : p < top * w <=> p \div w < top
<1>1. w \in Nat \ {0}
  BY CodeIs
<1> DEFINE q == p \div w
           r == p % w
<1>2. q \in Int /\ r \in 0..w-1 /\ p = w * q + r
  <2>1. \A y \in Nat, u \in Nat \ {0} :
           y \div u \in Int /\ y % u \in 0..(u - 1) /\ y = u * (y \div u) + (y % u)
    OBVIOUS
  <2>. QED  BY <1>1, <2>1
<1> HIDE DEF q, r
<1>3. q \in Nat
  <2> SUFFICES ASSUME q < 0 PROVE FALSE
    BY <1>2
  <2>1. w * q = - (w * (-q)) /\ w * (-q) = w * (-q - 1) + w /\ w * (-q - 1) \in Nat
    <3>1. -q - 1 \in Nat /\ -q \in Nat
      BY <1>2
    <3>2. \A y \in Nat : w * y \in Nat
      BY <1>1
    <3>. QED  BY <1>1, <1>2, <3>1, <3>2
  <2>. QED  BY <1>1, <1>2, <2>1
<1>4. ASSUME NEW top \in Nat PROVE p < top * w <=> q < top
  <2>0. \A y \in Nat : w * y \in Nat
    BY <1>1
  <2>1. CASE q < top
    <3>1. top - q - 1 \in Nat /\ top = q + 1 + (top - q - 1)
      BY <1>3, <2>1
    <3>2. top * w = w * q + w + w * (top - q - 1)
      BY <1>1, <1>3, <3>1
    <3>3. w * (top - q - 1) \in Nat /\ w * q \in Nat
      BY <1>3, <2>0, <3>1
    <3> HIDE DEF q
    <3>. QED  BY <1>1, <1>2, <2>1, <3>2, <3>3
  <2>2. CASE ~(q < top)
    <3>1. q - top \in Nat /\ q = top + (q - top)
      BY <1>3, <2>2
    <3>2. w * q = top * w + w * (q - top)
      BY <1>1, <1>3, <3>1
    <3>3. w * (q - top) \in Nat /\ top * w \in Nat
      BY <1>1, <2>0, <3>1
    <3>. QED  BY <1>1, <1>2, <2>2, <3>2, <3>3
  <2>. QED  BY <2>1, <2>2
<1>. QED  BY <1>1, <1>2, <1>3, <1>4 DEF q, r, Packet

LEMMA SameCode ==
    ASSUME code' = code
    PROVE  k' = k /\ m' = m /\ w' = w /\ Devices' = Devices /\ Lines' = Lines
BY DEF k, m, w, Devices, Lines

LEMMA DevicesFinite ==
    ASSUME code \in Codes, NEW S \in SUBSET Devices
    PROVE  IsFiniteSet(S) /\ Cardinality(S) \in Nat /\ S \subseteq Nat
<1>1. IsFiniteSet(Devices) /\ Devices \subseteq Nat
  <2>1. k + m - 1 \in Int
    BY CodeIs
  <2>. QED  BY <2>1, FS_Interval DEF Devices
<1>2. IsFiniteSet(S)
  BY <1>1, FS_Subset
<1>. QED  BY <1>1, <1>2, FS_CardinalityType

-----------------------------------------------------------------------------
(* Places in a finite set of naturals *)

\* Below the element in place q of a set there are q others.
LEMMA PlaceExists ==
    ASSUME NEW S \in SUBSET Nat, IsFiniteSet(S), NEW q \in Nat, q < Cardinality(S)
    PROVE  \E d \in S : Place(S, d) = q
<1> DEFINE T == {r \in Nat : r < Cardinality(S) => \E d \in S : Place(S, d) = r}
<1>0. Cardinality(S) \in Nat /\ \A x \in S : x \in Nat
  BY FS_CardinalityType
<1>1. 0 \in T
  <2> SUFFICES ASSUME 0 < Cardinality(S) PROVE \E d \in S : Place(S, d) = 0
    OBVIOUS
  <2>1. S # {}
    BY FS_EmptySet
  <2>2. PICK d \in S : \A e \in S : d <= e
    BY <2>1, LeastOf
  <2>3. {e \in S : e < d} = {}
    <3>1. \A e \in S : e \in Nat
      OBVIOUS
    <3>2. \A e \in S : ~(e < d)
      BY <2>2, <3>1
    <3>. QED  BY <3>2
  <2>. QED  BY <2>3, FS_EmptySet DEF Place
<1>2. ASSUME NEW r \in Nat, r \in T PROVE r + 1 \in T
  <2> SUFFICES ASSUME r + 1 < Cardinality(S) PROVE \E d \in S : Place(S, d) = r + 1
    BY <1>2
  <2>1. PICK d \in S : Place(S, d) = r
    BY <1>0, <1>2
  <2> DEFINE Low == {e \in S : e < d}
             High == {e \in S : e > d}
  <2>2. IsFiniteSet(Low) /\ Cardinality(Low) = r
    BY <2>1, FS_Subset DEF Place
  <2>3. d \notin Low /\ IsFiniteSet(Low \cup {d}) /\ Cardinality(Low \cup {d}) = r + 1
    <3>1. ~(d < d)
      BY <1>0, <2>1
    <3>. QED  BY <2>2, <3>1, FS_AddElement
  <2>4. High # {}
    <3> SUFFICES ASSUME High = {} PROVE FALSE
      OBVIOUS
    <3>1. S = Low \cup {d}
      <4>1. \A x \in S : x < d \/ x = d
        BY <1>0, <2>1
      <4>. QED  BY <2>1, <4>1
    <3> HIDE DEF Low
    <3>. QED  BY <2>3, <3>1
  <2>5. PICK e \in High : \A x \in High : e <= x
    BY <2>4, LeastOf
  <2>6. {x \in S : x < e} = Low \cup {d}
    <3>1. d < e /\ \A x \in S : x < e <=> (x < d \/ x = d)
      BY <1>0, <2>1, <2>5
    <3>. QED  BY <2>1, <3>1
  <2>7. Place(S, e) = r + 1
    BY <2>3, <2>6 DEF Place
  <2>. QED  BY <2>5, <2>7
<1>3. \A r \in Nat : r \in T
  <2> HIDE DEF T
  <2>. QED  BY <1>1, <1>2, SetInduction
<1>. QED  BY <1>3

\* The place of an element is below the number of elements, and no two share one.
LEMMA PlaceIs ==
    ASSUME NEW S \in SUBSET Nat, IsFiniteSet(S), NEW d \in S
    PROVE  Place(S, d) \in 0..Cardinality(S) - 1
<1> DEFINE Low == {e \in S : e < d}
<1>1. IsFiniteSet(Low) /\ Cardinality(Low) \in Nat /\ Cardinality(S) \in Nat
  BY FS_Subset, FS_CardinalityType
<1>2. d \notin Low /\ Low \cup {d} \subseteq S
  OBVIOUS
<1>3. Cardinality(Low \cup {d}) = Cardinality(Low) + 1
  BY <1>1, <1>2, FS_AddElement
<1>4. Cardinality(Low \cup {d}) <= Cardinality(S)
  BY <1>2, FS_Subset
<1> HIDE DEF Low
<1>5. Place(S, d) = Cardinality(Low)
  BY DEF Place, Low
<1>. QED  BY <1>1, <1>3, <1>4, <1>5

LEMMA PlaceOnce ==
    ASSUME NEW S \in SUBSET Nat, IsFiniteSet(S), NEW d \in S, NEW e \in S,
           Place(S, d) = Place(S, e)
    PROVE  d = e
<1>1. ASSUME NEW x \in S, NEW y \in S, x < y PROVE Place(S, x) < Place(S, y)
  <2> DEFINE Low == {z \in S : z < x}
             Below == {z \in S : z < y}
  <2>1. IsFiniteSet(Low) /\ Cardinality(Low) \in Nat /\ IsFiniteSet(Below) /\ Cardinality(Below) \in Nat
    BY FS_Subset, FS_CardinalityType
  <2>2. x \notin Low /\ Low \cup {x} \subseteq Below
    <3>1. x \in Nat /\ y \in Nat /\ \A z \in S : z \in Nat
      OBVIOUS
    <3>2. \A z \in S : z < x => z < y
      BY <1>1, <3>1
    <3>3. ~(x < x)
      BY <3>1
    <3>. QED  BY <1>1, <3>2, <3>3
  <2>3. Cardinality(Low \cup {x}) = Cardinality(Low) + 1 /\ Cardinality(Low \cup {x}) <= Cardinality(Below)
    BY <2>1, <2>2, FS_AddElement, FS_Subset
  <2> HIDE DEF Low, Below
  <2>4. Place(S, x) = Cardinality(Low) /\ Place(S, y) = Cardinality(Below)
    BY DEF Place, Low, Below
  <2>. QED  BY <2>1, <2>3, <2>4
<1>2. Place(S, d) \in Int /\ Place(S, e) \in Int
  BY PlaceIs
<1>3. ~(d < e) /\ ~(e < d)
  BY <1>1, <1>2
<1>. QED  BY <1>3

\* The places behind the first k are those of the lost devices.
LEMMA LostPlace ==
    ASSUME code \in Codes, NEW S \in SUBSET Devices, NEW x \in 0..Cardinality(S) - 1
    PROVE  LET d == RowIds(S)[k + x] IN d \in S /\ Place(S, d) = x
<1>1. IsFiniteSet(S) /\ Cardinality(S) \in Nat /\ S \subseteq Nat
  BY DevicesFinite
<1>2. \E d \in S : Place(S, d) = x
  BY <1>1, PlaceExists
<1>3. k + x \in 0..k + Cardinality(S) - 1 /\ k + x >= k /\ (k + x) - k = x
  BY <1>1, CodeIs
<1>4. RowIds(S)[k + x] = CHOOSE d \in S : Place(S, d) = x
  BY <1>3 DEF RowIds
<1>. QED  BY <1>2, <1>4

-----------------------------------------------------------------------------
(* The lists of devices, and the cache that has a schedule for each *)

LEMMA CallIs ==
    ASSUME code \in Codes, NEW list \in Calls
    PROVE  /\ ToSet(list) \in SUBSET Devices
           /\ Cardinality(ToSet(list)) = Len(list) /\ Len(list) \in 1..3
           /\ \A x \in 1..Len(list) : list[x] \in Devices /\ list[x] \in ToSet(list)
           /\ \A x, y \in 1..Len(list) : list[x] = list[y] => x = y
<1>1. Cardinality(ToSet(list)) = Len(list)
  BY DEF Calls
<1>2. CASE \E d \in Devices : list = <<d>>
  BY <1>1, <1>2 DEF ToSet
<1>3. CASE \E d, e \in Devices : list = <<d, e>>
  <2>1. PICK d \in Devices, e \in Devices : list = <<d, e>>
    BY <1>3
  <2>2. ToSet(list) = {d, e}
    BY <2>1 DEF ToSet
  <2>3. d # e
    <3> SUFFICES ASSUME d = e PROVE FALSE
      OBVIOUS
    <3>1. ToSet(list) = {d}
      BY <2>2
    <3>2. Cardinality(ToSet(list)) = 1
      BY <3>1, FS_Singleton
    <3>. QED  BY <1>1, <2>1, <3>2
  <2>. QED  BY <1>1, <2>1, <2>2, <2>3
<1>4. CASE \E d, e, f \in Devices : list = <<d, e, f>>
  <2>1. PICK d \in Devices, e \in Devices, f \in Devices : list = <<d, e, f>>
    BY <1>4
  <2>2. ToSet(list) = {d, e, f}
    BY <2>1 DEF ToSet
  <2>3. Cardinality({d, e, f}) = 3
    BY <1>1, <2>1, <2>2
  <2>4. \A a, b : Cardinality({a, b}) <= 2
    <3> TAKE a, b
    <3>1. IsFiniteSet({a}) /\ Cardinality({a}) = 1
      BY FS_Singleton
    <3>2. Cardinality({a} \cup {b}) = IF b \in {a} THEN 1 ELSE 2
      BY <3>1, FS_AddElement
    <3>3. {a, b} = {a} \cup {b}
      OBVIOUS
    <3>. QED  BY <3>2, <3>3
  <2>5. d # e /\ d # f /\ e # f
    <3>1. d = e => {d, e, f} = {d, f}
      OBVIOUS
    <3>2. d = f => {d, e, f} = {d, e}
      OBVIOUS
    <3>3. e = f => {d, e, f} = {d, e}
      OBVIOUS
    <3>4. ~(3 <= 2)
      OBVIOUS
    <3>. QED  BY <2>3, <2>4, <3>1, <3>2, <3>3, <3>4
  <2>. QED  BY <1>1, <2>1, <2>2, <2>5
<1>. QED  BY <1>2, <1>3, <1>4 DEF Calls, Lists

\* Lists of one or two devices, of which the cache takes care.
DevicePair(d, e) == IF d = e THEN <<d>> ELSE <<d, e>>
Size(d, e) == IF d = e THEN 1 ELSE 2
Slot(d, e) == d * (k + m) + e

LEMMA PairExists ==
    ASSUME code \in Codes, NEW list \in Calls, Len(list) <= 2
    PROVE  \E d, e \in Devices : list = DevicePair(d, e)
<1>1. list \in Lists
  BY DEF Calls
<1>2. /\ Len(list) \in 1..3
      /\ \A x \in 1..Len(list) : list[x] \in Devices
      /\ \A x, y \in 1..Len(list) : list[x] = list[y] => x = y
  BY CallIs
<1>3. CASE \E d \in Devices : list = <<d>>
  BY <1>3 DEF DevicePair
<1>4. CASE \E d \in Devices, e \in Devices : list = <<d, e>>
  <2>1. PICK d \in Devices, e \in Devices : list = <<d, e>>
    BY <1>4
  <2>2. d # e
    BY <1>2, <2>1
  <2>3. DevicePair(d, e) = <<d, e>>
    BY <2>2 DEF DevicePair
  <2>. QED  BY <2>1, <2>3
<1>5. CASE \E d \in Devices, e \in Devices, f \in Devices : list = <<d, e, f>>
  <2>1. PICK d \in Devices, e \in Devices, f \in Devices : list = <<d, e, f>>
    BY <1>5
  <2>2. Len(list) = 3
    BY <2>1
  <2>. QED  BY <2>2
<1>6. \/ \E d \in Devices : list = <<d>>
      \/ \E d \in Devices, e \in Devices : list = <<d, e>>
      \/ \E d \in Devices, e \in Devices, f \in Devices : list = <<d, e, f>>
  BY <1>1 DEF Lists
<1>. QED  BY <1>3, <1>4, <1>5, <1>6

LEMMA PairIs ==
    ASSUME code \in Codes, NEW d \in Devices, NEW e \in Devices
    PROVE  /\ Len(DevicePair(d, e)) = Size(d, e) /\ Index(DevicePair(d, e)) = Slot(d, e)
           /\ Reverse(DevicePair(d, e)) = DevicePair(e, d)
           /\ ToSet(DevicePair(d, e)) = {d, e} /\ Cardinality({d, e}) = Size(d, e)
<1>1. CASE d = e
  <2>1. DevicePair(d, e) = <<d>> /\ Size(d, e) = 1 /\ DevicePair(e, d) = <<d>> /\ {d, e} = {d}
    BY <1>1 DEF DevicePair, Size
  <2>2. Reverse(<<d>>) = <<d>> /\ ToSet(<<d>>) = {d}
    BY DEF Reverse, ToSet
  <2>3. Index(<<d>>) = Slot(d, d)
    BY DEF Index, Slot
  <2>. QED  BY <1>1, <2>1, <2>2, <2>3, FS_Singleton
<1>2. CASE d # e
  <2>1. DevicePair(d, e) = <<d, e>> /\ Size(d, e) = 2 /\ DevicePair(e, d) = <<e, d>>
    BY <1>2 DEF DevicePair, Size
  <2>2. Reverse(<<d, e>>) = <<e, d>> /\ ToSet(<<d, e>>) = {d, e}
    BY DEF Reverse, ToSet
  <2>3. Index(<<d, e>>) = Slot(d, e)
    BY DEF Index, Slot
  <2>4. Cardinality({d, e}) = 2
    <3>1. IsFiniteSet({d}) /\ Cardinality({d}) = 1 /\ e \notin {d} /\ {d} \cup {e} = {d, e}
      BY <1>2, FS_Singleton
    <3>2. Cardinality({d} \cup {e}) = 1 + 1
      BY <3>1, FS_AddElement
    <3>. QED  BY <3>1, <3>2
  <2>. QED  BY <2>1, <2>2, <2>3, <2>4
<1>. QED  BY <1>1, <1>2

\* No two of them share a place in the cache.
LEMMA SlotIs ==
    ASSUME code \in Codes, NEW d \in Devices, NEW e \in Devices
    PROVE  /\ Slot(d, e) \in 0..(k+m)*(k+m+1)-1
           /\ \A x, y \in Devices : Slot(x, y) = Slot(d, e) => x = d /\ y = e
<1> DEFINE N == k + m
<1>1. N \in Nat \ {0} /\ Devices = 0..N-1
  BY CodeIs DEF Devices
<1>2. \A x, y \in Devices : Slot(x, y) = N * x + y
  <2>1. \A x, y \in 0..N-1 : x * N + y = N * x + y
    BY <1>1
  <2>. QED  BY <1>1, <2>1 DEF Slot
<1> HIDE DEF N
<1>3. \A x, y \in Devices : Slot(x, y) \div N = x /\ Slot(x, y) % N = y
  <2> TAKE x, y \in Devices
  <2>1. x \in Nat /\ y \in 0..N-1
    BY <1>1
  <2>2. (N * x + y) \div N = x /\ (N * x + y) % N = y
    BY <1>1, <2>1, DivRest
  <2>. QED  BY <1>2, <2>2
<1>4. Slot(d, e) \in 0..N*(N+1)-1
  <2>0. d \in Nat /\ e \in Nat /\ d <= N - 1 /\ e <= N - 1 /\ N - 1 - d \in Nat
    BY <1>1
  <2>1. \A y \in Nat : N * y \in Nat
    BY <1>1
  <2>2. N * (N + 1) = N * d + N * (N - 1 - d) + N + N
    BY <1>1, <2>0
  <2>3. N * d \in Nat /\ N * (N - 1 - d) \in Nat
    BY <2>0, <2>1
  <2>4. N * d + e \in Nat /\ N * d + e <= N * (N + 1) - 1
    BY <1>1, <2>0, <2>2, <2>3
  <2>5. N * (N + 1) \in Nat
    BY <1>1, <2>1
  <2>. QED  BY <1>2, <2>4, <2>5
<1>. QED  BY <1>3, <1>4 DEF N

\* The order in which the schedules for the cache are made.
LEMMA NextPair ==
    ASSUME code \in Codes, NEW d \in Devices, NEW e \in Devices, e <= d
    PROVE  CacheOrder(DevicePair(d, e)) =
              IF d # e THEN DevicePair(d, e + 1)
              ELSE IF d = k + m - 1 THEN NULL ELSE DevicePair(d + 1, 0)
<1>1. d \in Nat /\ e \in Nat
  BY DevicesFinite
<1>2. CASE d = e
  <2>1. DevicePair(d, e) = <<d>> /\ DevicePair(d + 1, 0) = <<d + 1, 0>>
    BY <1>1, <1>2 DEF DevicePair
  <2>2. CacheOrder(<<d>>) = IF d = k + m - 1 THEN NULL ELSE <<d + 1, 0>>
    BY DEF CacheOrder
  <2>. QED  BY <1>2, <2>1, <2>2
<1>3. CASE d # e
  <2>1. DevicePair(d, e) = <<d, e>> /\ DevicePair(d, e + 1) = IF e + 1 = d THEN <<d>> ELSE <<d, e + 1>>
    BY <1>3 DEF DevicePair
  <2>2. CacheOrder(<<d, e>>) = IF e + 1 = d THEN <<d>> ELSE <<d, e + 1>>
    BY DEF CacheOrder
  <2>. QED  BY <1>3, <2>1, <2>2
<1>. QED  BY <1>2, <1>3
-----------------------------------------------------------------------------
(* What is in the lost packets *)

Making == pc \in {"triangle", "back", "data", "coding"}
Unwritten(p) == p \div w \in Lost => packets[p] = Garbage

FilledSlot(d, e) == Len(scache[Slot(d, e)]) = Size(d, e) * w
Earlier(x, y, d, e) == y <= x /\ (x < d \/ (x = d /\ y < e))

\* The cache is filled in CacheOrder, and nobody uses it before that is done.
CacheIs ==
    IF caller = "cache" /\ Making
    THEN /\ scache = [x \in 0..(k+m)*(k+m+1)-1 |-> scache[x]]
         /\ \E d, e \in Devices :
               /\ e <= d /\ erasures = DevicePair(d, e)
               /\ \A x, y \in Devices :
                     Earlier(x, y, d, e) => FilledSlot(x, y) /\ FilledSlot(y, x)
    ELSE scache # NULL => \A x, y \in Devices : FilledSlot(x, y)

LazyIs == caller = "lazy" /\ Making => \A p \in DOMAIN packets : Unwritten(p)

\* Packets are written in the order of their devices' places.
Turn(p) == Packet(Place(Lost, p \div w), p % w) + 1
PerformIs ==
    pc = "perform" =>
        /\ op \in Nat \ {0} /\ Len(schedule) = Cardinality(Lost) * w
        /\ \A p \in DOMAIN packets : Turn(p) >= op => Unwritten(p)

\* The lost data devices still to be decoded.
Ahead == {d \in LostData : drive <= d}
DotprodIs ==
    (caller = "bitmatrix" /\ Making) \/ pc = "dotprod" =>
        /\ drive \in 0..lastdrive /\ lastdrive \in Lost \cup {k} /\ lastdrive <= k
        /\ pc # "dotprod" => drive = 0
        /\ \A d \in LostData : d <= lastdrive
        /\ edd = Cardinality(Ahead)
        /\ \A p \in DOMAIN packets : p \div w >= drive => Unwritten(p)

ReencodeIs ==
    pc = "reencode" =>
        /\ drive \in Nat
        /\ \A p \in DOMAIN packets : p \div w >= k + drive => Unwritten(p)

DecodeInvariant ==
    /\ code \in Codes /\ DOMAIN packets = 0..(k+m)*w-1 /\ Lost \in SUBSET Devices
    /\ CacheIs /\ LazyIs /\ PerformIs /\ DotprodIs /\ ReencodeIs

LEMMA DecodeInitially == BInit => DecodeInvariant
<1> SUFFICES ASSUME BInit PROVE DecodeInvariant
  OBVIOUS
<1> USE DEF BInit, Init
<1>1. Lost = {}
  BY DEF Lost, ToSet
<1>. QED
  BY <1>1 DEF DecodeInvariant, Stored, Making, CacheIs, LazyIs, PerformIs, DotprodIs, ReencodeIs

\* While a schedule or an inverse is made, nothing is written.
LEMMA MakingSteps ==
    ASSUME DecodeInvariant, Making, caller' = caller, pc' # "perform", pc' # "reencode",
           Making' \/ (pc' = "dotprod" /\ caller = "bitmatrix") \/ (pc' = "idle" /\ caller = "bitmatrix"),
           UNCHANGED <<code, scache, erasures, packets, bvars>>
    PROVE  DecodeInvariant'
<1>1. /\ Lost' = Lost /\ k' = k /\ m' = m /\ w' = w /\ Devices' = Devices
      /\ LostData' = LostData /\ Ahead' = Ahead
  BY SameCode DEF Lost, LostData, Ahead, bvars
<1>2. CacheIs'
  <2>1. CASE caller = "cache"
    BY <1>1, <2>1 DEF DecodeInvariant, CacheIs, FilledSlot, Slot
  <2>2. CASE caller # "cache"
    BY <1>1, <2>2 DEF DecodeInvariant, CacheIs, FilledSlot, Slot
  <2>. QED  BY <2>1, <2>2
<1>3. LazyIs'
  BY <1>1 DEF DecodeInvariant, LazyIs, Unwritten
<1>4. DotprodIs'
  BY <1>1 DEF DecodeInvariant, DotprodIs, Unwritten, bvars, Making
<1>5. PerformIs' /\ ReencodeIs'
  BY DEF PerformIs, ReencodeIs
<1>. QED  BY <1>1, <1>2, <1>3, <1>4, <1>5 DEF DecodeInvariant

\* The cache is begun with the first device.
LEMMA BeginCacheStep ==
    ASSUME DecodeInvariant, BeginCache, UNCHANGED bvars
    PROVE  DecodeInvariant'
<1>1. /\ erasures' = <<0>> /\ code' = code /\ packets' = packets /\ caller' = "cache"
      /\ pc' \in {"triangle", "coding"} /\ scache' = [x \in 0..(k+m)*(k+m+1)-1 |-> NULL]
  BY DEF BeginCache, Generate
<1>2. k' = k /\ m' = m /\ w' = w /\ Devices' = Devices
  BY <1>1, SameCode
<1>3. code \in Codes /\ 0 \in Devices /\ \A x \in Devices : x \in Nat
  BY CodeIs, DevicesFinite DEF DecodeInvariant, Devices
<1>4. DevicePair(0, 0) = <<0>> /\ Lost' = {0}
  BY <1>1 DEF DevicePair, Lost, ToSet
<1>5. CacheIs'
  <2>1. scache' = [x \in 0..(k+m)*(k+m+1)-1 |-> scache'[x]]
    BY <1>1
  <2>2. \A x, y \in Devices : ~Earlier(x, y, 0, 0)
    BY <1>3 DEF Earlier
  <2>3. (caller = "cache" /\ Making)'
    BY <1>1 DEF Making
  <2>. QED  BY <1>1, <1>2, <1>3, <1>4, <2>1, <2>2, <2>3 DEF CacheIs
<1>6. LazyIs' /\ PerformIs' /\ DotprodIs' /\ ReencodeIs'
  BY <1>1 DEF LazyIs, PerformIs, DotprodIs, ReencodeIs
<1>. QED  BY <1>1, <1>2, <1>3, <1>4, <1>5, <1>6 DEF DecodeInvariant

\* A pair of devices is entered in the cache, and the next one begun if there
\* is one.
PairEntered(d, e) ==
    /\ scache' = [x \in 0..(k+m)*(k+m+1)-1 |-> scache'[x]]
    /\ Len(decoding_rows) = Size(d, e) * w
    /\ \A x, y \in Devices :
          scache'[Slot(x, y)] = IF {x, y} = {d, e} THEN decoding_rows ELSE scache[Slot(x, y)]
    /\ \/ /\ pc' = "idle" /\ erasures' = <<>>
          /\ \A x, y \in Devices : y <= x => Earlier(x, y, d, e) \/ (x = d /\ y = e)
       \/ /\ pc' \in {"triangle", "coding"} /\ Generate(erasures')
          /\ \E x, y \in Devices :
                /\ y <= x /\ erasures' = DevicePair(x, y)
                /\ \A a, b \in Devices :
                      Earlier(a, b, x, y) => Earlier(a, b, d, e) \/ (a = d /\ b = e)

LEMMA CacheProgress ==
    ASSUME code \in Codes, scache = [x \in 0..(k+m)*(k+m+1)-1 |-> scache[x]],
           NEW d \in Devices, NEW e \in Devices, e <= d, erasures = DevicePair(d, e), CacheSchedule
    PROVE  PairEntered(d, e)
<1> DEFINE N == k + m
<1>1. N \in Nat /\ Devices = 0..N-1 /\ (\A x \in Devices : x \in Nat) /\ N - 1 = k + m - 1
  <2>1. N \in Nat /\ N - 1 = k + m - 1
    BY CodeIs
  <2>2. Devices = 0..N-1
    BY <2>1 DEF Devices
  <2>. QED  BY <2>1, <2>2
<1>2. /\ \A x, y \in Devices : Slot(x, y) = Slot(d, e) => x = d /\ y = e
      /\ \A x, y \in Devices : Slot(x, y) = Slot(e, d) => x = e /\ y = d
      /\ \A x, y \in Devices : Slot(x, y) \in 0..(k+m)*(k+m+1)-1
  BY SlotIs
<1>3. CacheOrder(erasures) =
         IF d # e THEN DevicePair(d, e + 1)
         ELSE IF d = N - 1 THEN NULL ELSE DevicePair(d + 1, 0)
  <2>1. CacheOrder(DevicePair(d, e)) =
           IF d # e THEN DevicePair(d, e + 1)
           ELSE IF d = k + m - 1 THEN NULL ELSE DevicePair(d + 1, 0)
    BY NextPair
  <2>. QED  BY <1>1, <2>1
<1>4. /\ scache' = [scache EXCEPT ![Slot(d, e)] = decoding_rows, ![Slot(e, d)] = decoding_rows]
      /\ Len(decoding_rows) = Size(d, e) * w
  <2>1. Index(erasures) = Slot(d, e) /\ Index(Reverse(erasures)) = Slot(e, d)
    BY PairIs
  <2>2. Cardinality(Lost) = Size(d, e)
    BY PairIs DEF Lost
  <2>. QED  BY <2>1, <2>2 DEF CacheSchedule
<1>5. scache' = [x \in 0..(k+m)*(k+m+1)-1 |-> scache'[x]]
  BY <1>4
<1>6. ASSUME NEW x \in Devices, NEW y \in Devices
      PROVE  scache'[Slot(x, y)] = IF {x, y} = {d, e} THEN decoding_rows ELSE scache[Slot(x, y)]
  <2>1. Slot(x, y) = Slot(d, e) \/ Slot(x, y) = Slot(e, d) <=> {x, y} = {d, e}
    <3>1. {x, y} = {d, e} <=> ((x = d /\ y = e) \/ (x = e /\ y = d))
      OBVIOUS
    <3>. QED  BY <1>2, <3>1
  <2>2. scache'[Slot(x, y)] = IF Slot(x, y) = Slot(d, e) \/ Slot(x, y) = Slot(e, d)
                              THEN decoding_rows ELSE scache[Slot(x, y)]
    BY <1>2, <1>4
  <2>. QED  BY <2>1, <2>2
<1>7. CASE CacheOrder(erasures) = NULL
  <2>1. pc' = "idle" /\ erasures' = <<>>
    BY <1>7 DEF CacheSchedule
  <2>2. d = e /\ d = N - 1
    <3>1. \A x, y \in Devices : DevicePair(x, y) # NULL
      <4>1. \A x, y \in Devices : DevicePair(x, y) \in Seq(Nat)
        BY <1>1 DEF DevicePair
      <4>. QED  BY <4>1, NullAssumption
    <3>2. d # e => e + 1 \in Devices
      BY <1>1
    <3>3. d # N - 1 => d + 1 \in Devices /\ 0 \in Devices
      BY <1>1
    <3>. QED  BY <1>3, <1>7, <3>1, <3>2, <3>3
  <2>3. ASSUME NEW x \in Devices, NEW y \in Devices, y <= x
        PROVE  Earlier(x, y, d, e) \/ (x = d /\ y = e)
    <3>1. x \in 0..N-1 /\ y \in 0..N-1
      BY <1>1
    <3>. QED  BY <1>1, <2>2, <2>3, <3>1 DEF Earlier
  <2>. QED  BY <1>4, <1>5, <1>6, <2>1, <2>3 DEF PairEntered
<1>8. CASE CacheOrder(erasures) # NULL
  <2>1. Generate(CacheOrder(erasures))
    BY <1>8 DEF CacheSchedule
  <2>2. Generate(erasures') /\ erasures' = CacheOrder(erasures) /\ pc' \in {"triangle", "coding"}
    <3>1. erasures' = CacheOrder(erasures)
      BY <2>1 DEF Generate
    <3>. QED  BY <2>1, <3>1 DEF Generate
  <2>3. \E x, y \in Devices :
           /\ y <= x /\ erasures' = DevicePair(x, y)
           /\ \A a, b \in Devices :
                 Earlier(a, b, x, y) => Earlier(a, b, d, e) \/ (a = d /\ b = e)
    <3>1. CASE d # e
      <4>1. e + 1 \in Devices /\ e + 1 <= d
        BY <1>1, <3>1
      <4>2. ASSUME NEW a \in Devices, NEW b \in Devices, Earlier(a, b, d, e + 1)
            PROVE  Earlier(a, b, d, e) \/ (a = d /\ b = e)
        BY <1>1, <4>2 DEF Earlier
      <4>. QED  BY <1>3, <2>2, <3>1, <4>1, <4>2
    <3>2. CASE d = e
      <4>1. d # N - 1
        BY <1>3, <1>8, <3>2
      <4>2. d + 1 \in Devices /\ 0 \in Devices /\ 0 <= d + 1
        BY <1>1, <4>1
      <4>3. ASSUME NEW a \in Devices, NEW b \in Devices, Earlier(a, b, d + 1, 0)
            PROVE  Earlier(a, b, d, e) \/ (a = d /\ b = e)
        BY <1>1, <3>2, <4>3 DEF Earlier
      <4>. QED  BY <1>3, <2>2, <3>2, <4>1, <4>2, <4>3
    <3>. QED  BY <3>1, <3>2
  <2>. QED  BY <1>4, <1>5, <1>6, <2>2, <2>3 DEF PairEntered
<1>. QED  BY <1>7, <1>8

LEMMA CacheScheduleStep ==
    ASSUME DecodeInvariant, CacheSchedule, UNCHANGED bvars
    PROVE  DecodeInvariant'
<1>0. code \in Codes /\ \A x \in Devices : x \in Nat
  BY DevicesFinite DEF DecodeInvariant
<1>1. caller = "cache" /\ Making /\ code' = code /\ packets' = packets /\ caller' = caller
  BY DEF CacheSchedule, Making
<1>2. k' = k /\ m' = m /\ w' = w /\ Devices' = Devices
  BY <1>1, SameCode
<1>3. scache = [x \in 0..(k+m)*(k+m+1)-1 |-> scache[x]]
  BY <1>1 DEF DecodeInvariant, CacheIs
<1>4. PICK d \in Devices, e \in Devices :
         /\ e <= d /\ erasures = DevicePair(d, e)
         /\ \A x, y \in Devices : Earlier(x, y, d, e) => FilledSlot(x, y) /\ FilledSlot(y, x)
  BY <1>1 DEF DecodeInvariant, CacheIs
<1>5. /\ scache' = [x \in 0..(k+m)*(k+m+1)-1 |-> scache'[x]]
      /\ Len(decoding_rows) = Size(d, e) * w
      /\ \A x, y \in Devices :
            scache'[Slot(x, y)] = IF {x, y} = {d, e} THEN decoding_rows ELSE scache[Slot(x, y)]
      /\ \/ /\ pc' = "idle" /\ erasures' = <<>>
            /\ \A x, y \in Devices : y <= x => Earlier(x, y, d, e) \/ (x = d /\ y = e)
         \/ /\ pc' \in {"triangle", "coding"} /\ Generate(erasures')
            /\ \E x, y \in Devices :
                  /\ y <= x /\ erasures' = DevicePair(x, y)
                  /\ \A a, b \in Devices :
                        Earlier(a, b, x, y) => Earlier(a, b, d, e) \/ (a = d /\ b = e)
  <2>1. e <= d /\ erasures = DevicePair(d, e)
    BY <1>4
  <2>2. PairEntered(d, e)
    BY <1>0, <1>3, <2>1, CacheProgress
  <2>. QED  BY <2>2 DEF PairEntered
<1>6. ASSUME NEW x \in Devices, NEW y \in Devices, Earlier(x, y, d, e) \/ (x = d /\ y = e)
      PROVE  FilledSlot(x, y)' /\ FilledSlot(y, x)'
  <2>1. ASSUME NEW a \in Devices, NEW b \in Devices, FilledSlot(a, b) \/ {a, b} = {d, e}
        PROVE  FilledSlot(a, b)'
    <3>1. scache'[Slot(a, b)] = IF {a, b} = {d, e} THEN decoding_rows ELSE scache[Slot(a, b)]
      BY <1>5
    <3>2. {a, b} = {d, e} => Size(a, b) = Size(d, e)
      BY DEF Size
    <3>3. Len(scache'[Slot(a, b)]) = Size(a, b) * w
      BY <1>5, <2>1, <3>1, <3>2 DEF FilledSlot
    <3>. QED  BY <1>2, <3>3 DEF FilledSlot, Slot, Size
  <2>2. (FilledSlot(x, y) /\ FilledSlot(y, x)) \/ ({x, y} = {d, e} /\ {y, x} = {d, e})
    BY <1>4, <1>6
  <2>. QED  BY <2>1, <2>2
<1>7. CASE /\ pc' = "idle" /\ erasures' = <<>>
           /\ \A x, y \in Devices : y <= x => Earlier(x, y, d, e) \/ (x = d /\ y = e)
  <2>1. \A x, y \in Devices : FilledSlot(x, y)'
    <3> TAKE x, y \in Devices
    <3>1. x <= y \/ y <= x
      BY <1>0
    <3>. QED  BY <1>6, <1>7, <3>1
  <2>2. CacheIs'
    BY <1>2, <1>7, <2>1 DEF CacheIs, Making
  <2>3. LazyIs' /\ PerformIs' /\ DotprodIs' /\ ReencodeIs'
    BY <1>1, <1>7 DEF LazyIs, PerformIs, DotprodIs, ReencodeIs, Making
  <2>4. Lost' = {}
    BY <1>7 DEF Lost, ToSet
  <2>. QED  BY <1>0, <1>1, <1>2, <2>2, <2>3, <2>4 DEF DecodeInvariant
<1>8. CASE pc' \in {"triangle", "coding"}
  <2>1. PICK x \in Devices, y \in Devices :
           /\ y <= x /\ erasures' = DevicePair(x, y)
           /\ \A a, b \in Devices :
                 Earlier(a, b, x, y) => Earlier(a, b, d, e) \/ (a = d /\ b = e)
    BY <1>5, <1>8
  <2>2. CacheIs'
    <3>1. (caller = "cache" /\ Making)'
      BY <1>1, <1>8 DEF Making
    <3>2. \A a, b \in Devices : Earlier(a, b, x, y) => FilledSlot(a, b)' /\ FilledSlot(b, a)'
      BY <1>6, <2>1
    <3>. QED  BY <1>2, <1>5, <2>1, <3>1, <3>2 DEF CacheIs, Earlier
  <2>3. LazyIs' /\ PerformIs' /\ DotprodIs' /\ ReencodeIs'
    BY <1>1, <1>8 DEF LazyIs, PerformIs, DotprodIs, ReencodeIs, Making
  <2>4. Lost' = {x, y}
    <3>1. ToSet(DevicePair(x, y)) = {x, y}
      BY <1>0, PairIs
    <3>. QED  BY <2>1, <3>1 DEF Lost
  <2>. QED  BY <1>0, <1>1, <1>2, <2>2, <2>3, <2>4 DEF DecodeInvariant
<1>. QED  BY <1>5, <1>7, <1>8

\* A call loses its devices, and everything in them.
LEMMA CallMade ==
    ASSUME DecodeInvariant, NEW list \in Calls, Fail(list)
    PROVE  /\ ToSet(list) \in SUBSET Devices /\ Cardinality(ToSet(list)) = Len(list)
           /\ DOMAIN packets' = DOMAIN packets
           /\ \A p \in DOMAIN packets : p \div w \in ToSet(list) => packets'[p] = Garbage
BY CallIs DEF Fail, DecodeInvariant

LEMMA DecodeLazyStep ==
    ASSUME DecodeInvariant, NEW list \in Calls, DecodeLazy(list), UNCHANGED bvars
    PROVE  DecodeInvariant'
<1>1. /\ erasures' = list /\ code' = code /\ caller' = "lazy" /\ scache' = scache /\ Fail(list)
      /\ pc' \in {"idle", "triangle", "coding"} /\ pc = "idle"
  BY DEF DecodeLazy, Generate
<1>2. k' = k /\ m' = m /\ w' = w /\ Devices' = Devices /\ Lost' = ToSet(list)
  BY <1>1, SameCode DEF Lost
<1>3. CacheIs'
  <2>1. scache # NULL => \A x, y \in Devices : FilledSlot(x, y)
    BY <1>1 DEF DecodeInvariant, CacheIs, Making
  <2>. QED  BY <1>1, <1>2, <2>1 DEF CacheIs, FilledSlot, Slot
<1>4. LazyIs'
  BY <1>1, <1>2, CallMade DEF LazyIs, Unwritten
<1>5. PerformIs' /\ DotprodIs' /\ ReencodeIs'
  BY <1>1 DEF PerformIs, DotprodIs, ReencodeIs
<1>. QED  BY <1>1, <1>2, <1>3, <1>4, <1>5, CallMade DEF DecodeInvariant

LEMMA LazyScheduleStep ==
    ASSUME DecodeInvariant, LazySchedule, UNCHANGED bvars
    PROVE  DecodeInvariant'
<1>1. /\ code' = code /\ scache' = scache /\ erasures' = erasures /\ packets' = packets
      /\ caller' = "lazy" /\ caller = "lazy" /\ pc' = "perform" /\ Making
      /\ op' = 1 /\ schedule' = decoding_rows
      /\ Len(decoding_rows) = Cardinality(Lost) * w
  BY DEF LazySchedule, Making
<1>2. /\ Lost' = Lost /\ k' = k /\ m' = m /\ w' = w /\ Devices' = Devices
  BY <1>1, SameCode DEF Lost
<1>3. CacheIs'
  BY <1>1, <1>2 DEF DecodeInvariant, CacheIs, FilledSlot, Slot
<1>4. PerformIs'
  BY <1>1, <1>2 DEF DecodeInvariant, PerformIs, LazyIs, Unwritten
<1>5. LazyIs' /\ DotprodIs' /\ ReencodeIs'
  BY <1>1 DEF LazyIs, DotprodIs, ReencodeIs, Making
<1>. QED  BY <1>1, <1>2, <1>3, <1>4, <1>5 DEF DecodeInvariant

LEMMA DecodeCacheStep ==
    ASSUME DecodeInvariant, NEW list \in Calls, DecodeCache(list), UNCHANGED bvars
    PROVE  DecodeInvariant'
<1>1. /\ erasures' = list /\ code' = code /\ caller' = caller /\ scache' = scache /\ Fail(list)
      /\ pc' \in {"idle", "perform"} /\ pc = "idle" /\ scache # NULL
      /\ pc' = "perform" => Len(list) <= 2 /\ schedule' = scache[Index(list)] /\ op' = 1
  <2>1. Len(list) \in Nat
    BY CallIs DEF DecodeInvariant
  <2>. QED  BY <2>1 DEF DecodeCache
<1>2. k' = k /\ m' = m /\ w' = w /\ Devices' = Devices /\ Lost' = ToSet(list)
  BY <1>1, SameCode DEF Lost
<1>3. \A x, y \in Devices : FilledSlot(x, y)
  BY <1>1 DEF DecodeInvariant, CacheIs, Making
<1>4. CacheIs'
  BY <1>1, <1>2, <1>3 DEF CacheIs, FilledSlot, Slot, Making
<1>5. PerformIs'
  <2> SUFFICES ASSUME pc' = "perform" PROVE PerformIs'
    BY DEF PerformIs
  <2>1. code \in Codes /\ Len(list) <= 2
    BY <1>1 DEF DecodeInvariant
  <2>2. PICK d \in Devices, e \in Devices : list = DevicePair(d, e)
    BY <2>1, PairExists
  <2>3. Len(scache[Index(list)]) = Cardinality(ToSet(list)) * w
    <3>1. /\ Len(DevicePair(d, e)) = Size(d, e) /\ Index(DevicePair(d, e)) = Slot(d, e)
          /\ ToSet(DevicePair(d, e)) = {d, e} /\ Cardinality({d, e}) = Size(d, e)
      BY <2>1, PairIs
    <3>2. FilledSlot(d, e)
      BY <1>3
    <3>. QED  BY <2>2, <3>1, <3>2 DEF FilledSlot
  <2>4. \A p \in DOMAIN packets' : Unwritten(p)'
    BY <1>2, CallMade, <1>1 DEF Unwritten
  <2>. QED  BY <1>1, <1>2, <2>3, <2>4 DEF PerformIs
<1>6. LazyIs' /\ DotprodIs' /\ ReencodeIs'
  BY <1>1 DEF LazyIs, DotprodIs, ReencodeIs, Making
<1>. QED  BY <1>1, <1>2, <1>4, <1>5, <1>6, CallMade DEF DecodeInvariant

\* A step writes lost packets only, and none that has been written.
Writes == \A p \in DOMAIN packets :
             packets'[p] # packets[p] => p \div w \in Lost /\ packets[p] = Garbage

LEMMA PerformStep ==
    ASSUME DecodeInvariant, Perform, UNCHANGED bvars
    PROVE  DecodeInvariant' /\ Writes
<1> DEFINE x == (op - 1) \div w
           y == (op - 1) % w
           dest == Packet(row_ids[k + x], y)
<1>0. code \in Codes /\ Lost \in SUBSET Devices /\ DOMAIN packets = 0..(k+m)*w-1
  BY DEF DecodeInvariant
<1>1. /\ code' = code /\ scache' = scache /\ erasures' = erasures /\ schedule' = schedule
      /\ caller' = caller /\ pc' = "perform" /\ pc = "perform" /\ op' = op + 1 /\ op <= Len(schedule)
  BY DEF Perform
<1>2. /\ op \in Nat \ {0} /\ Len(schedule) = Cardinality(Lost) * w
      /\ \A p \in DOMAIN packets : Turn(p) >= op => Unwritten(p)
  BY <1>1 DEF DecodeInvariant, PerformIs
<1>3. /\ DOMAIN packets' = DOMAIN packets
      /\ \A p \in DOMAIN packets : packets'[p] # packets[p] => p = dest
  <2>1. \E v : packets' = IF schedule[op] = {} THEN packets ELSE [packets EXCEPT ![dest] = v]
    BY DEF Perform
  <2> HIDE DEF dest
  <2>. QED  BY <2>1
<1>4. w \in Nat \ {0} /\ Cardinality(Lost) \in Nat /\ Lost \subseteq Nat
  BY <1>0, CodeIs, DevicesFinite
<1>5. x \in Nat /\ x < Cardinality(Lost) /\ y \in 0..w-1 /\ op - 1 = Packet(x, y)
  <2>1. op - 1 \in Nat /\ op - 1 < Cardinality(Lost) * w
    <3>1. Cardinality(Lost) * w \in Nat
      BY <1>4
    <3>. QED  BY <1>1, <1>2, <3>1
  <2>. QED  BY <1>0, <1>4, <2>1, DeviceIs
<1>6. row_ids[k + x] \in Lost /\ Place(Lost, row_ids[k + x]) = x
  <2>1. x \in 0..Cardinality(Lost)-1
    BY <1>4, <1>5
  <2>2. \A z \in 0..Cardinality(Lost)-1 : LET d == RowIds(Lost)[k + z] IN d \in Lost /\ Place(Lost, d) = z
    BY <1>0, LostPlace
  <2> HIDE DEF x
  <2>. QED  BY <2>1, <2>2 DEF row_ids
<1>7. dest \div w \in Lost /\ dest \div w = row_ids[k + x] /\ dest % w = y
  <2>1. row_ids[k + x] \in Nat
    BY <1>4, <1>6
  <2> HIDE DEF x, y
  <2>. QED  BY <1>0, <1>5, <1>6, <2>1, PacketIs
<1>8. Turn(dest) = op
  <2> HIDE DEF x, y
  <2>1. Turn(dest) = Packet(x, y) + 1
    BY <1>6, <1>7 DEF Turn
  <2>. QED  BY <1>2, <1>5, <2>1
<1> HIDE DEF dest, x, y
<1>9. Writes
  <2> SUFFICES ASSUME NEW p \in DOMAIN packets, packets'[p] # packets[p]
               PROVE  p \div w \in Lost /\ packets[p] = Garbage
    BY DEF Writes
  <2>1. p = dest
    BY <1>3
  <2>2. Turn(p) >= op
    BY <1>2, <1>8, <2>1
  <2>. QED  BY <1>2, <1>7, <2>1, <2>2 DEF Unwritten
<1>10. /\ Lost' = Lost /\ k' = k /\ m' = m /\ w' = w /\ Devices' = Devices
       /\ \A p : Turn(p)' = Turn(p)
  <2>1. /\ Lost' = Lost /\ k' = k /\ m' = m /\ w' = w /\ Devices' = Devices
    BY <1>1, SameCode DEF Lost
  <2>. QED  BY <2>1 DEF Turn, Packet, Place
<1>11. CacheIs'
  BY <1>1, <1>10 DEF DecodeInvariant, CacheIs, Making, FilledSlot, Slot
<1>12. PerformIs'
  <2>1. ASSUME NEW p \in DOMAIN packets, Turn(p) >= op + 1, p \div w \in Lost
        PROVE  packets'[p] = Garbage
    <3>1. Turn(p) \in Int
      <4>1. p \div w \in Nat /\ p % w \in Nat /\ Place(Lost, p \div w) \in Nat
        <5>1. p \in Nat
          BY <1>0, <1>4, CodeIs
        <5>2. p % w \in 0..w-1 /\ p \div w \in Nat
          BY <1>0, <5>1, DeviceIs
        <5>3. Place(Lost, p \div w) \in 0..Cardinality(Lost)-1
          BY <1>0, <1>4, <2>1, PlaceIs, DevicesFinite
        <5>. QED  BY <1>4, <5>2, <5>3
      <4>. QED  BY <1>4, <4>1 DEF Turn, Packet
    <3>2. Turn(p) >= op /\ p # dest
      BY <1>2, <1>8, <2>1, <3>1
    <3>. QED  BY <1>2, <1>3, <2>1, <3>2 DEF Unwritten
  <2>. QED  BY <1>1, <1>2, <1>3, <1>10, <2>1 DEF PerformIs, Unwritten
<1>13. LazyIs' /\ DotprodIs' /\ ReencodeIs'
  BY <1>1 DEF LazyIs, DotprodIs, ReencodeIs, Making
<1>. QED  BY <1>0, <1>1, <1>3, <1>9, <1>10, <1>11, <1>12, <1>13 DEF DecodeInvariant

LEMMA ReturnStep ==
    ASSUME DecodeInvariant, Return \/ BReturn
    PROVE  DecodeInvariant' /\ packets' = packets
<1>1. /\ code' = code /\ scache' = scache /\ erasures' = <<>> /\ packets' = packets
      /\ pc' = "idle" /\ pc \notin {"triangle", "back", "data", "coding"}
  BY DEF Return, BReturn
<1>2. k' = k /\ m' = m /\ w' = w /\ Devices' = Devices /\ Lost' = {}
  BY <1>1, SameCode DEF Lost, ToSet
<1>3. CacheIs'
  BY <1>1, <1>2 DEF DecodeInvariant, CacheIs, Making, FilledSlot, Slot
<1>4. LazyIs' /\ PerformIs' /\ DotprodIs' /\ ReencodeIs'
  BY <1>1 DEF LazyIs, PerformIs, DotprodIs, ReencodeIs, Making
<1>. QED  BY <1>1, <1>2, <1>3, <1>4 DEF DecodeInvariant

\* The last of the lost data devices.
LEMMA LastData ==
    ASSUME code \in Codes, NEW S \in SUBSET Devices, NEW T, T = {d \in S : d < k}, T # {}
    PROVE  Max(T) \in T /\ Max(T) \in 0..k-1 /\ \A d \in T : d <= Max(T)
<1>1. k \in Nat \ {0} /\ S \subseteq Nat
  BY CodeIs, DevicesFinite
<1>2. T \in SUBSET (0..k-1) /\ k - 1 \in Nat
  <2>1. \A d \in T : d \in Nat /\ d < k
    BY <1>1
  <2>2. \A d \in T : d \in 0..k-1
    BY <1>1, <2>1
  <2>3. k - 1 \in Nat
    BY <1>1
  <2>4. T \in SUBSET (0..k-1)
    BY <2>2, Zenon
  <2>. QED  BY <2>3, <2>4
<1>3. \E c \in T : \A e \in T : e <= c
  BY <1>2, GreatestOf
<1>4. \E c \in T : \A e \in T : c >= e
  BY <1>2, <1>3
<1>5. Max(T) \in T /\ \A e \in T : Max(T) >= e
  BY <1>4 DEF Max
<1>. QED  BY <1>2, <1>5

LEMMA DecodeBitmatrixStep ==
    ASSUME DecodeInvariant, NEW list \in Calls, NEW ones \in BOOLEAN, DecodeBitmatrix(list, ones)
    PROVE  DecodeInvariant'
<1> DEFINE data == {d \in ToSet(list) : d < k}
           parity == ones /\ k \notin ToSet(list)
<1>0. code \in Codes /\ k \in Nat \ {0}
  BY CodeIs DEF DecodeInvariant
<1>1. /\ erasures' = list /\ code' = code /\ caller' = "bitmatrix" /\ scache' = scache /\ Fail(list)
      /\ pc' \in {"idle", "triangle", "dotprod"} /\ pc = "idle"
      /\ edd' = Cardinality(data) /\ drive' = 0
      /\ lastdrive' = IF parity /\ data # {} THEN Max(data) ELSE k
  BY DEF DecodeBitmatrix
<1>2. k' = k /\ m' = m /\ w' = w /\ Devices' = Devices /\ Lost' = ToSet(list) /\ LostData' = data
  <2>1. k' = k /\ m' = m /\ w' = w /\ Devices' = Devices /\ Lost' = ToSet(list)
    BY <1>1, SameCode DEF Lost
  <2>. QED  BY <2>1 DEF LostData
<1>3. CacheIs'
  <2>1. scache # NULL => \A x, y \in Devices : FilledSlot(x, y)
    BY <1>1 DEF DecodeInvariant, CacheIs, Making
  <2>. QED  BY <1>1, <1>2, <2>1 DEF CacheIs, FilledSlot, Slot
<1>4. DotprodIs'
  <2>1. ToSet(list) \in SUBSET Devices /\ ToSet(list) \subseteq Nat
    BY <1>0, CallMade, <1>1, DevicesFinite
  <2>2. /\ lastdrive' \in ToSet(list) \cup {k} /\ lastdrive' \in 0..k
        /\ \A d \in data : d <= lastdrive'
    <3>1. CASE parity /\ data # {}
      <4>1. Max(data) \in data /\ Max(data) \in 0..k-1 /\ \A d \in data : d <= Max(data)
        BY <1>0, <2>1, <3>1, LastData
      <4>. QED  BY <1>0, <1>1, <3>1, <4>1
    <3>2. CASE ~(parity /\ data # {})
      <4>1. \A d \in data : d <= k
        BY <1>0, <2>1
      <4> HIDE DEF data, parity
      <4>. QED  BY <1>0, <1>1, <3>2, <4>1
    <3>. QED  BY <3>1, <3>2
  <2>3. Ahead' = data
    BY <1>1, <1>2, <2>1 DEF Ahead
  <2>4. \A p \in DOMAIN packets' : Unwritten(p)'
    BY <1>1, <1>2, CallMade DEF Unwritten
  <2> HIDE DEF data, parity
  <2>5. 0 \in 0..lastdrive' /\ lastdrive' <= k
    BY <1>0, <2>2
  <2>. QED  BY <1>1, <1>2, <2>2, <2>3, <2>4, <2>5 DEF DotprodIs
<1>5. LazyIs' /\ PerformIs' /\ ReencodeIs'
  BY <1>1 DEF LazyIs, PerformIs, ReencodeIs
<1>. QED  BY <1>1, <1>2, <1>3, <1>4, <1>5, CallMade DEF DecodeInvariant

\* Of the devices, only dest is written.
LEMMA DotprodWrites ==
    ASSUME NEW rows, NEW ids, NEW dest, Dotprod(rows, ids, dest)
    PROVE  /\ DOMAIN packets' = DOMAIN packets
           /\ \A p \in DOMAIN packets : packets'[p] # packets[p] => p \div w = dest
BY DEF Dotprod

LEMMA DotprodDataStep ==
    ASSUME DecodeInvariant, DotprodData
    PROVE  DecodeInvariant' /\ Writes
<1>0. code \in Codes /\ k \in Nat /\ Lost \in SUBSET Devices /\ Lost \subseteq Nat
      /\ DOMAIN packets = 0..(k+m)*w-1
  BY CodeIs, DevicesFinite DEF DecodeInvariant
<1>1. /\ erasures' = erasures /\ code' = code /\ caller' = caller /\ scache' = scache
      /\ pc' = "dotprod" /\ pc = "dotprod" /\ drive' = drive + 1 /\ drive < lastdrive /\ lastdrive' = lastdrive
      /\ IF drive \in Lost THEN edd' = edd - 1 ELSE packets' = packets /\ edd' = edd
  BY DEF DotprodData, unchanged_but_packets
<1>2. /\ drive \in 0..lastdrive /\ lastdrive \in Lost \cup {k} /\ lastdrive <= k
      /\ \A d \in LostData : d <= lastdrive
      /\ edd = Cardinality(Ahead)
      /\ \A p \in DOMAIN packets : p \div w >= drive => Unwritten(p)
  BY <1>1 DEF DecodeInvariant, DotprodIs
<1>3. /\ DOMAIN packets' = DOMAIN packets
      /\ \A p \in DOMAIN packets : packets'[p] # packets[p] => p \div w = drive /\ drive \in Lost
  <2>1. CASE drive \in Lost
    <3>1. Dotprod([y \in 0..w-1 |-> inv[Packet(drive, y)]], dm_ids, drive)
      BY <2>1 DEF DotprodData
    <3>. QED  BY <2>1, <3>1, DotprodWrites
  <2>2. CASE drive \notin Lost
    BY <1>1, <2>2
  <2>. QED  BY <2>1, <2>2
<1>4. drive \in Nat /\ lastdrive \in Nat /\ drive + 1 \in 0..lastdrive /\ drive < k
  BY <1>0, <1>1, <1>2
<1>5. Writes
  <2> SUFFICES ASSUME NEW p \in DOMAIN packets, packets'[p] # packets[p]
               PROVE  p \div w \in Lost /\ packets[p] = Garbage
    BY DEF Writes
  <2>1. p \div w = drive /\ drive \in Lost
    BY <1>3
  <2>2. p \div w >= drive
    BY <1>4, <2>1
  <2>. QED  BY <1>2, <2>1, <2>2 DEF Unwritten
<1>6. k' = k /\ m' = m /\ w' = w /\ Devices' = Devices /\ Lost' = Lost /\ LostData' = LostData
  <2>1. k' = k /\ m' = m /\ w' = w /\ Devices' = Devices /\ Lost' = Lost
    BY <1>1, SameCode DEF Lost
  <2>. QED  BY <2>1 DEF LostData
<1>7. edd' = Cardinality(Ahead')
  <2>1. IsFiniteSet(Ahead) /\ Ahead' = {d \in LostData : drive + 1 <= d}
    <3>1. Ahead \in SUBSET Devices
      BY <1>0 DEF Ahead, LostData
    <3>. QED  BY <1>0, <1>1, <1>6, <3>1, DevicesFinite DEF Ahead
  <2>2. CASE drive \in Lost
    <3>1. drive \in Ahead /\ Ahead' = Ahead \ {drive}
      <4>1. \A d \in LostData : d \in Nat
        BY <1>0 DEF LostData
      <4>2. drive \in LostData
        BY <1>4, <2>2 DEF LostData
      <4>3. \A d \in LostData : drive + 1 <= d <=> (drive <= d /\ d # drive)
        BY <1>4, <4>1
      <4>4. drive \in Ahead
        BY <1>4, <4>2 DEF Ahead
      <4>5. Ahead \ {drive} = {d \in LostData : drive <= d /\ d # drive}
        BY DEF Ahead
      <4>6. {d \in LostData : drive + 1 <= d} = {d \in LostData : drive <= d /\ d # drive}
        BY <4>3
      <4>. QED  BY <2>1, <4>4, <4>5, <4>6
    <3>. QED  BY <1>1, <1>2, <2>1, <2>2, <3>1, FS_RemoveElement
  <2>3. CASE drive \notin Lost
    <3>1. Ahead' = Ahead
      <4>1. \A d \in LostData : d \in Nat /\ d # drive
        BY <1>0, <2>3 DEF LostData
      <4>2. \A d \in LostData : drive + 1 <= d <=> drive <= d
        BY <1>4, <4>1
      <4>. QED  BY <2>1, <4>2 DEF Ahead
    <3>. QED  BY <1>1, <1>2, <2>3, <3>1
  <2>. QED  BY <2>2, <2>3
<1>8. DotprodIs'
  <2>1. ASSUME NEW p \in DOMAIN packets, p \div w >= drive + 1, p \div w \in Lost
        PROVE  packets'[p] = Garbage
    <3>1. p \div w \in Nat
      BY <1>0, <2>1
    <3>2. p \div w >= drive /\ p \div w # drive
      BY <1>4, <2>1, <3>1
    <3>. QED  BY <1>2, <1>3, <2>1, <3>2 DEF Unwritten
  <2>. QED  BY <1>1, <1>2, <1>3, <1>4, <1>6, <1>7, <2>1 DEF DotprodIs, Unwritten
<1>9. CacheIs'
  BY <1>1, <1>6 DEF DecodeInvariant, CacheIs, Making, FilledSlot, Slot
<1>10. LazyIs' /\ PerformIs' /\ ReencodeIs'
  BY <1>1 DEF LazyIs, PerformIs, ReencodeIs, Making
<1>. QED  BY <1>0, <1>1, <1>3, <1>5, <1>6, <1>8, <1>9, <1>10 DEF DecodeInvariant

LEMMA DotprodLastStep ==
    ASSUME DecodeInvariant, DotprodLast
    PROVE  DecodeInvariant' /\ Writes
<1>0. /\ code \in Codes /\ k \in Nat /\ Lost \in SUBSET Devices /\ Lost \subseteq Nat
      /\ DOMAIN packets = 0..(k+m)*w-1 /\ w \in Nat \ {0} /\ m \in Nat
  BY CodeIs, DevicesFinite DEF DecodeInvariant
<1>1. /\ erasures' = erasures /\ code' = code /\ caller' = caller /\ scache' = scache
      /\ pc' = "reencode" /\ pc = "dotprod" /\ drive' = 0
      /\ ~(edd > 0 /\ drive < lastdrive)
      /\ ~(edd > 0) => packets' = packets
      /\ edd > 0 => Dotprod([y \in 0..w-1 |-> bitmatrix[y]], Others, lastdrive)
  BY DEF DotprodLast, unchanged_but_packets
<1>2. /\ drive \in 0..lastdrive /\ lastdrive \in Lost \cup {k} /\ lastdrive <= k
      /\ \A d \in LostData : d <= lastdrive
      /\ edd = Cardinality(Ahead)
      /\ \A p \in DOMAIN packets : p \div w >= drive => Unwritten(p)
  BY <1>1 DEF DecodeInvariant, DotprodIs
<1>3. edd > 0 => lastdrive \in Lost /\ lastdrive < k /\ drive = lastdrive
  <2> SUFFICES ASSUME edd > 0 PROVE lastdrive \in Lost /\ lastdrive < k /\ drive = lastdrive
    OBVIOUS
  <2>1. drive \in Nat /\ lastdrive \in Nat
    BY <1>0, <1>2
  <2>2. drive = lastdrive
    BY <1>1, <1>2, <2>1
  <2>3. Ahead # {}
    BY <1>2, FS_EmptySet
  <2>4. lastdrive # k
    <3> SUFFICES ASSUME lastdrive = k PROVE Ahead = {}
      BY <2>3
    <3>1. \A d \in LostData : d \in Nat /\ d < k
      BY <1>0 DEF LostData
    <3>2. \A d \in LostData : ~(drive <= d)
      BY <1>0, <2>2, <3>1
    <3>. QED  BY <3>2 DEF Ahead
  <2>. QED  BY <1>0, <1>2, <2>1, <2>2, <2>4
<1>4. /\ DOMAIN packets' = DOMAIN packets
      /\ \A p \in DOMAIN packets :
            packets'[p] # packets[p] => p \div w = lastdrive /\ edd > 0
  BY <1>1, DotprodWrites
<1>5. Writes
  <2> SUFFICES ASSUME NEW p \in DOMAIN packets, packets'[p] # packets[p]
               PROVE  p \div w \in Lost /\ packets[p] = Garbage
    BY DEF Writes
  <2>1. p \div w = lastdrive /\ lastdrive \in Lost /\ drive = lastdrive
    BY <1>3, <1>4
  <2>2. p \div w >= drive
    BY <1>0, <2>1
  <2>. QED  BY <1>2, <2>1, <2>2 DEF Unwritten
<1>6. k' = k /\ m' = m /\ w' = w /\ Devices' = Devices /\ Lost' = Lost
  BY <1>1, SameCode DEF Lost
<1>7. ReencodeIs'
  <2>1. ASSUME NEW p \in DOMAIN packets, p \div w >= k + 0, p \div w \in Lost
        PROVE  packets'[p] = Garbage
    <3>1. p \div w \in Nat /\ drive \in Nat /\ drive <= k
      BY <1>0, <1>2, <2>1
    <3>2. p \div w >= drive /\ (edd > 0 => p \div w # lastdrive)
      BY <1>0, <1>3, <2>1, <3>1
    <3>. QED  BY <1>2, <1>4, <2>1, <3>2 DEF Unwritten
  <2>. QED  BY <1>1, <1>4, <1>6, <2>1 DEF ReencodeIs, Unwritten
<1>8. CacheIs'
  BY <1>1, <1>6 DEF DecodeInvariant, CacheIs, Making, FilledSlot, Slot
<1>9. LazyIs' /\ PerformIs' /\ DotprodIs'
  BY <1>1 DEF LazyIs, PerformIs, DotprodIs, Making
<1>. QED  BY <1>0, <1>1, <1>4, <1>5, <1>6, <1>7, <1>8, <1>9 DEF DecodeInvariant

LEMMA ReencodeStep ==
    ASSUME DecodeInvariant, Reencode
    PROVE  DecodeInvariant' /\ Writes
<1>0. /\ code \in Codes /\ k \in Nat /\ Lost \in SUBSET Devices /\ Lost \subseteq Nat
      /\ DOMAIN packets = 0..(k+m)*w-1
  BY CodeIs, DevicesFinite DEF DecodeInvariant
<1>1. /\ erasures' = erasures /\ code' = code /\ caller' = caller /\ scache' = scache
      /\ pc' = "reencode" /\ pc = "reencode" /\ drive' = drive + 1
      /\ k + drive \notin Lost => packets' = packets
      /\ k + drive \in Lost => Dotprod([y \in 0..w-1 |-> bitmatrix[Packet(drive, y)]],
                                       [x \in 0..k-1 |-> x], k + drive)
  BY DEF Reencode, unchanged_but_packets
<1>2. /\ drive \in Nat
      /\ \A p \in DOMAIN packets : p \div w >= k + drive => Unwritten(p)
  BY <1>1 DEF DecodeInvariant, ReencodeIs
<1>3. /\ DOMAIN packets' = DOMAIN packets
      /\ \A p \in DOMAIN packets :
            packets'[p] # packets[p] => p \div w = k + drive /\ k + drive \in Lost
  BY <1>1, DotprodWrites
<1>4. Writes
  <2> SUFFICES ASSUME NEW p \in DOMAIN packets, packets'[p] # packets[p]
               PROVE  p \div w \in Lost /\ packets[p] = Garbage
    BY DEF Writes
  <2>1. p \div w = k + drive /\ k + drive \in Lost
    BY <1>3
  <2>2. p \div w >= k + drive
    BY <1>0, <1>2, <2>1
  <2>. QED  BY <1>2, <2>1, <2>2 DEF Unwritten
<1>5. k' = k /\ m' = m /\ w' = w /\ Devices' = Devices /\ Lost' = Lost
  BY <1>1, SameCode DEF Lost
<1>6. ReencodeIs'
  <2>1. ASSUME NEW p \in DOMAIN packets, p \div w >= k + (drive + 1), p \div w \in Lost
        PROVE  packets'[p] = Garbage
    <3>1. p \div w \in Nat
      BY <1>0, <2>1
    <3>2. p \div w >= k + drive /\ p \div w # k + drive
      BY <1>0, <1>2, <2>1, <3>1
    <3>. QED  BY <1>2, <1>3, <2>1, <3>2 DEF Unwritten
  <2>. QED  BY <1>1, <1>2, <1>3, <1>5, <2>1 DEF ReencodeIs, Unwritten
<1>7. CacheIs'
  BY <1>1, <1>5 DEF DecodeInvariant, CacheIs, Making, FilledSlot, Slot
<1>8. LazyIs' /\ PerformIs' /\ DotprodIs'
  BY <1>1 DEF LazyIs, PerformIs, DotprodIs, Making
<1>. QED  BY <1>0, <1>1, <1>3, <1>4, <1>5, <1>6, <1>7, <1>8 DEF DecodeInvariant

\* The other steps leave the packets alone, or are calls.
LEMMA DecodeInvariantSteps ==
    ASSUME DecodeInvariant, [BNext]_<<vars, bvars>>
    PROVE  DecodeInvariant' /\ (pc \in {"perform", "dotprod", "reencode"} => Writes)
<1>1. CASE UNCHANGED <<vars, bvars>>
  <2>1. Lost' = Lost /\ k' = k /\ m' = m /\ w' = w /\ Devices' = Devices /\ LostData' = LostData /\ Ahead' = Ahead
    BY <1>1, SameCode DEF Lost, LostData, Ahead, vars, bvars
  <2>2. CacheIs' /\ LazyIs' /\ PerformIs' /\ DotprodIs' /\ ReencodeIs'
    BY <1>1, <2>1 DEF DecodeInvariant, CacheIs, LazyIs, PerformIs, DotprodIs, ReencodeIs,
       Making, FilledSlot, Slot, Unwritten, Turn, Packet, Place, vars, bvars
  <2>. QED  BY <1>1, <2>1, <2>2 DEF DecodeInvariant, Writes, vars
<1>2. CASE (Triangle \/ Back \/ DataRows \/ CodingDevice) /\ UNCHANGED bvars
  BY <1>2, MakingSteps DEF Triangle, Back, DataRows, CodingDevice, Making, inverting
<1>3. CASE InverseMade
  BY <1>3, MakingSteps DEF InverseMade, Making
<1>4. CASE BeginCache /\ UNCHANGED bvars
  BY <1>4, BeginCacheStep DEF BeginCache
<1>5. CASE CacheSchedule /\ UNCHANGED bvars
  BY <1>5, CacheScheduleStep DEF CacheSchedule
<1>6. CASE LazySchedule /\ UNCHANGED bvars
  BY <1>6, LazyScheduleStep DEF LazySchedule
<1>7. CASE Perform /\ UNCHANGED bvars
  BY <1>7, PerformStep
<1>8. CASE (Return /\ UNCHANGED bvars) \/ BReturn
  BY <1>8, ReturnStep DEF Writes
<1>9. ASSUME NEW list \in Calls, DecodeLazy(list) \/ DecodeCache(list), UNCHANGED bvars
      PROVE  DecodeInvariant' /\ pc = "idle"
  BY <1>9, DecodeLazyStep, DecodeCacheStep DEF DecodeLazy, DecodeCache
<1>10. ASSUME NEW list \in Calls, NEW ones \in BOOLEAN, DecodeBitmatrix(list, ones)
       PROVE  DecodeInvariant' /\ pc = "idle"
  BY <1>10, DecodeBitmatrixStep DEF DecodeBitmatrix
<1>11. CASE DotprodData \/ DotprodLast \/ Reencode
  BY <1>11, DotprodDataStep, DotprodLastStep, ReencodeStep
<1>. QED
  BY <1>1, <1>2, <1>3, <1>4, <1>5, <1>6, <1>7, <1>8, <1>9, <1>10, <1>11 DEF BNext, Next, Step

\* Both ways of decoding, with schedules or with the bitmatrix itself, write
\* lost devices only, and each packet of them once.
THEOREM WritesLostOnceHolds == BSpec => WritesLostOnce
<1>1. BInit => DecodeInvariant
  BY DecodeInitially
<1>2. DecodeInvariant /\ [BNext]_<<vars, bvars>> => DecodeInvariant'
  BY DecodeInvariantSteps
<1>3. DecodeInvariant /\ [BNext]_<<vars, bvars>> =>
         [(pc \in {"perform", "dotprod", "reencode"}) =>
             \A p \in DOMAIN packets :
                packets'[p] # packets[p] => p \div w \in Lost /\ packets[p] = Garbage]_vars
  BY DecodeInvariantSteps DEF Writes
<1>. QED  BY <1>1, <1>2, <1>3, PTL DEF BSpec, WritesLostOnce

-----------------------------------------------------------------------------
(* Sums of sets, which an element is in if it is in an odd number of them *)

Odd(S) == Cardinality(S) % 2 = 1
Hits(S, h, q) == {p \in S : q \in h[p]}
Folded(S, h, base, U) == {q \in U : (q \in base) <=> ~Odd(Hits(S, h, q))}

AnyOf(s) == CHOOSE x \in s : TRUE
Iterates(iter, S, h, base) ==
    iter = [s \in SUBSET S |->
               IF s = {} THEN base ELSE Xor(h[AnyOf(s)], iter[s \ {AnyOf(s)}])]

LEMMA OddNext ==
    ASSUME NEW S, IsFiniteSet(S), NEW x, x \notin S
    PROVE  Odd(S \cup {x}) <=> ~Odd(S)
<1>1. Cardinality(S) \in Nat /\ Cardinality(S \cup {x}) = Cardinality(S) + 1
  BY FS_CardinalityType, FS_AddElement
<1>2. \A n \in Nat : (n + 1) % 2 = 1 <=> ~(n % 2 = 1)
  OBVIOUS
<1>. QED  BY <1>1, <1>2 DEF Odd

LEMMA OddNone == ~Odd({})
BY FS_EmptySet DEF Odd

LEMMA FoldedStep ==
    ASSUME NEW S, IsFiniteSet(S), NEW x \in S, NEW h, NEW U, NEW base, h[x] \subseteq U
    PROVE  Folded(S, h, base, U) = Xor(h[x], Folded(S \ {x}, h, base, U))
<1>1. ASSUME NEW q \in U
      PROVE  Odd(Hits(S, h, q)) <=> (Odd(Hits(S \ {x}, h, q)) <=> q \notin h[x])
  <2>1. IsFiniteSet(Hits(S \ {x}, h, q)) /\ x \notin Hits(S \ {x}, h, q)
    BY FS_Subset DEF Hits
  <2>2. ASSUME q \in h[x] PROVE Odd(Hits(S, h, q)) <=> ~Odd(Hits(S \ {x}, h, q))
    <3>1. Hits(S, h, q) = Hits(S \ {x}, h, q) \cup {x}
      BY <2>2 DEF Hits
    <3>2. Odd(Hits(S \ {x}, h, q) \cup {x}) <=> ~Odd(Hits(S \ {x}, h, q))
      BY <2>1, OddNext
    <3>. QED  BY <3>1, <3>2
  <2>3. ASSUME q \notin h[x] PROVE Odd(Hits(S, h, q)) <=> Odd(Hits(S \ {x}, h, q))
    <3>1. Hits(S, h, q) = Hits(S \ {x}, h, q)
      BY <2>3 DEF Hits
    <3>. QED  BY <3>1
  <2>. QED  BY <2>2, <2>3 DEF Odd
<1>2. \A q : q \in Folded(S, h, base, U) <=> q \in Xor(h[x], Folded(S \ {x}, h, base, U))
  <2> TAKE q
  <2>1. CASE q \in U
    BY <1>1, <2>1 DEF Folded, Xor
  <2>2. CASE q \notin U
    BY <2>2 DEF Folded, Xor
  <2>. QED  BY <2>1, <2>2
<1>. QED  BY <1>2

LEMMA FoldedNone ==
    ASSUME NEW h, NEW U, NEW base \in SUBSET U
    PROVE  Folded({}, h, base, U) = base
<1>1. \A q : ~Odd(Hits({}, h, q))
  <2>1. \A q : Hits({}, h, q) = {}
    BY DEF Hits
  <2>. QED  BY <2>1, OddNone
<1>. QED  BY <1>1 DEF Folded

LEMMA AnyOfIs ==
    ASSUME NEW s, s # {}
    PROVE  AnyOf(s) \in s
BY DEF AnyOf

\* There is a function that iterates over the subsets of S, and it folds them.
LEMMA FoldExists ==
    ASSUME NEW S, IsFiniteSet(S), NEW h, NEW U, NEW base \in SUBSET U,
           \A p \in S : h[p] \subseteq U
    PROVE  Iterates([s \in SUBSET S |-> Folded(s, h, base, U)], S, h, base)
<1> DEFINE g == [s \in SUBSET S |-> Folded(s, h, base, U)]
<1>1. ASSUME NEW s \in SUBSET S
      PROVE  g[s] = IF s = {} THEN base ELSE Xor(h[AnyOf(s)], g[s \ {AnyOf(s)}])
  <2>1. CASE s = {}
    BY <2>1, FoldedNone
  <2>2. CASE s # {}
    <3>1. AnyOf(s) \in s /\ IsFiniteSet(s) /\ s \ {AnyOf(s)} \in SUBSET S
      BY <2>2, AnyOfIs, FS_Subset
    <3>2. h[AnyOf(s)] \subseteq U
      BY <3>1
    <3>3. Folded(s, h, base, U) = Xor(h[AnyOf(s)], Folded(s \ {AnyOf(s)}, h, base, U))
      BY <3>1, <3>2, FoldedStep
    <3>. QED  BY <2>2, <3>1, <3>3
  <2>. QED  BY <2>1, <2>2
<1>. QED  BY <1>1 DEF Iterates

LEMMA FoldIs ==
    ASSUME NEW S, IsFiniteSet(S), NEW h, NEW U, NEW base \in SUBSET U,
           \A p \in S : h[p] \subseteq U,
           NEW g, Iterates(g, S, h, base)
    PROVE  g[S] = Folded(S, h, base, U)
<1> DEFINE T == {n \in Nat : \A s \in SUBSET S :
                    Cardinality(s) = n => g[s] = Folded(s, h, base, U)}
<1>0. \A s \in SUBSET S : g[s] = IF s = {} THEN base ELSE Xor(h[AnyOf(s)], g[s \ {AnyOf(s)}])
  BY DEF Iterates
<1>1. 0 \in T
  <2>1. ASSUME NEW s \in SUBSET S, Cardinality(s) = 0 PROVE g[s] = Folded(s, h, base, U)
    <3>1. s = {}
      BY <2>1, FS_Subset, FS_EmptySet
    <3>. QED  BY <1>0, <3>1, FoldedNone
  <2>. QED  BY <2>1
<1>2. ASSUME NEW n \in Nat, n \in T PROVE n + 1 \in T
  <2>1. ASSUME NEW s \in SUBSET S, Cardinality(s) = n + 1 PROVE g[s] = Folded(s, h, base, U)
    <3>1. IsFiniteSet(s) /\ s # {}
      <4>1. IsFiniteSet(s)
        BY FS_Subset
      <4>2. n + 1 # 0
        OBVIOUS
      <4>. QED  BY <2>1, <4>1, <4>2, FS_EmptySet
    <3>2. AnyOf(s) \in s /\ s \ {AnyOf(s)} \in SUBSET S
      BY <3>1, AnyOfIs
    <3>3. Cardinality(s \ {AnyOf(s)}) = n
      <4>1. Cardinality(s \ {AnyOf(s)}) = Cardinality(s) - 1
        BY <3>1, <3>2, FS_RemoveElement
      <4>. QED  BY <2>1, <4>1
    <3>4. g[s \ {AnyOf(s)}] = Folded(s \ {AnyOf(s)}, h, base, U)
      BY <1>2, <3>2, <3>3
    <3>5. h[AnyOf(s)] \subseteq U
      BY <3>2
    <3>6. Folded(s, h, base, U) = Xor(h[AnyOf(s)], Folded(s \ {AnyOf(s)}, h, base, U))
      BY <3>1, <3>2, <3>5, FoldedStep
    <3>. QED  BY <1>0, <3>1, <3>4, <3>6
  <2>. QED  BY <2>1
<1>3. Cardinality(S) \in T
  <2>1. Cardinality(S) \in Nat
    BY FS_CardinalityType
  <2> HIDE DEF T
  <2>. QED  BY <1>1, <1>2, <2>1, SetInduction
<1>. QED  BY <1>3

LEMMA SumOfIs ==
    ASSUME NEW S, IsFiniteSet(S), NEW h, NEW U, \A p \in S : h[p] \subseteq U
    PROVE  SumOf(S, h) = Folded(S, h, {}, U)
<1> DEFINE g == CHOOSE g : Iterates(g, S, h, {})
<1>1. SumOf(S, h) = g[S]
  BY DEF SumOf, FoldSet, MapThenFoldSet, Iterates, AnyOf
<1>2. \E f : Iterates(f, S, h, {})
  <2>1. {} \in SUBSET U
    OBVIOUS
  <2>. QED  BY <2>1, FoldExists
<1>3. Iterates(g, S, h, {})
  BY <1>2
<1> HIDE DEF g
<1>4. {} \in SUBSET U
  OBVIOUS
<1>. QED  BY <1>1, <1>3, <1>4, FoldIs

-----------------------------------------------------------------------------
(* Sums of packets *)

LEMMA XorIs == \A a, b, q : q \in Xor(a, b) <=> (q \in a <=> q \notin b)
BY DEF Xor

LEMMA SumNone ==
    ASSUME NEW h
    PROVE  SumOf({}, h) = {}
<1>1. IsFiniteSet({}) /\ {} \in SUBSET {}
  BY FS_EmptySet
<1>2. SumOf({}, h) = Folded({}, h, {}, {})
  BY <1>1, SumOfIs
<1>. QED  BY <1>2 DEF Folded

LEMMA SumNext ==
    ASSUME NEW S, IsFiniteSet(S), NEW x, x \notin S, NEW h, NEW U,
           \A p \in S \cup {x} : h[p] \subseteq U
    PROVE  SumOf(S \cup {x}, h) = Xor(h[x], SumOf(S, h))
<1> DEFINE T == S \cup {x}
<1>1. IsFiniteSet(T) /\ x \in T /\ T \ {x} = S
  BY FS_AddElement
<1>2. h[x] \subseteq U /\ \A p \in S : h[p] \subseteq U
  OBVIOUS
<1>3. SumOf(T, h) = Folded(T, h, {}, U) /\ SumOf(S, h) = Folded(S, h, {}, U)
  BY <1>1, <1>2, SumOfIs
<1>4. Folded(T, h, {}, U) = Xor(h[x], Folded(T \ {x}, h, {}, U))
  <2> HIDE DEF T
  <2>. QED  BY <1>1, <1>2, FoldedStep
<1>. QED  BY <1>1, <1>3, <1>4

\* What a sum depends on.
LEMMA SameSum ==
    ASSUME NEW S, IsFiniteSet(S), NEW h, NEW g, NEW U,
           \A p \in S : h[p] = g[p] /\ g[p] \subseteq U
    PROVE  SumOf(S, h) = SumOf(S, g) /\ SumOf(S, g) \subseteq U
<1>1. SumOf(S, h) = Folded(S, h, {}, U) /\ SumOf(S, g) = Folded(S, g, {}, U)
  BY SumOfIs
<1>2. \A q : Hits(S, h, q) = Hits(S, g, q)
  BY DEF Hits
<1>. QED  BY <1>1, <1>2 DEF Folded

\* Sums add up.
LEMMA SumOfXor ==
    ASSUME NEW A, NEW B, IsFiniteSet(A), IsFiniteSet(B), NEW h, NEW U,
           \A p \in A \cup B : h[p] \subseteq U
    PROVE  SumOf(Xor(A, B), h) = Xor(SumOf(A, h), SumOf(B, h))
<1>1. ASSUME NEW S, IsFiniteSet(S), NEW T, IsFiniteSet(T)
      PROVE  Odd(Xor(S, T)) <=> ~(Odd(S) <=> Odd(T))
  <2>1. /\ IsFiniteSet(S \ T) /\ IsFiniteSet(T \ S) /\ IsFiniteSet(S \cap T)
        /\ Cardinality(S \ T) = Cardinality(S) - Cardinality(S \cap T)
        /\ Cardinality(T \ S) = Cardinality(T) - Cardinality(S \cap T)
    <3>1. S \cap T = T \cap S
      OBVIOUS
    <3>2. IsFiniteSet(S \ T) /\ Cardinality(S \ T) = Cardinality(S) - Cardinality(S \cap T)
      BY <1>1, FS_Difference
    <3>3. IsFiniteSet(T \ S) /\ Cardinality(T \ S) = Cardinality(T) - Cardinality(T \cap S)
      BY <1>1, FS_Difference
    <3>4. IsFiniteSet(S \cap T)
      BY <1>1, FS_Intersection
    <3>. QED  BY <3>1, <3>2, <3>3, <3>4
  <2>2. Cardinality(Xor(S, T)) = Cardinality(S \ T) + Cardinality(T \ S)
    <3>1. (S \ T) \cap (T \ S) = {} /\ Xor(S, T) = (S \ T) \cup (T \ S)
      BY DEF Xor
    <3>2. Cardinality((S \ T) \cup (T \ S)) = Cardinality(S \ T) + Cardinality(T \ S) - 0
      BY <2>1, <3>1, FS_Union, FS_EmptySet
    <3>3. Cardinality(S \ T) \in Nat /\ Cardinality(T \ S) \in Nat
      BY <2>1, FS_CardinalityType
    <3>. QED  BY <3>1, <3>2, <3>3
  <2>3. /\ Cardinality(S) \in Nat /\ Cardinality(T) \in Nat /\ Cardinality(S \cap T) \in Nat
        /\ Cardinality(S \ T) \in Nat /\ Cardinality(T \ S) \in Nat
    BY <1>1, <2>1, FS_CardinalityType
  <2>4. \A a, b, c \in Nat : (a + b) % 2 = 1 <=> ~((a + c) % 2 = 1 <=> (b + c) % 2 = 1)
    <3> TAKE a, b, c \in Nat
    <3>. QED  OBVIOUS
  <2>5. /\ Cardinality(S) = Cardinality(S \ T) + Cardinality(S \cap T)
        /\ Cardinality(T) = Cardinality(T \ S) + Cardinality(S \cap T)
    BY <2>1, <2>3
  <2>. QED  BY <2>2, <2>3, <2>4, <2>5 DEF Odd
<1>2. IsFiniteSet(Xor(A, B))
  <2>1. IsFiniteSet(A \cup B) /\ Xor(A, B) \subseteq A \cup B
    BY FS_Union DEF Xor
  <2>. QED  BY <2>1, FS_Subset
<1>3. /\ SumOf(Xor(A, B), h) = Folded(Xor(A, B), h, {}, U)
      /\ SumOf(A, h) = Folded(A, h, {}, U) /\ SumOf(B, h) = Folded(B, h, {}, U)
  <2>1. Xor(A, B) \subseteq A \cup B
    BY DEF Xor
  <2>. QED  BY <1>2, <2>1, SumOfIs
<1>4. ASSUME NEW q
      PROVE  Odd(Hits(Xor(A, B), h, q)) <=> ~(Odd(Hits(A, h, q)) <=> Odd(Hits(B, h, q)))
  <2>1. Hits(Xor(A, B), h, q) = Xor(Hits(A, h, q), Hits(B, h, q))
    BY DEF Hits, Xor
  <2>2. IsFiniteSet(Hits(A, h, q)) /\ IsFiniteSet(Hits(B, h, q))
    BY FS_Subset DEF Hits
  <2>. QED  BY <1>1, <2>1, <2>2
<1>5. \A q : q \in Folded(Xor(A, B), h, {}, U) <=> q \in Xor(Folded(A, h, {}, U), Folded(B, h, {}, U))
  BY <1>4, XorIs DEF Folded
<1>. QED  BY <1>3, <1>5

-----------------------------------------------------------------------------
(* What is stored, and where *)

\* No packet of a coding device is the sum of nothing.
BitmatrixIs == bitmatrix \in [0..m*w-1 -> (SUBSET Lines) \ {{}}]

Packets == 0..(k+m)*w-1

LEMMA StoredIs ==
    ASSUME code \in Codes, BitmatrixIs, NEW d \in Devices, NEW y \in 0..w-1
    PROVE  /\ Packet(d, y) \in Packets
           /\ d < k => Packet(d, y) \in Lines /\ Stored[Packet(d, y)] = {Packet(d, y)}
           /\ ~(d < k) => /\ Packet(d - k, y) \in 0..m*w-1
                          /\ Stored[Packet(d, y)] = bitmatrix[Packet(d - k, y)]
           /\ Stored[Packet(d, y)] \in (SUBSET Lines) \ {{}}
<1>1. /\ k \in Nat \ {0} /\ m \in Nat \ {0} /\ w \in Nat \ {0} /\ k + m \in Nat
      /\ d \in Nat /\ d < k + m
  BY CodeIs DEF Devices
<1>2. /\ Packet(d, y) \in Nat /\ Packet(d, y) \div w = d
  BY <1>1, PacketIs
<1>3. \A top \in Nat : Packet(d, y) < top * w <=> d < top
  BY <1>2, DeviceIs
<1>4. Packet(d, y) < (k + m) * w /\ (Packet(d, y) < k * w <=> d < k)
  BY <1>1, <1>3
<1>5. k * w \in Nat /\ (k + m) * w \in Nat /\ m * w \in Nat
  <2>1. \A a, b \in Nat : a * b \in Nat
    OBVIOUS
  <2>. QED  BY <1>1, <2>1
<1>6. Packet(d, y) \in Packets
  BY <1>2, <1>4, <1>5 DEF Packets
<1>7. CASE d < k
  <2>1. Packet(d, y) \in Lines
    BY <1>2, <1>4, <1>5, <1>7 DEF Lines
  <2>2. Stored[Packet(d, y)] = {Packet(d, y)}
    BY <1>4, <1>6, <1>7 DEF Stored, Packets
  <2>. QED  BY <1>6, <1>7, <2>1, <2>2
<1>8. CASE ~(d < k)
  <2>1. d - k \in Nat /\ d - k < m
    BY <1>1, <1>8
  <2>2. Packet(d - k, y) \in Nat /\ Packet(d - k, y) \div w = d - k
    BY <2>1, PacketIs
  <2>3. Packet(d - k, y) < m * w
    <3>1. \A top \in Nat : Packet(d - k, y) < top * w <=> d - k < top
      BY <2>2, DeviceIs
    <3>. QED  BY <1>1, <2>1, <3>1
  <2>4. Packet(d, y) - k * w = Packet(d - k, y)
    BY <1>1 DEF Packet
  <2>5. Packet(d - k, y) \in 0..m*w-1
    BY <1>5, <2>2, <2>3
  <2>6. Stored[Packet(d, y)] = bitmatrix[Packet(d - k, y)]
    BY <1>4, <1>6, <1>8, <2>4 DEF Stored, Packets
  <2>. QED  BY <1>6, <1>8, <2>5, <2>6 DEF BitmatrixIs
<1>. QED  BY <1>7, <1>8

LEMMA PacketsAre ==
    ASSUME code \in Codes
    PROVE  /\ Packets \subseteq Nat /\ Lines \subseteq Packets /\ IsFiniteSet(Lines)
           /\ \A p \in Packets :
                 p \div w \in Devices /\ p % w \in 0..w-1 /\ p = Packet(p \div w, p % w)
           /\ \A p \in Lines : p \div w \in 0..k-1
<1>1. /\ k \in Nat \ {0} /\ m \in Nat \ {0} /\ w \in Nat \ {0} /\ k + m \in Nat
  BY CodeIs
<1>2. k * w \in Nat /\ (k + m) * w \in Nat /\ m * w \in Nat /\ (k + m) * w = k * w + m * w
  <2>1. \A a, b \in Nat : a * b \in Nat
    OBVIOUS
  <2>. QED  BY <1>1, <2>1
<1>3. Packets \subseteq Nat /\ Lines \subseteq Packets
  BY <1>2 DEF Packets, Lines
<1>4. IsFiniteSet(Lines)
  BY <1>2, FS_Interval DEF Lines
<1>5. ASSUME NEW p \in Packets
      PROVE  p \div w \in Devices /\ p % w \in 0..w-1 /\ p = Packet(p \div w, p % w)
  <2>1. p \in Nat /\ p < (k + m) * w
    BY <1>2 DEF Packets
  <2>2. p \div w \in Nat /\ p % w \in 0..w-1 /\ p = Packet(p \div w, p % w) /\ p \div w < k + m
    BY <1>1, <2>1, DeviceIs
  <2>. QED  BY <1>1, <2>2 DEF Devices
<1>6. ASSUME NEW p \in Lines PROVE p \div w \in 0..k-1
  <2>1. p \in Nat /\ p < k * w
    BY <1>2 DEF Lines
  <2>2. p \div w \in Nat /\ p \div w < k
    BY <1>1, <2>1, DeviceIs
  <2>. QED  BY <1>1, <2>2
<1>. QED  BY <1>3, <1>4, <1>5, <1>6

\* What the packets in the first k places hold when everything is stored.
StoredAt(ids) == [c \in Lines |-> Stored[Packet(ids[c \div w], c % w)]]
Left(ids) == \A x \in 0..k-1 : ids[x] \in Devices \ Lost

LEMMA PlacedIs ==
    ASSUME code \in Codes, BitmatrixIs, NEW ids, Left(ids), NEW c \in Lines
    PROVE  /\ StoredAt(ids)[c] \in SUBSET Lines
           /\ PlaceRows(ids)[c] = StoredAt(ids)[c]
           /\ Packet(ids[c \div w], c % w) \in Packets
           /\ Packet(ids[c \div w], c % w) \div w \notin Lost
<1>1. /\ c \div w \in 0..k-1 /\ c % w \in 0..w-1
  BY PacketsAre
<1>2. ids[c \div w] \in Devices /\ ids[c \div w] \notin Lost /\ ids[c \div w] \in Nat
  BY <1>1, DevicesFinite DEF Left
<1> DEFINE d == ids[c \div w]
           y == c % w
<1>3. /\ Packet(d, y) \in Packets
      /\ d < k => Packet(d, y) \in Lines /\ Stored[Packet(d, y)] = {Packet(d, y)}
      /\ ~(d < k) => Stored[Packet(d, y)] = bitmatrix[Packet(d - k, y)]
      /\ Stored[Packet(d, y)] \in SUBSET Lines
  BY <1>1, <1>2, StoredIs
<1>4. Packet(d, y) \div w = d
  BY <1>1, <1>2, PacketIs
<1>5. PlaceRows(ids)[c] = IF d < k THEN {Packet(d, y)} ELSE bitmatrix[Packet(d - k, y)]
  BY DEF PlaceRows
<1>. QED  BY <1>2, <1>3, <1>4, <1>5 DEF StoredAt

-----------------------------------------------------------------------------
(* Enough devices are left *)

LEMMA DataLost ==
    ASSUME code \in Codes, NEW S \in SUBSET Devices, Cardinality(S) <= m
    PROVE  LET data == {d \in S : d < k}
               intact == (k..k+m-1) \ S
           IN  /\ IsFiniteSet(intact) /\ intact \subseteq Nat /\ IsFiniteSet(S) /\ S \subseteq Nat
               /\ Cardinality(data) \in Nat /\ Cardinality(S) \in Nat
               /\ Cardinality(data) <= Cardinality(intact)
               /\ Cardinality(data) <= Cardinality(S)
               /\ \A d \in S : Place(S, d) \in Nat /\ Place(S, d) < Cardinality(S)
               /\ \A d \in S : Place(S, d) < Cardinality(data) <=> d < k
<1> DEFINE data == {d \in S : d < k}
           parity == {d \in S : ~(d < k)}
           intact == (k..k+m-1) \ S
<1>1. /\ k \in Nat \ {0} /\ m \in Nat \ {0} /\ k + m \in Nat
      /\ IsFiniteSet(S) /\ Cardinality(S) \in Nat /\ S \subseteq Nat
  BY CodeIs, DevicesFinite
<1>2. /\ IsFiniteSet(data) /\ IsFiniteSet(parity)
      /\ Cardinality(data) \in Nat /\ Cardinality(parity) \in Nat
  BY <1>1, FS_Subset, FS_CardinalityType
<1>3. Cardinality(S) = Cardinality(data) + Cardinality(parity)
  <2>1. data \cup parity = S /\ data \cap parity = {}
    OBVIOUS
  <2>2. Cardinality(data \cup parity) = Cardinality(data) + Cardinality(parity) - 0
    <3> HIDE DEF data, parity
    <3>. QED  BY <1>2, <2>1, FS_Union, FS_EmptySet
  <2>3. Cardinality(data \cup parity) = Cardinality(S)
    BY <2>1
  <2> HIDE DEF data, parity
  <2>. QED  BY <1>2, <2>2, <2>3
<1>4. /\ IsFiniteSet(intact) /\ intact \subseteq Nat
      /\ Cardinality(intact) = m - Cardinality(parity)
  <2>1. IsFiniteSet(k..k+m-1) /\ Cardinality(k..k+m-1) = m
    <3>1. k \in Int /\ k + m - 1 \in Int /\ ~(k > k + m - 1) /\ (k + m - 1) - k + 1 = m
      BY <1>1
    <3>2. Cardinality(k..k+m-1) = IF k > k + m - 1 THEN 0 ELSE (k + m - 1) - k + 1
      BY <3>1, FS_Interval
    <3>. QED  BY <3>1, <3>2, FS_Interval
  <2>2. (k..k+m-1) \cap S = parity
    <3>1. \A d \in S : d \in k..k+m-1 <=> ~(d < k)
      BY <1>1 DEF Devices
    <3>. QED  BY <3>1
  <2>3. \A d \in k..k+m-1 : d \in Nat
    BY <1>1
  <2>4. IsFiniteSet(intact) /\ Cardinality(intact) = Cardinality(k..k+m-1) - Cardinality((k..k+m-1) \cap S)
    BY <2>1, FS_Difference
  <2>5. intact \subseteq Nat
    BY <2>3
  <2> HIDE DEF intact, parity
  <2>. QED  BY <2>1, <2>2, <2>4, <2>5
<1>5. ASSUME NEW d \in S PROVE Place(S, d) \in Nat /\ Place(S, d) < Cardinality(S)
  <2>1. Place(S, d) \in 0..Cardinality(S)-1
    BY <1>1, PlaceIs
  <2>. QED  BY <1>1, <2>1
<1>6. ASSUME NEW d \in S PROVE Place(S, d) < Cardinality(data) <=> d < k
  <2> DEFINE low == {e \in S : e < d}
  <2>1. IsFiniteSet(low) /\ Cardinality(low) \in Nat /\ Place(S, d) = Cardinality(low)
    BY <1>1, FS_Subset, FS_CardinalityType DEF Place
  <2>2. CASE d < k
    <3>1. low \cup {d} \subseteq data /\ d \notin low
      <4>1. \A e \in S : e < d => e < k
        BY <1>1, <2>2
      <4>2. ~(d < d)
        BY <1>1
      <4>. QED  BY <2>2, <4>1, <4>2
    <3>2. Cardinality(low \cup {d}) <= Cardinality(data)
      <4> HIDE DEF data, low
      <4>. QED  BY <1>2, <3>1, FS_Subset
    <3>3. Cardinality(low \cup {d}) = Cardinality(low) + 1
      BY <2>1, <3>1, FS_AddElement
    <3> HIDE DEF data, low
    <3>. QED  BY <1>2, <2>1, <2>2, <3>2, <3>3
  <2>3. CASE ~(d < k)
    <3>1. data \subseteq low
      <4>1. \A e \in S : e < k => e < d
        BY <1>1, <2>3
      <4>. QED  BY <4>1
    <3>2. Cardinality(data) <= Cardinality(low)
      <4> HIDE DEF data, low
      <4>. QED  BY <2>1, <3>1, FS_Subset
    <3> HIDE DEF data, low
    <3>. QED  BY <1>2, <2>1, <2>3, <3>2
  <2>. QED  BY <2>2, <2>3
<1>7. Cardinality(data) <= Cardinality(intact) /\ Cardinality(data) <= Cardinality(S)
  <2> HIDE DEF data, parity, intact
  <2>. QED  BY <1>1, <1>2, <1>3, <1>4
<1>. QED  BY <1>1, <1>2, <1>4, <1>5, <1>6, <1>7

\* A data device that is left is in its own place, and an intact coding device
\* in that of one that is lost.
LEMMA RowIdsLeft ==
    ASSUME code \in Codes, NEW S \in SUBSET Devices, Cardinality(S) <= m, NEW x \in 0..k-1
    PROVE  /\ RowIds(S)[x] \in Devices \ S
           /\ x \notin S => RowIds(S)[x] = x
<1> DEFINE data == {d \in S : d < k}
           intact == (k..k+m-1) \ S
<1>1. /\ k \in Nat \ {0} /\ m \in Nat \ {0} /\ k + m \in Nat
  BY CodeIs
<1>2. /\ IsFiniteSet(intact) /\ intact \subseteq Nat
      /\ Cardinality(data) \in Nat /\ Cardinality(S) \in Nat
      /\ Cardinality(data) <= Cardinality(intact)
      /\ \A d \in S : Place(S, d) \in Nat
      /\ \A d \in S : Place(S, d) < Cardinality(data) <=> d < k
  BY DataLost
<1>3. x \in 0..k + Cardinality(S) - 1 /\ ~(x >= k) /\ x < k
  <2> HIDE DEF data, intact
  <2>. QED  BY <1>1, <1>2
<1>4. RowIds(S)[x] = IF x \in S THEN CHOOSE c \in intact : Place(intact, c) = Place(S, x) ELSE x
  BY <1>3 DEF RowIds
<1>5. CASE x \in S
  <2>1. Place(S, x) \in Nat /\ Place(S, x) < Cardinality(intact)
    <3>1. Place(S, x) \in Nat /\ Place(S, x) < Cardinality(data)
      BY <1>2, <1>3, <1>5
    <3>2. Cardinality(intact) \in Nat
      BY <1>2, FS_CardinalityType
    <3> HIDE DEF data, intact
    <3>. QED  BY <1>2, <3>1, <3>2
  <2>2. \E c \in intact : Place(intact, c) = Place(S, x)
    <3> HIDE DEF data, intact
    <3>. QED  BY <1>2, <2>1, PlaceExists
  <2>3. RowIds(S)[x] \in intact
    BY <1>4, <1>5, <2>2
  <2>4. intact \subseteq Devices \ S
    BY <1>1 DEF Devices
  <2>. QED  BY <1>5, <2>3, <2>4
<1>6. CASE x \notin S
  <2>1. x \in Devices
    BY <1>1 DEF Devices
  <2>. QED  BY <1>4, <1>6, <2>1
<1>. QED  BY <1>5, <1>6

LEMMA IntactLeft ==
    ASSUME code \in Codes, NEW S \in SUBSET Devices, Cardinality(S) <= m, NEW x \in 0..k-1
    PROVE  Intact(S)[x] \in Devices \ S
<1> DEFINE rest == Devices \ S
<1>1. /\ k \in Nat \ {0} /\ m \in Nat \ {0} /\ k + m \in Nat
      /\ IsFiniteSet(S) /\ Cardinality(S) \in Nat
      /\ IsFiniteSet(rest) /\ rest \subseteq Nat /\ Cardinality(rest) \in Nat
  BY CodeIs, DevicesFinite
<1>2. IsFiniteSet(Devices) /\ Cardinality(Devices) = k + m
  <2>1. Devices = 0..(k+m)-1 /\ 0 \in Int /\ (k+m)-1 \in Int
    BY <1>1 DEF Devices
  <2>2. Cardinality(0..(k+m)-1) = IF 0 > (k+m)-1 THEN 0 ELSE (k+m)-1 - 0 + 1
    BY <2>1, FS_Interval
  <2>. QED  BY <1>1, <2>1, <2>2, FS_Interval
<1>3. Cardinality(rest) = k + m - Cardinality(S)
  <2>1. Devices \cap S = S
    OBVIOUS
  <2>2. Cardinality(rest) = Cardinality(Devices) - Cardinality(Devices \cap S)
    BY <1>2, FS_Difference
  <2>3. Cardinality(Devices \cap S) = Cardinality(S)
    BY <2>1
  <2>4. Cardinality(rest) = Cardinality(Devices) - Cardinality(S)
    BY <2>2, <2>3
  <2> HIDE DEF rest
  <2>5. Cardinality(rest) = (k + m) - Cardinality(S)
    BY <1>2, <2>4
  <2>. QED  BY <1>1, <2>5
<1>4. x \in Nat /\ x < Cardinality(rest)
  <2> HIDE DEF rest
  <2>. QED  BY <1>1, <1>3
<1>5. \E d \in rest : Place(rest, d) = x
  <2> HIDE DEF rest
  <2>. QED  BY <1>1, <1>4, PlaceExists
<1>. QED  BY <1>5 DEF Intact

-----------------------------------------------------------------------------
(* Elimination                                                             *)

Matrices == [Lines -> SUBSET Lines]
Sums(matrix, sums, h) == \A r \in Lines : matrix[r] = SumOf(sums[r], h)
Swapped(matrix, a, b) == [matrix EXCEPT ![a] = matrix[b], ![b] = matrix[a]]

\* The rows go on being sums of what the rows of the inverse say.
LEMMA AddedSums ==
    ASSUME code \in Codes, NEW R \in Matrices, NEW I \in Matrices, NEW h \in Matrices,
           Sums(R, I, h), NEW r \in Lines, NEW to
    PROVE  /\ Added(R, r, to) \in Matrices /\ Added(I, r, to) \in Matrices
           /\ Sums(Added(R, r, to), Added(I, r, to), h)
<1>1. \A a, b \in SUBSET Lines : Xor(a, b) \in SUBSET Lines
  BY DEF Xor
<1>2. Added(R, r, to) \in Matrices /\ Added(I, r, to) \in Matrices
  BY <1>1 DEF Added, Matrices
<1>3. ASSUME NEW x \in Lines PROVE Added(R, r, to)[x] = SumOf(Added(I, r, to)[x], h)
  <2>1. CASE x \notin to
    BY <2>1 DEF Added, Sums
  <2>2. CASE x \in to
    <3>1. R[x] = SumOf(I[x], h) /\ R[r] = SumOf(I[r], h)
      BY DEF Sums
    <3>2. I[x] \in SUBSET Lines /\ I[r] \in SUBSET Lines
      BY DEF Matrices
    <3>3. IsFiniteSet(I[x]) /\ IsFiniteSet(I[r])
      BY <3>2, PacketsAre, FS_Subset
    <3>4. \A p \in I[x] \cup I[r] : h[p] \subseteq Lines
      BY <3>2 DEF Matrices
    <3>5. SumOf(Xor(I[x], I[r]), h) = Xor(SumOf(I[x], h), SumOf(I[r], h))
      <4> DEFINE A == I[x]
                 B == I[r]
      <4>1. IsFiniteSet(A) /\ IsFiniteSet(B) /\ \A p \in A \cup B : h[p] \subseteq Lines
        BY <3>3, <3>4
      <4> HIDE DEF A, B
      <4>2. SumOf(Xor(A, B), h) = Xor(SumOf(A, h), SumOf(B, h))
        BY <4>1, SumOfXor
      <4>. QED  BY <4>2 DEF A, B
    <3>. QED  BY <2>2, <3>1, <3>5 DEF Added
  <2>. QED  BY <2>1, <2>2
<1>. QED  BY <1>2, <1>3 DEF Sums

LEMMA SwappedSums ==
    ASSUME NEW R \in Matrices, NEW I \in Matrices, NEW h,
           Sums(R, I, h), NEW a \in Lines, NEW b \in Lines
    PROVE  /\ Swapped(R, a, b) \in Matrices /\ Swapped(I, a, b) \in Matrices
           /\ Sums(Swapped(R, a, b), Swapped(I, a, b), h)
           /\ \A x \in Lines : Swapped(R, a, b)[x] =
                 IF x = a THEN R[b] ELSE IF x = b THEN R[a] ELSE R[x]
<1>1. ASSUME NEW N \in Matrices
      PROVE  /\ Swapped(N, a, b) \in Matrices
             /\ \A x \in Lines : Swapped(N, a, b)[x] =
                 IF x = a THEN N[b] ELSE IF x = b THEN N[a] ELSE N[x]
  BY DEF Swapped, Matrices
<1>2. \A x \in Lines : Swapped(R, a, b)[x] = SumOf(Swapped(I, a, b)[x], h)
  <2> TAKE x \in Lines
  <2>1. /\ Swapped(R, a, b)[x] = IF x = a THEN R[b] ELSE IF x = b THEN R[a] ELSE R[x]
        /\ Swapped(I, a, b)[x] = IF x = a THEN I[b] ELSE IF x = b THEN I[a] ELSE I[x]
    BY <1>1
  <2>. QED  BY <2>1 DEF Sums
<1>. QED  BY <1>1, <1>2 DEF Sums

\* Column j has its 1 on the diagonal, and none below.
Pivot(j) == j \in mat[j] /\ \A r \in Lines : r > j => j \notin mat[r]

\* The devices in the first k places.
Ids == IF caller = "bitmatrix" THEN dm_ids ELSE row_ids

InversionIs ==
    pc \in {"triangle", "back", "data"} =>
        /\ mat \in Matrices /\ inv \in Matrices
        /\ Sums(mat, inv, StoredAt(Ids))
        /\ pc = "triangle" => col \in Lines /\ \A j \in Lines : j < col => Pivot(j)
        /\ pc = "back" =>
              /\ col \in 0..k*w
              /\ \A j \in Lines : Pivot(j)
              /\ \A j \in Lines : j >= col => \A r \in Lines : r < j => j \notin mat[r]
        /\ pc = "data" /\ inverted => \A r \in Lines : mat[r] = {r}

LEMMA SamePlaced ==
    ASSUME UNCHANGED <<code, bitmatrix, erasures, caller, dm_ids>>
    PROVE  /\ Ids' = Ids /\ StoredAt(Ids)' = StoredAt(Ids) /\ Lines' = Lines /\ Matrices' = Matrices
           /\ k' = k /\ w' = w /\ m' = m /\ Lost' = Lost /\ Devices' = Devices
           /\ LostData' = LostData /\ Stored' = Stored /\ Packets' = Packets
<1>1. k' = k /\ m' = m /\ w' = w /\ Devices' = Devices /\ Lines' = Lines /\ Lost' = Lost
  BY SameCode DEF Lost
<1>2. Stored' = Stored /\ Packets' = Packets /\ Matrices' = Matrices /\ LostData' = LostData
  BY <1>1 DEF Stored, Packets, Matrices, LostData, Packet
<1>3. row_ids' = row_ids
  BY <1>1 DEF row_ids, RowIds, Place
<1>4. Ids' = Ids
  BY <1>3 DEF Ids
<1>. QED  BY <1>1, <1>2, <1>4 DEF StoredAt, Packet

LEMMA TriangleInverts ==
    ASSUME code \in Codes, InversionIs, StoredAt(Ids) \in Matrices, Triangle, UNCHANGED bvars
    PROVE  InversionIs'
<1> DEFINE h == StoredAt(Ids)
           p == Min(Pivots)
           R == Swapped(mat, col, p)
           I == Swapped(inv, col, p)
           below == {r \in Lines : r > col /\ col \in R[r]}
<1>0. k * w \in Nat /\ Lines = 0..k*w-1 /\ \A r \in Lines : r \in Int
  <2>1. k \in Nat /\ w \in Nat /\ \A a, b \in Nat : a * b \in Nat
    BY CodeIs
  <2>. QED  BY <2>1 DEF Lines
<1>1. /\ pc = "triangle" /\ mat \in Matrices /\ inv \in Matrices /\ Sums(mat, inv, h)
      /\ col \in Lines /\ \A j \in Lines : j < col => Pivot(j)
  BY DEF Triangle, InversionIs
<1>2. /\ StoredAt(Ids)' = h /\ Lines' = Lines /\ Matrices' = Matrices /\ k' = k /\ w' = w
  BY SamePlaced DEF Triangle, bvars
<1>3. CASE Pivots = {}
  <2>1. pc' = "data" /\ inverted' = FALSE /\ mat' = mat /\ inv' = inv
    BY <1>3 DEF Triangle
  <2>. QED  BY <1>1, <1>2, <2>1 DEF InversionIs, Sums
<1>4. CASE Pivots # {}
  <2>1. p \in Lines /\ p >= col /\ col \in mat[p]
    <3>1. Pivots \in SUBSET Nat
      BY <1>0 DEF Pivots
    <3>2. \E x \in Pivots : \A y \in Pivots : x <= y
      BY <1>4, <3>1, LeastOf
    <3>3. Min(Pivots) \in Pivots
      BY <3>2 DEF Min
    <3>. QED  BY <3>3 DEF Pivots
  <2>2. /\ mat' = Added(R, col, below) /\ inv' = Added(I, col, below) /\ col' = col + 1
        /\ pc' = IF col + 1 = k*w THEN "back" ELSE "triangle"
    BY <1>1, <1>4 DEF Triangle, Swapped
  <2>3. /\ R \in Matrices /\ I \in Matrices /\ Sums(R, I, h)
        /\ \A x \in Lines : R[x] = IF x = col THEN mat[p] ELSE IF x = p THEN mat[col] ELSE mat[x]
    <3> HIDE DEF h, p
    <3>. QED  BY <1>1, <2>1, SwappedSums
  <2>4. mat' \in Matrices /\ inv' \in Matrices /\ Sums(mat', inv', h)
    <3>1. h \in Matrices
      OBVIOUS
    <3> HIDE DEF h, R, I, below
    <3>. QED  BY <1>1, <2>2, <2>3, <3>1, AddedSums
  <2>5. \A x \in Lines : mat'[x] = IF x \in below THEN Xor(R[x], R[col]) ELSE R[x]
    <3> HIDE DEF R, below
    <3>. QED  BY <2>2 DEF Added
  <2> HIDE DEF R, I, p, h
  <2>6. ASSUME NEW j \in Lines, j < col + 1
        PROVE  j \in mat'[j] /\ \A r \in Lines : r > j => j \notin mat'[r]
    <3>1. CASE j = col
      <4>1. col \in R[col] /\ col \notin below
        BY <1>0, <1>1, <2>1, <2>3
      <4>2. col \in mat'[col]
        BY <1>1, <2>5, <4>1
      <4>3. ASSUME NEW r \in Lines, r > col PROVE col \notin mat'[r]
        <5>1. r \in below <=> col \in R[r]
          BY <4>3
        <5>. QED  BY <2>5, <4>1, <5>1, XorIs
      <4>. QED  BY <3>1, <4>2, <4>3
    <3>2. CASE j # col
      <4>1. j < col /\ j # p /\ j # col
        BY <1>0, <1>1, <2>1, <2>6, <3>2
      <4>2. j \in mat[j] /\ \A r \in Lines : r > j => j \notin mat[r]
        BY <1>1, <4>1 DEF Pivot
      <4>3. j \notin below
        BY <1>0, <1>1, <4>1
      <4>4. mat'[j] = mat[j]
        BY <2>3, <2>5, <4>1, <4>3
      <4>5. ASSUME NEW r \in Lines, r > j PROVE j \notin mat'[r]
        <5>1. j \notin mat[p] /\ j \notin mat[col]
          BY <1>0, <1>1, <2>1, <4>1, <4>2
        <5>2. j \notin R[r] /\ j \notin R[col]
          BY <1>1, <2>3, <4>2, <4>5, <5>1
        <5>. QED  BY <2>5, <5>2, XorIs
      <4>. QED  BY <4>2, <4>4, <4>5
    <3>. QED  BY <3>1, <3>2
  <2>7. CASE col + 1 = k * w
    <3>1. pc' = "back" /\ col' = k * w /\ col' \in 0..k*w
      BY <1>0, <2>2, <2>7
    <3>2. \A j \in Lines : j < col + 1 /\ ~(j >= col')
      BY <1>0, <2>7, <3>1
    <3>3. \A j \in Lines : Pivot(j)'
      BY <1>2, <2>6, <3>2 DEF Pivot
    <3>. QED  BY <1>2, <2>4, <3>1, <3>2, <3>3 DEF InversionIs, h, Sums
  <2>8. CASE col + 1 # k * w
    <3>1. pc' = "triangle" /\ col' \in Lines
      BY <1>0, <1>1, <2>2, <2>8
    <3>2. \A j \in Lines : j < col' => Pivot(j)'
      BY <1>2, <2>2, <2>6 DEF Pivot
    <3>. QED  BY <1>2, <2>4, <3>1, <3>2 DEF InversionIs, h, Sums
  <2>. QED  BY <2>7, <2>8
<1>. QED  BY <1>3, <1>4

LEMMA BackInverts ==
    ASSUME code \in Codes, InversionIs, StoredAt(Ids) \in Matrices, Back, UNCHANGED bvars
    PROVE  InversionIs'
<1> DEFINE h == StoredAt(Ids)
           i == col - 1
           above == {r \in Lines : r < i /\ i \in mat[r]}
<1>0. k * w \in Nat /\ Lines = 0..k*w-1 /\ \A r \in Lines : r \in Int
  <2>1. k \in Nat /\ w \in Nat /\ \A a, b \in Nat : a * b \in Nat
    BY CodeIs
  <2>. QED  BY <2>1 DEF Lines
<1>1. /\ pc = "back" /\ mat \in Matrices /\ inv \in Matrices /\ Sums(mat, inv, h)
      /\ col \in 0..k*w /\ \A j \in Lines : Pivot(j)
      /\ \A j \in Lines : j >= col => \A r \in Lines : r < j => j \notin mat[r]
  BY DEF Back, InversionIs
<1>2. /\ StoredAt(Ids)' = h /\ Lines' = Lines /\ Matrices' = Matrices /\ k' = k /\ w' = w
  BY SamePlaced DEF Back, bvars, inverting
<1>3. CASE col = 0
  <2>1. pc' = "data" /\ mat' = mat /\ inv' = inv
    BY <1>3 DEF Back
  <2>2. ASSUME NEW r \in Lines PROVE mat[r] = {r}
    <3>1. r \in mat[r]
      BY <1>1 DEF Pivot
    <3>2. ASSUME NEW j \in Lines, j # r PROVE j \notin mat[r]
      <4>1. CASE r > j
        BY <1>1, <4>1 DEF Pivot
      <4>2. CASE ~(r > j)
        <5>1. j >= col /\ r < j
          BY <1>0, <1>3, <3>2, <4>2
        <5>. QED  BY <1>1, <5>1
      <4>. QED  BY <4>1, <4>2
    <3>3. mat[r] \subseteq Lines
      BY <1>1 DEF Matrices
    <3>. QED  BY <3>1, <3>2, <3>3
  <2>. QED  BY <1>1, <1>2, <2>1, <2>2 DEF InversionIs, Sums
<1>4. CASE col # 0
  <2>1. /\ mat' = Added(mat, i, above) /\ inv' = Added(inv, i, above) /\ col' = i /\ pc' = "back"
    BY <1>1, <1>4 DEF Back
  <2>2. i \in Lines /\ i \in 0..k*w /\ col = i + 1
    BY <1>0, <1>1, <1>4
  <2>3. mat' \in Matrices /\ inv' \in Matrices /\ Sums(mat', inv', h)
    <3>1. h \in Matrices
      OBVIOUS
    <3> HIDE DEF h, i, above
    <3>. QED  BY <1>1, <2>1, <2>2, <3>1, AddedSums
  <2>4. \A x \in Lines : mat'[x] = IF x \in above THEN Xor(mat[x], mat[i]) ELSE mat[x]
    <3> HIDE DEF i, above
    <3>. QED  BY <2>1 DEF Added
  <2> HIDE DEF i, h
  <2>5. i \in mat[i] /\ \A j \in Lines : j # i => j \notin mat[i]
    <3>1. i \in mat[i]
      BY <1>1, <2>2 DEF Pivot
    <3>2. ASSUME NEW j \in Lines, j # i PROVE j \notin mat[i]
      <4>1. CASE i > j
        BY <1>1, <2>2, <4>1 DEF Pivot
      <4>2. CASE ~(i > j)
        <5>1. j >= col /\ i < j
          BY <1>0, <2>2, <3>2, <4>2
        <5>. QED  BY <1>1, <2>2, <5>1
      <4>. QED  BY <4>1, <4>2
    <3>. QED  BY <3>1, <3>2
  <2>6. ASSUME NEW x \in Lines, NEW j \in Lines, j # i
        PROVE  j \in mat'[x] <=> j \in mat[x]
    BY <2>4, <2>5, <2>6, XorIs
  <2>7. ASSUME NEW x \in Lines
        PROVE  i \in mat'[x] <=> (i \in mat[x] /\ ~(x < i))
    <3>1. x \in above <=> (x < i /\ i \in mat[x])
      OBVIOUS
    <3>. QED  BY <2>4, <2>5, <3>1, XorIs
  <2>8. ASSUME NEW j \in Lines
        PROVE  Pivot(j)'
    <3>1. CASE j # i
      BY <1>1, <1>2, <2>6, <3>1 DEF Pivot
    <3>2. CASE j = i
      <4>1. ~(i < i)
        BY <1>0, <2>2
      <4>. QED  BY <1>1, <1>2, <2>2, <2>7, <3>2, <4>1 DEF Pivot
    <3>. QED  BY <3>1, <3>2
  <2>9. ASSUME NEW j \in Lines, j >= i, NEW r \in Lines, r < j
        PROVE  j \notin mat'[r]
    <3>1. CASE j = i
      BY <2>7, <2>9, <3>1
    <3>2. CASE j # i
      <4>1. j >= col
        BY <1>0, <2>2, <2>9, <3>2
      <4>. QED  BY <1>1, <2>6, <2>9, <3>2, <4>1
    <3>. QED  BY <3>1, <3>2
  <2>. QED  BY <1>2, <2>1, <2>2, <2>3, <2>8, <2>9 DEF InversionIs, h, Sums
<1>. QED  BY <1>3, <1>4

\* Elimination begins with the devices' rows, each the sum of itself.
LEMMA InversionBegins ==
    ASSUME code \in Codes, NEW h \in Matrices
    PROVE  /\ [r \in Lines |-> {r}] \in Matrices
           /\ Sums(h, [r \in Lines |-> {r}], h)
           /\ 0 \in Lines /\ \A j \in Lines : ~(j < 0)
<1>1. [r \in Lines |-> {r}] \in Matrices
  BY DEF Matrices
<1>2. ASSUME NEW r \in Lines PROVE h[r] = SumOf({r}, h)
  <2>1. {r} = {} \cup {r} /\ IsFiniteSet({}) /\ r \notin {} /\ \A p \in {} \cup {r} : h[p] \subseteq Lines
    BY FS_EmptySet DEF Matrices
  <2>2. SumOf({} \cup {r}, h) = Xor(h[r], SumOf({}, h))
    BY <2>1, SumNext
  <2>. QED  BY <2>1, <2>2, SumNone DEF Xor
<1>3. 0 \in Lines /\ \A j \in Lines : ~(j < 0)
  <2>1. k \in Nat \ {0} /\ w \in Nat \ {0} /\ \A a, b \in Nat \ {0} : a * b \in Nat \ {0}
    BY CodeIs
  <2>2. k * w \in Nat \ {0}
    BY <2>1
  <2>. QED  BY <2>2 DEF Lines
<1>. QED  BY <1>1, <1>2, <1>3 DEF Sums

-----------------------------------------------------------------------------
(* The rows of a decoding bitmatrix                                        *)

\* Packets that hold themselves add up to their set.
LEMMA SumOfSingles ==
    ASSUME NEW B, IsFiniteSet(B), NEW h, \A p \in B : h[p] = {p}
    PROVE  SumOf(B, h) = B
<1>1. SumOf(B, h) = Folded(B, h, {}, B)
  BY SumOfIs
<1>2. ASSUME NEW q \in B PROVE Odd(Hits(B, h, q))
  <2>1. Hits(B, h, q) = {q}
    BY DEF Hits
  <2>2. Cardinality({q}) = 1
    BY FS_Singleton
  <2>. QED  BY <2>1, <2>2 DEF Odd
<1>. QED  BY <1>1, <1>2 DEF Folded

\* The columns of lost packets are replaced by what recreates those.
LEMMA FoldedSum ==
    ASSUME code \in Codes, NEW S \in SUBSET Lines, NEW base \in SUBSET Lines, base \cap S = {},
           NEW g, \A p \in S : g[p] \subseteq Lines,
           NEW h \in Matrices, \A p \in S : SumOf(g[p], h) = {p}, \A p \in base : h[p] = {p}
    PROVE  SumOf(Folded(S, g, base, Lines), h) = base \cup S
<1> DEFINE T == {n \in Nat : \A s \in SUBSET S : Cardinality(s) = n =>
                    SumOf(Folded(s, g, base, Lines), h) = base \cup s}
<1>0. IsFiniteSet(Lines) /\ IsFiniteSet(S) /\ IsFiniteSet(base)
  BY PacketsAre, FS_Subset
<1>1. 0 \in T
  <2>1. ASSUME NEW s \in SUBSET S, Cardinality(s) = 0
        PROVE  SumOf(Folded(s, g, base, Lines), h) = base \cup s
    <3>1. s = {}
      BY <1>0, <2>1, FS_Subset, FS_EmptySet
    <3>2. Folded({}, g, base, Lines) = base
      BY FoldedNone
    <3>3. SumOf(base, h) = base
      BY <1>0, SumOfSingles
    <3>. QED  BY <3>1, <3>2, <3>3
  <2>. QED  BY <2>1
<1>2. ASSUME NEW n \in Nat, n \in T PROVE n + 1 \in T
  <2>1. ASSUME NEW s \in SUBSET S, Cardinality(s) = n + 1
        PROVE  SumOf(Folded(s, g, base, Lines), h) = base \cup s
    <3>1. IsFiniteSet(s) /\ s # {}
      <4>1. IsFiniteSet(s)
        BY <1>0, FS_Subset
      <4>2. n + 1 # 0
        OBVIOUS
      <4>. QED  BY <2>1, <4>1, <4>2, FS_EmptySet
    <3>2. PICK x \in s : TRUE
      BY <3>1
    <3> DEFINE rest == s \ {x}
               F == Folded(rest, g, base, Lines)
    <3>3. Cardinality(rest) = n
      <4>1. Cardinality(rest) = Cardinality(s) - 1
        BY <3>1, FS_RemoveElement
      <4>. QED  BY <2>1, <4>1
    <3>4. SumOf(F, h) = base \cup rest
      BY <1>2, <3>3
    <3>5. g[x] \subseteq Lines /\ F \subseteq Lines /\ SumOf(g[x], h) = {x}
      BY DEF Folded
    <3>6. Folded(s, g, base, Lines) = Xor(g[x], F)
      BY <3>1, <3>5, FoldedStep
    <3>7. IsFiniteSet(g[x]) /\ IsFiniteSet(F) /\ \A p \in g[x] \cup F : h[p] \subseteq Lines
      <4> HIDE DEF F
      <4>. QED  BY <1>0, <3>5, FS_Subset DEF Matrices
    <3>8. SumOf(Xor(g[x], F), h) = Xor(SumOf(g[x], h), SumOf(F, h))
      <4> DEFINE A == g[x]
      <4>1. IsFiniteSet(A) /\ IsFiniteSet(F) /\ \A p \in A \cup F : h[p] \subseteq Lines
        BY <3>7
      <4> HIDE DEF A, F
      <4>2. SumOf(Xor(A, F), h) = Xor(SumOf(A, h), SumOf(F, h))
        BY <4>1, SumOfXor
      <4>. QED  BY <4>2 DEF A
    <3>9. Xor({x}, base \cup rest) = base \cup s
      <4>1. x \notin base
        OBVIOUS
      <4>. QED  BY <4>1 DEF Xor
    <3> HIDE DEF F
    <3>. QED  BY <3>4, <3>5, <3>6, <3>8, <3>9
  <2>. QED  BY <2>1
<1>3. Cardinality(S) \in T
  <2>1. Cardinality(S) \in Nat
    BY <1>0, FS_CardinalityType
  <2> HIDE DEF T
  <2>. QED  BY <1>1, <1>2, <2>1, SetInduction
<1>. QED  BY <1>3

\* Row q of a decoding bitmatrix for S recreates what belongs there.
GoodRow(row, q, S) ==
    /\ row \in SUBSET Lines
    /\ SumOf(row, StoredAt(RowIds(S))) = Stored[Packet(RowIds(S)[k + q \div w], q % w)]
GoodRows(rows, S) == \A i \in 1..Len(rows) : GoodRow(rows[i], i - 1, S)

\* What a call knows of its devices.
FewLost ==
    /\ code \in Codes /\ BitmatrixIs
    /\ Lost \in SUBSET Devices /\ Cardinality(Lost) <= m

LEMMA RowIdsAre ==
    ASSUME FewLost
    PROVE  /\ Left(row_ids) /\ StoredAt(row_ids) \in Matrices
           /\ \A x \in 0..k-1 : x \notin Lost => row_ids[x] = x
           /\ \A c \in Lines : c \div w \notin Lost => StoredAt(row_ids)[c] = {c}
           /\ PlaceRows(row_ids) = StoredAt(row_ids)
<1>1. /\ code \in Codes /\ BitmatrixIs
  BY DEF FewLost
<1>2. Left(row_ids) /\ \A x \in 0..k-1 : x \notin Lost => row_ids[x] = x
  BY RowIdsLeft DEF FewLost, Left, row_ids
<1>3. StoredAt(row_ids) \in Matrices
  <2>1. \A c \in Lines : StoredAt(row_ids)[c] \in SUBSET Lines
    BY <1>1, <1>2, PlacedIs
  <2>. QED  BY <2>1 DEF StoredAt, Matrices
<1>4. ASSUME NEW c \in Lines, c \div w \notin Lost PROVE StoredAt(row_ids)[c] = {c}
  <2>1. c \div w \in 0..k-1 /\ c % w \in 0..w-1 /\ c = Packet(c \div w, c % w) /\ c \div w \in Devices
    BY <1>1, PacketsAre
  <2>2. row_ids[c \div w] = c \div w
    BY <1>2, <1>4, <2>1
  <2>3. c \div w < k
    BY <1>1, <2>1, CodeIs
  <2>4. Stored[Packet(c \div w, c % w)] = {Packet(c \div w, c % w)}
    BY <1>1, <2>1, <2>3, StoredIs
  <2>. QED  BY <2>1, <2>2, <2>4 DEF StoredAt
<1>5. PlaceRows(row_ids) = StoredAt(row_ids)
  <2>1. \A c \in Lines : PlaceRows(row_ids)[c] = StoredAt(row_ids)[c]
    BY <1>1, <1>2, PlacedIs
  <2>. QED  BY <2>1 DEF PlaceRows, StoredAt
<1>. QED  BY <1>2, <1>3, <1>4, <1>5

\* Which device row q is for.
LEMMA RowIsFor ==
    ASSUME FewLost, NEW t \in Nat, t <= Cardinality(Lost), NEW q \in Nat, q < t * w
    PROVE  LET d == row_ids[k + q \div w]
           IN  /\ d \in Lost /\ Place(Lost, d) = q \div w /\ q % w \in 0..w-1
               /\ q \div w \in Nat /\ q \div w < t
               /\ d < k <=> q \div w < ddf
               /\ d \in Devices /\ d \in Nat
<1>1. code \in Codes /\ Lost \in SUBSET Devices /\ Cardinality(Lost) \in Nat /\ Lost \subseteq Nat
  BY DevicesFinite DEF FewLost
<1>2. q \div w \in Nat /\ q % w \in 0..w-1 /\ q \div w < t
  BY <1>1, DeviceIs
<1>3. q \div w \in 0..Cardinality(Lost)-1
  BY <1>1, <1>2
<1> DEFINE x == q \div w
           d == RowIds(Lost)[k + x]
<1>4. d \in Lost /\ Place(Lost, d) = x
  <2> HIDE DEF x
  <2>. QED  BY <1>1, <1>3, LostPlace DEF x
<1>5. Place(Lost, d) < ddf <=> d < k
  <2>1. \A y \in Lost : Place(Lost, y) < Cardinality({e \in Lost : e < k}) <=> y < k
    BY DataLost DEF FewLost
  <2>. QED  BY <1>4, <2>1 DEF ddf, LostData
<1> HIDE DEF d, x
<1>6. row_ids[k + q \div w] = d
  BY DEF d, x, row_ids
<1>. QED  BY <1>1, <1>2, <1>4, <1>5, <1>6 DEF x

CodingIs ==
    pc = "coding" =>
        /\ decoding_rows \in Seq(SUBSET Lines)
        /\ \E t \in Nat : Len(decoding_rows) = t * w /\ t >= ddf
        /\ GoodRows(decoding_rows, Lost)

LEMMA SameRows ==
    ASSUME UNCHANGED <<code, bitmatrix, erasures>>
    PROVE  /\ StoredAt(RowIds(Lost))' = StoredAt(RowIds(Lost)) /\ RowIds(Lost)' = RowIds(Lost)
           /\ Stored' = Stored /\ Lines' = Lines /\ k' = k /\ w' = w /\ Lost' = Lost
<1>1. k' = k /\ m' = m /\ w' = w /\ Devices' = Devices /\ Lines' = Lines /\ Lost' = Lost
  BY SameCode DEF Lost
<1>2. Stored' = Stored
  BY <1>1 DEF Stored
<1>3. RowIds(Lost)' = RowIds(Lost)
  BY <1>1 DEF RowIds, Place
<1>. QED  BY <1>1, <1>2, <1>3 DEF StoredAt, Packet

LEMMA DataRowsGood ==
    ASSUME FewLost, InversionIs, inverted, DataRows
    PROVE  CodingIs'
<1>1. /\ pc = "data" /\ caller # "bitmatrix" /\ pc' = "coding"
      /\ code' = code /\ bitmatrix' = bitmatrix /\ erasures' = erasures
      /\ decoding_rows' =
            [r \in 1..ddf*w |-> inv[Packet(row_ids[k + (r-1) \div w], (r-1) % w)]]
  BY DEF DataRows
<1>2. /\ inv \in Matrices /\ \A r \in Lines : {r} = SumOf(inv[r], StoredAt(row_ids))
  BY <1>1 DEF InversionIs, Ids, Sums
<1>3. /\ code \in Codes /\ BitmatrixIs /\ w \in Nat /\ Lost \in SUBSET Devices
      /\ ddf \in Nat /\ ddf * w \in Nat /\ ddf <= Cardinality(Lost)
  <2>1. code \in Codes /\ w \in Nat /\ \A a, b \in Nat : a * b \in Nat
    BY CodeIs DEF FewLost
  <2>2. ddf \in Nat /\ ddf <= Cardinality(Lost)
    BY DataLost DEF FewLost, ddf, LostData
  <2>. QED  BY <2>1, <2>2 DEF FewLost
<1>4. ASSUME NEW r \in 1..ddf*w
      PROVE  GoodRow(decoding_rows'[r], r - 1, Lost)
  <2> DEFINE q == r - 1
             d == row_ids[k + q \div w]
             y == q % w
  <2>1. q \in Nat /\ q < ddf * w
    BY <1>3
  <2>2. d \in Lost /\ y \in 0..w-1 /\ q \div w < ddf /\ (d < k <=> q \div w < ddf) /\ d \in Devices
    <3> HIDE DEF q
    <3>1. ddf \in Nat /\ ddf <= Cardinality(Lost) /\ q \in Nat /\ q < ddf * w
      BY <1>3, <2>1
    <3>. QED  BY <3>1, RowIsFor
  <2>3. d < k
    BY <2>2
  <2>4. Packet(d, y) \in Lines /\ Stored[Packet(d, y)] = {Packet(d, y)}
    <3> HIDE DEF d, y
    <3>. QED  BY <1>3, <2>2, <2>3, StoredIs
  <2>5. decoding_rows'[r] = inv[Packet(d, y)]
    BY <1>1
  <2> HIDE DEF d, y
  <2>6. inv[Packet(d, y)] \in SUBSET Lines /\ SumOf(inv[Packet(d, y)], StoredAt(row_ids)) = {Packet(d, y)}
    BY <1>2, <2>4 DEF Matrices
  <2>. QED  BY <2>4, <2>5, <2>6 DEF GoodRow, d, y, row_ids
<1>5. decoding_rows' \in Seq(SUBSET Lines) /\ Len(decoding_rows') = ddf * w
  <2>1. \A r \in 1..ddf*w : decoding_rows'[r] \in SUBSET Lines
    BY <1>4 DEF GoodRow
  <2>2. decoding_rows' = [r \in 1..ddf*w |-> decoding_rows'[r]]
    BY <1>1
  <2>3. decoding_rows' \in [1..ddf*w -> SUBSET Lines]
    BY <2>1, <2>2
  <2>. QED  BY <1>3, <2>3
<1>6. GoodRows(decoding_rows', Lost)
  BY <1>4, <1>5 DEF GoodRows
<1>7. Lost' = Lost /\ Lines' = Lines /\ w' = w /\ ddf' = ddf
  <2>1. k' = k /\ w' = w /\ Lines' = Lines /\ Lost' = Lost
    BY <1>1, SameCode DEF Lost
  <2>. QED  BY <2>1 DEF ddf, LostData
<1>8. GoodRows(decoding_rows, Lost)'
  BY <1>1, <1>6, SameRows DEF GoodRows, GoodRow, Packet
<1>9. ddf \in Nat /\ ddf >= ddf
  BY <1>3
<1>. QED  BY <1>5, <1>7, <1>8, <1>9 DEF CodingIs

LEMMA CodingRowIs ==
    ASSUME NEW r,
           NEW S, S = {c \in bitmatrix[r] : c \div w \in Lost}, IsFiniteSet(S),
           NEW g, \A c \in S : g[c] = RowOf(c \div w, c % w) /\ g[c] \subseteq Lines,
           bitmatrix[r] \subseteq Lines
    PROVE  CodingRow(r) = Folded(S, g, bitmatrix[r] \ S, Lines)
<1> DEFINE base == bitmatrix[r] \ S
           Row(c) == RowOf(c \div w, c % w)
           Folds(iter) == iter = [s \in SUBSET S |->
               IF s = {} THEN base ELSE Xor(Row(AnyOf(s)), iter[s \ {AnyOf(s)}])]
           it == CHOOSE iter : Folds(iter)
<1>1. CodingRow(r) = it[S]
  BY DEF CodingRow, FoldSet, MapThenFoldSet, AnyOf
<1>2. \A iter : Folds(iter) <=> Iterates(iter, S, g, base)
  <2> TAKE iter
  <2>1. [s \in SUBSET S |-> IF s = {} THEN base ELSE Xor(Row(AnyOf(s)), iter[s \ {AnyOf(s)}])]
        = [s \in SUBSET S |-> IF s = {} THEN base ELSE Xor(g[AnyOf(s)], iter[s \ {AnyOf(s)}])]
    <3>1. \A s \in SUBSET S : s # {} => Row(AnyOf(s)) = g[AnyOf(s)]
      <4>1. \A s \in SUBSET S : s # {} => AnyOf(s) \in S
        BY AnyOfIs
      <4>. QED  BY <4>1
    <3> HIDE DEF Row
    <3>. QED  BY <3>1
  <2>. QED  BY <2>1 DEF Iterates
<1>3. base \in SUBSET Lines /\ \A p \in S : g[p] \subseteq Lines
  OBVIOUS
<1>4. \E iter : Folds(iter)
  <2> HIDE DEF Folds, base
  <2>1. \E iter : Iterates(iter, S, g, base)
    BY <1>3, FoldExists
  <2>. QED  BY <1>2, <2>1
<1>5. Folds(it)
  <2> HIDE DEF Folds
  <2>. QED  BY <1>4
<1> HIDE DEF Folds, it, base
<1>6. Iterates(it, S, g, base)
  BY <1>2, <1>5
<1>7. it[S] = Folded(S, g, base, Lines)
  BY <1>3, <1>6, FoldIs
<1>. QED  BY <1>1, <1>7 DEF base

LEMMA RowsJoined ==
    ASSUME NEW T, NEW s \in Seq(T), NEW u \in Seq(T)
    PROVE  /\ s \o u \in Seq(T) /\ Len(s \o u) = Len(s) + Len(u)
           /\ \A i \in 1..Len(s) : (s \o u)[i] = s[i]
           /\ \A i \in 1..Len(u) : (s \o u)[Len(s) + i] = u[i]
<1>1. Len(s) \in Nat /\ Len(u) \in Nat
  OBVIOUS
<1>2. s \o u \in Seq(T) /\ Len(s \o u) = Len(s) + Len(u)
  OBVIOUS
<1>3. ASSUME NEW i \in 1..Len(s) PROVE (s \o u)[i] = s[i]
  OBVIOUS
<1>4. ASSUME NEW i \in 1..Len(u) PROVE (s \o u)[Len(s) + i] = u[i]
  OBVIOUS
<1>. QED  BY <1>2, <1>3, <1>4

LEMMA CodingDeviceGood ==
    ASSUME FewLost, CodingIs, CodingDevice
    PROVE  CodingIs'
<1> DEFINE h == StoredAt(row_ids)
<1>1. /\ pc = "coding" /\ pc' = "coding"
      /\ code' = code /\ bitmatrix' = bitmatrix /\ erasures' = erasures
      /\ Len(decoding_rows) < Cardinality(Lost) * w
      /\ decoding_rows \in Seq(SUBSET Lines) /\ GoodRows(decoding_rows, Lost)
  BY DEF CodingDevice, CodingIs
<1>2. PICK t \in Nat : Len(decoding_rows) = t * w /\ t >= ddf
  BY <1>1 DEF CodingIs
<1>3. /\ code \in Codes /\ BitmatrixIs /\ Lost \in SUBSET Devices
      /\ k \in Nat \ {0} /\ m \in Nat \ {0} /\ w \in Nat \ {0} /\ k + m \in Nat
      /\ Cardinality(Lost) \in Nat /\ Lost \subseteq Nat /\ ddf \in Nat
  <2>1. ddf \in Nat
    BY DataLost DEF FewLost, ddf, LostData
  <2>. QED  BY <2>1, CodeIs, DevicesFinite DEF FewLost
<1>4. Len(decoding_rows) \div w = t /\ t < Cardinality(Lost) /\ t * w \in Nat
  <2>1. \A a \in Nat : a * w \in Nat /\ a * w = w * a
    BY <1>3
  <2>2. (w * t + 0) \div w = t
    <3>1. 0 \in 0..(w - 1)
      BY <1>3
    <3>. QED  BY <1>3, <3>1, DivRest
  <2>3. (t * w) \div w = t
    BY <1>3, <2>1, <2>2
  <2>4. t < Cardinality(Lost)
    <3>1. t * w < Cardinality(Lost) * w /\ t * w \in Nat
      BY <1>1, <1>2, <2>1
    <3>2. t * w < Cardinality(Lost) * w <=> (t * w) \div w < Cardinality(Lost)
      BY <1>3, <3>1, DeviceIs
    <3>. QED  BY <2>3, <3>1, <3>2
  <2>. QED  BY <1>2, <2>1, <2>3, <2>4
<1> DEFINE d == row_ids[k + t]
           dev == d - k
           more == [y \in 1..w |-> CodingRow(Packet(dev, y - 1))]
<1>5. decoding_rows' = decoding_rows \o more
  BY <1>2, <1>4 DEF CodingDevice
<1>6. d \in Lost /\ d \in Devices /\ d \in Nat /\ ~(d < k) /\ dev \in Nat
  <2>1. t * w + 0 \in Nat /\ t * w < Cardinality(Lost) * w
    BY <1>1, <1>2, <1>4
  <2>2. LET e == row_ids[k + (t * w) \div w]
        IN  e \in Lost /\ e \in Devices /\ e \in Nat /\ (e < k <=> (t * w) \div w < ddf)
    <3>1. t \in Nat /\ t <= Cardinality(Lost) /\ Cardinality(Lost) \in Nat
      BY <1>3, <1>4
    <3>. QED  BY <3>1, <1>2, <1>4, <2>1, RowIsFor
  <2>3. (t * w) \div w = t
    BY <1>2, <1>4
  <2>4. d \in Lost /\ d \in Devices /\ d \in Nat /\ (d < k <=> t < ddf)
    BY <2>2, <2>3
  <2> HIDE DEF d
  <2>. QED  BY <1>2, <1>3, <2>4
\* A row of the device, and what it comes to.
<1>7. ASSUME NEW y \in 0..w-1
      PROVE  /\ CodingRow(Packet(dev, y)) \in SUBSET Lines
             /\ SumOf(CodingRow(Packet(dev, y)), h) = Stored[Packet(d, y)]
  <2> DEFINE r == Packet(dev, y)
             S == {c \in bitmatrix[r] : c \div w \in Lost}
             base == bitmatrix[r] \ S
             g == [c \in Lines |-> RowOf(c \div w, c % w)]
  <2>1. r \in 0..m*w-1 /\ Stored[Packet(d, y)] = bitmatrix[r]
    <3> HIDE DEF d
    <3>. QED  BY <1>3, <1>6, StoredIs
  <2>2. bitmatrix[r] \in SUBSET Lines
    <3> HIDE DEF r
    <3>. QED  BY <1>3, <2>1 DEF BitmatrixIs
  <2>3. ASSUME NEW c \in S
        PROVE  g[c] = RowOf(c \div w, c % w) /\ g[c] \subseteq Lines /\ SumOf(g[c], h) = {c}
    <3> DEFINE e == c \div w
               z == c % w
               q == Packet(Place(Lost, e), z)
    <3>1. c \in Lines /\ e \in 0..k-1 /\ z \in 0..w-1 /\ c = Packet(e, z) /\ e \in Lost /\ e \in Devices
      BY <1>3, <2>2, PacketsAre
    <3>2. e < k /\ Place(Lost, e) \in Nat /\ Place(Lost, e) < ddf
      <4>1. /\ \A x \in Lost : Place(Lost, x) \in Nat
            /\ \A x \in Lost : Place(Lost, x) < Cardinality({u \in Lost : u < k}) <=> x < k
        BY DataLost DEF FewLost
      <4>2. e < k
        BY <1>3, <3>1
      <4> HIDE DEF e
      <4>. QED  BY <3>1, <4>1, <4>2 DEF ddf, LostData
    <3>3. q \in Nat /\ q \div w = Place(Lost, e) /\ q % w = z
      <4> HIDE DEF e, z
      <4>. QED  BY <1>3, <3>1, <3>2, PacketIs
    <3>4. q < t * w
      <4>1. Place(Lost, e) < t
        <5> HIDE DEF e
        <5>. QED  BY <1>2, <1>3, <3>2
      <4> HIDE DEF q, e
      <4>. QED  BY <1>3, <3>3, <4>1, DeviceIs
    <3> HIDE DEF e, z
    <3>5. LET f == row_ids[k + q \div w] IN f \in Lost /\ Place(Lost, f) = q \div w
      <4> HIDE DEF q
      <4>1. t \in Nat /\ t <= Cardinality(Lost) /\ q \in Nat /\ q < t * w
        BY <1>2, <1>3, <1>4, <3>3, <3>4
      <4>. QED  BY <4>1, RowIsFor
    <3>6. row_ids[k + q \div w] = e
      <4> DEFINE f == row_ids[k + q \div w]
      <4>1. f \in Lost /\ Place(Lost, f) = Place(Lost, e)
        BY <3>3, <3>5
      <4>2. IsFiniteSet(Lost)
        BY <1>3, DevicesFinite
      <4> HIDE DEF f
      <4>3. f = e
        BY <1>3, <3>1, <4>1, <4>2, PlaceOnce
      <4>. QED  BY <4>3 DEF f
    <3>7. GoodRow(decoding_rows[q + 1], q, Lost)
      <4>1. q + 1 \in 1..Len(decoding_rows) /\ (q + 1) - 1 = q
        <5> HIDE DEF q
        <5>. QED  BY <1>2, <1>4, <3>3, <3>4
      <4> HIDE DEF q
      <4>. QED  BY <1>1, <4>1 DEF GoodRows
    <3>8. Stored[Packet(e, z)] = {Packet(e, z)}
      BY <1>3, <3>1, <3>2, StoredIs
    <3>9. RowOf(e, z) = decoding_rows[q + 1]
      BY DEF RowOf
    <3> HIDE DEF q
    <3>10. RowOf(e, z) \in SUBSET Lines /\ SumOf(RowOf(e, z), h) = {c}
      <4>1. SumOf(decoding_rows[q + 1], h) = Stored[Packet(row_ids[k + q \div w], q % w)]
        BY <3>7 DEF GoodRow, row_ids
      <4>2. decoding_rows[q + 1] \in SUBSET Lines
        BY <3>7 DEF GoodRow
      <4> HIDE DEF h
      <4>. QED  BY <3>1, <3>3, <3>6, <3>8, <3>9, <4>1, <4>2
    <3>11. g[c] = RowOf(e, z)
      BY <3>1 DEF e, z
    <3> HIDE DEF g, h
    <3>. QED  BY <3>10, <3>11 DEF e, z
  <2>4. IsFiniteSet(S) /\ S \in SUBSET Lines
    BY <1>3, <2>2, PacketsAre, FS_Subset
  <2>5. CodingRow(r) = Folded(S, g, base, Lines)
    <3>1. S = {c \in bitmatrix[r] : c \div w \in Lost} /\ bitmatrix[r] \subseteq Lines
      BY <2>2
    <3>2. \A c \in S : g[c] = RowOf(c \div w, c % w) /\ g[c] \subseteq Lines
      BY <2>3
    <3> HIDE DEF r, g, S
    <3>3. CodingRow(r) = Folded(S, g, bitmatrix[r] \ S, Lines)
      BY <2>4, <3>1, <3>2, CodingRowIs
    <3>. QED  BY <3>3
  <2>6. \A p \in base : h[p] = {p}
    <3>1. \A p \in base : p \in Lines /\ p \div w \notin Lost
      BY <2>2
    <3> HIDE DEF base
    <3>. QED  BY <3>1, RowIdsAre
  <2>7. SumOf(Folded(S, g, base, Lines), h) = base \cup S
    <3>1. base \in SUBSET Lines /\ base \cap S = {}
      BY <2>2
    <3>2. (\A p \in S : g[p] \subseteq Lines) /\ (\A p \in S : SumOf(g[p], h) = {p})
      BY <2>3
    <3>3. h \in Matrices
      BY RowIdsAre
    <3> HIDE DEF h, S, base, g
    <3>. QED  BY <1>3, <2>4, <2>6, <3>1, <3>2, <3>3, FoldedSum
  <2>8. base \cup S = bitmatrix[r]
    OBVIOUS
  <2>9. Folded(S, g, base, Lines) \in SUBSET Lines
    BY DEF Folded
  <2> HIDE DEF r, S, base, g, h
  <2>10. CodingRow(r) \in SUBSET Lines /\ SumOf(CodingRow(r), h) = Stored[Packet(d, y)]
    BY <2>1, <2>5, <2>7, <2>8, <2>9
  <2>. QED  BY <2>10 DEF r
<1>8. more \in Seq(SUBSET Lines) /\ Len(more) = w
  <2>1. \A y \in 1..w : more[y] \in SUBSET Lines
    <3> TAKE y \in 1..w
    <3>1. y - 1 \in 0..w-1
      BY <1>3
    <3> HIDE DEF dev
    <3>. QED  BY <1>7, <3>1
  <2>2. more \in [1..w -> SUBSET Lines]
    BY <2>1
  <2> HIDE DEF more
  <2>. QED  BY <1>3, <2>2
<1>9. /\ decoding_rows' \in Seq(SUBSET Lines) /\ Len(decoding_rows') = t * w + w
      /\ \A i \in 1..t*w : decoding_rows'[i] = decoding_rows[i]
      /\ \A i \in 1..w : decoding_rows'[t*w + i] = more[i]
  <2> HIDE DEF more
  <2>1. /\ decoding_rows \in Seq(SUBSET Lines) /\ more \in Seq(SUBSET Lines)
        /\ Len(decoding_rows) = t * w /\ t * w \in Nat /\ Len(more) = w /\ w \in Nat
    BY <1>1, <1>2, <1>3, <1>4, <1>8
  <2> DEFINE n == t * w
             v == w
  <2>2. n \in Nat /\ v \in Nat /\ Len(decoding_rows) = n /\ Len(more) = v
    BY <2>1
  <2> HIDE DEF n, v
  <2>3. /\ decoding_rows' \in Seq(SUBSET Lines) /\ Len(decoding_rows') = n + v
        /\ \A i \in 1..n : decoding_rows'[i] = decoding_rows[i]
        /\ \A i \in 1..v : decoding_rows'[n + i] = more[i]
    <3>1. decoding_rows \in Seq(SUBSET Lines) /\ more \in Seq(SUBSET Lines)
      BY <2>1
    <3>2. decoding_rows' = decoding_rows \o more
      BY <1>5
    <3> DEFINE j == decoding_rows \o more
               u == more
    <3> HIDE DEF more
    <3>3. /\ j \in Seq(SUBSET Lines) /\ Len(j) = Len(decoding_rows) + Len(u)
          /\ \A i \in 1..Len(decoding_rows) : j[i] = decoding_rows[i]
          /\ \A i \in 1..Len(u) : j[Len(decoding_rows) + i] = u[i]
      BY <3>1, RowsJoined
    <3>. QED  BY <2>2, <3>2, <3>3
  <2>. QED  BY <2>3 DEF n, v
<1>10. GoodRows(decoding_rows', Lost)
  <2> SUFFICES ASSUME NEW i \in 1..Len(decoding_rows')
               PROVE  GoodRow(decoding_rows'[i], i - 1, Lost)
    BY DEF GoodRows
  <2>1. CASE i \in 1..t*w
    BY <1>1, <1>2, <1>9, <2>1 DEF GoodRows
  <2>2. CASE i \notin 1..t*w
    <3> DEFINE y == i - 1 - t*w
    <3>1. i \in Nat /\ y \in 0..w-1 /\ y + 1 \in 1..w /\ i = t*w + (y + 1) /\ i - 1 = t*w + y /\ (y + 1) - 1 = y
      <4> PICK n \in Nat, u \in Nat \ {0} : n = t*w /\ u = w
        BY <1>3, <1>4
      <4>1. i \in 1..(n + u) /\ i \notin 1..n
        BY <1>9, <2>2
      <4>2. /\ i \in Nat /\ i - 1 - n \in 0..u-1 /\ (i - 1 - n) + 1 \in 1..u
            /\ i = n + ((i - 1 - n) + 1) /\ i - 1 = n + (i - 1 - n)
            /\ ((i - 1 - n) + 1) - 1 = i - 1 - n
        BY <4>1
      <4>. QED  BY <4>2
    <3> HIDE DEF y
    <3>2. decoding_rows'[i] = CodingRow(Packet(dev, y))
      BY <1>9, <3>1
    <3>3. (i - 1) \div w = t /\ (i - 1) % w = y
      <4>1. w \in Nat \ {0} /\ t \in Nat /\ y \in 0..(w - 1)
        BY <1>3, <3>1
      <4> PICK u \in Nat \ {0}, q \in Nat : u = w /\ q = t
        BY <4>1
      <4>2. (u * q + y) \div u = q /\ (u * q + y) % u = y
        <5>1. y \in 0..(u - 1)
          BY <4>1
        <5>. QED  BY <5>1, DivRest
      <4>3. u * q = q * u
        OBVIOUS
      <4>4. (q * u + y) \div u = q /\ (q * u + y) % u = y
        BY <4>2, <4>3
      <4>5. i - 1 = q * u + y
        BY <3>1
      <4>. QED  BY <4>4, <4>5
    <3> HIDE DEF d, dev, h
    <3>4. CodingRow(Packet(dev, y)) \in SUBSET Lines
          /\ SumOf(CodingRow(Packet(dev, y)), h) = Stored[Packet(d, y)]
      BY <1>7, <3>1
    <3>. QED  BY <3>2, <3>3, <3>4 DEF GoodRow, d, h, row_ids
  <2>. QED  BY <2>1, <2>2
<1>11. Lost' = Lost /\ Lines' = Lines /\ w' = w /\ ddf' = ddf
  <2>1. k' = k /\ w' = w /\ Lines' = Lines /\ Lost' = Lost
    BY <1>1, SameCode DEF Lost
  <2>. QED  BY <2>1 DEF ddf, LostData
<1>12. GoodRows(decoding_rows, Lost)'
  BY <1>1, <1>10, SameRows DEF GoodRows, GoodRow, Packet
<1>13. t + 1 \in Nat /\ t * w + w = (t + 1) * w /\ t + 1 >= ddf
  BY <1>2, <1>3
<1>. QED  BY <1>9, <1>11, <1>12, <1>13 DEF CodingIs

-----------------------------------------------------------------------------
(* What is known between the steps of a decoder                            *)

Without(S) == [p \in Packets |-> IF p \in S THEN Garbage ELSE Stored[p]]
LostPackets == {p \in Packets : p \div w \in Lost}
Missing ==
    IF pc = "idle" THEN IF ret = -1 THEN LostPackets ELSE {}
    ELSE IF pc = "perform" THEN {p \in LostPackets : Turn(p) >= op}
    ELSE IF pc = "dotprod" THEN {p \in LostPackets : p \div w >= drive}
    ELSE IF pc = "reencode" THEN {p \in LostPackets : p \div w >= k + drive}
    ELSE IF caller = "cache" THEN {} ELSE LostPackets

\* What the cache holds for a pair of devices.
Entry(x, y) == GoodRows(scache[Slot(x, y)], {x, y})
CacheGood ==
    /\ scache # NULL \/ (caller = "cache" /\ Making) => m = 2
    /\ IF caller = "cache" /\ Making
       THEN \E d, e \in Devices :
               /\ e <= d /\ erasures = DevicePair(d, e)
               /\ \A x, y \in Devices : Earlier(x, y, d, e) => Entry(x, y) /\ Entry(y, x)
       ELSE scache # NULL => \A x, y \in Devices : Entry(x, y)

IdsGood == caller = "bitmatrix" /\ pc \in {"triangle", "back", "data"} => Left(dm_ids)
ScheduleGood == pc = "perform" => GoodRows(schedule, Lost)
InverseGood ==
    /\ inv \in Matrices /\ Left(dm_ids)
    /\ \A r \in Lines : {r} = SumOf(inv[r], StoredAt(dm_ids))
BitmatrixGood ==
    /\ ((caller = "bitmatrix" /\ Making) \/ pc = "dotprod") /\ lastdrive # k =>
          FirstIsParity /\ k \notin Lost
    /\ pc = "dotprod" /\ (\E d \in LostData : d < lastdrive) => InverseGood
    /\ pc = "reencode" => drive <= m

CallIsOpen == pc # "idle" => Cardinality(Lost) <= m /\ ret = 0
Outcome == ret \in {0, -1} /\ (ret = -1 => Len(erasures) > m /\ Lost # {})

Recreation ==
    /\ BitmatrixIs /\ CallIsOpen /\ Outcome
    /\ packets = Without(Missing)
    /\ CacheGood /\ InversionIs /\ CodingIs /\ IdsGood /\ ScheduleGood /\ BitmatrixGood

\* What does not depend on where the decoder is.
LEMMA Same ==
    ASSUME UNCHANGED <<code, bitmatrix, erasures>>
    PROVE  /\ k' = k /\ w' = w /\ m' = m /\ Lines' = Lines /\ Devices' = Devices
           /\ Packets' = Packets /\ Stored' = Stored /\ Matrices' = Matrices
           /\ Lost' = Lost /\ LostData' = LostData /\ LostPackets' = LostPackets /\ ddf' = ddf
           /\ BitmatrixIs' = BitmatrixIs /\ FirstIsParity' = FirstIsParity
           /\ \A S : Without(S)' = Without(S)
           /\ \A rows, S : GoodRows(rows, S)' = GoodRows(rows, S)
           /\ \A ids : Left(ids)' = Left(ids) /\ StoredAt(ids)' = StoredAt(ids)
           /\ \A p : Turn(p)' = Turn(p)
           /\ \A S : RowIds(S)' = RowIds(S)
<1>1. /\ k' = k /\ w' = w /\ m' = m /\ Lines' = Lines /\ Devices' = Devices /\ Lost' = Lost
  BY SameCode DEF Lost
<1>2. /\ Packets' = Packets /\ Stored' = Stored /\ Matrices' = Matrices /\ LostData' = LostData
      /\ BitmatrixIs' = BitmatrixIs
  BY <1>1 DEF Packets, Stored, Matrices, LostData, BitmatrixIs
<1>3. LostPackets' = LostPackets /\ ddf' = ddf
  BY <1>1, <1>2 DEF LostPackets, ddf
<1>4. FirstIsParity' = FirstIsParity
  BY <1>1 DEF FirstIsParity, Packet
<1>5. \A S : Without(S)' = Without(S)
  BY <1>2 DEF Without
<1>6. \A ids : Left(ids)' = Left(ids) /\ StoredAt(ids)' = StoredAt(ids)
  BY <1>1, <1>2 DEF Left, StoredAt, Packet
<1>7. \A S : RowIds(S)' = RowIds(S)
  BY <1>1 DEF RowIds, Place
<1>8. \A row, q, S : GoodRow(row, q, S)' = GoodRow(row, q, S)
  BY <1>1, <1>2, <1>7 DEF GoodRow, StoredAt, Packet
<1>9. \A rows, S : GoodRows(rows, S)' = GoodRows(rows, S)
  BY <1>8 DEF GoodRows
<1>10. \A p : Turn(p)' = Turn(p)
  BY <1>1 DEF Turn, Packet, Place
<1>. QED  BY <1>1, <1>2, <1>3, <1>4, <1>5, <1>6, <1>7, <1>9, <1>10

LEMMA SameEntry ==
    ASSUME UNCHANGED <<code, bitmatrix, erasures, scache>>
    PROVE  \A x, y : Entry(x, y)' = Entry(x, y)
<1>1. \A x, y : scache[Slot(x, y)]' = scache[Slot(x, y)]
  BY Same DEF Slot
<1>2. \A rows, S : GoodRows(rows, S)' = GoodRows(rows, S)
  BY Same
<1>. QED  BY <1>1, <1>2 DEF Entry

LEMMA OpenCall ==
    ASSUME DecodeInvariant, Recreation, pc # "idle"
    PROVE  FewLost
BY DEF DecodeInvariant, Recreation, CallIsOpen, FewLost

LEMMA InitiallyRecreated ==
    ASSUME BInit, BitmatrixIs
    PROVE  Recreation
<1> USE DEF BInit, Init
<1>1. packets = Without(Missing)
  BY DEF Without, Missing, Stored, Packets
<1>. QED
  BY <1>1 DEF Recreation, CallIsOpen, Outcome, CacheGood, InversionIs, CodingIs, IdsGood,
              ScheduleGood, BitmatrixGood, Making

\* While a schedule or an inverse is made, it gets better and nothing is written.
LEMMA MakingRecreates ==
    ASSUME DecodeInvariant, Recreation, Making, Making', caller' = caller,
           pc = "coding" => pc' = "coding",
           UNCHANGED <<code, bitmatrix, scache, erasures, packets, ret, bvars>>,
           InversionIs', CodingIs'
    PROVE  Recreation'
<1>1. /\ pc \notin {"idle", "perform", "dotprod", "reencode"}
      /\ pc' \notin {"idle", "perform", "dotprod", "reencode"}
  BY DEF Making
<1>2. BitmatrixIs' /\ CallIsOpen' /\ Outcome'
  BY <1>1, Same DEF Recreation, CallIsOpen, Outcome
<1>3. packets' = Without(Missing)'
  BY <1>1, Same DEF Recreation, Missing
<1>4. CacheGood'
  <2>1. \A x, y : Entry(x, y)' = Entry(x, y)
    BY Same, SameEntry
  <2>. QED  BY <2>1, Same DEF Recreation, CacheGood
<1>5. IdsGood'
  <2>1. \A ids : Left(ids)' = Left(ids)
    BY Same
  <2>2. pc' \in {"triangle", "back", "data"} => pc \in {"triangle", "back", "data"}
    BY DEF Making
  <2>. QED  BY <2>1, <2>2 DEF Recreation, IdsGood, bvars
<1>6. ScheduleGood'
  BY <1>1 DEF ScheduleGood
<1>7. BitmatrixGood'
  BY <1>1, Same DEF Recreation, BitmatrixGood, bvars
<1>. QED  BY <1>2, <1>3, <1>4, <1>5, <1>6, <1>7 DEF Recreation

LEMMA PlacedMatrices ==
    ASSUME code \in Codes, BitmatrixIs, NEW ids, Left(ids)
    PROVE  StoredAt(ids) \in Matrices /\ PlaceRows(ids) = StoredAt(ids)
<1>1. \A c \in Lines : StoredAt(ids)[c] \in SUBSET Lines /\ PlaceRows(ids)[c] = StoredAt(ids)[c]
  BY PlacedIs
<1>2. StoredAt(ids) = [c \in Lines |-> StoredAt(ids)[c]]
  BY DEF StoredAt
<1>3. PlaceRows(ids) = [c \in Lines |-> PlaceRows(ids)[c]]
  BY DEF PlaceRows
<1> HIDE DEF PlaceRows, StoredAt
<1>4. StoredAt(ids) \in Matrices
  BY <1>1, <1>2 DEF Matrices
<1>5. [c \in Lines |-> PlaceRows(ids)[c]] = [c \in Lines |-> StoredAt(ids)[c]]
  BY <1>1
<1>. QED  BY <1>2, <1>3, <1>4, <1>5

LEMMA IdsAre ==
    ASSUME DecodeInvariant, Recreation, pc \in {"triangle", "back", "data"}
    PROVE  StoredAt(Ids) \in Matrices
<1>1. FewLost /\ code \in Codes /\ BitmatrixIs
  BY OpenCall DEF FewLost
<1>2. CASE caller = "bitmatrix"
  <2>1. Left(dm_ids)
    BY <1>2 DEF Recreation, IdsGood
  <2>. QED  BY <1>1, <1>2, <2>1, PlacedMatrices DEF Ids
<1>3. CASE caller # "bitmatrix"
  BY <1>1, <1>3, RowIdsAre DEF Ids
<1>. QED  BY <1>2, <1>3

LEMMA MakingStep ==
    ASSUME DecodeInvariant, Recreation, inverted,
           Triangle \/ Back \/ DataRows \/ CodingDevice, UNCHANGED bvars
    PROVE  Recreation'
<1>1. /\ pc \in {"triangle", "back", "data", "coding"} /\ pc' \in {"triangle", "back", "data", "coding"}
      /\ caller' = caller /\ (pc = "coding" => pc' = "coding")
      /\ UNCHANGED <<code, bitmatrix, scache, erasures, packets, ret, bvars>>
  BY DEF Triangle, Back, DataRows, CodingDevice
<1>2. code \in Codes /\ FewLost /\ InversionIs /\ CodingIs
  BY <1>1, OpenCall DEF FewLost, Recreation
<1>7. Making /\ Making'
  BY <1>1 DEF Making
<1>3. CASE Triangle
  <2>1. InversionIs'
    BY <1>2, <1>3, IdsAre, TriangleInverts DEF Triangle
  <2>2. CodingIs'
    BY <1>3 DEF Triangle, CodingIs
  <2>. QED  BY <1>1, <1>7, <2>1, <2>2, MakingRecreates
<1>4. CASE Back
  <2>1. InversionIs'
    BY <1>2, <1>4, IdsAre, BackInverts DEF Back
  <2>2. CodingIs'
    BY <1>4 DEF Back, CodingIs
  <2>. QED  BY <1>1, <1>7, <2>1, <2>2, MakingRecreates
<1>5. CASE DataRows
  <2>1. CodingIs'
    BY <1>2, <1>5, DataRowsGood
  <2>2. InversionIs'
    BY <1>5 DEF DataRows, InversionIs
  <2>. QED  BY <1>1, <1>7, <2>1, <2>2, MakingRecreates
<1>6. CASE CodingDevice
  <2>1. CodingIs'
    BY <1>2, <1>6, CodingDeviceGood
  <2>2. InversionIs'
    BY <1>6 DEF CodingDevice, InversionIs
  <2>. QED  BY <1>1, <1>7, <2>1, <2>2, MakingRecreates
<1>. QED  BY <1>3, <1>4, <1>5, <1>6

\* The matrix was inverted, so that its inverse can be applied.
LEMMA InverseMadeStep ==
    ASSUME DecodeInvariant, Recreation, inverted, InverseMade
    PROVE  Recreation'
<1>1. /\ pc = "data" /\ caller = "bitmatrix" /\ pc' = "dotprod" /\ caller' = caller
      /\ UNCHANGED <<code, bitmatrix, scache, erasures, packets, ret, inv, bvars>>
  BY DEF InverseMade, inverting
<1>2. Making /\ ~Making'
  BY <1>1 DEF Making
<1>3. drive = 0 /\ drive' = 0
  BY <1>1, <1>2 DEF DecodeInvariant, DotprodIs, bvars
<1>4. BitmatrixIs' /\ CallIsOpen' /\ Outcome'
  BY <1>1, Same DEF Recreation, CallIsOpen, Outcome
<1>5. packets' = Without(Missing)'
  <2>1. Missing = LostPackets
    BY <1>1 DEF Missing
  <2>2. Missing' = {p \in LostPackets : p \div w >= 0}
    BY <1>1, <1>3, Same DEF Missing
  <2>3. \A p \in LostPackets : p \div w \in Nat
    <3>1. code \in Codes /\ Lost \subseteq Nat
      BY DevicesFinite DEF DecodeInvariant
    <3>. QED  BY <3>1 DEF LostPackets
  <2>4. Missing' = Missing
    BY <2>1, <2>2, <2>3
  <2>. QED  BY <1>1, <2>4, Same DEF Recreation
<1>6. CacheGood'
  <2>1. \A x, y : Entry(x, y)' = Entry(x, y)
    BY <1>1, SameEntry
  <2>. QED  BY <1>1, <2>1, Same DEF Recreation, CacheGood
<1>7. InverseGood
  <2>1. /\ inv \in Matrices /\ Sums(mat, inv, StoredAt(dm_ids)) /\ \A r \in Lines : mat[r] = {r}
    BY <1>1 DEF Recreation, InversionIs, Ids
  <2>2. Left(dm_ids)
    BY <1>1 DEF Recreation, IdsGood
  <2>. QED  BY <2>1, <2>2 DEF InverseGood, Sums
<1>8. InverseGood'
  <2>1. /\ Left(dm_ids)' = Left(dm_ids) /\ StoredAt(dm_ids)' = StoredAt(dm_ids) /\ inv' = inv
        /\ Lines' = Lines /\ Matrices' = Matrices
    BY <1>1, Same DEF bvars
  <2>. QED  BY <1>7, <2>1 DEF InverseGood
<1>9. BitmatrixGood'
  BY <1>1, <1>2, <1>8, Same DEF Recreation, BitmatrixGood, bvars
<1>10. InversionIs' /\ CodingIs' /\ IdsGood' /\ ScheduleGood'
  BY <1>1 DEF InversionIs, CodingIs, IdsGood, ScheduleGood
<1>. QED  BY <1>4, <1>5, <1>6, <1>9, <1>10 DEF Recreation

\* At the next step, too, the places of row_ids hold intact devices.
RowsGood ==
    FewLost => /\ Left(row_ids) /\ StoredAt(row_ids) \in Matrices
               /\ PlaceRows(row_ids) = StoredAt(row_ids)
LEMMA RowsGoodNext == RowsGood'
<1>1. RowsGood
  BY RowIdsAre DEF RowsGood
<1>. QED  BY <1>1, PTL

InversionBegun ==
    code \in Codes =>
        \A h \in Matrices :
            /\ [r \in Lines |-> {r}] \in Matrices
            /\ Sums(h, [r \in Lines |-> {r}], h)
            /\ 0 \in Lines /\ \A j \in Lines : ~(j < 0)
LEMMA InversionBegunNext == InversionBegun'
<1>1. InversionBegun
  BY InversionBegins DEF InversionBegun
<1>. QED  BY <1>1, PTL

LEMMA GenerateBegins ==
    ASSUME UNCHANGED <<code, bitmatrix>>, FewLost', Generate(erasures'), caller' # "bitmatrix"
    PROVE  /\ InversionIs' /\ CodingIs' /\ Making'
           /\ IdsGood' /\ ScheduleGood' /\ BitmatrixGood'
<1>1. k' = k /\ w' = w /\ m' = m /\ Lines' = Lines /\ Devices' = Devices
  BY SameCode
<1>2. Lost' = ToSet(erasures') /\ row_ids' = RowIds(ToSet(erasures'))
  BY <1>1 DEF Lost, row_ids, RowIds, Place
<1>3. /\ decoding_rows' = <<>> /\ pc' \in {"triangle", "coding"}
      /\ IF \E x \in 1..Len(erasures') : erasures'[x] < k
         THEN /\ mat' = PlaceRows(RowIds(ToSet(erasures')))
              /\ inv' = [r \in Lines |-> {r}] /\ col' = 0 /\ pc' = "triangle"
         ELSE pc' = "coding"
  BY DEF Generate
<1>4. CodingIs'
  <2> SUFFICES ASSUME pc' = "coding" PROVE CodingIs'
    BY DEF CodingIs
  <2>1. LostData' = {}
    BY <1>1, <1>2, <1>3 DEF LostData, ToSet
  <2>2. ddf' = 0
    BY <2>1, FS_EmptySet DEF ddf
  <2>3. decoding_rows' \in Seq((SUBSET Lines)') /\ Len(decoding_rows') = 0
    BY <1>3
  <2>4. GoodRows(decoding_rows, Lost)'
    BY <2>3 DEF GoodRows
  <2>5. 0 \in Nat /\ 0 = 0 * w' /\ 0 >= ddf'
    <3>1. code' \in Codes /\ w \in Nat
      BY CodeIs DEF FewLost
    <3>. QED  BY <1>1, <2>2, <3>1
  <2>. QED  BY <2>3, <2>4, <2>5 DEF CodingIs
<1>5. InversionIs'
  <2> SUFFICES ASSUME pc' = "triangle" PROVE InversionIs'
    BY <1>3 DEF InversionIs
  <2>1. mat' = PlaceRows(row_ids)' /\ inv' = [r \in Lines |-> {r}]' /\ col' = 0
    <3>1. PlaceRows(row_ids)' = PlaceRows(RowIds(ToSet(erasures')))
      BY <1>1, <1>2 DEF PlaceRows, Packet
    <3>. QED  BY <1>1, <1>3, <3>1
  <2>2. Ids' = row_ids'
    BY DEF Ids
  <2>3. StoredAt(Ids)' \in Matrices' /\ mat' = StoredAt(Ids)'
    BY <2>1, <2>2, RowsGoodNext DEF RowsGood
  <2>4. /\ inv' \in Matrices' /\ Sums(StoredAt(Ids), inv, StoredAt(Ids))'
        /\ 0 \in Lines' /\ \A j \in Lines' : ~(j < 0)
    BY <2>1, <2>3, InversionBegunNext DEF InversionBegun, FewLost
  <2>5. Sums(mat, inv, StoredAt(Ids))'
    BY <2>3, <2>4 DEF Sums
  <2>. QED  BY <2>1, <2>3, <2>4, <2>5 DEF InversionIs
<1>6. Making' /\ IdsGood' /\ ScheduleGood' /\ BitmatrixGood'
  BY <1>3 DEF Making, IdsGood, ScheduleGood, BitmatrixGood
<1>. QED  BY <1>4, <1>5, <1>6

LEMMA SameStored ==
    ASSUME UNCHANGED <<code, bitmatrix>>
    PROVE  /\ k' = k /\ w' = w /\ m' = m /\ Lines' = Lines /\ Devices' = Devices
           /\ Packets' = Packets /\ Stored' = Stored /\ Matrices' = Matrices
           /\ BitmatrixIs' = BitmatrixIs /\ FirstIsParity' = FirstIsParity
           /\ \A S : Without(S)' = Without(S)
           /\ \A rows, S : GoodRows(rows, S)' = GoodRows(rows, S)
<1>1. k' = k /\ w' = w /\ m' = m /\ Lines' = Lines /\ Devices' = Devices
  BY SameCode
<1>2. /\ Packets' = Packets /\ Stored' = Stored /\ Matrices' = Matrices
      /\ BitmatrixIs' = BitmatrixIs
  BY <1>1 DEF Packets, Stored, Matrices, BitmatrixIs
<1>3. FirstIsParity' = FirstIsParity
  BY <1>1 DEF FirstIsParity, Packet
<1>4. \A S : Without(S)' = Without(S)
  BY <1>2 DEF Without
<1>5. \A S : RowIds(S)' = RowIds(S)
  BY <1>1 DEF RowIds, Place
<1>6. \A row, q, S : GoodRow(row, q, S)' = GoodRow(row, q, S)
  BY <1>1, <1>2, <1>5 DEF GoodRow, StoredAt, Packet
<1>7. \A rows, S : GoodRows(rows, S)' = GoodRows(rows, S)
  BY <1>6 DEF GoodRows
<1>. QED  BY <1>1, <1>2, <1>3, <1>4, <1>7

LEMMA EntryKept ==
    ASSUME UNCHANGED <<code, bitmatrix, scache>>
    PROVE  \A x, y : Entry(x, y)' = Entry(x, y)
<1>1. \A x, y : scache[Slot(x, y)]' = scache[Slot(x, y)]
  BY SameStored DEF Slot
<1>2. \A rows, S : GoodRows(rows, S)' = GoodRows(rows, S)
  BY SameStored
<1>. QED  BY <1>1, <1>2 DEF Entry

\* A call begins with everything in place, so that it is not one that has failed.
LEMMA CallBegins ==
    ASSUME DecodeInvariant, Recreation, pc = "idle", packets = Stored
    PROVE  ret = 0
<1> SUFFICES ASSUME ret = -1 PROVE FALSE
  BY DEF Recreation, Outcome
<1>0. code \in Codes /\ BitmatrixIs /\ Lost \in SUBSET Devices
  BY DEF DecodeInvariant, Recreation
<1>1. packets = Without(LostPackets) /\ Lost # {}
  <2>1. Missing = LostPackets
    BY DEF Missing
  <2>. QED  BY <2>1 DEF Recreation, Outcome
<1>2. PICK d : d \in Lost
  BY <1>1
<1>3. d \in Devices /\ d \in Nat /\ 0 \in 0..w-1
  <2>1. d \in Devices
    BY <1>0, <1>2
  <2>. QED  BY <1>0, <2>1, CodeIs, DevicesFinite
<1> DEFINE p == Packet(d, 0)
<1>4. p \in Packets /\ p \div w = d
  BY <1>0, <1>3, StoredIs, PacketIs
<1>5. Stored[p] \in SUBSET Lines
  BY <1>0, <1>3, StoredIs
<1> HIDE DEF p
<1>6. packets[p] = Garbage
  BY <1>1, <1>2, <1>4 DEF Without, LostPackets
<1>7. -1 \notin Lines
  BY <1>0, PacketsAre
<1>. QED  BY <1>5, <1>6, <1>7 DEF Garbage

LEMMA BeginCacheRecreates ==
    ASSUME DecodeInvariant, Recreation, BeginCache, UNCHANGED bvars
    PROVE  Recreation'
<1>1. /\ pc = "idle" /\ packets = Stored /\ m = 2 /\ caller' = "cache" /\ Generate(<<0>>)
      /\ erasures' = <<0>> /\ UNCHANGED <<code, bitmatrix, packets, ret>>
  BY DEF BeginCache, Generate
<1>2. ret = 0 /\ code \in Codes /\ BitmatrixIs
  BY <1>1, CallBegins DEF DecodeInvariant, Recreation
<1>3. Lost' = {0} /\ DevicePair(0, 0) = <<0>>
  BY <1>1 DEF Lost, ToSet, DevicePair
<1>4. 0 \in Devices /\ Devices \subseteq Nat
  BY <1>2, CodeIs, DevicesFinite DEF Devices
<1>5. m' = 2 /\ Devices' = Devices /\ BitmatrixIs'
  BY <1>1, <1>2, SameStored
<1>6. FewLost'
  <2>1. Cardinality({0}) = 1
    BY FS_Singleton
  <2>. QED  BY <1>1, <1>2, <1>3, <1>4, <1>5, <2>1 DEF FewLost
<1>7. /\ InversionIs' /\ CodingIs' /\ Making'
      /\ IdsGood' /\ ScheduleGood' /\ BitmatrixGood'
  BY <1>1, <1>6, GenerateBegins
<1>8. CallIsOpen' /\ Outcome'
  BY <1>1, <1>2, <1>6 DEF CallIsOpen, Outcome, FewLost
<1>9. packets' = Without(Missing)'
  <2>1. Missing' = {}
    BY <1>1, <1>7 DEF Missing, Making
  <2>2. Stored = Without({})
    BY DEF Without, Stored, Packets
  <2>. QED  BY <1>1, <2>1, <2>2, SameStored
<1>10. CacheGood'
  <2>1. \A x, y \in Devices : ~Earlier(x, y, 0, 0)
    BY <1>4 DEF Earlier
  <2>. QED  BY <1>1, <1>3, <1>4, <1>5, <1>7, <2>1 DEF CacheGood
<1>. QED  BY <1>5, <1>7, <1>8, <1>9, <1>10 DEF Recreation

\* A schedule that goes into the cache is as long as it must be.
LEMMA CodingGood ==
    ASSUME Recreation, pc = "coding"
    PROVE  GoodRows(decoding_rows, Lost)
BY DEF Recreation, CodingIs

LEMMA CacheScheduleRecreates ==
    ASSUME DecodeInvariant, Recreation, CacheSchedule, UNCHANGED bvars
    PROVE  Recreation'
<1>0. code \in Codes /\ BitmatrixIs /\ \A x \in Devices : x \in Nat
  BY DevicesFinite DEF DecodeInvariant, Recreation
<1>1. /\ pc = "coding" /\ caller = "cache" /\ Making /\ caller' = caller
      /\ UNCHANGED <<code, bitmatrix, packets, ret>>
  BY DEF CacheSchedule, Making
<1>2. scache = [x \in 0..(k+m)*(k+m+1)-1 |-> scache[x]]
  BY <1>1 DEF DecodeInvariant, CacheIs
<1>3. PICK d \in Devices, e \in Devices :
         /\ e <= d /\ erasures = DevicePair(d, e)
         /\ \A x, y \in Devices : Earlier(x, y, d, e) => Entry(x, y) /\ Entry(y, x)
  BY <1>1 DEF Recreation, CacheGood
<1>4. /\ \A x, y \in Devices :
            scache'[Slot(x, y)] = IF {x, y} = {d, e} THEN decoding_rows ELSE scache[Slot(x, y)]
      /\ \/ /\ pc' = "idle" /\ erasures' = <<>>
            /\ \A x, y \in Devices : y <= x => Earlier(x, y, d, e) \/ (x = d /\ y = e)
         \/ /\ pc' \in {"triangle", "coding"} /\ Generate(erasures')
            /\ \E x, y \in Devices :
                  /\ y <= x /\ erasures' = DevicePair(x, y)
                  /\ \A a, b \in Devices :
                        Earlier(a, b, x, y) => Earlier(a, b, d, e) \/ (a = d /\ b = e)
  <2>1. e <= d /\ erasures = DevicePair(d, e)
    BY <1>3
  <2>2. PairEntered(d, e)
    BY <1>0, <1>2, <2>1, CacheProgress
  <2>. QED  BY <2>2 DEF PairEntered
<1>5. GoodRows(decoding_rows, {d, e})
  <2>1. Lost = {d, e}
    BY <1>0, <1>3, PairIs DEF Lost
  <2>. QED  BY <1>1, <2>1, CodingGood
<1>6. m = 2 /\ m' = 2 /\ BitmatrixIs' /\ Devices' = Devices
  <2>1. m = 2
    BY <1>1 DEF Recreation, CacheGood
  <2>. QED  BY <1>0, <1>1, <2>1, SameStored
<1>7. ASSUME NEW x \in Devices, NEW y \in Devices, Earlier(x, y, d, e) \/ (x = d /\ y = e)
      PROVE  Entry(x, y)' /\ Entry(y, x)'
  <2>1. ASSUME NEW a \in Devices, NEW b \in Devices, Entry(a, b) \/ {a, b} = {d, e}
        PROVE  Entry(a, b)'
    <3>1. scache'[Slot(a, b)] = IF {a, b} = {d, e} THEN decoding_rows ELSE scache[Slot(a, b)]
      BY <1>4
    <3>2. GoodRows(scache'[Slot(a, b)], {a, b})
      <4>1. CASE {a, b} = {d, e}
        BY <1>5, <3>1, <4>1
      <4>2. CASE {a, b} # {d, e}
        BY <2>1, <3>1, <4>2 DEF Entry
      <4>. QED  BY <4>1, <4>2
    <3>3. \A rows, S : GoodRows(rows, S)' = GoodRows(rows, S)
      BY <1>1, SameStored
    <3>4. Slot(a, b)' = Slot(a, b)
      BY <1>1, SameStored DEF Slot
    <3>. QED  BY <3>2, <3>3, <3>4 DEF Entry
  <2>2. (Entry(x, y) /\ Entry(y, x)) \/ ({x, y} = {d, e} /\ {y, x} = {d, e})
    BY <1>3, <1>7
  <2>. QED  BY <2>1, <2>2
<1>8. ret = 0 /\ packets = Without({})
  <2>1. Missing = {}
    BY <1>1 DEF Missing
  <2>. QED  BY <1>1, <2>1 DEF Recreation, CallIsOpen
<1>9. packets' = Without({})' /\ ret' = 0
  BY <1>1, <1>8, SameStored
<1>10. CASE /\ pc' = "idle" /\ erasures' = <<>>
            /\ \A x, y \in Devices : y <= x => Earlier(x, y, d, e) \/ (x = d /\ y = e)
  <2>1. \A x, y \in Devices : Entry(x, y)'
    <3> TAKE x, y \in Devices
    <3>1. x <= y \/ y <= x
      BY <1>0
    <3>. QED  BY <1>7, <1>10, <3>1
  <2>2. CacheGood'
    BY <1>6, <1>10, <2>1 DEF CacheGood, Making
  <2>3. packets' = Without(Missing)'
    BY <1>9, <1>10 DEF Missing
  <2>4. /\ CallIsOpen' /\ Outcome' /\ InversionIs' /\ CodingIs' /\ IdsGood' /\ ScheduleGood'
        /\ BitmatrixGood'
    BY <1>9, <1>10 DEF CallIsOpen, Outcome, InversionIs, CodingIs, IdsGood, ScheduleGood,
       BitmatrixGood, Making
  <2>. QED  BY <1>6, <2>2, <2>3, <2>4 DEF Recreation
<1>11. CASE /\ pc' \in {"triangle", "coding"} /\ Generate(erasures')
            /\ \E x, y \in Devices :
                  /\ y <= x /\ erasures' = DevicePair(x, y)
                  /\ \A a, b \in Devices :
                        Earlier(a, b, x, y) => Earlier(a, b, d, e) \/ (a = d /\ b = e)
  <2>1. PICK x \in Devices, y \in Devices :
           /\ y <= x /\ erasures' = DevicePair(x, y)
           /\ \A a, b \in Devices :
                 Earlier(a, b, x, y) => Earlier(a, b, d, e) \/ (a = d /\ b = e)
    BY <1>11
  <2>2. FewLost'
    <3>1. Lost' = {x, y} /\ Cardinality({x, y}) <= 2
      <4>1. ToSet(DevicePair(x, y)) = {x, y} /\ Cardinality({x, y}) = Size(x, y)
        BY <1>0, PairIs
      <4>. QED  BY <2>1, <4>1 DEF Lost, Size
    <3>. QED  BY <1>0, <1>1, <1>6, <3>1 DEF FewLost
  <2>3. /\ InversionIs' /\ CodingIs' /\ Making'
        /\ IdsGood' /\ ScheduleGood' /\ BitmatrixGood'
    BY <1>1, <1>11, <2>2, GenerateBegins
  <2>4. CacheGood'
    <3>1. \A a, b \in Devices : Earlier(a, b, x, y) => Entry(a, b)' /\ Entry(b, a)'
      BY <1>7, <2>1
    <3>. QED  BY <1>1, <1>6, <2>1, <2>3, <3>1 DEF CacheGood
  <2>5. packets' = Without(Missing)'
    BY <1>1, <1>9, <1>11 DEF Missing
  <2>6. CallIsOpen' /\ Outcome'
    BY <1>9, <2>2 DEF CallIsOpen, Outcome, FewLost
  <2>. QED  BY <1>6, <2>3, <2>4, <2>5, <2>6 DEF Recreation
<1>. QED  BY <1>4, <1>10, <1>11

\* The devices of a list are lost, and with them their packets.
LEMMA DevicesFail ==
    ASSUME DecodeInvariant, Recreation, NEW list \in Calls, Fail(list), packets = Stored,
           erasures' = list, UNCHANGED <<code, bitmatrix>>
    PROVE  /\ Lost' = ToSet(list) /\ Lost' \in SUBSET Devices /\ Lost' # {}
           /\ Cardinality(Lost') = Len(list) /\ Len(list) \in 1..3
           /\ packets' = Without(LostPackets)' /\ code \in Codes /\ BitmatrixIs
<1>1. Lost' = ToSet(list) /\ w' = w /\ Packets' = Packets
  BY SameStored DEF Lost
<1>2. code \in Codes /\ BitmatrixIs
  BY DEF DecodeInvariant, Recreation
<1>3. /\ ToSet(list) \in SUBSET Devices /\ Cardinality(ToSet(list)) = Len(list)
      /\ Len(list) \in 1..3 /\ list[1] \in ToSet(list)
  BY <1>2, CallIs
<1>4. packets' = [p \in Packets |-> IF p \div w \in ToSet(list) THEN Garbage ELSE Stored[p]]
  BY DEF Fail, Stored, Packets
<1>5. Without(LostPackets)' = [p \in Packets |-> IF p \div w \in ToSet(list) THEN Garbage ELSE Stored[p]]
  <2>1. Stored' = Stored
    BY SameStored
  <2>2. LostPackets' = {p \in Packets : p \div w \in ToSet(list)}
    BY <1>1 DEF LostPackets
  <2>. QED  BY <1>1, <2>1, <2>2 DEF Without
<1>. QED  BY <1>1, <1>2, <1>3, <1>4, <1>5

\* A call for more devices than the code can recreate is refused.
LEMMA Refused ==
    ASSUME DecodeInvariant, Recreation, NEW list \in Calls, Fail(list), packets = Stored,
           erasures' = list, UNCHANGED <<code, bitmatrix, scache>>,
           Len(list) > m, pc' = "idle", ret' = -1, pc = "idle"
    PROVE  Recreation'
<1>1. Lost' # {} /\ packets' = Without(LostPackets)' /\ BitmatrixIs' /\ m' = m
  BY DevicesFail, SameStored
<1>2. packets' = Without(Missing)'
  BY <1>1 DEF Missing
<1>3. CacheGood'
  <2>1. \A x, y : Entry(x, y)' = Entry(x, y)
    BY EntryKept
  <2>. QED  BY <1>1, <2>1, SameStored DEF Recreation, CacheGood, Making
<1>4. /\ CallIsOpen' /\ Outcome' /\ InversionIs' /\ CodingIs' /\ IdsGood' /\ ScheduleGood'
      /\ BitmatrixGood'
  BY <1>1 DEF CallIsOpen, Outcome, InversionIs, CodingIs, IdsGood, ScheduleGood,
     BitmatrixGood, Making
<1>. QED  BY <1>1, <1>2, <1>3, <1>4 DEF Recreation

LEMMA DecodeLazyRecreates ==
    ASSUME DecodeInvariant, Recreation, NEW list \in Calls, DecodeLazy(list), UNCHANGED bvars
    PROVE  Recreation'
<1>1. /\ pc = "idle" /\ packets = Stored /\ Fail(list) /\ caller' = "lazy" /\ erasures' = list
      /\ UNCHANGED <<code, bitmatrix, scache>>
  BY DEF DecodeLazy, Generate
<1>2. CASE TooMany(list)
  BY <1>1, <1>2, Refused DEF DecodeLazy, TooMany
<1>3. CASE ~TooMany(list)
  <2>1. Generate(list) /\ ret' = ret /\ ~(Len(list) > m)
    BY <1>3 DEF DecodeLazy, TooMany
  <2>2. /\ Lost' \in SUBSET Devices /\ Cardinality(Lost') = Len(list) /\ Len(list) \in Nat
        /\ packets' = Without(LostPackets)' /\ code \in Codes /\ BitmatrixIs
    BY <1>1, DevicesFail
  <2>3. m' = m /\ Devices' = Devices /\ BitmatrixIs'
    BY <1>1, <2>2, SameStored
  <2>4. FewLost'
    <3>1. m \in Nat
      BY <2>2, CodeIs
    <3>. QED  BY <1>1, <2>1, <2>2, <2>3, <3>1 DEF FewLost
  <2>5. /\ InversionIs' /\ CodingIs' /\ Making'
        /\ IdsGood' /\ ScheduleGood' /\ BitmatrixGood'
    BY <1>1, <2>1, <2>4, GenerateBegins
  <2>6. ret = 0
    BY <1>1, CallBegins
  <2>7. packets' = Without(Missing)'
    BY <1>1, <2>2, <2>5 DEF Missing, Making
  <2>8. CacheGood'
    <3>1. \A x, y : Entry(x, y)' = Entry(x, y)
      BY <1>1, EntryKept
    <3>. QED  BY <1>1, <2>3, <3>1 DEF Recreation, CacheGood, Making
  <2>9. CallIsOpen' /\ Outcome'
    BY <2>1, <2>4, <2>6 DEF CallIsOpen, Outcome, FewLost
  <2>. QED  BY <2>3, <2>5, <2>7, <2>8, <2>9 DEF Recreation
<1>. QED  BY <1>2, <1>3

\* The turns of the lost packets are 1, 2, ... to the length of the schedule.
LEMMA TurnIs ==
    ASSUME DecodeInvariant, NEW p \in LostPackets
    PROVE  /\ Turn(p) \in Nat /\ Turn(p) >= 1 /\ Turn(p) <= Cardinality(Lost) * w
           /\ Cardinality(Lost) * w \in Nat
           /\ \A q \in LostPackets : Turn(q) = Turn(p) => q = p
<1>0. code \in Codes /\ Lost \in SUBSET Devices
  BY DEF DecodeInvariant
<1>1. w \in Nat \ {0} /\ IsFiniteSet(Lost) /\ Cardinality(Lost) \in Nat /\ Lost \subseteq Nat
  BY <1>0, CodeIs, DevicesFinite
<1>2. ASSUME NEW q \in LostPackets
      PROVE  /\ q \div w \in Lost /\ q % w \in 0..w-1 /\ q = Packet(q \div w, q % w)
             /\ Place(Lost, q \div w) \in 0..Cardinality(Lost)-1
             /\ Place(Lost, q \div w) \in Nat
             /\ Turn(q) = Packet(Place(Lost, q \div w), q % w) + 1
             /\ Packet(Place(Lost, q \div w), q % w) \in Nat
             /\ Packet(Place(Lost, q \div w), q % w) \div w = Place(Lost, q \div w)
             /\ Packet(Place(Lost, q \div w), q % w) % w = q % w
  <2>1. /\ q \div w \in Lost /\ q % w \in 0..w-1 /\ q = Packet(q \div w, q % w)
    BY <1>0, PacketsAre DEF LostPackets
  <2>2. Place(Lost, q \div w) \in 0..Cardinality(Lost)-1
    BY <1>1, <2>1, PlaceIs
  <2>3. Place(Lost, q \div w) \in Nat
    BY <1>1, <2>2
  <2>. QED  BY <1>0, <2>1, <2>2, <2>3, PacketIs DEF Turn
<1> DEFINE c == Place(Lost, p \div w)
           t == Packet(c, p % w)
<1>3. t \in Nat /\ t \div w = c /\ c \in Nat /\ c < Cardinality(Lost) /\ Turn(p) = t + 1
  <2>1. c \in 0..Cardinality(Lost)-1 /\ c \in Nat
    BY <1>2
  <2>2. t \in Nat /\ t \div w = c /\ Turn(p) = t + 1
    BY <1>2
  <2> HIDE DEF c, t
  <2>. QED  BY <1>1, <2>1, <2>2
<1> HIDE DEF t
<1>4. t < Cardinality(Lost) * w /\ Cardinality(Lost) * w \in Nat
  <2>1. \A a, b \in Nat : a * b \in Nat
    OBVIOUS
  <2>. QED  BY <1>0, <1>1, <1>3, <2>1, DeviceIs
<1>5. ASSUME NEW q \in LostPackets, Turn(q) = Turn(p) PROVE q = p
  <2> DEFINE u == Packet(Place(Lost, q \div w), q % w)
  <2>1. u = t
    <3>1. u \in Nat /\ Turn(q) = u + 1
      BY <1>2
    <3> HIDE DEF u
    <3>. QED  BY <1>3, <1>5, <3>1
  <2>2. u \div w = Place(Lost, q \div w) /\ u % w = q % w
    BY <1>2
  <2>3. t % w = p % w
    BY <1>2 DEF t
  <2>4. Place(Lost, q \div w) = Place(Lost, p \div w) /\ q % w = p % w
    BY <1>3, <2>1, <2>2, <2>3
  <2>5. q \div w \in Lost /\ p \div w \in Lost
    BY <1>2
  <2>6. q \div w = p \div w
    <3> DEFINE a == q \div w
               b == p \div w
    <3>1. a \in Lost /\ b \in Lost /\ Place(Lost, a) = Place(Lost, b)
      BY <2>4, <2>5
    <3> HIDE DEF a, b
    <3>2. a = b
      BY <1>1, <3>1, PlaceOnce
    <3>. QED  BY <3>2 DEF a, b
  <2>. QED  BY <1>2, <2>4, <2>6
<1>. QED  BY <1>3, <1>4, <1>5

TurnsIs == DecodeInvariant => \A p \in LostPackets : Turn(p) >= 1
LEMMA TurnsNext == TurnsIs'
<1>1. TurnsIs
  BY TurnIs DEF TurnsIs
<1>. QED  BY <1>1, PTL

LEMMA LazyScheduleRecreates ==
    ASSUME DecodeInvariant, Recreation, LazySchedule, UNCHANGED bvars
    PROVE  Recreation'
<1>1. /\ pc = "coding" /\ caller = "lazy" /\ caller' = caller /\ Making
      /\ pc' = "perform" /\ op' = 1 /\ schedule' = decoding_rows
      /\ UNCHANGED <<code, bitmatrix, scache, erasures, packets, ret>>
  BY DEF LazySchedule, Making
<1>2. BitmatrixIs' /\ CallIsOpen' /\ Outcome'
  BY <1>1, Same DEF Recreation, CallIsOpen, Outcome
<1>3. packets' = Without(Missing)'
  <2>1. Missing = LostPackets
    BY <1>1 DEF Missing
  <2>2. Missing' = {p \in LostPackets : Turn(p) >= 1}
    BY <1>1, Same DEF Missing
  <2>3. Missing' = Missing
    BY <2>1, <2>2, TurnIs
  <2>. QED  BY <1>1, <2>3, Same DEF Recreation
<1>4. CacheGood'
  <2>1. \A x, y : Entry(x, y)' = Entry(x, y)
    BY <1>1, SameEntry
  <2>. QED  BY <1>1, <2>1, Same DEF Recreation, CacheGood
<1>5. ScheduleGood'
  <2>1. GoodRows(decoding_rows, Lost)
    BY <1>1, CodingGood
  <2>2. \A rows, S : GoodRows(rows, S)' = GoodRows(rows, S)
    BY <1>1, Same
  <2>3. GoodRows(schedule, Lost)'
    BY <1>1, <2>1, <2>2, Same
  <2>. QED  BY <2>3 DEF ScheduleGood
<1>6. InversionIs' /\ CodingIs' /\ IdsGood' /\ BitmatrixGood'
  BY <1>1 DEF InversionIs, CodingIs, IdsGood, BitmatrixGood, Making
<1>. QED  BY <1>2, <1>3, <1>4, <1>5, <1>6 DEF Recreation

LEMMA DecodeCacheRecreates ==
    ASSUME DecodeInvariant, Recreation, NEW list \in Calls, DecodeCache(list), UNCHANGED bvars
    PROVE  Recreation'
<1>1. /\ pc = "idle" /\ packets = Stored /\ Fail(list) /\ caller' = caller /\ erasures' = list
      /\ scache # NULL /\ UNCHANGED <<code, bitmatrix, scache>>
      /\ IF Len(list) > 2 THEN ret' = -1 /\ pc' = "idle"
         ELSE schedule' = scache[Index(list)] /\ op' = 1 /\ pc' = "perform" /\ ret' = ret
  BY DEF DecodeCache
<1>2. m = 2 /\ \A x, y \in Devices : Entry(x, y)
  BY <1>1 DEF Recreation, CacheGood, Making
<1>3. CASE Len(list) > 2
  BY <1>1, <1>2, <1>3, Refused
<1>4. CASE ~(Len(list) > 2)
  <2>1. /\ Lost' = ToSet(list) /\ Lost' \in SUBSET Devices
        /\ Cardinality(Lost') = Len(list) /\ Len(list) \in Nat
        /\ packets' = Without(LostPackets)' /\ code \in Codes /\ BitmatrixIs
    BY <1>1, DevicesFail
  <2>2. m' = m /\ Devices' = Devices /\ BitmatrixIs'
    BY <1>1, <2>1, SameStored
  <2>3. CallIsOpen' /\ Outcome'
    BY <1>1, <1>2, <1>4, <2>1, <2>2, CallBegins DEF CallIsOpen, Outcome
  <2>4. packets' = Without(Missing)'
    <3>1. DecodeInvariant'
      BY DecodeCacheStep
    <3>2. Missing' = LostPackets'
      <4>1. Missing' = {p \in LostPackets' : Turn(p)' >= 1}
        BY <1>1, <1>4 DEF Missing
      <4>2. \A p \in LostPackets' : Turn(p)' >= 1
        BY <3>1, TurnsNext DEF TurnsIs
      <4>. QED  BY <4>1, <4>2
    <3>. QED  BY <2>1, <3>2
  <2>5. CacheGood'
    <3>1. \A x, y : Entry(x, y)' = Entry(x, y)
      BY <1>1, EntryKept
    <3>. QED  BY <1>1, <1>4, <2>2, <3>1 DEF Recreation, CacheGood, Making
  <2>6. ScheduleGood'
    <3>1. PICK d \in Devices, e \in Devices : list = DevicePair(d, e)
      BY <1>4, <2>1, PairExists
    <3>2. Index(list) = Slot(d, e) /\ ToSet(list) = {d, e}
      BY <2>1, <3>1, PairIs
    <3>3. GoodRows(scache[Index(list)], Lost')
      BY <1>2, <2>1, <3>2 DEF Entry
    <3>4. \A rows, S : GoodRows(rows, S)' = GoodRows(rows, S)
      BY <1>1, SameStored
    <3>5. GoodRows(schedule, Lost)'
      BY <1>1, <1>4, <3>3, <3>4
    <3>. QED  BY <3>5 DEF ScheduleGood
  <2>7. InversionIs' /\ CodingIs' /\ IdsGood' /\ BitmatrixGood'
    BY <1>1, <1>4 DEF InversionIs, CodingIs, IdsGood, BitmatrixGood, Making
  <2>. QED  BY <2>2, <2>3, <2>4, <2>5, <2>6, <2>7 DEF Recreation
<1>. QED  BY <1>3, <1>4

\* Devices that are not missing hold what was stored there.
Held(ids) == [c \in Lines |-> packets[Packet(ids[c \div w], c % w)]]
LEMMA HeldIs ==
    ASSUME NEW ids, NEW S, packets = Without(S),
           \A c \in Lines : Packet(ids[c \div w], c % w) \in Packets \ S
    PROVE  Held(ids) = StoredAt(ids)
<1>1. ASSUME NEW c \in Lines
      PROVE  packets[Packet(ids[c \div w], c % w)] = Stored[Packet(ids[c \div w], c % w)]
  <2> DEFINE p == Packet(ids[c \div w], c % w)
  <2>1. p \in Packets /\ p \notin S
    OBVIOUS
  <2> HIDE DEF p
  <2>2. packets[p] = Stored[p]
    BY <2>1 DEF Without
  <2>. QED  BY <2>2 DEF p
<1>. QED  BY <1>1 DEF Held, StoredAt

LEMMA MissingAreLost == Missing \subseteq LostPackets
BY DEF Missing

LEMMA IntactHeld ==
    ASSUME DecodeInvariant, Recreation, NEW ids, Left(ids)
    PROVE  Held(ids) = StoredAt(ids)
<1>1. code \in Codes /\ BitmatrixIs
  BY DEF DecodeInvariant, Recreation
<1>2. ASSUME NEW c \in Lines PROVE Packet(ids[c \div w], c % w) \in Packets \ Missing
  BY <1>1, PlacedIs, MissingAreLost DEF LostPackets
<1>3. packets = Without(Missing)
  BY DEF Recreation
<1>. QED  BY <1>2, <1>3, HeldIs

LEMMA PerformRecreates ==
    ASSUME DecodeInvariant, Recreation, Perform, UNCHANGED bvars
    PROVE  Recreation'
<1> DEFINE q == op - 1
           d == row_ids[k + q \div w]
           dest == Packet(d, q % w)
<1>1. /\ pc = "perform" /\ pc' = "perform" /\ caller' = caller /\ op <= Len(schedule) /\ op' = op + 1
      /\ UNCHANGED <<code, bitmatrix, scache, erasures, schedule, ret>>
      /\ packets' = IF schedule[op] = {} THEN packets
                    ELSE [packets EXCEPT ![dest] = SumOf(schedule[op], Held(row_ids))]
  BY DEF Perform, Held
<1>2. op \in Nat \ {0} /\ Len(schedule) = Cardinality(Lost) * w
  BY <1>1 DEF DecodeInvariant, PerformIs
<1>3. /\ FewLost /\ code \in Codes /\ BitmatrixIs /\ w \in Nat \ {0}
      /\ Cardinality(Lost) \in Nat /\ Cardinality(Lost) * w \in Nat
  <2>1. FewLost
    BY <1>1, OpenCall
  <2>2. code \in Codes /\ BitmatrixIs /\ w \in Nat \ {0} /\ Cardinality(Lost) \in Nat
    BY <2>1, CodeIs, DevicesFinite DEF FewLost
  <2>3. \A a, b \in Nat : a * b \in Nat
    OBVIOUS
  <2>. QED  BY <2>1, <2>2, <2>3
<1>4. /\ q \in Nat /\ q < Cardinality(Lost) * w /\ op \in 1..Len(schedule) /\ op = q + 1
  BY <1>1, <1>2, <1>3
<1>5. /\ d \in Lost /\ Place(Lost, d) = q \div w /\ q % w \in 0..w-1 /\ d \in Devices /\ d \in Nat
      /\ q \div w \in Nat
  <2>1. Cardinality(Lost) \in Nat /\ Cardinality(Lost) <= Cardinality(Lost)
    BY <1>3
  <2> HIDE DEF q
  <2>. QED  BY <1>3, <1>4, <2>1, RowIsFor
<1>6. /\ dest \in Packets /\ dest \div w = d /\ dest % w = q % w /\ Stored[dest] # {}
      /\ dest \in LostPackets
  <2>1. /\ dest \in Packets /\ Stored[dest] # {}
    <3> HIDE DEF q, d
    <3>. QED  BY <1>3, <1>5, StoredIs
  <2>2. dest \div w = d /\ dest % w = q % w
    <3> HIDE DEF q, d
    <3>. QED  BY <1>3, <1>5, PacketIs
  <2> HIDE DEF dest, d, q
  <2>. QED  BY <1>5, <2>1, <2>2 DEF LostPackets
<1>7. Turn(dest) = op
  <2>1. q = Packet(q \div w, q % w)
    <3> HIDE DEF q
    <3>. QED  BY <1>3, <1>4, DeviceIs
  <2>2. Turn(dest) = Packet(q \div w, q % w) + 1
    <3> HIDE DEF dest, d, q
    <3>. QED  BY <1>5, <1>6 DEF Turn
  <2>. QED  BY <1>4, <2>1, <2>2
<1>8. GoodRow(schedule[op], q, Lost)
  BY <1>1, <1>4 DEF Recreation, ScheduleGood, GoodRows
<1>9. SumOf(schedule[op], Held(row_ids)) = Stored[dest] /\ schedule[op] # {}
  <2>1. SumOf(schedule[op], StoredAt(row_ids)) = Stored[dest]
    BY <1>8 DEF GoodRow, row_ids
  <2>2. Held(row_ids) = StoredAt(row_ids)
    BY <1>3, RowIdsAre, IntactHeld
  <2>3. schedule[op] # {}
    <3> HIDE DEF dest
    <3>. QED  BY <1>6, <2>1, SumNone
  <2>. QED  BY <2>1, <2>2, <2>3
<1> HIDE DEF dest, d, q
<1>10. packets' = [packets EXCEPT ![dest] = Stored[dest]]
  BY <1>1, <1>9
<1>11. BitmatrixIs' /\ CallIsOpen' /\ Outcome'
  BY <1>1, Same DEF Recreation, CallIsOpen, Outcome
<1>12. packets' = Without(Missing)'
  <2>1. Missing' = {p \in LostPackets : Turn(p) >= op + 1}
    BY <1>1, Same DEF Missing
  <2>2. Missing = {p \in LostPackets : Turn(p) >= op}
    BY <1>1 DEF Missing
  <2>3. \A p \in LostPackets : Turn(p) >= op + 1 <=> (Turn(p) >= op /\ p # dest)
    <3> TAKE p \in LostPackets
    <3>1. Turn(p) \in Nat /\ (Turn(p) = Turn(dest) => p = dest)
      BY <1>6, TurnIs
    <3>. QED  BY <1>2, <1>7, <3>1
  <2>4. Missing' = Missing \ {dest}
    BY <2>1, <2>2, <2>3
  <2>5. packets = Without(Missing) /\ dest \in Packets
    BY <1>6 DEF Recreation
  <2>6. [packets EXCEPT ![dest] = Stored[dest]] = Without(Missing \ {dest})
    <3> DEFINE gone == Missing
    <3> HIDE DEF gone
    <3>1. packets = Without(gone)
      BY <2>5 DEF gone
    <3>2. [packets EXCEPT ![dest] = Stored[dest]] = Without(gone \ {dest})
      BY <2>5, <3>1 DEF Without
    <3>. QED  BY <3>2 DEF gone
  <2>. QED  BY <1>1, <1>10, <2>4, <2>6, Same
<1>13. CacheGood'
  <2>1. \A x, y : Entry(x, y)' = Entry(x, y)
    BY <1>1, SameEntry
  <2>. QED  BY <1>1, <2>1, Same DEF Recreation, CacheGood, Making
<1>14. ScheduleGood'
  <2>1. GoodRows(schedule, Lost)
    BY <1>1 DEF Recreation, ScheduleGood
  <2>2. \A rows, S : GoodRows(rows, S)' = GoodRows(rows, S)
    BY <1>1, Same
  <2>3. GoodRows(schedule, Lost)'
    BY <1>1, <2>1, <2>2, Same
  <2>. QED  BY <2>3 DEF ScheduleGood
<1>15. InversionIs' /\ CodingIs' /\ IdsGood' /\ BitmatrixGood'
  BY <1>1 DEF InversionIs, CodingIs, IdsGood, BitmatrixGood, Making
<1>. QED  BY <1>11, <1>12, <1>13, <1>14, <1>15 DEF Recreation

LEMMA AllStored == Without({}) = Stored
BY DEF Without, Stored, Packets

LEMMA ReturnRecreates ==
    ASSUME DecodeInvariant, Recreation, (Return /\ UNCHANGED bvars) \/ BReturn
    PROVE  Recreation'
<1>1. /\ pc \in {"perform", "reencode"} /\ pc' = "idle" /\ ret' = 0 /\ caller' = caller /\ erasures' = <<>>
      /\ UNCHANGED <<code, bitmatrix, scache, packets>>
  BY DEF Return, BReturn
<1>2. Missing = {}
  <2>1. CASE Return
    <3>1. pc = "perform" /\ op > Len(schedule) /\ op \in Nat /\ Len(schedule) = Cardinality(Lost) * w
      BY <2>1 DEF Return, DecodeInvariant, PerformIs
    <3>2. \A p \in LostPackets : ~(Turn(p) >= op)
      <4> TAKE p \in LostPackets
      <4>1. Turn(p) \in Nat /\ Turn(p) <= Cardinality(Lost) * w /\ Cardinality(Lost) * w \in Nat
        BY TurnIs
      <4>. QED  BY <3>1, <4>1
    <3>. QED  BY <3>1, <3>2 DEF Missing
  <2>2. CASE BReturn
    <3>1. pc = "reencode" /\ drive = m
      BY <2>2 DEF BReturn
    <3>2. code \in Codes
      BY DEF DecodeInvariant
    <3>3. \A p \in Packets : ~(p \div w >= k + m)
      <4> TAKE p \in Packets
      <4> DEFINE e == p \div w
      <4>1. e \in Devices
        BY <3>2, PacketsAre
      <4>2. k \in Nat /\ m \in Nat
        BY <3>2, CodeIs
      <4> HIDE DEF e
      <4>3. ~(e >= k + m)
        BY <4>1, <4>2 DEF Devices
      <4>. QED  BY <4>3 DEF e
    <3>. QED  BY <3>1, <3>3 DEF Missing, LostPackets
  <2>. QED  BY <1>1, <2>1, <2>2
<1>3. packets' = Without(Missing)'
  <2>1. packets = Without({})
    BY <1>2 DEF Recreation
  <2>2. Missing' = {}
    BY <1>1 DEF Missing
  <2>. QED  BY <1>1, <2>1, <2>2, SameStored
<1>4. CacheGood'
  <2>1. \A x, y : Entry(x, y)' = Entry(x, y)
    BY <1>1, EntryKept
  <2>. QED  BY <1>1, <2>1, SameStored DEF Recreation, CacheGood, Making
<1>5. BitmatrixIs'
  BY <1>1, SameStored DEF Recreation
<1>6. /\ CallIsOpen' /\ Outcome' /\ InversionIs' /\ CodingIs' /\ IdsGood' /\ ScheduleGood'
      /\ BitmatrixGood'
  BY <1>1 DEF CallIsOpen, Outcome, InversionIs, CodingIs, IdsGood, ScheduleGood,
     BitmatrixGood, Making
<1>. QED  BY <1>3, <1>4, <1>5, <1>6 DEF Recreation

IdsPlaced ==
    code \in Codes /\ BitmatrixIs =>
        (Left(dm_ids) => StoredAt(dm_ids) \in Matrices /\ PlaceRows(dm_ids) = StoredAt(dm_ids))
LEMMA IdsGoodNext == IdsPlaced'
<1>1. IdsPlaced
  BY PlacedMatrices DEF IdsPlaced
<1>. QED  BY <1>1, PTL

\* jerasure_bitmatrix_decode inverts what is left of the matrix, unless parity
\* alone is enough.
LEMMA DecodeBitmatrixRecreates ==
    ASSUME DecodeInvariant, Recreation, NEW list \in Calls, NEW ones \in BOOLEAN,
           DecodeBitmatrix(list, ones)
    PROVE  Recreation'
<1> DEFINE data == {d \in ToSet(list) : d < k}
           parity == ones /\ k \notin ToSet(list)
<1>1. /\ pc = "idle" /\ packets = Stored /\ (ones => FirstIsParity) /\ Fail(list)
      /\ erasures' = list /\ caller' = "bitmatrix" /\ drive' = 0
      /\ edd' = Cardinality(data)
      /\ lastdrive' = (IF parity /\ data # {} THEN Max(data) ELSE k)
      /\ UNCHANGED <<code, bitmatrix, scache>>
  BY DEF DecodeBitmatrix
<1>2. CASE TooMany(list)
  BY <1>1, <1>2, Refused DEF DecodeBitmatrix, TooMany
<1>3. CASE ~TooMany(list)
  <2>1. /\ ~(Len(list) > m) /\ ret' = ret
        /\ IF edd' > 1 \/ (edd' > 0 /\ ~parity)
           THEN /\ dm_ids' = Intact(ToSet(list)) /\ mat' = PlaceRows(dm_ids')
                /\ inv' = [r \in Lines |-> {r}] /\ col' = 0 /\ pc' = "triangle"
           ELSE pc' = "dotprod"
    BY <1>1, <1>3 DEF DecodeBitmatrix, TooMany
  <2>2. /\ Lost' = ToSet(list) /\ Lost' \in SUBSET Devices /\ Cardinality(Lost') = Len(list)
        /\ Len(list) \in Nat /\ packets' = Without(LostPackets)' /\ code \in Codes /\ BitmatrixIs
    BY <1>1, DevicesFail
  <2>3. /\ k' = k /\ w' = w /\ m' = m /\ Lines' = Lines /\ Devices' = Devices /\ BitmatrixIs'
        /\ FirstIsParity' = FirstIsParity /\ Matrices' = Matrices
    BY <1>1, <2>2, SameStored
  <2>4. Cardinality(ToSet(list)) <= m /\ k \in Nat /\ m \in Nat /\ ToSet(list) \in SUBSET Devices
    BY <2>1, <2>2, CodeIs
  <2>5. CallIsOpen' /\ Outcome' /\ ret' = 0
    <3>1. ret' = 0
      BY <1>1, <2>1, CallBegins
    <3>. QED  BY <2>2, <2>3, <2>4, <3>1 DEF CallIsOpen, Outcome
  <2>6. LostData' = data
    BY <2>2, <2>3 DEF LostData
  <2>7. lastdrive' # k' => FirstIsParity' /\ k' \notin Lost'
    BY <1>1, <2>2, <2>3
  <2>8. CacheGood'
    <3>1. \A x, y : Entry(x, y)' = Entry(x, y)
      BY <1>1, EntryKept
    <3>. QED  BY <1>1, <2>3, <3>1 DEF Recreation, CacheGood, Making
  <2>9. CodingIs' /\ ScheduleGood'
    BY <2>1 DEF CodingIs, ScheduleGood
  <2>10. CASE edd' > 1 \/ (edd' > 0 /\ ~parity)
    <3>1. Left(dm_ids)'
      <4>1. \A x \in 0..k-1 : dm_ids'[x] \in Devices \ ToSet(list)
        <5>1. \A x \in 0..k-1 : Intact(ToSet(list))[x] \in Devices \ ToSet(list)
          BY <2>2, <2>4, IntactLeft
        <5>. QED  BY <2>1, <2>10, <5>1
      <4>. QED  BY <2>2, <2>3, <4>1 DEF Left
    <3>2. StoredAt(dm_ids)' \in Matrices' /\ mat' = StoredAt(dm_ids)'
      <4>1. PlaceRows(dm_ids)' = PlaceRows(dm_ids')
        BY <1>1, <2>3 DEF PlaceRows, Packet
      <4>2. StoredAt(dm_ids)' \in Matrices' /\ PlaceRows(dm_ids)' = StoredAt(dm_ids)'
        BY <1>1, <2>2, <2>3, <3>1, IdsGoodNext DEF IdsPlaced
      <4>. QED  BY <2>1, <2>10, <4>1, <4>2
    <3>3. /\ inv' \in Matrices' /\ Sums(StoredAt(dm_ids), inv, StoredAt(dm_ids))'
          /\ 0 \in Lines' /\ \A j \in Lines' : ~(j < 0)
      <4>1. inv' = [r \in Lines |-> {r}]'
        BY <2>1, <2>3, <2>10
      <4>. QED  BY <1>1, <2>2, <3>2, <4>1, InversionBegunNext DEF InversionBegun
    <3>4. InversionIs'
      <4>1. Ids' = dm_ids'
        BY <1>1 DEF Ids
      <4>2. Sums(mat, inv, StoredAt(Ids))'
        BY <3>2, <3>3, <4>1 DEF Sums
      <4>. QED  BY <2>1, <2>10, <3>2, <3>3, <4>2 DEF InversionIs
    <3>5. IdsGood' /\ BitmatrixGood'
      BY <2>1, <2>7, <2>10, <3>1 DEF IdsGood, BitmatrixGood
    <3>6. packets' = Without(Missing)'
      BY <1>1, <2>1, <2>2, <2>10 DEF Missing
    <3>. QED  BY <2>3, <2>5, <2>8, <2>9, <3>4, <3>5, <3>6 DEF Recreation
  <2>11. CASE ~(edd' > 1 \/ (edd' > 0 /\ ~parity))
    <3>1. pc' = "dotprod"
      BY <2>1, <2>11
    <3>2. packets' = Without(Missing)'
      <4>1. Missing' = {p \in LostPackets' : p \div w' >= 0}
        BY <1>1, <3>1 DEF Missing
      <4>2. \A p \in LostPackets' : p \div w' >= 0
        <5>1. \A d \in Devices' : d >= 0
          <6>1. \A d \in Devices : d \in Nat
            BY <2>2, DevicesFinite
          <6>. QED  BY <2>3, <6>1
        <5>. QED  BY <2>2, <2>3, <5>1 DEF LostPackets
      <4>3. Missing' = LostPackets'
        BY <4>1, <4>2
      <4>. QED  BY <2>2, <4>3
    <3>3. ~(\E d \in LostData' : d < lastdrive')
      <4> SUFFICES ASSUME NEW d \in data, d < lastdrive' PROVE FALSE
        BY <2>6
      <4>1. IsFiniteSet(data) /\ Cardinality(data) \in Nat
        <5>1. data \in SUBSET Devices
          BY <2>4
        <5> HIDE DEF data
        <5>. QED  BY <2>2, <5>1, DevicesFinite
      <4>2. Cardinality(data) # 0
        BY <4>1, FS_EmptySet
      <4>3. parity /\ Cardinality(data) = 1
        <5> HIDE DEF data, parity
        <5>. QED  BY <1>1, <2>11, <4>1, <4>2
      <4>4. data = {d}
        <5>1. \E e : data = {e}
          BY <4>1, <4>3, FS_Singleton
        <5> HIDE DEF data
        <5>. QED  BY <5>1
      <4>5. Max(data) = d
        <5>1. data # {} /\ ToSet(list) \in SUBSET Devices
          BY <2>4
        <5>2. Max(data) \in data
          BY <2>2, <5>1, LastData
        <5> HIDE DEF data
        <5>. QED  BY <4>4, <5>2
      <4>6. lastdrive' = d /\ d \in Nat
        <5>1. d \in Nat
          BY <2>2, <2>4, DevicesFinite
        <5> HIDE DEF data, parity
        <5>. QED  BY <1>1, <4>3, <4>4, <4>5, <5>1
      <4>. QED  BY <4>6
    <3>4. BitmatrixGood'
      BY <2>7, <3>1, <3>3 DEF BitmatrixGood
    <3>5. InversionIs' /\ IdsGood'
      BY <3>1 DEF InversionIs, IdsGood
    <3>. QED  BY <2>3, <2>5, <2>8, <2>9, <3>2, <3>4, <3>5 DEF Recreation
  <2>. QED  BY <2>10, <2>11
<1>. QED  BY <1>2, <1>3

\* A device whose rows add up to what was stored there is recreated.
LEMMA DotprodRecreates ==
    ASSUME code \in Codes, BitmatrixIs, NEW S, packets = Without(S), NEW dest \in Devices,
           NEW rows, NEW ids, Dotprod(rows, ids, dest),
           \A y \in 0..w-1 : SumOf(rows[y], Held(ids)) = Stored[Packet(dest, y)]
    PROVE  packets' = Without({p \in S : p \div w # dest})
<1> DEFINE rest == {p \in S : p \div w # dest}
<1>1. packets' = [p \in Packets |->
         IF p \div w = dest /\ rows[p % w] # {} THEN SumOf(rows[p % w], Held(ids)) ELSE packets[p]]
  BY DEF Dotprod, Held, Without
<1>2. ASSUME NEW p \in Packets
      PROVE  packets'[p] = IF p \in rest THEN Garbage ELSE Stored[p]
  <2> DEFINE y == p % w
  <2>1. p \div w \in Devices /\ y \in 0..w-1 /\ p = Packet(p \div w, y)
    BY PacketsAre
  <2>2. CASE p \div w = dest
    <3>1. SumOf(rows[y], Held(ids)) = Stored[p]
      <4> HIDE DEF y
      <4>. QED  BY <2>1, <2>2
    <3>2. Stored[p] # {}
      <4> HIDE DEF y
      <4>1. Stored[Packet(p \div w, y)] # {}
        BY <2>1, StoredIs
      <4>. QED  BY <2>1, <4>1
    <3>3. rows[y] # {}
      <4> HIDE DEF y
      <4>. QED  BY <3>1, <3>2, SumNone
    <3>. QED  BY <1>1, <2>2, <3>1, <3>3
  <2>3. CASE p \div w # dest
    <3>1. packets'[p] = packets[p]
      BY <1>1, <2>3
    <3>. QED  BY <2>3, <3>1 DEF Without
  <2>. QED  BY <2>2, <2>3
<1> HIDE DEF rest
<1>3. packets' = [p \in Packets |-> packets'[p]]
  BY <1>1
<1>4. packets' = Without(rest)
  BY <1>2, <1>3 DEF Without
<1>. QED  BY <1>4 DEF rest

\* What the steps of jerasure_bitmatrix_decode leave alone.
LEMMA DotprodKeeps ==
    ASSUME Recreation, pc \in {"dotprod", "reencode"}, pc' \in {"dotprod", "reencode"},
           unchanged_but_packets
    PROVE  /\ BitmatrixIs' /\ CallIsOpen' /\ Outcome' /\ CacheGood'
           /\ InversionIs' /\ CodingIs' /\ IdsGood' /\ ScheduleGood'
<1>1. UNCHANGED <<code, bitmatrix, scache, erasures, caller, ret>>
  BY DEF unchanged_but_packets
<1>2. BitmatrixIs' /\ CallIsOpen' /\ Outcome'
  BY <1>1, Same DEF Recreation, CallIsOpen, Outcome
<1>3. CacheGood'
  <2>1. \A x, y : Entry(x, y)' = Entry(x, y)
    BY <1>1, SameEntry
  <2>. QED  BY <1>1, <2>1, Same DEF Recreation, CacheGood, Making
<1>4. InversionIs' /\ CodingIs' /\ IdsGood' /\ ScheduleGood'
  BY DEF InversionIs, CodingIs, IdsGood, ScheduleGood
<1>. QED  BY <1>2, <1>3, <1>4

LEMMA DotprodDataRecreates ==
    ASSUME DecodeInvariant, Recreation, DotprodData
    PROVE  Recreation'
<1>1. /\ pc = "dotprod" /\ pc' = "dotprod" /\ drive < lastdrive /\ drive' = drive + 1
      /\ UNCHANGED <<code, bitmatrix, erasures, lastdrive, inv, dm_ids>> /\ unchanged_but_packets
      /\ drive \notin Lost => packets' = packets
  BY DEF DotprodData, unchanged_but_packets, inverting
<1>2. /\ code \in Codes /\ BitmatrixIs /\ packets = Without(Missing) /\ Lost \in SUBSET Devices
      /\ Missing = {p \in LostPackets : p \div w >= drive}
  BY <1>1 DEF DecodeInvariant, Recreation, Missing
<1>3. drive \in 0..lastdrive /\ lastdrive <= k /\ lastdrive \in Lost \cup {k}
  BY <1>1 DEF DecodeInvariant, DotprodIs
<1>4. /\ k \in Nat /\ Lost \subseteq Nat /\ drive \in Nat /\ drive < k
      /\ \A p \in LostPackets : p \div w \in Nat
  <2>1. k \in Nat /\ Lost \subseteq Nat
    BY <1>2, CodeIs, DevicesFinite
  <2>2. drive \in Nat /\ drive < k
    BY <1>1, <1>3, <2>1
  <2>. QED  BY <2>1, <2>2 DEF LostPackets
<1>5. packets' = Without({p \in Missing : p \div w # drive})
  <2>1. CASE drive \notin Lost
    <3>1. \A p \in Missing : p \div w # drive
      BY <1>2, <2>1 DEF LostPackets
    <3>2. {p \in Missing : p \div w # drive} = Missing
      BY <3>1
    <3>. QED  BY <1>1, <1>2, <2>1, <3>2
  <2>2. CASE drive \in Lost
    <3> DEFINE rows == [y \in 0..w-1 |-> inv[Packet(drive, y)]]
    <3>1. drive \in LostData /\ drive \in Devices
      BY <1>2, <1>4, <2>2 DEF LostData
    <3>2. InverseGood
      BY <1>1, <3>1 DEF Recreation, BitmatrixGood
    <3>3. Held(dm_ids) = StoredAt(dm_ids)
      BY <3>2, IntactHeld DEF InverseGood
    <3>4. ASSUME NEW y \in 0..w-1
          PROVE  SumOf(rows[y], Held(dm_ids)) = Stored[Packet(drive, y)]
      <4>1. Packet(drive, y) \in Lines /\ Stored[Packet(drive, y)] = {Packet(drive, y)}
        BY <1>2, <1>4, <3>1, StoredIs
      <4>2. SumOf(inv[Packet(drive, y)], StoredAt(dm_ids)) = {Packet(drive, y)}
        BY <3>2, <4>1 DEF InverseGood
      <4>. QED  BY <3>3, <4>1, <4>2
    <3>5. Dotprod(rows, dm_ids, drive)
      BY <2>2 DEF DotprodData
    <3> HIDE DEF rows
    <3>. QED  BY <1>2, <3>1, <3>4, <3>5, DotprodRecreates
  <2>. QED  BY <2>1, <2>2
<1>6. Missing' = {p \in Missing : p \div w # drive}
  <2>1. Missing' = {p \in LostPackets : p \div w >= drive + 1}
    BY <1>1, Same DEF Missing
  <2>2. \A p \in LostPackets : p \div w >= drive + 1 <=> (p \div w >= drive /\ p \div w # drive)
    BY <1>4
  <2>. QED  BY <1>2, <2>1, <2>2
<1>7. packets' = Without(Missing)'
  BY <1>1, <1>5, <1>6, Same
<1>8. BitmatrixGood'
  <2>1. lastdrive' # k' => FirstIsParity' /\ k' \notin Lost'
    BY <1>1, Same DEF Recreation, BitmatrixGood
  <2>2. ASSUME \E d \in LostData' : d < lastdrive' PROVE InverseGood'
    <3>1. InverseGood
      BY <1>1, <2>2, Same DEF Recreation, BitmatrixGood
    <3>2. /\ Left(dm_ids)' = Left(dm_ids) /\ StoredAt(dm_ids)' = StoredAt(dm_ids) /\ inv' = inv
          /\ Lines' = Lines /\ Matrices' = Matrices
      BY <1>1, Same
    <3>. QED  BY <3>1, <3>2 DEF InverseGood
  <2>. QED  BY <1>1, <2>1, <2>2 DEF BitmatrixGood
<1>9. /\ BitmatrixIs' /\ CallIsOpen' /\ Outcome' /\ CacheGood'
      /\ InversionIs' /\ CodingIs' /\ IdsGood' /\ ScheduleGood'
  BY <1>1, DotprodKeeps
<1>. QED  BY <1>7, <1>8, <1>9 DEF Recreation

LEMMA ReencodeRecreates ==
    ASSUME DecodeInvariant, Recreation, Reencode
    PROVE  Recreation'
<1>1. /\ pc = "reencode" /\ pc' = "reencode" /\ drive < m /\ drive' = drive + 1
      /\ UNCHANGED <<code, bitmatrix, erasures>> /\ unchanged_but_packets
      /\ k + drive \notin Lost => packets' = packets
  BY DEF Reencode, unchanged_but_packets
<1>2. /\ code \in Codes /\ BitmatrixIs /\ packets = Without(Missing) /\ Lost \in SUBSET Devices
      /\ Missing = {p \in LostPackets : p \div w >= k + drive}
  BY <1>1 DEF DecodeInvariant, Recreation, Missing
<1>3. drive \in Nat
  BY <1>1 DEF DecodeInvariant, ReencodeIs
<1>4. /\ k \in Nat /\ m \in Nat /\ w \in Nat /\ Lost \subseteq Nat /\ k + drive \in Devices
      /\ \A p \in LostPackets : p \div w \in Nat
  <2>1. k \in Nat /\ m \in Nat /\ w \in Nat /\ Lost \subseteq Nat
    BY <1>2, CodeIs, DevicesFinite
  <2>2. k + drive \in Devices
    BY <1>1, <1>3, <2>1 DEF Devices
  <2>. QED  BY <2>1, <2>2 DEF LostPackets
<1>5. packets' = Without({p \in Missing : p \div w # k + drive})
  <2>1. CASE k + drive \notin Lost
    <3>1. \A p \in Missing : p \div w # k + drive
      BY <1>2, <2>1 DEF LostPackets
    <3>2. {p \in Missing : p \div w # k + drive} = Missing
      BY <3>1
    <3>. QED  BY <1>1, <1>2, <2>1, <3>2
  <2>2. CASE k + drive \in Lost
    <3> DEFINE rows == [y \in 0..w-1 |-> bitmatrix[Packet(drive, y)]]
               ids == [x \in 0..k-1 |-> x]
    <3>1. ASSUME NEW c \in Lines
          PROVE  /\ Packet(ids[c \div w], c % w) \in Packets \ Missing
                 /\ Held(ids)[c] = {c}
      <4> DEFINE e == c \div w
      <4>1. /\ e \in 0..k-1 /\ c \in Packets /\ c = Packet(e, c % w) /\ c % w \in 0..w-1
        BY <1>2, PacketsAre
      <4>2. ids[e] = e /\ e \in Nat /\ e < k /\ e \in Devices
        <5>1. ids[e] = e
          BY <4>1
        <5> HIDE DEF e, ids
        <5>. QED  BY <1>4, <4>1, <5>1 DEF Devices
      <4>3. c \notin Missing
        <5>1. ~(e >= k + drive)
          <6> HIDE DEF e
          <6>. QED  BY <1>3, <1>4, <4>2
        <5>. QED  BY <1>2, <5>1
      <4>4. Stored[c] = {c}
        <5> HIDE DEF e, ids
        <5>. QED  BY <1>2, <4>1, <4>2, StoredIs
      <4>5. Held(ids)[c] = packets[c]
        <5> HIDE DEF ids
        <5>. QED  BY <4>1, <4>2 DEF Held
      <4>6. packets[c] = Stored[c]
        BY <1>2, <4>1, <4>3 DEF Without
      <4>. QED  BY <4>1, <4>2, <4>3, <4>4, <4>5, <4>6
    <3>2. ASSUME NEW y \in 0..w-1
          PROVE  SumOf(rows[y], Held(ids)) = Stored[Packet(k + drive, y)]
      <4>1. Stored[Packet(k + drive, y)] = bitmatrix[Packet(drive, y)]
            /\ bitmatrix[Packet(drive, y)] \in SUBSET Lines
        <5>1. ~(k + drive < k) /\ (k + drive) - k = drive
          BY <1>3, <1>4
        <5>. QED  BY <1>2, <1>4, <5>1, StoredIs
      <4>2. IsFiniteSet(bitmatrix[Packet(drive, y)])
        BY <1>2, <4>1, PacketsAre, FS_Subset
      <4> DEFINE B == bitmatrix[Packet(drive, y)]
                 h == Held(ids)
      <4>3. \A p \in B : h[p] = {p}
        BY <3>1, <4>1
      <4>4. IsFiniteSet(B)
        BY <4>2
      <4>5. rows[y] = B
        OBVIOUS
      <4> HIDE DEF B, h
      <4>6. SumOf(B, h) = B
        BY <4>3, <4>4, SumOfSingles
      <4>. QED  BY <4>1, <4>5, <4>6 DEF B, h
    <3>3. Dotprod(rows, ids, k + drive)
      BY <2>2 DEF Reencode
    <3> HIDE DEF rows, ids
    <3>. QED  BY <1>2, <1>4, <3>2, <3>3, DotprodRecreates
  <2>. QED  BY <2>1, <2>2
<1>6. Missing' = {p \in Missing : p \div w # k + drive}
  <2>1. Missing' = {p \in LostPackets : p \div w >= k + (drive + 1)}
    BY <1>1, Same DEF Missing
  <2>2. \A p \in LostPackets : p \div w >= k + (drive + 1) <=> (p \div w >= k + drive /\ p \div w # k + drive)
    BY <1>3, <1>4
  <2>. QED  BY <1>2, <2>1, <2>2
<1>7. packets' = Without(Missing)'
  BY <1>1, <1>5, <1>6, Same
<1>8. BitmatrixGood'
  BY <1>1, <1>3, <1>4, Same DEF BitmatrixGood, Making
<1>9. /\ BitmatrixIs' /\ CallIsOpen' /\ Outcome' /\ CacheGood'
      /\ InversionIs' /\ CodingIs' /\ IdsGood' /\ ScheduleGood'
  BY <1>1, DotprodKeeps
<1>. QED  BY <1>7, <1>8, <1>9 DEF Recreation

\* The parity device adds up to the data device in whose place it is read.
LEMMA ParityRow ==
    ASSUME code \in Codes, NEW y \in 0..w-1, NEW gone \in 0..k-1, NEW B, NEW h,
           \A p : p \in B <=> \E d \in 0..k-1 : p = Packet(d, y),
           B \in SUBSET Lines, IsFiniteSet(B),
           \A d \in 0..k-1 : h[Packet(d, y)] =
               IF d = k - 1 THEN B ELSE {Packet(IF d < gone THEN d ELSE d + 1, y)}
    PROVE  SumOf(B, h) = {Packet(gone, y)}
<1>0. k \in Nat \ {0} /\ w \in Nat \ {0}
  BY CodeIs
<1> DEFINE top == Packet(k - 1, y)
<1>1. \A d, e \in Nat : Packet(d, y) = Packet(e, y) => d = e
  <2> TAKE d, e \in Nat
  <2>1. Packet(d, y) \div w = d /\ Packet(e, y) \div w = e
    BY PacketIs
  <2>. QED  BY <2>1
<1>2. \A p \in B : \E d \in 0..k-1 : p = Packet(d, y)
  OBVIOUS
<1>3. \A p \in B : h[p] \subseteq B
  <2> TAKE p \in B
  <2>1. PICK d \in 0..k-1 : p = Packet(d, y)
    BY <1>2
  <2>2. d = k - 1 \/ (IF d < gone THEN d ELSE d + 1) \in 0..k-1
    BY <1>0
  <2>. QED  BY <2>1, <2>2
<1>4. SumOf(B, h) = {q \in B : Odd(Hits(B, h, q))}
  <2>1. SumOf(B, h) = Folded(B, h, {}, B)
    BY <1>3, SumOfIs
  <2>. QED  BY <2>1 DEF Folded
<1>5. ASSUME NEW e \in 0..k-1
      PROVE  Odd(Hits(B, h, Packet(e, y))) <=> e = gone
  <2> DEFINE q == Packet(e, y)
             f == IF e < gone THEN e ELSE e - 1
  <2>0. q \in B /\ top \in B
    <3>1. k - 1 \in 0..k-1
      BY <1>0
    <3>. QED  BY <3>1
  <2>1. ASSUME NEW d \in 0..k-1
        PROVE  q \in h[Packet(d, y)] <=> d = k - 1 \/ (d = f /\ e # gone)
    <3>1. CASE d = k - 1
      BY <2>0, <3>1
    <3>2. CASE d # k - 1
      <4> DEFINE g == IF d < gone THEN d ELSE d + 1
      <4>1. h[Packet(d, y)] = {Packet(g, y)} /\ g \in Nat /\ e \in Nat
        <5>1. h[Packet(d, y)] = {Packet(g, y)}
          BY <3>2
        <5>2. g \in Nat /\ e \in Nat
          OBVIOUS
        <5>. QED  BY <5>1, <5>2
      <4>2. q \in h[Packet(d, y)] <=> e = g
        <5> HIDE DEF g
        <5>. QED  BY <1>1, <4>1
      <4>3. e = g <=> (d = f /\ e # gone)
        BY <1>0, <3>2
      <4>. QED  BY <3>2, <4>2, <4>3
    <3>. QED  BY <3>1, <3>2
  <2>2. CASE e = gone
    <3>1. Hits(B, h, q) = {top}
      <4>1. \A p \in B : q \in h[p] <=> p = top
        <5> TAKE p \in B
        <5>1. PICK d \in 0..k-1 : p = Packet(d, y)
          BY <1>2
        <5>2. q \in h[p] <=> d = k - 1
          BY <2>1, <2>2, <5>1
        <5>3. p = top <=> d = k - 1
          BY <1>0, <1>1, <5>1
        <5>. QED  BY <5>2, <5>3
      <4> HIDE DEF q, top
      <4>. QED  BY <2>0, <4>1 DEF Hits
    <3>2. Cardinality({top}) = 1
      BY FS_Singleton
    <3>3. Odd(Hits(B, h, q))
      <4> HIDE DEF q, top
      <4>1. Cardinality(Hits(B, h, q)) = 1
        BY <3>1, <3>2
      <4>2. 1 % 2 = 1
        OBVIOUS
      <4>. QED  BY <4>1, <4>2 DEF Odd
    <3>. QED  BY <2>2, <3>3
  <2>3. CASE e # gone
    <3>0. f \in 0..k-1 /\ f # k - 1
      BY <1>0, <2>3
    <3> DEFINE other == Packet(f, y)
    <3>1. Hits(B, h, q) = {top} \cup {other} /\ other # top
      <4>1. \A p \in B : q \in h[p] <=> p = top \/ p = other
        <5> TAKE p \in B
        <5>1. PICK d \in 0..k-1 : p = Packet(d, y)
          BY <1>2
        <5>2. q \in h[p] <=> d = k - 1 \/ d = f
          BY <2>1, <2>3, <5>1
        <5>3. (p = top <=> d = k - 1) /\ (p = other <=> d = f)
          <6> HIDE DEF f
          <6>. QED  BY <1>0, <1>1, <3>0, <5>1
        <5>. QED  BY <5>2, <5>3
      <4>2. other \in B /\ other # top
        <5> HIDE DEF f
        <5>. QED  BY <1>0, <1>1, <3>0
      <4> HIDE DEF q, top, other
      <4>. QED  BY <2>0, <4>1, <4>2 DEF Hits
    <3>2. Cardinality({top} \cup {other}) = 2
      <4>1. IsFiniteSet({top}) /\ Cardinality({top}) = 1 /\ other \notin {top}
        BY <3>1, FS_Singleton
      <4> HIDE DEF top, other
      <4>2. Cardinality({top} \cup {other}) = Cardinality({top}) + 1
        BY <4>1, FS_AddElement
      <4>3. Cardinality({top} \cup {other}) = 1 + 1
        BY <4>1, <4>2, Zenon
      <4>4. 1 + 1 = 2
        OBVIOUS
      <4>. QED  BY <4>3, <4>4, Zenon
    <3>3. ~Odd(Hits(B, h, q))
      <4> HIDE DEF q, top, other
      <4>1. Cardinality(Hits(B, h, q)) = 2
        BY <3>1, <3>2
      <4>2. 2 % 2 = 0
        OBVIOUS
      <4>. QED  BY <4>1, <4>2 DEF Odd
    <3>. QED  BY <2>3, <3>3
  <2>. QED  BY <2>2, <2>3
<1>6. \A q \in B : Odd(Hits(B, h, q)) <=> q = Packet(gone, y)
  <2> TAKE q \in B
  <2>1. PICK e \in 0..k-1 : q = Packet(e, y)
    BY <1>2
  <2>2. q = Packet(gone, y) <=> e = gone
    BY <1>1, <2>1
  <2>. QED  BY <1>5, <2>1, <2>2
<1>7. Packet(gone, y) \in B
  OBVIOUS
<1>. QED  BY <1>4, <1>6, <1>7

LEMMA DotprodLastRecreates ==
    ASSUME DecodeInvariant, Recreation, DotprodLast
    PROVE  Recreation'
<1>1. /\ pc = "dotprod" /\ pc' = "reencode" /\ drive' = 0 /\ ~(edd > 0 /\ drive < lastdrive)
      /\ UNCHANGED <<code, bitmatrix, erasures>> /\ unchanged_but_packets
      /\ IF edd > 0 THEN Dotprod([y \in 0..w-1 |-> bitmatrix[y]], Others, lastdrive)
                    ELSE packets' = packets
  BY DEF DotprodLast, unchanged_but_packets
<1>2. /\ code \in Codes /\ BitmatrixIs /\ packets = Without(Missing) /\ Lost \in SUBSET Devices
      /\ Missing = {p \in LostPackets : p \div w >= drive}
  BY <1>1 DEF DecodeInvariant, Recreation, Missing
<1>3. /\ drive \in 0..lastdrive /\ lastdrive <= k /\ lastdrive \in Lost \cup {k}
      /\ edd = Cardinality(Ahead) /\ \A d \in LostData : d <= lastdrive
  BY <1>1 DEF DecodeInvariant, DotprodIs
<1>4. /\ k \in Nat \ {0} /\ m \in Nat \ {0} /\ w \in Nat \ {0} /\ Lost \subseteq Nat
      /\ drive \in Nat /\ lastdrive \in Nat
      /\ \A p \in LostPackets : p \div w \in Nat /\ p \div w \in Lost
  <2>1. k \in Nat \ {0} /\ m \in Nat \ {0} /\ w \in Nat \ {0} /\ Lost \subseteq Nat
    BY <1>2, CodeIs, DevicesFinite
  <2>2. lastdrive \in Nat /\ drive \in Nat
    BY <1>3, <2>1
  <2>. QED  BY <2>1, <2>2 DEF LostPackets
<1>5. Missing' = {p \in LostPackets : p \div w >= k}
  <2>1. Missing' = {p \in LostPackets : p \div w >= k + 0}
    BY <1>1, Same DEF Missing
  <2>. QED  BY <1>4, <2>1
<1>6. IsFiniteSet(Ahead) /\ edd \in Nat
  <2>1. Ahead \in SUBSET Devices
    BY <1>2 DEF Ahead, LostData
  <2>. QED  BY <1>2, <1>3, <2>1, DevicesFinite
<1>7. CASE ~(edd > 0)
  <2>1. Ahead = {}
    BY <1>3, <1>6, <1>7, FS_EmptySet
  <2>2. \A p \in LostPackets : p \div w >= k <=> p \div w >= drive
    <3> TAKE p \in LostPackets
    <3>1. p \div w \in LostData => ~(drive <= p \div w)
      BY <2>1 DEF Ahead
    <3>2. drive <= k
      BY <1>3, <1>4
    <3>. QED  BY <1>4, <3>1, <3>2 DEF LostData
  <2>3. Missing' = Missing
    BY <1>2, <1>5, <2>2
  <2>4. packets' = Without(Missing)'
    BY <1>1, <1>2, <1>7, <2>3, Same
  <2>5. BitmatrixGood'
    BY <1>1, <1>2, <1>4, Same DEF BitmatrixGood, Making
  <2>. QED  BY <1>1, <2>4, <2>5, DotprodKeeps DEF Recreation
<1>8. CASE edd > 0
  <2>1. drive = lastdrive
    BY <1>1, <1>3, <1>4, <1>8
  <2>2. lastdrive # k
    <3> SUFFICES ASSUME lastdrive = k PROVE Ahead = {}
      BY <1>3, <1>8, FS_EmptySet
    <3>1. \A d \in LostData : ~(drive <= d)
      BY <1>4, <2>1 DEF LostData
    <3>. QED  BY <3>1 DEF Ahead
  <2>3. lastdrive \in Lost /\ lastdrive \in 0..k-1 /\ lastdrive \in Devices
    BY <1>2, <1>3, <1>4, <2>2
  <2>4. FirstIsParity /\ k \notin Lost
    BY <1>1, <2>2 DEF Recreation, BitmatrixGood
  <2>5. ASSUME NEW y \in 0..w-1
        PROVE  SumOf(bitmatrix[y], Held(Others)) = Stored[Packet(lastdrive, y)]
    <3> DEFINE B == bitmatrix[y]
               h == Held(Others)
    <3>1. B = {Packet(d, y) : d \in 0..k-1}
      BY <2>4 DEF FirstIsParity
    <3>2. B \in SUBSET Lines /\ IsFiniteSet(B)
      <4>1. y \in 0..m*w-1
        <5>1. m * w = (m - 1) * w + w /\ (m - 1) * w \in Nat
          <6>1. \A a, b \in Nat : a * b \in Nat
            OBVIOUS
          <6>2. m - 1 \in Nat
            BY <1>4
          <6>. QED  BY <1>4, <6>1, <6>2
        <5>. QED  BY <1>4, <5>1
      <4>2. B \in SUBSET Lines
        BY <1>2, <4>1 DEF BitmatrixIs
      <4> HIDE DEF B
      <4>. QED  BY <1>2, <4>2, PacketsAre, FS_Subset
    <3>3. ASSUME NEW d \in 0..k-1
          PROVE  h[Packet(d, y)] =
                   IF d = k - 1 THEN B ELSE {Packet(IF d < lastdrive THEN d ELSE d + 1, y)}
      <4> DEFINE c == Packet(d, y)
                 e == IF d < lastdrive THEN d ELSE d + 1
                 p == Packet(e, y)
      <4>0. d \in Devices /\ d \in Nat /\ d < k
        BY <1>4 DEF Devices
      <4>1. c \in Lines /\ c \div w = d /\ c % w = y
        BY <1>2, <4>0, StoredIs, PacketIs
      <4>2. Others[d] = e /\ e \in Nat /\ e # lastdrive /\ e <= k /\ e \in Devices /\ (e = k <=> d = k - 1)
        <5>1. Others[d] = e
          BY DEF Others
        <5>2. e \in Nat /\ e # lastdrive /\ e <= k /\ (e = k <=> d = k - 1)
          BY <1>4, <2>3
        <5> HIDE DEF e
        <5>. QED  BY <1>4, <5>1, <5>2 DEF Devices
      <4> HIDE DEF c, e
      <4>3. h[c] = packets[p]
        BY <4>1, <4>2 DEF Held
      <4>4. p \in Packets /\ p \div w = e
        BY <1>2, <4>2, StoredIs, PacketIs
      <4>5. p \notin Missing
        <5> SUFFICES ASSUME e \in Lost, e >= drive PROVE FALSE
          BY <1>2, <4>4 DEF LostPackets
        <5>1. e \in LostData
          BY <2>4, <1>4, <4>2 DEF LostData
        <5>2. e <= lastdrive
          BY <1>3, <5>1
        <5>. QED  BY <1>4, <2>1, <4>2, <5>2
      <4>6. h[c] = Stored[p]
        <5> HIDE DEF p
        <5>. QED  BY <1>2, <4>3, <4>4, <4>5 DEF Without
      <4>7. CASE d = k - 1
        <5>1. Stored[p] = bitmatrix[Packet(0, y)]
          <6>1. e = k /\ ~(e < k) /\ e - k = 0
            BY <1>4, <4>2, <4>7
          <6>. QED  BY <1>2, <4>2, <6>1, StoredIs
        <5>2. Packet(0, y) = y
          BY <1>4 DEF Packet
        <5>. QED  BY <4>6, <4>7, <5>1, <5>2 DEF c
      <4>8. CASE d # k - 1
        <5>1. e < k
          BY <1>4, <4>2, <4>8
        <5>2. Stored[p] = {p}
          BY <1>2, <4>2, <5>1, StoredIs
        <5>. QED  BY <4>6, <4>8, <5>2 DEF c, e
      <4>. QED  BY <4>7, <4>8
    <3>4. Stored[Packet(lastdrive, y)] = {Packet(lastdrive, y)}
      <4>1. lastdrive < k
        BY <1>4, <2>3
      <4>. QED  BY <1>2, <2>3, <4>1, StoredIs
    <3>5. \A p : p \in B <=> \E d \in 0..k-1 : p = Packet(d, y)
      BY <3>1
    <3>6. \A d \in 0..k-1 : h[Packet(d, y)] =
             IF d = k - 1 THEN B ELSE {Packet(IF d < lastdrive THEN d ELSE d + 1, y)}
      BY <3>3
    <3> HIDE DEF B, h
    <3>7. SumOf(B, h) = {Packet(lastdrive, y)}
      BY <1>2, <2>3, <3>2, <3>5, <3>6, ParityRow
    <3>. QED  BY <3>4, <3>7 DEF B, h
  <2>6. packets' = Without({p \in Missing : p \div w # lastdrive})
    <3> DEFINE rows == [y \in 0..w-1 |-> bitmatrix[y]]
    <3>1. \A y \in 0..w-1 : SumOf(rows[y], Held(Others)) = Stored[Packet(lastdrive, y)]
      BY <2>5
    <3>2. Dotprod(rows, Others, lastdrive)
      BY <1>1, <1>8
    <3> HIDE DEF rows
    <3>. QED  BY <1>2, <2>3, <3>1, <3>2, DotprodRecreates
  <2>7. Missing' = {p \in Missing : p \div w # lastdrive}
    <3>1. \A p \in LostPackets : p \div w >= k <=> (p \div w >= drive /\ p \div w # lastdrive)
      <4> TAKE p \in LostPackets
      <4>1. p \div w \in LostData => p \div w <= lastdrive
        BY <1>3
      <4>2. p \div w \in Nat /\ (p \div w < k => p \div w \in LostData)
        BY <1>4 DEF LostData
      <4>3. lastdrive < k
        BY <1>4, <2>3
      <4> DEFINE e == p \div w
      <4> HIDE DEF e
      <4>4. e \in Nat /\ (e < k => e <= lastdrive)
        BY <4>1, <4>2 DEF e
      <4>5. e >= k <=> (e >= drive /\ e # lastdrive)
        BY <1>4, <2>1, <4>3, <4>4
      <4>. QED  BY <4>5 DEF e
    <3>. QED  BY <1>2, <1>5, <3>1
  <2>8. packets' = Without(Missing)'
    BY <1>1, <2>6, <2>7, Same
  <2>9. BitmatrixGood'
    BY <1>1, <1>2, <1>4, Same DEF BitmatrixGood, Making
  <2>. QED  BY <1>1, <2>8, <2>9, DotprodKeeps DEF Recreation
<1>. QED  BY <1>7, <1>8

\* The columns of packet x of a data device.
LEMMA ColumnIs ==
    ASSUME NEW n \in Nat \ {0}, NEW l \in Nat \ {0}, NEW j \in 0..n-1, NEW x \in 0..l-1
    PROVE  j * l + x \in 0..n*l-1
<1>1. \A a, b \in Nat : a * b \in Nat
  OBVIOUS
<1>2. n - 1 - j \in Nat /\ j \in Nat /\ x \in Nat
  OBVIOUS
<1>3. n * l = j * l + (n - 1 - j) * l + l
  BY <1>2
<1>4. j * l \in Nat /\ (n - 1 - j) * l \in Nat /\ n * l \in Nat
  BY <1>1, <1>2
<1>. QED  BY <1>2, <1>3, <1>4

LEMMA IdentitiesAre ==
    ASSUME NEW n \in Nat \ {0}, NEW l \in Nat \ {0}, NEW x \in 0..l-1
    PROVE  Identities(n, l, x) \in (SUBSET (0..n*l-1)) \ {{}}
<1>1. \A j \in 0..n-1 : j * l + x \in 0..n*l-1
  BY ColumnIs
<1>2. 0 * l + x \in Identities(n, l, x)
  <2>1. 0 \in 0..n-1
    OBVIOUS
  <2>. QED  BY <2>1 DEF Identities
<1>. QED  BY <1>1, <1>2 DEF Identities

LEMMA RestIs ==
    ASSUME NEW x \in Int, NEW l \in Nat \ {0}
    PROVE  x % l \in 0..l-1
OBVIOUS

\* The bitmatrices of liberation.c have two rows of blocks, of w rows each.
LEMMA LiberationIs ==
    ASSUME NEW n \in Nat \ {0}, NEW l \in Nat \ {0}
    PROVE  Liberation(n, l) \in [0..2*l-1 -> (SUBSET (0..n*l-1)) \ {{}}]
<1>1. ASSUME NEW r \in 0..2*l-1, ~(r < l)
      PROVE  Liberation(n, l)[r] \in (SUBSET (0..n*l-1)) \ {{}}
  <2> DEFINE A == {j * l + ShiftedBy(j, r - l, l) : j \in 0..n-1}
             B == {j * l + (((r - l) + j - 1) % l) : j \in {x \in 1..n-1 : ExtraRow(x, l) = r - l}}
  <2>1. Liberation(n, l)[r] = A \cup B
    BY <1>1 DEF Liberation
  <2>2. A \subseteq 0..n*l-1
    <3>1. \A j \in 0..n-1 : ShiftedBy(j, r - l, l) \in 0..l-1
      BY RestIs DEF ShiftedBy
    <3>2. \A j \in 0..n-1 : j * l + ShiftedBy(j, r - l, l) \in 0..n*l-1
      BY <3>1, ColumnIs
    <3>. QED  BY <3>2
  <2>3. B \subseteq 0..n*l-1
    <3>1. \A j \in 1..n-1 : j * l + (((r - l) + j - 1) % l) \in 0..n*l-1
      <4> TAKE j \in 1..n-1
      <4>1. ((r - l) + j - 1) \in Int /\ j \in 0..n-1
        OBVIOUS
      <4>2. (((r - l) + j - 1) % l) \in 0..l-1
        BY <4>1, RestIs
      <4>. QED  BY <4>1, <4>2, ColumnIs
    <3>. QED  BY <3>1
  <2>4. A # {}
    <3>1. 0 \in 0..n-1
      OBVIOUS
    <3>. QED  BY <3>1
  <2>. QED  BY <2>1, <2>2, <2>3, <2>4
<1>2. ASSUME NEW r \in 0..2*l-1, r < l
      PROVE  Liberation(n, l)[r] \in (SUBSET (0..n*l-1)) \ {{}}
  <2>1. Liberation(n, l)[r] = Identities(n, l, r) /\ r \in 0..l-1
    BY <1>2 DEF Liberation
  <2>. QED  BY <2>1, IdentitiesAre
<1>3. Liberation(n, l) = [r \in 0..2*l-1 |-> Liberation(n, l)[r]]
  BY DEF Liberation
<1> HIDE DEF Liberation
<1>4. \A r \in 0..2*l-1 : Liberation(n, l)[r] \in (SUBSET (0..n*l-1)) \ {{}}
  BY <1>1, <1>2
<1>. QED  BY <1>3, <1>4

LEMMA BlaumRothIs ==
    ASSUME NEW n \in Nat \ {0}, NEW l \in Nat \ {0}, n <= l, (l + 1) % 2 = 1
    PROVE  BlaumRoth(n, l) \in [0..2*l-1 -> (SUBSET (0..n*l-1)) \ {{}}]
<1>1. ASSUME NEW j \in 1..n-1, NEW y \in 1..l
      PROVE  BlaumRothColumns(j, y, l) \subseteq 0..l-1
  <2> DEFINE p == l + 1
  <2>1. CASE y # p - j
    <3>1. BlaumRothColumns(j, y, l) = {(IF y + j >= p THEN y + j - p ELSE y + j) - 1}
      BY <2>1 DEF BlaumRothColumns
    <3>2. (IF y + j >= p THEN y + j - p ELSE y + j) - 1 \in 0..l-1
      BY <2>1
    <3>. QED  BY <3>1, <3>2
  <2>2. CASE y = p - j
    <3>1. BlaumRothColumns(j, y, l) =
             {j - 1, (IF j % 2 = 0 THEN j \div 2 ELSE p \div 2 + 1 + j \div 2) - 1}
      BY <2>2 DEF BlaumRothColumns
    <3>2. j - 1 \in 0..l-1
      OBVIOUS
    <3>3. (IF j % 2 = 0 THEN j \div 2 ELSE p \div 2 + 1 + j \div 2) - 1 \in 0..l-1
      <4>1. \A z \in Nat : z \div 2 \in Nat /\ z % 2 \in 0..1 /\ z = 2 * (z \div 2) + (z % 2)
        OBVIOUS
      <4>2. /\ j = 2 * (j \div 2) + (j % 2) /\ p = 2 * (p \div 2) + 1
            /\ j \div 2 \in Nat /\ p \div 2 \in Nat /\ j % 2 \in 0..1 /\ j \in Nat /\ p = l + 1
        BY <4>1
      <4>. QED  BY <4>2
    <3>. QED  BY <3>1, <3>2, <3>3
  <2>. QED  BY <2>1, <2>2
<1>2. ASSUME NEW r \in 0..2*l-1, ~(r < l)
      PROVE  BlaumRoth(n, l)[r] \in (SUBSET (0..n*l-1)) \ {{}}
  <2> DEFINE B(j) == {j * l + c : c \in BlaumRothColumns(j, r - l + 1, l)}
  <2>1. BlaumRoth(n, l)[r] = {r - l} \cup UNION {B(j) : j \in 1..n-1}
    BY <1>2 DEF BlaumRoth
  <2>2. \A j \in 1..n-1 : B(j) \subseteq 0..n*l-1
    <3> TAKE j \in 1..n-1
    <3>1. r - l + 1 \in 1..l /\ j \in 0..n-1
      BY <1>2
    <3>2. \A c \in BlaumRothColumns(j, r - l + 1, l) : c \in 0..l-1
      BY <1>1, <3>1
    <3>3. \A c \in BlaumRothColumns(j, r - l + 1, l) : j * l + c \in 0..n*l-1
      BY <3>1, <3>2, ColumnIs
    <3>. QED  BY <3>3
  <2>3. r - l \in 0..n*l-1
    <3>1. 0 \in 0..n-1 /\ r - l \in 0..l-1
      BY <1>2
    <3>2. 0 * l + (r - l) \in 0..n*l-1
      BY <3>1, ColumnIs
    <3>3. 0 * l + (r - l) = r - l
      OBVIOUS
    <3>. QED  BY <3>2, <3>3
  <2> HIDE DEF B
  <2>. QED  BY <2>1, <2>2, <2>3
<1>3. ASSUME NEW r \in 0..2*l-1, r < l
      PROVE  BlaumRoth(n, l)[r] \in (SUBSET (0..n*l-1)) \ {{}}
  <2>1. BlaumRoth(n, l)[r] = Identities(n, l, r) /\ r \in 0..l-1
    BY <1>3 DEF BlaumRoth
  <2>. QED  BY <2>1, IdentitiesAre
<1>4. BlaumRoth(n, l) = [r \in 0..2*l-1 |-> BlaumRoth(n, l)[r]]
  BY DEF BlaumRoth
<1> HIDE DEF BlaumRoth
<1>5. \A r \in 0..2*l-1 : BlaumRoth(n, l)[r] \in (SUBSET (0..n*l-1)) \ {{}}
  BY <1>2, <1>3
<1>. QED  BY <1>4, <1>5

LEMMA Liber8tionIs ==
    ASSUME NEW n \in Nat \ {0}, n <= 8
    PROVE  Liber8tion(n) \in [0..15 -> (SUBSET (0..n*8-1)) \ {{}}]
<1>1. ASSUME NEW j \in 0..n-1, NEW l \in 0..7
      PROVE  liber8tion_columns[j+1][l+1] \in 0..7
  <2>1. \A i \in 1..8 : liber8tion_columns[i] \in [1..8 -> 0..7]
    BY DEF liber8tion_columns
  <2>2. j + 1 \in 1..8 /\ l + 1 \in 1..8
    OBVIOUS
  <2>. QED  BY <2>1, <2>2
<1>2. ASSUME NEW j \in 1..n-1 PROVE liber8tion_more[j+1][2] \in 0..7
  <2>1. \A i \in 2..8 : liber8tion_more[i][2] \in 0..7
    BY DEF liber8tion_more
  <2>2. j + 1 \in 2..8
    OBVIOUS
  <2>. QED  BY <2>1, <2>2
<1>3. ASSUME NEW r \in 0..15, ~(r < 8)
      PROVE  Liber8tion(n)[r] \in (SUBSET (0..n*8-1)) \ {{}}
  <2> DEFINE A == {j * 8 + liber8tion_columns[j+1][r - 7] : j \in 0..n-1}
             B == {j * 8 + liber8tion_more[j+1][2] :
                      j \in {x \in 1..n-1 : liber8tion_more[x+1][1] = r - 8}}
  <2>1. Liber8tion(n)[r] = A \cup B
    BY <1>3 DEF Liber8tion
  <2>2. A \subseteq 0..n*8-1
    <3>1. \A j \in 0..n-1 : j * 8 + liber8tion_columns[j+1][r - 7] \in 0..n*8-1
      <4> TAKE j \in 0..n-1
      <4>1. r - 8 \in 0..7 /\ (r - 8) + 1 = r - 7
        BY <1>3
      <4>2. liber8tion_columns[j+1][r - 7] \in 0..8-1
        BY <1>1, <4>1
      <4>. QED  BY <4>2, ColumnIs
    <3>. QED  BY <3>1
  <2>3. B \subseteq 0..n*8-1
    <3>1. \A j \in 1..n-1 : j * 8 + liber8tion_more[j+1][2] \in 0..n*8-1
      <4> TAKE j \in 1..n-1
      <4>1. j \in 0..n-1 /\ liber8tion_more[j+1][2] \in 0..8-1
        BY <1>2
      <4>. QED  BY <4>1, ColumnIs
    <3>. QED  BY <3>1
  <2>4. A # {}
    <3>1. 0 \in 0..n-1
      OBVIOUS
    <3>. QED  BY <3>1
  <2>. QED  BY <2>1, <2>2, <2>3, <2>4
<1>4. ASSUME NEW r \in 0..15, r < 8
      PROVE  Liber8tion(n)[r] \in (SUBSET (0..n*8-1)) \ {{}}
  <2>1. Liber8tion(n)[r] = Identities(n, 8, r) /\ r \in 0..8-1
    BY <1>4 DEF Liber8tion
  <2>. QED  BY <2>1, IdentitiesAre
<1>5. Liber8tion(n) = [r \in 0..15 |-> Liber8tion(n)[r]]
  BY DEF Liber8tion
<1> HIDE DEF Liber8tion
<1>6. \A r \in 0..15 : Liber8tion(n)[r] \in (SUBSET (0..n*8-1)) \ {{}}
  BY <1>3, <1>4
<1>. QED  BY <1>5, <1>6

\* Every code that the encoder accepts has a bitmatrix without empty rows.
LEMMA BitmatrixFits ==
    ASSUME BInit, Accepts(code)
    PROVE  BitmatrixIs
<1>1. code \in Codes /\ bitmatrix = Bitmatrix(code)
  BY DEF BInit, Init
<1>2. /\ k \in Nat \ {0} /\ w \in Nat \ {0} /\ m \in Nat \ {0} /\ k = code.k /\ w = code.w /\ m = code.m
      /\ code.tech # "cauchy_orig" => m = 2
  BY <1>1, CodeIs, CodesAssumption DEF k, w, m
<1>3. CASE code.tech = "liberation"
  <2>1. Bitmatrix(code) = Liberation(k, w)
    BY <1>2, <1>3 DEF Bitmatrix
  <2>2. Liberation(k, w) \in [0..2*w-1 -> (SUBSET (0..k*w-1)) \ {{}}]
    BY <1>2, LiberationIs
  <2>. QED  BY <1>1, <1>2, <1>3, <2>1, <2>2 DEF BitmatrixIs, Lines
<1>4. CASE code.tech = "blaum_roth"
  <2>1. Bitmatrix(code) = BlaumRoth(k, w) /\ k <= w /\ (w + 1) % 2 = 1
    BY <1>2, <1>4 DEF Bitmatrix, Accepts
  <2>2. BlaumRoth(k, w) \in [0..2*w-1 -> (SUBSET (0..k*w-1)) \ {{}}]
    BY <1>2, <2>1, BlaumRothIs
  <2>. QED  BY <1>1, <1>2, <1>4, <2>1, <2>2 DEF BitmatrixIs, Lines
<1>5. CASE code.tech = "liber8tion"
  <2>1. Bitmatrix(code) = Liber8tion(k) /\ k <= 8 /\ w = 8 /\ m * w - 1 = 15
    BY <1>2, <1>5 DEF Bitmatrix, Accepts
  <2>. QED  BY <1>1, <1>2, <1>5, <2>1, Liber8tionIs DEF BitmatrixIs, Lines
<1>6. CASE code.tech = "cauchy_orig"
  <2>1. Bitmatrix(code) = matrix_to_bitmatrix(k, m, w, cauchy_original(k, m, w))
    BY <1>2, <1>6 DEF Bitmatrix
  <2>2. \A matrix : matrix_to_bitmatrix(k, m, w, matrix) \in [0..m*w-1 -> SUBSET Lines]
    BY DEF matrix_to_bitmatrix, Lines
  <2>3. \A r \in 0..m*w-1 : Bitmatrix(code)[r] # {}
    BY <1>1, <1>2, <1>6, CauchyAssumption
  <2>4. bitmatrix \in [0..m*w-1 -> SUBSET Lines]
    BY <1>1, <2>1, <2>2
  <2>5. \A r \in 0..m*w-1 : bitmatrix[r] # {}
    BY <1>1, <2>3
  <2>. QED  BY <2>4, <2>5 DEF BitmatrixIs
<1>7. code.tech \in {"liberation", "blaum_roth", "liber8tion", "cauchy_orig"}
  BY <1>1, CodesAssumption
<1>. QED  BY <1>3, <1>4, <1>5, <1>6, <1>7

LEMMA StutterRecreates ==
    ASSUME Recreation, UNCHANGED <<vars, bvars>>
    PROVE  Recreation'
<1>1. /\ UNCHANGED <<code, bitmatrix, scache, erasures, packets, caller, pc, ret, op, schedule>>
      /\ UNCHANGED <<mat, inv, col, inverted, decoding_rows, dm_ids, drive, lastdrive>>
  BY DEF vars, inverting, bvars
<1>2. BitmatrixIs' /\ CallIsOpen' /\ Outcome'
  BY <1>1, Same DEF Recreation, CallIsOpen, Outcome
<1>3. packets' = Without(Missing)'
  <2>1. /\ LostPackets' = LostPackets /\ k' = k
        /\ \A p : Turn(p)' = Turn(p)
        /\ \A S : Without(S)' = Without(S)
    BY <1>1, Same
  <2>2. {p \in LostPackets : Turn(p) >= op}' = {p \in LostPackets : Turn(p) >= op}
    BY <1>1, <2>1
  <2>3. {p \in LostPackets : p \div w >= drive}' = {p \in LostPackets : p \div w >= drive}
    BY <1>1, Same
  <2>4. {p \in LostPackets : p \div w >= k + drive}' = {p \in LostPackets : p \div w >= k + drive}
    BY <1>1, Same
  <2>5. Missing' = Missing
    BY <1>1, <2>1, <2>2, <2>3, <2>4 DEF Missing
  <2>. QED  BY <1>1, <2>1, <2>5 DEF Recreation
<1>4. CacheGood'
  <2>1. \A x, y : Entry(x, y)' = Entry(x, y)
    BY <1>1, SameEntry
  <2>. QED  BY <1>1, <2>1, Same DEF Recreation, CacheGood, Making
<1>5. ScheduleGood'
  <2>1. \A rows, S : GoodRows(rows, S)' = GoodRows(rows, S)
    BY <1>1, Same
  <2>2. GoodRows(schedule, Lost)' = GoodRows(schedule, Lost)
    BY <1>1, <2>1, Same
  <2>. QED  BY <1>1, <2>2 DEF Recreation, ScheduleGood
<1>6. CodingIs'
  <2>1. \A rows, S : GoodRows(rows, S)' = GoodRows(rows, S)
    BY <1>1, Same
  <2>2. GoodRows(decoding_rows, Lost)' = GoodRows(decoding_rows, Lost)
    BY <1>1, <2>1, Same
  <2>. QED  BY <1>1, <2>2, Same DEF Recreation, CodingIs
<1>7. InversionIs'
  <2>1. StoredAt(Ids)' = StoredAt(Ids) /\ Lines' = Lines /\ Matrices' = Matrices /\ k' = k /\ w' = w
    BY <1>1, SamePlaced
  <2>. QED  BY <1>1, <2>1 DEF Recreation, InversionIs, Sums, Pivot
<1>8. IdsGood'
  <2>1. Left(dm_ids)' = Left(dm_ids)
    BY <1>1, Same
  <2>. QED  BY <1>1, <2>1 DEF Recreation, IdsGood
<1>9. BitmatrixGood'
  <2>1. /\ Left(dm_ids)' = Left(dm_ids) /\ StoredAt(dm_ids)' = StoredAt(dm_ids)
        /\ Lines' = Lines /\ Matrices' = Matrices
    BY <1>1, Same
  <2>2. InverseGood' = InverseGood
    BY <1>1, <2>1 DEF InverseGood
  <2>. QED  BY <1>1, <2>2, Same DEF Recreation, BitmatrixGood, Making
<1>. QED  BY <1>2, <1>3, <1>4, <1>5, <1>6, <1>7, <1>8, <1>9 DEF Recreation

LEMMA RecreationSteps ==
    ASSUME DecodeInvariant, Recreation, inverted, [BNext]_<<vars, bvars>>
    PROVE  Recreation'
<1>1. CASE UNCHANGED <<vars, bvars>>
  BY <1>1, StutterRecreates
<1>2. CASE (Triangle \/ Back \/ DataRows \/ CodingDevice) /\ UNCHANGED bvars
  BY <1>2, MakingStep
<1>3. CASE InverseMade
  BY <1>3, InverseMadeStep
<1>4. CASE (BeginCache \/ CacheSchedule \/ LazySchedule \/ Perform) /\ UNCHANGED bvars
  BY <1>4, BeginCacheRecreates, CacheScheduleRecreates, LazyScheduleRecreates, PerformRecreates
<1>5. CASE (Return /\ UNCHANGED bvars) \/ BReturn
  BY <1>5, ReturnRecreates
<1>6. ASSUME NEW list \in Calls, DecodeLazy(list) \/ DecodeCache(list), UNCHANGED bvars
      PROVE  Recreation'
  BY <1>6, DecodeLazyRecreates, DecodeCacheRecreates
<1>7. ASSUME NEW list \in Calls, NEW ones \in BOOLEAN, DecodeBitmatrix(list, ones)
      PROVE  Recreation'
  BY <1>7, DecodeBitmatrixRecreates
<1>8. CASE DotprodData \/ DotprodLast \/ Reencode
  BY <1>8, DotprodDataRecreates, DotprodLastRecreates, ReencodeRecreates
<1>. QED
  BY <1>1, <1>2, <1>3, <1>4, <1>5, <1>6, <1>7, <1>8 DEF BNext, Next, Step

\* The invariant: a code that the encoder refuses recreates nothing.
RecreationInvariant == DecodeInvariant /\ (Accepts(code) => Recreation)

\* Where the matrices that are left can be inverted, and NeverSingular says that
\* they always can, each of the three decoders recreates every lost device.
THEOREM ErasedRecreatedHolds == BSpec /\ []NeverSingular => []ErasedRecreated
<1>1. BInit => RecreationInvariant
  BY DecodeInitially, BitmatrixFits, InitiallyRecreated DEF RecreationInvariant
<1>2. RecreationInvariant /\ NeverSingular /\ [BNext]_<<vars, bvars>> => RecreationInvariant'
  <2> SUFFICES ASSUME RecreationInvariant, NeverSingular, [BNext]_<<vars, bvars>>
               PROVE  RecreationInvariant'
    OBVIOUS
  <2>1. DecodeInvariant'
    BY DecodeInvariantSteps DEF RecreationInvariant
  <2>2. code' = code
    BY DEF BNext, Next, Step, vars, BeginCache, DecodeLazy, DecodeCache, Triangle, Back, DataRows,
       CodingDevice, CacheSchedule, LazySchedule, Perform, Return, DecodeBitmatrix, InverseMade,
       DotprodData, DotprodLast, Reencode, BReturn, unchanged_but_packets
  <2>3. Accepts(code') => Recreation'
    <3>1. Accepts(code) => Recreation'
      BY RecreationSteps DEF RecreationInvariant, NeverSingular
    <3>. QED  BY <2>2, <3>1
  <2>. QED  BY <2>1, <2>3 DEF RecreationInvariant
<1>3. RecreationInvariant => ErasedRecreated
  <2> SUFFICES ASSUME Recreation, DecodeInvariant, pc = "idle"
               PROVE  /\ ret = 0 => packets = Stored
                      /\ ret = -1 =>
                            /\ Len(erasures) > m
                            /\ \A p \in DOMAIN packets :
                                  packets[p] = IF p \div w \in Lost THEN Garbage ELSE Stored[p]
    BY DEF RecreationInvariant, ErasedRecreated
  <2>1. packets = Without(Missing)
    BY DEF Recreation
  <2>2. ASSUME ret = 0 PROVE packets = Stored
    <3>1. Missing = {}
      BY <2>2 DEF Missing
    <3>. QED  BY <2>1, <3>1, AllStored
  <2>3. ASSUME ret = -1
        PROVE  /\ Len(erasures) > m
               /\ \A p \in DOMAIN packets :
                     packets[p] = IF p \div w \in Lost THEN Garbage ELSE Stored[p]
    <3>1. packets = Without(LostPackets)
      BY <2>1, <2>3 DEF Missing
    <3>2. Len(erasures) > m
      BY <2>3 DEF Recreation, Outcome
    <3>. QED  BY <3>1, <3>2 DEF Without, LostPackets
  <2>. QED  BY <2>2, <2>3
<1>. QED  BY <1>1, <1>2, <1>3, PTL DEF BSpec

=============================================================================
