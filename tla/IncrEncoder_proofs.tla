------------------------- MODULE IncrEncoder_proofs -------------------------
(***************************************************************************)
(* Theorems about the incremental encoder, for every set of disks, every   *)
(* number of parity files and of read-ins, with crashes and retries.       *)
(***************************************************************************)
EXTENDS IncrEncoder, SequenceTheorems, TLAPS

\* Encoding yields a block, whatever the buffer and init held.
LEMMA EncodedIsBlock ==
    ASSUME NEW old \in Block, NEW d \in Disks, NEW k, NEW i0
    PROVE  Encoded(old, d, k, i0) \in Block
<1>1. InputBlock(d, k) \in Block
  BY EncoderAssumption DEF InputBlock, Block, Term
<1>2. Xor(old, InputBlock(d, k)) \in Block
  BY <1>1 DEF Xor, Block
<1>. QED  BY <1>1, <1>2 DEF Encoded

\* A file that is appended to is not empty, and keeps what it had.
LEMMA AppendedFile ==
    ASSUME NEW file \in Seq(Block), NEW block \in Block
    PROVE  /\ Append(file, block) \in Seq(Block)
           /\ Len(Append(file, block)) = Len(file) + 1
           /\ Append(file, block) # <<>>
           /\ Append(file, block)[Len(file) + 1] = block
           /\ \A b \in 1..Len(file) : Append(file, block)[b] = file[b]
BY AppendProperties

\* The loops over the parity files stay within them.
LEMMA NextRowInRows ==
    ASSUME row \in Rows, NEW here, NEW after, NextRow(here, after)
    PROVE  row' \in Rows /\ pc' \in {here, after}
BY EncoderAssumption DEF NextRow, Rows

\* Every variable keeps its type.
THEOREM TypeCorrect == Spec => []TypeOK
<1>1. Init => TypeOK
  BY EncoderAssumption DEF Init, TypeOK, Rows, Block
<1>2. TypeOK /\ [Next]_vars => TypeOK'
  <2> SUFFICES ASSUME TypeOK, [Next]_vars PROVE TypeOK'
    OBVIOUS
  <2> USE EncoderAssumption
  <2>1. ASSUME NEW d \in Disks, NEW r \in ReadIns, Start(d, r) PROVE TypeOK'
    <3>1. {Junk} \in Block
      BY DEF Block, Term
    <3>. QED  BY <2>1, <3>1 DEF TypeOK, Start, files, LoopHead, Rows
  <2>2. CASE LoadRow
    <3>1. mfile[row][Offset(row) + 1] \in Block
      BY <2>2 DEF TypeOK, LoadRow, Loadable, Offset
    <3>. QED
      BY <2>2, <3>1, NextRowInRows DEF TypeOK, LoadRow, files
  <2>3. CASE LoadFails
    BY <2>3 DEF TypeOK, LoadFails, files, locals
  <2>4. CASE EncodeAppendK
    <3>1. disk_no \in Disks
      BY <2>4 DEF TypeOK, EncodeAppendK
    <3>2. coding' \in [Rows -> Block]
      BY <2>4, <3>1, EncodedIsBlock DEF TypeOK, EncodeAppendK
    <3>3. InputBlock(disk_no, n) \in Block
      BY <3>1 DEF InputBlock, Block, Term
    <3>. QED  BY <2>4, <3>1, <3>2, <3>3 DEF TypeOK, EncodeAppendK
  <2>5. CASE AppendParity
    BY <2>5, NextRowInRows DEF TypeOK, AppendParity
  <2>6. CASE AppendStage
    BY <2>6, NextRowInRows DEF TypeOK, AppendStage
  <2>7. CASE RenameStage
    BY <2>7, NextRowInRows DEF TypeOK, RenameStage
  <2>8. CASE WriteMeta
    BY <2>8 DEF TypeOK, WriteMeta, LoopHead
  <2>9. CASE Crash
    BY <2>9 DEF TypeOK, Crash, files, locals
  <2>10. CASE UNCHANGED vars
    BY <2>10 DEF TypeOK, vars, files, locals
  <2>. QED
    BY <2>1, <2>2, <2>3, <2>4, <2>5, <2>6, <2>7, <2>8, <2>9, <2>10
    DEF Next, EncoderStep
<1>. QED  BY <1>1, <1>2, PTL DEF Spec

-----------------------------------------------------------------------------
\* Every term of a block is junk or belongs to a disk with a k file.
Backed(block) ==
    \A t \in block : t = Junk \/ (t[1] \in Disks /\ kfile[t[1]] # <<>>)

\* The inductive form of KBeforeParity: it has to speak of the buffers too,
\* from which the parity and staging files are written.
KInv == \A i \in Rows : /\ Backed(coding[i])
                        /\ \A b \in DOMAIN mfile[i] : Backed(mfile[i][b])
                        /\ \A b \in DOMAIN stage[i] : Backed(stage[i][b])

LEMMA KInvImplies == KInv => KBeforeParity
BY DEF KInv, KBeforeParity, Backed, TermsOf

\* Written data blocks stay: what is backed remains backed.
LEMMA BackedStays ==
    ASSUME NEW block, Backed(block), TypeOK,
           \A d \in Disks : kfile[d] # <<>> => kfile'[d] # <<>>
    PROVE  Backed(block)'
BY DEF Backed

\* Whatever is killed and retried, parity never depends on unwritten data.
THEOREM KBeforeParityHolds == Spec => []KBeforeParity
<1>1. Init => KInv
  BY DEF Init, KInv, Backed
<1>2. TypeOK /\ KInv /\ [Next]_vars => KInv'
  <2> SUFFICES ASSUME TypeOK, KInv, [Next]_vars PROVE KInv'
    OBVIOUS
  <2>1. ASSUME NEW d \in Disks, NEW r \in ReadIns, Start(d, r) PROVE KInv'
    BY <2>1 DEF Start, KInv, Backed, files
  <2>2. CASE LoadRow
    <3>1. Offset(row) + 1 \in DOMAIN mfile[row]
      BY <2>2 DEF TypeOK, LoadRow, Loadable, Offset
    <3>2. Backed(coding'[row])
      BY <2>2, <3>1 DEF LoadRow, KInv, TypeOK
    <3>. QED  BY <2>2, <3>2 DEF LoadRow, KInv, Backed, TypeOK, files
  <2>3. CASE LoadFails
    BY <2>3 DEF LoadFails, KInv, Backed, files, locals
  <2>4. CASE EncodeAppendK
    <3>1. disk_no \in Disks /\ InputBlock(disk_no, n) \in Block
      BY <2>4, EncoderAssumption
      DEF TypeOK, EncodeAppendK, InputBlock, Block, Term
    <3>3. kfile'[disk_no] # <<>>
      BY <2>4, <3>1, AppendedFile DEF TypeOK, EncodeAppendK
    <3>2. \A d \in Disks : kfile[d] # <<>> => kfile'[d] # <<>>
      BY <2>4, <3>3 DEF TypeOK, EncodeAppendK
    <3>4. ASSUME NEW i \in Rows PROVE Backed(coding[i])' 
      <4>1. Backed(coding[i]) /\ coding'[i] = Encoded(coding[i], disk_no, n, init)
        BY <2>4 DEF EncodeAppendK, KInv
      <4>2. \A t \in coding'[i] : t \in coding[i] \/ t = <<disk_no, 1>>
        BY <4>1 DEF Encoded, Xor, InputBlock
      <4>. QED  BY <4>1, <4>2, <3>1, <3>2, <3>3 DEF Backed
    <3>5. UNCHANGED <<mfile, stage>>
      BY <2>4 DEF EncodeAppendK
    <3>. QED  BY <3>2, <3>4, <3>5, BackedStays DEF KInv, Backed
  <2>5. CASE AppendParity
    <3>1. UNCHANGED <<kfile, stage, coding>>
      BY <2>5 DEF AppendParity
    <3>2. ASSUME NEW i \in Rows, NEW b \in DOMAIN mfile'[i]
          PROVE  Backed(mfile'[i][b])
      <4>1. CASE i = row
        <5>1. mfile'[i] = Append(mfile[i], coding[i])
          BY <2>5, <4>1 DEF AppendParity, TypeOK
        <5>2. b \in DOMAIN mfile[i] \/ mfile'[i][b] = coding[i]
          BY <5>1 DEF TypeOK
        <5>. QED  BY <5>1, <5>2 DEF KInv, TypeOK
      <4>. QED  BY <2>5, <4>1 DEF AppendParity, KInv, TypeOK
    <3>. QED  BY <3>1, <3>2 DEF KInv, Backed
  <2>6. CASE AppendStage
    <3>1. UNCHANGED <<kfile, mfile, coding>>
      BY <2>6 DEF AppendStage
    <3>2. ASSUME NEW i \in Rows, NEW b \in DOMAIN stage'[i]
          PROVE  Backed(stage'[i][b])
      <4>1. CASE i = row
        <5>1. stage'[i] = Append(stage[i], coding[i])
          BY <2>6, <4>1 DEF AppendStage, TypeOK
        <5>2. b \in DOMAIN stage[i] \/ stage'[i][b] = coding[i]
          BY <5>1 DEF TypeOK
        <5>. QED  BY <5>1, <5>2 DEF KInv, TypeOK
      <4>. QED  BY <2>6, <4>1 DEF AppendStage, KInv, TypeOK
    <3>. QED  BY <3>1, <3>2 DEF KInv, Backed
  <2>7. CASE RenameStage
    BY <2>7 DEF RenameStage, KInv, Backed, TypeOK
  <2>8. CASE WriteMeta
    BY <2>8 DEF WriteMeta, KInv, Backed
  <2>9. CASE Crash
    BY <2>9 DEF Crash, KInv, Backed, files, locals
  <2>10. CASE UNCHANGED vars
    BY <2>10 DEF KInv, Backed, vars, files, locals
  <2>. QED
    BY <2>1, <2>2, <2>3, <2>4, <2>5, <2>6, <2>7, <2>8, <2>9, <2>10
    DEF Next, EncoderStep
<1>. QED  BY <1>1, <1>2, TypeCorrect, KInvImplies, PTL DEF Spec

-----------------------------------------------------------------------------
\* The metadata accounts for the data blocks, up to the runs that were killed.
THEOREM MetaAccountsHolds == Spec => []MetaAccountsForK
<1>1. Init => MetaAccountsForK
  BY DEF Init, MetaAccountsForK
<1>2. TypeOK /\ MetaAccountsForK /\ [Next]_vars => MetaAccountsForK'
  <2> SUFFICES ASSUME TypeOK, MetaAccountsForK, [Next]_vars
               PROVE  MetaAccountsForK'
    OBVIOUS
  <2>1. ASSUME NEW d \in Disks, NEW r \in ReadIns, Start(d, r)
        PROVE  MetaAccountsForK'
    BY <2>1 DEF Start, MetaAccountsForK, TypeOK, LoopHead, files
  <2>2. CASE LoadRow
    BY <2>2 DEF LoadRow, NextRow, MetaAccountsForK, TypeOK, files
  <2>3. CASE LoadFails
    BY <2>3 DEF LoadFails, MetaAccountsForK, TypeOK, files, locals
  <2>4. CASE EncodeAppendK
    <3>1. disk_no \in Disks /\ InputBlock(disk_no, n) \in Block
      BY <2>4, EncoderAssumption
      DEF TypeOK, EncodeAppendK, InputBlock, Block, Term
    <3>2. Len(kfile'[disk_no]) = Len(kfile[disk_no]) + 1
      BY <2>4, <3>1, AppendedFile DEF TypeOK, EncodeAppendK
    <3>3. \A d \in Disks \ {disk_no} : kfile'[d] = kfile[d]
      BY <2>4 DEF TypeOK, EncodeAppendK
    <3>4. \A d \in Disks : Len(kfile[d]) \in Nat /\ meta[d] \in Nat
      BY DEF TypeOK
    <3>5. /\ pc = "encode" /\ pc' = "parity"
          /\ UNCHANGED <<meta, disk_no, crashes>> /\ crashes \in Nat
      BY <2>4 DEF EncodeAppendK, TypeOK
    <3>. QED  BY <3>1, <3>2, <3>3, <3>4, <3>5 DEF MetaAccountsForK
  <2>5. CASE AppendParity
    BY <2>5 DEF AppendParity, NextRow, MetaAccountsForK, TypeOK
  <2>6. CASE AppendStage
    BY <2>6 DEF AppendStage, NextRow, MetaAccountsForK, TypeOK
  <2>7. CASE RenameStage
    BY <2>7 DEF RenameStage, NextRow, MetaAccountsForK, TypeOK
  <2>8. CASE WriteMeta
    BY <2>8 DEF WriteMeta, LoopHead, MetaAccountsForK, TypeOK
  <2>9. CASE Crash
    BY <2>9 DEF Crash, MetaAccountsForK, TypeOK, files, locals
  <2>10. CASE UNCHANGED vars
    BY <2>10 DEF MetaAccountsForK, vars, files, locals
  <2>. QED
    BY <2>1, <2>2, <2>3, <2>4, <2>5, <2>6, <2>7, <2>8, <2>9, <2>10
    DEF Next, EncoderStep
<1>. QED  BY <1>1, <1>2, TypeCorrect, PTL DEF Spec

-----------------------------------------------------------------------------
\* A run of a later disk that has got past the load has found, in every row
\* that it has still to append to, less staged than there is parity.
LoadedInv ==
    disk_no > 1 =>
        /\ pc = "load" => \A j \in Rows : j < row => Loadable(j)
        /\ pc = "encode" => \A j \in Rows : Loadable(j)
        /\ pc = "parity" => \A j \in Rows : j >= row => Loadable(j)
        /\ pc = "rename" => \A j \in Rows : j > row => Loadable(j)
        /\ pc = "meta" => row = 1

LEMMA LoadableAgain ==
    ASSUME NEW j \in Rows, mfile'[j] = mfile[j], stage'[j] = stage[j]
    PROVE  Loadable(j)' <=> Loadable(j)
BY DEF Loadable, Offset

\* A staging file that a kill left full freezes its row until disk 1 is
\* encoded again: no run of a later disk gets past the load, so nothing is
\* built upon a half-renamed generation.
THEOREM FullStageBlocksHolds == Spec => FullStageBlocks
<1>1. Init => LoadedInv
  BY DEF Init, LoadedInv
<1>2. TypeOK /\ LoadedInv /\ [Next]_vars => LoadedInv'
  <2> SUFFICES ASSUME TypeOK, LoadedInv, [Next]_vars PROVE LoadedInv'
    OBVIOUS
  <2>0. row \in Rows /\ Rows = 1..M /\ M \in Nat \ {0} /\ disk_no \in Nat \ {0}
    BY EncoderAssumption DEF TypeOK, Rows
  <2>a. UNCHANGED <<mfile, stage>> => \A j \in Rows : Loadable(j)' <=> Loadable(j)
    BY LoadableAgain
  <2>1. ASSUME NEW d \in Disks, NEW r \in ReadIns, Start(d, r) PROVE LoadedInv'
    <3>1. disk_no' = d /\ row' = 1 /\ pc' = IF d > 1 THEN "load" ELSE "encode"
      BY <2>1 DEF Start, LoopHead
    <3>. QED  BY <2>0, <3>1 DEF LoadedInv
  <2>2. CASE LoadRow
    <3>1. /\ pc = "load" /\ Loadable(row) /\ UNCHANGED <<mfile, stage, disk_no>>
          /\ IF row < M THEN row' = row + 1 /\ pc' = "load"
                        ELSE row' = 1 /\ pc' = "encode"
      BY <2>2 DEF LoadRow, NextRow, files
    <3>. QED  BY <2>0, <2>a, <3>1 DEF LoadedInv
  <2>3. CASE LoadFails
    BY <2>3 DEF LoadFails, LoadedInv
  <2>4. CASE EncodeAppendK
    <3>1. /\ pc = "encode" /\ pc' = "parity"
          /\ UNCHANGED <<mfile, stage, disk_no, row>>
      BY <2>4 DEF EncodeAppendK
    <3>. QED  BY <2>0, <2>a, <3>1 DEF LoadedInv
  <2>5. CASE AppendParity
    BY <2>5 DEF AppendParity, LoadedInv
  <2>6. CASE AppendStage
    <3>1. /\ pc = "parity" /\ UNCHANGED <<mfile, disk_no>>
          /\ stage' = [stage EXCEPT ![row] = Append(@, coding[row])]
          /\ \/ pc' = "rename" /\ row' = row
             \/ row < M /\ row' = row + 1 /\ pc' = "parity"
             \/ row' = 1 /\ pc' = "meta"
      BY <2>6 DEF AppendStage, NextRow
    <3>2. \A j \in Rows \ {row} : stage'[j] = stage[j]
      BY <3>1 DEF TypeOK
    <3>3. \A j \in Rows : j > row => (Loadable(j)' <=> Loadable(j))
      BY <2>0, <3>1, <3>2, LoadableAgain
    <3>. QED  BY <2>0, <3>1, <3>3 DEF LoadedInv
  <2>7. CASE RenameStage
    <3>1. /\ pc = "rename" /\ UNCHANGED disk_no
          /\ mfile' = [mfile EXCEPT ![row] = stage[row]]
          /\ stage' = [stage EXCEPT ![row] = <<>>]
          /\ \/ row < M /\ row' = row + 1 /\ pc' = "parity"
             \/ row' = 1 /\ pc' = "meta"
      BY <2>7 DEF RenameStage, NextRow
    <3>2. \A j \in Rows \ {row} : mfile'[j] = mfile[j] /\ stage'[j] = stage[j]
      BY <3>1 DEF TypeOK
    <3>3. \A j \in Rows : j > row => (Loadable(j)' <=> Loadable(j))
      BY <2>0, <3>2, LoadableAgain
    <3>. QED  BY <2>0, <3>1, <3>3 DEF LoadedInv
  <2>8. CASE WriteMeta
    <3>1. /\ pc = "meta" /\ UNCHANGED <<disk_no, row>>
          /\ pc' \in {IF disk_no > 1 THEN "load" ELSE "encode", "idle"}
      BY <2>8 DEF WriteMeta, LoopHead
    <3>. QED  BY <2>0, <3>1 DEF LoadedInv
  <2>9. CASE Crash
    BY <2>9 DEF Crash, LoadedInv
  <2>10. CASE UNCHANGED vars
    BY <2>10 DEF LoadedInv, Loadable, Offset, vars, files, locals
  <2>. QED
    BY <2>1, <2>2, <2>3, <2>4, <2>5, <2>6, <2>7, <2>8, <2>9, <2>10
    DEF Next, EncoderStep
<1>3. TypeOK /\ LoadedInv /\ [Next]_vars =>
        [\A i \in Rows :
           (/\ Len(stage[i]) = FullStage /\ Len(mfile[i]) <= FullStage
            /\ ~(pc = "rename" /\ row = i)) =>
               /\ stage'[i] = stage[i]
               /\ mfile'[i] = mfile[i] \/ disk_no = 1
               /\ \A d \in Disks \ {1} : kfile'[d] = kfile[d]]_vars
  <2> SUFFICES ASSUME TypeOK, LoadedInv, [Next]_vars, NEW i \in Rows,
                      Len(stage[i]) = FullStage, Len(mfile[i]) <= FullStage,
                      ~(pc = "rename" /\ row = i)
               PROVE  /\ stage'[i] = stage[i]
                      /\ mfile'[i] = mfile[i] \/ disk_no = 1
                      /\ \A d \in Disks \ {1} : kfile'[d] = kfile[d]
    OBVIOUS
  <2>0. /\ row \in Rows /\ Rows \subseteq Nat /\ disk_no \in Nat \ {0}
        /\ kfile \in [Disks -> Seq(Block)]
        /\ mfile \in [Rows -> Seq(Block)] /\ stage \in [Rows -> Seq(Block)]
    BY EncoderAssumption DEF TypeOK, Rows
  <2>a. ~Loadable(i)
    BY <2>0 DEF Loadable, Offset, FullStage
  <2>1. ASSUME NEW d \in Disks, NEW r \in ReadIns, Start(d, r)
        PROVE  UNCHANGED files
    BY <2>1 DEF Start
  <2>2. CASE LoadRow
    BY <2>2 DEF LoadRow, files
  <2>3. CASE LoadFails
    BY <2>3 DEF LoadFails, files
  <2>4. CASE EncodeAppendK
    <3>1. /\ pc = "encode" /\ UNCHANGED <<mfile, stage>>
          /\ kfile' = [kfile EXCEPT ![disk_no] = Append(@, InputBlock(disk_no, n))]
      BY <2>4 DEF EncodeAppendK
    <3>2. disk_no = 1
      BY <2>0, <2>a, <3>1 DEF LoadedInv
    <3>. QED  BY <2>0, <3>1, <3>2
  <2>5. CASE AppendParity
    BY <2>5 DEF AppendParity
  <2>6. CASE AppendStage
    <3>1. /\ pc = "parity" /\ disk_no > 1 /\ UNCHANGED <<kfile, mfile>>
          /\ stage' = [stage EXCEPT ![row] = Append(@, coding[row])]
      BY <2>6 DEF AppendStage
    <3>2. i # row
      BY <2>0, <2>a, <3>1 DEF LoadedInv
    <3>. QED  BY <2>0, <3>1, <3>2
  <2>7. CASE RenameStage
    <3>1. /\ pc = "rename" /\ UNCHANGED kfile
          /\ mfile' = [mfile EXCEPT ![row] = stage[row]]
          /\ stage' = [stage EXCEPT ![row] = <<>>]
      BY <2>7 DEF RenameStage
    <3>. QED  BY <2>0, <3>1
  <2>8. CASE WriteMeta
    BY <2>8 DEF WriteMeta
  <2>9. CASE Crash
    BY <2>9 DEF Crash, files
  <2>10. CASE UNCHANGED vars
    BY <2>10 DEF vars, files
  <2>. QED
    BY <2>1, <2>2, <2>3, <2>4, <2>5, <2>6, <2>7, <2>8, <2>9, <2>10
    DEF Next, EncoderStep, files
<1>. QED  BY <1>1, <1>2, <1>3, TypeCorrect, PTL DEF Spec, FullStageBlocks

-----------------------------------------------------------------------------
(***************************************************************************)
(* When every disk is encoded once, by a run of two read-ins that is not   *)
(* killed and finds init zero, the parity files are consistent after every *)
(* run, for every set of disks and every number of parity files.           *)
(***************************************************************************)
PlainRuns ==
    /\ InitValues = {0}
    /\ ReadIns = {2}
    /\ ~Retry
Supported == PlainRuns /\ MaxCrashes = 0

-----------------------------------------------------------------------------
(***************************************************************************)
(* The inductive invariant.  Between runs a parity file has two blocks,    *)
(* the sum of the stored disks.  While disk 1 is encoded the parity files  *)
(* grow; while a later disk is encoded a row keeps the old sum until its   *)
(* turn in the second iteration, and the staging file collects the new one *)
(* The invariant allows for parity files that are lost between runs: a run *)
(* that does not find all of them ends before it has written anything.     *)
(***************************************************************************)
Holds(file, len, block) ==
    Len(file) = len /\ \A b \in 1..len : file[b] = block

\* The disks that have been encoded by runs that are over.
Stored == {d \in Disks : kfile[d] # <<>> /\ ~(pc # "idle" /\ d = disk_no)}
Old == {<<d, 1>> : d \in Stored}
New == Old \cup {<<disk_no, 1>>}

\* In this iteration the loop over the parity files is past row i.
Past(i) == pc = "meta" \/ (pc \in {"parity", "rename"} /\ i < row)

KInvariant ==
    /\ \A d \in Stored : Holds(kfile[d], 2, {<<d, 1>>})
    /\ Stored # {} => 1 \in Stored \/ (pc # "idle" /\ disk_no = 1)

AtRest(i) ==
    /\ stage[i] = <<>>
    /\ mfile[i] = <<>> \/ (Stored # {} /\ Holds(mfile[i], 2, Old))
Idle == \A i \in Rows : AtRest(i)

Running ==
    /\ readins = 2 /\ n \in 1..2
    /\ disk_no \notin Stored
    /\ Holds(kfile[disk_no], IF pc \in {"load", "encode"} THEN n - 1 ELSE n,
             {<<disk_no, 1>>})
    /\ pc \in {"encode", "meta"} => row = 1

First ==
    /\ Stored = {} /\ init = 0
    /\ pc \in {"encode", "parity", "meta"}
    /\ \A i \in Rows :
          /\ stage[i] = <<>>
          /\ Holds(mfile[i], IF Past(i) THEN n ELSE n - 1, New)
          /\ pc = "parity" => coding[i] = New

\* The first load may find that a parity file is not there.
Looking ==
    \A i \in Rows : /\ AtRest(i)
                    /\ i < row => mfile[i] # <<>> /\ coding[i] = Old

Later ==
    /\ Stored # {}
    /\ pc = "rename" => n = 2
    /\ pc = "encode" => init = 1
    /\ \A i \in Rows :
          /\ IF Past(i) /\ n = 2
             THEN stage[i] = <<>> /\ Holds(mfile[i], 2, New)
             ELSE /\ Holds(mfile[i], 2, Old)
                  /\ Holds(stage[i],
                           IF Past(i) \/ (pc = "rename" /\ i = row)
                           THEN n ELSE n - 1, New)
          /\ pc = "encode" \/ (pc = "load" /\ i < row) => coding[i] = Old
          /\ pc \in {"parity", "rename"} => coding[i] = New

SInv ==
    /\ KInvariant
    /\ IF pc = "idle" THEN Idle
       ELSE /\ Running
            /\ IF disk_no = 1 THEN First
               ELSE IF pc = "load" /\ n = 1 THEN Looking
               ELSE Later

\* Nothing was lost.
AllThere == Stored # {} => \A i \in Rows : mfile[i] # <<>>

-----------------------------------------------------------------------------
LEMMA InitSInv == Init => SInv
BY DEF Init, SInv, KInvariant, Idle, AtRest, Stored

\* A disk that is not stored adds itself to the old sum.
LEMMA EncodeAdds ==
    ASSUME disk_no \notin Stored
    PROVE  /\ Encoded(Old, disk_no, n, 1) = New
           /\ \A block : Encoded(block, disk_no, n, 0) = {<<disk_no, 1>>}
<1>1. <<disk_no, 1>> \notin Old
  BY DEF Old
<1>. QED  BY <1>1 DEF Encoded, Xor, InputBlock, New

\* Steps that leave the k files and the running disk alone keep the sums.
LEMMA SumsStay ==
    ASSUME UNCHANGED <<kfile, disk_no>>, pc # "idle", pc' # "idle"
    PROVE  Stored' = Stored /\ Old' = Old /\ New' = New
<1>1. Stored' = Stored
  BY DEF Stored
<1>2. Old' = Old
  BY <1>1 DEF Old
<1>. QED  BY <1>1, <1>2 DEF New

LEMMA StartStep ==
    ASSUME PlainRuns, TypeOK, SInv, NEW d \in Disks, NEW r \in ReadIns,
           Start(d, r)
    PROVE  SInv'
<1> USE EncoderAssumption
<1>1. /\ pc = "idle" /\ pc' # "idle" /\ disk_no' = d /\ kfile[d] = <<>>
      /\ UNCHANGED <<kfile, mfile, stage>>
      /\ n' = 1 /\ readins' = 2 /\ row' = 1 /\ init' = 0
      /\ pc' = IF d = 1 THEN "encode" ELSE "load"
      /\ d \in Nat \ {0}
  BY DEF Start, PlainRuns, files, LoopHead
<1>2. Stored' = Stored /\ d \notin Stored
  BY <1>1 DEF Stored
<1>3. Old' = Old
  BY <1>2 DEF Old
<1>4. KInvariant'
  BY <1>1, <1>2 DEF SInv, KInvariant, Holds, Stored
<1>5. Running'
  BY <1>1, <1>2 DEF Running, Holds
<1>6. ASSUME d = 1 PROVE First'
  <2>1. Stored = {}
    BY <1>1, <1>2, <1>6 DEF SInv, KInvariant
  <2>2. \A i \in Rows : mfile[i] = <<>> /\ stage[i] = <<>>
    BY <1>1, <2>1 DEF SInv, Idle, AtRest
  <2>. QED  BY <1>1, <1>2, <1>6, <2>1, <2>2 DEF First, Holds, Past
<1>7. ASSUME d # 1 PROVE Looking'
  <2>1. \A i \in Rows : AtRest(i)' /\ ~(i < row')
    BY <1>1, <1>2, <1>3 DEF SInv, Idle, AtRest, Holds, Rows
  <2>. QED  BY <2>1 DEF Looking
<1>. QED  BY <1>1, <1>4, <1>5, <1>6, <1>7 DEF SInv

LEMMA LoadRowStep ==
    ASSUME TypeOK, SInv, LoadRow
    PROVE  SInv'
<1> USE EncoderAssumption
<1>1. /\ pc = "load" /\ pc' \in {"load", "encode"}
      /\ UNCHANGED <<kfile, mfile, stage, disk_no, n, readins>>
      /\ init' = 1
      /\ row < M => row' = row + 1 /\ pc' = "load"
      /\ row = M => row' = 1 /\ pc' = "encode"
      /\ row \in Rows /\ row \in 1..M
  BY DEF LoadRow, NextRow, files, TypeOK, Rows
<1>2. Stored' = Stored /\ Old' = Old /\ New' = New
  BY <1>1, SumsStay
<1>3. Running /\ disk_no # 1
  BY <1>1 DEF SInv, First
<1>4. coding' = [coding EXCEPT ![row] = mfile[row][Offset(row) + 1]]
  BY DEF LoadRow
<1>5. \A i \in Rows : i # row => coding'[i] = coding[i]
  BY <1>4 DEF TypeOK
<1>6. KInvariant' /\ Running'
  BY <1>1, <1>2, <1>3 DEF SInv, KInvariant, Running, Holds
<1>7. CASE n = 1
  <2>1. Looking
    BY <1>1, <1>3, <1>7 DEF SInv
  <2>2. mfile[row] # <<>> /\ stage[row] = <<>>
    BY <1>1, <2>1 DEF Looking, AtRest, LoadRow, Loadable, Offset
  <2>3. Stored # {} /\ Holds(mfile[row], 2, Old) /\ Offset(row) = 0
    BY <1>1, <2>1, <2>2 DEF Looking, AtRest, Offset
  <2>4. coding'[row] = Old
    BY <1>1, <1>4, <2>3 DEF Holds, TypeOK
  <2>5. \A i \in Rows : AtRest(i)'
    BY <1>1, <1>2, <2>1 DEF Looking, AtRest, Holds
  <2>6. ASSUME NEW i \in Rows, i <= row PROVE mfile[i] # <<>> /\ coding'[i] = Old
    BY <1>1, <1>5, <2>1, <2>2, <2>4, <2>6 DEF Looking, Rows
  <2>7. CASE row < M
    BY <1>1, <1>2, <1>3, <1>6, <1>7, <2>5, <2>6, <2>7 DEF SInv, Looking, Rows
  <2>8. CASE row = M
    <3>1. \A i \in Rows : /\ stage[i] = <<>> /\ Holds(mfile[i], 2, Old)
                          /\ coding'[i] = Old
      BY <2>1, <2>6, <2>8 DEF Looking, AtRest, Rows
    <3>2. Later'
      BY <1>1, <1>2, <1>7, <2>3, <2>8, <3>1 DEF Later, Holds, Past, Rows
    <3>. QED  BY <1>1, <1>3, <1>6, <2>8, <3>2 DEF SInv
  <2>. QED  BY <1>1, <2>7, <2>8 DEF Rows
<1>8. CASE n = 2
  <2>1. Later
    BY <1>1, <1>3, <1>8 DEF SInv
  <2>2. Offset(row) + 1 = 2 /\ Holds(mfile[row], 2, Old)
    <3>1. ~Past(row) /\ ~(pc = "rename") /\ n - 1 = 1
      BY <1>1, <1>8 DEF Past
    <3>2. Holds(mfile[row], 2, Old) /\ Holds(stage[row], 1, New)
      BY <1>1, <2>1, <3>1 DEF Later
    <3>. QED  BY <3>2 DEF Offset, Holds
  <2>3. coding'[row] = Old
    BY <1>1, <1>4, <2>2 DEF Holds, TypeOK
  <2>4. \A i \in Rows : ~Past(i) /\ ~Past(i)'
    BY <1>1 DEF Past
  <2>5. ASSUME NEW i \in Rows
        PROVE  /\ Holds(mfile[i], 2, Old) /\ Holds(stage[i], 1, New)
               /\ i < row => coding[i] = Old
    BY <1>1, <1>8, <2>1, <2>4 DEF Later
  <2>6. ASSUME NEW i \in Rows, pc' = "encode" \/ i < row' PROVE coding'[i] = Old
    BY <1>1, <1>5, <2>3, <2>5, <2>6 DEF Rows
  <2>7. Later'
    BY <1>1, <1>2, <1>8, <2>1, <2>4, <2>5, <2>6 DEF Later, Holds
  <2>. QED  BY <1>1, <1>3, <1>6, <1>8, <2>7 DEF SInv
<1>. QED  BY <1>3, <1>7, <1>8 DEF Running

\* A run fails in its first load, before it has written anything.
LEMMA FailsLooking ==
    ASSUME TypeOK, SInv, LoadFails
    PROVE  Running /\ n = 1 /\ disk_no # 1 /\ Looking /\ mfile[row] = <<>>
<1>1. pc = "load" /\ row \in Rows /\ ~Loadable(row) /\ mfile[row] \in Seq(Block)
  BY DEF LoadFails, TypeOK
<1>2. Running /\ disk_no # 1
  BY <1>1 DEF SInv, First
<1>3. ~Later \/ n = 1
  BY <1>1, <1>2 DEF Later, Loadable, Offset, Holds, Past, Running
<1>4. n = 1 /\ Looking
  BY <1>1, <1>2, <1>3 DEF SInv, Running
<1>5. stage[row] = <<>>
  BY <1>1, <1>4 DEF Looking, AtRest
<1>. QED  BY <1>1, <1>2, <1>4, <1>5 DEF Loadable, Offset

LEMMA LoadFailsStep ==
    ASSUME TypeOK, SInv, LoadFails
    PROVE  SInv'
<1>1. /\ pc = "load" /\ pc' = "idle"
      /\ UNCHANGED <<kfile, mfile, stage, disk_no, n>>
      /\ disk_no \in Disks /\ kfile[disk_no] \in Seq(Block)
  BY DEF LoadFails, files, locals, TypeOK
<1>2. Running /\ n = 1 /\ disk_no # 1 /\ Looking
  BY FailsLooking
<1>3. kfile[disk_no] = <<>>
  BY <1>1, <1>2 DEF Running, Holds
<1>4. Stored' = Stored
  BY <1>1, <1>3 DEF Stored
<1>5. Old' = Old
  BY <1>4 DEF Old
<1>6. Idle'
  BY <1>1, <1>2, <1>4, <1>5 DEF Looking, Idle, AtRest, Holds
<1>7. KInvariant'
  BY <1>1, <1>2, <1>4 DEF SInv, KInvariant, Holds
<1>. QED  BY <1>1, <1>6, <1>7 DEF SInv

LEMMA EncodeStep ==
    ASSUME TypeOK, SInv, EncodeAppendK
    PROVE  SInv'
<1> USE EncoderAssumption
<1>1. /\ pc = "encode" /\ pc' = "parity" /\ disk_no \in Disks
      /\ UNCHANGED <<mfile, stage, disk_no, n, readins, row, init>>
      /\ row \in Rows
      /\ kfile[disk_no] \in Seq(Block)
      /\ kfile' = [kfile EXCEPT ![disk_no] =
                      Append(kfile[disk_no], {<<disk_no, 1>>})]
  BY DEF EncodeAppendK, TypeOK, InputBlock
<1>0. {<<disk_no, 1>>} \in Block
  BY <1>1 DEF Block, Term
<1>2. Running /\ (Later \/ First) /\ n \in 1..2 /\ row = 1
  BY <1>1 DEF SInv, Running
<1>3. /\ kfile'[disk_no] = Append(kfile[disk_no], {<<disk_no, 1>>})
      /\ \A d \in Disks \ {disk_no} : kfile'[d] = kfile[d]
  BY <1>1 DEF TypeOK
<1>4. Holds(kfile'[disk_no], n, {<<disk_no, 1>>})
  <2>1. Holds(kfile[disk_no], n - 1, {<<disk_no, 1>>})
    BY <1>1, <1>2 DEF Running
  <2>. QED  BY <1>0, <1>1, <1>2, <1>3, <2>1, AppendedFile DEF Holds
<1>5. Stored' = Stored
  BY <1>1, <1>3 DEF Stored
<1>6. Old' = Old /\ New' = New
  BY <1>1, <1>5 DEF Old, New
<1>7. \A i \in Rows : coding'[i] = New
  <2>1. ASSUME NEW i \in Rows
        PROVE  coding'[i] = Encoded(coding[i], disk_no, n, init)
    BY DEF EncodeAppendK
  <2>2. CASE First
    <3>1. init = 0 /\ New = {<<disk_no, 1>>}
      BY <2>2 DEF First, New, Old
    <3>. QED  BY <2>1, <3>1, <1>2, EncodeAdds DEF Running
  <2>3. CASE Later
    <3>1. init = 1 /\ \A i \in Rows : coding[i] = Old
      BY <2>3, <1>1 DEF Later
    <3>. QED  BY <2>1, <3>1, <1>2, EncodeAdds DEF Running
  <2>. QED  BY <1>2, <2>2, <2>3
<1>8. KInvariant'
  <2>1. \A d \in Stored : kfile'[d] = kfile[d]
    BY <1>2, <1>3 DEF Running, Stored
  <2>2. \A d \in Stored : Holds(kfile'[d], 2, {<<d, 1>>})
    BY <2>1 DEF SInv, KInvariant
  <2>. QED  BY <1>1, <1>5, <2>2 DEF SInv, KInvariant, Holds
<1>9. Running'
  BY <1>1, <1>2, <1>4, <1>5 DEF Running, Holds
<1>10. First => First'
  BY <1>1, <1>2, <1>5, <1>6, <1>7 DEF First, Holds, Past, Rows
<1>11. Later => Later'
  BY <1>1, <1>2, <1>5, <1>6, <1>7 DEF Later, Holds, Past, Rows
<1>. QED  BY <1>1, <1>2, <1>8, <1>9, <1>10, <1>11 DEF SInv, First

\* How the loops over the parity files move on, and what that means for Past.
LEMMA ParityLoop ==
    ASSUME TypeOK, pc \in {"parity", "rename"}, NextRow("parity", "meta")
    PROVE  /\ pc' \in {"parity", "meta"}
           /\ pc' = "meta" => row' = 1
           /\ \A i \in Rows : i # row => (Past(i)' <=> Past(i))
           /\ Past(row) = FALSE
           /\ \A i \in Rows : i = row => Past(i)'
<1>1. row \in 1..M /\ M \in Nat \ {0}
  BY EncoderAssumption DEF TypeOK, Rows
<1>. QED  BY <1>1, EncoderAssumption DEF NextRow, Past, Rows

LEMMA AppendParityStep ==
    ASSUME TypeOK, SInv, AppendParity
    PROVE  SInv'
<1> USE EncoderAssumption
<1>1. /\ pc = "parity" /\ disk_no = 1
      /\ UNCHANGED <<kfile, stage, disk_no, n, readins, init, coding>>
      /\ row \in Rows
      /\ NextRow("parity", "meta")
  BY DEF AppendParity, TypeOK
<1>2. Running /\ First /\ n \in 1..2
  BY <1>1 DEF SInv, Running
<1>3. pc' # "idle" /\ pc' \in {"parity", "meta"} /\ (pc' = "meta" => row' = 1)
  BY <1>1, ParityLoop
<1>4. Stored' = Stored /\ Old' = Old /\ New' = New
  BY <1>1, <1>3, SumsStay
<1>5. mfile'[row] = Append(mfile[row], New) /\ New \in Block
  BY <1>1, <1>2 DEF AppendParity, TypeOK, First
<1>6. Holds(mfile'[row], n, New)
  <2>1. Holds(mfile[row], n - 1, New)
    BY <1>1, <1>2, ParityLoop DEF First
  <2>2. mfile[row] \in Seq(Block)
    BY <1>1 DEF TypeOK
  <2>. QED  BY <1>2, <1>5, <2>1, <2>2, AppendedFile DEF Holds
<1>7. \A i \in Rows : i # row => mfile'[i] = mfile[i]
  BY <1>1 DEF AppendParity, TypeOK
<1>8. First'
  <2>1. ASSUME NEW i \in Rows
        PROVE  Holds(mfile'[i], IF Past(i)' THEN n ELSE n - 1, New)
    <3>1. CASE i = row
      BY <3>1, <1>1, <1>6, ParityLoop
    <3>2. CASE i # row
      BY <3>2, <1>1, <1>2, <1>7, ParityLoop DEF First
    <3>. QED  BY <3>1, <3>2
  <2>. QED  BY <1>1, <1>2, <1>3, <1>4, <2>1 DEF First, Holds
<1>9. KInvariant' /\ Running'
  BY <1>1, <1>2, <1>3, <1>4 DEF SInv, KInvariant, Running, Holds
<1>. QED  BY <1>1, <1>3, <1>8, <1>9 DEF SInv

LEMMA AppendStageStep ==
    ASSUME TypeOK, SInv, AppendStage
    PROVE  SInv'
<1> USE EncoderAssumption
<1>1. /\ pc = "parity" /\ disk_no > 1 /\ disk_no # 1
      /\ UNCHANGED <<kfile, mfile, disk_no, n, readins, init, coding>>
      /\ row \in Rows /\ disk_no \in Nat
  BY DEF AppendStage, TypeOK
<1>2. Running /\ Later /\ n \in 1..2
  BY <1>1 DEF SInv, Running
<1>3. Holds(stage[row], n - 1, New) /\ ~Past(row) /\ coding[row] = New
  BY <1>1, <1>2 DEF Later, Past, TypeOK, Rows
<1>4. stage'[row] = Append(stage[row], New) /\ New \in Block
      /\ stage[row] \in Seq(Block)
  BY <1>1, <1>3 DEF AppendStage, TypeOK
<1>5. Holds(stage'[row], n, New)
  BY <1>2, <1>3, <1>4, AppendedFile DEF Holds
<1>6. \A i \in Rows : i # row => stage'[i] = stage[i]
  BY <1>1 DEF AppendStage, TypeOK
<1>7. CASE n = 1
  <2>1. NextRow("parity", "meta")
    BY <1>3, <1>7 DEF AppendStage, FullStage, Holds
  <2>2. pc' # "idle" /\ pc' \in {"parity", "meta"} /\ (pc' = "meta" => row' = 1)
    BY <1>1, <2>1, ParityLoop
  <2>3. Stored' = Stored /\ Old' = Old /\ New' = New
    BY <1>1, <2>2, SumsStay
  <2>4. ASSUME NEW i \in Rows
        PROVE  Holds(stage'[i], IF Past(i)' THEN 1 ELSE 0, New)
    <3>1. CASE i = row
      BY <3>1, <1>1, <1>5, <1>7, <2>1, ParityLoop
    <3>2. CASE i # row
      BY <3>2, <1>1, <1>2, <1>6, <1>7, <2>1, ParityLoop DEF Later
    <3>. QED  BY <3>1, <3>2
  <2>5. Later'
    BY <1>1, <1>2, <1>7, <2>2, <2>3, <2>4 DEF Later, Holds
  <2>6. KInvariant' /\ Running'
    BY <1>1, <1>2, <2>2, <2>3 DEF SInv, KInvariant, Running, Holds
  <2>. QED  BY <1>1, <2>2, <2>5, <2>6 DEF SInv
<1>8. CASE n = 2
  <2>1. pc' = "rename" /\ row' = row
    BY <1>3, <1>8 DEF AppendStage, FullStage, Holds
  <2>2. Stored' = Stored /\ Old' = Old /\ New' = New
    BY <1>1, <2>1, SumsStay
  <2>3. \A i \in Rows : Past(i)' <=> Past(i)
    BY <1>1, <2>1 DEF Past
  <2>4. Later'
    <3>1. ASSUME NEW i \in Rows, ~Past(i)
          PROVE  Holds(mfile[i], 2, Old)
                 /\ Holds(stage'[i], IF i = row THEN 2 ELSE 1, New)
      BY <1>1, <1>2, <1>5, <1>6, <1>8, <3>1 DEF Later
    <3>2. ASSUME NEW i \in Rows, Past(i)
          PROVE  stage'[i] = <<>> /\ Holds(mfile[i], 2, New)
      BY <1>2, <1>3, <1>6, <1>8, <3>2 DEF Later
    <3>3. \A i \in Rows : coding[i] = New
      BY <1>1, <1>2 DEF Later
    <3>. QED
      BY <1>1, <1>2, <1>8, <2>1, <2>2, <2>3, <3>1, <3>2, <3>3 DEF Later, Holds
  <2>5. KInvariant' /\ Running'
    BY <1>1, <1>2, <2>1, <2>2 DEF SInv, KInvariant, Running, Holds
  <2>. QED  BY <1>1, <2>1, <2>4, <2>5 DEF SInv
<1>. QED  BY <1>2, <1>7, <1>8

LEMMA RenameStep ==
    ASSUME TypeOK, SInv, RenameStage
    PROVE  SInv'
<1> USE EncoderAssumption
<1>1. /\ pc = "rename" /\ row \in Rows
      /\ UNCHANGED <<kfile, disk_no, n, readins, init, coding>>
      /\ NextRow("parity", "meta")
      /\ mfile'[row] = stage[row] /\ stage'[row] = <<>>
      /\ \A i \in Rows : i # row => mfile'[i] = mfile[i] /\ stage'[i] = stage[i]
  BY DEF RenameStage, TypeOK
<1>2. Running /\ Later /\ n = 2 /\ disk_no # 1
  BY <1>1 DEF SInv, Later, First
<1>3. pc' # "idle" /\ pc' \in {"parity", "meta"} /\ (pc' = "meta" => row' = 1)
  BY <1>1, ParityLoop
<1>4. Stored' = Stored /\ Old' = Old /\ New' = New
  BY <1>1, <1>3, SumsStay
<1>5. Holds(stage[row], 2, New) /\ ~Past(row)
  BY <1>1, <1>2, ParityLoop DEF Later
<1>6. ASSUME NEW i \in Rows
      PROVE  IF Past(i)' THEN stage'[i] = <<>> /\ Holds(mfile'[i], 2, New)
             ELSE Holds(mfile'[i], 2, Old) /\ Holds(stage'[i], 1, New)
  <2>1. CASE i = row
    BY <2>1, <1>1, <1>5, ParityLoop
  <2>2. CASE i # row
    BY <2>2, <1>1, <1>2, ParityLoop DEF Later
  <2>. QED  BY <2>1, <2>2
<1>7. Later'
  BY <1>1, <1>2, <1>3, <1>4, <1>6 DEF Later, Holds
<1>8. KInvariant' /\ Running'
  BY <1>1, <1>2, <1>3, <1>4 DEF SInv, KInvariant, Running, Holds
<1>. QED  BY <1>2, <1>1, <1>3, <1>7, <1>8 DEF SInv

LEMMA WriteMetaStep ==
    ASSUME TypeOK, SInv, WriteMeta
    PROVE  SInv'
<1> USE EncoderAssumption
<1>1. /\ pc = "meta" /\ disk_no \in Disks
      /\ UNCHANGED <<kfile, mfile, stage, disk_no, readins, row, init, coding>>
      /\ n' = n + 1
      /\ pc' = IF n < readins THEN LoopHead(disk_no) ELSE "idle"
  BY DEF WriteMeta, TypeOK
<1>2. Running /\ (First \/ Later) /\ n \in 1..2 /\ readins = 2 /\ row = 1
  BY <1>1 DEF SInv, Running
<1>3. CASE n = 1
  <2>1. /\ pc' = IF disk_no > 1 THEN "load" ELSE "encode"
        /\ pc' # "idle" /\ n' = 2 /\ disk_no \in Nat \ {0}
    BY <1>1, <1>2, <1>3 DEF LoopHead
  <2>2. Stored' = Stored /\ Old' = Old /\ New' = New
    BY <1>1, <2>1, SumsStay
  <2>. \A i \in Rows : Past(i) /\ ~Past(i)' /\ ~(i < row')
    BY <1>1, <1>2, <2>1 DEF Past, Rows
  <2>3. ASSUME disk_no = 1, First PROVE First'
    <3>1. \A i \in Rows : stage[i] = <<>> /\ Holds(mfile[i], 1, New)
      BY <1>3, <2>3 DEF First
    <3>. QED  BY <1>1, <2>1, <2>2, <2>3, <3>1 DEF First, Holds
  <2>4. ASSUME disk_no # 1, Later PROVE Later'
    <3>1. \A i \in Rows : Holds(mfile[i], 2, Old) /\ Holds(stage[i], 1, New)
      BY <1>3, <2>4 DEF Later
    <3>2. pc' = "load"
      BY <2>1, <2>4
    <3>. QED  BY <1>1, <2>1, <2>2, <2>4, <3>1, <3>2 DEF Later, Holds
  <2>5. KInvariant' /\ Running'
    BY <1>1, <1>2, <1>3, <2>1, <2>2 DEF SInv, KInvariant, Running, Holds
  <2>. QED  BY <1>1, <1>2, <2>1, <2>3, <2>4, <2>5 DEF SInv, First
<1>4. CASE n = 2
  <2>1. pc' = "idle"
    BY <1>1, <1>2, <1>4
  <2>2. Holds(kfile[disk_no], 2, {<<disk_no, 1>>}) /\ kfile[disk_no] # <<>>
    BY <1>1, <1>2, <1>4 DEF Running, Holds
  <2>3. Stored' = Stored \cup {disk_no}
    BY <1>1, <2>1, <2>2 DEF Stored
  <2>4. Old' = New
    BY <2>3 DEF Old, New
  <2>5. \A i \in Rows : stage[i] = <<>> /\ Holds(mfile[i], 2, New)
    BY <1>1, <1>2, <1>4 DEF First, Later, Past, Holds
  <2>6. Idle'
    BY <1>1, <2>3, <2>4, <2>5 DEF Idle, AtRest, Holds
  <2>7. KInvariant'
    <3>1. \A d \in Stored' : Holds(kfile'[d], 2, {<<d, 1>>})
      BY <1>1, <2>2, <2>3 DEF SInv, KInvariant
    <3>2. 1 \in Stored'
      BY <1>1, <1>2, <2>3 DEF SInv, KInvariant, Later
    <3>. QED  BY <3>1, <3>2 DEF KInvariant, Holds
  <2>. QED  BY <2>1, <2>6, <2>7 DEF SInv
<1>. QED  BY <1>2, <1>3, <1>4

\* Every step but a kill keeps the invariant.
LEMMA PlainStep ==
    PlainRuns /\ TypeOK /\ SInv /\ (Next \/ UNCHANGED vars) /\ crashes' = crashes => SInv'
<1> SUFFICES ASSUME PlainRuns, TypeOK, SInv, Next \/ UNCHANGED vars, crashes' = crashes
             PROVE  SInv'
  OBVIOUS
<1>1. CASE UNCHANGED vars
  <2>1. Stored' = Stored
    BY <1>1 DEF vars, files, locals, Stored
  <2>2. Old' = Old /\ New' = New
    BY <1>1, <2>1 DEF vars, files, locals, Old, New
  <2>. QED
    BY <1>1, <2>1, <2>2 DEF vars, files, locals, SInv, KInvariant, Idle, AtRest,
       Running, First, Looking, Later, Holds, Past
<1>2. ~Crash
  BY DEF Crash, TypeOK
<1>3. CASE Next
  BY <1>2, <1>3, StartStep, LoadRowStep, LoadFailsStep, EncodeStep,
     AppendParityStep, AppendStageStep, RenameStep, WriteMetaStep
  DEF Next, EncoderStep
<1>. QED  BY <1>1, <1>3

\* No parity file is lost by a run.
LEMMA AllThereStep ==
    ASSUME PlainRuns, TypeOK, SInv, SInv', AllThere, [Next]_vars, crashes' = crashes
    PROVE  AllThere'
<1> USE EncoderAssumption
<1>1. CASE UNCHANGED vars
  BY <1>1 DEF vars, files, locals, Stored, AllThere
<1>2. CASE Stored' = Stored /\ UNCHANGED mfile
  BY <1>2 DEF AllThere
<1>3. ASSUME NEW d \in Disks, NEW r \in ReadIns, Start(d, r) PROVE AllThere'
  <2>1. Stored' = Stored /\ UNCHANGED mfile
    BY <1>3 DEF Start, PlainRuns, Stored, files
  <2>. QED  BY <1>2, <2>1
<1>4. CASE LoadRow
  BY <1>2, <1>4 DEF LoadRow, NextRow, files, Stored
<1>5. CASE LoadFails
  <2>1. kfile[disk_no] = <<>>
    BY <1>5, FailsLooking DEF Running, Holds, LoadFails, TypeOK
  <2>. QED  BY <1>2, <1>5, <2>1 DEF LoadFails, files, locals, Stored
<1>6. CASE EncodeAppendK
  <2>1. Stored' = Stored
    BY <1>6 DEF EncodeAppendK, Stored, TypeOK
  <2>. QED  BY <1>2, <1>6, <2>1 DEF EncodeAppendK
<1>7. CASE pc' # "idle" /\ SInv' /\ disk_no' = 1
  BY <1>7 DEF SInv, First, AllThere
<1>8. CASE pc' # "idle" /\ SInv' /\ disk_no' # 1 /\ pc' # "load"
  <2>1. Later'
    BY <1>8 DEF SInv
  <2>. QED  BY <2>1 DEF Later, AllThere, Holds
<1>9. CASE AppendParity \/ AppendStage \/ RenameStage
  <2>1. pc' # "idle" /\ pc' # "load"
    BY <1>9 DEF AppendParity, AppendStage, RenameStage, NextRow
  <2>. QED  BY <1>7, <1>8, <2>1
<1>10. CASE WriteMeta
  <2>1. pc = "meta" /\ UNCHANGED mfile /\ Running /\ (First \/ Later) /\ row = 1
    BY <1>10 DEF WriteMeta, SInv, Running
  <2>2. CASE pc' = "idle"
    <3>1. n = 2
      BY <1>10, <2>1, <2>2 DEF WriteMeta, Running, LoopHead
    <3>2. \A i \in Rows : Holds(mfile[i], 2, New)
      BY <2>1, <3>1 DEF First, Later, Past
    <3>. QED  BY <2>1, <3>2 DEF AllThere, Holds
  <2>3. CASE pc' # "idle"
    <3>1. Stored' = Stored
      BY <1>10, <2>1, <2>3 DEF WriteMeta, Stored
    <3>. QED  BY <1>2, <2>1, <3>1
  <2>. QED  BY <2>2, <2>3
<1>11. ~Crash
  BY DEF Crash, TypeOK
<1>. QED
  BY <1>1, <1>3, <1>4, <1>5, <1>6, <1>9, <1>10, <1>11 DEF Next, EncoderStep

LEMMA SInvInvariant ==
    ASSUME Supported PROVE Spec => [](SInv /\ AllThere)
<1>1. Init => AllThere
  BY DEF Init, AllThere, Stored
<1>2. TypeOK /\ [Next]_vars => crashes' = crashes
  BY EncoderAssumption DEF Supported, TypeOK, Next, EncoderStep, Start, LoadRow, LoadFails,
     EncodeAppendK, AppendParity, AppendStage, RenameStage, WriteMeta, Crash, vars
<1>3. TypeOK /\ SInv /\ AllThere /\ [Next]_vars => SInv' /\ AllThere'
  BY <1>2, PlainStep, AllThereStep DEF Supported
<1>. QED  BY <1>1, <1>3, InitSInv, TypeCorrect, PTL DEF Spec

\* Between runs all parity files hold, block by block, the sum of all k files
\* and nothing is staged, for every set of disks and every m.
THEOREM ParityConsistentHolds ==
    ASSUME Supported PROVE Spec => []ParityConsistent
<1>1. TypeOK /\ SInv /\ AllThere => ParityConsistent
  <2> SUFFICES ASSUME TypeOK, SInv, AllThere, pc = "idle", NEW i \in Rows
               PROVE  /\ stage[i] = <<>>
                      /\ \A d \in Disks : Len(kfile[d]) <= Len(mfile[i])
                      /\ \A b \in 1..Len(mfile[i]) :
                            mfile[i][b] = StripeBlock(b)
    BY DEF ParityConsistent
  <2>1. Stored = {d \in Disks : kfile[d] # <<>>}
    BY DEF Stored
  <2>2. Idle /\ KInvariant
    BY DEF SInv
  <2>3. \A d \in Disks \ Stored : Len(kfile[d]) = 0
    BY <2>1
  <2>4. CASE Stored = {}
    BY <2>2, <2>3, <2>4 DEF Idle, AtRest
  <2>5. CASE Stored # {}
    <3>1. stage[i] = <<>> /\ Len(mfile[i]) = 2
          /\ \A b \in 1..2 : mfile[i][b] = Old
      BY <2>2, <2>5 DEF Idle, AtRest, AllThere, Holds
    <3>2. \A d \in Stored : Len(kfile[d]) = 2
      BY <2>2 DEF KInvariant, Holds
    <3>3. ASSUME NEW b \in 1..2 PROVE StripeBlock(b) = Old
      <4>1. {e \in Disks : b <= Len(kfile[e])} = Stored
        BY <2>1, <2>3, <3>2
      <4>2. \A d \in Stored : kfile[d][b] = {<<d, 1>>}
        BY <2>2 DEF KInvariant, Holds
      <4>. QED  BY <4>1, <4>2 DEF StripeBlock, Old
    <3>4. ASSUME NEW d \in Disks PROVE Len(kfile[d]) <= Len(mfile[i])
      <4>1. CASE d \in Stored
        <5>1. Len(kfile[d]) = 2
          BY <3>2, <4>1
        <5>2. Len(mfile[i]) = 2
          BY <3>1
        <5>. QED  BY <5>1, <5>2
      <4>2. CASE d \notin Stored
        <5>1. Len(kfile[d]) = 0
          BY <2>3, <4>2
        <5>. QED  BY <3>1, <5>1
      <4>. QED  BY <4>1, <4>2
    <3>5. \A b \in 1..Len(mfile[i]) : mfile[i][b] = StripeBlock(b)
      BY <3>1, <3>3
    <3>. QED  BY <3>1, <3>4, <3>5
  <2>. QED  BY <2>4, <2>5
<1>. QED  BY <1>1, SInvInvariant, TypeCorrect, PTL

-----------------------------------------------------------------------------
(***************************************************************************)
(* The refinement of ParityStore.  Every step of the encoder is a step of  *)
(* the abstract store or leaves it alone; the invariant says which sets of *)
(* disks the parity files stand for.                                       *)
(***************************************************************************)
Constantly(S) == [b \in 1..FullStage |-> S]

LEMMA WholeRow ==
    ASSUME NEW i, NEW B, Holds(mfile[i], 2, B)
    PROVE  ParityOf(i) = Constantly(DisksIn(B))
BY DEF Holds, ParityOf, FullStage, Constantly

LEMMA PartRow ==
    ASSUME NEW i, Len(mfile[i]) # 2
    PROVE  ParityOf(i) = Constantly({})
BY DEF ParityOf, FullStage, Constantly

LEMMA DisksInSums ==
    DisksIn(Old) = Stored /\ DisksIn(New) = Stored \cup {disk_no}
<1>1. ASSUME NEW S PROVE DisksIn({<<d, 1>> : d \in S}) = S
  <2>1. ASSUME NEW d \in S PROVE d \in DisksIn({<<e, 1>> : e \in S})
    <3>1. <<d, 1>>[1] = d /\ <<d, 1>> \in {<<e, 1>> : e \in S}
      OBVIOUS
    <3>. QED  BY <3>1 DEF DisksIn
  <2>2. ASSUME NEW x \in DisksIn({<<e, 1>> : e \in S}) PROVE x \in S
    <3>1. PICK t \in {<<e, 1>> : e \in S} : x = t[1]
      BY DEF DisksIn
    <3>. QED  BY <3>1
  <2>. QED  BY <2>1, <2>2
<1>2. New = {<<d, 1>> : d \in Stored \cup {disk_no}}
  BY DEF New, Old
<1>. QED  BY <1>1, <1>2 DEF Old

\* Steps that keep the parity files and the running disk.
LEMMA Stutters ==
    ASSUME UNCHANGED <<mfile, Joining>>
    PROVE  UNCHANGED Promise!vars
BY DEF Promise!vars, ParityOf

\* What the parity files of a store at rest stand for.
LEMMA IdleRows ==
    ASSUME Idle, AllThere, NEW i \in Rows
    PROVE  ParityOf(i) = Constantly(Stored)
<1>1. CASE Stored = {}
  BY <1>1, PartRow DEF Idle, AtRest
<1>2. CASE Stored # {}
  BY <1>2, WholeRow, DisksInSums DEF Idle, AtRest, AllThere
<1>. QED  BY <1>1, <1>2

LEMMA StartRefines ==
    ASSUME TypeOK, SInv, AllThere, NEW d \in Disks, NEW r \in ReadIns, Start(d, r),
           Supported
    PROVE  Promise!Begin(d)
<1>1. /\ pc = "idle" /\ pc' # "idle" /\ disk_no' = d /\ mfile' = mfile
      /\ kfile[d] = <<>> /\ Idle
  BY DEF Start, files, Supported, PlainRuns, SInv, LoopHead
<1>2. d \notin Stored
  BY <1>1 DEF Stored
<1>3. \A i \in Rows : ParityOf(i) = Constantly(Stored)
  BY <1>1, IdleRows
<1>4. \A i \in Rows : \A b \in 1..FullStage :
         d \notin [j \in Rows |-> ParityOf(j)][i][b]
  BY <1>2, <1>3 DEF Constantly
<1>5. [i \in Rows |-> ParityOf(i)]' = [i \in Rows |-> ParityOf(i)]
  BY <1>1 DEF ParityOf
<1>. QED
  BY <1>1, <1>4, <1>5 DEF Promise!Begin, Promise!Untouched, Joining

LEMMA LoadFailsRefines ==
    ASSUME TypeOK, SInv, AllThere, LoadFails
    PROVE  Promise!Refused
<1> USE EncoderAssumption
<1>1. /\ pc = "load" /\ pc' = "idle" /\ mfile' = mfile
      /\ disk_no \in Disks /\ disk_no # 0 /\ row \in Rows
  BY DEF LoadFails, files, TypeOK
<1>2. Looking /\ mfile[row] = <<>>
  BY FailsLooking
<1>3. Stored = {}
  BY <1>1, <1>2 DEF AllThere
<1>4. \A i \in Rows : ParityOf(i) = Constantly({})
  BY <1>2, <1>3, PartRow DEF Looking, AtRest
<1>5. [i \in Rows |-> ParityOf(i)]' = [i \in Rows |-> ParityOf(i)]
  BY <1>1 DEF ParityOf
<1>. QED
  BY <1>1, <1>4, <1>5
  DEF Promise!Refused, Promise!Untouched, Joining, Constantly

\* A row that goes from the old sum to the new one.
LEMMA RowSwitches ==
    ASSUME NEW i \in Rows, pc # "idle", disk_no # 0, disk_no \notin Stored,
           Joining' = Joining,
           \A j \in Rows : j # i => mfile'[j] = mfile[j],
           ParityOf(i) = Constantly(Stored),
           ParityOf(i)' = Constantly(Stored \cup {disk_no})
    PROVE  Promise!Switch(i)
<1>1. \A j \in Rows : j # i => ParityOf(j)' = ParityOf(j)
  BY DEF ParityOf
<1>2. [j \in Rows |-> ParityOf(j)]' =
        [[j \in Rows |-> ParityOf(j)] EXCEPT ![i] =
            [b \in 1..FullStage |->
               [j \in Rows |-> ParityOf(j)][i][b] \cup {Joining}]]
  BY <1>1 DEF Constantly, Joining
<1>3. \A b \in 1..FullStage :
         Joining \notin [j \in Rows |-> ParityOf(j)][i][b]
  BY DEF Constantly, Joining
<1>4. Joining # 0
  BY DEF Joining
<1>. QED  BY <1>2, <1>3, <1>4 DEF Promise!Switch, Promise!Untouched

LEMMA AppendParityRefines ==
    ASSUME TypeOK, SInv, SInv', AppendParity
    PROVE  [Promise!Next]_(Promise!vars)
<1> USE EncoderAssumption
<1>1. PICK i \in Rows : i = row
  BY DEF TypeOK
<1>2. /\ pc = "parity" /\ disk_no = 1 /\ disk_no' = 1
      /\ UNCHANGED <<kfile, n>>
      /\ NextRow("parity", "meta")
      /\ mfile'[i] = Append(mfile[i], coding[i])
      /\ mfile[i] \in Seq(Block) /\ coding[i] \in Block
      /\ \A j \in Rows : j # i => mfile'[j] = mfile[j]
  BY <1>1 DEF AppendParity, TypeOK
<1>3. First /\ Running /\ n \in 1..2 /\ Stored = {}
  BY <1>2 DEF SInv, Running, First
<1>4. pc' # "idle" /\ Joining' = Joining /\ Stored' = Stored
  BY <1>2, ParityLoop DEF Joining, Stored
<1>5. Past(i)' /\ ~Past(i)
  BY <1>1, <1>2, ParityLoop
<1>6. Len(mfile[i]) = n - 1 /\ Len(mfile'[i]) = n
  <2>1. Len(mfile[i]) = n - 1
    BY <1>3, <1>5 DEF First, Holds
  <2>. QED  BY <1>2, <1>3, <2>1, AppendedFile
<1>7. CASE n = 1
  <2>1. ParityOf(i)' = ParityOf(i)
    BY <1>6, <1>7 DEF ParityOf, FullStage
  <2>2. \A j \in Rows : ParityOf(j)' = ParityOf(j)
    BY <1>2, <2>1 DEF ParityOf
  <2>. QED  BY <1>4, <2>2 DEF Promise!vars
<1>8. CASE n = 2
  <2>1. First'
    BY <1>2, <1>4 DEF SInv
  <2>2. Holds(mfile[i], 2, New)'
    BY <1>2, <1>5, <1>8, <2>1 DEF First
  <2>3. ParityOf(i)' = Constantly(DisksIn(New)')
    BY <2>2 DEF Holds, ParityOf, FullStage, Constantly, DisksIn
  <2>4. New' = New
    BY <1>2, <1>4 DEF New, Old
  <2>5. DisksIn(New)' = Stored \cup {disk_no}
    BY <2>4, DisksInSums DEF DisksIn
  <2>6. ParityOf(i) = Constantly(Stored)
    BY <1>3, <1>6, <1>8, PartRow
  <2>7. Promise!Switch(i)
    BY <1>2, <1>3, <1>4, <2>3, <2>5, <2>6, RowSwitches
  <2>. QED  BY <2>7 DEF Promise!Next
<1>. QED  BY <1>3, <1>7, <1>8

LEMMA RenameRefines ==
    ASSUME TypeOK, SInv, RenameStage
    PROVE  [Promise!Next]_(Promise!vars)
<1> USE EncoderAssumption
<1>1. PICK i \in Rows : i = row
  BY DEF TypeOK
<1>2. /\ pc = "rename" /\ disk_no' = disk_no
      /\ disk_no \in Disks /\ disk_no # 0
      /\ NextRow("parity", "meta")
      /\ mfile'[i] = stage[i]
      /\ \A j \in Rows : j # i => mfile'[j] = mfile[j]
  BY <1>1 DEF RenameStage, TypeOK
<1>3. Running /\ Later /\ n = 2
  BY <1>2 DEF SInv, Later, First
<1>4. pc' # "idle" /\ Joining' = Joining
  BY <1>2, ParityLoop DEF Joining
<1>5. Holds(stage[i], 2, New) /\ Holds(mfile[i], 2, Old)
  BY <1>1, <1>2, <1>3, ParityLoop DEF Later
<1>6. ParityOf(i) = Constantly(Stored)
  BY <1>5, WholeRow, DisksInSums
<1>7. ParityOf(i)' = Constantly(DisksIn(New))
  BY <1>2, <1>5 DEF Holds, ParityOf, FullStage, Constantly, DisksIn
<1>8. Promise!Switch(i)
  BY <1>2, <1>3, <1>4, <1>6, <1>7, DisksInSums, RowSwitches DEF Running
<1>. QED  BY <1>8 DEF Promise!Next

LEMMA WriteMetaRefines ==
    ASSUME TypeOK, SInv, WriteMeta
    PROVE  [Promise!Next]_(Promise!vars)
<1> USE EncoderAssumption
<1>1. /\ pc = "meta" /\ disk_no \in Disks /\ disk_no # 0 /\ mfile' = mfile
      /\ disk_no' = disk_no
      /\ pc' = IF n < readins THEN LoopHead(disk_no) ELSE "idle"
  BY DEF WriteMeta, TypeOK
<1>2. Running /\ (First \/ Later) /\ n \in 1..2 /\ readins = 2 /\ row = 1
  BY <1>1 DEF SInv, Running
<1>3. CASE n = 1
  BY <1>1, <1>2, <1>3, Stutters DEF Joining, LoopHead
<1>4. CASE n = 2
  <2>1. \A i \in Rows : Holds(mfile[i], 2, New)
    BY <1>1, <1>2, <1>4 DEF First, Later, Past
  <2>2. \A i \in Rows : ParityOf(i) = Constantly(Stored \cup {disk_no})
    BY <2>1, WholeRow, DisksInSums
  <2>3. [i \in Rows |-> ParityOf(i)]' = [i \in Rows |-> ParityOf(i)]
    BY <1>1 DEF ParityOf
  <2>4. Joining = disk_no /\ Joining' = 0
    BY <1>1, <1>2, <1>4 DEF Joining
  <2>5. Promise!Joined
    <3>1. \A i \in Rows : \A b \in 1..FullStage :
             disk_no \in [j \in Rows |-> ParityOf(j)][i][b]
      BY <2>2 DEF Constantly
    <3>. QED
      BY <1>1, <2>3, <2>4, <3>1 DEF Promise!Joined, Promise!Protects
  <2>. QED  BY <2>5 DEF Promise!Next
<1>. QED  BY <1>2, <1>3, <1>4

\* The encoder implements the abstract parity store: a row changes from one
\* set of disks to the next in a single step, no row loses a disk, and a run
\* ends with its disk in every row or in none.
THEOREM Refinement ==
    ASSUME Supported PROVE Spec => ImplementsParityStore
<1>1. Init => Promise!Init
  BY DEF Init, Promise!Init, ParityOf, Joining, FullStage
<1>2. TypeOK /\ SInv /\ AllThere /\ SInv' /\ [Next]_vars
        => [Promise!Next]_(Promise!vars)
  <2> SUFFICES ASSUME TypeOK, SInv, AllThere, SInv', [Next]_vars
               PROVE  [Promise!Next]_(Promise!vars)
    OBVIOUS
  <2>1. ASSUME NEW d \in Disks, NEW r \in ReadIns, Start(d, r)
        PROVE  Promise!Next
    BY <2>1, StartRefines DEF Promise!Next
  <2>2. CASE LoadRow
    <3>1. pc # "idle" /\ pc' # "idle" /\ UNCHANGED <<disk_no, mfile>>
      BY <2>2 DEF LoadRow, NextRow, files
    <3>. QED  BY <3>1, Stutters DEF Joining
  <2>3. CASE LoadFails
    BY <2>3, LoadFailsRefines DEF Promise!Next
  <2>4. CASE EncodeAppendK
    BY <2>4, Stutters DEF EncodeAppendK, Joining
  <2>5. CASE AppendParity
    BY <2>5, AppendParityRefines
  <2>6. CASE AppendStage
    <3>1. pc # "idle" /\ pc' # "idle" /\ UNCHANGED <<disk_no, mfile>>
      BY <2>6 DEF AppendStage, NextRow
    <3>. QED  BY <3>1, Stutters DEF Joining
  <2>7. CASE RenameStage
    BY <2>7, RenameRefines
  <2>8. CASE WriteMeta
    BY <2>8, WriteMetaRefines
  <2>9. CASE Crash
    BY <2>9 DEF Crash, Supported, TypeOK
  <2>10. CASE UNCHANGED vars
    BY <2>10, Stutters DEF vars, files, locals, Joining
  <2>. QED
    BY <2>1, <2>2, <2>3, <2>4, <2>5, <2>6, <2>7, <2>8, <2>9, <2>10
    DEF Next, EncoderStep
<1>. QED
  BY <1>1, <1>2, SInvInvariant, TypeCorrect, PTL
  DEF Spec, ImplementsParityStore, Promise!Spec
=============================================================================
