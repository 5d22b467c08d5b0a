--------------------------- MODULE PositionalStore ---------------------------
(***************************************************************************)
(* The forks of the coder that keep one log per parity row, where the      *)
(* position of a block says which disk and read-in it belongs to:          *)
(*                                                                         *)
(*   "cauchy"  cauchy_encoder.c and cauchy_decoder.c: a run stores the     *)
(*             blocks of one disk and appends their parity, the other      *)
(*             disks taken as zero;                                        *)
(*   "ten"     encoder.c: one run does this for all disks in turn, with    *)
(*             the same data;                                              *)
(*   "incr"    cauchy_encoder_incr.c and cauchy_decoder_incr.c: as         *)
(*             "cauchy" with literal data, but disks after the first load  *)
(*             the old parity and append theirs to a staging file.         *)
(*                                                                         *)
(* A block is a sequence of bytes: NUL, Filler, Unset (memory nobody set)  *)
(* or a byte of the input or of the literal text.  Encoding a disk with    *)
(* all others zero gives, in row i, the multiple of its bytes by the       *)
(* coefficient the code in use has there: <<i, disk, coefficient, byte>>,  *)
(* and NUL for NUL.  (With packets it is the bytes at one place of all     *)
(* packets of a block that are multiplied; here they are one byte, and a   *)
(* coefficient other than one that multiplies packets is not one that      *)
(* multiplies words.  None is zero.)  A log is a sequence of blocks.       *)
(***************************************************************************)
EXTENDS CoderSizes, Sequences, FiniteSets, SequencesExt

CONSTANTS Programs,     \* the forks, see above
          K, M,         \* data disks and parity rows
          IntSize,      \* sizeof(int)
          W, PacketSize,
          RunSizes,     \* sizes an input file may have
          BufferSizes,  \* buffer sizes the operator asks for
          Techniques,   \* coding techniques the operator asks for
          Coefficient(_, _, _), \* what a code multiplies by in a row for a disk
          NulAt,        \* positions of an input that hold a zero byte
          LiteralSize,  \* the block size 10 of "incr"
          DecoderBlock, \* the block size 320 of its decoder
          RenameSize,   \* 640, in blocks
          MaxCalls,     \* bound: runs of the encoder, for each fork
          MaxKilled,    \* bound: runs that are killed
          MaxLostRows   \* bound: parity files that get lost

ASSUME PositionalAssumption ==
    /\ K \in Nat \ {0} /\ M \in Nat \ {0} /\ W \in Nat \ {0}
    /\ IntSize \in Nat \ {0} /\ PacketSize \in Nat \ {0}
    /\ LiteralSize \in Nat /\ DecoderBlock \in Nat
    /\ "incr" \in Programs => LiteralSize % (W * PacketSize) = 0
    /\ RunSizes \subseteq Nat \ {0} /\ BufferSizes \subseteq Nat

PDisks == 1..K
Rows == 1..M

VARIABLES program,      \* which fork is used
          kfile,        \* logs of data blocks
          codes,        \* history: the code each data block was encoded with
          mfile,        \* logs of parity blocks
          stage,        \* staging files of "incr"
          metadata,     \* metadata file of each disk
          proc,         \* the running encoder
          result,       \* decoded files
          decoder,      \* history: the code and the rows they were decoded with
          log,          \* history: the runs so far
          lostrows,     \* rows whose parity file was lost
          replaced      \* history: rows whose parity was replaced by a staging file

pvars == <<program, kfile, codes, mfile, stage, metadata, proc, result, decoder, log,
           lostrows, replaced>>

------------------------------------------------------------------------------
(* Data *)

NUL    == <<"0 byte">>
Filler == <<"0">>
Unset  == <<"uninitialised">>
Behind == <<"memory behind a block">>

PArgs(buffersize, tech) == [k |-> K, m |-> M, w |-> W, packetsize |-> PacketSize,
                            buffersize |-> buffersize, tech |-> tech]

(* Which arguments the programs take.  encoder.c encodes with its own      *)
(* matrix, whatever technique it is given, and only in a field that        *)
(* jerasure_matrix_encode has.                                             *)
CauchyAccepts(a) == Accepted(IntSize, a)
IncrAccepts(a)   == Accepted(IntSize, a)
TenAccepts(a) ==
    a.tech \in {"no_coding", "reed_sol_van"} /\ a.w \in FieldSizes

(* Sizes.  encoder.c takes a single read-in as one block of the size of    *)
(* the input; "incr" overrides the number of read-ins and the block size.  *)
CauchyLayout(size, a) == Layout(size, IntSize, a)
TenLayout(size, a) ==
    IF SeveralReadIns(size, IntSize, a) THEN Layout(size, IntSize, a)
    ELSE [Layout(size, IntSize, a) EXCEPT !.blocksize = size]
IncrLayout(size, a) ==
    [Layout(size, IntSize, a) EXCEPT !.readins = 1, !.blocksize = LiteralSize]

InputByte(r, size, buffersize, p) ==
    IF p >= size THEN IF p < buffersize THEN Filler ELSE Unset
    ELSE IF p \in NulAt THEN NUL ELSE <<"input", r, p>>

(* The stored block is the first blocksize bytes of the n-th read-in; the  *)
(* rest of the read-in is dropped.                                         *)
CauchyBlock(r, l, size, n) ==
    LET total == (n - 1) * l.buffersize
    IN  [j \in 1..l.blocksize |->
            InputByte(r, size, n * l.buffersize, total + j - 1)]

(* encoder.c reads once, before its loop over the disks.                   *)
TenBlock(r, l, size) == CauchyBlock(r, l, size, 1)

(* "abcdefghij" for disk 1, "klmnopqrst" for disk 2, zeros for the others. *)
LiteralBlock(d) ==
    [j \in 1..LiteralSize |-> IF d \in {1, 2} THEN <<"literal", d, j>> ELSE NUL]

Parity(i, d, code, block) ==
    [j \in DOMAIN block |-> IF block[j] = NUL THEN NUL
                            ELSE <<i, d, Coefficient(code, i, d), block[j]>>]

------------------------------------------------------------------------------
(* The encoders *)

Resting == [pc |-> "rest"]
NoMetadata == [origsize |-> 0]
NoDecoder == [code |-> "none", rows |-> {}]

PositionalInit ==
    /\ program \in Programs
    /\ kfile = [d \in PDisks |-> <<>>]
    /\ codes = [d \in PDisks |-> <<>>]
    /\ mfile = [i \in Rows |-> <<>>]
    /\ stage = [i \in Rows |-> <<>>]
    /\ metadata = [d \in PDisks |-> NoMetadata]
    /\ proc = Resting
    /\ result = [d \in PDisks |-> <<>>]
    /\ decoder = NoDecoder
    /\ log = <<>>
    /\ lostrows = {}
    /\ replaced = {}

(* A run for disk d with arguments a, as it begins its loop.               *)
RunFor(d, size, a, layout, readins, pc) ==
    [pc |-> pc, disk |-> d, run |-> Len(log) + 1, n |-> 1, row |-> 1,
     size |-> size, tech |-> a.tech, layout |-> layout, readins |-> readins,
     coding |-> [i \in Rows |-> [j \in 1..layout.blocksize |-> Unset]]]

CauchyRun(d, size, a) ==
    LET l == CauchyLayout(size, a) IN RunFor(d, size, a, l, l.readins, "data")

(* encoder.c begins with disk 1 and goes through all of them.              *)
TenRun(size, a) == RunFor(1, size, a, TenLayout(size, a), K, "data")

IncrRun(d, size, a) ==
    LET l == IncrLayout(size, a)
    IN  RunFor(d, size, a, l, l.readins, IF d > 1 THEN "load" ELSE "data")

PStart(d, size, a) ==
    /\ proc.pc = "rest"
    /\ Len(log) < MaxCalls[program]
    /\ \/ program = "cauchy" /\ CauchyAccepts(a) /\ proc' = CauchyRun(d, size, a)
       \/ program = "ten" /\ d = 1 /\ TenAccepts(a) /\ proc' = TenRun(size, a)
       \/ program = "incr" /\ IncrAccepts(a) /\ proc' = IncrRun(d, size, a)
    /\ log' = Append(log, [disk |-> d, tech |-> a.tech, killed |-> FALSE])
    /\ UNCHANGED <<program, kfile, codes, mfile, stage, metadata, result, decoder,
                   lostrows, replaced>>

(* "incr", disks after the first: row by row, the old parity is read where *)
(* the staging file ends; a missing or short file ends the program.        *)
Offset(i) == Len(stage[i])

Readable(i) == Len(mfile[i]) > Offset(i)

LoadParity ==
    LET i == proc.row
    IN  /\ proc.pc = "load"
        /\ proc' = IF ~ Readable(i) THEN Resting
                   ELSE [proc EXCEPT
                           !.coding[i] = mfile[i][Offset(i) + 1],
                           !.row = IF i = M THEN 1 ELSE i + 1,
                           !.pc = IF i = M THEN "data" ELSE "load"]
        /\ UNCHANGED <<program, kfile, codes, mfile, stage, metadata, result,
                       decoder, log, lostrows, replaced>>

(* The disk and the data block of the current iteration.                   *)
CurrentDisk == IF program = "ten" THEN proc.n ELSE proc.disk
CurrentBlock ==
    CASE program = "cauchy" -> CauchyBlock(proc.run, proc.layout, proc.size, proc.n)
      [] program = "ten"    -> TenBlock(proc.run, proc.layout, proc.size)
      [] program = "incr"   -> LiteralBlock(proc.disk)

(* Whether coding[] is computed: encoder.c always does so, "incr" with one *)
(* technique only.                                                         *)
CauchyEncodes(tech) == tech # "no_coding"
IncrEncodes(tech) == tech = "cauchy_good"

Encodes(tech) ==
    CASE program = "cauchy" -> CauchyEncodes(tech)
      [] program = "ten"    -> TRUE
      [] program = "incr"   -> IncrEncodes(tech)

(* The code in use: encoder.c has a matrix of its own, the others that of  *)
(* their technique.                                                        *)
OwnMatrix == "3x10 matrix"
CurrentCode == IF program = "ten" THEN OwnMatrix ELSE proc.tech

(* Encoding.  A schedule copies the first packet of a row and adds the     *)
(* others to it, so the parity loaded before is overwritten.               *)
Coded(i) ==
    IF Encodes(proc.tech) THEN Parity(i, CurrentDisk, CurrentCode, CurrentBlock)
    ELSE proc.coding[i]

EncodeAppendData ==
    /\ proc.pc = "data"
    /\ kfile' = [kfile EXCEPT ![CurrentDisk] = Append(@, CurrentBlock)]
    /\ codes' = [codes EXCEPT ![CurrentDisk] = Append(@, CurrentCode)]
    /\ proc' = [proc EXCEPT !.pc = "parity", !.row = 1,
                            !.coding = [i \in Rows |-> Coded(i)]]
    /\ UNCHANGED <<program, mfile, stage, metadata, result, decoder, log, lostrows,
                   replaced>>

(* The file that takes a row: its parity file, or, for later disks of      *)
(* "incr", its staging file, whose size is looked at afterwards: when it   *)
(* has reached 640 bytes, it takes the place of the parity file.           *)
Staged == program = "incr" /\ proc.disk > 1

NextRow ==
    IF proc.row = M THEN [proc EXCEPT !.pc = "meta"]
    ELSE [proc EXCEPT !.pc = "parity", !.row = @ + 1]

(* A bug: parity files are opened for writing.                             *)
Mutant_AppendToParity(i) ==
    /\ mfile' = [mfile EXCEPT ![i] = <<proc.coding[i]>>]
    /\ proc' = NextRow
    /\ UNCHANGED stage

AppendToParity(i) ==
    /\ mfile' = [mfile EXCEPT ![i] = Append(@, proc.coding[i])]
    /\ proc' = NextRow
    /\ UNCHANGED stage

AppendToStage(i) ==
    /\ stage' = [stage EXCEPT ![i] = Append(@, proc.coding[i])]
    /\ proc' = IF Len(stage'[i]) = RenameSize THEN [proc EXCEPT !.pc = "rename"]
               ELSE NextRow
    /\ UNCHANGED mfile

AppendRow ==
    /\ proc.pc = "parity"
    /\ IF Staged THEN AppendToStage(proc.row) ELSE AppendToParity(proc.row)
    /\ UNCHANGED <<program, kfile, codes, metadata, result, decoder, log, lostrows,
                   replaced>>

RenameRow ==
    LET i == proc.row
    IN  /\ proc.pc = "rename"
        /\ mfile' = [mfile EXCEPT ![i] = stage[i]]
        /\ stage' = [stage EXCEPT ![i] = <<>>]
        /\ replaced' = replaced \cup {i}
        /\ proc' = NextRow
        /\ UNCHANGED <<program, kfile, codes, metadata, result, decoder, log, lostrows>>

(* Metadata, in every iteration: rewritten, by "incr" appended (and the    *)
(* decoder reads the first record).                                        *)
Record == [origsize |-> proc.size, newsize |-> proc.layout.newsize,
           buffersize |-> proc.layout.buffersize, tech |-> proc.tech]

CauchyMetadata(old) == Record
IncrMetadata(old) == IF old = NoMetadata THEN Record ELSE old

WriteMetadata ==
    /\ proc.pc = "meta"
    /\ metadata' = [metadata EXCEPT ![CurrentDisk] =
                       IF program = "incr" THEN IncrMetadata(@) ELSE CauchyMetadata(@)]
    /\ proc' = IF proc.n < proc.readins
               THEN [proc EXCEPT !.pc = "data", !.n = @ + 1]
               ELSE Resting
    /\ UNCHANGED <<program, kfile, codes, mfile, stage, result, decoder, log,
                   lostrows, replaced>>

KilledRuns == Cardinality({r \in DOMAIN log : log[r].killed})

KillEncoder ==
    /\ proc.pc # "rest"
    /\ KilledRuns < MaxKilled
    /\ proc' = Resting
    /\ log' = [log EXCEPT ![Len(log)].killed = TRUE]
    /\ UNCHANGED <<program, kfile, codes, mfile, stage, metadata, result, decoder,
                   lostrows, replaced>>

------------------------------------------------------------------------------
(* The decoders: data disks are never read, but taken as erased or zero.   *)

(* cauchy_decoder.c treats disk 1 as erased, cauchy_decoder_incr.c 1 and 2.*)
ErasedDisks == IF program = "incr" THEN {1, 2} \cap PDisks ELSE {1}

(* Block size of cauchy_decoder.c: not that of the encoder when there is a *)
(* single read-in.                                                         *)
CauchyDecoderBlock(mt) ==
    IF mt.buffersize # mt.origsize THEN mt.buffersize \div K ELSE mt.newsize

(* A bug: read-ins are counted from zero.                                  *)
Mutant_RowBytes(i, size, n) ==
    LET bytes == FlattenSeq(mfile[i])
    IN  [j \in 1..size |-> IF size * n + j <= Len(bytes)
                           THEN bytes[size * n + j] ELSE Unset]

(* Bytes of a row read for the n-th read-in, as one sequence.              *)
RowBytes(i, size, n) ==
    LET bytes == FlattenSeq(mfile[i])
    IN  [j \in 1..size |-> IF size * (n-1) + j <= Len(bytes)
                           THEN bytes[size * (n-1) + j] ELSE Unset]

Intact == Rows \ lostrows
UsedRows == {r \in Intact :
                Cardinality({s \in Intact : s < r}) < Cardinality(ErasedDisks)}

(* Byte j of the erased disk d, decoded with the given code: the rows are  *)
(* all zero, or the bytes of one disk times the coefficients of this code, *)
(* else what comes out is something else.                                  *)
Solved(d, code, size, n, j) ==
    LET bytes == [r \in UsedRows |-> RowBytes(r, size, n)[j]]
        zero  == \A r \in UsedRows : bytes[r] = NUL
        Of(e) == {r \in UsedRows : /\ Len(bytes[r]) = 4 /\ bytes[r][2] = e
                                   /\ bytes[r][3] = Coefficient(code, r, e)}
    IN  IF zero THEN NUL
        ELSE IF \E e \in ErasedDisks : Of(e) = UsedRows
                    /\ Cardinality({bytes[r][4] : r \in UsedRows}) = 1
        THEN LET e == CHOOSE e \in ErasedDisks : Of(e) = UsedRows
             IN  IF d = e THEN bytes[CHOOSE r \in UsedRows : TRUE][4] ELSE NUL
        ELSE Unset

Solution(d, code, size, n) == [j \in 1..size |-> Solved(d, code, size, n, j)]

UpToNul(s) ==
    LET ends == {j \in DOMAIN s : s[j] = NUL}
    IN  IF ends = {} THEN s
        ELSE SubSeq(s, 1, (CHOOSE j \in ends : \A i \in ends : j <= i) - 1)

(* cauchy_decoder.c decodes the first block and writes strlen of its       *)
(* bytes: up to a zero, and when there is none what follows in memory.     *)
DecodeCauchy(d) ==
    LET data == Solution(1, metadata[d].tech, CauchyDecoderBlock(metadata[d]), 1)
    IN  /\ program = "cauchy"
        /\ \E more \in {<<>>, <<Behind>>} :
             /\ more # <<>> => NUL \notin ToSet(data)
             /\ result' = [result EXCEPT ![1] = UpToNul(data) \o more]

(* cauchy_decoder_incr.c appends two blocks of each erased disk.           *)
DecodeIncr(d) ==
    LET Block(e, n) == Solution(e, metadata[d].tech, DecoderBlock, n)
    IN  /\ program = "incr"
        /\ result' = [e \in PDisks |-> IF e \notin ErasedDisks THEN result[e]
                                       ELSE result[e] \o Block(e, 1) \o Block(e, 2)]

(* A decoder run with the metadata of disk d, which also say with which    *)
(* code to decode.  It gives up when more than M of disks and rows are     *)
(* missing.                                                                *)
PDecode(d) ==
    /\ proc.pc = "rest"
    /\ metadata[d] # NoMetadata
    /\ metadata[d].tech # "no_coding"
    /\ Cardinality(ErasedDisks) + Cardinality(lostrows) <= M
    /\ result = [e \in PDisks |-> <<>>]
    /\ DecodeCauchy(d) \/ DecodeIncr(d)
    /\ decoder' = [code |-> metadata[d].tech, rows |-> UsedRows]
    /\ UNCHANGED <<program, kfile, codes, mfile, stage, metadata, proc, log,
                   lostrows, replaced>>

(* The operator removes decoded files; a parity file is lost.              *)
RemoveDecoded ==
    /\ result # [e \in PDisks |-> <<>>]
    /\ result' = [e \in PDisks |-> <<>>]
    /\ decoder' = NoDecoder
    /\ UNCHANGED <<program, kfile, codes, mfile, stage, metadata, proc, log,
                   lostrows, replaced>>

LoseRow(i) ==
    /\ proc.pc = "rest"
    /\ Len(log) = MaxCalls[program]
    /\ Cardinality(lostrows) < MaxLostRows
    /\ lostrows' = lostrows \cup {i}
    /\ UNCHANGED <<program, kfile, codes, mfile, stage, metadata, proc, result,
                   decoder, log, replaced>>

PositionalNext ==
    \/ \E d \in PDisks, s \in RunSizes, b \in BufferSizes, t \in Techniques :
            PStart(d, s, PArgs(b, t))
    \/ LoadParity \/ EncodeAppendData \/ AppendRow \/ RenameRow
    \/ WriteMetadata \/ KillEncoder
    \/ \E d \in PDisks : PDecode(d)
    \/ RemoveDecoded
    \/ \E i \in Rows : LoseRow(i)

PositionalSpec == PositionalInit /\ [][PositionalNext]_pvars

------------------------------------------------------------------------------
(* Properties *)

(* Which file of row i takes the parity of disk d, and which does not.     *)
ParityLog(d, i) == IF program = "incr" /\ d > 1 THEN stage[i] ELSE mfile[i]
OtherLog(d, i) == IF program = "incr" /\ d > 1 THEN mfile[i] ELSE stage[i]

(* The blocks of a file that hold parity of disk d, and the data blocks    *)
(* that are not all zero: the parity of the others is zero in every row.   *)
ParityOf(d, i, blocks) ==
    {x \in DOMAIN blocks : \E j \in DOMAIN blocks[x] :
        Len(blocks[x][j]) = 4 /\ blocks[x][j][1] = i /\ blocks[x][j][2] = d}
NonZero(blocks) == {y \in DOMAIN blocks : \E j \in DOMAIN blocks[y] : blocks[y][j] # NUL}

(* The parity in row i of the y-th data block of disk d.                   *)
ParityOfBlock(i, d, y) == Parity(i, d, codes[d][y], kfile[d][y])

(* The parity of disk d in a file is that of the picked data blocks, in    *)
(* their order.                                                            *)
Rank(x, S) == Cardinality({y \in S : y < x})
Matches(d, i, blocks, picked) ==
    LET own == ParityOf(d, i, blocks)
    IN  /\ Cardinality(own) = Cardinality(picked)
        /\ \A x \in own, y \in picked :
              Rank(x, own) = Rank(y, picked) => blocks[x] = ParityOfBlock(i, d, y)

(* Every parity row contains the data blocks of every disk, in the order   *)
(* of its k file and each with the coefficient of the code it was encoded  *)
(* with; of each killed run at most one is missing.  Once a staging file   *)
(* has taken the place of a row, nothing is said of the row.  No staging   *)
(* file gets ahead of the parity file it will replace: a row only loads    *)
(* parity that is there.                                                   *)
ParityTracksData ==
    /\ \A i \in Rows : Len(stage[i]) <= Len(mfile[i])
    /\ (\A r \in DOMAIN log : Encodes(log[r].tech)) =>
          \A d \in PDisks, i \in Rows \ replaced :
              /\ ParityOf(d, i, OtherLog(d, i)) = {}
              /\ \E picked \in SUBSET NonZero(kfile[d]) :
                    /\ Matches(d, i, ParityLog(d, i), picked)
                    /\ Cardinality(NonZero(kfile[d])) - Cardinality(picked)
                         <= KilledRuns + (IF proc.pc \in {"parity", "rename"} THEN 1 ELSE 0)

(* Whether the last decoder multiplied disk 1 as the first run did, in the *)
(* rows it read.  The code it takes from the metadata is that of another   *)
(* run, which cauchy_encoder.c rewrites: it may differ and still agree,    *)
(* in the row of plain parity for instance.                                *)
DecoderAgrees ==
    \A r \in decoder.rows : Coefficient(decoder.code, r, 1) = Coefficient(codes[1][1], r, 1)

(* If the first run of all stored disk 1 and was not killed, what the      *)
(* decoders recover for disk 1 agrees with the first block of that run as  *)
(* far as that goes, whatever runs and kills came after it and whichever   *)
(* sizes and disks these had, as long as the code that the metadata name   *)
(* by then has the same coefficients, no more than M disks and rows are    *)
(* missing and no staging file has replaced a parity file.                 *)
FirstBlockRecovered ==
    (/\ result[1] # <<>> /\ log[1].disk = 1 /\ ~ log[1].killed
     /\ Encodes(log[1].tech) /\ replaced = {} /\ DecoderAgrees) =>
        \A j \in DOMAIN result[1] \cap DOMAIN kfile[1][1] :
            result[1][j] # Behind => result[1][j] = kfile[1][1][j]

=============================================================================
