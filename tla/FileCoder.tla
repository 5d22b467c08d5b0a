------------------------------ MODULE FileCoder ------------------------------
(***************************************************************************)
(* The whole-file coder: the programs jerasure/Examples/encoder.c and      *)
(* decoder.c and the files they share.                                     *)
(*                                                                         *)
(* The encoder cuts an input into read-ins, and each read-in into k data   *)
(* blocks, from which it computes m coding blocks; device file d gets the  *)
(* d-th block of every read-in.  Metadata are written last.  The decoder   *)
(* reads the metadata, takes device files that are not there as erased,    *)
(* and recreates the input.                                                *)
(*                                                                         *)
(* Device d <= k is the file <name>_k<d>, device k+i is <name>_m<i>.  The  *)
(* metadata file is named after the input without its extension: the Names *)
(* differ in their extension only and share it.                            *)
(*                                                                         *)
(* A byte is <<name, version, position>>, Pad, or Junk (memory nobody      *)
(* set).  A coding byte is its row, the code and the column of data bytes  *)
(* it was computed from.                                                   *)
(***************************************************************************)
EXTENDS CoderSizes, Sequences, FiniteSets, SequencesExt

CONSTANTS Names,        \* input files with the same stem
          Versions,     \* contents an input file may have
          SizeOf,       \* the size of each version
          LongSize,     \* sizeof(long)
          Calls,        \* pairs of a version and the arguments it is encoded with
          MaxRuns,      \* bound: runs of the encoder
          MaxKills,     \* bound: runs of the encoder that are killed
          MaxLosses     \* bound: device files that are lost

ASSUME FileCoderAssumption ==
    /\ LongSize \in Nat \ {0}
    /\ \A v \in Versions : SizeOf[v] \in Nat
    /\ \A c \in Calls :
          /\ c[1] \in Versions /\ {c[2].k, c[2].w} \subseteq Nat \ {0}
          /\ {c[2].m, c[2].packetsize, c[2].buffersize} \subseteq Nat

VARIABLES files,        \* contents of the device files
          meta,         \* the metadata file
          decoded,      \* decoded files
          enc,          \* the encoder process
          dec,          \* the decoder process
          good,         \* history: the run the files are of, NoRun from
                        \* the start of a run until its end
          used          \* runs, kills and losses so far

fvars == <<files, meta, decoded, enc, dec, good, used>>

------------------------------------------------------------------------------
(* Data *)

Pad  == <<"0">>
Junk == <<"uninitialised">>

LayoutOf(v, a) == Layout(SizeOf[v], LongSize, a)

(* Byte p of the n-th read-in.  A short read is filled with '0' up to the  *)
(* buffer size; with a single read-in the buffer has newsize bytes, and    *)
(* what lies after the input is never set.                                 *)
BlockByte(x, v, a, n, p) ==
    LET total == (n - 1) * LayoutOf(v, a).buffersize
    IN  IF total + p < SizeOf[v] THEN <<x, v, total + p>>
        ELSE IF p < LayoutOf(v, a).buffersize THEN Pad ELSE Junk

DataBlock(x, v, a, n, d) ==
    LET blocksize == LayoutOf(v, a).blocksize
    IN  [j \in 1..blocksize |-> BlockByte(x, v, a, n, (d-1) * blocksize + j-1)]

(* The file of device d.                                                   *)
FileOf(x, a, d) == IF d <= a.k THEN <<x, "k", d>> ELSE <<x, "m", d - a.k>>

(* What determines the code: a decoder with other parameters decodes       *)
(* something else.                                                         *)
Code(a) == <<a.k, a.m, a.w, a.packetsize, a.tech>>

(* The coding blocks; without a coding technique the memory is written as  *)
(* it was allocated.                                                       *)
CodingBlock(x, v, a, n, i) ==
    [j \in 1..LayoutOf(v, a).blocksize |->
        IF a.tech = "no_coding" THEN Junk
        ELSE <<i, Code(a), [d \in 1..a.k |-> DataBlock(x, v, a, n, d)[j]]>>]

DeviceBlock(x, v, a, n, d) ==
    IF d <= a.k THEN DataBlock(x, v, a, n, d)
    ELSE CodingBlock(x, v, a, n, d - a.k)

------------------------------------------------------------------------------
(* The encoder *)

NoRun == [name |-> "none"]
NoFile == [file |-> "missing"]
Torn == [file |-> "torn"]
EncIdle == [pc |-> "idle"]
DecIdle == [pc |-> "idle"]

(* The operator runs one program at a time.                                *)
Quiet == enc.pc = "idle" /\ dec.pc \in {"idle", "done", "refused"}

Spend(what) == used' = [used EXCEPT ![what] = @ + 1]

FileInit ==
    /\ files = <<>>
    /\ meta = NoFile
    /\ decoded = <<>>
    /\ enc = EncIdle
    /\ dec = DecIdle
    /\ good = NoRun
    /\ used = [runs |-> 0, kills |-> 0, losses |-> 0]

(* The input file x holds version v when the encoder is called.            *)
EncodeStart(x, v, a) ==
    /\ Quiet
    /\ used.runs < MaxRuns
    /\ Accepted(LongSize, a)
    /\ enc' = [pc |-> "write", name |-> x, version |-> v, args |-> a,
               n |-> 1, dev |-> 1]
    /\ dec' = DecIdle
    /\ good' = NoRun
    /\ Spend("runs")
    /\ UNCHANGED <<files, meta, decoded>>

(* A bug: device files are always appended to, as the forks do.            *)
Mutant_Opened(f, n) == IF f \notin DOMAIN files THEN <<>> ELSE files[f]

(* fopen "wb" in the first read-in, "ab" in the others.                    *)
Opened(f, n) ==
    IF n = 1 \/ f \notin DOMAIN files THEN <<>> ELSE files[f]

With(g, f, content) == [h \in DOMAIN g \cup {f} |-> IF h = f THEN content ELSE g[h]]

(* One device file is opened, gets its block and is closed.                *)
WriteDevice ==
    LET x == enc.name
        a == enc.args
        f == FileOf(x, a, enc.dev)
        block == DeviceBlock(x, enc.version, a, enc.n, enc.dev)
    IN  /\ enc.pc = "write"
        /\ files' = With(files, f, Opened(f, enc.n) \o block)
        /\ enc' = IF enc.dev < a.k + a.m THEN [enc EXCEPT !.dev = @ + 1]
                  ELSE IF enc.n < LayoutOf(enc.version, a).readins
                  THEN [enc EXCEPT !.dev = 1, !.n = @ + 1]
                  ELSE [enc EXCEPT !.pc = "meta"]
        /\ UNCHANGED <<meta, decoded, dec, good, used>>

(* The metadata file of the finished run.                                  *)
WriteMeta ==
    LET a == enc.args
        l == LayoutOf(enc.version, a)
    IN  /\ enc.pc = "meta"
        /\ meta' = [origsize |-> SizeOf[enc.version], k |-> a.k, m |-> a.m,
                    w |-> a.w, packetsize |-> a.packetsize, tech |-> a.tech,
                    buffersize |-> l.buffersize, readins |-> l.readins]
        /\ good' = [name |-> enc.name, version |-> enc.version, args |-> a]
        /\ enc' = EncIdle
        /\ UNCHANGED <<files, decoded, dec, used>>

(* The encoder is killed; a file that was just opened is left empty.       *)
Kill ==
    /\ enc.pc # "idle"
    /\ used.kills < MaxKills
    /\ \/ UNCHANGED <<files, meta>>
       \/ /\ enc.pc = "write"
          /\ LET f == FileOf(enc.name, enc.args, enc.dev)
             IN  files' = With(files, f, Opened(f, enc.n))
          /\ UNCHANGED meta
       \/ /\ enc.pc = "meta"
          /\ meta' = Torn
          /\ UNCHANGED files
    /\ enc' = EncIdle
    /\ Spend("kills")
    /\ UNCHANGED <<decoded, dec, good>>

------------------------------------------------------------------------------
(* The decoder *)

Single(mt) == mt.buffersize = mt.origsize

(* The decoder ends at once without valid metadata.                        *)
DecodeStart(x) ==
    /\ Quiet
    /\ meta \notin {NoFile, Torn}
    /\ dec' = [pc |-> "read", name |-> x, meta |-> meta, n |-> 1, dev |-> 1,
               total |-> 0, erased |-> {}, blocksize |-> meta.buffersize \div meta.k,
               buf |-> [d \in 1..(meta.k + meta.m) |-> <<>>]]
    /\ UNCHANGED <<files, meta, decoded, enc, good, used>>

(* fread into a buffer: what a short read does not reach stays.            *)
ReadOver(old, content) ==
    content \o SubSeq(old, Len(content) + 1, Len(old))

(* One device file is read, or marked as erased.  With a single read-in    *)
(* the file's size is the block size, else the block of read-in n is read. *)
ReadDevice ==
    LET f     == FileOf(dec.name, dec.meta, dec.dev)
        size  == IF Single(dec.meta) THEN Len(files[f]) ELSE dec.blocksize
        block == SubSeq(files[f], size * (dec.n - 1) + 1,
                        IF Len(files[f]) < size * dec.n THEN Len(files[f])
                        ELSE size * dec.n)
        last  == dec.dev = dec.meta.k + dec.meta.m
        next  == [dec EXCEPT !.dev = IF last THEN 1 ELSE @ + 1,
                             !.pc = IF last THEN "decode" ELSE @]
    IN  /\ dec.pc = "read"
        /\ dec' = IF f \notin DOMAIN files
                  THEN [next EXCEPT !.erased = @ \cup {dec.dev}]
                  ELSE [next EXCEPT !.buf[dec.dev] = ReadOver(@, block),
                                    !.blocksize = size]
        /\ UNCHANGED <<files, meta, decoded, enc, good, used>>

(* The buffer as blocksize bytes: erased and too short ones go on with     *)
(* memory nobody set.                                                      *)
Buffer(d) ==
    [j \in 1..dec.blocksize |-> IF j <= Len(dec.buf[d]) THEN dec.buf[d][j] ELSE Junk]

ErasedData == dec.erased \cap 1..dec.meta.k

(* The coding rows decoding uses: the first intact ones, one for each      *)
(* erased data device.                                                     *)
RowsUsed ==
    LET intact == (dec.meta.k + 1)..(dec.meta.k + dec.meta.m) \ dec.erased
    IN  {r \in intact :
            Cardinality({s \in intact : s < r}) < Cardinality(ErasedData)}

(* Byte j of data device d after decoding: the column the rows agree on    *)
(* with the intact data, else something else.                              *)
Decode(d, j) ==
    LET mt     == dec.meta
        row    == CHOOSE r \in RowsUsed : TRUE
        byte   == Buffer(row)[j]
        Agrees(r) == Buffer(r)[j] = <<r - mt.k, Code(mt), byte[3]>>
        Fits   == /\ byte # Junk
                  /\ \A r \in RowsUsed : Buffer(r)[j] # Junk /\ Agrees(r)
                  /\ \A e \in 1..mt.k \ dec.erased : Buffer(e)[j] = byte[3][e]
    IN  IF d \notin dec.erased THEN Buffer(d)[j]
        ELSE IF Fits THEN byte[3][d] ELSE Junk

(* Decoding succeeds with a coding technique and no more than m erasures.  *)
Recoverable ==
    dec.meta.tech # "no_coding" /\ Cardinality(dec.erased) <= dec.meta.m

(* "Unsuccessful!" or "Not a valid coding technique."                      *)
Refuse ==
    /\ dec.pc = "decode"
    /\ ~ Recoverable
    /\ dec' = [pc |-> "refused", name |-> dec.name]
    /\ UNCHANGED <<files, meta, decoded, enc, good, used>>

(* A bug: what earlier read-ins wrote is not counted.                      *)
Mutant_Output ==
    LET mt    == dec.meta
        bytes == [p \in 1..(mt.k * dec.blocksize) |->
                    Decode((p - 1) \div dec.blocksize + 1,
                           ((p - 1) % dec.blocksize) + 1)]
    IN  SubSeq(bytes, 1, IF mt.origsize < Len(bytes) THEN mt.origsize ELSE Len(bytes))

(* The k data blocks one after the other, cut where origsize is reached.   *)
Output ==
    LET mt    == dec.meta
        bytes == [p \in 1..(mt.k * dec.blocksize) |->
                    Decode((p - 1) \div dec.blocksize + 1,
                           ((p - 1) % dec.blocksize) + 1)]
        left  == mt.origsize - dec.total
    IN  SubSeq(bytes, 1, IF left < Len(bytes) THEN left ELSE Len(bytes))

WriteDecoded ==
    /\ dec.pc = "decode"
    /\ Recoverable
    /\ decoded' = With(decoded, dec.name,
                       (IF dec.n = 1 \/ dec.name \notin DOMAIN decoded
                        THEN <<>> ELSE decoded[dec.name]) \o Output)
    /\ dec' = IF dec.n < dec.meta.readins
              THEN [dec EXCEPT !.n = @ + 1, !.pc = "read", !.erased = {},
                               !.total = @ + Len(Output)]
              ELSE [pc |-> "done", name |-> dec.name]
    /\ UNCHANGED <<files, meta, enc, good, used>>

------------------------------------------------------------------------------
(* The environment *)

(* A device file is lost, also while the decoder runs.                     *)
Lose(f) ==
    /\ enc.pc = "idle"
    /\ used.losses < MaxLosses
    /\ files' = [g \in DOMAIN files \ {f} |-> files[g]]
    /\ Spend("losses")
    /\ UNCHANGED <<meta, decoded, enc, dec, good>>

FileNext ==
    \/ \E x \in Names, c \in Calls : EncodeStart(x, c[1], c[2])
    \/ WriteDevice \/ WriteMeta \/ Kill
    \/ \E x \in Names : DecodeStart(x)
    \/ ReadDevice \/ Refuse \/ WriteDecoded
    \/ \E f \in DOMAIN files : Lose(f)

FileSpec == FileInit /\ [][FileNext]_fvars

------------------------------------------------------------------------------
(* Properties *)

Original(x, v) == [p \in 1..SizeOf[v] |-> <<x, v, p - 1>>]

(* What device d holds after an undisturbed run on version v.              *)
Complete(x, v, a, d) ==
    FlattenSeq([n \in 1..LayoutOf(v, a).readins |-> DeviceBlock(x, v, a, n, d)])

(* Whatever was encoded, killed and lost before: if the last run of the    *)
(* encoder came to its end, the device files that are there hold the       *)
(* blocks of that run and nothing of earlier ones, so that the sizes the   *)
(* decoder takes for the block size are right.                             *)
CompletedRunStands ==
    good # NoRun =>
        \A d \in 1..(good.args.k + good.args.m) :
            LET f == FileOf(good.name, good.args, d)
            IN  f \in DOMAIN files =>
                    files[f] = Complete(good.name, good.version, good.args, d)

(* A decoder that comes to its end after a completed run has recreated the *)
(* input as it was encoded, without padding, whichever device files were   *)
(* lost, also while it ran; before the end it has a beginning of it.  With *)
(* a coding technique it gives up only if more than m files are missing.   *)
DecodedIsOriginal ==
    (good # NoRun /\ dec.pc # "idle") =>
        LET x == dec.name
        IN  x = good.name =>
            /\ dec.pc = "done" => decoded[x] = Original(x, good.version)
            /\ (dec.pc \in {"read", "decode"} /\ dec.n > 1) =>
                   IsPrefix(decoded[x], Original(x, good.version))
            /\ (dec.pc = "refused" /\ good.args.tech # "no_coding") =>
                   Cardinality({d \in 1..(good.args.k + good.args.m) :
                       FileOf(x, good.args, d) \notin DOMAIN files}) > good.args.m

=============================================================================
