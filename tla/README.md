# rs_ec_test: formal models, model checking and proofs

rs_ec_test is a test bed for erasure coding in C: programs that split a file
over k data files and m parity files and put it together again, on top of
locally modified copies of the jerasure 1.2 library, and a "simple
regenerating code" of its own.  This directory holds TLA+ models of the parts
that decide whether a file survives, the TLC runs that check them on small
instances, and theorems about them that TLAPS checks for all values of the
constants.

`PROJECT.json` is the machine-readable index: components, runs, the source lines
of every definition (`map`), the hazards, and for every checked property a
*mutant*, a plausible slip in the code under which the property fails.

To check a run: `tlc -workers 2 -config X.cfg M.tla`, with the configuration
and the module of the table in section 4.  To check proofs:
`tlapm IncrEncoder_proofs.tla`, and the same for `CommonLemmas` and the other modules whose
names end in `_proofs`.

---------------------------------------------------------------------------

## 1. Inventory of the system

All paths are below `src/`.  The repository has no unit tests; what the programs
are meant to do stands in their header comments and in `jerasure.h`.

### Incremental store, Reed-Solomon (`jerasure/van_encoder_incr.c`, `van_decoder_incr.c`)

*State.*  Files under `coding/`: the data of disk d in `k<d>`, the parity rows
in `m<i>`, a staging file `m0<i>` for each row, a metadata text file per disk.
In memory: one block per parity row (`coding[]`) and the local `init`.

*Operations.*  One run of the encoder adds one disk (`disk_no`): for each
read-in it loads the old parity, encodes the block of the disk into it, appends
the block to `k<d>`, appends the parity to `m<i>` (first disk) or `m0<i>` (any
other; renamed over `m<i>` at exactly 640 bytes) and appends metadata.  The
decoder treats disks 1 and 2 as lost and the others as zero, reads the parity
files, solves, and appends to `<d>_decoded`.

*Interaction.*  Only through files, with neither locks nor a journal.

*Hard.*  A kill between any two of the file operations; a run repeated for the
same disk; parity rows that switch to the new generation one at a time; a rename
tied to a file size; a local that is read before it is set.

*Correct when* parity equals the sum of the data after every run, never depends
on data that is not on disk, and what is lost can be recreated.

### Incremental store, Cauchy (`cauchy_encoder_incr.c`, `cauchy_decoder_incr.c`)

The same store over bitmatrices and schedules: choice of the technique,
construction of matrix, bitmatrix and schedule, then the encoding loop.  It is
unfinished: it encodes literal text with a block size of 10, and the execution of a
schedule copies over the parity that was loaded, so a later disk's staging file holds
that disk alone.

### Positional stores (`cauchy_encoder.c`, `cauchy_decoder.c`, `encoder.c`)

Forks of jerasure's encoder that append: a run encodes one disk with all others
zero (`encoder.c`: all disks in turn, with the same data) and appends one block to the
k file and one to each parity file.  A parity file is a *log*; only the position of a
block says which disk and read-in it belongs to.  *State.*  k files, parity logs,
metadata per disk, rewritten in each iteration.  *Hard.*  A run that is killed between
the rows, from where on positions differ between the logs; runs with different buffer
sizes or techniques; a decoder that takes technique and sizes from the metadata of the
latest run and the block from the first.  *Correct when* every row holds the
blocks of every k file in order, and what is decoded is what was stored.

### Whole-file coder (`jerasure/Examples/encoder.c`, `decoder.c`)

The encoder cuts an input into read-ins and these into k blocks, computes m
coding blocks, writes one block to each of k + m device files (created in the first
read-in, appended to afterwards) and metadata at the end.  The decoder takes
missing device files as erased and writes the input again, cut at its original
size.  *Hard.*  Padding and the rounding of sizes, a run that is killed or repeated
with other arguments, files lost while the decoder runs, metadata whose name two
inputs share.  *Correct when* the device files are those of one run, and what is
decoded is the input.

### Matrix coding (`jerasure.c`, `jerasure_incr.c`)

`jerasure_matrix_decode` recreates erased devices in place: it counts erasures,
decides which devices the parity row can recreate by itself, inverts the matrix
of the first k surviving rows (`jerasure_invert_matrix`: in-place Gauss-Jordan with
row swaps), decodes data devices, then encodes erased coding devices again.
`jerasure_bitmatrix_decode` does the same over bits.  `jerasure_incr.c` is a copy in which encoding and `jerasure_matrix_dotprod` were
changed to add one device at a time.  *Correct when* each erased device is
written once and correctly, and -1 leaves everything as it was.

### Scheduled bitmatrix coding (`jerasure.c`, `jerasure_incr.c`)

The smart scheduler turns a bitmatrix into a list of packet operations: rows are
on a doubly linked list, and the cheapest row is taken each time, either copied
from data or derived from a row that is already done (the dumb scheduler always copies
from data).  The decoders build a
decoding bitmatrix (inversion over bits, rows of lost coding devices rewritten
in terms of what is left), schedule it, and perform the schedule; with a cache
all the schedules for one and two losses are made beforehand.  *Correct when* the
schedule computes the product, reads no unfinished row, fits the array that is
allocated for it, and a decode recreates what was lost.

### Galois field arithmetic (`galois.c`)

Multiplication by shifts, log tables (with three copies of the inverse logs, so
that sums and differences of logarithms need no reduction), full multiplication
and division tables, seven split tables for w = 32, region operations, inverses by
elimination.  The tables are made on first use, and each allocation may fail; when one of
the split tables fails, those before it are freed with their pointers left set.

### Coding matrices (`reed_sol.c`, `cauchy.c`, `liberation.c`)

Extended Vandermonde matrices made systematic by column operations and scaled so
that the first row is all ones; Cauchy matrices, "improved" by division to have
few ones, or looked up for m = 2; the RAID-6 bitmatrices of Liberation,
Blaum-Roth and liber8tion codes; the RAID-6 encoder that doubles several words in one
machine word.  *Correct when* any k devices determine the data.

### Simple regenerating code (`SRC.c`, `ec_src.c`)

The input is cut into f·k pieces per stripe, encoded by f Reed-Solomon codes into
chunks for n nodes, and one XOR of the f chunks of a stripe position is stored on
another node, all rotated over the nodes.  *Correct when* a single lost node file
can be rebuilt by XORs alone, and any k node files hold the data.

### Buffers and tables (`sim_buffer.c`)

A chain of pages filled by copying, reading and printing and handed to `writev`; a
buffer on a single page that is filled at its end and popped at its front; a pool that
hands out pieces of pages; two linear-probing hash tables, of pointers to pairs and of
values.  Used by one thread.  *Hard.*  Allocations that fail half-way, short reads,
text cut short, full pages, deleted slots, a table that is half cleared.

### Concurrent write test (`test_write.c`)

A tester sets up a table of results in System V shared memory under a fixed key,
forks processes, waits for them and counts failures.  A process writes blocks at random
places of its own file, reads them back and compares.  Two testers meet in the
key and, with the same `-file`, in the files.  *Hard.*  The order of their set-ups,
failed forks, killed processes, files unlinked by the other tester.

### Everything else

iniparser's `dictionary.c`, RozoFS's Mojette `transform.c`, logging, list macros,
experiments, two example programs that print matrices.  No program of the
repository calls the dictionary or the transform.

### How the parts depend on each other

    van_encoder_incr ──► files ◄── van_decoder_incr       SRC.c / ec_src.c
          │                              │                      │
          ▼                              ▼                      ▼
    jerasure_incr: dotprod, encode    matrix_decode ◄── jerasure: matrix_encode
          │                              │
          │     cauchy_* encoders ► smart scheduler ► schedules ► decoders
          ▼                              ▼
    coding matrices (reed_sol, cauchy, liberation) ──► galois

---------------------------------------------------------------------------

## 2. Modules, and what they correspond to

| module | models | role |
|---|---|---|
| `ParityStore` | the promise of an incremental parity store | abstract specification |
| `IncrEncoder` | `van_encoder_incr.c`, the encode path of `jerasure_incr.c` | implements `ParityStore` |
| `EncoderProcesses` | several processes of `van_encoder_incr.c` on the same files | refines `IncrEncoder` as long as no two runs overlap |
| `IncrDecoder` | `van_decoder_incr.c` | composed below |
| `IncrSystem` | encoder processes and decoder on the same files, parity files that get lost | composition |
| `IncrEncoder_proofs` | | proofs |
| `IncrSystem_proofs` | | proofs about the store in use, and in its second half about `BitmatrixDecode` |
| `SmartSchedule` | `jerasure_smart_bitmatrix_to_schedule`, `jerasure_dumb_bitmatrix_to_schedule` and `jerasure_do_scheduled_operations` | algorithm as a state machine |
| `Bitmatrices` | `liberation.c`, `jerasure_matrix_to_bitmatrix`, the encoder's acceptance checks | operators |
| `ScheduledDecode` | `jerasure_generate_decoding_schedule`, `jerasure_invert_bitmatrix`, `_schedule_decode_lazy`, `_schedule_decode_cache`, `_generate_schedule_cache` | state machine |
| `BitmatrixDecode` | `jerasure_bitmatrix_decode`, `jerasure_make_decoding_bitmatrix`, `jerasure_bitmatrix_dotprod` | extends `ScheduledDecode` |
| `GaloisField` | shift multiplication, primitive polynomials, division | operators |
| `GaloisTables` | log and multiplication tables of `galois.c` and their lazy creation | state machine |
| `GaloisRegions` | split tables, products of wide words, regions and inverses; the RAID-6 encoder of `reed_sol.c` | extends `GaloisTables` |
| `MatrixInvert` | `jerasure_invert_matrix` | state machine |
| `MatrixDecode` | `jerasure_matrix_decode` of both library copies | extends `MatrixInvert`, whose steps are some of its own |
| `MatrixDecode_proofs` | | proofs |
| `CodingMatrix` | `reed_sol.c`, `cauchy.c`, the technique switch of `cauchy_encoder_incr.c` | state machine |
| `CodingMatrix_proofs` | | proofs |
| `SimpleRegenerating` | `SRC.c` | state machine |
| `SimpleRegenerating_proofs` | | proofs |
| `CoderSizes` | the size arithmetic of jerasure's encoder and of its forks | operators |
| `FileCoder` | `Examples/encoder.c`, `Examples/decoder.c` | state machine |
| `PositionalStore` | `cauchy_encoder.c` and its decoder, `encoder.c`, `cauchy_encoder_incr.c` and its decoder | state machine, one fork per behaviour |
| `Coders` | the two above | composition |
| `Coders_proofs` | | proofs |
| `PageBuffer`, `KvTables`, `BlockPool` | the parts of `sim_buffer.c` | state machines |
| `WriteTest` | `test_write.c` | state machine of several processes |
| `Utilities` | the four above, with the fairness of the processes | composition |
| `Utilities_proofs` | | proofs about these, and in its last part about `SmartSchedule` |
| `CommonLemmas` | | lemmas that several of the proofs need, the laws of the field among them |
| `MC...` | | instances for TLC |

`Mutant_X` before a definition `X` is that definition with one slip.  Mutants
are never part of a specification.

### How data is abstracted

Control is kept step by step; data is kept only as far as a property can tell it
apart.

- **Sums instead of bytes.**  In `IncrEncoder`, `ScheduledDecode` and
  `SimpleRegenerating` a block, packet or byte is the *set of terms it is the
  sum of*.  Addition in GF(2^w) is XOR, so adding is the symmetric difference:
  encoding a disk twice cancels, as it does in the code.  `IncrEncoder` leaves out
  the coefficients: both of a pair of equal terms in a row carry the same one.
  `IncrDecoder` brings the hard-coded 3x10 matrix back to say which pairs of rows
  can be solved.
- **A field element is a set of exponents** (`GaloisField`): its polynomial over
  GF(2).  Multiplication, division and logarithms are computed from the
  polynomials in `prim_poly`, in fields of up to 64 elements.  The code works with
  w = 8, 16 and 32, by the same loops and the same relation of tables to w.
- **A device is a linear combination** of the data devices (`MatrixDecode`): a
  vector of coefficients, which the operations scale and add.  "Recreated" then
  means "holds the right combination", for every content at once.  One extra
  coordinate stands for the garbage in an erased device.
- **A schedule is the bitmatrix it was made from** (`ScheduledDecode`).  That the
  scheduler produces that product is what `SmartSchedule` checks
  (`ComputesProduct`).
- **Files are sequences of blocks.**  Sizes 320 and 640 are one and two blocks.
- **A coding byte is what it was computed from.**  In `FileCoder`: its row, the
  parameters of the code and the column of data bytes; decoding succeeds where the surviving
  bytes agree on one column, which catches every shift of positions.  In `PositionalStore`,
  where all disks but one are zero: its row, the disk, the coefficient its code has there and
  the byte.  A decoder solves with the coefficients of the code its metadata name, and what
  comes out is the byte where these are the coefficients it was multiplied with, and
  something else otherwise.
  Sizes and positions are kept byte by byte there, because they are what can go wrong.
- **A byte put into a buffer has a number** (`PageBuffer`), so that order and loss show;
  sizes of pages and words are constants, and `size_t` wraps in `BlockPool`.

### `IncrEncoder`, step by step

One action per file operation, so that a kill can fall between any two.

| action | code (`van_encoder_incr.c`) |
|---|---|
| `Start` | the program is started for a disk; locals get their values, `init` what the stack held (line 87 on) |
| `LoadRow`, `LoadFails` | old parity of row i is read where its staging file ends; init := 1; an unreadable file ends the program (451-491) |
| `EncodeAppendK` | `jerasure_matrix_encode`, then the block is appended to the k file (496-510) |
| `AppendParity` / `AppendStage` | parity is appended to `m<i>` for disk 1, to `m0<i>` otherwise, and the size is compared (513-541) |
| `RenameStage` | `rename` over the parity file (542-547) |
| `WriteMeta` | a metadata record is appended; loop or end (559-578) |
| `Crash` | the process is killed: locals are lost, files stay |

`IncrDecoder` has one action per parity file read, one for solving, one per
file written; `IncrSystem` interleaves the programs, and `Lose(i)` removes a
parity file while nobody runs.  `Exclusive` says whether the operator keeps encoders and
decoder apart; the code does not.

`EncoderProcesses` gives every process its own locals.  What is one step of
`IncrEncoder`, the append to a staging file and the look at its size, is two here,
because another process may append or rename in between; and `status.st_size` is a
local of its own, since a `stat` of a file that is gone leaves the old size in it.
`Seen` maps the process that ran last to the locals of `IncrEncoder`, a process
between append and look being taken to have decided already.  `SerialRunsImplement`
says that until a process runs while another does, every step is a step of
`IncrEncoder`, so what is proved of that module holds of serial use by several
operators.  `KillProcess` ends a process at any point, also between append and look; the
locals it leaves are those `Seen` had shown, and nobody reads them again.

### The abstract store

`ParityStore` says: a parity row protects, in each of its blocks, a set of disks;
one disk joins at a time; a row takes it in with all of its blocks in *one* step;
a disk has joined when all rows protect it, or leaves no trace.
`ImplementsParityStore` maps `m<i>` to the disks its blocks contain: appends to the
staging file are stutters, and the switch is the `rename`.  For the first disk
the row counts once both blocks are written.  The refinement is what the staging
files are for, and it is exact about their limit: the *store* has no atomic switch,
only each row has.

### The library modules

- `SmartSchedule`: the list is `flink`, `blink` and `top`; `Take` unlinks the best
  row and appends its operations; `Scan` is one step of the walk over the
  rest that updates costs and the best row; `ScanEnds` and `Return` finish.
  `order` is a history variable.
- `MatrixInvert`: one action per step of the two sweeps (swap, scale, subtract, and
  the way back, where the code clears single entries of `mat`).  `MatrixDecode`
  begins with the counting of erasures, steps through the inversion, then
  through the loops over data devices, the last device, and coding devices.
- `ScheduledDecode`: `Generate` sets up the matrix of the surviving devices;
  `Triangle`/`Back` are the columns of the inversion; `DataRows`/`CodingDevice` make
  `real_decoding_matrix`; `CacheSchedule` stores a schedule and goes on with the
  next pair; `Perform` is one destination packet.
- `BitmatrixDecode` adds a third way of decoding to `ScheduledDecode`: the same
  elimination, over the first k devices that are left, then one step per device.
- `GaloisTables`: one action per allocation and per row filled; allocations may
  fail, and calls may be made in any order and again after a failure.
- `GaloisRegions`: the split tables are made out of the multiplication tables;
  `AllocateSplit` chooses which of the seven allocations fails.  Products are operators
  over the tables of the state.
- `CodingMatrix`: Vandermonde: pivots, column swaps, divisions and clearing;
  Cauchy: original matrix, division by columns, then by rows where it saves ones;
  the tables of `cbest_k` for m = 2 (up to w = 4).
- `SimpleRegenerating`: size adjustment, lookup table, then for each read-in and
  stripe: read, encode, write; then the XORs.

### The coders

`FileCoder` writes one device file per step (`Opened` says when one is created anew), the
metadata in one, and reads one device file per step; `Kill` ends the encoder between
any two and may leave the file just opened empty.  `Lose` removes a device file at any
time but during a run of the encoder.  `PositionalStore` is written once for three
forks, which differ in layout, blocks, staging and metadata; `program` says which one a
directory belongs to.  `AppendRow` appends to one row; where that fills a staging file
`RenameRow` follows, and a kill may come between.  Two variables are history: `codes` keeps
the code of each data block, and `decoder` the code and the rows of the last decoder run.
`Coders` chooses one of the four at the start.

### The utilities

One action per function of `sim_buffer.c`, with every outcome of an allocation or a
`read`.  After a write behind a page, or a lookup that reads through a mark of deletion,
the behaviour ends.  In `WriteTest` a step is a system call with what follows it;
shared memory and the file system under test are modelled from the calls made, and the
latter may answer that it wrote and lose the block.

---------------------------------------------------------------------------

## 3. Assumptions and bounds

Every module states what it assumes of its constants in a named `ASSUME`; TLC evaluates
each of them for the constants of a run.  The one that is a fact and no restriction is
`HasInverses` in `FieldAssumption` of `MatrixInvert` and of `CodingMatrix`: every field element
but 0 has an inverse, which is what the choice of the polynomials in `prim_poly` has to give.  The
theorems take it from there; that it is so for w = 1..8 is `PolynomialsAreIrreducible`,
which TLC evaluates in `galois_tables`.  All other laws of the field are proved.
`CauchyAssumption` of `ScheduledDecode` is another such fact: no element of a Cauchy matrix is 0
(`cauchy.c` fills it with inverses), so no row of its bitmatrix is empty.  TLC evaluates it for the
codes of `scheduled_decode`; for the other families it is proved (`BitmatrixFits`).  `NullAssumption`
says only that NULL is not a list of devices.

*Environment.*  The input file exists (the random `-N` mode differs only in content);
1 <= `disk_no` <= k and m >= 1; no two encoder processes add the same disk at the same
time; one parity file is loaded in one step; a single `fwrite` of
a block and a `rename` are atomic (no torn writes); a killed process loses its memory
and keeps its files.  `SimpleRegenerating` starts with 1 <= f < n, 1 <= k <= n and a buffer
that is not empty (`SRCAssumption`).
`MatrixDecode` takes the erasures as a set, at least one coding device, matrices with non-zero
rows, and `row_k_ones` only with a first row of ones, as `jerasure.h` demands; the value
`NULL` for a result that is not there yet is none of the results.
`ScheduledDecode` takes a list of distinct devices, not empty, as every caller
passes it, and `BitmatrixDecode` `row_k_ones` only for a code whose first rows are
parity.  `FileCoder` and `PositionalStore` take the programs to be run one at a time, and
arguments that are numbers, k and w not 0 (`FileCoderAssumption`).  Of the forks, w, the size of
a packet and of an input are not 0 (`PositionalAssumption`), all runs have the same k, m, w and
packet size, and no coefficient of a code is 0.  For the incremental fork alone, the block of
literal text fills whole packets: the code does not look, and overruns the block otherwise; of
its ten bytes `cauchy_good`, the only technique it encodes with, makes whole packets for w = 2,
5 or 10 and a packet size to match.  Callers of the buffers pop no more than they pushed, and do
not use a simple buffer that is not initialised.  Failures of `malloc` are modelled in
`GaloisTables`, `GaloisRegions`, `PageBuffer` and `BlockPool`, and of a process of
`WriteTest`; elsewhere they end the program.

*Undefined behaviour.*  `init` of the encoder is uninitialised until the first load:
`InitValues` lists what it may be.  With `{0, 1}` the block of the first disk may
be added to the fresh memory of `coding[]`, which is the term `Junk`.  `incr_supported`
and `incr_decode` assume 0, without which parity is garbage.  `FileCoder`,
`PositionalStore` and `KvTables` have a byte or a key `Junk` or `Unset` for memory that
nobody set, which equals no byte that was stored; `KvTables` lets a comparison with junk
crash or not.

| run | bound | why it is enough |
|---|---|---|
| `incr_supported` | disks 1..4, m = 3, two read-ins, 5 runs | first disk, first staged disk, a switch over a switched file, a run more than disks |
| `incr_crash_retry` | disks 1..3, m = 2, 1-3 read-ins, 3 runs, 2 kills | two kills leave two generations half renamed; three read-ins pass the size at which files are renamed |
| `incr_decode` | disks 1..3, two interchangeable encoder processes, 3 runs, 1 kill; k = 10, m = 3, 2 losses, one decode | two runs overlap in every way on the files of one generation, one of them killed or not, and a third follows; 2 lost disks + 0, 1, 2 lost rows: below, at and above m |
| `schedule_all` | every 4x5 bitmatrix, up to the order of the columns | with three columns a row would only be derived from one it contains; four rows give chains of derived rows, ties, empty and equal rows |
| `galois_tables` | w = 1..6, each allocation may fail; split tables for bytes of 1 and 2 bits in words of four bytes | six different polynomials; the index ranges depend on 2^w only, the split tables on the four bytes of a word |
| `matrix_decode` | k = 3, m = 2, GF(4), every second row, every erasure set | regular and singular survivors, zero pivots and swaps, more losses than m |
| `coding_matrix` | k <= 6, m <= 4, w <= 4, up to k + m = 2^w + 1 | one past the size at which no matrix exists |
| `simple_regenerating` | k <= 3, n <= 4, f <= 3, five sizes, five buffers | empty and short inputs, partial chunks, several read-ins, buffers below half a unit |
| `scheduled_decode` | five accepted codes, two not accepted, every ordered list of <= 3 losses, with a schedule, a cache or the bitmatrix | all orders and kinds of pairs, m and m + 1 losses, m = 3 |
| `coders`, whole file | two inputs of one stem, of 3 and 5 bytes; k <= 2, m <= 2; five sets of arguments; 2 runs, 1 kill, 2 losses | one and several read-ins, padding, a second run with fewer or more devices and read-ins over the files of the first, losses at and above m |
| `coders`, forks | k = m = 2, w = 2, an input of 5 bytes with a zero byte, two buffer sizes, two techniques and no coding; 3 runs, 4 of the incremental fork, 1 kill, 1 lost row | a single read-in and two; two codes whose coefficients differ in every row, so that a decoder with the wrong one never gets away with it (codes that agree in the rows read are left to the proof); a run after a killed one on both disks; four runs for disks 1, 1, 2, 2 fill a staging file, which is renamed, or not after a kill in between |
| `utilities`, buffers | pages of 2 bytes, requests of 0..3, 4 calls | less than, exactly and more than a page; every pair of calls after a short read |
| `utilities`, tables | 2 slots, 4 keys, one of them empty, 5 calls | a full table, two keys with one home, a probe that wraps, insert after delete |
| `utilities`, pool | pages of 4, 2-byte alignment, sizes up to 15 of 16, 5 calls | requests that fit, do not fit, exceed a page, wrap |
| `utilities`, write test | one tester with two processes, two with one each; 2 rounds, 2-byte files, one mishap | both testers' set-ups in every order, all ends of a process while the others run |

A larger instance was tried for `NeverSingular` outside the runs: liber8tion with
k = 8, Liberation k = w = 5 and Blaum-Roth k = w = 6 hold as well.

*Deadlock.*  Every configuration turns the deadlock check off: each of these
programs ends, or the bounds end it, and then no step is left.  That calls do end is
a property of its own where a loop could fail to (below).

*Fairness.*  Weak fairness is assumed only of the steps of a running program or call
(`EncoderStep`, the steps of the scheduler) and, in `Utilities`, of each tester and each
process of a write test separately, which the scheduler of an operating system
provides.  Nothing is assumed of operators, callers, kills, losses or failures.

---------------------------------------------------------------------------

## 4. Runs, and what they show

| run | module, configuration | properties |
|---|---|---|
| `incr_supported` | `IncrEncoder`, `incr_supported.cfg` | `ParityConsistent`, `ImplementsParityStore` |
| `incr_crash_retry` | `IncrEncoder`, `incr_crash_retry.cfg` | `TypeOK`, `KBeforeParity`, `MetaAccountsForK`, `EncoderTerminates`, `FullStageBlocks` |
| `incr_decode` | `MCIncrSystem`, `incr_decode.cfg` | `KBeforeAnyParity`, `SerialRunsImplement`, `DecoderRecovers` |
| `schedule_all` | `MCSmartSchedule`, `schedule_all.cfg` | `ListIsTodo`, `GreedyChoice`, `FitsOperations`, `ComputesProduct`, `Finishes` |
| `galois_tables` | `MCGaloisTables`, `galois_tables.cfg` | `TablesAreFull`, `WideWords` |
| `matrix_decode` | `MCMatrixDecode`, `matrix_decode.cfg` | `DecodesOrRefuses`, `CodingRecreated`, `InvertsOrReports`, `WritesErasedOnce` |
| `coding_matrix` | `MCCodingMatrix`, `coding_matrix.cfg` | `FitForDecoders`, `FewOnes`, `PivotLeft` |
| `simple_regenerating` | `MCSimpleRegenerating`, `simple_regenerating.cfg` | `AnyKNodes`, `RebuiltByXor`, `InputStored` |
| `scheduled_decode` | `MCScheduledDecode`, `scheduled_decode.cfg` | `ErasedRecreated`, `NeverSingular`, `WritesLostOnce` |
| `coders` | `MCCoders`, `coders.cfg` | `CompletedRunStands`, `DecodedIsOriginal`, `ParityTracksData`, `FirstBlockRecovered` |
| `utilities` | `MCUtilities`, `utilities.cfg` | `BytesInOrder`, `KeysFound`, `PiecesApart`, `CountsOwnFailures`, `OutcomesTrue`, `TestEnds` |
| `bug_reencode` | `MCMatrixDecode`, `bug_reencode.cfg` | `CodingRecreated`, violated |

**incr_supported.**  With each disk encoded once, two read-ins and no kill, parity is
block by block the sum of the k files between runs, nothing stays staged, and the
encoder implements the abstract store.

**incr_crash_retry.**  What is left when runs are killed and repeated: no parity or
staged block depends on a disk that has no data (`KBeforeParity`); the metadata
lags behind the data by at most the killed runs (`MetaAccountsForK`); each run
ends whatever files it finds (`EncoderTerminates`); and a kill between the
append that fills a staging file and its rename freezes that row: later disks
fail to load it, before they write anything, so the half-renamed generation is
never built upon (`FullStageBlocks`).  Parity consistency itself does *not* survive
kills; that is why it is a property of the first run only.

**incr_decode.**  Two encoder processes and the decoder.  As long as no two runs
overlap, the processes do what `IncrEncoder` says, kills included, and, if none was killed,
disks 1 and 2 come back when no more than m devices are lost and no third disk is stored;
nothing is written when more are lost.  When runs overlap, blocks can be appended and renamed in the wrong order, and
parity is lost; what remains true is that no parity refers to a disk without data
(`KBeforeAnyParity`).

**schedule_all.**  The hand-written list is exactly the rows still to do, every
choice is a cheapest row, the schedule fits `operations`, and performing it computes the
product, as does the dumb schedule, which is never shorter.

**galois_tables.**  `TablesAreFull`: the polynomials are such that the tables, with their
shifted pointer and three copies, multiply and divide as polynomials do, no matter
which allocation failed before.  `WideWords`: whoever finds the first split table finds
all seven, and the product made out of them is that of the wide field; the exit of
callers is all that keeps freed tables from being used.  Regions of 16-bit words,
inverses by elimination and the RAID-6 encoder, which doubles packed words, agree with
the field.

**matrix_decode.**  For every matrix and every erasure set: all data devices recreated,
or -1 and nothing written (`DecodesOrRefuses`); coding devices recreated; the inversion
inverts or says that it cannot; erased devices are written at most once, others never.

**coding_matrix.**  `FitForDecoders`: any k of the k + m devices determine the data for
each technique, and the first row is ones where decoders are told so; "improving" keeps
regularity and never adds ones, and the counting shortcut of `cauchy_n_ones` agrees
with counting; a matrix is refused exactly where no pivot is left.

**simple_regenerating.**  After each read-in any node file can be rebuilt by XOR from
f others, any k files hold k chunks of each codeword, and at the end no byte is
missing and the totals of the chunks add up to the input (`InputStored`).

**scheduled_decode.**  Decoding with a schedule made on the spot, with one of the cache
or with the bitmatrix itself recreates everything, in whatever order devices are listed,
and more losses than m are refused with everything as it was.  The result of the
inversion is ignored by the code; `NeverSingular` shows that codes the encoder
accepts never need it (the two codes that are not accepted do reach a singular
matrix, and show that the property is about the check).

**coders.**  For the whole-file coder: whatever was encoded, killed or lost before, a run
that comes to its end leaves device files of that run alone (`CompletedRunStands`), and a
decoder after it writes the input, or refuses when more than m files are missing
(`DecodedIsOriginal`).  Nothing is claimed of decoding after a killed run: metadata of an
earlier run may then describe files of another.  For the forks: every parity row holds the
blocks of every disk that are not all zero, in their order, at most one missing for each killed run;
they stand in the log the disk belongs to, and no staging file is ahead of the row it is for;
of a row that a staging file has replaced nothing else is said (`ParityTracksData`).
What the decoder writes of disk 1 agrees with the first block stored of it
as far as it goes (`FirstBlockRecovered`): it may be shorter, and what a fork writes from the
memory behind its block is left out.  Later runs may have other sizes and other disks, but the
code their metadata name must have the coefficients of the first in the rows read
(`DecoderAgrees`).  Without that TLC finds a first run with `cauchy_orig`, a second with
`cauchy_good` that rewrites the metadata, and a decoder that writes something else.  This is all
the forks' decoders recover for certain.

**utilities.**  The buffers hand on the bytes put in, in order, as long as pages are
filled one by one and texts fit (`BytesInOrder`); what was inserted and not deleted is
found, or the lookup runs into a mark of deletion (`KeysFound`); pieces of the pool never
overlap, whatever allocation failed (`PiecesApart`).  A tester counts the failures of its
own processes, also when another removes its segment, unless their set-ups overlapped
(`CountsOwnFailures`); a process fails only if something went wrong or a namesake of
another tester ran, and passes only with the file as it should be (`OutcomesTrue`); and
every test ends (`TestEnds`).

### Finding

`bug_reencode`: `jerasure_matrix_decode` of the incremental library still calls
the dotprod that was changed to add one device (`jerasure_incr.c:284`); an erased
coding device becomes `matrix[i][0]` times device 0, and where that coefficient is 0, as in the
trace TLC prints, nothing is written and it keeps what was in its buffer.

---------------------------------------------------------------------------

## 5. What is proved

TLC checks the instances above.  TLAPS proves the following for every value of the
constants that the `ASSUME`s allow.

**`IncrEncoder_proofs`**, for every set of disks, every m, any number of read-ins,
with kills and retries and any value of `init`:

- `TypeCorrect`: `Spec => []TypeOK`.
- `KBeforeParityHolds`: `KBeforeParity` is not inductive, as parity is
  written from the buffers `coding[]`.  The invariant `KInv` adds them: every
  term of a buffer, parity or staged block is junk or belongs to a disk with a k
  file.  Loading keeps it, since what is loaded is parity; encoding keeps
  it, since the k file is appended in the same step; k files never shrink.
- `MetaAccountsHolds`: with `TypeOK`, `MetaAccountsForK` is inductive.
- `FullStageBlocksHolds`: an action property over a whole run.  `LoadedInv` carries what
  the load has found: of each row that is still to be appended to, less is staged than
  there is parity.  Appends and renames touch one row each, so what was found of the rows
  behind it stays true, and a row that was full stops the run before it writes.

- `ParityConsistentHolds` and `Refinement` (the encoder implements `ParityStore`), under
  `Supported`: two read-ins, no retry, no kill, `init` zero.  Both rest on `SInv`: between runs
  (`Idle`) each row has two blocks that equal `Old`, the sum of the stored disks; during the run
  of disk 1 (`First`) rows grow; a later disk either is at its first load, which may find no
  parity and end the run (`Looking`), or (`Later`) a row
  holds `Old` until its turn in the second iteration and `New` after it, while
  its staging file holds the blocks of `New` written so far.  The row counter and
  `Past(i)` say on which side of the switch a row is, which is what the property alone
  cannot say.  `SInv` also allows for parity files that are lost between runs; that in this
  module none is, is `AllThere`.  For the refinement each action maps to a step of the
  abstract store or to a stutter: `StartRefines`, `LoadFailsRefines`, `AppendParityRefines`,
  `RenameRefines`, `WriteMetaRefines`.

**`IncrSystem_proofs`**, for any number of processes, disks, parity files and
read-ins, with kills and retries, and in the whole system with parity files that get lost:

- `TypeCorrect`, `SystemTypes`: files, locals and history variables keep their types, and a
  running process has a disk that exists.  `Locals` is the set of a process's locals; a lemma per
  kind of step says which fields it changes and that it stays in that set.
- `KBeforeAnyParityHolds`, `SystemKBeforeAnyParity`: the invariant `KInv` holds the *buffers of
  all processes* to what the property says of files.  A process that loads, appends or renames what
  another wrote moves only terms that are already accounted for, and k files only grow, so
  no overlap can break it.
- `SerialRunsImplementHolds`, `SystemSerialRuns`: the refinement, for which `SerialInv` says that
  until runs overlap only the process that ran last is running, and that a staging file it has
  appended to is there until it renames it.  Without the second part a `stat` could leave
  the old size, and the step after it would not be the one that `Seen` had shown.  Each
  action maps to its namesake in `IncrEncoder`, the `stat` to a stutter.
- `DecoderRecoversHolds`: with k = 10 (the hard-coded matrix has rows of ten), disks added once
  with two read-ins and `init` zero, no encoder while the decoder runs and one decoding
  (`DecoderUse`).  Processes may overlap and be killed, as the property speaks of what happened
  without either.  `StoreInv` is `SInv` of `IncrEncoder_proofs`, instantiated with what `Seen` shows, as
  long as no runs overlapped and none was killed: a theorem about the one process carries over to
  several through the refinement (`StoreStep`).  So the store is at rest when the decoder begins
  (`IdleIsAtRest`): each parity file that is there has the sum of the stored disks twice.
  `DecoderInv` says what the decoder has read (`Reading`) and written (`Writing`) at each place.
  `FirstTwo` and `EnoughRows`: it can solve exactly if two parity files are there, since for
  k = 10 any two rows of the matrix differ (`RowsDiffer`).

The second half of the module is about the decoders that work with bitmatrices (`BitmatrixDecode`
and the `ScheduledDecode` it extends), for every set of codes, every k, m and w, and every list of
lost devices:

- `WritesLostOnceHolds`.  `DecodeInvariant` says, for each place of the code, in which packets of the
  lost devices nothing has been written yet.  A schedule writes them in the order of the devices'
  places (`Turn`, `PerformIs`); without one `DotprodIs` and `ReencodeIs` say how far the loops over
  devices have come, and that the device left to parity is passed over by the first loop.  The
  cache has an entry of the right length for every pair that comes before the one in work
  (`CacheIs`, `Earlier`), so that no call finds an empty one.
- `ErasedRecreatedHolds`: `BSpec /\ []NeverSingular => []ErasedRecreated`.  The invariant
  `Recreation` says that `packets` is what is stored, but for the packets that are still to be
  recreated (`Missing`), and that whatever a decoder has made so far is right: a decoding row, of
  the schedule, the cache or the inverse, applied to the devices that are left gives the packet it
  stands for (`GoodRows`, `CacheGood`, `ScheduleGood`, `CodingIs`, `BitmatrixGood`).  For the inversion,
  `Sums` says that each row of `mat` is the XOR of those rows of the original that the row of `inv` names:
  row operations keep it (`Added`, `Swapped`), and at the end `mat` is the identity.  That rests on the
  algebra of XOR over sets: an element is in a sum if it is in an odd number of its terms
  (`Odd`, `Hits`), which makes sums linear and lets them be exchanged.  The device that
  `jerasure_bitmatrix_decode` leaves to parity needs the first coding device to be plain
  parity, which is what `row_k_ones` claims (`FirstIsParity`), and its packet to be the XOR of
  all others.

**`MatrixDecode_proofs`**, for every k, m, word size, set of coding matrices and set of
erasures, in both copies of the library:

- `WritesErasedOnceHolds`: a call never writes to an intact device, and to an erased one
  at most once.  Intact devices are easy; the other half needs to know that the loop that
  leaves the last erased device to parity stops there.  `DecodeInv` says that `edd` counts
  the erased data devices from `d` on (`LeftFrom`), that `lastdrive` is erased unless it
  is k, and which devices can have been written at each place of the code.  The matrix
  inversion may do what it likes, as it writes to no device.
- `InvertsOrReportsHolds`.  `IInv`: `mat` and `inv` have gone through the same row operations
  (`inv` times the original is `mat`), no operation changes what `mat` maps to 0, and the two
  sweeps have brought it to the shape that `i` and `j` tell.  At the end `mat` is the identity,
  hence `inv` the inverse; where no pivot is left, back substitution gives a vector other than
  0 that is mapped to 0, so the original has no inverse.
- `DecodesOrRefusesHolds`, and `CodingRecreatedHolds` for jerasure's own copy (`~Incremental`;
  for the other one it is false, section 4).  `Safe`: the matrix that is inverted is that of
  the survivors, a last device is left to parity only if that one can recreate it (`CallInv`),
  and each device written holds the codeword, the others what they held (`HoldsInv`).

**`Coders_proofs`**:

- `CompletedRunStandsHolds`, `DecodedIsOriginalHolds`, for every set of names, versions and
  arguments and any number of runs, kills and losses.  `RunInv`: while an encoder runs, the files of
  the devices before the one at hand have their block of this read-in, the others those of the
  earlier ones, and no earlier run is taken to stand.  `DecInv`: what the decoder has written is
  the beginning of the input up to its read-in, and what it misses only grows.  The arithmetic of
  the padded size and of the blocks (`CoderSizes`) is proved along with it.
- `FirstBlockRecoveredHolds`, for every number of disks and rows and all sizes.  `ForkInv`:
  when the first run stored disk 1 and was not killed, each row begins with the parity of that
  block from the step on in which the run appended it, as a log is only appended to
  (`FirstRowsInv`), with the coefficient of the code of that run; whichever rows the decoder
  reads, they begin with the same block, so that what it solves agrees with it, whatever sizes it
  has been given, if its code has the same coefficients in these rows (`ResultInv`).
- `ParityTracksDataHolds`.  The invariant `TrackInv` splits the blocks of a disk into those that
  are settled and the one at hand, which rows behind the one that is next do not have yet;
  `StageInv` says that no staging file gets ahead of its row, also in the rows a run has still to
  append to, `CodingInv` that the buffers hold the parity of the block at hand, and `RowInv` that
  of the settled blocks no more are missing in a row than runs were killed.  A row that has its
  block and is still to be renamed counts among those that have it (`Waiting`).
- `CodersHold` lifts the four to `CodersSpec`: a directory is used by the whole-file coder or by
  one fork, and the variables of the other part do not change.

**`SimpleRegenerating_proofs`**, for every number of nodes, data nodes and stripes, every size of
input, buffer and word:

- `AnyKNodesHolds`, `RebuiltByXorHolds`.  `SRInv`: the pieces of the stripes dealt out lie on
  the nodes of the lookup table, which is a permutation of the nodes in each stripe
  (`DealtInv`), those of the stripe at hand are in the buffers (`StripeInv`, `WriteInv`), and the
  XORs are the sums of what was encoded (`SumsOf`, `XorsInv`).  A sum is a set of terms here, so
  that this is about the parity of cardinalities: of a term that occurs in f pieces.
- `InputStoredHolds`.  `StoreInv`: the totals of the chunks are those of the bytes read so far,
  clipped at the end of the input, and what was read at a position is what the piece on a node
  holds.

**`Utilities_proofs`**:

- `PiecesApartHolds` (block pool), for every page size, alignment, width of a size and set of
  requests, with page allocations that fail.  `PoolInv`: nothing behind the offset of the page in
  use has been handed out, an offset within a page means that this page is the last one, and all
  offsets are multiples of the alignment.  The proof is arithmetic for the most part
  (`AlignedRoundsUp`: aligning a request rounds it up unless the sum wraps).
- `KeysFoundHolds` (tables), for every number of slots, every set of keys and every hash
  function, so with any collisions, and with allocations that fail.  For the first table
  `TableInv` says that the way from a key's home
  slot to its pair leads over no free slot and that no key has two pairs: deleting leaves a
  mark, so no way is ever interrupted.  For the second one, whose search can stop early,
  `Table2Inv` says that a key that was stored is `Reached` before the search stops.
  `LeastOf` gives the slot at which a search stops.
- `BytesInOrderHolds` (buffers), for every size of a page and of what callers hand over.
  `ChainInv`: there is a page for each call that put bytes, and if there is no other, each page
  begins with the bytes of its call.  `SimpleInv`: pointer and length span the page, and unless
  more was counted than queued, what is queued lies from the pointer on.
- `CountsOwnFailuresHolds`, `OutcomesTrueHolds` (write test), for any number of testers and
  processes, loops, sizes of a file and mishaps.  `WTInv` has a part per question: which
  processes a tester has waited for (`WaitInv`), whose segment a process writes to (`KeyInv`,
  `OwnInv`: unless set-ups crossed, its own), which inode a name leads to (`NamesInv`), and, for
  a process that met no namesake, what is in the file it has open (`AloneInv`).

The last part of the module is about the smart scheduler (`SmartSchedule`), for every size and every
bitmatrix:

- `ScheduleTypeCorrect`, `ListIsTodoHolds`, `GreedyChoiceHolds`.  The invariant is
  `TypeOK /\ ListIsTodo /\ GreedyChoice /\ CostInv /\ WalkInv`: costs stay within
  0..C, and during a walk `bestrow` is a cheapest row of those passed.
  Unlinking a row from the middle of the list needs the most work
  (`UnlinkKeepsList`: first, last, only and inner row).
- `FitsOperationsHolds`, `ComputesProductHolds`.  `WorkInv` adds: the cost of a row that is
  done is the number of its operations (`OpsInv`), a row is derived only from one that is done
  (`SourceInv`), and performing what is scheduled so far leaves in the rows that are done their
  products and nothing in the others (`MemInv`).  No row costs more than building it from
  nothing, so that the operations fit, row by row, and the dumb schedule is not shorter.

**`CodingMatrix_proofs`**, for every k and m and every w the model has (1 to 4: `cbest` is
modelled that far), both techniques and the looked-up second rows.  That a matrix is regular is
stated without determinants, by what its rows do to vectors: `Determines`, only the zero vector is
mapped to 0 by as many rows as it has elements, and `Regular`, the same of the rows together with
those of the identity.

- Where a matrix comes from.  `VandermondePivotal`: a row of powers maps a vector to the value of
  a polynomial, and a polynomial has no more roots than its degree, as each root divides it
  (`Division`, `DivisionStep`, by Horner's rule from the highest coefficient down); the two rows
  that are not powers take the constant term or the leading one off.  `OriginalRegular`: a row of a
  Cauchy matrix can be cleared of a column at the price of a row (`TakesOut`), until nothing is
  left (`CauchySolved`).  `BestRegular`: of a row of ones and one whose elements differ and are not 0.
- What keeps it.  Swapping rows, scaling a row or a column by something other than 0, adding a
  multiple of a column to another.  So the invariant `MatrixInv` (`MatrixInvHolds`) says of each
  place of the code that the matrix in work is one with `k + m` rows any k of which determine a vector, that the
  rows above the one at hand are those of the identity (`IsPivotal`, `IsClearing`), that at the end
  the rows under the identity are regular (`IsTopped`, `IsRegular`), and which rows and columns
  are ones by now (`OnesTo`, `OnesDown`).
- `PivotLeftHolds`: the rows above row i, being those of the identity, have a 0 in column i; were
  there no pivot below either, the column would be 0 and its unit vector mapped to 0 by all rows
  (`PivotExists`).  The exit in `reed_sol.c` is never taken.
- `FitForDecodersHolds`.  A square part of a regular matrix has a determinant other than zero
  (`MinorsNotZero`), by induction over the number of rows: the minors of the other rows, as a vector, are not all 0 and
  are mapped to 0 by these rows, as two equal rows make a determinant 0
  (`RepeatedRow`); if the first row mapped
  them to 0 too, regularity would make them 0.  The rows and columns of ones are in `MatrixInv`.

**`CommonLemmas`** makes up for the library's induction theorems, which take an operator as a
parameter and so cannot be used: induction over a *set* of naturals, from the fact that < is
well-founded; least and greatest elements; that a function defined from its value one before
exists; quotient and rest; `FlattenSeq`.  And it has the laws of the field, for w = 1..8: a product is made
by doubling and adding; that doubling is linear gives that products are linear in both arguments,
associative and commutative, and with the inverses (section 3) everything elimination needs.

*Only model-checked.*

- Liveness: `EncoderTerminates`, `Finishes`, `TestEnds` need fairness, which is beyond the
  prover.
- `TablesAreFull`, `WideWords`: each speaks of the elements of a field for given polynomials;
  that x generates the field is a computation for each w, and TLC does it.
- `FewOnes` compares numbers of ones in the bits of particular elements, which TLC counts for each
  matrix.
- `NeverSingular` of scheduled decoding is about particular families of bitmatrices (Liberation,
  Blaum-Roth, liber8tion, Cauchy): that every choice of k devices determines the data is the theory of
  these codes, for a prime w, or a table for w = 8.  `ErasedRecreatedHolds` takes it as a
  hypothesis, which is all it takes.
- `DecoderRecovers` outside the use named above: for k < 10 the indexed matrix is a different one,
  and rows 1 and 2 of it need not differ in the columns of disks 1 and 2.

---------------------------------------------------------------------------

## 6. Hazards

`PROJECT.json` lists each hazard at its line with the properties that guard it.  The
note of a hazard says where the code does go wrong and what is left to promise: a
staging file that a kill leaves behind, an `init` that is not 0, encoder processes that
overlap, metadata that name another code than that of the block.  One hazard has no property:
a k for which the 30 numbers of the matrix are not its rows, which `DecoderRecovers` excludes by
its constants.  That a third disk is taken for zeros it excludes by its precondition (section 8).

---------------------------------------------------------------------------

## 7. Plan

Done, in this order, most important behaviour first: the incremental store and its
abstract specification; the decoder on it; the scheduler; matrix decoding; the field;
coding matrices; the regenerating code; scheduled decoding.

Then the positional stores and the whole-file coder; encoder processes side by side; the
rest of the library (bitmatrix decoding, the dumb scheduler, split tables, regions,
RAID-6); buffers, tables and pool; the write test.

Left: the tables `cbest_k` above w = 4, `jerasure_invertible_matrix`, and the dictionary
if a program comes to use it.

Theorems worth proving next: `NeverSingular` for one family, say Liberation with two data
devices lost, by the argument of its paper, or Cauchy, from the regularity of its matrix;
`DecoderRecovers` for k < 10, where the columns of disks 1 and 2 must be looked at one by one.

---------------------------------------------------------------------------

## 8. Not modelled, and why

- Random input (`-N`), argument parsing, timing output, wording of the metadata:
  no property depends on them.  Failures of `malloc` and `fopen` outside the encoder
  and the tables end the program.
- Torn writes and lost directory entries: the code makes no attempt at either, and any
  property would be about the file system.
- `dictionary.c`, `iniparser.h`, `transform.c`, `queue.h`: third-party
  code no program calls.  Logging and macros: no state.
- Programs that cannot be built or run: `van_encoder.c`, `van_decoder.c` and
  `jerasure/decoder.c` call the library with arguments its headers do not allow;
  `van_encode.c` reads `newsize` before it is set.

Disagreements met while reading that no run shows:

- `van_decoder_incr.c:225` takes disks 3..k to be zero instead of reading them; its header,
  lines 34-35: "It reads in the k+m files or marks the file as erased".
- `van_encoder_incr.c:416` opens the input again in each iteration, so that each block of a
  k file is the beginning of the input, not "parts of the original file" (lines 43-45).
- For k other than 10 the encoder indexes its 3x10 matrix as if rows had k entries; it is
  another code, and the decoder uses the same one.  For k < 10 its rows 1 and 2 both begin
  with 1, 1, so the decoder cannot solve from them.
- A second run of the decoder appends to the decoded files.
- Inputs of one or three read-ins leave parity in the staging files.
- `SRC.c`: a buffer size below half a unit is adjusted to 0, and the end of the input is
  dropped (`InputStored` excludes this by name).
- `ec_src.c`: `create_lookup_tables` assigns its parameter, so the caller never sees
  the table.
- The Cauchy encoders do not check m = 2 for Liberation and Blaum-Roth codes and do not
  look whether a coding matrix is NULL.
- The schedule decoders return success for a singular matrix (`jerasure.h:142` says
  that the decoders return integers because the matrix may not be invertible).
- `cauchy_encoder.c` stores and encodes only the first 1/k of each read-in;
  `cauchy_decoder.c` uses another block size when there is a single read-in, decodes only
  block 1 and writes `strlen` bytes of it.  It decodes with the technique of the latest run, which
  need not be that of block 1.
- `cauchy_encoder_incr.c` loads the old parity, and the schedule then copies over it.
- `sim_buffer.c`: `tb_delete2` looks at the home slot only; the loop never moves on.
  `init_kv_table2` clears the size of a key, not of a slot, for each slot.
  A lookup compares the key of a deleted slot before it asks for the mark.  The
  counts `n` are never decreased, and grow when a value is replaced.
  `buffer_printf` expands the chain, and so does the `buffer_copy` it calls, so every text
  is preceded by an empty page.  `sbuffer_printf` compares a negative rest without sign.
- `test_write.c:564`: `shmat` fails with -1, which is compared with 0.  A killed or
  unforked process counts as passed.
