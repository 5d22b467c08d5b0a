--------------------------- MODULE ScheduledDecode ---------------------------
(***************************************************************************)
(* Decoding with schedules: jerasure_schedule_decode_lazy makes a schedule *)
(* for the devices that are lost, jerasure_schedule_decode_cache takes it  *)
(* from a cache that holds one for every pair of devices.  Both fill in    *)
(* the lost devices in place, packet by packet.                            *)
(*                                                                         *)
(* A schedule stands for the decoding bitmatrix it was made from: row r of *)
(* it is the set of packets whose sum the schedule writes to destination   *)
(* packet r.  That the schedulers get this right, and leave the packet of  *)
(* an empty row alone, is ComputesProduct in SmartSchedule.                *)
(*                                                                         *)
(* A packet is the set of data packets it is the sum of.                   *)
(***************************************************************************)
EXTENDS Bitmatrices, SequencesExt

CONSTANTS Codes,        \* records of tech, k, m and w
          NULL

ASSUME CodesAssumption ==
    \A c \in Codes : /\ c.tech \in {"liberation", "blaum_roth", "liber8tion", "cauchy_orig"}
                     /\ c.k \in Nat \ {0} /\ c.m \in Nat \ {0} /\ c.w \in 1..8
                     /\ c.tech = "cauchy_orig" => c.k + c.m <= 2^c.w
                     /\ c.tech # "cauchy_orig" => c.m = 2
ASSUME NullAssumption == NULL \notin Seq(Nat)
\* No element of a Cauchy matrix is 0, and so no row of its bitmatrix is empty.
ASSUME CauchyAssumption ==
    \A c \in Codes : c.tech = "cauchy_orig" =>
        \A r \in 0..c.m*c.w-1 : Bitmatrix(c)[r] # {}

VARIABLES
    code, bitmatrix,
    scache,             \* the cache: a schedule or NULL for every index
    erasures,           \* the list of devices to decode, without its end mark
    packets,            \* what the devices hold
    mat, inv, col,      \* jerasure_invert_bitmatrix and its loop variable
    inverted,           \* its result, which its caller ignores
    decoding_rows,      \* real_decoding_matrix as far as it is made
    schedule, op,       \* the schedule to perform and the next row of it
    caller,             \* who asked for the schedule: "lazy" or "cache"
    pc, ret

inverting == <<mat, inv, col, inverted>>
vars == <<code, bitmatrix, scache, erasures, packets, inverting,
          decoding_rows, schedule, op, caller, pc, ret>>

k == code.k
m == code.m
w == code.w
Devices == 0..k+m-1
Lines == 0..k*w-1
Packet(dev, x) == dev * w + x

\* The sum of a set of packets, given what each of them holds.
SumOf(S, held) == FoldSet(LAMBDA p, acc : Xor(held[p], acc), {}, S)

\* What the devices hold when everything is encoded.
Stored == [p \in 0..(k+m)*w-1 |->
              IF p < k*w THEN {p} ELSE bitmatrix[p - k*w]]
Garbage == {-1}

Lost == ToSet(erasures)
LostData == {d \in Lost : d < k}
ddf == Cardinality(LostData)

-----------------------------------------------------------------------------
\* set_up_ids and set_up_ptrs: data device d, or in its place the first intact
\* coding device not yet used; then the lost devices in ascending order.
Place(S, d) == Cardinality({e \in S : e < d})
RowIds(lost) ==
    LET intact == (k..k+m-1) \ lost IN
    [x \in 0..k + Cardinality(lost) - 1 |->
        IF x >= k THEN CHOOSE d \in lost : Place(lost, d) = x - k
        ELSE IF x \in lost
             THEN CHOOSE c \in intact : Place(intact, c) = Place(lost, x)
        ELSE x]
row_ids == RowIds(Lost)

\* The rows of the devices in the first k places.
PlaceRows(ids) ==
    [r \in Lines |->
        LET d == ids[r \div w] IN
        IF d < k THEN {Packet(d, r % w)} ELSE bitmatrix[Packet(d - k, r % w)]]

Init ==
    /\ code \in Codes
    /\ bitmatrix = Bitmatrix(code)
    /\ scache = NULL
    /\ erasures = <<>>
    /\ packets = Stored
    /\ mat = NULL /\ inv = NULL /\ col = 0 /\ inverted = TRUE
    /\ decoding_rows = <<>> /\ schedule = NULL /\ op = 0
    /\ caller = "lazy"
    /\ pc = "idle" /\ ret = 0

\* jerasure_generate_decoding_schedule for the devices in list.
Generate(list) ==
    /\ erasures' = list
    /\ decoding_rows' = <<>>
    /\ inverted' = TRUE
    /\ IF \E x \in 1..Len(list) : list[x] < k
       THEN /\ mat' = PlaceRows(RowIds(ToSet(list)))
            /\ inv' = [r \in Lines |-> {r}]
            /\ col' = 0
            /\ pc' = "triangle"
       ELSE /\ mat' = NULL /\ inv' = NULL /\ col' = 0
            /\ pc' = "coding"

\* Its matrices are freed when it returns.
Freed ==
    /\ mat' = NULL /\ inv' = NULL /\ col' = 0 /\ inverted' = TRUE
    /\ decoding_rows' = <<>>

\* One column of the way down: the first row with a 1 comes up, and is added
\* to the rows below.  Without one, -1 is returned, and nobody looks at it.
Pivots == {r \in Lines : r >= col /\ col \in mat[r]}
Added(matrix, r, to) == [x \in Lines |-> IF x \in to THEN Xor(matrix[x], matrix[r])
                                                     ELSE matrix[x]]
Triangle ==
    /\ pc = "triangle"
    /\ IF Pivots = {}
       THEN pc' = "data" /\ inverted' = FALSE /\ UNCHANGED <<mat, inv, col>>
       ELSE LET p == Min(Pivots)
                swap(matrix) == [matrix EXCEPT ![col] = matrix[p], ![p] = matrix[col]]
                below == {r \in Lines : r > col /\ col \in swap(mat)[r]}
            IN  /\ mat' = Added(swap(mat), col, below)
                /\ inv' = Added(swap(inv), col, below)
                /\ col' = col + 1
                /\ pc' = IF col' = k*w THEN "back" ELSE pc
                /\ UNCHANGED inverted
    /\ UNCHANGED <<code, bitmatrix, scache, erasures, packets, decoding_rows,
                   schedule, op, caller, ret>>

\* One column of the way back, from the last: it is cleared above the diagonal.
Back ==
    /\ pc = "back"
    /\ IF col = 0
       THEN pc' = "data" /\ UNCHANGED <<mat, inv, col>>
       ELSE LET i == col - 1
                above == {r \in Lines : r < i /\ i \in mat[r]}
            IN  /\ mat' = Added(mat, i, above)
                /\ inv' = Added(inv, i, above)
                /\ col' = i
                /\ UNCHANGED pc
    /\ UNCHANGED <<code, bitmatrix, scache, erasures, packets, inverted,
                   decoding_rows, schedule, op, caller, ret>>

\* The rows of the lost data devices are those of the inverse.
DataRows ==
    /\ pc = "data" /\ caller # "bitmatrix"
    /\ decoding_rows' =
          [r \in 1..ddf*w |-> inv[Packet(row_ids[k + (r-1) \div w], (r-1) % w)]]
    /\ pc' = "coding"
    /\ UNCHANGED <<code, bitmatrix, scache, erasures, packets, inverting,
                   schedule, op, caller, ret>>

\* The next lost coding device: its own rows, with the columns of a lost data
\* device replaced by the rows that recreate that device.
RowOf(d, y) == decoding_rows[Packet(Place(Lost, d), y) + 1]
Mutant_CodingRow(r) ==
    LET lost == {c \in bitmatrix[r] : c \div w \in Lost} IN
    FoldSet(LAMBDA c, acc : Xor(RowOf(c \div w, c % w), acc), bitmatrix[r], lost)
CodingRow(r) ==
    LET lost == {c \in bitmatrix[r] : c \div w \in Lost} IN
    FoldSet(LAMBDA c, acc : Xor(RowOf(c \div w, c % w), acc),
            bitmatrix[r] \ lost, lost)
CodingDevice ==
    /\ pc = "coding"
    /\ Len(decoding_rows) < Cardinality(Lost) * w
    /\ LET drive == row_ids[k + Len(decoding_rows) \div w] - k IN
       decoding_rows' = decoding_rows \o
                           [y \in 1..w |-> CodingRow(Packet(drive, y - 1))]
    /\ UNCHANGED <<code, bitmatrix, scache, erasures, packets, inverting,
                   schedule, op, caller, pc, ret>>

-----------------------------------------------------------------------------
\* jerasure_generate_schedule_cache: pairs e2 < e1, then e1 alone, for every e1.
Index(list) == list[1] * (k+m) + IF Len(list) = 1 THEN list[1] ELSE list[2]
CacheOrder(list) ==
    LET e1 == list[1] IN
    IF Len(list) = 1
    THEN IF e1 = k+m-1 THEN NULL ELSE <<e1 + 1, 0>>
    ELSE IF list[2] + 1 = e1 THEN <<e1>> ELSE <<e1, list[2] + 1>>

BeginCache ==
    /\ pc = "idle" /\ packets = Stored
    /\ m = 2
    /\ scache = NULL
    /\ scache' = [x \in 0..(k+m)*(k+m+1)-1 |-> NULL]
    /\ caller' = "cache"
    /\ Generate(<<0>>)
    /\ UNCHANGED <<code, bitmatrix, packets, schedule, op, ret>>

\* The pair is stored under both of its orders.
CacheSchedule ==
    /\ pc = "coding" /\ caller = "cache"
    /\ Len(decoding_rows) = Cardinality(Lost) * w
    /\ scache' = [scache EXCEPT ![Index(erasures)] = decoding_rows,
                                ![Index(Reverse(erasures))] = decoding_rows]
    /\ IF CacheOrder(erasures) = NULL
       THEN Freed /\ erasures' = <<>> /\ pc' = "idle"
       ELSE Generate(CacheOrder(erasures))
    /\ UNCHANGED <<code, bitmatrix, packets, schedule, op, caller, ret>>

-----------------------------------------------------------------------------
\* Devices are lost, and listed in any order.
Fail(list) ==
    packets' = [p \in DOMAIN packets |->
                   IF p \div w \in ToSet(list) THEN Garbage ELSE packets[p]]

TooMany(list) == Len(list) > m

\* jerasure_schedule_decode_lazy.
DecodeLazy(list) ==
    /\ pc = "idle" /\ packets = Stored
    /\ Fail(list)
    /\ caller' = "lazy"
    /\ IF TooMany(list)
       THEN /\ erasures' = list
            /\ ret' = -1 /\ pc' = "idle"
            /\ UNCHANGED <<inverting, decoding_rows>>
       ELSE Generate(list) /\ ret' = ret
    /\ UNCHANGED <<code, bitmatrix, scache, schedule, op>>

LazySchedule ==
    /\ pc = "coding" /\ caller = "lazy"
    /\ Len(decoding_rows) = Cardinality(Lost) * w
    /\ schedule' = decoding_rows
    /\ op' = 1
    /\ pc' = "perform"
    /\ Freed
    /\ UNCHANGED <<code, bitmatrix, scache, erasures, packets, caller, ret>>

\* jerasure_schedule_decode_cache.
DecodeCache(list) ==
    /\ pc = "idle" /\ packets = Stored
    /\ scache # NULL
    /\ Fail(list)
    /\ erasures' = list
    /\ IF Len(list) > 2
       THEN ret' = -1 /\ UNCHANGED <<schedule, op, pc>>
       ELSE /\ schedule' = scache[Index(list)]
            /\ op' = 1 /\ pc' = "perform" /\ ret' = ret
    /\ UNCHANGED <<code, bitmatrix, scache, inverting, decoding_rows, caller>>

Mutant_Perform ==
    /\ pc = "perform"
    /\ op <= Len(schedule)
    /\ LET dest == Packet(row_ids[(op-1) \div w], (op-1) % w)
           value == SumOf(schedule[op],
                          [c \in Lines |-> packets[Packet(row_ids[c \div w], c % w)]])
       IN  packets' = IF schedule[op] = {} THEN packets
                                           ELSE [packets EXCEPT ![dest] = value]
    /\ op' = op + 1
    /\ UNCHANGED <<code, bitmatrix, scache, erasures, inverting, decoding_rows,
                   schedule, caller, pc, ret>>
\* The packets of a row are added up into its destination.
Perform ==
    /\ pc = "perform"
    /\ op <= Len(schedule)
    /\ LET dest == Packet(row_ids[k + (op-1) \div w], (op-1) % w)
           value == SumOf(schedule[op],
                          [c \in Lines |-> packets[Packet(row_ids[c \div w], c % w)]])
       IN  packets' = IF schedule[op] = {} THEN packets
                                           ELSE [packets EXCEPT ![dest] = value]
    /\ op' = op + 1
    /\ UNCHANGED <<code, bitmatrix, scache, erasures, inverting, decoding_rows,
                   schedule, caller, pc, ret>>

Return ==
    /\ pc = "perform"
    /\ op > Len(schedule)
    /\ pc' = "idle" /\ ret' = 0
    /\ schedule' = NULL /\ op' = 0 /\ erasures' = <<>>
    /\ UNCHANGED <<code, bitmatrix, scache, packets, inverting, decoding_rows,
                   caller>>

Lists == {<<d>> : d \in Devices}
    \cup {<<d, e>> : d \in Devices, e \in Devices}
    \cup {<<d, e, f>> : d \in Devices, e \in Devices, f \in Devices}
Calls == {l \in Lists : Cardinality(ToSet(l)) = Len(l)}

Step == Triangle \/ Back \/ DataRows \/ CodingDevice \/ CacheSchedule
        \/ LazySchedule \/ Perform \/ Return

Next ==
    \/ BeginCache
    \/ \E list \in Calls : DecodeLazy(list) \/ DecodeCache(list)
    \/ Step

Spec == Init /\ [][Next]_vars /\ WF_vars(Step)

-----------------------------------------------------------------------------
\* A decoder that returns 0 has recreated every lost device, data and coding,
\* from whichever devices were left and in whichever order they were listed;
\* a schedule from the cache does the same as one made for the occasion.  If
\* it returns -1, more than m devices are lost and nothing was written.
ErasedRecreated ==
    Accepts(code) /\ pc = "idle" =>
        /\ ret = 0 => packets = Stored
        /\ ret = -1 =>
              /\ Len(erasures) > m
              /\ \A p \in DOMAIN packets :
                    packets[p] = IF p \div w \in Lost THEN Garbage ELSE Stored[p]

\* jerasure_generate_decoding_schedule does not look at the result of the
\* inversion.  It need not: for every code that the encoder accepts, the
\* devices that are left always determine the data.
NeverSingular == Accepts(code) => inverted

\* Both ways of decoding write lost devices only, and each packet of them once.
WritesLostOnce ==
    [][(pc \in {"perform", "dotprod", "reencode"}) =>
         \A p \in DOMAIN packets :
            packets'[p] # packets[p] => p \div w \in Lost /\ packets[p] = Garbage]_vars
=============================================================================
