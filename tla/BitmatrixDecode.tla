--------------------------- MODULE BitmatrixDecode ---------------------------
(***************************************************************************)
(* jerasure_bitmatrix_decode: decodes without a schedule, device by        *)
(* device.  It inverts the rows of the first k devices that are left, with *)
(* the elimination of ScheduledDecode, whose devices and codes it shares.  *)
(***************************************************************************)
EXTENDS ScheduledDecode

VARIABLES
    row_k_ones,     \* is the first coding device told to be plain parity?
    edd, lastdrive, \* lost data devices to go; the one left to parity, or k
    dm_ids,         \* the devices that decoding_matrix, here inv, applies to
    drive           \* loop variable

bvars == <<row_k_ones, edd, lastdrive, dm_ids, drive>>

BInit ==
    /\ Init
    /\ row_k_ones = FALSE /\ edd = 0 /\ lastdrive = k /\ drive = 0
    /\ dm_ids = NULL

\* jerasure_make_decoding_bitmatrix takes the first k devices that are left.
Intact(lost) ==
    [x \in 0..k-1 |-> CHOOSE d \in Devices \ lost : Place(Devices \ lost, d) = x]

FirstIsParity == \A y \in 0..w-1 : bitmatrix[y] = {Packet(d, y) : d \in 0..k-1}

DecodeBitmatrix(list, ones) ==
    LET data == {d \in ToSet(list) : d < k}
        parity == ones /\ k \notin ToSet(list)
    IN  /\ pc = "idle" /\ packets = Stored
        /\ ones => FirstIsParity
        /\ Fail(list)
        /\ erasures' = list
        /\ row_k_ones' = ones
        /\ caller' = "bitmatrix"
        /\ edd' = Cardinality(data)
        /\ lastdrive' = IF parity /\ data # {} THEN Max(data) ELSE k
        /\ drive' = 0
        /\ IF TooMany(list)
           THEN pc' = "idle" /\ ret' = -1 /\ UNCHANGED <<inverting, dm_ids>>
           ELSE /\ ret' = ret
                /\ IF edd' > 1 \/ (edd' > 0 /\ ~parity)
                   THEN /\ dm_ids' = Intact(ToSet(list))
                        /\ mat' = PlaceRows(dm_ids')
                        /\ inv' = [r \in Lines |-> {r}]
                        /\ col' = 0 /\ inverted' = TRUE
                        /\ pc' = "triangle"
                   ELSE pc' = "dotprod" /\ UNCHANGED <<inverting, dm_ids>>
        /\ UNCHANGED <<code, bitmatrix, scache, decoding_rows, schedule, op>>

\* A singular matrix ends the call before anything is written.
InverseMade ==
    /\ pc = "data" /\ caller = "bitmatrix"
    /\ IF inverted
       THEN pc' = "dotprod" /\ ret' = ret
       ELSE pc' = "idle" /\ ret' = -1
    /\ UNCHANGED <<code, bitmatrix, scache, erasures, packets, inverting,
                   decoding_rows, schedule, op, caller, bvars>>

\* jerasure_bitmatrix_dotprod: w rows, applied to the devices in ids; a packet
\* whose row is empty is not written.
Dotprod(rows, ids, dest) ==
    packets' = [p \in DOMAIN packets |->
        IF p \div w = dest /\ rows[p % w] # {}
        THEN SumOf(rows[p % w], [c \in Lines |-> packets[Packet(ids[c \div w], c % w)]])
        ELSE packets[p]]

unchanged_but_packets ==
    UNCHANGED <<code, bitmatrix, scache, erasures, inverting, decoding_rows,
                schedule, op, caller, ret, row_k_ones, lastdrive, dm_ids>>

\* A data device in front of lastdrive.
DotprodData ==
    /\ pc = "dotprod" /\ edd > 0 /\ drive < lastdrive
    /\ IF drive \in Lost
       THEN /\ Dotprod([y \in 0..w-1 |-> inv[Packet(drive, y)]], dm_ids, drive)
            /\ edd' = edd - 1
       ELSE UNCHANGED <<packets, edd>>
    /\ drive' = drive + 1
    /\ UNCHANGED pc
    /\ unchanged_but_packets

\* lastdrive, from the other data devices and the parity device.
Others == [x \in 0..k-1 |-> IF x < lastdrive THEN x ELSE x + 1]
DotprodLast ==
    /\ pc = "dotprod" /\ ~(edd > 0 /\ drive < lastdrive)
    /\ IF edd > 0 THEN Dotprod([y \in 0..w-1 |-> bitmatrix[y]], Others, lastdrive)
                  ELSE UNCHANGED packets
    /\ drive' = 0
    /\ pc' = "reencode"
    /\ UNCHANGED edd
    /\ unchanged_but_packets

Reencode ==
    /\ pc = "reencode" /\ drive < m
    /\ IF k + drive \in Lost
       THEN Dotprod([y \in 0..w-1 |-> bitmatrix[Packet(drive, y)]],
                    [x \in 0..k-1 |-> x], k + drive)
       ELSE UNCHANGED packets
    /\ drive' = drive + 1
    /\ UNCHANGED <<pc, edd>>
    /\ unchanged_but_packets

BReturn ==
    /\ pc = "reencode" /\ drive = m
    /\ pc' = "idle" /\ ret' = 0 /\ erasures' = <<>>
    /\ Freed /\ dm_ids' = NULL
    /\ UNCHANGED <<code, bitmatrix, scache, packets, schedule, op, caller,
                   row_k_ones, edd, lastdrive, drive>>

BNext ==
    \/ Next /\ UNCHANGED bvars
    \/ \E list \in Calls, ones \in BOOLEAN : DecodeBitmatrix(list, ones)
    \/ InverseMade \/ DotprodData \/ DotprodLast \/ Reencode \/ BReturn

BSpec == BInit /\ [][BNext]_<<vars, bvars>>
=============================================================================
