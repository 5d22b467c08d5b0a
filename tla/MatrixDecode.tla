---------------------------- MODULE MatrixDecode ----------------------------
(***************************************************************************)
(* jerasure_matrix_decode: recreates erased devices in place.  It calls    *)
(* jerasure_invert_matrix, whose variables and steps are MatrixInvert's.   *)
(*                                                                         *)
(* The k data devices hold unknown data, so a block is a vector: its       *)
(* element c is the coefficient of data device c, and element k that of    *)
(* whatever an erased device holds before it is recreated.                 *)
(***************************************************************************)
EXTENDS MatrixInvert

CONSTANTS m,
          Matrices,     \* the coding matrices, functions of 0..m-1
          Incremental   \* jerasure_incr.c instead of jerasure.c

ASSUME DecodeAssumption ==
    /\ m \in Nat \ {0}
    /\ Matrices \subseteq [0..m-1 -> [Index -> Field]]
    /\ \A a \in Matrices : \A r \in 0..m-1 : \E c \in Index : a[r][c] # Zero
    /\ Incremental \in BOOLEAN
    /\ NULL \notin {0, -1}

VARIABLES
    matrix, row_k_ones, erased,
    block,              \* data_ptrs, then coding_ptrs
    edd, lastdrive,     \* erased data devices left to decode; where to stop
    decoding_matrix,
    d,                  \* loop variable
    dpc, ret

dvars == <<matrix, row_k_ones, erased, block, edd, lastdrive, decoding_matrix,
           d, dpc, ret>>

Data == 0..k-1
Devices == 0..k+m-1

Unit(c) == [e \in 0..k |-> IF e = c THEN One ELSE Zero]
Garbage == Unit(k)
Scale(v, f) == [e \in 0..k |-> Products[v[e]][f]]

\* The vector sum of f(c) over a set of devices.
XorOver(S, f(_)) ==
    [e \in 0..k |-> SumOver(S, LAMBDA c : f(c)[e])]

\* What device dev holds when the matrix is encoded.
Codeword(dev) ==
    IF dev < k THEN Unit(dev)
               ELSE XorOver(Data, LAMBDA c : Scale(Unit(c), matrix[dev - k][c]))

\* The first k devices that are not erased, in ascending order.
dm_ids ==
    CHOOSE ids \in [Data -> Devices] :
        /\ \A c \in Data : ~erased[ids[c]]
        /\ \A c \in Data : Cardinality({e \in 0..ids[c] : ~erased[e]}) = c + 1

\* jerasure_make_decoding_matrix: the rows of those devices.
Survivors ==
    LET ids == dm_ids IN
    [r \in Data |-> [c \in Data |->
        IF ids[r] < k THEN IF ids[r] = c THEN One ELSE Zero
                      ELSE matrix[ids[r] - k][c]]]

\* jerasure_matrix_dotprod with a list of source devices: the first term is
\* copied to the destination, so a row of zeros leaves it as it is.
Dotprod(dest, row, ids) ==
    IF \A c \in Data : row[c] = Zero
    THEN block[dest]
    ELSE XorOver(Data, LAMBDA c : Scale(block[ids[c]], row[c]))

\* jerasure_matrix_dotprod without one: the sources are the data devices.  The
\* incremental library adds a single device there, device 0 in this call, and
\* touches nothing when its coefficient is 0.
AddDevice0(dest, row) ==
    IF row[0] = Zero THEN block[dest] ELSE Scale(block[0], row[0])
Mutant_Encoded(r) == Dotprod(k + r, matrix[0], [c \in Data |-> c])
Encoded(r) ==
    IF Incremental THEN AddDevice0(k + r, matrix[r])
                   ELSE Dotprod(k + r, matrix[r], [c \in Data |-> c])

-----------------------------------------------------------------------------
Init ==
    /\ matrix \in Matrices
    /\ row_k_ones \in BOOLEAN
    /\ row_k_ones => \A c \in Data : matrix[0][c] = One
    /\ erased \in [Devices -> BOOLEAN]
    /\ block = [dev \in Devices |-> IF erased[dev] THEN Garbage ELSE Codeword(dev)]
    /\ edd = 0 /\ lastdrive = k /\ d = 0
    /\ decoding_matrix = NULL
    /\ dpc = "begin" /\ ret = NULL
    /\ IInit

ErasedData == {c \in Data : erased[c]}

\* jerasure_erasures_to_erased refuses when fewer than k devices are left.
TooMany ==
    /\ dpc = "begin"
    /\ Cardinality({dev \in Devices : ~erased[dev]}) < k
    /\ dpc' = "returned" /\ ret' = -1
    /\ UNCHANGED <<matrix, row_k_ones, erased, block, edd, lastdrive,
                   decoding_matrix, d, ivars>>

\* The last erased data device can be left to the parity device, row 0.
Mutant_UseParity == row_k_ones
UseParity == row_k_ones /\ ~erased[k]

Begin ==
    /\ dpc = "begin"
    /\ Cardinality({dev \in Devices : ~erased[dev]}) >= k
    /\ edd' = Cardinality(ErasedData)
    /\ lastdrive' = IF UseParity /\ ErasedData # {}
                    THEN CHOOSE c \in ErasedData : \A e \in ErasedData : e <= c
                    ELSE k
    /\ IF edd' > 1 \/ (edd' > 0 /\ ~UseParity)
       THEN /\ Call(Survivors)
            /\ dpc' = "invert"
       ELSE /\ UNCHANGED ivars
            /\ dpc' = "decode"
    /\ UNCHANGED <<matrix, row_k_ones, erased, block, decoding_matrix, d, ret>>

Inverting ==
    /\ dpc = "invert"
    /\ IStep
    /\ UNCHANGED dvars

InvertReturns ==
    /\ dpc = "invert"
    /\ IF pc = "singular"
       THEN dpc' = "returned" /\ ret' = -1 /\ UNCHANGED decoding_matrix
       ELSE /\ pc = "done"
            /\ decoding_matrix' = inv
            /\ dpc' = "decode"
            /\ ret' = ret
    /\ UNCHANGED <<matrix, row_k_ones, erased, block, edd, lastdrive, d, ivars>>

\* One iteration over the data devices in front of lastdrive.
DecodeData ==
    /\ dpc = "decode"
    /\ edd > 0 /\ d < lastdrive
    /\ IF erased[d]
       THEN /\ block' = [block EXCEPT ![d] = Dotprod(d, decoding_matrix[d], dm_ids)]
            /\ edd' = edd - 1
       ELSE UNCHANGED <<block, edd>>
    /\ d' = d + 1
    /\ UNCHANGED <<matrix, row_k_ones, erased, lastdrive, decoding_matrix, dpc,
                   ret, ivars>>

\* lastdrive is the sum of the other data devices and the parity device.
OtherDevices == [c \in Data |-> IF c < lastdrive THEN c ELSE c + 1]
DecodeLast ==
    /\ dpc = "decode"
    /\ ~(edd > 0 /\ d < lastdrive)
    /\ IF edd > 0
       THEN block' = [block EXCEPT ![lastdrive] =
                         Dotprod(lastdrive, matrix[0], OtherDevices)]
       ELSE UNCHANGED block
    /\ d' = 0
    /\ dpc' = "reencode"
    /\ UNCHANGED <<matrix, row_k_ones, erased, edd, lastdrive, decoding_matrix,
                   ret, ivars>>

\* One iteration over the coding devices.
Mutant_Reencode ==
    /\ dpc = "reencode"
    /\ d < m
    /\ IF erased[k + d] THEN block' = [block EXCEPT ![d] = Encoded(d)]
                        ELSE UNCHANGED block
    /\ d' = d + 1
    /\ UNCHANGED <<matrix, row_k_ones, erased, edd, lastdrive, decoding_matrix,
                   dpc, ret, ivars>>
Reencode ==
    /\ dpc = "reencode"
    /\ d < m
    /\ IF erased[k + d] THEN block' = [block EXCEPT ![k + d] = Encoded(d)]
                        ELSE UNCHANGED block
    /\ d' = d + 1
    /\ UNCHANGED <<matrix, row_k_ones, erased, edd, lastdrive, decoding_matrix,
                   dpc, ret, ivars>>

Return ==
    /\ dpc = "reencode"
    /\ d = m
    /\ dpc' = "returned" /\ ret' = 0
    /\ UNCHANGED <<matrix, row_k_ones, erased, block, edd, lastdrive,
                   decoding_matrix, d, ivars>>

Next == \/ TooMany \/ Begin \/ Inverting \/ InvertReturns
        \/ DecodeData \/ DecodeLast \/ Reencode \/ Return

Spec == Init /\ [][Next]_<<dvars, ivars>> /\ WF_<<dvars, ivars>>(Next)

-----------------------------------------------------------------------------
\* After 0 every data device is recreated, whichever way each was decoded:
\* no garbage of an erased device ends up in it.
DataRecreated == ret = 0 => \A c \in Data : block[c] = Unit(c)

\* "Finally, re-encode any erased coding devices": so is every coding device.
CodingRecreated == ret = 0 => \A dev \in k..k+m-1 : block[dev] = Codeword(dev)

\* -1 means that more than m devices are lost or that the first k devices left
\* do not determine the data; nothing was written then.
RefusesCleanly ==
    ret = -1 =>
        /\ \/ Cardinality({dev \in Devices : erased[dev]}) > m
           \/ Dependent(Survivors)
        /\ \A dev \in Devices :
              block[dev] = IF erased[dev] THEN Garbage ELSE Codeword(dev)

\* A call says 0 or -1, and either way the devices are what it says.
DecodesOrRefuses == DataRecreated /\ RefusesCleanly

\* A call never writes to a device that is not erased, and writes to an erased
\* one at most once.
WritesErasedOnce ==
    [][\A dev \in Devices :
          block'[dev] # block[dev] => erased[dev] /\ block[dev] = Garbage
      ]_<<dvars, ivars>>
=============================================================================
