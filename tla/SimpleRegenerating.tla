------------------------- MODULE SimpleRegenerating -------------------------
(***************************************************************************)
(* SRC.c: encodes a file with a simple regenerating code.  The input is f  *)
(* stripes of k chunks.  Every stripe is encoded to n chunks, the chunks   *)
(* of the f stripes with the same index are XORed, and the n * (f + 1)     *)
(* chunks are spread over n node files by a lookup table, so that a lost   *)
(* file can be rebuilt by XOR and any k files determine the input.         *)
(*                                                                         *)
(* A byte is a set of terms, whose sum it is.  A term <<row, col, pos>> is *)
(* the element row,col of the coding matrix times the byte that was at     *)
(* position pos of the input; a byte as it was read has row and col -1,    *)
(* and pos is negative when it never was in the input.                     *)
(***************************************************************************)
EXTENDS Integers, FiniteSetsExt

CONSTANTS Inputs,   \* records of k, n, f, size and buffersize
          Unit      \* sizeof(int) * w

ASSUME SRCAssumption ==
    /\ Unit \in Nat \ {0}
    /\ \A p \in Inputs : /\ p.k \in Nat \ {0} /\ p.n \in Nat /\ p.n >= p.k
                         /\ p.f \in 1..p.n-1
                         /\ p.size \in Nat /\ p.buffersize \in Nat \ {0}

VARIABLES
    args,
    buffersize, chunkSize, readins,
    LookupTable,            \* chunkIndex of slot i of node file j
    z, i, j,                \* loop variables
    total,                  \* bytes read of every chunk of the input
    data, coding, xor,      \* buffers
    node,                   \* the node files
    pc

sizes == <<args, buffersize, chunkSize, readins, LookupTable>>
vars == <<sizes, z, i, j, total, data, coding, xor, node, pc>>

k == args.k
n == args.n
f == args.f
m == n - k
Nodes == 0..n-1
Sources == 0..k-1
Buffer == 0..buffersize-1

Read(pos) == {<<-1, -1, pos>>}
Times(row, col, byte) == {<<row, col, t[3]>> : t \in byte}
Xor(a, b) == (a \ b) \cup (b \ a)
\* Bytes that are in no input: a padding character, and fresh memory.
Pad == Read(-1)
Fresh(col, q) == Read(-2 - col * buffersize - q)

\* jerasure_matrix_encode: byte q of coding chunk row of some data chunks.
Coded(row, d, q) == UNION {Times(row, col, d[col][q]) : col \in Sources}

-----------------------------------------------------------------------------
Init ==
    /\ args \in Inputs
    /\ buffersize = args.buffersize
    /\ chunkSize = 0 /\ readins = 0
    /\ LookupTable = [s \in (0..f) \X Nodes |-> 0]
    /\ z = 1 /\ i = 0 /\ j = 0
    /\ total = <<>> /\ data = <<>> /\ coding = <<>> /\ xor = <<>> /\ node = <<>>
    /\ pc = "adjust"

\* The multiple of Unit that is closest, the one above if two are: up and down
\* move in steps of one until either is a multiple.
AdjustBuffersize ==
    /\ pc = "adjust"
    /\ LET steps == Min({s \in 0..Unit : \/ (buffersize + s) % Unit = 0
                                         \/ (buffersize - s) % Unit = 0})
           up == buffersize + steps
       IN  buffersize' = IF up % Unit = 0 THEN up ELSE buffersize - steps
    /\ pc' = "sizes"
    /\ UNCHANGED <<args, chunkSize, readins, LookupTable, z, i, j, total, data,
                   coding, xor, node>>

\* The size of the input is raised until chunks and buffers divide it.
Divides(s) ==
    /\ s % (k * f * Unit) = 0
    /\ (s \div (f * k)) % buffersize = 0
    /\ s % buffersize = 0
Bound == args.size + k * f * Unit * buffersize
Mutant_NewSize == args.size
NewSize == IF buffersize = 0 THEN args.size
           ELSE Min({s \in args.size..Bound : Divides(s)})

\* Chunks that are no larger than the buffer are read at once.
FindSizes ==
    /\ pc = "sizes"
    /\ chunkSize' = NewSize \div (f * k)
    /\ IF chunkSize' > buffersize /\ buffersize # 0
       THEN readins' = chunkSize' \div buffersize /\ buffersize' = buffersize
       ELSE readins' = 1 /\ buffersize' = chunkSize'
    /\ pc' = "table"
    /\ UNCHANGED <<args, LookupTable, z, i, j, total, data, coding, xor, node>>

\* Slot i of the files is filled from index n - i on, around the nodes.
Mutant_Placement == [s \in (0..f) \X Nodes |-> s[2]]
Placement == [s \in (0..f) \X Nodes |-> (s[2] + n - s[1]) % n]

\* The lookup table is made, the files are opened and the totals cleared.
CreateTable ==
    /\ pc = "table"
    /\ LookupTable' = Placement
    /\ total' = [c \in 0..f*k-1 |-> 0]
    /\ data' = [col \in Sources |-> [q \in Buffer |-> Fresh(col, q)]]
    /\ coding' = [row \in 0..m-1 |-> [q \in Buffer |-> Pad]]
    /\ node' = [e \in Nodes |-> [q \in 0..(f+1)*chunkSize-1 |-> {}]]
    /\ pc' = "readin"
    /\ UNCHANGED <<args, buffersize, chunkSize, readins, z, i, j, xor>>

\* A read-in begins with fresh, zeroed sums.
BeginReadIn ==
    /\ pc = "readin"
    /\ z <= readins
    /\ xor' = [e \in Nodes |-> [q \in Buffer |-> {}]]
    /\ i' = 0
    /\ pc' = "read"
    /\ UNCHANGED <<sizes, z, j, total, data, coding, node>>

Return ==
    /\ pc = "readin"
    /\ z > readins
    /\ pc' = "done"
    /\ UNCHANGED <<sizes, z, i, j, total, data, coding, xor, node>>

\* What fread finds at the place of the next piece of chunk col of stripe i:
\* at the end of the input the rest of the buffer keeps what it held.  The
\* padding of a chunk that is complete, or lacks less than a buffer, is '0'.
Start(col) == (col + i * k) * chunkSize + (z - 1) * buffersize
Got(col) == Max({0, Min({buffersize, args.size - Start(col)})})
Complete(col) == total[col + k * i] = chunkSize
Short(col) == ~Complete(col) /\ total[col + k * i] + buffersize > chunkSize
ReadPiece(col) ==
    [q \in Buffer |->
        IF ~Complete(col) /\ q < Got(col) THEN Read(Start(col) + q)
        ELSE IF Complete(col) \/ Short(col) THEN Pad
        ELSE data[col][q]]
ReadStripe ==
    /\ pc = "read"
    /\ i < f
    /\ data' = [col \in Sources |-> ReadPiece(col)]
    /\ total' = [c \in DOMAIN total |->
                   IF c \in {col + k * i : col \in {s \in Sources : ~Complete(s) /\ ~Short(s)}}
                   THEN total[c] + Got(c - k * i) ELSE total[c]]
    /\ pc' = "encode"
    /\ UNCHANGED <<sizes, z, i, j, coding, xor, node>>

\* The stripe is encoded and added to the sums.
EncodeStripe ==
    /\ pc = "encode"
    /\ coding' = [row \in 0..m-1 |-> [q \in Buffer |-> Coded(row, data, q)]]
    /\ xor' = [e \in Nodes |-> [q \in Buffer |->
                 Xor(xor[e][q], IF e < k THEN data[e][q] ELSE coding'[e - k][q])]]
    /\ j' = 0
    /\ pc' = "write"
    /\ UNCHANGED <<sizes, z, i, total, data, node>>

\* A piece goes to slot i of node file j, at the place of this read-in.
Mutant_Written(piece) ==
    [node EXCEPT ![j] = [q \in DOMAIN @ |->
        IF q - i * chunkSize \in Buffer THEN piece[q - i * chunkSize] ELSE @[q]]]
Written(piece) ==
    LET place == (z - 1) * buffersize + i * chunkSize IN
    [node EXCEPT ![j] = [q \in DOMAIN @ |->
        IF q - place \in Buffer THEN piece[q - place] ELSE @[q]]]

WritePiece ==
    /\ pc = "write"
    /\ j < n
    /\ LET index == LookupTable[<<i, j>>] IN
       node' = Written(IF index < k THEN data[index] ELSE coding[index - k])
    /\ j' = j + 1
    /\ UNCHANGED <<sizes, z, i, total, data, coding, xor, pc>>

NextStripe ==
    /\ pc = "write"
    /\ j = n
    /\ i' = i + 1
    /\ pc' = "read"
    /\ UNCHANGED <<sizes, z, j, total, data, coding, xor, node>>

StripesDone ==
    /\ pc = "read"
    /\ i = f
    /\ j' = 0
    /\ pc' = "xors"
    /\ UNCHANGED <<sizes, z, i, total, data, coding, xor, node>>

\* The sums go to the last slot.
WriteXor ==
    /\ pc = "xors"
    /\ j < n
    /\ node' = Written(xor[LookupTable[<<i, j>>]])
    /\ j' = j + 1
    /\ UNCHANGED <<sizes, z, i, total, data, coding, xor, pc>>

NextReadIn ==
    /\ pc = "xors"
    /\ j = n
    /\ z' = z + 1
    /\ pc' = "readin"
    /\ UNCHANGED <<sizes, i, j, total, data, coding, xor, node>>

Next ==
    \/ AdjustBuffersize \/ FindSizes \/ CreateTable \/ BeginReadIn \/ Return
    \/ ReadStripe \/ EncodeStripe \/ WritePiece \/ NextStripe \/ StripesDone
    \/ WriteXor \/ NextReadIn

Spec == Init /\ [][Next]_vars

-----------------------------------------------------------------------------
\* The node file that holds the chunk with index c in slot s, and its byte q.
Holder(s, c) == CHOOSE e \in Nodes : LookupTable[<<s, e>>] = c
Stored(s, c, q) == node[Holder(s, c)][s * chunkSize + q]
Chunks == 0..chunkSize-1

\* The bytes of every chunk that the read-ins so far have dealt with.
Dealt == IF pc \in {"readin", "read", "encode", "write", "xors", "done"}
         THEN 0..(z-1)*buffersize-1 ELSE {}

\* After every read-in, and until the end, any k node files determine the
\* data: of each stripe they hold k different chunks of one codeword.  (That k
\* chunks determine it is AnyKRowsRegular of CodingMatrix.)
AnyKNodes ==
    \A s \in 0..f-1, q \in Dealt :
        /\ {LookupTable[<<s, e>>] : e \in Nodes} = Nodes
        /\ \A row \in 0..m-1 :
              Stored(s, k + row, q) = UNION {Times(row, c, Stored(s, c, q)) : c \in Sources}

\* A node file that is lost can be rebuilt by XOR from f others: its chunk of
\* any slot is the sum of the chunks with the same index in the other slots,
\* and all of these are in other files.
SumOver(S, byte(_)) ==
    LET terms == {<<s, t>> : s \in S, t \in UNION {byte(s) : s \in S}}
        present == {x \in terms : x[2] \in byte(x[1])}
    IN  {t \in {x[2] : x \in present} : Cardinality({x \in present : x[2] = t}) % 2 = 1}
RebuiltByXor ==
    \A e \in Nodes, s \in 0..f, q \in Dealt :
        LET c == LookupTable[<<s, e>>]
            others == (0..f) \ {s}
        IN  /\ \A o \in others : Holder(o, c) # e
            /\ node[e][s * chunkSize + q] = SumOver(others, LAMBDA o : Stored(o, c, q))

\* At the end every byte of the input is in its place, and the total of every
\* chunk is the number of bytes of the input that belong to it.  Not so for a
\* buffersize that is adjusted to 0: then the chunks are not rounded up, and up
\* to f*k - 1 bytes are dropped.
InputStored ==
    pc = "done" /\ 2 * args.buffersize >= Unit =>
        /\ \A pos \in 0..args.size-1 :
              \E s \in 0..f-1, c \in Sources, q \in Chunks :
                  /\ pos = (c + s * k) * chunkSize + q
                  /\ Stored(s, c, q) = Read(pos)
        /\ \A x \in 0..f*k-1 :
              total[x] = Max({0, Min({chunkSize, args.size - x * chunkSize})})
=============================================================================
