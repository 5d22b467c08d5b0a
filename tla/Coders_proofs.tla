---------------------------- MODULE Coders_proofs ----------------------------
(***************************************************************************)
(* Theorems about the whole-file coder, for every set of names, versions   *)
(* and arguments and any number of runs, kills and losses; and about what  *)
(* the decoders of the forks make of their first block.                    *)
(***************************************************************************)
EXTENDS Coders, CommonLemmas, FiniteSetTheorems

ArgsSet == {c[2] : c \in Calls}
Devices(a) == 1..(a.k + a.m)
ReadIns(v, a) == LayoutOf(v, a).readins

LEMMA ArgsAre ==
    ASSUME NEW a \in ArgsSet
    PROVE  /\ a.k \in Nat \ {0} /\ a.m \in Nat /\ a.w \in Nat \ {0}
           /\ a.packetsize \in Nat /\ a.buffersize \in Nat
           /\ 1 \in Devices(a) /\ a.k + a.m \in Nat
BY FileCoderAssumption DEF ArgsSet, Devices

LEMMA FilesApart ==
    ASSUME NEW x, NEW a \in ArgsSet, NEW d \in Devices(a), NEW e \in Devices(a),
           FileOf(x, a, d) = FileOf(x, a, e)
    PROVE  d = e
BY ArgsAre DEF FileOf, Devices

-----------------------------------------------------------------------------
(* Sizes                                                                   *)

LEMMA ProductIs ==
    ASSUME NEW x \in Nat \ {0}, NEW y \in Nat \ {0}
    PROVE  x * y \in Nat \ {0}
OBVIOUS

LEMMA QuotientIs ==
    ASSUME NEW x \in Nat, NEW u \in Nat \ {0}
    PROVE  /\ x \div u \in Nat /\ (x \div u) * u <= x /\ x < (x \div u) * u + u
OBVIOUS

LEMMA QuotientOfMultiple ==
    ASSUME NEW q \in Nat, NEW u \in Nat \ {0}
    PROVE  (q * u) \div u = q
OBVIOUS

LEMMA RoundedUp ==
    ASSUME NEW x \in Nat, NEW u \in Nat \ {0}
    PROVE  /\ RoundUp(x, u) \in Nat /\ RoundUp(x, u) >= x
           /\ \E q \in Nat : RoundUp(x, u) = q * u
<1> DEFINE y == x + u - 1
<1>1. y \in Nat
  OBVIOUS
<1> DEFINE q == y \div u
<1>2. q \in Nat /\ q * u <= y /\ y < q * u + u
  <2> HIDE DEF y
  <2>. QED  BY <1>1, QuotientIs
<1>3. RoundUp(x, u) = q * u
  BY DEF RoundUp
<1>4. q * u \in Nat
  <2> HIDE DEF q
  <2>. QED  BY <1>2
<1> DEFINE z == q * u
<1>5. z \in Nat /\ y < z + u
  BY <1>2, <1>4
<1> HIDE DEF q
<1>6. z >= x
  <2> HIDE DEF z
  <2>. QED  BY <1>5
<1>. QED  BY <1>2, <1>3, <1>4, <1>6

\* A multiple of the unit is split into k blocks.
MultipleOf(x, u) == x \in Nat /\ \E q \in Nat : x = q * u

LEMMA MultipleOfMultiple ==
    ASSUME NEW u \in Nat \ {0}, NEW x, MultipleOf(x, u), x # 0, NEW y, MultipleOf(y, x)
    PROVE  MultipleOf(y, u)
<1>1. PICK q \in Nat : x = q * u
  BY DEF MultipleOf
<1>2. PICK r \in Nat : y = r * x
  BY DEF MultipleOf
<1>3. r * (q * u) = (r * q) * u /\ r * q \in Nat
  OBVIOUS
<1>4. y = (r * q) * u
  BY <1>1, <1>2, <1>3
<1>. QED  BY <1>3, <1>4 DEF MultipleOf

LEMMA UnitIs ==
    ASSUME NEW a \in ArgsSet
    PROVE  /\ Unit(LongSize, a) \in Nat \ {0}
           /\ \A x : MultipleOf(x, Unit(LongSize, a)) => x \div a.k \in Nat /\ a.k * (x \div a.k) = x
<1> DEFINE P == IF a.packetsize = 0 THEN 1 ELSE a.packetsize
           k == a.k
           u == LongSize * a.w
           c == u * P
<1>1. k \in Nat \ {0} /\ a.w \in Nat \ {0} /\ P \in Nat \ {0} /\ LongSize \in Nat \ {0}
  BY ArgsAre, FileCoderAssumption
<1>2. Unit(LongSize, a) = u * k * P
  BY DEF Unit
<1>3. u \in Nat \ {0}
  BY <1>1, ProductIs
<1> HIDE DEF P, k, u
<1>4. c \in Nat \ {0} /\ u * k * P = c * k
  <2>1. c \in Nat \ {0}
    BY <1>1, <1>3, ProductIs
  <2>2. (u * k) * P = (u * P) * k
    BY <1>1, <1>3
  <2>. QED  BY <2>1, <2>2
<1> HIDE DEF c
<1>5. Unit(LongSize, a) = c * k /\ Unit(LongSize, a) \in Nat \ {0}
  <2>1. c * k \in Nat \ {0}
    BY <1>1, <1>4, ProductIs
  <2>. QED  BY <1>2, <1>4, <2>1
<1>6. ASSUME NEW x, MultipleOf(x, Unit(LongSize, a))
      PROVE  x \div k \in Nat /\ k * (x \div k) = x
  <2>1. PICK q \in Nat : x = q * (c * k)
    BY <1>5, <1>6 DEF MultipleOf
  <2> DEFINE n == q * c
  <2>2. n \in Nat /\ x = n * k
    <3>1. q * (c * k) = (q * c) * k /\ q * c \in Nat
      BY <1>1, <1>4
    <3>. QED  BY <2>1, <3>1
  <2> HIDE DEF n
  <2>3. x \div k = n
    BY <1>1, <2>2, QuotientOfMultiple
  <2>4. k * n = n * k
    BY <1>1, <2>2
  <2>. QED  BY <2>2, <2>3, <2>4
<1>. QED  BY <1>5, <1>6 DEF k

LEMMA BuffersizeIs ==
    ASSUME NEW a \in ArgsSet
    PROVE  MultipleOf(ProperBuffersize(LongSize, a), Unit(LongSize, a))
<1> DEFINE u == Unit(LongSize, a)
           x == a.buffersize
<1>1. u \in Nat \ {0} /\ x \in Nat
  BY UnitIs, ArgsAre
<1>2. ProperBuffersize(LongSize, a) \in {RoundUp(x, u), RoundDown(x, u)}
  BY DEF ProperBuffersize
<1> HIDE DEF u, x
<1>3. MultipleOf(RoundUp(x, u), u)
  BY <1>1, RoundedUp DEF MultipleOf
<1>4. MultipleOf(RoundDown(x, u), u)
  <2>1. x \div u \in Nat
    BY <1>1, QuotientIs
  <2> DEFINE q == x \div u
  <2>2. q \in Nat /\ RoundDown(x, u) = q * u
    BY <2>1 DEF RoundDown
  <2> HIDE DEF q
  <2>3. q * u \in Nat
    BY <1>1, <2>2
  <2>. QED  BY <2>2, <2>3 DEF MultipleOf
<1>. QED  BY <1>2, <1>3, <1>4 DEF u

\* The read-ins are blocks of k devices each, and hold the input.
LEMMA LayoutIs ==
    ASSUME NEW v \in Versions, NEW a \in ArgsSet
    PROVE  /\ ReadIns(v, a) \in Nat \ {0} /\ LayoutOf(v, a).buffersize \in Nat
           /\ LayoutOf(v, a).blocksize \in Nat /\ SizeOf[v] \in Nat
           /\ \/ /\ ReadIns(v, a) = 1 /\ LayoutOf(v, a).buffersize = SizeOf[v]
                 /\ a.k * LayoutOf(v, a).blocksize >= SizeOf[v]
              \/ /\ ReadIns(v, a) # 1 /\ LayoutOf(v, a).buffersize # SizeOf[v]
                 /\ a.k * LayoutOf(v, a).blocksize = LayoutOf(v, a).buffersize
                 /\ LayoutOf(v, a).buffersize \div a.k = LayoutOf(v, a).blocksize
                 /\ ReadIns(v, a) * LayoutOf(v, a).buffersize >= SizeOf[v]
<1> DEFINE size == SizeOf[v]
           u == Unit(LongSize, a)
           buffer == ProperBuffersize(LongSize, a)
           padded == RoundUp(size, u)
           new == Newsize(size, LongSize, a)
<1>1. size \in Nat /\ u \in Nat \ {0} /\ a.k \in Nat \ {0}
  BY UnitIs, ArgsAre, FileCoderAssumption
<1>2. MultipleOf(buffer, u) /\ buffer \in Nat
  BY BuffersizeIs DEF MultipleOf
<1>3. MultipleOf(padded, u) /\ padded \in Nat /\ padded >= size
  BY <1>1, RoundedUp DEF MultipleOf
<1>4. new = IF buffer = 0 THEN padded ELSE RoundUp(padded, buffer)
  BY DEF Newsize
<1>5. LayoutOf(v, a) = IF buffer # 0 /\ size > buffer
                       THEN [readins |-> new \div buffer, buffersize |-> buffer,
                             blocksize |-> buffer \div a.k, newsize |-> new]
                       ELSE [readins |-> 1, buffersize |-> size,
                             blocksize |-> new \div a.k, newsize |-> new]
  BY DEF LayoutOf, Layout, SeveralReadIns
<1>6. \A x : MultipleOf(x, u) => x \div a.k \in Nat /\ a.k * (x \div a.k) = x
  BY UnitIs
<1> HIDE DEF size, u, buffer, padded, new
<1>7. /\ MultipleOf(new, u) /\ new >= size
      /\ buffer # 0 => \E r \in Nat : new = r * buffer
  <2>1. CASE buffer = 0
    BY <1>3, <1>4, <2>1
  <2>2. CASE buffer # 0
    <3>1. /\ new \in Nat /\ new >= padded /\ \E r \in Nat : new = r * buffer
      BY <1>2, <1>3, <1>4, <2>2, RoundedUp
    <3>2. MultipleOf(new, buffer)
      BY <3>1 DEF MultipleOf
    <3>3. new >= size
      BY <1>1, <1>3, <3>1
    <3>. QED  BY <1>1, <1>2, <2>2, <3>1, <3>2, <3>3, MultipleOfMultiple
  <2>. QED  BY <2>1, <2>2
<1>8. CASE buffer # 0 /\ size > buffer
  <2>1. PICK r \in Nat : new = r * buffer
    BY <1>7, <1>8
  <2>2. new \div buffer = r
    BY <1>2, <1>8, <2>1, QuotientOfMultiple
  <2>3. r # 0 /\ r # 1
    BY <1>1, <1>2, <1>7, <1>8, <2>1
  <2>4. buffer \div a.k \in Nat /\ a.k * (buffer \div a.k) = buffer
    BY <1>2, <1>6
  <2>5. /\ LayoutOf(v, a).readins = r /\ LayoutOf(v, a).buffersize = buffer
        /\ LayoutOf(v, a).blocksize = buffer \div a.k
    BY <1>5, <1>8, <2>2
  <2>. QED  BY <1>1, <1>2, <1>7, <1>8, <2>1, <2>3, <2>4, <2>5 DEF ReadIns, size
<1>9. CASE ~ (buffer # 0 /\ size > buffer)
  <2>1. new \div a.k \in Nat /\ a.k * (new \div a.k) = new
    BY <1>6, <1>7
  <2>2. /\ LayoutOf(v, a).readins = 1 /\ LayoutOf(v, a).buffersize = size
        /\ LayoutOf(v, a).blocksize = new \div a.k
    BY <1>5, <1>9
  <2>. QED  BY <1>1, <1>7, <2>1, <2>2 DEF ReadIns, size
<1>. QED  BY <1>8, <1>9

-----------------------------------------------------------------------------
(* A run of the encoder                                                    *)

Blocks(x, v, a, d) == [n \in 1..ReadIns(v, a) |-> DeviceBlock(x, v, a, n, d)]
Upto(x, v, a, d, n) == Flat(Blocks(x, v, a, d))[n]
BytesOf(x, v, a, d) == {DeviceBlock(x, v, a, n, d)[j] : n \in Nat, j \in Nat}

LEMMA BlockIs ==
    ASSUME NEW x, NEW v \in Versions, NEW a \in ArgsSet, NEW d, NEW n \in Nat
    PROVE  /\ DeviceBlock(x, v, a, n, d) \in Seq(BytesOf(x, v, a, d))
           /\ Len(DeviceBlock(x, v, a, n, d)) = LayoutOf(v, a).blocksize
<1> DEFINE b == LayoutOf(v, a).blocksize
           f == DeviceBlock(x, v, a, n, d)
<1>1. b \in Nat
  BY LayoutIs
<1>2. f = [j \in 1..b |-> f[j]]
  <2>1. CASE d <= a.k
    BY <2>1 DEF DeviceBlock, DataBlock
  <2>2. CASE ~ (d <= a.k)
    BY <2>2 DEF DeviceBlock, CodingBlock
  <2>. QED  BY <2>1, <2>2
<1>3. \A j \in 1..b : f[j] \in BytesOf(x, v, a, d)
  <2>1. \A j \in 1..b : j \in Nat
    BY <1>1
  <2>. QED  BY <2>1 DEF BytesOf
<1> HIDE DEF f, b
<1>4. f \in Seq(BytesOf(x, v, a, d)) /\ Len(f) = b
  BY <1>1, <1>2, <1>3
<1>. QED  BY <1>4 DEF f, b

LEMMA UptoIs ==
    ASSUME NEW x, NEW v \in Versions, NEW a \in ArgsSet, NEW d
    PROVE  /\ Upto(x, v, a, d, 1) = DeviceBlock(x, v, a, 1, d)
           /\ \A n \in 1..ReadIns(v, a) : n # 1 =>
                Upto(x, v, a, d, n) = Upto(x, v, a, d, n - 1) \o DeviceBlock(x, v, a, n, d)
           /\ Complete(x, v, a, d) = Upto(x, v, a, d, ReadIns(v, a))
<1> DEFINE s == Blocks(x, v, a, d)
           R == ReadIns(v, a)
           S == BytesOf(x, v, a, d)
<1>1. R \in Nat /\ R > 0
  BY LayoutIs
<1> HIDE DEF R, S
<1>2. \A n \in 1..R : DeviceBlock(x, v, a, n, d) \in Seq(S) /\ s[n] = DeviceBlock(x, v, a, n, d)
  <2>1. \A n \in 1..R : n \in Nat
    BY <1>1
  <2>. QED  BY <2>1, BlockIs DEF Blocks, R, S
<1>3. s \in Seq(Seq(S)) /\ Len(s) = R
  <2>1. s = [n \in 1..R |-> DeviceBlock(x, v, a, n, d)]
    BY DEF Blocks, R
  <2> HIDE DEF s
  <2>. QED  BY <1>1, <1>2, <2>1
<1>4. 1 \in 1..R
  BY <1>1
<1>5. Complete(x, v, a, d) = FlattenSeq(s)
  BY DEF Complete, Blocks, ReadIns
<1> HIDE DEF s
<1>6. /\ FlattenSeq(s) = Flat(s)[R] /\ Flat(s)[1] = s[1]
      /\ \A n \in 1..R : n # 1 => Flat(s)[n] = Flat(s)[n - 1] \o s[n]
  BY <1>1, <1>3, FlatIs
<1>. QED  BY <1>2, <1>4, <1>5, <1>6 DEF Upto, s, R

Written(fs, x, v, a, d, n) ==
    FileOf(x, a, d) \in DOMAIN fs /\ fs[FileOf(x, a, d)] = Upto(x, v, a, d, n)
Stands(fs, x, v, a) ==
    \A d \in Devices(a) : FileOf(x, a, d) \in DOMAIN fs =>
        fs[FileOf(x, a, d)] = Upto(x, v, a, d, ReadIns(v, a))
MetaOf(v, a) ==
    [origsize |-> SizeOf[v], k |-> a.k, m |-> a.m, w |-> a.w, packetsize |-> a.packetsize,
     tech |-> a.tech, buffersize |-> LayoutOf(v, a).buffersize, readins |-> ReadIns(v, a)]
EncRecords == [pc : {"write", "meta"}, name : Names, version : Versions, args : ArgsSet,
               n : Nat, dev : Nat]

\* While the encoder runs no run stands; the devices before the one at hand
\* have their block of this read-in, the others those of the earlier ones.
RunInv ==
    /\ enc = EncIdle \/ (enc \in EncRecords /\ good = NoRun)
    /\ enc.pc = "write" =>
         /\ enc.n \in 1..ReadIns(enc.version, enc.args) /\ enc.dev \in Devices(enc.args)
         /\ \A d \in Devices(enc.args) :
              /\ d < enc.dev => Written(files, enc.name, enc.version, enc.args, d, enc.n)
              /\ d >= enc.dev /\ enc.n > 1 =>
                     Written(files, enc.name, enc.version, enc.args, d, enc.n - 1)
    /\ enc.pc = "meta" =>
         \A d \in Devices(enc.args) :
             Written(files, enc.name, enc.version, enc.args, d, ReadIns(enc.version, enc.args))
    /\ good # NoRun =>
         /\ good \in [name : Names, version : Versions, args : ArgsSet]
         /\ meta = MetaOf(good.version, good.args)
         /\ Stands(files, good.name, good.version, good.args)

LEMMA RunInvImplies == RunInv => CompletedRunStands
<1> SUFFICES ASSUME RunInv, good # NoRun, NEW d \in Devices(good.args),
                    FileOf(good.name, good.args, d) \in DOMAIN files
             PROVE  files[FileOf(good.name, good.args, d)] =
                        Complete(good.name, good.version, good.args, d)
  BY DEF CompletedRunStands, Devices
<1>1. good.version \in Versions /\ good.args \in ArgsSet
  BY DEF RunInv
<1>2. Stands(files, good.name, good.version, good.args)
  BY DEF RunInv
<1>3. /\ files[FileOf(good.name, good.args, d)] =
             Upto(good.name, good.version, good.args, d, ReadIns(good.version, good.args))
  BY <1>2, Zenon DEF Stands
<1>4. Complete(good.name, good.version, good.args, d) =
          Upto(good.name, good.version, good.args, d, ReadIns(good.version, good.args))
  BY <1>1, UptoIs, Zenon
<1>. QED  BY <1>3, <1>4, Zenon

LEMMA WithIs ==
    ASSUME NEW g, NEW f, NEW content
    PROVE  /\ With(g, f, content)[f] = content
           /\ DOMAIN With(g, f, content) = DOMAIN g \cup {f}
           /\ \A h \in DOMAIN g : h # f => With(g, f, content)[h] = g[h]
BY DEF With

LEMMA WriteDeviceRun ==
    ASSUME RunInv, WriteDevice PROVE RunInv'
<1> DEFINE x == enc.name
           v == enc.version
           a == enc.args
           n == enc.n
           e == enc.dev
           f == FileOf(x, a, e)
           block == DeviceBlock(x, v, a, n, e)
<1>1. /\ enc.pc = "write" /\ files' = With(files, f, Opened(f, n) \o block)
      /\ enc' = IF e < a.k + a.m THEN [enc EXCEPT !.dev = e + 1]
                ELSE IF n < ReadIns(v, a) THEN [enc EXCEPT !.dev = 1, !.n = n + 1]
                ELSE [enc EXCEPT !.pc = "meta"]
      /\ meta' = meta /\ good' = good
  BY DEF WriteDevice, ReadIns
<1>2. enc \in EncRecords /\ good = NoRun
  BY <1>1 DEF RunInv, EncIdle
<1>3. x \in Names /\ v \in Versions /\ a \in ArgsSet /\ n \in Nat /\ e \in Nat
  BY <1>2 DEF EncRecords
<1>4. /\ n \in 1..ReadIns(v, a) /\ e \in Devices(a) /\ ReadIns(v, a) \in Nat
      /\ a.k + a.m \in Nat /\ 1 \in Devices(a)
      /\ \A d \in Devices(a) : /\ d < e => Written(files, x, v, a, d, n)
                               /\ d >= e /\ n > 1 => Written(files, x, v, a, d, n - 1)
  BY <1>1, <1>3, LayoutIs, ArgsAre DEF RunInv
<1> HIDE DEF x, v, a, n, e
<1>5. Opened(f, n) \o block = Upto(x, v, a, e, n)
  <2>1. CASE n = 1
    <3>1. block \in Seq(BytesOf(x, v, a, e))
      BY <1>3, BlockIs
    <3>2. <<>> \o block = block
      <4> HIDE DEF block
      <4>. QED  BY <3>1
    <3>. QED  BY <1>3, <2>1, <3>2, UptoIs DEF Opened
  <2>2. CASE n # 1
    <3>1. n > 1
      BY <1>4, <2>2
    <3>2. Written(files, x, v, a, e, n - 1)
      BY <1>3, <1>4, <3>1
    <3>3. Opened(f, n) = Upto(x, v, a, e, n - 1)
      BY <2>2, <3>2 DEF Opened, Written
    <3>4. Upto(x, v, a, e, n) = Upto(x, v, a, e, n - 1) \o block
      BY <1>3, <1>4, <2>2, UptoIs
    <3>. QED  BY <3>3, <3>4
  <2>. QED  BY <2>1, <2>2
<1> DEFINE content == Upto(x, v, a, e, n)
           fs == files'
<1>6. /\ fs[f] = content /\ f \in DOMAIN fs
      /\ \A h \in DOMAIN files : h # f => h \in DOMAIN fs /\ fs[h] = files[h]
  <2>1. fs = With(files, f, content)
    BY <1>1, <1>5
  <2> DEFINE w == With(files, f, content)
  <2> HIDE DEF f, content
  <2>2. /\ w[f] = content /\ DOMAIN w = DOMAIN files \cup {f}
        /\ \A h \in DOMAIN files : h # f => w[h] = files[h]
    BY DEF With
  <2> HIDE DEF w
  <2>3. files' = w
    BY <2>1 DEF w
  <2>. QED  BY <2>2, <2>3
<1>11. Written(files', x, v, a, e, n)
  BY <1>6 DEF Written
<1>7. \A d \in Devices(a), r \in Nat : d # e /\ Written(files, x, v, a, d, r)
          => Written(files', x, v, a, d, r)
  <2> SUFFICES ASSUME NEW d \in Devices(a), NEW r \in Nat, d # e, Written(files, x, v, a, d, r)
               PROVE  Written(files', x, v, a, d, r)
    OBVIOUS
  <2>1. FileOf(x, a, d) # f
    BY <1>3, <1>4, FilesApart
  <2> HIDE DEF f
  <2>. QED  BY <1>6, <2>1 DEF Written
<1>8. \A d \in Devices(a) : d \in Nat /\ d <= a.k + a.m
  BY <1>4 DEF Devices
<1> HIDE DEF f, block
<1>9. CASE e < a.k + a.m
  <2>1. enc' = [enc EXCEPT !.dev = e + 1]
    BY <1>1, <1>9
  <2>2. /\ enc' \in EncRecords /\ enc'.pc = "write" /\ enc'.name = x /\ enc'.version = v
        /\ enc'.args = a /\ enc'.n = n /\ enc'.dev = e + 1
    <3>1. e + 1 \in Nat
      BY <1>3
    <3>. QED  BY <1>1, <1>2, <2>1, <3>1 DEF EncRecords, x, v, a, n
  <2>3. e + 1 \in Devices(a)
    BY <1>3, <1>4, <1>9 DEF Devices
  <2>4. ASSUME NEW d \in Devices(a)
        PROVE  /\ d < e + 1 => Written(files', x, v, a, d, n)
               /\ d >= e + 1 /\ n > 1 => Written(files', x, v, a, d, n - 1)
    <3>1. n > 1 => n - 1 \in Nat
      BY <1>3
    <3>2. CASE d = e
      BY <1>3, <1>11, <3>2
    <3>3. CASE d # e
      <4>1. /\ d < e + 1 => d < e
            /\ d >= e + 1 => d >= e
        BY <1>3, <1>8, <3>3
      <4>. QED  BY <1>3, <1>4, <1>7, <3>1, <3>3, <4>1
    <3>. QED  BY <3>2, <3>3
  <2>. QED  BY <1>1, <1>2, <1>4, <2>2, <2>3, <2>4 DEF RunInv
<1>10. CASE ~ (e < a.k + a.m)
  <2>1. \A d \in Devices(a) : Written(files', x, v, a, d, n)
    <3> SUFFICES ASSUME NEW d \in Devices(a) PROVE Written(files', x, v, a, d, n)
      OBVIOUS
    <3>1. CASE d = e
      BY <1>11, <3>1
    <3>2. CASE d # e
      <4>1. d < e
        BY <1>3, <1>4, <1>8, <1>10, <3>2
      <4>. QED  BY <1>3, <1>4, <1>7, <3>2, <4>1
    <3>. QED  BY <3>1, <3>2
  <2>2. CASE n < ReadIns(v, a)
    <3> DEFINE first == [enc EXCEPT !.dev = 1]
    <3>1. enc' = [first EXCEPT !.n = n + 1]
      BY <1>1, <1>10, <2>2
    <3>2. /\ first \in EncRecords /\ first.pc = "write" /\ first.name = x /\ first.version = v
          /\ first.args = a /\ first.dev = 1
      BY <1>1, <1>2 DEF EncRecords, x, v, a
    <3> HIDE DEF first
    <3>3. /\ enc' \in EncRecords /\ enc'.pc = "write" /\ enc'.name = x /\ enc'.version = v
          /\ enc'.args = a /\ enc'.n = n + 1 /\ enc'.dev = 1
      <4>1. n + 1 \in Nat
        BY <1>3
      <4>. QED  BY <3>1, <3>2, <4>1 DEF EncRecords
    <3>4. n + 1 \in 1..ReadIns(v, a) /\ (n + 1) - 1 = n
      BY <1>3, <1>4, <2>2
    <3>5. \A d \in Devices(a) : ~ (d < 1)
      BY DEF Devices
    <3>. QED  BY <1>1, <1>2, <1>4, <2>1, <3>3, <3>4, <3>5 DEF RunInv
  <2>3. CASE ~ (n < ReadIns(v, a))
    <3>1. n = ReadIns(v, a)
      BY <1>3, <1>4, <2>3
    <3>2. enc' = [enc EXCEPT !.pc = "meta"]
      BY <1>1, <1>10, <2>3
    <3>3. /\ enc' \in EncRecords /\ enc'.pc = "meta" /\ enc'.name = x /\ enc'.version = v
          /\ enc'.args = a
      BY <1>2, <3>2 DEF EncRecords, x, v, a
    <3>. QED  BY <1>1, <1>2, <2>1, <3>1, <3>3 DEF RunInv
  <2>. QED  BY <2>2, <2>3
<1>. QED  BY <1>9, <1>10

\* Steps of the encoder besides writing.
LEMMA OtherRuns ==
    ASSUME RunInv,
           \/ \E x \in Names, c \in Calls : EncodeStart(x, c[1], c[2])
           \/ WriteMeta \/ Kill
    PROVE  RunInv'
<1>1. CASE \E x \in Names, c \in Calls : EncodeStart(x, c[1], c[2])
  <2>1. PICK x \in Names, c \in Calls : EncodeStart(x, c[1], c[2])
    BY <1>1
  <2> DEFINE v == c[1]
             a == c[2]
  <2>2. v \in Versions /\ a \in ArgsSet
    BY FileCoderAssumption DEF ArgsSet
  <2>3. /\ enc' = [pc |-> "write", name |-> x, version |-> v, args |-> a, n |-> 1, dev |-> 1]
        /\ good' = NoRun /\ files' = files /\ meta' = meta
    BY <2>1 DEF EncodeStart
  <2> HIDE DEF v, a
  <2>4. /\ enc' \in EncRecords /\ enc'.pc = "write" /\ enc'.name = x /\ enc'.version = v
        /\ enc'.args = a /\ enc'.n = 1 /\ enc'.dev = 1
    BY <2>2, <2>3 DEF EncRecords
  <2>5. 1 \in 1..ReadIns(v, a) /\ 1 \in Devices(a) /\ \A d \in Devices(a) : ~ (d < 1)
    <3>1. ReadIns(v, a) \in Nat \ {0} /\ 1 \in Devices(a)
      BY <2>2, LayoutIs, ArgsAre
    <3>. QED  BY <3>1 DEF Devices
  <2>. QED  BY <2>3, <2>4, <2>5 DEF RunInv
<1>2. CASE WriteMeta
  <2> DEFINE x == enc.name
             v == enc.version
             a == enc.args
  <2>1. /\ enc.pc = "meta" /\ enc' = EncIdle /\ files' = files
        /\ meta' = MetaOf(v, a)
        /\ good' = [name |-> x, version |-> v, args |-> a]
    BY <1>2 DEF WriteMeta, MetaOf, ReadIns
  <2>2. enc \in EncRecords
    BY <2>1 DEF RunInv, EncIdle
  <2>3. x \in Names /\ v \in Versions /\ a \in ArgsSet
    BY <2>2 DEF EncRecords
  <2>4. Stands(files, x, v, a)
    BY <2>1 DEF RunInv, Stands, Written
  <2> HIDE DEF x, v, a
  <2>5. /\ good' \in [name : Names, version : Versions, args : ArgsSet]
        /\ good'.name = x /\ good'.version = v /\ good'.args = a
    BY <2>1, <2>3
  <2>6. enc'.pc = "idle"
    BY <2>1 DEF EncIdle
  <2>. QED  BY <2>1, <2>4, <2>5, <2>6 DEF RunInv
<1>3. CASE Kill
  <2>1. enc.pc # "idle" /\ enc' = EncIdle /\ good' = good
    BY <1>3 DEF Kill
  <2>2. good = NoRun
    BY <2>1 DEF RunInv, EncIdle
  <2>3. enc'.pc = "idle"
    BY <2>1 DEF EncIdle
  <2>. QED  BY <2>1, <2>2, <2>3 DEF RunInv
<1>. QED  BY <1>1, <1>2, <1>3

\* Losing a device file takes nothing from the others; the decoder reads.
LEMMA NoRuns ==
    ASSUME RunInv, UNCHANGED <<enc, good, meta>>,
           \/ files' = files
           \/ enc.pc = "idle" /\ \E f : files' = [g \in DOMAIN files \ {f} |-> files[g]]
    PROVE  RunInv'
<1>1. CASE files' = files
  BY <1>1 DEF RunInv
<1>2. CASE enc.pc = "idle" /\ \E f : files' = [g \in DOMAIN files \ {f} |-> files[g]]
  <2>1. \A g \in DOMAIN files' : g \in DOMAIN files /\ files'[g] = files[g]
    BY <1>2
  <2>2. \A x, v, a : Stands(files, x, v, a) => Stands(files', x, v, a)
    BY <2>1 DEF Stands
  <2>. QED  BY <1>2, <2>2 DEF RunInv
<1>. QED  BY <1>1, <1>2

\* The invariant of a run of the encoder: up to where it has come, its blocks
\* are in the files, and no earlier run is taken to stand.
THEOREM RunInvariant == FileSpec => []RunInv
<1>1. FileInit => RunInv
  BY DEF FileInit, RunInv, EncIdle
<1>2. RunInv /\ [FileNext]_fvars => RunInv'
  <2> SUFFICES ASSUME RunInv, [FileNext]_fvars PROVE RunInv'
    OBVIOUS
  <2>1. CASE \/ \E x \in Names, c \in Calls : EncodeStart(x, c[1], c[2])
             \/ WriteMeta \/ Kill
    BY <2>1, OtherRuns
  <2>2. CASE WriteDevice
    BY <2>2, WriteDeviceRun
  <2>3. CASE (\E x \in Names : DecodeStart(x)) \/ ReadDevice \/ Refuse \/ WriteDecoded
    <3>1. UNCHANGED <<enc, good, meta>> /\ files' = files
      BY <2>3 DEF DecodeStart, ReadDevice, Refuse, WriteDecoded
    <3>. QED  BY <3>1, NoRuns
  <2>4. CASE \E f \in DOMAIN files : Lose(f)
    <3>1. /\ UNCHANGED <<enc, good, meta>> /\ enc.pc = "idle"
          /\ \E f : files' = [g \in DOMAIN files \ {f} |-> files[g]]
      BY <2>4 DEF Lose
    <3>. QED  BY <3>1, NoRuns
  <2>5. CASE UNCHANGED fvars
    <3>1. UNCHANGED <<enc, good, meta>> /\ files' = files
      BY <2>5 DEF fvars
    <3>. QED  BY <3>1, NoRuns
  <2>. QED  BY <2>1, <2>2, <2>3, <2>4, <2>5 DEF FileNext
<1>. QED  BY <1>1, <1>2, PTL DEF FileSpec

\* encoder.c: whatever was encoded, killed and lost before, after a run that
\* came to its end the device files that are there hold the blocks of that
\* run and nothing of earlier ones.
THEOREM CompletedRunStandsHolds == FileSpec => []CompletedRunStands
BY RunInvariant, RunInvImplies, PTL

-----------------------------------------------------------------------------
(* What a file holds, block by block                                       *)

\* A block of a sequence of blocks of b bytes.
PieceOf(s, b, n) == SubSeq(s, b * (n - 1) + 1, b * n)

LEMMA PieceOfJoined ==
    ASSUME NEW S, NEW s \in Seq(S), NEW last \in Seq(S), NEW b \in Nat, Len(last) = b,
           NEW top \in Nat, Len(s) = b * top
    PROVE  /\ s \o last \in Seq(S) /\ Len(s \o last) = b * (top + 1)
           /\ PieceOf(s \o last, b, top + 1) = last
           /\ \A n \in 1..top : PieceOf(s \o last, b, n) = PieceOf(s, b, n)
<1> DEFINE t == s \o last
           N == b * top
<1>1. t \in Seq(S) /\ Len(t) = Len(s) + Len(last)
      /\ \A i \in 1..(Len(s) + Len(last)) : t[i] = IF i <= Len(s) THEN s[i] ELSE last[i - Len(s)]
  OBVIOUS
<1>2. N \in Nat /\ b * (top + 1) = N + b
  OBVIOUS
<1> HIDE DEF t, N
<1>3. Len(t) = N + b
  BY <1>1 DEF N
<1>4. PieceOf(t, b, top + 1) = last
  <2>1. PieceOf(t, b, top + 1) = SubSeq(t, N + 1, N + b)
    <3>1. (top + 1) - 1 = top /\ b * ((top + 1) - 1) = N
      BY DEF N
    <3>. QED  BY <1>2, <3>1 DEF PieceOf
  <2>2. SubSeq(t, N + 1, N + b) \in Seq(S) /\ Len(SubSeq(t, N + 1, N + b)) = b
        /\ \A i \in 1..b : SubSeq(t, N + 1, N + b)[i] = t[N + i]
    BY <1>1, <1>2, <1>3
  <2>3. \A i \in 1..b : t[N + i] = last[i]
    <3> SUFFICES ASSUME NEW i \in 1..b PROVE t[N + i] = last[i]
      OBVIOUS
    <3>1. N + i \in 1..(Len(s) + Len(last)) /\ ~ (N + i <= Len(s)) /\ (N + i) - Len(s) = i
      BY <1>2 DEF N
    <3>. QED  BY <1>1, <3>1
  <2> DEFINE p == SubSeq(t, N + 1, N + b)
  <2>4. p \in Seq(S) /\ Len(p) = Len(last) /\ \A i \in 1..Len(p) : p[i] = last[i]
    BY <2>2, <2>3
  <2> HIDE DEF p
  <2>5. p = last
    BY <2>4, SameSeq
  <2>. QED  BY <2>1, <2>5 DEF p
<1>5. ASSUME NEW n \in 1..top PROVE PieceOf(t, b, n) = PieceOf(s, b, n)
  <2> DEFINE from == b * (n - 1)
             to == b * n
  <2>1. from \in Nat /\ to = from + b /\ to <= N
    <3>1. n - 1 \in Nat /\ top - n \in Nat
      OBVIOUS
    <3>2. b * (n - 1) \in Nat /\ b * n = b * (n - 1) + b
      BY <3>1
    <3>3. b * top = b * n + b * (top - n) /\ b * (top - n) \in Nat
      BY <3>1
    <3>. QED  BY <3>2, <3>3 DEF N
  <2> HIDE DEF from, to
  <2>2. Len(s) = N
    BY DEF N
  <2>3. \A i \in 1..b : SubSeq(t, from + 1, to)[i] = t[from + i] /\ SubSeq(s, from + 1, to)[i] = s[from + i]
    BY <1>1, <1>2, <1>3, <2>1, <2>2
  <2>4. SubSeq(t, from + 1, to) \in Seq(S) /\ Len(SubSeq(t, from + 1, to)) = b
        /\ SubSeq(s, from + 1, to) \in Seq(S) /\ Len(SubSeq(s, from + 1, to)) = b
    BY <1>1, <1>2, <1>3, <2>1, <2>2
  <2>5. \A i \in 1..b : t[from + i] = s[from + i]
    <3> SUFFICES ASSUME NEW i \in 1..b PROVE t[from + i] = s[from + i]
      OBVIOUS
    <3>1. from + i \in 1..(Len(s) + Len(last)) /\ from + i <= Len(s)
      BY <1>2, <2>1, <2>2
    <3>. QED  BY <1>1, <3>1
  <2> DEFINE p == SubSeq(t, from + 1, to)
             q == SubSeq(s, from + 1, to)
  <2>6. p \in Seq(S) /\ q \in Seq(S) /\ Len(p) = Len(q) /\ \A i \in 1..Len(p) : p[i] = q[i]
    BY <2>3, <2>4, <2>5
  <2> HIDE DEF p, q
  <2>7. p = q
    BY <2>6, SameSeq
  <2>. QED  BY <2>7 DEF PieceOf, from, to, p, q
<1>. QED  BY <1>1, <1>2, <1>3, <1>4, <1>5 DEF t

LEMMA UptoPieces ==
    ASSUME NEW x, NEW v \in Versions, NEW a \in ArgsSet, NEW d,
           NEW top \in 1..ReadIns(v, a)
    PROVE  /\ Upto(x, v, a, d, top) \in Seq(BytesOf(x, v, a, d))
           /\ Len(Upto(x, v, a, d, top)) = LayoutOf(v, a).blocksize * top
           /\ \A n \in 1..top : PieceOf(Upto(x, v, a, d, top), LayoutOf(v, a).blocksize, n) =
                                    DeviceBlock(x, v, a, n, d)
<1> DEFINE b == LayoutOf(v, a).blocksize
           R == ReadIns(v, a)
           S == BytesOf(x, v, a, d)
           U(n) == Upto(x, v, a, d, n)
           D(n) == DeviceBlock(x, v, a, n, d)
           Good(q) == /\ U(q) \in Seq(S) /\ Len(U(q)) = b * q
                      /\ \A n \in 1..q : PieceOf(U(q), b, n) = D(n)
           T == {q \in Nat : q + 1 \in 1..R => Good(q + 1)}
<1>1. b \in Nat /\ R \in Nat \ {0}
  BY LayoutIs
<1>2. \A n \in Nat : D(n) \in Seq(S) /\ Len(D(n)) = b
  BY BlockIs
<1>3. U(1) = D(1) /\ \A n \in 1..R : n # 1 => U(n) = U(n - 1) \o D(n)
  BY UptoIs
<1> HIDE DEF b, R, S, U, D
<1>4. Good(1)
  <2>1. U(1) \in Seq(S) /\ Len(U(1)) = b /\ b * 1 = b /\ b * (1 - 1) + 1 = 1
    BY <1>1, <1>2, <1>3
  <2>2. SubSeq(U(1), 1, b) = U(1)
    BY <1>1, <2>1
  <2>3. \A n \in 1..1 : n = 1
    OBVIOUS
  <2>4. PieceOf(U(1), b, 1) = D(1)
    BY <1>3, <2>1, <2>2 DEF PieceOf
  <2>. QED  BY <2>1, <2>3, <2>4
<1>5. 0 \in T
  BY <1>4
<1>6. ASSUME NEW q \in Nat, q \in T PROVE q + 1 \in T
  <2> SUFFICES ASSUME (q + 1) + 1 \in 1..R PROVE Good((q + 1) + 1)
    OBVIOUS
  <2> DEFINE r == q + 1
  <2>1. r \in Nat /\ r \in 1..R /\ r + 1 \in 1..R /\ r + 1 # 1 /\ (r + 1) - 1 = r
    BY <1>1
  <2>2. U(r) \in Seq(S) /\ Len(U(r)) = b * r /\ \A n \in 1..r : PieceOf(U(r), b, n) = D(n)
    BY <1>6, <2>1
  <2> HIDE DEF r
  <2>3. U(r + 1) = U(r) \o D(r + 1)
    BY <1>3, <2>1
  <2>4. D(r + 1) \in Seq(S) /\ Len(D(r + 1)) = b
    BY <1>2, <2>1
  <2> DEFINE last == D(r + 1)
             s == U(r)
  <2>5. /\ s \o last \in Seq(S) /\ Len(s \o last) = b * (r + 1)
        /\ PieceOf(s \o last, b, r + 1) = last
        /\ \A n \in 1..r : PieceOf(s \o last, b, n) = PieceOf(s, b, n)
    <3> HIDE DEF last, s
    <3>1. s \in Seq(S) /\ last \in Seq(S) /\ Len(last) = b /\ Len(s) = b * r
      BY <2>2, <2>4 DEF last, s
    <3>. QED  BY <1>1, <2>1, <3>1, PieceOfJoined
  <2>6. \A n \in 1..(r + 1) : n \in 1..r \/ n = r + 1
    BY <2>1
  <2>7. Good(r + 1)
    BY <2>2, <2>3, <2>5, <2>6
  <2>. QED  BY <2>7 DEF r
<1>7. \A q \in Nat : q \in T
  <2> HIDE DEF T
  <2>. QED  BY <1>5, <1>6, SetInduction
<1>8. top - 1 \in Nat /\ (top - 1) + 1 = top /\ top \in 1..R
  BY <1>1 DEF R
<1>9. Good(top)
  <2>1. top - 1 \in T
    BY <1>7, <1>8
  <2>. QED  BY <1>8, <2>1
<1>. QED  BY <1>9 DEF b, S, U, D

-----------------------------------------------------------------------------
(* What the decoder recreates                                              *)

Bytes(x, v, a) == {DeviceBlock(x, v, a, n, d)[j] : n \in Nat, d \in Nat, j \in Nat}
MissingFiles(fs, x, a) == {d \in Devices(a) : FileOf(x, a, d) \notin DOMAIN fs}
First(x, v, t) == [p \in 1..t |-> <<x, v, p - 1>>]
Least(i, j) == IF i < j THEN i ELSE j
DecRecords(x, v, a) ==
    [pc : {"read", "decode"}, name : {x}, meta : {MetaOf(v, a)}, n : Nat, dev : Nat,
     total : Nat, erased : SUBSET Devices(a), blocksize : Nat,
     buf : [Devices(a) -> Seq(Bytes(x, v, a))]]

\* The devices that were read in this read-in are marked as erased, or their
\* block of it is in the buffer; what is erased is missing; the output is the
\* beginning of the input up to this read-in.
Reading(x, v, a) ==
    LET b == LayoutOf(v, a).blocksize
    IN  /\ dec \in DecRecords(x, v, a)
        /\ dec.n \in 1..ReadIns(v, a) /\ dec.dev \in Devices(a)
        /\ dec.pc = "decode" => dec.dev = 1
        /\ dec.erased \subseteq MissingFiles(files, x, a)
        /\ \A d \in Devices(a) : Len(dec.buf[d]) \in {0, b}
        /\ ReadIns(v, a) # 1 => dec.blocksize = b
        /\ \A d \in Devices(a) :
             IF dec.pc = "decode" \/ d < dec.dev
             THEN d \in dec.erased \/ (dec.buf[d] = DeviceBlock(x, v, a, dec.n, d)
                                       /\ dec.blocksize = b)
             ELSE d \notin dec.erased
        /\ dec.total = Least((dec.n - 1) * LayoutOf(v, a).buffersize, SizeOf[v])
        /\ dec.n > 1 => x \in DOMAIN decoded /\ decoded[x] = First(x, v, dec.total)

Decodes(x, v, a) ==
    \/ dec.pc = "done" /\ decoded[x] = Original(x, v)
    \/ dec.pc = "refused" /\ (a.tech # "no_coding" =>
                                  Cardinality(MissingFiles(files, x, a)) > a.m)
    \/ dec.pc \in {"read", "decode"} /\ Reading(x, v, a)

DecInv ==
    /\ enc.pc # "idle" => dec.pc = "idle"
    /\ dec.pc \in {"read", "decode"} => {"pc", "name"} \subseteq DOMAIN dec
    /\ (good # NoRun /\ dec.pc # "idle" /\ dec.name = good.name) =>
           Decodes(good.name, good.version, good.args)

LEMMA MissingGrow ==
    ASSUME NEW x, NEW a \in ArgsSet, NEW fs, NEW gs, DOMAIN gs \subseteq DOMAIN fs
    PROVE  /\ MissingFiles(fs, x, a) \subseteq MissingFiles(gs, x, a)
           /\ Cardinality(MissingFiles(fs, x, a)) \in Nat
           /\ Cardinality(MissingFiles(fs, x, a)) <= Cardinality(MissingFiles(gs, x, a))
           /\ \A S : S \subseteq MissingFiles(fs, x, a) =>
                Cardinality(S) \in Nat /\ Cardinality(S) <= Cardinality(MissingFiles(fs, x, a))
<1>1. MissingFiles(fs, x, a) \subseteq MissingFiles(gs, x, a)
  BY DEF MissingFiles
<1>2. IsFiniteSet(Devices(a))
  BY ArgsAre, FS_Interval DEF Devices
<1>3. IsFiniteSet(MissingFiles(fs, x, a)) /\ IsFiniteSet(MissingFiles(gs, x, a))
  BY <1>2, FS_Subset DEF MissingFiles
<1>. QED  BY <1>1, <1>3, FS_Subset, FS_CardinalityType

Marks(x, v) == {<<x, v, p>> : p \in Nat}

LEMMA FirstIs ==
    ASSUME NEW x, NEW v, NEW t \in Nat
    PROVE  /\ First(x, v, t) \in Seq(Marks(x, v)) /\ Len(First(x, v, t)) = t
           /\ \A p \in 1..t : First(x, v, t)[p] = <<x, v, p - 1>>
<1> DEFINE s == First(x, v, t)
<1>1. s = [p \in 1..t |-> s[p]] /\ \A p \in 1..t : s[p] = <<x, v, p - 1>>
  BY DEF First
<1>2. \A p \in 1..t : s[p] \in Marks(x, v)
  <2>1. \A p \in 1..t : p - 1 \in Nat
    OBVIOUS
  <2>. QED  BY <1>1, <2>1 DEF Marks
<1> HIDE DEF s
<1>3. s \in Seq(Marks(x, v)) /\ Len(s) = t
  BY <1>1, <1>2
<1>. QED  BY <1>1, <1>3 DEF s

LEMMA DecInvImplies == RunInv /\ DecInv => DecodedIsOriginal
<1> SUFFICES ASSUME RunInv, DecInv, good # NoRun, dec.pc # "idle", dec.name = good.name
             PROVE  /\ dec.pc = "done" => decoded[dec.name] = Original(dec.name, good.version)
                    /\ (dec.pc \in {"read", "decode"} /\ dec.n > 1) =>
                           IsPrefix(decoded[dec.name], Original(dec.name, good.version))
                    /\ (dec.pc = "refused" /\ good.args.tech # "no_coding") =>
                           Cardinality(MissingFiles(files, dec.name, good.args)) > good.args.m
  BY DEF DecodedIsOriginal, MissingFiles, Devices
<1> DEFINE x == good.name
           v == good.version
           a == good.args
<1>1. v \in Versions /\ a \in ArgsSet
  BY DEF RunInv
<1>2. Decodes(x, v, a)
  BY DEF DecInv
<1>3. ASSUME dec.pc \in {"read", "decode"}, dec.n > 1
      PROVE  IsPrefix(decoded[x], Original(x, v))
  <2>1. Reading(x, v, a)
    BY <1>2, <1>3 DEF Decodes
  <2> DEFINE t == dec.total
             N == SizeOf[v]
  <2>2. t \in Nat /\ N \in Nat /\ t <= N
    <3>1. /\ dec.n \in Nat /\ dec.total \in Nat
          /\ dec.total = Least((dec.n - 1) * LayoutOf(v, a).buffersize, N)
      BY <2>1 DEF Reading, DecRecords
    <3>2. N \in Nat /\ LayoutOf(v, a).buffersize \in Nat
      BY <1>1, LayoutIs
    <3>3. (dec.n - 1) * LayoutOf(v, a).buffersize \in Int
      BY <3>1, <3>2
    <3>. QED  BY <3>1, <3>2, <3>3 DEF Least
  <2>3. decoded[x] = First(x, v, t)
    BY <1>3, <2>1 DEF Reading
  <2> HIDE DEF t, x, v
  <2> DEFINE s == First(x, v, t)
             o == Original(x, v)
             S == Marks(x, v)
  <2>4. /\ s \in Seq(S) /\ Len(s) = t /\ o \in Seq(S) /\ Len(o) = N
        /\ \A p \in 1..t : s[p] = <<x, v, p - 1>>
        /\ \A p \in 1..N : o[p] = <<x, v, p - 1>>
    <3>1. o = First(x, v, N)
      BY DEF First, Original
    <3>. QED  BY <2>2, <3>1, FirstIs
  <2> HIDE DEF s, o, S, N
  <2>5. \A p \in 1..t : s[p] = o[p]
    <3>1. \A p \in 1..t : p \in 1..N
      BY <2>2
    <3>. QED  BY <2>4, <3>1, Zenon
  <2>6. SubSeq(s, 1, t) = SubSeq(o, 1, t)
    <3> DEFINE p == SubSeq(s, 1, t)
               q == SubSeq(o, 1, t)
    <3>1. p \in Seq(S) /\ Len(p) = t /\ \A i \in 1..t : p[i] = s[i]
      BY <2>2, <2>4
    <3>2. q \in Seq(S) /\ Len(q) = t /\ \A i \in 1..t : q[i] = o[i]
      BY <2>2, <2>4
    <3> HIDE DEF p, q
    <3>3. p = q
      BY <2>5, <3>1, <3>2, SameSeq
    <3>. QED  BY <3>3 DEF p, q
  <2>. QED  BY <2>2, <2>3, <2>4, <2>6 DEF IsPrefix, s, o
<1>. QED  BY <1>2, <1>3 DEF Decodes

\* What fread gets of block n of a file.
ReadPart(content, b, n) ==
    SubSeq(content, b * (n - 1) + 1, IF Len(content) < b * n THEN Len(content) ELSE b * n)

\* What is read from a device file that stands is the block of the read-in.
LEMMA BlockRead ==
    ASSUME NEW x, NEW v \in Versions, NEW a \in ArgsSet, NEW d \in Devices(a),
           Stands(files, x, v, a), FileOf(x, a, d) \in DOMAIN files,
           NEW n \in 1..ReadIns(v, a),
           NEW content, content = files[FileOf(x, a, d)],
           NEW b, b = LayoutOf(v, a).blocksize
    PROVE  /\ ReadIns(v, a) = 1 => Len(content) = b
           /\ ReadPart(content, b, n) = DeviceBlock(x, v, a, n, d)
<1> DEFINE R == ReadIns(v, a)
<1>1. R \in Nat \ {0} /\ b \in Nat
  BY LayoutIs
<1>2. content = Upto(x, v, a, d, R)
  BY DEF Stands
<1>3. R \in 1..R
  BY <1>1
<1>4. Len(content) = b * R /\ PieceOf(content, b, n) = DeviceBlock(x, v, a, n, d)
  BY <1>2, <1>3, UptoPieces
<1>5. ~ (b * R < b * n)
  <2>1. R - n \in Nat /\ b * R = b * n + b * (R - n) /\ b * (R - n) \in Nat /\ b * n \in Nat
    BY <1>1
  <2>. QED  BY <2>1
<1>6. R = 1 => b * R = b
  BY <1>1
<1> HIDE DEF R
<1>7. /\ R = 1 => Len(content) = b
      /\ ReadPart(content, b, n) = DeviceBlock(x, v, a, n, d)
  BY <1>4, <1>5, <1>6 DEF PieceOf, ReadPart
<1>. QED  BY <1>7 DEF R

LEMMA ReadOverIs ==
    ASSUME NEW S, NEW old \in Seq(S), NEW content \in Seq(S),
           Len(old) \in {0, Len(content)}
    PROVE  ReadOver(old, content) = content
<1> DEFINE rest == SubSeq(old, Len(content) + 1, Len(old))
<1>1. rest = <<>>
  OBVIOUS
<1> HIDE DEF rest
<1>2. content \o rest = content
  BY <1>1
<1>. QED  BY <1>2 DEF ReadOver, rest

\* When a read-in can be decoded each data device gets its block.
LEMMA DecodeIs ==
    ASSUME NEW x, NEW v \in Versions, NEW a \in ArgsSet, Reading(x, v, a),
           dec.pc = "decode", Recoverable
    PROVE  /\ dec.blocksize = LayoutOf(v, a).blocksize
           /\ \A d \in 1..a.k, j \in 1..LayoutOf(v, a).blocksize :
                Decode(d, j) = DataBlock(x, v, a, dec.n, d)[j]
<1> DEFINE b == LayoutOf(v, a).blocksize
           mt == dec.meta
           E == dec.erased
           n == dec.n
           Block(d) == DeviceBlock(x, v, a, n, d)
<1>1. /\ mt.k = a.k /\ mt.m = a.m /\ mt.w = a.w /\ mt.packetsize = a.packetsize
      /\ mt.tech = a.tech /\ Code(mt) = Code(a)
  BY DEF Reading, DecRecords, MetaOf, Code
<1>2. /\ E \subseteq Devices(a) /\ n \in Nat /\ b \in Nat
      /\ \A d \in Devices(a) : d \in E \/ (dec.buf[d] = Block(d) /\ dec.blocksize = b)
  BY LayoutIs DEF Reading, DecRecords
<1>3. a.k \in Nat \ {0} /\ a.m \in Nat /\ a.k + a.m \in Nat
  BY ArgsAre
<1>4. IsFiniteSet(E) /\ Cardinality(E) \in Nat /\ Cardinality(E) <= a.m /\ a.tech # "no_coding"
  <2>1. IsFiniteSet(Devices(a))
    BY <1>3, FS_Interval DEF Devices
  <2>. QED  BY <1>1, <1>2, <2>1, FS_Subset, FS_CardinalityType DEF Recoverable
<1> DEFINE data == 1..a.k
           rows == (a.k + 1)..(a.k + a.m)
           intact == rows \ E
<1>5. data \subseteq Devices(a) /\ rows \subseteq Devices(a)
  BY <1>3 DEF Devices
<1>6. IsFiniteSet(data) /\ Cardinality(data) = a.k /\ IsFiniteSet(rows) /\ Cardinality(rows) = a.m
  <2> DEFINE ks == a.k
             ms == a.m
  <2>1. ks \in Nat \ {0} /\ ms \in Nat
    BY <1>3
  <2> HIDE DEF ks, ms
  <2>2. IsFiniteSet(1..ks) /\ Cardinality(1..ks) = ks
    BY <2>1, FS_Interval
  <2>3. IsFiniteSet((ks + 1)..(ks + ms)) /\ Cardinality((ks + 1)..(ks + ms)) = ms
    <3>1. ks + 1 \in Int /\ ks + ms \in Int /\ ((ks + 1 > ks + ms) <=> (ms = 0))
          /\ (ks + ms) - (ks + 1) + 1 = ms
      BY <2>1
    <3>2. Cardinality((ks + 1)..(ks + ms)) =
            IF ks + 1 > ks + ms THEN 0 ELSE (ks + ms) - (ks + 1) + 1
      BY <3>1, FS_Interval
    <3>. QED  BY <3>1, <3>2, FS_Interval
  <2>. QED  BY <2>2, <2>3 DEF ks, ms
<1>7. dec.blocksize = b
  <2>1. CASE \E d \in Devices(a) : d \notin E
    BY <1>2, <2>1
  <2>2. CASE Devices(a) \subseteq E
    <3>1. Cardinality(Devices(a)) = a.k + a.m
      <4>1. (a.k + a.m) - 1 + 1 = a.k + a.m /\ ~ (1 > a.k + a.m)
        BY <1>3
      <4>. QED  BY <1>3, <4>1, FS_Interval DEF Devices
    <3>2. Cardinality(Devices(a)) <= Cardinality(E)
      BY <1>4, <2>2, FS_Subset
    <3>. QED  BY <1>3, <1>4, <3>1, <3>2
  <2>. QED  BY <2>1, <2>2
<1>8. \A d \in Devices(a) \ E, j \in 1..b : Buffer(d)[j] = Block(d)[j]
  <2> SUFFICES ASSUME NEW d \in Devices(a) \ E, NEW j \in 1..b PROVE Buffer(d)[j] = Block(d)[j]
    OBVIOUS
  <2>1. Len(Block(d)) = b
    <3>1. d \in Nat
      BY DEF Devices
    <3>. QED  BY <1>2, BlockIs
  <2>2. dec.buf[d] = Block(d)
    BY <1>2
  <2> HIDE DEF Block
  <2>3. Buffer(d)[j] = IF j <= Len(dec.buf[d]) THEN dec.buf[d][j] ELSE Junk
    BY <1>7 DEF Buffer
  <2>. QED  BY <1>2, <2>1, <2>2, <2>3
<1>9. intact \subseteq Devices(a) \ E /\ intact \in SUBSET Nat
  BY <1>3, <1>5
<1>10. RowsUsed = {r \in intact : Cardinality({q \in intact : q < r}) < Cardinality(E \cap data)}
  BY <1>1 DEF RowsUsed, ErasedData
<1>11. ASSUME NEW d \in data, d \in E PROVE RowsUsed # {}
  <2>1. intact # {}
    <3> SUFFICES ASSUME rows \subseteq E PROVE FALSE
      OBVIOUS
    <3>1. d \notin rows
      BY <1>3
    <3>2. IsFiniteSet(rows \cup {d}) /\ Cardinality(rows \cup {d}) = a.m + 1
      BY <1>6, <3>1, FS_AddElement
    <3>3. Cardinality(rows \cup {d}) <= Cardinality(E)
      BY <1>4, <1>11, FS_Subset
    <3>. QED  BY <1>3, <1>4, <3>2, <3>3
  <2>2. PICK r \in intact : \A q \in intact : r <= q
    BY <1>9, <2>1, LeastOf
  <2>3. {q \in intact : q < r} = {}
    <3>1. \A q \in intact : ~ (q < r)
      BY <1>9, <2>2
    <3>. QED  BY <3>1
  <2>4. IsFiniteSet(E \cap data) /\ E \cap data # {} /\ Cardinality(E \cap data) \in Nat
    BY <1>4, <1>11, FS_Subset, FS_CardinalityType
  <2>5. Cardinality({q \in intact : q < r}) = 0 /\ Cardinality(E \cap data) # 0
    BY <2>3, <2>4, FS_EmptySet
  <2> HIDE DEF intact
  <2>6. Cardinality({q \in intact : q < r}) < Cardinality(E \cap data)
    BY <2>4, <2>5
  <2>. QED  BY <1>10, <2>6
<1>12. \A d \in data : Block(d) = DataBlock(x, v, a, n, d)
  BY <1>3 DEF DeviceBlock
<1>13. ASSUME NEW j \in 1..b, NEW r \in intact
       PROVE  Buffer(r)[j] = <<r - a.k, Code(a), [e \in data |-> DataBlock(x, v, a, n, e)[j]]>>
  <2>1. ~ (r <= a.k)
    BY <1>3
  <2>2. Block(r) = CodingBlock(x, v, a, n, r - a.k)
    BY <2>1 DEF DeviceBlock
  <2>3. CodingBlock(x, v, a, n, r - a.k)[j] =
            <<r - a.k, Code(a), [e \in data |-> DataBlock(x, v, a, n, e)[j]]>>
    BY <1>4 DEF CodingBlock
  <2>4. Buffer(r)[j] = Block(r)[j]
    BY <1>8, <1>9
  <2>. QED  BY <2>2, <2>3, <2>4
<1>14. ASSUME NEW d \in data, NEW j \in 1..b
       PROVE  Decode(d, j) = DataBlock(x, v, a, n, d)[j]
  <2> DEFINE row == CHOOSE r \in RowsUsed : TRUE
             byte == Buffer(row)[j]
             fits == /\ byte # Junk
                     /\ \A r \in RowsUsed : Buffer(r)[j] # Junk
                           /\ Buffer(r)[j] = <<r - mt.k, Code(mt), byte[3]>>
                     /\ \A e \in 1..mt.k \ E : Buffer(e)[j] = byte[3][e]
             col == [e \in data |-> DataBlock(x, v, a, n, e)[j]]
  <2>1. Decode(d, j) = IF d \notin E THEN Buffer(d)[j] ELSE IF fits THEN byte[3][d] ELSE Junk
    BY DEF Decode
  <2>2. CASE d \notin E
    <3>1. d \in Devices(a) \ E
      BY <1>5, <2>2
    <3>. QED  BY <1>8, <1>12, <2>1, <2>2, <3>1
  <2>3. CASE d \in E
    <3>1. row \in RowsUsed /\ RowsUsed \subseteq intact
      BY <1>10, <1>11, <2>3
    <3>2. \A r \in RowsUsed : Buffer(r)[j] = <<r - a.k, Code(a), col>>
      BY <1>13, <3>1
    <3>3. \A e \in data \ E : Buffer(e)[j] = DataBlock(x, v, a, n, e)[j]
      BY <1>5, <1>8, <1>12
    <3>4. \A e \in data : col[e] = DataBlock(x, v, a, n, e)[j]
      OBVIOUS
    <3> HIDE DEF col, row
    <3>5. byte = <<row - a.k, Code(a), col>>
      BY <3>1, <3>2
    <3>6. byte[3] = col /\ \A i, c, g : <<i, c, g>> # Junk
      BY <3>5 DEF Junk
    <3>7. fits
      <4>1. \A r \in RowsUsed : Buffer(r)[j] # Junk
                           /\ Buffer(r)[j] = <<r - mt.k, Code(mt), byte[3]>>
        BY <1>1, <3>2, <3>6
      <4>2. \A e \in 1..mt.k \ E : Buffer(e)[j] = byte[3][e]
        BY <1>1, <3>3, <3>4, <3>6
      <4>3. byte # Junk
        BY <3>5, <3>6
      <4>. QED  BY <4>1, <4>2, <4>3
    <3> HIDE DEF fits, byte
    <3>. QED  BY <2>1, <2>3, <3>4, <3>6, <3>7
  <2>. QED  BY <2>2, <2>3
<1>. QED  BY <1>7, <1>14

\* Byte p of k blocks of b bytes is in block d at place j.
LEMMA PlaceOf ==
    ASSUME NEW k \in Nat, NEW b \in Nat, NEW p \in 1..(k * b)
    PROVE  /\ (p - 1) \div b + 1 \in 1..k /\ ((p - 1) % b) + 1 \in 1..b
           /\ (((p - 1) \div b + 1) - 1) * b + (((p - 1) % b) + 1) - 1 = p - 1
<1>1. b # 0 /\ p - 1 \in Nat /\ p - 1 < k * b
  OBVIOUS
<1> DEFINE q == (p - 1) \div b
           r == (p - 1) % b
           z == p - 1
<1>2. q \in Int /\ r \in 0..(b - 1) /\ z = b * q + r
  <2> HIDE DEF z
  <2>1. z \div b \in Int /\ z % b \in 0..(b - 1) /\ z = b * (z \div b) + (z % b)
    BY <1>1 DEF z
  <2>. QED  BY <2>1 DEF z
<1>3. q \in Nat
  <2>1. z \div b \in Nat
    BY <1>1, QuotientIs
  <2>. QED  BY <2>1
<1> HIDE DEF q, r
<1>4. q < k
  <2> SUFFICES ASSUME q >= k PROVE FALSE
    BY <1>3
  <2>1. b * q = b * k + b * (q - k) /\ q - k \in Nat
    BY <1>3
  <2>2. b * (q - k) \in Nat
    BY <2>1
  <2>3. b * k = k * b
    OBVIOUS
  <2>. QED  BY <1>1, <1>2, <2>1, <2>2, <2>3 DEF z
<1>5. ((q + 1) - 1) * b = b * q
  BY <1>3
<1>6. (q + 1 \in 1..k) /\ (r + 1 \in 1..b) /\ ((q + 1) - 1) * b + (r + 1) - 1 = p - 1
  BY <1>1, <1>2, <1>3, <1>4, <1>5 DEF z
<1>. QED  BY <1>6 DEF q, r

\* The read-in goes on with the input where the ones before it ended.
LEMMA OutputIs ==
    ASSUME NEW x, NEW v \in Versions, NEW a \in ArgsSet, Reading(x, v, a),
           dec.pc = "decode", Recoverable,
           NEW l, l = Least(SizeOf[v] - dec.total, a.k * LayoutOf(v, a).blocksize)
    PROVE  /\ l \in Nat /\ dec.total \in Nat
           /\ Output = [p \in 1..l |-> <<x, v, dec.total + p - 1>>]
<1> DEFINE b == LayoutOf(v, a).blocksize
           B == LayoutOf(v, a).buffersize
           N == SizeOf[v]
           n == dec.n
           t == dec.total
           k == a.k
           bytes == [p \in 1..(k * b) |-> Decode((p - 1) \div b + 1, ((p - 1) % b) + 1)]
<1>1. /\ dec.meta.k = k /\ dec.meta.origsize = N /\ n \in 1..ReadIns(v, a) /\ t \in Nat
      /\ t = Least((n - 1) * B, N)
  BY DEF Reading, DecRecords, MetaOf
<1>2. b \in Nat /\ B \in Nat /\ N \in Nat /\ k \in Nat /\ ReadIns(v, a) \in Nat
  BY LayoutIs, ArgsAre
<1>3. n \in Nat /\ n - 1 \in Nat /\ (n - 1) * B \in Nat /\ k * b \in Nat /\ t <= N
  <2>1. n \in Nat /\ n - 1 \in Nat
    BY <1>1, <1>2
  <2>2. (n - 1) * B \in Nat /\ k * b \in Nat
    BY <1>2, <2>1
  <2> HIDE DEF n, N, B, t
  <2> DEFINE m == (n - 1) * B
  <2>3. t = Least(m, N) /\ m \in Nat
    BY <1>1, <2>2
  <2> HIDE DEF m
  <2>4. t <= N
    BY <1>2, <2>3 DEF Least
  <2>. QED  BY <2>1, <2>2, <2>4
<1>4. l \in Nat /\ l <= k * b /\ l <= N - t
  <2> DEFINE m == k * b
  <2>1. m \in Nat /\ l = Least(N - t, m)
    BY <1>3
  <2> HIDE DEF m, N, t
  <2>2. l \in Nat /\ l <= m /\ l <= N - t
    BY <1>1, <1>2, <1>3, <2>1 DEF Least
  <2>. QED  BY <2>2 DEF m
<1>5. dec.blocksize = b /\ \A d \in 1..k, j \in 1..b : Decode(d, j) = DataBlock(x, v, a, n, d)[j]
  BY DecodeIs
<1>6. ASSUME NEW p \in 1..(k * b) PROVE bytes[p] = BlockByte(x, v, a, n, p - 1)
  <2> DEFINE d == (p - 1) \div b + 1
             j == ((p - 1) % b) + 1
  <2>1. d \in 1..k /\ j \in 1..b /\ (d - 1) * b + j - 1 = p - 1
    BY <1>2, PlaceOf
  <2>2. bytes[p] = Decode(d, j)
    OBVIOUS
  <2> HIDE DEF d, j, bytes
  <2>3. Decode(d, j) = DataBlock(x, v, a, n, d)[j]
    BY <1>5, <2>1
  <2>4. DataBlock(x, v, a, n, d)[j] = BlockByte(x, v, a, n, (d - 1) * b + j - 1)
    BY <2>1 DEF DataBlock
  <2>. QED  BY <2>1, <2>2, <2>3, <2>4
<1>7. ASSUME NEW p \in 1..l
      PROVE  p \in 1..(k * b) /\ bytes[p] = <<x, v, t + p - 1>>
  <2>1. p \in 1..(k * b) /\ p \in Nat
    BY <1>3, <1>4
  <2> DEFINE m == (n - 1) * B
  <2>2. t = m
    <3>1. t < N
      BY <1>1, <1>2, <1>4
    <3>2. m \in Nat /\ t = Least(m, N)
      BY <1>1, <1>3
    <3> HIDE DEF m, t, N
    <3>. QED  BY <1>2, <3>1, <3>2 DEF Least
  <2>3. m + (p - 1) < N /\ m + (p - 1) = t + p - 1
    <3> HIDE DEF m, t, N
    <3>. QED  BY <1>1, <1>2, <1>4, <2>1, <2>2
  <2>4. BlockByte(x, v, a, n, p - 1) = <<x, v, m + (p - 1)>>
    BY <2>3 DEF BlockByte
  <2>. QED  BY <1>6, <2>1, <2>3, <2>4
<1>8. Output = SubSeq(bytes, 1, IF N - t < Len(bytes) THEN N - t ELSE Len(bytes))
  <2>1. bytes = [p \in 1..(dec.meta.k * dec.blocksize) |->
                    Decode((p - 1) \div dec.blocksize + 1, ((p - 1) % dec.blocksize) + 1)]
    BY <1>1, <1>5
  <2>. QED  BY <1>1, <2>1 DEF Output
<1> DEFINE S == {bytes[p] : p \in 1..(k * b)}
           m == k * b
           out == [p \in 1..l |-> <<x, v, t + p - 1>>]
<1>9. bytes \in Seq(S) /\ Len(bytes) = m /\ m \in Nat
  <2>1. bytes = [p \in 1..m |-> bytes[p]] /\ \A p \in 1..m : bytes[p] \in S
    OBVIOUS
  <2> HIDE DEF bytes, m
  <2>2. m \in Nat
    BY <1>3 DEF m
  <2>. QED  BY <2>1, <2>2
<1>10. \A p \in 1..l : out[p] = bytes[p] /\ p \in 1..m
  BY <1>7
<1>11. out = [p \in 1..l |-> out[p]]
  OBVIOUS
<1>12. Least(N - t, m) = l
  OBVIOUS
<1> HIDE DEF bytes, S, m, out, N, t
<1>13. Output = SubSeq(bytes, 1, l)
  BY <1>8, <1>9, <1>12 DEF Least
<1>14. SubSeq(bytes, 1, l) = out
  <2>1. l <= m
    BY <1>4 DEF m
  <2>2. \A p \in 1..l : out[p] \in S
    BY <1>9, <1>10
  <2>3. out \in Seq(S) /\ Len(out) = l
    BY <1>4, <1>11, <2>2
  <2> DEFINE sub == SubSeq(bytes, 1, l)
  <2>4. sub \in Seq(S) /\ Len(sub) = l /\ \A p \in 1..l : sub[p] = bytes[p]
    BY <1>4, <1>9, <2>1
  <2> HIDE DEF sub
  <2>5. sub = out
    BY <1>10, <2>3, <2>4, SameSeq
  <2>. QED  BY <2>5 DEF sub
<1>. QED  BY <1>1, <1>4, <1>13, <1>14 DEF out, t

LEMMA ReadDeviceDecodes ==
    ASSUME RunInv, ReadDevice, good # NoRun, dec.name = good.name,
           Reading(good.name, good.version, good.args)
    PROVE  Reading(good.name, good.version, good.args)'
<1> DEFINE x == good.name
           v == good.version
           a == good.args
           b == LayoutOf(v, a).blocksize
           e == dec.dev
           n == dec.n
           f == FileOf(x, a, e)
           D == DeviceBlock(x, v, a, n, e)
           last == e = a.k + a.m
           dev == IF last THEN 1 ELSE e + 1
           pc == IF last THEN "decode" ELSE "read"
           next == [dec EXCEPT !.dev = dev, !.pc = pc]
           size == IF Single(dec.meta) THEN Len(files[f]) ELSE dec.blocksize
           block == ReadPart(files[f], size, n)
<1>1. v \in Versions /\ a \in ArgsSet /\ Stands(files, x, v, a)
  BY DEF RunInv
<1>2. /\ dec \in DecRecords(x, v, a) /\ dec.pc = "read" /\ dec.meta = MetaOf(v, a)
      /\ n \in 1..ReadIns(v, a) /\ e \in Devices(a)
  BY DEF Reading, DecRecords, ReadDevice
<1>3. /\ b \in Nat /\ ReadIns(v, a) \in Nat /\ a.k + a.m \in Nat /\ 1 \in Devices(a)
      /\ e \in Nat /\ 1 <= e /\ e <= a.k + a.m /\ n \in Nat
  BY <1>1, <1>2, LayoutIs, ArgsAre DEF Devices
<1>4. /\ dev \in Devices(a) /\ pc \in {"read", "decode"} /\ (pc = "decode" => dev = 1)
      /\ \A d \in Devices(a) : (pc = "decode" \/ d < dev) <=> (d < e \/ d = e)
  BY <1>3 DEF Devices
<1>5. /\ dec' = IF f \notin DOMAIN files THEN [next EXCEPT !.erased = next.erased \cup {e}]
                ELSE [next EXCEPT !.buf[e] = ReadOver(next.buf[e], block), !.blocksize = size]
      /\ UNCHANGED <<files, decoded, good>>
  <2>1. dec.meta.k = a.k /\ dec.meta.m = a.m
    BY <1>2 DEF MetaOf
  <2>2. FileOf(dec.name, dec.meta, dec.dev) = f
    BY <2>1 DEF FileOf
  <2>. QED  BY <1>2, <2>1, <2>2 DEF ReadDevice, ReadPart
<1> HIDE DEF dev, pc, block, size, last
<1>6. /\ next \in DecRecords(x, v, a) /\ next.dev = dev /\ next.pc = pc /\ next.n = n
      /\ next.total = dec.total /\ next.buf = dec.buf /\ next.blocksize = dec.blocksize
      /\ next.erased = dec.erased
  <2>1. dev \in Nat
    BY <1>4 DEF Devices
  <2> HIDE DEF e, n
  <2>. QED  BY <1>2, <1>4, <2>1 DEF DecRecords, n
<1> HIDE DEF next
<1>7. /\ \A d \in Devices(a) : Len(dec.buf[d]) \in {0, b}
      /\ ReadIns(v, a) # 1 => dec.blocksize = b
      /\ dec.erased \subseteq MissingFiles(files, x, a)
      /\ \A d \in Devices(a) : d < e => d \in dec.erased
                \/ (dec.buf[d] = DeviceBlock(x, v, a, n, d) /\ dec.blocksize = b)
      /\ \A d \in Devices(a) : ~ (d < e) => d \notin dec.erased
      /\ dec.total = Least((n - 1) * LayoutOf(v, a).buffersize, SizeOf[v])
      /\ n > 1 => x \in DOMAIN decoded /\ decoded[x] = First(x, v, dec.total)
  BY <1>2 DEF Reading
<1>8. \A d \in Devices(a) : d \in Nat
  BY DEF Devices
<1> HIDE DEF x, v, a, b, e, n, f, D
<1>9. CASE f \notin DOMAIN files
  <2>1. dec' = [next EXCEPT !.erased = dec.erased \cup {e}]
    BY <1>5, <1>6, <1>9
  <2>2. dec.erased \cup {e} \in SUBSET Devices(a)
    BY <1>2 DEF DecRecords
  <2>3. /\ dec' \in DecRecords(x, v, a) /\ dec'.dev = dev /\ dec'.pc = pc /\ dec'.n = n
        /\ dec'.total = dec.total /\ dec'.buf = dec.buf /\ dec'.blocksize = dec.blocksize
        /\ dec'.erased = dec.erased \cup {e}
    BY <1>6, <2>1, <2>2 DEF DecRecords
  <2>4. dec'.erased \subseteq MissingFiles(files', x, a)
    BY <1>2, <1>5, <1>7, <1>9, <2>3 DEF MissingFiles, f
  <2>5. ASSUME NEW d \in Devices(a)
        PROVE  /\ (dec'.pc = "decode" \/ d < dec'.dev) =>
                    (d \in dec'.erased \/ (dec'.buf[d] = DeviceBlock(x, v, a, dec'.n, d)
                                           /\ dec'.blocksize = b))
               /\ ~ (dec'.pc = "decode" \/ d < dec'.dev) => d \notin dec'.erased
    <3>1. CASE d < e \/ d = e
      BY <1>4, <1>7, <2>3, <3>1
    <3>2. CASE ~ (d < e \/ d = e)
      BY <1>4, <1>7, <2>3, <3>2
    <3>. QED  BY <3>1, <3>2
  <2>. QED  BY <1>2, <1>4, <1>5, <1>7, <2>3, <2>4, <2>5 DEF Reading, x, v, a, b
<1>10. CASE f \in DOMAIN files
  <2>1. dec' = [next EXCEPT !.buf[e] = ReadOver(dec.buf[e], block), !.blocksize = size]
    BY <1>5, <1>6, <1>10
  <2>2. size = b /\ block = D
    <3>1. Single(dec.meta) <=> ReadIns(v, a) = 1
      BY <1>1, <1>2, LayoutIs DEF Single, MetaOf, ReadIns
    <3>2. /\ ReadIns(v, a) = 1 => Len(files[f]) = b
          /\ ReadPart(files[f], b, n) = D
      <4> DEFINE content == files[f]
      <4>1. content = files[FileOf(x, a, e)] /\ b = LayoutOf(v, a).blocksize
            /\ FileOf(x, a, e) \in DOMAIN files
        BY <1>10 DEF f, b
      <4> HIDE DEF content
      <4>2. /\ ReadIns(v, a) = 1 => Len(content) = b
            /\ ReadPart(content, b, n) = DeviceBlock(x, v, a, n, e)
        BY <1>1, <1>2, <4>1, BlockRead
      <4>. QED  BY <4>2 DEF content, D
    <3>3. size = b
      BY <1>7, <3>1, <3>2 DEF size
    <3>. QED  BY <3>2, <3>3 DEF block
  <2>3. D \in Seq(Bytes(x, v, a)) /\ Len(D) = b /\ dec.buf[e] \in Seq(Bytes(x, v, a))
    <3>1. D \in Seq(BytesOf(x, v, a, e)) /\ Len(D) = b
      BY <1>1, <1>3, BlockIs DEF D, b
    <3>2. BytesOf(x, v, a, e) \subseteq Bytes(x, v, a)
      BY <1>3 DEF BytesOf, Bytes
    <3>3. dec.buf[e] \in Seq(Bytes(x, v, a))
      BY <1>2 DEF DecRecords
    <3>. QED  BY <3>1, <3>2, <3>3
  <2>4. ReadOver(dec.buf[e], block) = D
    BY <1>2, <1>7, <2>2, <2>3, ReadOverIs
  <2> DEFINE buf == [dec.buf EXCEPT ![e] = D]
  <2>5. dec' = [next EXCEPT !.buf = buf, !.blocksize = b]
    <3>1. dec' = [next EXCEPT !.buf[e] = D, !.blocksize = b]
      BY <2>1, <2>2, <2>4
    <3>. QED  BY <1>6, <3>1
  <2>6. /\ buf \in [Devices(a) -> Seq(Bytes(x, v, a))] /\ buf[e] = D
        /\ \A d \in Devices(a) : d # e => buf[d] = dec.buf[d]
    <3>1. dec.buf \in [Devices(a) -> Seq(Bytes(x, v, a))]
      BY <1>2 DEF DecRecords
    <3>. QED  BY <1>2, <2>3, <3>1
  <2> HIDE DEF buf
  <2>7. /\ dec' \in DecRecords(x, v, a) /\ dec'.dev = dev /\ dec'.pc = pc /\ dec'.n = n
        /\ dec'.total = dec.total /\ dec'.buf = buf /\ dec'.blocksize = b
        /\ dec'.erased = dec.erased
    BY <1>3, <1>6, <2>5, <2>6 DEF DecRecords
  <2>8. \A d \in Devices(a) : Len(buf[d]) \in {0, b}
    BY <1>7, <2>3, <2>6
  <2>9. ASSUME NEW d \in Devices(a)
        PROVE  /\ (dec'.pc = "decode" \/ d < dec'.dev) =>
                    (d \in dec'.erased \/ (dec'.buf[d] = DeviceBlock(x, v, a, dec'.n, d)
                                           /\ dec'.blocksize = b))
               /\ ~ (dec'.pc = "decode" \/ d < dec'.dev) => d \notin dec'.erased
    <3>1. CASE d = e
      BY <1>4, <1>7, <2>6, <2>7, <3>1 DEF D
    <3>2. CASE d # e
      BY <1>3, <1>4, <1>7, <1>8, <2>6, <2>7, <3>2
    <3>. QED  BY <3>1, <3>2
  <2>10. /\ dec'.n \in 1..ReadIns(v, a) /\ dec'.dev \in Devices(a)
         /\ dec'.pc = "decode" => dec'.dev = 1
    BY <1>2, <1>4, <2>7
  <2>11. dec'.erased \subseteq MissingFiles(files, x, a)
    BY <1>7, <2>7
  <2>12. /\ ReadIns(v, a) # 1 => dec'.blocksize = b
         /\ dec'.total = Least((dec'.n - 1) * LayoutOf(v, a).buffersize, SizeOf[v])
         /\ dec'.n > 1 => x \in DOMAIN decoded /\ decoded[x] = First(x, v, dec'.total)
    BY <1>7, <2>7
  <2>13. \A d \in Devices(a) :
            IF dec'.pc = "decode" \/ d < dec'.dev
            THEN d \in dec'.erased \/ (dec'.buf[d] = DeviceBlock(x, v, a, dec'.n, d)
                                       /\ dec'.blocksize = b)
            ELSE d \notin dec'.erased
    BY <2>9, Zenon
  <2>14. \A d \in Devices(a) : Len(dec'.buf[d]) \in {0, b}
    BY <2>7, <2>8
  <2>15. dec' \in DecRecords(x, v, a) /\ files' = files /\ decoded' = decoded /\ good' = good
    BY <1>5, <2>7
  <2>. QED  BY <2>10, <2>11, <2>12, <2>13, <2>14, <2>15 DEF Reading, x, v, a, b
<1>. QED  BY <1>9, <1>10

LEMMA FirstJoined ==
    ASSUME NEW x, NEW v, NEW t \in Nat, NEW l \in Nat
    PROVE  First(x, v, t) \o [p \in 1..l |-> <<x, v, t + p - 1>>] = First(x, v, t + l)
<1> DEFINE S == Marks(x, v)
           s == First(x, v, t)
           out == [p \in 1..l |-> <<x, v, t + p - 1>>]
           all == First(x, v, t + l)
<1>1. /\ s \in Seq(S) /\ Len(s) = t /\ all \in Seq(S) /\ Len(all) = t + l
      /\ \A p \in 1..t : s[p] = <<x, v, p - 1>>
      /\ \A p \in 1..(t + l) : all[p] = <<x, v, p - 1>>
  <2>1. t + l \in Nat
    OBVIOUS
  <2>. QED  BY <2>1, FirstIs
<1>2. out = [p \in 1..l |-> out[p]] /\ \A p \in 1..l : out[p] = <<x, v, t + p - 1>>
  OBVIOUS
<1>3. \A p \in 1..l : out[p] \in S
  <2>1. \A p \in 1..l : t + p - 1 \in Nat
    OBVIOUS
  <2>. QED  BY <1>2, <2>1 DEF Marks
<1> HIDE DEF S, s, out, all
<1>4. out \in Seq(S) /\ Len(out) = l
  BY <1>2, <1>3
<1> DEFINE joined == s \o out
<1>5. /\ joined \in Seq(S) /\ Len(joined) = t + l
      /\ \A p \in 1..(t + l) : joined[p] = IF p <= t THEN s[p] ELSE out[p - t]
  <2>1. s \in Seq(S) /\ out \in Seq(S) /\ Len(s) = t /\ Len(out) = l
    BY <1>1, <1>4
  <2>2. joined \in Seq(S) /\ Len(joined) = t + l
    BY <2>1
  <2>3. \A p \in 1..(t + l) : joined[p] = IF p <= t THEN s[p] ELSE out[p - t]
    BY <2>1
  <2>. QED  BY <2>2, <2>3
<1> HIDE DEF joined
<1>6. ASSUME NEW p \in 1..(t + l) PROVE joined[p] = all[p]
  <2>1. CASE p <= t
    <3>1. p \in 1..t
      BY <2>1
    <3>. QED  BY <1>1, <1>5, <2>1, <3>1
  <2>2. CASE ~ (p <= t)
    <3>1. p - t \in 1..l /\ t + (p - t) - 1 = p - 1
      BY <2>2
    <3>. QED  BY <1>1, <1>2, <1>5, <2>2, <3>1
  <2>. QED  BY <2>1, <2>2
<1>7. joined = all
  BY <1>1, <1>5, <1>6, SameSeq
<1>. QED  BY <1>7 DEF joined, s, out, all

LEMMA TotalGoesOn ==
    ASSUME NEW N \in Nat, NEW B \in Nat, NEW n \in Nat \ {0}, NEW t, NEW l,
           t = Least((n - 1) * B, N), l = Least(N - t, B)
    PROVE  t + l = Least(n * B, N)
<1>1. (n - 1) * B \in Nat /\ n * B = (n - 1) * B + B
  <2>1. n - 1 \in Nat
    OBVIOUS
  <2>. QED  BY <2>1
<1> DEFINE m == (n - 1) * B
           h == n * B
<1>2. m \in Nat /\ h = m + B /\ t = Least(m, N)
  BY <1>1
<1> HIDE DEF m, h
<1>3. t + l = Least(h, N)
  BY <1>2 DEF Least
<1>. QED  BY <1>3 DEF h

LEMMA WriteDecodedDecodes ==
    ASSUME RunInv, WriteDecoded, good # NoRun, dec.name = good.name,
           Reading(good.name, good.version, good.args)
    PROVE  Decodes(good.name, good.version, good.args)'
<1> DEFINE x == good.name
           v == good.version
           a == good.args
           b == LayoutOf(v, a).blocksize
           B == LayoutOf(v, a).buffersize
           N == SizeOf[v]
           R == ReadIns(v, a)
           n == dec.n
           t == dec.total
           l == Least(N - t, a.k * b)
           out == [p \in 1..l |-> <<x, v, t + p - 1>>]
           old == IF n = 1 \/ x \notin DOMAIN decoded THEN <<>> ELSE decoded[x]
<1>1. v \in Versions /\ a \in ArgsSet
  BY DEF RunInv
<1>2. /\ dec \in DecRecords(x, v, a) /\ dec.pc = "decode" /\ dec.meta = MetaOf(v, a)
      /\ Recoverable /\ n \in 1..R /\ dec.meta.readins = R
  BY DEF Reading, DecRecords, WriteDecoded, MetaOf
<1>3. /\ b \in Nat /\ B \in Nat /\ N \in Nat /\ R \in Nat \ {0}
      /\ \/ R = 1 /\ a.k * b >= N
         \/ R # 1 /\ a.k * b = B /\ R * B >= N
  BY <1>1, LayoutIs
<1>4. l \in Nat /\ t \in Nat /\ Output = out
  BY <1>1, <1>2, OutputIs
<1>5. /\ t = Least((n - 1) * B, N)
      /\ n > 1 => x \in DOMAIN decoded /\ decoded[x] = First(x, v, t)
      /\ \A d \in Devices(a) : Len(dec.buf[d]) \in {0, b}
      /\ R # 1 => dec.blocksize = b
  BY DEF Reading
<1>6. /\ decoded' = With(decoded, x, old \o Output)
      /\ n < R => dec' = [dec EXCEPT !.n = n + 1, !.pc = "read", !.erased = {},
                                     !.total = t + Len(Output)]
      /\ ~ (n < R) => dec'.pc = "done"
      /\ UNCHANGED <<files, good>>
  BY <1>2 DEF WriteDecoded
<1>7. Len(out) = l
  BY <1>4
<1> HIDE DEF x, v, a, b, B, N, R, n, t, l
<1>8. old = First(x, v, t)
  <2>1. CASE n = 1
    <3>1. (n - 1) * B = 0
      BY <1>3, <2>1
    <3>2. t = 0
      BY <1>3, <1>5, <3>1 DEF Least
    <3>3. First(x, v, t) \in Seq(Marks(x, v)) /\ Len(First(x, v, t)) = 0
      BY <1>4, <3>2, FirstIs
    <3>. QED  BY <2>1, <3>3
  <2>2. CASE n # 1
    <3>1. n > 1
      BY <1>2, <1>3, <2>2
    <3>. QED  BY <1>5, <2>2, <3>1
  <2>. QED  BY <2>1, <2>2
<1>9. x \in DOMAIN decoded' /\ decoded'[x] = First(x, v, t + l)
  <2>1. old \o Output = First(x, v, t + l)
    <3>1. First(x, v, t) \o out = First(x, v, t + l)
      BY <1>4, FirstJoined
    <3> HIDE DEF out, old
    <3>. QED  BY <1>4, <1>8, <3>1
  <2> DEFINE content == First(x, v, t + l)
             w == With(decoded, x, content)
  <2>2. decoded' = w
    BY <1>6, <2>1
  <2> HIDE DEF content
  <2>3. w[x] = content /\ x \in DOMAIN w
    BY DEF With
  <2>. QED  BY <2>2, <2>3 DEF content
<1>10. n \in Nat \ {0} /\ (R # 1 => t + l = Least(n * B, N))
  <2>1. n \in Nat \ {0}
    BY <1>2, <1>3
  <2>2. ASSUME R # 1 PROVE t + l = Least(n * B, N)
    <3>1. l = Least(N - t, B)
      BY <1>3, <2>2 DEF l
    <3>. QED  BY <1>3, <1>5, <2>1, <3>1, TotalGoesOn
  <2>. QED  BY <2>1, <2>2
<1>11. CASE n < R
  <2>1. t + l = Least(n * B, N) /\ R # 1 /\ (n + 1) - 1 = n
    BY <1>3, <1>10, <1>11
  <2> DEFINE next == [dec EXCEPT !.n = n + 1, !.pc = "read"]
  <2>2. dec' = [next EXCEPT !.erased = {}, !.total = t + l]
    BY <1>4, <1>6, <1>7, <1>11
  <2>3. /\ next \in DecRecords(x, v, a) /\ next.n = n + 1 /\ next.pc = "read"
        /\ next.dev = dec.dev /\ next.buf = dec.buf /\ next.blocksize = dec.blocksize
    <3>1. n + 1 \in Nat
      BY <1>10
    <3>. QED  BY <1>2, <3>1 DEF DecRecords
  <2> HIDE DEF next
  <2>4. /\ dec' \in DecRecords(x, v, a) /\ dec'.n = n + 1 /\ dec'.pc = "read"
        /\ dec'.dev = dec.dev /\ dec'.buf = dec.buf /\ dec'.blocksize = dec.blocksize
        /\ dec'.erased = {} /\ dec'.total = t + l
    <3>1. t + l \in Nat
      BY <1>4
    <3>. QED  BY <2>2, <2>3, <3>1 DEF DecRecords
  <2>5. n + 1 \in 1..R
    BY <1>3, <1>10, <1>11
  <2>6. dec.dev = 1 /\ 1 \in Devices(a)
    BY <1>1, <1>2, ArgsAre DEF Reading, x, v, a
  <2>7. \A d \in Devices(a) : ~ (d < 1)
    BY DEF Devices
  <2>8. Reading(x, v, a)'
    BY <1>5, <1>6, <1>9, <2>1, <2>4, <2>5, <2>6, <2>7 DEF Reading, x, v, a, b, B, N, R
  <2>. QED  BY <2>4, <2>8 DEF Decodes, x, v, a
<1>12. CASE ~ (n < R)
  <2>1. n = R
    BY <1>2, <1>3, <1>10, <1>12
  <2>2. t + l = N
    <3>1. CASE R = 1
      <4>1. t = 0
        <5>1. (n - 1) * B = 0
          BY <1>3, <2>1, <3>1
        <5>. QED  BY <1>3, <1>5, <5>1 DEF Least
      <4> DEFINE m == a.k * b
      <4>2. m >= N /\ l = Least(N - t, m)
        BY <1>3, <3>1 DEF l
      <4>3. m \in Int
        BY <1>1, <1>3, ArgsAre
      <4> HIDE DEF m
      <4>. QED  BY <1>3, <1>4, <4>1, <4>2, <4>3 DEF Least
    <3>2. CASE R # 1
      <4> DEFINE h == R * B
      <4>1. t + l = Least(h, N) /\ h >= N /\ h \in Nat
        BY <1>3, <1>10, <2>1, <3>2
      <4> HIDE DEF h
      <4>. QED  BY <1>3, <4>1 DEF Least
    <3>. QED  BY <3>1, <3>2
  <2>3. Original(x, v) = First(x, v, N)
    BY DEF First, Original, N
  <2>. QED  BY <1>6, <1>9, <1>12, <2>2, <2>3 DEF Decodes, x, v, a
<1>. QED  BY <1>11, <1>12

\* The decoder is idle while the encoder runs; what is lost was not erased
\* before it was lost.
LEMMA FilesLost ==
    ASSUME RunInv, DecInv, UNCHANGED <<decoded, dec, good, enc>>,
           DOMAIN files' \subseteq DOMAIN files
    PROVE  DecInv'
<1> SUFFICES ASSUME good # NoRun, dec.pc # "idle", dec.name = good.name
             PROVE  Decodes(good.name, good.version, good.args)'
  BY DEF DecInv
<1> DEFINE x == good.name
           v == good.version
           a == good.args
<1>1. a \in ArgsSet /\ Decodes(x, v, a)
  BY DEF RunInv, DecInv
<1>2. /\ MissingFiles(files, x, a) \subseteq MissingFiles(files', x, a)
      /\ Cardinality(MissingFiles(files, x, a)) \in Nat
      /\ Cardinality(MissingFiles(files', x, a)) \in Nat
      /\ Cardinality(MissingFiles(files, x, a)) <= Cardinality(MissingFiles(files', x, a))
  <2> DEFINE fs == files
             gs == files'
  <2>1. DOMAIN gs \subseteq DOMAIN fs
    OBVIOUS
  <2> HIDE DEF fs, gs, x, a
  <2>2. /\ MissingFiles(fs, x, a) \subseteq MissingFiles(gs, x, a)
        /\ Cardinality(MissingFiles(fs, x, a)) \in Nat
        /\ Cardinality(MissingFiles(fs, x, a)) <= Cardinality(MissingFiles(gs, x, a))
    BY <1>1, <2>1, MissingGrow
  <2>3. Cardinality(MissingFiles(gs, x, a)) \in Nat
    BY <1>1, MissingGrow
  <2>. QED  BY <2>2, <2>3 DEF fs, gs
<1>3. a.m \in Nat
  BY <1>1, ArgsAre
<1>4. CASE dec.pc = "done"
  BY <1>1, <1>4 DEF Decodes
<1>5. CASE dec.pc = "refused"
  <2>1. a.tech # "no_coding" => Cardinality(MissingFiles(files', x, a)) > a.m
    <3> DEFINE c == Cardinality(MissingFiles(files, x, a))
               e == Cardinality(MissingFiles(files', x, a))
               m == a.m
    <3>1. c \in Nat /\ e \in Nat /\ c <= e /\ m \in Nat
      BY <1>2, <1>3
    <3>2. a.tech # "no_coding" => c > m
      BY <1>1, <1>5 DEF Decodes
    <3> HIDE DEF c, e, m
    <3>3. a.tech # "no_coding" => e > m
      BY <3>1, <3>2
    <3>. QED  BY <3>3 DEF e, m
  <2>. QED  BY <1>5, <2>1 DEF Decodes
<1>6. CASE dec.pc \in {"read", "decode"}
  <2>1. Reading(x, v, a)
    BY <1>1, <1>6 DEF Decodes
  <2>2. Reading(x, v, a)'
    BY <1>2, <2>1 DEF Reading
  <2>. QED  BY <1>6, <2>2 DEF Decodes
<1>. QED  BY <1>1, <1>4, <1>5, <1>6 DEF Decodes

LEMMA DecodeStarts ==
    ASSUME RunInv, NEW y \in Names, DecodeStart(y)
    PROVE  DecInv'
<1>1. /\ enc.pc = "idle" /\ UNCHANGED <<files, meta, decoded, enc, good>>
      /\ dec' = [pc |-> "read", name |-> y, meta |-> meta, n |-> 1, dev |-> 1,
                 total |-> 0, erased |-> {}, blocksize |-> meta.buffersize \div meta.k,
                 buf |-> [d \in 1..(meta.k + meta.m) |-> <<>>]]
  BY DEF DecodeStart, Quiet
<1>2. dec'.pc = "read" /\ dec'.name = y /\ {"pc", "name"} \subseteq DOMAIN dec'
  BY <1>1
<1>3. ASSUME good # NoRun, good.name = y
      PROVE  Reading(y, good.version, good.args)'
  <2> DEFINE v == good.version
             a == good.args
             b == LayoutOf(v, a).blocksize
             B == LayoutOf(v, a).buffersize
             size == B \div a.k
             none == [d \in Devices(a) |-> <<>>]
  <2>1. v \in Versions /\ a \in ArgsSet /\ meta = MetaOf(v, a)
    BY <1>3 DEF RunInv
  <2>2. /\ meta.k = a.k /\ meta.m = a.m /\ meta.buffersize = B
    BY <2>1 DEF MetaOf
  <2>3. /\ b \in Nat /\ B \in Nat /\ ReadIns(v, a) \in Nat \ {0} /\ SizeOf[v] \in Nat
        /\ a.k \in Nat \ {0} /\ 1 \in Devices(a)
        /\ ReadIns(v, a) # 1 => size = b
    BY <2>1, LayoutIs, ArgsAre
  <2>4. size \in Nat
    BY <2>3, QuotientIs
  <2>5. dec' = [pc |-> "read", name |-> y, meta |-> MetaOf(v, a), n |-> 1, dev |-> 1,
               total |-> 0, erased |-> {}, blocksize |-> size, buf |-> none]
    BY <1>1, <2>1, <2>2 DEF Devices
  <2>6. none \in [Devices(a) -> Seq(Bytes(y, v, a))]
        /\ \A d \in Devices(a) : none[d] = <<>> /\ ~ (d < 1)
    <3>1. <<>> \in Seq(Bytes(y, v, a))
      OBVIOUS
    <3>. QED  BY <3>1 DEF Devices
  <2> HIDE DEF none, size
  <2>7. /\ dec' \in DecRecords(y, v, a) /\ dec'.n = 1 /\ dec'.pc = "read"
        /\ dec'.dev = 1 /\ dec'.buf = none /\ dec'.blocksize = size
        /\ dec'.erased = {} /\ dec'.total = 0
    BY <2>4, <2>5, <2>6 DEF DecRecords
  <2>8. 0 = Least((1 - 1) * B, SizeOf[v]) /\ 1 \in 1..ReadIns(v, a)
    <3>1. (1 - 1) * B = 0
      BY <2>3
    <3>. QED  BY <2>3, <3>1 DEF Least
  <2>9. Len(<<>>) = 0
    OBVIOUS
  <2> HIDE DEF v, a, b, B
  <2>. QED  BY <1>1, <2>3, <2>6, <2>7, <2>8, <2>9 DEF Reading, v, a, b, B
<1>. QED  BY <1>1, <1>2, <1>3 DEF DecInv, Decodes

LEMMA DecoderRuns ==
    ASSUME RunInv, DecInv, ReadDevice \/ Refuse \/ WriteDecoded
    PROVE  DecInv'
<1>1. /\ UNCHANGED <<files, enc, good>> /\ dec.pc \in {"read", "decode"} /\ enc.pc = "idle"
      /\ {"pc", "name"} \subseteq DOMAIN dec
  <2>1. UNCHANGED <<files, enc, good>> /\ dec.pc \in {"read", "decode"}
    BY DEF ReadDevice, Refuse, WriteDecoded
  <2>. QED  BY <2>1 DEF DecInv
<1>2. /\ dec'.name = dec.name /\ {"pc", "name"} \subseteq DOMAIN dec'
  <2>1. CASE ReadDevice
    <3> DEFINE dev == IF dec.dev = dec.meta.k + dec.meta.m THEN 1 ELSE dec.dev + 1
               pc == IF dec.dev = dec.meta.k + dec.meta.m THEN "decode" ELSE dec.pc
               next == [dec EXCEPT !.dev = dev, !.pc = pc]
    <3>1. next.name = dec.name /\ {"pc", "name"} \subseteq DOMAIN next
      <4> HIDE DEF dev, pc
      <4>. QED  BY <1>1
    <3> DEFINE f == FileOf(dec.name, dec.meta, dec.dev)
               size == IF Single(dec.meta) THEN Len(files[f]) ELSE dec.blocksize
               block == SubSeq(files[f], size * (dec.n - 1) + 1,
                               IF Len(files[f]) < size * dec.n THEN Len(files[f])
                               ELSE size * dec.n)
               over == ReadOver(next.buf[dec.dev], block)
    <3>2. dec' = IF f \notin DOMAIN files
                 THEN [next EXCEPT !.erased = next.erased \cup {dec.dev}]
                 ELSE [next EXCEPT !.buf[dec.dev] = over, !.blocksize = size]
      BY <2>1 DEF ReadDevice
    <3> HIDE DEF next, f, size, over
    <3>3. CASE f \notin DOMAIN files
      BY <3>1, <3>2, <3>3
    <3>4. CASE f \in DOMAIN files
      <4> DEFINE bf == [next.buf EXCEPT ![dec.dev] = over]
                 mid == [next EXCEPT !.buf = bf]
      <4>1. dec' = [mid EXCEPT !.blocksize = size]
        BY <3>2, <3>4
      <4> HIDE DEF bf
      <4>2. mid.name = dec.name /\ {"pc", "name"} \subseteq DOMAIN mid
        BY <3>1
      <4> HIDE DEF mid
      <4>. QED  BY <4>1, <4>2
    <3>. QED  BY <3>3, <3>4
  <2>2. CASE Refuse
    BY <2>2 DEF Refuse
  <2>3. CASE WriteDecoded
    <3> DEFINE mid == [dec EXCEPT !.n = dec.n + 1, !.pc = "read"]
               t == dec.total + Len(Output)
    <3>1. \/ dec' = [mid EXCEPT !.erased = {}, !.total = t]
          \/ dec' = [pc |-> "done", name |-> dec.name]
      BY <2>3 DEF WriteDecoded
    <3>2. mid.name = dec.name /\ {"pc", "name"} \subseteq DOMAIN mid
      BY <1>1
    <3> HIDE DEF mid, t
    <3>3. CASE dec' = [mid EXCEPT !.erased = {}, !.total = t]
      <4> DEFINE next == [mid EXCEPT !.erased = {}]
      <4>1. next.name = dec.name /\ {"pc", "name"} \subseteq DOMAIN next
        BY <3>2
      <4>2. dec' = [next EXCEPT !.total = t]
        BY <3>3
      <4> HIDE DEF next
      <4>. QED  BY <4>1, <4>2
    <3>4. CASE dec' = [pc |-> "done", name |-> dec.name]
      <4>1. dec'.name = dec.name /\ DOMAIN dec' = {"pc", "name"}
        BY <3>4
      <4>. QED  BY <4>1
    <3>. QED  BY <3>1, <3>3, <3>4
  <2>. QED  BY <2>1, <2>2, <2>3
<1>3. ASSUME good # NoRun, dec.name = good.name
      PROVE  Decodes(good.name, good.version, good.args)'
  <2> DEFINE x == good.name
             v == good.version
             a == good.args
  <2>1. a \in ArgsSet /\ v \in Versions /\ Reading(x, v, a)
    BY <1>1, <1>3 DEF RunInv, DecInv, Decodes
  <2>2. CASE ReadDevice
    <3>1. Reading(x, v, a)'
      BY <1>3, <2>1, <2>2, ReadDeviceDecodes
    <3>2. dec'.pc \in {"read", "decode"}
      BY <3>1 DEF Reading, DecRecords
    <3>. QED  BY <3>1, <3>2 DEF Decodes
  <2>3. CASE Refuse
    <3>1. dec'.pc = "refused" /\ ~ Recoverable
      BY <2>3 DEF Refuse
    <3>2. dec.erased \subseteq MissingFiles(files, x, a) /\ dec.meta.tech = a.tech /\ dec.meta.m = a.m
      BY <2>1 DEF Reading, DecRecords, MetaOf
    <3>3. /\ Cardinality(MissingFiles(files, x, a)) \in Nat /\ Cardinality(dec.erased) \in Nat
          /\ Cardinality(dec.erased) <= Cardinality(MissingFiles(files, x, a))
      BY <2>1, <3>2, MissingGrow
    <3>4. a.m \in Nat
      BY <2>1, ArgsAre
    <3>5. a.tech # "no_coding" => Cardinality(dec.erased) > a.m
      BY <3>1, <3>2, <3>3, <3>4 DEF Recoverable
    <3> DEFINE c == Cardinality(MissingFiles(files, x, a))
               e == Cardinality(dec.erased)
               m == a.m
    <3>6. c \in Nat /\ e \in Nat /\ e <= c /\ m \in Nat /\ (a.tech # "no_coding" => e > m)
      BY <3>3, <3>4, <3>5
    <3> HIDE DEF c, e, m
    <3>7. a.tech # "no_coding" => c > m
      BY <3>6
    <3>. QED  BY <1>1, <3>1, <3>7 DEF Decodes, c, m
  <2>4. CASE WriteDecoded
    BY <1>3, <2>1, <2>4, WriteDecodedDecodes
  <2>. QED  BY <2>2, <2>3, <2>4
<1>4. (dec'.pc \in {"read", "decode"} => {"pc", "name"} \subseteq DOMAIN dec') /\ enc'.pc = "idle"
  BY <1>1, <1>2
<1>5. good' = good
  BY <1>1
<1>6. (good' # NoRun /\ dec'.pc # "idle" /\ dec'.name = good'.name) =>
           Decodes(good.name, good.version, good.args)'
  BY <1>2, <1>3, <1>5
<1>. QED  BY <1>4, <1>6 DEF DecInv

\* The invariant of the decoder: what it has written of the input of the run
\* that stands, and what it gives up on.
THEOREM DecodeInvariant == FileSpec => []DecInv
<1>1. FileInit => DecInv
  BY DEF FileInit, DecInv, EncIdle, DecIdle
<1>2. RunInv /\ DecInv /\ [FileNext]_fvars => DecInv'
  <2> SUFFICES ASSUME RunInv, DecInv, [FileNext]_fvars PROVE DecInv'
    OBVIOUS
  <2>1. CASE \E x \in Names, c \in Calls : EncodeStart(x, c[1], c[2])
    <3>1. dec'.pc = "idle"
      BY <2>1 DEF EncodeStart, DecIdle
    <3>. QED  BY <3>1 DEF DecInv
  <2>2. CASE WriteDevice \/ WriteMeta \/ Kill
    <3>1. dec' = dec /\ enc.pc # "idle"
      BY <2>2 DEF WriteDevice, WriteMeta, Kill
    <3>2. dec.pc = "idle"
      BY <3>1 DEF DecInv
    <3>. QED  BY <3>1, <3>2 DEF DecInv
  <2>3. CASE \E x \in Names : DecodeStart(x)
    BY <2>3, DecodeStarts
  <2>4. CASE ReadDevice \/ Refuse \/ WriteDecoded
    BY <2>4, DecoderRuns
  <2>5. CASE (\E f \in DOMAIN files : Lose(f)) \/ UNCHANGED fvars
    <3>1. UNCHANGED <<decoded, dec, good, enc>> /\ DOMAIN files' \subseteq DOMAIN files
      BY <2>5 DEF Lose, fvars
    <3>. QED  BY <3>1, FilesLost
  <2>. QED  BY <2>1, <2>2, <2>3, <2>4, <2>5 DEF FileNext
<1>. QED  BY <1>1, <1>2, RunInvariant, PTL DEF FileSpec

\* decoder.c: a decoder that comes to its end after a completed run has
\* recreated the input as it was encoded, whichever device files were lost and
\* whenever; before its end it has a beginning of the input; it gives up only
\* when more than m device files are missing.
THEOREM DecodedIsOriginalHolds == FileSpec => []DecodedIsOriginal
BY RunInvariant, DecodeInvariant, DecInvImplies, PTL

-----------------------------------------------------------------------------
(* The forks: which bytes, blocks and runs there are                       *)

InBytes == {NUL, Filler, Unset} \cup ({"input"} \X Nat \X Nat) \cup ({"literal"} \X Nat \X Nat)
Codes == Techniques \cup {OwnMatrix}
Coefficients == {Coefficient(code, i, d) : code \in Codes, i \in Rows, d \in PDisks}
OutBytes == InBytes \cup (Rows \X PDisks \X Coefficients \X InBytes)
Layouts == [readins : Nat, buffersize : Nat, blocksize : Nat, newsize : Nat]
Records == [origsize : Nat, newsize : Nat, buffersize : Nat, tech : Techniques]
Runs == [pc : {"load", "data", "parity", "rename", "meta"}, disk : PDisks, run : Nat, n : Nat \ {0},
         row : Rows, size : Nat, tech : Techniques, layout : Layouts, readins : Nat,
         coding : [Rows -> Seq(OutBytes)]]
Entries == [disk : PDisks, tech : Techniques, killed : BOOLEAN]

LEMMA ForkSizes ==
    ASSUME NEW size \in RunSizes, NEW b \in BufferSizes, NEW t
    PROVE  Layout(size, IntSize, PArgs(b, t)) \in Layouts
<1> DEFINE a == PArgs(b, t)
           u == Unit(IntSize, a)
           buffer == ProperBuffersize(IntSize, a)
           newsize == Newsize(size, IntSize, a)
<1>1. a.k = K /\ a.w = W /\ a.packetsize = PacketSize /\ a.buffersize = b
  BY DEF PArgs
<1>2. size \in Nat /\ b \in Nat /\ K \in Nat \ {0}
  BY PositionalAssumption
<1>3. u \in Nat \ {0}
  <2>1. u = IntSize * W * K * PacketSize
    BY <1>1, PositionalAssumption DEF Unit
  <2>2. IntSize * W \in Nat \ {0}
    BY PositionalAssumption, ProductIs
  <2>3. IntSize * W * K \in Nat \ {0}
    <3> DEFINE x == IntSize * W
    <3>1. x \in Nat \ {0}
      BY <2>2
    <3> HIDE DEF x
    <3>2. x * K \in Nat \ {0}
      BY <3>1, <1>2, ProductIs
    <3>. QED  BY <3>2 DEF x
  <2>4. IntSize * W * K * PacketSize \in Nat \ {0}
    <3> DEFINE x == IntSize * W * K
    <3>1. x \in Nat \ {0}
      BY <2>3
    <3> HIDE DEF x
    <3>2. x * PacketSize \in Nat \ {0}
      BY <3>1, PositionalAssumption, ProductIs
    <3>. QED  BY <3>2 DEF x
  <2>. QED  BY <2>1, <2>4
<1>4. buffer \in Nat
  <2>1. RoundUp(b, u) \in Nat
    BY <1>2, <1>3, RoundedUp
  <2>2. RoundDown(b, u) \in Nat
    <3> HIDE DEF u
    <3> DEFINE q == b \div u
    <3>1. q \in Nat
      BY <1>2, <1>3, QuotientIs
    <3> HIDE DEF q
    <3>2. q * u \in Nat
      BY <1>3, <3>1
    <3>. QED  BY <3>2 DEF RoundDown, q
  <2>3. buffer = RoundUp(b, u) \/ buffer = RoundDown(b, u)
    BY <1>1 DEF ProperBuffersize
  <2>. QED  BY <2>1, <2>2, <2>3
<1>5. newsize \in Nat
  <2> DEFINE padded == RoundUp(size, u)
  <2>1. padded \in Nat
    BY <1>2, <1>3, RoundedUp
  <2>2. newsize = IF buffer = 0 THEN padded ELSE RoundUp(padded, buffer)
    BY DEF Newsize
  <2> HIDE DEF padded, buffer, newsize
  <2>. QED  BY <1>4, <2>1, <2>2, RoundedUp
<1>6. newsize \div K \in Nat /\ buffer \div K \in Nat
  <2> HIDE DEF newsize, buffer
  <2>. QED  BY <1>2, <1>4, <1>5, QuotientIs
<1>7. buffer # 0 => newsize \div buffer \in Nat
  <2> HIDE DEF newsize, buffer
  <2>. QED  BY <1>4, <1>5, QuotientIs
<1>8. SeveralReadIns(size, IntSize, a) => buffer # 0
  BY DEF SeveralReadIns
<1>9. Layout(size, IntSize, a) =
        IF SeveralReadIns(size, IntSize, a)
        THEN [readins |-> newsize \div buffer, buffersize |-> buffer,
              blocksize |-> buffer \div K, newsize |-> newsize]
        ELSE [readins |-> 1, buffersize |-> size,
              blocksize |-> newsize \div K, newsize |-> newsize]
  BY <1>1 DEF Layout
<1> HIDE DEF newsize, buffer
<1>10. CASE SeveralReadIns(size, IntSize, a)
  <2>1. newsize \div buffer \in Nat
    BY <1>7, <1>8, <1>10
  <2> DEFINE x == newsize \div buffer
             y == buffer \div K
  <2>2. x \in Nat /\ y \in Nat
    BY <1>6, <2>1
  <2>3. Layout(size, IntSize, a) = [readins |-> x, buffersize |-> buffer,
                                    blocksize |-> y, newsize |-> newsize]
    BY <1>9, <1>10
  <2> HIDE DEF x, y, a
  <2>4. Layout(size, IntSize, a) \in Layouts
    BY <1>4, <1>5, <2>2, <2>3 DEF Layouts
  <2>. QED  BY <2>4 DEF a
<1>11. CASE ~ SeveralReadIns(size, IntSize, a)
  <2> DEFINE y == newsize \div K
  <2>1. y \in Nat
    BY <1>6
  <2>2. Layout(size, IntSize, a) = [readins |-> 1, buffersize |-> size,
                                    blocksize |-> y, newsize |-> newsize]
    BY <1>9, <1>11
  <2> HIDE DEF y, a
  <2>3. Layout(size, IntSize, a) \in Layouts
    BY <1>2, <1>5, <2>1, <2>2 DEF Layouts
  <2>. QED  BY <2>3 DEF a
<1>. QED  BY <1>10, <1>11

LEMMA BlockOfFork ==
    ASSUME NEW r \in Nat, NEW l \in Layouts, NEW size \in Nat, NEW n \in Nat, n > 0
    PROVE  CauchyBlock(r, l, size, n) \in Seq(InBytes)
<1> DEFINE total == (n - 1) * l.buffersize
           byte(j) == InputByte(r, size, n * l.buffersize, total + j - 1)
<1>1. l.buffersize \in Nat /\ l.blocksize \in Nat
  BY DEF Layouts
<1>2. total \in Nat
  <2>1. n - 1 \in Nat
    OBVIOUS
  <2>2. \A x, y \in Nat : x * y \in Nat
    OBVIOUS
  <2>. QED  BY <1>1, <2>1, <2>2
<1>3. \A p \in Nat : \A e : InputByte(r, size, e, p) \in InBytes
  BY DEF InputByte, InBytes
<1>4. \A j \in 1..l.blocksize : total + j - 1 \in Nat
  <2> HIDE DEF total
  <2>. QED  BY <1>1, <1>2
<1>5. \A j \in 1..l.blocksize : byte(j) \in InBytes
  BY <1>3, <1>4
<1>6. CauchyBlock(r, l, size, n) = [j \in 1..l.blocksize |-> byte(j)]
  BY DEF CauchyBlock
<1> HIDE DEF byte
<1>. QED  BY <1>1, <1>5, <1>6

LEMMA LiteralBlockIs ==
    ASSUME NEW d \in PDisks
    PROVE  LiteralBlock(d) \in Seq(InBytes)
<1>1. LiteralSize \in Nat /\ d \in Nat
  BY PositionalAssumption DEF PDisks
<1>2. \A j \in 1..LiteralSize :
        (IF d \in {1, 2} THEN <<"literal", d, j>> ELSE NUL) \in InBytes
  BY <1>1 DEF InBytes
<1>. QED  BY <1>1, <1>2 DEF LiteralBlock

\* A byte times the coefficient of a code.
Multiple(i, d, code, b) == IF b = NUL THEN NUL ELSE <<i, d, Coefficient(code, i, d), b>>

LEMMA ParityIs ==
    ASSUME NEW i \in Rows, NEW d \in PDisks, NEW code \in Codes, NEW block \in Seq(InBytes)
    PROVE  /\ Parity(i, d, code, block) \in Seq(OutBytes)
           /\ Len(Parity(i, d, code, block)) = Len(block)
           /\ \A j \in 1..Len(block) :
                 Parity(i, d, code, block)[j] = Multiple(i, d, code, block[j])
<1> PICK c : c = Coefficient(code, i, d)
  OBVIOUS
<1>1. c \in Coefficients
  BY DEF Coefficients
<1>2. Len(block) \in Nat /\ DOMAIN block = 1..Len(block) /\ \A j \in 1..Len(block) : block[j] \in InBytes
  OBVIOUS
<1>3. \A j \in 1..Len(block) : Multiple(i, d, code, block[j]) \in OutBytes
  <2> SUFFICES ASSUME NEW b \in InBytes PROVE Multiple(i, d, code, b) \in OutBytes
    BY <1>2
  <2>1. <<i, d, c, b>> \in OutBytes
    BY <1>1 DEF OutBytes
  <2>2. NUL \in OutBytes
    BY DEF OutBytes, InBytes
  <2>. QED  BY <2>1, <2>2 DEF Multiple
<1>4. Parity(i, d, code, block) = [j \in 1..Len(block) |-> Multiple(i, d, code, block[j])]
  BY <1>2 DEF Parity, Multiple
<1>5. Parity(i, d, code, block) \in Seq(OutBytes) /\ Len(Parity(i, d, code, block)) = Len(block)
  BY <1>2, <1>3, <1>4
<1>6. \A j \in 1..Len(block) : Parity(i, d, code, block)[j] = Multiple(i, d, code, block[j])
  BY <1>4
<1>. QED  BY <1>5, <1>6

-----------------------------------------------------------------------------
(* What the decoders make of a row that begins with the parity of a block  *)

Begins(s, t) == Len(t) <= Len(s) /\ \A j \in 1..Len(t) : s[j] = t[j]

LEMMA SomeRowUsed ==
    ASSUME lostrows \subseteq Rows, Cardinality(ErasedDisks) + Cardinality(lostrows) <= M
    PROVE  UsedRows # {} /\ UsedRows \subseteq Rows /\ 1 \in ErasedDisks
<1>1. M \in Nat \ {0} /\ K \in Nat \ {0}
  BY PositionalAssumption
<1>2. IsFiniteSet(Rows) /\ Cardinality(Rows) = M
  BY <1>1, FS_Interval DEF Rows
<1>3. IsFiniteSet(lostrows) /\ Cardinality(lostrows) \in Nat
  BY <1>2, FS_Subset, FS_CardinalityType
<1>4. ErasedDisks \subseteq 1..2 /\ 1 \in ErasedDisks
  BY <1>1 DEF ErasedDisks, PDisks
<1>5. IsFiniteSet(ErasedDisks)
  <2>1. 1 \in Int /\ 2 \in Int
    OBVIOUS
  <2>2. IsFiniteSet(1..2)
    BY <2>1, FS_Interval, Zenon
  <2>. QED  BY <1>4, <2>2, FS_Subset
<1>6. Cardinality(ErasedDisks) \in Nat /\ Cardinality(ErasedDisks) # 0
  BY <1>4, <1>5, FS_CardinalityType, FS_EmptySet
<1>7. lostrows # Rows
  BY <1>1, <1>2, <1>3, <1>6
<1>8. Intact # {} /\ Intact \subseteq Rows
  BY <1>7 DEF Intact
<1>9. Intact \in SUBSET Nat
  BY <1>1, <1>8 DEF Rows
<1> DEFINE least == CHOOSE d \in Intact : \A e \in Intact : d <= e
<1>10. least \in Intact /\ \A e \in Intact : least <= e
  BY <1>8, <1>9, LeastOf
<1> HIDE DEF least
<1>11. {s \in Intact : s < least} = {}
  <2>1. \A s \in Intact : s \in Nat /\ least \in Nat /\ least <= s
    BY <1>9, <1>10
  <2>2. \A s \in Intact : ~(s < least)
    BY <2>1
  <2>. QED  BY <2>2
<1>12. Cardinality({s \in Intact : s < least}) < Cardinality(ErasedDisks)
  BY <1>6, <1>11, FS_EmptySet
<1>13. least \in UsedRows
  BY <1>10, <1>12 DEF UsedRows
<1>. QED  BY <1>4, <1>8, <1>13 DEF UsedRows

\* A code decodes what another one encoded, where it has its coefficients.
LEMMA SolvedIs ==
    ASSUME NEW B \in Seq(InBytes), NEW first \in Codes, NEW code,
           NEW size \in Nat, NEW n \in {1, 2}, NEW j \in 1..size,
           size * (n - 1) + j <= Len(B),
           \A r \in Rows : Begins(FlattenSeq(mfile[r]), Parity(r, 1, first, B)),
           \A r \in UsedRows : Coefficient(code, r, 1) = Coefficient(first, r, 1),
           lostrows \subseteq Rows, Cardinality(ErasedDisks) + Cardinality(lostrows) <= M
    PROVE  Solved(1, code, size, n, j) = B[size * (n - 1) + j]
<1> DEFINE pos == size * (n - 1) + j
           b == B[pos]
           bytes == [r \in UsedRows |-> RowBytes(r, size, n)[j]]
           Of(e) == {r \in UsedRows : /\ Len(bytes[r]) = 4 /\ bytes[r][2] = e
                                      /\ bytes[r][3] = Coefficient(code, r, e)}
<1>1. UsedRows # {} /\ UsedRows \subseteq Rows /\ 1 \in ErasedDisks
  BY SomeRowUsed
<1>2. pos \in Nat /\ 1 <= pos /\ pos <= Len(B) /\ pos \in 1..Len(B)
  OBVIOUS
<1>3. 1 \in PDisks
  BY PositionalAssumption DEF PDisks
<1>4. ASSUME NEW r \in UsedRows
      PROVE  bytes[r] = Multiple(r, 1, first, b)
  <2>1. r \in Rows
    BY <1>1
  <2>2. Begins(FlattenSeq(mfile[r]), Parity(r, 1, first, B))
    BY <2>1
  <2>3. /\ Len(Parity(r, 1, first, B)) = Len(B)
        /\ \A x \in 1..Len(B) : Parity(r, 1, first, B)[x] = Multiple(r, 1, first, B[x])
    BY <1>3, <2>1, ParityIs
  <2> HIDE DEF pos
  <2>4. pos <= Len(FlattenSeq(mfile[r])) /\ FlattenSeq(mfile[r])[pos] = Parity(r, 1, first, B)[pos]
    BY <1>2, <2>2, <2>3 DEF Begins
  <2>5. RowBytes(r, size, n)[j] = FlattenSeq(mfile[r])[pos]
    BY <2>4 DEF RowBytes, pos
  <2>6. FlattenSeq(mfile[r])[pos] = Multiple(r, 1, first, b)
    BY <1>2, <2>3, <2>4
  <2>. QED  BY <2>5, <2>6
<1> HIDE DEF pos, bytes
<1>5. Solved(1, code, size, n, j) =
        IF \A r \in UsedRows : bytes[r] = NUL THEN NUL
        ELSE IF \E e \in ErasedDisks : Of(e) = UsedRows
                    /\ Cardinality({bytes[r][4] : r \in UsedRows}) = 1
        THEN LET e == CHOOSE e \in ErasedDisks : Of(e) = UsedRows
             IN  IF 1 = e THEN bytes[CHOOSE r \in UsedRows : TRUE][4] ELSE NUL
        ELSE Unset
  BY Zenon DEF Solved, bytes
<1>6. CASE b = NUL
  BY <1>4, <1>5, <1>6 DEF pos, Multiple
<1>7. CASE b # NUL
  <2> HIDE DEF b
  <2>1. \A r \in UsedRows : /\ bytes[r] # NUL /\ Len(bytes[r]) = 4 /\ bytes[r][2] = 1
                            /\ bytes[r][3] = Coefficient(code, r, 1) /\ bytes[r][4] = b
    <3> SUFFICES ASSUME NEW r \in UsedRows
                 PROVE  /\ bytes[r] # NUL /\ Len(bytes[r]) = 4 /\ bytes[r][2] = 1
                        /\ bytes[r][3] = Coefficient(code, r, 1) /\ bytes[r][4] = b
      OBVIOUS
    <3> PICK c : c = Coefficient(first, r, 1)
      OBVIOUS
    <3>1. bytes[r] = <<r, 1, c, b>>
      BY <1>4, <1>7 DEF Multiple
    <3>2. <<r, 1, c, b>> # NUL /\ Len(<<r, 1, c, b>>) = 4
      BY DEF NUL
    <3>3. c = Coefficient(code, r, 1)
      OBVIOUS
    <3>. QED  BY <3>1, <3>2, <3>3
  <2>2. ~ \A r \in UsedRows : bytes[r] = NUL
    BY <1>1, <2>1
  <2>3. Of(1) = UsedRows
    BY <2>1
  <2>4. {bytes[r][4] : r \in UsedRows} = {b}
    BY <1>1, <2>1
  <2>5. Cardinality({bytes[r][4] : r \in UsedRows}) = 1
    BY <2>4, FS_Singleton
  <2> DEFINE f == CHOOSE e \in ErasedDisks : Of(e) = UsedRows
             r == CHOOSE r \in UsedRows : TRUE
  <2>6. f = 1
    <3>1. f \in ErasedDisks /\ Of(f) = UsedRows
      BY <1>1, <2>3
    <3> HIDE DEF f
    <3>2. PICK u \in UsedRows : TRUE
      BY <1>1
    <3>3. u \in Of(f)
      BY <3>1, <3>2
    <3>. QED  BY <2>1, <3>3
  <2>7. r \in UsedRows
    BY <1>1
  <2>8. Solved(1, code, size, n, j) = IF 1 = f THEN bytes[r][4] ELSE NUL
    BY <1>1, <1>5, <2>2, <2>3, <2>5, Zenon
  <2>9. bytes[r][4] = b
    BY <2>1, <2>7
  <2>. QED  BY <2>6, <2>8, <2>9 DEF b, pos
<1>. QED  BY <1>6, <1>7

-----------------------------------------------------------------------------
(* The invariant: files, log and run keep their types; as soon as the      *)
(* first run has appended a row, that row begins with the parity of the    *)
(* first block, and so it stays                                            *)

ForkTypes ==
    /\ log \in Seq(Entries)
    /\ kfile \in [PDisks -> Seq(Seq(InBytes))]
    /\ codes \in [PDisks -> Seq(Codes)]
    /\ \A d \in PDisks : Len(codes[d]) = Len(kfile[d])
    /\ mfile \in [Rows -> Seq(Seq(OutBytes))]
    /\ stage \in [Rows -> Seq(Seq(OutBytes))]
    /\ metadata \in [PDisks -> {NoMetadata} \cup Records]
    /\ lostrows \subseteq Rows
    /\ proc = Resting \/ proc \in Runs
    /\ proc.pc # "rest" => /\ log # <<>>
                           /\ proc.disk = log[Len(log)].disk
                           /\ proc.tech = log[Len(log)].tech

NothingYet ==
    log = <<>> => /\ proc.pc = "rest" /\ kfile[1] = <<>>
                  /\ \A i \in Rows : mfile[i] = <<>>
                  /\ \A d \in PDisks : metadata[d] = NoMetadata

FirstStored ==
    /\ log # <<>> /\ log[1].disk = 1 /\ ~ log[1].killed
    /\ Encodes(log[1].tech) /\ replaced = {}

BeginsWell(i) ==
    kfile[1] # <<>> /\ Begins(FlattenSeq(mfile[i]), ParityOfBlock(i, 1, 1))

FirstRowsInv ==
    FirstStored =>
        \/ \A i \in Rows : BeginsWell(i)
        \/ /\ Len(log) = 1 /\ proc.pc = "data" /\ kfile[1] = <<>>
           /\ \A i \in Rows : mfile[i] = <<>>
        \/ /\ Len(log) = 1 /\ proc.pc = "parity" /\ kfile[1] # <<>>
           /\ \A i \in Rows : i < proc.row => BeginsWell(i)
           /\ \A i \in Rows : i >= proc.row =>
                 mfile[i] = <<>> /\ proc.coding[i] = ParityOfBlock(i, 1, 1)

Agrees ==
    DecoderAgrees =>
        \A j \in DOMAIN result[1] \cap DOMAIN kfile[1][1] :
            result[1][j] # Behind => result[1][j] = kfile[1][1][j]

ResultInv ==
    result[1] # <<>> =>
        /\ log # <<>>
        /\ FirstStored => (\A i \in Rows : BeginsWell(i)) /\ Agrees

ForkInv ==
    IF program \in {"cauchy", "incr"}
    THEN ForkTypes /\ NothingYet /\ FirstRowsInv /\ ResultInv
    ELSE result[1] = <<>>

LEMMA ForkInvImplies == ForkInv => FirstBlockRecovered
BY DEF ForkInv, ResultInv, FirstStored, Agrees, FirstBlockRecovered

\* Every step keeps the types.

LEMMA StartTypes ==
    ASSUME ForkTypes, NEW d \in PDisks, NEW s \in RunSizes, NEW b \in BufferSizes, NEW t \in Techniques,
           PStart(d, s, PArgs(b, t))
    PROVE  /\ ForkTypes' /\ log' # <<>> /\ Len(log') = Len(log) + 1
           /\ log'[Len(log')] = [disk |-> d, tech |-> t, killed |-> FALSE]
           /\ \A r \in 1..Len(log) : log'[r] = log[r]
           /\ proc' \in Runs /\ proc'.pc \in {"load", "data"} /\ proc'.disk = d /\ proc'.n = 1
           /\ program \in {"cauchy", "ten", "incr"}
           /\ program = "incr" => proc'.readins = 1 /\ (proc'.pc = "load" => d > 1)
                                  /\ proc'.row = 1 /\ (proc'.pc = "data" => ~(d > 1))
           /\ program = "ten" => proc'.readins = K
           /\ program # "incr" \/ d = 1 => proc'.pc = "data"
<1> DEFINE a == PArgs(b, t)
           entry == [disk |-> d, tech |-> t, killed |-> FALSE]
<1>1. /\ proc.pc = "rest" /\ log' = Append(log, entry)
      /\ UNCHANGED <<program, kfile, codes, mfile, stage, metadata, result, decoder, lostrows, replaced>>
      /\ program \in {"cauchy", "ten", "incr"}
  BY DEF PStart, PArgs
<1>2. /\ log \in Seq(Entries) /\ log' \in Seq(Entries) /\ Len(log') = Len(log) + 1
      /\ log'[Len(log')] = entry /\ log' # <<>>
      /\ \A r \in 1..Len(log) : log'[r] = log[r]
  <2>1. entry \in Entries
    BY DEF Entries
  <2>2. log \in Seq(Entries)
    BY DEF ForkTypes
  <2> HIDE DEF entry
  <2>. QED  BY <1>1, <2>1, <2>2
<1>3. PICK l, readins, pc :
         /\ proc' = RunFor(d, s, a, l, readins, pc)
         /\ l \in Layouts /\ readins \in Nat /\ pc \in {"load", "data"}
         /\ program = "incr" => readins = 1 /\ (pc = "load" <=> d > 1)
         /\ program = "ten" => readins = K
         /\ program # "incr" \/ d = 1 => pc = "data"
  <2>1. Layout(s, IntSize, a) \in Layouts
    BY ForkSizes
  <2>2. s \in Nat /\ LiteralSize \in Nat /\ K \in Nat
    BY PositionalAssumption
  <2>3. CASE program = "cauchy"
    BY <2>1, <2>3 DEF PStart, CauchyRun, CauchyLayout, Layouts
  <2>4. CASE program = "ten"
    <3>1. proc' = TenRun(s, a) /\ d = 1
      BY <2>4 DEF PStart
    <3>2. TenLayout(s, a) \in Layouts
      BY <2>1, <2>2 DEF TenLayout, Layouts
    <3>. QED  BY <2>2, <2>4, <3>1, <3>2 DEF TenRun
  <2>5. CASE program = "incr"
    <3>1. proc' = IncrRun(d, s, a)
      BY <2>5 DEF PStart
    <3>2. IncrLayout(s, a) \in Layouts /\ IncrLayout(s, a).readins = 1
      BY <2>1, <2>2 DEF IncrLayout, Layouts
    <3> DEFINE pc == IF d > 1 THEN "load" ELSE "data"
    <3>3. pc \in {"load", "data"} /\ (pc = "load" <=> d > 1) /\ (d = 1 => pc = "data")
      OBVIOUS
    <3>4. proc' = RunFor(d, s, a, IncrLayout(s, a), 1, pc)
      BY <3>1, <3>2 DEF IncrRun
    <3> HIDE DEF pc
    <3>. QED  BY <2>5, <3>2, <3>3, <3>4
  <2>. QED  BY <1>1, <2>3, <2>4, <2>5
<1> DEFINE coding == [i \in Rows |-> [j \in 1..l.blocksize |-> Unset]]
<1>4. coding \in [Rows -> Seq(OutBytes)]
  <2>1. l.blocksize \in Nat /\ Unset \in OutBytes
    BY <1>3 DEF Layouts, OutBytes, InBytes
  <2>2. [j \in 1..l.blocksize |-> Unset] \in Seq(OutBytes)
    BY <2>1
  <2>. QED  BY <2>2
<1>5. proc' = [pc |-> pc, disk |-> d, run |-> Len(log) + 1, n |-> 1, row |-> 1,
               size |-> s, tech |-> t, layout |-> l, readins |-> readins, coding |-> coding]
  BY <1>3 DEF RunFor, PArgs
<1> HIDE DEF coding
<1>6. 1 \in Rows /\ s \in Nat /\ Len(log) + 1 \in Nat
  BY <1>2, PositionalAssumption DEF Rows
<1>7. proc' \in Runs
  BY <1>3, <1>4, <1>5, <1>6 DEF Runs
<1>8. /\ proc'.pc = pc /\ proc'.disk = d /\ proc'.tech = t /\ proc'.n = 1 /\ proc'.row = 1
      /\ proc'.readins = readins /\ pc # "rest"
  BY <1>3, <1>5
<1>9. ForkTypes'
  BY <1>1, <1>2, <1>7, <1>8 DEF ForkTypes
<1>10. /\ program = "incr" => proc'.readins = 1 /\ (proc'.pc = "load" => d > 1)
                              /\ proc'.row = 1 /\ (proc'.pc = "data" => ~(d > 1))
       /\ program = "ten" => proc'.readins = K
       /\ program # "incr" \/ d = 1 => proc'.pc = "data"
       /\ proc'.pc \in {"load", "data"}
  BY <1>3, <1>8
<1>. QED  BY <1>1, <1>2, <1>7, <1>8, <1>9, <1>10

LEMMA LoadTypes ==
    ASSUME ForkTypes, LoadParity
    PROVE  /\ ForkTypes' /\ proc \in Runs /\ proc.row \in Rows
           /\ UNCHANGED <<program, kfile, codes, mfile, stage, metadata, result, decoder, log, lostrows, replaced>>
           /\ \/ proc' = Resting
              \/ /\ proc' \in Runs /\ proc'.pc # "rest" /\ Readable(proc.row)
                 /\ proc'.disk = proc.disk /\ proc'.tech = proc.tech
                 /\ proc'.n = proc.n /\ proc'.readins = proc.readins
                 /\ proc'.pc = (IF proc.row = M THEN "data" ELSE "load")
                 /\ proc.row # M => proc'.row = proc.row + 1
<1> DEFINE i == proc.row
<1>1. /\ proc.pc = "load"
      /\ UNCHANGED <<program, kfile, codes, mfile, stage, metadata, result, decoder, log, lostrows, replaced>>
  BY DEF LoadParity
<1>2. proc \in Runs /\ i \in Rows
  BY <1>1 DEF ForkTypes, Resting, Runs
<1>3. \/ proc' = Resting
      \/ /\ proc' \in Runs /\ proc'.pc # "rest" /\ Readable(i)
         /\ proc'.disk = proc.disk /\ proc'.tech = proc.tech
         /\ proc'.n = proc.n /\ proc'.readins = proc.readins
         /\ proc'.pc = (IF i = M THEN "data" ELSE "load")
         /\ i # M => proc'.row = i + 1
  <2>1. CASE ~ Readable(i)
    BY <2>1 DEF LoadParity
  <2>2. CASE Readable(i)
    <3>1. mfile[i] \in Seq(Seq(OutBytes)) /\ Offset(i) \in Nat /\ Len(mfile[i]) > Offset(i)
      BY <1>2, <2>2 DEF ForkTypes, Offset, Readable
    <3>2. mfile[i][Offset(i) + 1] \in Seq(OutBytes)
      BY <3>1
    <3>3. proc.coding \in [Rows -> Seq(OutBytes)]
      BY <1>2 DEF Runs
    <3> DEFINE coding == [proc.coding EXCEPT ![i] = mfile[i][Offset(i) + 1]]
               row == IF i = M THEN 1 ELSE i + 1
               pc == IF i = M THEN "data" ELSE "load"
    <3>4. coding \in [Rows -> Seq(OutBytes)]
      BY <3>2, <3>3
    <3>5. row \in Rows /\ pc \in {"load", "data"} /\ (i # M => row = i + 1)
      BY <1>2, PositionalAssumption DEF Rows
    <3>6. proc' = [proc EXCEPT !.coding = coding, !.row = row, !.pc = pc]
      BY <2>2 DEF LoadParity
    <3> HIDE DEF coding, row, pc
    <3>7. /\ proc' \in Runs /\ proc'.pc = pc /\ proc'.row = row
          /\ proc'.disk = proc.disk /\ proc'.tech = proc.tech
          /\ proc'.n = proc.n /\ proc'.readins = proc.readins
      BY <1>2, <3>4, <3>5, <3>6 DEF Runs
    <3>8. proc'.pc # "rest"
      BY <3>5, <3>7
    <3>. QED  BY <2>2, <3>5, <3>7, <3>8 DEF pc
  <2>. QED  BY <2>1, <2>2
<1>4. ForkTypes'
  BY <1>1, <1>3 DEF ForkTypes, Resting
<1>. QED  BY <1>1, <1>2, <1>3, <1>4

LEMMA EncodeTypes ==
    ASSUME ForkTypes, EncodeAppendData, CurrentDisk \in PDisks,
           program \in {"cauchy", "ten", "incr"}
    PROVE  /\ ForkTypes' /\ CurrentBlock \in Seq(InBytes) /\ CurrentCode \in Codes
           /\ proc \in Runs
           /\ UNCHANGED <<program, mfile, stage, metadata, result, decoder, log, lostrows, replaced>>
           /\ proc' \in Runs /\ proc'.pc = "parity" /\ proc'.row = 1
           /\ proc'.disk = proc.disk /\ proc'.tech = proc.tech
           /\ proc'.n = proc.n /\ proc'.readins = proc.readins
           /\ \A i \in Rows : proc'.coding[i] = Coded(i)
           /\ \A e \in PDisks : kfile'[e] =
                 IF e = CurrentDisk THEN Append(kfile[e], CurrentBlock) ELSE kfile[e]
           /\ \A e \in PDisks : codes'[e] =
                 IF e = CurrentDisk THEN Append(codes[e], CurrentCode) ELSE codes[e]
<1> PICK d \in PDisks : d = CurrentDisk
  OBVIOUS
<1> DEFINE block == CurrentBlock
           code == CurrentCode
           coding == [i \in Rows |-> Coded(i)]
<1>1. /\ proc.pc = "data" /\ kfile' = [kfile EXCEPT ![d] = Append(kfile[d], block)]
      /\ codes' = [codes EXCEPT ![d] = Append(codes[d], code)]
      /\ proc' = [proc EXCEPT !.pc = "parity", !.row = 1, !.coding = coding]
      /\ UNCHANGED <<program, mfile, stage, metadata, result, decoder, log, lostrows, replaced>>
  BY DEF EncodeAppendData
<1>2. proc \in Runs /\ 1 \in Rows
  BY <1>1, PositionalAssumption DEF ForkTypes, Resting, Rows
<1>3. /\ proc.run \in Nat /\ proc.layout \in Layouts /\ proc.size \in Nat
      /\ proc.n \in Nat /\ proc.n > 0 /\ proc.disk \in PDisks
  BY <1>2 DEF Runs
<1>4. block \in Seq(InBytes)
  <2>1. CASE program = "cauchy"
    BY <1>3, <2>1, BlockOfFork DEF CurrentBlock
  <2>2. CASE program = "ten"
    <3>1. 1 \in Nat /\ 1 > 0
      OBVIOUS
    <3>. QED  BY <1>3, <2>2, <3>1, BlockOfFork DEF CurrentBlock, TenBlock
  <2>3. CASE program = "incr"
    BY <1>3, <2>3, LiteralBlockIs DEF CurrentBlock
  <2>. QED  BY <2>1, <2>2, <2>3
<1>5. \A i \in Rows : Coded(i) = IF Encodes(proc.tech) THEN Parity(i, d, code, block) ELSE proc.coding[i]
  BY DEF Coded
<1>11. code \in Codes
  BY <1>2 DEF CurrentCode, Codes, Runs
<1> HIDE DEF block, code
<1>6. coding \in [Rows -> Seq(OutBytes)]
  <2>1. \A i \in Rows : Parity(i, d, code, block) \in Seq(OutBytes)
    BY <1>4, <1>11, ParityIs
  <2>2. \A i \in Rows : proc.coding[i] \in Seq(OutBytes)
    BY <1>2 DEF Runs
  <2>3. \A i \in Rows : Coded(i) \in Seq(OutBytes)
    BY <1>5, <2>1, <2>2
  <2>. QED  BY <2>3
<1>7. \A i \in Rows : coding[i] = Coded(i)
  OBVIOUS
<1> HIDE DEF coding
<1>8. /\ proc' \in Runs /\ proc'.pc = "parity" /\ proc'.row = 1 /\ proc'.coding = coding
      /\ proc'.disk = proc.disk /\ proc'.tech = proc.tech
      /\ proc'.n = proc.n /\ proc'.readins = proc.readins
  BY <1>1, <1>2, <1>6 DEF Runs
<1>9. /\ kfile' \in [PDisks -> Seq(Seq(InBytes))]
      /\ \A e \in PDisks : kfile'[e] = IF e = d THEN Append(kfile[e], block) ELSE kfile[e]
  BY <1>1, <1>4 DEF ForkTypes
<1>12. /\ codes' \in [PDisks -> Seq(Codes)]
       /\ \A e \in PDisks : codes'[e] = IF e = d THEN Append(codes[e], code) ELSE codes[e]
  BY <1>1, <1>11 DEF ForkTypes
<1>13. \A e \in PDisks : Len(codes'[e]) = Len(kfile'[e])
  <2> SUFFICES ASSUME NEW e \in PDisks PROVE Len(codes'[e]) = Len(kfile'[e])
    OBVIOUS
  <2>1. /\ Len(codes[e]) = Len(kfile[e])
        /\ kfile[e] \in Seq(Seq(InBytes)) /\ codes[e] \in Seq(Codes)
    BY DEF ForkTypes
  <2>2. CASE e = d
    <3>1. Len(Append(kfile[e], block)) = Len(kfile[e]) + 1
      BY <1>4, <2>1
    <3>2. Len(Append(codes[e], code)) = Len(codes[e]) + 1
      BY <1>11, <2>1
    <3>. QED  BY <1>9, <1>12, <2>1, <2>2, <3>1, <3>2
  <2>3. CASE e # d
    BY <1>9, <1>12, <2>1, <2>3
  <2>. QED  BY <2>2, <2>3
<1>10. ForkTypes'
  BY <1>1, <1>8, <1>9, <1>12, <1>13 DEF ForkTypes
<1>. QED  BY <1>1, <1>2, <1>4, <1>7, <1>8, <1>9, <1>10, <1>11, <1>12 DEF block, code

\* Where a run stands when row i is done.
RowDone(i) ==
    /\ proc' \in Runs /\ proc'.coding = proc.coding
    /\ proc'.disk = proc.disk /\ proc'.tech = proc.tech
    /\ proc'.n = proc.n /\ proc'.readins = proc.readins
    /\ i = M => proc'.pc = "meta"
    /\ i # M => proc'.pc = "parity" /\ proc'.row = i + 1

LEMMA NextRowIs ==
    ASSUME proc \in Runs, proc' = NextRow
    PROVE  RowDone(proc.row)
<1> PICK i : i = proc.row
  OBVIOUS
<1>1. i \in Rows
  BY DEF Runs
<1>2. CASE i = M
  <2>1. proc' = [proc EXCEPT !.pc = "meta"]
    BY <1>2 DEF NextRow
  <2>. QED  BY <1>2, <2>1 DEF Runs, RowDone
<1>3. CASE i # M
  <2>1. proc' = [proc EXCEPT !.pc = "parity", !.row = i + 1]
    BY <1>3 DEF NextRow
  <2>2. i + 1 \in Rows
    BY <1>1, <1>3, PositionalAssumption DEF Rows
  <2>. QED  BY <1>3, <2>1, <2>2 DEF Runs, RowDone
<1>. QED  BY <1>2, <1>3

\* Either log of the row may be the one that grows.
LEMMA AppendTypes ==
    ASSUME ForkTypes, AppendRow, NEW i \in Rows, i = proc.row,
           NEW block, block = proc.coding[i]
    PROVE  /\ ForkTypes' /\ proc \in Runs /\ block \in Seq(OutBytes)
           /\ UNCHANGED <<program, kfile, codes, metadata, result, decoder, log, lostrows,
                          replaced>>
           /\ proc' \in Runs /\ proc'.coding = proc.coding
           /\ RowDone(i) \/ (Staged /\ proc'.pc = "rename" /\ proc'.row = i)
           /\ proc'.disk = proc.disk /\ proc'.tech = proc.tech
           /\ proc'.n = proc.n /\ proc'.readins = proc.readins
           /\ \A e \in Rows : e # i => mfile'[e] = mfile[e] /\ stage'[e] = stage[e]
           /\ ~ Staged => mfile'[i] = Append(mfile[i], block) /\ stage'[i] = stage[i]
           /\ Staged => mfile'[i] = mfile[i] /\ stage'[i] = Append(stage[i], block)
<1>1. /\ proc.pc = "parity"
      /\ IF Staged THEN AppendToStage(i) ELSE AppendToParity(i)
      /\ UNCHANGED <<program, kfile, codes, metadata, result, decoder, log, lostrows,
                     replaced>>
  BY DEF AppendRow
<1>2. proc \in Runs
  BY <1>1 DEF ForkTypes, Resting
<1>3. block \in Seq(OutBytes)
  BY <1>2 DEF Runs
<1>4. \/ proc' = NextRow
      \/ Staged /\ proc' = [proc EXCEPT !.pc = "rename"]
  BY <1>1 DEF AppendToStage, AppendToParity
<1>5. /\ proc' \in Runs /\ proc'.coding = proc.coding
      /\ RowDone(i) \/ (Staged /\ proc'.pc = "rename" /\ proc'.row = i)
      /\ proc'.disk = proc.disk /\ proc'.tech = proc.tech
      /\ proc'.n = proc.n /\ proc'.readins = proc.readins
  <2>1. CASE proc' = NextRow
    BY <1>2, <2>1, NextRowIs DEF RowDone
  <2>2. CASE Staged /\ proc' = [proc EXCEPT !.pc = "rename"]
    BY <1>2, <2>2 DEF Runs
  <2>. QED  BY <1>4, <2>1, <2>2
<1>6. mfile \in [Rows -> Seq(Seq(OutBytes))] /\ stage \in [Rows -> Seq(Seq(OutBytes))]
  BY DEF ForkTypes
<1> DEFINE F == [Rows -> Seq(Seq(OutBytes))]
           staged == Append(stage[i], block)
           longer == Append(mfile[i], block)
<1>7. staged \in Seq(Seq(OutBytes)) /\ longer \in Seq(Seq(OutBytes))
  BY <1>3, <1>6
<1>8. CASE ~ Staged
  <2>1. mfile' = [mfile EXCEPT ![i] = longer] /\ stage' = stage
    BY <1>1, <1>8 DEF AppendToParity
  <2> HIDE DEF longer
  <2>2. mfile' \in F /\ stage' \in F /\ mfile'[i] = longer
        /\ \A e \in Rows : e # i => mfile'[e] = mfile[e]
    BY <1>6, <1>7, <2>1
  <2>3. ForkTypes'
    BY <1>1, <1>5, <2>2 DEF ForkTypes
  <2>. QED  BY <1>1, <1>2, <1>3, <1>5, <1>8, <2>1, <2>2, <2>3 DEF longer
<1>9. CASE Staged
  <2>1. stage' = [stage EXCEPT ![i] = staged] /\ mfile' = mfile
    BY <1>1, <1>9 DEF AppendToStage
  <2> HIDE DEF staged
  <2>2. mfile' \in F /\ stage' \in F /\ stage'[i] = staged
        /\ \A e \in Rows : e # i => stage'[e] = stage[e]
    BY <1>6, <1>7, <2>1
  <2>3. ForkTypes'
    BY <1>1, <1>5, <2>2 DEF ForkTypes
  <2>. QED  BY <1>1, <1>2, <1>3, <1>5, <1>9, <2>1, <2>2, <2>3 DEF staged
<1>. QED  BY <1>8, <1>9

LEMMA RenameTypes ==
    ASSUME ForkTypes, RenameRow, NEW i, i = proc.row
    PROVE  /\ ForkTypes' /\ proc \in Runs /\ i \in Rows
           /\ UNCHANGED <<program, kfile, codes, metadata, result, decoder, log, lostrows>>
           /\ RowDone(i) /\ replaced' = replaced \cup {i}
           /\ mfile'[i] = stage[i] /\ stage'[i] = <<>>
           /\ \A e \in Rows : e # i => mfile'[e] = mfile[e] /\ stage'[e] = stage[e]
<1>1. /\ proc.pc = "rename" /\ proc' = NextRow
      /\ mfile' = [mfile EXCEPT ![i] = stage[i]] /\ stage' = [stage EXCEPT ![i] = <<>>]
      /\ replaced' = replaced \cup {i}
      /\ UNCHANGED <<program, kfile, codes, metadata, result, decoder, log, lostrows>>
  BY DEF RenameRow
<1>2. proc \in Runs
  BY <1>1 DEF ForkTypes, Resting
<1>3. i \in Rows
  BY <1>2 DEF Runs
<1>4. RowDone(i)
  BY <1>1, <1>2, NextRowIs
<1>5. mfile \in [Rows -> Seq(Seq(OutBytes))] /\ stage \in [Rows -> Seq(Seq(OutBytes))]
  BY DEF ForkTypes
<1>6. <<>> \in Seq(Seq(OutBytes))
  OBVIOUS
<1> DEFINE F == [Rows -> Seq(Seq(OutBytes))]
<1>7. /\ mfile' \in F /\ stage' \in F /\ mfile'[i] = stage[i] /\ stage'[i] = <<>>
      /\ \A e \in Rows : e # i => mfile'[e] = mfile[e] /\ stage'[e] = stage[e]
  BY <1>1, <1>3, <1>5, <1>6
<1>8. proc' \in Runs /\ proc'.disk = proc.disk /\ proc'.tech = proc.tech
  BY <1>4 DEF RowDone
<1>9. ForkTypes'
  BY <1>1, <1>7, <1>8 DEF ForkTypes
<1>. QED  BY <1>1, <1>2, <1>3, <1>4, <1>7, <1>9

LEMMA MetadataTypes ==
    ASSUME ForkTypes, WriteMetadata, CurrentDisk \in PDisks
    PROVE  /\ ForkTypes' /\ proc \in Runs
           /\ UNCHANGED <<program, kfile, codes, mfile, stage, result, decoder, log, lostrows, replaced>>
           /\ \/ proc' = Resting
              \/ /\ proc' \in Runs /\ proc'.pc = "data" /\ proc.n < proc.readins
                 /\ proc'.disk = proc.disk /\ proc'.tech = proc.tech
                 /\ proc'.n = proc.n + 1 /\ proc'.readins = proc.readins
<1> PICK d \in PDisks : d = CurrentDisk
  OBVIOUS
<1>1. /\ proc.pc = "meta"
      /\ metadata' = [metadata EXCEPT ![d] =
                         IF program = "incr" THEN IncrMetadata(metadata[d]) ELSE Record]
      /\ proc' = IF proc.n < proc.readins
                 THEN [proc EXCEPT !.pc = "data", !.n = proc.n + 1] ELSE Resting
      /\ UNCHANGED <<program, kfile, codes, mfile, stage, result, decoder, log, lostrows, replaced>>
  BY DEF WriteMetadata, CauchyMetadata
<1>2. proc \in Runs
  BY <1>1 DEF ForkTypes, Resting
<1>3. Record \in Records
  <2>1. proc.layout \in Layouts /\ proc.size \in Nat /\ proc.tech \in Techniques
    BY <1>2 DEF Runs
  <2>. QED  BY <2>1 DEF Record, Records, Layouts
<1>4. metadata' \in [PDisks -> {NoMetadata} \cup Records]
  <2>1. metadata \in [PDisks -> {NoMetadata} \cup Records]
    BY DEF ForkTypes
  <2>2. (IF program = "incr" THEN IncrMetadata(metadata[d]) ELSE Record) \in {NoMetadata} \cup Records
    BY <1>3, <2>1 DEF IncrMetadata
  <2>. QED  BY <1>1, <2>1, <2>2
<1>5. \/ proc' = Resting
      \/ /\ proc' \in Runs /\ proc'.pc = "data" /\ proc.n < proc.readins
         /\ proc'.disk = proc.disk /\ proc'.tech = proc.tech
         /\ proc'.n = proc.n + 1 /\ proc'.readins = proc.readins
  <2>1. proc.n + 1 \in Nat \ {0}
    BY <1>2 DEF Runs
  <2>. QED  BY <1>1, <1>2, <2>1 DEF Runs
<1>6. ForkTypes'
  BY <1>1, <1>4, <1>5 DEF ForkTypes, Resting
<1>. QED  BY <1>1, <1>2, <1>5, <1>6

LEMMA KillTypes ==
    ASSUME ForkTypes, KillEncoder
    PROVE  /\ ForkTypes' /\ proc' = Resting /\ log # <<>> /\ log' # <<>> /\ Len(log') = Len(log)
           /\ UNCHANGED <<program, kfile, codes, mfile, stage, metadata, result, decoder, lostrows, replaced>>
           /\ log'[Len(log)].killed /\ log'[Len(log)].disk = log[Len(log)].disk
           /\ log'[Len(log)].tech = log[Len(log)].tech
           /\ \A r \in 1..Len(log) : r # Len(log) => log'[r] = log[r]
<1> DEFINE last == Len(log)
<1>1. /\ proc.pc # "rest" /\ proc' = Resting
      /\ log' = [log EXCEPT ![last] = [log[last] EXCEPT !.killed = TRUE]]
      /\ UNCHANGED <<program, kfile, codes, mfile, stage, metadata, result, decoder, lostrows, replaced>>
  BY DEF KillEncoder
<1>2. /\ log \in Seq(Entries) /\ log # <<>> /\ last \in Nat /\ last \in DOMAIN log
      /\ log[last] \in Entries /\ DOMAIN log = 1..last
  BY <1>1 DEF ForkTypes
<1> DEFINE entry == [log[last] EXCEPT !.killed = TRUE]
<1>3. entry \in Entries /\ entry.killed /\ entry.disk = log[last].disk /\ entry.tech = log[last].tech
  BY <1>2 DEF Entries
<1> HIDE DEF entry
<1>4. /\ log' \in Seq(Entries) /\ log' # <<>> /\ Len(log') = last /\ log'[last] = entry
      /\ \A r \in 1..last : r # last => log'[r] = log[r]
  <2>1. log' = [log EXCEPT ![last] = entry]
    BY <1>1 DEF entry
  <2>2. log' \in Seq(Entries) /\ Len(log') = last
    BY <1>2, <1>3, <2>1
  <2>3. log'[last] = entry /\ \A r \in 1..last : r # last => log'[r] = log[r]
    <3> HIDE DEF last
    <3>. QED  BY <1>2, <2>1
  <2>4. log' # <<>>
    BY <1>2, <2>2
  <2>. QED  BY <2>2, <2>3, <2>4
<1>5. ForkTypes'
  BY <1>1, <1>4 DEF ForkTypes, Resting
<1>. QED  BY <1>1, <1>2, <1>3, <1>4, <1>5

LEMMA TypesAtFirst == PositionalInit => ForkTypes
<1> SUFFICES ASSUME PositionalInit PROVE ForkTypes
  OBVIOUS
<1>1. /\ <<>> \in Seq(Seq(InBytes)) /\ <<>> \in Seq(Seq(OutBytes)) /\ <<>> \in Seq(Entries)
      /\ <<>> \in Seq(Codes)
  OBVIOUS
<1>2. proc = Resting /\ proc.pc = "rest"
  BY DEF PositionalInit, Resting
<1>3. \A d \in PDisks : Len(codes[d]) = Len(kfile[d])
  BY DEF PositionalInit
<1>. QED  BY <1>1, <1>2, <1>3 DEF ForkTypes, PositionalInit

LEMMA ForkInit == PositionalInit => ForkInv
<1> SUFFICES ASSUME PositionalInit PROVE ForkInv
  OBVIOUS
<1>1. 1 \in PDisks
  BY PositionalAssumption DEF PDisks
<1>2. result[1] = <<>> /\ kfile[1] = <<>> /\ (\A i \in Rows : mfile[i] = <<>>)
      /\ (\A d \in PDisks : metadata[d] = NoMetadata) /\ log = <<>> /\ proc = Resting
  BY <1>1 DEF PositionalInit
<1>3. proc.pc = "rest"
  BY <1>2 DEF Resting
<1>4. ForkTypes
  <2>. QED  BY TypesAtFirst
<1>5. ~ FirstStored
  BY <1>2 DEF FirstStored
<1>. QED  BY <1>2, <1>3, <1>4, <1>5 DEF ForkInv, NothingYet, FirstRowsInv, ResultInv

\* What was stored first stays, and the rows that begin with it keep doing so.
LEMMA StillFirst ==
    ASSUME ForkTypes, log # <<>>, program' = program,
           log' \in Seq(Entries), Len(log') >= Len(log),
           log'[1].disk = log[1].disk /\ log'[1].tech = log[1].tech,
           ~ log'[1].killed => ~ log[1].killed,
           replaced' = {} => replaced = {}, FirstStored'
    PROVE  FirstStored
BY DEF FirstStored, Encodes

\* Disk 1 is given no block or one more.
DiskGrows ==
    \/ kfile'[1] = kfile[1] /\ codes'[1] = codes[1]
    \/ \E b \in Seq(InBytes), code \in Codes :
          kfile'[1] = Append(kfile[1], b) /\ codes'[1] = Append(codes[1], code)

LEMMA StillBegins ==
    ASSUME ForkTypes, NEW i \in Rows, BeginsWell(i), DiskGrows,
           mfile'[i] = mfile[i] \/ \E b \in Seq(OutBytes) : mfile'[i] = Append(mfile[i], b)
    PROVE  BeginsWell(i)' /\ kfile'[1][1] = kfile[1][1] /\ codes'[1][1] = codes[1][1]
<1>1. 1 \in PDisks
  BY PositionalAssumption DEF PDisks
<1>2. kfile[1] \in Seq(Seq(InBytes)) /\ mfile[i] \in Seq(Seq(OutBytes))
  BY <1>1 DEF ForkTypes
<1>7. codes[1] \in Seq(Codes) /\ Len(codes[1]) = Len(kfile[1]) /\ kfile[1] # <<>>
  BY <1>1 DEF ForkTypes, BeginsWell
<1>8. codes[1] # <<>> /\ kfile[1][1] \in Seq(InBytes) /\ codes[1][1] \in Codes
  BY <1>2, <1>7
<1>9. ASSUME NEW S, NEW t \in Seq(S), t # <<>>, NEW e \in S
      PROVE  Append(t, e) # <<>> /\ Append(t, e)[1] = t[1]
  BY <1>9
<1>3. kfile'[1] # <<>> /\ kfile'[1][1] = kfile[1][1] /\ codes'[1][1] = codes[1][1]
  <2>1. CASE kfile'[1] = kfile[1] /\ codes'[1] = codes[1]
    BY <1>7, <2>1
  <2>2. ASSUME NEW b \in Seq(InBytes), NEW code \in Codes,
               kfile'[1] = Append(kfile[1], b), codes'[1] = Append(codes[1], code)
        PROVE  kfile'[1] # <<>> /\ kfile'[1][1] = kfile[1][1] /\ codes'[1][1] = codes[1][1]
    <3>1. Append(kfile[1], b) # <<>> /\ Append(kfile[1], b)[1] = kfile[1][1]
      BY <1>2, <1>7, <1>9
    <3>2. Append(codes[1], code)[1] = codes[1][1]
      BY <1>7, <1>8, <1>9
    <3>. QED  BY <2>2, <3>1, <3>2
  <2>. QED  BY <2>1, <2>2 DEF DiskGrows
<1> DEFINE p == Parity(i, 1, codes[1][1], kfile[1][1])
           s == FlattenSeq(mfile[i])
<1>4. p \in Seq(OutBytes) /\ s \in Seq(OutBytes)
  <2>1. p \in Seq(OutBytes)
    BY <1>1, <1>8, ParityIs
  <2>2. <<>> \in Seq(OutBytes)
    OBVIOUS
  <2>. QED  BY <1>2, <2>1, <2>2, FlatAppend
<1>5. Begins(s, p)
  BY DEF BeginsWell, ParityOfBlock
<1>6. Begins(FlattenSeq(mfile'[i]), p)
  <2>1. CASE mfile'[i] = mfile[i]
    BY <1>5, <2>1
  <2>2. ASSUME NEW b \in Seq(OutBytes), mfile'[i] = Append(mfile[i], b)
        PROVE  Begins(FlattenSeq(mfile'[i]), p)
    <3>1. FlattenSeq(mfile'[i]) = s \o b
      BY <1>2, <2>2, FlatAppend
    <3> HIDE DEF s, p
    <3>2. Len(s \o b) = Len(s) + Len(b) /\ \A j \in 1..Len(s) : (s \o b)[j] = s[j]
      BY <1>4, Joined
    <3>3. Len(s) \in Nat /\ Len(b) \in Nat /\ Len(p) \in Nat
      BY <1>4
    <3>4. Begins(s \o b, p)
      BY <1>5, <3>2, <3>3 DEF Begins
    <3>. QED  BY <3>1, <3>4
  <2>. QED  BY <2>1, <2>2
<1>. QED  BY <1>3, <1>6 DEF BeginsWell, ParityOfBlock

\* A step of an encoder, or a loss, that leaves the decoded files alone.
LEMMA ResultStays ==
    ASSUME ForkTypes, ResultInv, log # <<>> => log' # <<>>, result' = result,
           decoder' = decoder, FirstStored' => FirstStored, DiskGrows,
           FirstStored' => \A i \in Rows : mfile'[i] = mfile[i] \/ \E b \in Seq(OutBytes) : mfile'[i] = Append(mfile[i], b)
    PROVE  ResultInv'
<1> SUFFICES ASSUME result'[1] # <<>>
             PROVE  /\ log' # <<>>
                    /\ FirstStored' => (\A i \in Rows : BeginsWell(i)') /\ Agrees'
  BY DEF ResultInv
<1>1. log' # <<>>
  BY DEF ResultInv
<1>2. ASSUME FirstStored' PROVE (\A i \in Rows : BeginsWell(i)') /\ Agrees'
  <2>1. (\A i \in Rows : BeginsWell(i)) /\ Agrees
    BY <1>2 DEF ResultInv
  <2>2. \A i \in Rows : BeginsWell(i)' /\ kfile'[1][1] = kfile[1][1] /\ codes'[1][1] = codes[1][1]
    BY <1>2, <2>1, StillBegins
  <2>3. 1 \in Rows
    BY PositionalAssumption DEF Rows
  <2>4. DecoderAgrees' => DecoderAgrees
    BY <2>2, <2>3 DEF DecoderAgrees
  <2>. QED  BY <2>1, <2>2, <2>3, <2>4 DEF Agrees
<1>. QED  BY <1>1, <1>2

LEMMA AllBegin ==
    ASSUME ForkTypes, \A i \in Rows : BeginsWell(i), DiskGrows,
           \A i \in Rows : mfile'[i] = mfile[i] \/ \E b \in Seq(OutBytes) : mfile'[i] = Append(mfile[i], b)
    PROVE  \A i \in Rows : BeginsWell(i)'
BY StillBegins

LEMMA StartKeeps ==
    ASSUME ForkInv, NEW d \in PDisks, NEW s \in RunSizes, NEW b \in BufferSizes, NEW t \in Techniques,
           PStart(d, s, PArgs(b, t)), program \in {"cauchy", "incr"}
    PROVE  ForkInv'
<1> DEFINE a == PArgs(b, t)
           entry == [disk |-> d, tech |-> t, killed |-> FALSE]
<1>1. ForkTypes /\ NothingYet /\ FirstRowsInv /\ ResultInv
  BY DEF ForkInv
<1>2. /\ proc.pc = "rest"
      /\ UNCHANGED <<program, kfile, codes, mfile, stage, metadata, result, decoder, lostrows, replaced>>
  BY DEF PStart
<1>3. /\ ForkTypes' /\ log' # <<>> /\ Len(log') = Len(log) + 1 /\ log'[Len(log')] = entry
      /\ \A r \in 1..Len(log) : log'[r] = log[r]
      /\ d = 1 => proc'.pc = "data"
  BY <1>1, StartTypes
<1>4. /\ log \in Seq(Entries) /\ log' \in Seq(Entries)
      /\ log # <<>> => log'[1] = log[1]
  <2>1. log \in Seq(Entries) /\ log' \in Seq(Entries)
    BY <1>1, <1>3 DEF ForkTypes
  <2>2. log # <<>> => 1 \in 1..Len(log)
    BY <2>1
  <2>. QED  BY <1>3, <2>1, <2>2
<1>6. NothingYet'
  BY <1>3 DEF NothingYet
<1>7. ASSUME FirstStored', log # <<>> PROVE FirstStored
  BY <1>1, <1>2, <1>3, <1>4, <1>7, StillFirst
<1>8. FirstRowsInv'
  <2> SUFFICES ASSUME FirstStored' PROVE FirstRowsInv'
    BY DEF FirstRowsInv
  <2>1. CASE log = <<>>
    <3>1. Len(log') = 1 /\ d = 1
      BY <1>3, <1>4, <2>1 DEF FirstStored
    <3>. QED  BY <1>1, <1>2, <1>3, <2>1, <3>1 DEF FirstRowsInv, NothingYet
  <2>2. CASE log # <<>>
    <3>1. \A i \in Rows : BeginsWell(i)
      BY <1>1, <1>2, <1>7, <2>2 DEF FirstRowsInv
    <3>2. \A i \in Rows : BeginsWell(i)'
      BY <1>1, <1>2, <3>1, AllBegin DEF DiskGrows
    <3>. QED  BY <3>2 DEF FirstRowsInv
  <2>. QED  BY <2>1, <2>2
<1>9. ResultInv'
  <2>1. CASE log = <<>>
    BY <1>1, <1>2, <1>3, <2>1 DEF ResultInv
  <2>2. CASE log # <<>>
    BY <1>1, <1>2, <1>3, <1>7, <2>2, ResultStays DEF DiskGrows
  <2>. QED  BY <2>1, <2>2
<1>. QED  BY <1>2, <1>3, <1>6, <1>8, <1>9 DEF ForkInv

LEMMA LoadKeeps ==
    ASSUME ForkInv, LoadParity, program \in {"cauchy", "incr"}
    PROVE  ForkInv'
<1>1. ForkTypes /\ NothingYet /\ FirstRowsInv /\ ResultInv
  BY DEF ForkInv
<1>2. /\ proc.pc = "load" /\ ForkTypes'
      /\ UNCHANGED <<program, kfile, codes, mfile, stage, metadata, result, decoder, log, lostrows, replaced>>
  BY <1>1, LoadTypes DEF LoadParity
<1>6. NothingYet'
  BY <1>1, <1>2 DEF NothingYet
<1>7. FirstStored' => FirstStored
  BY <1>2 DEF FirstStored, Encodes
<1>8. FirstRowsInv'
  <2> SUFFICES ASSUME FirstStored' PROVE \A e \in Rows : BeginsWell(e)'
    BY DEF FirstRowsInv
  <2>1. \A e \in Rows : BeginsWell(e)
    BY <1>1, <1>2, <1>7 DEF FirstRowsInv
  <2>. QED  BY <1>1, <1>2, <2>1, AllBegin DEF DiskGrows
<1>9. ResultInv'
  BY <1>1, <1>2, <1>7, ResultStays DEF DiskGrows
<1>. QED  BY <1>2, <1>6, <1>8, <1>9 DEF ForkInv

LEMMA EncodeKeeps ==
    ASSUME ForkInv, EncodeAppendData, program \in {"cauchy", "incr"}
    PROVE  ForkInv'
<1> PICK d : d = proc.disk
  OBVIOUS
<1> PICK block : block = CurrentBlock
  OBVIOUS
<1> PICK code : code = CurrentCode
  OBVIOUS
<1>1. ForkTypes /\ NothingYet /\ FirstRowsInv /\ ResultInv
  BY DEF ForkInv
<1>2. proc.pc = "data" /\ CurrentDisk = d
  BY DEF EncodeAppendData, CurrentDisk
<1>3. d \in PDisks /\ 1 \in PDisks
  <2>1. proc \in Runs
    BY <1>1, <1>2 DEF ForkTypes, Resting
  <2>. QED  BY <2>1, PositionalAssumption DEF PDisks, Runs
<1>4. /\ ForkTypes' /\ block \in Seq(InBytes) /\ code \in Codes
      /\ UNCHANGED <<program, mfile, stage, metadata, result, decoder, log, lostrows, replaced>>
      /\ proc'.pc = "parity" /\ proc'.row = 1
      /\ \A i \in Rows : proc'.coding[i] = Coded(i)
      /\ \A e \in PDisks : kfile'[e] = IF e = d THEN Append(kfile[e], block) ELSE kfile[e]
      /\ \A e \in PDisks : codes'[e] = IF e = d THEN Append(codes[e], code) ELSE codes[e]
  BY <1>1, <1>2, <1>3, EncodeTypes
<1>11. NothingYet'
  <2>1. log # <<>>
    BY <1>1, <1>2 DEF ForkTypes
  <2>. QED  BY <1>4, <2>1 DEF NothingYet
<1>12. FirstStored' => FirstStored
  BY <1>4 DEF FirstStored, Encodes
<1>13. DiskGrows
  BY <1>3, <1>4 DEF DiskGrows
<1>14. FirstRowsInv'
  <2> SUFFICES ASSUME FirstStored' PROVE FirstRowsInv'
    BY DEF FirstRowsInv
  <2>1. CASE \A i \in Rows : BeginsWell(i)
    <3>1. \A i \in Rows : BeginsWell(i)'
      BY <1>1, <1>4, <1>13, <2>1, AllBegin
    <3>. QED  BY <3>1 DEF FirstRowsInv
  <2>2. CASE Len(log) = 1 /\ kfile[1] = <<>> /\ \A i \in Rows : mfile[i] = <<>>
    <3>1. d = 1 /\ Encodes(proc.tech)
      BY <1>1, <1>2, <1>12, <2>2 DEF ForkTypes, FirstStored
    <3>2. kfile'[1] = Append(<<>>, block) /\ codes'[1] = Append(<<>>, code)
      <4>1. codes[1] \in Seq(Codes) /\ Len(codes[1]) = Len(kfile[1])
        BY <1>1, <1>3 DEF ForkTypes
      <4>2. Len(kfile[1]) = 0
        BY <2>2
      <4>3. codes[1] = <<>>
        BY <4>1, <4>2
      <4>. QED  BY <1>3, <1>4, <2>2, <3>1, <4>3
    <3>3. kfile'[1] # <<>> /\ kfile'[1][1] = block /\ codes'[1][1] = code
      <4>1. ASSUME NEW S, NEW b \in S
            PROVE  Append(<<>>, b) # <<>> /\ Append(<<>>, b)[1] = b
        OBVIOUS
      <4>. QED  BY <1>4, <3>2, <4>1
    <3>4. \A i \in Rows : proc'.coding[i] = ParityOfBlock(i, 1, 1)'
      <4>1. \A i \in Rows : proc'.coding[i] = Parity(i, 1, code, block)
        BY <1>2, <1>4, <3>1 DEF Coded
      <4>. QED  BY <3>3, <4>1 DEF ParityOfBlock
    <3>5. \A i \in Rows : i >= proc'.row /\ ~(i < proc'.row)
      BY <1>4, PositionalAssumption DEF Rows
    <3>. QED  BY <1>4, <2>2, <3>3, <3>4, <3>5 DEF FirstRowsInv
  <2>. QED  BY <1>1, <1>2, <1>12, <2>1, <2>2 DEF FirstRowsInv
<1>15. ResultInv'
  BY <1>1, <1>4, <1>12, <1>13, ResultStays
<1>. QED  BY <1>4, <1>11, <1>14, <1>15 DEF ForkInv

LEMMA AppendRowKeeps ==
    ASSUME ForkInv, AppendRow, program \in {"cauchy", "incr"}
    PROVE  ForkInv'
<1>1. ForkTypes /\ NothingYet /\ FirstRowsInv /\ ResultInv
  BY DEF ForkInv
<1>2. proc \in Runs /\ proc.row \in Rows
  BY <1>1 DEF AppendRow, ForkTypes, Resting, Runs
<1> PICK i \in Rows : i = proc.row
  BY <1>2
<1> PICK block : block = proc.coding[i]
  OBVIOUS
<1>3. /\ ForkTypes' /\ block \in Seq(OutBytes)
      /\ UNCHANGED <<program, kfile, codes, metadata, result, decoder, log, lostrows, replaced>>
      /\ proc'.coding = proc.coding
      /\ RowDone(i) \/ Staged
      /\ \A e \in Rows : e # i => mfile'[e] = mfile[e]
      /\ ~ Staged => mfile'[i] = Append(mfile[i], block)
      /\ Staged => mfile'[i] = mfile[i]
  BY <1>1, AppendTypes
<1>4. proc.pc = "parity"
  BY DEF AppendRow
<1>5. ~ Staged => /\ i = M => proc'.pc = "meta"
                  /\ i # M => proc'.pc = "parity" /\ proc'.row = i + 1
  BY <1>3 DEF RowDone
<1>6. /\ \A e \in Rows : mfile'[e] = mfile[e] \/ \E b \in Seq(OutBytes) : mfile'[e] = Append(mfile[e], b)
      /\ DiskGrows
  BY <1>3 DEF DiskGrows
<1>8. NothingYet'
  BY <1>1, <1>3, <1>4 DEF NothingYet
<1>9. FirstStored' => FirstStored
  BY <1>3 DEF FirstStored, Encodes
<1>11. FirstRowsInv'
  <2> SUFFICES ASSUME FirstStored' PROVE FirstRowsInv'
    BY DEF FirstRowsInv
  <2>1. CASE \A e \in Rows : BeginsWell(e)
    <3>1. \A e \in Rows : BeginsWell(e)'
      BY <1>1, <1>6, <2>1, AllBegin
    <3>. QED  BY <3>1 DEF FirstRowsInv
  <2>2. CASE /\ Len(log) = 1 /\ proc.pc = "parity" /\ kfile[1] # <<>>
             /\ \A e \in Rows : e < i => BeginsWell(e)
             /\ \A e \in Rows : e >= i => mfile[e] = <<>> /\ proc.coding[e] = ParityOfBlock(e, 1, 1)
    <3>1. ~ Staged
      BY <1>1, <1>3, <1>4, <1>9, <2>2 DEF Staged, FirstStored, ForkTypes
    <3>6. ParityOfBlock(i, 1, 1)' = ParityOfBlock(i, 1, 1)
      BY <1>3 DEF ParityOfBlock
    <3>2. BeginsWell(i)'
      <4>1. mfile[i] = <<>> /\ block = ParityOfBlock(i, 1, 1)
        BY <1>2, <2>2, PositionalAssumption DEF Rows
      <4>2. mfile'[i] = Append(<<>>, block)
        BY <1>3, <3>1, <4>1
      <4>3. FlattenSeq(Append(<<>>, block)) = FlattenSeq(<<>>) \o block
        <5>1. <<>> \in Seq(Seq(OutBytes))
          OBVIOUS
        <5>. QED  BY <1>3, <5>1, FlatAppend
      <4>4. FlattenSeq(<<>>) \o block = block
        <5>1. FlattenSeq(<<>>) = <<>>
          BY DEF FlattenSeq
        <5>. QED  BY <1>3, <5>1
      <4>5. Begins(block, block)
        BY <1>3 DEF Begins
      <4>. QED  BY <1>3, <2>2, <3>6, <4>1, <4>2, <4>3, <4>4, <4>5 DEF BeginsWell
    <3>3. ASSUME NEW e \in Rows, e < i PROVE BeginsWell(e)'
      BY <1>1, <1>6, <2>2, <3>3, StillBegins
    <3>4. CASE i = M
      <4>1. \A e \in Rows : e = i \/ e < i
        BY <3>4, PositionalAssumption DEF Rows
      <4>. QED  BY <3>2, <3>3, <4>1 DEF FirstRowsInv
    <3>5. CASE i # M
      <4>1. proc'.pc = "parity" /\ proc'.row = i + 1
        BY <1>5, <3>1, <3>5
      <4>2. \A e \in Rows : e < i + 1 => BeginsWell(e)'
        <5>1. \A e \in Rows : e < i + 1 => e = i \/ e < i
          BY <1>2, PositionalAssumption DEF Rows
        <5>. QED  BY <3>2, <3>3, <5>1
      <4>3. \A e \in Rows : e >= i + 1 => mfile'[e] = <<>> /\ proc'.coding[e] = ParityOfBlock(e, 1, 1)'
        <5>1. \A e \in Rows : e >= i + 1 => e # i /\ e >= i
          BY <1>2, PositionalAssumption DEF Rows
        <5>2. \A e \in Rows : e # i => mfile'[e] = mfile[e]
          BY <1>3
        <5>3. \A e \in Rows : ParityOfBlock(e, 1, 1)' = ParityOfBlock(e, 1, 1)
          BY <1>3 DEF ParityOfBlock
        <5>. QED  BY <1>3, <2>2, <5>1, <5>2, <5>3
      <4>. QED  BY <1>3, <2>2, <4>1, <4>2, <4>3 DEF FirstRowsInv
    <3>. QED  BY <3>4, <3>5
  <2>. QED  BY <1>1, <1>3, <1>4, <1>9, <2>1, <2>2 DEF FirstRowsInv
<1>12. ResultInv'
  BY <1>1, <1>3, <1>6, <1>9, ResultStays
<1>. QED  BY <1>3, <1>8, <1>11, <1>12 DEF ForkInv

\* Of a parity file that is replaced nothing is said any more.
LEMMA RenameKeeps ==
    ASSUME ForkInv, RenameRow, program \in {"cauchy", "incr"}
    PROVE  ForkInv'
<1>1. ForkTypes /\ NothingYet /\ ResultInv
  BY DEF ForkInv
<1>2. /\ ForkTypes' /\ replaced' = replaced \cup {proc.row}
      /\ UNCHANGED <<program, kfile, codes, metadata, result, decoder, log, lostrows>>
  BY <1>1, RenameTypes
<1>3. ~ FirstStored'
  BY <1>2 DEF FirstStored
<1>4. log # <<>>
  BY <1>1 DEF RenameRow, ForkTypes
<1>. QED  BY <1>1, <1>2, <1>3, <1>4 DEF ForkInv, NothingYet, FirstRowsInv, ResultInv

\* Steps that change neither the logs of data and parity nor what is decoded:
\* unless nothing is in the log, all rows begin with the first block.
LEMMA OtherStepKeeps ==
    ASSUME ForkInv, program \in {"cauchy", "incr"}, ForkTypes', NothingYet',
           UNCHANGED <<program, kfile, codes, mfile, replaced>>,
           FirstStored' => FirstStored /\ \A i \in Rows : BeginsWell(i)
    PROVE  /\ FirstRowsInv'
           /\ FirstStored' => \A i \in Rows : BeginsWell(i)'
<1>1. ASSUME FirstStored' PROVE \A i \in Rows : BeginsWell(i)'
  <2>1. \A i \in Rows : BeginsWell(i)
    BY <1>1
  <2>2. ForkTypes
    BY DEF ForkInv
  <2>. QED  BY <2>1, <2>2, AllBegin DEF DiskGrows
<1>. QED  BY <1>1 DEF FirstRowsInv

LEMMA WriteMetadataKeeps ==
    ASSUME ForkInv, WriteMetadata, program \in {"cauchy", "incr"}
    PROVE  ForkInv'
<1>1. ForkTypes /\ NothingYet /\ FirstRowsInv /\ ResultInv
  BY DEF ForkInv
<1>2. proc.pc = "meta"
  BY DEF WriteMetadata
<1>3. CurrentDisk \in PDisks
  BY <1>1, <1>2 DEF CurrentDisk, ForkTypes, Resting, Runs
<1>4. /\ ForkTypes' /\ UNCHANGED <<program, kfile, codes, mfile, stage, result, decoder, log, lostrows, replaced>>
  BY <1>1, <1>3, MetadataTypes
<1>8. NothingYet'
  <2>1. log # <<>>
    BY <1>1, <1>2 DEF ForkTypes
  <2>. QED  BY <1>4, <2>1 DEF NothingYet
<1>9. FirstStored' => FirstStored /\ \A i \in Rows : BeginsWell(i)
  <2>1. FirstStored' => FirstStored
    BY <1>4 DEF FirstStored, Encodes
  <2>. QED  BY <1>1, <1>2, <2>1 DEF FirstRowsInv
<1>10. FirstRowsInv'
  BY <1>4, <1>8, <1>9, OtherStepKeeps
<1>11. ResultInv'
  BY <1>1, <1>4, <1>9, ResultStays DEF DiskGrows
<1>. QED  BY <1>4, <1>8, <1>10, <1>11 DEF ForkInv

LEMMA KillKeeps ==
    ASSUME ForkInv, KillEncoder, program \in {"cauchy", "incr"}
    PROVE  ForkInv'
<1> PICK last : last = Len(log)
  OBVIOUS
<1>1. ForkTypes /\ NothingYet /\ FirstRowsInv /\ ResultInv
  BY DEF ForkInv
<1>2. proc.pc # "rest"
  BY DEF KillEncoder
<1>3. /\ ForkTypes' /\ proc' = Resting /\ log # <<>> /\ log' # <<>> /\ Len(log') = last
      /\ UNCHANGED <<program, kfile, codes, mfile, stage, metadata, result, decoder, lostrows, replaced>>
      /\ log'[last].killed /\ log'[last].disk = log[last].disk /\ log'[last].tech = log[last].tech
      /\ \A r \in 1..last : r # last => log'[r] = log[r]
  BY <1>1, KillTypes
<1>4. log \in Seq(Entries) /\ log' \in Seq(Entries) /\ 1 \in 1..last
  BY <1>1, <1>3 DEF ForkTypes
<1>7. NothingYet'
  BY <1>3 DEF NothingYet
<1>8. FirstStored' => FirstStored /\ \A i \in Rows : BeginsWell(i)
  <2>1. FirstStored' => last # 1
    BY <1>3 DEF FirstStored
  <2>2. FirstStored' => FirstStored
    <3>1. /\ log'[1].disk = log[1].disk /\ log'[1].tech = log[1].tech
          /\ ~ log'[1].killed => ~ log[1].killed
      BY <1>3, <1>4
    <3>. QED  BY <1>1, <1>3, <1>4, <3>1, StillFirst
  <2>. QED  BY <1>1, <2>1, <2>2 DEF FirstRowsInv
<1>9. FirstRowsInv'
  BY <1>3, <1>7, <1>8, OtherStepKeeps
<1>10. ResultInv'
  BY <1>1, <1>3, <1>8, ResultStays DEF DiskGrows
<1>. QED  BY <1>3, <1>7, <1>9, <1>10 DEF ForkInv

\* What strlen finds of a block is the beginning of it.
LEMMA UpToNulIs ==
    ASSUME NEW S, NEW s \in Seq(S)
    PROVE  /\ UpToNul(s) \in Seq(S) /\ Len(UpToNul(s)) <= Len(s)
           /\ \A j \in 1..Len(UpToNul(s)) : UpToNul(s)[j] = s[j]
<1> DEFINE ends == {j \in DOMAIN s : s[j] = NUL}
           least == CHOOSE j \in ends : \A i \in ends : j <= i
<1>1. CASE ends = {}
  BY <1>1 DEF UpToNul
<1>2. CASE ends # {}
  <2>1. ends \in SUBSET Nat /\ DOMAIN s = 1..Len(s) /\ Len(s) \in Nat
    OBVIOUS
  <2>2. least \in ends
    <3> HIDE DEF ends
    <3>. QED  BY <1>2, <2>1, LeastOf
  <2>3. least \in 1..Len(s)
    BY <2>1, <2>2
  <2>4. UpToNul(s) = SubSeq(s, 1, least - 1)
    BY <1>2 DEF UpToNul
  <2> HIDE DEF least
  <2>. QED  BY <2>1, <2>3, <2>4
<1>. QED  BY <1>1, <1>2

LEMMA DecodeKeeps ==
    ASSUME ForkInv, NEW e \in PDisks, PDecode(e), program \in {"cauchy", "incr"}
    PROVE  ForkInv'
<1>1. ForkTypes /\ NothingYet /\ FirstRowsInv /\ ResultInv
  BY DEF ForkInv
<1>2. /\ proc.pc = "rest" /\ metadata[e] # NoMetadata
      /\ Cardinality(ErasedDisks) + Cardinality(lostrows) <= M
      /\ result = [d \in PDisks |-> <<>>]
      /\ decoder' = [code |-> metadata[e].tech, rows |-> UsedRows]
      /\ UNCHANGED <<program, kfile, codes, mfile, stage, metadata, proc, log, lostrows, replaced>>
  BY DEF PDecode
<1>3. ForkTypes' /\ NothingYet'
  BY <1>1, <1>2 DEF ForkTypes, NothingYet
<1>4. log # <<>>
  BY <1>1, <1>2 DEF NothingYet
<1>5. FirstStored' => FirstStored /\ \A i \in Rows : BeginsWell(i)
  <2>1. FirstStored' => FirstStored
    BY <1>2 DEF FirstStored, Encodes
  <2>. QED  BY <1>1, <1>2, <2>1 DEF FirstRowsInv
<1>6. FirstRowsInv' /\ (FirstStored' => \A i \in Rows : BeginsWell(i)')
  BY <1>2, <1>3, <1>5, OtherStepKeeps
<1>7. ASSUME FirstStored' PROVE Agrees'
  <2> DEFINE B == kfile[1][1]
             first == codes[1][1]
  <2> PICK code : code = metadata[e].tech
    OBVIOUS
  <2>1. 1 \in PDisks /\ 1 \in Rows
    BY PositionalAssumption DEF PDisks, Rows
  <2>2. (\A i \in Rows : BeginsWell(i)) /\ kfile[1] # <<>>
    BY <1>5, <1>7, <2>1 DEF BeginsWell
  <2>3. B \in Seq(InBytes) /\ first \in Codes
    <3>1. /\ kfile[1] \in Seq(Seq(InBytes)) /\ codes[1] \in Seq(Codes)
          /\ Len(codes[1]) = Len(kfile[1])
      BY <1>1, <2>1 DEF ForkTypes
    <3>2. codes[1] # <<>>
      BY <2>2, <3>1
    <3>. QED  BY <2>2, <3>1, <3>2
  <2>4. lostrows \subseteq Rows
    BY <1>1 DEF ForkTypes
  <2>5. \A r \in Rows : Begins(FlattenSeq(mfile[r]), Parity(r, 1, first, B))
    BY <2>2 DEF BeginsWell, ParityOfBlock
  <2>12. SUFFICES ASSUME \A r \in UsedRows : Coefficient(code, r, 1) = Coefficient(first, r, 1),
                         NEW j \in DOMAIN result'[1] \cap DOMAIN B, result'[1][j] # Behind
                  PROVE  result'[1][j] = B[j]
    BY <1>2 DEF Agrees, DecoderAgrees, B, first
  <2> HIDE DEF B, first
  <2>6. ASSUME NEW size \in Nat, NEW n \in {1, 2}, NEW x \in 1..size, size * (n - 1) + x <= Len(B)
        PROVE  Solution(1, code, size, n)[x] = B[size * (n - 1) + x]
    <3>1. Solved(1, code, size, n, x) = B[size * (n - 1) + x]
      BY <1>2, <2>3, <2>4, <2>5, <2>6, <2>12, SolvedIs
    <3>. QED  BY <3>1 DEF Solution
  <2>7. ASSUME NEW size \in Nat, NEW n \in {1, 2}
        PROVE  \E S : Solution(1, code, size, n) \in Seq(S) /\ Len(Solution(1, code, size, n)) = size
    <3> DEFINE S == {Solved(1, code, size, n, x) : x \in 1..size}
    <3>1. Solution(1, code, size, n) \in Seq(S) /\ Len(Solution(1, code, size, n)) = size
      BY DEF Solution
    <3>. QED  BY <3>1
  <2>8. j \in DOMAIN result'[1] \cap DOMAIN B /\ result'[1][j] # Behind
    BY <2>12
  <2>9. j \in 1..Len(B) /\ Len(B) \in Nat
    BY <2>3
  <2>10. CASE DecodeCauchy(e)
    <3> DEFINE size == CauchyDecoderBlock(metadata[e])
               data == Solution(1, code, size, 1)
    <3>1. PICK more \in {<<>>, <<Behind>>} : result'[1] = UpToNul(data) \o more
      BY <1>2, <2>1, <2>10 DEF DecodeCauchy
    <3>2. size \in Nat
      <4>1. metadata[e] \in Records
        BY <1>1, <1>2 DEF ForkTypes
      <4> DEFINE x == metadata[e].buffersize
      <4>2. x \in Nat /\ metadata[e].newsize \in Nat
        BY <4>1 DEF Records
      <4>3. K \in Nat \ {0}
        BY PositionalAssumption
      <4> HIDE DEF x
      <4>4. x \div K \in Nat
        BY <4>2, <4>3, QuotientIs
      <4>. QED  BY <4>2, <4>4 DEF CauchyDecoderBlock, x
    <3> HIDE DEF size
    <3>3. PICK S : data \in Seq(S) /\ Len(data) = size
      BY <2>7, <3>2
    <3> HIDE DEF data
    <3> DEFINE text == UpToNul(data)
               T == S \cup {Behind}
    <3>4. text \in Seq(S) /\ Len(text) <= Len(data) /\ \A x \in 1..Len(text) : text[x] = data[x]
      BY <3>3, UpToNulIs
    <3> HIDE DEF text
    <3>5. text \in Seq(T) /\ more \in Seq(T) /\ Len(more) <= 1 /\ (Len(more) = 1 => more[1] = Behind)
      <4>1. S \subseteq T /\ Behind \in T
        OBVIOUS
      <4> HIDE DEF T
      <4>2. text \in Seq(T)
        BY <3>4, <4>1
      <4>3. more = <<>> \/ more = <<Behind>>
        BY <3>1
      <4>4. ASSUME NEW b \in T
            PROVE  /\ <<>> \in Seq(T) /\ Len(<<>>) = 0
                   /\ <<b>> \in Seq(T) /\ Len(<<b>>) = 1 /\ <<b>>[1] = b
        OBVIOUS
      <4>5. more \in Seq(T) /\ Len(more) <= 1 /\ (Len(more) = 1 => more[1] = Behind)
        <5>1. CASE more = <<>>
          <6>1. <<>> \in Seq(T) /\ Len(<<>>) = 0
            BY <4>1, <4>4
          <6>2. 0 <= 1 /\ 0 # 1
            OBVIOUS
          <6>. QED  BY <5>1, <6>1, <6>2, Zenon
        <5>2. CASE more = <<Behind>>
          <6>1. <<Behind>> \in Seq(T) /\ Len(<<Behind>>) = 1 /\ <<Behind>>[1] = Behind
            BY <4>1, <4>4
          <6>2. 1 <= 1
            OBVIOUS
          <6>. QED  BY <5>2, <6>1, <6>2, Zenon
        <5>. QED  BY <4>3, <5>1, <5>2
      <4>. QED  BY <4>2, <4>5
    <3>6. /\ text \o more \in Seq(T) /\ Len(text \o more) = Len(text) + Len(more)
          /\ \A x \in 1..Len(text) : (text \o more)[x] = text[x]
          /\ \A x \in 1..Len(more) : (text \o more)[Len(text) + x] = more[x]
      BY <3>5, Joined
    <3>7. result'[1] = text \o more
      BY <3>1 DEF text
    <3>8. Len(text) \in Nat /\ Len(more) \in Nat /\ Len(data) \in Nat
      BY <3>3, <3>4, <3>5
    <3>9. j \in 1..(Len(text) + Len(more))
      BY <2>8, <3>6, <3>7
    <3>10. j \in 1..Len(text)
      <4>1. CASE j > Len(text)
        <5>1. j = Len(text) + 1 /\ Len(more) = 1
          BY <3>5, <3>8, <3>9, <4>1
        <5>2. (text \o more)[j] = Behind
          BY <3>5, <3>6, <5>1
        <5>. QED  BY <2>8, <3>7, <5>2
      <4>. QED  BY <3>8, <3>9, <4>1
    <3>11. result'[1][j] = data[j] /\ j \in 1..size
      BY <3>3, <3>4, <3>6, <3>7, <3>8, <3>10
    <3>12. data[j] = B[size * (1 - 1) + j]
      <4>1. size * (1 - 1) + j = j
        BY <2>9, <3>2
      <4>2. size * (1 - 1) + j <= Len(B)
        BY <2>9, <4>1
      <4>. QED  BY <2>6, <3>2, <3>11, <4>2 DEF data
    <3>13. size * (1 - 1) + j = j
      BY <2>9, <3>2
    <3>. QED  BY <3>11, <3>12, <3>13
  <2>11. CASE DecodeIncr(e)
    <3> DEFINE size == DecoderBlock
               one == Solution(1, code, size, 1)
               two == Solution(1, code, size, 2)
    <3>1. size \in Nat
      BY PositionalAssumption
    <3>2. 1 \in ErasedDisks
      BY <2>1 DEF ErasedDisks
    <3>3. result'[1] = <<>> \o one \o two
      BY <1>2, <2>1, <2>11, <3>2 DEF DecodeIncr
    <3> HIDE DEF size
    <3>4. PICK S : one \in Seq(S) /\ Len(one) = size
      BY <2>7, <3>1
    <3>5. PICK R : two \in Seq(R) /\ Len(two) = size
      BY <2>7, <3>1
    <3> HIDE DEF one, two
    <3> DEFINE T == S \cup R
    <3>6. one \in Seq(T) /\ two \in Seq(T) /\ <<>> \o one = one
      BY <3>4, <3>5
    <3>7. /\ Len(one \o two) = size + size
          /\ \A x \in 1..size : (one \o two)[x] = one[x]
          /\ \A x \in 1..size : (one \o two)[size + x] = two[x]
          /\ one \o two \in Seq(T)
      <4> HIDE DEF T
      <4>1. /\ one \o two \in Seq(T) /\ Len(one \o two) = Len(one) + Len(two)
            /\ \A x \in 1..Len(one) : (one \o two)[x] = one[x]
            /\ \A x \in 1..Len(two) : (one \o two)[Len(one) + x] = two[x]
        BY <3>6, Joined
      <4>. QED  BY <3>4, <3>5, <4>1
    <3>8. result'[1] = one \o two
      BY <3>3, <3>6
    <3>9. j \in 1..(size + size)
      BY <2>8, <3>7, <3>8
    <3>10. CASE j <= size
      <4>1. j \in 1..size /\ size * (1 - 1) + j = j
        BY <2>9, <3>1, <3>10
      <4>2. size * (1 - 1) + j <= Len(B)
        BY <2>9, <4>1
      <4>3. one[j] = B[j]
        BY <2>6, <3>1, <4>1, <4>2 DEF one
      <4>. QED  BY <3>7, <3>8, <4>1, <4>3
    <3>11. CASE j > size
      <4> DEFINE x == j - size
      <4>1. x \in 1..size /\ size * (2 - 1) + x = j /\ size + x = j
        BY <3>1, <3>9, <3>11
      <4>2. size * (2 - 1) + x <= Len(B)
        BY <2>9, <4>1
      <4> HIDE DEF x
      <4>3. two[x] = B[j]
        BY <2>6, <3>1, <4>1, <4>2 DEF two
      <4>. QED  BY <3>7, <3>8, <4>1, <4>3
    <3>. QED  BY <3>1, <3>9, <3>10, <3>11
  <2>. QED  BY <2>10, <2>11 DEF PDecode
<1>8. ResultInv'
  BY <1>2, <1>4, <1>6, <1>7 DEF ResultInv
<1>. QED  BY <1>2, <1>3, <1>6, <1>8 DEF ForkInv

LEMMA RemoveOrLoseKeeps ==
    ASSUME ForkInv, program \in {"cauchy", "incr"},
           RemoveDecoded \/ (\E i \in Rows : LoseRow(i)) \/ UNCHANGED pvars
    PROVE  ForkInv'
<1>1. ForkTypes /\ NothingYet /\ FirstRowsInv /\ ResultInv
  BY DEF ForkInv
<1>2. UNCHANGED <<program, kfile, codes, mfile, stage, metadata, proc, log, replaced>>
  BY DEF RemoveDecoded, LoseRow, pvars
<1>3. lostrows' \subseteq Rows
  BY <1>1 DEF RemoveDecoded, LoseRow, pvars, ForkTypes
<1>4. ForkTypes' /\ NothingYet'
  BY <1>1, <1>2, <1>3 DEF ForkTypes, NothingYet
<1>5. FirstStored' = FirstStored /\ \A i \in Rows : BeginsWell(i)' = BeginsWell(i)
  BY <1>2 DEF FirstStored, Encodes, BeginsWell, ParityOfBlock
<1>6. FirstRowsInv'
  BY <1>1, <1>2, <1>5 DEF FirstRowsInv, ParityOfBlock
<1>7. 1 \in PDisks
  BY PositionalAssumption DEF PDisks
<1>8. (result'[1] = result[1] /\ decoder' = decoder) \/ result'[1] = <<>>
  BY <1>7 DEF RemoveDecoded, LoseRow, pvars
<1>9. ResultInv'
  BY <1>1, <1>2, <1>5, <1>8 DEF ResultInv, Agrees, DecoderAgrees
<1>. QED  BY <1>2, <1>4, <1>6, <1>9 DEF ForkInv

\* The invariant of the forks' first block: the rows begin with its parity.
THEOREM ForkInvariant == PositionalSpec => []ForkInv
<1>1. PositionalInit => ForkInv
  BY ForkInit
<1>2. ForkInv /\ [PositionalNext]_pvars => ForkInv'
  <2> SUFFICES ASSUME ForkInv, [PositionalNext]_pvars PROVE ForkInv'
    OBVIOUS
  <2>1. CASE program \in {"cauchy", "incr"}
    BY <2>1, StartKeeps, LoadKeeps, EncodeKeeps, AppendRowKeeps, RenameKeeps, WriteMetadataKeeps, KillKeeps,
       DecodeKeeps, RemoveOrLoseKeeps DEF PositionalNext
  <2>2. CASE program \notin {"cauchy", "incr"}
    <3>1. program' = program
      BY DEF PositionalNext, PStart, LoadParity, EncodeAppendData, AppendRow, RenameRow,
             WriteMetadata, KillEncoder, PDecode, RemoveDecoded, LoseRow, pvars
    <3>2. ~ \E d \in PDisks : PDecode(d)
      BY <2>2 DEF PDecode, DecodeCauchy, DecodeIncr
    <3>3. 1 \in PDisks
      BY PositionalAssumption DEF PDisks
    <3>4. result' = result \/ result' = [e \in PDisks |-> <<>>]
      BY <3>2 DEF PositionalNext, PStart, LoadParity, EncodeAppendData, AppendRow, RenameRow,
             WriteMetadata, KillEncoder, RemoveDecoded, LoseRow, pvars
    <3>. QED  BY <2>2, <3>1, <3>3, <3>4 DEF ForkInv
  <2>. QED  BY <2>1, <2>2
<1>. QED  BY <1>1, <1>2, PTL DEF PositionalSpec

\* cauchy_decoder.c, cauchy_decoder_incr.c: whatever ran and was killed after
\* the first run, with whichever sizes, and whichever rows are lost, what is
\* decoded of disk 1 agrees with the first block stored of it, if the code
\* named by the metadata of the last run has the coefficients of the first.
THEOREM FirstBlockRecoveredHolds == PositionalSpec => []FirstBlockRecovered
BY ForkInvariant, ForkInvImplies, PTL

-----------------------------------------------------------------------------
(* Blocks of a row and their parity                                        *)

Bears(d, i, block) ==
    \E j \in DOMAIN block : Len(block[j]) = 4 /\ block[j][1] = i /\ block[j][2] = d
AllZero(block) == \A j \in DOMAIN block : block[j] = NUL

\* The parity of a block bears its disk, unless the block is all zero.
LEMMA ParityBears ==
    ASSUME NEW i \in Rows, NEW e \in PDisks, NEW d \in PDisks, NEW code,
           NEW block \in Seq(InBytes)
    PROVE  Bears(d, i, Parity(i, e, code, block)) <=> d = e /\ ~ AllZero(block)
<1> DEFINE p == Parity(i, e, code, block)
<1> PICK c : c = Coefficient(code, i, e)
  OBVIOUS
<1>1. /\ DOMAIN p = DOMAIN block /\ DOMAIN block = 1..Len(block)
      /\ \A j \in DOMAIN block : p[j] = IF block[j] = NUL THEN NUL ELSE <<i, e, c, block[j]>>
  BY DEF Parity
<1> HIDE DEF p
<1>2. Len(NUL) = 1
  BY DEF NUL
<1>3. \A j \in DOMAIN block : block[j] # NUL =>
         Len(p[j]) = 4 /\ p[j][1] = i /\ p[j][2] = e
  BY <1>1
<1>4. \A j \in DOMAIN block : block[j] = NUL => Len(p[j]) # 4
  <2> SUFFICES ASSUME NEW j \in DOMAIN block, block[j] = NUL PROVE Len(p[j]) # 4
    OBVIOUS
  <2>1. p[j] = NUL
    BY <1>1
  <2>. QED  BY <1>2, <2>1
<1>5. Bears(d, i, p) <=> d = e /\ ~ AllZero(block)
  BY <1>1, <1>3, <1>4 DEF Bears, AllZero
<1>. QED  BY <1>5 DEF p

LEMMA ParityOfIs ==
    ASSUME NEW d, NEW i, NEW blocks
    PROVE  ParityOf(d, i, blocks) = {x \in DOMAIN blocks : Bears(d, i, blocks[x])}
BY Zenon DEF ParityOf, Bears

LEMMA NonZeroIs ==
    ASSUME NEW blocks
    PROVE  NonZero(blocks) = {x \in DOMAIN blocks : ~ AllZero(blocks[x])}
BY DEF NonZero, AllZero

LEMMA ParityOfAppended ==
    ASSUME NEW d, NEW i, NEW S, NEW blocks \in Seq(S), NEW b \in S
    PROVE  /\ ParityOf(d, i, blocks) \subseteq 1..Len(blocks)
           /\ ParityOf(d, i, Append(blocks, b)) =
                 ParityOf(d, i, blocks) \cup (IF Bears(d, i, b) THEN {Len(blocks) + 1} ELSE {})
<1> DEFINE L == Len(blocks)
           all == Append(blocks, b)
<1>1. /\ L \in Nat /\ DOMAIN blocks = 1..L /\ DOMAIN all = 1..(L + 1)
      /\ all[L + 1] = b /\ \A x \in 1..L : all[x] = blocks[x]
  OBVIOUS
<1> HIDE DEF L, all
<1>2. ParityOf(d, i, all) = ParityOf(d, i, blocks) \cup (IF Bears(d, i, b) THEN {L + 1} ELSE {})
  BY <1>1, ParityOfIs
<1>. QED  BY <1>1, <1>2, ParityOfIs DEF L, all

LEMMA NoParityAppended ==
    ASSUME NEW d, NEW i, NEW S, NEW blocks \in Seq(S), NEW b \in S, ~ Bears(d, i, b)
    PROVE  ParityOf(d, i, Append(blocks, b)) = ParityOf(d, i, blocks)
<1> DEFINE own == ParityOf(d, i, blocks)
           more == IF Bears(d, i, b) THEN {Len(blocks) + 1} ELSE {}
           all == ParityOf(d, i, Append(blocks, b))
<1>1. all = own \cup more
  BY ParityOfAppended
<1>2. more = {}
  OBVIOUS
<1> HIDE DEF own, more, all
<1>3. all = own
  BY <1>1, <1>2
<1>. QED  BY <1>3 DEF own, all

LEMMA NonZeroAppended ==
    ASSUME NEW S, NEW blocks \in Seq(S), NEW b \in S
    PROVE  /\ NonZero(blocks) \subseteq 1..Len(blocks)
           /\ NonZero(Append(blocks, b)) =
                 NonZero(blocks) \cup (IF AllZero(b) THEN {} ELSE {Len(blocks) + 1})
<1> DEFINE L == Len(blocks)
           all == Append(blocks, b)
<1>1. /\ L \in Nat /\ DOMAIN blocks = 1..L /\ DOMAIN all = 1..(L + 1)
      /\ all[L + 1] = b /\ \A x \in 1..L : all[x] = blocks[x]
  OBVIOUS
<1> HIDE DEF L, all
<1>2. NonZero(all) = NonZero(blocks) \cup (IF AllZero(b) THEN {} ELSE {L + 1})
  BY <1>1, NonZeroIs
<1>. QED  BY <1>1, <1>2, NonZeroIs DEF L, all

\* An element put behind all others takes the next rank and moves none.
RanksBehind(S, z) ==
    /\ IsFiniteSet(S) /\ Cardinality(S) \in Nat
    /\ Cardinality(S \cup {z}) = Cardinality(S) + 1
    /\ Rank(z, S \cup {z}) = Cardinality(S)
    /\ \A x \in S : Rank(x, S \cup {z}) = Rank(x, S) /\ Rank(x, S) < Cardinality(S)

LEMMA RankBehind ==
    ASSUME NEW top \in Nat, NEW S \in SUBSET (1..top), NEW z \in Nat, z > top
    PROVE  RanksBehind(S, z)
<1>1. IsFiniteSet(1..top)
  <2>1. 1 \in Int /\ top \in Int
    OBVIOUS
  <2>. QED  BY <2>1, FS_Interval, Zenon
<1>2. IsFiniteSet(S)
  BY <1>1, FS_Subset
<1>3. Cardinality(S) \in Nat
  BY <1>2, FS_CardinalityType
<1>4. z \notin S /\ \A x \in S : x \in Nat /\ x < z /\ ~(z < x)
  OBVIOUS
<1>5. Cardinality(S \cup {z}) = Cardinality(S) + 1
  BY <1>2, <1>4, FS_AddElement
<1>6. {y \in S \cup {z} : y < z} = S
  <2>1. ~(z < z)
    OBVIOUS
  <2>. QED  BY <1>4, <2>1, Zenon
<1>7. ASSUME NEW x \in S
      PROVE  Rank(x, S \cup {z}) = Rank(x, S) /\ Rank(x, S) < Cardinality(S)
  <2> DEFINE before == {y \in S : y < x}
  <2>1. {y \in S \cup {z} : y < x} = before
    BY <1>4
  <2>2. before \subseteq S /\ x \notin before
    BY <1>4
  <2>3. before # S
    BY <2>2
  <2>4. Cardinality(before) < Cardinality(S)
    <3> HIDE DEF before
    <3>1. IsFiniteSet(before)
      BY <1>2, <2>2, FS_Subset
    <3>2. Cardinality(before) <= Cardinality(S) /\ (Cardinality(S) = Cardinality(before) => before = S)
      BY <1>2, <2>2, FS_Subset, Zenon
    <3>3. Cardinality(before) \in Nat
      BY <3>1, FS_CardinalityType
    <3>. QED  BY <1>3, <2>3, <3>2, <3>3
  <2>. QED  BY <2>1, <2>4 DEF Rank
<1>8. Rank(z, S \cup {z}) = Cardinality(S)
  BY <1>6, Zenon DEF Rank
<1>. QED  BY <1>2, <1>3, <1>5, <1>7, <1>8, Zenon DEF RanksBehind

\* The parity of a further block is appended.
LEMMA MatchesLonger ==
    ASSUME NEW i, NEW d, NEW S, NEW blocks \in Seq(S), NEW b \in S,
           NEW y \in Nat, NEW picked \in SUBSET (1..(y - 1)), y > 0,
           Matches(d, i, blocks, picked),
           Bears(d, i, b), b = ParityOfBlock(i, d, y)
    PROVE  Matches(d, i, Append(blocks, b), picked \cup {y})
<1> DEFINE L == Len(blocks)
           all == Append(blocks, b)
           own == ParityOf(d, i, blocks)
           owns == ParityOf(d, i, all)
           picks == picked \cup {y}
<1>1. /\ L \in Nat /\ own \subseteq 1..L /\ owns = own \cup {L + 1}
      /\ all[L + 1] = b /\ \A x \in 1..L : all[x] = blocks[x]
  BY ParityOfAppended
<1>2. /\ Cardinality(own) = Cardinality(picked)
      /\ \A x \in own, w \in picked :
            Rank(x, own) = Rank(w, picked) => blocks[x] = ParityOfBlock(i, d, w)
  BY Zenon DEF Matches
<1> HIDE DEF L, all, own, owns, picks
<1>3. /\ Cardinality(own) \in Nat /\ Cardinality(owns) = Cardinality(own) + 1
      /\ Rank(L + 1, owns) = Cardinality(own)
      /\ \A x \in own : Rank(x, owns) = Rank(x, own) /\ Rank(x, own) < Cardinality(own)
  <2>1. L + 1 \in Nat /\ L + 1 > L /\ own \in SUBSET (1..L)
    BY <1>1
  <2>2. RanksBehind(own, L + 1)
    BY <1>1, <2>1, RankBehind
  <2>3. owns = own \cup {L + 1}
    BY <1>1
  <2>. QED  BY <2>2, <2>3, Zenon DEF RanksBehind
<1>4. /\ Cardinality(picks) = Cardinality(picked) + 1
      /\ Rank(y, picks) = Cardinality(picked)
      /\ \A w \in picked : Rank(w, picks) = Rank(w, picked) /\ Rank(w, picked) < Cardinality(picked)
  <2>1. y - 1 \in Nat /\ y > y - 1
    OBVIOUS
  <2>2. RanksBehind(picked, y)
    BY <2>1, RankBehind
  <2>3. picks = picked \cup {y}
    BY DEF picks
  <2>. QED  BY <2>2, <2>3, Zenon DEF RanksBehind
<1>5. Cardinality(owns) = Cardinality(picks)
  BY <1>2, <1>3, <1>4
<1>6. ASSUME NEW x \in owns, NEW w \in picks, Rank(x, owns) = Rank(w, picks)
      PROVE  all[x] = ParityOfBlock(i, d, w)
  <2>1. CASE x \in own /\ w \in picked
    <3>1. Rank(x, own) = Rank(w, picked)
      BY <1>3, <1>4, <1>6, <2>1
    <3>2. all[x] = blocks[x]
      BY <1>1, <2>1
    <3>. QED  BY <1>2, <2>1, <3>1, <3>2
  <2>2. CASE x = L + 1 /\ w = y
    BY <1>1, <2>2
  <2>3. CASE x \in own /\ w = y
    <3>1. Rank(x, own) = Cardinality(picked) /\ Rank(x, own) < Cardinality(own)
      BY <1>3, <1>4, <1>6, <2>3
    <3>. QED  BY <1>2, <1>3, <3>1
  <2>4. CASE x = L + 1 /\ w \in picked
    <3>1. Rank(w, picked) = Cardinality(own) /\ Rank(w, picked) < Cardinality(picked)
      BY <1>3, <1>4, <1>6, <2>4
    <3>. QED  BY <1>2, <1>3, <3>1
  <2>. QED  BY <1>1, <2>1, <2>2, <2>3, <2>4 DEF picks
<1>7. Matches(d, i, all, picks)
  BY <1>5, <1>6, Zenon DEF Matches, owns
<1>. QED  BY <1>7 DEF all, picks

\* Nothing of the disk is appended.
LEMMA MatchesStill ==
    ASSUME NEW i, NEW d, NEW S, NEW blocks \in Seq(S), NEW b \in S, NEW picked,
           Matches(d, i, blocks, picked), ~ Bears(d, i, b)
    PROVE  Matches(d, i, Append(blocks, b), picked)
<1> DEFINE L == Len(blocks)
           all == Append(blocks, b)
           own == ParityOf(d, i, blocks)
<1>1. /\ own \subseteq 1..L /\ ParityOf(d, i, all) = own
      /\ \A x \in 1..L : all[x] = blocks[x]
  <2>1. own \subseteq 1..L /\ \A x \in 1..L : all[x] = blocks[x]
    BY ParityOfAppended
  <2>. QED  BY <2>1, NoParityAppended
<1>2. /\ Cardinality(own) = Cardinality(picked)
      /\ \A x \in own, w \in picked :
            Rank(x, own) = Rank(w, picked) => blocks[x] = ParityOfBlock(i, d, w)
  BY Zenon DEF Matches
<1> HIDE DEF L, all, own
<1>3. \A x \in own, w \in picked :
         Rank(x, own) = Rank(w, picked) => all[x] = ParityOfBlock(i, d, w)
  BY <1>1, <1>2
<1>4. Matches(d, i, all, picked)
  BY <1>1, <1>2, <1>3, Zenon DEF Matches
<1>. QED  BY <1>4 DEF all

-----------------------------------------------------------------------------
(* The invariant: what every row holds of every disk                       *)

\* Runs of encoder.c go through all disks, runs of "incr" have one read-in.
TrackTypes ==
    /\ ForkTypes
    /\ proc.pc # "rest" =>
          /\ program \in {"cauchy", "ten", "incr"}
          /\ ~ log[Len(log)].killed
          /\ program = "ten" => proc.readins = K /\ proc.n <= K
          /\ program = "incr" => proc.readins = 1 /\ proc.n = 1

\* The rows that the parity of the last data block has still to be appended to.
Waiting(i) == \/ proc.pc = "parity" /\ i >= proc.row
              \/ proc.pc = "rename" /\ i > proc.row

\* No staging file gets ahead, and the rows a run has loaded or has still to
\* append have parity left to be replaced.
LeftOver(i) == Len(stage[i]) < Len(mfile[i])

StageInv ==
    /\ \A i \in Rows : Len(stage[i]) <= Len(mfile[i])
    /\ proc.pc = "load" => Staged /\ \A i \in Rows : i < proc.row => LeftOver(i)
    /\ proc.pc = "data" /\ Staged => \A i \in Rows : LeftOver(i)
    /\ Staged => \A i \in Rows : Waiting(i) => LeftOver(i)

AllEncode == \A r \in DOMAIN log : Encodes(log[r].tech)

\* The parity that a run has still to append is that of the last data block.
LastOf(d) == Len(kfile[d])

CodingInv ==
    \A i \in Rows : Waiting(i) =>
        /\ kfile[CurrentDisk] # <<>>
        /\ proc.coding[i] = ParityOfBlock(i, CurrentDisk, LastOf(CurrentDisk))

\* The data blocks a row could hold: all that are not zero but the one whose
\* parity the run has not appended yet.
Pending(d, i) == d = CurrentDisk /\ Waiting(i)

Settled(d, i) == {y \in NonZero(kfile[d]) : Pending(d, i) => y # Len(kfile[d])}

RowInv(d, i) ==
    /\ ParityOf(d, i, OtherLog(d, i)) = {}
    /\ \E picked \in SUBSET Settled(d, i) :
          /\ Matches(d, i, ParityLog(d, i), picked)
          /\ Cardinality(Settled(d, i)) <= Cardinality(picked) + KilledRuns

TrackInv ==
    /\ TrackTypes
    /\ StageInv
    /\ AllEncode => CodingInv /\ \A d \in PDisks, i \in Rows \ replaced : RowInv(d, i)
-----------------------------------------------------------------------------
(* The parts of the invariant, step by step                                *)

\* The disk a run works on, in the state before and after a step.
LEMMA CurrentDiskIs ==
    ASSUME TrackTypes, proc.pc # "rest"
    PROVE  /\ CurrentDisk \in PDisks
           /\ program # "ten" => CurrentDisk = proc.disk
           /\ program = "ten" => CurrentDisk = proc.n
<1>1. proc \in Runs
  BY DEF TrackTypes, ForkTypes, Resting
<1>2. proc.disk \in PDisks /\ proc.n \in Nat \ {0}
  BY <1>1 DEF Runs
<1>3. CASE program = "ten"
  <2>1. proc.n <= K
    BY <1>3 DEF TrackTypes
  <2>. QED  BY <1>2, <1>3, <2>1, PositionalAssumption DEF CurrentDisk, PDisks
<1>4. CASE program # "ten"
  BY <1>2, <1>4 DEF CurrentDisk
<1>. QED  BY <1>3, <1>4

\* Which rows wait after a row was appended, or replaced.
LEMMA AppendWaits ==
    ASSUME TrackTypes, AppendRow, NEW r, r = proc.row
    PROVE  /\ r \in Rows /\ Waiting(r) /\ CurrentDisk' = CurrentDisk
           /\ \A i \in Rows : Waiting(i)' <=> Waiting(i) /\ i # r
<1>1. ForkTypes /\ proc.pc = "parity"
  BY DEF TrackTypes, AppendRow
<1>2. r \in Rows
  BY <1>1 DEF ForkTypes, Resting, Runs
<1>3. /\ RowDone(r) \/ (proc'.pc = "rename" /\ proc'.row = r)
      /\ proc'.disk = proc.disk /\ proc'.n = proc.n /\ program' = program
  BY <1>1, <1>2, AppendTypes
<1>4. \A i \in Rows : i \in Nat /\ M \in Nat /\ i <= M
  BY PositionalAssumption DEF Rows
<1>5. \A i \in Rows : Waiting(i) <=> i >= r
  BY <1>1 DEF Waiting
<1>6. ASSUME NEW i \in Rows PROVE Waiting(i)' <=> i > r
  <2>1. i \in Nat /\ r \in Nat /\ i <= M /\ M \in Nat
    BY <1>2, <1>4
  <2>2. CASE proc'.pc = "rename" /\ proc'.row = r
    BY <2>2 DEF Waiting
  <2>3. CASE RowDone(r) /\ r = M
    BY <2>1, <2>3 DEF Waiting, RowDone
  <2>4. CASE RowDone(r) /\ r # M
    <3>1. proc'.pc = "parity" /\ proc'.row = r + 1
      BY <2>4 DEF RowDone
    <3>. QED  BY <2>1, <3>1 DEF Waiting
  <2>. QED  BY <1>3, <2>2, <2>3, <2>4
<1>7. \A i \in Rows : (i > r) <=> (i >= r /\ i # r)
  BY <1>2, <1>4
<1>8. r >= r
  BY <1>2, <1>4
<1>9. CurrentDisk' = CurrentDisk
  BY <1>3 DEF CurrentDisk
<1>. QED  BY <1>2, <1>5, <1>6, <1>7, <1>8, <1>9

LEMMA RenameWaits ==
    ASSUME TrackTypes, RenameRow, NEW r, r = proc.row
    PROVE  /\ r \in Rows /\ CurrentDisk' = CurrentDisk
           /\ \A i \in Rows : Waiting(i)' <=> Waiting(i)
<1>1. ForkTypes /\ proc.pc = "rename"
  BY DEF TrackTypes, RenameRow
<1>2. r \in Rows /\ RowDone(r) /\ program' = program
  BY <1>1, RenameTypes
<1>3. \A i \in Rows : Waiting(i) <=> i > r
  BY <1>1 DEF Waiting
<1>4. ASSUME NEW i \in Rows PROVE Waiting(i)' <=> i > r
  <2>1. i \in Nat /\ r \in Nat /\ i <= M /\ M \in Nat
    BY <1>2, PositionalAssumption DEF Rows
  <2>2. CASE r = M
    BY <1>2, <2>1, <2>2 DEF Waiting, RowDone
  <2>3. CASE r # M
    <3>1. proc'.pc = "parity" /\ proc'.row = r + 1
      BY <1>2, <2>3 DEF RowDone
    <3>. QED  BY <2>1, <3>1 DEF Waiting
  <2>. QED  BY <2>2, <2>3
<1>5. CurrentDisk' = CurrentDisk
  BY <1>2 DEF CurrentDisk, RowDone
<1>. QED  BY <1>2, <1>3, <1>4, <1>5

LEMMA TypesKept ==
    ASSUME TrackTypes, [PositionalNext]_pvars
    PROVE  TrackTypes' /\ program' = program
<1>1. ForkTypes
  BY DEF TrackTypes
<1>2. ASSUME NEW d \in PDisks, NEW s \in RunSizes, NEW b \in BufferSizes, NEW t \in Techniques,
             PStart(d, s, PArgs(b, t))
      PROVE  TrackTypes' /\ program' = program
  <2>1. /\ ForkTypes' /\ log'[Len(log')] = [disk |-> d, tech |-> t, killed |-> FALSE]
        /\ program \in {"cauchy", "ten", "incr"} /\ proc'.n = 1
        /\ program = "incr" => proc'.readins = 1
        /\ program = "ten" => proc'.readins = K
    BY <1>1, <1>2, StartTypes
  <2>2. program' = program
    BY <1>2 DEF PStart
  <2>3. 1 <= K
    BY PositionalAssumption
  <2>. QED  BY <2>1, <2>2, <2>3 DEF TrackTypes
<1>3. CASE LoadParity
  <2>1. /\ ForkTypes' /\ UNCHANGED <<program, log>>
        /\ proc' = Resting \/ (proc'.n = proc.n /\ proc'.readins = proc.readins)
    BY <1>1, <1>3, LoadTypes
  <2>2. proc.pc # "rest"
    BY <1>3 DEF LoadParity
  <2>. QED  BY <2>1, <2>2 DEF TrackTypes, Resting
<1>4. CASE EncodeAppendData
  <2>1. proc.pc # "rest"
    BY <1>4 DEF EncodeAppendData
  <2>2. program \in {"cauchy", "ten", "incr"} /\ CurrentDisk \in PDisks
    BY <2>1, CurrentDiskIs DEF TrackTypes
  <2>3. ForkTypes' /\ UNCHANGED <<program, log>> /\ proc'.n = proc.n /\ proc'.readins = proc.readins
    BY <1>1, <1>4, <2>2, EncodeTypes
  <2>. QED  BY <2>1, <2>3 DEF TrackTypes
<1>5. CASE AppendRow
  <2>1. proc.pc # "rest"
    BY <1>5 DEF AppendRow
  <2>2. proc.row \in Rows
    BY <1>1, <2>1 DEF ForkTypes, Resting, Runs
  <2>3. ForkTypes' /\ UNCHANGED <<program, log>> /\ proc'.n = proc.n /\ proc'.readins = proc.readins
    BY <1>1, <1>5, <2>2, AppendTypes
  <2>. QED  BY <2>1, <2>3 DEF TrackTypes
<1>9. CASE RenameRow
  <2>1. proc.pc # "rest"
    BY <1>9 DEF RenameRow
  <2>2. ForkTypes' /\ UNCHANGED <<program, log>> /\ proc'.n = proc.n /\ proc'.readins = proc.readins
    BY <1>1, <1>9, RenameTypes DEF RowDone
  <2>. QED  BY <2>1, <2>2 DEF TrackTypes
<1>6. CASE WriteMetadata
  <2>1. proc.pc # "rest"
    BY <1>6 DEF WriteMetadata
  <2>2. CurrentDisk \in PDisks
    BY <2>1, CurrentDiskIs
  <2>3. /\ ForkTypes' /\ UNCHANGED <<program, log>> /\ proc \in Runs
        /\ proc' = Resting \/ (/\ proc.n < proc.readins /\ proc'.n = proc.n + 1
                               /\ proc'.readins = proc.readins)
    BY <1>1, <1>6, <2>2, MetadataTypes
  <2>4. proc.n \in Nat \ {0} /\ proc.readins \in Nat
    BY <2>3 DEF Runs
  <2>5. CASE proc' = Resting
    BY <2>3, <2>5 DEF TrackTypes, Resting
  <2>6. CASE proc' # Resting
    <3>1. proc.n < proc.readins /\ proc'.n = proc.n + 1 /\ proc'.readins = proc.readins
      BY <2>3, <2>6
    <3>. QED  BY <2>1, <2>3, <2>4, <3>1 DEF TrackTypes
  <2>. QED  BY <2>5, <2>6
<1>7. CASE KillEncoder
  <2>1. ForkTypes' /\ program' = program /\ proc' = Resting
    BY <1>1, <1>7, KillTypes
  <2>. QED  BY <2>1 DEF TrackTypes, Resting
<1>8. CASE (\E d \in PDisks : PDecode(d)) \/ RemoveDecoded \/ (\E i \in Rows : LoseRow(i)) \/ UNCHANGED pvars
  <2>1. UNCHANGED <<program, kfile, codes, mfile, stage, metadata, proc, log>>
    BY <1>8 DEF PDecode, RemoveDecoded, LoseRow, pvars
  <2>2. lostrows' \subseteq Rows
    BY <1>1, <1>8 DEF PDecode, RemoveDecoded, LoseRow, pvars, ForkTypes
  <2>3. ForkTypes'
    BY <1>1, <2>1, <2>2 DEF ForkTypes
  <2>. QED  BY <2>1, <2>3 DEF TrackTypes
<1>. QED  BY <1>2, <1>3, <1>4, <1>5, <1>6, <1>7, <1>8, <1>9 DEF PositionalNext

LEMMA StageKept ==
    ASSUME TrackTypes, StageInv, [PositionalNext]_pvars
    PROVE  StageInv'
<1>1. ForkTypes
  BY DEF TrackTypes
<1>2. \A i \in Rows : Len(stage[i]) \in Nat /\ Len(mfile[i]) \in Nat /\ i \in Nat
  BY <1>1, PositionalAssumption DEF ForkTypes, Rows
<1>3. ASSUME NEW d \in PDisks, NEW s \in RunSizes, NEW b \in BufferSizes, NEW t \in Techniques,
             PStart(d, s, PArgs(b, t))
      PROVE  StageInv'
  <2>1. /\ proc'.pc \in {"load", "data"} /\ proc'.disk = d
        /\ program = "incr" => /\ proc'.pc = "load" => d > 1
                               /\ proc'.pc = "data" => ~(d > 1)
                               /\ proc'.row = 1
        /\ program # "incr" => proc'.pc = "data"
    BY <1>1, <1>3, StartTypes
  <2>2. UNCHANGED <<program, stage, mfile>>
    BY <1>3 DEF PStart
  <2>3. \A i \in Rows : ~(i < 1)
    BY DEF Rows
  <2>4. proc'.pc = "load" => Staged' /\ \A i \in Rows : ~(i < proc'.row)
    BY <2>1, <2>2, <2>3 DEF Staged
  <2>5. proc'.pc = "data" => ~ Staged'
    BY <2>1, <2>2 DEF Staged
  <2>. QED  BY <2>1, <2>2, <2>4, <2>5 DEF StageInv, LeftOver, Waiting
<1>4. CASE LoadParity
  <2>1. proc.pc = "load"
    BY <1>4 DEF LoadParity
  <2> PICK i : i = proc.row
    OBVIOUS
  <2>2. /\ i \in Rows /\ UNCHANGED <<program, stage, mfile>>
        /\ \/ proc' = Resting
           \/ /\ Readable(i) /\ proc'.disk = proc.disk
              /\ proc'.pc = (IF i = M THEN "data" ELSE "load")
              /\ i # M => proc'.row = i + 1
    BY <1>1, <1>4, LoadTypes
  <2>3. CASE proc' = Resting
    BY <2>2, <2>3 DEF StageInv, Resting, LeftOver, Waiting
  <2>4. CASE proc' # Resting
    <3>1. /\ Readable(i) /\ proc'.disk = proc.disk
          /\ proc'.pc = (IF i = M THEN "data" ELSE "load")
          /\ i # M => proc'.row = i + 1
      BY <2>2, <2>4
    <3>2. LeftOver(i)
      BY <1>2, <2>2, <3>1 DEF LeftOver, Readable, Offset
    <3>3. Staged /\ \A e \in Rows : e < i => LeftOver(e)
      BY <2>1 DEF StageInv
    <3>4. \A e \in Rows : e < i + 1 => LeftOver(e)
      <4>1. \A e \in Rows : e < i + 1 => e = i \/ e < i
        BY <1>2, <2>2
      <4>. QED  BY <3>2, <3>3, <4>1
    <3>5. Staged'
      BY <2>2, <3>1, <3>3 DEF Staged
    <3>6. \A e \in Rows : LeftOver(e)' = LeftOver(e)
      BY <2>2 DEF LeftOver
    <3>7. CASE i = M
      <4>1. \A e \in Rows : e < i + 1
        BY <3>7, PositionalAssumption DEF Rows
      <4>. QED  BY <2>2, <3>1, <3>4, <3>6, <3>7, <4>1 DEF StageInv, Waiting
    <3>8. CASE i # M
      BY <2>2, <3>1, <3>4, <3>5, <3>6, <3>8 DEF StageInv, Waiting
    <3>. QED  BY <3>7, <3>8
  <2>. QED  BY <2>3, <2>4
<1>5. CASE EncodeAppendData
  <2>1. proc.pc = "data"
    BY <1>5 DEF EncodeAppendData
  <2>2. program \in {"cauchy", "ten", "incr"} /\ CurrentDisk \in PDisks
    BY <2>1, CurrentDiskIs DEF TrackTypes
  <2>3. UNCHANGED <<program, stage, mfile>> /\ proc'.pc = "parity" /\ proc'.disk = proc.disk
    BY <1>1, <1>5, <2>2, EncodeTypes
  <2>4. Staged' = Staged /\ \A e \in Rows : LeftOver(e)' = LeftOver(e)
    BY <2>3 DEF Staged, LeftOver
  <2>. QED  BY <2>1, <2>3, <2>4 DEF StageInv, Waiting
<1>6. CASE AppendRow
  <2>1. proc.pc = "parity"
    BY <1>6 DEF AppendRow
  <2>2. proc.row \in Rows
    BY <1>1, <2>1 DEF ForkTypes, Resting, Runs
  <2> PICK i \in Rows : i = proc.row
    BY <2>2
  <2> PICK block : block = proc.coding[i]
    OBVIOUS
  <2>3. /\ program' = program /\ block \in Seq(OutBytes)
        /\ RowDone(i) \/ proc'.pc = "rename"
        /\ proc'.disk = proc.disk
        /\ \A e \in Rows : e # i => mfile'[e] = mfile[e] /\ stage'[e] = stage[e]
        /\ ~ Staged => mfile'[i] = Append(mfile[i], block) /\ stage'[i] = stage[i]
        /\ Staged => mfile'[i] = mfile[i] /\ stage'[i] = Append(stage[i], block)
    BY <1>1, <1>6, AppendTypes
  <2>4. \A e \in Rows : e # i => LeftOver(e)' = LeftOver(e)
    BY <2>3 DEF LeftOver
  <2>5. Len(Append(stage[i], block)) = Len(stage[i]) + 1
        /\ Len(Append(mfile[i], block)) = Len(mfile[i]) + 1
    <3>1. mfile[i] \in Seq(Seq(OutBytes)) /\ stage[i] \in Seq(Seq(OutBytes))
      BY <1>1 DEF ForkTypes
    <3>. QED  BY <2>3, <3>1
  <2>6. Len(stage'[i]) <= Len(mfile'[i])
    <3>1. CASE ~ Staged
      BY <1>2, <2>3, <2>5, <3>1 DEF StageInv
    <3>2. CASE Staged
      <4>1. Waiting(i)
        BY <1>6, AppendWaits
      <4>3. Staged => \A e \in Rows : Waiting(e) => LeftOver(e)
        BY DEF StageInv
      <4>2. Len(stage[i]) < Len(mfile[i])
        BY <3>2, <4>1, <4>3 DEF LeftOver
      <4>4. mfile'[i] = mfile[i] /\ stage'[i] = Append(stage[i], block)
        BY <2>3, <3>2
      <4>5. Len(stage[i]) \in Nat /\ Len(mfile[i]) \in Nat
        BY <1>2
      <4>. QED  BY <2>5, <4>2, <4>4, <4>5
    <3>. QED  BY <3>1, <3>2
  <2>7. \A e \in Rows : Len(stage'[e]) <= Len(mfile'[e])
    BY <2>3, <2>6 DEF StageInv
  <2>8. Staged' => \A e \in Rows : Waiting(e)' => LeftOver(e)'
    <3>1. \A e \in Rows : Waiting(e)' => Waiting(e) /\ e # i
      BY <1>6, AppendWaits
    <3>2. Staged' => Staged
      BY <2>3 DEF Staged
    <3>. QED  BY <2>4, <3>1, <3>2 DEF StageInv
  <2>9. proc'.pc \in {"meta", "parity", "rename"}
    BY <2>3 DEF RowDone
  <2>. QED  BY <2>7, <2>8, <2>9 DEF StageInv
<1>10. CASE RenameRow
  <2> PICK i : i = proc.row
    OBVIOUS
  <2>1. /\ i \in Rows /\ program' = program /\ RowDone(i)
        /\ mfile'[i] = stage[i] /\ stage'[i] = <<>>
        /\ \A e \in Rows : e # i => mfile'[e] = mfile[e] /\ stage'[e] = stage[e]
    BY <1>1, <1>10, RenameTypes
  <2>2. Len(stage'[i]) <= Len(mfile'[i])
    <3>1. Len(<<>>) = 0
      OBVIOUS
    <3>. QED  BY <1>2, <2>1, <3>1
  <2>3. \A e \in Rows : Len(stage'[e]) <= Len(mfile'[e])
    BY <2>1, <2>2 DEF StageInv
  <2>4. \A e \in Rows : e # i => LeftOver(e)' = LeftOver(e)
    BY <2>1 DEF LeftOver
  <2>5. Staged' => \A e \in Rows : Waiting(e)' => LeftOver(e)'
    <3>1. \A e \in Rows : Waiting(e)' => Waiting(e)
      BY <1>10, RenameWaits
    <3>2. ~ Waiting(i)
      BY <1>2, <1>10, <2>1 DEF RenameRow, Waiting
    <3>3. Staged' => Staged
      BY <2>1 DEF Staged, RowDone
    <3>. QED  BY <2>4, <3>1, <3>2, <3>3 DEF StageInv
  <2>6. proc'.pc \in {"meta", "parity"}
    BY <2>1 DEF RowDone
  <2>. QED  BY <2>3, <2>5, <2>6 DEF StageInv
<1>7. CASE WriteMetadata
  <2>1. proc.pc = "meta"
    BY <1>7 DEF WriteMetadata
  <2>2. CurrentDisk \in PDisks
    BY <2>1, CurrentDiskIs
  <2>3. /\ UNCHANGED <<program, stage, mfile>>
        /\ proc' = Resting \/ (/\ proc.n < proc.readins /\ proc'.pc = "data")
    BY <1>1, <1>7, <2>2, MetadataTypes
  <2>4. program = "incr" => proc' = Resting
    <3>1. program = "incr" => proc.n = 1 /\ proc.readins = 1
      BY <2>1 DEF TrackTypes
    <3>. QED  BY <2>3, <3>1
  <2>5. proc' # Resting => proc'.pc = "data" /\ ~ Staged'
    BY <2>3, <2>4 DEF Staged
  <2>. QED  BY <2>3, <2>5 DEF StageInv, Resting, Waiting
<1>8. CASE KillEncoder
  <2>1. UNCHANGED <<stage, mfile>> /\ proc' = Resting
    BY <1>1, <1>8, KillTypes
  <2>. QED  BY <2>1 DEF StageInv, Resting, Waiting
<1>9. CASE (\E d \in PDisks : PDecode(d)) \/ RemoveDecoded \/ (\E i \in Rows : LoseRow(i)) \/ UNCHANGED pvars
  <2>1. UNCHANGED <<program, mfile, stage, proc>>
    BY <1>9 DEF PDecode, RemoveDecoded, LoseRow, pvars
  <2>. QED  BY <2>1 DEF StageInv, LeftOver, Staged, Waiting
<1>. QED  BY <1>3, <1>4, <1>5, <1>6, <1>7, <1>8, <1>9, <1>10 DEF PositionalNext

LEMMA KilledIs ==
    ASSUME ForkTypes
    PROVE  /\ IsFiniteSet({r \in DOMAIN log : log[r].killed}) /\ KilledRuns \in Nat
<1>1. Len(log) \in Nat /\ DOMAIN log = 1..Len(log)
  BY DEF ForkTypes
<1>2. IsFiniteSet(DOMAIN log)
  <2>1. 1 \in Int /\ Len(log) \in Int
    BY <1>1
  <2>2. IsFiniteSet(1..Len(log))
    BY <2>1, FS_Interval, Zenon
  <2>. QED  BY <1>1, <2>2
<1> DEFINE S == {r \in DOMAIN log : log[r].killed}
<1>3. IsFiniteSet(S)
  <2>1. S \subseteq DOMAIN log
    OBVIOUS
  <2> HIDE DEF S
  <2>. QED  BY <1>2, <2>1, FS_Subset
<1>. QED  BY <1>3, FS_CardinalityType DEF KilledRuns

LEMMA StartLeavesKilled ==
    ASSUME ForkTypes, NEW d \in PDisks, NEW s \in RunSizes, NEW b \in BufferSizes, NEW t \in Techniques,
           PStart(d, s, PArgs(b, t))
    PROVE  KilledRuns' = KilledRuns /\ (AllEncode' => AllEncode)
<1>1. /\ ForkTypes' /\ Len(log') = Len(log) + 1
      /\ log'[Len(log')] = [disk |-> d, tech |-> t, killed |-> FALSE]
      /\ \A r \in 1..Len(log) : log'[r] = log[r]
  BY StartTypes
<1>2. program' = program
  BY DEF PStart
<1> PICK n \in Nat : n = Len(log)
  BY DEF ForkTypes
<1>3. DOMAIN log = 1..n /\ DOMAIN log' = 1..(n + 1) /\ ~ log'[n + 1].killed
  BY <1>1 DEF ForkTypes
<1>4. 1..(n + 1) = (1..n) \cup {n + 1}
  OBVIOUS
<1>5. {r \in DOMAIN log' : log'[r].killed} = {r \in DOMAIN log : log[r].killed}
  BY <1>1, <1>3, <1>4
<1>6. AllEncode' => AllEncode
  BY <1>1, <1>2, <1>3, <1>4 DEF AllEncode, Encodes
<1>. QED  BY <1>5, <1>6 DEF KilledRuns

LEMMA KillCounts ==
    ASSUME TrackTypes, KillEncoder
    PROVE  KilledRuns' = KilledRuns + 1 /\ (AllEncode' => AllEncode)
<1>1. ForkTypes
  BY DEF TrackTypes
<1>2. /\ ForkTypes' /\ Len(log') = Len(log) /\ log # <<>> /\ program' = program
      /\ log'[Len(log)].killed /\ log'[Len(log)].tech = log[Len(log)].tech
      /\ \A r \in 1..Len(log) : r # Len(log) => log'[r] = log[r]
  BY <1>1, KillTypes
<1> PICK n \in Nat : n = Len(log)
  BY <1>1 DEF ForkTypes
<1>3. DOMAIN log = 1..n /\ DOMAIN log' = 1..n /\ n \in 1..n
  BY <1>1, <1>2 DEF ForkTypes
<1>4. ~ log[n].killed
  BY DEF TrackTypes, KillEncoder
<1> DEFINE old == {r \in DOMAIN log : log[r].killed}
           new == {r \in DOMAIN log' : log'[r].killed}
<1>5. new = old \cup {n} /\ n \notin old
  BY <1>2, <1>3, <1>4
<1>6. IsFiniteSet(old)
  BY <1>1, KilledIs
<1>7. Cardinality(new) = Cardinality(old) + 1
  <2> HIDE DEF old, new
  <2>. QED  BY <1>5, <1>6, FS_AddElement
<1>8. \A r \in 1..n : log'[r].tech = log[r].tech
  BY <1>2
<1>9. AllEncode' => AllEncode
  BY <1>2, <1>3, <1>8 DEF AllEncode, Encodes
<1>. QED  BY <1>7, <1>9 DEF KilledRuns

\* What is settled are positions of the log of data.
LEMMA SettledIs ==
    ASSUME ForkTypes, NEW d \in PDisks, NEW i \in Rows
    PROVE  /\ kfile[d] \in Seq(Seq(InBytes)) /\ Len(kfile[d]) \in Nat
           /\ NonZero(kfile[d]) \subseteq 1..Len(kfile[d])
           /\ IsFiniteSet(NonZero(kfile[d])) /\ Cardinality(NonZero(kfile[d])) \in Nat
           /\ IsFiniteSet(Settled(d, i)) /\ Cardinality(Settled(d, i)) \in Nat
           /\ Settled(d, i) \subseteq NonZero(kfile[d])
           /\ Cardinality(NonZero(kfile[d])) <= Cardinality(Settled(d, i)) + 1
           /\ ~ Pending(d, i) => Settled(d, i) = NonZero(kfile[d])
           /\ Pending(d, i) => Settled(d, i) = NonZero(kfile[d]) \ {Len(kfile[d])}
<1> PICK L : L = Len(kfile[d])
  OBVIOUS
<1>1. kfile[d] \in Seq(Seq(InBytes)) /\ L \in Nat
  BY DEF ForkTypes
<1> PICK S : S = NonZero(kfile[d])
  OBVIOUS
<1>2. S \subseteq 1..L
  <2>1. <<>> \in Seq(InBytes)
    OBVIOUS
  <2>. QED  BY <1>1, <2>1, NonZeroAppended
<1>3. L + 1 \in Nat /\ L + 1 > L
  BY <1>1
<1>4. IsFiniteSet(S) /\ Cardinality(S) \in Nat
  BY <1>1, <1>2, <1>3, RankBehind, Zenon DEF RanksBehind
<1>5. /\ ~ Pending(d, i) => Settled(d, i) = S
      /\ Pending(d, i) => Settled(d, i) = S \ {L}
  BY DEF Settled
<1>6. IsFiniteSet(S \ {L}) /\ Cardinality(S \ {L}) = IF L \in S THEN Cardinality(S) - 1 ELSE Cardinality(S)
  BY <1>4, FS_RemoveElement
<1>7. Cardinality(S \ {L}) \in Nat
  BY <1>6, FS_CardinalityType
<1>8. /\ IsFiniteSet(Settled(d, i)) /\ Cardinality(Settled(d, i)) \in Nat
      /\ Settled(d, i) \subseteq S /\ Cardinality(S) <= Cardinality(Settled(d, i)) + 1
  <2>1. CASE Pending(d, i)
    <3>1. Cardinality(S) <= Cardinality(S \ {L}) + 1
      BY <1>4, <1>6, <1>7
    <3>2. Settled(d, i) = S \ {L} /\ S \ {L} \subseteq S
      BY <1>5, <2>1
    <3>. QED  BY <1>6, <1>7, <3>1, <3>2
  <2>2. CASE ~ Pending(d, i)
    BY <1>4, <1>5, <2>2
  <2>. QED  BY <2>1, <2>2
<1>. QED  BY <1>1, <1>2, <1>4, <1>5, <1>8

LEMMA TrackInvImplies == TrackInv => ParityTracksData
<1> SUFFICES ASSUME TrackInv PROVE ParityTracksData
  OBVIOUS
<1>1. ForkTypes /\ StageInv
  BY DEF TrackInv, TrackTypes
<1>2. ASSUME AllEncode, NEW d \in PDisks, NEW i \in Rows \ replaced
      PROVE  /\ ParityOf(d, i, OtherLog(d, i)) = {}
             /\ \E picked \in SUBSET NonZero(kfile[d]) :
                   /\ Matches(d, i, ParityLog(d, i), picked)
                   /\ Cardinality(NonZero(kfile[d])) - Cardinality(picked)
                        <= KilledRuns + (IF proc.pc \in {"parity", "rename"} THEN 1 ELSE 0)
  <2>1. RowInv(d, i)
    BY <1>2 DEF TrackInv
  <2>2. PICK picked \in SUBSET Settled(d, i) :
           /\ Matches(d, i, ParityLog(d, i), picked)
           /\ Cardinality(Settled(d, i)) <= Cardinality(picked) + KilledRuns
    BY <2>1 DEF RowInv
  <2>3. /\ IsFiniteSet(Settled(d, i)) /\ Cardinality(Settled(d, i)) \in Nat
        /\ Settled(d, i) \subseteq NonZero(kfile[d]) /\ Cardinality(NonZero(kfile[d])) \in Nat
        /\ Cardinality(NonZero(kfile[d])) <= Cardinality(Settled(d, i)) + 1
        /\ ~ Pending(d, i) => Settled(d, i) = NonZero(kfile[d])
    BY <1>1, SettledIs
  <2>4. Cardinality(picked) \in Nat /\ KilledRuns \in Nat
    <3>1. IsFiniteSet(picked)
      BY <2>2, <2>3, FS_Subset
    <3>. QED  BY <1>1, <3>1, FS_CardinalityType, KilledIs
  <2>5. Cardinality(NonZero(kfile[d])) - Cardinality(picked)
           <= KilledRuns + (IF proc.pc \in {"parity", "rename"} THEN 1 ELSE 0)
    <3>1. CASE proc.pc \in {"parity", "rename"}
      BY <2>2, <2>3, <2>4, <3>1
    <3>2. CASE proc.pc \notin {"parity", "rename"}
      <4>1. ~ Pending(d, i)
        BY <3>2 DEF Pending, Waiting
      <4>. QED  BY <2>2, <2>3, <2>4, <3>2, <4>1
    <3>. QED  BY <3>1, <3>2
  <2>. QED  BY <2>1, <2>2, <2>3, <2>5 DEF RowInv
<1>. QED  BY <1>1, <1>2 DEF ParityTracksData, StageInv, AllEncode

\* Nothing is stored and as much is settled as before.
LEMMA RowSame ==
    ASSUME NEW d, NEW i, RowInv(d, i), UNCHANGED <<program, kfile, codes, mfile, stage>>,
           KilledRuns' = KilledRuns, Settled(d, i)' = Settled(d, i)
    PROVE  RowInv(d, i)'
<1>1. ParityLog(d, i)' = ParityLog(d, i) /\ OtherLog(d, i)' = OtherLog(d, i)
  BY DEF ParityLog, OtherLog
<1>2. \A blocks, picked : Matches(d, i, blocks, picked)' <=> Matches(d, i, blocks, picked)
  BY Zenon DEF Matches, ParityOfBlock
<1>. QED  BY <1>1, <1>2 DEF RowInv

\* The steps that touch neither a log of data nor one of parity.
LEMMA QuietSteps ==
    ASSUME TrackInv, AllEncode', UNCHANGED <<program, kfile, codes, mfile, stage, replaced>>,
           AllEncode' => AllEncode, KilledRuns' = KilledRuns,
           proc' = proc \/ \A i \in Rows : ~ Waiting(i) /\ ~ Waiting(i)'
    PROVE  CodingInv' /\ \A d \in PDisks, i \in Rows \ replaced' : RowInv(d, i)'
<1>1. CodingInv /\ \A d \in PDisks, i \in Rows \ replaced : RowInv(d, i)
  BY DEF TrackInv
<1>2. CodingInv'
  <2>1. CASE \A i \in Rows : ~ Waiting(i)'
    BY <2>1 DEF CodingInv
  <2>2. CASE proc' = proc
    <3>1. CurrentDisk' = CurrentDisk /\ \A i \in Rows : Waiting(i)' <=> Waiting(i)
      BY <2>2 DEF CurrentDisk, Waiting
    <3>2. \A i, d : ParityOfBlock(i, d, LastOf(d))' = ParityOfBlock(i, d, LastOf(d))
      BY DEF ParityOfBlock, LastOf
    <3>. QED  BY <1>1, <2>2, <3>1, <3>2 DEF CodingInv
  <2>. QED  BY <2>1, <2>2
<1>3. ASSUME NEW d \in PDisks, NEW i \in Rows \ replaced PROVE RowInv(d, i)'
  <2>1. Pending(d, i)' <=> Pending(d, i)
    <3>1. CASE ~ Waiting(i) /\ ~ Waiting(i)'
      BY <3>1 DEF Pending
    <3>2. CASE proc' = proc
      <4>1. CurrentDisk' = CurrentDisk /\ (Waiting(i)' <=> Waiting(i))
        BY <3>2 DEF CurrentDisk, Waiting
      <4>. QED  BY <4>1 DEF Pending
    <3>. QED  BY <3>1, <3>2
  <2>2. Settled(d, i)' = Settled(d, i)
    BY <2>1 DEF Settled
  <2>. QED  BY <1>1, <2>2, RowSame
<1>. QED  BY <1>2, <1>3

\* A new data block is stored; its parity is now to be appended to every row.
LEMMA EncodeTracks ==
    ASSUME TrackInv, AllEncode', EncodeAppendData
    PROVE  CodingInv' /\ \A d \in PDisks, i \in Rows \ replaced' : RowInv(d, i)'
<1>1. TrackTypes /\ ForkTypes /\ proc.pc = "data"
  BY DEF TrackInv, TrackTypes, EncodeAppendData
<1>2. program \in {"cauchy", "ten", "incr"} /\ CurrentDisk \in PDisks
  BY <1>1, CurrentDiskIs DEF TrackTypes
<1> PICK c \in PDisks : c = CurrentDisk
  BY <1>2
<1> PICK block : block = CurrentBlock
  OBVIOUS
<1> PICK code : code = CurrentCode
  OBVIOUS
<1>3. /\ block \in Seq(InBytes) /\ code \in Codes
      /\ UNCHANGED <<program, mfile, stage, log, replaced>>
      /\ proc'.pc = "parity" /\ proc'.row = 1 /\ proc'.disk = proc.disk /\ proc'.n = proc.n
      /\ \A i \in Rows : proc'.coding[i] = Coded(i)
      /\ \A e \in PDisks : kfile'[e] = IF e = c THEN Append(kfile[e], block) ELSE kfile[e]
      /\ \A e \in PDisks : codes'[e] = IF e = c THEN Append(codes[e], code) ELSE codes[e]
      /\ ForkTypes'
  BY <1>1, <1>2, EncodeTypes
<1>4. AllEncode
  BY <1>3 DEF AllEncode, Encodes
<1>5. \A d \in PDisks, i \in Rows \ replaced : RowInv(d, i)
  BY <1>4 DEF TrackInv
<1>6. CurrentDisk' = c
  BY <1>3 DEF CurrentDisk
<1>7. Encodes(proc.tech)
  <2>1. log # <<>> /\ proc.tech = log[Len(log)].tech /\ log \in Seq(Entries)
    BY <1>1 DEF ForkTypes
  <2>2. Len(log) \in DOMAIN log
    BY <2>1
  <2>. QED  BY <1>4, <2>1, <2>2 DEF AllEncode
<1>8. /\ kfile[c] \in Seq(Seq(InBytes)) /\ Len(kfile[c]) \in Nat
      /\ kfile'[c] = Append(kfile[c], block)
      /\ codes[c] \in Seq(Codes) /\ Len(codes[c]) = Len(kfile[c])
      /\ codes'[c] = Append(codes[c], code)
  BY <1>1, <1>3 DEF ForkTypes
<1>9. kfile'[c] # <<>> /\ Len(kfile'[c]) = Len(kfile[c]) + 1 /\ kfile'[c][Len(kfile'[c])] = block
  <2>1. ASSUME NEW S, NEW s \in Seq(S), NEW b \in S
        PROVE  /\ Append(s, b) # <<>> /\ Len(Append(s, b)) = Len(s) + 1
               /\ Append(s, b)[Len(Append(s, b))] = b
    OBVIOUS
  <2>2. /\ Append(kfile[c], block) # <<>> /\ Len(Append(kfile[c], block)) = Len(kfile[c]) + 1
        /\ Append(kfile[c], block)[Len(Append(kfile[c], block))] = block
    <3>1. PICK S : S = Seq(InBytes)
      OBVIOUS
    <3>2. kfile[c] \in Seq(S) /\ block \in S
      BY <1>3, <1>8, <3>1
    <3>. QED  BY <2>1, <3>2
  <2>. QED  BY <1>8, <2>2
<1>10. CodingInv'
  <2>1. \A i \in Rows : proc'.coding[i] = Parity(i, c, code, block)
    BY <1>3, <1>7 DEF Coded
  <2>2. codes'[c][Len(kfile'[c])] = code
    <3>1. Append(codes[c], code)[Len(codes[c]) + 1] = code
      BY <1>3, <1>8
    <3>. QED  BY <1>8, <1>9, <3>1
  <2>3. \A i \in Rows : ParityOfBlock(i, c, LastOf(c))' = Parity(i, c, code, block)
    BY <1>9, <2>2 DEF ParityOfBlock, LastOf
  <2>. QED  BY <1>6, <1>9, <2>1, <2>3 DEF CodingInv
<1>11. ASSUME NEW d \in PDisks, NEW i \in Rows \ replaced PROVE RowInv(d, i)'
  <2>1. ~ Pending(d, i) /\ Settled(d, i) = NonZero(kfile[d])
    BY <1>1, SettledIs DEF Pending, Waiting
  <2>2. RowInv(d, i)
    BY <1>5
  <2>3. /\ kfile[d] \in Seq(Seq(InBytes)) /\ Len(kfile[d]) \in Nat
        /\ Settled(d, i) \subseteq 1..Len(kfile[d])
    BY <1>1, <2>1, SettledIs
  <2>4. Settled(d, i)' = Settled(d, i)
    <3>1. CASE d = c
      <4>1. Pending(d, i)'
        <5>1. i >= 1
          BY DEF Rows
        <5>. QED  BY <1>3, <1>6, <3>1, <5>1 DEF Pending, Waiting
      <4>2. Settled(d, i)' = NonZero(kfile'[c]) \ {Len(kfile'[c])}
        BY <3>1, <4>1 DEF Settled
      <4>3. NonZero(kfile'[c]) = NonZero(kfile[c]) \cup (IF AllZero(block) THEN {} ELSE {Len(kfile[c]) + 1})
        BY <1>3, <1>8, NonZeroAppended
      <4>4. Len(kfile[c]) + 1 \notin NonZero(kfile[c])
        <5>1. Len(kfile[c]) + 1 \notin 1..Len(kfile[c])
          BY <1>8
        <5>. QED  BY <2>1, <2>3, <3>1, <5>1
      <4>5. NonZero(kfile'[c]) \ {Len(kfile[c]) + 1} = NonZero(kfile[c])
        BY <4>3, <4>4
      <4>. QED  BY <1>9, <2>1, <3>1, <4>2, <4>5
    <3>2. CASE d # c
      <4>1. ~ Pending(d, i)'
        BY <1>6, <3>2 DEF Pending
      <4>2. kfile'[d] = kfile[d]
        BY <1>3, <3>2
      <4>3. Settled(d, i)' = NonZero(kfile'[d])
        BY <4>1 DEF Settled
      <4>. QED  BY <2>1, <4>2, <4>3
    <3>. QED  BY <3>1, <3>2
  <2>5. \A y \in Settled(d, i) : kfile'[d][y] = kfile[d][y] /\ codes'[d][y] = codes[d][y]
    <3>1. CASE d = c
      <4>1. \A y \in 1..Len(kfile[c]) : Append(kfile[c], block)[y] = kfile[c][y]
        BY <1>8
      <4>2. \A y \in 1..Len(codes[c]) : Append(codes[c], code)[y] = codes[c][y]
        BY <1>8
      <4>. QED  BY <1>8, <2>3, <3>1, <4>1, <4>2
    <3>2. CASE d # c
      BY <1>3, <3>2
    <3>. QED  BY <3>1, <3>2
  <2>6. PICK picked \in SUBSET Settled(d, i) :
           /\ Matches(d, i, ParityLog(d, i), picked)
           /\ Cardinality(Settled(d, i)) <= Cardinality(picked) + KilledRuns
    BY <2>2 DEF RowInv
  <2>7. ParityLog(d, i)' = ParityLog(d, i) /\ OtherLog(d, i)' = OtherLog(d, i) /\ KilledRuns' = KilledRuns
    BY <1>3 DEF ParityLog, OtherLog, KilledRuns
  <2> PICK blocks : blocks = ParityLog(d, i)
    OBVIOUS
  <2>8. Matches(d, i, blocks, picked)'
    <3>1. \A y \in picked : kfile'[d][y] = kfile[d][y] /\ codes'[d][y] = codes[d][y]
      BY <2>5, <2>6
    <3>2. Matches(d, i, blocks, picked)
      BY <2>6
    <3>3. (Matches(d, i, blocks, picked))' <=> Matches(d, i, blocks, picked)
      <4>1. \A y \in picked : ParityOfBlock(i, d, y)' = ParityOfBlock(i, d, y)
        BY <3>1, Zenon DEF ParityOfBlock
      <4>. QED  BY <4>1, Zenon DEF Matches
    <3>. QED  BY <3>2, <3>3, Zenon
  <2>9. ParityOf(d, i, OtherLog(d, i)) = {}
    BY <2>2 DEF RowInv
  <2>. QED  BY <2>4, <2>6, <2>7, <2>8, <2>9 DEF RowInv
<1>. QED  BY <1>3, <1>10, <1>11

\* A kill leaves the block that was to be appended without parity.
LEMMA KillTracks ==
    ASSUME TrackInv, AllEncode', KillEncoder
    PROVE  CodingInv' /\ \A d \in PDisks, i \in Rows \ replaced' : RowInv(d, i)'
<1>1. TrackTypes /\ ForkTypes
  BY DEF TrackInv, TrackTypes
<1>2. /\ proc' = Resting /\ UNCHANGED <<program, kfile, codes, mfile, stage, replaced>>
      /\ \A i \in Rows : ~ Waiting(i)'
  BY <1>1, KillTypes DEF Waiting, Resting
<1>3. KilledRuns' = KilledRuns + 1 /\ AllEncode
  BY <1>1, KillCounts
<1>4. \A d \in PDisks, i \in Rows \ replaced : RowInv(d, i)
  BY <1>3 DEF TrackInv
<1>5. CodingInv'
  BY <1>2 DEF CodingInv
<1>6. ASSUME NEW d \in PDisks, NEW i \in Rows \ replaced PROVE RowInv(d, i)'
  <2>1. PICK picked \in SUBSET Settled(d, i) :
           /\ Matches(d, i, ParityLog(d, i), picked)
           /\ Cardinality(Settled(d, i)) <= Cardinality(picked) + KilledRuns
    BY <1>4 DEF RowInv
  <2>2. /\ IsFiniteSet(Settled(d, i)) /\ Cardinality(Settled(d, i)) \in Nat
        /\ Settled(d, i) \subseteq NonZero(kfile[d]) /\ Cardinality(NonZero(kfile[d])) \in Nat
        /\ Cardinality(NonZero(kfile[d])) <= Cardinality(Settled(d, i)) + 1
    BY <1>1, SettledIs
  <2>3. Cardinality(picked) \in Nat /\ KilledRuns \in Nat
    <3>1. IsFiniteSet(picked)
      BY <2>1, <2>2, FS_Subset
    <3>. QED  BY <1>1, <3>1, FS_CardinalityType, KilledIs
  <2>4. Settled(d, i)' = NonZero(kfile[d])
    <3>1. ~ Pending(d, i)'
      BY <1>2 DEF Pending
    <3>. QED  BY <1>2, <3>1 DEF Settled
  <2>5. Cardinality(Settled(d, i)') <= Cardinality(picked) + KilledRuns'
    BY <1>3, <2>1, <2>2, <2>3, <2>4
  <2>6. picked \in SUBSET (Settled(d, i)')
    BY <2>1, <2>2, <2>4
  <2>7. ParityLog(d, i)' = ParityLog(d, i) /\ OtherLog(d, i)' = OtherLog(d, i)
    BY <1>2 DEF ParityLog, OtherLog
  <2> PICK blocks : blocks = ParityLog(d, i)
    OBVIOUS
  <2>8. Matches(d, i, blocks, picked)'
    <3>1. Matches(d, i, blocks, picked)
      BY <2>1
    <3>. QED  BY <1>2, <3>1, Zenon DEF Matches, ParityOfBlock
  <2>9. ParityOf(d, i, OtherLog(d, i)) = {}
    BY <1>4 DEF RowInv
  <2>. QED  BY <2>5, <2>6, <2>7, <2>8, <2>9 DEF RowInv
<1>. QED  BY <1>2, <1>5, <1>6

\* The row that is appended takes the parity of the last data block of the
\* disk the run works on, in the file for this disk.
LEMMA AppendTracks ==
    ASSUME TrackInv, AllEncode', AppendRow
    PROVE  CodingInv' /\ \A d \in PDisks, i \in Rows \ replaced' : RowInv(d, i)'
<1>1. TrackTypes /\ ForkTypes /\ proc.pc = "parity"
  BY DEF TrackInv, TrackTypes, AppendRow
<1>2. CurrentDisk \in PDisks
  BY <1>1, CurrentDiskIs
<1> PICK c \in PDisks : c = CurrentDisk
  BY <1>2
<1>3. proc.row \in Rows
  BY <1>1 DEF ForkTypes, Resting, Runs
<1> PICK r \in Rows : r = proc.row
  BY <1>3
<1> PICK block : block = proc.coding[r]
  OBVIOUS
<1>4. /\ UNCHANGED <<program, kfile, codes, log, replaced>> /\ block \in Seq(OutBytes)
      /\ proc'.coding = proc.coding
      /\ \A e \in Rows : e # r => mfile'[e] = mfile[e] /\ stage'[e] = stage[e]
      /\ ~ Staged => mfile'[r] = Append(mfile[r], block) /\ stage'[r] = stage[r]
      /\ Staged => mfile'[r] = mfile[r] /\ stage'[r] = Append(stage[r], block)
  BY <1>1, AppendTypes
<1>5. AllEncode /\ KilledRuns' = KilledRuns
  BY <1>4 DEF AllEncode, Encodes, KilledRuns
<1>6. CodingInv /\ \A d \in PDisks, i \in Rows \ replaced : RowInv(d, i)
  BY <1>5 DEF TrackInv
<1>7. /\ CurrentDisk' = c /\ Waiting(r)
      /\ \A i \in Rows : Waiting(i)' <=> Waiting(i) /\ i # r
  BY <1>1, AppendWaits
<1>8. /\ kfile[c] # <<>>
      /\ \A i \in Rows : Waiting(i) => proc.coding[i] = ParityOfBlock(i, c, LastOf(c))
  BY <1>6, <1>7 DEF CodingInv
<1>9. \A i, d : ParityOfBlock(i, d, LastOf(d))' = ParityOfBlock(i, d, LastOf(d))
  BY <1>4 DEF ParityOfBlock, LastOf
<1>10. CodingInv'
  BY <1>4, <1>7, <1>8, <1>9 DEF CodingInv
<1>12. \A d \in PDisks, i \in Rows : Pending(d, i)' <=> Pending(d, i) /\ i # r
  BY <1>7 DEF Pending
<1>13. ASSUME NEW d \in PDisks, NEW i \in Rows \ replaced, i # r PROVE RowInv(d, i)'
  <2>1. RowInv(d, i)
    BY <1>6
  <2>2. Settled(d, i)' = Settled(d, i)
    BY <1>4, <1>12, <1>13 DEF Settled
  <2>3. ParityLog(d, i)' = ParityLog(d, i) /\ OtherLog(d, i)' = OtherLog(d, i)
    BY <1>4, <1>13 DEF ParityLog, OtherLog
  <2>4. \A blocks, picked : Matches(d, i, blocks, picked)' <=> Matches(d, i, blocks, picked)
    BY <1>4, Zenon DEF Matches, ParityOfBlock
  <2>. QED  BY <1>5, <2>1, <2>2, <2>3, <2>4 DEF RowInv
<1>14. ASSUME NEW d \in PDisks, r \notin replaced PROVE RowInv(d, r)'
  <2>1. RowInv(d, r)
    BY <1>6, <1>14
  <2>2. PICK picked \in SUBSET Settled(d, r) :
           /\ Matches(d, r, ParityLog(d, r), picked)
           /\ Cardinality(Settled(d, r)) <= Cardinality(picked) + KilledRuns
    BY <2>1 DEF RowInv
  <2>3. ParityOf(d, r, OtherLog(d, r)) = {}
    BY <2>1 DEF RowInv
  <2>4. /\ mfile[r] \in Seq(Seq(OutBytes)) /\ stage[r] \in Seq(Seq(OutBytes))
    BY <1>1 DEF ForkTypes
  <2>5. /\ ~ Staged => mfile'[r] = Append(mfile[r], block) /\ stage'[r] = stage[r]
        /\ Staged => mfile'[r] = mfile[r] /\ stage'[r] = Append(stage[r], block)
    BY <1>4, <1>14
  <2>6. ~ Pending(d, r)'
    BY <1>12
  <2>7. Settled(d, r)' = NonZero(kfile[d])
    BY <1>4, <2>6 DEF Settled
  <2>8. \A blocks, w : Matches(d, r, blocks, w)' <=> Matches(d, r, blocks, w)
    BY <1>4, Zenon DEF Matches, ParityOfBlock
  <2> PICK y : y = LastOf(c)
    OBVIOUS
  <2> PICK last : last = kfile[c][y]
    OBVIOUS
  <2>9. /\ kfile[c] \in Seq(Seq(InBytes)) /\ y \in Nat /\ y > 0
        /\ last \in Seq(InBytes) /\ last = kfile[c][y] /\ y \in DOMAIN kfile[c]
    <3>1. kfile[c] \in Seq(Seq(InBytes))
      BY <1>1 DEF ForkTypes
    <3>2. y \in Nat /\ y > 0 /\ y \in DOMAIN kfile[c]
      BY <1>8, <3>1 DEF LastOf
    <3>. QED  BY <3>1, <3>2
  <2>10. block = ParityOfBlock(r, c, y)
    BY <1>7, <1>8
  <2>11. Bears(d, r, block) <=> d = c /\ ~ AllZero(last)
    BY <2>9, <2>10, ParityBears DEF ParityOfBlock
  <2>12. /\ NonZero(kfile[d]) \subseteq 1..Len(kfile[d])
         /\ IsFiniteSet(Settled(d, r)) /\ Cardinality(Settled(d, r)) \in Nat
         /\ ~ Pending(d, r) => Settled(d, r) = NonZero(kfile[d])
         /\ Pending(d, r) => Settled(d, r) = NonZero(kfile[d]) \ {Len(kfile[d])}
    BY <1>1, SettledIs
  <2>13. Pending(d, r) <=> d = c
    BY <1>7 DEF Pending
  <2>14. y \in NonZero(kfile[c]) <=> ~ AllZero(last)
    <3>1. NonZero(kfile[c]) = {x \in DOMAIN kfile[c] : ~ AllZero(kfile[c][x])}
      BY NonZeroIs
    <3>. QED  BY <2>9, <3>1
  <2>15. CASE ~ Bears(d, r, block)
    <3>1. Settled(d, r)' = Settled(d, r)
      <4>1. CASE d # c
        BY <2>7, <2>12, <2>13, <4>1
      <4>2. CASE d = c
        <5>1. AllZero(last)
          BY <2>11, <2>15, <4>2
        <5>2. y \notin NonZero(kfile[d])
          BY <2>14, <4>2, <5>1
        <5>3. Settled(d, r) = NonZero(kfile[d]) \ {y}
          <6>1. Len(kfile[d]) = y
            BY <4>2 DEF LastOf
          <6>2. Settled(d, r) = NonZero(kfile[d]) \ {Len(kfile[d])}
            BY <2>12, <2>13, <4>2, Zenon
          <6>. QED  BY <6>1, <6>2, Zenon
        <5>4. NonZero(kfile[d]) \ {y} = NonZero(kfile[d])
          BY <5>2, Zenon
        <5>. QED  BY <2>7, <5>3, <5>4, Zenon
      <4>. QED  BY <4>1, <4>2
    <3>2. \A blocks \in Seq(Seq(OutBytes)) :
             Matches(d, r, blocks, picked) => Matches(d, r, Append(blocks, block), picked)
      BY <1>4, <2>15, MatchesStill
    <3>3. \A blocks \in Seq(Seq(OutBytes)) :
             ParityOf(d, r, blocks) = {} => ParityOf(d, r, Append(blocks, block)) = {}
      <4> PICK S : S = Seq(OutBytes)
        OBVIOUS
      <4>1. ASSUME NEW blocks \in Seq(S)
            PROVE  ParityOf(d, r, Append(blocks, block)) = ParityOf(d, r, blocks)
        <5>1. block \in S /\ ~ Bears(d, r, block)
          BY <1>4, <2>15
        <5>. QED  BY <5>1, NoParityAppended
      <4>. QED  BY <4>1
    <3>4. Matches(d, r, ParityLog(d, r)', picked) /\ ParityOf(d, r, OtherLog(d, r)') = {}
      <4>1. ParityLog(d, r) \in Seq(Seq(OutBytes)) /\ OtherLog(d, r) \in Seq(Seq(OutBytes))
        BY <2>4 DEF ParityLog, OtherLog
      <4>2. /\ ParityLog(d, r)' \in {ParityLog(d, r), Append(ParityLog(d, r), block)}
            /\ OtherLog(d, r)' \in {OtherLog(d, r), Append(OtherLog(d, r), block)}
        BY <1>4, <2>5 DEF ParityLog, OtherLog
      <4>. QED  BY <2>2, <2>3, <3>2, <3>3, <4>1, <4>2
    <3>5. Matches(d, r, ParityLog(d, r), picked)'
      BY <2>8, <3>4
    <3>. QED  BY <1>5, <2>2, <3>1, <3>4, <3>5 DEF RowInv
  <2>16. CASE Bears(d, r, block)
    <3>1. d = c /\ ~ AllZero(last)
      BY <2>11, <2>16
    <3> DEFINE picks == picked \cup {y}
    <3>2. /\ Settled(d, r)' = Settled(d, r) \cup {y} /\ y \notin Settled(d, r)
          /\ Settled(d, r) \subseteq 1..(y - 1)
      <4>1. y \in NonZero(kfile[d]) /\ Settled(d, r) = NonZero(kfile[d]) \ {y}
        BY <2>12, <2>13, <2>14, <3>1 DEF LastOf
      <4>2. NonZero(kfile[d]) \subseteq 1..y
        BY <2>12, <3>1 DEF LastOf
      <4>3. \A x \in 1..y : x # y => x \in 1..(y - 1)
        BY <2>9
      <4>. QED  BY <2>7, <4>1, <4>2, <4>3
    <3>3. IsFiniteSet(picked) /\ y \notin picked /\ picked \in SUBSET (1..(y - 1))
      BY <2>2, <2>12, <3>2, FS_Subset
    <3>4. /\ Cardinality(picks) = Cardinality(picked) + 1 /\ Cardinality(picked) \in Nat
          /\ Cardinality(Settled(d, r) \cup {y}) = Cardinality(Settled(d, r)) + 1
      BY <2>12, <3>2, <3>3, FS_AddElement, FS_CardinalityType
    <3>5. KilledRuns \in Nat
      BY <1>1, KilledIs
    <3>6. Cardinality(Settled(d, r)') <= Cardinality(picks) + KilledRuns
      BY <2>2, <2>12, <3>2, <3>4, <3>5
    <3>7. Staged <=> program = "incr" /\ d > 1
      <4>1. program = "incr" => d = proc.disk
        BY <1>1, <3>1, CurrentDiskIs
      <4>. QED  BY <4>1 DEF Staged
    <3>8. /\ ParityLog(d, r)' = Append(ParityLog(d, r), block)
          /\ OtherLog(d, r)' = OtherLog(d, r)
          /\ ParityLog(d, r) \in Seq(Seq(OutBytes))
      BY <1>4, <2>4, <2>5, <3>7 DEF ParityLog, OtherLog
    <3>9. Matches(d, r, ParityLog(d, r)', picks)
      <4>1. block = ParityOfBlock(r, d, y)
        BY <2>10, <3>1
      <4> PICK blocks \in Seq(Seq(OutBytes)) : blocks = ParityLog(d, r)
        BY <3>8
      <4>2. Matches(d, r, Append(blocks, block), picks)
        BY <1>4, <2>2, <2>9, <2>16, <3>3, <4>1, MatchesLonger
      <4>. QED  BY <3>8, <4>2
    <3>10. picks \in SUBSET (Settled(d, r)')
      BY <2>2, <3>2
    <3> HIDE DEF picks
    <3>11. Matches(d, r, ParityLog(d, r), picks)'
      BY <2>8, <3>9
    <3>. QED  BY <1>5, <2>3, <3>6, <3>8, <3>10, <3>11 DEF RowInv
  <2>. QED  BY <2>15, <2>16
<1>. QED  BY <1>4, <1>10, <1>13, <1>14

\* The row that is renamed is not spoken of any more; the others stay.
LEMMA RenameTracks ==
    ASSUME TrackInv, AllEncode', RenameRow
    PROVE  CodingInv' /\ \A d \in PDisks, i \in Rows \ replaced' : RowInv(d, i)'
<1>1. TrackTypes /\ ForkTypes
  BY DEF TrackInv, TrackTypes
<1> PICK r : r = proc.row
  OBVIOUS
<1>2. /\ UNCHANGED <<program, kfile, codes, log>>
      /\ proc'.coding = proc.coding /\ replaced' = replaced \cup {r}
      /\ \A e \in Rows : e # r => mfile'[e] = mfile[e] /\ stage'[e] = stage[e]
  BY <1>1, RenameTypes DEF RowDone
<1>3. AllEncode /\ KilledRuns' = KilledRuns
  BY <1>2 DEF AllEncode, Encodes, KilledRuns
<1>4. CodingInv /\ \A d \in PDisks, i \in Rows \ replaced : RowInv(d, i)
  BY <1>3 DEF TrackInv
<1>5. CurrentDisk' = CurrentDisk /\ \A i \in Rows : Waiting(i)' <=> Waiting(i)
  BY <1>1, RenameWaits
<1>6. \A i, d : ParityOfBlock(i, d, LastOf(d))' = ParityOfBlock(i, d, LastOf(d))
  BY <1>2 DEF ParityOfBlock, LastOf
<1>7. CodingInv'
  BY <1>2, <1>4, <1>5, <1>6 DEF CodingInv
<1>8. ASSUME NEW d \in PDisks, NEW i \in Rows \ replaced' PROVE RowInv(d, i)'
  <2>1. i \in Rows /\ i # r /\ i \notin replaced
    BY <1>2
  <2>2. RowInv(d, i)
    BY <1>4, <2>1
  <2>3. Settled(d, i)' = Settled(d, i)
    BY <1>2, <1>5 DEF Settled, Pending
  <2>4. ParityLog(d, i)' = ParityLog(d, i) /\ OtherLog(d, i)' = OtherLog(d, i)
    BY <1>2, <2>1 DEF ParityLog, OtherLog
  <2>5. \A blocks, picked : Matches(d, i, blocks, picked)' <=> Matches(d, i, blocks, picked)
    BY <1>2, Zenon DEF Matches, ParityOfBlock
  <2>. QED  BY <1>3, <2>2, <2>3, <2>4, <2>5 DEF RowInv
<1>. QED  BY <1>7, <1>8

\* The invariant of the forks' logs: what each row holds of each disk.
THEOREM TrackInvariant == PositionalSpec => []TrackInv
<1>1. PositionalInit => TrackInv
  <2> SUFFICES ASSUME PositionalInit PROVE TrackInv
    OBVIOUS
  <2>1. ForkTypes /\ proc.pc = "rest"
    BY TypesAtFirst DEF PositionalInit, Resting
  <2>2. \A i \in Rows : mfile[i] = <<>> /\ stage[i] = <<>>
    BY DEF PositionalInit
  <2>3. StageInv
    BY <2>1, <2>2 DEF StageInv, Waiting
  <2>4. CodingInv
    BY <2>1 DEF CodingInv, Waiting
  <2>5. ASSUME NEW d \in PDisks, NEW i \in Rows PROVE RowInv(d, i)
    <3>1. kfile[d] = <<>> /\ ParityLog(d, i) = <<>> /\ OtherLog(d, i) = <<>>
      BY <2>2 DEF PositionalInit, ParityLog, OtherLog
    <3>2. ParityOf(d, i, <<>>) = {} /\ NonZero(<<>>) = {}
      BY DEF ParityOf, NonZero
    <3>3. Settled(d, i) = {}
      BY <3>1, <3>2 DEF Settled
    <3>4. Cardinality({}) = 0
      BY FS_EmptySet
    <3>5. KilledRuns \in Nat
      BY <2>1, KilledIs
    <3>6. Matches(d, i, ParityLog(d, i), {})
      BY <3>1, <3>2, Zenon DEF Matches
    <3>7. Cardinality(Settled(d, i)) <= Cardinality({}) + KilledRuns
      BY <3>3, <3>4, <3>5
    <3>. QED  BY <3>1, <3>2, <3>3, <3>6, <3>7 DEF RowInv
  <2>. QED  BY <2>1, <2>3, <2>4, <2>5 DEF TrackInv, TrackTypes
<1>2. TrackInv /\ [PositionalNext]_pvars => TrackInv'
  <2> SUFFICES ASSUME TrackInv, [PositionalNext]_pvars PROVE TrackInv'
    OBVIOUS
  <2>1. TrackTypes /\ ForkTypes /\ StageInv
    BY DEF TrackInv, TrackTypes
  <2>2. TrackTypes' /\ StageInv'
    BY <2>1, TypesKept, StageKept
  <2>3. AllEncode' => CodingInv' /\ \A d \in PDisks, i \in Rows \ replaced' : RowInv(d, i)'
    <3> SUFFICES ASSUME AllEncode'
                 PROVE  CodingInv' /\ \A d \in PDisks, i \in Rows \ replaced' : RowInv(d, i)'
      OBVIOUS
    <3>1. ASSUME NEW d \in PDisks, NEW s \in RunSizes, NEW b \in BufferSizes, NEW t \in Techniques,
                 PStart(d, s, PArgs(b, t))
          PROVE  CodingInv' /\ \A e \in PDisks, i \in Rows \ replaced' : RowInv(e, i)'
      <4>1. UNCHANGED <<program, kfile, codes, mfile, stage, replaced>> /\ proc.pc = "rest"
        BY <3>1 DEF PStart
      <4>2. \A i \in Rows : ~ Waiting(i) /\ ~ Waiting(i)'
        BY <2>1, <3>1, <4>1, StartTypes DEF Waiting
      <4>3. KilledRuns' = KilledRuns /\ (AllEncode' => AllEncode)
        BY <2>1, <3>1, StartLeavesKilled
      <4>. QED  BY <4>1, <4>2, <4>3, QuietSteps
    <3>2. CASE LoadParity \/ WriteMetadata
      <4>1. proc.pc # "rest" /\ proc.pc \notin {"parity", "rename"}
        BY <3>2 DEF LoadParity, WriteMetadata
      <4>2. CurrentDisk \in PDisks
        BY <2>1, <4>1, CurrentDiskIs
      <4>3. UNCHANGED <<program, kfile, codes, mfile, stage, log, replaced>>
            /\ proc'.pc \in {"rest", "data", "load"}
        BY <2>1, <3>2, <4>2, LoadTypes, MetadataTypes DEF Resting
      <4>4. KilledRuns' = KilledRuns /\ (AllEncode' => AllEncode)
        BY <4>3 DEF KilledRuns, AllEncode, Encodes
      <4>5. \A i \in Rows : ~ Waiting(i) /\ ~ Waiting(i)'
        BY <4>1, <4>3 DEF Waiting
      <4>. QED  BY <4>3, <4>4, <4>5, QuietSteps
    <3>3. CASE (\E d \in PDisks : PDecode(d)) \/ RemoveDecoded \/ (\E i \in Rows : LoseRow(i)) \/ UNCHANGED pvars
      <4>1. UNCHANGED <<program, kfile, codes, mfile, stage, proc, log, replaced>>
        BY <3>3 DEF PDecode, RemoveDecoded, LoseRow, pvars
      <4>2. KilledRuns' = KilledRuns /\ (AllEncode' => AllEncode)
        BY <4>1 DEF KilledRuns, AllEncode, Encodes
      <4>. QED  BY <4>1, <4>2, QuietSteps
    <3>. QED  BY <3>1, <3>2, <3>3, EncodeTracks, AppendTracks, RenameTracks, KillTracks
               DEF PositionalNext
  <2>. QED  BY <2>2, <2>3 DEF TrackInv
<1>. QED  BY <1>1, <1>2, PTL DEF PositionalSpec

\* cauchy_encoder.c, encoder.c, cauchy_encoder_incr.c: whichever runs were
\* killed, the logs of parity and the staging files hold the parity of the
\* data blocks of each disk in their order, but for one block of each kill.
THEOREM ParityTracksDataHolds == PositionalSpec => []ParityTracksData
BY TrackInvariant, TrackInvImplies, PTL

-----------------------------------------------------------------------------
(* What holds of the whole-file coder and of the forks holds of the two    *)
(* side by side                                                            *)

LEMMA EachCoder == CodersSpec => FileSpec /\ PositionalSpec
<1>1. CodersInit => FileInit /\ PositionalInit
  BY DEF CodersInit
<1>2. [CodersNext]_cvars => [FileNext]_fvars /\ [PositionalNext]_pvars
  BY DEF CodersNext, WholeFileStep, ForkStep, cvars
<1>. QED  BY <1>1, <1>2, PTL DEF CodersSpec, FileSpec, PositionalSpec

\* The four properties of the coders, in the system in which a directory
\* belongs to one of them.
THEOREM CodersHold ==
    CodersSpec => [](/\ CompletedRunStands /\ DecodedIsOriginal
                     /\ ParityTracksData /\ FirstBlockRecovered)
BY EachCoder, CompletedRunStandsHolds, DecodedIsOriginalHolds, ParityTracksDataHolds,
   FirstBlockRecoveredHolds, PTL
=============================================================================
