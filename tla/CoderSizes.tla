----------------------------- MODULE CoderSizes -----------------------------
(***************************************************************************)
(* The size arithmetic shared by jerasure's encoder program and the forks  *)
(* of it in this repository: how the buffer size the user asks for is      *)
(* adjusted, how far the input is padded, and into how many read-ins of    *)
(* which block size it is cut.                                             *)
(*                                                                         *)
(* An argument record has the fields k, m, w, packetsize, buffersize and   *)
(* tech.  word is sizeof(long) in jerasure's program, sizeof(int) in the   *)
(* forks.                                                                  *)
(***************************************************************************)
EXTENDS Integers

CONSTANT FieldSizes     \* the w the Reed-Solomon codes take: 8, 16, 32

(* The least number of bytes that can be split and encoded.                *)
Unit(word, a) ==
    word * a.w * a.k * (IF a.packetsize = 0 THEN 1 ELSE a.packetsize)

RoundUp(x, unit) == ((x + unit - 1) \div unit) * unit
RoundDown(x, unit) == (x \div unit) * unit

(* The search for the closest valid size.  With packets the loop           *)
(* decrements down only once down is 0, which it never is: the next larger *)
(* multiple is taken.  Without packets the nearest multiple is, the larger *)
(* one on a tie; the result may be 0, which means "choose automatically".  *)
ProperBuffersize(word, a) ==
    LET up   == RoundUp(a.buffersize, Unit(word, a))
        down == RoundDown(a.buffersize, Unit(word, a))
    IN  IF a.packetsize # 0 \/ up - a.buffersize <= a.buffersize - down
        THEN up ELSE down

(* The padded size: a multiple of the unit, then of the buffer size.       *)
Newsize(size, word, a) ==
    LET padded == RoundUp(size, Unit(word, a))
        buffer == ProperBuffersize(word, a)
    IN  IF buffer = 0 THEN padded ELSE RoundUp(padded, buffer)

(* Whether the input does not fit the buffer and is read in pieces.        *)
SeveralReadIns(size, word, a) ==
    /\ ProperBuffersize(word, a) # 0
    /\ size > ProperBuffersize(word, a)

(* Whether the program goes on with the technique and parameters it is     *)
(* given.                                                                  *)
IsPrime(n) == \A divisor \in 2..(n-1) : n % divisor # 0

Accepted(word, a) ==
    \/ a.tech = "no_coding"
    \/ a.tech = "reed_sol_van" /\ a.w \in FieldSizes
    \/ a.tech = "reed_sol_r6_op" /\ a.m = 2 /\ a.w \in FieldSizes
    \/ a.tech \in {"cauchy_orig", "cauchy_good"} /\ a.packetsize # 0
    \/ /\ a.tech = "liberation"
       /\ a.k <= a.w /\ a.w > 2 /\ IsPrime(a.w)
       /\ a.packetsize # 0 /\ a.packetsize % word = 0
    \/ /\ a.tech = "blaum_roth"
       /\ a.k <= a.w /\ a.w > 2 /\ IsPrime(a.w + 1)
       /\ a.packetsize # 0 /\ a.packetsize % word = 0
    \/ /\ a.tech = "liber8tion"
       /\ a.packetsize # 0 /\ a.w = 8 /\ a.m = 2 /\ a.k <= a.w

(* Number of read-ins, buffer size and block size that follow.             *)
Layout(size, word, a) ==
    LET buffer  == ProperBuffersize(word, a)
        newsize == Newsize(size, word, a)
    IN  IF SeveralReadIns(size, word, a)
        THEN [readins |-> newsize \div buffer, buffersize |-> buffer,
              blocksize |-> buffer \div a.k, newsize |-> newsize]
        ELSE [readins |-> 1, buffersize |-> size,
              blocksize |-> newsize \div a.k, newsize |-> newsize]

=============================================================================
