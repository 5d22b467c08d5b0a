----------------------------- MODULE PageBuffer -----------------------------
(***************************************************************************)
(* The two buffers of sim_buffer.c over pages of PageSize bytes: the chain *)
(* of pages (nf_buff_t) and the simple buffer on one page (nf_sbuff_t).    *)
(*                                                                         *)
(* Every byte a caller hands over is numbered; pages map places to the     *)
(* number of the byte they hold, 0 for a byte nobody set.  A write behind  *)
(* the end of a page is memory corruption: nothing is said of a buffer     *)
(* after it.                                                               *)
(***************************************************************************)
EXTENDS Integers, Sequences, FiniteSets, SequencesExt

CONSTANTS PageSize,     \* NF_PAGE_SIZE
          LineSize,     \* 1024, the line of buffer_printf
          Counts,       \* sizes callers ask for
          MaxCallsPB    \* bound: calls

ASSUME PageBufferAssumption ==
    PageSize \in Nat \ {0} /\ LineSize \in Nat \ {0} /\ Counts \subseteq Nat

VARIABLES chain,        \* the pages of the chain, in order
          blen, boff,   \* its len and off
          puts,         \* history: for each call that put bytes, which ones
          sbuf,         \* the simple buffer: page, len, off, and ptr as an
                        \* offset into the page; NoPage if not initialised
          queued,       \* history: bytes pushed and not popped
          fresh,        \* number of the next byte
          overrun,      \* history: the buffer a byte was written behind a page of
          pbcalls

bvars == <<chain, blen, boff, puts, sbuf, queued, fresh, overrun, pbcalls>>

Least(a, b) == IF a < b THEN a ELSE b
EmptyPage == [i \in 1..PageSize |-> 0]
NoPage == [page |-> <<>>, len |-> 0, off |-> 0, ptr |-> 0]
NewBytes(n) == [i \in 1..n |-> fresh + i - 1]

\* bytes written to a page from a place on, as far as the page goes
Written(page, place, bytes) ==
    [i \in 1..PageSize |-> IF i > place /\ i <= place + Len(bytes)
                           THEN bytes[i - place] ELSE page[i]]

PBInit ==
    /\ chain = <<>> /\ blen = 0 /\ boff = 0 /\ puts = <<>>
    /\ sbuf = NoPage /\ queued = <<>>
    /\ fresh = 1 /\ overrun = "none" /\ pbcalls = 0

Call == overrun = "none" /\ pbcalls < MaxCallsPB /\ pbcalls' = pbcalls + 1

------------------------------------------------------------------------------
(* The chain.  Every call expands it by a page, whatever room is left.     *)

\* count bytes put at last, the beginning of the new page
Put(pages, count, bytes) ==
    LET len == blen + PageSize * (Len(pages) - Len(chain))
        n   == Least(len - boff, count)
        got == SubSeq(bytes, 1, n)
    IN  /\ chain' = [pages EXCEPT ![Len(pages)] = Written(@, 0, got)]
        /\ blen' = len
        /\ boff' = boff + n
        /\ puts' = Append(puts, got)
        /\ fresh' = fresh + n
        /\ overrun' = IF n > PageSize THEN "chain" ELSE "none"

\* get_free_block may find no memory
NoMemory == UNCHANGED <<chain, blen, boff, puts, fresh, overrun>>

Expanded == Append(chain, EmptyPage)

buffer_copy(count) ==
    /\ Call
    /\ Put(Expanded, count, NewBytes(count)) \/ NoMemory
    /\ UNCHANGED <<sbuf, queued>>

\* read() may return fewer bytes than there is room for, none, or fail
buffer_read(count) ==
    /\ Call
    /\ (\E r \in 0..count : Put(Expanded, r, NewBytes(r))) \/ NoMemory
    /\ UNCHANGED <<sbuf, queued>>

\* vsnprintf returns the length of the whole text, of which size - 1 bytes
\* are in the line; both buffer_printf and the buffer_copy it calls expand.
buffer_printf(size, text) ==
    /\ Call
    /\ IF size > LineSize \/ text = 0 THEN NoMemory
       ELSE \/ NoMemory
            \/ /\ chain' = Expanded
               /\ blen' = blen + PageSize
               /\ UNCHANGED <<boff, puts, fresh, overrun>>
            \/ Put(Append(Expanded, EmptyPage), text,
                   [i \in 1..text |-> IF i < size THEN fresh + i - 1 ELSE 0])
    /\ UNCHANGED <<sbuf, queued>>

free_buffer ==
    /\ Call
    /\ chain' = <<>> /\ blen' = 0 /\ boff' = 0 /\ puts' = <<>>
    /\ UNCHANGED <<sbuf, queued, fresh, overrun>>

\* buffer2iovec: the entries there is room for, the entries filled in, and the
\* lengths, of which the last one allocated is corrected
IovecRoom == boff \div PageSize + 1
IovecCount == Len(chain)

IovecLen(i) == IF i = IovecRoom THEN boff % PageSize ELSE PageSize

\* what writev sends
Sent == FlattenSeq([i \in 1..IovecCount |-> SubSeq(chain[i], 1, IovecLen(i))])

------------------------------------------------------------------------------
(* The simple buffer                                                       *)

init_simple_buff ==
    /\ Call
    /\ sbuf = NoPage
    /\ sbuf' \in {NoPage, [page |-> EmptyPage, len |-> PageSize, off |-> 0, ptr |-> 0]}
    /\ queued' = <<>>
    /\ UNCHANGED <<chain, blen, boff, puts, fresh, overrun>>

free_simple_buff ==
    /\ Call
    /\ sbuf # NoPage
    /\ sbuf' = NoPage
    /\ queued' = <<>>
    /\ UNCHANGED <<chain, blen, boff, puts, fresh, overrun>>

\* bytes written behind what is there, of which `pushed` are taken as there
Push(bytes, pushed) ==
    /\ sbuf' = [sbuf EXCEPT !.page = Written(@, sbuf.ptr + sbuf.off, bytes),
                            !.off = @ + pushed]
    /\ queued' = queued \o SubSeq(bytes, 1, Least(pushed, Len(bytes)))
    /\ fresh' = fresh + pushed
    /\ overrun' = IF sbuf.ptr + sbuf.off + Len(bytes) > PageSize
                   THEN "simple" ELSE "none"
    /\ UNCHANGED <<chain, blen, boff, puts>>

SameSimple == UNCHANGED <<chain, blen, boff, puts, sbuf, queued, fresh, overrun>>

\* Nothing is read while there are bytes to process.
MayRead == sbuf.off = 0

sbuffer_read(count) ==
    /\ Call
    /\ sbuf # NoPage
    /\ IF MayRead
       THEN \E r \in 0..Least(sbuf.len - sbuf.off, count) : Push(NewBytes(r), r)
       ELSE SameSimple

\* The size is compared without sign: a negative rest is a large one.  The
\* length of the whole text is pushed, also when it was cut short.
sbuffer_printf(size, text) ==
    LET rest == sbuf.len - sbuf.off
        left == IF rest < 0 THEN size ELSE Least(rest, size)
    IN  /\ Call
        /\ sbuf # NoPage
        /\ IF rest = 0 THEN SameSimple
           ELSE IF left = 0
           THEN /\ sbuf' = [sbuf EXCEPT !.off = @ + text]
                /\ UNCHANGED <<chain, blen, boff, puts, queued, fresh, overrun>>
           ELSE Push(IF text < left THEN Append(NewBytes(text), 0)
                     ELSE Append(NewBytes(left - 1), 0), text)

\* callers pop what they have processed
Mutant_sbuffer_pop(count) ==
    /\ Call
    /\ sbuf # NoPage /\ count <= Len(queued)
    /\ sbuf' = [sbuf EXCEPT !.off = @ - count, !.ptr = @ + count]
    /\ queued' = SubSeq(queued, count + 1, Len(queued))
    /\ UNCHANGED <<chain, blen, boff, puts, fresh, overrun>>

sbuffer_pop(count) ==
    /\ Call
    /\ sbuf # NoPage /\ count <= Len(queued)
    /\ sbuf' = [sbuf EXCEPT !.len = @ - count, !.off = @ - count, !.ptr = @ + count]
    /\ queued' = SubSeq(queued, count + 1, Len(queued))
    /\ UNCHANGED <<chain, blen, boff, puts, fresh, overrun>>

PBNext ==
    \/ \E c \in Counts : \/ buffer_copy(c) \/ buffer_read(c)
                         \/ sbuffer_read(c) \/ sbuffer_pop(c)
    \/ \E s, t \in Counts : buffer_printf(s, t) \/ sbuffer_printf(s, t)
    \/ free_buffer \/ init_simple_buff \/ free_simple_buff

PBSpec == PBInit /\ [][PBNext]_bvars

------------------------------------------------------------------------------
(* Property *)

\* every call but the last filled its page, none got more than a page, and
\* there is a page for each
PageByPage ==
    /\ Len(puts) = Len(chain)
    /\ \A i \in DOMAIN puts : IF i < Len(puts) THEN Len(puts[i]) = PageSize
                              ELSE Len(puts[i]) <= PageSize

\* buffer2iovec (sim_buffer.c:149): if the bytes were put in page by page, what
\* writev sends are exactly these bytes in order, also when the last page is
\* full, and the entries filled in fit the entries allocated; and no byte is
\* written behind a page before a caller hands over more than a page.
ChainIsSent ==
    /\ PageByPage => Sent = FlattenSeq(puts) /\ IovecCount <= IovecRoom
    /\ (overrun # "chain" /\ \A i \in DOMAIN puts : Len(puts[i]) <= PageSize)
          => boff = Len(FlattenSeq(puts)) /\ boff <= blen /\ blen = PageSize * Len(chain)

\* sbuffer_pop, sbuffer_push (sim_buffer.c:225): pointer, length and offset of
\* the simple buffer move together, so that as long as every text fitted, the
\* bytes between ptr and ptr + off are those pushed and not yet popped, in
\* order, and the room left is the rest of the page.
SimpleIsQueue ==
    (sbuf # NoPage /\ sbuf.off = Len(queued)) =>
        /\ overrun # "simple"
        /\ sbuf.ptr + sbuf.len = PageSize
        /\ SubSeq(sbuf.page, sbuf.ptr + 1, sbuf.ptr + sbuf.off) = queued

\* Both buffers hand on the bytes put in, in order.
BytesInOrder == ChainIsSent /\ SimpleIsQueue

=============================================================================
