----------------------------- MODULE WriteTest ------------------------------
(***************************************************************************)
(* test_write.c: a test of a file system by processes that write blocks at *)
(* random places of a file each, and read them back.  The main process of  *)
(* a test (a tester) sets up a table of results in shared memory, forks    *)
(* the processes, waits for them and counts the failures in the table.     *)
(*                                                                         *)
(* Two testers started with the same -file use the same files, one for     *)
(* each process number, and the same key of the shared memory.             *)
(* The file system and the shared memory are external: they are modelled   *)
(* from the calls made.  A step is a system call with what follows it.     *)
(***************************************************************************)
EXTENDS Integers, Sequences, FiniteSets, SequencesExt

CONSTANTS Testers,
          Processes,    \* process numbers
          Started,      \* what -process can be: functions from testers to Nat
          Loop,         \* -loop
          FileBytes,    \* file_mb
          BlockMax,     \* RANDOM_BLOCK_SIZE
          Modes,        \* check modes: "total", "partial", "random"
          MaxMishaps    \* bound: things that go wrong outside of the test

ASSUME WriteTestAssumption ==
    /\ Loop \in Nat \ {0} /\ FileBytes \in Nat \ {0} /\ BlockMax \in Nat \ {0, 1}
    /\ Started \subseteq [Testers -> Nat]
    /\ \A s \in Started : \A t \in Testers : 0..(s[t] - 1) \subseteq Processes
    /\ Modes \subseteq {"total", "partial", "random"}

VARIABLES nbProcess, ckeck_mode,
          main,         \* of a tester: pc, shmid, proc, failures
          child,        \* of a tester and a number: pc, fd, count, compare, res
          shmkey, segment,  \* shared memory: the segment with the key, 0 if
                        \* none; of a segment: whether it exists, who is
                        \* attached, and the table
          name, inode,  \* the inode of a file name, 0 if none; their contents
          mishaps,
          crossed,      \* history: did the set-ups of two testers overlap?
          met           \* history: numbers two running processes shared

wvars == <<nbProcess, ckeck_mode, main, child, shmkey, segment, name, inode,
           mishaps, crossed, met>>
disk == <<name, inode>>
memory == <<shmkey, segment>>
options == <<nbProcess, ckeck_mode>>

ReadBuffer == 0..(FileBytes + BlockMax - 1)
Blank == [i \in ReadBuffer |-> 0]
Unforked == [pc |-> "none", fd |-> 0, count |-> 0, compare |-> Blank, res |-> 0]

WTInit ==
    /\ nbProcess \in Started /\ ckeck_mode \in Modes
    /\ main = [t \in Testers |-> [pc |-> "options", shmid |-> 0, proc |-> 0, failures |-> 0]]
    /\ child = [t \in Testers |-> [p \in Processes |-> Unforked]]
    /\ shmkey = 0 /\ segment = <<>>
    /\ name = [p \in Processes |-> 0] /\ inode = <<>>
    /\ mishaps = 0 /\ crossed = FALSE /\ met = {}

Mishap == mishaps < MaxMishaps /\ mishaps' = mishaps + 1

------------------------------------------------------------------------------
(* The main process                                                        *)

SettingUp(t) == main[t].pc \in {"remove", "create", "attach"}
Main(t, from, to) ==
    /\ main[t].pc = from
    /\ main' = [main EXCEPT ![t] = to]
    /\ crossed' = \/ crossed
                   \/ /\ SettingUp(t) \/ from = "options"
                      /\ \E u \in Testers \ {t} : SettingUp(u)
    /\ UNCHANGED options

At(t, pc) == [main[t] EXCEPT !.pc = pc]
Removed(id) == [segment EXCEPT ![id].exists = @ /\ segment[id].attached # {}]

BadOption(t) ==
    /\ nbProcess[t] = 0
    /\ Main(t, "options", At(t, "refused"))
    /\ UNCHANGED <<child, memory, disk, mishaps, met>>

\* shmget without IPC_CREAT
LookUp(t) ==
    /\ nbProcess[t] > 0
    /\ Main(t, "options", [At(t, IF shmkey = 0 THEN "create" ELSE "remove") EXCEPT !.shmid = shmkey])
    /\ UNCHANGED <<child, memory, disk, mishaps, met>>

Mutant_RemoveOld(t) ==
    /\ Main(t, "remove", At(t, "create"))
    /\ UNCHANGED <<child, memory, disk, mishaps, met>>

RemoveOld(t) ==
    /\ Main(t, "remove", At(t, "create"))
    /\ shmkey' = IF shmkey = main[t].shmid THEN 0 ELSE shmkey
    /\ segment' = Removed(main[t].shmid)
    /\ UNCHANGED <<child, disk, mishaps, met>>

NoSegment(t) ==
    /\ Main(t, "create", At(t, "refused")) /\ Mishap
    /\ UNCHANGED <<child, memory, disk, met>>

Table(t) == [p \in 0..(nbProcess[t] - 1) |-> 0]

\* shmget with IPC_CREAT takes what is there, if it is large enough.
Create(t) ==
    /\ main[t].pc = "create"
    /\ IF shmkey = 0
       THEN /\ Main(t, "create", [At(t, "attach") EXCEPT !.shmid = Len(segment) + 1])
            /\ shmkey' = Len(segment) + 1
            /\ segment' = Append(segment, [exists |-> TRUE, attached |-> {}, result |-> Table(t)])
       ELSE /\ IF DOMAIN Table(t) \subseteq DOMAIN segment[shmkey].result
               THEN Main(t, "create", [At(t, "attach") EXCEPT !.shmid = shmkey])
               ELSE Main(t, "create", At(t, "refused"))
            /\ UNCHANGED memory
    /\ UNCHANGED <<child, disk, mishaps, met>>

\* memset of what the tester asked for
Zeroed(t, result) ==
    [p \in DOMAIN result |-> IF p \in DOMAIN Table(t) THEN 0 ELSE result[p]]

\* shmat fails with -1, which is not compared with: memset ends the process.
Attach(t) ==
    /\ main[t].pc = "attach"
    /\ IF segment[main[t].shmid].exists
       THEN /\ Main(t, "attach", At(t, "fork"))
            /\ segment' = [segment EXCEPT ![main[t].shmid].attached = @ \cup {t},
                               ![main[t].shmid].result = Zeroed(t, @)]
       ELSE Main(t, "attach", At(t, "crashed")) /\ UNCHANGED segment
    /\ UNCHANGED <<child, shmkey, disk, mishaps, met>>

\* the next number, and what comes after the last
NextProc(t, pc) == IF main[t].proc + 1 < nbProcess[t]
                   THEN [main[t] EXCEPT !.proc = @ + 1]
                   ELSE [main[t] EXCEPT !.proc = 0, !.pc = pc]

Running(t, p) == child[t][p].pc \notin {"none", "ended", "killed", "reaped"}

\* A fork that fails leaves -1 for a process id.
Fork(t) ==
    LET p == main[t].proc
    IN  /\ Main(t, "fork", NextProc(t, "wait"))
        /\ \/ /\ child' = [child EXCEPT ![t][p].pc = "unlink"]
              /\ met' = met \cup {q \in {p} : \E u \in Testers \ {t} : Running(u, q)}
              /\ UNCHANGED mishaps
           \/ Mishap /\ UNCHANGED <<child, met>>
        /\ UNCHANGED <<memory, disk>>

Ended(t) == {p \in Processes : child[t][p].pc \in {"ended", "killed"}}
Awaited(t) == {p \in Processes : child[t][p].pc \notin {"none", "reaped"}}

Mutant_MayWait(t, p) == child[t][p].pc \in {"none", "ended", "reaped"}

\* what waitpid can return with: the process asked for, which may have been
\* reaped already; any process, if the process id is -1
MayWait(t, p) ==
    IF child[t][p].pc = "none" THEN Awaited(t) = {} \/ Ended(t) # {}
    ELSE p \in Ended(t) \/ child[t][p].pc = "reaped"

Reaped(t, p) == IF p \in Ended(t) THEN {p} ELSE IF child[t][p].pc = "none" THEN Ended(t) ELSE {}

Wait(t) ==
    LET p == main[t].proc
    IN  /\ Main(t, "wait", NextProc(t, "count")) /\ MayWait(t, p)
        /\ IF Reaped(t, p) = {} THEN UNCHANGED child
           ELSE \E q \in Reaped(t, p) : child' = [child EXCEPT ![t][q].pc = "reaped"]
        /\ UNCHANGED <<memory, disk, mishaps, met>>

\* exit detaches the segment
Count(t) ==
    LET id == main[t].shmid
    IN  /\ Main(t, "count", [At(t, "exited") EXCEPT !.failures =
                    Cardinality({p \in DOMAIN Table(t) : segment[id].result[p] # 0})])
        /\ shmkey' = IF shmkey = id THEN 0 ELSE shmkey
        /\ segment' = [segment EXCEPT ![id].attached = @ \ {t},
                                      ![id].exists = segment[id].attached # {t}]
        /\ UNCHANGED <<child, disk, mishaps, met>>

MainStep(t) ==
    \/ BadOption(t) \/ LookUp(t) \/ RemoveOld(t) \/ Create(t) \/ NoSegment(t)
    \/ Attach(t) \/ Fork(t) \/ Wait(t) \/ Count(t)

------------------------------------------------------------------------------
(* A process: loop_test_process                                            *)

Child(t, p, from, to) ==
    /\ child[t][p].pc = from
    /\ child' = [child EXCEPT ![t][p] = to]
    /\ UNCHANGED <<options, main, crossed, met>>

With(t, p, pc, fd) == [child[t][p] EXCEPT !.pc = pc, !.fd = fd]
Returns(t, p, r) == [child[t][p] EXCEPT !.pc = "report", !.res = r]

\* malloc, unlink, open, pwrite, pread or close may fail.
SystemCallFails(t, p) ==
    /\ child[t][p].pc \in {"unlink", "open", "write", "reopen", "check", "close"}
    /\ Child(t, p, child[t][p].pc, Returns(t, p, -1))
    /\ Mishap
    /\ UNCHANGED <<memory, disk>>

Mutant_Unlink(t, p) ==
    /\ Child(t, p, "unlink", With(t, p, "open", 0))
    /\ UNCHANGED <<memory, disk, mishaps>>

Unlink(t, p) ==
    /\ Child(t, p, "unlink", With(t, p, "open", 0))
    /\ name' = [name EXCEPT ![p] = 0]
    /\ UNCHANGED <<memory, inode, mishaps>>

OpenNew(t, p) ==
    /\ child[t][p].pc = "open"
    /\ IF name[p] = 0
       THEN /\ name' = [name EXCEPT ![p] = Len(inode) + 1]
            /\ inode' = Append(inode, <<>>)
       ELSE UNCHANGED disk
    /\ Child(t, p, "open", With(t, p, "write", IF name[p] = 0 THEN Len(inode) + 1 ELSE name[p]))
    /\ UNCHANGED <<memory, mishaps>>

\* the block, from a place on: no byte of a block is 0
Overwritten(bytes, offset, size) ==
    [i \in 1..(IF Len(bytes) > offset + size THEN Len(bytes) ELSE offset + size) |->
        IF i > offset /\ i <= offset + size THEN i - offset
        ELSE IF i <= Len(bytes) THEN bytes[i] ELSE 0]

Expected(compare, offset, size) ==
    [i \in ReadBuffer |-> IF i >= offset /\ i < offset + size THEN i - offset + 1 ELSE compare[i]]

\* The file system under test may answer that it wrote and lose the block.
Write(t, p) ==
    \E offset \in 0..(FileBytes - 1), size \in 1..(BlockMax - 1) :
        /\ Child(t, p, "write", [child[t][p] EXCEPT !.pc = "reopen", !.count = @ + 1,
                                     !.compare = Expected(@, offset, size)])
        /\ \/ /\ inode' = [inode EXCEPT ![child[t][p].fd] = Overwritten(@, offset, size)]
              /\ UNCHANGED mishaps
           \/ Mishap /\ UNCHANGED inode
        /\ UNCHANGED <<memory, name>>

\* close, and open without O_CREAT
Reopen(t, p, from, to) ==
    /\ Child(t, p, from, IF name[p] = 0 THEN Returns(t, p, -1) ELSE With(t, p, to, name[p]))
    /\ UNCHANGED <<memory, disk, mishaps>>

\* do_total_read_and_check, do_partial_read_and_check: all of what is read, or
\* all of what was written; do_random_read_and_check: some range, where what
\* cannot be read is 0
Content(t, p, i) ==
    LET bytes == inode[child[t][p].fd] IN IF i < Len(bytes) THEN bytes[i + 1] ELSE 0
Agrees(t, p, range) == \A i \in range : Content(t, p, i) = child[t][p].compare[i]
Read(t, p) == {i \in ReadBuffer : i < Len(inode[child[t][p].fd])}
Ranges(t, p) ==
    CASE ckeck_mode = "total"   -> {Read(t, p)}
      [] ckeck_mode = "partial" -> {{i \in ReadBuffer : child[t][p].compare[i] # 0}}
      [] ckeck_mode = "random"  -> {o..(o + s - 1) : o \in 0..(FileBytes - 1), s \in 1..(BlockMax - 1)}

Check(t, p) ==
    /\ child[t][p].pc = "check"
    /\ \E range \in Ranges(t, p) :
           Child(t, p, "check",
               IF ~ Agrees(t, p, range) \/ (ckeck_mode = "total" /\ range = {})
               THEN Returns(t, p, -1)
               ELSE IF child[t][p].count = Loop THEN Returns(t, p, 0)
               ELSE With(t, p, "close", child[t][p].fd))
    /\ UNCHANGED <<memory, disk, mishaps>>

Report(t, p) ==
    /\ Child(t, p, "report", [child[t][p] EXCEPT !.pc = "ended"])
    /\ segment' = [segment EXCEPT ![main[t].shmid].result[p] = child[t][p].res]
    /\ UNCHANGED <<shmkey, disk, mishaps>>

Killed(t, p) ==
    /\ Running(t, p)
    /\ Child(t, p, child[t][p].pc, [child[t][p] EXCEPT !.pc = "killed", !.res = 0])
    /\ Mishap
    /\ UNCHANGED <<memory, disk>>

ChildStep(t, p) ==
    \/ Unlink(t, p) \/ OpenNew(t, p) \/ Write(t, p)
    \/ Reopen(t, p, "reopen", "check") \/ Check(t, p) \/ Reopen(t, p, "close", "write")
    \/ Report(t, p)

WTNext ==
    \E t \in Testers :
        \/ MainStep(t)
        \/ \E p \in Processes : ChildStep(t, p) \/ SystemCallFails(t, p) \/ Killed(t, p)

WTSpec == WTInit /\ [][WTNext]_wvars

------------------------------------------------------------------------------
(* Properties *)

\* main (test_write.c:573): unless the set-ups of two testers overlapped, the
\* failures a tester prints are exactly those its processes returned, killed
\* and unforked ones counting as passed, although testers share the key and
\* the later one removes the segment of the earlier; and nothing is counted
\* before every process has ended.
CountsOwnFailures ==
    \A t \in Testers : main[t].pc = "exited" =>
        /\ \A p \in Processes : ~ Running(t, p)
        /\ ~ crossed => main[t].failures =
                Cardinality({p \in Processes : child[t][p].pc = "reaped" /\ child[t][p].res = -1})

\* do_one_test (test_write.c:361): as long as no process with the same number
\* of another tester ran at the same time, a process fails only if something
\* went wrong, and one that passed in the modes that check all of the file
\* found it as it should be, also if blocks were lost.
OutcomesTrue ==
    \A t \in Testers, p \in Processes \ met :
        /\ mishaps = 0 => child[t][p].res = 0
        /\ (child[t][p].pc = "report" /\ child[t][p].res = 0) =>
               /\ ckeck_mode = "partial" => Agrees(t, p, ReadBuffer)
               /\ ckeck_mode = "total" => Agrees(t, p, Read(t, p))

=============================================================================
