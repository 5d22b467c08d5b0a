----------------------------- MODULE Utilities ------------------------------
(***************************************************************************)
(* The parts of the repository beside its coders, none of which calls      *)
(* another: the buffers, tables and pool of sim_buffer.c, each used by one *)
(* thread, and the concurrent write test.  A behaviour is one of them,     *)
(* chosen at the start; the state of the others stays as it is.            *)
(***************************************************************************)
EXTENDS PageBuffer, KvTables, BlockPool, WriteTest

VARIABLE used

uvars == <<used, bvars, kvars, bpvars, wvars>>

UtilitiesInit ==
    /\ used \in {"buffers", "tables", "pool", "write test"}
    /\ PBInit /\ KVInit /\ BPInit /\ WTInit
    \* what is not used starts in one way only
    /\ used # "tables" => Junk \notin {table2[s] : s \in DOMAIN table2}
    /\ used # "write test" => options = CHOOSE o \in Started \X Modes : TRUE

BufferStep == used = "buffers" /\ PBNext /\ UNCHANGED <<used, kvars, bpvars, wvars>>
TableStep == used = "tables" /\ KVNext /\ UNCHANGED <<used, bvars, bpvars, wvars>>
PoolStep == used = "pool" /\ BPNext /\ UNCHANGED <<used, bvars, kvars, wvars>>

\* A process of the write test takes a step.
TestProcess(Step) == used = "write test" /\ Step /\ UNCHANGED <<used, bvars, kvars, bpvars>>

UtilitiesNext == BufferStep \/ TableStep \/ PoolStep \/ TestProcess(WTNext)

\* The scheduler of the operating system runs every process of a write test.
UtilitiesFairness ==
    \A t \in Testers :
        /\ WF_uvars(TestProcess(MainStep(t)))
        /\ \A p \in Processes : WF_uvars(TestProcess(ChildStep(t, p)))

UtilitiesSpec == UtilitiesInit /\ [][UtilitiesNext]_uvars /\ UtilitiesFairness

\* A test ends (main, test_write.c:573): whatever is killed or fails, every
\* tester counts, refuses its options or crashes in the end; waiting for the
\* process id -1 of a failed fork never blocks it.
TestEnds ==
    used = "write test" => <>(\A t \in Testers : main[t].pc \in {"exited", "refused", "crashed"})

=============================================================================
