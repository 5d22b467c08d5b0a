----------------------------- MODULE IncrSystem -----------------------------
(***************************************************************************)
(* The incremental store in use: encoder processes and the decoder work on *)
(* the same files, and parity files get lost.                              *)
(***************************************************************************)
EXTENDS EncoderProcesses

CONSTANTS
    K,              \* number of data disks
    Exclusive,      \* does the operator keep encoders and decoder apart?
    MaxLosses,      \* bound: parity files that are lost
    MaxDecodes      \* bound: runs of the decoder

\* The hard-coded matrix has 3 rows of 10; the decoder needs disks 1 and 2.
ASSUME SystemAssumption ==
    /\ K \in 2..10 /\ M \in 1..3
    /\ Exclusive \in BOOLEAN
    /\ MaxLosses \in Nat /\ MaxDecodes \in Nat

VARIABLES dpc, dn, drow, got, lost, solved, decoded, losses, decodes

D == INSTANCE IncrDecoder WITH Junk <- E!Junk

dvars == <<dpc, dn, drow, got, lost, solved, decoded>>
env == <<losses, decodes>>
sysvars == <<evars, dvars, env>>

SysInit == EncodersInit /\ D!Init /\ losses = 0 /\ decodes = 0

NoEncoder == \A p \in Procs : ~Running(p)

Encode ==
    /\ EncodersNext
    /\ Exclusive => dpc = "idle"
    /\ UNCHANGED <<dvars, env>>

\* The decoder is pointed at a metadata file that exists.
BeginDecode ==
    /\ Exclusive => NoEncoder
    /\ decodes < MaxDecodes
    /\ \E d \in Disks : meta[d] > 0
    /\ D!DStart
    /\ decodes' = decodes + 1
    /\ UNCHANGED <<evars, losses>>

Decode == D!DStep /\ UNCHANGED <<evars, env>>

\* A parity file is lost while nobody uses the store.
Lose(i) ==
    /\ NoEncoder /\ dpc = "idle"
    /\ losses < MaxLosses
    /\ mfile[i] # <<>>
    /\ mfile' = [mfile EXCEPT ![i] = <<>>]
    /\ losses' = losses + 1
    /\ UNCHANGED <<kfile, stage, meta, runs, crashes, proc, last, overlapped,
                   dvars, decodes>>

SysNext ==
    \/ Encode
    \/ BeginDecode
    \/ Decode
    \/ \E i \in 1..M : Lose(i)

SysSpec == SysInit /\ [][SysNext]_sysvars

-----------------------------------------------------------------------------
\* "This program assumes that up to m erasures have occurred [...] It then
\* recreates the original" (van_decoder_incr.c:33-37): when the decoder ends,
\* the decoded files of the encoded disks are their k files, provided the two
\* lost disks and the lost parity files are no more than m; and when they are
\* more it has written nothing.  Encoders that ran at the same time or were
\* killed may have spoilt the parity, and a third disk is taken for zeros (IncrDecoder): there
\* only the refusal is promised.
DecoderRecovers ==
    [][(dpc # "idle" /\ dpc' = "idle" /\ ~overlapped /\ crashes = 0) =>
         IF 2 + Cardinality({i \in 1..M : mfile[i] = <<>>}) <= M
         THEN (\A d \in Disks \ {1, 2} : kfile[d] = <<>>) =>
                 \A d \in {1, 2} \cap Disks :
                    kfile[d] # <<>> => decoded'[d] = kfile[d]
         ELSE decoded' = [d \in {1, 2} |-> <<>>]]_sysvars
=============================================================================
