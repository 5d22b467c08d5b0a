------------------------------- MODULE Coders -------------------------------
(***************************************************************************)
(* The coders that share the size arithmetic of CoderSizes, side by side:  *)
(* the whole-file coder of jerasure/Examples and the three forks of it.  A *)
(* directory of device files belongs to one of them, chosen at the start;  *)
(* the state of the others stays as it is.                                 *)
(***************************************************************************)
EXTENDS FileCoder, PositionalStore

WholeFile == "whole-file"

cvars == <<fvars, pvars>>

CodersInit == FileInit /\ PositionalInit

WholeFileStep == program = WholeFile /\ FileNext /\ UNCHANGED pvars
ForkStep == program # WholeFile /\ PositionalNext /\ UNCHANGED fvars

CodersNext == WholeFileStep \/ ForkStep

CodersSpec == CodersInit /\ [][CodersNext]_cvars

=============================================================================
