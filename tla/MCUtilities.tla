---------------------------- MODULE MCUtilities -----------------------------
EXTENDS Utilities, TLC

CONSTANTS ka, kb, kc

\* two keys with the last slot for their home, one with the first
MCHash == [key \in Keys |-> IF key \in {ka, kb} THEN Slots - 1 ELSE 0]

\* two testers with a process each, and one with two
MCStarted == {<<1, 1>>, <<2, 0>>}
=============================================================================
