------------------------------ MODULE KvTables ------------------------------
(***************************************************************************)
(* The two open-addressing tables of sim_buffer.c: nf_kvtb_t, whose slots  *)
(* point to the caller's pairs, and nf_kvtb2_t, whose slots hold key and   *)
(* value.  A key is a model value; Hash gives its home slot.               *)
(*                                                                         *)
(* Nothing removes the mark of a deleted pair, and a lookup that meets one *)
(* reads through it: the process ends there (crashed).                     *)
(***************************************************************************)
EXTENDS Integers, FiniteSets

CONSTANTS Keys, EmptyKey,   \* EmptyKey is the key of length 0
          Hash,             \* hash: the home slot of a key
          Values,
          Slots,            \* NF_KVT_HASH_LEN
          MaxCallsKV        \* bound: calls

ASSUME KvTablesAssumption ==
    /\ Slots \in Nat \ {0}
    /\ EmptyKey \in Keys
    /\ Keys \cap {"null", "deleted", "junk"} = {}    \* stand for what is no key
    /\ Hash \in [Keys -> 0..(Slots - 1)]

VARIABLES table,    \* slots of the table of pointers: a pair, NULL or DELETED
          pairs,    \* history: pairs inserted into it and not deleted
          table2,   \* slots of the table of values
          wanted,   \* history: what was inserted last under a key
          kvn,      \* the fields n of both tables
          crashed,  \* history: did a lookup read through a mark?
          kvcalls

kvars == <<table, pairs, table2, wanted, kvn, crashed, kvcalls>>

Pairs == [key : Keys, val : Values]
NULL == [key |-> "null", val |-> "null"]
DELETED == [key |-> "deleted", val |-> "deleted"]
Junk == [key |-> "junk", val |-> "junk"]

\* the slot looked at after d others
Probe(key, d) == (Hash[key] + d) % Slots

\* what the home slot leads to: the number of slots passed before the first
\* that ends the search, Slots if there is none
Passed(key, Ends(_)) ==
    LET ends == {d \in 0..(Slots - 1) : Ends(Probe(key, d))}
    IN  IF ends = {} THEN Slots ELSE CHOOSE d \in ends : \A e \in ends : d <= e

------------------------------------------------------------------------------
(* The table of pointers                                                   *)

\* _hash_lookup as its callers call it, with a place for the slot
Stops(key, s) == table[s] \in {NULL, DELETED} \/ table[s].key = key
Lookup(key) ==
    LET d == Passed(key, LAMBDA s : Stops(key, s))
    IN  IF d = Slots THEN [ret |-> -1, slot |-> 0]
        ELSE [ret |-> IF table[Probe(key, d)] = NULL THEN 0
                      ELSE IF table[Probe(key, d)] = DELETED THEN 2 ELSE 1,
              slot |-> Probe(key, d)]

Calling == ~ crashed /\ kvcalls < MaxCallsKV /\ kvcalls' = kvcalls + 1
Crashes(key) == crashed' = (Lookup(key).ret = 2)
SameTable2 == UNCHANGED <<table2, wanted>>

tb_insert(elm) ==
    /\ Calling /\ Crashes(elm.key) /\ SameTable2
    /\ IF Lookup(elm.key).ret = 0
       THEN /\ table' = [table EXCEPT ![Lookup(elm.key).slot] = elm]
            /\ pairs' = pairs \cup {elm}
            /\ kvn' = [kvn EXCEPT !.table = @ + 1]
       ELSE UNCHANGED <<table, pairs, kvn>>    \* NF_E_HT_FULL, NF_E_DUP_KEY

tb_find(key) == Calling /\ Crashes(key) /\ SameTable2 /\ UNCHANGED <<table, pairs, kvn>>

\* n is left as it is.
Mutant_tb_delete(key) ==
    /\ Calling /\ Crashes(key) /\ SameTable2
    /\ IF Lookup(key).ret = 1
       THEN /\ table' = [table EXCEPT ![Lookup(key).slot] = NULL]
            /\ pairs' = pairs \ {table[Lookup(key).slot]}
       ELSE UNCHANGED <<table, pairs>>
    /\ UNCHANGED kvn

tb_delete(key) ==
    /\ Calling /\ Crashes(key) /\ SameTable2
    /\ IF Lookup(key).ret = 1
       THEN /\ table' = [table EXCEPT ![Lookup(key).slot] = DELETED]
            /\ pairs' = pairs \ {table[Lookup(key).slot]}
       ELSE UNCHANGED <<table, pairs>>
    /\ UNCHANGED kvn

\* The loop never moves: only the home slot is looked at.
tb_delete2(elm) ==
    /\ Calling
    /\ IF table[Hash[elm.key]] = elm
       THEN /\ table' = [table EXCEPT ![Hash[elm.key]] = DELETED]
            /\ pairs' = pairs \ {elm}
       ELSE UNCHANGED <<table, pairs>>
    /\ UNCHANGED <<table2, wanted, kvn, crashed>>

init_kv_table ==
    /\ Calling
    /\ table' = [s \in 0..(Slots - 1) |-> NULL]
    /\ pairs' = {}
    /\ kvn' = [kvn EXCEPT !.table = 0]
    /\ UNCHANGED <<table2, wanted, crashed>>

------------------------------------------------------------------------------
(* The table of values                                                     *)

\* A slot whose key has length 0 is free.  The empty key is found in the
\* first free slot; a junk key may have the length of the key, and comparing
\* it reads through a junk pointer.
Free2(s) == table2[s].key = EmptyKey
Stops2(key, s) == Free2(s) \/ table2[s].key = key
Lookup2(key) ==
    LET d == Passed(key, LAMBDA s : Stops2(key, s))
    IN  IF d = Slots THEN [ret |-> -1, slot |-> 0]
        ELSE [ret |-> IF table2[Probe(key, d)].key = key THEN 1 ELSE 0,
              slot |-> Probe(key, d)]
MeetsJunk(key) ==
    \E e \in 0..(Passed(key, LAMBDA s : Stops2(key, s)) - 1) : table2[Probe(key, e)] = Junk
Crashes2(key) == crashed' \in {FALSE, MeetsJunk(key)}
SameTable == UNCHANGED <<table, pairs>>

\* An insert replaces the value of a key that is there, and counts all the same.
Stored2(slot, key, val) == [table2 EXCEPT ![slot] = [key |-> key, val |-> val]]

tb_insert2(key, val) ==
    /\ Calling /\ Crashes2(key) /\ SameTable
    /\ IF Lookup2(key).ret < 0 \/ crashed'
       THEN UNCHANGED <<table2, wanted, kvn>>
       ELSE /\ table2' = Stored2(Lookup2(key).slot, key, val)
            /\ wanted' = [wanted EXCEPT ![key] = {val}]
            /\ kvn' = [kvn EXCEPT !.table2 = @ + 1]

tb_find2(key) == Calling /\ Crashes2(key) /\ SameTable /\ UNCHANGED <<table2, wanted, kvn>>

\* memset clears the size of a key for each slot, half the table; the other
\* half keeps what the memory held: a pair of the table before, or junk.
FreeSlot == [key |-> EmptyKey, val |-> "none"]
Cleared(before) == [s \in 0..(Slots - 1) |-> IF s < Slots \div 2 THEN FreeSlot ELSE before[s]]

init_kv_table2 ==
    /\ Calling
    /\ table2' = Cleared(table2)
    /\ wanted' = [key \in Keys |-> {}]
    /\ kvn' = [kvn EXCEPT !.table2 = 0]
    /\ UNCHANGED <<table, pairs, crashed>>

KVInit ==
    /\ table = [s \in 0..(Slots - 1) |-> NULL] /\ pairs = {}
    /\ table2 \in {Cleared(t) : t \in [0..(Slots - 1) -> {FreeSlot, Junk}]}
    /\ wanted = [key \in Keys |-> {}]
    /\ kvn = [table |-> 0, table2 |-> 0] /\ crashed = FALSE /\ kvcalls = 0

KVNext ==
    \/ \E elm \in Pairs : tb_insert(elm) \/ tb_delete2(elm)
    \/ \E key \in Keys : tb_find(key) \/ tb_delete(key) \/ tb_find2(key)
    \/ \E key \in Keys, val \in Values : tb_insert2(key, val)
    \/ init_kv_table \/ init_kv_table2

KVSpec == KVInit /\ [][KVNext]_kvars

------------------------------------------------------------------------------
(* Property *)

\* _hash_lookup (sim_buffer.c:275), _hash_lookup2 (:383): in whatever order
\* pairs are inserted, deleted and the tables set up again, the search for a
\* pair that was inserted and not deleted ends at it or at the mark of a
\* deleted pair, never at a free slot; no key is in the table twice; and the
\* table of values gives every key the value it was inserted with last, also
\* over junk and stale pairs that its set-up left behind.
KeysFound ==
    /\ \A elm \in pairs : \/ Lookup(elm.key).ret = 2
                          \/ Lookup(elm.key).ret = 1 /\ table[Lookup(elm.key).slot] = elm
    /\ \A elm, other \in pairs : elm.key = other.key => elm = other
    /\ \A key \in Keys \ {EmptyKey} :
          wanted[key] # {} => /\ Lookup2(key).ret = 1
                              /\ table2[Lookup2(key).slot].val \in wanted[key]

=============================================================================
