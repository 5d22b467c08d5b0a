-------------------------- MODULE Utilities_proofs --------------------------
(***************************************************************************)
(* Theorems about the parts beside the coders: the two open-addressing     *)
(* tables, for every number of slots, every set of keys and every hash     *)
(* function; the block pool, for every size of a page, alignment, width of *)
(* a size and set of requests; the concurrent write test, for any number   *)
(* of testers and of processes, loops, sizes of a file and mishaps; the    *)
(* page buffers, for every size of a page and of what callers hand over;   *)
(* and the scheduler of a bitmatrix, for every size and every bitmatrix:   *)
(* the linked list is the set of rows to do, the row taken is a cheapest   *)
(* one that has not been done, the schedule fits into its array, and       *)
(* performing it computes the product of the bitmatrix and the data.       *)
(***************************************************************************)
EXTENDS Utilities, SmartSchedule, CommonLemmas, FiniteSetTheorems

Indexes == 0..(Slots - 1)

LEMMA ProbeIsIndex ==
    ASSUME NEW key \in Keys, NEW d \in Indexes PROVE Probe(key, d) \in Indexes
<1>1. Hash[key] \in Nat /\ d \in Nat /\ Slots \in Nat \ {0}
  BY KvTablesAssumption DEF Indexes
<1>2. (Hash[key] + d) % Slots \in 0..(Slots - 1)
  BY <1>1
<1>. QED  BY <1>2 DEF Probe, Indexes

-----------------------------------------------------------------------------
(* The table of pointers *)

\* A search passes the slots that do not stop it, up to the first that does.
LEMMA LookupMeets ==
    ASSUME NEW key \in Keys
    PROVE  \/ /\ Lookup(key).ret = -1
              /\ \A d \in Indexes : ~Stops(key, Probe(key, d))
           \/ \E d \in Indexes :
                 /\ Lookup(key).slot = Probe(key, d) /\ Stops(key, Probe(key, d))
                 /\ \A e \in 0..(d - 1) : ~Stops(key, Probe(key, e))
                 /\ Lookup(key).ret = IF table[Probe(key, d)] = NULL THEN 0
                                      ELSE IF table[Probe(key, d)] = DELETED THEN 2 ELSE 1
<1> DEFINE ends == {d \in Indexes : Stops(key, Probe(key, d))}
           least == CHOOSE d \in ends : \A e \in ends : d <= e
           d0 == Passed(key, LAMBDA s : Stops(key, s))
<1>1. d0 = IF ends = {} THEN Slots ELSE least
  BY DEF Passed, Indexes
<1>2. Slots \in Nat \ {0} /\ Slots \notin Indexes
  BY KvTablesAssumption DEF Indexes
<1>3. Lookup(key) = IF d0 = Slots THEN [ret |-> -1, slot |-> 0]
                    ELSE [ret |-> IF table[Probe(key, d0)] = NULL THEN 0
                                  ELSE IF table[Probe(key, d0)] = DELETED THEN 2 ELSE 1,
                          slot |-> Probe(key, d0)]
  BY DEF Lookup
<1> HIDE DEF d0
<1>4. CASE ends = {}
  BY <1>1, <1>3, <1>4
<1>5. CASE ends # {}
  <2>1. ends \in SUBSET Nat
    BY DEF Indexes
  <2>2. least \in ends /\ \A e \in ends : least <= e
    <3> HIDE DEF ends
    <3>. QED  BY <1>5, <2>1, LeastOf
  <2>3. d0 = least /\ d0 # Slots
    BY <1>1, <1>2, <1>5, <2>2
  <2>4. \A e \in 0..(d0 - 1) : ~Stops(key, Probe(key, e))
    <3>1. \A e \in 0..(d0 - 1) : e \in Indexes /\ ~(d0 <= e)
      BY <1>2, <2>2, <2>3 DEF Indexes
    <3> HIDE DEF least
    <3>. QED  BY <2>2, <2>3, <3>1
  <2>5. d0 \in Indexes /\ Stops(key, Probe(key, d0))
    <3> HIDE DEF least
    <3>. QED  BY <2>2, <2>3
  <2>6. /\ Lookup(key).slot = Probe(key, d0)
        /\ Lookup(key).ret = IF table[Probe(key, d0)] = NULL THEN 0
                             ELSE IF table[Probe(key, d0)] = DELETED THEN 2 ELSE 1
    BY <1>3, <2>3
  <2> HIDE DEF least, ends
  <2>. QED  BY <2>4, <2>5, <2>6
<1>. QED  BY <1>4, <1>5

\* The way to a pair leads over no free slot, and there is one way at most.
TableInv ==
    /\ table \in [Indexes -> Pairs \cup {NULL, DELETED}] /\ pairs \subseteq Pairs
    /\ \A s \in Indexes : table[s] \in Pairs => table[s] \in pairs
    /\ \A elm \in pairs : \E d \in Indexes :
          /\ table[Probe(elm.key, d)] = elm
          /\ \A e \in 0..(d - 1) : table[Probe(elm.key, e)] # NULL
    /\ \A s, t \in Indexes :
          table[s] \in Pairs /\ table[t] \in Pairs /\ table[s].key = table[t].key => s = t

LEMMA MarksAreNoPairs ==
    /\ NULL \notin Pairs /\ DELETED \notin Pairs /\ NULL # DELETED
    /\ \A elm \in Pairs : elm.key \in Keys
BY KvTablesAssumption DEF NULL, DELETED, Pairs

\* What a search comes to: nothing of the key is in the table, a mark, or the pair.
LEMMA LookupMeans ==
    ASSUME TableInv, NEW key \in Keys
    PROVE  /\ Lookup(key).ret \in {0, 1, 2} =>
                  /\ Lookup(key).slot \in Indexes
                  /\ \E d \in Indexes :
                        /\ Lookup(key).slot = Probe(key, d)
                        /\ \A e \in 0..(d - 1) : table[Probe(key, e)] # NULL
           /\ Lookup(key).ret = 0 => /\ table[Lookup(key).slot] = NULL
                                     /\ \A elm \in pairs : elm.key # key
           /\ Lookup(key).ret = 1 => /\ table[Lookup(key).slot] \in Pairs
                                     /\ table[Lookup(key).slot].key = key
           /\ \A elm \in pairs : elm.key = key =>
                  \/ Lookup(key).ret = 2
                  \/ Lookup(key).ret = 1 /\ table[Lookup(key).slot] = elm
<1>1. ASSUME NEW elm \in pairs, elm.key = key
      PROVE  \/ Lookup(key).ret = 2
             \/ Lookup(key).ret = 1 /\ table[Lookup(key).slot] = elm
  <2>1. PICK d \in Indexes : /\ table[Probe(key, d)] = elm
                             /\ \A e \in 0..(d - 1) : table[Probe(key, e)] # NULL
    BY <1>1 DEF TableInv
  <2>2. Stops(key, Probe(key, d))
    BY <1>1, <2>1 DEF Stops
  <2>3. PICK c \in Indexes :
           /\ Lookup(key).slot = Probe(key, c) /\ Stops(key, Probe(key, c))
           /\ \A e \in 0..(c - 1) : ~Stops(key, Probe(key, e))
           /\ Lookup(key).ret = IF table[Probe(key, c)] = NULL THEN 0
                                ELSE IF table[Probe(key, c)] = DELETED THEN 2 ELSE 1
    BY <2>2, LookupMeets
  <2>4. c <= d
    BY <2>2, <2>3 DEF Indexes
  <2>5. table[Probe(key, c)] # NULL
    BY <1>1, <2>1, <2>4, MarksAreNoPairs DEF Indexes, TableInv
  <2>6. CASE table[Probe(key, c)] = DELETED
    BY <2>3, <2>5, <2>6
  <2>7. CASE table[Probe(key, c)] # DELETED
    <3>1. Probe(key, c) \in Indexes /\ Probe(key, d) \in Indexes
      BY ProbeIsIndex
    <3>2. table[Probe(key, c)] \in Pairs /\ table[Probe(key, c)].key = key
      BY <2>3, <2>5, <2>7, <3>1 DEF TableInv, Stops
    <3>3. Probe(key, c) = Probe(key, d)
      BY <1>1, <2>1, <3>1, <3>2 DEF TableInv
    <3>. QED  BY <2>1, <2>3, <2>5, <2>7, <3>3
  <2>. QED  BY <2>6, <2>7
<1>2. ASSUME Lookup(key).ret \in {0, 1, 2}
      PROVE  \E d \in Indexes :
                 /\ Lookup(key).slot = Probe(key, d) /\ Stops(key, Probe(key, d))
                 /\ \A e \in 0..(d - 1) : ~Stops(key, Probe(key, e))
                 /\ Lookup(key).ret = IF table[Probe(key, d)] = NULL THEN 0
                                      ELSE IF table[Probe(key, d)] = DELETED THEN 2 ELSE 1
  BY <1>2, LookupMeets
<1>3. ASSUME Lookup(key).ret \in {0, 1, 2}
      PROVE  /\ Lookup(key).slot \in Indexes
             /\ \E d \in Indexes :
                   /\ Lookup(key).slot = Probe(key, d)
                   /\ \A e \in 0..(d - 1) : table[Probe(key, e)] # NULL
  BY <1>2, <1>3, ProbeIsIndex DEF Stops
<1>4. Lookup(key).ret = 0 => table[Lookup(key).slot] = NULL
  BY <1>2
<1>5. Lookup(key).ret = 1 => /\ table[Lookup(key).slot] \in Pairs
                             /\ table[Lookup(key).slot].key = key
  BY <1>2, <1>3 DEF Stops, TableInv
<1>. QED  BY <1>1, <1>3, <1>4, <1>5

\* Marking a slot takes the pair in it away, and none else.
LEMMA MarkingKeepsTable ==
    ASSUME TableInv, NEW s \in Indexes, table[s] \in Pairs,
           table' = [table EXCEPT ![s] = DELETED], pairs' = pairs \ {table[s]}
    PROVE  TableInv'
<1>1. /\ table' \in [Indexes -> Pairs \cup {NULL, DELETED}]
      /\ table'[s] = DELETED /\ \A t \in Indexes \ {s} : table'[t] = table[t]
      /\ pairs' \subseteq Pairs
  BY DEF TableInv
<1>2. \A t \in Indexes \ {s} : table[t] # table[s]
  BY DEF TableInv
<1>3. \A t \in Indexes : table'[t] \in Pairs => table'[t] \in pairs'
  BY <1>1, <1>2, MarksAreNoPairs DEF TableInv
<1>4. ASSUME NEW elm \in pairs'
      PROVE  \E d \in Indexes : /\ table'[Probe(elm.key, d)] = elm
                                /\ \A e \in 0..(d - 1) : table'[Probe(elm.key, e)] # NULL
  <2>1. elm \in pairs /\ elm # table[s] /\ elm.key \in Keys
    BY MarksAreNoPairs DEF TableInv
  <2>2. PICK d \in Indexes : /\ table[Probe(elm.key, d)] = elm
                             /\ \A e \in 0..(d - 1) : table[Probe(elm.key, e)] # NULL
    BY <2>1 DEF TableInv
  <2>3. \A e \in 0..d : Probe(elm.key, e) \in Indexes
    BY <2>1, ProbeIsIndex, KvTablesAssumption DEF Indexes
  <2>4. table'[Probe(elm.key, d)] = elm
    BY <1>1, <2>1, <2>2, ProbeIsIndex
  <2>5. \A e \in 0..(d - 1) : table'[Probe(elm.key, e)] # NULL
    BY <1>1, <2>2, <2>3, MarksAreNoPairs DEF Indexes
  <2>. QED  BY <2>4, <2>5
<1>5. \A t, u \in Indexes :
         table'[t] \in Pairs /\ table'[u] \in Pairs /\ table'[t].key = table'[u].key => t = u
  BY <1>1, MarksAreNoPairs DEF TableInv
<1>. QED  BY <1>1, <1>3, <1>4, <1>5 DEF TableInv

\* A pair put into the free slot that a search for its key ended at.
LEMMA InsertKeepsTable ==
    ASSUME TableInv, NEW elm \in Pairs, Lookup(elm.key).ret = 0,
           table' = [table EXCEPT ![Lookup(elm.key).slot] = elm], pairs' = pairs \cup {elm}
    PROVE  TableInv'
<1> DEFINE s == Lookup(elm.key).slot
<1>1. elm.key \in Keys
  BY MarksAreNoPairs
<1>2. /\ s \in Indexes /\ table[s] = NULL /\ \A other \in pairs : other.key # elm.key
      /\ \E d \in Indexes : /\ s = Probe(elm.key, d)
                            /\ \A e \in 0..(d - 1) : table[Probe(elm.key, e)] # NULL
  BY <1>1, LookupMeans
<1> HIDE DEF s
<1>3. /\ table' \in [Indexes -> Pairs \cup {NULL, DELETED}]
      /\ table'[s] = elm /\ \A t \in Indexes \ {s} : table'[t] = table[t]
      /\ pairs' \subseteq Pairs
  BY <1>2 DEF TableInv, s
<1>4. \A t \in Indexes : table'[t] \in Pairs => table'[t] \in pairs'
  BY <1>3 DEF TableInv
<1>5. ASSUME NEW key \in Keys, NEW e \in Indexes, table[Probe(key, e)] # NULL
      PROVE  table'[Probe(key, e)] # NULL
  BY <1>2, <1>3, <1>5, ProbeIsIndex
<1>6. ASSUME NEW other \in pairs'
      PROVE  \E d \in Indexes : /\ table'[Probe(other.key, d)] = other
                                /\ \A e \in 0..(d - 1) : table'[Probe(other.key, e)] # NULL
  <2>0. other.key \in Keys
    BY <1>3, MarksAreNoPairs
  <2>1. PICK d \in Indexes : /\ \A e \in 0..(d - 1) : table[Probe(other.key, e)] # NULL
                             /\ table'[Probe(other.key, d)] = other
    <3>1. CASE other = elm
      BY <1>2, <1>3, <3>1
    <3>2. CASE other \in pairs
      <4>1. PICK d \in Indexes : /\ table[Probe(other.key, d)] = other
                                 /\ \A e \in 0..(d - 1) : table[Probe(other.key, e)] # NULL
        BY <3>2 DEF TableInv
      <4>2. Probe(other.key, d) # s /\ Probe(other.key, d) \in Indexes
        BY <1>2, <2>0, <3>2, <4>1, ProbeIsIndex, MarksAreNoPairs DEF TableInv
      <4>. QED  BY <1>3, <4>1, <4>2
    <3>. QED  BY <3>1, <3>2
  <2>2. \A e \in 0..(d - 1) : e \in Indexes
    BY KvTablesAssumption DEF Indexes
  <2>. QED  BY <1>5, <2>0, <2>1, <2>2
<1>7. \A t, u \in Indexes :
         table'[t] \in Pairs /\ table'[u] \in Pairs /\ table'[t].key = table'[u].key => t = u
  BY <1>2, <1>3 DEF TableInv
<1>. QED  BY <1>3, <1>4, <1>6, <1>7 DEF TableInv

LEMMA SameKeepsTable ==
    ASSUME TableInv, UNCHANGED <<table, pairs>> PROVE TableInv'
BY DEF TableInv

\* An empty table.
LEMMA EmptyIsTable ==
    ASSUME NEW tb, tb = [s \in Indexes |-> NULL]
    PROVE  /\ tb \in [Indexes -> Pairs \cup {NULL, DELETED}]
           /\ \A s \in Indexes : tb[s] \notin Pairs
BY MarksAreNoPairs

LEMMA PointersStep ==
    ASSUME TableInv, [KVNext]_kvars PROVE TableInv'
<1>1. ASSUME NEW elm \in Pairs, tb_insert(elm) PROVE TableInv'
  <2>1. CASE Lookup(elm.key).ret = 0
    BY <1>1, <2>1, InsertKeepsTable DEF tb_insert
  <2>2. CASE Lookup(elm.key).ret # 0
    BY <1>1, <2>2, SameKeepsTable DEF tb_insert
  <2>. QED  BY <2>1, <2>2
<1>2. ASSUME NEW elm \in Pairs, tb_delete2(elm) PROVE TableInv'
  <2>1. elm.key \in Keys /\ Hash[elm.key] \in Indexes
    BY MarksAreNoPairs, KvTablesAssumption DEF Indexes
  <2>2. CASE table[Hash[elm.key]] = elm
    BY <1>2, <2>1, <2>2, MarkingKeepsTable DEF tb_delete2
  <2>3. CASE table[Hash[elm.key]] # elm
    BY <1>2, <2>3, SameKeepsTable DEF tb_delete2
  <2>. QED  BY <2>2, <2>3
<1>3. ASSUME NEW key \in Keys, tb_delete(key) PROVE TableInv'
  <2>1. CASE Lookup(key).ret = 1
    <3>1. Lookup(key).slot \in Indexes /\ table[Lookup(key).slot] \in Pairs
      BY <2>1, LookupMeans
    <3>2. /\ table' = [table EXCEPT ![Lookup(key).slot] = DELETED]
          /\ pairs' = pairs \ {table[Lookup(key).slot]}
      BY <1>3, <2>1 DEF tb_delete
    <3>. QED  BY <3>1, <3>2, MarkingKeepsTable
  <2>2. CASE Lookup(key).ret # 1
    BY <1>3, <2>2, SameKeepsTable DEF tb_delete
  <2>. QED  BY <2>1, <2>2
<1>4. ASSUME NEW key \in Keys, tb_find(key) \/ tb_find2(key) PROVE TableInv'
  BY <1>4, SameKeepsTable DEF tb_find, tb_find2, SameTable
<1>5. ASSUME NEW key \in Keys, NEW val \in Values, tb_insert2(key, val) PROVE TableInv'
  BY <1>5, SameKeepsTable DEF tb_insert2, SameTable
<1>6. CASE init_kv_table
  <2>1. table' = [s \in Indexes |-> NULL] /\ pairs' = {}
    BY <1>6 DEF init_kv_table, Indexes
  <2>2. /\ table' \in [Indexes -> Pairs \cup {NULL, DELETED}]
        /\ \A s \in Indexes : table'[s] \notin Pairs
    BY <2>1, EmptyIsTable
  <2>. QED  BY <2>1, <2>2 DEF TableInv
<1>7. CASE init_kv_table2
  BY <1>7, SameKeepsTable DEF init_kv_table2
<1>8. CASE UNCHANGED kvars
  BY <1>8, SameKeepsTable DEF kvars
<1>. QED  BY <1>1, <1>2, <1>3, <1>4, <1>5, <1>6, <1>7, <1>8 DEF KVNext

-----------------------------------------------------------------------------
(* The table of values *)

\* A search in the table of values, whose free slots stop it too.
LEMMA Lookup2Meets ==
    ASSUME NEW key \in Keys
    PROVE  \/ /\ Lookup2(key).ret = -1
              /\ \A d \in Indexes : ~Stops2(key, Probe(key, d))
           \/ \E d \in Indexes :
                 /\ Lookup2(key).slot = Probe(key, d) /\ Stops2(key, Probe(key, d))
                 /\ \A e \in 0..(d - 1) : ~Stops2(key, Probe(key, e))
                 /\ Lookup2(key).ret = IF table2[Probe(key, d)].key = key THEN 1 ELSE 0
<1> DEFINE ends == {d \in Indexes : Stops2(key, Probe(key, d))}
           least == CHOOSE d \in ends : \A e \in ends : d <= e
           d0 == Passed(key, LAMBDA s : Stops2(key, s))
<1>1. d0 = IF ends = {} THEN Slots ELSE least
  BY DEF Passed, Indexes
<1>2. Slots \in Nat \ {0} /\ Slots \notin Indexes
  BY KvTablesAssumption DEF Indexes
<1>3. Lookup2(key) = IF d0 = Slots THEN [ret |-> -1, slot |-> 0]
                     ELSE [ret |-> IF table2[Probe(key, d0)].key = key THEN 1 ELSE 0,
                           slot |-> Probe(key, d0)]
  BY DEF Lookup2
<1> HIDE DEF d0
<1>4. CASE ends = {}
  BY <1>1, <1>3, <1>4
<1>5. CASE ends # {}
  <2>1. ends \in SUBSET Nat
    BY DEF Indexes
  <2>2. least \in ends /\ \A e \in ends : least <= e
    <3> HIDE DEF ends
    <3>. QED  BY <1>5, <2>1, LeastOf
  <2>3. d0 = least /\ d0 # Slots
    BY <1>1, <1>2, <1>5, <2>2
  <2>4. \A e \in 0..(d0 - 1) : ~Stops2(key, Probe(key, e))
    <3>1. \A e \in 0..(d0 - 1) : e \in Indexes /\ ~(d0 <= e)
      BY <1>2, <2>2, <2>3 DEF Indexes
    <3> HIDE DEF least
    <3>. QED  BY <2>2, <2>3, <3>1
  <2>5. d0 \in Indexes /\ Stops2(key, Probe(key, d0))
    <3> HIDE DEF least
    <3>. QED  BY <2>2, <2>3
  <2>6. /\ Lookup2(key).slot = Probe(key, d0)
        /\ Lookup2(key).ret = IF table2[Probe(key, d0)].key = key THEN 1 ELSE 0
    BY <1>3, <2>3
  <2> HIDE DEF least, ends
  <2>. QED  BY <2>4, <2>5, <2>6
<1>. QED  BY <1>4, <1>5

\* A key that has a value is where its search goes.
Reached(key) ==
    \E d \in Indexes :
        /\ table2[Probe(key, d)].key = key /\ table2[Probe(key, d)].val \in wanted[key]
        /\ \A e \in 0..(d - 1) : ~Stops2(key, Probe(key, e))

Entry == [key : Keys \cup {"junk"}, val : Values \cup {"none", "junk"}]
Table2Inv ==
    /\ table2 \in [Indexes -> Entry] /\ wanted \in [Keys -> SUBSET Values]
    /\ \A key \in Keys \ {EmptyKey} : wanted[key] # {} => Reached(key)

\* A value stored where the search for its key stopped.
LEMMA StoreKeepsTable2 ==
    ASSUME Table2Inv, NEW key \in Keys, NEW val \in Values, ~(Lookup2(key).ret < 0),
           table2' = Stored2(Lookup2(key).slot, key, val),
           wanted' = [wanted EXCEPT ![key] = {val}]
    PROVE  Table2Inv'
<1> DEFINE s == Lookup2(key).slot
<1>1. PICK d \in Indexes : /\ s = Probe(key, d) /\ Stops2(key, s)
                           /\ \A e \in 0..(d - 1) : ~Stops2(key, Probe(key, e))
  BY Lookup2Meets
<1> HIDE DEF s
<1>2. /\ s \in Indexes /\ EmptyKey \in Keys
      /\ \A k \in Keys, c \in Indexes : \A e \in 0..c : Probe(k, e) \in Indexes
  BY <1>1, ProbeIsIndex, KvTablesAssumption DEF Indexes
<1>3. /\ table2' \in [Indexes -> Entry] /\ wanted' \in [Keys -> SUBSET Values]
      /\ table2'[s].key = key /\ table2'[s].val = val
      /\ \A t \in Indexes \ {s} : table2'[t] = table2[t]
      /\ wanted'[key] = {val} /\ \A k \in Keys \ {key} : wanted'[k] = wanted[k]
  BY <1>2 DEF Table2Inv, Stored2, Entry, s
<1>4. ASSUME NEW k \in Keys \ {EmptyKey}, NEW t \in Indexes, ~Stops2(k, t), t = s => k # key
      PROVE  ~Stops2(k, t)'
  <2>1. CASE t # s
    BY <1>3, <1>4, <2>1 DEF Stops2, Free2
  <2>2. CASE t = s
    BY <1>1, <1>3, <1>4, <2>2 DEF Stops2, Free2
  <2>. QED  BY <2>1, <2>2
<1>5. ASSUME key # EmptyKey PROVE Reached(key)'
  <2>1. \A e \in 0..(d - 1) : Probe(key, e) # s /\ Probe(key, e) \in Indexes
    BY <1>1, <1>2 DEF Indexes
  <2>2. \A e \in 0..(d - 1) : ~Stops2(key, Probe(key, e))'
    BY <1>1, <1>4, <1>5, <2>1
  <2>3. Probe(key, d) = s
    BY <1>1
  <2>. QED  BY <1>3, <2>2, <2>3 DEF Reached, Probe
<1>6. ASSUME NEW k \in Keys \ {EmptyKey, key}, wanted[k] # {} PROVE Reached(k)'
  <2>1. PICK c \in Indexes :
           /\ table2[Probe(k, c)].key = k /\ table2[Probe(k, c)].val \in wanted[k]
           /\ \A e \in 0..(c - 1) : ~Stops2(k, Probe(k, e))
    BY <1>6 DEF Table2Inv, Reached
  <2>2. Probe(k, c) # s /\ Probe(k, c) \in Indexes
    BY <1>1, <2>1, ProbeIsIndex DEF Stops2, Free2
  <2>3. table2'[Probe(k, c)].key = k /\ table2'[Probe(k, c)].val \in wanted'[k]
    BY <1>3, <2>1, <2>2
  <2>4. \A e \in 0..(c - 1) : Probe(k, e) \in Indexes
    BY <1>2 DEF Indexes
  <2>5. \A e \in 0..(c - 1) : ~Stops2(k, Probe(k, e))'
    BY <1>4, <2>1, <2>4
  <2>. QED  BY <2>3, <2>5 DEF Reached, Probe
<1>. QED  BY <1>3, <1>5, <1>6 DEF Table2Inv

LEMMA SameKeepsTable2 ==
    ASSUME Table2Inv, UNCHANGED <<table2, wanted>> PROVE Table2Inv'
BY DEF Table2Inv, Reached, Stops2, Free2, Probe

LEMMA ValuesStep ==
    ASSUME Table2Inv, [KVNext]_kvars PROVE Table2Inv'
<1>1. ASSUME NEW key \in Keys, NEW val \in Values, tb_insert2(key, val) PROVE Table2Inv'
  <2>1. CASE Lookup2(key).ret < 0 \/ crashed'
    BY <1>1, <2>1, SameKeepsTable2 DEF tb_insert2
  <2>2. CASE ~(Lookup2(key).ret < 0 \/ crashed')
    BY <1>1, <2>2, StoreKeepsTable2 DEF tb_insert2
  <2>. QED  BY <2>1, <2>2
<1>2. ASSUME NEW elm \in Pairs, tb_insert(elm) \/ tb_delete2(elm) PROVE Table2Inv'
  BY <1>2, SameKeepsTable2 DEF tb_insert, tb_delete2, SameTable2
<1>3. ASSUME NEW key \in Keys, tb_find(key) \/ tb_delete(key) \/ tb_find2(key)
      PROVE  Table2Inv'
  BY <1>3, SameKeepsTable2 DEF tb_find, tb_delete, tb_find2, SameTable2
<1>4. CASE init_kv_table
  BY <1>4, SameKeepsTable2 DEF init_kv_table
<1>5. CASE init_kv_table2
  <2>1. table2' = Cleared(table2) /\ wanted' = [key \in Keys |-> {}]
    BY <1>5 DEF init_kv_table2
  <2>2. table2' \in [Indexes -> Entry]
    BY <2>1, KvTablesAssumption DEF Cleared, FreeSlot, Entry, Indexes, Table2Inv
  <2>. QED  BY <2>1, <2>2 DEF Table2Inv
<1>6. CASE UNCHANGED kvars
  BY <1>6, SameKeepsTable2 DEF kvars
<1>. QED  BY <1>1, <1>2, <1>3, <1>4, <1>5, <1>6 DEF KVNext

\* In whatever order pairs are inserted and deleted and the tables set up
\* again, no pair is lost behind a free slot, no key is there twice, and a key
\* has the value it was given last.
THEOREM KeysFoundHolds == KVSpec => []KeysFound
<1>1. KVInit => TableInv /\ Table2Inv
  <2> SUFFICES ASSUME KVInit PROVE TableInv /\ Table2Inv
    OBVIOUS
  <2>1. TableInv
    BY EmptyIsTable DEF KVInit, TableInv, Indexes
  <2>2. PICK t \in [Indexes -> {FreeSlot, Junk}] : table2 = Cleared(t)
    BY DEF KVInit, Indexes
  <2>3. table2 \in [Indexes -> Entry]
    BY <2>2, KvTablesAssumption DEF Cleared, FreeSlot, Junk, Entry, Indexes
  <2>. QED  BY <2>1, <2>3 DEF KVInit, Table2Inv
<1>2. TableInv /\ Table2Inv /\ [KVNext]_kvars => TableInv' /\ Table2Inv'
  BY PointersStep, ValuesStep
<1>3. TableInv /\ Table2Inv => KeysFound
  <2> SUFFICES ASSUME TableInv, Table2Inv PROVE KeysFound
    OBVIOUS
  <2>1. ASSUME NEW elm \in pairs
        PROVE  /\ \/ Lookup(elm.key).ret = 2
                  \/ Lookup(elm.key).ret = 1 /\ table[Lookup(elm.key).slot] = elm
               /\ \A other \in pairs : elm.key = other.key => elm = other
    <3>1. elm.key \in Keys /\ \A other \in pairs : other \in Pairs
      BY MarksAreNoPairs DEF TableInv
    <3>2. \A other \in pairs : other \in Pairs => \E s \in Indexes : table[s] = other
      BY MarksAreNoPairs, ProbeIsIndex DEF TableInv
    <3>3. \A other \in pairs : elm.key = other.key => elm = other
      BY <3>1, <3>2 DEF TableInv
    <3>. QED  BY <3>1, <3>3, LookupMeans
  <2>2. ASSUME NEW key \in Keys \ {EmptyKey}, wanted[key] # {}
        PROVE  Lookup2(key).ret = 1 /\ table2[Lookup2(key).slot].val \in wanted[key]
    <3>1. PICK d \in Indexes :
             /\ table2[Probe(key, d)].key = key /\ table2[Probe(key, d)].val \in wanted[key]
             /\ \A e \in 0..(d - 1) : ~Stops2(key, Probe(key, e))
      BY <2>2 DEF Table2Inv, Reached
    <3>2. Stops2(key, Probe(key, d))
      BY <3>1 DEF Stops2
    <3>3. PICK c \in Indexes :
             /\ Lookup2(key).slot = Probe(key, c) /\ Stops2(key, Probe(key, c))
             /\ \A e \in 0..(c - 1) : ~Stops2(key, Probe(key, e))
             /\ Lookup2(key).ret = IF table2[Probe(key, c)].key = key THEN 1 ELSE 0
      BY <3>2, Lookup2Meets
    <3>4. c = d
      BY <3>1, <3>2, <3>3, KvTablesAssumption DEF Indexes
    <3>. QED  BY <3>1, <3>3, <3>4
  <2>. QED  BY <2>1, <2>2 DEF KeysFound
<1>. QED  BY <1>1, <1>2, <1>3, PTL DEF KVSpec

-----------------------------------------------------------------------------
(* The block pool *)

Multiple(x) == \E k \in Nat : x = k * Align

\* Division of naturals.
LEMMA DivisionByAlign ==
    ASSUME NEW x \in Nat
    PROVE  /\ x \div Align \in Nat /\ x % Align \in Nat
           /\ x = (x \div Align) * Align + (x % Align) /\ x % Align < Align
BY BlockPoolAssumption

LEMMA MultipleMeans ==
    ASSUME NEW x \in Nat PROVE Multiple(x) <=> x % Align = 0
<1> DEFINE q == x \div Align
           r == x % Align
<1>1. q \in Nat /\ r \in Nat /\ x = q * Align + r /\ r < Align /\ Align \in Nat \ {0}
  BY DivisionByAlign, BlockPoolAssumption
<1> HIDE DEF q, r
<1>2. ASSUME NEW k \in Nat, x = k * Align PROVE r = 0
  <2>1. (k - q) * Align = r
    BY <1>1, <1>2
  <2>2. CASE k - q >= 1
    <3>1. (k - q) * Align >= Align
      BY <1>1, <2>2
    <3>. QED  BY <1>1, <2>1, <3>1
  <2>3. CASE k - q <= -1
    <3>1. (k - q) * Align <= -Align
      BY <1>1, <2>3
    <3>. QED  BY <1>1, <2>1, <3>1
  <2>4. CASE k = q
    BY <1>1, <2>1, <2>4
  <2>. QED  BY <1>1, <2>2, <2>3, <2>4
<1>3. r = 0 => Multiple(x)
  BY <1>1 DEF Multiple
<1>. QED  BY <1>2, <1>3 DEF Multiple, r

LEMMA SumOfMultiples ==
    ASSUME NEW x, NEW y, Multiple(x), Multiple(y) PROVE Multiple(x + y)
<1>1. PICK k \in Nat, j \in Nat : x = k * Align /\ y = j * Align
  BY DEF Multiple
<1>2. k + j \in Nat /\ x + y = (k + j) * Align
  BY <1>1, BlockPoolAssumption
<1>. QED  BY <1>2 DEF Multiple

\* Aligning a size rounds it up, unless the sum wraps.
LEMMA AlignedRoundsUp ==
    ASSUME NEW count \in Requests
    PROVE  /\ Aligned(count) \in Nat /\ Multiple(Aligned(count))
           /\ count + Align - 1 < SizeLimit => Aligned(count) >= count
<1>1. /\ count \in Nat /\ Align \in Nat \ {0} /\ SizeLimit \in Nat \ {0}
      /\ count + Align - 1 \in Nat
  BY BlockPoolAssumption
<1> DEFINE s == (count + Align - 1) % SizeLimit
           q == s \div Align
<1>2. s \in Nat /\ (count + Align - 1 < SizeLimit => s = count + Align - 1)
  BY <1>1
<1>3. q \in Nat /\ s < q * Align + Align /\ q * Align \in Nat
  BY <1>1, <1>2, DivisionByAlign
<1>4. Aligned(count) = q * Align
  BY DEF Aligned
<1> HIDE DEF s, q
<1>. QED  BY <1>1, <1>2, <1>3, <1>4 DEF Multiple

-----------------------------------------------------------------------------
Piece == [page : Nat, first : Nat, len : Nat]
Regular(p) == p.len + Align - 1 < SizeLimit

\* Behind the offset nothing of the page in use has been handed out, and an
\* offset within the page means that there is a page, the last of the list.
PoolInv ==
    /\ slot \in Nat /\ bucket \in Nat /\ poff \in Nat /\ ptr \in Nat
    /\ setUp \in BOOLEAN /\ live \subseteq Piece
    /\ slot <= bucket /\ poff <= PoolPage /\ Multiple(poff)
    /\ ~setUp => live = {}
    /\ setUp /\ poff < PoolPage => ptr = slot /\ slot > 0
    /\ \A p \in live : Regular(p) =>
          /\ p.page \in 1..slot /\ Multiple(p.first)
          /\ p.first + p.len <= IF p.page = slot THEN poff ELSE PoolPage
    /\ \A p, q \in live : Regular(p) /\ Regular(q) => p = q \/ Apart(p, q)

LEMMA PoolInvImplies == PoolInv => PiecesApart
<1> SUFFICES ASSUME PoolInv PROVE PiecesApart
  OBVIOUS
<1>1. ASSUME NEW p \in live, Regular(p)
      PROVE  p.page \in 1..slot /\ p.first % Align = 0 /\ p.first + p.len <= PoolPage
  <2>1. p.first \in Nat /\ p.len \in Nat
    BY DEF PoolInv, Piece
  <2>. QED  BY <1>1, <2>1, MultipleMeans, BlockPoolAssumption DEF PoolInv
<1>. QED  BY <1>1 DEF PoolInv, PiecesApart, Regular

\* A list that has room for another page.
LEMMA Growing ==
    ASSUME PoolInv
    PROVE  GrownBucket \in Nat /\ slot + 1 <= GrownBucket
BY BlockPoolAssumption DEF PoolInv, GrownBucket

LEMMA PageSizeIsMultiple == PoolPage \in Nat \ {0} /\ Multiple(PoolPage) /\ Multiple(0)
<1>1. PoolPage \in Nat \ {0} /\ Align \in Nat \ {0} /\ PoolPage % Align = 0
  BY BlockPoolAssumption
<1>2. 0 = 0 * Align
  BY <1>1
<1>. QED  BY <1>1, <1>2, MultipleMeans DEF Multiple

\* A piece of the page in use that begins where nothing is handed out yet.
LEMMA HandedKeepsPool ==
    ASSUME PoolInv, NEW count \in Requests, NEW off \in Nat, Handed(count, off),
           Multiple(off), off + Aligned(count) <= PoolPage,
           slot' \in Nat, bucket' \in Nat, slot' <= bucket', ptr' \in Nat, UNCHANGED setUp,
           \/ slot' = slot + 1 /\ ptr' = slot' /\ off = 0
           \/ slot' = slot /\ ptr' = ptr /\ off = poff
    PROVE  PoolInv'
<1> DEFINE new == [page |-> ptr', first |-> off, len |-> count]
<1>1. /\ count \in Nat /\ Aligned(count) \in Nat /\ Multiple(Aligned(count))
      /\ Regular(new) => Aligned(count) >= count
      /\ PoolPage \in Nat \ {0} /\ Align \in Nat \ {0} /\ SizeLimit \in Nat \ {0}
  BY AlignedRoundsUp, BlockPoolAssumption DEF Regular
<1>2. poff' = off + Aligned(count) /\ poff' \in Nat /\ Multiple(poff')
  BY <1>1, SumOfMultiples DEF Handed
<1>3. new \in Piece
  BY <1>1 DEF Piece
<1>4. live' = live \/ (setUp /\ live' = live \cup {new} /\ count # 0)
  BY DEF Handed
<1>5. ASSUME setUp, Regular(new), count # 0
      PROVE  /\ ptr' \in 1..slot' /\ ptr' = slot' /\ off + count <= poff'
             /\ \A p \in live : Regular(p) => Apart(p, new) /\ Apart(new, p)
  <2>1. off + count <= poff'
    BY <1>1, <1>2, <1>5
  <2>2. CASE slot' = slot + 1 /\ ptr' = slot' /\ off = 0
    <3>1. \A p \in live : Regular(p) => p.page # new.page
      BY <2>2 DEF PoolInv
    <3>. QED  BY <2>1, <2>2, <3>1 DEF PoolInv, Apart
  <2>3. CASE slot' = slot /\ ptr' = ptr /\ off = poff
    <3>1. poff < PoolPage /\ ptr = slot /\ slot > 0
      BY <1>1, <1>5, <2>3 DEF PoolInv
    <3>2. \A p \in live : Regular(p) => p.page # new.page \/ p.first + p.len <= new.first
      BY <2>3, <3>1 DEF PoolInv
    <3>. QED  BY <2>1, <2>3, <3>1, <3>2 DEF PoolInv, Apart
  <2>. QED  BY <2>2, <2>3
<1>6. ASSUME NEW p \in live, Regular(p)
      PROVE  /\ p.page \in 1..slot' /\ Multiple(p.first)
             /\ p.first + p.len <= IF p.page = slot' THEN poff' ELSE PoolPage
  <2>1. p.first \in Nat /\ p.len \in Nat /\ p.page \in Nat
    BY DEF PoolInv, Piece
  <2>. QED  BY <1>1, <1>2, <1>6, <2>1 DEF PoolInv
<1>7. setUp /\ poff' < PoolPage => ptr' = slot' /\ slot' > 0
  BY <1>1, <1>2 DEF PoolInv
<1>8. /\ live' \subseteq Piece /\ (~setUp => live' = {})
  BY <1>3, <1>4 DEF PoolInv
<1>9. \A p \in live' : Regular(p) =>
          /\ p.page \in 1..slot' /\ Multiple(p.first)
          /\ p.first + p.len <= IF p.page = slot' THEN poff' ELSE PoolPage
  <2>1. setUp /\ Regular(new) /\ count # 0 =>
          /\ new.page \in 1..slot' /\ Multiple(new.first) /\ new.page = slot'
          /\ new.first + new.len <= poff'
    BY <1>5
  <2>. QED  BY <1>4, <1>6, <2>1
<1>10. \A p, q \in live' : Regular(p) /\ Regular(q) => p = q \/ Apart(p, q)
  BY <1>4, <1>5 DEF PoolInv
<1>. QED
  BY <1>2, <1>7, <1>8, <1>9, <1>10 DEF PoolInv, Regular, Apart

\* A failure on the way: the list may be longer, the rest stays.
LEMMA RefusedKeepsPool ==
    ASSUME PoolInv, UNCHANGED <<slot, ptr, poff, live, setUp>>,
           bucket' \in Nat, slot <= bucket'
    PROVE  PoolInv'
BY DEF PoolInv, Regular, Apart

\* Pieces that callers of a pool hold never overlap, whatever is requested,
\* whichever allocation fails, and however often the pool is destroyed.
THEOREM PiecesApartHolds == BPSpec => []PiecesApart
<1>1. BPInit => PoolInv
  <2> SUFFICES ASSUME BPInit PROVE PoolInv
    OBVIOUS
  <2>1. slot = 0 /\ bucket = 0 /\ poff = 0 /\ ptr = 0 /\ ~setUp /\ setUp \in BOOLEAN /\ live = {}
    BY DEF BPInit
  <2>2. Multiple(poff) /\ poff <= PoolPage
    BY <2>1, PageSizeIsMultiple
  <2>. QED  BY <2>1, <2>2 DEF PoolInv
<1>2. PoolInv /\ [BPNext]_bpvars => PoolInv'
  <2> SUFFICES ASSUME PoolInv, [BPNext]_bpvars PROVE PoolInv'
    OBVIOUS
  <2>1. CASE init_block_pool
    <3>1. slot = 0 /\ setUp' = TRUE /\ live' = live
      BY <2>1 DEF init_block_pool
    <3>2. \A p \in live : ~Regular(p)
      BY <3>1 DEF PoolInv
    <3>3. CASE ListedPage /\ poff' = 0
      BY <3>1, <3>2, <3>3, Growing, PageSizeIsMultiple DEF PoolInv, ListedPage, Regular
    <3>4. CASE (NoList \/ NoPoolPage) /\ poff' = PoolPage
      BY <3>1, <3>2, <3>4, Growing, PageSizeIsMultiple
      DEF PoolInv, NoList, NoPoolPage, Regular
    <3>. QED  BY <2>1, <3>3, <3>4 DEF init_block_pool
  <2>2. CASE destroy_block_pool
    <3>1. CASE slot = 0
      BY <2>2, <3>1, RefusedKeepsPool DEF destroy_block_pool, PoolInv
    <3>2. CASE slot # 0
      BY <2>2, <3>2, PageSizeIsMultiple DEF destroy_block_pool, PoolInv
    <3>. QED  BY <3>1, <3>2
  <2>3. ASSUME NEW count \in Requests, block_pool_alloc(count) PROVE PoolInv'
    <3>1. /\ Aligned(count) \in Nat /\ PoolPage \in Nat /\ poff \in Nat
          /\ poff <= PoolPage /\ UNCHANGED setUp
      BY <2>3, AlignedRoundsUp, PageSizeIsMultiple DEF block_pool_alloc, PoolInv
    <3>2. CASE Aligned(count) > PoolPage
      BY <2>3, <3>2, RefusedKeepsPool DEF block_pool_alloc, Refused, PoolInv
    <3>3. CASE ~(Aligned(count) > PoolPage) /\ Aligned(count) > PoolPage - poff
      <4>1. CASE ListedPage /\ Handed(count, 0)
        <5>1. /\ slot' = slot + 1 /\ ptr' = slot' /\ slot' <= bucket'
              /\ slot' \in Nat /\ bucket' \in Nat /\ ptr' \in Nat
          BY <4>1, Growing DEF ListedPage, PoolInv
        <5>. QED
          BY <3>1, <3>3, <4>1, <5>1, HandedKeepsPool, PageSizeIsMultiple
      <4>2. CASE (NoList \/ NoPoolPage) /\ Refused
        BY <3>1, <4>2, Growing, RefusedKeepsPool
        DEF NoList, NoPoolPage, Refused, PoolInv
      <4>. QED  BY <2>3, <3>3, <4>1, <4>2 DEF block_pool_alloc
    <3>4. CASE ~(Aligned(count) > PoolPage) /\ ~(Aligned(count) > PoolPage - poff)
      <4>1. UNCHANGED <<slot, bucket, ptr>> /\ Handed(count, poff)
        BY <2>3, <3>4 DEF block_pool_alloc
      <4>2. poff + Aligned(count) <= PoolPage
        BY <3>1, <3>4
      <4>. QED  BY <3>1, <4>1, <4>2, HandedKeepsPool DEF PoolInv
    <3>. QED  BY <3>2, <3>3, <3>4
  <2>4. CASE UNCHANGED bpvars
    BY <2>4, RefusedKeepsPool DEF bpvars, PoolInv
  <2>. QED  BY <2>1, <2>2, <2>3, <2>4 DEF BPNext
<1>. QED  BY <1>1, <1>2, PoolInvImplies, PTL DEF BPSpec

-----------------------------------------------------------------------------
(* The concurrent write test *)

SettingPcs == {"remove", "create", "attach"}
HoldingPcs == {"attach", "fork", "wait", "count"}
MainPcs == {"options", "refused", "crashed", "exited"} \cup SettingPcs \cup HoldingPcs
GonePcs == {"none", "ended", "killed", "reaped"}
FilePcs == {"write", "reopen", "check", "close"}
ChildPcs == GonePcs \cup FilePcs \cup {"unlink", "open", "report"}
MainRecords == [pc : MainPcs, shmid : Nat, proc : Nat, failures : Nat]
ChildRecords == [pc : ChildPcs, fd : Nat, count : Nat,
                 compare : [ReadBuffer -> Nat], res : {0, -1}]
Results == UNION {[D -> {0, -1}] : D \in SUBSET Processes}
Segments == [exists : BOOLEAN, attached : SUBSET Testers, result : Results]

WTTypeOK ==
    /\ nbProcess \in [Testers -> Nat]
    /\ \A t \in Testers : 0..(nbProcess[t] - 1) \subseteq Processes
    /\ ckeck_mode \in {"total", "partial", "random"}
    /\ main \in [Testers -> MainRecords]
    /\ child \in [Testers -> [Processes -> ChildRecords]]
    /\ shmkey \in Nat /\ segment \in Seq(Segments)
    /\ name \in [Processes -> Nat] /\ inode \in Seq(Seq(Nat))
    /\ mishaps \in Nat /\ crossed \in BOOLEAN /\ met \in SUBSET Processes

\* The numbers whose fork a tester has been through; while it waits, and when
\* it counts, the processes it is past are reaped or were never there.
Forked(t) == IF main[t].pc = "fork" THEN 0..(main[t].proc - 1)
             ELSE IF main[t].pc \in {"wait", "count", "exited"}
             THEN 0..(nbProcess[t] - 1)
             ELSE {}
Past(t) == IF main[t].pc = "wait" THEN 0..(main[t].proc - 1)
           ELSE IF main[t].pc \in {"count", "exited"} THEN Processes
           ELSE {}
WaitInv ==
    \A t \in Testers :
        /\ main[t].pc \in {"fork", "wait"} => main[t].proc < nbProcess[t]
        /\ main[t].pc \in SettingPcs \cup {"options"} =>
               main[t].proc = 0 /\ (main[t].pc # "options" => nbProcess[t] > 0)
        /\ \A p \in Processes :
               /\ child[t][p].pc = "none" => child[t][p] = Unforked
               /\ p \notin Forked(t) => child[t][p].pc = "none"
               /\ p \in Past(t) => child[t][p].pc \in {"none", "reaped"}

\* Every segment a tester names is there.
KeyInv ==
    /\ shmkey \in 0..Len(segment)
    /\ \A t \in Testers :
         /\ main[t].shmid \in 0..Len(segment)
         /\ main[t].pc \in HoldingPcs \cup {"remove"} => main[t].shmid # 0

\* As long as set-ups do not overlap, every tester has a segment of its own,
\* with what its processes have returned and nothing else.
Outcome(c) == IF c.pc \in GonePcs THEN c.res ELSE 0
Failed(t) == {p \in Processes : child[t][p].pc = "reaped" /\ child[t][p].res = -1}
OwnInv ==
    ~ crossed =>
      /\ \A t, u \in Testers :
            main[t].pc \in SettingPcs /\ main[u].pc \in SettingPcs => t = u
      /\ \A t, u \in Testers :
            main[t].pc \in HoldingPcs /\ main[u].pc \in HoldingPcs
               /\ main[t].shmid = main[u].shmid => t = u
      /\ \A t \in Testers :
            /\ main[t].pc = "remove" => shmkey \in {0, main[t].shmid}
            /\ main[t].pc = "create" => shmkey = 0
            /\ main[t].pc = "attach" => segment[main[t].shmid].exists
            /\ main[t].pc \in HoldingPcs =>
                  segment[main[t].shmid].result =
                      [p \in 0..(nbProcess[t] - 1) |-> Outcome(child[t][p])]
            /\ main[t].pc = "exited" => main[t].failures = Cardinality(Failed(t))

\* No two names lead to one inode, nor does what a process has opened to that
\* of another number.
NamesInv ==
    /\ \A p \in Processes : name[p] \in 0..Len(inode)
    /\ \A p, q \in Processes : name[p] = name[q] /\ name[p] # 0 => p = q
    /\ \A t \in Testers, p \in Processes : child[t][p].fd \in 0..Len(inode)
    /\ \A t \in Testers, p, q \in Processes :
           child[t][p].fd # 0 /\ child[t][p].fd = name[q] => p = q

\* What a process finds in its file: c is the process, nm what its name leads
\* to, ino the files, mis the mishaps so far.
Byte(bytes, x) == IF x < Len(bytes) THEN bytes[x + 1] ELSE 0
SameAt(c, bytes, x) == Byte(bytes, x) = c.compare[x]
Matches(c, bytes, mis) ==
    /\ \A x \in ReadBuffer : c.compare[x] = 0 => Byte(bytes, x) = 0
    /\ mis = 0 => \A x \in ReadBuffer : SameAt(c, bytes, x)
FoundGood(c, bytes, mode) ==
    /\ mode = "partial" => \A x \in ReadBuffer : SameAt(c, bytes, x)
    /\ mode = "total" => \A x \in ReadBuffer : x < Len(bytes) => SameAt(c, bytes, x)
UsesFile(c) == c.pc \in FilePcs \/ (c.pc = "report" /\ c.res = 0)
IsAlone(c, nm, ino, mis, mode) ==
    /\ mis = 0 => c.res = 0
    /\ c.pc \notin GonePcs \cup {"report"} => c.res = 0
    /\ c.pc \in {"unlink", "open"} => c.compare = Blank
    /\ c.pc = "open" => nm = 0
    /\ UsesFile(c) => c.fd # 0 /\ c.fd = nm /\ Matches(c, ino[c.fd], mis)
    /\ c.pc \in FilePcs \ {"write"} /\ mis = 0 => ino[c.fd] # <<>>
    /\ c.pc = "report" /\ c.res = 0 => FoundGood(c, ino[c.fd], mode)
AloneInv ==
    \A p \in Processes \ met :
      /\ \A t, u \in Testers : Running(t, p) /\ Running(u, p) => t = u
      /\ \A t \in Testers : IsAlone(child[t][p], name[p], inode, mishaps, ckeck_mode)

WTInv == WTTypeOK /\ WaitInv /\ KeyInv /\ OwnInv /\ NamesInv /\ AloneInv

LEMMA WTInvImplies == WTInv => CountsOwnFailures /\ OutcomesTrue
<1> SUFFICES ASSUME WTInv PROVE CountsOwnFailures /\ OutcomesTrue
  OBVIOUS
<1>1. CountsOwnFailures
  <2> SUFFICES ASSUME NEW t \in Testers, main[t].pc = "exited"
               PROVE  /\ \A p \in Processes : ~ Running(t, p)
                      /\ ~ crossed => main[t].failures = Cardinality(Failed(t))
    BY DEF CountsOwnFailures, Failed
  <2>1. \A p \in Processes : child[t][p].pc \in {"none", "reaped"}
    BY DEF WTInv, WaitInv, Past
  <2>2. ~ crossed => main[t].failures = Cardinality(Failed(t))
    BY DEF WTInv, OwnInv
  <2>. QED  BY <2>1, <2>2 DEF Running
<1>2. OutcomesTrue
  <2> SUFFICES ASSUME NEW t \in Testers, NEW p \in Processes \ met
               PROVE  /\ mishaps = 0 => child[t][p].res = 0
                      /\ (child[t][p].pc = "report" /\ child[t][p].res = 0) =>
                             /\ ckeck_mode = "partial" => Agrees(t, p, ReadBuffer)
                             /\ ckeck_mode = "total" => Agrees(t, p, Read(t, p))
    BY DEF OutcomesTrue
  <2>1. IsAlone(child[t][p], name[p], inode, mishaps, ckeck_mode)
    BY DEF WTInv, AloneInv
  <2>2. mishaps = 0 => child[t][p].res = 0
    BY <2>1 DEF IsAlone
  <2>3. child[t][p].pc = "report" /\ child[t][p].res = 0 =>
            FoundGood(child[t][p], inode[child[t][p].fd], ckeck_mode)
    BY <2>1 DEF IsAlone
  <2>4. FoundGood(child[t][p], inode[child[t][p].fd], ckeck_mode) =>
            /\ ckeck_mode = "partial" => Agrees(t, p, ReadBuffer)
            /\ ckeck_mode = "total" => Agrees(t, p, Read(t, p))
    BY DEF FoundGood, SameAt, Byte, Agrees, Content, Read
  <2>. QED  BY <2>2, <2>3, <2>4
<1>. QED  BY <1>1, <1>2

LEMMA BlankType == Blank \in [ReadBuffer -> Nat] /\ Unforked \in ChildRecords
BY DEF Blank, Unforked, ChildRecords, ChildPcs, GonePcs

LEMMA WTInitInv == WTInit => WTInv
<1> SUFFICES ASSUME WTInit PROVE WTInv
  OBVIOUS
<1>1. /\ nbProcess \in [Testers -> Nat]
      /\ \A t \in Testers : 0..(nbProcess[t] - 1) \subseteq Processes
      /\ ckeck_mode \in {"total", "partial", "random"}
  BY WriteTestAssumption DEF WTInit
<1>2. \A t \in Testers : main[t] = [pc |-> "options", shmid |-> 0, proc |-> 0, failures |-> 0]
  BY DEF WTInit
<1>3. \A t \in Testers, p \in Processes : child[t][p] = Unforked
  BY DEF WTInit
<1>4. WTTypeOK
  <2>1. main \in [Testers -> MainRecords]
    BY DEF WTInit, MainRecords, MainPcs
  <2>2. child \in [Testers -> [Processes -> ChildRecords]]
    BY BlankType DEF WTInit
  <2>3. /\ shmkey = 0 /\ segment = <<>> /\ inode = <<>> /\ name \in [Processes -> Nat]
        /\ mishaps = 0 /\ crossed = FALSE /\ met = {}
    BY DEF WTInit
  <2>4. segment \in Seq(Segments) /\ inode \in Seq(Seq(Nat))
    BY <2>3
  <2>5. /\ shmkey \in Nat /\ name \in [Processes -> Nat] /\ mishaps \in Nat
        /\ crossed \in BOOLEAN /\ met \in SUBSET Processes
    BY <2>3
  <2>. QED  BY <1>1, <2>1, <2>2, <2>4, <2>5 DEF WTTypeOK
<1>5. WaitInv
  <2>1. \A t \in Testers : /\ main[t].pc = "options" /\ main[t].proc = 0
                            /\ Forked(t) = {} /\ Past(t) = {}
    BY <1>2 DEF Forked, Past
  <2>2. Unforked.pc = "none"
    BY DEF Unforked
  <2>. QED  BY <1>3, <2>1, <2>2 DEF WaitInv
<1>6. KeyInv
  BY <1>2 DEF WTInit, KeyInv, HoldingPcs
<1>7. OwnInv
  BY <1>2 DEF OwnInv, SettingPcs, HoldingPcs
<1>8. NamesInv
  BY <1>3 DEF WTInit, NamesInv, Unforked
<1>9. AloneInv
  <2>1. IsAlone(Unforked, 0, inode, mishaps, ckeck_mode)
    BY DEF IsAlone, Unforked, GonePcs, FilePcs, UsesFile
  <2>2. \A p \in Processes : name[p] = 0
    BY DEF WTInit
  <2>. QED  BY <1>3, <2>1, <2>2 DEF AloneInv, Running, Unforked
<1>. QED  BY <1>4, <1>5, <1>6, <1>7, <1>8, <1>9 DEF WTInv

\* Steps that leave the processes and their files alone.
LEMMA SameFiles ==
    ASSUME NamesInv, AloneInv, UNCHANGED <<child, disk, met, ckeck_mode>>,
           mishaps \in Nat, mishaps' \in {mishaps, mishaps + 1}
    PROVE  NamesInv' /\ AloneInv'
<1>1. /\ child' = child /\ name' = name /\ inode' = inode /\ met' = met
      /\ ckeck_mode' = ckeck_mode /\ (mishaps' = 0 => mishaps = 0)
  BY DEF disk
<1>2. NamesInv'
  BY <1>1 DEF NamesInv
<1>3. ASSUME NEW c, NEW nm, IsAlone(c, nm, inode, mishaps, ckeck_mode)
      PROVE  IsAlone(c, nm, inode, mishaps', ckeck_mode)
  <2>1. \A bytes : Matches(c, bytes, mishaps) => Matches(c, bytes, mishaps')
    BY <1>1 DEF Matches
  <2>. QED  BY <1>1, <1>3, <2>1 DEF IsAlone
<1>4. AloneInv'
  <2> SUFFICES ASSUME NEW p \in Processes \ met
               PROVE  /\ \A t, u \in Testers : Running(t, p)' /\ Running(u, p)' => t = u
                      /\ \A t \in Testers :
                            IsAlone(child'[t][p], name'[p], inode', mishaps', ckeck_mode')
    BY <1>1 DEF AloneInv
  <2>1. \A t \in Testers : Running(t, p)' = Running(t, p)
    BY <1>1 DEF Running
  <2>2. /\ \A t, u \in Testers : Running(t, p) /\ Running(u, p) => t = u
        /\ \A t \in Testers : IsAlone(child[t][p], name[p], inode, mishaps, ckeck_mode)
    BY DEF AloneInv
  <2>3. \A t \in Testers : IsAlone(child[t][p], name[p], inode, mishaps', ckeck_mode)
    BY <1>3, <2>2
  <2>. QED  BY <1>1, <2>1, <2>2, <2>3
<1>. QED  BY <1>2, <1>4

\* A step of a running process: to is what becomes of it, n what its name then
\* leads to.  Only the inode that it has open can change.
ChildMoves(t, p, to, n) ==
    /\ child[t][p].pc \notin GonePcs /\ to \in ChildRecords /\ to.pc # "none"
    /\ child' = [child EXCEPT ![t][p] = to]
    /\ name' = [name EXCEPT ![p] = n] /\ n \in {0, name[p], Len(inode) + 1}
    /\ inode' \in Seq(Seq(Nat)) /\ Len(inode') >= Len(inode) /\ n <= Len(inode')
    /\ \A id \in 1..Len(inode) : id # child[t][p].fd => inode'[id] = inode[id]
    /\ to.fd \in {0, child[t][p].fd, n}
    /\ mishaps' \in {mishaps, mishaps + 1}
    /\ p \notin met => IsAlone(to, n, inode', mishaps', ckeck_mode)
    /\ UNCHANGED <<options, main, crossed, met>>

LEMMA ChildMovesFiles ==
    ASSUME WTInv, NEW t \in Testers, NEW p \in Processes, NEW to, NEW n,
           ChildMoves(t, p, to, n)
    PROVE  NamesInv' /\ AloneInv'
<1> USE DEF WTInv, WTTypeOK
<1> DEFINE c == child[t][p]
<1>1. /\ c.pc \notin GonePcs /\ to \in ChildRecords /\ n \in {0, name[p], Len(inode) + 1}
      /\ Len(inode') >= Len(inode) /\ n <= Len(inode') /\ to.fd \in {0, c.fd, n}
      /\ \A id \in 1..Len(inode) : id # c.fd => inode'[id] = inode[id]
      /\ mishaps' = 0 => mishaps = 0
      /\ p \notin met => IsAlone(to, n, inode', mishaps', ckeck_mode)
      /\ met' = met /\ ckeck_mode' = ckeck_mode
      /\ n \in Nat /\ Len(inode) \in Nat /\ Len(inode') \in Nat
  <2>1. mishaps \in Nat /\ inode \in Seq(Seq(Nat)) /\ name[p] \in Nat
    OBVIOUS
  <2> HIDE DEF WTInv, WTTypeOK
  <2>2. n \in Nat /\ Len(inode) \in Nat /\ Len(inode') \in Nat
    BY <2>1 DEF ChildMoves
  <2>3. mishaps' = 0 => mishaps = 0
    BY <2>1 DEF ChildMoves
  <2>4. met' = met /\ ckeck_mode' = ckeck_mode
    BY DEF ChildMoves, options
  <2>. QED  BY <2>2, <2>3, <2>4 DEF ChildMoves
<1>2. /\ child'[t][p] = to
      /\ \A u \in Testers, q \in Processes : u # t \/ q # p => child'[u][q] = child[u][q]
  BY DEF ChildMoves
<1>3. name'[p] = n /\ \A q \in Processes : q # p => name'[q] = name[q]
  BY DEF ChildMoves
<1>4. /\ \A q \in Processes : name[q] \in 0..Len(inode)
      /\ \A q, r \in Processes : name[q] = name[r] /\ name[q] # 0 => q = r
      /\ \A u \in Testers, q \in Processes : child[u][q].fd \in 0..Len(inode)
      /\ \A u \in Testers, q, r \in Processes :
             child[u][q].fd # 0 /\ child[u][q].fd = name[r] => q = r
  BY DEF NamesInv
<1> HIDE DEF WTInv, WTTypeOK, c
<1>5. NamesInv'
  <2>1. \A q \in Processes : name'[q] \in 0..Len(inode')
    BY <1>1, <1>3, <1>4
  <2>2. \A q, r \in Processes : name'[q] = name'[r] /\ name'[q] # 0 => q = r
    BY <1>1, <1>3, <1>4
  <2>3. \A u \in Testers, q \in Processes : child'[u][q].fd \in 0..Len(inode')
    BY <1>1, <1>2, <1>4 DEF c
  <2>4. ASSUME NEW u \in Testers, NEW q \in Processes, NEW r \in Processes,
               child'[u][q].fd # 0, child'[u][q].fd = name'[r]
        PROVE  q = r
    <3>1. CASE u = t /\ q = p /\ r # p
      BY <3>1, <2>4, <1>1, <1>2, <1>3, <1>4 DEF c
    <3>2. CASE (u # t \/ q # p) /\ r # p
      BY <3>2, <2>4, <1>2, <1>3, <1>4
    <3>3. CASE (u # t \/ q # p) /\ r = p
      <4>1. child[u][q].fd # 0 /\ child[u][q].fd = n
        BY <3>3, <2>4, <1>2, <1>3
      <4>2. n = name[p]
        BY <4>1, <1>1, <1>4
      <4>. QED  BY <3>3, <4>1, <4>2, <1>4
    <3>4. CASE q = p /\ r = p
      BY <3>4
    <3>. QED  BY <3>1, <3>2, <3>3, <3>4
  <2>. QED  BY <2>1, <2>2, <2>3, <2>4 DEF NamesInv
<1>6. AloneInv'
  <2> SUFFICES ASSUME NEW q \in Processes \ met
               PROVE  /\ \A u, v \in Testers : Running(u, q)' /\ Running(v, q)' => u = v
                      /\ \A u \in Testers :
                            IsAlone(child'[u][q], name'[q], inode', mishaps', ckeck_mode)
    BY <1>1 DEF AloneInv
  <2>1. /\ \A u, v \in Testers : Running(u, q) /\ Running(v, q) => u = v
        /\ \A u \in Testers : IsAlone(child[u][q], name[q], inode, mishaps, ckeck_mode)
    BY DEF WTInv, AloneInv
  <2>2. \A u \in Testers : Running(u, q)' => Running(u, q)
    BY <1>1, <1>2 DEF Running, GonePcs, c
  <2>3. ASSUME NEW u \in Testers
        PROVE  IsAlone(child'[u][q], name'[q], inode', mishaps', ckeck_mode)
    <3> DEFINE d == child[u][q]
    <3>0. IsAlone(d, name[q], inode, mishaps, ckeck_mode)
      BY <2>1
    <3>1. CASE u = t /\ q = p
      BY <3>1, <1>1, <1>2, <1>3
    <3>2. CASE q # p
      <4>1. child'[u][q] = d /\ name'[q] = name[q]
        BY <3>2, <1>2, <1>3
      <4> HIDE DEF d
      <4>2. ASSUME UsesFile(d)
            PROVE  inode'[d.fd] = inode[d.fd]
        <5>1. d.fd # 0 /\ d.fd = name[q]
          BY <3>0, <4>2 DEF IsAlone
        <5>2. d.fd \in 1..Len(inode) /\ d.fd # c.fd
          BY <5>1, <3>2, <1>4 DEF c
        <5>. QED  BY <5>2, <1>1
      <4>3. \A bytes : Matches(d, bytes, mishaps) => Matches(d, bytes, mishaps')
        BY <1>1 DEF Matches
      <4>4. d.pc \in FilePcs => UsesFile(d)
        BY DEF UsesFile
      <4>5. IsAlone(d, name[q], inode', mishaps', ckeck_mode)
        BY <3>0, <4>2, <4>3, <4>4, <1>1 DEF IsAlone, UsesFile
      <4>. QED  BY <4>1, <4>5
    <3>3. CASE q = p /\ u # t
      <4>1. child'[u][q] = d
        BY <3>3, <1>2
      <4>2. Running(t, q) /\ ~Running(u, q)
        BY <2>1, <3>3, <1>1 DEF Running, GonePcs, c
      <4>3. d.pc \in GonePcs
        BY <4>2 DEF Running, GonePcs
      <4> HIDE DEF d
      <4>4. mishaps' = 0 => d.res = 0
        BY <3>0, <1>1 DEF IsAlone
      <4>5. IsAlone(d, name'[q], inode', mishaps', ckeck_mode)
        BY <4>3, <4>4 DEF IsAlone, GonePcs, FilePcs, UsesFile
      <4>. QED  BY <4>1, <4>5
    <3>. QED  BY <3>1, <3>2, <3>3
  <2>. QED  BY <2>1, <2>2, <2>3
<1>. QED  BY <1>5, <1>6

LEMMA ReplacedIn ==
    ASSUME NEW T, NEW s \in Seq(T), NEW x \in 1..Len(s), NEW v \in T
    PROVE  /\ [s EXCEPT ![x] = v] \in Seq(T)
           /\ Len([s EXCEPT ![x] = v]) = Len(s)
           /\ [s EXCEPT ![x] = v][x] = v
           /\ \A y \in 1..Len(s) : y # x => [s EXCEPT ![x] = v][y] = s[y]
OBVIOUS

LEMMA ResultReplaced ==
    ASSUME NEW sg \in Segments, NEW p, NEW v \in {0, -1}
    PROVE  /\ [sg EXCEPT !.result[p] = v] \in Segments
           /\ [sg EXCEPT !.result[p] = v].exists = sg.exists
           /\ [sg EXCEPT !.result[p] = v].result = [sg.result EXCEPT ![p] = v]
<1>1. [sg EXCEPT !.result[p] = v] = [sg EXCEPT !.result = [sg.result EXCEPT ![p] = v]]
  OBVIOUS
<1>2. PICK D \in SUBSET Processes : sg.result \in [D -> {0, -1}]
  BY DEF Segments, Results
<1>3. [sg.result EXCEPT ![p] = v] \in [D -> {0, -1}]
  BY <1>2
<1>4. [sg.result EXCEPT ![p] = v] \in Results
  BY <1>3 DEF Results
<1> DEFINE r == [sg.result EXCEPT ![p] = v]
<1>5. r \in Results /\ [sg EXCEPT !.result[p] = v] = [sg EXCEPT !.result = r]
  BY <1>1, <1>4
<1> HIDE DEF r
<1>6. /\ [sg EXCEPT !.result = r] \in Segments
      /\ [sg EXCEPT !.result = r].exists = sg.exists
      /\ [sg EXCEPT !.result = r].result = r
  BY <1>5 DEF Segments
<1>. QED  BY <1>5, <1>6 DEF r

\* A process that runs has a tester which holds a segment and has not passed it.
LEMMA RunningHas ==
    ASSUME WTInv, NEW t \in Testers, NEW p \in Processes, child[t][p].pc \notin GonePcs
    PROVE  /\ main[t].pc \in {"fork", "wait"} /\ main[t].pc \in HoldingPcs
           /\ p \in 0..(nbProcess[t] - 1) /\ p \in Forked(t) /\ p \notin Past(t)
           /\ main[t].shmid \in 1..Len(segment)
<1>1. child[t][p].pc # "none" /\ child[t][p].pc # "reaped"
  BY DEF GonePcs
<1>2. p \in Forked(t) /\ p \notin Past(t)
  BY <1>1 DEF WTInv, WaitInv
<1>3. main[t].pc \in {"fork", "wait"}
  BY <1>2 DEF Forked, Past
<1>4. /\ main[t].proc < nbProcess[t] /\ main[t].proc \in Nat /\ nbProcess[t] \in Nat
  BY <1>3 DEF WTInv, WaitInv, WTTypeOK, MainRecords
<1>5. p \in 0..(nbProcess[t] - 1)
  BY <1>2, <1>3, <1>4 DEF Forked
<1>6. main[t].shmid \in 1..Len(segment)
  <2>1. main[t].shmid \in 0..Len(segment) /\ main[t].shmid # 0
    BY <1>3 DEF WTInv, KeyInv, HoldingPcs
  <2>2. Len(segment) \in Nat
    BY DEF WTInv, WTTypeOK
  <2>. QED  BY <2>1, <2>2
<1>. QED  BY <1>2, <1>3, <1>5, <1>6 DEF HoldingPcs

LEMMA ChildMovesRest ==
    ASSUME WTInv, NEW t \in Testers, NEW p \in Processes, NEW to, NEW n,
           ChildMoves(t, p, to, n), shmkey' = shmkey,
           \/ segment' = segment /\ Outcome(to) = 0
           \/ /\ segment' = [segment EXCEPT ![main[t].shmid].result[p] = to.res]
              /\ to.pc = "ended"
    PROVE  WTTypeOK' /\ WaitInv' /\ KeyInv' /\ OwnInv'
<1> DEFINE c == child[t][p]
           id == main[t].shmid
<1>1. /\ c.pc \notin GonePcs /\ to \in ChildRecords /\ to.pc # "none" /\ to.res \in {0, -1}
      /\ n \in {0, name[p], Len(inode) + 1}
      /\ met' = met /\ ckeck_mode' = ckeck_mode /\ nbProcess' = nbProcess
      /\ main' = main /\ crossed' = crossed
      /\ child' = [child EXCEPT ![t][p] = to] /\ name' = [name EXCEPT ![p] = n]
      /\ inode' \in Seq(Seq(Nat)) /\ mishaps' \in {mishaps, mishaps + 1}
  BY DEF ChildMoves, options, ChildRecords
<1>2. WTTypeOK
  BY DEF WTInv
<1>3. /\ child'[t][p] = to
      /\ \A u \in Testers, q \in Processes : u # t \/ q # p => child'[u][q] = child[u][q]
  BY <1>1, <1>2 DEF WTTypeOK
<1>4. /\ main[t].pc \in {"fork", "wait"} /\ main[t].pc \in HoldingPcs
      /\ p \in 0..(nbProcess[t] - 1) /\ p \in Forked(t) /\ p \notin Past(t)
      /\ id \in 1..Len(segment)
  BY <1>1, RunningHas
<1>5. /\ segment' \in Seq(Segments) /\ Len(segment') = Len(segment)
      /\ \A x \in 1..Len(segment) : x # id => segment'[x] = segment[x]
      /\ segment'[id].exists = segment[id].exists
      /\ \/ segment'[id].result = segment[id].result /\ Outcome(to) = 0
         \/ /\ to.pc = "ended"
            /\ segment'[id].result = [segment[id].result EXCEPT ![p] = to.res]
  <2>0. segment \in Seq(Segments) /\ segment[id] \in Segments
    BY <1>2, <1>4 DEF WTTypeOK
  <2>1. CASE segment' = segment /\ Outcome(to) = 0
    BY <2>0, <2>1
  <2>2. CASE segment' = [segment EXCEPT ![main[t].shmid].result[p] = to.res] /\ to.pc = "ended"
    <3> DEFINE new == [segment[id] EXCEPT !.result[p] = to.res]
    <3>1. /\ segment' = [segment EXCEPT ![id].result[p] = to.res]
          /\ to.pc = "ended"
      BY <2>2
    <3>2. segment' = [segment EXCEPT ![id] = new]
      BY <3>1
    <3>3. /\ new \in Segments /\ new.exists = segment[id].exists
          /\ new.result = [segment[id].result EXCEPT ![p] = to.res]
      <4>1. /\ [segment[id] EXCEPT !.result[p] = to.res] \in Segments
            /\ [segment[id] EXCEPT !.result[p] = to.res].exists = segment[id].exists
            /\ [segment[id] EXCEPT !.result[p] = to.res].result =
                   [segment[id].result EXCEPT ![p] = to.res]
        BY <2>0, <1>1, ResultReplaced
      <4> HIDE DEF id
      <4>. QED  BY <4>1
    <3> HIDE DEF new, id
    <3>4. /\ segment' \in Seq(Segments) /\ Len(segment') = Len(segment)
          /\ segment'[id] = new
          /\ \A x \in 1..Len(segment) : x # id => segment'[x] = segment[x]
      BY <2>0, <3>2, <3>3, <1>4, ReplacedIn
    <3>5. to.pc = "ended"
      BY <3>1
    <3>. QED  BY <3>3, <3>4, <3>5
  <2>. QED  BY <2>1, <2>2
<1> HIDE DEF c, id
<1>6. WTTypeOK'
  <2>1. child' \in [Testers -> [Processes -> ChildRecords]]
    BY <1>1, <1>2 DEF WTTypeOK
  <2>2. name' \in [Processes -> Nat]
    BY <1>1, <1>2 DEF WTTypeOK
  <2>3. mishaps' \in Nat
    BY <1>1, <1>2 DEF WTTypeOK
  <2>. QED
    BY <1>1, <1>2, <1>5, <2>1, <2>2, <2>3
    DEF WTTypeOK, Segments, Results, MainRecords, MainPcs, ChildRecords, ChildPcs, ReadBuffer
<1>7. WaitInv'
  <2>1. \A u \in Testers : Forked(u)' = Forked(u) /\ Past(u)' = Past(u)
    BY <1>1 DEF Forked, Past
  <2>2. \A u \in Testers, q \in Processes :
            /\ child'[u][q].pc = "none" => child'[u][q] = Unforked
            /\ q \notin Forked(u) => child'[u][q].pc = "none"
            /\ q \in Past(u) => child'[u][q].pc \in {"none", "reaped"}
    BY <1>1, <1>3, <1>4 DEF WTInv, WaitInv
  <2>3. \A u \in Testers :
            /\ main[u].pc \in {"fork", "wait"} => main[u].proc < nbProcess[u]
            /\ main[u].pc \in SettingPcs \cup {"options"} =>
                   main[u].proc = 0 /\ (main[u].pc # "options" => nbProcess[u] > 0)
    BY DEF WTInv, WaitInv
  <2>4. Unforked' = Unforked
    BY DEF Unforked, Blank, ReadBuffer
  <2>. QED  BY <1>1, <2>1, <2>2, <2>3, <2>4 DEF WaitInv
<1>8. KeyInv'
  BY <1>1, <1>5 DEF WTInv, KeyInv
<1>9. OwnInv'
  <2> SUFFICES ASSUME ~ crossed PROVE OwnInv'
    BY <1>1 DEF OwnInv
  <2>1. /\ \A u, v \in Testers :
              main[u].pc \in SettingPcs /\ main[v].pc \in SettingPcs => u = v
        /\ \A u, v \in Testers :
              main[u].pc \in HoldingPcs /\ main[v].pc \in HoldingPcs
                 /\ main[u].shmid = main[v].shmid => u = v
        /\ \A u \in Testers :
              /\ main[u].pc = "remove" => shmkey \in {0, main[u].shmid}
              /\ main[u].pc = "create" => shmkey = 0
              /\ main[u].pc = "attach" => segment[main[u].shmid].exists
              /\ main[u].pc \in HoldingPcs =>
                    segment[main[u].shmid].result =
                        [q \in 0..(nbProcess[u] - 1) |-> Outcome(child[u][q])]
              /\ main[u].pc = "exited" => main[u].failures = Cardinality(Failed(u))
    BY DEF WTInv, OwnInv
  <2>2. \A u \in Testers : main[u].pc = "attach" => segment'[main[u].shmid].exists
    <3> SUFFICES ASSUME NEW u \in Testers, main[u].pc = "attach"
                 PROVE  segment'[main[u].shmid].exists
      OBVIOUS
    <3>1. main[u].shmid \in 1..Len(segment)
      <4>1. main[u].shmid \in 0..Len(segment) /\ main[u].shmid # 0
        BY DEF WTInv, KeyInv, HoldingPcs
      <4>. QED  BY <4>1
    <3>. QED  BY <3>1, <2>1, <1>5
  <2>3. ASSUME NEW u \in Testers, main[u].pc \in HoldingPcs
        PROVE  segment'[main[u].shmid].result =
                   [q \in 0..(nbProcess[u] - 1) |-> Outcome(child'[u][q])]
    <3>1. main[u].shmid \in 1..Len(segment)
      <4>1. main[u].shmid \in 0..Len(segment) /\ main[u].shmid # 0
        BY <2>3 DEF WTInv, KeyInv
      <4>. QED  BY <4>1
    <3>2. \A q \in 0..(nbProcess[u] - 1) : q \in Processes
      BY <1>2 DEF WTTypeOK
    <3>3. segment[main[u].shmid].result =
              [q \in 0..(nbProcess[u] - 1) |-> Outcome(child[u][q])]
      BY <2>1, <2>3
    <3>4. CASE u # t
      <4>1. segment'[main[u].shmid] = segment[main[u].shmid]
        BY <3>1, <3>4, <2>1, <2>3, <1>4, <1>5 DEF id
      <4>2. \A q \in 0..(nbProcess[u] - 1) : child'[u][q] = child[u][q]
        BY <3>2, <3>4, <1>3
      <4>. QED  BY <3>3, <4>1, <4>2
    <3>5. CASE u = t
      <4>1. Outcome(c) = 0
        BY <1>1 DEF Outcome
      <4>2. \A q \in 0..(nbProcess[t] - 1) :
                Outcome(child'[t][q]) = IF q = p THEN Outcome(to) ELSE Outcome(child[t][q])
        BY <3>2, <3>5, <1>3
      <4>3. CASE segment'[id].result = segment[id].result /\ Outcome(to) = 0
        <5>1. \A q \in 0..(nbProcess[t] - 1) : Outcome(child'[t][q]) = Outcome(child[t][q])
          BY <4>1, <4>2, <4>3 DEF c
        <5>. QED  BY <3>3, <3>5, <4>3, <5>1 DEF id
      <4>4. CASE /\ to.pc = "ended"
                 /\ segment'[id].result = [segment[id].result EXCEPT ![p] = to.res]
        <5>1. Outcome(to) = to.res
          BY <4>4 DEF Outcome, GonePcs
        <5>2. \A q \in 0..(nbProcess[t] - 1) : Outcome(child'[t][q]) =
                  IF q = p THEN to.res ELSE Outcome(child[t][q])
          BY <4>2, <5>1
        <5>3. segment'[id].result = [q \in 0..(nbProcess[t] - 1) |->
                  IF q = p THEN to.res ELSE Outcome(child[t][q])]
          BY <3>3, <3>5, <4>4, <1>4 DEF id
        <5>. QED  BY <3>5, <5>2, <5>3 DEF id
      <4>. QED  BY <4>3, <4>4, <1>5
    <3>. QED  BY <3>4, <3>5
  <2>4. \A u \in Testers : main[u].pc = "exited" => main[u].failures = Cardinality(Failed(u)')
    <3> SUFFICES ASSUME NEW u \in Testers, main[u].pc = "exited"
                 PROVE  Failed(u)' = Failed(u)
      BY <2>1
    <3>1. u # t
      BY <1>4
    <3>. QED  BY <3>1, <1>3 DEF Failed
  <2>. QED  BY <1>1, <2>1, <2>2, <2>3, <2>4 DEF OwnInv, Outcome
<1>. QED  BY <1>6, <1>7, <1>8, <1>9

\* A step of a process, which leaves the shared memory alone or reports.
LEMMA ChildMovesKeep ==
    ASSUME WTInv, NEW t \in Testers, NEW p \in Processes, NEW to, NEW n,
           ChildMoves(t, p, to, n), shmkey' = shmkey,
           \/ segment' = segment /\ Outcome(to) = 0
           \/ /\ segment' = [segment EXCEPT ![main[t].shmid].result[p] = to.res]
              /\ to.pc = "ended"
    PROVE  WTInv'
BY ChildMovesFiles, ChildMovesRest DEF WTInv

\* A block written over a file: what is read there is what is expected, and
\* elsewhere what it was.
Covered(x, offset, size) == x >= offset /\ x < offset + size
BlockIsOver(bytes, offset, size, compare, over, expected) ==
    /\ over \in Seq(Nat) /\ over # <<>> /\ expected \in [ReadBuffer -> Nat]
    /\ \A x \in ReadBuffer : Covered(x, offset, size) =>
           Byte(over, x) = expected[x] /\ expected[x] # 0
    /\ \A x \in ReadBuffer : ~ Covered(x, offset, size) =>
           Byte(over, x) = Byte(bytes, x) /\ expected[x] = compare[x]
LEMMA OverwrittenIs ==
    ASSUME NEW bytes \in Seq(Nat), NEW offset \in 0..(FileBytes - 1),
           NEW size \in 1..(BlockMax - 1), NEW compare \in [ReadBuffer -> Nat]
    PROVE  BlockIsOver(bytes, offset, size, compare, Overwritten(bytes, offset, size),
                       Expected(compare, offset, size))
<1> DEFINE n == IF Len(bytes) > offset + size THEN Len(bytes) ELSE offset + size
           u == Overwritten(bytes, offset, size)
<1>1. /\ offset \in Nat /\ size \in Nat /\ size >= 1 /\ Len(bytes) \in Nat
      /\ n \in Nat /\ n >= offset + size /\ n >= Len(bytes) /\ n >= 1
      /\ (n = offset + size \/ n = Len(bytes))
      /\ \A x \in ReadBuffer : x \in Nat
  BY WriteTestAssumption DEF ReadBuffer
<1>2. u = [x \in 1..n |-> IF x > offset /\ x <= offset + size THEN x - offset
                          ELSE IF x <= Len(bytes) THEN bytes[x] ELSE 0]
  BY DEF Overwritten
<1> HIDE DEF n, u
<1>3. u \in Seq(Nat) /\ Len(u) = n
  <2>1. \A x \in 1..n : (IF x > offset /\ x <= offset + size THEN x - offset
                          ELSE IF x <= Len(bytes) THEN bytes[x] ELSE 0) \in Nat
    BY <1>1
  <2>. QED  BY <1>1, <1>2, <2>1
<1>4. u # <<>>
  BY <1>1, <1>3
<1>5. /\ Expected(compare, offset, size) \in [ReadBuffer -> Nat]
      /\ \A x \in ReadBuffer : Expected(compare, offset, size)[x] =
             IF x >= offset /\ x < offset + size THEN x - offset + 1 ELSE compare[x]
  <2>1. \A x \in ReadBuffer : x >= offset /\ x < offset + size => x - offset + 1 \in Nat
    BY <1>1
  <2>. QED  BY <2>1 DEF Expected
<1>6. ASSUME NEW x \in ReadBuffer
      PROVE  Byte(u, x) = IF x >= offset /\ x < offset + size THEN x - offset + 1
                          ELSE Byte(bytes, x)
  <2>1. x \in Nat
    BY <1>1
  <2>2. CASE x >= offset /\ x < offset + size
    <3>1. x + 1 \in 1..n /\ x < n /\ x + 1 > offset /\ x + 1 <= offset + size
      BY <2>1, <2>2, <1>1
    <3>. QED  BY <2>1, <2>2, <3>1, <1>1, <1>2, <1>3 DEF Byte
  <2>3. CASE ~(x >= offset /\ x < offset + size) /\ x < Len(bytes)
    <3>1. x + 1 \in 1..n /\ x < n /\ ~(x + 1 > offset /\ x + 1 <= offset + size)
          /\ x + 1 <= Len(bytes)
      BY <2>1, <2>3, <1>1
    <3>. QED  BY <2>3, <3>1, <1>2, <1>3 DEF Byte
  <2>4. CASE ~(x >= offset /\ x < offset + size) /\ ~(x < Len(bytes)) /\ x < n
    <3>1. x + 1 \in 1..n /\ ~(x + 1 > offset /\ x + 1 <= offset + size)
          /\ ~(x + 1 <= Len(bytes))
      BY <2>1, <2>4, <1>1
    <3>. QED  BY <2>4, <3>1, <1>2, <1>3 DEF Byte
  <2>5. CASE ~(x >= offset /\ x < offset + size) /\ ~(x < Len(bytes)) /\ ~(x < n)
    BY <2>5, <1>3 DEF Byte
  <2>. QED  BY <2>2, <2>3, <2>4, <2>5
<1>7. \A x \in ReadBuffer : Covered(x, offset, size) =>
          /\ Byte(u, x) = x - offset + 1 /\ Expected(compare, offset, size)[x] = x - offset + 1
          /\ x - offset + 1 # 0
  BY <1>1, <1>5, <1>6 DEF Covered
<1>8. \A x \in ReadBuffer : ~ Covered(x, offset, size) =>
          Byte(u, x) = Byte(bytes, x) /\ Expected(compare, offset, size)[x] = compare[x]
  BY <1>5, <1>6 DEF Covered
<1>. QED  BY <1>3, <1>4, <1>5, <1>7, <1>8 DEF u, BlockIsOver

\* What the steps below have in common.
LEMMA ChildFacts ==
    ASSUME WTInv, NEW t \in Testers, NEW p \in Processes
    PROVE  /\ child[t][p] \in ChildRecords /\ name = [name EXCEPT ![p] = name[p]]
           /\ name[p] \in Nat /\ name[p] <= Len(inode) /\ Len(inode) \in Nat
           /\ inode \in Seq(Seq(Nat)) /\ mishaps \in Nat
           /\ child[t][p].fd \in 0..Len(inode)
           /\ p \notin met => IsAlone(child[t][p], name[p], inode, mishaps, ckeck_mode)
           /\ (child[t][p].pc \notin GonePcs \cup {"report"} /\ p \notin met) => child[t][p].res = 0
<1>1. WTTypeOK /\ NamesInv /\ AloneInv
  BY DEF WTInv
<1>2. /\ child[t][p] \in ChildRecords /\ name = [name EXCEPT ![p] = name[p]]
      /\ name[p] \in Nat /\ Len(inode) \in Nat
      /\ inode \in Seq(Seq(Nat)) /\ mishaps \in Nat
  BY <1>1 DEF WTTypeOK
<1>3. child[t][p].fd \in 0..Len(inode) /\ name[p] \in 0..Len(inode)
  BY <1>1 DEF NamesInv
<1>4. p \notin met => IsAlone(child[t][p], name[p], inode, mishaps, ckeck_mode)
  BY <1>1 DEF AloneInv
<1>5. name[p] <= Len(inode)
  BY <1>2, <1>3
<1>. QED  BY <1>2, <1>3, <1>4, <1>5 DEF IsAlone

LEMMA FailsOrKilled ==
    ASSUME WTInv, NEW t \in Testers, NEW p \in Processes,
           SystemCallFails(t, p) \/ Killed(t, p)
    PROVE  WTInv'
<1> DEFINE c == child[t][p]
<1>0. /\ c \in ChildRecords /\ name = [name EXCEPT ![p] = name[p]]
      /\ name[p] \in Nat /\ name[p] <= Len(inode) /\ Len(inode) \in Nat
      /\ inode \in Seq(Seq(Nat)) /\ mishaps \in Nat
  BY ChildFacts
<1>1. PICK to : /\ to \in {[c EXCEPT !.pc = "report", !.res = -1],
                           [c EXCEPT !.pc = "killed", !.res = 0]}
                /\ c.pc \notin GonePcs
                /\ Child(t, p, c.pc, to) /\ Mishap /\ UNCHANGED <<memory, disk>>
  BY DEF SystemCallFails, Killed, Returns, Running, GonePcs
<1>2. /\ to \in ChildRecords /\ to.fd = c.fd /\ Outcome(to) = 0 /\ to.pc # "none"
      /\ to.pc \in {"report", "killed"} /\ ~UsesFile(to)
  <2>1. /\ [c EXCEPT !.pc = "report", !.res = -1] \in ChildRecords
        /\ [c EXCEPT !.pc = "killed", !.res = 0] \in ChildRecords
    BY <1>0 DEF ChildRecords, ChildPcs, GonePcs
  <2>2. \/ to.pc = "report" /\ to.res = -1
        \/ to.pc = "killed" /\ to.res = 0
    BY <1>0, <1>1 DEF ChildRecords
  <2>3. to.fd = c.fd
    BY <1>0, <1>1 DEF ChildRecords
  <2>. QED  BY <1>1, <2>1, <2>2, <2>3 DEF Outcome, UsesFile, GonePcs, FilePcs
<1>3. mishaps' = mishaps + 1 /\ name' = name /\ inode' = inode
      /\ shmkey' = shmkey /\ segment' = segment
  BY <1>1 DEF Mishap, memory, disk
<1>4. IsAlone(to, name[p], inode', mishaps', ckeck_mode)
  <2>1. mishaps' # 0
    BY <1>0, <1>3
  <2>2. to.pc # "report" \/ to.res # 0
    BY <1>2 DEF UsesFile
  <2>. QED  BY <2>1, <2>2, <1>2 DEF IsAlone, GonePcs, FilePcs
<1>5. ChildMoves(t, p, to, name[p])
  BY <1>0, <1>1, <1>2, <1>3, <1>4 DEF ChildMoves, Child
<1>. QED  BY <1>2, <1>3, <1>5, ChildMovesKeep

LEMMA UnlinkOrOpen ==
    ASSUME WTInv, NEW t \in Testers, NEW p \in Processes,
           Unlink(t, p) \/ OpenNew(t, p)
    PROVE  WTInv'
<1> DEFINE c == child[t][p]
<1>0. /\ c \in ChildRecords /\ name = [name EXCEPT ![p] = name[p]]
      /\ name[p] \in Nat /\ name[p] <= Len(inode) /\ Len(inode) \in Nat
      /\ inode \in Seq(Seq(Nat)) /\ mishaps \in Nat
      /\ p \notin met => IsAlone(c, name[p], inode, mishaps, ckeck_mode)
  BY ChildFacts
<1>1. CASE Unlink(t, p)
  <2> DEFINE to == [c EXCEPT !.pc = "open", !.fd = 0]
  <2>1. /\ c.pc = "unlink" /\ Child(t, p, "unlink", to) /\ name' = [name EXCEPT ![p] = 0]
        /\ inode' = inode /\ mishaps' = mishaps /\ shmkey' = shmkey /\ segment' = segment
    BY <1>1 DEF Unlink, With, Child, memory
  <2>2. /\ to \in ChildRecords /\ to.pc = "open" /\ to.fd = 0
        /\ to.res = c.res /\ to.compare = c.compare
    BY <1>0 DEF ChildRecords, ChildPcs
  <2> HIDE DEF to
  <2>3. p \notin met => IsAlone(to, 0, inode, mishaps, ckeck_mode)
    BY <1>0, <2>1, <2>2 DEF IsAlone, UsesFile, GonePcs, FilePcs
  <2>4. ChildMoves(t, p, to, 0)
    <3>1. c.pc \notin GonePcs
      BY <2>1 DEF GonePcs
    <3>. QED  BY <1>0, <2>1, <2>2, <2>3, <3>1 DEF ChildMoves, Child
  <2>5. Outcome(to) = 0
    BY <2>2 DEF Outcome, GonePcs
  <2>. QED  BY <2>1, <2>4, <2>5, ChildMovesKeep
<1>2. CASE OpenNew(t, p)
  <2> DEFINE n == IF name[p] = 0 THEN Len(inode) + 1 ELSE name[p]
             to == [c EXCEPT !.pc = "write", !.fd = n]
  <2>1. /\ c.pc = "open" /\ Child(t, p, "open", to)
        /\ mishaps' = mishaps /\ shmkey' = shmkey /\ segment' = segment
    BY <1>2 DEF OpenNew, With, memory
  <2>2. /\ to \in ChildRecords /\ to.pc = "write" /\ to.fd = n
        /\ to.res = c.res /\ to.compare = c.compare
    <3>1. n \in Nat
      BY <1>0
    <3> HIDE DEF n
    <3>. QED  BY <1>0, <3>1 DEF ChildRecords, ChildPcs, FilePcs
  <2>3. /\ name' = [name EXCEPT ![p] = n]
        /\ inode' \in Seq(Seq(Nat)) /\ Len(inode') >= Len(inode) /\ n <= Len(inode')
        /\ \A id \in 1..Len(inode) : inode'[id] = inode[id]
        /\ name[p] = 0 => inode'[n] = <<>>
    <3>1. CASE name[p] = 0
      <4>1. name' = [name EXCEPT ![p] = n] /\ inode' = Append(inode, <<>>) /\ n = Len(inode) + 1
        BY <3>1, <1>2 DEF OpenNew
      <4>2. <<>> \in Seq(Nat)
        OBVIOUS
      <4> HIDE DEF n
      <4>. QED  BY <4>1, <4>2, <1>0
    <3>2. CASE name[p] # 0
      BY <3>2, <1>0, <1>2 DEF OpenNew, disk
    <3>. QED  BY <3>1, <3>2
  <2>4. n \in {0, name[p], Len(inode) + 1} /\ n \in Nat /\ (name[p] = 0 => n # 0)
    BY <1>0
  <2> HIDE DEF to, n
  <2>5. ASSUME p \notin met PROVE IsAlone(to, n, inode', mishaps', ckeck_mode)
    <3>1. /\ name[p] = 0 /\ c.compare = Blank /\ c.res = 0
      BY <1>0, <2>1, <2>5 DEF IsAlone, GonePcs
    <3>2. \A x \in ReadBuffer : Byte(inode'[n], x) = 0 /\ Blank[x] = 0
      <4>1. inode'[n] = <<>> /\ Len(<<>>) = 0 /\ \A x \in ReadBuffer : ~(x < 0)
        BY <2>3, <3>1 DEF ReadBuffer
      <4>. QED  BY <4>1 DEF Byte, Blank
    <3>3. Matches(to, inode'[n], mishaps')
      BY <2>2, <3>1, <3>2 DEF Matches, SameAt
    <3>. QED  BY <2>2, <2>4, <3>1, <3>3 DEF IsAlone, UsesFile, GonePcs, FilePcs
  <2>6. ChildMoves(t, p, to, n)
    <3>1. c.pc \notin GonePcs
      BY <2>1 DEF GonePcs
    <3>. QED  BY <1>0, <2>1, <2>2, <2>3, <2>4, <2>5, <3>1 DEF ChildMoves, Child
  <2>7. Outcome(to) = 0
    BY <2>2 DEF Outcome, GonePcs
  <2>. QED  BY <2>1, <2>6, <2>7, ChildMovesKeep
<1>. QED  BY <1>1, <1>2

LEMMA WriteKeeps ==
    ASSUME WTInv, NEW t \in Testers, NEW p \in Processes, Write(t, p)
    PROVE  WTInv'
<1> DEFINE c == child[t][p]
<1>0. /\ c \in ChildRecords /\ name = [name EXCEPT ![p] = name[p]]
      /\ name[p] \in Nat /\ name[p] <= Len(inode) /\ Len(inode) \in Nat
      /\ inode \in Seq(Seq(Nat)) /\ mishaps \in Nat /\ c.fd \in 0..Len(inode)
      /\ p \notin met => IsAlone(c, name[p], inode, mishaps, ckeck_mode)
  BY ChildFacts
<1>1. PICK offset \in 0..(FileBytes - 1), size \in 1..(BlockMax - 1) :
          /\ Child(t, p, "write", [c EXCEPT !.pc = "reopen", !.count = c.count + 1,
                                   !.compare = Expected(c.compare, offset, size)])
          /\ \/ /\ inode' = [inode EXCEPT ![c.fd] = Overwritten(inode[c.fd], offset, size)]
                /\ UNCHANGED mishaps
             \/ Mishap /\ UNCHANGED inode
          /\ UNCHANGED <<memory, name>>
  BY DEF Write
<1> DEFINE compare == Expected(c.compare, offset, size)
           to == [c EXCEPT !.pc = "reopen", !.count = c.count + 1, !.compare = compare]
           bytes == inode[c.fd]
           over == Overwritten(bytes, offset, size)
<1>2. c.compare \in [ReadBuffer -> Nat] /\ c.count \in Nat
  BY <1>0 DEF ChildRecords
<1>3. BlockIsOver(<<>>, offset, size, c.compare, Overwritten(<<>>, offset, size), compare)
  <2>1. <<>> \in Seq(Nat)
    OBVIOUS
  <2>. QED  BY <1>2, <2>1, OverwrittenIs
<1>4. /\ compare \in [ReadBuffer -> Nat]
      /\ \A x \in ReadBuffer : Covered(x, offset, size) => compare[x] # 0
      /\ \A x \in ReadBuffer : ~ Covered(x, offset, size) => compare[x] = c.compare[x]
  <2> HIDE DEF compare
  <2>. QED  BY <1>3 DEF BlockIsOver
<1>5. ASSUME c.fd # 0 PROVE BlockIsOver(bytes, offset, size, c.compare, over, compare)
  <2>1. bytes \in Seq(Nat)
    BY <1>0, <1>5
  <2> HIDE DEF bytes
  <2>. QED  BY <1>2, <2>1, OverwrittenIs
<1> HIDE DEF compare, over
<1>6. /\ to \in ChildRecords /\ to.pc = "reopen" /\ to.fd = c.fd
      /\ to.res = c.res /\ to.compare = compare
  <2> DEFINE d == [c EXCEPT !.pc = "reopen"]
             e == [d EXCEPT !.count = c.count + 1]
  <2>1. /\ d \in ChildRecords /\ d.pc = "reopen" /\ d.fd = c.fd /\ d.res = c.res
        /\ d.count = c.count /\ d.compare = c.compare
    BY <1>0 DEF ChildRecords, ChildPcs, FilePcs
  <2>2. c.count + 1 \in Nat
    BY <1>2
  <2> HIDE DEF d
  <2>3. e \in ChildRecords /\ e.pc = "reopen" /\ e.fd = c.fd /\ e.res = c.res
    BY <2>1, <2>2 DEF ChildRecords
  <2>4. to = [e EXCEPT !.compare = compare]
    BY DEF d
  <2> HIDE DEF e, to
  <2>. QED  BY <1>4, <2>3, <2>4 DEF ChildRecords
<1>7. /\ c.pc = "write" /\ Child(t, p, "write", to) /\ name' = name
      /\ shmkey' = shmkey /\ segment' = segment
  BY <1>1 DEF Child, memory, compare
<1>8. \/ inode' = [inode EXCEPT ![c.fd] = over] /\ mishaps' = mishaps
      \/ inode' = inode /\ mishaps' = mishaps + 1
  BY <1>1 DEF Mishap, over
<1> HIDE DEF to, bytes
<1>9. /\ inode' \in Seq(Seq(Nat)) /\ Len(inode') = Len(inode)
      /\ \A id \in 1..Len(inode) : id # c.fd => inode'[id] = inode[id]
  <2>1. CASE inode' = inode
    BY <1>0, <2>1
  <2>2. CASE inode' = [inode EXCEPT ![c.fd] = over] /\ c.fd = 0
    <3>1. 0 \notin DOMAIN inode
      BY <1>0
    <3>2. inode' = inode
      BY <1>0, <2>2, <3>1
    <3>. QED  BY <1>0, <3>2
  <2>3. CASE inode' = [inode EXCEPT ![c.fd] = over] /\ c.fd # 0
    <3>1. over \in Seq(Nat) /\ c.fd \in 1..Len(inode)
      BY <1>0, <1>5, <2>3 DEF BlockIsOver
    <3>. QED  BY <1>0, <2>3, <3>1
  <2>. QED  BY <1>8, <2>1, <2>2, <2>3
<1>10. ASSUME p \notin met PROVE IsAlone(to, name[p], inode', mishaps', ckeck_mode)
  <2>1. /\ c.fd # 0 /\ c.fd = name[p] /\ c.res = 0
        /\ Matches(c, bytes, mishaps)
    BY <1>0, <1>7, <1>10 DEF IsAlone, UsesFile, GonePcs, FilePcs, bytes
  <2>2. c.fd \in 1..Len(inode)
    BY <1>0, <2>1
  <2>3. CASE inode' = [inode EXCEPT ![c.fd] = over] /\ mishaps' = mishaps
    <3>1. inode'[c.fd] = over
      BY <1>0, <2>2, <2>3
    <3>2. over # <<>> /\ Matches(to, over, mishaps)
      BY <1>4, <1>5, <1>6, <2>1 DEF Matches, SameAt, BlockIsOver
    <3>. QED
      BY <1>6, <2>1, <2>3, <3>1, <3>2 DEF IsAlone, UsesFile, GonePcs, FilePcs
  <2>4. CASE inode' = inode /\ mishaps' = mishaps + 1
    <3>1. mishaps' # 0
      BY <1>0, <2>4
    <3>2. Matches(to, bytes, mishaps')
      BY <1>4, <1>6, <2>1, <3>1 DEF Matches
    <3>3. inode'[c.fd] = bytes
      BY <2>4 DEF bytes
    <3>. QED
      BY <1>6, <2>1, <3>1, <3>2, <3>3 DEF IsAlone, UsesFile, GonePcs, FilePcs
  <2>. QED  BY <1>8, <2>3, <2>4
<1>11. ChildMoves(t, p, to, name[p])
  <2>1. c.pc \notin GonePcs /\ to.pc # "none"
    BY <1>6, <1>7 DEF GonePcs
  <2>2. mishaps' \in {mishaps, mishaps + 1}
    BY <1>8
  <2>3. name' = [name EXCEPT ![p] = name[p]]
    BY <1>0, <1>7
  <2>. QED  BY <1>0, <1>6, <1>7, <1>9, <1>10, <2>1, <2>2, <2>3 DEF ChildMoves, Child
<1>12. Outcome(to) = 0
  BY <1>6 DEF Outcome, GonePcs
<1>. QED  BY <1>7, <1>11, <1>12, ChildMovesKeep

\* A step that leaves all of the files as they are.
LEMMA StaysWithFiles ==
    ASSUME WTInv, NEW t \in Testers, NEW p \in Processes, NEW to \in ChildRecords,
           child[t][p].pc \in FilePcs, to.pc \in {"write", "check", "close", "report"},
           child' = [child EXCEPT ![t][p] = to], to.fd \in {child[t][p].fd, name[p]},
           p \notin met => IsAlone(to, name[p], inode, mishaps, ckeck_mode),
           UNCHANGED <<options, main, crossed, met, memory, disk, mishaps>>
    PROVE  WTInv'
<1> DEFINE c == child[t][p]
<1>0. /\ c \in ChildRecords /\ name = [name EXCEPT ![p] = name[p]]
      /\ name[p] \in Nat /\ name[p] <= Len(inode) /\ Len(inode) \in Nat
      /\ inode \in Seq(Seq(Nat)) /\ mishaps \in Nat
  BY ChildFacts
<1>1. /\ name' = name /\ inode' = inode /\ mishaps' = mishaps /\ shmkey' = shmkey
      /\ segment' = segment
  BY DEF memory, disk
<1>2. c.pc \notin GonePcs /\ to.pc # "none" /\ Outcome(to) = 0
  BY DEF GonePcs, FilePcs, Outcome
<1>3. ChildMoves(t, p, to, name[p])
  BY <1>0, <1>1, <1>2 DEF ChildMoves
<1>. QED  BY <1>1, <1>2, <1>3, ChildMovesKeep

LEMMA ReopenKeeps ==
    ASSUME WTInv, NEW t \in Testers, NEW p \in Processes,
           Reopen(t, p, "reopen", "check") \/ Reopen(t, p, "close", "write")
    PROVE  WTInv'
<1> DEFINE c == child[t][p]
<1>0. /\ c \in ChildRecords /\ name[p] \in Nat
      /\ p \notin met => IsAlone(c, name[p], inode, mishaps, ckeck_mode)
  BY ChildFacts
<1>1. PICK step \in {"check", "write"} :
          /\ c.pc \in {"reopen", "close"}
          /\ Child(t, p, c.pc, IF name[p] = 0 THEN [c EXCEPT !.pc = "report", !.res = -1]
                               ELSE [c EXCEPT !.pc = step, !.fd = name[p]])
          /\ UNCHANGED <<memory, disk, mishaps>>
  BY DEF Reopen, Child, Returns, With
<1>2. p \notin met =>
          /\ c.fd # 0 /\ c.fd = name[p] /\ c.res = 0 /\ Matches(c, inode[c.fd], mishaps)
          /\ mishaps = 0 => inode[c.fd] # <<>>
  BY <1>0, <1>1 DEF IsAlone, UsesFile, GonePcs, FilePcs
<1>3. CASE name[p] = 0
  <2> DEFINE to == [c EXCEPT !.pc = "report", !.res = -1]
  <2>1. to \in ChildRecords /\ to.pc = "report" /\ to.fd = c.fd
    BY <1>0 DEF ChildRecords, ChildPcs
  <2>2. child' = [child EXCEPT ![t][p] = to] /\ UNCHANGED <<options, main, crossed, met>>
    BY <1>1, <1>3 DEF Child
  <2> HIDE DEF to
  <2>. QED  BY <1>1, <1>2, <1>3, <2>1, <2>2, StaysWithFiles DEF FilePcs
<1>4. CASE name[p] # 0
  <2> DEFINE to == [c EXCEPT !.pc = step, !.fd = name[p]]
  <2>1. /\ to \in ChildRecords /\ to.pc = step /\ to.fd = name[p] /\ to.res = c.res
        /\ to.compare = c.compare
    BY <1>0 DEF ChildRecords, ChildPcs, FilePcs
  <2>2. child' = [child EXCEPT ![t][p] = to] /\ UNCHANGED <<options, main, crossed, met>>
    BY <1>1, <1>4 DEF Child
  <2> HIDE DEF to
  <2>3. p \notin met => IsAlone(to, name[p], inode, mishaps, ckeck_mode)
    <3>1. p \notin met => Matches(to, inode[c.fd], mishaps)
      BY <1>2, <2>1 DEF Matches, SameAt
    <3>. QED  BY <1>2, <2>1, <3>1 DEF IsAlone, UsesFile, GonePcs, FilePcs
  <2>. QED  BY <1>1, <2>1, <2>2, <2>3, StaysWithFiles DEF FilePcs
<1>. QED  BY <1>3, <1>4

\* What a check finds: an alone process that nothing went wrong for agrees
\* with its file wherever it looks.
LEMMA CheckKeeps ==
    ASSUME WTInv, NEW t \in Testers, NEW p \in Processes, Check(t, p)
    PROVE  WTInv'
<1> DEFINE c == child[t][p]
           bytes == inode[c.fd]
<1>0. /\ c \in ChildRecords /\ name[p] \in Nat
      /\ p \notin met => IsAlone(c, name[p], inode, mishaps, ckeck_mode)
  BY ChildFacts
<1>1. PICK range, to :
          /\ range \in Ranges(t, p)
          /\ c.pc = "check" /\ Child(t, p, "check", to) /\ UNCHANGED <<memory, disk, mishaps>>
          /\ \/ /\ ~ Agrees(t, p, range) \/ (ckeck_mode = "total" /\ range = {})
                /\ to = [c EXCEPT !.pc = "report", !.res = -1]
             \/ /\ Agrees(t, p, range)
                /\ to = [c EXCEPT !.pc = "report", !.res = 0]
             \/ to = [c EXCEPT !.pc = "close", !.fd = c.fd]
  BY DEF Check, Returns, With
<1>2. p \notin met =>
          /\ c.fd # 0 /\ c.fd = name[p] /\ c.res = 0 /\ Matches(c, bytes, mishaps)
          /\ mishaps = 0 => bytes # <<>>
  BY <1>0, <1>1 DEF IsAlone, UsesFile, GonePcs, FilePcs
<1>3. \A x : Content(t, p, x) = Byte(bytes, x)
  BY DEF Content, Byte
<1>4. child' = [child EXCEPT ![t][p] = to] /\ UNCHANGED <<options, main, crossed, met>>
  BY <1>1 DEF Child
<1>5. CASE /\ ~ Agrees(t, p, range) \/ (ckeck_mode = "total" /\ range = {})
           /\ to = [c EXCEPT !.pc = "report", !.res = -1]
  <2>1. to \in ChildRecords /\ to.pc = "report" /\ to.res = -1 /\ to.fd = c.fd
    BY <1>0, <1>5 DEF ChildRecords, ChildPcs
  <2>2. ASSUME p \notin met PROVE mishaps # 0
    <3> SUFFICES ASSUME mishaps = 0 PROVE FALSE
      OBVIOUS
    <3>1. bytes # <<>> /\ \A x \in ReadBuffer : Content(t, p, x) = c.compare[x]
      BY <1>2, <1>3, <2>2 DEF Matches, SameAt
    <3>2. range \subseteq ReadBuffer
      <4>1. CASE ckeck_mode = "total"
        BY <1>1, <4>1 DEF Ranges, Read
      <4>2. CASE ckeck_mode = "partial"
        BY <1>1, <4>2 DEF Ranges
      <4>3. CASE ckeck_mode = "random"
        <5>1. PICK o \in 0..(FileBytes - 1), s \in 1..(BlockMax - 1) : range = o..(o + s - 1)
          BY <1>1, <4>3 DEF Ranges
        <5>. QED  BY <5>1, WriteTestAssumption DEF ReadBuffer
      <4>. QED  BY <4>1, <4>2, <4>3 DEF WTInv, WTTypeOK
    <3>3. Agrees(t, p, range)
      BY <3>1, <3>2 DEF Agrees
    <3>4. ckeck_mode = "total" /\ range = {}
      BY <1>5, <3>3
    <3>5. c.fd \in 1..Len(inode) /\ inode \in Seq(Seq(Nat))
      BY <1>2, <2>2, ChildFacts
    <3>6. bytes \in Seq(Nat) /\ Len(bytes) > 0
      <4>1. bytes \in Seq(Nat)
        BY <3>5
      <4> HIDE DEF bytes
      <4>. QED  BY <3>1, <4>1
    <3>7. 0 \in ReadBuffer
      BY WriteTestAssumption DEF ReadBuffer
    <3>8. 0 \in Read(t, p)
      BY <3>6, <3>7 DEF Read
    <3>. QED  BY <1>1, <3>4, <3>8 DEF Ranges
  <2>3. p \notin met => IsAlone(to, name[p], inode, mishaps, ckeck_mode)
    BY <2>1, <2>2 DEF IsAlone, UsesFile, GonePcs, FilePcs
  <2>. QED  BY <1>1, <1>4, <2>1, <2>3, StaysWithFiles DEF FilePcs
<1>6. CASE Agrees(t, p, range) /\ to = [c EXCEPT !.pc = "report", !.res = 0]
  <2>1. /\ to \in ChildRecords /\ to.pc = "report" /\ to.res = 0 /\ to.fd = c.fd
        /\ to.compare = c.compare
    BY <1>0, <1>6 DEF ChildRecords, ChildPcs
  <2>2. ASSUME p \notin met PROVE FoundGood(to, bytes, ckeck_mode)
    <3>1. \A x \in range : Byte(bytes, x) = c.compare[x]
      BY <1>3, <1>6 DEF Agrees
    <3>2. ASSUME ckeck_mode = "total", NEW x \in ReadBuffer, x < Len(bytes)
          PROVE  Byte(bytes, x) = c.compare[x]
      <4>1. x \in range
        BY <1>1, <3>2 DEF Ranges, Read
      <4>. QED  BY <3>1, <4>1
    <3>3. ASSUME ckeck_mode = "partial", NEW x \in ReadBuffer
          PROVE  Byte(bytes, x) = c.compare[x]
      <4>1. range = {d \in ReadBuffer : c.compare[d] # 0}
        BY <1>1, <3>3 DEF Ranges
      <4>2. CASE c.compare[x] # 0
        BY <3>1, <3>3, <4>1, <4>2
      <4>3. CASE c.compare[x] = 0
        BY <1>2, <2>2, <4>3 DEF Matches
      <4>. QED  BY <4>2, <4>3
    <3>. QED  BY <2>1, <3>2, <3>3 DEF FoundGood, SameAt
  <2>3. ASSUME p \notin met PROVE IsAlone(to, name[p], inode, mishaps, ckeck_mode)
    <3>1. Matches(to, bytes, mishaps)
      BY <1>2, <2>1, <2>3 DEF Matches, SameAt
    <3>. QED  BY <1>2, <2>1, <2>2, <2>3, <3>1 DEF IsAlone, UsesFile, GonePcs, FilePcs
  <2>. QED  BY <1>1, <1>4, <2>1, <2>3, StaysWithFiles DEF FilePcs
<1>7. CASE to = [c EXCEPT !.pc = "close", !.fd = c.fd]
  <2>1. /\ to \in ChildRecords /\ to.pc = "close" /\ to.res = c.res /\ to.fd = c.fd
        /\ to.compare = c.compare
    BY <1>0, <1>7 DEF ChildRecords, ChildPcs, FilePcs
  <2>2. ASSUME p \notin met PROVE IsAlone(to, name[p], inode, mishaps, ckeck_mode)
    <3>1. Matches(to, bytes, mishaps)
      BY <1>2, <2>1, <2>2 DEF Matches, SameAt
    <3>. QED  BY <1>2, <2>1, <2>2, <3>1 DEF IsAlone, UsesFile, GonePcs, FilePcs
  <2>. QED  BY <1>1, <1>4, <2>1, <2>2, StaysWithFiles DEF FilePcs
<1>. QED  BY <1>1, <1>5, <1>6, <1>7

LEMMA ReportKeeps ==
    ASSUME WTInv, NEW t \in Testers, NEW p \in Processes, Report(t, p)
    PROVE  WTInv'
<1> DEFINE c == child[t][p]
           to == [c EXCEPT !.pc = "ended"]
<1>0. /\ c \in ChildRecords /\ name = [name EXCEPT ![p] = name[p]]
      /\ name[p] \in Nat /\ name[p] <= Len(inode) /\ Len(inode) \in Nat
      /\ inode \in Seq(Seq(Nat)) /\ mishaps \in Nat
      /\ p \notin met => IsAlone(c, name[p], inode, mishaps, ckeck_mode)
  BY ChildFacts
<1>1. /\ c.pc = "report" /\ child' = [child EXCEPT ![t][p] = to]
      /\ UNCHANGED <<options, main, crossed, met>>
      /\ segment' = [segment EXCEPT ![main[t].shmid].result[p] = c.res]
      /\ shmkey' = shmkey /\ name' = name /\ inode' = inode /\ mishaps' = mishaps
  BY DEF Report, Child, disk
<1>2. to \in ChildRecords /\ to.pc = "ended" /\ to.res = c.res /\ to.fd = c.fd
  BY <1>0 DEF ChildRecords, ChildPcs, GonePcs
<1> HIDE DEF to
<1>3. p \notin met => IsAlone(to, name[p], inode, mishaps, ckeck_mode)
  BY <1>0, <1>2 DEF IsAlone, UsesFile, GonePcs, FilePcs
<1>4. ChildMoves(t, p, to, name[p])
  <2>1. c.pc \notin GonePcs
    BY <1>1 DEF GonePcs
  <2>. QED  BY <1>0, <1>1, <1>2, <1>3, <2>1 DEF ChildMoves
<1>. QED  BY <1>1, <1>2, <1>4, ChildMovesKeep

LEMMA ChildKeeps ==
    ASSUME WTInv, NEW t \in Testers, NEW p \in Processes,
           ChildStep(t, p) \/ SystemCallFails(t, p) \/ Killed(t, p)
    PROVE  WTInv'
BY FailsOrKilled, UnlinkOrOpen, WriteKeeps, ReopenKeeps, CheckKeeps, ReportKeeps DEF ChildStep

\* What a step of a main process says of the overlap of set-ups.
LEMMA MainFacts ==
    ASSUME WTInv, NEW t \in Testers, NEW was, NEW to, Main(t, was, to)
    PROVE  /\ main[t].pc = was /\ main' = [main EXCEPT ![t] = to] /\ UNCHANGED options
           /\ main[t] \in MainRecords /\ crossed' \in BOOLEAN
           /\ ~ crossed' =>
                 /\ ~ crossed
                 /\ was \in SettingPcs \cup {"options"} =>
                       \A u \in Testers : u # t => main[u].pc \notin SettingPcs
<1>1. /\ main[t].pc = was /\ main' = [main EXCEPT ![t] = to] /\ UNCHANGED options
      /\ crossed' = \/ crossed
                    \/ /\ SettingUp(t) \/ was = "options"
                       /\ \E u \in Testers \ {t} : SettingUp(u)
  BY DEF Main
<1>2. main[t] \in MainRecords /\ crossed \in BOOLEAN
  BY DEF WTInv, WTTypeOK
<1>3. \A u \in Testers : SettingUp(u) <=> main[u].pc \in SettingPcs
  BY DEF SettingUp, SettingPcs
<1>4. crossed' \in BOOLEAN
  BY <1>1, <1>2
<1>5. ASSUME ~ crossed'
      PROVE  /\ ~ crossed
             /\ was \in SettingPcs \cup {"options"} =>
                   \A u \in Testers : u # t => main[u].pc \notin SettingPcs
  <2>1. ~ crossed /\ ~ ((SettingUp(t) \/ was = "options") /\ \E u \in Testers \ {t} : SettingUp(u))
    BY <1>1, <1>2, <1>5
  <2>. QED  BY <1>1, <1>3, <2>1
<1>. QED  BY <1>1, <1>2, <1>4, <1>5

\* A step of a main process that leaves the processes and the files alone.
MainMoves(t, to) ==
    /\ to \in MainRecords /\ main' = [main EXCEPT ![t] = to]
    /\ UNCHANGED <<options, child, disk, met>> /\ mishaps' \in {mishaps, mishaps + 1}
    /\ crossed' \in BOOLEAN
    /\ segment' \in Seq(Segments) /\ Len(segment') >= Len(segment)
    /\ shmkey' \in 0..Len(segment') /\ to.shmid \in 0..Len(segment')
    /\ to.pc \in HoldingPcs \cup {"remove"} => to.shmid # 0

LEMMA MainMovesKeep ==
    ASSUME WTInv, NEW t \in Testers, NEW to, MainMoves(t, to), WaitInv', OwnInv'
    PROVE  WTInv'
<1>1. WTTypeOK /\ KeyInv /\ NamesInv /\ AloneInv
  BY DEF WTInv
<1>2. /\ to \in MainRecords /\ main' = [main EXCEPT ![t] = to]
      /\ nbProcess' = nbProcess /\ ckeck_mode' = ckeck_mode /\ child' = child
      /\ name' = name /\ inode' = inode /\ met' = met /\ mishaps' \in {mishaps, mishaps + 1}
      /\ crossed' \in BOOLEAN /\ segment' \in Seq(Segments) /\ Len(segment') >= Len(segment)
      /\ shmkey' \in 0..Len(segment') /\ to.shmid \in 0..Len(segment')
      /\ to.pc \in HoldingPcs \cup {"remove"} => to.shmid # 0
  BY DEF MainMoves, options, disk
<1>3. WTTypeOK'
  <2>1. main' \in [Testers -> MainRecords]
    BY <1>1, <1>2 DEF WTTypeOK
  <2>2. mishaps' \in Nat /\ shmkey' \in Nat
    BY <1>1, <1>2 DEF WTTypeOK
  <2>. QED  BY <1>1, <1>2, <2>1, <2>2 DEF WTTypeOK
<1>4. KeyInv'
  <2>1. main'[t] = to /\ \A u \in Testers : u # t => main'[u] = main[u]
    BY <1>1, <1>2 DEF WTTypeOK
  <2>2. \A u \in Testers : main[u].shmid \in 0..Len(segment')
    <3>1. Len(segment) \in Nat /\ Len(segment') \in Nat
      BY <1>1, <1>2 DEF WTTypeOK
    <3>. QED  BY <1>1, <1>2, <3>1 DEF KeyInv
  <2>3. \A u \in Testers : main[u].pc \in HoldingPcs \cup {"remove"} => main[u].shmid # 0
    BY <1>1 DEF KeyInv
  <2>. QED  BY <1>2, <2>1, <2>2, <2>3 DEF KeyInv
<1>5. NamesInv' /\ AloneInv'
  <2>1. UNCHANGED <<child, disk, met, ckeck_mode>>
    BY <1>2 DEF disk
  <2>. QED  BY <1>1, <1>2, <2>1, SameFiles DEF WTTypeOK
<1>. QED  BY <1>3, <1>4, <1>5 DEF WTInv

\* A step of a set-up.
LEMMA SetUpKeeps ==
    ASSUME WTInv, NEW t \in Testers, NEW to, MainMoves(t, to),
           main[t].pc \in SettingPcs \cup {"options"},
           to.pc \in SettingPcs \cup {"fork", "refused", "crashed"}, to.proc = 0,
           to.pc \notin {"refused", "crashed"} => nbProcess[t] > 0,
           ~ crossed' =>
             /\ ~ crossed /\ \A u \in Testers : u # t => main[u].pc \notin SettingPcs
             /\ \A u \in Testers : u # t /\ main[u].pc \in HoldingPcs =>
                  /\ to.pc \in HoldingPcs => main[u].shmid # to.shmid
                  /\ segment'[main[u].shmid].result = segment[main[u].shmid].result
             /\ to.pc = "remove" => shmkey' \in {0, to.shmid}
             /\ to.pc = "create" => shmkey' = 0
             /\ to.pc = "attach" => segment'[to.shmid].exists
             /\ to.pc \in HoldingPcs => segment'[to.shmid].result = Table(t)
    PROVE  WTInv'
<1>1. WTTypeOK /\ WaitInv
  BY DEF WTInv
<1>2. main' = [main EXCEPT ![t] = to] /\ nbProcess' = nbProcess /\ child' = child
  BY DEF MainMoves, options
<1>3. main'[t] = to /\ \A u \in Testers : u # t => main'[u] = main[u]
  BY <1>1, <1>2 DEF WTTypeOK
<1>4. Forked(t) = {} /\ Forked(t)' = {} /\ Past(t)' = {}
  <2>1. Forked(t) = {}
    BY DEF Forked, SettingPcs
  <2>2. 0..(0 - 1) = {}
    OBVIOUS
  <2>. QED  BY <1>3, <2>1, <2>2 DEF Forked, Past, SettingPcs
<1>5. \A u \in Testers : u # t => Forked(u)' = Forked(u) /\ Past(u)' = Past(u)
  BY <1>2, <1>3 DEF Forked, Past
<1>6. WaitInv'
  <2> SUFFICES ASSUME NEW u \in Testers
               PROVE  /\ main'[u].pc \in {"fork", "wait"} => main'[u].proc < nbProcess[u]
                      /\ main'[u].pc \in SettingPcs \cup {"options"} =>
                             main'[u].proc = 0 /\ (main'[u].pc # "options" => nbProcess[u] > 0)
                      /\ \A p \in Processes :
                           /\ child[u][p].pc = "none" => child[u][p] = Unforked
                           /\ p \notin Forked(u)' => child[u][p].pc = "none"
                           /\ p \in Past(u)' => child[u][p].pc \in {"none", "reaped"}
    BY <1>2 DEF WaitInv
  <2>1. CASE u # t
    BY <1>1, <1>3, <1>5, <2>1 DEF WaitInv
  <2>2. CASE u = t
    <3>1. nbProcess[t] \in Nat
      BY <1>1 DEF WTTypeOK
    <3>2. /\ to.pc \in {"fork", "wait"} => to.proc < nbProcess[t]
          /\ to.pc \in SettingPcs \cup {"options"} =>
                 to.proc = 0 /\ (to.pc # "options" => nbProcess[t] > 0)
      BY <3>1 DEF SettingPcs
    <3>. QED  BY <1>1, <1>3, <1>4, <2>2, <3>2 DEF WaitInv
  <2>. QED  BY <2>1, <2>2
<1>7. OwnInv'
  <2> SUFFICES ASSUME ~ crossed' PROVE OwnInv'
    BY DEF OwnInv
  <2>1. /\ ~ crossed /\ \A u \in Testers : u # t => main[u].pc \notin SettingPcs
        /\ \A u \in Testers : u # t /\ main[u].pc \in HoldingPcs =>
             /\ to.pc \in HoldingPcs => main[u].shmid # to.shmid
             /\ segment'[main[u].shmid].result = segment[main[u].shmid].result
        /\ to.pc = "remove" => shmkey' \in {0, to.shmid}
        /\ to.pc = "create" => shmkey' = 0
        /\ to.pc = "attach" => segment'[to.shmid].exists
        /\ to.pc \in HoldingPcs => segment'[to.shmid].result = Table(t)
    OBVIOUS
  <2>2. /\ \A u, v \in Testers :
              main[u].pc \in HoldingPcs /\ main[v].pc \in HoldingPcs
                 /\ main[u].shmid = main[v].shmid => u = v
        /\ \A u \in Testers :
              /\ main[u].pc \in HoldingPcs =>
                    segment[main[u].shmid].result =
                        [p \in 0..(nbProcess[u] - 1) |-> Outcome(child[u][p])]
              /\ main[u].pc = "exited" => main[u].failures = Cardinality(Failed(u))
    BY <2>1 DEF WTInv, OwnInv
  <2>3. \A u, v \in Testers : main'[u].pc \in SettingPcs /\ main'[v].pc \in SettingPcs => u = v
    BY <1>3, <2>1
  <2>4. \A u, v \in Testers :
            main'[u].pc \in HoldingPcs /\ main'[v].pc \in HoldingPcs
               /\ main'[u].shmid = main'[v].shmid => u = v
    BY <1>3, <2>1, <2>2
  <2>5. /\ Table(t) = [p \in 0..(nbProcess[t] - 1) |-> Outcome(child[t][p])]
    <3>1. \A p \in 0..(nbProcess[t] - 1) : Outcome(child[t][p]) = 0
      <4> SUFFICES ASSUME NEW p \in 0..(nbProcess[t] - 1) PROVE Outcome(child[t][p]) = 0
        OBVIOUS
      <4>1. p \in Processes
        BY <1>1 DEF WTTypeOK
      <4>2. child[t][p] = Unforked
        BY <1>1, <1>4, <4>1 DEF WaitInv
      <4>. QED  BY <4>2 DEF Outcome, Unforked, GonePcs
    <3>. QED  BY <3>1 DEF Table
  <2>6. \A u \in Testers : Failed(u)' = Failed(u)
    BY <1>2 DEF Failed
  <2>7. ASSUME NEW u \in Testers
        PROVE  /\ main'[u].pc = "remove" => shmkey' \in {0, main'[u].shmid}
               /\ main'[u].pc = "create" => shmkey' = 0
               /\ main'[u].pc = "attach" => segment'[main'[u].shmid].exists
               /\ main'[u].pc \in HoldingPcs =>
                    segment'[main'[u].shmid].result =
                        [p \in 0..(nbProcess[u] - 1) |-> Outcome(child[u][p])]
               /\ main'[u].pc = "exited" => main'[u].failures = Cardinality(Failed(u)')
    <3>1. CASE u # t
      <4>1. main'[u] = main[u] /\ main[u].pc \notin {"remove", "create", "attach"}
        BY <1>3, <2>1, <3>1 DEF SettingPcs
      <4>. QED  BY <2>1, <2>2, <2>6, <3>1, <4>1
    <3>2. CASE u = t
      BY <1>3, <2>1, <2>5, <3>2 DEF SettingPcs
    <3>. QED  BY <3>1, <3>2
  <2>. QED  BY <1>2, <2>3, <2>4, <2>7 DEF OwnInv, Outcome
<1>. QED  BY <1>6, <1>7, MainMovesKeep

LEMMA TableIs ==
    ASSUME WTInv, NEW t \in Testers
    PROVE  /\ Table(t) \in Results
           /\ \A old \in Results : Zeroed(t, old) \in Results
           /\ \A old \in Results : DOMAIN old = DOMAIN Table(t) => Zeroed(t, old) = Table(t)
<1>1. 0..(nbProcess[t] - 1) \subseteq Processes
  BY DEF WTInv, WTTypeOK
<1>2. Table(t) \in [0..(nbProcess[t] - 1) -> {0, -1}]
  BY DEF Table
<1>3. Table(t) \in Results
  BY <1>1, <1>2 DEF Results
<1>4. ASSUME NEW old \in Results
      PROVE  /\ Zeroed(t, old) \in Results
             /\ DOMAIN old = DOMAIN Table(t) => Zeroed(t, old) = Table(t)
  <2>1. PICK D \in SUBSET Processes : old \in [D -> {0, -1}]
    BY DEF Results
  <2>2. Zeroed(t, old) \in [D -> {0, -1}]
    BY <2>1 DEF Zeroed
  <2>3. ASSUME DOMAIN old = DOMAIN Table(t) PROVE Zeroed(t, old) = Table(t)
    BY <2>3 DEF Zeroed, Table
  <2>4. Zeroed(t, old) \in Results
    BY <2>1, <2>2 DEF Results
  <2>. QED  BY <2>3, <2>4
<1>. QED  BY <1>3, <1>4

\* What the steps of a set-up have in common.
LEMMA SetUpFacts ==
    ASSUME WTInv, NEW t \in Testers, main[t].pc \in SettingPcs \cup {"options"}
    PROVE  /\ main[t] \in MainRecords /\ main[t].proc = 0
           /\ main[t].pc # "options" => nbProcess[t] > 0
           /\ segment \in Seq(Segments) /\ Len(segment) \in Nat /\ shmkey \in Nat
           /\ shmkey <= Len(segment) /\ mishaps \in Nat
           /\ \A u \in Testers : main[u].shmid \in Nat /\ main[u].shmid <= Len(segment)
           /\ \A u \in Testers : main[u].pc \in HoldingPcs \cup {"remove"} => main[u].shmid # 0
           /\ ~ crossed =>
                /\ main[t].pc = "remove" => shmkey \in {0, main[t].shmid}
                /\ main[t].pc = "create" => shmkey = 0
                /\ main[t].pc \in HoldingPcs =>
                      /\ DOMAIN segment[main[t].shmid].result = DOMAIN Table(t)
                      /\ \A u \in Testers : main[u].pc \in HoldingPcs /\ u # t =>
                             main[u].shmid # main[t].shmid
<1>1. WTTypeOK /\ WaitInv /\ KeyInv /\ OwnInv
  BY DEF WTInv
<1>2. /\ main[t] \in MainRecords /\ segment \in Seq(Segments) /\ Len(segment) \in Nat
      /\ shmkey \in Nat /\ mishaps \in Nat
  BY <1>1 DEF WTTypeOK
<1>3. main[t].proc = 0 /\ (main[t].pc # "options" => nbProcess[t] > 0)
  BY <1>1 DEF WaitInv
<1>4. /\ shmkey \in 0..Len(segment)
      /\ \A u \in Testers : main[u].shmid \in 0..Len(segment)
      /\ \A u \in Testers : main[u].pc \in HoldingPcs \cup {"remove"} => main[u].shmid # 0
  BY <1>1 DEF KeyInv
<1>5. shmkey <= Len(segment) /\ \A u \in Testers : main[u].shmid \in Nat /\ main[u].shmid <= Len(segment)
  BY <1>2, <1>4
<1>6. ASSUME ~ crossed
      PROVE  /\ main[t].pc = "remove" => shmkey \in {0, main[t].shmid}
             /\ main[t].pc = "create" => shmkey = 0
             /\ main[t].pc \in HoldingPcs =>
                   /\ DOMAIN segment[main[t].shmid].result = DOMAIN Table(t)
                   /\ \A u \in Testers : main[u].pc \in HoldingPcs /\ u # t =>
                          main[u].shmid # main[t].shmid
  BY <1>1, <1>6 DEF OwnInv, Table
<1>. QED  BY <1>2, <1>3, <1>4, <1>5, <1>6

LEMMA RefusesKeeps ==
    ASSUME WTInv, NEW t \in Testers, BadOption(t) \/ NoSegment(t)
    PROVE  WTInv'
<1> DEFINE to == [main[t] EXCEPT !.pc = "refused"]
<1>1. PICK was \in {"options", "create"} :
          /\ Main(t, was, to) /\ UNCHANGED <<child, memory, disk, met>>
          /\ mishaps' \in {mishaps, mishaps + 1}
  BY DEF BadOption, NoSegment, Mishap, At
<1>2. main[t].pc = was /\ was \in SettingPcs \cup {"options"}
  BY <1>1, MainFacts DEF SettingPcs
<1>3. /\ main[t] \in MainRecords /\ main[t].proc = 0
      /\ segment \in Seq(Segments) /\ Len(segment) \in Nat /\ shmkey \in Nat
      /\ shmkey <= Len(segment) /\ main[t].shmid \in Nat /\ main[t].shmid <= Len(segment)
  BY <1>2, SetUpFacts
<1>4. to \in MainRecords /\ to.pc = "refused" /\ to.proc = 0 /\ to.shmid = main[t].shmid
  BY <1>3 DEF MainRecords, MainPcs
<1>5. shmkey' = shmkey /\ segment' = segment
  BY <1>1 DEF memory
<1> HIDE DEF to
<1>6. MainMoves(t, to)
  <2>1. main' = [main EXCEPT ![t] = to] /\ UNCHANGED options /\ crossed' \in BOOLEAN
    BY <1>1, MainFacts
  <2>. QED  BY <1>1, <1>3, <1>4, <1>5, <2>1 DEF MainMoves, HoldingPcs
<1>7. ~ crossed' => ~ crossed /\ \A u \in Testers : u # t => main[u].pc \notin SettingPcs
  BY <1>1, <1>2, MainFacts
<1>. QED  BY <1>2, <1>4, <1>5, <1>6, <1>7, SetUpKeeps DEF HoldingPcs

LEMMA LookUpKeeps ==
    ASSUME WTInv, NEW t \in Testers, LookUp(t)
    PROVE  WTInv'
<1> DEFINE step == IF shmkey = 0 THEN "create" ELSE "remove"
           to == [[main[t] EXCEPT !.pc = step] EXCEPT !.shmid = shmkey]
<1>1. /\ nbProcess[t] > 0 /\ Main(t, "options", to)
      /\ UNCHANGED <<child, memory, disk, mishaps, met>>
  BY DEF LookUp, At
<1>2. main[t].pc = "options"
  BY <1>1, MainFacts
<1>3. /\ main[t] \in MainRecords /\ main[t].proc = 0
      /\ segment \in Seq(Segments) /\ Len(segment) \in Nat /\ shmkey \in Nat
      /\ shmkey <= Len(segment) /\ mishaps \in Nat
  BY <1>2, SetUpFacts
<1>4. /\ to \in MainRecords /\ to.pc = step /\ to.proc = 0 /\ to.shmid = shmkey
      /\ step \in {"create", "remove"} /\ (shmkey = 0 <=> step = "create")
  <2>1. step \in {"create", "remove"} /\ (shmkey = 0 <=> step = "create")
    OBVIOUS
  <2> HIDE DEF step
  <2>. QED  BY <1>3, <2>1 DEF MainRecords, MainPcs, SettingPcs
<1>5. shmkey' = shmkey /\ segment' = segment
  BY <1>1 DEF memory
<1> HIDE DEF to, step
<1>6. MainMoves(t, to)
  <2>1. main' = [main EXCEPT ![t] = to] /\ UNCHANGED options /\ crossed' \in BOOLEAN
    BY <1>1, MainFacts
  <2>. QED  BY <1>1, <1>3, <1>4, <1>5, <2>1 DEF MainMoves, HoldingPcs
<1>7. ~ crossed' => ~ crossed /\ \A u \in Testers : u # t => main[u].pc \notin SettingPcs
  BY <1>1, MainFacts
<1>. QED  BY <1>1, <1>2, <1>4, <1>5, <1>6, <1>7, SetUpKeeps DEF HoldingPcs, SettingPcs

LEMMA RemoveOldKeeps ==
    ASSUME WTInv, NEW t \in Testers, RemoveOld(t)
    PROVE  WTInv'
<1> DEFINE to == [main[t] EXCEPT !.pc = "create"]
           id == main[t].shmid
           left == [segment[id] EXCEPT !.exists = segment[id].exists /\ segment[id].attached # {}]
<1>1. /\ Main(t, "remove", to) /\ UNCHANGED <<child, disk, mishaps, met>>
      /\ shmkey' = IF shmkey = id THEN 0 ELSE shmkey
      /\ segment' = [segment EXCEPT ![id] = left]
  BY DEF RemoveOld, Removed, At
<1>2. main[t].pc = "remove" /\ main[t].pc \in SettingPcs
  BY <1>1, MainFacts DEF SettingPcs
<1>3. /\ main[t] \in MainRecords /\ main[t].proc = 0 /\ nbProcess[t] > 0
      /\ segment \in Seq(Segments) /\ Len(segment) \in Nat /\ shmkey \in Nat
      /\ shmkey <= Len(segment) /\ mishaps \in Nat /\ id \in 1..Len(segment)
      /\ ~ crossed => shmkey \in {0, id}
  <2>1. /\ id \in Nat /\ id <= Len(segment) /\ id # 0 /\ Len(segment) \in Nat
    BY <1>2, SetUpFacts
  <2>. QED  BY <1>2, <2>1, SetUpFacts
<1>4. to \in MainRecords /\ to.pc = "create" /\ to.proc = 0 /\ to.shmid = id
  BY <1>3 DEF MainRecords, MainPcs, SettingPcs
<1>5. left \in Segments /\ left.result = segment[id].result
  <2>1. segment[id] \in Segments
    BY <1>3
  <2>. QED  BY <2>1 DEF Segments
<1> HIDE DEF to, left, id
<1>6. /\ segment' \in Seq(Segments) /\ Len(segment') = Len(segment)
      /\ \A x \in 1..Len(segment) : segment'[x].result = segment[x].result
  BY <1>1, <1>3, <1>5
<1>7. shmkey' \in {0, shmkey} /\ (~ crossed => shmkey' = 0)
  BY <1>1, <1>3
<1>8. MainMoves(t, to)
  <2>1. main' = [main EXCEPT ![t] = to] /\ UNCHANGED options /\ crossed' \in BOOLEAN
    BY <1>1, MainFacts
  <2>. QED  BY <1>1, <1>3, <1>4, <1>6, <1>7, <2>1 DEF MainMoves, HoldingPcs
<1>9. ~ crossed' => ~ crossed /\ \A u \in Testers : u # t => main[u].pc \notin SettingPcs
  BY <1>1, <1>2, MainFacts
<1>10. \A u \in Testers : main[u].pc \in HoldingPcs =>
           segment'[main[u].shmid].result = segment[main[u].shmid].result
  <2> SUFFICES ASSUME NEW u \in Testers, main[u].pc \in HoldingPcs
               PROVE  main[u].shmid \in 1..Len(segment)
    BY <1>6
  <2>1. main[u].shmid \in Nat /\ main[u].shmid <= Len(segment) /\ main[u].shmid # 0
    BY <1>2, SetUpFacts
  <2>. QED  BY <1>3, <2>1
<1>. QED
  BY <1>2, <1>3, <1>4, <1>7, <1>8, <1>9, <1>10, SetUpKeeps DEF HoldingPcs, SettingPcs

LEMMA CreateKeeps ==
    ASSUME WTInv, NEW t \in Testers, Create(t)
    PROVE  WTInv'
<1>1. main[t].pc = "create" /\ main[t].pc \in SettingPcs
      /\ UNCHANGED <<child, disk, mishaps, met>>
  BY DEF Create, SettingPcs
<1>2. /\ main[t] \in MainRecords /\ main[t].proc = 0 /\ nbProcess[t] > 0
      /\ segment \in Seq(Segments) /\ Len(segment) \in Nat /\ shmkey \in Nat
      /\ shmkey <= Len(segment) /\ mishaps \in Nat /\ main[t].shmid \in Nat
      /\ main[t].shmid <= Len(segment) /\ (~ crossed => shmkey = 0)
      /\ \A u \in Testers : main[u].shmid \in Nat /\ main[u].shmid <= Len(segment)
      /\ \A u \in Testers : main[u].pc \in HoldingPcs => main[u].shmid # 0
  BY <1>1, SetUpFacts
<1>3. CASE shmkey = 0
  <2> DEFINE new == [exists |-> TRUE, attached |-> {}, result |-> Table(t)]
             id == Len(segment) + 1
             to == [[main[t] EXCEPT !.pc = "attach"] EXCEPT !.shmid = id]
  <2>1. Main(t, "create", to) /\ shmkey' = id /\ segment' = Append(segment, new)
    BY <1>3 DEF Create, At
  <2>2. new \in Segments /\ new.exists /\ new.result = Table(t)
    BY TableIs DEF Segments
  <2>3. id \in Nat /\ id > Len(segment)
    BY <1>2
  <2> HIDE DEF id, new
  <2>4. to \in MainRecords /\ to.pc = "attach" /\ to.proc = 0 /\ to.shmid = id
    BY <1>2, <2>3 DEF MainRecords, MainPcs, SettingPcs
  <2>5. /\ segment' \in Seq(Segments) /\ Len(segment') = id /\ segment'[id] = new
        /\ \A x \in 1..Len(segment) : segment'[x] = segment[x]
    BY <1>2, <2>1, <2>2 DEF id
  <2> HIDE DEF to
  <2>6. MainMoves(t, to)
    <3>1. main' = [main EXCEPT ![t] = to] /\ UNCHANGED options /\ crossed' \in BOOLEAN
      BY <2>1, MainFacts
    <3>2. Len(segment') >= Len(segment) /\ id \in 0..Len(segment') /\ id # 0
      BY <1>2, <2>3, <2>5
    <3>. QED  BY <1>1, <2>1, <2>4, <2>5, <3>1, <3>2 DEF MainMoves
  <2>7. ~ crossed' => ~ crossed /\ \A u \in Testers : u # t => main[u].pc \notin SettingPcs
    BY <1>1, <2>1, MainFacts
  <2>8. ASSUME NEW u \in Testers, main[u].pc \in HoldingPcs
        PROVE  /\ main[u].shmid # to.shmid
               /\ segment'[main[u].shmid].result = segment[main[u].shmid].result
    <3>1. main[u].shmid \in 1..Len(segment)
      BY <1>2, <2>8
    <3>. QED  BY <1>2, <2>3, <2>4, <2>5, <3>1
  <2>. QED
    BY <1>1, <1>2, <2>2, <2>4, <2>5, <2>6, <2>7, <2>8, SetUpKeeps DEF SettingPcs
<1>4. CASE shmkey # 0
  <2>1. PICK to : /\ Main(t, "create", to) /\ UNCHANGED memory
                  /\ to \in {[[main[t] EXCEPT !.pc = "attach"] EXCEPT !.shmid = shmkey],
                             [main[t] EXCEPT !.pc = "refused"]}
    BY <1>4 DEF Create, At
  <2>2. /\ to \in MainRecords /\ to.pc \in {"attach", "refused"} /\ to.proc = 0
        /\ to.shmid \in Nat /\ to.shmid <= Len(segment)
        /\ to.pc = "attach" => to.shmid # 0
    <3> DEFINE a == [[main[t] EXCEPT !.pc = "attach"] EXCEPT !.shmid = shmkey]
               b == [main[t] EXCEPT !.pc = "refused"]
    <3>1. a \in MainRecords /\ a.pc = "attach" /\ a.proc = 0 /\ a.shmid = shmkey
      BY <1>2 DEF MainRecords, MainPcs, SettingPcs
    <3>2. b \in MainRecords /\ b.pc = "refused" /\ b.proc = 0 /\ b.shmid = main[t].shmid
      BY <1>2 DEF MainRecords, MainPcs
    <3>3. to = a \/ to = b
      BY <2>1
    <3> HIDE DEF a, b
    <3>. QED  BY <1>2, <1>4, <3>1, <3>2, <3>3
  <2>3. shmkey' = shmkey /\ segment' = segment
    BY <2>1 DEF memory
  <2>4. MainMoves(t, to)
    <3>1. main' = [main EXCEPT ![t] = to] /\ UNCHANGED options /\ crossed' \in BOOLEAN
      BY <2>1, MainFacts
    <3>. QED  BY <1>1, <1>2, <2>2, <2>3, <3>1 DEF MainMoves, HoldingPcs
  <2>5. ~ crossed' => FALSE
    <3>1. ~ crossed' => ~ crossed
      BY <2>1, MainFacts
    <3>. QED  BY <1>2, <1>4, <3>1
  <2>. QED  BY <1>1, <1>2, <2>2, <2>4, <2>5, SetUpKeeps DEF SettingPcs
<1>. QED  BY <1>3, <1>4

LEMMA AttachKeeps ==
    ASSUME WTInv, NEW t \in Testers, Attach(t)
    PROVE  WTInv'
<1> DEFINE id == main[t].shmid
           seg == segment[id]
<1>1. main[t].pc = "attach" /\ main[t].pc \in SettingPcs /\ main[t].pc \in HoldingPcs
      /\ UNCHANGED <<child, disk, mishaps, met>> /\ shmkey' = shmkey
  BY DEF Attach, SettingPcs, HoldingPcs
<1>2. /\ main[t] \in MainRecords /\ main[t].proc = 0 /\ nbProcess[t] > 0
      /\ segment \in Seq(Segments) /\ Len(segment) \in Nat /\ shmkey \in Nat
      /\ shmkey <= Len(segment) /\ mishaps \in Nat /\ id \in Nat /\ id <= Len(segment) /\ id # 0
      /\ ~ crossed =>
            /\ DOMAIN seg.result = DOMAIN Table(t)
            /\ \A u \in Testers : main[u].pc \in HoldingPcs /\ u # t => main[u].shmid # id
      /\ \A u \in Testers : main[u].shmid \in Nat /\ main[u].shmid <= Len(segment)
      /\ \A u \in Testers : main[u].pc \in HoldingPcs => main[u].shmid # 0
  BY <1>1, SetUpFacts
<1>3. id \in 1..Len(segment) /\ seg \in Segments
  BY <1>2
<1>4. CASE seg.exists
  <2> DEFINE to == [main[t] EXCEPT !.pc = "fork"]
             held == [seg EXCEPT !.attached = seg.attached \cup {t}]
             new == [held EXCEPT !.result = Zeroed(t, seg.result)]
  <2>1. Main(t, "attach", to)
    BY <1>4 DEF Attach, At
  <2>2. segment' = [segment EXCEPT ![id] = new]
    BY <1>2, <1>3, <1>4 DEF Attach
  <2>3. /\ held \in Segments /\ seg.result \in Results
    BY <1>3 DEF Segments
  <2>4. Zeroed(t, seg.result) \in Results
        /\ (DOMAIN seg.result = DOMAIN Table(t) => Zeroed(t, seg.result) = Table(t))
    BY <2>3, TableIs
  <2> HIDE DEF held
  <2>5. new \in Segments /\ new.result = Zeroed(t, seg.result)
    BY <2>3, <2>4 DEF Segments
  <2>6. to \in MainRecords /\ to.pc = "fork" /\ to.proc = 0 /\ to.shmid = id
    BY <1>2 DEF MainRecords, MainPcs, HoldingPcs
  <2> HIDE DEF new, to, seg
  <2>7. /\ segment' \in Seq(Segments) /\ Len(segment') = Len(segment) /\ segment'[id] = new
        /\ \A x \in 1..Len(segment) : x # id => segment'[x] = segment[x]
    BY <1>2, <1>3, <2>2, <2>5
  <2>8. MainMoves(t, to)
    <3>1. main' = [main EXCEPT ![t] = to] /\ UNCHANGED options /\ crossed' \in BOOLEAN
      BY <2>1, MainFacts
    <3>. QED  BY <1>1, <1>2, <2>6, <2>7, <3>1 DEF MainMoves
  <2>9. ~ crossed' => ~ crossed /\ \A u \in Testers : u # t => main[u].pc \notin SettingPcs
    BY <1>1, <2>1, MainFacts
  <2>10. ASSUME ~ crossed', NEW u \in Testers, u # t, main[u].pc \in HoldingPcs
         PROVE  /\ main[u].shmid # id
                /\ segment'[main[u].shmid].result = segment[main[u].shmid].result
    <3>1. main[u].shmid \in 1..Len(segment) /\ main[u].shmid # id
      BY <1>2, <2>9, <2>10
    <3>. QED  BY <2>7, <3>1
  <2>11. ~ crossed' => segment'[id].result = Table(t)
    BY <1>2, <2>4, <2>5, <2>7, <2>9
  <2>. QED
    BY <1>1, <1>2, <2>6, <2>8, <2>9, <2>10, <2>11, SetUpKeeps DEF SettingPcs
<1>5. CASE ~ seg.exists
  <2> DEFINE to == [main[t] EXCEPT !.pc = "crashed"]
  <2>1. Main(t, "attach", to) /\ segment' = segment
    BY <1>5 DEF Attach, At
  <2>2. to \in MainRecords /\ to.pc = "crashed" /\ to.proc = 0 /\ to.shmid = id
    BY <1>2 DEF MainRecords, MainPcs
  <2> HIDE DEF to
  <2>3. MainMoves(t, to)
    <3>1. main' = [main EXCEPT ![t] = to] /\ UNCHANGED options /\ crossed' \in BOOLEAN
      BY <2>1, MainFacts
    <3>. QED  BY <1>1, <1>2, <2>1, <2>2, <3>1 DEF MainMoves, HoldingPcs
  <2>4. ~ crossed' => ~ crossed /\ \A u \in Testers : u # t => main[u].pc \notin SettingPcs
    BY <1>1, <2>1, MainFacts
  <2>. QED  BY <1>1, <2>1, <2>2, <2>3, <2>4, SetUpKeeps DEF HoldingPcs
<1>. QED  BY <1>4, <1>5

\* A step of the main process that forks or waits: nc is what becomes of its
\* process q.
MainChild(t, to, q, nc) ==
    /\ main[t].pc \in {"fork", "wait"} /\ to.pc \in {"fork", "wait", "count"}
    /\ to \in MainRecords /\ main' = [main EXCEPT ![t] = to] /\ to.shmid = main[t].shmid
    /\ nc \in ChildRecords /\ child' = [child EXCEPT ![t][q] = nc]
    /\ Outcome(nc) = Outcome(child[t][q]) /\ nc.fd = child[t][q].fd
    /\ met \subseteq met' /\ met' \subseteq Processes
    /\ q \notin met' =>
         /\ IsAlone(nc, name[q], inode, mishaps, ckeck_mode)
         /\ nc.pc \notin GonePcs => \A u \in Testers : u # t => child[u][q].pc \in GonePcs
    /\ mishaps' \in {mishaps, mishaps + 1} /\ crossed' \in BOOLEAN /\ (~ crossed' => ~ crossed)
    /\ UNCHANGED <<options, memory, disk>>

LEMMA MainChildKeeps ==
    ASSUME WTInv, NEW t \in Testers, NEW to, NEW q \in Processes, NEW nc,
           MainChild(t, to, q, nc), WaitInv'
    PROVE  WTInv'
<1>1. WTTypeOK /\ WaitInv /\ KeyInv /\ OwnInv /\ NamesInv /\ AloneInv
  BY DEF WTInv
<1>2. /\ main[t].pc \in {"fork", "wait"} /\ to.pc \in {"fork", "wait", "count"}
      /\ to \in MainRecords /\ main' = [main EXCEPT ![t] = to] /\ to.shmid = main[t].shmid
      /\ nc \in ChildRecords /\ child' = [child EXCEPT ![t][q] = nc]
      /\ Outcome(nc) = Outcome(child[t][q]) /\ nc.fd = child[t][q].fd
      /\ met \subseteq met' /\ met' \subseteq Processes
      /\ q \notin met' =>
           /\ IsAlone(nc, name[q], inode, mishaps, ckeck_mode)
           /\ nc.pc \notin GonePcs => \A u \in Testers : u # t => child[u][q].pc \in GonePcs
      /\ mishaps' \in {mishaps, mishaps + 1} /\ crossed' \in BOOLEAN /\ (~ crossed' => ~ crossed)
      /\ nbProcess' = nbProcess /\ ckeck_mode' = ckeck_mode /\ shmkey' = shmkey
      /\ segment' = segment /\ name' = name /\ inode' = inode
  BY DEF MainChild, options, memory, disk
<1>3. main'[t] = to /\ \A u \in Testers : u # t => main'[u] = main[u]
  BY <1>1, <1>2 DEF WTTypeOK
<1>4. /\ child'[t][q] = nc
      /\ \A u \in Testers, p \in Processes : u # t \/ p # q => child'[u][p] = child[u][p]
  BY <1>1, <1>2 DEF WTTypeOK
<1>5. WTTypeOK'
  <2>1. main' \in [Testers -> MainRecords]
    BY <1>1, <1>2 DEF WTTypeOK
  <2>2. child' \in [Testers -> [Processes -> ChildRecords]]
    BY <1>1, <1>2 DEF WTTypeOK
  <2>3. mishaps' \in Nat
    BY <1>1, <1>2 DEF WTTypeOK
  <2>. QED  BY <1>1, <1>2, <2>1, <2>2, <2>3 DEF WTTypeOK
<1>6. KeyInv'
  BY <1>1, <1>2, <1>3 DEF KeyInv, HoldingPcs
<1>7. OwnInv'
  <2> SUFFICES ASSUME ~ crossed' PROVE OwnInv'
    BY DEF OwnInv
  <2>1. /\ \A u, v \in Testers :
              main[u].pc \in SettingPcs /\ main[v].pc \in SettingPcs => u = v
        /\ \A u, v \in Testers :
              main[u].pc \in HoldingPcs /\ main[v].pc \in HoldingPcs
                 /\ main[u].shmid = main[v].shmid => u = v
        /\ \A u \in Testers :
              /\ main[u].pc = "remove" => shmkey \in {0, main[u].shmid}
              /\ main[u].pc = "create" => shmkey = 0
              /\ main[u].pc = "attach" => segment[main[u].shmid].exists
              /\ main[u].pc \in HoldingPcs =>
                    segment[main[u].shmid].result =
                        [p \in 0..(nbProcess[u] - 1) |-> Outcome(child[u][p])]
              /\ main[u].pc = "exited" => main[u].failures = Cardinality(Failed(u))
    BY <1>1, <1>2 DEF OwnInv
  <2>2. \A u \in Testers : /\ main'[u].pc \in SettingPcs => main[u].pc \in SettingPcs
                           /\ main'[u].pc \in HoldingPcs => main[u].pc \in HoldingPcs
                           /\ main'[u].shmid = main[u].shmid
                           /\ main'[u].pc \in {"remove", "create", "attach", "exited"} =>
                                 u # t /\ main'[u] = main[u]
    BY <1>2, <1>3 DEF SettingPcs, HoldingPcs
  <2>3. ASSUME NEW u \in Testers
        PROVE  [p \in 0..(nbProcess[u] - 1) |-> Outcome(child'[u][p])] =
                   [p \in 0..(nbProcess[u] - 1) |-> Outcome(child[u][p])]
    <3>1. \A p \in 0..(nbProcess[u] - 1) : Outcome(child'[u][p]) = Outcome(child[u][p])
      <4>1. \A p \in 0..(nbProcess[u] - 1) : p \in Processes
        BY <1>1 DEF WTTypeOK
      <4>. QED  BY <1>2, <1>4, <4>1
    <3>. QED  BY <3>1
  <2>4. \A u \in Testers : u # t => Failed(u)' = Failed(u)
    BY <1>4 DEF Failed
  <2>5. ASSUME NEW u \in Testers
        PROVE  /\ main'[u].pc = "remove" => shmkey' \in {0, main'[u].shmid}
               /\ main'[u].pc = "create" => shmkey' = 0
               /\ main'[u].pc = "attach" => segment'[main'[u].shmid].exists
    <3>1. CASE u # t
      <4>1. main'[u] = main[u]
        BY <1>3, <3>1
      <4>. QED  BY <1>2, <2>1, <4>1
    <3>2. CASE u = t
      BY <1>2, <1>3, <3>2
    <3>. QED  BY <3>1, <3>2
  <2>6. ASSUME NEW u \in Testers, main'[u].pc \in HoldingPcs
        PROVE  segment'[main'[u].shmid].result =
                   [p \in 0..(nbProcess'[u] - 1) |-> Outcome(child'[u][p])]
    BY <1>2, <2>1, <2>2, <2>3, <2>6
  <2>7. ASSUME NEW u \in Testers, main'[u].pc = "exited"
        PROVE  main'[u].failures = Cardinality(Failed(u)')
    <3>1. u # t /\ main'[u] = main[u]
      BY <2>2, <2>7
    <3>2. main[u].failures = Cardinality(Failed(u)) /\ Failed(u)' = Failed(u)
      BY <2>1, <2>4, <2>7, <3>1
    <3>. QED  BY <3>1, <3>2
  <2>8. \A u, v \in Testers : main'[u].pc \in SettingPcs /\ main'[v].pc \in SettingPcs => u = v
    BY <2>1, <2>2
  <2>9. \A u, v \in Testers :
            main'[u].pc \in HoldingPcs /\ main'[v].pc \in HoldingPcs
               /\ main'[u].shmid = main'[v].shmid => u = v
    BY <2>1, <2>2
  <2>. QED  BY <2>5, <2>6, <2>7, <2>8, <2>9 DEF OwnInv, Outcome
<1>8. NamesInv'
  <2>1. \A u \in Testers, p \in Processes : child'[u][p].fd = child[u][p].fd
    BY <1>2, <1>4
  <2>. QED  BY <1>1, <1>2, <2>1 DEF NamesInv
<1>9. AloneInv'
  <2> SUFFICES ASSUME NEW p \in Processes, p \notin met'
               PROVE  /\ \A u, v \in Testers : Running(u, p)' /\ Running(v, p)' => u = v
                      /\ \A u \in Testers :
                            IsAlone(child'[u][p], name[p], inode, mishaps', ckeck_mode)
    BY <1>2 DEF AloneInv
  <2>1. /\ p \notin met
        /\ \A u, v \in Testers : Running(u, p) /\ Running(v, p) => u = v
        /\ \A u \in Testers : IsAlone(child[u][p], name[p], inode, mishaps, ckeck_mode)
    BY <1>1, <1>2 DEF AloneInv
  <2>2. \A u \in Testers : /\ Running(u, p) <=> child[u][p].pc \notin GonePcs
                           /\ Running(u, p)' <=> child'[u][p].pc \notin GonePcs
    BY DEF Running, GonePcs
  <2>3. \A u, v \in Testers : Running(u, p)' /\ Running(v, p)' => u = v
    <3>1. CASE p = q
      BY <1>2, <1>4, <2>1, <2>2, <3>1
    <3>2. CASE p # q
      BY <1>4, <2>1, <2>2, <3>2
    <3>. QED  BY <3>1, <3>2
  <2>4. ASSUME NEW u \in Testers
        PROVE  IsAlone(child'[u][p], name[p], inode, mishaps', ckeck_mode)
    <3>1. IsAlone(child'[u][p], name[p], inode, mishaps, ckeck_mode)
      BY <1>2, <1>4, <2>1
    <3> DEFINE c == child'[u][p]
    <3> HIDE DEF c
    <3>2. mishaps' = 0 => mishaps = 0
      BY <1>1, <1>2 DEF WTTypeOK
    <3>3. \A bytes : Matches(c, bytes, mishaps) => Matches(c, bytes, mishaps')
      BY <3>2 DEF Matches
    <3>4. IsAlone(c, name[p], inode, mishaps, ckeck_mode)
      BY <3>1 DEF c
    <3>5. IsAlone(c, name[p], inode, mishaps', ckeck_mode)
      BY <3>2, <3>3, <3>4 DEF IsAlone
    <3>. QED  BY <3>5 DEF c
  <2>. QED  BY <2>3, <2>4
<1>. QED  BY <1>5, <1>6, <1>7, <1>8, <1>9 DEF WTInv

\* The next number: how far the main process has come, and WaitInv with it.
LEMMA NextProcFacts ==
    ASSUME WTInv, NEW t \in Testers, main[t].pc \in {"fork", "wait"}, NEW step \in {"wait", "count"}
    PROVE  /\ NextProc(t, step) \in MainRecords /\ NextProc(t, step).shmid = main[t].shmid
           /\ main[t].proc \in Nat /\ nbProcess[t] \in Nat /\ main[t].proc < nbProcess[t]
           /\ main[t].proc \in Processes
           /\ \/ /\ NextProc(t, step).pc = main[t].pc /\ NextProc(t, step).proc = main[t].proc + 1
                 /\ main[t].proc + 1 < nbProcess[t]
              \/ /\ NextProc(t, step).pc = step /\ NextProc(t, step).proc = 0
                 /\ main[t].proc + 1 = nbProcess[t]
<1>1. /\ main[t] \in MainRecords /\ nbProcess[t] \in Nat
      /\ 0..(nbProcess[t] - 1) \subseteq Processes
  BY DEF WTInv, WTTypeOK
<1>2. main[t].proc \in Nat /\ main[t].proc < nbProcess[t]
  BY <1>1 DEF WTInv, WaitInv, MainRecords
<1>3. main[t].proc \in Processes
  BY <1>1, <1>2
<1>4. CASE main[t].proc + 1 < nbProcess[t]
  <2>1. NextProc(t, step) = [main[t] EXCEPT !.proc = main[t].proc + 1]
    BY <1>4 DEF NextProc
  <2>2. main[t].proc + 1 \in Nat
    BY <1>2
  <2>. QED  BY <1>1, <1>2, <1>3, <1>4, <2>1, <2>2 DEF MainRecords
<1>5. CASE ~ (main[t].proc + 1 < nbProcess[t])
  <2> DEFINE a == [main[t] EXCEPT !.proc = 0]
  <2>1. NextProc(t, step) = [a EXCEPT !.pc = step]
    BY <1>5 DEF NextProc
  <2>2. a \in MainRecords /\ a.proc = 0 /\ a.shmid = main[t].shmid
    BY <1>1 DEF MainRecords
  <2>3. main[t].proc + 1 = nbProcess[t]
    BY <1>1, <1>2, <1>5
  <2> HIDE DEF a
  <2>. QED  BY <1>1, <1>2, <1>3, <2>1, <2>2, <2>3 DEF MainRecords, MainPcs, HoldingPcs
<1>. QED  BY <1>4, <1>5

LEMMA WaitOthers ==
    ASSUME WTInv, NEW t \in Testers, nbProcess' = nbProcess,
           \A u \in Testers : u # t => main'[u] = main[u],
           \A u \in Testers, p \in Processes : u # t => child'[u][p] = child[u][p],
           main'[t].pc \notin SettingPcs \cup {"options"},
           main'[t].pc \in {"fork", "wait"} => main'[t].proc < nbProcess[t],
           \A p \in Processes :
               /\ child'[t][p].pc = "none" => child'[t][p] = Unforked
               /\ p \notin Forked(t)' => child'[t][p].pc = "none"
               /\ p \in Past(t)' => child'[t][p].pc \in {"none", "reaped"}
    PROVE  WaitInv'
<1>1. WaitInv
  BY DEF WTInv
<1> SUFFICES ASSUME NEW u \in Testers
             PROVE  /\ main'[u].pc \in {"fork", "wait"} => main'[u].proc < nbProcess[u]
                    /\ main'[u].pc \in SettingPcs \cup {"options"} =>
                           main'[u].proc = 0 /\ (main'[u].pc # "options" => nbProcess[u] > 0)
                    /\ \A p \in Processes :
                         /\ child'[u][p].pc = "none" => child'[u][p] = Unforked
                         /\ p \notin Forked(u)' => child'[u][p].pc = "none"
                         /\ p \in Past(u)' => child'[u][p].pc \in {"none", "reaped"}
  BY DEF WaitInv, Unforked, Blank
<1>2. CASE u = t
  BY <1>2
<1>3. CASE u # t
  <2>1. main'[u] = main[u] /\ \A p \in Processes : child'[u][p] = child[u][p]
    BY <1>3
  <2>2. Forked(u)' = Forked(u) /\ Past(u)' = Past(u)
    BY <2>1 DEF Forked, Past
  <2>. QED  BY <1>1, <2>1, <2>2 DEF WaitInv
<1>. QED  BY <1>2, <1>3

LEMMA ForkKeeps ==
    ASSUME WTInv, NEW t \in Testers, Fork(t)
    PROVE  WTInv'
<1> DEFINE p == main[t].proc
           c == child[t][p]
           to == NextProc(t, "wait")
           new == [c EXCEPT !.pc = "unlink"]
<1>1. Main(t, "fork", to) /\ UNCHANGED <<memory, disk>>
  BY DEF Fork
<1>2. \/ /\ child' = [child EXCEPT ![t][p] = new] /\ mishaps' = mishaps
         /\ met' = met \cup {q \in {p} : \E u \in Testers \ {t} : Running(u, q)}
      \/ child' = child /\ mishaps' = mishaps + 1 /\ met' = met
  BY DEF Fork, Mishap
<1>3. WTTypeOK /\ WaitInv /\ AloneInv
  BY DEF WTInv
<1>4. /\ main[t].pc = "fork" /\ main' = [main EXCEPT ![t] = to] /\ UNCHANGED options
      /\ crossed' \in BOOLEAN /\ (~ crossed' => ~ crossed)
  BY <1>1, MainFacts
<1>5. /\ to \in MainRecords /\ to.shmid = main[t].shmid
      /\ p \in Nat /\ nbProcess[t] \in Nat /\ p < nbProcess[t] /\ p \in Processes
      /\ \/ to.pc = "fork" /\ to.proc = p + 1 /\ p + 1 < nbProcess[t]
         \/ to.pc = "wait" /\ to.proc = 0 /\ p + 1 = nbProcess[t]
  BY <1>4, NextProcFacts
<1> HIDE DEF to
<1>6. c = Unforked
  <2>1. p \notin 0..(p - 1)
    BY <1>5
  <2>2. p \notin Forked(t)
    BY <1>4, <2>1 DEF Forked
  <2>. QED  BY <1>3, <1>5, <2>2 DEF WaitInv
<1>7. /\ new \in ChildRecords /\ new.pc = "unlink" /\ new.fd = 0 /\ new.res = 0
      /\ new.compare = Blank /\ Unforked.pc = "none" /\ Unforked.fd = 0 /\ Unforked.res = 0
  <2>1. Unforked \in ChildRecords /\ Unforked.pc = "none" /\ Unforked.fd = 0
        /\ Unforked.res = 0 /\ Unforked.compare = Blank
    BY BlankType DEF Unforked
  <2>. QED  BY <1>6, <2>1 DEF ChildRecords, ChildPcs
<1> HIDE DEF new, c
<1>8. PICK nc \in ChildRecords :
        /\ child' = [child EXCEPT ![t][p] = nc] /\ nc \in {new, c}
        /\ nc = new => mishaps' = mishaps /\ met' = met \cup {q \in {p} : \E u \in Testers \ {t} : Running(u, q)}
        /\ nc = c => mishaps' = mishaps + 1 /\ met' = met
  <2>1. c \in ChildRecords /\ child = [child EXCEPT ![t][p] = c]
    BY <1>3, <1>5 DEF WTTypeOK, c
  <2>2. c # new
    BY <1>6, <1>7
  <2>3. CASE /\ child' = [child EXCEPT ![t][p] = new] /\ mishaps' = mishaps
             /\ met' = met \cup {q \in {p} : \E u \in Testers \ {t} : Running(u, q)}
    BY <1>7, <2>2, <2>3
  <2>4. CASE child' = child /\ mishaps' = mishaps + 1 /\ met' = met
    BY <2>1, <2>2, <2>4
  <2>. QED  BY <1>2, <2>3, <2>4
<1>9. \A u \in Testers : Running(u, p) <=> child[u][p].pc \notin GonePcs
  BY DEF Running, GonePcs
<1>10. MainChild(t, to, p, nc)
  <2>1. Outcome(nc) = Outcome(child[t][p]) /\ nc.fd = child[t][p].fd
    BY <1>6, <1>7, <1>8 DEF Outcome, GonePcs, c
  <2>2. met \subseteq met' /\ met' \subseteq Processes /\ mishaps' \in {mishaps, mishaps + 1}
    BY <1>3, <1>5, <1>8 DEF WTTypeOK
  <2>3. ASSUME p \notin met'
        PROVE  /\ IsAlone(nc, name[p], inode, mishaps, ckeck_mode)
               /\ nc.pc \notin GonePcs => \A u \in Testers : u # t => child[u][p].pc \in GonePcs
    <3>1. CASE nc = new
      <4>1. \A u \in Testers : u # t => child[u][p].pc \in GonePcs
        BY <1>8, <1>9, <2>3, <3>1
      <4>2. IsAlone(new, name[p], inode, mishaps, ckeck_mode)
        BY <1>7 DEF IsAlone, UsesFile, GonePcs, FilePcs
      <4>. QED  BY <3>1, <4>1, <4>2
    <3>2. CASE nc = c
      <4>1. IsAlone(child[t][p], name[p], inode, mishaps, ckeck_mode)
        BY <1>3, <1>5, <2>2, <2>3 DEF AloneInv
      <4>. QED  BY <1>6, <1>7, <3>2, <4>1 DEF GonePcs, c
    <3>. QED  BY <1>8, <3>1, <3>2
  <2>. QED  BY <1>1, <1>4, <1>5, <1>8, <2>1, <2>2, <2>3 DEF MainChild
<1>11. WaitInv'
  <2>1. main'[t] = to /\ \A u \in Testers : u # t => main'[u] = main[u]
    BY <1>3, <1>4 DEF WTTypeOK
  <2>2. /\ child'[t][p] = nc
        /\ \A u \in Testers, q \in Processes : u # t \/ q # p => child'[u][q] = child[u][q]
    BY <1>3, <1>5, <1>8 DEF WTTypeOK
  <2>3. nbProcess' = nbProcess
    BY <1>4 DEF options
  <2>4. Forked(t) = 0..(p - 1) /\ Past(t)' = {} /\ Forked(t)' = 0..p
    <3>1. to.pc = "wait" => 0..(to.proc - 1) = {}
      BY <1>5
    <3>2. CASE to.pc = "fork" /\ to.proc = p + 1
      <4>1. to.proc - 1 = p
        BY <1>5, <3>2
      <4>. QED  BY <1>4, <2>1, <2>3, <3>2, <4>1 DEF Forked, Past
    <3>3. CASE to.pc = "wait" /\ to.proc = 0 /\ p + 1 = nbProcess[t]
      <4>1. 0..(nbProcess[t] - 1) = 0..p
        BY <1>5, <3>3
      <4>. QED  BY <1>4, <2>1, <2>3, <3>1, <3>3, <4>1 DEF Forked, Past
    <3>. QED  BY <1>5, <3>2, <3>3
  <2>5. ASSUME NEW q \in Processes
        PROVE  /\ child'[t][q].pc = "none" => child'[t][q] = Unforked
               /\ q \notin Forked(t)' => child'[t][q].pc = "none"
               /\ q \in Past(t)' => child'[t][q].pc \in {"none", "reaped"}
    <3>1. CASE q = p
      <4>1. p \in 0..p
        BY <1>5
      <4>. QED  BY <1>6, <1>7, <1>8, <2>2, <2>4, <3>1, <4>1
    <3>2. CASE q # p
      <4>1. child'[t][q] = child[t][q] /\ (q \in 0..(p - 1) => q \in 0..p)
        BY <1>5, <2>2, <3>2
      <4>. QED  BY <1>3, <2>4, <4>1 DEF WaitInv
    <3>. QED  BY <3>1, <3>2
  <2>6. /\ to.pc \notin SettingPcs \cup {"options"}
        /\ to.pc \in {"fork", "wait"} => to.proc < nbProcess[t]
    BY <1>5 DEF SettingPcs
  <2>. QED  BY <2>1, <2>2, <2>3, <2>5, <2>6, WaitOthers
<1>. QED  BY <1>5, <1>10, <1>11, MainChildKeeps

LEMMA WaitKeeps ==
    ASSUME WTInv, NEW t \in Testers, Wait(t)
    PROVE  WTInv'
<1> DEFINE p == main[t].proc
           to == NextProc(t, "count")
<1>1. /\ Main(t, "wait", to) /\ MayWait(t, p)
      /\ IF Reaped(t, p) = {} THEN UNCHANGED child
         ELSE \E q \in Reaped(t, p) : child' = [child EXCEPT ![t][q].pc = "reaped"]
      /\ memory' = memory /\ disk' = disk /\ mishaps' = mishaps /\ met' = met
  BY DEF Wait
<1>2. WTTypeOK /\ WaitInv /\ AloneInv
  BY DEF WTInv
<1>3. /\ main[t].pc = "wait" /\ main' = [main EXCEPT ![t] = to] /\ UNCHANGED options
      /\ crossed' \in BOOLEAN /\ (~ crossed' => ~ crossed)
  BY <1>1, MainFacts
<1>4. /\ to \in MainRecords /\ to.shmid = main[t].shmid
      /\ p \in Nat /\ nbProcess[t] \in Nat /\ p < nbProcess[t] /\ p \in Processes
      /\ \/ to.pc = "wait" /\ to.proc = p + 1 /\ p + 1 < nbProcess[t]
         \/ to.pc = "count" /\ to.proc = 0 /\ p + 1 = nbProcess[t]
  BY <1>3, NextProcFacts
<1> HIDE DEF to
\* q is reaped, or there is nothing to reap
<1>5. PICK q \in Processes, nc \in ChildRecords :
        /\ child' = [child EXCEPT ![t][q] = nc]
        /\ \/ nc = child[t][q] /\ child[t][p].pc \in {"none", "reaped"}
           \/ /\ nc = [child[t][q] EXCEPT !.pc = "reaped"]
              /\ child[t][q].pc \in {"ended", "killed"}
              /\ child[t][p].pc = "none" \/ q = p
  <2>1. CASE Reaped(t, p) = {}
    <3>1. child' = child /\ child = [child EXCEPT ![t][p] = child[t][p]]
      BY <1>1, <1>2, <1>4, <2>1 DEF WTTypeOK
    <3>2. child[t][p].pc \in {"none", "reaped"}
      BY <1>1, <2>1 DEF MayWait, Reaped
    <3>3. child[t][p] \in ChildRecords
      BY <1>2, <1>4 DEF WTTypeOK
    <3>4. child' = [child EXCEPT ![t][p] = child[t][p]]
      BY <3>1
    <3>. QED  BY <1>4, <3>2, <3>3, <3>4
  <2>2. CASE Reaped(t, p) # {}
    <3>1. PICK q \in Reaped(t, p) : child' = [child EXCEPT ![t][q].pc = "reaped"]
      BY <1>1, <2>2
    <3>2. q \in Ended(t) /\ (child[t][p].pc = "none" \/ q = p)
      BY <3>1 DEF Reaped
    <3>3. q \in Processes /\ child[t][q].pc \in {"ended", "killed"}
      BY <3>2 DEF Ended
    <3> DEFINE nc == [child[t][q] EXCEPT !.pc = "reaped"]
    <3>4. nc \in ChildRecords
      <4>1. child[t][q] \in ChildRecords
        BY <1>2, <3>3 DEF WTTypeOK
      <4>. QED  BY <4>1 DEF ChildRecords, ChildPcs, GonePcs
    <3>5. child' = [child EXCEPT ![t][q] = nc]
      BY <3>1
    <3>. QED  BY <3>2, <3>3, <3>4, <3>5
  <2>. QED  BY <2>1, <2>2
<1>6. child[t][q] \in ChildRecords
  BY <1>2 DEF WTTypeOK
<1>7. /\ nc.fd = child[t][q].fd /\ nc.res = child[t][q].res /\ Outcome(nc) = Outcome(child[t][q])
      /\ nc = child[t][q] \/ nc.pc = "reaped"
  <2>1. CASE nc = child[t][q]
    BY <2>1
  <2>2. CASE nc = [child[t][q] EXCEPT !.pc = "reaped"] /\ child[t][q].pc \in {"ended", "killed"}
    <3>1. nc.pc = "reaped" /\ nc.fd = child[t][q].fd /\ nc.res = child[t][q].res
      BY <1>6, <2>2 DEF ChildRecords
    <3>. QED  BY <2>2, <3>1 DEF Outcome, GonePcs
  <2>. QED  BY <1>5, <2>1, <2>2
<1>8. \A u \in Testers : Running(u, q) <=> child[u][q].pc \notin GonePcs
  BY DEF Running, GonePcs
<1>9. MainChild(t, to, q, nc)
  <2>1. ASSUME q \notin met'
        PROVE  /\ IsAlone(nc, name[q], inode, mishaps, ckeck_mode)
               /\ nc.pc \notin GonePcs => \A u \in Testers : u # t => child[u][q].pc \in GonePcs
    <3>1. /\ IsAlone(child[t][q], name[q], inode, mishaps, ckeck_mode)
          /\ \A u, v \in Testers : Running(u, q) /\ Running(v, q) => u = v
      BY <1>1, <1>2, <2>1 DEF AloneInv
    <3>2. CASE nc = child[t][q]
      BY <1>8, <3>1, <3>2
    <3>3. CASE nc.pc = "reaped"
      <4>1. mishaps = 0 => nc.res = 0
        BY <1>7, <3>1 DEF IsAlone
      <4>. QED  BY <3>3, <4>1 DEF IsAlone, UsesFile, GonePcs, FilePcs
    <3>. QED  BY <1>7, <3>2, <3>3
  <2>2. met \subseteq met' /\ met' \subseteq Processes /\ mishaps' \in {mishaps, mishaps + 1}
    BY <1>1, <1>2 DEF WTTypeOK
  <2>3. UNCHANGED <<options, memory, disk>>
    BY <1>1, <1>3
  <2>. QED  BY <1>3, <1>4, <1>5, <1>7, <2>1, <2>2, <2>3 DEF MainChild
<1>10. WaitInv'
  <2>1. main'[t] = to /\ \A u \in Testers : u # t => main'[u] = main[u]
    BY <1>2, <1>3 DEF WTTypeOK
  <2>2. /\ child'[t][q] = nc
        /\ \A u \in Testers, r \in Processes : u # t \/ r # q => child'[u][r] = child[u][r]
    BY <1>2, <1>5 DEF WTTypeOK
  <2>3. nbProcess' = nbProcess
    BY <1>3 DEF options
  <2>4. Forked(t)' = Forked(t)
    BY <1>3, <1>4, <2>1, <2>3 DEF Forked
  \* what the tester is past is done with
  <2>5. ASSUME NEW r \in Processes, r \in Past(t)'
        PROVE  child'[t][r].pc \in {"none", "reaped"}
    <3>1. CASE r = p
      <4>1. CASE q = p
        <5>1. nc.pc = "reaped" \/ child[t][p].pc \in {"none", "reaped"}
          BY <1>5, <1>6, <4>1 DEF ChildRecords
        <5>2. child'[t][p] = nc /\ (nc.pc = "reaped" \/ nc = child[t][p])
          BY <1>7, <2>2, <4>1
        <5>. QED  BY <1>5, <3>1, <4>1, <5>1, <5>2
      <4>2. CASE q # p
        <5>1. child[t][p].pc \in {"none", "reaped"}
          BY <1>5, <4>2
        <5>. QED  BY <1>4, <2>2, <3>1, <4>2, <5>1
      <4>. QED  BY <4>1, <4>2
    <3>2. CASE r # p /\ r \in Past(t)
      <4>1. child[t][r].pc \in {"none", "reaped"}
        BY <1>2, <3>2 DEF WaitInv
      <4>. QED  BY <1>7, <2>2, <4>1
    <3>3. CASE r # p /\ r \notin Past(t)
      <4>1. r \notin 0..(p - 1)
        BY <1>3, <3>3 DEF Past
      <4>2. r \notin 0..p
        BY <1>4, <3>3, <4>1
      <4>3. to.pc = "count" /\ p + 1 = nbProcess[t]
        <5>1. CASE to.pc = "wait" /\ to.proc = p + 1
          <6>1. to.proc - 1 = p
            BY <1>4, <5>1
          <6>. QED  BY <2>1, <2>5, <4>2, <5>1, <6>1 DEF Past
        <5>. QED  BY <1>4, <5>1
      <4>4. Forked(t) = 0..(nbProcess[t] - 1) /\ nbProcess[t] - 1 = p
        BY <1>3, <1>4, <4>3 DEF Forked
      <4>5. child[t][r].pc = "none"
        BY <1>2, <4>2, <4>4 DEF WaitInv
      <4>. QED  BY <1>7, <2>2, <4>5
    <3>. QED  BY <3>1, <3>2, <3>3
  <2>6. ASSUME NEW r \in Processes
        PROVE  /\ child'[t][r].pc = "none" => child'[t][r] = Unforked
               /\ r \notin Forked(t)' => child'[t][r].pc = "none"
    <3>1. /\ child[t][r].pc = "none" => child[t][r] = Unforked
          /\ r \notin Forked(t)' => child[t][r].pc = "none"
      BY <1>2, <2>4 DEF WaitInv
    <3>2. \/ child'[t][r] = child[t][r]
          \/ child[t][r].pc \in {"ended", "killed"} /\ child'[t][r].pc = "reaped"
      <4>1. CASE r = q
        <5>1. CASE nc = child[t][q]
          BY <2>2, <4>1, <5>1
        <5>2. CASE nc = [child[t][q] EXCEPT !.pc = "reaped"] /\ child[t][q].pc \in {"ended", "killed"}
          <6>1. nc.pc = "reaped"
            BY <1>6, <5>2 DEF ChildRecords
          <6>. QED  BY <2>2, <4>1, <5>2, <6>1
        <5>. QED  BY <1>5, <5>1, <5>2
      <4>2. CASE r # q
        BY <2>2, <4>2
      <4>. QED  BY <4>1, <4>2
    <3>. QED  BY <3>1, <3>2
  <2>7. /\ to.pc \notin SettingPcs \cup {"options"}
        /\ to.pc \in {"fork", "wait"} => to.proc < nbProcess[t]
    BY <1>4 DEF SettingPcs
  <2>. QED  BY <2>1, <2>2, <2>3, <2>5, <2>6, <2>7, WaitOthers
<1>. QED  BY <1>9, <1>10, MainChildKeeps

LEMMA CountKeeps ==
    ASSUME WTInv, NEW t \in Testers, Count(t)
    PROVE  WTInv'
<1> DEFINE id == main[t].shmid
           bad == {p \in DOMAIN Table(t) : segment[id].result[p] # 0}
           out == [main[t] EXCEPT !.pc = "exited"]
           to == [out EXCEPT !.failures = Cardinality(bad)]
           gone == [segment[id] EXCEPT !.attached = segment[id].attached \ {t}]
           left == [gone EXCEPT !.exists = segment[id].attached # {t}]
<1>1. /\ Main(t, "count", to) /\ UNCHANGED <<child, disk, mishaps, met>>
      /\ shmkey' = IF shmkey = id THEN 0 ELSE shmkey
  BY DEF Count, At
<1>2. WTTypeOK /\ WaitInv /\ KeyInv /\ OwnInv
  BY DEF WTInv
<1>3. /\ main[t].pc = "count" /\ main' = [main EXCEPT ![t] = to] /\ UNCHANGED options
      /\ main[t] \in MainRecords /\ crossed' \in BOOLEAN /\ (~ crossed' => ~ crossed)
  BY <1>1, MainFacts
<1>4. /\ segment \in Seq(Segments) /\ Len(segment) \in Nat /\ id \in 1..Len(segment)
      /\ segment[id] \in Segments /\ shmkey \in 0..Len(segment) /\ mishaps \in Nat
  <2>1. segment \in Seq(Segments) /\ Len(segment) \in Nat /\ mishaps \in Nat
    BY <1>2 DEF WTTypeOK
  <2>2. id \in 0..Len(segment) /\ id # 0 /\ shmkey \in 0..Len(segment)
    BY <1>2, <1>3 DEF KeyInv, HoldingPcs
  <2>. QED  BY <2>1, <2>2
<1>5. segment' = [segment EXCEPT ![id] = left]
  BY <1>4 DEF Count
<1>6. gone \in Segments /\ gone.result = segment[id].result
  BY <1>4 DEF Segments
<1> HIDE DEF gone
<1>7. left \in Segments /\ left.result = segment[id].result
  BY <1>6 DEF Segments
<1>8. Cardinality(bad) \in Nat
  <2>1. nbProcess[t] \in Nat /\ bad \subseteq 0..(nbProcess[t] - 1)
    BY <1>2 DEF WTTypeOK, Table
  <2>2. IsFiniteSet(0..(nbProcess[t] - 1))
    BY <2>1, FS_Interval
  <2>. QED  BY <2>1, <2>2, FS_Subset, FS_CardinalityType
<1> HIDE DEF bad, left
<1>9. out \in MainRecords /\ out.pc = "exited" /\ out.shmid = id
  BY <1>3 DEF MainRecords, MainPcs
<1> HIDE DEF out
<1>10. to \in MainRecords /\ to.pc = "exited" /\ to.shmid = id /\ to.failures = Cardinality(bad)
  BY <1>8, <1>9 DEF MainRecords
<1> HIDE DEF to, id
<1>11. /\ segment' \in Seq(Segments) /\ Len(segment') = Len(segment)
       /\ \A x \in 1..Len(segment) : x # id => segment'[x] = segment[x]
  BY <1>4, <1>5, <1>7
<1>12. main'[t] = to /\ \A u \in Testers : u # t => main'[u] = main[u]
  BY <1>2, <1>3 DEF WTTypeOK
<1>13. nbProcess' = nbProcess /\ child' = child
  BY <1>1, <1>3 DEF options
\* every process is reaped, or was never there
<1>14. Past(t) = Processes /\ Past(t)' = Processes /\ Forked(t)' = Forked(t)
       /\ Forked(t) = 0..(nbProcess[t] - 1)
  BY <1>3, <1>10, <1>12, <1>13 DEF Past, Forked
<1>15. \A p \in Processes : child[t][p].pc \in {"none", "reaped"}
           /\ (child[t][p].pc = "none" => child[t][p].res = 0)
           /\ (p \notin 0..(nbProcess[t] - 1) => child[t][p].pc = "none")
  <2>1. Unforked.res = 0
    BY DEF Unforked
  <2>. QED  BY <1>2, <1>14, <2>1 DEF WaitInv
<1>16. WaitInv'
  <2>1. \A p \in Processes :
            /\ child'[t][p].pc = "none" => child'[t][p] = Unforked
            /\ p \notin Forked(t)' => child'[t][p].pc = "none"
            /\ p \in Past(t)' => child'[t][p].pc \in {"none", "reaped"}
    BY <1>2, <1>13, <1>14, <1>15 DEF WaitInv
  <2>2. main'[t].pc \notin SettingPcs \cup {"options", "fork", "wait"}
    BY <1>10, <1>12 DEF SettingPcs
  <2>. QED  BY <1>12, <1>13, <2>1, <2>2, WaitOthers
<1>17. OwnInv'
  <2> SUFFICES ASSUME ~ crossed' PROVE OwnInv'
    BY DEF OwnInv
  <2>1. /\ \A u, v \in Testers :
              main[u].pc \in SettingPcs /\ main[v].pc \in SettingPcs => u = v
        /\ \A u, v \in Testers :
              main[u].pc \in HoldingPcs /\ main[v].pc \in HoldingPcs
                 /\ main[u].shmid = main[v].shmid => u = v
        /\ \A u \in Testers :
              /\ main[u].pc = "remove" => shmkey \in {0, main[u].shmid}
              /\ main[u].pc = "create" => shmkey = 0
              /\ main[u].pc = "attach" => segment[main[u].shmid].exists
              /\ main[u].pc \in HoldingPcs =>
                    segment[main[u].shmid].result =
                        [p \in 0..(nbProcess[u] - 1) |-> Outcome(child[u][p])]
              /\ main[u].pc = "exited" => main[u].failures = Cardinality(Failed(u))
    BY <1>2, <1>3 DEF OwnInv
  <2>2. ASSUME NEW u \in Testers, u # t, main[u].pc \in HoldingPcs
        PROVE  segment'[main[u].shmid] = segment[main[u].shmid]
    <3>1. main[u].shmid # id
      BY <1>3, <2>1, <2>2 DEF HoldingPcs, id
    <3>2. main[u].shmid \in 1..Len(segment)
      <4>1. main[u].shmid \in 0..Len(segment) /\ main[u].shmid # 0
        BY <1>2, <2>2 DEF KeyInv
      <4>. QED  BY <1>4, <4>1
    <3>. QED  BY <1>11, <3>1, <3>2
  <2>3. bad = Failed(t)
    <3>1. segment[id].result = [p \in 0..(nbProcess[t] - 1) |-> Outcome(child[t][p])]
      BY <1>3, <2>1 DEF HoldingPcs, id
    <3>2. 0..(nbProcess[t] - 1) \subseteq Processes
      BY <1>2 DEF WTTypeOK
    <3>3. bad = {p \in 0..(nbProcess[t] - 1) : Outcome(child[t][p]) # 0}
      BY <3>1 DEF bad, Table
    <3>4. \A p \in Processes : Outcome(child[t][p]) = child[t][p].res
      BY <1>15 DEF Outcome, GonePcs
    <3>5. \A p \in Processes : child[t][p].res \in {0, -1}
      BY <1>2 DEF WTTypeOK, ChildRecords
    <3>. QED  BY <1>15, <3>2, <3>3, <3>4, <3>5 DEF Failed
  <2>4. \A u \in Testers : Failed(u)' = Failed(u)
    BY <1>13 DEF Failed
  <2>5. ASSUME NEW u \in Testers
        PROVE  /\ main'[u].pc = "remove" => shmkey' \in {0, main'[u].shmid}
               /\ main'[u].pc = "create" => shmkey' = 0
               /\ main'[u].pc = "attach" => segment'[main'[u].shmid].exists
               /\ main'[u].pc \in HoldingPcs =>
                     segment'[main'[u].shmid].result =
                         [p \in 0..(nbProcess[u] - 1) |-> Outcome(child[u][p])]
               /\ main'[u].pc = "exited" => main'[u].failures = Cardinality(Failed(u)')
    <3>1. CASE u = t
      BY <1>10, <1>12, <2>3, <2>4, <3>1 DEF HoldingPcs
    <3>2. CASE u # t
      <4>1. main'[u] = main[u]
        BY <1>12, <3>2
      <4>2. shmkey' \in {0, shmkey}
        BY <1>1
      <4>3. main[u].pc = "attach" => segment'[main[u].shmid].exists
        BY <2>1, <2>2, <3>2 DEF HoldingPcs
      <4>4. main[u].pc \in HoldingPcs =>
                segment'[main[u].shmid].result =
                    [p \in 0..(nbProcess[u] - 1) |-> Outcome(child[u][p])]
        BY <2>1, <2>2, <3>2
      <4>5. main[u].pc = "remove" => shmkey' \in {0, main[u].shmid}
        BY <2>1, <4>2
      <4>6. main[u].pc = "create" => shmkey' = 0
        BY <2>1, <4>2
      <4>7. main[u].pc = "exited" => main[u].failures = Cardinality(Failed(u)')
        BY <2>1, <2>4
      <4>. QED  BY <4>1, <4>3, <4>4, <4>5, <4>6, <4>7
    <3>. QED  BY <3>1, <3>2
  <2>6. \A u \in Testers : main'[u].pc \in SettingPcs \cup HoldingPcs => u # t /\ main'[u] = main[u]
    BY <1>10, <1>12 DEF SettingPcs, HoldingPcs
  <2>7. /\ \A u, v \in Testers :
              main'[u].pc \in SettingPcs /\ main'[v].pc \in SettingPcs => u = v
        /\ \A u, v \in Testers :
              main'[u].pc \in HoldingPcs /\ main'[v].pc \in HoldingPcs
                 /\ main'[u].shmid = main'[v].shmid => u = v
    BY <2>1, <2>6
  <2>. QED  BY <1>13, <2>5, <2>7 DEF OwnInv, Outcome
<1>18. MainMoves(t, to)
  <2>1. shmkey' \in 0..Len(segment') /\ to.shmid \in 0..Len(segment')
    BY <1>1, <1>4, <1>10, <1>11
  <2>. QED  BY <1>1, <1>3, <1>4, <1>10, <1>11, <2>1 DEF MainMoves, HoldingPcs
<1>. QED  BY <1>16, <1>17, <1>18, MainMovesKeep

\* The invariant of the write test: whom a tester is past, whose segment it
\* writes to, whose inode a process has open, and what is in it.
THEOREM WTInvariant == WTSpec => []WTInv
<1>1. WTInit => WTInv
  BY WTInitInv
<1>2. WTInv /\ [WTNext]_wvars => WTInv'
  <2> SUFFICES ASSUME WTInv, [WTNext]_wvars PROVE WTInv'
    OBVIOUS
  <2>1. CASE WTNext
    <3>1. PICK t \in Testers :
              MainStep(t) \/ \E p \in Processes : ChildStep(t, p) \/ SystemCallFails(t, p) \/ Killed(t, p)
      BY <2>1 DEF WTNext
    <3>2. CASE MainStep(t)
      BY <3>2, RefusesKeeps, LookUpKeeps, RemoveOldKeeps, CreateKeeps, AttachKeeps, ForkKeeps,
         WaitKeeps, CountKeeps DEF MainStep
    <3>3. CASE \E p \in Processes : ChildStep(t, p) \/ SystemCallFails(t, p) \/ Killed(t, p)
      BY <3>3, ChildKeeps
    <3>. QED  BY <3>1, <3>2, <3>3
  <2>2. CASE UNCHANGED wvars
    <3>1. /\ nbProcess' = nbProcess /\ ckeck_mode' = ckeck_mode /\ main' = main
          /\ child' = child /\ shmkey' = shmkey /\ segment' = segment /\ name' = name
          /\ inode' = inode /\ mishaps' = mishaps /\ crossed' = crossed /\ met' = met
      BY <2>2 DEF wvars
    <3>2. WTTypeOK' /\ KeyInv'
      BY <3>1 DEF WTInv, WTTypeOK, KeyInv
    <3>3. WaitInv'
      <4>1. \A t \in Testers : Forked(t)' = Forked(t) /\ Past(t)' = Past(t)
        BY <3>1 DEF Forked, Past
      <4>. QED  BY <3>1, <4>1 DEF WTInv, WaitInv, Unforked, Blank
    <3>4. OwnInv'
      <4>1. \A t \in Testers : Failed(t)' = Failed(t)
        BY <3>1 DEF Failed
      <4>. QED  BY <3>1, <4>1 DEF WTInv, OwnInv, Outcome
    <3>5. NamesInv' /\ AloneInv'
      BY <3>1, SameFiles DEF WTInv, WTTypeOK, disk
    <3>. QED  BY <3>2, <3>3, <3>4, <3>5 DEF WTInv
  <2>. QED  BY <2>1, <2>2
<1>. QED  BY <1>1, <1>2, PTL DEF WTSpec

\* main (test_write.c:573): unless set-ups overlapped, a tester counts exactly
\* the failures its own processes returned, and counts when all have ended.
THEOREM CountsOwnFailuresHolds == WTSpec => []CountsOwnFailures
BY WTInvariant, WTInvImplies, PTL

\* do_one_test (test_write.c:361): a process that shared its number with no
\* running one fails only if something went wrong, and one that passed found
\* its file as it should be.
THEOREM OutcomesTrueHolds == WTSpec => []OutcomesTrue
BY WTInvariant, WTInvImplies, PTL

-----------------------------------------------------------------------------
(* The buffers                                                             *)

Pages == [1..PageSize -> Nat]

\* There is a page for every call that put bytes, and if there is no other
\* page each holds the bytes of its call; the offset counts the bytes.
ChainInv ==
    /\ chain \in Seq(Pages) /\ puts \in Seq(Seq(Nat)) /\ fresh \in Nat
    /\ boff \in Nat /\ blen \in Nat /\ boff <= blen /\ blen = PageSize * Len(chain)
    /\ boff = Len(FlattenSeq(puts))
    /\ Len(puts) <= Len(chain)
    /\ Len(puts) = Len(chain) => \A d \in 1..Len(chain) :
           Len(puts[d]) <= PageSize => SubSeq(chain[d], 1, Len(puts[d])) = puts[d]
    /\ (Len(puts) = Len(chain) /\ \A d \in 1..(Len(puts) - 1) : Len(puts[d]) = PageSize)
           => boff = IF Len(puts) = 0 THEN 0
                     ELSE PageSize * (Len(puts) - 1) + Len(puts[Len(puts)])

LEMMA PageIs ==
    ASSUME NEW page \in Pages, NEW place \in Nat, NEW bytes \in Seq(Nat)
    PROVE  /\ Written(page, place, bytes) \in Pages
           /\ \A d \in 1..PageSize : Written(page, place, bytes)[d] =
                IF d > place /\ d <= place + Len(bytes) THEN bytes[d - place] ELSE page[d]
<1> SUFFICES ASSUME NEW d \in 1..PageSize
             PROVE  (IF d > place /\ d <= place + Len(bytes) THEN bytes[d - place]
                     ELSE page[d]) \in Nat
  BY DEF Written, Pages
<1>1. CASE d > place /\ d <= place + Len(bytes)
  <2>1. d - place \in 1..Len(bytes)
    BY <1>1, PageBufferAssumption
  <2>. QED  BY <1>1, <2>1
<1>2. CASE ~ (d > place /\ d <= place + Len(bytes))
  BY <1>2 DEF Pages
<1>. QED  BY <1>1, <1>2

\* A page is a sequence of its bytes.
LEMMA PageSeq ==
    ASSUME NEW page \in Pages
    PROVE  page \in Seq(Nat) /\ Len(page) = PageSize
<1>1. page = [d \in 1..PageSize |-> page[d]] /\ \A d \in 1..PageSize : page[d] \in Nat
  BY DEF Pages
<1>2. PageSize \in Nat
  BY PageBufferAssumption
<1>. QED  BY <1>1, <1>2

\* What is written in front of a page is found there.
LEMMA FrontOfPage ==
    ASSUME NEW page \in Pages, NEW bytes \in Seq(Nat), Len(bytes) <= PageSize
    PROVE  SubSeq(Written(page, 0, bytes), 1, Len(bytes)) = bytes
<1> DEFINE new == Written(page, 0, bytes)
           front == SubSeq(new, 1, Len(bytes))
<1>1. new \in Seq(Nat) /\ Len(new) = PageSize /\ PageSize \in Nat
  BY PageIs, PageSeq, PageBufferAssumption
<1>2. \A d \in 1..Len(bytes) : new[d] = bytes[d]
  <2> SUFFICES ASSUME NEW d \in 1..Len(bytes) PROVE new[d] = bytes[d]
    OBVIOUS
  <2>1. d \in 1..PageSize /\ d > 0 /\ d <= 0 + Len(bytes) /\ d - 0 = d
    BY <1>1
  <2>2. new[d] = IF d > 0 /\ d <= 0 + Len(bytes) THEN bytes[d - 0] ELSE page[d]
    BY <2>1, PageIs
  <2>. QED  BY <2>1, <2>2
<1> HIDE DEF new
<1>3. front \in Seq(Nat) /\ Len(front) = Len(bytes) /\ \A d \in 1..Len(bytes) : front[d] = new[d]
  BY <1>1
<1> HIDE DEF front
<1>4. front = bytes
  BY <1>2, <1>3, SameSeq
<1>. QED  BY <1>4 DEF front, new

LEMMA PutKeeps ==
    ASSUME ChainInv, NEW pages \in Seq(Pages), Len(pages) > Len(chain),
           \A d \in 1..Len(chain) : pages[d] = chain[d],
           NEW count \in Nat, NEW bytes \in Seq(Nat), Len(bytes) = count,
           Put(pages, count, bytes)
    PROVE  ChainInv'
<1> DEFINE P == PageSize
           L == Len(pages)
           N == Len(chain)
           len == blen + P * (L - N)
           n == Least(len - boff, count)
           got == SubSeq(bytes, 1, n)
           last == Written(pages[L], 0, got)
<1>1. /\ P \in Nat \ {0} /\ L \in Nat /\ N \in Nat /\ L > N /\ blen \in Nat /\ boff \in Nat
      /\ boff <= blen /\ blen = P * N /\ pages[L] \in Pages
  BY PageBufferAssumption DEF ChainInv
<1>2. len = P * L /\ len \in Nat /\ len >= boff
  <2>1. L - N \in Nat /\ P * L = P * N + P * (L - N) /\ P * (L - N) \in Nat /\ P * L \in Nat
    BY <1>1
  <2>2. len = P * L
    BY <1>1, <2>1
  <2>3. P * L >= P * N
    BY <2>1, <1>1
  <2>. QED  BY <1>1, <2>1, <2>2, <2>3
<1>3. /\ chain' = [pages EXCEPT ![L] = last] /\ blen' = len /\ boff' = boff + n
      /\ puts' = Append(puts, got) /\ fresh' = fresh + n
  BY DEF Put
<1>4. n \in Nat /\ n <= count /\ boff + n <= len
  <2> HIDE DEF len
  <2>. QED  BY <1>1, <1>2 DEF Least
<1> HIDE DEF n, len, P, N
<1>5. got \in Seq(Nat) /\ Len(got) = n
  BY <1>4
<1> HIDE DEF got
<1>6. last \in Pages /\ (Len(got) <= P => SubSeq(last, 1, Len(got)) = got)
  BY <1>1, <1>5, PageIs, FrontOfPage DEF P
<1> HIDE DEF last
<1>7. /\ chain' \in Seq(Pages) /\ Len(chain') = L /\ chain'[L] = last
      /\ \A d \in 1..L : d # L => chain'[d] = pages[d]
  BY <1>1, <1>3, <1>6
<1>8. puts \in Seq(Seq(Nat)) /\ Len(puts) \in Nat /\ Len(puts) <= N
  BY DEF ChainInv, N
<1> DEFINE q == Len(puts)
<1>9. /\ puts' \in Seq(Seq(Nat)) /\ Len(puts') = q + 1 /\ puts'[q + 1] = got
      /\ \A d \in 1..q : puts'[d] = puts[d]
  BY <1>3, <1>5, <1>8
<1>10. boff' = Len(FlattenSeq(puts'))
  <2>1. FlattenSeq(puts) \in Seq(Nat) /\ FlattenSeq(puts') = FlattenSeq(puts) \o got
    BY <1>3, <1>5, <1>8, FlatAppend
  <2>2. Len(FlattenSeq(puts) \o got) = Len(FlattenSeq(puts)) + Len(got)
    BY <1>5, <2>1, Joined
  <2>. QED  BY <1>3, <1>5, <2>1, <2>2 DEF ChainInv
<1>11. Len(puts') <= Len(chain')
  BY <1>1, <1>7, <1>8, <1>9
<1>12. ASSUME Len(puts') = Len(chain')
       PROVE  /\ \A d \in 1..Len(chain') : Len(puts'[d]) <= P =>
                   SubSeq(chain'[d], 1, Len(puts'[d])) = puts'[d]
              /\ (\A d \in 1..(Len(puts') - 1) : Len(puts'[d]) = P) =>
                   boff' = P * q + Len(got)
  <2>1. q = N /\ L = N + 1
    BY <1>1, <1>7, <1>8, <1>9, <1>12
  <2>2. ASSUME NEW d \in 1..Len(chain'), Len(puts'[d]) <= P
        PROVE  SubSeq(chain'[d], 1, Len(puts'[d])) = puts'[d]
    <3>1. CASE d = L
      BY <1>6, <1>7, <1>9, <2>1, <2>2, <3>1
    <3>2. CASE d # L
      <4>1. d \in 1..N /\ d \in 1..L /\ d \in 1..q
        BY <1>1, <1>7, <2>1, <3>2
      <4>2. chain'[d] = chain[d] /\ puts'[d] = puts[d]
        BY <1>7, <1>9, <3>2, <4>1 DEF N
      <4>. QED  BY <2>1, <2>2, <4>1, <4>2 DEF ChainInv, N, P
    <3>. QED  BY <3>1, <3>2
  <2>3. ASSUME \A d \in 1..(Len(puts') - 1) : Len(puts'[d]) = P
        PROVE  boff' = P * q + Len(got)
    <3>1. \A d \in 1..q : Len(puts[d]) = P
      BY <1>8, <1>9, <2>3
    <3>2. boff = P * q
      <4>1. \A d \in 1..(q - 1) : Len(puts[d]) = P
        BY <1>8, <3>1
      <4>2. boff = IF q = 0 THEN 0 ELSE P * (q - 1) + Len(puts[q])
        BY <2>1, <4>1 DEF ChainInv, N, P
      <4>3. CASE q = 0
        <5>1. P * 0 = 0
          BY <1>1
        <5>. QED  BY <4>2, <4>3, <5>1
      <4>4. CASE q # 0
        <5>1. q \in 1..q /\ P * (q - 1) + P = P * q
          BY <1>1, <1>8, <4>4
        <5>. QED  BY <3>1, <4>2, <4>4, <5>1
      <4>. QED  BY <4>3, <4>4
    <3>. QED  BY <1>3, <1>5, <3>2
  <2>. QED  BY <2>2, <2>3
<1>13. (q + 1) - 1 = q /\ q + 1 # 0
  BY <1>8
<1>14. fresh' \in Nat /\ boff' \in Nat /\ blen' \in Nat /\ boff' <= blen' /\ blen' = PageSize * Len(chain')
  <2>1. fresh \in Nat
    BY DEF ChainInv
  <2>2. fresh' \in Nat /\ boff' \in Nat /\ boff' <= blen' /\ blen' = len
    BY <1>1, <1>2, <1>3, <1>4, <2>1
  <2>. QED  BY <1>2, <1>7, <2>2 DEF P
<1> HIDE DEF q
<1>. QED  BY <1>7, <1>9, <1>10, <1>11, <1>12, <1>13, <1>14 DEF ChainInv, P

LEMMA ChainInvImplies == ChainInv => ChainIsSent
<1> SUFFICES ASSUME ChainInv PROVE ChainIsSent
  OBVIOUS
<1> DEFINE N == Len(puts)
           P == PageSize
<1>1. /\ P \in Nat \ {0} /\ puts \in Seq(Seq(Nat)) /\ N \in Nat /\ boff \in Nat
      /\ chain \in Seq(Pages)
  BY PageBufferAssumption DEF ChainInv
<1>2. boff = Len(FlattenSeq(puts)) /\ boff <= blen /\ blen = P * Len(chain)
  BY DEF ChainInv
<1>3. ASSUME PageByPage
      PROVE  Sent = FlattenSeq(puts) /\ IovecCount <= IovecRoom
  <2>1. /\ Len(chain) = N
        /\ \A d \in 1..N : (d < N => Len(puts[d]) = P) /\ (d = N => Len(puts[d]) <= P)
        /\ \A d \in 1..N : Len(puts[d]) \in Nat
    BY <1>1, <1>3 DEF PageByPage
  <2>2. \A d \in 1..N : Len(puts[d]) <= P /\ SubSeq(chain[d], 1, Len(puts[d])) = puts[d]
    <3>1. \A d \in 1..N : d < N \/ d = N
      BY <1>1
    <3>2. \A d \in 1..N : Len(puts[d]) <= P
      BY <1>1, <2>1, <3>1
    <3>3. \A d \in 1..N : Len(puts[d]) <= PageSize => SubSeq(chain[d], 1, Len(puts[d])) = puts[d]
      BY <2>1 DEF ChainInv
    <3>. QED  BY <3>2, <3>3
  <2>3. boff = IF N = 0 THEN 0 ELSE P * (N - 1) + Len(puts[N])
    <3>1. \A d \in 1..(N - 1) : Len(puts[d]) = P
      <4>1. \A d \in 1..(N - 1) : d \in 1..N /\ d < N
        BY <1>1
      <4>. QED  BY <2>1, <4>1
    <3>. QED  BY <2>1, <3>1 DEF ChainInv
  <2> HIDE DEF N, P
  <2>4. /\ N <= boff \div P + 1
        /\ \A d \in 1..N : (IF d = boff \div P + 1 THEN boff % P ELSE P) = Len(puts[d])
    <3>1. CASE N = 0
      <4>1. boff = 0
        BY <2>3, <3>1
      <4>2. P * 0 + 0 = 0 /\ 0 \in 0..(P - 1)
        BY <1>1
      <4>3. boff \div P = 0
        <5>1. (P * 0 + 0) \div P = 0
          BY <1>1, <4>2, DivRest
        <5>. QED  BY <4>1, <4>2, <5>1
      <4>. QED  BY <3>1, <4>3
    <3>2. CASE N # 0
      <4> DEFINE l == Len(puts[N])
      <4>1. N \in 1..N /\ N - 1 \in Nat /\ l \in Nat /\ l <= P /\ boff = P * (N - 1) + l
        BY <1>1, <2>1, <2>2, <2>3, <3>2
      <4> HIDE DEF l
      <4>2. CASE l < P
        <5>1. l \in 0..(P - 1)
          BY <1>1, <4>1, <4>2
        <5>2. boff \div P = N - 1 /\ boff % P = l
          BY <1>1, <4>1, <5>1, DivRest
        <5>3. (N - 1) + 1 = N
          BY <1>1
        <5>. QED  BY <1>1, <2>1, <5>2, <5>3 DEF l
      <4>3. CASE l = P
        <5>1. P * (N - 1) + P = P * N /\ 0 \in 0..(P - 1) /\ P * N + 0 = P * N
          BY <1>1, <4>1
        <5>2. (P * N + 0) \div P = N
          BY <1>1, <5>1, DivRest
        <5>3. boff \div P = N
          BY <4>1, <4>3, <5>1, <5>2
        <5>4. \A d \in 1..N : d # N + 1
          BY <1>1
        <5>. QED  BY <1>1, <2>1, <4>3, <5>3, <5>4 DEF l
      <4>. QED  BY <1>1, <4>1, <4>2, <4>3
    <3>. QED  BY <3>1, <3>2
  <2>5. \A d \in 1..N : SubSeq(chain[d], 1, IovecLen(d)) = puts[d]
    BY <2>2, <2>4 DEF IovecLen, IovecRoom, P
  <2>6. IovecCount = N
    BY <2>1 DEF IovecCount
  <2>7. [d \in 1..IovecCount |-> SubSeq(chain[d], 1, IovecLen(d))] = [d \in 1..N |-> puts[d]]
    BY <2>5, <2>6
  <2>8. [d \in 1..N |-> puts[d]] = puts
    BY <1>1 DEF N
  <2>. QED  BY <2>4, <2>6, <2>7, <2>8 DEF Sent, IovecRoom, P
<1>. QED  BY <1>2, <1>3 DEF ChainIsSent
\* The simple buffer: pointer and length span the page, at least what is
\* queued is counted, and if no more is, it lies from the pointer on.
SimpleInv ==
    /\ queued \in Seq(Nat)
    /\ sbuf # NoPage =>
         /\ sbuf \in [page : Pages, len : Int, off : Nat, ptr : Nat]
         /\ sbuf.ptr + sbuf.len = PageSize
         /\ Len(queued) <= sbuf.off
         /\ Len(queued) = sbuf.off =>
              /\ overrun # "simple" /\ sbuf.off <= sbuf.len
              /\ SubSeq(sbuf.page, sbuf.ptr + 1, sbuf.ptr + sbuf.off) = queued

LEMMA SimpleInvImplies == SimpleInv => SimpleIsQueue
BY DEF SimpleInv, SimpleIsQueue

\* A piece of a page, byte by byte.
LEMMA PieceOfPage ==
    ASSUME NEW page \in Pages, NEW start \in Nat, NEW off \in Nat, start + off <= PageSize
    PROVE  /\ SubSeq(page, start + 1, start + off) \in Seq(Nat)
           /\ Len(SubSeq(page, start + 1, start + off)) = off
           /\ \A d \in 1..off : SubSeq(page, start + 1, start + off)[d] = page[start + d]
<1>1. page \in Seq(Nat) /\ Len(page) = PageSize /\ PageSize \in Nat
  BY PageSeq, PageBufferAssumption
<1> DEFINE first == start + 1
           to == start + off
           s == SubSeq(page, first, to)
<1>2. first \in Nat /\ to \in Nat /\ first >= 1 /\ to <= Len(page) /\ to - first + 1 = off
  BY <1>1
<1>3. s \in Seq(Nat) /\ Len(s) = off
  BY <1>1, <1>2
<1>4. \A d \in 1..off : s[d] = page[start + d]
  BY <1>1, <1>2
<1>. QED  BY <1>3, <1>4

LEMMA PushKeeps ==
    ASSUME SimpleInv, sbuf # NoPage, NEW bytes \in Seq(Nat), NEW pushed \in Nat,
           Push(bytes, pushed),
           (sbuf.off = Len(queued) /\ pushed <= Len(bytes)) => sbuf.off + Len(bytes) <= sbuf.len
    PROVE  SimpleInv'
<1> DEFINE page == sbuf.page
           len == sbuf.len
           off == sbuf.off
           start == sbuf.ptr
           k == Least(pushed, Len(bytes))
           more == SubSeq(bytes, 1, k)
           new == Written(page, start + off, bytes)
<1>1. /\ sbuf \in [page : Pages, len : Int, off : Nat, ptr : Nat]
      /\ page \in Pages /\ len \in Int /\ off \in Nat /\ start \in Nat /\ start + len = PageSize
      /\ queued \in Seq(Nat) /\ Len(queued) \in Nat /\ Len(queued) <= off
  BY DEF SimpleInv
<1>2. /\ sbuf' = [sbuf EXCEPT !.page = new, !.off = off + pushed]
      /\ queued' = queued \o more
      /\ overrun' = IF start + off + Len(bytes) > PageSize THEN "simple" ELSE "none"
  BY DEF Push
<1>3. k \in Nat /\ k <= pushed /\ k <= Len(bytes) /\ (pushed <= Len(bytes) => k = pushed)
      /\ Len(bytes) \in Nat /\ (k = pushed => pushed <= Len(bytes))
  BY DEF Least
<1> HIDE DEF k
<1>4. more \in Seq(Nat) /\ Len(more) = k /\ \A d \in 1..k : more[d] = bytes[d]
  BY <1>3
<1> HIDE DEF more
<1>5. new \in Pages /\ \A d \in 1..PageSize : new[d] =
            IF d > start + off /\ d <= (start + off) + Len(bytes) THEN bytes[d - (start + off)] ELSE page[d]
  <2> PICK at : at = start + off
    OBVIOUS
  <2>1. at \in Nat /\ page \in Pages
    BY <1>1
  <2> HIDE DEF page, start, off
  <2>. QED  BY <2>1, PageIs DEF new
<1> HIDE DEF new
<1>6. /\ sbuf' \in [page : Pages, len : Int, off : Nat, ptr : Nat]
      /\ sbuf'.page = new /\ sbuf'.off = off + pushed /\ sbuf'.len = len /\ sbuf'.ptr = start
  <2>1. off + pushed \in Nat
    BY <1>1
  <2>. QED  BY <1>1, <1>2, <1>5, <2>1
<1>7. queued' \in Seq(Nat) /\ Len(queued') = Len(queued) + k
      /\ (\A d \in 1..Len(queued) : queued'[d] = queued[d])
      /\ (\A d \in 1..k : queued'[Len(queued) + d] = more[d])
  <2> DEFINE q == queued
             j == q \o more
  <2>1. q \in Seq(Nat)
    BY <1>1
  <2> HIDE DEF q
  <2>2. /\ j \in Seq(Nat) /\ Len(j) = Len(q) + Len(more)
        /\ \A d \in 1..Len(q) : j[d] = q[d]
        /\ \A d \in 1..Len(more) : j[Len(q) + d] = more[d]
    <3>1. \A a, b \in Seq(Nat) :
            /\ a \o b \in Seq(Nat) /\ Len(a \o b) = Len(a) + Len(b)
            /\ \A d \in 1..Len(a) : (a \o b)[d] = a[d]
            /\ \A d \in 1..Len(b) : (a \o b)[Len(a) + d] = b[d]
      BY Joined
    <3>2. more \in Seq(Nat)
      BY <1>4
    <3>. QED  BY <2>1, <3>1, <3>2
  <2>3. queued' = j
    BY <1>2 DEF q
  <2> HIDE DEF j
  <2>. QED  BY <1>4, <2>2, <2>3 DEF q
<1>8. Len(queued') <= off + pushed
  BY <1>1, <1>3, <1>7
<1>9. ASSUME Len(queued') = off + pushed
      PROVE  /\ overrun' # "simple" /\ off + pushed <= len
             /\ SubSeq(new, start + 1, start + (off + pushed)) = queued'
  <2>1. Len(queued) = off /\ k = pushed /\ pushed <= Len(bytes)
    BY <1>1, <1>3, <1>7, <1>9
  <2>2. off + Len(bytes) <= len
    BY <2>1
  <2>3. overrun' = "none" /\ off + pushed <= len /\ start + (off + pushed) <= PageSize /\ off <= len
    BY <1>1, <1>2, <1>3, <2>1, <2>2
  <2>4. \A d \in 1..off : page[start + d] = queued[d]
    <3>1. start + off <= PageSize
      BY <1>1, <2>3
    <3>2. \A d \in 1..off : SubSeq(page, start + 1, start + off)[d] = page[start + d]
      BY <1>1, <3>1, PieceOfPage
    <3>3. SubSeq(page, start + 1, start + off) = queued
      BY <2>1 DEF SimpleInv
    <3>. QED  BY <3>2, <3>3
  <2> DEFINE s == SubSeq(new, start + 1, start + (off + pushed))
  <2>5. s \in Seq(Nat) /\ Len(s) = off + pushed
        /\ \A d \in 1..(off + pushed) : s[d] = new[start + d]
    <3>1. off + pushed \in Nat
      BY <1>1
    <3>2. start \in Nat /\ start + (off + pushed) <= PageSize
      BY <1>1, <2>3
    <3>. QED  BY <1>5, <3>1, <3>2, PieceOfPage, Zenon
  <2> HIDE DEF s, page, len, off, start
  <2>6. ASSUME NEW d \in 1..(off + pushed) PROVE s[d] = queued'[d]
    <3>1. start + d \in 1..PageSize /\ PageSize \in Nat
      BY <1>1, <2>3, PageBufferAssumption
    <3>2. CASE d <= off
      <4>1. ~ (start + d > start + off) /\ d \in 1..off
        BY <1>1, <3>2
      <4>2. new[start + d] = page[start + d]
        BY <1>5, <3>1, <4>1
      <4>. QED  BY <1>7, <2>1, <2>4, <2>5, <4>1, <4>2
    <3>3. CASE ~ (d <= off)
      <4>1. /\ start + d > start + off /\ start + d <= (start + off) + Len(bytes)
            /\ (start + d) - (start + off) = d - off /\ d - off \in 1..k /\ off + (d - off) = d
        BY <1>1, <1>3, <2>1, <3>3
      <4>2. new[start + d] = bytes[d - off]
        BY <1>5, <3>1, <4>1
      <4>3. queued'[off + (d - off)] = more[d - off]
        BY <1>7, <2>1, <4>1
      <4>. QED  BY <1>4, <2>5, <4>1, <4>2, <4>3
    <3>. QED  BY <3>2, <3>3
  <2>7. s = queued'
    BY <1>7, <1>9, <2>5, <2>6, SameSeq
  <2>. QED  BY <2>3, <2>7 DEF s
<1> HIDE DEF page, len, off, start
<1>. QED  BY <1>1, <1>6, <1>7, <1>8, <1>9 DEF SimpleInv

\* The bytes of a caller are a sequence, one for each number.
LEMMA BytesOf ==
    ASSUME fresh \in Nat, NEW n \in Nat
    PROVE  NewBytes(n) \in Seq(Nat) /\ Len(NewBytes(n)) = n
<1>1. \A d \in 1..n : fresh + d - 1 \in Nat
  OBVIOUS
<1>. QED  BY <1>1 DEF NewBytes

LEMMA EmptyIsPage == EmptyPage \in Pages
BY DEF EmptyPage, Pages

\* The chain with one or two empty pages at its end.
LEMMA ExpandedIs ==
    ASSUME ChainInv
    PROVE  /\ Expanded \in Seq(Pages) /\ Len(Expanded) = Len(chain) + 1
           /\ \A d \in 1..Len(chain) : Expanded[d] = chain[d]
           /\ Append(Expanded, EmptyPage) \in Seq(Pages)
           /\ Len(Append(Expanded, EmptyPage)) = Len(chain) + 2
           /\ \A d \in 1..Len(chain) : Append(Expanded, EmptyPage)[d] = chain[d]
<1>1. chain \in Seq(Pages) /\ Len(chain) \in Nat
  BY DEF ChainInv
<1> DEFINE e == Expanded
<1>2. e \in Seq(Pages) /\ Len(e) = Len(chain) + 1 /\ \A d \in 1..Len(chain) : e[d] = chain[d]
  BY <1>1, EmptyIsPage DEF Expanded
<1> HIDE DEF e
<1>3. /\ Append(e, EmptyPage) \in Seq(Pages) /\ Len(Append(e, EmptyPage)) = Len(chain) + 2
      /\ \A d \in 1..Len(chain) : Append(e, EmptyPage)[d] = chain[d]
  BY <1>1, <1>2, EmptyIsPage
<1>. QED  BY <1>2, <1>3 DEF e

LEMMA NoMemoryKeeps ==
    ASSUME ChainInv, UNCHANGED <<chain, blen, boff, puts>>, fresh' \in Nat
    PROVE  ChainInv'
BY DEF ChainInv

\* A step of the chain leaves the simple buffer as it was.
LEMMA SimpleRests ==
    ASSUME SimpleInv, UNCHANGED <<sbuf, queued>>, overrun' \in {overrun, "none", "chain"}
    PROVE  SimpleInv'
BY DEF SimpleInv

LEMMA CopyKeeps ==
    ASSUME ChainInv, SimpleInv, NEW c \in Nat, buffer_copy(c) \/ buffer_read(c)
    PROVE  ChainInv' /\ SimpleInv'
<1>1. UNCHANGED <<sbuf, queued>> /\ overrun' \in {overrun, "none", "chain"}
  BY DEF buffer_copy, buffer_read, Put, NoMemory
<1>2. fresh \in Nat
  BY DEF ChainInv
<1>3. NoMemory \/ \E r \in 0..c : Put(Expanded, r, NewBytes(r))
  <2>1. c \in 0..c
    OBVIOUS
  <2>. QED  BY <2>1 DEF buffer_copy, buffer_read
<1>4. CASE NoMemory
  <2>1. UNCHANGED <<chain, blen, boff, puts>> /\ fresh' = fresh
    BY <1>4 DEF NoMemory
  <2>. QED  BY <1>1, <1>2, <2>1, NoMemoryKeeps, SimpleRests
<1>5. CASE \E r \in 0..c : Put(Expanded, r, NewBytes(r))
  <2>1. PICK r \in 0..c : Put(Expanded, r, NewBytes(r))
    BY <1>5
  <2>2. NewBytes(r) \in Seq(Nat) /\ Len(NewBytes(r)) = r /\ r \in Nat
    BY <1>2, BytesOf
  <2>3. /\ Expanded \in Seq(Pages) /\ Len(Expanded) > Len(chain)
        /\ \A d \in 1..Len(chain) : Expanded[d] = chain[d]
    <3>1. Len(chain) \in Nat
      BY DEF ChainInv
    <3>. QED  BY <3>1, ExpandedIs
  <2>4. ChainInv'
    BY <2>1, <2>2, <2>3, PutKeeps
  <2>. QED  BY <1>1, <2>4, SimpleRests
<1>. QED  BY <1>3, <1>4, <1>5

LEMMA PrintKeeps ==
    ASSUME ChainInv, SimpleInv, NEW size \in Nat, NEW text \in Nat, buffer_printf(size, text)
    PROVE  ChainInv' /\ SimpleInv'
<1> DEFINE bytes == [d \in 1..text |-> IF d < size THEN fresh + d - 1 ELSE 0]
           two == Append(Expanded, EmptyPage)
<1>1. UNCHANGED <<sbuf, queued>> /\ overrun' \in {overrun, "none", "chain"}
  BY DEF buffer_printf, Put, NoMemory
<1>2. fresh \in Nat
  BY DEF ChainInv
<1>3. \/ NoMemory
      \/ chain' = Expanded /\ blen' = blen + PageSize /\ UNCHANGED <<boff, puts, fresh, overrun>>
      \/ Put(two, text, bytes)
  BY DEF buffer_printf
<1>4. CASE NoMemory
  <2>1. UNCHANGED <<chain, blen, boff, puts>> /\ fresh' = fresh
    BY <1>4 DEF NoMemory
  <2>. QED  BY <1>1, <1>2, <2>1, NoMemoryKeeps, SimpleRests
<1>5. CASE Put(two, text, bytes)
  <2>1. bytes \in Seq(Nat) /\ Len(bytes) = text
    <3>1. \A d \in 1..text : (IF d < size THEN fresh + d - 1 ELSE 0) \in Nat
      BY <1>2
    <3>. QED  BY <3>1
  <2>2. two \in Seq(Pages) /\ Len(two) > Len(chain) /\ \A d \in 1..Len(chain) : two[d] = chain[d]
    <3>1. Len(chain) \in Nat
      BY DEF ChainInv
    <3>. QED  BY <3>1, ExpandedIs
  <2> HIDE DEF bytes, two
  <2>3. ChainInv'
    BY <1>5, <2>1, <2>2, PutKeeps
  <2>. QED  BY <1>1, <2>3, SimpleRests
<1>6. CASE chain' = Expanded /\ blen' = blen + PageSize /\ UNCHANGED <<boff, puts, fresh, overrun>>
  <2>1. /\ chain' \in Seq(Pages) /\ Len(chain') = Len(chain) + 1 /\ blen' = blen + PageSize
        /\ puts' = puts /\ boff' = boff /\ fresh' = fresh
    BY <1>6, ExpandedIs
  <2>2. /\ Len(chain) \in Nat /\ Len(puts) \in Nat /\ Len(puts) <= Len(chain) /\ PageSize \in Nat
        /\ blen \in Nat /\ boff \in Nat /\ boff <= blen /\ blen = PageSize * Len(chain)
    BY PageBufferAssumption DEF ChainInv
  <2>3. Len(puts') # Len(chain') /\ Len(puts') <= Len(chain')
    BY <2>1, <2>2
  <2>4. blen' \in Nat /\ boff' \in Nat /\ boff' <= blen' /\ blen' = PageSize * Len(chain')
    <3>1. PageSize * (Len(chain) + 1) = PageSize * Len(chain) + PageSize
      BY <2>2
    <3>. QED  BY <2>1, <2>2, <3>1
  <2>5. ChainInv'
    BY <2>1, <2>3, <2>4 DEF ChainInv
  <2>. QED  BY <1>1, <2>5, SimpleRests
<1>. QED  BY <1>3, <1>4, <1>5, <1>6

LEMMA FreeChainKeeps ==
    ASSUME ChainInv, SimpleInv, free_buffer
    PROVE  ChainInv' /\ SimpleInv'
<1>1. /\ chain' = <<>> /\ blen' = 0 /\ boff' = 0 /\ puts' = <<>> /\ fresh' = fresh
      /\ UNCHANGED <<sbuf, queued, overrun>>
  BY DEF free_buffer
<1>2. FlattenSeq(<<>>) = <<>>
  BY DEF FlattenSeq
<1>3. <<>> \in Seq(Pages) /\ <<>> \in Seq(Seq(Nat)) /\ Len(<<>>) = 0 /\ PageSize * 0 = 0
  BY PageBufferAssumption
<1>4. fresh \in Nat
  BY DEF ChainInv
<1>5. ChainInv'
  BY <1>1, <1>2, <1>3, <1>4 DEF ChainInv
<1>. QED  BY <1>1, <1>5, SimpleRests

LEMMA InitSimpleKeeps ==
    ASSUME ChainInv, SimpleInv, init_simple_buff
    PROVE  ChainInv' /\ SimpleInv'
<1> DEFINE new == [page |-> EmptyPage, len |-> PageSize, off |-> 0, ptr |-> 0]
<1>1. /\ sbuf' \in {NoPage, new} /\ queued' = <<>> /\ overrun = "none" /\ overrun' = overrun
      /\ UNCHANGED <<chain, blen, boff, puts>> /\ fresh' = fresh
  BY DEF init_simple_buff, Call
<1>2. ChainInv'
  <2>1. fresh \in Nat
    BY DEF ChainInv
  <2>. QED  BY <1>1, <2>1, NoMemoryKeeps
<1>3. <<>> \in Seq(Nat) /\ Len(<<>>) = 0
  OBVIOUS
<1>4. new \in [page : Pages, len : Int, off : Nat, ptr : Nat]
  BY EmptyIsPage, PageBufferAssumption
<1>5. /\ new.ptr + new.len = PageSize /\ new.off = 0 /\ new.off <= new.len
      /\ SubSeq(new.page, new.ptr + 1, new.ptr + new.off) = <<>>
  <2>1. PageSize \in Nat /\ new.page = EmptyPage /\ new.ptr = 0 /\ new.len = PageSize /\ new.off = 0
    BY PageBufferAssumption
  <2>2. SubSeq(EmptyPage, 0 + 1, 0 + 0) = <<>>
    <3> DEFINE s == SubSeq(EmptyPage, 0 + 1, 0 + 0)
    <3>1. s \in Seq(Nat) /\ Len(s) = 0
      BY <2>1, EmptyIsPage, PieceOfPage
    <3> HIDE DEF s
    <3>2. s = <<>>
      BY <3>1
    <3>. QED  BY <3>2 DEF s
  <2>. QED  BY <2>1, <2>2
<1> HIDE DEF new
<1>6. SimpleInv'
  <2>1. CASE sbuf' = NoPage
    BY <1>1, <1>3, <2>1 DEF SimpleInv
  <2>2. CASE sbuf' = new
    BY <1>1, <1>3, <1>4, <1>5, <2>2 DEF SimpleInv
  <2>. QED  BY <1>1, <2>1, <2>2
<1>. QED  BY <1>2, <1>6

LEMMA FreeSimpleKeeps ==
    ASSUME ChainInv, SimpleInv, free_simple_buff
    PROVE  ChainInv' /\ SimpleInv'
<1>1. /\ sbuf' = NoPage /\ queued' = <<>>
      /\ UNCHANGED <<chain, blen, boff, puts>> /\ fresh' = fresh
  BY DEF free_simple_buff
<1>2. fresh \in Nat
  BY DEF ChainInv
<1>3. ChainInv'
  BY <1>1, <1>2, NoMemoryKeeps
<1>4. <<>> \in Seq(Nat)
  OBVIOUS
<1>5. SimpleInv'
  BY <1>1, <1>4 DEF SimpleInv
<1>. QED  BY <1>3, <1>5

LEMMA ReadKeeps ==
    ASSUME ChainInv, SimpleInv, NEW c \in Nat, sbuffer_read(c)
    PROVE  ChainInv' /\ SimpleInv'
<1>1. sbuf # NoPage /\ fresh \in Nat
  BY DEF sbuffer_read, ChainInv
<1>2. CASE ~ MayRead
  <2>1. UNCHANGED <<chain, blen, boff, puts, sbuf, queued>> /\ fresh' = fresh /\ overrun' = overrun
    BY <1>2 DEF sbuffer_read, SameSimple
  <2>. QED  BY <1>1, <2>1, NoMemoryKeeps, SimpleRests
<1>3. CASE MayRead
  <2>1. PICK r \in 0..Least(sbuf.len - sbuf.off, c) : Push(NewBytes(r), r)
    BY <1>3 DEF sbuffer_read
  <2>2. sbuf.len \in Int /\ sbuf.off = 0
    BY <1>1, <1>3 DEF SimpleInv, MayRead
  <2>3. r \in Nat /\ r <= sbuf.len
    BY <2>1, <2>2 DEF Least
  <2>4. NewBytes(r) \in Seq(Nat) /\ Len(NewBytes(r)) = r
    BY <1>1, <2>3, BytesOf
  <2>5. sbuf.off + Len(NewBytes(r)) <= sbuf.len
    BY <2>2, <2>3, <2>4
  <2>6. SimpleInv'
    BY <1>1, <2>1, <2>3, <2>4, <2>5, PushKeeps
  <2>7. UNCHANGED <<chain, blen, boff, puts>> /\ fresh' \in Nat
    BY <1>1, <2>1, <2>3 DEF Push
  <2>8. ChainInv'
    BY <2>7, NoMemoryKeeps
  <2>. QED  BY <2>6, <2>8
<1>. QED  BY <1>2, <1>3

LEMMA SPrintKeeps ==
    ASSUME ChainInv, SimpleInv, NEW size \in Nat, NEW text \in Nat, sbuffer_printf(size, text)
    PROVE  ChainInv' /\ SimpleInv'
<1> DEFINE rest == sbuf.len - sbuf.off
           left == IF rest < 0 THEN size ELSE Least(rest, size)
           bytes == IF text < left THEN Append(NewBytes(text), 0)
                    ELSE Append(NewBytes(left - 1), 0)
<1>1. sbuf # NoPage /\ fresh \in Nat
  BY DEF sbuffer_printf, ChainInv
<1>2. /\ sbuf.len \in Int /\ sbuf.off \in Nat /\ Len(queued) \in Nat /\ Len(queued) <= sbuf.off
      /\ sbuf \in [page : Pages, len : Int, off : Nat, ptr : Nat]
  BY <1>1 DEF SimpleInv
<1>3. CASE rest = 0
  <2>1. UNCHANGED <<chain, blen, boff, puts, sbuf, queued>> /\ fresh' = fresh /\ overrun' = overrun
    BY <1>3 DEF sbuffer_printf, SameSimple
  <2>. QED  BY <1>1, <2>1, NoMemoryKeeps, SimpleRests
<1>4. CASE rest # 0 /\ left = 0
  <2>1. /\ sbuf' = [sbuf EXCEPT !.off = @ + text] /\ queued' = queued /\ fresh' = fresh
        /\ UNCHANGED <<chain, blen, boff, puts>> /\ overrun' = overrun
    BY <1>4 DEF sbuffer_printf
  <2>2. ChainInv'
    BY <1>1, <2>1, NoMemoryKeeps
  <2>3. /\ sbuf' \in [page : Pages, len : Int, off : Nat, ptr : Nat]
        /\ sbuf'.page = sbuf.page /\ sbuf'.off = sbuf.off + text /\ sbuf'.len = sbuf.len
        /\ sbuf'.ptr = sbuf.ptr
    <3>1. sbuf.off + text \in Nat
      BY <1>2
    <3>. QED  BY <1>2, <2>1, <3>1
  <2>4. Len(queued) <= sbuf.off + text
        /\ (Len(queued) = sbuf.off + text => text = 0 /\ Len(queued) = sbuf.off /\ sbuf.off + text = sbuf.off)
    BY <1>2
  <2>5. SimpleInv'
    <3>1. queued' \in Seq(Nat) /\ sbuf'.ptr + sbuf'.len = PageSize /\ Len(queued') <= sbuf'.off
      BY <1>1, <2>1, <2>3, <2>4 DEF SimpleInv
    <3>2. ASSUME Len(queued') = sbuf'.off
          PROVE  /\ overrun' # "simple" /\ sbuf'.off <= sbuf'.len
                 /\ SubSeq(sbuf'.page, sbuf'.ptr + 1, sbuf'.ptr + sbuf'.off) = queued'
      <4>1. sbuf'.off = sbuf.off /\ Len(queued) = sbuf.off
        BY <2>1, <2>3, <2>4, <3>2
      <4>. QED  BY <1>1, <2>1, <2>3, <4>1 DEF SimpleInv
    <3>. QED  BY <2>3, <3>1, <3>2 DEF SimpleInv
  <2>. QED  BY <2>2, <2>5
<1>5. CASE rest # 0 /\ left # 0
  <2>1. Push(bytes, text)
    BY <1>5 DEF sbuffer_printf
  <2>2. rest \in Int /\ left \in Nat \ {0} /\ left - 1 \in Nat /\ (rest >= 0 => left <= rest)
    BY <1>2, <1>5 DEF Least
  <2> HIDE DEF rest, left
  <2>3. bytes \in Seq(Nat) /\ Len(bytes) <= left
    <3>1. CASE text < left
      <4> DEFINE b == NewBytes(text)
      <4>1. b \in Seq(Nat) /\ Len(b) = text
        BY <1>1, BytesOf
      <4> HIDE DEF b
      <4>2. Append(b, 0) \in Seq(Nat) /\ Len(Append(b, 0)) = text + 1
        BY <4>1
      <4>. QED  BY <2>2, <3>1, <4>2 DEF b
    <3>2. CASE ~ (text < left)
      <4> DEFINE b == NewBytes(left - 1)
      <4>1. b \in Seq(Nat) /\ Len(b) = left - 1
        BY <1>1, <2>2, BytesOf
      <4> HIDE DEF b
      <4>2. Append(b, 0) \in Seq(Nat) /\ Len(Append(b, 0)) = left
        BY <2>2, <4>1
      <4>. QED  BY <2>2, <3>2, <4>2 DEF b
    <3>. QED  BY <3>1, <3>2
  <2> HIDE DEF bytes
  <2>4. sbuf.off = Len(queued) => sbuf.off + Len(bytes) <= sbuf.len
    <3> SUFFICES ASSUME sbuf.off = Len(queued) PROVE sbuf.off + Len(bytes) <= sbuf.len
      OBVIOUS
    <3>1. sbuf.off <= sbuf.len
      BY <1>1 DEF SimpleInv
    <3>2. rest >= 0
      BY <1>2, <3>1 DEF rest
    <3>3. Len(bytes) <= rest /\ Len(bytes) \in Nat
      BY <2>2, <2>3, <3>2
    <3>. QED  BY <1>2, <3>3 DEF rest
  <2>5. SimpleInv'
    BY <1>1, <2>1, <2>3, <2>4, PushKeeps
  <2>6. UNCHANGED <<chain, blen, boff, puts>> /\ fresh' \in Nat
    BY <1>1, <2>1 DEF Push
  <2>7. ChainInv'
    BY <2>6, NoMemoryKeeps
  <2>. QED  BY <2>5, <2>7
<1> HIDE DEF rest, left
<1>. QED  BY <1>3, <1>4, <1>5

LEMMA PopKeeps ==
    ASSUME ChainInv, SimpleInv, NEW c \in Nat, sbuffer_pop(c)
    PROVE  ChainInv' /\ SimpleInv'
<1> DEFINE page == sbuf.page
           len == sbuf.len
           off == sbuf.off
           start == sbuf.ptr
           q == queued
           L == Len(q)
           more == SubSeq(q, c + 1, L)
<1>1. /\ sbuf # NoPage /\ fresh \in Nat
      /\ sbuf \in [page : Pages, len : Int, off : Nat, ptr : Nat]
      /\ page \in Pages /\ len \in Int /\ off \in Nat /\ start \in Nat /\ start + len = PageSize
      /\ q \in Seq(Nat) /\ L \in Nat /\ L <= off /\ c <= L
  BY DEF sbuffer_pop, SimpleInv, ChainInv
<1>2. /\ sbuf' = [sbuf EXCEPT !.len = len - c, !.off = off - c, !.ptr = start + c]
      /\ queued' = more /\ overrun' = overrun /\ fresh' = fresh
      /\ UNCHANGED <<chain, blen, boff, puts>>
  BY DEF sbuffer_pop
<1>3. ChainInv'
  BY <1>1, <1>2, NoMemoryKeeps
<1>4. /\ sbuf' \in [page : Pages, len : Int, off : Nat, ptr : Nat] /\ sbuf'.page = page
      /\ sbuf'.len = len - c /\ sbuf'.off = off - c /\ sbuf'.ptr = start + c
  <2>1. len - c \in Int /\ off - c \in Nat /\ start + c \in Nat
    BY <1>1
  <2>. QED  BY <1>1, <1>2, <2>1
<1>5. L = off => /\ overrun # "simple" /\ off <= len
                 /\ SubSeq(page, start + 1, start + off) = q
  BY <1>1 DEF SimpleInv
<1> HIDE DEF page, len, off, start, q, L
<1>6. more \in Seq(Nat) /\ Len(more) = L - c /\ \A d \in 1..(L - c) : more[d] = q[c + d]
  <2>1. L = Len(q)
    BY DEF L
  <2>2. c + 1 \in Nat /\ c + 1 >= 1 /\ L - (c + 1) + 1 = L - c /\ L - c \in Nat
    BY <1>1
  <2>. QED  BY <1>1, <2>1, <2>2
<1> HIDE DEF more
<1>7. ASSUME L - c = off - c
      PROVE  /\ off - c <= len - c
             /\ SubSeq(page, (start + c) + 1, (start + c) + (off - c)) = more
  <2>1. L = off
    BY <1>1, <1>7
  <2>2. off <= len /\ SubSeq(page, start + 1, start + off) = q
    BY <1>5, <2>1
  <2>3. start + off <= PageSize /\ off - c \in Nat /\ start + c \in Nat
        /\ (start + c) + (off - c) = start + off /\ PageSize \in Nat
    BY <1>1, <2>1, <2>2, PageBufferAssumption
  <2>4. \A d \in 1..off : page[start + d] = q[d]
    <3>1. \A d \in 1..off : SubSeq(page, start + 1, start + off)[d] = page[start + d]
      <4>1. page \in Pages /\ start \in Nat /\ off \in Nat /\ start + off <= PageSize
        BY <1>1, <2>3
      <4>. QED  BY <4>1, PieceOfPage, Zenon
    <3>. QED  BY <2>2, <3>1
  <2> DEFINE at == start + c
             m == off - c
             s == SubSeq(page, at + 1, at + m)
  <2>5. s \in Seq(Nat) /\ Len(s) = m /\ \A d \in 1..m : s[d] = page[at + d]
    <3>1. at + m <= PageSize /\ at \in Nat /\ m \in Nat
      BY <2>3
    <3> HIDE DEF at, m
    <3>2. page \in Pages
      BY <1>1
    <3>. QED  BY <3>1, <3>2, PieceOfPage, Zenon
  <2> HIDE DEF s
  <2>6. ASSUME NEW d \in 1..m PROVE s[d] = more[d]
    <3>1. c + d \in 1..off /\ at + d = start + (c + d) /\ d \in 1..(L - c)
      BY <1>1, <2>1
    <3>. QED  BY <1>6, <2>4, <2>5, <3>1
  <2>7. s = more
    <3> HIDE DEF at, m
    <3>1. Len(more) = m
      BY <1>6, <2>1 DEF m
    <3>. QED  BY <1>6, <2>5, <2>6, <3>1, SameSeq
  <2>8. off - c <= len - c
    BY <1>1, <2>2
  <2>. QED  BY <2>7, <2>8 DEF s, at, m
<1>8. SimpleInv'
  <2>1. /\ queued' \in Seq(Nat) /\ sbuf'.ptr + sbuf'.len = PageSize /\ Len(queued') <= sbuf'.off
    <3>1. queued' \in Seq(Nat) /\ Len(queued') = L - c
      BY <1>2, <1>6
    <3>2. sbuf'.ptr + sbuf'.len = PageSize
      BY <1>1, <1>4
    <3>3. L - c <= off - c
      BY <1>1
    <3>. QED  BY <1>4, <3>1, <3>2, <3>3
  <2>2. ASSUME Len(queued') = sbuf'.off
        PROVE  /\ overrun' # "simple" /\ sbuf'.off <= sbuf'.len
               /\ SubSeq(sbuf'.page, sbuf'.ptr + 1, sbuf'.ptr + sbuf'.off) = queued'
    <3>1. L - c = off - c /\ L = off
      <4>1. Len(queued') = L - c
        BY <1>2, <1>6
      <4>2. L - c = off - c
        BY <1>4, <2>2, <4>1
      <4>. QED  BY <1>1, <4>2
    <3>. QED  BY <1>2, <1>4, <1>5, <1>7, <3>1
  <2>. QED  BY <1>4, <2>1, <2>2 DEF SimpleInv
<1>. QED  BY <1>3, <1>8

\* The theorem: both buffers hand on the bytes put in, in order.
THEOREM BytesInOrderHolds == PBSpec => []BytesInOrder
<1>1. PBInit => ChainInv /\ SimpleInv
  <2> SUFFICES ASSUME PBInit PROVE ChainInv /\ SimpleInv
    OBVIOUS
  <2>1. /\ chain = <<>> /\ blen = 0 /\ boff = 0 /\ puts = <<>> /\ sbuf = NoPage /\ queued = <<>>
        /\ fresh = 1
    BY DEF PBInit
  <2>2. FlattenSeq(<<>>) = <<>>
    BY DEF FlattenSeq
  <2>3. <<>> \in Seq(Pages) /\ <<>> \in Seq(Seq(Nat)) /\ <<>> \in Seq(Nat) /\ Len(<<>>) = 0
        /\ PageSize * 0 = 0
    BY PageBufferAssumption
  <2>. QED  BY <2>1, <2>2, <2>3 DEF ChainInv, SimpleInv
<1>2. ChainInv /\ SimpleInv /\ [PBNext]_bvars => ChainInv' /\ SimpleInv'
  <2> SUFFICES ASSUME ChainInv, SimpleInv, [PBNext]_bvars PROVE ChainInv' /\ SimpleInv'
    OBVIOUS
  <2>1. Counts \subseteq Nat
    BY PageBufferAssumption
  <2>2. CASE UNCHANGED bvars
    <3>1. UNCHANGED <<chain, blen, boff, puts, sbuf, queued>> /\ fresh' = fresh /\ overrun' = overrun
      BY <2>2 DEF bvars
    <3>2. fresh \in Nat
      BY DEF ChainInv
    <3>. QED  BY <3>1, <3>2, NoMemoryKeeps, SimpleRests
  <2>3. ASSUME NEW c \in Counts, buffer_copy(c) \/ buffer_read(c) PROVE ChainInv' /\ SimpleInv'
    BY <2>1, <2>3, CopyKeeps
  <2>4. ASSUME NEW c \in Counts, sbuffer_read(c) PROVE ChainInv' /\ SimpleInv'
    BY <2>1, <2>4, ReadKeeps
  <2>5. ASSUME NEW c \in Counts, sbuffer_pop(c) PROVE ChainInv' /\ SimpleInv'
    BY <2>1, <2>5, PopKeeps
  <2>6. ASSUME NEW s \in Counts, NEW t \in Counts, buffer_printf(s, t)
        PROVE  ChainInv' /\ SimpleInv'
    BY <2>1, <2>6, PrintKeeps
  <2>7. ASSUME NEW s \in Counts, NEW t \in Counts, sbuffer_printf(s, t)
        PROVE  ChainInv' /\ SimpleInv'
    BY <2>1, <2>7, SPrintKeeps
  <2>. QED  BY <2>2, <2>3, <2>4, <2>5, <2>6, <2>7, FreeChainKeeps, InitSimpleKeeps,
               FreeSimpleKeeps DEF PBNext
<1>3. ChainInv /\ SimpleInv => BytesInOrder
  BY ChainInvImplies, SimpleInvImplies DEF BytesInOrder
<1>. QED  BY <1>1, <1>2, <1>3, PTL DEF PBSpec

-----------------------------------------------------------------------------
(* The smart schedule of a bitmatrix *)

\* During a walk, the rows it has passed.
Seen == {r \in Todo : i = -1 \/ r < i}

\* No row costs more than building it, nor more than the number of columns.
CostInv == \A r \in Rows : diff[r] \in 0..C

WalkInv ==
    pc = "scan" =>
        /\ i = -1 \/ i \in Todo
        /\ IF Seen = {}
           THEN bestdiff = C + 1
           ELSE /\ bestrow \in Seen
                /\ bestdiff = diff[bestrow]
                /\ \A r \in Seen : bestdiff <= diff[r]

ScheduleInv == TypeOK /\ ListIsTodo /\ GreedyChoice /\ CostInv /\ WalkInv

-----------------------------------------------------------------------------
\* The number of ones in a row, and in the difference of two rows, is a natural
\* number of at most C: the sums the scheduler computes.
LEMMA RowSize ==
    ASSUME NEW S \in SUBSET Cols
    PROVE  Cardinality(S) \in 0..C
<1>1. IsFiniteSet(Cols) /\ Cardinality(Cols) = C
  BY FS_Interval, ScheduleAssumption DEF Cols
<1>2. IsFiniteSet(S) /\ Cardinality(S) <= Cardinality(Cols)
  BY <1>1, FS_Subset
<1>3. Cardinality(S) \in Nat
  BY <1>2, FS_CardinalityType
<1> QED
  BY <1>1, <1>2, <1>3, ScheduleAssumption

LEMMA XorRow ==
    ASSUME NEW S \in SUBSET Cols, NEW T \in SUBSET Cols
    PROVE  Cardinality(Xor(S, T)) \in Nat
<1>1. Xor(S, T) \in SUBSET Cols
  BY DEF Xor
<1> QED
  BY <1>1, RowSize

\* Appending a row to the order of the rows done takes it out of Todo.
LEMMA OneLess ==
    ASSUME order \in Seq(Rows), NEW r \in Rows, order' = Append(order, r)
    PROVE  /\ Done' = Done \cup {r}
           /\ Todo' = Todo \ {r}
           /\ order' \in Seq(Rows)
<1>1. /\ Len(order') = Len(order) + 1
      /\ \A p \in 1..Len(order) : order'[p] = order[p]
      /\ order'[Len(order) + 1] = r
      /\ Len(order) \in Nat
      /\ order' \in Seq(Rows)
  OBVIOUS
<1>2. Done' = Done \cup {r}
  BY <1>1 DEF Done
<1>3. Rows' = Rows
  BY DEF Rows
<1> QED
  BY <1>1, <1>2, <1>3 DEF Todo

-----------------------------------------------------------------------------
LEMMA InitInv == Init => ScheduleInv
<1> SUFFICES ASSUME Init PROVE ScheduleInv
  OBVIOUS
<1> USE ScheduleAssumption
<1>1. bitmatrix \in [Rows -> SUBSET Cols]
  BY DEF Init
<1>2. \A r \in Rows : Cardinality(bitmatrix[r]) \in 0..C
  BY <1>1, RowSize
<1>3. Done = {} /\ Todo = Rows
  BY DEF Init, Done, Todo
<1>4. TypeOK
  <2>1. diff \in [Rows -> Nat] /\ bestdiff \in Nat
    BY <1>2 DEF Init
  <2>2. /\ from \in [Rows -> Rows \cup {-1}]
        /\ flink \in [Rows -> Rows \cup {-1}]
        /\ blink \in [Rows -> Rows \cup {-1}]
    BY DEF Init, FullList, Rows
  <2>3. order \in Seq(Rows)
    BY DEF Init
  <2> QED
    BY <1>1, <2>1, <2>2, <2>3 DEF Init, TypeOK, Rows
<1>5. ListIsTodo
  <2>1. IsFirst(top, Todo)
    <3>1. top = 0 /\ 0 \in Rows /\ \A s \in Rows : 0 <= s
      BY DEF Init, Rows
    <3> QED
      BY <3>1, <1>3 DEF IsFirst
  <2>2. ASSUME NEW r \in Rows
        PROVE  IsFirst(flink[r], {s \in Rows : s > r})
    <3>1. CASE r = R - 1
      BY <3>1 DEF Init, IsFirst, FullList, Rows
    <3>2. CASE r # R - 1
      <4>1. flink[r] = r + 1 /\ r + 1 \in {s \in Rows : s > r}
        BY <3>2 DEF Init, FullList, Rows
      <4>2. \A s \in {s \in Rows : s > r} : r + 1 <= s
        BY DEF Rows
      <4> QED
        BY <4>1, <4>2 DEF IsFirst
    <3> QED
      BY <3>1, <3>2
  <2>3. ASSUME NEW r \in Rows
        PROVE  IsLast(blink[r], {s \in Rows : s < r})
    <3>1. CASE r = 0
      BY <3>1 DEF Init, IsLast, Rows
    <3>2. CASE r # 0
      <4>1. blink[r] = r - 1 /\ r - 1 \in {s \in Rows : s < r}
        BY <3>2 DEF Init, Rows
      <4>2. \A s \in {s \in Rows : s < r} : s <= r - 1
        BY DEF Rows
      <4> QED
        BY <4>1, <4>2 DEF IsLast
    <3> QED
      BY <3>1, <3>2
  <2> HIDE DEF Init
  <2> QED
    BY <2>1, <2>2, <2>3, <1>3 DEF ListIsTodo
<1>6. GreedyChoice
  BY <1>3 DEF Init, GreedyChoice, FirstBest
<1>7. CostInv
  BY <1>2 DEF Init, CostInv
<1>8. WalkInv
  BY DEF Init, WalkInv
<1> QED
  BY <1>4, <1>5, <1>6, <1>7, <1>8 DEF ScheduleInv

-----------------------------------------------------------------------------
\* Unlinking a row of the list leaves the list of the other rows.
LEMMA UnlinkKeepsList ==
    ASSUME TypeOK, ListIsTodo, NEW b \in Todo, UnlinkRow(b), Todo' = Todo \ {b}
    PROVE  /\ ListIsTodo'
           /\ flink' \in [Rows -> Rows \cup {-1}]
           /\ blink' \in [Rows -> Rows \cup {-1}]
           /\ top' \in Rows \cup {-1}
<1> USE ScheduleAssumption
<1> DEFINE f == flink[b]
           p == blink[b]
<1>0. /\ Todo \subseteq Rows
      /\ \A r \in Rows : r \in Int /\ r >= 0
      /\ b \in Rows
      /\ IsFirst(f, {s \in Todo : s > b})
      /\ IsLast(p, {s \in Todo : s < b})
      /\ IsFirst(top, Todo)
      /\ flink \in [Rows -> Rows \cup {-1}]
      /\ blink \in [Rows -> Rows \cup {-1}]
      /\ top \in Rows \cup {-1}
  <2>1. Todo \subseteq Rows
    BY DEF Todo
  <2>2. \A r \in Rows : r \in Int /\ r >= 0
    BY DEF Rows
  <2> QED
    BY <2>1, <2>2 DEF ListIsTodo, TypeOK
<1>1. \/ f = -1 /\ \A s \in Todo : ~(s > b)
      \/ f \in Todo /\ f > b /\ \A s \in Todo : s > b => f <= s
  BY <1>0 DEF IsFirst
<1>2. \/ p = -1 /\ \A s \in Todo : ~(s < b)
      \/ p \in Todo /\ p < b /\ \A s \in Todo : s < b => s <= p
  BY <1>0 DEF IsLast
<1>3. \A r \in Rows : r # -1
  BY DEF Rows
\* The links that change, written out.
<1>4. /\ top' = IF p = -1 THEN f ELSE top
      /\ flink' = IF p = -1 THEN flink ELSE [flink EXCEPT ![p] = f]
      /\ blink' = IF f = -1 THEN blink ELSE [blink EXCEPT ![f] = p]
  BY DEF UnlinkRow
<1>5. /\ flink' \in [Rows -> Rows \cup {-1}]
      /\ blink' \in [Rows -> Rows \cup {-1}]
      /\ top' \in Rows \cup {-1}
  BY <1>0, <1>4
<1>6. IsFirst(top', Todo')
  <2>1. CASE p = -1
    <3>1. CASE f = -1
      <4>1. Todo' = {}
        BY <1>0, <1>1, <1>2, <1>3, <2>1, <3>1
      <4> QED
        BY <4>1, <1>4, <2>1, <3>1 DEF IsFirst
    <3>2. CASE f # -1
      <4>1. f \in Todo' /\ \A s \in Todo' : f <= s
        BY <1>0, <1>1, <1>2, <1>3, <2>1, <3>2
      <4> QED
        BY <4>1, <1>4, <2>1 DEF IsFirst
    <3> QED
      BY <3>1, <3>2
  <2>2. CASE p # -1
    <3>1. top \in Todo /\ \A s \in Todo : top <= s
      BY <1>0 DEF IsFirst
    <3>2. p \in Todo' /\ top # b
      BY <3>1, <1>0, <1>2, <2>2
    <3> QED
      BY <3>1, <3>2, <1>4, <2>2 DEF IsFirst
  <2> QED
    BY <2>1, <2>2
<1>7. ASSUME NEW r \in Todo'
      PROVE  IsFirst(flink'[r], {s \in Todo' : s > r})
  <2>0. r \in Todo /\ r # b /\ IsFirst(flink[r], {s \in Todo : s > r})
    BY DEF ListIsTodo
  <2>1. CASE r = p
    <3>1. flink'[r] = f
      BY <1>0, <1>3, <1>4, <2>0, <2>1
    <3>2. CASE f = -1
      <4>1. {s \in Todo' : s > r} = {}
        BY <1>0, <1>1, <1>2, <1>3, <2>0, <2>1, <3>2
      <4> QED
        BY <3>1, <3>2, <4>1 DEF IsFirst
    <3>3. CASE f # -1
      <4>1. f \in Todo' /\ f > r
        BY <1>0, <1>1, <1>2, <1>3, <2>0, <2>1, <3>3
      <4>2. ASSUME NEW s \in Todo', s > r PROVE f <= s
        BY <4>2, <1>0, <1>1, <1>2, <1>3, <2>0, <2>1, <3>3
      <4> QED
        BY <3>1, <4>1, <4>2 DEF IsFirst
    <3> QED
      BY <3>2, <3>3
  <2>2. CASE r # p
    <3>1. flink'[r] = flink[r]
      BY <1>0, <1>4, <2>0, <2>2
    <3>2. flink[r] # b
      <4> SUFFICES ASSUME flink[r] = b PROVE FALSE
        OBVIOUS
      <4>1. b > r /\ \A s \in Todo : s > r => b <= s
        BY <1>0, <1>3, <2>0 DEF IsFirst
      <4>2. p \in Todo /\ r <= p /\ p < b
        BY <4>1, <1>0, <1>2, <2>0
      <4> QED
        BY <4>1, <4>2, <2>0, <2>2, <1>0
    <3> QED
      <4>1. CASE {s \in Todo : s > r} = {}
        BY <3>1, <2>0, <4>1 DEF IsFirst
      <4>2. CASE {s \in Todo : s > r} # {}
        <5>1. /\ flink[r] \in Todo' /\ flink[r] > r
              /\ \A s \in Todo' : s > r => flink[r] <= s
          BY <4>2, <3>2, <2>0 DEF IsFirst
        <5> QED
          BY <5>1, <3>1 DEF IsFirst
      <4> QED
        BY <4>1, <4>2
  <2> QED
    BY <2>1, <2>2
<1>8. ASSUME NEW r \in Todo'
      PROVE  IsLast(blink'[r], {s \in Todo' : s < r})
  <2>0. r \in Todo /\ r # b /\ IsLast(blink[r], {s \in Todo : s < r})
    BY DEF ListIsTodo
  <2>1. CASE r = f
    <3>1. blink'[r] = p
      BY <1>0, <1>3, <1>4, <2>0, <2>1
    <3>2. CASE p = -1
      <4>1. {s \in Todo' : s < r} = {}
        BY <1>0, <1>1, <1>2, <1>3, <2>0, <2>1, <3>2
      <4> QED
        BY <3>1, <3>2, <4>1 DEF IsLast
    <3>3. CASE p # -1
      <4>1. p \in Todo' /\ p < r
        BY <1>0, <1>1, <1>2, <1>3, <2>0, <2>1, <3>3
      <4>2. ASSUME NEW s \in Todo', s < r PROVE s <= p
        BY <4>2, <1>0, <1>1, <1>2, <1>3, <2>0, <2>1, <3>3
      <4> QED
        BY <3>1, <4>1, <4>2 DEF IsLast
    <3> QED
      BY <3>2, <3>3
  <2>2. CASE r # f
    <3>1. blink'[r] = blink[r]
      BY <1>0, <1>4, <2>0, <2>2
    <3>2. blink[r] # b
      <4> SUFFICES ASSUME blink[r] = b PROVE FALSE
        OBVIOUS
      <4>1. b < r /\ \A s \in Todo : s < r => s <= b
        BY <1>0, <1>3, <2>0 DEF IsLast
      <4>2. f \in Todo /\ f <= r /\ b < f
        BY <4>1, <1>0, <1>1, <2>0
      <4> QED
        BY <4>1, <4>2, <2>0, <2>2, <1>0
    <3> QED
      <4>1. CASE {s \in Todo : s < r} = {}
        BY <3>1, <2>0, <4>1 DEF IsLast
      <4>2. CASE {s \in Todo : s < r} # {}
        <5>1. /\ blink[r] \in Todo' /\ blink[r] < r
              /\ \A s \in Todo' : s < r => s <= blink[r]
          BY <4>2, <3>2, <2>0 DEF IsLast
        <5> QED
          BY <5>1, <3>1 DEF IsLast
      <4> QED
        BY <4>1, <4>2
  <2> QED
    BY <2>1, <2>2
<1> QED
  BY <1>5, <1>6, <1>7, <1>8 DEF ListIsTodo

-----------------------------------------------------------------------------
LEMMA TakeStep == ScheduleInv /\ Take => ScheduleInv'
<1> SUFFICES ASSUME ScheduleInv, Take PROVE ScheduleInv'
  OBVIOUS
<1> USE ScheduleAssumption
<1>0. top \in Todo /\ bestrow \in Todo /\ Todo \subseteq Rows
  <2>1. top # -1 /\ IsFirst(top, Todo)
    BY DEF Take, ScheduleInv, ListIsTodo
  <2>2. top \in Todo
    BY <2>1 DEF IsFirst
  <2>3. bestrow \in Todo
    BY <2>1 DEF ScheduleInv, GreedyChoice, Take
  <2> QED
    BY <2>2, <2>3 DEF Todo
<1>1. /\ Todo' = Todo \ {bestrow} /\ Done' = Done \cup {bestrow}
      /\ order' \in Seq(Rows)
  BY <1>0, OneLess DEF Take, ScheduleInv, TypeOK
<1>2. /\ ListIsTodo'
      /\ flink' \in [Rows -> Rows \cup {-1}]
      /\ blink' \in [Rows -> Rows \cup {-1}]
      /\ top' \in Rows \cup {-1}
  BY <1>0, <1>1, UnlinkKeepsList DEF Take, ScheduleInv
<1>3. TypeOK'
  <2>1. /\ bitmatrix' = bitmatrix /\ diff' = diff /\ from' = from
        /\ bestrow' = bestrow /\ row' = bestrow /\ i' = top'
        /\ bestdiff' = C + 1 /\ pc' = "scan"
    BY DEF Take, ForgetBest
  <2> QED
    BY <2>1, <1>1, <1>2 DEF ScheduleInv, TypeOK, Rows, Cols
<1>4. GreedyChoice'
  <2>1. /\ order' = Append(order, bestrow) /\ order \in Seq(Rows)
        /\ \A p, q \in 1..Len(order) : order[p] = order[q] => p = q
        /\ \A p \in 1..Len(order) : order[p] # bestrow
    BY <1>0 DEF Take, ScheduleInv, TypeOK, GreedyChoice, Todo, Done
  <2>2. \A p, q \in 1..Len(order') : order'[p] = order'[q] => p = q
    BY <2>1
  <2> QED
    BY <2>2 DEF Take, GreedyChoice
<1>5. CostInv'
  BY DEF Take, ScheduleInv, CostInv, Rows
<1>6. WalkInv'
  <2>1. i' = -1 \/ (i' \in Todo' /\ \A s \in Todo' : i' <= s)
    <3>1. IsFirst(top', Todo') /\ i' = top'
      BY <1>2 DEF ListIsTodo, Take
    <3> QED
      BY <3>1 DEF IsFirst
  <2>2. Seen' = {}
    <3>1. CASE i' = -1
      <4>1. IsFirst(top', Todo') /\ i' = top'
        BY <1>2 DEF ListIsTodo, Take
      <4>2. Todo' = {}
        <5>1. Todo' \subseteq Rows /\ -1 \notin Rows
          BY <1>0, <1>1 DEF Rows
        <5> QED
          BY <5>1, <4>1, <3>1 DEF IsFirst
      <4> QED
        BY <4>2 DEF Seen
    <3>2. CASE i' # -1
      <4>0. \A s \in Todo' : s \in Int
        BY <1>0, <1>1 DEF Rows
      <4>1. i' \in Todo' /\ i' \in Int
        BY <4>0, <2>1, <3>2
      <4>2. \A s \in Todo' : i' # -1 /\ ~(s < i')
        BY <4>0, <4>1, <2>1, <3>2
      <4> QED
        BY <4>2 DEF Seen
    <3> QED
      BY <3>1, <3>2
  <2> QED
    BY <2>1, <2>2 DEF WalkInv, Take, ForgetBest
<1> QED
  BY <1>2, <1>3, <1>4, <1>5, <1>6 DEF ScheduleInv

\* One step of the walk: the rows passed so far gain row i.
LEMMA ScanStep == ScheduleInv /\ Scan => ScheduleInv'
<1> SUFFICES ASSUME ScheduleInv, Scan PROVE ScheduleInv'
  OBVIOUS
<1> USE ScheduleAssumption
<1> DEFINE no == DeriveCost(i, row)
           new == IF no < diff[i] THEN no ELSE diff[i]
<1>0. /\ i \in Todo /\ i \in Rows /\ Todo \subseteq Rows
      /\ Todo' = Todo /\ Done' = Done /\ Rows' = Rows
  BY DEF Scan, ScheduleInv, WalkInv, Todo, Done, Rows
<1>1. /\ no \in Nat /\ new \in 0..C /\ diff[i] \in 0..C /\ new <= diff[i]
      /\ diff' = [diff EXCEPT ![i] = new]
  <2>1. no \in Nat
    <3>1. bitmatrix[i] \in SUBSET Cols /\ bitmatrix[row] \in SUBSET Cols
      BY <1>0 DEF ScheduleInv, TypeOK
    <3>2. Cardinality(Xor(bitmatrix[i], bitmatrix[row])) \in Nat
      BY <3>1, XorRow
    <3> QED
      BY <3>2 DEF DeriveCost
  <2>2. diff[i] \in 0..C
    BY <1>0 DEF ScheduleInv, CostInv
  <2>3. diff' = [diff EXCEPT ![i] = new]
    BY DEF Scan
  <2> HIDE DEF no
  <2> QED
    BY <2>1, <2>2, <2>3
<1>2. \/ new < bestdiff /\ bestdiff' = new /\ bestrow' = i
      \/ ~(new < bestdiff) /\ bestdiff' = bestdiff /\ bestrow' = bestrow
  BY DEF Scan
<1>3. i' = flink[i] /\ IsFirst(flink[i], {s \in Todo : s > i})
  BY <1>0 DEF Scan, After, ScheduleInv, ListIsTodo
<1> HIDE DEF no, new
<1>4. TypeOK'
  <2>1. from' \in [Rows -> Rows \cup {-1}]
    BY <1>0 DEF Scan, ScheduleInv, TypeOK, Source
  <2>2. diff' \in [Rows -> Nat]
    BY <1>0, <1>1 DEF ScheduleInv, TypeOK
  <2>3. bestrow' \in Rows /\ bestdiff' \in Nat
    BY <1>0, <1>1, <1>2 DEF ScheduleInv, TypeOK
  <2>4. i' \in Rows \cup {-1}
    BY <1>0, <1>3 DEF ScheduleInv, TypeOK
  <2> QED
    BY <2>1, <2>2, <2>3, <2>4, <1>0 DEF Scan, ScheduleInv, TypeOK, lists, Cols
<1>5. ListIsTodo'
  BY <1>0 DEF Scan, lists, ScheduleInv, ListIsTodo
<1>6. GreedyChoice'
  BY DEF Scan, ScheduleInv, GreedyChoice
<1>7. CostInv'
  BY <1>0, <1>1 DEF ScheduleInv, CostInv, TypeOK
<1>8. i' = -1 \/ i' \in Todo'
  BY <1>0, <1>3 DEF IsFirst
<1>9. Seen' = Seen \cup {i} /\ i \notin Seen
  <2>1. /\ i # -1 /\ \A s \in Todo : s \in Int /\ s >= 0
    BY <1>0 DEF Scan, Rows
  <2>2. Seen = {r \in Todo : r < i}
    BY <2>1 DEF Seen
  <2>3. CASE {s \in Todo : s > i} = {}
    <3>1. i' = -1
      BY <1>3, <2>3 DEF IsFirst
    <3>2. \A s \in Todo : s < i \/ s = i
      <4>1. \A s \in Todo : ~(s > i)
        BY <2>3
      <4> QED
        BY <4>1, <1>0, <2>1
    <3>3. Seen' = Todo
      BY <3>1, <1>0 DEF Seen
    <3> QED
      BY <3>2, <3>3, <2>1, <2>2, <1>0
  <2>4. CASE {s \in Todo : s > i} # {}
    <3>1. /\ i' \in Todo /\ i' > i
          /\ \A s \in Todo : s > i => i' <= s
      BY <1>3, <2>4 DEF IsFirst
    <3>2. Seen' = {r \in Todo : r < i'}
      BY <3>1, <2>1, <1>0 DEF Seen
    <3>3. \A r \in Todo : r < i' <=> r < i \/ r = i
      BY <3>1, <2>1, <1>0
    <3> QED
      BY <3>2, <3>3, <2>1, <2>2, <1>0
  <2> QED
    BY <2>3, <2>4
<1>10. /\ bestrow' \in Seen' /\ bestdiff' = diff'[bestrow']
       /\ \A r \in Seen' : bestdiff' <= diff'[r]
  <2>1. /\ diff'[i] = new
        /\ \A r \in Seen : r \in Rows /\ r # i /\ diff'[r] = diff[r]
        /\ \A r \in Rows : diff[r] \in 0..C
    <3>1. Seen \subseteq Rows
      BY <1>0 DEF Seen
    <3> QED
      BY <3>1, <1>0, <1>1, <1>9 DEF ScheduleInv, CostInv, TypeOK
  <2>2. CASE Seen = {}
    <3>1. bestdiff = C + 1
      BY <2>2 DEF ScheduleInv, WalkInv, Scan
    <3>2. bestdiff' = new /\ bestrow' = i
      BY <3>1, <1>1, <1>2
    <3> QED
      BY <3>2, <2>1, <2>2, <1>1, <1>9
  <2>3. CASE Seen # {}
    <3>1. /\ bestrow \in Seen /\ bestdiff = diff[bestrow]
          /\ \A r \in Seen : bestdiff <= diff[r]
      BY <2>3 DEF ScheduleInv, WalkInv, Scan
    <3>2. CASE new < bestdiff
      <4>1. bestdiff' = new /\ bestrow' = i
        BY <3>2, <1>2
      <4>2. ASSUME NEW r \in Seen' PROVE new <= diff'[r]
        BY <3>1, <3>2, <2>1, <1>1, <1>9
      <4> QED
        BY <4>1, <4>2, <2>1, <1>9
    <3>3. CASE ~(new < bestdiff)
      <4>1. bestdiff' = bestdiff /\ bestrow' = bestrow
        BY <3>3, <1>2
      <4>2. ASSUME NEW r \in Seen' PROVE bestdiff <= diff'[r]
        BY <3>1, <3>3, <2>1, <1>1, <1>9
      <4> QED
        BY <4>1, <4>2, <3>1, <2>1, <1>9
    <3> QED
      BY <3>2, <3>3
  <2> QED
    BY <2>2, <2>3
<1>11. WalkInv'
  BY <1>8, <1>9, <1>10 DEF WalkInv
<1> QED
  BY <1>4, <1>5, <1>6, <1>7, <1>11 DEF ScheduleInv

\* When the walk ends, the best row is the best of all the rows to do.
LEMMA ScanEndsStep == ScheduleInv /\ ScanEnds => ScheduleInv'
<1> SUFFICES ASSUME ScheduleInv, ScanEnds PROVE ScheduleInv'
  OBVIOUS
<1>0. Todo' = Todo /\ Done' = Done /\ Rows' = Rows
  BY DEF ScanEnds, Todo, Done, Rows
<1>1. TypeOK' /\ CostInv' /\ WalkInv'
  BY DEF ScanEnds, lists, ScheduleInv, TypeOK, CostInv, WalkInv, Rows, Cols
<1>2. ListIsTodo'
  BY <1>0 DEF ScanEnds, lists, ScheduleInv, ListIsTodo
<1>3. GreedyChoice'
  <2>1. Seen = Todo /\ (top # -1 => Todo # {})
    BY DEF ScanEnds, Seen, ScheduleInv, ListIsTodo, IsFirst
  <2>2. top # -1 => /\ bestrow \in Todo
                    /\ \A r \in Todo : diff[bestrow] <= diff[r]
    BY <2>1 DEF ScanEnds, ScheduleInv, WalkInv
  <2>3. top' = top /\ bestrow' = bestrow /\ diff' = diff /\ order' = order
    BY DEF ScanEnds, lists
  <2> QED
    BY <2>2, <2>3, <1>0 DEF ScheduleInv, GreedyChoice
<1> QED
  BY <1>1, <1>2, <1>3 DEF ScheduleInv

LEMMA OtherSteps == ScheduleInv /\ (Return \/ UNCHANGED vars) => ScheduleInv'
<1> SUFFICES ASSUME ScheduleInv, Return \/ UNCHANGED vars PROVE ScheduleInv'
  OBVIOUS
<1>0. /\ bitmatrix' = bitmatrix /\ diff' = diff /\ from' = from
      /\ flink' = flink /\ blink' = blink /\ top' = top /\ i' = i
      /\ row' = row /\ bestrow' = bestrow /\ bestdiff' = bestdiff
      /\ order' = order /\ (pc' = pc \/ pc' = "done")
  BY DEF Return, vars, lists
<1>1. Todo' = Todo /\ Seen' = Seen
  BY <1>0 DEF Todo, Done, Seen, Rows
<1>2. TypeOK' /\ CostInv'
  BY <1>0 DEF ScheduleInv, TypeOK, CostInv, Rows, Cols
<1>3. ListIsTodo'
  BY <1>0, <1>1 DEF ScheduleInv, ListIsTodo
<1>4. GreedyChoice'
  BY <1>0, <1>1 DEF ScheduleInv, GreedyChoice
<1>5. WalkInv'
  BY <1>0, <1>1 DEF ScheduleInv, WalkInv
<1> QED
  BY <1>2, <1>3, <1>4, <1>5 DEF ScheduleInv

LEMMA Invariant == Spec => []ScheduleInv
<1>1. ScheduleInv /\ [Next]_vars => ScheduleInv'
  BY TakeStep, ScanStep, ScanEndsStep, OtherSteps DEF Next
<1> QED
  BY InitInv, <1>1, PTL DEF Spec

\* The variables of the scheduler keep their types: every link is a row or -1.
THEOREM ScheduleTypeCorrect == Spec => []TypeOK
<1>1. ScheduleInv => TypeOK
  BY DEF ScheduleInv
<1> QED
  BY Invariant, <1>1, PTL

\* However rows are taken, flink and blink list exactly the rows to do.
THEOREM ListIsTodoHolds == Spec => []ListIsTodo
<1>1. ScheduleInv => ListIsTodo
  BY DEF ScheduleInv
<1> QED
  BY Invariant, <1>1, PTL

\* No row is scheduled twice, and the one taken is a cheapest row to do.
THEOREM GreedyChoiceHolds == Spec => []GreedyChoice
<1>1. ScheduleInv => GreedyChoice
  BY DEF ScheduleInv
<1> QED
  BY Invariant, <1>1, PTL

-----------------------------------------------------------------------------
\* What the schedule does.  The operations, the packets' contents, and the
\* positions of the operations that write row r.
Ops == [src : ({"data"} \X Cols) \cup ({"coding"} \X Rows), dst : Rows, xor : {0, 1}]
Memories == [Rows -> SUBSET (0..C)]
Writes(s, r) == {p \in 1..Len(s) : s[p].dst = r}

\* How many elements of S come before c.
Before(S, c) == Cardinality({e \in S : e < c})

\* Ascending lists every element of a set, and none of them twice.
LEMMA AscendingLists ==
    ASSUME NEW S \in SUBSET Cols
    PROVE  /\ Ascending(S) \in [1..Cardinality(S) -> S]
           /\ \A p, q \in 1..Cardinality(S) :
                 Ascending(S)[p] = Ascending(S)[q] => p = q
           /\ \A c \in S : \E p \in 1..Cardinality(S) : Ascending(S)[p] = c
<1> USE ScheduleAssumption
<1> DEFINE n == Cardinality(S)
           rank == [c \in S |-> Before(S, c) + 1]
<1>0. IsFiniteSet(S) /\ n \in Nat /\ \A c \in S : c \in Int
  <2>1. IsFiniteSet(Cols) /\ \A c \in Cols : c \in Int
    BY FS_Interval DEF Cols
  <2>2. IsFiniteSet(S)
    BY <2>1, FS_Subset
  <2>. QED  BY <2>1, <2>2, FS_CardinalityType
<1>1. ASSUME NEW c \in S
      PROVE  /\ IsFiniteSet({e \in S : e < c})
             /\ Before(S, c) \in Nat /\ Before(S, c) < n
  <2>1. {e \in S : e < c} \in SUBSET S /\ c \notin {e \in S : e < c}
    BY <1>0
  <2>2. /\ IsFiniteSet({e \in S : e < c})
        /\ Cardinality({e \in S : e < c}) <= n
        /\ n # Cardinality({e \in S : e < c})
    BY <2>1, <1>0, FS_Subset
  <2>. QED  BY <2>2, <1>0, FS_CardinalityType DEF Before
<1>2. ASSUME NEW c \in S, NEW d \in S, c < d PROVE Before(S, c) < Before(S, d)
  <2>1. /\ {e \in S : e < c} \in SUBSET {e \in S : e < d}
        /\ c \in {e \in S : e < d} /\ c \notin {e \in S : e < c}
    BY <1>0, <1>2
  <2>2. /\ Cardinality({e \in S : e < c}) <= Cardinality({e \in S : e < d})
        /\ Cardinality({e \in S : e < d}) # Cardinality({e \in S : e < c})
    BY <2>1, <1>1, FS_Subset
  <2>. QED  BY <2>2, <1>1 DEF Before
<1>3. rank \in [S -> 1..n] /\ \A c \in S : rank[c] = Before(S, c) + 1
  <2>1. \A c \in S : Before(S, c) + 1 \in 1..n
    <3> SUFFICES ASSUME NEW c \in S PROVE Before(S, c) + 1 \in 1..n
      OBVIOUS
    <3>1. Before(S, c) \in Nat /\ Before(S, c) < n
      BY <1>1
    <3> HIDE DEF n
    <3>. QED  BY <1>0, <3>1
  <2>. QED  BY <2>1
<1> HIDE DEF rank
<1>4. ASSUME NEW c \in S, NEW d \in S, rank[c] = rank[d] PROVE c = d
  <2>1. /\ Before(S, c) = Before(S, d)
        /\ Before(S, c) \in Nat
    <3>1. rank[c] = Before(S, c) + 1 /\ rank[d] = Before(S, d) + 1
      BY <1>3
    <3>2. Before(S, c) \in Nat /\ Before(S, d) \in Nat
      BY <1>1
    <3>. QED  BY <3>1, <3>2, <1>4
  <2>2. ~(c < d) /\ ~(d < c)
    <3>1. c < d => Before(S, c) < Before(S, d)
      BY <1>2
    <3>2. d < c => Before(S, d) < Before(S, c)
      BY <1>2
    <3>. QED  BY <2>1, <3>1, <3>2
  <2>. QED  BY <2>2, <1>0
<1>5. \A p \in 1..n : \E c \in S : rank[c] = p
  <2>1. rank \in Injection(S, 1..n)
    BY <1>3, <1>4 DEF Injection, IsInjective
  <2>2. IsFiniteSet(1..n) /\ Cardinality(1..n) = n
    BY <1>0, FS_Interval
  <2>3. rank \in Surjection(S, 1..n)
    BY <2>1, <2>2, FS_Injection
  <2>. QED  BY <2>3 DEF Surjection
<1> DEFINE a == Ascending(S)
<1>6. ASSUME NEW p \in 1..n PROVE a[p] \in S /\ rank[a[p]] = p
  <2>1. \E c \in S : Cardinality({e \in S : e < c}) = p - 1
    <3>1. PICK c \in S : rank[c] = p
      BY <1>5
    <3>2. Before(S, c) = p - 1
      <4>1. rank[c] = Before(S, c) + 1 /\ Before(S, c) \in Nat
        BY <1>1, <1>3
      <4>. QED  BY <3>1, <4>1
    <3>. QED  BY <3>2 DEF Before
  <2>2. a[p] = CHOOSE c \in S : Cardinality({e \in S : e < c}) = p - 1
    BY DEF Ascending
  <2>3. a[p] \in S /\ Cardinality({e \in S : e < a[p]}) = p - 1
    <3> HIDE DEF a
    <3>. QED  BY <2>1, <2>2
  <2>. QED  BY <2>3, <1>1, <1>3 DEF Before
<1>7. a = [p \in 1..n |-> CHOOSE c \in S : Cardinality({e \in S : e < c}) = p - 1]
  BY DEF Ascending
<1> HIDE DEF a
<1>8. a \in [1..n -> S]
  BY <1>6, <1>7
<1>9. \A c \in S : rank[c] \in 1..n /\ a[rank[c]] = c
  BY <1>3, <1>4, <1>6
<1>10. \A p, q \in 1..n : a[p] = a[q] => p = q
  BY <1>6
<1>. QED  BY <1>8, <1>9, <1>10 DEF a

LEMMA XorType ==
    ASSUME NEW T, NEW S \in SUBSET T, NEW U \in SUBSET T
    PROVE  Xor(S, U) \in SUBSET T
BY DEF Xor

\* An operation writes one packet, with a value of the right type.
Value(m, op) == IF op.src[1] = "data" THEN {op.src[2]} ELSE m[op.src[2]]
LEMMA PerformIs ==
    ASSUME NEW m \in Memories, NEW op \in Ops
    PROVE  /\ Perform(m, op) \in Memories
           /\ Perform(m, op) =
                [m EXCEPT ![op.dst] = IF op.xor = 1 THEN Xor(m[op.dst], Value(m, op))
                                                    ELSE Value(m, op)]
<1>1. op.dst \in Rows /\ op.src \in ({"data"} \X Cols) \cup ({"coding"} \X Rows)
  BY DEF Ops
<1>2. Value(m, op) \in SUBSET (0..C)
  <2>1. CASE op.src[1] = "data"
    <3>1. op.src[2] \in Cols
      BY <1>1, <2>1
    <3>. QED  BY <2>1, <3>1, ScheduleAssumption DEF Value, Cols
  <2>2. CASE op.src[1] # "data"
    <3>1. op.src[2] \in Rows
      BY <1>1, <2>2
    <3>. QED  BY <2>2, <3>1 DEF Value, Memories
  <2>. QED  BY <2>1, <2>2
<1>3. m[op.dst] \in SUBSET (0..C)
  BY <1>1 DEF Memories
<1>4. Xor(m[op.dst], Value(m, op)) \in SUBSET (0..C)
  BY <1>2, <1>3, XorType
<1>5. Perform(m, op) =
        [m EXCEPT ![op.dst] = IF op.xor = 1 THEN Xor(m[op.dst], Value(m, op))
                                            ELSE Value(m, op)]
  BY DEF Perform, Value
<1>. QED  BY <1>1, <1>2, <1>4, <1>5 DEF Memories

\* f gives the memory after each operation of s, performed from m on.
Runs(f, m, s) == f[0] = m /\ \A p \in 1..Len(s) : f[p] = Perform(f[p - 1], s[p])
BlankRows == [r \in Rows |-> Stale]

LEMMA RunsAgree ==
    ASSUME NEW m, NEW s \in Seq(Ops), NEW f, NEW g, Runs(f, m, s), Runs(g, m, s)
    PROVE  \A p \in 0..Len(s) : f[p] = g[p]
<1> DEFINE T == {p \in Nat : p \in 0..Len(s) => f[p] = g[p]}
<1>1. 0 \in T
  BY DEF Runs
<1>2. ASSUME NEW p \in Nat, p \in T PROVE p + 1 \in T
  <2>1. SUFFICES ASSUME p + 1 \in 0..Len(s) PROVE f[p + 1] = g[p + 1]
    OBVIOUS
  <2>2. p + 1 \in 1..Len(s) /\ p \in 0..Len(s) /\ (p + 1) - 1 = p
    BY <2>1
  <2>3. f[p + 1] = Perform(f[p], s[p + 1]) /\ g[p + 1] = Perform(g[p], s[p + 1])
    BY <2>2 DEF Runs
  <2>. QED  BY <1>2, <2>2, <2>3
<1>3. \A p \in Nat : p \in T
  <2> HIDE DEF T
  <2>. QED  BY <1>1, <1>2, SetInduction
<1>. QED  BY <1>3

LEMMA RunsType ==
    ASSUME NEW m \in Memories, NEW s \in Seq(Ops), NEW f, Runs(f, m, s)
    PROVE  \A p \in 0..Len(s) : f[p] \in Memories
<1> DEFINE T == {p \in Nat : p \in 0..Len(s) => f[p] \in Memories}
<1>1. 0 \in T
  BY DEF Runs
<1>2. ASSUME NEW p \in Nat, p \in T PROVE p + 1 \in T
  <2>1. SUFFICES ASSUME p + 1 \in 0..Len(s) PROVE f[p + 1] \in Memories
    OBVIOUS
  <2>2. p + 1 \in 1..Len(s) /\ p \in 0..Len(s) /\ (p + 1) - 1 = p
    BY <2>1
  <2>3. f[p + 1] = Perform(f[p], s[p + 1])
    BY <2>2 DEF Runs
  <2>4. s[p + 1] \in Ops /\ f[p] \in Memories
    BY <1>2, <2>2
  <2>. QED  BY <2>3, <2>4, PerformIs
<1>3. \A p \in Nat : p \in T
  <2> HIDE DEF T
  <2>. QED  BY <1>1, <1>2, SetInduction
<1>. QED  BY <1>3

LEMMA BlankRowsType == BlankRows \in Memories
BY ScheduleAssumption DEF BlankRows, Memories, Stale

\* The recursion in Performing has a solution.
LEMMA PerformingRuns ==
    ASSUME NEW s \in Seq(Ops)
    PROVE  Runs(Performing(s), BlankRows, s)
<1> DEFINE step == [p \in Nat |-> [m \in Memories |->
                      IF p \in 1..Len(s) THEN Perform(m, s[p]) ELSE m]]
           Is(f) == f = [p \in 0..Len(s) |-> IF p = 0 THEN [r \in Rows |-> Stale]
                                                    ELSE Perform(f[p - 1], s[p])]
<1>1. step \in [Nat -> [Memories -> Memories]]
  <2>1. \A p \in 1..Len(s) : s[p] \in Ops
    OBVIOUS
  <2>. QED  BY <2>1, PerformIs
<1>2. PICK f \in [0..Len(s) -> Memories] : MadeStepwise(f, BlankRows, step, Len(s))
  <2> HIDE DEF step
  <2>. QED  BY <1>1, BlankRowsType, RecursiveFunction
<1>3. \A p \in 0..Len(s) : f[p] = IF p = 0 THEN BlankRows ELSE Perform(f[p - 1], s[p])
  <2>1. ASSUME NEW p \in 0..Len(s), p # 0 PROVE f[p] = Perform(f[p - 1], s[p])
    <3>1. p \in 1..Len(s) /\ p \in Nat /\ p - 1 \in 0..Len(s)
      BY <2>1
    <3>2. f[p] = step[p][f[p - 1]] /\ f[p - 1] \in Memories
      BY <1>2, <2>1, <3>1 DEF MadeStepwise
    <3>. QED  BY <3>1, <3>2
  <2>2. f[0] = BlankRows
    BY <1>2 DEF MadeStepwise
  <2>. QED  BY <2>1, <2>2
<1>4. Is(f)
  BY <1>2, <1>3 DEF BlankRows
<1>5. Performing(s) = CHOOSE f_1 : Is(f_1)
  BY DEF Performing
<1>6. Is(Performing(s))
  BY <1>4, <1>5
<1>7. \A p \in 1..Len(s) : p \in 0..Len(s) /\ p # 0
  OBVIOUS
<1>8. 0 \in 0..Len(s)
  OBVIOUS
<1> DEFINE g == Performing(s)
<1>9. Is(g)
  BY <1>6
<1> HIDE DEF g
<1>10. Runs(g, BlankRows, s)
  BY <1>7, <1>8, <1>9 DEF Runs, BlankRows
<1>. QED  BY <1>10 DEF g

LEMMA PerformedType ==
    ASSUME NEW s \in Seq(Ops)
    PROVE  Performed(s) \in Memories
<1>1. Len(s) \in 0..Len(s)
  OBVIOUS
<1>. QED  BY <1>1, PerformingRuns, RunsType, BlankRowsType DEF Performed

\* Performing t after s starts from what s leaves.
LEMMA PerformedAfter ==
    ASSUME NEW s \in Seq(Ops), NEW t \in Seq(Ops)
    PROVE  \E g : /\ Runs(g, Performed(s), t)
                  /\ Performed(s \o t) = g[Len(t)]
<1> DEFINE u == s \o t
           f == Performing(u)
           g == [p \in 0..Len(t) |-> f[Len(s) + p]]
<1>1. /\ u \in Seq(Ops) /\ Len(u) = Len(s) + Len(t)
      /\ \A p \in 1..Len(s) : u[p] = s[p]
      /\ \A p \in 1..Len(t) : u[Len(s) + p] = t[p]
  OBVIOUS
<1>2. Runs(f, BlankRows, u)
  BY <1>1, PerformingRuns
<1>3. Runs(f, BlankRows, s)
  <2>1. \A p \in 1..Len(s) : p \in 1..Len(u)
    BY <1>1
  <2> HIDE DEF u, f
  <2>. QED  BY <1>1, <1>2, <2>1 DEF Runs
<1>4. f[Len(s)] = Performed(s)
  <2>1. \A p \in 0..Len(s) : f[p] = Performing(s)[p]
    <3> HIDE DEF f
    <3>. QED  BY <1>3, PerformingRuns, RunsAgree
  <2>. QED  BY <2>1 DEF Performed
<1>5. Runs(g, Performed(s), t)
  <2>1. g[0] = Performed(s)
    BY <1>4
  <2>2. ASSUME NEW p \in 1..Len(t) PROVE g[p] = Perform(g[p - 1], t[p])
    <3>1. /\ Len(s) + p \in 1..Len(u) /\ (Len(s) + p) - 1 = Len(s) + (p - 1)
          /\ p \in 0..Len(t) /\ p - 1 \in 0..Len(t)
      BY <1>1
    <3>2. f[Len(s) + p] = Perform(f[Len(s) + (p - 1)], t[p])
      <4> HIDE DEF u, f
      <4>. QED  BY <3>1, <1>1, <1>2 DEF Runs
    <3>. QED  BY <3>1, <3>2
  <2> HIDE DEF g
  <2>. QED  BY <2>1, <2>2 DEF Runs
<1>6. Performed(u) = g[Len(t)]
  <2>1. Len(t) \in 0..Len(t)
    OBVIOUS
  <2>. QED  BY <1>1, <2>1 DEF Performed
<1>. QED  BY <1>5, <1>6

\* A copy followed by XORs of different data packets leaves their sum in row r,
\* and no other row is written.
CopiesThenAdds(t, r, e) ==
    /\ 1 <= Len(t) /\ t[1].dst = r /\ t[1].xor = 0
    /\ \A p \in 2..Len(t) : e[p] \in Cols /\ t[p] = FromData(e[p], r, 1)
    /\ \A p, q \in 2..Len(t) : e[p] = e[q] => p = q
WithSum(m, r, v, e, n) == [m EXCEPT ![r] = Xor(v, {e[p] : p \in 2..n})]
LEMMA XorRun ==
    ASSUME NEW m \in Memories, NEW t \in Seq(Ops), NEW f, Runs(f, m, t),
           NEW r \in Rows, NEW e, CopiesThenAdds(t, r, e)
    PROVE  f[Len(t)] = WithSum(m, r, Value(m, t[1]), e, Len(t))
<1> USE DEF CopiesThenAdds
<1> DEFINE v == Value(m, t[1])
           Added(q) == {e[p] : p \in 2..q}
           Is(q) == f[q] = [m EXCEPT ![r] = Xor(v, Added(q))]
           T == {q \in Nat : q + 1 \in 1..Len(t) => Is(q + 1)}
<1>1. 0 \in T
  <2>1. t[1] \in Ops /\ 1 \in 1..Len(t)
    OBVIOUS
  <2>2. f[1] = Perform(m, t[1])
    <3>1. f[1] = Perform(f[1 - 1], t[1])
      BY <2>1 DEF Runs
    <3>. QED  BY <3>1 DEF Runs
  <2>3. f[1] = [m EXCEPT ![r] = v]
    BY <2>1, <2>2, PerformIs
  <2>4. Added(1) = {}
    OBVIOUS
  <2>5. Xor(v, Added(1)) = v
    BY <2>4 DEF Xor
  <2> HIDE DEF v, Added
  <2>6. Is(1)
    BY <2>3, <2>5
  <2> HIDE DEF Is
  <2>. QED  BY <2>6
<1>2. ASSUME NEW q \in Nat, q \in T PROVE q + 1 \in T
  <2> DEFINE x == e[q + 2]
  <2>1. SUFFICES ASSUME q + 2 \in 1..Len(t)
                 PROVE  Is(q + 2)
    <3>1. (q + 1) + 1 = q + 2
      OBVIOUS
    <3> HIDE DEF Is
    <3>. QED  BY <3>1
  <2>2. /\ q + 1 \in 1..Len(t) /\ q + 2 \in 2..Len(t) /\ (q + 2) - 1 = q + 1
        /\ q + 1 \in 0..Len(t)
    BY <2>1
  <2>3. f[q + 1] = [m EXCEPT ![r] = Xor(v, Added(q + 1))]
    BY <1>2, <2>2
  <2>4. f[q + 1] \in Memories
    BY <2>2, RunsType
  <2>5. /\ x \in Cols /\ t[q + 2] = FromData(x, r, 1) /\ t[q + 2] \in Ops
        /\ f[q + 2] = Perform(f[q + 1], t[q + 2])
    BY <2>1, <2>2 DEF Runs
  <2>6. /\ t[q + 2].dst = r /\ t[q + 2].xor = 1
        /\ Value(f[q + 1], t[q + 2]) = {x}
    BY <2>5 DEF FromData, Value
  <2>7. f[q + 2] = [f[q + 1] EXCEPT ![r] = Xor(f[q + 1][r], {x})]
    <3> DEFINE g == f[q + 1]   op == t[q + 2]
    <3>1. /\ g \in Memories /\ op \in Ops /\ f[q + 2] = Perform(g, op)
          /\ op.dst = r /\ op.xor = 1 /\ Value(g, op) = {x}
      BY <2>4, <2>5, <2>6
    <3> HIDE DEF g, op, x
    <3>2. Perform(g, op) =
            [g EXCEPT ![op.dst] = IF op.xor = 1 THEN Xor(g[op.dst], Value(g, op))
                                                ELSE Value(g, op)]
      BY <3>1, PerformIs
    <3>3. f[q + 2] = [g EXCEPT ![r] = Xor(g[r], {x})]
      BY <3>1, <3>2
    <3>. QED  BY <3>3 DEF g
  <2>8. Added(q + 2) = Added(q + 1) \cup {x} /\ x \notin Added(q + 1)
    <3>1. \A p : p \in 2..q+2 <=> p \in 2..q+1 \/ p = q + 2
      OBVIOUS
    <3>2. \A p \in 2..q+1 : p \in 2..Len(t) /\ p # q + 2
      BY <2>2
    <3>. QED  BY <3>1, <3>2, <2>2
  <2> HIDE DEF v, Added, x
  <2>9. f[q + 1][r] = Xor(v, Added(q + 1))
    BY <2>3 DEF Memories
  <2>10. Xor(Xor(v, Added(q + 1)), {x}) = Xor(v, Added(q + 2))
    BY <2>8 DEF Xor
  <2>. QED  BY <2>3, <2>7, <2>9, <2>10
<1>3. \A q \in Nat : q \in T
  <2> HIDE DEF T
  <2>. QED  BY <1>1, <1>2, SetInduction
<1>4. Len(t) - 1 \in Nat /\ (Len(t) - 1) + 1 = Len(t) /\ Len(t) \in 1..Len(t)
  OBVIOUS
<1>5. f[Len(t)] = [m EXCEPT ![r] = Xor(v, Added(Len(t)))]
  BY <1>3, <1>4
<1>. QED  BY <1>5 DEF WithSum

LEMMA FromType ==
    ASSUME NEW r \in Rows
    PROVE  /\ \A c \in Cols, x \in {0, 1} : FromData(c, r, x) \in Ops
           /\ \A s \in Rows : FromCoding(s, r) \in Ops
BY DEF FromData, FromCoding, Ops

LEMMA RowFinite ==
    ASSUME NEW S \in SUBSET Cols
    PROVE  IsFiniteSet(S) /\ Cardinality(S) \in Nat
<1>1. IsFiniteSet(Cols)
  BY FS_Interval, ScheduleAssumption DEF Cols
<1>. QED  BY <1>1, FS_Subset, FS_CardinalityType

\* Building a row takes an operation per one, and writes nothing but the row.
LEMMA BuildOpsIs ==
    ASSUME bitmatrix \in [Rows -> SUBSET Cols], NEW r \in Rows
    PROVE  /\ BuildOps(r) \in Seq(Ops)
           /\ Len(BuildOps(r)) = Cardinality(bitmatrix[r])
           /\ \A p \in 1..Len(BuildOps(r)) :
                 BuildOps(r)[p] = FromData(Ascending(bitmatrix[r])[p], r,
                                           IF p = 1 THEN 0 ELSE 1)
           /\ \A p \in 1..Len(BuildOps(r)) : BuildOps(r)[p].dst = r
<1> DEFINE S == bitmatrix[r]
           a == Ascending(S)
           n == Cardinality(S)
<1>1. S \in SUBSET Cols
  OBVIOUS
<1>2. n \in Nat /\ a \in [1..n -> S]
  BY <1>1, RowFinite, AscendingLists
<1>3. BuildOps(r) = [p \in 1..Len(a) |-> FromData(a[p], r, IF p = 1 THEN 0 ELSE 1)]
  BY DEF BuildOps
<1> HIDE DEF a, n, S
<1>4. Len(a) = n
  BY <1>2
<1>5. \A p \in 1..n : FromData(a[p], r, IF p = 1 THEN 0 ELSE 1) \in Ops
  BY <1>1, <1>2, FromType
<1> DEFINE u == BuildOps(r)
<1>6. u = [p \in 1..n |-> FromData(a[p], r, IF p = 1 THEN 0 ELSE 1)]
  BY <1>3, <1>4
<1> HIDE DEF u
<1>7. u \in Seq(Ops) /\ Len(u) = n
  BY <1>2, <1>5, <1>6
<1>8. \A p \in 1..Len(u) : u[p] = FromData(a[p], r, IF p = 1 THEN 0 ELSE 1)
  BY <1>6, <1>7
<1>9. \A p \in 1..Len(u) : u[p].dst = r
  <2> SUFFICES ASSUME NEW p \in 1..Len(u) PROVE u[p].dst = r
    OBVIOUS
  <2>1. \E x : u[p] = FromData(a[p], r, x)
    BY <1>8
  <2>. QED  BY <2>1 DEF FromData
<1>. QED  BY <1>7, <1>8, <1>9 DEF u, a, n, S

\* Deriving it takes the copy and an operation per difference.
LEMMA DeriveOpsIs ==
    ASSUME bitmatrix \in [Rows -> SUBSET Cols], NEW r \in Rows, NEW s \in Rows
    PROVE  LET x == Xor(bitmatrix[r], bitmatrix[s]) IN
           /\ DeriveOps(r, s) \in Seq(Ops)
           /\ Len(DeriveOps(r, s)) = DeriveCost(r, s)
           /\ DeriveOps(r, s)[1] = FromCoding(s, r)
           /\ \A p \in 2..Len(DeriveOps(r, s)) :
                 DeriveOps(r, s)[p] = FromData(Ascending(x)[p - 1], r, 1)
           /\ \A p \in 1..Len(DeriveOps(r, s)) : DeriveOps(r, s)[p].dst = r
<1> DEFINE S == Xor(bitmatrix[r], bitmatrix[s])
           a == Ascending(S)
           n == Cardinality(S)
<1>1. S \in SUBSET Cols
  BY XorType
<1>2. n \in Nat /\ a \in [1..n -> S]
  BY <1>1, RowFinite, AscendingLists
<1>3. DeriveOps(r, s) = <<FromCoding(s, r)>> \o [p \in 1..Len(a) |-> FromData(a[p], r, 1)]
  BY DEF DeriveOps
<1>4. DeriveCost(r, s) = 1 + n
  BY DEF DeriveCost
<1> HIDE DEF a, n, S
<1>5. Len(a) = n
  BY <1>2
<1> DEFINE t == [p \in 1..n |-> FromData(a[p], r, 1)]
           h == <<FromCoding(s, r)>>
           u == DeriveOps(r, s)
<1>6. t \in Seq(Ops) /\ Len(t) = n
  <2>1. \A p \in 1..n : FromData(a[p], r, 1) \in Ops
    BY <1>1, <1>2, FromType
  <2>. QED  BY <1>2, <2>1
<1>7. h \in Seq(Ops) /\ Len(h) = 1 /\ h[1] = FromCoding(s, r)
  BY FromType
<1>8. \A p \in 1..n : t[p] = FromData(a[p], r, 1)
  OBVIOUS
<1>9. u = h \o t
  BY <1>3, <1>5
<1> HIDE DEF t, h, u
<1>10. u \in Seq(Ops) /\ Len(u) = 1 + n /\ u[1] = FromCoding(s, r)
  <2>1. h \o t \in Seq(Ops) /\ Len(h \o t) = Len(h) + Len(t) /\ (h \o t)[1] = h[1]
    <3>1. 1 \in 1..Len(h)
      BY <1>7
    <3>2. h \in Seq(Ops) /\ t \in Seq(Ops)
      BY <1>6, <1>7
    <3>. QED  BY <3>1, <3>2, Joined
  <2>. QED  BY <2>1, <1>6, <1>7, <1>9
<1>11. ASSUME NEW p \in 2..Len(u) PROVE u[p] = FromData(a[p - 1], r, 1)
  <2>1. p - 1 \in 1..n /\ p = Len(h) + (p - 1)
    BY <1>10, <1>7, <1>2
  <2>2. u[p] = t[p - 1]
    <3>0. h \in Seq(Ops) /\ t \in Seq(Ops)
      BY <1>6, <1>7
    <3>1. \A q \in 1..Len(t) : (h \o t)[Len(h) + q] = t[q]
      BY <3>0
    <3>. QED  BY <2>1, <3>1, <1>6, <1>9
  <2>. QED  BY <2>1, <2>2, <1>8
<1>12. \A p \in 1..Len(u) : u[p].dst = r
  <2>1. \A p \in 1..Len(u) : p = 1 \/ p \in 2..Len(u)
    BY <1>10
  <2>2. FromCoding(s, r).dst = r /\ \A c : FromData(c, r, 1).dst = r
    BY DEF FromData, FromCoding
  <2>. QED  BY <2>1, <2>2, <1>10, <1>11
<1>. QED  BY <1>4, <1>10, <1>11, <1>12 DEF u, a, n, S

\* What the operations of a row leave behind.
LEMMA BuildEffect ==
    ASSUME bitmatrix \in [Rows -> SUBSET Cols], NEW r \in Rows,
           NEW m \in Memories, NEW f, Runs(f, m, BuildOps(r))
    PROVE  f[Len(BuildOps(r))] =
              IF bitmatrix[r] = {} THEN m ELSE [m EXCEPT ![r] = bitmatrix[r]]
<1> DEFINE S == bitmatrix[r]
           a == Ascending(S)
           t == BuildOps(r)
           n == Cardinality(S)
<1>1. S \in SUBSET Cols
  OBVIOUS
<1>2. /\ n \in Nat /\ IsFiniteSet(S) /\ a \in [1..n -> S]
      /\ \A p, q \in 1..n : a[p] = a[q] => p = q
      /\ \A c \in S : \E p \in 1..n : a[p] = c
  BY <1>1, RowFinite, AscendingLists
<1>3. /\ t \in Seq(Ops) /\ Len(t) = n
      /\ \A p \in 1..Len(t) : t[p] = FromData(a[p], r, IF p = 1 THEN 0 ELSE 1)
  BY BuildOpsIs
<1>4. n = 0 <=> S = {}
  BY <1>2, FS_EmptySet
<1> HIDE DEF S, a, t, n
<1>5. CASE S = {}
  <2>1. f[Len(t)] = m
    BY <1>3, <1>4, <1>5 DEF Runs, t
  <2>. QED  BY <2>1, <1>5 DEF S, t
<1>6. CASE S # {}
  <2>1. n >= 1
    BY <1>2, <1>4, <1>6
  <2>2. /\ t[1].dst = r /\ t[1].xor = 0 /\ Value(m, t[1]) = {a[1]}
    <3>1. t[1] = FromData(a[1], r, 0)
      BY <1>3, <2>1
    <3>. QED  BY <3>1 DEF FromData, Value
  <2>3. \A p \in 2..Len(t) : a[p] \in Cols /\ t[p] = FromData(a[p], r, 1)
    BY <1>1, <1>2, <1>3
  <2>4. \A p, q \in 2..Len(t) : a[p] = a[q] => p = q
    BY <1>2, <1>3
  <2>5. f[Len(t)] = [m EXCEPT ![r] = Xor({a[1]}, {a[p] : p \in 2..Len(t)})]
    <3>1. Runs(f, m, t) /\ CopiesThenAdds(t, r, a)
      <4>1. 1 <= Len(t)
        BY <2>1, <1>3
      <4>2. CopiesThenAdds(t, r, a)
        BY <4>1, <2>2, <2>3, <2>4 DEF CopiesThenAdds
      <4>. QED  BY <4>2 DEF t
    <3>2. f[Len(t)] = WithSum(m, r, Value(m, t[1]), a, Len(t))
      BY <3>1, <1>3, XorRun
    <3>. QED  BY <2>2, <3>2 DEF WithSum
  <2>6. Xor({a[1]}, {a[p] : p \in 2..n}) = S
    <3>1. a[1] \notin {a[p] : p \in 2..n}
      BY <1>2, <2>1
    <3>2. {a[1]} \cup {a[p] : p \in 2..n} = S
      <4>1. \A p \in 1..n : p = 1 \/ p \in 2..n
        BY <1>2
      <4>2. 1 \in 1..n /\ \A p \in 2..n : p \in 1..n
        BY <1>2, <2>1
      <4>. QED  BY <4>1, <4>2, <1>2
    <3>. QED  BY <3>1, <3>2 DEF Xor
  <2>. QED  BY <2>5, <2>6, <1>3, <1>6 DEF S, t
<1>. QED  BY <1>5, <1>6

LEMMA DeriveEffect ==
    ASSUME bitmatrix \in [Rows -> SUBSET Cols], NEW r \in Rows, NEW s \in Rows,
           NEW m \in Memories, NEW f, Runs(f, m, DeriveOps(r, s)),
           m[s] = bitmatrix[s]
    PROVE  f[Len(DeriveOps(r, s))] = [m EXCEPT ![r] = bitmatrix[r]]
<1> DEFINE S == Xor(bitmatrix[r], bitmatrix[s])
           a == Ascending(S)
           t == DeriveOps(r, s)
           n == Cardinality(S)
           e == [p \in 2..n+1 |-> a[p - 1]]
<1>1. S \in SUBSET Cols
  BY XorType
<1>2. /\ n \in Nat /\ a \in [1..n -> S]
      /\ \A p, q \in 1..n : a[p] = a[q] => p = q
      /\ \A c \in S : \E p \in 1..n : a[p] = c
  BY <1>1, RowFinite, AscendingLists
<1>3. /\ t \in Seq(Ops) /\ Len(t) = n + 1 /\ t[1] = FromCoding(s, r)
      /\ \A p \in 2..Len(t) : t[p] = FromData(a[p - 1], r, 1)
  <2>1. Len(t) = DeriveCost(r, s)
    BY DeriveOpsIs
  <2>2. DeriveCost(r, s) = n + 1
    BY <1>2 DEF DeriveCost
  <2>. QED  BY <2>1, <2>2, DeriveOpsIs
<1>4. Xor(bitmatrix[s], S) = bitmatrix[r]
  BY DEF Xor
<1> HIDE DEF S, a, t, n
<1>5. t[1].dst = r /\ t[1].xor = 0 /\ Value(m, t[1]) = bitmatrix[s]
  BY <1>3 DEF FromCoding, Value
<1>6. \A p \in 2..n+1 : p - 1 \in 1..n /\ e[p] = a[p - 1]
  BY <1>2
<1>7. \A p \in 2..Len(t) : e[p] \in Cols /\ t[p] = FromData(e[p], r, 1)
  BY <1>1, <1>2, <1>3, <1>6
<1>8. \A p, q \in 2..Len(t) : e[p] = e[q] => p = q
  <2> SUFFICES ASSUME NEW p \in 2..n+1, NEW q \in 2..n+1, e[p] = e[q] PROVE p = q
    BY <1>3
  <2>1. p - 1 = q - 1
    BY <1>2, <1>6
  <2>. QED  BY <2>1, <1>2
<1>9. {e[p] : p \in 2..n+1} = S
  <2>1. ASSUME NEW c \in S PROVE \E p \in 2..n+1 : e[p] = c
    <3>1. PICK q \in 1..n : a[q] = c
      BY <1>2
    <3>2. q + 1 \in 2..n+1 /\ (q + 1) - 1 = q
      BY <1>2
    <3>. QED  BY <3>1, <3>2
  <2>. QED  BY <2>1, <1>2, <1>6
<1> HIDE DEF e
<1>10. f[Len(t)] = WithSum(m, r, Value(m, t[1]), e, Len(t))
  <2>1. 1 <= Len(t)
    BY <1>2, <1>3
  <2>2. CopiesThenAdds(t, r, e)
    BY <2>1, <1>5, <1>7, <1>8 DEF CopiesThenAdds
  <2>3. Runs(f, m, t)
    BY DEF t
  <2>. QED  BY <2>2, <2>3, <1>3, XorRun
<1>. QED  BY <1>3, <1>4, <1>5, <1>9, <1>10 DEF t, WithSum

-----------------------------------------------------------------------------
\* What a row costs: building it, or deriving it from a row that is done when
\* that takes less.
SourceInv ==
    /\ \A r \in Rows :
          IF from[r] = -1
          THEN diff[r] = Cardinality(bitmatrix[r])
          ELSE /\ from[r] \in Done
               /\ diff[r] = DeriveCost(r, from[r])
               /\ diff[r] < Cardinality(bitmatrix[r])
    /\ pc = "scan" => row \in Done

\* Only the rows done have been written, each with as many operations as it
\* costs, and they hold their product.
OpsInv ==
    /\ operations \in Seq(Ops)
    /\ \A p \in 1..Len(operations) : operations[p].dst \in Done
    /\ \A r \in Done : Cardinality(Writes(operations, r)) = diff[r]
MemInv == Memory = [r \in Rows |-> IF r \in Done THEN Product(r) ELSE Stale]

WorkInv == SourceInv /\ OpsInv /\ MemInv

\* Appending the operations of a new row.
LEMMA WritesOfRow ==
    ASSUME NEW s \in Seq(Ops), NEW t \in Seq(Ops), NEW r \in Rows,
           \A p \in 1..Len(s) : s[p].dst # r,
           \A p \in 1..Len(t) : t[p].dst = r
    PROVE  /\ Cardinality(Writes(s \o t, r)) = Len(t)
           /\ \A q \in Rows \ {r} : Writes(s \o t, q) = Writes(s, q)
<1> DEFINE u == s \o t
           a == Len(s)
           b == Len(t)
<1>1. /\ u \in Seq(Ops) /\ Len(u) = a + b /\ a \in Nat /\ b \in Nat
      /\ \A p \in 1..a : u[p] = s[p]
  BY Joined
<1>2. \A p \in a+1..a+b : u[p].dst = r
  <2>1. \A p \in a+1..a+b : p - a \in 1..b /\ u[p] = t[p - a]
    OBVIOUS
  <2>. QED  BY <2>1
<1> HIDE DEF u
<1>3. Writes(u, r) = a+1..a+b
  <2>1. \A p \in 1..a+b : p \in a+1..a+b \/ p \in 1..a
    BY <1>1
  <2>2. \A p \in a+1..a+b : p \in 1..a+b
    BY <1>1
  <2>. QED  BY <2>1, <2>2, <1>1, <1>2 DEF Writes
<1>4. Cardinality(a+1..a+b) = b
  <2> HIDE DEF a, b
  <2>1. a + 1 \in Int /\ a + b \in Int
    BY <1>1
  <2>2. Cardinality(a+1..a+b) = IF a + 1 > a + b THEN 0 ELSE (a + b) - (a + 1) + 1
    BY <2>1, FS_Interval, Zenon
  <2>. QED  BY <2>2, <1>1
<1>5. ASSUME NEW q \in Rows \ {r} PROVE Writes(u, q) = Writes(s, q)
  <2>1. \A p \in 1..a+b : p \in a+1..a+b \/ p \in 1..a
    BY <1>1
  <2>2. \A p \in 1..a : p \in 1..a+b
    BY <1>1
  <2>. QED  BY <2>1, <2>2, <1>1, <1>2 DEF Writes
<1>. QED  BY <1>3, <1>4, <1>5 DEF u

\* A row is only derived from one that is not zero, and is not zero itself.
LEMMA DerivedNotZero ==
    ASSUME bitmatrix \in [Rows -> SUBSET Cols], NEW r \in Rows, NEW s \in Rows,
           DeriveCost(r, s) < Cardinality(bitmatrix[r])
    PROVE  bitmatrix[r] # {} /\ bitmatrix[s] # {}
<1>1. Cardinality(bitmatrix[r]) \in Nat
  BY RowFinite
<1>2. Cardinality(Xor(bitmatrix[r], bitmatrix[s])) \in Nat
  BY XorRow
<1>3. bitmatrix[r] # {}
  <2>1. Cardinality({}) = 0
    BY FS_EmptySet
  <2>2. Cardinality(bitmatrix[r]) # 0
    BY <1>1, <1>2 DEF DeriveCost
  <2>. QED  BY <2>1, <2>2
<1>4. bitmatrix[s] # {}
  <2>1. bitmatrix[s] = {} => Xor(bitmatrix[r], bitmatrix[s]) = bitmatrix[r]
    BY DEF Xor
  <2>. QED  BY <1>1, <2>1 DEF DeriveCost
<1>. QED  BY <1>3, <1>4

LEMMA InitWork == Init => WorkInv
<1> SUFFICES ASSUME Init PROVE WorkInv
  OBVIOUS
<1>1. Done = {} /\ operations = <<>>
  BY DEF Init, Done
<1>2. SourceInv
  BY DEF Init, SourceInv
<1>3. OpsInv
  BY <1>1 DEF OpsInv
<1>4. MemInv
  <2>1. operations \in Seq(Ops) /\ Len(operations) = 0
    BY <1>1
  <2>2. Performing(operations)[0] = BlankRows
    BY <2>1, PerformingRuns DEF Runs
  <2>. QED  BY <1>1, <2>1, <2>2 DEF MemInv, Memory, Performed, BlankRows
<1>. QED  BY <1>2, <1>3, <1>4 DEF WorkInv

\* The operations that Take appends.
RowOps(r) == IF from[r] = -1 THEN BuildOps(r) ELSE DeriveOps(r, from[r])
LEMMA RowOpsAre ==
    ASSUME ScheduleInv, WorkInv, NEW r \in Todo
    PROVE  /\ RowOps(r) \in Seq(Ops) /\ Len(RowOps(r)) = diff[r]
           /\ \A p \in 1..Len(RowOps(r)) : RowOps(r)[p].dst = r
           /\ Performed(operations \o RowOps(r)) = [Memory EXCEPT ![r] = Product(r)]
<1> DEFINE t == RowOps(r)
<1>0. /\ bitmatrix \in [Rows -> SUBSET Cols] /\ r \in Rows /\ r \notin Done
      /\ operations \in Seq(Ops) /\ Memory \in Memories
      /\ Memory[r] = Stale /\ \A s \in Done : Memory[s] = Product(s)
  <2>1. operations \in Seq(Ops)
    BY DEF WorkInv, OpsInv
  <2>2. Memory \in Memories
    BY <2>1, PerformedType DEF Memory
  <2>3. Done \subseteq Rows
    BY DEF ScheduleInv, TypeOK, Done
  <2>4. Memory = [q \in Rows |-> IF q \in Done THEN Product(q) ELSE Stale]
    BY DEF WorkInv, MemInv
  <2>. QED  BY <2>1, <2>2, <2>3, <2>4 DEF ScheduleInv, TypeOK, Todo
<1>1. CASE from[r] = -1
  <2>1. t = BuildOps(r) /\ diff[r] = Cardinality(bitmatrix[r])
    BY <1>0, <1>1 DEF RowOps, WorkInv, SourceInv
  <2>2. t \in Seq(Ops) /\ Len(t) = diff[r]
    BY <1>0, <2>1, BuildOpsIs
  <2>3. \A p \in 1..Len(t) : t[p].dst = r
    <3>1. \A p \in 1..Len(BuildOps(r)) : BuildOps(r)[p].dst = r
      BY <1>0, BuildOpsIs
    <3>. QED  BY <2>1, <3>1
  <2>4. PICK g : Runs(g, Memory, t) /\ Performed(operations \o t) = g[Len(t)]
    BY <1>0, <2>2, PerformedAfter DEF Memory
  <2>5. g[Len(t)] = IF bitmatrix[r] = {} THEN Memory
                                         ELSE [Memory EXCEPT ![r] = bitmatrix[r]]
    BY <1>0, <2>1, <2>4, BuildEffect
  <2>6. g[Len(t)] = [Memory EXCEPT ![r] = Product(r)]
    BY <1>0, <2>5 DEF Product, Memories
  <2>. QED  BY <2>2, <2>3, <2>4, <2>6
<1>2. CASE from[r] # -1
  <2> DEFINE s == from[r]
  <2>1. /\ t = DeriveOps(r, s) /\ s \in Done /\ s \in Rows
        /\ diff[r] = DeriveCost(r, s)
        /\ bitmatrix[r] # {} /\ bitmatrix[s] # {}
    <3>1. /\ t = DeriveOps(r, s) /\ s \in Done
          /\ diff[r] = DeriveCost(r, s) /\ diff[r] < Cardinality(bitmatrix[r])
      BY <1>0, <1>2 DEF RowOps, WorkInv, SourceInv
    <3>2. s \in Rows
      BY <3>1 DEF ScheduleInv, TypeOK, Done
    <3>. QED  BY <1>0, <3>1, <3>2, DerivedNotZero
  <2> HIDE DEF s
  <2>2. t \in Seq(Ops) /\ Len(t) = diff[r]
    BY <1>0, <2>1, DeriveOpsIs
  <2>3. \A p \in 1..Len(t) : t[p].dst = r
    <3>1. \A p \in 1..Len(DeriveOps(r, s)) : DeriveOps(r, s)[p].dst = r
      BY <1>0, <2>1, DeriveOpsIs
    <3>. QED  BY <2>1, <3>1
  <2>4. PICK g : Runs(g, Memory, t) /\ Performed(operations \o t) = g[Len(t)]
    BY <1>0, <2>2, PerformedAfter DEF Memory
  <2>5. Memory[s] = bitmatrix[s]
    BY <1>0, <2>1 DEF Product
  <2>6. g[Len(t)] = [Memory EXCEPT ![r] = bitmatrix[r]]
    BY <1>0, <2>1, <2>4, <2>5, DeriveEffect
  <2>7. Product(r) = bitmatrix[r]
    BY <2>1 DEF Product
  <2>. QED  BY <2>2, <2>3, <2>4, <2>6, <2>7
<1>. QED  BY <1>1, <1>2

LEMMA TakeWork == ScheduleInv /\ WorkInv /\ Take => WorkInv'
<1> SUFFICES ASSUME ScheduleInv, WorkInv, Take PROVE WorkInv'
  OBVIOUS
<1> DEFINE b == bestrow
           t == RowOps(b)
<1>1. b \in Todo /\ b \in Rows /\ b \notin Done /\ Done \subseteq Rows
  BY DEF Take, ScheduleInv, GreedyChoice, TypeOK, Todo, Done
<1>2. Done' = Done \cup {b} /\ Rows' = Rows
  BY <1>1, OneLess DEF Take, ScheduleInv, TypeOK, Rows
<1>3. /\ operations' = operations \o t /\ row' = b
      /\ diff' = diff /\ from' = from /\ bitmatrix' = bitmatrix
  BY DEF Take, RowOps
<1>4. /\ t \in Seq(Ops) /\ Len(t) = diff[b]
      /\ \A p \in 1..Len(t) : t[p].dst = b
      /\ Performed(operations \o t) = [Memory EXCEPT ![b] = Product(b)]
  BY <1>1, RowOpsAre
<1>5. /\ operations \in Seq(Ops)
      /\ \A p \in 1..Len(operations) : operations[p].dst \in Done
      /\ \A r \in Done : Cardinality(Writes(operations, r)) = diff[r]
  BY DEF WorkInv, OpsInv
<1> HIDE DEF b, t
<1>6. SourceInv'
  <2>1. \A r \in Rows : from[r] # -1 =>
            from[r] \in Done /\ diff[r] = DeriveCost(r, from[r])
               /\ diff[r] < Cardinality(bitmatrix[r])
    BY DEF WorkInv, SourceInv
  <2>2. \A r \in Rows : from[r] = -1 => diff[r] = Cardinality(bitmatrix[r])
    BY DEF WorkInv, SourceInv
  <2>. QED  BY <2>1, <2>2, <1>2, <1>3 DEF SourceInv, DeriveCost
<1>7. /\ Cardinality(Writes(operations \o t, b)) = Len(t)
      /\ \A q \in Rows \ {b} : Writes(operations \o t, q) = Writes(operations, q)
  <2>1. \A p \in 1..Len(operations) : operations[p].dst # b
    BY <1>1, <1>5
  <2>. QED  BY <2>1, <1>1, <1>4, <1>5, WritesOfRow
<1>8. OpsInv'
  <2>1. operations \o t \in Seq(Ops)
    BY <1>4, <1>5, Joined
  <2>2. ASSUME NEW p \in 1..Len(operations \o t)
        PROVE  (operations \o t)[p].dst \in Done \cup {b}
    <3>1. CASE p \in 1..Len(operations)
      <4>1. (operations \o t)[p] = operations[p]
        BY <3>1, <1>4, <1>5
      <4>. QED  BY <3>1, <4>1, <1>5
    <3>2. CASE p \notin 1..Len(operations)
      <4>1. p - Len(operations) \in 1..Len(t)
        BY <3>2, <1>4, <1>5
      <4>2. (operations \o t)[p] = t[p - Len(operations)]
        BY <3>2, <1>4, <1>5
      <4>. QED  BY <4>1, <4>2, <1>4
    <3>. QED  BY <3>1, <3>2
  <2>3. \A r \in Done \cup {b} : Cardinality(Writes(operations \o t, r)) = diff[r]
    BY <1>1, <1>4, <1>5, <1>7
  <2>. QED  BY <2>1, <2>2, <2>3, <1>2, <1>3 DEF OpsInv, Writes, Ops, Rows, Cols
<1>9. MemInv'
  <2>1. Memory' = [Memory EXCEPT ![b] = Product(b)]
    <3>1. Memory' = Performed(operations')
      BY DEF Memory, Performed, Performing, Perform, Stale, Xor, Rows
    <3>. QED  BY <3>1, <1>3, <1>4
  <2>2. \A r \in Rows : Product(r)' = Product(r)
    BY <1>3 DEF Product, Stale
  <2>3. Memory = [r \in Rows |-> IF r \in Done THEN Product(r) ELSE Stale]
    BY DEF WorkInv, MemInv
  <2>4. Memory' = [r \in Rows |-> IF r \in Done \cup {b} THEN Product(r) ELSE Stale]
    BY <1>1, <2>1, <2>3
  <2>5. Memory' = [r \in Rows |-> IF r \in Done' THEN Product(r)' ELSE Stale]
    BY <1>2, <2>2, <2>4
  <2>. QED  BY <2>5, <1>2 DEF MemInv, Stale
<1>. QED  BY <1>6, <1>8, <1>9 DEF WorkInv

\* Steps that leave the schedule and the rows done alone.
LEMMA SameWork ==
    ASSUME OpsInv, MemInv, operations' = operations, order' = order,
           bitmatrix' = bitmatrix, \A r \in Done : diff'[r] = diff[r]
    PROVE  OpsInv' /\ MemInv'
<1>1. Done' = Done /\ Rows' = Rows /\ Ops' = Ops
  BY DEF Done, Rows, Ops, Cols
<1>2. OpsInv'
  BY <1>1 DEF OpsInv, Writes
<1>3. Memory' = Memory
  BY DEF Memory, Performed, Performing, Perform, Stale, Xor, Rows
<1>4. \A r \in Rows : Product(r)' = Product(r)
  BY DEF Product, Stale
<1>5. MemInv'
  <2>1. Memory = [r \in Rows |-> IF r \in Done THEN Product(r) ELSE Stale]
    BY DEF MemInv
  <2>2. Memory' = [r \in Rows |-> IF r \in Done' THEN Product(r)' ELSE Stale]
    BY <2>1, <1>1, <1>3, <1>4
  <2>. QED  BY <2>2, <1>1 DEF MemInv, Stale
<1>. QED  BY <1>2, <1>5

LEMMA ScanWork == ScheduleInv /\ WorkInv /\ Scan => WorkInv'
<1> SUFFICES ASSUME ScheduleInv, WorkInv, Scan PROVE WorkInv'
  OBVIOUS
<1> DEFINE no == DeriveCost(i, row)
<1>1. /\ i \in Todo /\ i \in Rows /\ i \notin Done /\ row \in Done
      /\ Done' = Done /\ Rows' = Rows /\ Done \subseteq Rows
  <2>1. pc = "scan" /\ i # -1 /\ order' = order
    BY DEF Scan
  <2>2. row \in Done /\ i \in Todo
    BY <2>1 DEF ScheduleInv, WalkInv, WorkInv, SourceInv
  <2>3. Done' = Done /\ Rows' = Rows
    BY <2>1 DEF Done, Rows
  <2>4. Done \subseteq Rows
    BY DEF ScheduleInv, TypeOK, Done
  <2>. QED  BY <2>2, <2>3, <2>4 DEF Todo
<1>2. /\ operations' = operations /\ order' = order /\ bitmatrix' = bitmatrix
      /\ row' = row /\ pc' = pc
      /\ diff' = [diff EXCEPT ![i] = IF no < diff[i] THEN no ELSE diff[i]]
      /\ from' = IF no < diff[i] THEN [from EXCEPT ![i] = row] ELSE from
  BY DEF Scan, Source
<1>3. /\ diff \in [Rows -> Nat] /\ from \in [Rows -> Rows \cup {-1}]
      /\ \A r \in Rows : r # -1
  BY DEF ScheduleInv, TypeOK, Rows
<1>4. no \in Nat /\ diff[i] \in Nat /\ Cardinality(bitmatrix[i]) \in Nat
  <2>1. bitmatrix[i] \in SUBSET Cols /\ bitmatrix[row] \in SUBSET Cols
    BY <1>1 DEF ScheduleInv, TypeOK
  <2>2. Cardinality(Xor(bitmatrix[i], bitmatrix[row])) \in Nat
    BY <2>1, XorRow
  <2>. QED  BY <2>1, <2>2, <1>1, <1>3, RowFinite DEF DeriveCost
<1> HIDE DEF no
<1>5. OpsInv' /\ MemInv'
  <2>1. \A r \in Done : diff'[r] = diff[r]
    BY <1>1, <1>2, <1>3
  <2>. QED  BY <2>1, <1>2, SameWork DEF WorkInv
<1>6. ASSUME NEW r \in Rows
      PROVE  IF from'[r] = -1
             THEN diff'[r] = Cardinality(bitmatrix[r])
             ELSE /\ from'[r] \in Done
                  /\ diff'[r] = DeriveCost(r, from'[r])
                  /\ diff'[r] < Cardinality(bitmatrix[r])
  <2>1. IF from[r] = -1
        THEN diff[r] = Cardinality(bitmatrix[r])
        ELSE /\ from[r] \in Done
             /\ diff[r] = DeriveCost(r, from[r])
             /\ diff[r] < Cardinality(bitmatrix[r])
    BY DEF WorkInv, SourceInv
  <2>2. CASE r = i /\ no < diff[i]
    <3>1. from'[r] = row /\ diff'[r] = no
      BY <2>2, <1>2, <1>3
    <3>2. diff[i] <= Cardinality(bitmatrix[i])
      BY <2>1, <2>2, <1>4
    <3>3. no < Cardinality(bitmatrix[i])
      BY <2>2, <3>2, <1>4
    <3>. QED  BY <2>2, <3>1, <3>3, <1>1, <1>3 DEF no
  <2>3. CASE ~(r = i /\ no < diff[i])
    <3>1. from'[r] = from[r] /\ diff'[r] = diff[r]
      BY <2>3, <1>1, <1>2, <1>3
    <3>. QED  BY <2>1, <3>1
  <2>. QED  BY <2>2, <2>3
<1>7. SourceInv'
  BY <1>1, <1>2, <1>6 DEF SourceInv, DeriveCost
<1>. QED  BY <1>5, <1>7 DEF WorkInv

LEMMA OtherWork == ScheduleInv /\ WorkInv /\ (ScanEnds \/ Return \/ UNCHANGED vars) => WorkInv'
<1> SUFFICES ASSUME ScheduleInv, WorkInv, ScanEnds \/ Return \/ UNCHANGED vars PROVE WorkInv'
  OBVIOUS
<1>1. /\ operations' = operations /\ order' = order /\ bitmatrix' = bitmatrix
      /\ diff' = diff /\ from' = from /\ row' = row
      /\ (pc' = pc \/ pc' = "take" \/ pc' = "done")
  BY DEF ScanEnds, Return, vars
<1>2. Done' = Done /\ Rows' = Rows
  BY <1>1 DEF Done, Rows
<1>3. SourceInv'
  BY <1>1, <1>2 DEF WorkInv, SourceInv, DeriveCost
<1>4. OpsInv' /\ MemInv'
  BY <1>1, SameWork DEF WorkInv
<1>. QED  BY <1>3, <1>4 DEF WorkInv

LEMMA WorkInvariant == Spec => [](ScheduleInv /\ WorkInv)
<1>1. Init => ScheduleInv /\ WorkInv
  BY InitInv, InitWork
<1>2. ScheduleInv /\ WorkInv /\ [Next]_vars => (ScheduleInv /\ WorkInv)'
  <2>1. ScheduleInv /\ [Next]_vars => ScheduleInv'
    BY TakeStep, ScanStep, ScanEndsStep, OtherSteps DEF Next
  <2>2. ScheduleInv /\ WorkInv /\ [Next]_vars => WorkInv'
    BY TakeWork, ScanWork, OtherWork DEF Next
  <2>. QED  BY <2>1, <2>2
<1>. QED  BY <1>1, <1>2, PTL DEF Spec

-----------------------------------------------------------------------------
\* The recursion in the dumb schedule has a solution.
LEMMA BuiltRowsAre ==
    ASSUME bitmatrix \in [Rows -> SUBSET Cols]
    PROVE  /\ BuiltRows[0] = <<>>
           /\ \A r \in Rows : BuiltRows[r + 1] = BuiltRows[r] \o BuildOps(r)
<1> DEFINE step == [q \in Nat |-> [s \in Seq(Ops) |->
                      IF q - 1 \in Rows THEN s \o BuildOps(q - 1) ELSE s]]
           Is(f) == f = [r \in 0..R |-> IF r = 0 THEN <<>>
                                               ELSE f[r - 1] \o BuildOps(r - 1)]
<1> USE ScheduleAssumption
<1>0. <<>> \in Seq(Ops) /\ R \in Nat
  OBVIOUS
<1>1. step \in [Nat -> [Seq(Ops) -> Seq(Ops)]]
  <2>1. \A r \in Rows : BuildOps(r) \in Seq(Ops)
    BY BuildOpsIs
  <2>2. \A r \in Rows, s \in Seq(Ops) : s \o BuildOps(r) \in Seq(Ops)
    BY <2>1, Joined
  <2>. QED  BY <2>2
<1>2. PICK f \in [0..R -> Seq(Ops)] : MadeStepwise(f, <<>>, step, R)
  <2> HIDE DEF step
  <2>. QED  BY <1>0, <1>1, RecursiveFunction
<1>3. \A r \in 0..R : f[r] = IF r = 0 THEN <<>> ELSE f[r - 1] \o BuildOps(r - 1)
  <2>1. ASSUME NEW r \in 0..R, r # 0 PROVE f[r] = f[r - 1] \o BuildOps(r - 1)
    <3>1. r \in Nat /\ r - 1 \in 0..R /\ r - 1 \in Rows
      BY <2>1 DEF Rows
    <3>2. f[r] = step[r][f[r - 1]] /\ f[r - 1] \in Seq(Ops)
      BY <1>2, <2>1, <3>1 DEF MadeStepwise
    <3>. QED  BY <3>1, <3>2
  <2>2. f[0] = <<>>
    <3>1. 0 \in 0..R
      OBVIOUS
    <3> HIDE DEF step
    <3>2. f[0] = IF 0 = 0 THEN <<>> ELSE step[0][f[0 - 1]]
      BY <1>2, <3>1 DEF MadeStepwise
    <3>. QED  BY <3>2
  <2>. QED  BY <2>1, <2>2
<1>4. Is(f)
  BY <1>2, <1>3
<1>5. BuiltRows = CHOOSE g : Is(g)
  BY DEF BuiltRows
<1>6. Is(BuiltRows)
  BY <1>4, <1>5
<1>7. \A r \in Rows : r + 1 \in 0..R /\ r + 1 # 0 /\ (r + 1) - 1 = r
  BY DEF Rows
<1>8. 0 \in 0..R
  OBVIOUS
<1>9. \A r \in 0..R : BuiltRows[r] = IF r = 0 THEN <<>>
                                     ELSE BuiltRows[r - 1] \o BuildOps(r - 1)
  BY <1>6
<1>10. \A r \in Rows : BuiltRows[r + 1] = BuiltRows[r] \o BuildOps(r)
  <2> SUFFICES ASSUME NEW r \in Rows
               PROVE  BuiltRows[r + 1] = BuiltRows[r] \o BuildOps(r)
    OBVIOUS
  <2>1. r + 1 \in 0..R /\ r + 1 # 0 /\ (r + 1) - 1 = r
    BY <1>7
  <2>2. BuiltRows[r + 1] = BuiltRows[(r + 1) - 1] \o BuildOps((r + 1) - 1)
    BY <2>1, <1>9
  <2>. QED  BY <2>1, <2>2
<1>. QED  BY <1>8, <1>9, <1>10

\* Its first q rows are as long as their ones, and compute their product.
BuiltTo(q) ==
    /\ BuiltRows[q] \in Seq(Ops)
    /\ Len(BuiltRows[q]) <= q * C
    /\ Performed(BuiltRows[q]) = [r \in Rows |-> IF r < q THEN Product(r) ELSE Stale]
LEMMA BuiltStep ==
    ASSUME bitmatrix \in [Rows -> SUBSET Cols], NEW q \in Rows, BuiltTo(q)
    PROVE  BuiltTo(q + 1) /\ Len(BuiltRows[q + 1])
                               = Len(BuiltRows[q]) + Cardinality(bitmatrix[q])
<1> DEFINE s == BuiltRows[q]   t == BuildOps(q)   m == Performed(s)
           n == Cardinality(bitmatrix[q])
<1>1. s \in Seq(Ops) /\ t \in Seq(Ops) /\ Len(t) = n /\ n \in 0..C /\ q \in Nat
  BY BuildOpsIs, RowSize DEF BuiltTo, Rows
<1>2. BuiltRows[q + 1] = s \o t
  BY BuiltRowsAre
<1>3. s \o t \in Seq(Ops) /\ Len(s \o t) = Len(s) + n
  BY <1>1
<1>4. Len(s \o t) <= (q + 1) * C
  <2>1. Len(s) <= q * C /\ (q + 1) * C = q * C + C /\ C \in Nat /\ q * C \in Nat
    BY <1>1, ScheduleAssumption DEF BuiltTo
  <2> HIDE DEF s, t, n
  <2>. QED  BY <1>1, <1>3, <2>1
<1>5. Performed(s \o t) = [r \in Rows |-> IF r < q + 1 THEN Product(r) ELSE Stale]
  <2>1. m = [r \in Rows |-> IF r < q THEN Product(r) ELSE Stale] /\ m \in Memories
    BY <1>1, PerformedType DEF BuiltTo
  <2>2. PICK g : Runs(g, m, t) /\ Performed(s \o t) = g[Len(t)]
    BY <1>1, PerformedAfter
  <2>3. g[Len(t)] = IF bitmatrix[q] = {} THEN m ELSE [m EXCEPT ![q] = bitmatrix[q]]
    BY <2>1, <2>2, BuildEffect
  <2> HIDE DEF m, s, t
  <2>4. m[q] = Stale
    BY <2>1 DEF Rows
  <2>5. g[Len(t)] = [m EXCEPT ![q] = Product(q)]
    BY <2>1, <2>3, <2>4 DEF Product, Memories
  <2>6. \A r \in Rows : r < q + 1 <=> r < q \/ r = q
    BY DEF Rows
  <2>. QED  BY <2>1, <2>2, <2>5, <2>6
<1>. QED  BY <1>2, <1>3, <1>4, <1>5 DEF BuiltTo

LEMMA BuiltAll ==
    ASSUME bitmatrix \in [Rows -> SUBSET Cols]
    PROVE  \A q \in 0..R : BuiltTo(q)
<1> DEFINE T == {q \in Nat : q \in 0..R => BuiltTo(q)}
<1>1. 0 \in T
  <2>1. BuiltRows[0] = <<>>
    BY BuiltRowsAre
  <2>2. <<>> \in Seq(Ops) /\ Len(<<>>) = 0 /\ 0 * C = 0
    BY ScheduleAssumption
  <2>3. Performing(<<>>)[0] = BlankRows
    BY <2>2, PerformingRuns DEF Runs
  <2>4. \A r \in Rows : ~(r < 0)
    BY DEF Rows
  <2>5. Performed(<<>>) = [r \in Rows |-> IF r < 0 THEN Product(r) ELSE Stale]
    BY <2>2, <2>3, <2>4 DEF Performed, BlankRows
  <2>6. Len(<<>>) <= 0 * C
    BY <2>2
  <2>7. BuiltTo(0)
    BY <2>1, <2>2, <2>5, <2>6 DEF BuiltTo
  <2>. QED  BY <2>7
<1>2. ASSUME NEW q \in Nat, q \in T PROVE q + 1 \in T
  <2>1. SUFFICES ASSUME q + 1 \in 0..R PROVE BuiltTo(q + 1)
    OBVIOUS
  <2>2. q \in Rows /\ q \in 0..R
    BY <2>1, ScheduleAssumption DEF Rows
  <2>. QED  BY <1>2, <2>2, BuiltStep
<1>3. \A q \in Nat : q \in T
  <2> HIDE DEF T
  <2>. QED  BY <1>1, <1>2, SetInduction
<1>. QED  BY <1>3, ScheduleAssumption

\* Row by row, the schedule is never the longer of the two.
WritesBelow(q) == {p \in 1..Len(operations) : operations[p].dst < q}
LEMMA NoLonger ==
    ASSUME ScheduleInv, WorkInv
    PROVE  Len(operations) <= Len(dumb_schedule)
<1> USE ScheduleAssumption
<1>1. /\ bitmatrix \in [Rows -> SUBSET Cols] /\ operations \in Seq(Ops)
      /\ \A r \in Rows : r \in Nat
  BY DEF ScheduleInv, TypeOK, WorkInv, OpsInv, Rows
<1>2. \A p \in 1..Len(operations) : operations[p].dst \in Done /\ operations[p].dst \in Rows
  <2>1. \A p \in 1..Len(operations) : operations[p].dst \in Done
    BY DEF WorkInv, OpsInv
  <2>2. Done \subseteq Rows
    BY DEF ScheduleInv, TypeOK, Done
  <2>. QED  BY <2>1, <2>2
<1>3. ASSUME NEW r \in Rows
      PROVE  /\ IsFiniteSet(Writes(operations, r))
             /\ Cardinality(Writes(operations, r)) \in Nat
             /\ Cardinality(Writes(operations, r)) <= Cardinality(bitmatrix[r])
             /\ Cardinality(bitmatrix[r]) \in Nat
  <2>1. IsFiniteSet(1..Len(operations))
    BY <1>1, FS_Interval
  <2>2. IsFiniteSet(Writes(operations, r)) /\ Cardinality(Writes(operations, r)) \in Nat
    <3>1. Writes(operations, r) \in SUBSET (1..Len(operations))
      BY DEF Writes
    <3>. QED  BY <2>1, <3>1, FS_Subset, FS_CardinalityType
  <2>3. Cardinality(bitmatrix[r]) \in Nat
    BY <1>1, RowFinite
  <2>4. CASE r \in Done
    <3>1. Cardinality(Writes(operations, r)) = diff[r]
      BY <2>4 DEF WorkInv, OpsInv
    <3>2. diff[r] <= Cardinality(bitmatrix[r])
      BY <2>2, <2>3, <3>1 DEF WorkInv, SourceInv
    <3>. QED  BY <2>2, <2>3, <3>1, <3>2
  <2>5. CASE r \notin Done
    <3>1. Writes(operations, r) = {}
      BY <2>5, <1>2 DEF Writes
    <3>2. Cardinality(Writes(operations, r)) = 0
      BY <3>1, FS_EmptySet
    <3>. QED  BY <2>2, <2>3, <3>2
  <2>. QED  BY <2>4, <2>5
<1> DEFINE T == {q \in Nat : q \in 0..R =>
                    /\ IsFiniteSet(WritesBelow(q))
                    /\ Cardinality(WritesBelow(q)) <= Len(BuiltRows[q])}
<1>4. 0 \in T
  <2>1. WritesBelow(0) = {}
    BY <1>2 DEF WritesBelow, Rows
  <2>2. Cardinality(WritesBelow(0)) = 0 /\ IsFiniteSet(WritesBelow(0))
    BY <2>1, FS_EmptySet
  <2>3. Len(BuiltRows[0]) = 0
    BY <1>1, BuiltRowsAre
  <2>. QED  BY <2>2, <2>3
<1>5. ASSUME NEW q \in Nat, q \in T PROVE q + 1 \in T
  <2>1. SUFFICES ASSUME q + 1 \in 0..R
                 PROVE  /\ IsFiniteSet(WritesBelow(q + 1))
                        /\ Cardinality(WritesBelow(q + 1)) <= Len(BuiltRows[q + 1])
    OBVIOUS
  <2>2. q \in Rows /\ q \in 0..R
    BY <2>1 DEF Rows
  <2>3. /\ WritesBelow(q + 1) = WritesBelow(q) \cup Writes(operations, q)
        /\ WritesBelow(q) \cap Writes(operations, q) = {}
    <3>1. \A p \in 1..Len(operations) : operations[p].dst \in Nat
      BY <1>1, <1>2
    <3>2. \A p \in 1..Len(operations) :
             operations[p].dst < q + 1 <=> operations[p].dst < q \/ operations[p].dst = q
      BY <3>1
    <3>3. \A p \in 1..Len(operations) : ~(operations[p].dst < q /\ operations[p].dst = q)
      BY <3>1
    <3>. QED  BY <3>2, <3>3 DEF WritesBelow, Writes
  <2>4. /\ IsFiniteSet(WritesBelow(q))
        /\ Cardinality(WritesBelow(q)) <= Len(BuiltRows[q])
        /\ Cardinality(WritesBelow(q)) \in Nat
    BY <1>5, <2>2, FS_CardinalityType
  <2>5. /\ IsFiniteSet(WritesBelow(q + 1))
        /\ Cardinality(WritesBelow(q + 1))
             = Cardinality(WritesBelow(q)) + Cardinality(Writes(operations, q))
    <3>1. Cardinality(WritesBelow(q) \cap Writes(operations, q)) = 0
      BY <2>3, FS_EmptySet
    <3>2. /\ IsFiniteSet(WritesBelow(q + 1))
          /\ Cardinality(WritesBelow(q + 1))
               = Cardinality(WritesBelow(q)) + Cardinality(Writes(operations, q))
                   - Cardinality(WritesBelow(q) \cap Writes(operations, q))
      BY <2>2, <2>3, <2>4, <1>3, FS_Union
    <3>. QED  BY <3>1, <3>2, <2>2, <2>4, <1>3
  <2>6. /\ Len(BuiltRows[q + 1]) = Len(BuiltRows[q]) + Cardinality(bitmatrix[q])
        /\ Len(BuiltRows[q]) \in Nat
    <3>1. BuiltTo(q)
      BY <1>1, <2>2, BuiltAll
    <3>2. Len(BuiltRows[q + 1]) = Len(BuiltRows[q]) + Cardinality(bitmatrix[q])
      BY <1>1, <2>2, <3>1, BuiltStep
    <3>3. Len(BuiltRows[q]) \in Nat
      BY <3>1 DEF BuiltTo
    <3>. QED  BY <3>2, <3>3
  <2>7. /\ Cardinality(Writes(operations, q)) <= Cardinality(bitmatrix[q])
        /\ Cardinality(Writes(operations, q)) \in Nat
        /\ Cardinality(bitmatrix[q]) \in Nat
    BY <1>3, <2>2
  <2>. QED  BY <2>4, <2>5, <2>6, <2>7
<1>6. \A q \in Nat : q \in T
  <2> HIDE DEF T
  <2>. QED  BY <1>4, <1>5, SetInduction
<1>7. Cardinality(WritesBelow(R)) <= Len(BuiltRows[R])
  BY <1>6
<1>8. WritesBelow(R) = 1..Len(operations)
  BY <1>2 DEF WritesBelow, Rows
<1>9. Cardinality(1..Len(operations)) = Len(operations)
  <2>1. Len(operations) \in Nat
    BY <1>1
  <2>2. Cardinality(1..Len(operations)) =
           IF 1 > Len(operations) THEN 0 ELSE Len(operations) - 1 + 1
    BY <2>1, FS_Interval
  <2>. QED  BY <2>1, <2>2
<1>. QED  BY <1>7, <1>8, <1>9 DEF dumb_schedule

\* However the rows are derived from each other, the schedule fits into the
\* array that is allocated for it: no row takes more operations than building it.
THEOREM FitsOperationsHolds == Spec => []FitsOperations
<1>1. ASSUME ScheduleInv, WorkInv PROVE FitsOperations
  <2>1. bitmatrix \in [Rows -> SUBSET Cols] /\ operations \in Seq(Ops)
    BY <1>1 DEF ScheduleInv, TypeOK, WorkInv, OpsInv
  <2>2. Len(operations) <= R * C
    <3>1. Len(operations) <= Len(BuiltRows[R])
      BY <1>1, NoLonger DEF dumb_schedule
    <3>2. BuiltRows[R] \in Seq(Ops) /\ Len(BuiltRows[R]) <= R * C
      <4>1. BuiltTo(R)
        BY <2>1, BuiltAll, ScheduleAssumption
      <4>. QED  BY <4>1 DEF BuiltTo
    <3>3. Len(operations) \in Nat /\ Len(BuiltRows[R]) \in Nat /\ R * C \in Nat
      BY <2>1, <3>2, ScheduleAssumption
    <3>. QED  BY <3>1, <3>2, <3>3
  <2>3. \A r \in Done :
           Cardinality({p \in 1..Len(operations) : operations[p].dst = r}) = diff[r]
    BY <1>1 DEF WorkInv, OpsInv, Writes
  <2>4. \A r \in Rows : diff[r] <= Cardinality(bitmatrix[r])
    <3>1. \A r \in Rows : Cardinality(bitmatrix[r]) \in Nat /\ diff[r] \in Nat
      BY <1>1, <2>1, RowFinite DEF ScheduleInv, TypeOK
    <3>. QED  BY <1>1, <3>1 DEF WorkInv, SourceInv
  <2>. QED  BY <2>2, <2>3, <2>4 DEF FitsOperations
<1>. QED  BY WorkInvariant, <1>1, PTL

\* Whatever bitmatrix it is given, the schedule computes its product with the
\* data, as the dumb schedule does, and is never the longer of the two.
THEOREM ComputesProductHolds == Spec => []ComputesProduct
<1>1. ASSUME ScheduleInv, WorkInv PROVE ComputesProduct
  <2>1. bitmatrix \in [Rows -> SUBSET Cols] /\ Done \subseteq Rows
    BY <1>1 DEF ScheduleInv, TypeOK, Done
  <2>2. \A r \in Done : Memory[r] = Product(r)
    BY <1>1, <2>1 DEF WorkInv, MemInv
  <2>3. Performed(dumb_schedule) = [r \in Rows |-> Product(r)]
    <3>0. BuiltTo(R)
      BY <2>1, BuiltAll, ScheduleAssumption
    <3>1. Performed(BuiltRows[R]) = [r \in Rows |-> IF r < R THEN Product(r) ELSE Stale]
      BY <3>0 DEF BuiltTo
    <3>2. \A r \in Rows : r < R
      BY ScheduleAssumption DEF Rows
    <3>. QED  BY <3>1, <3>2 DEF dumb_schedule
  <2>4. Len(operations) <= Len(dumb_schedule)
    BY <1>1, NoLonger
  <2>. QED  BY <2>2, <2>3, <2>4 DEF ComputesProduct
<1>. QED  BY WorkInvariant, <1>1, PTL
=============================================================================
