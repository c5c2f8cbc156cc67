--------------------------- MODULE HashMapProofs ----------------------------
(***************************************************************************)
(* Proofs about HashMap: its inductive invariant, the safety properties    *)
(* that follow, and the refinement of KeySet, for every set of keys, every *)
(* hash function, initial capacity, load factor and migration quota.       *)
(***************************************************************************)
EXTENDS HashMap, FiniteSetTheorems, TLAPS

\* A bucket index is within the table: hcode & mask never exceeds mask.
LEMMA ModInRange ==
  ASSUME NEW h \in Nat, NEW c \in Nat \ {0}
  PROVE  h % c \in 0 .. c - 1
  OBVIOUS

LEMMA PosInRange ==
  ASSUME NEW t, IsHTab(t), t.cap # 0, NEW k \in Key
  PROVE  Pos(t, k) \in 0 .. t.cap - 1
<1>1. Hash[k] \in Nat
  BY HashMapAssumption
<1>2. t.cap \in Nat \ {0}
  BY DEF IsHTab
<1> QED
  BY <1>1, <1>2, ModInRange DEF Pos

\* h_init makes a well formed table without keys.
LEMMA InitTable ==
  ASSUME NEW n \in Nat
  PROVE  /\ WellFormed(h_init(n))
         /\ Chained(h_init(n)) = {}
         /\ h_init(n).cap = n /\ h_init(n).size = 0
<1> DEFINE t == h_init(n)
<1>1. /\ t.cap = n /\ t.size = 0
      /\ t.tab = [i \in 0 .. n-1 |-> {}]
      /\ IsHTab(t)
  BY DEF h_init, IsHTab
<1>2. Chained(t) = {}
  BY <1>1 DEF Chained
<1>3. \A i \in 0 .. t.cap - 1 : \A k \in t.tab[i] : Pos(t, k) = i
  BY <1>1
<1> QED
  BY <1>1, <1>2, <1>3, FS_EmptySet DEF WellFormed

\* h_lookup on a well formed table finds exactly the keys that are chained.
LEMMA FoundIffChained ==
  ASSUME NEW t, WellFormed(t), NEW k \in Key
  PROVE  Found(t, k) <=> k \in Chained(t)
<1>1. IsHTab(t) /\ t.cap \in Nat
  BY DEF WellFormed, IsHTab
<1>2. ASSUME Found(t, k) PROVE k \in Chained(t)
  BY <1>1, <1>2, PosInRange DEF Found, Chained
<1>3. ASSUME k \in Chained(t) PROVE Found(t, k)
  <2>1. PICK i \in 0 .. t.cap - 1 : k \in t.tab[i]
    BY <1>3 DEF Chained
  <2>2. Pos(t, k) = i
    BY <2>1 DEF WellFormed
  <2> QED
    BY <1>1, <2>1, <2>2 DEF Found
<1> QED
  BY <1>2, <1>3

\* Keys of a well formed table are keys.
LEMMA ChainedKeys ==
  ASSUME NEW t, IsHTab(t)
  PROVE  Chained(t) \subseteq Key
  BY DEF IsHTab, Chained

\* h_insert of a new key adds that key and nothing else.
LEMMA InsertKey ==
  ASSUME NEW t, WellFormed(t), t.cap # 0, NEW k \in Key, k \notin Chained(t)
  PROVE  /\ WellFormed(h_insert(t, k))
         /\ Chained(h_insert(t, k)) = Chained(t) \cup {k}
         /\ h_insert(t, k).cap = t.cap
         /\ h_insert(t, k).size = t.size + 1
<1> DEFINE u == h_insert(t, k)
           p == Pos(t, k)
<1>1. IsHTab(t)
  BY DEF WellFormed
<1>2. p \in 0 .. t.cap - 1
  BY <1>1, PosInRange
<1>3. u = [cap |-> t.cap, tab |-> [t.tab EXCEPT ![p] = @ \cup {k}],
           size |-> t.size + 1]
  BY DEF h_insert
<1>4. /\ u.cap = t.cap /\ u.size = t.size + 1
      /\ u.tab = [t.tab EXCEPT ![p] = @ \cup {k}]
  BY <1>3
<1>5. \A i \in 0 .. t.cap - 1 :
        u.tab[i] = IF i = p THEN t.tab[p] \cup {k} ELSE t.tab[i]
  BY <1>1, <1>2, <1>4 DEF IsHTab
<1>6. Chained(u) = Chained(t) \cup {k}
  BY <1>2, <1>4, <1>5 DEF Chained
<1>7. IsHTab(u)
  BY <1>1, <1>2, <1>3, <1>4 DEF IsHTab
<1>8. \A i \in 0 .. u.cap - 1 : \A j \in u.tab[i] : Pos(u, j) = i
  BY <1>4, <1>5 DEF WellFormed, Pos
<1>9. IsFiniteSet(Chained(u)) /\ u.size = Cardinality(Chained(u))
  BY <1>4, <1>6, FS_AddElement DEF WellFormed
<1> QED
  BY <1>4, <1>6, <1>7, <1>8, <1>9 DEF WellFormed

\* h_detach removes the node it is given and nothing else.
LEMMA DetachKey ==
  ASSUME NEW t, WellFormed(t), NEW p \in 0 .. t.cap - 1, NEW k \in t.tab[p]
  PROVE  /\ WellFormed(h_detach(t, p, k))
         /\ Chained(h_detach(t, p, k)) = Chained(t) \ {k}
         /\ h_detach(t, p, k).cap = t.cap
         /\ h_detach(t, p, k).size = t.size - 1
         /\ \A i \in 0 .. t.cap - 1 : h_detach(t, p, k).tab[i] \subseteq t.tab[i]
<1> DEFINE u == h_detach(t, p, k)
<1>1. IsHTab(t)
  BY DEF WellFormed
<1>3. u = [cap |-> t.cap, tab |-> [t.tab EXCEPT ![p] = @ \ {k}],
           size |-> t.size - 1]
  BY DEF h_detach
<1>4. /\ u.cap = t.cap /\ u.size = t.size - 1
      /\ u.tab = [t.tab EXCEPT ![p] = @ \ {k}]
  BY <1>3
<1>5. \A i \in 0 .. t.cap - 1 :
        u.tab[i] = IF i = p THEN t.tab[p] \ {k} ELSE t.tab[i]
  BY <1>1, <1>4 DEF IsHTab
<1>6. \A i \in 0 .. t.cap - 1 : k \in t.tab[i] => i = p
  BY DEF WellFormed
<1>7. Chained(u) = Chained(t) \ {k}
  <2>1. ASSUME NEW x \in Chained(u) PROVE x \in Chained(t) /\ x # k
    BY <2>1, <1>4, <1>5, <1>6 DEF Chained
  <2>2. ASSUME NEW x \in Chained(t), x # k PROVE x \in Chained(u)
    BY <2>2, <1>4, <1>5 DEF Chained
  <2> QED
    BY <2>1, <2>2
<1>8. k \in Chained(t)
  BY DEF Chained
<1>9. /\ IsFiniteSet(Chained(u))
      /\ Cardinality(Chained(u)) = Cardinality(Chained(t)) - 1
  BY <1>7, <1>8, FS_RemoveElement DEF WellFormed
<1>10. t.size - 1 \in Nat
  BY <1>9, <1>1, FS_CardinalityType DEF WellFormed, IsHTab
<1>11. IsHTab(u)
  BY <1>1, <1>3, <1>4, <1>10 DEF IsHTab
<1>12. \A i \in 0 .. u.cap - 1 : \A j \in u.tab[i] : Pos(u, j) = i
  BY <1>4, <1>5 DEF WellFormed, Pos
<1> QED
  BY <1>4, <1>5, <1>7, <1>9, <1>11, <1>12 DEF WellFormed

\* A table without nodes has size 0, and only such a table does.
LEMMA SizeZero ==
  ASSUME NEW t, WellFormed(t)
  PROVE  t.size = 0 <=> Chained(t) = {}
  BY FS_EmptySet DEF WellFormed

\* A reply of at most one node has the type of a reply.
LEMMA NodeType ==
  ASSUME NEW k \in Key
  PROVE  /\ Node({k}) \in [size : Nat, nodes : SUBSET Key]
         /\ Node({}) \in [size : Nat, nodes : SUBSET Key]
<1>1. Cardinality({k}) = 1 /\ Cardinality({}) = 0
  BY FS_Singleton, FS_EmptySet
<1> QED
  BY <1>1 DEF Node
-----------------------------------------------------------------------------
USE DEF PC

\* The empty map satisfies the invariant.
LEMMA InitIInv == Init => IInv
<1> SUFFICES ASSUME Init PROVE IInv
  OBVIOUS
<1>1. /\ WellFormed(NoTab) /\ Chained(NoTab) = {}
      /\ NoTab.cap = 0 /\ NoTab.size = 0
  BY InitTable DEF NoTab
<1>2. TypeOK
  BY <1>1, NodeType DEF Init, TypeOK, WellFormed
<1> QED
  BY <1>1, <1>2 DEF Init, IInv, Frontier, LoadSlack

\* A call changes neither table.
LEMMA CallIInv ==
  ASSUME IInv, NEW o \in Op, NEW k \in Key, Call(o, k)
  PROVE  IInv'
<1>1. TypeOK'
  BY DEF IInv, TypeOK, Call, Entry, table
<1>2. /\ UNCHANGED <<ht1, ht2, resizing_pos>> /\ pc = "idle" /\ pc' # "idle"
      /\ pc' \in {"help", "scan", "destroy"}
      /\ pc' = "help" => op' \in {"lookup", "upsert", "pop"}
      /\ pc' \in {"scan", "destroy"} => op' = pc'
  BY DEF Call, Entry, table, Op
<1>3. /\ WellFormed(ht1)' /\ WellFormed(ht2)'
      /\ (Chained(ht1) \cap Chained(ht2))' = {}
      /\ Frontier'
      /\ (ht1.cap = 0 => ht2.cap = 0)'
  BY <1>2 DEF IInv, Frontier, WellFormed, IsHTab, Chained, Pos
<1>4. LoadSlack'
  BY <1>2 DEF IInv, LoadSlack
<1> QED
  BY <1>1, <1>2, <1>3, <1>4 DEF IInv

\* While a node is left in the older table, some bucket at or after the
\* cursor holds it.
LEMMA CursorHasWork ==
  ASSUME IInv, ht2.size > 0
  PROVE  resizing_pos \in 0 .. ht2.cap - 1
<1>1. WellFormed(ht2) /\ IsHTab(ht2) /\ ht2.cap \in Nat /\ ht2.size \in Nat
  BY DEF IInv, WellFormed, IsHTab
<1>2. Chained(ht2) # {}
  BY <1>1, SizeZero
<1>3. PICK i \in 0 .. ht2.cap - 1 : ht2.tab[i] # {}
  BY <1>2 DEF Chained
<1>4. ~ (i < resizing_pos)
  BY <1>3 DEF IInv, Frontier
<1> QED
  BY <1>1, <1>3, <1>4 DEF IInv, TypeOK

\* Skipping an empty bucket extends the frontier.
LEMMA HelpSkipIInv ==
  ASSUME IInv, HelpSkip
  PROVE  IInv'
<1>1. UNCHANGED <<ht1, ht2, pc, nwork, op, key, reply>>
      /\ resizing_pos' = resizing_pos + 1 /\ ht2.tab[resizing_pos] = {}
      /\ ht2.size > 0
  BY DEF HelpSkip, Helping
<1>2. resizing_pos \in 0 .. ht2.cap - 1
  BY <1>1, CursorHasWork
<1>3. Frontier'
  BY <1>1, <1>2 DEF IInv, Frontier
<1>4. TypeOK'
  BY <1>1 DEF IInv, TypeOK, IsHTab
<1>5. /\ WellFormed(ht1)' /\ WellFormed(ht2)'
      /\ (Chained(ht1) \cap Chained(ht2))' = {}
  BY <1>1 DEF IInv, WellFormed, IsHTab, Chained, Pos
<1>6. LoadSlack'
  BY <1>1 DEF IInv, LoadSlack
<1>7. (key \notin Chained(ht1) \cup Chained(ht2))' <=> key \notin Chained(ht1) \cup Chained(ht2)
  BY <1>1 DEF Chained
<1> QED
  BY <1>1, <1>3, <1>4, <1>5, <1>6, <1>7 DEF IInv

\* Facts about the two tables that every step may assume.
LEMMA Tables ==
  ASSUME IInv
  PROVE  /\ WellFormed(ht1) /\ IsHTab(ht1) /\ ht1.cap \in Nat /\ ht1.size \in Nat
         /\ WellFormed(ht2) /\ IsHTab(ht2) /\ ht2.cap \in Nat /\ ht2.size \in Nat
         /\ Chained(ht1) \subseteq Key /\ Chained(ht2) \subseteq Key
         /\ MaxLoad \in Nat /\ InitCap \in Nat \ {0} /\ ResizingWork \in Nat \ {0}
  BY ChainedKeys, HashMapAssumption DEF IInv, WellFormed, IsHTab

\* A map whose older table has keys has a newer one to move them to.
LEMMA HelpMoveTables ==
  ASSUME IInv, HelpMove
  PROVE  \E k \in Key :
           /\ k \in Chained(ht2) /\ k \notin Chained(ht1)
           /\ WellFormed(ht1') /\ WellFormed(ht2')
           /\ Chained(ht1') = Chained(ht1) \cup {k}
           /\ Chained(ht2') = Chained(ht2) \ {k}
           /\ ht1'.cap = ht1.cap /\ ht2'.cap = ht2.cap /\ ht1.cap # 0
           /\ ht1'.size = ht1.size + 1 /\ ht2'.size = ht2.size - 1
           /\ ht2.size > 0 /\ Frontier'
<1>1. ht2.size > 0
  BY DEF HelpMove, Helping
<1>2. resizing_pos \in 0 .. ht2.cap - 1
  BY <1>1, CursorHasWork
<1>3. PICK k \in ht2.tab[resizing_pos] :
        /\ ht2' = h_detach(ht2, resizing_pos, k)
        /\ ht1' = h_insert(ht1, k)
  BY DEF HelpMove
<1>4. k \in Chained(ht2) /\ k \in Key /\ k \notin Chained(ht1)
  BY <1>2, <1>3, Tables DEF Chained, IInv
<1>5. ht1.cap # 0
  BY <1>2, Tables DEF IInv
<1>6. /\ WellFormed(ht1') /\ Chained(ht1') = Chained(ht1) \cup {k}
      /\ ht1'.cap = ht1.cap /\ ht1'.size = ht1.size + 1
  BY <1>3, <1>4, <1>5, InsertKey, Tables
<1>7. /\ WellFormed(ht2') /\ Chained(ht2') = Chained(ht2) \ {k}
      /\ ht2'.cap = ht2.cap /\ ht2'.size = ht2.size - 1
      /\ \A i \in 0 .. ht2.cap - 1 : ht2'.tab[i] \subseteq ht2.tab[i]
  BY <1>2, <1>3, DetachKey, Tables
<1>8. Frontier'
  BY <1>7 DEF IInv, Frontier, HelpMove
<1> QED
  BY <1>1, <1>4, <1>5, <1>6, <1>7, <1>8

\* Moving a node keeps every key and gives back one unit of slack.
LEMMA HelpMoveIInv ==
  ASSUME IInv, HelpMove
  PROVE  IInv'
<1>1. PICK k \in Key :
        /\ k \in Chained(ht2) /\ k \notin Chained(ht1)
        /\ WellFormed(ht1') /\ WellFormed(ht2')
        /\ Chained(ht1') = Chained(ht1) \cup {k}
        /\ Chained(ht2') = Chained(ht2) \ {k}
        /\ ht1'.cap = ht1.cap /\ ht2'.cap = ht2.cap /\ ht1.cap # 0
        /\ ht1'.size = ht1.size + 1 /\ ht2'.size = ht2.size - 1
        /\ ht2.size > 0 /\ Frontier'
  BY HelpMoveTables
<1>2. /\ pc \in {"help", "helpAfterInsert"} /\ nwork' = nwork + 1
      /\ UNCHANGED <<resizing_pos, pc, op, key, reply>>
  BY DEF HelpMove, Helping
<1>3. TypeOK'
  BY <1>1, <1>2 DEF IInv, TypeOK, WellFormed
<1>4. LoadSlack'
  <2>1. nwork' # 0
    BY <1>2 DEF IInv, TypeOK
  <2> DEFINE L == (MaxLoad + 1) * ht1.cap
  <2>2. L \in Nat
    BY Tables
  <2>3. ht1.size + 2 * ht2.size <= L
    BY <1>1, <2>2, Tables DEF IInv, LoadSlack
  <2>4. (MaxLoad + 1) * ht1'.cap = L
    BY <1>1
  <2>. HIDE DEF L
  <2>5. IF ht2'.size = 0 THEN ht1'.size < L ELSE ht1'.size + 2 * ht2'.size < L + 0
    BY <1>1, <2>2, <2>3, Tables
  <2> QED
    BY <1>1, <2>1, <2>4, <2>5, <2>2 DEF LoadSlack
<1> QED
  BY <1>1, <1>2, <1>3, <1>4 DEF IInv

\* The loop of hm_help_resizing has ended: it moved a node, or none is left.
LEMMA HelpDoneIInv ==
  ASSUME IInv, HelpDone
  PROVE  IInv'
<1>1. /\ pc \in {"help", "helpAfterInsert"} /\ ~ Helping
      /\ ht2' = IF ht2.size = 0 THEN NoTab ELSE ht2
      /\ pc' = IF pc = "help" THEN "search" ELSE "done"
      /\ UNCHANGED <<ht1, resizing_pos, nwork, op, key, reply>>
  BY DEF HelpDone
<1>2. ht2.size # 0 => nwork # 0
  BY <1>1, Tables DEF Helping, IInv, TypeOK
<1>3. /\ WellFormed(NoTab) /\ Chained(NoTab) = {}
      /\ NoTab.cap = 0 /\ NoTab.size = 0
  BY InitTable DEF NoTab
<1>4. /\ WellFormed(ht2') /\ Chained(ht2') = Chained(ht2)
      /\ ht2'.size = ht2.size /\ Frontier'
      /\ ht2'.cap = IF ht2.size = 0 THEN 0 ELSE ht2.cap
  <2>1. CASE ht2.size = 0
    BY <2>1, <1>1, <1>3, SizeZero, Tables DEF Frontier
  <2>2. CASE ht2.size # 0
    BY <2>2, <1>1, Tables DEF Frontier, IInv
  <2> QED
    BY <2>1, <2>2
<1>5. WellFormed(ht1') /\ Chained(ht1') = Chained(ht1) /\ ht1' = ht1
  BY <1>1, Tables
<1>6. TypeOK'
  BY <1>1, <1>4, <1>5 DEF IInv, TypeOK, WellFormed
<1>7. LoadSlack'
  BY <1>1, <1>2, <1>4, <1>5 DEF IInv, LoadSlack
<1>8. op \in {"lookup", "upsert", "pop"} \/ pc' # "search"
  BY <1>1 DEF IInv
<1> QED
  BY <1>1, <1>4, <1>5, <1>6, <1>7, <1>8 DEF IInv

\* hm_lookup changes no table, and goes on to insert only an absent key.
LEMMA SearchLookupIInv ==
  ASSUME IInv, SearchLookup
  PROVE  IInv'
<1>1. /\ UNCHANGED <<ht1, ht2, resizing_pos, nwork, op, key>>
      /\ pc = "search" /\ op \in {"lookup", "upsert"}
      /\ pc' \in {"done", "insert"}
  BY DEF SearchLookup, table
<1>2. key \in Key /\ Node({key}) \in [size : Nat, nodes : SUBSET Key]
      /\ Node({}) \in [size : Nat, nodes : SUBSET Key]
  BY NodeType DEF IInv, TypeOK
<1>3. pc' = "insert" => /\ op = "upsert"
                        /\ key \notin Chained(ht1) \cup Chained(ht2)
  BY <1>2, FoundIffChained, Tables DEF SearchLookup
<1>4. TypeOK'
  BY <1>1, <1>2 DEF SearchLookup, IInv, TypeOK
<1>5. LoadSlack'
  BY <1>1 DEF IInv, LoadSlack
<1>6. Frontier'
  BY <1>1 DEF IInv, Frontier
<1>7. /\ WellFormed(ht1') /\ WellFormed(ht2')
      /\ Chained(ht1') = Chained(ht1) /\ Chained(ht2') = Chained(ht2)
  BY <1>1, Tables
<1> QED
  BY <1>1, <1>3, <1>4, <1>5, <1>6, <1>7 DEF IInv

\* hm_pop detaches the node it found.
LEMMA SearchPopTables ==
  ASSUME IInv, SearchPop
  PROVE  /\ WellFormed(ht1') /\ WellFormed(ht2')
         /\ Chained(ht1') = Chained(ht1) \ {key}
         /\ Chained(ht2') = Chained(ht2) \ {key}
         /\ ht1'.cap = ht1.cap /\ ht2'.cap = ht2.cap
         /\ ht1'.size <= ht1.size /\ ht2'.size <= ht2.size
         /\ Frontier'
         /\ reply' = Node((Chained(ht1) \cup Chained(ht2)) \cap {key})
<1>1. /\ pc = "search" /\ key \in Key
      /\ UNCHANGED resizing_pos
  BY DEF SearchPop, IInv, TypeOK
<1>2. /\ Found(ht1, key) <=> key \in Chained(ht1)
      /\ Found(ht2, key) <=> key \in Chained(ht2)
  BY <1>1, FoundIffChained, Tables
<1>3. CASE Found(ht1, key)
  <2>1. Pos(ht1, key) \in 0 .. ht1.cap - 1 /\ key \in ht1.tab[Pos(ht1, key)]
    BY <1>1, <1>3, PosInRange, Tables DEF Found
  <2>2. ht1' = h_detach(ht1, Pos(ht1, key), key) /\ ht2' = ht2
        /\ reply' = Node({key})
    BY <1>3 DEF SearchPop
  <2>3. key \notin Chained(ht2)
    BY <1>2, <1>3 DEF IInv
  <2>4. (Chained(ht1) \cup Chained(ht2)) \cap {key} = {key}
    BY <1>2, <1>3
  <2>5. /\ WellFormed(ht1') /\ Chained(ht1') = Chained(ht1) \ {key}
        /\ ht1'.cap = ht1.cap /\ ht1'.size <= ht1.size
    BY <2>1, <2>2, DetachKey, Tables
  <2>6. WellFormed(ht2') /\ Chained(ht2') = Chained(ht2) \ {key}
        /\ ht2'.cap = ht2.cap /\ ht2'.size <= ht2.size /\ Frontier'
    BY <1>1, <2>2, <2>3, Tables DEF IInv, Frontier
  <2> QED
    BY <2>2, <2>4, <2>5, <2>6
<1>4. CASE ~ Found(ht1, key) /\ Found(ht2, key)
  <2>1. Pos(ht2, key) \in 0 .. ht2.cap - 1 /\ key \in ht2.tab[Pos(ht2, key)]
    BY <1>1, <1>4, PosInRange, Tables DEF Found
  <2>2. ht2' = h_detach(ht2, Pos(ht2, key), key) /\ ht1' = ht1
        /\ reply' = Node({key})
    BY <1>4 DEF SearchPop
  <2>3. /\ WellFormed(ht2') /\ Chained(ht2') = Chained(ht2) \ {key}
        /\ ht2'.cap = ht2.cap /\ ht2'.size <= ht2.size
        /\ \A i \in 0 .. ht2.cap - 1 : ht2'.tab[i] \subseteq ht2.tab[i]
    BY <2>1, <2>2, DetachKey, Tables
  <2>4. Frontier'
    BY <1>1, <2>3 DEF IInv, Frontier
  <2>5. Chained(ht1') = Chained(ht1) \ {key} /\ WellFormed(ht1')
        /\ ht1'.cap = ht1.cap /\ ht1'.size <= ht1.size
    BY <1>2, <1>4, <2>2, Tables
  <2>6. (Chained(ht1) \cup Chained(ht2)) \cap {key} = {key}
    BY <1>2, <1>4
  <2> QED
    BY <2>2, <2>3, <2>4, <2>5, <2>6
<1>5. CASE ~ Found(ht1, key) /\ ~ Found(ht2, key)
  <2>1. UNCHANGED <<ht1, ht2>> /\ reply' = Node({})
    BY <1>5 DEF SearchPop
  <2>2. /\ Chained(ht1) = Chained(ht1) \ {key}
        /\ Chained(ht2) = Chained(ht2) \ {key}
        /\ (Chained(ht1) \cup Chained(ht2)) \cap {key} = {}
    BY <1>2, <1>5
  <2> QED
    BY <1>1, <2>1, <2>2, Tables DEF IInv, Frontier
<1> QED
  BY <1>3, <1>4, <1>5

\* hm_pop keeps the invariant: what SearchPopTables says of the tables is
\* what the invariant needs.
LEMMA SearchPopIInv ==
  ASSUME IInv, SearchPop
  PROVE  IInv'
<1>1. /\ pc = "search" /\ pc' = "done" /\ op = "pop"
      /\ UNCHANGED <<resizing_pos, nwork, op, key>>
  BY DEF SearchPop
<1>2. /\ WellFormed(ht1') /\ WellFormed(ht2')
      /\ Chained(ht1') = Chained(ht1) \ {key}
      /\ Chained(ht2') = Chained(ht2) \ {key}
      /\ ht1'.cap = ht1.cap /\ ht2'.cap = ht2.cap
      /\ ht1'.size <= ht1.size /\ ht2'.size <= ht2.size
      /\ Frontier'
      /\ ht1'.size \in Nat /\ ht2'.size \in Nat
  BY SearchPopTables DEF WellFormed, IsHTab
<1>3. reply' \in [size : Nat, nodes : SUBSET Key]
  <2>1. reply' = Node({key}) \/ reply' = Node({})
    BY DEF SearchPop
  <2> QED
    BY <2>1, NodeType DEF IInv, TypeOK
<1>4. TypeOK'
  BY <1>1, <1>2, <1>3 DEF IInv, TypeOK, WellFormed
<1>5. LoadSlack'
  <2> DEFINE L == (MaxLoad + 1) * ht1.cap
  <2>1. L \in Nat
    BY Tables
  <2>2. ht1.cap # 0 =>
          IF ht2.size = 0 THEN ht1.size < L ELSE ht1.size + 2 * ht2.size < L
    BY <1>1, <2>1, Tables DEF IInv, LoadSlack
  <2>3. ht1.cap # 0 =>
          IF ht2'.size = 0 THEN ht1'.size < L ELSE ht1'.size + 2 * ht2'.size < L + 0
    BY <1>2, <2>1, <2>2, Tables
  <2>4. (MaxLoad + 1) * ht1'.cap = L
    BY <1>2
  <2> QED
    BY <1>1, <1>2, <2>1, <2>3, <2>4 DEF LoadSlack
<1> QED
  BY <1>1, <1>2, <1>4, <1>5 DEF IInv

\* Integer division by the capacity: the load check is a bound on the size.
LEMMA OverloadedBound ==
  ASSUME NEW s \in Nat, NEW c \in Nat \ {0}, NEW m \in Nat
  PROVE  ~ (s \div c > m) => s < (m + 1) * c
<1>1. s = c * (s \div c) + (s % c) /\ s % c \in 0 .. c - 1 /\ s \div c \in Nat
  OBVIOUS
<1>2. ASSUME s \div c <= m PROVE c * (s \div c) <= c * m
  BY <1>1, <1>2
<1>3. (m + 1) * c = c * m + c
  OBVIOUS
<1>4. c * m \in Nat /\ c * (s \div c) \in Nat
  BY <1>1
<1> QED
  BY <1>1, <1>2, <1>3, <1>4

\* hm_insert puts the new key in the table, and when that table is too
\* full makes it the older one.
LEMMA InsertTables ==
  ASSUME IInv, Insert
  PROVE  /\ WellFormed(ht1') /\ WellFormed(ht2')
         /\ Chained(ht1') \cap Chained(ht2') = {}
         /\ Chained(ht1') \cup Chained(ht2') =
              Chained(ht1) \cup Chained(ht2) \cup {key}
         /\ Frontier' /\ resizing_pos' \in Nat /\ ht1'.cap # 0
         /\ LoadSlack'
<1> DEFINE base == IF ht1.cap = 0 THEN h_init(InitCap) ELSE ht1
           t == h_insert(base, key)
<1>1. /\ pc = "insert" /\ pc' = "helpAfterInsert" /\ nwork' = 0 /\ key \in Key
      /\ IF ht2.cap = 0 /\ Overloaded(t)
           THEN ht2' = t /\ ht1' = h_init(t.cap * 2) /\ resizing_pos' = 0
           ELSE ht1' = t /\ UNCHANGED <<ht2, resizing_pos>>
  BY DEF Insert, IInv, TypeOK
<1>2. /\ key \notin Chained(ht1) /\ key \notin Chained(ht2)
      /\ ht2.size = 0 => ht2.cap = 0
      /\ ht1.cap = 0 => ht2.cap = 0
      /\ Chained(ht1) \cap Chained(ht2) = {}
  BY <1>1 DEF IInv
<1>3. /\ WellFormed(base) /\ Chained(base) = Chained(ht1) /\ base.cap # 0
      /\ base.cap \in Nat /\ base.size \in Nat
      /\ ht1.cap # 0 => base = ht1
      /\ ht1.cap = 0 => base.size = 0
  <2>1. CASE ht1.cap = 0
    <3>1. Chained(ht1) = {}
      BY <2>1, Tables DEF IsHTab, Chained
    <3> QED
      BY <2>1, <3>1, InitTable, Tables
  <2>2. CASE ht1.cap # 0
    BY <2>2, Tables
  <2> QED
    BY <2>1, <2>2
<1> DEFINE L == (MaxLoad + 1) * base.cap
<1>4. L \in Nat /\ L # 0
  BY <1>3, Tables
<1>5. IF ht2.size = 0 THEN base.size < L ELSE base.size + 2 * ht2.size < L
  <2>1. CASE ht1.cap = 0
    <3>1. ht2.cap = 0 /\ Chained(ht2) = {}
      BY <2>1, <1>2, Tables DEF IsHTab, Chained
    <3>2. ht2.size = 0
      BY <3>1, SizeZero, Tables
    <3> QED
      BY <2>1, <3>2, <1>3, <1>4
  <2>2. CASE ht1.cap # 0
    <3>1. base = ht1
      BY <2>2, <1>3
    <3>2. IF ht2.size = 0 THEN ht1.size < L ELSE ht1.size + 2 * ht2.size < L + 0
      BY <1>1, <2>2, <3>1 DEF IInv, LoadSlack
    <3> HIDE DEF L
    <3> QED
      BY <3>1, <3>2, <1>4
  <2> QED
    BY <2>1, <2>2
<1>6. /\ WellFormed(t) /\ Chained(t) = Chained(ht1) \cup {key}
      /\ t.cap = base.cap /\ t.size = base.size + 1
  BY <1>1, <1>2, <1>3, InsertKey
<1> HIDE DEF L, base, t
<1>7. CASE ht2.cap = 0 /\ Overloaded(t)
  <2>1. ht2' = t /\ ht1' = h_init(t.cap * 2) /\ resizing_pos' = 0
    BY <1>1, <1>7
  <2>2. t.cap * 2 \in Nat
    BY <1>3, <1>6
  <2>3. /\ WellFormed(ht1') /\ Chained(ht1') = {} /\ ht1'.cap = t.cap * 2
        /\ ht1'.size = 0 /\ ht1'.cap # 0
    BY <2>1, <2>2, InitTable, <1>3, <1>6
  <2>4. Chained(ht2) = {}
    BY <1>7, Tables DEF IsHTab, Chained
  <2>5. Frontier'
    BY <2>1, <1>3, <1>6 DEF Frontier
  <2>6. ht2.size = 0
    BY <2>4, SizeZero, Tables
  <2>7. (MaxLoad + 1) * ht1'.cap = 2 * L
    BY <2>3, <1>3, <1>6, Tables DEF L
  <2>8. LoadSlack'
    <3>1. ht2'.size = base.size + 1 /\ ht2'.size <= L /\ ht2'.size # 0
      BY <2>1, <2>6, <1>3, <1>4, <1>5, <1>6
    <3>2. ht1'.size + 2 * ht2'.size < 2 * L + 1
      BY <3>1, <2>3, <1>3, <1>4
    <3> QED
      BY <2>7, <3>1, <3>2, <1>1 DEF LoadSlack
  <2> QED
    BY <2>1, <2>3, <2>4, <2>5, <2>8, <1>6
<1>8. CASE ~ (ht2.cap = 0 /\ Overloaded(t))
  <2>1. ht1' = t /\ ht2' = ht2 /\ resizing_pos' = resizing_pos
    BY <1>1, <1>8
  <2>2. Frontier' /\ resizing_pos' \in Nat
    BY <2>1 DEF Frontier, IInv, TypeOK
  <2>3. (MaxLoad + 1) * ht1'.cap = L
    BY <2>1, <1>6 DEF L
  <2>4. LoadSlack'
    <3>1. CASE ht2.size = 0
      <4>1. ~ (t.size \div t.cap > MaxLoad)
        BY <1>2, <1>8, <3>1 DEF Overloaded
      <4>2. t.size \in Nat /\ t.cap \in Nat \ {0}
        BY <1>3, <1>6
      <4>3. t.size < (MaxLoad + 1) * t.cap
        BY <4>1, <4>2, OverloadedBound, Tables
      <4> QED
        BY <4>3, <2>1, <3>1 DEF LoadSlack
    <3>2. CASE ht2.size # 0
      <4>1. base.size + 2 * ht2.size < L
        BY <3>2, <1>5
      <4>2. ht1'.size + 2 * ht2'.size < L + 1
        BY <2>1, <4>1, <1>3, <1>4, <1>6, Tables
      <4> QED
        BY <2>1, <2>3, <4>2, <3>2, <1>1 DEF LoadSlack
    <3> QED
      BY <3>1, <3>2
  <2> QED
    BY <2>1, <2>2, <2>4, <1>2, <1>3, <1>6, Tables
<1> QED
  BY <1>7, <1>8

\* hm_insert keeps the invariant.
LEMMA InsertIInv ==
  ASSUME IInv, Insert
  PROVE  IInv'
<1>1. /\ pc' = "helpAfterInsert" /\ nwork' = 0
      /\ UNCHANGED <<op, key>> /\ reply' = Node({})
  BY DEF Insert
<1>2. TypeOK'
  BY <1>1, InsertTables, NodeType DEF IInv, TypeOK, WellFormed
<1> QED
  BY <1>1, <1>2, InsertTables DEF IInv

\* h_scan visits every chained key, because it is skipped only when empty.
LEMMA ScannedIsChained ==
  ASSUME NEW t, WellFormed(t)
  PROVE  Scanned(t) = Chained(t)
  BY SizeZero DEF Scanned

\* do_keys announces as many elements as it then writes.
LEMMA ScanReply ==
  ASSUME IInv, Scan
  PROVE  reply' = Node(Chained(ht1) \cup Chained(ht2))
<1>1. /\ Scanned(ht1) = Chained(ht1) /\ Scanned(ht2) = Chained(ht2)
  BY ScannedIsChained, Tables
<1>2. Cardinality(Chained(ht1) \cup Chained(ht2)) = hm_size
  <2>1. /\ IsFiniteSet(Chained(ht1)) /\ IsFiniteSet(Chained(ht2))
        /\ Cardinality(Chained(ht1) \cap Chained(ht2)) = 0
        /\ ht1.size = Cardinality(Chained(ht1))
        /\ ht2.size = Cardinality(Chained(ht2))
    BY FS_EmptySet, Tables DEF IInv, WellFormed
  <2>2. Cardinality(Chained(ht1) \cup Chained(ht2)) =
          Cardinality(Chained(ht1)) + Cardinality(Chained(ht2))
            - Cardinality(Chained(ht1) \cap Chained(ht2))
    BY <2>1, FS_Union
  <2> QED
    BY <2>1, <2>2, Tables DEF hm_size
<1> QED
  BY <1>1, <1>2 DEF Scan, Node

\* do_keys changes no table, and its reply has the right type.
LEMMA ScanIInv ==
  ASSUME IInv, Scan
  PROVE  IInv'
<1>1. /\ UNCHANGED <<ht1, ht2, resizing_pos, nwork, op, key>>
      /\ pc = "scan" /\ pc' = "done"
  BY DEF Scan, table
<1>2. TypeOK'
  <2>1. reply' \in [size : Nat, nodes : SUBSET Key]
    BY ScannedIsChained, Tables DEF Scan, hm_size
  <2> QED
    BY <1>1, <2>1 DEF IInv, TypeOK
<1>3. LoadSlack'
  BY <1>1 DEF IInv, LoadSlack
<1>4. Frontier'
  BY <1>1 DEF IInv, Frontier
<1> QED
  BY <1>1, <1>2, <1>3, <1>4, Tables DEF IInv

\* hm_destroy leaves the map as it was created.
LEMMA DestroyIInv ==
  ASSUME IInv, Destroy
  PROVE  IInv'
<1>1. /\ ht1' = NoTab /\ ht2' = NoTab /\ resizing_pos' = 0
      /\ pc' = "done" /\ reply' = Node({}) /\ UNCHANGED <<nwork, op, key>>
  BY DEF Destroy
<1>2. /\ WellFormed(NoTab) /\ Chained(NoTab) = {}
      /\ NoTab.cap = 0 /\ NoTab.size = 0
  BY InitTable DEF NoTab
<1>3. TypeOK'
  BY <1>1, <1>2, NodeType DEF IInv, TypeOK, WellFormed
<1> QED
  BY <1>1, <1>2, <1>3 DEF IInv, Frontier, LoadSlack

\* Returning to the caller changes no table.
LEMMA ReturnIInv ==
  ASSUME IInv, Return
  PROVE  IInv'
<1>1. /\ UNCHANGED <<ht1, ht2, resizing_pos, nwork, op, key, reply>>
      /\ pc = "done" /\ pc' = "idle"
  BY DEF Return, table
<1>2. TypeOK' /\ LoadSlack' /\ Frontier'
  BY <1>1 DEF IInv, TypeOK, LoadSlack, Frontier
<1> QED
  BY <1>1, <1>2, Tables DEF IInv

\* Every step of the map keeps the invariant.
LEMMA NextIInv == IInv /\ [Next]_vars => IInv'
<1> SUFFICES ASSUME IInv, [Next]_vars PROVE IInv'
  OBVIOUS
<1>1. CASE \E o \in Op, k \in Key : Call(o, k)
  BY <1>1, CallIInv
<1>2. CASE HelpSkip
  BY <1>2, HelpSkipIInv
<1>3. CASE HelpMove
  BY <1>3, HelpMoveIInv
<1>4. CASE HelpDone
  BY <1>4, HelpDoneIInv
<1>5. CASE SearchLookup
  BY <1>5, SearchLookupIInv
<1>6. CASE SearchPop
  BY <1>6, SearchPopIInv
<1>7. CASE Insert
  BY <1>7, InsertIInv
<1>8. CASE Scan
  BY <1>8, ScanIInv
<1>9. CASE Destroy
  BY <1>9, DestroyIInv
<1>10. CASE Return
  BY <1>10, ReturnIInv
<1>11. CASE UNCHANGED vars
  <2>1. UNCHANGED <<ht1, ht2, resizing_pos, pc, nwork, op, key, reply>>
    BY <1>11 DEF vars
  <2>2. TypeOK' /\ LoadSlack' /\ Frontier'
    BY <2>1 DEF IInv, TypeOK, LoadSlack, Frontier
  <2> QED
    BY <2>1, <2>2, Tables DEF IInv
<1> QED
  BY <1>1, <1>2, <1>3, <1>4, <1>5, <1>6, <1>7, <1>8, <1>9, <1>10, <1>11
     DEF Next, Step

\* The invariant is an invariant: at every step of every operation both
\* tables are well formed, and the migration between them is consistent.
THEOREM IInvHolds == SafeSpec => []IInv
  BY InitIInv, NextIInv, PTL DEF SafeSpec

\* The variables keep their types.
THEOREM TypeCorrect == SafeSpec => []TypeOK
<1>1. IInv => TypeOK
  BY DEF IInv
<1> QED
  BY <1>1, IInvHolds, PTL

\* The loop of hm_help_resizing never reads past the older bucket array.
THEOREM CursorStaysInBounds == SafeSpec => []CursorInBounds
<1>1. IInv => CursorInBounds
  BY CursorHasWork, Tables DEF CursorInBounds, Helping
<1> QED
  BY <1>1, IInvHolds, PTL

\* The size fields count the chained nodes.
THEOREM SizesAreExact == SafeSpec => []SizesExact
<1>1. IInv => SizesExact
  BY DEF IInv, WellFormed, SizesExact
<1> QED
  BY <1>1, IInvHolds, PTL

\* Each stored key is found in exactly one of the two tables.
THEOREM KeysFoundOnce == SafeSpec => []FoundOnce
<1>1. IInv => FoundOnce
  BY FoundIffChained, Tables DEF FoundOnce, IInv
<1> QED
  BY <1>1, IInvHolds, PTL

\* Migration keeps up: the load stays bounded although it is not checked
\* while nodes are being moved.
THEOREM LoadStaysBounded == SafeSpec => []LoadBounded
<1>1. ASSUME IInv PROVE LoadBounded
  <2> SUFFICES ASSUME pc = "idle", ht1.cap # 0
               PROVE  IF ht2.cap = 0
                        THEN ht1.size < (MaxLoad + 1) * ht1.cap
                        ELSE ht1.size + 2 * ht2.size < (MaxLoad + 1) * ht1.cap
    BY DEF LoadBounded
  <2> DEFINE L == (MaxLoad + 1) * ht1.cap
  <2>1. L \in Nat
    BY <1>1, Tables
  <2>2. IF ht2.size = 0 THEN ht1.size < L ELSE ht1.size + 2 * ht2.size < L + 0
    BY <1>1 DEF IInv, LoadSlack
  <2>3. ht2.cap = 0 => ht2.size = 0
    <3>1. ht2.cap = 0 => Chained(ht2) = {}
      BY <1>1, Tables DEF Chained
    <3> QED
      BY <1>1, <3>1, SizeZero, Tables
  <2> HIDE DEF L
  <2>4. IF ht2.cap = 0 THEN ht1.size < L ELSE ht1.size + 2 * ht2.size < L
    BY <1>1, <2>1, <2>2, <2>3, Tables
  <2> QED
    BY <2>4 DEF L
<1> QED
  BY <1>1, IInvHolds, PTL

\* KEYS announces exactly the elements it writes.
THEOREM AnnouncementsExact == SafeSpec => []AnnouncedExact
<1>1. Init => AnnouncedExact
  BY DEF Init, AnnouncedExact, Node
<1>2. IInv /\ AnnouncedExact /\ [Next]_vars => AnnouncedExact'
  <2> SUFFICES ASSUME IInv, AnnouncedExact, [Next]_vars PROVE AnnouncedExact'
    OBVIOUS
  <2>1. ASSUME NEW S, reply' = Node(S) PROVE AnnouncedExact'
    BY <2>1 DEF AnnouncedExact, Node
  <2>2. ASSUME UNCHANGED reply PROVE AnnouncedExact'
    BY <2>2 DEF AnnouncedExact
  <2>3. CASE Scan
    BY <2>3, <2>1, ScanReply
  <2>4. CASE SearchLookup \/ SearchPop \/ Insert \/ Destroy
    BY <2>4, <2>1, <2>2 DEF SearchLookup, SearchPop, Insert, Destroy
  <2>5. CASE \E o \in Op, k \in Key : Call(o, k)
    BY <2>5, <2>2 DEF Call
  <2>6. CASE HelpSkip \/ HelpMove \/ HelpDone \/ Return \/ UNCHANGED vars
    BY <2>6, <2>2 DEF HelpSkip, HelpMove, HelpDone, Return, vars
  <2> QED
    BY <2>3, <2>4, <2>5, <2>6 DEF Next, Step
<1> QED
  BY <1>1, <1>2, IInvHolds, PTL DEF SafeSpec

\* The initial map is the empty set.
LEMMA RefinesInit == Init => Abs!Init
<1> SUFFICES ASSUME Init PROVE Abs!Init
  OBVIOUS
<1>1. Chained(NoTab) = {}
  BY InitTable DEF NoTab
<1> QED
  BY <1>1 DEF Init, Abs!Init, AbsPhase, Node, Op, Abs!Op

\* Each step of the map is a step of the set, or leaves it unchanged.
LEMMA RefinesNext == IInv /\ [Next]_vars => [Abs!Next]_(Abs!vars)
<1> DEFINE Keys == Chained(ht1) \cup Chained(ht2)
<1> SUFFICES ASSUME IInv, [Next]_vars PROVE [Abs!Next]_(Abs!vars)
  OBVIOUS
<1>1. ASSUME NEW o \in Op, NEW k \in Key, Call(o, k)
      PROVE Abs!Next
  <2>1. Abs!Call(o, k)
    BY <1>1 DEF Call, Entry, table, Abs!Call, AbsPhase
  <2> QED
    BY <2>1, <1>1 DEF Abs!Next, Op, Abs!Op
<1>2. CASE HelpSkip
  BY <1>2 DEF HelpSkip, Abs!vars, AbsPhase
<1>3. CASE HelpMove
  <2>1. Keys' = Keys
    BY <1>3, HelpMoveTables
  <2> QED
    BY <1>3, <2>1 DEF HelpMove, Abs!vars, AbsPhase
<1>4. CASE HelpDone
  <2>1. Chained(NoTab) = {}
    BY InitTable DEF NoTab
  <2>2. Keys' = Keys
    BY <1>4, <2>1, SizeZero, Tables DEF HelpDone
  <2> QED
    BY <1>4, <2>2 DEF HelpDone, Abs!vars, AbsPhase
<1>5. key \in Key /\ (Found(ht1, key) \/ Found(ht2, key) <=> key \in Keys)
  BY FoundIffChained, Tables DEF IInv, TypeOK
<1>6. CASE SearchLookup
  <2>1. Keys' = Keys /\ UNCHANGED <<op, key>>
    BY <1>6 DEF SearchLookup, table
  <2>2. CASE key \in Keys
    <3>1. reply' = Node(Keys \cap {key}) /\ pc = "search" /\ pc' = "done"
          /\ op \in {"lookup", "upsert"}
      BY <1>5, <1>6, <2>2 DEF SearchLookup
    <3> QED
      BY <2>1, <2>2, <3>1
         DEF Abs!Next, Abs!Effect, Abs!Lookup, Abs!Upsert, Node, AbsPhase
  <2>3. CASE key \notin Keys /\ op = "lookup"
    <3>1. reply' = Node(Keys \cap {key}) /\ pc = "search" /\ pc' = "done"
      BY <1>5, <1>6, <2>3 DEF SearchLookup
    <3> QED
      BY <2>1, <2>3, <3>1
         DEF Abs!Next, Abs!Effect, Abs!Lookup, Node, AbsPhase
  <2>4. CASE key \notin Keys /\ op = "upsert"
    <3>1. UNCHANGED reply /\ pc = "search" /\ pc' = "insert"
      BY <1>5, <1>6, <2>4 DEF SearchLookup
    <3> QED
      BY <2>1, <3>1 DEF Abs!vars, AbsPhase
  <2> QED
    BY <1>6, <2>2, <2>3, <2>4 DEF SearchLookup
<1>7. CASE SearchPop
  <2>1. Keys' = Keys \ {key} /\ reply' = Node(Keys \cap {key})
    BY <1>7, SearchPopTables
  <2> QED
    BY <1>7, <2>1
       DEF SearchPop, Abs!Next, Abs!Effect, Abs!Pop, Node, AbsPhase
<1>8. CASE Insert
  <2>1. Keys' = Keys \cup {key} /\ Keys \cap {key} = {} /\ op = "upsert"
    BY <1>8, InsertTables DEF IInv, Insert
  <2>2. /\ pc = "insert" /\ pc' = "helpAfterInsert"
        /\ reply' = Node({}) /\ UNCHANGED <<op, key>>
    BY <1>8 DEF Insert
  <2> QED
    BY <2>1, <2>2
       DEF Abs!Next, Abs!Effect, Abs!Upsert, Node, AbsPhase
<1>9. CASE Scan
  <2>1. reply' = Node(Keys)
    BY <1>9, ScanReply
  <2>2. op = "scan"
    BY <1>9 DEF Scan, IInv
  <2>3. Keys' = Keys /\ pc = "scan" /\ pc' = "done" /\ UNCHANGED <<op, key>>
    BY <1>9 DEF Scan, table
  <2> QED
    BY <2>1, <2>2, <2>3
       DEF Abs!Next, Abs!Effect, Abs!Scan, Node, AbsPhase
<1>10. CASE Destroy
  <2>1. Chained(NoTab) = {}
    BY InitTable DEF NoTab
  <2>2. op = "destroy"
    BY <1>10 DEF Destroy, IInv
  <2> QED
    BY <1>10, <2>1, <2>2
       DEF Destroy, Abs!Next, Abs!Effect, Abs!Destroy, Node, AbsPhase
<1>11. CASE Return
  BY <1>11 DEF Return, table, Abs!Next, Abs!Return, AbsPhase
<1>12. CASE UNCHANGED vars
  BY <1>12 DEF vars, Abs!vars, AbsPhase
<1> QED
  BY <1>1, <1>2, <1>3, <1>4, <1>6, <1>7, <1>8, <1>9, <1>10, <1>11, <1>12
     DEF Next, Step

\* The two-table map implements the set of keys: every answer it gives is
\* the answer of a set changed at one instant per operation.
THEOREM ImplementsSet == SafeSpec => ImplementsKeySetSafely
<1>1. SafeSpec => []IInv
  BY IInvHolds
<1> QED
  BY <1>1, RefinesInit, RefinesNext, PTL
     DEF SafeSpec, ImplementsKeySetSafely, Abs!SafeSpec
=============================================================================
