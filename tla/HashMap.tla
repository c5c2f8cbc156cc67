------------------------------ MODULE HashMap -------------------------------
(***************************************************************************)
(* The chained hash map of src/hashtable.cpp: two tables, and the keys of  *)
(* the older one moved to the newer one a few at a time by whatever        *)
(* operation comes next.                                                   *)
(*                                                                         *)
(* Data.  An HTab is a record: cap is mask+1, or 0 when tab is NULL; a     *)
(* bucket is the set of the keys in its chain, the order of a chain being  *)
(* left out (moving the first node of a chain is moving any one of it).    *)
(* A node is its key, and hcode & mask is Hash[k] % cap: cap is a power of *)
(* two in the code.                                                        *)
(*                                                                         *)
(* Control.  One caller (the server is single-threaded) runs one operation *)
(* at a time; the loop of hm_help_resizing is one step per iteration.      *)
(* "upsert" is what do_set and zset_add do: hm_lookup, then hm_insert of a *)
(* new node if there was none.                                             *)
(***************************************************************************)
EXTENDS Integers, FiniteSets

CONSTANTS
  Key,            \* the keys callers use
  Hash,           \* Hash[k] is str_hash of k
  InitCap,        \* 4 in the code: hm_insert's h_init
  MaxLoad,        \* 8 in the code: k_max_load_factor
  ResizingWork    \* 128 in the code: k_resizing_work

ASSUME HashMapAssumption ==
  /\ Hash \in [Key -> Nat]
  /\ InitCap \in Nat \ {0}
  /\ MaxLoad \in Nat
  /\ ResizingWork \in Nat \ {0}

VARIABLES
  ht1,            \* the newer table
  ht2,            \* the older table, being emptied
  resizing_pos,   \* the bucket of ht2 the migration has reached
  pc,             \* the step the running operation is at
  nwork,          \* the nodes moved by this call of hm_help_resizing
  op, key,        \* the running operation and its argument
  reply           \* what the last operation returned

vars == <<ht1, ht2, resizing_pos, pc, nwork, op, key, reply>>
table == <<ht1, ht2, resizing_pos>>

Op == {"lookup", "upsert", "pop", "scan", "destroy"}
PC == {"idle", "help", "search", "insert", "helpAfterInsert", "scan",
       "destroy", "done"}

\* h_init; HTab(), a table without a bucket array, is NoTab.
h_init(n) == [cap |-> n, tab |-> [i \in 0 .. n-1 |-> {}], size |-> 0]

NoTab == h_init(0)

IsHTab(t) ==
  /\ t = [cap |-> t.cap, tab |-> t.tab, size |-> t.size]
  /\ t.cap \in Nat /\ t.size \in Nat
  /\ t.tab \in [0 .. t.cap - 1 -> SUBSET Key]

\* hcode & mask.
Pos(t, k) == Hash[k] % t.cap

\* Mutant: size++ forgotten.
Mut_h_insert(t, k) == [t EXCEPT !.tab[Pos(t, k)] = @ \cup {k}]

h_insert(t, k) ==
  [cap  |-> t.cap,
   tab  |-> [t.tab EXCEPT ![Pos(t, k)] = @ \cup {k}],
   size |-> t.size + 1]

\* h_lookup finds a node: the table exists and the key is in its bucket.
Found(t, k) == t.cap # 0 /\ k \in t.tab[Pos(t, k)]

\* Mutant: size-- forgotten.
Mut_h_detach(t, pos, k) == [t EXCEPT !.tab[pos] = @ \ {k}]

\* h_detach, with "from" an address in the chain of bucket pos.
h_detach(t, pos, k) ==
  [cap  |-> t.cap,
   tab  |-> [t.tab EXCEPT ![pos] = @ \ {k}],
   size |-> t.size - 1]

\* Mutant: a migration is not counted.
Mut_hm_size == ht1.size

\* The nodes of both tables.
hm_size == ht1.size + ht2.size

\* Every key in some chain of t, as h_scan visits them.
Chained(t) == UNION {t.tab[i] : i \in 0 .. t.cap - 1}

\* h_scan returns at once on a table whose size says it is empty.
Scanned(t) == IF t.size = 0 THEN {} ELSE Chained(t)

Node(S) == [size |-> Cardinality(S), nodes |-> S]
-----------------------------------------------------------------------------
Init ==
  /\ ht1 = NoTab /\ ht2 = NoTab /\ resizing_pos = 0
  /\ pc = "idle" /\ nwork = 0
  /\ op \in Op /\ key \in Key
  /\ reply = Node({})

\* hm_lookup and hm_pop begin with hm_help_resizing; do_keys and hm_destroy
\* do not touch the migration.
Entry(o) ==
  IF o \in {"scan", "destroy"} THEN o ELSE "help"

Call(o, k) ==
  /\ pc = "idle"
  /\ op' = o /\ key' = k
  /\ pc' = Entry(o)
  /\ nwork' = 0
  /\ UNCHANGED <<table, reply>>

\* The loop condition of hm_help_resizing.
Helping ==
  /\ pc \in {"help", "helpAfterInsert"}
  /\ nwork < ResizingWork
  /\ ht2.size > 0

\* Mutant: the cursor is not advanced past an empty bucket.
Mut_HelpSkip ==
  Helping /\ ht2.tab[resizing_pos] = {} /\ UNCHANGED vars

\* An empty bucket: resizing_pos++, continue.
HelpSkip ==
  /\ Helping
  /\ ht2.tab[resizing_pos] = {}
  /\ resizing_pos' = resizing_pos + 1
  /\ UNCHANGED <<ht1, ht2, pc, nwork, op, key, reply>>

\* Detach a node of the bucket from ht2 and insert it into ht1.
HelpMove ==
  /\ Helping
  /\ \E k \in ht2.tab[resizing_pos] :
       /\ ht2' = h_detach(ht2, resizing_pos, k)
       /\ ht1' = h_insert(ht1, k)
  /\ nwork' = nwork + 1
  /\ UNCHANGED <<resizing_pos, pc, op, key, reply>>

\* Mutant: the emptied ht2 is not freed.
Mut_HelpDone ==
  /\ pc \in {"help", "helpAfterInsert"}
  /\ ~ Helping
  /\ pc' = IF pc = "help" THEN "search" ELSE "done"
  /\ UNCHANGED <<table, nwork, op, key, reply>>

\* The loop is over; an emptied ht2 is freed.
HelpDone ==
  /\ pc \in {"help", "helpAfterInsert"}
  /\ ~ Helping
  /\ ht2' = IF ht2.size = 0 THEN NoTab ELSE ht2
  /\ pc' = IF pc = "help" THEN "search" ELSE "done"
  /\ UNCHANGED <<ht1, resizing_pos, nwork, op, key, reply>>

\* Mutant: hm_lookup forgets the older table.
Mut_SearchLookup ==
  /\ pc = "search" /\ op \in {"lookup", "upsert"}
  /\ \/ Found(ht1, key) /\ reply' = Node({key}) /\ pc' = "done"
     \/ ~ Found(ht1, key) /\ op = "lookup" /\ reply' = Node({}) /\ pc' = "done"
     \/ ~ Found(ht1, key) /\ op = "upsert" /\ pc' = "insert" /\ UNCHANGED reply
  /\ UNCHANGED <<table, nwork, op, key>>

\* hm_lookup after helping.  do_set goes on to insert what it did not find.
SearchLookup ==
  /\ pc = "search" /\ op \in {"lookup", "upsert"}
  /\ \/ /\ Found(ht1, key) \/ Found(ht2, key)
        /\ reply' = Node({key}) /\ pc' = "done"
     \/ /\ ~ Found(ht1, key) /\ ~ Found(ht2, key)
        /\ op = "lookup"
        /\ reply' = Node({}) /\ pc' = "done"
     \/ /\ ~ Found(ht1, key) /\ ~ Found(ht2, key)
        /\ op = "upsert"
        /\ pc' = "insert" /\ UNCHANGED reply
  /\ UNCHANGED <<table, nwork, op, key>>

\* hm_pop after helping: ht1 first, then ht2.
SearchPop ==
  /\ pc = "search" /\ op = "pop"
  /\ pc' = "done"
  /\ \/ /\ Found(ht1, key)
        /\ ht1' = h_detach(ht1, Pos(ht1, key), key)
        /\ reply' = Node({key})
        /\ UNCHANGED ht2
     \/ /\ ~ Found(ht1, key) /\ Found(ht2, key)
        /\ ht2' = h_detach(ht2, Pos(ht2, key), key)
        /\ reply' = Node({key})
        /\ UNCHANGED ht1
     \/ /\ ~ Found(ht1, key) /\ ~ Found(ht2, key)
        /\ reply' = Node({})
        /\ UNCHANGED <<ht1, ht2>>
  /\ UNCHANGED <<resizing_pos, nwork, op, key>>

\* Mutant: the load is checked before the new node is counted.
Mut_Overloaded(t) == (t.size - 1) \div t.cap > MaxLoad

\* hm_insert's load check: size / (mask+1) > k_max_load_factor, integer division.
Overloaded(t) == t.size \div t.cap > MaxLoad

\* Mutant: hm_start_resizing does not reset resizing_pos.
Mut_Insert ==
  LET t == h_insert(IF ht1.cap = 0 THEN h_init(InitCap) ELSE ht1, key)
  IN /\ pc = "insert"
     /\ IF ht2.cap = 0 /\ Overloaded(t)
          THEN ht2' = t /\ ht1' = h_init(t.cap * 2)
          ELSE ht1' = t /\ UNCHANGED ht2
     /\ pc' = "helpAfterInsert" /\ nwork' = 0
     /\ reply' = Node({})
     /\ UNCHANGED <<resizing_pos, op, key>>

\* hm_insert of a new node, up to its call of hm_help_resizing: the first
\* insertion creates ht1; without a migration the load factor is checked,
\* and hm_start_resizing makes ht1 the older table of a new migration.
Insert ==
  LET base == IF ht1.cap = 0 THEN h_init(InitCap) ELSE ht1
      t    == h_insert(base, key)
  IN /\ pc = "insert"
     /\ IF ht2.cap = 0 /\ Overloaded(t)
          THEN ht2' = t /\ ht1' = h_init(t.cap * 2) /\ resizing_pos' = 0
          ELSE ht1' = t /\ UNCHANGED <<ht2, resizing_pos>>
     /\ pc' = "helpAfterInsert" /\ nwork' = 0
     /\ reply' = Node({})
     /\ UNCHANGED <<op, key>>

\* do_keys: the count is hm_size, the elements come from scanning both tables.
Scan ==
  /\ pc = "scan"
  /\ reply' = [size |-> hm_size, nodes |-> Scanned(ht1) \cup Scanned(ht2)]
  /\ pc' = "done"
  /\ UNCHANGED <<table, nwork, op, key>>

\* hm_destroy frees both bucket arrays and resets the map.
Destroy ==
  /\ pc = "destroy"
  /\ ht1' = NoTab /\ ht2' = NoTab /\ resizing_pos' = 0
  /\ reply' = Node({})
  /\ pc' = "done"
  /\ UNCHANGED <<nwork, op, key>>

Return ==
  /\ pc = "done"
  /\ pc' = "idle"
  /\ UNCHANGED <<table, nwork, op, key, reply>>

Step ==
  \/ HelpSkip \/ HelpMove \/ HelpDone
  \/ SearchLookup \/ SearchPop \/ Insert \/ Scan \/ Destroy
  \/ Return

Next ==
  \/ \E o \in Op, k \in Key : Call(o, k)
  \/ Step

SafeSpec == Init /\ [][Next]_vars

\* The caller may stop calling; a call that began is run by the CPU.
Spec == SafeSpec /\ WF_vars(Step)
-----------------------------------------------------------------------------
\* The type of each variable; the cursor and the counter are unbounded
\* naturals here, their bounds are properties below.
TypeOK ==
  /\ IsHTab(ht1) /\ IsHTab(ht2)
  /\ resizing_pos \in Nat
  /\ pc \in PC /\ nwork \in Nat
  /\ op \in Op /\ key \in Key
  /\ reply \in [size : Nat, nodes : SUBSET Key]

\* hm_help_resizing never reads ht2.tab past its end: while ht2.size says
\* that a node is left, the cursor is at a bucket of ht2 (hashtable.cpp:83).
CursorInBounds == Helping => resizing_pos < ht2.cap

\* The size fields, which decide when a migration ends and what KEYS
\* announces, count the nodes that are chained (hashtable.cpp:28,61).
SizesExact ==
  /\ ht1.size = Cardinality(Chained(ht1))
  /\ ht2.size = Cardinality(Chained(ht2))

\* At any point of a migration each stored key is found by h_lookup in
\* one table and one only: no step loses a key behind a stale bucket, and
\* none leaves a copy that a later hm_pop would miss.
FoundOnce ==
  \A k \in Chained(ht1) \cup Chained(ht2) : Found(ht1, k) # Found(ht2, k)

\* KEYS announces hm_size elements and then writes one per node its scans
\* meet: the client reads as many as were announced (server.cpp:464-466).
AnnouncedExact == reply.size = Cardinality(reply.nodes)

\* Incremental migration keeps up with insertion: whenever no operation
\* is running and none is migrating, the newer table is within its load,
\* although hm_insert never checks the load during a migration; and while
\* one is going on, moving what is left, one node per insertion, would
\* still not fill the doubled table (hashtable.cpp:110-117).
LoadBounded ==
  pc = "idle" /\ ht1.cap # 0 =>
    IF ht2.cap = 0
      THEN ht1.size < (MaxLoad + 1) * ht1.cap
      ELSE ht1.size + 2 * ht2.size < (MaxLoad + 1) * ht1.cap

\* A table whose chains and size field agree with each other.
WellFormed(t) ==
  /\ IsHTab(t)
  /\ \A i \in 0 .. t.cap - 1 : \A k \in t.tab[i] : Pos(t, k) = i
  /\ IsFiniteSet(Chained(t))
  /\ t.size = Cardinality(Chained(t))

\* Buckets the cursor has passed are empty.
Frontier == \A i \in 0 .. ht2.cap - 1 : i < resizing_pos => ht2.tab[i] = {}

\* What bounds the load at each step of an operation: the last insertion
\* may have used up the slack that its own hm_help_resizing gives back.
LoadSlack ==
  ht1.cap # 0 =>
    IF ht2.size = 0
      THEN ht1.size < (MaxLoad + 1) * ht1.cap
      ELSE ht1.size + 2 * ht2.size <
             (MaxLoad + 1) * ht1.cap
               + (IF pc = "helpAfterInsert" /\ nwork = 0 THEN 1 ELSE 0)

\* The inductive invariant: both tables are well formed and share no key,
\* the cursor is a frontier of the migration, the newer table exists if
\* the older one does, an emptied older table is freed before a search,
\* and a key about to be inserted is in neither table.
IInv ==
  /\ TypeOK
  /\ WellFormed(ht1) /\ WellFormed(ht2)
  /\ Chained(ht1) \cap Chained(ht2) = {}
  /\ Frontier
  /\ ht1.cap = 0 => ht2.cap = 0
  /\ pc \in {"search", "insert"} /\ ht2.size = 0 => ht2.cap = 0
  /\ pc \in {"help", "search"} => op \in {"lookup", "upsert", "pop"}
  /\ pc \in {"scan", "destroy"} => op = pc
  /\ pc = "insert" => op = "upsert" /\ key \notin Chained(ht1) \cup Chained(ht2)
  /\ LoadSlack

\* The hash map is a set of keys, whatever migration is in progress: the
\* answers of hm_lookup, hm_pop and do_keys are those of a set changed at
\* one instant per operation, and every operation returns.
AbsPhase ==
  IF pc = "idle" THEN "idle"
  ELSE IF pc \in {"helpAfterInsert", "done"} THEN "done" ELSE "called"

Abs == INSTANCE KeySet WITH
         keys  <- Chained(ht1) \cup Chained(ht2),
         phase <- AbsPhase,
         reply <- reply.nodes

\* The refinement the proofs use: safety only.
ImplementsKeySetSafely == Abs!SafeSpec

\* The refinement the runs check: a call also takes effect and returns,
\* because the loop of hm_help_resizing ends.
ImplementsKeySet == Abs!Spec
=============================================================================
