--------------------------- MODULE KeyspaceProofs ----------------------------
(***************************************************************************)
(* Proofs about Keyspace: every command leaves the entries well typed, and *)
(* each ZSet with the one entry that owns it, and has a reply.             *)
(***************************************************************************)
EXTENDS Keyspace, FiniteSetTheorems, SequenceLemmas, TLAPS

DataInv == DataOK /\ ZSetsOwned

Command == Seq(Seq(Nat))

\* The arguments of a command are strings.
LEMMA Arguments ==
  ASSUME NEW cmd \in Command
  PROVE  \A i \in 1 .. Len(cmd) : cmd[i] \in Seq(Nat)
  BY DEF Command

\* A command that changes no data.
LEMMA SameData ==
  ASSUME DataInv, UNCHANGED data
  PROVE  DataInv'
  BY DEF DataInv, DataOK, ZSetsOwned, data

LEMMA InitData == DataInit => DataInv
<1> SUFFICES ASSUME DataInit PROVE DataInv
  OBVIOUS
<1>1. DOMAIN db = {} /\ DOMAIN zsets = {} /\ db = [k \in {} |-> NULL]
  BY DEF DataInit
<1>2. db \in [DOMAIN db -> Entry]
  BY <1>1
<1> QED
  BY <1>1, <1>2 DEF DataInv, DataOK, ZSetsOwned

LEMMA SetData ==
  ASSUME DataInv, NEW cmd \in Command, Is(cmd, 3, "set"), do_set(cmd)
  PROVE  DataInv'
<1> DEFINE key == cmd[2]
           entry == [type |-> "str", val |-> cmd[3], zset |-> NULL]
<1>1. key \in Seq(Nat) /\ cmd[3] \in Seq(Nat) /\ UNCHANGED zsets
  BY Arguments DEF Is, do_set
<1>2. entry \in Entry
  BY <1>1 DEF Entry
<1>3. CASE key \in DOMAIN db
  <2>1. db' = [db EXCEPT ![key].val = Moved]
    BY <1>3 DEF do_set
  <2>2. Moved \in Seq(Nat) /\ db \in [DOMAIN db -> Entry]
    BY DEF Moved, DataInv, DataOK
  <2>3. DOMAIN db' = DOMAIN db /\ db' \in [DOMAIN db' -> Entry]
    BY <2>1, <2>2 DEF Entry
  <2>4. \A k \in DOMAIN db : db'[k].type = db[k].type /\ db'[k].zset = db[k].zset
    BY <2>1, <2>2 DEF Entry
  <2> QED
    BY <1>1, <2>3, <2>4 DEF DataInv, DataOK, ZSetsOwned
<1>4. CASE key \notin DOMAIN db
  <2>1. db' = With(db, key, entry)
    BY <1>4 DEF do_set
  <2>2. /\ DOMAIN db' = DOMAIN db \cup {key} /\ db'[key] = entry
        /\ \A k \in DOMAIN db : db'[k] = db[k]
        /\ db' = [k \in DOMAIN db' |-> db'[k]]
    BY <1>4, <2>1 DEF With
  <2>3. db' \in [DOMAIN db' -> Entry]
    BY <1>2, <2>2 DEF DataInv, DataOK
  <2> QED
    BY <1>1, <2>2, <2>3 DEF DataInv, DataOK, ZSetsOwned
<1> QED
  BY <1>3, <1>4

LEMMA DelData ==
  ASSUME DataInv, NEW cmd, do_del(cmd)
  PROVE  DataInv'
<1>1. db' = Without(db, cmd[2]) /\ UNCHANGED zsets
  BY DEF do_del
<1>2. /\ DOMAIN db' = DOMAIN db \ {cmd[2]} /\ db' = [k \in DOMAIN db' |-> db'[k]]
      /\ \A k \in DOMAIN db' : db'[k] = db[k]
  BY <1>1 DEF Without
<1>3. db' \in [DOMAIN db' -> Entry]
  BY <1>2 DEF DataInv, DataOK
<1> QED
  BY <1>1, <1>2, <1>3 DEF DataInv, DataOK, ZSetsOwned

\* A ZSet gets another content: the entries stay as they are.
LEMMA MembersData ==
  ASSUME DataInv, NEW z \in DOMAIN zsets, NEW members,
         members \in [DOMAIN members -> Int], DOMAIN members \subseteq Seq(Nat),
         zsets' = [zsets EXCEPT ![z] = members], UNCHANGED db
  PROVE  DataInv'
<1>1. DOMAIN zsets' = DOMAIN zsets
  OBVIOUS
<1>2. \A y \in DOMAIN zsets : zsets'[y] = IF y = z THEN members ELSE zsets[y]
  OBVIOUS
<1>3. \A y \in DOMAIN zsets' :
        zsets'[y] \in [DOMAIN zsets'[y] -> Int] /\ DOMAIN zsets'[y] \subseteq Seq(Nat)
  BY <1>1, <1>2 DEF DataInv, DataOK
<1> QED
  BY <1>1, <1>3 DEF DataInv, DataOK, ZSetsOwned

\* The ZSet of a key that has one is allocated, and its members are typed.
LEMMA ZSetOf ==
  ASSUME DataInv, NEW key, ZSetAt(key)
  PROVE  /\ db[key].zset \in DOMAIN zsets
         /\ zsets[db[key].zset] \in [DOMAIN zsets[db[key].zset] -> Int]
         /\ DOMAIN zsets[db[key].zset] \subseteq Seq(Nat)
  BY DEF DataInv, DataOK, ZSetsOwned, ZSetAt

LEMMA WithMembers ==
  ASSUME NEW m, m \in [DOMAIN m -> Int], DOMAIN m \subseteq Seq(Nat),
         NEW name \in Seq(Nat), NEW score \in Int
  PROVE  /\ With(m, name, score) \in [DOMAIN With(m, name, score) -> Int]
         /\ DOMAIN With(m, name, score) \subseteq Seq(Nat)
  BY DEF With

LEMMA WithoutMembers ==
  ASSUME NEW m, m \in [DOMAIN m -> Int], DOMAIN m \subseteq Seq(Nat), NEW name
  PROVE  /\ Without(m, name) \in [DOMAIN Without(m, name) -> Int]
         /\ DOMAIN Without(m, name) \subseteq Seq(Nat)
  BY DEF Without

LEMMA ZAddData ==
  ASSUME DataInv, NEW cmd \in Command, Is(cmd, 4, "zadd"), do_zadd(cmd)
  PROVE  DataInv'
<1> DEFINE key == cmd[2]
           score == Dbl[cmd[3]]
           name == cmd[4]
<1>1. key \in Seq(Nat) /\ name \in Seq(Nat)
  <2>1. 2 \in 1 .. Len(cmd) /\ 4 \in 1 .. Len(cmd)
    BY DEF Is
  <2> QED
    BY <2>1, Arguments
<1>2. cmd[3] \in DOMAIN Dbl => score \in Int
  BY KeyspaceAssumption
<1>3. CASE UNCHANGED data
  BY <1>3, SameData
<1>4. CASE /\ cmd[3] \in DOMAIN Dbl /\ ZSetAt(key)
           /\ zset_add(db[key].zset, name, score) /\ UNCHANGED db
  <2> DEFINE z == db[key].zset
  <2>1. zsets' = [zsets EXCEPT ![z] = With(zsets[z], name, score)]
    BY <1>4 DEF zset_add
  <2> QED
    BY <1>1, <1>2, <1>4, <2>1, ZSetOf, WithMembers, MembersData
<1>5. ASSUME cmd[3] \in DOMAIN Dbl, key \notin DOMAIN db,
             NEW z \in ZSetObj \ DOMAIN zsets,
             zsets' = With(zsets, z, [n \in {name} |-> score]),
             db' = With(db, key, [type |-> "zset", val |-> <<>>, zset |-> z])
      PROVE  DataInv'
  <2> DEFINE entry == [type |-> "zset", val |-> <<>>, zset |-> z]
             members == [n \in {name} |-> score]
  <2>1. /\ DOMAIN db' = DOMAIN db \cup {key} /\ db'[key] = entry
        /\ \A k \in DOMAIN db : db'[k] = db[k]
        /\ db' = [k \in DOMAIN db' |-> db'[k]]
    BY <1>5 DEF With
  <2>2. /\ DOMAIN zsets' = DOMAIN zsets \cup {z} /\ zsets'[z] = members
        /\ \A y \in DOMAIN zsets : zsets'[y] = zsets[y]
    BY <1>5 DEF With
  <2>3. members \in [DOMAIN members -> Int] /\ DOMAIN members \subseteq Seq(Nat)
    BY <1>1, <1>2, <1>5
  <2>4. z # NULL /\ entry \in Entry /\ entry.type = "zset" /\ entry.zset = z
    BY KeyspaceAssumption DEF Entry
  <2> HIDE DEF members, entry
  <2>5. DataOK'
    <3>1. db' \in [DOMAIN db' -> Entry]
      BY <2>1, <2>4 DEF DataInv, DataOK
    <3>2. \A y \in DOMAIN zsets' :
            zsets'[y] \in [DOMAIN zsets'[y] -> Int] /\ DOMAIN zsets'[y] \subseteq Seq(Nat)
      BY <2>2, <2>3 DEF DataInv, DataOK
    <3> QED
      BY <1>1, <2>1, <2>2, <3>1, <3>2 DEF DataInv, DataOK
  <2>6. \A k \in DOMAIN db : db[k].zset # z
    BY <2>4 DEF DataInv, ZSetsOwned
  <2>7. ZSetsOwned'
    BY <2>1, <2>2, <2>4, <2>6 DEF DataInv, ZSetsOwned
  <2> QED
    BY <2>5, <2>7 DEF DataInv
<1> QED
  BY <1>3, <1>4, <1>5 DEF do_zadd, Reply, ZSetAt

LEMMA ZRemData ==
  ASSUME DataInv, NEW cmd \in Command, Is(cmd, 3, "zrem"), do_zrem(cmd)
  PROVE  DataInv'
<1> DEFINE z == db[cmd[2]].zset
<1>1. CASE UNCHANGED data
  BY <1>1, SameData
<1>2. CASE ZSetAt(cmd[2]) /\ zsets' = [zsets EXCEPT ![z] = Without(zsets[z], cmd[3])] /\ UNCHANGED db
  BY <1>2, ZSetOf, WithoutMembers, MembersData
<1> QED
  BY <1>1, <1>2 DEF do_zrem, NoZSet, Reply

\* Every command preserves the invariant, whatever its arguments.
LEMMA RequestData ==
  ASSUME DataInv, NEW cmd \in Command, do_request(cmd)
  PROVE  DataInv'
<1>1. CASE \/ do_keys(cmd) \/ do_get(cmd) \/ do_zscore(cmd) \/ do_zquery(cmd)
           \/ Reply(out_err(ERR_UNKNOWN))
  <2>1. UNCHANGED data
    BY <1>1 DEF do_keys, do_get, do_zscore, do_zquery, NoZSet, Reply
  <2> QED
    BY <2>1, SameData
<1> QED
  BY <1>1, SetData, DelData, ZAddData, ZRemData DEF do_request
-----------------------------------------------------------------------------
\* What the out_* functions write.
Cells == Seq(Int) \ {<<>>}

LEMMA NatsAreCells == \A val \in Seq(Nat) : val \in Seq(Int)
  OBVIOUS

\* What is written has the head first.
LEMMA HeadFirst ==
  ASSUME NEW head \in Cells, NEW val \in Seq(Int)
  PROVE  head \o val \in Cells
<1>1. head \o val \in Seq(Int) /\ Len(head \o val) = Len(head) + Len(val)
  BY ConcatProperties DEF Cells
<1>2. Len(head) \in Nat \ {0} /\ Len(val) \in Nat
  BY DEF Cells
<1> QED
  BY <1>1, <1>2 DEF Cells

LEMMA OutCells ==
  /\ out_nil \in Cells
  /\ \A val \in Seq(Nat) : out_str(val) \in Cells
  /\ \A n \in Int : out_int(n) \in Cells /\ out_dbl(n) \in Cells /\ out_arr(n) \in Cells
  /\ \A code \in ERR_UNKNOWN .. ERR_ARG : out_err(code) \in Cells
<1>1. out_nil \in Cells
  BY DEF Cells, out_nil, SER_NIL
<1>2. ASSUME NEW val \in Seq(Nat) PROVE out_str(val) \in Cells
  <2>1. <<SER_STR, Len(val)>> \in Cells
    BY DEF Cells, SER_STR
  <2> QED
    BY <2>1, HeadFirst, NatsAreCells DEF out_str
<1>3. ASSUME NEW n \in Int
      PROVE  out_int(n) \in Cells /\ out_dbl(n) \in Cells /\ out_arr(n) \in Cells
  BY DEF Cells, out_int, out_dbl, out_arr, SER_INT, SER_DBL, SER_ARR
<1>4. ASSUME NEW code \in ERR_UNKNOWN .. ERR_ARG PROVE out_err(code) \in Cells
  <2>1. ErrText[code] \in Seq(Nat)
    BY ProtocolAssumption
  <2>2. <<SER_ERR, code, Len(ErrText[code])>> \in Cells
    BY <2>1 DEF Cells, SER_ERR, ERR_UNKNOWN, ERR_ARG
  <2> QED
    BY <2>1, <2>2, HeadFirst, NatsAreCells DEF out_err
<1> QED
  BY <1>1, <1>2, <1>3, <1>4

\* An array of replies.
LEMMA ArrayCells ==
  ASSUME NEW n \in Int, NEW k \in Nat, NEW f \in [1 .. k -> Cells]
  PROVE  out_arr(n) \o FlattenSeq(f) \in Cells
<1>1. f \in Seq(Seq(Int))
  BY DEF Cells
<1>2. FlattenSeq(f) \in Seq(Int)
  BY <1>1, FlattenType
<1> QED
  BY <1>2, OutCells, HeadFirst

LEMMA KeysCells ==
  ASSUME DataInv, IsFiniteSet(DOMAIN db), NEW cmd, do_keys(cmd)
  PROVE  out' \in Cells
<1> DEFINE n == Cardinality(DOMAIN db)
<1>1. PICK order \in SetToSeqs(DOMAIN db) :
        out' = out_arr(n) \o FlattenSeq([i \in DOMAIN order |-> out_str(order[i])])
  BY DEF do_keys, Reply
<1>2. n \in Nat
  BY FS_CardinalityType
<1>3. order \in [1 .. n -> DOMAIN db]
  BY <1>1 DEF SetToSeqs
<1>4. DOMAIN db \subseteq Seq(Nat)
  BY DEF DataInv, DataOK
<1> HIDE DEF n
<1>5. [i \in DOMAIN order |-> out_str(order[i])] \in [1 .. n -> Cells]
  BY <1>3, <1>4, OutCells
<1> QED
  BY <1>1, <1>2, <1>5, ArrayCells

LEMMA ListingCells ==
  ASSUME NEW z, z \in [DOMAIN z -> Int], DOMAIN z \subseteq Seq(Nat),
         NEW k \in Nat, NEW names \in [1 .. k -> DOMAIN z]
  PROVE  Listing(z, names) \in Cells
<1> DEFINE tuple(i) == out_str(names[i]) \o out_dbl(z[names[i]])
<1>1. \A i \in 1 .. k : tuple(i) \in Cells
  <2>1. ASSUME NEW i \in 1 .. k PROVE tuple(i) \in Cells
    <3>1. names[i] \in Seq(Nat) /\ z[names[i]] \in Int
      OBVIOUS
    <3>2. out_str(names[i]) \in Cells /\ out_dbl(z[names[i]]) \in Seq(Int)
      BY <3>1, OutCells DEF Cells
    <3> QED
      BY <3>2, HeadFirst
  <2> QED
    BY <2>1
<1>2. DOMAIN names = 1 .. k /\ Len(names) = k /\ 2 * k \in Int
  OBVIOUS
<1> HIDE DEF tuple
<1>3. [i \in DOMAIN names |-> tuple(i)] \in [1 .. k -> Cells]
  BY <1>1, <1>2
<1>4. out_arr(2 * Len(names)) \o FlattenSeq([i \in DOMAIN names |-> tuple(i)]) \in Cells
  BY <1>2, <1>3, ArrayCells
<1> QED
  BY <1>4 DEF Listing, tuple

LEMMA ZQueryCells ==
  ASSUME DataInv, NEW cmd, do_zquery(cmd)
  PROVE  out' \in Cells
<1> DEFINE z == zsets[db[cmd[2]].zset]
<1>1. CASE \E from, offset, limit :
             ZSetAt(cmd[2]) /\ \E names \in Listed(z, from, offset, limit) :
                                 out' = Listing(z, names)
  <2>1. PICK from, offset, limit :
          \E names \in Listed(z, from, offset, limit) : out' = Listing(z, names)
    BY <1>1
  <2>2. PICK names \in Listed(z, from, offset, limit) : out' = Listing(z, names)
    BY <2>1
  <2>3. PICK k \in Nat : names \in [1 .. k -> DOMAIN z]
    BY <2>2 DEF Listed
  <2> QED
    BY <1>1, <2>2, <2>3, ZSetOf, ListingCells
<1>2. CASE out' \in {out_err(ERR_ARG), out_err(ERR_TYPE), out_arr(0)}
  BY <1>2, OutCells DEF ERR_UNKNOWN, ERR_ARG, ERR_TYPE
<1> QED
  BY <1>1, <1>2, Zenon DEF do_zquery, NoZSet, Reply

\* Every command replies.
LEMMA RequestCells ==
  ASSUME DataInv, IsFiniteSet(DOMAIN db), NEW cmd \in Command, do_request(cmd)
  PROVE  out' \in Cells
<1>1. /\ out_err(ERR_ARG) \in Cells /\ out_err(ERR_TYPE) \in Cells
      /\ out_err(ERR_UNKNOWN) \in Cells /\ out_nil \in Cells
      /\ out_int(0) \in Cells /\ out_int(1) \in Cells
  BY OutCells DEF ERR_UNKNOWN, ERR_ARG, ERR_TYPE
<1>2. CASE do_get(cmd)
  <2>1. cmd[2] \in DOMAIN db => db[cmd[2]].val \in Seq(Nat)
    BY DEF DataInv, DataOK, Entry
  <2> QED
    BY <1>1, <1>2, <2>1, OutCells DEF do_get, Reply
<1>3. CASE do_zscore(cmd)
  <2> DEFINE z == zsets[db[cmd[2]].zset]
  <2>1. ZSetAt(cmd[2]) /\ cmd[3] \in DOMAIN z => z[cmd[3]] \in Int
    BY ZSetOf
  <2>2. \/ out' \in {out_err(ERR_TYPE), out_nil}
        \/ ZSetAt(cmd[2]) /\ cmd[3] \in DOMAIN z /\ out' = out_dbl(z[cmd[3]])
    BY <1>3 DEF do_zscore, NoZSet, Reply
  <2> QED
    BY <1>1, <2>1, <2>2, OutCells
<1>4. CASE do_set(cmd) \/ do_del(cmd) \/ do_zadd(cmd) \/ do_zrem(cmd)
           \/ Reply(out_err(ERR_UNKNOWN))
  <2>1. out' \in {out_nil, out_int(0), out_int(1), out_err(ERR_ARG), out_err(ERR_TYPE),
                  out_err(ERR_UNKNOWN)}
    BY <1>4 DEF do_set, do_del, do_zadd, do_zrem, zset_add, NoZSet, Reply
  <2> QED
    BY <1>1, <2>1
<1> QED
  BY <1>2, <1>3, <1>4, KeysCells, ZQueryCells DEF do_request

\* A command adds one key at most.
LEMMA RequestKeys ==
  ASSUME IsFiniteSet(DOMAIN db), NEW cmd, do_request(cmd)
  PROVE  IsFiniteSet(DOMAIN db')
<1>1. DOMAIN db' \in SUBSET (DOMAIN db \cup {cmd[2]})
  <2>1. CASE UNCHANGED db
    BY <2>1
  <2>2. CASE do_set(cmd) \/ do_del(cmd) \/ do_zadd(cmd)
    BY <2>2 DEF do_set, do_del, do_zadd, Reply, With, Without, data
  <2> QED
    BY <2>1, <2>2 DEF do_request, do_keys, do_get, do_zrem, do_zscore, do_zquery,
                      NoZSet, Reply, data
<1>2. IsFiniteSet(DOMAIN db \cup {cmd[2]})
  BY FS_AddElement
<1> QED
  BY <1>1, <1>2, FS_Subset

\* What goes on the wire: the length, then a reply that is not empty.
LEMMA MessageCells ==
  ASSUME NEW reply \in Cells
  PROVE  /\ Fitted(reply) \in Cells
         /\ Framed(reply) \in Cells
         /\ Len(Framed(reply)) = Len(reply) + 1
         /\ Framed(reply)[1] = Len(reply) /\ Tail(Framed(reply)) = reply
<1>1. Fitted(reply) \in Cells
  BY OutCells DEF Fitted, ERR_UNKNOWN, ERR_2BIG, ERR_ARG
<1>2. reply \in Seq(Int) /\ <<Len(reply)>> \in Cells
  BY DEF Cells
<1>3. Framed(reply) \in Cells
  BY <1>2, HeadFirst DEF Framed
<1>4. Len(Framed(reply)) = Len(reply) + 1 /\ Framed(reply)[1] = Len(reply)
  BY <1>2 DEF Framed
<1>5. Tail(Framed(reply)) = reply
  BY <1>2 DEF Framed
<1> QED
  BY <1>1, <1>3, <1>4, <1>5
-----------------------------------------------------------------------------
\* Names are totally ordered, byte by byte.
LEMMA NameTotal ==
  ASSUME NEW n \in Seq(Nat), NEW m \in Seq(Nat), n # m
  PROVE  NameLess(n, m) \/ NameLess(m, n)
<1> DEFINE either == NameLess(n, m) \/ NameLess(m, n)
           T == {k \in Nat : k <= Len(n) /\ k <= Len(m) => Upto(n, k) = Upto(m, k) \/ either}
<1>1. Len(n) \in Nat /\ Len(m) \in Nat
  OBVIOUS
<1>2. 0 \in T
  BY DEF Upto
<1>3. ASSUME NEW k \in Nat, k \in T PROVE k + 1 \in T
  <2>1. CASE k + 1 <= Len(n) /\ k + 1 <= Len(m) /\ Upto(n, k) = Upto(m, k)
    <3>1. CASE n[k + 1] = m[k + 1]
      <4>1. Upto(n, k + 1) = Append(Upto(n, k), n[k + 1])
        BY <2>1 DEF Upto
      <4>2. Upto(m, k + 1) = Append(Upto(m, k), m[k + 1])
        BY <2>1 DEF Upto
      <4>3. Upto(n, k + 1) = Upto(m, k + 1)
        BY <2>1, <3>1, <4>1, <4>2
      <4> HIDE DEF either
      <4> QED
        BY <4>3
    <3>2. CASE n[k + 1] # m[k + 1]
      <4>1. n[k + 1] \in Nat /\ m[k + 1] \in Nat
        BY <2>1
      <4>2. n[k + 1] < m[k + 1] \/ m[k + 1] < n[k + 1]
        BY <3>2, <4>1
      <4>3. /\ k + 1 \in 1 .. Len(m) /\ k + 1 \in 1 .. Len(n) /\ (k + 1) - 1 = k
            /\ k + 1 <= Len(n) + 1 /\ k + 1 <= Len(m) + 1
        BY <1>1, <2>1
      <4>4. SubSeq(n, 1, (k + 1) - 1) = SubSeq(m, 1, (k + 1) - 1)
        BY <2>1, <4>3 DEF Upto
      <4>5. either
        BY <4>2, <4>3, <4>4 DEF NameLess
      <4> QED
        BY <4>5
    <3> QED
      BY <3>1, <3>2
  <2> HIDE DEF either
  <2>2. CASE ~ (k + 1 <= Len(n) /\ k + 1 <= Len(m) /\ Upto(n, k) = Upto(m, k))
    BY <1>1, <1>3, <2>2
  <2> QED
    BY <2>1, <2>2
<1>4. Nat \subseteq T
  <2> HIDE DEF T
  <2> QED
    BY <1>2, <1>3, SetInduction
<1>5. Upto(n, Len(n)) = n /\ Upto(m, Len(m)) = m
  BY DEF Upto
<1>6. CASE Len(n) < Len(m)
  <2>1. Upto(n, Len(n)) = Upto(m, Len(n)) \/ either
    BY <1>1, <1>4, <1>6
  <2>2. Len(n) + 1 \in 1 .. Len(m) /\ (Len(n) + 1) - 1 = Len(n) /\ Len(n) + 1 <= Len(n) + 1
    BY <1>1, <1>6
  <2>3. Upto(n, Len(n)) = Upto(m, Len(n)) => NameLess(n, m)
    BY <2>2 DEF NameLess, Upto
  <2> QED
    BY <2>1, <2>3
<1>7. CASE Len(m) < Len(n)
  <2>1. Upto(n, Len(m)) = Upto(m, Len(m)) \/ either
    BY <1>1, <1>4, <1>7
  <2>2. Len(m) + 1 \in 1 .. Len(n) /\ (Len(m) + 1) - 1 = Len(m) /\ Len(m) + 1 <= Len(m) + 1
    BY <1>1, <1>7
  <2>3. Upto(n, Len(m)) = Upto(m, Len(m)) => NameLess(m, n)
    BY <2>2 DEF NameLess, Upto
  <2> QED
    BY <2>1, <2>3
<1>8. CASE Len(n) = Len(m)
  <2>1. Upto(n, Len(n)) = Upto(m, Len(n)) \/ either
    BY <1>1, <1>4, <1>8
  <2> QED
    BY <1>5, <1>8, <2>1
<1> QED
  BY <1>1, <1>6, <1>7, <1>8

LEMMA NameAsymmetric ==
  ASSUME NEW n \in Seq(Nat), NEW m \in Seq(Nat), NameLess(n, m)
  PROVE  ~ NameLess(m, n)
<1> SUFFICES ASSUME NameLess(m, n) PROVE FALSE
  OBVIOUS
<1>1. PICK i \in 1 .. Len(m) :
        /\ i <= Len(n) + 1 /\ SubSeq(n, 1, i - 1) = SubSeq(m, 1, i - 1)
        /\ i = Len(n) + 1 \/ n[i] < m[i]
  BY DEF NameLess
<1>2. PICK j \in 1 .. Len(n) :
        /\ j <= Len(m) + 1 /\ SubSeq(m, 1, j - 1) = SubSeq(n, 1, j - 1)
        /\ j = Len(m) + 1 \/ m[j] < n[j]
  BY DEF NameLess
<1>3. Len(n) \in Nat /\ Len(m) \in Nat
  OBVIOUS
<1>4. \A k \in 1 .. j - 1 : n[k] = m[k]
  <2>1. ASSUME NEW k \in 1 .. j - 1 PROVE n[k] = m[k]
    <3>1. SubSeq(m, 1, j - 1)[k] = m[k]
      BY <1>2
    <3>2. SubSeq(n, 1, j - 1)[k] = n[k]
      BY <1>2
    <3> QED
      BY <1>2, <3>1, <3>2
  <2> QED
    BY <2>1
<1>5. \A k \in 1 .. i - 1 : n[k] = m[k]
  <2>1. ASSUME NEW k \in 1 .. i - 1 PROVE n[k] = m[k]
    <3>1. SubSeq(m, 1, i - 1)[k] = m[k]
      BY <1>1
    <3>2. SubSeq(n, 1, i - 1)[k] = n[k]
      BY <1>1
    <3> QED
      BY <1>1, <3>1, <3>2
  <2> QED
    BY <2>1
<1>6. CASE i < j
  <2>1. i \in 1 .. j - 1 /\ i # Len(n) + 1 /\ n[i] \in Nat
    BY <1>2, <1>6
  <2>2. n[i] < m[i] /\ n[i] = m[i]
    BY <1>1, <1>4, <2>1
  <2> QED
    BY <2>1, <2>2
<1>7. CASE j < i
  <2>1. j \in 1 .. i - 1 /\ j # Len(m) + 1 /\ n[j] \in Nat
    BY <1>1, <1>2, <1>7
  <2>2. m[j] < n[j] /\ n[j] = m[j]
    BY <1>2, <1>5, <2>1
  <2> QED
    BY <2>1, <2>2
<1>8. CASE i = j
  <2>1. i # Len(n) + 1 /\ j # Len(m) + 1 /\ n[i] \in Nat /\ m[i] \in Nat
    BY <1>3, <1>8
  <2>2. n[i] < m[i] /\ m[i] < n[i]
    BY <1>1, <1>2, <1>8, <2>1
  <2> QED
    BY <2>1, <2>2
<1> QED
  BY <1>6, <1>7, <1>8

\* Of two members of a ZSet, one is before the other, and not both.
LEMMA TuplesOrdered ==
  ASSUME NEW n \in Seq(Nat), NEW m \in Seq(Nat), NEW s \in Int, NEW t \in Int,
         n = m => s = t
  PROVE  /\ n # m => TupleLess(s, n, t, m) \/ TupleLess(t, m, s, n)
         /\ ~ (TupleLess(s, n, t, m) /\ TupleLess(t, m, s, n))
<1>1. n # m => TupleLess(s, n, t, m) \/ TupleLess(t, m, s, n)
  BY NameTotal DEF TupleLess
<1>2. ~ (TupleLess(s, n, t, m) /\ TupleLess(t, m, s, n))
  BY NameAsymmetric DEF TupleLess
<1> QED
  BY <1>1, <1>2

\* What zset_query looks for is the first tuple that is not before.
LEMMA SoughtIsFirst ==
  ASSUME NEW z, z \in [DOMAIN z -> Int], DOMAIN z \subseteq Seq(Nat),
         NEW score, NEW name, NEW n \in DOMAIN z
  PROVE  n \in Sought(z, score, name) <=>
           /\ ~ TupleLess(z[n], n, score, name)
           /\ \A m \in DOMAIN z \ {n} :
                TupleLess(z[m], m, score, name) \/ TupleLess(z[n], n, z[m], m)
<1>1. ASSUME NEW m \in DOMAIN z
      PROVE  /\ n # m => TupleLess(z[n], n, z[m], m) \/ TupleLess(z[m], m, z[n], n)
             /\ ~ (TupleLess(z[n], n, z[m], m) /\ TupleLess(z[m], m, z[n], n))
  <2>1. n \in Seq(Nat) /\ m \in Seq(Nat) /\ z[n] \in Int /\ z[m] \in Int /\ (n = m => z[n] = z[m])
    OBVIOUS
  <2> QED
    BY <2>1, TuplesOrdered
<1> DEFINE before(l, m) == TupleLess(z[l], l, z[m], m)
           early(m) == TupleLess(z[m], m, score, name)
<1>2. \A m \in DOMAIN z : (n # m => before(n, m) \/ before(m, n)) /\ ~ (before(n, m) /\ before(m, n))
  BY <1>1
<1> HIDE DEF before, early
<1>3. (~ early(n) /\ \A m \in DOMAIN z : before(m, n) => early(m))
        <=> (~ early(n) /\ \A m \in DOMAIN z \ {n} : early(m) \/ before(n, m))
  BY <1>2
<1> QED
  BY <1>3 DEF before, early, Sought
=============================================================================
