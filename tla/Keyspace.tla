------------------------------ MODULE Keyspace -------------------------------
(***************************************************************************)
(* The data of the server and the commands on it: the do_* functions of    *)
(* src/server.cpp, on entries that are strings or sorted sets.             *)
(*                                                                         *)
(* Data.  db is the hash map of entries, a function of their keys, as      *)
(* KeySet.tla promises; zsets is the heap of ZSet objects, a ZSet being    *)
(* its names and their scores, as SortedSet.tla promises.  Strings are     *)
(* those of Protocol.tla.  Scores are integers.                            *)
(*                                                                         *)
(* Control.  A command is one step.  Of do_zquery's loop, the first tuple  *)
(* is zset_query's when the offset is 0; what avl_offset leads to is the   *)
(* subject of ZSet.tla, and any tuple, or none, here.                      *)
(***************************************************************************)
EXTENDS Protocol, FiniteSets

CONSTANTS
  Spelling,       \* the spellings strcasecmp accepts for each command
  Dbl, Int64,     \* the numbers that strtod and strtoll read in full
  ZSetObj,        \* ZSet objects that new may return
  NULL

Verb == {"keys", "get", "set", "del", "zadd", "zrem", "zscore", "zquery"}

\* No word is a spelling of two commands.
ASSUME KeyspaceAssumption ==
  /\ Spelling \in [Verb -> SUBSET Seq(Nat)]
  /\ \A v, w \in Verb : v # w => Spelling[v] \cap Spelling[w] = {}
  /\ Dbl \in [DOMAIN Dbl -> Int] /\ Int64 \in [DOMAIN Int64 -> Int]
  /\ NULL \notin ZSetObj

VARIABLES
  db,             \* g_data.db: the entry of each key
  zsets,          \* the ZSet objects that are allocated
  out             \* the reply of the last command

data == <<db, zsets>>

Entry == [type : {"str", "zset"}, val : Seq(Nat), zset : ZSetObj \cup {NULL}]

\* What a string is after std::move.
Moved == <<>>

\* A function with one more value, and without one.
With(f, x, v) == [y \in DOMAIN f \cup {x} |-> IF y = x THEN v ELSE f[y]]
Without(f, x) == [y \in DOMAIN f \ {x} |-> f[y]]

\* The order of names, and of tuples.
NameLess(n, m) ==
  \E i \in 1 .. Len(m) :
    /\ i <= Len(n) + 1 /\ SubSeq(n, 1, i - 1) = SubSeq(m, 1, i - 1)
    /\ i = Len(n) + 1 \/ n[i] < m[i]
TupleLess(s, n, t, m) == s < t \/ (s = t /\ NameLess(n, m))

\* cmd.size() and cmd_is(cmd[0], verb).
Is(cmd, size, verb) == Len(cmd) = size /\ cmd[1] \in Spelling[verb]

Reply(reply) == out' = reply /\ UNCHANGED data
-----------------------------------------------------------------------------
\* The strings in some order, as the hash map's scan finds them.
do_keys(cmd) ==
  \E order \in SetToSeqs(DOMAIN db) :
    Reply(out_arr(Cardinality(DOMAIN db))
            \o FlattenSeq([i \in DOMAIN order |-> out_str(order[i])]))

\* get key: whatever the type of the entry, its val.
do_get(cmd) ==
  Reply(IF cmd[2] \in DOMAIN db THEN out_str(db[cmd[2]].val) ELSE out_nil)

\* Mutant: the type of an existing entry is set too.
Mut_do_set(cmd) ==
  /\ db' = IF cmd[2] \in DOMAIN db
           THEN [db EXCEPT ![cmd[2]].val = Moved, ![cmd[2]].type = "str"]
           ELSE With(db, cmd[2], [type |-> "str", val |-> cmd[3], zset |-> NULL])
  /\ out' = out_nil
  /\ UNCHANGED zsets

\* set key val.  The value is moved into a local entry before the key is
\* looked up: an existing entry is given what is left of it.
do_set(cmd) ==
  /\ db' = IF cmd[2] \in DOMAIN db
           THEN [db EXCEPT ![cmd[2]].val = Moved]
           ELSE With(db, cmd[2], [type |-> "str", val |-> cmd[3], zset |-> NULL])
  /\ out' = out_nil
  /\ UNCHANGED zsets

\* del key.  The entry is deleted; a ZSet it pointed to stays allocated.
do_del(cmd) ==
  /\ db' = Without(db, cmd[2])
  /\ out' = out_int(IF cmd[2] \in DOMAIN db THEN 1 ELSE 0)
  /\ UNCHANGED zsets

\* zset_add to ZSet z.
zset_add(z, name, score) ==
  /\ zsets' = [zsets EXCEPT ![z] = With(@, name, score)]
  /\ out' = out_int(IF name \in DOMAIN zsets[z] THEN 0 ELSE 1)

\* Mutant: the allocation of a ZSet may fail, and nobody looks.
Mut_do_zadd(cmd) ==
  LET key == cmd[2]
      score == Dbl[cmd[3]]
      name == cmd[4]
  IN \/ cmd[3] \notin DOMAIN Dbl /\ Reply(out_err(ERR_ARG))
     \/ /\ cmd[3] \in DOMAIN Dbl /\ key \in DOMAIN db
        /\ \/ db[key].type # "zset" /\ Reply(out_err(ERR_TYPE))
           \/ /\ db[key].type = "zset"
              /\ zset_add(db[key].zset, name, score)
              /\ UNCHANGED db
     \/ /\ cmd[3] \in DOMAIN Dbl /\ key \notin DOMAIN db
        /\ \E z \in (ZSetObj \cup {NULL}) \ DOMAIN zsets :
             /\ zsets' = With(zsets, z, [n \in {name} |-> score])
             /\ db' = With(db, key, [type |-> "zset", val |-> <<>>, zset |-> z])
             /\ out' = out_int(1)

\* zadd key score name.
do_zadd(cmd) ==
  LET key == cmd[2]
      score == Dbl[cmd[3]]
      name == cmd[4]
  IN \/ cmd[3] \notin DOMAIN Dbl /\ Reply(out_err(ERR_ARG))
     \/ /\ cmd[3] \in DOMAIN Dbl /\ key \in DOMAIN db
        /\ \/ db[key].type # "zset" /\ Reply(out_err(ERR_TYPE))
           \/ /\ db[key].type = "zset"
              /\ zset_add(db[key].zset, name, score)
              /\ UNCHANGED db
     \/ /\ cmd[3] \in DOMAIN Dbl /\ key \notin DOMAIN db
        /\ \E z \in ZSetObj \ DOMAIN zsets :
             /\ zsets' = With(zsets, z, [n \in {name} |-> score])
             /\ db' = With(db, key, [type |-> "zset", val |-> <<>>, zset |-> z])
             /\ out' = out_int(1)

\* expect_zset, and what is replied if there is none.
ZSetAt(key) == key \in DOMAIN db /\ db[key].type = "zset"
NoZSet(key, missing) ==
  /\ ~ ZSetAt(key)
  /\ Reply(IF key \in DOMAIN db THEN out_err(ERR_TYPE) ELSE missing)

\* zrem key name.
do_zrem(cmd) ==
  LET z == db[cmd[2]].zset
      name == cmd[3]
  IN \/ NoZSet(cmd[2], out_nil)
     \/ /\ ZSetAt(cmd[2])
        /\ zsets' = [zsets EXCEPT ![z] = Without(@, name)]
        /\ out' = out_int(IF name \in DOMAIN zsets[z] THEN 1 ELSE 0)
        /\ UNCHANGED db

\* zscore key name.
do_zscore(cmd) ==
  LET z == zsets[db[cmd[2]].zset]
      name == cmd[3]
  IN \/ NoZSet(cmd[2], out_nil)
     \/ /\ ZSetAt(cmd[2])
        /\ Reply(IF name \in DOMAIN z THEN out_dbl(z[name]) ELSE out_nil)

\* zset_query: the first tuple that is not before (score, name), if any.
Sought(z, score, name) ==
  {n \in DOMAIN z :
     /\ ~ TupleLess(z[n], n, score, name)
     /\ \A m \in DOMAIN z :
          TupleLess(z[m], m, z[n], n) => TupleLess(z[m], m, score, name)}

\* The names do_zquery may list; n += 2 for each of them.
Listed(z, from, offset, limit) ==
  {names \in UNION {[1 .. k -> DOMAIN z] : k \in 0 .. (limit + 1) \div 2} :
     /\ from = {} => names = <<>>
     /\ offset = 0 /\ from # {} => names # <<>> /\ names[1] \in from}

\* Mutant: one element is counted for each tuple.
Mut_Listing(z, names) ==
  out_arr(Len(names))
    \o FlattenSeq([i \in DOMAIN names |-> out_str(names[i]) \o out_dbl(z[names[i]])])

\* begin_arr, the tuples, and end_arr, which fills in the count.
Listing(z, names) ==
  out_arr(2 * Len(names))
    \o FlattenSeq([i \in DOMAIN names |-> out_str(names[i]) \o out_dbl(z[names[i]])])

\* zquery key score name offset limit.
do_zquery(cmd) ==
  LET z == zsets[db[cmd[2]].zset]
      from == Sought(z, Dbl[cmd[3]], cmd[4])
      offset == Int64[cmd[5]]
      limit == Int64[cmd[6]]
      numbers == cmd[3] \in DOMAIN Dbl /\ {cmd[5], cmd[6]} \subseteq DOMAIN Int64
  IN \/ ~ numbers /\ Reply(out_err(ERR_ARG))
     \/ numbers /\ NoZSet(cmd[2], out_arr(0))
     \/ numbers /\ ZSetAt(cmd[2]) /\ limit <= 0 /\ Reply(out_arr(0))
     \/ /\ numbers /\ ZSetAt(cmd[2]) /\ limit > 0
        /\ \E names \in Listed(z, from, offset, limit) : Reply(Listing(z, names))

\* A command that may have no reply: avl_offset, called for the offset and
\* then for each next tuple, may follow links for ever (avl.cpp:227; see
\* QueryEnds of ZSet.tla).  Each do_* above is a command that has returned.
MayLoop(cmd) ==
  /\ Is(cmd, 6, "zquery")
  /\ cmd[3] \in DOMAIN Dbl /\ {cmd[5], cmd[6]} \subseteq DOMAIN Int64
  /\ ZSetAt(cmd[2]) /\ Int64[cmd[6]] > 0
  /\ Sought(zsets[db[cmd[2]].zset], Dbl[cmd[3]], cmd[4]) # {}

Known(cmd) ==
  \/ Is(cmd, 1, "keys") \/ Is(cmd, 2, "get") \/ Is(cmd, 3, "set") \/ Is(cmd, 2, "del")
  \/ Is(cmd, 4, "zadd") \/ Is(cmd, 3, "zrem") \/ Is(cmd, 3, "zscore") \/ Is(cmd, 6, "zquery")

do_request(cmd) ==
  \/ Is(cmd, 1, "keys") /\ do_keys(cmd)
  \/ Is(cmd, 2, "get") /\ do_get(cmd)
  \/ Is(cmd, 3, "set") /\ do_set(cmd)
  \/ Is(cmd, 2, "del") /\ do_del(cmd)
  \/ Is(cmd, 4, "zadd") /\ do_zadd(cmd)
  \/ Is(cmd, 3, "zrem") /\ do_zrem(cmd)
  \/ Is(cmd, 3, "zscore") /\ do_zscore(cmd)
  \/ Is(cmd, 6, "zquery") /\ do_zquery(cmd)
  \/ ~ Known(cmd) /\ Reply(out_err(ERR_UNKNOWN))

DataInit == db = [k \in {} |-> NULL] /\ zsets = [z \in {} |-> NULL] /\ out = <<>>
-----------------------------------------------------------------------------
\* The type of the data.
DataOK ==
  /\ db \in [DOMAIN db -> Entry] /\ DOMAIN db \subseteq Seq(Nat)
  /\ DOMAIN zsets \subseteq ZSetObj
  /\ \A z \in DOMAIN zsets :
       zsets[z] \in [DOMAIN zsets[z] -> Int] /\ DOMAIN zsets[z] \subseteq Seq(Nat)

\* Whatever commands of either type hit a key, an entry has a ZSet exactly
\* if its type says so, the ZSet is allocated, and no other entry has it: a
\* write through one key never shows through another, and no command
\* follows a NULL or a freed pointer (server.cpp:385-411, 335-360).
ZSetsOwned ==
  \A k \in DOMAIN db :
    /\ db[k].type = "zset" <=> db[k].zset # NULL
    /\ db[k].zset # NULL => db[k].zset \in DOMAIN zsets
    /\ \A l \in DOMAIN db : db[l].zset = db[k].zset /\ db[k].zset # NULL => l = k
=============================================================================
