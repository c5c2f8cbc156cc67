# A verification project for Redis-On-C

TLA+ modules that model the server of this repository (`src/server.cpp` and
the data structures under it), TLC runs that check them on small instances,
and TLAPS proofs about them for every instance. Paths below are those of the repository; line numbers are in `PROJECT.json`, under `map`, for every
definition that translates code.

## 1. The system

One process, one thread, one `poll()` loop. A round of the loop polls the
listening socket and all connections, runs `connection_io` on each ready
connection, closes connections whose idle timer expired, and accepts at most
one client. `connection_io` reads bytes into `rbuf`, cuts requests from it, runs
each on the key space, and flushes the reply from `wbuf`. The key space is a
hash map of entries; an entry is a string or a sorted set; a sorted set is an
AVL tree and a second hash map over the same nodes.

| part | state it keeps | operations | used by | what makes it correct |
|---|---|---|---|---|
| hash map, `hashtable.cpp` | two tables `ht1` (newer), `ht2` (older), `resizing_pos` | `hm_insert`, `hm_lookup`, `hm_pop`, `hm_size`, `hm_destroy`, scan | key space, sorted set | a set of keys, whatever migration is open; cursor inside the table; load bounded |
| AVL tree, `avl.cpp` | `depth`, `cnt`, `left`, `right`, `parent` per node | `avl_fix`, `avl_del`, `avl_offset` | sorted set | links, depths and counts agree; balanced; offset by rank |
| sorted set, `zset.cpp` | `tree`, `hmap`, nodes with `score` and `name` | `zset_add`, `zset_pop`, `zset_lookup`, `zset_query`, `znode_offset` | commands | both indexes hold the same tuples, in order |
| key space and commands, `do_*` in `server.cpp` | `g_data.db`, the `ZSet` objects | `get set del keys zadd zrem zscore zquery` | connections | an entry's type, pointer and `ZSet` agree; a sorted set has one owner |
| connection I/O, `server.cpp` | `state`, `rbuf`, `wbuf`, `wbuf_sent` | `try_fill_buffer`, `try_one_request`, `try_flush_buffer` | event loop | requests once and in order, replies byte for byte |
| event loop and timers, `main`, `list.h` | `fd2conn`, `idle_list`, `idle_start` | poll, `connection_io`, `accept_new_conn`, `conn_done`, `process_timers` | — | one live `Conn` per descriptor, listed once; timers on time |
| protocol, `parse_req`, `out_*` | none | parse, serialise | connections, client | one value out for one value in |
| client, `client.cpp` | the bytes it has read | `send_req`, `read_res`, `on_response` | — | prints what the command means; does not wait for ever |

There are no threads, locks or files. What is hard is elsewhere: operations
that leave work half done for the next one (a migration), results of `poll()`
used after the table changed, byte streams cut anywhere, full sockets, time
truncated to milliseconds, and pointer surgery in the tree. `PROJECT.json`
lists each such hazard at its line, with the properties aimed at it.

## 2. The modules

| module | what it is |
|---|---|
| `KeySet` | abstract: a set of keys; an operation is called, takes effect at one instant, returns |
| `HashMap` | `hashtable.cpp`, one step per iteration of `hm_help_resizing`; implements `KeySet` |
| `AVLTree` | `avl.cpp` as operators on a heap of linked nodes: the rotations, one iteration of `avl_fix`, the two ends of `avl_del` |
| `SortedSet` | abstract: names with scores, ordered by (score, name); a query is answered by the first tuple not before the one sought |
| `ZSet` | `zset.cpp` on `AVLTree`, and `do_zquery`, one iteration of a loop at a time; implements `SortedSet` |
| `EventLoop` | the loop of `main` with its table, idle list and clock |
| `DList` | `list.h` as operators on a heap of `prev` and `next` |
| `IdleTimers` | the loop on the list it really has: timers are found, and nodes moved, by the pointers of `list.h`; implements `EventLoop` |
| `Connection` | one connection's buffers between two bounded socket queues and a client |
| `Protocol` | `parse_req`, the `out_*` functions and the framing, on cells |
| `Keyspace` | the commands on entries and `ZSet` objects |
| `Client` | `send_req` and `on_response` |
| `Store` | abstract: commands on a store of values, and what is printed |
| `Exchange` | a command from `argv` to what is printed, through `Client`, `Protocol` and `Keyspace`; implements `Store` |
| `Service` | abstract: callers, calls, effects and answers |
| `Server` | clients, accept queue, descriptors, connection objects, the loop of `main`, `Keyspace`; implements `Service` |
| `SequenceLemmas` | induction in the form of sets, and what `FlattenSeq` makes of sequences of any length |
| `HashMapProofs`, `ZSetProofs`, `EventLoopProofs`, `ConnectionProofs`, `KeyspaceProofs`, `ServerProofs`, `ExchangeProofs` | the theorems about the module so named; `ZSetProofs` has those about `AVLTree`, `EventLoopProofs` those about `IdleTimers` |
| `MC*` | constants and bounds for TLC |

An operator or action named `Mut_X` stands before `X` and is a plausible bug in
it; no specification uses it. Each property was seen to fail under such a bug.

How the parts divide the work. The data structures are checked on their own
(`HashMap`, `ZSet`) and `Keyspace` uses what they promise: `db` is a function of
its keys, a `ZSet` a function of its names. `Connection` has the bytes of one
connection and abstracts the commands; `Exchange` has the commands and their
messages whole; `EventLoop` has the timers and abstracts the I/O; `Server` has
many clients and the life of descriptors and memory, and takes from the others
that messages arrive whole and that any connection may be idle too long.

### HashMap

`ht1`, `ht2` and `resizing_pos` are the fields of `HMap`. A table is its
capacity (`mask + 1`, 0 without an array), its buckets and its `size`; a bucket
is the set of keys in its chain. Dropping the order of a chain loses nothing:
`h_lookup` searches all of it, and moving the first node of a chain is moving
some node of it. `Call` begins an operation, `pc` follows it, `HelpSkip`,
`HelpMove` and `HelpDone` are the two branches and the end of the loop of
`hm_help_resizing`. `"upsert"` is what `do_set` and `zset_add` do: `hm_lookup`,
then `hm_insert` if there was nothing. A key is therefore never inserted twice,
and a bucket is a set.

### AVLTree and ZSet

A heap maps a node to its fields; a `ZNode` is named by its name, since a name
has one node, and `Free` is what no `ZNode` has. Each iteration of a loop is a
step: the search of `tree_add` (`TreeAdd`), the climb of `avl_fix` (`AvlFix`), the
descent of `avl_del` to its successor (`Victim`), that of `zset_query`
(`ZSetQuery`), `avl_offset` (`OffsetStep`) and the output of `do_zquery` (`Output`).
`pc` is the loop that runs and `cur` the node it is at; `arg` is what
`zset_update` or `zset_query` was called with, `node` the node `tree_add` adds.

`avl_del` calls itself for the successor. `dels` is the stack of the nodes it was
called for: `AvlDel` begins a call, with `Unlink` or the search for a victim;
`VictimDeleted` is what follows the inner call, with the copy `*victim = *node` of
all links (`TakePlace`); `Deleted` is the return to `zset_pop` or `zset_update`, and
`top` the root that was returned. A name leaves `hmap` when the code's `hm_pop`
takes it out, before `avl_del` unlinks its node.

`avl_cnt(..) - 1` is taken modulo `Width`, 2^32 in the code. `asked` and `reply`
are the question and the answer of `zset_query`, which `SortedSet` relates. To
`SortedSet` a tuple is there from `hm_insert` to `hm_pop`, and its score changes
when `avl_del` has returned; the steps between are steps of nothing.

### EventLoop, DList and IdleTimers

`conn` is the heap of allocated `Conn` objects, so that a use after free or a
leak is visible: `OneConnOneTimer` relates the heap, `fd2conn` and the idle
list. `accept()` may return any free descriptor and `malloc` any free object,
both immediately after they were freed. `now` is a free-running clock in
microseconds, and may advance between any two steps: between the reading of the
clock in `next_timer_ms` (`AskTimeout`) and the entry into `poll()` (`Poll`), and
between that of `process_timers` (`StartTimers`) and the closing of connections.
`now_us` is what was read. Whether `connection_io` ends the connection is the parameter `ended`.
`die()` and `abort()` are `pc = "dead"`.

`EventLoop` keeps the idle list as a sequence. Its steps that look at the list take
the next `Conn` as a parameter, and there it is the first of the sequence.
`IdleTimers` adds `links`, the `prev` and `next` of every node with `main`'s sentinel,
and makes each call of `list.h` that the code makes: `connection_io` detaches a
node and inserts it before the sentinel, `accept_new_conn` inserts, `conn_done`
detaches and frees. There the next `Conn` is `head`, what `dlist_empty` and the
sentinel's `next` say: whether there is a timer, how long `poll()` waits, which
connection is closed and when `process_timers` stops depend on the pointers. The
sequence is then an auxiliary variable, written and not read: a pointer that went
wrong makes the loop take a step that `EventLoop` cannot (`ImplementsEventLoop`).

### Connection

The client sends requests 1 .. `N`. A byte is `<<i, j>>`, byte `j` of the frame
of request `i` or of its reply, so that loss, repetition and reordering are
visible. `recv()` and `send()` take any number of bytes that the queues allow.
When a body has not arrived in full, `parse_req` reads memory that holds old
bytes or none that were ever written; what it makes of it is a free choice
between the two outcomes of the code (`ParsePartial`). The default action of
`SIGPIPE` is `SendFail` with `Die`.

### Protocol, Keyspace, Client and Exchange

What travels is a sequence of cells: a tag, a count, a length, a number, or one
byte of a string. A field is one cell wide, so the arithmetic of `parse_req` and
of the size checks keeps its shape and its mistakes: `parse_req` checks where an
argument ends without the cells of its length, and may read up to one length
past `len`, into whatever `rbuf` holds (`Beyond`). `Dbl` and `Int64` say which strings
`strtod` and `strtoll` read in full; the empty string is one of them.

`db` maps a key to its `Entry`, `zsets` an allocated `ZSet` to its members. A
`ZSet` is never freed, as in the code, whose `entry_del` nothing calls. `do_set`
moves the value out of `cmd[2]` before it looks the key up, and again into an
entry that exists: what such an entry gets is `Moved`, the empty string that
libstdc++ leaves. `do_zquery` may list any tuples after the first if its offset
is not 0, or none: `avl_offset` is wrong (section 6), and `ZSet` says how. It may
also never return; `MayLoop` says of which commands, and every step that runs a
command is one that has returned. `Exchange` assumes no fairness, so that a command
without an end is among its behaviours; for `Server` see Fairness.

`on_response` calls itself for the elements of an array; here that is a count of
calls still to make (`Call`), each of which reads what comes next, so that a reply
of `n` cells is read in `n + 1` steps at most. `IsBody` says what a request is
without parsing it; `Garbage` is anything else.

`Exchange` has one client at a time: `argv`, `send_req`, `try_one_request`, the
command, the reply with its size check, `on_response`, exit; or another program
that sends bytes `parse_req` may or may not take. `Store` knows none of this:
its commands are records, its answers values.

### Server

A call of `connection_io` is one step; the order of a round is the code's: the
ready descriptors in order, then timers, then one `accept`. `conn` is the heap
of `Conn` objects: what `malloc` returns has any contents (`Memory`), and
`accept_new_conn` sets what it sets. `accept` returns the lowest free descriptor,
as POSIX says. `poll` and `accept` may fail (`PollFail`, `AcceptFail`), and then the
process ends. To a client that has gone, `send` succeeds, fails, or raises
`SIGPIPE`, which ends the process. An identity in `Client` stands for one process
after another: a new one connects when the server has nothing of the old one.

In `Service` a request takes effect in one step, at most once; its caller gets
the answer of that step or loses the connection. `Answer` gathers a reply from
where its cells are (read, in the socket, in `wbuf`), so that a cell lost,
repeated or sent to another client breaks the refinement. A caller may lose its
connection at any time, so that `Service` says nothing of why: the death of the
process (server.cpp:234, 785, 948) is a loss of all connections. Likewise `Store`
takes from the tables `Dbl` and `Int64` what a number is, as `Keyspace` does: that the
empty string is one cannot show in the refinement.

## 3. What the runs check

| run | instance | shows |
|---|---|---|
| `hashmap` | 5 keys, two with one hash code, capacity from 1, quota 1 | the tables, cursor, sizes and load stay consistent; the map implements `KeySet` with its liveness |
| `eventloop` | `IdleTimers`: 3 descriptors, 3 `Conn`s, 2 µs per ms, time to 4 | no leak or use after free; polled connections are alive; sorted list, also as pointers; timers neither early (`NeverEarly`), late (`NoOversleep`, `NoneExpiredLeft`) nor spinning (`TimeoutFires`); the loop on pointers implements `EventLoop`; an idle connection is closed |
| `connection` | 4 requests, length field 2, messages to 6, queues 8 and 2 | requests once and in order; replies byte for byte; buffers fit; poll for the right event; a delayed reply is flushed |
| `zset` | 7 names, 2 scores; queries, with 4 offsets, on sets of up to 3 | linked, balanced and counted whenever no operation is changing the tree; both indexes agree; `ZSet` implements `SortedSet` |
| `exchange` | 3 keys, 2 names, 2 `ZSet`s, messages of 13 cells, 22 requests that no client packs | typed entries, whole replies; the way of a command implements `Store` |
| `server` | 2 clients, 2 descriptors, 2 `Conn`s, backlog 2, sockets of 2 cells | descriptors, connections and clients match; implements `Service`; no caller of `GET`, `SET` or `DEL` waits for ever |
| `eventloop_readme`, `connection_partial`, `connection_stranded`, `zset_offset`, `zset_ends`, `exchange_set` | | find the disagreements of section 6 |

Bounds, and why they are enough for what is asked:

- `HashMap`: with `MaxLoad = 0` and capacity 1 five keys reach a third
  migration, the first that a stale cursor of an earlier one can harm; a quota
  of one keeps each migration open across operations. The proofs cover every
  other value.
- `EventLoop`: three connections are the least at which one can be handled,
  one closed and one untouched in a round; two microseconds to the millisecond
  make truncation lose time; `MaxTime` bounds the clock and leaves room for
  two timeouts. The proofs cover every other value.
- `Connection`: frames of 4, 4, 8 and 3 bytes against an `rbuf` of 8 let two
  requests fill it together, one fill it alone, and every frame be cut in its
  length and in its body; the out queue of 2 makes every reply need several
  `send()`s. Replies are one byte too big, big enough to overrun `wbuf`, and
  just small enough. The proofs cover every other value, a length field above
  `k_max_msg` among them.
- `ZSet`: seven nodes are the least at which `avl_del`'s successor itself has a
  child and both double rotations occur in deletions. Two scores make names
  decide some comparisons. Queries are asked of sets of up to `MaxQueried`
  names: with three, a descent turns both ways and finds nothing, the first or
  the last tuple, and a limit of 4 ends the output of three early. The proofs
  cover every other value. `zset_ends` needs 22 nodes, and follows one order of insertion
  (`CONSTRAINT InMCOrder`).
- `Exchange`: with 13 cells a `ZQUERY` just fits and so do two tuples, while the
  names of all keys or a `ZADD` to the long key do not: every size check goes
  both ways. Two `ZSet` objects are enough for two owners, and for one that
  nobody owns any more; `MayAllocate` keeps clients from asking for a third.
  The two are interchangeable (`SYMMETRY`).
- `Server`: with two of each, both can be in use, or one used again while the
  other lives on; accept can lack a descriptor or memory. Replies of two to
  four cells (with their length) meet a socket of two: they are sent in one
  piece or wait for the client. Commands are `GET`, `SET` and `DEL` of one key, whose
  effects differ; the rest are `Exchange`'s.

Deadlock is checked for `HashMap`, `Exchange` and the safety runs of `ZSet`. It
is not for `EventLoop`, whose clock ends and whose server may die, for
`Connection`, which ends when the connection does, nor for `Server`, which may
die; there `EveryCallEnds` is the property about waiting for each other.

Fairness. `HashMap`: an operation that began goes on (`WF` of its steps), since
the CPU runs it; callers need not call. `ZSet`: so does a query
(`WF_vars(QueryStep)` in `Spec`, for `QueryEnds`); the safety runs and the proofs
are about `SafeSpec`, without fairness. `EventLoop`: the loop is
run and the clock advances; no event is assumed to arrive. `Connection`: the
loop takes the next step of a connection that runs or that `poll()` has cause to
report for the events it was registered with (a spurious report is possible but
never assumed), and the client reads what has arrived. `Server`: the loop goes on
(`WF_vars(~ MayHang /\ Loop)`) except where the next command is a `ZQUERY` that
`avl_offset` may keep for ever; and so does each client that has connected: it
sends, reads and exits, which is all `client.cpp` does; nobody has to connect or to
leave. `EveryCallEnds` is therefore a statement about commands that return, and is
checked for `GET`, `SET` and `DEL`; with `ZQUERY` of a set that has something to
list it is not promised, for any client (section 6, `zset_ends`). The death of the
server ends every call.

## 4. What is proved

The proof modules have one shape: a lemma per action that it keeps the inductive
invariant, one that collects them, the theorem that the invariant holds, and the
properties as corollaries. Nothing is assumed but the named assumptions on the
constants, which TLC evaluates in every run.

`HashMapProofs`, from `HashMapAssumption` (hash codes are naturals, capacity and
quota positive). `IInv` says that both tables are well formed (a key is in the
bucket of its hash, the size is the number of chained keys), share no key, that
buckets behind the cursor are empty, that an emptied older table is freed before
a search, and `LoadSlack`. The properties alone are not inductive: the cursor is
in bounds because `ht2.size > 0` forces a key at or after it, which takes the
frontier and exact sizes together; the load is bounded during a migration, when
nobody checks it, because `ht1.size + 2 * ht2.size` is and each insertion that
adds one also moves one. From `IInv`: `TypeCorrect`, `CursorStaysInBounds`,
`SizesAreExact`, `KeysFoundOnce`, `LoadStaysBounded`, `AnnouncementsExact`, and
`ImplementsSet`, the safety half of the refinement of `KeySet`.

`EventLoopProofs`, from `EventLoopAssumption`. `IInv`, which is defined there, adds to
the properties that no timer starts in the future and no reading of the clock is
ahead of it, that `poll_args` is the table until `poll()` returns, that the first
timer will count as expired when the time asked for is over, that `poll()` gives
up no sooner than that, and that a timeout leaves nothing to handle. The list
being sorted turns facts about its head into facts about every connection. From
`IInv`: `TypeCorrect`, `ConnsAndTimersAgree`, `IdleListStaysSorted`, `HandledIsPolled`,
`LoopNeverOversleeps`, `TimeoutsFire`, `NoneExpiredStays`; and `NeverClosedEarly`, of the
steps: a connection is closed by a clock that was read before, never after.

In the same module, about `IdleTimers`: `PointersStayLinked`, that the ring through
the sentinel lists the sequence, in both directions. The lemmas `InsertRing` and
`DetachRing` are about the two functions of `list.h` on any ring; that a node is
never inserted twice, or detached when it is in none, comes from `EventLoop`'s
`OneConnOneTimer`. From the ring follows `HeadIsFirst`: the `Conn` after the sentinel
is the first of the sequence, or there is none. So a step that goes by the pointers
is a step that goes by the sequence: `ImplementsEventLoopHolds`, and what is proved
of `EventLoop` holds with `list.h` under it.

`ZSetProofs`, from `ZSetAssumption` (finitely many names, numbers, fewer than
`Width`; `NULL` is none of them). What a tree is cannot be said of one node and its
links, and a definition along the tree would need an induction. `Shape` says
instead that there are sets `sub[n]`, for each linked node `n`, of the nodes at and
under it, such that

- `SearchTree`: `sub[n]` is `n` and the sets of its children, all nodes are under the
  root, each child points back to its parent, and what is on either side of `n`
  is on that side of it in the order of (score, name);
- `BalancedBut` and `CountedBut`: every node's depth and count are right, and its
  subtrees are balanced, but for one node `c`, where `avl_fix` goes on. The nodes
  above `c` are right for the depth that `c` had before, and their counts are off by
  the one node that was added or taken away;
- `Places`: where `tree_add`, `avl_del` and `zset_query` are in their descent, and
  what they know of the nodes they have passed.

`ZInv` is that, the types, and `Calls`: which operation is in progress, and that each
node of `dels` is the next name after the one before it. `Balanced` and
`IndexesAgree` are about trees at rest; only with the rest of `ZInv`, which speaks of
every iteration, are they inductive. TLC found no violation of `ZInv` on seven names.

Induction over a tree is replaced by two facts: of any set of nodes some node has
the least subtree, and some node one that no other contains (`LeastSubtree`,
`GreatestSubtree`, by the cardinality of `sub[n]`). From these subtrees are nested
(`TreeIsNested`), and what is outside of one is before or after all of it (`Convex`):
so the leftmost node of the right subtree is the next name (`InvVictim`), and may
take the place of the node deleted (`RenamedTree`).

The rotations come first, of any heap: `RotateFields` says what `Rotate` writes,
`RotatedTree` that with the link from above it makes a search tree of the same nodes.
`FixStep` is an iteration of `avl_fix`: if `c` was poised before the depth of one
child changed by one, then after at most two rotations (`FixedInPlace`,
`FixedBySingle`, `FixedByDouble`) what is left to do is above it. `LeafTree` is the
end of `tree_add`, `UnlinkTree` and `RenamedTree` the two ends of `avl_del`.
From `ZInvHolds`: `TypesHold`, `IndexesAlwaysAgree`, `AlwaysBalanced`, and
`ImplementsSortedSetHolds`, the refinement with `member` the scores of the names in
`hmap`: what `zset_query` seeks stays in the subtree of `cur` or is `start`.

`ConnectionProofs`, from `ConnectionAssumption`. The invariant looks at `rbuf` and the
kernel's queue as one sequence, `Pending`, which ends with the byte the client
sends next. Each byte follows the one before it; since a frame is removed whole,
the parser also needs that of bytes of one frame at any distance, which is
`StreamInv`'s last conjunct: it takes the place of an induction along the frame.
`ControlInv` says that a reply is being flushed exactly in `STATE_RES`; `RoomInv` that
`rbuf` is full only while requests are taken from it. From these `TypeCorrect`,
`RequestsStayInOrder`, `RbufKeepsRoom`, `BuffersAlwaysFit`, `StateIsWhatIsAwaited`, and
`RepliesStayInOrder`: what is read, in the kernel and still in `wbuf`, in this
order, is the concatenation of the replies so far.

`SequenceLemmas`. The library's induction takes a predicate as a parameter, which
the provers cannot instantiate; `SetInduction` says the same of a set (`0` is in it,
and `n + 1` with `n`) and needs no parameter. With it a recursive function exists
and has its defining equation (`ConcatsDef` here; `EndsDef`, `ReadsDef`, `SumsDef` in
`ExchangeProofs`), and the loops of the code can be followed for any number of
iterations. The rest is about `FlattenSeq`: of a sequence with one more member, of
two in a row, of pairs.

`KeyspaceProofs` has lemmas only: each command, with any arguments, keeps the
entries typed and each `ZSet` with one entry (`RequestData`), and replies
(`RequestCells`); names, and the tuples of a `ZSet`, are totally ordered, so that what
`zset_query` looks for is the first tuple that is not before the one sought
(`SoughtIsFirst`).

`ServerProofs`, from `ServerAssumption`, `KeyspaceAssumption` and
`ProtocolAssumption`. `SInv` is about who is there: beside `ConnsExact` and `ZSetsOwned`
(`ConnsStayExact`, `ZSetsKeptApart`) no client waits twice in the accept queue,
nothing is left to handle outside the loop over `poll_args`, and `accept` is called
only if someone waits; without these a descriptor could be closed while its
`revents` are still to be handled. `AInv` adds what is on its way: the replies and
buffers are typed (`TypesHold`), and `Flow`: what a client has read, what is in its
socket and what its connection has still to send make up one message, or none.
That is what a reply cut anywhere, a socket closed with cells in it, and an object
used again for another client could break, and from it each step is a step of
`Service` or none: `ImplementsServiceHolds`.

`ExchangeProofs`, from `ExchangeAssumption` and the same. First the two parsers,
which are loops over data:

- `ParsePacked`: of what `send_req` packs, `parse_req` makes the arguments it was
  packed from, whatever follows in `rbuf`. Where argument `k` ends is where the
  first `k` packed strings do (`BodyAt`), by induction on `k`.
- `ParseTakes`: what `parse_req` takes is a body (`IsBody`) of strings. Its check at
  the end is enough although the others are not: once an end is past `len` all later
  ones are (`EndsInside`).
- `Written(c, vs)`: `on_response` reads the reply `c` to its last cell, prints the
  values `vs`, and `c` is as long as they need. It holds of every reply of every
  command: `OneWritten`, `ArrayWritten`, `KeysWritten`, `ListingWritten`, by induction
  on the elements (`ReadsArray`).

The invariant `EInv` says that a message begins with the number of cells that
follow, that a reply is one that is `Written`, and fits; `Asked` that the message is
what the client packed, or no body. From these `ExchangeTypes`, `ReplyWholeHolds`, and
`ImplementsStoreHolds`, with one lemma per command (`GetAbs`, ..., `ZQueryAbs`): for any
arguments, spellings, numbers and limits. That other keys keep their value when a
command writes to a `ZSet` is `ZSetsOwned`; that the answer fits as a value exactly
if it does as cells is `Written`; that a command has one meaning is the assumption
that no word is a spelling of two.

The assumptions on the constants say no more than the code: the spellings of two
commands do not meet (`strcasecmp` against different words), `NULL` is no request
and no `ZSet`, `rbuf` goes on behind a request (it is longer than the largest), and the
error that replaces a reply too big fits itself.

Only model-checked: liveness (`ImplementsKeySet`'s, `IdleConnClosed`,
`ReplyFlushed`, `EveryCallEnds`), which is out of the prover's reach. Every
invariant that a passing run checks is a theorem. Not proved, because they do not
hold, are the properties of section 6.

## 5. What is not modelled

- `zset_dispose` and `entry_del`: nothing calls them.
- The order of nodes in a hash chain, hash collisions of `str_hash` as such
  (`Hash` is a parameter), the format of what the client prints.
- Failure of `calloc` and `new`, which the code does not handle; that of the
  `malloc` of a `Conn`, which it does, is `AcceptNoMemory`.
- Numbers as bytes: a score is an integer, and what `strtod` makes of a string is
  a table; NaN is left out.
- A client other than `client.cpp` in `Server`: pipelining is `Connection`'s, bytes
  that are no request are `Exchange`'s.
- Start-up (`getaddrinfo`, `bind`, `listen`), the demos, the CMake tutorial and
  the build output: no state of the server's own.

## 6. Where the code and its documents disagree

1. `eventloop_readme`: README.md:110 moves an active connection's timer to the
   head of the list; `connection_io` moves it to the tail, which is right.
2. `connection_partial`: `try_one_request` does not check that the body has
   arrived (server.cpp:639-655).
3. `connection_stranded`: a pipelined request behind a reply that met `EAGAIN`
   is not taken up when the reply is flushed (server.cpp:690, 756).
4. `zset_offset`: `avl_offset` adjusts `pos` the wrong way when it goes down
   (avl.cpp:233, 239), against test_offset.cpp:75-81.
5. `zset_ends`: for the same reason its loop may go on for ever.
6. `exchange_set`: `SET` of a key that exists does not store the value
   (server.cpp:339, 357), against the comment at server.cpp:353.

Not in that list, because no document promises otherwise: `DEL` of a sorted set
leaves its `ZSet` allocated (server.cpp:370), an empty argument is the number 0
(server.cpp:143), and a client that has left, or given up before `accept`, can
end the process (server.cpp:234, 785).

## 7. Plan

Done: the data structures, the event loop with its list, the connection, the
commands with protocol and client, and the server as a whole, with the proofs of
section 4. Left, in this order:

1. The step lemma of `avl_offset` (what `pos` should be), and with it how far off
   the code's answers can be.
2. Several pipelining clients in `Server`, with `Connection`'s byte streams, at the
   price of smaller instances.
3. `Keyspace` on `ZSet` and `HashMap` in place of what they promise.
