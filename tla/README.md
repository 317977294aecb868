# TakyonDB: a TLA+ verification project

TakyonDB is an embedded, shared-memory database. Client processes (a TypeScript
SDK over an N-API binding over a C ABI written in Zig) read and write records
directly in a memory-mapped arena. They report what they wrote as small *deltas*
in a lock-free ring in the same segment. One daemon pops the deltas, copies the
bytes they name into a write-ahead log, takes snapshots, truncates the log and,
after a crash, rebuilds the arena from snapshot and log.

The hard part of the system is this durability pipeline:

    client threads --push--> ring --pop--> flusher thread --sectors--> log files
         |                    ^                 |                         |
         +--commit waits for--+--durable_tail---+      snapshot truncates |
                                                                          v
                                                          boot: replay of the log

The project models it from the atomic instructions of the ring up to the recovery
of a log that a crash cut at an arbitrary point. Above it stands the SDK, which is
most of the code: client processes that allocate, write and read the arena without
locks, and a relational layer of tables, transactions, SQL and catalogs. The
project models both.

## Inventory

| Component | State | Operations | Hard behaviour | Correct when |
|---|---|---|---|---|
| Delta ring, `core/ipc/ring_buffer.zig` | `head`, `tail`, `durable_tail`, a sequence number and a 64-byte message per slot | `init`, `push`, `pop`, `publishDurable`, `publishPos`, `durableTail`, `depth` | several producer processes, lock-free; a process can be killed in the middle of a push | FIFO, nothing lost, duplicated or torn; refuses only when full; `durable_tail` is monotone and behind `head` |
| WAL writer, `core/storage/wal.zig` | sector buffer, bytes written, segment number, file, `running`; the log files | `init`, flusher loop, `processDelta`, `writeToBuffer`, `flushBuffer*`, `rotateSegment`, `shutdown` | entries split over sectors and files; padding that looks like data; writes and fsyncs that fail; a crash between any two system calls | the log always replays to a prefix of what was pushed, and to everything declared durable |
| Recovery, `core/storage/recovery.zig` | arena, index | snapshot restore, `replayWal`, `replayOneSegment`, `carryTail` | partial last sectors, misalignment, several files | rebuilds the last durable state |
| Snapshots, `core/storage/snapshot.zig` | snapshot file, time of the last one, log files | `createSnapshot` | fuzzy copy under writers, crash between rename and truncation, throttling | log removed only under a snapshot that covers it |
| C ABI, `core/c_abi/exports.zig` | connection, its reference count | connect, disconnect, write, notify, index, commit, checkpoint, allocation | back-pressure and timeouts; allocators raced by processes | a commit that answers OK is durable |
| Daemon, `server/main.zig` | process lifetime | boot, signals, shutdown | restart under live clients | boots into the recovered state, drains before it stops |
| Shared memory, `core/memory/shm.zig` | segment | create, attach, detach | stale segments | a client never attaches to a half-initialised segment |
| Layout, `core/memory/layout.zig`, `sdk/client/layout.ts`, `schema.ts` | region table in the segment's header | compute, read, validate; compile a record schema | arithmetic at boundaries, two implementations | regions are disjoint and in bounds, fields aligned and apart |
| Index, `core/index/art.zig`, `freelist.zig` | nodes in the arena | insert, search, remove, grow | lock-free writers and readers | a map from keys to offsets |
| Vacuum, `core/memory/vacuum.zig` | string region | compaction | moves bytes under readers | readers see the old or the new string |
| Relational core, `core/relational/` | columns, rows | encode, scan | sequential | round trips |
| SDK client, `sdk/takyon.ts`, `sdk/client/proxy.ts` | the two bump words, records, string region, index (all shared); one call in progress per process | connect, `insert`, `find`, `update`, `upsert`, `delete`, the get and set traps of a record | processes race on every shared word; a full ring, region or index refuses a call halfway through | no byte is handed out twice; what was written is read; the log refers backwards and agrees with memory; every call returns |
| Arena-backed relational modules, `catalog_record.ts`, `secondary_native.ts`, `mirror.ts` | descriptors in the string region, entries in the index | `save`, `load`, `add`, `remove`, `lookup*`, `mirrorPk`, `unmirrorPk` | a descriptor replaced under a reader; check-then-insert; order of concatenated keys | descriptors load whole; unique unless raced; lookups are exact |
| In-process relational modules, `table.ts`, `database.ts`, `transaction.ts`, `executor.ts`, `sql.ts`, `query.ts`, `join.ts`, `pushdown.ts`, ... | tables with rows and secondary maps, a transaction buffer | insert, update, delete, SQL, commit, rollback, queries, joins, aggregates, kernels | a batch that throws in the middle; statements that write what they scan; null and missing cells | maps agree with rows; reads agree with their reference definitions |
| Catalog file, `catalog_store.ts`, `persist.ts` | a JSON file and its temporary | `saveCatalog`, `restoreCatalog` | a crash between two file operations | restores the last completed save |
| Energy sampler, `core/energy.zig` | platform counters | sample | none | pure I/O |

The ring is the only channel between clients and flusher. `durable_tail` travels
the other way, and clients in `takyon_commit` poll it. The flusher thread also
runs the snapshot (a checkpoint is a message in the ring), so snapshot and log
writing never run concurrently with each other, only with the clients. Recovery
runs before the ring is initialised and before the flusher starts. Client
processes meet each other in the arena only: in the two bump words, the records,
the string region and the index, plus the ring they all push into.

Every hazard found in this survey is listed at its source line under "hazards" in
`PROJECT.json`, with the properties that cover it or the reason none does yet.

## Modules

| Module | Models |
|---|---|
| `BoundedQueue` | what the ring promises: a bounded FIFO with multi-step enqueue and dequeue |
| `RingBuffer` | `ring_buffer.zig`, one action per atomic instruction |
| `RingBufferProofs` | the theorems about `RingBuffer` |
| `MCRingBuffer` | instances of `RingBuffer` |
| `WalFraming` | the format of the log: writer side (`Encode`, `Padded`) and reader side (`ScanSector`, `CarryTail`, `ReplayFile`), pure operators |
| `Wal` | flusher, snapshot control, commit, shutdown, crash and boot over `WalFraming` |
| `WalProofs`, `FramingProofs` | the theorems about `Wal`: its control, and what its log replays to |
| `MCWal` | instances of `Wal` |
| `Layout` | `client/layout.ts`, `client/schema.ts`: region table, its validation, record schemas; pure operators |
| `NativeIndex` | `secondary_native.ts`: the keys of a secondary index and its scans; pure operators |
| `CatalogRecord` | `catalog_record.ts`: the byte format of a descriptor, written and read; pure operators |
| `Client` | processes of the SDK over one arena, composing the three above with the ring and the index |
| `ClientProofs`, `RowProofs`, `ReplayProofs` | the theorems about `Client`, each module building on the one before |
| `NativeIndexProofs` | the theorems about `NativeIndex` |
| `MCClient` | an instance of `Client`; checks every record schema of up to four fields |
| `Rows` | `codec.ts`, `column.ts`, `schema.ts`, `table.ts`: rows and one table; pure operators |
| `Queries` | `filter.ts`, `query.ts`, `aggregation.ts`, `join.ts`, `pushdown.ts` and the read statements; pure operators |
| `Relational` | `database.ts`, `executor.ts`, `transaction.ts`, `catalog_store.ts`: the state machine over `Rows` and `Queries` |
| `RelationalProofs` | the theorems about `Relational` |
| `MCRelational` | an instance of `Relational` |

### The ring

A thread's `pc` says which atomic instruction it performs next. `pos`, `prev` and
`msg` are its locals. Every load, store and compare-and-swap of a shared word is
one action, and so is each copy of the 64-byte message, which the code does not
perform atomically. `PushBegin` loads `tail`. `PushFree`, `PushRefuse` and
`PushStale` are the three results of comparing the slot's sequence number,
`PushClaim` and `PushLose` the two outcomes of the compare-and-swap, `PushWrite`
the copy and `PushPublish` the release store that hands the slot over. Pop has
the same shape. `publishDurable` is `DurableLoadHead`, `DurableLoadPrev`,
`DurableCas` (one round of the loop) and `DurableDone`. `depth` is two loads.
`Kill` ends a client process between any two of its steps. The steps interleave
in one total order (sequential consistency). The code's acquire and release
orderings make that adequate for the messages, which are handed over through the
sequence numbers; `head` and `tail` are only compared, claimed by
compare-and-swap, or read for reporting.

`sent` and `returned` are history variables: what was pushed and popped at each
position. The statistics counters (`deltas_dropped` and the like) and a client's
attach to an existing ring are left out.

`RingBuffer!ImplementsQueue` maps the ring to `BoundedQueue`: an item is claimed
with the compare-and-swap of `tail`, ready with the publishing store, taken with
the compare-and-swap of `head`, and its place is free again with the release
store.

### The log

In `Wal` the ring is the queue just described, with push and pop atomic: pushed
deltas are a sequence, `head` the flusher's position in it. The flusher's `pc`
follows `flusherLoop` (`loop`), `processDelta` and `writeToBuffer` (`copy`),
`flushBufferWith` (`write`, `sync`, `publish`, `rotate`) and the checkpoint path
(`drain`, `throttle`, `snap_*`). `back` is the place a flush returns to and
`owner` the loop that popped the delta in hand. Each system call that touches a
file is one action, so crashes and clients come between any two.

The bytes are real. An entry is a header of `HeaderSize` bytes followed by its
data, and the reader reads bytes, so it can lose its alignment exactly as the
code's can. The format is only scaled: a header of 3 bytes (offset, length,
kind) for the code's 8, a payload of 4, 6 or 8 bytes for its 4092. The properties
depend on an entry ending anywhere in a sector, on slack smaller and larger than
a header, and on entries that span two and three sectors. All of these occur at
this scale.

A crash keeps every synced sector and any prefix of the others, the last of which
may be torn (`LiveImages`). Sectors are appended and synced one at a time, so at
most one is unsynced unless an fsync failed. `Boot` is `recoverWal`, the fresh
ring and `WalManager.init`, in that order, with no step of another process
between them.

What `Wal` abstracts: the deltas' bytes are read from the arena when the delta is
pushed, not when it is popped (a later write to the same bytes would be logged
twice, never lost). The snapshot's contents are represented by the position they
cover. A flush without direct I/O and one with it are the same step, and a short
write counts as a failed one. `minIntervalMs` is a free choice to throttle once a
snapshot exists. An archived segment is taken to be on stable storage, which a failed
fsync before the rotation would not guarantee. An unknown entry kind can only be read by a misaligned reader
and stops it.

### The SDK's processes

JavaScript runs one call at a time per process, so `proc[c].pc` names the next
access of process `c` to shared memory, and one action performs it: the
compare-exchange that seeds a bump word and the add that advances it are two, the
two words of a string's fat pointer are stored by two (`SetOffset`, `SetLength`)
and loaded by two, and each native call is at least one. `insert_index` is four:
the admission test, `allocString` for the key, the push with its wait
(`PushKey`, or `PushTimeout` when the ring stayed full), and the insertion into
the index (`Bind`). `Drain` is the daemon's pop, which the modules of the log
refine; in an instance without a daemon it never happens, as in the code.

Arena offsets are real numbers in the geometry of `Layout`, so allocators run
into the ends of their regions where the code's would. The string region is a set
of written spans with a value each, and writing over a span destroys it; decoding
a span nobody wrote gives `Garbage`. Catalog payloads are real byte sequences,
encoded and decoded by `CatalogRecord` with name fields of two bytes (`NameField`)
for the code's 64 and at most two columns for its 32. Names are UTF-8 bytes, and
`Utf16Length` counts the units of such a name, because `encodeCatalogRecord` checks
the one and writes the other. Secondary index keys are real
character sequences, with numbers of three binary digits for eight hexadecimal
ones, and every scan stops at its cap (`LookupCap` for 4096, `RangeCap` for 1024).

Abstracted: the index is an atomic map with a bound on its keys (the node
structure is not modelled); a record has one uint32 and one string field, the
other two widths take the path of the first; values are model values with a
byte length. `granted`, `raced`, `unlogged` and `last` are history variables, and
the guards never read them.

### The relational layer

`Rows` and `Queries` define every operation of the in-process layer as an operator
on a table: the row map in insertion order and a map from rendered value to keys
per unique column. A text is an integer that stands for its place in the
lexicographic order. `String` gives a cell's text: `Num(1)` and the text `1` are
different cells that render alike, and so are a null and the text `null`, a missing
cell and the text `undefined`, because `encodePk`, the secondary maps and the join
compare rendered text while `===` in a filter does not. `JsLess` is JavaScript's
`<`: two texts lexicographically, everything else as numbers, where a null is 0 and a
missing cell or a text that spells no number is NaN, which is neither less nor greater
than anything. Sums are rounded as floats round: integers up to `Exact` are exact,
larger ones go to the nearest multiple of `Grain`, ties to even, so that the
correction of Kahan's sum in `pushdown.ts` is not always 0.

`Relational` is the state machine: one process, one action per call. Calls run to
their end, except `saveCatalog`, whose truncation, write and rename are separate,
each followed by a possible failure or `Crash`. A SQL statement is a record with
what its parser takes from the text; `ParsesInsert`, `ParsesWhere`, `ParsedColumn`
and `ParsesJoin` say which statements the parsers refuse. `Commit` is the
pre-pass and then one operation after another until one throws, as in the code:
the earlier ones stay. The reads (`all`, `executeSelect`, `executeJoin`, the
kernels, the lookups) change no state, and are checked in every reachable state
against their reference definitions.

## Runs

Passing runs (small instances, all reachable states):

| Run | Instance | Shows |
|---|---|---|
| `ring_producers` | two producers (one may be killed), one consumer, 2 slots, 3 positions, fair | no slot race, delivery, bounds, refusal only when full, refinement of `BoundedQueue`; every claimed position is eventually popped unless a killed client left a hole before it |
| `ring_consumers` | one mortal producer, two consumers, 2 slots, 4 positions | `durable_tail` monotone and behind `head`, null only when nothing is published |
| `wal_replay` | one lifetime, four pushes from four kinds of entry | after a crash anywhere, replay is an exact prefix and covers all durable positions, and all that a commit answered for, but the last |
| `wal_restart` | fair flusher, one restart, checkpoints, throttling, sectors of 8 | what a boot recovered stays recoverable, whatever the crash left behind; every delta becomes durable, or the flusher idles for one of two named reasons |
| `wal_faults` | checkpoints, rotation, throttling, failing I/O, one restart | log files go only under a covering snapshot |
| `client` | two processes, nine pairs of scripts, daemon or none, four segments of which three must be refused, fair processes | see below |
| `relational` | two tables; one session that writes, commits, saves and crashes, one that reads tables with null and missing cells, one that reads a nullable column of texts | see below |

`client` checks, besides types: a connected process sees disjoint regions inside the mapping
(`ConnectedLayoutIsSound`); no byte of a region is handed out twice, whichever of the four
allocators race (`GrantsApart`); every key is bound to a span that was allocated for it
(`BoundToAllocated`); a row whose key nobody else touched at the same time holds what was last
written, whatever happens to other keys (`RowsHoldTheirWrites`), and reading it gives that
string (`ReadsLastWrite`); in ring order every pointer follows the announcement of its bytes
(`LogRefersBackwards`), and the pushed deltas replay to what memory holds unless a push was
refused (`LogAgreesWithMemory`); `load` never sees a half-written descriptor and loses no flag,
for table names whose bytes fit their field (`CatalogLoadsWhole`); a unique index has a
duplicate only if two calls on the value overlapped (`UniqueUnlessRaced`); a scan returns the
entries asked for, none more, and none fewer than the first in key order that its cap leaves
room for (`LookupsAreExact`; two entries of one value meet a `LookupCap` of 1, three in a range
a `RangeCap` of 2; values without the separator, primary keys below the sentinel); every call
returns or throws (`CallsReturn`). The conditions on `raced` and `unlogged` are where the code
stops promising: concurrent writers of one field can leave an offset of one and a length of the
other, the unique check is a scan before an insert, and a write refused for back-pressure stays
in memory, as `BackpressureError` says.

`relational` checks, besides types: secondary maps say what the rows say after any
mix of calls that returned or threw (`SecondaryMatchesRows`); rows are stored under
their own key (`KeyedByPk`) and stay valid under any sequence of patches
(`RowsValid`); lookups and constraint checks by scan agree with the maps, for values
other than the texts `null` and `undefined`, which a map files with the cells that are
null or missing (`ScanAgreesWithMap`); a commit that returns did what the last operation
on each key says and nothing else, one that throws keeps the buffer and leaves the effect
of a proper prefix of it (`CommitEffects`, what the code does; `relational_comments` holds it
against its comments); after a crash at any point of a save, the last completed save
is restored (`CatalogRestored`); pages tile, SQL agrees with the builder, and sorting is
stable, and ordered where JavaScript's `<` is an order: all texts, or numbers and nulls
(`SelectsMatch`; with nulls among texts, or missing cells, the comparison is no order and
the property claims none); the hash join is the nested loop with the right table outside
(`JoinIsNestedLoop`); the columnar kernels agree with row predicates and aggregates on
every operator, `ne` included, null and missing cells included (`PushdownAgrees`: `ne` alone
selects cells without a number, and then the kernel's sum is NaN, and its minimum and
maximum infinite if there is no number at all, where the aggregate skips them; sums
agree while nothing is rounded); and where sums are rounded, the kernel's is off by less
than one last place of the column's weight (`SumIsCompensated`).

Runs that are expected to be violated, each stating what comments or documents
of the repository say. The findings in `PROJECT.json` quote them.

| Run | Says | What the code does |
|---|---|---|
| `ring_killed_client` | everything below `publishPos` is eventually covered by `durableTail` | a client killed between claiming a slot and publishing it blocks the ring for good, and acknowledged pushes behind it are never logged |
| `wal_commit` | everything below `head` is on disk when `durable_tail` is published | when a delta's first bytes fill the sector, the publication covers that delta although its rest is still in memory, and a commit answers OK |
| `wal_append` | a killed daemon recovers what it acknowledged | the restarted daemon appends behind a torn sector or half an entry, and replay never gets past it, or misreads what follows |
| `client_comments` | at every step, one at least of four comments on the SDK is right | one step contradicts all four |
| `relational_comments` | at every commit, one at least of six comments on the relational layer is right | one commit contradicts all six |

The last two check a disjunction, `CommentsHold` of `Client` and of `Relational`,
whose parts are definitions of their own: a step that violates it violates
every part, so each comment is refuted by the one behaviour found.

| Part of `CommentsHold` | The comment | What the code does |
|---|---|---|
| `NothingForged` | arbitrary text in a value cannot forge the separator | a value with the separator in it is found under its part before the separator |
| `AllAdmitted` | the upper bound of a range admits every primary key | a primary key that begins above U+FFFF lies behind the bound, and its row is missing |
| `NamesFitOrThrow` | a name is rejected rather than cut, so a saved descriptor decodes | the check counts UTF-16 units and the bytes are written: a name of non-ASCII characters is written over by the first column, and loading what was just saved throws |
| `RefusedDidNotFit` | the set trap's allocation mirrors `allocString`, and refuses a string when the region is exhausted | the bump word moves before the bound is checked, so one oversized string makes every later one fail in a free region |
| `NoPartialApply` | a commit applies without partial apply | one that throws leaves the operations before the failing one applied |
| `BufferCleared` | the buffer is cleared either way | one that throws leaves its operations buffered |
| `UniqueEnforced` | `insert` enforces UNIQUE (`docs/relational/query-api.md`) | it does not look at the flag |
| `NegativeOffsetIsZero` | a negative offset is 0 | it counts from the end |
| `JoinInLeftOrder` | left rows in scan order | the right table's scan order is the outer one |
| `SelectedMinMatches` | the minimum of a selection is 0 rather than infinity | over cells without a number, which `ne` selects, it is infinity |

`wal_replay` says what remains true beside `wal_commit`: only the *last* position
below `durable_tail` can be missing. The passing and the violated `DurableButLast`
differ in their instance: it holds within one lifetime without checkpoints and
rotation, and needs a restart (`wal_append`) or a checkpoint (see *Known limits*)
to fail.

`wal_restart` names the two reasons why a delta may never become durable
although the daemon runs. The first is a sector with 1 to `MIN_PADDING - 1` bytes
of slack: the idle flush returns without writing it, and not "at most 5 bytes"
(the comment at `wal.zig:580`) but the whole sector waits for a further delta,
while commits time out. The second is a delta that adds no bytes (a checkpoint, or
an entry `processDelta` drops) at the end of the ring.

### Bounds

`MaxPos` = 3 or 4 over two slots takes one or both slots into a second lap, which
is where sequence numbers of different laps meet (the safety properties are also
proved without bound); two threads on one side suffice for each race on
a compare-and-swap. In `Wal`, `MaxPush` of 3 or 4 entries of 4, 5 and 10 bytes
over sectors of 6 and 8 reach every alignment of an entry to a sector, `RingCapacity`
= 2 makes the ring fill, `SegmentMax` = 1 rotates after every sector and
`MaxSegments` = 2 reaches the cap. In `wal_faults` the data is one small entry
and the sector 4 bytes, because its properties are about control. `SegmentMax` =
100 means "no rotation". Deadlock checking is off in these runs because the bounds
stop the clients and a daemon that is down may stay down.

In `Client`, two processes suffice for every race of two accesses. A ring of two slots fills
within one insert with a string, so every push meets a full ring in some behaviour; two records
and a string region of 40 bytes run out; `ArtCap` = 3 refuses the fourth key. `Workloads` bounds
what applications do: nine pairs of scripts that put two calls on different keys, on one key, on
one table, on one index value, and every refusal, against each other in all interleavings.
`LookupCap` = 1 and `RangeCap` = 2 are met by the five entries; `NameField` = 2 holds a name of
two ASCII characters, and one non-ASCII unit of three bytes passes the check and does not fit.
`client_comments` has room for five keys and 60 bytes of strings, so that all its calls but the
refused ones succeed. `Word` is larger than any bump word these scripts reach. Deadlock checking
is off because applications finish their scripts.

In `Relational`, `Writes` allows two rows per table and two buffered operations, which is enough
for a batch to fail after its first operation and for a multi-row UPDATE to throw in the middle;
`Reads` allows three rows, the fewest that distinguish a stable from an unstable sort and page
from rest; `Texts` is `Reads` over a column of texts, one of which spells a number and one is
`null`. `Word32` = 16 puts the target 17 beyond a 32-bit cell, and with `Exact` = 8 three rows
of 8, 1 and 1 lose 2 in a plain sum and nothing in Kahan's. `CellNumbers` and `CellTexts` are
five numbers of one digit and ten texts, those digits among them. `ColumnNames` are the three
columns these tables have. Inputs include a row without its key, a key that spells a number,
nulls, a key-moving patch and a wrongly typed one. Deadlock is checked.

### Fairness

`RingBuffer!FairSpec` gives weak fairness to every thread's steps inside a call
(a thread that runs is scheduled again) and strong fairness to a consumer's start
of a pop: the flusher's loop comes back to it after whatever it does in between,
and a `publishDurable` in progress disables it for a while. It gives none to
starting a push, and none to a thread whose process was killed.
`Wal!FairSpec` gives weak fairness to the flusher thread only, which is an
infinite loop that never waits for a client. Clients, crashes and shutdown are
never assumed to happen.
`Client!FairSpec` gives weak fairness to the steps of every process inside a
call: a process that runs keeps running, and the wait of a push is bounded. It
gives none to starting a call nor to the daemon's `Drain`, so `CallsReturn` holds
with a daemon that has stalled.

## Proofs

`RingBufferProofs` proves, for any sets of producers and consumers, any capacity
of at least two and any bound on positions (`RingAssumption`): `TypeOK`,
`DeliveredAsSent`, `NoSlotRace`, `Bounded`, `DurableBehindHead`, the action
property `MonotoneCounters`, and that the ring implements `BoundedQueue`.

None of these is inductive. The invariant `RingInv` is a conjunction of named
parts:

- the *window*: `durable_tail <= head <= tail <= head + Capacity`;
- *occupied*: below `tail`, the slot of a position of the window is claimed
  (sequence number `p`) or published (`p + 1`, and then it holds what was sent);
- *vacant*: from `tail` on, the slot is free (`p`) or still being read by a pop of
  the previous lap (`p - Capacity + 1`);
- *writer and reader own the slot*: a thread between its claim and its release is
  the only one at its position, and the slot's sequence number stays what it was
  when claimed;
- *locals are fresh enough*: a loaded position is never ahead of the counter it
  was loaded from;
- *returned*: what was read from a slot is what `sent` records for that position.

The compare-and-swap steps carry the argument. A thread that loaded a matching
sequence number, and later finds the counter unchanged, knows that the slot did
not change either, because only the owner of that position may change it and
there is none before the claim. The arithmetic fact behind it is that two
positions less than a capacity apart never share a slot; it is a lemma of its
own. Every action has one step per part it can disturb. The refinement theorem
maps each action to a queue step or a stutter under the same invariant.

`RefusedOnlyWhenFull` says that a push is refused only while the message one lap before
its position has not been returned by a pop, `NullOnlyWhenUnpublished` that a pop answers
null only while the position it loaded is not published. Both come from `LagInv`, which says
why a slot's sequence number lags: an unpublished position between `head` and `tail` has a
producer that claimed it (`Claimed`), and a slot that is not free for its next lap holds a
message no pop has returned (`NotReturned`).

`WalProofs` proves about `Wal`, for any set of deltas, any ring, sector and
segment size, with and without failing I/O (`FramingAssumption`,
`WalAssumption`, `DeltasAssumption`, `NoFileAssumption`): `TypeOK`, whose
substance is that the sector buffer never overruns, whatever failed before, and
that `durable_tail <= head <= tail`, and
`RemovedOnlyUnderSnapshot`. The inductive invariant `WalInv` adds to `TypeOK`
that commits answer for positions at or below `durable_tail`, that nothing is
popped between the publication of a snapshot and the truncation (so
`snap = head` there), and that no commit waits on a daemon that is down.

### What the log replays to

`FramingProofs` is about the bytes: any entries, any size of a sector, any
interleaving of clients, flusher and crash. The scan of a sector, the reader of a
file and the list of logged deltas are recursive functions. The prover has no
induction over them, but it can use the least element of a set of naturals
(`WellFoundedInduction`), so the module starts by showing, by induction on the sets where
they hold, that each of these functions exists, satisfies its equation, and depends
on nothing but the bytes it reads. Then come the facts about the framing itself:

- a whole entry is read back as it was buffered, whatever follows (`ConsScan`);
- the bytes of less than one entry are carried (`PartialScan`);
- so a scan of the first bytes of a list of entries, cut anywhere, applies the
  entries that are whole and carries the rest (`PrefixScan`);
- padding of at least a header ends the sector and carries nothing, padding of
  less is carried (`PaddingScan`): this is `MIN_PADDING`, and the reason why the idle
  flush may not pad less;
- what a crash leaves reads like the sectors that survive whole (`ImagesRead`).

The inductive invariant `ReplayInv` says that the popped deltas are the entries the
reader has applied followed by others whose bytes are its carry, the sector
buffer and the bytes in hand, in this order (`IsFramed`). Every action moves bytes
from one of these places to the next. It gives `ReplayIsPrefix`. `DurableInv` adds that a
delta in hand is the last one popped; because a written sector leaves less than
one entry beyond what is in hand unread, only that last one can be missing when its position
is published. It gives `DurableButLast`. Because a commit answers for positions at or below
`durable_tail` (`WalInv`), and a longer list of entries has no fewer of them, it gives
`CommittedButLast` too: whatever a crash leaves, replay covers all that a commit answered RC_OK
for, but the last.

All three are about a lifetime without a checkpoint, a rotation, a failing write or a
restart (`Undisturbed`), the last two also without a failing fsync. These are not
conveniences of the proof: each excluded step can leave the log misaligned in
the code, and *Known limits* says how. Clients, commits that time out, the cap on
segments, shutdown and crashes at any point are included.

`RecoveredStays` has the opposite shape: restarts, checkpoints, failing writes and
torn sectors are included, and `KeepsLog` excludes rotation and failing fsyncs
only. Its invariant `RecoveredInv` says that what was recovered is what the reader has after
some sector that is on stable storage; nothing before the first bad sector ever changes,
whatever is appended behind it.

### The SDK's processes

The theorems about `Client` hold for any number of processes, any workloads, any
segments and region tables (also ones that `validateRegions` refuses), any size of
ring and index. The assumptions on its constants are named in `Client`: a mapping is shorter
than 2^32 bytes, as `layout.ts` stores offsets in 32 bits (`SegmentAssumption`); the four kinds
of keys live in the one index under prefixes that keep them apart
(`NamespaceAssumption`); an entry of a secondary index is two character sequences
(`EntryAssumption`); scripts consist of the calls of the SDK (`WorkloadAssumption`).
The invariants, each inductive together with those above it:

- `BaseInv` (`ClientProofs`): types, what the locals of a call hold at each `pc`, and that a
  connected process has passed `readRegions` and `validateRegions`. It gives `TypeOK` and
  `ConnectedLayoutIsSound`.
- `AllocInv`: the offset in a call's hands, and every binding, starts a granted
  span. It gives `BoundToAllocated`. It holds even if a bump word wraps.
- `LogInv`: the bytes a call is about to refer to have been announced in the ring.
  It gives `LogRefersBackwards`.
- `UniqueInv`: two calls that are inside `insert_index` for one value at the same time are on
  record as overlapping, and a call past its scan has seen every entry bound before it began.
  It gives `UniqueUnlessRaced`.
- `GrantInv`: grants lie below the bump word of their region and
  apart. It gives `GrantsApart`.
- `RowInv` (`RowProofs`): records beyond the bump word are zero; no two keys share a
  record, bound or in a call's hands; written spans of the string region, and spans about to be
  written, are apart; a string's pointer is stored only after its bytes; what a
  call has loaded from its row is still there; and a row agrees with what was
  last stored in it, except between the two words of a pointer. It gives
  `RowsHoldTheirWrites` and the action property `ReadsLastWrite`.
- `CatalogInv` (`RowProofs`): a call that is about to write, announce or bind a descriptor,
  or to read one, has in its hands, and a bound table has in the index, a span that holds a
  whole encoded descriptor of that very table, with columns some workload saves; a save
  keeps the columns it was given; and a call has no answer before it returns. It gives
  `CatalogLoadsWhole`, with two facts below.
- `ReplayInv` (`ReplayProofs`): no delta speaks of a record not yet handed out, nor of one not yet
  bound; a call knows what the log says of its row; and log and row agree except
  for the step that follows a push, or precedes it. It gives `LogAgreesWithMemory`. What the log says is
  the last delta on a field, a maximum of a set of positions. That such a maximum
  exists would need induction on the set; here it is a conjunct of the invariant
  (`LastOnes`), because the log grows by one delta at a time.

The last four rest on one hypothesis about the behaviour, `[][BumpsForward]_vars`: no
step moves a bump word back. It is needed because the code does not take back a refused addition, so
after 2^32 bytes of refused allocations the word wraps and hands out the same
bytes again (see *Known limits*). Every step the model takes while the words are below
their limit satisfies it, and the runs of TLC, where `Word` is out of reach, check these
properties without it.

`CatalogLoads` needs two facts about data. A written span stays what it is, because spans do not
overlap (`RowInv`). And the decoder inverts the encoder (`CatalogRoundTrips`), for whatever the
encoder accepts if the bytes of the table's name fit their field (`FitsField`). The code does
not check that (run `client_comments`), so `CatalogLoads` has it as a hypothesis on the tables'
names (`NamesFit`). `encodeCatalogRecord` is stated by position, byte `j` of column record `i`
at `(i - 1) * width + j`, as the code writes at computed offsets, so no induction over the
columns is needed. The division and remainder that find the record of a position are undone by
`PlaceOf`; the type byte by the types being distinct; the flag byte by its three bits being
independent.

`NativeIndexProofs` proves about any set of entries that `lookup`, `lookupRange` and
`lookupNumericRange` find what they were asked for, up to the caps: the first entries in the
order of keys, and all of them if they are no more than the cap (`LookupMissesNone`, which also
says that a lookup of a value with entries is never empty, which is what the unique check
needs). The separator sorts below
every printable character, so the byte order of keys is the order of values, and a prefix ends where the
value does. `LookupsExact` lifts this to the states of `Client`. The hypothesis,
`WellEncoded`, is that values and keys are printable and numeric values have the fixed
width; `client_comments` shows what a value with the separator, or a key above the sentinel,
does. Digits are the
model's three binary ones: the digits of a number are a recursion over the width, which
cannot be proved about for every width.

### The relational layer

`RelationalProofs` holds for any table and column names, any sessions of typed inputs
(`SessionAssumption`: rows and patches hold cells, declared columns are column
definitions, statements, queries and joins are what the parsers and the builder make of them),
any number of rows and any length of the buffer. Cells are not restricted to the values of the
runs; `TextAssumption` says what `String` and `Number` do with their texts: a number is read back
from its spelling, the empty text reads as 0, `null` and `undefined` as no number. The modulus of a
32-bit cell and the last exact integer are any positive numbers (`WordAssumption`).

The inductive invariant `RelInv` has three parts. `VarsTyped` is about the session and the
buffer. `CatalogInv` says that the order names each table once and that every table satisfies `IsTable`:
its columns are a valid schema, each row fits them and is under its own key, no key
occurs twice, and the secondary maps are the function `Secondaries` of the rows.
`FileInv` says that the file stores the definitions of the last completed save, and
that a temporary file about to be renamed stores those of the present catalog: no table can be
created or dropped between the two, because `saveCatalog` runs to its end.

- *Maps.* `indexRow` adds one row to a map that is right for a set of positions and `deindexRow`
  takes one away (`EntriesGrow`, `EntriesShrink`; the latter needs that no key occurs twice). A
  map depends on its rows and not on their positions (`EntriesMove`), so removing a row from the
  middle is no different. `update` is a removal followed by an addition. This gives
  `SecondaryMatchesRows`, `KeyedByPk` and `RowsValid`.
- *Batches.* A batch is a recursive function of the number of operations done. It exists and
  satisfies its equation by induction on the set of numbers for which it does, as in
  `FramingProofs`. Tables stay tables whatever the batch does; one that throws did a proper
  prefix; and one that returns leaves under each key what the last operation naming it said,
  since every other operation keeps that key (`OutcomeTakes`, `BatchSettles`). This gives
  `CommitEffects`.
- *Scans.* Loops over an array are such functions too: `LoopExists` gives the function,
  `LoopUnique` its values. The positions a filter keeps are listed once each and in order
  (`PositionsList`), so a scan answers the matching rows (`ScanWorks`). A cell of a column's
  type is determined by its text unless that is `null` or `undefined` (`TextsTell`). This gives
  `ScanAgreesWithMap`.
- *Columns.* A columnar filter and a row filter keep the same positions, for every operator and
  target, null and missing cells included. Over rows that hold a number in the column, the
  accumulator of `aggregate` and Kahan's pair go in step as long as the column's weight, the sum
  of its magnitudes, is exact: then no addition rounds and the correction stays 0; the running
  extremes are those of the cells so far, rounded or not. `aggregate` skips what `columnize`
  marks invalid, so it answers the same over the valid rows alone (`SkipsWork`). This gives
  `PushdownAgrees`.
- *Joins.* What the hash map holds under a text are the left rows with that text, in their order
  (`HashedWorks`), so each right row in turn adds what the nested loop's turn adds
  (`TurnAgrees`, `ProbesNest`), and `executeJoin` keeps the same positions of both
  (`JoinWorks`). This gives `JoinIsNestedLoop`.
- *Selects.* Placing a row behind those whose rank is not greater keeps what is sorted sorted,
  because these are an initial segment and its length is their number (`PrefixCounts`,
  `PlacedOrdered`); equal ranks stay in scan order because no row is scanned twice
  (`ScanDistinct`, from the keys being apart). The order is one only where all cells are texts,
  or all are numbers and nulls, which is what `SelectsMatch` asks. Slices are pieces of the
  sorted rows, and adjacent pieces join (`PagesTile`). A statement with at most one condition
  asks what the query asks (`StatementAsks`). Projection distributes over the pages
  (`ShownJoins`). This gives `SelectsMatch`.
- *The file.* A column comes back with all its flags (`ColumnsComeBack`), and booting the stored
  definitions into an empty catalog gives them back in their order (`BootRestores`). This gives
  `CatalogRestored`.

### What is only model-checked

Every invariant and action property of the passing runs but one is a theorem, and so is the
refinement of the abstract queue, under the hypotheses named above: what `GrantInv`, `RowInv`,
`CatalogInv` and `ReplayInv` of the processes give, with bump words that never wrap;
`CatalogLoadsWhole` also with names that fit; `LookupsAreExact` with well encoded entries; the
replays with the steps their theorems admit. The one is `SumIsCompensated`, whose bound is an
argument about rounding errors. It stays with TLC, and so does liveness (`EveryPushConsumed`,
`EventuallyDurableOrHeld`, `CallsReturn`): it rests on fairness, which is beyond the prover.

## Known limits of the code

Where the modelling met a difference between what the code does and what a
comment or document of the repository says. Those with a run are in the tables above and in
`PROJECT.json` under "findings"; the others are recorded here.

Log:

- A checkpoint forces a flush in the middle of the log (`wal.zig:566`), although
  `wal.zig:416-418` says a short tail is written only at shutdown. If the
  checkpoint then takes no snapshot, one or two padding bytes are carried into the
  next sector and misalign the reader. `DurableButLast` fails in an instance with
  checkpoints.
- Rotation is triggered by the sector and splits an entry between two files; each
  file is replayed with an empty carry and the live file before the older archives
  (`recovery.zig:677`, against `wal.zig:271-274`). `ReplayIsPrefix` fails with
  `SegmentMax` = 1.
- Shutdown stops the flusher at the next check of `running`, whatever the ring
  holds (`wal.zig:552`, against `docs/operations.md:25`). `Wal!ShutdownDrains`
  states the drain; it does not hold.
- `insert_index` says a full ring answers -1 and answers -2; `allocString` says its
  offsets are aligned to 8 bytes, which the SDK's unaligned adds on the same word
  undo; `remove_index` logs nothing, so a replay brings the key back.

SDK client:

- `Collection.insert` publishes the key before the fields are filled, so another
  process can find a row of zeros; a field that throws leaves the row behind.
- A key of 256 characters passes `keyError` and exceeds the engine's limit once its
  collection's name is in front, so the `RangeError` called unreachable
  (`takyon.ts:143-145`) is reached.
- An empty string cannot be assigned: `notifyArena` refuses zero bytes.
- Refused additions are not taken back from the bump words; after 2^32 bytes of
  them the word wraps, against "nothing moves the word backwards".
- If the index is full, `insert_index` fails after its delta was pushed: the key
  is in the log and not in memory.
- Without a daemon nothing drains the ring, so writes throw `BackpressureError`
  once it is full.
- `layout.ts` has a ring header of 192 bytes, `layout.zig` one of 448.

Relational layer:

- Deleting and inserting one key in a batch is refused by the pre-pass. Multi-row UPDATE and
  DELETE are not atomic.
- `CatalogRecordStore.save` bounds its payload by the end of the mapping, not of
  the string region; the decoder ignores the padding of the table's name.
- `lookup` returns at most 4096 entries, and a range at most 1024 unless asked for more; a
  result that was cut does not say so (`lookupRange`'s comment admits it, `lookup`'s is silent).
- The comment on `HI_SENTINEL` calls the upper bound of `scan_range` exclusive; `art.zig:864`
  and its tests have it inclusive, as has the model.
- A table looks cells up by their text, so the key `'null'` of a secondary map holds the rows
  with that text and those with a null. `ORDER BY` over nulls among texts, or over missing
  cells, has no consistent order.

## Plan

Modelled so far: the ring, the log, the snapshot's control, the SDK's processes and
the relational layer. Next, in this order:

1. Recovery with arena values: snapshot restore followed by replay, stale archived
   segments after a crash in the cleanup loop, and `remove_index`, which is not
   logged. Composes `WalFraming`, `Wal`'s disk and `Client`'s deltas.
2. The segment's creation and attach protocol (`shm.zig`, the ring's
   re-initialisation under live clients) and the connection's reference count.
3. The radix tree under concurrent insert and search, and its freelist.
4. The vacuum under concurrent readers; the snapshot's copy under writers.

## Not modelled

Energy sampling, the admin endpoint, configuration, logging, the addon loader, the
scrub's report, the N-API marshalling and the repository's scripts are input and
output around the core. Statistics counters influence nothing.

Of the SDK: `commit`, `checkpoint`, `vacuum` and `ringStats` are single calls into
the binding; `uint8` and `float64` fields take the path of `uint32`; the text of SQL
statements (tokens, quoting, literals) is represented by what the parsers take from
it; LIKE, default values, bool and bytes cells, and the cache of compiled WHERE
clauses (which goes stale when a caller mutates a clause) are left out. Two
processes that save one catalog file share its temporary file; the model has one.

Shared memory creation, the radix tree, the vacuum, record checksums and the
column formats of `core/relational/` are still to be modelled, as the plan says.
