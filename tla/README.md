# KVMemo in TLA+

This directory specifies and checks the core of KVMemo, the in-memory key-value
store of `src/src`: the sharded store with its LRU eviction and expiry, the
engine above it, the request path from the socket to the reply, the command
line client, the thread pool, and the latency statistics. Paths below are relative to `src/src` unless they begin with `docs/`.

Contents: 1 inventory, 2 modules and code, 3 runs, 4 disagreements with the
documents, 5 bounds, 6 fairness, 7 proofs, 8 what is only model-checked,
9 what is not modelled, 10 plan.

## 1. Inventory

| Part | State | Operations | Must hold |
|---|---|---|---|
| `core/lru_cache.h` | recency list and map to its nodes | Touch, Remove, EvictionCandidate, PopEvictionCandidate | the list is the order of last use; overflow is reported exactly at the capacity |
| `core/ttl_index.h` | ordered map expiry time -> keys, map key -> time | Upsert, Remove, CollectExpired | the two maps stay inverse; a sweep finds exactly what is due |
| `core/entry.h`, `core/shard.h` | hash map of entries, recency list, index, one mutex | Set, SetWithTTL, Get, Delete, GetAllKeys, Size, CleanupExpired | the three structures agree after any sequence of calls; bounded; LRU eviction; no live entry is lost otherwise |
| `core/shard_manager.h` | vector of shards | routing by hash, GetAllKeys and CleanupExpired shard by shard | a key lives in one shard |
| `core/kv_engine.h` | its own `TTLIndex` **without a lock**, pointers to the rest | Set, Get, Delete, GetAllKeys, ProcessExpired, ProcessEvictions | atomic for callers; index agrees with the entries; expires only what is due |
| `eviction/*` | LRU list, byte counter (`size_t`) | OnRead, OnWrite, OnDelete, CollectEvictionCandidates | the list agrees with the shards' lists; the counter means something |
| `server/thread_pool.h` | queue, stop flag, mutex, condition variable | Submit, WorkerLoop, destructor | order, no lost wake-up, shutdown drains and ends, tasks run |
| `server/server_app.h`, `net/*` | select loop, map fd -> connection with two buffers | ProcessConnections, ConnectionSafeProcess, Accept, read, write, Remove | frames are the stream, replies in order, sockets managed, everyone served |
| `protocol/*`, `server/dispatcher.h` | buffers | NextFrame, Parse, Dispatch, Serialize | framing independent of how bytes arrive; errors execute nothing |
| `client/*` | socket | Connect, SendCommand, Set, Get, Delete, the prompt loop | the replies reach the user in order and, but for a reset or a NUL, unshortened; a command returns; an answer is that of its own command |
| `metrics/latency_tracker.h` | two atomic counters, a range under a mutex | start, stop, snapshot | a snapshot has all that is finished and nothing that never began; statistics do not go back |
| `metrics/metrics_registry.h`, `metrics_snapshot.h` | a map of counters, a plain record | | |
| `common/*` | wall clock, configuration, logger | NowEpochMillis, Config::Validate | |

How they interact. `main` builds a `ServerApp` and calls `Run`. Its only thread
selects over the listening socket and all connections, accepts at most one
client per round, reads at most one chunk from each ready connection, and
handles every complete frame of it: parse, dispatch into the engine, serialize,
write. The engine calls its shards, its own index, and the eviction manager,
one after the other, each call under the lock of the part called and none under
a lock of the engine. `ProcessExpired` and `ProcessEvictions` exist for
maintenance threads; the server starts none, and it starts no thread pool
either. The documents and the tests do use the engine from several threads.
The client sends one line and takes one recv for the answer. The latency tracker
is a class that threads of any component could share; none does yet.

What is hard here. A shard updates three structures by hand in each method. An
engine call is several critical sections, so two threads meet between them. The
engine's index is shared and unguarded. Expired keys are collected first and
deleted later. The clock is `system_clock`, which may be set back, and is read
twice for one Set and once for every entry of a GetAllKeys. The counter of the
memory tracker is unsigned. The condition
variable is notified after the mutex is released. Sockets are blocking, bytes
arrive cut anywhere, descriptors are reused, and clients leave at any time.
The client has no framing of its own, makes a C string of what it receives,
ignores what send returns, and meets a server that may close or reset at any
time. The latency tracker changes its
counters outside the mutex that its snapshot holds.
`PROJECT.json` lists these hazards line by line.

## 2. Modules and code

| Module | Code | Form |
|---|---|---|
| `LRUCache` | `core/lru_cache.h` | operators on the list; `NodeOf` is the map of the code |
| `TTLIndex` | `core/ttl_index.h` | operators on a record of the two maps |
| `ShardOps` | `core/entry.h`, `core/shard.h` | one operator per method, on a record store/order/ttl |
| `Shard` | `core/shard.h` and its callers | state machine: one action per public method, and the clock |
| `ExpiringCache` | none | abstract: a bounded map with expiry times |
| `KVEngine` | `core/kv_engine.h`, `core/shard_manager.h`, `eviction/*` | state machine: threads inside engine methods |
| `AtomicStore` | none | abstract: a map on which calls act at one instant |
| `ThreadPool` | `server/thread_pool.h` | state machine |
| `Protocol` | `protocol/*`, `server/dispatcher.h` | operators from bytes to reply |
| `Server` | `server/server_app.h`, `net/*`, `main.cpp` | state machine: start, loop, kernel, clients |
| `Client` | `client/*`, with `Protocol` as the server | state machine: prompt, connection, server |
| `LatencyTracker` | `metrics/latency_tracker.h` | state machine: threads inside record and snapshot |
| `MC*` | none | instances for TLC |
| `ShardLemmas` | none | lemmas about the operators of a shard, and about sequences |
| `ShardProofs`, `ThreadPoolProofs`, `KVEngineProofs`, `KVEngineAgreement`, `ServerProofs`, `ClientProofs`, `LatencyProofs` | none | the theorems of each component |

`ShardOps` extends `LRUCache` and `TTLIndex`; `Shard`, `KVEngine` and `Protocol`
extend `ShardOps`; `Server` and `Client` extend `Protocol`. Each `*Proofs` module
extends its component's module and, but for those of the thread pool and the
tracker, `ShardLemmas`; `KVEngineAgreement` extends `KVEngineProofs`.

**Shard.** A method holds the shard's mutex from beginning to end, so it is one
action. An entry is its value and `expire_at`, 0 for none, computed modulo
`TimeMod` as the code does modulo 2^64; the TTL may be any `Timestamps`, 0 included.
`GetAllKeys` asks every entry at a time of its own, because `IsExpired` reads the
clock anew for each, and leaves the clock anywhere. `CleanupExpired` takes any
time as its argument, because its caller reads the clock before it gets the
mutex. `LeftOver` is what the index keeps of a time that a SetWithTTL of 0 has
overwritten in the entry; in `ExpiringCache` these keys are `stale`. `last`
records the last call and what it returned. `usedAfter` is a history variable:
for every key, the keys used since it was; it defines least recently used
without the list that implements it.

**KVEngine.** `call[t]` is the method thread t is in and the next critical
section it will enter. Accesses to the unguarded `ttl_index` have a begin and
an end; when two overlap and one writes, the program's behaviour is undefined
and the model stops there (`NoDataRace` is part of every guard). Maintenance
threads may be the client threads themselves (one thread that does everything)
or others. Sweepers are threads that call the manager's CleanupExpired, which
nothing in the program does yet, with the time at which they began. `ScanShard` reads
the clock for each entry of its shard, every reading one that can follow the
present (`Later`). Memory is counted in entries, because every Reserve and Release
moves the constant 100 bytes.

**ThreadPool.** A step is one critical section or one notification. A worker
"sleeps" in `condition_.wait`, and wakes by notification or spuriously.
`TakeTask` does not execute the task, because `WorkerLoop` does not.

**Protocol and Server.** A stream is a sequence of symbols: CR, LF and words,
where a word stands for a run of bytes with its blanks. Symbols arrive one by
one. `loop.at` is the position of the server's thread: at its start, where
creating, binding or opening the listening socket may fail, in select, about to
accept, at the next ready descriptor, in a connection's frames, in a write, or
gone with the process. `frames` and `stream` are histories: what was cut from a
connection and what was read from it. A reply carries the request it answers.
The engine behind the dispatcher is a single shard: on one thread, with no
maintenance calls, a reply is that of the shard holding the key. A request
reads the clock once, and KEYS once for each entry; it may have been set to
anything before each reading, so `HandleFrame` takes any time for the request
and any for each entry.

**Client.** The bytes of a reply matter only by whose they are: part j of the
reply to the n-th line is `<<n, j, b>>`, two parts for a line and its end, four for
a bulk string (`Parts`), with b saying that the part begins with a NUL: a word
of `Nul` has one, and a reply with such a word has it at the beginning of its
second line (`HasNul`). The network hands over parts one by one; recv takes what
is there, up to `RecvSize` (`Taken`), and SendCommand returns it as a C string, so up
to the first NUL (`UpToNul`). `sent`, `replies`, `taken` and `answers` are histories
of the lines, of what the server answered, of what recv took and of what
SendCommand returned. The server is the request path of `Protocol` on this one
connection, with a clock that may move on while it answers. It
may end at any time, and it closes the connection on a line of blanks; closing
with bytes unread resets it, and so does a send after the close. A reset may
cost the replies that are still on their way. `GetResult` is how `KVClient::Get`
reads an answer.

**LatencyTracker.** The two additions of record are relaxed, so they are two
steps in either order, and so are the two loads of snapshot. The addition could
also move into record's critical section, where no snapshot can see it. Only the
loads are exposed to other threads while the mutex is held, so the guarded part
of record is one action (`UpdateRange`), and snapshot is four. `begun` and `done`
are histories: the latencies in the order of the calls, and in that of the mutex.
The sum is not taken modulo 2^64, which would take centuries of nanoseconds.

**Seeded faults.** Each module also defines, next to an operator or action, a
faulty form of it, marked "Seeded fault". They are part of no specification.
Substituting one shows that a property notices that fault; `PROJECT.json` pairs
them under "mutants".

## 3. Runs

| Run | Instance | Checks |
|---|---|---|
| `MCShard` | 3 keys, capacity 2, TTLs 0, 1 and 6 with `TimeMod` 8, clock 1..3 either way | see below |
| `MCConcurrentClients` | 2 threads, 3 keys over 2 shards of capacity 1, no TTL | `NoDataRace`, `ImplementsAtomicStore` |
| `MCServerLoop` | 1 thread, 1 sweeper, 3 keys, TTL 1, clock either way | `PolicyAgreesWithShards` |
| `MCMaintenance` | 1 thread that also expires and evicts, 1 sweeper, 2 shards, 2 keys, TTLs 1 and 2 | `TypeOK`, `IndexAgreesWithShards`, `ExpiresOnlyDue` |
| `MCThreadPool` | 2 workers, 2 producers, 3 tasks, the destructor | order, wake-ups, drain; two liveness properties |
| `MCServer` | a client with 2 requests or a stray CR, beside one that stalls, errs or has 1 request; reads of 1 to 6 symbols | `FramesAreTheStream`, `RepliesInOrder`, `EverySocketIsManaged`, `EveryClientIsServed` |
| `MCClient` | 2 lines out of 18, replies of up to 4 parts, a buffer of 3, a value with a NUL | `AnswersAreTheReplies`, `FirstWrongAnswerIsTorn`, `ErrorsChangeNothing`, `CommandReturns` |
| `MCLatency` | 2 recorders, 2 readers, 4 latencies out of 0, 1, 3 | `SnapshotCoversFinished`, `SnapshotsAreMonotone` |
| `MCIndexRace`, `MCExpiryRace`, `MCEvictionThrows`, `MCTornReply` | smallest that shows it | violated, section 4 |

`MCShard` shows, for every sequence of calls on a shard: store and recency list
hold the same keys, at most `Capacity` (`StoreIsTrackedAndBounded`); the two
maps of the index are inverse and list every entry with a TTL at its time
(`IndexTracksStore`); the list is the order of last use (`OrderIsRecency`), so
a write keeps the key written and evicts one used before all that stay
(`VictimIsLeastRecentlyUsed`); a sweep at t removes the entries due at t, the
keys left over in the index with a time up to t, and no others
(`CleanupTakesExactlyTheExpired`); what SetWithTTL wrote is readable exactly if
now + ttl does not pass 2^64 (`FreshEntryIsLive`); and the shard is an
`ExpiringCache` (`ImplementsCache`). The instance has the TTL of 0, which leaves a key over
in the index, and sums below, at and past `TimeMod`; that the left-over key is
swept and the wrapped entry dead when written are exceptions to what the documents
say, and section 4 has them.

`MCConcurrentClients` shows that without TTLs and maintenance the engine is
safe from several threads: removals from the empty index only read it, and each
call takes effect at its shard step, so Set, Get and Delete are linearizable and
GetAllKeys is atomic per shard and not as a whole (`AtomicStore`). `MCServerLoop`
shows that on one thread two recency lists, kept by separate calls at separate
times, never disagree about the keys of a shard, also when the shard evicts or
expires keys without telling the manager, or another thread sweeps it in the
middle of a call. `MCMaintenance` shows that one thread
keeps the engine's index in step with the entries, although it is fed by a
second clock reading, and that the clock running forward is enough for
`ProcessExpired` to delete only due entries. The same holds for a sweep by a
second thread: it looks and deletes under one lock, so that a time read long
before costs no fresh value, where `ProcessExpired` does not (`MCExpiryRace`).

`MCServer` shows that whatever way two streams are cut into reads, and
although descriptors are reused after clients close, are dropped or reset: the
frames handled plus the buffered rest are exactly the bytes read, no complete
frame stays in a buffer when the loop goes back to select, every request is
answered once and in order on its own connection, and sockets and entries of
`connections_` correspond. A client that stays gets every reply, whatever the
other does, unless it sends a frame without a command or the process ends.

`MCClient` puts every pair of commands through the client, with and without
arguments, on a live, an expiring and an absent key. However a reply is cut, and
whenever the server goes away, the calls of recv take the server's bytes in order
and none twice, an answer is what was taken up to a NUL, the first answer that is
wrong is one that was torn, a request answered with an error has changed neither
values nor expiry times, and SendCommand does not wait for ever.

`MCLatency` shows what a snapshot can be relied on for: each of its four figures
includes every record that had returned, none counts what was never recorded,
the maximum is exact, the minimum is that of what was recorded since the last
latency of 0 (which the code takes for no minimum yet), and later snapshots,
of any thread, never show less.

Deadlock is not checked for the server: an idle
server waits in select, and a client that never reads blocks it in write, which
the code accepts. Nor for the pool, which ends destroyed, for the client, which
quits, and for the tracker, whose instance ends after its last record.

## 4. Disagreements with the documents

Runs whose expected result is a violation:

- `MCIndexRace`: "Thread-Safe" (`core/kv_engine.h:13`), and "Called by TTL manager
  thread." (`core/kv_engine.h:109`). A client that sets a TTL and the TTL
  manager's thread are inside the engine's index at the same time, one of them
  writing, and no lock keeps them apart.
- `MCExpiryRace`: "Expires keys that are due" (`core/kv_engine.h:108`). Between
  collecting and deleting, a client thread stores a fresh value; it is deleted.
- `MCEvictionThrows`: "Memory growth; no crash" (`docs/HLD.md:230`). Each
  overwrite reserves again: after three Sets of one key the counter is 3 with a
  limit of 1, so two evictions are due, but the policy knows one key, and popping
  its empty list throws out of `ProcessEvictions`. The instance has no Delete of
  an absent key, so the counter does not wrap; `MCUnderflow` is that case.
- `MCTornReply`: "Synchronous: Client sends request, server replies with
  response" (`docs/PROTOCOL.md:37`). The rest of a reply that did not come whole
  is returned as the answer to the next command.

Configurations kept beside them for the same properties in other instances, or
for smaller disagreements (`tlc -config <name>.cfg <module>`, each ends in a
counterexample):

| Configuration | Module | Property | What happens |
|---|---|---|---|
| `MCShardZeroTTL` | `MCShard` | `OnlyDueAreSwept` | SetWithTTL with 0 leaves the key's older time in the index; a sweep removes an entry that has no TTL. The dispatcher refuses 0. |
| `MCShardWrap` | `MCShard` | `FreshKeyIsNotExpired` | now + ttl wraps; the entry is expired when written. |
| `MCTasksExecuted` | `MCThreadPool` | `EveryTaskIsExecuted` | a worker moves a task out of the queue and never calls it ("Execute submitted tasks asynchronously", `server/thread_pool.h:8`). |
| `MCTwoOrders` | `MCKVEngine` | `PolicyAgreesWithShards` | two clients touch a shard in one order and the eviction manager in the other; the two recency lists then differ for good ("Thread-Safe", `core/kv_engine.h:13`). |
| `MCUnderflow` | `MCKVEngine` | `OverLimitIsReal` | Delete of an absent key takes the counter below zero, that is above every limit. |
| `MCRemoval` | `MCKVEngine` | `RemovalIsReleased` | a shard evicts, or expires on Get, without a Release ("No key can be removed without decrementing the tracker", `docs/HLD.md:220`). |
| `MCEmptyFrame` | `MCServer` | `EmptyFrameIsAnswered` | an empty frame drops the connection; `docs/LLD.md:1113` promises `-ERREmpty Command`. |
| `MCClientCloses` | `MCServer` | `CloseIsLocal` | the second reply to a client that has closed can raise SIGPIPE and end the process, and with it another client's connection ("Client-initiated close, Graceful", `docs/PROTOCOL.md:130`). |
| `MCNulValue` | `MCClient` | `AnswersAreBinarySafe` | a value with a NUL is stored and sent whole, and the client returns what stands before the NUL ("Binary-safe value handling", `docs/PROTOCOL.md:951`). |
| `MCClientGet` | `MCClient` | `GetReturnsTheValue` | the server answers a GET with `$` and the value, `KVClient::Get` looks for `+` and returns no value. |
| `MCClientKilled` | `MCClient` | `ErrorsAreReported` | a send after a reset can raise SIGPIPE, which ends the client where main means to report an error. |
| `MCTornSnapshot` | `MCLatency` | `AverageWithinRange` | a snapshot between the additions of a record and its critical section has an average outside its range ("consistent snapshot", `metrics/latency_tracker.h:88`). |
| `MCZeroLatency` | `MCLatency` | `MinimumIsExact` | a latency of 0 is taken for no minimum and replaced by the next. |
| `MCAcceptLimit` | `MCServer` | `LimitOnlyRejects` | accept without a free descriptor ends the server; `common/config.h:85` promises rejection. |

One more configuration, `MCNulChunks` of `MCClient`, ends without an error: four
commands on a value with a NUL, cut in every way, keep `AnswersAreTheReplies` and
`FirstWrongAnswerIsTorn`, also when the NUL is the first byte of what a recv takes.

## 5. Bounds

- `MaxTime`: the wall clock takes the values 1..MaxTime (0 means no TTL). 4 is
  enough for two different expiry times, a clock between and after them, and a
  step back. `TimeMod` stands for 2^64. It is 8 in `MCShard`, where a TTL of 6 and a
  clock up to 3 give sums of 7, 8 (which becomes 0, no expiry) and 9 (which
  becomes 1, a time that is past), and in `MCShardWrap`; elsewhere it is 16, more
  than every sum.
- Keys and capacity: one key more than the capacity makes evictions happen; in
  `MCConcurrentClients` two keys share a shard of capacity 1 and a third has its
  own, so that evictions and a GetAllKeys over two shards meet concurrent calls.
- `MaxReserved`, `MaxReleased`: no new Set, or Delete, begins while the memory
  counter is that far above, or below, zero. They bound a counter that the code
  lets grow. In `MCConcurrentClients` and `MCServerLoop` `MemoryMod` = 1 removes
  the counter, which decides nothing there, as nobody calls ProcessEvictions;
  `MaxReleased` = 2 then refuses no Delete. `MaxReleased` = 0 in
  `MCEvictionThrows` refuses a Delete while the counter is 0, so that it cannot
  wrap and the counterexample is one of overwrites.
- `ClockStepsBack`: FALSE in `MCMaintenance`, since entries that are due can
  cease to be due when the clock is set back between collecting and deleting.
- `Tasks`: each task is submitted once; three tasks and two workers give a
  queue with a rest while both are busy.
- `MaxFds`, `Chunk`, `SendRoom`: two descriptors for two clients, who connect
  once each; a read takes whatever has arrived, up to 6 symbols, so it ends in a
  request, between CR and LF, or after two requests; one reply fills a
  socket, so writes block. Scripts are finite, and cover two requests in one
  stream, half a delimiter at its end, CR CR LF, and an empty frame.
- `RecvSize`, `MaxCommands`: a buffer of 3 parts is larger than a short reply and
  smaller than a bulk string, so replies are torn by delivery and by size; two
  commands are enough for a rest of the first to meet the second. Three of all 18
  lines take more than five minutes; `MCNulChunks` has four out of two lines.
- `MaxRecords`: 4 latencies by two threads, so that each thread records twice
  and a 0 comes before, between and after others.
- Symmetry is used for keys, values and threads where they are
  interchangeable, and in no run with a liveness property.

## 6. Fairness

`ThreadPool!FairSpec`: weak fairness of each running worker, of a begun Submit
and of a begun destructor. These are threads that are not blocked, which the
operating system schedules; a worker waiting for the mutex gets it because
every critical section ends. Nobody has to call Submit or the destructor, and
there is no fairness for spurious wake-ups: liveness rests on notifications.

`Server!FairSpec`: weak fairness of the server's thread as a whole, of delivery,
and of clients taking their replies. One thread that is not blocked runs. Its
progress is not assumed per action: which ready descriptor it visits is a free
choice. That clients read is an assumption about them; without it one client
stops the loop in a blocking write. Nobody has to connect or to close.

`Client!FairSpec`: weak fairness of recv returning when it can, with bytes or
with an error, of the server handling a frame it has, and of delivery. These are
two running threads and a network that retransmits. Nobody has to type, and the
server need not stop. That the server gets to this connection assumes that no other
client keeps its thread in a blocking write; `MCServer` is where that happens.

## 7. Proofs

Every safety property and every action property of a passing run is also a
theorem, for all values of the constants that satisfy the assumptions below.

| Theorem | Property | Hypotheses |
|---|---|---|
| `ShardProofs!TypeCorrect`, `TrackedAndBounded`, `IndexInStep`, `RecencyOrder`, `EvictsLeastRecentlyUsed` | `TypeOK`, `StoreIsTrackedAndBounded`, `IndexTracksStore`, `OrderIsRecency`, `VictimIsLeastRecentlyUsed` | none |
| `ShardProofs!SweepIsExact`, `NewEntriesAreLive`, `RefinesCache` | `CleanupTakesExactlyTheExpired`, `FreshEntryIsLive`, `ImplementsCache` | none |
| `KVEngineProofs!EngineTypes` | `TypeOK` | none |
| `KVEngineProofs!RaceFree` | `NoDataRace` | no TTLs, or one thread that uses the index |
| `KVEngineProofs!Linearizable` | `ImplementsAtomicStore` | `PlainClients` |
| `KVEngineAgreement!IndexAgreement`, `DueWhenDeleted` | `IndexAgreesWithShards`, `ExpiresOnlyDue` | `OneCaller` |
| `KVEngineAgreement!PolicyAgreement` | `PolicyAgreesWithShards` | `OneClient` |
| `ThreadPoolProofs!FirstInFirstOut`, `WakeupsArrive`, `ShutdownDrains` | `TakenInOrder`, `NoLostWakeup`, `DrainedBeforeExit` | none |
| `ServerProofs!SocketsAreManaged`, `FramesAreCut`, `RepliesKeepOrder` | `EverySocketIsManaged`, `FramesAreTheStream`, `RepliesInOrder` | none |
| `ClientProofs!NothingIsLost`, `TornFirst`, `ErrorsAreHarmless` | `AnswersAreTheReplies`, `FirstWrongAnswerIsTorn`, `ErrorsChangeNothing` | none |
| `LatencyProofs!SnapshotCovers`, `SnapshotsGrow` | `SnapshotCoversFinished`, `SnapshotsAreMonotone` | none |

Assumptions on constants, named in the module that declares them and evaluated
by TLC in every run: a capacity above 0, a `TimeMod` above 0 and above
`MaxTime`, TTLs that are natural numbers (below `TimeMod` in `Shard`, as a 64-bit
argument is below 2^64), positive limits and buffers, a
non-empty finite set of workers, and "no value" markers that are not values. Two
are about sequences: a line of `Client` and a script of `Server` are sequences of
their own symbols, and a line has no LF, because `std::getline`
(`client/kv_cli.cpp:52`) ends a line there.

The hypotheses are the conditions under which the code has the property, and
where they fail a configuration of section 4 shows what goes wrong.
One thread that uses the index, for `NoDataRace`, may have any
number of sweepers beside it; two such threads race (`MCIndexRace`).
`PlainClients`: no TTLs, no maintenance thread, sweepers that are not clients,
and at least one key. `OneCaller`: one thread that uses the index, the clock is
not set back, TTLs are positive and now + ttl does not wrap (`MCExpiryRace` has
two such threads, `MCShardZeroTTL` and `MCShardWrap` such TTLs; with the
clock set back, an entry is collected while due and deleted when it no longer
is). `OneClient`: one client and no maintenance thread, any TTLs, any sweepers,
any clock. Two clients make the lists differ (`MCTwoOrders`), and so does a
ProcessEvictions that throws, which forgets the candidates it has popped. The
server is an instance of `OneClient` and of the single user of `RaceFree`: its
one thread makes all calls.

**Shard.** The conjunction `ShardOK` of types and agreement is inductive and
none of its parts is alone: eviction pops the last element of the list, which
is a stored key only if list and store agree; the
list stays injective only if `Touch` finds the key it holds; index and store
stay in step under eviction only if the victim is a key of the index's own
domain or absent. Inside a write it does not hold, because Set has inserted a
key before it evicts one; `MidWrite` describes that intermediate shard, one key
over the capacity with the new key in front, and `EvictOne` is shown to lead
from it back to the invariant. `ShardLemmas` has the facts about the operators:
what Touch, Remove, Pop and a sweep do to the list's keys, length, injectivity
and order, and that Upsert, Remove and CollectExpired keep the maps inverse. The
victim property then follows from `OrderIsRecency`: the popped key is the last,
so every key that stays has been used after it.

No theorem about the shard restricts the TTLs. A sweep is exact because the
index lists the entries with a TTL at their times, and besides them only the
left-over keys, by definition. That a new entry is live is arithmetic: a sum
below `TimeMod` is later than now, the sum `TimeMod` is no expiry, and a sum
past it, of a TTL below `TimeMod`, becomes a time before now. `RefinesCache`
maps the left-over keys to the `stale` ones of `ExpiringCache`, and each method to the step of `ExpiringCache`
of the same name, and a method that changes nothing to a stutter.

**Engine.** `EInv` says of every shard what `ShardOK` says, for the keys that hash
to it, of the index that its maps are inverse, of the policy's list that it is
injective, and of each thread what the fields of its call can be at each place;
it holds for any interleaving, maintenance included, with no hypothesis. The
other invariants add to it. `NoDataRace`: with one user nobody else is inside
the index, and with no TTLs the index stays empty, so that a removal only
reads. `RInv`: no entry has a TTL, so no Get and no sweep removes one; with it,
the step of a call inside its shard maps to the step of `AtomicStore`, and all
others to its begin, its return or a stutter. `IndexInv` says how index and
entries relate also between the critical sections of a call: a key is `Settled`
when no call is between writing its entry and registering its time, or between
collecting and deleting it; settled keys agree, a Set still to register has a
time no earlier than the one it stored, and a key still to be expired is due.
`PolicyInv` says that the list of the manager orders the keys of every shard as
the shard does, or will as soon as the one client has made the Touch it is
about to make. Sweeps and evictions only take keys from a shard's list, which
keeps the rest in order.

**Thread pool.** `NoLostWakeup` and `DrainedBeforeExit` need
that a stop is final: once it is set, no producer is inside Submit, nothing is
pushed any more, and a worker that has left has seen an empty queue. For
`NoLostWakeup` the step that matters is a worker going to sleep, which it does
only with the predicate false in the same critical section.

**Server.** `ServerInv` has five parts. `ProcessOK`: sockets and connections
correspond, and the connection in hand is managed and not to be visited again.
`OwnershipOK`: a client is queued once, or owns one descriptor, or neither, and
nothing is known of it before it owns one, so a reused descriptor meets no
history. `FramingOK`: the stream is the frames, each closed by a delimiter, and
the rest; only the connection in hand can hold a complete frame. `RepliesOK`:
what a client has got, what is on its way and what is in the output buffer
answer its frames one by one, and only the connection in hand, during a write, has
output. The lemma behind it is `CutFrame`: the first delimiter cuts a frame that
has none, also where the frame ends in a CR.

**Client.** `ClientInv` keeps a ledger: what recv took, what waits and what is on its
way, and what a reset has lost, are the replies (`LedgerOK`); each answer is what
was taken but for an end that begins with a NUL (`CutFrom`). That alone does not
give the right answer to a command. `InStep` adds, as long as all answers were
whole, that the server has answered all lines, or all but the one it has just
received; it rests on a line having no LF, so that the server finds one frame in
it. From there on a wrong answer is a torn one (`TornOK`), by recv or by a NUL.

**Latency tracker.** The difficulty is the additions in flight. `Ledger` says that
a counter is what is done plus what the recorders have added and not finished,
and that what is begun is the counter plus what they owe; both are sums over the
recorders. `Weigh` expresses such a sum as a running total along an enumeration, so
that one recorder's step changes it by that recorder's part. The range changes under the
mutex together with `done`, and its minimum starts anew after a 0 exactly where
`SinceZero` does. What `SumOf` yields
on an appended log, and `FlattenSeq` for frames and answers, cannot be had
from the induction theorems of the library, which take an operator as a
parameter; the proofs take the least counterexample instead.

## 8. Only model-checked

- Liveness: `EveryTaskIsTaken`, `ShutdownCompletes`, `EveryClientIsServed`,
  `CommandReturns`. Fairness speaks of ENABLED, which the proof system does
  not handle. These rest on the instances of section 3.
- The disagreements of section 4: a counterexample needs no proof.
- That the instances fire every action is a fact of the runs and has no
  counterpart in the proofs.
- Proved only under the hypotheses of section 7, and false without them:
  the properties of `KVEngine` listed there with a hypothesis. In
  between lies `ImplementsAtomicStore` with TTLs: one thread that uses TTLs beside
  threads that sweep is neither proved nor checked, because the abstract store
  has no expiry.
- The bounds in the guards (`MaxTime`, `MaxReserved`, `MaxReleased`, `MaxRecords`,
  `MaxCommands`) are constants; the theorems hold for each value, so for any
  finite behaviour, and do not speak of behaviours that exceed all of them.

## 9. Not modelled

- `eviction/ttl_manager.h`: declarations without definitions.
- `server/command_registry.h`, `command_handler.h`, `request_context.h`:
  instantiated by nothing.
- `Entry::Update`, `RemainingTTL` and the `Clear` methods: called by nothing
  outside the tests.
- `common/config.h`, `common/logger.h`, `common/status.h`: included by nothing
  in the program. `Config::Validate` is a list of independent range checks,
  the logger formats text and writes it under one mutex, a status is a value:
  a model would restate them line by line.
- `metrics/metrics_registry.h` does not compile (the counters in its map can be
  neither copied nor moved), so it has no behaviour to model;
  `metrics/metrics_snapshot.h` is a record that nothing fills.
- `finance-backend/`: a separate Node program that shares nothing with the store.
- The text of messages.

## 10. Plan

Done: shard with abstraction, engine, thread pool, protocol and server loop,
client, latency tracker; proofs of all their safety properties. Next:

1. Lemmas and theorems that say more than the runs do: that in `Server` a client which
   leaves, is dropped or is reset changes no reply of another; that the length
   of the recency list of the manager bounds the sum of the shards' sizes.
2. `ImplementsAtomicStore` with expiry, for one caller and any sweepers.
3. The dispatcher over the whole engine instead of one shard.
