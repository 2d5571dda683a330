# TLA+ specifications of ClickHouse

ClickHouse is a column-oriented database server. This directory holds TLA+
modules that model parts of the server's own code (`src/` of the repository),
TLC configurations that check them on small instances, and theorems that the
TLAPS proof system checks for every value of the constants. Paths such as
`Common/SharedMutex.cpp` are relative to the repository's `src/` directory.

## 1. Inventory

The server is a large system. These are its parts with state and with
behaviour that depends on interleaving, failure or order; parsers, functions,
formats, codecs, storages of other systems and the client are pure
transformations or I/O and are not candidates for a state machine. Modelled
are the first six rows (part sets and replication in part, see section 6).

| Part | State | Operations | Hard behaviour | What makes it correct |
|---|---|---|---|---|
| `Common/SharedMutex` | one 64-bit word, a waiters' counter, the writer's id | `lock`, `try_lock`, `unlock` and the shared three | each access of the word is an interleaving point; futex sleeps | exclusion, no lost wake-up, writers' claim succeeds |
| MVCC transactions: `Interpreters/TransactionLog`, `MergeTreeTransaction`, `TransactionVersionMetadata` | log of commits in Keeper, tail pointer, map TID -> CSN, latest snapshot, running list, version metadata of each part in memory and on disk | begin, commit, rollback, updating thread, start-up; add and remove part, visibility, removability | commit is a single write in Keeper whose answer may be lost; part metadata is written part by part afterwards; restart between any two writes; truncation of the log races with readers of it | atomic visibility, snapshot stability, exclusive removal, committed work survives a restart, no part deleted that a snapshot can see |
| Part sets: `MergeTreePartInfo`, `ActiveDataPartSet`, `MergeTreeData` part states | the set of active and covered parts | add part, replace covered, remove | parts intersect or cover each other, in any order of arrival | active parts are disjoint; covering is a partial order |
| Replication: `ReplicatedMergeTreeQueue`, `...LogEntry`, sink, quorum, `EphemeralLockInZooKeeper` | shared log and per-replica queue in Keeper, virtual and current parts in memory | insert, pull log, select merge, mutate, drop range, fetch, execute | replicas pull at different speed; merges chosen from stale views; ephemeral block numbers | replicas converge; merges never span a missing block number |
| `RWLock` (table locks) | queue of groups of readers and writers | get lock, unlock, phase change | phase-fair handover, timeouts, same query locking twice | exclusion, FIFO phases, no deadlock |
| `BackgroundSchedulePool` | flags of a task, queue, map of delayed tasks, threads | schedule, scheduleAfter, activate, deactivate, execute, destroy the pool | cancellation races with execution and with an expiring delay | flags agree, no schedule is lost, every request runs, the destructor ends |
| `ThreadPool`, `AsyncLoader`, `MergeTreeBackgroundExecutor` | queues of tasks, threads, priorities | schedule, activate, deactivate, wait | cancellation races with execution | a task runs in one thread at a time; deactivate waits for it |
| `ConcurrentBoundedQueue`, `CancelToken` | bounded queue with finish flag; futex per thread | push, pop, finish, clear; wait, raise | sleepers when the queue finishes | no lost wake-up, capacity kept |
| Keeper: `Coordination/*` | Raft log, tree of nodes, sessions, watches | preprocess, commit, rollback of requests; sessions expire | uncommitted state is rolled back; reads race with writes | linearizable writes, ordered sessions |
| `Interpreters/Cache` (`FileCache`, `FileSegment`) | segments with states and downloaders, queues with priorities | get or set, reserve, download, complete, evict | downloader hand-over, eviction races with use | at most one downloader; size limits kept |
| Resource scheduler: `Common/Scheduler` | tree of queues, budgets, in-flight requests | enqueue, dequeue, finish | throttling and fairness at limits | work conserving, constraints kept |
| Query pipeline: `Processors/Executors` | graph of processors, port states | prepare, work, expand, cancel | ports updated by two threads | no lost update of a port, termination |
| `AsynchronousInsertQueue` | shards of pending inserts with deadlines | push, flush by size or time | flush races with push | each insert is flushed once |
| `DDLWorker`, backups, `ObjectStorageQueue` | tasks in Keeper | claim, execute, mark | a worker dies between steps | each task is executed once by a replica |
| `MemoryTracker`, `OvercommitTracker` | counters per query and user | alloc, free, pick victim | waiting queries and a freed victim | waiting ends |

How the parts interact: queries run in the pipeline executor under table locks
(`RWLock`) and change the part sets of `MergeTreeData`, guarded by one lock per
table; a transaction decides which of these parts a query sees and writes its
decision into Keeper through `TransactionLog`; replication writes to the same
part sets from its own queue in Keeper; background pools run merges, cleanup
and the updating threads; `SharedMutex` is the reader-writer mutex under much
of this. Keeper is an external service to all of them, also where the server
runs it itself.

The hazards of the modelled parts are listed, each at its line and with the
properties that watch it, in `PROJECT.json`.

## 2. Plan

| Step | Modules | Composition | Abstract specification | Theorems |
|---|---|---|---|---|
| 1, done | `SharedMutex` | on its own | `ReadersWriter` | the word counts its owners, exclusion, no lost wake-up, writer id, refinement |
| 2, done | `TransactionLog` | on its own, and under 3 | - | type, unique TIDs, tail, lookups, unknown state, newest entry |
| 3, done | `VersionMetadata`, `MergeTreeTransactions` | extends 2, conjoins its actions with those of the transactions and parts | `SnapshotIsolation` | implementation of `LogSpec`, `CommittedIsNotRolledBack`, `StoredCSNsAreTrue`, `FileNamesTheRemover`, `NoOutdatedLookup`, `PurgedCSNsAreInParts` without the races of the findings, `ActivePartsAreDisjoint`, `ActivePartsAreTheLatest`, `SnapshotIsKept`, `ReadsAreSnapshotReads`, `PartsCanBeLoaded` without those races, refinement of `SnapshotIsolation` |
| 4, done | `ActiveDataPartSet` | operators, used by 5 | the walks over neighbours against covering by block ranges | a covering part is found, an intersection is found, `add` keeps the set disjoint, covered parts are found |
| 5, done | `ReplicatedMergeTree` | two replicas that meet in Keeper; uses 4 | the log replayed in order (`Replayed`) | the inductive invariant, every invariant of the run, `NoPartRemainsAfterDrop` without its race |
| 6, done | `RWLock`, `BackgroundSchedulePool` | on their own | `ReadersWriter` again, for table locks | agreement of flags, no lost schedule; phases, phase fairness, refinement |
| 7 | `ThreadPool`, `ConcurrentBoundedQueue` | on their own | a bounded FIFO | capacity, no lost wake-up |
| 8 | Keeper's storage: uncommitted state, commit, rollback; sessions | replaces the view of Keeper that 2 and 5 have | a tree changed by committed requests | uncommitted state is the log applied to the committed one |
| 9 | mutations in 5; `FileSegment`; scheduler nodes | 5 extended; on their own | - | one downloader; budgets |

The order follows the weight of what could go wrong: data visibility and
durability first (2 and 3, on the mutex of 1 as a warm-up), then replication,
then the infrastructure.

Bounds for the steps to come: three threads and a queue of two in 7; two
sessions and three requests in 8.

## 3. Modules and code

### SharedMutex

`SharedMutex.tla` models `Common/SharedMutex.cpp` and the futex wrappers of
`Common/futex.h`. `state` is the 64-bit word as two halves of `Half` values,
`upper` (the writers' mask) and `lower` (the number of readers); `waiters` and
`writer_thread_id` are the other two atomics; `pc[t]` and `value[t]` are the
position and the local `value` of thread `t`. Each atomic access and each
futex call is one action, named after the method: `LockLoad`, `LockLoop` (one
turn of the loop with its compare-exchange), `LockClaimed`, `Drain`,
`FutexWaitUpper`, `Unlock`, `UnlockStore`, `UnlockCheck`, `UnlockWake` and so on.
A futex wait that compares equal and the sleep that follows are one step, as in
the kernel; a sleeper may wake for no reason (`SpuriousWakeUp`). A failing
`try_lock()` changes nothing and is no action.

`ReadersWriter.tla` is what a user of the class may rely on: a set of readers
and at most one writer, never both. `ImplementsReadersWriter` maps the threads
whose label is in an owning section to it.

### TransactionLog

`TransactionLog.tla` models `Interpreters/TransactionLog.cpp`: the nodes of the
log in Keeper (`log`, with `next_csn`, the number of the next sequential node),
the tail pointer in Keeper and in memory, the one-shot watch, and the memory of
the server. `tid_to_csn` is the map of that name. `snapshots_in_use` and
`running_list` change under one mutex and by the same operations, so they are
one sequence, `in_use`. The updating thread is a program with one step per
request or critical section:

| `updater` | Action | Code |
|---|---|---|
| `wait` | `UpdaterWakes` | `runUpdatingThread()`, waiting for the event unless transactions wait |
| `list` | `ListEntries` | `loadNewEntries()`: list children and set the watch |
| `load` | `LoadEntries` | `loadEntries()`: read the entries, extend the map |
| `publish` | `PublishSnapshot` | `loadEntries()`, under `running_list_mutex` |
| `tail` | `UpdateTailPtr` | `removeOldEntries()`: the tail in Keeper, then in memory |
| `purge` | `RemoveOldEntries` | `removeOldEntries()`: remove nodes, then map entries |
| `swap` | `SwapUnknownStateLists` | `tryFinalizeUnknownStateTransactions()`, two swaps under a lock |
| `finalize` | `FinalizedUnknownState`, `FinalizedAll` | its loop |

`UpdaterFails` is a hardware error of any of its requests: the tail may or may
not have moved in Keeper, any subset of the nodes may be gone. A commit request
is answered (`CommitPoint`), takes effect without an answer
(`CommitPointLost`), or has no effect (`CommitFails`). `Crash` loses the
memory, `LoadLogFromZooKeeper` is the restart.

### VersionMetadata

`VersionMetadata.tla` models `TransactionVersionMetadata.cpp` and the file
`txn_version.txt` written by `IMergeTreeDataPart`: `version[p]` is the record in
memory and `file[p]` the record its file parses to. `isVisible()` appears twice.
`IsVisible` is the value it returns when nobody interferes; `ReadBegins` to
`ReadResult` are its loads and lookups one at a time, in the order the code
makes them (the loads of three atomics in any order, since the compiler may
reorder relaxed loads; `read[x].loads` holds those still to do). `canBeRemoved()` is
an operator, together with the CSNs it caches in the record.

### MergeTreeTransactions

`MergeTreeTransactions.tla` extends the two modules and adds
`MergeTreeTransaction.cpp` and the parts of `MergeTreeData.cpp`,
`IMergeTreeDataPart.cpp` and `StorageMergeTree.cpp` that transactions drive.
`client[x]` is the thread that executes the queries of `x`, `finish[x]` its
commit or rollback once decided, which the client, the updating thread or a
KILL may run, one part per step; `csn[x]` is the atomic that lets one of them
in. `parts_lock` is the lock of the set of parts, held by a query from
`AddNewPart` or `Truncate` to the step that ends it. Actions of the log are
conjoined, so that a step such as `Commit` is the request and its consequences
for the transaction; every behaviour satisfies `LogSpec` (`ImplementsLog`).
A part is a name; `Covers[p]` are the parts inside its range and `Blocks(p)` the
inserted parts among them. A merge or mutation makes a part whose blocks are
those of its Active sources, as `FutureMergedMutatedPart::assign` names it from
parts without a removal under way in between
(`MergeTreeDataMergerMutator::getDataPartsToSelectMergeFrom`).

| Actions | Code |
|---|---|
| `Begin`, `Select`, `SelectStep` | `executeBegin`, `filterVisibleDataParts` |
| `WritePart`, `AddNewPart`, `RemoveOldPart`, `AppendRemoval`, `ActivatePart`, `UndoPart` | an INSERT, merge or mutation: `renameTempPartAndReplace`, `MergeTreeData::Transaction::commit` and `rollback`, `addNewPartAndRemoveCovered` |
| `Truncate`, `RemoveOldPart`, `AppendRemoval`, `SkipRolledBack`, `TruncateEnds` | `StorageMergeTree::truncate`, `removePartsFromWorkingSet` |
| `BeforeCommit`, `Commit`, `CommitLost`, `CommitRefused`, `Postpone` | `commitTransaction` |
| `AfterCommit`, `StampCreated`, `StampRemoved`, `Release` | `afterCommit`, `finalizeCommittedTransaction` |
| `ClientRollsBack`, `Kill`, `KillFails`, `KillReturns`, `MarkRolledBack`, `OutdateCreated`, `RestoreRemoved`, `ClearRemoved`, `UnlockRemoved` | `rollbackTransaction`, `MergeTreeTransaction::rollback` |
| `DecideUnknownState`, `RollBackUnknownState`, `EndUnknownState` | `tryFinalizeUnknownStateTransactions` |
| `GrabOldPart` | `grabOldParts` and the removal of what it returns |
| `CrashServer`, `StartServer`, `LoadPart`, `ServerStarted` | death of the process, start-up, `loadDataPart` |

`SnapshotIsolation.tla` is what clients are promised: a transaction reads a
prefix of the order of commits with its own changes on top, removes only what
it sees and nobody else has removed, and takes effect as a whole or not at all.
A transaction counts as committed as soon as its node exists, known or not.

### ActiveDataPartSet

`ActiveDataPartSet.tla` holds the algebra of part names
(`MergeTree/MergeTreePartInfo.h`: `Before`, `Contains`, `IsDisjoint`) and the
operations of `MergeTree/ActiveDataPartSet.cpp`. The code keeps the parts in a
`std::map` ordered by name and looks only at neighbours: "A part can only be
covered/overlapped by the previous or next one". `LowerBound` and `Previous`
are the two neighbours of a place in the map; `LeftRun` and `RightRun` are what
the walks of `addImpl()` erase and `StopsAt` the parts at which they stop. A part
is `[min, max, level]`: one partition and no mutations.

### ReplicatedMergeTree

`ReplicatedMergeTree.tla` models one partition of a replicated table. In Keeper:
`log`, the ephemeral `locks` of block numbers with the counter `next_block`, the
deduplication nodes `blocks`, and for each replica `parts`, `queue` (entry
numbers), `log_pointer` and the version of the server's `session` node. In
memory: `virtual_parts`, the `executing` entries, the `active` and `outdated`
parts, and the merge `predicate` under construction. `multis` are the commit
requests of inserts still on their way, also those whose session has ended.

| Actions | Code |
|---|---|
| `AllocateBlockNumber`, `FindDuplicate`, `KeeperCommitsPart`, `CommitLocally`, `Rollback`, `ResolveDuplicate`, `Recover` | `ReplicatedMergeTreeSinkImpl::commitPart` |
| `QueueUpdatingTask` | `pullLogsToQueue`, `insertUnlocked` |
| `CopyVirtualParts`, `LoadCommittingBlocks`, `ReadLogVersion`, `PullForMerge`, `AssignMerge`, `CannotSelect` | `mergeSelectingTask`, the constructor of the merge predicate request by request, `canMergeTwoParts`, `createLogEntryToMergeParts` |
| `SkipEntry`, `StartFetch`, `StartMerge`, `FinishEntry`, `FailEntry` | `selectEntryToProcess`, `shouldExecuteLogEntry`, `executeFetch`, `MergeFromLogEntryTask`, `checkPartChecksumsAndCommit` |
| `StartDropRange`, `DropFromWorkingSet`, `FinishDropRange` | `executeDropRange`, `removePartProducingOpsInRange` |
| `ClearOldParts` | `clearOldPartsAndRemoveFromZK` |
| `ReadAlterVersion`, `LockDropRange`, `CancelInsert`, `ListBlockIds`, `ReadBlockId`, `RemoveBlockIds`, `CommitDropRange` | `dropAllPartsInPartitions` with `clearLockedBlockNumbersInPartition` and `clearBlocksInPartition` |
| `LoseSession`, `Restart`, `ExpireLocks` | `ReplicatedMergeTreeRestartingThread`, `ReplicatedMergeTreeQueue::load`, `checkPartsImpl`; Keeper |

A DROP PARTITION takes its requests to Keeper one by one. `drop[r]` holds its
stage, the version of `alter_partition_version` it has read and its number, and
while it forgets block ids those it still has to read (`listed`) and those that
named a part of its range when it read them (`ids`). `RemoveBlockIds` removes the
latter with version -1, whatever they name by then; if one of them is gone, the
multi fails as a whole, which the code only logs, and the ids stay. The locks of
inserts are listed, read and removed in three steps of the code; the first two
need no action of their own, since below the number of the drop no new lock can
appear and a removed lock does not come back.

Where an action does more than one request: `FinishEntry` is the commit of a
fetched or merged part in Keeper (`StorageReplicatedMergeTree.cpp:1973`),
`transaction.commit()` (1978) and the removal of the entry from the queue. So the
answer of that multi is never lost, no crash comes between the three, and a
part that is in Keeper and not on disk is never met by `Restart` (the branch of
`checkPartsImpl` that fetches it again is not explored). The commit of an insert,
where a client is waiting for the answer, is taken apart.

### RWLock

`RWLock.tla` models `Common/RWLock.cpp`. Everything there happens under
`internal_state_mtx`, so an action is a critical section: `FastPath` and
`GetLock` are the part of `getLock()` before its wait, `WakeUp` and `TimeOut` the
part after it (`PersistThrows` is the exception of its last step), `Unlock` the
destructor of a holder. `lock` is the two lists, `rdlock_owner`,
`wrlock_owner` and the `requests` and `ownership` of each group; `overtaken`
counts for a waiting reader the writers that went first and exists for
`PhaseFair` only. A client without a time-out passes zero, which means none.

### BackgroundSchedulePool

`BackgroundSchedulePool.tla` models `Core/BackgroundSchedulePool.cpp`. The flags
`deactivated`, `scheduled` and `executing` are sets of tasks; the flag `delayed`
is membership in the map, which is split into `delayed_tasks`, whose time has
not come, and `due`, in the order of their times. Time is the action `Expire`.
Calls are `Schedule`, `ScheduleAfter`, `Deactivate`, `Activate`,
`ActivateAndSchedule`, `GetExecLock`; a thread is `WorkerLoop`, `WorkerWait`,
`ExecuteBegin`, `ExecuteEnd`; the thread of delayed tasks is `DelayLook`,
`DelayTimeOut`, `DelayFound`; the destructor is `Shutdown`. A waiting
`deactivate()` holds `exec_mutex` only when it acts, so its waiting is no state.

## 4. Runs

| Run | Question | Distinct states |
|---|---|---|
| `shared_mutex` | With three threads in any of the six operations: does the implementation refine the readers-writer lock; does the word count its owners; is a wake-up ever lost; does a writer with the mask set succeed and every sleeper wake? | 212 thousand |
| `transaction_log` | Are TIDs unique, lookups true and lost commits decided, whatever the transactions do, with restarts and a failing request? | 2.8 million |
| `transactions_read` | Does `isVisible()`, load by load, answer for the reader's snapshot while others commit and the log is truncated? | 1.4 million |
| `transactions_restart` | Do an insert and successive mutations of a part by two transactions, one of which truncates the table and is killed at any step, leave the right active parts and keep snapshots; does a crash between any two steps lose or invent a change, or leave a part that cannot be loaded? | 1.0 million |
| `transactions_unknown_state` | Do transactions with conflicts, KILL and failing commits stay isolated; is a lost commit decided truly and in the end; and does every commit become visible, also when a KILL and a TRUNCATE interfere? | 276 thousand |
| `rwlock` | Are table locks a readers-writer lock, served in phase-fair order, and does nobody wait for ever while queries lock again, time out and throw? | 23 thousand |
| `schedule_pool` | Do the flags of tasks agree, is a scheduled or due task run in the end, and does the destructor end? | 267 thousand |
| `replication` | Do merges lose no block, does dropped data stay dropped, do replicas that reorder and replace entries converge, is a block stored once, with lost answers, lost sessions and restarts? | 985 thousand |

Runs that show a disagreement between the code and what its comments say
(section 7): `late_outdated_parts`, `killed_write`, `drop_leaves_parts`,
`drop_forgets_block`.

### Bounds

- `Threads`: three. Two threads are enough for a lost wake-up; the third is the
  reader or writer that arrives in between. `Half = 5` leaves room for all
  threads and one more (the assumption `ThreadsFit`), as 2^32 does in the code;
  the theorems are for every `Half`.
- `Txns`: three in the log and for readers (one reads, two write), two
  elsewhere. The conflicts of the code are between pairs of transactions.
- `Parts`: the part `a` is there from the beginning, `m` replaces it, `n`
  replaces both, `i` is independent. Each run uses the parts its question
  needs.
- `MaxCSN`: CSNs begin at 33, after the reserved numbers. Each transaction
  commits once and each restart uses one number, so the bound is reached only
  by repeated restarts (`transaction_log`: three numbers; two in
  `transactions_read`, one for each writer).
- `MaxFaults`: failed Keeper requests, two where failures are the question (a
  lost commit, and a failure of the updating thread that has to deal with it).
- `MaxCrashes`: one. A second crash finds a state that the first may leave too.
- `Truncates`, `Killable`, `Readers`: who truncates, is killed, reads.
- `LateOutdated = FALSE` in `transactions_restart`: otherwise the run meets the
  finding `late_outdated_parts`. Its `CONSTRAINT Explored` ends behaviours in
  which a killed transaction has released its snapshot while a part that it was
  writing stays on disk, the finding `killed_write`. That KILL itself, and what
  the query does after it, are explored.
- `TransactionsAreIsolated` is checked in `transactions_unknown_state`, which has
  no crash; the theorem `IsolationIsImplemented` is for any constants.
- `rwlock`: query `q1` has the holders `a`, `b` nested in `a`, and `s` of another
  thread, which locks once; `c` has no query and locks once, `d` is the query
  `q2` with a time-out. That is enough for a nested lock behind a waiting writer
  and for two owning groups of readers with a third one waiting. There are as
  many group identities as clients, so one is always free.
- `schedule_pool`: two tasks, one thread and a second that may be added,
  calls while fewer than two entries are queued (`MaxQueue`). Repeated
  deactivations and activations may leave stale entries in the queue without
  bound; the entries of `execute()` and of the thread of delayed tasks come on
  top of the bound.
- `replication`: two replicas and eleven scenarios, each with at most two inserts,
  two merges, two drops and two faults. One behaviour with all of them is out
  of TLC's reach; the scenarios pair every two kinds of them, except a repeated
  block with a merge (the deduplication nodes do not depend on merges). Two
  drops and a repeated block together are too large for the run; what they may
  do to each other is the question of `drop_forgets_block` (two drops and three
  inserts of one block), and `BlocksAreStoredOnce` proves the rest.
- `CONSTRAINT Explored` of `replication`: behaviours end where a DROP_RANGE has
  missed the part of an insert, the race that `drop_leaves_parts` shows. What
  follows from it (the part is active on one replica only) is that finding and
  not another one.
- `CHECK_DEADLOCK FALSE` in the runs of transactions: every transaction is
  begun at most once, so a model in which all have ended stops. In
  `schedule_pool`: a pool whose threads have ended stops. `replication` stutters
  only in `Rest`, when everything is done, so that a replica that is stuck with
  a non-empty queue would be a deadlock.

Symmetry is used for the transactions of `transaction_log`, which are
interchangeable; that run checks safety only.

### Fairness

`SharedMutex`: each thread is weakly fair in the steps of a call it has begun
(a running thread is scheduled); nobody has to call anything. `ClaimSucceeds`
says that a claimed mutex is obtained when the readers leave, `SleepersWake`
that a thread does not sleep for ever on a condition that holds.

Transactions: weakly fair are the updating thread, the threads that end a
transaction (commit and rollback after the decision), the client that has lost
an answer and only has to hand the transaction over, and a query that holds the
lock of the set of parts. Without the last one a query that stops under the
lock would block every rollback. No fairness is given to clients otherwise.
A client may repeat TRUNCATE without end, and `std::mutex` does not promise a
rollback its turn; in `transactions_unknown_state` the one that truncates
conflicts with the other transaction over part `a`, so it cannot starve it.
Keeper fails at most `MaxFaults` times, that is, it is available in the end.

`RWLock`: a thread whose group has the ownership wakes up (weakly fair), and a
holder is released in the end (strongly fair `Unlock`, because an outer holder
cannot go while a nested one is there, and the query may nest again and again).

`BackgroundSchedulePool`: the threads and the clock go on (weakly fair), task
functions return, and a thread that waits for `exec_mutex` gets it if it is free
again and again (strongly fair `ExecuteBegin`): the header says that a holder
of `getExecLock()` keeps it only briefly. Nobody has to call anything.

`replication` states no fairness and checks safety, and deadlock.

## 5. Proofs

`SharedMutexProofs.tla` proves, for any finite set of threads and any `Half`
above their number, that `Spec` implies always `TypeOK`, `WordCountsOwners`,
`MutualExclusion`, `NoLostWakeUp` and `NoLostDrain`, `WriterIdIsOwner`, and that `Spec` implies
`ImplementsReadersWriter`. None of these is inductive: the word only makes
sense with the threads that made it what it is. The invariant `IInv` says that
the mask is set exactly when one thread is between its compare-exchange and its
`unlock()`, that the lower half counts the readers and `waiters` the threads
around a futex wait, and that the local value of a claimer is never below the
readers still in. `ThreadsFit` says that there are fewer threads than a half can
count, as there are fewer than 2^32 in a process; `PlusOne` and `MinusOne` carry and
borrow as the 64-bit operations do, and `WordCountsOwners` says that they never
get to. Counting needs the cardinality theorems of finite sets; the
lemmas `MoveReader`, `MoveWaiter` and `MoveClaimer` say how a step of one thread
moves it between the counted sets.

`TransactionLogProofs.tla` proves all invariants of the run `transaction_log` for
any transactions, any bound on CSNs, any number of failures and restarts, from
`CSNAssumption`. The argument, as parts of its `IInv`:

- numbers come from one counter and the newest node stays, so a listing ends
  with the number given out last (`KeeperNumbers`, `NewestEntryIsKept`);
- an entry leaves Keeper only when its transaction started before the tail and
  the entry was loaded (`CommitsAreLogged`); with the tail behind every snapshot
  in use this makes lookups true. The tail in memory may lag behind the one in
  Keeper after a failed request, and a restart makes them equal;
- `latest_snapshot` lags behind the entries loaded only between the two locks of
  `loadEntries()` (`LoadingPhase`), and the pair of `latest_snapshot` and
  `local_tid_counter` only grows (`TIDsAreOld`), so TIDs are unique;
- what is in the second list of unknown state was postponed before the last
  listing (`SecondListIsLoaded`), so it is in the map when it is taken, because
  its snapshot is still in use (`TakenListIsLoaded`, `TakenListIsDecided`).

The first section of `ReplicatedMergeTreeProofs.tla` is about `ActiveDataPartSet`. It
proves what the walks over neighbours compute, for any finite set of disjoint parts and any part: `GetContainingPart` returns the
part of the set that contains the given one, if there is one
(`ContainingPartIsFound`); the walks of `add` stop at a part that stands in the way
exactly if the set has one (`IntersectionIsFound`); then `Add` replaces exactly
the covered parts and keeps the set disjoint (`AddReplacesCovered`); and
`GetPartsCoveredBy` of a range returns every part in it
(`CoveredPartsAreFound`). The proofs need the closest element of a finite set
in an order, which the well-founded minimum of the library gives.

`BackgroundSchedulePoolProofs.tla` proves `FlagsAgree` and `NoLostSchedule` for any
tasks and threads, from `PoolAssumption`. Neither is inductive: that a
deactivated task is not executing follows from who holds `exec_mutex`
(`Execution`), and that cancelling a delay once is enough from a task being at
most once in the map (`Types`, with `Unique`). `IInv` is these two and the two
invariants, which need each other: `execute()` leaves a deactivated task alone,
which loses no schedule because its flag is not set.

`RWLockProofs.tla` proves `PhasesAreConsistent`, `PhaseFair` and the refinement of
`ReadersWriter` for any clients and queries. The invariant `IInv` says in which of
three phases the lock is: free, with both lists empty; read, the groups up to
`rdlock_owner` owning and at most one group waiting behind a writer; or written by
the first writer. With it go the membership of clients in groups, counted by
cardinality, and the two possible values of `overtaken` (`Overtaking`): a reader
that has been overtaken waits while a writer owns, and is served next. That a
writer holds alone, on which the refinement rests, follows from the phases.

`MergeTreeTransactionsProofs.tla` is about any transactions, parts, covering
relation, readers, kills, failed requests and crashes. `TableAssumption` asks for a
finite set of parts whose names are no reserved value and are written once, and for
containment to be a strict order in which every part has blocks. The steps:

- `ImplementsLog`: every step of the table is a step of `LogNext` or leaves the
  log alone, so `IInv` of the log holds here too;
- `TxnInv`, the life of a transaction: what `csn[x]` says of the two programs
  (`Outcome`), and that a transaction is on the list of running ones exactly from
  its beginning to the end of its commit or rollback. `CommittedStays` follows:
  the updating thread decides only when the entry of the transaction, if there is
  one, is loaded (`TakenListIsLoaded` of the log), and a KILL needs a CSN that is
  Unknown, which it never is once the entry may have been created;
- `PartInv`, what parts say of transactions. Truth only grows (`Grows`): entries
  stay committed, and a transaction that is doomed (rolled back, or past its
  commit request without an entry) stays so. What may be written where follows
  from who holds a part: `CreatedIsNamed` (only its creator stamps a creation),
  `RemovedIsLocked` and `OneHolder` (a part is locked for removal by one
  transaction, which alone stamps, clears and unlocks it), `FileIsLocked` and
  `FileCSNIsFinal` (a CSN in a file belongs to the removal in memory), `ReadIsTrue`
  (what a call of `isVisible()` has loaded stays true until it stores it), and
  `UnloadedIsOld` (a part not loaded yet names transactions whose entries the
  start-up has loaded, so that a lookup without an answer means no commit).
  Nothing of this is true step by step without the rest: a rollback unlocks a part
  while a reader is between its loads, and a crash cuts every sequence in two;
- `TrueCSNs`, the invariant `StoredCSNsAreTrue` of the run `transactions_restart`,
  without its bounds and with late loading as well.

At the end of that module are the effects of every action on one transaction and on
one part, and `Names`, who has made a part: a TID in memory or in a file belongs to a
transaction that has begun, and a part is created by at most one.
`MergeTreePartsProofs.tla` continues it with what follows for parts:

- `Removals`: a part whose removal is under way is locked by one transaction in
  memory, and its file says so or is about to (`FilesNameTheRemover`); after the
  commit the CSN of creation or removal is in the part as soon as the loops of
  `afterCommit` have passed it, which makes lookups behind the tail safe
  (`LookupsFindTheirCSN`);
- `FileStamps`: the same for the CSNs in files. The tail passes a snapshot only when
  its transaction has ended, and then its parts have been stamped; parts not loaded
  yet hold the tail through `~started`. `PurgedEntriesAreNotNeeded` is the invariant
  `PurgedCSNsAreInParts`, which two runs refute, under the hypothesis that the races
  of these two findings do not happen: `~LateOutdated`, no outdated part is loaded in
  the background, and `[]~KilledWhileWriting`, no KILL between the writing of a part
  and `addNewPart()`. So there is no third way to lose an entry.
- `Table`: where the blocks are. A block is in at most one Active part, or in one
  part whose removal is pending and which only a part of the same transaction
  replaces (`OneActive`, `PendingIsReplaced`, `OnePending`). The sources of a merge
  stay Active until it is cancelled (`SourcesAreActive`); the loop over covered parts
  runs under the lock of the set of parts and meets every one of them
  (`LoopIsComplete`, `LoopIsFree`); a rollback takes out the parts it made before it
  puts back those it removed (`RolledBackIsOutdated`); an Outdated part was removed or
  made by a transaction that will not commit (`OutdatedIsRemoved`). `Live`, `OneLive`,
  `LiveIsThere` and `LoadedIsLive` say the same of what is left by the commits, which
  is what a restart loads. None of the two invariants about Active parts is inductive:
  a rollback makes parts Active long after the step that decided which ones. They
  follow as `ActivePartsStayDisjoint` and `ActivePartsAreWhatCommitsLeave`. `Table` was
  checked by TLC on eight small instances before it was proved.
- visibility. `Sound` is all of the above with `Commits`: a transaction has one entry,
  whose CSN is above its snapshot. With it a CSN found for the creation or removal of a
  part tells whether the part is in a snapshot (`CreationTells`, `RemovalTells`), and a
  lookup without an answer means that there was no commit in it (`CreationIsFound`,
  `RemovalIsFound`). `SnapshotsAreKept` needs one thing more, `GoneIsInvisible`: a part
  whose directory is gone was made by a transaction that never commits, or its removal
  is older than every snapshot in use, now and later (`OldestGrows`).
- `ReadsSeeTheSnapshot` takes a call of `isVisible()` apart. `ReadKnows` says for each of
  its program points what the values loaded so far tell about the snapshot. They may be
  of different moments; that is harmless because what is in the snapshot of a running
  transaction does not change while it reads (`ViewIsSame`) and a CSN, once there, stays.
- `PartsAreLoaded`: `FileStamps` says that an entry which the file of an unloaded part
  needs is not purged, so what loading finds is true (`FixedIsTrue`); a part that is not
  gone is one the commits have left (`NotGoneIsLive`), and no other such part covers it;
  `RemovedIsSeen` orders the CSNs of creation and removal. The hypotheses are those of
  `PurgedEntriesAreNotNeeded`.
- `IsolationIsImplemented`: `Spec => TransactionsAreIsolated`, the refinement of
  `SnapshotIsolation`, for any constants and without hypotheses. The order of commits
  is that of the entries ever written: the rank of an entry is the number of entries
  up to it, a new one comes last, and a snapshot is a prefix of the order (`OrderIs`,
  `OrderGrows`, `SeenIs`). `ViewIs` then says that the view of the abstract
  transaction is `InSnapshot`, so that `Read` is what `ReadsSeeTheSnapshot` is about and
  `Remove` is the step that locks a part. Three facts are added to the invariant
  (`Ending`): a new part is not among the changes before `addNewPart()`, only a
  transaction with changes asks for a CSN, and a snapshot is released when the
  outcome is decided. `StepIsMapped` has one case per action. A commit is the step
  that creates the node, whether or not its answer arrives; everything after
  it, and finding out about it, changes nothing that a client can tell.

`ReplicatedMergeTreeProofs.tla` proves every invariant of the run `replication` for
any finite set of replicas, any inserts on them and any number of drops, lost
sessions and restarts. `ReplicationAssumption` asks for one replica at least, for
block contents that are not those of the blocks stored at the start, and for fewer
than `MAX_LEVEL` selections of merges, so that no level reaches the one that marks
the ranges of drops. All theorems have the hypothesis `[]~DropMissedPreActivePart`:
the race of finding 3 (a DROP_RANGE is about to end while a part of its range is
committed in Keeper and not yet in the working set) does not happen. It breaks what
they say (the part comes back and may be merged after the drop), and
`NothingElseRemains` says that nothing else does: without it,
`NoPartRemainsAfterDrop`, which the run `drop_leaves_parts` refutes, holds. The
argument, as parts of `IInv`:

- numbers: one counter gives them out, and a lock, a pending insert or a multi in
  flight has its own (`NumbersInv`); a multi can succeed only in the session it was
  sent in, while its insert waits for the answer (`MultisInv`); a drop that has
  cleared its range leaves no insert in it that could still commit (`DropsInv`);
- the log is a laminar family (`LaminarInv`): a new entry covers or does not touch
  what came before and is never covered. No lock in use is inside a part or below
  the border of a drop (`LocksInv`). For merges this is the proof sketched in
  `canMergeTwoParts()`: `PredicateInv` says what each of the three requests has seen,
  `MergeStep` draws the conclusion, from `RunNeighbours` and `RunGaps` for a run of
  several parts;
- the table replayed from a laminar log is the set of its maximal parts
  (`ReplayedMaximal`), and so is what `add` makes of entries inserted into
  `virtual_parts` in order (`VirtualAfterMaximal`), which gives `VirtualInv`. Both are
  recursive functions; the proofs take the least index at which the function and
  the claim differ;
- a replica: `PartsInv` (active parts are disjoint and in Keeper, what is in Keeper is
  on disk, an outdated part is covered by an active one or dropped), `QueueInv` (an
  entry that has left the queue is covered by a part or a drop, and a drop that has
  left it has nothing in its range), `ExecutingInv` (an entry in execution makes a
  part nobody else makes, and if its range is dropped, the DROP_RANGE waits for it);
- blocks: `KeptInv` and `OnceInv`, which relate log, block ids and acknowledged
  inserts. `RememberedInv` says that a block of the log has its id, or a drop was
  started on its range. It is not part of `IInv`: the race of finding 4 breaks it.
  `BlocksAreStoredOnce` has the further hypothesis `[]~DropForgetsNewBlock` (no drop
  is about to remove an id that names a block above its range), so this race is
  the only way to store a block twice; `AcknowledgedIsLogged` needs no such
  hypothesis, since a forgotten id costs a duplicate and never a block.

None of the invariants of the run is inductive alone; `IInv` was checked with TLC on
the scenarios of the run first. The proof attempt changed one of them: the block ids
of a range are cleared before the DROP_RANGE is in the log, so a DROP PARTITION that
fails with its session in between leaves the data and lets the same block be
inserted again. `InsertedOnce` therefore excludes blocks of ranges on which a drop
was started (`MayBeForgotten`), not only dropped ones.

`SequenceLemmas.tla` has the facts about sequences that these modules use.

Out of reach of the prover, and left to TLC: liveness under fairness, `ENABLED`,
and induction over data. So only the seven liveness properties of the runs are
model-checked and not proved: `ClaimSucceeds`, `SleepersWake`,
`UnknownStateIsFinalized`, `CommitsArePublished`, `RequestsAreServed`,
`EveryRequestRuns` and `ShutdownEnds`. Proved and not in a run: `MutualExclusion` of the mutex and
`NewestEntryIsKept` of the log, which other checked properties imply.

## 6. Assumptions and what is not modelled

Assumptions about Keeper: a request that ends in a hardware error has taken
effect before the error is reported or never will; requests of a session are
ordered; a lost session always sets the event of the updating thread, as its
watch callbacks do.

Abstractions: one server and one table; a TID stands for its own hash (no
collisions) and has no host; the call of `isVisible()` inside a write, a TRUNCATE
or `MergeTreeData::Transaction::commit` is one step, and only SELECT takes it
apart; the effect of removing a part from disk is one step; a crash is the death
of the process, so what was written stays written.

Not modelled of these components: `SET TRANSACTION SNAPSHOT`, the list of
mutations of a transaction, writes without a transaction beside transactions,
merges over the gap that a committed removal has left between two parts,
DETACH and ATTACH, `waitForCSNLoaded()` and `waitStateChange()`,
`system.transactions_info_log`, shutdown, several hosts, CSNs lost by a power
failure (the code writes them without fsync and says so), overflow of the
32-bit sequence numbers of Keeper, the platforms on which `SharedMutex` is
`std::shared_mutex`.

Of replication: mutations and the versions of parts they make, REPLACE_RANGE,
DROP_PART and ATTACH entries, quorum inserts, inserts that give up with an
unknown status and the check of their parts, pinned parts, lost replicas and
cleanup of the log, several partitions, DROP PARTITION of an empty one,
`LEGACY_MAX_LEVEL`, the empty part that a DROP_RANGE creates to cover what it
removed, a cleanup of Keeper that fails half-way, requests of a DROP PARTITION
that reach Keeper after its session has ended, `async_blocks` and the cleanup of
old block ids (`replicated_deduplication_window`), zero-copy replication. The
numbers under `block_numbers` and the log are never cleaned, and files of parts
never rot.

Of `RWLock`: metrics and the time a query spends waiting. Of
`BackgroundSchedulePool`: metrics, the tasks' functions, a task whose owner
dies.

The other components of the inventory are not modelled yet; `PROJECT.json`
lists them with the reason or the plan.

## 7. Findings

1. `late_outdated_parts`: the log is truncated as soon as the server counts as
   started, on the ground that CSNs missing in parts are written during start-up
   (`TransactionLog.cpp:270`). Outdated parts are loaded later, in the
   background, so an entry that such a part needs may be removed before.
2. `killed_write`: a part that is written when KILL TRANSACTION cancels its
   transaction gets `RolledBackCSN` in memory only; its file has a creation TID
   without a CSN although the snapshot is released. A restart after the tail has
   moved cannot load it.
3. `drop_leaves_parts`: an insert is committed in Keeper and its part is not yet
   active in memory when the replica executes the DROP_RANGE of a later DROP
   PARTITION. The entry removes "all data parts" of the range, which are the
   active and outdated ones, and the part of the insert stays, in Keeper and
   then in the working set.
4. `drop_forgets_block`: DROP PARTITION reads block ids and removes them later
   with version -1. If another drop has removed an id in between and the same
   data was inserted again, with a number above both ranges, the id of the new
   block is removed, and the next insert of the data is stored a second time,
   although the documentation calls inserts idempotent and the header says
   that ids in the range are removed. The first drop usually fails on
   `alter_partition_version` then and its retry drops both copies; the duplicate
   stays if its server dies before, or if the other drop ended without its log
   entry.

Remarks, where a comment or a debug assertion is not quite what happens and
nothing else follows:

- `rollbackTransaction()` asserts that a rollback which lost was overtaken by a
  commit or another rollback (`TransactionLog.cpp:509`); that commit may be
  refused, and the CSN is Unknown again. Two assertions of `isVisible()`
  (`TransactionVersionMetadata.cpp:145-146`) relate values of atomics that another
  thread may change between the loads. Both are debug only.
- `delayExecutionThreadFunction()` keeps its local `task` from one turn to the
  next (`BackgroundSchedulePool.cpp:325-348`): when the map has become empty
  meanwhile, a task whose delay was cancelled counts as ready and is scheduled.
  `schedule()` ignores it when the task is deactivated; otherwise the task runs
  once more or earlier than asked.
- `RWLock`: two threads of one query that race for the lock are not yet nested.
  The first may be granted and not yet in `owner_queries` when the second
  queues up behind a writer; the second is served after the writer, so a query
  whose first thread waits for its second would be stuck. Recursive locking as
  the header describes it is not affected.
