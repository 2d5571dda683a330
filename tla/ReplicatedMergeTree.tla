------------------------ MODULE ReplicatedMergeTree ------------------------
(***************************************************************************)
(* Replication of one partition of a ReplicatedMergeTree table through     *)
(* Keeper: inserts (ReplicatedMergeTreeSink), the replication queue of     *)
(* every replica (ReplicatedMergeTreeQueue), the assignment of merges, the *)
(* execution of GET_PART, MERGE_PARTS and DROP_RANGE entries, DROP         *)
(* PARTITION, lost Keeper sessions and restarts of servers.                *)
(*                                                                         *)
(* In Keeper, for the table: log, the numbered locks under block_numbers,  *)
(* the deduplication nodes under blocks; for a replica: parts, queue,      *)
(* log_pointer, and for its server the version of its session node.  In a  *)
(* server's memory: virtual_parts, the entries being executed, the parts   *)
(* on disk and their state (Active, Outdated; PreActive ones belong to     *)
(* inserts in progress), and the stage of its merge predicate.             *)
(***************************************************************************)
EXTENDS ActiveDataPartSet, FiniteSets, Sequences

CONSTANTS
    Replicas,
    Inserts,    \* INSERT queries of one block each
    HomeOf,     \* the replica a query runs on
    DataOf,     \* the block's contents: its block id for deduplication
    Scenarios   \* how many of each query and fault a behaviour may have

(* The contents of inserted blocks are not those of the blocks stored at   *)
(* the start, which are numbered; merges are too few for a level to reach  *)
(* MAX_LEVEL, which is kept for the ranges of drops.                       *)
ASSUME ReplicationAssumption ==
    /\ IsFiniteSet(Replicas) /\ Replicas # {}
    /\ HomeOf \in [Inserts -> Replicas]
    /\ \A i \in Inserts : DataOf[i] \notin Nat
    /\ Scenarios \subseteq [stored : Nat, inserts : SUBSET Inserts, selections : 0 .. MAX_LEVEL - 1,
                            drops : Nat, reconnects : Nat, restarts : Nat]

VARIABLES
    log, locks, next_block, blocks, parts, queue, log_pointer, session,
    virtual_parts, executing, active, outdated, predicate,
    insert, multis, drop, budget

keeper == <<log, locks, next_block, blocks, parts, queue, log_pointer, session>>
memory == <<virtual_parts, executing, active, outdated, predicate>>
queries == <<insert, multis, drop, budget>>
vars == <<keeper, memory, queries>>

Idle == [stage |-> "idle", prev |-> {}, committing |-> {}, version |-> 0]

Block(n) == [min |-> n, max |-> n, level |-> 0]

(* A replicated table that has received budget.stored blocks, long enough  *)
(* ago for their block ids to have been forgotten.                         *)
Init ==
    /\ budget \in Scenarios
    /\ LET stored == {Block(n) : n \in 0 .. budget.stored - 1}
       IN  /\ log = [k \in 1 .. budget.stored |->
                        [type |-> "GET_PART", part |-> Block(k - 1), sources |-> {}, data |-> k]]
           /\ parts = [r \in Replicas |-> stored]
           /\ virtual_parts = [r \in Replicas |-> stored]
           /\ active = [r \in Replicas |-> stored]
    /\ next_block = budget.stored
    /\ log_pointer = [r \in Replicas |-> budget.stored + 1]
    /\ locks = {} /\ blocks = {} /\ multis = {}
    /\ queue = [r \in Replicas |-> {}]
    /\ session = [r \in Replicas |-> 0]
    /\ executing = [r \in Replicas |-> {}]
    /\ outdated = [r \in Replicas |-> {}]
    /\ predicate = [r \in Replicas |-> Idle]
    /\ insert = [i \in Inserts |-> [stage |-> "none", block |-> 0, answer |-> "none"]]
    /\ drop = [r \in Replicas |->
           [stage |-> "none", block |-> 0, version |-> 0, listed |-> {}, ids |-> {}]]
-----------------------------------------------------------------------------
(* Drops everything below the number the DROP PARTITION query has locked.  *)
DropRange(n) == [min |-> 0, max |-> n - 1, level |-> MAX_LEVEL]

(* A part of an insert that is on disk but not committed to the working set. *)
PreActive(r) ==
    {Block(insert[i].block) : i \in {j \in Inserts :
        HomeOf[j] = r /\ insert[j].stage \in {"writing", "recovering"}}}

OnDisk(r) == active[r] \cup outdated[r] \cup PreActive(r)

(* The version of the node /log: merges check and increment it, drops      *)
(* increment it, inserts do not.                                           *)
LogVersion == Cardinality({k \in DOMAIN log : log[k].type # "GET_PART"})

Lock(n, kind, r) == [block |-> n, kind |-> kind, owner |-> r, session |-> session[r]]

Spend(what) ==
    /\ budget[what] > 0
    /\ budget' = [budget EXCEPT ![what] = @ - 1]

(* Transaction::commit(): the part becomes Active and the parts it covers  *)
(* Outdated, or it is obsolete because a covering part is Active already.  *)
CommitPart(r, p) ==
    LET new == Add(active[r], p)
    IN  /\ active' = [active EXCEPT ![r] = new]
        /\ outdated' = [outdated EXCEPT ![r] = @ \cup ((active[r] \cup {p}) \ new)]
-----------------------------------------------------------------------------
(* INSERT: ReplicatedMergeTreeSink::commitPart().                          *)

(* createEphemeralLockInZooKeeper(): one multi checks that the block id is *)
(* new and takes a number; the part is renamed and added as PreActive, and *)
(* the multi that commits it is sent.                                      *)
AllocateBlockNumber(i) ==
    LET r == HomeOf[i]
    IN  /\ insert[i].stage = "none"
        /\ i \in budget.inserts
        /\ \A b \in blocks : b.data # DataOf[i]
        /\ next_block' = next_block + 1
        /\ locks' = locks \cup {Lock(next_block, "insert", r)}
        /\ insert' = [insert EXCEPT ![i] =
               [stage |-> "writing", block |-> next_block, answer |-> "none"]]
        /\ multis' = multis \cup {[insert |-> i, block |-> next_block, session |-> session[r]]}
        /\ UNCHANGED <<log, blocks, parts, queue, log_pointer, session, memory, drop, budget>>

(* The block id exists: no number is taken.  The query is resolved as a    *)
(* duplicate in a second request.                                          *)
FindDuplicate(i) ==
    /\ insert[i].stage = "none"
    /\ i \in budget.inserts
    /\ \E b \in blocks : b.data = DataOf[i]
    /\ insert' = [insert EXCEPT ![i].stage = "duplicate"]
    /\ UNCHANGED <<keeper, memory, multis, drop, budget>>

(* Mutant: the commit multi does not create the block id. *)
MultiOutcomeUnchecked(m) ==
    IF ~\E l \in locks : l.block = m.block THEN "cancelled"
    ELSE IF m.session # session[HomeOf[m.insert]] THEN "expired"
    ELSE "ok"

(* Mutant: the commit multi does not check the session node. *)
MultiOutcomeAnySession(m) ==
    IF ~\E l \in locks : l.block = m.block THEN "cancelled"
    ELSE IF \E b \in blocks : b.data = DataOf[m.insert] THEN "duplicate"
    ELSE "ok"

(* The commit multi: log entry, removal of the lock, the part's node and   *)
(* its block id, and a check of the version of the server's session node.  *)
MultiOutcome(m) ==
    IF ~\E l \in locks : l.block = m.block THEN "cancelled"
    ELSE IF \E b \in blocks : b.data = DataOf[m.insert] THEN "duplicate"
    ELSE IF m.session # session[HomeOf[m.insert]] THEN "expired"
    ELSE "ok"

KeeperCommitsPart(m) ==
    LET i == m.insert
        r == HomeOf[i]
        p == Block(m.block)
        outcome == MultiOutcome(m)
    IN  /\ multis' = multis \ {m}
        /\ insert' = IF insert[i].block = m.block /\ insert[i].stage = "writing"
                     THEN [insert EXCEPT ![i].answer = outcome] ELSE insert
        /\ IF outcome = "ok"
           THEN /\ log' = Append(log, [type |-> "GET_PART", part |-> p,
                                       sources |-> {}, data |-> DataOf[i]])
                /\ locks' = {l \in locks : l.block # m.block}
                /\ parts' = [parts EXCEPT ![r] = @ \cup {p}]
                /\ blocks' = blocks \cup {[data |-> DataOf[i], block |-> m.block]}
           ELSE UNCHANGED <<log, locks, parts, blocks>>
        /\ UNCHANGED <<next_block, queue, log_pointer, session, memory, drop, budget>>

(* The answer arrived: the part is committed locally, or rolled back and   *)
(* the lock of its number released; a lock that was missing means that     *)
(* DROP PARTITION has cancelled the query.                                 *)
CommitLocally(i) ==
    /\ insert[i].stage = "writing" /\ insert[i].answer = "ok"
    /\ CommitPart(HomeOf[i], Block(insert[i].block))
    /\ insert' = [insert EXCEPT ![i].stage = "done"]
    /\ UNCHANGED <<keeper, virtual_parts, executing, predicate, multis, drop, budget>>

Rollback(i) ==
    /\ insert[i].stage = "writing" /\ insert[i].answer \in {"duplicate", "cancelled"}
    /\ insert' = [insert EXCEPT ![i].stage =
           IF insert[i].answer = "duplicate" THEN "duplicate" ELSE "failed"]
    /\ locks' = {l \in locks : l.block # insert[i].block}
    /\ UNCHANGED <<log, next_block, blocks, parts, queue, log_pointer, session,
                   memory, multis, drop, budget>>

(* resolve_duplicate_stage(): the client is told that the block is stored; *)
(* a DROP PARTITION may have removed the block id meanwhile.               *)
ResolveDuplicate(i) ==
    /\ insert[i].stage = "duplicate"
    /\ insert' = [insert EXCEPT ![i].stage =
           IF \E b \in blocks : b.data = DataOf[i] THEN "done" ELSE "failed"]
    /\ UNCHANGED <<keeper, memory, multis, drop, budget>>

(* The answer is lost with the session: the new session looks for the      *)
(* part's node, and commits locally, or rolls back and tries again with a  *)
(* new number.                                                             *)
Recover(i) ==
    LET r == HomeOf[i]
        p == Block(insert[i].block)
    IN  /\ insert[i].stage = "recovering"
        /\ IF p \in parts[r]
           THEN /\ CommitPart(r, p)
                /\ insert' = [insert EXCEPT ![i].stage = "done"]
           ELSE /\ insert' = [insert EXCEPT ![i].stage = "none"]
                /\ UNCHANGED <<active, outdated>>
        /\ UNCHANGED <<keeper, virtual_parts, executing, predicate, multis, drop, budget>>
-----------------------------------------------------------------------------
(* The replication queue: pullLogsToQueue() and insertUnlocked().          *)

VirtualAfter(virtual, entries) ==
    LET v[k \in 0 .. Len(log)] ==
            IF k = 0 THEN virtual
            ELSE IF k \in entries THEN Add(v[k - 1], log[k].part) ELSE v[k - 1]
    IN  v[Len(log)]

PullLogs(r) ==
    /\ queue' = [queue EXCEPT ![r] = @ \cup log_pointer[r] .. Len(log)]
    /\ log_pointer' = [log_pointer EXCEPT ![r] = Len(log) + 1]
    /\ virtual_parts' = [virtual_parts EXCEPT ![r] =
           VirtualAfter(@, log_pointer[r] .. Len(log))]

QueueUpdatingTask(r) ==
    /\ log_pointer[r] <= Len(log)
    /\ PullLogs(r)
    /\ UNCHANGED <<log, locks, next_block, blocks, parts, session,
                   executing, active, outdated, predicate, queries>>
-----------------------------------------------------------------------------
(* Assignment of merges: the constructor of the merge predicate copies     *)
(* virtual_parts, then loads the numbers being committed, then pulls the   *)
(* log (reading the version of /log first), each in a request of its own.  *)

CopyVirtualParts(r) ==
    /\ predicate[r].stage = "idle"
    /\ Spend("selections")
    /\ predicate' = [predicate EXCEPT ![r].stage = "copied", ![r].prev = virtual_parts[r]]
    /\ UNCHANGED <<keeper, virtual_parts, executing, active, outdated, insert, multis, drop>>

LoadCommittingBlocks(r) ==
    /\ predicate[r].stage = "copied"
    /\ predicate' = [predicate EXCEPT ![r].stage = "loaded",
           ![r].committing = {l.block : l \in locks}]
    /\ UNCHANGED <<keeper, virtual_parts, executing, active, outdated, queries>>

ReadLogVersion(r) ==
    /\ predicate[r].stage = "loaded"
    /\ predicate' = [predicate EXCEPT ![r].stage = "versioned", ![r].version = LogVersion]
    /\ UNCHANGED <<keeper, virtual_parts, executing, active, outdated, queries>>

PullForMerge(r) ==
    /\ predicate[r].stage = "versioned"
    /\ PullLogs(r)
    /\ predicate' = [predicate EXCEPT ![r].stage = "ready"]
    /\ UNCHANGED <<log, locks, next_block, blocks, parts, session,
                   executing, active, outdated, queries>>

(* Mutant: the numbers being committed are not looked at. *)
CanMergeTwoPartsHasty(r, left, right) ==
    LET gap == [min |-> left.max + 1, max |-> right.min - 1, level |-> MAX_LEVEL]
    IN  /\ \A p \in {left, right} :
               /\ IsCovered(predicate[r].prev, p)
               /\ GetContainingPart(virtual_parts[r], p) = {p}
        /\ left.max + 1 < right.min => GetPartsCoveredBy(virtual_parts[r], gap) = {}

CanMergeTwoParts(r, left, right) ==
    LET gap == [min |-> left.max + 1, max |-> right.min - 1, level |-> MAX_LEVEL]
    IN  /\ \A p \in {left, right} :
               /\ IsCovered(predicate[r].prev, p)
               /\ GetContainingPart(virtual_parts[r], p) = {p}
        /\ left.max + 1 < right.min =>
               /\ \A n \in predicate[r].committing : ~(left.max < n /\ n < right.min)
               /\ GetPartsCoveredBy(virtual_parts[r], gap) = {}

(* A run of neighbours among the active parts that may be merged.          *)
MergeableRuns(r) ==
    {run \in SUBSET active[r] :
        /\ Cardinality(run) > 1
        /\ \A p \in run, q \in run :
               Previous(active[r], q) = {p} => CanMergeTwoParts(r, p, q)
        /\ \A p \in active[r] :
               (\E a \in run, b \in run : Before(a, p) /\ Before(p, b)) => p \in run}

MergedPart(run) ==
    [min   |-> CHOOSE n \in {p.min : p \in run} : \A p \in run : n <= p.min,
     max   |-> CHOOSE n \in {p.max : p \in run} : \A p \in run : n >= p.max,
     level |-> 1 + CHOOSE n \in {p.level : p \in run} : \A p \in run : n >= p.level]

(* createLogEntryToMergeParts(): nothing is assigned when a source has no  *)
(* node or the version of /log has changed since it was read.              *)
AssignMerge(r) ==
    /\ predicate[r].stage = "ready"
    /\ \E run \in MergeableRuns(r) :
           IF run \subseteq parts[r] /\ predicate[r].version = LogVersion
           THEN log' = Append(log, [type |-> "MERGE_PARTS", part |-> MergedPart(run),
                                    sources |-> run, data |-> "none"])
           ELSE log' = log
    /\ predicate' = [predicate EXCEPT ![r] = Idle]
    /\ UNCHANGED <<locks, next_block, blocks, parts, queue, log_pointer, session,
                   virtual_parts, executing, active, outdated, queries>>

CannotSelect(r) ==
    /\ predicate[r].stage = "ready"
    /\ MergeableRuns(r) = {}
    /\ predicate' = [predicate EXCEPT ![r] = Idle]
    /\ UNCHANGED <<keeper, virtual_parts, executing, active, outdated, queries>>
-----------------------------------------------------------------------------
(* Execution of queue entries.  An executing entry holds its number, the   *)
(* part it will really produce, whether a DROP_RANGE has removed it from   *)
(* the queue (removed_by_other_entry) and, for a DROP_RANGE, its stage and *)
(* the parts it still has to remove from Keeper.                           *)

Executing(k, actual) ==
    [entry |-> k, actual |-> actual, removed |-> FALSE, stage |-> "started", gone |-> {}]

IsDrop(k) == log[k].type = "DROP_RANGE"

Tagged(x) == {log[x.entry].part, x.actual}

FutureParts(r) == UNION {Tagged(x) : x \in executing[r]}

IsGoingToBeDropped(r, p) ==
    \E q \in GetContainingPart(virtual_parts[r], p) : IsFakeDropRangePart(q)

ShouldExecuteLogEntry(r, k) ==
    LET p == log[k].part
    IN  /\ \A x \in executing[r] : x.entry # k
        /\ \A f \in FutureParts(r) : IsDisjoint(f, p) \/ (IsDrop(k) /\ f # p /\ Contains(p, f))
        /\ IsDrop(k) => \A x \in executing[r] : ~IsDrop(x.entry) \/ IsDisjoint(log[x.entry].part, p)
        /\ ~IsDrop(k) => ~IsGoingToBeDropped(r, p)
        /\ log[k].sources \cap FutureParts(r) = {}

(* The part, or a covering one, is here and in Keeper: nothing to do.      *)
AlreadyHas(r, p) ==
    \/ p \in PreActive(r) \cap parts[r]
    \/ p \notin PreActive(r) /\ GetContainingPart(active[r], p) \cap parts[r] # {}

(* findReplicaHavingCoveringPart(): the largest covering part of another   *)
(* replica.  A part other than the entry's own must be known to the queue  *)
(* and is not fetched while a newer entry is producing a part it overlaps  *)
(* (addFuturePartIfNotCoveredByThem()).                                    *)
LargestCoveringParts(s, p) ==
    {q \in parts[s] : /\ Contains(q, p)
                      /\ \A other \in parts[s] : Contains(other, q) => other = q}

AddFuturePartIfNotCoveredByThem(r, k, q) ==
    /\ IsCovered(virtual_parts[r], q)
    /\ q \notin FutureParts(r)
    /\ \A x \in executing[r] : x.entry < k \/ \A f \in Tagged(x) : IsDisjoint(f, q)

Fetchable(r, k) ==
    {q \in UNION {LargestCoveringParts(s, log[k].part) \cap OnDisk(s) : s \in Replicas \ {r}} :
        /\ q = log[k].part \/ AddFuturePartIfNotCoveredByThem(r, k, q)
        /\ q \notin outdated[r]}

StartEntry(r, k, actual) ==
    /\ executing' = [executing EXCEPT ![r] = @ \cup {Executing(k, actual)}]
    /\ UNCHANGED <<keeper, virtual_parts, active, outdated, predicate, queries>>

SkipEntry(r, k) ==
    /\ ~IsDrop(k) /\ ShouldExecuteLogEntry(r, k) /\ AlreadyHas(r, log[k].part)
    /\ queue' = [queue EXCEPT ![r] = @ \ {k}]
    /\ UNCHANGED <<log, locks, next_block, blocks, parts, log_pointer, session, memory, queries>>

StartFetch(r, k) ==
    /\ ~IsDrop(k) /\ ShouldExecuteLogEntry(r, k) /\ ~AlreadyHas(r, log[k].part)
    /\ \E q \in Fetchable(r, k) : StartEntry(r, k, q)

(* A merge whose sources are all active here is done here; otherwise its   *)
(* result is fetched.                                                      *)
StartMerge(r, k) ==
    /\ log[k].type = "MERGE_PARTS"
    /\ ShouldExecuteLogEntry(r, k) /\ ~AlreadyHas(r, log[k].part)
    /\ log[k].sources \subseteq active[r]
    /\ StartEntry(r, k, log[k].part)

(* The part is ready: it is committed to Keeper and to the working set     *)
(* (checkPartChecksumsAndCommit()) unless it has become obsolete, and the  *)
(* entry leaves the queue.  A fetch of a larger part first waits for the   *)
(* older entries whose parts it overlaps.                                  *)
FinishEntry(r, x) ==
    /\ ~IsDrop(x.entry)
    /\ x.actual # log[x.entry].part =>
           \A y \in executing[r] : y.entry < x.entry => \A f \in Tagged(y) : IsDisjoint(f, x.actual)
    /\ IF IsCovered(active[r], x.actual)
       THEN UNCHANGED <<parts, active, outdated>>
       ELSE /\ parts' = [parts EXCEPT ![r] = @ \cup {x.actual}]
            /\ CommitPart(r, x.actual)
    /\ executing' = [executing EXCEPT ![r] = @ \ {x}]
    /\ queue' = [queue EXCEPT ![r] = @ \ {x.entry}]
    /\ UNCHANGED <<log, locks, next_block, blocks, log_pointer, session,
                   virtual_parts, predicate, queries>>

(* A failed attempt leaves the entry in the queue.  (DROP_RANGE fails with *)
(* the session: see NewSession.)                                           *)
FailEntry(r, x) ==
    /\ ~IsDrop(x.entry)
    /\ executing' = [executing EXCEPT ![r] = @ \ {x}]
    /\ UNCHANGED <<keeper, virtual_parts, active, outdated, predicate, queries>>

(* executeDropRange(): the entries that produce parts of the range leave   *)
(* the queue at once (removePartProducingOpsInRange()); those being        *)
(* executed are waited for.                                                *)
StartDropRange(r, k) ==
    LET range == log[k].part
        covered == {j \in queue[r] : ~IsDrop(j) /\ Contains(range, log[j].part)}
    IN  /\ IsDrop(k) /\ ShouldExecuteLogEntry(r, k)
        /\ queue' = [queue EXCEPT ![r] = @ \ covered]
        /\ virtual_parts' = [virtual_parts EXCEPT ![r] = @ \ {log[j].part : j \in covered}]
        /\ executing' = [executing EXCEPT ![r] =
               {[x EXCEPT !.removed = @ \/ x.entry \in covered] : x \in @}
               \cup {Executing(k, range)}]
        /\ UNCHANGED <<log, locks, next_block, blocks, parts, log_pointer, session,
                       active, outdated, predicate, queries>>

(* Mutant: the entries being executed are not waited for. *)
DropFromWorkingSetAtOnce(r, x) ==
    LET range == log[x.entry].part
        gone == {q \in active[r] \cup outdated[r] : Contains(range, q)}
    IN  /\ IsDrop(x.entry) /\ x.stage = "started"
        /\ active' = [active EXCEPT ![r] = @ \ gone]
        /\ outdated' = [outdated EXCEPT ![r] = @ \cup gone]
        /\ executing' = [executing EXCEPT ![r] =
               (@ \ {x}) \cup {[x EXCEPT !.stage = "dropped", !.gone = gone]}]
        /\ UNCHANGED <<keeper, virtual_parts, predicate, queries>>

(* Then the active parts of the range leave the working set, and they and  *)
(* the outdated ones are to be removed from Keeper.                        *)
DropFromWorkingSet(r, x) ==
    LET range == log[x.entry].part
        gone == {q \in active[r] \cup outdated[r] : Contains(range, q)}
    IN  /\ IsDrop(x.entry) /\ x.stage = "started"
        /\ \A y \in executing[r] : ~y.removed
        /\ active' = [active EXCEPT ![r] = @ \ gone]
        /\ outdated' = [outdated EXCEPT ![r] = @ \cup gone]
        /\ executing' = [executing EXCEPT ![r] =
               (@ \ {x}) \cup {[x EXCEPT !.stage = "dropped", !.gone = gone]}]
        /\ UNCHANGED <<keeper, virtual_parts, predicate, queries>>

(* removePartsFromZooKeeperWithRetries(); the range leaves virtual_parts   *)
(* with the entry.                                                         *)
FinishDropRange(r, x) ==
    /\ IsDrop(x.entry) /\ x.stage = "dropped"
    /\ parts' = [parts EXCEPT ![r] = @ \ x.gone]
    /\ virtual_parts' = [virtual_parts EXCEPT ![r] = @ \ {log[x.entry].part}]
    /\ executing' = [executing EXCEPT ![r] = @ \ {x}]
    /\ queue' = [queue EXCEPT ![r] = @ \ {x.entry}]
    /\ UNCHANGED <<log, locks, next_block, blocks, log_pointer, session,
                   active, outdated, predicate, queries>>

(* clearOldPartsAndRemoveFromZK(): outdated parts leave Keeper and disk.   *)
ClearOldParts(r) ==
    /\ outdated[r] # {}
    /\ parts' = [parts EXCEPT ![r] = @ \ outdated[r]]
    /\ outdated' = [outdated EXCEPT ![r] = {}]
    /\ UNCHANGED <<log, locks, next_block, blocks, queue, log_pointer, session,
                   virtual_parts, executing, active, predicate, queries>>
-----------------------------------------------------------------------------
(* DROP PARTITION: dropAllPartsInPartitions().                             *)

(* The version of alter_partition_version, incremented by every drop.      *)
AlterVersion == Cardinality({k \in DOMAIN log : IsDrop(k)})

(* An attempt starts with the version, so that a drop committed from then  *)
(* on makes it start again.                                                *)
ReadAlterVersion(r) ==
    /\ \/ drop[r].stage = "none" /\ Spend("drops")
       \/ drop[r].stage = "retry" /\ budget' = budget
    /\ drop' = [drop EXCEPT ![r].stage = "versioned", ![r].version = AlterVersion]
    /\ UNCHANGED <<keeper, memory, insert, multis>>

(* A number is locked that delimits the range.  (In an empty partition,    *)
(* number 0, there is nothing to drop.)                                    *)
LockDropRange(r) ==
    /\ drop[r].stage = "versioned" /\ next_block > 0
    /\ drop' = [drop EXCEPT ![r].stage = "locked", ![r].block = next_block]
    /\ locks' = locks \cup {Lock(next_block, "other", r)}
    /\ next_block' = next_block + 1
    /\ UNCHANGED <<log, blocks, parts, queue, log_pointer, session, memory,
                   insert, multis, budget>>

(* clearLockedBlockNumbersInPartition() cancels the inserts of the range,  *)
(* which are listed once: no number below the drop's is given out any      *)
(* more.  Their locks are removed one by one.                              *)
CancelInsert(r) ==
    /\ drop[r].stage = "locked"
    /\ \E l \in locks :
           /\ l.kind = "insert" /\ l.block < drop[r].block
           /\ locks' = locks \ {l}
    /\ UNCHANGED <<log, next_block, blocks, parts, queue, log_pointer, session, memory, queries>>

(* Mutant: the inserts in the range keep their locks. *)
ListBlockIdsAtOnce(r) ==
    /\ drop[r].stage = "locked"
    /\ drop' = [drop EXCEPT ![r].stage = "reading",
                            ![r].listed = {b.data : b \in blocks}, ![r].ids = {}]
    /\ UNCHANGED <<keeper, memory, insert, multis, budget>>

(* clearBlocksInPartition() then forgets the block ids of the range: it    *)
(* lists all block ids, reads each of them, and removes those that name a  *)
(* part of the range.                                                      *)
ListBlockIds(r) ==
    /\ drop[r].stage = "locked"
    /\ \A l \in locks : l.kind = "insert" => l.block >= drop[r].block
    /\ drop' = [drop EXCEPT ![r].stage = "reading",
                            ![r].listed = {b.data : b \in blocks}, ![r].ids = {}]
    /\ UNCHANGED <<keeper, memory, insert, multis, budget>>

ReadBlockId(r, id) ==
    LET inRange == \E b \in blocks : b.data = id /\ b.block < drop[r].block
    IN  /\ drop[r].stage = "reading"
        /\ drop' = [drop EXCEPT ![r].listed = @ \ {id},
                                ![r].ids = IF inRange THEN @ \cup {id} ELSE @]
        /\ UNCHANGED <<keeper, memory, insert, multis, budget>>

(* The block ids are removed in one multi, whatever part they name by now  *)
(* (version -1).  When one of them is gone the multi fails as a whole,     *)
(* which is only logged.                                                   *)
RemoveBlockIds(r) ==
    LET ids == drop[r].ids
    IN  /\ drop[r].stage = "reading" /\ drop[r].listed = {}
        /\ blocks' = IF ids \subseteq {b.data : b \in blocks}
                     THEN {b \in blocks : b.data \notin ids} ELSE blocks
        /\ drop' = [drop EXCEPT ![r].stage = "cleared", ![r].ids = {}]
        /\ UNCHANGED <<log, locks, next_block, parts, queue, log_pointer, session, memory,
                       insert, multis, budget>>

(* The entry goes to the log and the lock is released in one multi, unless *)
(* another drop has come first.                                            *)
CommitDropRange(r) ==
    LET d == drop[r]
    IN  /\ d.stage = "cleared"
        /\ IF d.version = AlterVersion
           THEN /\ log' = Append(log, [type |-> "DROP_RANGE", part |-> DropRange(d.block),
                                       sources |-> {}, data |-> "none"])
                /\ drop' = [drop EXCEPT ![r].stage = "none"]
           ELSE /\ drop' = [drop EXCEPT ![r].stage = "retry"]
                /\ log' = log
        /\ locks' = {l \in locks : l.block # d.block}
        /\ UNCHANGED <<next_block, blocks, parts, queue, log_pointer, session, memory,
                       insert, multis, budget>>
-----------------------------------------------------------------------------
(* Lost sessions and restarts.                                             *)

MaximalParts(S) == {p \in S : \A q \in S : Contains(q, p) => q = p}

(* Mutant: the entries already in the queue are not inserted again. *)
NewSessionForgets(r) ==
    LET entries == log_pointer[r] .. Len(log)
    IN  /\ session' = [session EXCEPT ![r] = @ + 1]
        /\ queue' = [queue EXCEPT ![r] = @ \cup entries]
        /\ log_pointer' = [log_pointer EXCEPT ![r] = Len(log) + 1]
        /\ virtual_parts' = [virtual_parts EXCEPT ![r] =
               VirtualAfter(MaximalParts(parts[r]), entries)]
        /\ executing' = [executing EXCEPT ![r] = {}]
        /\ predicate' = [predicate EXCEPT ![r] = Idle]
        /\ drop' = [drop EXCEPT ![r].stage = "none", ![r].listed = {}, ![r].ids = {}]

(* ReplicatedMergeTreeRestartingThread: background work is stopped; the    *)
(* new session increments the version of the server's session node; the    *)
(* queue is built anew from the parts and the queue in Keeper, and the log *)
(* is pulled.  A drop in progress fails.                                   *)
NewSession(r) ==
    LET entries == queue[r] \cup log_pointer[r] .. Len(log)
    IN  /\ session' = [session EXCEPT ![r] = @ + 1]
        /\ queue' = [queue EXCEPT ![r] = entries]
        /\ log_pointer' = [log_pointer EXCEPT ![r] = Len(log) + 1]
        /\ virtual_parts' = [virtual_parts EXCEPT ![r] =
               VirtualAfter(MaximalParts(parts[r]), entries)]
        /\ executing' = [executing EXCEPT ![r] = {}]
        /\ predicate' = [predicate EXCEPT ![r] = Idle]
        /\ drop' = [drop EXCEPT ![r].stage = "none", ![r].listed = {}, ![r].ids = {}]

LoseSession(r) ==
    /\ Spend("reconnects")
    /\ NewSession(r)
    /\ insert' = [i \in Inserts |->
           IF HomeOf[i] = r /\ insert[i].stage = "writing"
           THEN [insert[i] EXCEPT !.stage = "recovering", !.answer = "none"] ELSE insert[i]]
    /\ UNCHANGED <<log, locks, next_block, blocks, parts, active, outdated, multis>>

(* The server dies: its queries fail, and on startup the parts found on    *)
(* disk are compared with Keeper (checkPartsImpl()); unexpected ones are   *)
(* put aside.                                                              *)
Restart(r) ==
    LET found == OnDisk(r) \cap parts[r]
    IN  /\ Spend("restarts")
        /\ NewSession(r)
        /\ insert' = [i \in Inserts |->
               IF HomeOf[i] = r /\ insert[i].stage \in {"writing", "recovering", "duplicate"}
               THEN [insert[i] EXCEPT !.stage = "failed"] ELSE insert[i]]
        /\ active' = [active EXCEPT ![r] = MaximalParts(found)]
        /\ outdated' = [outdated EXCEPT ![r] = found \ MaximalParts(found)]
        /\ UNCHANGED <<log, locks, next_block, blocks, parts, multis>>

(* Keeper removes the ephemeral locks of sessions that have ended.         *)
ExpireLocks ==
    LET live == {l \in locks : l.session = session[l.owner]}
    IN  /\ live # locks
        /\ locks' = live
        /\ UNCHANGED <<log, next_block, blocks, parts, queue, log_pointer, session,
                       memory, queries>>
-----------------------------------------------------------------------------
Query(i) ==
    \/ AllocateBlockNumber(i) \/ FindDuplicate(i) \/ CommitLocally(i)
    \/ Rollback(i) \/ ResolveDuplicate(i) \/ Recover(i)

Queue(r) ==
    \/ QueueUpdatingTask(r)
    \/ \E k \in queue[r] :
           SkipEntry(r, k) \/ StartFetch(r, k) \/ StartMerge(r, k) \/ StartDropRange(r, k)
    \/ \E x \in executing[r] :
           FinishEntry(r, x) \/ FailEntry(r, x) \/ DropFromWorkingSet(r, x) \/ FinishDropRange(r, x)
    \/ ClearOldParts(r)

Selection(r) ==
    \/ CopyVirtualParts(r) \/ LoadCommittingBlocks(r) \/ ReadLogVersion(r)
    \/ PullForMerge(r) \/ AssignMerge(r) \/ CannotSelect(r)

Drop(r) ==
    \/ ReadAlterVersion(r) \/ LockDropRange(r) \/ CancelInsert(r)
    \/ ListBlockIds(r) \/ (\E id \in drop[r].listed : ReadBlockId(r, id)) \/ RemoveBlockIds(r)
    \/ CommitDropRange(r)

(* The queries of the scenario are over and every replica has caught up.   *)
Settled ==
    /\ \A i \in budget.inserts : insert[i].stage \in {"done", "failed"}
    /\ \A r \in Replicas : queue[r] = {} /\ log_pointer[r] > Len(log)

Rest == Settled /\ UNCHANGED vars

Next ==
    \/ \E i \in Inserts : Query(i)
    \/ \E m \in multis : KeeperCommitsPart(m)
    \/ \E r \in Replicas : Queue(r) \/ Selection(r) \/ Drop(r) \/ LoseSession(r) \/ Restart(r)
    \/ ExpireLocks
    \/ Rest

Spec == Init /\ [][Next]_vars
-----------------------------------------------------------------------------
(* The table after the first n entries of the log, executed in order.      *)
Replayed(n) ==
    LET t[k \in 0 .. n] ==
            IF k = 0 THEN {}
            ELSE IF IsDrop(k) THEN {p \in t[k - 1] : ~Contains(log[k].part, p)}
            ELSE Add(t[k - 1], log[k].part)
    IN  t[n]

CaughtUp(r) ==
    /\ log_pointer[r] > Len(log) /\ queue[r] = {} /\ executing[r] = {}
    /\ PreActive(r) \cap parts[r] = {}

Dropped(p) == \E k \in DOMAIN log : IsDrop(k) /\ Contains(log[k].part, p)

(* Merges lose no block: whatever block is ever written to the log inside  *)
(* the range of a merge was there before the merge and is contained in one *)
(* of its sources, although numbers are committed out of order and the     *)
(* merge was assigned without a consistent snapshot of the log and of the  *)
(* numbers in use ("a sketch of a proof of why this method actually        *)
(* works", canMergeTwoParts()).                                            *)
MergesLoseNoBlock ==
    \A k \in DOMAIN log, j \in DOMAIN log :
        log[k].type = "MERGE_PARTS" /\ log[j].type = "GET_PART"
            /\ ~IsDisjoint(log[k].part, log[j].part) =>
        j < k /\ \E p \in log[k].sources : Contains(p, log[j].part)

(* DROP PARTITION cuts the log cleanly: no entry after a DROP_RANGE        *)
(* produces a part that overlaps its range (an insert that had its number  *)
(* before, a merge assigned meanwhile), and none before it produces a part *)
(* that crosses its border.                                                *)
DroppedStaysDropped ==
    \A k \in DOMAIN log, j \in DOMAIN log :
        IsDrop(k) /\ ~IsDrop(j) /\ ~IsDisjoint(log[k].part, log[j].part) =>
        j < k /\ Contains(log[k].part, log[j].part)

(* "virtual_parts = current_parts + queue": what a replica expects to have *)
(* is the table replayed up to its log_pointer, however entries were       *)
(* reordered or replaced by larger parts, and also when it is rebuilt from *)
(* Keeper after a lost session or a restart.                               *)
VirtualPartsFollowLog ==
    \A r \in Replicas :
        {p \in virtual_parts[r] : ~IsFakeDropRangePart(p)} = Replayed(log_pointer[r] - 1)

(* A replica with nothing left to do has exactly the parts of the replayed *)
(* log: fetches of larger parts, merges done here or elsewhere, drops that *)
(* overtake other entries and repeated attempts all end in the same set.   *)
ReplicasConverge ==
    \A r \in Replicas : CaughtUp(r) => active[r] = Replayed(Len(log))

(* The block ids of the part's range may have been cleared: a DROP         *)
(* PARTITION of the range was started, and has committed its entry, or is  *)
(* in progress, or has failed with its session after it cleared the ids.   *)
MayBeForgotten(p) == \E r \in Replicas : p.max < drop[r].block

(* A block is stored once, although clients repeat their inserts on other  *)
(* replicas and servers retry after lost answers: an acknowledged block is *)
(* in the log, and it is there twice only when a DROP PARTITION was        *)
(* started on the range of the first copy.                                 *)
InsertedOnce ==
    /\ \A i \in Inserts : insert[i].stage = "done" =>
           \E k \in DOMAIN log : log[k].type = "GET_PART" /\ log[k].data = DataOf[i]
    /\ \A j \in DOMAIN log, k \in DOMAIN log :
           j < k /\ log[j].type = "GET_PART" /\ log[k].type = "GET_PART"
               /\ log[j].data = log[k].data => MayBeForgotten(log[j].part)

(* Every block of the log that is not dropped is on the disk of a replica  *)
(* that says so in Keeper: a lost answer and a retry never leave a log     *)
(* entry for a part that nobody has.                                       *)
AcknowledgedIsKept ==
    \A k \in DOMAIN log : log[k].type = "GET_PART" /\ ~Dropped(log[k].part) =>
        \E r \in Replicas : \E p \in parts[r] \cap OnDisk(r) : Contains(p, log[k].part)

(* A drop has read a block id that named a part of its range, and the id   *)
(* now names a later block: the one in the range was forgotten by another  *)
(* drop, and the same data inserted again.  Removing the id will forget    *)
(* the later block, which no drop has asked for.                           *)
DropForgetsNewBlock ==
    \E r \in Replicas : drop[r].stage = "reading" /\ drop[r].listed = {}
        /\ \E b \in blocks : b.data \in drop[r].ids /\ b.block >= drop[r].block

(* DROP_RANGE is about to end although a part of its range, in Keeper, has *)
(* a local commit pending and so was not in the working set.               *)
DropMissedPreActivePart ==
    \E r \in Replicas : \E x \in executing[r] :
        /\ x.stage = "dropped"
        /\ \E p \in PreActive(r) \cap parts[r] : Contains(log[x.entry].part, p)

(* "It's important that no old parts remain": once DROP_RANGE is executed, *)
(* the replica has no part of the range in Keeper, where other replicas    *)
(* and the next start of the server would find it.                         *)
NoPartRemainsAfterDrop ==
    \A r \in Replicas : \A k \in DOMAIN log :
        IsDrop(k) /\ k < log_pointer[r] /\ k \notin queue[r] =>
        \A p \in parts[r] : ~Contains(log[k].part, p)
=============================================================================
