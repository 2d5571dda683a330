------------------------ MODULE TransactionLogProofs ------------------------
(***************************************************************************)
(* TransactionLog for any transactions, any number of failures and any     *)
(* number of restarts.                                                     *)
(***************************************************************************)
EXTENDS TransactionLog, SequenceLemmas, TLAPS

(* Numbers in Keeper come from one counter, and only entries of            *)
(* transactions older than the tail leave the log.                         *)
KeeperNumbers ==
  /\ MaxReservedCSN <= zk_tail_ptr /\ zk_tail_ptr < next_csn
  /\ \A e \in log \cup committed : e.csn < next_csn

Purged(e) == IF alive THEN e.tid.start_csn < tail_ptr /\ e.csn <= last_loaded_entry
                      ELSE e.tid.start_csn < zk_tail_ptr

CommitsAreLogged ==
  /\ NonEmpty(log) \subseteq committed
  /\ \A e \in committed : ~Purged(e) => e \in log

(* Only transactions that have begun have entries. *)
CommitsHaveTxns ==
  \A e \in committed : \E x \in Txns : e.tid = tid[x] /\ tid[x] # EmptyTID

(* How far the updating thread has come.  The newest snapshot lags behind  *)
(* the entries loaded only between the two locks of loadEntries().         *)
LoadingPhase ==
  alive =>
    /\ MaxReservedCSN <= latest_snapshot /\ latest_snapshot <= last_loaded_entry
    /\ last_loaded_entry < next_csn
    /\ updater = "publish" => last_entry = last_loaded_entry /\ latest_snapshot < last_entry
    /\ updater # "publish" => latest_snapshot = last_loaded_entry
    /\ updater = "load" => last_loaded_entry < last_entry /\ last_entry < next_csn
    /\ \A e \in tid_to_csn : e.csn <= last_loaded_entry

DeadIsEmpty ==
  ~alive => /\ updater = "wait" /\ in_use = <<>> /\ finalizing = <<>>
            /\ unknown_state_list = <<>> /\ unknown_state_list_loaded = <<>>

(* The pair (latest_snapshot, local_tid_counter) only grows. *)
TIDsAreOld ==
  \A x \in Txns : tid[x] # EmptyTID =>
    /\ Snapshot(x) < next_csn
    /\ alive => \/ Snapshot(x) < latest_snapshot
                \/ Snapshot(x) = latest_snapshot /\ tid[x].local_tid <= local_tid_counter

(* What waits in the second list was postponed before the last listing. *)
SecondListIsLoaded ==
  \A x \in Txns : \A e \in committed :
    x \in Range(unknown_state_list_loaded) /\ x \in Range(in_use) /\ e.tid = tid[x] =>
      /\ updater = "load" => e.csn <= last_entry
      /\ updater \in {"publish", "tail", "purge", "swap"} => e.csn <= last_loaded_entry

(* UnknownStateIsDecided, point by point. *)
TakenListIsLoaded ==
  \A x \in Txns : \A e \in committed :
    x \in Range(finalizing) /\ x \in Range(in_use) /\ e.tid = tid[x] => e.csn <= last_loaded_entry

IInv ==
  /\ LogTypeOK
  /\ KeeperNumbers
  /\ CommitsAreLogged
  /\ CommitsHaveTxns
  /\ LoadingPhase
  /\ DeadIsEmpty
  /\ TIDsAreOld
  /\ SecondListIsLoaded
  /\ TIDsAreUnique
  /\ TailIsBehindSnapshots
  /\ LookupsAreRight
  /\ TakenListIsLoaded
  /\ NewestEntryIsKept

-----------------------------------------------------------------------------
(* Identifiers and entries. *)
LEMMA TIDFacts ==
  /\ EmptyTID \in TIDs /\ EmptyTID.start_csn = 0
  /\ \A c, l \in Nat : /\ TransactionID(c, l) \in TIDs
                       /\ TransactionID(c, l).start_csn = c
                       /\ TransactionID(c, l).local_tid = l
  /\ \A c \in Nat : \A t \in TIDs : [csn |-> c, tid |-> t] \in Entries
  /\ \A t \in TIDs : t.start_csn \in Nat /\ t.local_tid \in Nat
  /\ \A e \in Entries : e.csn \in Nat /\ e.tid \in TIDs
BY DEF TIDs, Entries, TransactionID, EmptyTID

(* The newest node of the log has the number given out last. *)
LEMMA NewestEntryIsLast ==
  ASSUME LogTypeOK, KeeperNumbers, NewestEntryIsKept
  PROVE  NewestEntry = next_csn - 1
<1> DEFINE N == {e.csn : e \in log}
<1>1. next_csn \in Nat /\ \A e \in log : e.csn \in Nat /\ e.csn <= next_csn - 1
  BY DEF LogTypeOK, KeeperNumbers, Entries
<1>2. next_csn - 1 \in N
  BY DEF NewestEntryIsKept
<1>3. \A k \in N : k \in Nat /\ k <= next_csn - 1
  BY <1>1
<1> HIDE DEF N
<1>4. \A k \in N : (\A j \in N : k >= j) <=> k = next_csn - 1
  BY <1>1, <1>2, <1>3
<1>5. Max(N) = next_csn - 1
  BY <1>2, <1>4, Zenon DEF Max
<1> QED  BY <1>5 DEF NewestEntry, N

(* The oldest snapshot in use lies between the tail pointer and the newest snapshot. *)
LEMMA OldestSnapshotFacts ==
  ASSUME LogTypeOK, LoadingPhase, TailIsBehindSnapshots, alive
  PROVE  /\ GetOldestSnapshot \in Nat
         /\ zk_tail_ptr <= GetOldestSnapshot /\ GetOldestSnapshot <= latest_snapshot
         /\ \A x \in Range(in_use) : GetOldestSnapshot <= Snapshot(x)
<1>1. CASE in_use = <<>>
  BY <1>1, EmptyRange DEF GetOldestSnapshot, LogTypeOK, TailIsBehindSnapshots
<1>2. CASE in_use # <<>>
  <2>1. 1 \in DOMAIN in_use /\ Head(in_use) = in_use[1] /\ Head(in_use) \in Range(in_use)
    BY <1>2, SequenceFacts DEF LogTypeOK
  <2>2. \A x \in Range(in_use) : Snapshot(x) \in Nat
    BY SequenceFacts DEF LogTypeOK, Snapshot, TIDs
  <2>3. \A x \in Range(in_use) : \E i \in DOMAIN in_use : x = in_use[i] /\ 1 <= i
    BY DEF Range, LogTypeOK
  <2> QED  BY <1>2, <2>1, <2>2, <2>3 DEF GetOldestSnapshot, TailIsBehindSnapshots
<1> QED  BY <1>1, <1>2

(* A new transaction gets an identifier that nobody has. *)
LEMMA NewTIDIsFresh ==
  ASSUME LogTypeOK, LoadingPhase, TIDsAreOld, alive
  PROVE  LET t == TransactionID(latest_snapshot, local_tid_counter + 1)
         IN  /\ t \in TIDs /\ t # EmptyTID
             /\ t.start_csn = latest_snapshot /\ t.local_tid = local_tid_counter + 1
             /\ \A y \in Txns : tid[y] # EmptyTID => tid[y] # t
<1>1. latest_snapshot \in Nat /\ local_tid_counter \in Nat /\ latest_snapshot > 0
  BY DEF LogTypeOK, LoadingPhase, MaxReservedCSN
<1>2. \A y \in Txns : tid[y] \in TIDs
  BY DEF LogTypeOK
<1>3. ASSUME NEW y \in Txns, tid[y] # EmptyTID
      PROVE  tid[y].start_csn # latest_snapshot \/ tid[y].local_tid # local_tid_counter + 1
  BY <1>1, <1>2, <1>3, TIDFacts DEF TIDsAreOld, Snapshot
<1> QED  BY <1>1, <1>3, TIDFacts

(* Running transactions and transactions with entries have begun. *)
LEMMA RunningHasBegun ==
  ASSUME LogTypeOK, KeeperNumbers, TailIsBehindSnapshots, alive, NEW x \in Range(in_use)
  PROVE  x \in Txns /\ tid[x] # EmptyTID
<1>1. x \in Txns
  BY SequenceFacts DEF LogTypeOK
<1>2. tid[x].start_csn > 0
  BY <1>1, TIDFacts DEF LogTypeOK, KeeperNumbers, TailIsBehindSnapshots, Snapshot,
     MaxReservedCSN
<1> QED  BY <1>1, <1>2, TIDFacts

-----------------------------------------------------------------------------
(* One lemma per action.  The first step of each holds the parts of the    *)
(* invariant whose variables the action leaves alone.                      *)
LEMMA CrashIInv ==
  ASSUME IInv, Crash
  PROVE  IInv'
<1>1. KeeperNumbers' /\ CommitsHaveTxns' /\ TIDsAreUnique' /\ NewestEntryIsKept'
  BY DEF IInv, KeeperNumbers, CommitsHaveTxns, TIDsAreUnique, NewestEntryIsKept, Crash
<1>2. LogTypeOK'
  <2>1. <<>> \in Seq(Txns) /\ "wait" \in UpdaterStates /\ UnknownCSN \in Nat /\ 0 \in Nat
    BY DEF UpdaterStates, UnknownCSN
  <2> QED  BY <2>1, Zenon DEF IInv, LogTypeOK, Crash
<1>3. CommitsAreLogged'
  BY DEF IInv, CommitsAreLogged, LogTypeOK, Purged, TailIsBehindSnapshots, CommitsHaveTxns,
     Crash, TIDs
<1>4. LoadingPhase'
  BY DEF IInv, LoadingPhase, Crash
<1>5. DeadIsEmpty'
  BY DEF IInv, DeadIsEmpty, Crash
<1>6. TIDsAreOld'
  BY DEF IInv, TIDsAreOld, Snapshot, Crash
<1>7. SecondListIsLoaded'
  BY DEF IInv, SecondListIsLoaded, Crash
<1>8. TakenListIsLoaded'
  BY EmptyRange DEF TakenListIsLoaded, Crash
<1>9. TailIsBehindSnapshots'
  BY DEF IInv, TailIsBehindSnapshots, Crash
<1>10. LookupsAreRight'
  BY DEF IInv, LookupsAreRight, Crash
<1> QED  BY <1>1, <1>2, <1>3, <1>4, <1>5, <1>6, <1>7, <1>8, <1>9, <1>10 DEF IInv

(* A restart makes the two tail pointers equal and its own entry the newest snapshot. *)
LEMMA LoadLogFromZooKeeperIInv ==
  ASSUME IInv, LoadLogFromZooKeeper
  PROVE  IInv'
<1> USE TIDFacts
<1> DEFINE e == [csn |-> next_csn, tid |-> EmptyTID]
<1>1. CommitsHaveTxns' /\ TIDsAreUnique'
  BY DEF IInv, CommitsHaveTxns, TIDsAreUnique, LoadLogFromZooKeeper
<1>2. LogTypeOK'
  BY DEF IInv, LogTypeOK, LoadLogFromZooKeeper, NonEmpty, updaterVars, MaxReservedLocalTID
<1>3. KeeperNumbers'
  BY DEF IInv, KeeperNumbers, LogTypeOK, LoadLogFromZooKeeper
<1>4. CommitsAreLogged'
  BY DEF IInv, CommitsAreLogged, LogTypeOK, KeeperNumbers, Purged, NonEmpty,
     LoadLogFromZooKeeper
<1>5. LoadingPhase'
  BY DEF IInv, LogTypeOK, KeeperNumbers, LoadingPhase, DeadIsEmpty, LoadLogFromZooKeeper,
     NonEmpty, updaterVars, MaxReservedCSN, Entries
<1>6. DeadIsEmpty'
  BY DEF IInv, DeadIsEmpty, LoadLogFromZooKeeper
<1>7. TIDsAreOld'
  BY DEF IInv, TIDsAreOld, LogTypeOK, Snapshot, LoadLogFromZooKeeper
<1>8. SecondListIsLoaded'
  BY DEF IInv, SecondListIsLoaded, LogTypeOK, KeeperNumbers, LoadLogFromZooKeeper, updaterVars
<1>9. TakenListIsLoaded'
  BY DEF IInv, TakenListIsLoaded, LogTypeOK, KeeperNumbers, LoadLogFromZooKeeper
<1>10. TailIsBehindSnapshots'
  BY EmptyRange DEF IInv, LogTypeOK, KeeperNumbers, DeadIsEmpty, TailIsBehindSnapshots,
     LoadLogFromZooKeeper
<1>11. LookupsAreRight'
  BY DEF IInv, LookupsAreRight, LogTypeOK, CommitsAreLogged, KeeperNumbers, Purged,
     NonEmpty, LoadLogFromZooKeeper, MaxReservedCSN
<1>12. NewestEntryIsKept'
  <2>1. next_csn \in Nat /\ e \in log' /\ e.csn = next_csn' - 1
    BY DEF IInv, LogTypeOK, LoadLogFromZooKeeper
  <2> QED  BY <2>1 DEF NewestEntryIsKept
<1> QED  BY <1>1, <1>2, <1>3, <1>4, <1>5, <1>6, <1>7, <1>8, <1>9, <1>10, <1>11, <1>12 DEF IInv

(* Only the tail pointer looks at the flag. *)
LEMMA SetServerCompletelyStartedIInv ==
  ASSUME IInv, SetServerCompletelyStarted
  PROVE  IInv'
<1>1. /\ KeeperNumbers' /\ CommitsAreLogged' /\ CommitsHaveTxns' /\ LoadingPhase'
      /\ DeadIsEmpty' /\ TIDsAreOld' /\ SecondListIsLoaded' /\ TakenListIsLoaded'
      /\ TIDsAreUnique' /\ TailIsBehindSnapshots' /\ LookupsAreRight' /\ NewestEntryIsKept'
  BY DEF IInv, KeeperNumbers, CommitsAreLogged, CommitsHaveTxns, LoadingPhase, DeadIsEmpty,
     TIDsAreOld, SecondListIsLoaded, TakenListIsLoaded, TIDsAreUnique,
     TailIsBehindSnapshots, LookupsAreRight, NewestEntryIsKept, SetServerCompletelyStarted,
     keeper, memory, updaterVars, Purged, Snapshot
<1>2. LogTypeOK'
  BY DEF IInv, LogTypeOK, SetServerCompletelyStarted, keeper, memory, updaterVars
<1> QED  BY <1>1, <1>2 DEF IInv

(* The new snapshot is the newest, so the list stays sorted, and the TID is fresh. *)
LEMMA BeginTransactionIInv ==
  ASSUME IInv, NEW x \in Txns, BeginTransaction(x)
  PROVE  IInv'
<1> DEFINE t == TransactionID(latest_snapshot, local_tid_counter + 1)
<1>a. /\ t \in TIDs /\ t # EmptyTID
      /\ t.start_csn = latest_snapshot /\ t.local_tid = local_tid_counter + 1
      /\ \A y \in Txns : tid[y] # EmptyTID => tid[y] # t
  BY NewTIDIsFresh DEF IInv, BeginTransaction
<1>b. /\ tid' = [tid EXCEPT ![x] = t] /\ tid[x] = EmptyTID /\ alive
      /\ in_use' = Append(in_use, x) /\ in_use \in Seq(Txns)
      /\ in_use' \in Seq(Txns) /\ Range(in_use') = Range(in_use) \cup {x}
  BY SequenceFacts DEF IInv, LogTypeOK, BeginTransaction
<1>c. x \notin Range(in_use)
  BY <1>b, RunningHasBegun DEF IInv
<1>d. \A e \in committed : e.tid # t
  BY <1>a DEF IInv, CommitsHaveTxns
<1> HIDE DEF t
<1>1. /\ KeeperNumbers' /\ CommitsAreLogged' /\ LoadingPhase' /\ LookupsAreRight'
      /\ NewestEntryIsKept'
  BY DEF IInv, KeeperNumbers, CommitsAreLogged, LoadingPhase, LookupsAreRight,
     NewestEntryIsKept, BeginTransaction, keeper, updaterVars, Purged
<1>2. LogTypeOK'
  BY <1>a, <1>b DEF IInv, LogTypeOK, BeginTransaction, keeper, updaterVars
<1>3. CommitsHaveTxns'
  BY DEF IInv, CommitsHaveTxns, BeginTransaction
<1>4. DeadIsEmpty'
  BY DEF IInv, DeadIsEmpty, BeginTransaction
<1>5. TIDsAreOld'
  BY DEF IInv, TIDsAreOld, LogTypeOK, LoadingPhase, Snapshot, BeginTransaction,
     TransactionID, keeper, TIDs
<1>6. SecondListIsLoaded'
  BY <1>b, <1>d DEF IInv, LogTypeOK, SecondListIsLoaded, BeginTransaction, updaterVars
<1>7. TakenListIsLoaded'
  BY <1>b, <1>d DEF IInv, LogTypeOK, TakenListIsLoaded, BeginTransaction, updaterVars
<1>8. TIDsAreUnique'
  BY <1>a, <1>b DEF IInv, LogTypeOK, TIDsAreUnique
<1>9. TailIsBehindSnapshots'
  <2>1. \A y \in Range(in_use) : Snapshot(y)' = Snapshot(y)
    BY <1>b, <1>c, SequenceFacts DEF IInv, LogTypeOK, Snapshot
  <2>2. Snapshot(x)' = latest_snapshot
    BY <1>a, <1>b DEF IInv, LogTypeOK, Snapshot
  <2>3. \A y \in Range(in_use) : Snapshot(y) \in Nat
    BY SequenceFacts DEF IInv, LogTypeOK, Snapshot, TIDs
  <2>4. /\ Len(in_use) \in Nat /\ DOMAIN in_use = 1..Len(in_use)
        /\ DOMAIN in_use' = 1..(Len(in_use) + 1)
        /\ \A i \in DOMAIN in_use : in_use'[i] = in_use[i] /\ in_use[i] \in Range(in_use)
        /\ in_use'[Len(in_use) + 1] = x
    BY <1>b DEF Range
  <2>5. \A y \in Range(in_use) : zk_tail_ptr <= Snapshot(y) /\ Snapshot(y) <= latest_snapshot
    BY <1>b DEF IInv, TailIsBehindSnapshots
  <2>6. \A i, j \in DOMAIN in_use : i <= j => Snapshot(in_use[i]) <= Snapshot(in_use[j])
    BY <1>b DEF IInv, TailIsBehindSnapshots
  <2>7. ASSUME NEW i \in DOMAIN in_use', NEW j \in DOMAIN in_use', i <= j
        PROVE  Snapshot(in_use[i])' <= Snapshot(in_use[j])'
    <3>1. CASE j \in DOMAIN in_use
      <4>1. i \in DOMAIN in_use
        BY <2>4, <2>7, <3>1
      <4>2. Snapshot(in_use[i]) <= Snapshot(in_use[j])
        BY <2>6, <2>7, <3>1, <4>1
      <4> QED  BY <2>1, <2>4, <3>1, <4>1, <4>2 DEF Snapshot
    <3>2. CASE j \notin DOMAIN in_use
      <4>1. in_use'[j] = x
        BY <2>4, <2>7, <3>2
      <4>2. in_use'[i] = x \/ in_use'[i] \in Range(in_use)
        BY <2>4
      <4> QED  BY <2>1, <2>2, <2>5, <4>1, <4>2 DEF IInv, LogTypeOK, Snapshot
    <3> QED  BY <3>1, <3>2
  <2>8. \A y \in Range(in_use') : zk_tail_ptr <= Snapshot(y)' /\ Snapshot(y)' <= latest_snapshot
    BY <1>b, <2>1, <2>2, <2>5 DEF IInv, LogTypeOK, TailIsBehindSnapshots
  <2> QED  BY <1>b, <2>7, <2>8 DEF IInv, TailIsBehindSnapshots, BeginTransaction, keeper
<1> QED  BY <1>1, <1>2, <1>3, <1>4, <1>5, <1>6, <1>7, <1>8, <1>9 DEF IInv

(* The commit point: nobody waits for the outcome of x, and the number is not loaded. *)
LEMMA CreateEntryIInv ==
  ASSUME IInv, NEW x \in Txns, CreateEntry(x), alive, faults' \in Nat
  PROVE  IInv'
<1> DEFINE e == [csn |-> next_csn, tid |-> tid[x]]
<1>a. x \in Range(in_use) /\ tid[x] # EmptyTID /\ tid[x] \in TIDs
  BY RunningHasBegun DEF IInv, LogTypeOK, CreateEntry
<1>b. e \in Entries /\ e.csn = next_csn /\ e.tid = tid[x] /\ next_csn \in Nat
  BY <1>a DEF IInv, LogTypeOK, Entries
<1>c. /\ next_csn' = next_csn + 1 /\ log' = log \cup {e} /\ committed' = committed \cup {e}
      /\ x \notin Range(unknown_state_list_loaded) /\ x \notin Range(finalizing)
  BY DEF CreateEntry, Postponed
<1>d. \A y \in Txns : tid[y] = e.tid => y = x
  BY <1>a, <1>b DEF IInv, TIDsAreUnique
<1> HIDE DEF e
<1>1. DeadIsEmpty' /\ TIDsAreUnique' /\ TailIsBehindSnapshots'
  BY DEF IInv, DeadIsEmpty, TIDsAreUnique, TailIsBehindSnapshots, CreateEntry, memory, Snapshot
<1>2. LogTypeOK'
  <2>1. log' \subseteq Entries /\ committed' \subseteq Entries /\ next_csn' \in Nat
    BY <1>b, <1>c DEF IInv, LogTypeOK
  <2>2. watch' \in BOOLEAN /\ log_updated_event' \in BOOLEAN
    BY Zenon DEF CreateEntry, TouchChildren
  <2> QED  BY <2>1, <2>2 DEF IInv, LogTypeOK, CreateEntry, memory, updaterVars
<1>3. KeeperNumbers'
  BY DEF IInv, KeeperNumbers, LogTypeOK, CreateEntry, Entries
<1>4. CommitsAreLogged'
  BY DEF IInv, CommitsAreLogged, Purged, NonEmpty, CreateEntry, memory
<1>5. CommitsHaveTxns'
  BY <1>a, <1>b, <1>c DEF IInv, CommitsHaveTxns, CreateEntry
<1>6. LoadingPhase'
  BY DEF IInv, LoadingPhase, LogTypeOK, CreateEntry, memory, updaterVars
<1>7. TIDsAreOld'
  BY DEF IInv, TIDsAreOld, LogTypeOK, Snapshot, CreateEntry, memory, TIDs
<1>8. SecondListIsLoaded'
  BY <1>b, <1>c, <1>d DEF IInv, SecondListIsLoaded, CreateEntry, memory, updaterVars
<1>9. TakenListIsLoaded'
  BY <1>b, <1>c, <1>d DEF IInv, TakenListIsLoaded, CreateEntry, memory, updaterVars
<1>10. LookupsAreRight'
  BY DEF IInv, LookupsAreRight, LogTypeOK, LoadingPhase, CreateEntry, memory
<1>11. NewestEntryIsKept'
  BY <1>b, <1>c DEF NewestEntryIsKept
<1> QED  BY <1>1, <1>2, <1>3, <1>4, <1>5, <1>6, <1>7, <1>8, <1>9, <1>10, <1>11 DEF IInv

(* Nothing changes but the count of failures. *)
LEMMA CommitFailsIInv ==
  ASSUME IInv, NEW x \in Txns, CommitFails(x)
  PROVE  IInv'
<1>1. /\ KeeperNumbers' /\ CommitsAreLogged' /\ CommitsHaveTxns' /\ LoadingPhase'
      /\ DeadIsEmpty' /\ TIDsAreOld' /\ SecondListIsLoaded' /\ TakenListIsLoaded'
      /\ TIDsAreUnique' /\ TailIsBehindSnapshots' /\ LookupsAreRight' /\ NewestEntryIsKept'
  BY DEF IInv, KeeperNumbers, CommitsAreLogged, CommitsHaveTxns, LoadingPhase, DeadIsEmpty,
     TIDsAreOld, SecondListIsLoaded, TakenListIsLoaded, TIDsAreUnique,
     TailIsBehindSnapshots, LookupsAreRight, NewestEntryIsKept, CommitFails, keeper, memory,
     updaterVars, Purged, Snapshot
<1>2. LogTypeOK'
  BY DEF IInv, LogTypeOK, CommitFails, keeper, memory, updaterVars
<1> QED  BY <1>1, <1>2 DEF IInv

(* The first list promises nothing yet. *)
LEMMA PostponeFinalizationIInv ==
  ASSUME IInv, NEW x \in Txns, PostponeFinalization(x)
  PROVE  IInv'
<1>1. /\ KeeperNumbers' /\ CommitsAreLogged' /\ CommitsHaveTxns' /\ LoadingPhase'
      /\ TIDsAreOld' /\ SecondListIsLoaded' /\ TakenListIsLoaded' /\ TIDsAreUnique'
      /\ TailIsBehindSnapshots' /\ LookupsAreRight' /\ NewestEntryIsKept'
  BY DEF IInv, KeeperNumbers, CommitsAreLogged, CommitsHaveTxns, LoadingPhase, TIDsAreOld,
     SecondListIsLoaded, TakenListIsLoaded, TIDsAreUnique, TailIsBehindSnapshots,
     LookupsAreRight, NewestEntryIsKept, PostponeFinalization, keeper, updaterVars, Purged,
     Snapshot
<1>2. LogTypeOK'
  BY DEF IInv, LogTypeOK, PostponeFinalization, keeper, updaterVars
<1>3. DeadIsEmpty'
  BY DEF IInv, DeadIsEmpty, PostponeFinalization
<1> QED  BY <1>1, <1>2, <1>3 DEF IInv

(* The other snapshots keep their order. *)
LEMMA ReleaseSnapshotIInv ==
  ASSUME IInv, NEW x \in Txns, ReleaseSnapshot(x)
  PROVE  IInv'
<1>a. PICK k \in DOMAIN in_use : in_use' = RemoveAt(in_use, k)
  BY DEF ReleaseSnapshot
<1>b. /\ in_use \in Seq(Txns) /\ in_use' \in Seq(Txns) /\ Len(in_use) \in Nat
      /\ Len(in_use') = Len(in_use) - 1 /\ Range(in_use') \subseteq Range(in_use)
      /\ \A j \in 1..(Len(in_use) - 1) : in_use'[j] = in_use[IF j < k THEN j ELSE j + 1]
  <2>1. in_use \in Seq(Txns)
    BY DEF IInv, LogTypeOK
  <2> QED  BY <1>a, <2>1, RemoveAtFacts
<1>1. /\ KeeperNumbers' /\ CommitsAreLogged' /\ CommitsHaveTxns' /\ LoadingPhase'
      /\ TIDsAreOld' /\ TIDsAreUnique' /\ LookupsAreRight' /\ NewestEntryIsKept'
  BY DEF IInv, KeeperNumbers, CommitsAreLogged, CommitsHaveTxns, LoadingPhase, TIDsAreOld,
     TIDsAreUnique, LookupsAreRight, NewestEntryIsKept, ReleaseSnapshot, keeper,
     updaterVars, Purged, Snapshot
<1>2. LogTypeOK'
  BY <1>b DEF IInv, LogTypeOK, ReleaseSnapshot, keeper, updaterVars
<1>3. DeadIsEmpty'
  BY DEF IInv, DeadIsEmpty, ReleaseSnapshot
<1>4. SecondListIsLoaded'
  BY <1>b DEF IInv, SecondListIsLoaded, ReleaseSnapshot, updaterVars
<1>5. TakenListIsLoaded'
  BY <1>b DEF IInv, TakenListIsLoaded, ReleaseSnapshot, updaterVars
<1>6. TailIsBehindSnapshots'
  <2>1. \A i, j \in DOMAIN in_use : i <= j => Snapshot(in_use[i]) <= Snapshot(in_use[j])
    BY DEF IInv, TailIsBehindSnapshots, ReleaseSnapshot
  <2>2. ASSUME NEW i \in DOMAIN in_use', NEW j \in DOMAIN in_use', i <= j
        PROVE  Snapshot(in_use'[i]) <= Snapshot(in_use'[j])
    <3> DEFINE From(l) == IF l < k THEN l ELSE l + 1
    <3>1. From(i) \in DOMAIN in_use /\ From(j) \in DOMAIN in_use /\ From(i) <= From(j)
      BY <1>b, <2>2
    <3>2. in_use'[i] = in_use[From(i)] /\ in_use'[j] = in_use[From(j)]
      BY <1>b
    <3> HIDE DEF From
    <3> QED  BY <2>1, <3>1, <3>2
  <2> QED  BY <1>b, <2>2 DEF IInv, TailIsBehindSnapshots, Snapshot, ReleaseSnapshot, keeper
<1> QED  BY <1>1, <1>2, <1>3, <1>4, <1>5, <1>6 DEF IInv

(* The phases before a listing promise nothing. *)
LEMMA UpdaterWakesIInv ==
  ASSUME IInv, UpdaterWakes
  PROVE  IInv'
<1>1. /\ KeeperNumbers' /\ CommitsAreLogged' /\ CommitsHaveTxns' /\ TIDsAreOld'
      /\ TakenListIsLoaded' /\ TIDsAreUnique' /\ TailIsBehindSnapshots' /\ LookupsAreRight'
      /\ NewestEntryIsKept'
  BY DEF IInv, KeeperNumbers, CommitsAreLogged, CommitsHaveTxns, TIDsAreOld,
     TakenListIsLoaded, TIDsAreUnique, TailIsBehindSnapshots, LookupsAreRight,
     NewestEntryIsKept, UpdaterWakes, keeper, memory, Purged, Snapshot
<1>2. LogTypeOK'
  BY DEF IInv, LogTypeOK, UpdaterWakes, keeper, memory, UpdaterStates
<1>3. LoadingPhase'
  BY DEF IInv, LoadingPhase, UpdaterWakes, keeper, memory
<1>4. DeadIsEmpty'
  BY DEF IInv, DeadIsEmpty, UpdaterWakes
<1>5. SecondListIsLoaded'
  BY DEF IInv, SecondListIsLoaded, UpdaterWakes
<1> QED  BY <1>1, <1>2, <1>3, <1>4, <1>5 DEF IInv

(* A listing covers every number given out so far. *)
LEMMA ListEntriesIInv ==
  ASSUME IInv, ListEntries
  PROVE  IInv'
<1>a. NewestEntry = next_csn - 1 /\ next_csn \in Nat /\ next_csn > 0
  BY NewestEntryIsLast DEF IInv, LogTypeOK, KeeperNumbers, MaxReservedCSN
<1>1. /\ KeeperNumbers' /\ CommitsAreLogged' /\ CommitsHaveTxns' /\ TIDsAreOld'
      /\ TakenListIsLoaded' /\ TIDsAreUnique' /\ TailIsBehindSnapshots' /\ LookupsAreRight'
      /\ NewestEntryIsKept'
  BY DEF IInv, KeeperNumbers, CommitsAreLogged, CommitsHaveTxns, TIDsAreOld,
     TakenListIsLoaded, TIDsAreUnique, TailIsBehindSnapshots, LookupsAreRight,
     NewestEntryIsKept, ListEntries, memory, Purged, Snapshot
<1>2. LogTypeOK'
  BY <1>a DEF IInv, LogTypeOK, ListEntries, memory, UpdaterStates
<1>3. LoadingPhase'
  BY <1>a DEF IInv, LogTypeOK, LoadingPhase, ListEntries, memory
<1>4. DeadIsEmpty'
  BY DEF IInv, DeadIsEmpty, ListEntries
<1>5. SecondListIsLoaded'
  BY <1>a DEF IInv, LogTypeOK, KeeperNumbers, LoadingPhase, SecondListIsLoaded, ListEntries,
     memory, Entries
<1> QED  BY <1>1, <1>2, <1>3, <1>4, <1>5 DEF IInv

(* What is not loaded yet has not been purged. *)
LEMMA LoadEntriesIInv ==
  ASSUME IInv, LoadEntries
  PROVE  IInv'
<1>1. /\ KeeperNumbers' /\ CommitsHaveTxns' /\ TIDsAreOld' /\ TIDsAreUnique'
      /\ TailIsBehindSnapshots' /\ NewestEntryIsKept'
  BY DEF IInv, KeeperNumbers, CommitsHaveTxns, TIDsAreOld, TIDsAreUnique,
     TailIsBehindSnapshots, NewestEntryIsKept, LoadEntries, keeper, Snapshot
<1>2. LogTypeOK'
  BY DEF IInv, LogTypeOK, LoadEntries, NonEmpty, keeper, UpdaterStates
<1>3. CommitsAreLogged'
  BY DEF IInv, CommitsAreLogged, LogTypeOK, Purged, LoadingPhase, LoadEntries, keeper, Entries
<1>4. LoadingPhase'
  BY DEF IInv, LoadingPhase, LogTypeOK, LoadEntries, keeper, Entries
<1>5. DeadIsEmpty'
  BY DEF IInv, DeadIsEmpty, LoadEntries
<1>6. SecondListIsLoaded'
  BY DEF IInv, SecondListIsLoaded, LoadEntries
<1>7. TakenListIsLoaded'
  BY DEF IInv, TakenListIsLoaded, LogTypeOK, LoadingPhase, LoadEntries, Entries
<1>8. LookupsAreRight'
  <2>1. ASSUME NEW e \in committed, e.csn <= last_entry, tail_ptr <= e.tid.start_csn
        PROVE  e \in tid_to_csn'
    <3>1. e \in Entries /\ e.tid # EmptyTID
      BY DEF IInv, LogTypeOK, CommitsHaveTxns
    <3>2. e \in log
      BY <2>1, <3>1, TIDFacts DEF IInv, LogTypeOK, CommitsAreLogged, Purged, LoadEntries
    <3> QED  BY <2>1, <3>1, <3>2, TIDFacts DEF IInv, LogTypeOK, LookupsAreRight,
                LoadEntries, NonEmpty
  <2>2. tid_to_csn' \subseteq committed
    BY DEF IInv, LookupsAreRight, CommitsAreLogged, LoadEntries
  <2> QED  BY <2>1, <2>2 DEF LookupsAreRight, LoadEntries, keeper
<1> QED  BY <1>1, <1>2, <1>3, <1>4, <1>5, <1>6, <1>7, <1>8 DEF IInv

(* The newest snapshot moves forward, and local TIDs may start anew. *)
LEMMA PublishSnapshotIInv ==
  ASSUME IInv, PublishSnapshot
  PROVE  IInv'
<1>a. alive /\ latest_snapshot < latest_snapshot' /\ latest_snapshot \in Nat /\ latest_snapshot' \in Nat
  BY DEF IInv, LogTypeOK, LoadingPhase, PublishSnapshot
<1>1. /\ KeeperNumbers' /\ CommitsAreLogged' /\ CommitsHaveTxns' /\ TakenListIsLoaded'
      /\ TIDsAreUnique' /\ LookupsAreRight' /\ NewestEntryIsKept'
  BY DEF IInv, KeeperNumbers, CommitsAreLogged, CommitsHaveTxns, TakenListIsLoaded,
     TIDsAreUnique, LookupsAreRight, NewestEntryIsKept, PublishSnapshot, keeper, Purged
<1>2. LogTypeOK'
  BY DEF IInv, LogTypeOK, PublishSnapshot, keeper, UpdaterStates, MaxReservedLocalTID
<1>3. LoadingPhase'
  BY DEF IInv, LoadingPhase, LogTypeOK, PublishSnapshot, keeper, MaxReservedCSN
<1>4. DeadIsEmpty'
  BY DEF IInv, DeadIsEmpty, PublishSnapshot
<1>5. TIDsAreOld'
  <2>1. \A y \in Txns : Snapshot(y) \in Nat /\ tid[y].local_tid \in Nat
    BY TIDFacts DEF IInv, LogTypeOK, Snapshot
  <2> QED  BY <1>a, <2>1 DEF IInv, TIDsAreOld, PublishSnapshot, Snapshot, keeper
<1>6. SecondListIsLoaded'
  BY DEF IInv, SecondListIsLoaded, PublishSnapshot
<1>7. TailIsBehindSnapshots'
  <2>1. \A y \in Range(in_use) : Snapshot(y) \in Nat
    BY SequenceFacts DEF IInv, LogTypeOK, Snapshot, TIDs
  <2> QED  BY <1>a, <2>1 DEF IInv, LogTypeOK, TailIsBehindSnapshots, Snapshot,
              PublishSnapshot, keeper
<1> QED  BY <1>1, <1>2, <1>3, <1>4, <1>5, <1>6, <1>7 DEF IInv

(* The tail moves up to the oldest snapshot in use, never backwards. *)
LEMMA UpdateTailPtrIInv ==
  ASSUME IInv, UpdateTailPtr
  PROVE  IInv'
<1> DEFINE o == GetOldestSnapshot
<1>a. /\ o \in Nat /\ zk_tail_ptr <= o /\ o <= latest_snapshot /\ \A y \in Range(in_use) : o <= Snapshot(y)
      /\ alive /\ zk_tail_ptr \in Nat /\ tail_ptr \in Nat /\ latest_snapshot \in Nat
  BY OldestSnapshotFacts DEF IInv, LogTypeOK, UpdateTailPtr
<1>b. /\ (zk_tail_ptr' = zk_tail_ptr /\ tail_ptr' = tail_ptr) \/ (zk_tail_ptr' = o /\ tail_ptr' = o)
      /\ updater = "tail" /\ updater' \in {"purge", "swap"}
  <2>1. updater = "tail" /\ ~(GetOldestSnapshot < zk_tail_ptr)
    BY <1>a DEF UpdateTailPtr
  <2>2. CASE TailMoves
    BY <2>1, <2>2, Zenon DEF UpdateTailPtr
  <2>3. CASE ~TailMoves
    <3>1. zk_tail_ptr' = zk_tail_ptr /\ tail_ptr' = tail_ptr
      BY <2>3, Zenon DEF UpdateTailPtr
    <3>2. updater' = "swap"
      BY <2>1, <2>3, Zenon DEF UpdateTailPtr
    <3> QED  BY <2>1, <3>1, <3>2
  <2> QED  BY <2>2, <2>3
<1>c. log_updated_event' \in BOOLEAN
  BY Zenon DEF UpdateTailPtr
<1> HIDE DEF o
<1>1. /\ CommitsHaveTxns' /\ TIDsAreOld' /\ TakenListIsLoaded' /\ TIDsAreUnique'
      /\ NewestEntryIsKept'
  BY DEF IInv, CommitsHaveTxns, TIDsAreOld, TakenListIsLoaded, TIDsAreUnique,
     NewestEntryIsKept, UpdateTailPtr, Snapshot
<1>2. LogTypeOK'
  BY <1>a, <1>b, <1>c DEF IInv, LogTypeOK, UpdateTailPtr, UpdaterStates
<1>3. KeeperNumbers'
  BY <1>a, <1>b DEF IInv, LogTypeOK, KeeperNumbers, LoadingPhase, UpdateTailPtr, MaxReservedCSN
<1>4. CommitsAreLogged'
  BY DEF IInv, CommitsAreLogged, LogTypeOK, KeeperNumbers, Purged, TailIsBehindSnapshots,
     CommitsHaveTxns, UpdateTailPtr, TailMoves, GetOldestSnapshot, TIDs, MaxReservedCSN
<1>5. LoadingPhase'
  BY DEF IInv, LoadingPhase, UpdateTailPtr
<1>6. DeadIsEmpty'
  BY DEF IInv, DeadIsEmpty, UpdateTailPtr
<1>7. SecondListIsLoaded'
  BY DEF IInv, SecondListIsLoaded, UpdateTailPtr
<1>8. TailIsBehindSnapshots'
  BY <1>a, <1>b DEF IInv, TailIsBehindSnapshots, Snapshot, UpdateTailPtr
<1>9. LookupsAreRight'
  BY DEF IInv, LookupsAreRight, LogTypeOK, TailIsBehindSnapshots, UpdateTailPtr, TailMoves,
     GetOldestSnapshot, Entries, TIDs
<1> QED  BY <1>1, <1>2, <1>3, <1>4, <1>5, <1>6, <1>7, <1>8, <1>9 DEF IInv

(* Only loaded entries older than the tail go, and not the newest. *)
LEMMA RemoveOldEntriesIInv ==
  ASSUME IInv, RemoveOldEntries
  PROVE  IInv'
<1>1. /\ CommitsHaveTxns' /\ TIDsAreOld' /\ TakenListIsLoaded' /\ TIDsAreUnique'
      /\ TailIsBehindSnapshots'
  BY DEF IInv, CommitsHaveTxns, TIDsAreOld, TakenListIsLoaded, TIDsAreUnique,
     TailIsBehindSnapshots, RemoveOldEntries, Snapshot
<1>2. LogTypeOK'
  BY DEF IInv, LogTypeOK, RemoveOldEntries, TouchChildren, UpdaterStates
<1>3. KeeperNumbers'
  BY DEF IInv, KeeperNumbers, RemoveOldEntries
<1>4. CommitsAreLogged'
  BY DEF IInv, CommitsAreLogged, Purged, LoadingPhase, NonEmpty, RemoveOldEntries, OldEntries
<1>5. LoadingPhase'
  BY DEF IInv, LoadingPhase, RemoveOldEntries
<1>6. DeadIsEmpty'
  BY DEF IInv, DeadIsEmpty, RemoveOldEntries
<1>7. SecondListIsLoaded'
  BY DEF IInv, SecondListIsLoaded, RemoveOldEntries
<1>8. LookupsAreRight'
  BY DEF IInv, LookupsAreRight, LogTypeOK, RemoveOldEntries, OldEntries, Entries, TIDs
<1>9. NewestEntryIsKept'
  BY DEF IInv, NewestEntryIsKept, LogTypeOK, LoadingPhase, RemoveOldEntries, OldEntries,
     Entries
<1> QED  BY <1>1, <1>2, <1>3, <1>4, <1>5, <1>6, <1>7, <1>8, <1>9 DEF IInv

(* The tail may have moved in Keeper only, and some of the old entries are gone. *)
LEMMA UpdaterFailsIInv ==
  ASSUME IInv, UpdaterFails
  PROVE  IInv'
<1> DEFINE o == GetOldestSnapshot
<1>a. /\ o \in Nat /\ zk_tail_ptr <= o /\ o <= latest_snapshot /\ \A y \in Range(in_use) : o <= Snapshot(y)
      /\ alive /\ zk_tail_ptr \in Nat /\ tail_ptr \in Nat /\ latest_snapshot \in Nat
  BY OldestSnapshotFacts DEF IInv, LogTypeOK, UpdaterFails
<1>b. zk_tail_ptr' = zk_tail_ptr \/ zk_tail_ptr' = o
  BY DEF UpdaterFails
<1>c. log' \subseteq log /\ log \ log' \subseteq OldEntries
  BY DEF UpdaterFails
<1> HIDE DEF o
<1>1. /\ CommitsHaveTxns' /\ TIDsAreOld' /\ TakenListIsLoaded' /\ TIDsAreUnique'
      /\ LookupsAreRight'
  BY DEF IInv, CommitsHaveTxns, TIDsAreOld, TakenListIsLoaded, TIDsAreUnique,
     LookupsAreRight, UpdaterFails, memory, Snapshot
<1>2. LogTypeOK'
  BY DEF IInv, LogTypeOK, UpdaterFails, TailMoves, memory, UpdaterStates
<1>3. KeeperNumbers'
  BY <1>a, <1>b, <1>c DEF IInv, LogTypeOK, KeeperNumbers, LoadingPhase, UpdaterFails,
     MaxReservedCSN
<1>4. CommitsAreLogged'
  BY DEF IInv, CommitsAreLogged, Purged, LoadingPhase, NonEmpty, UpdaterFails, OldEntries,
     memory
<1>5. LoadingPhase'
  BY DEF IInv, LoadingPhase, UpdaterFails, memory
<1>6. DeadIsEmpty'
  BY DEF IInv, DeadIsEmpty, UpdaterFails
<1>7. SecondListIsLoaded'
  BY DEF IInv, SecondListIsLoaded, UpdaterFails
<1>8. TailIsBehindSnapshots'
  BY <1>a, <1>b DEF IInv, TailIsBehindSnapshots, Snapshot, UpdaterFails, memory
<1>9. NewestEntryIsKept'
  BY DEF IInv, NewestEntryIsKept, LogTypeOK, LoadingPhase, UpdaterFails, OldEntries, Entries
<1> QED  BY <1>1, <1>2, <1>3, <1>4, <1>5, <1>6, <1>7, <1>8, <1>9 DEF IInv

(* The second list is taken after a load that covers it. *)
LEMMA SwapUnknownStateListsIInv ==
  ASSUME IInv, SwapUnknownStateLists
  PROVE  IInv'
<1>1. /\ KeeperNumbers' /\ CommitsAreLogged' /\ CommitsHaveTxns' /\ TIDsAreOld'
      /\ TIDsAreUnique' /\ TailIsBehindSnapshots' /\ LookupsAreRight' /\ NewestEntryIsKept'
  BY DEF IInv, KeeperNumbers, CommitsAreLogged, CommitsHaveTxns, TIDsAreOld, TIDsAreUnique,
     TailIsBehindSnapshots, LookupsAreRight, NewestEntryIsKept, SwapUnknownStateLists,
     keeper, Purged, Snapshot
<1>2. LogTypeOK'
  BY DEF IInv, LogTypeOK, SwapUnknownStateLists, keeper, UpdaterStates
<1>3. LoadingPhase'
  BY DEF IInv, LoadingPhase, SwapUnknownStateLists, keeper
<1>4. DeadIsEmpty'
  BY DEF IInv, DeadIsEmpty, SwapUnknownStateLists
<1>5. SecondListIsLoaded'
  BY DEF IInv, SecondListIsLoaded, SwapUnknownStateLists
<1>6. TakenListIsLoaded'
  BY DEF IInv, TakenListIsLoaded, SecondListIsLoaded, SwapUnknownStateLists
<1> QED  BY <1>1, <1>2, <1>3, <1>4, <1>5, <1>6 DEF IInv

(* The rest of the list has been loaded too. *)
LEMMA FinalizedUnknownStateIInv ==
  ASSUME IInv, FinalizedUnknownState
  PROVE  IInv'
<1>1. /\ KeeperNumbers' /\ CommitsAreLogged' /\ CommitsHaveTxns' /\ LoadingPhase'
      /\ TIDsAreOld' /\ SecondListIsLoaded' /\ TIDsAreUnique' /\ TailIsBehindSnapshots'
      /\ LookupsAreRight' /\ NewestEntryIsKept'
  BY DEF IInv, KeeperNumbers, CommitsAreLogged, CommitsHaveTxns, LoadingPhase, TIDsAreOld,
     SecondListIsLoaded, TIDsAreUnique, TailIsBehindSnapshots, LookupsAreRight,
     NewestEntryIsKept, FinalizedUnknownState, keeper, memory, Purged, Snapshot
<1>2. LogTypeOK'
  BY DEF IInv, LogTypeOK, FinalizedUnknownState, keeper, memory
<1>3. DeadIsEmpty'
  BY DEF IInv, DeadIsEmpty, FinalizedUnknownState
<1>4. TakenListIsLoaded'
  BY SequenceFacts DEF IInv, LogTypeOK, TakenListIsLoaded, FinalizedUnknownState, memory
<1> QED  BY <1>1, <1>2, <1>3, <1>4 DEF IInv

(* The thread goes back to waiting. *)
LEMMA FinalizedAllIInv ==
  ASSUME IInv, FinalizedAll
  PROVE  IInv'
<1>1. /\ KeeperNumbers' /\ CommitsAreLogged' /\ CommitsHaveTxns' /\ TIDsAreOld'
      /\ TakenListIsLoaded' /\ TIDsAreUnique' /\ TailIsBehindSnapshots' /\ LookupsAreRight'
      /\ NewestEntryIsKept'
  BY DEF IInv, KeeperNumbers, CommitsAreLogged, CommitsHaveTxns, TIDsAreOld,
     TakenListIsLoaded, TIDsAreUnique, TailIsBehindSnapshots, LookupsAreRight,
     NewestEntryIsKept, FinalizedAll, keeper, memory, Purged, Snapshot
<1>2. LogTypeOK'
  BY DEF IInv, LogTypeOK, FinalizedAll, keeper, memory, UpdaterStates
<1>3. LoadingPhase'
  BY DEF IInv, LoadingPhase, FinalizedAll, keeper, memory
<1>4. DeadIsEmpty'
  BY DEF IInv, DeadIsEmpty, FinalizedAll
<1>5. SecondListIsLoaded'
  BY DEF IInv, SecondListIsLoaded, FinalizedAll
<1> QED  BY <1>1, <1>2, <1>3, <1>4, <1>5 DEF IInv

-----------------------------------------------------------------------------
(* The log of a first start-up. *)
LEMMA InitIInv == LogInit => IInv
<1> SUFFICES ASSUME LogInit PROVE IInv
  OBVIOUS
<1> DEFINE e == [csn |-> MaxReservedCSN, tid |-> EmptyTID]
<1>1. e \in Entries /\ e.csn = 32 /\ e.tid = EmptyTID /\ log = {e}
  BY TIDFacts DEF LogInit, MaxReservedCSN
<1> HIDE DEF e
<1>2. LogTypeOK
  <2>1. <<>> \in Seq(Txns) /\ [x \in Txns |-> EmptyTID] \in [Txns -> TIDs]
    BY TIDFacts
  <2>2. /\ MaxReservedCSN \in Nat /\ MaxReservedCSN + 1 \in Nat /\ MaxReservedLocalTID \in Nat /\ 0 \in Nat
        /\ "wait" \in UpdaterStates
    BY DEF MaxReservedCSN, MaxReservedLocalTID, UpdaterStates
  <2>3. log \subseteq Entries
    BY <1>1
  <2> QED  BY <2>1, <2>2, <2>3, Zenon DEF LogInit, LogTypeOK
<1>3. KeeperNumbers /\ NewestEntryIsKept
  BY <1>1 DEF LogInit, KeeperNumbers, NewestEntryIsKept, MaxReservedCSN
<1>4. CommitsAreLogged /\ CommitsHaveTxns /\ LookupsAreRight
  BY <1>1 DEF LogInit, CommitsAreLogged, CommitsHaveTxns, LookupsAreRight, NonEmpty
<1>5. LoadingPhase /\ DeadIsEmpty
  BY DEF LogInit, LoadingPhase, DeadIsEmpty, MaxReservedCSN
<1>6. TIDsAreOld /\ TIDsAreUnique
  BY DEF LogInit, TIDsAreOld, TIDsAreUnique
<1>7. SecondListIsLoaded /\ TakenListIsLoaded /\ TailIsBehindSnapshots
  BY EmptyRange DEF LogInit, SecondListIsLoaded, TakenListIsLoaded, TailIsBehindSnapshots,
     MaxReservedCSN
<1> QED  BY <1>2, <1>3, <1>4, <1>5, <1>6, <1>7 DEF IInv

(* Every step of the log keeps the invariant. *)
LEMMA NextIInv == IInv /\ [LogNext]_logVars => IInv'
<1> SUFFICES ASSUME IInv, [LogNext]_logVars PROVE IInv'
  OBVIOUS
<1>1. CASE Crash
  BY <1>1, CrashIInv
<1>2. CASE LoadLogFromZooKeeper
  BY <1>2, LoadLogFromZooKeeperIInv
<1>3. CASE SetServerCompletelyStarted
  BY <1>3, SetServerCompletelyStartedIInv
<1>4. ASSUME NEW x \in Txns, BeginTransaction(x) PROVE IInv'
  BY <1>4, BeginTransactionIInv
<1>5. ASSUME NEW x \in Txns, CommitPoint(x) \/ CommitPointLost(x) PROVE IInv'
  <2>1. alive /\ CreateEntry(x) /\ faults' \in Nat
    BY <1>5 DEF CommitPoint, CommitPointLost, IInv, LogTypeOK
  <2> QED  BY <2>1, CreateEntryIInv
<1>6. ASSUME NEW x \in Txns, CommitFails(x) PROVE IInv'
  BY <1>6, CommitFailsIInv
<1>7. ASSUME NEW x \in Txns, PostponeFinalization(x) PROVE IInv'
  BY <1>7, PostponeFinalizationIInv
<1>8. ASSUME NEW x \in Txns, ReleaseSnapshot(x) PROVE IInv'
  BY <1>8, ReleaseSnapshotIInv
<1>9. CASE Updater
  BY <1>9, UpdaterWakesIInv, ListEntriesIInv, LoadEntriesIInv, PublishSnapshotIInv,
     UpdateTailPtrIInv,
     RemoveOldEntriesIInv, SwapUnknownStateListsIInv, FinalizedAllIInv DEF Updater
<1>10. CASE UpdaterFails
  BY <1>10, UpdaterFailsIInv
<1>11. CASE FinalizedUnknownState
  BY <1>11, FinalizedUnknownStateIInv
<1>12. CASE UNCHANGED logVars
  BY <1>12 DEF IInv, LogTypeOK, KeeperNumbers, CommitsAreLogged, CommitsHaveTxns,
     LoadingPhase, DeadIsEmpty,
     TIDsAreOld, SecondListIsLoaded, TakenListIsLoaded, TIDsAreUnique, TailIsBehindSnapshots, LookupsAreRight,
     NewestEntryIsKept, NonEmpty, Purged, Snapshot, logVars, keeper, memory, updaterVars
<1> QED  BY <1>1, <1>2, <1>3, <1>4, <1>5, <1>6, <1>7, <1>8, <1>9, <1>10, <1>11,
            <1>12 DEF LogNext

(* A running transaction is not older than the tail, so an entry of it     *)
(* that was loaded is still in the map.                                    *)
LEMMA TakenListIsDecided == IInv => UnknownStateIsDecided
<1> SUFFICES ASSUME IInv, alive, NEW x \in Range(finalizing) \cap Range(in_use),
                    NEW e \in committed, e.tid = tid[x]
             PROVE  e \in tid_to_csn
  BY DEF UnknownStateIsDecided
<1>1. x \in Txns
  BY SequenceFacts DEF IInv, LogTypeOK
<1>2. e.csn <= last_loaded_entry
  BY <1>1 DEF IInv, TakenListIsLoaded
<1>3. tail_ptr <= zk_tail_ptr /\ zk_tail_ptr <= e.tid.start_csn
  BY DEF IInv, TailIsBehindSnapshots, Snapshot
<1>4. tail_ptr \in Nat /\ zk_tail_ptr \in Nat /\ e.tid.start_csn \in Nat
  BY TIDFacts DEF IInv, LogTypeOK
<1> QED  BY <1>2, <1>3, <1>4 DEF IInv, LookupsAreRight

(* The inductive invariant holds in every state of the log. *)
LEMMA LogIInv == LogSpec => []IInv
BY InitIInv, NextIInv, PTL DEF LogSpec

(* Every variable keeps its type, and only the finalizing phase of the     *)
(* updating thread has transactions at hand.                               *)
THEOREM LogTypes == LogSpec => []LogTypeOK
<1>1. IInv => LogTypeOK
  BY DEF IInv
<1> QED  BY <1>1, LogIInv, PTL

(* No two transactions ever get the same TID, however often the server     *)
(* restarts and local TIDs start anew (beginTransaction).                  *)
THEOREM UniqueTIDs == LogSpec => []TIDsAreUnique
<1>1. IInv => TIDsAreUnique
  BY DEF IInv
<1> QED  BY <1>1, LogIInv, PTL

(* The tail pointer never passes a snapshot in use, in memory or in Keeper *)
(* (getOldestSnapshot, removeOldEntries).                                  *)
THEOREM TailBehindSnapshots == LogSpec => []TailIsBehindSnapshots
<1>1. IInv => TailIsBehindSnapshots
  BY DEF IInv
<1> QED  BY <1>1, LogIInv, PTL

(* A lookup of a TID that is not outdated is answered truly, whatever was  *)
(* purged before (getCSNImpl, removeOldEntries).                           *)
THEOREM RightLookups == LogSpec => []LookupsAreRight
<1>1. IInv => LookupsAreRight
  BY DEF IInv
<1> QED  BY <1>1, LogIInv, PTL

(* When a lost commit is decided, its entry is in the map if it exists     *)
(* (tryFinalizeUnknownStateTransactions).                                  *)
THEOREM DecidedUnknownState == LogSpec => []UnknownStateIsDecided
BY TakenListIsDecided, LogIInv, PTL

(* The log always ends with the node of the last number given out          *)
(* (removeOldEntries).                                                     *)
THEOREM NewestEntryStays == LogSpec => []NewestEntryIsKept
<1>1. IInv => NewestEntryIsKept
  BY DEF IInv
<1> QED  BY <1>1, LogIInv, PTL
=============================================================================
