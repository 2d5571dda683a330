--------------------------- MODULE TransactionLog ---------------------------
(***************************************************************************)
(* Interpreters/TransactionLog: the log of committed transactions, kept in *)
(* Keeper, and the in-memory view of it that one server maintains.         *)
(*                                                                         *)
(* A transaction begins with the newest snapshot the server knows, which   *)
(* is also the first half of its identifier (TID).  It commits by creating *)
(* a sequential node whose number is its commit sequence number (CSN) and  *)
(* whose content is its TID.  An updating thread loads new entries, moves  *)
(* the tail pointer to the oldest snapshot in use, and removes from the    *)
(* log the entries of transactions that started before the tail.           *)
(*                                                                         *)
(* The module is a specification of its own: LogNext is everything that    *)
(* may happen to the log whatever the transactions do.                     *)
(* MergeTreeTransactions conjoins these actions with the steps of the      *)
(* transactions and with the data parts, and implements LogSpec.           *)
(***************************************************************************)
EXTENDS SequencesExt

CONSTANTS Txns,       \* transactions, each one is begun at most once
          MaxCSN,     \* bound on the sequential numbers of the log
          MaxFaults   \* bound on the number of failed Keeper requests

(* CSNs up to MaxReservedCSN have a special meaning. *)
UnknownCSN == 0
PrehistoricCSN == 1
CommittingCSN == 2
MaxReservedCSN == 32
RolledBackCSN == 2147483647      \* max() of the type in the code

(* The first node is created by the first start-up. *)
ASSUME CSNAssumption ==
  /\ MaxCSN \in Nat
  /\ MaxReservedCSN < MaxCSN /\ MaxCSN < RolledBackCSN
  /\ MaxFaults \in Nat
  /\ IsFiniteSet(Txns)

(* A TID without its host, which is the same for all transactions of the   *)
(* only server; it stands for its own hash.                                *)
MaxReservedLocalTID == 32
TIDs == [start_csn : Nat, local_tid : Nat]
TransactionID(start, local) == [start_csn |-> start, local_tid |-> local]
EmptyTID == TransactionID(0, 0)
PrehistoricTID == TransactionID(PrehistoricCSN, 1)

Entries == [csn : Nat, tid : TIDs]

VARIABLES
  \* in Keeper
  log,                  \* the nodes csn-..., a set of entries
  next_csn,             \* number of the next sequential node
  zk_tail_ptr,          \* the node tail_ptr
  watch,                \* a watch of the server is set on the children
  faults,               \* number of requests that have failed
  \* in the memory of the server
  alive,                \* the server runs and has loaded the log
  started,              \* isServerCompletelyStarted()
  tid_to_csn,           \* entries loaded, without the empty ones
  last_loaded_entry,    \* number of the last entry loaded
  latest_snapshot,      \* newest snapshot, taken by new transactions
  local_tid_counter,
  tail_ptr,
  log_updated_event,    \* auto-reset event the updating thread waits for
  in_use,               \* snapshots_in_use and running_list, in list order
  unknown_state_list,
  unknown_state_list_loaded,
  updater,              \* program counter of runUpdatingThread
  last_entry,           \* its local: newest of the children it has listed
  finalizing,           \* its local: list of transactions to finalize
  \* history
  tid,                  \* tid[x]: TID given to x, EmptyTID before
  committed             \* every entry ever created for a transaction

keeper == <<log, next_csn, zk_tail_ptr, watch>>
updaterVars == <<updater, last_entry, finalizing>>
memory == <<tid_to_csn, last_loaded_entry, latest_snapshot, local_tid_counter,
            tail_ptr, in_use, unknown_state_list, unknown_state_list_loaded>>
logVars == <<keeper, faults, alive, started, memory, log_updated_event,
             updaterVars, tid, committed>>

UpdaterStates == {"wait", "list", "load", "publish", "tail", "purge", "swap",
                  "finalize"}

Snapshot(x) == tid[x].start_csn

(* The types of the variables; only in its last phase has the updating     *)
(* thread transactions at hand.                                            *)
LogTypeOK ==
  /\ log \subseteq Entries /\ tid_to_csn \subseteq Entries
  /\ committed \subseteq Entries
  /\ next_csn \in Nat /\ zk_tail_ptr \in Nat /\ tail_ptr \in Nat
  /\ last_loaded_entry \in Nat /\ latest_snapshot \in Nat
  /\ last_entry \in Nat /\ local_tid_counter \in Nat /\ faults \in Nat
  /\ watch \in BOOLEAN /\ alive \in BOOLEAN /\ started \in BOOLEAN
  /\ log_updated_event \in BOOLEAN
  /\ in_use \in Seq(Txns) /\ finalizing \in Seq(Txns)
  /\ unknown_state_list \in Seq(Txns)
  /\ unknown_state_list_loaded \in Seq(Txns)
  /\ updater \in UpdaterStates
  /\ finalizing # <<>> => updater = "finalize"
  /\ tid \in [Txns -> TIDs]

-----------------------------------------------------------------------------
(***************************************************************************)
(* Start-up.  The first one finds no log and creates the reserved entries  *)
(* (of which only the last is kept here: nobody reads the others).         *)
(***************************************************************************)
LogInit ==
  /\ log = {[csn |-> MaxReservedCSN, tid |-> EmptyTID]}
  /\ next_csn = MaxReservedCSN + 1
  /\ zk_tail_ptr = MaxReservedCSN
  /\ watch = TRUE
  /\ faults = 0
  /\ alive = TRUE /\ started = TRUE
  /\ tid_to_csn = {}
  /\ last_loaded_entry = MaxReservedCSN
  /\ latest_snapshot = MaxReservedCSN
  /\ local_tid_counter = MaxReservedLocalTID
  /\ tail_ptr = MaxReservedCSN
  /\ log_updated_event = FALSE
  /\ in_use = <<>>
  /\ unknown_state_list = <<>> /\ unknown_state_list_loaded = <<>>
  /\ updater = "wait" /\ last_entry = MaxReservedCSN /\ finalizing = <<>>
  /\ tid = [x \in Txns |-> EmptyTID]
  /\ committed = {}

(* The memory of the server is lost. *)
Crash ==
  /\ alive
  /\ alive' = FALSE /\ started' = FALSE
  /\ watch' = FALSE
  /\ tid_to_csn' = {}
  /\ last_loaded_entry' = UnknownCSN /\ latest_snapshot' = UnknownCSN
  /\ local_tid_counter' = 0 /\ tail_ptr' = UnknownCSN
  /\ log_updated_event' = FALSE
  /\ in_use' = <<>>
  /\ unknown_state_list' = <<>> /\ unknown_state_list_loaded' = <<>>
  /\ updater' = "wait" /\ last_entry' = UnknownCSN /\ finalizing' = <<>>
  /\ UNCHANGED <<log, next_csn, zk_tail_ptr, faults, tid, committed>>

NonEmpty(entries) == {e \in entries : e.tid # EmptyTID}

(* Mutant: the server starts without an entry of its own. *)
LoadLogReusingSnapshot ==
  /\ ~alive /\ alive' = TRUE
  /\ watch' = TRUE
  /\ tid_to_csn' = NonEmpty(log)
  /\ last_loaded_entry' = next_csn - 1 /\ latest_snapshot' = next_csn - 1
  /\ local_tid_counter' = MaxReservedLocalTID
  /\ tail_ptr' = zk_tail_ptr
  /\ UNCHANGED <<log, next_csn, zk_tail_ptr, faults, started, log_updated_event,
                 in_use, unknown_state_list, unknown_state_list_loaded,
                 updaterVars, tid, committed>>

(* A restart creates an empty entry, so that local TIDs may be counted     *)
(* from the beginning again, and loads the whole log.                      *)
LoadLogFromZooKeeper ==
  /\ ~alive /\ alive' = TRUE
  /\ next_csn <= MaxCSN
  /\ next_csn' = next_csn + 1
  /\ log' = log \cup {[csn |-> next_csn, tid |-> EmptyTID]}
  /\ watch' = TRUE
  /\ tid_to_csn' = NonEmpty(log)
  /\ last_loaded_entry' = next_csn /\ latest_snapshot' = next_csn
  /\ local_tid_counter' = MaxReservedLocalTID
  /\ tail_ptr' = zk_tail_ptr
  /\ UNCHANGED <<zk_tail_ptr, faults, started, log_updated_event, in_use,
                 unknown_state_list, unknown_state_list_loaded, updaterVars,
                 tid, committed>>

(* setServerCompletelyStarted() *)
SetServerCompletelyStarted ==
  /\ alive /\ ~started
  /\ started' = TRUE
  /\ UNCHANGED <<keeper, faults, alive, memory, log_updated_event, updaterVars,
                 tid, committed>>

-----------------------------------------------------------------------------
(* Operations of the transactions. *)

(* All of beginTransaction() runs under running_list_mutex. *)
BeginTransaction(x) ==
  /\ alive /\ tid[x] = EmptyTID
  /\ tid' = [tid EXCEPT ![x] = TransactionID(latest_snapshot, local_tid_counter + 1)]
  /\ local_tid_counter' = local_tid_counter + 1
  /\ in_use' = Append(in_use, x)
  /\ UNCHANGED <<keeper, faults, alive, started, tid_to_csn, last_loaded_entry,
                 latest_snapshot, tail_ptr, unknown_state_list,
                 unknown_state_list_loaded, log_updated_event, updaterVars,
                 committed>>

IsCommitted(x) == \E e \in committed : e.tid = tid[x]

(* The outcome of the commit of x is not known, the updating thread will   *)
(* find out.                                                               *)
Postponed(x) ==
  x \in Range(unknown_state_list) \cup Range(unknown_state_list_loaded) \cup Range(finalizing)

(* Keeper: a child is created or removed, and the watch fires once. *)
TouchChildren ==
  /\ watch' = FALSE
  /\ log_updated_event' = (log_updated_event \/ watch)

CreateEntry(x) ==
  LET e == [csn |-> next_csn, tid |-> tid[x]]
  IN  /\ x \in Range(in_use) /\ ~IsCommitted(x) /\ ~Postponed(x)
      /\ next_csn <= MaxCSN
      /\ next_csn' = next_csn + 1
      /\ log' = log \cup {e}
      /\ committed' = committed \cup {e}
      /\ TouchChildren
      /\ UNCHANGED <<zk_tail_ptr, alive, started, memory, updaterVars, tid>>

(* The commit point, and the answer arrives. *)
CommitPoint(x) ==
  /\ alive /\ CreateEntry(x) /\ UNCHANGED faults

(* The request takes effect, and the answer is lost. *)
CommitPointLost(x) ==
  /\ alive /\ faults < MaxFaults
  /\ CreateEntry(x) /\ faults' = faults + 1

(* The request fails: it is lost, or Keeper refuses it. *)
CommitFails(x) ==
  /\ alive /\ faults < MaxFaults
  /\ x \in Range(in_use) /\ ~IsCommitted(x) /\ ~Postponed(x)
  /\ faults' = faults + 1
  /\ UNCHANGED <<keeper, alive, started, memory, log_updated_event, updaterVars,
                 tid, committed>>

(* The client of a request whose outcome is not known leaves the           *)
(* transaction to the updating thread.                                     *)
PostponeFinalization(x) ==
  /\ alive /\ x \in Range(in_use) /\ ~Postponed(x)
  /\ unknown_state_list' = Append(unknown_state_list, x)
  /\ log_updated_event' = TRUE
  /\ UNCHANGED <<keeper, faults, alive, started, tid_to_csn, last_loaded_entry,
                 latest_snapshot, local_tid_counter, tail_ptr, in_use,
                 unknown_state_list_loaded, updaterVars, tid, committed>>

(* End of a commit or of a rollback: the snapshot is released and the      *)
(* transaction leaves the running list.                                    *)
ReleaseSnapshot(x) ==
  /\ alive
  /\ \E i \in DOMAIN in_use : in_use[i] = x /\ in_use' = RemoveAt(in_use, i)
  /\ UNCHANGED <<keeper, faults, alive, started, tid_to_csn, last_loaded_entry,
                 latest_snapshot, local_tid_counter, tail_ptr,
                 unknown_state_list, unknown_state_list_loaded,
                 log_updated_event, updaterVars, tid, committed>>

-----------------------------------------------------------------------------
(* runUpdatingThread() *)

(* Mutant: the thread waits for the event in any case. *)
UpdaterWaits ==
  /\ alive /\ updater = "wait" /\ log_updated_event
  /\ log_updated_event' = FALSE
  /\ updater' = "list"
  /\ UNCHANGED <<keeper, faults, alive, started, memory, last_entry, finalizing,
                 tid, committed>>

(* The thread waits for the event, unless transactions wait for it. *)
UpdaterWakes ==
  /\ alive /\ updater = "wait"
  /\ unknown_state_list_loaded = <<>> => log_updated_event
  /\ log_updated_event' = (log_updated_event /\ unknown_state_list_loaded # <<>>)
  /\ updater' = "list"
  /\ UNCHANGED <<keeper, faults, alive, started, memory, last_entry, finalizing,
                 tid, committed>>

NewestEntry == Max({e.csn : e \in log})

(* Mutant: the watch is not set again. *)
ListEntriesOnly ==
  /\ alive /\ updater = "list"
  /\ last_entry' = NewestEntry
  /\ updater' = IF NewestEntry > last_loaded_entry THEN "load" ELSE "tail"
  /\ UNCHANGED <<keeper, faults, alive, started, memory, log_updated_event,
                 finalizing, tid, committed>>

(* loadNewEntries(): list the children and set the watch. *)
ListEntries ==
  /\ alive /\ updater = "list"
  /\ watch' = TRUE
  /\ last_entry' = NewestEntry
  /\ updater' = IF NewestEntry > last_loaded_entry THEN "load" ELSE "tail"
  /\ UNCHANGED <<log, next_csn, zk_tail_ptr, faults, alive, started, memory,
                 log_updated_event, finalizing, tid, committed>>

(* loadEntries(): read the new entries and add them to the map. *)
LoadEntries ==
  /\ alive /\ updater = "load"
  /\ tid_to_csn' = tid_to_csn \cup
       {e \in NonEmpty(log) : last_loaded_entry < e.csn /\ e.csn <= last_entry}
  /\ last_loaded_entry' = last_entry
  /\ updater' = "publish"
  /\ UNCHANGED <<keeper, faults, alive, started, latest_snapshot,
                 local_tid_counter, tail_ptr, in_use, unknown_state_list,
                 unknown_state_list_loaded, log_updated_event, last_entry,
                 finalizing, tid, committed>>

(* loadEntries(), under running_list_mutex: new transactions see them. *)
PublishSnapshot ==
  /\ alive /\ updater = "publish"
  /\ latest_snapshot' = last_entry
  /\ local_tid_counter' = MaxReservedLocalTID
  /\ updater' = "tail"
  /\ UNCHANGED <<keeper, faults, alive, started, tid_to_csn, last_loaded_entry,
                 tail_ptr, in_use, unknown_state_list,
                 unknown_state_list_loaded, log_updated_event, last_entry,
                 finalizing, tid, committed>>

(* Mutant: the oldest snapshot is taken from the back of the list. *)
OldestSnapshotFromBack ==
  IF in_use = <<>> THEN latest_snapshot ELSE Snapshot(Last(in_use))

GetOldestSnapshot ==
  IF in_use = <<>> THEN latest_snapshot ELSE Snapshot(Head(in_use))

TailMoves == started /\ zk_tail_ptr < GetOldestSnapshot

(* removeOldEntries(): move the tail pointer.  A tail that would move      *)
(* backwards is an exception, and the thread starts over.                  *)
UpdateTailPtr ==
  LET bug == started /\ GetOldestSnapshot < zk_tail_ptr
  IN  /\ alive /\ updater = "tail"
      /\ zk_tail_ptr' = IF TailMoves THEN GetOldestSnapshot ELSE zk_tail_ptr
      /\ tail_ptr' = IF TailMoves THEN GetOldestSnapshot ELSE tail_ptr
      /\ updater' = IF bug THEN "wait" ELSE IF TailMoves THEN "purge" ELSE "swap"
      /\ log_updated_event' = (log_updated_event \/ bug)
      /\ UNCHANGED <<log, next_csn, watch, faults, alive, started, tid_to_csn,
                     last_loaded_entry, latest_snapshot, local_tid_counter,
                     in_use, unknown_state_list, unknown_state_list_loaded,
                     last_entry, finalizing, tid, committed>>

(* Mutant: entries of transactions that started at the tail are removed.   *)
OldEntriesInclusive ==
  {e \in tid_to_csn : e.tid.start_csn <= tail_ptr /\ e.csn # latest_snapshot}

(* Entries of transactions older than the tail, except the newest loaded. *)
OldEntries ==
  {e \in tid_to_csn : e.tid.start_csn < tail_ptr /\ e.csn # latest_snapshot}

(* removeOldEntries(): remove them from Keeper, then from the map. *)
RemoveOldEntries ==
  /\ alive /\ updater = "purge"
  /\ log' = log \ OldEntries
  /\ tid_to_csn' = tid_to_csn \ OldEntries
  /\ IF OldEntries \cap log = {} THEN UNCHANGED <<watch, log_updated_event>>
                                 ELSE TouchChildren
  /\ updater' = "swap"
  /\ UNCHANGED <<next_csn, zk_tail_ptr, faults, alive, started,
                 last_loaded_entry, latest_snapshot, local_tid_counter,
                 tail_ptr, in_use, unknown_state_list,
                 unknown_state_list_loaded, last_entry, finalizing, tid,
                 committed>>

(* A request of the thread fails.  The tail may have moved in Keeper and   *)
(* not in memory; of the entries it was removing, some are gone from       *)
(* Keeper and all are still in the map.  The exception is caught in the    *)
(* loop, which sets the event and starts over.                             *)
UpdaterFails ==
  /\ alive /\ faults < MaxFaults /\ faults' = faults + 1
  /\ updater \in {"list", "load", "tail", "purge"}
  /\ \E gone \in SUBSET (IF updater = "purge" THEN OldEntries \cap log ELSE {}) :
       /\ log' = log \ gone
       /\ watch' = (watch /\ gone = {})
  /\ zk_tail_ptr' \in {zk_tail_ptr} \cup
       (IF updater = "tail" /\ TailMoves THEN {GetOldestSnapshot} ELSE {})
  /\ log_updated_event' = TRUE
  /\ updater' = "wait"
  /\ UNCHANGED <<next_csn, alive, started, memory, last_entry,
                 finalizing, tid, committed>>

(* Mutant: the thread goes back to waiting if no new transactions wait. *)
SwapOrWait ==
  /\ alive /\ updater = "swap"
  /\ finalizing' = unknown_state_list_loaded
  /\ unknown_state_list_loaded' = unknown_state_list
  /\ unknown_state_list' = <<>>
  /\ updater' = IF unknown_state_list = <<>> THEN "wait" ELSE "finalize"
  /\ UNCHANGED <<keeper, faults, alive, started, tid_to_csn, last_loaded_entry,
                 latest_snapshot, local_tid_counter, tail_ptr, in_use,
                 log_updated_event, last_entry, tid, committed>>

(* Mutant: one list only. *)
TakeUnknownStateAtOnce ==
  /\ alive /\ updater = "swap"
  /\ finalizing' = unknown_state_list
  /\ unknown_state_list' = <<>>
  /\ updater' = "finalize"
  /\ UNCHANGED <<keeper, faults, alive, started, tid_to_csn, last_loaded_entry,
                 latest_snapshot, local_tid_counter, tail_ptr, in_use,
                 unknown_state_list_loaded, log_updated_event, last_entry, tid,
                 committed>>

(* tryFinalizeUnknownStateTransactions(): two swaps under one lock.  What  *)
(* was waiting since before the last load is taken; what arrived since     *)
(* waits for one more load.                                                *)
SwapUnknownStateLists ==
  /\ alive /\ updater = "swap"
  /\ finalizing' = unknown_state_list_loaded
  /\ unknown_state_list_loaded' = unknown_state_list
  /\ unknown_state_list' = <<>>
  /\ updater' = "finalize"
  /\ UNCHANGED <<keeper, faults, alive, started, tid_to_csn, last_loaded_entry,
                 latest_snapshot, local_tid_counter, tail_ptr, in_use,
                 log_updated_event, last_entry, tid, committed>>

(* The next transaction of the list has been dealt with. *)
FinalizedUnknownState ==
  /\ alive /\ updater = "finalize" /\ finalizing # <<>>
  /\ finalizing' = Tail(finalizing)
  /\ UNCHANGED <<keeper, faults, alive, started, memory, log_updated_event,
                 updater, last_entry, tid, committed>>

FinalizedAll ==
  /\ alive /\ updater = "finalize" /\ finalizing = <<>>
  /\ updater' = "wait"
  /\ UNCHANGED <<keeper, faults, alive, started, memory, log_updated_event,
                 last_entry, finalizing, tid, committed>>

Updater ==
  \/ UpdaterWakes \/ ListEntries \/ LoadEntries \/ PublishSnapshot
  \/ UpdateTailPtr \/ RemoveOldEntries \/ SwapUnknownStateLists \/ FinalizedAll

LogNext ==
  \/ Crash \/ LoadLogFromZooKeeper \/ SetServerCompletelyStarted
  \/ \E x \in Txns :
       \/ BeginTransaction(x) \/ CommitPoint(x) \/ CommitPointLost(x)
       \/ CommitFails(x) \/ PostponeFinalization(x) \/ ReleaseSnapshot(x)
  \/ Updater \/ UpdaterFails \/ FinalizedUnknownState

LogSpec == LogInit /\ [][LogNext]_logVars

-----------------------------------------------------------------------------
(***************************************************************************)
(* Correctness.                                                            *)
(***************************************************************************)

(* No two transactions get the same TID, although local TIDs start anew    *)
(* with every loaded entry and with every restart of the server            *)
(* (beginTransaction, loadLogFromZooKeeper).                               *)
TIDsAreUnique ==
  \A x, y \in Txns : x # y /\ tid[x] # EmptyTID => tid[x] # tid[y]

(* The front of snapshots_in_use is the oldest snapshot, and the tail      *)
(* pointer has not passed it: the exception of removeOldEntries() for a    *)
(* tail that would move backwards is never thrown (getOldestSnapshot).     *)
TailIsBehindSnapshots ==
  alive => /\ \A i, j \in DOMAIN in_use : i <= j => Snapshot(in_use[i]) <= Snapshot(in_use[j])
           /\ \A x \in Range(in_use) : zk_tail_ptr <= Snapshot(x) /\ Snapshot(x) <= latest_snapshot
           /\ tail_ptr <= zk_tail_ptr /\ zk_tail_ptr <= latest_snapshot

(* A TID that is not older than the tail and is not in the map has no CSN  *)
(* among the entries loaded, and a CSN found in the map is the one the     *)
(* transaction was committed with (getCSNImpl, assertTIDIsNotOutdated).    *)
LookupsAreRight ==
  alive => /\ tid_to_csn \subseteq committed
           /\ \A e \in committed : e.csn <= last_loaded_entry /\ tail_ptr <= e.tid.start_csn
                                   => e \in tid_to_csn

(* When the updating thread decides about a running transaction whose      *)
(* commit had an unknown outcome, the entry of that transaction is in the  *)
(* map if it was ever created: no committed transaction is rolled back     *)
(* (the two lists of tryFinalizeUnknownStateTransactions).                 *)
UnknownStateIsDecided ==
  alive => \A x \in Range(finalizing) \cap Range(in_use) : \A e \in committed :
             e.tid = tid[x] => e \in tid_to_csn

(* Cleaning the log never removes its newest node: a listing of the        *)
(* children always ends with the number given out last, so the thread      *)
(* never loads backwards (removeOldEntries keeps the latest snapshot).     *)
NewestEntryIsKept == \E e \in log : e.csn = next_csn - 1

=============================================================================
