----------------------- MODULE MergeTreeTransactions -----------------------
(***************************************************************************)
(* Transactions over the data parts of one MergeTree table on one server:  *)
(* Interpreters/MergeTreeTransaction, the commit and rollback of           *)
(* TransactionLog, and the operations of MergeTreeData that create,        *)
(* replace, restore, clean up and load the parts of a table.               *)
(*                                                                         *)
(* A transaction has two programs.  client[x] is the thread that executes  *)
(* its queries.  finish[x] is its commit or rollback once the outcome is   *)
(* decided: the client runs it, or the updating thread, or a KILL, and     *)
(* csn[x] lets only one of them in.                                        *)
(*                                                                         *)
(* A crash loses the memory of the server and keeps Keeper and the disk.   *)
(***************************************************************************)
EXTENDS VersionMetadata

CONSTANTS Initial,      \* parts of the table created without a transaction
          Covers,       \* Covers[p]: parts whose blocks p contains
          Writes,       \* Writes[x]: parts that x may create
          Truncates,    \* transactions that may truncate the table
          Killable,     \* transactions that are targets of KILL TRANSACTION
          MaxCrashes,
          LateOutdated  \* the server is started before the parts covered by
                        \* active ones are loaded

None == "none"

(* The blocks of a part, named by the parts they were inserted as. *)
Blocks(p) == IF Covers[p] = {} THEN {p} ELSE {q \in Covers[p] : Covers[q] = {}}

(* Containment of parts is a strict order, and a name is used only once. *)
ASSUME TableAssumption ==
  /\ IsFiniteSet(Parts) /\ None \notin Parts \cup Txns
  /\ Initial \subseteq Parts /\ Readers \cup Killable \cup Truncates \subseteq Txns
  /\ Covers \in [Parts -> SUBSET Parts] /\ Writes \in [Txns -> SUBSET Parts]
  /\ \A p \in Parts : p \notin Covers[p] /\ Blocks(p) # {}
  /\ \A p \in Parts : \A q \in Covers[p] : Covers[q] \subseteq Covers[p]
  /\ \A p \in Initial : Covers[p] = {}
  /\ \A x, y \in Txns : x # y => Writes[x] \cap Writes[y] = {}
  /\ \A x \in Txns : Writes[x] \cap Initial = {}
  /\ LateOutdated \in BOOLEAN /\ MaxCrashes \in Nat

VARIABLES
  csn,         \* csn[x]: state of the transaction object
  client,      \* client[x]: program counter of the client
  merging,     \* merging[x]: its share of currently_merging_mutating_parts
  new_part,    \* new_part[x]: the part it is writing, None for a TRUNCATE
  covered,     \* covered[x]: parts it still has to replace
  creating,    \* creating[x]: creating_parts
  removing,    \* removing[x]: removing_parts
  finish,      \* finish[x]: program counter of the commit or rollback
  todo,        \* todo[x]: parts that step of it has still to treat
  killer,      \* killer[x]: a KILL TRANSACTION of x
  state,       \* state[p]: None or the DataPartState of p in the set of parts
  parts_lock,  \* who holds the lock of the set of parts
  on_disk,     \* parts whose directory exists
  loaded,      \* parts loaded by this start of the server
  broken,      \* a part could not be loaded, the server does not start
  crashes

writeVars == <<merging, new_part, covered>>
changes == <<creating, removing>>
ending == <<finish, todo>>
txnVars == <<csn, client, writeVars, changes, ending, killer>>
partVars == <<state, parts_lock, on_disk, loaded, broken>>
vars == <<logVars, version, file, read, txnVars, partVars, crashes>>

Init ==
  /\ LogInit
  /\ version = [p \in Parts |-> IF p \in Initial THEN PrehistoricMetadata ELSE NoMetadata]
  /\ file = [p \in Parts |-> NoMetadata]
  /\ read = [x \in Txns |-> NoRead]
  /\ csn = [x \in Txns |-> UnknownCSN]
  /\ client = [x \in Txns |-> "idle"] /\ finish = [x \in Txns |-> None]
  /\ merging = [x \in Txns |-> {}]
  /\ new_part = [x \in Txns |-> None] /\ covered = [x \in Txns |-> <<>>]
  /\ creating = [x \in Txns |-> <<>>] /\ removing = [x \in Txns |-> <<>>]
  /\ todo = [x \in Txns |-> <<>>] /\ killer = [x \in Txns |-> None]
  /\ state = [p \in Parts |-> IF p \in Initial THEN "Active" ELSE None]
  /\ parts_lock = None /\ on_disk = Initial /\ loaded = Initial /\ broken = FALSE
  /\ crashes = 0

Running(x) == x \in Range(in_use)
VisibleTo(x, p) == IsVisible(version[p], Snapshot(x), tid[x])
AfterVisibleTo(x, ps) ==
  [p \in Parts |-> IF p \in ps THEN AfterIsVisible(version[p], Snapshot(x), tid[x])
                  ELSE version[p]]
CoveredBy(p, s) == {q \in Covers[p] : state[q] = s}
IsCovered(p) == \E q \in Parts : p \in Covers[q] /\ state[q] = "Active"
Idle(x) == client[x] = "ready" /\ read[x].pc = None
Unlocked == parts_lock = None

-----------------------------------------------------------------------------
(* Queries of the client. *)

Begin(x) ==
  /\ started /\ client[x] = "idle"
  /\ BeginTransaction(x)
  /\ client' = [client EXCEPT ![x] = "ready"]
  /\ UNCHANGED <<version, file, read, csn, writeVars, changes, ending,
                 killer, partVars, crashes>>

(* A SELECT filters the Active and Outdated parts. *)
Select(x, p) ==
  /\ x \in Readers /\ Idle(x) /\ csn[x] = UnknownCSN
  /\ state[p] \in {"Active", "Outdated"}
  /\ ReadBegins(x, p)
  /\ UNCHANGED <<logVars, file, txnVars, partVars, crashes>>

SelectStep(x) ==
  /\ alive
  /\ ReadStep(x) /\ UNCHANGED <<logVars, file, txnVars, partVars, crashes>>

(* A source of a merge or mutation of x is visible to x and in no other. *)
MayMerge(x, p) == VisibleTo(x, p) /\ \A y \in Txns : p \notin merging[y]

(* stopMergesAndWait() *)
NothingIsMerged == \A y \in Txns : merging[y] = {}

(***************************************************************************)
(* INSERT, or a merge or mutation.  The latter takes Active parts that the *)
(* transaction sees and that no other merge or mutation has taken; the new *)
(* part has their blocks, is written with the TID in its file and joins    *)
(* the set.                                                                *)
(***************************************************************************)
WritePart(x, p) ==
  LET sources == CoveredBy(p, "Active")
  IN  /\ Idle(x) /\ csn[x] = UnknownCSN /\ Unlocked
      /\ p \in Writes[x] /\ p \notin on_disk /\ state[p] = None
      /\ Covers[p] # {} => Blocks(p) \subseteq UNION {Blocks(q) : q \in sources}
      /\ \A q \in sources : MayMerge(x, q)
      /\ merging' = [merging EXCEPT ![x] = sources]
      /\ version' = [AfterVisibleTo(x, sources) EXCEPT ![p] = MetadataOf(tid[x])]
      /\ file' = [file EXCEPT ![p] = MetadataOf(tid[x])]
      /\ state' = [state EXCEPT ![p] = "PreActive"]
      /\ on_disk' = on_disk \cup {p} /\ loaded' = loaded \cup {p}
      /\ new_part' = [new_part EXCEPT ![x] = p]
      /\ client' = [client EXCEPT ![x] = "written"]
      /\ UNCHANGED <<logVars, read, csn, covered, changes, ending, killer,
                     parts_lock, broken, crashes>>

(* Parts to replace: the covered Active ones, and those of the Outdated    *)
(* ones that the transaction still sees.                                   *)
PartsToReplace(x, p) ==
  SetToSeq(CoveredBy(p, "Active")) \o
  SetToSeq({q \in CoveredBy(p, "Outdated") : VisibleTo(x, q)})

(* Mutant: a cancelled transaction gets new parts. *)
AddNewPartAnyway(x) ==
  LET p == new_part[x]
  IN  /\ client[x] = "written" /\ Unlocked
      /\ version' = AfterVisibleTo(x, CoveredBy(p, "Outdated"))
      /\ covered' = [covered EXCEPT ![x] = PartsToReplace(x, p)]
      /\ creating' = [creating EXCEPT ![x] = Append(@, p)]
      /\ parts_lock' = x
      /\ client' = [client EXCEPT ![x] = "remove"]
      /\ UNCHANGED <<logVars, file, read, csn, merging, new_part, removing,
                     ending, killer, state, on_disk, loaded, broken, crashes>>

(* MergeTreeData::Transaction::commit() takes the lock of the set of       *)
(* parts; addNewPart() throws if the transaction was cancelled.            *)
AddNewPart(x) ==
  LET p == new_part[x]
      cancelled == csn[x] # UnknownCSN
  IN  /\ client[x] = "written" /\ Unlocked
      /\ version' = AfterVisibleTo(x, CoveredBy(p, "Outdated"))
      /\ IF cancelled
         THEN /\ client' = [client EXCEPT ![x] = "undo"]
              /\ UNCHANGED <<covered, creating, parts_lock>>
         ELSE /\ covered' = [covered EXCEPT ![x] = PartsToReplace(x, p)]
              /\ creating' = [creating EXCEPT ![x] = Append(@, p)]
              /\ parts_lock' = x
              /\ client' = [client EXCEPT ![x] = "remove"]
      /\ UNCHANGED <<logVars, file, read, csn, merging, new_part, removing,
                     ending, killer, state, on_disk, loaded, broken, crashes>>

(* TRUNCATE waits until nothing is merged, takes the lock and removes the  *)
(* parts that the transaction sees (removePartsFromWorkingSet).            *)
Truncate(x) ==
  LET offered == {p \in Parts : state[p] \in {"Active", "Outdated"}}
  IN  /\ x \in Truncates /\ Idle(x) /\ csn[x] = UnknownCSN /\ Unlocked
      /\ NothingIsMerged
      /\ version' = AfterVisibleTo(x, offered)
      /\ covered' = [covered EXCEPT ![x] = SetToSeq({p \in offered : VisibleTo(x, p)})]
      /\ new_part' = [new_part EXCEPT ![x] = None]
      /\ parts_lock' = x
      /\ client' = [client EXCEPT ![x] = "remove"]
      /\ UNCHANGED <<logVars, file, read, csn, merging, changes, ending, killer,
                     state, on_disk, loaded, broken, crashes>>

Truncating(x) == new_part[x] = None

(* removeOldPart(), under the mutex of the transaction: lock the part for  *)
(* removal, or throw if the transaction was cancelled or another one has   *)
(* locked it.                                                              *)
RemoveOldPart(x) ==
  LET p == Head(covered[x])
      throws == csn[x] # UnknownCSN \/ version[p].removal_tid # EmptyTID
  IN  /\ client[x] = "remove" /\ covered[x] # <<>>
      /\ ~(Truncating(x) /\ version[p].creation_csn = RolledBackCSN)
      /\ IF throws
         THEN /\ covered' = [covered EXCEPT ![x] = <<>>]
              /\ parts_lock' = None
              /\ client' = [client EXCEPT ![x] = IF Truncating(x) THEN "exception" ELSE "undo"]
              /\ UNCHANGED <<version, removing>>
         ELSE /\ version' = [version EXCEPT ![p].removal_tid = tid[x]]
              /\ removing' = [removing EXCEPT ![x] = Append(@, p)]
              /\ client' = [client EXCEPT ![x] = "append"]
              /\ UNCHANGED <<covered, parts_lock>>
      /\ UNCHANGED <<logVars, file, read, csn, merging, new_part, creating,
                     ending, killer, state, on_disk, loaded, broken, crashes>>

(* TRUNCATE treats its parts one by one, the commit of a new part does it  *)
(* for all of them at the end.                                             *)
OutdatedByTruncate(x, p) ==
  IF Truncating(x) THEN [state EXCEPT ![p] = "Outdated"] ELSE state

(* removeOldPart(), after the mutex is released: the TID goes to the file. *)
AppendRemoval(x) ==
  LET p == Head(covered[x])
  IN  /\ client[x] = "append"
      /\ file' = AppendRemovalTID(p, version[p])
      /\ version' = IF version[p].creation_tid = PrehistoricTID
                    THEN [version EXCEPT ![p].creation_csn = PrehistoricCSN] ELSE version
      /\ state' = OutdatedByTruncate(x, p)
      /\ covered' = [covered EXCEPT ![x] = Tail(@)]
      /\ client' = [client EXCEPT ![x] = "remove"]
      /\ UNCHANGED <<logVars, read, csn, merging, new_part, changes, ending, killer,
                     parts_lock, on_disk, loaded, broken, crashes>>

(* TRUNCATE meets a part of its own whose creation a KILL has rolled back. *)
SkipRolledBack(x) ==
  LET p == Head(covered[x])
  IN  /\ client[x] = "remove" /\ covered[x] # <<>>
      /\ Truncating(x) /\ version[p].creation_csn = RolledBackCSN
      /\ state' = OutdatedByTruncate(x, p)
      /\ covered' = [covered EXCEPT ![x] = Tail(@)]
      /\ UNCHANGED <<logVars, version, file, read, csn, client, merging, new_part,
                     changes, ending, killer, parts_lock, on_disk, loaded, broken,
                     crashes>>

TruncateEnds(x) ==
  /\ client[x] = "remove" /\ covered[x] = <<>> /\ Truncating(x)
  /\ parts_lock' = None
  /\ client' = [client EXCEPT ![x] = "ready"]
  /\ UNCHANGED <<logVars, version, file, read, csn, writeVars, changes, ending,
                 killer, state, on_disk, loaded, broken, crashes>>

(* The new part becomes Active and the parts it covers Outdated, unless a  *)
(* part that covers it has become Active.  The query ends.                 *)
ActivatePart(x) ==
  LET p == new_part[x]
  IN  /\ client[x] = "remove" /\ covered[x] = <<>> /\ ~Truncating(x)
      /\ state' = IF IsCovered(p) THEN [state EXCEPT ![p] = "Outdated"]
                  ELSE [q \in Parts |-> IF q = p THEN "Active"
                                        ELSE IF q \in CoveredBy(p, "Active") THEN "Outdated"
                                        ELSE state[q]]
      /\ parts_lock' = None
      /\ merging' = [merging EXCEPT ![x] = {}]
      /\ client' = [client EXCEPT ![x] = "ready"]
      /\ UNCHANGED <<logVars, version, file, read, csn, new_part, covered, changes,
                     ending, killer, on_disk, loaded, broken, crashes>>

(* MergeTreeData::Transaction::rollback() after an exception: the part     *)
(* becomes Outdated, and its creation rolled back in memory.               *)
UndoPart(x) ==
  LET p == new_part[x]
  IN  /\ client[x] = "undo" /\ Unlocked
      /\ version' = [version EXCEPT ![p].creation_csn = RolledBackCSN]
      /\ state' = [state EXCEPT ![p] = "Outdated"]
      /\ merging' = [merging EXCEPT ![x] = {}]
      /\ client' = [client EXCEPT ![x] = "exception"]
      /\ UNCHANGED <<logVars, file, read, csn, new_part, covered, changes, ending,
                     killer, parts_lock, on_disk, loaded, broken, crashes>>

-----------------------------------------------------------------------------
(* The end of a transaction. *)

IsReadOnly(x) == creating[x] = <<>> /\ removing[x] = <<>>

(* Mutant: a transaction whose commit is under way is rolled back. *)
RollBackCommitting(x) ==
  /\ csn[x] \in {UnknownCSN, CommittingCSN}
  /\ csn' = [csn EXCEPT ![x] = RolledBackCSN]
  /\ finish' = [finish EXCEPT ![x] = "mark"]
  /\ todo' = [todo EXCEPT ![x] = creating[x]]

(* rollback(): only the winner of the compare-exchange goes on. *)
StartRollback(x) ==
  /\ csn[x] = UnknownCSN
  /\ csn' = [csn EXCEPT ![x] = RolledBackCSN]
  /\ finish' = [finish EXCEPT ![x] = "mark"]
  /\ todo' = [todo EXCEPT ![x] = creating[x]]

(* ROLLBACK, or onException() after a query has thrown. *)
ClientRollsBack(x) ==
  /\ Idle(x) \/ client[x] = "exception"
  /\ IF csn[x] = UnknownCSN THEN StartRollback(x)
                            ELSE UNCHANGED <<csn, finish, todo>>
  /\ client' = [client EXCEPT ![x] = "end"]
  /\ UNCHANGED <<logVars, version, file, read, writeVars, changes, killer,
                 partVars, crashes>>

(* KILL TRANSACTION, from another session. *)
Kill(x) ==
  /\ x \in Killable /\ Running(x) /\ killer[x] = None
  /\ StartRollback(x)
  /\ killer' = [killer EXCEPT ![x] = "won"]
  /\ UNCHANGED <<logVars, version, file, read, client, writeVars, changes,
                 partVars, crashes>>

(* The compare-exchange of the KILL fails, and in its next step it asserts *)
(* that the transaction has a CSN.                                         *)
KillFails(x) ==
  /\ x \in Killable /\ Running(x) /\ killer[x] = None /\ csn[x] # UnknownCSN
  /\ killer' = [killer EXCEPT ![x] = "lost"]
  /\ UNCHANGED <<logVars, version, file, read, csn, client, writeVars,
                 changes, ending, partVars, crashes>>

KillReturns(x) ==
  /\ killer[x] = "lost"
  /\ killer' = [killer EXCEPT ![x] = "done"]
  /\ UNCHANGED <<logVars, version, file, read, csn, client, writeVars,
                 changes, ending, partVars, crashes>>

(* beforeCommit(): COMMIT of a cancelled transaction throws. *)
BeforeCommit(x) ==
  /\ Idle(x)
  /\ IF csn[x] = UnknownCSN
     THEN /\ csn' = [csn EXCEPT ![x] = CommittingCSN]
          /\ client' = [client EXCEPT ![x] = IF IsReadOnly(x) THEN "end" ELSE "commit"]
          /\ finish' = [finish EXCEPT ![x] = IF IsReadOnly(x) THEN "committed" ELSE @]
     ELSE /\ client' = [client EXCEPT ![x] = "end"]
          /\ UNCHANGED <<csn, finish>>
  /\ UNCHANGED <<logVars, version, file, read, writeVars, changes, todo,
                 killer, partVars, crashes>>

(* commitTransaction(): the node is created and the answer arrives. *)
Commit(x) ==
  /\ client[x] = "commit" /\ CommitPoint(x)
  /\ client' = [client EXCEPT ![x] = "end"]
  /\ finish' = [finish EXCEPT ![x] = "committed"]
  /\ UNCHANGED <<version, file, read, csn, writeVars, changes, todo, killer,
                 partVars, crashes>>

(* The connection is lost, after or before the node is created. *)
CommitLost(x) ==
  /\ client[x] = "commit"
  /\ CommitPointLost(x) \/ CommitFails(x)
  /\ client' = [client EXCEPT ![x] = "lost"]
  /\ UNCHANGED <<version, file, read, csn, writeVars, changes, ending,
                 killer, partVars, crashes>>

Postpone(x) ==
  /\ client[x] = "lost" /\ PostponeFinalization(x)
  /\ client' = [client EXCEPT ![x] = "end"]
  /\ finish' = [finish EXCEPT ![x] = "unknown"]
  /\ UNCHANGED <<version, file, read, csn, writeVars, changes, todo, killer,
                 partVars, crashes>>

(* Keeper refuses the request: the guard puts the CSN back to Unknown. *)
CommitRefused(x) ==
  /\ client[x] = "commit" /\ CommitFails(x)
  /\ csn' = [csn EXCEPT ![x] = UnknownCSN]
  /\ client' = [client EXCEPT ![x] = "exception"]
  /\ UNCHANGED <<version, file, read, writeVars, changes, ending, killer,
                 partVars, crashes>>

-----------------------------------------------------------------------------
(* finalizeCommittedTransaction() *)

AllocatedCSN(x) ==
  IF IsReadOnly(x) THEN Snapshot(x)
  ELSE (CHOOSE e \in committed : e.tid = tid[x]).csn

(* afterCommit(): csn.exchange() *)
AfterCommit(x) ==
  /\ finish[x] = "committed"
  /\ csn' = [csn EXCEPT ![x] = AllocatedCSN(x)]
  /\ todo' = [todo EXCEPT ![x] = creating[x]]
  /\ finish' = [finish EXCEPT ![x] = "stamp_created"]
  /\ UNCHANGED <<logVars, version, file, read, client, writeVars, changes,
                 killer, partVars, crashes>>

(* A phase of the end of a transaction treats the parts of todo in turn,   *)
(* and goes on to the next phase with other parts.                         *)
NextPart(x) == todo' = [todo EXCEPT ![x] = Tail(@)] /\ UNCHANGED finish
NextPhase(x, phase, parts) ==
  /\ todo' = [todo EXCEPT ![x] = parts]
  /\ finish' = [finish EXCEPT ![x] = phase]

(* afterCommit(): the CSN in memory and then in the file. *)
StampCreated(x) ==
  LET p == Head(todo[x])
      v == [version[p] EXCEPT !.creation_csn = csn[x]]
  IN  /\ finish[x] = "stamp_created"
      /\ IF todo[x] = <<>>
         THEN NextPhase(x, "stamp_removed", removing[x]) /\ UNCHANGED <<version, file>>
         ELSE /\ version' = [version EXCEPT ![p] = v]
              /\ file' = AppendCreationCSN(p, v)
              /\ NextPart(x)
      /\ UNCHANGED <<logVars, read, csn, client, writeVars, changes, killer,
                     partVars, crashes>>

(* Mutant: the CSN of the removal stays in memory. *)
StampRemovedInMemory(x) ==
  LET p == Head(todo[x])
  IN  /\ finish[x] = "stamp_removed"
      /\ IF todo[x] = <<>>
         THEN NextPhase(x, "release", <<>>) /\ UNCHANGED version
         ELSE /\ version' = [version EXCEPT ![p].removal_csn = csn[x]]
              /\ NextPart(x)
      /\ UNCHANGED <<logVars, file, read, csn, client, writeVars, changes,
                     killer, partVars, crashes>>

StampRemoved(x) ==
  LET p == Head(todo[x])
      v == [version[p] EXCEPT !.removal_csn = csn[x]]
  IN  /\ finish[x] = "stamp_removed"
      /\ IF todo[x] = <<>>
         THEN NextPhase(x, "release", <<>>) /\ UNCHANGED <<version, file>>
         ELSE /\ version' = [version EXCEPT ![p] = v]
              /\ file' = AppendRemovalCSN(p, v)
              /\ NextPart(x)
      /\ UNCHANGED <<logVars, read, csn, client, writeVars, changes, killer,
                     partVars, crashes>>

(* The snapshot is released, and afterFinalize() lets go of the parts. *)
Release(x) ==
  /\ finish[x] = "release" /\ ReleaseSnapshot(x)
  /\ finish' = [finish EXCEPT ![x] = "done"]
  /\ UNCHANGED <<version, file, read, csn, client, writeVars, changes, todo,
                 killer, partVars, crashes>>

-----------------------------------------------------------------------------
(* rollback(), after the compare-exchange *)

(* RolledBackCSN goes to memory and to the file of the created parts. *)
MarkRolledBack(x) ==
  LET p == Head(todo[x])
      v == [version[p] EXCEPT !.creation_csn = RolledBackCSN]
  IN  /\ finish[x] = "mark"
      /\ IF todo[x] = <<>>
         THEN NextPhase(x, "outdate", creating[x]) /\ UNCHANGED <<version, file>>
         ELSE /\ version' = [version EXCEPT ![p] = v]
              /\ file' = AppendCreationCSN(p, v)
              /\ NextPart(x)
      /\ UNCHANGED <<logVars, read, csn, client, writeVars, changes, killer,
                     partVars, crashes>>

(* Mutant: the created parts are taken out without the lock. *)
OutdateWithoutLock(x) ==
  LET p == Head(todo[x])
  IN  /\ finish[x] = "outdate"
      /\ IF todo[x] = <<>>
         THEN NextPhase(x, "activate", removing[x]) /\ UNCHANGED state
         ELSE /\ state' = [state EXCEPT ![p] = "Outdated"]
              /\ NextPart(x)
      /\ UNCHANGED <<logVars, version, file, read, csn, client, writeVars,
                     changes, killer, parts_lock, on_disk, loaded, broken,
                     crashes>>

(* removePartsFromWorkingSet(), under the lock of the set of parts. *)
OutdateCreated(x) ==
  LET p == Head(todo[x])
  IN  /\ finish[x] = "outdate"
      /\ IF todo[x] = <<>>
         THEN NextPhase(x, "activate", removing[x]) /\ UNCHANGED state
         ELSE /\ Unlocked
              /\ state' = [state EXCEPT ![p] = "Outdated"]
              /\ NextPart(x)
      /\ UNCHANGED <<logVars, version, file, read, csn, client, writeVars,
                     changes, killer, parts_lock, on_disk, loaded, broken,
                     crashes>>

(* Mutant: the parts that x has removed are not restored. *)
RestoreNothing(x) ==
  /\ finish[x] = "activate" /\ NextPhase(x, "clear", removing[x])
  /\ UNCHANGED <<logVars, version, file, read, csn, client, writeVars, changes,
                 killer, partVars, crashes>>

(* restoreAndActivatePart(), except for parts created by x too. *)
RestoreRemoved(x) ==
  LET p == Head(todo[x])
      mine == version[p].creation_tid = tid[x]
  IN  /\ finish[x] = "activate"
      /\ IF todo[x] = <<>>
         THEN NextPhase(x, "clear", removing[x]) /\ UNCHANGED state
         ELSE /\ mine \/ Unlocked
              /\ state' = IF mine THEN state ELSE [state EXCEPT ![p] = "Active"]
              /\ NextPart(x)
      /\ UNCHANGED <<logVars, version, file, read, csn, client, writeVars,
                     changes, killer, parts_lock, on_disk, loaded, broken,
                     crashes>>

(* Mutant: the file keeps the TID. *)
ClearNothing(x) ==
  /\ finish[x] = "clear"
  /\ IF todo[x] = <<>> THEN NextPhase(x, "release", <<>>)
                       ELSE NextPhase(x, "unlock", todo[x])
  /\ UNCHANGED <<logVars, version, file, read, csn, client, writeVars, changes,
                 killer, partVars, crashes>>

(* The TID is cleared in the file, *)
ClearRemoved(x) ==
  /\ finish[x] = "clear"
  /\ IF todo[x] = <<>>
     THEN NextPhase(x, "release", <<>>) /\ UNCHANGED file
     ELSE NextPhase(x, "unlock", todo[x]) /\ file' = ClearRemovalTID(Head(todo[x]))
  /\ UNCHANGED <<logVars, version, read, csn, client, writeVars, changes,
                 killer, partVars, crashes>>

(* and then the part is unlocked. *)
UnlockRemoved(x) ==
  /\ finish[x] = "unlock"
  /\ version' = [version EXCEPT ![Head(todo[x])].removal_tid = EmptyTID]
  /\ NextPhase(x, "clear", Tail(todo[x]))
  /\ UNCHANGED <<logVars, file, read, csn, client, writeVars, changes,
                 killer, partVars, crashes>>

-----------------------------------------------------------------------------
(* tryFinalizeUnknownStateTransactions(), for the head of its list *)

(* The entry is looked up; without one the guard goes, and the CSN is      *)
(* Unknown again.                                                          *)
DecideUnknownState(x) ==
  LET found == GetCSN(tid[x]) # UnknownCSN
  IN  /\ updater = "finalize" /\ finalizing # <<>> /\ x = Head(finalizing)
      /\ finish[x] = "unknown"
      /\ finish' = [finish EXCEPT ![x] = IF found THEN "committed" ELSE "unguarded"]
      /\ csn' = [csn EXCEPT ![x] = IF found THEN @ ELSE UnknownCSN]
      /\ UNCHANGED <<logVars, version, file, read, client, writeVars,
                     changes, todo, killer, partVars, crashes>>

RollBackUnknownState(x) ==
  /\ finish[x] = "unguarded" /\ StartRollback(x)
  /\ UNCHANGED <<logVars, version, file, read, client, writeVars, changes,
                 killer, partVars, crashes>>

(* The thread goes on when its commit or rollback is over, or when a KILL  *)
(* has rolled the transaction back.                                        *)
EndUnknownState(x) ==
  /\ finalizing # <<>> /\ x = Head(finalizing)
  /\ \/ finish[x] = "done"
     \/ killer[x] = "won" /\ finish[x] \notin {"unknown", "unguarded"}
  /\ FinalizedUnknownState
  /\ UNCHANGED <<version, file, read, txnVars, partVars, crashes>>

UpdaterStep ==
  /\ Updater
  /\ UNCHANGED <<version, file, read, txnVars, partVars, crashes>>

UpdaterRequestFails ==
  /\ UpdaterFails
  /\ UNCHANGED <<version, file, read, txnVars, partVars, crashes>>

-----------------------------------------------------------------------------
(* Cleanup, crash and start-up *)

(* Someone holds a pointer to the part: a transaction that is not over, a  *)
(* running query that writes or reads it.                                  *)
InUse(p) ==
  \E x \in Txns :
    \/ finish[x] # "done" /\ p \in Range(creating[x] \o removing[x])
    \/ client[x] \in {"written", "remove", "append", "undo"}
       /\ p \in {new_part[x]} \cup Range(covered[x])
    \/ read[x].pc # None /\ p = read[x].part

(* grabOldParts() and the removal of what it has found. *)
GrabOldPart(p) ==
  /\ alive /\ state[p] = "Outdated" /\ Unlocked
  /\ IF CanBeRemoved(version[p]) /\ ~InUse(p)
     THEN /\ state' = [state EXCEPT ![p] = None]
          /\ on_disk' = on_disk \ {p}
          /\ version' = [version EXCEPT ![p] = NoMetadata]
          /\ file' = [file EXCEPT ![p] = NoMetadata]
     ELSE /\ AfterCanBeRemoved(version[p]) # version[p]
          /\ version' = [version EXCEPT ![p] = AfterCanBeRemoved(version[p])]
          /\ UNCHANGED <<state, on_disk, file>>
  /\ UNCHANGED <<logVars, read, txnVars, parts_lock, loaded, broken, crashes>>

CrashServer ==
  /\ crashes < MaxCrashes /\ crashes' = crashes + 1
  /\ Crash
  /\ client' = [x \in Txns |-> IF client[x] = "idle" THEN "idle" ELSE "end"]
  /\ finish' = [x \in Txns |-> IF client[x] = "idle" THEN None ELSE "done"]
  /\ read' = [x \in Txns |-> NoRead] /\ killer' = [x \in Txns |-> None]
  /\ merging' = [x \in Txns |-> {}]
  /\ covered' = [x \in Txns |-> <<>>] /\ todo' = [x \in Txns |-> <<>>]
  /\ state' = [p \in Parts |-> None] /\ version' = [p \in Parts |-> NoMetadata]
  /\ parts_lock' = None /\ loaded' = {}
  /\ UNCHANGED <<file, csn, new_part, changes, on_disk, broken>>

StartServer ==
  /\ LoadLogFromZooKeeper
  /\ UNCHANGED <<version, file, read, txnVars, partVars, crashes>>

ServerStarted ==
  /\ \A p \in on_disk \ loaded : LateOutdated /\ IsCovered(p)
  /\ SetServerCompletelyStarted /\ ~broken
  /\ UNCHANGED <<version, file, read, txnVars, partVars, crashes>>

(* loadDataPart(): CSNs that are missing in the file are looked up.  A     *)
(* creation without one was not committed; a removal without one neither,  *)
(* and is undone.                                                          *)
StoredOrFound(t, stored) == IF stored # UnknownCSN THEN stored ELSE GetCSN(t)

(* Mutant: a creation without a CSN is taken for committed. *)
FixedAsCommitted(v) ==
  LET creation == StoredOrFound(v.creation_tid, v.creation_csn)
      removal == StoredOrFound(v.removal_tid, v.removal_csn)
  IN  [v EXCEPT !.creation_csn = IF creation = UnknownCSN THEN next_csn - 1 ELSE creation,
                !.removal_csn = removal,
                !.removal_tid = IF removal = UnknownCSN THEN EmptyTID ELSE @]

Fixed(v) ==
  LET creation == StoredOrFound(v.creation_tid, v.creation_csn)
      removal == StoredOrFound(v.removal_tid, v.removal_csn)
  IN  [v EXCEPT !.creation_csn = IF creation = UnknownCSN THEN RolledBackCSN ELSE creation,
                !.removal_csn = removal,
                !.removal_tid = IF removal = UnknownCSN THEN EmptyTID ELSE @]

(* Mutant: no part is created and removed by the same transaction. *)
InvalidStrictOrder(v) ==
  v.removal_csn \notin {UnknownCSN, PrehistoricCSN} /\ v.creation_csn >= v.removal_csn

InvalidOrder(v) ==
  v.removal_csn \notin {UnknownCSN, PrehistoricCSN} /\ v.creation_csn > v.removal_csn

(* A lookup of an outdated TID throws; so do the sanity checks. *)
LoadThrows(v) ==
  LET w == Fixed(v)
  IN  /\ WasInvolvedInTransaction(v)
      /\ \/ LookupThrows(v.creation_tid, v.creation_csn)
         \/ v.removal_tid # EmptyTID /\ LookupThrows(v.removal_tid, v.removal_csn)
         \/ InvalidOrder(w)
         \/ w.creation_tid.start_csn > w.creation_csn
         \/ w.removal_tid.start_csn > w.removal_csn

(* The creation was not committed, or the removal was. *)
IsGone(v) == v.creation_csn = RolledBackCSN \/ v.removal_csn # UnknownCSN

(* preparePartForRemoval() throws for a part created by a transaction that *)
(* nobody removes, and locks a part that no transaction removes.           *)
PrepareThrows(v) ==
  v.creation_csn \notin {RolledBackCSN, PrehistoricCSN} /\ v.removal_tid = EmptyTID
PreparedForRemoval(v) ==
  IF v.removal_tid = EmptyTID THEN [v EXCEPT !.removal_tid = PrehistoricTID] ELSE v

(* Parts are loaded after the parts that cover them; those that an Active  *)
(* part covers are loaded as Outdated.                                     *)
LoadPart(p) ==
  LET v == IF file[p] = NoMetadata THEN PrehistoricMetadata ELSE file[p]
      w == IF WasInvolvedInTransaction(v) THEN Fixed(v) ELSE v
      outdated == IsCovered(p) \/ (WasInvolvedInTransaction(v) /\ IsGone(w))
      throws == LoadThrows(v) \/ (outdated /\ PrepareThrows(w))
  IN  /\ alive /\ ~broken /\ p \in on_disk \ loaded
      /\ \A q \in on_disk : p \in Covers[q] => q \in loaded
      /\ IF throws
         THEN broken' = TRUE /\ UNCHANGED <<version, file, state, loaded>>
         ELSE /\ version' = [version EXCEPT ![p] = IF outdated THEN PreparedForRemoval(w) ELSE w]
              /\ file' = [file EXCEPT ![p] = IF w = v THEN @ ELSE w]
              /\ state' = [state EXCEPT ![p] = IF outdated THEN "Outdated" ELSE "Active"]
              /\ loaded' = loaded \cup {p}
              /\ UNCHANGED broken
      /\ UNCHANGED <<logVars, read, txnVars, parts_lock, on_disk, crashes>>

-----------------------------------------------------------------------------
(* Steps of a query that holds the lock of the set of parts. *)
LockedStep(x) ==
  \/ RemoveOldPart(x) \/ AppendRemoval(x) \/ SkipRolledBack(x) \/ TruncateEnds(x)
  \/ ActivatePart(x)

ClientStep(x) ==
  \/ Begin(x) \/ SelectStep(x)
  \/ \E p \in Parts : Select(x, p) \/ WritePart(x, p)
  \/ AddNewPart(x) \/ Truncate(x) \/ LockedStep(x) \/ UndoPart(x)
  \/ ClientRollsBack(x) \/ BeforeCommit(x)
  \/ Commit(x) \/ CommitLost(x) \/ Postpone(x) \/ CommitRefused(x)

FinishStep(x) ==
  \/ AfterCommit(x) \/ StampCreated(x) \/ StampRemoved(x) \/ Release(x)
  \/ MarkRolledBack(x) \/ OutdateCreated(x) \/ RestoreRemoved(x)
  \/ ClearRemoved(x) \/ UnlockRemoved(x)

KillStep(x) == Kill(x) \/ KillFails(x) \/ KillReturns(x)

UnknownStateStep(x) ==
  DecideUnknownState(x) \/ RollBackUnknownState(x) \/ EndUnknownState(x)

Next ==
  \/ \E x \in Txns : ClientStep(x) \/ FinishStep(x) \/ KillStep(x) \/ UnknownStateStep(x)
  \/ UpdaterStep \/ UpdaterRequestFails
  \/ \E p \in Parts : GrabOldPart(p) \/ LoadPart(p)
  \/ CrashServer \/ StartServer \/ ServerStarted

Spec == Init /\ [][Next]_vars

(* The threads that end transactions, the updating thread, and queries     *)
(* that hold the lock of the set of parts go on.                           *)
Fairness ==
  /\ WF_vars(UpdaterStep)
  /\ \A x \in Txns : WF_vars(FinishStep(x)) /\ WF_vars(UnknownStateStep(x))
                    /\ WF_vars(Postpone(x)) /\ WF_vars(LockedStep(x))

FairSpec == Spec /\ Fairness

-----------------------------------------------------------------------------
(***************************************************************************)
(* Correctness.                                                            *)
(***************************************************************************)
CommittedBy(x, snapshot) == \E e \in committed : e.tid = tid[x] /\ e.csn <= snapshot
Creates(x, p) == p \in Range(creating[x])
Removes(x, p) == p \in Range(removing[x])

(* What x has to see: the parts of its snapshot and its own changes. *)
InSnapshot(x, p) ==
  /\ \/ p \in Initial \/ Creates(x, p)
     \/ \E y \in Txns : Creates(y, p) /\ CommittedBy(y, Snapshot(x))
  /\ ~Removes(x, p)
  /\ ~ \E y \in Txns : Removes(y, p) /\ CommittedBy(y, Snapshot(x))

(* A call of isVisible() by a running transaction returns whether the part *)
(* is in its snapshot, whatever commits, rolls back, moves the tail or     *)
(* stores CSNs between the loads and the lookups of that call.             *)
ReadsAreSnapshotReads ==
  \A x \in Readers : read[x].pc = "done" /\ csn[x] = UnknownCSN =>
    (read[x].result <=> InSnapshot(x, read[x].part))

(* No reader meets a TID whose entry has been removed from the log and     *)
(* whose CSN is not in the part (the exception of assertTIDIsNotOutdated). *)
NoOutdatedLookup == \A x \in Readers : read[x].pc # "throw"

(* Parts that a running transaction sees are in the set of parts, and      *)
(* those that the set offers and isVisible() accepts are the snapshot of   *)
(* the transaction: cleanup never takes a part away from a snapshot, and a *)
(* failed commit or a rollback never adds one (grabOldParts, canBeRemoved).*)
SnapshotIsKept ==
  started /\ on_disk \subseteq loaded =>
    \A x \in Txns : Running(x) /\ Idle(x) /\ csn[x] = UnknownCSN =>
      {p \in Parts : state[p] \in {"Active", "Outdated"} /\ VisibleTo(x, p)}
        = {p \in Parts : InSnapshot(x, p)}

(* The Active parts of a table are disjoint, also while a rollback puts    *)
(* parts back (removePartsFromWorkingSet, then restoreAndActivatePart).    *)
ActivePartsAreDisjoint ==
  \A p, q \in Parts : state[p] = "Active" /\ state[q] = "Active" => q \notin Covers[p]

(* When no transaction runs and the parts are loaded, the Active parts are *)
(* exactly what the committed transactions leave, also after a restart.    *)
ActivePartsAreTheLatest ==
  started /\ on_disk \subseteq loaded /\ in_use = <<>>
  /\ (\A x \in Txns : client[x] \in {"idle", "end"}) =>
    {p \in Parts : state[p] = "Active"} =
      {p \in Parts : /\ p \in Initial \/ \E x \in Txns : Creates(x, p) /\ IsCommitted(x)
                     /\ ~ \E x \in Txns : Removes(x, p) /\ IsCommitted(x)}

(* A CSN in memory or on disk is true: a number is the CSN its transaction *)
(* was committed with, and RolledBackCSN means it never was (afterCommit,  *)
(* rollback, loadDataPart).                                                *)
TrueCSN(t, c) ==
  CASE c = UnknownCSN -> TRUE
    [] c = PrehistoricCSN -> t = PrehistoricTID
    [] c = RolledBackCSN -> ~ \E e \in committed : e.tid = t
    [] OTHER -> [csn |-> c, tid |-> t] \in committed
StoredCSNsAreTrue ==
  \A p \in Parts, m \in {version, file} :
    /\ TrueCSN(m[p].creation_tid, m[p].creation_csn)
    /\ m[p].removal_csn # UnknownCSN => TrueCSN(m[p].removal_tid, m[p].removal_csn)

(* The file of a part names the transaction that holds it locked for       *)
(* removal, except between the two steps that change them                  *)
(* (assertHasValidVersionMetadata; removeOldPart() writes the file after   *)
(* it has released the mutex of the transaction).                          *)
ChangesRemoval(x, p) ==
  \/ client[x] = "append" /\ p = Head(covered[x])
  \/ finish[x] = "unlock" /\ p = Head(todo[x])
FileNamesTheRemover ==
  \A p \in loaded \cap on_disk :
    \/ version[p].removal_tid \in {file[p].removal_tid, PrehistoricTID}
    \/ \E x \in Txns : ChangesRemoval(x, p)

(* A committed transaction is never rolled back, whether its client, the   *)
(* updating thread or a KILL finalizes it (beforeCommit, rollback,         *)
(* tryFinalizeUnknownStateTransactions).                                   *)
CommittedIsNotRolledBack == \A x \in Txns : IsCommitted(x) => csn[x] # RolledBackCSN

(* After a restart every part on disk can be loaded: no lookup meets a     *)
(* purged entry, and no sanity check of loadDataPart() or                  *)
(* preparePartForRemoval() fails, wherever the server died.                *)
PartsCanBeLoaded == ~broken

(***************************************************************************)
(* Snapshot isolation.  A transaction is committed as soon as its entry is *)
(* in the log, whether or not anybody knows, or, without changes, when its *)
(* commit begins; it is aborted when its rollback begins.                  *)
(***************************************************************************)
StatusOf(x) ==
  IF tid[x] = EmptyTID THEN "idle"
  ELSE IF IsCommitted(x) \/ (IsReadOnly(x) /\ csn[x] \notin {UnknownCSN, RolledBackCSN})
  THEN "committed"
  ELSE IF csn[x] = RolledBackCSN \/ finish[x] = "done" THEN "aborted" ELSE "running"

(* The entries of the log up to a snapshot, and the transactions in the    *)
(* order of their entries.                                                 *)
EntriesUpTo(snapshot) == Cardinality({e \in committed : e.csn <= snapshot})
CommitOrder ==
  [i \in 1 .. Cardinality(committed) |->
     CHOOSE x \in Txns : \E e \in committed : e.tid = tid[x] /\ EntriesUpTo(e.csn) = i]

Statuses == [x \in Txns |-> StatusOf(x)]
SnapshotLengths == [x \in Txns |-> EntriesUpTo(Snapshot(x))]
CreatedParts == [x \in Txns |-> Range(creating[x])]
RemovedParts == [x \in Txns |-> Range(removing[x])]
AnswersGiven ==
  [x \in Txns |-> IF read[x].pc = "done"
                  THEN [part |-> read[x].part, visible |-> read[x].result]
                  ELSE [part |-> None, visible |-> FALSE]]

Isolation == INSTANCE SnapshotIsolation WITH
  status <- Statuses, order <- CommitOrder, snapshot <- SnapshotLengths,
  created <- CreatedParts, removed <- RemovedParts, answer <- AnswersGiven

(* Transactions over parts are isolated: every step of the code is a step  *)
(* of SnapshotIsolation or none at all.                                    *)
TransactionsAreIsolated == Isolation!IsolationSpec

(* A transaction whose commit had an unknown outcome is committed or       *)
(* rolled back in the end (tryFinalizeUnknownStateTransactions).           *)
UnknownStateIsFinalized == \A x \in Txns : finish[x] = "unknown" ~> finish[x] = "done"

(* New transactions see every committed one in the end: no watch event is  *)
(* lost between listing, loading and waiting (runUpdatingThread).          *)
CommitsArePublished ==
  \A x \in Txns : IsCommitted(x) ~> CommittedBy(x, latest_snapshot)

IsPurged(t) == t # PrehistoricTID /\ t.start_csn < zk_tail_ptr

(* The tail is safe: a TID older than the tail pointer has its CSN in the  *)
(* file of every part that names it, so that its entry is not needed any   *)
(* more (the promise of tail_ptr in TransactionLog.h; snapshots are        *)
(* released after CSNs are written, and the tail waits for start-up).      *)
PurgedCSNsAreInParts ==
  \A p \in on_disk :
    /\ file[p].creation_tid # EmptyTID /\ IsPurged(file[p].creation_tid)
         => file[p].creation_csn # UnknownCSN
    /\ file[p].removal_tid # EmptyTID /\ IsPurged(file[p].removal_tid)
         => file[p].removal_csn # UnknownCSN

=============================================================================
