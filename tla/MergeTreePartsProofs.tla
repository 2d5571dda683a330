------------------------ MODULE MergeTreePartsProofs ------------------------
(***************************************************************************)
(* Proofs about the parts of a table under transactions, for any set of    *)
(* transactions, parts, merges, kills and crashes: who removes a part, in  *)
(* memory and in its file, which CSNs are there, which parts are Active    *)
(* and which ones a snapshot sees; at the end, that transactions implement *)
(* SnapshotIsolation.  They rest on what MergeTreeTransactionsProofs says  *)
(* of the effect of every step on one transaction and on one part.         *)
(***************************************************************************)
EXTENDS MergeTreeTransactionsProofs

(* Parts of the table and parts that a transaction has created. *)
Known(p) == p \in Initial \/ \E x \in Txns : Creates(x, p)
PartIsKnown(p) ==
  (\/ state[p] = "Active"
   \/ \E x \in Txns : Removes(x, p) \/ p \in Range(covered[x])) => Known(p)

Names ==
  /\ LockIsHeld
  /\ \A p \in Parts : MakerIsNamed(p) /\ PartIsKnown(p)
  /\ \A x \in Txns : AddedIsCreated(x) /\ \A p \in Parts : CreatedIsWritten(x, p) /\ OwnIsCreated(x, p)

LEMMA KnownStaysKnown ==
  ASSUME Stepping, NEW p, Known(p)
  PROVE  Known(p)'
BY ChangesStay DEF Known

(* A part whose creation is committed is known. *)
LEMMA CommittedIsKnown ==
  ASSUME Base, Names, NEW p \in Parts, NEW t, t = PrehistoricTID \/ \E e \in committed : e.tid = t,
         \/ state[p] # None /\ version[p].creation_tid = t
         \/ p \in on_disk /\ file[p].creation_tid = t
  PROVE  Known(p)
<1>1. CASE t = PrehistoricTID
  <2>1. Maker(p, t)
    <3>1. CASE state[p] # None /\ version[p].creation_tid = t
      BY <3>1 DEF Names, MakerIsNamed
    <3>2. CASE p \in on_disk /\ file[p].creation_tid = t
      <4>1. file[p] # NoMetadata
        BY <1>1, <3>2, NoMetadataFacts, MetadataFacts
      <4> QED  BY <3>2, <4>1 DEF Names, MakerIsNamed
    <3> QED  BY <3>1, <3>2
  <2>2. \A x \in Txns : HasBegun(x) => tid[x] # t
    BY <1>1, BegunFacts
  <2> QED  BY <2>1, <2>2 DEF Maker, Known
<1>2. ASSUME NEW e \in committed, e.tid = t PROVE Known(p)
  <2>1. PICK y \in Txns : e.tid = tid[y]
    BY DEF Base, IInv, CommitsHaveTxns
  <2>2. IsCommitted(y)
    BY <2>1 DEF IsCommitted
  <2>3. HasBegun(y) /\ ~Doomed(y) /\ ~Writing(y)
    BY <2>2, CommittedFacts
  <2>4. Made(y, p)
    BY <1>2, <2>1 DEF Made
  <2>5. Creates(y, p)
    BY <2>3, <2>4 DEF Names, OwnIsCreated
  <2> QED  BY <2>5 DEF Known
<1> QED  BY <1>1, <1>2

(* A creation that is not later than a snapshot is committed. *)
LEMMA SeenIsCommitted ==
  ASSUME Base, NEW t, NEW c \in CSNs, TrueCreation(t, c), c # UnknownCSN, c # RolledBackCSN
  PROVE  t = PrehistoricTID \/ \E e \in committed : e.tid = t /\ e.csn = c
BY DEF TrueCreation, TrueRemoval

LEMMA VisibleIsMade ==
  ASSUME Base, alive, NEW v \in Metadata, TrueMetadata(v), NEW s \in Nat, s <= MaxCSN, NEW t, IsVisible(v, s, t)
  PROVE  v.creation_tid = t \/ v.creation_tid = PrehistoricTID \/ \E e \in committed : e.tid = v.creation_tid
<1>1. PICK w : w = AfterIsVisible(v, s, t)
  OBVIOUS
<1>2. w \in Metadata /\ TrueMetadata(w) /\ w.creation_tid = v.creation_tid
  BY <1>1, AfterIsVisibleFacts DEF Base, Restamped
<1>3. \/ v.creation_csn # UnknownCSN /\ v.creation_csn <= s
      \/ v.creation_tid = t
      \/ w.creation_csn # UnknownCSN /\ w.creation_csn <= s
  BY <1>1 DEF IsVisible, FastVisible, VisibleByCSN
<1>4. ASSUME NEW u \in Metadata, TrueMetadata(u), u.creation_csn # UnknownCSN, u.creation_csn <= s
      PROVE  u.creation_tid = PrehistoricTID \/ \E e \in committed : e.tid = u.creation_tid
  <2>1. u.creation_csn \in CSNs /\ u.creation_csn \in Nat
    BY <1>4, MetadataFacts
  <2>2. u.creation_csn # RolledBackCSN
    BY <1>4, <2>1, CSNFacts
  <2>3. TrueCreation(u.creation_tid, u.creation_csn)
    BY <1>4 DEF TrueMetadata
  <2> QED  BY <1>4, <2>1, <2>2, <2>3, SeenIsCommitted
<1> QED  BY <1>2, <1>3, <1>4

LEMMA VisibleIsKnown ==
  ASSUME Base, Names, NEW x \in Txns, client[x] \in {"ready", "written"}, csn[x] = UnknownCSN,
         NEW p \in Parts, state[p] # None, VisibleTo(x, p), Writing(x) => p # new_part[x]
  PROVE  Known(p)
<1>1. Running(x) /\ HasBegun(x) /\ ~Doomed(x)
  <2>1. finish[x] = None /\ ~IsCommitted(x)
    BY DEF Base, TxnInv, Outcome
  <2>2. csn[x] # RolledBackCSN
    BY CSNFacts
  <2> QED  BY <2>1, <2>2 DEF Base, TxnInv, RunningIsUnfinished, HasBegun, Doomed, None
<1>2. alive /\ Snapshot(x) \in Nat /\ Snapshot(x) <= MaxCSN
  BY <1>1, SnapshotNumbers DEF Base
<1>3. version[p] \in Metadata /\ TrueMetadata(version[p])
  BY Types DEF Base, TableInv, PartInv, MetadataIsTrue
<1>4. \/ version[p].creation_tid = tid[x] \/ version[p].creation_tid = PrehistoricTID
      \/ \E e \in committed : e.tid = version[p].creation_tid
  BY <1>2, <1>3, VisibleIsMade DEF VisibleTo
<1>5. CASE version[p].creation_tid = tid[x]
  <2>1. Made(x, p)
    BY <1>5 DEF Made
  <2>2. Creates(x, p)
    BY <1>1, <2>1 DEF Names, OwnIsCreated
  <2> QED  BY <2>2 DEF Known
<1>6. CASE version[p].creation_tid # tid[x]
  BY <1>4, <1>6, CommittedIsKnown
<1> QED  BY <1>5, <1>6

(* A part that is loaded as Active is known. *)
LEMMA LoadedIsKnown ==
  ASSUME Stepping, Names, NEW p \in Parts, LoadPart(p), p \in loaded', state'[p] = "Active"
  PROVE  Known(p)
<1>0. Base /\ p \in on_disk /\ p \notin loaded /\ alive
  BY LoadPartDoes DEF Stepping
<1>1. ~LoadsOutdated(p)
  BY LoadedFacts
<1>2. CASE file[p] = NoMetadata
  <2>1. ~Maker(p, file[p].creation_tid)
    BY <1>0, <1>2, MakerHasTID, NoMetadataFacts
  <2> QED  BY <1>0, <2>1 DEF Names, MakerIsNamed, Known
<1>3. CASE file[p] # NoMetadata
  <2>1. FileOf(p) = file[p] /\ TrueMetadata(file[p]) /\ file[p] \in Metadata
    BY <1>0, <1>3, FileFacts
  <2>2. CASE ~WasInvolvedInTransaction(file[p])
    <3>1. file[p].creation_tid = PrehistoricTID
      BY <2>2 DEF WasInvolvedInTransaction
    <3> QED  BY <1>0, <3>1, CommittedIsKnown
  <2>3. CASE WasInvolvedInTransaction(file[p])
    <3>1. FixedFileOf(p).creation_csn # RolledBackCSN /\ FixedFileOf(p).creation_csn # UnknownCSN
      BY <1>0, <1>1, <2>1, <2>3, FixedFileIs DEF LoadsOutdated, IsGone
    <3>2. PICK c : c = StoredOrFound(file[p].creation_tid, file[p].creation_csn)
      OBVIOUS
    <3>3. c # RolledBackCSN /\ c # UnknownCSN
      BY <1>0, <2>1, <2>3, <3>1, <3>2, FixedFileIs
    <3>4. TrueCreation(file[p].creation_tid, file[p].creation_csn) /\ file[p].creation_csn \in CSNs
      BY <2>1, MetadataFacts DEF TrueMetadata
    <3>5. TrueCreation(file[p].creation_tid, c) /\ c \in CSNs
      BY <1>0, <3>2, <3>4, StoredOrFoundFacts DEF Base
    <3>6. file[p].creation_tid = PrehistoricTID \/ \E e \in committed : e.tid = file[p].creation_tid
      BY <1>0, <3>3, <3>5, SeenIsCommitted
    <3> QED  BY <1>0, <3>6, CommittedIsKnown
  <2> QED  BY <2>2, <2>3
<1> QED  BY <1>2, <1>3

(* What a query has to replace. *)
LEMMA CoveredStarts ==
  ASSUME Stepping, NEW x \in Txns, NEW p, p \in Range(covered'[x])
  PROVE  \/ p \in Range(covered[x])
         \/ /\ AddNewPart(x) /\ csn[x] = UnknownCSN /\ p \in Parts /\ p \in Covers[new_part[x]]
            /\ state[p] = "Active" \/ (state[p] = "Outdated" /\ VisibleTo(x, p))
         \/ /\ Truncate(x) /\ p \in Parts /\ state[p] \in {"Active", "Outdated"} /\ VisibleTo(x, p)
<1>t. covered[x] \in Seq(Parts)
  BY Types DEF Stepping
<1>f. ASSUME NEW S, S \subseteq Parts PROVE SetToSeq(S) \in Seq(Parts) /\ Range(SetToSeq(S)) \subseteq S
  <2>1. IsFiniteSet(S)
    BY <1>f, TableAssumption, FS_Subset
  <2>2. SetToSeq(S) \in Seq(S)
    BY <2>1, SetToSeqFacts
  <2>3. Range(SetToSeq(S)) \subseteq S
    BY <2>2, SequenceFacts
  <2> QED  BY <1>f, <2>2, <2>3
<1>1. CASE SameQuery(x) \/ NoQuery(x)
  BY <1>1 DEF SameQuery, NoQuery
<1>2. CASE CrashServer
  BY <1>2, CrashDoes, EmptyRange
<1>3. CASE UndoPart(x) \/ \E q \in Parts : WritePart(x, q)
  BY <1>3, WritePartDoes, UndoPartDoes
<1>4. CASE AddNewPart(x)
  <2>1. covered'[x] = covered[x] \/ (csn[x] = UnknownCSN /\ covered'[x] = PartsToReplace(x, new_part[x]))
    BY <1>4, AddNewPartDoes
  <2>2. CASE csn[x] = UnknownCSN /\ covered'[x] = PartsToReplace(x, new_part[x])
    <3>1. PICK S, T : S = CoveredBy(new_part[x], "Active") /\ T = {q \in CoveredBy(new_part[x], "Outdated") : VisibleTo(x, q)}
      OBVIOUS
    <3>n. new_part[x] \in Parts
      BY <1>4, AddNewPartDoes
    <3>2. S \subseteq Parts /\ T \subseteq Parts
      BY <3>1, <3>n, TableAssumption DEF CoveredBy
    <3>3. covered'[x] = SetToSeq(S) \o SetToSeq(T)
      BY <2>2, <3>1 DEF PartsToReplace
    <3>4. Range(covered'[x]) \subseteq S \cup T
      BY <1>f, <3>2, <3>3, ConcatRange
    <3> QED  BY <1>4, <2>2, <3>1, <3>2, <3>4 DEF CoveredBy
  <2> QED  BY <2>1, <2>2
<1>5. CASE Truncate(x)
  <2>1. PICK S : S = {q \in {r \in Parts : state[r] \in {"Active", "Outdated"}} : VisibleTo(x, q)}
    OBVIOUS
  <2>2. covered'[x] = SetToSeq(S) /\ S \subseteq Parts
    BY <1>5, <2>1, TruncateDoes
  <2>3. p \in S
    BY <1>f, <2>2
  <2> QED  BY <1>5, <2>1, <2>3
<1>6. CASE LockedStep(x)
  <2>1. \/ covered'[x] = covered[x] \/ covered'[x] = <<>>
        \/ covered[x] # <<>> /\ covered'[x] = Tail(covered[x])
    BY <1>6, RemoveOldPartDoes, AppendRemovalDoes, SkipRolledBackDoes, TruncateEndsDoes, ActivatePartDoes DEF LockedStep
  <2> QED  BY <1>t, <2>1, EmptyRange, SequenceFacts
<1> QED  BY <1>1, <1>2, <1>3, <1>4, <1>5, <1>6, QueryChanges

LEMMA NextPartIsKnown ==
  ASSUME Stepping, Names, NEW p \in Parts
  PROVE  PartIsKnown(p)'
<1>0. Base /\ PartIsKnown(p)
  BY DEF Stepping, Names
<1> SUFFICES ASSUME \/ state'[p] = "Active" \/ \E x \in Txns : Removes(x, p)' \/ p \in Range(covered'[x])
             PROVE  Known(p) \/ Known(p)'
  BY KnownStaysKnown DEF PartIsKnown
<1>1. ASSUME NEW x \in Txns, p \in Range(covered'[x]) PROVE Known(p)
  <2>1. CASE p \in Range(covered[x])
    BY <1>0, <2>1 DEF PartIsKnown
  <2>2. CASE AddNewPart(x) /\ csn[x] = UnknownCSN /\ p \in Covers[new_part[x]] /\ state[p] = "Outdated" /\ VisibleTo(x, p)
    <3>1. client[x] = "written" /\ new_part[x] \in Parts
      BY <2>2, AddNewPartDoes
    <3>2. p # new_part[x]
      BY <2>2, <3>1, TableAssumption
    <3>3. state[p] # None
      BY <2>2 DEF None
    <3> QED  BY <1>0, <2>2, <3>1, <3>2, <3>3, VisibleIsKnown
  <2>3. CASE state[p] = "Active"
    BY <1>0, <2>3 DEF PartIsKnown
  <2>4. CASE Truncate(x) /\ state[p] \in {"Active", "Outdated"} /\ VisibleTo(x, p)
    <3>1. client[x] = "ready" /\ csn[x] = UnknownCSN /\ state[p] # None
      BY <2>4, TruncateDoes DEF None
    <3> QED  BY <1>0, <2>4, <3>1, VisibleIsKnown DEF Writing
  <2> QED  BY <1>1, <2>1, <2>2, <2>3, <2>4, CoveredStarts
<1>2. ASSUME NEW x \in Txns, Removes(x, p)' PROVE Known(p)
  <2>1. CASE Removes(x, p)
    BY <1>0, <2>1 DEF PartIsKnown
  <2>2. CASE RemoveOldPart(x) /\ p = Head(covered[x])
    <3>1. p \in Range(covered[x])
      BY <2>2, RemoveOldPartDoes
    <3> QED  BY <1>0, <3>1 DEF PartIsKnown
  <2> QED  BY <1>2, <2>1, <2>2, ChangesStay
<1>3. ASSUME state'[p] = "Active" PROVE Known(p)
  <2>1. CASE state'[p] = state[p]
    BY <1>0, <1>3, <2>1 DEF PartIsKnown
  <2>2. CASE CrashServer \/ GrabOldPart(p)
    <3>1. state'[p] = None \/ state' = state
      BY <2>2, CrashDoes, GrabOldPartDoes
    <3> QED  BY <1>3, <2>1, <3>1 DEF None
  <2>3. CASE LoadPart(p)
    <3>1. p \in loaded' \/ state' = state
      BY <2>3, LoadPartDoes
    <3> QED  BY <1>3, <2>1, <2>3, <3>1, LoadedIsKnown
  <2>4. ASSUME NEW x \in Txns, WritePart(x, p) \/ (UndoPart(x) /\ p = new_part[x])
      PROVE FALSE
    BY <1>3, <2>4, WritePartDoes, UndoPartDoes
  <2>5. ASSUME NEW x \in Txns, ActivatePart(x) /\ p = new_part[x] PROVE Known(p)
    <3>1. Adding(x)
      BY <2>5 DEF ActivatePart, Adding, Locking
    <3> QED  BY <2>5, <3>1 DEF Names, AddedIsCreated, Known
  <2>6. ASSUME NEW x \in Txns, OutdateCreated(x) /\ Treats(x, p) PROVE Known(p)
    <3>1. state'[p] \in {state[p], "Outdated"}
      BY <2>6, OutdateCreatedDoes DEF Treats
    <3> QED  BY <1>3, <2>1, <3>1
  <2>7. ASSUME NEW x \in Txns, RestoreRemoved(x) /\ Treats(x, p) PROVE Known(p)
    <3>1. finish[x] = "activate"
      BY <2>7, RestoreRemovedDoes
    <3>2. p \in Range(removing[x])
      BY <1>0, <2>7, <3>1, TreatedFacts DEF Treats, Phases
    <3> QED  BY <1>0, <3>2 DEF PartIsKnown, Removes
  <2>8. state'[p] # "Outdated"
    BY <1>3
  <2> QED  BY <2>1, <2>2, <2>3, <2>4, <2>5, <2>6, <2>7, <2>8, StateChanges
<1> QED  BY <1>1, <1>2, <1>3

(* The name of a new part has not been used. *)
LEMMA NewIsUnknown ==
  ASSUME Stepping, Names, NEW x \in Txns, NEW p \in Parts, WritePart(x, p)
  PROVE  ~Known(p)
<1>1. p \in Writes[x] /\ state[p] = None /\ csn[x] = UnknownCSN /\ client[x] = "ready"
  BY WritePartDoes
<1>2. p \notin Initial /\ \A y \in Txns : y # x => p \notin Writes[y]
  BY <1>1, TableAssumption
<1>3. ASSUME Creates(x, p) PROVE FALSE
  <2>1. finish[x] = None /\ None # "done"
    BY <1>1 DEF Stepping, Base, TxnInv, Outcome, None
  <2>2. Present(p)
    BY <1>3, <2>1, ChangedIsPresent DEF Creates, Stepping, Base, TableInv
  <2> QED  BY <1>1, <2>2 DEF Present
<1> QED  BY <1>2, <1>3 DEF Known, Names, CreatedIsWritten

LEMMA NextNames ==
  ASSUME Stepping, Names
  PROVE  Names'
<1>1. LockIsHeld'
  BY NextLockIsHeld DEF Names
<1>2. \A p \in Parts : MakerIsNamed(p)'
  BY NextMakerIsNamed DEF Names
<1>3. \A p \in Parts : PartIsKnown(p)'
  BY NextPartIsKnown
<1>4. \A x \in Txns : AddedIsCreated(x)'
  BY NextAddedIsCreated DEF Names
<1>5. \A x \in Txns : \A p \in Parts : CreatedIsWritten(x, p)'
  BY NextCreatedIsWritten DEF Names
<1>6. \A x \in Txns : \A p \in Parts : OwnIsCreated(x, p)'
  BY NextOwnIsCreated DEF Names
<1> QED  BY <1>1, <1>2, <1>3, <1>4, <1>5, <1>6 DEF Names

-----------------------------------------------------------------------------
(* A query starts to hold the lock before anything ends its transaction. *)
LEMMA LockingStarts ==
  ASSUME Stepping, NEW x \in Txns, Locking(x)'
  PROVE  \/ Locking(x)
         \/ (AddNewPart(x) \/ Truncate(x)) /\ csn[x] = UnknownCSN /\ finish[x] = None /\ SameEnd(x)
<1> USE DEF Locking
<1>1. CASE SameQuery(x)
  BY <1>1 DEF SameQuery
<1>2. CASE CrashServer
  BY <1>2, CrashDoes
<1>3. ASSUME NEW p \in Parts, WritePart(x, p) PROVE FALSE
  BY <1>3, WritePartDoes
<1>4. CASE AddNewPart(x) \/ Truncate(x)
  <2>1. csn[x] = UnknownCSN /\ SameEnd(x) /\ client[x] \in {"ready", "written"}
    BY <1>4, AddNewPartDoes, TruncateDoes
  <2>2. finish[x] = None
    BY <2>1 DEF Stepping, Base, TxnInv, Outcome
  <2> QED  BY <1>4, <2>1, <2>2
<1>5. CASE UndoPart(x)
  BY <1>5, UndoPartDoes
<1>6. CASE LockedStep(x)
  BY <1>6 DEF LockedStep, RemoveOldPart, AppendRemoval, SkipRolledBack, TruncateEnds, ActivatePart
<1>7. CASE NoQuery(x)
  BY <1>7 DEF NoQuery, AtQueries
<1> QED  BY <1>1, <1>2, <1>3, <1>4, <1>5, <1>6, <1>7, QueryChanges

LEMMA NothingInRange ==
  ASSUME NEW S, NEW s \in Seq(S), Range(s) = {}
  PROVE  s = <<>>
BY HeadAndTail

(* While a query holds the lock, a KILL of its transaction gets no further *)
(* than the lock lets it.                                                  *)
KillWaits(x) ==
  Locking(x) =>
    /\ finish[x] # "unlock"
    /\ finish[x] = "outdate" => todo[x] = creating[x]
    /\ finish[x] = "activate" => creating[x] = <<>> /\ todo[x] = removing[x]
    /\ finish[x] \in {"clear", "release", "done"} => IsReadOnly(x)

(* A part that a transaction removes is one it has created if it bears its *)
(* name.                                                                   *)
LEMMA RemovedIsMine ==
  ASSUME Base, Names, NEW x \in Txns, HasBegun(x), NEW p \in Parts, Known(p), state[p] # None, version[p].creation_tid = tid[x]
  PROVE  Creates(x, p)
<1>1. Maker(p, tid[x])
  BY DEF Names, MakerIsNamed
<1>2. p \in Writes[x]
  BY <1>1, BegunFacts DEF Maker
<1>3. p \notin Initial /\ \A y \in Txns : p \in Writes[y] => y = x
  BY <1>2, TableAssumption
<1> QED  BY <1>3 DEF Known, Names, CreatedIsWritten

LEMMA NextKillWaits ==
  ASSUME Stepping, Names, NEW x \in Txns, KillWaits(x)
  PROVE  KillWaits(x)'
<1> SUFFICES ASSUME Locking(x)'
             PROVE  /\ finish'[x] # "unlock"
                    /\ finish'[x] = "outdate" => todo'[x] = creating'[x]
                    /\ finish'[x] = "activate" => creating'[x] = <<>> /\ todo'[x] = removing'[x]
                    /\ finish'[x] \in {"clear", "release", "done"} => creating'[x] = <<>> /\ removing'[x] = <<>>
  BY DEF KillWaits, IsReadOnly
<1>b. Base
  BY DEF Stepping
<1>1. CASE ~Locking(x)
  <2>1. finish[x] = None /\ SameEnd(x)
    BY <1>1, LockingStarts
  <2> QED  BY <2>1 DEF SameEnd, None
<1>2. CASE Locking(x)
  <2>0. /\ finish[x] # "unlock"
        /\ finish[x] = "outdate" => todo[x] = creating[x]
        /\ finish[x] = "activate" => creating[x] = <<>> /\ todo[x] = removing[x]
        /\ finish[x] \in {"clear", "release", "done"} => creating[x] = <<>> /\ removing[x] = <<>>
    BY <1>2 DEF KillWaits, IsReadOnly
  <2>l. parts_lock = x /\ parts_lock # None
    BY <1>2, TableAssumption DEF Names, LockIsHeld
  <2>c. client[x] \notin {"idle", "ready", "exception", "commit", "lost", "end"}
    BY <1>2 DEF Locking
  <2>1. CASE SameEnd(x)
    <3>1. CASE SameChanges(x)
      BY <2>0, <2>1, <3>1 DEF SameEnd, SameChanges
    <3>2. CASE ~SameChanges(x)
      <4>1. AddNewPart(x) \/ (RemoveOldPart(x) /\ ~SameChanges(x))
        BY <3>2, ChangesGrow DEF SameChanges
      <4>2. csn[x] = UnknownCSN
        BY <1>2, <3>2, <4>1, AddNewPartDoes, RemoveOldPartDoes DEF Locking, SameChanges
      <4>3. finish[x] = None
        BY <1>b, <2>c, <4>2 DEF Base, TxnInv, Outcome
      <4> QED  BY <2>1, <4>3 DEF SameEnd, None
    <3> QED  BY <3>1, <3>2
  <2>2. CASE CrashServer
    BY <2>2, CrashDoes DEF Locking
  <2>3. CASE Deciding(x)
    <3>0. creating'[x] = creating[x] /\ removing'[x] = removing[x]
      BY <2>3, DecidingKeeps
    <3>1. CASE Begin(x) \/ BeforeCommit(x) \/ Commit(x) \/ CommitLost(x) \/ Postpone(x) \/ CommitRefused(x)
      BY <2>c, <3>1, BeginDoes, BeforeCommitDoes, CommitDoes, PostponeDoes, CommitRefusedDoes
    <3>2. CASE ClientRollsBack(x) \/ Kill(x) \/ RollBackUnknownState(x)
      <4>1. SameEnd(x) \/ finish'[x] = "mark"
        BY <3>2, RollbackStarts
      <4> QED  BY <2>1, <4>1
    <3>3. CASE DecideUnknownState(x) \/ AfterCommit(x)
      BY <2>c, <3>3, DecideDoes, AfterCommitDoes
    <3>4. CASE Release(x)
      BY <2>0, <3>0, <3>4, ReleaseDoes
    <3> QED  BY <2>3, <3>1, <3>2, <3>3, <3>4 DEF Deciding
  <2>4. CASE Treating(x)
    <3>0. creating'[x] = creating[x] /\ removing'[x] = removing[x]
      BY <2>4, TreatingKeeps DEF SameChanges
    <3>1. CASE StampCreated(x) \/ StampRemoved(x)
      <4>1. finish[x] \in {"stamp_created", "stamp_removed"}
        BY <3>1, StampCreatedDoes, StampRemovedDoes
      <4> QED  BY <1>b, <2>c, <4>1 DEF Base, TxnInv, Outcome
    <3>2. CASE MarkRolledBack(x)
      BY <3>0, <3>2, MarkRolledBackDoes DEF NextPhaseIs, NextPartIs
    <3>3. CASE OutdateCreated(x)
      BY <2>0, <2>l, <3>0, <3>3, OutdateCreatedDoes DEF NextPhaseIs, NextPartIs
    <3>4. CASE RestoreRemoved(x)
      <4>0. finish[x] = "activate"
        BY <3>4, RestoreRemovedDoes
      <4>1. todo[x] = <<>>
        <5> SUFFICES ASSUME todo[x] # <<>> PROVE FALSE
          OBVIOUS
        <5>1. PICK p : p = Head(todo[x])
          OBVIOUS
        <5>2. p \in Parts /\ p \in Range(removing[x]) /\ Present(p)
          BY <1>b, <4>0, <5>1, TreatedFacts DEF Phases
        <5>3. version[p].creation_tid = tid[x]
          BY <2>l, <3>4, <5>1, RestoreRemovedDoes
        <5>4. Known(p)
          BY <5>2 DEF Names, PartIsKnown, Removes
        <5>5. Creates(x, p)
          BY <1>b, <2>c, <5>2, <5>3, <5>4, RemovedIsMine DEF HasBegun, Present
        <5> QED  BY <2>0, <4>0, <5>5, EmptyRange DEF Creates
      <4> QED  BY <2>0, <3>0, <3>4, <4>0, <4>1, RestoreRemovedDoes DEF NextPhaseIs, NextPartIs
    <3>5. CASE ClearRemoved(x)
      <4>0. finish[x] = "clear"
        BY <3>5, ClearRemovedDoes
      <4>1. Range(todo[x]) \subseteq Range(removing[x]) /\ removing[x] = <<>>
        BY <1>b, <2>0, <4>0 DEF Base, TableInv, PartInv, RemovedIsLocked, TodoIsMine
      <4>2. todo[x] = <<>>
        BY <1>b, <4>1, EmptyRange, NothingInRange, Types
      <4> QED  BY <2>0, <3>0, <3>5, <4>0, <4>2, ClearRemovedDoes DEF NextPhaseIs
    <3>6. CASE UnlockRemoved(x)
      BY <2>0, <3>6, UnlockRemovedDoes
    <3> QED  BY <2>4, <3>1, <3>2, <3>3, <3>4, <3>5, <3>6 DEF Treating
  <2> QED  BY <2>1, <2>2, <2>3, <2>4, EndChanges
<1> QED  BY <1>1, <1>2

(* A part whose removal goes to its file is locked. *)
AppendIsMine(x) == client[x] = "append" => covered[x] # <<>> /\ Removes(x, Head(covered[x]))

LEMMA NextAppendIsMine ==
  ASSUME Stepping, NEW x \in Txns, AppendIsMine(x)
  PROVE  AppendIsMine(x)'
<1> SUFFICES ASSUME client'[x] = "append" PROVE covered'[x] # <<>> /\ Removes(x, Head(covered[x]))'
  BY DEF AppendIsMine
<1>1. CASE SameQuery(x)
  <2>1. PICK h : h = Head(covered[x])
    OBVIOUS
  <2>2. Removes(x, h)' /\ covered'[x] = covered[x] /\ covered[x] # <<>>
    BY <1>1, <2>1, ChangesStay DEF SameQuery, AppendIsMine
  <2> QED  BY <2>1, <2>2 DEF Removes
<1>2. CASE CrashServer
  BY <1>2, CrashDoes
<1>3. CASE UndoPart(x) \/ AddNewPart(x) \/ Truncate(x) \/ \E p \in Parts : WritePart(x, p)
  BY <1>3, UndoPartDoes, AddNewPartDoes, TruncateDoes, WritePartDoes
<1>4. CASE RemoveOldPart(x)
  <2>1. PICK h : h = Head(covered[x])
    OBVIOUS
  <2>2. covered[x] # <<>> /\ h \in Parts /\ covered'[x] = covered[x] /\ removing'[x] = Append(removing[x], h)
    BY <1>4, <2>1, RemoveOldPartDoes
  <2>3. h \in Range(removing'[x])
    BY <2>2, Types, SequenceFacts DEF Stepping
  <2> QED  BY <2>1, <2>2, <2>3 DEF Removes
<1>5. CASE AppendRemoval(x) \/ SkipRolledBack(x) \/ TruncateEnds(x) \/ ActivatePart(x)
  BY <1>5, AppendRemovalDoes, SkipRolledBackDoes, TruncateEndsDoes, ActivatePartDoes
<1>6. CASE NoQuery(x)
  BY <1>6 DEF NoQuery, AtQueries
<1> QED  BY <1>1, <1>2, <1>3, <1>4, <1>5, <1>6, QueryChanges DEF LockedStep

LEMMA AppendingFacts ==
  ASSUME Base, NEW x \in Txns, KillWaits(x), AppendIsMine(x), client[x] = "append", NEW p, p = Head(covered[x])
  PROVE  /\ p \in Parts /\ Removes(x, p) /\ Holding(x) = removing[x] /\ p \in Range(Holding(x)) /\ HasBegun(x)
         /\ version[p].removal_tid = tid[x] /\ Present(p) /\ finish[x] # "unlock"
<1>1. Removes(x, p) /\ Locking(x) /\ HasBegun(x)
  BY DEF AppendIsMine, Locking, HasBegun
<1>2. ~IsReadOnly(x)
  BY <1>1, EmptyRange DEF IsReadOnly, Removes
<1>3. finish[x] \notin {"clear", "unlock", "release", "done"}
  BY <1>1, <1>2 DEF KillWaits
<1>4. Holding(x) = removing[x]
  BY <1>3 DEF Holding
<1>5. p \in Range(Holding(x))
  BY <1>1, <1>4 DEF Removes
<1>6. p \in Parts /\ version[p].removal_tid = tid[x] /\ Present(p)
  BY <1>5, HeldIsPresent DEF Base, TableInv
<1> QED  BY <1>1, <1>3, <1>4, <1>5, <1>6

-----------------------------------------------------------------------------
(* Which parts a transaction keeps locked. *)

LEMMA TreatedIsHeld ==
  ASSUME Base, NEW x \in Txns, NEW p, Treats(x, p), finish[x] \in {"stamp_removed", "clear", "unlock", "activate"}
  PROVE  p \in Range(Holding(x)) /\ p \in Parts /\ version[p].removal_tid = tid[x] /\ Present(p) /\ HasBegun(x)
<1>1. p \in Range(todo[x]) /\ p \in Range(removing[x])
  BY TreatedFacts DEF Treats, Phases
<1>2. p \in Range(Holding(x))
  BY <1>1 DEF Holding
<1> QED  BY <1>2, HeldIsPresent DEF Base, TableInv, HasBegun

LEMMA HoldingGrows ==
  ASSUME Stepping, NEW x \in Txns, NEW p, p \in Range(Holding(x)')
  PROVE  p \in Range(Holding(x)) \/ (RemoveOldPart(x) /\ p = Head(covered[x]) /\ client'[x] = "append" /\ covered'[x] = covered[x])
<1>b. Base /\ todo[x] \in Seq(Parts) /\ removing[x] \in Seq(Parts)
  BY Types DEF Stepping
<1>e. Range(<<>>) = {}
  BY EmptyRange
<1>1. CASE removing'[x] # removing[x]
  <2>h. PICK h : h = Head(covered[x])
    OBVIOUS
  <2>1. RemoveOldPart(x) /\ Range(removing'[x]) = Range(removing[x]) \cup {h}
    BY <1>1, <2>h, ChangesGrow
  <2>2. csn[x] = UnknownCSN /\ client[x] = "remove" /\ client'[x] = "append" /\ covered'[x] = covered[x] /\ SameEnd(x)
    BY <1>1, <2>1, <2>h, RemoveOldPartDoes
  <2>3. finish[x] = None /\ finish'[x] = None
    BY <1>b, <2>2 DEF SameEnd, Base, TxnInv, Outcome
  <2>4. Holding(x) = removing[x] /\ Holding(x)' = removing'[x]
    BY <2>3 DEF Holding, None
  <2> QED  BY <2>1, <2>2, <2>4, <2>h
<1>2. CASE removing'[x] = removing[x]
  <2>1. CASE SameEnd(x)
    BY <1>2, <2>1 DEF SameEnd, Holding
  <2>2. CASE CrashServer
    <3>1. client[x] = "idle" => removing[x] = <<>>
      BY <1>b DEF Base, TxnInv, Outcome, IsReadOnly
    <3>2. Holding(x)' = <<>>
      <4>1. CASE client[x] = "idle"
        <5>1. finish'[x] = None /\ removing'[x] = <<>>
          BY <1>2, <2>2, <3>1, <4>1, CrashDoes
        <5> QED  BY <5>1 DEF Holding, None
      <4>2. CASE client[x] # "idle"
        <5>1. finish'[x] = "done"
          BY <2>2, <4>2, CrashDoes
        <5> QED  BY <5>1 DEF Holding
      <4> QED  BY <4>1, <4>2
    <3> QED  BY <1>e, <3>2
  <2>3. CASE Deciding(x)
    <3>1. CASE Begin(x) \/ ClientRollsBack(x) \/ Kill(x) \/ RollBackUnknownState(x)
      <4>1. SameEnd(x) \/ finish[x] \in {None, "unguarded"}
        BY <3>1, BeginDoes, RollbackStarts
      <4>2. finish[x] \in {None, "unguarded"} => Holding(x) = removing[x]
        BY DEF Holding, None
      <4>3. finish[x] \in {None, "unguarded"} /\ ~SameEnd(x) => finish'[x] = "mark"
        BY <3>1, BeginDoes, RollbackStarts
      <4>4. finish'[x] = "mark" => Holding(x)' = removing'[x]
        BY DEF Holding
      <4> QED  BY <1>2, <2>1, <4>1, <4>2, <4>3, <4>4
    <3>2. CASE BeforeCommit(x) \/ Commit(x) \/ CommitLost(x) \/ Postpone(x) \/ CommitRefused(x)
      <4>1. SameEnd(x) \/ finish[x] = None
        BY <3>2, BeforeCommitDoes, CommitDoes, PostponeDoes, CommitRefusedDoes
      <4>2. finish[x] = None => Holding(x) = removing[x]
        BY DEF Holding, None
      <4>3. Range(Holding(x)') \subseteq Range(removing'[x]) \/ SameEnd(x)
        <5>1. SameEnd(x) \/ finish'[x] \in {None, "committed", "unknown"}
          BY <3>2, BeforeCommitDoes, CommitDoes, PostponeDoes, CommitRefusedDoes DEF Goes
        <5> QED  BY <5>1 DEF Holding, None
      <4> QED  BY <1>2, <2>1, <4>1, <4>2, <4>3
    <3>3. CASE DecideUnknownState(x) \/ AfterCommit(x)
      <4>1. finish[x] \in {"unknown", "committed"} /\ finish'[x] \in {"committed", "unguarded", "stamp_created"}
        BY <3>3, DecideDoes, AfterCommitDoes
      <4> QED  BY <1>2, <4>1 DEF Holding
    <3>4. CASE Release(x)
      BY <1>e, <3>4, ReleaseDoes DEF Holding
    <3> QED  BY <2>3, <3>1, <3>2, <3>3, <3>4 DEF Deciding
  <2>4. CASE Treating(x)
    <3>1. CASE StampCreated(x) \/ MarkRolledBack(x) \/ OutdateCreated(x)
      <4>1. /\ finish[x] \in {"stamp_created", "mark", "outdate"}
            /\ finish'[x] \in {"stamp_created", "mark", "outdate", "stamp_removed", "activate"}
        BY <3>1, StampCreatedDoes, MarkRolledBackDoes, OutdateCreatedDoes DEF NextPhaseIs, NextPartIs
      <4> QED  BY <1>2, <4>1 DEF Holding
    <3>2. CASE StampRemoved(x)
      <4>1. finish[x] = "stamp_removed" /\ finish'[x] \in {"stamp_removed", "release"}
        BY <3>2, StampRemovedDoes DEF NextPhaseIs, NextPartIs
      <4> QED  BY <1>2, <1>e, <4>1 DEF Holding
    <3>3. CASE RestoreRemoved(x)
      <4>1. finish[x] = "activate" /\ (finish'[x] = "activate" \/ (finish'[x] = "clear" /\ todo'[x] = removing[x]))
        BY <3>3, RestoreRemovedDoes DEF NextPhaseIs, NextPartIs
      <4> QED  BY <1>2, <4>1 DEF Holding
    <3>4. CASE ClearRemoved(x)
      <4>1. finish[x] = "clear" /\ (finish'[x] = "release" \/ (finish'[x] = "unlock" /\ todo'[x] = todo[x]))
        BY <3>4, ClearRemovedDoes DEF NextPhaseIs
      <4> QED  BY <1>2, <1>e, <4>1 DEF Holding
    <3>5. CASE UnlockRemoved(x)
      <4>1. finish[x] = "unlock" /\ finish'[x] = "clear" /\ todo'[x] = Tail(todo[x]) /\ todo[x] # <<>>
        BY <3>5, UnlockRemovedDoes
      <4>2. Range(Tail(todo[x])) \subseteq Range(todo[x])
        BY <1>b, <4>1, SequenceFacts
      <4> QED  BY <1>2, <4>1, <4>2 DEF Holding
    <3> QED  BY <2>4, <3>1, <3>2, <3>3, <3>4, <3>5 DEF Treating
  <2> QED  BY <2>1, <2>2, <2>3, <2>4, EndChanges
<1> QED  BY <1>1, <1>2

-----------------------------------------------------------------------------
LEMMA HoldingShrinks ==
  ASSUME Stepping, NEW x \in Txns, NEW p, p \in Range(Holding(x)), p \notin Range(Holding(x)')
  PROVE  CrashServer \/ IsCommitted(x) \/ (UnlockRemoved(x) /\ Treats(x, p))
<1>b. Base /\ todo[x] \in Seq(Parts) /\ removing[x] \in Seq(Parts)
  BY Types DEF Stepping
<1>e. Range(<<>>) = {}
  BY EmptyRange
<1>m. p \in Range(removing[x])
  BY <1>b, <1>e DEF Holding, Base, TableInv, PartInv, RemovedIsLocked, TodoIsMine
<1>r. p \in Range(removing'[x])
  BY <1>m, ChangesStay DEF Removes
<1>o. Outcome(x)
  BY <1>b DEF Base, TxnInv
<1>1. CASE SameEnd(x)
  BY <1>1, <1>r DEF SameEnd, Holding
<1>2. CASE Deciding(x)
  <2>1. CASE finish'[x] \notin {"clear", "unlock", "release", "done"}
    BY <1>r, <2>1 DEF Holding
  <2>2. CASE Begin(x) \/ ClientRollsBack(x) \/ Kill(x) \/ RollBackUnknownState(x)
    BY <1>1, <2>1, <2>2, BeginDoes, RollbackStarts
  <2>3. CASE BeforeCommit(x) \/ Commit(x) \/ CommitLost(x) \/ Postpone(x) \/ CommitRefused(x)
    <3>1. SameEnd(x) \/ finish'[x] \in {None, "committed", "unknown"}
      BY <2>3, BeforeCommitDoes, CommitDoes, PostponeDoes, CommitRefusedDoes DEF Goes
    <3> QED  BY <1>1, <2>1, <3>1 DEF None
  <2>4. CASE DecideUnknownState(x) \/ AfterCommit(x)
    BY <2>1, <2>4, DecideDoes, AfterCommitDoes
  <2>5. CASE Release(x)
    BY <1>e, <2>5, ReleaseDoes DEF Holding
  <2> QED  BY <1>2, <2>2, <2>3, <2>4, <2>5 DEF Deciding
<1>3. CASE Treating(x)
  <2>0. removing'[x] = removing[x]
    BY <1>3, TreatingKeeps DEF SameChanges
  <2>1. CASE finish'[x] \notin {"clear", "unlock", "release", "done"}
    BY <1>r, <2>1 DEF Holding
  <2>2. CASE StampCreated(x) \/ MarkRolledBack(x) \/ OutdateCreated(x)
    <3>1. finish'[x] \in {"stamp_created", "mark", "outdate", "stamp_removed", "activate"}
      BY <2>2, StampCreatedDoes, MarkRolledBackDoes, OutdateCreatedDoes DEF NextPhaseIs, NextPartIs
    <3> QED  BY <2>1, <3>1
  <2>3. CASE StampRemoved(x)
    <3>1. finish[x] = "stamp_removed"
      BY <2>3, StampRemovedDoes
    <3>2. ~IsReadOnly(x)
      BY <1>e, <1>m DEF IsReadOnly
    <3>3. IsCommitted(x)
      BY <1>o, <3>1, <3>2 DEF Outcome, IsCommitted
    <3> QED  BY <3>3
  <2>4. CASE RestoreRemoved(x)
    <3>1. finish'[x] = "activate" \/ (finish'[x] = "clear" /\ todo'[x] = removing[x])
      BY <2>4, RestoreRemovedDoes DEF NextPhaseIs, NextPartIs
    <3> QED  BY <1>m, <2>1, <3>1 DEF Holding
  <2>5. CASE ClearRemoved(x)
    <3>1. /\ finish[x] = "clear"
          /\ (todo[x] = <<>> /\ finish'[x] = "release") \/ (finish'[x] = "unlock" /\ todo'[x] = todo[x])
      BY <2>5, ClearRemovedDoes DEF NextPhaseIs
    <3> QED  BY <1>e, <3>1 DEF Holding
  <2>6. CASE UnlockRemoved(x)
    <3>1. finish[x] = "unlock" /\ finish'[x] = "clear" /\ todo'[x] = Tail(todo[x]) /\ todo[x] # <<>>
      BY <2>6, UnlockRemovedDoes
    <3>2. p \in Range(todo[x]) /\ p \notin Range(Tail(todo[x]))
      BY <3>1 DEF Holding
    <3>3. p = Head(todo[x])
      BY <1>b, <3>1, <3>2, HeadAndTail
    <3> QED  BY <2>6, <3>1, <3>3 DEF Treats
  <2> QED  BY <1>3, <2>2, <2>3, <2>4, <2>5, <2>6 DEF Treating
<1> QED  BY <1>1, <1>2, <1>3, EndChanges

(* How a rollback comes to unlock a part, and goes on from there. *)
LEMMA UnlockStarts ==
  ASSUME Stepping, NEW x \in Txns, finish'[x] = "unlock"
  PROVE  SameEnd(x) \/ (ClearRemoved(x) /\ todo'[x] = todo[x] /\ todo[x] # <<>>)
<1>1. CASE CrashServer
  BY <1>1, CrashDoes DEF None
<1>2. CASE Deciding(x)
  <2>1. CASE Begin(x) \/ ClientRollsBack(x) \/ Kill(x) \/ RollBackUnknownState(x)
    BY <2>1, BeginDoes, RollbackStarts
  <2>2. CASE BeforeCommit(x) \/ Commit(x) \/ CommitLost(x) \/ Postpone(x) \/ CommitRefused(x)
    <3>1. SameEnd(x) \/ finish'[x] \in {None, "committed", "unknown"}
      BY <2>2, BeforeCommitDoes, CommitDoes, PostponeDoes, CommitRefusedDoes DEF Goes
    <3> QED  BY <3>1 DEF None
  <2>3. CASE DecideUnknownState(x) \/ AfterCommit(x) \/ Release(x)
    BY <2>3, DecideDoes, AfterCommitDoes, ReleaseDoes
  <2> QED  BY <1>2, <2>1, <2>2, <2>3 DEF Deciding
<1>3. CASE Treating(x)
  <2>1. CASE ~ClearRemoved(x)
    <3>1. finish'[x] \in {"stamp_created", "mark", "outdate", "stamp_removed", "activate", "release", "clear"}
      BY <1>3, <2>1, StampCreatedDoes, StampRemovedDoes, MarkRolledBackDoes, OutdateCreatedDoes, RestoreRemovedDoes,
         UnlockRemovedDoes DEF Treating, NextPhaseIs, NextPartIs
    <3> QED  BY <3>1
  <2>2. CASE ClearRemoved(x)
    BY <2>2, ClearRemovedDoes DEF NextPhaseIs
  <2> QED  BY <2>1, <2>2
<1> QED  BY <1>1, <1>2, <1>3, EndChanges

LEMMA UnlockEnds ==
  ASSUME Stepping, NEW x \in Txns, finish[x] = "unlock"
  PROVE  SameEnd(x) \/ CrashServer \/ UnlockRemoved(x)
<1>0. csn[x] = RolledBackCSN
  BY DEF Stepping, Base, TxnInv, Outcome, Rollback
<1>1. csn[x] # UnknownCSN /\ csn[x] # CommittingCSN
  BY <1>0, CSNFacts
<1>2. CASE Deciding(x)
  <2>1. CASE Begin(x) \/ ClientRollsBack(x) \/ Kill(x) \/ RollBackUnknownState(x)
    BY <1>1, <2>1, BeginDoes, RollbackStarts
  <2>2. CASE BeforeCommit(x) \/ Commit(x) \/ CommitLost(x) \/ Postpone(x) \/ CommitRefused(x)
    BY <1>1, <2>2, BeforeCommitDoes, CommitDoes, PostponeDoes, CommitRefusedDoes
  <2>3. CASE DecideUnknownState(x) \/ AfterCommit(x) \/ Release(x)
    BY <2>3, DecideDoes, AfterCommitDoes, ReleaseDoes
  <2> QED  BY <1>2, <2>1, <2>2, <2>3 DEF Deciding
<1>3. CASE Treating(x)
  BY <1>3, StampCreatedDoes, StampRemovedDoes, MarkRolledBackDoes, OutdateCreatedDoes, RestoreRemovedDoes,
     ClearRemovedDoes DEF Treating
<1> QED  BY <1>2, <1>3, EndChanges

(* A transaction becomes committed when its entry is created. *)
LEMMA CommitStarts ==
  ASSUME Stepping, NEW x \in Txns, IsCommitted(x)', ~IsCommitted(x)
  PROVE  Commit(x) \/ CommitLost(x)
<1>1. CASE Idles
  BY <1>1 DEF Idles, Same, SameLife
<1>2. CASE CrashServer
  BY <1>2, CrashDoes
<1>3. ASSUME NEW p \in Parts, GrabOldPart(p) \/ LoadPart(p) PROVE FALSE
  BY <1>3, GrabOldPartDoes, LoadPartDoes DEF Same, SameLife
<1>4. ASSUME NEW y \in Txns, \/ (\E p \in Parts : WritePart(y, p)) \/ AddNewPart(y) \/ Truncate(y) \/ UndoPart(y) \/ Treating(y)
      PROVE  FALSE
  <2>1. SameLife(y) /\ Others(y)
    BY <1>4, WritePartDoes, AddNewPartDoes, TruncateDoes, UndoPartDoes, TreatingKeeps
  <2> QED  BY <2>1 DEF Others, Same, SameLife
<1>5. ASSUME NEW y \in Txns, LockedStep(y) PROVE FALSE
  <2>1. SameLife(y) /\ Others(y)
    BY <1>5, RemoveOldPartDoes, AppendRemovalDoes, SkipRolledBackDoes, TruncateEndsDoes, ActivatePartDoes DEF LockedStep
  <2> QED  BY <2>1 DEF Others, Same, SameLife
<1>6. ASSUME NEW y \in Txns, Deciding(y) PROVE Commit(x) \/ CommitLost(x)
  <2>1. x = y
    BY <1>6, DecidingOthers DEF Others, Same, SameLife
  <2>2. CASE Begin(x) \/ ClientRollsBack(x) \/ Kill(x) \/ RollBackUnknownState(x) \/ BeforeCommit(x)
    BY <2>2, BeginDoes, RollbackStarts, BeforeCommitDoes DEF SameLife
  <2>3. CASE Postpone(x) \/ CommitRefused(x)
    BY <2>3, PostponeDoes, CommitRefusedDoes DEF SameLife
  <2>4. CASE DecideUnknownState(x) \/ AfterCommit(x) \/ Release(x)
    BY <2>4, DecideDoes, AfterCommitDoes, ReleaseDoes DEF SameLife
  <2> QED  BY <1>6, <2>1, <2>2, <2>3, <2>4 DEF Deciding
<1> QED  BY <1>1, <1>2, <1>3, <1>4, <1>5, <1>6, StepCases

-----------------------------------------------------------------------------
(* Whom a part and its file name as the one who removes it. *)
LockIsNamed(x, p) ==
  HasBegun(x) /\ version[p].removal_tid = tid[x] => Removes(x, p) /\ (IsCommitted(x) \/ p \in Range(Holding(x)))
FileLockIsNamed(x, p) ==
  HasBegun(x) /\ file[p].removal_tid = tid[x] =>
    /\ Removes(x, p)
    /\ p \in loaded => version[p].removal_tid = tid[x] /\ ~(finish[x] = "unlock" /\ p = Head(todo[x]))
HeldIsInFile(x, p) == p \in Range(Holding(x)) /\ ~ChangesRemoval(x, p) => file[p].removal_tid = tid[x]
RemovalIsFinal(x, p) ==
  Removes(x, p) /\ IsCommitted(x) =>
    /\ p \in on_disk => file[p].removal_tid = tid[x]
    /\ state[p] # None => version[p].removal_tid = tid[x]
PreparedIsInMemory(p) ==
  /\ file[p].removal_tid # PrehistoricTID
  /\ version[p].removal_tid = PrehistoricTID => file[p].removal_tid = EmptyTID

Removals ==
  /\ \A x \in Txns : KillWaits(x) /\ AppendIsMine(x)
  /\ \A x \in Txns : \A p \in Parts :
       LockIsNamed(x, p) /\ FileLockIsNamed(x, p) /\ HeldIsInFile(x, p) /\ RemovalIsFinal(x, p)
  /\ \A p \in Parts : PreparedIsInMemory(p)

(* What loading makes of the name of a removal. *)
LEMMA LoadedRemoval ==
  ASSUME Stepping, NEW p \in Parts, LoadPart(p), p \in loaded', NEW t, t \notin {EmptyTID, PrehistoricTID},
         version'[p].removal_tid = t \/ file'[p].removal_tid = t
  PROVE  /\ file[p].removal_tid = t /\ version'[p].removal_tid = t /\ file'[p].removal_tid = t
         /\ FixedFileOf(p).removal_csn # UnknownCSN /\ FixedFileOf(p).removal_tid = t
<1>0. Base /\ p \in on_disk /\ p \notin loaded /\ alive
  BY LoadPartDoes DEF Stepping
<1>1. FixedFileOf(p).removal_tid = t
  BY LoadedFacts, NoMetadataFacts
<1>2. file[p] # NoMetadata /\ FileOf(p) = file[p]
  BY <1>0, <1>1, FileFacts, PrehistoricFacts
<1>3. FileOf(p).removal_tid = t /\ FixedFileOf(p).removal_csn # UnknownCSN
  BY <1>0, <1>1, FixedFileIs DEF WasInvolvedInTransaction
<1>4. version'[p].removal_tid = t /\ file'[p].removal_tid = t
  BY <1>1, <1>2, LoadedFacts
<1> QED  BY <1>1, <1>2, <1>3, <1>4

LEMMA BegunBefore ==
  ASSUME Stepping, NEW x \in Txns, HasBegun(x)', ~Begin(x)
  PROVE  HasBegun(x) /\ tid'[x] = tid[x]
BY LifeGoesOn

LEMMA NextLockIsNamed ==
  ASSUME Stepping, Names, Removals, NEW x \in Txns, NEW p \in Parts
  PROVE  LockIsNamed(x, p)'
<1> SUFFICES ASSUME HasBegun(x)', version'[p].removal_tid = tid'[x]
             PROVE  Removes(x, p)' /\ (IsCommitted(x)' \/ p \in Range(Holding(x)'))
  BY DEF LockIsNamed
<1>b. Base /\ Base'
  BY DEF Stepping
<1>t. tid'[x] # EmptyTID /\ tid'[x] # PrehistoricTID
  BY <1>b DEF Base, TxnInv, RunningIsUnfinished, HasBegun, TableInv, TIDsAreOwn
<1>n. ~Begin(x)
  <2>1. ASSUME Begin(x) PROVE FALSE
    <3>1. tid'[x] \notin NamedTIDs /\ version' = version
      BY <2>1, BeginDoes, DecidingKeeps DEF Deciding
    <3>2. version[p].removal_tid \in NamedTIDs
      BY <1>b DEF Base, TableInv, PartInv, MetadataIsTrue, NamesAreKnown
    <3> QED  BY <3>1, <3>2
  <2> QED  BY <2>1
<1>h. HasBegun(x) /\ tid'[x] = tid[x]
  BY <1>n, BegunBefore
<1>i. LockIsNamed(x, p) /\ FileLockIsNamed(x, p)
  BY DEF Removals
<1>1. CASE version'[p].removal_tid = version[p].removal_tid
  <2>1. Removes(x, p) /\ (IsCommitted(x) \/ p \in Range(Holding(x)))
    BY <1>h, <1>i, <1>1 DEF LockIsNamed
  <2>2. Removes(x, p)' /\ (IsCommitted(x) => IsCommitted(x)')
    BY <2>1, ChangesStay, LifeGoesOn
  <2>3. CASE p \in Range(Holding(x)) /\ p \notin Range(Holding(x)') /\ ~IsCommitted(x)
    <3>1. CASE CrashServer
      BY <1>t, <3>1, CrashDoes, NoMetadataFacts
    <3>2. CASE UnlockRemoved(x) /\ Treats(x, p)
      BY <1>t, <3>2, UnlockRemovedDoes DEF Treats, LocksFor
    <3> QED  BY <2>3, <3>1, <3>2, HoldingShrinks
  <2> QED  BY <2>1, <2>2, <2>3
<1>2. CASE CrashServer
  BY <1>t, <1>2, CrashDoes, NoMetadataFacts
<1>3. CASE GrabOldPart(p)
  <2>1. Kept(p) \/ version'[p] = NoMetadata
    BY <1>3, GrabOldPartDoes DEF AllKept
  <2> QED  BY <1>t, <1>1, <2>1, NoMetadataFacts DEF Kept, SameNames
<1>4. CASE LoadPart(p)
  <2>1. CASE p \notin loaded'
    <3>1. version' = version
      BY <1>4, <2>1, LoadPartDoes
    <3> QED  BY <1>1, <3>1
  <2>2. CASE p \in loaded'
    <3>1. file[p].removal_tid = tid[x] /\ FixedFileOf(p).removal_csn # UnknownCSN /\ version'[p].removal_csn = FixedFileOf(p).removal_csn
      BY <1>4, <1>t, <1>h, <2>2, LoadedRemoval, LoadedFacts
    <3>2. Removes(x, p)'
      BY <1>h, <1>i, <3>1, ChangesStay DEF FileLockIsNamed
    <3>3. MetadataIsTrue'
      BY <1>b DEF Base, TableInv, PartInv
    <3>4. TrueMetadata(version[p])'
      BY <3>3 DEF MetadataIsTrue
    <3>5. TrueRemoval(version[p].removal_tid, version[p].removal_csn)'
      BY <3>4 DEF TrueMetadata
    <3>6. version'[p].removal_csn # UnknownCSN
      BY <3>1
    <3>7. [csn |-> version'[p].removal_csn, tid |-> tid'[x]] \in committed'
      BY <1>t, <3>5, <3>6 DEF TrueRemoval
    <3>8. IsCommitted(x)'
      BY <3>7 DEF IsCommitted
    <3> QED  BY <3>2, <3>8
  <2> QED  BY <2>1, <2>2
<1>5. ASSUME NEW y \in Txns, WritePart(y, p) PROVE FALSE
  <2>1. version'[p] = MetadataOf(tid[y]) /\ tid[y] \in TIDs
    BY <1>5, <1>b, WritePartDoes, Types
  <2> QED  BY <1>t, <2>1, MetadataOfFacts
<1>6. ASSUME NEW y \in Txns, RemoveOldPart(y), p = Head(covered[y]) 
      PROVE  (Removes(x, p)' /\ p \in Range(Holding(x)')) \/ version' = version
  <2>1. \/ version' = version
        \/ csn[y] = UnknownCSN /\ LocksFor(p, tid[y]) /\ removing'[y] = Append(removing[y], p) /\ client'[y] = "append"
    BY <1>6, RemoveOldPartDoes
  <2>2. CASE csn[y] = UnknownCSN /\ LocksFor(p, tid[y]) /\ removing'[y] = Append(removing[y], p) /\ client'[y] = "append"
    <3>1. x = y
      BY <1>b, <1>h, <2>2, BegunFacts DEF LocksFor
    <3>0. removing[x] \in Seq(Parts)
      BY <1>b, Types
    <3>a. Range(Append(removing[x], p)) = Range(removing[x]) \cup {p}
      BY <3>0, SequenceFacts
    <3>2. p \in Range(removing'[x])
      BY <2>2, <3>1, <3>a
    <3>3. SameEnd(x) /\ client[x] = "remove"
      BY <1>6, <3>1, RemoveOldPartDoes
    <3>4. finish'[x] = None
      BY <1>b, <2>2, <3>1, <3>3 DEF SameEnd, Base, TxnInv, Outcome
    <3> QED  BY <3>2, <3>4 DEF Holding, None, Removes
  <2> QED  BY <2>1, <2>2
<1>7. ASSUME NEW y \in Txns, UnlockRemoved(y), Treats(y, p) PROVE FALSE
  BY <1>t, <1>7, UnlockRemovedDoes DEF Treats, LocksFor
<1> QED  BY <1>1, <1>2, <1>3, <1>4, <1>5, <1>6, <1>7, LockChanges

-----------------------------------------------------------------------------
(* Only WritePart puts a part on disk, and only it and LoadPart load one. *)
LEMMA PresenceStarts ==
  ASSUME Stepping, NEW p \in Parts, \A x \in Txns : ~WritePart(x, p)
  PROVE  /\ p \in on_disk' => p \in on_disk
         /\ p \in loaded' => p \in loaded \/ LoadPart(p)
         /\ state'[p] # None => state[p] # None \/ LoadPart(p)
<1>1. CASE Steady(p)
  BY <1>1 DEF Steady
<1>2. CASE CrashServer
  BY <1>2, CrashDoes
<1>3. CASE GrabOldPart(p)
  <2>1. Kept(p) \/ (state'[p] = None /\ on_disk' = on_disk \ {p})
    BY <1>3, GrabOldPartDoes DEF AllKept
  <2>2. loaded' = loaded /\ state[p] = "Outdated"
    BY <1>3, GrabOldPartDoes
  <2> QED  BY <2>1, <2>2 DEF Kept, SameState, None
<1>4. CASE LoadPart(p)
  BY <1>4, LoadPartDoes
<1> QED  BY <1>1, <1>2, <1>3, <1>4, PartIsSteady

LEMMA NextFileLockIsNamed ==
  ASSUME Stepping, Names, Removals, NEW x \in Txns, NEW p \in Parts
  PROVE  FileLockIsNamed(x, p)'
<1> DEFINE Good == Removes(x, p)' /\ (p \in loaded' => version'[p].removal_tid = tid'[x]
                                                       /\ ~(finish'[x] = "unlock" /\ p = Head(todo'[x])))
<1> SUFFICES ASSUME HasBegun(x)', file'[p].removal_tid = tid'[x]
             PROVE  Good
  BY DEF FileLockIsNamed
<1>b. Base /\ Base'
  BY DEF Stepping
<1>t. tid'[x] # EmptyTID /\ tid'[x] # PrehistoricTID
  BY <1>b DEF Base, TxnInv, RunningIsUnfinished, HasBegun, TableInv, TIDsAreOwn
<1>n. ~Begin(x)
  <2>1. ASSUME Begin(x) PROVE FALSE
    <3>1. tid'[x] \notin NamedTIDs /\ file' = file
      BY <2>1, BeginDoes, DecidingKeeps DEF Deciding
    <3>2. file[p].removal_tid \in NamedTIDs
      BY <1>b DEF Base, TableInv, PartInv, MetadataIsTrue, NamesAreKnown
    <3> QED  BY <3>1, <3>2
  <2> QED  BY <2>1
<1>h. HasBegun(x) /\ tid'[x] = tid[x]
  BY <1>n, BegunBefore
<1>f. \A y \in Txns : tid[y] = tid[x] => y = x
  BY <1>b, <1>h, BegunFacts
<1>i. FileLockIsNamed(x, p)
  BY DEF Removals
<1>w. ASSUME NEW y \in Txns, WritePart(y, p) PROVE FALSE
  <2>1. file'[p] = MetadataOf(tid[y]) /\ tid[y] \in TIDs
    BY <1>w, <1>b, WritePartDoes, Types
  <2> QED  BY <1>t, <2>1, MetadataOfFacts
<1>l. CASE LoadPart(p) /\ p \in loaded'
  <2>1. file[p].removal_tid = tid[x] /\ version'[p].removal_tid = tid[x]
    BY <1>l, <1>t, <1>h, LoadedRemoval
  <2>2. Removes(x, p)'
    BY <1>h, <1>i, <2>1, ChangesStay DEF FileLockIsNamed
  <2>3. tid[x] \in OldTIDs
    BY <1>b, <1>l, <2>1, LoadPartDoes DEF Base, TableInv, PartInv, UnloadedIsOld
  <2>4. PICK y \in Txns : IsOld(y) /\ tid[y] = tid[x]
    BY <1>t, <1>h, <2>3 DEF OldTIDs
  <2>5. Ended(x)
    BY <1>f, <2>4 DEF IsOld
  <2>6. finish'[x] = "done"
    BY <2>5, LifeGoesOn DEF Ended
  <2> QED  BY <1>h, <2>1, <2>2, <2>6
<1>1. CASE file'[p].removal_tid = file[p].removal_tid /\ ~(LoadPart(p) /\ p \in loaded')
  <2>1. /\ Removes(x, p)
        /\ p \in loaded => version[p].removal_tid = tid[x] /\ ~(finish[x] = "unlock" /\ p = Head(todo[x]))
    BY <1>h, <1>i, <1>1 DEF FileLockIsNamed
  <2>2. Removes(x, p)'
    BY <2>1, ChangesStay
  <2>3. SUFFICES ASSUME p \in loaded'
                 PROVE  version'[p].removal_tid = tid[x] /\ ~(finish'[x] = "unlock" /\ p = Head(todo'[x]))
    BY <1>h, <2>2
  <2>4. version[p].removal_tid = tid[x] /\ ~(finish[x] = "unlock" /\ p = Head(todo[x]))
    BY <1>1, <1>w, <2>1, <2>3, PresenceStarts
  <2>5. version'[p].removal_tid = tid[x]
    <3>1. CASE CrashServer
      BY <2>3, <3>1, CrashDoes
    <3>2. CASE GrabOldPart(p)
      <4>1. Kept(p) \/ file'[p] = NoMetadata
        BY <3>2, GrabOldPartDoes DEF AllKept
      <4> QED  BY <1>t, <2>4, <4>1, NoMetadataFacts DEF Kept, SameNames
    <3>3. ASSUME NEW y \in Txns, RemoveOldPart(y), p = Head(covered[y]) PROVE version' = version
      BY <1>t, <1>h, <2>4, <3>3, RemoveOldPartDoes
    <3>4. ASSUME NEW y \in Txns, UnlockRemoved(y), Treats(y, p) PROVE FALSE
      <4>1. finish[y] = "unlock"
        BY <3>4 DEF UnlockRemoved
      <4>2. version[p].removal_tid = tid[y]
        BY <1>b, <3>4, <4>1, TreatedIsHeld
      <4> QED  BY <1>f, <2>4, <3>4, <4>1, <4>2 DEF Treats
    <3>5. CASE version'[p].removal_tid = version[p].removal_tid
      BY <2>4, <3>5
    <3> QED  BY <1>1, <1>w, <2>3, <2>4, <3>1, <3>2, <3>3, <3>4, <3>5, LockChanges
  <2>6. ~(finish'[x] = "unlock" /\ p = Head(todo'[x]))
    <3> SUFFICES ASSUME finish'[x] = "unlock", p = Head(todo'[x]) PROVE FALSE
      OBVIOUS
    <3>1. CASE SameEnd(x)
      BY <2>4, <3>1 DEF SameEnd
    <3>2. CASE ClearRemoved(x) /\ todo'[x] = todo[x] /\ todo[x] # <<>>
      <4>1. ClearsLock(p)
        BY <3>2, ClearRemovedDoes
      <4> QED  BY <1>t, <4>1 DEF ClearsLock
    <3> QED  BY <3>1, <3>2, UnlockStarts
  <2> QED  BY <2>5, <2>6
<1>2. ASSUME NEW y \in Txns, AppendRemoval(y), p = Head(covered[y]) PROVE Good
  <2>1. KillWaits(y) /\ AppendIsMine(y) /\ client[y] = "append"
    BY <1>2 DEF Removals, AppendRemoval
  <2>2. version[p].removal_tid = tid[y] /\ Removes(y, p) /\ finish[y] # "unlock"
    BY <1>b, <1>2, <2>1, AppendingFacts
  <2>3. AppendsLock(p) /\ SameEnd(y)
    BY <1>2, AppendRemovalDoes
  <2>4. file'[p].removal_tid = version[p].removal_tid /\ version'[p].removal_tid = version[p].removal_tid
    BY <2>3 DEF AppendsLock, SameRemoval
  <2>5. x = y
    BY <1>f, <1>h, <2>2, <2>4
  <2>6. Removes(x, p)'
    BY <2>2, <2>5, ChangesStay
  <2> QED  BY <1>h, <2>2, <2>3, <2>4, <2>5, <2>6 DEF SameEnd
<1>3. CASE GrabOldPart(p)
  <2>1. Kept(p) \/ file'[p] = NoMetadata
    BY <1>3, GrabOldPartDoes DEF AllKept
  <2>2. file'[p].removal_tid = file[p].removal_tid
    BY <1>t, <2>1, NoMetadataFacts DEF Kept, SameNames
  <2>3. ~LoadPart(p)
    BY <1>b, <1>3, GrabOldPartDoes, LoadPartDoes DEF Base, TableInv, PartInv, PartsArePresent, Present, None
  <2> QED  BY <1>1, <2>2, <2>3
<1>4. CASE LoadPart(p) /\ p \notin loaded'
  <2>1. file' = file
    BY <1>4, LoadPartDoes
  <2> QED  BY <1>1, <1>4, <2>1
<1>5. ASSUME NEW y \in Txns, (StampCreated(y) \/ StampRemoved(y) \/ MarkRolledBack(y)) /\ Treats(y, p)
      PROVE  file'[p].removal_tid = file[p].removal_tid
  <2>1. Kept(p)
    BY <1>5, StampCreatedDoes, StampRemovedDoes, MarkRolledBackDoes DEF Treats, NextPhaseIs, AllKept
  <2> QED  BY <2>1 DEF Kept, SameNames
<1>6. ASSUME NEW y \in Txns, ClearRemoved(y), Treats(y, p) PROVE FALSE
  <2>1. ClearsLock(p)
    BY <1>6, ClearRemovedDoes DEF Treats
  <2> QED  BY <1>t, <2>1 DEF ClearsLock
<1> HIDE DEF Good
<1> QED  BY <1>l, <1>w, <1>1, <1>2, <1>3, <1>4, <1>5, <1>6, FileChanges

-----------------------------------------------------------------------------
LEMMA NextHeldIsInFile ==
  ASSUME Stepping, Names, Removals, NEW x \in Txns, NEW p \in Parts
  PROVE  HeldIsInFile(x, p)'
<1> SUFFICES ASSUME p \in Range(Holding(x)'), ~ChangesRemoval(x, p)'
             PROVE  file'[p].removal_tid = tid'[x]
  BY DEF HeldIsInFile
<1>b. Base /\ Base'
  BY DEF Stepping
<1>1. ~(RemoveOldPart(x) /\ p = Head(covered[x]) /\ client'[x] = "append" /\ covered'[x] = covered[x])
  BY DEF ChangesRemoval
<1>2. p \in Range(Holding(x))
  BY <1>1, HoldingGrows
<1>3. InUse(p) /\ Present(p) /\ HasBegun(x) /\ version[p].removal_tid = tid[x]
  BY <1>b, <1>2, HeldIsPresent DEF Base, TableInv, HasBegun
<1>4. tid'[x] = tid[x]
  BY <1>3, LifeGoesOn
<1>5. ~CrashServer
  <2>1. CASE CrashServer
    <3>1. finish'[x] = "done"
      BY <1>3, <2>1, CrashDoes DEF HasBegun
    <3> QED  BY <3>1, EmptyRange DEF Holding
  <2> QED  BY <2>1
<1>6. CASE client[x] = "append" /\ p = Head(covered[x])
  <2>1. ~SameQuery(x)
    BY <1>6 DEF SameQuery, ChangesRemoval
  <2>2. AppendRemoval(x)
    <3>1. ~AddNewPart(x) /\ ~Truncate(x) /\ ~UndoPart(x) /\ ~NoQuery(x) /\ \A q \in Parts : ~WritePart(x, q)
      BY <1>6, AddNewPartDoes, TruncateDoes, WritePartDoes DEF NoQuery, AtQueries, UndoPart
    <3>2. LockedStep(x)
      BY <1>5, <2>1, <3>1, QueryChanges
    <3> QED  BY <1>6, <3>2 DEF LockedStep, RemoveOldPart, SkipRolledBack, TruncateEnds, ActivatePart
  <2>3. AppendsLock(p)
    BY <1>6, <2>2, AppendRemovalDoes
  <2> QED  BY <1>3, <1>4, <2>3 DEF AppendsLock
<1>7. CASE finish[x] = "unlock" /\ p = Head(todo[x])
  <2>1. ~SameEnd(x)
    BY <1>7 DEF SameEnd, ChangesRemoval
  <2>2. UnlockRemoved(x)
    BY <1>5, <1>7, <2>1, UnlockEnds
  <2>3. todo[x] # <<>> /\ finish'[x] = "clear" /\ todo'[x] = Tail(todo[x])
    BY <2>2, UnlockRemovedDoes
  <2>4. Unique(todo[x]) /\ todo[x] \in Seq(Parts)
    BY <1>b, <1>7, Types DEF Base, TableInv, PartInv, RemovedIsLocked, Holding
  <2>5. p \notin Range(Tail(todo[x]))
    BY <1>7, <2>3, <2>4, UniqueTail
  <2> QED  BY <2>3, <2>5 DEF Holding
<1>8. CASE ~ChangesRemoval(x, p)
  <2>1. file[p].removal_tid = tid[x]
    BY <1>2, <1>8 DEF Removals, HeldIsInFile
  <2>2. CASE GrabOldPart(p)
    <3>1. Kept(p)
      BY <1>3, <2>2, GrabOldPartDoes DEF AllKept
    <3> QED  BY <1>4, <2>1, <3>1 DEF Kept, SameNames
  <2>3. ~LoadPart(p) /\ \A y \in Txns : ~WritePart(y, p)
    BY <1>3, LoadPartDoes, WritePartDoes DEF Present
  <2>4. ASSUME NEW y \in Txns, AppendRemoval(y), p = Head(covered[y]) PROVE file'[p].removal_tid = tid[x]
    <3>1. AppendsLock(p)
      BY <2>4, AppendRemovalDoes
    <3> QED  BY <1>3, <3>1 DEF AppendsLock
  <2>5. ASSUME NEW y \in Txns, (StampCreated(y) \/ StampRemoved(y) \/ MarkRolledBack(y)) /\ Treats(y, p)
        PROVE  file'[p].removal_tid = tid[x]
    <3>1. Kept(p)
      BY <2>5, StampCreatedDoes, StampRemovedDoes, MarkRolledBackDoes DEF Treats, NextPhaseIs, AllKept
    <3> QED  BY <2>1, <3>1 DEF Kept, SameNames
  <2>6. ASSUME NEW y \in Txns, ClearRemoved(y), Treats(y, p) PROVE FALSE
    <3>1. finish[y] = "clear" /\ todo[y] # <<>> /\ finish'[y] = "unlock" /\ todo'[y] = todo[y]
      BY <2>6, ClearRemovedDoes DEF Treats
    <3>2. p \in Range(Holding(y))
      BY <1>b, <2>6, <3>1, TreatedIsHeld
    <3>3. x = y
      BY <1>b, <1>2, <3>2, OneHolder DEF Base, TableInv
    <3> QED  BY <2>6, <3>1, <3>3 DEF Treats, ChangesRemoval
  <2>7. file'[p] = file[p] => file'[p].removal_tid = tid[x]
    BY <2>1
  <2> QED  BY <1>4, <2>2, <2>3, <2>4, <2>5, <2>6, <2>7, FileChanges
<1> QED  BY <1>6, <1>7, <1>8 DEF ChangesRemoval

(* A committed removal survives that the part is loaded again. *)
LEMMA LoadedCommittedRemoval ==
  ASSUME Stepping, NEW p \in Parts, LoadPart(p), p \in loaded', NEW x \in Txns, IsCommitted(x),
         file[p].removal_tid = tid[x]
  PROVE  version'[p].removal_tid = tid[x] /\ file'[p].removal_tid = tid[x]
<1>b. Base /\ p \in on_disk /\ p \notin loaded /\ alive /\ HasBegun(x) /\ ~Doomed(x)
  BY LoadPartDoes, CommittedFacts DEF Stepping
<1>t. tid[x] # EmptyTID /\ tid[x] # PrehistoricTID
  BY <1>b, BegunFacts
<1>1. file[p] # NoMetadata
  BY <1>t, NoMetadataFacts
<1>2. FileOf(p) = file[p]
  BY <1>b, <1>1, FileFacts
<1>3. WasInvolvedInTransaction(FileOf(p))
  BY <1>t, <1>2 DEF WasInvolvedInTransaction
<1>4. ~LookupThrows(tid[x], file[p].removal_csn)
  BY <1>t, <1>2, <1>3, LoadedFacts DEF LoadThrows
<1>5. StoredOrFound(tid[x], file[p].removal_csn) # UnknownCSN
  <2> SUFFICES ASSUME StoredOrFound(tid[x], file[p].removal_csn) = UnknownCSN PROVE FALSE
    OBVIOUS
  <2>0. file[p].removal_csn \in CSNs
    BY <1>b, Types, MetadataFacts
  <2>1. file[p].removal_csn = UnknownCSN /\ GetCSN(tid[x]) = UnknownCSN
    BY <1>b, <2>0, StoredOrFoundFacts DEF Base
  <2>2. tid[x] \in OldTIDs
    BY <1>b DEF Base, TableInv, PartInv, UnloadedIsOld
  <2>3. tid[x] \in DoomedTIDs
    BY <1>b, <1>4, <2>1, <2>2, NotFoundIsDoomed DEF Base
  <2>4. \A e \in committed : e.tid # tid[x]
    BY <1>b, <2>3, DoomedHasNoCSN DEF Base, TableInv
  <2> QED  BY <2>4 DEF IsCommitted
<1>6. FixedFileOf(p).removal_tid = tid[x]
  BY <1>b, <1>2, <1>3, <1>5, FixedFileIs
<1> QED  BY <1>t, <1>1, <1>6, LoadedFacts

LEMMA NextRemovalIsFinal ==
  ASSUME Stepping, Names, Removals, NEW x \in Txns, NEW p \in Parts
  PROVE  RemovalIsFinal(x, p)'
<1> SUFFICES ASSUME Removes(x, p)', IsCommitted(x)'
             PROVE  /\ p \in on_disk' => file'[p].removal_tid = tid'[x]
                    /\ state'[p] # None => version'[p].removal_tid = tid'[x]
  BY DEF RemovalIsFinal
<1>b. Base /\ Base'
  BY DEF Stepping
<1>1. CASE IsCommitted(x)
  <2>0. HasBegun(x) /\ ~Locking(x) /\ finish[x] \notin Rollback
    BY <1>b, <1>1, CommittedFacts
  <2>1. tid'[x] = tid[x] /\ tid[x] # EmptyTID /\ \A y \in Txns : tid[y] = tid[x] => y = x
    BY <1>b, <2>0, LifeGoesOn, BegunFacts
  <2>2. Removes(x, p)
    BY <2>0, ChangesStay DEF Locking, RemoveOldPart
  <2>3. Known(p)
    BY <2>2 DEF Names, PartIsKnown
  <2>4. \A y \in Txns : ~WritePart(y, p)
    BY <2>3, NewIsUnknown
  <2>5. (p \in on_disk => file[p].removal_tid = tid[x]) /\ (state[p] # None => version[p].removal_tid = tid[x])
    BY <1>1, <2>2 DEF Removals, RemovalIsFinal
  <2>6. CASE LoadPart(p) /\ p \in loaded'
    <3>1. p \in on_disk
      BY <2>6, LoadPartDoes
    <3>2. version'[p].removal_tid = tid[x] /\ file'[p].removal_tid = tid[x]
      BY <1>1, <2>5, <2>6, <3>1, LoadedCommittedRemoval
    <3> QED  BY <2>1, <3>2
  <2>7. CASE LoadPart(p) /\ p \notin loaded'
    <3>1. UNCHANGED <<version, file, state>> /\ on_disk' = on_disk
      BY <2>7, LoadPartDoes
    <3> QED  BY <2>1, <2>5, <3>1
  <2>8. CASE GrabOldPart(p)
    <3>1. (Kept(p) /\ on_disk' = on_disk) \/ (state'[p] = None /\ p \notin on_disk')
      BY <2>8, GrabOldPartDoes DEF AllKept
    <3> QED  BY <2>1, <2>5, <3>1 DEF Kept, SameNames, SameState
  <2>9. CASE ~LoadPart(p) /\ ~GrabOldPart(p)
    <3>1. ASSUME p \in on_disk' PROVE file'[p].removal_tid = tid[x]
      <4>1. file[p].removal_tid = tid[x]
        BY <2>4, <2>5, <3>1, PresenceStarts
      <4>2. ASSUME NEW y \in Txns, AppendRemoval(y), p = Head(covered[y]) PROVE file'[p].removal_tid = tid[x]
        <5>1. KillWaits(y) /\ AppendIsMine(y) /\ client[y] = "append"
          BY <4>2 DEF Removals, AppendRemoval
        <5>2. state[p] # None
          BY <1>b, <4>2, <5>1, AppendingFacts DEF Present
        <5>3. AppendsLock(p)
          BY <4>2, AppendRemovalDoes
        <5> QED  BY <2>5, <5>2, <5>3 DEF AppendsLock
      <4>3. ASSUME NEW y \in Txns, (StampCreated(y) \/ StampRemoved(y) \/ MarkRolledBack(y)) /\ Treats(y, p)
            PROVE  file'[p].removal_tid = tid[x]
        <5>1. Kept(p)
          BY <4>3, StampCreatedDoes, StampRemovedDoes, MarkRolledBackDoes DEF Treats, NextPhaseIs, AllKept
        <5> QED  BY <4>1, <5>1 DEF Kept, SameNames
      <4>4. ASSUME NEW y \in Txns, ClearRemoved(y), Treats(y, p) PROVE FALSE
        <5>1. finish[y] = "clear"
          BY <4>4 DEF ClearRemoved
        <5>2. version[p].removal_tid = tid[y] /\ state[p] # None
          BY <1>b, <4>4, <5>1, TreatedIsHeld DEF Present
        <5>3. x = y
          BY <2>1, <2>5, <5>2
        <5> QED  BY <2>0, <5>1, <5>3 DEF Rollback
      <4>5. file'[p] = file[p] => file'[p].removal_tid = tid[x]
        BY <4>1
      <4> QED  BY <2>4, <2>9, <4>2, <4>3, <4>4, <4>5, FileChanges
    <3>2. ASSUME state'[p] # None PROVE version'[p].removal_tid = tid[x]
      <4>1. state[p] # None /\ version[p].removal_tid = tid[x]
        BY <2>4, <2>5, <2>9, <3>2, PresenceStarts
      <4>2. ~CrashServer
        BY <3>2, CrashDoes
      <4>3. ASSUME NEW y \in Txns, RemoveOldPart(y), p = Head(covered[y]) PROVE version' = version
        BY <2>1, <4>1, <4>3, RemoveOldPartDoes
      <4>4. ASSUME NEW y \in Txns, UnlockRemoved(y), Treats(y, p) PROVE FALSE
        <5>1. finish[y] = "unlock"
          BY <4>4 DEF UnlockRemoved
        <5>2. version[p].removal_tid = tid[y]
          BY <1>b, <4>4, <5>1, TreatedIsHeld
        <5>3. x = y
          BY <2>1, <4>1, <5>2
        <5> QED  BY <2>0, <5>1, <5>3 DEF Rollback
      <4> QED  BY <2>4, <2>9, <4>1, <4>2, <4>3, <4>4, LockChanges
    <3> QED  BY <2>1, <3>1, <3>2
  <2> QED  BY <2>6, <2>7, <2>8, <2>9
<1>2. CASE ~IsCommitted(x)
  <2>1. Commit(x) \/ CommitLost(x)
    BY <1>2, CommitStarts
  <2>2. client[x] = "commit" /\ csn[x] = CommittingCSN /\ finish[x] = None /\ tid' = tid
    BY <2>1, CommitDoes
  <2>3. UNCHANGED <<version, file, state, on_disk>> /\ removing' = removing
    BY <2>1, DecidingKeeps DEF Deciding
  <2>4. Holding(x) = removing[x]
    BY <2>2 DEF Holding, None
  <2>5. p \in Range(Holding(x))
    BY <2>3, <2>4 DEF Removes
  <2>6. version[p].removal_tid = tid[x]
    BY <1>b, <2>5 DEF Base, TableInv, PartInv, RemovedIsLocked
  <2>7. csn[x] # RolledBackCSN
    BY <2>2, CSNFacts
  <2>8. file[p].removal_tid = tid[x]
    BY <1>b, <2>2, <2>5, <2>7 DEF Base, TableInv, PartInv, FileIsLocked, Appending
  <2> QED  BY <2>2, <2>3, <2>6, <2>8
<1> QED  BY <1>1, <1>2

-----------------------------------------------------------------------------
LEMMA NextPreparedIsInMemory ==
  ASSUME Stepping, Names, Removals, NEW p \in Parts
  PROVE  PreparedIsInMemory(p)'
<1>b. Base /\ Base'
  BY DEF Stepping
<1>e. EmptyTID # PrehistoricTID
  BY MetadataFacts
<1>i. PreparedIsInMemory(p)
  BY DEF Removals
<1>o. \A y \in Txns : tid[y] # PrehistoricTID
  BY <1>b DEF Base, TableInv, TIDsAreOwn
<1>1. CASE LoadPart(p) /\ p \in loaded'
  <2>0. p \in on_disk /\ p \notin loaded /\ alive
    BY <1>1, LoadPartDoes
  <2>1. CASE file[p] = NoMetadata
    <3>1. file'[p] = NoMetadata
      BY <1>1, <2>1, LoadedFacts
    <3> QED  BY <1>e, <3>1, NoMetadataFacts DEF PreparedIsInMemory
  <2>2. CASE file[p] # NoMetadata
    <3>1. file'[p] = FixedFileOf(p) /\ FileOf(p) = file[p]
      BY <1>b, <1>1, <2>0, <2>2, LoadedFacts, FileFacts
    <3>2. FixedFileOf(p).removal_tid \in {EmptyTID, file[p].removal_tid}
      BY <1>b, <2>0, <3>1, FixedFileIs
    <3>3. version'[p].removal_tid = FixedFileOf(p).removal_tid \/ FixedFileOf(p).removal_tid = EmptyTID
      BY <1>1, LoadedFacts
    <3> QED  BY <1>e, <1>i, <3>1, <3>2, <3>3 DEF PreparedIsInMemory
  <2> QED  BY <2>1, <2>2
<1>2. CASE LoadPart(p) /\ p \notin loaded'
  <2>1. UNCHANGED <<version, file>>
    BY <1>2, LoadPartDoes
  <2> QED  BY <1>i, <2>1 DEF PreparedIsInMemory
<1>3. CASE GrabOldPart(p)
  <2>1. Kept(p) \/ (version'[p] = NoMetadata /\ file'[p] = NoMetadata)
    BY <1>3, GrabOldPartDoes DEF AllKept
  <2> QED  BY <1>e, <1>i, <2>1, NoMetadataFacts DEF Kept, SameNames, PreparedIsInMemory
<1>4. CASE \E y \in Txns : WritePart(y, p)
  <2>1. PICK y \in Txns : WritePart(y, p)
    BY <1>4
  <2>2. version'[p] = MetadataOf(tid[y]) /\ file'[p] = MetadataOf(tid[y]) /\ tid[y] \in TIDs
    BY <1>b, <2>1, WritePartDoes, Types
  <2> QED  BY <1>e, <2>2, MetadataOfFacts DEF PreparedIsInMemory
<1>5. CASE CrashServer
  <2>1. version'[p] = NoMetadata /\ file' = file
    BY <1>5, CrashDoes
  <2> QED  BY <1>e, <1>i, <2>1, NoMetadataFacts DEF PreparedIsInMemory
<1>6. ASSUME NEW y \in Txns, AppendRemoval(y), p = Head(covered[y]) PROVE PreparedIsInMemory(p)'
  <2>1. KillWaits(y) /\ AppendIsMine(y) /\ client[y] = "append"
    BY <1>6 DEF Removals, AppendRemoval
  <2>2. version[p].removal_tid = tid[y]
    BY <1>b, <1>6, <2>1, AppendingFacts
  <2>3. AppendsLock(p)
    BY <1>6, AppendRemovalDoes
  <2>4. file'[p].removal_tid = tid[y] /\ version'[p].removal_tid = tid[y]
    BY <2>2, <2>3 DEF AppendsLock, SameRemoval
  <2> QED  BY <1>o, <2>4 DEF PreparedIsInMemory
<1>7. CASE ~LoadPart(p) /\ ~GrabOldPart(p) /\ ~CrashServer /\ ~(\E y \in Txns : WritePart(y, p))
           /\ ~(\E y \in Txns : AppendRemoval(y) /\ p = Head(covered[y]))
  <2>1. file'[p].removal_tid = file[p].removal_tid \/ file'[p].removal_tid = EmptyTID
    <3>1. ASSUME NEW y \in Txns, (StampCreated(y) \/ StampRemoved(y) \/ MarkRolledBack(y)) /\ Treats(y, p)
          PROVE  file'[p].removal_tid = file[p].removal_tid
      <4>1. Kept(p)
        BY <3>1, StampCreatedDoes, StampRemovedDoes, MarkRolledBackDoes DEF Treats, NextPhaseIs, AllKept
      <4> QED  BY <4>1 DEF Kept, SameNames
    <3>2. ASSUME NEW y \in Txns, ClearRemoved(y), Treats(y, p) PROVE file'[p].removal_tid = EmptyTID
      <4>1. ClearsLock(p)
        BY <3>2, ClearRemovedDoes DEF Treats
      <4> QED  BY <4>1 DEF ClearsLock
    <3> QED  BY <1>7, <3>1, <3>2, FileChanges
  <2>2. version'[p].removal_tid = version[p].removal_tid \/ version'[p].removal_tid # PrehistoricTID
    <3>1. ASSUME NEW y \in Txns, RemoveOldPart(y), p = Head(covered[y])
          PROVE  version' = version \/ LocksFor(p, tid[y])
      BY <3>1, RemoveOldPartDoes
    <3>2. ASSUME NEW y \in Txns, UnlockRemoved(y), Treats(y, p) PROVE LocksFor(p, EmptyTID)
      BY <3>2, UnlockRemovedDoes DEF Treats
    <3>3. version'[p].removal_tid = version[p].removal_tid \/ LocksFor(p, EmptyTID)
          \/ \E y \in Txns : LocksFor(p, tid[y])
      BY <1>7, <3>1, <3>2, LockChanges
    <3> QED  BY <1>e, <1>o, <3>3 DEF LocksFor
  <2> QED  BY <1>e, <1>i, <2>1, <2>2 DEF PreparedIsInMemory
<1> QED  BY <1>1, <1>2, <1>3, <1>4, <1>5, <1>6, <1>7

LEMMA NextRemovals ==
  ASSUME Stepping, Names, Removals
  PROVE  Removals'
<1>1. \A x \in Txns : KillWaits(x)' /\ AppendIsMine(x)'
  BY NextKillWaits, NextAppendIsMine DEF Removals
<1>2. \A x \in Txns : \A p \in Parts : LockIsNamed(x, p)' /\ FileLockIsNamed(x, p)' /\ HeldIsInFile(x, p)' /\ RemovalIsFinal(x, p)'
  BY NextLockIsNamed, NextFileLockIsNamed, NextHeldIsInFile, NextRemovalIsFinal
<1>3. \A p \in Parts : PreparedIsInMemory(p)'
  BY NextPreparedIsInMemory
<1> QED  BY <1>1, <1>2, <1>3 DEF Removals

LEMMA SameNamesAndRemovals ==
  ASSUME UNCHANGED vars
  PROVE  (Names => Names') /\ (Removals => Removals')
<1>1. UNCHANGED <<tid, committed, csn, client, new_part, covered, creating, removing, finish, todo, version, file, state,
                  parts_lock, on_disk, loaded>>
  BY DEF vars, logVars, txnVars, writeVars, changes, ending, partVars
<1>2. Names => Names'
  BY <1>1 DEF Names, LockIsHeld, Locking, MakerIsNamed, Maker, PartIsKnown, Known, AddedIsCreated, Adding, Truncating, CreatedIsWritten,
              OwnIsCreated, Made, HasBegun, Creates, Removes, Writing, Doomed, IsCommitted
<1>3. \A x \in Txns : (KillWaits(x)' <=> KillWaits(x)) /\ (AppendIsMine(x)' <=> AppendIsMine(x)) /\ Holding(x)' = Holding(x)
  BY <1>1 DEF KillWaits, AppendIsMine, Locking, Removes, Holding, IsReadOnly
<1>4. \A x \in Txns : \A p \in Parts : (LockIsNamed(x, p)' <=> LockIsNamed(x, p)) /\ (FileLockIsNamed(x, p)' <=> FileLockIsNamed(x, p))
  BY <1>1, <1>3 DEF LockIsNamed, FileLockIsNamed, Removes, IsCommitted, HasBegun
<1>5. \A x \in Txns : \A p \in Parts : (HeldIsInFile(x, p)' <=> HeldIsInFile(x, p)) /\ (RemovalIsFinal(x, p)' <=> RemovalIsFinal(x, p))
  BY <1>1, <1>3 DEF HeldIsInFile, RemovalIsFinal, ChangesRemoval, Removes, IsCommitted
<1>6. \A p \in Parts : PreparedIsInMemory(p)' <=> PreparedIsInMemory(p)
  BY <1>1 DEF PreparedIsInMemory
<1>7. Removals => Removals'
  BY <1>3, <1>4, <1>5, <1>6 DEF Removals
<1> QED  BY <1>2, <1>7

LEMMA InitNames ==
  ASSUME Init
  PROVE  Names /\ Removals
<1>1. /\ \A x \in Txns : client[x] = "idle" /\ finish[x] = None /\ creating[x] = <<>> /\ removing[x] = <<>> /\ covered[x] = <<>>
                         /\ todo[x] = <<>>
      /\ parts_lock = None /\ on_disk = Initial /\ loaded = Initial
      /\ \A p \in Parts : /\ file[p] = NoMetadata
                          /\ p \in Initial => version[p] = PrehistoricMetadata
                          /\ p \notin Initial => version[p] = NoMetadata /\ state[p] = None
  BY DEF Init
<1>2. Range(<<>>) = {}
  BY EmptyRange
<1>3. LockIsHeld
  BY <1>1, TableAssumption DEF LockIsHeld, Locking
<1>4. \A p \in Parts : MakerIsNamed(p)
  BY <1>1, PrehistoricFacts DEF MakerIsNamed, Maker
<1>5. \A p \in Parts : PartIsKnown(p)
  BY <1>1, <1>2 DEF PartIsKnown, Known, Removes, None
<1>6. \A x \in Txns : AddedIsCreated(x) /\ \A p \in Parts : CreatedIsWritten(x, p) /\ OwnIsCreated(x, p)
  BY <1>1, <1>2 DEF AddedIsCreated, Adding, Locking, CreatedIsWritten, OwnIsCreated, Creates, HasBegun
<1>7. Names
  BY <1>3, <1>4, <1>5, <1>6 DEF Names
<1>8. \A x \in Txns : KillWaits(x) /\ AppendIsMine(x)
  BY <1>1 DEF KillWaits, AppendIsMine, Locking
<1>9. \A x \in Txns : Holding(x) = <<>>
  BY <1>1 DEF Holding, None
<1>10. \A x \in Txns : \A p \in Parts : LockIsNamed(x, p) /\ FileLockIsNamed(x, p) /\ HeldIsInFile(x, p) /\ RemovalIsFinal(x, p)
  BY <1>1, <1>2, <1>9 DEF LockIsNamed, FileLockIsNamed, HeldIsInFile, RemovalIsFinal, HasBegun, Removes
<1>11. \A p \in Parts : PreparedIsInMemory(p)
  BY <1>1, MetadataFacts, NoMetadataFacts, PrehistoricFacts DEF PreparedIsInMemory
<1> QED  BY <1>7, <1>8, <1>10, <1>11 DEF Removals

LEMMA RemovalsHold == Spec => [](Base /\ Names /\ Removals)
<1>1. Init => Names /\ Removals
  BY InitNames
<1>2. Base /\ Base' /\ Names /\ Removals /\ [Next]_vars => Names' /\ Removals'
  <2> SUFFICES ASSUME Base, Base', Names, Removals, [Next]_vars PROVE Names' /\ Removals'
    OBVIOUS
  <2>1. CASE Next
    <3>1. Stepping
      BY <2>1 DEF Stepping
    <3> QED  BY <3>1, NextNames, NextRemovals
  <2>2. CASE UNCHANGED vars
    BY <2>2, SameNamesAndRemovals
  <2> QED  BY <2>1, <2>2
<1> QED  BY <1>1, <1>2, BaseHolds, PTL DEF Spec

(***************************************************************************)
(* The file of a loaded part names the transaction that has the part       *)
(* locked for removal, unless that transaction is about to change either.  *)
(***************************************************************************)
LEMMA RemoverIsInFile ==
  ASSUME Base, Names, Removals
  PROVE  FileNamesTheRemover
<1> SUFFICES ASSUME NEW p \in loaded \cap on_disk, version[p].removal_tid # PrehistoricTID,
                    \A x \in Txns : ~ChangesRemoval(x, p)
             PROVE  version[p].removal_tid = file[p].removal_tid
  BY DEF FileNamesTheRemover
<1>0. p \in Parts
  BY Types
<1>1. CASE \E x \in Txns : HasBegun(x) /\ version[p].removal_tid = tid[x]
  <2>1. PICK x \in Txns : HasBegun(x) /\ version[p].removal_tid = tid[x]
    BY <1>1
  <2>2. Removes(x, p) /\ (IsCommitted(x) \/ p \in Range(Holding(x)))
    BY <1>0, <2>1 DEF Removals, LockIsNamed
  <2>3. (IsCommitted(x) => file[p].removal_tid = tid[x]) /\ (p \in Range(Holding(x)) => file[p].removal_tid = tid[x])
    BY <1>0, <2>2 DEF Removals, RemovalIsFinal, HeldIsInFile
  <2> QED  BY <2>1, <2>2, <2>3
<1>2. CASE version[p].removal_tid = EmptyTID
  <2>1. file[p].removal_tid \in NamedTIDs /\ file[p].removal_tid # PrehistoricTID
    BY <1>0 DEF Base, TableInv, PartInv, MetadataIsTrue, NamesAreKnown, Removals, PreparedIsInMemory
  <2>2. ASSUME NEW x \in Txns, HasBegun(x), file[p].removal_tid = tid[x] PROVE FALSE
    <3>1. version[p].removal_tid = tid[x]
      BY <1>0, <2>2 DEF Removals, FileLockIsNamed
    <3> QED  BY <1>2, <2>2, <3>1, BegunFacts
  <2> QED  BY <1>2, <2>1, <2>2 DEF NamedTIDs, HasBegun
<1>3. version[p].removal_tid \in NamedTIDs
  BY <1>0 DEF Base, TableInv, PartInv, MetadataIsTrue, NamesAreKnown
<1> QED  BY <1>1, <1>2, <1>3 DEF NamedTIDs, HasBegun

THEOREM FilesNameTheRemover == Spec => []FileNamesTheRemover
BY RemovalsHold, RemoverIsInFile, PTL

-----------------------------------------------------------------------------
(***************************************************************************)
(* CSNs in memory.  The end of a transaction puts them on its parts one by *)
(* one, and loading finds those that a crash has left out.                 *)
(***************************************************************************)
CreationIsDone(x, p) ==
  \/ finish[x] \in {"mark", "stamp_created"} /\ p \notin Range(todo[x])
  \/ finish[x] \in {"outdate", "activate", "clear", "unlock", "stamp_removed", "release", "done"}
CreationIsStamped(x, p) ==
  Creates(x, p) /\ CreationIsDone(x, p) /\ state[p] # None => version[p].creation_csn # UnknownCSN

RemovalIsDone(x, p) ==
  \/ finish[x] = "stamp_removed" /\ p \notin Range(todo[x])
  \/ finish[x] \in {"release", "done"}
RemovalIsStamped(x, p) ==
  Removes(x, p) /\ IsCommitted(x) /\ RemovalIsDone(x, p) /\ state[p] # None => version[p].removal_csn # UnknownCSN

(* A part that is not of the changes of its creator was rolled back. *)
OwnIsStamped(x, p) ==
  HasBegun(x) /\ state[p] \in {"Active", "Outdated"} /\ version[p].creation_tid = tid[x] =>
    Creates(x, p) \/ version[p].creation_csn # UnknownCSN

(* How a transaction comes to the end of its work on a creation. *)
LEMMA CreationIsDoneStarts ==
  ASSUME Stepping, NEW x \in Txns, NEW p \in Parts, Creates(x, p), CreationIsDone(x, p)', ~CreationIsDone(x, p)
  PROVE  CrashServer \/ ((StampCreated(x) \/ MarkRolledBack(x)) /\ Treats(x, p))
<1>b. Base /\ todo[x] \in Seq(Parts) /\ creating[x] \in Seq(Parts)
  BY Types DEF Stepping
<1>c. p \in Range(creating[x])
  BY DEF Creates
<1>e. todo[x] = <<>> => Range(todo[x]) = {}
  BY EmptyRange
<1>1. CASE SameEnd(x)
  BY <1>1 DEF SameEnd, CreationIsDone
<1>2. CASE Deciding(x)
  <2>1. CASE Begin(x) \/ BeforeCommit(x) \/ Commit(x) \/ CommitLost(x) \/ Postpone(x) \/ CommitRefused(x)
    <3>1. SameEnd(x) \/ finish'[x] \in {None, "committed", "unknown"}
      BY <2>1, BeginDoes, BeforeCommitDoes, CommitDoes, PostponeDoes, CommitRefusedDoes DEF Goes
    <3> QED  BY <1>1, <3>1 DEF CreationIsDone, None
  <2>2. CASE ClientRollsBack(x) \/ Kill(x) \/ RollBackUnknownState(x)
    <3>1. SameEnd(x) \/ (finish'[x] = "mark" /\ todo'[x] = creating[x])
      BY <2>2, RollbackStarts
    <3> QED  BY <1>1, <1>c, <3>1 DEF CreationIsDone
  <2>3. CASE DecideUnknownState(x)
    <3>1. finish'[x] \in {"committed", "unguarded"}
      BY <2>3, DecideDoes
    <3> QED  BY <3>1 DEF CreationIsDone
  <2>4. CASE AfterCommit(x)
    <3>1. finish'[x] = "stamp_created" /\ todo'[x] = creating[x]
      BY <2>4, AfterCommitDoes
    <3> QED  BY <1>c, <3>1 DEF CreationIsDone
  <2>5. CASE Release(x)
    BY <2>5, ReleaseDoes DEF CreationIsDone
  <2> QED  BY <1>2, <2>1, <2>2, <2>3, <2>4, <2>5 DEF Deciding
<1>3. CASE Treating(x)
  <2>1. finish[x] \in Phases
    BY <1>3, TreatingKeeps
  <2>2. finish[x] \in {"mark", "stamp_created"} /\ p \in Range(todo[x])
    BY <2>1 DEF CreationIsDone, Phases
  <2>3. todo[x] # <<>>
    BY <1>e, <2>2
  <2>4. StampCreated(x) \/ MarkRolledBack(x)
    BY <1>3, <2>2 DEF Treating, StampRemoved, OutdateCreated, RestoreRemoved, ClearRemoved, UnlockRemoved
  <2>5. finish'[x] = finish[x] /\ todo'[x] = Tail(todo[x])
    BY <2>3, <2>4, StampCreatedDoes, MarkRolledBackDoes DEF NextPartIs
  <2>6. p \notin Range(Tail(todo[x]))
    BY <2>2, <2>5 DEF CreationIsDone
  <2>7. p = Head(todo[x])
    BY <1>b, <2>2, <2>3, <2>6, HeadAndTail
  <2> QED  BY <2>3, <2>4, <2>7 DEF Treats
<1> QED  BY <1>1, <1>2, <1>3, EndChanges

(* Loading finds the CSN of a creation. *)
LEMMA LoadedIsStamped ==
  ASSUME Stepping, Names, NEW p \in Parts, LoadPart(p), p \in loaded', version'[p].creation_tid # PrehistoricTID
  PROVE  version'[p].creation_csn # UnknownCSN
<1>0. Base /\ p \in on_disk /\ p \notin loaded /\ alive
  BY LoadPartDoes DEF Stepping
<1>1. SameCreation(FixedFileOf(p), version'[p])
  BY LoadedFacts
<1>2. FixedFileOf(p).creation_tid = FileOf(p).creation_tid /\ FixedFileOf(p).creation_tid = version'[p].creation_tid
  BY <1>0, <1>1, FixedFileIs DEF SameCreation
<1>3. WasInvolvedInTransaction(FileOf(p))
  BY <1>2 DEF WasInvolvedInTransaction
<1>4. FixedFileOf(p).creation_csn # UnknownCSN
  BY <1>0, <1>3, FixedFileIs
<1> QED  BY <1>1, <1>4 DEF SameCreation

LEMMA NextCreationIsStamped ==
  ASSUME Stepping, Names, NEW x \in Txns, NEW p \in Parts, CreationIsStamped(x, p)
  PROVE  CreationIsStamped(x, p)'
<1> SUFFICES ASSUME Creates(x, p)', CreationIsDone(x, p)', state'[p] # None
             PROVE  version'[p].creation_csn # UnknownCSN
  BY DEF CreationIsStamped
<1>b. Base /\ Base'
  BY DEF Stepping
<1>1. Creates(x, p)
  <2>1. CASE AddNewPart(x) /\ creating'[x] # creating[x]
    <3>1. csn[x] = UnknownCSN /\ SameEnd(x) /\ client[x] = "written"
      BY <2>1, AddNewPartDoes
    <3>2. finish'[x] = None
      BY <1>b, <3>1 DEF Base, TxnInv, Outcome, SameEnd
    <3> QED  BY <3>2 DEF CreationIsDone, None
  <2> QED  BY <2>1, ChangesGrow DEF Creates
<1>2. Known(p) /\ p \in Writes[x]
  BY <1>1 DEF Known, Names, CreatedIsWritten
<1>3. \A y \in Txns : ~WritePart(y, p)
  BY <1>2, NewIsUnknown
<1>4. ~CrashServer
  BY CrashDoes
<1>5. CASE LoadPart(p) /\ p \in loaded'
  <2>1. version'[p].creation_tid # PrehistoricTID
    <3>1. MakerIsNamed(p)'
      BY NextNames DEF Names
    <3>2. Maker(p, version[p].creation_tid)'
      BY <3>1 DEF MakerIsNamed
    <3>3. p \notin Initial /\ \A y \in Txns : tid'[y] # PrehistoricTID
      BY <1>b, <1>2, TableAssumption DEF Base, TableInv, TIDsAreOwn
    <3> QED  BY <3>2, <3>3 DEF Maker
  <2> QED  BY <1>5, <2>1, LoadedIsStamped
<1>6. CASE LoadPart(p) /\ p \notin loaded'
  <2>1. PartsArePresent'
    BY <1>b DEF Base, TableInv, PartInv
  <2> QED  BY <1>6, <2>1 DEF PartsArePresent, Present
<1>7. CASE ~LoadPart(p)
  <2>0. state[p] # None
    BY <1>3, <1>7, PresenceStarts
  <2>1. version[p].creation_csn # UnknownCSN => version'[p].creation_csn # UnknownCSN
    <3>1. CASE GrabOldPart(p)
      <4>1. Kept(p)
        BY <3>1, GrabOldPartDoes DEF AllKept
      <4> QED  BY <4>1 DEF Kept, KnownStays
    <3> QED  BY <1>3, <1>4, <1>7, <3>1, PartIsSteady DEF Steady
  <2>2. CASE CreationIsDone(x, p)
    BY <1>1, <2>0, <2>1, <2>2 DEF CreationIsStamped
  <2>3. CASE (StampCreated(x) \/ MarkRolledBack(x)) /\ Treats(x, p)
    <3>1. \E c : StampsCreation(p, c) /\ (c = csn[x] \/ c = RolledBackCSN)
      BY <2>3, StampCreatedDoes, MarkRolledBackDoes DEF Treats
    <3>2. csn[x] # UnknownCSN /\ RolledBackCSN # UnknownCSN
      BY <2>3, TreatingKeeps, CSNFacts DEF Treating
    <3> QED  BY <3>1, <3>2 DEF StampsCreation
  <2> QED  BY <1>1, <1>4, <2>2, <2>3, CreationIsDoneStarts
<1> QED  BY <1>5, <1>6, <1>7

-----------------------------------------------------------------------------
LEMMA RemovalIsDoneStarts ==
  ASSUME Stepping, NEW x \in Txns, NEW p \in Parts, Removes(x, p), IsCommitted(x),
         RemovalIsDone(x, p)', ~RemovalIsDone(x, p)
  PROVE  CrashServer \/ (StampRemoved(x) /\ Treats(x, p))
<1>b. Base /\ todo[x] \in Seq(Parts) /\ removing[x] \in Seq(Parts) /\ finish[x] \notin Rollback
  BY Types, CommittedFacts DEF Stepping
<1>c. p \in Range(removing[x])
  BY DEF Removes
<1>e. todo[x] = <<>> => Range(todo[x]) = {}
  BY EmptyRange
<1>1. CASE SameEnd(x)
  BY <1>1 DEF SameEnd, RemovalIsDone
<1>2. CASE Deciding(x)
  <2>1. CASE Begin(x) \/ BeforeCommit(x) \/ Commit(x) \/ CommitLost(x) \/ Postpone(x) \/ CommitRefused(x)
    <3>1. SameEnd(x) \/ finish'[x] \in {None, "committed", "unknown"}
      BY <2>1, BeginDoes, BeforeCommitDoes, CommitDoes, PostponeDoes, CommitRefusedDoes DEF Goes
    <3> QED  BY <1>1, <3>1 DEF RemovalIsDone, None
  <2>2. CASE ClientRollsBack(x) \/ Kill(x) \/ RollBackUnknownState(x)
    <3>1. SameEnd(x) \/ finish'[x] = "mark"
      BY <2>2, RollbackStarts
    <3> QED  BY <1>1, <3>1 DEF RemovalIsDone
  <2>3. CASE DecideUnknownState(x) \/ AfterCommit(x)
    <3>1. finish'[x] \in {"committed", "unguarded", "stamp_created"}
      BY <2>3, DecideDoes, AfterCommitDoes
    <3> QED  BY <3>1 DEF RemovalIsDone
  <2>4. CASE Release(x)
    BY <2>4, ReleaseDoes DEF RemovalIsDone
  <2> QED  BY <1>2, <2>1, <2>2, <2>3, <2>4 DEF Deciding
<1>3. CASE Treating(x)
  <2>1. StampCreated(x) \/ StampRemoved(x)
    BY <1>b, <1>3 DEF Treating, Rollback, MarkRolledBack, OutdateCreated, RestoreRemoved, ClearRemoved, UnlockRemoved
  <2>2. CASE StampCreated(x)
    <3>1. \/ finish'[x] = "stamp_removed" /\ todo'[x] = removing[x]
          \/ finish'[x] = finish[x] /\ finish[x] = "stamp_created"
      BY <2>2, StampCreatedDoes DEF NextPhaseIs, NextPartIs
    <3> QED  BY <1>c, <3>1 DEF RemovalIsDone
  <2>3. CASE StampRemoved(x)
    <3>1. finish[x] = "stamp_removed"
      BY <2>3, StampRemovedDoes
    <3>2. p \in Range(todo[x]) /\ todo[x] # <<>>
      BY <1>e, <3>1 DEF RemovalIsDone
    <3>3. finish'[x] = finish[x] /\ todo'[x] = Tail(todo[x])
      BY <2>3, <3>2, StampRemovedDoes DEF NextPartIs
    <3>4. p \notin Range(Tail(todo[x]))
      BY <3>1, <3>3 DEF RemovalIsDone
    <3>5. p = Head(todo[x])
      BY <1>b, <3>2, <3>4, HeadAndTail
    <3> QED  BY <2>3, <3>2, <3>5 DEF Treats
  <2> QED  BY <2>1, <2>2, <2>3
<1> QED  BY <1>1, <1>2, <1>3, EndChanges

LEMMA NextRemovalIsStamped ==
  ASSUME Stepping, Names, Removals, NEW x \in Txns, NEW p \in Parts, RemovalIsStamped(x, p)
  PROVE  RemovalIsStamped(x, p)'
<1> SUFFICES ASSUME Removes(x, p)', IsCommitted(x)', RemovalIsDone(x, p)', state'[p] # None
             PROVE  version'[p].removal_csn # UnknownCSN
  BY DEF RemovalIsStamped
<1>b. Base /\ Base'
  BY DEF Stepping
<1>1. IsCommitted(x)
  <2>1. ASSUME Commit(x) \/ CommitLost(x) PROVE FALSE
    <3>1. finish'[x] \in {None, "committed"}
      BY <2>1, CommitDoes DEF Goes
    <3> QED  BY <3>1 DEF RemovalIsDone, None
  <2> QED  BY <2>1, CommitStarts
<1>2. HasBegun(x) /\ ~Locking(x)
  BY <1>b, <1>1, CommittedFacts
<1>3. Removes(x, p)
  BY <1>2, ChangesStay DEF Locking, RemoveOldPart
<1>4. Known(p)
  BY <1>3 DEF Names, PartIsKnown
<1>5. \A y \in Txns : ~WritePart(y, p)
  BY <1>4, NewIsUnknown
<1>6. ~CrashServer
  BY CrashDoes
<1>7. CASE LoadPart(p) /\ p \in loaded'
  <2>1. p \in on_disk
    BY <1>7, LoadPartDoes
  <2>2. file[p].removal_tid = tid[x]
    BY <1>1, <1>3, <2>1 DEF Removals, RemovalIsFinal
  <2>3. version'[p].removal_tid = tid[x]
    BY <1>1, <1>7, <2>2, LoadedCommittedRemoval
  <2>4. tid[x] \notin {EmptyTID, PrehistoricTID}
    BY <1>b, <1>2, BegunFacts
  <2>5. FixedFileOf(p).removal_csn # UnknownCSN
    BY <1>7, <2>3, <2>4, LoadedRemoval
  <2> QED  BY <1>7, <2>5, LoadedFacts
<1>8. CASE LoadPart(p) /\ p \notin loaded'
  <2>1. PartsArePresent'
    BY <1>b DEF Base, TableInv, PartInv
  <2> QED  BY <1>8, <2>1 DEF PartsArePresent, Present
<1>9. CASE ~LoadPart(p)
  <2>0. state[p] # None
    BY <1>5, <1>9, PresenceStarts
  <2>1. version[p].removal_csn # UnknownCSN => version'[p].removal_csn # UnknownCSN
    <3>1. CASE GrabOldPart(p)
      <4>1. Kept(p)
        BY <3>1, GrabOldPartDoes DEF AllKept
      <4> QED  BY <4>1 DEF Kept, KnownStays
    <3> QED  BY <1>5, <1>6, <1>9, <3>1, PartIsSteady DEF Steady
  <2>2. CASE RemovalIsDone(x, p)
    BY <1>1, <1>3, <2>0, <2>1, <2>2 DEF RemovalIsStamped
  <2>3. CASE StampRemoved(x) /\ Treats(x, p)
    <3>1. StampsRemoval(p, csn[x])
      BY <2>3, StampRemovedDoes DEF Treats
    <3>2. csn[x] # UnknownCSN
      BY <2>3, TreatingKeeps DEF Treating
    <3> QED  BY <3>1, <3>2 DEF StampsRemoval
  <2> QED  BY <1>1, <1>3, <1>6, <2>2, <2>3, RemovalIsDoneStarts
<1> QED  BY <1>7, <1>8, <1>9

LEMMA NextOwnIsStamped ==
  ASSUME Stepping, Names, NEW x \in Txns, NEW p \in Parts, OwnIsStamped(x, p)
  PROVE  OwnIsStamped(x, p)'
<1> SUFFICES ASSUME HasBegun(x)', state'[p] \in {"Active", "Outdated"}, version'[p].creation_tid = tid'[x]
             PROVE  Creates(x, p)' \/ version'[p].creation_csn # UnknownCSN
  BY DEF OwnIsStamped
<1>b. Base /\ Base'
  BY DEF Stepping
<1>t. tid'[x] # EmptyTID /\ tid'[x] # PrehistoricTID
  BY <1>b DEF Base, TxnInv, RunningIsUnfinished, HasBegun, TableInv, TIDsAreOwn
<1>n. ~Begin(x)
  <2>1. ASSUME Begin(x) PROVE FALSE
    <3>1. tid'[x] \notin NamedTIDs /\ version' = version
      BY <2>1, BeginDoes, DecidingKeeps DEF Deciding
    <3>2. version[p].creation_tid \in NamedTIDs
      BY <1>b DEF Base, TableInv, PartInv, MetadataIsTrue, NamesAreKnown
    <3> QED  BY <3>1, <3>2
  <2> QED  BY <2>1
<1>h. HasBegun(x) /\ tid'[x] = tid[x]
  BY <1>n, BegunBefore
<1>1. \A y \in Txns : ~WritePart(y, p)
  BY WritePartDoes
<1>2. ~CrashServer
  BY CrashDoes DEF None
<1>3. CASE LoadPart(p) /\ p \in loaded'
  BY <1>t, <1>3, LoadedIsStamped
<1>4. CASE LoadPart(p) /\ p \notin loaded'
  <2>1. PartsArePresent'
    BY <1>b DEF Base, TableInv, PartInv
  <2> QED  BY <1>4, <2>1 DEF PartsArePresent, Present, None
<1>5. CASE ~LoadPart(p)
  <2>0. state[p] # None
    BY <1>1, <1>5, PresenceStarts DEF None
  <2>1. /\ version'[p].creation_tid = version[p].creation_tid
        /\ version[p].creation_csn # UnknownCSN => version'[p].creation_csn # UnknownCSN
    <3>1. CASE GrabOldPart(p)
      <4>1. Kept(p)
        BY <3>1, GrabOldPartDoes DEF AllKept, None
      <4> QED  BY <4>1 DEF Kept, KnownStays, SameNames
    <3> QED  BY <1>1, <1>2, <1>5, <3>1, PartIsSteady DEF Steady
  <2>2. CASE state[p] \in {"Active", "Outdated"}
    BY <1>h, <2>1, <2>2, ChangesStay DEF OwnIsStamped
  <2>3. CASE state[p] = "PreActive"
    <3>1. CASE Known(p)
      <4>1. Creates(x, p)
        BY <1>b, <1>h, <2>0, <2>1, <3>1, RemovedIsMine
      <4> QED  BY <4>1, ChangesStay
    <3>2. ASSUME NEW y \in Txns, (AppendRemoval(y) \/ SkipRolledBack(y)) /\ p = Head(covered[y]) PROVE Known(p)
      <4>1. p \in Range(covered[y])
        BY <3>2, AppendRemovalDoes, SkipRolledBackDoes
      <4> QED  BY <4>1 DEF Names, PartIsKnown
    <3>3. ASSUME NEW y \in Txns, ActivatePart(y), p = new_part[y] PROVE Known(p)
      <4>1. Adding(y)
        BY <3>3 DEF ActivatePart, Adding, Locking
      <4> QED  BY <3>3, <4>1 DEF Names, AddedIsCreated, Known
    <3>4. ASSUME NEW y \in Txns, UndoPart(y), p = new_part[y] PROVE version'[p].creation_csn # UnknownCSN
      <4>1. Undoes(p)
        BY <3>4, UndoPartDoes
      <4> QED  BY <4>1, CSNFacts DEF Undoes
    <3>5. ASSUME NEW y \in Txns, OutdateCreated(y) \/ RestoreRemoved(y), Treats(y, p) PROVE Known(p)
      <4>1. finish[y] \in {"outdate", "activate"}
        BY <3>5 DEF OutdateCreated, RestoreRemoved
      <4>2. p \in Range(creating[y]) \/ p \in Range(removing[y])
        BY <1>b, <3>5, <4>1, TreatedFacts DEF Treats, Phases
      <4> QED  BY <4>2 DEF Known, Creates, Removes, Names, PartIsKnown
    <3>6. state'[p] # state[p] /\ ~GrabOldPart(p)
      BY <2>3, GrabOldPartDoes
    <3>7. ~(state[p] = "Active")
      BY <2>3
    <3> QED  BY <1>1, <1>2, <1>5, <3>1, <3>2, <3>3, <3>4, <3>5, <3>6, <3>7, StateChanges
  <2> QED  BY <1>b, <2>0, <2>2, <2>3, Types
<1> QED  BY <1>3, <1>4, <1>5

-----------------------------------------------------------------------------
(* The steps of a call of isVisible(), field by field. *)
ReadKeeps(x) == read'[x].part = read[x].part /\ read'[x].removal_tid = read[x].removal_tid
Moves(x, q, c, r) ==
  ReadKeeps(x) /\ read'[x].pc = q /\ read'[x].creation_csn = c /\ read'[x].removal_csn = r
Answers(x, b) ==
  Moves(x, "done", read[x].creation_csn, read[x].removal_csn) /\ read'[x].result = b
LoadsField(x, f) ==
  /\ f \in read[x].loads /\ read'[x].loads = read[x].loads \ {f} /\ read'[x].part = read[x].part
  /\ read'[x].pc = IF read'[x].loads = {} THEN "fast" ELSE "load"
  /\ read'[x].creation_csn = IF f = "creation_csn" THEN Part(x).creation_csn ELSE read[x].creation_csn
  /\ read'[x].removal_tid = IF f = "removal_tid" THEN Part(x).removal_tid ELSE read[x].removal_tid
  /\ read'[x].removal_csn = IF f = "removal_csn" THEN Part(x).removal_csn ELSE read[x].removal_csn
SameRead(x) == read'[x] = read[x]

LEMMA GotoDoes ==
  ASSUME read \in [Txns -> Reads], NEW x \in Txns, NEW q, Goto(x, q)
  PROVE  Moves(x, q, read[x].creation_csn, read[x].removal_csn) /\ \A y \in Txns : y # x => SameRead(y)
<1>0. read[x] \in Reads
  OBVIOUS
<1>1. PICK s : s = [read[x] EXCEPT !.pc = q]
  OBVIOUS
<1>2. read' = [read EXCEPT ![x] = s]
  BY <1>1 DEF Goto
<1>3. /\ s.pc = q /\ s.part = read[x].part /\ s.removal_tid = read[x].removal_tid
      /\ s.creation_csn = read[x].creation_csn /\ s.removal_csn = read[x].removal_csn
  BY <1>0, <1>1 DEF Reads
<1>4. read'[x] = s /\ \A y \in Txns : y # x => read'[y] = read[y]
  BY <1>2
<1> QED  BY <1>3, <1>4 DEF Moves, ReadKeeps, SameRead

LEMMA ReturnsDoes ==
  ASSUME read \in [Txns -> Reads], NEW x \in Txns, NEW b, Returns(x, b)
  PROVE  Answers(x, b) /\ \A y \in Txns : y # x => SameRead(y)
<1>0. read[x] \in Reads
  OBVIOUS
<1>1. PICK s : s = [read[x] EXCEPT !.pc = "done", !.result = b]
  OBVIOUS
<1>2. read' = [read EXCEPT ![x] = s]
  BY <1>1 DEF Returns
<1>3. /\ s.pc = "done" /\ s.part = read[x].part /\ s.removal_tid = read[x].removal_tid /\ s.result = b
      /\ s.creation_csn = read[x].creation_csn /\ s.removal_csn = read[x].removal_csn
  BY <1>0, <1>1 DEF Reads
<1>4. read'[x] = s /\ \A y \in Txns : y # x => read'[y] = read[y]
  BY <1>2
<1> QED  BY <1>3, <1>4 DEF Answers, Moves, ReadKeeps, SameRead

LEMMA CreationMoves ==
  ASSUME read \in [Txns -> Reads], NEW x \in Txns, NEW q, NEW c, read' = [read EXCEPT ![x].creation_csn = c, ![x].pc = q]
  PROVE  Moves(x, q, c, read[x].removal_csn) /\ \A y \in Txns : y # x => SameRead(y)
<1>0. read[x] \in Reads
  OBVIOUS
<1>1. PICK s : s = [read[x] EXCEPT !.creation_csn = c, !.pc = q]
  OBVIOUS
<1>2. read' = [read EXCEPT ![x] = s]
  BY <1>1
<1>3. /\ s.pc = q /\ s.part = read[x].part /\ s.removal_tid = read[x].removal_tid
      /\ s.creation_csn = c /\ s.removal_csn = read[x].removal_csn
  BY <1>0, <1>1 DEF Reads
<1>4. read'[x] = s /\ \A y \in Txns : y # x => read'[y] = read[y]
  BY <1>2
<1> QED  BY <1>3, <1>4 DEF Moves, ReadKeeps, SameRead

LEMMA RemovalMoves ==
  ASSUME read \in [Txns -> Reads], NEW x \in Txns, NEW q, NEW c, read' = [read EXCEPT ![x].removal_csn = c, ![x].pc = q]
  PROVE  Moves(x, q, read[x].creation_csn, c) /\ \A y \in Txns : y # x => SameRead(y)
<1>0. read[x] \in Reads
  OBVIOUS
<1>1. PICK s : s = [read[x] EXCEPT !.removal_csn = c, !.pc = q]
  OBVIOUS
<1>2. read' = [read EXCEPT ![x] = s]
  BY <1>1
<1>3. /\ s.pc = q /\ s.part = read[x].part /\ s.removal_tid = read[x].removal_tid
      /\ s.creation_csn = read[x].creation_csn /\ s.removal_csn = c
  BY <1>0, <1>1 DEF Reads
<1>4. read'[x] = s /\ \A y \in Txns : y # x => read'[y] = read[y]
  BY <1>2
<1> QED  BY <1>3, <1>4 DEF Moves, ReadKeeps, SameRead

LEMMA LoadDoes ==
  ASSUME read \in [Txns -> Reads], NEW x \in Txns, ReadLoad(x)
  PROVE  /\ \E f \in Loads : LoadsField(x, f)
         /\ \A y \in Txns : y # x => SameRead(y)
<1>0. read[x] \in Reads
  OBVIOUS
<1>1. PICK f \in read[x].loads :
        read' = [read EXCEPT ![x].loads = @ \ {f},
                  ![x].pc = IF read[x].loads = {f} THEN "fast" ELSE "load",
                  ![x].creation_csn = IF f = "creation_csn" THEN Part(x)[f] ELSE @,
                  ![x].removal_tid = IF f = "removal_tid" THEN Part(x)[f] ELSE @,
                  ![x].removal_csn = IF f = "removal_csn" THEN Part(x)[f] ELSE @]
  BY DEF ReadLoad
<1>2. PICK q, l, c, t, r :
        /\ l = read[x].loads \ {f} /\ q = IF read[x].loads = {f} THEN "fast" ELSE "load"
        /\ c = IF f = "creation_csn" THEN Part(x).creation_csn ELSE read[x].creation_csn
        /\ t = IF f = "removal_tid" THEN Part(x).removal_tid ELSE read[x].removal_tid
        /\ r = IF f = "removal_csn" THEN Part(x).removal_csn ELSE read[x].removal_csn
  OBVIOUS
<1>3. PICK s : s = [read[x] EXCEPT !.loads = l, !.pc = q, !.creation_csn = c, !.removal_tid = t, !.removal_csn = r]
  OBVIOUS
<1>4. read' = [read EXCEPT ![x] = s]
  BY <1>1, <1>2, <1>3
<1>5. s.loads = l /\ s.pc = q /\ s.creation_csn = c /\ s.removal_tid = t /\ s.removal_csn = r /\ s.part = read[x].part
  BY <1>0, <1>3 DEF Reads
<1>6. q = IF l = {} THEN "fast" ELSE "load"
  BY <1>1, <1>2
<1>7. read'[x] = s /\ \A y \in Txns : y # x => read'[y] = read[y]
  BY <1>4
<1>8. f \in Loads
  BY <1>0, <1>1 DEF Reads
<1>9. LoadsField(x, f)
  BY <1>1, <1>2, <1>5, <1>6, <1>7 DEF LoadsField
<1> QED  BY <1>7, <1>8, <1>9 DEF SameRead

(* The call at its fast path, its lookups of the creation, and its lookup of the removal. *)
FastPathIs(x) ==
  LET r == read[x]
      hidden == FastHidden(r.creation_csn, r.removal_tid, r.removal_csn, Snapshot(x), tid[x])
      visible == FastVisible(Part(x).creation_tid, r.creation_csn, r.removal_tid, r.removal_csn, Snapshot(x), tid[x])
  IN  \/ hidden /\ Answers(x, FALSE)
      \/ ~hidden /\ visible /\ Answers(x, TRUE)
      \/ ~hidden /\ ~visible /\ Snapshot(x) <= Part(x).creation_tid.start_csn /\ Answers(x, FALSE)
      \/ ~hidden /\ ~visible /\ ~(Snapshot(x) <= Part(x).creation_tid.start_csn)
         /\ Moves(x, "lookup", r.creation_csn, r.removal_csn)
LookupIs(x) ==
  LET c == GetCSN(Part(x).creation_tid)
  IN  \/ c = UnknownCSN /\ Moves(x, "outdated", c, read[x].removal_csn)
      \/ c # UnknownCSN /\ Moves(x, "store", c, read[x].removal_csn)
GoesOn(x, q) == Moves(x, q, read[x].creation_csn, read[x].removal_csn)
TailIs(x) ==
  \/ IsOutdated(Part(x).creation_tid) /\ GoesOn(x, "failback")
  \/ ~IsOutdated(Part(x).creation_tid) /\ GoesOn(x, "strict")
FailbackIs(x) ==
  \/ Part(x).creation_csn = UnknownCSN /\ GoesOn(x, "throw")
  \/ Part(x).creation_csn # UnknownCSN /\ GoesOn(x, "strict")
StrictIs(x) ==
  \/ Part(x).creation_csn = UnknownCSN /\ Answers(x, FALSE)
  \/ Part(x).creation_csn # UnknownCSN /\ Moves(x, "store", Part(x).creation_csn, read[x].removal_csn)
StoreIs(x) ==
  \/ read[x].removal_tid = EmptyTID /\ Answers(x, VisibleByCSN(read[x].creation_csn, read[x].removal_csn, Snapshot(x)))
  \/ read[x].removal_tid # EmptyTID /\ GoesOn(x, "removal")
RemovalIs(x) ==
  LET c == GetCSN(read[x].removal_tid)
  IN  \/ c = UnknownCSN /\ GoesOn(x, "strict_removal")
      \/ c # UnknownCSN /\ Moves(x, "store_removal", read[x].creation_csn, c)
StrictRemovalIs(x) ==
  LET c == Part(x).removal_csn
  IN  \/ c = UnknownCSN /\ Answers(x, VisibleByCSN(read[x].creation_csn, UnknownCSN, Snapshot(x)))
      \/ c # UnknownCSN /\ Moves(x, "store_removal", read[x].creation_csn, c)
StoreRemovalIs(x) == Answers(x, VisibleByCSN(read[x].creation_csn, read[x].removal_csn, Snapshot(x)))

LEMMA ReadStepDoes ==
  ASSUME read \in [Txns -> Reads], NEW x \in Txns, ReadStep(x)
  PROVE  /\ \A y \in Txns : y # x => SameRead(y)
         /\ \/ At(x, "load") /\ \E f \in Loads : LoadsField(x, f)
            \/ At(x, "fast") /\ FastPathIs(x)
            \/ At(x, "lookup") /\ LookupIs(x)
            \/ At(x, "outdated") /\ TailIs(x)
            \/ At(x, "failback") /\ FailbackIs(x)
            \/ At(x, "strict") /\ StrictIs(x)
            \/ At(x, "store") /\ StoreIs(x)
            \/ At(x, "removal") /\ RemovalIs(x)
            \/ At(x, "strict_removal") /\ StrictRemovalIs(x)
            \/ At(x, "store_removal") /\ StoreRemovalIs(x)
            \/ At(x, "done") /\ read'[x].pc = None
<1>1. CASE ReadLoad(x)
  BY <1>1, LoadDoes DEF ReadLoad
<1>2. CASE ReadFastPath(x)
  BY <1>2, ReturnsDoes, GotoDoes DEF ReadFastPath, FastPathIs
<1>3. CASE ReadLookup(x)
  <2>1. PICK c : c = GetCSN(Part(x).creation_tid)
    OBVIOUS
  <2>2. PICK q : q = IF c = UnknownCSN THEN "outdated" ELSE "store"
    OBVIOUS
  <2>3. read' = [read EXCEPT ![x].creation_csn = c, ![x].pc = q] /\ At(x, "lookup")
    BY <1>3, <2>1, <2>2 DEF ReadLookup
  <2>4. Moves(x, q, c, read[x].removal_csn) /\ \A y \in Txns : y # x => SameRead(y)
    BY <2>3, CreationMoves
  <2>5. LookupIs(x)
    BY <2>1, <2>2, <2>4 DEF LookupIs
  <2> QED  BY <2>3, <2>4, <2>5
<1>4. CASE ReadTail(x)
  BY <1>4, GotoDoes DEF ReadTail, TailIs, GoesOn
<1>5. CASE ReadFailback(x)
  BY <1>5, GotoDoes DEF ReadFailback, FailbackIs, GoesOn
<1>6. CASE ReadStrict(x)
  BY <1>6, ReturnsDoes, CreationMoves DEF ReadStrict, StrictIs
<1>7. CASE ReadStore(x)
  BY <1>7, ReturnsDoes, GotoDoes DEF ReadStore, StoreIs, GoesOn, ReadResult
<1>8. CASE ReadRemoval(x)
  BY <1>8, GotoDoes, RemovalMoves DEF ReadRemoval, RemovalIs, GoesOn
<1>9. CASE ReadStrictRemoval(x)
  BY <1>9, ReturnsDoes, RemovalMoves DEF ReadStrictRemoval, StrictRemovalIs, ReadResult
<1>10. CASE ReadStoreRemoval(x)
  BY <1>10, ReturnsDoes DEF ReadStoreRemoval, StoreRemovalIs, ReadResult
<1>11. CASE ReadEnds(x)
  <2>1. read' = [read EXCEPT ![x] = NoRead] /\ At(x, "done")
    BY <1>11 DEF ReadEnds
  <2>2. read'[x] = NoRead /\ \A y \in Txns : y # x => read'[y] = read[y]
    BY <2>1
  <2> QED  BY <2>1, <2>2, NoReadFacts DEF SameRead
<1> QED  BY <1>1, <1>2, <1>3, <1>4, <1>5, <1>6, <1>7, <1>8, <1>9, <1>10, <1>11 DEF ReadStep

(* Whose call goes on. *)
LEMMA ReadChanges ==
  ASSUME Stepping, NEW x \in Txns
  PROVE  SameRead(x) \/ CrashServer \/ SelectStep(x) \/ \E p \in Parts : Select(x, p)
<1>t. read \in [Txns -> Reads]
  BY Types DEF Stepping
<1>1. ASSUME NEW y \in Txns, SelectStep(y), y # x PROVE SameRead(x)
  BY <1>t, <1>1, ReadStepDoes DEF SelectStep
<1>2. ASSUME NEW y \in Txns, NEW p \in Parts, Select(y, p), y # x PROVE SameRead(x)
  BY <1>t, <1>2 DEF Select, ReadBegins, SameRead
<1>3. CASE read' = read
  BY <1>3 DEF SameRead
<1>4. ASSUME NEW y \in Txns, ClientStep(y) PROVE read' = read \/ SelectStep(y) \/ \E p \in Parts : Select(y, p)
  BY <1>4 DEF ClientStep, Begin, WritePart, AddNewPart, Truncate, LockedStep, RemoveOldPart, AppendRemoval, SkipRolledBack, TruncateEnds,
     ActivatePart, UndoPart, ClientRollsBack, BeforeCommit, Commit, CommitLost, Postpone, CommitRefused
<1>5. ASSUME NEW y \in Txns, FinishStep(y) \/ KillStep(y) \/ UnknownStateStep(y) PROVE read' = read
  BY <1>5 DEF FinishStep, KillStep, UnknownStateStep, AfterCommit, StampCreated, StampRemoved, Release, MarkRolledBack, OutdateCreated,
     RestoreRemoved, ClearRemoved, UnlockRemoved, Kill, KillFails, KillReturns, DecideUnknownState, RollBackUnknownState, EndUnknownState
<1>6. ASSUME \/ UpdaterStep \/ UpdaterRequestFails \/ StartServer \/ ServerStarted
             \/ \E p \in Parts : GrabOldPart(p) \/ LoadPart(p)
      PROVE  read' = read
  BY <1>6 DEF UpdaterStep, UpdaterRequestFails, StartServer, ServerStarted, GrabOldPart, LoadPart
<1> QED  BY <1>1, <1>2, <1>3, <1>4, <1>5, <1>6 DEF Stepping, Next

-----------------------------------------------------------------------------
LEMMA SettledStays ==
  ASSUME Stepping, NEW p \in Parts, state[p] \in {"Active", "Outdated"}, state'[p] # None
  PROVE  state'[p] \in {"Active", "Outdated"}
<1>b. Base
  BY DEF Stepping
<1>p. Present(p)
  BY <1>b DEF Base, TableInv, PartInv, PartsArePresent, None
<1>1. ~CrashServer /\ ~LoadPart(p) /\ \A y \in Txns : ~WritePart(y, p)
  BY <1>p, CrashDoes, LoadPartDoes, WritePartDoes DEF Present
<1>2. CASE GrabOldPart(p)
  <2>1. Kept(p)
    BY <1>2, GrabOldPartDoes DEF AllKept
  <2> QED  BY <2>1 DEF Kept, SameState
<1>3. ASSUME NEW y \in Txns, ActivatePart(y), p = new_part[y] PROVE state'[p] \in {"Active", "Outdated"}
  BY <1>3, ActivatePartDoes
<1>4. ASSUME NEW y \in Txns, UndoPart(y), p = new_part[y] PROVE state'[p] \in {"Active", "Outdated"}
  BY <1>4, UndoPartDoes
<1>5. ASSUME NEW y \in Txns, OutdateCreated(y), Treats(y, p) PROVE state'[p] \in {"Active", "Outdated"}
  BY <1>5, OutdateCreatedDoes DEF Treats
<1>6. ASSUME NEW y \in Txns, RestoreRemoved(y), Treats(y, p), version[p].creation_tid # tid[y] PROVE state'[p] \in {"Active", "Outdated"}
  BY <1>6, RestoreRemovedDoes DEF Treats
<1>7. ASSUME NEW y \in Txns, AppendRemoval(y) \/ SkipRolledBack(y), Truncating(y), p = Head(covered[y]) PROVE state'[p] = "Outdated"
  BY <1>7, AppendRemovalDoes, SkipRolledBackDoes
<1> QED  BY <1>1, <1>2, <1>3, <1>4, <1>5, <1>6, <1>7, StateChanges

ReadIsSettled(x) ==
  read[x].pc # None => read[x].part \in Parts /\ state[read[x].part] \in {"Active", "Outdated"}
FailbackIsStamped(x) ==
  /\ read[x].pc = "failback" => version[read[x].part].creation_csn # UnknownCSN
  /\ read[x].pc # "throw"

LEMMA ReadIsPresent ==
  ASSUME Base, NEW x \in Txns, read[x].pc # None
  PROVE  read[x].part \in Parts /\ InUse(read[x].part) /\ Present(read[x].part)
<1>1. read[x].part \in Parts
  BY DEF Base, TableInv, PartInv, ReadIsTrue
<1>2. InUse(read[x].part)
  BY DEF InUse
<1> QED  BY <1>1, <1>2 DEF Base, TableInv, PartInv, PartsArePresent

LEMMA ReadStaysPresent ==
  ASSUME Base', NEW x \in Txns, read'[x].pc # None
  PROVE  read'[x].part \in Parts /\ state'[read'[x].part] # None
<1>0. PICK p : p = read'[x].part
  OBVIOUS
<1>1. p \in Parts
  BY <1>0 DEF Base, TableInv, PartInv, ReadIsTrue
<1>2. InUse(p)'
  BY <1>0 DEF InUse
<1>3. Present(p)'
  BY <1>1, <1>2 DEF Base, TableInv, PartInv, PartsArePresent
<1> QED  BY <1>0, <1>1, <1>3 DEF Present

LEMMA NextReadIsSettled ==
  ASSUME Stepping, NEW x \in Txns, ReadIsSettled(x)
  PROVE  ReadIsSettled(x)'
<1> SUFFICES ASSUME read'[x].pc # None
             PROVE  read'[x].part \in Parts /\ state'[read'[x].part] \in {"Active", "Outdated"}
  BY DEF ReadIsSettled
<1>b. Base /\ Base' /\ read \in [Txns -> Reads]
  BY Types DEF Stepping
<1>p. state'[read'[x].part] # None
  BY <1>b, ReadStaysPresent
<1>1. CASE SameRead(x)
  <2>1. PICK p \in Parts : p = read[x].part /\ state[p] \in {"Active", "Outdated"} /\ p = read'[x].part
    BY <1>1 DEF SameRead, ReadIsSettled
  <2>2. state'[p] # None
    BY <1>p, <2>1
  <2>3. state'[p] \in {"Active", "Outdated"}
    BY <2>1, <2>2, SettledStays
  <2> QED  BY <2>1, <2>3
<1>2. CASE CrashServer
  BY <1>2, CrashDoes
<1>3. CASE SelectStep(x)
  <2>1. ReadStep(x) /\ state' = state
    BY <1>3, SelectDoes DEF SelectStep
  <2>2. read'[x].part = read[x].part /\ read[x].pc # None
    BY <1>b, <2>1, ReadStepDoes DEF At, LoadsField, FastPathIs, LookupIs, TailIs, FailbackIs, StrictIs, StoreIs, RemovalIs,
       StrictRemovalIs, StoreRemovalIs, GoesOn, Answers, Moves, ReadKeeps, None
  <2> QED  BY <2>1, <2>2 DEF ReadIsSettled
<1>4. ASSUME NEW p \in Parts, Select(x, p) PROVE read'[x].part \in Parts /\ state'[read'[x].part] \in {"Active", "Outdated"}
  <2>1. PICK r : r = [NoRead EXCEPT !.pc = "load", !.part = p, !.loads = Loads]
    OBVIOUS
  <2>2. read' = [read EXCEPT ![x] = r] /\ state[p] \in {"Active", "Outdated"} /\ state' = state
    BY <1>4, <2>1, SelectDoes DEF Select, ReadBegins
  <2>3. r.part = p
    BY <2>1 DEF NoRead
  <2>4. read'[x].part = p
    BY <1>b, <2>2, <2>3
  <2> QED  BY <2>2, <2>4
<1> QED  BY <1>1, <1>2, <1>3, <1>4, ReadChanges

Stamps ==
  /\ \A x \in Txns : \A p \in Parts : CreationIsStamped(x, p) /\ RemovalIsStamped(x, p) /\ OwnIsStamped(x, p)
  /\ \A x \in Txns : ReadIsSettled(x) /\ FailbackIsStamped(x)

(* A part whose creation has no CSN was created by a running transaction, *)
(* and the TIDs of those are not outdated.                                 *)
LEMMA UnstampedIsRunning ==
  ASSUME Base, Names, Stamps, NEW p \in Parts, state[p] \in {"Active", "Outdated"}, version[p].creation_csn = UnknownCSN,
         version[p].creation_tid # PrehistoricTID
  PROVE  \E x \in Txns : Running(x) /\ Creates(x, p) /\ version[p].creation_tid = tid[x]
<1>1. Maker(p, version[p].creation_tid)
  BY DEF Names, MakerIsNamed, None
<1>2. PICK x \in Txns : HasBegun(x) /\ version[p].creation_tid = tid[x]
  BY <1>1 DEF Maker
<1>3. Creates(x, p)
  BY <1>2 DEF Stamps, OwnIsStamped
<1>4. ~CreationIsDone(x, p)
  BY <1>3 DEF Stamps, CreationIsStamped, None
<1>5. finish[x] # "done"
  BY <1>4 DEF CreationIsDone
<1>6. Running(x)
  BY <1>2, <1>5 DEF Base, TxnInv, RunningIsUnfinished, HasBegun
<1> QED  BY <1>2, <1>3, <1>6

LEMMA RunningIsNotOutdated ==
  ASSUME Base, NEW x \in Txns, Running(x)
  PROVE  ~IsOutdated(tid[x])
<1>1. alive
  BY SnapshotNumbers DEF Base
<1>2. tail_ptr <= zk_tail_ptr /\ zk_tail_ptr <= Snapshot(x) /\ tail_ptr \in Nat /\ zk_tail_ptr \in Nat /\ Snapshot(x) \in Nat
  BY <1>1, SnapshotNumbers DEF Base, IInv, TailIsBehindSnapshots, LogTypeOK, Running
<1> QED  BY <1>2 DEF IsOutdated, Snapshot

LEMMA NextFailbackIsStamped ==
  ASSUME Stepping, Names, Stamps, NEW x \in Txns
  PROVE  FailbackIsStamped(x)'
<1>b. Base /\ Base' /\ read \in [Txns -> Reads]
  BY Types DEF Stepping
<1>i. FailbackIsStamped(x) /\ ReadIsSettled(x)
  BY DEF Stamps
<1>1. CASE SameRead(x)
  <2>1. CASE read[x].pc = "failback"
    <3>1. PICK p \in Parts : p = read[x].part /\ p = read'[x].part /\ state[p] # None
      BY <1>i, <1>1, <2>1 DEF SameRead, ReadIsSettled, None
    <3>2. read'[x].pc # None /\ read[x].pc # None
      BY <1>1, <2>1 DEF SameRead, None
    <3>4. state'[p] # None
      BY <1>b, <3>1, <3>2, ReadStaysPresent
    <3>5. Present(p)
      BY <1>b, <3>1, <3>2, ReadIsPresent
    <3>6. ~CrashServer /\ ~LoadPart(p) /\ \A y \in Txns : ~WritePart(y, p)
      BY <3>4, <3>5, CrashDoes, LoadPartDoes, WritePartDoes DEF Present
    <3>7. CASE GrabOldPart(p)
      <4>1. Kept(p)
        BY <3>4, <3>7, GrabOldPartDoes DEF AllKept
      <4> QED  BY <1>i, <1>1, <2>1, <3>1, <4>1 DEF FailbackIsStamped, SameRead, Kept, KnownStays
    <3>8. CASE Steady(p)
      BY <1>i, <1>1, <2>1, <3>1, <3>8 DEF FailbackIsStamped, SameRead, Steady
    <3> QED  BY <3>6, <3>7, <3>8, PartIsSteady
  <2>2. CASE read[x].pc # "failback"
    BY <1>i, <1>1, <2>2 DEF FailbackIsStamped, SameRead
  <2> QED  BY <2>1, <2>2
<1>2. CASE CrashServer
  <2>1. read'[x].pc = None
    BY <1>2, CrashDoes
  <2> QED  BY <2>1 DEF FailbackIsStamped, None
<1>3. CASE SelectStep(x)
  <2>0. ReadStep(x) /\ AllKept
    BY <1>3, SelectDoes DEF SelectStep
  <2>1. CASE At(x, "outdated")
    <3>1. TailIs(x)
      BY <1>b, <2>0, <2>1, ReadStepDoes DEF At
    <3>2. PICK p \in Parts : p = read[x].part /\ state[p] \in {"Active", "Outdated"}
      BY <1>i, <2>1 DEF At, ReadIsSettled, None
    <3>3. CASE IsOutdated(version[p].creation_tid)
      <4>1. version[p].creation_csn # UnknownCSN
        BY <1>b, <3>2, <3>3, UnstampedIsRunning, RunningIsNotOutdated DEF IsOutdated
      <4>2. version'[p].creation_csn # UnknownCSN
        BY <2>0, <4>1 DEF AllKept, Kept, KnownStays
      <4>3. read'[x].part = p /\ read'[x].pc # "throw"
        BY <3>1, <3>2 DEF TailIs, GoesOn, Moves, ReadKeeps
      <4> QED  BY <4>2, <4>3 DEF FailbackIsStamped
    <3>4. CASE ~IsOutdated(version[p].creation_tid)
      <4>1. read'[x].pc = "strict"
        BY <3>1, <3>2, <3>4 DEF TailIs, GoesOn, Moves, Part
      <4> QED  BY <4>1 DEF FailbackIsStamped
    <3> QED  BY <3>3, <3>4
  <2>2. CASE At(x, "failback")
    <3>1. FailbackIs(x) /\ version[read[x].part].creation_csn # UnknownCSN
      BY <1>b, <1>i, <2>0, <2>2, ReadStepDoes DEF At, FailbackIsStamped
    <3>2. read'[x].pc = "strict"
      BY <3>1 DEF FailbackIs, GoesOn, Moves, Part
    <3> QED  BY <3>2 DEF FailbackIsStamped
  <2>3. CASE ~At(x, "outdated") /\ ~At(x, "failback")
    <3>1. read'[x].pc \in {"load", "fast", "done", "lookup", "outdated", "store", "removal", "strict_removal", "store_removal", None}
      BY <1>b, <2>0, <2>3, ReadStepDoes DEF LoadsField, FastPathIs, LookupIs, StrictIs, StoreIs, RemovalIs,
         StrictRemovalIs, StoreRemovalIs, GoesOn, Answers, Moves
    <3> QED  BY <3>1 DEF FailbackIsStamped, None
  <2> QED  BY <2>1, <2>2, <2>3
<1>4. ASSUME NEW p \in Parts, Select(x, p) PROVE FailbackIsStamped(x)'
  <2>1. PICK r : r = [NoRead EXCEPT !.pc = "load", !.part = p, !.loads = Loads]
    OBVIOUS
  <2>2. read' = [read EXCEPT ![x] = r]
    BY <1>4, <2>1 DEF Select, ReadBegins
  <2>3. r.pc = "load"
    BY <2>1 DEF NoRead
  <2>4. read'[x].pc = "load"
    BY <1>b, <2>2, <2>3
  <2> QED  BY <2>4 DEF FailbackIsStamped
<1> QED  BY <1>1, <1>2, <1>3, <1>4, ReadChanges

LEMMA NextStamps ==
  ASSUME Stepping, Names, Removals, Stamps
  PROVE  Stamps'
<1>1. \A x \in Txns : \A p \in Parts : CreationIsStamped(x, p)' /\ RemovalIsStamped(x, p)' /\ OwnIsStamped(x, p)'
  BY NextCreationIsStamped, NextRemovalIsStamped, NextOwnIsStamped DEF Stamps
<1>2. \A x \in Txns : ReadIsSettled(x)' /\ FailbackIsStamped(x)'
  BY NextReadIsSettled, NextFailbackIsStamped DEF Stamps
<1> QED  BY <1>1, <1>2 DEF Stamps

LEMMA SameStamps ==
  ASSUME UNCHANGED vars, Stamps
  PROVE  Stamps'
<1>1. UNCHANGED <<tid, committed, client, creating, removing, finish, todo, version, state, read>>
  BY DEF vars, logVars, txnVars, writeVars, changes, ending, partVars
<1>2. \A x \in Txns : \A p \in Parts : (CreationIsDone(x, p)' <=> CreationIsDone(x, p)) /\ (RemovalIsDone(x, p)' <=> RemovalIsDone(x, p))
  BY <1>1 DEF CreationIsDone, RemovalIsDone
<1>3. \A x \in Txns : \A p \in Parts : CreationIsStamped(x, p)' /\ RemovalIsStamped(x, p)' /\ OwnIsStamped(x, p)'
  BY <1>1, <1>2 DEF Stamps, CreationIsStamped, RemovalIsStamped, OwnIsStamped, Creates, Removes, IsCommitted, HasBegun
<1>4. \A x \in Txns : ReadIsSettled(x)' /\ FailbackIsStamped(x)'
  BY <1>1 DEF Stamps, ReadIsSettled, FailbackIsStamped
<1> QED  BY <1>3, <1>4 DEF Stamps

LEMMA InitStamps ==
  ASSUME Init
  PROVE  Stamps
<1>1. /\ \A x \in Txns : client[x] = "idle" /\ creating[x] = <<>> /\ removing[x] = <<>> /\ read[x] = NoRead
  BY DEF Init
<1>2. Range(<<>>) = {} /\ NoRead.pc = None
  BY EmptyRange, NoReadFacts
<1> QED  BY <1>1, <1>2 DEF Stamps, CreationIsStamped, RemovalIsStamped, OwnIsStamped, Creates, Removes, HasBegun, ReadIsSettled,
            FailbackIsStamped, None

LEMMA StampsHold == Spec => [](Base /\ Names /\ Removals /\ Stamps)
<1>1. Init => Stamps
  BY InitStamps
<1>2. Base /\ Base' /\ Names /\ Removals /\ Stamps /\ [Next]_vars => Stamps'
  <2> SUFFICES ASSUME Base, Base', Names, Removals, Stamps, [Next]_vars PROVE Stamps'
    OBVIOUS
  <2>1. CASE Next
    <3>1. Stepping
      BY <2>1 DEF Stepping
    <3> QED  BY <3>1, NextStamps
  <2>2. CASE UNCHANGED vars
    BY <2>2, SameStamps
  <2> QED  BY <2>1, <2>2
<1> QED  BY <1>1, <1>2, RemovalsHold, PTL DEF Spec

(***************************************************************************)
(* isVisible() never throws because the tail has overtaken a transaction   *)
(* whose CSN is not in the part (assertTIDIsNotOutdated).                  *)
(***************************************************************************)
THEOREM LookupsFindTheirCSN == Spec => []NoOutdatedLookup
<1>1. Stamps => NoOutdatedLookup
  BY TableAssumption DEF Stamps, FailbackIsStamped, NoOutdatedLookup
<1> QED  BY <1>1, StampsHold, PTL

-----------------------------------------------------------------------------
(***************************************************************************)
(* CSNs in files.  A transaction releases its snapshot after its CSN is in *)
(* the files of its parts; after a crash the tail waits until the parts    *)
(* are loaded.                                                             *)
(***************************************************************************)

(* What a file knows it keeps, as long as the part is there. *)
LEMMA FileKeepsCSNs ==
  ASSUME Stepping, Names, Removals, NEW p \in Parts, p \in on_disk', \A x \in Txns : ~WritePart(x, p)
  PROVE  /\ file[p].creation_csn # UnknownCSN => file'[p].creation_csn # UnknownCSN
         /\ file[p].removal_csn # UnknownCSN => file'[p].removal_csn # UnknownCSN
<1>b. Base /\ Base'
  BY DEF Stepping
<1>1. CASE GrabOldPart(p)
  <2>1. file'[p] = file[p]
    BY <1>1, GrabOldPartDoes
  <2> QED  BY <2>1
<1>2. CASE LoadPart(p)
  <2>0. p \in on_disk /\ p \notin loaded /\ alive
    BY <1>2, LoadPartDoes
  <2>1. CASE p \in loaded' /\ file[p] # NoMetadata
    <3>1. file'[p] = FixedFileOf(p) /\ FileOf(p) = file[p]
      BY <1>2, <2>1, <2>0, <1>b, LoadedFacts, FileFacts
    <3>2. CASE FixedFileOf(p) = FileOf(p)
      BY <3>1, <3>2
    <3>3. CASE FixedFileOf(p).creation_csn # UnknownCSN
               /\ FixedFileOf(p).removal_csn = StoredOrFound(FileOf(p).removal_tid, FileOf(p).removal_csn)
      BY <3>1, <3>3 DEF StoredOrFound
    <3> QED  BY <1>b, <2>0, <3>2, <3>3, FixedFileIs
  <2>2. CASE p \in loaded' /\ file[p] = NoMetadata
    BY <1>2, <2>2, LoadedFacts
  <2>3. CASE p \notin loaded'
    <3>1. file'[p] = file[p]
      BY <1>2, <2>3, LoadPartDoes
    <3> QED  BY <3>1
  <2> QED  BY <2>1, <2>2, <2>3
<1>3. ASSUME NEW x \in Txns, AppendRemoval(x), p = Head(covered[x])
      PROVE  /\ file[p].creation_csn # UnknownCSN => file'[p].creation_csn # UnknownCSN
             /\ file[p].removal_csn # UnknownCSN => file'[p].removal_csn # UnknownCSN
  <2>1. AppendsLock(p) /\ client[x] = "append"
    BY <1>3, AppendRemovalDoes
  <2>2. version[p].removal_tid = tid[x] /\ Present(p)
    BY <1>b, <1>3, <2>1, AppendingFacts DEF Removals
  <2>3. PrehistoricCSN # UnknownCSN
    BY CSNFacts
  <2>4. file[p].removal_csn = UnknownCSN
    <3> SUFFICES ASSUME file[p].removal_csn # UnknownCSN PROVE FALSE
      OBVIOUS
    <3>1. file[p].removal_tid = tid[x]
      BY <1>b, <2>2 DEF Present, Base, TableInv, PartInv, FileCSNIsFinal
    <3>2. HasBegun(x) /\ ~IsCommitted(x)
      BY <1>b, <2>1, CommittedFacts DEF HasBegun, Locking
    <3>3. tid[x] # PrehistoricTID
      BY <1>b, <3>2, BegunFacts
    <3>4. TrueRemoval(file[p].removal_tid, file[p].removal_csn)
      BY <1>b DEF Base, TableInv, PartInv, MetadataIsTrue, TrueMetadata
    <3> QED  BY <3>1, <3>2, <3>3, <3>4 DEF TrueRemoval, IsCommitted
  <2> QED  BY <2>1, <2>3, <2>4 DEF AppendsLock, SameCreation
<1>4. ASSUME NEW x \in Txns, Treats(x, p), StampCreated(x) \/ StampRemoved(x) \/ MarkRolledBack(x)
      PROVE  /\ file[p].creation_csn # UnknownCSN => file'[p].creation_csn # UnknownCSN
             /\ file[p].removal_csn # UnknownCSN => file'[p].removal_csn # UnknownCSN
  <2>1. Kept(p)
    BY <1>4, StampCreatedDoes, StampRemovedDoes, MarkRolledBackDoes DEF Treats
  <2> QED  BY <2>1 DEF Kept, KnownStays
<1>5. ASSUME NEW x \in Txns, Treats(x, p), ClearRemoved(x)
      PROVE  /\ file[p].creation_csn # UnknownCSN => file'[p].creation_csn # UnknownCSN
             /\ file[p].removal_csn # UnknownCSN => file'[p].removal_csn # UnknownCSN
  <2>1. ClearsLock(p)
    BY <1>5, ClearRemovedDoes DEF Treats
  <2> QED  BY <2>1 DEF ClearsLock, SameCreation
<1> QED  BY <1>1, <1>2, <1>3, <1>4, <1>5, FileChanges

FileCreationIsStamped(x, p) ==
  Creates(x, p) /\ CreationIsDone(x, p) /\ p \in on_disk /\ p \in loaded => file[p].creation_csn # UnknownCSN
FileRemovalIsStamped(x, p) ==
  Removes(x, p) /\ IsCommitted(x) /\ RemovalIsDone(x, p) /\ p \in on_disk /\ p \in loaded
    => file[p].removal_csn # UnknownCSN

(* A file that names x is of a part that x has created, unless a KILL has  *)
(* ended x while a query of x wrote the part.                              *)
FileOwnIsStamped(x, p) ==
  HasBegun(x) /\ p \in on_disk /\ p \in loaded /\ file[p].creation_tid = tid[x] =>
    Creates(x, p) \/ file[p].creation_csn # UnknownCSN \/ (client[x] = "written" /\ p = new_part[x])

(* Loading writes the CSNs it has found. *)
LEMMA LoadedFileIsStamped ==
  ASSUME Stepping, Names, NEW p \in Parts, LoadPart(p), p \in loaded', NEW t, t # EmptyTID, t # PrehistoricTID
  PROVE  /\ file'[p].creation_tid = t => file'[p].creation_csn # UnknownCSN
         /\ file'[p].removal_tid = t => file'[p].removal_csn # UnknownCSN
<1>0. Base /\ p \in on_disk /\ p \notin loaded /\ alive
  BY LoadPartDoes DEF Stepping
<1>1. CASE file[p] = NoMetadata
  <2>1. file'[p] = NoMetadata
    BY <1>1, LoadedFacts
  <2> QED  BY <2>1, NoMetadataFacts
<1>2. CASE file[p] # NoMetadata
  <2>1. file'[p] = FixedFileOf(p)
    BY <1>2, LoadedFacts
  <2>2. CASE ~WasInvolvedInTransaction(FileOf(p))
    <3>1. FixedFileOf(p) = FileOf(p)
      BY <1>0, <2>2, FixedFileIs
    <3> QED  BY <2>1, <2>2, <3>1 DEF WasInvolvedInTransaction
  <2>3. CASE WasInvolvedInTransaction(FileOf(p))
    BY <1>0, <2>1, <2>3, FixedFileIs
  <2> QED  BY <2>2, <2>3
<1> QED  BY <1>1, <1>2

LEMMA NextFileCreationIsStamped ==
  ASSUME Stepping, Names, Removals, NEW x \in Txns, NEW p \in Parts, FileCreationIsStamped(x, p)
  PROVE  FileCreationIsStamped(x, p)'
<1> SUFFICES ASSUME Creates(x, p)', CreationIsDone(x, p)', p \in on_disk', p \in loaded'
             PROVE  file'[p].creation_csn # UnknownCSN
  BY DEF FileCreationIsStamped
<1>b. Base /\ Base'
  BY DEF Stepping
<1>1. Creates(x, p)
  <2>1. CASE AddNewPart(x) /\ creating'[x] # creating[x]
    <3>1. csn[x] = UnknownCSN /\ SameEnd(x) /\ client[x] = "written"
      BY <2>1, AddNewPartDoes
    <3>2. finish'[x] = None
      BY <1>b, <3>1 DEF Base, TxnInv, Outcome, SameEnd
    <3> QED  BY <3>2 DEF CreationIsDone, None
  <2> QED  BY <2>1, ChangesGrow DEF Creates
<1>2. Known(p) /\ p \in Writes[x]
  BY <1>1 DEF Known, Names, CreatedIsWritten
<1>3. \A y \in Txns : ~WritePart(y, p)
  BY <1>2, NewIsUnknown
<1>4. ~CrashServer
  BY CrashDoes
<1>5. CASE LoadPart(p)
  <2>1. file'[p].creation_tid \notin {EmptyTID, PrehistoricTID}
    <3>1. MakerIsNamed(p)'
      BY NextNames DEF Names
    <3>2. p \notin Initial
      BY <1>2, TableAssumption
    <3>3. Maker(p, file[p].creation_tid)'
      BY <3>1, <3>2 DEF MakerIsNamed
    <3>4. PICK y \in Txns : HasBegun(y)' /\ file'[p].creation_tid = tid'[y]
      BY <3>2, <3>3 DEF Maker
    <3>5. tid'[y] # EmptyTID /\ tid'[y] # PrehistoricTID
      BY <1>b, <3>4 DEF Base, TxnInv, RunningIsUnfinished, HasBegun, TableInv, TIDsAreOwn
    <3> QED  BY <3>4, <3>5
  <2> QED  BY <1>5, <2>1, LoadedFileIsStamped
<1>7. CASE ~LoadPart(p)
  <2>0. p \in on_disk /\ p \in loaded
    BY <1>3, <1>7, PresenceStarts
  <2>2. CASE CreationIsDone(x, p)
    BY <1>1, <1>3, <2>0, <2>2, FileKeepsCSNs DEF FileCreationIsStamped
  <2>3. CASE (StampCreated(x) \/ MarkRolledBack(x)) /\ Treats(x, p)
    <3>1. \E c : StampsCreation(p, c) /\ (c = csn[x] \/ c = RolledBackCSN)
      BY <2>3, StampCreatedDoes, MarkRolledBackDoes DEF Treats, NextPhaseIs
    <3>2. csn[x] # UnknownCSN /\ RolledBackCSN # UnknownCSN
      BY <2>3, TreatingKeeps, CSNFacts DEF Treating
    <3> QED  BY <3>1, <3>2 DEF StampsCreation
  <2> QED  BY <1>1, <1>4, <2>2, <2>3, CreationIsDoneStarts
<1> QED  BY <1>5, <1>7

-----------------------------------------------------------------------------
LEMMA NextFileRemovalIsStamped ==
  ASSUME Stepping, Names, Removals, NEW x \in Txns, NEW p \in Parts, FileRemovalIsStamped(x, p)
  PROVE  FileRemovalIsStamped(x, p)'
<1> SUFFICES ASSUME Removes(x, p)', IsCommitted(x)', RemovalIsDone(x, p)', p \in on_disk', p \in loaded'
             PROVE  file'[p].removal_csn # UnknownCSN
  BY DEF FileRemovalIsStamped
<1>b. Base /\ Base'
  BY DEF Stepping
<1>1. IsCommitted(x)
  <2>1. ASSUME Commit(x) \/ CommitLost(x) PROVE FALSE
    <3>1. finish'[x] \in {None, "committed"}
      BY <2>1, CommitDoes DEF Goes
    <3> QED  BY <3>1 DEF RemovalIsDone, None
  <2> QED  BY <2>1, CommitStarts
<1>2. HasBegun(x) /\ ~Locking(x)
  BY <1>b, <1>1, CommittedFacts
<1>3. Removes(x, p)
  BY <1>2, ChangesStay DEF Locking, RemoveOldPart
<1>4. Known(p)
  BY <1>3 DEF Names, PartIsKnown
<1>5. \A y \in Txns : ~WritePart(y, p)
  BY <1>4, NewIsUnknown
<1>6. ~CrashServer
  BY CrashDoes
<1>7. CASE LoadPart(p)
  <2>1. p \in on_disk
    BY <1>7, LoadPartDoes
  <2>2. file[p].removal_tid = tid[x]
    BY <1>1, <1>3, <2>1 DEF Removals, RemovalIsFinal
  <2>3. file'[p].removal_tid = tid[x]
    BY <1>1, <1>7, <2>2, LoadedCommittedRemoval
  <2>4. tid[x] # EmptyTID /\ tid[x] # PrehistoricTID
    BY <1>b, <1>2, BegunFacts
  <2> QED  BY <1>7, <2>3, <2>4, LoadedFileIsStamped
<1>9. CASE ~LoadPart(p)
  <2>0. p \in on_disk /\ p \in loaded
    BY <1>5, <1>9, PresenceStarts
  <2>2. CASE RemovalIsDone(x, p)
    BY <1>1, <1>3, <1>5, <2>0, <2>2, FileKeepsCSNs DEF FileRemovalIsStamped
  <2>3. CASE StampRemoved(x) /\ Treats(x, p)
    <3>1. StampsRemoval(p, csn[x])
      BY <2>3, StampRemovedDoes DEF Treats
    <3>2. csn[x] # UnknownCSN
      BY <2>3, TreatingKeeps DEF Treating
    <3> QED  BY <3>1, <3>2 DEF StampsRemoval
  <2> QED  BY <1>1, <1>3, <1>6, <2>2, <2>3, RemovalIsDoneStarts
<1> QED  BY <1>7, <1>9

(* A KILL ends a transaction while a query of it writes a part. *)
KilledWhileWriting == \E x \in Txns : client[x] = "written" /\ csn[x] = RolledBackCSN

LEMMA WrittenIsCreated ==
  ASSUME Stepping, ~KilledWhileWriting, NEW x \in Txns, client[x] = "written", NEW p, p = new_part[x]
  PROVE  CrashServer \/ (client'[x] = "written" /\ new_part'[x] = p) \/ Creates(x, p)'
<1>b. Base
  BY DEF Stepping
<1>c. csn[x] = UnknownCSN
  BY <1>b DEF KilledWhileWriting, Base, TxnInv, Outcome
<1>1. CASE SameQuery(x)
  BY <1>1 DEF SameQuery
<1>3. ASSUME NEW q \in Parts, WritePart(x, q) PROVE FALSE
  BY <1>3, WritePartDoes
<1>4. CASE AddNewPart(x)
  <2>1. creating'[x] = Append(creating[x], new_part[x]) /\ new_part[x] \in Parts
    BY <1>4, <1>c, AddNewPartDoes
  <2>2. creating[x] \in Seq(Parts)
    BY <1>b, Types
  <2>3. p \in Range(creating'[x])
    BY <2>1, <2>2 DEF Range
  <2> QED  BY <2>3 DEF Creates
<1>5. CASE Truncate(x)
  BY <1>5, TruncateDoes
<1>6. CASE UndoPart(x)
  BY <1>6, UndoPartDoes
<1>7. CASE LockedStep(x)
  BY <1>7 DEF LockedStep, RemoveOldPart, AppendRemoval, SkipRolledBack, TruncateEnds, ActivatePart
<1>10. CASE NoQuery(x)
  BY <1>10 DEF NoQuery, AtQueries
<1> QED  BY <1>1, <1>3, <1>4, <1>5, <1>6, <1>7, <1>10, QueryChanges

LEMMA NextFileOwnIsStamped ==
  ASSUME Stepping, Names, Removals, ~KilledWhileWriting, NEW x \in Txns, NEW p \in Parts, FileOwnIsStamped(x, p)
  PROVE  FileOwnIsStamped(x, p)'
<1> DEFINE Good == Creates(x, p)' \/ file'[p].creation_csn # UnknownCSN \/ (client'[x] = "written" /\ p = new_part'[x])
<1> SUFFICES ASSUME HasBegun(x)', p \in on_disk', p \in loaded', file'[p].creation_tid = tid'[x]
             PROVE  Good
  BY DEF FileOwnIsStamped
<1>b. Base /\ Base'
  BY DEF Stepping
<1>t. tid'[x] # EmptyTID /\ tid'[x] # PrehistoricTID
  BY <1>b DEF Base, TxnInv, RunningIsUnfinished, HasBegun, TableInv, TIDsAreOwn
<1>n. ~Begin(x)
  <2>1. ASSUME Begin(x) PROVE FALSE
    <3>1. tid'[x] \notin NamedTIDs /\ file' = file
      BY <2>1, BeginDoes, DecidingKeeps DEF Deciding
    <3>2. file[p].creation_tid \in NamedTIDs
      BY <1>b DEF Base, TableInv, PartInv, MetadataIsTrue, NamesAreKnown
    <3> QED  BY <3>1, <3>2
  <2> QED  BY <2>1
<1>h. HasBegun(x) /\ tid'[x] = tid[x]
  BY <1>n, BegunBefore
<1>f. \A y \in Txns : tid[y] = tid[x] => y = x
  BY <1>b, <1>h, BegunFacts
<1>1. ASSUME NEW y \in Txns, WritePart(y, p) PROVE Good
  <2>1. file'[p] = MetadataOf(tid[y]) /\ tid[y] \in TIDs
    BY <1>1, <1>b, WritePartDoes, Types
  <2>2. y = x
    BY <1>f, <1>h, <2>1, MetadataOfFacts
  <2> QED  BY <1>1, <2>2, WritePartDoes
<1>2. CASE LoadPart(p)
  BY <1>2, <1>t, LoadedFileIsStamped
<1>3. CASE ~LoadPart(p) /\ \A y \in Txns : ~WritePart(y, p)
  <2>0. p \in on_disk /\ p \in loaded
    BY <1>3, PresenceStarts
  <2>1. ~CrashServer
    BY CrashDoes
  <2>2. file[p].creation_tid = tid[x]
    <3>1. CASE GrabOldPart(p)
      <4>1. file'[p] = file[p]
        BY <3>1, GrabOldPartDoes
      <4> QED  BY <1>h, <4>1
    <3> QED  BY <1>3, <1>h, <1>t, <2>1, <3>1, PartIsSteady DEF Steady
  <2>3. CASE Creates(x, p)
    BY <2>3, ChangesStay
  <2>4. CASE file[p].creation_csn # UnknownCSN
    BY <1>3, <2>4, FileKeepsCSNs
  <2>5. CASE client[x] = "written" /\ p = new_part[x]
    BY <2>1, <2>5, WrittenIsCreated
  <2> QED  BY <1>h, <2>0, <2>2, <2>3, <2>4, <2>5 DEF FileOwnIsStamped
<1> QED  BY <1>1, <1>2, <1>3

(* x has its TID in the file of p, and no CSN of it is there. *)
Unstamped(x, p) ==
  \/ file[p].creation_tid = tid[x] /\ file[p].creation_csn = UnknownCSN
  \/ file[p].removal_tid = tid[x] /\ file[p].removal_csn = UnknownCSN
UnloadedIsNotPurged(x, p) ==
  HasBegun(x) /\ p \in on_disk /\ p \notin loaded /\ Unstamped(x, p) => ~started /\ zk_tail_ptr <= Snapshot(x)

FileStamps ==
  \A x \in Txns : \A p \in Parts :
    FileCreationIsStamped(x, p) /\ FileRemovalIsStamped(x, p) /\ FileOwnIsStamped(x, p) /\ UnloadedIsNotPurged(x, p)

LEMMA UnstampedFileIsRunning ==
  ASSUME Base, Names, Removals, FileStamps, ~KilledWhileWriting, NEW x \in Txns, HasBegun(x),
         NEW p \in Parts, p \in on_disk, p \in loaded, Unstamped(x, p)
  PROVE  Running(x) /\ zk_tail_ptr <= Snapshot(x)
<1>1. finish[x] # "done"
  <2> SUFFICES ASSUME finish[x] = "done" PROVE FALSE
    OBVIOUS
  <2>1. CASE file[p].creation_tid = tid[x] /\ file[p].creation_csn = UnknownCSN
    <3>1. client[x] # "written"
      <4>1. client[x] = "written" => csn[x] = UnknownCSN /\ finish[x] = None
        BY DEF KilledWhileWriting, Base, TxnInv, Outcome
      <4> QED  BY <4>1 DEF None
    <3>2. Creates(x, p)
      BY <2>1, <3>1 DEF FileStamps, FileOwnIsStamped
    <3> QED  BY <2>1, <3>2 DEF FileStamps, FileCreationIsStamped, CreationIsDone
  <2>2. CASE file[p].removal_tid = tid[x] /\ file[p].removal_csn = UnknownCSN
    <3>1. Removes(x, p) /\ version[p].removal_tid = tid[x]
      BY <2>2 DEF Removals, FileLockIsNamed
    <3>2. IsCommitted(x) \/ p \in Range(Holding(x))
      BY <3>1 DEF Removals, LockIsNamed
    <3>3. Range(Holding(x)) = {}
      BY EmptyRange DEF Holding
    <3> QED  BY <2>2, <3>1, <3>2, <3>3 DEF FileStamps, FileRemovalIsStamped, RemovalIsDone
  <2> QED  BY <2>1, <2>2 DEF Unstamped
<1>2. Running(x)
  BY <1>1 DEF Base, TxnInv, RunningIsUnfinished, HasBegun
<1>3. alive
  BY <1>2, SnapshotNumbers DEF Base
<1> QED  BY <1>2, <1>3 DEF Base, IInv, TailIsBehindSnapshots, Running

-----------------------------------------------------------------------------
(* Before the server is started the tail does not move. *)
LEMMA TailWaits ==
  ASSUME Stepping, ~started, ~ServerStarted
  PROVE  ~started' /\ zk_tail_ptr' = zk_tail_ptr
<1> DEFINE Good == ~started' /\ zk_tail_ptr' = zk_tail_ptr
<1>0. UNCHANGED logVars => Good
  BY LogIsSame
<1>1. ASSUME NEW x \in Txns, ClientStep(x) PROVE Good
  <2>1. CASE Begin(x)
    BY <2>1 DEF Begin
  <2>2. CASE SelectStep(x) \/ AddNewPart(x) \/ Truncate(x) \/ UndoPart(x) \/ ClientRollsBack(x) \/ BeforeCommit(x)
    BY <1>0, <2>2 DEF SelectStep, AddNewPart, Truncate, UndoPart, ClientRollsBack, BeforeCommit
  <2>3. CASE \E p \in Parts : Select(x, p) \/ WritePart(x, p)
    BY <1>0, <2>3 DEF Select, WritePart
  <2>4. CASE LockedStep(x)
    BY <1>0, <2>4 DEF LockedStep, RemoveOldPart, AppendRemoval, SkipRolledBack, TruncateEnds, ActivatePart
  <2>5. CASE Commit(x) \/ CommitLost(x) \/ Postpone(x) \/ CommitRefused(x)
    BY <2>5 DEF Commit, CommitLost, Postpone, CommitRefused, CommitPoint, CommitPointLost, CreateEntry, CommitFails,
                PostponeFinalization, keeper
  <2> QED  BY <1>1, <2>1, <2>2, <2>3, <2>4, <2>5 DEF ClientStep
<1>2. ASSUME NEW x \in Txns, FinishStep(x) PROVE Good
  <2>1. CASE Release(x)
    BY <2>1 DEF Release, ReleaseSnapshot, keeper
  <2>2. CASE ~Release(x)
    BY <1>0, <1>2, <2>2 DEF FinishStep, AfterCommit, StampCreated, StampRemoved, MarkRolledBack, OutdateCreated,
       RestoreRemoved, ClearRemoved, UnlockRemoved
  <2> QED  BY <2>1, <2>2
<1>3. ASSUME NEW x \in Txns, KillStep(x) \/ UnknownStateStep(x) PROVE Good
  <2>1. UNCHANGED logVars \/ FinalizedUnknownState
    BY <1>3 DEF KillStep, Kill, KillFails, KillReturns, UnknownStateStep, DecideUnknownState, RollBackUnknownState,
                EndUnknownState
  <2> QED  BY <1>0, <2>1 DEF FinalizedUnknownState, keeper
<1>5. CASE UpdaterStep
  BY <1>5 DEF UpdaterStep, Updater, UpdaterWakes, ListEntries, LoadEntries, PublishSnapshot, UpdateTailPtr, TailMoves,
              RemoveOldEntries, SwapUnknownStateLists, FinalizedAll, keeper
<1>6. CASE UpdaterRequestFails \/ CrashServer \/ StartServer
  BY <1>6 DEF UpdaterRequestFails, UpdaterFails, TailMoves, CrashServer, Crash, StartServer, LoadLogFromZooKeeper
<1>7. ASSUME NEW p \in Parts, GrabOldPart(p) \/ LoadPart(p) PROVE Good
  BY <1>0, <1>7 DEF GrabOldPart, LoadPart
<1> QED  BY <1>1, <1>2, <1>3, <1>5, <1>6, <1>7 DEF Stepping, Next

(* A part that is not loaded is left alone until it is. *)
LEMMA UnloadedStays ==
  ASSUME Stepping, NEW p \in Parts, ~CrashServer, p \in on_disk', p \notin loaded'
  PROVE  p \in on_disk /\ p \notin loaded /\ file'[p] = file[p]
<1>b. Base
  BY DEF Stepping
<1>w. \A x \in Txns : ~WritePart(x, p)
  BY WritePartDoes
<1>1. p \in on_disk
  BY <1>w, PresenceStarts
<1>2. p \notin loaded
  <2>1. CASE GrabOldPart(p)
    BY <2>1, GrabOldPartDoes
  <2>2. CASE LoadPart(p)
    BY <2>2, LoadPartDoes
  <2> QED  BY <1>w, <2>1, <2>2, PartIsSteady DEF Steady
<1>3. ~Present(p)
  BY <1>2 DEF Present
<1>4. CASE LoadPart(p)
  BY <1>4, LoadPartDoes
<1>5. ~GrabOldPart(p)
  <2>1. state[p] = None
    BY <1>b, <1>3 DEF Base, TableInv, PartInv, PartsArePresent
  <2> QED  BY <2>1, GrabOldPartDoes DEF None
<1>6. ASSUME NEW x \in Txns, AppendRemoval(x), p = Head(covered[x]) PROVE FALSE
  <2>1. client[x] = "append" /\ p \in Range(covered[x])
    BY <1>6, AppendRemovalDoes
  <2>2. InUse(p)
    BY <2>1 DEF InUse
  <2> QED  BY <1>b, <1>3, <2>2 DEF Base, TableInv, PartInv, PartsArePresent
<1>7. ASSUME NEW x \in Txns, Treats(x, p), Treating(x) PROVE FALSE
  <2>1. finish[x] \in Phases
    BY <1>7, TreatingKeeps
  <2> QED  BY <1>b, <1>3, <1>7, <2>1, TreatedFacts DEF Treats
<1> QED  BY <1>1, <1>2, <1>4, <1>5, <1>6, <1>7, <1>w, FileChanges DEF Treating

LEMMA NextUnloadedIsNotPurged ==
  ASSUME ~LateOutdated, Stepping, Names, Removals, FileStamps, ~KilledWhileWriting, NEW x \in Txns, NEW p \in Parts
  PROVE  UnloadedIsNotPurged(x, p)'
<1> SUFFICES ASSUME HasBegun(x)', p \in on_disk', p \notin loaded', Unstamped(x, p)'
             PROVE  ~started' /\ zk_tail_ptr' <= Snapshot(x)'
  BY DEF UnloadedIsNotPurged
<1>b. Base /\ Base'
  BY DEF Stepping
<1>1. CASE CrashServer
  <2>1. UNCHANGED <<tid, file, on_disk, zk_tail_ptr>> /\ ~started' /\ HasBegun(x)
    BY <1>1, CrashDoes DEF HasBegun
  <2>2. Unstamped(x, p)
    BY <2>1 DEF Unstamped
  <2>3. zk_tail_ptr <= Snapshot(x)
    <3>1. CASE p \in loaded
      BY <1>b, <2>1, <2>2, <3>1, UnstampedFileIsRunning
    <3>2. CASE p \notin loaded
      BY <2>1, <2>2, <3>2 DEF FileStamps, UnloadedIsNotPurged
    <3> QED  BY <3>1, <3>2
  <2> QED  BY <2>1, <2>3 DEF Snapshot
<1>2. CASE ~CrashServer
  <2>1. p \in on_disk /\ p \notin loaded /\ file'[p] = file[p]
    BY <1>2, UnloadedStays
  <2>2. ~Begin(x)
    <3>1. ASSUME Begin(x) PROVE FALSE
      <4>1. tid'[x] \notin NamedTIDs
        BY <3>1, BeginDoes
      <4>2. file[p].creation_tid \in NamedTIDs /\ file[p].removal_tid \in NamedTIDs
        BY <1>b DEF Base, TableInv, PartInv, MetadataIsTrue, NamesAreKnown
      <4> QED  BY <2>1, <4>1, <4>2 DEF Unstamped
    <3> QED  BY <3>1
  <2>3. HasBegun(x) /\ tid'[x] = tid[x]
    BY <2>2, BegunBefore
  <2>4. Unstamped(x, p)
    BY <2>1, <2>3 DEF Unstamped
  <2>5. ~started /\ zk_tail_ptr <= Snapshot(x)
    BY <2>1, <2>3, <2>4 DEF FileStamps, UnloadedIsNotPurged
  <2>6. ~ServerStarted
    BY <2>1 DEF ServerStarted
  <2>7. ~started' /\ zk_tail_ptr' = zk_tail_ptr
    BY <2>5, <2>6, TailWaits
  <2> QED  BY <2>3, <2>5, <2>7 DEF Snapshot
<1> QED  BY <1>1, <1>2

LEMMA NextFileStamps ==
  ASSUME ~LateOutdated, Stepping, Names, Removals, FileStamps, ~KilledWhileWriting
  PROVE  FileStamps'
<1> SUFFICES ASSUME NEW x \in Txns, NEW p \in Parts
             PROVE  /\ FileCreationIsStamped(x, p)' /\ FileRemovalIsStamped(x, p)'
                    /\ FileOwnIsStamped(x, p)' /\ UnloadedIsNotPurged(x, p)'
  BY DEF FileStamps
<1>1. FileCreationIsStamped(x, p) /\ FileRemovalIsStamped(x, p) /\ FileOwnIsStamped(x, p)
  BY DEF FileStamps
<1> QED  BY <1>1, NextFileCreationIsStamped, NextFileRemovalIsStamped, NextFileOwnIsStamped, NextUnloadedIsNotPurged

LEMMA SameFileStamps ==
  ASSUME UNCHANGED vars, FileStamps
  PROVE  FileStamps'
<1>1. /\ UNCHANGED <<csn, client, new_part, creating, removing, finish, todo, file, on_disk, loaded>>
      /\ UNCHANGED <<tid, committed, started, zk_tail_ptr>>
  BY DEF vars, logVars, keeper, txnVars, writeVars, changes, ending, partVars
<1> QED
  BY <1>1 DEF FileStamps, FileCreationIsStamped, FileRemovalIsStamped, FileOwnIsStamped, UnloadedIsNotPurged, Unstamped,
     Creates, Removes, IsCommitted, CreationIsDone, RemovalIsDone, HasBegun, Snapshot

LEMMA InitFileStamps ==
  ASSUME Init
  PROVE  FileStamps
<1>1. \A x \in Txns : creating[x] = <<>> /\ removing[x] = <<>> /\ client[x] = "idle"
  BY DEF Init
<1>2. on_disk = loaded
  BY DEF Init
<1>3. \A x \in Txns : \A p \in Parts : ~Creates(x, p) /\ ~Removes(x, p) /\ ~HasBegun(x)
  BY <1>1, EmptyRange DEF Creates, Removes, HasBegun
<1> QED
  BY <1>2, <1>3 DEF FileStamps, FileCreationIsStamped, FileRemovalIsStamped, FileOwnIsStamped, UnloadedIsNotPurged

LEMMA StampedBeforePurge ==
  ASSUME Base, Names, Removals, FileStamps, ~KilledWhileWriting
  PROVE  PurgedCSNsAreInParts
<1>1. ASSUME NEW p \in on_disk, NEW t, t \notin {EmptyTID, PrehistoricTID},
             \/ file[p].creation_tid = t /\ file[p].creation_csn = UnknownCSN
             \/ file[p].removal_tid = t /\ file[p].removal_csn = UnknownCSN
      PROVE  ~IsPurged(t)
  <2>0. p \in Parts
    BY Types
  <2>1. t \in NamedTIDs
    BY <1>1, <2>0 DEF Base, TableInv, PartInv, MetadataIsTrue, NamesAreKnown
  <2>2. PICK x \in Txns : HasBegun(x) /\ t = tid[x]
    BY <1>1, <2>1 DEF NamedTIDs, HasBegun
  <2>3. Unstamped(x, p)
    BY <1>1, <2>2 DEF Unstamped
  <2>4. zk_tail_ptr <= Snapshot(x)
    BY <2>0, <2>2, <2>3, UnstampedFileIsRunning DEF FileStamps, UnloadedIsNotPurged
  <2>5. zk_tail_ptr \in Nat /\ Snapshot(x) \in Nat
    <3>1. tid[x] \in TIDs
      BY <2>2, BegunFacts
    <3> QED  BY <3>1, TIDFacts DEF Snapshot, Base, IInv, LogTypeOK
  <2> QED  BY <2>2, <2>4, <2>5 DEF IsPurged, Snapshot
<1> QED
  BY <1>1 DEF PurgedCSNsAreInParts, IsPurged

(* Entries leave the log in time: when the server loads all parts before   *)
(* it is started and no KILL meets a query that is writing a part, a TID   *)
(* that is older than the tail pointer has its CSN in every file that      *)
(* names it, in spite of crashes, lost answers and moves of the tail.      *)
THEOREM PurgedEntriesAreNotNeeded ==
  ASSUME ~LateOutdated
  PROVE  Spec /\ []~KilledWhileWriting => []PurgedCSNsAreInParts
<1>1. Init => FileStamps
  BY InitFileStamps
<1>2. (Base /\ Names /\ Removals) /\ (Base /\ Names /\ Removals)' /\ FileStamps /\ ~KilledWhileWriting /\ [Next]_vars
        => FileStamps'
  BY NextFileStamps, SameFileStamps DEF Stepping
<1>3. (Base /\ Names /\ Removals) /\ FileStamps /\ ~KilledWhileWriting => PurgedCSNsAreInParts
  BY StampedBeforePurge
<1> QED  BY <1>1, <1>2, <1>3, RemovalsHold, PTL DEF Spec

-----------------------------------------------------------------------------
(***************************************************************************)
(* Blocks.  Every block of the table is in one Active part, or in one part *)
(* whose removal is pending.                                               *)
(***************************************************************************)
Share(p, q) == Blocks(p) \cap Blocks(q) # {}

(* What a transaction may see is initial, its own or in its snapshot. *)
CreatedFor(x, p) ==
  \/ p \in Initial \/ Creates(x, p)
  \/ \E y \in Txns : Creates(y, p) /\ CommittedBy(y, Snapshot(x))
RemovedIsSeen(x, p) == Removes(x, p) => CreatedFor(x, p)

(* Merges and mutations. *)
MergingIsMine(x) ==
  merging[x] # {} => /\ Writing(x) /\ merging[x] \subseteq Covers[new_part[x]]
                     /\ \A p \in merging[x] : CreatedFor(x, p)
MergesAreDisjoint(x, y) == x # y => merging[x] \cap merging[y] = {}
TruncateIsAlone(x) == Locking(x) /\ Truncating(x) => NothingIsMerged

(* The sources of a merge that nobody has cancelled stay Active until the  *)
(* new part replaces them.                                                 *)
Replaces(x) == (client[x] = "written" /\ csn[x] = UnknownCSN) \/ Adding(x)
SourcesAreActive(x) ==
  Replaces(x) =>
    /\ \A p \in merging[x] : state[p] = "Active"
    /\ Covers[new_part[x]] # {} => Blocks(new_part[x]) \subseteq UNION {Blocks(q) : q \in merging[x]}

(* Parts that are being written. *)
WrittenIsNew(x) == Writing(x) => state[new_part[x]] # "Active" /\ \A y \in Txns : ~Removes(y, new_part[x])
PreActiveIsWritten(p) == state[p] = "PreActive" => \E x \in Txns : Writing(x) /\ p = new_part[x]
BlocksAreKnown(x, p) ==
  Creates(x, p) \/ (Writing(x) /\ p = new_part[x]) =>
    \A b \in Blocks(p) : b # p => Known(b) /\ \A y \in Txns : Writing(y) => b # new_part[y]

(* x holds p, and its rollback has not put it back. *)
Removed(x, p) ==
  /\ Removes(x, p)
  /\ \/ IsCommitted(x)
     \/ /\ finish[x] \notin {"clear", "unlock", "release", "done"}
        /\ finish[x] = "activate" => p \in Range(todo[x])
Pending(x, p) == Removed(x, p) /\ ~IsCommitted(x) /\ ~Creates(x, p)

(* The loop over the parts to replace or to truncate. *)
LoopIsComplete(x) ==
  Adding(x) =>
    /\ Range(covered[x]) \subseteq Covers[new_part[x]]
    /\ \A p \in Covers[new_part[x]] : state[p] = "Active" => p \in Range(covered[x]) \/ Removes(x, p)
LoopIsFree(x, p) ==
  Locking(x) /\ csn[x] = UnknownCSN /\ p \in Range(covered[x]) =>
    CreatedFor(x, p) /\ (state[p] = "Active" \/ \E y \in Txns : Removed(y, p))

OneActive(p, q) == state[p] = "Active" /\ state[q] = "Active" /\ Share(p, q) => p = q
PendingIsReplaced(x, p, q) == Pending(x, p) /\ state[q] = "Active" /\ Share(p, q) => p = q \/ Creates(x, q)
OnePending(x, y, p, q) == Pending(x, p) /\ Pending(y, q) /\ Share(p, q) => x = y /\ p = q

(* What the end of transactions leaves. *)
RolledBackIsOutdated(x, p) ==
  Creates(x, p) /\ ~IsCommitted(x) /\ state[p] = "Active" =>
    /\ finish[x] \notin {"activate", "clear", "unlock", "release", "done"}
    /\ finish[x] = "outdate" => p \in Range(todo[x])
OutdatedIsRemoved(p) ==
  state[p] = "Outdated" => (\E x \in Txns : p \in Writes[x] /\ Doomed(x)) \/ \E x \in Txns : Removed(x, p)
ActiveIsNotRemoved(x, p) ==
  state[p] = "Active" /\ Removes(x, p) =>
    Doomed(x) \/ client[x] = "undo" \/ (Adding(x) /\ p \in Covers[new_part[x]]) \/ Appending(x, p)

(* The parts that committed transactions leave. *)
Live(p) ==
  /\ p \in Initial \/ \E x \in Txns : Creates(x, p) /\ IsCommitted(x)
  /\ ~ \E x \in Txns : Removes(x, p) /\ IsCommitted(x)
OneLive(p, q) == Live(p) /\ Live(q) /\ Share(p, q) => p = q
LiveIsThere(p) == Live(p) => p \in on_disk /\ (started => p \in loaded)
LoadingIsQuiet == ~started => in_use = <<>> /\ \A x \in Txns : client[x] \in {"idle", "end"}
LoadedIsLive(p) == ~started /\ state[p] = "Active" => Live(p)
LoadedHasState(p) == p \in on_disk /\ p \in loaded => state[p] # None
PreparedIsRolledBack(p) == version[p].removal_tid = PrehistoricTID => version[p].creation_csn = RolledBackCSN

Table ==
  /\ LoadingIsQuiet
  /\ \A p \in Parts : /\ PreActiveIsWritten(p) /\ OutdatedIsRemoved(p) /\ LiveIsThere(p) /\ LoadedIsLive(p)
                      /\ LoadedHasState(p) /\ PreparedIsRolledBack(p)
  /\ \A p, q \in Parts : OneActive(p, q) /\ OneLive(p, q)
  /\ \A x \in Txns : /\ MergingIsMine(x) /\ TruncateIsAlone(x) /\ SourcesAreActive(x) /\ WrittenIsNew(x)
                     /\ LoopIsComplete(x)
  /\ \A x \in Txns : \A p \in Parts :
       /\ RemovedIsSeen(x, p) /\ BlocksAreKnown(x, p) /\ LoopIsFree(x, p) /\ RolledBackIsOutdated(x, p)
       /\ ActiveIsNotRemoved(x, p)
  /\ \A x, y \in Txns : MergesAreDisjoint(x, y)
  /\ \A x \in Txns : \A p, q \in Parts : PendingIsReplaced(x, p, q)
  /\ \A x, y \in Txns : \A p, q \in Parts : OnePending(x, y, p, q)

-----------------------------------------------------------------------------
LEMMA BlockFacts ==
  ASSUME NEW p \in Parts, NEW b \in Blocks(p)
  PROVE  /\ b \in Parts /\ Covers[b] = {} /\ (b = p \/ b \in Covers[p])
         /\ Covers[p] = {} => b = p
BY TableAssumption DEF Blocks

LEMMA CoveredFacts ==
  ASSUME NEW p \in Parts, NEW q \in Covers[p]
  PROVE  /\ q \in Parts /\ q # p /\ Share(p, q) /\ Share(q, p)
         /\ Blocks(q) \subseteq Blocks(p) /\ p \notin Covers[q]
<1>1. q \in Parts /\ q # p /\ Covers[q] \subseteq Covers[p] /\ Blocks(q) # {} /\ Covers[p] # {} /\ p \notin Covers[p]
  BY TableAssumption
<1>2. Blocks(q) \subseteq Blocks(p)
  BY <1>1 DEF Blocks
<1> QED  BY <1>1, <1>2 DEF Share

LEMMA SharingFacts ==
  ASSUME NEW p \in Parts
  PROVE  /\ Share(p, p)
         /\ \A q \in Parts : Share(p, q) <=> Share(q, p)
         /\ \A q \in Parts : Share(p, q) => \E b \in Parts : b \in Blocks(p) /\ b \in Blocks(q)
         /\ \A q \in Parts : \A b : b \in Blocks(p) /\ b \in Blocks(q) => Share(p, q)
BY TableAssumption, BlockFacts DEF Share

LEMMA CreatorFacts ==
  ASSUME Names, NEW x \in Txns, NEW p \in Parts, Creates(x, p)
  PROVE  p \in Writes[x] /\ p \notin Initial /\ \A y \in Txns : Creates(y, p) \/ p \in Writes[y] => y = x
<1>1. \A y \in Txns : Creates(y, p) => p \in Writes[y]
  BY DEF Names, CreatedIsWritten
<1> QED  BY <1>1, TableAssumption

LEMMA CommittedByStays ==
  ASSUME Stepping, NEW x \in Txns, NEW s, CommittedBy(x, s)
  PROVE  CommittedBy(x, s)'
<1>b. Base
  BY DEF Stepping
<1>1. IsCommitted(x)
  BY DEF CommittedBy, IsCommitted
<1>2. tid'[x] = tid[x]
  BY <1>1, <1>b, CommittedFacts, LifeGoesOn
<1>3. committed \subseteq committed'
  BY NextGrows DEF Stepping, Base, Grows
<1> QED  BY <1>2, <1>3 DEF CommittedBy

LEMMA CreatedForStays ==
  ASSUME Stepping, NEW x \in Txns, HasBegun(x), NEW p \in Parts, CreatedFor(x, p)
  PROVE  CreatedFor(x, p)'
<1>1. Snapshot(x)' = Snapshot(x)
  BY LifeGoesOn DEF Snapshot
<1>2. ASSUME NEW y \in Txns, Creates(y, p), CommittedBy(y, Snapshot(x))
      PROVE  Creates(y, p)' /\ CommittedBy(y, Snapshot(x))'
  <2>1. PICK s : s = Snapshot(x)
    OBVIOUS
  <2>2. CommittedBy(y, s)'
    BY <1>2, <2>1, CommittedByStays
  <2> QED  BY <1>1, <1>2, <2>1, <2>2, ChangesStay DEF CommittedBy
<1>3. Creates(x, p) => Creates(x, p)'
  BY ChangesStay
<1> QED  BY <1>2, <1>3 DEF CreatedFor

LEMMA OnlyCreator ==
  ASSUME Names, NEW x \in Txns, NEW p \in Parts, CreatedFor(x, p), NEW z \in Txns, Creates(z, p)
  PROVE  z = x \/ IsCommitted(z)
<1>1. ASSUME NEW y \in Txns, CommittedBy(y, Snapshot(x)) PROVE IsCommitted(y)
  BY <1>1 DEF CommittedBy, IsCommitted
<1> QED  BY <1>1, CreatorFacts DEF CreatedFor

LEMMA VisibleIsOlder ==
  ASSUME Base, alive, NEW v \in Metadata, TrueMetadata(v), NEW s \in Nat, s <= MaxCSN, NEW t, IsVisible(v, s, t)
  PROVE  v.creation_tid = t \/ v.creation_tid = PrehistoricTID \/ \E e \in committed : e.tid = v.creation_tid /\ e.csn <= s
<1>1. PICK w : w = AfterIsVisible(v, s, t)
  OBVIOUS
<1>2. w \in Metadata /\ TrueMetadata(w) /\ w.creation_tid = v.creation_tid
  BY <1>1, AfterIsVisibleFacts DEF Base, Restamped
<1>3. \/ v.creation_csn # UnknownCSN /\ v.creation_csn <= s
      \/ v.creation_tid = t
      \/ w.creation_csn # UnknownCSN /\ w.creation_csn <= s
  BY <1>1 DEF IsVisible, FastVisible, VisibleByCSN
<1>4. ASSUME NEW u \in Metadata, TrueMetadata(u), u.creation_csn # UnknownCSN, u.creation_csn <= s
      PROVE  u.creation_tid = PrehistoricTID \/ \E e \in committed : e.tid = u.creation_tid /\ e.csn <= s
  <2>1. u.creation_csn \in CSNs /\ u.creation_csn \in Nat
    BY <1>4, MetadataFacts
  <2>2. u.creation_csn # RolledBackCSN
    BY <1>4, <2>1, CSNFacts
  <2>3. TrueCreation(u.creation_tid, u.creation_csn)
    BY <1>4 DEF TrueMetadata
  <2> QED  BY <1>4, <2>1, <2>2, <2>3, SeenIsCommitted
<1> QED  BY <1>2, <1>3, <1>4

LEMMA UndecidedFacts ==
  ASSUME Base, NEW x \in Txns, HasBegun(x), csn[x] = UnknownCSN, client[x] \notin {"exception", "lost", "end"}
  PROVE  /\ Running(x) /\ ~Doomed(x) /\ ~IsCommitted(x) /\ finish[x] = None /\ alive
         /\ Snapshot(x) \in Nat /\ Snapshot(x) <= MaxCSN
<1>1. finish[x] = None /\ ~IsCommitted(x)
  BY DEF Base, TxnInv, Outcome
<1>2. csn[x] # RolledBackCSN
  BY CSNFacts
<1>3. Running(x) /\ ~Doomed(x)
  BY <1>1, <1>2 DEF Base, TxnInv, RunningIsUnfinished, HasBegun, Doomed, None
<1> QED  BY <1>1, <1>3, SnapshotNumbers DEF Base

LEMMA VisibleIsCreatedFor ==
  ASSUME Base, Names, NEW x \in Txns, client[x] \in {"ready", "written"}, csn[x] = UnknownCSN,
         NEW p \in Parts, state[p] # None, VisibleTo(x, p), Writing(x) => p # new_part[x]
  PROVE  CreatedFor(x, p)
<1>h. HasBegun(x) /\ client[x] \notin {"exception", "lost", "end"}
  BY DEF HasBegun
<1>1. Running(x) /\ ~Doomed(x) /\ alive /\ Snapshot(x) \in Nat /\ Snapshot(x) <= MaxCSN
  BY <1>h, UndecidedFacts
<1>3. version[p] \in Metadata /\ TrueMetadata(version[p])
  BY Types DEF Base, TableInv, PartInv, MetadataIsTrue
<1>4. \/ version[p].creation_tid = tid[x] \/ version[p].creation_tid = PrehistoricTID
      \/ \E e \in committed : e.tid = version[p].creation_tid /\ e.csn <= Snapshot(x)
  BY <1>1, <1>3, VisibleIsOlder DEF VisibleTo
<1>5. CASE version[p].creation_tid = tid[x]
  <2>1. Made(x, p)
    BY <1>5 DEF Made
  <2>2. Creates(x, p)
    BY <1>1, <1>h, <2>1 DEF Names, OwnIsCreated
  <2> QED  BY <2>2 DEF CreatedFor
<1>6. Maker(p, version[p].creation_tid)
  BY DEF Names, MakerIsNamed
<1>7. CASE version[p].creation_tid = PrehistoricTID
  <2>1. \A y \in Txns : tid[y] # PrehistoricTID
    BY DEF Base, TableInv, TIDsAreOwn
  <2> QED  BY <1>6, <1>7, <2>1 DEF Maker, CreatedFor
<1>8. ASSUME NEW e \in committed, e.tid = version[p].creation_tid, e.csn <= Snapshot(x), version[p].creation_tid # PrehistoricTID
      PROVE  CreatedFor(x, p)
  <2>1. PICK y \in Txns : HasBegun(y) /\ version[p].creation_tid = tid[y]
    BY <1>6, <1>8 DEF Maker
  <2>2. CommittedBy(y, Snapshot(x)) /\ IsCommitted(y)
    BY <1>8, <2>1 DEF CommittedBy, IsCommitted
  <2>3. Made(y, p)
    BY <2>1 DEF Made
  <2>4. Creates(y, p)
    BY <2>1, <2>2, <2>3, CommittedFacts DEF Names, OwnIsCreated
  <2> QED  BY <2>2, <2>4 DEF CreatedFor
<1> QED  BY <1>4, <1>5, <1>7, <1>8

-----------------------------------------------------------------------------
(* A step of the table. *)
TableStep == Stepping /\ Names /\ Names' /\ Removals /\ Removals' /\ Table

(* How the state of a part changes. *)
Outdates(x, p) ==
  \/ (AppendRemoval(x) \/ SkipRolledBack(x)) /\ Truncating(x) /\ p = Head(covered[x])
  \/ ActivatePart(x) /\ p = new_part[x] /\ IsCovered(p)
  \/ ActivatePart(x) /\ p # new_part[x] /\ p \in Covers[new_part[x]] /\ state[p] = "Active"
  \/ UndoPart(x) /\ p = new_part[x]
  \/ OutdateCreated(x) /\ Treats(x, p)
Activates(x, p) ==
  \/ ActivatePart(x) /\ p = new_part[x] /\ ~IsCovered(p)
  \/ RestoreRemoved(x) /\ Treats(x, p) /\ version[p].creation_tid # tid[x] /\ parts_lock = None

LEMMA StateMoves ==
  ASSUME Stepping, NEW p \in Parts
  PROVE  \/ state'[p] = state[p]
         \/ state'[p] = None /\ CrashServer
         \/ state'[p] = None /\ state[p] = "Outdated" /\ GrabOldPart(p) /\ CanBeRemoved(version[p]) /\ ~InUse(p)
         \/ state'[p] = "PreActive" /\ state[p] = None /\ \E x \in Txns : WritePart(x, p)
         \/ state'[p] \in {"Active", "Outdated"} /\ LoadPart(p) /\ p \in loaded'
         \/ state'[p] = "Outdated" /\ \E x \in Txns : Outdates(x, p)
         \/ state'[p] = "Active" /\ \E x \in Txns : Activates(x, p)
<1>1. CASE CrashServer
  BY <1>1, CrashDoes
<1>2. CASE GrabOldPart(p)
  BY <1>2, GrabOldPartDoes
<1>3. CASE LoadPart(p)
  BY <1>3, LoadPartDoes
<1>4. ASSUME NEW x \in Txns, WritePart(x, p)
      PROVE  state'[p] = "PreActive" /\ state[p] = None
  BY <1>4, WritePartDoes
<1>5. ASSUME NEW x \in Txns, ActivatePart(x), p = new_part[x]
      PROVE  (state'[p] = "Outdated" /\ Outdates(x, p)) \/ (state'[p] = "Active" /\ Activates(x, p))
  BY <1>5, ActivatePartDoes DEF Outdates, Activates
<1>6. ASSUME NEW x \in Txns, UndoPart(x), p = new_part[x]
      PROVE  state'[p] = "Outdated" /\ Outdates(x, p)
  BY <1>6, UndoPartDoes DEF Outdates
<1>7. ASSUME NEW x \in Txns, OutdateCreated(x), Treats(x, p)
      PROVE  state'[p] = "Outdated" /\ Outdates(x, p)
  BY <1>7, OutdateCreatedDoes DEF Outdates, Treats
<1>8. ASSUME NEW x \in Txns, RestoreRemoved(x), Treats(x, p), version[p].creation_tid # tid[x], parts_lock = None
      PROVE  state'[p] = "Active" /\ Activates(x, p)
  BY <1>8, RestoreRemovedDoes DEF Activates, Treats
<1> QED  BY <1>1, <1>2, <1>3, <1>4, <1>5, <1>6, <1>7, <1>8, StateChanges DEF Outdates

LEMMA StartedStays ==
  ASSUME Stepping, started, ~CrashServer
  PROVE  started'
<1>0. UNCHANGED logVars => started'
  BY LogIsSame
<1>1. ASSUME NEW x \in Txns, ClientStep(x) PROVE started'
  <2>1. CASE Begin(x)
    BY <2>1 DEF Begin, BeginTransaction
  <2>2. CASE SelectStep(x) \/ AddNewPart(x) \/ Truncate(x) \/ UndoPart(x) \/ ClientRollsBack(x) \/ BeforeCommit(x)
    BY <1>0, <2>2 DEF SelectStep, AddNewPart, Truncate, UndoPart, ClientRollsBack, BeforeCommit
  <2>3. CASE \E p \in Parts : Select(x, p) \/ WritePart(x, p)
    BY <1>0, <2>3 DEF Select, WritePart
  <2>4. CASE LockedStep(x)
    BY <1>0, <2>4 DEF LockedStep, RemoveOldPart, AppendRemoval, SkipRolledBack, TruncateEnds, ActivatePart
  <2>5. CASE Commit(x) \/ CommitLost(x) \/ Postpone(x) \/ CommitRefused(x)
    BY <2>5 DEF Commit, CommitLost, Postpone, CommitRefused, CommitPoint, CommitPointLost, CreateEntry, CommitFails,
                PostponeFinalization
  <2> QED  BY <1>1, <2>1, <2>2, <2>3, <2>4, <2>5 DEF ClientStep
<1>2. ASSUME NEW x \in Txns, FinishStep(x) PROVE started'
  <2>1. CASE Release(x)
    BY <2>1, ReleaseDoes
  <2>2. CASE ~Release(x)
    BY <1>0, <1>2, <2>2 DEF FinishStep, AfterCommit, StampCreated, StampRemoved, MarkRolledBack, OutdateCreated,
       RestoreRemoved, ClearRemoved, UnlockRemoved
  <2> QED  BY <2>1, <2>2
<1>3. ASSUME NEW x \in Txns, KillStep(x) \/ UnknownStateStep(x) PROVE started'
  <2>1. UNCHANGED logVars \/ FinalizedUnknownState
    BY <1>3 DEF KillStep, Kill, KillFails, KillReturns, UnknownStateStep, DecideUnknownState, RollBackUnknownState,
                EndUnknownState
  <2> QED  BY <1>0, <2>1 DEF FinalizedUnknownState
<1>5. CASE UpdaterStep
  BY <1>5 DEF UpdaterStep, Updater, UpdaterWakes, ListEntries, LoadEntries, PublishSnapshot, UpdateTailPtr,
              RemoveOldEntries, SwapUnknownStateLists, FinalizedAll
<1>6. CASE UpdaterRequestFails \/ StartServer \/ ServerStarted
  BY <1>6 DEF UpdaterRequestFails, UpdaterFails, StartServer, LoadLogFromZooKeeper, ServerStarted, SetServerCompletelyStarted
<1>7. ASSUME NEW p \in Parts, GrabOldPart(p) \/ LoadPart(p) PROVE started'
  BY <1>0, <1>7 DEF GrabOldPart, LoadPart
<1> QED  BY <1>1, <1>2, <1>3, <1>5, <1>6, <1>7 DEF Stepping, Next

LEMMA NextLoadingIsQuiet ==
  ASSUME Stepping, LoadingIsQuiet
  PROVE  LoadingIsQuiet'
<1> SUFFICES ASSUME ~started'
             PROVE  in_use' = <<>> /\ \A x \in Txns : client'[x] \in {"idle", "end"}
  BY DEF LoadingIsQuiet
<1>b. Base /\ Base'
  BY DEF Stepping
<1>1. CASE CrashServer
  BY <1>1, CrashDoes
<1>2. CASE ~CrashServer
  <2>1. ~started /\ in_use = <<>> /\ \A x \in Txns : client[x] \in {"idle", "end"}
    BY <1>2, StartedStays DEF LoadingIsQuiet
  <2>2. \A x \in Txns : ~Running(x)
    BY <2>1, EmptyRange DEF Running
  <2>3. ASSUME NEW x \in Txns PROVE client'[x] \in {"idle", "end"} /\ ~Running(x)'
    <3>1. CASE client[x] = "idle"
      <4>1. ~HasBegun(x)'
        BY <2>1, <3>1, LifeGoesOn, BeginDoes DEF HasBegun
      <4> QED  BY <1>b, <4>1 DEF HasBegun, Base, TxnInv, RunningIsUnfinished
    <3>2. CASE client[x] = "end"
      <4>1. Ended(x)
        BY <1>b, <2>2, <3>2 DEF Ended, Base, TxnInv, RunningIsUnfinished
      <4>2. Ended(x)'
        BY <4>1, LifeGoesOn
      <4> QED  BY <1>b, <4>2 DEF Ended, Base, TxnInv, RunningIsUnfinished
    <3> QED  BY <2>1, <3>1, <3>2
  <2>4. in_use' \in Seq(Txns)
    BY <1>b DEF Base, IInv, LogTypeOK
  <2>5. Range(in_use') = {}
    <3>1. \A x \in Range(in_use') : x \in Txns
      BY <2>4 DEF Range
    <3> QED  BY <2>3, <3>1 DEF Running
  <2> QED  BY <2>3, <2>4, <2>5, NothingInRange
<1> QED  BY <1>1, <1>2

LEMMA NextLoadedHasState ==
  ASSUME Stepping, NEW p \in Parts, LoadedHasState(p)
  PROVE  LoadedHasState(p)'
<1> SUFFICES ASSUME p \in on_disk', p \in loaded' PROVE state'[p] # None
  BY DEF LoadedHasState
<1>1. ~CrashServer
  BY CrashDoes
<1>2. CASE LoadPart(p)
  BY <1>2, LoadPartDoes DEF LoadedHasState, None
<1>3. CASE GrabOldPart(p)
  BY <1>3, GrabOldPartDoes DEF LoadedHasState
<1>4. ASSUME NEW x \in Txns, WritePart(x, p) PROVE state'[p] # None
  BY <1>4, WritePartDoes DEF None
<1> QED  BY <1>1, <1>2, <1>3, <1>4, PartIsSteady DEF LoadedHasState, Steady

-----------------------------------------------------------------------------
LEMMA MergingChanges ==
  ASSUME Stepping, NEW x \in Txns
  PROVE  \/ merging'[x] = merging[x] \/ merging'[x] = {}
         \/ \E p \in Parts : WritePart(x, p) /\ merging'[x] = CoveredBy(p, "Active")
<1>1. CASE CrashServer
  BY <1>1, CrashDoes
<1>2. ASSUME NEW p \in Parts, WritePart(x, p) PROVE merging'[x] = CoveredBy(p, "Active")
  BY <1>2, WritePartDoes
<1>3. CASE AddNewPart(x) \/ Truncate(x) \/ UndoPart(x)
  BY <1>3, AddNewPartDoes, TruncateDoes, UndoPartDoes
<1>4. CASE LockedStep(x)
  BY <1>4, RemoveOldPartDoes, AppendRemovalDoes, SkipRolledBackDoes, TruncateEndsDoes, ActivatePartDoes DEF LockedStep
<1> QED  BY <1>1, <1>2, <1>3, <1>4, QueryChanges DEF SameQuery, NoQuery

LEMMA NextMergesAreDisjoint ==
  ASSUME Stepping, NEW x \in Txns, NEW y \in Txns, MergesAreDisjoint(x, y)
  PROVE  MergesAreDisjoint(x, y)'
<1> SUFFICES ASSUME x # y PROVE merging'[x] \cap merging'[y] = {}
  BY DEF MergesAreDisjoint
<1>1. ASSUME NEW z \in Txns, NEW w \in Txns, w # z, NEW p \in Parts, WritePart(z, p)
      PROVE  merging'[z] \cap merging'[w] = {}
  <2>1. merging'[w] = merging[w] /\ merging'[z] = CoveredBy(p, "Active") /\ \A q \in CoveredBy(p, "Active") : MayMerge(z, q)
    BY <1>1, WritePartDoes DEF Others, Same, SameQuery
  <2> QED  BY <2>1 DEF MayMerge
<1> QED  BY <1>1, MergingChanges DEF MergesAreDisjoint

LEMMA WritingMoves ==
  ASSUME Stepping, NEW x \in Txns, Writing(x)
  PROVE  \/ Writing(x)' /\ new_part'[x] = new_part[x] /\ merging'[x] = merging[x]
         \/ CrashServer \/ ActivatePart(x) \/ UndoPart(x)
<1>1. CASE SameQuery(x)
  BY <1>1 DEF SameQuery, Writing, Truncating
<1>2. ASSUME NEW p \in Parts, WritePart(x, p) PROVE FALSE
  BY <1>2, WritePartDoes DEF Writing
<1>3. CASE AddNewPart(x)
  <2>1. new_part[x] \in Parts /\ new_part'[x] = new_part[x] /\ merging'[x] = merging[x] /\ client'[x] \in {"undo", "remove"}
    BY <1>3, AddNewPartDoes
  <2>2. new_part'[x] # None
    BY <2>1, TableAssumption
  <2> QED  BY <2>1, <2>2 DEF Writing, Truncating
<1>4. ~Truncate(x)
  BY TruncateDoes DEF Writing
<1>5. CASE RemoveOldPart(x)
  BY <1>5, RemoveOldPartDoes DEF Writing, Truncating
<1>6. CASE AppendRemoval(x)
  BY <1>6, AppendRemovalDoes DEF Writing, Truncating
<1>7. ~SkipRolledBack(x) /\ ~TruncateEnds(x)
  BY SkipRolledBackDoes, TruncateEndsDoes DEF Writing
<1>8. ~NoQuery(x)
  BY DEF NoQuery, AtQueries, Writing
<1> QED  BY <1>1, <1>2, <1>3, <1>4, <1>5, <1>6, <1>7, <1>8, QueryChanges DEF LockedStep

LEMMA WritingStarts ==
  ASSUME Stepping, NEW x \in Txns, Writing(x)'
  PROVE  (Writing(x) /\ new_part'[x] = new_part[x]) \/ \E p \in Parts : WritePart(x, p)
<1>1. CASE SameQuery(x)
  BY <1>1 DEF SameQuery, Writing, Truncating
<1>2. ~CrashServer
  BY CrashDoes DEF Writing
<1>3. CASE AddNewPart(x)
  BY <1>3, AddNewPartDoes DEF Writing
<1>4. ~Truncate(x)
  BY TruncateDoes DEF Writing, Truncating
<1>5. CASE RemoveOldPart(x)
  BY <1>5, RemoveOldPartDoes DEF Writing, Truncating
<1>6. CASE AppendRemoval(x)
  BY <1>6, AppendRemovalDoes DEF Writing, Truncating
<1>7. ~SkipRolledBack(x) /\ ~TruncateEnds(x) /\ ~ActivatePart(x) /\ ~UndoPart(x)
  BY SkipRolledBackDoes, TruncateEndsDoes, ActivatePartDoes, UndoPartDoes DEF Writing, Truncating
<1>8. ~NoQuery(x)
  BY DEF NoQuery, AtQueries, Writing
<1> QED  BY <1>1, <1>2, <1>3, <1>4, <1>5, <1>6, <1>7, <1>8, QueryChanges DEF LockedStep

LEMMA NextMergingIsMine ==
  ASSUME Stepping, Names, NEW x \in Txns, MergingIsMine(x)
  PROVE  MergingIsMine(x)'
<1> SUFFICES ASSUME merging'[x] # {}
             PROVE  /\ Writing(x)' /\ merging'[x] \subseteq Covers[new_part'[x]]
                    /\ \A p \in merging'[x] : CreatedFor(x, p)'
  BY DEF MergingIsMine
<1>b. Base
  BY DEF Stepping
<1>1. CASE merging'[x] = merging[x]
  <2>1. Writing(x) /\ merging[x] \subseteq Covers[new_part[x]] /\ \A p \in merging[x] : CreatedFor(x, p)
    BY <1>1 DEF MergingIsMine
  <2>2. HasBegun(x)
    BY <2>1 DEF Writing, HasBegun
  <2>3. \A p \in merging'[x] : CreatedFor(x, p)'
    <3>1. merging[x] \subseteq Parts
      BY <1>b, Types
    <3> QED  BY <1>1, <2>1, <2>2, <3>1, CreatedForStays
  <2>4. ~CrashServer /\ ~ActivatePart(x) /\ ~UndoPart(x)
    BY CrashDoes, ActivatePartDoes, UndoPartDoes
  <2> QED  BY <1>1, <2>1, <2>3, <2>4, WritingMoves
<1>2. ASSUME NEW p \in Parts, WritePart(x, p), merging'[x] = CoveredBy(p, "Active")
      PROVE  /\ Writing(x)' /\ merging'[x] \subseteq Covers[new_part'[x]]
             /\ \A q \in merging'[x] : CreatedFor(x, q)'
  <2>1. /\ client[x] = "ready" /\ client'[x] = "written" /\ csn[x] = UnknownCSN /\ new_part'[x] = p
        /\ \A q \in CoveredBy(p, "Active") : MayMerge(x, q)
    BY <1>2, WritePartDoes
  <2>2. HasBegun(x) /\ ~Writing(x)
    BY <2>1 DEF Writing, HasBegun
  <2>3. ASSUME NEW q \in CoveredBy(p, "Active") PROVE CreatedFor(x, q)'
    <3>1. q \in Parts /\ state[q] # None /\ VisibleTo(x, q)
      BY <2>1, <2>3, TableAssumption DEF CoveredBy, MayMerge, None
    <3>2. CreatedFor(x, q)
      BY <1>b, <2>1, <2>2, <3>1, VisibleIsCreatedFor
    <3> QED  BY <2>2, <3>1, <3>2, CreatedForStays
  <2> QED  BY <1>2, <2>1, <2>3 DEF CoveredBy, Writing
<1> QED  BY <1>1, <1>2, MergingChanges

LEMMA LockHolder ==
  ASSUME Names, NEW x \in Txns, Locking(x)
  PROVE  /\ parts_lock = x /\ parts_lock # None /\ \A y \in Txns : Locking(y) => y = x
BY TableAssumption DEF Names, LockIsHeld

LEMMA NextTruncateIsAlone ==
  ASSUME Stepping, Names, NEW x \in Txns, TruncateIsAlone(x)
  PROVE  TruncateIsAlone(x)'
<1> SUFFICES ASSUME Locking(x)', Truncating(x)' PROVE NothingIsMerged'
  BY DEF TruncateIsAlone
<1>1. CASE Truncate(x)
  <2>1. NothingIsMerged /\ parts_lock' = x
    BY <1>1, TruncateDoes
  <2>2. ASSUME NEW y \in Txns, NEW p \in Parts, WritePart(y, p) PROVE FALSE
    BY <2>1, <2>2, WritePartDoes, TableAssumption
  <2> QED  BY <2>1, <2>2, MergingChanges DEF NothingIsMerged
<1>2. CASE ~Truncate(x)
  <2>1. Locking(x) /\ Truncating(x)
    <3>1. CASE SameQuery(x)
      BY <3>1 DEF SameQuery, Locking, Truncating
    <3>2. ~CrashServer
      BY CrashDoes DEF Locking
    <3>3. ~AddNewPart(x)
      BY AddNewPartDoes, TableAssumption DEF Truncating
    <3>4. CASE LockedStep(x)
      BY <3>4, RemoveOldPartDoes, AppendRemovalDoes, SkipRolledBackDoes, TruncateEndsDoes, ActivatePartDoes
         DEF LockedStep, Locking, Truncating
    <3>5. ~UndoPart(x) /\ \A p \in Parts : ~WritePart(x, p)
      BY UndoPartDoes, WritePartDoes DEF Locking
    <3>6. ~NoQuery(x)
      BY DEF NoQuery, AtQueries, Locking
    <3> QED  BY <1>2, <3>1, <3>2, <3>3, <3>4, <3>5, <3>6, QueryChanges
  <2>2. NothingIsMerged /\ parts_lock # None
    BY <2>1, LockHolder DEF TruncateIsAlone
  <2>3. ASSUME NEW y \in Txns, NEW p \in Parts, WritePart(y, p) PROVE FALSE
    BY <2>2, <2>3, WritePartDoes
  <2> QED  BY <2>2, <2>3, MergingChanges DEF NothingIsMerged
<1> QED  BY <1>1, <1>2

LEMMA NextPreActiveIsWritten ==
  ASSUME Stepping, NEW p \in Parts, PreActiveIsWritten(p)
  PROVE  PreActiveIsWritten(p)'
<1> SUFFICES ASSUME state'[p] = "PreActive"
             PROVE  \E x \in Txns : Writing(x)' /\ p = new_part'[x]
  BY DEF PreActiveIsWritten
<1>1. ASSUME NEW x \in Txns, WritePart(x, p) PROVE Writing(x)' /\ p = new_part'[x]
  BY <1>1, WritePartDoes DEF Writing
<1>2. CASE state'[p] = state[p]
  <2>1. PICK x \in Txns : Writing(x) /\ p = new_part[x]
    BY <1>2 DEF PreActiveIsWritten
  <2>2. ~CrashServer
    BY CrashDoes DEF None
  <2>3. ~ActivatePart(x)
    BY <2>1, ActivatePartDoes
  <2>4. ~UndoPart(x)
    BY <2>1, UndoPartDoes
  <2> QED  BY <2>1, <2>2, <2>3, <2>4, WritingMoves
<1> QED  BY <1>1, <1>2, StateMoves DEF None

-----------------------------------------------------------------------------
(* SetToSeq lists every element. *)
LEMMA SetToSeqIsOnto ==
  ASSUME NEW S, IsFiniteSet(S)
  PROVE  Range(SetToSeq(S)) = S
<1>1. PICK n \in Nat : n = Cardinality(S)
  BY FS_CardinalityType
<1>2. \E f \in [1..n -> S] : IsInjective(f)
  <2>1. PICK f \in Bijection(1..n, S) : TRUE
    BY <1>1, FS_CardinalityType DEF ExistsBijection
  <2> QED  BY <2>1 DEF Bijection, Injection
<1>3. PICK g : g = SetToSeq(S)
  OBVIOUS
<1>4. g \in [1..n -> S] /\ IsInjective(g)
  BY <1>1, <1>2, <1>3 DEF SetToSeq
<1>5. g \in Injection(1..n, S)
  BY <1>4 DEF Injection
<1>6. Cardinality(1..n) = n
  BY FS_Interval
<1>7. g \in Surjection(1..n, S)
  BY <1>1, <1>5, <1>6, FS_Injection
<1> QED  BY <1>3, <1>4, <1>7 DEF Surjection, Range

(* While a query holds the lock of the set of parts, only this query and   *)
(* the loading of parts change states.                                     *)
LEMMA LockedStateMoves ==
  ASSUME TableStep, NEW x \in Txns, Locking(x), NEW p \in Parts
  PROVE  \/ state'[p] = state[p] \/ CrashServer \/ (LoadPart(p) /\ state[p] = None)
         \/ state'[p] = "Outdated" /\ (AppendRemoval(x) \/ SkipRolledBack(x)) /\ Truncating(x) /\ p = Head(covered[x])
         \/ ActivatePart(x) /\ (p = new_part[x] \/ p \in Covers[new_part[x]])
<1>s. Stepping /\ Names
  BY DEF TableStep
<1>1. parts_lock = x /\ parts_lock # None /\ \A y \in Txns : Locking(y) => y = x
  BY <1>s, LockHolder
<1>2. ~GrabOldPart(p)
  BY <1>s, <1>1, GrabOldPartDoes
<1>3. \A y \in Txns : ~WritePart(y, p)
  BY <1>s, <1>1, WritePartDoes
<1>4. \A y \in Txns : ~UndoPart(y)
  BY <1>s, <1>1, UndoPartDoes
<1>5. \A y \in Txns : ~(OutdateCreated(y) /\ Treats(y, p))
  BY <1>s, <1>1, OutdateCreatedDoes DEF Treats
<1>6. ASSUME NEW y \in Txns, AppendRemoval(y) \/ SkipRolledBack(y) \/ ActivatePart(y) PROVE y = x
  <2>1. Locking(y)
    BY <1>6, <1>s, AppendRemovalDoes, SkipRolledBackDoes, ActivatePartDoes DEF Locking
  <2> QED  BY <1>1, <2>1
<1>7. ASSUME LoadPart(p) PROVE state[p] = None
  BY <1>s, <1>7, LoadPartDoes DEF Stepping, Base, TableInv, PartInv, PartsArePresent, Present
<1> QED  BY <1>s, <1>1, <1>2, <1>3, <1>4, <1>5, <1>6, <1>7, StateMoves DEF Outdates, Activates

-----------------------------------------------------------------------------
(* A removed part is locked by its remover. *)
LEMMA RemovedIsLockedBy ==
  ASSUME Base, Removals, NEW x \in Txns, NEW p \in Parts, Removed(x, p), state[p] # None
  PROVE  version[p].removal_tid = tid[x] /\ HasBegun(x) /\ tid[x] # EmptyTID /\ tid[x] # PrehistoricTID
<1>1. CASE IsCommitted(x)
  BY <1>1, CommittedFacts, BegunFacts DEF Removals, RemovalIsFinal, Removed
<1>2. CASE ~IsCommitted(x)
  <2>1. p \in Range(Holding(x))
    BY <1>2 DEF Removed, Removes, Holding
  <2>2. HasBegun(x) /\ version[p].removal_tid = tid[x]
    BY <2>1, HeldIsPresent DEF Base, TableInv, HasBegun
  <2> QED  BY <2>2, BegunFacts
<1> QED  BY <1>1, <1>2

LEMMA OneRemover ==
  ASSUME Base, Removals, NEW p \in Parts, state[p] # None,
         NEW x \in Txns, Removed(x, p), NEW y \in Txns, Removed(y, p)
  PROVE  x = y
<1>1. HasBegun(x) /\ tid[x] = tid[y]
  BY RemovedIsLockedBy
<1> QED  BY <1>1, BegunFacts

(* A transaction that has removed parts has begun. *)
LEMMA RemoverHasBegun ==
  ASSUME Base, NEW x \in Txns, NEW p, Removes(x, p) \/ Creates(x, p)
  PROVE  HasBegun(x) /\ ~IsReadOnly(x)
<1>1. ~IsReadOnly(x)
  BY EmptyRange DEF Removes, Creates, IsReadOnly
<1> QED  BY <1>1 DEF HasBegun, Base, TxnInv, Outcome

LEMMA RemovedEnds ==
  ASSUME Stepping, NEW x \in Txns, NEW p \in Parts, Removed(x, p), ~Removed(x, p)'
  PROVE  ~IsCommitted(x) /\ (CrashServer \/ (RestoreRemoved(x) /\ Treats(x, p)))
<1>b. Base
  BY DEF Stepping
<1>1. Removes(x, p) /\ Removes(x, p)' /\ ~IsReadOnly(x)
  BY <1>b, ChangesStay, RemoverHasBegun DEF Removed
<1>2. ~IsCommitted(x)' /\ ~IsCommitted(x)
  BY <1>1, LifeGoesOn DEF Removed
<1>3. /\ finish[x] \notin {"clear", "unlock", "release", "done"}
      /\ finish[x] = "activate" => p \in Range(todo[x])
  BY <1>2 DEF Removed
<1>4. ~SameEnd(x)
  BY <1>1, <1>2, <1>3 DEF Removed, SameEnd
<1>5. ASSUME finish'[x] \notin {"activate", "clear", "unlock", "release", "done"} PROVE FALSE
  BY <1>1, <1>5 DEF Removed
<1>6. CASE Deciding(x)
  <2>1. ~Begin(x)
    BY <1>1, BeginDoes
  <2>2. ~(ClientRollsBack(x) \/ Kill(x) \/ RollBackUnknownState(x))
    BY <1>4, <1>5, RollbackStarts
  <2>3. ~BeforeCommit(x)
    BY <1>4, <1>5, BeforeCommitDoes DEF Goes, None
  <2>4. ~(Commit(x) \/ CommitLost(x) \/ Postpone(x) \/ CommitRefused(x))
    BY <1>5, CommitDoes, PostponeDoes, CommitRefusedDoes DEF Goes, None
  <2>5. ~DecideUnknownState(x) /\ ~AfterCommit(x) /\ ~Release(x)
    BY <1>3, <1>5, DecideDoes, AfterCommitDoes, ReleaseDoes
  <2> QED  BY <1>6, <2>1, <2>2, <2>3, <2>4, <2>5 DEF Deciding
<1>7. CASE Treating(x)
  <2>t. todo[x] \in Seq(Parts)
    BY <1>b, Types
  <2>1. ~(StampCreated(x) \/ StampRemoved(x))
    <3>1. finish[x] \notin {"stamp_created", "stamp_removed"}
      BY <1>b, <1>1, <1>2 DEF Base, TxnInv, Outcome, IsCommitted
    <3> QED  BY <3>1, StampCreatedDoes, StampRemovedDoes
  <2>2. ~MarkRolledBack(x)
    BY <1>5, MarkRolledBackDoes DEF NextPhaseIs, NextPartIs
  <2>3. ~OutdateCreated(x)
    <3>1. ASSUME OutdateCreated(x) PROVE finish'[x] = "outdate" \/ (finish'[x] = "activate" /\ todo'[x] = removing[x])
      BY <3>1, OutdateCreatedDoes DEF NextPhaseIs, NextPartIs
    <3> QED  BY <1>1, <1>5, <3>1 DEF Removed, Removes
  <2>4. ~ClearRemoved(x) /\ ~UnlockRemoved(x)
    BY <1>3, ClearRemovedDoes, UnlockRemovedDoes
  <2>5. ASSUME RestoreRemoved(x) PROVE Treats(x, p)
    <3>1. finish[x] = "activate" /\ p \in Range(todo[x]) /\ todo[x] # <<>>
      BY <1>3, <2>5, RestoreRemovedDoes, EmptyRange
    <3>2. finish'[x] = "activate" /\ todo'[x] = Tail(todo[x])
      BY <2>5, <3>1, RestoreRemovedDoes DEF NextPartIs
    <3>3. p \notin Range(Tail(todo[x]))
      BY <1>1, <3>2 DEF Removed
    <3> QED  BY <2>t, <3>1, <3>3, HeadAndTail DEF Treats
  <2> QED  BY <1>2, <1>7, <2>1, <2>2, <2>3, <2>4, <2>5 DEF Treating
<1> QED  BY <1>2, <1>4, <1>6, <1>7, EndChanges

LEMMA RemovedStarts ==
  ASSUME Stepping, NEW x \in Txns, NEW p \in Parts, Removed(x, p)', ~Removed(x, p)
  PROVE  /\ RemoveOldPart(x) /\ p = Head(covered[x]) /\ csn[x] = UnknownCSN /\ version[p].removal_tid = EmptyTID
         /\ client'[x] = "append" /\ ~Removes(x, p)
<1>b. Base
  BY DEF Stepping
<1>1. CASE ~Removes(x, p)
  <2>1. RemoveOldPart(x) /\ p = Head(covered[x])
    BY <1>1, ChangesStay DEF Removed
  <2>2. removing'[x] # removing[x]
    BY <1>1 DEF Removed, Removes
  <2>3. csn[x] = UnknownCSN /\ version[p].removal_tid = EmptyTID /\ client'[x] = "append"
    BY <2>1, <2>2, RemoveOldPartDoes
  <2> QED  BY <1>1, <2>1, <2>3
<1>2. CASE Removes(x, p)
  <2>1. ~IsCommitted(x) /\ ~IsReadOnly(x)
    BY <1>b, <1>2, RemoverHasBegun DEF Removed
  <2>2. \/ finish[x] \in {"clear", "unlock", "release", "done"}
        \/ finish[x] = "activate" /\ p \notin Range(todo[x])
    BY <1>2, <2>1 DEF Removed
  <2>3. ~IsCommitted(x)'
    <3>1. ~(Commit(x) \/ CommitLost(x))
      BY <2>2, CommitDoes DEF None
    <3> QED  BY <2>1, <3>1, CommitStarts
  <2>4. /\ finish'[x] \notin {"clear", "unlock", "release", "done"}
        /\ finish'[x] = "activate" => p \in Range(todo'[x])
    BY <2>3 DEF Removed
  <2>5. ~SameEnd(x)
    BY <2>2, <2>4 DEF SameEnd
  <2>6. ~CrashServer
    BY <1>b, <1>2, <2>4, CrashDoes, RemoverHasBegun DEF HasBegun
  <2>7. ~Deciding(x)
    <3>1. ~Begin(x)
      BY <2>2, BeginDoes DEF None
    <3>2. ~(ClientRollsBack(x) \/ Kill(x) \/ RollBackUnknownState(x))
      BY <2>2, <2>5, RollbackStarts DEF None
    <3>3. ~BeforeCommit(x)
      BY <2>2, <2>5, BeforeCommitDoes DEF None
    <3>4. ~(Commit(x) \/ CommitLost(x) \/ Postpone(x) \/ CommitRefused(x))
      BY <2>2, CommitDoes, PostponeDoes, CommitRefusedDoes DEF None
    <3>5. ~DecideUnknownState(x) /\ ~AfterCommit(x) /\ ~Release(x)
      BY <2>2, <2>4, DecideDoes, AfterCommitDoes, ReleaseDoes
    <3> QED  BY <3>1, <3>2, <3>3, <3>4, <3>5 DEF Deciding
  <2>8. ~Treating(x)
    <3>t. todo[x] \in Seq(Parts)
      BY <1>b, Types
    <3>1. ~(StampCreated(x) \/ StampRemoved(x) \/ MarkRolledBack(x) \/ OutdateCreated(x))
      BY <2>2, StampCreatedDoes, StampRemovedDoes, MarkRolledBackDoes, OutdateCreatedDoes
    <3>2. ~RestoreRemoved(x)
      <4>1. ASSUME RestoreRemoved(x)
            PROVE  finish'[x] = "clear" \/ (finish'[x] = "activate" /\ todo'[x] = Tail(todo[x]) /\ todo[x] # <<>>)
        BY <4>1, RestoreRemovedDoes DEF NextPhaseIs, NextPartIs
      <4> QED  BY <3>t, <2>2, <2>4, <4>1, SequenceFacts, RestoreRemovedDoes
    <3>3. ~ClearRemoved(x) /\ ~UnlockRemoved(x)
      BY <2>4, ClearRemovedDoes, UnlockRemovedDoes DEF NextPhaseIs
    <3> QED  BY <3>1, <3>2, <3>3 DEF Treating
  <2> QED  BY <2>5, <2>6, <2>7, <2>8, EndChanges
<1> QED  BY <1>1, <1>2

-----------------------------------------------------------------------------
(* A part whose metadata in memory say that it was rolled back.            *)
LEMMA RolledBackIsMadeByDoomed ==
  ASSUME Base, Names, NEW p \in Parts, state[p] # None, version[p].creation_csn = RolledBackCSN
  PROVE  \E x \in Txns : p \in Writes[x] /\ Doomed(x) /\ HasBegun(x) /\ version[p].creation_tid = tid[x]
<1>1. TrueCreation(version[p].creation_tid, RolledBackCSN)
  BY DEF Base, TableInv, PartInv, MetadataIsTrue, TrueMetadata
<1>2. ~TrueRemoval(version[p].creation_tid, RolledBackCSN)
  <2>1. ASSUME NEW t PROVE [csn |-> RolledBackCSN, tid |-> t] \notin committed
    BY CSNFacts DEF Base, TxnInv, CommitNumbers
  <2>2. RolledBackCSN # UnknownCSN /\ RolledBackCSN # PrehistoricCSN
    BY CSNFacts
  <2> QED  BY <2>1, <2>2 DEF TrueRemoval
<1>3. version[p].creation_tid \in DoomedTIDs
  BY <1>1, <1>2 DEF TrueCreation
<1>4. Maker(p, version[p].creation_tid)
  BY DEF Names, MakerIsNamed
<1>5. version[p].creation_tid # EmptyTID
  BY <1>4, MakerHasTID
<1>6. PICK x \in Txns : Doomed(x) /\ version[p].creation_tid = tid[x]
  BY <1>3, <1>5 DEF DoomedTIDs
<1>7. tid[x] # PrehistoricTID
  BY DEF Base, TableInv, TIDsAreOwn
<1>8. PICK y \in Txns : p \in Writes[y] /\ HasBegun(y) /\ version[p].creation_tid = tid[y]
  BY <1>4, <1>6, <1>7 DEF Maker
<1>9. x = y
  BY <1>6, <1>8, BegunFacts
<1> QED  BY <1>6, <1>8, <1>9

(* What loadDataPart() finds out about the creation of a part, *)
LEMMA LoadedCreation ==
  ASSUME Stepping, Names, NEW p \in Parts, LoadPart(p), p \in loaded'
  PROVE  \/ /\ FixedFileOf(p).creation_csn = RolledBackCSN /\ WasInvolvedInTransaction(FileOf(p))
            /\ \E x \in Txns : p \in Writes[x] /\ Doomed(x)
         \/ /\ FixedFileOf(p).creation_csn # RolledBackCSN
            /\ p \in Initial \/ \E x \in Txns : Creates(x, p) /\ IsCommitted(x)
<1>0. Base /\ Base' /\ p \in on_disk /\ p \notin loaded /\ alive /\ (\A y \in Txns : Same(y)) /\ committed' = committed
  BY LoadPartDoes, LogIsSame DEF Stepping
<1>m. \/ p \in Initial
      \/ \E x \in Txns : p \in Writes[x] /\ HasBegun(x) /\ FileOf(p).creation_tid = tid[x] /\ file[p].creation_tid = tid[x]
  <2>1. CASE file[p] = NoMetadata
    <3>1. ~Maker(p, file[p].creation_tid)
      BY <1>0, <2>1, MakerHasTID, NoMetadataFacts
    <3> QED  BY <1>0, <3>1 DEF Names, MakerIsNamed
  <2>2. CASE file[p] # NoMetadata
    <3>1. FileOf(p) = file[p]
      BY <1>0, <2>2, FileFacts
    <3> QED  BY <1>0, <2>2, <3>1 DEF Names, MakerIsNamed, Maker
  <2> QED  BY <2>1, <2>2
<1>v. version'[p].creation_tid = FileOf(p).creation_tid /\ version'[p].creation_csn = FixedFileOf(p).creation_csn
  BY <1>0, LoadedFacts, FixedFileIs DEF SameCreation
<1>r. PICK t, c : t = FileOf(p).creation_tid /\ c = FixedFileOf(p).creation_csn
  OBVIOUS
<1>t. TrueCreation(t, c)'
  <2>1. TrueMetadata(version[p])'
    BY <1>0 DEF Base, TableInv, PartInv, MetadataIsTrue
  <2>2. TrueCreation(version[p].creation_tid, version[p].creation_csn)'
    BY <2>1 DEF TrueMetadata
  <2> QED  BY <1>r, <1>v, <2>2 DEF TrueCreation, TrueRemoval
<1>d. ASSUME NEW y \in Txns PROVE (Doomed(y)' <=> Doomed(y)) /\ tid'[y] = tid[y]
  BY <1>0 DEF Same, SameEnd, SameQuery, SameLife, Doomed
<1>n. \A y \in Txns : tid[y] # PrehistoricTID
  BY <1>0 DEF Base, TableInv, TIDsAreOwn
<1>e. FileOf(p).creation_tid # EmptyTID
  <2>1. CASE file[p] = NoMetadata
    BY <2>1, <1>0, FileFacts, PrehistoricFacts, MetadataFacts
  <2>2. CASE file[p] # NoMetadata
    <3>1. FileOf(p) = file[p] /\ file[p] # NoMetadata
      BY <1>0, <2>2, FileFacts
    <3>2. Maker(p, file[p].creation_tid)
      BY <1>0, <3>1 DEF Names, MakerIsNamed
    <3> QED  BY <1>0, <3>1, <3>2, MakerHasTID
  <2> QED  BY <2>1, <2>2
<1>1. CASE FixedFileOf(p).creation_csn = RolledBackCSN
  <2>1. ~TrueRemoval(t, RolledBackCSN)'
    <3>1. [csn |-> RolledBackCSN, tid |-> t] \notin committed'
      BY <1>0, CSNFacts DEF Base, TxnInv, CommitNumbers
    <3>2. RolledBackCSN # UnknownCSN /\ RolledBackCSN # PrehistoricCSN
      BY CSNFacts
    <3> QED  BY <3>1, <3>2 DEF TrueRemoval
  <2>2. PICK x \in Txns : Doomed(x) /\ FileOf(p).creation_tid = tid[x]
    BY <1>1, <1>r, <1>t, <1>d, <1>e, <2>1 DEF TrueCreation, DoomedTIDs
  <2>3. WasInvolvedInTransaction(FileOf(p))
    BY <1>n, <2>2 DEF WasInvolvedInTransaction
  <2>4. p \in Writes[x]
    <3>1. Maker(p, tid[x])
      <4>1. file[p] # NoMetadata
        BY <1>0, <1>n, <2>2, FileFacts, PrehistoricFacts
      <4> QED  BY <1>0, <2>2, <4>1, FileFacts DEF Names, MakerIsNamed
    <3>2. PICK y \in Txns : p \in Writes[y] /\ HasBegun(y) /\ tid[x] = tid[y]
      BY <1>n, <3>1 DEF Maker
    <3> QED  BY <1>0, <3>2, BegunFacts
  <2> QED  BY <1>1, <2>2, <2>3, <2>4
<1>2. CASE FixedFileOf(p).creation_csn # RolledBackCSN
  <2>1. CASE p \in Initial
    BY <1>2, <2>1
  <2>2. ASSUME NEW x \in Txns, p \in Writes[x], HasBegun(x), FileOf(p).creation_tid = tid[x], file[p].creation_tid = tid[x]
        PROVE  Creates(x, p) /\ IsCommitted(x)
    <3>1. WasInvolvedInTransaction(FileOf(p))
      BY <1>n, <2>2 DEF WasInvolvedInTransaction
    <3>2. FixedFileOf(p).creation_csn # UnknownCSN
      BY <1>0, <3>1, FixedFileIs
    <3>3. IsCommitted(x)
      BY <1>0, <1>n, <1>r, <1>t, <1>2, <2>2, <3>2 DEF TrueCreation, TrueRemoval, IsCommitted
    <3>4. Made(x, p)
      BY <1>0, <2>2 DEF Made
    <3> QED  BY <1>0, <2>2, <3>3, <3>4, CommittedFacts DEF Names, OwnIsCreated
  <2> QED  BY <1>m, <1>2, <2>1, <2>2
<1> QED  BY <1>1, <1>2

(* and about its removal. *)
LEMMA LoadedRemover ==
  ASSUME Stepping, Names, Removals, NEW p \in Parts, LoadPart(p), p \in loaded'
  PROVE  \/ /\ FixedFileOf(p).removal_csn = UnknownCSN /\ FixedFileOf(p).removal_tid = EmptyTID
            /\ ~ \E x \in Txns : Removes(x, p) /\ IsCommitted(x)
         \/ /\ FixedFileOf(p).removal_csn # UnknownCSN /\ WasInvolvedInTransaction(FileOf(p))
            /\ \E x \in Txns : Removes(x, p) /\ IsCommitted(x) /\ version'[p].removal_tid = tid[x]
<1>0. Base /\ p \in on_disk /\ p \notin loaded /\ alive
  BY LoadPartDoes DEF Stepping
<1>p. FileOf(p).removal_tid # PrehistoricTID /\ (FileOf(p).removal_tid # EmptyTID => FileOf(p) = file[p])
  <2>1. file[p].removal_tid # PrehistoricTID
    BY DEF Removals, PreparedIsInMemory
  <2> QED  BY <1>0, <2>1, FileFacts, PrehistoricFacts, MetadataFacts
<1>1. CASE FixedFileOf(p).removal_csn = UnknownCSN
  <2>1. FixedFileOf(p).removal_tid = EmptyTID
    <3>1. ~WasInvolvedInTransaction(FileOf(p)) => FileOf(p).removal_tid = EmptyTID
      BY <1>p DEF WasInvolvedInTransaction
    <3> QED  BY <1>0, <1>1, <3>1, FixedFileIs
  <2>2. ASSUME NEW x \in Txns, Removes(x, p), IsCommitted(x) PROVE FALSE
    <3>1. file[p].removal_tid = tid[x]
      BY <1>0, <2>2 DEF Removals, RemovalIsFinal
    <3>2. version'[p].removal_tid = tid[x]
      BY <2>2, <3>1, LoadedCommittedRemoval
    <3>3. tid[x] # EmptyTID /\ tid[x] # PrehistoricTID
      BY <1>0, <2>2, CommittedFacts, BegunFacts
    <3>4. tid[x] \notin {EmptyTID, PrehistoricTID}
      BY <3>3
    <3> QED  BY <1>1, <3>2, <3>4, LoadedRemoval
  <2> QED  BY <1>1, <2>1, <2>2
<1>2. CASE FixedFileOf(p).removal_csn # UnknownCSN
  <2>1. TrueRemoval(FileOf(p).removal_tid, FixedFileOf(p).removal_csn)
    <3>1. TrueRemoval(FileOf(p).removal_tid, FileOf(p).removal_csn) /\ FileOf(p).removal_csn \in CSNs
      BY <1>0, FileFacts, MetadataFacts DEF TrueMetadata
    <3>2. FixedFileOf(p).removal_csn \in {FileOf(p).removal_csn, StoredOrFound(FileOf(p).removal_tid, FileOf(p).removal_csn)}
      BY <1>0, FixedFileIs
    <3> QED  BY <1>0, <3>1, <3>2, StoredOrFoundFacts DEF Base
  <2>2. PICK e \in committed : e.tid = FileOf(p).removal_tid
    BY <1>2, <1>p, <2>1 DEF TrueRemoval
  <2>3. FileOf(p).removal_tid \in NamedTIDs
    BY <1>0, FileFacts DEF NamesAreKnown
  <2>4. FileOf(p).removal_tid # EmptyTID
    BY <1>0, <2>2, DoomedHasNoCSN, EmptyIsDoomed DEF Base, TableInv
  <2>5. PICK x \in Txns : HasBegun(x) /\ FileOf(p).removal_tid = tid[x]
    BY <1>p, <2>3, <2>4 DEF NamedTIDs, HasBegun
  <2>6. IsCommitted(x)
    BY <2>2, <2>5 DEF IsCommitted
  <2>7. file[p].removal_tid = tid[x]
    BY <1>p, <2>4, <2>5
  <2>8. Removes(x, p)
    BY <2>5, <2>7 DEF Removals, FileLockIsNamed
  <2>9. version'[p].removal_tid = tid[x]
    BY <2>6, <2>7, LoadedCommittedRemoval
  <2>10. WasInvolvedInTransaction(FileOf(p))
    BY <1>p, <2>4 DEF WasInvolvedInTransaction
  <2> QED  BY <1>2, <2>6, <2>8, <2>9, <2>10
<1> QED  BY <1>1, <1>2

(* So the parts that committed transactions leave are loaded as Active,    *)
(* and all others as Outdated.                                             *)
LEMMA LoadedOutcome ==
  ASSUME TableStep, NEW p \in Parts, LoadPart(p), p \in loaded'
  PROVE  \/ state'[p] = "Active" /\ Live(p) /\ ~started /\ version'[p].removal_tid = EmptyTID
         \/ /\ state'[p] = "Outdated" /\ ~Live(p) /\ version'[p].creation_csn = RolledBackCSN
            /\ \E x \in Txns : p \in Writes[x] /\ Doomed(x)
         \/ /\ state'[p] = "Outdated" /\ ~Live(p)
            /\ \E x \in Txns : Removes(x, p) /\ IsCommitted(x) /\ version'[p].removal_tid = tid[x]
<1>s. Stepping /\ Names /\ Removals /\ Table
  BY DEF TableStep
<1>0. Base /\ p \in on_disk /\ p \notin loaded
  BY <1>s, LoadPartDoes DEF Stepping
<1>1. /\ state'[p] = IF LoadsOutdated(p) THEN "Outdated" ELSE "Active"
      /\ version'[p].creation_csn = FixedFileOf(p).creation_csn
      /\ ~LoadsOutdated(p) => version'[p].removal_tid = FixedFileOf(p).removal_tid
  BY <1>s, LoadedFacts DEF SameCreation
<1>2. CASE FixedFileOf(p).creation_csn = RolledBackCSN
  <2>1. PICK x \in Txns : p \in Writes[x] /\ Doomed(x)
    BY <1>s, <1>2, LoadedCreation
  <2>2. LoadsOutdated(p)
    BY <1>s, <1>2, LoadedCreation DEF LoadsOutdated, IsGone
  <2>3. ~Live(p)
    <3>1. ASSUME NEW y \in Txns, Creates(y, p), IsCommitted(y) PROVE FALSE
      <4>1. y = x
        BY <1>s, <2>1, <3>1, CreatorFacts
      <4> QED  BY <2>1, <3>1, <4>1 DEF Doomed
    <3>2. p \notin Initial
      BY <2>1, TableAssumption
    <3> QED  BY <3>1, <3>2 DEF Live
  <2> QED  BY <1>1, <1>2, <2>1, <2>2, <2>3
<1>3. CASE FixedFileOf(p).removal_csn # UnknownCSN
  <2>1. PICK x \in Txns : Removes(x, p) /\ IsCommitted(x) /\ version'[p].removal_tid = tid[x]
    BY <1>s, <1>3, LoadedRemover
  <2>2. LoadsOutdated(p)
    BY <1>s, <1>3, LoadedRemover DEF LoadsOutdated, IsGone
  <2> QED  BY <1>1, <2>1, <2>2 DEF Live
<1>4. CASE FixedFileOf(p).creation_csn # RolledBackCSN /\ FixedFileOf(p).removal_csn = UnknownCSN
  <2>1. Live(p)
    BY <1>s, <1>4, LoadedCreation, LoadedRemover DEF Live
  <2>2. ~started
    BY <1>0, <1>s, <2>1 DEF Table, LiveIsThere
  <2>3. ~IsCovered(p)
    <3>1. ASSUME NEW q \in Parts, p \in Covers[q], state[q] = "Active" PROVE FALSE
      <4>1. Live(q)
        BY <1>s, <2>2, <3>1 DEF Table, LoadedIsLive
      <4>2. Share(p, q) /\ p # q
        BY <3>1, CoveredFacts
      <4> QED  BY <1>s, <2>1, <4>1, <4>2 DEF Table, OneLive
    <3> QED  BY <3>1 DEF IsCovered
  <2>4. ~LoadsOutdated(p)
    BY <1>4, <2>3 DEF LoadsOutdated, IsGone
  <2>5. FixedFileOf(p).removal_tid = EmptyTID
    BY <1>s, <1>4, LoadedRemover
  <2> QED  BY <1>1, <2>1, <2>2, <2>4, <2>5
<1> QED  BY <1>2, <1>3, <1>4

-----------------------------------------------------------------------------
(* A rolled back transaction never gets an entry. *)
LEMMA DoomedIsForEver ==
  ASSUME Stepping, NEW t \in DoomedTIDs
  PROVE  t # PrehistoricTID /\ \A e \in committed' : e.tid # t
<1>b. Base
  BY DEF Stepping
<1>1. t # PrehistoricTID /\ \A e \in committed : e.tid # t
  BY <1>b, DoomedHasNoCSN DEF Base, TableInv
<1>2. ASSUME NEW e \in committed', e \notin committed, e.tid = t PROVE FALSE
  <2>1. PICK z \in Txns : Running(z) /\ e.tid = tid[z]
    BY <1>b, <1>2, LogStepFacts, NextLogStep DEF Stepping, Base, Running
  <2>2. HasBegun(z)
    BY <1>b, <2>1 DEF Base, TxnInv, RunningIsUnfinished, HasBegun
  <2>3. tid[z] # EmptyTID /\ \A y \in Txns : tid[y] = tid[z] => y = z
    BY <1>b, <2>2, BegunFacts
  <2>4. Doomed(z)
    BY <1>2, <2>1, <2>3 DEF DoomedTIDs
  <2>5. Doomed(z)' /\ tid'[z] = tid[z]
    BY <2>2, <2>4, LifeGoesOn
  <2> QED  BY <2>1, <2>5 DEF Doomed, IsCommitted
<1> QED  BY <1>1, <1>2

LEMMA RolledBackStays ==
  ASSUME Stepping, NEW p \in Parts, version[p].creation_csn = RolledBackCSN,
         version'[p].creation_tid = version[p].creation_tid, version'[p].creation_csn # UnknownCSN
  PROVE  version'[p].creation_csn = RolledBackCSN
<1>1. PICK t : t = version[p].creation_tid
  OBVIOUS
<1>2. t \in DoomedTIDs
  <2>1. TrueCreation(t, RolledBackCSN)
    BY <1>1 DEF Stepping, Base, TableInv, PartInv, MetadataIsTrue, TrueMetadata
  <2>2. \A e \in committed : e.csn # RolledBackCSN
    BY CSNFacts DEF Stepping, Base, TxnInv, CommitNumbers
  <2>3. RolledBackCSN # UnknownCSN /\ RolledBackCSN # PrehistoricCSN
    BY CSNFacts
  <2> QED  BY <2>1, <2>2, <2>3 DEF TrueCreation, TrueRemoval
<1>3. t # PrehistoricTID /\ \A e \in committed' : e.tid # t
  BY <1>2, DoomedIsForEver
<1>4. TrueMetadata(version[p])'
  BY DEF Stepping, Base, TableInv, PartInv, MetadataIsTrue
<1>5. TrueCreation(version[p].creation_tid, version[p].creation_csn)'
  BY <1>4 DEF TrueMetadata
<1> QED  BY <1>1, <1>3, <1>5 DEF TrueCreation, TrueRemoval

LEMMA NextPreparedIsRolledBack ==
  ASSUME TableStep, NEW p \in Parts
  PROVE  PreparedIsRolledBack(p)'
<1> SUFFICES ASSUME version'[p].removal_tid = PrehistoricTID PROVE version'[p].creation_csn = RolledBackCSN
  BY DEF PreparedIsRolledBack
<1>s. Stepping /\ Base /\ Names /\ Table /\ PreparedIsRolledBack(p)
  BY DEF TableStep, Stepping, Table
<1>e. EmptyTID # PrehistoricTID /\ UnknownCSN # RolledBackCSN
  BY MetadataFacts, CSNFacts
<1>k. ASSUME Steady(p), version'[p].removal_tid = version[p].removal_tid PROVE version'[p].creation_csn = RolledBackCSN
  <2>1. version[p].creation_csn = RolledBackCSN
    BY <1>s, <1>k DEF PreparedIsRolledBack
  <2>2. version'[p].creation_tid = version[p].creation_tid /\ version'[p].creation_csn # UnknownCSN
    BY <1>e, <1>k, <2>1 DEF Steady
  <2> QED  BY <1>s, <2>1, <2>2, RolledBackStays
<1>1. ~CrashServer
  BY <1>s, <1>e, CrashDoes, NoMetadataFacts
<1>2. CASE GrabOldPart(p)
  <2>1. Kept(p)
    BY <1>s, <1>e, <1>2, GrabOldPartDoes, NoMetadataFacts DEF AllKept
  <2> QED  BY <1>k, <2>1, KeptIsSteady DEF Kept, SameNames
<1>3. CASE LoadPart(p)
  <2>1. CASE p \in loaded'
    <3>1. ASSUME NEW x \in Txns, IsCommitted(x) PROVE tid[x] # PrehistoricTID
      BY <1>s, <3>1, CommittedFacts, BegunFacts
    <3> QED  BY <1>3, <1>e, <2>1, <3>1, LoadedOutcome
  <2>2. CASE p \notin loaded'
    <3>1. Kept(p)
      BY <1>s, <1>3, <2>2, LoadPartDoes DEF AllKept
    <3> QED  BY <1>k, <3>1, KeptIsSteady DEF Kept, SameNames
  <2> QED  BY <2>1, <2>2
<1>4. ASSUME NEW x \in Txns, WritePart(x, p) PROVE FALSE
  <2>1. version'[p] = MetadataOf(tid[x]) /\ tid[x] \in TIDs
    BY <1>s, <1>4, WritePartDoes, Types
  <2> QED  BY <1>e, <2>1, MetadataOfFacts
<1>5. ASSUME NEW x \in Txns, RemoveOldPart(x), p = Head(covered[x])
      PROVE  version'[p].removal_tid = version[p].removal_tid
  <2>1. tid[x] # PrehistoricTID
    BY <1>s DEF Base, TableInv, TIDsAreOwn
  <2> QED  BY <1>s, <1>5, <2>1, RemoveOldPartDoes DEF LocksFor
<1>6. ASSUME NEW x \in Txns, UnlockRemoved(x), Treats(x, p) PROVE FALSE
  BY <1>s, <1>e, <1>6, UnlockRemovedDoes DEF LocksFor, Treats
<1> QED  BY <1>s, <1>1, <1>2, <1>3, <1>4, <1>5, <1>6, <1>k, LockChanges, PartIsSteady

LEMMA NextRemovedIsSeen ==
  ASSUME TableStep, NEW x \in Txns, NEW p \in Parts
  PROVE  RemovedIsSeen(x, p)'
<1> SUFFICES ASSUME Removes(x, p)' PROVE CreatedFor(x, p)'
  BY DEF RemovedIsSeen
<1>s. Stepping /\ Base /\ Table
  BY DEF TableStep, Stepping
<1>1. CASE Removes(x, p)
  <2>1. CreatedFor(x, p) /\ HasBegun(x)
    BY <1>s, <1>1, RemoverHasBegun DEF Table, RemovedIsSeen
  <2> QED  BY <1>s, <2>1, CreatedForStays
<1>2. CASE ~Removes(x, p)
  <2>1. RemoveOldPart(x) /\ p = Head(covered[x]) /\ removing'[x] # removing[x]
    BY <1>s, <1>2, ChangesStay DEF Removes
  <2>2. csn[x] = UnknownCSN /\ client[x] = "remove" /\ p \in Range(covered[x])
    BY <1>s, <2>1, RemoveOldPartDoes
  <2>3. CreatedFor(x, p)
    BY <1>s, <2>2 DEF Table, LoopIsFree, Locking
  <2> QED  BY <1>s, <2>2, <2>3, CreatedForStays DEF HasBegun
<1> QED  BY <1>1, <1>2

(* What the holder of the lock does not change stays. *)
LEMMA LockedStates ==
  ASSUME TableStep, NEW x \in Txns, Locking(x), Locking(x)', NEW p \in Parts
  PROVE  /\ state'[p] = "Active" => state[p] = "Active"
         /\ state[p] = "Active" => \/ state'[p] = "Active"
                                   \/ /\ AppendRemoval(x) \/ SkipRolledBack(x)
                                      /\ Truncating(x) /\ p = Head(covered[x])
<1>s. Stepping /\ Base /\ Table
  BY DEF TableStep, Stepping
<1>1. ~CrashServer
  BY <1>s, CrashDoes DEF Locking
<1>2. ~ActivatePart(x)
  BY <1>s, ActivatePartDoes DEF Locking
<1>3. started
  BY <1>s DEF Table, LoadingIsQuiet, Locking
<1>4. ASSUME LoadPart(p), state[p] = None PROVE state'[p] # "Active"
  <2>1. CASE p \in loaded'
    BY <1>3, <1>4, <2>1, LoadedOutcome
  <2>2. CASE p \notin loaded'
    BY <1>s, <1>4, <2>2, LoadPartDoes DEF None
  <2> QED  BY <2>1, <2>2
<1> QED  BY <1>1, <1>2, <1>4, LockedStateMoves DEF None

LEMMA NextLoopIsComplete ==
  ASSUME TableStep, NEW x \in Txns
  PROVE  LoopIsComplete(x)'
<1> SUFFICES ASSUME Adding(x)'
             PROVE  /\ Range(covered'[x]) \subseteq Covers[new_part'[x]]
                    /\ \A p \in Covers[new_part'[x]] :
                         state'[p] = "Active" => p \in Range(covered'[x]) \/ Removes(x, p)'
  BY DEF LoopIsComplete
<1>s. Stepping /\ Base /\ Table /\ Removals
  BY DEF TableStep, Stepping
<1>1. new_part'[x] = new_part[x] /\ (Adding(x) \/ (AddNewPart(x) /\ csn[x] = UnknownCSN))
  BY <1>s, AddingStarts
<1>n. new_part[x] \in Parts
  <2>1. new_part'[x] \in Parts \cup {None} /\ new_part'[x] # None
    BY <1>s, Types DEF Adding, Truncating, Stepping, Base, TxnInv, TxnTypes
  <2> QED  BY <1>1, <2>1
<1>2. CASE AddNewPart(x) /\ csn[x] = UnknownCSN
  <2>1. covered'[x] = PartsToReplace(x, new_part[x]) /\ state' = state
    BY <1>s, <1>2, AddNewPartDoes
  <2>2. PICK S, T : /\ S = CoveredBy(new_part[x], "Active")
                    /\ T = {q \in CoveredBy(new_part[x], "Outdated") : VisibleTo(x, q)}
    OBVIOUS
  <2>3. S \subseteq Covers[new_part[x]] /\ T \subseteq Covers[new_part[x]] /\ Covers[new_part[x]] \subseteq Parts
    BY <1>n, <2>2, TableAssumption DEF CoveredBy
  <2>4. IsFiniteSet(S) /\ IsFiniteSet(T)
    BY <2>3, TableAssumption, FS_Subset
  <2>5. /\ SetToSeq(S) \in Seq(Parts) /\ SetToSeq(T) \in Seq(Parts)
        /\ Range(SetToSeq(S)) = S /\ Range(SetToSeq(T)) = T
    <3>1. SetToSeq(S) \in Seq(S) /\ SetToSeq(T) \in Seq(T)
      BY <2>4, SetToSeqFacts
    <3>2. S \subseteq Parts /\ T \subseteq Parts
      BY <2>3
    <3> QED  BY <2>4, <3>1, <3>2, SetToSeqIsOnto
  <2>6. Range(covered'[x]) = S \cup T
    <3>1. covered'[x] = SetToSeq(S) \o SetToSeq(T)
      BY <2>1, <2>2 DEF PartsToReplace
    <3> QED  BY <2>5, <3>1, ConcatRange
  <2> QED  BY <1>1, <2>1, <2>2, <2>3, <2>6 DEF CoveredBy
<1>3. CASE Adding(x)
  <2>t. covered[x] \in Seq(Parts)
    BY <1>s, Types
  <2>0. Locking(x) /\ Locking(x)' /\ ~Truncating(x)
    BY <1>3 DEF Adding
  <2>1. /\ Range(covered[x]) \subseteq Covers[new_part[x]]
        /\ \A p \in Covers[new_part[x]] : state[p] = "Active" => p \in Range(covered[x]) \/ Removes(x, p)
    BY <1>s, <1>3 DEF Table, LoopIsComplete
  <2>2. \A p \in Covers[new_part[x]] : /\ state'[p] = "Active" => state[p] = "Active"
                                       /\ Removes(x, p) => Removes(x, p)'
    <3>1. Covers[new_part[x]] \subseteq Parts
      BY <1>n, TableAssumption
    <3> QED  BY <1>s, <2>0, <3>1, LockedStates, ChangesStay
  <2>3. \/ covered'[x] = covered[x]
        \/ AppendRemoval(x) /\ covered'[x] = Tail(covered[x]) /\ covered[x] # <<>> /\ client[x] = "append"
    <3>1. CASE SameQuery(x)
      BY <3>1 DEF SameQuery
    <3>2. ~CrashServer /\ ~Truncate(x) /\ ~UndoPart(x) /\ ~NoQuery(x) /\ ~AddNewPart(x) /\ \A q \in Parts : ~WritePart(x, q)
      BY <1>s, <2>0, CrashDoes, TruncateDoes, UndoPartDoes, AddNewPartDoes, WritePartDoes DEF Locking, NoQuery, AtQueries
    <3>3. CASE LockedStep(x)
      <4>1. ~SkipRolledBack(x) /\ ~TruncateEnds(x) /\ ~ActivatePart(x)
        BY <1>s, <2>0, SkipRolledBackDoes, TruncateEndsDoes, ActivatePartDoes DEF Locking
      <4>2. RemoveOldPart(x) => covered'[x] = covered[x]
        BY <1>s, <2>0, RemoveOldPartDoes DEF Locking
      <4> QED  BY <1>s, <3>3, <4>1, <4>2, AppendRemovalDoes DEF LockedStep
    <3> QED  BY <1>s, <3>1, <3>2, <3>3, QueryChanges
  <2>4. CASE covered'[x] = covered[x]
    BY <1>1, <2>1, <2>2, <2>4
  <2>5. CASE AppendRemoval(x) /\ covered'[x] = Tail(covered[x]) /\ covered[x] # <<>> /\ client[x] = "append"
    <3>1. Removes(x, Head(covered[x]))
      BY <1>s, <2>5 DEF Removals, AppendIsMine
    <3>2. Range(covered[x]) \subseteq {Head(covered[x])} \cup Range(covered'[x]) /\ Range(covered'[x]) \subseteq Range(covered[x])
      BY <2>t, <2>5, HeadAndTail, SequenceFacts
    <3> QED  BY <1>1, <2>1, <2>2, <3>1, <3>2
  <2> QED  BY <2>3, <2>4, <2>5
<1> QED  BY <1>1, <1>2, <1>3

-----------------------------------------------------------------------------
(* Only one transaction writes a part. *)
LEMMA OneWriter ==
  ASSUME Base, NEW x \in Txns, Writing(x), NEW p, p = new_part[x]
  PROVE  /\ p \in Parts /\ p \in Writes[x] /\ Present(p) /\ HasBegun(x)
         /\ \A y \in Txns : (Writing(y) /\ p = new_part[y]) \/ p \in Writes[y] => y = x
<1>1. p \in Parts
  <2>1. new_part[x] # None /\ new_part[x] \in Parts \cup {None}
    BY Types DEF Base, TxnInv, AtHand, Writing, Truncating
  <2> QED  BY <2>1
<1>2. \A y \in Txns : Writing(y) /\ p = new_part[y] => p \in Writes[y]
  BY <1>1 DEF Base, TableInv, PartInv, CreatedIsNamed, CreatedBy
<1>3. Present(p)
  <2>1. client[x] \in {"written", "remove", "append", "undo"}
    BY DEF Writing
  <2> QED  BY <1>1, <2>1, WorkedOnIsPresent DEF Base, TableInv
<1> QED  BY <1>1, <1>2, <1>3, TableAssumption DEF Writing, HasBegun

LEMMA NextWrittenIsNew ==
  ASSUME TableStep, NEW x \in Txns
  PROVE  WrittenIsNew(x)'
<1> SUFFICES ASSUME Writing(x)', NEW p, p = new_part'[x]
             PROVE  state'[p] # "Active" /\ \A y \in Txns : ~Removes(y, p)'
  BY DEF WrittenIsNew
<1>s. Stepping /\ Base /\ Names /\ Table /\ Removals
  BY DEF TableStep, Stepping
<1>1. ASSUME NEW q \in Parts, WritePart(x, q)
      PROVE  state'[p] # "Active" /\ \A y \in Txns : ~Removes(y, p)'
  <2>1. p = q /\ state'[p] = "PreActive" /\ client[x] = "ready" /\ Others(x) /\ SameChanges(x)
    BY <1>s, <1>1, WritePartDoes
  <2>2. ~Known(p)
    BY <1>s, <1>1, <2>1, NewIsUnknown
  <2>3. ASSUME NEW y \in Txns PROVE ~Removes(y, p)'
    <3>1. ~Removes(y, p)
      BY <1>1, <1>s, <2>1, <2>2 DEF Names, PartIsKnown
    <3>2. removing'[y] = removing[y]
      BY <2>1 DEF Others, Same, SameChanges
    <3> QED  BY <3>1, <3>2 DEF Removes
  <2> QED  BY <2>1, <2>3
<1>2. CASE Writing(x) /\ new_part'[x] = new_part[x]
  <2>0. p = new_part[x]
    BY <1>2
  <2>1. p \in Parts /\ Present(p) /\ \A y \in Txns : (Writing(y) /\ p = new_part[y]) => y = x
    BY <1>s, <1>2, <2>0, OneWriter
  <2>2. state[p] # "Active" /\ \A y \in Txns : ~Removes(y, p)
    BY <1>s, <1>2, <2>0 DEF Table, WrittenIsNew
  <2>3. ~LoadPart(p)
    BY <1>s, <2>1, LoadPartDoes DEF Present
  <2>4. ASSUME NEW y \in Txns, Activates(y, p) PROVE FALSE
    <3>1. CASE ActivatePart(y) /\ p = new_part[y]
      <4>1. client[y] = "remove" /\ client'[y] = "ready" /\ ~Truncating(y)
        BY <1>s, <2>1, <3>1, ActivatePartDoes, TableAssumption DEF Truncating
      <4>2. y = x
        BY <2>1, <3>1, <4>1 DEF Writing
      <4> QED  BY <4>1, <4>2 DEF Writing
    <3>2. CASE RestoreRemoved(y) /\ Treats(y, p)
      <4>1. finish[y] = "activate"
        BY <1>s, <3>2, RestoreRemovedDoes
      <4>2. p \in Range(removing[y])
        BY <1>s, <3>2, <4>1, TreatedFacts DEF Treats, Phases
      <4> QED  BY <2>2, <4>2 DEF Removes
    <3> QED  BY <2>4, <3>1, <3>2 DEF Activates
  <2>5. state'[p] # "Active"
    BY <1>s, <2>1, <2>2, <2>3, <2>4, StateMoves DEF None
  <2>6. ASSUME NEW y \in Txns, Removes(y, p)' PROVE FALSE
    <3>1. RemoveOldPart(y) /\ p = Head(covered[y]) /\ removing'[y] # removing[y]
      BY <1>s, <2>2, <2>6, ChangesStay DEF Removes
    <3>2. csn[y] = UnknownCSN /\ client[y] = "remove" /\ p \in Range(covered[y])
      BY <1>s, <3>1, RemoveOldPartDoes
    <3>3. \E z \in Txns : Removed(z, p)
      BY <1>s, <2>1, <2>2, <3>2 DEF Table, LoopIsFree, Locking
    <3> QED  BY <2>2, <3>3 DEF Removed
  <2> QED  BY <2>5, <2>6
<1> QED  BY <1>s, <1>1, <1>2, WritingStarts

LEMMA NextBlocksAreKnown ==
  ASSUME TableStep, NEW x \in Txns, NEW p \in Parts
  PROVE  BlocksAreKnown(x, p)'
<1> SUFFICES ASSUME Creates(x, p)' \/ (Writing(x)' /\ p = new_part'[x]), NEW b \in Blocks(p), b # p
             PROVE  Known(b)' /\ \A y \in Txns : Writing(y)' => b # new_part'[y]
  <2>1. Blocks(p)' = Blocks(p)
    BY DEF Blocks
  <2> QED  BY <2>1 DEF BlocksAreKnown
<1>s. Stepping /\ Base /\ Names /\ Table
  BY DEF TableStep, Stepping
<1>b. b \in Parts /\ Covers[p] # {}
  BY BlockFacts
<1>k. ASSUME Known(b), \A y \in Txns : Writing(y) => b # new_part[y]
      PROVE  Known(b)' /\ \A y \in Txns : Writing(y)' => b # new_part'[y]
  <2>1. Known(b)'
    BY <1>s, <1>k, KnownStaysKnown
  <2>2. ASSUME NEW y \in Txns, Writing(y)', b = new_part'[y] PROVE FALSE
    <3>1. ASSUME NEW q \in Parts, WritePart(y, q) PROVE FALSE
      <4>1. q = b
        BY <1>s, <2>2, <3>1, WritePartDoes
      <4> QED  BY <1>s, <1>k, <3>1, <4>1, NewIsUnknown
    <3> QED  BY <1>s, <1>k, <2>2, <3>1, WritingStarts
  <2> QED  BY <2>1, <2>2
<1>1. CASE Creates(x, p) \/ (Writing(x) /\ p = new_part[x])
  BY <1>s, <1>k, <1>1 DEF Table, BlocksAreKnown
<1>2. ASSUME NEW r \in Parts, WritePart(x, r), Writing(x)', p = new_part'[x]
      PROVE  Known(b) /\ \A y \in Txns : Writing(y) => b # new_part[y]
  <2>1. p = r /\ Blocks(p) \subseteq UNION {Blocks(q) : q \in CoveredBy(p, "Active")}
    BY <1>s, <1>b, <1>2, WritePartDoes
  <2>2. PICK q \in CoveredBy(p, "Active") : b \in Blocks(q)
    BY <2>1
  <2>3. q \in Parts /\ state[q] = "Active"
    BY <2>2, TableAssumption DEF CoveredBy
  <2>4. Known(q)
    BY <1>s, <2>3 DEF Names, PartIsKnown
  <2>5. CASE b = q
    BY <1>s, <2>3, <2>4, <2>5 DEF Table, WrittenIsNew
  <2>6. CASE b # q
    <3>1. q \notin Initial
      BY <2>2, <2>3, <2>6, TableAssumption, BlockFacts
    <3>2. PICK z \in Txns : Creates(z, q)
      BY <2>4, <3>1 DEF Known
    <3> QED  BY <1>s, <2>2, <2>3, <2>6, <3>2 DEF Table, BlocksAreKnown
  <2> QED  BY <2>5, <2>6
<1>3. CASE AddNewPart(x) /\ p = new_part[x]
  <2>1. Writing(x)
    BY <1>s, <1>3, AddNewPartDoes DEF Writing
  <2> QED  BY <1>1, <1>3, <2>1
<1>4. Creates(x, p)' => Creates(x, p) \/ (AddNewPart(x) /\ p = new_part[x])
  BY <1>s, ChangesStay
<1> QED  BY <1>s, <1>k, <1>1, <1>2, <1>3, <1>4, WritingStarts

-----------------------------------------------------------------------------
(* A query that replaces parts is writing the new one. *)
LEMMA ReplacingFacts ==
  ASSUME Base, NEW x \in Txns, Replaces(x)
  PROVE  Writing(x) /\ HasBegun(x)
BY DEF Replaces, Writing, Adding, Locking, HasBegun

(* The Active parts that share blocks with the new part are its sources. *)
LEMMA ReplacedIsSource ==
  ASSUME Base, Names, Table, NEW x \in Txns, Replaces(x), NEW p, p = new_part[x],
         NEW r \in Parts, state[r] = "Active", Share(p, r)
  PROVE  r \in merging[x] /\ r \in Covers[p] /\ r # p /\ CreatedFor(x, r)
<1>1. Writing(x)
  BY ReplacingFacts
<1>2. p \in Parts
  BY <1>1, OneWriter
<1>3. PICK b \in Parts : b \in Blocks(p) /\ b \in Blocks(r)
  BY <1>2, SharingFacts
<1>4. state[p] # "Active"
  BY <1>1 DEF Table, WrittenIsNew
<1>5. CASE Covers[p] # {}
  <2>1. PICK s \in merging[x] : b \in Blocks(s) /\ state[s] = "Active"
    BY <1>3, <1>5 DEF Table, SourcesAreActive
  <2>2. s \in Covers[p] /\ s \in Parts /\ CreatedFor(x, s)
    BY <1>2, <2>1, TableAssumption DEF Table, MergingIsMine
  <2>3. Share(s, r)
    BY <1>3, <2>1, <2>2, SharingFacts
  <2>4. s = r
    BY <2>1, <2>2, <2>3 DEF Table, OneActive
  <2> QED  BY <1>4, <2>1, <2>2, <2>4
<1>6. CASE Covers[p] = {}
  <2>1. b = p
    BY <1>2, <1>3, <1>6, BlockFacts
  <2>2. r \notin Initial
    BY <1>3, <1>4, <2>1, TableAssumption, BlockFacts
  <2>3. PICK z \in Txns : Creates(z, r)
    BY <2>2 DEF Names, PartIsKnown, Known
  <2> QED  BY <1>1, <1>3, <1>4, <2>1, <2>3 DEF Table, BlocksAreKnown
<1> QED  BY <1>5, <1>6

LEMMA NeverCovered ==
  ASSUME Base, Names, Table, NEW x \in Txns, Replaces(x), NEW p, p = new_part[x]
  PROVE  ~IsCovered(p)
<1>1. ASSUME NEW r \in Parts, p \in Covers[r], state[r] = "Active" PROVE FALSE
  <2>1. p \in Parts /\ Share(p, r) /\ r \notin Covers[p]
    BY <1>1, CoveredFacts
  <2> QED  BY <1>1, <2>1, ReplacedIsSource
<1> QED  BY <1>1 DEF IsCovered

LEMMA ActivatingReplaces ==
  ASSUME Stepping, NEW x \in Txns, ActivatePart(x)
  PROVE  Replaces(x) /\ Adding(x) /\ Locking(x) /\ Writing(x)
<1>1. client[x] = "remove" /\ new_part[x] \in Parts
  BY ActivatePartDoes
<1> QED  BY <1>1, TableAssumption DEF Replaces, Adding, Locking, Writing, Truncating

(* A part that a rollback puts back was pending. *)
LEMMA RestoredIsPending ==
  ASSUME Stepping, Names, NEW x \in Txns, RestoreRemoved(x), NEW p, Treats(x, p), version[p].creation_tid # tid[x]
  PROVE  Pending(x, p) /\ finish[x] = "activate" /\ p \in Parts /\ csn[x] = RolledBackCSN /\ ~IsCommitted(x) /\ Doomed(x)
<1>b. Base
  BY DEF Stepping
<1>1. finish[x] = "activate" /\ csn[x] = RolledBackCSN /\ Running(x)
  BY RestoreRemovedDoes, TreatingKeeps DEF Treating
<1>2. p \in Parts /\ p \in Range(todo[x]) /\ p \in Range(removing[x])
  BY <1>b, <1>1, TreatedFacts DEF Treats, Phases
<1>3. ~IsCommitted(x)
  BY <1>b, <1>1, CommittedFacts
<1>4. ~Creates(x, p)
  BY <1>b, <1>1, <1>2 DEF Creates, Base, TableInv, PartInv, CreatedIsNamed, CreatedBy
<1> QED  BY <1>1, <1>2, <1>3, <1>4 DEF Pending, Removed, Removes, Doomed

LEMMA NewActive ==
  ASSUME TableStep, NEW p \in Parts, NEW q \in Parts, state'[p] = "Active", state[p] # "Active",
         state'[q] = "Active", Share(p, q)
  PROVE  p = q
<1> SUFFICES ASSUME p # q PROVE FALSE
  OBVIOUS
<1>s. Stepping /\ Base /\ Names /\ Table
  BY DEF TableStep, Stepping
<1>1. CASE LoadPart(p) /\ p \in loaded'
  <2>1. Live(p) /\ ~started
    BY <1>1, LoadedOutcome
  <2>2. state[q] = "Active"
    BY <1>s, <1>1, LoadPartDoes DEF Kept, SameState
  <2>3. Live(q)
    BY <1>s, <2>1, <2>2 DEF Table, LoadedIsLive
  <2> QED  BY <1>s, <2>1, <2>3 DEF Table, OneLive
<1>2. ASSUME NEW x \in Txns, ActivatePart(x), p = new_part[x] PROVE FALSE
  <2>1. Replaces(x)
    BY <1>s, <1>2, ActivatingReplaces
  <2>2. ~IsCovered(p)
    BY <1>s, <1>2, <2>1, NeverCovered
  <2>3. q \in Covers[p] => state[q] # "Active"
    BY <1>s, <1>2, <2>2, ActivatePartDoes
  <2>4. state[q] = "Active"
    BY <1>s, <1>2, <2>3, ActivatePartDoes DEF Kept, SameState
  <2> QED  BY <1>s, <1>2, <2>1, <2>3, <2>4, ReplacedIsSource
<1>3. ASSUME NEW x \in Txns, RestoreRemoved(x), Treats(x, p), version[p].creation_tid # tid[x] PROVE FALSE
  <2>1. Pending(x, p) /\ finish[x] = "activate" /\ ~IsCommitted(x)
    BY <1>s, <1>3, RestoredIsPending
  <2>2. state[q] = "Active"
    BY <1>s, <1>3, RestoreRemovedDoes DEF Kept, SameState, Treats, AllKept
  <2>3. Creates(x, q)
    BY <1>s, <2>1, <2>2 DEF Table, PendingIsReplaced
  <2> QED  BY <1>s, <2>1, <2>2, <2>3 DEF Table, RolledBackIsOutdated
<1> QED  BY <1>s, <1>1, <1>2, <1>3, StateMoves DEF Activates, None

LEMMA NextOneActive ==
  ASSUME TableStep, NEW p \in Parts, NEW q \in Parts
  PROVE  OneActive(p, q)'
<1> SUFFICES ASSUME state'[p] = "Active", state'[q] = "Active", Share(p, q)' PROVE p = q
  BY DEF OneActive
<1>1. Share(p, q) /\ Share(q, p)
  BY SharingFacts DEF Share, Blocks
<1> QED  BY <1>1, NewActive DEF TableStep, Table, OneActive

LEMMA NextSourcesAreActive ==
  ASSUME TableStep, NEW x \in Txns
  PROVE  SourcesAreActive(x)'
<1> SUFFICES ASSUME Replaces(x)'
             PROVE  /\ \A p \in merging'[x] : state'[p] = "Active"
                    /\ Covers[new_part'[x]] # {} =>
                         Blocks(new_part'[x]) \subseteq UNION {Blocks(q) : q \in merging'[x]}
  BY DEF SourcesAreActive, Blocks
<1>s. Stepping /\ Base /\ Names /\ Table
  BY DEF TableStep, Stepping
<1>w. Writing(x)'
  BY DEF Replaces, Writing, Adding, Locking
<1>1. ASSUME NEW p \in Parts, WritePart(x, p)
      PROVE  /\ \A q \in merging'[x] : state'[q] = "Active"
             /\ Covers[new_part'[x]] # {} =>
                  Blocks(new_part'[x]) \subseteq UNION {Blocks(q) : q \in merging'[x]}
  <2>1. /\ merging'[x] = CoveredBy(p, "Active") /\ new_part'[x] = p
        /\ Covers[p] # {} => Blocks(p) \subseteq UNION {Blocks(q) : q \in CoveredBy(p, "Active")}
    BY <1>s, <1>1, WritePartDoes
  <2>2. ASSUME NEW q \in CoveredBy(p, "Active") PROVE state'[q] = "Active"
    <3>1. q \in Parts /\ q # p /\ state[q] = "Active"
      BY <1>1, TableAssumption DEF CoveredBy
    <3> QED  BY <1>s, <1>1, <3>1, WritePartDoes DEF Kept, SameState
  <2> QED  BY <2>1, <2>2
<1>2. CASE Writing(x) /\ new_part'[x] = new_part[x]
  <2>0. ~CrashServer /\ ~ActivatePart(x) /\ ~UndoPart(x)
    BY <1>s, <1>w, CrashDoes, ActivatePartDoes, UndoPartDoes DEF Writing
  <2>1. merging'[x] = merging[x]
    BY <1>s, <1>2, <2>0, WritingMoves
  <2>2. Replaces(x)
    <3>1. CASE Adding(x)'
      <4>1. Adding(x) \/ (AddNewPart(x) /\ csn[x] = UnknownCSN)
        BY <1>s, <3>1, AddingStarts
      <4> QED  BY <1>s, <4>1, AddNewPartDoes DEF Replaces
    <3>2. CASE client'[x] = "written" /\ csn'[x] = UnknownCSN
      <4>1. csn[x] \in {UnknownCSN, RolledBackCSN} /\ csn[x] # RolledBackCSN
        <5>1. client[x] \notin {"commit", "lost", "end"}
          BY <1>2 DEF Writing
        <5>2. csn[x] \in {UnknownCSN, RolledBackCSN}
          BY <1>s, <5>1 DEF Base, TxnInv, Outcome
        <5>3. csn[x] = RolledBackCSN => csn'[x] = RolledBackCSN
          BY <1>s, NextStays DEF Stepping, Base, Stays
        <5> QED  BY <3>2, <5>2, <5>3, CSNFacts
      <4>2. client[x] = "written"
        <5>1. CASE SameQuery(x)
          BY <3>2, <5>1 DEF SameQuery
        <5>2. ~AddNewPart(x) /\ ~Truncate(x) /\ ~NoQuery(x) /\ \A q \in Parts : ~WritePart(x, q)
          BY <1>s, <1>2, <3>2, AddNewPartDoes, TruncateDoes, WritePartDoes DEF Writing, NoQuery, AtQueries
        <5>3. ~LockedStep(x)
          BY <1>s, <3>2, RemoveOldPartDoes, AppendRemovalDoes, SkipRolledBackDoes, TruncateEndsDoes, ActivatePartDoes
             DEF LockedStep
        <5> QED  BY <1>s, <2>0, <5>1, <5>2, <5>3, QueryChanges
      <4> QED  BY <4>1, <4>2 DEF Replaces
    <3> QED  BY <3>1, <3>2 DEF Replaces
  <2>3. ASSUME NEW p \in merging[x] PROVE state'[p] = "Active"
    <3>0. p \in Parts /\ state[p] = "Active" /\ CreatedFor(x, p)
      BY <1>s, <2>2, Types DEF Table, SourcesAreActive, MergingIsMine
    <3>1. ~LoadPart(p)
      BY <1>s, <3>0, LoadPartDoes DEF Base, TableInv, PartInv, PartsArePresent, Present, None
    <3>2. ASSUME NEW y \in Txns, Outdates(y, p) PROVE FALSE
      <4>1. CASE (AppendRemoval(y) \/ SkipRolledBack(y)) /\ Truncating(y)
        <5>1. Locking(y)
          BY <1>s, <4>1, AppendRemovalDoes, SkipRolledBackDoes DEF Locking
        <5> QED  BY <1>s, <2>3, <4>1, <5>1 DEF Table, TruncateIsAlone, NothingIsMerged
      <4>2. CASE ActivatePart(y) /\ p = new_part[y]
        BY <1>s, <3>0, <4>2, ActivatingReplaces DEF Table, WrittenIsNew
      <4>3. CASE ActivatePart(y) /\ p \in Covers[new_part[y]]
        <5>1. Replaces(y) /\ new_part[y] \in Parts
          BY <1>s, <4>3, ActivatingReplaces, ActivatePartDoes
        <5>2. Share(new_part[y], p)
          BY <4>3, <5>1, CoveredFacts
        <5>3. p \in merging[y]
          BY <1>s, <3>0, <5>1, <5>2, ReplacedIsSource
        <5>4. y # x
          BY <2>0, <4>3
        <5> QED  BY <1>s, <2>3, <5>3, <5>4 DEF Table, MergesAreDisjoint
      <4>4. CASE UndoPart(y) /\ p = new_part[y]
        <5>1. Writing(y)
          BY <1>s, <4>4, UndoPartDoes DEF Writing
        <5> QED  BY <1>s, <3>0, <4>4, <5>1 DEF Table, WrittenIsNew
      <4>5. CASE OutdateCreated(y) /\ Treats(y, p)
        <5>1. finish[y] = "outdate" /\ csn[y] = RolledBackCSN /\ parts_lock = None
          BY <1>s, <4>5, OutdateCreatedDoes DEF Treats
        <5>2. Creates(y, p)
          BY <1>s, <4>5, <5>1, TreatedFacts DEF Treats, Phases, Creates
        <5>3. ~IsCommitted(y)
          BY <1>s, <5>1, CommittedFacts
        <5>4. y = x
          BY <1>s, <3>0, <5>2, <5>3, OnlyCreator
        <5>5. csn[x] # UnknownCSN
          BY <5>1, <5>4, CSNFacts
        <5>6. Locking(x)
          BY <2>2, <5>5 DEF Replaces, Adding
        <5> QED  BY <1>s, <5>1, <5>6, LockHolder
      <4> QED  BY <3>2, <4>1, <4>2, <4>3, <4>4, <4>5 DEF Outdates
    <3> QED  BY <1>s, <2>0, <3>0, <3>1, <3>2, StateMoves DEF None
  <2> QED  BY <1>s, <1>2, <2>1, <2>2, <2>3 DEF Table, SourcesAreActive
<1> QED  BY <1>s, <1>w, <1>1, <1>2, WritingStarts

-----------------------------------------------------------------------------
(* While a query of x holds the lock, no part that x has removed is back. *)
LEMMA LockingIsRemoved ==
  ASSUME Base, Removals, NEW x \in Txns, Locking(x), NEW p \in Parts, Removes(x, p)
  PROVE  Removed(x, p) /\ ~IsCommitted(x)
<1>1. ~IsCommitted(x)
  BY CommittedFacts
<1>2. ~IsReadOnly(x)
  BY RemoverHasBegun
<1>3. KillWaits(x)
  BY DEF Removals
<1> QED  BY <1>1, <1>2, <1>3 DEF KillWaits, Removed, Removes

(* The parts that a query may lock are Active. *)
LEMMA FreeIsActive ==
  ASSUME Base, Names, Removals, Table, NEW x \in Txns, Locking(x), csn[x] = UnknownCSN,
         NEW p \in Parts, p \in Range(covered[x]), version[p].removal_tid = EmptyTID
  PROVE  /\ state[p] = "Active" /\ CreatedFor(x, p) /\ Present(p)
         /\ \A w \in Txns : ~Removed(w, p)
<1>1. Present(p)
  BY WorkedOnIsPresent DEF Base, TableInv, Locking
<1>2. state[p] # None
  BY <1>1 DEF Present
<1>3. \A w \in Txns : ~Removed(w, p)
  BY <1>2, RemovedIsLockedBy
<1>4. LoopIsFree(x, p)
  BY DEF Table
<1> QED  BY <1>1, <1>3, <1>4 DEF LoopIsFree

LEMMA PendingStarts ==
  ASSUME TableStep, NEW x \in Txns, NEW p \in Parts, Pending(x, p)', ~Pending(x, p)
  PROVE  /\ RemoveOldPart(x) /\ p = Head(covered[x]) /\ Locking(x) /\ ~Creates(x, p)
         /\ state[p] = "Active" /\ CreatedFor(x, p) /\ state' = state
         /\ \A w \in Txns : ~Removed(w, p)
<1>s. Stepping /\ Base /\ Names /\ Removals /\ Table
  BY DEF TableStep, Stepping
<1>1. Removed(x, p)' /\ ~IsCommitted(x)' /\ ~Creates(x, p)'
  BY DEF Pending
<1>2. ~IsCommitted(x) /\ ~Creates(x, p)
  BY <1>s, <1>1, LifeGoesOn, ChangesStay
<1>3. ~Removed(x, p)
  BY <1>2 DEF Pending
<1>4. RemoveOldPart(x) /\ p = Head(covered[x]) /\ csn[x] = UnknownCSN /\ version[p].removal_tid = EmptyTID
  BY <1>s, <1>1, <1>3, RemovedStarts
<1>5. client[x] = "remove" /\ p \in Range(covered[x]) /\ state' = state
  BY <1>s, <1>4, RemoveOldPartDoes
<1>6. Locking(x)
  BY <1>5 DEF Locking
<1> QED  BY <1>s, <1>2, <1>4, <1>5, <1>6, FreeIsActive

LEMMA NewPending ==
  ASSUME TableStep, NEW x \in Txns, NEW y \in Txns, NEW p \in Parts, NEW q \in Parts,
         Pending(x, p)', ~Pending(x, p), Pending(y, q)', Share(p, q)
  PROVE  x = y /\ p = q
<1>s. Stepping /\ Base /\ Names /\ Table
  BY DEF TableStep, Stepping
<1>1. /\ RemoveOldPart(x) /\ p = Head(covered[x]) /\ Locking(x) /\ ~Creates(x, p)
      /\ state[p] = "Active" /\ CreatedFor(x, p) /\ \A w \in Txns : ~Removed(w, p)
  BY PendingStarts
<1>2. CASE ~Pending(y, q)
  <2>1. RemoveOldPart(y) /\ q = Head(covered[y]) /\ Locking(y)
    BY <1>2, PendingStarts
  <2> QED  BY <1>s, <1>1, <2>1, LockHolder
<1>3. CASE Pending(y, q)
  <2>1. Share(q, p)
    BY SharingFacts
  <2>2. q = p \/ Creates(y, p)
    BY <1>s, <1>1, <1>3, <2>1 DEF Table, PendingIsReplaced
  <2>3. q # p /\ ~IsCommitted(y)
    BY <1>1, <1>3 DEF Pending
  <2>4. y = x
    BY <1>s, <1>1, <2>2, <2>3, OnlyCreator
  <2> QED  BY <1>1, <2>2, <2>3, <2>4
<1> QED  BY <1>2, <1>3

LEMMA NextOnePending ==
  ASSUME TableStep, NEW x \in Txns, NEW y \in Txns, NEW p \in Parts, NEW q \in Parts
  PROVE  OnePending(x, y, p, q)'
<1> SUFFICES ASSUME Pending(x, p)', Pending(y, q)', Share(p, q)' PROVE x = y /\ p = q
  BY DEF OnePending
<1>1. Share(p, q) /\ Share(q, p)
  BY SharingFacts DEF Share, Blocks
<1>2. CASE Pending(x, p) /\ Pending(y, q)
  BY <1>1, <1>2 DEF TableStep, Table, OnePending
<1> QED  BY <1>1, <1>2, NewPending

LEMMA NextPendingIsReplaced ==
  ASSUME TableStep, NEW x \in Txns, NEW p \in Parts, NEW q \in Parts
  PROVE  PendingIsReplaced(x, p, q)'
<1> SUFFICES ASSUME Pending(x, p)', state'[q] = "Active", Share(p, q)' PROVE p = q \/ Creates(x, q)'
  BY DEF PendingIsReplaced
<1>s. Stepping /\ Base /\ Names /\ Removals /\ Table
  BY DEF TableStep, Stepping
<1>h. Share(p, q) /\ Share(q, p)
  BY SharingFacts DEF Share, Blocks
<1>1. CASE state[q] = "Active"
  <2>1. CASE Pending(x, p)
    BY <1>s, <1>h, <1>1, <2>1, ChangesStay DEF Table, PendingIsReplaced
  <2>2. CASE ~Pending(x, p)
    BY <1>s, <1>h, <1>1, <2>2, PendingStarts DEF Table, OneActive
  <2> QED  BY <2>1, <2>2
<1>2. CASE state[q] # "Active"
  <2>0. Pending(x, p)
    BY <1>2, PendingStarts
  <2>1. Removed(x, p) /\ Removes(x, p) /\ ~IsCommitted(x) /\ finish[x] # "done"
    BY <2>0 DEF Pending, Removed
  <2>2. ASSUME LoadPart(q), q \in loaded' PROVE FALSE
    <3>1. ~started
      BY <1>2, <2>2, LoadedOutcome DEF None
    <3>2. in_use = <<>>
      BY <1>s, <3>1 DEF Table, LoadingIsQuiet
    <3>3. Running(x)
      BY <1>s, <2>1, RemoverHasBegun DEF HasBegun, Base, TxnInv, RunningIsUnfinished
    <3> QED  BY <3>2, <3>3, EmptyRange DEF Running
  <2>3. ASSUME NEW y \in Txns, ActivatePart(y), q = new_part[y] PROVE p = q \/ Creates(x, q)'
    <3>1. Replaces(y) /\ Adding(y) /\ Locking(y) /\ Writing(y) /\ covered[y] = <<>>
      BY <1>s, <2>3, ActivatingReplaces, ActivatePartDoes
    <3>2. PICK b \in Parts : b \in Blocks(p) /\ b \in Blocks(q)
      BY <1>h, SharingFacts
    <3>3. CASE Covers[q] = {}
      <4>1. b = q
        BY <3>2, <3>3, BlockFacts
      <4>2. Known(p)
        BY <1>s, <2>1 DEF Names, PartIsKnown
      <4>3. p \in Initial => p = q
        BY <3>2, <4>1, BlockFacts, TableAssumption
      <4>4. ASSUME NEW z \in Txns, Creates(z, p) PROVE p = q
        BY <1>s, <2>3, <3>1, <3>2, <4>1, <4>4 DEF Table, BlocksAreKnown
      <4> QED  BY <4>2, <4>3, <4>4 DEF Known
    <3>4. CASE Covers[q] # {}
      <4>0. SourcesAreActive(y)
        BY <1>s DEF Table
      <4>1. PICK s \in merging[y] : b \in Blocks(s) /\ state[s] = "Active"
        BY <2>3, <3>1, <3>2, <3>4, <4>0 DEF SourcesAreActive
      <4>2. s \in Covers[q] /\ s \in Parts /\ CreatedFor(y, s)
        BY <1>s, <2>3, <4>1, TableAssumption DEF Table, MergingIsMine
      <4>3. Share(p, s)
        BY <3>2, <4>1, <4>2, SharingFacts
      <4>4. p = s \/ Creates(x, s)
        BY <1>s, <2>0, <4>1, <4>2, <4>3 DEF Table, PendingIsReplaced
      <4>5. ASSUME Creates(x, s) PROVE x = y
        BY <1>s, <2>1, <4>2, <4>5, OnlyCreator
      <4>6. ASSUME p = s PROVE x = y
        <5>1. Removes(y, s)
          BY <1>s, <2>3, <3>1, <4>1, <4>2, EmptyRange DEF Table, LoopIsComplete
        <5>2. Removed(y, s) /\ state[s] # None
          BY <1>s, <3>1, <4>1, <4>2, <5>1, LockingIsRemoved DEF None
        <5> QED  BY <1>s, <2>1, <4>2, <4>6, <5>2, OneRemover
      <4>7. x = y
        BY <4>4, <4>5, <4>6
      <4>8. Creates(x, q)
        BY <1>s, <2>3, <3>1, <4>7 DEF Names, AddedIsCreated
      <4> QED  BY <1>s, <4>8, ChangesStay
    <3> QED  BY <3>3, <3>4
  <2>4. ASSUME NEW y \in Txns, RestoreRemoved(y), Treats(y, q), version[q].creation_tid # tid[y] PROVE p = q
    <3>1. Pending(y, q)
      BY <1>s, <2>4, RestoredIsPending
    <3> QED  BY <1>s, <1>h, <2>0, <3>1 DEF Table, OnePending
  <2> QED  BY <1>s, <1>2, <2>2, <2>3, <2>4, StateMoves DEF Activates, None
<1> QED  BY <1>1, <1>2

-----------------------------------------------------------------------------
(* A rollback takes away the parts it has created before it puts back the  *)
(* ones it has removed.                                                    *)
LEMMA CreatedStaysListed ==
  ASSUME TableStep, NEW x \in Txns, NEW p \in Parts, Creates(x, p), ~IsCommitted(x)', state[p] = "Active", state'[p] = "Active"
  PROVE  /\ finish'[x] \notin {"activate", "clear", "unlock", "release", "done"}
         /\ finish'[x] = "outdate" => p \in Range(todo'[x])
<1>s. Stepping /\ Base /\ Names /\ Table
  BY DEF TableStep, Stepping
<1>1. ~IsCommitted(x) /\ ~IsReadOnly(x)
  BY <1>s, LifeGoesOn, RemoverHasBegun
<1>2. /\ finish[x] \notin {"activate", "clear", "unlock", "release", "done"}
      /\ finish[x] = "outdate" => p \in Range(todo[x])
  BY <1>s, <1>1 DEF Table, RolledBackIsOutdated
<1>3. CASE SameEnd(x)
  BY <1>2, <1>3 DEF SameEnd
<1>4. CASE Deciding(x)
  <2>1. CASE Begin(x)
    BY <1>s, <1>3, <2>1, BeginDoes
  <2>2. CASE ClientRollsBack(x) \/ Kill(x) \/ RollBackUnknownState(x)
    BY <1>s, <1>3, <2>2, RollbackStarts
  <2>3. CASE BeforeCommit(x)
    BY <1>s, <1>3, <2>3, BeforeCommitDoes DEF Goes, None
  <2>4. CASE Commit(x) \/ CommitLost(x) \/ Postpone(x) \/ CommitRefused(x)
    BY <1>s, <2>4, CommitDoes, PostponeDoes, CommitRefusedDoes DEF Goes, None
  <2>5. CASE DecideUnknownState(x) \/ AfterCommit(x) \/ Release(x)
    BY <1>s, <1>2, <2>5, DecideDoes, AfterCommitDoes, ReleaseDoes
  <2> QED  BY <1>4, <2>1, <2>2, <2>3, <2>4, <2>5 DEF Deciding
<1>5. CASE Treating(x)
  <2>t. todo[x] \in Seq(Parts)
    BY <1>s, Types
  <2>1. ~(StampCreated(x) \/ StampRemoved(x))
    <3>1. finish[x] \notin {"stamp_created", "stamp_removed"}
      BY <1>s, <1>1 DEF Base, TxnInv, Outcome, IsCommitted
    <3> QED  BY <1>s, <3>1, StampCreatedDoes, StampRemovedDoes
  <2>2. CASE MarkRolledBack(x)
    <3>1. finish'[x] = "mark" \/ (finish'[x] = "outdate" /\ todo'[x] = creating[x])
      BY <1>s, <2>2, MarkRolledBackDoes DEF NextPhaseIs, NextPartIs
    <3> QED  BY <3>1 DEF Creates
  <2>3. CASE OutdateCreated(x)
    <3>1. finish[x] = "outdate" /\ p \in Range(todo[x]) /\ todo[x] # <<>>
      BY <1>s, <1>2, <2>3, OutdateCreatedDoes, EmptyRange
    <3>2. finish'[x] = "outdate" /\ todo'[x] = Tail(todo[x]) /\ p # Head(todo[x])
      BY <1>s, <2>3, <3>1, OutdateCreatedDoes DEF NextPartIs
    <3> QED  BY <2>t, <3>1, <3>2, HeadAndTail
  <2>4. ~RestoreRemoved(x) /\ ~ClearRemoved(x) /\ ~UnlockRemoved(x)
    BY <1>s, <1>2, RestoreRemovedDoes, ClearRemovedDoes, UnlockRemovedDoes
  <2> QED  BY <1>5, <2>1, <2>2, <2>3, <2>4 DEF Treating
<1>6. ~CrashServer
  BY <1>s, CrashDoes DEF None
<1> QED  BY <1>s, <1>3, <1>4, <1>5, <1>6, EndChanges

LEMMA NextRolledBackIsOutdated ==
  ASSUME TableStep, NEW x \in Txns, NEW p \in Parts
  PROVE  RolledBackIsOutdated(x, p)'
<1> SUFFICES ASSUME Creates(x, p)', ~IsCommitted(x)', state'[p] = "Active"
             PROVE  /\ finish'[x] \notin {"activate", "clear", "unlock", "release", "done"}
                    /\ finish'[x] = "outdate" => p \in Range(todo'[x])
  BY DEF RolledBackIsOutdated
<1>s. Stepping /\ Base /\ Names /\ Removals /\ Table
  BY DEF TableStep, Stepping
<1>0. ~IsCommitted(x)
  BY <1>s, LifeGoesOn
<1>1. CASE Creates(x, p) /\ state[p] = "Active"
  BY <1>1, CreatedStaysListed
<1>2. CASE ~Creates(x, p)
  <2>1. AddNewPart(x) /\ p = new_part[x]
    BY <1>s, <1>2, ChangesStay
  <2>2. client[x] = "written" /\ state' = state
    BY <1>s, <2>1, AddNewPartDoes
  <2> QED  BY <1>s, <2>1, <2>2 DEF Table, WrittenIsNew, Writing
<1>3. CASE Creates(x, p) /\ state[p] # "Active"
  <2>0. p \notin Initial /\ \A y \in Txns : Creates(y, p) \/ p \in Writes[y] => y = x
    BY <1>s, <1>3, CreatorFacts
  <2>1. ASSUME LoadPart(p), p \in loaded' PROVE FALSE
    <3>1. Live(p)
      BY <2>1, LoadedOutcome
    <3> QED  BY <1>0, <2>0, <3>1 DEF Live
  <2>2. ASSUME NEW y \in Txns, ActivatePart(y), p = new_part[y]
        PROVE  /\ finish'[x] \notin {"activate", "clear", "unlock", "release", "done"}
               /\ finish'[x] = "outdate" => p \in Range(todo'[x])
    <3>1. Locking(y) /\ Writing(y) /\ SameEnd(y)
      BY <1>s, <2>2, ActivatingReplaces, ActivatePartDoes
    <3>2. y = x
      BY <1>s, <2>0, <2>2, <3>1, OneWriter
    <3>3. ~IsReadOnly(x) /\ creating[x] # <<>>
      BY <1>s, <1>3, RemoverHasBegun, EmptyRange DEF Creates
    <3>4. /\ finish[x] \notin {"activate", "clear", "unlock", "release", "done"}
          /\ finish[x] = "outdate" => todo[x] = creating[x]
      BY <1>s, <3>1, <3>2, <3>3 DEF Removals, KillWaits
    <3> QED  BY <1>3, <3>1, <3>2, <3>4 DEF SameEnd, Creates
  <2>3. ASSUME NEW y \in Txns, RestoreRemoved(y), Treats(y, p), version[p].creation_tid # tid[y] PROVE FALSE
    <3>1. Pending(y, p)
      BY <1>s, <2>3, RestoredIsPending
    <3>2. CreatedFor(y, p) /\ ~Creates(y, p)
      BY <1>s, <3>1 DEF Pending, Removed, Table, RemovedIsSeen
    <3> QED  BY <1>s, <1>0, <1>3, <3>2, OnlyCreator
  <2> QED  BY <1>s, <1>3, <2>1, <2>2, <2>3, StateMoves DEF Activates, None
<1> QED  BY <1>1, <1>2, <1>3

LEMMA SameIsRemoved ==
  ASSUME NEW x \in Txns, SameEnd(x), SameChanges(x), SameLife(x), NEW p, Removed(x, p)
  PROVE  Removed(x, p)'
BY DEF SameEnd, SameChanges, SameLife, Removed, Removes

LEMMA NextOutdatedIsRemoved ==
  ASSUME TableStep, NEW p \in Parts
  PROVE  OutdatedIsRemoved(p)'
<1> SUFFICES ASSUME state'[p] = "Outdated"
             PROVE  (\E x \in Txns : p \in Writes[x] /\ Doomed(x)') \/ \E x \in Txns : Removed(x, p)'
  BY DEF OutdatedIsRemoved
<1>s. Stepping /\ Base /\ Names /\ Removals /\ Table
  BY DEF TableStep, Stepping
<1>d. ASSUME NEW x \in Txns, p \in Writes[x], Doomed(x) PROVE Doomed(x)'
  BY <1>s, <1>d, LifeGoesOn
<1>1. CASE state[p] = "Outdated"
  <2>1. ASSUME NEW x \in Txns, Removed(x, p), ~Removed(x, p)' PROVE p \in Writes[x] /\ Doomed(x)
    <3>1. ~IsCommitted(x) /\ RestoreRemoved(x) /\ Treats(x, p)
      BY <1>s, <2>1, RemovedEnds, CrashDoes DEF None
    <3>2. version[p].creation_tid = tid[x] /\ csn[x] = RolledBackCSN
      BY <1>s, <3>1, RestoreRemovedDoes DEF Treats
    <3>3. Known(p) /\ HasBegun(x) /\ state[p] # None
      BY <1>s, <1>1, <2>1, RemoverHasBegun DEF Removed, Names, PartIsKnown, None
    <3>4. Creates(x, p)
      BY <1>s, <3>2, <3>3, RemovedIsMine
    <3> QED  BY <1>s, <3>1, <3>2, <3>4, CreatorFacts DEF Doomed
  <2> QED  BY <1>s, <1>1, <1>d, <2>1 DEF Table, OutdatedIsRemoved
<1>2. CASE LoadPart(p) /\ p \in loaded'
  <2>1. ASSUME NEW x \in Txns, Removes(x, p), IsCommitted(x) PROVE Removed(x, p)'
    BY <1>s, <2>1, ChangesStay, LifeGoesOn DEF Removed
  <2> QED  BY <1>d, <1>2, <2>1, LoadedOutcome
<1>3. ASSUME NEW x \in Txns, Outdates(x, p)
      PROVE  (\E y \in Txns : p \in Writes[y] /\ Doomed(y)') \/ \E y \in Txns : Removed(y, p)'
  <2>1. CASE AppendRemoval(x) /\ p = Head(covered[x])
    <3>1. client[x] = "append" /\ SameEnd(x) /\ SameChanges(x) /\ SameLife(x)
      BY <1>s, <2>1, AppendRemovalDoes
    <3>2. Removes(x, p) /\ Locking(x)
      BY <1>s, <2>1, <3>1 DEF Removals, AppendIsMine, Locking
    <3> QED  BY <1>s, <3>1, <3>2, LockingIsRemoved, SameIsRemoved
  <2>2. CASE SkipRolledBack(x) /\ p = Head(covered[x])
    <3>1. client[x] = "remove" /\ p \in Range(covered[x]) /\ version[p].creation_csn = RolledBackCSN
      BY <1>s, <2>2, SkipRolledBackDoes
    <3>2. state[p] # None
      BY <1>s, <3>1, WorkedOnIsPresent DEF Base, TableInv, Present
    <3> QED  BY <1>s, <1>d, <3>1, <3>2, RolledBackIsMadeByDoomed
  <2>3. CASE ActivatePart(x) /\ p = new_part[x] /\ IsCovered(p)
    BY <1>s, <2>3, ActivatingReplaces, NeverCovered
  <2>4. CASE ActivatePart(x) /\ p \in Covers[new_part[x]] /\ state[p] = "Active"
    <3>1. Adding(x) /\ Locking(x) /\ covered[x] = <<>> /\ SameEnd(x) /\ SameChanges(x) /\ SameLife(x)
      BY <1>s, <2>4, ActivatingReplaces, ActivatePartDoes
    <3>2. Removes(x, p)
      BY <1>s, <2>4, <3>1, EmptyRange DEF Table, LoopIsComplete
    <3> QED  BY <1>s, <3>1, <3>2, LockingIsRemoved, SameIsRemoved
  <2>5. CASE UndoPart(x) /\ p = new_part[x]
    <3>1. client[x] = "undo" /\ client'[x] = "exception" /\ SameLife(x)
      BY <1>s, <2>5, UndoPartDoes
    <3>2. Writing(x) /\ ~IsCommitted(x)
      BY <1>s, <3>1, CommittedFacts DEF Writing
    <3>3. p \in Writes[x]
      BY <1>s, <2>5, <3>2, OneWriter
    <3> QED  BY <3>1, <3>2, <3>3 DEF SameLife, Doomed
  <2>6. CASE OutdateCreated(x) /\ Treats(x, p)
    <3>1. finish[x] = "outdate" /\ csn[x] = RolledBackCSN
      BY <1>s, <2>6, OutdateCreatedDoes
    <3>2. Creates(x, p) /\ ~IsCommitted(x)
      BY <1>s, <2>6, <3>1, TreatedFacts, CommittedFacts DEF Treats, Phases, Creates
    <3> QED  BY <1>s, <1>d, <3>1, <3>2, CreatorFacts DEF Doomed
  <2> QED  BY <1>3, <2>1, <2>2, <2>3, <2>4, <2>5, <2>6 DEF Outdates
<1> QED  BY <1>s, <1>1, <1>2, <1>3, StateMoves DEF None

-----------------------------------------------------------------------------
(* What a transaction may see has not been made by a doomed one. *)
LEMMA SeenIsNotDoomed ==
  ASSUME Names, NEW x \in Txns, ~Doomed(x), NEW p \in Parts, CreatedFor(x, p), NEW w \in Txns, p \in Writes[w]
  PROVE  ~Doomed(w)
<1>1. p \notin Initial
  BY TableAssumption
<1>2. PICK y \in Txns : Creates(y, p) /\ (y = x \/ IsCommitted(y))
  BY <1>1 DEF CreatedFor, CommittedBy, IsCommitted
<1>3. w = y
  BY <1>2, CreatorFacts
<1> QED  BY <1>2, <1>3 DEF Doomed

LEMMA OutdatedIsHeld ==
  ASSUME Base, Names, Table, NEW x \in Txns, ~Doomed(x), NEW p \in Parts, CreatedFor(x, p), state[p] = "Outdated"
  PROVE  \E w \in Txns : Removed(w, p)
BY SeenIsNotDoomed DEF Table, OutdatedIsRemoved

(* Under the lock no part that x may see is put back. *)
LEMMA HeldStays ==
  ASSUME TableStep, NEW x \in Txns, Locking(x)', csn[x] = UnknownCSN, NEW p \in Parts, CreatedFor(x, p), state[p] # None,
         NEW w \in Txns, Removed(w, p)
  PROVE  Removed(w, p)'
<1> SUFFICES ASSUME ~Removed(w, p)' PROVE FALSE
  OBVIOUS
<1>s. Stepping /\ Base /\ Names /\ Removals /\ Table
  BY DEF TableStep, Stepping
<1>1. ~IsCommitted(w) /\ RestoreRemoved(w) /\ Treats(w, p)
  BY <1>s, RemovedEnds, CrashDoes DEF Locking
<1>2. csn[w] = RolledBackCSN /\ parts_lock' = parts_lock
  BY <1>s, <1>1, RestoreRemovedDoes, TreatingKeeps DEF Treating
<1>3. w # x
  BY <1>2, CSNFacts
<1>4. CASE version[p].creation_tid = tid[w]
  <2>1. Known(p) /\ HasBegun(w)
    BY <1>s, RemoverHasBegun DEF Removed, Names, PartIsKnown
  <2>2. Creates(w, p)
    BY <1>s, <1>4, <2>1, RemovedIsMine
  <2> QED  BY <1>s, <1>1, <1>3, <2>2, OnlyCreator
<1>5. CASE version[p].creation_tid # tid[w]
  <2>1. parts_lock = None
    BY <1>s, <1>1, <1>5, RestoreRemovedDoes DEF Treats
  <2>2. parts_lock' = x
    BY DEF TableStep, Names, LockIsHeld
  <2> QED  BY <1>2, <2>1, <2>2, TableAssumption
<1> QED  BY <1>4, <1>5

LEMMA NextLoopIsFree ==
  ASSUME TableStep, NEW x \in Txns, NEW p \in Parts
  PROVE  LoopIsFree(x, p)'
<1> SUFFICES ASSUME Locking(x)', csn'[x] = UnknownCSN, p \in Range(covered'[x])
             PROVE  CreatedFor(x, p)' /\ (state'[p] = "Active" \/ \E y \in Txns : Removed(y, p)')
  BY DEF LoopIsFree
<1>s. Stepping /\ Base /\ Names /\ Removals /\ Table
  BY DEF TableStep, Stepping
<1>1. CASE p \in Range(covered[x])
  <2>1. Locking(x)
    BY <1>s, <1>1, EmptyRange DEF Base, TableInv, NothingCovered, Locking
  <2>2. csn[x] = UnknownCSN
    <3>1. csn[x] \in {UnknownCSN, RolledBackCSN}
      BY <1>s, <2>1 DEF Base, TxnInv, Outcome, Locking
    <3>2. csn[x] = RolledBackCSN => csn'[x] = RolledBackCSN
      BY <1>s, NextStays DEF Stepping, Base, Stays
    <3> QED  BY <3>1, <3>2, CSNFacts
  <2>3. HasBegun(x) /\ ~Doomed(x)
    BY <1>s, <2>1, <2>2, UndecidedFacts DEF Locking, HasBegun
  <2>4. CreatedFor(x, p) /\ (state[p] = "Active" \/ \E w \in Txns : Removed(w, p))
    BY <1>s, <1>1, <2>1, <2>2 DEF Table, LoopIsFree
  <2>5. CreatedFor(x, p)'
    BY <1>s, <2>3, <2>4, CreatedForStays
  <2>6. state[p] # None
    BY <1>s, <1>1, <2>1, WorkedOnIsPresent DEF Base, TableInv, Present, Locking
  <2>7. ASSUME NEW w \in Txns, Removed(w, p) PROVE Removed(w, p)'
    BY <2>2, <2>4, <2>6, <2>7, HeldStays
  <2>8. CASE state[p] = "Active"
    <3>1. CASE AppendRemoval(x) /\ p = Head(covered[x])
      <4>1. client[x] = "append"
        BY <1>s, <3>1, AppendRemovalDoes
      <4>2. Removes(x, p)
        BY <1>s, <3>1, <4>1 DEF Removals, AppendIsMine
      <4> QED  BY <1>s, <2>1, <2>5, <2>7, <4>2, LockingIsRemoved
    <3>2. ASSUME SkipRolledBack(x), p = Head(covered[x]) PROVE FALSE
      <4>1. version[p].creation_csn = RolledBackCSN
        BY <1>s, <3>2, SkipRolledBackDoes
      <4> QED  BY <1>s, <2>3, <2>4, <2>6, <4>1, RolledBackIsMadeByDoomed, SeenIsNotDoomed
    <3> QED  BY <2>1, <2>5, <2>8, <3>1, <3>2, LockedStates
  <2> QED  BY <2>4, <2>5, <2>7, <2>8
<1>2. CASE p \notin Range(covered[x])
  <2>1. ASSUME AddNewPart(x), csn[x] = UnknownCSN, p \in Covers[new_part[x]],
               state[p] = "Active" \/ (state[p] = "Outdated" /\ VisibleTo(x, p))
        PROVE  CreatedFor(x, p) /\ HasBegun(x) /\ ~Doomed(x) /\ csn[x] = UnknownCSN /\ state' = state
    <3>1. client[x] = "written" /\ state' = state /\ new_part[x] \in Parts
      BY <1>s, <2>1, AddNewPartDoes
    <3>2. Replaces(x) /\ Writing(x) /\ HasBegun(x)
      BY <2>1, <3>1 DEF Replaces, Writing, HasBegun
    <3>3. Share(new_part[x], p) /\ p # new_part[x]
      BY <2>1, <3>1, CoveredFacts
    <3>4. ~Doomed(x)
      BY <1>s, <2>1, <3>1, <3>2, UndecidedFacts
    <3>5. CASE state[p] = "Active"
      BY <1>s, <2>1, <3>1, <3>2, <3>3, <3>4, <3>5, ReplacedIsSource
    <3>6. CASE state[p] = "Outdated" /\ VisibleTo(x, p)
      <4>1. state[p] # None
        BY <3>6 DEF None
      <4> QED  BY <1>s, <2>1, <3>1, <3>2, <3>3, <3>4, <3>6, <4>1, VisibleIsCreatedFor
    <3> QED  BY <2>1, <3>5, <3>6
  <2>2. ASSUME Truncate(x), state[p] \in {"Active", "Outdated"}, VisibleTo(x, p)
        PROVE  CreatedFor(x, p) /\ HasBegun(x) /\ ~Doomed(x) /\ csn[x] = UnknownCSN /\ state' = state
    <3>1. client[x] = "ready" /\ csn[x] = UnknownCSN /\ state' = state
      BY <1>s, <2>2, TruncateDoes
    <3>2. HasBegun(x) /\ ~Doomed(x) /\ ~Writing(x)
      BY <1>s, <3>1, UndecidedFacts DEF HasBegun, Writing
    <3>3. state[p] # None
      BY <2>2 DEF None
    <3> QED  BY <1>s, <2>2, <3>1, <3>2, <3>3, VisibleIsCreatedFor
  <2>3. CreatedFor(x, p) /\ HasBegun(x) /\ ~Doomed(x) /\ csn[x] = UnknownCSN /\ state' = state
        /\ state[p] \in {"Active", "Outdated"}
    BY <1>s, <1>2, <2>1, <2>2, CoveredStarts
  <2>4. CreatedFor(x, p)'
    BY <1>s, <2>3, CreatedForStays
  <2>5. CASE state[p] = "Outdated"
    <3>1. PICK w \in Txns : Removed(w, p)
      BY <1>s, <2>3, <2>5, OutdatedIsHeld
    <3>2. Removed(w, p)'
      BY <2>3, <2>5, <3>1, HeldStays DEF None
    <3> QED  BY <2>4, <3>2
  <2> QED  BY <2>3, <2>4, <2>5
<1> QED  BY <1>1, <1>2

(* What a rollback has put back was removed by a doomed transaction. *)
LEMMA UnremovedIsDoomed ==
  ASSUME Base, NEW x \in Txns, NEW p, Removes(x, p), ~Removed(x, p)
  PROVE  Doomed(x)
<1>1. ~IsCommitted(x) /\ finish[x] \in {"activate", "clear", "unlock", "release", "done"}
  BY DEF Removed
<1>2. HasBegun(x)
  BY RemoverHasBegun
<1>3. finish[x] \in {"activate", "clear", "unlock"} => csn[x] = RolledBackCSN
  BY DEF Base, TxnInv, Outcome, Rollback
<1>4. client[x] \notin {"lost", "end"} => csn[x] = RolledBackCSN
  <2>1. ASSUME client[x] \notin {"lost", "end"} PROVE csn[x] = RolledBackCSN
    <3>1. client[x] # "commit"
      BY <1>1 DEF Base, TxnInv, Outcome, None
    <3>2. csn[x] \in {UnknownCSN, RolledBackCSN}
      BY <2>1, <3>1 DEF Base, TxnInv, Outcome
    <3>3. csn[x] # UnknownCSN
      BY <1>1, <2>1 DEF Base, TxnInv, Outcome, None
    <3> QED  BY <3>2, <3>3
  <2> QED  BY <2>1
<1> QED  BY <1>1, <1>4 DEF Doomed

LEMMA NextActiveIsNotRemoved ==
  ASSUME TableStep, NEW x \in Txns, NEW p \in Parts
  PROVE  ActiveIsNotRemoved(x, p)'
<1> DEFINE Goal == Doomed(x)' \/ client'[x] = "undo" \/ (Adding(x)' /\ p \in Covers[new_part'[x]]) \/ Appending(x, p)'
<1> SUFFICES ASSUME state'[p] = "Active", Removes(x, p)' PROVE Goal
  BY DEF ActiveIsNotRemoved
<1> HIDE DEF Goal
<1>s. Stepping /\ Base /\ Names /\ Removals /\ Table
  BY DEF TableStep, Stepping
<1>d. Doomed(x) => Goal
  BY <1>s, LifeGoesOn DEF Goal
<1>1. CASE ~Removes(x, p)
  <2>1. RemoveOldPart(x) /\ p = Head(covered[x])
    BY <1>s, <1>1, ChangesStay
  <2>2. removing'[x] # removing[x]
    BY <1>1 DEF Removes
  <2>3. client'[x] = "append" /\ covered'[x] = covered[x]
    BY <1>s, <2>1, <2>2, RemoveOldPartDoes
  <2> QED  BY <2>1, <2>3 DEF Goal, Appending
<1>2. CASE Removes(x, p) /\ state[p] # "Active"
  <2>1. ASSUME LoadPart(p), p \in loaded' PROVE Doomed(x)
    <3>1. Live(p) /\ ~started
      BY <2>1, LoadedOutcome
    <3>2. ~IsCommitted(x) /\ HasBegun(x)
      BY <1>s, <1>2, <3>1, RemoverHasBegun DEF Live
    <3>3. client[x] = "end"
      BY <1>s, <3>1, <3>2 DEF Table, LoadingIsQuiet, HasBegun
    <3> QED  BY <3>2, <3>3 DEF Doomed
  <2>2. ASSUME NEW y \in Txns, ActivatePart(y), p = new_part[y] PROVE FALSE
    <3>1. Writing(y)
      BY <1>s, <2>2, ActivatingReplaces
    <3> QED  BY <1>s, <1>2, <2>2, <3>1 DEF Table, WrittenIsNew
  <2>3. ASSUME NEW y \in Txns, RestoreRemoved(y), Treats(y, p), version[p].creation_tid # tid[y] PROVE Doomed(x)
    <3>1. Pending(y, p) /\ Doomed(y)
      BY <1>s, <2>3, RestoredIsPending
    <3>2. state[p] # None
      BY <1>s, <2>3, RestoreRemovedDoes, TreatedFacts DEF Treats, Phases, Present
    <3>3. CASE Removed(x, p)
      <4>1. x = y
        BY <1>s, <3>1, <3>2, <3>3, OneRemover DEF Pending
      <4> QED  BY <3>1, <4>1
    <3>4. CASE ~Removed(x, p)
      BY <1>s, <1>2, <3>4, UnremovedIsDoomed
    <3> QED  BY <3>3, <3>4
  <2> QED  BY <1>s, <1>d, <1>2, <2>1, <2>2, <2>3, StateMoves DEF Activates, None
<1>3. CASE Removes(x, p) /\ state[p] = "Active"
  <2>0. ~CrashServer
    BY <1>s, CrashDoes DEF None
  <2>1. CASE client[x] = "undo"
    <3>1. CASE SameQuery(x)
      BY <2>1, <3>1 DEF SameQuery, Goal
    <3>2. CASE UndoPart(x)
      <4>1. client'[x] = "exception" /\ SameLife(x) /\ ~IsCommitted(x)
        BY <1>s, <2>1, <3>2, UndoPartDoes, CommittedFacts
      <4> QED  BY <4>1 DEF Goal, Doomed, SameLife
    <3>3. ~AddNewPart(x) /\ ~Truncate(x) /\ ~NoQuery(x) /\ \A q \in Parts : ~WritePart(x, q)
      BY <1>s, <2>1, AddNewPartDoes, TruncateDoes, WritePartDoes DEF NoQuery, AtQueries
    <3>4. ~LockedStep(x)
      BY <1>s, <2>1, RemoveOldPartDoes, AppendRemovalDoes, SkipRolledBackDoes, TruncateEndsDoes, ActivatePartDoes
         DEF LockedStep
    <3> QED  BY <1>s, <2>0, <3>1, <3>2, <3>3, <3>4, QueryChanges
  <2>2. CASE Locking(x)
    <3>1. CASE SameQuery(x)
      BY <1>s, <1>3, <1>d, <2>2, <3>1 DEF SameQuery, Goal, Table, ActiveIsNotRemoved, Adding, Locking, Truncating, Appending
    <3>2. ~AddNewPart(x) /\ ~Truncate(x) /\ ~NoQuery(x) /\ ~UndoPart(x) /\ \A q \in Parts : ~WritePart(x, q)
      BY <1>s, <2>2, AddNewPartDoes, TruncateDoes, WritePartDoes, UndoPartDoes DEF NoQuery, AtQueries, Locking
    <3>3. CASE Truncating(x)
      <4>1. ASSUME ~Doomed(x) PROVE client[x] = "append" /\ p = Head(covered[x])
        BY <1>s, <1>3, <2>2, <3>3, <4>1 DEF Table, ActiveIsNotRemoved, Adding, Locking, Appending
      <4>2. ASSUME LockedStep(x), ~Doomed(x) PROVE FALSE
        <5>1. AppendRemoval(x)
          BY <1>s, <4>1, <4>2, RemoveOldPartDoes, SkipRolledBackDoes, TruncateEndsDoes, ActivatePartDoes DEF LockedStep
        <5> QED  BY <1>s, <3>3, <4>1, <4>2, <5>1, AppendRemovalDoes
      <4> QED  BY <1>s, <1>d, <2>0, <3>1, <3>2, <4>2, QueryChanges
    <3>4. CASE ~Truncating(x)
      <4>0. Adding(x)
        BY <2>2, <3>4 DEF Adding
      <4>1. ASSUME ~Doomed(x) PROVE p \in Covers[new_part[x]]
        <5>1. CASE Appending(x, p)
          <6>1. p \in Range(covered[x])
            <7>1. covered[x] \in Seq(Parts) /\ covered[x] # <<>>
              BY <1>s, <5>1, Types DEF Base, TxnInv, AtHand, Appending
            <7> QED  BY <5>1, <7>1, HeadAndTail DEF Appending
          <6> QED  BY <1>s, <4>0, <6>1 DEF Table, LoopIsComplete
        <5> QED  BY <1>s, <1>3, <2>2, <4>1, <5>1 DEF Table, ActiveIsNotRemoved, Locking
      <4>2. ASSUME LockedStep(x), ~Doomed(x) PROVE Goal
        <5>1. CASE RemoveOldPart(x)
          <6>1. client'[x] \in {"undo", "append"} /\ new_part'[x] = new_part[x]
            BY <1>s, <3>4, <5>1, RemoveOldPartDoes
          <6> QED  BY <3>4, <4>1, <4>2, <6>1 DEF Goal, Adding, Locking, Truncating
        <5>2. CASE AppendRemoval(x)
          <6>1. client'[x] = "remove" /\ new_part'[x] = new_part[x]
            BY <1>s, <5>2, AppendRemovalDoes
          <6> QED  BY <3>4, <4>1, <4>2, <6>1 DEF Goal, Adding, Locking, Truncating
        <5>3. ~SkipRolledBack(x) /\ ~TruncateEnds(x)
          BY <1>s, <3>4, SkipRolledBackDoes, TruncateEndsDoes
        <5>4. ASSUME ActivatePart(x) PROVE FALSE
          <6>1. ~IsCovered(new_part[x])
            BY <1>s, <5>4, ActivatingReplaces, NeverCovered
          <6> QED  BY <1>s, <1>3, <4>1, <4>2, <5>4, <6>1, ActivatePartDoes
        <5> QED  BY <4>2, <5>1, <5>2, <5>3, <5>4 DEF LockedStep
      <4> QED  BY <1>s, <1>d, <2>0, <3>1, <3>2, <4>2, QueryChanges
    <3> QED  BY <3>3, <3>4
  <2> QED  BY <1>s, <1>3, <1>d, <2>1, <2>2 DEF Table, ActiveIsNotRemoved, Adding, Appending, Locking
<1> QED  BY <1>1, <1>2, <1>3

-----------------------------------------------------------------------------
(* A part that is live is Active, or its removal is pending. *)
LEMMA LiveFacts ==
  ASSUME Base, Names, Table, NEW p \in Parts, Live(p)
  PROVE  /\ \A w \in Txns : p \in Writes[w] \/ Creates(w, p) => IsCommitted(w)
         /\ \A w \in Txns : Removed(w, p) => Pending(w, p)
         /\ state[p] \in {None, "Active"} \/ \E w \in Txns : Pending(w, p)
<1>1. ASSUME NEW w \in Txns, p \in Writes[w] \/ Creates(w, p) PROVE IsCommitted(w)
  <2>1. p \notin Initial
    BY <1>1, CreatorFacts, TableAssumption
  <2>2. PICK z \in Txns : Creates(z, p) /\ IsCommitted(z)
    BY <2>1 DEF Live
  <2> QED  BY <1>1, <2>2, CreatorFacts
<1>2. ASSUME NEW w \in Txns, Removed(w, p) PROVE Pending(w, p)
  <2>1. ~IsCommitted(w)
    BY <1>2 DEF Live, Removed
  <2> QED  BY <1>1, <1>2, <2>1 DEF Pending
<1>3. CASE state[p] = "PreActive"
  <2>1. PICK w \in Txns : Writing(w) /\ p = new_part[w]
    BY <1>3 DEF Table, PreActiveIsWritten
  <2>2. p \in Writes[w]
    BY <2>1, OneWriter
  <2> QED  BY <1>1, <2>1, <2>2, CommittedFacts
<1>4. CASE state[p] = "Outdated"
  <2>1. ASSUME NEW w \in Txns, p \in Writes[w], Doomed(w) PROVE FALSE
    BY <1>1, <2>1 DEF Doomed
  <2> QED  BY <1>1, <1>2, <1>4, <2>1 DEF Table, OutdatedIsRemoved
<1>5. state[p] \in {None, "PreActive", "Active", "Outdated"}
  BY Types
<1> QED  BY <1>1, <1>2, <1>3, <1>4, <1>5

(* While a removal is pending, the transaction is running. *)
LEMMA PendingIsRunning ==
  ASSUME Base, NEW x \in Txns, NEW p \in Parts, Pending(x, p)
  PROVE  Running(x) /\ InUse(p) /\ Removes(x, p) /\ ~IsCommitted(x)
<1>1. Removes(x, p) /\ finish[x] # "done" /\ ~IsCommitted(x)
  BY DEF Pending, Removed
<1>2. Running(x)
  BY <1>1, RemoverHasBegun DEF HasBegun, Base, TxnInv, RunningIsUnfinished
<1>3. InUse(p)
  BY <1>1, ChangedIsPresent DEF Removes, Base, TableInv
<1> QED  BY <1>1, <1>2, <1>3

LEMMA LiveStarts ==
  ASSUME TableStep, NEW p \in Parts, Live(p)', ~Live(p)
  PROVE  \E x \in Txns : /\ (Commit(x) \/ CommitLost(x)) /\ Creates(x, p) /\ ~Removes(x, p)
                         /\ ~IsCommitted(x) /\ IsCommitted(x)'
<1>s. Stepping /\ Base /\ Names /\ Table
  BY DEF TableStep, Stepping
<1>1. ASSUME NEW x \in Txns, Removes(x, p) \/ Removes(x, p)', IsCommitted(x) \/ IsCommitted(x)' PROVE ~Removes(x, p) /\ ~IsCommitted(x)'
  BY <1>s, <1>1, ChangesStay, LifeGoesOn DEF Live
<1>2. p \notin Initial /\ ~ \E x \in Txns : Creates(x, p) /\ IsCommitted(x)
  BY <1>s, <1>1, ChangesStay, LifeGoesOn DEF Live
<1>3. PICK x \in Txns : Creates(x, p)' /\ IsCommitted(x)'
  BY <1>2 DEF Live
<1>4. ~IsCommitted(x)
  <2>1. ASSUME IsCommitted(x) PROVE FALSE
    <3>1. AddNewPart(x)
      BY <1>s, <1>2, <1>3, <2>1, ChangesStay
    <3> QED  BY <1>s, <2>1, <3>1, AddNewPartDoes, CommittedFacts
  <2> QED  BY <2>1
<1>5. Commit(x) \/ CommitLost(x)
  BY <1>s, <1>3, <1>4, CommitStarts
<1>6. Creates(x, p)
  BY <1>s, <1>3, <1>5, ChangesStay, AddNewPartDoes, CommitDoes
<1>7. ~Removes(x, p)
  BY <1>1, <1>3
<1> QED  BY <1>3, <1>4, <1>5, <1>6, <1>7

(* What a commit makes live is Active. *)
LEMMA CommittedIsActive ==
  ASSUME Base, Names, Removals, Table, NEW x \in Txns, client[x] = "commit", ~IsCommitted(x),
         NEW p \in Parts, Creates(x, p), ~Removes(x, p)
  PROVE  state[p] = "Active" /\ Present(p)
<1>1. csn[x] = CommittingCSN /\ finish[x] = None
  BY DEF Base, TxnInv, Outcome
<1>2. ~Doomed(x)
  BY <1>1, CSNFacts DEF Doomed
<1>3. Present(p)
  BY <1>1, ChangedIsPresent DEF Creates, Base, TableInv, None
<1>4. \A w \in Txns : p \in Writes[w] \/ Creates(w, p) => w = x
  BY CreatorFacts
<1>5. state[p] # "PreActive"
  <2>1. ASSUME NEW w \in Txns, Writing(w), p = new_part[w] PROVE FALSE
    <3>1. w = x
      BY <1>4, <2>1, OneWriter
    <3> QED  BY <2>1, <3>1 DEF Writing
  <2> QED  BY <2>1 DEF Table, PreActiveIsWritten
<1>6. state[p] # "Outdated"
  <2>1. ASSUME NEW w \in Txns, Removed(w, p) PROVE FALSE
    <3>1. CreatedFor(w, p) /\ Removes(w, p)
      BY <2>1 DEF Removed, Table, RemovedIsSeen
    <3> QED  BY <3>1, OnlyCreator
  <2> QED  BY <1>2, <1>4, <2>1 DEF Table, OutdatedIsRemoved
<1> QED  BY <1>3, <1>5, <1>6, Types DEF Present

LEMMA NewLive ==
  ASSUME TableStep, NEW p \in Parts, NEW q \in Parts, Live(p)', ~Live(p), Live(q)', Share(p, q)
  PROVE  p = q
<1>s. Stepping /\ Base /\ Names /\ Removals /\ Table
  BY DEF TableStep, Stepping
<1>1. PICK x \in Txns : /\ (Commit(x) \/ CommitLost(x)) /\ Creates(x, p) /\ ~Removes(x, p)
                        /\ ~IsCommitted(x) /\ IsCommitted(x)'
  BY LiveStarts
<1>2. client[x] = "commit" /\ Running(x)
  BY <1>s, <1>1, CommitDoes
<1>3. state[p] = "Active"
  BY <1>s, <1>1, <1>2, CommittedIsActive
<1>4. CASE ~Live(q)
  <2>1. PICK y \in Txns : /\ (Commit(y) \/ CommitLost(y)) /\ Creates(y, q) /\ ~Removes(y, q)
                          /\ ~IsCommitted(y) /\ IsCommitted(y)'
    BY <1>4, LiveStarts
  <2>2. client[y] = "commit"
    BY <1>s, <2>1, CommitDoes
  <2>3. state[q] = "Active"
    BY <1>s, <2>1, <2>2, CommittedIsActive
  <2> QED  BY <1>s, <1>3, <2>3 DEF Table, OneActive
<1>5. CASE Live(q)
  <2>1. started
    BY <1>s, <1>2, EmptyRange DEF Table, LoadingIsQuiet, Running
  <2>2. state[q] # None
    BY <1>s, <1>5, <2>1 DEF Table, LiveIsThere, LoadedHasState
  <2>3. CASE state[q] = "Active"
    BY <1>s, <1>3, <2>3 DEF Table, OneActive
  <2>4. ASSUME NEW w \in Txns, Pending(w, q) PROVE p = q
    <3>1. Share(q, p)
      BY SharingFacts
    <3>2. q = p \/ Creates(w, p)
      BY <1>s, <1>3, <2>4, <3>1 DEF Table, PendingIsReplaced
    <3>3. ASSUME Creates(w, p) PROVE FALSE
      <4>1. w = x
        BY <1>s, <1>1, <3>3, CreatorFacts
      <4>2. Removes(x, q)'
        BY <1>s, <2>4, <4>1, PendingIsRunning, ChangesStay
      <4> QED  BY <1>1, <4>2 DEF Live
    <3> QED  BY <3>2, <3>3
  <2> QED  BY <1>s, <1>5, <2>2, <2>3, <2>4, LiveFacts
<1> QED  BY <1>4, <1>5

LEMMA NextOneLive ==
  ASSUME TableStep, NEW p \in Parts, NEW q \in Parts
  PROVE  OneLive(p, q)'
<1> SUFFICES ASSUME Live(p)', Live(q)', Share(p, q)' PROVE p = q
  BY DEF OneLive
<1>1. Share(p, q) /\ Share(q, p)
  BY SharingFacts DEF Share, Blocks
<1> QED  BY <1>1, NewLive DEF TableStep, Table, OneLive

LEMMA LoadedStays ==
  ASSUME Stepping, NEW p \in loaded, ~CrashServer
  PROVE  p \in loaded'
<1>1. p \in Parts
  BY Types DEF Stepping
<1> QED  BY <1>1, PartIsSteady, GrabOldPartDoes, LoadPartDoes, WritePartDoes DEF Steady

LEMMA NextLiveIsThere ==
  ASSUME TableStep, NEW p \in Parts
  PROVE  LiveIsThere(p)'
<1> SUFFICES ASSUME Live(p)' PROVE p \in on_disk' /\ (started' => p \in loaded')
  BY DEF LiveIsThere
<1>s. Stepping /\ Base /\ Names /\ Removals /\ Table
  BY DEF TableStep, Stepping
<1>1. CASE ~Live(p)
  <2>1. PICK x \in Txns : /\ (Commit(x) \/ CommitLost(x)) /\ Creates(x, p) /\ ~Removes(x, p)
                          /\ ~IsCommitted(x) /\ IsCommitted(x)'
    BY <1>1, LiveStarts
  <2>2. client[x] = "commit" /\ Deciding(x)
    BY <1>s, <2>1, CommitDoes DEF Deciding
  <2>3. Present(p)
    BY <1>s, <2>1, <2>2, CommittedIsActive
  <2>4. on_disk' = on_disk /\ loaded' = loaded
    BY <1>s, <2>2, DecidingKeeps
  <2> QED  BY <2>3, <2>4 DEF Present
<1>2. CASE Live(p)
  <2>1. p \in on_disk /\ (started => p \in loaded)
    BY <1>s, <1>2 DEF Table, LiveIsThere
  <2>2. p \in on_disk'
    <3>1. CASE GrabOldPart(p)
      <4>1. state[p] = "Outdated"
        BY <1>s, <3>1, GrabOldPartDoes
      <4>2. InUse(p)
        BY <1>s, <1>2, <4>1, LiveFacts, PendingIsRunning DEF None
      <4> QED  BY <1>s, <2>1, <3>1, <4>2, GrabOldPartDoes
    <3>2. CASE CrashServer
      BY <1>s, <2>1, <3>2, CrashDoes
    <3> QED  BY <1>s, <2>1, <3>1, <3>2, PartIsSteady, LoadPartDoes, WritePartDoes DEF Steady
  <2>3. ASSUME started' PROVE p \in loaded'
    <3>0. ~CrashServer
      BY <1>s, <2>3, CrashDoes
    <3>1. CASE started
      BY <1>s, <2>1, <3>0, <3>1, LoadedStays
    <3>2. CASE ~started
      <4>1. ServerStarted
        BY <1>s, <2>3, <3>2, TailWaits
      <4>2. CASE p \in loaded
        BY <1>s, <3>0, <4>2, LoadedStays
      <4>3. CASE p \notin loaded
        <5>1. PICK q \in Parts : p \in Covers[q] /\ state[q] = "Active"
          BY <2>1, <4>1, <4>3 DEF ServerStarted, IsCovered
        <5>2. Live(q) /\ Share(p, q) /\ p # q
          BY <1>s, <3>2, <5>1, CoveredFacts DEF Table, LoadedIsLive
        <5> QED  BY <1>s, <1>2, <5>2 DEF Table, OneLive
      <4> QED  BY <4>2, <4>3
    <3> QED  BY <3>1, <3>2
  <2> QED  BY <2>2, <2>3
<1> QED  BY <1>1, <1>2

LEMMA NextLoadedIsLive ==
  ASSUME TableStep, NEW p \in Parts
  PROVE  LoadedIsLive(p)'
<1> SUFFICES ASSUME ~started', state'[p] = "Active" PROVE Live(p)'
  BY DEF LoadedIsLive
<1>s. Stepping /\ Base /\ Names /\ Removals /\ Table
  BY DEF TableStep, Stepping
<1>1. ~started
  BY <1>s, StartedStays, CrashDoes DEF None
<1>2. in_use = <<>> /\ \A x \in Txns : client[x] \in {"idle", "end"} /\ ~Running(x)
  BY <1>s, <1>1, EmptyRange DEF Table, LoadingIsQuiet, Running
<1>3. Live(p)
  <2>1. CASE LoadPart(p) /\ p \in loaded'
    BY <2>1, LoadedOutcome
  <2>2. ~ \E x \in Txns : Activates(x, p)
    <3>1. ASSUME NEW x \in Txns, ActivatePart(x) PROVE FALSE
      BY <1>s, <1>2, <3>1, ActivatePartDoes
    <3>2. ASSUME NEW x \in Txns, RestoreRemoved(x) PROVE FALSE
      BY <1>s, <1>2, <3>2, TreatingKeeps DEF Treating
    <3> QED  BY <3>1, <3>2 DEF Activates
  <2>3. CASE state[p] = "Active"
    BY <1>s, <1>1, <2>3 DEF Table, LoadedIsLive
  <2> QED  BY <1>s, <2>1, <2>2, <2>3, StateMoves DEF None
<1>4. ASSUME NEW x \in Txns, Removes(x, p)', IsCommitted(x)' PROVE FALSE
  <2>1. Removes(x, p)
    BY <1>s, <1>2, <1>4, ChangesStay, RemoveOldPartDoes
  <2>2. IsCommitted(x)
    BY <1>s, <1>2, <1>4, CommitStarts, CommitDoes
  <2> QED  BY <1>3, <2>1, <2>2 DEF Live
<1>5. p \in Initial \/ \E x \in Txns : Creates(x, p)' /\ IsCommitted(x)'
  BY <1>s, <1>3, ChangesStay, LifeGoesOn DEF Live
<1> QED  BY <1>4, <1>5 DEF Live

-----------------------------------------------------------------------------
LEMMA NextTable ==
  ASSUME Stepping, Names, Names', Removals, Removals', Table
  PROVE  Table'
<1>t. TableStep
  BY DEF TableStep
<1>1. LoadingIsQuiet'
  BY NextLoadingIsQuiet DEF Table
<1>2. ASSUME NEW p \in Parts
      PROVE  /\ PreActiveIsWritten(p)' /\ OutdatedIsRemoved(p)' /\ LiveIsThere(p)' /\ LoadedIsLive(p)'
             /\ LoadedHasState(p)' /\ PreparedIsRolledBack(p)'
  <2>1. PreActiveIsWritten(p)' /\ LoadedHasState(p)'
    BY NextPreActiveIsWritten, NextLoadedHasState DEF Table
  <2> QED  BY <1>t, <2>1, NextOutdatedIsRemoved, NextLiveIsThere, NextLoadedIsLive, NextPreparedIsRolledBack
<1>3. ASSUME NEW p \in Parts, NEW q \in Parts PROVE OneActive(p, q)' /\ OneLive(p, q)'
  BY <1>t, NextOneActive, NextOneLive
<1>4. ASSUME NEW x \in Txns
      PROVE  MergingIsMine(x)' /\ TruncateIsAlone(x)' /\ SourcesAreActive(x)' /\ WrittenIsNew(x)' /\ LoopIsComplete(x)'
  <2>1. MergingIsMine(x)' /\ TruncateIsAlone(x)'
    BY NextMergingIsMine, NextTruncateIsAlone DEF Table
  <2> QED  BY <1>t, <2>1, NextSourcesAreActive, NextWrittenIsNew, NextLoopIsComplete
<1>5. ASSUME NEW x \in Txns, NEW p \in Parts
      PROVE  /\ RemovedIsSeen(x, p)' /\ BlocksAreKnown(x, p)' /\ LoopIsFree(x, p)' /\ RolledBackIsOutdated(x, p)'
             /\ ActiveIsNotRemoved(x, p)'
  BY <1>t, NextRemovedIsSeen, NextBlocksAreKnown, NextLoopIsFree, NextRolledBackIsOutdated, NextActiveIsNotRemoved
<1>6. ASSUME NEW x \in Txns, NEW y \in Txns PROVE MergesAreDisjoint(x, y)'
  BY NextMergesAreDisjoint DEF Table
<1>7. ASSUME NEW x \in Txns, NEW p \in Parts, NEW q \in Parts PROVE PendingIsReplaced(x, p, q)'
  BY <1>t, NextPendingIsReplaced
<1>8. ASSUME NEW x \in Txns, NEW y \in Txns, NEW p \in Parts, NEW q \in Parts PROVE OnePending(x, y, p, q)'
  BY <1>t, NextOnePending
<1> QED  BY <1>1, <1>2, <1>3, <1>4, <1>5, <1>6, <1>7, <1>8 DEF Table

LEMMA SameTable ==
  ASSUME UNCHANGED vars, Table
  PROVE  Table'
<1>1. /\ UNCHANGED <<csn, client, merging, new_part, covered, creating, removing, finish, todo, state, on_disk, loaded>>
      /\ UNCHANGED <<version, tid, committed, in_use, started>>
  <2>1. UNCHANGED logVars
    BY DEF vars
  <2>2. UNCHANGED <<tid, committed, in_use, started>>
    BY <2>1, LogIsSame
  <2> QED  BY <2>2 DEF vars, txnVars, partVars, writeVars, changes, ending
<1>2. LoadingIsQuiet' <=> LoadingIsQuiet
  BY <1>1 DEF LoadingIsQuiet
<1>3. ASSUME NEW x \in Txns
      PROVE  /\ (IsCommitted(x)' <=> IsCommitted(x)) /\ (Doomed(x)' <=> Doomed(x)) /\ (Writing(x)' <=> Writing(x))
             /\ (Locking(x)' <=> Locking(x)) /\ (Truncating(x)' <=> Truncating(x)) /\ (Adding(x)' <=> Adding(x))
             /\ (Replaces(x)' <=> Replaces(x))
             /\ \A p \in Parts : /\ (Creates(x, p)' <=> Creates(x, p)) /\ (Removes(x, p)' <=> Removes(x, p))
                                 /\ (Appending(x, p)' <=> Appending(x, p))
  BY <1>1 DEF IsCommitted, Doomed, Writing, Locking, Truncating, Adding, Replaces, Creates, Removes, Appending
<1>4. ASSUME NEW x \in Txns, NEW p \in Parts
      PROVE  (CreatedFor(x, p)' <=> CreatedFor(x, p)) /\ (Removed(x, p)' <=> Removed(x, p)) /\ (Pending(x, p)' <=> Pending(x, p))
  BY <1>1, <1>3 DEF CreatedFor, CommittedBy, Snapshot, Removed, Pending
<1>5. ASSUME NEW p \in Parts PROVE (Live(p)' <=> Live(p)) /\ (Known(p)' <=> Known(p))
  BY <1>3 DEF Live, Known
<1>6. ASSUME NEW p \in Parts
      PROVE  /\ PreActiveIsWritten(p)' /\ OutdatedIsRemoved(p)' /\ LiveIsThere(p)' /\ LoadedIsLive(p)'
             /\ LoadedHasState(p)' /\ PreparedIsRolledBack(p)'
  BY <1>1, <1>3, <1>4, <1>5 DEF Table, PreActiveIsWritten, OutdatedIsRemoved, LiveIsThere, LoadedIsLive, LoadedHasState,
     PreparedIsRolledBack
<1>7. ASSUME NEW p \in Parts, NEW q \in Parts PROVE OneActive(p, q)' /\ OneLive(p, q)'
  BY <1>1, <1>5 DEF Table, OneActive, OneLive, Share, Blocks
<1>8. ASSUME NEW x \in Txns
      PROVE  MergingIsMine(x)' /\ TruncateIsAlone(x)' /\ SourcesAreActive(x)' /\ WrittenIsNew(x)' /\ LoopIsComplete(x)'
  <2>1. MergingIsMine(x)'
    <3>1. \A p : CreatedFor(x, p)' <=> CreatedFor(x, p)
      BY <1>1 DEF CreatedFor, CommittedBy, Snapshot, Creates
    <3> QED  BY <1>1, <1>3, <3>1 DEF Table, MergingIsMine
  <2>2. TruncateIsAlone(x)' /\ SourcesAreActive(x)'
    BY <1>1, <1>3 DEF Table, TruncateIsAlone, NothingIsMerged, SourcesAreActive, Blocks
  <2>3. WrittenIsNew(x)' /\ LoopIsComplete(x)'
    BY <1>1, <1>3 DEF Table, WrittenIsNew, LoopIsComplete, Removes
  <2> QED  BY <2>1, <2>2, <2>3
<1>9. ASSUME NEW x \in Txns, NEW p \in Parts
      PROVE  /\ RemovedIsSeen(x, p)' /\ BlocksAreKnown(x, p)' /\ LoopIsFree(x, p)' /\ RolledBackIsOutdated(x, p)'
             /\ ActiveIsNotRemoved(x, p)'
  <2>1. RemovedIsSeen(x, p)' /\ RolledBackIsOutdated(x, p)' /\ ActiveIsNotRemoved(x, p)'
    BY <1>1, <1>3, <1>4 DEF Table, RemovedIsSeen, RolledBackIsOutdated, ActiveIsNotRemoved
  <2>2. BlocksAreKnown(x, p)'
    BY <1>1, <1>3 DEF Table, BlocksAreKnown, Blocks, Known, Creates
  <2>3. LoopIsFree(x, p)'
    BY <1>1, <1>3, <1>4 DEF Table, LoopIsFree
  <2> QED  BY <2>1, <2>2, <2>3
<1>10. ASSUME NEW x \in Txns, NEW y \in Txns PROVE MergesAreDisjoint(x, y)'
  BY <1>1 DEF Table, MergesAreDisjoint
<1>11. ASSUME NEW x \in Txns, NEW p \in Parts, NEW q \in Parts PROVE PendingIsReplaced(x, p, q)'
  BY <1>1, <1>3, <1>4 DEF Table, PendingIsReplaced, Share, Blocks
<1>12. ASSUME NEW x \in Txns, NEW y \in Txns, NEW p \in Parts, NEW q \in Parts PROVE OnePending(x, y, p, q)'
  BY <1>4 DEF Table, OnePending, Share, Blocks
<1> QED  BY <1>2, <1>6, <1>7, <1>8, <1>9, <1>10, <1>11, <1>12 DEF Table

LEMMA InitTable ==
  ASSUME Init
  PROVE  Table
<1>1. /\ \A x \in Txns : /\ client[x] = "idle" /\ merging[x] = {} /\ covered[x] = <<>>
                         /\ \A p : ~Creates(x, p) /\ ~Removes(x, p)
      /\ in_use = <<>>
  BY EmptyRange DEF Init, LogInit, Creates, Removes
<1>2. \A p \in Parts : state[p] = IF p \in Initial THEN "Active" ELSE None
  BY DEF Init
<1>3. \A x \in Txns : ~Writing(x) /\ ~Locking(x) /\ ~Adding(x) /\ ~Replaces(x)
  BY <1>1 DEF Writing, Locking, Adding, Replaces
<1>4. \A x \in Txns : \A p : ~Removed(x, p) /\ ~Pending(x, p)
  BY <1>1 DEF Removed, Pending
<1>5. \A p \in Parts : Live(p) <=> p \in Initial
  BY <1>1 DEF Live
<1>6. ASSUME NEW p \in Initial, NEW q \in Initial, Share(p, q) PROVE p = q
  BY <1>6, TableAssumption DEF Share, Blocks
<1>7. \A p \in Parts : PreparedIsRolledBack(p)
  BY NoMetadataFacts, PrehistoricFacts, MetadataFacts DEF Init, PreparedIsRolledBack
<1>8. ASSUME NEW p \in Parts
      PROVE  /\ PreActiveIsWritten(p) /\ OutdatedIsRemoved(p) /\ LiveIsThere(p) /\ LoadedIsLive(p) /\ LoadedHasState(p)
  BY <1>2, <1>5 DEF PreActiveIsWritten, OutdatedIsRemoved, LiveIsThere, LoadedIsLive, LoadedHasState, None, Init
<1>9. ASSUME NEW p \in Parts, NEW q \in Parts PROVE OneActive(p, q) /\ OneLive(p, q)
  BY <1>2, <1>5, <1>6 DEF OneActive, OneLive, None
<1>10. ASSUME NEW x \in Txns
       PROVE  MergingIsMine(x) /\ TruncateIsAlone(x) /\ SourcesAreActive(x) /\ WrittenIsNew(x) /\ LoopIsComplete(x)
  BY <1>1, <1>3 DEF MergingIsMine, TruncateIsAlone, SourcesAreActive, WrittenIsNew, LoopIsComplete
<1>11. ASSUME NEW x \in Txns, NEW p \in Parts
       PROVE  /\ RemovedIsSeen(x, p) /\ BlocksAreKnown(x, p) /\ LoopIsFree(x, p) /\ RolledBackIsOutdated(x, p)
              /\ ActiveIsNotRemoved(x, p)
  BY <1>1, <1>3 DEF RemovedIsSeen, BlocksAreKnown, LoopIsFree, RolledBackIsOutdated, ActiveIsNotRemoved
<1>12. ASSUME NEW x \in Txns, NEW y \in Txns PROVE MergesAreDisjoint(x, y)
  BY <1>1 DEF MergesAreDisjoint
<1>13. ASSUME NEW x \in Txns, NEW p \in Parts, NEW q \in Parts PROVE PendingIsReplaced(x, p, q)
  BY <1>4 DEF PendingIsReplaced
<1>14. ASSUME NEW x \in Txns, NEW y \in Txns, NEW p \in Parts, NEW q \in Parts PROVE OnePending(x, y, p, q)
  BY <1>4 DEF OnePending
<1>15. LoadingIsQuiet
  BY <1>1 DEF LoadingIsQuiet
<1> QED  BY <1>7, <1>8, <1>9, <1>10, <1>11, <1>12, <1>13, <1>14, <1>15 DEF Table

LEMMA TableHolds == Spec => [](Base /\ Names /\ Removals /\ Table)
<1>1. ASSUME Base, Names, Removals, Table, Base', Names', Removals', [Next]_vars PROVE Table'
  <2>1. CASE Next
    BY <1>1, <2>1, NextTable DEF Stepping
  <2>2. CASE UNCHANGED vars
    BY <1>1, <2>2, SameTable
  <2> QED  BY <1>1, <2>1, <2>2
<1> QED  BY <1>1, InitTable, RemovalsHold, PTL DEF Spec

(* No Active part is covered by another one: the set of parts that queries *)
(* read never has the same rows twice.                                     *)
THEOREM ActivePartsStayDisjoint == Spec => []ActivePartsAreDisjoint
<1>1. Table => ActivePartsAreDisjoint
  <2> SUFFICES ASSUME Table, NEW p \in Parts, NEW q \in Parts, state[p] = "Active", state[q] = "Active", q \in Covers[p]
               PROVE  FALSE
    BY DEF ActivePartsAreDisjoint
  <2>1. Share(p, q) /\ q # p
    BY CoveredFacts
  <2> QED  BY <2>1 DEF Table, OneActive
<1> QED  BY <1>1, TableHolds, PTL

(* When nobody works, the Active parts are those that committed            *)
(* transactions have left: commits, rollbacks, kills and restarts lose no  *)
(* part and bring none back.                                               *)
THEOREM ActivePartsAreWhatCommitsLeave == Spec => []ActivePartsAreTheLatest
<1>1. ASSUME Base, Names, Removals, Table PROVE ActivePartsAreTheLatest
  <2> SUFFICES ASSUME started, on_disk \subseteq loaded, in_use = <<>>, \A x \in Txns : client[x] \in {"idle", "end"},
                      NEW p \in Parts
               PROVE  state[p] = "Active" <=> Live(p)
    BY DEF ActivePartsAreTheLatest, Live
  <2>0. \A x \in Txns : ~Running(x)
    BY EmptyRange DEF Running
  <2>1. ASSUME state[p] = "Active" PROVE Live(p)
    <3>1. ASSUME NEW x \in Txns, Creates(x, p) PROVE IsCommitted(x)
      <4>1. finish[x] = "done"
        BY <1>1, <2>0, <3>1, RemoverHasBegun DEF HasBegun, Base, TxnInv, RunningIsUnfinished
      <4> QED  BY <1>1, <2>1, <3>1, <4>1 DEF Table, RolledBackIsOutdated
    <3>2. ASSUME NEW x \in Txns, Removes(x, p), IsCommitted(x) PROVE FALSE
      <4>1. ActiveIsNotRemoved(x, p)
        BY <1>1 DEF Table
      <4> QED  BY <2>1, <3>2, <4>1 DEF ActiveIsNotRemoved, Doomed, Adding, Locking, Appending
    <3>3. Known(p)
      BY <1>1, <2>1 DEF Names, PartIsKnown
    <3> QED  BY <3>1, <3>2, <3>3 DEF Live, Known
  <2>2. ASSUME Live(p) PROVE state[p] = "Active"
    <3>1. state[p] # None
      BY <1>1, <2>2 DEF Table, LiveIsThere, LoadedHasState
    <3>2. ~ \E w \in Txns : Pending(w, p)
      BY <1>1, <2>0, PendingIsRunning
    <3> QED  BY <1>1, <2>2, <3>1, <3>2, LiveFacts
  <2> QED  BY <2>1, <2>2
<1> QED  BY <1>1, TableHolds, PTL

-----------------------------------------------------------------------------
(* Visibility. *)

(* A transaction has one entry at most, newer than its snapshot. *)
CommitsAreOnce == \A e, f \in committed : e.tid = f.tid => e = f
CommitsAreLater == \A e \in committed : e.tid.start_csn < e.csn
Commits == CommitsAreOnce /\ CommitsAreLater

LEMMA CommittedChanges ==
  ASSUME IInv, [LogNext]_logVars
  PROVE  \/ committed' = committed
         \/ \E x \in Txns : /\ committed' = committed \cup {[csn |-> next_csn, tid |-> tid[x]]}
                            /\ x \in Range(in_use) /\ ~IsCommitted(x) /\ alive
<1>1. CASE Crash \/ LoadLogFromZooKeeper \/ SetServerCompletelyStarted
  BY <1>1 DEF Crash, LoadLogFromZooKeeper, SetServerCompletelyStarted
<1>2. ASSUME NEW x \in Txns, BeginTransaction(x) \/ CommitFails(x) \/ PostponeFinalization(x) \/ ReleaseSnapshot(x)
      PROVE  committed' = committed
  BY <1>2 DEF BeginTransaction, CommitFails, PostponeFinalization, ReleaseSnapshot
<1>3. ASSUME NEW x \in Txns, CommitPoint(x) \/ CommitPointLost(x)
      PROVE  /\ committed' = committed \cup {[csn |-> next_csn, tid |-> tid[x]]}
             /\ x \in Range(in_use) /\ ~IsCommitted(x) /\ alive
  BY <1>3 DEF CommitPoint, CommitPointLost, CreateEntry
<1>4. CASE Updater \/ UpdaterFails \/ FinalizedUnknownState
  BY <1>4 DEF Updater, UpdaterWakes, ListEntries, LoadEntries, PublishSnapshot, UpdateTailPtr, RemoveOldEntries,
     SwapUnknownStateLists, FinalizedAll, UpdaterFails, FinalizedUnknownState
<1>5. CASE UNCHANGED logVars
  BY <1>5 DEF logVars
<1> QED  BY <1>1, <1>2, <1>3, <1>4, <1>5 DEF LogNext

LEMMA NextCommits ==
  ASSUME IInv, Commits, [LogNext]_logVars
  PROVE  Commits'
<1>1. CASE committed' = committed
  BY <1>1 DEF Commits, CommitsAreOnce, CommitsAreLater
<1>2. ASSUME NEW x \in Txns, committed' = committed \cup {[csn |-> next_csn, tid |-> tid[x]]},
             x \in Range(in_use), ~IsCommitted(x), alive
      PROVE  Commits'
  <2>1. tid[x] # EmptyTID
    BY <1>2, RunningHasBegun DEF IInv
  <2>2. tid[x].start_csn < next_csn
    BY <2>1 DEF IInv, TIDsAreOld, Snapshot
  <2>3. PICK n : n = [csn |-> next_csn, tid |-> tid[x]]
    OBVIOUS
  <2>4. n.csn = next_csn /\ n.tid = tid[x] /\ committed' = committed \cup {n}
    BY <1>2, <2>3
  <2>5. \A e \in committed : e.tid # n.tid
    BY <1>2, <2>4 DEF IsCommitted
  <2>6. CommitsAreOnce'
    BY <2>4, <2>5 DEF Commits, CommitsAreOnce
  <2>7. CommitsAreLater'
    BY <2>2, <2>4 DEF Commits, CommitsAreLater
  <2> QED  BY <2>6, <2>7 DEF Commits
<1> QED  BY <1>1, <1>2, CommittedChanges

LEMMA CommitsHold == Spec => []Commits
<1>1. LogInit => Commits
  BY DEF LogInit, Commits, CommitsAreOnce, CommitsAreLater
<1> QED  BY <1>1, NextCommits, ImplementsLog, LogIInv, PTL DEF LogSpec

(* While the server runs, the oldest snapshot only gets newer, and a new   *)
(* entry is newer than every snapshot.                                     *)
LEMMA ListChanges ==
  ASSUME IInv, [LogNext]_logVars, alive, alive'
  PROVE  /\ latest_snapshot <= latest_snapshot'
         /\ \A y \in Range(in_use') : (y \in Range(in_use) /\ tid'[y] = tid[y]) \/ Snapshot(y)' = latest_snapshot
<1> DEFINE Q == /\ latest_snapshot <= latest_snapshot'
                /\ \A y \in Range(in_use') : (y \in Range(in_use) /\ tid'[y] = tid[y]) \/ Snapshot(y)' = latest_snapshot
<1>t. latest_snapshot \in Nat /\ in_use \in Seq(Txns) /\ local_tid_counter \in Nat /\ tid \in [Txns -> TIDs]
  BY DEF IInv, LogTypeOK
<1>1. ASSUME latest_snapshot' = latest_snapshot, in_use' = in_use, tid' = tid PROVE Q
  BY <1>t, <1>1
<1>2. CASE Crash \/ LoadLogFromZooKeeper
  BY <1>2 DEF Crash, LoadLogFromZooKeeper
<1>3. CASE SetServerCompletelyStarted
  BY <1>1, <1>3 DEF SetServerCompletelyStarted, memory
<1>4. ASSUME NEW x \in Txns, CommitPoint(x) \/ CommitPointLost(x) \/ CommitFails(x) \/ PostponeFinalization(x) PROVE Q
  BY <1>1, <1>4 DEF CommitPoint, CommitPointLost, CreateEntry, CommitFails, PostponeFinalization, memory
<1>5. ASSUME NEW x \in Txns, BeginTransaction(x) PROVE Q
  <2>1. /\ in_use' = Append(in_use, x) /\ latest_snapshot' = latest_snapshot
        /\ tid' = [tid EXCEPT ![x] = TransactionID(latest_snapshot, local_tid_counter + 1)]
    BY <1>5 DEF BeginTransaction
  <2>2. Range(in_use') = Range(in_use) \cup {x} /\ Range(in_use) \subseteq Txns
    BY <1>t, <2>1, SequenceFacts
  <2>3. tid'[x].start_csn = latest_snapshot /\ \A y \in Txns : y # x => tid'[y] = tid[y]
    BY <1>t, <2>1, TIDFacts
  <2> QED  BY <1>t, <2>1, <2>2, <2>3 DEF Snapshot
<1>6. ASSUME NEW x \in Txns, ReleaseSnapshot(x) PROVE Q
  <2>1. PICK k \in DOMAIN in_use : in_use' = RemoveAt(in_use, k)
    BY <1>6 DEF ReleaseSnapshot
  <2>2. Range(in_use') \subseteq Range(in_use)
    BY <1>t, <2>1, RemoveAtFacts
  <2>3. latest_snapshot' = latest_snapshot /\ tid' = tid
    BY <1>6 DEF ReleaseSnapshot
  <2> QED  BY <1>t, <2>2, <2>3
<1>7. CASE PublishSnapshot
  <2>1. latest_snapshot' = last_entry /\ in_use' = in_use /\ tid' = tid /\ updater = "publish"
    BY <1>7 DEF PublishSnapshot
  <2>2. latest_snapshot < last_entry /\ last_entry \in Nat
    BY <2>1 DEF IInv, LoadingPhase, LogTypeOK
  <2> QED  BY <1>t, <2>1, <2>2
<1>8. CASE (Updater /\ ~PublishSnapshot) \/ UpdaterFails \/ FinalizedUnknownState
  BY <1>1, <1>8 DEF Updater, UpdaterWakes, ListEntries, LoadEntries, UpdateTailPtr, RemoveOldEntries,
     SwapUnknownStateLists, FinalizedAll, UpdaterFails, FinalizedUnknownState, memory
<1>9. CASE UNCHANGED logVars
  BY <1>1, <1>9 DEF logVars, memory
<1> QED  BY <1>2, <1>3, <1>4, <1>5, <1>6, <1>7, <1>8, <1>9 DEF LogNext

LEMMA OldestGrows ==
  ASSUME Stepping, alive'
  PROVE  /\ GetOldestSnapshot' \in Nat
         /\ alive => GetOldestSnapshot \in Nat /\ GetOldestSnapshot <= GetOldestSnapshot'
         /\ ~alive => \A e \in committed : e.csn <= GetOldestSnapshot'
<1>b. IInv /\ IInv' /\ [LogNext]_logVars
  BY NextLogStep DEF Stepping, Base
<1>1. GetOldestSnapshot' \in Nat /\ latest_snapshot' \in Nat /\ latest_snapshot \in Nat /\ in_use' \in Seq(Txns)
      /\ \A y \in Txns : Snapshot(y)' \in Nat /\ Snapshot(y) \in Nat
  <2>1. latest_snapshot' \in Nat /\ latest_snapshot \in Nat /\ in_use' \in Seq(Txns) /\ tid \in [Txns -> TIDs] /\ tid' \in [Txns -> TIDs]
    BY <1>b DEF IInv, LogTypeOK
  <2>2. \A y \in Txns : Snapshot(y)' \in Nat /\ Snapshot(y) \in Nat
    BY <2>1, TIDFacts DEF Snapshot
  <2>3. in_use' # <<>> => Head(in_use') \in Txns
    BY <2>1, HeadAndTail
  <2> QED  BY <2>1, <2>2, <2>3 DEF GetOldestSnapshot
<1>2. ASSUME alive PROVE GetOldestSnapshot \in Nat /\ GetOldestSnapshot <= GetOldestSnapshot'
  <2>1. /\ GetOldestSnapshot \in Nat /\ GetOldestSnapshot <= latest_snapshot
        /\ \A y \in Range(in_use) : GetOldestSnapshot <= Snapshot(y)
    BY <1>b, <1>2, OldestSnapshotFacts DEF IInv
  <2>2. /\ latest_snapshot <= latest_snapshot'
        /\ \A y \in Range(in_use') : (y \in Range(in_use) /\ tid'[y] = tid[y]) \/ Snapshot(y)' = latest_snapshot
    BY <1>b, <1>2, ListChanges
  <2>3. CASE in_use' = <<>>
    BY <1>1, <2>1, <2>2, <2>3 DEF GetOldestSnapshot
  <2>4. CASE in_use' # <<>>
    <3>1. PICK h \in Txns : h = Head(in_use') /\ h \in Range(in_use')
      BY <1>1, <2>4, HeadAndTail
    <3>2. GetOldestSnapshot' = Snapshot(h)'
      BY <2>4, <3>1 DEF GetOldestSnapshot, Snapshot
    <3>3. GetOldestSnapshot <= Snapshot(h)'
      BY <2>1, <2>2, <3>1 DEF Snapshot
    <3> QED  BY <2>1, <3>2, <3>3
  <2> QED  BY <2>3, <2>4
<1>3. ASSUME ~alive PROVE \A e \in committed : e.csn <= GetOldestSnapshot'
  <2>1. LoadLogFromZooKeeper
    BY <1>b, <1>3 DEF LogNext, Crash, SetServerCompletelyStarted, BeginTransaction, CommitPoint, CommitPointLost,
       CommitFails, PostponeFinalization, ReleaseSnapshot, Updater, UpdaterWakes, ListEntries, LoadEntries,
       PublishSnapshot, UpdateTailPtr, RemoveOldEntries, SwapUnknownStateLists, FinalizedAll, UpdaterFails,
       FinalizedUnknownState, logVars
  <2>2. in_use = <<>> /\ in_use' = in_use /\ latest_snapshot' = next_csn
    BY <1>b, <1>3, <2>1 DEF IInv, DeadIsEmpty, LoadLogFromZooKeeper
  <2>3. GetOldestSnapshot' = next_csn
    BY <2>2 DEF GetOldestSnapshot
  <2>4. \A e \in committed : e.csn < next_csn /\ e.csn \in Nat /\ next_csn \in Nat
    BY <1>b, TIDFacts DEF IInv, KeeperNumbers, LogTypeOK
  <2> QED  BY <2>3, <2>4
<1> QED  BY <1>1, <1>2, <1>3

-----------------------------------------------------------------------------
Sound == Base /\ Names /\ Removals /\ Stamps /\ Table /\ Commits

(* A transaction whose queries look at parts. *)
Viewer(x) == client[x] = "ready" /\ csn[x] = UnknownCSN
RemovedFor(x, p) == \E y \in Txns : Removes(y, p) /\ CommittedBy(y, Snapshot(x))

LEMMA InSnapshotIs ==
  ASSUME NEW x \in Txns, NEW p
  PROVE  InSnapshot(x, p) <=> CreatedFor(x, p) /\ ~Removes(x, p) /\ ~RemovedFor(x, p)
BY DEF InSnapshot, CreatedFor, RemovedFor

LEMMA ViewerFacts ==
  ASSUME Sound, NEW x \in Txns, Viewer(x)
  PROVE  /\ Running(x) /\ HasBegun(x) /\ ~Doomed(x) /\ ~IsCommitted(x) /\ ~Writing(x) /\ alive
         /\ Snapshot(x) \in Nat /\ MaxReservedCSN <= Snapshot(x) /\ Snapshot(x) <= MaxCSN
         /\ Snapshot(x) <= last_loaded_entry /\ last_loaded_entry \in Nat
<1>1. HasBegun(x) /\ client[x] \notin {"exception", "lost", "end"} /\ ~Writing(x)
  BY DEF Viewer, HasBegun, Writing
<1>2. Running(x) /\ ~Doomed(x) /\ ~IsCommitted(x) /\ alive /\ Snapshot(x) \in Nat /\ Snapshot(x) <= MaxCSN
  BY <1>1, UndecidedFacts DEF Sound, Viewer
<1>3. MaxReservedCSN <= Snapshot(x)
  BY <1>2, SnapshotNumbers DEF Sound, Base
<1>4. Snapshot(x) <= latest_snapshot /\ latest_snapshot <= last_loaded_entry /\ latest_snapshot \in Nat /\ last_loaded_entry \in Nat
  BY <1>2 DEF Sound, Base, IInv, TailIsBehindSnapshots, LoadingPhase, LogTypeOK, Running
<1> QED  BY <1>1, <1>2, <1>3, <1>4

LEMMA EntryFacts ==
  ASSUME Sound, NEW e \in committed
  PROVE  /\ e \in Entries /\ e.csn \in Nat /\ MaxReservedCSN < e.csn /\ e.csn <= MaxCSN /\ e.tid \in TIDs
         /\ e.tid.start_csn \in Nat /\ e.tid.start_csn < e.csn /\ e.tid # EmptyTID /\ e.tid # PrehistoricTID
         /\ \E x \in Txns : e.tid = tid[x] /\ IsCommitted(x) /\ HasBegun(x)
         /\ \A f \in committed : f.tid = e.tid => f = e
<1>1. e \in Entries /\ e.csn \in Nat /\ e.tid \in TIDs /\ e.tid.start_csn \in Nat
  BY TIDFacts DEF Sound, Base, IInv, LogTypeOK
<1>2. MaxReservedCSN < e.csn /\ e.csn <= MaxCSN
  BY DEF Sound, Base, TxnInv, CommitNumbers
<1>3. e.tid.start_csn < e.csn /\ \A f \in committed : f.tid = e.tid => f = e
  BY DEF Sound, Commits, CommitsAreLater, CommitsAreOnce
<1>4. PICK x \in Txns : e.tid = tid[x]
  BY DEF Sound, Base, IInv, CommitsHaveTxns
<1>5. IsCommitted(x) /\ HasBegun(x)
  BY <1>4, CommittedFacts DEF IsCommitted, Sound
<1>6. e.tid # EmptyTID /\ e.tid # PrehistoricTID
  BY <1>4, <1>5, BegunFacts DEF Sound
<1> QED  BY <1>1, <1>2, <1>3, <1>4, <1>5, <1>6

(* A CSN found for the creator of a part tells whether the part is in the  *)
(* snapshot of x.                                                          *)
LEMMA CreationTells ==
  ASSUME Sound, NEW x \in Txns, Viewer(x), NEW p \in Parts, state[p] # None,
         NEW c \in CSNs, TrueCreation(version[p].creation_tid, c), c # UnknownCSN
  PROVE  c <= Snapshot(x) <=> CreatedFor(x, p)
<1> DEFINE t == version[p].creation_tid
<1> DEFINE s == Snapshot(x)
<1>v. ~Doomed(x) /\ ~IsCommitted(x) /\ s \in Nat /\ MaxReservedCSN <= s /\ s <= MaxCSN
  BY ViewerFacts
<1>m. Maker(p, t) /\ t # EmptyTID
  BY MakerHasTID DEF Sound, Names, MakerIsNamed
<1>1. CASE c = PrehistoricCSN /\ t = PrehistoricTID
  <2>1. ASSUME NEW w \in Txns, HasBegun(w), t = tid[w] PROVE FALSE
    BY <1>1, <2>1, BegunFacts DEF Sound
  <2>2. p \in Initial
    BY <1>m, <2>1 DEF Maker
  <2> QED  BY <1>1, <1>v, <2>2, CSNFacts DEF CreatedFor
<1>2. CASE [csn |-> c, tid |-> t] \in committed
  <2>1. PICK e \in committed : e.csn = c /\ e.tid = t
    BY <1>2
  <2>2. e.tid # PrehistoricTID /\ \A f \in committed : f.tid = e.tid => f = e
    BY EntryFacts
  <2>3. PICK w \in Txns : p \in Writes[w] /\ HasBegun(w) /\ t = tid[w]
    BY <1>m, <2>1, <2>2 DEF Maker
  <2>4. IsCommitted(w)
    BY <2>1, <2>3 DEF IsCommitted
  <2>5. ~Doomed(w) /\ ~Writing(w)
    BY <2>4, CommittedFacts DEF Sound
  <2>6. Creates(w, p)
    BY <2>3, <2>5 DEF Sound, Names, OwnIsCreated, Made
  <2>7. p \notin Initial /\ \A y \in Txns : Creates(y, p) => y = w
    BY <2>6, CreatorFacts DEF Sound
  <2>8. w # x
    BY <1>v, <2>4
  <2>9. c <= s => CreatedFor(x, p)
    BY <2>1, <2>3, <2>6 DEF CreatedFor, CommittedBy
  <2>10. ASSUME CreatedFor(x, p) PROVE c <= s
    <3>1. CommittedBy(w, s)
      BY <2>7, <2>8, <2>10 DEF CreatedFor
    <3>2. PICK f \in committed : f.tid = tid[w] /\ f.csn <= s
      BY <3>1 DEF CommittedBy
    <3> QED  BY <2>1, <2>2, <2>3, <3>2
  <2> QED  BY <2>9, <2>10
<1>3. CASE c = RolledBackCSN /\ t \in DoomedTIDs
  <2>1. ~(c <= s)
    BY <1>3, <1>v, CSNFacts
  <2>2. PICK d \in Txns : Doomed(d) /\ t = tid[d]
    BY <1>3, <1>m DEF DoomedTIDs
  <2>3. HasBegun(d)
    <3>1. csn[d] = RolledBackCSN => csn[d] # UnknownCSN
      BY CSNFacts
    <3>2. client[d] = "idle" => csn[d] = UnknownCSN
      BY DEF Sound, Base, TxnInv, Outcome
    <3> QED  BY <2>2, <3>1, <3>2 DEF Doomed, HasBegun
  <2>4. t # PrehistoricTID /\ \A y \in Txns : tid[y] = t => y = d
    BY <2>2, <2>3, BegunFacts DEF Sound
  <2>5. p \in Writes[d]
    BY <1>m, <2>4 DEF Maker
  <2>6. ~CreatedFor(x, p)
    BY <1>v, <2>2, <2>5, SeenIsNotDoomed DEF Sound
  <2> QED  BY <2>1, <2>6
<1> QED  BY <1>1, <1>2, <1>3 DEF TrueCreation, TrueRemoval

(* The part is locked by whoever removes it as far as x can tell. *)
LEMMA LockTells ==
  ASSUME Sound, NEW x \in Txns, Viewer(x), NEW p \in Parts, state[p] # None,
         NEW y \in Txns, Removes(y, p), y = x \/ CommittedBy(y, Snapshot(x))
  PROVE  version[p].removal_tid = tid[y]
<1>1. ~Doomed(y)
  BY ViewerFacts DEF CommittedBy, Doomed, IsCommitted
<1>2. Removed(y, p)
  BY <1>1, UnremovedIsDoomed DEF Sound
<1> QED  BY <1>2, RemovedIsLockedBy DEF Sound

LEMMA RemovalTells ==
  ASSUME Sound, NEW x \in Txns, Viewer(x), NEW p \in Parts, state[p] # None,
         NEW c \in CSNs, TrueRemoval(version[p].removal_tid, c), c # UnknownCSN
  PROVE  /\ c <= Snapshot(x) => ~InSnapshot(x, p)
         /\ Snapshot(x) < c => ~RemovedFor(x, p)
<1> DEFINE t == version[p].removal_tid
<1> DEFINE s == Snapshot(x)
<1>v. s \in Nat /\ MaxReservedCSN <= s /\ s <= MaxCSN
  BY ViewerFacts
<1>1. CASE c = PrehistoricCSN /\ t = PrehistoricTID
  <2>1. version[p].creation_csn = RolledBackCSN
    BY <1>1 DEF Sound, Table, PreparedIsRolledBack
  <2>2. TrueCreation(version[p].creation_tid, RolledBackCSN)
    BY <2>1 DEF Sound, Base, TableInv, PartInv, MetadataIsTrue, TrueMetadata
  <2>3. RolledBackCSN \in CSNs /\ RolledBackCSN # UnknownCSN /\ ~(RolledBackCSN <= s)
    BY <1>v, CSNFacts DEF CSNs
  <2>4. ~CreatedFor(x, p)
    BY <2>2, <2>3, CreationTells
  <2> QED  BY <1>1, <1>v, <2>4, InSnapshotIs, CSNFacts
<1>2. CASE [csn |-> c, tid |-> t] \in committed
  <2>1. PICK e \in committed : e.csn = c /\ e.tid = t
    BY <1>2
  <2>2. PICK z \in Txns : e.tid = tid[z] /\ HasBegun(z)
    BY EntryFacts
  <2>3. Removes(z, p)
    BY <2>1, <2>2 DEF Sound, Removals, LockIsNamed
  <2>4. c <= s => RemovedFor(x, p)
    BY <2>1, <2>2, <2>3 DEF RemovedFor, CommittedBy
  <2>5. ASSUME RemovedFor(x, p), s < c PROVE FALSE
    <3>1. PICK y \in Txns : Removes(y, p) /\ CommittedBy(y, s)
      BY <2>5 DEF RemovedFor
    <3>2. t = tid[y]
      BY <3>1, LockTells
    <3>3. PICK f \in committed : f.tid = tid[y] /\ f.csn <= s
      BY <3>1 DEF CommittedBy
    <3>4. f = e
      BY <2>1, <3>2, <3>3, EntryFacts
    <3> QED  BY <1>v, <2>1, <2>5, <3>3, <3>4, EntryFacts
  <2> QED  BY <2>4, <2>5, InSnapshotIs
<1> QED  BY <1>1, <1>2 DEF TrueRemoval

LEMMA OwnTells ==
  ASSUME Sound, NEW x \in Txns, Viewer(x), NEW p \in Parts, state[p] # None
  PROVE  /\ Creates(x, p) <=> version[p].creation_tid = tid[x]
         /\ Removes(x, p) <=> version[p].removal_tid = tid[x]
         /\ Creates(x, p) => ~RemovedFor(x, p)
<1>v. Running(x) /\ HasBegun(x) /\ ~Doomed(x) /\ ~IsCommitted(x) /\ ~Writing(x)
  BY ViewerFacts
<1>1. Creates(x, p) => version[p].creation_tid = tid[x]
  BY <1>v DEF Sound, Base, TableInv, PartInv, CreatedIsNamed, CreatedBy, Creates
<1>2. version[p].creation_tid = tid[x] => Creates(x, p)
  BY <1>v DEF Sound, Names, OwnIsCreated, Made
<1>3. Removes(x, p) => version[p].removal_tid = tid[x]
  BY LockTells
<1>4. version[p].removal_tid = tid[x] => Removes(x, p)
  BY <1>v DEF Sound, Removals, LockIsNamed
<1>5. ASSUME Creates(x, p), NEW y \in Txns, Removes(y, p), CommittedBy(y, Snapshot(x)) PROVE FALSE
  <2>1. IsCommitted(y)
    BY <1>5 DEF CommittedBy, IsCommitted
  <2>2. CreatedFor(y, p)
    BY <1>5 DEF Sound, Table, RemovedIsSeen
  <2>3. x = y \/ IsCommitted(x)
    BY <1>5, <2>2, OnlyCreator DEF Sound
  <2> QED  BY <1>v, <2>1, <2>3
<1> QED  BY <1>1, <1>2, <1>3, <1>4, <1>5 DEF RemovedFor

(* The check that saves a lookup. *)
LEMMA LaterIsHidden ==
  ASSUME Sound, NEW x \in Txns, Viewer(x), NEW p \in Parts, state[p] # None,
         version[p].creation_tid # tid[x], Snapshot(x) <= version[p].creation_tid.start_csn
  PROVE  ~CreatedFor(x, p)
<1> SUFFICES ASSUME CreatedFor(x, p) PROVE FALSE
  OBVIOUS
<1> DEFINE t == version[p].creation_tid
<1>v. Snapshot(x) \in Nat /\ MaxReservedCSN <= Snapshot(x)
  BY ViewerFacts
<1>1. t # PrehistoricTID
  BY <1>v, TIDFacts, CSNFacts DEF PrehistoricTID, TransactionID
<1>2. PICK w \in Txns : p \in Writes[w] /\ t = tid[w]
  BY <1>1 DEF Sound, Names, MakerIsNamed, Maker
<1>3. p \notin Initial
  BY <1>2, TableAssumption
<1>4. ~Creates(x, p)
  BY OwnTells
<1>5. PICK y \in Txns : Creates(y, p) /\ CommittedBy(y, Snapshot(x))
  BY <1>3, <1>4 DEF CreatedFor
<1>6. y = w
  BY <1>2, <1>5, CreatorFacts DEF Sound
<1>7. PICK e \in committed : e.tid = t /\ e.csn <= Snapshot(x)
  BY <1>2, <1>5, <1>6 DEF CommittedBy
<1> QED  BY <1>v, <1>7, EntryFacts

(* The lookups find every CSN that x has to know. *)
LEMMA LookupFinds ==
  ASSUME Sound, NEW x \in Txns, Viewer(x), NEW y \in Txns, Running(y), CommittedBy(y, Snapshot(x))
  PROVE  GetCSN(tid[y]) # UnknownCSN
<1>v. alive /\ Snapshot(x) \in Nat /\ Snapshot(x) <= last_loaded_entry /\ last_loaded_entry \in Nat
  BY ViewerFacts
<1>1. PICK e \in committed : e.tid = tid[y] /\ e.csn <= Snapshot(x)
  BY DEF CommittedBy
<1>2. e.csn \in Nat /\ e.csn <= last_loaded_entry /\ e.tid # PrehistoricTID
  BY <1>v, <1>1, EntryFacts
<1>3. ~IsOutdated(tid[y])
  BY RunningIsNotOutdated DEF Sound
<1>4. tail_ptr <= e.tid.start_csn
  <2>1. tail_ptr \in Nat /\ e.tid.start_csn \in Nat
    BY EntryFacts DEF Sound, Base, IInv, LogTypeOK
  <2> QED  BY <1>1, <1>2, <1>3, <2>1 DEF IsOutdated
<1>5. e \in tid_to_csn /\ tid_to_csn \subseteq committed
  BY <1>v, <1>2, <1>4 DEF Sound, Base, IInv, LookupsAreRight
<1>6. PICK f \in committed : GetCSN(tid[y]) = f.csn
  <2>1. PICK f : f = CHOOSE g \in tid_to_csn : g.tid = tid[y]
    OBVIOUS
  <2>2. f \in tid_to_csn
    BY <1>1, <1>5, <2>1
  <2> QED  BY <1>1, <1>2, <1>5, <2>1, <2>2 DEF GetCSN
<1> QED  BY <1>6, EntryFacts, CSNFacts

LEMMA CreationIsFound ==
  ASSUME Sound, NEW x \in Txns, Viewer(x), NEW p \in Parts, state[p] \in {"Active", "Outdated"},
         CreatedFor(x, p), version[p].creation_tid # tid[x], version[p].creation_csn = UnknownCSN
  PROVE  GetCSN(version[p].creation_tid) # UnknownCSN
<1>1. CASE version[p].creation_tid = PrehistoricTID
  BY <1>1, CSNFacts DEF GetCSN
<1>2. CASE version[p].creation_tid # PrehistoricTID
  <2>1. PICK w \in Txns : Running(w) /\ Creates(w, p) /\ version[p].creation_tid = tid[w]
    BY <1>2, UnstampedIsRunning DEF Sound
  <2>2. p \notin Initial /\ ~Creates(x, p) /\ \A y \in Txns : Creates(y, p) => y = w
    BY <2>1, CreatorFacts DEF Sound
  <2>3. CommittedBy(w, Snapshot(x))
    BY <2>2 DEF CreatedFor
  <2> QED  BY <2>1, <2>3, LookupFinds
<1> QED  BY <1>1, <1>2

LEMMA RemovalIsFound ==
  ASSUME Sound, NEW x \in Txns, Viewer(x), NEW p \in Parts, state[p] # None,
         RemovedFor(x, p), version[p].removal_csn = UnknownCSN
  PROVE  GetCSN(version[p].removal_tid) # UnknownCSN
<1>1. PICK y \in Txns : Removes(y, p) /\ CommittedBy(y, Snapshot(x))
  BY DEF RemovedFor
<1>2. version[p].removal_tid = tid[y]
  BY <1>1, LockTells
<1>3. IsCommitted(y)
  BY <1>1 DEF CommittedBy, IsCommitted
<1>4. ~RemovalIsDone(y, p)
  BY <1>1, <1>3 DEF Sound, Stamps, RemovalIsStamped
<1>5. Running(y)
  BY <1>3, <1>4, CommittedFacts DEF RemovalIsDone, Sound, Base, TxnInv, RunningIsUnfinished, HasBegun
<1> QED  BY <1>1, <1>2, <1>5, LookupFinds

-----------------------------------------------------------------------------
(* The lock l names whoever has removed the part as far as x can tell. *)
SeesRemover(x, p, l) ==
  \A w \in Txns : Removes(w, p) /\ (w = x \/ CommittedBy(w, Snapshot(x))) => l = tid[w]

(* What a call of isVisible() by x may have loaded of a part. *)
Faithful(x, p, c, l, r) ==
  /\ c \in CSNs /\ TrueCreation(version[p].creation_tid, c)
  /\ r \in CSNs /\ TrueRemoval(version[p].removal_tid, r)
  /\ l \in DoomedTIDs \/ l = version[p].removal_tid
  /\ SeesRemover(x, p, l)

LEMMA MemoryIsFaithful ==
  ASSUME Sound, NEW x \in Txns, Viewer(x), NEW p \in Parts, state[p] # None
  PROVE  Faithful(x, p, version[p].creation_csn, version[p].removal_tid, version[p].removal_csn)
<1>1. version[p] \in Metadata
  BY Types DEF Sound
<1>2. version[p].creation_csn \in CSNs /\ version[p].removal_csn \in CSNs
  BY <1>1, MetadataFacts
<1>3. TrueMetadata(version[p])
  BY DEF Sound, Base, TableInv, PartInv, MetadataIsTrue
<1>4. SeesRemover(x, p, version[p].removal_tid)
  BY LockTells DEF SeesRemover
<1> QED  BY <1>2, <1>3, <1>4 DEF Faithful, TrueMetadata

(* A lock tells whether x has removed the part. *)
LEMMA FaithfulLock ==
  ASSUME Sound, NEW x \in Txns, Viewer(x), NEW p \in Parts, state[p] # None, NEW c, NEW l, NEW r, Faithful(x, p, c, l, r)
  PROVE  /\ l = tid[x] <=> Removes(x, p)
         /\ l = EmptyTID => ~Removes(x, p) /\ ~RemovedFor(x, p)
<1>v. HasBegun(x) /\ ~Doomed(x)
  BY ViewerFacts
<1>1. tid[x] \notin DoomedTIDs
  BY <1>v, BegunFacts DEF DoomedTIDs, Sound
<1>2. l = tid[x] => Removes(x, p)
  BY <1>1, OwnTells DEF Faithful
<1>3. Removes(x, p) => l = tid[x]
  BY DEF Faithful, SeesRemover
<1>4. ASSUME NEW w \in Txns, Removes(w, p), w = x \/ CommittedBy(w, Snapshot(x)) PROVE l # EmptyTID
  <2>1. l = tid[w]
    BY <1>4 DEF Faithful, SeesRemover
  <2>2. HasBegun(w)
    BY <1>4, RemoverHasBegun DEF Sound
  <2> QED  BY <2>1, <2>2, BegunFacts DEF Sound
<1> QED  BY <1>2, <1>3, <1>4 DEF RemovedFor

LEMMA FastPathTells ==
  ASSUME Sound, NEW x \in Txns, Viewer(x), NEW p \in Parts, state[p] # None, NEW c, NEW l, NEW r, Faithful(x, p, c, l, r),
         NEW t, t = version[p].creation_tid
  PROVE  /\ FastHidden(c, l, r, Snapshot(x), tid[x]) => ~InSnapshot(x, p)
         /\ ~FastHidden(c, l, r, Snapshot(x), tid[x]) /\ FastVisible(t, c, l, r, Snapshot(x), tid[x]) => InSnapshot(x, p)
         /\ Snapshot(x) <= t.start_csn /\ t # tid[x] => ~InSnapshot(x, p)
<1> DEFINE s == Snapshot(x)
<1>v. s \in Nat /\ c \in Nat /\ r \in Nat
  BY ViewerFacts, MetadataFacts DEF Faithful
<1>1. c # UnknownCSN => (c <= s <=> CreatedFor(x, p))
  BY CreationTells DEF Faithful
<1>2. r # UnknownCSN => (r <= s => ~InSnapshot(x, p)) /\ (s < r => ~RemovedFor(x, p))
  BY RemovalTells DEF Faithful
<1>3. (l = tid[x] <=> Removes(x, p)) /\ (l = EmptyTID => ~Removes(x, p) /\ ~RemovedFor(x, p))
  BY FaithfulLock
<1>4. t = tid[x] => Creates(x, p) /\ ~RemovedFor(x, p)
  BY OwnTells
<1>5. s <= t.start_csn /\ t # tid[x] => ~CreatedFor(x, p)
  BY LaterIsHidden
<1>6. InSnapshot(x, p) <=> CreatedFor(x, p) /\ ~Removes(x, p) /\ ~RemovedFor(x, p)
  BY InSnapshotIs
<1>7. Creates(x, p) => CreatedFor(x, p)
  BY DEF CreatedFor
<1>8. FastHidden(c, l, r, s, tid[x]) => ~InSnapshot(x, p)
  BY <1>v, <1>1, <1>2, <1>3, <1>6 DEF FastHidden
<1>9. ~FastHidden(c, l, r, s, tid[x]) => ~Removes(x, p)
  BY <1>3 DEF FastHidden
<1>10. FastVisible(t, c, l, r, s, tid[x]) => CreatedFor(x, p) /\ ~RemovedFor(x, p)
  BY <1>v, <1>1, <1>2, <1>3, <1>4, <1>7 DEF FastVisible
<1> QED  BY <1>5, <1>6, <1>8, <1>9, <1>10

LEMMA SlowPathTells ==
  ASSUME Sound, NEW x \in Txns, Viewer(x), NEW p \in Parts, state[p] # None, NEW c, NEW l, NEW r, Faithful(x, p, c, l, r),
         c # UnknownCSN, ~Removes(x, p), r # UnknownCSN \/ ~RemovedFor(x, p)
  PROVE  VisibleByCSN(c, r, Snapshot(x)) <=> InSnapshot(x, p)
<1> DEFINE s == Snapshot(x)
<1>v. s \in Nat /\ c \in Nat /\ r \in Nat
  BY ViewerFacts, MetadataFacts DEF Faithful
<1>1. c <= s <=> CreatedFor(x, p)
  BY CreationTells DEF Faithful
<1>2. r # UnknownCSN => (r <= s => ~InSnapshot(x, p)) /\ (s < r => ~RemovedFor(x, p))
  BY RemovalTells DEF Faithful
<1>3. InSnapshot(x, p) <=> CreatedFor(x, p) /\ ~Removes(x, p) /\ ~RemovedFor(x, p)
  BY InSnapshotIs
<1> QED  BY <1>v, <1>1, <1>2, <1>3 DEF VisibleByCSN

LEMMA WithCSNsIs ==
  ASSUME NEW v \in Metadata, NEW c, c = GetCSNOr(v.creation_tid, v.creation_csn),
         NEW r, r = GetCSNOr(v.removal_tid, v.removal_csn)
  PROVE  /\ c = UnknownCSN => WithCSNs(v).creation_csn = v.creation_csn
         /\ c # UnknownCSN => /\ WithCSNs(v).creation_csn = c
                              /\ v.removal_tid # EmptyTID => WithCSNs(v).removal_csn = r
                              /\ v.removal_tid = EmptyTID => WithCSNs(v).removal_csn = v.removal_csn
BY DEF WithCSNs, Metadata

(* isVisible() in one step. *)
LEMMA VisibleIsInSnapshot ==
  ASSUME Sound, NEW x \in Txns, Viewer(x), NEW p \in Parts, state[p] \in {"Active", "Outdated"}
  PROVE  VisibleTo(x, p) <=> InSnapshot(x, p)
<1> DEFINE v == version[p]
<1> DEFINE s == Snapshot(x)
<1> DEFINE hidden == FastHidden(v.creation_csn, v.removal_tid, v.removal_csn, s, tid[x])
<1> DEFINE visible == FastVisible(v.creation_tid, v.creation_csn, v.removal_tid, v.removal_csn, s, tid[x])
<1>s. state[p] # None /\ v \in Metadata
  BY Types DEF None, Sound
<1>v. alive /\ s \in Nat /\ IInv /\ TxnInv /\ v.creation_tid.start_csn \in Nat
  <2>1. v.creation_tid \in TIDs
    BY <1>s, MetadataFacts
  <2> QED  BY <2>1, ViewerFacts, TIDFacts DEF Sound, Base
<1>f. Faithful(x, p, v.creation_csn, v.removal_tid, v.removal_csn)
  BY <1>s, MemoryIsFaithful
<1>1. /\ hidden => ~InSnapshot(x, p)
      /\ ~hidden /\ visible => InSnapshot(x, p)
      /\ s <= v.creation_tid.start_csn /\ v.creation_tid # tid[x] => ~InSnapshot(x, p)
  BY <1>s, <1>f, FastPathTells
<1>2. VisibleTo(x, p) <=>
        /\ ~hidden
        /\ visible \/ /\ v.creation_tid.start_csn < s
                      /\ VisibleByCSN(AfterIsVisible(v, s, tid[x]).creation_csn, AfterIsVisible(v, s, tid[x]).removal_csn, s)
  BY DEF VisibleTo, IsVisible
<1>3. visible \/ v.creation_tid # tid[x]
  BY DEF FastVisible
<1>4. CASE hidden \/ visible \/ s <= v.creation_tid.start_csn
  BY <1>v, <1>1, <1>2, <1>3, <1>4
<1>5. CASE ~hidden /\ ~visible /\ ~(s <= v.creation_tid.start_csn)
  <2>1. AfterIsVisible(v, s, tid[x]) = WithCSNs(v)
    BY <1>5 DEF AfterIsVisible, NoLookup
  <2>2. VisibleTo(x, p) <=> VisibleByCSN(WithCSNs(v).creation_csn, WithCSNs(v).removal_csn, s)
    BY <1>v, <1>2, <1>5, <2>1
  <2> HIDE DEF hidden, visible
  <2>3. PICK c, r : c = GetCSNOr(v.creation_tid, v.creation_csn) /\ r = GetCSNOr(v.removal_tid, v.removal_csn)
    OBVIOUS
  <2>4. /\ c = UnknownCSN => WithCSNs(v).creation_csn = v.creation_csn
        /\ c # UnknownCSN => /\ WithCSNs(v).creation_csn = c
                             /\ v.removal_tid # EmptyTID => WithCSNs(v).removal_csn = r
                             /\ v.removal_tid = EmptyTID => WithCSNs(v).removal_csn = v.removal_csn
    BY <1>s, <2>3, WithCSNsIs
  <2>5. v.creation_tid # tid[x]
    BY <1>3, <1>5
  <2>6. ~Removes(x, p)
    BY <1>5, <1>s, OwnTells DEF hidden, FastHidden
  <2>7. CASE c = UnknownCSN
    <3>1. v.creation_csn = UnknownCSN /\ GetCSN(v.creation_tid) = UnknownCSN
      BY <2>3, <2>7 DEF GetCSNOr
    <3>2. ~CreatedFor(x, p)
      BY <2>5, <3>1, CreationIsFound
    <3>3. ~VisibleTo(x, p)
      BY <2>2, <2>4, <2>7, <3>1 DEF VisibleByCSN
    <3> QED  BY <3>2, <3>3, InSnapshotIs
  <2>8. CASE c # UnknownCSN
    <3>1. c \in CSNs /\ TrueCreation(v.creation_tid, c) /\ r \in CSNs /\ TrueRemoval(v.removal_tid, r)
      BY <1>f, <1>v, <2>3, GetCSNOrFacts DEF Faithful
    <3>2. CASE v.removal_tid = EmptyTID
      <4>1. Faithful(x, p, c, v.removal_tid, v.removal_csn)
        BY <1>f, <3>1 DEF Faithful
      <4>2. ~RemovedFor(x, p)
        BY <1>s, <3>2, <4>1, FaithfulLock
      <4>3. VisibleByCSN(c, v.removal_csn, s) <=> InSnapshot(x, p)
        BY <1>s, <2>6, <2>8, <4>1, <4>2, SlowPathTells
      <4> QED  BY <2>2, <2>4, <2>8, <3>2, <4>3
    <3>3. CASE v.removal_tid # EmptyTID
      <4>1. Faithful(x, p, c, v.removal_tid, r)
        BY <1>f, <3>1 DEF Faithful
      <4>2. ASSUME r = UnknownCSN PROVE ~RemovedFor(x, p)
        <5>1. v.removal_csn = UnknownCSN /\ GetCSN(v.removal_tid) = UnknownCSN
          BY <2>3, <4>2 DEF GetCSNOr
        <5> QED  BY <1>s, <5>1, RemovalIsFound
      <4>3. VisibleByCSN(c, r, s) <=> InSnapshot(x, p)
        BY <1>s, <2>6, <2>8, <4>1, <4>2, SlowPathTells
      <4> QED  BY <2>2, <2>4, <2>8, <3>3, <4>3
    <3> QED  BY <3>2, <3>3
  <2> QED  BY <2>7, <2>8
<1> QED  BY <1>4, <1>5

-----------------------------------------------------------------------------
LEMMA RolledBackIsNotMade ==
  ASSUME Base, Names, NEW p \in Parts, state[p] # None, version[p].creation_csn = RolledBackCSN
  PROVE  \E d \in Txns : p \in Writes[d] /\ Doomed(d)
<1> DEFINE t == version[p].creation_tid
<1>1. Maker(p, t) /\ t # EmptyTID
  BY MakerHasTID DEF Names, MakerIsNamed
<1>2. TrueCreation(t, RolledBackCSN)
  BY DEF Base, TableInv, PartInv, MetadataIsTrue, TrueMetadata
<1>3. \A e \in committed : e.csn # RolledBackCSN
  <2>1. ASSUME NEW e \in committed PROVE e.csn # RolledBackCSN
    <3>1. e.csn <= MaxCSN
      BY DEF Base, TxnInv, CommitNumbers
    <3> QED  BY <3>1, CSNFacts
  <2> QED  BY <2>1
<1>4. [csn |-> RolledBackCSN, tid |-> t] \notin committed
  BY <1>3
<1>5. t \in DoomedTIDs
  BY <1>2, <1>4, CSNFacts DEF TrueCreation, TrueRemoval
<1>6. PICK d \in Txns : Doomed(d) /\ t = tid[d]
  BY <1>1, <1>5 DEF DoomedTIDs
<1>7. HasBegun(d)
  <2>1. csn[d] = RolledBackCSN => csn[d] # UnknownCSN
    BY CSNFacts
  <2>2. client[d] = "idle" => csn[d] = UnknownCSN
    BY DEF Base, TxnInv, Outcome
  <2> QED  BY <1>6, <2>1, <2>2 DEF Doomed, HasBegun
<1>8. t # PrehistoricTID /\ \A y \in Txns : tid[y] = t => y = d
  BY <1>6, <1>7, BegunFacts
<1> QED  BY <1>1, <1>6, <1>8 DEF Maker

(* Nobody that runs sees a part that has left the disk. *)
MakerIsDoomed(p) == \E w \in Txns : p \in Writes[w] /\ Doomed(w)
OldRemoval(p) ==
  \E w \in Txns : Removes(w, p) /\ \E e \in committed : e.tid = tid[w] /\ (alive => e.csn <= GetOldestSnapshot)
GoneIsInvisible(p) == Known(p) /\ p \notin on_disk => MakerIsDoomed(p) \/ OldRemoval(p)

LEMMA OldRemovalStays ==
  ASSUME Stepping, NEW p \in Parts, OldRemoval(p)
  PROVE  OldRemoval(p)'
<1>b. Base /\ Base'
  BY DEF Stepping
<1>1. PICK w \in Txns, e \in committed : Removes(w, p) /\ e.tid = tid[w] /\ (alive => e.csn <= GetOldestSnapshot)
  BY DEF OldRemoval
<1>2. HasBegun(w)
  BY <1>b, <1>1, RemoverHasBegun
<1>3. tid'[w] = tid[w] /\ Removes(w, p)'
  BY <1>1, <1>2, LifeGoesOn, ChangesStay
<1>4. e \in committed'
  BY NextGrows DEF Stepping, Base, Grows
<1>5. ASSUME alive' PROVE e.csn <= GetOldestSnapshot'
  <2>1. e.csn \in Nat
    BY <1>b, TIDFacts DEF Base, IInv, LogTypeOK
  <2>2. /\ GetOldestSnapshot' \in Nat
        /\ alive => GetOldestSnapshot \in Nat /\ GetOldestSnapshot <= GetOldestSnapshot'
        /\ ~alive => \A f \in committed : f.csn <= GetOldestSnapshot'
    BY <1>5, OldestGrows
  <2> QED  BY <1>1, <2>1, <2>2
<1> QED  BY <1>1, <1>3, <1>4, <1>5 DEF OldRemoval

LEMMA GrabbedIsInvisible ==
  ASSUME Base, Names, Removals, Table, alive, NEW p \in Parts, state[p] # None, CanBeRemoved(version[p])
  PROVE  MakerIsDoomed(p) \/ OldRemoval(p)
<1> DEFINE v == version[p]
<1>1. CASE v.creation_csn = RolledBackCSN
  BY <1>1, RolledBackIsNotMade DEF MakerIsDoomed
<1>2. CASE v.removal_tid = PrehistoricTID
  <2>1. v.creation_csn = RolledBackCSN
    BY <1>2 DEF Table, PreparedIsRolledBack
  <2> QED  BY <1>1, <2>1
<1>3. CASE v.creation_csn # RolledBackCSN /\ v.removal_tid # PrehistoricTID
  <2>0. CanBeRemovedImpl(v)
    BY <1>3 DEF CanBeRemoved
  <2>1. PICK w : w = WithCSNs(v)
    OBVIOUS
  <2>2. w.removal_csn # UnknownCSN /\ w.removal_csn <= GetOldestSnapshot
    BY <1>3, <2>0, <2>1 DEF CanBeRemovedImpl
  <2>3. v \in Metadata /\ TrueMetadata(v) /\ IInv /\ TxnInv
    BY Types DEF Base, TableInv, PartInv, MetadataIsTrue
  <2>4. w.removal_tid = v.removal_tid /\ TrueMetadata(w)
    BY <2>1, <2>3, WithCSNsFacts DEF Restamped
  <2>5. TrueRemoval(v.removal_tid, w.removal_csn)
    BY <2>4 DEF TrueMetadata
  <2>6. PICK e \in committed : e.csn = w.removal_csn /\ e.tid = v.removal_tid
    <3>1. [csn |-> w.removal_csn, tid |-> v.removal_tid] \in committed
      BY <1>3, <2>2, <2>5 DEF TrueRemoval
    <3> QED  BY <3>1
  <2>7. PICK z \in Txns : e.tid = tid[z]
    BY DEF Base, IInv, CommitsHaveTxns
  <2>8. HasBegun(z)
    BY <2>7, CommittedFacts DEF IsCommitted
  <2>9. Removes(z, p)
    BY <2>6, <2>7, <2>8 DEF Removals, LockIsNamed
  <2> QED  BY <2>2, <2>6, <2>7, <2>9 DEF OldRemoval
<1> QED  BY <1>1, <1>2, <1>3

LEMMA NextGoneIsInvisible ==
  ASSUME Stepping, Names, Removals, Table, NEW p \in Parts, GoneIsInvisible(p)
  PROVE  GoneIsInvisible(p)'
<1> SUFFICES ASSUME Known(p)', p \notin on_disk' PROVE (MakerIsDoomed(p) \/ OldRemoval(p))'
  BY DEF GoneIsInvisible
<1>b. Base /\ Base'
  BY DEF Stepping
<1>1. MakerIsDoomed(p) => MakerIsDoomed(p)'
  BY LifeGoesOn DEF MakerIsDoomed
<1>2. CASE Known(p) /\ p \notin on_disk
  BY <1>1, <1>2, OldRemovalStays DEF GoneIsInvisible
<1>3. CASE ~Known(p)
  <2>1. PICK x \in Txns : Creates(x, p)' /\ ~Creates(x, p)
    BY <1>3 DEF Known
  <2>2. AddNewPart(x) /\ p = new_part[x]
    BY <2>1, ChangesStay
  <2>3. client[x] = "written" /\ on_disk' = on_disk
    BY <2>2, AddNewPartDoes
  <2>4. InUse(p)
    BY <2>2, <2>3 DEF InUse
  <2>5. p \in on_disk
    BY <1>b, <2>4 DEF Base, TableInv, PartInv, PartsArePresent, Present
  <2> QED  BY <2>3, <2>5
<1>4. CASE p \in on_disk
  <2>1. ~Steady(p)
    BY <1>4 DEF Steady
  <2>2. ~CrashServer
    BY <1>4, CrashDoes
  <2>3. ~LoadPart(p)
    BY <1>4, LoadPartDoes
  <2>4. \A x \in Txns : ~WritePart(x, p)
    BY <1>4, WritePartDoes
  <2>5. GrabOldPart(p)
    BY <2>1, <2>2, <2>3, <2>4, PartIsSteady
  <2>6. state[p] = "Outdated" /\ alive /\ CanBeRemoved(version[p])
    BY <1>4, <2>5, GrabOldPartDoes
  <2>7. state[p] # None
    BY <2>6 DEF None
  <2> QED  BY <1>b, <1>1, <2>6, <2>7, GrabbedIsInvisible, OldRemovalStays
<1> QED  BY <1>2, <1>3, <1>4

LEMMA SameGoneIsInvisible ==
  ASSUME UNCHANGED vars, NEW p \in Parts, GoneIsInvisible(p)
  PROVE  GoneIsInvisible(p)'
<1>1. /\ UNCHANGED <<on_disk, creating, removing, committed, tid, alive, in_use, latest_snapshot, csn, client>>
  BY DEF vars, logVars, memory, txnVars, changes, partVars
<1> QED  BY <1>1 DEF GoneIsInvisible, Known, MakerIsDoomed, OldRemoval, Doomed, IsCommitted, Creates, Removes,
            GetOldestSnapshot, Snapshot

AllGone == \A p \in Parts : GoneIsInvisible(p)

LEMMA SoundHolds == Spec => []Sound
BY StampsHold, TableHolds, CommitsHold, PTL DEF Sound

LEMMA GoneHolds == Spec => [](Sound /\ AllGone)
<1>1. Init => AllGone
  <2>1. ASSUME Init, NEW p \in Parts, Known(p) PROVE p \in on_disk
    <3>1. on_disk = Initial /\ creating = [x \in Txns |-> <<>>]
      BY <2>1 DEF Init
    <3> QED  BY <2>1, <3>1, EmptyRange DEF Known, Creates
  <2> QED  BY <2>1 DEF AllGone, GoneIsInvisible
<1>2. Sound /\ Sound' /\ AllGone /\ [Next]_vars => AllGone'
  <2> SUFFICES ASSUME Sound, Sound', AllGone, [Next]_vars, NEW p \in Parts PROVE GoneIsInvisible(p)'
    BY DEF AllGone
  <2>1. GoneIsInvisible(p)
    BY DEF AllGone
  <2>2. CASE Next
    BY <2>1, <2>2, NextGoneIsInvisible DEF Sound, Stepping
  <2>3. CASE UNCHANGED vars
    BY <2>1, <2>3, SameGoneIsInvisible
  <2> QED  BY <2>2, <2>3
<1> QED  BY <1>1, <1>2, SoundHolds, PTL DEF Spec

LEMMA SnapshotIsOffered ==
  ASSUME Sound, AllGone, on_disk \subseteq loaded, NEW x \in Txns, Viewer(x), NEW p \in Parts, InSnapshot(x, p)
  PROVE  state[p] \in {"Active", "Outdated"}
<1>v. Running(x) /\ ~Doomed(x) /\ ~Writing(x) /\ alive /\ Snapshot(x) \in Nat
  BY ViewerFacts
<1>1. CreatedFor(x, p) /\ ~RemovedFor(x, p)
  BY InSnapshotIs
<1>2. Known(p)
  BY <1>1 DEF CreatedFor, Known
<1>3. p \in on_disk
  <2>1. ~MakerIsDoomed(p)
    BY <1>v, <1>1, SeenIsNotDoomed DEF MakerIsDoomed, Sound
  <2>2. ASSUME NEW w \in Txns, Removes(w, p), NEW e \in committed, e.tid = tid[w], e.csn <= GetOldestSnapshot PROVE FALSE
    <3>1. GetOldestSnapshot \in Nat /\ GetOldestSnapshot <= Snapshot(x)
      BY <1>v, OldestSnapshotFacts DEF Sound, Base, IInv, Running
    <3>2. e.csn <= Snapshot(x)
      BY <1>v, <2>2, <3>1, EntryFacts
    <3> QED  BY <1>1, <2>2, <3>2 DEF RemovedFor, CommittedBy
  <2> QED  BY <1>v, <1>2, <2>1, <2>2 DEF AllGone, GoneIsInvisible, OldRemoval
<1>4. state[p] # None
  BY <1>3 DEF Sound, Table, LoadedHasState
<1>5. ASSUME state[p] = "PreActive" PROVE FALSE
  <2>1. PICK y \in Txns : Writing(y) /\ p = new_part[y]
    BY <1>5 DEF Sound, Table, PreActiveIsWritten
  <2>2. p \in Writes[y]
    BY <2>1 DEF Sound, Base, TableInv, PartInv, CreatedIsNamed, CreatedBy
  <2>3. p \notin Initial
    BY <2>2, TableAssumption
  <2>4. PICK z \in Txns : Creates(z, p) /\ (z = x \/ IsCommitted(z))
    BY <1>1, <2>3 DEF CreatedFor, CommittedBy, IsCommitted
  <2>5. z = y
    BY <2>2, <2>4, CreatorFacts DEF Sound
  <2> QED  BY <1>v, <2>1, <2>4, <2>5, CommittedFacts DEF Sound
<1>6. state[p] \in {None, "PreActive", "Active", "Outdated"}
  BY Types DEF Sound
<1> QED  BY <1>4, <1>5, <1>6

(* Every running transaction sees exactly its snapshot and its own         *)
(* changes among the parts that the set of parts offers: cleanup takes no  *)
(* part away from a snapshot, and no rollback, failed commit or restart    *)
(* adds one (isVisible, canBeRemoved, grabOldParts).                       *)
THEOREM SnapshotsAreKept == Spec => []SnapshotIsKept
<1>1. ASSUME Sound, AllGone PROVE SnapshotIsKept
  <2> SUFFICES ASSUME on_disk \subseteq loaded, NEW x \in Txns, Idle(x), csn[x] = UnknownCSN, NEW p \in Parts
               PROVE  state[p] \in {"Active", "Outdated"} /\ VisibleTo(x, p) <=> InSnapshot(x, p)
    BY DEF SnapshotIsKept
  <2>1. Viewer(x)
    BY DEF Viewer, Idle
  <2> QED  BY <1>1, <2>1, SnapshotIsOffered, VisibleIsInSnapshot
<1> QED  BY <1>1, GoneHolds, PTL

-----------------------------------------------------------------------------
(* What x has to see does not change while it looks. *)
LEMMA CommittedByIsSame ==
  ASSUME Stepping, Sound, NEW x \in Txns, Viewer(x), NEW y \in Txns, CommittedBy(y, Snapshot(x))'
  PROVE  /\ tid'[x] = tid[x] /\ tid'[y] = tid[y]
         /\ CommittedBy(y, Snapshot(x)) /\ IsCommitted(y)
<1>b. IInv /\ [LogNext]_logVars
  BY NextLogStep DEF Stepping, Base
<1>v. HasBegun(x) /\ Snapshot(x) \in Nat
  BY ViewerFacts
<1>1. tid'[x] = tid[x]
  BY <1>v, LifeGoesOn
<1>2. Snapshot(x) < next_csn /\ next_csn \in Nat
  <2>1. tid[x] # EmptyTID
    BY <1>v, BegunFacts DEF Sound
  <2> QED  BY <1>b, <2>1 DEF IInv, TIDsAreOld, LogTypeOK
<1>3. PICK e \in committed' : e.tid = tid'[y] /\ e.csn <= Snapshot(x)
  BY <1>1 DEF CommittedBy, Snapshot
<1>4. e \in committed
  <2>1. ASSUME NEW z \in Txns, committed' = committed \cup {[csn |-> next_csn, tid |-> tid[z]]} PROVE e \in committed
    <3>1. e = [csn |-> next_csn, tid |-> tid[z]] => e.csn = next_csn
      OBVIOUS
    <3> QED  BY <1>v, <1>2, <1>3, <2>1, <3>1
  <2> QED  BY <1>b, <2>1, CommittedChanges
<1>5. PICK z \in Txns : e.tid = tid[z] /\ IsCommitted(z) /\ HasBegun(z)
  BY <1>4, EntryFacts
<1>6. ~Begin(y)
  BY <1>3, <1>5, BeginDoes
<1>7. HasBegun(y)
  <2>1. tid'[z] = tid[z] /\ HasBegun(z)'
    BY <1>5, LifeGoesOn
  <2>2. y = z
    <3>1. tid'[z] # EmptyTID
      BY <1>5, <2>1, BegunFacts DEF Sound
    <3> QED  BY <1>3, <1>5, <2>1, <3>1 DEF Stepping, Base, IInv, TIDsAreUnique
  <2> QED  BY <1>5, <2>2
<1>8. tid'[y] = tid[y]
  BY <1>7, LifeGoesOn
<1> QED  BY <1>1, <1>3, <1>4, <1>8 DEF CommittedBy, IsCommitted

LEMMA ViewIsSame ==
  ASSUME Stepping, Sound, NEW x \in Txns, Viewer(x), NEW p \in Parts
  PROVE  /\ Creates(x, p)' <=> Creates(x, p)
         /\ Removes(x, p)' <=> Removes(x, p)
         /\ CreatedFor(x, p)' <=> CreatedFor(x, p)
         /\ RemovedFor(x, p)' <=> RemovedFor(x, p)
         /\ InSnapshot(x, p)' <=> InSnapshot(x, p)
         /\ \A l : SeesRemover(x, p, l) => SeesRemover(x, p, l)'
<1>v. HasBegun(x)
  BY ViewerFacts
<1>0. tid'[x] = tid[x] /\ Snapshot(x)' = Snapshot(x)
  BY <1>v, LifeGoesOn DEF Snapshot
<1>1. ASSUME NEW y \in Txns, y = x \/ IsCommitted(y)
      PROVE  (Creates(y, p)' <=> Creates(y, p)) /\ (Removes(y, p)' <=> Removes(y, p))
  <2>1. client[y] \notin {"written", "remove"}
    BY <1>1, CommittedFacts DEF Viewer, Sound
  <2>2. ~AddNewPart(y)
    BY <2>1, AddNewPartDoes
  <2>3. ~RemoveOldPart(y)
    BY <2>1 DEF RemoveOldPart
  <2> QED  BY <2>2, <2>3, ChangesStay
<1>2. ASSUME NEW y \in Txns, CommittedBy(y, Snapshot(x))'
      PROVE  tid'[y] = tid[y] /\ CommittedBy(y, Snapshot(x)) /\ IsCommitted(y)
  BY <1>2, CommittedByIsSame
<1>3. ASSUME NEW y \in Txns, CommittedBy(y, Snapshot(x)) PROVE CommittedBy(y, Snapshot(x))' /\ IsCommitted(y)
  <2>1. PICK s : s = Snapshot(x)
    OBVIOUS
  <2>2. CommittedBy(y, s)'
    BY <1>3, <2>1, CommittedByStays
  <2> QED  BY <1>0, <1>3, <2>1, <2>2 DEF CommittedBy, IsCommitted
<1>4. (Creates(x, p)' <=> Creates(x, p)) /\ (Removes(x, p)' <=> Removes(x, p))
  BY <1>1
<1>5. CreatedFor(x, p)' <=> CreatedFor(x, p)
  BY <1>1, <1>2, <1>3, <1>4 DEF CreatedFor
<1>6. RemovedFor(x, p)' <=> RemovedFor(x, p)
  BY <1>1, <1>2, <1>3 DEF RemovedFor
<1>7. InSnapshot(x, p)' <=> InSnapshot(x, p)
  BY <1>4, <1>5, <1>6 DEF InSnapshot, CreatedFor, RemovedFor
<1>8. ASSUME NEW l, SeesRemover(x, p, l) PROVE SeesRemover(x, p, l)'
  <2>1. ASSUME NEW w \in Txns, Removes(w, p)', w = x \/ CommittedBy(w, Snapshot(x))' PROVE l = tid'[w]
    <3>1. Removes(w, p) /\ (w = x \/ CommittedBy(w, Snapshot(x))) /\ tid'[w] = tid[w]
      BY <1>0, <1>1, <1>2, <2>1
    <3> QED  BY <1>8, <3>1 DEF SeesRemover
  <2> QED  BY <2>1 DEF SeesRemover
<1> QED  BY <1>4, <1>5, <1>6, <1>7, <1>8

(* A client that is in a call of isVisible() does nothing else. *)
LEMMA ReaderWaits ==
  ASSUME Stepping, NEW x \in Txns, client[x] = "ready", read[x].pc # None, ~CrashServer
  PROVE  client'[x] = "ready"
<1>1. CASE SameQuery(x)
  BY <1>1 DEF SameQuery
<1>2. ~Idle(x)
  BY DEF Idle
<1>3. ASSUME NEW p \in Parts, WritePart(x, p) PROVE FALSE
  BY <1>3, WritePartDoes
<1>4. ~Truncate(x) /\ ~AddNewPart(x) /\ ~LockedStep(x) /\ ~UndoPart(x)
  BY <1>2 DEF Truncate, AddNewPart, LockedStep, RemoveOldPart, AppendRemoval, SkipRolledBack, TruncateEnds, ActivatePart, UndoPart
<1>5. CASE Deciding(x)
  <2>1. ~Begin(x) /\ ~BeforeCommit(x) /\ ~ClientRollsBack(x)
    BY <1>2 DEF Begin, BeforeCommit, ClientRollsBack
  <2>2. ~Commit(x) /\ ~CommitLost(x) /\ ~Postpone(x) /\ ~CommitRefused(x)
    BY DEF Commit, CommitLost, Postpone, CommitRefused
  <2>3. CASE Kill(x) \/ RollBackUnknownState(x)
    BY <2>3 DEF Kill, RollBackUnknownState
  <2>4. CASE DecideUnknownState(x) \/ AfterCommit(x) \/ Release(x)
    BY <2>4, DecideDoes, AfterCommitDoes, ReleaseDoes
  <2> QED  BY <1>5, <2>1, <2>2, <2>3, <2>4 DEF Deciding
<1> QED  BY <1>1, <1>3, <1>4, <1>5, QueryChanges DEF NoQuery

LEMMA ReaderWasViewer ==
  ASSUME Stepping, NEW x \in Txns, client[x] = "ready", csn'[x] = UnknownCSN
  PROVE  Viewer(x)
<1>1. csn[x] \in {UnknownCSN, RolledBackCSN}
  BY DEF Stepping, Base, TxnInv, Outcome
<1>2. Stays(x)
  BY NextStays DEF Stepping, Base
<1>3. csn[x] # RolledBackCSN
  BY <1>2, CSNFacts DEF Stays
<1> QED  BY <1>1, <1>3 DEF Viewer

(* What a call knows of the part it is about. *)
ReadKnows(x) ==
  LET r == read[x]
      p == r.part
  IN  /\ r.pc # "load" \/ "removal_tid" \notin r.loads => SeesRemover(x, p, r.removal_tid)
      /\ r.pc \notin {"load", "fast", "done"} => ~Creates(x, p) /\ ~Removes(x, p)
      /\ r.pc \in {"outdated", "failback", "strict"} /\ CreatedFor(x, p) => version[p].creation_csn # UnknownCSN
      /\ r.pc \in {"removal", "strict_removal", "store_removal"} => r.creation_csn # UnknownCSN
      /\ r.pc = "strict_removal" /\ RemovedFor(x, p) => version[p].removal_csn # UnknownCSN
      /\ r.pc = "done" => (r.result <=> InSnapshot(x, p))
ReadIsRight(x) == read[x].pc # None => client[x] = "ready" /\ (csn[x] = UnknownCSN => ReadKnows(x))

LEMMA ReadPartIsSteady ==
  ASSUME Stepping, NEW x \in Txns, read[x].pc # None, ~CrashServer, NEW p, p = read[x].part
  PROVE  p \in Parts /\ Steady(p)
<1>1. p \in Parts /\ InUse(p) /\ Present(p)
  BY ReadIsPresent DEF Stepping
<1>2. ~LoadPart(p)
  BY <1>1, LoadPartDoes DEF Present
<1>3. \A y \in Txns : ~WritePart(y, p)
  BY <1>1, WritePartDoes DEF Present
<1>4. CASE GrabOldPart(p)
  <2>1. AllKept
    BY <1>1, <1>4, GrabOldPartDoes
  <2> QED  BY <1>1, <2>1, KeptIsSteady DEF AllKept
<1> QED  BY <1>1, <1>2, <1>3, <1>4, PartIsSteady

LEMMA ReadIsFaithful ==
  ASSUME Sound, NEW x \in Txns, Viewer(x), read[x].pc # None, read[x].pc # "load", ReadKnows(x), NEW p, p = read[x].part
  PROVE  /\ p \in Parts /\ state[p] \in {"Active", "Outdated"} /\ state[p] # None
         /\ Faithful(x, p, read[x].creation_csn, read[x].removal_tid, read[x].removal_csn)
<1>1. p \in Parts /\ state[p] \in {"Active", "Outdated"}
  BY DEF Sound, Stamps, ReadIsSettled
<1>2. ReadIsTrue(x) /\ read[x] \in Reads
  BY Types DEF Sound, Base, TableInv, PartInv
<1>3. read[x].creation_csn \in CSNs /\ read[x].removal_csn \in CSNs
  BY <1>2 DEF Reads
<1>4. SeesRemover(x, p, read[x].removal_tid)
  BY DEF ReadKnows
<1> QED  BY <1>1, <1>2, <1>3, <1>4 DEF Faithful, ReadIsTrue, None

-----------------------------------------------------------------------------
(* Steps of others leave what the call knows as it is. *)
LEMMA SameReadIsRight ==
  ASSUME Stepping, Sound, NEW x \in Txns, ReadIsRight(x), SameRead(x), ~CrashServer
  PROVE  ReadIsRight(x)'
<1> SUFFICES ASSUME read[x].pc # None PROVE client'[x] = "ready" /\ (csn'[x] = UnknownCSN => ReadKnows(x)')
  BY DEF ReadIsRight, SameRead
<1>1. client[x] = "ready" /\ (csn[x] = UnknownCSN => ReadKnows(x))
  BY DEF ReadIsRight
<1>2. client'[x] = "ready"
  BY <1>1, ReaderWaits
<1>3. ASSUME csn'[x] = UnknownCSN PROVE ReadKnows(x)'
  <2>1. Viewer(x)
    BY <1>1, <1>3, ReaderWasViewer
  <2>2. ReadKnows(x)
    BY <1>1, <2>1 DEF Viewer
  <2>3. PICK p : p = read[x].part
    OBVIOUS
  <2>4. p \in Parts /\ Steady(p) /\ p = read'[x].part
    BY <2>3, ReadPartIsSteady DEF SameRead
  <2>5. /\ version[p].creation_csn # UnknownCSN => version'[p].creation_csn # UnknownCSN
        /\ version[p].removal_csn # UnknownCSN => version'[p].removal_csn # UnknownCSN
    BY <2>4 DEF Steady
  <2>6. /\ Creates(x, p)' <=> Creates(x, p)
        /\ Removes(x, p)' <=> Removes(x, p)
        /\ CreatedFor(x, p)' <=> CreatedFor(x, p)
        /\ RemovedFor(x, p)' <=> RemovedFor(x, p)
        /\ InSnapshot(x, p)' <=> InSnapshot(x, p)
        /\ \A l : SeesRemover(x, p, l) => SeesRemover(x, p, l)'
    BY <2>1, <2>4, ViewIsSame
  <2>7. PICK r : r = read[x] /\ r = read'[x]
    BY DEF SameRead
  <2>8. /\ r.pc # "load" \/ "removal_tid" \notin r.loads => SeesRemover(x, p, r.removal_tid)'
        /\ r.pc \notin {"load", "fast", "done"} => ~Creates(x, p)' /\ ~Removes(x, p)'
        /\ r.pc \in {"outdated", "failback", "strict"} /\ CreatedFor(x, p)' => version'[p].creation_csn # UnknownCSN
        /\ r.pc \in {"removal", "strict_removal", "store_removal"} => r.creation_csn # UnknownCSN
        /\ r.pc = "strict_removal" /\ RemovedFor(x, p)' => version'[p].removal_csn # UnknownCSN
        /\ r.pc = "done" => (r.result <=> InSnapshot(x, p)')
    BY <2>2, <2>3, <2>5, <2>6, <2>7 DEF ReadKnows
  <2> QED  BY <2>4, <2>7, <2>8 DEF ReadKnows
<1> QED  BY <1>2, <1>3

(* What the steps of the call have to establish. *)
LEMMA ReadKnowsNext ==
  ASSUME Stepping, Sound, NEW x \in Txns, Viewer(x), NEW p \in Parts, p = read'[x].part, NEW q, q = read'[x].pc,
         q # "load" \/ "removal_tid" \notin read'[x].loads => SeesRemover(x, p, read'[x].removal_tid),
         q \notin {"load", "fast", "done"} => ~Creates(x, p) /\ ~Removes(x, p),
         q \in {"outdated", "failback", "strict"} /\ CreatedFor(x, p) => version'[p].creation_csn # UnknownCSN,
         q \in {"removal", "strict_removal", "store_removal"} => read'[x].creation_csn # UnknownCSN,
         q = "strict_removal" /\ RemovedFor(x, p) => version'[p].removal_csn # UnknownCSN,
         q = "done" => (read'[x].result <=> InSnapshot(x, p))
  PROVE  ReadKnows(x)'
<1>1. /\ Creates(x, p)' <=> Creates(x, p)
      /\ Removes(x, p)' <=> Removes(x, p)
      /\ CreatedFor(x, p)' <=> CreatedFor(x, p)
      /\ RemovedFor(x, p)' <=> RemovedFor(x, p)
      /\ InSnapshot(x, p)' <=> InSnapshot(x, p)
      /\ \A l : SeesRemover(x, p, l) => SeesRemover(x, p, l)'
  BY ViewIsSame
<1>2. PICK r : r = read'[x]
  OBVIOUS
<1>3. r.pc # "load" \/ "removal_tid" \notin r.loads => SeesRemover(x, p, r.removal_tid)'
  BY <1>1, <1>2
<1> QED  BY <1>1, <1>2, <1>3 DEF ReadKnows

LEMMA LoadKnows ==
  ASSUME Stepping, Sound, NEW x \in Txns, Viewer(x), ReadKnows(x), ReadIsSettled(x), At(x, "load"), NEW f \in Loads, LoadsField(x, f)
  PROVE  ReadKnows(x)'
<1>1. PICK p : p = read[x].part
  OBVIOUS
<1>2. p \in Parts /\ state[p] # None /\ p = read'[x].part
  BY <1>1 DEF ReadIsSettled, At, None, LoadsField
<1>3. read'[x].pc \in {"load", "fast"} /\ (read'[x].pc = "fast" => read'[x].loads = {})
  BY DEF LoadsField
<1>4. ASSUME "removal_tid" \notin read'[x].loads PROVE SeesRemover(x, p, read'[x].removal_tid)
  <2>1. CASE f = "removal_tid"
    <3>1. read'[x].removal_tid = version[p].removal_tid
      BY <1>1, <2>1 DEF LoadsField, Part
    <3> QED  BY <1>2, <3>1, LockTells DEF SeesRemover
  <2>2. CASE f # "removal_tid"
    <3>1. read'[x].removal_tid = read[x].removal_tid /\ "removal_tid" \notin read[x].loads
      BY <1>4, <2>2 DEF LoadsField
    <3> QED  BY <1>1, <3>1 DEF ReadKnows
  <2> QED  BY <2>1, <2>2
<1> QED  BY <1>2, <1>3, <1>4, ReadKnowsNext

LEMMA FastPathKnows ==
  ASSUME Stepping, Sound, NEW x \in Txns, Viewer(x), ReadKnows(x), At(x, "fast"), FastPathIs(x)
  PROVE  ReadKnows(x)'
<1>0. read[x].pc = "fast" /\ read[x].pc # None /\ read[x].pc # "load"
  BY DEF At, None
<1>1. PICK p, c, l, r : p = read[x].part /\ c = read[x].creation_csn /\ l = read[x].removal_tid /\ r = read[x].removal_csn
  OBVIOUS
<1>2. p \in Parts /\ state[p] # None /\ Faithful(x, p, c, l, r)
  BY <1>0, <1>1, ReadIsFaithful
<1>3. PICK t : t = version[p].creation_tid
  OBVIOUS
<1> DEFINE hidden == FastHidden(c, l, r, Snapshot(x), tid[x])
<1> DEFINE visible == FastVisible(t, c, l, r, Snapshot(x), tid[x])
<1>4. /\ hidden => ~InSnapshot(x, p)
      /\ ~hidden /\ visible => InSnapshot(x, p)
      /\ Snapshot(x) <= t.start_csn /\ t # tid[x] => ~InSnapshot(x, p)
  BY <1>2, <1>3, FastPathTells
<1>5. visible \/ t # tid[x]
  BY DEF FastVisible
<1>6. hidden \/ l # tid[x]
  BY DEF FastHidden
<1>7. \/ hidden /\ Answers(x, FALSE)
      \/ ~hidden /\ visible /\ Answers(x, TRUE)
      \/ ~hidden /\ ~visible /\ Snapshot(x) <= t.start_csn /\ Answers(x, FALSE)
      \/ ~hidden /\ ~visible /\ Moves(x, "lookup", c, r)
  BY <1>1, <1>3 DEF FastPathIs, Part
<1> HIDE DEF hidden, visible
<1>8. p = read'[x].part /\ l = read'[x].removal_tid
  BY <1>1, <1>7 DEF Answers, Moves, ReadKeeps
<1>9. SeesRemover(x, p, l)
  BY <1>2 DEF Faithful
<1>10. CASE \E b \in BOOLEAN : Answers(x, b) /\ (b <=> InSnapshot(x, p))
  <2>1. read'[x].pc = "done" /\ (read'[x].result <=> InSnapshot(x, p))
    BY <1>10 DEF Answers, Moves
  <2> QED  BY <1>2, <1>8, <1>9, <2>1, ReadKnowsNext
<1>11. CASE ~hidden /\ ~visible /\ Moves(x, "lookup", c, r)
  <2>1. read'[x].pc = "lookup"
    BY <1>11 DEF Moves
  <2>2. ~Creates(x, p) /\ ~Removes(x, p)
    BY <1>2, <1>3, <1>5, <1>6, <1>11, OwnTells, FaithfulLock
  <2> QED  BY <1>2, <1>8, <1>9, <2>1, <2>2, ReadKnowsNext
<1> QED  BY <1>4, <1>5, <1>7, <1>10, <1>11

(* A step of the slow path other than an answer. *)
LEMMA MoveKnows ==
  ASSUME Stepping, Sound, NEW x \in Txns, Viewer(x), ReadKnows(x), read[x].pc \notin {None, "load", "fast", "done"},
         NEW q, NEW c, NEW r, Moves(x, q, c, r), q \notin {"load", "fast", "done"}, NEW p, p = read[x].part,
         q \in {"outdated", "failback", "strict"} /\ CreatedFor(x, p) => version'[p].creation_csn # UnknownCSN,
         q \in {"removal", "strict_removal", "store_removal"} => c # UnknownCSN,
         q = "strict_removal" /\ RemovedFor(x, p) => version'[p].removal_csn # UnknownCSN
  PROVE  ReadKnows(x)'
<1>1. p \in Parts /\ SeesRemover(x, p, read[x].removal_tid)
  BY ReadIsFaithful DEF Faithful
<1>2. ~Creates(x, p) /\ ~Removes(x, p)
  BY DEF ReadKnows
<1>3. p = read'[x].part /\ read'[x].removal_tid = read[x].removal_tid /\ read'[x].pc = q /\ read'[x].creation_csn = c
  BY DEF Moves, ReadKeeps
<1> QED  BY <1>1, <1>2, <1>3, ReadKnowsNext

LEMMA AnswerKnows ==
  ASSUME Stepping, Sound, NEW x \in Txns, Viewer(x), ReadKnows(x), read[x].pc \notin {None, "load", "fast", "done"},
         NEW b, Answers(x, b), NEW p, p = read[x].part, b <=> InSnapshot(x, p)
  PROVE  ReadKnows(x)'
<1>1. p \in Parts /\ SeesRemover(x, p, read[x].removal_tid)
  BY ReadIsFaithful DEF Faithful
<1>2. p = read'[x].part /\ read'[x].removal_tid = read[x].removal_tid /\ read'[x].pc = "done" /\ read'[x].result = b
  BY DEF Answers, Moves, ReadKeeps
<1> QED  BY <1>1, <1>2, ReadKnowsNext

-----------------------------------------------------------------------------
LEMMA LookupKnows ==
  ASSUME Stepping, Sound, NEW x \in Txns, Viewer(x), ReadKnows(x), ~CrashServer,
         \/ At(x, "lookup") /\ LookupIs(x)
         \/ At(x, "outdated") /\ TailIs(x)
         \/ At(x, "failback") /\ FailbackIs(x)
         \/ At(x, "strict") /\ StrictIs(x)
  PROVE  ReadKnows(x)'
<1>0. read[x].pc \notin {None, "load", "fast", "done"} /\ read[x].pc # None /\ read[x].pc # "load"
  BY DEF At, None
<1>1. PICK p : p = read[x].part
  OBVIOUS
<1>2. p \in Parts /\ state[p] \in {"Active", "Outdated"} /\ state[p] # None
  BY <1>0, <1>1, ReadIsFaithful
<1>3. version[p].creation_csn # UnknownCSN => version'[p].creation_csn # UnknownCSN
  BY <1>0, <1>1, ReadPartIsSteady DEF Steady
<1>4. version[p].creation_tid # tid[x]
  BY <1>0, <1>1, <1>2, OwnTells DEF ReadKnows
<1>k. read[x].pc \in {"outdated", "failback", "strict"} /\ CreatedFor(x, p) => version[p].creation_csn # UnknownCSN
  BY <1>1 DEF ReadKnows
<1>5. CASE At(x, "lookup") /\ LookupIs(x)
  <2>1. PICK c : c = GetCSN(version[p].creation_tid)
    OBVIOUS
  <2>2. \/ c = UnknownCSN /\ Moves(x, "outdated", c, read[x].removal_csn)
        \/ c # UnknownCSN /\ Moves(x, "store", c, read[x].removal_csn)
    BY <1>1, <1>5, <2>1 DEF LookupIs, Part
  <2>3. c = UnknownCSN /\ CreatedFor(x, p) => version'[p].creation_csn # UnknownCSN
    BY <1>2, <1>3, <1>4, <2>1, CreationIsFound
  <2>4. CASE c = UnknownCSN /\ Moves(x, "outdated", c, read[x].removal_csn)
    BY <1>0, <1>1, <2>3, <2>4, MoveKnows
  <2>5. CASE Moves(x, "store", c, read[x].removal_csn)
    BY <1>0, <1>1, <2>5, MoveKnows
  <2> QED  BY <2>2, <2>4, <2>5
<1>6. ASSUME NEW q \in {"failback", "strict", "throw"}, GoesOn(x, q), read[x].pc \in {"outdated", "failback"}
      PROVE  ReadKnows(x)'
  BY <1>0, <1>1, <1>3, <1>6, <1>k, MoveKnows DEF GoesOn
<1>7. CASE At(x, "outdated") /\ TailIs(x)
  BY <1>6, <1>7 DEF TailIs, At
<1>8. CASE At(x, "failback") /\ FailbackIs(x)
  BY <1>6, <1>8 DEF FailbackIs, At
<1>9. CASE At(x, "strict") /\ StrictIs(x)
  <2>1. PICK c : c = version[p].creation_csn
    OBVIOUS
  <2>2. \/ c = UnknownCSN /\ Answers(x, FALSE)
        \/ c # UnknownCSN /\ Moves(x, "store", c, read[x].removal_csn)
    BY <1>1, <1>9, <2>1 DEF StrictIs, Part
  <2>3. CASE c = UnknownCSN /\ Answers(x, FALSE)
    <3>1. ~CreatedFor(x, p)
      BY <1>k, <1>9, <2>1, <2>3 DEF At
    <3>2. ~InSnapshot(x, p)
      BY <1>2, <3>1, InSnapshotIs
    <3> QED  BY <1>0, <1>1, <2>3, <3>2, AnswerKnows
  <2>4. CASE Moves(x, "store", c, read[x].removal_csn)
    BY <1>0, <1>1, <2>4, MoveKnows
  <2> QED  BY <2>2, <2>3, <2>4
<1> QED  BY <1>5, <1>7, <1>8, <1>9

LEMMA StoreKnows ==
  ASSUME Stepping, Sound, NEW x \in Txns, Viewer(x), ReadKnows(x), ~CrashServer,
         \/ At(x, "store") /\ StoreIs(x)
         \/ At(x, "removal") /\ RemovalIs(x)
         \/ At(x, "strict_removal") /\ StrictRemovalIs(x)
         \/ At(x, "store_removal") /\ StoreRemovalIs(x)
  PROVE  ReadKnows(x)'
<1>0. read[x].pc \notin {None, "load", "fast", "done"} /\ read[x].pc # None /\ read[x].pc # "load"
  BY DEF At, None
<1>1. PICK p, c, l, r : p = read[x].part /\ c = read[x].creation_csn /\ l = read[x].removal_tid /\ r = read[x].removal_csn
  OBVIOUS
<1>2. p \in Parts /\ state[p] # None /\ Faithful(x, p, c, l, r)
  BY <1>0, <1>1, ReadIsFaithful
<1>3. version[p].removal_csn # UnknownCSN => version'[p].removal_csn # UnknownCSN
  BY <1>0, <1>1, ReadPartIsSteady DEF Steady
<1>4. ~Removes(x, p)
  BY <1>0, <1>1 DEF ReadKnows
<1>5. c # UnknownCSN
  BY <1>1 DEF ReadKnows, At, Sound, Base, StoresAreKnown
<1>6. ASSUME NEW n, Faithful(x, p, c, l, n), n # UnknownCSN \/ ~RemovedFor(x, p), Answers(x, VisibleByCSN(c, n, Snapshot(x)))
      PROVE  ReadKnows(x)'
  <2>1. VisibleByCSN(c, n, Snapshot(x)) <=> InSnapshot(x, p)
    BY <1>2, <1>4, <1>5, <1>6, SlowPathTells
  <2>2. PICK b : b = VisibleByCSN(c, n, Snapshot(x))
    OBVIOUS
  <2>3. Answers(x, b) /\ (b <=> InSnapshot(x, p))
    BY <1>6, <2>1, <2>2
  <2> QED  BY <1>0, <1>1, <2>3, AnswerKnows
<1>7. CASE At(x, "store") /\ StoreIs(x)
  <2>1. \/ l = EmptyTID /\ Answers(x, VisibleByCSN(c, r, Snapshot(x)))
        \/ l # EmptyTID /\ Moves(x, "removal", c, r)
    BY <1>1, <1>7 DEF StoreIs, GoesOn
  <2>2. l = EmptyTID => ~RemovedFor(x, p)
    BY <1>2, FaithfulLock
  <2>3. CASE l = EmptyTID /\ Answers(x, VisibleByCSN(c, r, Snapshot(x)))
    BY <1>2, <1>6, <2>2, <2>3
  <2>4. CASE Moves(x, "removal", c, r)
    BY <1>0, <1>1, <1>5, <2>4, MoveKnows
  <2> QED  BY <2>1, <2>3, <2>4
<1>8. CASE At(x, "removal") /\ RemovalIs(x)
  <2>1. PICK n : n = GetCSN(l)
    OBVIOUS
  <2>2. \/ n = UnknownCSN /\ Moves(x, "strict_removal", c, r)
        \/ n # UnknownCSN /\ Moves(x, "store_removal", c, n)
    BY <1>1, <1>8, <2>1 DEF RemovalIs, GoesOn
  <2>3. ASSUME n = UnknownCSN, RemovedFor(x, p) PROVE version[p].removal_csn # UnknownCSN
    <3>1. PICK w \in Txns : Removes(w, p) /\ CommittedBy(w, Snapshot(x))
      BY <2>3 DEF RemovedFor
    <3>2. l = tid[w] /\ version[p].removal_tid = tid[w]
      BY <1>2, <3>1, LockTells DEF Faithful, SeesRemover
    <3> QED  BY <1>2, <2>1, <2>3, <3>2, RemovalIsFound
  <2>4. CASE n = UnknownCSN /\ Moves(x, "strict_removal", c, r)
    BY <1>0, <1>1, <1>3, <1>5, <2>3, <2>4, MoveKnows
  <2>5. CASE Moves(x, "store_removal", c, n)
    BY <1>0, <1>1, <1>5, <2>5, MoveKnows
  <2> QED  BY <2>2, <2>4, <2>5
<1>9. CASE At(x, "strict_removal") /\ StrictRemovalIs(x)
  <2>1. PICK n : n = version[p].removal_csn
    OBVIOUS
  <2>2. \/ n = UnknownCSN /\ Answers(x, VisibleByCSN(c, n, Snapshot(x)))
        \/ n # UnknownCSN /\ Moves(x, "store_removal", c, n)
    BY <1>1, <1>9, <2>1 DEF StrictRemovalIs, Part
  <2>3. n = UnknownCSN => ~RemovedFor(x, p)
    BY <1>1, <1>9, <2>1 DEF ReadKnows, At
  <2>4. CASE n = UnknownCSN /\ Answers(x, VisibleByCSN(c, n, Snapshot(x)))
    <3>1. n \in CSNs /\ TrueRemoval(version[p].removal_tid, n)
      BY <2>4, MetadataFacts DEF TrueRemoval
    <3>2. Faithful(x, p, c, l, n)
      BY <1>2, <3>1 DEF Faithful
    <3> QED  BY <1>6, <2>3, <2>4, <3>2
  <2>5. CASE Moves(x, "store_removal", c, n)
    BY <1>0, <1>1, <1>5, <2>5, MoveKnows
  <2> QED  BY <2>2, <2>4, <2>5
<1>10. CASE At(x, "store_removal") /\ StoreRemovalIs(x)
  <2>1. r # UnknownCSN
    BY <1>1, <1>10 DEF At, Sound, Base, StoresAreKnown
  <2>2. Answers(x, VisibleByCSN(c, r, Snapshot(x)))
    BY <1>1, <1>10 DEF StoreRemovalIs
  <2> QED  BY <1>2, <1>6, <2>1, <2>2
<1> QED  BY <1>7, <1>8, <1>9, <1>10

LEMMA NextReadIsRight ==
  ASSUME Stepping, Sound, NEW x \in Txns, ReadIsRight(x)
  PROVE  ReadIsRight(x)'
<1>b. read \in [Txns -> Reads] /\ ReadIsSettled(x)
  BY Types DEF Sound, Stamps
<1>1. CASE CrashServer
  <2>1. read'[x].pc = None
    BY <1>1, CrashDoes
  <2> QED  BY <2>1 DEF ReadIsRight
<1>2. CASE SameRead(x) /\ ~CrashServer
  BY <1>2, SameReadIsRight
<1>3. ASSUME NEW p \in Parts, Select(x, p), ~CrashServer PROVE ReadIsRight(x)'
  <2>1. Viewer(x) /\ client'[x] = "ready"
    BY <1>3 DEF Select, Idle, Viewer, txnVars
  <2>2. read'[x].pc = "load" /\ read'[x].part = p /\ read'[x].loads = Loads
    BY <1>b, <1>3 DEF Select, ReadBegins, NoRead, Reads
  <2>3. "removal_tid" \in read'[x].loads
    BY <2>2 DEF Loads
  <2>4. ReadKnows(x)'
    BY <2>1, <2>2, <2>3, ReadKnowsNext
  <2> QED  BY <2>1, <2>4 DEF ReadIsRight
<1>4. CASE SelectStep(x) /\ ~CrashServer
  <2>1. ReadStep(x) /\ client' = client /\ csn' = csn
    BY <1>4 DEF SelectStep, txnVars
  <2>2. /\ \/ At(x, "load") /\ \E f \in Loads : LoadsField(x, f)
           \/ At(x, "fast") /\ FastPathIs(x)
           \/ At(x, "lookup") /\ LookupIs(x)
           \/ At(x, "outdated") /\ TailIs(x)
           \/ At(x, "failback") /\ FailbackIs(x)
           \/ At(x, "strict") /\ StrictIs(x)
           \/ At(x, "store") /\ StoreIs(x)
           \/ At(x, "removal") /\ RemovalIs(x)
           \/ At(x, "strict_removal") /\ StrictRemovalIs(x)
           \/ At(x, "store_removal") /\ StoreRemovalIs(x)
           \/ At(x, "done") /\ read'[x].pc = None
    BY <1>b, <2>1, ReadStepDoes
  <2>3. read[x].pc # None
    BY <2>2 DEF At, None
  <2>4. client[x] = "ready" /\ (csn[x] = UnknownCSN => ReadKnows(x))
    BY <2>3 DEF ReadIsRight
  <2>5. ASSUME csn'[x] = UnknownCSN, read'[x].pc # None PROVE ReadKnows(x)'
    <3>1. Viewer(x) /\ ReadKnows(x)
      BY <2>1, <2>4, <2>5 DEF Viewer
    <3>2. CASE At(x, "load") /\ \E f \in Loads : LoadsField(x, f)
      BY <1>b, <3>1, <3>2, LoadKnows
    <3>3. CASE At(x, "fast") /\ FastPathIs(x)
      BY <3>1, <3>3, FastPathKnows
    <3> QED  BY <1>4, <2>2, <2>5, <3>1, <3>2, <3>3, LookupKnows, StoreKnows
  <2> QED  BY <2>1, <2>4, <2>5 DEF ReadIsRight
<1> QED  BY <1>1, <1>2, <1>3, <1>4, ReadChanges

Reading == \A x \in Txns : ReadIsRight(x)

LEMMA SameReading ==
  ASSUME UNCHANGED vars, Reading
  PROVE  Reading'
<1>1. UNCHANGED <<read, client, csn, version, creating, removing, committed, tid>>
  BY DEF vars, logVars, txnVars, changes
<1> QED  BY <1>1 DEF Reading, ReadIsRight, ReadKnows, SeesRemover, Creates, Removes, CreatedFor, RemovedFor, InSnapshot,
            CommittedBy, Snapshot

LEMMA ReadingHolds == Spec => [](Sound /\ Reading)
<1>1. Init => Reading
  <2>1. ASSUME Init, NEW x \in Txns PROVE read[x].pc = None
    BY <2>1 DEF Init, NoRead, None
  <2> QED  BY <2>1 DEF Reading, ReadIsRight
<1>2. Sound /\ Sound' /\ Reading /\ [Next]_vars => Reading'
  <2> SUFFICES ASSUME Sound, Sound', Reading, [Next]_vars PROVE Reading'
    OBVIOUS
  <2>1. CASE Next
    BY <2>1, NextReadIsRight DEF Reading, Sound, Stepping
  <2>2. CASE UNCHANGED vars
    BY <2>2, SameReading
  <2> QED  BY <2>1, <2>2
<1> QED  BY <1>1, <1>2, SoundHolds, PTL DEF Spec

(* A call of isVisible() by a running transaction answers whether the part *)
(* is in its snapshot, wherever commits, rollbacks, the tail, the cleanup  *)
(* and other readers come between its loads and lookups.                   *)
THEOREM ReadsSeeTheSnapshot == Spec => []ReadsAreSnapshotReads
<1>1. ASSUME Reading PROVE ReadsAreSnapshotReads
  <2> SUFFICES ASSUME NEW x \in Readers, read[x].pc = "done", csn[x] = UnknownCSN
               PROVE  read[x].result <=> InSnapshot(x, read[x].part)
    BY DEF ReadsAreSnapshotReads
  <2>1. x \in Txns
    BY TableAssumption
  <2>2. ReadKnows(x)
    BY <1>1, <2>1 DEF Reading, ReadIsRight, None
  <2> QED  BY <2>2 DEF ReadKnows
<1> QED  BY <1>1, ReadingHolds, PTL

-----------------------------------------------------------------------------
(* Only the loading of a part may find out that the server cannot start. *)
LEMMA BrokenChanges ==
  ASSUME Next, ~ \E p \in Parts : LoadPart(p)
  PROVE  broken' = broken
<1>1. ASSUME NEW x \in Txns, ClientStep(x) PROVE broken' = broken
  <2>1. CASE Begin(x) \/ SelectStep(x) \/ ClientRollsBack(x) \/ BeforeCommit(x)
    BY <2>1 DEF Begin, SelectStep, ClientRollsBack, BeforeCommit, partVars
  <2>2. CASE AddNewPart(x) \/ Truncate(x) \/ UndoPart(x)
    BY <2>2 DEF AddNewPart, Truncate, UndoPart
  <2>3. CASE \E p \in Parts : Select(x, p) \/ WritePart(x, p)
    BY <2>3 DEF Select, WritePart, partVars
  <2>4. CASE LockedStep(x)
    BY <2>4 DEF LockedStep, RemoveOldPart, AppendRemoval, SkipRolledBack, TruncateEnds, ActivatePart
  <2>5. CASE Commit(x) \/ CommitLost(x) \/ Postpone(x) \/ CommitRefused(x)
    BY <2>5 DEF Commit, CommitLost, Postpone, CommitRefused, partVars
  <2> QED  BY <1>1, <2>1, <2>2, <2>3, <2>4, <2>5 DEF ClientStep
<1>2. ASSUME NEW x \in Txns, FinishStep(x) PROVE broken' = broken
  <2>1. CASE AfterCommit(x) \/ StampCreated(x) \/ StampRemoved(x) \/ Release(x) \/ MarkRolledBack(x)
    BY <2>1 DEF AfterCommit, StampCreated, StampRemoved, Release, MarkRolledBack, partVars
  <2>2. CASE OutdateCreated(x) \/ RestoreRemoved(x) \/ ClearRemoved(x) \/ UnlockRemoved(x)
    BY <2>2 DEF OutdateCreated, RestoreRemoved, ClearRemoved, UnlockRemoved, partVars
  <2> QED  BY <1>2, <2>1, <2>2 DEF FinishStep
<1>3. ASSUME NEW x \in Txns, KillStep(x) \/ UnknownStateStep(x) PROVE broken' = broken
  BY <1>3 DEF KillStep, Kill, KillFails, KillReturns, UnknownStateStep, DecideUnknownState, RollBackUnknownState,
              EndUnknownState, partVars
<1>4. CASE UpdaterStep \/ UpdaterRequestFails
  BY <1>4 DEF UpdaterStep, UpdaterRequestFails, partVars
<1>5. CASE CrashServer \/ StartServer \/ ServerStarted
  BY <1>5 DEF CrashServer, StartServer, ServerStarted, partVars
<1>6. ASSUME NEW p \in Parts, GrabOldPart(p) PROVE broken' = broken
  BY <1>6 DEF GrabOldPart
<1> QED  BY <1>1, <1>2, <1>3, <1>4, <1>5, <1>6 DEF Next

(* A part on disk that the server has still to load. *)
Unloaded(p) == p \in on_disk /\ p \notin loaded /\ alive

(* The lookups find what is missing in the file, or the entry is not       *)
(* purged yet.                                                             *)
LEMMA UnloadedIsFound ==
  ASSUME Sound, FileStamps, NEW p \in Parts, Unloaded(p)
  PROVE  /\ FileOf(p).creation_tid # EmptyTID
         /\ ~LookupThrows(FileOf(p).creation_tid, FileOf(p).creation_csn)
         /\ FileOf(p).removal_tid # EmptyTID => ~LookupThrows(FileOf(p).removal_tid, FileOf(p).removal_csn)
<1>0. Base /\ Names /\ p \in on_disk /\ p \notin loaded /\ alive
  BY DEF Sound, Unloaded
<1>1. CASE file[p] = NoMetadata
  <2>1. FileOf(p).creation_tid = PrehistoricTID /\ FileOf(p).removal_tid = EmptyTID
    BY <1>0, <1>1, FileFacts, PrehistoricFacts
  <2> QED  BY <2>1, MetadataFacts DEF LookupThrows, IsOutdated
<1>2. CASE file[p] # NoMetadata
  <2>1. FileOf(p) = file[p] /\ NamesAreKnown(file[p])
    BY <1>0, <1>2, FileFacts
  <2>2. file[p].creation_tid # EmptyTID
    BY <1>0, <1>2, MakerHasTID DEF Names, MakerIsNamed
  <2>3. ASSUME NEW t, NEW c, t # EmptyTID, t \in NamedTIDs, LookupThrows(t, c),
               \/ t = file[p].creation_tid /\ c = file[p].creation_csn
               \/ t = file[p].removal_tid /\ c = file[p].removal_csn
        PROVE  FALSE
    <3>1. c = UnknownCSN /\ t # PrehistoricTID /\ t.start_csn < tail_ptr
      BY <2>3 DEF LookupThrows, IsOutdated, GetCSNOr
    <3>2. PICK x \in Txns : HasBegun(x) /\ t = tid[x]
      BY <2>3, <3>1 DEF NamedTIDs, HasBegun
    <3>3. Unstamped(x, p)
      BY <2>3, <3>1, <3>2 DEF Unstamped
    <3>4. zk_tail_ptr <= Snapshot(x)
      BY <1>0, <3>2, <3>3 DEF FileStamps, UnloadedIsNotPurged
    <3>5. tail_ptr <= zk_tail_ptr /\ tail_ptr \in Nat /\ zk_tail_ptr \in Nat
      BY <1>0 DEF Base, IInv, TailIsBehindSnapshots, LogTypeOK
    <3>6. Snapshot(x) \in Nat
      BY <1>0, <3>2, BegunFacts, TIDFacts DEF Snapshot
    <3> QED  BY <3>1, <3>2, <3>4, <3>5, <3>6 DEF Snapshot
  <2> QED  BY <2>1, <2>2, <2>3 DEF NamesAreKnown
<1> QED  BY <1>1, <1>2

(* What is found is true, *)
LEMMA FixedIsTrue ==
  ASSUME Sound, FileStamps, NEW p \in Parts, Unloaded(p)
  PROVE  TrueMetadata(FixedFileOf(p)) /\ FixedFileOf(p) \in Metadata
<1>0. Base /\ p \in on_disk /\ p \notin loaded /\ alive
  BY DEF Sound, Unloaded
<1>1. PICK v : v = FileOf(p)
  OBVIOUS
<1>2. v \in Metadata /\ TrueMetadata(v) /\ NamesAreKnown(v) /\ v.creation_tid \in OldTIDs
  BY <1>0, <1>1, FileFacts
<1>3. ~LookupThrows(v.creation_tid, v.creation_csn)
  BY <1>1, UnloadedIsFound
<1>4. Fixed(v) \in Metadata /\ TrueMetadata(Fixed(v))
  BY <1>0, <1>2, <1>3, FixedFacts DEF Base
<1> QED  BY <1>1, <1>2, <1>4 DEF FixedFileOf

(* so a part that is not gone is one that the commits have left. *)
LEMMA NotGoneIsLive ==
  ASSUME Sound, FileStamps, NEW p \in Parts, Unloaded(p),
         FixedFileOf(p).creation_csn # RolledBackCSN, FixedFileOf(p).removal_csn = UnknownCSN
  PROVE  Live(p)
<1>0. Base /\ Names /\ Removals /\ p \in on_disk /\ p \notin loaded /\ alive
  BY DEF Sound, Unloaded
<1>1. PICK t, c : t = FileOf(p).creation_tid /\ c = FixedFileOf(p).creation_csn
  OBVIOUS
<1>2. TrueCreation(t, c)
  BY <1>0, <1>1, FixedIsTrue, FixedFileIs DEF TrueMetadata
<1>3. p \in Initial \/ \E x \in Txns : Creates(x, p) /\ IsCommitted(x)
  <2> SUFFICES ASSUME p \notin Initial PROVE \E x \in Txns : Creates(x, p) /\ IsCommitted(x)
    OBVIOUS
  <2>1. Maker(p, file[p].creation_tid)
    BY <1>0 DEF Names, MakerIsNamed
  <2>2. PICK x \in Txns : p \in Writes[x] /\ HasBegun(x) /\ file[p].creation_tid = tid[x]
    BY <2>1 DEF Maker
  <2>3. tid[x] # EmptyTID /\ tid[x] # PrehistoricTID
    BY <1>0, <2>2, BegunFacts
  <2>4. file[p] # NoMetadata
    BY <2>2, <2>3, NoMetadataFacts
  <2>5. t = tid[x] /\ FileOf(p) = file[p]
    BY <1>0, <1>1, <2>2, <2>4, FileFacts
  <2>6. WasInvolvedInTransaction(FileOf(p))
    BY <1>1, <2>3, <2>5 DEF WasInvolvedInTransaction
  <2>7. c # UnknownCSN /\ c # RolledBackCSN
    BY <1>0, <1>1, <2>6, FixedFileIs
  <2>8. IsCommitted(x)
    BY <1>2, <2>3, <2>5, <2>7 DEF TrueCreation, TrueRemoval, IsCommitted
  <2>9. Made(x, p)
    BY <1>0, <2>2 DEF Made
  <2> QED  BY <1>0, <2>2, <2>8, <2>9, CommittedFacts DEF Names, OwnIsCreated
<1>4. ASSUME NEW x \in Txns, Removes(x, p), IsCommitted(x) PROVE FALSE
  <2>1. file[p].removal_tid = tid[x]
    BY <1>0, <1>4 DEF Removals, RemovalIsFinal
  <2>2. HasBegun(x) /\ ~Doomed(x) /\ tid[x] # EmptyTID /\ tid[x] # PrehistoricTID
    BY <1>0, <1>4, CommittedFacts, BegunFacts
  <2>3. file[p] # NoMetadata
    BY <2>1, <2>2, NoMetadataFacts
  <2>4. FileOf(p) = file[p]
    BY <1>0, <2>3, FileFacts
  <2>5. WasInvolvedInTransaction(FileOf(p))
    BY <2>1, <2>2, <2>4 DEF WasInvolvedInTransaction
  <2>6. StoredOrFound(tid[x], file[p].removal_csn) = UnknownCSN
    BY <1>0, <2>1, <2>4, <2>5, FixedFileIs
  <2>7. file[p].removal_csn \in CSNs
    BY <1>0, Types, MetadataFacts
  <2>8. file[p].removal_csn = UnknownCSN /\ GetCSN(tid[x]) = UnknownCSN
    BY <1>0, <2>6, <2>7, StoredOrFoundFacts DEF Base
  <2>9. ~LookupThrows(tid[x], UnknownCSN)
    BY <2>1, <2>2, <2>4, <2>8, UnloadedIsFound
  <2>10. tid[x] \in OldTIDs
    BY <1>0, <2>1 DEF Base, TableInv, PartInv, UnloadedIsOld
  <2>11. tid[x] \in DoomedTIDs
    BY <1>0, <2>8, <2>9, <2>10, NotFoundIsDoomed DEF Base
  <2>12. \A e \in committed : e.tid # tid[x]
    BY <1>0, <2>11, DoomedHasNoCSN DEF Base, TableInv
  <2> QED  BY <1>4, <2>12 DEF IsCommitted
<1> QED  BY <1>3, <1>4 DEF Live

-----------------------------------------------------------------------------
(* A CSN of a removal is that of an entry; a part that an Active one       *)
(* covers was removed, or never created, so it can be put aside.           *)
LEMMA CoveredIsPrepared ==
  ASSUME Sound, FileStamps, NEW p \in Parts, Unloaded(p), LoadsOutdated(p)
  PROVE  ~PrepareThrows(FixedFileOf(p))
<1>0. Base /\ Names /\ Removals /\ Table /\ p \in on_disk /\ p \notin loaded /\ alive
  BY DEF Sound, Unloaded
<1>1. CASE FixedFileOf(p).creation_csn = RolledBackCSN
  BY <1>1 DEF PrepareThrows
<1>2. CASE FixedFileOf(p).removal_csn # UnknownCSN
  <2>1. PICK t, c : t = FixedFileOf(p).removal_tid /\ c = FixedFileOf(p).removal_csn
    OBVIOUS
  <2>2. TrueRemoval(t, c) /\ c # UnknownCSN
    BY <1>2, <2>1, FixedIsTrue DEF TrueMetadata
  <2>3. t # EmptyTID
    <3>1. CASE t = PrehistoricTID
      BY <3>1, MetadataFacts
    <3>2. ASSUME [csn |-> c, tid |-> t] \in committed PROVE t # EmptyTID
      BY <3>2, EntryFacts
    <3> QED  BY <2>2, <3>1, <3>2 DEF TrueRemoval
  <2> QED  BY <2>1, <2>3 DEF PrepareThrows
<1>3. CASE FixedFileOf(p).creation_csn # RolledBackCSN /\ FixedFileOf(p).removal_csn = UnknownCSN
  <2>1. Live(p)
    BY <1>3, NotGoneIsLive
  <2>2. ~started
    BY <1>0, <2>1 DEF Table, LiveIsThere
  <2>3. PICK q \in Parts : p \in Covers[q] /\ state[q] = "Active"
    BY <1>3 DEF LoadsOutdated, IsGone, IsCovered
  <2>4. Live(q)
    BY <1>0, <2>2, <2>3 DEF Table, LoadedIsLive
  <2>5. Share(p, q) /\ p # q
    BY <2>3, CoveredFacts
  <2> QED  BY <1>0, <2>1, <2>4, <2>5 DEF Table, OneLive
<1> QED  BY <1>1, <1>2, <1>3

(* A transaction that removes a part was begun after the commit of the     *)
(* part, or has made the part itself.                                      *)
LEMMA OrderIsValid ==
  ASSUME Sound, FileStamps, NEW p \in Parts, Unloaded(p)
  PROVE  ~InvalidOrder(FixedFileOf(p))
<1> SUFFICES ASSUME InvalidOrder(FixedFileOf(p)) PROVE FALSE
  OBVIOUS
<1>0. Base /\ Names /\ Removals /\ Table /\ p \in on_disk /\ p \notin loaded /\ alive
  BY DEF Sound, Unloaded
<1>1. PICK t, c, u, d : /\ t = FixedFileOf(p).creation_tid /\ c = FixedFileOf(p).creation_csn
                        /\ u = FixedFileOf(p).removal_tid /\ d = FixedFileOf(p).removal_csn
  OBVIOUS
<1>2. TrueCreation(t, c) /\ TrueRemoval(u, d) /\ c \in Nat /\ d \in Nat
  BY <1>1, FixedIsTrue, MetadataFacts DEF TrueMetadata
<1>3. d # UnknownCSN /\ d # PrehistoricCSN /\ c > d
  BY <1>1 DEF InvalidOrder
<1>4. PICK e \in committed : e.csn = d /\ e.tid = u
  BY <1>2, <1>3 DEF TrueRemoval
<1>5. PICK z \in Txns : e.tid = tid[z] /\ IsCommitted(z) /\ HasBegun(z)
  BY <1>4, EntryFacts
<1>6. /\ e.csn \in Nat /\ MaxReservedCSN < e.csn /\ Snapshot(z) \in Nat /\ Snapshot(z) < e.csn
      /\ \A f \in committed : f.tid = e.tid => f = e
  BY <1>4, <1>5, EntryFacts DEF Snapshot
<1>7. u # EmptyTID /\ u # PrehistoricTID
  BY <1>4, EntryFacts
<1>8. t = FileOf(p).creation_tid /\ u = FileOf(p).removal_tid
  BY <1>0, <1>1, <1>3, FixedFileIs
<1>9. file[p] # NoMetadata /\ FileOf(p) = file[p]
  BY <1>0, <1>7, <1>8, FileFacts, PrehistoricFacts
<1>10. Removes(z, p)
  BY <1>0, <1>4, <1>5, <1>8, <1>9 DEF Removals, FileLockIsNamed
<1>11. CreatedFor(z, p)
  BY <1>0, <1>10 DEF Table, RemovedIsSeen
<1>12. Maker(p, t)
  BY <1>0, <1>8, <1>9 DEF Names, MakerIsNamed
<1>13. CASE p \in Initial
  <2>1. t = PrehistoricTID
    BY <1>12, <1>13, TableAssumption DEF Maker
  <2>2. t \notin DoomedTIDs
    BY <1>0, <2>1, DoomedHasNoCSN DEF Base, TableInv
  <2>3. [csn |-> c, tid |-> t] \notin committed
    BY <2>1, EntryFacts
  <2>4. c = UnknownCSN \/ c = PrehistoricCSN
    BY <1>2, <2>2, <2>3 DEF TrueCreation, TrueRemoval
  <2> QED  BY <1>2, <1>3, <1>4, <1>6, <2>4, CSNFacts
<1>14. ASSUME NEW y \in Txns, Creates(y, p), NEW f \in committed, f.tid = tid[y], f.csn <= d
       PROVE  FALSE
  <2>1. p \in Writes[y] /\ p \notin Initial /\ \A x \in Txns : p \in Writes[x] => x = y
    BY <1>0, <1>14, CreatorFacts
  <2>2. t = tid[y]
    BY <1>12, <2>1 DEF Maker
  <2>3. t \notin DoomedTIDs
    BY <1>0, <1>14, <2>2, DoomedHasNoCSN DEF Base, TableInv
  <2>4. t # PrehistoricTID
    BY <1>14, <2>2, EntryFacts
  <2>5. c = UnknownCSN \/ [csn |-> c, tid |-> t] \in committed
    BY <1>2, <2>3, <2>4 DEF TrueCreation, TrueRemoval
  <2>6. c = UnknownCSN \/ c = f.csn
    <3>1. ASSUME [csn |-> c, tid |-> t] \in committed PROVE c = f.csn
      <4>1. [csn |-> c, tid |-> t] = f
        BY <1>14, <2>2, <3>1, EntryFacts
      <4> QED  BY <4>1
    <3> QED  BY <2>5, <3>1
  <2>7. f.csn \in Nat
    BY <1>14, EntryFacts
  <2> QED  BY <1>2, <1>3, <1>4, <1>6, <1>14, <2>6, <2>7, CSNFacts
<1>15. CASE Creates(z, p)
  BY <1>4, <1>5, <1>6, <1>14, <1>15
<1>16. ASSUME NEW y \in Txns, Creates(y, p), CommittedBy(y, Snapshot(z)) PROVE FALSE
  <2>1. PICK f \in committed : f.tid = tid[y] /\ f.csn <= Snapshot(z)
    BY <1>16 DEF CommittedBy
  <2>2. f.csn \in Nat
    BY EntryFacts
  <2>3. f.csn <= d
    BY <1>4, <1>6, <2>1, <2>2
  <2> QED  BY <1>14, <1>16, <2>1, <2>3
<1> QED  BY <1>11, <1>13, <1>15, <1>16 DEF CreatedFor

(* A transaction begins before it is committed. *)
LEMMA StartsAreValid ==
  ASSUME Sound, FileStamps, NEW p \in Parts, Unloaded(p), WasInvolvedInTransaction(FileOf(p))
  PROVE  /\ ~(FixedFileOf(p).creation_tid.start_csn > FixedFileOf(p).creation_csn)
         /\ ~(FixedFileOf(p).removal_tid.start_csn > FixedFileOf(p).removal_csn)
<1>0. Base /\ p \in on_disk /\ p \notin loaded /\ alive
  BY DEF Sound, Unloaded
<1>1. PICK w : w = FixedFileOf(p)
  OBVIOUS
<1>2. TrueCreation(w.creation_tid, w.creation_csn) /\ TrueRemoval(w.removal_tid, w.removal_csn)
  BY <1>1, FixedIsTrue DEF TrueMetadata
<1>3. w.creation_csn # UnknownCSN /\ (w.removal_csn = UnknownCSN => w.removal_tid = EmptyTID)
  BY <1>0, <1>1, FixedFileIs
<1>4. ASSUME NEW t, NEW c, TrueRemoval(t, c), c # UnknownCSN PROVE ~(t.start_csn > c)
  <2>1. CASE c = PrehistoricCSN /\ t = PrehistoricTID
    <3>1. t.start_csn = PrehistoricCSN
      BY <2>1 DEF PrehistoricTID, TransactionID
    <3> QED  BY <2>1, <3>1, CSNFacts
  <2>2. ASSUME [csn |-> c, tid |-> t] \in committed PROVE ~(t.start_csn > c)
    <3>1. PICK e \in committed : e.csn = c /\ e.tid = t
      BY <2>2
    <3>2. e.csn \in Nat /\ e.tid.start_csn \in Nat /\ e.tid.start_csn < e.csn
      BY EntryFacts
    <3> QED  BY <3>1, <3>2
  <2> QED  BY <1>4, <2>1, <2>2 DEF TrueRemoval
<1>5. ASSUME NEW t \in DoomedTIDs PROVE ~(t.start_csn > RolledBackCSN)
  <2>1. CASE t = EmptyTID
    BY <2>1, TIDFacts, CSNFacts
  <2>2. ASSUME t # EmptyTID PROVE ~(t.start_csn > RolledBackCSN)
    <3>1. PICK x \in Txns : t = tid[x]
      BY <1>5, <2>2 DEF DoomedTIDs
    <3>2. Snapshot(x) < next_csn /\ next_csn <= MaxCSN + 1 /\ next_csn \in Nat
      BY <1>0, <2>2, <3>1 DEF Base, IInv, TIDsAreOld, TxnInv, CommitNumbers, LogTypeOK
    <3>3. t.start_csn = Snapshot(x) /\ Snapshot(x) \in Nat
      BY <1>0, <3>1, Types, TIDFacts DEF Snapshot
    <3> QED  BY <3>2, <3>3, CSNFacts
  <2> QED  BY <2>1, <2>2
<1>6. ~(w.creation_tid.start_csn > w.creation_csn)
  BY <1>2, <1>3, <1>4, <1>5 DEF TrueCreation
<1>7. ~(w.removal_tid.start_csn > w.removal_csn)
  <2>1. CASE w.removal_csn = UnknownCSN
    <3>1. w.removal_tid.start_csn = 0
      BY <1>3, <2>1, TIDFacts
    <3> QED  BY <2>1, <3>1, CSNFacts
  <2> QED  BY <1>2, <1>4, <2>1
<1> QED  BY <1>1, <1>6, <1>7

LEMMA LoadingSucceeds ==
  ASSUME Sound, FileStamps, NEW p \in Parts, Unloaded(p)
  PROVE  ~LoadThrows(FileOf(p)) /\ ~(LoadsOutdated(p) /\ PrepareThrows(FixedFileOf(p)))
<1>1. ASSUME LoadThrows(FileOf(p)) PROVE FALSE
  <2>1. WasInvolvedInTransaction(FileOf(p))
    BY <1>1 DEF LoadThrows
  <2>2. FixedFileOf(p) = Fixed(FileOf(p))
    BY <2>1 DEF FixedFileOf
  <2> QED  BY <1>1, <2>1, <2>2, UnloadedIsFound, OrderIsValid, StartsAreValid DEF LoadThrows
<1> QED  BY <1>1, CoveredIsPrepared

(* The server starts again: when it loads all parts before it is started   *)
(* and no KILL meets a query that is writing a part, loadDataPart() finds  *)
(* the CSNs that files lack, none of its sanity checks fails and           *)
(* preparePartForRemoval() does not throw, wherever the server died.       *)
THEOREM PartsAreLoaded ==
  ASSUME ~LateOutdated
  PROVE  Spec /\ []~KilledWhileWriting => []PartsCanBeLoaded
<1>1. Init => FileStamps /\ PartsCanBeLoaded
  BY InitFileStamps DEF Init, PartsCanBeLoaded
<1>2. Sound /\ Sound' /\ FileStamps /\ ~KilledWhileWriting /\ [Next]_vars => FileStamps'
  BY NextFileStamps, SameFileStamps DEF Stepping, Sound
<1>3. Sound /\ Sound' /\ FileStamps /\ PartsCanBeLoaded /\ [Next]_vars => PartsCanBeLoaded'
  <2> SUFFICES ASSUME Sound, Sound', FileStamps, ~broken, [Next]_vars PROVE ~broken'
    BY DEF PartsCanBeLoaded
  <2>1. CASE UNCHANGED vars
    BY <2>1 DEF vars, partVars
  <2>2. ASSUME NEW p \in Parts, LoadPart(p) PROVE ~broken'
    <3>1. Stepping \/ UNCHANGED vars
      BY DEF Stepping, Sound
    <3>2. ASSUME Stepping PROVE ~broken'
      <4>1. Unloaded(p)
        BY <2>2, <3>2, LoadPartDoes DEF Unloaded
      <4> QED  BY <2>2, <3>2, <4>1, LoadPartDoes, LoadingSucceeds
    <3> QED  BY <2>1, <3>1, <3>2
  <2>3. ASSUME ~ \E p \in Parts : LoadPart(p), Next PROVE ~broken'
    BY <2>3, BrokenChanges
  <2> QED  BY <2>1, <2>2, <2>3
<1> QED  BY <1>1, <1>2, <1>3, SoundHolds, PTL DEF Spec

-----------------------------------------------------------------------------
(***************************************************************************)
(* Isolation.  The order of the commits, for any set C of entries and any  *)
(* TIDs t: how many entries there are up to a CSN, and whose they are.     *)
(***************************************************************************)
RankIn(C, c) == Cardinality({e \in C : e.csn <= c})
OrderIn(C, t) ==
  [i \in 1 .. Cardinality(C) |-> CHOOSE x \in Txns : \E e \in C : e.tid = t[x] /\ RankIn(C, e.csn) = i]
Listing(C, t) ==
  /\ IsFiniteSet(C) /\ \A e \in C : e.csn \in Nat
  /\ \A e, f \in C : e.csn = f.csn \/ e.tid = f.tid => e = f
  /\ \A e \in C : \E x \in Txns : t[x] = e.tid /\ \A y \in Txns : t[y] = e.tid => y = x

LEMMA RankFacts ==
  ASSUME NEW C, NEW t, Listing(C, t), NEW c \in Nat
  PROVE  /\ Cardinality(C) \in Nat /\ RankIn(C, c) \in 0 .. Cardinality(C)
         /\ \A e \in C : /\ RankIn(C, e.csn) \in 1 .. Cardinality(C)
                         /\ e.csn <= c => RankIn(C, e.csn) <= RankIn(C, c)
                         /\ c < e.csn => RankIn(C, c) < RankIn(C, e.csn)
<1> DEFINE Low(d) == {e \in C : e.csn <= d}
<1>1. IsFiniteSet(C) /\ Cardinality(C) \in Nat /\ \A e \in C : e.csn \in Nat
  BY FS_CardinalityType DEF Listing
<1>2. \A d : Low(d) \in SUBSET C /\ IsFiniteSet(Low(d)) /\ Cardinality(Low(d)) \in Nat /\ Cardinality(Low(d)) <= Cardinality(C)
  BY <1>1, FS_Subset, FS_CardinalityType
<1>3. ASSUME NEW e \in C
      PROVE  /\ Cardinality(Low(e.csn)) # 0
             /\ e.csn <= c => Cardinality(Low(e.csn)) <= Cardinality(Low(c))
             /\ c < e.csn => Cardinality(Low(c)) < Cardinality(Low(e.csn))
  <2>0. e.csn \in Nat
    BY <1>1
  <2>1. e \in Low(e.csn)
    BY <2>0
  <2>2. Cardinality(Low(e.csn)) # 0
    BY <2>1, <1>2, FS_EmptySet
  <2>3. ASSUME e.csn <= c PROVE Cardinality(Low(e.csn)) <= Cardinality(Low(c))
    <3>1. Low(e.csn) \subseteq Low(c)
      BY <2>0, <2>3, <1>1
    <3> QED  BY <3>1, <1>2, FS_Subset
  <2>4. ASSUME c < e.csn PROVE Cardinality(Low(c)) < Cardinality(Low(e.csn))
    <3>1. Low(c) \subseteq Low(e.csn) /\ e \notin Low(c)
      BY <2>0, <2>4, <1>1
    <3>2. Cardinality(Low(c)) <= Cardinality(Low(e.csn)) /\ Cardinality(Low(c)) # Cardinality(Low(e.csn))
      BY <3>1, <2>1, <1>2, FS_Subset
    <3> HIDE DEF Low
    <3> QED  BY <3>2, <1>2
  <2> QED  BY <2>2, <2>3, <2>4
<1>4. \A d : RankIn(C, d) = Cardinality(Low(d))
  BY DEF RankIn
<1> HIDE DEF Low
<1> QED  BY <1>1, <1>2, <1>3, <1>4

(* Every position is the one of an entry, and of only one. *)
LEMMA RankIsOnto ==
  ASSUME NEW C, NEW t, Listing(C, t)
  PROVE  /\ \A e, f \in C : RankIn(C, e.csn) = RankIn(C, f.csn) => e = f
         /\ \A i \in 1 .. Cardinality(C) : \E e \in C : RankIn(C, e.csn) = i
<1> DEFINE n == Cardinality(C)
           g == [e \in C |-> RankIn(C, e.csn)]
<1>1. IsFiniteSet(C) /\ n \in Nat /\ \A e \in C : e.csn \in Nat
  BY FS_CardinalityType DEF Listing
<1>2. \A e \in C : RankIn(C, e.csn) \in 1 .. n
  BY <1>1, RankFacts
<1>3. ASSUME NEW e \in C, NEW f \in C, RankIn(C, e.csn) = RankIn(C, f.csn)
      PROVE  e = f
  <2>1. e.csn \in Nat /\ f.csn \in Nat /\ RankIn(C, e.csn) \in 1 .. n
    BY <1>1, <1>2
  <2>2. ~(e.csn < f.csn)
    <3>1. e.csn < f.csn => RankIn(C, e.csn) < RankIn(C, f.csn)
      BY <2>1, RankFacts
    <3> QED  BY <3>1, <2>1, <1>3
  <2>3. ~(f.csn < e.csn)
    <3>1. f.csn < e.csn => RankIn(C, f.csn) < RankIn(C, e.csn)
      BY <2>1, RankFacts
    <3> QED  BY <3>1, <2>1, <1>3
  <2>4. e.csn = f.csn
    BY <2>1, <2>2, <2>3
  <2> QED  BY <2>4 DEF Listing
<1>4. g \in Injection(C, 1 .. n)
  BY <1>2, <1>3 DEF Injection, IsInjective
<1>5. IsFiniteSet(1 .. n) /\ Cardinality(1 .. n) = n
  BY <1>1, FS_Interval
<1>6. g \in Surjection(C, 1 .. n)
  BY <1>4, <1>5, FS_Injection
<1>7. \A i \in 1 .. n : \E e \in C : g[e] = i
  BY <1>6 DEF Surjection
<1> QED  BY <1>3, <1>7

LEMMA OrderIs ==
  ASSUME NEW C, NEW t, Listing(C, t)
  PROVE  /\ OrderIn(C, t) \in Seq(Txns) /\ Len(OrderIn(C, t)) = Cardinality(C) /\ Cardinality(C) \in Nat
         /\ DOMAIN OrderIn(C, t) = 1 .. Cardinality(C)
         /\ \A e \in C : \A x \in Txns : e.tid = t[x] => OrderIn(C, t)[RankIn(C, e.csn)] = x
         /\ \A i \in 1 .. Cardinality(C) : \E e \in C : RankIn(C, e.csn) = i /\ e.tid = t[OrderIn(C, t)[i]]
<1> DEFINE n == Cardinality(C)
<1>1. n \in Nat
  BY FS_CardinalityType DEF Listing
<1>2. ASSUME NEW i \in 1 .. n
      PROVE  \E e \in C : \E x \in Txns : RankIn(C, e.csn) = i /\ e.tid = t[x] /\ OrderIn(C, t)[i] = x
  <2>1. PICK e \in C : RankIn(C, e.csn) = i
    BY RankIsOnto
  <2>2. PICK x \in Txns : t[x] = e.tid /\ \A y \in Txns : t[y] = e.tid => y = x
    BY DEF Listing
  <2>3. \A f \in C : RankIn(C, f.csn) = i => f = e
    BY <2>1, RankIsOnto
  <2>4. \A y \in Txns : (\E f \in C : f.tid = t[y] /\ RankIn(C, f.csn) = i) <=> y = x
    BY <2>1, <2>2, <2>3
  <2>5. (CHOOSE y \in Txns : \E f \in C : f.tid = t[y] /\ RankIn(C, f.csn) = i) = x
    BY <2>4
  <2>6. OrderIn(C, t)[i] = x
    BY <2>5 DEF OrderIn
  <2> QED  BY <2>1, <2>2, <2>6
<1>3. DOMAIN OrderIn(C, t) = 1 .. n /\ \A i \in 1 .. n : OrderIn(C, t)[i] \in Txns
  BY <1>2 DEF OrderIn
<1>4. OrderIn(C, t) \in [1 .. n -> Txns]
  <2> DEFINE Entrant(i) == CHOOSE x \in Txns : \E e \in C : e.tid = t[x] /\ RankIn(C, e.csn) = i
  <2>1. OrderIn(C, t) = [i \in 1 .. n |-> Entrant(i)]
    BY DEF OrderIn
  <2> HIDE DEF Entrant
  <2> QED  BY <1>3, <2>1
<1>5. OrderIn(C, t) \in Seq(Txns) /\ Len(OrderIn(C, t)) = n
  BY <1>1, <1>4
<1>6. ASSUME NEW e \in C, NEW x \in Txns, e.tid = t[x]
      PROVE  OrderIn(C, t)[RankIn(C, e.csn)] = x
  <2>0. e.csn \in Nat
    BY DEF Listing
  <2>1. RankIn(C, e.csn) \in 1 .. n
    BY <2>0, RankFacts
  <2>2. PICK f \in C : \E y \in Txns : RankIn(C, f.csn) = RankIn(C, e.csn) /\ f.tid = t[y] /\ OrderIn(C, t)[RankIn(C, e.csn)] = y
    BY <2>1, <1>2
  <2>3. f = e
    BY <2>2, RankIsOnto
  <2> QED  BY <2>2, <2>3, <1>6 DEF Listing
<1> QED  BY <1>1, <1>2, <1>3, <1>5, <1>6

(* Whose entries there are up to a snapshot. *)
LEMMA SeenIs ==
  ASSUME NEW C, NEW t, Listing(C, t), NEW s \in Nat
  PROVE  {OrderIn(C, t)[i] : i \in 1 .. RankIn(C, s)} = {x \in Txns : \E e \in C : e.tid = t[x] /\ e.csn <= s}
<1> DEFINE n == Cardinality(C)
<1>1. n \in Nat /\ RankIn(C, s) \in 0 .. n
  BY RankFacts
<1>2. ASSUME NEW i \in 1 .. RankIn(C, s)
      PROVE  OrderIn(C, t)[i] \in {x \in Txns : \E e \in C : e.tid = t[x] /\ e.csn <= s}
  <2>1. i \in 1 .. n
    BY <1>1
  <2>2. PICK e \in C : RankIn(C, e.csn) = i /\ e.tid = t[OrderIn(C, t)[i]]
    BY <2>1, OrderIs
  <2>3. OrderIn(C, t)[i] \in Txns
    BY <2>1, OrderIs
  <2>4. e.csn \in Nat /\ (s < e.csn => RankIn(C, s) < RankIn(C, e.csn))
    BY RankFacts DEF Listing
  <2>5. ~(s < e.csn)
    BY <2>2, <2>4, <1>1
  <2>6. e.csn <= s
    BY <2>4, <2>5
  <2> QED  BY <2>2, <2>3, <2>6
<1>3. ASSUME NEW x \in Txns, NEW e \in C, e.tid = t[x], e.csn <= s
      PROVE  \E i \in 1 .. RankIn(C, s) : x = OrderIn(C, t)[i]
  <2>1. OrderIn(C, t)[RankIn(C, e.csn)] = x
    BY <1>3, OrderIs
  <2>2. RankIn(C, e.csn) \in 1 .. n /\ RankIn(C, e.csn) <= RankIn(C, s)
    BY <1>3, RankFacts
  <2>3. RankIn(C, e.csn) \in 1 .. RankIn(C, s)
    BY <2>2, <1>1
  <2> QED  BY <2>1, <2>3
<1> QED  BY <1>2, <1>3

-----------------------------------------------------------------------------
(* The order does not depend on TIDs that have no entry, *)
LEMMA OrderIsSame ==
  ASSUME NEW C, NEW t, NEW u, Listing(C, t), Listing(C, u),
         \A e \in C : \A x \in Txns : t[x] = e.tid => u[x] = e.tid
  PROVE  OrderIn(C, t) = OrderIn(C, u)
<1>1. /\ OrderIn(C, t) \in Seq(Txns) /\ OrderIn(C, u) \in Seq(Txns) /\ Cardinality(C) \in Nat
      /\ Len(OrderIn(C, t)) = Cardinality(C) /\ Len(OrderIn(C, u)) = Cardinality(C)
  BY OrderIs
<1>2. ASSUME NEW i \in 1 .. Cardinality(C)
      PROVE  OrderIn(C, t)[i] = OrderIn(C, u)[i]
  <2>1. PICK e \in C : RankIn(C, e.csn) = i /\ e.tid = t[OrderIn(C, t)[i]]
    BY OrderIs
  <2>2. OrderIn(C, t)[i] \in Txns
    BY <1>1
  <2>3. u[OrderIn(C, t)[i]] = e.tid
    BY <2>1, <2>2
  <2> QED  BY <2>1, <2>2, <2>3, OrderIs
<1> QED  BY <1>1, <1>2

(* and an entry newer than all others comes last. *)
AddsNewest(C, D, e) == D = C \cup {e} /\ \A f \in C : f.csn < e.csn
SameRanks(C, D, c) == \A d \in Nat : d < c => RankIn(D, d) = RankIn(C, d)
LEMMA OrderGrows ==
  ASSUME NEW C, NEW D, NEW t, NEW e, Listing(C, t), Listing(D, t), AddsNewest(C, D, e), NEW x \in Txns, e.tid = t[x]
  PROVE  OrderIn(D, t) = Append(OrderIn(C, t), x) /\ SameRanks(C, D, e.csn)
<1> USE DEF AddsNewest
<1> DEFINE n == Cardinality(C)
<1>0. e \in D /\ e.csn \in Nat /\ \A f \in C : f.csn \in Nat
  BY DEF Listing
<1>1. e \notin C
  BY <1>0
<1>2. n \in Nat /\ Cardinality(D) = n + 1
  BY <1>1, FS_CardinalityType, FS_AddElement DEF Listing
<1>3. ASSUME NEW c \in Nat, c < e.csn PROVE RankIn(D, c) = RankIn(C, c)
  <2>1. {f \in D : f.csn <= c} = {f \in C : f.csn <= c}
    BY <1>3, <1>0
  <2> QED  BY <2>1 DEF RankIn
<1>4. RankIn(D, e.csn) = n + 1
  <2>1. {f \in D : f.csn <= e.csn} = D
    BY <1>0
  <2> QED  BY <2>1, <1>2 DEF RankIn
<1>5. /\ OrderIn(C, t) \in Seq(Txns) /\ OrderIn(D, t) \in Seq(Txns)
      /\ Len(OrderIn(C, t)) = n /\ Len(OrderIn(D, t)) = n + 1
  BY <1>2, OrderIs
<1>6. ASSUME NEW i \in 1 .. n
      PROVE  OrderIn(D, t)[i] = OrderIn(C, t)[i]
  <2>1. PICK f \in C : RankIn(C, f.csn) = i /\ f.tid = t[OrderIn(C, t)[i]]
    BY OrderIs
  <2>2. OrderIn(C, t)[i] \in Txns
    BY <1>5
  <2>3. f \in D /\ RankIn(D, f.csn) = i
    BY <2>1, <1>3, <1>0
  <2>4. OrderIn(D, t)[RankIn(D, f.csn)] = OrderIn(C, t)[i]
    BY <2>1, <2>2, <2>3, OrderIs
  <2> QED  BY <2>3, <2>4
<1>7. OrderIn(D, t)[n + 1] = x
  <2>1. OrderIn(D, t)[RankIn(D, e.csn)] = x
    BY <1>0, OrderIs
  <2> QED  BY <2>1, <1>4
<1>8. OrderIn(D, t) = Append(OrderIn(C, t), x)
  <2> HIDE DEF n
  <2> DEFINE s == OrderIn(C, t)
             u == OrderIn(D, t)
  <2>0. s \in Seq(Txns) /\ u \in Seq(Txns) /\ Len(s) = n /\ Len(u) = n + 1 /\ n \in Nat
        /\ u[n + 1] = x /\ \A i \in 1 .. n : u[i] = s[i]
    BY <1>2, <1>5, <1>6, <1>7
  <2> HIDE DEF s, u
  <2>1. Append(s, x) \in Seq(Txns) /\ Len(Append(s, x)) = n + 1
    BY <2>0
  <2>2. ASSUME NEW i \in 1 .. n + 1 PROVE u[i] = Append(s, x)[i]
    BY <2>0
  <2>3. u = Append(s, x)
    BY <2>0, <2>1, <2>2
  <2> QED  BY <2>3 DEF s, u
<1> QED  BY <1>3, <1>8 DEF SameRanks

-----------------------------------------------------------------------------
(* The log of a table is such a listing. *)
EntriesAreNumbered == IsFiniteSet(committed) /\ \A e, f \in committed : e.csn = f.csn => e = f
LEMMA NextEntriesAreNumbered ==
  ASSUME IInv, EntriesAreNumbered, [LogNext]_logVars
  PROVE  EntriesAreNumbered'
<1>1. \/ committed' = committed
      \/ \E x \in Txns : committed' = committed \cup {[csn |-> next_csn, tid |-> tid[x]]}
  BY CommittedChanges
<1>2. CASE committed' = committed
  BY <1>2 DEF EntriesAreNumbered
<1>3. ASSUME NEW x \in Txns, committed' = committed \cup {[csn |-> next_csn, tid |-> tid[x]]}
      PROVE  EntriesAreNumbered'
  <2> DEFINE n == [csn |-> next_csn, tid |-> tid[x]]
  <2>1. n.csn = next_csn /\ \A e \in committed : e.csn # n.csn
    BY DEF IInv, KeeperNumbers, LogTypeOK, Entries
  <2> HIDE DEF n
  <2>2. committed' = committed \cup {n}
    BY <1>3 DEF n
  <2>3. IsFiniteSet(committed')
    BY <2>2, FS_AddElement DEF EntriesAreNumbered
  <2> QED  BY <2>1, <2>2, <2>3 DEF EntriesAreNumbered
<1> QED  BY <1>1, <1>2, <1>3

LEMMA CommittedIsListing ==
  ASSUME Base, Commits, EntriesAreNumbered
  PROVE  Listing(committed, tid)
<1>1. \A e \in committed : e.csn \in Nat
  BY DEF Base, IInv, LogTypeOK, Entries
<1>2. ASSUME NEW e \in committed
      PROVE  \E x \in Txns : tid[x] = e.tid /\ \A y \in Txns : tid[y] = e.tid => y = x
  <2>1. PICK x \in Txns : e.tid = tid[x] /\ tid[x] # EmptyTID
    BY DEF Base, IInv, CommitsHaveTxns
  <2>2. HasBegun(x)
    BY <2>1 DEF Base, TxnInv, RunningIsUnfinished, HasBegun
  <2> QED  BY <2>1, <2>2, BegunFacts
<1> QED  BY <1>1, <1>2 DEF Listing, EntriesAreNumbered, Commits, CommitsAreOnce

LEMMA OrderIsListed ==
  /\ CommitOrder = OrderIn(committed, tid)
  /\ \A c : EntriesUpTo(c) = RankIn(committed, c)
BY DEF CommitOrder, OrderIn, EntriesUpTo, RankIn

-----------------------------------------------------------------------------
(***************************************************************************)
(* What the isolation needs to know of the end of a transaction: a new     *)
(* part is not yet among the changes, only a transaction with changes asks *)
(* for a CSN, and a snapshot is released only when the outcome is decided. *)
(***************************************************************************)
NewIsNotCreated(x) == client[x] = "written" => ~Creates(x, new_part[x])
Asks(x) == client[x] \in {"commit", "lost"} \/ finish[x] = "unknown"
AskingHasChanges(x) == Asks(x) => ~IsReadOnly(x)
ReleasedIsDecided(x) ==
  finish[x] = "release" =>
    csn[x] = RolledBackCSN \/ (csn[x] # UnknownCSN /\ (IsReadOnly(x) \/ IsCommitted(x)))

LEMMA NextNewIsNotCreated ==
  ASSUME Stepping, NEW x \in Txns, NewIsNotCreated(x)
  PROVE  NewIsNotCreated(x)'
<1> SUFFICES ASSUME client'[x] = "written" PROVE ~Creates(x, new_part[x])'
  BY DEF NewIsNotCreated
<1>0. Base
  BY DEF Stepping
<1>1. CASE SameQuery(x)
  <2>1. ~AddNewPart(x)
    BY AddNewPartDoes
  <2>2. client[x] = "written" /\ new_part'[x] = new_part[x] /\ creating'[x] = creating[x]
    BY <1>1, <2>1, ChangesGrow DEF SameQuery
  <2> QED  BY <2>2 DEF NewIsNotCreated, Creates
<1>2. ASSUME NEW p \in Parts, WritePart(x, p) PROVE ~Creates(x, new_part[x])'
  <2>1. new_part'[x] = p /\ SameChanges(x) /\ p \notin on_disk /\ csn[x] = UnknownCSN /\ client[x] = "ready"
    BY <1>2, WritePartDoes
  <2>2. HasBegun(x)
    BY <2>1 DEF HasBegun
  <2>3. Running(x)
    BY <1>0, <2>1, <2>2, UndecidedFacts
  <2>4. file[p] = NoMetadata
    BY <1>0, <2>1 DEF Base, TableInv, PartInv, PartsArePresent
  <2>5. file[p].creation_tid = EmptyTID
    BY <2>4 DEF NoMetadata, MetadataOf
  <2>6. tid[x] # EmptyTID
    BY <1>0, <2>2, BegunFacts
  <2>7. ~Creates(x, p)
    BY <1>0, <2>3, <2>5, <2>6 DEF Base, TableInv, PartInv, CreatedIsNamed, CreatedBy, Creates
  <2> QED  BY <2>1, <2>7 DEF Creates, SameChanges
<1>3. ~CrashServer /\ ~AddNewPart(x) /\ ~Truncate(x) /\ ~UndoPart(x) /\ ~NoQuery(x)
  BY CrashDoes, AddNewPartDoes, TruncateDoes, UndoPartDoes DEF NoQuery, AtQueries
<1>4. ~LockedStep(x)
  BY RemoveOldPartDoes, AppendRemovalDoes, SkipRolledBackDoes, TruncateEndsDoes, ActivatePartDoes DEF LockedStep
<1> QED  BY <1>1, <1>2, <1>3, <1>4, QueryChanges

LEMMA ReadOnlyChanges ==
  ASSUME Stepping, NEW x \in Txns
  PROVE  /\ ~IsReadOnly(x) => ~IsReadOnly(x)'
         /\ IsReadOnly(x) /\ csn[x] # UnknownCSN => IsReadOnly(x)'
<1>0. creating[x] \in Seq(Parts) /\ removing[x] \in Seq(Parts)
  BY Types DEF Stepping
<1>1. ASSUME NEW s \in Seq(Parts), NEW e PROVE Append(s, e) # <<>>
  <2>1. Len(Append(s, e)) = Len(s) + 1 /\ Len(s) \in Nat /\ Len(<<>>) = 0
    OBVIOUS
  <2> QED  BY <2>1
<1>2. ~IsReadOnly(x) => ~IsReadOnly(x)'
  BY <1>0, <1>1, ChangesGrow DEF IsReadOnly
<1>3. ASSUME csn[x] # UnknownCSN PROVE creating'[x] = creating[x] /\ removing'[x] = removing[x]
  <2>1. creating'[x] = creating[x]
    BY <1>3, ChangesGrow, AddNewPartDoes
  <2>2. removing'[x] = removing[x]
    BY <1>3, ChangesGrow, RemoveOldPartDoes
  <2> QED  BY <2>1, <2>2
<1> QED  BY <1>2, <1>3 DEF IsReadOnly

LEMMA NextAskingHasChanges ==
  ASSUME Stepping, NEW x \in Txns, AskingHasChanges(x)
  PROVE  AskingHasChanges(x)'
<1> SUFFICES ASSUME Asks(x)' PROVE ~IsReadOnly(x)'
  BY DEF AskingHasChanges
<1>1. ASSUME Asks(x) PROVE ~IsReadOnly(x)'
  BY <1>1, ReadOnlyChanges DEF AskingHasChanges
<1>2. CASE Deciding(x)
  <2>1. (~Begin(x) /\ ~Release(x) /\ ~AfterCommit(x)) \/ Asks(x)
    BY BeginDoes, ReleaseDoes, AfterCommitDoes DEF Asks, SameEnd, None
  <2>2. CASE ClientRollsBack(x) \/ Kill(x) \/ RollBackUnknownState(x)
    BY <2>2, <1>1, RollbackStarts DEF Asks, SameEnd
  <2>3. CASE BeforeCommit(x)
    BY <2>3, <1>1, BeforeCommitDoes, ReadOnlyChanges DEF Asks, SameEnd, Goes
  <2>4. CASE Commit(x) \/ CommitLost(x) \/ Postpone(x) \/ CommitRefused(x) \/ DecideUnknownState(x)
    BY <2>4, <1>1, CommitDoes, PostponeDoes, CommitRefusedDoes, DecideDoes DEF Asks
  <2> QED  BY <1>1, <1>2, <2>1, <2>2, <2>3, <2>4 DEF Deciding
<1>3. ASSUME ~Deciding(x) PROVE Asks(x)
  <2>1. ~CrashServer
    BY CrashDoes DEF Asks, None
  <2>2. ASSUME client'[x] \in {"commit", "lost"} PROVE client[x] \in {"commit", "lost"}
    <3>1. SameQuery(x)
      <4>1. ~AddNewPart(x) /\ ~Truncate(x) /\ ~UndoPart(x) /\ ~ \E p \in Parts : WritePart(x, p)
        BY <2>2, AddNewPartDoes, TruncateDoes, UndoPartDoes, WritePartDoes
      <4>2. ~LockedStep(x)
        BY <2>2, RemoveOldPartDoes, AppendRemovalDoes, SkipRolledBackDoes, TruncateEndsDoes, ActivatePartDoes DEF LockedStep
      <4> QED  BY <1>3, <2>1, <4>1, <4>2, QueryChanges DEF NoQuery
    <3> QED  BY <2>2, <3>1 DEF SameQuery
  <2>3. ASSUME finish'[x] = "unknown" PROVE finish[x] = "unknown"
    <3>1. ~Treating(x)
      BY <2>3, StampCreatedDoes, StampRemovedDoes, MarkRolledBackDoes, OutdateCreatedDoes, RestoreRemovedDoes,
         ClearRemovedDoes, UnlockRemovedDoes DEF Treating, NextPhaseIs, NextPartIs
    <3> QED  BY <1>3, <2>1, <2>3, <3>1, EndChanges DEF SameEnd
  <2> QED  BY <2>2, <2>3 DEF Asks
<1> QED  BY <1>1, <1>2, <1>3

LEMMA NextReleasedIsDecided ==
  ASSUME Stepping, NEW x \in Txns, ReleasedIsDecided(x)
  PROVE  ReleasedIsDecided(x)'
<1> SUFFICES ASSUME finish'[x] = "release"
             PROVE  csn'[x] = RolledBackCSN \/ (csn'[x] # UnknownCSN /\ (IsReadOnly(x)' \/ IsCommitted(x)'))
  BY DEF ReleasedIsDecided
<1>0. Outcome(x) /\ UnknownCSN # RolledBackCSN
  BY CSNFacts DEF Stepping, Base, TxnInv
<1>1. ASSUME csn'[x] = csn[x], csn[x] = RolledBackCSN \/ (csn[x] # UnknownCSN /\ (IsReadOnly(x) \/ IsCommitted(x)))
      PROVE  csn'[x] = RolledBackCSN \/ (csn'[x] # UnknownCSN /\ (IsReadOnly(x)' \/ IsCommitted(x)'))
  BY <1>1, ReadOnlyChanges, LifeGoesOn
<1>2. CASE SameEnd(x)
  BY <1>1, <1>2 DEF SameEnd, ReleasedIsDecided
<1>3. ~CrashServer
  BY CrashDoes DEF None
<1>4. ASSUME Treating(x)
      PROVE  csn'[x] = RolledBackCSN \/ (csn'[x] # UnknownCSN /\ (IsReadOnly(x)' \/ IsCommitted(x)'))
  <2>1. csn'[x] = csn[x] /\ csn[x] # UnknownCSN /\ finish[x] # "release"
    BY <1>4, TreatingKeeps DEF Phases
  <2>2. finish[x] = "stamp_removed" \/ csn[x] = RolledBackCSN
    BY <1>4, StampCreatedDoes, StampRemovedDoes, MarkRolledBackDoes, OutdateCreatedDoes, RestoreRemovedDoes,
       ClearRemovedDoes, UnlockRemovedDoes DEF Treating, NextPhaseIs, NextPartIs
  <2>3. ASSUME finish[x] = "stamp_removed" PROVE IsReadOnly(x) \/ IsCommitted(x)
    BY <1>0, <2>3 DEF Outcome, IsCommitted
  <2> QED  BY <1>1, <2>1, <2>2, <2>3
<1>5. ASSUME Deciding(x) PROVE SameEnd(x)
  <2>1. ~Begin(x) /\ ~Release(x) /\ ~AfterCommit(x) /\ ~DecideUnknownState(x)
    BY BeginDoes, ReleaseDoes, AfterCommitDoes, DecideDoes DEF SameEnd, None
  <2>2. CASE ClientRollsBack(x) \/ Kill(x) \/ RollBackUnknownState(x)
    BY <2>2, RollbackStarts
  <2>3. CASE BeforeCommit(x)
    BY <2>3, BeforeCommitDoes DEF Goes, None
  <2>4. ~(Commit(x) \/ CommitLost(x) \/ Postpone(x) \/ CommitRefused(x))
    BY CommitDoes, PostponeDoes, CommitRefusedDoes DEF Goes, None
  <2> QED  BY <1>5, <2>1, <2>2, <2>3, <2>4 DEF Deciding
<1> QED  BY <1>2, <1>3, <1>4, <1>5, EndChanges

-----------------------------------------------------------------------------
Ending ==
  /\ EntriesAreNumbered
  /\ \A x \in Txns : NewIsNotCreated(x) /\ AskingHasChanges(x) /\ ReleasedIsDecided(x)

LEMMA SameEnding ==
  ASSUME UNCHANGED vars, Ending
  PROVE  Ending'
<1>1. UNCHANGED <<committed, tid, client, new_part, creating, removing, csn, finish>>
  BY DEF vars, logVars, txnVars, writeVars, changes, ending
<1>2. \A x \in Txns : /\ (IsReadOnly(x)' <=> IsReadOnly(x)) /\ (IsCommitted(x)' <=> IsCommitted(x))
                      /\ (Creates(x, new_part[x])' <=> Creates(x, new_part[x]))
  BY <1>1 DEF IsReadOnly, IsCommitted, Creates
<1> QED  BY <1>1, <1>2 DEF Ending, EntriesAreNumbered, NewIsNotCreated, AskingHasChanges, ReleasedIsDecided, Asks

LEMMA EndingHolds == Spec => [](Sound /\ Reading /\ Ending)
<1>1. Init => Ending
  <2> SUFFICES ASSUME Init PROVE Ending
    OBVIOUS
  <2>1. committed = {} /\ client = [x \in Txns |-> "idle"] /\ finish = [x \in Txns |-> None]
    BY DEF Init, LogInit
  <2>2. EntriesAreNumbered
    BY <2>1, FS_EmptySet DEF EntriesAreNumbered
  <2> QED  BY <2>1, <2>2 DEF Ending, NewIsNotCreated, AskingHasChanges, ReleasedIsDecided, Asks, None
<1>2. Sound /\ Sound' /\ Ending /\ [Next]_vars => Ending'
  <2> SUFFICES ASSUME Sound, Sound', Ending, [Next]_vars PROVE Ending'
    OBVIOUS
  <2>1. CASE Next
    <3>1. Stepping
      BY <2>1 DEF Sound, Stepping
    <3>2. EntriesAreNumbered'
      BY <2>1, NextLogStep, NextEntriesAreNumbered DEF Sound, Base, Ending
    <3>3. \A x \in Txns : NewIsNotCreated(x)' /\ AskingHasChanges(x)' /\ ReleasedIsDecided(x)'
      BY <3>1, NextNewIsNotCreated, NextAskingHasChanges, NextReleasedIsDecided DEF Ending
    <3> QED  BY <3>2, <3>3 DEF Ending
  <2>2. CASE UNCHANGED vars
    BY <2>2, SameEnding
  <2> QED  BY <2>1, <2>2
<1> QED  BY <1>1, <1>2, ReadingHolds, PTL DEF Spec

-----------------------------------------------------------------------------
(* The mapping, one transaction at a time. *)
SameStatus(y) == StatusOf(y)' = StatusOf(y)
SameOrder == CommitOrder' = CommitOrder /\ SnapshotLengths' = SnapshotLengths
Mapped == Isolation!IsolationNext \/ UNCHANGED Isolation!isolationVars

LEMMA OrderIsListedNext ==
  /\ CommitOrder' = OrderIn(committed', tid')
  /\ \A c : EntriesUpTo(c)' = RankIn(committed', c)
BY DEF CommitOrder, OrderIn, EntriesUpTo, RankIn

LEMMA SnapshotLengthsAre ==
  /\ SnapshotLengths = [x \in Txns |-> RankIn(committed, tid[x].start_csn)]
  /\ SnapshotLengths' = [x \in Txns |-> RankIn(committed', tid'[x].start_csn)]
BY DEF SnapshotLengths, EntriesUpTo, RankIn, Snapshot

LEMMA SameLogSameOrder ==
  ASSUME committed' = committed, tid' = tid
  PROVE  SameOrder
<1>1. CommitOrder = OrderIn(committed, tid) /\ CommitOrder' = OrderIn(committed', tid')
  BY OrderIsListed, OrderIsListedNext
<1>2. CommitOrder' = CommitOrder
  BY <1>1
<1>3. SnapshotLengths' = SnapshotLengths
  BY SnapshotLengthsAre
<1> QED  BY <1>2, <1>3 DEF SameOrder

LEMMA StatusIsSame ==
  ASSUME NEW y \in Txns, csn'[y] = csn[y], finish'[y] = "done" <=> finish[y] = "done", SameChanges(y), SameLife(y)
  PROVE  SameStatus(y)
BY DEF SameStatus, StatusOf, SameChanges, SameLife, IsReadOnly

LEMMA StatusIs ==
  ASSUME Base, NEW x \in Txns
  PROVE  /\ StatusOf(x) = "idle" <=> ~HasBegun(x)
         /\ HasBegun(x) => \/ StatusOf(x) = "committed" /\ (IsCommitted(x) \/ (IsReadOnly(x) /\ csn[x] \notin {UnknownCSN, RolledBackCSN}))
                           \/ StatusOf(x) = "aborted" /\ ~IsCommitted(x) /\ (csn[x] = RolledBackCSN \/ finish[x] = "done")
                           \/ /\ StatusOf(x) = "running" /\ ~IsCommitted(x) /\ csn[x] # RolledBackCSN /\ finish[x] # "done"
                              /\ IsReadOnly(x) => csn[x] = UnknownCSN
<1>1. tid[x] = EmptyTID <=> ~HasBegun(x)
  BY DEF Base, TxnInv, RunningIsUnfinished, HasBegun
<1> QED  BY <1>1 DEF StatusOf

LEMMA StatusesMove ==
  ASSUME NEW x \in Txns, \A y \in Txns : y # x => SameStatus(y)
  PROVE  /\ Statuses' = [Statuses EXCEPT ![x] = StatusOf(x)']
         /\ SameStatus(x) => Statuses' = Statuses
         /\ Statuses[x] = StatusOf(x)
BY DEF Statuses, SameStatus

LEMMA ChangesMove ==
  ASSUME NEW x \in Txns, \A y \in Txns : y # x => SameChanges(y)
  PROVE  /\ creating'[x] = creating[x] => CreatedParts' = CreatedParts
         /\ removing'[x] = removing[x] => RemovedParts' = RemovedParts
         /\ \A p : Range(creating'[x]) = Range(creating[x]) \cup {p}
                     => CreatedParts' = [CreatedParts EXCEPT ![x] = @ \cup {p}]
         /\ \A p : Range(removing'[x]) = Range(removing[x]) \cup {p}
                     => RemovedParts' = [RemovedParts EXCEPT ![x] = @ \cup {p}]
BY DEF CreatedParts, RemovedParts, SameChanges

LEMMA AnswersMove ==
  ASSUME NEW x \in Txns, \A y \in Txns : y # x => SameRead(y)
  PROVE  /\ SameRead(x) \/ (read[x].pc # "done" /\ read'[x].pc # "done") => AnswersGiven' = AnswersGiven
         /\ read'[x].pc = "done" =>
              AnswersGiven' = [AnswersGiven EXCEPT ![x] = [part |-> read'[x].part, visible |-> read'[x].result]]
         /\ read'[x].pc # "done" => AnswersGiven' = [AnswersGiven EXCEPT ![x] = [part |-> "none", visible |-> FALSE]]
BY DEF AnswersGiven, SameRead, None

LEMMA Stutters ==
  ASSUME committed' = committed, tid' = tid, \A y \in Txns : SameStatus(y) /\ SameChanges(y) /\ SameRead(y)
  PROVE  Mapped
<1>1. SameOrder
  BY SameLogSameOrder
<1>2. Statuses' = Statuses
  BY DEF Statuses, SameStatus
<1>3. CreatedParts' = CreatedParts /\ RemovedParts' = RemovedParts
  BY DEF CreatedParts, RemovedParts, SameChanges
<1>4. AnswersGiven' = AnswersGiven
  BY DEF AnswersGiven, SameRead
<1> QED  BY <1>1, <1>2, <1>3, <1>4 DEF Mapped, SameOrder, Isolation!isolationVars

(* What x sees is the view of the snapshot that it has taken. *)
LEMMA ViewIs ==
  ASSUME Sound, Ending, NEW x \in Txns, NEW p \in Parts
  PROVE  p \in Isolation!View(x) <=> InSnapshot(x, p)
<1>0. Listing(committed, tid) /\ Snapshot(x) \in Nat
  BY CommittedIsListing, Types DEF Sound, Ending, Snapshot, TIDs
<1>1. {CommitOrder[i] : i \in 1 .. SnapshotLengths[x]} = {y \in Txns : CommittedBy(y, Snapshot(x))}
  <2>1. SnapshotLengths[x] = RankIn(committed, Snapshot(x))
    BY SnapshotLengthsAre DEF Snapshot
  <2>2. {OrderIn(committed, tid)[i] : i \in 1 .. RankIn(committed, Snapshot(x))}
          = {y \in Txns : \E e \in committed : e.tid = tid[y] /\ e.csn <= Snapshot(x)}
    BY <1>0, SeenIs
  <2> QED  BY <2>1, <2>2, OrderIsListed DEF CommittedBy
<1>2. Isolation!Seen(x) = {y \in Txns : CommittedBy(y, Snapshot(x))} \cup {x}
  BY <1>1 DEF Isolation!Seen
<1>3. \A y \in Txns : /\ p \in CreatedParts[y] <=> Creates(y, p)
                      /\ p \in RemovedParts[y] <=> Removes(y, p)
  BY DEF CreatedParts, RemovedParts, Creates, Removes
<1>4. p \in Isolation!View(x) <=>
        /\ p \in Initial \/ \E y \in Isolation!Seen(x) : p \in CreatedParts[y]
        /\ ~ \E y \in Isolation!Seen(x) : p \in RemovedParts[y]
  BY DEF Isolation!View
<1>5. p \in Isolation!View(x) <=>
        /\ p \in Initial \/ Creates(x, p) \/ \E y \in Txns : Creates(y, p) /\ CommittedBy(y, Snapshot(x))
        /\ ~Removes(x, p) /\ ~ \E y \in Txns : Removes(y, p) /\ CommittedBy(y, Snapshot(x))
  BY <1>2, <1>3, <1>4
<1> QED  BY <1>5 DEF InSnapshot

-----------------------------------------------------------------------------
(* The answer to a reader is a read of its view. *)
LEMMA SelectIsMapped ==
  ASSUME Stepping, Sound, Ending, Reading, Reading', NEW x \in Txns, SelectStep(x) \/ \E p \in Parts : Select(x, p)
  PROVE  Mapped
<1>0. /\ \A y \in Txns : Same(y)
      /\ UNCHANGED logVars /\ Base /\ Base'
  BY SelectDoes DEF Stepping
<1>1. SameOrder
  BY <1>0, LogIsSame, SameLogSameOrder
<1>2. Statuses' = Statuses
  BY <1>0, StatusIsSame, StatusesMove DEF Same, SameEnd
<1>3. CreatedParts' = CreatedParts /\ RemovedParts' = RemovedParts
  BY <1>0, ChangesMove DEF Same, SameChanges
<1>4. \A y \in Txns : y # x => SameRead(y)
  <2>1. read \in [Txns -> Reads]
    BY <1>0, Types
  <2>2. CASE SelectStep(x)
    BY <2>1, <2>2, ReadStepDoes DEF SelectStep
  <2>3. ASSUME NEW p \in Parts, Select(x, p) PROVE \A y \in Txns : y # x => SameRead(y)
    BY <2>1, <2>3 DEF Select, ReadBegins, SameRead
  <2> QED  BY <2>2, <2>3
<1>5. ASSUME AnswersGiven' = AnswersGiven PROVE Mapped
  BY <1>1, <1>2, <1>3, <1>5 DEF Mapped, SameOrder, Isolation!isolationVars
<1>6. CASE read[x].pc # "done" /\ read'[x].pc # "done"
  BY <1>4, <1>5, <1>6, AnswersMove
<1>7. CASE read'[x].pc # "done"
  <2>1. AnswersGiven' = [AnswersGiven EXCEPT ![x] = [part |-> "none", visible |-> FALSE]]
    BY <1>4, <1>7, AnswersMove
  <2>2. Isolation!Forget(x)
    BY <1>1, <1>2, <1>3, <2>1 DEF SameOrder, Isolation!Forget, Isolation!NoAnswer
  <2> QED  BY <2>2 DEF Mapped, Isolation!IsolationNext
<1>8. CASE read'[x].pc = "done"
  <2>1. PICK p : p = read'[x].part
    OBVIOUS
  <2>2. PICK b : b = read'[x].result
    OBVIOUS
  <2>3. read'[x] \in Reads
    <3>1. read' \in [Txns -> Reads]
      BY <1>0, <1>8 DEF Base, TableInv, PartInv, PartTypes
    <3> QED  BY <3>1
  <2>4. b \in BOOLEAN /\ ReadIsTrue(x)'
    BY <1>0, <2>2, <2>3 DEF Reads, Base, TableInv, PartInv
  <2>5. p \in Parts
    BY <1>8, <2>1, <2>4 DEF ReadIsTrue, None
  <2>6. client'[x] = "ready" /\ (csn'[x] = UnknownCSN => (b <=> InSnapshot(x, p)'))
    <3>1. ReadIsRight(x)'
      BY DEF Reading
    <3>2. ReadKnows(x)' => (b <=> InSnapshot(x, p)')
      BY <1>8, <2>1, <2>2 DEF ReadKnows
    <3> QED  BY <1>8, <3>1, <3>2 DEF ReadIsRight, None
  <2>7. client[x] = "ready" /\ csn'[x] = csn[x] /\ HasBegun(x)
    BY <1>0, <2>6 DEF Same, SameQuery, SameEnd, HasBegun
  <2>8. \/ Statuses[x] = "running" /\ b = (p \in Isolation!View(x))
        \/ Statuses[x] = "aborted"
    <3>1. CASE csn[x] = UnknownCSN
      <4>1. Viewer(x)
        BY <2>7, <3>1 DEF Viewer
      <4>2. InSnapshot(x, p)' <=> InSnapshot(x, p)
        BY <2>5, <4>1, ViewIsSame
      <4>3. p \in Isolation!View(x) <=> InSnapshot(x, p)
        BY <2>5, ViewIs
      <4>4. ~IsCommitted(x) /\ finish[x] = None /\ csn[x] # RolledBackCSN
        BY <1>0, <2>7, <3>1, UndecidedFacts, CSNFacts
      <4>5. StatusOf(x) = "running"
        BY <1>0, <2>7, <3>1, <4>4, StatusIs DEF None
      <4>6. b <=> p \in Isolation!View(x)
        BY <2>6, <2>7, <3>1, <4>2, <4>3
      <4>7. b = (p \in Isolation!View(x))
        BY <2>4, <4>6
      <4> QED  BY <4>5, <4>7 DEF Statuses
    <3>2. CASE csn[x] # UnknownCSN
      <4>1. csn[x] = RolledBackCSN
        BY <1>0, <2>7, <3>2 DEF Base, TxnInv, Outcome
      <4>2. ~IsCommitted(x)
        BY <1>0, <4>1, CommittedFacts
      <4>3. StatusOf(x) = "aborted"
        BY <1>0, <2>7, <4>1, <4>2, StatusIs
      <4> QED  BY <4>3 DEF Statuses
    <3> QED  BY <3>1, <3>2
  <2>9. AnswersGiven' = [AnswersGiven EXCEPT ![x] = [part |-> p, visible |-> b]]
    BY <1>4, <1>8, <2>1, <2>2, AnswersMove
  <2>10. Isolation!Read(x, p, b)
    BY <1>1, <1>2, <1>3, <2>8, <2>9 DEF SameOrder, Isolation!Read
  <2> QED  BY <2>4, <2>5, <2>10 DEF Mapped, Isolation!IsolationNext
<1> QED  BY <1>6, <1>7, <1>8

(* A query that adds a part creates it, *)
LEMMA AddIsMapped ==
  ASSUME Stepping, Sound, Ending, NEW x \in Txns, AddNewPart(x)
  PROVE  Mapped
<1>0. /\ Others(x) /\ SameEnd(x) /\ SameLife(x) /\ UNCHANGED logVars /\ read' = read
      /\ removing'[x] = removing[x] /\ client[x] = "written" /\ new_part[x] \in Parts
      /\ Base /\ HasBegun(x)
  BY AddNewPartDoes DEF Stepping, HasBegun
<1>l. committed' = committed /\ tid' = tid
  BY <1>0, LogIsSame
<1>1. SameOrder
  BY <1>l, SameLogSameOrder
<1>2. \A y \in Txns : y # x => SameStatus(y) /\ SameChanges(y)
  BY <1>0, StatusIsSame DEF Others, Same, SameEnd
<1>3. AnswersGiven' = AnswersGiven
  BY <1>0, AnswersMove DEF SameRead
<1>4. CASE csn[x] # UnknownCSN
  <2>1. SameChanges(x)
    BY <1>0, <1>4, AddNewPartDoes DEF SameChanges
  <2>2. SameStatus(x)
    BY <1>0, <2>1, StatusIsSame DEF SameEnd
  <2> QED  BY <1>0, <1>l, <1>2, <2>1, <2>2, Stutters DEF SameRead
<1>5. CASE csn[x] = UnknownCSN
  <2>1. PICK p \in Parts : p = new_part[x]
    BY <1>0
  <2>2. creating'[x] = Append(creating[x], p)
    BY <1>5, <2>1, AddNewPartDoes
  <2>3. Range(creating'[x]) = Range(creating[x]) \cup {p}
    BY <1>0, <2>1, <2>2, Types, SequenceFacts
  <2>4. CreatedParts' = [CreatedParts EXCEPT ![x] = @ \cup {p}] /\ RemovedParts' = RemovedParts
    BY <1>0, <1>2, <2>3, ChangesMove
  <2>5. ~IsCommitted(x) /\ finish[x] = None /\ csn[x] # RolledBackCSN
    BY <1>0, <1>5, UndecidedFacts, CSNFacts
  <2>6. StatusOf(x) = "running"
    BY <1>0, <1>5, <2>5, StatusIs DEF None
  <2>7. StatusOf(x)' = "running"
    <3>1. tid'[x] = tid[x] /\ ~IsCommitted(x)' /\ csn'[x] = UnknownCSN /\ finish'[x] = None
      BY <1>0, <1>5, <2>5 DEF SameLife, SameEnd
    <3>2. tid[x] # EmptyTID /\ UnknownCSN # RolledBackCSN
      BY <1>0, BegunFacts, CSNFacts
    <3> QED  BY <3>1, <3>2 DEF StatusOf, None
  <2>8. Statuses' = Statuses /\ Statuses[x] = "running"
    BY <1>2, <2>6, <2>7, StatusesMove DEF SameStatus
  <2>9. p \notin Initial /\ \A y \in Txns : p \notin CreatedParts[y]
    <3>1. p \in Writes[x]
      BY <1>0, <2>1, OneWriter DEF Writing
    <3>2. ~Creates(x, p)
      BY <1>0, <2>1 DEF Ending, NewIsNotCreated
    <3>3. \A y \in Txns : Creates(y, p) => y = x
      BY <3>1, CreatorFacts DEF Sound
    <3>4. p \notin Initial
      BY <3>1, TableAssumption
    <3> QED  BY <3>2, <3>3, <3>4 DEF CreatedParts, Creates
  <2>10. Isolation!Create(x, p)
    BY <1>1, <1>3, <2>4, <2>8, <2>9 DEF SameOrder, Isolation!Create
  <2> QED  BY <2>10 DEF Mapped, Isolation!IsolationNext
<1> QED  BY <1>4, <1>5

(* and one that locks a part removes it: a part that it sees, and that     *)
(* only transactions that are rolled back have removed.                    *)
LEMMA RemoveIsMapped ==
  ASSUME Stepping, Sound, Ending, NEW x \in Txns, RemoveOldPart(x)
  PROVE  Mapped
<1>p. PICK p : p = Head(covered[x])
  OBVIOUS
<1>0. /\ Others(x) /\ SameEnd(x) /\ SameLife(x) /\ UNCHANGED logVars /\ read' = read
      /\ creating'[x] = creating[x] /\ client[x] = "remove" /\ p \in Parts /\ p \in Range(covered[x])
      /\ Base /\ HasBegun(x) /\ alive
  BY <1>p, RemoveOldPartDoes DEF Stepping, HasBegun
<1>l. committed' = committed /\ tid' = tid
  BY <1>0, LogIsSame
<1>1. SameOrder
  BY <1>l, SameLogSameOrder
<1>2. \A y \in Txns : y # x => SameStatus(y) /\ SameChanges(y)
  BY <1>0, StatusIsSame DEF Others, Same, SameEnd
<1>3. AnswersGiven' = AnswersGiven
  BY <1>0, AnswersMove DEF SameRead
<1>4. CASE removing'[x] = removing[x]
  <2>1. SameChanges(x)
    BY <1>0, <1>4 DEF SameChanges
  <2>2. SameStatus(x)
    BY <1>0, <2>1, StatusIsSame DEF SameEnd
  <2> QED  BY <1>0, <1>l, <1>2, <2>1, <2>2, Stutters DEF SameRead
<1>5. ASSUME csn[x] = UnknownCSN, version[p].removal_tid = EmptyTID, removing'[x] = Append(removing[x], p) PROVE Mapped
  <2>3. Range(removing'[x]) = Range(removing[x]) \cup {p}
    BY <1>0, <1>5, Types, SequenceFacts
  <2>4. RemovedParts' = [RemovedParts EXCEPT ![x] = @ \cup {p}] /\ CreatedParts' = CreatedParts
    BY <1>0, <1>2, <2>3, ChangesMove
  <2>5. ~IsCommitted(x) /\ finish[x] = None /\ csn[x] # RolledBackCSN
    BY <1>0, <1>5, UndecidedFacts, CSNFacts
  <2>6. StatusOf(x) = "running"
    BY <1>0, <1>5, <2>5, StatusIs DEF None
  <2>7. StatusOf(x)' = "running"
    <3>1. tid'[x] = tid[x] /\ ~IsCommitted(x)' /\ csn'[x] = UnknownCSN /\ finish'[x] = None
      BY <1>0, <1>5, <2>5 DEF SameLife, SameEnd
    <3>2. tid[x] # EmptyTID /\ UnknownCSN # RolledBackCSN
      BY <1>0, BegunFacts, CSNFacts
    <3> QED  BY <3>1, <3>2 DEF StatusOf, None
  <2>8. Statuses' = Statuses /\ Statuses[x] = "running"
    BY <1>2, <2>6, <2>7, StatusesMove DEF SameStatus
  <2>s. state[p] # None
    BY <1>0 DEF Base, TableInv, PartInv, PartsArePresent, InUse, Present
  <2>9. ASSUME NEW y \in Txns, Removes(y, p) PROVE StatusOf(y) = "aborted" /\ ~IsCommitted(y)
    <3>0. HasBegun(y) /\ ~IsReadOnly(y)
      BY <1>0, <2>9, RemoverHasBegun
    <3>1. ~Removed(y, p)
      BY <1>0, <1>5, <2>s, RemovedIsLockedBy DEF Sound
    <3>2. ~IsCommitted(y) /\ finish[y] \in {"clear", "unlock", "release", "done", "activate"}
      BY <2>9, <3>1 DEF Removed
    <3>3. csn[y] = RolledBackCSN \/ finish[y] = "done"
      <4>1. finish[y] \in {"clear", "unlock", "activate"} => csn[y] = RolledBackCSN
        BY <1>0 DEF Base, TxnInv, Outcome, Rollback
      <4>2. finish[y] = "release" => csn[y] = RolledBackCSN
        BY <3>0, <3>2 DEF Ending, ReleasedIsDecided
      <4> QED  BY <3>2, <4>1, <4>2
    <3> QED  BY <1>0, <3>0, <3>2, <3>3, StatusIs
  <2>10. p \in Isolation!View(x)
    <3>1. CreatedFor(x, p)
      BY <1>0, <1>5 DEF Sound, Table, LoopIsFree, Locking
    <3>2. ~Removes(x, p)
      BY <2>6, <2>9
    <3>3. ~RemovedFor(x, p)
      BY <2>9 DEF RemovedFor, CommittedBy, IsCommitted
    <3> QED  BY <1>0, <3>1, <3>2, <3>3, InSnapshotIs, ViewIs
  <2>11. \A y \in Txns : p \in RemovedParts[y] => Statuses[y] = "aborted"
    BY <2>9 DEF RemovedParts, Statuses, Removes
  <2>12. Isolation!Remove(x, p)
    BY <1>1, <1>3, <2>4, <2>8, <2>10, <2>11 DEF SameOrder, Isolation!Remove
  <2> QED  BY <1>0, <2>12 DEF Mapped, Isolation!IsolationNext
<1> QED  BY <1>p, <1>4, <1>5, RemoveOldPartDoes

-----------------------------------------------------------------------------
(* The beginning, the outcome and the end of a transaction. *)
LEMMA BeginIsMapped ==
  ASSUME Stepping, Sound, Ending, Listing(committed, tid), Listing(committed', tid'), NEW x \in Txns, Begin(x)
  PROVE  Mapped
<1>0. Deciding(x) /\ Base
  BY DEF Deciding, Stepping
<1>1. Others(x) /\ SameChanges(x) /\ read' = read
  BY <1>0, DecidingOthers, DecidingKeeps
<1>2. /\ client[x] = "idle" /\ SameEnd(x) /\ finish[x] = None /\ csn[x] = UnknownCSN /\ committed' = committed
      /\ ~IsCommitted(x) /\ ~IsCommitted(x)' /\ tid'[x] # EmptyTID /\ tid'[x].start_csn = latest_snapshot
      /\ latest_snapshot \in Nat
  BY BeginDoes DEF Stepping, Base, IInv, LogTypeOK
<1>3. /\ \A y \in Txns : y # x => SameStatus(y) /\ SameChanges(y) /\ tid'[y] = tid[y]
  BY <1>1, StatusIsSame DEF Others, Same, SameEnd, SameLife
<1>4. CommitOrder' = CommitOrder
  <2>1. \A e \in committed : \A z \in Txns : tid[z] = e.tid => tid'[z] = e.tid
    BY <1>2, <1>3 DEF IsCommitted
  <2>2. OrderIn(committed, tid) = OrderIn(committed, tid')
    BY <1>2, <2>1, OrderIsSame
  <2> QED  BY <1>2, <2>2, OrderIsListed, OrderIsListedNext
<1>5. PICK n : n = RankIn(committed, latest_snapshot)
  OBVIOUS
<1>6. SnapshotLengths' = [SnapshotLengths EXCEPT ![x] = n]
  BY <1>2, <1>3, <1>5, SnapshotLengthsAre
<1>7. n \in 0 .. Len(CommitOrder)
  BY <1>2, <1>5, RankFacts, OrderIs, OrderIsListed
<1>8. StatusOf(x) = "idle" /\ StatusOf(x)' = "running"
  <2>1. StatusOf(x) = "idle"
    BY <1>0, <1>2, StatusIs DEF HasBegun
  <2>2. csn'[x] = UnknownCSN /\ finish'[x] = None /\ UnknownCSN # RolledBackCSN
    BY <1>2, CSNFacts DEF SameEnd
  <2> QED  BY <1>2, <2>1, <2>2 DEF StatusOf, None
<1>9. Statuses' = [Statuses EXCEPT ![x] = "running"] /\ Statuses[x] = "idle"
  BY <1>3, <1>8, StatusesMove
<1>10. CreatedParts' = CreatedParts /\ RemovedParts' = RemovedParts /\ AnswersGiven' = AnswersGiven
  BY <1>1, <1>3, ChangesMove, AnswersMove DEF SameChanges, SameRead
<1>11. Isolation!BeginAt(x, n)
  BY <1>4, <1>6, <1>9, <1>10 DEF Isolation!BeginAt
<1> QED  BY <1>7, <1>11 DEF Mapped, Isolation!IsolationNext

LEMMA EntryIsMapped ==
  ASSUME Stepping, Sound, Ending, Listing(committed, tid), Listing(committed', tid'), NEW x \in Txns,
         Commit(x) \/ CommitLost(x), committed' # committed
  PROVE  Mapped
<1>0. Deciding(x) /\ Base
  BY DEF Deciding, Stepping
<1>1. Others(x) /\ SameChanges(x) /\ read' = read
  BY <1>0, DecidingOthers, DecidingKeeps
<1>2. /\ client[x] = "commit" /\ csn[x] = CommittingCSN /\ finish[x] = None /\ tid' = tid
      /\ ~IsCommitted(x) /\ IsCommitted(x)' /\ committed' = committed \cup {[csn |-> next_csn, tid |-> tid[x]]}
  BY CommitDoes
<1>3. \A y \in Txns : y # x => SameStatus(y) /\ SameChanges(y)
  BY <1>1, StatusIsSame DEF Others, Same, SameEnd
<1>4. PICK e : e = [csn |-> next_csn, tid |-> tid[x]]
  OBVIOUS
<1>5. /\ e.tid = tid[x] /\ e.csn = next_csn /\ committed' = committed \cup {e}
      /\ \A f \in committed : f.csn < e.csn
  BY <1>0, <1>2, <1>4 DEF Base, IInv, KeeperNumbers
<1>6. OrderIn(committed', tid) = Append(OrderIn(committed, tid), x) /\ SameRanks(committed, committed', e.csn)
  <2>1. Listing(committed', tid) /\ AddsNewest(committed, committed', e)
    BY <1>2, <1>5 DEF AddsNewest
  <2>2. PICK C, D, t : C = committed /\ D = committed' /\ t = tid
    OBVIOUS
  <2>3. Listing(C, t) /\ Listing(D, t) /\ AddsNewest(C, D, e) /\ e.tid = t[x]
    BY <1>5, <2>1, <2>2
  <2>4. OrderIn(D, t) = Append(OrderIn(C, t), x) /\ SameRanks(C, D, e.csn)
    BY <2>3, OrderGrows, Zenon
  <2> QED  BY <2>2, <2>4
<1>7. CommitOrder' = Append(CommitOrder, x)
  BY <1>2, <1>5, <1>6, OrderIsListed, OrderIsListedNext
<1>8. SnapshotLengths' = SnapshotLengths
  <2>1. ASSUME NEW y \in Txns PROVE tid[y].start_csn \in Nat /\ tid[y].start_csn < next_csn
    <3>1. tid[y] \in TIDs
      BY <1>0, Types
    <3>2. CASE tid[y] # EmptyTID
      BY <1>0, <3>1, <3>2 DEF Base, IInv, TIDsAreOld, Snapshot, TIDs
    <3>3. CASE tid[y] = EmptyTID
      <4>1. tid[y].start_csn = 0
        BY <3>3 DEF EmptyTID, TransactionID
      <4>2. next_csn \in Nat /\ MaxReservedCSN < next_csn
        BY <1>0 DEF Base, IInv, LogTypeOK, TxnInv, CommitNumbers
      <4> QED  BY <4>1, <4>2 DEF MaxReservedCSN
    <3> QED  BY <3>2, <3>3
  <2>2. \A y \in Txns : RankIn(committed', tid'[y].start_csn) = RankIn(committed, tid[y].start_csn)
    BY <1>2, <1>5, <1>6, <2>1 DEF SameRanks
  <2> QED  BY <2>2, SnapshotLengthsAre
<1>9. ~IsReadOnly(x)
  BY <1>2 DEF Ending, AskingHasChanges, Asks
<1>10. StatusOf(x) = "running" /\ StatusOf(x)' = "committed"
  <2>1. tid[x] # EmptyTID /\ CommittingCSN # RolledBackCSN
    BY <1>0, <1>2, BegunFacts, CSNFacts DEF HasBegun
  <2> QED  BY <1>2, <1>9, <2>1 DEF StatusOf, None
<1>11. Statuses' = [Statuses EXCEPT ![x] = "committed"] /\ Statuses[x] = "running"
  BY <1>3, <1>10, StatusesMove
<1>12. CreatedParts' = CreatedParts /\ RemovedParts' = RemovedParts /\ AnswersGiven' = AnswersGiven
  BY <1>1, <1>3, ChangesMove, AnswersMove DEF SameChanges, SameRead
<1>13. CreatedParts[x] \cup RemovedParts[x] # {}
  <2>1. creating[x] \in Seq(Parts) /\ removing[x] \in Seq(Parts)
    BY <1>0, Types
  <2>2. Range(creating[x]) # {} \/ Range(removing[x]) # {}
    BY <1>9, <2>1, NothingInRange DEF IsReadOnly
  <2> QED  BY <2>2 DEF CreatedParts, RemovedParts
<1>14. Isolation!Commits(x)
  BY <1>7, <1>8, <1>11, <1>12, <1>13 DEF Isolation!Commits
<1> QED  BY <1>14 DEF Mapped, Isolation!IsolationNext

(* The steps of the outcome that leave the log alone. *)
LEMMA OutcomeIsMapped ==
  ASSUME Stepping, Sound, Ending, NEW x \in Txns, Deciding(x), committed' = committed, tid' = tid, HasBegun(x),
         \/ SameStatus(x)
         \/ StatusOf(x) = "running" /\ StatusOf(x)' = "aborted"
         \/ StatusOf(x) = "running" /\ StatusOf(x)' = "committed" /\ IsReadOnly(x)
  PROVE  Mapped
<1>1. Others(x) /\ SameChanges(x) /\ read' = read
  BY DecidingOthers, DecidingKeeps
<1>2. \A y \in Txns : y # x => SameStatus(y) /\ SameChanges(y)
  BY <1>1, StatusIsSame DEF Others, Same, SameEnd
<1>3. SameOrder
  BY SameLogSameOrder
<1>4. CreatedParts' = CreatedParts /\ RemovedParts' = RemovedParts /\ AnswersGiven' = AnswersGiven
  BY <1>1, <1>2, ChangesMove, AnswersMove DEF SameChanges, SameRead
<1>5. CASE SameStatus(x)
  BY <1>1, <1>2, <1>5, Stutters DEF SameRead
<1>6. CASE StatusOf(x) = "running" /\ StatusOf(x)' = "aborted"
  <2>1. Statuses' = [Statuses EXCEPT ![x] = "aborted"] /\ Statuses[x] = "running"
    BY <1>2, <1>6, StatusesMove
  <2>2. Isolation!Aborts(x)
    BY <1>3, <1>4, <2>1 DEF SameOrder, Isolation!Aborts
  <2> QED  BY <2>2 DEF Mapped, Isolation!IsolationNext
<1>7. CASE StatusOf(x) = "running" /\ StatusOf(x)' = "committed" /\ IsReadOnly(x)
  <2>1. Statuses' = [Statuses EXCEPT ![x] = "committed"] /\ Statuses[x] = "running"
    BY <1>2, <1>7, StatusesMove
  <2>2. CreatedParts[x] \cup RemovedParts[x] = {}
    BY <1>7, EmptyRange DEF IsReadOnly, CreatedParts, RemovedParts
  <2>3. Isolation!Commits(x)
    BY <1>3, <1>4, <2>1, <2>2 DEF SameOrder, Isolation!Commits
  <2> QED  BY <2>3 DEF Mapped, Isolation!IsolationNext
<1> QED  BY <1>5, <1>6, <1>7

-----------------------------------------------------------------------------
(* A rollback that begins aborts a running transaction. *)
LEMMA RollbackIsMapped ==
  ASSUME Stepping, Sound, Ending, NEW x \in Txns, ClientRollsBack(x) \/ Kill(x) \/ RollBackUnknownState(x)
  PROVE  Mapped
<1>0. Deciding(x) /\ Base
  BY DEF Deciding, Stepping
<1>1. /\ SameLife(x) /\ UNCHANGED logVars /\ client[x] # "idle"
      /\ \/ SameEnd(x)
         \/ csn[x] = UnknownCSN /\ csn'[x] = RolledBackCSN /\ finish[x] \in {None, "unguarded"}
  BY RollbackStarts
<1>2. committed' = committed /\ tid' = tid /\ HasBegun(x) /\ SameChanges(x)
  BY <1>0, <1>1, LogIsSame, DecidingKeeps DEF HasBegun
<1>3. CASE SameEnd(x)
  BY <1>0, <1>1, <1>2, <1>3, StatusIsSame, OutcomeIsMapped DEF SameEnd
<1>4. CASE csn[x] = UnknownCSN /\ csn'[x] = RolledBackCSN /\ finish[x] \in {None, "unguarded"}
  <2>1. ~IsCommitted(x) /\ ~IsCommitted(x)'
    BY <1>0, <1>1, <1>4 DEF Base, TxnInv, Outcome, SameLife
  <2>2. csn[x] # RolledBackCSN /\ tid[x] # EmptyTID /\ finish[x] # "done"
    BY <1>0, <1>2, <1>4, CSNFacts, BegunFacts DEF None
  <2>3. StatusOf(x) = "running" /\ StatusOf(x)' = "aborted"
    BY <1>2, <1>4, <2>1, <2>2 DEF StatusOf
  <2> QED  BY <1>0, <1>2, <2>3, OutcomeIsMapped
<1> QED  BY <1>1, <1>3, <1>4

(* beforeCommit() decides a transaction that has changed nothing. *)
LEMMA BeforeCommitIsMapped ==
  ASSUME Stepping, Sound, Ending, NEW x \in Txns, BeforeCommit(x)
  PROVE  Mapped
<1>0. Deciding(x) /\ Base
  BY DEF Deciding, Stepping
<1>1. /\ SameLife(x) /\ UNCHANGED logVars /\ client[x] = "ready"
      /\ \/ SameEnd(x)
         \/ /\ csn[x] = UnknownCSN /\ csn'[x] = CommittingCSN /\ finish[x] = None
            /\ \/ IsReadOnly(x) /\ Goes(x, "end", "committed")
               \/ ~IsReadOnly(x) /\ Goes(x, "commit", None)
  BY BeforeCommitDoes
<1>2. committed' = committed /\ tid' = tid /\ HasBegun(x) /\ SameChanges(x)
  BY <1>0, <1>1, LogIsSame, DecidingKeeps DEF HasBegun
<1>3. CASE SameEnd(x)
  BY <1>0, <1>1, <1>2, <1>3, StatusIsSame, OutcomeIsMapped DEF SameEnd
<1>4. ASSUME csn[x] = UnknownCSN, csn'[x] = CommittingCSN, finish[x] = None PROVE Mapped
  <2>1. ~IsCommitted(x) /\ ~IsCommitted(x)'
    BY <1>0, <1>1, <1>4 DEF Base, TxnInv, Outcome, SameLife
  <2>2. csn[x] # RolledBackCSN /\ csn'[x] \notin {UnknownCSN, RolledBackCSN}
    BY <1>4, CSNFacts
  <2>3. tid[x] # EmptyTID /\ finish[x] # "done" /\ (IsReadOnly(x)' <=> IsReadOnly(x))
    BY <1>0, <1>2, <1>4, BegunFacts DEF None, IsReadOnly, SameChanges
  <2>4. StatusOf(x) = "running"
    BY <1>4, <2>1, <2>2, <2>3 DEF StatusOf
  <2>5. CASE IsReadOnly(x) /\ Goes(x, "end", "committed")
    <3>1. StatusOf(x)' = "committed"
      BY <1>2, <2>2, <2>3, <2>5 DEF StatusOf
    <3> QED  BY <1>0, <1>2, <2>4, <2>5, <3>1, OutcomeIsMapped
  <2>6. CASE ~IsReadOnly(x) /\ Goes(x, "commit", None)
    <3>1. finish'[x] # "done"
      BY <2>6 DEF Goes, None
    <3>2. StatusOf(x)' = "running"
      BY <1>2, <2>1, <2>2, <2>3, <2>6, <3>1 DEF StatusOf
    <3> QED  BY <1>0, <1>2, <2>4, <3>2, OutcomeIsMapped DEF SameStatus
  <2> QED  BY <1>1, <1>4, <2>5, <2>6, CSNFacts DEF SameEnd
<1> QED  BY <1>1, <1>3, <1>4

(* A commit that the log takes is the commit, one that it does not take    *)
(* changes nothing, and neither does finding out which.                    *)
LEMMA CommitIsMapped ==
  ASSUME Stepping, Sound, Ending, Listing(committed, tid), Listing(committed', tid'), NEW x \in Txns,
         Commit(x) \/ CommitLost(x) \/ Postpone(x) \/ CommitRefused(x) \/ DecideUnknownState(x)
  PROVE  Mapped
<1>0. Deciding(x) /\ Base
  BY DEF Deciding, Stepping
<1>a. SameChanges(x)
  BY <1>0, DecidingKeeps
<1>1. ASSUME Commit(x) \/ CommitLost(x), committed' = committed PROVE Mapped
  <2>1. /\ client[x] = "commit" /\ csn'[x] = csn[x] /\ tid' = tid /\ finish[x] = None
        /\ Running(x) /\ Running(x)' /\ (Goes(x, "end", "committed") \/ Goes(x, "lost", None))
    BY <1>1, CommitDoes
  <2>2. SameLife(x) /\ finish[x] # "done" /\ finish'[x] # "done" /\ HasBegun(x)
    BY <1>1, <2>1 DEF SameLife, IsCommitted, Goes, None, HasBegun
  <2> QED  BY <1>0, <1>1, <1>a, <2>1, <2>2, StatusIsSame, OutcomeIsMapped
<1>2. CASE Postpone(x)
  <2>1. /\ SameLife(x) /\ client[x] = "lost" /\ finish'[x] = "unknown" /\ finish[x] = None /\ csn'[x] = csn[x]
        /\ committed' = committed /\ tid' = tid
    BY <1>2, PostponeDoes DEF Goes
  <2>2. finish[x] # "done" /\ finish'[x] # "done" /\ HasBegun(x)
    BY <2>1 DEF None, HasBegun
  <2> QED  BY <1>0, <1>a, <2>1, <2>2, StatusIsSame, OutcomeIsMapped
<1>3. ASSUME csn[x] = CommittingCSN, csn'[x] = UnknownCSN, SameLife(x), ~IsCommitted(x), Asks(x), HasBegun(x),
             finish[x] # "done", finish'[x] # "done", committed' = committed, tid' = tid
      PROVE  Mapped
  <2>1. ~IsReadOnly(x) /\ ~IsReadOnly(x)' /\ ~IsCommitted(x)' /\ tid[x] # EmptyTID
    BY <1>0, <1>a, <1>3, BegunFacts DEF Ending, AskingHasChanges, SameChanges, IsReadOnly, SameLife
  <2>2. csn[x] # RolledBackCSN /\ csn'[x] # RolledBackCSN
    BY <1>3, CSNFacts
  <2>3. SameStatus(x)
    BY <1>3, <2>1, <2>2 DEF SameStatus, StatusOf
  <2> QED  BY <1>0, <1>3, <2>3, OutcomeIsMapped
<1>4. CASE CommitRefused(x)
  <2>1. /\ SameLife(x) /\ client[x] = "commit" /\ finish[x] = None /\ finish'[x] = None
        /\ csn'[x] = UnknownCSN /\ csn[x] = CommittingCSN /\ committed' = committed /\ tid' = tid /\ ~IsCommitted(x)
    BY <1>4, CommitRefusedDoes DEF Goes
  <2>2. Asks(x) /\ HasBegun(x) /\ finish[x] # "done" /\ finish'[x] # "done"
    BY <2>1 DEF Asks, HasBegun, None
  <2> QED  BY <1>3, <2>1, <2>2
<1>5. CASE DecideUnknownState(x)
  <2>1. /\ SameLife(x) /\ UNCHANGED logVars /\ client[x] = "end" /\ finish[x] = "unknown" /\ csn[x] = CommittingCSN
        /\ \/ finish'[x] = "committed" /\ csn'[x] = CommittingCSN
           \/ finish'[x] = "unguarded" /\ csn'[x] = UnknownCSN
    BY <1>5, DecideDoes
  <2>2. committed' = committed /\ tid' = tid /\ HasBegun(x) /\ Asks(x)
    BY <2>1, LogIsSame DEF HasBegun, Asks
  <2>3. CASE finish'[x] = "committed" /\ csn'[x] = CommittingCSN
    <3>1. SameStatus(x)
      BY <1>a, <2>1, <2>3, StatusIsSame
    <3> QED  BY <1>0, <2>2, <3>1, OutcomeIsMapped
  <2>4. CASE finish'[x] = "unguarded" /\ csn'[x] = UnknownCSN
    <3>1. ~IsCommitted(x)'
      BY <2>4 DEF Stepping, Base, TxnInv, Outcome
    <3>2. ~IsCommitted(x)
      BY <2>1, <3>1 DEF SameLife
    <3> QED  BY <1>3, <2>1, <2>2, <2>4, <3>2
  <2> QED  BY <2>1, <2>3, <2>4
<1> QED  BY <1>1, <1>2, <1>4, <1>5, EntryIsMapped

(* What ends a transaction does not change its outcome. *)
LEMMA EndIsMapped ==
  ASSUME Stepping, Sound, Ending, NEW x \in Txns, AfterCommit(x) \/ Release(x)
  PROVE  Mapped
<1>0. Deciding(x) /\ Base
  BY DEF Deciding, Stepping
<1>a. SameChanges(x)
  BY <1>0, DecidingKeeps
<1>b. IsReadOnly(x)' <=> IsReadOnly(x)
  BY <1>a DEF IsReadOnly, SameChanges
<1>1. CASE AfterCommit(x)
  <2>1. /\ SameLife(x) /\ UNCHANGED logVars /\ client[x] = "end" /\ finish[x] = "committed" /\ csn[x] = CommittingCSN
        /\ csn'[x] \notin {UnknownCSN, RolledBackCSN} /\ (IsReadOnly(x) \/ IsCommitted(x))
    BY <1>1, AfterCommitDoes
  <2>2. committed' = committed /\ tid' = tid /\ HasBegun(x) /\ csn[x] \notin {UnknownCSN, RolledBackCSN}
    BY <2>1, LogIsSame, CSNFacts DEF HasBegun
  <2>3. SameStatus(x)
    BY <1>b, <2>1, <2>2 DEF SameStatus, StatusOf, SameLife
  <2> QED  BY <1>0, <2>2, <2>3, OutcomeIsMapped
<1>2. CASE Release(x)
  <2>1. /\ finish[x] = "release" /\ finish'[x] = "done" /\ csn'[x] = csn[x] /\ csn[x] # UnknownCSN
        /\ committed' = committed /\ tid' = tid /\ (IsCommitted(x)' <=> IsCommitted(x)) /\ Running(x)
    BY <1>2, ReleaseDoes
  <2>2. HasBegun(x)
    BY <1>0, <2>1 DEF Base, TxnInv, RunningIsUnfinished, HasBegun
  <2>3. csn[x] = RolledBackCSN \/ IsReadOnly(x) \/ IsCommitted(x)
    BY <2>1 DEF Ending, ReleasedIsDecided
  <2>4. SameStatus(x)
    BY <1>b, <2>1, <2>3 DEF SameStatus, StatusOf
  <2> QED  BY <1>0, <2>1, <2>2, <2>4, OutcomeIsMapped
<1> QED  BY <1>1, <1>2

LEMMA DecidingIsMapped ==
  ASSUME Stepping, Sound, Ending, Listing(committed, tid), Listing(committed', tid'), NEW x \in Txns, Deciding(x)
  PROVE  Mapped
BY BeginIsMapped, RollbackIsMapped, BeforeCommitIsMapped, CommitIsMapped, EndIsMapped DEF Deciding

-----------------------------------------------------------------------------
(* A crash aborts what is running. *)
LEMMA CrashIsMapped ==
  ASSUME Stepping, Sound, Ending, CrashServer
  PROVE  Mapped
<1>0. Base /\ Base'
  BY DEF Stepping
<1>1. /\ tid' = tid /\ committed' = committed /\ csn' = csn /\ creating' = creating /\ removing' = removing
      /\ \A x \in Txns : /\ client[x] # "idle" => finish'[x] = "done"
                         /\ read'[x].pc = None /\ (IsCommitted(x)' <=> IsCommitted(x))
  BY CrashDoes
<1>2. SameOrder /\ CreatedParts' = CreatedParts /\ RemovedParts' = RemovedParts
  BY <1>1, SameLogSameOrder DEF CreatedParts, RemovedParts
<1>3. ASSUME NEW x \in Txns
      PROVE  StatusOf(x)' = IF StatusOf(x) = "running" THEN "aborted" ELSE StatusOf(x)
  <2>1. IsReadOnly(x)' <=> IsReadOnly(x)
    BY <1>1 DEF IsReadOnly
  <2>2. tid[x] # EmptyTID => finish'[x] = "done"
    BY <1>0, <1>1 DEF Base, TxnInv, RunningIsUnfinished
  <2> QED  BY <1>1, <2>1, <2>2 DEF StatusOf
<1>4. Statuses' = [x \in Txns |-> IF Statuses[x] = "running" THEN "aborted" ELSE Statuses[x]]
  BY <1>3 DEF Statuses
<1>5. AnswersGiven' = [x \in Txns |-> Isolation!NoAnswer]
  BY <1>1 DEF AnswersGiven, None, Isolation!NoAnswer
<1>6. Isolation!AllAbort
  BY <1>2, <1>4, <1>5 DEF SameOrder, Isolation!AllAbort
<1> QED  BY <1>6 DEF Mapped, Isolation!IsolationNext

(* The steps that no client can tell. *)
LEMMA QuietIsMapped ==
  ASSUME committed' = committed, tid' = tid, read' = read,
         \A y \in Txns : /\ SameChanges(y) /\ SameLife(y) /\ csn'[y] = csn[y]
                         /\ finish'[y] = "done" <=> finish[y] = "done"
  PROVE  Mapped
<1>1. \A y \in Txns : SameStatus(y) /\ SameChanges(y) /\ SameRead(y)
  BY StatusIsSame DEF SameRead
<1> QED  BY <1>1, Stutters

LEMMA RestIsMapped ==
  ASSUME Stepping,
         \/ UpdaterStep \/ UpdaterRequestFails \/ StartServer \/ ServerStarted
         \/ \E p \in Parts : GrabOldPart(p) \/ LoadPart(p)
         \/ \E x \in Txns : \/ KillFails(x) \/ KillReturns(x) \/ EndUnknownState(x)
                            \/ \E p \in Parts : WritePart(x, p)
                            \/ Truncate(x) \/ AppendRemoval(x) \/ SkipRolledBack(x) \/ TruncateEnds(x)
                            \/ ActivatePart(x) \/ UndoPart(x) \/ Treating(x)
  PROVE  Mapped
<1>1. ASSUME \A y \in Txns : Same(y), committed' = committed, tid' = tid, read' = read PROVE Mapped
  BY <1>1, QuietIsMapped DEF Same, SameEnd
<1>2. ASSUME NEW x \in Txns, Others(x), SameEnd(x), SameLife(x), SameChanges(x), UNCHANGED logVars, read' = read
      PROVE  Mapped
  <2>1. committed' = committed /\ tid' = tid
    BY <1>2, LogIsSame
  <2> QED  BY <1>2, <2>1, QuietIsMapped DEF Others, Same, SameEnd
<1>3. CASE \/ UpdaterStep \/ UpdaterRequestFails \/ StartServer \/ ServerStarted
           \/ \E x \in Txns : KillFails(x) \/ KillReturns(x) \/ EndUnknownState(x)
  BY <1>1, <1>3, ServerDoes
<1>4. ASSUME NEW p \in Parts, GrabOldPart(p) \/ LoadPart(p) PROVE Mapped
  <2>1. (\A y \in Txns : Same(y)) /\ UNCHANGED logVars /\ read' = read
    BY <1>4, GrabOldPartDoes, LoadPartDoes
  <2> QED  BY <1>1, <2>1, LogIsSame
<1>5. ASSUME NEW x \in Txns, (\E p \in Parts : WritePart(x, p)) \/ Truncate(x) \/ TruncateEnds(x) PROVE Mapped
  <2>1. Others(x) /\ SameEnd(x) /\ SameLife(x) /\ SameChanges(x) /\ UNCHANGED logVars /\ read' = read
    BY <1>5, WritePartDoes, TruncateDoes, TruncateEndsDoes
  <2> QED  BY <1>2, <2>1
<1>6. ASSUME NEW x \in Txns, AppendRemoval(x) \/ SkipRolledBack(x) PROVE Mapped
  <2>1. Others(x) /\ SameEnd(x) /\ SameLife(x) /\ SameChanges(x) /\ UNCHANGED logVars /\ read' = read
    BY <1>6, AppendRemovalDoes, SkipRolledBackDoes
  <2> QED  BY <1>2, <2>1
<1>7. ASSUME NEW x \in Txns, ActivatePart(x) \/ UndoPart(x) PROVE Mapped
  <2>1. Others(x) /\ SameEnd(x) /\ SameLife(x) /\ SameChanges(x) /\ UNCHANGED logVars /\ read' = read
    BY <1>7, ActivatePartDoes, UndoPartDoes
  <2> QED  BY <1>2, <2>1
<1>8. ASSUME NEW x \in Txns, Treating(x) PROVE Mapped
  <2>1. /\ Others(x) /\ SameChanges(x) /\ SameLife(x) /\ csn'[x] = csn[x] /\ UNCHANGED logVars /\ read' = read
        /\ finish[x] \in Phases /\ finish'[x] # "done"
    BY <1>8, TreatingKeeps
  <2>2. committed' = committed /\ tid' = tid /\ finish[x] # "done"
    BY <2>1, LogIsSame DEF Phases
  <2> QED  BY <2>1, <2>2, QuietIsMapped DEF Others, Same, SameEnd
<1> QED  BY <1>3, <1>4, <1>5, <1>6, <1>7, <1>8

LEMMA StepIsMapped ==
  ASSUME Stepping, Sound, Ending, Reading, Reading', Listing(committed, tid), Listing(committed', tid')
  PROVE  Mapped
<1>1. \/ CrashServer
      \/ \/ UpdaterStep \/ UpdaterRequestFails \/ StartServer \/ ServerStarted
         \/ \E p \in Parts : GrabOldPart(p) \/ LoadPart(p)
         \/ \E x \in Txns : \/ KillFails(x) \/ KillReturns(x) \/ EndUnknownState(x)
                            \/ \E p \in Parts : WritePart(x, p)
                            \/ Truncate(x) \/ AppendRemoval(x) \/ SkipRolledBack(x) \/ TruncateEnds(x)
                            \/ ActivatePart(x) \/ UndoPart(x) \/ Treating(x)
      \/ \E x \in Txns : \/ SelectStep(x) \/ \E p \in Parts : Select(x, p)
                         \/ AddNewPart(x) \/ RemoveOldPart(x) \/ Deciding(x)
  BY DEF Stepping, Next, ClientStep, FinishStep, KillStep, UnknownStateStep, LockedStep, Deciding, Treating
<1>2. CASE CrashServer
  BY <1>2, CrashIsMapped
<1>3. CASE \/ UpdaterStep \/ UpdaterRequestFails \/ StartServer \/ ServerStarted
           \/ \E p \in Parts : GrabOldPart(p) \/ LoadPart(p)
           \/ \E x \in Txns : \/ KillFails(x) \/ KillReturns(x) \/ EndUnknownState(x)
                              \/ \E p \in Parts : WritePart(x, p)
                              \/ Truncate(x) \/ AppendRemoval(x) \/ SkipRolledBack(x) \/ TruncateEnds(x)
                              \/ ActivatePart(x) \/ UndoPart(x) \/ Treating(x)
  BY <1>3, RestIsMapped
<1>4. ASSUME NEW x \in Txns, SelectStep(x) \/ (\E p \in Parts : Select(x, p))
                             \/ AddNewPart(x) \/ RemoveOldPart(x) \/ Deciding(x)
      PROVE  Mapped
  BY <1>4, SelectIsMapped, AddIsMapped, RemoveIsMapped, DecidingIsMapped
<1> QED  BY <1>1, <1>2, <1>3, <1>4

(***************************************************************************)
(* Transactions over parts are isolated: every step of the clients, of the *)
(* threads that commit, roll back, kill and finalize, of the updating and  *)
(* the cleanup threads and of a restart is a step of snapshot isolation or *)
(* changes nothing that a client can tell.                                 *)
(***************************************************************************)
THEOREM IsolationIsImplemented == Spec => TransactionsAreIsolated
<1> DEFINE L == Listing(committed, tid)
<1>1. Init => Isolation!IsolationInit
  <2> SUFFICES ASSUME Init PROVE Isolation!IsolationInit
    OBVIOUS
  <2>1. /\ tid = [x \in Txns |-> EmptyTID] /\ committed = {} /\ read = [x \in Txns |-> NoRead]
        /\ creating = [x \in Txns |-> <<>>] /\ removing = [x \in Txns |-> <<>>]
    BY DEF Init, LogInit
  <2>2. \A c : EntriesUpTo(c) = 0
    <3>1. \A c : {e \in committed : e.csn <= c} = {}
      BY <2>1
    <3> QED  BY <3>1, FS_EmptySet DEF EntriesUpTo
  <2>3. Statuses = [x \in Txns |-> "idle"]
    BY <2>1 DEF Statuses, StatusOf
  <2>4. SnapshotLengths = [x \in Txns |-> 0]
    BY <2>2 DEF SnapshotLengths
  <2>5. CommitOrder = <<>>
    <3>1. Cardinality(committed) = 0
      BY <2>1, FS_EmptySet
    <3>2. 1 .. Cardinality(committed) = {}
      BY <3>1
    <3> QED  BY <3>2 DEF CommitOrder
  <2>6. CreatedParts = [x \in Txns |-> {}] /\ RemovedParts = [x \in Txns |-> {}]
    BY <2>1, EmptyRange DEF CreatedParts, RemovedParts
  <2>7. AnswersGiven = [x \in Txns |-> Isolation!NoAnswer]
    BY <2>1 DEF AnswersGiven, NoRead, None, Isolation!NoAnswer
  <2> QED  BY <2>3, <2>4, <2>5, <2>6, <2>7 DEF Isolation!IsolationInit
<1>2. Sound /\ Ending => L
  BY CommittedIsListing DEF Sound, Ending
<1>3. Sound /\ Sound' /\ Reading /\ Reading' /\ Ending /\ L /\ L' /\ [Next]_vars
        => [Isolation!IsolationNext]_(Isolation!isolationVars)
  <2> SUFFICES ASSUME Sound, Sound', Reading, Reading', Ending, L, L', [Next]_vars
               PROVE  Mapped
    BY DEF Mapped
  <2>1. CASE Next
    <3>1. Stepping
      BY <2>1 DEF Sound, Stepping
    <3> QED  BY <3>1, StepIsMapped
  <2>2. CASE UNCHANGED vars
    <3>1. UNCHANGED <<committed, tid, read, csn, finish, creating, removing, in_use>>
      BY <2>2 DEF vars, logVars, memory, txnVars, changes, ending
    <3>2. \A y \in Txns : /\ SameChanges(y) /\ SameLife(y) /\ csn'[y] = csn[y]
                          /\ finish'[y] = "done" <=> finish[y] = "done"
      BY <3>1 DEF SameChanges, SameLife, IsCommitted, Running
    <3> QED  BY <3>1, <3>2, QuietIsMapped
  <2> QED  BY <2>1, <2>2
<1> QED  BY <1>1, <1>2, <1>3, EndingHolds, PTL DEF Spec, TransactionsAreIsolated, Isolation!IsolationSpec

=============================================================================
