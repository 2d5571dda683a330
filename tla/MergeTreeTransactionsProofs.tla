-------------------- MODULE MergeTreeTransactionsProofs --------------------
(***************************************************************************)
(* MergeTreeTransactions for any transactions, parts, readers, kills,      *)
(* failed requests and restarts.  The specification implements the one of  *)
(* the log, whose invariant IInv is at hand from there on.  The last part  *)
(* is about one transaction and one part at a time: what each step does to *)
(* them, and which transaction has made a part.                            *)
(***************************************************************************)
EXTENDS MergeTreeTransactions, TransactionLogProofs

ClientStates == {"idle", "ready", "written", "remove", "append", "undo",
                 "exception", "commit", "lost", "end"}
FinishStates == {None, "unknown", "unguarded", "committed", "stamp_created",
                 "stamp_removed", "release", "mark", "outdate", "activate",
                 "clear", "unlock", "done"}
Working == {"ready", "written", "remove", "append", "undo", "exception"}
Rollback == {"mark", "outdate", "activate", "clear", "unlock"}

TxnTypes ==
  /\ csn \in [Txns -> Nat]
  /\ client \in [Txns -> ClientStates] /\ finish \in [Txns -> FinishStates]
  /\ killer \in [Txns -> {None, "won", "lost", "done"}]
  /\ creating \in [Txns -> Seq(Parts)] /\ removing \in [Txns -> Seq(Parts)]
  /\ covered \in [Txns -> Seq(Parts)] /\ todo \in [Txns -> Seq(Parts)]
  /\ new_part \in [Txns -> Parts \cup {None}]

(* A step has the part it is about to treat at hand. *)
AtHand ==
  \A x \in Txns :
    /\ client[x] \in {"written", "undo"} => new_part[x] # None
    /\ client[x] = "append" => covered[x] # <<>>
    /\ finish[x] = "unlock" => todo[x] # <<>>

(* A transaction is on the list of running ones from its beginning to the  *)
(* end of its commit or rollback.                                          *)
RunningIsUnfinished ==
  /\ Unique(in_use)
  /\ \A x \in Txns :
       /\ client[x] = "idle" <=> tid[x] = EmptyTID
       /\ Running(x) <=> client[x] # "idle" /\ finish[x] # "done"

(* What the state of the transaction object says of its two programs. *)
Outcome(x) ==
  /\ client[x] = "idle" => csn[x] = UnknownCSN /\ IsReadOnly(x)
  /\ client[x] \notin {"commit", "lost", "end"} => csn[x] \in {UnknownCSN, RolledBackCSN}
  /\ client[x] \in {"commit", "lost"} => csn[x] = CommittingCSN /\ finish[x] = None
  /\ client[x] # "end" /\ csn[x] = UnknownCSN => finish[x] = None
  /\ finish[x] \in {"unknown", "unguarded", "committed", "stamp_created", "stamp_removed"}
       => client[x] = "end"
  /\ finish[x] \in {"unknown", "committed"} => csn[x] = CommittingCSN
  /\ finish[x] \in Rollback => csn[x] = RolledBackCSN
  /\ IsCommitted(x) => csn[x] \notin {UnknownCSN, RolledBackCSN}
  /\ finish[x] = "committed" => IsReadOnly(x) \/ IsCommitted(x)
  /\ finish[x] \in {"stamp_created", "stamp_removed"} =>
       \/ IsReadOnly(x) /\ todo[x] = <<>>
       \/ [csn |-> csn[x], tid |-> tid[x]] \in committed

(* Numbers of entries are neither reserved nor out of range. *)
CommitNumbers ==
  /\ MaxReservedCSN < next_csn /\ next_csn <= MaxCSN + 1
  /\ \A e \in committed : MaxReservedCSN < e.csn /\ e.csn <= MaxCSN

TxnInv ==
  /\ TxnTypes /\ AtHand
  /\ RunningIsUnfinished
  /\ \A x \in Txns : Outcome(x)
  /\ CommitNumbers
-----------------------------------------------------------------------------
(* Every step is a step of the log or leaves the log alone. *)
LEMMA NextLogStep == Next => [LogNext]_logVars
<1> SUFFICES ASSUME Next PROVE LogNext \/ UNCHANGED logVars
  OBVIOUS
<1>1. ASSUME NEW x \in Txns, ClientStep(x) PROVE LogNext \/ UNCHANGED logVars
  <2>1. CASE Begin(x)
    BY <2>1 DEF Begin, LogNext
  <2>2. CASE SelectStep(x) \/ AddNewPart(x) \/ Truncate(x) \/ UndoPart(x) \/ ClientRollsBack(x) \/ BeforeCommit(x)
    BY <2>2 DEF SelectStep, AddNewPart, Truncate, UndoPart, ClientRollsBack, BeforeCommit
  <2>3. CASE \E p \in Parts : Select(x, p) \/ WritePart(x, p)
    BY <2>3 DEF Select, WritePart
  <2>4. CASE LockedStep(x)
    BY <2>4 DEF LockedStep, RemoveOldPart, AppendRemoval, SkipRolledBack, TruncateEnds, ActivatePart
  <2>5. CASE Commit(x) \/ CommitLost(x) \/ Postpone(x) \/ CommitRefused(x)
    BY <2>5 DEF Commit, CommitLost, Postpone, CommitRefused, LogNext
  <2> QED  BY <1>1, <2>1, <2>2, <2>3, <2>4, <2>5 DEF ClientStep
<1>2. ASSUME NEW x \in Txns, FinishStep(x) PROVE LogNext \/ UNCHANGED logVars
  <2>1. CASE Release(x)
    BY <2>1 DEF Release, LogNext
  <2>2. CASE AfterCommit(x) \/ StampCreated(x) \/ StampRemoved(x) \/ MarkRolledBack(x)
    BY <2>2 DEF AfterCommit, StampCreated, StampRemoved, MarkRolledBack
  <2>3. CASE OutdateCreated(x) \/ RestoreRemoved(x) \/ ClearRemoved(x) \/ UnlockRemoved(x)
    BY <2>3 DEF OutdateCreated, RestoreRemoved, ClearRemoved, UnlockRemoved
  <2> QED  BY <1>2, <2>1, <2>2, <2>3 DEF FinishStep
<1>3. ASSUME NEW x \in Txns, KillStep(x) PROVE LogNext \/ UNCHANGED logVars
  BY <1>3 DEF KillStep, Kill, KillFails, KillReturns
<1>4. ASSUME NEW x \in Txns, UnknownStateStep(x) PROVE LogNext \/ UNCHANGED logVars
  BY <1>4 DEF UnknownStateStep, DecideUnknownState, RollBackUnknownState, EndUnknownState, LogNext
<1>5. CASE UpdaterStep \/ UpdaterRequestFails \/ CrashServer \/ StartServer \/ ServerStarted
  BY <1>5 DEF UpdaterStep, UpdaterRequestFails, CrashServer, StartServer, ServerStarted, LogNext
<1>6. CASE \E p \in Parts : GrabOldPart(p) \/ LoadPart(p)
  BY <1>6 DEF GrabOldPart, LoadPart
<1> QED  BY <1>1, <1>2, <1>3, <1>4, <1>5, <1>6 DEF Next

(* Transactions over parts use the log as its specification allows         *)
(* (beginTransaction, commitTransaction, rollbackTransaction).             *)
THEOREM ImplementsLog == Spec => LogSpec
<1>1. Init => LogInit
  BY DEF Init
<1>2. UNCHANGED vars => UNCHANGED logVars
  BY DEF vars
<1> QED  BY <1>1, <1>2, NextLogStep, PTL DEF Spec, LogSpec

-----------------------------------------------------------------------------
(* The life of transactions. *)

LEMMA CSNFacts ==
  /\ UnknownCSN \in Nat /\ CommittingCSN \in Nat /\ PrehistoricCSN \in Nat /\ RolledBackCSN \in Nat
  /\ UnknownCSN < PrehistoricCSN /\ PrehistoricCSN < CommittingCSN
  /\ CommittingCSN < MaxReservedCSN
  /\ MaxReservedCSN \in Nat /\ MaxCSN \in Nat
  /\ MaxReservedCSN < MaxCSN /\ MaxCSN < RolledBackCSN
BY CSNAssumption, SMT DEF UnknownCSN, CommittingCSN, PrehistoricCSN, RolledBackCSN, MaxReservedCSN

(* Most steps of the log concern no transaction. *)
LifeOfLog == <<tid, in_use, committed, next_csn>>

LEMMA InitTxnInv == Init => TxnInv
<1> SUFFICES ASSUME Init PROVE TxnInv
  OBVIOUS
<1>1. <<>> \in Seq(Parts) /\ \A x : x \notin Range(<<>>)
  BY EmptyRange
<1>2. TxnTypes /\ AtHand
  BY <1>1 DEF Init, TxnTypes, AtHand, ClientStates, FinishStates, UnknownCSN, None
<1>3. RunningIsUnfinished
  BY <1>1, EmptyRange DEF Init, LogInit, RunningIsUnfinished, Running, Unique
<1>4. \A x \in Txns : Outcome(x)
  BY DEF Init, LogInit, Outcome, IsCommitted, IsReadOnly, Rollback, None
<1>5. CommitNumbers
  BY CSNAssumption DEF Init, LogInit, CommitNumbers, MaxReservedCSN
<1> QED  BY <1>2, <1>3, <1>4, <1>5 DEF TxnInv

(* Steps that change neither the state of a transaction nor its programs. *)
LEMMA SameTxnInv ==
  ASSUME TxnInv, UNCHANGED LifeOfLog, UNCHANGED <<csn, client, finish, todo, creating, removing>>,
         UNCHANGED <<new_part, covered>>, covered' \in [Txns -> Seq(Parts)],
         killer' \in [Txns -> {None, "won", "lost", "done"}]
  PROVE  TxnInv'
<1>1. TxnTypes' /\ AtHand'
  BY DEF TxnInv, TxnTypes, AtHand
<1>2. RunningIsUnfinished'
  BY DEF TxnInv, RunningIsUnfinished, Running, LifeOfLog
<1>3. \A x \in Txns : Outcome(x)'
  BY DEF TxnInv, Outcome, IsCommitted, IsReadOnly, LifeOfLog
<1>4. CommitNumbers'
  BY DEF TxnInv, CommitNumbers, LifeOfLog
<1> QED  BY <1>1, <1>2, <1>3, <1>4 DEF TxnInv

(* A step of one transaction leaves the others alone. *)
SameFor(y) ==
  /\ csn'[y] = csn[y] /\ client'[y] = client[y] /\ finish'[y] = finish[y]
  /\ todo'[y] = todo[y] /\ creating'[y] = creating[y] /\ removing'[y] = removing[y]
  /\ tid'[y] = tid[y]

LEMMA SameOutcome ==
  ASSUME NEW y \in Txns, Outcome(y), SameFor(y), IsCommitted(y)' <=> IsCommitted(y),
         committed \subseteq committed'
  PROVE  Outcome(y)'
BY DEF Outcome, SameFor, IsReadOnly

LEMMA BeginTxnInv ==
  ASSUME IInv, TxnInv, NEW x \in Txns, Begin(x)
  PROVE  TxnInv'
<1>1. TxnTypes' /\ AtHand'
  BY DEF TxnInv, TxnTypes, AtHand, Begin, ClientStates, writeVars, changes, ending
<1>a. x \notin Range(in_use) /\ in_use \in Seq(Txns) /\ tid \in [Txns -> TIDs]
  BY DEF IInv, LogTypeOK, TxnInv, RunningIsUnfinished, Running, Begin
<1>b. in_use' = Append(in_use, x) /\ committed' = committed /\ next_csn' = next_csn
  BY DEF Begin, BeginTransaction, keeper
<1>c. finish[x] = None /\ csn[x] = UnknownCSN
  BY DEF TxnInv, Outcome, Begin
<1>d. tid' = [tid EXCEPT ![x] = TransactionID(latest_snapshot, local_tid_counter + 1)] /\ alive
  BY DEF Begin, BeginTransaction
<1>e. tid'[x] # EmptyTID /\ \A y \in Txns : tid[y] # EmptyTID => tid[y] # tid'[x]
  BY <1>a, <1>d, NewTIDIsFresh DEF IInv
<1>2. RunningIsUnfinished'
  <2>1. Unique(in_use')
    BY <1>a, <1>b, UniqueAppend DEF TxnInv, RunningIsUnfinished
  <2>2. Range(in_use') = Range(in_use) \cup {x}
    BY <1>a, <1>b, SequenceFacts
  <2> QED  BY <1>a, <1>c, <1>d, <1>e, <2>1, <2>2
           DEF TxnInv, TxnTypes, RunningIsUnfinished, Running, Begin, None, ending
<1>3. \A y \in Txns : Outcome(y)'
  <2>1. ~IsCommitted(x)'
    BY <1>b, <1>e DEF IInv, CommitsHaveTxns, IsCommitted
  <2>2. Outcome(x)'
    BY <1>c, <2>1 DEF Outcome, Begin, TxnInv, TxnTypes, ending, Rollback, None
  <2>3. ASSUME NEW y \in Txns, y # x PROVE Outcome(y)'
    <3>1. SameFor(y) /\ (IsCommitted(y)' <=> IsCommitted(y))
      BY <1>a, <1>b, <1>d, <2>3 DEF SameFor, Begin, TxnInv, TxnTypes, ending, changes, IsCommitted
    <3> QED  BY <1>b, <3>1, SameOutcome DEF TxnInv
  <2> QED  BY <2>2, <2>3
<1>4. CommitNumbers'
  BY <1>b DEF TxnInv, CommitNumbers
<1> QED  BY <1>1, <1>2, <1>3, <1>4 DEF TxnInv

(* Steps of a query of the client. *)
LEMMA WorkTxnInv ==
  ASSUME TxnInv, NEW x \in Txns, NEW c \in Working,
         client[x] \in Working, client' = [client EXCEPT ![x] = c],
         UNCHANGED LifeOfLog, UNCHANGED <<csn, finish, todo, killer>>,
         TxnTypes', AtHand', \A y \in Txns : y # x => creating'[y] = creating[y] /\ removing'[y] = removing[y]
  PROVE  TxnInv'
<1>2. RunningIsUnfinished'
  BY DEF TxnInv, TxnTypes, RunningIsUnfinished, Running, LifeOfLog, Working
<1>3. \A y \in Txns : Outcome(y)'
  <2>2. Outcome(x)'
    BY DEF TxnInv, TxnTypes, Outcome, LifeOfLog, Working, Rollback, IsCommitted
  <2>3. ASSUME NEW y \in Txns, y # x PROVE Outcome(y)'
    <3>1. SameFor(y) /\ (IsCommitted(y)' <=> IsCommitted(y)) /\ committed' = committed
      BY <2>3 DEF SameFor, TxnInv, TxnTypes, IsCommitted, LifeOfLog
    <3> QED  BY <3>1, SameOutcome DEF TxnInv
  <2> QED  BY <2>2, <2>3
<1>4. CommitNumbers'
  BY DEF TxnInv, CommitNumbers, LifeOfLog
<1> QED  BY <1>2, <1>3, <1>4 DEF TxnInv

LEMMA LogVarsSame == UNCHANGED logVars => UNCHANGED LifeOfLog
BY DEF logVars, LifeOfLog, keeper, memory

LEMMA QueryTxnInv ==
  ASSUME TxnInv, NEW x \in Txns,
         \/ \E p \in Parts : Select(x, p) \/ WritePart(x, p)
         \/ SelectStep(x) \/ AddNewPart(x) \/ Truncate(x) \/ LockedStep(x) \/ UndoPart(x)
  PROVE  TxnInv'
<1> USE DEF txnVars, writeVars, changes, ending
<1>t. /\ csn \in [Txns -> Nat]
      /\ client \in [Txns -> ClientStates] /\ finish \in [Txns -> FinishStates]
      /\ killer \in [Txns -> {None, "won", "lost", "done"}]
      /\ creating \in [Txns -> Seq(Parts)] /\ removing \in [Txns -> Seq(Parts)]
      /\ covered \in [Txns -> Seq(Parts)] /\ todo \in [Txns -> Seq(Parts)]
      /\ new_part \in [Txns -> Parts \cup {None}]
      /\ \A y \in Txns : client[y] \in {"written", "undo"} => new_part[y] # None
      /\ \A y \in Txns : client[y] = "append" => covered[y] # <<>>
      /\ \A y \in Txns : finish[y] = "unlock" => todo[y] # <<>>
  BY DEF TxnInv, TxnTypes, AtHand
<1>0. \A c \in Working : c \in ClientStates
  BY DEF Working, ClientStates
<1>f. \A S \in SUBSET Parts : SetToSeq(S) \in Seq(Parts)
  <2> SUFFICES ASSUME NEW S \in SUBSET Parts PROVE SetToSeq(S) \in Seq(Parts)
    OBVIOUS
  <2>1. IsFiniteSet(S)
    BY TableAssumption, FS_Subset
  <2>2. SetToSeq(S) \in Seq(S)
    BY <2>1, SetToSeqFacts
  <2> QED  BY <2>2
<1>1. CASE \E p \in Parts : Select(x, p)
  BY <1>1, <1>t, SameTxnInv, LogVarsSame DEF Select
<1>2. CASE SelectStep(x)
  BY <1>2, <1>t, SameTxnInv, LogVarsSame DEF SelectStep
<1>s. ASSUME NEW s \in Seq(Parts), s # <<>>
      PROVE  Head(s) \in Parts /\ Tail(s) \in Seq(Parts) /\ Append(s, Head(s)) \in Seq(Parts)
  BY <1>s
<1>3. ASSUME NEW p \in Parts, WritePart(x, p) PROVE TxnInv'
  <2>1. TxnTypes' /\ AtHand'
    BY <1>3, <1>t, TableAssumption DEF WritePart, TxnTypes, AtHand, ClientStates
  <2>2. client[x] \in Working /\ client' = [client EXCEPT ![x] = "written"] /\ "written" \in Working
    BY <1>3 DEF WritePart, Idle, Working
  <2> QED  BY <1>3, <1>t, <2>1, <2>2, WorkTxnInv, LogVarsSame DEF WritePart
<1>4. CASE AddNewPart(x)
  <2>0. new_part[x] \in Parts /\ Append(creating[x], new_part[x]) \in Seq(Parts)
    BY <1>4, <1>t DEF AddNewPart
  <2>1. PartsToReplace(x, new_part[x]) \in Seq(Parts)
    <3>1. /\ CoveredBy(new_part[x], "Active") \in SUBSET Parts
          /\ {q \in CoveredBy(new_part[x], "Outdated") : VisibleTo(x, q)} \in SUBSET Parts
      BY <2>0, TableAssumption DEF CoveredBy
    <3>2. /\ SetToSeq(CoveredBy(new_part[x], "Active")) \in Seq(Parts)
          /\ SetToSeq({q \in CoveredBy(new_part[x], "Outdated") : VisibleTo(x, q)}) \in Seq(Parts)
      BY <1>f, <3>1
    <3> QED  BY <3>2 DEF PartsToReplace
  <2>2. covered' \in [Txns -> Seq(Parts)] /\ creating' \in [Txns -> Seq(Parts)]
    <3>1. /\ covered' = covered \/ covered' = [covered EXCEPT ![x] = PartsToReplace(x, new_part[x])]
          /\ creating' = creating \/ creating' = [creating EXCEPT ![x] = Append(creating[x], new_part[x])]
      BY <1>4 DEF AddNewPart
    <3> QED  BY <1>t, <2>0, <2>1, <3>1
  <2>3. PICK c \in {"undo", "remove"} : client' = [client EXCEPT ![x] = c]
    BY <1>4 DEF AddNewPart
  <2>4. client[x] = "written"
    BY <1>4 DEF AddNewPart
  <2>5. TxnTypes' /\ AtHand'
    BY <1>4, <1>t, <2>0, <2>2, <2>3, <2>4, TableAssumption DEF AddNewPart, TxnTypes, AtHand, ClientStates
  <2>6. /\ c \in Working /\ client[x] \in Working
        /\ \A y \in Txns : y # x => creating'[y] = creating[y] /\ removing'[y] = removing[y]
    BY <1>4, <1>t, <2>3, <2>4 DEF AddNewPart, Working
  <2>7. UNCHANGED logVars /\ UNCHANGED <<csn, finish, todo, killer>>
    BY <1>4 DEF AddNewPart
  <2> QED  BY <2>3, <2>5, <2>6, <2>7, WorkTxnInv, LogVarsSame
<1>5. CASE Truncate(x)
  <2>1. PICK S \in SUBSET Parts : covered' = [covered EXCEPT ![x] = SetToSeq(S)]
    BY <1>5 DEF Truncate
  <2>2. covered' \in [Txns -> Seq(Parts)]
    <3>1. SetToSeq(S) \in Seq(Parts)
      BY <1>f
    <3> QED  BY <1>t, <2>1, <3>1
  <2>3. client' = [client EXCEPT ![x] = "remove"] /\ client[x] = "ready"
    BY <1>5 DEF Truncate, Idle
  <2>5. TxnTypes' /\ AtHand'
    BY <1>5, <1>t, <2>2, <2>3 DEF Truncate, TxnTypes, AtHand, ClientStates
  <2>6. /\ "remove" \in Working /\ client[x] \in Working
        /\ \A y \in Txns : y # x => creating'[y] = creating[y] /\ removing'[y] = removing[y]
    BY <1>5, <2>3 DEF Truncate, Working
  <2>7. UNCHANGED logVars /\ UNCHANGED <<csn, finish, todo, killer>>
    BY <1>5 DEF Truncate
  <2> QED  BY <2>3, <2>5, <2>6, <2>7, WorkTxnInv, LogVarsSame
<1>6. CASE RemoveOldPart(x)
  <2>0. /\ client[x] = "remove" /\ covered[x] # <<>> /\ <<>> \in Seq(Parts)
        /\ Append(removing[x], Head(covered[x])) \in Seq(Parts)
    BY <1>6, <1>s, <1>t DEF RemoveOldPart
  <2>1. covered' \in [Txns -> Seq(Parts)] /\ removing' \in [Txns -> Seq(Parts)]
    <3>1. /\ covered' = covered \/ covered' = [covered EXCEPT ![x] = <<>>]
          /\ removing' = removing \/ removing' = [removing EXCEPT ![x] = Append(removing[x], Head(covered[x]))]
      BY <1>6 DEF RemoveOldPart
    <3> QED  BY <1>t, <2>0, <3>1
  <2>2. PICK c \in {"exception", "undo", "append"} :
          client' = [client EXCEPT ![x] = c] /\ (c = "undo" => ~Truncating(x))
    BY <1>6 DEF RemoveOldPart
  <2>5. TxnTypes' /\ AtHand'
    BY <1>6, <1>t, <2>1, <2>2 DEF RemoveOldPart, TxnTypes, AtHand, ClientStates, Truncating
  <2>6. /\ c \in Working /\ client[x] \in Working
        /\ \A y \in Txns : y # x => creating'[y] = creating[y] /\ removing'[y] = removing[y]
    BY <1>6, <1>t, <2>0, <2>2 DEF RemoveOldPart, Working
  <2>7. UNCHANGED logVars /\ UNCHANGED <<csn, finish, todo, killer>>
    BY <1>6 DEF RemoveOldPart
  <2> QED  BY <2>2, <2>5, <2>6, <2>7, WorkTxnInv, LogVarsSame
<1>7. CASE AppendRemoval(x) \/ SkipRolledBack(x)
  <2>1. Tail(covered[x]) \in Seq(Parts)
    BY <1>7, <1>s, <1>t DEF AppendRemoval, SkipRolledBack
  <2>2. covered' \in [Txns -> Seq(Parts)]
    BY <1>7, <1>t, <2>1 DEF AppendRemoval, SkipRolledBack
  <2>3. client[x] \in {"append", "remove"} /\ client' = [client EXCEPT ![x] = "remove"]
    BY <1>7, <1>t DEF AppendRemoval, SkipRolledBack
  <2>5. TxnTypes' /\ AtHand'
    BY <1>7, <1>t, <2>2, <2>3 DEF AppendRemoval, SkipRolledBack, TxnTypes, AtHand, ClientStates
  <2>6. /\ "remove" \in Working /\ client[x] \in Working
        /\ \A y \in Txns : y # x => creating'[y] = creating[y] /\ removing'[y] = removing[y]
    BY <1>7, <2>3 DEF AppendRemoval, SkipRolledBack, Working
  <2>7. UNCHANGED logVars /\ UNCHANGED <<csn, finish, todo, killer>>
    BY <1>7 DEF AppendRemoval, SkipRolledBack
  <2> QED  BY <2>3, <2>5, <2>6, <2>7, WorkTxnInv, LogVarsSame
<1>8. CASE TruncateEnds(x) \/ ActivatePart(x) \/ UndoPart(x)
  <2>3. PICK c \in {"ready", "exception"} : client' = [client EXCEPT ![x] = c]
    BY <1>8 DEF TruncateEnds, ActivatePart, UndoPart
  <2>5. TxnTypes' /\ AtHand'
    BY <1>8, <1>t, <2>3 DEF TruncateEnds, ActivatePart, UndoPart, TxnTypes, AtHand, ClientStates
  <2>6. /\ c \in Working /\ client[x] \in Working
        /\ \A y \in Txns : y # x => creating'[y] = creating[y] /\ removing'[y] = removing[y]
    BY <1>8, <2>3 DEF TruncateEnds, ActivatePart, UndoPart, Working
  <2>7. UNCHANGED logVars /\ UNCHANGED <<csn, finish, todo, killer>>
    BY <1>8 DEF TruncateEnds, ActivatePart, UndoPart
  <2> QED  BY <2>3, <2>5, <2>6, <2>7, WorkTxnInv, LogVarsSame
<1> QED  BY <1>1, <1>2, <1>3, <1>4, <1>5, <1>6, <1>7, <1>8 DEF LockedStep

(* A step of the end of x that does not touch the log. *)
LEMMA LocalTxnInv ==
  ASSUME TxnInv, NEW x \in Txns, UNCHANGED LifeOfLog, TxnTypes', AtHand', Outcome(x)',
         client'[x] = "idle" <=> client[x] = "idle", finish'[x] = "done" <=> finish[x] = "done",
         \A y \in Txns : y # x => SameFor(y)
  PROVE  TxnInv'
<1>1. RunningIsUnfinished'
  BY DEF TxnInv, RunningIsUnfinished, Running, LifeOfLog, SameFor
<1>2. ASSUME NEW y \in Txns PROVE Outcome(y)'
  BY <1>2, SameOutcome DEF TxnInv, LifeOfLog, IsCommitted
<1>3. CommitNumbers'
  BY DEF TxnInv, CommitNumbers, LifeOfLog
<1> QED  BY <1>1, <1>2, <1>3 DEF TxnInv

LEMMA RollbackTxnInv ==
  ASSUME TxnInv, NEW x \in Txns, ClientRollsBack(x) \/ Kill(x) \/ RollBackUnknownState(x)
  PROVE  TxnInv'
<1>1. UNCHANGED LifeOfLog /\ UNCHANGED <<creating, removing, covered, new_part>>
  BY LogVarsSame DEF ClientRollsBack, Kill, RollBackUnknownState, writeVars, changes
<1>2. \/ csn[x] = UnknownCSN /\ StartRollback(x)
      \/ UNCHANGED <<csn, finish, todo>> /\ ClientRollsBack(x) /\ csn[x] # UnknownCSN
  BY DEF ClientRollsBack, Kill, RollBackUnknownState, StartRollback
<1>3. \/ UNCHANGED client
      \/ client' = [client EXCEPT ![x] = "end"] /\ client[x] \in {"ready", "exception"}
  BY DEF ClientRollsBack, Kill, RollBackUnknownState, Idle
<1>4. finish[x] # "done" \/ finish' = finish
  BY DEF TxnInv, RunningIsUnfinished, Outcome, ClientRollsBack, Kill, RollBackUnknownState, Idle, None
<1>5. TxnTypes' /\ AtHand'
  <2>1. killer' \in [Txns -> {None, "won", "lost", "done"}]
    BY DEF TxnInv, TxnTypes, ClientRollsBack, Kill, RollBackUnknownState
  <2>2. client' \in [Txns -> ClientStates]
    BY <1>3 DEF TxnInv, TxnTypes, ClientStates
  <2>3. csn' \in [Txns -> Nat] /\ finish' \in [Txns -> FinishStates] /\ todo' \in [Txns -> Seq(Parts)]
    BY <1>2, CSNFacts DEF TxnInv, TxnTypes, StartRollback, FinishStates
  <2>4. TxnTypes'
    BY <1>1, <2>1, <2>2, <2>3 DEF TxnInv, TxnTypes
  <2>5. /\ \A y \in Txns : client'[y] \in {"written", "undo", "append"} => client'[y] = client[y]
        /\ \A y \in Txns : finish'[y] = "unlock" => finish'[y] = finish[y] /\ todo'[y] = todo[y]
    BY <1>2, <1>3 DEF TxnInv, TxnTypes, StartRollback
  <2> QED  BY <1>1, <2>4, <2>5 DEF TxnInv, AtHand
<1>6. Outcome(x)'
  <2>1. /\ IsCommitted(x)' <=> IsCommitted(x)
        /\ client'[x] = client[x] \/ (client'[x] = "end" /\ client[x] \in {"ready", "exception"})
    BY <1>1, <1>3 DEF IsCommitted, LifeOfLog, TxnInv, TxnTypes
  <2>2. Outcome(x) /\ csn \in [Txns -> Nat] /\ finish \in [Txns -> FinishStates]
    BY DEF TxnInv, TxnTypes
  <2>3. CASE csn[x] = UnknownCSN /\ StartRollback(x)
    <3>1. csn'[x] = RolledBackCSN /\ finish'[x] = "mark"
      BY <2>2, <2>3 DEF StartRollback
    <3>2. client[x] # "idle"
      BY DEF TxnInv, RunningIsUnfinished, Outcome, ClientRollsBack, Kill, RollBackUnknownState, Idle
    <3> QED  BY <2>1, <2>2, <2>3, <3>1, <3>2, CSNFacts DEF Outcome, Rollback
  <2>4. CASE UNCHANGED <<csn, finish, todo>> /\ ClientRollsBack(x) /\ csn[x] # UnknownCSN
    BY <1>1, <2>1, <2>2, <2>4, CSNFacts DEF Outcome, Rollback, IsReadOnly, LifeOfLog
  <2> QED  BY <1>2, <2>3, <2>4
<1>7. \A y \in Txns : y # x => SameFor(y)
  BY <1>1, <1>2, <1>3 DEF TxnInv, TxnTypes, SameFor, StartRollback, LifeOfLog
<1>8. client'[x] = "idle" <=> client[x] = "idle"
  BY <1>3 DEF TxnInv, TxnTypes
<1>9. finish'[x] = "done" <=> finish[x] = "done"
  BY <1>2, <1>4 DEF TxnInv, TxnTypes, StartRollback
<1> QED  BY <1>1, <1>5, <1>6, <1>7, <1>8, <1>9, LocalTxnInv

LEMMA KillFailsTxnInv ==
  ASSUME TxnInv, NEW x \in Txns, KillFails(x) \/ KillReturns(x)
  PROVE  TxnInv'
<1>1. /\ UNCHANGED LifeOfLog /\ UNCHANGED <<csn, client, finish, todo, creating, removing, new_part, covered>>
      /\ killer' \in [Txns -> {None, "won", "lost", "done"}]
  BY LogVarsSame DEF KillFails, KillReturns, writeVars, changes, ending, TxnInv, TxnTypes
<1> QED  BY <1>1, SameTxnInv DEF TxnInv, TxnTypes

LEMMA BeforeCommitTxnInv ==
  ASSUME TxnInv, NEW x \in Txns, BeforeCommit(x)
  PROVE  TxnInv'
<1>1. UNCHANGED LifeOfLog /\ UNCHANGED <<creating, removing, covered, new_part, todo, killer>>
  BY LogVarsSame DEF BeforeCommit, writeVars, changes
<1>2. client[x] = "ready"
  BY DEF BeforeCommit, Idle
<1>5. TxnTypes' /\ AtHand'
  <2>1. csn' \in [Txns -> Nat] /\ client' \in [Txns -> ClientStates] /\ finish' \in [Txns -> FinishStates]
    BY CSNFacts DEF TxnInv, TxnTypes, BeforeCommit, ClientStates, FinishStates
  <2>2. \A y \in Txns : client'[y] \in {"written", "undo", "append"} => client'[y] = client[y]
    BY DEF TxnInv, TxnTypes, BeforeCommit
  <2>3. \A y \in Txns : finish'[y] = "unlock" => finish'[y] = finish[y]
    BY DEF TxnInv, TxnTypes, BeforeCommit
  <2> QED  BY <1>1, <2>1, <2>2, <2>3 DEF TxnInv, TxnTypes, AtHand
<1>6. Outcome(x)'
  BY <1>1, <1>2, CSNFacts DEF TxnInv, TxnTypes, Outcome, BeforeCommit, IsCommitted, LifeOfLog, IsReadOnly, Rollback, None
<1>7. \A y \in Txns : y # x => SameFor(y)
  BY <1>1 DEF TxnInv, TxnTypes, SameFor, BeforeCommit, LifeOfLog
<1>8. client'[x] = "idle" <=> client[x] = "idle"
  BY <1>2 DEF TxnInv, TxnTypes, BeforeCommit
<1>9. finish'[x] = "done" <=> finish[x] = "done"
  BY <1>2 DEF TxnInv, TxnTypes, Outcome, BeforeCommit, None
<1> QED  BY <1>1, <1>5, <1>6, <1>7, <1>8, <1>9, LocalTxnInv

(* A new entry commits its transaction and no other one. *)
LEMMA CreateEntryFacts ==
  ASSUME IInv, TxnInv, NEW x \in Txns, CreateEntry(x)
  PROVE  /\ UNCHANGED <<tid, in_use>> /\ committed \subseteq committed' /\ CommitNumbers'
         /\ \A y \in Txns : y # x => (IsCommitted(y)' <=> IsCommitted(y))
         /\ IsCommitted(x)'
<1>1. /\ committed' = committed \cup {[csn |-> next_csn, tid |-> tid[x]]}
      /\ next_csn' = next_csn + 1 /\ next_csn <= MaxCSN
      /\ UNCHANGED <<tid, in_use>> /\ x \in Range(in_use)
  BY DEF CreateEntry, memory
<1>2. tid[x] # EmptyTID
  BY <1>1 DEF TxnInv, RunningIsUnfinished, Running
<1>3. CommitNumbers'
  BY <1>1, CSNAssumption DEF TxnInv, CommitNumbers, IInv, LogTypeOK, MaxReservedCSN
<1>4. \A y \in Txns : y # x => tid[y] # tid[x]
  BY <1>2 DEF IInv, TIDsAreUnique
<1>5. \A y \in Txns : y # x => (IsCommitted(y)' <=> IsCommitted(y))
  BY <1>1, <1>4 DEF IsCommitted
<1>6. IsCommitted(x)'
  <2>1. PICK e : e = [csn |-> next_csn, tid |-> tid[x]]
    OBVIOUS
  <2>2. e \in committed' /\ e.tid = tid'[x]
    BY <1>1, <2>1
  <2> QED  BY <2>2 DEF IsCommitted
<1> QED  BY <1>1, <1>3, <1>5, <1>6

LEMMA CommitTxnInv ==
  ASSUME IInv, TxnInv, NEW x \in Txns, Commit(x) \/ (CommitLost(x) /\ CommitPointLost(x))
  PROVE  TxnInv'
<1>1. /\ CreateEntry(x) /\ client[x] = "commit"
      /\ UNCHANGED <<creating, removing, covered, new_part, todo, killer, csn>>
  BY DEF Commit, CommitPoint, CommitLost, CommitPointLost, writeVars, changes, ending
<1>2. \/ client' = [client EXCEPT ![x] = "end"] /\ finish' = [finish EXCEPT ![x] = "committed"]
      \/ client' = [client EXCEPT ![x] = "lost"] /\ finish' = finish
  BY DEF Commit, CommitLost, ending
<1>3. /\ UNCHANGED <<tid, in_use>> /\ committed \subseteq committed' /\ CommitNumbers'
      /\ IsCommitted(x)'
  BY <1>1, CreateEntryFacts
<1>4. \A y \in Txns : y # x => (IsCommitted(y)' <=> IsCommitted(y))
  BY <1>1, CreateEntryFacts
<1>5. TxnTypes' /\ AtHand'
  BY <1>1, <1>2, CSNFacts DEF TxnInv, TxnTypes, AtHand, ClientStates, FinishStates
<1>6. csn[x] = CommittingCSN /\ finish[x] = None
  BY <1>1 DEF TxnInv, Outcome
<1>7. Outcome(x)'
  BY <1>1, <1>2, <1>3, <1>6, CSNFacts DEF TxnInv, TxnTypes, Outcome, Rollback, None
<1>8. ASSUME NEW y \in Txns, y # x PROVE Outcome(y)'
  <2>1. SameFor(y)
    BY <1>1, <1>2, <1>3, <1>8 DEF TxnInv, TxnTypes, SameFor
  <2> QED  BY <1>3, <1>4, <1>8, <2>1, SameOutcome DEF TxnInv
<1>9. RunningIsUnfinished'
  BY <1>1, <1>2, <1>3, <1>6 DEF TxnInv, TxnTypes, RunningIsUnfinished, Running, None
<1> QED  BY <1>3, <1>5, <1>7, <1>8, <1>9 DEF TxnInv

LEMMA CommitFailsTxnInv ==
  ASSUME TxnInv, NEW x \in Txns,
         (CommitLost(x) /\ CommitFails(x)) \/ Postpone(x) \/ CommitRefused(x)
  PROVE  TxnInv'
<1>1. UNCHANGED LifeOfLog /\ UNCHANGED <<creating, removing, covered, new_part, todo, killer>>
  BY DEF CommitLost, CommitFails, Postpone, PostponeFinalization, CommitRefused, writeVars, changes, ending,
     LifeOfLog, keeper, memory
<1>2. /\ client[x] \in {"commit", "lost"}
      /\ \/ client' = [client EXCEPT ![x] = "lost"] /\ UNCHANGED <<csn, finish>>
         \/ client' = [client EXCEPT ![x] = "end"] /\ finish' = [finish EXCEPT ![x] = "unknown"] /\ csn' = csn
         \/ /\ client' = [client EXCEPT ![x] = "exception"] /\ csn' = [csn EXCEPT ![x] = UnknownCSN]
            /\ finish' = finish /\ ~IsCommitted(x)
  BY DEF CommitLost, Postpone, CommitRefused, CommitFails, ending
<1>3. csn[x] = CommittingCSN /\ finish[x] = None
  BY <1>2 DEF TxnInv, Outcome
<1>5. TxnTypes' /\ AtHand'
  <2>1. csn' \in [Txns -> Nat] /\ client' \in [Txns -> ClientStates] /\ finish' \in [Txns -> FinishStates]
    BY <1>2, CSNFacts DEF TxnInv, TxnTypes, ClientStates, FinishStates
  <2>2. \A y \in Txns : client'[y] \in {"written", "undo", "append"} => client'[y] = client[y]
    BY <1>2 DEF TxnInv, TxnTypes
  <2>3. \A y \in Txns : finish'[y] = "unlock" => finish'[y] = finish[y]
    BY <1>2 DEF TxnInv, TxnTypes
  <2> QED  BY <1>1, <2>1, <2>2, <2>3 DEF TxnInv, TxnTypes, AtHand
<1>6. Outcome(x)'
  BY <1>1, <1>2, <1>3, CSNFacts DEF TxnInv, TxnTypes, Outcome, IsCommitted, LifeOfLog, Rollback, None
<1>7. \A y \in Txns : y # x => SameFor(y)
  BY <1>1, <1>2 DEF TxnInv, TxnTypes, SameFor, LifeOfLog
<1>8. client'[x] = "idle" <=> client[x] = "idle"
  BY <1>2 DEF TxnInv, TxnTypes
<1>9. finish'[x] = "done" <=> finish[x] = "done"
  BY <1>2, <1>3 DEF TxnInv, TxnTypes, None
<1> QED  BY <1>1, <1>5, <1>6, <1>7, <1>8, <1>9, LocalTxnInv

(* Steps of the commit or rollback over the parts. *)
FinishFrame ==
  UNCHANGED LifeOfLog /\ UNCHANGED <<creating, removing, covered, new_part, client, killer, csn>>

LEMMA NextPartTxnInv ==
  ASSUME TxnInv, NEW x \in Txns, FinishFrame, NextPart(x), todo[x] # <<>>, finish[x] # "unlock"
  PROVE  TxnInv'
<1>1. todo \in [Txns -> Seq(Parts)] /\ Tail(todo[x]) \in Seq(Parts)
  BY DEF TxnInv, TxnTypes
<1>2. TxnTypes' /\ AtHand'
  BY <1>1 DEF TxnInv, TxnTypes, AtHand, FinishFrame, NextPart
<1>3. Outcome(x)'
  BY DEF TxnInv, Outcome, FinishFrame, NextPart, IsCommitted, IsReadOnly, LifeOfLog
<1>4. \A y \in Txns : y # x => SameFor(y)
  BY <1>1 DEF SameFor, FinishFrame, NextPart, LifeOfLog
<1> QED  BY <1>2, <1>3, <1>4, LocalTxnInv DEF FinishFrame, NextPart

LEMMA NextPhaseTxnInv ==
  ASSUME TxnInv, NEW x \in Txns, FinishFrame, NEW f \in FinishStates, NEW q \in Seq(Parts),
         NextPhase(x, f, q), f # "done", finish[x] # "done", f = "unlock" => q # <<>>,
         \/ /\ finish[x] = "stamp_created" /\ f = "stamp_removed"
            /\ IsReadOnly(x) => q = <<>>
         \/ finish[x] \in {"stamp_removed", "clear"} /\ f = "release"
         \/ finish[x] \in Rollback /\ f \in Rollback
  PROVE  TxnInv'
<1>1. todo \in [Txns -> Seq(Parts)] /\ finish \in [Txns -> FinishStates]
  BY DEF TxnInv, TxnTypes
<1>2. TxnTypes' /\ AtHand'
  BY <1>1 DEF TxnInv, TxnTypes, AtHand, FinishFrame, NextPhase
<1>3. Outcome(x)'
  <2>1. finish'[x] = f /\ todo'[x] = q /\ Outcome(x)
    BY <1>1 DEF NextPhase, TxnInv
  <2>2. (IsCommitted(x)' <=> IsCommitted(x)) /\ (IsReadOnly(x)' <=> IsReadOnly(x))
    BY DEF FinishFrame, IsCommitted, IsReadOnly, LifeOfLog
  <2> QED  BY <2>1, <2>2 DEF Outcome, FinishFrame, LifeOfLog, Rollback, None
<1>4. \A y \in Txns : y # x => SameFor(y)
  BY <1>1 DEF SameFor, FinishFrame, NextPhase, LifeOfLog
<1>5. finish'[x] = f
  BY <1>1 DEF NextPhase
<1> QED  BY <1>2, <1>3, <1>4, <1>5, LocalTxnInv DEF FinishFrame

LEMMA PhaseTxnInv ==
  ASSUME TxnInv, NEW x \in Txns,
         \/ StampCreated(x) \/ StampRemoved(x) \/ MarkRolledBack(x) \/ OutdateCreated(x)
         \/ RestoreRemoved(x) \/ ClearRemoved(x) \/ UnlockRemoved(x)
  PROVE  TxnInv'
<1>1. FinishFrame
  BY LogVarsSame DEF StampCreated, StampRemoved, MarkRolledBack, OutdateCreated, RestoreRemoved, ClearRemoved,
     UnlockRemoved, writeVars, changes, FinishFrame
<1>2. CASE NextPart(x) /\ todo[x] # <<>> /\ finish[x] # "unlock"
  BY <1>1, <1>2, NextPartTxnInv
<1>t. creating[x] \in Seq(Parts) /\ removing[x] \in Seq(Parts) /\ <<>> \in Seq(Parts) /\ todo[x] \in Seq(Parts)
  BY DEF TxnInv, TxnTypes
<1>f. \A f \in {"stamp_removed", "release", "outdate", "activate", "clear", "unlock"} : f \in FinishStates /\ f # "done"
  BY DEF FinishStates
<1>3. CASE StampCreated(x) /\ NextPhase(x, "stamp_removed", removing[x])
  BY <1>1, <1>3, <1>t, <1>f, NextPhaseTxnInv DEF StampCreated, IsReadOnly
<1>4. CASE finish[x] \in {"stamp_removed", "clear"} /\ NextPhase(x, "release", <<>>)
  BY <1>1, <1>4, <1>t, <1>f, NextPhaseTxnInv
<1>5. CASE MarkRolledBack(x) /\ NextPhase(x, "outdate", creating[x])
  BY <1>1, <1>5, <1>t, <1>f, NextPhaseTxnInv DEF MarkRolledBack, Rollback
<1>6. CASE OutdateCreated(x) /\ NextPhase(x, "activate", removing[x])
  BY <1>1, <1>6, <1>t, <1>f, NextPhaseTxnInv DEF OutdateCreated, Rollback
<1>7. CASE RestoreRemoved(x) /\ NextPhase(x, "clear", removing[x])
  BY <1>1, <1>7, <1>t, <1>f, NextPhaseTxnInv DEF RestoreRemoved, Rollback
<1>8. CASE ClearRemoved(x) /\ NextPhase(x, "unlock", todo[x]) /\ todo[x] # <<>>
  BY <1>1, <1>8, <1>t, <1>f, NextPhaseTxnInv DEF ClearRemoved, Rollback
<1>9. CASE UnlockRemoved(x)
  <2>1. Tail(todo[x]) \in Seq(Parts)
    BY <1>9, <1>t DEF UnlockRemoved, TxnInv, AtHand
  <2> QED  BY <1>1, <1>9, <2>1, <1>f, NextPhaseTxnInv DEF UnlockRemoved, Rollback
<1> QED  BY <1>2, <1>3, <1>4, <1>5, <1>6, <1>7, <1>8, <1>9
         DEF StampCreated, StampRemoved, MarkRolledBack, OutdateCreated, RestoreRemoved, ClearRemoved

LEMMA ReleaseTxnInv ==
  ASSUME IInv, TxnInv, NEW x \in Txns, Release(x)
  PROVE  TxnInv'
<1>1. /\ UNCHANGED <<creating, removing, covered, new_part, client, killer, csn, todo, tid, committed, next_csn>>
      /\ finish[x] = "release" /\ finish' = [finish EXCEPT ![x] = "done"]
  BY DEF Release, ReleaseSnapshot, writeVars, changes, keeper
<1>2. PICK i \in DOMAIN in_use : in_use[i] = x /\ in_use' = RemoveAt(in_use, i)
  BY DEF Release, ReleaseSnapshot
<1>3. Unique(in_use') /\ Range(in_use') = Range(in_use) \ {x}
  BY <1>2, RemoveAtUnique DEF IInv, LogTypeOK, TxnInv, RunningIsUnfinished
<1>4. TxnTypes' /\ AtHand'
  BY <1>1 DEF TxnInv, TxnTypes, AtHand, FinishStates
<1>5. RunningIsUnfinished'
  BY <1>1, <1>3 DEF TxnInv, TxnTypes, RunningIsUnfinished, Running
<1>6. ASSUME NEW y \in Txns PROVE Outcome(y)'
  BY <1>1 DEF TxnInv, TxnTypes, Outcome, IsCommitted, IsReadOnly, Rollback, None
<1>7. CommitNumbers'
  BY <1>1 DEF TxnInv, CommitNumbers
<1> QED  BY <1>4, <1>5, <1>6, <1>7 DEF TxnInv

(* The snapshot of a running transaction is a number of the log. *)
LEMMA SnapshotNumbers ==
  ASSUME IInv, TxnInv, NEW x \in Txns, Running(x)
  PROVE  /\ alive /\ tid[x] # EmptyTID /\ tid[x] # PrehistoricTID
         /\ Snapshot(x) \in Nat /\ MaxReservedCSN <= Snapshot(x) /\ Snapshot(x) <= MaxCSN
<1>1. alive
  BY EmptyRange DEF IInv, DeadIsEmpty, Running
<1>2. /\ MaxReservedCSN <= zk_tail_ptr /\ zk_tail_ptr <= Snapshot(x) /\ Snapshot(x) <= latest_snapshot
      /\ latest_snapshot <= last_loaded_entry /\ last_loaded_entry < next_csn /\ next_csn <= MaxCSN + 1
  BY <1>1 DEF IInv, KeeperNumbers, TailIsBehindSnapshots, LoadingPhase, TxnInv, CommitNumbers, Running
<1>3. /\ zk_tail_ptr \in Nat /\ latest_snapshot \in Nat /\ last_loaded_entry \in Nat /\ next_csn \in Nat
      /\ Snapshot(x) \in Nat
  BY TIDFacts DEF IInv, LogTypeOK, Snapshot
<1>4. tid[x] # EmptyTID
  BY DEF TxnInv, RunningIsUnfinished
<1>5. MaxReservedCSN <= Snapshot(x) /\ Snapshot(x) <= MaxCSN
  BY <1>2, <1>3, CSNFacts
<1>6. PrehistoricTID.start_csn = PrehistoricCSN
  BY CSNFacts, TIDFacts DEF PrehistoricTID
<1>7. tid[x] # PrehistoricTID
  BY <1>3, <1>5, <1>6, CSNFacts DEF Snapshot
<1> QED  BY <1>1, <1>3, <1>4, <1>5, <1>7

(* The CSN that a commit gets. *)
LEMMA AllocatedCSNFacts ==
  ASSUME IInv, TxnInv, NEW x \in Txns, finish[x] = "committed"
  PROVE  /\ AllocatedCSN(x) \in Nat /\ MaxReservedCSN <= AllocatedCSN(x) /\ AllocatedCSN(x) <= MaxCSN
         /\ ~IsReadOnly(x) => [csn |-> AllocatedCSN(x), tid |-> tid[x]] \in committed
<1>1. Running(x)
  BY DEF TxnInv, RunningIsUnfinished, Outcome
<1>2. CASE IsReadOnly(x)
  BY <1>1, <1>2, SnapshotNumbers DEF AllocatedCSN
<1>3. CASE ~IsReadOnly(x)
  <2>1. \E e \in committed : e.tid = tid[x]
    BY <1>3 DEF TxnInv, Outcome, IsCommitted
  <2>2. PICK e : e = CHOOSE d \in committed : d.tid = tid[x]
    OBVIOUS
  <2>3. e \in committed /\ e.tid = tid[x]
    BY <2>1, <2>2
  <2>4. AllocatedCSN(x) = e.csn
    BY <1>3, <2>2 DEF AllocatedCSN
  <2>5. e \in Entries /\ e = [csn |-> e.csn, tid |-> e.tid] /\ e.csn \in Nat
    BY <2>3 DEF IInv, LogTypeOK, Entries
  <2>6. MaxReservedCSN < e.csn /\ e.csn <= MaxCSN
    BY <2>3 DEF TxnInv, CommitNumbers
  <2> QED  BY <1>3, <2>3, <2>4, <2>5, <2>6, CSNFacts
<1> QED  BY <1>2, <1>3

LEMMA AfterCommitTxnInv ==
  ASSUME IInv, TxnInv, NEW x \in Txns, AfterCommit(x)
  PROVE  TxnInv'
<1>1. /\ UNCHANGED LifeOfLog /\ UNCHANGED <<creating, removing, covered, new_part, client, killer>>
      /\ finish[x] = "committed" /\ finish' = [finish EXCEPT ![x] = "stamp_created"]
      /\ csn' = [csn EXCEPT ![x] = AllocatedCSN(x)] /\ todo' = [todo EXCEPT ![x] = creating[x]]
  BY LogVarsSame DEF AfterCommit, writeVars, changes
<1>2. AllocatedCSN(x) \in Nat /\ MaxReservedCSN <= AllocatedCSN(x) /\ AllocatedCSN(x) <= MaxCSN
  BY <1>1, AllocatedCSNFacts
<1>3. ~IsReadOnly(x) => [csn |-> AllocatedCSN(x), tid |-> tid[x]] \in committed
  BY <1>1, AllocatedCSNFacts
<1>5. TxnTypes' /\ AtHand'
  BY <1>1, <1>2 DEF TxnInv, TxnTypes, AtHand, FinishStates
<1>6. Outcome(x)'
  <2>1. Outcome(x) /\ csn'[x] = AllocatedCSN(x) /\ finish'[x] = "stamp_created" /\ todo'[x] = creating[x]
    BY <1>1 DEF TxnInv, TxnTypes
  <2>2. AllocatedCSN(x) # UnknownCSN /\ AllocatedCSN(x) # RolledBackCSN
    BY <1>2, CSNFacts
  <2>3. client'[x] = "end"
    BY <1>1, <2>1 DEF Outcome
  <2>4. (IsCommitted(x)' <=> IsCommitted(x)) /\ (IsReadOnly(x)' <=> IsReadOnly(x))
        /\ tid' = tid /\ committed' = committed
    BY <1>1 DEF IsCommitted, IsReadOnly, LifeOfLog
  <2>5. \/ IsReadOnly(x)' /\ todo'[x] = <<>>
        \/ [csn |-> csn'[x], tid |-> tid'[x]] \in committed'
    BY <1>3, <2>1, <2>4 DEF IsReadOnly
  <2> QED  BY <2>1, <2>2, <2>3, <2>5 DEF Outcome, Rollback
<1>7. \A y \in Txns : y # x => SameFor(y)
  BY <1>1 DEF TxnInv, TxnTypes, SameFor, LifeOfLog
<1>8. client'[x] = "idle" <=> client[x] = "idle"
  BY <1>1 DEF TxnInv, TxnTypes
<1>9. finish'[x] = "done" <=> finish[x] = "done"
  BY <1>1 DEF TxnInv, TxnTypes
<1> QED  BY <1>1, <1>5, <1>6, <1>7, <1>8, <1>9, LocalTxnInv

(* What the thread finds about a transaction is its outcome. *)
LEMMA DecideTxnInv ==
  ASSUME IInv, TxnInv, NEW x \in Txns, DecideUnknownState(x)
  PROVE  TxnInv'
<1> DEFINE found == GetCSN(tid[x]) # UnknownCSN
<1>1. /\ UNCHANGED LifeOfLog /\ UNCHANGED <<creating, removing, covered, new_part, client, killer, todo>>
      /\ finish[x] = "unknown" /\ x = Head(finalizing) /\ finalizing # <<>>
      /\ finish' = [finish EXCEPT ![x] = IF found THEN "committed" ELSE "unguarded"]
      /\ csn' = [csn EXCEPT ![x] = IF found THEN csn[x] ELSE UnknownCSN]
  BY LogVarsSame DEF DecideUnknownState, writeVars, changes
<1>2. Running(x) /\ client[x] = "end" /\ csn[x] = CommittingCSN
  BY <1>1 DEF TxnInv, RunningIsUnfinished, Outcome
<1>3. alive /\ tid[x] # PrehistoricTID
  BY <1>2, SnapshotNumbers
<1>4. x \in Range(finalizing) \cap Range(in_use)
  BY <1>1, <1>2, SequenceFacts DEF IInv, LogTypeOK, Running
<1>5. \A e \in committed : e.tid = tid[x] => e \in tid_to_csn
  BY <1>3, <1>4, TakenListIsDecided DEF UnknownStateIsDecided
<1>6. tid_to_csn \subseteq committed
  BY <1>3 DEF IInv, LookupsAreRight
<1>7. found <=> IsCommitted(x)
  <2>1. CASE IsCommitted(x)
    <3>1. \E e \in tid_to_csn : e.tid = tid[x]
      BY <1>5, <2>1 DEF IsCommitted
    <3>2. PICK e : e = CHOOSE d \in tid_to_csn : d.tid = tid[x]
      OBVIOUS
    <3>3. e \in committed /\ GetCSN(tid[x]) = e.csn
      BY <1>3, <1>6, <3>1, <3>2 DEF GetCSN
    <3>4. MaxReservedCSN < e.csn /\ e.csn \in Nat
      BY <3>3 DEF TxnInv, CommitNumbers, IInv, LogTypeOK, Entries
    <3> QED  BY <2>1, <3>3, <3>4, CSNFacts
  <2>2. CASE ~IsCommitted(x)
    BY <1>3, <1>6, <2>2 DEF GetCSN, IsCommitted
  <2> QED  BY <2>1, <2>2
<1> HIDE DEF found
<1>8. TxnTypes' /\ AtHand'
  <2>1. csn' \in [Txns -> Nat] /\ finish' \in [Txns -> FinishStates]
    BY <1>1, CSNFacts DEF TxnInv, TxnTypes, FinishStates
  <2>2. \A y \in Txns : finish'[y] = "unlock" => finish'[y] = finish[y]
    BY <1>1 DEF TxnInv, TxnTypes
  <2> QED  BY <1>1, <2>1, <2>2 DEF TxnInv, TxnTypes, AtHand
<1>9. Outcome(x)'
  <2>1. finish'[x] = (IF found THEN "committed" ELSE "unguarded") /\ csn'[x] = (IF found THEN csn[x] ELSE UnknownCSN)
    BY <1>1 DEF TxnInv, TxnTypes
  <2>2. IsCommitted(x)' <=> IsCommitted(x)
    BY <1>1 DEF IsCommitted, LifeOfLog
  <2> QED  BY <1>1, <1>2, <1>7, <2>1, <2>2, CSNFacts DEF Outcome, Rollback
<1>10. \A y \in Txns : y # x => SameFor(y)
  BY <1>1 DEF TxnInv, TxnTypes, SameFor, LifeOfLog
<1>11. finish'[x] = "done" <=> finish[x] = "done"
  BY <1>1 DEF TxnInv, TxnTypes
<1> QED  BY <1>1, <1>8, <1>9, <1>10, <1>11, LocalTxnInv

LEMMA CrashTxnInv ==
  ASSUME TxnInv, CrashServer
  PROVE  TxnInv'
<1>1. /\ UNCHANGED <<tid, committed, next_csn, csn, new_part, creating, removing>> /\ in_use' = <<>>
      /\ client' = [x \in Txns |-> IF client[x] = "idle" THEN "idle" ELSE "end"]
      /\ finish' = [x \in Txns |-> IF client[x] = "idle" THEN None ELSE "done"]
      /\ killer' = [x \in Txns |-> None]
      /\ covered' = [x \in Txns |-> <<>>] /\ todo' = [x \in Txns |-> <<>>]
  BY DEF CrashServer, Crash, changes
<1>2. <<>> \in Seq(Parts)
  OBVIOUS
<1>3. TxnTypes' /\ AtHand'
  BY <1>1, <1>2 DEF TxnInv, TxnTypes, AtHand, ClientStates, FinishStates, None
<1>4. RunningIsUnfinished'
  BY <1>1, EmptyRange DEF TxnInv, RunningIsUnfinished, Running, Unique, None
<1>5. ASSUME NEW x \in Txns PROVE Outcome(x)'
  BY <1>1 DEF TxnInv, Outcome, IsCommitted, IsReadOnly, Rollback, None
<1>6. CommitNumbers'
  BY <1>1 DEF TxnInv, CommitNumbers
<1> QED  BY <1>3, <1>4, <1>5, <1>6 DEF TxnInv

LEMMA LogOnlyTxnInv ==
  ASSUME IInv, TxnInv, UNCHANGED txnVars, UNCHANGED <<tid, in_use, committed>>,
         next_csn' = next_csn \/ (next_csn <= MaxCSN /\ next_csn' = next_csn + 1)
  PROVE  TxnInv'
<1>1. UNCHANGED <<csn, client, finish, todo, creating, removing, new_part, covered, killer>>
  BY DEF txnVars, writeVars, changes, ending
<1>2. TxnTypes' /\ AtHand'
  BY <1>1 DEF TxnInv, TxnTypes, AtHand
<1>3. RunningIsUnfinished'
  BY <1>1 DEF TxnInv, RunningIsUnfinished, Running
<1>4. ASSUME NEW x \in Txns PROVE Outcome(x)'
  BY <1>1 DEF TxnInv, Outcome, IsCommitted, IsReadOnly
<1>5. CommitNumbers'
  BY CSNFacts DEF TxnInv, CommitNumbers, IInv, LogTypeOK
<1> QED  BY <1>2, <1>3, <1>4, <1>5 DEF TxnInv

LEMMA ServerTxnInv ==
  ASSUME IInv, TxnInv,
         \/ UpdaterStep \/ UpdaterRequestFails \/ StartServer \/ ServerStarted
         \/ \E p \in Parts : GrabOldPart(p) \/ LoadPart(p)
         \/ \E x \in Txns : EndUnknownState(x)
  PROVE  TxnInv'
<1> USE LogOnlyTxnInv
<1>1. CASE UpdaterStep
  BY <1>1 DEF UpdaterStep, Updater, UpdaterWakes, ListEntries, LoadEntries, PublishSnapshot, UpdateTailPtr,
     RemoveOldEntries, SwapUnknownStateLists, FinalizedAll, keeper, memory
<1>2. CASE UpdaterRequestFails
  BY <1>2 DEF UpdaterRequestFails, UpdaterFails, memory
<1>3. CASE StartServer
  BY <1>3 DEF StartServer, LoadLogFromZooKeeper
<1>4. CASE ServerStarted
  BY <1>4 DEF ServerStarted, SetServerCompletelyStarted, keeper, memory
<1>5. CASE \E p \in Parts : GrabOldPart(p) \/ LoadPart(p)
  BY <1>5 DEF GrabOldPart, LoadPart, logVars, keeper, memory
<1>6. CASE \E x \in Txns : EndUnknownState(x)
  BY <1>6 DEF EndUnknownState, FinalizedUnknownState, keeper, memory
<1> QED  BY <1>1, <1>2, <1>3, <1>4, <1>5, <1>6

LEMMA NextTxnInv ==
  ASSUME IInv, TxnInv, [Next]_vars
  PROVE  TxnInv'
<1>1. ASSUME NEW x \in Txns, ClientStep(x) PROVE TxnInv'
  BY <1>1, BeginTxnInv, QueryTxnInv, RollbackTxnInv, BeforeCommitTxnInv, CommitTxnInv, CommitFailsTxnInv
     DEF ClientStep, CommitLost
<1>2. ASSUME NEW x \in Txns, FinishStep(x) PROVE TxnInv'
  BY <1>2, AfterCommitTxnInv, PhaseTxnInv, ReleaseTxnInv DEF FinishStep
<1>3. ASSUME NEW x \in Txns, KillStep(x) PROVE TxnInv'
  BY <1>3, RollbackTxnInv, KillFailsTxnInv DEF KillStep
<1>4. ASSUME NEW x \in Txns, UnknownStateStep(x) PROVE TxnInv'
  BY <1>4, DecideTxnInv, RollbackTxnInv, ServerTxnInv DEF UnknownStateStep
<1>5. CASE UNCHANGED vars
  BY <1>5, LogOnlyTxnInv DEF vars, logVars, keeper, memory
<1> QED  BY <1>1, <1>2, <1>3, <1>4, <1>5, CrashTxnInv, ServerTxnInv DEF Next

(* The invariants of the log and of the life of transactions. *)
LEMMA LifeIInv == Spec => [](IInv /\ TxnInv)
<1>1. Spec => []IInv
  BY ImplementsLog, LogIInv, PTL
<1>2. Spec => []TxnInv
  BY <1>1, InitTxnInv, NextTxnInv, PTL DEF Spec
<1> QED  BY <1>1, <1>2, PTL

(* A committed transaction is never rolled back: not by its client, not by *)
(* a KILL, and not by the updating thread that has to find out whether its *)
(* entry was created (beforeCommit, rollback,                              *)
(* tryFinalizeUnknownStateTransactions).                                   *)
THEOREM CommittedStays == Spec => []CommittedIsNotRolledBack
<1>1. TxnInv => CommittedIsNotRolledBack
  BY DEF TxnInv, Outcome, CommittedIsNotRolledBack
<1> QED  BY <1>1, LifeIInv, PTL

-----------------------------------------------------------------------------
(***************************************************************************)
(* CSNs in parts.                                                          *)
(***************************************************************************)

(* Transactions that never will be committed. *)
Doomed(x) ==
  /\ ~IsCommitted(x)
  /\ csn[x] = RolledBackCSN \/ client[x] \in {"exception", "lost", "end"}
DoomedTIDs == {EmptyTID} \cup {tid[x] : x \in {y \in Txns : Doomed(y)}}

(* TIDs that parts may name. *)
NamedTIDs == {EmptyTID, PrehistoricTID} \cup {tid[x] : x \in {y \in Txns : client[y] # "idle"}}

TrueRemoval(t, c) ==
  \/ c = UnknownCSN
  \/ c = PrehistoricCSN /\ t = PrehistoricTID
  \/ [csn |-> c, tid |-> t] \in committed
TrueCreation(t, c) == TrueRemoval(t, c) \/ (c = RolledBackCSN /\ t \in DoomedTIDs)
TrueMetadata(v) ==
  /\ TrueCreation(v.creation_tid, v.creation_csn)
  /\ TrueRemoval(v.removal_tid, v.removal_csn)

ReadSteps == {None, "load", "fast", "lookup", "outdated", "failback", "throw", "strict", "store",
              "removal", "strict_removal", "store_removal", "done"}
Reads == [pc : ReadSteps, part : Parts \cup {None}, loads : SUBSET Loads, creation_csn : CSNs,
          removal_tid : TIDs, removal_csn : CSNs, result : BOOLEAN]

PartTypes ==
  /\ read \in [Txns -> Reads]
  /\ version \in [Parts -> Metadata] /\ file \in [Parts -> Metadata]
  /\ state \in [Parts -> {None, "PreActive", "Active", "Outdated"}]
  /\ on_disk \subseteq Parts /\ loaded \subseteq Parts

Present(p) == p \in on_disk /\ p \in loaded /\ state[p] # None

(* The set of parts holds what is on disk and loaded; parts in use stay. *)
PartsArePresent ==
  \A p \in Parts :
    /\ state[p] # None => Present(p)
    /\ InUse(p) => Present(p)
    /\ p \notin on_disk => file[p] = NoMetadata

(* The part that a query of x is writing, and the parts on which the end   *)
(* of x has still to put a CSN.                                            *)
Writing(x) ==
  \/ client[x] \in {"written", "undo"}
  \/ client[x] \in {"remove", "append"} /\ ~Truncating(x)
CreatedBy(x, p) ==
  \/ Writing(x) /\ p = new_part[x]
  \/ Running(x) /\ p \in Range(creating[x])
CreatedIsNamed ==
  \A x \in Txns : \A p \in Parts : CreatedBy(x, p) =>
    /\ p \in Writes[x]
    /\ version[p].creation_tid = tid[x] /\ file[p].creation_tid = tid[x]

(* The parts that x has locked for removal: the end of a rollback unlocks  *)
(* them one by one, and a commit or rollback that is over has none.        *)
Holding(x) ==
  IF finish[x] \in {"clear", "unlock"} THEN todo[x]
  ELSE IF finish[x] \in {"release", "done"} THEN <<>> ELSE removing[x]
TodoIsMine(x) ==
  /\ finish[x] \in {"mark", "outdate", "stamp_created"} => Range(todo[x]) \subseteq Range(creating[x])
  /\ finish[x] \in {"activate", "stamp_removed", "clear", "unlock"} => Range(todo[x]) \subseteq Range(removing[x])
  /\ finish[x] = "release" => csn[x] # UnknownCSN \/ removing[x] = <<>>
RemovedIsLocked ==
  \A x \in Txns :
    /\ TodoIsMine(x)
    /\ Unique(Holding(x)) /\ Unique(removing[x])
    /\ \A p \in Range(Holding(x)) : version[p].removal_tid = tid[x]

(* Until x is rolled back, the files of these parts name it too. *)
Appending(x, p) == client[x] = "append" /\ p = Head(covered[x])
FileIsLocked ==
  \A x \in Txns : csn[x] # RolledBackCSN =>
    \A p \in Range(Holding(x)) : Appending(x, p) \/ file[p].removal_tid = tid[x]

(* A file with the CSN of a removal names the transaction that has the     *)
(* part locked.                                                            *)
FileCSNIsFinal ==
  \A p \in loaded \cap on_disk :
    file[p].removal_csn # UnknownCSN => file[p].removal_tid = version[p].removal_tid

(* Parts that are not loaded yet name transactions of earlier starts, of   *)
(* which the log has been loaded.                                          *)
Ended(x) == client[x] = "end" /\ finish[x] = "done"
IsOld(x) ==
  Ended(x) /\ (alive => \A e \in committed : e.tid = tid[x] => e.csn <= last_loaded_entry)
OldTIDs == {EmptyTID, PrehistoricTID} \cup {tid[x] : x \in {y \in Txns : IsOld(y)}}
UnloadedIsOld ==
  \A p \in on_disk \ loaded : file[p].creation_tid \in OldTIDs /\ file[p].removal_tid \in OldTIDs

(* What a call of isVisible() has loaded stays true while it runs. *)
ReadIsTrue(x) ==
  read[x].pc # None =>
    /\ read[x].part \in Parts
    /\ TrueCreation(version[read[x].part].creation_tid, read[x].creation_csn)
    /\ TrueRemoval(version[read[x].part].removal_tid, read[x].removal_csn)
    /\ \/ read[x].removal_tid \in DoomedTIDs
       \/ read[x].removal_tid = version[read[x].part].removal_tid

NamesAreKnown(v) == v.creation_tid \in NamedTIDs /\ v.removal_tid \in NamedTIDs
MetadataIsTrue ==
  \A p \in Parts :
    /\ TrueMetadata(version[p]) /\ NamesAreKnown(version[p])
    /\ TrueMetadata(file[p]) /\ NamesAreKnown(file[p])

PartInv ==
  /\ PartTypes
  /\ PartsArePresent
  /\ CreatedIsNamed
  /\ RemovedIsLocked
  /\ FileIsLocked
  /\ FileCSNIsFinal
  /\ UnloadedIsOld
  /\ \A x \in Txns : ReadIsTrue(x)
  /\ MetadataIsTrue

-----------------------------------------------------------------------------
(* What is true of a transaction stays true. *)
Stays(x) ==
  /\ client[x] # "idle" => tid'[x] = tid[x] /\ client'[x] # "idle"
  /\ csn[x] = RolledBackCSN => csn'[x] = RolledBackCSN
  /\ client[x] \in {"exception", "lost", "end"} => client'[x] \in {"exception", "lost", "end"}
  /\ Ended(x) => Ended(x)'
  /\ IsCommitted(x)' => IsCommitted(x) \/ client[x] = "commit"

(* Steps that are not about y. *)
LEMMA SameStays ==
  ASSUME NEW y \in Txns, csn'[y] = csn[y], client'[y] = client[y], finish'[y] = finish[y],
         client[y] # "idle" => tid'[y] = tid[y], IsCommitted(y)' => IsCommitted(y)
  PROVE  Stays(y)
BY DEF Stays, Ended

LEMMA NextStays ==
  ASSUME IInv, TxnInv, Next, NEW y \in Txns
  PROVE  Stays(y)
<1> USE DEF txnVars, writeVars, changes, ending
<1>t. /\ csn \in [Txns -> Nat] /\ client \in [Txns -> ClientStates] /\ finish \in [Txns -> FinishStates]
      /\ tid \in [Txns -> TIDs] /\ Outcome(y)
  BY DEF TxnInv, TxnTypes, IInv, LogTypeOK
<1>l. ASSUME UNCHANGED LifeOfLog
      PROVE  tid' = tid /\ (IsCommitted(y)' => IsCommitted(y))
  BY <1>l DEF LifeOfLog, IsCommitted
<1>u. ASSUME UNCHANGED LifeOfLog, UNCHANGED <<csn, client, finish>> PROVE Stays(y)
  BY <1>l, <1>u, SameStays
<1>v. ASSUME UNCHANGED <<tid, committed>>, UNCHANGED <<csn, client, finish>> PROVE Stays(y)
  <2>1. IsCommitted(y)' => IsCommitted(y)
    BY <1>v DEF IsCommitted
  <2> QED  BY <1>v, <2>1, SameStays
<1>w. ASSUME NEW x \in Txns, UNCHANGED LifeOfLog, UNCHANGED <<csn, finish>>, client[x] \notin {"exception", "lost", "end"},
             NEW c \in ClientStates, client' = [client EXCEPT ![x] = c], c # "idle"
      PROVE  Stays(y)
  <2>1. client'[y] = (IF x = y THEN c ELSE client[y])
    BY <1>w, <1>t
  <2> QED  BY <1>l, <1>w, <2>1 DEF Stays, Ended
<1>1. ASSUME NEW x \in Txns, ClientStep(x) PROVE Stays(y)
  <2>1. CASE Begin(x)
    <3>1. /\ tid' = [tid EXCEPT ![x] = TransactionID(latest_snapshot, local_tid_counter + 1)] /\ client[x] = "idle"
          /\ client' = [client EXCEPT ![x] = "ready"] /\ UNCHANGED <<csn, finish, committed>> /\ alive
      BY <2>1 DEF Begin, BeginTransaction
    <3>2. CASE y = x
      <4>1. ~IsCommitted(x)'
        <5>1. \A z \in Txns : tid[z] # EmptyTID => tid[z] # tid'[x]
          BY <1>t, <3>1, NewTIDIsFresh DEF IInv
        <5> QED  BY <3>1, <5>1 DEF IInv, CommitsHaveTxns, IsCommitted
      <4> QED  BY <1>t, <3>1, <3>2, <4>1, CSNFacts DEF Stays, Ended, Outcome
    <3>3. CASE y # x
      <4>1. tid'[y] = tid[y] /\ client'[y] = client[y]
        BY <1>t, <3>1, <3>3
      <4>2. IsCommitted(y)' => IsCommitted(y)
        BY <3>1, <4>1 DEF IsCommitted
      <4> QED  BY <3>1, <4>1, <4>2, SameStays
    <3> QED  BY <3>2, <3>3
  <2>2. CASE SelectStep(x) \/ (\E p \in Parts : Select(x, p)) \/ SkipRolledBack(x)
    BY <1>u, <2>2, LogVarsSame DEF SelectStep, Select, SkipRolledBack
  <2>3. CASE (\E p \in Parts : WritePart(x, p)) \/ AddNewPart(x) \/ Truncate(x) \/ UndoPart(x)
    <3>1. UNCHANGED LifeOfLog /\ UNCHANGED <<csn, finish>> /\ client[x] \notin {"exception", "lost", "end"}
      BY <2>3, LogVarsSame DEF WritePart, AddNewPart, Truncate, UndoPart, Idle
    <3>2. \E c \in {"written", "undo", "remove", "exception"} : client' = [client EXCEPT ![x] = c]
      BY <2>3 DEF WritePart, AddNewPart, Truncate, UndoPart
    <3> QED  BY <1>w, <3>1, <3>2 DEF ClientStates
  <2>4. CASE RemoveOldPart(x) \/ AppendRemoval(x) \/ TruncateEnds(x) \/ ActivatePart(x)
    <3>1. UNCHANGED LifeOfLog /\ UNCHANGED <<csn, finish>> /\ client[x] \notin {"exception", "lost", "end"}
      BY <2>4, LogVarsSame DEF RemoveOldPart, AppendRemoval, TruncateEnds, ActivatePart
    <3>2. \E c \in {"undo", "remove", "exception", "append", "ready"} : client' = [client EXCEPT ![x] = c]
      BY <2>4 DEF RemoveOldPart, AppendRemoval, TruncateEnds, ActivatePart
    <3> QED  BY <1>w, <3>1, <3>2 DEF ClientStates
  <2>5. CASE ClientRollsBack(x)
    <3>1. UNCHANGED LifeOfLog /\ client' = [client EXCEPT ![x] = "end"] /\ client[x] \in {"ready", "exception"}
      BY <2>5, LogVarsSame DEF ClientRollsBack, Idle
    <3>2. csn' = csn \/ csn' = [csn EXCEPT ![x] = RolledBackCSN]
      BY <2>5 DEF ClientRollsBack, StartRollback
    <3>3. finish' = finish \/ finish' = [finish EXCEPT ![x] = "mark"]
      BY <2>5 DEF ClientRollsBack, StartRollback
    <3> QED  BY <1>l, <1>t, <3>1, <3>2, <3>3 DEF Stays, Ended
  <2>6. CASE BeforeCommit(x)
    <3>1. UNCHANGED LifeOfLog /\ client[x] = "ready"
      BY <2>6, LogVarsSame DEF BeforeCommit, Idle
    <3>2. csn' = csn \/ (csn' = [csn EXCEPT ![x] = CommittingCSN] /\ csn[x] = UnknownCSN)
      BY <2>6 DEF BeforeCommit
    <3>3. finish' = finish \/ \E f \in FinishStates : finish' = [finish EXCEPT ![x] = f]
      BY <1>t, <2>6 DEF BeforeCommit, FinishStates
    <3>4. \E c \in {"commit", "end"} : client' = [client EXCEPT ![x] = c]
      BY <2>6 DEF BeforeCommit
    <3> QED  BY <1>l, <1>t, <3>1, <3>2, <3>3, <3>4, CSNFacts DEF Stays, Ended
  <2>7. CASE Commit(x) \/ (CommitLost(x) /\ CommitPointLost(x))
    <3>1. CreateEntry(x) /\ client[x] = "commit" /\ csn' = csn
      BY <2>7 DEF Commit, CommitPoint, CommitLost, CommitPointLost
    <3>2. /\ \E c \in {"end", "lost"} : client' = [client EXCEPT ![x] = c]
          /\ finish' = finish \/ finish' = [finish EXCEPT ![x] = "committed"]
      BY <2>7 DEF Commit, CommitLost
    <3>3. tid' = tid
      BY <3>1, CreateEntryFacts
    <3>4. \A z \in Txns : z # x => (IsCommitted(z)' <=> IsCommitted(z))
      BY <3>1, CreateEntryFacts
    <3> QED  BY <1>t, <3>1, <3>2, <3>3, <3>4 DEF Stays, Ended
  <2>8. CASE (CommitLost(x) /\ CommitFails(x)) \/ Postpone(x) \/ CommitRefused(x)
    <3>1. UNCHANGED LifeOfLog /\ client[x] \in {"commit", "lost"}
      BY <2>8 DEF CommitLost, CommitFails, Postpone, PostponeFinalization, CommitRefused, LifeOfLog, keeper, memory
    <3>2. csn' = csn \/ csn' = [csn EXCEPT ![x] = UnknownCSN]
      BY <2>8 DEF CommitLost, Postpone, CommitRefused
    <3>3. finish' = finish \/ finish' = [finish EXCEPT ![x] = "unknown"]
      BY <2>8 DEF CommitLost, Postpone, CommitRefused
    <3>4. \E c \in {"lost", "end", "exception"} : client' = [client EXCEPT ![x] = c]
      BY <2>8 DEF CommitLost, Postpone, CommitRefused
    <3>5. x = y => csn[y] = CommittingCSN
      BY <1>t, <3>1 DEF Outcome
    <3> QED  BY <1>l, <1>t, <3>1, <3>2, <3>3, <3>4, <3>5, CSNFacts DEF Stays, Ended
  <2> QED  BY <1>1, <2>1, <2>2, <2>3, <2>4, <2>5, <2>6, <2>7, <2>8 DEF ClientStep, LockedStep, CommitLost
<1>2. ASSUME NEW x \in Txns, FinishStep(x) PROVE Stays(y)
  <2>1. CASE Release(x)
    <3>1. /\ UNCHANGED <<csn, client, tid, committed>> /\ finish[x] = "release"
          /\ finish' = [finish EXCEPT ![x] = "done"]
      BY <2>1 DEF Release, ReleaseSnapshot
    <3>2. IsCommitted(y)' => IsCommitted(y)
      BY <3>1 DEF IsCommitted
    <3> QED  BY <1>t, <3>1, <3>2 DEF Stays, Ended
  <2>2. CASE AfterCommit(x)
    <3>1. /\ UNCHANGED LifeOfLog /\ UNCHANGED <<client>> /\ finish[x] = "committed"
          /\ finish' = [finish EXCEPT ![x] = "stamp_created"] /\ csn' = [csn EXCEPT ![x] = AllocatedCSN(x)]
      BY <2>2, LogVarsSame DEF AfterCommit
    <3>2. x = y => csn[y] = CommittingCSN
      BY <1>t, <3>1 DEF Outcome
    <3> QED  BY <1>l, <1>t, <3>1, <3>2, CSNFacts DEF Stays, Ended
  <2>3. CASE \/ StampCreated(x) \/ StampRemoved(x) \/ MarkRolledBack(x) \/ OutdateCreated(x)
             \/ RestoreRemoved(x) \/ ClearRemoved(x) \/ UnlockRemoved(x)
    <3>1. UNCHANGED LifeOfLog /\ UNCHANGED <<csn, client>> /\ finish[x] # "done"
      BY <2>3, LogVarsSame DEF StampCreated, StampRemoved, MarkRolledBack, OutdateCreated, RestoreRemoved, ClearRemoved,
         UnlockRemoved
    <3>2. x # y => finish'[y] = finish[y]
      BY <1>t, <2>3 DEF StampCreated, StampRemoved, MarkRolledBack, OutdateCreated, RestoreRemoved, ClearRemoved,
         UnlockRemoved, NextPart, NextPhase
    <3> QED  BY <1>l, <3>1, <3>2 DEF Stays, Ended
  <2> QED  BY <1>2, <2>1, <2>2, <2>3 DEF FinishStep
<1>3. ASSUME NEW x \in Txns, Kill(x) \/ RollBackUnknownState(x) PROVE Stays(y)
  <2>1. /\ UNCHANGED LifeOfLog /\ UNCHANGED client
        /\ csn' = [csn EXCEPT ![x] = RolledBackCSN] /\ finish' = [finish EXCEPT ![x] = "mark"]
    BY <1>3, LogVarsSame DEF Kill, RollBackUnknownState, StartRollback
  <2>2. finish[x] # "done"
    BY <1>3 DEF Kill, RollBackUnknownState, TxnInv, RunningIsUnfinished
  <2> QED  BY <1>l, <1>t, <2>1, <2>2 DEF Stays, Ended
<1>4. ASSUME NEW x \in Txns, KillFails(x) \/ KillReturns(x) PROVE Stays(y)
  BY <1>4, <1>u, LogVarsSame DEF KillFails, KillReturns
<1>5. ASSUME NEW x \in Txns, DecideUnknownState(x) PROVE Stays(y)
  <2>1. /\ UNCHANGED LifeOfLog /\ UNCHANGED client /\ finish[x] = "unknown"
        /\ csn' = csn \/ csn' = [csn EXCEPT ![x] = UnknownCSN]
        /\ \E f \in {"committed", "unguarded"} : finish' = [finish EXCEPT ![x] = f]
    BY <1>5, <1>t, LogVarsSame DEF DecideUnknownState
  <2>2. x = y => csn[y] = CommittingCSN
    BY <1>t, <2>1 DEF Outcome
  <2> QED  BY <1>l, <1>t, <2>1, <2>2, CSNFacts DEF Stays, Ended
<1>6. ASSUME NEW x \in Txns, EndUnknownState(x) PROVE Stays(y)
  BY <1>6, <1>v DEF EndUnknownState, FinalizedUnknownState
<1>7. CASE CrashServer
  <2>1. /\ UNCHANGED <<tid, committed, csn>>
        /\ client' = [x \in Txns |-> IF client[x] = "idle" THEN "idle" ELSE "end"]
        /\ finish' = [x \in Txns |-> IF client[x] = "idle" THEN None ELSE "done"]
    BY <1>7 DEF CrashServer, Crash
  <2>2. IsCommitted(y)' => IsCommitted(y)
    BY <2>1 DEF IsCommitted
  <2> QED  BY <2>1, <2>2 DEF Stays, Ended
<1>8. CASE UpdaterStep \/ UpdaterRequestFails
  BY <1>8, <1>v DEF UpdaterStep, Updater, UpdaterWakes, ListEntries, LoadEntries, PublishSnapshot, UpdateTailPtr,
     RemoveOldEntries, SwapUnknownStateLists, FinalizedAll, UpdaterRequestFails, UpdaterFails
<1>9. CASE StartServer \/ ServerStarted
  BY <1>9, <1>v DEF StartServer, LoadLogFromZooKeeper, ServerStarted, SetServerCompletelyStarted
<1>10. CASE \E p \in Parts : GrabOldPart(p) \/ LoadPart(p)
  BY <1>10, <1>u, LogVarsSame DEF GrabOldPart, LoadPart
<1> QED  BY <1>1, <1>2, <1>3, <1>4, <1>5, <1>6, <1>7, <1>8, <1>9, <1>10 DEF Next, KillStep, UnknownStateStep

(* What a step of the log does to entries and to what is loaded. *)
LEMMA LogStepFacts ==
  ASSUME IInv, [LogNext]_logVars
  PROVE  /\ committed \subseteq committed'
         /\ \A e \in committed' \ committed : \E z \in Txns : z \in Range(in_use) /\ e.tid = tid[z]
         /\ alive /\ alive' => last_loaded_entry <= last_loaded_entry'
         /\ ~alive /\ alive' => committed' = committed /\ \A e \in committed : e.csn <= last_loaded_entry'
<1> DEFINE Q == /\ committed \subseteq committed'
                /\ \A e \in committed' \ committed : \E z \in Txns : z \in Range(in_use) /\ e.tid = tid[z]
                /\ alive /\ alive' => last_loaded_entry <= last_loaded_entry'
                /\ ~alive /\ alive' => committed' = committed /\ \A e \in committed : e.csn <= last_loaded_entry'
<1>t. last_loaded_entry \in Nat /\ next_csn \in Nat /\ \A e \in committed : e.csn \in Nat /\ e.csn < next_csn
  BY DEF IInv, LogTypeOK, KeeperNumbers, Entries
<1>1. CASE Crash
  BY <1>1, <1>t DEF Crash
<1>2. CASE LoadLogFromZooKeeper
  BY <1>2, <1>t DEF LoadLogFromZooKeeper
<1>3. ASSUME committed' = committed, alive' = alive, last_loaded_entry' = last_loaded_entry PROVE Q
  BY <1>3, <1>t
<1>4. CASE SetServerCompletelyStarted
  BY <1>3, <1>4 DEF SetServerCompletelyStarted, memory
<1>5. ASSUME NEW x \in Txns, BeginTransaction(x) \/ CommitFails(x) \/ PostponeFinalization(x) \/ ReleaseSnapshot(x)
      PROVE  Q
  BY <1>3, <1>5 DEF BeginTransaction, CommitFails, PostponeFinalization, ReleaseSnapshot, memory
<1>6. ASSUME NEW x \in Txns, CommitPoint(x) \/ CommitPointLost(x) PROVE Q
  <2>1. /\ committed' = committed \cup {[csn |-> next_csn, tid |-> tid[x]]} /\ x \in Range(in_use)
        /\ alive' = alive /\ last_loaded_entry' = last_loaded_entry /\ alive
    BY <1>6 DEF CommitPoint, CommitPointLost, CreateEntry, memory
  <2> QED  BY <1>t, <2>1
<1>7. CASE LoadEntries
  <2>1. committed' = committed /\ alive' = alive /\ alive /\ updater = "load" /\ last_loaded_entry' = last_entry
    BY <1>7 DEF LoadEntries
  <2>2. last_loaded_entry < last_entry /\ last_entry \in Nat
    BY <2>1 DEF IInv, LoadingPhase, LogTypeOK
  <2> QED  BY <1>t, <2>1, <2>2
<1>8. CASE Updater /\ ~LoadEntries
  BY <1>3, <1>8 DEF Updater, UpdaterWakes, ListEntries, PublishSnapshot, UpdateTailPtr, RemoveOldEntries,
     SwapUnknownStateLists, FinalizedAll, memory
<1>9. CASE UpdaterFails \/ FinalizedUnknownState
  BY <1>3, <1>9 DEF UpdaterFails, FinalizedUnknownState, memory
<1>10. CASE UNCHANGED logVars
  BY <1>3, <1>10 DEF logVars, memory
<1> QED  BY <1>1, <1>2, <1>4, <1>5, <1>6, <1>7, <1>8, <1>9, <1>10 DEF LogNext

(* Truth only grows. *)
Grows ==
  /\ committed \subseteq committed' /\ DoomedTIDs \subseteq DoomedTIDs'
  /\ NamedTIDs \subseteq NamedTIDs' /\ OldTIDs \subseteq OldTIDs'

LEMMA NextGrows ==
  ASSUME IInv, TxnInv, Next
  PROVE  Grows
<1>s. \A y \in Txns : Stays(y)
  BY NextStays
<1>1. [LogNext]_logVars
  BY NextLogStep
<1>2. committed \subseteq committed'
  BY <1>1, LogStepFacts
<1>3. DoomedTIDs \subseteq DoomedTIDs'
  <2> SUFFICES ASSUME NEW y \in Txns, Doomed(y) PROVE tid[y] \in DoomedTIDs'
    BY DEF DoomedTIDs
  <2>1. Outcome(y) /\ Stays(y)
    BY <1>s DEF TxnInv
  <2>2. client[y] \notin {"idle", "commit"}
    BY <2>1, CSNFacts DEF Doomed, Outcome
  <2>3. Doomed(y)' /\ tid'[y] = tid[y]
    BY <2>1, <2>2 DEF Doomed, Stays
  <2> QED  BY <2>3 DEF DoomedTIDs
<1>4. NamedTIDs \subseteq NamedTIDs'
  <2> SUFFICES ASSUME NEW y \in Txns, client[y] # "idle" PROVE tid[y] \in NamedTIDs'
    BY DEF NamedTIDs
  <2>1. tid'[y] = tid[y] /\ client'[y] # "idle"
    BY <1>s DEF Stays
  <2> QED  BY <2>1 DEF NamedTIDs
<1>5. OldTIDs \subseteq OldTIDs'
  <2> SUFFICES ASSUME NEW y \in Txns, IsOld(y) PROVE tid[y] \in OldTIDs'
    BY DEF OldTIDs
  <2>1. Ended(y)' /\ tid'[y] = tid[y]
    BY <1>s DEF Stays, IsOld, Ended
  <2>2. ASSUME alive', NEW e \in committed', e.tid = tid[y]
        PROVE  e.csn <= last_loaded_entry'
    <3>1. e \in committed
      <4>1. SUFFICES ASSUME e \notin committed PROVE FALSE
        OBVIOUS
      <4>2. PICK z \in Txns : z \in Range(in_use) /\ e.tid = tid[z]
        BY <1>1, <4>1, LogStepFacts
      <4>3. tid[z] # EmptyTID
        BY <4>2 DEF TxnInv, RunningIsUnfinished, Running
      <4>4. z = y
        BY <2>2, <4>2, <4>3 DEF IInv, TIDsAreUnique
      <4> QED  BY <4>2, <4>4 DEF TxnInv, RunningIsUnfinished, Running, IsOld, Ended
    <3>2. CASE ~alive
      BY <1>1, <2>2, <3>1, <3>2, LogStepFacts
    <3>3. CASE alive
      <4>1. e.csn <= last_loaded_entry
        BY <2>2, <3>1, <3>3 DEF IsOld
      <4>2. last_loaded_entry <= last_loaded_entry'
        BY <1>1, <2>2, <3>3, LogStepFacts
      <4>3. e.csn \in Nat /\ last_loaded_entry \in Nat /\ last_loaded_entry' \in Nat
        <5>1. IInv'
          BY <1>1, NextIInv
        <5> QED  BY <3>1, <5>1 DEF IInv, LogTypeOK, Entries
      <4> QED  BY <4>1, <4>2, <4>3
    <3> QED  BY <3>2, <3>3
  <2>3. IsOld(y)'
    BY <2>1, <2>2 DEF IsOld
  <2> QED  BY <2>1, <2>3 DEF OldTIDs
<1> QED  BY <1>2, <1>3, <1>4, <1>5 DEF Grows
-----------------------------------------------------------------------------
(* Metadata and lookups. *)

LEMMA MetadataFacts ==
  /\ \A v \in Metadata : /\ v.creation_tid \in TIDs /\ v.creation_csn \in CSNs
                        /\ v.removal_tid \in TIDs /\ v.removal_csn \in CSNs
  /\ \A c \in CSNs : c \in Nat
  /\ \A c \in Nat : c <= MaxCSN => c \in CSNs
  /\ UnknownCSN \in CSNs /\ PrehistoricCSN \in CSNs /\ RolledBackCSN \in CSNs
  /\ EmptyTID \in TIDs /\ PrehistoricTID \in TIDs /\ EmptyTID # PrehistoricTID
<1>1. \A c \in CSNs : c \in Nat
  BY CSNFacts DEF CSNs
<1>2. \A c \in Nat : c <= MaxCSN => c \in CSNs
  BY CSNFacts DEF CSNs
<1>3. UnknownCSN \in CSNs /\ PrehistoricCSN \in CSNs /\ RolledBackCSN \in CSNs
  BY CSNFacts, <1>2 DEF CSNs
<1>4. PrehistoricTID \in TIDs /\ PrehistoricTID.start_csn = PrehistoricCSN /\ EmptyTID.start_csn = 0 /\ EmptyTID \in TIDs
  BY CSNFacts, TIDFacts DEF PrehistoricTID
<1>5. PrehistoricCSN # 0
  BY SMT DEF PrehistoricCSN
<1> QED  BY <1>1, <1>2, <1>3, <1>4, <1>5 DEF Metadata

LEMMA MetadataOfFacts ==
  ASSUME NEW t \in TIDs
  PROVE  /\ MetadataOf(t) \in Metadata
         /\ MetadataOf(t).creation_tid = t /\ MetadataOf(t).creation_csn = UnknownCSN
         /\ MetadataOf(t).removal_tid = EmptyTID /\ MetadataOf(t).removal_csn = UnknownCSN
BY MetadataFacts DEF MetadataOf, Metadata

LEMMA NoMetadataFacts ==
  /\ NoMetadata \in Metadata
  /\ NoMetadata.creation_tid = EmptyTID /\ NoMetadata.creation_csn = UnknownCSN
  /\ NoMetadata.removal_tid = EmptyTID /\ NoMetadata.removal_csn = UnknownCSN
  /\ TrueMetadata(NoMetadata) /\ NamesAreKnown(NoMetadata)
BY MetadataOfFacts, MetadataFacts DEF NoMetadata, TrueMetadata, TrueCreation, TrueRemoval, NamesAreKnown, NamedTIDs

LEMMA PrehistoricFacts ==
  /\ PrehistoricMetadata \in Metadata
  /\ PrehistoricMetadata.creation_tid = PrehistoricTID /\ PrehistoricMetadata.creation_csn = PrehistoricCSN
  /\ PrehistoricMetadata.removal_tid = EmptyTID /\ PrehistoricMetadata.removal_csn = UnknownCSN
  /\ TrueMetadata(PrehistoricMetadata) /\ NamesAreKnown(PrehistoricMetadata)
<1>1. PrehistoricMetadata = [creation_tid |-> PrehistoricTID, creation_csn |-> PrehistoricCSN,
                             removal_tid |-> EmptyTID, removal_csn |-> UnknownCSN]
  BY DEF PrehistoricMetadata, MetadataOf
<1> QED  BY <1>1, MetadataFacts DEF Metadata, TrueMetadata, TrueCreation, TrueRemoval, NamesAreKnown, NamedTIDs

(* The answer of a lookup is true, and never RolledBackCSN. *)
LEMMA GetCSNFacts ==
  ASSUME IInv, TxnInv, alive, NEW t
  PROVE  /\ GetCSN(t) \in CSNs /\ GetCSN(t) # RolledBackCSN
         /\ TrueRemoval(t, GetCSN(t))
<1>1. CASE t = PrehistoricTID
  BY <1>1, MetadataFacts, CSNFacts DEF GetCSN, TrueRemoval
<1>2. CASE t # PrehistoricTID /\ \E e \in tid_to_csn : e.tid = t
  <2>1. PICK e : e = CHOOSE d \in tid_to_csn : d.tid = t
    OBVIOUS
  <2>2. e \in tid_to_csn /\ e.tid = t /\ GetCSN(t) = e.csn
    BY <1>2, <2>1 DEF GetCSN
  <2>3. e \in committed
    BY <2>2 DEF IInv, LookupsAreRight
  <2>4. e = [csn |-> e.csn, tid |-> e.tid] /\ e.csn \in Nat /\ e.csn <= MaxCSN
    BY <2>3 DEF IInv, LogTypeOK, Entries, TxnInv, CommitNumbers
  <2> QED  BY <2>2, <2>3, <2>4, MetadataFacts, CSNFacts DEF TrueRemoval
<1>3. CASE t # PrehistoricTID /\ ~ \E e \in tid_to_csn : e.tid = t
  BY <1>3, MetadataFacts, CSNFacts DEF GetCSN, TrueRemoval
<1> QED  BY <1>1, <1>2, <1>3

LEMMA GetCSNOrFacts ==
  ASSUME IInv, TxnInv, alive, NEW t, NEW c \in CSNs
  PROVE  /\ GetCSNOr(t, c) \in CSNs
         /\ TrueRemoval(t, c) => TrueRemoval(t, GetCSNOr(t, c))
         /\ TrueCreation(t, c) => TrueCreation(t, GetCSNOr(t, c))
BY GetCSNFacts DEF GetCSNOr, TrueCreation

(* Storing CSNs keeps the names and the truth. *)
Restamped(v, w) ==
  /\ w \in Metadata /\ TrueMetadata(w)
  /\ w.creation_tid = v.creation_tid /\ w.removal_tid = v.removal_tid

LEMMA WithCSNsFacts ==
  ASSUME IInv, TxnInv, alive, NEW v \in Metadata, TrueMetadata(v)
  PROVE  Restamped(v, WithCSNs(v))
<1> DEFINE c == GetCSNOr(v.creation_tid, v.creation_csn)
           r == GetCSNOr(v.removal_tid, v.removal_csn)
<1>1. c \in CSNs /\ r \in CSNs /\ TrueCreation(v.creation_tid, c) /\ TrueRemoval(v.removal_tid, r)
  BY GetCSNOrFacts, MetadataFacts DEF TrueMetadata
<1> HIDE DEF c, r
<1>2. \/ WithCSNs(v) = v
      \/ WithCSNs(v) = [v EXCEPT !.creation_csn = c]
      \/ WithCSNs(v) = [v EXCEPT !.creation_csn = c, !.removal_csn = r]
  BY DEF WithCSNs, c, r, Metadata
<1> QED  BY <1>1, <1>2 DEF Restamped, TrueMetadata, Metadata

LEMMA AfterIsVisibleFacts ==
  ASSUME IInv, TxnInv, alive, NEW v \in Metadata, TrueMetadata(v), NEW s, NEW t
  PROVE  Restamped(v, AfterIsVisible(v, s, t))
BY WithCSNsFacts DEF AfterIsVisible, Restamped

LEMMA AfterCanBeRemovedFacts ==
  ASSUME IInv, TxnInv, alive, NEW v \in Metadata, TrueMetadata(v)
  PROVE  Restamped(v, AfterCanBeRemoved(v))
<1>1. PICK w : w = WithCSNs(v)
  OBVIOUS
<1>2. Restamped(v, w)
  BY <1>1, WithCSNsFacts
<1>3. \/ AfterCanBeRemoved(v) = v \/ AfterCanBeRemoved(v) = w
      \/ AfterCanBeRemoved(v) = [v EXCEPT !.creation_csn = w.creation_csn]
  BY <1>1 DEF AfterCanBeRemoved
<1> QED  BY <1>2, <1>3 DEF Restamped, TrueMetadata, Metadata

-----------------------------------------------------------------------------
(* Steps that put CSNs into parts, or nothing at all. *)

(* Parts in use and locks of x are what they were, or less. *)
Quiet(x) ==
  /\ creating'[x] = creating[x] /\ removing'[x] = removing[x] /\ new_part'[x] = new_part[x]
  /\ client'[x] \in {"written", "remove", "append", "undo"} =>
       /\ client[x] \in {"written", "remove", "append", "undo"}
       /\ Range(covered'[x]) \subseteq Range(covered[x])
  /\ Writing(x)' => Writing(x)
  /\ client[x] = "append" => client'[x] = "append" /\ covered'[x] = covered[x]
  /\ finish[x] = "done" => finish'[x] = "done"
  /\ Running(x)' => Running(x) \/ IsReadOnly(x)
  /\ TodoIsMine(x)' /\ (Holding(x)' = Holding(x) \/ Holding(x)' = <<>>)

ReadsOn == \A x \in Txns : read'[x].pc # None => read[x].pc # None /\ read'[x].part = read[x].part

LEMMA QuietFacts ==
  ASSUME \A x \in Txns : Quiet(x), ReadsOn
  PROVE  /\ \A p \in Parts : InUse(p)' => InUse(p)
         /\ \A x \in Txns : \A p \in Parts : CreatedBy(x, p)' => CreatedBy(x, p)
<1>1. ASSUME NEW p \in Parts, InUse(p)' PROVE InUse(p)
  <2>1. PICK x \in Txns :
          \/ finish'[x] # "done" /\ p \in Range(creating'[x] \o removing'[x])
          \/ client'[x] \in {"written", "remove", "append", "undo"} /\ p \in {new_part'[x]} \cup Range(covered'[x])
          \/ read'[x].pc # None /\ p = read'[x].part
    BY <1>1 DEF InUse
  <2> QED  BY <2>1 DEF InUse, Quiet, ReadsOn
<1>2. ASSUME NEW x \in Txns, NEW p \in Parts, CreatedBy(x, p)' PROVE CreatedBy(x, p)
  <2>1. Quiet(x)
    OBVIOUS
  <2>2. Writing(x)' => Writing(x)
    BY <2>1 DEF Quiet
  <2>3. IsReadOnly(x) => Range(creating[x]) = {}
    BY EmptyRange DEF IsReadOnly
  <2> QED  BY <1>2, <2>1, <2>2, <2>3 DEF Quiet, CreatedBy
<1> QED  BY <1>1, <1>2

SameTIDs(f, g) ==
  \A p \in Parts : g[p].creation_tid = f[p].creation_tid /\ g[p].removal_tid = f[p].removal_tid

(* Parts stay locked for removal by x, or x has let go of all of them. *)
KeepsLocks(x) ==
  /\ TodoIsMine(x)' /\ removing'[x] = removing[x]
  /\ Holding(x)' = Holding(x) \/ Holding(x)' = <<>>
  /\ client[x] = "append" => client'[x] = "append" /\ covered'[x] = covered[x]

LEMMA FramePartInv ==
  ASSUME IInv, TxnInv, PartInv, Grows, \A x \in Txns : Stays(x),
         PartTypes', UNCHANGED <<on_disk, loaded>>,
         SameTIDs(version, version'), SameTIDs(file, file'),
         \A p \in Parts : state'[p] # None <=> state[p] # None,
         \A p \in Parts : p \notin on_disk => file'[p] = NoMetadata,
         \A p \in Parts : InUse(p)' => Present(p),
         \A x \in Txns : \A p \in Parts : CreatedBy(x, p)' => CreatedBy(x, p),
         \A x \in Txns : KeepsLocks(x),
         \A p \in loaded \cap on_disk : file'[p].removal_csn # UnknownCSN =>
            file[p].removal_csn # UnknownCSN \/ file[p].removal_tid = version[p].removal_tid,
         \A p \in Parts : TrueMetadata(version[p])' /\ TrueMetadata(file[p])',
         \A x \in Txns : ReadIsTrue(x)'
  PROVE  PartInv'
<1>1. PartsArePresent'
  BY DEF PartInv, PartsArePresent, Present
<1>2. ASSUME NEW x \in Txns, \/ client[x] # "idle" \/ \E p \in Parts : CreatedBy(x, p) \/ p \in Range(Holding(x))
      PROVE  tid'[x] = tid[x]
  <2>1. client[x] = "idle" => IsReadOnly(x) /\ ~Running(x) /\ finish[x] = None
    BY DEF TxnInv, Outcome, RunningIsUnfinished
  <2>2. client[x] # "idle"
    BY <1>2, <2>1, EmptyRange DEF CreatedBy, Holding, IsReadOnly, Writing, None
  <2> QED  BY <2>2 DEF Stays
<1>3. CreatedIsNamed'
  BY <1>2 DEF PartInv, CreatedIsNamed, SameTIDs
<1>4. RemovedIsLocked'
  <2> SUFFICES ASSUME NEW x \in Txns
               PROVE  /\ Unique(Holding(x)') /\ Unique(removing'[x])
                      /\ \A p \in Range(Holding(x)') : version'[p].removal_tid = tid'[x]
    BY DEF RemovedIsLocked, KeepsLocks
  <2>1. Unique(Holding(x)) /\ Unique(removing[x]) /\ \A p \in Range(Holding(x)) : version[p].removal_tid = tid[x]
    BY DEF PartInv, RemovedIsLocked
  <2>2. Unique(<<>>) /\ Range(<<>>) = {}
    BY EmptyRange DEF Unique
  <2>3. Range(Holding(x)) \subseteq Parts
    <3>1. Holding(x) \in Seq(Parts)
      BY DEF TxnInv, TxnTypes, Holding
    <3> QED  BY <3>1, SequenceFacts
  <2>r. removing'[x] = removing[x]
    BY DEF KeepsLocks
  <2>4. CASE Holding(x)' = <<>>
    BY <2>1, <2>2, <2>4, <2>r
  <2>5. CASE Holding(x)' = Holding(x)
    BY <1>2, <2>1, <2>3, <2>5, <2>r DEF SameTIDs
  <2> QED  BY <2>4, <2>5 DEF KeepsLocks
<1>5. FileIsLocked'
  <2> SUFFICES ASSUME NEW x \in Txns, csn'[x] # RolledBackCSN, NEW p \in Range(Holding(x)')
               PROVE  Appending(x, p)' \/ file'[p].removal_tid = tid'[x]
    BY DEF FileIsLocked
  <2>1. Holding(x)' = Holding(x)
    BY EmptyRange DEF KeepsLocks
  <2>2. p \in Parts
    <3>1. Holding(x) \in Seq(Parts)
      BY DEF TxnInv, TxnTypes, Holding
    <3> QED  BY <2>1, <3>1, SequenceFacts
  <2>3. tid'[x] = tid[x]
    BY <1>2, <2>1, <2>2
  <2>4. csn[x] # RolledBackCSN
    BY DEF Stays
  <2>5. Appending(x, p) \/ file[p].removal_tid = tid[x]
    BY <2>1, <2>4 DEF PartInv, FileIsLocked
  <2> QED  BY <2>2, <2>3, <2>5 DEF Appending, SameTIDs, KeepsLocks
<1>6. FileCSNIsFinal'
  BY DEF PartInv, PartTypes, FileCSNIsFinal, SameTIDs
<1>7. UnloadedIsOld'
  BY DEF PartInv, PartTypes, UnloadedIsOld, SameTIDs, Grows
<1>8. MetadataIsTrue'
  BY DEF PartInv, MetadataIsTrue, NamesAreKnown, SameTIDs, Grows
<1> QED  BY <1>1, <1>3, <1>4, <1>5, <1>6, <1>7, <1>8 DEF PartInv

(* What is true stays true. *)
LEMMA TruthGrows ==
  ASSUME Grows
  PROVE  /\ \A t, c : TrueRemoval(t, c) => TrueRemoval(t, c)'
         /\ \A t, c : TrueCreation(t, c) => TrueCreation(t, c)'
<1>1. \A t, c : TrueRemoval(t, c) => TrueRemoval(t, c)'
  BY DEF Grows, TrueRemoval
<1> QED  BY <1>1 DEF Grows, TrueCreation

LEMMA SameReads ==
  ASSUME Grows, NEW x \in Txns, ReadIsTrue(x), read'[x] = read[x],
         read[x].pc # None =>
           /\ version'[read[x].part].creation_tid = version[read[x].part].creation_tid
           /\ version'[read[x].part].removal_tid = version[read[x].part].removal_tid
  PROVE  ReadIsTrue(x)'
<1>1. CASE read[x].pc = None
  BY <1>1 DEF ReadIsTrue
<1>2. CASE read[x].pc # None
  <2>1. /\ TrueCreation(version'[read'[x].part].creation_tid, read'[x].creation_csn)
        /\ TrueRemoval(version'[read'[x].part].removal_tid, read'[x].removal_csn)
        /\ \/ read'[x].removal_tid \in DoomedTIDs'
           \/ read'[x].removal_tid = version'[read'[x].part].removal_tid
    BY <1>2 DEF ReadIsTrue, Grows
  <2>2. read'[x].part \in Parts
    BY <1>2 DEF ReadIsTrue
  <2> QED  BY <2>1, <2>2, TruthGrows DEF ReadIsTrue
<1> QED  BY <1>1, <1>2

(* Neither the metadata nor the set of parts changes. *)
LEMMA QuietPartInv ==
  ASSUME IInv, TxnInv, PartInv, Next, UNCHANGED <<version, file, read, on_disk, loaded>>,
         state' \in [Parts -> {None, "PreActive", "Active", "Outdated"}],
         \A p \in Parts : state'[p] # None <=> state[p] # None,
         \A x \in Txns : Quiet(x)
  PROVE  PartInv'
<1>1. Grows /\ \A x \in Txns : Stays(x)
  BY NextGrows, NextStays
<1>2. PartTypes' /\ SameTIDs(version, version') /\ SameTIDs(file, file')
  BY DEF PartInv, PartTypes, SameTIDs
<1>3. ReadsOn
  BY DEF ReadsOn
<1>4. \A p \in Parts : p \notin on_disk => file'[p] = NoMetadata
  BY DEF PartInv, PartsArePresent
<1>5. \A p \in Parts : InUse(p)' => Present(p)
  BY <1>3, QuietFacts DEF PartInv, PartsArePresent
<1>6. \A x \in Txns : \A p \in Parts : CreatedBy(x, p)' => CreatedBy(x, p)
  BY <1>3, QuietFacts
<1>7. \A x \in Txns : KeepsLocks(x)
  BY DEF Quiet, KeepsLocks
<1>8. \A p \in Parts : TrueMetadata(version[p])' /\ TrueMetadata(file[p])'
  BY <1>1, TruthGrows DEF PartInv, MetadataIsTrue, TrueMetadata
<1>9. \A x \in Txns : ReadIsTrue(x)'
  BY <1>1, SameReads DEF PartInv
<1> QED  BY <1>1, <1>2, <1>4, <1>5, <1>6, <1>7, <1>8, <1>9, FramePartInv

(* The programs and changes of y stay as they are. *)
Untouched(y) ==
  /\ csn'[y] = csn[y] /\ client'[y] = client[y] /\ finish'[y] = finish[y] /\ todo'[y] = todo[y]
  /\ creating'[y] = creating[y] /\ removing'[y] = removing[y]
  /\ new_part'[y] = new_part[y] /\ covered'[y] = covered[y]

LEMMA UntouchedIsQuiet ==
  ASSUME TxnInv, TxnInv', PartInv, NEW y \in Txns, Untouched(y)
  PROVE  Quiet(y)
<1>1. Running(y)' => Running(y)
  BY DEF TxnInv, RunningIsUnfinished, Untouched
<1>2. TodoIsMine(y)' /\ Holding(y)' = Holding(y)
  BY DEF PartInv, RemovedIsLocked, TodoIsMine, Holding, Untouched
<1> QED  BY <1>1, <1>2 DEF Quiet, Untouched, Writing, Truncating

LEMMA TxnIsQuiet ==
  ASSUME TxnInv, TxnInv', NEW x \in Txns, UNCHANGED <<creating, removing, new_part, covered>>,
         \/ client'[x] = client[x]
         \/ client'[x] \notin {"written", "remove", "append", "undo"} /\ client[x] # "append",
         finish[x] = "done" => finish'[x] = "done",
         TodoIsMine(x)', Holding(x)' = Holding(x) \/ Holding(x)' = <<>>
  PROVE  Quiet(x)
<1>1. Running(x)' => Running(x) \/ IsReadOnly(x)
  BY DEF TxnInv, RunningIsUnfinished, Outcome
<1> QED  BY <1>1 DEF Quiet, Writing, Truncating

(* Steps of the updating thread, of start-up and of a KILL that comes too late. *)
LEMMA ServerPartInv ==
  ASSUME IInv, TxnInv, TxnInv', PartInv, Next,
         \/ UpdaterStep \/ UpdaterRequestFails \/ StartServer \/ ServerStarted
         \/ \E x \in Txns : KillFails(x) \/ KillReturns(x) \/ EndUnknownState(x)
  PROVE  PartInv'
<1>1. UNCHANGED <<version, file, read, partVars, csn, client, writeVars, changes, ending>>
  BY DEF UpdaterStep, UpdaterRequestFails, StartServer, ServerStarted, KillFails, KillReturns, EndUnknownState, txnVars
<1>2. \A y \in Txns : Quiet(y)
  BY <1>1, UntouchedIsQuiet DEF Untouched, writeVars, changes, ending
<1>3. UNCHANGED <<version, file, read, on_disk, loaded, state>>
  BY <1>1 DEF partVars
<1> QED  BY <1>2, <1>3, QuietPartInv DEF PartInv, PartTypes

(* A step of x that touches no part. *)
LEMMA TxnPartInv ==
  ASSUME IInv, TxnInv, TxnInv', PartInv, Next, NEW x \in Txns, Quiet(x),
         \A y \in Txns : y # x => Untouched(y), UNCHANGED <<version, file, read, partVars>>
  PROVE  PartInv'
<1>1. \A y \in Txns : Quiet(y)
  BY UntouchedIsQuiet
<1> QED  BY <1>1, QuietPartInv DEF PartInv, PartTypes, partVars

LEMMA StartRollbackPartInv ==
  ASSUME IInv, TxnInv, TxnInv', PartInv, Next, NEW x \in Txns,
         ClientRollsBack(x) \/ Kill(x) \/ RollBackUnknownState(x)
  PROVE  PartInv'
<1> USE DEF writeVars, changes, ending
<1>t. /\ csn \in [Txns -> Nat] /\ client \in [Txns -> ClientStates] /\ finish \in [Txns -> FinishStates]
      /\ todo \in [Txns -> Seq(Parts)] /\ Outcome(x) /\ TodoIsMine(x)
  BY DEF TxnInv, TxnTypes, PartInv, RemovedIsLocked
<1>0. UNCHANGED <<version, file, read, partVars, creating, removing, new_part, covered>>
  BY DEF ClientRollsBack, Kill, RollBackUnknownState
<1>1. /\ client' = client \/ (client' = [client EXCEPT ![x] = "end"] /\ client[x] \in {"ready", "exception"})
      /\ UNCHANGED <<csn, finish, todo>> \/ StartRollback(x)
  BY DEF ClientRollsBack, Kill, RollBackUnknownState, Idle
<1>2. \A y \in Txns : y # x => Untouched(y)
  BY <1>t, <1>0, <1>1 DEF Untouched, StartRollback
<1>3. CASE UNCHANGED <<csn, finish, todo>>
  <2>1. TodoIsMine(x)' /\ Holding(x)' = Holding(x)
    BY <1>t, <1>0, <1>3 DEF TodoIsMine, Holding
  <2> QED  BY <1>t, <1>0, <1>1, <1>2, <1>3, <2>1, TxnIsQuiet, TxnPartInv
<1>4. CASE StartRollback(x)
  <2>1. csn[x] = UnknownCSN /\ finish'[x] = "mark" /\ todo'[x] = creating[x]
    BY <1>4, <1>t DEF StartRollback
  <2>2. finish[x] # "done"
    BY <1>4, <1>t, <2>1
       DEF ClientRollsBack, Kill, RollBackUnknownState, Idle, TxnInv, RunningIsUnfinished, Outcome, None
  <2>3. finish[x] \notin {"clear", "unlock"}
    BY <1>t, <2>1, CSNFacts DEF Outcome, Rollback
  <2>4. TodoIsMine(x)' /\ Holding(x)' = removing[x]
    BY <1>0, <2>1 DEF TodoIsMine, Holding
  <2>5. Holding(x) = removing[x]
    BY <1>t, <2>1, <2>2, <2>3 DEF TodoIsMine, Holding
  <2> QED  BY <1>t, <1>0, <1>1, <1>2, <2>1, <2>2, <2>4, <2>5, TxnIsQuiet, TxnPartInv
<1> QED  BY <1>1, <1>3, <1>4

LEMMA CommitPartInv ==
  ASSUME IInv, TxnInv, TxnInv', PartInv, Next, NEW x \in Txns,
         \/ Begin(x) \/ BeforeCommit(x) \/ Commit(x) \/ CommitLost(x) \/ Postpone(x) \/ CommitRefused(x)
         \/ AfterCommit(x) \/ DecideUnknownState(x) \/ Release(x)
  PROVE  PartInv'
<1> USE DEF writeVars, changes, ending
<1>t. /\ csn \in [Txns -> Nat] /\ client \in [Txns -> ClientStates] /\ finish \in [Txns -> FinishStates]
      /\ todo \in [Txns -> Seq(Parts)] /\ Outcome(x) /\ TodoIsMine(x)
  BY DEF TxnInv, TxnTypes, PartInv, RemovedIsLocked
<1>0. UNCHANGED <<version, file, read, partVars, creating, removing, new_part, covered>>
  BY DEF Begin, BeforeCommit, Commit, CommitLost, Postpone, CommitRefused, AfterCommit, DecideUnknownState, Release
<1>1. \/ client' = client
      \/ \E c \in {"ready", "commit", "end", "lost", "exception"} :
           client' = [client EXCEPT ![x] = c] /\ client[x] \in {"idle", "ready", "commit", "lost"}
  BY DEF Begin, BeforeCommit, Commit, CommitLost, Postpone, CommitRefused, AfterCommit, DecideUnknownState, Release, Idle
<1>2. /\ csn' = csn \/ \E c : csn' = [csn EXCEPT ![x] = c]
      /\ finish' = finish \/ \E c : finish' = [finish EXCEPT ![x] = c]
      /\ todo' = todo \/ \E c : todo' = [todo EXCEPT ![x] = c]
  BY DEF Begin, BeforeCommit, Commit, CommitLost, Postpone, CommitRefused, AfterCommit, DecideUnknownState, Release
<1>3. \A y \in Txns : y # x => Untouched(y)
  BY <1>t, <1>0, <1>1, <1>2 DEF Untouched
<1>4. CASE Begin(x) \/ BeforeCommit(x) \/ Commit(x) \/ CommitLost(x) \/ Postpone(x) \/ CommitRefused(x)
  <2>1. \/ finish[x] = None /\ finish'[x] \in {None, "committed", "unknown"}
        \/ UNCHANGED <<csn, finish, todo>>
    BY <1>4, <1>t DEF Begin, BeforeCommit, Commit, CommitLost, Postpone, CommitRefused, Outcome, Idle
  <2>2. TodoIsMine(x)' /\ Holding(x)' = Holding(x)
    BY <1>t, <1>0, <2>1 DEF TodoIsMine, Holding, None
  <2>3. finish[x] = "done" => finish'[x] = "done"
    BY <2>1 DEF None
  <2> QED  BY <1>t, <1>0, <1>1, <1>3, <2>2, <2>3, TxnIsQuiet, TxnPartInv
<1>5. CASE AfterCommit(x)
  <2>1. finish[x] = "committed" /\ finish'[x] = "stamp_created" /\ todo'[x] = creating[x]
    BY <1>5, <1>t DEF AfterCommit
  <2>2. TodoIsMine(x)' /\ Holding(x)' = Holding(x)
    BY <1>0, <2>1 DEF TodoIsMine, Holding
  <2> QED  BY <1>t, <1>0, <1>1, <1>3, <2>1, <2>2, TxnIsQuiet, TxnPartInv
<1>6. CASE DecideUnknownState(x)
  <2>1. finish[x] = "unknown" /\ finish'[x] \in {"committed", "unguarded"}
    BY <1>6, <1>t DEF DecideUnknownState
  <2>2. TodoIsMine(x)' /\ Holding(x)' = Holding(x)
    BY <1>0, <2>1 DEF TodoIsMine, Holding
  <2> QED  BY <1>t, <1>0, <1>1, <1>3, <2>1, <2>2, TxnIsQuiet, TxnPartInv
<1>7. CASE Release(x)
  <2>1. finish[x] = "release" /\ finish'[x] = "done"
    BY <1>7, <1>t DEF Release
  <2>2. TodoIsMine(x)' /\ Holding(x)' = Holding(x)
    BY <1>0, <2>1 DEF TodoIsMine, Holding
  <2> QED  BY <1>t, <1>0, <1>1, <1>3, <2>1, <2>2, TxnIsQuiet, TxnPartInv
<1> QED  BY <1>4, <1>5, <1>6, <1>7

-----------------------------------------------------------------------------
(* The end of a transaction, and the CSNs it puts into parts. *)

LEMMA ConcatRange ==
  ASSUME NEW S, NEW s \in Seq(S), NEW t \in Seq(S)
  PROVE  Range(s \o t) = Range(s) \cup Range(t)
<1>1. /\ Len(s) \in Nat /\ Len(t) \in Nat /\ DOMAIN s = 1..Len(s) /\ DOMAIN t = 1..Len(t)
      /\ DOMAIN (s \o t) = 1..(Len(s) + Len(t))
  OBVIOUS
<1>2. \A i \in 1..Len(s) : (s \o t)[i] = s[i]
  OBVIOUS
<1>3. \A i \in 1..Len(t) : (s \o t)[Len(s) + i] = t[i]
  OBVIOUS
<1>4. \A i \in 1..(Len(s) + Len(t)) : i \in 1..Len(s) \/ \E j \in 1..Len(t) : i = Len(s) + j
  <2> SUFFICES ASSUME NEW i \in 1..(Len(s) + Len(t)), i \notin 1..Len(s) PROVE \E j \in 1..Len(t) : i = Len(s) + j
    OBVIOUS
  <2>1. i - Len(s) \in 1..Len(t) /\ i = Len(s) + (i - Len(s))
    BY <1>1
  <2> QED  BY <2>1
<1>5. ASSUME NEW e \in Range(s \o t) PROVE e \in Range(s) \cup Range(t)
  <2>1. PICK i \in 1..(Len(s) + Len(t)) : e = (s \o t)[i]
    BY <1>1 DEF Range
  <2> QED  BY <1>1, <1>2, <1>3, <1>4, <2>1 DEF Range
<1>6. ASSUME NEW e \in Range(s) PROVE e \in Range(s \o t)
  <2>1. PICK i \in 1..Len(s) : e = s[i]
    BY <1>1, <1>6 DEF Range
  <2>2. i \in 1..(Len(s) + Len(t)) /\ e = (s \o t)[i]
    BY <1>1, <1>2, <2>1
  <2> QED  BY <1>1, <2>2 DEF Range
<1>7. ASSUME NEW e \in Range(t) PROVE e \in Range(s \o t)
  <2>1. PICK i \in 1..Len(t) : e = t[i]
    BY <1>1, <1>7 DEF Range
  <2>2. Len(s) + i \in 1..(Len(s) + Len(t)) /\ e = (s \o t)[Len(s) + i]
    BY <1>1, <1>3, <2>1
  <2> QED  BY <1>1, <2>2 DEF Range
<1> QED  BY <1>5, <1>6, <1>7

(* Parts that an unfinished transaction has changed are there. *)
LEMMA ChangedIsPresent ==
  ASSUME TxnInv, PartInv, NEW x \in Txns, finish[x] # "done",
         NEW p, p \in Range(creating[x]) \/ p \in Range(removing[x])
  PROVE  p \in Parts /\ InUse(p) /\ Present(p)
<1>1. creating[x] \in Seq(Parts) /\ removing[x] \in Seq(Parts)
  BY DEF TxnInv, TxnTypes
<1>2. p \in Parts
  BY <1>1, SequenceFacts
<1>3. p \in Range(creating[x] \o removing[x])
  BY <1>1, ConcatRange
<1>4. InUse(p)
  BY <1>3 DEF InUse
<1> QED  BY <1>2, <1>4 DEF PartInv, PartsArePresent

LEMMA FinishIsQuiet ==
  ASSUME TxnInv, TxnInv', PartInv, NEW x \in Txns,
         \/ StampCreated(x) \/ StampRemoved(x) \/ MarkRolledBack(x) \/ OutdateCreated(x)
         \/ RestoreRemoved(x) \/ ClearRemoved(x)
  PROVE  \A y \in Txns : Quiet(y)
<1> USE DEF writeVars, changes, NextPart, NextPhase
<1>t. /\ finish \in [Txns -> FinishStates] /\ todo \in [Txns -> Seq(Parts)] /\ Outcome(x) /\ TodoIsMine(x)
  BY DEF TxnInv, TxnTypes, PartInv, RemovedIsLocked
<1>0. UNCHANGED <<csn, client, creating, removing, new_part, covered>> /\ finish[x] # "done"
  BY DEF StampCreated, StampRemoved, MarkRolledBack, OutdateCreated, RestoreRemoved, ClearRemoved
<1>1. /\ finish' = finish \/ \E c : finish' = [finish EXCEPT ![x] = c]
      /\ todo' = todo \/ \E c : todo' = [todo EXCEPT ![x] = c]
  BY DEF StampCreated, StampRemoved, MarkRolledBack, OutdateCreated, RestoreRemoved, ClearRemoved
<1>2. \A y \in Txns : y # x => Untouched(y)
  BY <1>t, <1>0, <1>1 DEF Untouched
<1>3. Range(<<>>) = {} /\ (todo[x] # <<>> => Range(Tail(todo[x])) \subseteq Range(todo[x]))
  BY <1>t, EmptyRange, SequenceFacts
<1>4. finish[x] = "stamp_removed" => csn[x] # UnknownCSN \/ removing[x] = <<>>
  <2> SUFFICES ASSUME finish[x] = "stamp_removed", ~IsReadOnly(x) PROVE csn[x] # UnknownCSN
    BY DEF IsReadOnly
  <2>1. [csn |-> csn[x], tid |-> tid[x]] \in committed
    BY <1>t DEF Outcome
  <2> QED  BY <2>1, CSNFacts DEF TxnInv, CommitNumbers
<1>5. TodoIsMine(x)' /\ (Holding(x)' = Holding(x) \/ Holding(x)' = <<>>)
  <2>1. CASE StampCreated(x) /\ todo[x] = <<>>
    <3>1. finish[x] = "stamp_created" /\ finish'[x] = "stamp_removed" /\ todo'[x] = removing[x]
      BY <1>t, <2>1 DEF StampCreated
    <3> QED  BY <1>0, <3>1 DEF TodoIsMine, Holding
  <2>2. CASE StampRemoved(x) /\ todo[x] = <<>>
    <3>1. finish[x] = "stamp_removed" /\ finish'[x] = "release" /\ todo'[x] = <<>>
      BY <1>t, <2>2 DEF StampRemoved
    <3> QED  BY <1>0, <1>4, <3>1 DEF TodoIsMine, Holding
  <2>3. CASE MarkRolledBack(x) /\ todo[x] = <<>>
    <3>1. finish[x] = "mark" /\ finish'[x] = "outdate" /\ todo'[x] = creating[x]
      BY <1>t, <2>3 DEF MarkRolledBack
    <3> QED  BY <1>0, <3>1 DEF TodoIsMine, Holding
  <2>4. CASE OutdateCreated(x) /\ todo[x] = <<>>
    <3>1. finish[x] = "outdate" /\ finish'[x] = "activate" /\ todo'[x] = removing[x]
      BY <1>t, <2>4 DEF OutdateCreated
    <3> QED  BY <1>0, <3>1 DEF TodoIsMine, Holding
  <2>5. CASE RestoreRemoved(x) /\ todo[x] = <<>>
    <3>1. finish[x] = "activate" /\ finish'[x] = "clear" /\ todo'[x] = removing[x]
      BY <1>t, <2>5 DEF RestoreRemoved
    <3> QED  BY <1>0, <3>1 DEF TodoIsMine, Holding
  <2>6. CASE ClearRemoved(x)
    <3>1. finish[x] = "clear" /\ csn[x] # UnknownCSN
      BY <1>t, <2>6, CSNFacts DEF ClearRemoved, Outcome, Rollback
    <3>2. CASE todo[x] = <<>>
      <4>1. finish'[x] = "release"
        BY <1>t, <2>6, <3>2 DEF ClearRemoved
      <4> QED  BY <1>0, <3>1, <4>1 DEF TodoIsMine, Holding
    <3>3. CASE todo[x] # <<>>
      <4>1. finish'[x] = "unlock" /\ todo'[x] = todo[x]
        BY <1>t, <2>6, <3>3 DEF ClearRemoved
      <4> QED  BY <1>0, <1>t, <3>1, <4>1 DEF TodoIsMine, Holding
    <3> QED  BY <3>2, <3>3
  <2>7. CASE ~ClearRemoved(x) /\ todo[x] # <<>>
    <3>1. /\ finish[x] \in {"stamp_created", "stamp_removed", "mark", "outdate", "activate"}
          /\ finish'[x] = finish[x] /\ todo'[x] = Tail(todo[x])
      BY <1>t, <2>7 DEF StampCreated, StampRemoved, MarkRolledBack, OutdateCreated, RestoreRemoved
    <3>2. TodoIsMine(x)'
      BY <1>0, <1>t, <1>3, <2>7, <3>1 DEF TodoIsMine
    <3> QED  BY <1>0, <3>1, <3>2 DEF Holding
  <2> QED  BY <2>1, <2>2, <2>3, <2>4, <2>5, <2>6, <2>7
<1>6. Quiet(x)
  BY <1>0, <1>5, TxnIsQuiet
<1> QED  BY <1>2, <1>6, UntouchedIsQuiet

(* The metadata of p changes, its TIDs do not. *)
LEMMA StampPartInv ==
  ASSUME IInv, TxnInv, PartInv, Next, UNCHANGED <<read, on_disk, loaded>>,
         state' \in [Parts -> {None, "PreActive", "Active", "Outdated"}],
         \A q \in Parts : state'[q] # None <=> state[q] # None,
         \A x \in Txns : Quiet(x),
         NEW p \in Parts, p \in on_disk, NEW v \in Metadata, NEW w \in Metadata,
         version' = [version EXCEPT ![p] = v], file' = [file EXCEPT ![p] = w],
         v.creation_tid = version[p].creation_tid, v.removal_tid = version[p].removal_tid,
         w.creation_tid = file[p].creation_tid, w.removal_tid = file[p].removal_tid,
         TrueMetadata(v)', TrueMetadata(w)',
         w.removal_csn = file[p].removal_csn \/ file[p].removal_tid = version[p].removal_tid
  PROVE  PartInv'
<1>1. Grows /\ \A x \in Txns : Stays(x)
  BY NextGrows, NextStays
<1>t. version \in [Parts -> Metadata] /\ file \in [Parts -> Metadata]
  BY DEF PartInv, PartTypes
<1>2. PartTypes' /\ SameTIDs(version, version') /\ SameTIDs(file, file')
  BY <1>t DEF PartInv, PartTypes, SameTIDs
<1>3. ReadsOn
  BY DEF ReadsOn
<1>4. \A q \in Parts : q \notin on_disk => file'[q] = NoMetadata
  BY <1>t DEF PartInv, PartsArePresent
<1>5. \A q \in Parts : InUse(q)' => Present(q)
  BY <1>3, QuietFacts DEF PartInv, PartsArePresent
<1>6. \A x \in Txns : \A q \in Parts : CreatedBy(x, q)' => CreatedBy(x, q)
  BY <1>3, QuietFacts
<1>7. \A x \in Txns : KeepsLocks(x)
  BY DEF Quiet, KeepsLocks
<1>8. \A q \in Parts : TrueMetadata(version[q])' /\ TrueMetadata(file[q])'
  <2> SUFFICES ASSUME NEW q \in Parts PROVE TrueMetadata(version[q])' /\ TrueMetadata(file[q])'
    OBVIOUS
  <2>1. CASE q = p
    <3>1. version'[q] = v /\ file'[q] = w
      BY <1>t, <2>1
    <3> QED  BY <3>1 DEF TrueMetadata
  <2>2. CASE q # p
    <3>1. version'[q] = version[q] /\ file'[q] = file[q]
      BY <1>t, <2>2
    <3> QED  BY <1>1, <3>1, TruthGrows DEF PartInv, MetadataIsTrue, TrueMetadata
  <2> QED  BY <2>1, <2>2
<1>9. \A x \in Txns : ReadIsTrue(x)'
  BY <1>1, <1>2, SameReads DEF PartInv, SameTIDs, ReadIsTrue
<1>10. \A q \in loaded \cap on_disk : file'[q].removal_csn # UnknownCSN =>
            file[q].removal_csn # UnknownCSN \/ file[q].removal_tid = version[q].removal_tid
  BY <1>t DEF PartInv, PartTypes
<1> QED  BY <1>1, <1>2, <1>4, <1>5, <1>6, <1>7, <1>8, <1>9, <1>10, FramePartInv

LEMMA StampCreatedPartInv ==
  ASSUME IInv, TxnInv, TxnInv', PartInv, Next, NEW x \in Txns, StampCreated(x)
  PROVE  PartInv'
<1>q. \A y \in Txns : Quiet(y)
  BY FinishIsQuiet
<1>0. UNCHANGED <<logVars, read, on_disk, loaded, state>> /\ finish[x] = "stamp_created"
  BY DEF StampCreated, partVars
<1>t. /\ version \in [Parts -> Metadata] /\ file \in [Parts -> Metadata] /\ todo[x] \in Seq(Parts)
      /\ state' \in [Parts -> {None, "PreActive", "Active", "Outdated"}] /\ csn[x] \in Nat
  BY <1>0 DEF PartInv, PartTypes, TxnInv, TxnTypes
<1>1. CASE todo[x] = <<>>
  BY <1>q, <1>0, <1>t, <1>1, QuietPartInv DEF StampCreated
<1>2. CASE todo[x] # <<>>
  <2>1. PICK p : p = Head(todo[x])
    OBVIOUS
  <2>2. p \in Range(creating[x])
    BY <1>0, <1>t, <1>2, <2>1, SequenceFacts DEF PartInv, RemovedIsLocked, TodoIsMine
  <2>3. p \in Parts /\ p \in on_disk
    BY <1>0, <2>2, ChangedIsPresent DEF Present
  <2>4. version[p].creation_tid = tid[x] /\ file[p].creation_tid = tid[x]
    <3>1. Running(x)
      BY <1>0 DEF TxnInv, RunningIsUnfinished, Outcome
    <3> QED  BY <2>2, <2>3, <3>1 DEF PartInv, CreatedIsNamed, CreatedBy
  <2>5. [csn |-> csn[x], tid |-> tid[x]] \in committed
    BY <1>0, <1>2 DEF TxnInv, Outcome
  <2>6. csn[x] \in CSNs
    BY <1>t, <2>5, MetadataFacts DEF TxnInv, CommitNumbers
  <2>7. PICK v : v = [version[p] EXCEPT !.creation_csn = csn[x]]
    OBVIOUS
  <2>8. PICK w : w = [file[p] EXCEPT !.creation_csn = csn[x]]
    OBVIOUS
  <2>9. version' = [version EXCEPT ![p] = v] /\ file' = [file EXCEPT ![p] = w]
    BY <1>2, <1>t, <2>1, <2>3, <2>7, <2>8 DEF StampCreated, AppendCreationCSN, Metadata
  <2>10. /\ v \in Metadata /\ v.creation_tid = version[p].creation_tid /\ v.removal_tid = version[p].removal_tid
         /\ w \in Metadata /\ w.creation_tid = file[p].creation_tid /\ w.removal_tid = file[p].removal_tid
         /\ v.creation_csn = csn[x] /\ w.creation_csn = csn[x]
         /\ v.removal_csn = version[p].removal_csn /\ w.removal_csn = file[p].removal_csn
    BY <1>t, <2>3, <2>6, <2>7, <2>8 DEF Metadata
  <2>11. TrueMetadata(v) /\ TrueMetadata(w)
    BY <2>3, <2>4, <2>5, <2>10 DEF PartInv, MetadataIsTrue, TrueMetadata, TrueCreation, TrueRemoval
  <2>12. TrueMetadata(v)' /\ TrueMetadata(w)'
    BY <2>11, NextGrows, TruthGrows DEF TrueMetadata
  <2> QED  BY <1>q, <1>0, <1>t, <2>3, <2>9, <2>10, <2>12, StampPartInv
<1> QED  BY <1>1, <1>2

LEMMA StampRemovedPartInv ==
  ASSUME IInv, TxnInv, TxnInv', PartInv, Next, NEW x \in Txns, StampRemoved(x)
  PROVE  PartInv'
<1>q. \A y \in Txns : Quiet(y)
  BY FinishIsQuiet
<1>0. UNCHANGED <<logVars, read, on_disk, loaded, state>> /\ finish[x] = "stamp_removed"
  BY DEF StampRemoved, partVars
<1>t. /\ version \in [Parts -> Metadata] /\ file \in [Parts -> Metadata] /\ todo[x] \in Seq(Parts)
      /\ state' \in [Parts -> {None, "PreActive", "Active", "Outdated"}] /\ csn[x] \in Nat
  BY <1>0 DEF PartInv, PartTypes, TxnInv, TxnTypes
<1>1. CASE todo[x] = <<>>
  BY <1>q, <1>0, <1>t, <1>1, QuietPartInv DEF StampRemoved
<1>2. CASE todo[x] # <<>>
  <2>1. PICK p : p = Head(todo[x])
    OBVIOUS
  <2>2. p \in Range(removing[x]) /\ Holding(x) = removing[x]
    BY <1>0, <1>t, <1>2, <2>1, SequenceFacts DEF PartInv, RemovedIsLocked, TodoIsMine, Holding
  <2>3. p \in Parts /\ p \in on_disk
    BY <1>0, <2>2, ChangedIsPresent DEF Present
  <2>5. [csn |-> csn[x], tid |-> tid[x]] \in committed
    BY <1>0, <1>2 DEF TxnInv, Outcome
  <2>6. csn[x] \in CSNs /\ csn[x] # RolledBackCSN
    BY <1>t, <2>5, MetadataFacts, CSNFacts DEF TxnInv, CommitNumbers
  <2>4. version[p].removal_tid = tid[x] /\ file[p].removal_tid = tid[x]
    <3>1. version[p].removal_tid = tid[x]
      BY <2>2 DEF PartInv, RemovedIsLocked
    <3>2. ~Appending(x, p)
      BY <1>0 DEF TxnInv, Outcome, Appending
    <3> QED  BY <2>2, <2>6, <3>1, <3>2 DEF PartInv, FileIsLocked
  <2>7. PICK v : v = [version[p] EXCEPT !.removal_csn = csn[x]]
    OBVIOUS
  <2>8. PICK w : w = [file[p] EXCEPT !.removal_csn = csn[x]]
    OBVIOUS
  <2>9. version' = [version EXCEPT ![p] = v] /\ file' = [file EXCEPT ![p] = w]
    BY <1>2, <1>t, <2>1, <2>3, <2>7, <2>8 DEF StampRemoved, AppendRemovalCSN, Metadata
  <2>10. /\ v \in Metadata /\ v.creation_tid = version[p].creation_tid /\ v.removal_tid = version[p].removal_tid
         /\ w \in Metadata /\ w.creation_tid = file[p].creation_tid /\ w.removal_tid = file[p].removal_tid
         /\ v.removal_csn = csn[x] /\ w.removal_csn = csn[x]
         /\ v.creation_csn = version[p].creation_csn /\ w.creation_csn = file[p].creation_csn
    BY <1>t, <2>3, <2>6, <2>7, <2>8 DEF Metadata
  <2>11. TrueMetadata(v) /\ TrueMetadata(w)
    BY <2>3, <2>4, <2>5, <2>10 DEF PartInv, MetadataIsTrue, TrueMetadata, TrueRemoval
  <2>12. TrueMetadata(v)' /\ TrueMetadata(w)'
    BY <2>11, NextGrows, TruthGrows DEF TrueMetadata
  <2> QED  BY <1>q, <1>0, <1>t, <2>3, <2>4, <2>9, <2>10, <2>12, StampPartInv
<1> QED  BY <1>1, <1>2

LEMMA MarkRolledBackPartInv ==
  ASSUME IInv, TxnInv, TxnInv', PartInv, Next, NEW x \in Txns, MarkRolledBack(x)
  PROVE  PartInv'
<1>q. \A y \in Txns : Quiet(y)
  BY FinishIsQuiet
<1>0. UNCHANGED <<logVars, read, on_disk, loaded, state>> /\ finish[x] = "mark"
  BY DEF MarkRolledBack, partVars
<1>t. /\ version \in [Parts -> Metadata] /\ file \in [Parts -> Metadata] /\ todo[x] \in Seq(Parts)
      /\ state' \in [Parts -> {None, "PreActive", "Active", "Outdated"}] /\ csn[x] = RolledBackCSN
  BY <1>0 DEF PartInv, PartTypes, TxnInv, TxnTypes, Outcome, Rollback
<1>1. CASE todo[x] = <<>>
  BY <1>q, <1>0, <1>t, <1>1, QuietPartInv DEF MarkRolledBack
<1>2. CASE todo[x] # <<>>
  <2>1. PICK p : p = Head(todo[x])
    OBVIOUS
  <2>2. p \in Range(creating[x])
    BY <1>0, <1>t, <1>2, <2>1, SequenceFacts DEF PartInv, RemovedIsLocked, TodoIsMine
  <2>3. p \in Parts /\ p \in on_disk
    BY <1>0, <2>2, ChangedIsPresent DEF Present
  <2>4. version[p].creation_tid = tid[x] /\ file[p].creation_tid = tid[x]
    <3>0. client[x] # "idle"
      <4>1. RolledBackCSN # UnknownCSN
        BY CSNFacts
      <4> QED  BY <1>t, <4>1 DEF TxnInv, Outcome
    <3>1. Running(x)
      BY <1>0, <3>0 DEF TxnInv, RunningIsUnfinished
    <3> QED  BY <2>2, <2>3, <3>1 DEF PartInv, CreatedIsNamed, CreatedBy
  <2>5. tid[x] \in DoomedTIDs
    BY <1>t DEF TxnInv, Outcome, Doomed, DoomedTIDs
  <2>6. PICK c \in CSNs : c = RolledBackCSN
    BY MetadataFacts
  <2>7. PICK v : v = [version[p] EXCEPT !.creation_csn = c]
    OBVIOUS
  <2>8. PICK w : w = [file[p] EXCEPT !.creation_csn = c]
    OBVIOUS
  <2>9. version' = [version EXCEPT ![p] = v] /\ file' = [file EXCEPT ![p] = w]
    BY <1>2, <1>t, <2>1, <2>3, <2>6, <2>7, <2>8 DEF MarkRolledBack, AppendCreationCSN, Metadata
  <2>10. /\ v \in Metadata /\ v.creation_tid = version[p].creation_tid /\ v.removal_tid = version[p].removal_tid
         /\ w \in Metadata /\ w.creation_tid = file[p].creation_tid /\ w.removal_tid = file[p].removal_tid
         /\ v.creation_csn = c /\ w.creation_csn = c
         /\ v.removal_csn = version[p].removal_csn /\ w.removal_csn = file[p].removal_csn
    BY <1>t, <2>3, <2>7, <2>8 DEF Metadata
  <2>11. TrueMetadata(v) /\ TrueMetadata(w)
    BY <2>3, <2>4, <2>5, <2>6, <2>10 DEF PartInv, MetadataIsTrue, TrueMetadata, TrueCreation
  <2>12. TrueMetadata(v)' /\ TrueMetadata(w)'
    BY <2>11, NextGrows, TruthGrows DEF TrueMetadata
  <2> QED  BY <1>q, <1>0, <1>t, <2>3, <2>9, <2>10, <2>12, StampPartInv
<1> QED  BY <1>1, <1>2

(* Steps of the set of parts. *)
LEMMA OutdatePartInv ==
  ASSUME IInv, TxnInv, TxnInv', PartInv, Next, NEW x \in Txns, OutdateCreated(x) \/ RestoreRemoved(x)
  PROVE  PartInv'
<1>q. \A y \in Txns : Quiet(y)
  BY FinishIsQuiet
<1>0. UNCHANGED <<version, file, read, on_disk, loaded>> /\ finish[x] \in {"outdate", "activate"}
  BY DEF OutdateCreated, RestoreRemoved
<1>t. state \in [Parts -> {None, "PreActive", "Active", "Outdated"}] /\ todo[x] \in Seq(Parts)
  BY DEF PartInv, PartTypes, TxnInv, TxnTypes
<1>1. \/ state' = state
      \/ todo[x] # <<>> /\ \E s \in {"Active", "Outdated"} : state' = [state EXCEPT ![Head(todo[x])] = s]
  BY DEF OutdateCreated, RestoreRemoved
<1>2. todo[x] # <<>> => Head(todo[x]) \in Range(creating[x]) \/ Head(todo[x]) \in Range(removing[x])
  BY <1>0, <1>t, SequenceFacts DEF PartInv, RemovedIsLocked, TodoIsMine
<1>3. todo[x] # <<>> => state[Head(todo[x])] # None
  BY <1>0, <1>2, ChangedIsPresent DEF Present
<1>4. /\ state' \in [Parts -> {None, "PreActive", "Active", "Outdated"}]
      /\ \A p \in Parts : state'[p] # None <=> state[p] # None
  BY <1>t, <1>1, <1>3 DEF None
<1> QED  BY <1>q, <1>0, <1>4, QuietPartInv

(* Parts that a query of x is working on are there. *)
LEMMA WorkedOnIsPresent ==
  ASSUME PartInv, NEW x \in Txns, NEW p \in Parts, p = new_part[x] \/ p \in Range(covered[x]),
         client[x] \in {"written", "remove", "append", "undo"}
  PROVE  Present(p)
<1>1. InUse(p)
  BY DEF InUse
<1> QED  BY <1>1 DEF PartInv, PartsArePresent

LEMMA EndOfQueryPartInv ==
  ASSUME IInv, TxnInv, TxnInv', PartInv, Next, NEW x \in Txns,
         SkipRolledBack(x) \/ TruncateEnds(x) \/ ActivatePart(x)
  PROVE  PartInv'
<1> USE DEF writeVars, changes, ending
<1>0. /\ UNCHANGED <<version, file, read, on_disk, loaded, csn, creating, removing, finish, todo, new_part>>
      /\ client[x] = "remove"
  BY DEF SkipRolledBack, TruncateEnds, ActivatePart
<1>t. /\ state \in [Parts -> {None, "PreActive", "Active", "Outdated"}] /\ covered \in [Txns -> Seq(Parts)]
      /\ client \in [Txns -> ClientStates] /\ covered[x] \in Seq(Parts) /\ new_part[x] \in Parts \cup {None}
  BY DEF PartInv, PartTypes, TxnInv, TxnTypes
<1>h. covered[x] # <<>> => Head(covered[x]) \in Parts /\ state[Head(covered[x])] # None
  BY <1>0, <1>t, HeadAndTail, WorkedOnIsPresent DEF Present
<1>n. new_part[x] # None => new_part[x] \in Parts /\ state[new_part[x]] # None
  BY <1>0, <1>t, WorkedOnIsPresent DEF Present
<1>1. /\ state' \in [Parts -> {None, "PreActive", "Active", "Outdated"}]
      /\ \A p \in Parts : state'[p] # None <=> state[p] # None
  <2>1. CASE SkipRolledBack(x)
    <3>1. covered[x] # <<>> /\ (state' = state \/ state' = [state EXCEPT ![Head(covered[x])] = "Outdated"])
      BY <2>1 DEF SkipRolledBack, OutdatedByTruncate
    <3> QED  BY <1>t, <1>h, <3>1 DEF None
  <2>2. CASE TruncateEnds(x)
    BY <1>t, <2>2 DEF TruncateEnds
  <2>3. CASE ActivatePart(x) /\ IsCovered(new_part[x])
    <3>1. new_part[x] # None /\ state' = [state EXCEPT ![new_part[x]] = "Outdated"]
      BY <2>3 DEF ActivatePart, Truncating
    <3> QED  BY <1>t, <1>n, <3>1 DEF None
  <2>4. CASE ActivatePart(x) /\ ~IsCovered(new_part[x])
    <3>1. /\ new_part[x] # None
          /\ state' = [q \in Parts |-> IF q = new_part[x] THEN "Active"
                                       ELSE IF q \in CoveredBy(new_part[x], "Active") THEN "Outdated" ELSE state[q]]
      BY <2>4 DEF ActivatePart, Truncating
    <3>2. \A q \in CoveredBy(new_part[x], "Active") : state[q] = "Active"
      BY DEF CoveredBy
    <3> QED  BY <1>t, <1>n, <3>1, <3>2 DEF None
  <2> QED  BY <2>1, <2>2, <2>3, <2>4
<1>2. /\ client' = client \/ client' = [client EXCEPT ![x] = "ready"]
      /\ covered' = covered \/ (covered[x] # <<>> /\ client' = client /\ covered' = [covered EXCEPT ![x] = Tail(covered[x])])
  BY DEF SkipRolledBack, TruncateEnds, ActivatePart
<1>3. \A y \in Txns : y # x => Untouched(y)
  BY <1>t, <1>0, <1>2 DEF Untouched
<1>4. Quiet(x)
  <2>1. Running(x)' => Running(x)
    BY <1>0, <1>t, <1>2 DEF TxnInv, RunningIsUnfinished
  <2>2. TodoIsMine(x)' /\ Holding(x)' = Holding(x)
    BY <1>0 DEF PartInv, RemovedIsLocked, TodoIsMine, Holding
  <2>3. covered[x] # <<>> => Range(Tail(covered[x])) \subseteq Range(covered[x])
    BY <1>t, SequenceFacts
  <2>4. Writing(x)' => Writing(x)
    BY <1>0, <1>t, <1>2 DEF Writing, Truncating
  <2> QED  BY <1>0, <1>t, <1>2, <2>1, <2>2, <2>3, <2>4 DEF Quiet
<1>5. \A y \in Txns : Quiet(y)
  BY <1>3, <1>4, UntouchedIsQuiet
<1> QED  BY <1>0, <1>1, <1>5, QuietPartInv

(* The part of a query that has failed is marked in memory. *)
LEMMA UndoPartPartInv ==
  ASSUME IInv, TxnInv, TxnInv', PartInv, Next, NEW x \in Txns, UndoPart(x)
  PROVE  PartInv'
<1> USE DEF writeVars, changes, ending
<1>0. /\ UNCHANGED <<logVars, file, read, on_disk, loaded, csn, creating, removing, finish, todo, new_part, covered>>
      /\ client[x] = "undo" /\ client' = [client EXCEPT ![x] = "exception"]
  BY DEF UndoPart
<1>t. /\ version \in [Parts -> Metadata] /\ file \in [Parts -> Metadata] /\ client \in [Txns -> ClientStates]
      /\ state \in [Parts -> {None, "PreActive", "Active", "Outdated"}]
  BY DEF PartInv, PartTypes, TxnInv, TxnTypes
<1>q. \A y \in Txns : Quiet(y)
  <2>1. TodoIsMine(x)' /\ Holding(x)' = Holding(x)
    BY <1>0 DEF PartInv, RemovedIsLocked, TodoIsMine, Holding
  <2>2. Quiet(x)
    BY <1>0, <1>t, <2>1, TxnIsQuiet
  <2>3. \A y \in Txns : y # x => Untouched(y)
    BY <1>0, <1>t DEF Untouched
  <2> QED  BY <2>2, <2>3, UntouchedIsQuiet
<1>1. PICK p : p = new_part[x]
  OBVIOUS
<1>2. p \in Parts
  BY <1>0, <1>1 DEF TxnInv, TxnTypes, AtHand
<1>3. p \in on_disk /\ state[p] # None
  BY <1>0, <1>1, <1>2, WorkedOnIsPresent DEF Present
<1>4. version[p].creation_tid = tid[x]
  BY <1>0, <1>1, <1>2 DEF PartInv, CreatedIsNamed, CreatedBy, Writing
<1>5. tid[x] \in DoomedTIDs'
  <2>1. tid' = tid /\ committed' = committed
    BY <1>0 DEF logVars, keeper, memory
  <2>2. ~IsCommitted(x)
    BY <1>0 DEF TxnInv, Outcome
  <2>3. Doomed(x)'
    BY <1>0, <1>t, <2>1, <2>2 DEF Doomed, IsCommitted
  <2> QED  BY <2>1, <2>3 DEF DoomedTIDs
<1>6. PICK c \in CSNs : c = RolledBackCSN
  BY MetadataFacts
<1>7. PICK v : v = [version[p] EXCEPT !.creation_csn = c]
  OBVIOUS
<1>8. version' = [version EXCEPT ![p] = v] /\ file' = [file EXCEPT ![p] = file[p]]
  BY <1>0, <1>t, <1>1, <1>2, <1>6, <1>7 DEF UndoPart, Metadata
<1>9. /\ v \in Metadata /\ v.creation_tid = version[p].creation_tid /\ v.removal_tid = version[p].removal_tid
      /\ v.creation_csn = c /\ v.removal_csn = version[p].removal_csn /\ file[p] \in Metadata
  BY <1>t, <1>2, <1>7 DEF Metadata
<1>10. TrueMetadata(v)' /\ TrueMetadata(file[p])'
  <2>1. TrueRemoval(v.removal_tid, v.removal_csn)'
    BY <1>2, <1>9, NextGrows, TruthGrows DEF PartInv, MetadataIsTrue, TrueMetadata
  <2>2. TrueCreation(v.creation_tid, v.creation_csn)'
    BY <1>4, <1>5, <1>6, <1>9 DEF TrueCreation
  <2>3. file'[p] = file[p]
    BY <1>0
  <2>4. TrueMetadata(file[p])'
    BY <1>2, <2>3, NextGrows, TruthGrows DEF PartInv, MetadataIsTrue, TrueMetadata
  <2> QED  BY <2>1, <2>2, <2>4 DEF TrueMetadata
<1>11. /\ state' \in [Parts -> {None, "PreActive", "Active", "Outdated"}]
       /\ \A q \in Parts : state'[q] # None <=> state[q] # None
  <2>1. state' = [state EXCEPT ![p] = "Outdated"]
    BY <1>1 DEF UndoPart
  <2> QED  BY <1>t, <1>2, <1>3, <2>1 DEF None
<1> QED  BY <1>q, <1>0, <1>2, <1>3, <1>8, <1>9, <1>10, <1>11, StampPartInv

-----------------------------------------------------------------------------
(* Queries run on a live server. *)
Served == \A x \in Txns : client[x] \notin {"idle", "end"} => alive

LEMMA NextServed ==
  ASSUME TxnInv, Served, Next
  PROVE  Served'
<1> USE DEF writeVars, changes, ending
<1>t. client \in [Txns -> ClientStates]
  BY DEF TxnInv, TxnTypes
<1>l. UNCHANGED logVars => alive' = alive
  BY DEF logVars, memory
<1>a. ASSUME alive' = alive, client' = client \/ \E x \in Txns : (client[x] \notin {"idle", "end"} \/ alive) /\ \E c : client' = [client EXCEPT ![x] = c]
      PROVE  Served'
  BY <1>a, <1>t DEF Served
<1>1. ASSUME NEW x \in Txns, ClientStep(x) PROVE Served'
  <2>1. CASE Begin(x)
    BY <1>a, <2>1 DEF Begin, BeginTransaction
  <2>2. CASE SelectStep(x) \/ (\E p \in Parts : Select(x, p)) \/ SkipRolledBack(x)
    BY <1>a, <1>l, <2>2 DEF SelectStep, Select, SkipRolledBack, txnVars
  <2>3. CASE (\E p \in Parts : WritePart(x, p)) \/ AddNewPart(x) \/ Truncate(x) \/ UndoPart(x)
    <3>1. UNCHANGED logVars /\ client[x] \notin {"idle", "end"}
      BY <2>3 DEF WritePart, AddNewPart, Truncate, UndoPart, Idle
    <3>2. \E c : client' = [client EXCEPT ![x] = c]
      BY <2>3 DEF WritePart, AddNewPart, Truncate, UndoPart
    <3> QED  BY <1>a, <1>l, <3>1, <3>2
  <2>4. CASE RemoveOldPart(x) \/ AppendRemoval(x) \/ TruncateEnds(x) \/ ActivatePart(x)
    <3>1. UNCHANGED logVars /\ client[x] \notin {"idle", "end"}
      BY <2>4 DEF RemoveOldPart, AppendRemoval, TruncateEnds, ActivatePart
    <3>2. \E c : client' = [client EXCEPT ![x] = c]
      BY <2>4 DEF RemoveOldPart, AppendRemoval, TruncateEnds, ActivatePart
    <3> QED  BY <1>a, <1>l, <3>1, <3>2
  <2>5. CASE ClientRollsBack(x) \/ BeforeCommit(x)
    <3>1. UNCHANGED logVars /\ client[x] \notin {"idle", "end"}
      BY <2>5 DEF ClientRollsBack, BeforeCommit, Idle
    <3>2. \E c : client' = [client EXCEPT ![x] = c]
      BY <2>5 DEF ClientRollsBack, BeforeCommit
    <3> QED  BY <1>a, <1>l, <3>1, <3>2
  <2>6. CASE Commit(x) \/ CommitLost(x) \/ Postpone(x) \/ CommitRefused(x)
    <3>1. alive' = alive /\ client[x] \notin {"idle", "end"}
      BY <2>6 DEF Commit, CommitPoint, CommitLost, CommitPointLost, CreateEntry, CommitFails, Postpone,
         PostponeFinalization, CommitRefused
    <3>2. \E c : client' = [client EXCEPT ![x] = c]
      BY <2>6 DEF Commit, CommitLost, Postpone, CommitRefused
    <3> QED  BY <1>a, <3>1, <3>2
  <2> QED  BY <1>1, <2>1, <2>2, <2>3, <2>4, <2>5, <2>6 DEF ClientStep, LockedStep
<1>2. ASSUME NEW x \in Txns, FinishStep(x) \/ KillStep(x) PROVE Served'
  <2>1. client' = client
    BY <1>2 DEF FinishStep, KillStep, AfterCommit, StampCreated, StampRemoved, Release, MarkRolledBack, OutdateCreated,
       RestoreRemoved, ClearRemoved, UnlockRemoved, Kill, KillFails, KillReturns
  <2>2. alive' = alive
    <3>1. CASE Release(x)
      BY <3>1 DEF Release, ReleaseSnapshot
    <3>2. CASE ~Release(x)
      BY <1>2, <1>l, <3>2 DEF FinishStep, KillStep, AfterCommit, StampCreated, StampRemoved, MarkRolledBack,
         OutdateCreated, RestoreRemoved, ClearRemoved, UnlockRemoved, Kill, KillFails, KillReturns
    <3> QED  BY <3>1, <3>2
  <2> QED  BY <1>a, <2>1, <2>2
<1>3. ASSUME NEW x \in Txns, UnknownStateStep(x) PROVE Served'
  BY <1>3, <1>a, <1>l DEF UnknownStateStep, DecideUnknownState, RollBackUnknownState, EndUnknownState,
     FinalizedUnknownState, txnVars
<1>4. CASE UpdaterStep \/ UpdaterRequestFails \/ ServerStarted
  BY <1>4, <1>a DEF UpdaterStep, Updater, UpdaterWakes, ListEntries, LoadEntries, PublishSnapshot, UpdateTailPtr,
     RemoveOldEntries, SwapUnknownStateLists, FinalizedAll, UpdaterRequestFails, UpdaterFails, ServerStarted,
     SetServerCompletelyStarted, txnVars
<1>5. CASE \E p \in Parts : GrabOldPart(p) \/ LoadPart(p)
  BY <1>5, <1>a, <1>l DEF GrabOldPart, LoadPart, txnVars
<1>6. CASE CrashServer
  BY <1>6 DEF CrashServer, Served
<1>7. CASE StartServer
  BY <1>7 DEF StartServer, LoadLogFromZooKeeper, Served
<1> QED  BY <1>1, <1>2, <1>3, <1>4, <1>5, <1>6, <1>7 DEF Next

(* The parts that a call of isVisible() has looked at. *)
LEMMA AfterVisibleToFacts ==
  ASSUME IInv, TxnInv, PartInv, alive, NEW x \in Txns, NEW ps
  PROVE  /\ AfterVisibleTo(x, ps) \in [Parts -> Metadata]
         /\ \A p \in Parts : Restamped(version[p], AfterVisibleTo(x, ps)[p])
<1>1. \A p \in Parts : version[p] \in Metadata /\ TrueMetadata(version[p])
  BY DEF PartInv, PartTypes, MetadataIsTrue
<1>2. \A p \in Parts : Restamped(version[p], version[p])
  BY <1>1 DEF Restamped
<1>3. \A p \in Parts : Restamped(version[p], AfterIsVisible(version[p], Snapshot(x), tid[x]))
  BY <1>1, AfterIsVisibleFacts
<1>4. \A p \in Parts : Restamped(version[p], AfterVisibleTo(x, ps)[p])
  BY <1>2, <1>3 DEF AfterVisibleTo
<1>5. \A p \in Parts : AfterVisibleTo(x, ps)[p] \in Metadata
  BY <1>4 DEF Restamped
<1> QED  BY <1>4, <1>5 DEF AfterVisibleTo

(* Lookups put CSNs into the metadata in memory. *)
LEMMA LookupPartInv ==
  ASSUME IInv, TxnInv, PartInv, Next, UNCHANGED <<file, on_disk, loaded, state>>,
         read' \in [Txns -> Reads], version' \in [Parts -> Metadata], \A p \in Parts : Restamped(version[p], version'[p]),
         \A p \in Parts : InUse(p)' => Present(p),
         \A x \in Txns : \A p \in Parts : CreatedBy(x, p)' => CreatedBy(x, p),
         \A x \in Txns : KeepsLocks(x),
         \A x \in Txns : read'[x] = read[x] \/ ReadIsTrue(x)'
  PROVE  PartInv'
<1>1. Grows /\ \A x \in Txns : Stays(x)
  BY NextGrows, NextStays
<1>2. PartTypes' /\ SameTIDs(version, version') /\ SameTIDs(file, file')
  BY DEF PartInv, PartTypes, SameTIDs, Restamped
<1>3. \A p \in Parts : p \notin on_disk => file'[p] = NoMetadata
  BY DEF PartInv, PartsArePresent
<1>4. \A p \in Parts : TrueMetadata(version[p])' /\ TrueMetadata(file[p])'
  <2> SUFFICES ASSUME NEW p \in Parts PROVE TrueMetadata(version[p])' /\ TrueMetadata(file[p])'
    OBVIOUS
  <2>1. TrueMetadata(version'[p]) /\ TrueMetadata(file'[p])
    BY DEF Restamped, PartInv, MetadataIsTrue
  <2> QED  BY <1>1, <2>1, TruthGrows DEF TrueMetadata
<1>5. \A x \in Txns : ReadIsTrue(x)'
  BY <1>1, <1>2, SameReads DEF PartInv, SameTIDs, ReadIsTrue
<1>6. \A p \in loaded \cap on_disk : file'[p].removal_csn # UnknownCSN =>
            file[p].removal_csn # UnknownCSN \/ file[p].removal_tid = version[p].removal_tid
  OBVIOUS
<1> QED  BY <1>1, <1>2, <1>3, <1>4, <1>5, <1>6, FramePartInv

LEMMA AddNewPartPartInv ==
  ASSUME IInv, TxnInv, TxnInv', PartInv, Served, Next, NEW x \in Txns, AddNewPart(x)
  PROVE  PartInv'
<1> USE DEF writeVars, changes, ending
<1>0. /\ UNCHANGED <<logVars, file, read, csn, new_part, removing, finish, todo, state, on_disk, loaded>>
      /\ client[x] = "written"
  BY DEF AddNewPart
<1>t. /\ client \in [Txns -> ClientStates] /\ covered \in [Txns -> Seq(Parts)] /\ creating \in [Txns -> Seq(Parts)]
      /\ removing \in [Txns -> Seq(Parts)] /\ new_part[x] \in Parts /\ covered' \in [Txns -> Seq(Parts)]
      /\ creating' \in [Txns -> Seq(Parts)]
  BY <1>0 DEF TxnInv, TxnTypes, AtHand
<1>1. /\ version' \in [Parts -> Metadata] /\ \A p \in Parts : Restamped(version[p], version'[p])
  <2>1. alive /\ version' = AfterVisibleTo(x, CoveredBy(new_part[x], "Outdated"))
    BY <1>0 DEF AddNewPart, Served
  <2> QED  BY <2>1, AfterVisibleToFacts
<1>2. PICK c \in {"undo", "remove"} : client' = [client EXCEPT ![x] = c]
  BY DEF AddNewPart
<1>3. creating' = creating \/ creating' = [creating EXCEPT ![x] = Append(creating[x], new_part[x])]
  BY DEF AddNewPart
<1>4. Range(creating'[x]) \subseteq Range(creating[x]) \cup {new_part[x]} /\ Range(creating[x]) \subseteq Range(creating'[x])
  <2>1. creating[x] \in Seq(Parts) /\ creating'[x] \in {creating[x], Append(creating[x], new_part[x])}
    BY <1>t, <1>3
  <2>2. Range(Append(creating[x], new_part[x])) = Range(creating[x]) \cup {new_part[x]}
    BY <1>t, <2>1, SequenceFacts
  <2> QED  BY <2>1, <2>2
<1>5. covered' = covered \/ covered' = [covered EXCEPT ![x] = PartsToReplace(x, new_part[x])]
  BY DEF AddNewPart
<1>6. \A p \in Range(covered'[x]) : p \in Range(covered[x]) \/ (p \in Parts /\ state[p] # None)
  <2>1. PICK A : A = CoveredBy(new_part[x], "Active")
    OBVIOUS
  <2>2. PICK B : B = {q \in CoveredBy(new_part[x], "Outdated") : VisibleTo(x, q)}
    OBVIOUS
  <2>3. \A p \in A \cup B : p \in Parts /\ state[p] # None
    BY <1>t, <2>1, <2>2, TableAssumption DEF CoveredBy, None
  <2>4. SetToSeq(A) \in Seq(A) /\ SetToSeq(B) \in Seq(B)
    <3>1. IsFiniteSet(A) /\ IsFiniteSet(B)
      BY <2>3, TableAssumption, FS_Subset
    <3> QED  BY <3>1, SetToSeqFacts
  <2>5. PartsToReplace(x, new_part[x]) \in Seq(A \cup B)
    <3>1. SetToSeq(A) \in Seq(A \cup B) /\ SetToSeq(B) \in Seq(A \cup B)
      BY <2>4
    <3>2. PartsToReplace(x, new_part[x]) = SetToSeq(A) \o SetToSeq(B)
      BY <2>1, <2>2 DEF PartsToReplace
    <3> QED  BY <3>1, <3>2
  <2>6. Range(PartsToReplace(x, new_part[x])) \subseteq A \cup B
    BY <2>5, SequenceFacts
  <2> QED  BY <1>t, <1>5, <2>3, <2>6
<1>7. ASSUME NEW p \in Parts, InUse(p)' PROVE Present(p)
  <2>0. PICK y \in Txns :
          \/ finish'[y] # "done" /\ p \in Range(creating'[y] \o removing'[y])
          \/ client'[y] \in {"written", "remove", "append", "undo"} /\ p \in {new_part'[y]} \cup Range(covered'[y])
          \/ read'[y].pc # None /\ p = read'[y].part
    BY <1>7 DEF InUse
  <2>1. CASE y # x
    <3>1. InUse(p)
      BY <1>0, <1>t, <1>2, <1>3, <1>5, <2>0, <2>1 DEF InUse
    <3> QED  BY <3>1 DEF PartInv, PartsArePresent
  <2>2. CASE y = x
    <3>1. CASE p = new_part[x] \/ p \in Range(covered[x])
      BY <1>0, <3>1, WorkedOnIsPresent
    <3>2. CASE state[p] # None
      BY <3>2 DEF PartInv, PartsArePresent
    <3>3. CASE finish[x] # "done" /\ (p \in Range(creating[x]) \/ p \in Range(removing[x]))
      BY <3>3, ChangedIsPresent
    <3>4. CASE read[x].pc # None /\ p = read[x].part
      <4>1. InUse(p)
        BY <3>4 DEF InUse
      <4> QED  BY <4>1 DEF PartInv, PartsArePresent
    <3>5. Range(creating'[x] \o removing'[x]) = Range(creating'[x]) \cup Range(removing[x])
      BY <1>0, <1>t, ConcatRange
    <3> QED  BY <1>0, <1>4, <1>6, <2>0, <2>2, <3>1, <3>2, <3>3, <3>4, <3>5
  <2> QED  BY <2>1, <2>2
<1>8. ASSUME NEW y \in Txns, NEW p \in Parts, CreatedBy(y, p)' PROVE CreatedBy(y, p)
  <2>1. Running(y)' = Running(y)
    BY <1>0 DEF Running, logVars, memory
  <2>2. CASE y # x
    BY <1>0, <1>t, <1>2, <1>3, <1>8, <2>1, <2>2 DEF CreatedBy, Writing, Truncating
  <2>3. CASE y = x
    BY <1>0, <1>4, <1>8, <2>1, <2>3 DEF CreatedBy, Writing
  <2> QED  BY <2>2, <2>3
<1>9. ASSUME NEW y \in Txns PROVE KeepsLocks(y)
  <2>1. Range(creating[y]) \subseteq Range(creating'[y])
    BY <1>t, <1>3, <1>4
  <2>2. TodoIsMine(y)'
    BY <1>0, <2>1 DEF PartInv, RemovedIsLocked, TodoIsMine
  <2>3. client[y] = "append" => client'[y] = "append" /\ covered'[y] = covered[y]
    BY <1>0, <1>t, <1>2, <1>5
  <2> QED  BY <1>0, <2>2, <2>3 DEF KeepsLocks, Holding
<1>10. read' \in [Txns -> Reads]
  BY <1>0 DEF PartInv, PartTypes
<1> QED  BY <1>0, <1>1, <1>7, <1>8, <1>9, <1>10, LookupPartInv

LEMMA TruncatePartInv ==
  ASSUME IInv, TxnInv, TxnInv', PartInv, Served, Next, NEW x \in Txns, Truncate(x)
  PROVE  PartInv'
<1> USE DEF writeVars, changes, ending
<1>0. /\ UNCHANGED <<logVars, file, read, csn, creating, removing, finish, todo, state, on_disk, loaded>>
      /\ client[x] = "ready" /\ client' = [client EXCEPT ![x] = "remove"]
      /\ new_part' = [new_part EXCEPT ![x] = None]
  BY DEF Truncate, Idle
<1>t. /\ client \in [Txns -> ClientStates] /\ covered \in [Txns -> Seq(Parts)]
      /\ new_part \in [Txns -> Parts \cup {None}]
  BY <1>0 DEF TxnInv, TxnTypes
<1>1. /\ version' \in [Parts -> Metadata] /\ \A p \in Parts : Restamped(version[p], version'[p])
  <2>1. alive /\ version' = AfterVisibleTo(x, {p \in Parts : state[p] \in {"Active", "Outdated"}})
    BY <1>0 DEF Truncate, Served
  <2> QED  BY <2>1, AfterVisibleToFacts
<1>2. PICK S : S = {p \in {q \in Parts : state[q] \in {"Active", "Outdated"}} : VisibleTo(x, p)}
  OBVIOUS
<1>3. covered' = [covered EXCEPT ![x] = SetToSeq(S)]
  BY <1>2 DEF Truncate
<1>4. S \subseteq Parts /\ \A p \in S : state[p] # None
  BY <1>2 DEF None
<1>5. \A p \in Range(covered'[x]) : p \in Parts /\ state[p] # None
  <2>1. IsFiniteSet(S)
    BY <1>4, TableAssumption, FS_Subset
  <2>2. Range(SetToSeq(S)) \subseteq S
    BY <2>1, SetToSeqFacts, SequenceFacts
  <2> QED  BY <1>t, <1>3, <1>4, <2>2
<1>7. ASSUME NEW p \in Parts, InUse(p)' PROVE Present(p)
  <2>1. InUse(p) \/ state[p] # None
    <3>0. PICK y \in Txns :
            \/ finish'[y] # "done" /\ p \in Range(creating'[y] \o removing'[y])
            \/ client'[y] \in {"written", "remove", "append", "undo"} /\ p \in {new_part'[y]} \cup Range(covered'[y])
            \/ read'[y].pc # None /\ p = read'[y].part
      BY <1>7 DEF InUse
    <3>1. CASE y # x
      BY <1>0, <1>t, <1>3, <3>0, <3>1 DEF InUse
    <3>2. CASE y = x
      <4>1. p # new_part'[x]
        BY <1>0, <1>t, TableAssumption
      <4> QED  BY <1>0, <1>5, <3>0, <3>2, <4>1 DEF InUse
    <3> QED  BY <3>1, <3>2
  <2> QED  BY <2>1 DEF PartInv, PartsArePresent
<1>8. ASSUME NEW y \in Txns, NEW p \in Parts, CreatedBy(y, p)' PROVE CreatedBy(y, p)
  <2>1. Running(y)' = Running(y)
    BY <1>0 DEF Running, logVars, memory
  <2>2. CASE y # x
    BY <1>0, <1>t, <1>8, <2>1, <2>2 DEF CreatedBy, Writing, Truncating
  <2>3. CASE y = x
    BY <1>0, <1>t, <1>8, <2>1, <2>3 DEF CreatedBy, Writing, Truncating
  <2> QED  BY <2>2, <2>3
<1>9. ASSUME NEW y \in Txns PROVE KeepsLocks(y)
  <2>2. TodoIsMine(y)'
    BY <1>0 DEF PartInv, RemovedIsLocked, TodoIsMine
  <2>3. client[y] = "append" => client'[y] = "append" /\ covered'[y] = covered[y]
    BY <1>0, <1>t, <1>3
  <2> QED  BY <1>0, <2>2, <2>3 DEF KeepsLocks, Holding
<1>10. read' \in [Txns -> Reads]
  BY <1>0 DEF PartInv, PartTypes
<1> QED  BY <1>0, <1>1, <1>7, <1>8, <1>9, <1>10, LookupPartInv

-----------------------------------------------------------------------------
(* The steps of isVisible(). *)

(* A step of the read of x that leaves the part as it is, or stores a CSN in it. *)
LEMMA ReadPartInv ==
  ASSUME IInv, TxnInv, TxnInv', PartInv, Next, NEW x \in Txns,
         UNCHANGED <<logVars, file, txnVars, partVars>>,
         read' \in [Txns -> Reads], version' \in [Parts -> Metadata], \A p \in Parts : Restamped(version[p], version'[p]),
         \A y \in Txns : y # x => read'[y] = read[y],
         read'[x].pc # None => read'[x].part \in Parts /\ Present(read'[x].part),
         ReadIsTrue(x)'
  PROVE  PartInv'
<1>0. /\ UNCHANGED <<csn, client, finish, todo, creating, removing, new_part, covered>>
      /\ UNCHANGED <<state, on_disk, loaded>>
  BY DEF txnVars, partVars, writeVars, changes, ending
<1>1. \A y \in Txns : Quiet(y)
  BY <1>0, UntouchedIsQuiet DEF Untouched
<1>2. ASSUME NEW p \in Parts, InUse(p)' PROVE Present(p)
  <2>1. InUse(p) \/ (read'[x].pc # None /\ p = read'[x].part)
    BY <1>0, <1>2 DEF InUse
  <2> QED  BY <2>1 DEF PartInv, PartsArePresent
<1>3. \A y \in Txns : \A p \in Parts : CreatedBy(y, p)' => CreatedBy(y, p)
  <2>1. \A y \in Txns : Running(y)' = Running(y)
    BY DEF Running, logVars, memory
  <2> QED  BY <1>0, <2>1 DEF CreatedBy, Writing, Truncating
<1>4. \A y \in Txns : KeepsLocks(y)
  BY <1>1 DEF Quiet, KeepsLocks
<1>5. \A y \in Txns : read'[y] = read[y] \/ ReadIsTrue(y)'
  OBVIOUS
<1> QED  BY <1>0, <1>2, <1>3, <1>4, <1>5, LookupPartInv

LEMMA NoReadFacts ==
  /\ NoRead \in Reads /\ NoRead.pc = None
BY MetadataFacts DEF NoRead, Reads, ReadSteps, None

LEMMA SelectPartInv ==
  ASSUME IInv, TxnInv, TxnInv', PartInv, Next, NEW x \in Txns, NEW p \in Parts, Select(x, p)
  PROVE  PartInv'
<1>0. UNCHANGED <<logVars, file, txnVars, partVars, version>> /\ state[p] # None
  BY DEF Select, ReadBegins, None
<1>t. version \in [Parts -> Metadata] /\ read \in [Txns -> Reads]
  BY DEF PartInv, PartTypes
<1>1. PICK r : r = [NoRead EXCEPT !.pc = "load", !.part = p, !.loads = Loads]
  OBVIOUS
<1>2. read' = [read EXCEPT ![x] = r]
  BY <1>1 DEF Select, ReadBegins
<1>3. /\ r \in Reads /\ r.pc = "load" /\ r.part = p
      /\ r.creation_csn = UnknownCSN /\ r.removal_csn = UnknownCSN /\ r.removal_tid = EmptyTID
  BY <1>1, NoReadFacts DEF NoRead, Reads, ReadSteps
<1>4. read'[x] = r /\ read' \in [Txns -> Reads] /\ \A y \in Txns : y # x => read'[y] = read[y]
  BY <1>t, <1>2, <1>3
<1>5. Present(p)
  BY <1>0 DEF PartInv, PartsArePresent
<1>6. ReadIsTrue(x)'
  BY <1>3, <1>4 DEF ReadIsTrue, TrueCreation, TrueRemoval, DoomedTIDs
<1>7. \A q \in Parts : Restamped(version[q], version'[q])
  BY <1>0, <1>t DEF Restamped, PartInv, MetadataIsTrue
<1> QED  BY <1>0, <1>t, <1>3, <1>4, <1>5, <1>6, <1>7, ReadPartInv

(* No transaction has the TID of parts created without one. *)
TIDsAreOwn == \A x \in Txns : tid[x] # PrehistoricTID

LEMMA NextTIDsAreOwn ==
  ASSUME IInv, TIDsAreOwn, [LogNext]_logVars
  PROVE  TIDsAreOwn'
<1>1. ASSUME NEW x \in Txns, BeginTransaction(x) PROVE TIDsAreOwn'
  <2>1. tid' = [tid EXCEPT ![x] = TransactionID(latest_snapshot, local_tid_counter + 1)] /\ tid \in [Txns -> TIDs] /\ alive
    BY <1>1 DEF BeginTransaction, IInv, LogTypeOK
  <2>2. TransactionID(latest_snapshot, local_tid_counter + 1).start_csn = latest_snapshot
    BY <2>1, NewTIDIsFresh DEF IInv
  <2>3. PrehistoricTID.start_csn = PrehistoricCSN
    BY CSNFacts, TIDFacts DEF PrehistoricTID
  <2>4. latest_snapshot # PrehistoricCSN
    BY <2>1, CSNFacts DEF IInv, LoadingPhase, LogTypeOK
  <2> QED  BY <2>1, <2>2, <2>3, <2>4 DEF TIDsAreOwn
<1>2. CASE tid' = tid
  BY <1>2 DEF TIDsAreOwn
<1>3. (\E x \in Txns : BeginTransaction(x)) \/ tid' = tid
  BY DEF LogNext, Crash, LoadLogFromZooKeeper, SetServerCompletelyStarted, CommitPoint, CommitPointLost, CreateEntry,
     CommitFails, PostponeFinalization, ReleaseSnapshot, Updater, UpdaterWakes, ListEntries, LoadEntries,
     PublishSnapshot, UpdateTailPtr, RemoveOldEntries, SwapUnknownStateLists, FinalizedAll, UpdaterFails,
     FinalizedUnknownState, logVars
<1> QED  BY <1>1, <1>2, <1>3

(* A lookup of a doomed TID finds nothing. *)
LEMMA DoomedHasNoCSN ==
  ASSUME IInv, TxnInv, TIDsAreOwn, NEW t \in DoomedTIDs
  PROVE  /\ \A e \in committed : e.tid # t
         /\ t # PrehistoricTID
         /\ alive => GetCSN(t) = UnknownCSN
<1>1. ASSUME NEW e \in committed, e.tid = t PROVE FALSE
  <2>1. PICK z \in Txns : e.tid = tid[z] /\ tid[z] # EmptyTID
    BY DEF IInv, CommitsHaveTxns
  <2>2. PICK y \in Txns : t = tid[y] /\ Doomed(y)
    BY <1>1, <2>1 DEF DoomedTIDs
  <2> QED  BY <1>1, <2>2 DEF Doomed, IsCommitted
<1>2. t # PrehistoricTID
  BY MetadataFacts DEF DoomedTIDs, TIDsAreOwn
<1>3. alive => \A e \in tid_to_csn : e.tid # t
  BY <1>1 DEF IInv, LookupsAreRight
<1> QED  BY <1>1, <1>2, <1>3 DEF GetCSN

(* One step of a read. *)
ReadsTrue(x, r) ==
  r.pc # None =>
    /\ r.part = read[x].part
    /\ TrueCreation(version[r.part].creation_tid, r.creation_csn)
    /\ TrueRemoval(version[r.part].removal_tid, r.removal_csn)
    /\ r.removal_tid \in DoomedTIDs \/ r.removal_tid = version[r.part].removal_tid

LEMMA ReadStepFacts ==
  ASSUME IInv, TxnInv, TIDsAreOwn, PartInv, alive, NEW x \in Txns, ReadStep(x)
  PROVE  \E r \in Reads : read' = [read EXCEPT ![x] = r] /\ ReadsTrue(x, r)
<1> DEFINE Q == \E r \in Reads : read' = [read EXCEPT ![x] = r] /\ ReadsTrue(x, r)
<1>0. read[x].pc # None
  BY DEF ReadStep, ReadLoad, ReadFastPath, ReadLookup, ReadTail, ReadFailback, ReadStrict, ReadStore, ReadRemoval,
     ReadStrictRemoval, ReadStoreRemoval, ReadEnds, At, None
<1>t. /\ version \in [Parts -> Metadata] /\ read \in [Txns -> Reads] /\ read[x] \in Reads
  BY DEF PartInv, PartTypes
<1>r. /\ read[x].pc \in ReadSteps /\ read[x].loads \in SUBSET Loads /\ read[x].creation_csn \in CSNs
      /\ read[x].removal_tid \in TIDs /\ read[x].removal_csn \in CSNs /\ read[x].result \in BOOLEAN
      /\ read[x].part \in Parts
  BY <1>0, <1>t DEF Reads, PartInv, ReadIsTrue
<1>p. PICK v : v = version[read[x].part]
  OBVIOUS
<1>v. /\ v \in Metadata /\ v.creation_csn \in CSNs /\ v.removal_csn \in CSNs /\ v.removal_tid \in TIDs
      /\ TrueCreation(v.creation_tid, v.creation_csn) /\ TrueRemoval(v.removal_tid, v.removal_csn)
  BY <1>t, <1>r, <1>p, MetadataFacts DEF PartInv, MetadataIsTrue, TrueMetadata
<1>w. /\ TrueCreation(v.creation_tid, read[x].creation_csn) /\ TrueRemoval(v.removal_tid, read[x].removal_csn)
      /\ read[x].removal_tid \in DoomedTIDs \/ read[x].removal_tid = v.removal_tid
  BY <1>0, <1>p DEF PartInv, ReadIsTrue
<1>u. ASSUME NEW r \in Reads, read' = [read EXCEPT ![x] = r], r.part = read[x].part,
             TrueCreation(v.creation_tid, r.creation_csn), TrueRemoval(v.removal_tid, r.removal_csn),
             r.removal_tid \in DoomedTIDs \/ r.removal_tid = v.removal_tid
      PROVE  Q
  <2>1. ReadsTrue(x, r)
    BY <1>p, <1>u DEF ReadsTrue
  <2> QED  BY <1>u, <2>1
<1>g. ASSUME NEW pc \in ReadSteps, Goto(x, pc) PROVE Q
  <2>1. PICK r : r = [read[x] EXCEPT !.pc = pc]
    OBVIOUS
  <2>2. r \in Reads /\ r.part = read[x].part /\ r.creation_csn = read[x].creation_csn
        /\ r.removal_tid = read[x].removal_tid /\ r.removal_csn = read[x].removal_csn
    BY <1>t, <2>1 DEF Reads
  <2>3. read' = [read EXCEPT ![x] = r]
    BY <1>g, <1>t, <2>1 DEF Goto
  <2> QED  BY <1>u, <1>w, <2>2, <2>3
<1>b. ASSUME NEW b \in BOOLEAN, Returns(x, b) PROVE Q
  <2>0. "done" \in ReadSteps
    BY DEF ReadSteps
  <2>1. PICK r : r = [read[x] EXCEPT !.pc = "done", !.result = b]
    OBVIOUS
  <2>2. r \in Reads /\ r.part = read[x].part /\ r.creation_csn = read[x].creation_csn
        /\ r.removal_tid = read[x].removal_tid /\ r.removal_csn = read[x].removal_csn
    BY <1>t, <2>0, <2>1 DEF Reads
  <2>3. read' = [read EXCEPT ![x] = r]
    BY <1>b, <1>t, <2>1 DEF Returns
  <2> QED  BY <1>u, <1>w, <2>2, <2>3
<1>c. ASSUME NEW c \in CSNs, NEW pc \in ReadSteps, TrueCreation(v.creation_tid, c),
             read' = [read EXCEPT ![x].creation_csn = c, ![x].pc = pc]
      PROVE  Q
  <2>1. PICK r : r = [read[x] EXCEPT !.creation_csn = c, !.pc = pc]
    OBVIOUS
  <2>2. r \in Reads /\ r.part = read[x].part /\ r.creation_csn = c
        /\ r.removal_tid = read[x].removal_tid /\ r.removal_csn = read[x].removal_csn
    BY <1>t, <2>1 DEF Reads
  <2>3. read' = [read EXCEPT ![x] = r]
    BY <1>c, <1>t, <2>1
  <2> QED  BY <1>c, <1>u, <1>w, <2>2, <2>3
<1>d. ASSUME NEW d \in CSNs, TrueRemoval(v.removal_tid, d),
             read' = [read EXCEPT ![x].removal_csn = d, ![x].pc = "store_removal"]
      PROVE  Q
  <2>0. "store_removal" \in ReadSteps
    BY DEF ReadSteps
  <2>1. PICK r : r = [read[x] EXCEPT !.removal_csn = d, !.pc = "store_removal"]
    OBVIOUS
  <2>2. r \in Reads /\ r.part = read[x].part /\ r.creation_csn = read[x].creation_csn
        /\ r.removal_tid = read[x].removal_tid /\ r.removal_csn = d
    BY <1>t, <2>0, <2>1 DEF Reads
  <2>3. read' = [read EXCEPT ![x] = r]
    BY <1>d, <1>t, <2>1
  <2> QED  BY <1>d, <1>u, <1>w, <2>2, <2>3
<1>e. ASSUME NEW c, ReadResult(x, c) PROVE Q
  <2>1. PICK b \in BOOLEAN : b = VisibleByCSN(read[x].creation_csn, c, Snapshot(x))
    BY DEF VisibleByCSN
  <2> QED  BY <1>b, <1>e, <2>1 DEF ReadResult
<1>1. CASE ReadLoad(x)
  <2>1. PICK f \in read[x].loads :
          read' = [read EXCEPT ![x].loads = @ \ {f},
                  ![x].pc = IF read[x].loads = {f} THEN "fast" ELSE "load",
                  ![x].creation_csn = IF f = "creation_csn" THEN Part(x)[f] ELSE @,
                  ![x].removal_tid = IF f = "removal_tid" THEN Part(x)[f] ELSE @,
                  ![x].removal_csn = IF f = "removal_csn" THEN Part(x)[f] ELSE @]
    BY <1>1 DEF ReadLoad
  <2>2. f \in Loads
    BY <1>r
  <2>3. PICK r : r = [read[x] EXCEPT !.loads = @ \ {f},
                  !.pc = IF read[x].loads = {f} THEN "fast" ELSE "load",
                  !.creation_csn = IF f = "creation_csn" THEN v[f] ELSE @,
                  !.removal_tid = IF f = "removal_tid" THEN v[f] ELSE @,
                  !.removal_csn = IF f = "removal_csn" THEN v[f] ELSE @]
    OBVIOUS
  <2>4. read' = [read EXCEPT ![x] = r]
    BY <1>p, <1>t, <2>1, <2>3 DEF Part
  <2>5. v["creation_csn"] = v.creation_csn /\ v["removal_tid"] = v.removal_tid /\ v["removal_csn"] = v.removal_csn
    OBVIOUS
  <2>6. /\ r.part = read[x].part /\ r.creation_csn \in {v.creation_csn, read[x].creation_csn}
        /\ r.removal_tid \in {v.removal_tid, read[x].removal_tid} /\ r.removal_csn \in {v.removal_csn, read[x].removal_csn}
    BY <1>t, <2>3, <2>5 DEF Reads
  <2>7. "fast" \in ReadSteps /\ "load" \in ReadSteps
    BY DEF ReadSteps
  <2>8. r \in Reads
    BY <1>t, <1>v, <2>3, <2>5, <2>7 DEF Reads
  <2> QED  BY <1>u, <1>v, <1>w, <2>4, <2>6, <2>8
<1>2. CASE ReadFastPath(x)
  <2>1. Returns(x, FALSE) \/ Returns(x, TRUE) \/ Goto(x, "lookup")
    BY <1>2 DEF ReadFastPath
  <2> QED  BY <1>b, <1>g, <2>1 DEF ReadSteps
<1>3. CASE ReadLookup(x)
  <2>1. PICK c \in CSNs : c = GetCSN(v.creation_tid) /\ TrueCreation(v.creation_tid, c)
    BY GetCSNFacts DEF TrueCreation
  <2>2. PICK pc \in {"outdated", "store"} : read' = [read EXCEPT ![x].creation_csn = c, ![x].pc = pc]
    BY <1>3, <1>p, <2>1 DEF ReadLookup, Part
  <2> QED  BY <1>c, <2>1, <2>2 DEF ReadSteps
<1>4. CASE ReadTail(x) \/ ReadFailback(x)
  <2>1. \E pc \in {"failback", "strict", "throw"} : Goto(x, pc)
    BY <1>4 DEF ReadTail, ReadFailback
  <2> QED  BY <1>g, <2>1 DEF ReadSteps
<1>5. CASE ReadStrict(x)
  <2>1. Returns(x, FALSE) \/ read' = [read EXCEPT ![x].creation_csn = v.creation_csn, ![x].pc = "store"]
    BY <1>5, <1>p DEF ReadStrict, Part
  <2> QED  BY <1>b, <1>c, <1>v, <2>1 DEF ReadSteps
<1>6. CASE ReadStore(x)
  <2>1. ReadResult(x, read[x].removal_csn) \/ Goto(x, "removal")
    BY <1>6 DEF ReadStore
  <2> QED  BY <1>e, <1>g, <2>1 DEF ReadSteps
<1>7. CASE ReadRemoval(x)
  <2>1. PICK d \in CSNs : d = GetCSN(read[x].removal_tid) /\ TrueRemoval(read[x].removal_tid, d)
    BY GetCSNFacts
  <2>2. Goto(x, "strict_removal") \/ (d # UnknownCSN /\ read' = [read EXCEPT ![x].removal_csn = d, ![x].pc = "store_removal"])
    BY <1>7, <2>1 DEF ReadRemoval
  <2>3. CASE Goto(x, "strict_removal")
    BY <1>g, <2>3 DEF ReadSteps
  <2>4. CASE d # UnknownCSN /\ read' = [read EXCEPT ![x].removal_csn = d, ![x].pc = "store_removal"]
    <3>1. read[x].removal_tid \notin DoomedTIDs
      BY <2>1, <2>4, DoomedHasNoCSN
    <3> QED  BY <1>d, <1>w, <2>1, <2>4, <3>1
  <2> QED  BY <2>2, <2>3, <2>4
<1>8. CASE ReadStrictRemoval(x)
  <2>1. \/ ReadResult(x, UnknownCSN)
        \/ read' = [read EXCEPT ![x].removal_csn = v.removal_csn, ![x].pc = "store_removal"]
    BY <1>8, <1>p DEF ReadStrictRemoval, Part
  <2> QED  BY <1>d, <1>e, <1>v, <2>1
<1>9. CASE ReadStoreRemoval(x)
  BY <1>9, <1>e DEF ReadStoreRemoval
<1>10. CASE ReadEnds(x)
  BY <1>10, NoReadFacts DEF ReadEnds, ReadsTrue
<1> QED  BY <1>1, <1>2, <1>3, <1>4, <1>5, <1>6, <1>7, <1>8, <1>9, <1>10 DEF ReadStep

LEMMA SelectStepPartInv ==
  ASSUME IInv, TxnInv, TxnInv', TIDsAreOwn, PartInv, Next, NEW x \in Txns, SelectStep(x)
  PROVE  PartInv'
<1>0. UNCHANGED <<logVars, file, txnVars, partVars>> /\ alive /\ ReadStep(x)
  BY DEF SelectStep
<1>t. version \in [Parts -> Metadata] /\ read \in [Txns -> Reads] /\ read[x] \in Reads
  BY DEF PartInv, PartTypes
<1>1. PICK r \in Reads : read' = [read EXCEPT ![x] = r] /\ ReadsTrue(x, r)
  BY <1>0, ReadStepFacts
<1>2. read'[x] = r /\ read' \in [Txns -> Reads] /\ \A y \in Txns : y # x => read'[y] = read[y]
  BY <1>t, <1>1
<1>3. read[x].pc # None
  BY <1>0 DEF ReadStep, ReadLoad, ReadFastPath, ReadLookup, ReadTail, ReadFailback, ReadStrict, ReadStore, ReadRemoval,
     ReadStrictRemoval, ReadStoreRemoval, ReadEnds, At, None
<1>4. PICK q \in Parts : q = read[x].part
  BY <1>3 DEF PartInv, ReadIsTrue
<1>5. Present(q)
  <2>1. InUse(q)
    BY <1>3, <1>4 DEF InUse
  <2> QED  BY <2>1 DEF PartInv, PartsArePresent
<1>6. \A p \in Parts : version[p] \in Metadata /\ TrueMetadata(version[p])
  BY <1>t DEF PartInv, MetadataIsTrue
<1>7. /\ read[x].creation_csn \in CSNs /\ read[x].removal_csn \in CSNs
      /\ TrueCreation(version[q].creation_tid, read[x].creation_csn)
      /\ TrueRemoval(version[q].removal_tid, read[x].removal_csn)
  BY <1>t, <1>3, <1>4 DEF PartInv, ReadIsTrue, Reads
<1>8. version' \in [Parts -> Metadata] /\ \A p \in Parts : Restamped(version[p], version'[p])
  <2>1. \/ version' = version
        \/ version' = [version EXCEPT ![q].creation_csn = read[x].creation_csn]
        \/ version' = [version EXCEPT ![q].removal_csn = read[x].removal_csn]
    BY <1>0, <1>4 DEF ReadStep, ReadLoad, ReadFastPath, ReadLookup, ReadTail, ReadFailback, ReadStrict, ReadStore,
       ReadRemoval, ReadStrictRemoval, ReadStoreRemoval, ReadEnds
  <2>2. CASE version' = version
    BY <1>t, <1>6, <2>2 DEF Restamped
  <2>3. CASE version' = [version EXCEPT ![q].creation_csn = read[x].creation_csn]
    <3>1. PICK w : w = [version[q] EXCEPT !.creation_csn = read[x].creation_csn]
      OBVIOUS
    <3>2. w \in Metadata /\ w.creation_tid = version[q].creation_tid /\ w.removal_tid = version[q].removal_tid
          /\ w.creation_csn = read[x].creation_csn /\ w.removal_csn = version[q].removal_csn
      BY <1>6, <1>7, <3>1 DEF Metadata
    <3>3. version' = [version EXCEPT ![q] = w]
      BY <1>t, <2>3, <3>1
    <3>4. Restamped(version[q], w)
      BY <1>6, <1>7, <3>2 DEF Restamped, TrueMetadata
    <3>5. \A p \in Parts : Restamped(version[p], version[p])
      BY <1>6 DEF Restamped
    <3> QED  BY <1>t, <3>2, <3>3, <3>4, <3>5
  <2>4. CASE version' = [version EXCEPT ![q].removal_csn = read[x].removal_csn]
    <3>1. PICK w : w = [version[q] EXCEPT !.removal_csn = read[x].removal_csn]
      OBVIOUS
    <3>2. w \in Metadata /\ w.creation_tid = version[q].creation_tid /\ w.removal_tid = version[q].removal_tid
          /\ w.removal_csn = read[x].removal_csn /\ w.creation_csn = version[q].creation_csn
      BY <1>6, <1>7, <3>1 DEF Metadata
    <3>3. version' = [version EXCEPT ![q] = w]
      BY <1>t, <2>4, <3>1
    <3>4. Restamped(version[q], w)
      BY <1>6, <1>7, <3>2 DEF Restamped, TrueMetadata
    <3>5. \A p \in Parts : Restamped(version[p], version[p])
      BY <1>6 DEF Restamped
    <3> QED  BY <1>t, <3>2, <3>3, <3>4, <3>5
  <2> QED  BY <2>1, <2>2, <2>3, <2>4
<1>9. ReadIsTrue(x)'
  <2> SUFFICES ASSUME r.pc # None PROVE ReadIsTrue(x)'
    BY <1>2 DEF ReadIsTrue
  <2>1. r.part = q /\ version'[q].creation_tid = version[q].creation_tid /\ version'[q].removal_tid = version[q].removal_tid
    BY <1>1, <1>4, <1>8 DEF ReadsTrue, Restamped
  <2>2. /\ TrueCreation(version[q].creation_tid, r.creation_csn)
        /\ TrueRemoval(version[q].removal_tid, r.removal_csn)
        /\ r.removal_tid \in DoomedTIDs \/ r.removal_tid = version[q].removal_tid
    BY <1>1, <2>1 DEF ReadsTrue
  <2>3. Grows
    BY NextGrows
  <2>4. r.removal_tid \in DoomedTIDs' \/ r.removal_tid = version'[q].removal_tid
    BY <2>1, <2>2, <2>3 DEF Grows
  <2> QED  BY <1>2, <2>1, <2>2, <2>3, <2>4, TruthGrows DEF ReadIsTrue
<1> QED  BY <1>0, <1>1, <1>2, <1>4, <1>5, <1>8, <1>9, ReadPartInv DEF ReadsTrue

-----------------------------------------------------------------------------
(* Locks and parts that come and go. *)

LEMMA HeldIsPresent ==
  ASSUME TxnInv, PartInv, NEW x \in Txns, NEW q \in Range(Holding(x))
  PROVE  /\ q \in Parts /\ InUse(q) /\ Present(q)
         /\ client[x] # "idle" /\ tid[x] # EmptyTID /\ version[q].removal_tid = tid[x]
<1>1. finish[x] \notin {"release", "done"}
  BY EmptyRange DEF Holding
<1>2. q \in Range(removing[x])
  BY <1>1 DEF Holding, PartInv, RemovedIsLocked, TodoIsMine
<1>3. q \in Parts /\ InUse(q) /\ Present(q)
  BY <1>1, <1>2, ChangedIsPresent
<1>4. client[x] # "idle"
  BY <1>2, EmptyRange DEF TxnInv, Outcome, IsReadOnly
<1> QED  BY <1>3, <1>4 DEF TxnInv, RunningIsUnfinished, PartInv, RemovedIsLocked

LEMMA OneHolder ==
  ASSUME IInv, TxnInv, PartInv, NEW x \in Txns, NEW y \in Txns, NEW q \in Range(Holding(x)), q \in Range(Holding(y))
  PROVE  x = y
<1>1. tid[x] # EmptyTID /\ tid[x] = tid[y]
  BY HeldIsPresent
<1> QED  BY <1>1 DEF IInv, TIDsAreUnique

LEMMA CreatedIsInUse ==
  ASSUME TxnInv, PartInv, NEW x \in Txns, NEW p \in Parts, CreatedBy(x, p)
  PROVE  InUse(p)
<1>1. CASE Writing(x) /\ p = new_part[x]
  BY <1>1 DEF Writing, InUse
<1>2. CASE Running(x) /\ p \in Range(creating[x])
  <2>1. finish[x] # "done"
    BY <1>2 DEF TxnInv, RunningIsUnfinished
  <2> QED  BY <1>2, <2>1, ChangedIsPresent
<1> QED  BY <1>1, <1>2 DEF CreatedBy

(* What was never committed has no CSN as a removal. *)
LEMMA DoomedRemoval ==
  ASSUME IInv, TxnInv, TIDsAreOwn, NEW t \in DoomedTIDs, NEW c, TrueRemoval(t, c)
  PROVE  c = UnknownCSN
BY DoomedHasNoCSN DEF TrueRemoval

LEMMA RolledBackIsDoomed ==
  ASSUME TxnInv, NEW x \in Txns, csn[x] = RolledBackCSN
  PROVE  tid[x] \in DoomedTIDs
BY DEF TxnInv, Outcome, Doomed, DoomedTIDs

LEMMA GrabOldPartPartInv ==
  ASSUME IInv, TxnInv, TxnInv', PartInv, Next, NEW p \in Parts, GrabOldPart(p)
  PROVE  PartInv'
<1>0. /\ UNCHANGED <<logVars, read, txnVars, loaded>> /\ alive /\ state[p] = "Outdated"
      /\ UNCHANGED <<csn, client, finish, todo, creating, removing, new_part, covered>>
  BY DEF GrabOldPart, txnVars, writeVars, changes, ending
<1>g. Grows
  BY NextGrows
<1>t. /\ version \in [Parts -> Metadata] /\ file \in [Parts -> Metadata]
      /\ state \in [Parts -> {None, "PreActive", "Active", "Outdated"}] /\ on_disk \subseteq Parts /\ loaded \subseteq Parts
      /\ read \in [Txns -> Reads]
  BY DEF PartInv, PartTypes
<1>p. p \in on_disk /\ p \in loaded
  BY <1>0 DEF PartInv, PartsArePresent, Present, None
<1>1. CASE ~(CanBeRemoved(version[p]) /\ ~InUse(p))
  <2>1. PICK v : v = AfterCanBeRemoved(version[p])
    OBVIOUS
  <2>2. version' = [version EXCEPT ![p] = v] /\ UNCHANGED <<state, on_disk, file>>
    BY <1>1, <2>1 DEF GrabOldPart
  <2>3. Restamped(version[p], v)
    BY <1>0, <1>t, <2>1, AfterCanBeRemovedFacts DEF PartInv, MetadataIsTrue
  <2>4. \A y \in Txns : Quiet(y)
    BY <1>0, UntouchedIsQuiet DEF Untouched
  <2>5. TrueMetadata(v)'
    BY <1>g, <2>3, TruthGrows DEF Restamped, TrueMetadata
  <2>6. TrueMetadata(file[p])'
    BY <1>g, <2>2, TruthGrows DEF PartInv, MetadataIsTrue, TrueMetadata
  <2>7. file' = [file EXCEPT ![p] = file[p]] /\ file[p] \in Metadata
    BY <1>t, <2>2
  <2>8. v \in Metadata /\ v.creation_tid = version[p].creation_tid /\ v.removal_tid = version[p].removal_tid
    BY <2>3 DEF Restamped
  <2> QED  BY <1>0, <1>t, <1>p, <2>2, <2>4, <2>5, <2>6, <2>7, <2>8, StampPartInv
<1>2. CASE CanBeRemoved(version[p]) /\ ~InUse(p)
  <2>1. /\ state' = [state EXCEPT ![p] = None] /\ on_disk' = on_disk \ {p}
        /\ version' = [version EXCEPT ![p] = NoMetadata] /\ file' = [file EXCEPT ![p] = NoMetadata]
    BY <1>2 DEF GrabOldPart
  <2>2. \A q \in Parts : q # p => version'[q] = version[q] /\ file'[q] = file[q] /\ state'[q] = state[q]
    BY <1>t, <2>1
  <2>3. version'[p] = NoMetadata /\ file'[p] = NoMetadata /\ state'[p] = None
    BY <1>t, <2>1
  <2>4. \A q \in Parts : InUse(q)' = InUse(q)
    BY <1>0 DEF InUse
  <2>5. \A y \in Txns : \A q \in Parts : CreatedBy(y, q)' = CreatedBy(y, q)
    <3>1. \A y \in Txns : Running(y)' = Running(y)
      BY <1>0 DEF Running, logVars, memory
    <3> QED  BY <1>0, <3>1 DEF CreatedBy, Writing, Truncating
  <2>6. tid' = tid /\ committed' = committed
    BY <1>0 DEF logVars, keeper, memory
  <2>10. PartTypes'
    BY <1>0, <1>t, <2>1, NoMetadataFacts DEF PartTypes
  <2>11. PartsArePresent'
    BY <1>0, <1>2, <2>1, <2>2, <2>3, <2>4 DEF PartInv, PartsArePresent, Present
  <2>12. CreatedIsNamed'
    BY <1>2, <2>2, <2>5, <2>6, CreatedIsInUse DEF PartInv, CreatedIsNamed
  <2>13. \A y \in Txns : Holding(y)' = Holding(y) /\ TodoIsMine(y)'
    BY <1>0 DEF PartInv, RemovedIsLocked, TodoIsMine, Holding
  <2>14. \A y \in Txns : \A q \in Range(Holding(y)) : q \in Parts /\ q # p
    BY <1>2, HeldIsPresent
  <2>15. RemovedIsLocked'
    BY <1>0, <2>2, <2>6, <2>13, <2>14 DEF PartInv, RemovedIsLocked
  <2>16. FileIsLocked'
    BY <1>0, <2>2, <2>6, <2>13, <2>14 DEF PartInv, FileIsLocked, Appending
  <2>17. FileCSNIsFinal'
    BY <1>0, <1>t, <2>1, <2>2 DEF PartInv, FileCSNIsFinal
  <2>18. UnloadedIsOld'
    BY <1>0, <1>g, <1>t, <2>1, <2>2 DEF PartInv, UnloadedIsOld, Grows
  <2>19. ASSUME NEW y \in Txns PROVE ReadIsTrue(y)'
    <3>1. read[y].pc # None => read[y].part \in Parts /\ read[y].part # p
      BY <1>2 DEF PartInv, ReadIsTrue, InUse
    <3> QED  BY <1>0, <1>g, <2>2, <3>1, SameReads DEF PartInv
  <2>20. MetadataIsTrue'
    <3> SUFFICES ASSUME NEW q \in Parts
                 PROVE  /\ TrueMetadata(version[q])' /\ NamesAreKnown(version[q])'
                        /\ TrueMetadata(file[q])' /\ NamesAreKnown(file[q])'
      BY DEF MetadataIsTrue
    <3>1. /\ TrueMetadata(version'[q]) /\ NamesAreKnown(version'[q])
          /\ TrueMetadata(file'[q]) /\ NamesAreKnown(file'[q])
      BY <2>2, <2>3, NoMetadataFacts DEF PartInv, MetadataIsTrue
    <3> QED  BY <1>g, <3>1, TruthGrows DEF TrueMetadata, NamesAreKnown, Grows
  <2> QED  BY <2>10, <2>11, <2>12, <2>15, <2>16, <2>17, <2>18, <2>19, <2>20 DEF PartInv
<1> QED  BY <1>1, <1>2

(* Metadata that was true before a step and names known TIDs is so after it. *)
LEMMA MetadataGrows ==
  ASSUME Grows, \A q \in Parts : /\ TrueMetadata(version'[q]) /\ NamesAreKnown(version'[q])
                                 /\ TrueMetadata(file'[q]) /\ NamesAreKnown(file'[q])
  PROVE  MetadataIsTrue'
<1> SUFFICES ASSUME NEW q \in Parts
             PROVE  /\ TrueMetadata(version[q])' /\ NamesAreKnown(version[q])'
                    /\ TrueMetadata(file[q])' /\ NamesAreKnown(file[q])'
  BY DEF MetadataIsTrue
<1>1. /\ TrueMetadata(version'[q]) /\ NamesAreKnown(version'[q])
      /\ TrueMetadata(file'[q]) /\ NamesAreKnown(file'[q])
  OBVIOUS
<1> QED  BY <1>1, TruthGrows DEF TrueMetadata, NamesAreKnown, Grows

LEMMA EmptyIsDoomed == EmptyTID \in DoomedTIDs
BY DEF DoomedTIDs

(* removeOldPart() takes the lock, or throws. *)
LEMMA RemoveOldPartPartInv ==
  ASSUME IInv, TxnInv, TxnInv', TIDsAreOwn, PartInv, Next, NEW x \in Txns, RemoveOldPart(x)
  PROVE  PartInv'
<1>0. /\ UNCHANGED <<logVars, file, read, csn, new_part, creating, finish, todo, state, on_disk, loaded>>
      /\ client[x] = "remove" /\ covered[x] # <<>>
  BY DEF RemoveOldPart, ending
<1>g. Grows
  BY NextGrows
<1>t. /\ version \in [Parts -> Metadata] /\ file \in [Parts -> Metadata] /\ covered \in [Txns -> Seq(Parts)]
      /\ client \in [Txns -> ClientStates] /\ removing \in [Txns -> Seq(Parts)] /\ covered[x] \in Seq(Parts)
  BY DEF PartInv, PartTypes, TxnInv, TxnTypes
<1>1. PICK p : p = Head(covered[x])
  OBVIOUS
<1>2. p \in Parts /\ p \in Range(covered[x])
  BY <1>0, <1>t, <1>1, HeadAndTail
<1>3. Present(p)
  BY <1>0, <1>2, WorkedOnIsPresent
<1>4. CASE csn[x] # UnknownCSN \/ version[p].removal_tid # EmptyTID
  <2>1. /\ covered' = [covered EXCEPT ![x] = <<>>] /\ UNCHANGED <<version, removing>>
        /\ client' = [client EXCEPT ![x] = IF Truncating(x) THEN "exception" ELSE "undo"]
    BY <1>1, <1>4 DEF RemoveOldPart
  <2>2. \A y \in Txns : y # x => Untouched(y)
    BY <1>0, <1>t, <2>1 DEF Untouched
  <2>3. Quiet(x)
    <3>1. Running(x)' => Running(x)
      BY <1>0 DEF TxnInv, RunningIsUnfinished
    <3>2. TodoIsMine(x)' /\ Holding(x)' = Holding(x)
      BY <1>0, <2>1 DEF PartInv, RemovedIsLocked, TodoIsMine, Holding
    <3>3. Writing(x)' => Writing(x)
      BY <1>0, <1>t, <2>1 DEF Writing, Truncating
    <3>4. covered'[x] = <<>>
      BY <1>t, <2>1
    <3> QED  BY <1>0, <1>t, <2>1, <3>1, <3>2, <3>3, <3>4, EmptyRange DEF Quiet
  <2>4. \A y \in Txns : Quiet(y)
    BY <2>2, <2>3, UntouchedIsQuiet
  <2> QED  BY <1>0, <2>1, <2>4, QuietPartInv DEF PartInv, PartTypes
<1>5. CASE csn[x] = UnknownCSN /\ version[p].removal_tid = EmptyTID
  <2>1. /\ version' = [version EXCEPT ![p].removal_tid = tid[x]] /\ covered' = covered
        /\ removing' = [removing EXCEPT ![x] = Append(removing[x], p)]
        /\ client' = [client EXCEPT ![x] = "append"]
    BY <1>1, <1>5 DEF RemoveOldPart
  <2>2. tid[x] # EmptyTID /\ tid[x] \in TIDs /\ tid[x] \in NamedTIDs
    BY <1>0 DEF TxnInv, RunningIsUnfinished, IInv, LogTypeOK, NamedTIDs
  <2>3. finish[x] = None
    BY <1>0, <1>5 DEF TxnInv, Outcome
  <2>4. \A q \in Parts : q # p => version'[q] = version[q]
    BY <1>t, <2>1
  <2>5. /\ version'[p] \in Metadata /\ version'[p].removal_tid = tid[x]
        /\ version'[p].creation_tid = version[p].creation_tid
        /\ version'[p].creation_csn = version[p].creation_csn /\ version'[p].removal_csn = version[p].removal_csn
    BY <1>2, <1>t, <2>1, <2>2 DEF Metadata
  <2>6. version[p].removal_csn = UnknownCSN
    BY <1>2, <1>5, EmptyIsDoomed, DoomedRemoval DEF PartInv, MetadataIsTrue, TrueMetadata
  <2>7. file[p].removal_csn = UnknownCSN
    <3> SUFFICES ASSUME file[p].removal_csn # UnknownCSN PROVE FALSE
      OBVIOUS
    <3>1. file[p].removal_tid = EmptyTID
      BY <1>3, <1>5 DEF PartInv, FileCSNIsFinal, Present
    <3> QED  BY <1>2, <3>1, EmptyIsDoomed, DoomedRemoval DEF PartInv, MetadataIsTrue, TrueMetadata
  <2>8. tid' = tid
    BY <1>0 DEF logVars
  <2>9. \A y \in Txns : \A q \in Range(Holding(y)) : q \in Parts /\ q # p
    BY <1>5, HeldIsPresent
  <2>10. Holding(x) = removing[x] /\ Holding(x)' = Append(removing[x], p)
    BY <1>0, <1>t, <2>1, <2>3 DEF Holding, None
  <2>11. \A y \in Txns : y # x => removing'[y] = removing[y] /\ client'[y] = client[y]
    BY <1>t, <2>1
  <2>12. \A y \in Txns : y # x => Holding(y)' = Holding(y)
    BY <1>0, <2>11 DEF Holding
  <2>13. Range(removing'[x]) = Range(removing[x]) \cup {p} /\ removing'[x] = Append(removing[x], p)
    <3>1. removing[x] \in Seq(Parts)
      BY <1>t
    <3> QED  BY <1>t, <1>2, <2>1, <3>1, SequenceFacts
  <2>20. PartTypes'
    <3>1. version' \in [Parts -> Metadata]
      BY <1>t, <1>2, <2>1, <2>5
    <3> QED  BY <1>0, <3>1 DEF PartInv, PartTypes
  <2>21. PartsArePresent'
    <3>1. ASSUME NEW q \in Parts, InUse(q)' PROVE Present(q)
      <4>0. PICK y \in Txns :
              \/ finish'[y] # "done" /\ q \in Range(creating'[y] \o removing'[y])
              \/ client'[y] \in {"written", "remove", "append", "undo"} /\ q \in {new_part'[y]} \cup Range(covered'[y])
              \/ read'[y].pc # None /\ q = read'[y].part
        BY <3>1 DEF InUse
      <4>1. CASE y # x
        <5>1. InUse(q)
          BY <1>0, <2>1, <2>11, <4>0, <4>1 DEF InUse
        <5> QED  BY <5>1 DEF PartInv, PartsArePresent
      <4>2. CASE y = x /\ finish'[x] # "done" /\ q \in Range(creating'[x] \o removing'[x])
        <5>1. Range(creating'[x] \o removing'[x]) = Range(creating[x]) \cup Range(removing'[x])
          <6>1. creating'[x] \in Seq(Parts) /\ removing'[x] \in Seq(Parts) /\ creating'[x] = creating[x]
            BY <1>0 DEF TxnInv, TxnTypes
          <6> QED  BY <6>1, ConcatRange
        <5>2. q \in Range(creating[x]) \/ q \in Range(removing[x]) \/ q = p
          BY <2>13, <4>2, <5>1
        <5>3. finish[x] # "done"
          BY <2>3 DEF None
        <5> QED  BY <1>3, <5>2, <5>3, ChangedIsPresent
      <4>3. CASE y = x /\ ~(finish'[x] # "done" /\ q \in Range(creating'[x] \o removing'[x]))
        <5>1. InUse(q)
          BY <1>0, <2>1, <4>0, <4>3 DEF InUse
        <5> QED  BY <5>1 DEF PartInv, PartsArePresent
      <4> QED  BY <4>1, <4>2, <4>3
    <3> QED  BY <1>0, <3>1 DEF PartInv, PartsArePresent, Present
  <2>22. CreatedIsNamed'
    <3>1. ASSUME NEW y \in Txns, NEW q \in Parts, CreatedBy(y, q)' PROVE CreatedBy(y, q)
      <4>1. Running(y)' = Running(y)
        BY <1>0 DEF Running, logVars, memory
      <4>2. Writing(y)' => Writing(y)
        BY <1>0, <1>t, <2>1 DEF Writing, Truncating
      <4> QED  BY <1>0, <3>1, <4>1, <4>2 DEF CreatedBy
    <3>2. \A q \in Parts : version'[q].creation_tid = version[q].creation_tid
      BY <2>4, <2>5
    <3> QED  BY <1>0, <2>8, <3>1, <3>2 DEF PartInv, CreatedIsNamed
  <2>23. RemovedIsLocked'
    <3> SUFFICES ASSUME NEW y \in Txns
                 PROVE  /\ TodoIsMine(y)' /\ Unique(Holding(y)') /\ Unique(removing'[y])
                        /\ \A q \in Range(Holding(y)') : version'[q].removal_tid = tid'[y]
      BY DEF RemovedIsLocked
    <3>1. CASE y # x
      <4>1. TodoIsMine(y)'
        BY <1>0, <2>11, <3>1 DEF PartInv, RemovedIsLocked, TodoIsMine
      <4> QED  BY <2>4, <2>8, <2>9, <2>11, <2>12, <3>1, <4>1 DEF PartInv, RemovedIsLocked
    <3>2. CASE y = x
      <4>1. TodoIsMine(x)'
        BY <1>0, <2>3 DEF TodoIsMine, None
      <4>2. removing[x] \in Seq(Parts) /\ p \notin Range(removing[x]) /\ Unique(removing[x])
        BY <1>t, <2>9, <2>10 DEF PartInv, RemovedIsLocked
      <4>3. Unique(Append(removing[x], p))
        BY <1>2, <4>2, UniqueAppend
      <4>4. \A q \in Range(removing'[x]) : version'[q].removal_tid = tid[x]
        BY <2>4, <2>5, <2>9, <2>10, <2>13 DEF PartInv, RemovedIsLocked
      <4> QED  BY <2>8, <2>10, <2>13, <3>2, <4>1, <4>3, <4>4
    <3> QED  BY <3>1, <3>2
  <2>24. FileIsLocked'
    <3> SUFFICES ASSUME NEW y \in Txns, csn'[y] # RolledBackCSN, NEW q \in Range(Holding(y)')
                 PROVE  Appending(y, q)' \/ file'[q].removal_tid = tid'[y]
      BY DEF FileIsLocked
    <3>1. CASE y # x
      BY <1>0, <2>1, <2>8, <2>11, <2>12, <3>1 DEF PartInv, FileIsLocked, Appending
    <3>2. CASE y = x /\ q = p
      BY <1>1, <1>t, <2>1, <3>2 DEF Appending
    <3>3. CASE y = x /\ q # p
      <4>1. q \in Range(Holding(x)) /\ ~Appending(x, q)
        BY <1>0, <2>10, <2>13, <3>3 DEF Appending
      <4> QED  BY <1>0, <2>8, <3>3, <4>1 DEF PartInv, FileIsLocked
    <3> QED  BY <3>1, <3>2, <3>3
  <2>25. FileCSNIsFinal'
    BY <1>0, <2>4, <2>7 DEF PartInv, PartTypes, FileCSNIsFinal
  <2>26. UnloadedIsOld'
    BY <1>0, <1>g DEF PartInv, UnloadedIsOld, Grows
  <2>27. ASSUME NEW y \in Txns PROVE ReadIsTrue(y)'
    <3>1. CASE read[y].pc = None \/ read[y].part # p
      <4>1. read[y].pc # None => read[y].part \in Parts
        BY DEF PartInv, ReadIsTrue
      <4> QED  BY <1>0, <1>g, <2>4, <3>1, <4>1, SameReads DEF PartInv
    <3>2. CASE read[y].pc # None /\ read[y].part = p
      <4>1. /\ TrueCreation(version[p].creation_tid, read[y].creation_csn)
            /\ TrueRemoval(EmptyTID, read[y].removal_csn)
            /\ read[y].removal_tid \in DoomedTIDs
        BY <1>5, <3>2, EmptyIsDoomed DEF PartInv, ReadIsTrue
      <4>2. read[y].removal_csn = UnknownCSN
        BY <4>1, EmptyIsDoomed, DoomedRemoval
      <4>3. TrueRemoval(tid[x], UnknownCSN) /\ TrueCreation(version'[p].creation_tid, read[y].creation_csn)
        BY <2>5, <4>1 DEF TrueRemoval
      <4>4. read[y].removal_tid \in DoomedTIDs'
        BY <1>g, <4>1 DEF Grows
      <4> QED  BY <1>0, <1>2, <1>g, <2>5, <3>2, <4>2, <4>3, <4>4, TruthGrows DEF ReadIsTrue
    <3> QED  BY <3>1, <3>2
  <2>28. MetadataIsTrue'
    <3>1. TrueMetadata(version'[p]) /\ NamesAreKnown(version'[p])
      BY <1>2, <2>2, <2>5, <2>6 DEF PartInv, MetadataIsTrue, TrueMetadata, TrueRemoval, NamesAreKnown
    <3> QED  BY <1>0, <1>g, <2>4, <3>1, MetadataGrows DEF PartInv, MetadataIsTrue
  <2> QED  BY <2>20, <2>21, <2>22, <2>23, <2>24, <2>25, <2>26, <2>27, <2>28 DEF PartInv
<1> QED  BY <1>4, <1>5

(* The file of a part that is in use is changed. *)
LEMMA FilePartInv ==
  ASSUME IInv, TxnInv, PartInv, Next, UNCHANGED <<read, on_disk, loaded, tid>>,
         state' \in [Parts -> {None, "PreActive", "Active", "Outdated"}],
         \A q \in Parts : state'[q] # None <=> state[q] # None,
         NEW p \in Parts, Present(p), NEW v \in Metadata, NEW w \in Metadata,
         version' = [version EXCEPT ![p] = v], file' = [file EXCEPT ![p] = w],
         v.creation_tid = version[p].creation_tid, v.removal_tid = version[p].removal_tid, TrueMetadata(v),
         w.creation_tid \in {file[p].creation_tid, version[p].creation_tid}, TrueMetadata(w),
         w.removal_tid \in {EmptyTID, version[p].removal_tid},
         w.removal_csn # UnknownCSN => w.removal_tid = version[p].removal_tid,
         \A q \in Parts : InUse(q)' => InUse(q),
         \A x \in Txns : \A q \in Parts : CreatedBy(x, q)' => CreatedBy(x, q),
         \A x \in Txns : TodoIsMine(x)' /\ removing'[x] = removing[x] /\ Holding(x)' = Holding(x),
         FileIsLocked'
  PROVE  PartInv'
<1>g. Grows
  BY NextGrows
<1>t. /\ version \in [Parts -> Metadata] /\ file \in [Parts -> Metadata] /\ on_disk \subseteq Parts /\ loaded \subseteq Parts
      /\ read \in [Txns -> Reads]
  BY DEF PartInv, PartTypes
<1>1. version'[p] = v /\ file'[p] = w /\ \A q \in Parts : q # p => version'[q] = version[q] /\ file'[q] = file[q]
  BY <1>t
<1>2. \A q \in Parts : version'[q].creation_tid = version[q].creation_tid /\ version'[q].removal_tid = version[q].removal_tid
  BY <1>1
<1>3. PartTypes'
  BY <1>t DEF PartTypes
<1>4. PartsArePresent'
  BY <1>1 DEF PartInv, PartsArePresent, Present
<1>5. CreatedIsNamed'
  <2> SUFFICES ASSUME NEW x \in Txns, NEW q \in Parts, CreatedBy(x, q)'
               PROVE  /\ q \in Writes[x]
                      /\ version'[q].creation_tid = tid'[x] /\ file'[q].creation_tid = tid'[x]
    BY DEF CreatedIsNamed
  <2>1. q \in Writes[x] /\ version[q].creation_tid = tid[x] /\ file[q].creation_tid = tid[x]
    BY DEF PartInv, CreatedIsNamed
  <2> QED  BY <1>1, <1>2, <2>1
<1>6. RemovedIsLocked'
  <2>1. \A x \in Txns : \A q \in Range(Holding(x)) : q \in Parts
    BY HeldIsPresent
  <2> QED  BY <1>2, <2>1 DEF PartInv, RemovedIsLocked
<1>7. FileCSNIsFinal'
  BY <1>t, <1>1, <1>2 DEF PartInv, FileCSNIsFinal
<1>8. UnloadedIsOld'
  BY <1>g, <1>t, <1>1 DEF PartInv, UnloadedIsOld, Grows, Present
<1>9. \A x \in Txns : ReadIsTrue(x)'
  BY <1>g, <1>2, SameReads DEF PartInv, ReadIsTrue
<1>10. MetadataIsTrue'
  <2>1. NamesAreKnown(v) /\ NamesAreKnown(w)
    BY DEF PartInv, MetadataIsTrue, NamesAreKnown, NamedTIDs
  <2> QED  BY <1>g, <1>1, <2>1, MetadataGrows DEF PartInv, MetadataIsTrue
<1> QED  BY <1>3, <1>4, <1>5, <1>6, <1>7, <1>8, <1>9, <1>10 DEF PartInv

(* removeOldPart() writes the file. *)
LEMMA AppendRemovalPartInv ==
  ASSUME IInv, TxnInv, TxnInv', PartInv, Next, NEW x \in Txns, AppendRemoval(x)
  PROVE  PartInv'
<1>0. /\ UNCHANGED <<logVars, read, csn, new_part, creating, removing, finish, todo, on_disk, loaded, tid>>
      /\ client[x] = "append" /\ client' = [client EXCEPT ![x] = "remove"]
      /\ covered' = [covered EXCEPT ![x] = Tail(covered[x])]
  BY DEF AppendRemoval, changes, ending, logVars
<1>t. /\ version \in [Parts -> Metadata] /\ file \in [Parts -> Metadata] /\ covered \in [Txns -> Seq(Parts)]
      /\ client \in [Txns -> ClientStates] /\ covered[x] \in Seq(Parts) /\ covered[x] # <<>>
      /\ state \in [Parts -> {None, "PreActive", "Active", "Outdated"}]
  BY <1>0 DEF PartInv, PartTypes, TxnInv, TxnTypes, AtHand
<1>1. PICK p : p = Head(covered[x])
  OBVIOUS
<1>2. p \in Parts /\ p \in Range(covered[x]) /\ Range(covered'[x]) \subseteq Range(covered[x])
  BY <1>0, <1>t, <1>1, HeadAndTail, SequenceFacts
<1>3. Present(p)
  BY <1>0, <1>2, WorkedOnIsPresent
<1>m. version[p] \in Metadata /\ TrueMetadata(version[p]) /\ file[p] \in Metadata /\ TrueMetadata(file[p])
  BY <1>2, <1>t DEF PartInv, MetadataIsTrue
<1>4. \E v \in Metadata :
        /\ version' = [version EXCEPT ![p] = v] /\ v.creation_tid = version[p].creation_tid
        /\ v.removal_tid = version[p].removal_tid /\ TrueMetadata(v)
  <2>1. CASE version[p].creation_tid = PrehistoricTID
    <3>1. PICK v : v = [version[p] EXCEPT !.creation_csn = PrehistoricCSN]
      OBVIOUS
    <3>2. version' = [version EXCEPT ![p] = v]
      BY <1>1, <2>1, <3>1 DEF AppendRemoval
    <3>3. v \in Metadata /\ v.creation_tid = version[p].creation_tid /\ v.removal_tid = version[p].removal_tid
          /\ v.creation_csn = PrehistoricCSN /\ v.removal_csn = version[p].removal_csn
      BY <1>m, <3>1, MetadataFacts DEF Metadata
    <3>4. TrueMetadata(v)
      BY <1>m, <2>1, <3>3 DEF TrueMetadata, TrueCreation, TrueRemoval
    <3> QED  BY <3>2, <3>3, <3>4
  <2>2. CASE version[p].creation_tid # PrehistoricTID
    <3>1. version' = [version EXCEPT ![p] = version[p]]
      BY <1>1, <1>t, <2>2 DEF AppendRemoval
    <3> QED  BY <1>m, <3>1
  <2> QED  BY <2>1, <2>2
<1>5. \E w \in Metadata :
        /\ file' = [file EXCEPT ![p] = w] /\ w.creation_tid \in {file[p].creation_tid, version[p].creation_tid}
        /\ w.removal_tid = version[p].removal_tid /\ TrueMetadata(w)
  <2>1. CASE version[p].creation_tid = PrehistoricTID
    <3>1. PICK w : w = [version[p] EXCEPT !.creation_csn = PrehistoricCSN]
      OBVIOUS
    <3>2. file' = [file EXCEPT ![p] = w]
      BY <1>1, <2>1, <3>1 DEF AppendRemoval, AppendRemovalTID
    <3>3. w \in Metadata /\ w.creation_tid = version[p].creation_tid /\ w.removal_tid = version[p].removal_tid
          /\ w.creation_csn = PrehistoricCSN /\ w.removal_csn = version[p].removal_csn
      BY <1>m, <3>1, MetadataFacts DEF Metadata
    <3>4. TrueMetadata(w)
      BY <1>m, <2>1, <3>3 DEF TrueMetadata, TrueCreation, TrueRemoval
    <3> QED  BY <3>2, <3>3, <3>4
  <2>2. CASE version[p].creation_tid # PrehistoricTID
    <3>1. PICK w : w = [file[p] EXCEPT !.removal_tid = version[p].removal_tid]
      OBVIOUS
    <3>2. file' = [file EXCEPT ![p] = w]
      BY <1>1, <1>2, <1>t, <2>2, <3>1 DEF AppendRemoval, AppendRemovalTID
    <3>3. w \in Metadata /\ w.creation_tid = file[p].creation_tid /\ w.removal_tid = version[p].removal_tid
          /\ w.creation_csn = file[p].creation_csn /\ w.removal_csn = file[p].removal_csn
      BY <1>m, <3>1 DEF Metadata
    <3>4. file[p].removal_csn = UnknownCSN \/ file[p].removal_tid = version[p].removal_tid
      BY <1>3 DEF PartInv, FileCSNIsFinal, Present
    <3>5. TrueMetadata(w)
      BY <1>m, <3>3, <3>4 DEF TrueMetadata, TrueRemoval
    <3> QED  BY <3>2, <3>3, <3>5
  <2> QED  BY <2>1, <2>2
<1>6. /\ state' \in [Parts -> {None, "PreActive", "Active", "Outdated"}]
      /\ \A q \in Parts : state'[q] # None <=> state[q] # None
  <2>1. state' = state \/ state' = [state EXCEPT ![p] = "Outdated"]
    BY <1>1 DEF AppendRemoval, OutdatedByTruncate
  <2>2. state[p] # None
    BY <1>3 DEF Present
  <2> QED  BY <1>t, <2>1, <2>2 DEF None
<1>7. ASSUME NEW q \in Parts, InUse(q)' PROVE InUse(q)
  <2>1. PICK y \in Txns :
              \/ finish'[y] # "done" /\ q \in Range(creating'[y] \o removing'[y])
              \/ client'[y] \in {"written", "remove", "append", "undo"} /\ q \in {new_part'[y]} \cup Range(covered'[y])
              \/ read'[y].pc # None /\ q = read'[y].part
    BY <1>7 DEF InUse
  <2>2. CASE y = x
    BY <1>0, <1>2, <2>1, <2>2 DEF InUse
  <2>3. CASE y # x
    BY <1>0, <1>t, <2>1, <2>3 DEF InUse
  <2> QED  BY <2>2, <2>3
<1>8. ASSUME NEW y \in Txns, NEW q \in Parts, CreatedBy(y, q)' PROVE CreatedBy(y, q)
  <2>1. Running(y)' = Running(y)
    BY <1>0 DEF Running, logVars, memory
  <2>2. Writing(y)' => Writing(y)
    BY <1>0, <1>t DEF Writing, Truncating
  <2> QED  BY <1>0, <1>8, <2>1, <2>2 DEF CreatedBy
<1>9. \A y \in Txns : TodoIsMine(y)' /\ removing'[y] = removing[y] /\ Holding(y)' = Holding(y)
  BY <1>0 DEF PartInv, RemovedIsLocked, TodoIsMine, Holding
<1>10. FileIsLocked'
  <2> SUFFICES ASSUME NEW y \in Txns, csn[y] # RolledBackCSN, NEW q \in Range(Holding(y))
               PROVE  Appending(y, q)' \/ file'[q].removal_tid = tid[y]
    BY <1>0, <1>9 DEF FileIsLocked
  <2>1. q \in Parts /\ version[q].removal_tid = tid[y]
    BY HeldIsPresent
  <2>2. CASE q = p
    BY <1>2, <1>5, <1>t, <2>1, <2>2
  <2>3. CASE q # p
    <3>1. file'[q] = file[q]
      BY <1>5, <1>t, <2>1, <2>3
    <3>2. Appending(y, q) => Appending(y, q)'
      BY <1>0, <1>1, <1>t, <2>3 DEF Appending
    <3> QED  BY <3>1, <3>2 DEF PartInv, FileIsLocked
  <2> QED  BY <2>2, <2>3
<1> QED  BY <1>0, <1>2, <1>3, <1>4, <1>5, <1>6, <1>7, <1>8, <1>9, <1>10, FilePartInv

(* A rollback clears the file of a part, *)
LEMMA ClearRemovedPartInv ==
  ASSUME IInv, TxnInv, TxnInv', TIDsAreOwn, PartInv, Next, NEW x \in Txns, ClearRemoved(x)
  PROVE  PartInv'
<1>0. /\ UNCHANGED <<version, logVars, read, csn, client, new_part, creating, removing, covered, state, on_disk, loaded, tid>>
      /\ finish[x] = "clear" /\ csn[x] = RolledBackCSN
  BY DEF ClearRemoved, changes, writeVars, partVars, logVars, TxnInv, Outcome, Rollback
<1>q. \A y \in Txns : Quiet(y)
  BY FinishIsQuiet
<1>t. /\ version \in [Parts -> Metadata] /\ file \in [Parts -> Metadata] /\ todo[x] \in Seq(Parts)
      /\ state \in [Parts -> {None, "PreActive", "Active", "Outdated"}]
      /\ finish \in [Txns -> FinishStates] /\ todo \in [Txns -> Seq(Parts)]
  BY DEF PartInv, PartTypes, TxnInv, TxnTypes
<1>1. CASE todo[x] = <<>>
  BY <1>q, <1>0, <1>t, <1>1, QuietPartInv DEF ClearRemoved
<1>2. CASE todo[x] # <<>>
  <2>1. PICK p : p = Head(todo[x])
    OBVIOUS
  <2>2. p \in Range(Holding(x)) /\ Holding(x) = todo[x]
    BY <1>0, <1>2, <1>t, <2>1, HeadAndTail DEF Holding
  <2>3. p \in Parts /\ Present(p) /\ version[p].removal_tid = tid[x]
    BY <2>2, HeldIsPresent
  <2>4. tid[x] \in DoomedTIDs
    BY <1>0, RolledBackIsDoomed
  <2>5. PICK w : w = [file[p] EXCEPT !.removal_tid = EmptyTID]
    OBVIOUS
  <2>6. file' = [file EXCEPT ![p] = w] /\ version' = [version EXCEPT ![p] = version[p]]
    BY <1>0, <1>2, <1>t, <2>1, <2>3, <2>5 DEF ClearRemoved, ClearRemovalTID
  <2>m. version[p] \in Metadata /\ TrueMetadata(version[p]) /\ file[p] \in Metadata /\ TrueMetadata(file[p])
    BY <2>3, <1>t DEF PartInv, MetadataIsTrue
  <2>7. w \in Metadata /\ w.creation_tid = file[p].creation_tid /\ w.removal_tid = EmptyTID
        /\ w.creation_csn = file[p].creation_csn /\ w.removal_csn = file[p].removal_csn
    BY <2>5, <2>m, MetadataFacts DEF Metadata
  <2>8. file[p].removal_csn = UnknownCSN
    <3> SUFFICES ASSUME file[p].removal_csn # UnknownCSN PROVE FALSE
      OBVIOUS
    <3>1. file[p].removal_tid = tid[x]
      BY <2>3 DEF PartInv, FileCSNIsFinal, Present
    <3> QED  BY <2>4, <2>m, <3>1, DoomedRemoval DEF TrueMetadata
  <2>9. TrueMetadata(w)
    BY <2>7, <2>8, <2>m DEF TrueMetadata, TrueRemoval
  <2>10. finish' = [finish EXCEPT ![x] = "unlock"] /\ todo' = [todo EXCEPT ![x] = todo[x]]
    BY <1>2 DEF ClearRemoved, NextPhase
  <2>11. \A y \in Txns : TodoIsMine(y)' /\ removing'[y] = removing[y]
    BY <1>q DEF Quiet
  <2>12. \A y \in Txns : Holding(y)' = Holding(y)
    BY <1>0, <1>t, <2>10 DEF Holding
  <2>13. ReadsOn
    BY <1>0 DEF ReadsOn
  <2>14. FileIsLocked'
    <3> SUFFICES ASSUME NEW y \in Txns, csn[y] # RolledBackCSN, NEW q \in Range(Holding(y))
                 PROVE  Appending(y, q)' \/ file'[q].removal_tid = tid[y]
      BY <1>0, <2>12 DEF FileIsLocked
    <3>1. q \in Parts /\ q # p
      BY <1>0, <2>2, HeldIsPresent, OneHolder
    <3>2. file'[q] = file[q]
      BY <1>t, <2>6, <3>1
    <3> QED  BY <1>0, <3>2 DEF PartInv, FileIsLocked, Appending
  <2>15. /\ \A q \in Parts : InUse(q)' => InUse(q)
         /\ \A y \in Txns : \A q \in Parts : CreatedBy(y, q)' => CreatedBy(y, q)
    BY <1>q, <2>13, QuietFacts
  <2> QED  BY <1>0, <1>t, <2>3, <2>6, <2>7, <2>8, <2>9, <2>m, <2>11, <2>12, <2>14, <2>15, FilePartInv
<1> QED  BY <1>1, <1>2

(* and unlocks the part. *)
LEMMA UnlockRemovedPartInv ==
  ASSUME IInv, TxnInv, TxnInv', TIDsAreOwn, PartInv, Next, NEW x \in Txns, UnlockRemoved(x)
  PROVE  PartInv'
<1>0. /\ UNCHANGED <<file, logVars, read, csn, client, new_part, creating, removing, covered, state, on_disk, loaded, tid>>
      /\ finish[x] = "unlock" /\ csn[x] = RolledBackCSN /\ todo[x] # <<>>
      /\ finish' = [finish EXCEPT ![x] = "clear"] /\ todo' = [todo EXCEPT ![x] = Tail(todo[x])]
  BY DEF UnlockRemoved, NextPhase, changes, writeVars, partVars, logVars, TxnInv, Outcome, Rollback, AtHand
<1>g. Grows
  BY NextGrows
<1>t. /\ version \in [Parts -> Metadata] /\ file \in [Parts -> Metadata] /\ todo[x] \in Seq(Parts)
      /\ finish \in [Txns -> FinishStates] /\ todo \in [Txns -> Seq(Parts)]
      /\ on_disk \subseteq Parts /\ loaded \subseteq Parts
  BY DEF PartInv, PartTypes, TxnInv, TxnTypes
<1>1. PICK p : p = Head(todo[x])
  OBVIOUS
<1>2. p \in Range(Holding(x)) /\ Holding(x) = todo[x]
  BY <1>0, <1>t, <1>1, HeadAndTail DEF Holding
<1>3. p \in Parts /\ Present(p) /\ version[p].removal_tid = tid[x]
  BY <1>2, HeldIsPresent
<1>4. tid[x] \in DoomedTIDs
  BY <1>0, RolledBackIsDoomed
<1>5. version' = [version EXCEPT ![p].removal_tid = EmptyTID]
  BY <1>1 DEF UnlockRemoved
<1>6. \A q \in Parts : q # p => version'[q] = version[q]
  BY <1>t, <1>5
<1>7. /\ version'[p] \in Metadata /\ version'[p].removal_tid = EmptyTID
      /\ version'[p].creation_tid = version[p].creation_tid
      /\ version'[p].creation_csn = version[p].creation_csn /\ version'[p].removal_csn = version[p].removal_csn
  BY <1>3, <1>t, <1>5, MetadataFacts DEF Metadata
<1>m. TrueMetadata(version[p]) /\ TrueMetadata(file[p]) /\ NamesAreKnown(version[p])
  BY <1>3 DEF PartInv, MetadataIsTrue
<1>8. version[p].removal_csn = UnknownCSN
  BY <1>3, <1>4, <1>m, DoomedRemoval DEF TrueMetadata
<1>9. file[p].removal_csn = UnknownCSN
  <2> SUFFICES ASSUME file[p].removal_csn # UnknownCSN PROVE FALSE
    OBVIOUS
  <2>1. file[p].removal_tid = tid[x]
    BY <1>3 DEF PartInv, FileCSNIsFinal, Present
  <2> QED  BY <1>4, <1>m, <2>1, DoomedRemoval DEF TrueMetadata
<1>10. /\ Unique(Tail(todo[x])) /\ Range(Tail(todo[x])) = Range(todo[x]) \ {p}
  BY <1>0, <1>1, <1>2, <1>t, UniqueTail DEF PartInv, RemovedIsLocked
<1>11. /\ finish'[x] = "clear" /\ todo'[x] = Tail(todo[x])
       /\ \A y \in Txns : y # x => finish'[y] = finish[y] /\ todo'[y] = todo[y]
  BY <1>0, <1>t
<1>12. Holding(x)' = Tail(todo[x]) /\ \A y \in Txns : y # x => Holding(y)' = Holding(y)
  BY <1>0, <1>11 DEF Holding
<1>13. \A y \in Txns : TodoIsMine(y)'
  <2>1. TodoIsMine(x)'
    BY <1>0, <1>10, <1>11 DEF PartInv, RemovedIsLocked, TodoIsMine
  <2>2. \A y \in Txns : y # x => TodoIsMine(y)'
    BY <1>0, <1>11 DEF PartInv, RemovedIsLocked, TodoIsMine
  <2> QED  BY <2>1, <2>2
<1>14. \A y \in Txns : \A q \in Range(Holding(y)') : q \in Range(Holding(y)) /\ q \in Parts /\ q # p
  <2> SUFFICES ASSUME NEW y \in Txns, NEW q \in Range(Holding(y)')
               PROVE  q \in Range(Holding(y)) /\ q # p
    BY HeldIsPresent
  <2>1. CASE y = x
    BY <1>2, <1>10, <1>12, <2>1
  <2>2. CASE y # x
    BY <1>2, <1>12, <2>2, OneHolder
  <2> QED  BY <2>1, <2>2
<1>20. PartTypes'
  <2>1. version' \in [Parts -> Metadata]
    BY <1>t, <1>3, <1>5, <1>7
  <2> QED  BY <1>0, <2>1 DEF PartInv, PartTypes
<1>21. PartsArePresent'
  <2>1. \A q \in Parts : InUse(q)' => InUse(q)
    BY <1>0, <1>11 DEF InUse
  <2> QED  BY <1>0, <2>1 DEF PartInv, PartsArePresent, Present
<1>22. CreatedIsNamed'
  <2>1. \A y \in Txns : Running(y)' = Running(y)
    BY <1>0 DEF Running, logVars, memory
  <2>2. \A y \in Txns : \A q \in Parts : CreatedBy(y, q)' = CreatedBy(y, q)
    BY <1>0, <2>1 DEF CreatedBy, Writing, Truncating
  <2> QED  BY <1>0, <1>6, <1>7, <2>2 DEF PartInv, CreatedIsNamed
<1>23. RemovedIsLocked'
  <2> SUFFICES ASSUME NEW y \in Txns
               PROVE  /\ Unique(Holding(y)') /\ Unique(removing'[y])
                      /\ \A q \in Range(Holding(y)') : version'[q].removal_tid = tid'[y]
    BY <1>13 DEF RemovedIsLocked
  <2>1. \A q \in Range(Holding(y)') : version'[q].removal_tid = tid'[y]
    BY <1>0, <1>6, <1>14 DEF PartInv, RemovedIsLocked
  <2>2. Unique(Holding(y)')
    BY <1>10, <1>12 DEF PartInv, RemovedIsLocked
  <2> QED  BY <1>0, <2>1, <2>2 DEF PartInv, RemovedIsLocked
<1>24. FileIsLocked'
  BY <1>0, <1>14 DEF PartInv, FileIsLocked, Appending
<1>25. FileCSNIsFinal'
  BY <1>0, <1>t, <1>6, <1>9 DEF PartInv, FileCSNIsFinal
<1>26. UnloadedIsOld'
  BY <1>0, <1>g DEF PartInv, UnloadedIsOld, Grows
<1>27. ASSUME NEW y \in Txns PROVE ReadIsTrue(y)'
  <2>1. CASE read[y].pc = None \/ read[y].part # p
    <3>1. read[y].pc # None => read[y].part \in Parts
      BY DEF PartInv, ReadIsTrue
    <3> QED  BY <1>0, <1>g, <1>6, <2>1, <3>1, SameReads DEF PartInv
  <2>2. CASE read[y].pc # None /\ read[y].part = p
    <3>1. /\ TrueCreation(version[p].creation_tid, read[y].creation_csn)
          /\ TrueRemoval(tid[x], read[y].removal_csn)
          /\ read[y].removal_tid \in DoomedTIDs
      BY <1>3, <1>4, <2>2 DEF PartInv, ReadIsTrue
    <3>2. read[y].removal_csn = UnknownCSN
      BY <1>4, <3>1, DoomedRemoval
    <3>3. TrueRemoval(EmptyTID, UnknownCSN) /\ TrueCreation(version'[p].creation_tid, read[y].creation_csn)
      BY <1>7, <3>1 DEF TrueRemoval
    <3>4. read[y].removal_tid \in DoomedTIDs'
      BY <1>g, <3>1 DEF Grows
    <3> QED  BY <1>0, <1>3, <1>g, <1>7, <2>2, <3>2, <3>3, <3>4, TruthGrows DEF ReadIsTrue
  <2> QED  BY <2>1, <2>2
<1>28. MetadataIsTrue'
  <2>1. TrueMetadata(version'[p]) /\ NamesAreKnown(version'[p])
    BY <1>m, <1>7, <1>8 DEF TrueMetadata, TrueRemoval, NamesAreKnown, NamedTIDs
  <2> QED  BY <1>0, <1>g, <1>6, <2>1, MetadataGrows DEF PartInv, MetadataIsTrue
<1> QED  BY <1>20, <1>21, <1>22, <1>23, <1>24, <1>25, <1>26, <1>27, <1>28 DEF PartInv

-----------------------------------------------------------------------------
(* Only a query that replaces parts has parts to replace. *)
NothingCovered == \A x \in Txns : client[x] \notin {"remove", "append"} => covered[x] = <<>>

LEMMA NextNothingCovered ==
  ASSUME TxnInv, NothingCovered, Next
  PROVE  NothingCovered'
<1> USE DEF writeVars, changes, ending
<1>t. client \in [Txns -> ClientStates] /\ covered \in [Txns -> Seq(Parts)]
  BY DEF TxnInv, TxnTypes
<1>a. ASSUME covered' = covered, client' = client \/ \E x \in Txns : covered[x] = <<>> /\ \E c : client' = [client EXCEPT ![x] = c]
      PROVE  NothingCovered'
  BY <1>a, <1>t DEF NothingCovered
<1>b. ASSUME NEW x \in Txns, \E c : covered' = [covered EXCEPT ![x] = c],
             client' = [client EXCEPT ![x] = "remove"] \/ (client[x] = "remove" /\ client' = client)
      PROVE  NothingCovered'
  BY <1>b, <1>t DEF NothingCovered
<1>1. ASSUME NEW x \in Txns, ClientStep(x) PROVE NothingCovered'
  <2>1. CASE SelectStep(x) \/ \E p \in Parts : Select(x, p)
    BY <1>a, <2>1 DEF SelectStep, Select, txnVars
  <2>2. CASE Begin(x) \/ (\E p \in Parts : WritePart(x, p)) \/ UndoPart(x) \/ TruncateEnds(x) \/ ActivatePart(x)
             \/ ClientRollsBack(x) \/ BeforeCommit(x) \/ Commit(x) \/ CommitLost(x) \/ Postpone(x) \/ CommitRefused(x)
    <3>1. covered' = covered /\ \E c : client' = [client EXCEPT ![x] = c]
      BY <2>2 DEF Begin, WritePart, UndoPart, TruncateEnds, ActivatePart, ClientRollsBack, BeforeCommit, Commit,
         CommitLost, Postpone, CommitRefused
    <3>2. client[x] \notin {"remove", "append"} \/ covered[x] = <<>>
      BY <2>2 DEF Begin, WritePart, UndoPart, TruncateEnds, ActivatePart, ClientRollsBack, BeforeCommit, Commit,
         CommitLost, Postpone, CommitRefused, Idle
    <3> QED  BY <1>a, <3>1, <3>2 DEF NothingCovered
  <2>3. CASE AddNewPart(x)
    <3>1. CASE csn[x] # UnknownCSN
      <4>1. covered' = covered /\ client' = [client EXCEPT ![x] = "undo"] /\ client[x] = "written"
        BY <2>3, <3>1 DEF AddNewPart
      <4> QED  BY <1>a, <4>1 DEF NothingCovered
    <3>2. CASE csn[x] = UnknownCSN
      BY <1>b, <2>3, <3>2 DEF AddNewPart
    <3> QED  BY <3>1, <3>2
  <2>4. CASE Truncate(x) \/ AppendRemoval(x) \/ SkipRolledBack(x)
    BY <1>b, <2>4 DEF Truncate, AppendRemoval, SkipRolledBack
  <2>5. CASE RemoveOldPart(x)
    <3>1. \/ covered' = [covered EXCEPT ![x] = <<>>] /\ \E c : client' = [client EXCEPT ![x] = c]
          \/ covered' = covered /\ client' = [client EXCEPT ![x] = "append"]
      BY <2>5 DEF RemoveOldPart
    <3> QED  BY <1>t, <3>1 DEF NothingCovered
  <2> QED  BY <1>1, <2>1, <2>2, <2>3, <2>4, <2>5 DEF ClientStep, LockedStep
<1>2. ASSUME NEW x \in Txns, FinishStep(x) \/ KillStep(x) \/ UnknownStateStep(x) PROVE NothingCovered'
  <2>1. client' = client /\ covered' = covered
    BY <1>2 DEF FinishStep, KillStep, AfterCommit, StampCreated, StampRemoved, Release, MarkRolledBack, OutdateCreated,
       RestoreRemoved, ClearRemoved, UnlockRemoved, Kill, KillFails, KillReturns, UnknownStateStep,
       DecideUnknownState, RollBackUnknownState, EndUnknownState, txnVars
  <2> QED  BY <1>a, <2>1
<1>3. CASE UpdaterStep \/ UpdaterRequestFails \/ ServerStarted \/ StartServer \/ \E p \in Parts : GrabOldPart(p) \/ LoadPart(p)
  BY <1>3, <1>a DEF UpdaterStep, UpdaterRequestFails, ServerStarted, StartServer, GrabOldPart, LoadPart, txnVars
<1>4. CASE CrashServer
  BY <1>4 DEF CrashServer, NothingCovered
<1> QED  BY <1>1, <1>2, <1>3, <1>4 DEF Next

LEMMA AbsentIsNotInUse ==
  ASSUME TxnInv, PartInv, NEW p \in Parts, ~Present(p)
  PROVE  /\ ~InUse(p) /\ state[p] = None
         /\ \A x \in Txns : ~CreatedBy(x, p) /\ p \notin Range(Holding(x)) /\ (read[x].pc # None => read[x].part # p)
<1>1. ~InUse(p) /\ state[p] = None
  BY DEF PartInv, PartsArePresent
<1>2. \A x \in Txns : ~CreatedBy(x, p)
  BY <1>1, CreatedIsInUse
<1>3. \A x \in Txns : p \notin Range(Holding(x))
  BY HeldIsPresent
<1> QED  BY <1>1, <1>2, <1>3 DEF InUse

(* A part joins the set of parts. *)
LEMMA JoinPartInv ==
  ASSUME IInv, TxnInv, PartInv, Next, UNCHANGED <<read, tid, csn>>, NEW p \in Parts, ~Present(p),
         on_disk' = on_disk \cup {p}, loaded' = loaded \cup {p},
         NEW s \in {"PreActive", "Active", "Outdated"}, state' = [state EXCEPT ![p] = s],
         NEW w \in Metadata, file' = [file EXCEPT ![p] = w], TrueMetadata(w), NamesAreKnown(w),
         version' \in [Parts -> Metadata], TrueMetadata(version'[p]), NamesAreKnown(version'[p]),
         \A q \in Parts : q # p => Restamped(version[q], version'[q]),
         w.removal_csn # UnknownCSN => w.removal_tid = version'[p].removal_tid,
         \A q \in Parts : InUse(q)' => InUse(q) \/ q = p,
         \A x \in Txns : \A q \in Parts : CreatedBy(x, q)' =>
            CreatedBy(x, q) \/ (q = p /\ p \in Writes[x] /\ version'[p].creation_tid = tid[x] /\ w.creation_tid = tid[x]),
         \A x \in Txns : KeepsLocks(x) /\ Holding(x)' = Holding(x)
  PROVE  PartInv'
<1>g. Grows
  BY NextGrows
<1>t. /\ version \in [Parts -> Metadata] /\ file \in [Parts -> Metadata] /\ on_disk \subseteq Parts /\ loaded \subseteq Parts
      /\ state \in [Parts -> {None, "PreActive", "Active", "Outdated"}] /\ read \in [Txns -> Reads]
  BY DEF PartInv, PartTypes
<1>a. /\ ~InUse(p) /\ state[p] = None
      /\ \A x \in Txns : ~CreatedBy(x, p) /\ p \notin Range(Holding(x)) /\ (read[x].pc # None => read[x].part # p)
  BY AbsentIsNotInUse
<1>1. /\ file'[p] = w /\ state'[p] = s /\ s # None
      /\ \A q \in Parts : q # p =>
           /\ file'[q] = file[q] /\ state'[q] = state[q]
           /\ version'[q].creation_tid = version[q].creation_tid /\ version'[q].removal_tid = version[q].removal_tid
  BY <1>t DEF Restamped, None
<1>3. PartTypes'
  BY <1>t DEF PartTypes
<1>4. PartsArePresent'
  BY <1>1 DEF PartInv, PartsArePresent, Present
<1>5. CreatedIsNamed'
  <2> SUFFICES ASSUME NEW x \in Txns, NEW q \in Parts, CreatedBy(x, q)'
               PROVE  /\ q \in Writes[x]
                      /\ version'[q].creation_tid = tid'[x] /\ file'[q].creation_tid = tid'[x]
    BY DEF CreatedIsNamed
  <2>1. CASE CreatedBy(x, q)
    <3>1. q # p /\ q \in Writes[x] /\ version[q].creation_tid = tid[x] /\ file[q].creation_tid = tid[x]
      BY <1>a, <2>1 DEF PartInv, CreatedIsNamed
    <3> QED  BY <1>1, <3>1
  <2>2. CASE ~CreatedBy(x, q)
    BY <1>1, <2>2
  <2> QED  BY <2>1, <2>2
<1>h. \A x \in Txns : \A q \in Range(Holding(x)) : q \in Parts /\ q # p
  BY <1>a, HeldIsPresent
<1>6. RemovedIsLocked'
  BY <1>1, <1>h DEF PartInv, RemovedIsLocked, KeepsLocks
<1>7. FileIsLocked'
  BY <1>1, <1>h DEF PartInv, FileIsLocked, KeepsLocks, Appending
<1>8. FileCSNIsFinal'
  BY <1>t, <1>1 DEF PartInv, FileCSNIsFinal
<1>9. UnloadedIsOld'
  BY <1>g, <1>t, <1>1 DEF PartInv, UnloadedIsOld, Grows
<1>10. ASSUME NEW x \in Txns PROVE ReadIsTrue(x)'
  <2>1. read[x].pc # None => read[x].part \in Parts /\ read[x].part # p
    BY <1>a DEF PartInv, ReadIsTrue
  <2> QED  BY <1>g, <1>1, <2>1, SameReads DEF PartInv
<1>11. MetadataIsTrue'
  <2> SUFFICES ASSUME NEW q \in Parts
               PROVE  /\ TrueMetadata(version'[q]) /\ NamesAreKnown(version'[q])
                      /\ TrueMetadata(file'[q]) /\ NamesAreKnown(file'[q])
    BY <1>g, MetadataGrows
  <2>1. CASE q = p
    BY <1>1, <2>1
  <2>2. CASE q # p
    BY <1>1, <2>2 DEF PartInv, MetadataIsTrue, Restamped, NamesAreKnown
  <2> QED  BY <2>1, <2>2
<1> QED  BY <1>3, <1>4, <1>5, <1>6, <1>7, <1>8, <1>9, <1>10, <1>11 DEF PartInv

(* INSERT, or a merge or mutation, has written a part. *)
LEMMA WritePartPartInv ==
  ASSUME IInv, TxnInv, TxnInv', Served, NothingCovered, PartInv, Next, NEW x \in Txns, NEW p \in Parts, WritePart(x, p)
  PROVE  PartInv'
<1> USE DEF writeVars, changes, ending
<1>0. /\ UNCHANGED <<logVars, read, tid, csn, covered, creating, removing, finish, todo>>
      /\ client[x] = "ready" /\ p \in Writes[x] /\ p \notin on_disk /\ state[p] = None
      /\ file' = [file EXCEPT ![p] = MetadataOf(tid[x])] /\ state' = [state EXCEPT ![p] = "PreActive"]
      /\ on_disk' = on_disk \cup {p} /\ loaded' = loaded \cup {p}
      /\ new_part' = [new_part EXCEPT ![x] = p] /\ client' = [client EXCEPT ![x] = "written"]
  BY DEF WritePart, Idle, logVars
<1>t. /\ client \in [Txns -> ClientStates] /\ new_part \in [Txns -> Parts \cup {None}] /\ covered[x] = <<>> /\ alive
      /\ version \in [Parts -> Metadata] /\ tid[x] \in TIDs
  BY <1>0 DEF TxnInv, TxnTypes, NothingCovered, Served, PartInv, PartTypes, IInv, LogTypeOK
<1>1. ~Present(p)
  BY <1>0 DEF Present
<1>2. PICK w : w = MetadataOf(tid[x])
  OBVIOUS
<1>3. /\ w \in Metadata /\ w.creation_tid = tid[x] /\ w.removal_csn = UnknownCSN
      /\ TrueMetadata(w) /\ NamesAreKnown(w)
  <2>1. tid[x] \in NamedTIDs /\ EmptyTID \in NamedTIDs
    BY <1>0 DEF NamedTIDs
  <2> QED  BY <1>2, <1>t, <2>1, MetadataOfFacts DEF TrueMetadata, TrueCreation, TrueRemoval, NamesAreKnown
<1>4. PICK f : f = AfterVisibleTo(x, CoveredBy(p, "Active"))
  OBVIOUS
<1>5. version' = [f EXCEPT ![p] = w]
  BY <1>2, <1>4 DEF WritePart
<1>6. f \in [Parts -> Metadata] /\ \A q \in Parts : Restamped(version[q], f[q])
  BY <1>t, <1>4, AfterVisibleToFacts
<1>7. /\ version' \in [Parts -> Metadata] /\ version'[p] = w
      /\ \A q \in Parts : q # p => Restamped(version[q], version'[q])
  BY <1>3, <1>5, <1>6
<1>8. \A y \in Txns : y # x => client'[y] = client[y] /\ new_part'[y] = new_part[y]
  BY <1>0, <1>t
<1>9. client'[x] = "written" /\ new_part'[x] = p /\ covered'[x] = <<>>
  BY <1>0, <1>t
<1>10. ASSUME NEW q \in Parts, InUse(q)' PROVE InUse(q) \/ q = p
  <2>1. PICK y \in Txns :
              \/ finish'[y] # "done" /\ q \in Range(creating'[y] \o removing'[y])
              \/ client'[y] \in {"written", "remove", "append", "undo"} /\ q \in {new_part'[y]} \cup Range(covered'[y])
              \/ read'[y].pc # None /\ q = read'[y].part
    BY <1>10 DEF InUse
  <2>2. CASE y = x
    BY <1>0, <1>9, <2>1, <2>2, EmptyRange DEF InUse
  <2>3. CASE y # x
    BY <1>0, <1>8, <2>1, <2>3 DEF InUse
  <2> QED  BY <2>2, <2>3
<1>11. ASSUME NEW y \in Txns, NEW q \in Parts, CreatedBy(y, q)', ~CreatedBy(y, q) PROVE y = x /\ q = p
  <2>1. Running(y)' = Running(y)
    BY <1>0 DEF Running, logVars, memory
  <2>2. Writing(y)' /\ q = new_part'[y]
    BY <1>0, <1>11, <2>1 DEF CreatedBy
  <2>3. CASE y # x
    <3>1. Writing(y)
      BY <1>8, <2>2, <2>3 DEF Writing, Truncating
    <3> QED  BY <1>8, <1>11, <2>2, <2>3, <3>1 DEF CreatedBy
  <2> QED  BY <1>9, <2>2, <2>3
<1>12. \A y \in Txns : KeepsLocks(y) /\ Holding(y)' = Holding(y)
  <2>1. \A y \in Txns : TodoIsMine(y)' /\ Holding(y)' = Holding(y)
    BY <1>0 DEF PartInv, RemovedIsLocked, TodoIsMine, Holding
  <2> QED  BY <1>0, <1>8, <2>1 DEF KeepsLocks
<1>13. "PreActive" \in {"PreActive", "Active", "Outdated"}
  OBVIOUS
<1>14. file' = [file EXCEPT ![p] = w]
  BY <1>0, <1>2
<1> QED  BY <1>0, <1>1, <1>3, <1>7, <1>10, <1>11, <1>12, <1>13, <1>14, JoinPartInv

-----------------------------------------------------------------------------
(* Start-up. *)

(* A creation without a CSN, neither in the file nor in the log, was not committed. *)
LEMMA NotFoundIsDoomed ==
  ASSUME IInv, TxnInv, alive, NEW t \in OldTIDs, GetCSN(t) = UnknownCSN, ~LookupThrows(t, UnknownCSN)
  PROVE  t \in DoomedTIDs
<1>1. t # PrehistoricTID
  BY CSNFacts DEF GetCSN
<1>2. ~(t.start_csn < tail_ptr)
  BY <1>1 DEF LookupThrows, GetCSNOr, IsOutdated
<1>3. CASE t = EmptyTID
  BY <1>3 DEF DoomedTIDs
<1>4. ASSUME NEW y \in Txns, IsOld(y), t = tid[y] PROVE t \in DoomedTIDs
  <2>1. ASSUME NEW e \in committed, e.tid = t PROVE FALSE
    <3>1. e.csn <= last_loaded_entry
      BY <1>4, <2>1 DEF IsOld
    <3>2. t.start_csn \in Nat /\ tail_ptr \in Nat
      BY <1>4, TIDFacts DEF IInv, LogTypeOK
    <3>3. tail_ptr <= e.tid.start_csn
      BY <1>2, <2>1, <3>2
    <3>4. e \in tid_to_csn
      BY <3>1, <3>3 DEF IInv, LookupsAreRight
    <3>5. PICK d : d = CHOOSE i \in tid_to_csn : i.tid = t
      OBVIOUS
    <3>6. d \in tid_to_csn /\ d.tid = t /\ GetCSN(t) = d.csn
      BY <1>1, <2>1, <3>4, <3>5 DEF GetCSN
    <3>7. MaxReservedCSN < d.csn
      BY <3>6 DEF IInv, LookupsAreRight, TxnInv, CommitNumbers
    <3> QED  BY <3>6, <3>7, CSNFacts
  <2>2. Doomed(y)
    BY <1>4, <2>1 DEF Doomed, IsCommitted, IsOld, Ended
  <2> QED  BY <1>4, <2>2 DEF DoomedTIDs
<1> QED  BY <1>3, <1>4, <1>1 DEF OldTIDs

LEMMA StoredOrFoundFacts ==
  ASSUME IInv, TxnInv, alive, NEW t, NEW c \in CSNs
  PROVE  /\ StoredOrFound(t, c) \in CSNs
         /\ TrueRemoval(t, c) => TrueRemoval(t, StoredOrFound(t, c))
         /\ TrueCreation(t, c) => TrueCreation(t, StoredOrFound(t, c))
         /\ StoredOrFound(t, c) = UnknownCSN => c = UnknownCSN /\ GetCSN(t) = UnknownCSN
BY GetCSNFacts DEF StoredOrFound, TrueCreation

(* What loadDataPart() makes of the file is true. *)
LEMMA FixedFacts ==
  ASSUME IInv, TxnInv, alive, NEW v \in Metadata, TrueMetadata(v), NamesAreKnown(v),
         v.creation_tid \in OldTIDs, ~LookupThrows(v.creation_tid, v.creation_csn)
  PROVE  /\ Fixed(v) \in Metadata /\ TrueMetadata(Fixed(v)) /\ NamesAreKnown(Fixed(v))
<1> DEFINE found == StoredOrFound(v.creation_tid, v.creation_csn)
           r == StoredOrFound(v.removal_tid, v.removal_csn)
<1>1. PICK c : c = IF found = UnknownCSN THEN RolledBackCSN ELSE found
  OBVIOUS
<1>2. PICK t : t = IF r = UnknownCSN THEN EmptyTID ELSE v.removal_tid
  OBVIOUS
<1>3. Fixed(v) = [v EXCEPT !.creation_csn = c, !.removal_csn = r, !.removal_tid = t]
  BY <1>1, <1>2 DEF Fixed
<1>4. v.creation_csn \in CSNs /\ v.removal_csn \in CSNs /\ v.creation_tid \in TIDs /\ v.removal_tid \in TIDs
  BY MetadataFacts
<1>5. r \in CSNs /\ TrueRemoval(v.removal_tid, r)
  BY <1>4, StoredOrFoundFacts DEF TrueMetadata
<1>6. found \in CSNs /\ TrueCreation(v.creation_tid, found)
  BY <1>4, StoredOrFoundFacts DEF TrueMetadata
<1>7. found = UnknownCSN => v.creation_csn = UnknownCSN /\ GetCSN(v.creation_tid) = UnknownCSN
  BY <1>4, StoredOrFoundFacts
<1> HIDE DEF found, r
<1>8. found = UnknownCSN => v.creation_tid \in DoomedTIDs
  BY <1>7, NotFoundIsDoomed
<1>9. c \in CSNs /\ TrueCreation(v.creation_tid, c)
  BY <1>1, <1>6, <1>8, MetadataFacts DEF TrueCreation
<1>10. t \in TIDs /\ TrueRemoval(t, r) /\ t \in NamedTIDs
  BY <1>2, <1>4, <1>5, MetadataFacts DEF TrueRemoval, NamesAreKnown, NamedTIDs
<1>11. /\ Fixed(v).creation_tid = v.creation_tid /\ Fixed(v).creation_csn = c
       /\ Fixed(v).removal_tid = t /\ Fixed(v).removal_csn = r /\ Fixed(v) \in Metadata
  BY <1>3, <1>4, <1>5, <1>9, <1>10 DEF Metadata
<1> QED  BY <1>9, <1>10, <1>11 DEF TrueMetadata, NamesAreKnown

LEMMA PreparedFacts ==
  ASSUME IInv, TxnInv, TIDsAreOwn, NEW v \in Metadata, TrueMetadata(v), NamesAreKnown(v), NEW w \in {v, PreparedForRemoval(v)}
  PROVE  /\ w \in Metadata /\ TrueMetadata(w) /\ NamesAreKnown(w)
         /\ v.removal_csn # UnknownCSN => v.removal_tid = w.removal_tid
<1>1. CASE w = v
  BY <1>1
<1>2. CASE w # v
  <2>1. v.removal_tid = EmptyTID /\ w = [v EXCEPT !.removal_tid = PrehistoricTID]
    BY <1>2 DEF PreparedForRemoval
  <2>2. v.removal_csn = UnknownCSN
    BY <2>1, EmptyIsDoomed, DoomedRemoval DEF TrueMetadata
  <2>3. /\ w \in Metadata /\ w.creation_tid = v.creation_tid /\ w.creation_csn = v.creation_csn
        /\ w.removal_tid = PrehistoricTID /\ w.removal_csn = UnknownCSN
    BY <2>1, <2>2, MetadataFacts DEF Metadata
  <2> QED  BY <2>2, <2>3 DEF TrueMetadata, TrueRemoval, NamesAreKnown, NamedTIDs
<1> QED  BY <1>1, <1>2

(* loadDataPart() *)
LEMMA LoadPartPartInv ==
  ASSUME IInv, TxnInv, TxnInv', TIDsAreOwn, PartInv, Next, NEW p \in Parts, LoadPart(p)
  PROVE  PartInv'
<1> DEFINE v0 == IF file[p] = NoMetadata THEN PrehistoricMetadata ELSE file[p]
           w0 == IF WasInvolvedInTransaction(v0) THEN Fixed(v0) ELSE v0
           outdated == IsCovered(p) \/ (WasInvolvedInTransaction(v0) /\ IsGone(w0))
           throws == LoadThrows(v0) \/ (outdated /\ PrepareThrows(w0))
           z0 == IF outdated THEN PreparedForRemoval(w0) ELSE w0
<1>0. /\ UNCHANGED <<logVars, read, tid, csn, client, finish, todo, creating, removing, new_part, covered, on_disk>>
      /\ alive /\ p \in on_disk /\ p \notin loaded
  BY DEF LoadPart, txnVars, writeVars, changes, ending, logVars
<1>q. \A y \in Txns : Quiet(y)
  BY <1>0, UntouchedIsQuiet DEF Untouched
<1>1. CASE throws
  <2>1. UNCHANGED <<version, file, state, loaded>>
    BY <1>1 DEF LoadPart
  <2> QED  BY <1>0, <1>q, <2>1, QuietPartInv DEF PartInv, PartTypes
<1>2. CASE ~throws
  <2>1. /\ version' = [version EXCEPT ![p] = z0]
        /\ file' = [file EXCEPT ![p] = IF w0 = v0 THEN file[p] ELSE w0]
        /\ state' = [state EXCEPT ![p] = IF outdated THEN "Outdated" ELSE "Active"]
        /\ loaded' = loaded \cup {p}
    BY <1>2 DEF LoadPart
  <2>2. PICK v : v = v0
    OBVIOUS
  <2>3. PICK w : w = w0
    OBVIOUS
  <2>4. PICK z : z = z0
    OBVIOUS
  <2>5. PICK s : s = IF outdated THEN "Outdated" ELSE "Active"
    OBVIOUS
  <2>6. PICK u : u = IF w0 = v0 THEN file[p] ELSE w0
    OBVIOUS
  <2>7. /\ version' = [version EXCEPT ![p] = z] /\ file' = [file EXCEPT ![p] = u] /\ state' = [state EXCEPT ![p] = s]
        /\ s \in {"PreActive", "Active", "Outdated"} /\ u \in {file[p], w}
        /\ (w = v => u = file[p]) /\ (w # v => u = w)
        /\ v \in {file[p], PrehistoricMetadata} /\ (v # file[p] => file[p] = NoMetadata)
    BY <2>1, <2>2, <2>3, <2>4, <2>5, <2>6
  <2>8. z \in {w, PreparedForRemoval(w)}
    BY <2>3, <2>4
  <2>9. w = v \/ (w = Fixed(v) /\ ~LookupThrows(v.creation_tid, v.creation_csn))
    BY <1>2, <2>2, <2>3 DEF LoadThrows
  <2> HIDE DEF v0, w0, z0, outdated, throws
  <2>t. version \in [Parts -> Metadata] /\ file \in [Parts -> Metadata]
    BY DEF PartInv, PartTypes
  <2>10. /\ file[p] \in Metadata /\ TrueMetadata(file[p]) /\ NamesAreKnown(file[p])
         /\ file[p].creation_tid \in OldTIDs /\ file[p].removal_tid \in OldTIDs
    BY <1>0, <2>t DEF PartInv, MetadataIsTrue, UnloadedIsOld
  <2>11. v \in Metadata /\ TrueMetadata(v) /\ NamesAreKnown(v) /\ v.creation_tid \in OldTIDs
    BY <2>7, <2>10, PrehistoricFacts DEF OldTIDs
  <2>12. w \in Metadata /\ TrueMetadata(w) /\ NamesAreKnown(w)
    BY <1>0, <2>9, <2>11, FixedFacts
  <2>13. /\ z \in Metadata /\ TrueMetadata(z) /\ NamesAreKnown(z)
         /\ w.removal_csn # UnknownCSN => w.removal_tid = z.removal_tid
    BY <2>8, <2>12, PreparedFacts
  <2>14. u \in Metadata /\ TrueMetadata(u) /\ NamesAreKnown(u)
    BY <2>7, <2>10, <2>12
  <2>15. u.removal_csn # UnknownCSN => u.removal_tid = z.removal_tid
    BY <2>7, <2>13, NoMetadataFacts
  <2>16. version'[p] = z /\ version' \in [Parts -> Metadata] /\ \A q \in Parts : q # p => version'[q] = version[q]
    BY <2>t, <2>7, <2>13
  <2>17. \A q \in Parts : q # p => Restamped(version[q], version'[q])
    BY <2>t, <2>16 DEF Restamped, PartInv, MetadataIsTrue
  <2>18. ~Present(p) /\ on_disk' = on_disk \cup {p} /\ loaded' = loaded \cup {p}
    BY <1>0, <2>1 DEF Present
  <2>19. \A y \in Txns : KeepsLocks(y) /\ Holding(y)' = Holding(y)
    BY <1>0, <1>q DEF Quiet, KeepsLocks, Holding
  <2>20. /\ \A q \in Parts : InUse(q)' => InUse(q)
         /\ \A y \in Txns : \A q \in Parts : CreatedBy(y, q)' => CreatedBy(y, q)
    BY <1>0, <1>q, QuietFacts DEF ReadsOn
  <2> QED  BY <1>0, <2>7, <2>13, <2>14, <2>15, <2>16, <2>17, <2>18, <2>19, <2>20, JoinPartInv
<1> QED  BY <1>1, <1>2

(* A crash keeps the files. *)
LEMMA CrashPartInv ==
  ASSUME IInv, TxnInv, TxnInv', PartInv, Next, CrashServer
  PROVE  PartInv'
<1>0. /\ UNCHANGED <<file, csn, new_part, creating, removing, on_disk, tid, committed>>
      /\ client' = [x \in Txns |-> IF client[x] = "idle" THEN "idle" ELSE "end"]
      /\ finish' = [x \in Txns |-> IF client[x] = "idle" THEN None ELSE "done"]
      /\ read' = [x \in Txns |-> NoRead] /\ todo' = [x \in Txns |-> <<>>]
      /\ state' = [p \in Parts |-> None] /\ version' = [p \in Parts |-> NoMetadata]
      /\ loaded' = {} /\ alive' = FALSE /\ in_use' = <<>>
  BY DEF CrashServer, Crash, changes
<1>g. Grows
  BY NextGrows
<1>1. \A x \in Txns : client[x] = "idle" => creating[x] = <<>> /\ removing[x] = <<>>
  BY DEF TxnInv, Outcome, IsReadOnly
<1>2. \A x \in Txns : Holding(x)' = <<>>
  BY <1>0, <1>1 DEF Holding, None
<1>3. \A p \in Parts : ~InUse(p)'
  <2> SUFFICES ASSUME NEW p \in Parts, InUse(p)' PROVE FALSE
    OBVIOUS
  <2>1. PICK x \in Txns : finish'[x] # "done" /\ p \in Range(creating'[x] \o removing'[x])
    BY <1>0, NoReadFacts DEF InUse
  <2>2. creating'[x] = <<>> /\ removing'[x] = <<>>
    BY <1>0, <1>1, <2>1
  <2>3. Range(<<>> \o <<>>) = {}
    <3>1. <<>> \in Seq(Parts)
      OBVIOUS
    <3> QED  BY <3>1, ConcatRange, EmptyRange
  <2> QED  BY <2>1, <2>2, <2>3
<1>4. PartTypes'
  BY <1>0, NoReadFacts, NoMetadataFacts DEF PartInv, PartTypes
<1>5. PartsArePresent'
  BY <1>0, <1>3 DEF PartInv, PartsArePresent
<1>6. CreatedIsNamed'
  BY <1>0, EmptyRange DEF CreatedIsNamed, CreatedBy, Writing, Running
<1>7. RemovedIsLocked'
  <2>1. \A x \in Txns : TodoIsMine(x)'
    BY <1>0 DEF TodoIsMine, None
  <2> QED  BY <1>0, <1>2, <2>1, EmptyRange DEF PartInv, RemovedIsLocked, Unique
<1>8. FileIsLocked'
  BY <1>2, EmptyRange DEF FileIsLocked
<1>9. FileCSNIsFinal'
  BY <1>0 DEF FileCSNIsFinal
<1>10. UnloadedIsOld'
  <2>1. NamedTIDs \subseteq OldTIDs'
    <3> SUFFICES ASSUME NEW y \in Txns, client[y] # "idle" PROVE tid[y] \in OldTIDs'
      BY DEF NamedTIDs, OldTIDs
    <3>1. IsOld(y)'
      BY <1>0 DEF IsOld, Ended
    <3> QED  BY <1>0, <3>1 DEF OldTIDs
  <2> QED  BY <1>0, <2>1 DEF PartInv, PartTypes, UnloadedIsOld, MetadataIsTrue, NamesAreKnown
<1>11. \A x \in Txns : ReadIsTrue(x)'
  BY <1>0, NoReadFacts DEF ReadIsTrue
<1>12. MetadataIsTrue'
  BY <1>0, <1>g, NoMetadataFacts, MetadataGrows DEF PartInv, MetadataIsTrue
<1> QED  BY <1>4, <1>5, <1>6, <1>7, <1>8, <1>9, <1>10, <1>11, <1>12 DEF PartInv

-----------------------------------------------------------------------------
(* The invariant of the table. *)
TableInv == Served /\ TIDsAreOwn /\ NothingCovered /\ PartInv

LEMMA InitTableInv == Init => TableInv
<1> SUFFICES ASSUME Init PROVE TableInv
  OBVIOUS
<1>0. /\ version = [p \in Parts |-> IF p \in Initial THEN PrehistoricMetadata ELSE NoMetadata]
      /\ file = [p \in Parts |-> NoMetadata] /\ read = [x \in Txns |-> NoRead]
      /\ client = [x \in Txns |-> "idle"] /\ finish = [x \in Txns |-> None]
      /\ covered = [x \in Txns |-> <<>>] /\ creating = [x \in Txns |-> <<>>] /\ removing = [x \in Txns |-> <<>>]
      /\ state = [p \in Parts |-> IF p \in Initial THEN "Active" ELSE None]
      /\ on_disk = Initial /\ loaded = Initial /\ tid = [x \in Txns |-> EmptyTID] /\ in_use = <<>>
  BY DEF Init, LogInit
<1>a. Initial \subseteq Parts
  BY TableAssumption
<1>1. Served /\ TIDsAreOwn /\ NothingCovered
  BY <1>0, MetadataFacts DEF Served, TIDsAreOwn, NothingCovered
<1>2. PartTypes
  <2>1. read \in [Txns -> Reads]
    BY <1>0, NoReadFacts
  <2>2. version \in [Parts -> Metadata] /\ file \in [Parts -> Metadata]
    BY <1>0, NoMetadataFacts, PrehistoricFacts
  <2>3. state \in [Parts -> {None, "PreActive", "Active", "Outdated"}]
    BY <1>0
  <2> QED  BY <1>0, <1>a, <2>1, <2>2, <2>3 DEF PartTypes
<1>3. \A p \in Parts : ~InUse(p)
  <2>1. Range(<<>> \o <<>>) = {}
    <3>1. <<>> \in Seq(Parts)
      OBVIOUS
    <3> QED  BY <3>1, ConcatRange, EmptyRange
  <2> QED  BY <1>0, <2>1, NoReadFacts DEF InUse
<1>4. PartsArePresent
  BY <1>0, <1>3 DEF PartsArePresent, Present, None
<1>5. CreatedIsNamed
  BY <1>0, EmptyRange DEF CreatedIsNamed, CreatedBy, Writing
<1>6. \A x \in Txns : Holding(x) = <<>> /\ TodoIsMine(x)
  BY <1>0 DEF Holding, TodoIsMine, None
<1>7. RemovedIsLocked
  BY <1>0, <1>6, EmptyRange DEF RemovedIsLocked, Unique
<1>8. FileIsLocked
  BY <1>6, EmptyRange DEF FileIsLocked
<1>9. FileCSNIsFinal /\ UnloadedIsOld
  BY <1>0, <1>a, NoMetadataFacts DEF FileCSNIsFinal, UnloadedIsOld
<1>10. \A x \in Txns : ReadIsTrue(x)
  BY <1>0, NoReadFacts DEF ReadIsTrue
<1>11. MetadataIsTrue
  BY <1>0, NoMetadataFacts, PrehistoricFacts DEF MetadataIsTrue
<1> QED  BY <1>1, <1>2, <1>4, <1>5, <1>7, <1>8, <1>9, <1>10, <1>11 DEF PartInv, TableInv

LEMMA StutterPartInv ==
  ASSUME PartInv, UNCHANGED vars
  PROVE  PartInv'
<1>0. /\ UNCHANGED <<version, file, read, csn, client, finish, todo, creating, removing, new_part, covered, state, on_disk, loaded>>
      /\ UNCHANGED <<tid, committed, alive, in_use, last_loaded_entry>>
  BY DEF vars, txnVars, writeVars, changes, ending, partVars, logVars, memory
<1>1. \A y \in Txns : /\ TodoIsMine(y)' = TodoIsMine(y) /\ Holding(y)' = Holding(y) /\ IsOld(y)' = IsOld(y)
                     /\ Doomed(y)' = Doomed(y)
  BY <1>0 DEF TodoIsMine, Holding, IsOld, Ended, Doomed, IsCommitted
<1>2. \A p \in Parts : InUse(p)' = InUse(p) /\ Present(p)' = Present(p)
  BY <1>0 DEF InUse, Present
<1>3. \A y \in Txns : \A p \in Parts : CreatedBy(y, p)' = CreatedBy(y, p)
  BY <1>0 DEF CreatedBy, Writing, Truncating, Running
<1>4. DoomedTIDs' = DoomedTIDs /\ NamedTIDs' = NamedTIDs /\ OldTIDs' = OldTIDs
  BY <1>0, <1>1 DEF DoomedTIDs, NamedTIDs, OldTIDs
<1>5. PartTypes' /\ PartsArePresent' /\ CreatedIsNamed'
  BY <1>0, <1>2, <1>3 DEF PartInv, PartTypes, PartsArePresent, CreatedIsNamed
<1>6. RemovedIsLocked' /\ FileIsLocked' /\ FileCSNIsFinal' /\ UnloadedIsOld'
  BY <1>0, <1>1, <1>4 DEF PartInv, RemovedIsLocked, FileIsLocked, Appending, FileCSNIsFinal, UnloadedIsOld
<1>7. \A y \in Txns : ReadIsTrue(y)'
  BY <1>0, <1>4 DEF PartInv, ReadIsTrue, TrueCreation, TrueRemoval
<1>8. MetadataIsTrue'
  BY <1>0, <1>4 DEF PartInv, MetadataIsTrue, TrueMetadata, TrueCreation, TrueRemoval, NamesAreKnown
<1> QED  BY <1>5, <1>6, <1>7, <1>8 DEF PartInv

LEMMA NextTableInv ==
  ASSUME IInv, TxnInv, TableInv, [Next]_vars
  PROVE  TableInv'
<1>0. TxnInv' /\ Served /\ TIDsAreOwn /\ NothingCovered /\ PartInv
  BY NextTxnInv DEF TableInv
<1>1. CASE UNCHANGED vars
  <2>1. UNCHANGED <<client, covered, tid, alive>>
    BY <1>1 DEF vars, txnVars, writeVars, logVars
  <2>2. Served' /\ TIDsAreOwn' /\ NothingCovered'
    BY <1>0, <2>1 DEF Served, TIDsAreOwn, NothingCovered
  <2> QED  BY <1>0, <1>1, <2>2, StutterPartInv DEF TableInv
<1>2. CASE Next
  <2>1. Served' /\ TIDsAreOwn' /\ NothingCovered'
    BY <1>0, <1>2, NextLogStep, NextServed, NextTIDsAreOwn, NextNothingCovered
  <2> SUFFICES PartInv'
    BY <2>1 DEF TableInv
  <2>2. ASSUME NEW x \in Txns, ClientStep(x) PROVE PartInv'
    <3>1. CASE \E p \in Parts : Select(x, p) \/ WritePart(x, p)
      BY <1>0, <1>2, <3>1, SelectPartInv, WritePartPartInv
    <3>2. CASE LockedStep(x)
      BY <1>0, <1>2, <3>2, RemoveOldPartPartInv, AppendRemovalPartInv, EndOfQueryPartInv DEF LockedStep
    <3>3. CASE SelectStep(x) \/ AddNewPart(x) \/ Truncate(x) \/ UndoPart(x) \/ ClientRollsBack(x)
      BY <1>0, <1>2, <3>3, SelectStepPartInv, AddNewPartPartInv, TruncatePartInv, UndoPartPartInv, StartRollbackPartInv
    <3>4. CASE Begin(x) \/ BeforeCommit(x) \/ Commit(x) \/ CommitLost(x) \/ Postpone(x) \/ CommitRefused(x)
      BY <1>0, <1>2, <3>4, CommitPartInv
    <3> QED  BY <2>2, <3>1, <3>2, <3>3, <3>4 DEF ClientStep
  <2>3. ASSUME NEW x \in Txns, FinishStep(x) PROVE PartInv'
    <3>1. CASE AfterCommit(x) \/ Release(x)
      BY <1>0, <1>2, <3>1, CommitPartInv
    <3>2. CASE ~(AfterCommit(x) \/ Release(x))
      BY <1>0, <1>2, <2>3, <3>2, StampCreatedPartInv, StampRemovedPartInv, MarkRolledBackPartInv, OutdatePartInv,
         ClearRemovedPartInv, UnlockRemovedPartInv DEF FinishStep
    <3> QED  BY <3>1, <3>2
  <2>4. ASSUME NEW x \in Txns, KillStep(x) \/ UnknownStateStep(x) PROVE PartInv'
    BY <1>0, <1>2, <2>4, StartRollbackPartInv, ServerPartInv, CommitPartInv DEF KillStep, UnknownStateStep
  <2>5. CASE \E p \in Parts : GrabOldPart(p) \/ LoadPart(p)
    <3>1. PICK p \in Parts : GrabOldPart(p) \/ LoadPart(p)
      BY <2>5
    <3>2. CASE GrabOldPart(p)
      BY <1>0, <1>2, <3>2, GrabOldPartPartInv
    <3>3. CASE LoadPart(p)
      BY <1>0, <1>2, <3>3, LoadPartPartInv
    <3> QED  BY <3>1, <3>2, <3>3
  <2>6. CASE UpdaterStep \/ UpdaterRequestFails \/ StartServer \/ ServerStarted \/ CrashServer
    <3>1. CASE CrashServer
      BY <1>0, <1>2, <3>1, CrashPartInv
    <3>2. CASE ~CrashServer
      BY <1>0, <1>2, <2>6, <3>2, ServerPartInv
    <3> QED  BY <3>1, <3>2
  <2> QED  BY <1>2, <2>2, <2>3, <2>4, <2>5, <2>6 DEF Next
<1> QED  BY <1>1, <1>2

LEMMA TableIInv == Spec => [](IInv /\ TxnInv /\ TableInv)
<1>1. Spec => []TableInv
  BY LifeIInv, InitTableInv, NextTableInv, PTL DEF Spec
<1> QED  BY <1>1, LifeIInv, PTL

LEMMA TruthIsEnough ==
  ASSUME IInv, TxnInv, TIDsAreOwn, NEW t, NEW c, TrueCreation(t, c)
  PROVE  TrueCSN(t, c)
<1>1. \A e \in committed : MaxReservedCSN < e.csn /\ e.csn <= MaxCSN /\ e.csn \in Nat
  BY DEF TxnInv, CommitNumbers, IInv, LogTypeOK, Entries
<1>2. CASE c = UnknownCSN
  BY <1>2, CSNFacts DEF TrueCSN
<1>3. CASE c = PrehistoricCSN
  <2>1. t = PrehistoricTID
    BY <1>1, <1>3, CSNFacts DEF TrueCreation, TrueRemoval
  <2> QED  BY <1>3, <2>1, CSNFacts DEF TrueCSN
<1>4. CASE c = RolledBackCSN
  <2>1. t \in DoomedTIDs
    BY <1>1, <1>4, CSNFacts DEF TrueCreation, TrueRemoval
  <2>2. \A e \in committed : e.tid # t
    BY <2>1, DoomedHasNoCSN
  <2> QED  BY <1>4, <2>2, CSNFacts DEF TrueCSN
<1>5. CASE c \notin {UnknownCSN, PrehistoricCSN, RolledBackCSN}
  <2>1. [csn |-> c, tid |-> t] \in committed
    BY <1>5 DEF TrueCreation, TrueRemoval
  <2> QED  BY <1>5, <2>1 DEF TrueCSN
<1> QED  BY <1>2, <1>3, <1>4, <1>5

(* A CSN in memory or on disk is true: a number is the CSN its transaction *)
(* was committed with, and RolledBackCSN means that it never was and never *)
(* will be, across lookups, failed requests, kills, crashes and loading    *)
(* (afterCommit, rollback, isVisible, canBeRemoved, loadDataPart).         *)
THEOREM TrueCSNs == Spec => []StoredCSNsAreTrue
<1>1. IInv /\ TxnInv /\ TableInv => StoredCSNsAreTrue
  <2> SUFFICES ASSUME IInv, TxnInv, TableInv, NEW p \in Parts, NEW m \in {version, file}
               PROVE  /\ TrueCSN(m[p].creation_tid, m[p].creation_csn)
                      /\ m[p].removal_csn # UnknownCSN => TrueCSN(m[p].removal_tid, m[p].removal_csn)
    BY DEF StoredCSNsAreTrue
  <2>1. TrueMetadata(m[p]) /\ TIDsAreOwn
    BY DEF TableInv, PartInv, MetadataIsTrue
  <2>2. TrueCreation(m[p].creation_tid, m[p].creation_csn) /\ TrueCreation(m[p].removal_tid, m[p].removal_csn)
    BY <2>1 DEF TrueMetadata, TrueCreation
  <2> QED  BY <2>1, <2>2, TruthIsEnough
<1> QED  BY <1>1, TableIInv, PTL

-----------------------------------------------------------------------------
(* The parts that merges have taken are parts. *)
MergingType == merging \in [Txns -> SUBSET Parts]

LEMMA NextMergingType ==
  ASSUME IInv, TxnInv, TableInv, MergingType, [Next]_vars
  PROVE  MergingType'
<1> USE DEF MergingType, txnVars, writeVars
<1>1. CASE UNCHANGED vars
  BY <1>1 DEF vars
<1>2. ASSUME NEW x \in Txns, ClientStep(x) PROVE MergingType'
  <2>1. ASSUME NEW p \in Parts, WritePart(x, p) PROVE MergingType'
    <3>1. CoveredBy(p, "Active") \subseteq Parts /\ merging' = [merging EXCEPT ![x] = CoveredBy(p, "Active")]
      BY <2>1, TableAssumption DEF WritePart, CoveredBy
    <3> QED  BY <3>1
  <2>2. CASE ActivatePart(x) \/ UndoPart(x)
    BY <2>2 DEF ActivatePart, UndoPart
  <2>3. CASE RemoveOldPart(x) \/ AppendRemoval(x) \/ SkipRolledBack(x) \/ TruncateEnds(x)
    BY <2>3 DEF RemoveOldPart, AppendRemoval, SkipRolledBack, TruncateEnds
  <2>4. CASE Begin(x) \/ SelectStep(x) \/ (\E p \in Parts : Select(x, p)) \/ AddNewPart(x) \/ Truncate(x)
    BY <2>4 DEF Begin, SelectStep, Select, AddNewPart, Truncate
  <2>5. CASE ClientRollsBack(x) \/ BeforeCommit(x) \/ Commit(x) \/ CommitLost(x) \/ Postpone(x) \/ CommitRefused(x)
    BY <2>5 DEF ClientRollsBack, BeforeCommit, Commit, CommitLost, Postpone, CommitRefused
  <2> QED  BY <1>2, <2>1, <2>2, <2>3, <2>4, <2>5 DEF ClientStep, LockedStep
<1>3. ASSUME NEW x \in Txns, FinishStep(x) PROVE MergingType'
  BY <1>3 DEF FinishStep, AfterCommit, StampCreated, StampRemoved, Release, MarkRolledBack, OutdateCreated, RestoreRemoved,
     ClearRemoved, UnlockRemoved
<1>4. ASSUME NEW x \in Txns, KillStep(x) \/ UnknownStateStep(x) PROVE MergingType'
  BY <1>4 DEF KillStep, Kill, KillFails, KillReturns, UnknownStateStep, DecideUnknownState, RollBackUnknownState, EndUnknownState
<1>5. CASE \E p \in Parts : GrabOldPart(p) \/ LoadPart(p)
  BY <1>5 DEF GrabOldPart, LoadPart
<1>6. CASE UpdaterStep \/ UpdaterRequestFails \/ CrashServer \/ StartServer \/ ServerStarted
  BY <1>6 DEF UpdaterStep, UpdaterRequestFails, CrashServer, StartServer, ServerStarted
<1> QED  BY <1>1, <1>2, <1>3, <1>4, <1>5, <1>6 DEF Next

(* What a call of isVisible() is about to store is a CSN. *)
StoresAreKnown ==
  \A x \in Txns :
    /\ read[x].pc = "store" => read[x].creation_csn # UnknownCSN
    /\ read[x].pc = "store_removal" => read[x].removal_csn # UnknownCSN

LEMMA NextStoresAreKnown ==
  ASSUME IInv, TxnInv, TableInv, StoresAreKnown, [Next]_vars
  PROVE  StoresAreKnown'
<1>u. ASSUME read' = read PROVE StoresAreKnown'
  BY <1>u DEF StoresAreKnown
<1>t. read \in [Txns -> Reads]
  BY DEF TableInv, PartInv, PartTypes
<1>f. ASSUME NEW x \in Txns, NEW r, read' = [read EXCEPT ![x] = r],
             r.pc = "store" => r.creation_csn # UnknownCSN, r.pc = "store_removal" => r.removal_csn # UnknownCSN
      PROVE  StoresAreKnown'
  BY <1>f, <1>t DEF StoresAreKnown
<1>1. CASE UNCHANGED vars
  BY <1>1, <1>u DEF vars
<1>2. ASSUME NEW x \in Txns, ClientStep(x) PROVE StoresAreKnown'
  <2>1. CASE SelectStep(x)
    <3>0. ReadStep(x) /\ read[x] \in Reads
      BY <1>t, <2>1 DEF SelectStep
    <3>g. ASSUME NEW q \in {"failback", "throw", "strict", "lookup", "removal", "strict_removal"}, Goto(x, q)
          PROVE  StoresAreKnown'
      <4>1. PICK s : s = [read[x] EXCEPT !.pc = q]
        OBVIOUS
      <4>2. read' = [read EXCEPT ![x] = s]
        BY <3>g, <4>1, <1>t DEF Goto
      <4>3. s.pc = q
        BY <3>0, <4>1 DEF Reads
      <4> QED  BY <1>f, <4>2, <4>3
    <3>b. ASSUME NEW b, Returns(x, b) PROVE StoresAreKnown'
      <4>1. PICK s : s = [read[x] EXCEPT !.pc = "done", !.result = b]
        OBVIOUS
      <4>2. read' = [read EXCEPT ![x] = s]
        BY <3>b, <4>1, <1>t DEF Returns
      <4>3. s.pc = "done"
        BY <3>0, <4>1 DEF Reads
      <4> QED  BY <1>f, <4>2, <4>3
    <3>1. CASE ReadLoad(x)
      <4>1. PICK s : read' = [read EXCEPT ![x] = s] /\ s.pc \in {"fast", "load"}
        <5>1. PICK f \in read[x].loads :
                 read' = [read EXCEPT ![x].loads = @ \ {f},
                  ![x].pc = IF read[x].loads = {f} THEN "fast" ELSE "load",
                  ![x].creation_csn = IF f = "creation_csn" THEN Part(x)[f] ELSE @,
                  ![x].removal_tid = IF f = "removal_tid" THEN Part(x)[f] ELSE @,
                  ![x].removal_csn = IF f = "removal_csn" THEN Part(x)[f] ELSE @]
          BY <3>1 DEF ReadLoad
        <5>2. PICK s : s = [read[x] EXCEPT !.loads = @ \ {f},
                  !.pc = IF read[x].loads = {f} THEN "fast" ELSE "load",
                  !.creation_csn = IF f = "creation_csn" THEN Part(x)[f] ELSE @,
                  !.removal_tid = IF f = "removal_tid" THEN Part(x)[f] ELSE @,
                  !.removal_csn = IF f = "removal_csn" THEN Part(x)[f] ELSE @]
          OBVIOUS
        <5>3. read' = [read EXCEPT ![x] = s]
          BY <5>1, <5>2, <1>t
        <5>4. s.pc \in {"fast", "load"}
          BY <3>0, <5>2 DEF Reads
        <5> QED  BY <5>3, <5>4
      <4> QED  BY <1>f, <4>1
    <3>2. CASE ReadFastPath(x)
      BY <3>2, <3>b, <3>g DEF ReadFastPath
    <3>3. CASE ReadLookup(x)
      <4> DEFINE c == GetCSN(Part(x).creation_tid)
      <4>1. PICK s : s = [read[x] EXCEPT !.creation_csn = c, !.pc = IF c = UnknownCSN THEN "outdated" ELSE "store"]
        OBVIOUS
      <4>2. read' = [read EXCEPT ![x] = s]
        BY <3>3, <4>1, <1>t DEF ReadLookup
      <4>3. s.creation_csn = c /\ s.pc = IF c = UnknownCSN THEN "outdated" ELSE "store"
        BY <3>0, <4>1 DEF Reads
      <4> HIDE DEF c
      <4> QED  BY <1>f, <4>2, <4>3
    <3>4. CASE ReadTail(x) \/ ReadFailback(x)
      BY <3>4, <3>g DEF ReadTail, ReadFailback
    <3>5. CASE ReadStrict(x)
      <4> DEFINE c == Part(x).creation_csn
      <4>1. CASE c = UnknownCSN
        BY <3>5, <3>b, <4>1 DEF ReadStrict
      <4>2. CASE c # UnknownCSN
        <5>1. PICK s : s = [read[x] EXCEPT !.creation_csn = c, !.pc = "store"]
          OBVIOUS
        <5>2. read' = [read EXCEPT ![x] = s]
          BY <3>5, <4>2, <5>1, <1>t DEF ReadStrict
        <5>3. s.creation_csn = c /\ s.pc = "store"
          BY <3>0, <5>1 DEF Reads
        <5> HIDE DEF c
        <5> QED  BY <1>f, <4>2, <5>2, <5>3
      <4> QED  BY <4>1, <4>2
    <3>6. CASE ReadStore(x)
      BY <3>6, <3>b, <3>g DEF ReadStore, ReadResult
    <3>7. CASE ReadRemoval(x) \/ ReadStrictRemoval(x)
      <4>1. PICK c : c \in {GetCSN(read[x].removal_tid), Part(x).removal_csn} /\
                     IF c = UnknownCSN THEN Goto(x, "strict_removal") \/ ReadResult(x, UnknownCSN)
                     ELSE read' = [read EXCEPT ![x].removal_csn = c, ![x].pc = "store_removal"]
        BY <3>7 DEF ReadRemoval, ReadStrictRemoval
      <4>2. CASE c = UnknownCSN
        BY <3>b, <3>g, <4>1, <4>2 DEF ReadResult
      <4>3. CASE c # UnknownCSN
        <5>1. PICK s : s = [read[x] EXCEPT !.removal_csn = c, !.pc = "store_removal"]
          OBVIOUS
        <5>2. read' = [read EXCEPT ![x] = s]
          BY <4>1, <4>3, <5>1, <1>t
        <5>3. s.removal_csn = c /\ s.pc = "store_removal"
          BY <3>0, <5>1 DEF Reads
        <5> QED  BY <1>f, <4>3, <5>2, <5>3
      <4> QED  BY <4>2, <4>3
    <3>8. CASE ReadStoreRemoval(x)
      BY <3>8, <3>b DEF ReadStoreRemoval, ReadResult
    <3>9. CASE ReadEnds(x)
      <4>1. NoRead.pc = "none"
        BY DEF NoRead
      <4> QED  BY <1>f, <3>9, <4>1 DEF ReadEnds
    <3> QED  BY <3>0, <3>1, <3>2, <3>3, <3>4, <3>5, <3>6, <3>7, <3>8, <3>9 DEF ReadStep
  <2>2. ASSUME NEW p \in Parts, Select(x, p) PROVE StoresAreKnown'
    <3>1. PICK s : s = [NoRead EXCEPT !.pc = "load", !.part = p, !.loads = Loads]
      OBVIOUS
    <3>2. s.pc = "load" /\ read' = [read EXCEPT ![x] = s]
      BY <2>2, <3>1 DEF Select, ReadBegins, NoRead
    <3> QED  BY <1>f, <3>2
  <2>3. CASE LockedStep(x)
    BY <1>u, <2>3 DEF LockedStep, RemoveOldPart, AppendRemoval, SkipRolledBack, TruncateEnds, ActivatePart
  <2>4. CASE Begin(x) \/ (\E p \in Parts : WritePart(x, p)) \/ AddNewPart(x) \/ Truncate(x) \/ UndoPart(x)
    BY <1>u, <2>4 DEF Begin, WritePart, AddNewPart, Truncate, UndoPart
  <2>5. CASE ClientRollsBack(x) \/ BeforeCommit(x) \/ Commit(x) \/ CommitLost(x) \/ Postpone(x) \/ CommitRefused(x)
    BY <1>u, <2>5 DEF ClientRollsBack, BeforeCommit, Commit, CommitLost, Postpone, CommitRefused
  <2> QED  BY <1>2, <2>1, <2>2, <2>3, <2>4, <2>5 DEF ClientStep
<1>3. ASSUME NEW x \in Txns, FinishStep(x) PROVE StoresAreKnown'
  BY <1>u, <1>3 DEF FinishStep, AfterCommit, StampCreated, StampRemoved, Release, MarkRolledBack, OutdateCreated, RestoreRemoved,
     ClearRemoved, UnlockRemoved
<1>4. ASSUME NEW x \in Txns, KillStep(x) \/ UnknownStateStep(x) PROVE StoresAreKnown'
  BY <1>u, <1>4 DEF KillStep, Kill, KillFails, KillReturns, UnknownStateStep, DecideUnknownState, RollBackUnknownState, EndUnknownState
<1>5. CASE \E p \in Parts : GrabOldPart(p) \/ LoadPart(p)
  BY <1>u, <1>5 DEF GrabOldPart, LoadPart
<1>6. CASE UpdaterStep \/ UpdaterRequestFails \/ StartServer \/ ServerStarted
  BY <1>u, <1>6 DEF UpdaterStep, UpdaterRequestFails, StartServer, ServerStarted
<1>7. CASE CrashServer
  BY <1>7 DEF CrashServer, StoresAreKnown, NoRead
<1> QED  BY <1>1, <1>2, <1>3, <1>4, <1>5, <1>6, <1>7 DEF Next

(* The end of a transaction without a decision has not begun. *)
UndecidedIsOpen == \A x \in Txns : csn[x] = UnknownCSN => finish[x] \in {None, "unguarded", "done"}

LEMMA NextUndecidedIsOpen ==
  ASSUME IInv, TxnInv, UndecidedIsOpen, [Next]_vars
  PROVE  UndecidedIsOpen'
<1> USE DEF txnVars, ending
<1>t. csn \in [Txns -> Nat] /\ finish \in [Txns -> FinishStates]
  BY DEF TxnInv, TxnTypes
<1>c. UnknownCSN # RolledBackCSN /\ UnknownCSN # CommittingCSN
  BY CSNFacts
<1>u. ASSUME UNCHANGED <<csn, finish>> PROVE UndecidedIsOpen'
  BY <1>u DEF UndecidedIsOpen
<1>f. ASSUME NEW x \in Txns, NEW c, NEW f, csn' = csn \/ csn' = [csn EXCEPT ![x] = c],
             finish' = finish \/ finish' = [finish EXCEPT ![x] = f],
             csn'[x] = UnknownCSN => finish'[x] \in {None, "unguarded", "done"}
      PROVE  UndecidedIsOpen'
  BY <1>f, <1>t DEF UndecidedIsOpen
<1>r. ASSUME NEW x \in Txns, StartRollback(x) PROVE UndecidedIsOpen'
  <2>1. csn' = [csn EXCEPT ![x] = RolledBackCSN] /\ finish' = [finish EXCEPT ![x] = "mark"]
    BY <1>r DEF StartRollback
  <2>2. csn'[x] # UnknownCSN
    BY <1>c, <1>t, <2>1
  <2> QED  BY <1>f, <2>1, <2>2
<1>1. CASE UNCHANGED vars
  BY <1>1, <1>u DEF vars
<1>2. ASSUME NEW x \in Txns, ClientStep(x) PROVE UndecidedIsOpen'
  <2>1. CASE LockedStep(x)
    BY <1>u, <2>1 DEF LockedStep, RemoveOldPart, AppendRemoval, SkipRolledBack, TruncateEnds, ActivatePart
  <2>2. CASE Begin(x) \/ SelectStep(x) \/ (\E p \in Parts : Select(x, p) \/ WritePart(x, p)) \/ AddNewPart(x) \/ Truncate(x)
             \/ UndoPart(x) \/ CommitLost(x)
    BY <1>u, <2>2 DEF Begin, SelectStep, Select, WritePart, AddNewPart, Truncate, UndoPart, CommitLost
  <2>3. CASE ClientRollsBack(x)
    BY <1>r, <1>u, <2>3 DEF ClientRollsBack
  <2>4. CASE BeforeCommit(x)
    <3>1. CASE csn[x] = UnknownCSN
      <4>1. /\ csn' = [csn EXCEPT ![x] = CommittingCSN]
            /\ finish' = [finish EXCEPT ![x] = IF IsReadOnly(x) THEN "committed" ELSE finish[x]]
        BY <2>4, <3>1 DEF BeforeCommit
      <4>2. csn'[x] # UnknownCSN
        BY <1>c, <1>t, <4>1
      <4> QED  BY <1>f, <4>1, <4>2
    <3>2. CASE csn[x] # UnknownCSN
      BY <1>u, <2>4, <3>2 DEF BeforeCommit
    <3> QED  BY <3>1, <3>2
  <2>5. CASE Commit(x) \/ Postpone(x)
    <3>1. csn' = csn /\ (\E f \in {"committed", "unknown"} : finish' = [finish EXCEPT ![x] = f]) /\ csn[x] # UnknownCSN
      BY <1>c, <2>5 DEF Commit, Postpone, TxnInv, Outcome
    <3> QED  BY <1>f, <3>1
  <2>6. CASE CommitRefused(x)
    <3>1. csn' = [csn EXCEPT ![x] = UnknownCSN] /\ finish' = finish /\ finish[x] = None
      BY <2>6 DEF CommitRefused, TxnInv, Outcome
    <3> QED  BY <1>f, <3>1
  <2> QED  BY <1>2, <2>1, <2>2, <2>3, <2>4, <2>5, <2>6 DEF ClientStep
<1>3. ASSUME NEW x \in Txns, FinishStep(x) PROVE UndecidedIsOpen'
  <2>1. CASE AfterCommit(x)
    <3>1. csn' = [csn EXCEPT ![x] = AllocatedCSN(x)] /\ finish' = [finish EXCEPT ![x] = "stamp_created"] /\ finish[x] = "committed"
      BY <2>1 DEF AfterCommit
    <3>a. AllocatedCSN(x) \in Nat /\ MaxReservedCSN <= AllocatedCSN(x)
      BY <3>1, AllocatedCSNFacts
    <3>2. AllocatedCSN(x) # UnknownCSN
      BY <3>a, CSNFacts
    <3>3. csn'[x] # UnknownCSN
      BY <1>t, <3>1, <3>2
    <3> QED  BY <1>f, <3>1, <3>3
  <2>2. CASE ~AfterCommit(x)
    <3>1. csn' = csn /\ finish[x] \in {"stamp_created", "stamp_removed", "release", "mark", "outdate", "activate", "clear", "unlock"}
      BY <1>3, <2>2 DEF FinishStep, StampCreated, StampRemoved, Release, MarkRolledBack, OutdateCreated, RestoreRemoved,
         ClearRemoved, UnlockRemoved
    <3>2. csn'[x] # UnknownCSN
      BY <3>1 DEF UndecidedIsOpen, None
    <3>3. finish' = finish \/ \E f \in FinishStates : finish' = [finish EXCEPT ![x] = f]
      BY <1>3, <2>2 DEF FinishStep, StampCreated, StampRemoved, Release, MarkRolledBack, OutdateCreated, RestoreRemoved,
         ClearRemoved, UnlockRemoved, NextPart, NextPhase, FinishStates
    <3> QED  BY <1>f, <3>1, <3>2, <3>3
  <2> QED  BY <2>1, <2>2
<1>4. ASSUME NEW x \in Txns, KillStep(x) \/ UnknownStateStep(x) PROVE UndecidedIsOpen'
  <2>1. CASE Kill(x) \/ RollBackUnknownState(x)
    BY <1>r, <2>1 DEF Kill, RollBackUnknownState
  <2>2. CASE KillFails(x) \/ KillReturns(x) \/ EndUnknownState(x)
    BY <1>u, <2>2 DEF KillFails, KillReturns, EndUnknownState
  <2>3. CASE DecideUnknownState(x)
    <3>1. csn[x] # UnknownCSN
      BY <1>c, <2>3 DEF DecideUnknownState, TxnInv, Outcome
    <3>2. \/ csn' = [csn EXCEPT ![x] = csn[x]] /\ finish' = [finish EXCEPT ![x] = "committed"]
          \/ csn' = [csn EXCEPT ![x] = UnknownCSN] /\ finish' = [finish EXCEPT ![x] = "unguarded"]
      BY <2>3 DEF DecideUnknownState
    <3> QED  BY <1>f, <1>t, <3>1, <3>2
  <2> QED  BY <1>4, <2>1, <2>2, <2>3 DEF KillStep, UnknownStateStep
<1>5. CASE \E p \in Parts : GrabOldPart(p) \/ LoadPart(p)
  BY <1>5, <1>u DEF GrabOldPart, LoadPart
<1>6. CASE UpdaterStep \/ UpdaterRequestFails \/ StartServer \/ ServerStarted
  BY <1>6, <1>u DEF UpdaterStep, UpdaterRequestFails, StartServer, ServerStarted
<1>7. CASE CrashServer
  BY <1>7 DEF CrashServer, UndecidedIsOpen
<1> QED  BY <1>1, <1>2, <1>3, <1>4, <1>5, <1>6, <1>7 DEF Next

(* What the proofs above give at both ends of a step. *)
Base == IInv /\ TxnInv /\ TableInv /\ MergingType /\ StoresAreKnown /\ UndecidedIsOpen
Stepping == Base /\ Base' /\ Next

LEMMA BaseHolds == Spec => []Base
<1>1. Init => MergingType /\ StoresAreKnown /\ UndecidedIsOpen
  BY DEF Init, MergingType, StoresAreKnown, UndecidedIsOpen, NoRead
<1>2. Spec => []MergingType
  BY <1>1, NextMergingType, TableIInv, PTL DEF Spec
<1>3. Spec => []StoresAreKnown
  BY <1>1, NextStoresAreKnown, TableIInv, PTL DEF Spec
<1>4. Spec => []UndecidedIsOpen
  BY <1>1, NextUndecidedIsOpen, TableIInv, PTL DEF Spec
<1> QED  BY <1>2, <1>3, <1>4, TableIInv, PTL DEF Base

LEMMA Types ==
  ASSUME Base
  PROVE  /\ csn \in [Txns -> Nat] /\ client \in [Txns -> ClientStates] /\ finish \in [Txns -> FinishStates]
         /\ creating \in [Txns -> Seq(Parts)] /\ removing \in [Txns -> Seq(Parts)]
         /\ covered \in [Txns -> Seq(Parts)] /\ todo \in [Txns -> Seq(Parts)]
         /\ new_part \in [Txns -> Parts \cup {None}] /\ merging \in [Txns -> SUBSET Parts]
         /\ tid \in [Txns -> TIDs] /\ read \in [Txns -> Reads]
         /\ version \in [Parts -> Metadata] /\ file \in [Parts -> Metadata]
         /\ state \in [Parts -> {None, "PreActive", "Active", "Outdated"}]
         /\ on_disk \subseteq Parts /\ loaded \subseteq Parts
BY DEF Base, MergingType, TxnInv, TxnTypes, IInv, LogTypeOK, TableInv, PartInv, PartTypes

-----------------------------------------------------------------------------
(* What a step leaves alone: of a transaction, its query, its end, its     *)
(* changes and its life in the log; of a part, its state, its names and    *)
(* the CSNs it has.                                                        *)
SameQuery(x) ==
  client'[x] = client[x] /\ new_part'[x] = new_part[x] /\ covered'[x] = covered[x] /\ merging'[x] = merging[x]
SameEnd(x) == csn'[x] = csn[x] /\ finish'[x] = finish[x] /\ todo'[x] = todo[x]
SameChanges(x) == creating'[x] = creating[x] /\ removing'[x] = removing[x]
SameLife(x) ==
  tid'[x] = tid[x] /\ (IsCommitted(x)' <=> IsCommitted(x)) /\ (Running(x)' <=> Running(x))
Same(x) == SameQuery(x) /\ SameEnd(x) /\ SameChanges(x) /\ SameLife(x)
Others(x) == \A y \in Txns : y # x => Same(y)

SameState(p) ==
  state'[p] = state[p] /\ (p \in on_disk' <=> p \in on_disk) /\ (p \in loaded' <=> p \in loaded)
SameNames(p) ==
  /\ version'[p].creation_tid = version[p].creation_tid /\ version'[p].removal_tid = version[p].removal_tid
  /\ file'[p].creation_tid = file[p].creation_tid /\ file'[p].removal_tid = file[p].removal_tid
KnownStays(p) ==
  /\ version[p].creation_csn # UnknownCSN => version'[p].creation_csn # UnknownCSN
  /\ version[p].removal_csn # UnknownCSN => version'[p].removal_csn # UnknownCSN
  /\ file[p].creation_csn # UnknownCSN => file'[p].creation_csn # UnknownCSN
  /\ file[p].removal_csn # UnknownCSN => file'[p].removal_csn # UnknownCSN
Kept(p) == SameState(p) /\ SameNames(p) /\ KnownStays(p)
AllKept == \A p \in Parts : Kept(p)

(* What a step writes into the metadata of a part. *)
SameCreation(v, w) == w.creation_tid = v.creation_tid /\ w.creation_csn = v.creation_csn
SameRemoval(v, w) == w.removal_tid = v.removal_tid /\ w.removal_csn = v.removal_csn
LocksFor(p, t) ==
  SameCreation(version[p], version'[p]) /\ version'[p].removal_tid = t /\ version'[p].removal_csn = version[p].removal_csn
ClearsLock(p) ==
  SameCreation(file[p], file'[p]) /\ file'[p].removal_tid = EmptyTID /\ file'[p].removal_csn = file[p].removal_csn
Undoes(p) ==
  /\ version'[p].creation_tid = version[p].creation_tid /\ version'[p].creation_csn = RolledBackCSN
  /\ SameRemoval(version[p], version'[p])
StampsCreation(p, c) ==
  /\ version'[p].creation_tid = version[p].creation_tid /\ version'[p].creation_csn = c /\ SameRemoval(version[p], version'[p])
  /\ file'[p].creation_tid = file[p].creation_tid /\ file'[p].creation_csn = c /\ SameRemoval(file[p], file'[p])
StampsRemoval(p, c) ==
  /\ SameCreation(version[p], version'[p]) /\ version'[p].removal_tid = version[p].removal_tid /\ version'[p].removal_csn = c
  /\ SameCreation(file[p], file'[p]) /\ file'[p].removal_tid = file[p].removal_tid /\ file'[p].removal_csn = c
AppendsLock(p) ==
  /\ version'[p].creation_tid = version[p].creation_tid /\ SameRemoval(version[p], version'[p])
  /\ file'[p].removal_tid = version[p].removal_tid
  /\ \/ /\ version[p].creation_tid = PrehistoricTID
        /\ version'[p].creation_csn = PrehistoricCSN /\ file'[p].creation_tid = PrehistoricTID
        /\ file'[p].creation_csn = PrehistoricCSN /\ file'[p].removal_csn = version[p].removal_csn
     \/ /\ version[p].creation_tid # PrehistoricTID
        /\ version'[p] = version[p] /\ SameCreation(file[p], file'[p]) /\ file'[p].removal_csn = file[p].removal_csn

LEMMA UnchangedIsKept ==
  ASSUME NEW p \in Parts, version'[p] = version[p], file'[p] = file[p], SameState(p)
  PROVE  Kept(p)
BY DEF Kept, SameNames, KnownStays

(* The life of a transaction follows from its programs. *)
LEMMA LifeFacts ==
  ASSUME Stepping, NEW y \in Txns, client'[y] = client[y], finish'[y] = finish[y],
         tid'[y] = tid[y], committed' = committed
  PROVE  SameLife(y)
BY DEF Stepping, Base, TxnInv, RunningIsUnfinished, SameLife, IsCommitted

-----------------------------------------------------------------------------
LEMMA OthersFacts ==
  ASSUME Stepping, NEW x \in Txns, committed' = committed,
         \A y \in Txns : y # x => Untouched(y) /\ merging'[y] = merging[y] /\ tid'[y] = tid[y]
  PROVE  Others(x)
<1> SUFFICES ASSUME NEW y \in Txns, y # x PROVE Same(y)
  BY DEF Others
<1>1. SameLife(y)
  BY LifeFacts DEF Untouched
<1> QED  BY <1>1 DEF Same, SameQuery, SameEnd, SameChanges, Untouched

LEMMA LogIsSame ==
  ASSUME UNCHANGED logVars
  PROVE  tid' = tid /\ committed' = committed /\ alive' = alive /\ in_use' = in_use /\ started' = started
         /\ tid_to_csn' = tid_to_csn /\ tail_ptr' = tail_ptr /\ zk_tail_ptr' = zk_tail_ptr
         /\ latest_snapshot' = latest_snapshot /\ last_loaded_entry' = last_loaded_entry
BY DEF logVars, memory, keeper

(* Lookups keep the CSNs that a part has. *)
LEMMA LookupKeepsKnown ==
  ASSUME NEW v \in Metadata
  PROVE  /\ v.creation_csn # UnknownCSN => WithCSNs(v).creation_csn # UnknownCSN
         /\ v.removal_csn # UnknownCSN => WithCSNs(v).removal_csn # UnknownCSN
<1> DEFINE c == GetCSNOr(v.creation_tid, v.creation_csn)
           r == GetCSNOr(v.removal_tid, v.removal_csn)
<1>1. (v.creation_csn # UnknownCSN => c # UnknownCSN) /\ (v.removal_csn # UnknownCSN => r # UnknownCSN)
  BY DEF GetCSNOr
<1> HIDE DEF c, r
<1>2. \/ WithCSNs(v) = v
      \/ WithCSNs(v) = [v EXCEPT !.creation_csn = c]
      \/ WithCSNs(v) = [v EXCEPT !.creation_csn = c, !.removal_csn = r]
  BY DEF WithCSNs, c, r, Metadata
<1> QED  BY <1>1, <1>2 DEF Metadata

LEMMA LookupKeeps ==
  ASSUME Base, alive, NEW x \in Txns, NEW ps, NEW q \in Parts, version'[q] = AfterVisibleTo(x, ps)[q],
         file'[q] = file[q], SameState(q)
  PROVE  Kept(q)
<1>1. version[q] \in Metadata /\ Restamped(version[q], AfterVisibleTo(x, ps)[q])
  BY AfterVisibleToFacts, Types DEF Base, TableInv
<1>2. AfterVisibleTo(x, ps)[q] \in {version[q], WithCSNs(version[q])}
  BY DEF AfterVisibleTo, AfterIsVisible
<1>3. KnownStays(q)
  BY <1>1, <1>2, LookupKeepsKnown DEF KnownStays
<1> QED  BY <1>1, <1>3 DEF Kept, SameNames, Restamped

-----------------------------------------------------------------------------
(* What the steps of the server do. *)

LEMMA ServerDoes ==
  ASSUME Stepping,
         \/ UpdaterStep \/ UpdaterRequestFails \/ StartServer \/ ServerStarted
         \/ \E x \in Txns : KillFails(x) \/ KillReturns(x) \/ EndUnknownState(x)
  PROVE  /\ \A y \in Txns : Same(y)
         /\ AllKept /\ parts_lock' = parts_lock /\ committed' = committed /\ tid' = tid
         /\ UNCHANGED <<version, file, state, on_disk, loaded, read>>
<1>1. UNCHANGED <<version, file, read, partVars, csn, client, writeVars, changes, ending>>
  BY DEF UpdaterStep, UpdaterRequestFails, StartServer, ServerStarted, KillFails, KillReturns, EndUnknownState, txnVars
<1>2. UNCHANGED <<tid, committed>>
  BY LogIsSame DEF UpdaterStep, Updater, UpdaterWakes, ListEntries, LoadEntries, PublishSnapshot, UpdateTailPtr,
     RemoveOldEntries, SwapUnknownStateLists, FinalizedAll, UpdaterRequestFails, UpdaterFails,
     StartServer, LoadLogFromZooKeeper, ServerStarted, SetServerCompletelyStarted, KillFails, KillReturns,
     EndUnknownState, FinalizedUnknownState
<1>3. ASSUME NEW y \in Txns PROVE Same(y)
  <2>1. SameLife(y)
    BY <1>1, <1>2, LifeFacts DEF ending
  <2> QED  BY <1>1, <2>1 DEF Same, SameQuery, SameEnd, SameChanges, writeVars, changes, ending
<1>4. AllKept
  BY <1>1, UnchangedIsKept DEF AllKept, SameState, partVars
<1> QED  BY <1>1, <1>2, <1>3, <1>4 DEF partVars

LEMMA SelectDoes ==
  ASSUME Stepping, NEW x \in Txns, SelectStep(x) \/ \E p \in Parts : Select(x, p)
  PROVE  /\ \A y \in Txns : Same(y)
         /\ AllKept /\ parts_lock' = parts_lock /\ UNCHANGED logVars
         /\ UNCHANGED <<file, state, on_disk, loaded>>
<1>1. UNCHANGED <<logVars, file, txnVars, partVars>>
  BY DEF SelectStep, Select
<1>2. UNCHANGED <<csn, client, finish, todo, creating, removing, new_part, covered, merging>>
  BY <1>1 DEF txnVars, writeVars, changes, ending
<1>3. ASSUME NEW y \in Txns PROVE Same(y)
  <2>1. SameLife(y)
    BY <1>1, <1>2, LifeFacts, LogIsSame
  <2> QED  BY <1>2, <2>1 DEF Same, SameQuery, SameEnd, SameChanges
<1>4. \A p \in Parts : SameState(p)
  BY <1>1 DEF SameState, partVars
<1>t. version \in [Parts -> Metadata] /\ read \in [Txns -> Reads] /\ read[x] \in Reads
  BY Types DEF Stepping
<1>5. ASSUME NEW p \in Parts PROVE Kept(p)
  <2>1. CASE version' = version
    BY <1>1, <1>4, <2>1, UnchangedIsKept
  <2>2. CASE ReadStore(x) \/ ReadStoreRemoval(x)
    <3>1. \/ /\ version' = [version EXCEPT ![read[x].part].creation_csn = read[x].creation_csn]
             /\ read[x].creation_csn # UnknownCSN
          \/ /\ version' = [version EXCEPT ![read[x].part].removal_csn = read[x].removal_csn]
             /\ read[x].removal_csn # UnknownCSN
      BY <2>2 DEF ReadStore, ReadStoreRemoval, At, Stepping, Base, StoresAreKnown
    <3>2. KnownStays(p)
      BY <1>1, <1>t, <3>1 DEF KnownStays, Metadata
    <3>3. SameNames(p)
      BY <1>1, <1>t, <3>1 DEF SameNames, Metadata
    <3> QED  BY <1>4, <3>2, <3>3 DEF Kept
  <2>3. version' = version \/ ReadStore(x) \/ ReadStoreRemoval(x)
    BY DEF SelectStep, Select, ReadBegins, ReadStep, ReadLoad, ReadFastPath, ReadLookup, ReadTail, ReadFailback, ReadStrict,
       ReadRemoval, ReadStrictRemoval, ReadEnds
  <2> QED  BY <2>1, <2>2, <2>3
<1> QED  BY <1>1, <1>3, <1>5 DEF AllKept, partVars

LEMMA GrabOldPartDoes ==
  ASSUME Stepping, NEW p \in Parts, GrabOldPart(p)
  PROVE  /\ \A y \in Txns : Same(y)
         /\ parts_lock = None /\ parts_lock' = parts_lock /\ UNCHANGED <<logVars, read, loaded>> /\ alive
         /\ state[p] = "Outdated" /\ \A q \in Parts : q # p => Kept(q) /\ version'[q] = version[q] /\ file'[q] = file[q]
         /\ \/ AllKept /\ UNCHANGED <<state, on_disk, file>>
            \/ /\ CanBeRemoved(version[p]) /\ ~InUse(p)
               /\ state'[p] = None /\ on_disk' = on_disk \ {p} /\ version'[p] = NoMetadata /\ file'[p] = NoMetadata
<1>1. /\ UNCHANGED <<logVars, read, loaded, parts_lock>> /\ alive /\ parts_lock = None /\ state[p] = "Outdated"
      /\ UNCHANGED <<csn, client, finish, todo, creating, removing, new_part, covered, merging>>
  BY DEF GrabOldPart, txnVars, writeVars, changes, ending, Unlocked
<1>3. ASSUME NEW y \in Txns PROVE Same(y)
  <2>1. SameLife(y)
    BY <1>1, LifeFacts, LogIsSame
  <2> QED  BY <1>1, <2>1 DEF Same, SameQuery, SameEnd, SameChanges
<1>t. /\ version \in [Parts -> Metadata] /\ file \in [Parts -> Metadata]
      /\ state \in [Parts -> {None, "PreActive", "Active", "Outdated"}]
  BY Types DEF Stepping
<1>4. CASE CanBeRemoved(version[p]) /\ ~InUse(p)
  <2>1. /\ state' = [state EXCEPT ![p] = None] /\ on_disk' = on_disk \ {p}
        /\ version' = [version EXCEPT ![p] = NoMetadata] /\ file' = [file EXCEPT ![p] = NoMetadata]
    BY <1>4 DEF GrabOldPart
  <2>2. ASSUME NEW q \in Parts, q # p PROVE Kept(q) /\ version'[q] = version[q] /\ file'[q] = file[q]
    <3>1. version'[q] = version[q] /\ file'[q] = file[q] /\ SameState(q)
      BY <1>1, <1>t, <2>1, <2>2 DEF SameState
    <3> QED  BY <3>1, UnchangedIsKept
  <2> QED  BY <1>1, <1>3, <1>4, <1>t, <2>1, <2>2
<1>5. CASE ~(CanBeRemoved(version[p]) /\ ~InUse(p))
  <2>1. /\ version' = [version EXCEPT ![p] = AfterCanBeRemoved(version[p])]
        /\ UNCHANGED <<state, on_disk, file>>
    BY <1>5 DEF GrabOldPart
  <2>2. \A q \in Parts : SameState(q)
    BY <1>1, <2>1 DEF SameState
  <2>3. ASSUME NEW q \in Parts, q # p PROVE Kept(q) /\ version'[q] = version[q] /\ file'[q] = file[q]
    BY <1>t, <2>1, <2>2, <2>3, UnchangedIsKept
  <2>4. Kept(p)
    <3>1. version[p] \in Metadata /\ version'[p] = AfterCanBeRemoved(version[p])
      BY <1>t, <2>1
    <3>2. Restamped(version[p], version'[p])
      BY <1>1, <3>1, AfterCanBeRemovedFacts DEF Stepping, Base, TableInv, PartInv, MetadataIsTrue
    <3>3. PICK w : w = WithCSNs(version[p])
      OBVIOUS
    <3>4. version'[p] \in {version[p], w, [version[p] EXCEPT !.creation_csn = w.creation_csn]}
      BY <3>1, <3>3 DEF AfterCanBeRemoved
    <3>5. /\ version[p].creation_csn # UnknownCSN => w.creation_csn # UnknownCSN
          /\ version[p].removal_csn # UnknownCSN => w.removal_csn # UnknownCSN
      BY <3>1, <3>3, LookupKeepsKnown
    <3>6. KnownStays(p)
      BY <2>1, <3>1, <3>4, <3>5 DEF KnownStays, Metadata
    <3> QED  BY <2>1, <2>2, <3>2, <3>6 DEF Kept, SameNames, Restamped
  <2> QED  BY <1>1, <1>3, <2>1, <2>3, <2>4 DEF AllKept
<1> QED  BY <1>4, <1>5

-----------------------------------------------------------------------------
(* What is loaded for p: the content of its file, and what is made of it. *)
FileOf(p) == IF file[p] = NoMetadata THEN PrehistoricMetadata ELSE file[p]
FixedFileOf(p) == IF WasInvolvedInTransaction(FileOf(p)) THEN Fixed(FileOf(p)) ELSE FileOf(p)
LoadsOutdated(p) == IsCovered(p) \/ (WasInvolvedInTransaction(FileOf(p)) /\ IsGone(FixedFileOf(p)))

LEMMA LoadPartDoes ==
  ASSUME Stepping, NEW p \in Parts, LoadPart(p)
  PROVE  /\ \A y \in Txns : Same(y)
         /\ parts_lock' = parts_lock /\ UNCHANGED <<logVars, read, on_disk>> /\ alive /\ ~broken
         /\ p \in on_disk /\ p \notin loaded /\ \A q \in on_disk : p \in Covers[q] => q \in loaded
         /\ \A q \in Parts : q # p => Kept(q) /\ version'[q] = version[q] /\ file'[q] = file[q]
         /\ \/ /\ AllKept /\ UNCHANGED <<version, file, state, loaded>>
               /\ LoadThrows(FileOf(p)) \/ (LoadsOutdated(p) /\ PrepareThrows(FixedFileOf(p)))
               /\ broken'
            \/ /\ version'[p] = IF LoadsOutdated(p) THEN PreparedForRemoval(FixedFileOf(p)) ELSE FixedFileOf(p)
               /\ file'[p] = IF FixedFileOf(p) = FileOf(p) THEN file[p] ELSE FixedFileOf(p)
               /\ state'[p] = IF LoadsOutdated(p) THEN "Outdated" ELSE "Active"
               /\ loaded' = loaded \cup {p}
               /\ ~LoadThrows(FileOf(p)) /\ ~(LoadsOutdated(p) /\ PrepareThrows(FixedFileOf(p))) /\ broken' = broken
<1>1. /\ UNCHANGED <<logVars, read, on_disk, parts_lock>> /\ alive /\ ~broken /\ p \in on_disk \ loaded
      /\ UNCHANGED <<csn, client, finish, todo, creating, removing, new_part, covered, merging>>
      /\ \A q \in on_disk : p \in Covers[q] => q \in loaded
  BY DEF LoadPart, txnVars, writeVars, changes, ending
<1>3. ASSUME NEW y \in Txns PROVE Same(y)
  <2>1. SameLife(y)
    BY <1>1, LifeFacts, LogIsSame
  <2> QED  BY <1>1, <2>1 DEF Same, SameQuery, SameEnd, SameChanges
<1>t. /\ version \in [Parts -> Metadata] /\ file \in [Parts -> Metadata]
      /\ state \in [Parts -> {None, "PreActive", "Active", "Outdated"}]
  BY Types DEF Stepping
<1>4. CASE LoadThrows(FileOf(p)) \/ (LoadsOutdated(p) /\ PrepareThrows(FixedFileOf(p)))
  <2>1. broken' /\ UNCHANGED <<version, file, state, loaded>>
    BY <1>4 DEF LoadPart, FileOf, FixedFileOf, LoadsOutdated
  <2>2. AllKept
    BY <1>1, <2>1, UnchangedIsKept DEF AllKept, SameState
  <2> QED  BY <1>1, <1>3, <1>4, <2>1, <2>2 DEF AllKept
<1>5. CASE ~(LoadThrows(FileOf(p)) \/ (LoadsOutdated(p) /\ PrepareThrows(FixedFileOf(p))))
  <2>1. /\ version' = [version EXCEPT ![p] = IF LoadsOutdated(p) THEN PreparedForRemoval(FixedFileOf(p)) ELSE FixedFileOf(p)]
        /\ file' = [file EXCEPT ![p] = IF FixedFileOf(p) = FileOf(p) THEN file[p] ELSE FixedFileOf(p)]
        /\ state' = [state EXCEPT ![p] = IF LoadsOutdated(p) THEN "Outdated" ELSE "Active"]
        /\ loaded' = loaded \cup {p} /\ broken' = broken
    BY <1>5 DEF LoadPart, FileOf, FixedFileOf, LoadsOutdated
  <2>2. ASSUME NEW q \in Parts, q # p PROVE Kept(q) /\ version'[q] = version[q] /\ file'[q] = file[q]
    <3>1. version'[q] = version[q] /\ file'[q] = file[q] /\ SameState(q)
      BY <1>1, <1>t, <2>1, <2>2 DEF SameState
    <3> QED  BY <3>1, UnchangedIsKept
  <2>3. /\ version'[p] = IF LoadsOutdated(p) THEN PreparedForRemoval(FixedFileOf(p)) ELSE FixedFileOf(p)
        /\ file'[p] = IF FixedFileOf(p) = FileOf(p) THEN file[p] ELSE FixedFileOf(p)
        /\ state'[p] = IF LoadsOutdated(p) THEN "Outdated" ELSE "Active"
    BY <1>t, <2>1
  <2> QED  BY <1>1, <1>3, <1>5, <2>1, <2>2, <2>3
<1> QED  BY <1>4, <1>5

LEMMA CrashDoes ==
  ASSUME Stepping, CrashServer
  PROVE  /\ UNCHANGED <<tid, committed, csn, new_part, creating, removing, file, on_disk, zk_tail_ptr>>
         /\ parts_lock' = None /\ loaded' = {} /\ ~alive' /\ ~started' /\ in_use' = <<>> /\ alive
         /\ \A x \in Txns : /\ client[x] = "idle" => client'[x] = "idle" /\ finish'[x] = None
                            /\ client[x] # "idle" => client'[x] = "end" /\ finish'[x] = "done"
                            /\ merging'[x] = {} /\ covered'[x] = <<>> /\ todo'[x] = <<>>
                            /\ read'[x].pc = None /\ (IsCommitted(x)' <=> IsCommitted(x)) /\ ~Running(x)'
         /\ \A p \in Parts : state'[p] = None /\ version'[p] = NoMetadata
<1>1. /\ UNCHANGED <<tid, committed, csn, new_part, creating, removing, file, on_disk, zk_tail_ptr>>
      /\ parts_lock' = None /\ loaded' = {} /\ ~alive' /\ ~started' /\ in_use' = <<>> /\ alive
  BY DEF CrashServer, Crash, changes
<1>2. \A x \in Txns :
             /\ client[x] = "idle" => client'[x] = "idle" /\ finish'[x] = None
             /\ client[x] # "idle" => client'[x] = "end" /\ finish'[x] = "done"
             /\ merging'[x] = {} /\ covered'[x] = <<>> /\ todo'[x] = <<>>
             /\ read'[x].pc = None
  BY DEF CrashServer, NoRead, None
<1>3. \A x \in Txns : IsCommitted(x)' <=> IsCommitted(x)
  BY <1>1 DEF IsCommitted
<1>4. \A x \in Txns : ~Running(x)'
  BY <1>1, EmptyRange DEF Running
<1>5. \A p \in Parts : state'[p] = None /\ version'[p] = NoMetadata
  BY DEF CrashServer
<1> QED  BY <1>1, <1>2, <1>3, <1>4, <1>5

-----------------------------------------------------------------------------
(* What the steps of a query do. *)

LEMMA WritePartDoes ==
  ASSUME Stepping, NEW x \in Txns, NEW p \in Parts, WritePart(x, p)
  PROVE  /\ Others(x) /\ SameEnd(x) /\ SameChanges(x) /\ SameLife(x) /\ UNCHANGED <<logVars, read>> /\ alive
         /\ client[x] = "ready" /\ client'[x] = "written" /\ csn[x] = UnknownCSN /\ read[x].pc = None
         /\ new_part'[x] = p /\ covered'[x] = covered[x] /\ merging'[x] = CoveredBy(p, "Active")
         /\ p \in Writes[x] /\ p \notin on_disk /\ state[p] = None
         /\ Covers[p] # {} => Blocks(p) \subseteq UNION {Blocks(q) : q \in CoveredBy(p, "Active")}
         /\ \A q \in CoveredBy(p, "Active") : MayMerge(x, q)
         /\ parts_lock = None /\ parts_lock' = None
         /\ \A q \in Parts : q # p => Kept(q) /\ file'[q] = file[q]
         /\ version'[p] = MetadataOf(tid[x]) /\ file'[p] = MetadataOf(tid[x]) /\ state'[p] = "PreActive"
         /\ p \in on_disk' /\ p \in loaded'
<1>1. /\ UNCHANGED <<logVars, read, csn, finish, todo, creating, removing, covered, parts_lock>>
      /\ client[x] = "ready" /\ csn[x] = UnknownCSN /\ read[x].pc = None
      /\ p \in Writes[x] /\ p \notin on_disk /\ state[p] = None /\ parts_lock = None
      /\ Covers[p] # {} => Blocks(p) \subseteq UNION {Blocks(q) : q \in CoveredBy(p, "Active")}
      /\ \A q \in CoveredBy(p, "Active") : MayMerge(x, q)
      /\ on_disk' = on_disk \cup {p} /\ loaded' = loaded \cup {p}
  BY DEF WritePart, changes, ending, Idle, Unlocked
<1>2. /\ client' = [client EXCEPT ![x] = "written"] /\ new_part' = [new_part EXCEPT ![x] = p]
      /\ merging' = [merging EXCEPT ![x] = CoveredBy(p, "Active")]
      /\ state' = [state EXCEPT ![p] = "PreActive"] /\ file' = [file EXCEPT ![p] = MetadataOf(tid[x])]
      /\ version' = [AfterVisibleTo(x, CoveredBy(p, "Active")) EXCEPT ![p] = MetadataOf(tid[x])]
  BY DEF WritePart
<1>t. /\ client \in [Txns -> ClientStates] /\ new_part \in [Txns -> Parts \cup {None}] /\ merging \in [Txns -> SUBSET Parts]
      /\ file \in [Parts -> Metadata] /\ state \in [Parts -> {None, "PreActive", "Active", "Outdated"}]
  BY Types DEF Stepping
<1>a. alive
  BY <1>1 DEF Stepping, Base, TableInv, Served
<1>3. Others(x)
  BY <1>1, <1>2, <1>t, OthersFacts, LogIsSame DEF Untouched
<1>4. SameLife(x)
  BY <1>1, <1>2, <1>t, LogIsSame DEF SameLife, IsCommitted, Stepping, Base, TxnInv, RunningIsUnfinished
<1>5. ASSUME NEW q \in Parts, q # p PROVE Kept(q) /\ file'[q] = file[q]
  <2>1. AfterVisibleTo(x, CoveredBy(p, "Active")) \in [Parts -> Metadata]
    BY <1>a, AfterVisibleToFacts DEF Stepping, Base, TableInv
  <2>2. version'[q] = AfterVisibleTo(x, CoveredBy(p, "Active"))[q]
    BY <1>2, <1>5, <2>1
  <2>3. file'[q] = file[q] /\ SameState(q)
    BY <1>1, <1>2, <1>5, <1>t DEF SameState
  <2> QED  BY <1>a, <2>2, <2>3, LookupKeeps DEF Stepping
<1>6. version'[p] = MetadataOf(tid[x]) /\ file'[p] = MetadataOf(tid[x]) /\ state'[p] = "PreActive"
  <2>1. AfterVisibleTo(x, CoveredBy(p, "Active")) \in [Parts -> Metadata]
    BY <1>a, AfterVisibleToFacts DEF Stepping, Base, TableInv
  <2> QED  BY <1>2, <1>t, <2>1
<1>7. client'[x] = "written" /\ new_part'[x] = p /\ merging'[x] = CoveredBy(p, "Active") /\ covered'[x] = covered[x]
  BY <1>1, <1>2, <1>t
<1> QED  BY <1>1, <1>3, <1>4, <1>5, <1>6, <1>7, <1>a DEF SameEnd, SameChanges

LEMMA AddNewPartDoes ==
  ASSUME Stepping, NEW x \in Txns, AddNewPart(x)
  PROVE  /\ Others(x) /\ SameEnd(x) /\ SameLife(x) /\ UNCHANGED <<logVars, read, file, state, on_disk, loaded>> /\ alive
         /\ removing'[x] = removing[x] /\ new_part'[x] = new_part[x] /\ merging'[x] = merging[x]
         /\ client[x] = "written" /\ new_part[x] \in Parts /\ parts_lock = None /\ AllKept
         /\ \/ /\ csn[x] # UnknownCSN /\ client'[x] = "undo" /\ parts_lock' = None
               /\ covered'[x] = covered[x] /\ creating'[x] = creating[x]
            \/ /\ csn[x] = UnknownCSN /\ client'[x] = "remove" /\ parts_lock' = x
               /\ covered'[x] = PartsToReplace(x, new_part[x]) /\ creating'[x] = Append(creating[x], new_part[x])
<1>1. /\ UNCHANGED <<logVars, read, csn, finish, todo, removing, new_part, merging, file, state, on_disk, loaded>>
      /\ client[x] = "written" /\ parts_lock = None
      /\ version' = AfterVisibleTo(x, CoveredBy(new_part[x], "Outdated"))
  BY DEF AddNewPart, ending, Unlocked
<1>2. \/ /\ csn[x] # UnknownCSN /\ client' = [client EXCEPT ![x] = "undo"] /\ UNCHANGED <<covered, creating, parts_lock>>
      \/ /\ csn[x] = UnknownCSN /\ client' = [client EXCEPT ![x] = "remove"] /\ parts_lock' = x
         /\ covered' = [covered EXCEPT ![x] = PartsToReplace(x, new_part[x])]
         /\ creating' = [creating EXCEPT ![x] = Append(creating[x], new_part[x])]
  BY DEF AddNewPart
<1>t. /\ client \in [Txns -> ClientStates] /\ covered \in [Txns -> Seq(Parts)] /\ creating \in [Txns -> Seq(Parts)]
      /\ new_part[x] \in Parts
  BY <1>1, Types DEF Stepping, Base, TxnInv, AtHand
<1>a. alive
  BY <1>1 DEF Stepping, Base, TableInv, Served
<1>3. Others(x)
  BY <1>1, <1>2, <1>t, OthersFacts, LogIsSame DEF Untouched
<1>4. SameLife(x)
  BY <1>1, <1>2, <1>t, LogIsSame DEF SameLife, IsCommitted, Stepping, Base, TxnInv, RunningIsUnfinished
<1>5. AllKept
  BY <1>1, <1>a, LookupKeeps DEF AllKept, SameState, Stepping
<1> QED  BY <1>1, <1>2, <1>3, <1>4, <1>5, <1>a, <1>t DEF SameEnd

LEMMA TruncateDoes ==
  ASSUME Stepping, NEW x \in Txns, Truncate(x)
  PROVE  /\ Others(x) /\ SameEnd(x) /\ SameChanges(x) /\ SameLife(x) /\ alive
         /\ UNCHANGED <<logVars, read, file, state, on_disk, loaded>>
         /\ client[x] = "ready" /\ client'[x] = "remove" /\ csn[x] = UnknownCSN /\ NothingIsMerged
         /\ new_part'[x] = None /\ merging'[x] = merging[x] /\ parts_lock = None /\ parts_lock' = x /\ AllKept
         /\ covered'[x] = SetToSeq({p \in {q \in Parts : state[q] \in {"Active", "Outdated"}} : VisibleTo(x, p)})
<1> DEFINE offered == {q \in Parts : state[q] \in {"Active", "Outdated"}}
<1>1. /\ UNCHANGED <<logVars, read, csn, finish, todo, removing, creating, merging, file, state, on_disk, loaded>>
      /\ client[x] = "ready" /\ csn[x] = UnknownCSN /\ parts_lock = None /\ NothingIsMerged
      /\ version' = AfterVisibleTo(x, offered) /\ parts_lock' = x
  BY DEF Truncate, ending, changes, Unlocked, Idle
<1>2. /\ client' = [client EXCEPT ![x] = "remove"] /\ new_part' = [new_part EXCEPT ![x] = None]
      /\ covered' = [covered EXCEPT ![x] = SetToSeq({p \in offered : VisibleTo(x, p)})]
  BY DEF Truncate
<1>t. /\ client \in [Txns -> ClientStates] /\ covered \in [Txns -> Seq(Parts)]
      /\ new_part \in [Txns -> Parts \cup {None}]
  BY Types DEF Stepping
<1>a. alive
  BY <1>1 DEF Stepping, Base, TableInv, Served
<1> HIDE DEF offered
<1>3. Others(x)
  BY <1>1, <1>2, <1>t, OthersFacts, LogIsSame DEF Untouched
<1>4. SameLife(x)
  BY <1>1, <1>2, <1>t, LogIsSame DEF SameLife, IsCommitted, Stepping, Base, TxnInv, RunningIsUnfinished
<1>5. AllKept
  BY <1>1, <1>a, LookupKeeps DEF AllKept, SameState, Stepping
<1>6. covered'[x] = SetToSeq({p \in offered : VisibleTo(x, p)}) /\ client'[x] = "remove" /\ new_part'[x] = None
  BY <1>2, <1>t
<1> QED  BY <1>1, <1>3, <1>4, <1>5, <1>6, <1>a DEF SameEnd, SameChanges, offered

-----------------------------------------------------------------------------
(* The steps of a query that holds the lock. *)

LEMMA RemoveOldPartDoes ==
  ASSUME Stepping, NEW x \in Txns, RemoveOldPart(x), NEW p, p = Head(covered[x])
  PROVE  /\ Others(x) /\ SameEnd(x) /\ SameLife(x) /\ alive
         /\ UNCHANGED <<logVars, read, file, state, on_disk, loaded>>
         /\ creating'[x] = creating[x] /\ new_part'[x] = new_part[x] /\ merging'[x] = merging[x]
         /\ client[x] = "remove" /\ covered[x] # <<>> /\ p \in Parts /\ p \in Range(covered[x])
         /\ ~(Truncating(x) /\ version[p].creation_csn = RolledBackCSN)
         /\ \A q \in Parts : q # p => Kept(q) /\ version'[q] = version[q]
         /\ \/ /\ csn[x] # UnknownCSN \/ version[p].removal_tid # EmptyTID
               /\ version' = version /\ AllKept /\ removing'[x] = removing[x] /\ covered'[x] = <<>> /\ parts_lock' = None
               /\ client'[x] = IF Truncating(x) THEN "exception" ELSE "undo"
            \/ /\ csn[x] = UnknownCSN /\ version[p].removal_tid = EmptyTID
               /\ LocksFor(p, tid[x])
               /\ removing'[x] = Append(removing[x], p) /\ covered'[x] = covered[x] /\ parts_lock' = parts_lock
               /\ client'[x] = "append"
<1>1. /\ UNCHANGED <<logVars, read, csn, finish, todo, creating, new_part, merging, file, state, on_disk, loaded>>
      /\ client[x] = "remove" /\ covered[x] # <<>>
      /\ ~(Truncating(x) /\ version[p].creation_csn = RolledBackCSN)
  BY DEF RemoveOldPart, ending
<1>t. /\ client \in [Txns -> ClientStates] /\ covered \in [Txns -> Seq(Parts)] /\ removing \in [Txns -> Seq(Parts)]
      /\ version \in [Parts -> Metadata]
  BY Types DEF Stepping
<1>p. p \in Parts /\ p \in Range(covered[x])
  BY <1>1, <1>t, HeadAndTail
<1>2. \/ /\ csn[x] # UnknownCSN \/ version[p].removal_tid # EmptyTID
         /\ covered' = [covered EXCEPT ![x] = <<>>] /\ parts_lock' = None /\ UNCHANGED <<version, removing>>
         /\ client' = [client EXCEPT ![x] = IF Truncating(x) THEN "exception" ELSE "undo"]
      \/ /\ csn[x] = UnknownCSN /\ version[p].removal_tid = EmptyTID
         /\ version' = [version EXCEPT ![p].removal_tid = tid[x]]
         /\ removing' = [removing EXCEPT ![x] = Append(removing[x], p)]
         /\ client' = [client EXCEPT ![x] = "append"] /\ UNCHANGED <<covered, parts_lock>>
  BY DEF RemoveOldPart
<1>a. alive
  BY <1>1 DEF Stepping, Base, TableInv, Served
<1>3. Others(x)
  BY <1>1, <1>2, <1>t, OthersFacts, LogIsSame DEF Untouched
<1>4. SameLife(x)
  BY <1>1, <1>2, <1>t, LogIsSame DEF SameLife, IsCommitted, Stepping, Base, TxnInv, RunningIsUnfinished
<1>5. \A q \in Parts : SameState(q) /\ file'[q] = file[q]
  BY <1>1 DEF SameState
<1>6. ASSUME NEW q \in Parts, q # p PROVE Kept(q) /\ version'[q] = version[q]
  BY <1>2, <1>5, <1>6, <1>t, UnchangedIsKept
<1>7. version' = version => AllKept
  BY <1>5, UnchangedIsKept DEF AllKept
<1>8. version' = [version EXCEPT ![p].removal_tid = tid[x]] => LocksFor(p, tid[x])
  <2> HAVE version' = [version EXCEPT ![p].removal_tid = tid[x]]
  <2>1. version[p] \in Metadata /\ version'[p] = [version[p] EXCEPT !.removal_tid = tid[x]]
    BY <1>p, <1>t
  <2> QED  BY <2>1 DEF LocksFor, SameCreation, Metadata
<1>9. \/ /\ csn[x] # UnknownCSN \/ version[p].removal_tid # EmptyTID
         /\ version' = version /\ removing'[x] = removing[x] /\ covered'[x] = <<>> /\ parts_lock' = None
         /\ client'[x] = IF Truncating(x) THEN "exception" ELSE "undo"
      \/ /\ csn[x] = UnknownCSN /\ version[p].removal_tid = EmptyTID
         /\ LocksFor(p, tid[x])
         /\ removing'[x] = Append(removing[x], p) /\ covered'[x] = covered[x] /\ parts_lock' = parts_lock
         /\ client'[x] = "append"
  BY <1>2, <1>8, <1>t
<1> QED  BY <1>1, <1>3, <1>4, <1>6, <1>7, <1>9, <1>a, <1>p DEF SameEnd

(* A TRUNCATE makes the part that it treats Outdated. *)
LEMMA OutdatedByTruncateIs ==
  ASSUME Base, NEW x \in Txns, NEW p \in Parts, state' = OutdatedByTruncate(x, p)
  PROVE  /\ state'[p] = IF Truncating(x) THEN "Outdated" ELSE state[p]
         /\ \A q \in Parts : q # p => state'[q] = state[q]
BY Types DEF OutdatedByTruncate

LEMMA AppendRemovalDoes ==
  ASSUME Stepping, NEW x \in Txns, AppendRemoval(x), NEW p, p = Head(covered[x])
  PROVE  /\ Others(x) /\ SameEnd(x) /\ SameLife(x) /\ SameChanges(x) /\ alive
         /\ UNCHANGED <<logVars, read, on_disk, loaded>> /\ parts_lock' = parts_lock
         /\ new_part'[x] = new_part[x] /\ merging'[x] = merging[x]
         /\ client[x] = "append" /\ client'[x] = "remove" /\ p \in Parts /\ p \in Range(covered[x])
         /\ covered'[x] = Tail(covered[x]) /\ covered[x] # <<>>
         /\ \A q \in Parts : q # p => Kept(q) /\ version'[q] = version[q] /\ file'[q] = file[q]
         /\ state'[p] = IF Truncating(x) THEN "Outdated" ELSE state[p]
         /\ AppendsLock(p)
<1>t. /\ client \in [Txns -> ClientStates] /\ covered \in [Txns -> Seq(Parts)]
      /\ version \in [Parts -> Metadata] /\ file \in [Parts -> Metadata]
  BY Types DEF Stepping
<1>1. /\ UNCHANGED <<logVars, read, csn, finish, todo, creating, removing, new_part, merging, parts_lock, on_disk, loaded>>
      /\ client[x] = "append" /\ covered[x] # <<>>
  BY DEF AppendRemoval, ending, changes, Stepping, Base, TxnInv, AtHand
<1>p. p \in Parts /\ p \in Range(covered[x])
  BY <1>1, <1>t, HeadAndTail
<1>2. /\ file' = AppendRemovalTID(p, version[p])
      /\ version' = IF version[p].creation_tid = PrehistoricTID
                    THEN [version EXCEPT ![p].creation_csn = PrehistoricCSN] ELSE version
      /\ state' = OutdatedByTruncate(x, p)
      /\ covered' = [covered EXCEPT ![x] = Tail(covered[x])] /\ client' = [client EXCEPT ![x] = "remove"]
  BY DEF AppendRemoval
<1>a. alive
  BY <1>1 DEF Stepping, Base, TableInv, Served
<1>3. Others(x)
  BY <1>1, <1>2, <1>t, OthersFacts, LogIsSame DEF Untouched
<1>4. SameLife(x)
  BY <1>1, <1>2, <1>t, LogIsSame DEF SameLife, IsCommitted, Stepping, Base, TxnInv, RunningIsUnfinished
<1>5. /\ state'[p] = IF Truncating(x) THEN "Outdated" ELSE state[p]
      /\ \A q \in Parts : q # p => state'[q] = state[q]
  BY <1>2, <1>p, OutdatedByTruncateIs DEF Stepping
<1>6. ASSUME NEW q \in Parts, q # p PROVE Kept(q) /\ version'[q] = version[q] /\ file'[q] = file[q]
  <2>1. version'[q] = version[q] /\ file'[q] = file[q]
    BY <1>2, <1>6, <1>t DEF AppendRemovalTID
  <2>2. SameState(q)
    BY <1>1, <1>5, <1>6 DEF SameState
  <2> QED  BY <2>1, <2>2, UnchangedIsKept
<1>7. /\ version'[p] = IF version[p].creation_tid = PrehistoricTID
                       THEN [version[p] EXCEPT !.creation_csn = PrehistoricCSN] ELSE version[p]
      /\ file'[p] = IF version[p].creation_tid = PrehistoricTID
                    THEN [version[p] EXCEPT !.creation_csn = PrehistoricCSN]
                    ELSE [file[p] EXCEPT !.removal_tid = version[p].removal_tid]
  BY <1>2, <1>p, <1>t DEF AppendRemovalTID
<1>9. AppendsLock(p)
  <2>1. version[p] \in Metadata /\ file[p] \in Metadata
    BY <1>p, <1>t
  <2>2. CASE version[p].creation_tid = PrehistoricTID
    <3>1. PICK v : v = [version[p] EXCEPT !.creation_csn = PrehistoricCSN]
      OBVIOUS
    <3>2. v.creation_csn = PrehistoricCSN /\ v.creation_tid = version[p].creation_tid /\ SameRemoval(version[p], v)
      <4>1. PICK c : c = PrehistoricCSN
        OBVIOUS
      <4>2. v = [version[p] EXCEPT !.creation_csn = c]
        BY <3>1, <4>1
      <4>3. v.creation_csn = c /\ v.creation_tid = version[p].creation_tid
        BY <2>1, <4>2 DEF Metadata
      <4>4. v.removal_csn = version[p].removal_csn /\ v.removal_tid = version[p].removal_tid
        BY <2>1, <4>2 DEF Metadata
      <4> QED  BY <4>1, <4>3, <4>4 DEF SameRemoval
    <3>3. version'[p] = v /\ file'[p] = v
      BY <1>7, <2>2, <3>1
    <3> QED  BY <2>2, <3>2, <3>3 DEF AppendsLock, SameRemoval
  <2>3. CASE version[p].creation_tid # PrehistoricTID
    <3>1. PICK w : w = [file[p] EXCEPT !.removal_tid = version[p].removal_tid]
      OBVIOUS
    <3>2. w.removal_tid = version[p].removal_tid /\ w.removal_csn = file[p].removal_csn /\ SameCreation(file[p], w)
      BY <2>1, <3>1 DEF SameCreation, Metadata
    <3>3. version'[p] = version[p] /\ file'[p] = w
      BY <1>7, <2>3, <3>1
    <3> QED  BY <2>3, <3>2, <3>3 DEF AppendsLock, SameRemoval
  <2> QED  BY <2>2, <2>3
<1>8. covered'[x] = Tail(covered[x]) /\ client'[x] = "remove"
  BY <1>2, <1>t
<1> QED  BY <1>1, <1>3, <1>4, <1>5, <1>6, <1>8, <1>9, <1>a, <1>p DEF SameEnd, SameChanges

LEMMA SkipRolledBackDoes ==
  ASSUME Stepping, NEW x \in Txns, SkipRolledBack(x), NEW p, p = Head(covered[x])
  PROVE  /\ Others(x) /\ SameEnd(x) /\ SameLife(x) /\ SameChanges(x) /\ alive
         /\ UNCHANGED <<logVars, read, version, file, on_disk, loaded>> /\ parts_lock' = parts_lock
         /\ new_part'[x] = new_part[x] /\ merging'[x] = merging[x]
         /\ client[x] = "remove" /\ client'[x] = "remove" /\ p \in Parts /\ p \in Range(covered[x])
         /\ covered'[x] = Tail(covered[x]) /\ covered[x] # <<>>
         /\ Truncating(x) /\ version[p].creation_csn = RolledBackCSN
         /\ \A q \in Parts : q # p => Kept(q)
         /\ state'[p] = "Outdated"
<1>t. /\ client \in [Txns -> ClientStates] /\ covered \in [Txns -> Seq(Parts)]
  BY Types DEF Stepping
<1>1. /\ UNCHANGED <<logVars, read, csn, client, finish, todo, creating, removing, new_part, merging, parts_lock, on_disk, loaded>>
      /\ UNCHANGED <<version, file>>
      /\ client[x] = "remove" /\ covered[x] # <<>> /\ Truncating(x) /\ version[p].creation_csn = RolledBackCSN
      /\ state' = OutdatedByTruncate(x, p) /\ covered' = [covered EXCEPT ![x] = Tail(covered[x])]
  BY DEF SkipRolledBack, ending, changes
<1>p. p \in Parts /\ p \in Range(covered[x])
  BY <1>1, <1>t, HeadAndTail
<1>a. alive
  BY <1>1 DEF Stepping, Base, TableInv, Served
<1>3. Others(x)
  BY <1>1, <1>t, OthersFacts, LogIsSame DEF Untouched
<1>4. SameLife(x)
  BY <1>1, LogIsSame, LifeFacts
<1>5. /\ state'[p] = IF Truncating(x) THEN "Outdated" ELSE state[p]
      /\ \A q \in Parts : q # p => state'[q] = state[q]
  BY <1>1, <1>p, OutdatedByTruncateIs DEF Stepping
<1>6. \A q \in Parts : q # p => Kept(q)
  BY <1>1, <1>5, UnchangedIsKept DEF SameState
<1> QED  BY <1>1, <1>3, <1>4, <1>5, <1>6, <1>a, <1>p, <1>t DEF SameEnd, SameChanges

LEMMA TruncateEndsDoes ==
  ASSUME Stepping, NEW x \in Txns, TruncateEnds(x)
  PROVE  /\ Others(x) /\ SameEnd(x) /\ SameLife(x) /\ SameChanges(x) /\ AllKept /\ alive
         /\ UNCHANGED <<logVars, read, version, file, state, on_disk, loaded>> /\ parts_lock' = None
         /\ new_part'[x] = new_part[x] /\ merging'[x] = merging[x] /\ covered'[x] = covered[x]
         /\ client[x] = "remove" /\ client'[x] = "ready" /\ covered[x] = <<>> /\ Truncating(x)
<1>t. client \in [Txns -> ClientStates]
  BY Types DEF Stepping
<1>1. /\ UNCHANGED <<logVars, read, csn, finish, todo, creating, removing, new_part, merging, covered, version, file>>
      /\ UNCHANGED <<state, on_disk, loaded>> /\ parts_lock' = None
      /\ client[x] = "remove" /\ covered[x] = <<>> /\ Truncating(x) /\ client' = [client EXCEPT ![x] = "ready"]
  BY DEF TruncateEnds, ending, changes, writeVars
<1>a. alive
  BY <1>1 DEF Stepping, Base, TableInv, Served
<1>3. Others(x)
  BY <1>1, <1>t, OthersFacts, LogIsSame DEF Untouched
<1>4. SameLife(x)
  BY <1>1, <1>t, LogIsSame DEF SameLife, IsCommitted, Stepping, Base, TxnInv, RunningIsUnfinished
<1>6. AllKept
  BY <1>1, UnchangedIsKept DEF SameState, AllKept
<1> QED  BY <1>1, <1>3, <1>4, <1>6, <1>a, <1>t DEF SameEnd, SameChanges

LEMMA ActivatePartDoes ==
  ASSUME Stepping, NEW x \in Txns, ActivatePart(x), NEW p, p = new_part[x]
  PROVE  /\ Others(x) /\ SameEnd(x) /\ SameLife(x) /\ SameChanges(x) /\ alive
         /\ UNCHANGED <<logVars, read, version, file, on_disk, loaded>> /\ parts_lock' = None
         /\ new_part'[x] = new_part[x] /\ merging'[x] = {} /\ covered'[x] = covered[x]
         /\ client[x] = "remove" /\ client'[x] = "ready" /\ covered[x] = <<>> /\ p \in Parts
         /\ \A q \in Parts : q # p /\ (q \in Covers[p] => state[q] # "Active") => Kept(q)
         /\ \/ /\ IsCovered(p) /\ state'[p] = "Outdated" /\ \A q \in Parts : q # p => Kept(q)
            \/ /\ ~IsCovered(p) /\ state'[p] = "Active"
               /\ \A q \in Covers[p] : state[q] = "Active" => state'[q] = "Outdated"
<1>t. /\ client \in [Txns -> ClientStates] /\ merging \in [Txns -> SUBSET Parts] /\ new_part \in [Txns -> Parts \cup {None}]
      /\ state \in [Parts -> {None, "PreActive", "Active", "Outdated"}]
  BY Types DEF Stepping
<1>1. /\ UNCHANGED <<logVars, read, csn, finish, todo, creating, removing, new_part, covered, version, file>>
      /\ UNCHANGED <<on_disk, loaded>> /\ parts_lock' = None /\ p # None
      /\ client[x] = "remove" /\ covered[x] = <<>> /\ client' = [client EXCEPT ![x] = "ready"]
      /\ merging' = [merging EXCEPT ![x] = {}]
  BY DEF ActivatePart, ending, changes, Truncating
<1>2. \/ IsCovered(p) /\ state' = [state EXCEPT ![p] = "Outdated"]
      \/ /\ ~IsCovered(p)
         /\ state' = [q \in Parts |-> IF q = p THEN "Active"
                                      ELSE IF q \in CoveredBy(p, "Active") THEN "Outdated"
                                      ELSE state[q]]
  BY DEF ActivatePart
<1>p. p \in Parts /\ Covers[p] \subseteq Parts /\ p \notin Covers[p]
  BY <1>1, <1>t, TableAssumption
<1>a. alive
  BY <1>1 DEF Stepping, Base, TableInv, Served
<1>3. Others(x)
  BY <1>1, <1>t, OthersFacts, LogIsSame DEF Untouched
<1>4. SameLife(x)
  BY <1>1, <1>t, LogIsSame DEF SameLife, IsCommitted, Stepping, Base, TxnInv, RunningIsUnfinished
<1>5. ASSUME NEW q \in Parts, state'[q] = state[q] PROVE Kept(q)
  BY <1>1, <1>5, UnchangedIsKept DEF SameState
<1>6. \A q \in Parts : q # p /\ (q \in Covers[p] => state[q] # "Active") => Kept(q)
  BY <1>2, <1>5, <1>t DEF CoveredBy
<1>7. \/ /\ IsCovered(p) /\ state'[p] = "Outdated" /\ \A q \in Parts : q # p => Kept(q)
      \/ /\ ~IsCovered(p) /\ state'[p] = "Active"
         /\ \A q \in Covers[p] : state[q] = "Active" => state'[q] = "Outdated"
  BY <1>2, <1>5, <1>t, <1>p DEF CoveredBy
<1>8. client'[x] = "ready" /\ merging'[x] = {}
  BY <1>1, <1>t
<1> QED  BY <1>1, <1>3, <1>4, <1>6, <1>7, <1>8, <1>a, <1>p DEF SameEnd, SameChanges

LEMMA UndoPartDoes ==
  ASSUME Stepping, NEW x \in Txns, UndoPart(x), NEW p, p = new_part[x]
  PROVE  /\ Others(x) /\ SameEnd(x) /\ SameLife(x) /\ SameChanges(x) /\ alive
         /\ UNCHANGED <<logVars, read, file, on_disk, loaded>> /\ parts_lock = None /\ parts_lock' = None
         /\ new_part'[x] = new_part[x] /\ merging'[x] = {} /\ covered'[x] = covered[x]
         /\ client[x] = "undo" /\ client'[x] = "exception" /\ p \in Parts
         /\ \A q \in Parts : q # p => Kept(q) /\ version'[q] = version[q]
         /\ state'[p] = "Outdated" /\ Undoes(p)
<1>t. /\ client \in [Txns -> ClientStates] /\ merging \in [Txns -> SUBSET Parts] /\ new_part \in [Txns -> Parts \cup {None}]
      /\ state \in [Parts -> {None, "PreActive", "Active", "Outdated"}] /\ version \in [Parts -> Metadata]
  BY Types DEF Stepping
<1>1. /\ UNCHANGED <<logVars, read, csn, finish, todo, creating, removing, new_part, covered, file>>
      /\ UNCHANGED <<on_disk, loaded>> /\ parts_lock = None /\ parts_lock' = None
      /\ client[x] = "undo" /\ client' = [client EXCEPT ![x] = "exception"]
      /\ merging' = [merging EXCEPT ![x] = {}]
      /\ version' = [version EXCEPT ![p].creation_csn = RolledBackCSN]
      /\ state' = [state EXCEPT ![p] = "Outdated"]
  BY DEF UndoPart, ending, changes, Unlocked
<1>p. p \in Parts
  BY <1>1, <1>t DEF Stepping, Base, TxnInv, AtHand
<1>a. alive
  BY <1>1 DEF Stepping, Base, TableInv, Served
<1>3. Others(x)
  BY <1>1, <1>t, OthersFacts, LogIsSame DEF Untouched
<1>4. SameLife(x)
  BY <1>1, <1>t, LogIsSame DEF SameLife, IsCommitted, Stepping, Base, TxnInv, RunningIsUnfinished
<1>6. ASSUME NEW q \in Parts, q # p PROVE Kept(q) /\ version'[q] = version[q]
  BY <1>1, <1>6, <1>t, UnchangedIsKept DEF SameState
<1>8. client'[x] = "exception" /\ merging'[x] = {} /\ state'[p] = "Outdated"
      /\ version'[p] = [version[p] EXCEPT !.creation_csn = RolledBackCSN]
  BY <1>1, <1>t, <1>p
<1>9. Undoes(p)
  BY <1>8, <1>p, <1>t DEF Undoes, SameRemoval, Metadata
<1> QED  BY <1>1, <1>3, <1>4, <1>6, <1>8, <1>9, <1>a, <1>p DEF SameEnd, SameChanges

-----------------------------------------------------------------------------
(* The steps that end a transaction and leave the parts alone. *)
Deciding(x) ==
  \/ Begin(x) \/ ClientRollsBack(x) \/ Kill(x) \/ RollBackUnknownState(x) \/ BeforeCommit(x)
  \/ Commit(x) \/ CommitLost(x) \/ Postpone(x) \/ CommitRefused(x)
  \/ DecideUnknownState(x) \/ AfterCommit(x) \/ Release(x)

LEMMA DecidingKeeps ==
  ASSUME Stepping, NEW x \in Txns, Deciding(x)
  PROVE  /\ AllKept /\ parts_lock' = parts_lock /\ SameChanges(x)
         /\ UNCHANGED <<version, file, read, state, on_disk, loaded>>
         /\ UNCHANGED <<new_part, covered, merging, creating, removing>>
<1>1. UNCHANGED <<version, file, read, partVars, writeVars, changes>>
  BY DEF Deciding, Begin, ClientRollsBack, Kill, RollBackUnknownState, BeforeCommit, Commit, CommitLost, Postpone,
     CommitRefused, DecideUnknownState, AfterCommit, Release
<1>2. AllKept
  BY <1>1, UnchangedIsKept DEF AllKept, SameState, partVars
<1> QED  BY <1>1, <1>2 DEF partVars, writeVars, changes, SameChanges

(* How the two programs of the transaction go on. *)
Goes(x, c, f) == client'[x] = c /\ finish'[x] = f

LEMMA DecidingOthers ==
  ASSUME Stepping, NEW x \in Txns, Deciding(x)
  PROVE  Others(x)
<1>1. UNCHANGED <<new_part, covered, merging, creating, removing>>
  BY DecidingKeeps
<1>t. /\ client \in [Txns -> ClientStates] /\ csn \in [Txns -> Nat] /\ finish \in [Txns -> FinishStates]
      /\ todo \in [Txns -> Seq(Parts)] /\ tid \in [Txns -> TIDs]
  BY Types DEF Stepping
<1>2. ASSUME NEW y \in Txns, y # x
      PROVE  client'[y] = client[y] /\ csn'[y] = csn[y] /\ finish'[y] = finish[y] /\ todo'[y] = todo[y]
  BY <1>2, <1>t DEF Deciding, Begin, ClientRollsBack, Kill, RollBackUnknownState, StartRollback, BeforeCommit, Commit,
     CommitLost, Postpone, CommitRefused, DecideUnknownState, AfterCommit, Release, ending
<1>3. ASSUME NEW y \in Txns, y # x PROVE tid'[y] = tid[y] /\ (IsCommitted(y)' <=> IsCommitted(y))
  <2>1. CASE Begin(x)
    <3>1. tid'[y] = tid[y] /\ committed' = committed
      BY <1>3, <1>t, <2>1 DEF Begin, BeginTransaction
    <3> QED  BY <3>1 DEF IsCommitted
  <2>2. CASE committed' = committed /\ tid' = tid
    BY <2>2 DEF IsCommitted
  <2>3. CASE CreateEntry(x)
    <3>1. tid' = tid /\ committed' = committed \cup {[csn |-> next_csn, tid |-> tid[x]]} /\ x \in Range(in_use)
      BY <2>3 DEF CreateEntry
    <3>2. tid[x] # tid[y]
      <4>1. Running(x) /\ tid[x] # EmptyTID
        BY <3>1 DEF Running, Stepping, Base, TxnInv, RunningIsUnfinished
      <4> QED  BY <1>3, <4>1 DEF Stepping, Base, IInv, TIDsAreUnique
    <3> QED  BY <3>1, <3>2 DEF IsCommitted
  <2>4. Begin(x) \/ (committed' = committed /\ tid' = tid) \/ CreateEntry(x)
    BY LogIsSame DEF Deciding, ClientRollsBack, Kill, RollBackUnknownState, BeforeCommit, Commit, CommitPoint, CommitLost,
       CommitPointLost, CommitFails, Postpone, PostponeFinalization, CommitRefused, DecideUnknownState, AfterCommit,
       Release, ReleaseSnapshot
  <2> QED  BY <2>1, <2>2, <2>3, <2>4
<1>4. ASSUME NEW y \in Txns, y # x PROVE Running(y)' <=> Running(y)
  BY <1>2, <1>4 DEF Stepping, Base, TxnInv, RunningIsUnfinished
<1> SUFFICES ASSUME NEW y \in Txns, y # x PROVE Same(y)
  BY DEF Others
<1> QED  BY <1>1, <1>2, <1>3, <1>4 DEF Same, SameQuery, SameEnd, SameChanges, SameLife

LEMMA BeginDoes ==
  ASSUME Stepping, NEW x \in Txns, Begin(x)
  PROVE  /\ client[x] = "idle" /\ client'[x] = "ready" /\ SameEnd(x) /\ finish[x] = None /\ csn[x] = UnknownCSN
         /\ ~IsCommitted(x) /\ ~IsCommitted(x)' /\ IsReadOnly(x) /\ committed' = committed /\ alive /\ started
         /\ tid'[x] # EmptyTID /\ tid'[x] \notin NamedTIDs
         /\ tid'[x].start_csn = latest_snapshot /\ \A y \in Txns : tid[y] # tid'[x]
<1>t. client \in [Txns -> ClientStates] /\ tid \in [Txns -> TIDs]
  BY Types DEF Stepping
<1>1. /\ client[x] = "idle" /\ client' = [client EXCEPT ![x] = "ready"] /\ UNCHANGED <<csn, finish, todo, committed>>
      /\ tid' = [tid EXCEPT ![x] = TransactionID(latest_snapshot, local_tid_counter + 1)] /\ alive /\ started
  BY DEF Begin, BeginTransaction, ending
<1>2. finish[x] = None /\ csn[x] = UnknownCSN /\ IsReadOnly(x)
  BY <1>1 DEF Stepping, Base, TxnInv, Outcome
<1>3. /\ tid'[x] # EmptyTID /\ \A y \in Txns : tid[y] # EmptyTID => tid[y] # tid'[x]
      /\ tid'[x].start_csn = latest_snapshot
  BY <1>1, <1>t, NewTIDIsFresh DEF Stepping, Base, IInv
<1>4. ~IsCommitted(x) /\ ~IsCommitted(x)'
  BY <1>1, <1>2, <1>3, CSNFacts DEF Stepping, Base, IInv, CommitsHaveTxns, IsCommitted, TxnInv, Outcome
<1>5. tid'[x] # PrehistoricTID
  BY DEF Stepping, Base, TableInv, TIDsAreOwn
<1>6. \A y \in Txns : client[y] # "idle" => tid[y] # EmptyTID
  BY DEF Stepping, Base, TxnInv, RunningIsUnfinished
<1>7. tid'[x] \notin NamedTIDs
  BY <1>3, <1>5, <1>6 DEF NamedTIDs
<1> QED  BY <1>1, <1>2, <1>3, <1>4, <1>7, <1>t DEF SameEnd

LEMMA RollbackStarts ==
  ASSUME Stepping, NEW x \in Txns, ClientRollsBack(x) \/ Kill(x) \/ RollBackUnknownState(x)
  PROVE  /\ SameLife(x) /\ UNCHANGED logVars /\ client[x] # "idle"
         /\ client'[x] = client[x] \/ (client[x] \in {"ready", "exception"} /\ client'[x] = "end")
         /\ \/ SameEnd(x) /\ csn[x] # UnknownCSN
            \/ /\ csn[x] = UnknownCSN /\ csn'[x] = RolledBackCSN /\ finish'[x] = "mark" /\ todo'[x] = creating[x]
               /\ finish[x] \in {None, "unguarded"}
<1>t. /\ client \in [Txns -> ClientStates] /\ csn \in [Txns -> Nat] /\ finish \in [Txns -> FinishStates]
      /\ todo \in [Txns -> Seq(Parts)]
  BY Types DEF Stepping
<1>1. UNCHANGED logVars /\ (client'[x] = client[x] \/ (client[x] \in {"ready", "exception"} /\ client'[x] = "end"))
  BY <1>t DEF ClientRollsBack, Kill, RollBackUnknownState, Idle
<1>2. \/ SameEnd(x) /\ csn[x] # UnknownCSN
      \/ csn[x] = UnknownCSN /\ csn'[x] = RolledBackCSN /\ finish'[x] = "mark" /\ todo'[x] = creating[x]
  BY <1>t DEF ClientRollsBack, Kill, RollBackUnknownState, StartRollback, SameEnd
<1>o. Outcome(x) /\ (Running(x) <=> client[x] # "idle" /\ finish[x] # "done")
      /\ (Running(x)' <=> client'[x] # "idle" /\ finish'[x] # "done")
  BY DEF Stepping, Base, TxnInv, RunningIsUnfinished
<1>3. client[x] # "idle"
  BY <1>o DEF ClientRollsBack, Kill, RollBackUnknownState, Idle, Outcome
<1>4. csn[x] = UnknownCSN => finish[x] \in {None, "unguarded"}
  <2>1. finish[x] # "done" \/ client[x] # "end"
    BY <1>o DEF ClientRollsBack, Kill, RollBackUnknownState, Idle
  <2> QED  BY <1>o, <2>1 DEF Stepping, Base, UndecidedIsOpen, Outcome
<1>5. SameLife(x)
  <2>1. tid' = tid /\ committed' = committed
    BY <1>1, LogIsSame
  <2>2. Running(x)' <=> Running(x)
    BY <1>o, <1>1, <1>2, <1>3, <1>4 DEF SameEnd, None
  <2> QED  BY <2>1, <2>2 DEF SameLife, IsCommitted
<1> QED  BY <1>1, <1>2, <1>3, <1>4, <1>5

LEMMA BeforeCommitDoes ==
  ASSUME Stepping, NEW x \in Txns, BeforeCommit(x)
  PROVE  /\ SameLife(x) /\ UNCHANGED logVars /\ client[x] = "ready" /\ todo'[x] = todo[x]
         /\ \/ SameEnd(x) /\ csn[x] # UnknownCSN /\ client'[x] = "end"
            \/ /\ csn[x] = UnknownCSN /\ csn'[x] = CommittingCSN /\ finish[x] = None
               /\ \/ IsReadOnly(x) /\ Goes(x, "end", "committed")
                  \/ ~IsReadOnly(x) /\ Goes(x, "commit", None)
<1>t. /\ client \in [Txns -> ClientStates] /\ csn \in [Txns -> Nat] /\ finish \in [Txns -> FinishStates]
  BY Types DEF Stepping
<1>1. UNCHANGED <<logVars, todo>> /\ client[x] = "ready"
  BY DEF BeforeCommit, Idle
<1>2. csn[x] = UnknownCSN => finish[x] = None
  BY <1>1 DEF Stepping, Base, TxnInv, Outcome
<1>3. \/ SameEnd(x) /\ csn[x] # UnknownCSN /\ client'[x] = "end"
      \/ /\ csn[x] = UnknownCSN /\ csn'[x] = CommittingCSN /\ finish[x] = None
         /\ \/ IsReadOnly(x) /\ Goes(x, "end", "committed")
            \/ ~IsReadOnly(x) /\ Goes(x, "commit", None)
  BY <1>t, <1>1, <1>2 DEF BeforeCommit, SameEnd, Goes
<1>4. SameLife(x)
  BY <1>1, <1>3, LogIsSame DEF SameLife, SameEnd, Goes, IsCommitted, Stepping, Base, TxnInv, RunningIsUnfinished, None
<1> QED  BY <1>1, <1>3, <1>4

LEMMA CommitDoes ==
  ASSUME Stepping, NEW x \in Txns, Commit(x) \/ CommitLost(x)
  PROVE  /\ client[x] = "commit" /\ csn[x] = CommittingCSN /\ csn'[x] = CommittingCSN /\ finish[x] = None
         /\ todo'[x] = todo[x] /\ tid' = tid /\ ~IsCommitted(x) /\ Running(x) /\ Running(x)' /\ alive
         /\ in_use' = in_use /\ tid_to_csn' = tid_to_csn /\ started' = started /\ latest_snapshot' = latest_snapshot
         /\ last_loaded_entry' = last_loaded_entry /\ zk_tail_ptr' = zk_tail_ptr /\ tail_ptr' = tail_ptr
         /\ alive' = alive
         /\ \/ committed' = committed \cup {[csn |-> next_csn, tid |-> tid[x]]} /\ IsCommitted(x)'
               /\ (Goes(x, "end", "committed") \/ Goes(x, "lost", None))
            \/ committed' = committed /\ ~IsCommitted(x)' /\ Goes(x, "lost", None)
<1>t. /\ client \in [Txns -> ClientStates] /\ finish \in [Txns -> FinishStates]
  BY Types DEF Stepping
<1>1. client[x] = "commit" /\ csn' = csn /\ todo' = todo /\ csn[x] = CommittingCSN /\ finish[x] = None
  BY DEF Commit, CommitLost, ending, Stepping, Base, TxnInv, Outcome
<1>2. /\ x \in Range(in_use) /\ ~IsCommitted(x) /\ UNCHANGED <<memory, tid, alive, started, zk_tail_ptr>> /\ alive
      /\ \/ committed' = committed \cup {[csn |-> next_csn, tid |-> tid[x]]}
         \/ committed' = committed /\ CommitLost(x)
  BY DEF Commit, CommitPoint, CommitLost, CommitPointLost, CommitFails, CreateEntry, keeper
<1>3. Goes(x, "lost", None) \/ (Goes(x, "end", "committed") /\ ~CommitLost(x))
  BY <1>1, <1>t DEF Commit, CommitLost, Goes, ending, None
<1>4. Running(x)'
  BY <1>2 DEF Running, memory
<1>5. /\ committed' = committed \cup {[csn |-> next_csn, tid |-> tid[x]]} => IsCommitted(x)'
      /\ committed' = committed => ~IsCommitted(x)'
  <2>1. tid'[x] = [csn |-> next_csn, tid |-> tid[x]].tid
    BY <1>2
  <2> QED  BY <1>2, <2>1 DEF IsCommitted
<1> QED  BY <1>1, <1>2, <1>3, <1>4, <1>5 DEF Running, memory

LEMMA PostponeDoes ==
  ASSUME Stepping, NEW x \in Txns, Postpone(x)
  PROVE  /\ SameLife(x) /\ client[x] = "lost" /\ Goes(x, "end", "unknown") /\ finish[x] = None
         /\ csn'[x] = csn[x] /\ todo'[x] = todo[x] /\ csn[x] = CommittingCSN /\ committed' = committed /\ tid' = tid
         /\ alive /\ alive' = alive /\ in_use' = in_use
<1>t. /\ client \in [Txns -> ClientStates] /\ finish \in [Txns -> FinishStates]
  BY Types DEF Stepping
<1>1. /\ client[x] = "lost" /\ UNCHANGED <<csn, todo, committed, tid, in_use, alive>> /\ alive
      /\ Goes(x, "end", "unknown")
  BY <1>t DEF Postpone, PostponeFinalization, Goes
<1>2. csn[x] = CommittingCSN /\ finish[x] = None
  BY <1>1 DEF Stepping, Base, TxnInv, Outcome
<1> QED  BY <1>1, <1>2 DEF SameLife, IsCommitted, Running

LEMMA CommitRefusedDoes ==
  ASSUME Stepping, NEW x \in Txns, CommitRefused(x)
  PROVE  /\ SameLife(x) /\ client[x] = "commit" /\ Goes(x, "exception", None) /\ finish[x] = None
         /\ csn'[x] = UnknownCSN /\ todo'[x] = todo[x] /\ csn[x] = CommittingCSN /\ committed' = committed /\ tid' = tid
         /\ ~IsCommitted(x) /\ alive /\ alive' = alive /\ in_use' = in_use
<1>t. /\ client \in [Txns -> ClientStates] /\ csn \in [Txns -> Nat]
  BY Types DEF Stepping
<1>1. /\ client[x] = "commit" /\ UNCHANGED <<finish, todo, committed, tid, in_use, alive>> /\ alive
      /\ client'[x] = "exception" /\ csn'[x] = UnknownCSN /\ ~IsCommitted(x)
  BY <1>t DEF CommitRefused, CommitFails, ending, memory, keeper
<1>2. csn[x] = CommittingCSN /\ finish[x] = None
  BY <1>1 DEF Stepping, Base, TxnInv, Outcome
<1> QED  BY <1>1, <1>2 DEF SameLife, IsCommitted, Running, Goes

LEMMA DecideDoes ==
  ASSUME Stepping, NEW x \in Txns, DecideUnknownState(x)
  PROVE  /\ SameLife(x) /\ UNCHANGED logVars /\ client[x] = "end" /\ client'[x] = "end" /\ finish[x] = "unknown"
         /\ csn[x] = CommittingCSN /\ todo'[x] = todo[x] /\ alive
         /\ \/ finish'[x] = "committed" /\ csn'[x] = CommittingCSN
            \/ finish'[x] = "unguarded" /\ csn'[x] = UnknownCSN
<1>t. finish \in [Txns -> FinishStates] /\ csn \in [Txns -> Nat]
  BY Types DEF Stepping
<1>1. /\ finish[x] = "unknown" /\ UNCHANGED <<logVars, client, todo>> /\ updater = "finalize"
  BY DEF DecideUnknownState
<1>2. csn[x] = CommittingCSN /\ client[x] = "end"
  BY <1>1 DEF Stepping, Base, TxnInv, Outcome
<1>3. \/ finish'[x] = "committed" /\ csn'[x] = CommittingCSN
      \/ finish'[x] = "unguarded" /\ csn'[x] = UnknownCSN
  BY <1>2, <1>t DEF DecideUnknownState
<1>4. alive
  BY <1>1 DEF Stepping, Base, IInv, DeadIsEmpty
<1>5. SameLife(x)
  BY <1>1, LogIsSame DEF SameLife, IsCommitted, Running
<1> QED  BY <1>1, <1>2, <1>3, <1>4, <1>5

LEMMA AfterCommitDoes ==
  ASSUME Stepping, NEW x \in Txns, AfterCommit(x)
  PROVE  /\ SameLife(x) /\ UNCHANGED logVars /\ client'[x] = client[x] /\ client[x] = "end" /\ finish[x] = "committed"
         /\ finish'[x] = "stamp_created" /\ todo'[x] = creating[x] /\ csn'[x] = AllocatedCSN(x)
         /\ csn'[x] \notin {UnknownCSN, RolledBackCSN, CommittingCSN} /\ csn[x] = CommittingCSN
         /\ IsReadOnly(x) \/ IsCommitted(x)
<1>t. finish \in [Txns -> FinishStates] /\ csn \in [Txns -> Nat] /\ todo \in [Txns -> Seq(Parts)]
  BY Types DEF Stepping
<1>1. /\ finish[x] = "committed" /\ UNCHANGED <<logVars, client>> /\ finish'[x] = "stamp_created"
      /\ todo'[x] = creating[x] /\ csn'[x] = AllocatedCSN(x)
  BY <1>t DEF AfterCommit
<1>2. csn[x] = CommittingCSN /\ client[x] = "end" /\ (IsReadOnly(x) \/ IsCommitted(x))
  BY <1>1 DEF Stepping, Base, TxnInv, Outcome
<1>a. AllocatedCSN(x) \in Nat /\ MaxReservedCSN <= AllocatedCSN(x) /\ AllocatedCSN(x) <= MaxCSN
  BY <1>1, AllocatedCSNFacts DEF Stepping, Base
<1>3. AllocatedCSN(x) \notin {UnknownCSN, RolledBackCSN, CommittingCSN}
  BY <1>a, CSNFacts
<1>5. SameLife(x)
  BY <1>1, LogIsSame DEF SameLife, IsCommitted, Running
<1> QED  BY <1>1, <1>2, <1>3, <1>5

LEMMA ReleaseDoes ==
  ASSUME Stepping, NEW x \in Txns, Release(x)
  PROVE  /\ client'[x] = client[x] /\ finish[x] = "release" /\ finish'[x] = "done"
         /\ todo'[x] = todo[x] /\ csn'[x] = csn[x] /\ csn[x] # UnknownCSN
         /\ committed' = committed /\ tid' = tid /\ (IsCommitted(x)' <=> IsCommitted(x)) /\ alive /\ alive' = alive
         /\ Running(x) /\ ~Running(x)' /\ started' = started
<1>t. finish \in [Txns -> FinishStates]
  BY Types DEF Stepping
<1>1. /\ finish[x] = "release" /\ UNCHANGED <<client, csn, todo, committed, tid, alive, started>> /\ finish'[x] = "done" /\ alive
      /\ x \in Range(in_use)
  BY <1>t DEF Release, ReleaseSnapshot, Range
<1>2. csn[x] # UnknownCSN
  BY <1>1 DEF Stepping, Base, UndecidedIsOpen, None
<1>3. ~Running(x)'
  BY <1>1 DEF Stepping, Base, TxnInv, RunningIsUnfinished
<1> QED  BY <1>1, <1>2, <1>3 DEF IsCommitted, Running

-----------------------------------------------------------------------------
(* The steps of the end of a transaction that treat parts. *)
Treating(x) ==
  \/ StampCreated(x) \/ StampRemoved(x) \/ MarkRolledBack(x) \/ OutdateCreated(x)
  \/ RestoreRemoved(x) \/ ClearRemoved(x) \/ UnlockRemoved(x)
Phases == {"stamp_created", "stamp_removed", "mark", "outdate", "activate", "clear", "unlock"}

LEMMA TreatingKeeps ==
  ASSUME Stepping, NEW x \in Txns, Treating(x)
  PROVE  /\ Others(x) /\ SameQuery(x) /\ SameChanges(x) /\ SameLife(x) /\ csn'[x] = csn[x] /\ csn[x] # UnknownCSN
         /\ parts_lock' = parts_lock /\ UNCHANGED <<logVars, read, on_disk, loaded>>
         /\ finish[x] \in Phases /\ finish'[x] # "done" /\ client[x] # "idle" /\ Running(x)
<1>1. /\ UNCHANGED <<logVars, read, csn, client, new_part, covered, merging, creating, removing>>
      /\ UNCHANGED <<parts_lock, on_disk, loaded>>
      /\ finish[x] \in Phases
  BY DEF Treating, StampCreated, StampRemoved, MarkRolledBack, OutdateCreated, RestoreRemoved, ClearRemoved, UnlockRemoved,
     writeVars, changes, partVars, Phases
<1>2. /\ \E t : todo' = [todo EXCEPT ![x] = t]
      /\ finish' = finish \/ \E f \in Phases \cup {"release"} : finish' = [finish EXCEPT ![x] = f]
  BY DEF Treating, StampCreated, StampRemoved, MarkRolledBack, OutdateCreated, RestoreRemoved, ClearRemoved, UnlockRemoved,
     NextPart, NextPhase, Phases
<1>t. finish \in [Txns -> FinishStates] /\ todo \in [Txns -> Seq(Parts)]
  BY Types DEF Stepping
<1>3. finish'[x] # "done"
  BY <1>1, <1>2, <1>t DEF Phases
<1>4. \A y \in Txns : y # x => finish'[y] = finish[y] /\ todo'[y] = todo[y]
  BY <1>2, <1>t
<1>5. Others(x)
  BY <1>1, <1>4, OthersFacts, LogIsSame DEF Untouched
<1>6. SameLife(x)
  BY <1>1, LogIsSame DEF SameLife, IsCommitted, Running
<1>7. csn[x] # UnknownCSN
  BY <1>1 DEF Stepping, Base, UndecidedIsOpen, Phases, None
<1>8. client[x] # "idle" /\ Running(x)
  BY <1>1, <1>7 DEF Stepping, Base, TxnInv, Outcome, RunningIsUnfinished, Phases
<1> QED  BY <1>1, <1>3, <1>5, <1>6, <1>7, <1>8 DEF SameQuery, SameChanges

(* The part at the head of todo. *)
LEMMA TreatedFacts ==
  ASSUME Base, NEW x \in Txns, finish[x] \in Phases, todo[x] # <<>>, NEW p, p = Head(todo[x])
  PROVE  /\ p \in Parts /\ p \in Range(todo[x]) /\ Present(p)
         /\ finish[x] \in {"stamp_created", "mark", "outdate"} => p \in Range(creating[x])
         /\ finish[x] \in {"stamp_removed", "activate", "clear", "unlock"} => p \in Range(removing[x])
         /\ Range(todo[x]) \subseteq {p} \cup Range(Tail(todo[x])) /\ Range(Tail(todo[x])) \subseteq Range(todo[x])
<1>1. todo[x] \in Seq(Parts)
  BY Types
<1>2. /\ p \in Parts /\ p \in Range(todo[x])
      /\ Range(todo[x]) \subseteq {p} \cup Range(Tail(todo[x])) /\ Range(Tail(todo[x])) \subseteq Range(todo[x])
  BY <1>1, HeadAndTail, SequenceFacts
<1>3. /\ finish[x] \in {"stamp_created", "mark", "outdate"} => p \in Range(creating[x])
      /\ finish[x] \in {"stamp_removed", "activate", "clear", "unlock"} => p \in Range(removing[x])
  BY <1>2 DEF Base, TableInv, PartInv, RemovedIsLocked, TodoIsMine
<1>4. Present(p)
  BY <1>3, ChangedIsPresent DEF Base, TableInv, Phases
<1> QED  BY <1>2, <1>3, <1>4

NextPhaseIs(x, f, t) == finish'[x] = f /\ todo'[x] = t /\ AllKept
NextPartIs(x) == finish'[x] = finish[x] /\ todo'[x] = Tail(todo[x]) /\ todo[x] # <<>>

LEMMA StampCreatedDoes ==
  ASSUME Stepping, NEW x \in Txns, StampCreated(x), NEW p, p = Head(todo[x])
  PROVE  /\ finish[x] = "stamp_created" /\ state' = state
         /\ \/ todo[x] = <<>> /\ NextPhaseIs(x, "stamp_removed", removing[x]) /\ UNCHANGED <<version, file>>
            \/ /\ NextPartIs(x) /\ p \in Parts
               /\ \A q \in Parts : q # p => Kept(q) /\ version'[q] = version[q] /\ file'[q] = file[q]
               /\ StampsCreation(p, csn[x])
               /\ Kept(p) /\ IsCommitted(x)
<1>1. finish[x] = "stamp_created" /\ UNCHANGED <<state, on_disk, loaded>>
  BY DEF StampCreated, partVars
<1>s. \A q \in Parts : SameState(q)
  BY <1>1 DEF SameState
<1>t. /\ finish \in [Txns -> FinishStates] /\ todo \in [Txns -> Seq(Parts)]
      /\ version \in [Parts -> Metadata] /\ file \in [Parts -> Metadata] /\ csn \in [Txns -> Nat]
  BY Types DEF Stepping
<1>2. CASE todo[x] = <<>>
  <2>1. UNCHANGED <<version, file>> /\ finish'[x] = "stamp_removed" /\ todo'[x] = removing[x]
    BY <1>2, <1>t DEF StampCreated, NextPhase
  <2> QED  BY <1>1, <1>2, <1>s, <2>1, UnchangedIsKept DEF NextPhaseIs, AllKept
<1>3. CASE todo[x] # <<>>
  <2>p. p \in Parts
    BY <1>1, <1>3, TreatedFacts DEF Stepping, Phases
  <2>1. PICK v : v = [version[p] EXCEPT !.creation_csn = csn[x]]
    OBVIOUS
  <2>2. /\ version' = [version EXCEPT ![p] = v] /\ file' = [file EXCEPT ![p].creation_csn = v.creation_csn]
        /\ finish' = finish /\ todo' = [todo EXCEPT ![x] = Tail(todo[x])]
    BY <1>3, <2>1 DEF StampCreated, NextPart, AppendCreationCSN
  <2>3. v.creation_csn = csn[x]
    BY <1>t, <2>1, <2>p DEF Metadata
  <2>4. version'[p] = v /\ file'[p] = [file[p] EXCEPT !.creation_csn = csn[x]]
    BY <1>t, <2>2, <2>3, <2>p
  <2>9. StampsCreation(p, csn[x])
    BY <1>t, <2>1, <2>4, <2>p DEF StampsCreation, SameRemoval, Metadata
  <2>5. ASSUME NEW q \in Parts, q # p PROVE Kept(q) /\ version'[q] = version[q] /\ file'[q] = file[q]
    BY <1>s, <1>t, <2>2, <2>5, UnchangedIsKept
  <2>6. csn[x] # UnknownCSN
    BY TreatingKeeps DEF Treating
  <2>7. Kept(p)
    BY <1>s, <1>t, <2>1, <2>4, <2>6, <2>p DEF Kept, SameNames, KnownStays, Metadata
  <2>8. IsCommitted(x)
    <3>1. [csn |-> csn[x], tid |-> tid[x]] \in committed
      BY <1>1, <1>3 DEF Stepping, Base, TxnInv, Outcome, IsReadOnly
    <3> QED  BY <3>1 DEF IsCommitted
  <2> QED  BY <1>1, <1>3, <1>t, <2>2, <2>5, <2>7, <2>8, <2>9, <2>p DEF NextPartIs
<1> QED  BY <1>2, <1>3

LEMMA StampRemovedDoes ==
  ASSUME Stepping, NEW x \in Txns, StampRemoved(x), NEW p, p = Head(todo[x])
  PROVE  /\ finish[x] = "stamp_removed" /\ state' = state
         /\ \/ todo[x] = <<>> /\ NextPhaseIs(x, "release", <<>>) /\ UNCHANGED <<version, file>>
            \/ /\ NextPartIs(x) /\ p \in Parts
               /\ \A q \in Parts : q # p => Kept(q) /\ version'[q] = version[q] /\ file'[q] = file[q]
               /\ StampsRemoval(p, csn[x])
               /\ Kept(p) /\ IsCommitted(x)
<1>1. finish[x] = "stamp_removed" /\ UNCHANGED <<state, on_disk, loaded>>
  BY DEF StampRemoved, partVars
<1>s. \A q \in Parts : SameState(q)
  BY <1>1 DEF SameState
<1>t. /\ finish \in [Txns -> FinishStates] /\ todo \in [Txns -> Seq(Parts)]
      /\ version \in [Parts -> Metadata] /\ file \in [Parts -> Metadata] /\ csn \in [Txns -> Nat]
  BY Types DEF Stepping
<1>2. CASE todo[x] = <<>>
  <2>1. UNCHANGED <<version, file>> /\ finish'[x] = "release" /\ todo'[x] = <<>>
    BY <1>2, <1>t DEF StampRemoved, NextPhase
  <2> QED  BY <1>1, <1>2, <1>s, <2>1, UnchangedIsKept DEF NextPhaseIs, AllKept
<1>3. CASE todo[x] # <<>>
  <2>p. p \in Parts
    BY <1>1, <1>3, TreatedFacts DEF Stepping, Phases
  <2>1. PICK v : v = [version[p] EXCEPT !.removal_csn = csn[x]]
    OBVIOUS
  <2>2. /\ version' = [version EXCEPT ![p] = v] /\ file' = [file EXCEPT ![p].removal_csn = v.removal_csn]
        /\ finish' = finish /\ todo' = [todo EXCEPT ![x] = Tail(todo[x])]
    BY <1>3, <2>1 DEF StampRemoved, NextPart, AppendRemovalCSN
  <2>3. v.removal_csn = csn[x]
    BY <1>t, <2>1, <2>p DEF Metadata
  <2>4. version'[p] = v /\ file'[p] = [file[p] EXCEPT !.removal_csn = csn[x]]
    BY <1>t, <2>2, <2>3, <2>p
  <2>9. StampsRemoval(p, csn[x])
    BY <1>t, <2>1, <2>4, <2>p DEF StampsRemoval, SameCreation, Metadata
  <2>5. ASSUME NEW q \in Parts, q # p PROVE Kept(q) /\ version'[q] = version[q] /\ file'[q] = file[q]
    BY <1>s, <1>t, <2>2, <2>5, UnchangedIsKept
  <2>6. csn[x] # UnknownCSN
    BY TreatingKeeps DEF Treating
  <2>7. Kept(p)
    BY <1>s, <1>t, <2>1, <2>4, <2>6, <2>p DEF Kept, SameNames, KnownStays, Metadata
  <2>8. IsCommitted(x)
    <3>1. [csn |-> csn[x], tid |-> tid[x]] \in committed
      BY <1>1, <1>3 DEF Stepping, Base, TxnInv, Outcome, IsReadOnly
    <3> QED  BY <3>1 DEF IsCommitted
  <2> QED  BY <1>1, <1>3, <1>t, <2>2, <2>5, <2>7, <2>8, <2>9, <2>p DEF NextPartIs
<1> QED  BY <1>2, <1>3

LEMMA MarkRolledBackDoes ==
  ASSUME Stepping, NEW x \in Txns, MarkRolledBack(x), NEW p, p = Head(todo[x])
  PROVE  /\ finish[x] = "mark" /\ csn[x] = RolledBackCSN /\ state' = state
         /\ \/ todo[x] = <<>> /\ NextPhaseIs(x, "outdate", creating[x]) /\ UNCHANGED <<version, file>>
            \/ /\ NextPartIs(x) /\ p \in Parts
               /\ \A q \in Parts : q # p => Kept(q) /\ version'[q] = version[q] /\ file'[q] = file[q]
               /\ StampsCreation(p, RolledBackCSN)
               /\ Kept(p)
<1>1. finish[x] = "mark" /\ UNCHANGED <<state, on_disk, loaded>>
  BY DEF MarkRolledBack, partVars
<1>c. csn[x] = RolledBackCSN
  BY <1>1 DEF Stepping, Base, TxnInv, Outcome, Rollback
<1>s. \A q \in Parts : SameState(q)
  BY <1>1 DEF SameState
<1>t. /\ finish \in [Txns -> FinishStates] /\ todo \in [Txns -> Seq(Parts)]
      /\ version \in [Parts -> Metadata] /\ file \in [Parts -> Metadata] /\ csn \in [Txns -> Nat]
  BY Types DEF Stepping
<1>2. CASE todo[x] = <<>>
  <2>1. UNCHANGED <<version, file>> /\ finish'[x] = "outdate" /\ todo'[x] = creating[x]
    BY <1>2, <1>t DEF MarkRolledBack, NextPhase
  <2> QED  BY <1>1, <1>2, <1>c, <1>s, <2>1, UnchangedIsKept DEF NextPhaseIs, AllKept
<1>3. CASE todo[x] # <<>>
  <2>p. p \in Parts
    BY <1>1, <1>3, TreatedFacts DEF Stepping, Phases
  <2>1. PICK v : v = [version[p] EXCEPT !.creation_csn = RolledBackCSN]
    OBVIOUS
  <2>2. /\ version' = [version EXCEPT ![p] = v] /\ file' = [file EXCEPT ![p].creation_csn = v.creation_csn]
        /\ finish' = finish /\ todo' = [todo EXCEPT ![x] = Tail(todo[x])]
    BY <1>3, <2>1 DEF MarkRolledBack, NextPart, AppendCreationCSN
  <2>3. v.creation_csn = RolledBackCSN
    BY <1>t, <2>1, <2>p DEF Metadata
  <2>4. version'[p] = v /\ file'[p] = [file[p] EXCEPT !.creation_csn = RolledBackCSN]
    BY <1>t, <2>2, <2>3, <2>p
  <2>9. StampsCreation(p, RolledBackCSN)
    BY <1>t, <2>1, <2>4, <2>p DEF StampsCreation, SameRemoval, Metadata
  <2>5. ASSUME NEW q \in Parts, q # p PROVE Kept(q) /\ version'[q] = version[q] /\ file'[q] = file[q]
    BY <1>s, <1>t, <2>2, <2>5, UnchangedIsKept
  <2>6. RolledBackCSN # UnknownCSN
    BY CSNFacts
  <2>7. Kept(p)
    BY <1>s, <1>t, <2>1, <2>4, <2>6, <2>p DEF Kept, SameNames, KnownStays, Metadata
  <2> QED  BY <1>1, <1>3, <1>c, <1>t, <2>2, <2>5, <2>7, <2>9, <2>p DEF NextPartIs
<1> QED  BY <1>2, <1>3

LEMMA OutdateCreatedDoes ==
  ASSUME Stepping, NEW x \in Txns, OutdateCreated(x), NEW p, p = Head(todo[x])
  PROVE  /\ finish[x] = "outdate" /\ csn[x] = RolledBackCSN /\ UNCHANGED <<version, file>>
         /\ \/ todo[x] = <<>> /\ NextPhaseIs(x, "activate", removing[x]) /\ state' = state
            \/ /\ NextPartIs(x) /\ p \in Parts /\ parts_lock = None
               /\ \A q \in Parts : q # p => Kept(q)
               /\ state'[p] = "Outdated"
<1>1. finish[x] = "outdate" /\ UNCHANGED <<version, file, on_disk, loaded>>
  BY DEF OutdateCreated
<1>c. csn[x] = RolledBackCSN
  BY <1>1 DEF Stepping, Base, TxnInv, Outcome, Rollback
<1>t. /\ finish \in [Txns -> FinishStates] /\ todo \in [Txns -> Seq(Parts)]
      /\ state \in [Parts -> {None, "PreActive", "Active", "Outdated"}]
  BY Types DEF Stepping
<1>2. CASE todo[x] = <<>>
  <2>1. state' = state /\ finish'[x] = "activate" /\ todo'[x] = removing[x]
    BY <1>2, <1>t DEF OutdateCreated, NextPhase
  <2> QED  BY <1>1, <1>2, <1>c, <2>1, UnchangedIsKept DEF NextPhaseIs, AllKept, SameState
<1>3. CASE todo[x] # <<>>
  <2>p. p \in Parts
    BY <1>1, <1>3, TreatedFacts DEF Stepping, Phases
  <2>2. /\ state' = [state EXCEPT ![p] = "Outdated"] /\ parts_lock = None
        /\ finish' = finish /\ todo' = [todo EXCEPT ![x] = Tail(todo[x])]
    BY <1>3 DEF OutdateCreated, NextPart, Unlocked
  <2>5. ASSUME NEW q \in Parts, q # p PROVE Kept(q)
    BY <1>1, <1>t, <2>2, <2>5, UnchangedIsKept DEF SameState
  <2> QED  BY <1>1, <1>3, <1>c, <1>t, <2>2, <2>5, <2>p DEF NextPartIs
<1> QED  BY <1>2, <1>3

LEMMA RestoreRemovedDoes ==
  ASSUME Stepping, NEW x \in Txns, RestoreRemoved(x), NEW p, p = Head(todo[x])
  PROVE  /\ finish[x] = "activate" /\ csn[x] = RolledBackCSN /\ UNCHANGED <<version, file>>
         /\ \/ todo[x] = <<>> /\ NextPhaseIs(x, "clear", removing[x]) /\ state' = state
            \/ /\ NextPartIs(x) /\ p \in Parts
               /\ \A q \in Parts : q # p => Kept(q)
               /\ \/ version[p].creation_tid = tid[x] /\ AllKept /\ state' = state
                  \/ version[p].creation_tid # tid[x] /\ parts_lock = None /\ state'[p] = "Active"
<1>1. finish[x] = "activate" /\ UNCHANGED <<version, file, on_disk, loaded>>
  BY DEF RestoreRemoved
<1>c. csn[x] = RolledBackCSN
  BY <1>1 DEF Stepping, Base, TxnInv, Outcome, Rollback
<1>t. /\ finish \in [Txns -> FinishStates] /\ todo \in [Txns -> Seq(Parts)]
      /\ state \in [Parts -> {None, "PreActive", "Active", "Outdated"}]
  BY Types DEF Stepping
<1>u. state' = state => AllKept
  BY <1>1, UnchangedIsKept DEF AllKept, SameState
<1>2. CASE todo[x] = <<>>
  <2>1. state' = state /\ finish'[x] = "clear" /\ todo'[x] = removing[x]
    BY <1>2, <1>t DEF RestoreRemoved, NextPhase
  <2> QED  BY <1>1, <1>2, <1>c, <1>u, <2>1 DEF NextPhaseIs
<1>3. CASE todo[x] # <<>>
  <2>p. p \in Parts
    BY <1>1, <1>3, TreatedFacts DEF Stepping, Phases
  <2>2. /\ \/ version[p].creation_tid = tid[x] /\ state' = state
           \/ version[p].creation_tid # tid[x] /\ parts_lock = None /\ state' = [state EXCEPT ![p] = "Active"]
        /\ finish' = finish /\ todo' = [todo EXCEPT ![x] = Tail(todo[x])]
    BY <1>3 DEF RestoreRemoved, NextPart, Unlocked
  <2>5. ASSUME NEW q \in Parts, q # p PROVE Kept(q)
    BY <1>1, <1>t, <2>2, <2>5, UnchangedIsKept DEF SameState
  <2> QED  BY <1>1, <1>3, <1>c, <1>t, <1>u, <2>2, <2>5, <2>p DEF NextPartIs
<1> QED  BY <1>2, <1>3

LEMMA ClearRemovedDoes ==
  ASSUME Stepping, NEW x \in Txns, ClearRemoved(x), NEW p, p = Head(todo[x])
  PROVE  /\ finish[x] = "clear" /\ csn[x] = RolledBackCSN /\ UNCHANGED <<version, state>>
         /\ \/ todo[x] = <<>> /\ NextPhaseIs(x, "release", <<>>) /\ file' = file
            \/ /\ todo[x] # <<>> /\ finish'[x] = "unlock" /\ todo'[x] = todo[x] /\ p \in Parts
               /\ \A q \in Parts : q # p => Kept(q) /\ file'[q] = file[q]
               /\ ClearsLock(p)
<1>1. finish[x] = "clear" /\ UNCHANGED <<version, state, on_disk, loaded>>
  BY DEF ClearRemoved, partVars
<1>c. csn[x] = RolledBackCSN
  BY <1>1 DEF Stepping, Base, TxnInv, Outcome, Rollback
<1>t. /\ finish \in [Txns -> FinishStates] /\ todo \in [Txns -> Seq(Parts)] /\ file \in [Parts -> Metadata]
  BY Types DEF Stepping
<1>2. CASE todo[x] = <<>>
  <2>1. file' = file /\ finish'[x] = "release" /\ todo'[x] = <<>>
    BY <1>2, <1>t DEF ClearRemoved, NextPhase
  <2> QED  BY <1>1, <1>2, <1>c, <2>1, UnchangedIsKept DEF NextPhaseIs, AllKept, SameState
<1>3. CASE todo[x] # <<>>
  <2>p. p \in Parts
    BY <1>1, <1>3, TreatedFacts DEF Stepping, Phases
  <2>2. /\ file' = [file EXCEPT ![p].removal_tid = EmptyTID]
        /\ finish' = [finish EXCEPT ![x] = "unlock"] /\ todo' = [todo EXCEPT ![x] = todo[x]]
    BY <1>3 DEF ClearRemoved, NextPhase, ClearRemovalTID
  <2>5. ASSUME NEW q \in Parts, q # p PROVE Kept(q) /\ file'[q] = file[q]
    BY <1>1, <1>t, <2>2, <2>5, UnchangedIsKept DEF SameState
  <2>6. file'[p] = [file[p] EXCEPT !.removal_tid = EmptyTID] /\ finish'[x] = "unlock" /\ todo'[x] = todo[x]
    BY <1>t, <2>2, <2>p
  <2>7. ClearsLock(p)
    BY <1>t, <2>6, <2>p DEF ClearsLock, SameCreation, Metadata
  <2> QED  BY <1>1, <1>3, <1>c, <2>5, <2>6, <2>7, <2>p
<1> QED  BY <1>2, <1>3

LEMMA UnlockRemovedDoes ==
  ASSUME Stepping, NEW x \in Txns, UnlockRemoved(x), NEW p, p = Head(todo[x])
  PROVE  /\ finish[x] = "unlock" /\ csn[x] = RolledBackCSN /\ UNCHANGED <<file, state>>
         /\ todo[x] # <<>> /\ finish'[x] = "clear" /\ todo'[x] = Tail(todo[x]) /\ p \in Parts
         /\ \A q \in Parts : q # p => Kept(q) /\ version'[q] = version[q]
         /\ LocksFor(p, EmptyTID)
<1>1. finish[x] = "unlock" /\ UNCHANGED <<file, state, on_disk, loaded>> /\ todo[x] # <<>>
  BY DEF UnlockRemoved, partVars, Stepping, Base, TxnInv, AtHand
<1>c. csn[x] = RolledBackCSN
  BY <1>1 DEF Stepping, Base, TxnInv, Outcome, Rollback
<1>t. /\ finish \in [Txns -> FinishStates] /\ todo \in [Txns -> Seq(Parts)] /\ version \in [Parts -> Metadata]
  BY Types DEF Stepping
<1>p. p \in Parts
  BY <1>1, TreatedFacts DEF Stepping, Phases
<1>2. /\ version' = [version EXCEPT ![p].removal_tid = EmptyTID]
      /\ finish' = [finish EXCEPT ![x] = "clear"] /\ todo' = [todo EXCEPT ![x] = Tail(todo[x])]
  BY DEF UnlockRemoved, NextPhase
<1>5. ASSUME NEW q \in Parts, q # p PROVE Kept(q) /\ version'[q] = version[q]
  BY <1>1, <1>t, <1>2, <1>5, UnchangedIsKept DEF SameState
<1>6. version'[p] = [version[p] EXCEPT !.removal_tid = EmptyTID] /\ finish'[x] = "clear" /\ todo'[x] = Tail(todo[x])
  BY <1>2, <1>p, <1>t
<1>7. LocksFor(p, EmptyTID)
  BY <1>6, <1>p, <1>t DEF LocksFor, SameCreation, Metadata
<1> QED  BY <1>1, <1>c, <1>5, <1>6, <1>7, <1>p

-----------------------------------------------------------------------------
(* Every step is of one of these kinds. *)
Idles ==
  /\ (\A y \in Txns : Same(y)) /\ AllKept /\ parts_lock' = parts_lock /\ committed' = committed /\ tid' = tid
  /\ UNCHANGED <<file, state, on_disk, loaded>>

LEMMA StepCases ==
  ASSUME Stepping
  PROVE  \/ Idles \/ CrashServer
         \/ \E p \in Parts : GrabOldPart(p) \/ LoadPart(p)
         \/ \E x \in Txns : \/ \E p \in Parts : WritePart(x, p)
                            \/ AddNewPart(x) \/ Truncate(x) \/ LockedStep(x) \/ UndoPart(x) \/ Deciding(x) \/ Treating(x)
<1>1. CASE UpdaterStep \/ UpdaterRequestFails \/ StartServer \/ ServerStarted
           \/ \E x \in Txns : KillFails(x) \/ KillReturns(x) \/ EndUnknownState(x)
  BY <1>1, ServerDoes DEF Idles
<1>2. CASE \E x \in Txns : SelectStep(x) \/ \E p \in Parts : Select(x, p)
  BY <1>2, SelectDoes, LogIsSame DEF Idles
<1>3. Next
  BY DEF Stepping
<1> QED  BY <1>1, <1>2, <1>3 DEF Next, ClientStep, FinishStep, KillStep, UnknownStateStep, Deciding, Treating

(* What becomes of the changes of a transaction. *)
LEMMA ChangesGrow ==
  ASSUME Stepping, NEW x \in Txns
  PROVE  /\ \/ creating'[x] = creating[x]
            \/ /\ AddNewPart(x) /\ creating'[x] = Append(creating[x], new_part[x])
               /\ Range(creating'[x]) = Range(creating[x]) \cup {new_part[x]}
         /\ \/ removing'[x] = removing[x]
            \/ /\ RemoveOldPart(x) /\ removing'[x] = Append(removing[x], Head(covered[x]))
               /\ Range(removing'[x]) = Range(removing[x]) \cup {Head(covered[x])}
<1>t. creating[x] \in Seq(Parts) /\ removing[x] \in Seq(Parts)
  BY Types DEF Stepping
<1>1. CASE Idles
  BY <1>1 DEF Idles, Same, SameChanges
<1>2. CASE CrashServer
  BY <1>2, CrashDoes
<1>3. CASE \E p \in Parts : GrabOldPart(p) \/ LoadPart(p)
  BY <1>3, GrabOldPartDoes, LoadPartDoes DEF Same, SameChanges
<1>4. ASSUME NEW z \in Txns, NEW p \in Parts, WritePart(z, p) PROVE SameChanges(x)
  BY <1>4, WritePartDoes DEF Others, Same
<1>5. ASSUME NEW z \in Txns, AddNewPart(z)
      PROVE  /\ removing'[x] = removing[x]
             /\ creating'[x] = creating[x] \/ (z = x /\ creating'[x] = Append(creating[x], new_part[x]) /\ new_part[x] \in Parts)
  BY <1>5, AddNewPartDoes DEF Others, Same, SameChanges
<1>6. ASSUME NEW z \in Txns, Truncate(z) \/ SkipRolledBack(z) \/ TruncateEnds(z) \/ AppendRemoval(z) \/ ActivatePart(z) \/ UndoPart(z)
      PROVE  SameChanges(x)
  BY <1>6, TruncateDoes, SkipRolledBackDoes, TruncateEndsDoes, AppendRemovalDoes, ActivatePartDoes, UndoPartDoes DEF Others, Same
<1>7. ASSUME NEW z \in Txns, RemoveOldPart(z)
      PROVE  /\ creating'[x] = creating[x]
             /\ \/ removing'[x] = removing[x]
                \/ (z = x /\ removing'[x] = Append(removing[x], Head(covered[x])) /\ Head(covered[x]) \in Parts)
  BY <1>7, RemoveOldPartDoes DEF Others, Same, SameChanges
<1>8. ASSUME NEW z \in Txns, Deciding(z) \/ Treating(z) PROVE SameChanges(x)
  BY <1>8, DecidingKeeps, TreatingKeeps DEF Others, Same, SameChanges
<1>9. /\ \A p \in Parts : Range(Append(creating[x], p)) = Range(creating[x]) \cup {p}
      /\ \A p \in Parts : Range(Append(removing[x], p)) = Range(removing[x]) \cup {p}
  BY <1>t, SequenceFacts
<1> QED  BY <1>1, <1>2, <1>3, <1>4, <1>5, <1>6, <1>7, <1>8, <1>9, StepCases DEF LockedStep, SameChanges

LEMMA ChangesStay ==
  ASSUME Stepping, NEW x \in Txns, NEW p
  PROVE  /\ Creates(x, p) => Creates(x, p)'
         /\ Removes(x, p) => Removes(x, p)'
         /\ Creates(x, p)' => Creates(x, p) \/ (AddNewPart(x) /\ p = new_part[x])
         /\ Removes(x, p)' => Removes(x, p) \/ (RemoveOldPart(x) /\ p = Head(covered[x]))
BY ChangesGrow DEF Creates, Removes

(* A transaction that has failed stays so; so do one that has begun and    *)
(* one that is committed.                                                  *)
HasBegun(x) == client[x] # "idle"

LEMMA LifeGoesOn ==
  ASSUME Stepping, NEW x \in Txns
  PROVE  /\ Doomed(x) => Doomed(x)'
         /\ HasBegun(x) => HasBegun(x)' /\ tid'[x] = tid[x]
         /\ IsCommitted(x) => IsCommitted(x)'
         /\ HasBegun(x)' => HasBegun(x) \/ Begin(x)
         /\ Ended(x) => Ended(x)'
<1>1. Stays(x) /\ Grows
  BY NextStays, NextGrows DEF Stepping, Base
<1>o. Outcome(x) /\ Outcome(x)' /\ (client[x] = "idle" <=> tid[x] = EmptyTID)
  BY DEF Stepping, Base, TxnInv, RunningIsUnfinished
<1>2. IsCommitted(x) => IsCommitted(x)'
  <2> SUFFICES ASSUME IsCommitted(x) PROVE IsCommitted(x)'
    OBVIOUS
  <2>1. client[x] # "idle"
    BY <1>o, CSNFacts DEF Outcome
  <2> QED  BY <1>1, <2>1 DEF Stays, Grows, IsCommitted
<1>3. Doomed(x) => Doomed(x)'
  BY <1>1, <1>o, CSNFacts DEF Stays, Doomed, Outcome
<1>4. HasBegun(x)' => HasBegun(x) \/ Begin(x)
  <2>1. CASE \E z \in Txns : Deciding(z)
    <3>1. PICK z \in Txns : Deciding(z)
      BY <2>1
    <3>2. CASE z # x
      BY <3>1, <3>2, DecidingOthers DEF Others, Same, SameQuery, HasBegun
    <3>3. CASE z = x /\ ~Begin(x)
      <4>1. CASE ClientRollsBack(x) \/ Kill(x) \/ RollBackUnknownState(x)
        BY <4>1, RollbackStarts DEF HasBegun
      <4>2. CASE BeforeCommit(x) \/ Commit(x) \/ CommitLost(x) \/ Postpone(x) \/ CommitRefused(x) \/ DecideUnknownState(x) \/ AfterCommit(x)
        BY <4>2, BeforeCommitDoes, CommitDoes, PostponeDoes, CommitRefusedDoes, DecideDoes, AfterCommitDoes DEF HasBegun
      <4>3. CASE Release(x)
        BY <4>3, ReleaseDoes DEF HasBegun
      <4> QED  BY <3>1, <3>3, <4>1, <4>2, <4>3 DEF Deciding
    <3> QED  BY <3>2, <3>3
  <2>2. CASE \E z \in Txns : Treating(z)
    BY <2>2, TreatingKeeps DEF Others, Same, SameQuery, HasBegun
  <2>3. CASE Idles \/ \E p \in Parts : GrabOldPart(p) \/ LoadPart(p)
    <3>1. Same(x)
      BY <2>3, GrabOldPartDoes, LoadPartDoes DEF Idles
    <3> QED  BY <3>1 DEF Same, SameQuery, HasBegun
  <2>6. CASE CrashServer
    <3>1. \A y \in Txns : client[y] = "idle" => client'[y] = "idle"
      BY <2>6, CrashDoes, Zenon
    <3> QED  BY <3>1 DEF HasBegun
  <2>4. CASE \E z \in Txns : AddNewPart(z) \/ Truncate(z) \/ UndoPart(z) \/ \E p \in Parts : WritePart(z, p)
    BY <2>4, AddNewPartDoes, TruncateDoes, UndoPartDoes, WritePartDoes DEF Others, Same, SameQuery, HasBegun
  <2>5. CASE \E z \in Txns : LockedStep(z)
    BY <2>5, RemoveOldPartDoes, AppendRemovalDoes, SkipRolledBackDoes, TruncateEndsDoes, ActivatePartDoes
       DEF LockedStep, Others, Same, SameQuery, HasBegun
  <2> QED  BY <2>1, <2>2, <2>3, <2>4, <2>5, <2>6, StepCases
<1> QED  BY <1>1, <1>2, <1>3, <1>4 DEF Stays, HasBegun

(* A step that neither makes nor takes nor loads a part leaves it where it *)
(* is and created by whom it was.                                          *)
Steady(p) ==
  /\ state'[p] = None <=> state[p] = None
  /\ p \in on_disk' <=> p \in on_disk
  /\ p \in loaded' <=> p \in loaded
  /\ version'[p].creation_tid = version[p].creation_tid
  /\ version[p].creation_csn # UnknownCSN => version'[p].creation_csn # UnknownCSN
  /\ version[p].removal_csn # UnknownCSN => version'[p].removal_csn # UnknownCSN
  /\ \/ file'[p].creation_tid = file[p].creation_tid
     \/ version[p].creation_tid = PrehistoricTID /\ file'[p].creation_tid = PrehistoricTID /\ state[p] # None

LEMMA KeptIsSteady ==
  ASSUME NEW p, Kept(p)
  PROVE  Steady(p)
BY DEF Kept, SameState, SameNames, KnownStays, Steady

LEMMA PartIsSteady ==
  ASSUME Stepping, NEW p \in Parts
  PROVE  \/ Steady(p) \/ CrashServer \/ GrabOldPart(p) \/ LoadPart(p) \/ \E x \in Txns : WritePart(x, p)
<1>t. /\ version[p] \in Metadata /\ file[p] \in Metadata /\ version \in [Parts -> Metadata]
      /\ state \in [Parts -> {None, "PreActive", "Active", "Outdated"}]
  BY Types DEF Stepping
<1>f. \A v \in Metadata : DOMAIN v = {"creation_tid", "creation_csn", "removal_tid", "removal_csn"}
  BY DEF Metadata
<1>c. RolledBackCSN # UnknownCSN /\ PrehistoricCSN # UnknownCSN
  BY CSNFacts
<1>n. "PreActive" # None /\ "Active" # None /\ "Outdated" # None
  BY DEF None
<1>1. CASE Idles
  BY <1>1, KeptIsSteady DEF Idles, AllKept
<1>2. ASSUME NEW q \in Parts, GrabOldPart(q), q # p PROVE Steady(p)
  BY <1>2, GrabOldPartDoes, KeptIsSteady
<1>3. ASSUME NEW q \in Parts, LoadPart(q), q # p PROVE Steady(p)
  BY <1>3, LoadPartDoes, KeptIsSteady
<1>4. ASSUME NEW x \in Txns, NEW q \in Parts, WritePart(x, q), q # p PROVE Steady(p)
  BY <1>4, WritePartDoes, KeptIsSteady
<1>5. ASSUME NEW x \in Txns, AddNewPart(x) \/ Truncate(x) \/ TruncateEnds(x) \/ Deciding(x) PROVE Steady(p)
  BY <1>5, AddNewPartDoes, TruncateDoes, TruncateEndsDoes, DecidingKeeps, KeptIsSteady DEF AllKept
<1>6. ASSUME NEW x \in Txns, RemoveOldPart(x) PROVE Steady(p)
  <2>1. CASE p = Head(covered[x])
    <3>1. UNCHANGED <<file, state, on_disk, loaded>>
          /\ (version' = version \/ LocksFor(p, tid[x]))
      BY <1>6, <2>1, RemoveOldPartDoes
    <3> QED  BY <3>1 DEF Steady, LocksFor, SameCreation
  <2>2. CASE p # Head(covered[x])
    <3>1. Kept(p)
      BY <1>6, <2>2, RemoveOldPartDoes, ZenonT(30)
    <3> QED  BY <3>1, KeptIsSteady
  <2> QED  BY <2>1, <2>2
<1>7. ASSUME NEW x \in Txns, AppendRemoval(x) PROVE Steady(p)
  <2>1. CASE p = Head(covered[x])
    <3>1. /\ UNCHANGED <<on_disk, loaded>> /\ state'[p] \in {"Outdated", state[p]} /\ state[p] # None
          /\ AppendsLock(p)
      BY <1>7, <2>1, AppendRemovalDoes, WorkedOnIsPresent DEF Stepping, Base, TableInv, Present
    <3> QED  BY <1>c, <1>n, <3>1 DEF Steady, AppendsLock, SameCreation, SameRemoval
  <2>2. CASE p # Head(covered[x])
    <3>1. Kept(p)
      BY <1>7, <2>2, AppendRemovalDoes
    <3> QED  BY <3>1, KeptIsSteady
  <2> QED  BY <2>1, <2>2
<1>8. ASSUME NEW x \in Txns, SkipRolledBack(x) PROVE Steady(p)
  <2>1. CASE p = Head(covered[x])
    <3>1. UNCHANGED <<version, file, on_disk, loaded>> /\ state'[p] = "Outdated" /\ state[p] # None
      BY <1>8, <2>1, SkipRolledBackDoes, WorkedOnIsPresent DEF Stepping, Base, TableInv, Present
    <3> QED  BY <1>n, <3>1 DEF Steady
  <2>2. CASE p # Head(covered[x])
    BY <1>8, <2>2, SkipRolledBackDoes, KeptIsSteady
  <2> QED  BY <2>1, <2>2
<1>9. ASSUME NEW x \in Txns, ActivatePart(x) PROVE Steady(p)
  <2>1. UNCHANGED <<version, file, on_disk, loaded>>
    BY <1>9, ActivatePartDoes
  <2>2. state[new_part[x]] # None
    BY <1>9, ActivatePartDoes, WorkedOnIsPresent DEF Stepping, Base, TableInv, Present
  <2>3. CASE p = new_part[x]
    BY <1>9, <1>n, <2>1, <2>2, <2>3, ActivatePartDoes DEF Steady
  <2>4. CASE p # new_part[x] /\ (p \in Covers[new_part[x]] => state[p] # "Active")
    BY <1>9, <2>4, ActivatePartDoes, KeptIsSteady
  <2>5. CASE p # new_part[x] /\ p \in Covers[new_part[x]] /\ state[p] = "Active"
    <3>1. Kept(p) \/ state'[p] = "Outdated"
      BY <1>9, <2>5, ActivatePartDoes
    <3>2. CASE Kept(p)
      BY <3>2, KeptIsSteady
    <3> QED  BY <1>n, <2>1, <2>5, <3>1, <3>2 DEF Steady
  <2> QED  BY <2>3, <2>4, <2>5
<1>10. ASSUME NEW x \in Txns, UndoPart(x) PROVE Steady(p)
  <2>1. CASE p = new_part[x]
    <3>1. UNCHANGED <<file, on_disk, loaded>> /\ state'[p] = "Outdated" /\ state[p] # None
          /\ Undoes(p)
      BY <1>10, <2>1, UndoPartDoes, WorkedOnIsPresent DEF Stepping, Base, TableInv, Present
    <3> QED  BY <1>c, <1>n, <3>1 DEF Steady, Undoes, SameRemoval
  <2>2. CASE p # new_part[x]
    BY <1>10, <2>2, UndoPartDoes, KeptIsSteady
  <2> QED  BY <2>1, <2>2
<1>11. ASSUME NEW x \in Txns, Treating(x) PROVE Steady(p)
  <2>k. on_disk' = on_disk /\ loaded' = loaded
    BY <1>11, TreatingKeeps
  <2>1. CASE todo[x] = <<>>
    <3>1. Kept(p)
      BY <1>11, <2>1, StampCreatedDoes, StampRemovedDoes, MarkRolledBackDoes, OutdateCreatedDoes, RestoreRemovedDoes,
         ClearRemovedDoes, UnlockRemovedDoes DEF Treating, NextPhaseIs, NextPartIs, AllKept
    <3> QED  BY <3>1, KeptIsSteady
  <2>2. CASE todo[x] # <<>> /\ p # Head(todo[x])
    <3>0. Kept(p)
      <4>1. CASE StampCreated(x)
        BY <2>2, <4>1, StampCreatedDoes
      <4>2. CASE StampRemoved(x)
        BY <2>2, <4>2, StampRemovedDoes
      <4>3. CASE MarkRolledBack(x)
        BY <2>2, <4>3, MarkRolledBackDoes
      <4>4. CASE OutdateCreated(x)
        BY <2>2, <4>4, OutdateCreatedDoes
      <4>5. CASE RestoreRemoved(x)
        BY <2>2, <4>5, RestoreRemovedDoes
      <4>6. CASE ClearRemoved(x)
        BY <2>2, <4>6, ClearRemovedDoes
      <4>7. CASE UnlockRemoved(x)
        BY <2>2, <4>7, UnlockRemovedDoes
      <4> QED  BY <1>11, <4>1, <4>2, <4>3, <4>4, <4>5, <4>6, <4>7 DEF Treating
    <3> QED  BY <3>0, KeptIsSteady
  <2>3. CASE todo[x] # <<>> /\ p = Head(todo[x])
    <3>0. state[p] # None
      BY <1>11, <2>3, TreatingKeeps, TreatedFacts DEF Present, Stepping
    <3>1. CASE StampCreated(x) \/ StampRemoved(x) \/ MarkRolledBack(x)
      <4>1. Kept(p)
        BY <2>3, <3>1, StampCreatedDoes, StampRemovedDoes, MarkRolledBackDoes
      <4> QED  BY <4>1, KeptIsSteady
    <3>2. CASE OutdateCreated(x) \/ RestoreRemoved(x)
      <4>1. UNCHANGED <<version, file>> /\ state'[p] \in {state[p], "Active", "Outdated"}
        BY <2>3, <3>2, OutdateCreatedDoes, RestoreRemovedDoes
      <4> QED  BY <1>n, <2>k, <3>0, <4>1 DEF Steady
    <3>3. CASE ClearRemoved(x) \/ UnlockRemoved(x)
      <4>1. \/ UNCHANGED <<version, state>> /\ ClearsLock(p)
            \/ UNCHANGED <<file, state>> /\ LocksFor(p, EmptyTID)
        BY <2>3, <3>3, ClearRemovedDoes, UnlockRemovedDoes
      <4> QED  BY <2>k, <4>1 DEF Steady, ClearsLock, LocksFor, SameCreation
    <3> QED  BY <1>11, <3>1, <3>2, <3>3 DEF Treating
  <2> QED  BY <2>1, <2>2, <2>3
<1> QED  BY <1>1, <1>2, <1>3, <1>4, <1>5, <1>6, <1>7, <1>8, <1>9, <1>10, <1>11, StepCases DEF LockedStep

-----------------------------------------------------------------------------
(* A query between addNewPart() or the start of a TRUNCATE and its end     *)
(* holds the lock of the set of parts.                                     *)
Locking(x) == client[x] \in {"remove", "append"}
LockIsHeld ==
  /\ parts_lock \in Txns \cup {None}
  /\ \A x \in Txns : Locking(x) <=> parts_lock = x

LEMMA NextLockIsHeld ==
  ASSUME Stepping, LockIsHeld
  PROVE  LockIsHeld'
<1>n. \A x \in Txns : x # None
  BY TableAssumption
<1>u. ASSUME parts_lock' = parts_lock, \A y \in Txns : Locking(y)' <=> Locking(y)
      PROVE  LockIsHeld'
  BY <1>u DEF LockIsHeld
<1>o. ASSUME NEW x \in Txns, Others(x), NEW y \in Txns, y # x PROVE client'[y] = client[y]
  BY <1>o DEF Others, Same, SameQuery
<1>r. ASSUME NEW x \in Txns, Others(x), Locking(x), ~Locking(x)', parts_lock' = None
      PROVE  LockIsHeld'
  <2>1. ASSUME NEW y \in Txns PROVE Locking(y)' <=> parts_lock' = y
    <3>1. CASE y # x
      <4>1. client'[y] = client[y]
        BY <1>o, <1>r, <3>1
      <4> QED  BY <1>n, <1>r, <3>1, <4>1 DEF LockIsHeld, Locking
    <3> QED  BY <1>n, <1>r, <3>1
  <2> QED  BY <1>r, <2>1 DEF LockIsHeld
<1>a. ASSUME NEW x \in Txns, Others(x), parts_lock = None, Locking(x)', parts_lock' = x
      PROVE  LockIsHeld'
  <2>1. ASSUME NEW y \in Txns PROVE Locking(y)' <=> parts_lock' = y
    <3>1. CASE y # x
      <4>1. client'[y] = client[y]
        BY <1>o, <1>a, <3>1
      <4> QED  BY <1>n, <1>a, <3>1, <4>1 DEF LockIsHeld, Locking
    <3> QED  BY <1>n, <1>a, <3>1
  <2> QED  BY <1>a, <2>1 DEF LockIsHeld
<1>k. ASSUME NEW x \in Txns, Others(x), Locking(x)' <=> Locking(x), parts_lock' = parts_lock
      PROVE  LockIsHeld'
  <2>1. ASSUME NEW y \in Txns PROVE Locking(y)' <=> Locking(y)
    <3>1. CASE y # x
      <4>1. client'[y] = client[y]
        BY <1>o, <1>k, <3>1
      <4> QED  BY <4>1 DEF Locking
    <3> QED  BY <1>k, <3>1
  <2> QED  BY <1>k, <1>u, <2>1
<1>1. CASE Idles
  BY <1>1, <1>u DEF Idles, Same, SameQuery, Locking
<1>2. CASE CrashServer
  <2>1. \A y \in Txns : client'[y] \in {"idle", "end"}
    BY <1>2, CrashDoes
  <2>2. parts_lock' = None
    BY <1>2, CrashDoes
  <2> QED  BY <1>n, <2>1, <2>2 DEF LockIsHeld, Locking
<1>3. ASSUME NEW p \in Parts, GrabOldPart(p) \/ LoadPart(p) PROVE LockIsHeld'
  <2>1. parts_lock' = parts_lock /\ \A y \in Txns : Same(y)
    BY <1>3, GrabOldPartDoes, LoadPartDoes
  <2> QED  BY <1>u, <2>1 DEF Same, SameQuery, Locking
<1>4. ASSUME NEW x \in Txns, NEW p \in Parts, WritePart(x, p) PROVE LockIsHeld'
  <2>1. Others(x) /\ client[x] = "ready" /\ client'[x] = "written" /\ parts_lock' = parts_lock
    BY <1>4, WritePartDoes
  <2> QED  BY <1>k, <2>1 DEF Locking
<1>5. ASSUME NEW x \in Txns, AddNewPart(x) PROVE LockIsHeld'
  <2>1. /\ Others(x) /\ client[x] = "written" /\ parts_lock = None
        /\ (client'[x] = "undo" /\ parts_lock' = None) \/ (client'[x] = "remove" /\ parts_lock' = x)
    BY <1>5, AddNewPartDoes
  <2> QED  BY <1>a, <1>k, <2>1 DEF Locking
<1>6. ASSUME NEW x \in Txns, Truncate(x) PROVE LockIsHeld'
  <2>1. Others(x) /\ client'[x] = "remove" /\ parts_lock = None /\ parts_lock' = x
    BY <1>6, TruncateDoes
  <2> QED  BY <1>a, <2>1 DEF Locking
<1>7. ASSUME NEW x \in Txns, RemoveOldPart(x) PROVE LockIsHeld'
  <2>1. /\ Others(x) /\ client[x] = "remove"
        /\ \/ client'[x] \in {"exception", "undo"} /\ parts_lock' = None
           \/ client'[x] = "append" /\ parts_lock' = parts_lock
    BY <1>7, RemoveOldPartDoes
  <2> QED  BY <1>k, <1>r, <2>1 DEF Locking
<1>8. ASSUME NEW x \in Txns, AppendRemoval(x) \/ SkipRolledBack(x) PROVE LockIsHeld'
  <2>1. Others(x) /\ Locking(x) /\ Locking(x)' /\ parts_lock' = parts_lock
    BY <1>8, AppendRemovalDoes, SkipRolledBackDoes DEF Locking
  <2> QED  BY <1>k, <2>1
<1>9. ASSUME NEW x \in Txns, TruncateEnds(x) \/ ActivatePart(x) PROVE LockIsHeld'
  <2>1. Others(x) /\ client[x] = "remove" /\ client'[x] = "ready" /\ parts_lock' = None
    BY <1>9, TruncateEndsDoes, ActivatePartDoes
  <2> QED  BY <1>r, <2>1 DEF Locking
<1>10. ASSUME NEW x \in Txns, UndoPart(x) PROVE LockIsHeld'
  <2>1. Others(x) /\ client[x] = "undo" /\ client'[x] = "exception" /\ parts_lock' = parts_lock
    BY <1>10, UndoPartDoes
  <2> QED  BY <1>k, <2>1 DEF Locking
<1>11. ASSUME NEW x \in Txns, Treating(x) PROVE LockIsHeld'
  <2>1. Others(x) /\ client'[x] = client[x] /\ parts_lock' = parts_lock
    BY <1>11, TreatingKeeps DEF SameQuery
  <2> QED  BY <1>k, <2>1 DEF Locking
<1>12. ASSUME NEW x \in Txns, Deciding(x) PROVE LockIsHeld'
  <2>1. Others(x) /\ parts_lock' = parts_lock
    BY <1>12, DecidingOthers, DecidingKeeps
  <2>2. Locking(x)' <=> Locking(x)
    <3>1. CASE Begin(x) \/ BeforeCommit(x) \/ Commit(x) \/ CommitLost(x) \/ Postpone(x) \/ CommitRefused(x)
      BY <3>1, BeginDoes, BeforeCommitDoes, CommitDoes, PostponeDoes, CommitRefusedDoes DEF Locking, Goes
    <3>2. CASE ClientRollsBack(x) \/ Kill(x) \/ RollBackUnknownState(x)
      BY <3>2, RollbackStarts DEF Locking
    <3>3. CASE DecideUnknownState(x) \/ AfterCommit(x) \/ Release(x)
      BY <3>3, DecideDoes, AfterCommitDoes, ReleaseDoes DEF Locking
    <3> QED  BY <1>12, <3>1, <3>2, <3>3 DEF Deciding
  <2> QED  BY <1>k, <2>1, <2>2
<1> QED  BY <1>1, <1>2, <1>3, <1>4, <1>5, <1>6, <1>7, <1>8, <1>9, <1>10, <1>11, <1>12, StepCases DEF LockedStep

-----------------------------------------------------------------------------
(* A phase of the end of a transaction treats one part. *)
Treats(x, p) == todo[x] # <<>> /\ p = Head(todo[x])

LEMMA TreatsOne ==
  ASSUME Stepping, NEW x \in Txns, Treating(x), NEW p \in Parts, ~Treats(x, p)
  PROVE  Kept(p) /\ file'[p] = file[p]
<1>h. PICK h : h = Head(todo[x]) /\ (todo[x] = <<>> \/ p # h)
  BY DEF Treats
<1>k. AllKept => Kept(p)
  BY DEF AllKept
<1>1. CASE StampCreated(x)
  <2>1. (AllKept /\ file' = file) \/ (Kept(p) /\ (file'[p] = file[p] \/ file' = file))
    <3>1. \/ todo[x] = <<>> /\ NextPhaseIs(x, "stamp_removed", removing[x]) /\ UNCHANGED <<version, file>>
          \/ todo[x] # <<>> /\ \A q \in Parts : q # h => Kept(q) /\ version'[q] = version[q] /\ file'[q] = file[q]
      BY <1>h, <1>1, StampCreatedDoes DEF NextPartIs
    <3> QED  BY <1>h, <3>1 DEF NextPhaseIs
  <2> QED  BY <1>k, <2>1
<1>2. CASE StampRemoved(x)
  <2>1. (AllKept /\ file' = file) \/ (Kept(p) /\ (file'[p] = file[p] \/ file' = file))
    <3>1. \/ todo[x] = <<>> /\ NextPhaseIs(x, "release", <<>>) /\ UNCHANGED <<version, file>>
          \/ todo[x] # <<>> /\ \A q \in Parts : q # h => Kept(q) /\ version'[q] = version[q] /\ file'[q] = file[q]
      BY <1>h, <1>2, StampRemovedDoes DEF NextPartIs
    <3> QED  BY <1>h, <3>1 DEF NextPhaseIs
  <2> QED  BY <1>k, <2>1
<1>3. CASE MarkRolledBack(x)
  <2>1. (AllKept /\ file' = file) \/ (Kept(p) /\ (file'[p] = file[p] \/ file' = file))
    <3>1. \/ todo[x] = <<>> /\ NextPhaseIs(x, "outdate", creating[x]) /\ UNCHANGED <<version, file>>
          \/ todo[x] # <<>> /\ \A q \in Parts : q # h => Kept(q) /\ version'[q] = version[q] /\ file'[q] = file[q]
      BY <1>h, <1>3, MarkRolledBackDoes DEF NextPartIs
    <3> QED  BY <1>h, <3>1 DEF NextPhaseIs
  <2> QED  BY <1>k, <2>1
<1>4. CASE OutdateCreated(x)
  <2>1. (AllKept /\ file' = file) \/ (Kept(p) /\ (file'[p] = file[p] \/ file' = file))
    BY <1>h, <1>4, OutdateCreatedDoes DEF NextPhaseIs, NextPartIs
  <2> QED  BY <1>k, <2>1
<1>5. CASE RestoreRemoved(x)
  <2>1. (AllKept /\ file' = file) \/ (Kept(p) /\ (file'[p] = file[p] \/ file' = file))
    BY <1>h, <1>5, RestoreRemovedDoes DEF NextPhaseIs, NextPartIs
  <2> QED  BY <1>k, <2>1
<1>6. CASE ClearRemoved(x)
  <2>1. (AllKept /\ file' = file) \/ (Kept(p) /\ (file'[p] = file[p] \/ file' = file))
    <3>1. \/ todo[x] = <<>> /\ NextPhaseIs(x, "release", <<>>) /\ file' = file
          \/ todo[x] # <<>> /\ \A q \in Parts : q # h => Kept(q) /\ file'[q] = file[q]
      BY <1>h, <1>6, ClearRemovedDoes DEF NextPartIs
    <3> QED  BY <1>h, <3>1 DEF NextPhaseIs
  <2> QED  BY <1>k, <2>1
<1>7. CASE UnlockRemoved(x)
  <2>1. (AllKept /\ file' = file) \/ (Kept(p) /\ (file'[p] = file[p] \/ file' = file))
    BY <1>h, <1>7, UnlockRemovedDoes DEF NextPhaseIs, NextPartIs
  <2> QED  BY <1>k, <2>1
<1> QED  BY <1>1, <1>2, <1>3, <1>4, <1>5, <1>6, <1>7 DEF Treating

(* Which steps write the file of a part. *)
LEMMA FileChanges ==
  ASSUME Stepping, NEW p \in Parts
  PROVE  \/ file'[p] = file[p] \/ GrabOldPart(p) \/ LoadPart(p)
         \/ \E x \in Txns : \/ WritePart(x, p)
                            \/ AppendRemoval(x) /\ p = Head(covered[x])
                            \/ (StampCreated(x) \/ StampRemoved(x) \/ MarkRolledBack(x) \/ ClearRemoved(x)) /\ Treats(x, p)
<1>1. CASE Idles \/ CrashServer
  BY <1>1, CrashDoes DEF Idles
<1>2. ASSUME NEW q \in Parts, q # p, GrabOldPart(q) \/ LoadPart(q) \/ \E x \in Txns : WritePart(x, q)
      PROVE  file'[p] = file[p]
  BY <1>2, GrabOldPartDoes, LoadPartDoes, WritePartDoes
<1>3. ASSUME NEW x \in Txns, AddNewPart(x) \/ Truncate(x) \/ RemoveOldPart(x) \/ SkipRolledBack(x) \/ TruncateEnds(x)
             \/ ActivatePart(x) \/ UndoPart(x)
      PROVE  file' = file
  BY <1>3, AddNewPartDoes, TruncateDoes, RemoveOldPartDoes, SkipRolledBackDoes, TruncateEndsDoes, ActivatePartDoes, UndoPartDoes
<1>4. ASSUME NEW x \in Txns, AppendRemoval(x), p # Head(covered[x]) PROVE file'[p] = file[p]
  <2>1. PICK h : h = Head(covered[x])
    OBVIOUS
  <2>2. \A q \in Parts : q # h => Kept(q) /\ version'[q] = version[q] /\ file'[q] = file[q]
    BY <1>4, <2>1, AppendRemovalDoes
  <2> QED  BY <1>4, <2>1, <2>2
<1>5. ASSUME NEW x \in Txns, Deciding(x) PROVE file' = file
  BY <1>5, DecidingKeeps
<1>6. ASSUME NEW x \in Txns, OutdateCreated(x) \/ RestoreRemoved(x) \/ UnlockRemoved(x) PROVE file' = file
  BY <1>6, OutdateCreatedDoes, RestoreRemovedDoes, UnlockRemovedDoes
<1>7. ASSUME NEW x \in Txns, Treating(x), ~Treats(x, p) PROVE file'[p] = file[p]
  BY <1>7, TreatsOne
<1> QED  BY <1>1, <1>2, <1>3, <1>4, <1>5, <1>6, <1>7, StepCases DEF LockedStep, Treating

(* Which steps lock or unlock it for removal. *)
LEMMA LockChanges ==
  ASSUME Stepping, NEW p \in Parts
  PROVE  \/ version'[p].removal_tid = version[p].removal_tid \/ CrashServer \/ GrabOldPart(p) \/ LoadPart(p)
         \/ \E x \in Txns : \/ WritePart(x, p)
                            \/ RemoveOldPart(x) /\ p = Head(covered[x])
                            \/ UnlockRemoved(x) /\ Treats(x, p)
<1> DEFINE Q == version'[p].removal_tid = version[p].removal_tid
<1>k. Kept(p) => Q
  BY DEF Kept, SameNames
<1>1. CASE Idles
  BY <1>1, <1>k DEF Idles, AllKept
<1>2. ASSUME NEW q \in Parts, q # p, GrabOldPart(q) \/ LoadPart(q) \/ \E x \in Txns : WritePart(x, q) PROVE Q
  <2>1. Kept(p)
    BY <1>2, GrabOldPartDoes, LoadPartDoes, WritePartDoes
  <2> QED  BY <1>k, <2>1
<1>3. ASSUME NEW x \in Txns, AddNewPart(x) \/ Truncate(x) \/ SkipRolledBack(x) \/ TruncateEnds(x) \/ ActivatePart(x) \/ Deciding(x)
      PROVE  Q
  <2>1. Kept(p) \/ version' = version
    BY <1>3, AddNewPartDoes, TruncateDoes, SkipRolledBackDoes, TruncateEndsDoes, ActivatePartDoes, DecidingKeeps DEF AllKept
  <2> QED  BY <1>k, <2>1
<1>4. ASSUME NEW x \in Txns, AppendRemoval(x) PROVE Q
  <2>h. PICK h : h = Head(covered[x])
    OBVIOUS
  <2>1. (\A q \in Parts : q # h => Kept(q)) /\ AppendsLock(h)
    BY <1>4, <2>h, AppendRemovalDoes
  <2> QED  BY <1>k, <2>1 DEF AppendsLock, SameRemoval
<1>5. ASSUME NEW x \in Txns, UndoPart(x) PROVE Q
  <2>h. PICK h : h = new_part[x]
    OBVIOUS
  <2>1. (\A q \in Parts : q # h => Kept(q)) /\ Undoes(h)
    BY <1>5, <2>h, UndoPartDoes
  <2> QED  BY <1>k, <2>1 DEF Undoes, SameRemoval
<1>6. ASSUME NEW x \in Txns, RemoveOldPart(x), p # Head(covered[x]) PROVE Q
  <2>h. PICK h : h = Head(covered[x])
    OBVIOUS
  <2>1. \A q \in Parts : q # h => Kept(q) /\ version'[q] = version[q]
    BY <1>6, <2>h, RemoveOldPartDoes
  <2> QED  BY <1>6, <2>h, <2>1
<1>7. ASSUME NEW x \in Txns, Treating(x), ~UnlockRemoved(x) PROVE Q
  <2>1. CASE ~Treats(x, p)
    BY <1>7, <1>k, <2>1, TreatsOne
  <2>2. CASE StampCreated(x) /\ Treats(x, p)
    BY <1>k, <2>2, StampCreatedDoes DEF Treats
  <2>3. CASE StampRemoved(x) /\ Treats(x, p)
    BY <1>k, <2>3, StampRemovedDoes DEF Treats
  <2>4. CASE MarkRolledBack(x) /\ Treats(x, p)
    BY <1>k, <2>4, MarkRolledBackDoes DEF Treats
  <2>5. CASE OutdateCreated(x) \/ RestoreRemoved(x) \/ ClearRemoved(x)
    BY <2>5, OutdateCreatedDoes, RestoreRemovedDoes, ClearRemovedDoes
  <2> QED  BY <1>7, <2>1, <2>2, <2>3, <2>4, <2>5 DEF Treating
<1>8. ASSUME NEW x \in Txns, UnlockRemoved(x), ~Treats(x, p) PROVE Q
  BY <1>8, <1>k, TreatsOne DEF Treating
<1> QED  BY <1>1, <1>2, <1>3, <1>4, <1>5, <1>6, <1>7, <1>8, StepCases DEF LockedStep

(* Which steps change its state. *)
LEMMA StateChanges ==
  ASSUME Stepping, NEW p \in Parts
  PROVE  \/ state'[p] = state[p] \/ CrashServer \/ GrabOldPart(p) \/ LoadPart(p)
         \/ \E x \in Txns :
              \/ WritePart(x, p)
              \/ (AppendRemoval(x) \/ SkipRolledBack(x)) /\ Truncating(x) /\ p = Head(covered[x]) /\ state'[p] = "Outdated"
              \/ ActivatePart(x) /\ p = new_part[x]
              \/ ActivatePart(x) /\ p # new_part[x] /\ p \in Covers[new_part[x]] /\ state[p] = "Active" /\ state'[p] = "Outdated"
                 /\ ~IsCovered(new_part[x])
              \/ UndoPart(x) /\ p = new_part[x]
              \/ OutdateCreated(x) /\ Treats(x, p)
              \/ RestoreRemoved(x) /\ Treats(x, p) /\ version[p].creation_tid # tid[x] /\ parts_lock = None
<1> DEFINE Q == state'[p] = state[p]
<1>k. Kept(p) => Q
  BY DEF Kept, SameState
<1>1. CASE Idles
  BY <1>1, <1>k DEF Idles, AllKept
<1>2. ASSUME NEW q \in Parts, q # p, GrabOldPart(q) \/ LoadPart(q) \/ \E x \in Txns : WritePart(x, q) PROVE Q
  <2>1. Kept(p)
    BY <1>2, GrabOldPartDoes, LoadPartDoes, WritePartDoes
  <2> QED  BY <1>k, <2>1
<1>3. ASSUME NEW x \in Txns, AddNewPart(x) \/ Truncate(x) \/ RemoveOldPart(x) \/ TruncateEnds(x) \/ Deciding(x)
      PROVE  Q
  BY <1>3, AddNewPartDoes, TruncateDoes, RemoveOldPartDoes, TruncateEndsDoes, DecidingKeeps
<1>4. ASSUME NEW x \in Txns, AppendRemoval(x)
      PROVE  Q \/ (Truncating(x) /\ p = Head(covered[x]) /\ state'[p] = "Outdated")
  <2>1. CASE p = Head(covered[x])
    BY <1>4, <2>1, AppendRemovalDoes
  <2>2. CASE p # Head(covered[x])
    BY <1>4, <1>k, <2>2, AppendRemovalDoes
  <2> QED  BY <2>1, <2>2
<1>5. ASSUME NEW x \in Txns, SkipRolledBack(x)
      PROVE  Q \/ (Truncating(x) /\ p = Head(covered[x]) /\ state'[p] = "Outdated")
  <2>1. CASE p = Head(covered[x])
    BY <1>5, <2>1, SkipRolledBackDoes
  <2>2. CASE p # Head(covered[x])
    <3>1. Kept(p)
      BY <1>5, <2>2, SkipRolledBackDoes
    <3> QED  BY <1>k, <3>1
  <2> QED  BY <2>1, <2>2
<1>6. ASSUME NEW x \in Txns, ActivatePart(x), p # new_part[x]
      PROVE  Q \/ (p \in Covers[new_part[x]] /\ state[p] = "Active" /\ state'[p] = "Outdated" /\ ~IsCovered(new_part[x]))
  <2>1. CASE p \in Covers[new_part[x]] => state[p] # "Active"
    <3>1. Kept(p)
      BY <1>6, <2>1, ActivatePartDoes
    <3> QED  BY <1>k, <3>1
  <2>2. CASE p \in Covers[new_part[x]] /\ state[p] = "Active"
    <3>1. Kept(p) \/ (state'[p] = "Outdated" /\ ~IsCovered(new_part[x]))
      BY <1>6, <2>2, ActivatePartDoes
    <3> QED  BY <1>k, <2>2, <3>1
  <2> QED  BY <2>1, <2>2
<1>7. ASSUME NEW x \in Txns, UndoPart(x), p # new_part[x] PROVE Q
  <2>1. Kept(p)
    BY <1>7, UndoPartDoes
  <2> QED  BY <1>k, <2>1
<1>8. ASSUME NEW x \in Txns, Treating(x), ~Treats(x, p) PROVE Q
  BY <1>8, <1>k, TreatsOne
<1>9. ASSUME NEW x \in Txns, StampCreated(x) \/ StampRemoved(x) \/ MarkRolledBack(x) \/ ClearRemoved(x) \/ UnlockRemoved(x)
      PROVE  Q
  BY <1>9, StampCreatedDoes, StampRemovedDoes, MarkRolledBackDoes, ClearRemovedDoes, UnlockRemovedDoes
<1>10. ASSUME NEW x \in Txns, RestoreRemoved(x), Treats(x, p)
       PROVE  Q \/ (version[p].creation_tid # tid[x] /\ parts_lock = None)
  BY <1>10, RestoreRemovedDoes DEF Treats
<1> QED  BY <1>1, <1>2, <1>3, <1>4, <1>5, <1>6, <1>7, <1>8, <1>9, <1>10, StepCases DEF LockedStep, Treating

-----------------------------------------------------------------------------
(* A transaction that has begun has a TID of its own. *)
LEMMA BegunFacts ==
  ASSUME Base, NEW x \in Txns, HasBegun(x)
  PROVE  /\ tid[x] # EmptyTID /\ tid[x] # PrehistoricTID /\ tid[x] \in TIDs /\ tid[x] \in NamedTIDs
         /\ \A y \in Txns : tid[y] = tid[x] => y = x
<1>1. tid[x] # EmptyTID /\ tid[x] # PrehistoricTID
  BY DEF Base, TxnInv, RunningIsUnfinished, HasBegun, TableInv, TIDsAreOwn
<1>2. \A y \in Txns : tid[y] = tid[x] => y = x
  BY <1>1 DEF Base, IInv, TIDsAreUnique
<1>3. tid[x] \in TIDs
  BY Types
<1>4. tid[x] \in NamedTIDs
  BY DEF NamedTIDs, HasBegun
<1> QED  BY <1>1, <1>2, <1>3, <1>4

(* A committed transaction has begun, and its query is over. *)
LEMMA CommittedFacts ==
  ASSUME Base, NEW x \in Txns, IsCommitted(x)
  PROVE  /\ HasBegun(x) /\ client[x] \in {"commit", "lost", "end"} /\ ~Doomed(x) /\ ~Writing(x) /\ ~Locking(x)
         /\ csn[x] \notin {UnknownCSN, RolledBackCSN} /\ finish[x] \notin Rollback
<1>1. Outcome(x) /\ csn[x] \notin {UnknownCSN, RolledBackCSN}
  BY DEF Base, TxnInv, Outcome
<1>2. client[x] \in {"commit", "lost", "end"}
  BY <1>1 DEF Outcome
<1>3. finish[x] \notin Rollback
  BY <1>1 DEF Outcome
<1> QED  BY <1>1, <1>2, <1>3 DEF HasBegun, Doomed, Writing, Locking

(* What is made of the file of a part when it is loaded. *)
LEMMA FixedIs ==
  ASSUME NEW v \in Metadata, NEW c, c = StoredOrFound(v.creation_tid, v.creation_csn),
         NEW r, r = StoredOrFound(v.removal_tid, v.removal_csn)
  PROVE  /\ Fixed(v).creation_tid = v.creation_tid
         /\ Fixed(v).creation_csn = IF c = UnknownCSN THEN RolledBackCSN ELSE c
         /\ Fixed(v).removal_csn = r
         /\ Fixed(v).removal_tid = IF r = UnknownCSN THEN EmptyTID ELSE v.removal_tid
<1>1. PICK d : d = IF c = UnknownCSN THEN RolledBackCSN ELSE c
  OBVIOUS
<1>2. Fixed(v) = [v EXCEPT !.creation_csn = d, !.removal_csn = r,
                           !.removal_tid = IF r = UnknownCSN THEN EmptyTID ELSE v.removal_tid]
  BY <1>1 DEF Fixed
<1>3. PICK t : t = IF r = UnknownCSN THEN EmptyTID ELSE v.removal_tid
  OBVIOUS
<1>4. Fixed(v) = [v EXCEPT !.creation_csn = d, !.removal_csn = r, !.removal_tid = t]
  BY <1>2, <1>3
<1>5. Fixed(v).creation_tid = v.creation_tid /\ Fixed(v).creation_csn = d
  BY <1>4 DEF Metadata
<1>6. Fixed(v).removal_csn = r /\ Fixed(v).removal_tid = t
  BY <1>4 DEF Metadata
<1> QED  BY <1>1, <1>3, <1>5, <1>6

LEMMA PreparedIs ==
  ASSUME NEW v \in Metadata
  PROVE  /\ SameCreation(v, PreparedForRemoval(v)) /\ PreparedForRemoval(v).removal_csn = v.removal_csn
         /\ \/ v.removal_tid # EmptyTID /\ PreparedForRemoval(v).removal_tid = v.removal_tid
            \/ v.removal_tid = EmptyTID /\ PreparedForRemoval(v).removal_tid = PrehistoricTID
<1>1. CASE v.removal_tid = EmptyTID
  <2>1. PICK t : t = PrehistoricTID
    OBVIOUS
  <2>2. PreparedForRemoval(v) = [v EXCEPT !.removal_tid = t]
    BY <1>1, <2>1 DEF PreparedForRemoval
  <2>3. PreparedForRemoval(v).removal_tid = t /\ PreparedForRemoval(v).removal_csn = v.removal_csn
    BY <2>2 DEF Metadata
  <2>4. SameCreation(v, PreparedForRemoval(v))
    BY <2>2 DEF Metadata, SameCreation
  <2> QED  BY <1>1, <2>1, <2>3, <2>4
<1>2. CASE v.removal_tid # EmptyTID
  BY <1>2 DEF PreparedForRemoval, SameCreation
<1> QED  BY <1>1, <1>2

(* What loading a part gives. *)
LEMMA FileFacts ==
  ASSUME Base, alive, NEW p \in on_disk, p \notin loaded
  PROVE  /\ FileOf(p) \in Metadata /\ FileOf(p).creation_tid \in OldTIDs /\ FileOf(p).removal_tid \in OldTIDs
         /\ TrueMetadata(FileOf(p)) /\ NamesAreKnown(FileOf(p))
         /\ \/ file[p] = NoMetadata /\ FileOf(p) = PrehistoricMetadata /\ FixedFileOf(p) = PrehistoricMetadata
               /\ ~WasInvolvedInTransaction(FileOf(p))
            \/ file[p] # NoMetadata /\ FileOf(p) = file[p]
<1>1. p \in Parts /\ file[p] \in Metadata
  BY Types
<1>2. CASE file[p] = NoMetadata
  <2>1. FileOf(p) = PrehistoricMetadata
    BY <1>2 DEF FileOf
  <2>2. ~WasInvolvedInTransaction(PrehistoricMetadata)
    BY PrehistoricFacts DEF WasInvolvedInTransaction
  <2>3. FixedFileOf(p) = PrehistoricMetadata
    BY <2>1, <2>2 DEF FixedFileOf
  <2>4. EmptyTID \in OldTIDs /\ PrehistoricTID \in OldTIDs
    BY DEF OldTIDs
  <2> QED  BY <1>2, <2>1, <2>2, <2>3, <2>4, PrehistoricFacts
<1>3. CASE file[p] # NoMetadata
  <2>1. FileOf(p) = file[p]
    BY <1>3 DEF FileOf
  <2>2. file[p].creation_tid \in OldTIDs /\ file[p].removal_tid \in OldTIDs
    BY DEF Base, TableInv, PartInv, UnloadedIsOld
  <2>3. TrueMetadata(file[p]) /\ NamesAreKnown(file[p])
    BY <1>1 DEF Base, TableInv, PartInv, MetadataIsTrue
  <2> QED  BY <1>1, <1>3, <2>1, <2>2, <2>3
<1> QED  BY <1>2, <1>3

LEMMA FixedFileIs ==
  ASSUME Base, alive, NEW p \in on_disk, p \notin loaded
  PROVE  /\ FixedFileOf(p) \in Metadata /\ FixedFileOf(p).creation_tid = FileOf(p).creation_tid
         /\ \/ ~WasInvolvedInTransaction(FileOf(p)) /\ FixedFileOf(p) = FileOf(p)
            \/ /\ WasInvolvedInTransaction(FileOf(p)) /\ FixedFileOf(p).creation_csn # UnknownCSN
               /\ FixedFileOf(p).creation_csn \in {RolledBackCSN, StoredOrFound(FileOf(p).creation_tid, FileOf(p).creation_csn)}
               /\ FixedFileOf(p).creation_csn # RolledBackCSN \/ FileOf(p).creation_csn = RolledBackCSN
                  \/ StoredOrFound(FileOf(p).creation_tid, FileOf(p).creation_csn) = UnknownCSN
               /\ FixedFileOf(p).removal_csn = StoredOrFound(FileOf(p).removal_tid, FileOf(p).removal_csn)
               /\ \/ FixedFileOf(p).removal_csn = UnknownCSN /\ FixedFileOf(p).removal_tid = EmptyTID
                  \/ FixedFileOf(p).removal_csn # UnknownCSN /\ FixedFileOf(p).removal_tid = FileOf(p).removal_tid
<1>1. PICK v : v = FileOf(p)
  OBVIOUS
<1>2. v \in Metadata
  BY <1>1, FileFacts
<1>3. CASE ~WasInvolvedInTransaction(v)
  <2>1. FixedFileOf(p) = v
    BY <1>1, <1>3 DEF FixedFileOf
  <2> QED  BY <1>1, <1>2, <1>3, <2>1
<1>4. CASE WasInvolvedInTransaction(v)
  <2>1. FixedFileOf(p) = Fixed(v)
    BY <1>1, <1>4 DEF FixedFileOf
  <2>2. PICK c, r : c = StoredOrFound(v.creation_tid, v.creation_csn) /\ r = StoredOrFound(v.removal_tid, v.removal_csn)
    OBVIOUS
  <2>3. /\ Fixed(v).creation_tid = v.creation_tid
        /\ Fixed(v).creation_csn = IF c = UnknownCSN THEN RolledBackCSN ELSE c
        /\ Fixed(v).removal_csn = r
        /\ Fixed(v).removal_tid = IF r = UnknownCSN THEN EmptyTID ELSE v.removal_tid
    BY <1>2, <2>2, FixedIs
  <2>4. v.creation_csn \in CSNs /\ v.removal_csn \in CSNs /\ v.creation_tid \in TIDs /\ v.removal_tid \in TIDs
        /\ RolledBackCSN \in CSNs /\ EmptyTID \in TIDs
    BY <1>2, MetadataFacts
  <2>5. c \in CSNs /\ r \in CSNs
    BY <2>2, <2>4, StoredOrFoundFacts DEF Base
  <2>6. Fixed(v) \in Metadata
    <3>1. PICK d, t : d = (IF c = UnknownCSN THEN RolledBackCSN ELSE c) /\ t = (IF r = UnknownCSN THEN EmptyTID ELSE v.removal_tid)
      OBVIOUS
    <3>2. d \in CSNs /\ t \in TIDs
      BY <2>4, <2>5, <3>1
    <3>3. Fixed(v) = [v EXCEPT !.creation_csn = d, !.removal_csn = r, !.removal_tid = t]
      BY <2>2, <3>1 DEF Fixed
    <3> QED  BY <1>2, <2>5, <3>2, <3>3 DEF Metadata
  <2>7. RolledBackCSN # UnknownCSN
    BY CSNFacts
  <2>8. c = RolledBackCSN => v.creation_csn = RolledBackCSN
    <3>1. alive => GetCSN(v.creation_tid) # RolledBackCSN
      BY GetCSNFacts DEF Base
    <3> QED  BY <2>2, <3>1 DEF StoredOrFound
  <2> QED  BY <1>1, <1>4, <2>1, <2>2, <2>3, <2>6, <2>7, <2>8
<1> QED  BY <1>3, <1>4

LEMMA LoadedFacts ==
  ASSUME Stepping, NEW p \in Parts, LoadPart(p), p \in loaded'
  PROVE  /\ SameCreation(FixedFileOf(p), version'[p]) /\ version'[p].removal_csn = FixedFileOf(p).removal_csn
         /\ \/ version'[p].removal_tid = FixedFileOf(p).removal_tid
            \/ LoadsOutdated(p) /\ FixedFileOf(p).removal_tid = EmptyTID /\ version'[p].removal_tid = PrehistoricTID
         /\ \/ file[p] = NoMetadata /\ file'[p] = NoMetadata
            \/ file[p] # NoMetadata /\ file'[p] = FixedFileOf(p)
         /\ state'[p] = IF LoadsOutdated(p) THEN "Outdated" ELSE "Active"
         /\ ~LoadThrows(FileOf(p)) /\ ~(LoadsOutdated(p) /\ PrepareThrows(FixedFileOf(p)))
<1>1. p \in on_disk /\ p \notin loaded /\ alive /\ Base
  BY LoadPartDoes DEF Stepping
<1>2. /\ version'[p] = IF LoadsOutdated(p) THEN PreparedForRemoval(FixedFileOf(p)) ELSE FixedFileOf(p)
      /\ file'[p] = IF FixedFileOf(p) = FileOf(p) THEN file[p] ELSE FixedFileOf(p)
      /\ state'[p] = IF LoadsOutdated(p) THEN "Outdated" ELSE "Active"
      /\ ~LoadThrows(FileOf(p)) /\ ~(LoadsOutdated(p) /\ PrepareThrows(FixedFileOf(p)))
  BY <1>1, LoadPartDoes
<1>3. FixedFileOf(p) \in Metadata
  BY <1>1, FixedFileIs
<1>4. PICK w : w = FixedFileOf(p)
  OBVIOUS
<1>5. \/ file[p] = NoMetadata /\ file'[p] = NoMetadata
      \/ file[p] # NoMetadata /\ file'[p] = FixedFileOf(p)
  <2>1. \/ file[p] = NoMetadata /\ FileOf(p) = PrehistoricMetadata /\ FixedFileOf(p) = PrehistoricMetadata
        \/ file[p] # NoMetadata /\ FileOf(p) = file[p]
    BY <1>1, FileFacts
  <2> QED  BY <1>2, <2>1
<1>6. CASE LoadsOutdated(p)
  <2>1. version'[p] = PreparedForRemoval(w) /\ w \in Metadata
    BY <1>2, <1>3, <1>4, <1>6
  <2>2. /\ SameCreation(w, PreparedForRemoval(w)) /\ PreparedForRemoval(w).removal_csn = w.removal_csn
        /\ \/ w.removal_tid # EmptyTID /\ PreparedForRemoval(w).removal_tid = w.removal_tid
           \/ w.removal_tid = EmptyTID /\ PreparedForRemoval(w).removal_tid = PrehistoricTID
    BY <2>1, PreparedIs
  <2> QED  BY <1>2, <1>4, <1>5, <1>6, <2>1, <2>2
<1>7. CASE ~LoadsOutdated(p)
  BY <1>2, <1>5, <1>7 DEF SameCreation
<1> QED  BY <1>6, <1>7

-----------------------------------------------------------------------------
(* Who may have made a part, and whom the part and its file name. *)
Maker(p, t) ==
  \/ p \in Initial /\ t = PrehistoricTID
  \/ \E x \in Txns : p \in Writes[x] /\ HasBegun(x) /\ t = tid[x]
MakerIsNamed(p) ==
  /\ state[p] # None => Maker(p, version[p].creation_tid)
  /\ p \in on_disk => Maker(p, file[p].creation_tid) \/ (p \in Initial /\ file[p] = NoMetadata)

LEMMA MakerStays ==
  ASSUME Stepping, NEW p \in Parts, NEW t, Maker(p, t)
  PROVE  Maker(p, t)'
<1>1. ASSUME NEW x \in Txns, p \in Writes[x] /\ HasBegun(x) /\ t = tid[x] PROVE Maker(p, t)'
  <2>1. HasBegun(x)' /\ tid'[x] = tid[x]
    BY <1>1, LifeGoesOn
  <2> QED  BY <1>1, <2>1 DEF Maker
<1> QED  BY <1>1 DEF Maker

LEMMA InitialIsPrehistoric ==
  ASSUME NEW p \in Initial, NEW t, Maker(p, t)
  PROVE  t = PrehistoricTID
BY TableAssumption DEF Maker

LEMMA MakerHasTID ==
  ASSUME Base, NEW p, NEW t, Maker(p, t)
  PROVE  t # EmptyTID
BY BegunFacts, MetadataFacts DEF Maker

LEMMA NextMakerIsNamed ==
  ASSUME Stepping, NEW p \in Parts, MakerIsNamed(p)
  PROVE  MakerIsNamed(p)'
<1>0. Base /\ Base' /\ PartInv /\ TxnInv
  BY DEF Stepping, Base, TableInv
<1>1. CASE CrashServer
  <2>1. state'[p] = None /\ on_disk' = on_disk /\ file' = file
    BY <1>1, CrashDoes
  <2>2. PICK t : t = file[p].creation_tid
    OBVIOUS
  <2>3. Maker(p, t) => Maker(p, t)'
    BY MakerStays
  <2> QED  BY <2>1, <2>2, <2>3 DEF MakerIsNamed, Maker
<1>2. ASSUME NEW x \in Txns, WritePart(x, p) PROVE MakerIsNamed(p)'
  <2>1. /\ version'[p] = MetadataOf(tid[x]) /\ file'[p] = MetadataOf(tid[x]) /\ p \in Writes[x] /\ client[x] = "ready"
        /\ client'[x] = "written"
    BY <1>2, WritePartDoes
  <2>2. HasBegun(x) /\ HasBegun(x)' /\ tid'[x] = tid[x]
    BY <2>1, LifeGoesOn DEF HasBegun
  <2>3. version'[p].creation_tid = tid[x] /\ file'[p].creation_tid = tid[x]
    BY <1>0, <2>1, <2>2, BegunFacts, MetadataOfFacts
  <2>4. Maker(p, version[p].creation_tid)' /\ Maker(p, file[p].creation_tid)'
    BY <2>1, <2>2, <2>3 DEF Maker
  <2> QED  BY <2>4 DEF MakerIsNamed
<1>3. CASE Steady(p)
  <2>1. state'[p] # None => Maker(p, version[p].creation_tid)'
    <3>1. state'[p] # None => Maker(p, version[p].creation_tid) /\ version'[p].creation_tid = version[p].creation_tid
      BY <1>3 DEF Steady, MakerIsNamed
    <3>2. PICK t : t = version[p].creation_tid
      OBVIOUS
    <3>3. Maker(p, t) => Maker(p, t)'
      BY MakerStays
    <3> QED  BY <3>1, <3>2, <3>3 DEF Maker
  <2>2. CASE p \notin on_disk
    BY <1>3, <2>1, <2>2 DEF Steady, MakerIsNamed
  <2>3. CASE p \in on_disk /\ Maker(p, file[p].creation_tid)
    <3>1. PICK t : t = file[p].creation_tid
      OBVIOUS
    <3>2. Maker(p, t)'
      BY <2>3, <3>1, MakerStays
    <3>3. CASE file'[p].creation_tid = file[p].creation_tid
      BY <2>1, <3>1, <3>2, <3>3 DEF MakerIsNamed, Maker
    <3>4. CASE version[p].creation_tid = PrehistoricTID /\ file'[p].creation_tid = PrehistoricTID /\ state[p] # None
      <4>1. Maker(p, PrehistoricTID)
        BY <3>4 DEF MakerIsNamed
      <4>2. PICK u : u = PrehistoricTID
        OBVIOUS
      <4>3. Maker(p, u)'
        BY <4>1, <4>2, MakerStays
      <4>4. file'[p].creation_tid = u
        BY <3>4, <4>2
      <4> QED  BY <2>1, <4>3, <4>4 DEF MakerIsNamed, Maker
    <3> QED  BY <1>3, <3>3, <3>4 DEF Steady
  <2>4. CASE p \in on_disk /\ p \in Initial /\ file[p] = NoMetadata
    <3>i. ASSUME NEW x \in Txns PROVE p \notin Writes[x]
      BY <2>4, TableAssumption
    <3>n. ASSUME NEW x \in Txns, Running(x) PROVE p \notin Range(creating[x])
      BY <1>0, <3>i, <3>n DEF PartInv, CreatedIsNamed, CreatedBy
    <3>s. ASSUME file'[p] = NoMetadata \/ file'[p].creation_tid = PrehistoricTID PROVE MakerIsNamed(p)'
      <4>1. Maker(p, PrehistoricTID)'
        BY <2>4 DEF Maker
      <4>2. PICK u : u = PrehistoricTID
        OBVIOUS
      <4>3. file'[p].creation_tid = u => Maker(p, file[p].creation_tid)'
        BY <2>4, <4>2 DEF Maker
      <4> QED  BY <2>1, <2>4, <3>s, <4>2, <4>3 DEF MakerIsNamed
    <3>1. CASE file'[p] = file[p]
      BY <2>4, <3>1, <3>s
    <3>2. CASE GrabOldPart(p)
      <4>1. file'[p] = file[p] \/ file'[p] = NoMetadata
        BY <3>2, GrabOldPartDoes
      <4> QED  BY <2>4, <3>s, <4>1
    <3>3. CASE LoadPart(p)
      <4>1. p \in loaded' \/ file' = file
        BY <3>3, LoadPartDoes
      <4>2. file'[p] = file[p] \/ file'[p] = NoMetadata
        BY <2>4, <3>3, <4>1, LoadedFacts
      <4> QED  BY <2>4, <3>s, <4>2
    <3>4. ASSUME NEW x \in Txns, WritePart(x, p) PROVE FALSE
      BY <3>4, <3>i DEF WritePart
    <3>5. ASSUME NEW x \in Txns, AppendRemoval(x), p = Head(covered[x]) PROVE MakerIsNamed(p)'
      <4>1. AppendsLock(p) /\ client[x] = "append" /\ p \in Range(covered[x])
        BY <3>5, AppendRemovalDoes
      <4>2. state[p] # None
        BY <1>0, <4>1, WorkedOnIsPresent DEF Present
      <4>3. version[p].creation_tid = PrehistoricTID
        BY <2>4, <4>2, InitialIsPrehistoric DEF MakerIsNamed
      <4> QED  BY <3>s, <4>1, <4>3 DEF AppendsLock
    <3>6. ASSUME NEW x \in Txns, StampCreated(x) \/ MarkRolledBack(x), Treats(x, p) PROVE FALSE
      <4>1. finish[x] \in {"stamp_created", "mark"} /\ Running(x)
        BY <3>6, TreatingKeeps, StampCreatedDoes, MarkRolledBackDoes DEF Treating
      <4>2. p \in Range(creating[x])
        BY <1>0, <3>6, <4>1, TreatedFacts DEF Treats, Phases
      <4> QED  BY <3>n, <4>1, <4>2
    <3>7. ASSUME NEW x \in Txns, StampRemoved(x), Treats(x, p) PROVE FALSE
      <4>1. finish[x] = "stamp_removed"
        BY <3>7, StampRemovedDoes
      <4>2. p \in Range(removing[x])
        BY <1>0, <3>7, <4>1, TreatedFacts DEF Treats, Phases
      <4>3. p \in Range(Holding(x)) /\ csn[x] # RolledBackCSN /\ client[x] # "append"
        <5>1. client[x] = "end" /\ (todo[x] = <<>> \/ [csn |-> csn[x], tid |-> tid[x]] \in committed)
          BY <1>0, <4>1 DEF TxnInv, Outcome
        <5>2. [csn |-> csn[x], tid |-> tid[x]] \in committed
          BY <3>7, <5>1 DEF Treats
        <5>3. IsCommitted(x)
          BY <5>2 DEF IsCommitted
        <5> QED  BY <1>0, <4>1, <4>2, <5>1, <5>3, CommittedFacts DEF Holding
      <4>4. file[p].removal_tid = tid[x] /\ tid[x] # EmptyTID
        BY <1>0, <4>3, HeldIsPresent DEF PartInv, FileIsLocked, Appending
      <4> QED  BY <2>4, <4>4, NoMetadataFacts
    <3>8. ASSUME NEW x \in Txns, ClearRemoved(x), Treats(x, p) PROVE MakerIsNamed(p)'
      <4>1. ClearsLock(p) \/ file' = file
        BY <3>8, ClearRemovedDoes DEF Treats
      <4>2. CASE ClearsLock(p)
        <5>1. /\ file'[p].creation_tid = NoMetadata.creation_tid /\ file'[p].creation_csn = NoMetadata.creation_csn
              /\ file'[p].removal_tid = NoMetadata.removal_tid /\ file'[p].removal_csn = NoMetadata.removal_csn
          BY <2>4, <4>2, NoMetadataFacts DEF ClearsLock, SameCreation
        <5>2. file'[p] \in Metadata /\ NoMetadata \in Metadata
          BY <1>0, NoMetadataFacts DEF Base, TableInv, PartInv, PartTypes
        <5>3. file'[p] = NoMetadata
          BY <5>1, <5>2 DEF Metadata
        <5> QED  BY <3>s, <5>3
      <4> QED  BY <2>4, <3>s, <4>1, <4>2
    <3> QED  BY <3>1, <3>2, <3>3, <3>4, <3>5, <3>6, <3>7, <3>8, FileChanges
  <2> QED  BY <2>2, <2>3, <2>4 DEF MakerIsNamed
<1>4. CASE GrabOldPart(p)
  <2>1. Steady(p) \/ (state'[p] = None /\ p \notin on_disk')
    <3>1. AllKept \/ (state'[p] = None /\ on_disk' = on_disk \ {p})
      BY <1>4, GrabOldPartDoes
    <3> QED  BY <3>1, KeptIsSteady DEF AllKept
  <2> QED  BY <1>3, <2>1 DEF MakerIsNamed
<1>5. CASE LoadPart(p)
  <2>0. p \in on_disk /\ p \notin loaded /\ alive /\ on_disk' = on_disk
    BY <1>5, LoadPartDoes
  <2>1. CASE p \notin loaded'
    <3>1. Kept(p)
      BY <1>5, <2>1, LoadPartDoes DEF AllKept
    <3> QED  BY <1>3, <3>1, KeptIsSteady
  <2>2. CASE p \in loaded'
    <3>1. version'[p].creation_tid = FileOf(p).creation_tid
      BY <1>0, <1>5, <2>0, <2>2, LoadedFacts, FixedFileIs DEF SameCreation
    <3>i. file[p] = NoMetadata => p \in Initial
      <4>1. ASSUME file[p] = NoMetadata, Maker(p, file[p].creation_tid) PROVE FALSE
        BY <1>0, <4>1, MakerHasTID, NoMetadataFacts
      <4> QED  BY <2>0, <4>1 DEF MakerIsNamed
    <3>2. Maker(p, FileOf(p).creation_tid)
      <4>1. CASE file[p] = NoMetadata
        <5>1. FileOf(p).creation_tid = PrehistoricTID
          BY <4>1, PrehistoricFacts DEF FileOf
        <5> QED  BY <3>i, <4>1, <5>1 DEF Maker
      <4>2. CASE file[p] # NoMetadata
        BY <2>0, <4>2 DEF MakerIsNamed, FileOf
      <4> QED  BY <4>1, <4>2
    <3>3. PICK t : t = FileOf(p).creation_tid
      OBVIOUS
    <3>4. Maker(p, t)'
      BY <3>2, <3>3, MakerStays
    <3>5. (p \in Initial /\ file'[p] = NoMetadata) \/ file'[p].creation_tid = t
      BY <1>0, <1>5, <2>0, <2>2, <3>i, <3>3, LoadedFacts, FixedFileIs
    <3> QED  BY <2>0, <3>1, <3>3, <3>4, <3>5 DEF MakerIsNamed, Maker
  <2> QED  BY <2>1, <2>2
<1> QED  BY <1>1, <1>2, <1>3, <1>4, <1>5, PartIsSteady

-----------------------------------------------------------------------------
(* Which steps change the query of a transaction, and which its end. *)
AtQueries == {"written", "remove", "append", "undo"}
NoQuery(x) ==
  /\ Deciding(x) /\ client[x] \notin AtQueries /\ client'[x] \notin AtQueries
  /\ new_part'[x] = new_part[x] /\ covered'[x] = covered[x] /\ merging'[x] = merging[x]

LEMMA QueryChanges ==
  ASSUME Stepping, NEW x \in Txns
  PROVE  \/ SameQuery(x) \/ CrashServer \/ \E p \in Parts : WritePart(x, p)
         \/ AddNewPart(x) \/ Truncate(x) \/ LockedStep(x) \/ UndoPart(x) \/ NoQuery(x)
<1>1. CASE Idles
  BY <1>1 DEF Idles, Same
<1>2. ASSUME NEW p \in Parts, GrabOldPart(p) \/ LoadPart(p) PROVE SameQuery(x)
  BY <1>2, GrabOldPartDoes, LoadPartDoes DEF Same
<1>3. ASSUME NEW y \in Txns, y # x, \/ (\E p \in Parts : WritePart(y, p)) \/ AddNewPart(y) \/ Truncate(y) \/ UndoPart(y)
                                    \/ Deciding(y) \/ Treating(y)
      PROVE  SameQuery(x)
  BY <1>3, WritePartDoes, AddNewPartDoes, TruncateDoes, UndoPartDoes, DecidingOthers, TreatingKeeps DEF Others, Same
<1>4. ASSUME NEW y \in Txns, y # x, LockedStep(y) PROVE SameQuery(x)
  BY <1>4, RemoveOldPartDoes, AppendRemovalDoes, SkipRolledBackDoes, TruncateEndsDoes, ActivatePartDoes
     DEF Others, Same, LockedStep
<1>5. CASE Deciding(x)
  <2>1. new_part'[x] = new_part[x] /\ covered'[x] = covered[x] /\ merging'[x] = merging[x]
    BY <1>5, DecidingKeeps
  <2>2. client'[x] = client[x] \/ (client[x] \notin AtQueries /\ client'[x] \notin AtQueries)
    <3>1. CASE Begin(x) \/ ClientRollsBack(x) \/ Kill(x) \/ RollBackUnknownState(x)
      BY <3>1, BeginDoes, RollbackStarts DEF AtQueries
    <3>2. CASE BeforeCommit(x) \/ Commit(x) \/ CommitLost(x)
      BY <3>2, BeforeCommitDoes, CommitDoes DEF AtQueries, Goes
    <3>3. CASE Postpone(x) \/ CommitRefused(x)
      BY <3>3, PostponeDoes, CommitRefusedDoes DEF AtQueries, Goes
    <3>4. CASE DecideUnknownState(x) \/ AfterCommit(x) \/ Release(x)
      BY <3>4, DecideDoes, AfterCommitDoes, ReleaseDoes
    <3> QED  BY <1>5, <3>1, <3>2, <3>3, <3>4 DEF Deciding
  <2> QED  BY <1>5, <2>1, <2>2 DEF SameQuery, NoQuery
<1>6. CASE Treating(x)
  BY <1>6, TreatingKeeps
<1> QED  BY <1>1, <1>2, <1>3, <1>4, <1>5, <1>6, StepCases

LEMMA EndChanges ==
  ASSUME Stepping, NEW x \in Txns
  PROVE  SameEnd(x) \/ CrashServer \/ Deciding(x) \/ Treating(x)
<1>1. CASE Idles
  BY <1>1 DEF Idles, Same
<1>2. ASSUME NEW p \in Parts, GrabOldPart(p) \/ LoadPart(p) PROVE SameEnd(x)
  BY <1>2, GrabOldPartDoes, LoadPartDoes DEF Same
<1>3. ASSUME NEW y \in Txns, \/ (\E p \in Parts : WritePart(y, p)) \/ AddNewPart(y) \/ Truncate(y) \/ UndoPart(y)
      PROVE  SameEnd(x)
  BY <1>3, WritePartDoes, AddNewPartDoes, TruncateDoes, UndoPartDoes DEF Others, Same
<1>4. ASSUME NEW y \in Txns, LockedStep(y) PROVE SameEnd(x)
  BY <1>4, RemoveOldPartDoes, AppendRemovalDoes, SkipRolledBackDoes, TruncateEndsDoes, ActivatePartDoes
     DEF Others, Same, LockedStep
<1>5. ASSUME NEW y \in Txns, y # x, Deciding(y) \/ Treating(y) PROVE SameEnd(x)
  BY <1>5, DecidingOthers, TreatingKeeps DEF Others, Same
<1> QED  BY <1>1, <1>2, <1>3, <1>4, <1>5, StepCases

(* The parts that a transaction has written, created and adds. *)
Made(x, p) ==
  \/ state[p] # None /\ version[p].creation_tid = tid[x]
  \/ p \in on_disk /\ file[p].creation_tid = tid[x]
Adding(x) == Locking(x) /\ ~Truncating(x)
AddedIsCreated(x) == Adding(x) => Creates(x, new_part[x])
CreatedIsWritten(x, p) == Creates(x, p) => p \in Writes[x]
OwnIsCreated(x, p) ==
  HasBegun(x) /\ Made(x, p) => Creates(x, p) \/ (Writing(x) /\ p = new_part[x]) \/ Doomed(x)

LEMMA AddingStarts ==
  ASSUME Stepping, NEW x \in Txns, Adding(x)'
  PROVE  /\ new_part'[x] = new_part[x]
         /\ Adding(x) \/ (AddNewPart(x) /\ csn[x] = UnknownCSN)
<1> USE DEF Adding, Locking, Truncating
<1>0. client'[x] \in {"remove", "append"} /\ new_part'[x] # None
  OBVIOUS
<1>1. CASE SameQuery(x)
  BY <1>1 DEF SameQuery
<1>2. CASE CrashServer
  BY <1>0, <1>2, CrashDoes
<1>3. ASSUME NEW p \in Parts, WritePart(x, p) PROVE FALSE
  BY <1>0, <1>3, WritePartDoes
<1>4. CASE AddNewPart(x)
  BY <1>0, <1>4, AddNewPartDoes
<1>5. CASE Truncate(x) \/ UndoPart(x)
  BY <1>0, <1>5, TruncateDoes, UndoPartDoes
<1>6. CASE LockedStep(x)
  <2>1. new_part'[x] = new_part[x] /\ client[x] \in {"remove", "append"}
    BY <1>6, RemoveOldPartDoes, AppendRemovalDoes, SkipRolledBackDoes, TruncateEndsDoes, ActivatePartDoes DEF LockedStep
  <2> QED  BY <1>0, <2>1
<1>7. CASE NoQuery(x)
  BY <1>0, <1>7 DEF NoQuery, AtQueries
<1> QED  BY <1>1, <1>2, <1>3, <1>4, <1>5, <1>6, <1>7, QueryChanges

LEMMA NextAddedIsCreated ==
  ASSUME Stepping, NEW x \in Txns, AddedIsCreated(x)
  PROVE  AddedIsCreated(x)'
<1> SUFFICES ASSUME Adding(x)' PROVE Creates(x, new_part[x])'
  BY DEF AddedIsCreated
<1>1. PICK p : p = new_part[x] /\ new_part'[x] = p
  BY AddingStarts
<1>2. CASE Adding(x)
  BY <1>1, <1>2, ChangesStay DEF AddedIsCreated, Creates
<1>3. CASE AddNewPart(x) /\ csn[x] = UnknownCSN
  <2>1. creating'[x] = Append(creating[x], p)
    BY <1>1, <1>3, AddNewPartDoes
  <2>2. creating[x] \in Seq(Parts) /\ p \in Parts
    BY <1>1, <1>3, Types, AddNewPartDoes DEF Stepping
  <2>3. p \in Range(creating'[x])
    BY <2>1, <2>2, SequenceFacts
  <2> QED  BY <1>1, <2>3 DEF Creates
<1> QED  BY <1>2, <1>3, AddingStarts

LEMMA NextCreatedIsWritten ==
  ASSUME Stepping, NEW x \in Txns, NEW p \in Parts, CreatedIsWritten(x, p)
  PROVE  CreatedIsWritten(x, p)'
<1>1. ASSUME AddNewPart(x), p = new_part[x] PROVE p \in Writes[x]
  <2>1. Writing(x)
    BY <1>1 DEF AddNewPart, Writing
  <2> QED  BY <1>1, <2>1 DEF Stepping, Base, TableInv, PartInv, CreatedIsNamed, CreatedBy
<1> QED  BY <1>1, ChangesStay DEF CreatedIsWritten

(* The part that a query writes ends up created, or its transaction fails. *)
LEMMA WritingEnds ==
  ASSUME Stepping, NEW x \in Txns, AddedIsCreated(x), Writing(x), NEW p, p = new_part[x]
  PROVE  (Writing(x)' /\ new_part'[x] = p) \/ Creates(x, p)' \/ Doomed(x)'
<1> USE DEF Writing, Truncating
<1>0. client[x] \in AtQueries
  BY DEF AtQueries
<1>c. ~IsCommitted(x)
  BY <1>0, CommittedFacts DEF AtQueries, Stepping
<1>1. CASE SameQuery(x)
  BY <1>1 DEF SameQuery
<1>2. CASE CrashServer
  <2>1. client'[x] = "end" /\ ~IsCommitted(x)'
    BY <1>0, <1>2, <1>c, CrashDoes DEF AtQueries
  <2> QED  BY <2>1 DEF Doomed
<1>3. ASSUME NEW q \in Parts, WritePart(x, q) PROVE FALSE
  BY <1>0, <1>3, WritePartDoes DEF AtQueries
<1>4. CASE AddNewPart(x)
  <2>1. client'[x] \in {"undo", "remove"} /\ new_part'[x] = new_part[x] /\ new_part[x] \in Parts
    BY <1>4, AddNewPartDoes
  <2>2. None \notin Parts
    BY TableAssumption
  <2> QED  BY <2>1, <2>2
<1>5. CASE Truncate(x)
  BY <1>0, <1>5, TruncateDoes DEF AtQueries
<1>6. CASE UndoPart(x)
  <2>1. client'[x] = "exception" /\ ~IsCommitted(x)'
    BY <1>6, <1>c, UndoPartDoes DEF SameLife
  <2> QED  BY <2>1 DEF Doomed
<1>7. CASE RemoveOldPart(x) \/ AppendRemoval(x) \/ SkipRolledBack(x)
  <2>1. /\ new_part'[x] = new_part[x] /\ client[x] \in {"remove", "append"}
        /\ client'[x] \in {"remove", "append"} \/ client'[x] = IF Truncating(x) THEN "exception" ELSE "undo"
    BY <1>7, RemoveOldPartDoes, AppendRemovalDoes, SkipRolledBackDoes
  <2> QED  BY <2>1
<1>8. CASE TruncateEnds(x)
  BY <1>8, TruncateEndsDoes
<1>9. CASE ActivatePart(x)
  <2>1. client[x] = "remove"
    BY <1>9, ActivatePartDoes
  <2>2. Adding(x)
    BY <2>1 DEF Adding, Locking
  <2> QED  BY <2>2, ChangesStay DEF AddedIsCreated
<1>10. CASE NoQuery(x)
  BY <1>0, <1>10 DEF NoQuery
<1> QED  BY <1>1, <1>2, <1>3, <1>4, <1>5, <1>6, <1>7, <1>8, <1>9, <1>10, QueryChanges DEF LockedStep

LEMMA NextOwnIsCreated ==
  ASSUME Stepping, NEW x \in Txns, NEW p \in Parts, AddedIsCreated(x), OwnIsCreated(x, p)
  PROVE  OwnIsCreated(x, p)'
<1> SUFFICES ASSUME HasBegun(x)', Made(x, p)'
             PROVE  Creates(x, p)' \/ (Writing(x) /\ p = new_part[x])' \/ Doomed(x)'
  BY DEF OwnIsCreated
<1>b. Base /\ Base' /\ PartInv
  BY DEF Stepping, Base, TableInv
<1>t. tid'[x] # EmptyTID /\ tid'[x] # PrehistoricTID
  BY <1>b, BegunFacts DEF Base, TxnInv, RunningIsUnfinished, HasBegun, TableInv, TIDsAreOwn
<1>s. ASSUME HasBegun(x), Made(x, p) PROVE Creates(x, p)' \/ (Writing(x) /\ p = new_part[x])' \/ Doomed(x)'
  <2>1. CASE Creates(x, p) \/ Doomed(x)
    BY <2>1, ChangesStay, LifeGoesOn
  <2>2. CASE Writing(x) /\ p = new_part[x]
    <3>1. (Writing(x)' /\ new_part'[x] = p) \/ Creates(x, p)' \/ Doomed(x)'
      BY <2>2, WritingEnds
    <3> QED  BY <3>1
  <2> QED  BY <1>s, <2>1, <2>2 DEF OwnIsCreated
<1>n. version[p].creation_tid \in NamedTIDs /\ file[p].creation_tid \in NamedTIDs
  BY <1>b DEF PartInv, MetadataIsTrue, NamesAreKnown
<1>1. ASSUME NEW y \in Txns, WritePart(y, p) PROVE Creates(x, p)' \/ (Writing(x) /\ p = new_part[x])' \/ Doomed(x)'
  <2>1. /\ version'[p] = MetadataOf(tid[y]) /\ file'[p] = MetadataOf(tid[y]) /\ client[y] = "ready" /\ client'[y] = "written"
        /\ new_part'[y] = p
    BY <1>1, WritePartDoes
  <2>2. HasBegun(y) /\ HasBegun(y)' /\ tid'[y] = tid[y]
    BY <2>1, LifeGoesOn DEF HasBegun
  <2>3. version'[p].creation_tid = tid[y] /\ file'[p].creation_tid = tid[y]
    BY <1>b, <2>1, <2>2, BegunFacts, MetadataOfFacts
  <2>4. tid'[x] = tid'[y]
    BY <2>2, <2>3 DEF Made
  <2>5. x = y
    BY <1>b, <1>t, <2>4 DEF Base, IInv, TIDsAreUnique
  <2> QED  BY <2>1, <2>5 DEF Writing
<1>2. ASSUME ~(\E y \in Txns : WritePart(y, p)) PROVE Made(x, p) \/ tid'[x] # tid[x]
  <2>1. CASE CrashServer
    BY <2>1, CrashDoes DEF Made
  <2>2. CASE Steady(p)
    BY <1>t, <2>2 DEF Steady, Made
  <2>3. CASE GrabOldPart(p)
    <3>1. Steady(p) \/ (state'[p] = None /\ p \notin on_disk')
      <4>1. AllKept \/ (state'[p] = None /\ on_disk' = on_disk \ {p})
        BY <2>3, GrabOldPartDoes
      <4> QED  BY <4>1, KeptIsSteady DEF AllKept
    <3> QED  BY <2>2, <3>1 DEF Made
  <2>4. CASE LoadPart(p)
    <3>1. CASE p \notin loaded'
      BY <2>2, <2>4, <3>1, KeptIsSteady, LoadPartDoes DEF AllKept
    <3>2. CASE p \in loaded'
      <4>1. p \in on_disk /\ p \notin loaded /\ alive
        BY <2>4, LoadPartDoes
      <4>2. version'[p].creation_tid = FileOf(p).creation_tid
        BY <1>b, <2>4, <3>2, <4>1, LoadedFacts, FixedFileIs DEF SameCreation
      <4>3. file'[p] = NoMetadata \/ file'[p].creation_tid = FileOf(p).creation_tid
        BY <1>b, <2>4, <3>2, <4>1, LoadedFacts, FixedFileIs
      <4>4. FileOf(p).creation_tid = PrehistoricTID \/ FileOf(p) = file[p]
        BY PrehistoricFacts DEF FileOf
      <4>5. FileOf(p).creation_tid = tid'[x]
        BY <1>t, <4>2, <4>3, NoMetadataFacts DEF Made
      <4> QED  BY <1>t, <4>1, <4>4, <4>5 DEF Made
    <3> QED  BY <3>1, <3>2
  <2> QED  BY <1>2, <2>1, <2>2, <2>3, <2>4, PartIsSteady
<1>3. CASE HasBegun(x)
  BY <1>1, <1>2, <1>3, <1>s, LifeGoesOn
<1>4. CASE ~HasBegun(x)
  <2>1. Begin(x)
    BY <1>4, LifeGoesOn
  <2>2. tid'[x] \notin NamedTIDs
    BY <2>1, BeginDoes
  <2>3. UNCHANGED <<version, file, state, on_disk>>
    BY <2>1, DecidingKeeps DEF Deciding
  <2> QED  BY <1>n, <2>2, <2>3 DEF Made
<1> QED  BY <1>3, <1>4

=============================================================================
