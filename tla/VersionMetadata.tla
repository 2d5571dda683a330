-------------------------- MODULE VersionMetadata --------------------------
(***************************************************************************)
(* Interpreters/TransactionVersionMetadata: the record of a data part that *)
(* says which transaction created it and which one removes or removed it,  *)
(* with their CSNs once they are known.  A part has one in memory and one  *)
(* in its file txn_version.txt.                                            *)
(*                                                                         *)
(* removal_tid stands for removal_tid_lock too, the atomic with the hash   *)
(* of the TID: EmptyTID is an unlocked part.                               *)
(*                                                                         *)
(* isVisible() is given twice.  IsVisible is the whole call in one step.   *)
(* Read... are the steps of one call made by a reader: three relaxed       *)
(* loads, in any order, then the lookups, each in a step of its own, while *)
(* other threads commit, roll back, move the tail and store CSNs.          *)
(***************************************************************************)
EXTENDS TransactionLog

CONSTANTS Parts,       \* names of data parts
          Readers      \* transactions that run SELECTs

VARIABLES
  version,   \* version[p]: VersionMetadata of the part in memory
  file,      \* file[p]: what the file of p parses to, NoMetadata if none
  read       \* read[x]: the call of isVisible() that x is in

CSNs == 0 .. MaxCSN \cup {RolledBackCSN}
Metadata == [creation_tid : TIDs, creation_csn : CSNs,
             removal_tid : TIDs, removal_csn : CSNs]

(* The record of a part created by the transaction t. *)
MetadataOf(t) == [creation_tid |-> t, creation_csn |-> UnknownCSN,
                  removal_tid |-> EmptyTID, removal_csn |-> UnknownCSN]
NoMetadata == MetadataOf(EmptyTID)

(* loadVersionMetadata() of a part without a file. *)
PrehistoricMetadata ==
  [MetadataOf(PrehistoricTID) EXCEPT !.creation_csn = PrehistoricCSN]

-----------------------------------------------------------------------------
(* TransactionLog::getCSN() and the check for outdated TIDs. *)

GetCSN(t) ==
  IF t = PrehistoricTID THEN PrehistoricCSN
  ELSE IF \E e \in tid_to_csn : e.tid = t
       THEN (CHOOSE e \in tid_to_csn : e.tid = t).csn
       ELSE UnknownCSN

(* The map first, then the CSN stored in the part. *)
GetCSNOr(t, stored) == IF GetCSN(t) # UnknownCSN THEN GetCSN(t) ELSE stored

IsOutdated(t) == t # PrehistoricTID /\ t.start_csn < tail_ptr

(* getCSNAndAssert() throws. *)
LookupThrows(t, stored) == GetCSNOr(t, stored) = UnknownCSN /\ IsOutdated(t)

-----------------------------------------------------------------------------
(* isVisible(snapshot, t) *)

FastHidden(creation, lock, removal, snapshot, t) ==
  \/ creation # UnknownCSN /\ snapshot < creation
  \/ removal # UnknownCSN /\ removal <= snapshot
  \/ lock = t

FastVisible(creation_tid, creation, lock, removal, snapshot, t) ==
  \/ creation # UnknownCSN /\ creation <= snapshot /\ lock = EmptyTID
  \/ creation # UnknownCSN /\ creation <= snapshot
     /\ removal # UnknownCSN /\ snapshot < removal
  \/ creation_tid = t

VisibleByCSN(creation, removal, snapshot) ==
  /\ creation # UnknownCSN /\ creation <= snapshot
  /\ removal = UnknownCSN \/ snapshot < removal

(* No lookup is needed: the changes of creation_tid cannot be visible, or  *)
(* the fast path knows.                                                    *)
NoLookup(v, snapshot, t) ==
  \/ FastHidden(v.creation_csn, v.removal_tid, v.removal_csn, snapshot, t)
  \/ FastVisible(v.creation_tid, v.creation_csn, v.removal_tid, v.removal_csn,
                 snapshot, t)
  \/ snapshot <= v.creation_tid.start_csn

(* The record with the CSNs that a lookup finds. *)
WithCSNs(v) ==
  LET creation == GetCSNOr(v.creation_tid, v.creation_csn)
      removal == GetCSNOr(v.removal_tid, v.removal_csn)
  IN  IF creation = UnknownCSN THEN v
      ELSE [v EXCEPT !.creation_csn = creation,
                     !.removal_csn = IF v.removal_tid = EmptyTID THEN @ ELSE removal]

(* The record after the call: the slow path stores what it has found. *)
AfterIsVisible(v, snapshot, t) ==
  IF NoLookup(v, snapshot, t) THEN v ELSE WithCSNs(v)

IsVisible(v, snapshot, t) ==
  LET w == AfterIsVisible(v, snapshot, t)
  IN  /\ ~FastHidden(v.creation_csn, v.removal_tid, v.removal_csn, snapshot, t)
      /\ \/ FastVisible(v.creation_tid, v.creation_csn, v.removal_tid,
                        v.removal_csn, snapshot, t)
         \/ /\ v.creation_tid.start_csn < snapshot
            /\ VisibleByCSN(w.creation_csn, w.removal_csn, snapshot)

-----------------------------------------------------------------------------
(* canBeRemoved(), for the cleanup of Outdated parts. *)

(* Mutant: any committed removal is enough. *)
CanBeRemovedAtOnce(v) ==
  \/ v.creation_csn = RolledBackCSN
  \/ GetCSNOr(v.removal_tid, v.removal_csn) # UnknownCSN

CanBeRemovedImpl(v) ==
  LET w == WithCSNs(v)
      oldest == GetOldestSnapshot
  IN  \/ v.creation_csn = RolledBackCSN
      \/ /\ w.creation_csn # UnknownCSN /\ w.creation_csn <= oldest
         /\ v.removal_tid # EmptyTID
         /\ w.removal_csn # UnknownCSN /\ w.removal_csn <= oldest

CanBeRemoved(v) ==
  IF v.creation_tid = PrehistoricTID /\ v.removal_tid \in {EmptyTID, PrehistoricTID}
  THEN v.creation_csn = RolledBackCSN \/ v.removal_tid = PrehistoricTID
  ELSE CanBeRemovedImpl(v)

(* The record after the call. *)
AfterCanBeRemoved(v) ==
  LET w == WithCSNs(v)
  IN  IF v.creation_csn = RolledBackCSN THEN v
      ELSE IF GetOldestSnapshot < w.creation_csn
           THEN [v EXCEPT !.creation_csn = w.creation_csn]
           ELSE w

-----------------------------------------------------------------------------
(* The file. *)

(* writeCSN(), appended: the value is loaded from memory. *)
AppendCreationCSN(p, v) == [file EXCEPT ![p].creation_csn = v.creation_csn]
AppendRemovalCSN(p, v) == [file EXCEPT ![p].removal_csn = v.removal_csn]

(* appendRemovalTIDToVersionMetadata(): a part created without a           *)
(* transaction may have no file yet, it is written as a whole.             *)
AppendRemovalTID(p, v) ==
  IF v.creation_tid = PrehistoricTID
  THEN [file EXCEPT ![p] = [v EXCEPT !.creation_csn = PrehistoricCSN]]
  ELSE [file EXCEPT ![p].removal_tid = v.removal_tid]

ClearRemovalTID(p) == [file EXCEPT ![p].removal_tid = EmptyTID]

WasInvolvedInTransaction(v) ==
  \/ v.creation_tid # PrehistoricTID
  \/ v.removal_tid \notin {EmptyTID, PrehistoricTID}

-----------------------------------------------------------------------------
(***************************************************************************)
(* The steps of a call of isVisible() by the reader x.                     *)
(***************************************************************************)
Loads == {"creation_csn", "removal_tid", "removal_csn"}

NoRead == [pc |-> "none", part |-> "none", loads |-> {},
           creation_csn |-> UnknownCSN, removal_tid |-> EmptyTID,
           removal_csn |-> UnknownCSN, result |-> FALSE]

ReadBegins(x, p) ==
  /\ read[x].pc = "none"
  /\ read' = [read EXCEPT ![x] = [NoRead EXCEPT !.pc = "load", !.part = p,
                                                !.loads = Loads]]
  /\ UNCHANGED <<version>>

At(x, pc) == read[x].pc = pc
Part(x) == version[read[x].part]
Goto(x, pc) == read' = [read EXCEPT ![x].pc = pc]
Returns(x, result) == read' = [read EXCEPT ![x].pc = "done", ![x].result = result]

(* One of the relaxed loads. *)
ReadLoad(x) ==
  /\ At(x, "load")
  /\ \E f \in read[x].loads :
       read' = [read EXCEPT ![x].loads = @ \ {f},
                  ![x].pc = IF read[x].loads = {f} THEN "fast" ELSE "load",
                  ![x].creation_csn = IF f = "creation_csn" THEN Part(x)[f] ELSE @,
                  ![x].removal_tid = IF f = "removal_tid" THEN Part(x)[f] ELSE @,
                  ![x].removal_csn = IF f = "removal_csn" THEN Part(x)[f] ELSE @]
  /\ UNCHANGED version

(* The fast path, and the check that saves a lookup. *)
ReadFastPath(x) ==
  LET r == read[x]
      creation_tid == Part(x).creation_tid
  IN  /\ At(x, "fast")
      /\ IF FastHidden(r.creation_csn, r.removal_tid, r.removal_csn, Snapshot(x), tid[x])
         THEN Returns(x, FALSE)
         ELSE IF FastVisible(creation_tid, r.creation_csn, r.removal_tid, r.removal_csn,
                             Snapshot(x), tid[x])
         THEN Returns(x, TRUE)
         ELSE IF Snapshot(x) <= creation_tid.start_csn
         THEN Returns(x, FALSE)
         ELSE Goto(x, "lookup")
      /\ UNCHANGED version

(* Mutant: an outdated TID throws, the CSN in the part is not consulted. *)
ReadTailThrows(x) ==
  /\ At(x, "outdated")
  /\ Goto(x, IF IsOutdated(Part(x).creation_tid) THEN "throw" ELSE "strict")
  /\ UNCHANGED version

(* getCSNAndAssert(creation_tid): the map, *)
ReadLookup(x) ==
  LET csn == GetCSN(Part(x).creation_tid)
  IN  /\ At(x, "lookup")
      /\ read' = [read EXCEPT ![x].creation_csn = csn,
                     ![x].pc = IF csn = UnknownCSN THEN "outdated" ELSE "store"]
      /\ UNCHANGED version

(* the tail pointer, *)
ReadTail(x) ==
  /\ At(x, "outdated")
  /\ Goto(x, IF IsOutdated(Part(x).creation_tid) THEN "failback" ELSE "strict")
  /\ UNCHANGED version

(* the CSN in the part, if the TID is outdated, *)
ReadFailback(x) ==
  /\ At(x, "failback")
  /\ Goto(x, IF Part(x).creation_csn = UnknownCSN THEN "throw" ELSE "strict")
  /\ UNCHANGED version

(* and the CSN in the part again. *)
ReadStrict(x) ==
  LET csn == Part(x).creation_csn
  IN  /\ At(x, "strict")
      /\ IF csn = UnknownCSN THEN Returns(x, FALSE)
         ELSE read' = [read EXCEPT ![x].creation_csn = csn, ![x].pc = "store"]
      /\ UNCHANGED version

ReadResult(x, removal) ==
  Returns(x, VisibleByCSN(read[x].creation_csn, removal, Snapshot(x)))

(* creation_csn.store() *)
ReadStore(x) ==
  /\ At(x, "store")
  /\ version' = [version EXCEPT ![read[x].part].creation_csn = read[x].creation_csn]
  /\ IF read[x].removal_tid = EmptyTID THEN ReadResult(x, read[x].removal_csn)
     ELSE Goto(x, "removal")

(* Mutant: the CSN in the part is not a fallback for the map. *)
ReadRemovalFromMap(x) ==
  LET csn == GetCSN(read[x].removal_tid)
  IN  /\ At(x, "removal")
      /\ IF csn = UnknownCSN THEN ReadResult(x, UnknownCSN)
         ELSE read' = [read EXCEPT ![x].removal_csn = csn, ![x].pc = "store_removal"]
      /\ UNCHANGED version

(* getCSN(removal_lock): the map, *)
ReadRemoval(x) ==
  LET csn == GetCSN(read[x].removal_tid)
  IN  /\ At(x, "removal")
      /\ IF csn = UnknownCSN THEN Goto(x, "strict_removal")
         ELSE read' = [read EXCEPT ![x].removal_csn = csn, ![x].pc = "store_removal"]
      /\ UNCHANGED version

(* and then the CSN in the part. *)
ReadStrictRemoval(x) ==
  LET csn == Part(x).removal_csn
  IN  /\ At(x, "strict_removal")
      /\ IF csn = UnknownCSN THEN ReadResult(x, UnknownCSN)
         ELSE read' = [read EXCEPT ![x].removal_csn = csn, ![x].pc = "store_removal"]
      /\ UNCHANGED version

(* removal_csn.store() *)
ReadStoreRemoval(x) ==
  /\ At(x, "store_removal")
  /\ version' = [version EXCEPT ![read[x].part].removal_csn = read[x].removal_csn]
  /\ ReadResult(x, read[x].removal_csn)

ReadEnds(x) ==
  /\ At(x, "done") /\ read' = [read EXCEPT ![x] = NoRead] /\ UNCHANGED version

ReadStep(x) ==
  \/ ReadLoad(x) \/ ReadFastPath(x) \/ ReadLookup(x) \/ ReadTail(x)
  \/ ReadFailback(x) \/ ReadStrict(x) \/ ReadStore(x) \/ ReadRemoval(x)
  \/ ReadStrictRemoval(x) \/ ReadStoreRemoval(x) \/ ReadEnds(x)

=============================================================================
