--------------------- MODULE ReplicatedMergeTreeProofs ---------------------
(***************************************************************************)
(* Proofs about the replication of one partition, for any replicas,        *)
(* queries, drops, lost sessions and restarts.                             *)
(*                                                                         *)
(* The parts of the log form a laminar family: every entry covers or does  *)
(* not touch the ones before it.  So the table replayed from the log is    *)
(* the set of its maximal parts, whatever the order of execution, and the  *)
(* state of a replica is described by what its parts and its queue cover.  *)
(* The invariant IInv says this for the log, the numbers in use, the       *)
(* inserts and drops in progress, the predicate of a merge under           *)
(* construction, the queue, the entries in execution and the parts.        *)
(***************************************************************************)
EXTENDS ReplicatedMergeTree, FiniteSetTheorems, WellFoundedInduction, TLAPS

-----------------------------------------------------------------------------
(* What the walks of ActiveDataPartSet compute, for sets of pairwise       *)
(* disjoint parts of any size: although lookups and insertions only see    *)
(* the neighbours of a part, they find every covering, covered and         *)
(* intersecting part.                                                      *)

(* The parts of the set do not overlap.                                    *)
Disjoint(S) == \A x \in S, y \in S : x # y => IsDisjoint(x, y)

(* x is in the way of p: they overlap and p does not cover x.              *)
InTheWay(p, x) == ~IsDisjoint(p, x) /\ ~Contains(p, x)

-----------------------------------------------------------------------------
(* A nonempty set of natural numbers has a smallest element.               *)
LEMMA LeastElement ==
  ASSUME NEW T \in SUBSET Nat, T # {}
  PROVE  \E n \in T : \A m \in T : n <= m
<1> DEFINE R == {r \in Nat \X Nat : r[1] < r[2]}
<1>1. IsWellFoundedOn(R, Nat)
  <2>1. R = OpToRel(<, Nat)
    BY DEF OpToRel
  <2> QED
    BY <2>1, NatLessThanWellFounded
<1>2. \E n \in T : \A m \in T : ~(<<m, n>> \in R)
  <2> HIDE DEF R
  <2> QED
    BY <1>1, WFMin
<1>3. PICK n \in T : \A m \in T : ~(<<m, n>> \in R)
  BY <1>2
<1>4. \A m \in T : ~(m < n)
  BY <1>3
<1> QED
  BY <1>4

(* Of two parts of the set, the one before the other ends before it.       *)
LEMMA Ordered ==
  ASSUME NEW S \in SUBSET Part, Disjoint(S), NEW x \in S, NEW y \in S, x # y
  PROVE  /\ Before(x, y) <=> x.max < y.min
         /\ Before(x, y) \/ Before(y, x)
<1>1. x \in Part /\ y \in Part /\ IsDisjoint(x, y)
  BY DEF Disjoint
<1> QED
  BY <1>1 DEF Part, IsDisjoint, Before

(* Two different parts of the set never both cover p.                      *)
LEMMA OneCovering ==
  ASSUME NEW S \in SUBSET Part, Disjoint(S), NEW p \in Part,
         NEW x \in S, NEW y \in S, Contains(x, p), Contains(y, p)
  PROVE  x = y
<1>1. x \in Part /\ y \in Part /\ ~IsDisjoint(x, y)
  BY DEF Part, Contains, IsDisjoint
<1> QED
  BY <1>1 DEF Disjoint

(* A covering part is the next or the previous one.                        *)
LEMMA CoveringIsNeighbour ==
  ASSUME NEW S \in SUBSET Part, Disjoint(S), NEW p \in Part,
         NEW q \in S, Contains(q, p)
  PROVE  q \in LowerBound(S, p) \cup Previous(S, p)
<1>0. q \in Part /\ q.min <= p.min /\ p.max <= q.max
  BY DEF Contains
<1>1. CASE Before(q, p)
  <2>1. ASSUME NEW x \in S, Before(x, p), x # q
        PROVE  Before(x, q)
    <3>1. x \in Part
      OBVIOUS
    <3>2. ~(q.max < x.min)
      BY <1>0, <2>1, <3>1 DEF Part, Before
    <3> QED
      BY <2>1, <3>2, Ordered
  <2> QED
    BY <1>1, <2>1 DEF Previous
<1>2. CASE ~Before(q, p)
  <2>1. ASSUME NEW x \in S, ~Before(x, p), x # q
        PROVE  Before(q, x)
    <3>1. x \in Part
      OBVIOUS
    <3>2. ~(x.max < q.min)
      BY <1>0, <2>1, <3>1 DEF Part, Before
    <3> QED
      BY <2>1, <3>2, Ordered
  <2> QED
    BY <1>2, <2>1 DEF LowerBound
<1> QED
  BY <1>1, <1>2

(* getContainingPartImpl() finds the covering part whenever there is one,  *)
(* although it looks at two neighbours only ("a part can only be           *)
(* covered/overlapped by the previous or next one").                       *)
THEOREM ContainingPartIsFound ==
  ASSUME NEW S \in SUBSET Part, Disjoint(S), NEW p \in Part
  PROVE  GetContainingPart(S, p) = {q \in S : Contains(q, p)}
<1>1. \A q \in S : Contains(q, p) => q \in LowerBound(S, p) \cup Previous(S, p)
  BY CoveringIsNeighbour
<1>2. \A x \in S, y \in S : Contains(x, p) /\ Contains(y, p) => x = y
  BY OneCovering
<1>3. LowerBound(S, p) \subseteq S /\ Previous(S, p) \subseteq S
  BY DEF LowerBound, Previous
<1> QED
  BY <1>1, <1>2, <1>3 DEF GetContainingPart

-----------------------------------------------------------------------------
(* A part in the way that is ordered before p is where the left walk stops. *)
LEMMA LeftObstacle ==
  ASSUME NEW S \in SUBSET Part, Disjoint(S), NEW p \in Part,
         NEW x \in S, InTheWay(p, x), Before(x, p)
  PROVE  x \in Previous(S \ LeftRun(S, p), p)
<1>0. x \in Part /\ p.min <= x.max
  BY DEF InTheWay, IsDisjoint, Part
<1>1. x \notin LeftRun(S, p)
  <2>1. ~Before(x, x)
    BY <1>0 DEF Before, Part
  <2> QED
    BY <2>1 DEF LeftRun, InTheWay
<1>2. ASSUME NEW z \in S, Before(z, p), z # x
      PROVE  Before(z, x)
  <2>1. z \in Part
    OBVIOUS
  <2>2. ~(x.max < z.min)
    BY <1>0, <1>2, <2>1 DEF Part, Before
  <2> QED
    BY <1>2, <2>2, Ordered
<1> QED
  BY <1>1, <1>2 DEF Previous

(* If a part in the way is ordered after p, the first part at which the    *)
(* right walk stops overlaps p, although it may be another one.            *)
LEMMA RightObstacle ==
  ASSUME NEW S \in SUBSET Part, Disjoint(S), NEW p \in Part,
         NEW x \in S, InTheWay(p, x), ~Before(x, p)
  PROVE  \E q \in LowerBound(S \ RightRun(S, p), p) : ~IsDisjoint(p, q)
<1> DEFINE Stops == {y \in S \ RightRun(S, p) : ~Before(y, p)}
           T == {y.min : y \in Stops}
<1>0. x \in Part /\ x.min <= p.max
  BY DEF InTheWay, IsDisjoint, Part
<1>1. x \in Stops
  <2>1. ~Before(x, x)
    BY <1>0 DEF Before, Part
  <2> QED
    BY <2>1 DEF RightRun, InTheWay
<1>2. T \in SUBSET Nat /\ T # {}
  BY <1>1 DEF Part
<1>3. PICK n \in T : \A m \in T : n <= m
  <2> HIDE DEF T
  <2> QED
    BY <1>2, LeastElement
<1>4. PICK q \in Stops : q.min = n
  BY <1>3
<1>5. q \in S /\ q \in Part /\ \A y \in Stops : q.min <= y.min
  BY <1>3, <1>4
<1>6. ASSUME NEW y \in S \ RightRun(S, p), ~Before(y, p), y # q
      PROVE  Before(q, y)
  <2>1. y \in Part /\ y \in S /\ q.min <= y.min
    BY <1>5, <1>6
  <2>2. ~(y.max < q.min)
    BY <2>1, <1>5 DEF Part
  <2> QED
    BY <1>5, <1>6, <2>1, <2>2, Ordered
<1>7. q \in LowerBound(S \ RightRun(S, p), p)
  BY <1>4, <1>6 DEF LowerBound
<1>8. ~IsDisjoint(p, q)
  BY <1>0, <1>1, <1>4, <1>5 DEF IsDisjoint, Before, Part
<1> QED
  BY <1>7, <1>8

(* A walk stops at a part that p does not cover.                           *)
LEMMA StopsAreNotCovered ==
  ASSUME NEW S \in SUBSET Part, Disjoint(S), NEW p \in Part,
         NEW q \in StopsAt(S, p)
  PROVE  q \in S /\ ~Contains(p, q)
<1>1. CASE q \in Previous(S \ LeftRun(S, p), p)
  <2>1. q \in S /\ q \notin LeftRun(S, p) /\ Before(q, p)
    BY <1>1 DEF Previous
  <2>2. PICK y \in S : Before(y, p) /\ ~Before(y, q) /\ ~Contains(p, y)
    BY <2>1 DEF LeftRun
  <2>3. y \in Part /\ ~Before(y, y)
    BY DEF Before, Part
  <2>4. y \notin LeftRun(S, p)
    BY <2>2, <2>3 DEF LeftRun
  <2>5. y = q
    BY <1>1, <2>2, <2>4 DEF Previous
  <2> QED
    BY <2>1, <2>2, <2>5
<1>2. CASE q \in LowerBound(S \ RightRun(S, p), p)
  <2>1. q \in S /\ q \notin RightRun(S, p) /\ ~Before(q, p)
    BY <1>2 DEF LowerBound
  <2>2. PICK y \in S : ~Before(y, p) /\ ~Before(q, y) /\ ~Contains(p, y)
    BY <2>1 DEF RightRun
  <2>3. y \in Part /\ ~Before(y, y)
    BY DEF Before, Part
  <2>4. y \notin RightRun(S, p)
    BY <2>2, <2>3 DEF RightRun
  <2>5. y = q
    BY <1>2, <2>2, <2>4 DEF LowerBound
  <2> QED
    BY <2>1, <2>2, <2>5
<1> QED
  BY <1>1, <1>2 DEF StopsAt

(* addImpl() reports an intersecting part exactly when some part of the    *)
(* set, wherever it is, overlaps p without being covered by it: the error  *)
(* "It is a bug or a result of manual intervention in the ZooKeeper data"  *)
(* is neither missed nor raised in vain.                                   *)
THEOREM IntersectionIsFound ==
  ASSUME NEW S \in SUBSET Part, Disjoint(S), NEW p \in Part
  PROVE  Intersects(S, p) <=> \E x \in S : InTheWay(p, x)
<1>1. ASSUME Intersects(S, p)
      PROVE  \E x \in S : InTheWay(p, x)
  <2>1. PICK q \in StopsAt(S, p) : ~IsDisjoint(p, q)
    BY <1>1 DEF Intersects
  <2> QED
    BY <2>1, StopsAreNotCovered DEF InTheWay
<1>2. ASSUME NEW x \in S, InTheWay(p, x)
      PROVE  Intersects(S, p)
  <2>1. CASE Before(x, p)
    BY <1>2, <2>1, LeftObstacle DEF Intersects, StopsAt, InTheWay
  <2>2. CASE ~Before(x, p)
    BY <1>2, <2>2, RightObstacle DEF Intersects, StopsAt
  <2> QED
    BY <2>1, <2>2
<1> QED
  BY <1>1, <1>2

-----------------------------------------------------------------------------
(* When nothing inside the range of p stops them, the walks reach every    *)
(* part p covers.                                                          *)
LEMMA RunsAreCovered ==
  ASSUME NEW S \in SUBSET Part, Disjoint(S), NEW p \in Part,
         \A x \in S : p.min <= x.min /\ x.max < p.max => Contains(p, x)
  PROVE  LeftRun(S, p) \cup RightRun(S, p) = {x \in S : Contains(p, x)}
<1>1. ASSUME NEW x \in S, Contains(p, x), Before(x, p)
      PROVE  x \in LeftRun(S, p)
  <2>1. ASSUME NEW y \in S, Before(y, p), ~Before(y, x)
        PROVE  Contains(p, y)
    <3>1. x \in Part /\ y \in Part
      OBVIOUS
    <3>2. x.min = p.min
      BY <1>1, <3>1 DEF Part, Before, Contains
    <3>3. ~(x.max < y.min)
      BY <2>1, <3>1, <3>2 DEF Part, Before
    <3>4. x = y
      BY <2>1, <3>3, Ordered
    <3> QED
      BY <1>1, <3>4
  <2> QED
    BY <1>1, <2>1 DEF LeftRun
<1>2. ASSUME NEW x \in S, Contains(p, x), ~Before(x, p)
      PROVE  x \in RightRun(S, p)
  <2>1. ASSUME NEW y \in S, ~Before(y, p), ~Before(x, y)
        PROVE  Contains(p, y)
    <3>1. x \in Part /\ y \in Part
      OBVIOUS
    <3>2. CASE x = y
      BY <1>2, <3>2
    <3>3. CASE x # y
      <4>1. y.max < x.min
        BY <2>1, <3>3, Ordered
      <4>2. p.min <= y.min /\ y.max < p.max
        BY <1>2, <2>1, <3>1, <4>1 DEF Part, Before, Contains
      <4> QED
        BY <4>2
    <3> QED
      BY <3>2, <3>3
  <2> QED
    BY <1>2, <2>1 DEF RightRun
<1>3. ASSUME NEW x \in LeftRun(S, p) \cup RightRun(S, p)
      PROVE  x \in S /\ Contains(p, x)
  <2>1. x \in S /\ x \in Part
    BY DEF LeftRun, RightRun
  <2>2. ~Before(x, x)
    BY <2>1 DEF Part, Before
  <2> QED
    BY <2>1, <2>2 DEF LeftRun, RightRun
<1> QED
  BY <1>1, <1>2, <1>3

(* add() of a part that is neither covered nor intersecting replaces       *)
(* exactly the parts it covers, and the parts of the set stay disjoint:    *)
(* what virtual_parts and the working set rely on at every insertion.      *)
THEOREM AddReplacesCovered ==
  ASSUME NEW S \in SUBSET Part, Disjoint(S), NEW p \in Part,
         ~IsCovered(S, p), ~Intersects(S, p)
  PROVE  /\ Add(S, p) = {x \in S : ~Contains(p, x)} \cup {p}
         /\ Disjoint(Add(S, p))
<1>1. \A x \in S : ~IsDisjoint(p, x) => Contains(p, x)
  BY IntersectionIsFound DEF InTheWay
<1>2. \A x \in S : p.min <= x.min /\ x.max < p.max => ~IsDisjoint(p, x)
  BY DEF Part, IsDisjoint
<1>3. LeftRun(S, p) \cup RightRun(S, p) = {x \in S : Contains(p, x)}
  BY <1>1, <1>2, RunsAreCovered
<1>4. Add(S, p) = {x \in S : ~Contains(p, x)} \cup {p}
  BY <1>3 DEF Add
<1>5. \A x \in S : IsDisjoint(p, x) => IsDisjoint(x, p)
  BY DEF Part, IsDisjoint
<1> QED
  BY <1>1, <1>4, <1>5 DEF Disjoint

(* getPartsCoveredByImpl() of a drop range, the form in which              *)
(* canMergeTwoParts() asks for the parts of the gap between two others,    *)
(* finds every part of the range, even when parts cross its borders.       *)
THEOREM CoveredPartsAreFound ==
  ASSUME NEW S \in SUBSET Part, Disjoint(S), NEW p \in Part,
         IsFakeDropRangePart(p), \A x \in S : x.level <= MAX_LEVEL
  PROVE  GetPartsCoveredBy(S, p) = {x \in S : Contains(p, x)}
<1>1. \A x \in S : p.min <= x.min /\ x.max < p.max => Contains(p, x)
  BY DEF Part, Contains, IsFakeDropRangePart, MAX_LEVEL
<1>2. LeftRun(S, p) \cup RightRun(S, p) = {x \in S : Contains(p, x)}
  BY <1>1, RunsAreCovered
<1>3. ASSUME NEW q \in StopsAt(S, p), Contains(q, p), NEW x \in S, Contains(p, x)
      PROVE  FALSE
  <2>1. q \in S /\ ~Contains(p, q)
    BY StopsAreNotCovered
  <2>2. x \in Part /\ q \in Part /\ x # q
    BY <1>3, <2>1
  <2>3. ~IsDisjoint(x, q)
    BY <1>3, <2>2 DEF Part, Contains, IsDisjoint
  <2> QED
    BY <2>1, <2>2, <2>3 DEF Disjoint
<1> QED
  BY <1>2, <1>3 DEF GetPartsCoveredBy

-----------------------------------------------------------------------------
(* Types. *)

Contents == {DataOf[i] : i \in Inserts} \cup Nat \cup {"none"}

Entry == [type : {"GET_PART", "MERGE_PARTS", "DROP_RANGE"}, part : Part,
          sources : SUBSET Part, data : Contents]

Execution == [entry : Nat, actual : Part, removed : BOOLEAN,
              stage : {"started", "dropped"}, gone : SUBSET Part]

DropState == [stage : {"none", "versioned", "locked", "reading", "cleared", "retry"},
              block : Nat, version : Nat, listed : SUBSET Contents, ids : SUBSET Contents]

TypeOK ==
    /\ log \in Seq(Entry)
    /\ locks \in SUBSET [block : Nat, kind : {"insert", "other"}, owner : Replicas, session : Nat]
    /\ next_block \in Nat
    /\ blocks \in SUBSET [data : Contents, block : Nat]
    /\ parts \in [Replicas -> SUBSET Part]
    /\ queue \in [Replicas -> SUBSET Nat]
    /\ log_pointer \in [Replicas -> Nat]
    /\ session \in [Replicas -> Nat]
    /\ virtual_parts \in [Replicas -> SUBSET Part]
    /\ executing \in [Replicas -> SUBSET Execution]
    /\ active \in [Replicas -> SUBSET Part]
    /\ outdated \in [Replicas -> SUBSET Part]
    /\ predicate \in [Replicas ->
           [stage : {"idle", "copied", "loaded", "versioned", "ready"}, prev : SUBSET Part,
            committing : SUBSET Nat, version : Nat]]
    /\ insert \in [Inserts ->
           [stage : {"none", "writing", "duplicate", "recovering", "done", "failed"},
            block : Nat, answer : {"none", "ok", "duplicate", "cancelled", "expired"}]]
    /\ multis \in SUBSET [insert : Inserts, block : Nat, session : Nat]
    /\ drop \in [Replicas -> DropState]
    /\ budget \in [stored : Nat, inserts : SUBSET Inserts, selections : Nat,
                   drops : Nat, reconnects : Nat, restarts : Nat]
-----------------------------------------------------------------------------
(* Numbers, locks and the multis in flight.                                *)

IsGet(k) == log[k].type = "GET_PART"
IsMerge(k) == log[k].type = "MERGE_PARTS"

(* A query or a lock never has a number that has not been given out; a     *)
(* number is given out once.                                               *)
NumbersInv ==
    /\ \A l \in locks : l.block < next_block
    /\ \A l \in locks, m \in locks : l.block = m.block => l = m
    /\ \A i \in Inserts : insert[i].stage \in {"writing", "recovering"} => insert[i].block < next_block
    /\ \A i \in Inserts, j \in Inserts :
           /\ insert[i].stage \in {"writing", "recovering"}
           /\ insert[j].stage \in {"writing", "recovering"}
           /\ insert[i].block = insert[j].block
           => i = j
    /\ \A i \in Inserts, l \in locks :
           insert[i].stage \in {"writing", "recovering"} /\ l.block = insert[i].block => l.kind = "insert"
    /\ \A r \in Replicas : drop[r].block <= next_block
    /\ \A m \in multis : m.block < next_block
    /\ \A m \in multis, n \in multis : m.block = n.block => m = n

(* The multi of an insert is in flight; only while the session it was sent *)
(* in lasts can it succeed, and then the query is waiting for its answer.  *)
MultisInv ==
    \A m \in multis :
        /\ m.session <= session[HomeOf[m.insert]]
        /\ m.session = session[HomeOf[m.insert]] =>
               insert[m.insert] = [stage |-> "writing", block |-> m.block, answer |-> "none"]
        /\ \A l \in locks : l.block = m.block => l.kind = "insert"
        /\ \A k \in DOMAIN log : IsGet(k) => log[k].part.max # m.block
        /\ \A i \in Inserts : insert[i].stage \in {"writing", "recovering"} /\ insert[i].block = m.block =>
               i = m.insert

(* A drop in progress holds the lock of its number; once it has cancelled  *)
(* the inserts of its range, none of them can be committed any more.       *)
Holding == {"locked", "reading", "cleared"}

DropsInv ==
    \A r \in Replicas :
        /\ drop[r].version <= AlterVersion
        /\ drop[r].stage \in Holding =>
               /\ drop[r].block > 0
               /\ [block |-> drop[r].block, kind |-> "other", owner |-> r, session |-> session[r]] \in locks
               /\ drop[r].stage # "locked" =>
                      \A l \in locks : l.kind = "insert" => l.block >= drop[r].block
               /\ drop[r].version = AlterVersion =>
                      \A k \in DOMAIN log : IsDrop(k) => log[k].part.max < drop[r].block

(* What an insert that waits or recovers knows about the log. *)
InsertsInv ==
    \A i \in Inserts : insert[i].stage \in {"writing", "recovering"} =>
        /\ \A k \in DOMAIN log : IsGet(k) /\ log[k].part = Block(insert[i].block) =>
               /\ log[k].data = DataOf[i]
               /\ Block(insert[i].block) \in parts[HomeOf[i]]
               /\ insert[i].stage = "writing" => insert[i].answer = "ok"
        /\ insert[i].stage = "writing" /\ insert[i].answer = "ok" =>
               \E k \in DOMAIN log : IsGet(k) /\ log[k].part = Block(insert[i].block)
-----------------------------------------------------------------------------
(* The log.                                                                *)

LogParts(n) == {log[k].part : k \in 1 .. n}

Merges == Cardinality({j \in DOMAIN log : IsMerge(j)})

Busy == Cardinality({r \in Replicas : predicate[r].stage # "idle"})

EntriesInv ==
    \A k \in DOMAIN log :
        /\ log[k].part.max < next_block
        /\ IsGet(k) => log[k].part = Block(log[k].part.max)
        /\ IsDrop(k) => /\ log[k].part.min = 0 /\ log[k].part.level = MAX_LEVEL
                        /\ log[k].part.max + 1 < next_block
        /\ IsMerge(k) => log[k].part.level > 0
        /\ ~IsDrop(k) => log[k].part.level <= Merges

(* Every entry's part covers or does not touch the parts of the entries    *)
(* before it, and is never covered by them.                                *)
LaminarInv ==
    \A j \in DOMAIN log, k \in DOMAIN log :
        /\ j < k => \/ IsDisjoint(log[j].part, log[k].part)
                    \/ Contains(log[k].part, log[j].part) /\ log[j].part # log[k].part

(* No number in use is inside a part, or below the border of a drop.       *)
LocksInv ==
    \A k \in DOMAIN log, l \in locks :
        /\ ~IsDrop(k) => l.block < log[k].part.min \/ l.block > log[k].part.max
        /\ IsDrop(k) => /\ l.block # log[k].part.max + 1
                        /\ l.kind = "insert" => l.block > log[k].part.max

(* A level never reaches MAX_LEVEL. *)
LevelsInv == Merges + Busy + budget.selections < MAX_LEVEL
-----------------------------------------------------------------------------
(* The merge predicate.                                                    *)

PredicateInv ==
    \A r \in Replicas :
        /\ predicate[r].stage # "idle" => \A p \in predicate[r].prev : p.max < next_block
        /\ predicate[r].stage \in {"loaded", "versioned", "ready"} =>
               \A l \in locks : (\E p \in predicate[r].prev : l.block <= p.max) =>
                   l.block \in predicate[r].committing
        /\ predicate[r].stage \in {"versioned", "ready"} => predicate[r].version <= LogVersion
        /\ predicate[r].stage = "ready" =>
               \A k \in DOMAIN log : k >= log_pointer[r] =>
                   /\ ~IsGet(k) => predicate[r].version < LogVersion
                   /\ IsGet(k) /\ (\E p \in predicate[r].prev : log[k].part.max <= p.max) =>
                          log[k].part.max \in predicate[r].committing
-----------------------------------------------------------------------------
(* What a replica expects to have.                                         *)

Real(S) == {p \in S : ~IsFakeDropRangePart(p)}

LastDrop(k, n) == IsDrop(k) /\ \A j \in 1 .. n : IsDrop(j) => j <= k

VirtualInv ==
    \A r \in Replicas :
        /\ Real(virtual_parts[r]) = Real(MaximalParts(LogParts(log_pointer[r] - 1)))
        /\ virtual_parts[r] \subseteq LogParts(log_pointer[r] - 1)
        /\ Disjoint(virtual_parts[r])
        /\ \A k \in queue[r] : LastDrop(k, log_pointer[r] - 1) => log[k].part \in virtual_parts[r]
-----------------------------------------------------------------------------
(* The parts of a replica.                                                 *)

PartsInv ==
    \A r \in Replicas :
        /\ active[r] \cup outdated[r] \subseteq {log[k].part : k \in {j \in DOMAIN log : ~IsDrop(j)}}
        /\ active[r] \subseteq parts[r]
        /\ parts[r] \subseteq OnDisk(r)
        /\ parts[r] \subseteq {log[k].part : k \in {j \in DOMAIN log : ~IsDrop(j)}}
        /\ Disjoint(active[r])
        /\ active[r] \cap outdated[r] = {}
        /\ PreActive(r) \cap (active[r] \cup outdated[r]) = {}
        /\ \A q \in outdated[r] :
               \/ \E p \in active[r] : Contains(p, q)
               \/ \E k \in 1 .. log_pointer[r] - 1 : IsDrop(k) /\ Contains(log[k].part, q)
-----------------------------------------------------------------------------
(* The queue of a replica and the entries in execution.                    *)

QueueInv ==
    \A r \in Replicas :
        /\ log_pointer[r] \in 1 .. Len(log) + 1
        /\ queue[r] \subseteq 1 .. log_pointer[r] - 1
        /\ \A j \in 1 .. log_pointer[r] - 1 : ~IsDrop(j) /\ j \notin queue[r] =>
               \/ \E p \in parts[r] : Contains(p, log[j].part)
               \/ \E k \in 1 .. log_pointer[r] - 1 : IsDrop(k) /\ Contains(log[k].part, log[j].part)
        /\ \A j \in queue[r], k \in 1 .. log_pointer[r] - 1 :
               ~IsDrop(j) /\ IsDrop(k) /\ Contains(log[k].part, log[j].part) =>
               k \in queue[r] /\ \A x \in executing[r] : x.entry # k
        /\ \A k \in 1 .. log_pointer[r] - 1 : IsDrop(k) /\ k \notin queue[r] =>
               \A p \in parts[r] : ~Contains(log[k].part, p)

ExecutingInv ==
    \A r \in Replicas : \A x \in executing[r] :
        /\ x.entry \in 1 .. log_pointer[r] - 1
        /\ x.entry \in queue[r] \/ x.removed
        /\ x.stage = "dropped" => IsDrop(x.entry)
        /\ \A y \in executing[r] : x.entry = y.entry => x = y
        /\ IsDrop(x.entry) =>
               /\ ~x.removed
               /\ \A y \in executing[r] : IsDrop(y.entry) => x = y
               /\ x.stage = "dropped" =>
                      /\ \A p \in active[r] : ~Contains(log[x.entry].part, p)
                      /\ \A p \in outdated[r] : Contains(log[x.entry].part, p) => p \in x.gone
                      /\ \A p \in x.gone : Contains(log[x.entry].part, p)
        /\ ~IsDrop(x.entry) =>
               /\ Contains(x.actual, log[x.entry].part)
               /\ \E k \in DOMAIN log : ~IsDrop(k) /\ log[k].part = x.actual
               /\ x.actual \notin active[r] \cup outdated[r] \cup PreActive(r)
               /\ \A y \in executing[r] : ~IsDrop(y.entry) /\ x.actual = y.actual => x = y
               /\ x.removed => \E y \in executing[r] : IsDrop(y.entry) /\ y.stage = "started"
               /\ \A y \in executing[r] : IsDrop(y.entry) /\ Contains(log[y.entry].part, log[x.entry].part) =>
                      x.removed
               /\ \A k \in 1 .. log_pointer[r] - 1 : IsDrop(k) /\ Contains(log[k].part, log[x.entry].part) =>
                      k \in queue[r]

(* A block that is not dropped is somewhere.                               *)
KeptInv ==
    \A k \in DOMAIN log : IsGet(k) =>
        \/ \E r \in Replicas : \E p \in parts[r] : Contains(p, log[k].part)
        \/ \E j \in DOMAIN log : IsDrop(j) /\ Contains(log[j].part, log[k].part)
-----------------------------------------------------------------------------
(* Block ids. *)
OnceInv ==
    /\ \A j \in DOMAIN log, k \in DOMAIN log :
           j # k /\ IsGet(j) /\ IsGet(k) => log[j].part # log[k].part
    /\ \A k \in DOMAIN log : IsGet(k) /\ log[k].data \in Nat => log[k].data = k
    /\ \A b \in blocks : \E k \in DOMAIN log : IsGet(k) /\ log[k].data = b.data
    /\ \A i \in Inserts : insert[i].stage = "done" =>
           \E k \in DOMAIN log : IsGet(k) /\ log[k].data = DataOf[i]

(* A block of the log is remembered by its id, or a drop of its range has  *)
(* been started; so a second copy means that one was.                      *)
RememberedInv ==
    /\ \A k \in DOMAIN log : IsGet(k) =>
           \/ log[k].data \in Nat
           \/ [data |-> log[k].data, block |-> log[k].part.max] \in blocks
           \/ MayBeForgotten(log[k].part)
    /\ \A j \in DOMAIN log, k \in DOMAIN log :
           j < k /\ IsGet(j) /\ IsGet(k) /\ log[j].data = log[k].data => MayBeForgotten(log[j].part)
-----------------------------------------------------------------------------
(* The order of parts by containment.                                      *)

(* What names a part or the range of a drop.                               *)
Name == {p \in Part : p.level <= MAX_LEVEL}

(* Of two parts that overlap, one contains the other.                      *)
Laminar(S) == \A x \in S, y \in S : IsDisjoint(x, y) \/ Contains(x, y) \/ Contains(y, x)

(* Containment is an order on names, and overlapping goes up with it.      *)
LEMMA ContainsOrder ==
  /\ \A p \in Name : Contains(p, p)
  /\ \A p \in Name, q \in Name : Contains(p, q) /\ Contains(q, p) => p = q
  /\ \A p \in Name, q \in Name, s \in Name : Contains(p, q) /\ Contains(q, s) => Contains(p, s)
  /\ \A p \in Name, q \in Name : Contains(p, q) => ~IsDisjoint(p, q) /\ ~IsDisjoint(q, p)
  /\ \A p \in Name, q \in Name, s \in Name : Contains(p, q) /\ ~IsDisjoint(q, s) => ~IsDisjoint(p, s)
<1>1. \A p \in Name : Contains(p, p)
  BY DEF Contains, Name, Part
<1>2. \A p \in Name, q \in Name : Contains(p, q) /\ Contains(q, p) => p = q
  <2> SUFFICES ASSUME NEW p \in Name, NEW q \in Name, Contains(p, q), Contains(q, p)
               PROVE  p = q
    OBVIOUS
  <2>1. p \in [min : Nat, max : Nat, level : Nat] /\ q \in [min : Nat, max : Nat, level : Nat]
    BY DEF Name, Part
  <2>2. p.min = q.min /\ p.max = q.max /\ p.level = q.level
    BY <2>1 DEF Contains
  <2> QED
    BY <2>1, <2>2
<1>3. \A p \in Name, q \in Name, s \in Name : Contains(p, q) /\ Contains(q, s) => Contains(p, s)
  BY DEF Contains, Name, Part, MAX_LEVEL
<1>4. \A p \in Name, q \in Name : Contains(p, q) => ~IsDisjoint(p, q) /\ ~IsDisjoint(q, p)
  BY DEF Contains, Name, Part, IsDisjoint
<1>5. \A p \in Name, q \in Name, s \in Name : Contains(p, q) /\ ~IsDisjoint(q, s) => ~IsDisjoint(p, s)
  BY DEF Contains, Name, Part, IsDisjoint
<1> QED
  BY <1>1, <1>2, <1>3, <1>4, <1>5

(* In a bounded set every part is contained in a maximal one.              *)
LEMMA MaximalExists ==
  ASSUME NEW X \in SUBSET Name, NEW N \in Nat, \A x \in X : x.max <= N, NEW x \in X
  PROVE  \E m \in MaximalParts(X) : Contains(m, x)
<1> DEFINE Up == {y \in X : Contains(y, x)}
           Widths == {N - (y.max - y.min) : y \in Up}
<1>1. x \in Up
  BY ContainsOrder
<1>2. \A y \in Up : y \in Name /\ y.min \in Nat /\ y.max \in Nat /\ y.level \in Nat /\ y.min <= y.max /\ y.max <= N
                    /\ y.level <= MAX_LEVEL
  BY DEF Name, Part
<1>3. Widths \in SUBSET Nat /\ Widths # {}
  BY <1>1, <1>2
<1>4. PICK w \in Widths : \A v \in Widths : w <= v
  <2> HIDE DEF Widths
  <2> QED BY <1>3, LeastElement
<1>5. PICK y0 \in Up : w = N - (y0.max - y0.min)
  OBVIOUS
<1> DEFINE Wide == {y \in Up : y.max - y.min = y0.max - y0.min}
           Levels == {MAX_LEVEL - y.level : y \in Wide}
<1>6. \A y \in Wide : y \in Up /\ MAX_LEVEL - y.level \in Nat
  BY <1>2 DEF MAX_LEVEL
<1>7. Levels \in SUBSET Nat /\ Levels # {}
  BY <1>5, <1>6
<1>8. PICK n \in Levels : \A v \in Levels : n <= v
  <2> HIDE DEF Levels
  <2> QED BY <1>7, LeastElement
<1>9. PICK m \in Wide : n = MAX_LEVEL - m.level
  OBVIOUS
<1>10. ASSUME NEW z \in X, Contains(z, m)
       PROVE  z = m
  <2>1. z \in Up
    BY <1>2, <1>9, <1>10, ContainsOrder
  <2>2. z.max - z.min <= m.max - m.min
    <3>1. N - (z.max - z.min) \in Widths
      BY <2>1
    <3>2. N - (m.max - m.min) <= N - (z.max - z.min)
      BY <1>4, <1>5, <1>9, <3>1
    <3> QED
      BY <1>2, <1>6, <1>9, <2>1, <3>2
  <2>3. z.min = m.min /\ z.max = m.max
    BY <1>2, <1>6, <1>9, <1>10, <2>1, <2>2 DEF Contains
  <2>4. z \in Wide
    BY <2>1, <2>3, <1>9
  <2>5. MAX_LEVEL - m.level <= MAX_LEVEL - z.level
    BY <1>8, <1>9, <2>4
  <2>6. z.level = m.level
    BY <1>2, <1>6, <1>9, <1>10, <2>1, <2>5 DEF Contains, MAX_LEVEL
  <2> QED
    BY <2>1, <1>6, <1>9, <2>3, <2>6 DEF Name, Part
<1> QED
  BY <1>9, <1>10 DEF MaximalParts

(* The maximal parts of a laminar set are disjoint.                        *)
LEMMA MaximalFacts ==
  ASSUME NEW X \in SUBSET Name, Laminar(X)
  PROVE  /\ MaximalParts(X) \subseteq X
         /\ Disjoint(MaximalParts(X))
         /\ Disjoint(X) => MaximalParts(X) = X
<1>1. MaximalParts(X) \subseteq X
  BY DEF MaximalParts
<1>2. Disjoint(MaximalParts(X))
  BY DEF MaximalParts, Laminar, Disjoint
<1>3. ASSUME Disjoint(X), NEW x \in X, NEW y \in X, Contains(y, x)
      PROVE  y = x
  BY <1>3, ContainsOrder DEF Disjoint
<1> QED
  BY <1>1, <1>2, <1>3 DEF MaximalParts

(* add() keeps the maximal parts of what was added.                        *)
LEMMA AddMaximal ==
  ASSUME NEW X \in SUBSET Name, NEW p \in Name, Laminar(X \cup {p}),
         NEW N \in Nat, \A x \in X : x.max <= N
  PROVE  Add(MaximalParts(X), p) = MaximalParts(X \cup {p})
<1> DEFINE M == MaximalParts(X)
<1>0. Laminar(X)
  BY DEF Laminar
<1>1. M \subseteq X /\ Disjoint(M) /\ M \in SUBSET Part
  BY <1>0, MaximalFacts DEF Name
<1>2. \A x \in X : \E m \in M : Contains(m, x)
  BY MaximalExists
<1>3. \A m \in M, x \in X : Contains(x, m) => x = m
  BY DEF MaximalParts
<1>4. GetContainingPart(M, p) = {q \in M : Contains(q, p)}
  <2> HIDE DEF M
  <2>1. p \in Part
    BY DEF Name
  <2> QED
    BY <1>1, <2>1, ContainingPartIsFound
<1>5. CASE IsCovered(M, p)
  <2>1. PICK m \in M : Contains(m, p)
    BY <1>4, <1>5 DEF IsCovered
  <2>2. Add(M, p) = M
    BY <1>5 DEF Add
  <2>3. MaximalParts(X \cup {p}) \subseteq M
    <3> SUFFICES ASSUME NEW y \in MaximalParts(X \cup {p})
                 PROVE  y \in M
      OBVIOUS
    <3>1. y \in X \cup {p} /\ \A z \in X \cup {p} : Contains(z, y) => z = y
      BY DEF MaximalParts
    <3>2. CASE y = p
      BY <1>1, <2>1, <3>1, <3>2
    <3>3. CASE y \in X
      BY <3>1, <3>3 DEF MaximalParts
    <3> QED
      BY <3>1, <3>2, <3>3
  <2>4. M \subseteq MaximalParts(X \cup {p})
    <3> SUFFICES ASSUME NEW y \in M, Contains(p, y)
                 PROVE  p = y
      BY <1>1, <1>3 DEF MaximalParts
    <3>1. y \in Name /\ m \in Name
      BY <1>1
    <3>2. Contains(m, y)
      BY <2>1, <3>1, ContainsOrder
    <3>3. m = y
      BY <1>1, <1>3, <3>2
    <3> QED
      BY <2>1, <3>1, <3>3, ContainsOrder
  <2> QED
    BY <2>2, <2>3, <2>4
<1>6. CASE ~IsCovered(M, p)
  <2>1. \A m \in M : ~Contains(m, p)
    BY <1>4, <1>6 DEF IsCovered
  <2>2. \A x \in X : ~Contains(x, p)
    <3> SUFFICES ASSUME NEW x \in X, Contains(x, p)
                 PROVE  FALSE
      OBVIOUS
    <3>1. PICK m \in M : Contains(m, x)
      BY <1>2
    <3>2. m \in Name /\ x \in Name
      BY <1>1
    <3> QED
      BY <2>1, <3>1, <3>2, ContainsOrder
  <2>3. \A m \in M : ~InTheWay(p, m)
    <3> SUFFICES ASSUME NEW m \in M, ~IsDisjoint(p, m)
                 PROVE  Contains(p, m)
      BY DEF InTheWay
    <3> QED
      BY <1>1, <2>1 DEF Laminar
  <2>4. Add(M, p) = {m \in M : ~Contains(p, m)} \cup {p}
    <3> HIDE DEF M
    <3>1. p \in Part
      BY DEF Name
    <3> QED
      BY <1>1, <1>6, <2>3, <3>1, IntersectionIsFound, AddReplacesCovered
  <2>5. p \notin M
    BY <2>1, ContainsOrder
  <2>6. MaximalParts(X \cup {p}) = {m \in M : ~Contains(p, m)} \cup {p}
    <3>1. p \in MaximalParts(X \cup {p})
      BY <2>2 DEF MaximalParts
    <3>2. \A y \in X : y \in MaximalParts(X \cup {p}) => y \in M
      BY DEF MaximalParts
    <3>3. \A y \in X : y # p /\ y \in MaximalParts(X \cup {p}) => ~Contains(p, y)
      BY DEF MaximalParts
    <3>4. \A y \in M : ~Contains(p, y) => y \in MaximalParts(X \cup {p})
      BY <1>1, <1>3 DEF MaximalParts
    <3>5. MaximalParts(X \cup {p}) \subseteq X \cup {p}
      BY DEF MaximalParts
    <3> QED
      BY <1>1, <2>5, <3>1, <3>2, <3>3, <3>4, <3>5
  <2> QED
    BY <2>4, <2>6
<1> QED
  BY <1>5, <1>6
-----------------------------------------------------------------------------
(* What a replica expects after entries: the recursive functions of        *)
(* VirtualAfter and Replayed, in closed form.                              *)

(* Entries added one by one with add() leave the maximal parts.            *)
LEMMA VirtualAfterMaximal ==
  ASSUME log \in Seq(Entry), NEW S \in SUBSET Name, NEW E, Disjoint(S),
         \A k \in DOMAIN log : log[k].part \in Name,
         Laminar(S \cup {log[k].part : k \in E \cap DOMAIN log}),
         NEW N \in Nat, \A x \in S : x.max <= N, \A k \in DOMAIN log : log[k].part.max <= N
  PROVE  VirtualAfter(S, E) = MaximalParts(S \cup {log[k].part : k \in E \cap DOMAIN log})
<1> DEFINE L == Len(log)
           X(k) == S \cup {log[j].part : j \in E \cap (1 .. k)}
           F(f) == [k \in 0 .. L |-> IF k = 0 THEN S
                       ELSE IF k \in E THEN Add(f[k - 1], log[k].part) ELSE f[k - 1]]
           w == [k \in 0 .. L |-> MaximalParts(X(k))]
           g == CHOOSE f : f = F(f)
<1>1. L \in Nat /\ DOMAIN log = 1 .. L
  OBVIOUS
<1>2. \A k \in 0 .. L : X(k) \in SUBSET Name /\ Laminar(X(k)) /\ \A x \in X(k) : x.max <= N
  <2> SUFFICES ASSUME NEW k \in 0 .. L
               PROVE  X(k) \in SUBSET Name /\ Laminar(X(k)) /\ \A x \in X(k) : x.max <= N
    OBVIOUS
  <2> DEFINE All == S \cup {log[j].part : j \in E \cap DOMAIN log}
  <2>1. X(k) \subseteq All
    BY <1>1
  <2>2. All \in SUBSET Name /\ \A x \in All : x.max <= N
    OBVIOUS
  <2>3. Laminar(All)
    OBVIOUS
  <2> HIDE DEF All, X
  <2> QED
    BY <2>1, <2>2, <2>3 DEF Laminar
<1>3. X(0) = S
  BY <1>1
<1>4. MaximalParts(X(0)) = S
  <2>1. Laminar(S)
    BY <1>1, <1>2, <1>3
  <2> QED
    BY <1>3, <2>1, MaximalFacts
<1>5. ASSUME NEW k \in 1 .. L
      PROVE  MaximalParts(X(k)) = IF k \in E THEN Add(MaximalParts(X(k - 1)), log[k].part)
                                  ELSE MaximalParts(X(k - 1))
  <2>1. k - 1 \in 0 .. L /\ 1 .. k = (1 .. (k - 1)) \cup {k}
    BY <1>1
  <2>2. CASE k \in E
    <3>1. X(k) = X(k - 1) \cup {log[k].part}
      BY <2>1, <2>2
    <3>2. log[k].part \in Name
      BY <1>1
    <3>3. k \in 0 .. L
      BY <1>1
    <3> HIDE DEF X
    <3>4. Laminar(X(k - 1) \cup {log[k].part})
      BY <1>2, <3>1, <3>3
    <3>5. X(k - 1) \in SUBSET Name /\ \A x \in X(k - 1) : x.max <= N
      BY <1>2, <2>1
    <3>6. Add(MaximalParts(X(k - 1)), log[k].part) = MaximalParts(X(k - 1) \cup {log[k].part})
      BY <3>2, <3>4, <3>5, AddMaximal
    <3> QED
      BY <3>1, <3>6, <2>2
  <2>3. CASE k \notin E
    <3>1. X(k) = X(k - 1)
      BY <2>1, <2>3
    <3> QED
      BY <3>1, <2>3
  <2> QED
    BY <2>2, <2>3
<1> HIDE DEF X
<1>6. w = F(w)
  <2>1. ASSUME NEW k \in 0 .. L
        PROVE  w[k] = F(w)[k]
    <3>1. CASE k = 0
      BY <1>1, <1>4, <3>1
    <3>2. CASE k # 0
      <4>1. k \in 1 .. L /\ k - 1 \in 0 .. L
        BY <1>1, <3>2
      <4> QED
        BY <4>1, <1>5, <3>2
    <3> QED
      BY <3>1, <3>2
  <2> QED
    BY <2>1
<1>7. g = F(g)
  <2> HIDE DEF F, w
  <2> QED
    BY <1>6
<1>8. VirtualAfter(S, E) = g[L]
  BY Zenon DEF VirtualAfter
<1> HIDE DEF g
<1>9. \A k \in 0 .. L : g[k] = w[k]
  <2> DEFINE Bad == {k \in 0 .. L : g[k] # w[k]}
  <2> SUFFICES ASSUME Bad # {} PROVE FALSE
    OBVIOUS
  <2>1. Bad \in SUBSET Nat
    BY <1>1
  <2>2. PICK n \in Bad : \A m \in Bad : n <= m
    <3> HIDE DEF Bad
    <3> QED BY <2>1, LeastElement
  <2>3. n \in 0 .. L /\ g[n] = F(g)[n] /\ w[n] = F(w)[n]
    BY <1>6, <1>7
  <2>4. n # 0
    BY <2>2, <2>3
  <2>5. n - 1 \in 0 .. L /\ n - 1 \notin Bad
    BY <1>1, <2>2, <2>3, <2>4
  <2>6. g[n - 1] = w[n - 1]
    BY <2>5
  <2> QED
    BY <2>2, <2>3, <2>4, <2>6
<1>10. VirtualAfter(S, E) = MaximalParts(X(L))
  BY <1>1, <1>8, <1>9
<1>11. E \cap DOMAIN log = E \cap (1 .. L)
  BY <1>1
<1> QED
  BY <1>10, <1>11 DEF X

(* What is counted is finite.                                              *)
LEMMA CardinalityFacts ==
  ASSUME TypeOK
  PROVE  Merges \in Nat /\ Busy \in Nat /\ LogVersion \in Nat /\ AlterVersion \in Nat
<1>1. IsFiniteSet(DOMAIN log) /\ IsFiniteSet(Replicas)
  <2>1. DOMAIN log = 1 .. Len(log) /\ Len(log) \in Nat
    BY DEF TypeOK
  <2> QED
    BY <2>1, FS_Interval, ReplicationAssumption
<1>2. \A S : S \subseteq DOMAIN log \/ S \subseteq Replicas => IsFiniteSet(S) /\ Cardinality(S) \in Nat
  BY <1>1, FS_Subset, FS_CardinalityType
<1> QED
  BY <1>2 DEF Merges, Busy, LogVersion, AlterVersion

(* What the invariants of the log give the proofs.                         *)
LEMMA LogFacts ==
  ASSUME TypeOK, EntriesInv, LaminarInv, LevelsInv
  PROVE  /\ Len(log) \in Nat /\ DOMAIN log = 1 .. Len(log)
         /\ \A k \in DOMAIN log : log[k] \in Entry /\ log[k].part \in Name /\ log[k].part \in Part
         /\ \A k \in DOMAIN log : IsDrop(k) <=> IsFakeDropRangePart(log[k].part)
         /\ \A k \in DOMAIN log : log[k].part.max <= next_block /\ next_block \in Nat
         /\ Laminar({log[k].part : k \in DOMAIN log})
         /\ \A j \in DOMAIN log, k \in DOMAIN log : log[j].part = log[k].part => j = k
         /\ \A j \in DOMAIN log, k \in DOMAIN log : Contains(log[k].part, log[j].part) => j <= k
<1>1. Len(log) \in Nat /\ DOMAIN log = 1 .. Len(log) /\ \A k \in DOMAIN log : log[k] \in Entry
  BY DEF TypeOK
<1>2. Merges < MAX_LEVEL /\ Merges \in Nat
  <2>1. budget.selections \in Nat
    BY DEF TypeOK
  <2> QED
    BY <2>1, CardinalityFacts DEF LevelsInv, MAX_LEVEL
<1>3. \A k \in DOMAIN log : log[k].part \in Part /\ log[k].part.level \in Nat /\ log[k].part.max \in Nat
  BY <1>1 DEF Entry, Part
<1>4. \A k \in DOMAIN log : IsDrop(k) => log[k].part.level = MAX_LEVEL
  BY DEF EntriesInv
<1>5. \A k \in DOMAIN log : ~IsDrop(k) => log[k].part.level < MAX_LEVEL
  BY <1>2, <1>3 DEF EntriesInv, MAX_LEVEL
<1>6. \A k \in DOMAIN log : log[k].part \in Name
  BY <1>3, <1>4, <1>5 DEF Name, MAX_LEVEL
<1>7. \A k \in DOMAIN log : IsDrop(k) <=> IsFakeDropRangePart(log[k].part)
  BY <1>3, <1>4, <1>5 DEF IsFakeDropRangePart, MAX_LEVEL
<1>8. \A k \in DOMAIN log : log[k].part.max <= next_block /\ next_block \in Nat
  BY <1>3 DEF EntriesInv, TypeOK
<1>9. Laminar({log[k].part : k \in DOMAIN log})
  <2> SUFFICES ASSUME NEW j \in DOMAIN log, NEW k \in DOMAIN log
               PROVE  LET x == log[j].part
                          y == log[k].part
                      IN  IsDisjoint(x, y) \/ Contains(x, y) \/ Contains(y, x)
    BY DEF Laminar
  <2>1. CASE j = k
    BY <2>1, <1>6, ContainsOrder
  <2>2. CASE j < k
    BY <2>2 DEF LaminarInv
  <2>3. CASE k < j
    BY <2>3, <1>3 DEF LaminarInv, IsDisjoint
  <2> QED
    BY <1>1, <2>1, <2>2, <2>3
<1>10. ASSUME NEW j \in DOMAIN log, NEW k \in DOMAIN log, Contains(log[k].part, log[j].part), k < j
       PROVE  FALSE
  <2>1. log[j].part \in Name /\ log[k].part \in Name
    BY <1>6
  <2>2. ~IsDisjoint(log[k].part, log[j].part)
    BY <1>10, <2>1, ContainsOrder
  <2>3. Contains(log[j].part, log[k].part) /\ log[j].part # log[k].part
    BY <1>10, <2>2 DEF LaminarInv
  <2> QED
    BY <1>10, <2>1, <2>3, ContainsOrder
<1>11. ASSUME NEW j \in DOMAIN log, NEW k \in DOMAIN log, log[j].part = log[k].part
       PROVE  j = k
  <2>1. Contains(log[k].part, log[j].part) /\ Contains(log[j].part, log[k].part)
    BY <1>6, <1>11, ContainsOrder
  <2> QED
    BY <1>1, <1>10, <2>1
<1> QED
  BY <1>1, <1>3, <1>6, <1>7, <1>8, <1>9, <1>10, <1>11

(* The replayed table: the maximal parts of the log that are no ranges.    *)
LEMMA ReplayedMaximal ==
  ASSUME TypeOK, EntriesInv, LaminarInv, LevelsInv, NEW n \in 0 .. Len(log)
  PROVE  Replayed(n) = Real(MaximalParts(LogParts(n)))
<1> DEFINE F(f) == [k \in 0 .. n |-> IF k = 0 THEN {}
                       ELSE IF IsDrop(k) THEN {p \in f[k - 1] : ~Contains(log[k].part, p)}
                       ELSE Add(f[k - 1], log[k].part)]
           w == [k \in 0 .. n |-> Real(MaximalParts(LogParts(k)))]
           g == CHOOSE f : f = F(f)
<1>0. n \in Nat /\ Len(log) \in Nat /\ DOMAIN log = 1 .. Len(log) /\ n <= Len(log)
  BY LogFacts
<1>1. Real(MaximalParts(LogParts(0))) = {}
  <2>1. LogParts(0) = {}
    BY DEF LogParts
  <2> QED
    BY <2>1 DEF Real, MaximalParts
<1>2. ASSUME NEW k \in 1 .. n
      PROVE  Real(MaximalParts(LogParts(k))) =
                 IF IsDrop(k) THEN {p \in Real(MaximalParts(LogParts(k - 1))) : ~Contains(log[k].part, p)}
                 ELSE Add(Real(MaximalParts(LogParts(k - 1))), log[k].part)
  <2> DEFINE X == LogParts(k - 1)
             M == MaximalParts(X)
             e == log[k].part
  <2>1. k \in DOMAIN log /\ k - 1 \in Nat /\ 1 .. k = (1 .. (k - 1)) \cup {k}
    BY <1>0
  <2>2. LogParts(k) = X \cup {e}
    BY <2>1 DEF LogParts
  <2>3. \A x \in X : \E j \in DOMAIN log : j < k /\ x = log[j].part
    BY <1>0, <2>1 DEF LogParts
  <2>4. \A x \in X : x \in Name /\ x # e /\ ~Contains(x, e)
    <3> SUFFICES ASSUME NEW x \in X
                 PROVE  x \in Name /\ x # e /\ ~Contains(x, e)
      OBVIOUS
    <3>1. PICK j \in DOMAIN log : j < k /\ x = log[j].part
      BY <2>3
    <3>2. ~(k <= j)
      BY <1>0, <2>1, <3>1
    <3> QED
      BY <2>1, <3>1, <3>2, LogFacts
  <2>5. e \in Name /\ (IsDrop(k) <=> IsFakeDropRangePart(e))
    BY <2>1, LogFacts
  <2> HIDE DEF X, e
  <2>6. MaximalParts(X \cup {e}) = {x \in M : ~Contains(e, x)} \cup {e}
    BY <2>4 DEF MaximalParts
  <2>7. CASE IsDrop(k)
    BY <2>2, <2>5, <2>6, <2>7 DEF Real, e, X
  <2>8. CASE ~IsDrop(k)
    <3> DEFINE R == Real(M)
    <3>1. R \subseteq X /\ R \in SUBSET Name
      BY <2>4 DEF Real, MaximalParts
    <3>2. Laminar(X \cup {e})
      <4>1. X \cup {e} \subseteq {log[j].part : j \in DOMAIN log}
        BY <2>1, <2>3 DEF e
      <4> QED
        BY <4>1, LogFacts DEF Laminar
    <3>3. Laminar(R \cup {e}) /\ Laminar(X) /\ Laminar(R)
      BY <3>1, <3>2 DEF Laminar
    <3>4. Disjoint(R)
      <4>1. Disjoint(M)
        BY <2>4, <3>3, MaximalFacts
      <4> QED
        BY <4>1 DEF Disjoint, Real
    <3>5. \A x \in R : x.max <= next_block
      BY <2>3, <3>1, LogFacts
    <3>6. next_block \in Nat
      BY DEF TypeOK
    <3> HIDE DEF R
    <3>7. MaximalParts(R) = R
      BY <3>1, <3>3, <3>4, MaximalFacts
    <3>8. Add(R, e) = MaximalParts(R \cup {e})
      BY <2>5, <3>1, <3>3, <3>5, <3>6, <3>7, AddMaximal
    <3>9. MaximalParts(R \cup {e}) = {x \in R : ~Contains(e, x)} \cup {e}
      <4>1. \A x \in R : x # e /\ ~Contains(x, e)
        BY <2>4, <3>1
      <4>2. \A x \in R, y \in R : Contains(y, x) => y = x
        BY <3>7 DEF MaximalParts
      <4> QED
        BY <4>1, <4>2 DEF MaximalParts
    <3>10. Real({x \in M : ~Contains(e, x)} \cup {e}) = {x \in R : ~Contains(e, x)} \cup {e}
      BY <2>5, <2>8 DEF Real, R
    <3> QED
      BY <2>2, <2>6, <2>8, <3>8, <3>9, <3>10 DEF R, e, X
  <2> QED
    BY <2>7, <2>8
<1>3. w = F(w)
  <2>1. ASSUME NEW k \in 0 .. n
        PROVE  w[k] = F(w)[k]
    <3>1. CASE k = 0
      BY <1>0, <1>1, <3>1
    <3>2. CASE k # 0
      <4>1. k \in 1 .. n /\ k - 1 \in 0 .. n
        BY <1>0, <3>2
      <4>2. w[k - 1] = Real(MaximalParts(LogParts(k - 1))) /\ w[k] = Real(MaximalParts(LogParts(k)))
        BY <4>1
      <4> HIDE DEF w
      <4> QED
        BY <4>1, <4>2, <1>2, <3>2
    <3> QED
      BY <3>1, <3>2
  <2> QED
    BY <2>1
<1>4. g = F(g)
  <2> HIDE DEF F, w
  <2> QED
    BY <1>3
<1>5. Replayed(n) = g[n]
  BY Zenon DEF Replayed
<1> HIDE DEF g
<1>6. \A k \in 0 .. n : g[k] = w[k]
  <2> DEFINE Bad == {k \in 0 .. n : g[k] # w[k]}
  <2> SUFFICES ASSUME Bad # {} PROVE FALSE
    OBVIOUS
  <2>1. Bad \in SUBSET Nat
    BY <1>0
  <2>2. PICK b \in Bad : \A m \in Bad : b <= m
    <3> HIDE DEF Bad
    <3> QED BY <2>1, LeastElement
  <2>3. b \in 0 .. n /\ g[b] = F(g)[b] /\ w[b] = F(w)[b]
    BY <1>3, <1>4
  <2>4. b # 0
    BY <2>2, <2>3
  <2>5. b - 1 \in 0 .. n /\ b - 1 \notin Bad
    BY <1>0, <2>2, <2>3, <2>4
  <2>6. g[b - 1] = w[b - 1]
    BY <2>5
  <2> QED
    BY <2>2, <2>3, <2>4, <2>6
<1> QED
  BY <1>0, <1>5, <1>6
-----------------------------------------------------------------------------
(* The part a merge makes.                                                 *)

(* The part made from a run: the least and the greatest of its parts.      *)
LEMMA MergedPartFacts ==
  ASSUME NEW run \in SUBSET Part, run # {}, NEW N \in Nat,
         \A p \in run : p.max <= N /\ p.level <= N
  PROVE  LET mp == MergedPart(run)
         IN  /\ mp \in Part
             /\ \A p \in run : mp.min <= p.min /\ p.max <= mp.max /\ p.level < mp.level
             /\ \E p \in run : mp.min = p.min
             /\ \E p \in run : mp.max = p.max
             /\ \E p \in run : mp.level = 1 + p.level
<1>1. \A p \in run : p \in [min : Nat, max : Nat, level : Nat] /\ p.min <= p.max
  BY DEF Part
<1> DEFINE Mins == {p.min : p \in run}
           Maxs == {p.max : p \in run}
           Lvls == {p.level : p \in run}
           HighM == {N - p.max : p \in run}
           HighL == {N - p.level : p \in run}
<1>2. \E n \in Mins : \A p \in run : n <= p.min
  <2>1. Mins \in SUBSET Nat /\ Mins # {}
    BY <1>1
  <2>2. PICK n \in Mins : \A m \in Mins : n <= m
    <3> HIDE DEF Mins
    <3> QED BY <2>1, LeastElement
  <2> QED
    BY <2>2
<1>3. \E n \in Maxs : \A p \in run : n >= p.max
  <2>1. HighM \in SUBSET Nat /\ HighM # {}
    BY <1>1
  <2>2. PICK n \in HighM : \A m \in HighM : n <= m
    <3> HIDE DEF HighM
    <3> QED BY <2>1, LeastElement
  <2>3. PICK q \in run : n = N - q.max
    OBVIOUS
  <2>4. \A p \in run : N - q.max <= N - p.max
    BY <2>2, <2>3
  <2>5. \A p \in run : q.max >= p.max
    BY <1>1, <2>4
  <2> QED
    BY <2>5
<1>4. \E n \in Lvls : \A p \in run : n >= p.level
  <2>1. HighL \in SUBSET Nat /\ HighL # {}
    BY <1>1
  <2>2. PICK n \in HighL : \A m \in HighL : n <= m
    <3> HIDE DEF HighL
    <3> QED BY <2>1, LeastElement
  <2>3. PICK q \in run : n = N - q.level
    OBVIOUS
  <2>4. \A p \in run : N - q.level <= N - p.level
    BY <2>2, <2>3
  <2>5. \A p \in run : q.level >= p.level
    BY <1>1, <2>4
  <2> QED
    BY <2>5
<1> DEFINE mn == CHOOSE n \in {p.min : p \in run} : \A p \in run : n <= p.min
           mx == CHOOSE n \in {p.max : p \in run} : \A p \in run : n >= p.max
           lv == CHOOSE n \in {p.level : p \in run} : \A p \in run : n >= p.level
<1>5. mn \in Mins /\ \A p \in run : mn <= p.min
  BY <1>2
<1>6. mx \in Maxs /\ \A p \in run : mx >= p.max
  BY <1>3
<1>7. lv \in Lvls /\ \A p \in run : lv >= p.level
  BY <1>4
<1>8. MergedPart(run) = [min |-> mn, max |-> mx, level |-> 1 + lv]
  BY DEF MergedPart
<1> HIDE DEF mn, mx, lv
<1>9. mn \in Nat /\ mx \in Nat /\ lv \in Nat /\ mn <= mx
  <2>1. PICK q \in run : TRUE
    OBVIOUS
  <2>2. mn \in Nat /\ mx \in Nat /\ lv \in Nat
    BY <1>1, <1>5, <1>6, <1>7
  <2>3. mn <= q.min /\ q.min <= q.max /\ q.max <= mx /\ q.min \in Nat /\ q.max \in Nat
    BY <1>1, <1>5, <1>6
  <2> QED
    BY <2>2, <2>3
<1>10. MergedPart(run) \in Part
  BY <1>8, <1>9 DEF Part
<1>11. \A p \in run : MergedPart(run).min <= p.min /\ p.max <= MergedPart(run).max /\ p.level < MergedPart(run).level
  BY <1>1, <1>5, <1>6, <1>7, <1>8, <1>9
<1>12. /\ \E p \in run : mn = p.min
       /\ \E p \in run : mx = p.max
       /\ \E p \in run : lv = p.level
  BY <1>5, <1>6, <1>7
<1> QED
  BY <1>8, <1>10, <1>11, <1>12

(* The part before a part of the set.                                      *)
LEMMA PreviousExists ==
  ASSUME NEW A \in SUBSET Part, Disjoint(A), NEW q \in A, NEW a \in A, Before(a, q)
  PROVE  \E p \in A : Previous(A, q) = {p} /\ Before(p, q) /\ (p = a \/ Before(a, p))
<1>1. \A p \in A : p \in Part /\ p.min \in Nat /\ p.max \in Nat /\ p.level \in Nat /\ p.min <= p.max
  BY DEF Part
<1>2. \A x \in A, y \in A : x # y => (Before(x, y) <=> x.max < y.min) /\ (Before(x, y) \/ Before(y, x))
  BY Ordered
<1> DEFINE Below == {p \in A : Before(p, q)}
           U == {q.min - p.min : p \in Below}
<1>3. \A p \in Below : p \in A /\ p.max < q.min /\ p # q
  BY <1>1, <1>2 DEF Before
<1>4. U \in SUBSET Nat /\ U # {}
  BY <1>1, <1>3
<1>5. PICK u \in U : \A m \in U : u <= m
  <2> HIDE DEF U
  <2> QED BY <1>4, LeastElement
<1>6. PICK p \in Below : u = q.min - p.min
  OBVIOUS
<1>7. \A x \in Below : x.min <= p.min
  <2> SUFFICES ASSUME NEW x \in Below PROVE x.min <= p.min
    OBVIOUS
  <2>1. q.min - p.min <= q.min - x.min
    BY <1>5, <1>6
  <2> QED
    BY <1>1, <1>3, <2>1
<1>8. ASSUME NEW x \in A, Before(x, q), x # p
      PROVE  Before(x, p) /\ ~Before(p, x)
  <2>1. x.min <= p.min
    BY <1>7, <1>8
  <2>2. IsDisjoint(x, p)
    BY <1>3, <1>8 DEF Disjoint
  <2>3. x.max < p.min
    BY <1>1, <1>3, <2>1, <2>2 DEF IsDisjoint
  <2> QED
    BY <1>1, <1>3, <2>3 DEF Before
<1>9. p \in A /\ Before(p, q)
  OBVIOUS
<1> HIDE DEF Below
<1>10. Previous(A, q) = {p}
  BY <1>8, <1>9 DEF Previous
<1> QED
  BY <1>8, <1>9, <1>10

(* The run leaves out no part of A between two of its own.                 *)
Convex(A, run) ==
    \A p \in A : (\E a \in run, b \in run : Before(a, p) /\ Before(p, b)) => p \in run

Neighbours(A, p, q) == Previous(A, q) = {p} \/ Previous(A, p) = {q}

(* A part of a run has a neighbour in the run.                             *)
LEMMA RunNeighbours ==
  ASSUME NEW A \in SUBSET Part, Disjoint(A), NEW run \in SUBSET A,
         Convex(A, run),
         NEW p \in run, NEW y \in run, y # p
  PROVE  \E q \in run : Neighbours(A, p, q)
<1>1. \A x \in A : x \in Part /\ x.min \in Nat /\ x.max \in Nat /\ x.level \in Nat /\ x.min <= x.max
  BY DEF Part
<1>2. \A x, z \in A : x # z => (Before(x, z) <=> x.max < z.min) /\ (Before(x, z) \/ Before(z, x))
  BY Ordered
<1>3. CASE Before(y, p)
  <2>1. PICK q \in A : Previous(A, p) = {q} /\ Before(q, p) /\ (q = y \/ Before(y, q))
    BY <1>3, PreviousExists
  <2> QED
    BY <2>1 DEF Convex, Neighbours
<1>4. CASE Before(p, y)
  <2> DEFINE Above == {x \in run : Before(p, x)}
             T == {x.min : x \in Above}
  <2>1. T \in SUBSET Nat /\ T # {}
    BY <1>1, <1>4
  <2>2. PICK t \in T : \A m \in T : t <= m
    <3> HIDE DEF T
    <3> QED BY <2>1, LeastElement
  <2>3. PICK q \in Above : t = q.min
    OBVIOUS
  <2>4. q \in run /\ Before(p, q) /\ \A x \in run : Before(p, x) => q.min <= x.min
    BY <2>2, <2>3
  <2>5. PICK z \in A : Previous(A, q) = {z} /\ Before(z, q) /\ (z = p \/ Before(p, z))
    BY <2>4, PreviousExists
  <2>6. CASE z # p
    <3>1. z \in run /\ Before(p, z)
      BY <2>4, <2>5, <2>6 DEF Convex
    <3>2. q.min <= z.min
      BY <2>4, <3>1
    <3>3. z # q => z.max < q.min
      BY <1>2, <2>4, <2>5
    <3>4. z # q
      BY <1>1, <2>5 DEF Before
    <3> QED
      BY <1>1, <2>4, <3>2, <3>3, <3>4
  <2> QED
    BY <2>4, <2>5, <2>6 DEF Neighbours
<1> QED
  BY <1>2, <1>3, <1>4

(* A number in the range of a merge is in the range of a source, or in the *)
(* gap between two neighbours.                                             *)
LEMMA RunGaps ==
  ASSUME NEW A \in SUBSET Part, Disjoint(A), NEW run \in SUBSET A,
         Convex(A, run),
         NEW n \in Nat, NEW a \in run, NEW b \in run, a.min <= n, n <= b.max,
         \A p \in run : n < p.min \/ p.max < n
  PROVE  \E p \in run, q \in run : Previous(A, q) = {p} /\ p.max < n /\ n < q.min
<1>1. \A p \in A : p \in Part /\ p.min \in Nat /\ p.max \in Nat /\ p.level \in Nat /\ p.min <= p.max
  BY DEF Part
<1>2. a.max < n /\ n < b.min
  BY <1>1
<1> DEFINE Above == {p \in run : n < p.min}
           T == {p.min : p \in Above}
<1>3. T \in SUBSET Nat /\ T # {}
  BY <1>1, <1>2
<1>4. PICK t \in T : \A m \in T : t <= m
  <2> HIDE DEF T
  <2> QED BY <1>3, LeastElement
<1>5. PICK q \in Above : t = q.min
  OBVIOUS
<1>6. q \in run /\ n < q.min /\ q \in A /\ \A p \in run : n < p.min => q.min <= p.min
  BY <1>4, <1>5
<1>7. Before(a, q)
  BY <1>1, <1>2, <1>6 DEF Before
<1>8. PICK p \in A : Previous(A, q) = {p} /\ Before(p, q) /\ (p = a \/ Before(a, p))
  BY <1>6, <1>7, PreviousExists
<1>9. p \in run
  BY <1>6, <1>8 DEF Convex
<1>10. p.max < q.min
  <2>1. p # q
    BY <1>1, <1>6, <1>8 DEF Before
  <2> QED
    BY <1>6, <1>8, <2>1, Ordered
<1>11. p.max < n
  <2>1. ~(n < p.min)
    BY <1>1, <1>6, <1>9, <1>10
  <2> QED
    BY <1>9, <2>1
<1> QED
  BY <1>6, <1>8, <1>9, <1>11
-----------------------------------------------------------------------------
(* The inductive invariant.                                                *)
IInv ==
    /\ TypeOK /\ NumbersInv /\ MultisInv /\ DropsInv /\ InsertsInv
    /\ EntriesInv /\ LaminarInv /\ LocksInv /\ LevelsInv /\ MergesLoseNoBlock
    /\ PredicateInv /\ VirtualInv /\ PartsInv /\ QueueInv /\ ExecutingInv
    /\ KeptInv /\ OnceInv

(* The argument of canMergeTwoParts(): when the version of /log has not    *)
(* changed, a merge takes no number in use, covers no entry that is not in *)
(* one of its sources and touches no dropped range.                        *)
LEMMA MergeStep ==
  ASSUME IInv, NEW r \in Replicas, predicate[r].stage = "ready",
         NEW run \in MergeableRuns(r), predicate[r].version = LogVersion
  PROVE  LET mp == MergedPart(run)
         IN  /\ mp \in Part /\ run \in SUBSET Part
             /\ mp.max < next_block /\ mp.level > 0 /\ mp.level <= Merges + 1
             /\ \A l \in locks : l.block < mp.min \/ l.block > mp.max
             /\ \A k \in DOMAIN log :
                    \/ IsDisjoint(log[k].part, mp)
                    \/ /\ ~IsDrop(k)
                       /\ \E p \in run : Contains(p, log[k].part)
                       /\ Contains(mp, log[k].part)
                       /\ log[k].part # mp
<1> DEFINE A == active[r]
           V == virtual_parts[r]
           lp == log_pointer[r]
           LP == LogParts(lp - 1)
           mp == MergedPart(run)
<1> USE DEF IInv
<1>1. /\ A \in SUBSET Part /\ Disjoint(A) /\ run \in SUBSET A
      /\ Convex(A, run)
      /\ \A p \in run, q \in run : Previous(A, q) = {p} => CanMergeTwoParts(r, p, q)
  BY DEF TypeOK, PartsInv, MergeableRuns, Convex
<1>2. /\ Len(log) \in Nat /\ DOMAIN log = 1 .. Len(log)
      /\ lp \in 1 .. Len(log) + 1
      /\ next_block \in Nat
  BY LogFacts DEF QueueInv, TypeOK
<1>3. /\ LP \subseteq {log[k].part : k \in DOMAIN log}
      /\ \A x \in LP : \E k \in DOMAIN log : k < lp /\ x = log[k].part
  BY <1>2 DEF LogParts
<1>4. /\ LP \in SUBSET Name /\ Laminar(LP)
      /\ \A x \in LP : x.max <= next_block
  <2>1. LP \in SUBSET Name /\ \A x \in LP : x.max <= next_block
    BY <1>3, LogFacts
  <2> QED
    BY <1>3, <2>1, LogFacts DEF Laminar
<1>5. /\ V \in SUBSET Part /\ V \subseteq LP /\ Disjoint(V) /\ Real(V) = Real(MaximalParts(LP))
  BY DEF VirtualInv, TypeOK
<1>6. \A p \in run : \E k \in DOMAIN log : ~IsDrop(k) /\ log[k].part = p
  BY <1>1 DEF PartsInv
<1>7. run # {} /\ \A p \in run : run # {p}
  <2>1. Cardinality(run) > 1
    BY DEF MergeableRuns
  <2> QED
    <3>1. Cardinality({}) = 0 /\ \A p \in run : Cardinality({p}) = 1
      BY FS_EmptySet, FS_Singleton
    <3> QED
      BY <2>1, <3>1
<1> HIDE DEF A
<1>8. ASSUME NEW p \in run
      PROVE  /\ p \in V /\ p \in Real(V)
             /\ \E v \in predicate[r].prev : p.max <= v.max
  <2>1. PICK y \in run : y # p
    BY <1>7
  <2>2. PICK q \in run : Neighbours(A, p, q)
    BY <1>1, <2>1, RunNeighbours
  <2>3. IsCovered(predicate[r].prev, p) /\ GetContainingPart(V, p) = {p}
    BY <1>1, <2>2 DEF CanMergeTwoParts, Neighbours
  <2>4. \A S : \A x \in GetContainingPart(S, p) : x \in S /\ Contains(x, p)
    BY DEF GetContainingPart, LowerBound, Previous
  <2>5. p \in V
    BY <2>3, <2>4
  <2>6. \E v \in predicate[r].prev : Contains(v, p)
    BY <2>3, <2>4 DEF IsCovered
  <2>7. ~IsFakeDropRangePart(p)
    BY <1>6, LogFacts
  <2>8. predicate[r].prev \in SUBSET Part
    BY DEF TypeOK
  <2> QED
    BY <2>5, <2>6, <2>7, <2>8 DEF Real, Contains, Part
<1>9. /\ \A p \in run : p \in Name /\ p.max < next_block /\ p.level <= Merges
                        /\ p.min \in Nat /\ p.max \in Nat /\ p.min <= p.max /\ p.level \in Nat
      /\ Merges \in Nat
  <2>1. \A p \in run : p.min \in Nat /\ p.max \in Nat /\ p.min <= p.max /\ p.level \in Nat
    BY <1>1 DEF Part
  <2> QED
    BY <1>6, <2>1, LogFacts, CardinalityFacts DEF EntriesInv
<1> HIDE DEF V, LP
<1>10. /\ mp \in Part
       /\ \A p \in run : mp.min <= p.min /\ p.max <= mp.max /\ p.level < mp.level
       /\ \E p \in run : mp.min = p.min
       /\ \E p \in run : mp.max = p.max
       /\ \E p \in run : mp.level = 1 + p.level
  <2> DEFINE N == next_block + Merges
  <2>1. N \in Nat /\ \A p \in run : p.max <= N /\ p.level <= N
    BY <1>2, <1>9
  <2>2. run \in SUBSET Part
    BY <1>1
  <2> HIDE DEF N
  <2> QED
    BY <1>7, <2>1, <2>2, MergedPartFacts
<1> HIDE DEF mp
<1>11. /\ mp.min \in Nat /\ mp.max \in Nat /\ mp.level \in Nat /\ mp.min <= mp.max
       /\ mp.max < next_block /\ mp.level > 0 /\ mp.level <= Merges + 1
  <2>1. mp.min \in Nat /\ mp.max \in Nat /\ mp.level \in Nat /\ mp.min <= mp.max
    BY <1>10 DEF Part
  <2> QED
    BY <1>9, <1>10, <2>1
<1>12. ASSUME NEW n \in Nat, mp.min <= n, n <= mp.max, \A p \in run : n < p.min \/ p.max < n
       PROVE  \E p \in run, q \in run :
                  CanMergeTwoParts(r, p, q) /\ p.max < n /\ n < q.min
  <2>1. PICK a \in run, b \in run : a.min = mp.min /\ b.max = mp.max
    BY <1>10
  <2>2. \E p \in run, q \in run : Previous(A, q) = {p} /\ p.max < n /\ n < q.min
    BY <1>1, <1>12, <2>1, RunGaps
  <2> QED
    BY <1>1, <2>2
<1>13. ASSUME NEW n \in predicate[r].committing, n \in Nat, mp.min <= n, n <= mp.max,
              \A p \in run : n < p.min \/ p.max < n
       PROVE  FALSE
  <2>1. PICK p \in run, q \in run : CanMergeTwoParts(r, p, q) /\ p.max < n /\ n < q.min
    BY <1>12, <1>13
  <2>2. p.max + 1 < q.min
    BY <1>9, <1>13, <2>1
  <2> QED
    BY <2>1, <2>2 DEF CanMergeTwoParts
<1>14. \A n \in Nat : n <= mp.max => \E v \in predicate[r].prev : n <= v.max
  <2>1. PICK b \in run : b.max = mp.max
    BY <1>10
  <2>2. PICK v \in predicate[r].prev : b.max <= v.max
    BY <1>8
  <2>3. v.max \in Nat
    BY DEF TypeOK, Part
  <2> QED
    BY <1>11, <2>1, <2>2, <2>3
<1>15. ASSUME NEW l \in locks
       PROVE  l.block < mp.min \/ l.block > mp.max
  <2> SUFFICES ASSUME mp.min <= l.block, l.block <= mp.max
               PROVE  FALSE
    <3>1. l.block \in Nat
      BY DEF TypeOK
    <3> QED
      BY <1>11, <3>1
  <2>1. l.block \in Nat
    BY DEF TypeOK
  <2>2. \A p \in run : l.block < p.min \/ p.max < l.block
    BY <1>6, <1>9, <2>1 DEF LocksInv
  <2>3. l.block \in predicate[r].committing
    BY <1>14, <2>1 DEF PredicateInv
  <2> QED
    BY <1>13, <2>1, <2>2, <2>3
<1>16. ASSUME NEW k \in DOMAIN log, ~IsDisjoint(log[k].part, mp)
       PROVE  ~IsDrop(k) /\ \E p \in run : Contains(p, log[k].part)
  <2> DEFINE e == log[k].part
  <2>0. e \in Name /\ e.min \in Nat /\ e.max \in Nat /\ e.level \in Nat /\ e.min <= e.max
    BY LogFacts DEF Name, Part
  <2>1. CASE k >= lp
    <3>1. IsGet(k)
      BY <1>2, <2>1, CardinalityFacts DEF PredicateInv
    <3>2. e = Block(e.max)
      BY <3>1 DEF EntriesInv
    <3>3. e.min = e.max /\ e.level = 0
      BY <3>2 DEF Block
    <3>4. mp.min <= e.max /\ e.max <= mp.max
      BY <1>11, <1>16, <2>0, <3>3 DEF IsDisjoint
    <3>5. \A p \in run : e.max < p.min \/ p.max < e.max
      <4> SUFFICES ASSUME NEW p \in run, p.min <= e.max, e.max <= p.max
                   PROVE  FALSE
        BY <1>9, <2>0
      <4>1. PICK j \in DOMAIN log : j < lp /\ p = log[j].part
        BY <1>3, <1>5, <1>8
      <4>2. j < k
        BY <1>2, <2>1, <4>1
      <4>3. ~IsDisjoint(log[j].part, e)
        BY <1>9, <2>0, <3>3, <4>1 DEF IsDisjoint
      <4>4. Contains(e, p) /\ p # e
        BY <4>1, <4>2, <4>3 DEF LaminarInv
      <4>5. p.min = e.min /\ p.max = e.max /\ p.level = e.level
        BY <1>9, <2>0, <3>3, <4>4 DEF Contains
      <4>6. p \in [min : Nat, max : Nat, level : Nat] /\ e \in [min : Nat, max : Nat, level : Nat]
        BY <1>9, <2>0 DEF Name, Part
      <4> QED
        BY <4>4, <4>5, <4>6
    <3>6. e.max \in predicate[r].committing
      BY <1>14, <2>0, <2>1, <3>1, <3>4 DEF PredicateInv
    <3> QED
      BY <1>13, <2>0, <3>4, <3>5, <3>6
  <2>2. CASE k < lp
    <3>1. e \in LP
      BY <1>2, <2>2 DEF LP, LogParts
    <3>2. PICK m \in MaximalParts(LP) : Contains(m, e)
      <4> HIDE DEF e
      <4> QED
        BY <1>2, <1>4, <3>1, MaximalExists
    <3>3. m \in LP /\ m \in Name /\ m.min \in Nat /\ m.max \in Nat /\ m.level \in Nat /\ m.min <= m.max
      BY <1>4 DEF MaximalParts, Name, Part
    <3>4. m.min <= mp.max /\ mp.min <= m.max
      BY <1>11, <1>16, <2>0, <3>2, <3>3 DEF Contains, IsDisjoint
    <3>5. CASE IsFakeDropRangePart(m)
      <4>1. PICK i \in DOMAIN log : i < lp /\ m = log[i].part
        BY <1>3, <3>3
      <4>2. m.min = 0
        BY <3>5, <4>1, LogFacts DEF EntriesInv
      <4>3. PICK p \in run : mp.min = p.min
        BY <1>10
      <4>4. p \in MaximalParts(LP) /\ p # m
        BY <1>5, <1>8, <3>5 DEF Real
      <4>5. IsDisjoint(p, m)
        <5>1. Disjoint(MaximalParts(LP))
          BY <1>4, MaximalFacts
        <5> QED
          BY <4>4, <5>1 DEF Disjoint
      <4> QED
        BY <1>9, <3>3, <3>4, <4>2, <4>3, <4>5 DEF IsDisjoint
    <3>6. CASE ~IsFakeDropRangePart(m)
      <4>1. m \in V
        BY <1>5, <3>6 DEF Real
      <4>2. ~IsDrop(k)
        <5>1. IsDrop(k) => e.level = MAX_LEVEL
          BY DEF EntriesInv
        <5>2. m.level <= MAX_LEVEL
          BY <3>3 DEF Name
        <5> QED
          BY <2>0, <3>2, <3>3, <3>6, <5>1, <5>2 DEF Contains, IsFakeDropRangePart, MAX_LEVEL
      <4>3. CASE m \in run
        BY <3>2, <4>2, <4>3
      <4>4. CASE m \notin run
        <5>1. \A p \in run : p.max < m.min \/ m.max < p.min
          <6> SUFFICES ASSUME NEW p \in run
                       PROVE  p.max < m.min \/ m.max < p.min
            OBVIOUS
          <6>1. IsDisjoint(p, m)
            BY <1>5, <1>8, <4>1, <4>4 DEF Disjoint
          <6> QED
            BY <1>9, <3>3, <6>1 DEF IsDisjoint
        <5>2. \E n \in Nat : mp.min <= n /\ n <= mp.max /\ m.min <= n /\ n <= m.max
          <6>1. CASE mp.min <= m.min
            BY <3>3, <3>4, <6>1
          <6>2. CASE m.min <= mp.min
            BY <1>11, <3>3, <3>4, <6>2
          <6> QED
            BY <1>11, <3>3, <6>1, <6>2
        <5>3. PICK n \in Nat : mp.min <= n /\ n <= mp.max /\ m.min <= n /\ n <= m.max
          BY <5>2
        <5>4. \A p \in run : n < p.min \/ p.max < n
          BY <1>9, <3>3, <5>1, <5>3
        <5>5. PICK p \in run, q \in run : CanMergeTwoParts(r, p, q) /\ p.max < n /\ n < q.min
          BY <1>12, <5>3, <5>4
        <5> DEFINE gap == [min |-> p.max + 1, max |-> q.min - 1, level |-> MAX_LEVEL]
        <5>6. p.max < m.min /\ m.max < q.min /\ p.max + 1 < q.min
          <6>1. p.max < m.min
            BY <1>9, <3>3, <5>1, <5>3, <5>5
          <6>2. m.max < q.min
            BY <1>9, <3>3, <5>1, <5>3, <5>5
          <6>3. p.max + 1 < q.min
            BY <1>9, <3>3, <6>1, <6>2
          <6> QED
            BY <6>1, <6>2, <6>3
        <5>7. gap \in Part /\ IsFakeDropRangePart(gap) /\ Contains(gap, m)
          <6>1. p.max + 1 \in Nat /\ q.min - 1 \in Nat /\ p.max + 1 <= q.min - 1
            BY <1>9, <5>6
          <6>2. gap \in Part
            BY <6>1 DEF Part, MAX_LEVEL
          <6>3. m.level <= MAX_LEVEL
            BY <3>3 DEF Name
          <6>4. gap.min <= m.min /\ gap.max >= m.max
            BY <1>9, <3>3, <5>6
          <6> QED
            BY <6>2, <6>3, <6>4, <3>3 DEF Contains, IsFakeDropRangePart, MAX_LEVEL
        <5>8. GetPartsCoveredBy(V, gap) = {}
          BY <5>5, <5>6 DEF CanMergeTwoParts, V
        <5>9. \A x \in V : x.level <= MAX_LEVEL
          BY <1>4, <1>5 DEF Name
        <5> HIDE DEF gap
        <5>10. m \in GetPartsCoveredBy(V, gap)
          BY <1>5, <4>1, <5>7, <5>9, CoveredPartsAreFound
        <5> QED
          BY <5>8, <5>10
      <4> QED
        BY <4>3, <4>4
    <3> QED
      BY <3>5, <3>6
  <2> QED
    BY <1>2, <2>1, <2>2
<1>17. ASSUME NEW k \in DOMAIN log, NEW p \in run, Contains(p, log[k].part)
       PROVE  Contains(mp, log[k].part) /\ log[k].part # mp
  <2>1. log[k].part.min \in Nat /\ log[k].part.max \in Nat /\ log[k].part.level \in Nat
    BY LogFacts DEF Name, Part
  <2> QED
    BY <1>9, <1>10, <1>11, <1>17, <2>1 DEF Contains
<1> QED
  BY <1>1, <1>10, <1>11, <1>15, <1>16, <1>17 DEF mp
-----------------------------------------------------------------------------
(* What each part of the invariant depends on.                             *)

LEMMA FrameNumbers ==
  ASSUME NumbersInv, UNCHANGED <<locks, next_block, insert, drop, multis>>
  PROVE  NumbersInv'
BY DEF NumbersInv

LEMMA FrameMultis ==
  ASSUME MultisInv, UNCHANGED <<multis, session, insert, locks, log>>
  PROVE  MultisInv'
BY DEF MultisInv, IsGet

LEMMA FrameDrops ==
  ASSUME DropsInv, UNCHANGED <<drop, locks, session, log>>
  PROVE  DropsInv'
BY DEF DropsInv, AlterVersion, IsDrop

LEMMA FrameInserts ==
  ASSUME InsertsInv, UNCHANGED <<insert, log, parts>>
  PROVE  InsertsInv'
BY DEF InsertsInv, IsGet

LEMMA FrameEntries ==
  ASSUME EntriesInv, UNCHANGED <<log, next_block>>
  PROVE  EntriesInv'
BY DEF EntriesInv, Merges, IsGet, IsMerge, IsDrop

LEMMA FrameLog ==
  ASSUME UNCHANGED log
  PROVE  /\ LaminarInv => LaminarInv'
         /\ MergesLoseNoBlock => MergesLoseNoBlock'
BY DEF LaminarInv, MergesLoseNoBlock

LEMMA FrameLocks ==
  ASSUME LocksInv, UNCHANGED log, locks' \subseteq locks
  PROVE  LocksInv'
BY DEF LocksInv, IsDrop

LEMMA FrameLevels ==
  ASSUME LevelsInv, UNCHANGED <<log, budget, predicate>>
  PROVE  LevelsInv'
BY DEF LevelsInv, Merges, Busy, IsMerge

LEMMA FramePredicate ==
  ASSUME PredicateInv, UNCHANGED <<predicate, next_block, log, log_pointer>>, locks' \subseteq locks
  PROVE  PredicateInv'
BY DEF PredicateInv, LogVersion, IsGet

LEMMA FrameVirtual ==
  ASSUME VirtualInv, UNCHANGED <<virtual_parts, log_pointer, log, queue>>
  PROVE  VirtualInv'
BY DEF VirtualInv, Real, MaximalParts, LogParts, LastDrop, IsDrop

LEMMA FrameParts ==
  ASSUME PartsInv, UNCHANGED <<active, outdated, parts, insert, log, log_pointer>>
  PROVE  PartsInv'
BY DEF PartsInv, OnDisk, PreActive, IsDrop

LEMMA FrameQueue ==
  ASSUME QueueInv, UNCHANGED <<log_pointer, queue, log, parts, executing>>
  PROVE  QueueInv'
BY DEF QueueInv, IsDrop

LEMMA FrameExecuting ==
  ASSUME ExecutingInv, UNCHANGED <<executing, log_pointer, queue, log, active, outdated, insert>>
  PROVE  ExecutingInv'
BY DEF ExecutingInv, IsDrop, PreActive

LEMMA FrameKept ==
  ASSUME KeptInv, UNCHANGED <<log, parts>>
  PROVE  KeptInv'
BY DEF KeptInv, IsGet, IsDrop

LEMMA FrameOnce ==
  ASSUME OnceInv, UNCHANGED <<log, blocks, insert>>
  PROVE  OnceInv'
BY DEF OnceInv, IsGet
-----------------------------------------------------------------------------
(* Queries.                                                                *)

Pending(i) == insert[i].stage \in {"writing", "recovering"}

(* The parts of the pending inserts of a replica.                          *)
LEMMA PreActiveDef ==
  ASSUME NEW r, NEW p
  PROVE  p \in PreActive(r) <=>
             \E i \in Inserts : HomeOf[i] = r /\ Pending(i) /\ p = Block(insert[i].block)
BY DEF PreActive, Pending

(* They change only with the queries.                                      *)
LEMMA PreActiveKept ==
  ASSUME \A i \in Inserts : /\ Pending(i)' <=> Pending(i)
                            /\ Pending(i) => insert'[i].block = insert[i].block
  PROVE  \A r \in Replicas : PreActive(r)' = PreActive(r)
BY DEF PreActive, Pending, Block

(* A query that holds no number becomes a duplicate, or ends.              *)
LEMMA QuietInsert ==
  ASSUME IInv, NEW i \in Inserts, ~Pending(i), NEW s \in {"duplicate", "done", "failed"},
         insert' = [insert EXCEPT ![i].stage = s],
         s = "done" => \E k \in DOMAIN log : IsGet(k) /\ log[k].data = DataOf[i],
         UNCHANGED <<keeper, memory, multis, drop, budget>>
  PROVE  IInv'
<1> USE DEF keeper, memory
<1>1. insert \in [Inserts -> [stage : {"none", "writing", "duplicate", "recovering", "done", "failed"},
                  block : Nat, answer : {"none", "ok", "duplicate", "cancelled", "expired"}]]
  BY DEF IInv, TypeOK
<1>2. /\ insert'[i].stage = s
      /\ \A j \in Inserts : j # i => insert'[j] = insert[j]
      /\ ~Pending(i)'
  BY <1>1 DEF Pending
<1>3. \A j \in Inserts : /\ Pending(j)' <=> Pending(j)
                         /\ Pending(j) => insert'[j] = insert[j]
  BY <1>2 DEF Pending
<1>4. TypeOK'
  <2>1. insert' \in [Inserts -> [stage : {"none", "writing", "duplicate", "recovering", "done", "failed"},
                  block : Nat, answer : {"none", "ok", "duplicate", "cancelled", "expired"}]]
    BY <1>1
  <2> QED
    BY <2>1 DEF IInv, TypeOK
<1>5. \A r \in Replicas : PreActive(r)' = PreActive(r)
  BY <1>3, PreActiveKept
<1>6. NumbersInv'
  BY <1>3 DEF IInv, NumbersInv, Pending
<1>7. MultisInv'
  <2> SUFFICES ASSUME NEW m \in multis
               PROVE  /\ m.session = session[HomeOf[m.insert]] =>
                             insert'[m.insert] = [stage |-> "writing", block |-> m.block, answer |-> "none"]
                      /\ \A j \in Inserts : Pending(j)' /\ insert'[j].block = m.block => j = m.insert
    BY DEF IInv, MultisInv, Pending, IsGet
  <2>1. m.insert \in Inserts
    BY DEF IInv, TypeOK
  <2>2. m.session = session[HomeOf[m.insert]] =>
            insert[m.insert] = [stage |-> "writing", block |-> m.block, answer |-> "none"]
    BY DEF IInv, MultisInv
  <2>3. insert[m.insert] = [stage |-> "writing", block |-> m.block, answer |-> "none"] => Pending(m.insert)
    BY DEF Pending
  <2>4. \A j \in Inserts : Pending(j) /\ insert[j].block = m.block => j = m.insert
    BY DEF IInv, MultisInv, Pending
  <2> QED
    BY <1>3, <2>1, <2>2, <2>3, <2>4
<1>8. InsertsInv'
  BY <1>3 DEF IInv, InsertsInv, Pending, IsGet
<1>9. PartsInv'
  BY <1>5 DEF IInv, PartsInv, OnDisk, IsDrop
<1>10. ExecutingInv'
  BY <1>5 DEF IInv, ExecutingInv, IsDrop
<1>11. OnceInv'
  BY <1>2 DEF IInv, OnceInv, IsGet
<1> QED
  BY <1>4, <1>6, <1>7, <1>8, <1>9, <1>10, <1>11, FrameDrops, FrameEntries, FrameLog, FrameLocks,
     FrameLevels, FramePredicate, FrameVirtual, FrameQueue, FrameKept
     DEF IInv

(* A block whose id exists takes no number.                                *)
LEMMA FindDuplicateStep ==
  ASSUME IInv, NEW i \in Inserts, FindDuplicate(i)
  PROVE  IInv'
<1>1. ~Pending(i) /\ insert' = [insert EXCEPT ![i].stage = "duplicate"]
      /\ UNCHANGED <<keeper, memory, multis, drop, budget>>
  BY DEF FindDuplicate, Pending
<1> QED
  BY <1>1, QuietInsert

(* A duplicate is acknowledged only if the block's id is there.            *)
LEMMA ResolveDuplicateStep ==
  ASSUME IInv, NEW i \in Inserts, ResolveDuplicate(i)
  PROVE  IInv'
<1> DEFINE s == IF \E b \in blocks : b.data = DataOf[i] THEN "done" ELSE "failed"
<1>1. ~Pending(i) /\ insert' = [insert EXCEPT ![i].stage = s]
      /\ UNCHANGED <<keeper, memory, multis, drop, budget>>
  BY DEF ResolveDuplicate, Pending
<1>2. s \in {"duplicate", "done", "failed"}
  OBVIOUS
<1>3. s = "done" => \E k \in DOMAIN log : IsGet(k) /\ log[k].data = DataOf[i]
  BY DEF IInv, OnceInv
<1> HIDE DEF s
<1> QED
  BY <1>1, <1>2, <1>3, QuietInsert

(* A number is given to an insert.                                         *)
LEMMA AllocateBlockNumberStep ==
  ASSUME IInv, NEW i \in Inserts, AllocateBlockNumber(i)
  PROVE  IInv'
<1> DEFINE r == HomeOf[i]
           l0 == Lock(next_block, "insert", r)
           m0 == [insert |-> i, block |-> next_block, session |-> session[r]]
<1> USE DEF memory
<1>0. r \in Replicas /\ session[r] \in Nat /\ next_block \in Nat
  BY ReplicationAssumption DEF IInv, TypeOK
<1>1. insert \in [Inserts -> [stage : {"none", "writing", "duplicate", "recovering", "done", "failed"},
                  block : Nat, answer : {"none", "ok", "duplicate", "cancelled", "expired"}]]
  BY DEF IInv, TypeOK
<1>2. /\ ~Pending(i) /\ insert[i].stage = "none"
      /\ next_block' = next_block + 1
      /\ locks' = locks \cup {l0}
      /\ insert'[i] = [stage |-> "writing", block |-> next_block, answer |-> "none"]
      /\ \A j \in Inserts : j # i => insert'[j] = insert[j]
      /\ multis' = multis \cup {m0}
      /\ UNCHANGED <<log, blocks, parts, queue, log_pointer, session, virtual_parts, executing,
                     active, outdated, predicate, drop, budget>>
  BY <1>1 DEF AllocateBlockNumber, Pending
<1>3. l0 = [block |-> next_block, kind |-> "insert", owner |-> r, session |-> session[r]]
  BY DEF Lock
<1> HIDE DEF r, l0, m0
<1>4. /\ Pending(i)'
      /\ \A j \in Inserts : Pending(j)' <=> Pending(j) \/ j = i
  BY <1>2 DEF Pending
<1>5. TypeOK'
  <2>1. insert' \in [Inserts -> [stage : {"none", "writing", "duplicate", "recovering", "done", "failed"},
                  block : Nat, answer : {"none", "ok", "duplicate", "cancelled", "expired"}]]
    BY <1>0, <1>1 DEF AllocateBlockNumber
  <2>2. l0 \in [block : Nat, kind : {"insert", "other"}, owner : Replicas, session : Nat]
    BY <1>0, <1>3
  <2>3. m0 \in [insert : Inserts, block : Nat, session : Nat]
    BY <1>0 DEF m0
  <2>4. /\ locks \in SUBSET [block : Nat, kind : {"insert", "other"}, owner : Replicas, session : Nat]
        /\ multis \in SUBSET [insert : Inserts, block : Nat, session : Nat]
    BY DEF IInv, TypeOK
  <2>5. /\ locks' \in SUBSET [block : Nat, kind : {"insert", "other"}, owner : Replicas, session : Nat]
        /\ multis' \in SUBSET [insert : Inserts, block : Nat, session : Nat]
    BY <1>2, <2>2, <2>3, <2>4
  <2>6. next_block' \in Nat
    BY <1>0, <1>2
  <2> QED
    BY <1>2, <2>1, <2>5, <2>6 DEF IInv, TypeOK
<1>6. /\ \A l \in locks : l.block \in Nat /\ l.block < next_block
      /\ \A j \in Inserts : insert[j].block \in Nat /\ (Pending(j) => insert[j].block < next_block)
      /\ \A s \in Replicas : drop[s].block \in Nat /\ drop[s].block <= next_block
      /\ \A m \in multis : m.block \in Nat /\ m.block < next_block
  BY DEF IInv, TypeOK, DropState, NumbersInv, Pending
<1>7. \A k \in DOMAIN log : log[k].part.max < next_block /\ log[k].part.max \in Nat /\ log[k].part.min \in Nat
                            /\ log[k].part.min <= log[k].part.max
  BY LogFacts DEF IInv, EntriesInv, Part
<1>8. l0.block = next_block /\ l0.kind = "insert" /\ m0.block = next_block /\ m0.insert = i /\ m0.session = session[r]
  BY <1>3 DEF m0
<1>9. NumbersInv'
  <2>1. \A l \in locks' : l.block < next_block'
    BY <1>0, <1>2, <1>6, <1>8
  <2>2. \A l \in locks', m \in locks' : l.block = m.block => l = m
    BY <1>0, <1>2, <1>6, <1>8 DEF IInv, NumbersInv
  <2>3. \A j \in Inserts : Pending(j)' => insert'[j].block < next_block'
    BY <1>0, <1>2, <1>4, <1>6
  <2>4. \A j \in Inserts, k \in Inserts :
           Pending(j)' /\ Pending(k)' /\ insert'[j].block = insert'[k].block => j = k
    <3>1. \A j \in Inserts, k \in Inserts :
             Pending(j) /\ Pending(k) /\ insert[j].block = insert[k].block => j = k
      BY DEF IInv, NumbersInv, Pending
    <3> QED
      BY <1>0, <1>2, <1>4, <1>6, <3>1
  <2>5. \A s \in Replicas : drop'[s].block <= next_block'
    BY <1>0, <1>2, <1>6
  <2>6. \A m \in multis' : m.block < next_block'
    BY <1>0, <1>2, <1>6, <1>8
  <2>7. \A m \in multis', n \in multis' : m.block = n.block => m = n
    BY <1>0, <1>2, <1>6, <1>8 DEF IInv, NumbersInv
  <2>8. \A j \in Inserts, l \in locks' : Pending(j)' /\ l.block = insert'[j].block => l.kind = "insert"
    <3>1. \A j \in Inserts, l \in locks : Pending(j) /\ l.block = insert[j].block => l.kind = "insert"
      BY DEF IInv, NumbersInv, Pending
    <3> QED
      BY <1>0, <1>2, <1>4, <1>6, <1>8, <3>1
  <2> QED
    BY <2>1, <2>2, <2>3, <2>4, <2>5, <2>6, <2>7, <2>8 DEF NumbersInv, Pending
<1>10. MultisInv'
  <2> SUFFICES ASSUME NEW m \in multis'
               PROVE  /\ m.session <= session[HomeOf[m.insert]]
                      /\ m.session = session[HomeOf[m.insert]] =>
                             insert'[m.insert] = [stage |-> "writing", block |-> m.block, answer |-> "none"]
                      /\ \A l \in locks' : l.block = m.block => l.kind = "insert"
                      /\ \A k \in DOMAIN log : IsGet(k) => log[k].part.max # m.block
                      /\ \A j \in Inserts : Pending(j)' /\ insert'[j].block = m.block => j = m.insert
    BY <1>2 DEF MultisInv, IsGet, Pending
  <2>1. CASE m = m0
    BY <1>0, <1>2, <1>4, <1>6, <1>7, <1>8, <2>1 DEF r
  <2>2. CASE m \in multis
    <3>1. m.insert = i => m.session # session[HomeOf[m.insert]]
      <4>1. m.session = session[HomeOf[m.insert]] =>
                insert[m.insert] = [stage |-> "writing", block |-> m.block, answer |-> "none"]
        BY <2>2 DEF IInv, MultisInv
      <4>2. insert[m.insert] = [stage |-> "writing", block |-> m.block, answer |-> "none"] => Pending(m.insert)
        BY DEF Pending
      <4> QED
        BY <1>2, <4>1, <4>2
    <3>2. m.insert \in Inserts
      BY <2>2 DEF IInv, TypeOK
    <3>3. /\ m.session <= session[HomeOf[m.insert]]
          /\ m.session = session[HomeOf[m.insert]] =>
                 insert[m.insert] = [stage |-> "writing", block |-> m.block, answer |-> "none"]
          /\ \A l \in locks : l.block = m.block => l.kind = "insert"
          /\ \A k \in DOMAIN log : IsGet(k) => log[k].part.max # m.block
          /\ \A j \in Inserts : Pending(j) /\ insert[j].block = m.block => j = m.insert
      BY <2>2 DEF IInv, MultisInv, Pending
    <3>4. m.block < next_block /\ m.block \in Nat
      BY <1>6, <2>2
    <3>5. \A l \in locks' : l.block = m.block => l.kind = "insert"
      BY <1>2, <1>8, <3>3
    <3>6. \A j \in Inserts : Pending(j)' /\ insert'[j].block = m.block => j = m.insert
      BY <1>0, <1>2, <1>4, <3>3, <3>4
    <3> QED
      BY <1>2, <3>1, <3>2, <3>3, <3>5, <3>6
  <2> QED
    BY <1>2, <2>1, <2>2
<1>11. DropsInv'
  <2>1. AlterVersion' = AlterVersion
    BY <1>2 DEF AlterVersion, IsDrop
  <2> QED
    BY <1>0, <1>2, <1>6, <1>8, <2>1 DEF IInv, DropsInv, IsDrop
<1>12. InsertsInv'
  <2> SUFFICES ASSUME NEW j \in Inserts, Pending(j)'
               PROVE  /\ \A k \in DOMAIN log : IsGet(k) /\ log[k].part = Block(insert'[j].block) =>
                             /\ log[k].data = DataOf[j]
                             /\ Block(insert'[j].block) \in parts[HomeOf[j]]
                             /\ insert'[j].stage = "writing" => insert'[j].answer = "ok"
                      /\ insert'[j].stage = "writing" /\ insert'[j].answer = "ok" =>
                             \E k \in DOMAIN log : IsGet(k) /\ log[k].part = Block(insert'[j].block)
    BY <1>2 DEF InsertsInv, IsGet, Pending, Block
  <2>1. CASE j = i
    <3>1. \A k \in DOMAIN log : log[k].part # Block(next_block)
      BY <1>0, <1>7 DEF Block
    <3> QED
      BY <1>2, <2>1, <3>1
  <2>2. CASE j # i
    BY <1>2, <1>4, <2>2 DEF IInv, InsertsInv, Pending
  <2> QED
    BY <2>1, <2>2
<1>13. EntriesInv'
  <2>1. Merges' = Merges
    BY <1>2 DEF Merges, IsMerge
  <2>2. \A k \in DOMAIN log : /\ log[k].part.max < next_block'
                              /\ IsDrop(k) => log[k].part.max + 1 < next_block'
    BY <1>0, <1>2, <1>7 DEF IInv, EntriesInv
  <2> QED
    BY <1>2, <2>1, <2>2 DEF IInv, EntriesInv, IsGet, IsDrop, IsMerge
<1>14. LocksInv'
  <2>1. \A k \in DOMAIN log : IsDrop(k) => log[k].part.max + 1 < next_block
    BY DEF IInv, EntriesInv
  <2> QED
    BY <1>0, <1>2, <1>7, <1>8, <2>1 DEF IInv, LocksInv, IsDrop
<1>15. PredicateInv'
  <2> SUFFICES ASSUME NEW s \in Replicas
               PROVE  /\ predicate[s].stage # "idle" => \A p \in predicate[s].prev : p.max < next_block'
                      /\ predicate[s].stage \in {"loaded", "versioned", "ready"} =>
                             \A l \in locks' : (\E p \in predicate[s].prev : l.block <= p.max) =>
                                 l.block \in predicate[s].committing
    BY <1>2 DEF IInv, PredicateInv, LogVersion, IsGet
  <2>1. \A p \in predicate[s].prev : p.max \in Nat
    BY DEF IInv, TypeOK, Part
  <2>2. predicate[s].stage # "idle" => \A p \in predicate[s].prev : p.max < next_block
    BY DEF IInv, PredicateInv
  <2> QED
    BY <1>0, <1>2, <1>8, <2>1, <2>2 DEF IInv, PredicateInv
<1>16. \A s \in Replicas : PreActive(s)' = IF s = r THEN PreActive(s) \cup {Block(next_block)} ELSE PreActive(s)
  <2> SUFFICES ASSUME NEW s \in Replicas, NEW p
               PROVE  p \in PreActive(s)' <=> p \in PreActive(s) \/ (s = r /\ p = Block(next_block))
    OBVIOUS
  <2>1. p \in PreActive(s)' <=>
             \E j \in Inserts : HomeOf[j] = s /\ Pending(j)' /\ p = Block(insert'[j].block)
    BY DEF PreActive, Pending, Block
  <2> QED
    BY <1>2, <1>4, <2>1, PreActiveDef DEF r
<1>17. \A k \in DOMAIN log : log[k].part # Block(next_block)
  BY <1>0, <1>7 DEF Block
<1>18. PartsInv'
  <2> SUFFICES ASSUME NEW s \in Replicas
               PROVE  /\ parts[s] \subseteq active[s] \cup outdated[s] \cup PreActive(s)'
                      /\ PreActive(s)' \cap (active[s] \cup outdated[s]) = {}
    BY <1>2 DEF IInv, PartsInv, OnDisk, IsDrop
  <2>1. Block(next_block) \notin active[s] \cup outdated[s]
    BY <1>17 DEF IInv, PartsInv
  <2> QED
    BY <1>16, <2>1 DEF IInv, PartsInv, OnDisk
<1>19. ExecutingInv'
  <2> SUFFICES ASSUME NEW s \in Replicas, NEW x \in executing[s], ~IsDrop(x.entry)
               PROVE  x.actual \notin active[s] \cup outdated[s] \cup PreActive(s)'
    BY <1>2 DEF IInv, ExecutingInv, IsDrop
  <2>1. x.actual \notin active[s] \cup outdated[s] \cup PreActive(s) /\ x.actual # Block(next_block)
    BY <1>17 DEF IInv, ExecutingInv
  <2> QED
    BY <1>16, <2>1
<1>20. OnceInv'
  BY <1>2 DEF IInv, OnceInv, IsGet
<1> QED
  BY <1>2, <1>5, <1>9, <1>10, <1>11, <1>12, <1>13, <1>14, <1>15, <1>18, <1>19, <1>20, FrameLog,
     FrameLevels, FrameVirtual, FrameQueue, FrameKept
     DEF IInv

(* The part of an insert is committed to the working set, or something     *)
(* larger already is.                                                      *)
LEMMA CommitPartFacts ==
  ASSUME IInv, NEW r \in Replicas, NEW k \in DOMAIN log, NEW p, p = log[k].part, CommitPart(r, p)
  PROVE  /\ active' \in [Replicas -> SUBSET Part] /\ outdated' \in [Replicas -> SUBSET Part]
         /\ \A s \in Replicas : s # r => active'[s] = active[s] /\ outdated'[s] = outdated[s]
         /\ active'[r] \subseteq active[r] \cup {p}
         /\ outdated'[r] = outdated[r] \cup ((active[r] \cup {p}) \ active'[r])
         /\ Disjoint(active'[r])
         /\ \A q \in active[r] \cup {p} : \E a \in active'[r] : Contains(a, q)
<1> DEFINE X == active[r] \cup {p}
<1>1. p \in Name /\ p \in Part /\ next_block \in Nat
  BY LogFacts DEF IInv
<1>2. active[r] \in SUBSET Part /\ \A q \in active[r] : \E j \in DOMAIN log : q = log[j].part
  BY DEF IInv, TypeOK, PartsInv
<1>3. X \in SUBSET Name /\ Laminar(X) /\ \A q \in X : q.max <= next_block
  <2>1. X \subseteq {log[j].part : j \in DOMAIN log}
    BY <1>2
  <2>2. Laminar({log[j].part : j \in DOMAIN log}) /\ \A j \in DOMAIN log : log[j].part \in Name /\ log[j].part.max <= next_block
    BY LogFacts DEF IInv
  <2>3. \A q \in X : \E j \in DOMAIN log : q = log[j].part
    BY <2>1
  <2> HIDE DEF X
  <2>4. X \in SUBSET Name /\ \A q \in X : q.max <= next_block
    BY <2>2, <2>3
  <2>5. Laminar(X)
    BY <2>1, <2>2 DEF Laminar
  <2> QED
    BY <2>4, <2>5
<1>4. MaximalParts(active[r]) = active[r]
  <2>1. active[r] \in SUBSET Name /\ Laminar(active[r]) /\ Disjoint(active[r])
    BY <1>3 DEF Laminar, IInv, PartsInv
  <2> QED
    BY <2>1, MaximalFacts
<1>5. Add(active[r], p) = MaximalParts(X)
  <2>1. active[r] \in SUBSET Name /\ \A q \in active[r] : q.max <= next_block
    BY <1>3
  <2> QED
    BY <1>1, <1>3, <1>4, <2>1, AddMaximal
<1>6. active'[r] = MaximalParts(X)
  BY <1>5 DEF CommitPart, IInv, TypeOK
<1>7. outdated'[r] = outdated[r] \cup (X \ active'[r])
  BY <1>5, <1>6 DEF CommitPart, IInv, TypeOK
<1>8. \A s \in Replicas : s # r => active'[s] = active[s] /\ outdated'[s] = outdated[s]
  BY DEF CommitPart, IInv, TypeOK
<1>9. MaximalParts(X) \subseteq X /\ Disjoint(MaximalParts(X))
  BY <1>3, MaximalFacts
<1>10. \A q \in X : \E a \in MaximalParts(X) : Contains(a, q)
  BY <1>1, <1>3, MaximalExists
<1>11. active' \in [Replicas -> SUBSET Part] /\ outdated' \in [Replicas -> SUBSET Part]
  <2>1. MaximalParts(X) \in SUBSET Part
    BY <1>1, <1>2, <1>9
  <2>2. X \ MaximalParts(X) \in SUBSET Part
    BY <1>1, <1>2
  <2>3. active \in [Replicas -> SUBSET Part] /\ outdated \in [Replicas -> SUBSET Part]
    BY DEF IInv, TypeOK
  <2>4. /\ active' = [active EXCEPT ![r] = MaximalParts(X)]
        /\ outdated' = [outdated EXCEPT ![r] = outdated[r] \cup (X \ MaximalParts(X))]
    BY <1>5 DEF CommitPart
  <2> HIDE DEF X
  <2>5. outdated[r] \cup (X \ MaximalParts(X)) \in SUBSET Part
    BY <2>2, <2>3
  <2> QED
    BY <2>1, <2>3, <2>4, <2>5
<1> QED
  BY <1>6, <1>7, <1>8, <1>9, <1>10, <1>11

(* A level 0 part of the log is the part of an insert.                     *)
LEMMA BlocksAreInserts ==
  ASSUME IInv, NEW k \in DOMAIN log, NEW n, ~IsDrop(k), log[k].part = Block(n)
  PROVE  IsGet(k)
<1>1. log[k].part.level = 0
  BY DEF Block
<1>2. log[k].type \in {"GET_PART", "MERGE_PARTS", "DROP_RANGE"}
  BY LogFacts DEF IInv, Entry
<1> QED
  BY <1>1, <1>2 DEF IInv, EntriesInv, IsGet, IsMerge, IsDrop

(* A pending insert whose part is in the log commits it locally.           *)
LEMMA EndInsert ==
  ASSUME IInv, ~DropMissedPreActivePart, NEW i \in Inserts, Pending(i),
         insert[i].stage = "recovering" \/ insert[i].answer = "ok",
         NEW k \in DOMAIN log, IsGet(k), log[k].part = Block(insert[i].block),
         CommitPart(HomeOf[i], Block(insert[i].block)),
         insert' = [insert EXCEPT ![i].stage = "done"],
         UNCHANGED <<keeper, virtual_parts, executing, predicate, multis, drop, budget>>
  PROVE  IInv'
<1> DEFINE r == HomeOf[i]
           p == Block(insert[i].block)
<1> USE DEF keeper
<1>0. r \in Replicas
  BY ReplicationAssumption
<1>1. insert \in [Inserts -> [stage : {"none", "writing", "duplicate", "recovering", "done", "failed"},
                  block : Nat, answer : {"none", "ok", "duplicate", "cancelled", "expired"}]]
  BY DEF IInv, TypeOK
<1>2. /\ insert'[i].stage = "done" /\ ~Pending(i)'
      /\ \A j \in Inserts : j # i => insert'[j] = insert[j]
      /\ \A j \in Inserts : Pending(j)' <=> Pending(j) /\ j # i
  BY <1>1 DEF Pending
<1>3. /\ active' \in [Replicas -> SUBSET Part] /\ outdated' \in [Replicas -> SUBSET Part]
      /\ \A s \in Replicas : s # r => active'[s] = active[s] /\ outdated'[s] = outdated[s]
      /\ active'[r] \subseteq active[r] \cup {p}
      /\ outdated'[r] = outdated[r] \cup ((active[r] \cup {p}) \ active'[r])
      /\ Disjoint(active'[r])
      /\ \A q \in active[r] \cup {p} : \E a \in active'[r] : Contains(a, q)
  BY <1>0, CommitPartFacts, SMTT(30)
<1>4. /\ p \in parts[r]
      /\ log[k].data = DataOf[i]
  BY DEF IInv, InsertsInv, Pending
<1>5. p \in PreActive(r)
  BY PreActiveDef
<1>6. p \notin active[r] \cup outdated[r]
  BY <1>0, <1>5 DEF IInv, PartsInv
<1>7. \A s \in Replicas : PreActive(s)' = IF s = r THEN PreActive(s) \ {p} ELSE PreActive(s)
  <2> SUFFICES ASSUME NEW s \in Replicas, NEW q
               PROVE  q \in PreActive(s)' <=> q \in PreActive(s) /\ ~(s = r /\ q = p)
    OBVIOUS
  <2>1. q \in PreActive(s)' <=>
             \E j \in Inserts : HomeOf[j] = s /\ Pending(j)' /\ q = Block(insert'[j].block)
    BY DEF PreActive, Pending, Block
  <2>2. \A j \in Inserts : Pending(j) /\ Block(insert[j].block) = p => j = i
    <3>1. \A j \in Inserts : Block(insert[j].block) = p => insert[j].block = insert[i].block
      BY DEF Block
    <3> QED
      BY <3>1 DEF IInv, NumbersInv, Pending
  <2>3. q \in PreActive(s)' <=> \E j \in Inserts : HomeOf[j] = s /\ Pending(j) /\ j # i /\ q = Block(insert[j].block)
    BY <1>2, <2>1
  <2> HIDE DEF p
  <2> QED
    BY <2>2, <2>3, PreActiveDef DEF p
<1> HIDE DEF p, r
<1>8. TypeOK'
  <2>1. insert' \in [Inserts -> [stage : {"none", "writing", "duplicate", "recovering", "done", "failed"},
                  block : Nat, answer : {"none", "ok", "duplicate", "cancelled", "expired"}]]
    BY <1>1
  <2> QED
    BY <1>3, <2>1 DEF IInv, TypeOK
<1>9. NumbersInv'
  BY <1>2 DEF IInv, NumbersInv, Pending
<1>10. MultisInv'
  <2> SUFFICES ASSUME NEW m \in multis
               PROVE  /\ m.session = session[HomeOf[m.insert]] =>
                             insert'[m.insert] = [stage |-> "writing", block |-> m.block, answer |-> "none"]
                      /\ \A j \in Inserts : Pending(j)' /\ insert'[j].block = m.block => j = m.insert
    BY DEF IInv, MultisInv, Pending, IsGet
  <2>1. m.insert \in Inserts
    BY DEF IInv, TypeOK
  <2>2. m.session = session[HomeOf[m.insert]] =>
            insert[m.insert] = [stage |-> "writing", block |-> m.block, answer |-> "none"]
    BY DEF IInv, MultisInv
  <2>3. insert[m.insert] = [stage |-> "writing", block |-> m.block, answer |-> "none"] => m.insert # i
    OBVIOUS
  <2>4. \A j \in Inserts : Pending(j) /\ insert[j].block = m.block => j = m.insert
    BY DEF IInv, MultisInv, Pending
  <2> QED
    BY <1>2, <2>1, <2>2, <2>3, <2>4
<1>11. InsertsInv'
  BY <1>2 DEF IInv, InsertsInv, Pending, IsGet
<1>12. PartsInv'
  <2> SUFFICES ASSUME NEW s \in Replicas
               PROVE  /\ active'[s] \cup outdated'[s] \subseteq {log[j].part : j \in {jj \in DOMAIN log : ~IsDrop(jj)}}
                      /\ active'[s] \subseteq parts[s]
                      /\ parts[s] \subseteq active'[s] \cup outdated'[s] \cup PreActive(s)'
                      /\ Disjoint(active'[s])
                      /\ active'[s] \cap outdated'[s] = {}
                      /\ PreActive(s)' \cap (active'[s] \cup outdated'[s]) = {}
                      /\ \A q \in outdated'[s] :
                             \/ \E a \in active'[s] : Contains(a, q)
                             \/ \E j \in 1 .. log_pointer[s] - 1 : IsDrop(j) /\ Contains(log[j].part, q)
    BY DEF IInv, PartsInv, OnDisk, IsDrop
  <2>0. /\ active[s] \cup outdated[s] \subseteq {log[j].part : j \in {jj \in DOMAIN log : ~IsDrop(jj)}}
        /\ active[s] \subseteq parts[s]
        /\ parts[s] \subseteq active[s] \cup outdated[s] \cup PreActive(s)
        /\ Disjoint(active[s])
        /\ active[s] \cap outdated[s] = {}
        /\ PreActive(s) \cap (active[s] \cup outdated[s]) = {}
        /\ \A q \in outdated[s] :
               \/ \E a \in active[s] : Contains(a, q)
               \/ \E j \in 1 .. log_pointer[s] - 1 : IsDrop(j) /\ Contains(log[j].part, q)
    BY DEF IInv, PartsInv, OnDisk
  <2>1. CASE s # r
    BY <1>3, <1>7, <2>0, <2>1
  <2>2. CASE s = r
    <3>1. p \in {log[j].part : j \in {jj \in DOMAIN log : ~IsDrop(jj)}}
      BY DEF IsGet, IsDrop, p
    <3>2. active'[s] \cup outdated'[s] = active[s] \cup outdated[s] \cup {p}
      BY <1>3, <2>2
    <3>3. active'[s] \cap outdated'[s] = {}
      BY <1>3, <1>6, <2>0, <2>2
    <3>4. ASSUME NEW q \in outdated'[s]
          PROVE  \/ \E a \in active'[s] : Contains(a, q)
                 \/ \E j \in 1 .. log_pointer[s] - 1 : IsDrop(j) /\ Contains(log[j].part, q)
      <4>1. CASE q \in active[s] \cup {p}
        BY <1>3, <2>2, <4>1
      <4>2. CASE q \in outdated[s]
        <5>1. CASE \E a \in active[s] : Contains(a, q)
          <6>1. PICK a \in active[s] : Contains(a, q)
            BY <5>1
          <6>2. PICK b \in active'[s] : Contains(b, a)
            BY <1>3, <2>2
          <6>3. a \in Name /\ q \in Name /\ b \in Name
            <7>1. \A x \in active[s] \cup outdated[s] \cup {p} : x \in Name
              BY <2>0, <3>1, LogFacts DEF IInv
            <7> QED
              BY <3>2, <4>2, <7>1
          <6> QED
            BY <6>1, <6>2, <6>3, ContainsOrder
        <5> QED
          BY <2>0, <4>2, <5>1
      <4> QED
        BY <1>3, <2>2, <3>4, <4>1, <4>2
    <3> QED
      BY <1>3, <1>4, <1>6, <1>7, <2>0, <2>2, <3>1, <3>2, <3>3, <3>4
  <2> QED
    BY <2>1, <2>2
<1>13. ExecutingInv'
  <2> SUFFICES ASSUME NEW s \in Replicas, NEW x \in executing[s]
               PROVE  /\ x.stage = "dropped" =>
                             /\ \A q \in active'[s] : ~Contains(log[x.entry].part, q)
                             /\ \A q \in outdated'[s] : Contains(log[x.entry].part, q) => q \in x.gone
                      /\ ~IsDrop(x.entry) => x.actual \notin active'[s] \cup outdated'[s] \cup PreActive(s)'
    BY DEF IInv, ExecutingInv, IsDrop
  <2>0. /\ x.stage = "dropped" =>
               /\ \A q \in active[s] : ~Contains(log[x.entry].part, q)
               /\ \A q \in outdated[s] : Contains(log[x.entry].part, q) => q \in x.gone
        /\ ~IsDrop(x.entry) => x.actual \notin active[s] \cup outdated[s] \cup PreActive(s)
    BY DEF IInv, ExecutingInv
  <2>1. CASE s # r
    BY <1>3, <1>7, <2>0, <2>1
  <2>2. CASE s = r
    <3>1. x.stage = "dropped" => ~Contains(log[x.entry].part, p)
      BY <1>4, <1>5, <2>2 DEF DropMissedPreActivePart
    <3> QED
      BY <1>3, <1>5, <1>7, <2>0, <2>2, <3>1
  <2> QED
    BY <2>1, <2>2
<1>14. OnceInv'
  BY <1>2, <1>4 DEF IInv, OnceInv, IsGet
<1> QED
  BY <1>8, <1>9, <1>10, <1>11, <1>12, <1>13, <1>14, FrameDrops, FrameEntries, FrameLog, FrameLocks,
     FrameLevels, FramePredicate, FrameVirtual, FrameQueue, FrameKept
     DEF IInv

(* The answer has arrived.                                                 *)
LEMMA CommitLocallyStep ==
  ASSUME IInv, ~DropMissedPreActivePart, NEW i \in Inserts, CommitLocally(i)
  PROVE  IInv'
<1>1. /\ insert[i].stage = "writing" /\ insert[i].answer = "ok" /\ Pending(i)
      /\ CommitPart(HomeOf[i], Block(insert[i].block))
      /\ insert' = [insert EXCEPT ![i].stage = "done"]
      /\ UNCHANGED <<keeper, virtual_parts, executing, predicate, multis, drop, budget>>
  BY DEF CommitLocally, Pending
<1>2. PICK k \in DOMAIN log : IsGet(k) /\ log[k].part = Block(insert[i].block)
  BY <1>1 DEF IInv, InsertsInv
<1> QED
  BY <1>1, <1>2, EndInsert

(* An insert whose part is not in Keeper leaves.                           *)
LEMMA GiveUp ==
  ASSUME IInv, NEW i \in Inserts, Pending(i),
         insert[i].stage = "recovering" \/ insert[i].answer # "none",
         Block(insert[i].block) \notin parts[HomeOf[i]],
         NEW s \in {"none", "duplicate", "failed"},
         insert' = [insert EXCEPT ![i].stage = s],
         locks' \subseteq locks, \A l \in locks \ locks' : l.block = insert[i].block,
         UNCHANGED <<log, next_block, blocks, parts, queue, log_pointer, session,
                     memory, multis, drop, budget>>
  PROVE  IInv'
<1> DEFINE r == HomeOf[i]
           p == Block(insert[i].block)
<1> USE DEF memory
<1>1. insert \in [Inserts -> [stage : {"none", "writing", "duplicate", "recovering", "done", "failed"},
                  block : Nat, answer : {"none", "ok", "duplicate", "cancelled", "expired"}]]
  BY DEF IInv, TypeOK
<1>2. /\ insert'[i].stage = s /\ ~Pending(i)'
      /\ \A j \in Inserts : j # i => insert'[j] = insert[j]
      /\ \A j \in Inserts : Pending(j)' <=> Pending(j) /\ j # i
  BY <1>1 DEF Pending
<1>3. \A t \in Replicas : PreActive(t)' \subseteq PreActive(t) /\ PreActive(t) \ {p} \subseteq PreActive(t)'
                         /\ (t # r => PreActive(t)' = PreActive(t))
  <2> SUFFICES ASSUME NEW t \in Replicas, NEW q
               PROVE  /\ q \in PreActive(t)' => q \in PreActive(t)
                      /\ q \in PreActive(t) /\ (q # p \/ t # r) => q \in PreActive(t)'
    OBVIOUS
  <2>1. q \in PreActive(t)' <=>
             \E j \in Inserts : HomeOf[j] = t /\ Pending(j)' /\ q = Block(insert'[j].block)
    BY DEF PreActive, Pending, Block
  <2>3. q \in PreActive(t)' <=> \E j \in Inserts : HomeOf[j] = t /\ Pending(j) /\ j # i /\ q = Block(insert[j].block)
    BY <1>2, <2>1
  <2> QED
    BY <2>3, PreActiveDef
<1> HIDE DEF p, r
<1>4. TypeOK'
  <2>1. insert' \in [Inserts -> [stage : {"none", "writing", "duplicate", "recovering", "done", "failed"},
                  block : Nat, answer : {"none", "ok", "duplicate", "cancelled", "expired"}]]
    BY <1>1
  <2> QED
    BY <2>1 DEF IInv, TypeOK
<1>5. NumbersInv'
  BY <1>2 DEF IInv, NumbersInv, Pending
<1>6. MultisInv'
  <2> SUFFICES ASSUME NEW m \in multis
               PROVE  /\ m.session = session[HomeOf[m.insert]] =>
                             insert'[m.insert] = [stage |-> "writing", block |-> m.block, answer |-> "none"]
                      /\ \A j \in Inserts : Pending(j)' /\ insert'[j].block = m.block => j = m.insert
    BY ZenonT(30) DEF IInv, MultisInv, Pending, IsGet
  <2>1. m.insert \in Inserts
    BY DEF IInv, TypeOK
  <2>2. m.session = session[HomeOf[m.insert]] =>
            insert[m.insert] = [stage |-> "writing", block |-> m.block, answer |-> "none"]
    BY DEF IInv, MultisInv
  <2>3. insert[m.insert] = [stage |-> "writing", block |-> m.block, answer |-> "none"] => m.insert # i
    OBVIOUS
  <2>4. \A j \in Inserts : Pending(j) /\ insert[j].block = m.block => j = m.insert
    BY DEF IInv, MultisInv, Pending
  <2> QED
    BY <1>2, <2>1, <2>2, <2>3, <2>4
<1>7. DropsInv'
  <2>1. \A l \in locks : l.kind = "other" => l \in locks'
    BY DEF IInv, NumbersInv, Pending
  <2>2. AlterVersion' = AlterVersion
    BY DEF AlterVersion, IsDrop
  <2>3. \A t \in Replicas : [block |-> drop[t].block, kind |-> "other", owner |-> t, session |-> session[t]] \in locks =>
            [block |-> drop[t].block, kind |-> "other", owner |-> t, session |-> session[t]] \in locks'
    BY <2>1
  <2> QED
    BY <2>2, <2>3 DEF IInv, DropsInv, IsDrop
<1>8. InsertsInv'
  BY <1>2 DEF IInv, InsertsInv, Pending, IsGet
<1>9. PartsInv'
  <2> SUFFICES ASSUME NEW t \in Replicas
               PROVE  /\ parts[t] \subseteq active[t] \cup outdated[t] \cup PreActive(t)'
                      /\ PreActive(t)' \cap (active[t] \cup outdated[t]) = {}
    BY DEF IInv, PartsInv, OnDisk, IsDrop
  <2>1. /\ parts[t] \subseteq active[t] \cup outdated[t] \cup PreActive(t)
        /\ PreActive(t) \cap (active[t] \cup outdated[t]) = {}
    BY DEF IInv, PartsInv, OnDisk
  <2>2. t = r => p \notin parts[t]
    BY DEF r, p
  <2> QED
    BY <1>3, <2>1, <2>2
<1>10. ExecutingInv'
  <2> SUFFICES ASSUME NEW t \in Replicas, NEW x \in executing[t], ~IsDrop(x.entry)
               PROVE  x.actual \notin active[t] \cup outdated[t] \cup PreActive(t)'
    BY DEF IInv, ExecutingInv, IsDrop
  <2>1. x.actual \notin active[t] \cup outdated[t] \cup PreActive(t)
    BY DEF IInv, ExecutingInv
  <2> QED
    BY <1>3, <2>1
<1>11. OnceInv'
  BY <1>2 DEF IInv, OnceInv, IsGet
<1> QED
  BY <1>4, <1>5, <1>6, <1>7, <1>8, <1>9, <1>10, <1>11, FrameEntries, FrameLog, FrameLocks,
     FrameLevels, FramePredicate, FrameVirtual, FrameQueue, FrameKept
     DEF IInv

(* The insert was a duplicate or cancelled.                                *)
LEMMA RollbackStep ==
  ASSUME IInv, NEW i \in Inserts, Rollback(i)
  PROVE  IInv'
<1> DEFINE s == IF insert[i].answer = "duplicate" THEN "duplicate" ELSE "failed"
<1>1. /\ insert[i].stage = "writing" /\ Pending(i)
      /\ insert[i].answer # "none" /\ insert[i].answer # "ok"
      /\ insert' = [insert EXCEPT ![i].stage = s]
      /\ s \in {"none", "duplicate", "failed"}
      /\ locks' \subseteq locks /\ \A l \in locks \ locks' : l.block = insert[i].block
      /\ UNCHANGED <<log, next_block, blocks, parts, queue, log_pointer, session,
                     memory, multis, drop, budget>>
  BY DEF Rollback, Pending
<1>2. \A k \in DOMAIN log : IsGet(k) => log[k].part # Block(insert[i].block)
  BY <1>1 DEF IInv, InsertsInv
<1>3. \A k \in DOMAIN log : ~IsDrop(k) => log[k].part # Block(insert[i].block)
  BY <1>2, BlocksAreInserts
<1>4. HomeOf[i] \in Replicas
  BY ReplicationAssumption
<1>5. Block(insert[i].block) \notin parts[HomeOf[i]]
  BY <1>3, <1>4 DEF IInv, PartsInv
<1> HIDE DEF s
<1> QED
  BY <1>1, <1>5, GiveUp

(* The insert looks for its part in the new session.                       *)
LEMMA RecoverStep ==
  ASSUME IInv, ~DropMissedPreActivePart, NEW i \in Inserts, Recover(i)
  PROVE  IInv'
<1> DEFINE r == HomeOf[i]
           p == Block(insert[i].block)
<1>0. r \in Replicas
  BY ReplicationAssumption
<1>1. Pending(i) /\ insert[i].stage = "recovering"
  BY DEF Recover, Pending
<1>2. CASE p \in parts[r]
  <2>1. PICK k \in DOMAIN log : ~IsDrop(k) /\ log[k].part = p
    BY <1>0, <1>2 DEF IInv, PartsInv
  <2>2. IsGet(k)
    BY <2>1, BlocksAreInserts
  <2>3. /\ CommitPart(r, p)
        /\ insert' = [insert EXCEPT ![i].stage = "done"]
        /\ UNCHANGED <<keeper, virtual_parts, executing, predicate, multis, drop, budget>>
    BY <1>2 DEF Recover
  <2> QED
    BY <1>1, <2>1, <2>2, <2>3, EndInsert
<1>3. CASE p \notin parts[r]
  <2>1. /\ insert' = [insert EXCEPT ![i].stage = "none"]
        /\ UNCHANGED <<active, outdated>>
        /\ UNCHANGED <<keeper, virtual_parts, executing, predicate, multis, drop, budget>>
    BY <1>3 DEF Recover
  <2> QED
    BY <1>1, <1>3, <2>1, GiveUp DEF keeper, memory
<1> QED
  BY <1>2, <1>3
-----------------------------------------------------------------------------
(* Entries are appended to the log.                                        *)

(* A log with one more entry.                                              *)
LEMMA Appended ==
  ASSUME TypeOK, NEW e \in Entry, log' = Append(log, e)
  PROVE  /\ log' \in Seq(Entry)
         /\ Len(log) \in Nat /\ Len(log') = Len(log) + 1
         /\ DOMAIN log = 1 .. Len(log) /\ DOMAIN log' = 1 .. (Len(log) + 1)
         /\ DOMAIN log' = DOMAIN log \cup {Len(log) + 1} /\ Len(log) + 1 \notin DOMAIN log
         /\ \A k \in DOMAIN log : log'[k] = log[k] /\ k < Len(log) + 1
         /\ log'[Len(log) + 1] = e
<1>1. log \in Seq(Entry)
  BY DEF TypeOK
<1>2. log' \in Seq(Entry) /\ Len(log') = Len(log) + 1 /\ Len(log) \in Nat
  BY <1>1
<1>3. DOMAIN log = 1 .. Len(log) /\ DOMAIN log' = 1 .. (Len(log) + 1)
  BY <1>1, <1>2
<1>4. \A k \in 1 .. Len(log) : log'[k] = log[k]
  BY <1>1
<1>5. log'[Len(log) + 1] = e
  BY <1>1
<1>6. 1 .. (Len(log) + 1) = (1 .. Len(log)) \cup {Len(log) + 1}
  BY <1>2
<1> QED
  BY <1>2, <1>3, <1>4, <1>5, <1>6

(* The counters of the entries of a kind.                                  *)
LEMMA AppendedCounts ==
  ASSUME TypeOK, NEW e \in Entry, log' = Append(log, e)
  PROVE  /\ Merges' = IF e.type = "MERGE_PARTS" THEN Merges + 1 ELSE Merges
         /\ LogVersion' = IF e.type = "GET_PART" THEN LogVersion ELSE LogVersion + 1
         /\ AlterVersion' = IF e.type = "DROP_RANGE" THEN AlterVersion + 1 ELSE AlterVersion
<1> DEFINE n == Len(log) + 1
<1>1. /\ DOMAIN log' = DOMAIN log \cup {n} /\ n \notin DOMAIN log
      /\ \A k \in DOMAIN log : log'[k] = log[k]
      /\ log'[n] = e
      /\ DOMAIN log = 1 .. Len(log) /\ Len(log) \in Nat
  BY Appended
<1>0. IsFiniteSet(DOMAIN log)
  BY <1>1, FS_Interval
<1> HIDE DEF n
<1>2. \A S : S \subseteq DOMAIN log => IsFiniteSet(S) /\ n \notin S
  BY <1>0, <1>1, FS_Subset
<1>3. \A S : S \subseteq DOMAIN log => Cardinality(S \cup {n}) = Cardinality(S) + 1
  BY <1>2, FS_AddElement
<1> DEFINE M == {k \in DOMAIN log : log[k].type = "MERGE_PARTS"}
           V == {k \in DOMAIN log : log[k].type # "GET_PART"}
           A == {k \in DOMAIN log : log[k].type = "DROP_RANGE"}
<1>4. Merges' = IF e.type = "MERGE_PARTS" THEN Merges + 1 ELSE Merges
  <2>1. {k \in DOMAIN log' : log'[k].type = "MERGE_PARTS"} = IF e.type = "MERGE_PARTS" THEN M \cup {n} ELSE M
    BY <1>1
  <2> QED
    BY <1>3, <2>1 DEF Merges, IsMerge
<1>5. LogVersion' = IF e.type = "GET_PART" THEN LogVersion ELSE LogVersion + 1
  <2>1. {k \in DOMAIN log' : log'[k].type # "GET_PART"} = IF e.type = "GET_PART" THEN V ELSE V \cup {n}
    BY <1>1
  <2> QED
    BY <1>3, <2>1 DEF LogVersion
<1>6. AlterVersion' = IF e.type = "DROP_RANGE" THEN AlterVersion + 1 ELSE AlterVersion
  <2>1. {k \in DOMAIN log' : log'[k].type = "DROP_RANGE"} = IF e.type = "DROP_RANGE" THEN A \cup {n} ELSE A
    BY <1>1
  <2> QED
    BY <1>3, <2>1 DEF AlterVersion, IsDrop
<1> QED
  BY <1>4, <1>5, <1>6

(* What replicas keep about the entries they have pulled does not change.  *)
LEMMA AppendedVirtual ==
  ASSUME IInv, NEW e \in Entry, log' = Append(log, e), UNCHANGED <<virtual_parts, log_pointer, queue>>
  PROVE  VirtualInv'
<1> SUFFICES ASSUME NEW r \in Replicas
             PROVE  /\ Real(virtual_parts[r]) = Real(MaximalParts(LogParts(log_pointer[r] - 1)'))
                    /\ virtual_parts[r] \subseteq LogParts(log_pointer[r] - 1)'
                    /\ Disjoint(virtual_parts[r])
                    /\ \A k \in queue[r] : LastDrop(k, log_pointer[r] - 1)' => log'[k].part \in virtual_parts[r]
  BY DEF VirtualInv, Real, MaximalParts
<1>1. 1 .. (log_pointer[r] - 1) \subseteq DOMAIN log /\ queue[r] \subseteq 1 .. (log_pointer[r] - 1)
  BY Appended DEF IInv, QueueInv
<1>2. \A k \in 1 .. (log_pointer[r] - 1) : log'[k] = log[k]
  BY <1>1, Appended DEF IInv
<1>3. LogParts(log_pointer[r] - 1)' = LogParts(log_pointer[r] - 1)
  BY <1>2 DEF LogParts
<1>4. \A k \in queue[r] : log'[k] = log[k] /\ (LastDrop(k, log_pointer[r] - 1)' <=> LastDrop(k, log_pointer[r] - 1))
  BY <1>1, <1>2 DEF LastDrop, IsDrop
<1> QED
  BY <1>3, <1>4 DEF IInv, VirtualInv

(* Replicas that have not pulled the entry do not notice it,               *)
LEMMA AppendedQueue ==
  ASSUME IInv, NEW e \in Entry, log' = Append(log, e), UNCHANGED <<log_pointer, queue, executing>>,
         \A r \in Replicas : /\ parts[r] \subseteq parts'[r]
                             /\ \A p \in parts'[r] \ parts[r], k \in DOMAIN log :
                                    IsDrop(k) => ~Contains(log[k].part, p)
  PROVE  QueueInv'
<1>1. \A k \in DOMAIN log : log'[k] = log[k] /\ (IsDrop(k)' <=> IsDrop(k))
  BY Appended DEF IInv, IsDrop
<1>2. Len(log) \in Nat /\ Len(log') = Len(log) + 1 /\ DOMAIN log = 1 .. Len(log)
  BY Appended DEF IInv
<1> SUFFICES ASSUME NEW r \in Replicas
             PROVE  /\ log_pointer[r] \in 1 .. Len(log') + 1
                    /\ queue[r] \subseteq 1 .. log_pointer[r] - 1
                    /\ \A j \in 1 .. log_pointer[r] - 1 : ~IsDrop(j)' /\ j \notin queue[r] =>
                           \/ \E p \in parts'[r] : Contains(p, log'[j].part)
                           \/ \E k \in 1 .. log_pointer[r] - 1 : IsDrop(k)' /\ Contains(log'[k].part, log'[j].part)
                    /\ \A j \in queue[r], k \in 1 .. log_pointer[r] - 1 :
                           ~IsDrop(j)' /\ IsDrop(k)' /\ Contains(log'[k].part, log'[j].part) =>
                           k \in queue[r] /\ \A x \in executing[r] : x.entry # k
                    /\ \A k \in 1 .. log_pointer[r] - 1 : IsDrop(k)' /\ k \notin queue[r] =>
                           \A p \in parts'[r] : ~Contains(log'[k].part, p)
  BY SMTT(30) DEF QueueInv, IsDrop
<1>3. /\ log_pointer[r] \in 1 .. Len(log) + 1
      /\ queue[r] \subseteq 1 .. log_pointer[r] - 1
      /\ \A j \in 1 .. log_pointer[r] - 1 : ~IsDrop(j) /\ j \notin queue[r] =>
             \/ \E p \in parts[r] : Contains(p, log[j].part)
             \/ \E k \in 1 .. log_pointer[r] - 1 : IsDrop(k) /\ Contains(log[k].part, log[j].part)
      /\ \A j \in queue[r], k \in 1 .. log_pointer[r] - 1 :
             ~IsDrop(j) /\ IsDrop(k) /\ Contains(log[k].part, log[j].part) =>
             k \in queue[r] /\ \A x \in executing[r] : x.entry # k
      /\ \A k \in 1 .. log_pointer[r] - 1 : IsDrop(k) /\ k \notin queue[r] =>
             \A p \in parts[r] : ~Contains(log[k].part, p)
  BY DEF IInv, QueueInv
<1>4. 1 .. log_pointer[r] - 1 \subseteq DOMAIN log /\ log_pointer[r] \in 1 .. Len(log') + 1
  BY <1>2, <1>3
<1>5. \A k \in 1 .. log_pointer[r] - 1 : IsDrop(k) /\ k \notin queue[r] =>
           \A p \in parts'[r] : ~Contains(log[k].part, p)
  BY <1>3, <1>4
<1>6. \A k \in 1 .. log_pointer[r] - 1 : log'[k] = log[k] /\ (IsDrop(k)' <=> IsDrop(k))
  BY <1>1, <1>4
<1>7. \A j \in 1 .. log_pointer[r] - 1 : ~IsDrop(j)' /\ j \notin queue[r] =>
           \/ \E p \in parts'[r] : Contains(p, log'[j].part)
           \/ \E k \in 1 .. log_pointer[r] - 1 : IsDrop(k)' /\ Contains(log'[k].part, log'[j].part)
  BY <1>3, <1>6
<1>8. \A j \in queue[r], k \in 1 .. log_pointer[r] - 1 :
           ~IsDrop(j)' /\ IsDrop(k)' /\ Contains(log'[k].part, log'[j].part) =>
           k \in queue[r] /\ \A x \in executing[r] : x.entry # k
  BY <1>3, <1>6
<1> QED
  BY <1>3, <1>4, <1>5, <1>6, <1>7, <1>8

(* nor do the entries in execution.                                        *)
LEMMA AppendedExecuting ==
  ASSUME IInv, NEW e \in Entry, log' = Append(log, e),
         UNCHANGED <<log_pointer, queue, executing, active, outdated>>,
         \A r \in Replicas : PreActive(r)' = PreActive(r)
  PROVE  ExecutingInv'
<1>1. \A k \in DOMAIN log : log'[k] = log[k] /\ (IsDrop(k)' <=> IsDrop(k))
  BY Appended DEF IInv, IsDrop
<1>2. Len(log) \in Nat /\ DOMAIN log = 1 .. Len(log) /\ DOMAIN log \subseteq DOMAIN log'
  BY Appended DEF IInv
<1> SUFFICES ASSUME NEW r \in Replicas, NEW x \in executing[r]
             PROVE  ExecutingInv!(r)!(x)'
  BY DEF ExecutingInv
<1>3. 1 .. log_pointer[r] - 1 \subseteq DOMAIN log
  BY <1>2 DEF IInv, QueueInv
<1>4. \A y \in executing[r] : y.entry \in 1 .. log_pointer[r] - 1
  BY DEF IInv, ExecutingInv
<1>5. \A k \in 1 .. log_pointer[r] - 1 : log'[k] = log[k] /\ (IsDrop(k)' <=> IsDrop(k))
  BY <1>1, <1>3
<1>6. \A y \in executing[r] : log'[y.entry] = log[y.entry] /\ (IsDrop(y.entry)' <=> IsDrop(y.entry))
  BY <1>4, <1>5
<1>7. ExecutingInv!(r)!(x)
  BY DEF IInv, ExecutingInv
<1>8. (\E k \in DOMAIN log : ~IsDrop(k) /\ log[k].part = x.actual) =>
          \E k \in DOMAIN log' : ~IsDrop(k)' /\ log'[k].part = x.actual
  BY <1>1, <1>2
<1> QED
  BY <1>5, <1>6, <1>7, <1>8
-----------------------------------------------------------------------------
(* Keeper answers the multi that commits the part of an insert.            *)

(* The commit multi fails: nothing happens in Keeper.                      *)
LEMMA RefusedMulti ==
  ASSUME IInv, NEW m \in multis, KeeperCommitsPart(m), MultiOutcome(m) # "ok"
  PROVE  IInv'
<1> DEFINE i == m.insert
           o == MultiOutcome(m)
<1> USE DEF memory
<1>0. i \in Inserts /\ o \in {"duplicate", "cancelled", "expired"}
  BY DEF IInv, TypeOK, MultiOutcome
<1>1. insert \in [Inserts -> [stage : {"none", "writing", "duplicate", "recovering", "done", "failed"},
                  block : Nat, answer : {"none", "ok", "duplicate", "cancelled", "expired"}]]
  BY DEF IInv, TypeOK
<1>2. /\ multis' = multis \ {m}
      /\ insert' = IF insert[i].block = m.block /\ insert[i].stage = "writing"
                   THEN [insert EXCEPT ![i].answer = o] ELSE insert
      /\ UNCHANGED <<log, locks, parts, blocks, next_block, queue, log_pointer, session, virtual_parts,
                     executing, active, outdated, predicate, drop, budget>>
  BY DEF KeeperCommitsPart
<1> HIDE DEF i, o
<1>3. /\ \A j \in Inserts : j # i => insert'[j] = insert[j]
      /\ insert'[i].stage = insert[i].stage /\ insert'[i].block = insert[i].block
      /\ insert'[i].answer = o \/ insert'[i] = insert[i]
      /\ insert'[i] = insert[i] \/ insert[i].block = m.block
      /\ insert' \in [Inserts -> [stage : {"none", "writing", "duplicate", "recovering", "done", "failed"},
                  block : Nat, answer : {"none", "ok", "duplicate", "cancelled", "expired"}]]
  BY <1>0, <1>1, <1>2
<1>4. \A j \in Inserts : /\ insert'[j].stage = insert[j].stage /\ insert'[j].block = insert[j].block
                         /\ Pending(j)' <=> Pending(j)
  BY <1>3 DEF Pending
<1>5. TypeOK'
  BY <1>2, <1>3 DEF IInv, TypeOK
<1>6. NumbersInv'
  BY <1>2, <1>4 DEF IInv, NumbersInv
<1>7. MultisInv'
  <2> SUFFICES ASSUME NEW n \in multis, n # m
               PROVE  /\ n.session = session[HomeOf[n.insert]] =>
                             insert'[n.insert] = [stage |-> "writing", block |-> n.block, answer |-> "none"]
                      /\ \A j \in Inserts : Pending(j)' /\ insert'[j].block = n.block => j = n.insert
    BY <1>2 DEF IInv, MultisInv, Pending, IsGet
  <2>1. n.insert \in Inserts
    BY DEF IInv, TypeOK
  <2>2. n.session = session[HomeOf[n.insert]] =>
            insert[n.insert] = [stage |-> "writing", block |-> n.block, answer |-> "none"]
    BY DEF IInv, MultisInv
  <2>3. n.block # m.block
    BY DEF IInv, NumbersInv
  <2>4. insert[n.insert] = [stage |-> "writing", block |-> n.block, answer |-> "none"] => insert[n.insert].block = n.block
    OBVIOUS
  <2>5. \A j \in Inserts : Pending(j) /\ insert[j].block = n.block => j = n.insert
    BY DEF IInv, MultisInv, Pending
  <2> QED
    BY <1>3, <1>4, <2>1, <2>2, <2>3, <2>4, <2>5
<1>8. InsertsInv'
  <2> SUFFICES ASSUME NEW j \in Inserts, Pending(j)
               PROVE  /\ \A k \in DOMAIN log : IsGet(k) /\ log[k].part = Block(insert[j].block) =>
                             /\ log[k].data = DataOf[j]
                             /\ Block(insert[j].block) \in parts[HomeOf[j]]
                             /\ insert[j].stage = "writing" => insert'[j].answer = "ok"
                      /\ insert[j].stage = "writing" /\ insert'[j].answer = "ok" =>
                             \E k \in DOMAIN log : IsGet(k) /\ log[k].part = Block(insert[j].block)
    BY <1>2, <1>4 DEF InsertsInv, IsGet, Pending, Block
  <2>0. Block(m.block).max = m.block
    BY DEF Block
  <2>1. \A k \in DOMAIN log : IsGet(k) => log[k].part # Block(m.block)
    BY <2>0, ZenonT(30) DEF IInv, MultisInv
  <2>2. CASE insert'[j] = insert[j]
    BY <2>2 DEF IInv, InsertsInv, Pending
  <2>3. CASE j = i /\ insert[i].block = m.block /\ insert'[i].answer = o
    BY <1>0, <2>1, <2>3
  <2> QED
    BY <1>3, <2>2, <2>3
<1>9. \A r \in Replicas : PreActive(r)' = PreActive(r)
  BY <1>4, PreActiveKept
<1>10. PartsInv'
  BY <1>2, <1>9 DEF IInv, PartsInv, OnDisk, IsDrop
<1>11. ExecutingInv'
  BY <1>2, <1>9 DEF IInv, ExecutingInv, IsDrop
<1>12. OnceInv'
  BY <1>2, <1>4 DEF IInv, OnceInv, IsGet
<1> QED
  BY <1>2, <1>5, <1>6, <1>7, <1>8, <1>10, <1>11, <1>12, FrameDrops, FrameEntries, FrameLog, FrameLocks,
     FrameLevels, FramePredicate, FrameVirtual, FrameQueue, FrameKept
     DEF IInv

(* The commit multi succeeds: entry, part and block id appear together.    *)
LEMMA AcceptedMulti ==
  ASSUME IInv, NEW m \in multis, KeeperCommitsPart(m), MultiOutcome(m) = "ok"
  PROVE  IInv'
<1> DEFINE i == m.insert
           r == HomeOf[i]
           n == m.block
           p == Block(n)
           e == [type |-> "GET_PART", part |-> p, sources |-> {}, data |-> DataOf[i]]
<1> USE DEF memory
<1>0. i \in Inserts /\ n \in Nat /\ r \in Replicas /\ DataOf[i] \notin Nat /\ n < next_block /\ next_block \in Nat
  BY ReplicationAssumption DEF IInv, TypeOK, NumbersInv
<1>1. insert \in [Inserts -> [stage : {"none", "writing", "duplicate", "recovering", "done", "failed"},
                  block : Nat, answer : {"none", "ok", "duplicate", "cancelled", "expired"}]]
  BY DEF IInv, TypeOK
<1>2. /\ \E l \in locks : l.block = n
      /\ ~\E b \in blocks : b.data = DataOf[i]
      /\ m.session = session[r]
  BY DEF MultiOutcome
<1>3. insert[i] = [stage |-> "writing", block |-> n, answer |-> "none"]
  BY <1>2 DEF IInv, MultisInv
<1>4. PICK l0 \in locks : l0.block = n
  BY <1>2
<1>5. l0.kind = "insert"
  BY <1>4 DEF IInv, MultisInv
<1>6. /\ multis' = multis \ {m}
      /\ insert' = [insert EXCEPT ![i].answer = "ok"]
      /\ log' = Append(log, e)
      /\ locks' = {l \in locks : l.block # n}
      /\ parts' = [parts EXCEPT ![r] = @ \cup {p}]
      /\ blocks' = blocks \cup {[data |-> DataOf[i], block |-> n]}
      /\ UNCHANGED <<next_block, queue, log_pointer, session, virtual_parts,
                     executing, active, outdated, predicate, drop, budget>>
  BY <1>3 DEF KeeperCommitsPart
<1>7. /\ \A j \in Inserts : j # i => insert'[j] = insert[j]
      /\ insert'[i] = [stage |-> "writing", block |-> n, answer |-> "ok"]
      /\ insert' \in [Inserts -> [stage : {"none", "writing", "duplicate", "recovering", "done", "failed"},
                  block : Nat, answer : {"none", "ok", "duplicate", "cancelled", "expired"}]]
  BY <1>0, <1>1, <1>3, <1>6
<1>8. \A j \in Inserts : /\ insert'[j].stage = insert[j].stage /\ insert'[j].block = insert[j].block
                         /\ Pending(j)' <=> Pending(j)
  BY <1>3, <1>7 DEF Pending
<1>9. Pending(i) /\ insert[i].block = n /\ insert[i].stage = "writing"
  BY <1>3 DEF Pending
<1>10. p \in Part /\ p.min = n /\ p.max = n /\ p.level = 0
  BY <1>0 DEF Part, Block
<1>11. e \in Entry /\ e.type = "GET_PART" /\ e.part = p /\ e.data = DataOf[i]
  BY <1>0, <1>10 DEF Entry, Contents
<1> HIDE DEF e, p, i, r, n
<1>12. PICK K \in Nat :
       /\ log' \in Seq(Entry)
       /\ Len(log) \in Nat /\ Len(log') = K
       /\ DOMAIN log' = DOMAIN log \cup {K} /\ K \notin DOMAIN log
       /\ \A k \in DOMAIN log : log'[k] = log[k] /\ k < K /\ k \in Nat
       /\ log'[K] = e
  BY <1>6, <1>11, Appended DEF IInv
<1>13. /\ Merges' = Merges /\ LogVersion' = LogVersion /\ AlterVersion' = AlterVersion
  BY <1>6, <1>11, AppendedCounts DEF IInv
<1>14. /\ \A k \in DOMAIN log : (IsDrop(k)' <=> IsDrop(k)) /\ (IsGet(k)' <=> IsGet(k)) /\ (IsMerge(k)' <=> IsMerge(k))
       /\ ~IsDrop(K)' /\ IsGet(K)' /\ ~IsMerge(K)'
  BY <1>11, <1>12 DEF IsDrop, IsGet, IsMerge
<1>15. \A k \in DOMAIN log : /\ IsDisjoint(log[k].part, p) /\ IsDisjoint(p, log[k].part)
                             /\ log[k].part # p
  <2>1. \A k \in DOMAIN log : log[k].part \in Part /\ (n < log[k].part.min \/ n > log[k].part.max)
    BY <1>4, <1>5, LogFacts DEF IInv, LocksInv
  <2> QED
    BY <1>0, <1>10, <2>1 DEF IsDisjoint, Part
<1>16. \A k \in DOMAIN log : ~Contains(log[k].part, p)
  BY <1>10, <1>15, LogFacts DEF IInv, Contains, Part, IsDisjoint
<1>17. parts' \in [Replicas -> SUBSET Part] /\ parts'[r] = parts[r] \cup {p} /\ \A s \in Replicas : s # r => parts'[s] = parts[s]
  BY <1>0, <1>6, <1>10 DEF IInv, TypeOK
<1>18. TypeOK'
  <2>0. DataOf[i] \in Contents
    BY <1>0 DEF Contents
  <2>1. blocks' \in SUBSET [data : Contents, block : Nat]
    <3>1. [data |-> DataOf[i], block |-> n] \in [data : Contents, block : Nat]
      BY <1>0, <2>0
    <3>2. blocks \in SUBSET [data : Contents, block : Nat]
      BY DEF IInv, TypeOK
    <3> QED
      BY <1>6, <3>1, <3>2
  <2>2. /\ locks' \in SUBSET [block : Nat, kind : {"insert", "other"}, owner : Replicas, session : Nat]
        /\ multis' \in SUBSET [insert : Inserts, block : Nat, session : Nat]
    BY <1>6 DEF IInv, TypeOK
  <2> QED
    BY <1>6, <1>7, <1>12, <1>17, <2>1, <2>2 DEF IInv, TypeOK
<1>19. NumbersInv'
  BY <1>6, <1>8 DEF IInv, NumbersInv
<1>20. \A j \in Inserts : Pending(j) /\ insert[j].block = n => j = i
  BY DEF IInv, MultisInv, Pending, n, i
<1>21. MultisInv'
  <2> SUFFICES ASSUME NEW w \in multis, w # m
               PROVE  /\ w.session <= session[HomeOf[w.insert]]
                      /\ w.session = session[HomeOf[w.insert]] =>
                             insert'[w.insert] = [stage |-> "writing", block |-> w.block, answer |-> "none"]
                      /\ \A l \in locks' : l.block = w.block => l.kind = "insert"
                      /\ \A k \in DOMAIN log' : IsGet(k)' => log'[k].part.max # w.block
                      /\ \A j \in Inserts : Pending(j)' /\ insert'[j].block = w.block => j = w.insert
    BY <1>6 DEF MultisInv, Pending
  <2>1. w.insert \in Inserts /\ w.block # n
    BY DEF IInv, TypeOK, NumbersInv, n
  <2>2. /\ w.session <= session[HomeOf[w.insert]]
        /\ w.session = session[HomeOf[w.insert]] =>
               insert[w.insert] = [stage |-> "writing", block |-> w.block, answer |-> "none"]
        /\ \A l \in locks : l.block = w.block => l.kind = "insert"
        /\ \A k \in DOMAIN log : IsGet(k) => log[k].part.max # w.block
        /\ \A j \in Inserts : Pending(j) /\ insert[j].block = w.block => j = w.insert
    BY DEF IInv, MultisInv, Pending
  <2>3. insert[w.insert] = [stage |-> "writing", block |-> w.block, answer |-> "none"] => insert[w.insert].block = w.block
    OBVIOUS
  <2>4. w.session = session[HomeOf[w.insert]] =>
             insert'[w.insert] = [stage |-> "writing", block |-> w.block, answer |-> "none"]
    BY <1>7, <1>9, <2>1, <2>2, <2>3
  <2>5. \A k \in DOMAIN log' : IsGet(k)' => log'[k].part.max # w.block
    BY <1>10, <1>11, <1>12, <1>14, <2>1, <2>2
  <2> QED
    BY <1>6, <1>8, <2>2, <2>4, <2>5
<1>22. DropsInv'
  <2> SUFFICES ASSUME NEW s \in Replicas, drop[s].stage \in Holding
               PROVE  /\ drop[s].block > 0
                      /\ [block |-> drop[s].block, kind |-> "other", owner |-> s, session |-> session[s]] \in locks'
                      /\ drop[s].stage # "locked" =>
                             \A l \in locks' : l.kind = "insert" => l.block >= drop[s].block
                      /\ drop[s].version = AlterVersion =>
                             \A k \in DOMAIN log' : IsDrop(k)' => log'[k].part.max < drop[s].block
    BY <1>6, <1>13 DEF IInv, DropsInv
  <2> DEFINE d == [block |-> drop[s].block, kind |-> "other", owner |-> s, session |-> session[s]]
  <2>1. /\ drop[s].block > 0
        /\ d \in locks
        /\ drop[s].stage # "locked" =>
               \A l \in locks : l.kind = "insert" => l.block >= drop[s].block
        /\ drop[s].version = AlterVersion =>
               \A k \in DOMAIN log : IsDrop(k) => log[k].part.max < drop[s].block
    BY DEF IInv, DropsInv
  <2>2. d \in locks'
    <3>1. d # l0 /\ d.kind = "other"
      BY <1>5
    <3>2. d.block # n
      BY <1>4, <2>1, <3>1 DEF IInv, NumbersInv
    <3> QED
      BY <1>6, <2>1, <3>2
  <2>3. drop[s].version = AlterVersion =>
               \A k \in DOMAIN log' : IsDrop(k)' => log'[k].part.max < drop[s].block
    BY <1>12, <1>14, <2>1
  <2> QED
    BY <1>6, <2>1, <2>2, <2>3
<1>23. InsertsInv'
  <2> SUFFICES ASSUME NEW j \in Inserts, Pending(j)
               PROVE  /\ \A k \in DOMAIN log' : IsGet(k)' /\ log'[k].part = Block(insert[j].block) =>
                             /\ log'[k].data = DataOf[j]
                             /\ Block(insert[j].block) \in parts'[HomeOf[j]]
                             /\ insert[j].stage = "writing" => insert'[j].answer = "ok"
                      /\ insert[j].stage = "writing" /\ insert'[j].answer = "ok" =>
                             \E k \in DOMAIN log' : IsGet(k)' /\ log'[k].part = Block(insert[j].block)
    BY <1>8 DEF InsertsInv, Pending, Block
  <2>1. CASE j = i
    <3>1. Block(insert[j].block) = p
      BY <1>9, <2>1 DEF p
    <3>2. \A k \in DOMAIN log' : log'[k].part = p => k = K
      BY <1>12, <1>15
    <3>3. log'[K].part = p /\ log'[K].data = DataOf[i] /\ p \in parts'[r]
      BY <1>11, <1>12, <1>17
    <3> QED
      BY <1>7, <1>12, <1>14, <2>1, <3>1, <3>2, <3>3 DEF r
  <2>2. CASE j # i
    <3>1. Block(insert[j].block) # p
      <4>1. insert[j].block # n
        BY <1>20, <2>2
      <4> QED
        BY <4>1 DEF p, Block
    <3>2. log'[K].part = p
      BY <1>11, <1>12
    <3>3. HomeOf[j] \in Replicas
      BY ReplicationAssumption
    <3>4. parts[HomeOf[j]] \subseteq parts'[HomeOf[j]]
      BY <1>17, <3>3
    <3>5. /\ \A k \in DOMAIN log : IsGet(k) /\ log[k].part = Block(insert[j].block) =>
                  /\ log[k].data = DataOf[j]
                  /\ Block(insert[j].block) \in parts[HomeOf[j]]
                  /\ insert[j].stage = "writing" => insert[j].answer = "ok"
          /\ insert[j].stage = "writing" /\ insert[j].answer = "ok" =>
                  \E k \in DOMAIN log : IsGet(k) /\ log[k].part = Block(insert[j].block)
      BY DEF IInv, InsertsInv, Pending
    <3>6. insert'[j] = insert[j]
      BY <1>7, <2>2
    <3>7. \A k \in DOMAIN log' : IsGet(k)' /\ log'[k].part = Block(insert[j].block) =>
              k \in DOMAIN log /\ log'[k] = log[k] /\ IsGet(k)
      BY <1>12, <1>14, <3>1, <3>2
    <3>8. \A k \in DOMAIN log : k \in DOMAIN log' /\ log'[k] = log[k] /\ (IsGet(k) => IsGet(k)')
      BY <1>12, <1>14
    <3> HIDE DEF Pending
    <3> QED
      BY <3>4, <3>5, <3>6, <3>7, <3>8
  <2> QED
    BY <2>1, <2>2
<1>24. EntriesInv'
  <2>1. Merges \in Nat
    BY CardinalityFacts DEF IInv
  <2>2. p = Block(p.max)
    BY <1>10 DEF p
  <2>3. \A k \in DOMAIN log' : log'[k].part = Block(log'[k].part.max) <=> log'[k].part = [min |-> log'[k].part.max, max |-> log'[k].part.max, level |-> 0]
    BY DEF Block
  <2>4. \A k \in DOMAIN log : IsGet(k) => log[k].part = [min |-> log[k].part.max, max |-> log[k].part.max, level |-> 0]
    BY DEF IInv, EntriesInv, Block
  <2>5. p = [min |-> p.max, max |-> p.max, level |-> 0]
    BY <2>2 DEF Block
  <2> SUFFICES ASSUME NEW k \in DOMAIN log'
               PROVE  /\ log'[k].part.max < next_block
                      /\ IsGet(k)' => log'[k].part = [min |-> log'[k].part.max, max |-> log'[k].part.max, level |-> 0]
                      /\ IsDrop(k)' => /\ log'[k].part.min = 0 /\ log'[k].part.level = MAX_LEVEL
                                       /\ log'[k].part.max + 1 < next_block
                      /\ IsMerge(k)' => log'[k].part.level > 0
                      /\ ~IsDrop(k)' => log'[k].part.level <= Merges
    BY <1>6, <1>13 DEF EntriesInv, Block
  <2>6. CASE k = K
    BY <1>0, <1>10, <1>11, <1>12, <1>14, <2>1, <2>5, <2>6
  <2>7. CASE k \in DOMAIN log
    BY <1>12, <1>14, <2>4, <2>7 DEF IInv, EntriesInv
  <2> QED
    BY <1>12, <2>6, <2>7
<1>25. LaminarInv'
  <2> SUFFICES ASSUME NEW j \in DOMAIN log', NEW k \in DOMAIN log', j < k
               PROVE  \/ IsDisjoint(log'[j].part, log'[k].part)
                      \/ Contains(log'[k].part, log'[j].part) /\ log'[j].part # log'[k].part
    BY DEF LaminarInv, IsDisjoint, Contains
  <2>1. j \in DOMAIN log
    BY <1>12
  <2> QED
    BY <1>11, <1>12, <1>15, <2>1 DEF IInv, LaminarInv
<1>26. LocksInv'
  <2> SUFFICES ASSUME NEW k \in DOMAIN log', NEW l \in locks, l.block # n
               PROVE  /\ ~IsDrop(k)' => l.block < log'[k].part.min \/ l.block > log'[k].part.max
                      /\ IsDrop(k)' => /\ l.block # log'[k].part.max + 1
                                       /\ l.kind = "insert" => l.block > log'[k].part.max
    BY <1>6 DEF LocksInv
  <2>1. l.block \in Nat
    BY DEF IInv, TypeOK
  <2> QED
    BY <1>0, <1>10, <1>11, <1>12, <1>14, <2>1 DEF IInv, LocksInv
<1>27. LevelsInv'
  BY <1>6, <1>13 DEF IInv, LevelsInv, Busy
<1>28. MergesLoseNoBlock'
  <2> SUFFICES ASSUME NEW k \in DOMAIN log', NEW j \in DOMAIN log',
                      log'[k].type = "MERGE_PARTS", log'[j].type = "GET_PART",
                      ~IsDisjoint(log'[k].part, log'[j].part)
               PROVE  j < k /\ \E q \in log'[k].sources : Contains(q, log'[j].part)
    BY DEF MergesLoseNoBlock, IsDisjoint, Contains
  <2>1. k \in DOMAIN log
    BY <1>12, <1>14 DEF IsMerge
  <2> QED
    BY <1>11, <1>12, <1>15, <2>1 DEF IInv, MergesLoseNoBlock
<1>29. PredicateInv'
  <2> SUFFICES ASSUME NEW s \in Replicas
               PROVE  /\ predicate[s].stage = "ready" =>
                             \A k \in DOMAIN log' : k >= log_pointer[s] =>
                                 /\ ~IsGet(k)' => predicate[s].version < LogVersion
                                 /\ IsGet(k)' /\ (\E q \in predicate[s].prev : log'[k].part.max <= q.max) =>
                                        log'[k].part.max \in predicate[s].committing
    BY <1>6, <1>13 DEF IInv, PredicateInv
  <2>1. predicate[s].stage = "ready" => \A l \in locks : (\E q \in predicate[s].prev : l.block <= q.max) =>
                 l.block \in predicate[s].committing
    BY DEF IInv, PredicateInv
  <2>2. predicate[s].stage = "ready" => ((\E q \in predicate[s].prev : n <= q.max) => n \in predicate[s].committing)
    BY <1>4, <2>1
  <2>3. log'[K].part.max = n
    BY <1>10, <1>11, <1>12
  <2> QED
    BY <1>12, <1>14, <2>2, <2>3 DEF IInv, PredicateInv
<1>30. VirtualInv'
  BY <1>6, <1>11, AppendedVirtual
<1>31. \A s \in Replicas : PreActive(s)' = PreActive(s)
  BY <1>8, PreActiveKept
<1>32. PartsInv'
  <2> SUFFICES ASSUME NEW s \in Replicas
               PROVE  /\ active[s] \cup outdated[s] \subseteq {log'[k].part : k \in {j \in DOMAIN log' : ~IsDrop(j)'}}
                      /\ active[s] \subseteq parts'[s]
                      /\ parts'[s] \subseteq active[s] \cup outdated[s] \cup PreActive(s)
                      /\ parts'[s] \subseteq {log'[k].part : k \in {j \in DOMAIN log' : ~IsDrop(j)'}}
                      /\ Disjoint(active[s])
                      /\ active[s] \cap outdated[s] = {}
                      /\ PreActive(s) \cap (active[s] \cup outdated[s]) = {}
                      /\ \A q \in outdated[s] :
                             \/ \E a \in active[s] : Contains(a, q)
                             \/ \E k \in 1 .. log_pointer[s] - 1 : IsDrop(k)' /\ Contains(log'[k].part, q)
    BY <1>6, <1>31 DEF PartsInv, OnDisk
  <2>1. /\ active[s] \cup outdated[s] \subseteq {log[k].part : k \in {j \in DOMAIN log : ~IsDrop(j)}}
        /\ active[s] \subseteq parts[s]
        /\ parts[s] \subseteq active[s] \cup outdated[s] \cup PreActive(s)
        /\ parts[s] \subseteq {log[k].part : k \in {j \in DOMAIN log : ~IsDrop(j)}}
        /\ Disjoint(active[s])
        /\ active[s] \cap outdated[s] = {}
        /\ PreActive(s) \cap (active[s] \cup outdated[s]) = {}
        /\ \A q \in outdated[s] :
               \/ \E a \in active[s] : Contains(a, q)
               \/ \E k \in 1 .. log_pointer[s] - 1 : IsDrop(k) /\ Contains(log[k].part, q)
    BY DEF IInv, PartsInv, OnDisk
  <2>2. {log[k].part : k \in {j \in DOMAIN log : ~IsDrop(j)}} \subseteq {log'[k].part : k \in {j \in DOMAIN log' : ~IsDrop(j)'}}
    BY <1>12, <1>14
  <2>3. p \in {log'[k].part : k \in {j \in DOMAIN log' : ~IsDrop(j)'}}
    BY <1>11, <1>12, <1>14
  <2>4. p \in PreActive(r)
    BY <1>0, <1>9, PreActiveDef DEF p, r
  <2>5. 1 .. log_pointer[s] - 1 \subseteq DOMAIN log
    BY LogFacts DEF IInv, QueueInv
  <2>6. parts'[s] \subseteq parts[s] \cup {p} /\ (s # r => parts'[s] = parts[s]) /\ parts[s] \subseteq parts'[s]
    BY <1>17
  <2>7. \A k \in 1 .. log_pointer[s] - 1 : log'[k] = log[k] /\ (IsDrop(k)' <=> IsDrop(k))
    BY <1>12, <1>14, <2>5
  <2>8. \A q \in outdated[s] :
               \/ \E a \in active[s] : Contains(a, q)
               \/ \E k \in 1 .. log_pointer[s] - 1 : IsDrop(k)' /\ Contains(log'[k].part, q)
    BY <2>1, <2>7
  <2> QED
    BY <2>1, <2>2, <2>3, <2>4, <2>6, <2>8
<1>33. QueueInv'
  <2>1. \A s \in Replicas : /\ parts[s] \subseteq parts'[s]
                            /\ \A q \in parts'[s] \ parts[s], k \in DOMAIN log :
                                   IsDrop(k) => ~Contains(log[k].part, q)
    BY <1>16, <1>17
  <2> QED
    BY <1>6, <1>11, <2>1, AppendedQueue
<1>34. ExecutingInv'
  BY <1>6, <1>11, <1>31, AppendedExecuting
<1>35. KeptInv'
  <2> SUFFICES ASSUME NEW k \in DOMAIN log', IsGet(k)'
               PROVE  \/ \E s \in Replicas : \E q \in parts'[s] : Contains(q, log'[k].part)
                      \/ \E j \in DOMAIN log' : IsDrop(j)' /\ Contains(log'[j].part, log'[k].part)
    BY DEF KeptInv, Contains
  <2>1. CASE k = K
    <3>1. Contains(p, p) /\ p \in parts'[r]
      BY <1>0, <1>10, <1>17 DEF Contains
    <3> QED
      BY <1>0, <1>11, <1>12, <2>1, <3>1
  <2>2. CASE k \in DOMAIN log
    <3>1. \/ \E s \in Replicas : \E q \in parts[s] : Contains(q, log[k].part)
          \/ \E j \in DOMAIN log : IsDrop(j) /\ Contains(log[j].part, log[k].part)
      BY <1>14, <2>2 DEF IInv, KeptInv
    <3> QED
      BY <1>12, <1>14, <1>17, <2>2, <3>1
  <2> QED
    BY <1>12, <2>1, <2>2
<1>36. OnceInv'
  <2>1. \A j \in DOMAIN log', k \in DOMAIN log' :
           j # k /\ IsGet(j)' /\ IsGet(k)' => log'[j].part # log'[k].part
    BY <1>11, <1>12, <1>14, <1>15 DEF IInv, OnceInv
  <2>2. \A k \in DOMAIN log' : IsGet(k)' /\ log'[k].data \in Nat => log'[k].data = k
    BY <1>0, <1>11, <1>12, <1>14 DEF IInv, OnceInv
  <2>3. \A b \in blocks' : \E k \in DOMAIN log' : IsGet(k)' /\ log'[k].data = b.data
    BY <1>6, <1>11, <1>12, <1>14 DEF IInv, OnceInv
  <2>4. \A j \in Inserts : insert'[j].stage = "done" =>
           \E k \in DOMAIN log' : IsGet(k)' /\ log'[k].data = DataOf[j]
    BY <1>8, <1>12, <1>14 DEF IInv, OnceInv
  <2> QED
    BY <2>1, <2>2, <2>3, <2>4 DEF OnceInv
<1> QED
  BY <1>18, <1>19, <1>21, <1>22, <1>23, <1>24, <1>25, <1>26, <1>27, <1>28, <1>29, <1>30, <1>32,
     <1>33, <1>34, <1>35, <1>36
     DEF IInv
-----------------------------------------------------------------------------
(* The log is pulled, in the course of a session or at its start.          *)

(* The maximal real parts of a set of parts of the log are those of the    *)
(* log when it has them and every drop it lacks has nothing to hide in it. *)
LEMMA RealMaximal ==
  ASSUME IInv, NEW X, X \subseteq {log[k].part : k \in DOMAIN log},
         Real(MaximalParts(LogParts(Len(log)))) \subseteq X,
         \A x \in Real(X), k \in DOMAIN log :
             IsDrop(k) /\ log[k].part \notin X => ~Contains(log[k].part, x)
  PROVE  Real(MaximalParts(X)) = Real(MaximalParts(LogParts(Len(log))))
<1> DEFINE L == LogParts(Len(log))
<1>0. DOMAIN log = 1 .. Len(log)
  BY LogFacts DEF IInv
<1>1. L = {log[k].part : k \in DOMAIN log}
  BY <1>0 DEF LogParts
<1> HIDE DEF L
<1>2. L \in SUBSET Name /\ next_block \in Nat /\ \A x \in L : x.max <= next_block
  <2>1. next_block \in Nat /\ \A k \in DOMAIN log : log[k].part \in Name /\ log[k].part.max <= next_block
    BY LogFacts DEF IInv, TypeOK
  <2> QED
    BY <1>1, <2>1
<1>3. X \subseteq L
  BY <1>1
<1>4. ASSUME NEW x \in Real(MaximalParts(L))
      PROVE  x \in Real(MaximalParts(X))
  BY <1>3, <1>4 DEF Real, MaximalParts, L
<1>5. ASSUME NEW x \in Real(MaximalParts(X))
      PROVE  x \in Real(MaximalParts(L))
  <2>1. x \in X /\ x \in L /\ ~IsFakeDropRangePart(x) /\ x \in Real(X)
    BY <1>3, <1>5 DEF Real, MaximalParts
  <2>2. PICK y \in MaximalParts(L) : Contains(y, x)
    BY <1>2, <2>1, MaximalExists
  <2>3. y \in L
    BY DEF MaximalParts
  <2>4. PICK k \in DOMAIN log : log[k].part = y
    BY <1>1, <2>3
  <2>5. y \in X
    <3>1. CASE IsDrop(k)
      BY <2>1, <2>2, <2>4, <3>1
    <3>2. CASE ~IsDrop(k)
      <4>1. y \in Real(MaximalParts(L))
        BY <2>4, <3>2, LogFacts DEF IInv, Real
      <4> QED
        BY <4>1 DEF L
    <3> QED
      BY <3>1, <3>2
  <2>6. y = x
    BY <1>5, <2>2, <2>5 DEF Real, MaximalParts
  <2> QED
    BY <2>1, <2>6 DEF Real
<1> QED
  BY <1>4, <1>5 DEF L

(* What a replica expects after it has inserted entries into its queue.    *)
LEMMA PulledVirtual ==
  ASSUME IInv, NEW r \in Replicas, NEW S, NEW E, NEW X,
         X = S \cup {log[k].part : k \in E \cap DOMAIN log},
         S \subseteq {log[k].part : k \in DOMAIN log}, Disjoint(S),
         Real(MaximalParts(LogParts(Len(log)))) \subseteq X,
         \A x \in Real(X), k \in DOMAIN log :
             IsDrop(k) /\ log[k].part \notin X => ~Contains(log[k].part, x),
         \A k \in queue[r] \cup log_pointer[r] .. Len(log) : LastDrop(k, Len(log)) => log[k].part \in X,
         virtual_parts' = [virtual_parts EXCEPT ![r] = VirtualAfter(S, E)],
         queue' = [queue EXCEPT ![r] = queue[r] \cup log_pointer[r] .. Len(log)],
         log_pointer' = [log_pointer EXCEPT ![r] = Len(log) + 1],
         UNCHANGED log
  PROVE  VirtualInv' /\ virtual_parts' \in [Replicas -> SUBSET Part]
<1> DEFINE A == {log[k].part : k \in DOMAIN log}
<1>1. X \subseteq A
  OBVIOUS
<1>2. /\ Len(log) \in Nat /\ DOMAIN log = 1 .. Len(log) /\ next_block \in Nat /\ log \in Seq(Entry)
      /\ \A k \in DOMAIN log : log[k].part \in Name /\ log[k].part \in Part /\ log[k].part.max <= next_block
      /\ Laminar(A)
  BY LogFacts DEF IInv, TypeOK
<1>3. A \in SUBSET Name /\ A \in SUBSET Part /\ \A x \in A : x.max <= next_block
  BY <1>2
<1>4. A = LogParts(Len(log))
  BY <1>2 DEF LogParts
<1> HIDE DEF A
<1>5. X \in SUBSET Name /\ Laminar(X) /\ S \in SUBSET Name /\ \A x \in S : x.max <= next_block
  <2>1. S \subseteq A
    BY DEF A
  <2> QED
    BY <1>1, <1>2, <1>3, <2>1 DEF Laminar
<1>6. VirtualAfter(S, E) = MaximalParts(X)
  BY <1>2, <1>5, VirtualAfterMaximal
<1>7. Real(MaximalParts(X)) = Real(MaximalParts(LogParts(Len(log))))
  BY <1>1, RealMaximal DEF A
<1>8. MaximalParts(X) \subseteq X /\ Disjoint(MaximalParts(X))
  BY <1>5, MaximalFacts
<1>9. /\ virtual_parts \in [Replicas -> SUBSET Part]
      /\ log_pointer \in [Replicas -> Nat]
  BY DEF IInv, TypeOK
<1>10. MaximalParts(X) \in SUBSET Part
  BY <1>1, <1>3, <1>8
<1>11. /\ virtual_parts' \in [Replicas -> SUBSET Part]
       /\ virtual_parts'[r] = MaximalParts(X) /\ log_pointer'[r] = Len(log) + 1
       /\ \A s \in Replicas : s # r => virtual_parts'[s] = virtual_parts[s] /\ log_pointer'[s] = log_pointer[s]
  BY <1>6, <1>9, <1>10
<1>12. Len(log) + 1 - 1 = Len(log)
  BY <1>2
<1>13. queue'[r] = queue[r] \cup log_pointer[r] .. Len(log) /\ \A s \in Replicas : s # r => queue'[s] = queue[s]
  BY DEF IInv, TypeOK
<1>16. queue'[r] \subseteq DOMAIN log
  BY <1>2, <1>13 DEF IInv, QueueInv
<1>17. ASSUME NEW k \in queue'[r], LastDrop(k, Len(log))
       PROVE  log[k].part \in MaximalParts(X)
  <2>1. log[k].part \in X /\ k \in DOMAIN log /\ IsDrop(k)
    BY <1>13, <1>16, <1>17 DEF LastDrop
  <2>2. ASSUME NEW y \in X, Contains(y, log[k].part)
        PROVE  y = log[k].part
    <3>1. PICK j \in DOMAIN log : y = log[j].part
      BY <1>1, <2>2 DEF A
    <3>2. k <= j
      BY <2>1, <2>2, <3>1, LogFacts DEF IInv
    <3>3. IsDrop(j)
      <4>1. y \in Name /\ log[k].part \in Name /\ IsFakeDropRangePart(log[k].part)
        BY <2>1, <3>1, LogFacts DEF IInv
      <4>2. IsFakeDropRangePart(y)
        BY <2>2, <4>1 DEF Contains, IsFakeDropRangePart, Name, Part, MAX_LEVEL
      <4> QED
        BY <3>1, <4>2, LogFacts DEF IInv
    <3>4. j <= k
      BY <1>2, <1>17, <3>1, <3>3 DEF LastDrop
    <3> QED
      BY <1>2, <2>1, <3>1, <3>2, <3>4
  <2> QED
    BY <2>1, <2>2 DEF MaximalParts
<1> SUFFICES ASSUME NEW s \in Replicas
             PROVE  /\ Real(virtual_parts'[s]) = Real(MaximalParts(LogParts(log_pointer'[s] - 1)))
                    /\ virtual_parts'[s] \subseteq LogParts(log_pointer'[s] - 1)
                    /\ Disjoint(virtual_parts'[s])
                    /\ \A k \in queue'[s] : LastDrop(k, log_pointer'[s] - 1) => log[k].part \in virtual_parts'[s]
  BY <1>11 DEF VirtualInv, Real, MaximalParts, LogParts, LastDrop, IsDrop
<1>14. CASE s = r
  BY <1>1, <1>4, <1>7, <1>8, <1>11, <1>12, <1>14, <1>17
<1>15. CASE s # r
  BY <1>11, <1>13, <1>15 DEF IInv, VirtualInv
<1> QED
  BY <1>14, <1>15

(* The queue after the rest of the log is pulled.                          *)
LEMMA PulledQueue ==
  ASSUME IInv, NEW r \in Replicas,
         queue' = [queue EXCEPT ![r] = queue[r] \cup log_pointer[r] .. Len(log)],
         log_pointer' = [log_pointer EXCEPT ![r] = Len(log) + 1],
         UNCHANGED <<log, parts>>, \A s \in Replicas : executing'[s] \subseteq executing[s]
  PROVE  /\ QueueInv'
         /\ queue' \in [Replicas -> SUBSET Nat] /\ log_pointer' \in [Replicas -> Nat]
         /\ queue'[r] = queue[r] \cup log_pointer[r] .. Len(log) /\ log_pointer'[r] = Len(log) + 1
         /\ log_pointer[r] \in 1 .. Len(log) + 1 /\ Len(log) \in Nat
         /\ \A s \in Replicas : s # r => queue'[s] = queue[s] /\ log_pointer'[s] = log_pointer[s]
<1> DEFINE lp == log_pointer[r]
<1>1. /\ queue \in [Replicas -> SUBSET Nat] /\ log_pointer \in [Replicas -> Nat]
      /\ Len(log) \in Nat /\ DOMAIN log = 1 .. Len(log)
  BY LogFacts DEF IInv, TypeOK
<1>2. lp \in 1 .. Len(log) + 1 /\ lp .. Len(log) \in SUBSET Nat
  BY <1>1 DEF IInv, QueueInv
<1>3. /\ queue' \in [Replicas -> SUBSET Nat] /\ log_pointer' \in [Replicas -> Nat]
      /\ queue'[r] = queue[r] \cup lp .. Len(log) /\ log_pointer'[r] = Len(log) + 1
      /\ \A s \in Replicas : s # r => queue'[s] = queue[s] /\ log_pointer'[s] = log_pointer[s]
  BY <1>1, <1>2
<1>4. QueueInv'
  <2> SUFFICES ASSUME NEW s \in Replicas
               PROVE  /\ log_pointer'[s] \in 1 .. Len(log) + 1
                      /\ queue'[s] \subseteq 1 .. log_pointer'[s] - 1
                      /\ \A j \in 1 .. log_pointer'[s] - 1 : ~IsDrop(j) /\ j \notin queue'[s] =>
                             \/ \E p \in parts[s] : Contains(p, log[j].part)
                             \/ \E k \in 1 .. log_pointer'[s] - 1 : IsDrop(k) /\ Contains(log[k].part, log[j].part)
                      /\ \A j \in queue'[s], k \in 1 .. log_pointer'[s] - 1 :
                             ~IsDrop(j) /\ IsDrop(k) /\ Contains(log[k].part, log[j].part) =>
                             k \in queue'[s] /\ \A x \in executing'[s] : x.entry # k
                      /\ \A k \in 1 .. log_pointer'[s] - 1 : IsDrop(k) /\ k \notin queue'[s] =>
                             \A p \in parts[s] : ~Contains(log[k].part, p)
    BY SMTT(30) DEF QueueInv, IsDrop
  <2>0. /\ log_pointer[s] \in 1 .. Len(log) + 1
        /\ queue[s] \subseteq 1 .. log_pointer[s] - 1
        /\ \A j \in 1 .. log_pointer[s] - 1 : ~IsDrop(j) /\ j \notin queue[s] =>
               \/ \E p \in parts[s] : Contains(p, log[j].part)
               \/ \E k \in 1 .. log_pointer[s] - 1 : IsDrop(k) /\ Contains(log[k].part, log[j].part)
        /\ \A j \in queue[s], k \in 1 .. log_pointer[s] - 1 :
               ~IsDrop(j) /\ IsDrop(k) /\ Contains(log[k].part, log[j].part) =>
               k \in queue[s] /\ \A x \in executing[s] : x.entry # k
        /\ \A k \in 1 .. log_pointer[s] - 1 : IsDrop(k) /\ k \notin queue[s] =>
               \A p \in parts[s] : ~Contains(log[k].part, p)
    BY DEF IInv, QueueInv
  <2>1. CASE s # r
    BY <1>3, <2>0, <2>1
  <2>2. CASE s = r
    <3>1. log_pointer'[s] - 1 = Len(log) /\ queue'[s] = queue[s] \cup lp .. Len(log)
      BY <1>1, <1>3, <2>2
    <3>2. \A j \in 1 .. Len(log) : (j \in 1 .. lp - 1) \/ (j \in lp .. Len(log) /\ j \in queue'[s])
      BY <1>1, <1>2, <3>1
    <3>3. 1 .. lp - 1 \subseteq 1 .. Len(log) /\ lp .. Len(log) \subseteq 1 .. Len(log)
      BY <1>1, <1>2
    <3>4. \A x \in executing[s] : x.entry \in 1 .. lp - 1
      BY <2>2 DEF IInv, ExecutingInv
    <3>5. ASSUME NEW j \in queue'[s], NEW k \in 1 .. Len(log), ~IsDrop(j), IsDrop(k), Contains(log[k].part, log[j].part)
          PROVE  k \in queue'[s] /\ \A x \in executing'[s] : x.entry # k
      <4>1. CASE k \in lp .. Len(log)
        <5>1. k \notin 1 .. lp - 1
          BY <1>2, <4>1
        <5> QED
          BY <3>1, <3>4, <4>1, <5>1
      <4>2. CASE k \in 1 .. lp - 1
        <5>1. j \in DOMAIN log /\ k \in DOMAIN log
          BY <1>1, <2>0, <2>2, <3>1, <3>3, <3>5
        <5>2. j <= k
          BY <3>5, <5>1, LogFacts DEF IInv
        <5>3. j \in queue[s]
          BY <1>1, <1>2, <3>1, <3>5, <4>2, <5>1, <5>2
        <5> QED
          BY <2>0, <2>2, <3>1, <3>5, <4>2, <5>3
      <4> QED
        BY <3>2, <4>1, <4>2
    <3>6. queue'[s] \subseteq 1 .. Len(log) /\ log_pointer'[s] \in 1 .. Len(log) + 1
      BY <1>1, <1>3, <2>0, <2>2, <3>1, <3>3
    <3>7. ASSUME NEW j \in 1 .. Len(log), ~IsDrop(j), j \notin queue'[s]
          PROVE  \/ \E p \in parts[s] : Contains(p, log[j].part)
                 \/ \E k \in 1 .. Len(log) : IsDrop(k) /\ Contains(log[k].part, log[j].part)
      <4>1. j \in 1 .. lp - 1 /\ j \notin queue[s]
        BY <3>1, <3>2, <3>7
      <4> QED
        BY <2>0, <2>2, <3>3, <3>7, <4>1
    <3>8. ASSUME NEW k \in 1 .. Len(log), IsDrop(k), k \notin queue'[s]
          PROVE  \A p \in parts[s] : ~Contains(log[k].part, p)
      <4>1. k \in 1 .. lp - 1 /\ k \notin queue[s]
        BY <3>1, <3>2, <3>8
      <4> QED
        BY <2>0, <2>2, <3>8, <4>1
    <3> QED
      BY <3>1, <3>5, <3>6, <3>7, <3>8
  <2> QED
    BY <2>1, <2>2
<1> QED
  BY <1>1, <1>2, <1>3, <1>4

(* Pulling the log keeps the invariant.                                    *)
LEMMA PullStep ==
  ASSUME IInv, NEW r \in Replicas, PullLogs(r),
         \/ predicate' = predicate
         \/ predicate[r].stage = "versioned" /\ predicate' = [predicate EXCEPT ![r].stage = "ready"],
         UNCHANGED <<log, locks, next_block, blocks, parts, session, executing, active, outdated, queries>>
  PROVE  IInv'
<1> DEFINE lp == log_pointer[r]
           S == virtual_parts[r]
           E == lp .. Len(log)
           X == S \cup {log[k].part : k \in E \cap DOMAIN log}
<1> USE DEF queries
<1>1. /\ QueueInv'
      /\ queue' \in [Replicas -> SUBSET Nat] /\ log_pointer' \in [Replicas -> Nat]
      /\ queue'[r] = queue[r] \cup lp .. Len(log) /\ log_pointer'[r] = Len(log) + 1
      /\ lp \in 1 .. Len(log) + 1 /\ Len(log) \in Nat
      /\ \A s \in Replicas : s # r => queue'[s] = queue[s] /\ log_pointer'[s] = log_pointer[s]
  BY PulledQueue DEF PullLogs
<1>2. DOMAIN log = 1 .. Len(log) /\ E \cap DOMAIN log = E /\ 1 .. lp - 1 \subseteq DOMAIN log
  BY <1>1, LogFacts DEF IInv
<1>3. /\ Real(S) = Real(MaximalParts(LogParts(lp - 1)))
      /\ S \subseteq LogParts(lp - 1) /\ Disjoint(S)
  BY DEF IInv, VirtualInv
<1>4. /\ S \subseteq {log[k].part : k \in DOMAIN log}
      /\ LogParts(lp - 1) \subseteq LogParts(Len(log))
  BY <1>1, <1>2, <1>3 DEF LogParts
<1>5. ASSUME NEW x \in Real(MaximalParts(LogParts(Len(log))))
      PROVE  x \in X
  <2>1. x \in LogParts(Len(log)) /\ \A y \in LogParts(Len(log)) : Contains(y, x) => y = x
    BY DEF Real, MaximalParts
  <2>2. CASE x \in LogParts(lp - 1)
    <3>1. x \in Real(MaximalParts(LogParts(lp - 1)))
      BY <1>4, <2>1, <2>2, <1>5 DEF Real, MaximalParts
    <3> QED
      BY <1>3, <3>1 DEF Real
  <2>3. CASE x \notin LogParts(lp - 1)
    <3>1. PICK k \in 1 .. Len(log) : x = log[k].part
      BY <2>1 DEF LogParts
    <3>2. k \in E
      BY <1>1, <2>3, <3>1 DEF LogParts
    <3> QED
      BY <1>2, <3>1, <3>2
  <2> QED
    BY <2>2, <2>3
<1>6. ASSUME NEW x \in Real(X), NEW k \in DOMAIN log, IsDrop(k), log[k].part \notin X, Contains(log[k].part, x)
      PROVE  FALSE
  <2>1. k \in 1 .. lp - 1
    BY <1>1, <1>2, <1>6
  <2>2. log[k].part \in LogParts(lp - 1)
    BY <2>1 DEF LogParts
  <2>3. CASE x \in S
    <3>1. x \in Real(S)
      BY <1>6, <2>3 DEF Real
    <3>2. log[k].part = x
      BY <1>3, <1>6, <2>2, <3>1 DEF Real, MaximalParts
    <3> QED
      BY <1>6, <2>3, <3>2
  <2>4. CASE x \notin S
    <3>1. PICK j \in E : x = log[j].part
      BY <1>2, <1>6, <2>4 DEF Real
    <3>2. j <= k
      BY <1>2, <1>6, <3>1, LogFacts DEF IInv
    <3> QED
      BY <1>1, <2>1, <3>1, <3>2
  <2> QED
    BY <2>3, <2>4
<1>7. VirtualInv' /\ virtual_parts' \in [Replicas -> SUBSET Part]
  <2>1. virtual_parts' = [virtual_parts EXCEPT ![r] = VirtualAfter(S, E)]
    BY DEF PullLogs
  <2>2. log_pointer' = [log_pointer EXCEPT ![r] = Len(log) + 1]
    BY DEF PullLogs
  <2>3. queue' = [queue EXCEPT ![r] = queue[r] \cup lp .. Len(log)]
    BY DEF PullLogs
  <2>4. ASSUME NEW k \in queue[r] \cup lp .. Len(log), LastDrop(k, Len(log))
        PROVE  log[k].part \in X
    <3>1. CASE k \in E
      BY <1>2, <3>1
    <3>2. CASE k \in queue[r]
      <4>1. LastDrop(k, lp - 1)
        BY <1>1, <2>4 DEF LastDrop
      <4> QED
        BY <3>2, <4>1 DEF IInv, VirtualInv
    <3> QED
      BY <2>4, <3>1, <3>2
  <2> HIDE DEF S, E
  <2> QED
    BY <1>3, <1>4, <1>5, <1>6, <2>1, <2>2, <2>3, <2>4, PulledVirtual
<1>8. predicate \in [Replicas ->
           [stage : {"idle", "copied", "loaded", "versioned", "ready"}, prev : SUBSET Part,
            committing : SUBSET Nat, version : Nat]]
  BY DEF IInv, TypeOK
<1>9. /\ predicate' \in [Replicas ->
             [stage : {"idle", "copied", "loaded", "versioned", "ready"}, prev : SUBSET Part,
              committing : SUBSET Nat, version : Nat]]
      /\ \A s \in Replicas : /\ predicate'[s].prev = predicate[s].prev
                             /\ predicate'[s].committing = predicate[s].committing
                             /\ predicate'[s].version = predicate[s].version
                             /\ \/ predicate'[s].stage = predicate[s].stage
                                \/ s = r /\ predicate[s].stage = "versioned" /\ predicate'[s].stage = "ready"
  <2>1. CASE predicate' = predicate
    BY <1>8, <2>1
  <2>2. CASE predicate[r].stage = "versioned" /\ predicate' = [predicate EXCEPT ![r].stage = "ready"]
    BY <1>8, <2>2
  <2> QED
    BY <2>1, <2>2
<1> HIDE DEF S, E, X
<1>10. TypeOK'
  BY <1>1, <1>7, <1>9 DEF IInv, TypeOK
<1>11. LevelsInv'
  <2>1. {s \in Replicas : predicate'[s].stage # "idle"} = {s \in Replicas : predicate[s].stage # "idle"}
    BY <1>9
  <2> QED
    BY <2>1 DEF IInv, LevelsInv, Busy, Merges, IsMerge
<1>12. PredicateInv'
  <2> SUFFICES ASSUME NEW s \in Replicas
               PROVE  /\ predicate'[s].stage # "idle" => \A p \in predicate[s].prev : p.max < next_block
                      /\ predicate'[s].stage \in {"loaded", "versioned", "ready"} =>
                             \A l \in locks : (\E p \in predicate[s].prev : l.block <= p.max) =>
                                 l.block \in predicate[s].committing
                      /\ predicate'[s].stage \in {"versioned", "ready"} => predicate[s].version <= LogVersion
                      /\ predicate'[s].stage = "ready" =>
                             \A k \in DOMAIN log : k >= log_pointer'[s] =>
                                 /\ ~IsGet(k) => predicate[s].version < LogVersion
                                 /\ IsGet(k) /\ (\E p \in predicate[s].prev : log[k].part.max <= p.max) =>
                                        log[k].part.max \in predicate[s].committing
    BY <1>9 DEF PredicateInv, LogVersion, IsGet
  <2>1. /\ predicate[s].stage # "idle" => \A p \in predicate[s].prev : p.max < next_block
        /\ predicate[s].stage \in {"loaded", "versioned", "ready"} =>
               \A l \in locks : (\E p \in predicate[s].prev : l.block <= p.max) =>
                   l.block \in predicate[s].committing
        /\ predicate[s].stage \in {"versioned", "ready"} => predicate[s].version <= LogVersion
        /\ predicate[s].stage = "ready" =>
               \A k \in DOMAIN log : k >= log_pointer[s] =>
                   /\ ~IsGet(k) => predicate[s].version < LogVersion
                   /\ IsGet(k) /\ (\E p \in predicate[s].prev : log[k].part.max <= p.max) =>
                          log[k].part.max \in predicate[s].committing
    BY DEF IInv, PredicateInv
  <2>2. s = r => \A k \in DOMAIN log : ~(k >= log_pointer'[s])
    BY <1>1, <1>2
  <2> QED
    BY <1>1, <1>9, <2>1, <2>2
<1>13. \A s \in Replicas : 1 .. log_pointer[s] - 1 \subseteq 1 .. log_pointer'[s] - 1
  BY <1>1
<1>14. PartsInv'
  <2> SUFFICES ASSUME NEW s \in Replicas, NEW q \in outdated[s]
               PROVE  \/ \E p \in active[s] : Contains(p, q)
                      \/ \E k \in 1 .. log_pointer'[s] - 1 : IsDrop(k) /\ Contains(log[k].part, q)
    BY DEF IInv, PartsInv, OnDisk, PreActive, IsDrop
  <2> QED
    BY <1>13 DEF IInv, PartsInv
<1>15. ExecutingInv'
  <2> SUFFICES ASSUME NEW s \in Replicas, NEW x \in executing[s]
               PROVE  /\ x.entry \in 1 .. log_pointer'[s] - 1
                      /\ x.entry \in queue'[s] \/ x.removed
                      /\ ~IsDrop(x.entry) =>
                             \A k \in 1 .. log_pointer'[s] - 1 :
                                 IsDrop(k) /\ Contains(log[k].part, log[x.entry].part) => k \in queue'[s]
    BY DEF IInv, ExecutingInv, IsDrop, PreActive
  <2>1. /\ x.entry \in 1 .. log_pointer[s] - 1
        /\ x.entry \in queue[s] \/ x.removed
        /\ ~IsDrop(x.entry) =>
               \A k \in 1 .. log_pointer[s] - 1 :
                   IsDrop(k) /\ Contains(log[k].part, log[x.entry].part) => k \in queue[s]
    BY DEF IInv, ExecutingInv
  <2>2. queue[s] \subseteq queue'[s]
    BY <1>1
  <2>3. \A k \in 1 .. log_pointer'[s] - 1 : k \in 1 .. log_pointer[s] - 1 \/ k \in queue'[s]
    BY <1>1
  <2> QED
    BY <1>13, <2>1, <2>2, <2>3
<1> QED
  BY <1>1, <1>7, <1>10, <1>11, <1>12, <1>14, <1>15, FrameNumbers, FrameMultis, FrameDrops, FrameInserts,
     FrameEntries, FrameLog, FrameLocks, FrameKept, FrameOnce
     DEF IInv

(* The queue is updated in the background,                                 *)
LEMMA QueueUpdatingTaskStep ==
  ASSUME IInv, NEW r \in Replicas, QueueUpdatingTask(r)
  PROVE  IInv'
BY PullStep DEF QueueUpdatingTask

(* and by the merge predicate.                                             *)
LEMMA PullForMergeStep ==
  ASSUME IInv, NEW r \in Replicas, PullForMerge(r)
  PROVE  IInv'
BY PullStep DEF PullForMerge
-----------------------------------------------------------------------------
(* The assignment of merges.                                               *)

(* The predicate of one replica moves on.                                  *)
LEMMA PredicateStep ==
  ASSUME IInv, NEW r \in Replicas,
         UNCHANGED <<keeper, virtual_parts, executing, active, outdated, insert, multis, drop>>,
         budget' \in [stored : Nat, inserts : SUBSET Inserts, selections : Nat,
                      drops : Nat, reconnects : Nat, restarts : Nat],
         predicate' \in [Replicas ->
             [stage : {"idle", "copied", "loaded", "versioned", "ready"}, prev : SUBSET Part,
              committing : SUBSET Nat, version : Nat]],
         Busy' + budget'.selections <= Busy + budget.selections,
         PredicateInv'
  PROVE  IInv'
<1> USE DEF keeper
<1>1. TypeOK'
  BY DEF IInv, TypeOK
<1>2. LevelsInv'
  <2>1. Busy \in Nat /\ Merges \in Nat /\ Busy' \in Nat /\ budget.selections \in Nat /\ budget'.selections \in Nat
    <3>1. Busy' \in Nat
      <4>1. \A S : S \subseteq Replicas => IsFiniteSet(S) /\ Cardinality(S) \in Nat
        BY FS_Subset, FS_CardinalityType, ReplicationAssumption
      <4> QED
        BY <4>1 DEF Busy
    <3> QED
      BY <3>1, CardinalityFacts DEF IInv, TypeOK
  <2>2. Merges' = Merges
    BY DEF Merges, IsMerge
  <2> QED
    BY <2>1, <2>2 DEF IInv, LevelsInv, MAX_LEVEL
<1> QED
  BY <1>1, <1>2, FrameNumbers, FrameMultis, FrameDrops, FrameInserts,
     FrameEntries, FrameLog, FrameLocks, FrameVirtual, FrameParts, FrameQueue, FrameExecuting,
     FrameKept, FrameOnce
     DEF IInv

(* How many predicates are under construction.                             *)
LEMMA BusyFacts ==
  ASSUME NEW r \in Replicas, \A s \in Replicas : s # r => predicate'[s].stage = predicate[s].stage
  PROVE  /\ predicate[r].stage # "idle" => Busy' <= Busy
         /\ predicate[r].stage = "idle" => Busy' <= Busy + 1
         /\ predicate[r].stage # "idle" /\ predicate'[r].stage = "idle" => Busy' = Busy - 1
         /\ Busy \in Nat /\ Busy' \in Nat
<1> DEFINE B == {s \in Replicas : predicate[s].stage # "idle"}
           C == {s \in Replicas : predicate'[s].stage # "idle"}
<1>1. \A S : S \subseteq Replicas => IsFiniteSet(S) /\ Cardinality(S) \in Nat
  BY FS_Subset, FS_CardinalityType, ReplicationAssumption
<1>2. B \subseteq Replicas /\ C \subseteq Replicas /\ Busy = Cardinality(B) /\ Busy' = Cardinality(C)
  BY DEF Busy
<1>3. /\ predicate[r].stage # "idle" => C \subseteq B /\ r \in B
      /\ predicate[r].stage = "idle" => C \subseteq B \cup {r} /\ r \notin B
      /\ predicate[r].stage # "idle" /\ predicate'[r].stage = "idle" => C = B \ {r} /\ r \in B
  OBVIOUS
<1> HIDE DEF B, C
<1>4. predicate[r].stage # "idle" => Cardinality(C) <= Cardinality(B)
  BY <1>1, <1>2, <1>3, FS_Subset
<1>5. predicate[r].stage = "idle" => Cardinality(C) <= Cardinality(B) + 1
  <2>1. B \cup {r} \subseteq Replicas
    BY <1>2
  <2>2. r \notin B => Cardinality(B \cup {r}) = Cardinality(B) + 1
    BY <1>1, <1>2, FS_AddElement
  <2>3. C \subseteq B \cup {r} => Cardinality(C) <= Cardinality(B \cup {r})
    BY <1>1, <1>2, <2>1, FS_Subset
  <2> QED
    BY <1>3, <2>2, <2>3
<1>6. predicate[r].stage # "idle" /\ predicate'[r].stage = "idle" => Cardinality(C) = Cardinality(B) - 1
  <2>1. r \in B => Cardinality(B \ {r}) = Cardinality(B) - 1
    BY <1>1, <1>2, FS_RemoveElement
  <2> QED
    BY <1>3, <2>1
<1> QED
  BY <1>1, <1>2, <1>4, <1>5, <1>6

(* The requests of the merge predicate's constructor.                      *)
LEMMA SelectionStep ==
  ASSUME IInv, NEW r \in Replicas,
         CopyVirtualParts(r) \/ LoadCommittingBlocks(r) \/ ReadLogVersion(r)
  PROVE  IInv'
<1> DEFINE Pred == [stage : {"idle", "copied", "loaded", "versioned", "ready"}, prev : SUBSET Part,
                    committing : SUBSET Nat, version : Nat]
           Bud == [stored : Nat, inserts : SUBSET Inserts, selections : Nat,
                   drops : Nat, reconnects : Nat, restarts : Nat]
<1> USE DEF keeper, queries
<1>1. predicate \in [Replicas -> Pred] /\ budget \in Bud
  BY DEF IInv, TypeOK
<1>2. /\ virtual_parts[r] \in SUBSET Part /\ LogVersion \in Nat
      /\ {l.block : l \in locks} \in SUBSET Nat
  <2>1. \A l \in locks : l.block \in Nat
    BY DEF IInv, TypeOK
  <2>2. LogVersion \in Nat
    BY CardinalityFacts DEF IInv
  <2>3. virtual_parts[r] \in SUBSET Part
    BY DEF IInv, TypeOK
  <2> QED
    BY <2>1, <2>2, <2>3
<1>3. UNCHANGED <<keeper, virtual_parts, executing, active, outdated, insert, multis, drop>>
  BY DEF CopyVirtualParts, LoadCommittingBlocks, ReadLogVersion
<1>4. /\ predicate' \in [Replicas -> Pred] /\ budget' \in Bud
      /\ \A s \in Replicas : s # r => predicate'[s] = predicate[s]
      /\ \/ /\ predicate[r].stage = "idle" /\ predicate'[r].stage = "copied"
            /\ predicate'[r].prev = virtual_parts[r]
            /\ budget'.selections = budget.selections - 1
         \/ /\ predicate[r].stage = "copied" /\ predicate'[r].stage = "loaded"
            /\ predicate'[r].prev = predicate[r].prev
            /\ predicate'[r].committing = {l.block : l \in locks}
            /\ budget' = budget
         \/ /\ predicate[r].stage = "loaded" /\ predicate'[r].stage = "versioned"
            /\ predicate'[r].prev = predicate[r].prev
            /\ predicate'[r].committing = predicate[r].committing
            /\ predicate'[r].version = LogVersion
            /\ budget' = budget
  <2>1. CASE CopyVirtualParts(r)
    <3>1. /\ predicate[r].stage = "idle"
          /\ predicate' = [predicate EXCEPT ![r].stage = "copied", ![r].prev = virtual_parts[r]]
          /\ budget.selections > 0
          /\ budget' = [budget EXCEPT !.selections = @ - 1]
      BY <2>1 DEF CopyVirtualParts, Spend
    <3>2. budget' \in Bud /\ budget'.selections = budget.selections - 1
      <4>1. budget.selections - 1 \in Nat
        BY <1>1, <3>1
      <4> QED
        BY <1>1, <3>1, <4>1
    <3>3. /\ predicate' \in [Replicas -> Pred]
          /\ \A s \in Replicas : s # r => predicate'[s] = predicate[s]
          /\ predicate'[r].stage = "copied" /\ predicate'[r].prev = virtual_parts[r]
      BY <1>1, <1>2, <3>1, ZenonT(30)
    <3> QED
      BY <3>1, <3>2, <3>3
  <2>2. CASE LoadCommittingBlocks(r)
    BY <1>1, <1>2, <2>2 DEF LoadCommittingBlocks
  <2>3. CASE ReadLogVersion(r)
    BY <1>1, <1>2, <2>3 DEF ReadLogVersion
  <2> QED
    BY <2>1, <2>2, <2>3
<1> HIDE DEF Pred, Bud
<1>5. Busy' + budget'.selections <= Busy + budget.selections
  <2>1. budget.selections \in Nat /\ budget'.selections \in Nat
    BY <1>1, <1>4 DEF Bud
  <2>2. /\ predicate[r].stage # "idle" => Busy' <= Busy
        /\ predicate[r].stage = "idle" => Busy' <= Busy + 1
        /\ Busy \in Nat /\ Busy' \in Nat
    BY <1>4, BusyFacts
  <2> QED
    BY <1>4, <2>1, <2>2
<1>6. \A p \in virtual_parts[r] : p.max < next_block
  <2>1. virtual_parts[r] \subseteq LogParts(log_pointer[r] - 1) /\ 1 .. log_pointer[r] - 1 \subseteq DOMAIN log
    BY LogFacts DEF IInv, VirtualInv, QueueInv
  <2> QED
    BY <2>1 DEF IInv, EntriesInv, LogParts
<1>7. PredicateInv'
  <2> SUFFICES ASSUME NEW s \in Replicas
               PROVE  /\ predicate'[s].stage # "idle" => \A p \in predicate'[s].prev : p.max < next_block
                      /\ predicate'[s].stage \in {"loaded", "versioned", "ready"} =>
                             \A l \in locks : (\E p \in predicate'[s].prev : l.block <= p.max) =>
                                 l.block \in predicate'[s].committing
                      /\ predicate'[s].stage \in {"versioned", "ready"} => predicate'[s].version <= LogVersion
                      /\ predicate'[s].stage = "ready" =>
                             \A k \in DOMAIN log : k >= log_pointer[s] =>
                                 /\ ~IsGet(k) => predicate'[s].version < LogVersion
                                 /\ IsGet(k) /\ (\E p \in predicate'[s].prev : log[k].part.max <= p.max) =>
                                        log[k].part.max \in predicate'[s].committing
    BY <1>3 DEF PredicateInv, LogVersion, IsGet
  <2>1. /\ predicate[s].stage # "idle" => \A p \in predicate[s].prev : p.max < next_block
        /\ predicate[s].stage \in {"loaded", "versioned", "ready"} =>
               \A l \in locks : (\E p \in predicate[s].prev : l.block <= p.max) =>
                   l.block \in predicate[s].committing
        /\ predicate[s].stage \in {"versioned", "ready"} => predicate[s].version <= LogVersion
        /\ predicate[s].stage = "ready" =>
               \A k \in DOMAIN log : k >= log_pointer[s] =>
                   /\ ~IsGet(k) => predicate[s].version < LogVersion
                   /\ IsGet(k) /\ (\E p \in predicate[s].prev : log[k].part.max <= p.max) =>
                          log[k].part.max \in predicate[s].committing
    BY DEF IInv, PredicateInv
  <2>2. CASE s # r
    BY <1>4, <2>1, <2>2
  <2>3. CASE s = r
    BY <1>2, <1>4, <1>6, <2>1, <2>3
  <2> QED
    BY <2>2, <2>3
<1> QED
  BY <1>3, <1>4, <1>5, <1>7, PredicateStep DEF Pred, Bud

(* The predicate is discarded without a merge.                             *)
LEMMA DiscardStep ==
  ASSUME IInv, NEW r \in Replicas, predicate[r].stage = "ready",
         predicate' = [predicate EXCEPT ![r] = Idle],
         UNCHANGED <<keeper, virtual_parts, executing, active, outdated, queries>>
  PROVE  IInv'
<1> DEFINE Pred == [stage : {"idle", "copied", "loaded", "versioned", "ready"}, prev : SUBSET Part,
                    committing : SUBSET Nat, version : Nat]
           Bud == [stored : Nat, inserts : SUBSET Inserts, selections : Nat,
                   drops : Nat, reconnects : Nat, restarts : Nat]
<1> USE DEF keeper, queries
<1>1. predicate \in [Replicas -> Pred] /\ budget \in Bud
  BY DEF IInv, TypeOK
<1>2. Idle \in Pred /\ Idle.stage = "idle"
  BY DEF Idle
<1>3. /\ predicate' \in [Replicas -> Pred] /\ predicate'[r].stage = "idle"
      /\ \A s \in Replicas : s # r => predicate'[s] = predicate[s]
  BY <1>1, <1>2
<1> HIDE DEF Pred, Bud
<1>4. Busy' <= Busy /\ Busy \in Nat /\ Busy' \in Nat
  BY <1>3, BusyFacts
<1>5. budget.selections \in Nat
  BY <1>1 DEF Bud
<1>6. Busy' + budget'.selections <= Busy + budget.selections
  BY <1>4, <1>5
<1>7. PredicateInv'
  BY <1>3 DEF IInv, PredicateInv, LogVersion, IsGet
<1> QED
  BY <1>1, <1>3, <1>6, <1>7, PredicateStep DEF Pred, Bud

(* Nothing can be merged.                                                  *)
LEMMA CannotSelectStep ==
  ASSUME IInv, NEW r \in Replicas, CannotSelect(r)
  PROVE  IInv'
BY DiscardStep DEF CannotSelect

(* An entry that is no GET_PART is appended.                               *)
LEMMA AppendedOthers ==
  ASSUME IInv, NEW e \in Entry, e.type # "GET_PART", log' = Append(log, e),
         UNCHANGED <<multis, session, insert, parts, blocks, active, outdated, log_pointer>>,
         locks' \subseteq locks
  PROVE  MultisInv' /\ InsertsInv' /\ PartsInv' /\ KeptInv' /\ OnceInv'
<1>1. PICK K \in Nat :
      /\ DOMAIN log' = DOMAIN log \cup {K} /\ K \notin DOMAIN log
      /\ \A k \in DOMAIN log : log'[k] = log[k] /\ k < K /\ k \in Nat
      /\ log'[K] = e
  BY Appended DEF IInv
<1>2. /\ \A k \in DOMAIN log : (IsDrop(k)' <=> IsDrop(k)) /\ (IsGet(k)' <=> IsGet(k))
      /\ ~IsGet(K)'
  BY <1>1 DEF IsDrop, IsGet
<1>3. \A k \in DOMAIN log' : IsGet(k)' => k \in DOMAIN log /\ IsGet(k) /\ log'[k] = log[k]
  BY <1>1, <1>2
<1>4. \A k \in DOMAIN log : k \in DOMAIN log' /\ log'[k] = log[k] /\ (IsGet(k) => IsGet(k)') /\ (IsDrop(k)' <=> IsDrop(k))
  BY <1>1, <1>2
<1>5. MultisInv'
  <2> SUFFICES ASSUME NEW m \in multis
               PROVE  /\ m.session <= session[HomeOf[m.insert]]
                      /\ m.session = session[HomeOf[m.insert]] =>
                             insert[m.insert] = [stage |-> "writing", block |-> m.block, answer |-> "none"]
                      /\ \A l \in locks' : l.block = m.block => l.kind = "insert"
                      /\ \A k \in DOMAIN log' : IsGet(k)' => log'[k].part.max # m.block
                      /\ \A i \in Inserts : Pending(i) /\ insert[i].block = m.block => i = m.insert
    BY DEF MultisInv, Pending
  <2> QED
    BY <1>3 DEF IInv, MultisInv, Pending
<1>6. InsertsInv'
  <2> SUFFICES ASSUME NEW i \in Inserts, Pending(i)
               PROVE  /\ \A k \in DOMAIN log' : IsGet(k)' /\ log'[k].part = Block(insert[i].block) =>
                             /\ log'[k].data = DataOf[i]
                             /\ Block(insert[i].block) \in parts[HomeOf[i]]
                             /\ insert[i].stage = "writing" => insert[i].answer = "ok"
                      /\ insert[i].stage = "writing" /\ insert[i].answer = "ok" =>
                             \E k \in DOMAIN log' : IsGet(k)' /\ log'[k].part = Block(insert[i].block)
    BY DEF InsertsInv, Pending, Block
  <2>1. /\ \A k \in DOMAIN log : IsGet(k) /\ log[k].part = Block(insert[i].block) =>
               /\ log[k].data = DataOf[i]
               /\ Block(insert[i].block) \in parts[HomeOf[i]]
               /\ insert[i].stage = "writing" => insert[i].answer = "ok"
        /\ insert[i].stage = "writing" /\ insert[i].answer = "ok" =>
               \E k \in DOMAIN log : IsGet(k) /\ log[k].part = Block(insert[i].block)
    BY DEF IInv, InsertsInv, Pending
  <2> QED
    BY <1>3, <1>4, <2>1
<1>7. PartsInv'
  <2> SUFFICES ASSUME NEW s \in Replicas
               PROVE  /\ active[s] \cup outdated[s] \subseteq {log'[k].part : k \in {j \in DOMAIN log' : ~IsDrop(j)'}}
                      /\ parts[s] \subseteq {log'[k].part : k \in {j \in DOMAIN log' : ~IsDrop(j)'}}
                      /\ \A q \in outdated[s] :
                             \/ \E a \in active[s] : Contains(a, q)
                             \/ \E k \in 1 .. log_pointer[s] - 1 : IsDrop(k)' /\ Contains(log'[k].part, q)
    <3>1. \A t \in Replicas : PreActive(t)' = PreActive(t)
      BY DEF PreActive
    <3> QED
      BY <3>1 DEF IInv, PartsInv, OnDisk
  <2>1. {log[k].part : k \in {j \in DOMAIN log : ~IsDrop(j)}} \subseteq {log'[k].part : k \in {j \in DOMAIN log' : ~IsDrop(j)'}}
    BY <1>4
  <2>2. 1 .. log_pointer[s] - 1 \subseteq DOMAIN log
    BY LogFacts DEF IInv, QueueInv
  <2>3. \A k \in 1 .. log_pointer[s] - 1 : log'[k] = log[k] /\ (IsDrop(k)' <=> IsDrop(k))
    BY <1>4, <2>2
  <2>4. /\ active[s] \cup outdated[s] \subseteq {log[k].part : k \in {j \in DOMAIN log : ~IsDrop(j)}}
        /\ parts[s] \subseteq {log[k].part : k \in {j \in DOMAIN log : ~IsDrop(j)}}
        /\ \A q \in outdated[s] :
               \/ \E a \in active[s] : Contains(a, q)
               \/ \E k \in 1 .. log_pointer[s] - 1 : IsDrop(k) /\ Contains(log[k].part, q)
    BY DEF IInv, PartsInv
  <2>5. \A q \in outdated[s] :
               \/ \E a \in active[s] : Contains(a, q)
               \/ \E k \in 1 .. log_pointer[s] - 1 : IsDrop(k)' /\ Contains(log'[k].part, q)
    BY <2>3, <2>4
  <2> QED
    BY <2>1, <2>4, <2>5
<1>8. KeptInv'
  <2> SUFFICES ASSUME NEW k \in DOMAIN log', IsGet(k)'
               PROVE  \/ \E s \in Replicas : \E q \in parts[s] : Contains(q, log'[k].part)
                      \/ \E j \in DOMAIN log' : IsDrop(j)' /\ Contains(log'[j].part, log'[k].part)
    BY DEF KeptInv, Contains
  <2>1. k \in DOMAIN log /\ IsGet(k) /\ log'[k] = log[k]
    BY <1>3
  <2>2. \/ \E s \in Replicas : \E q \in parts[s] : Contains(q, log[k].part)
        \/ \E j \in DOMAIN log : IsDrop(j) /\ Contains(log[j].part, log[k].part)
    BY <2>1 DEF IInv, KeptInv
  <2> QED
    BY <1>4, <2>1, <2>2
<1>9. OnceInv'
  <2>1. \A j \in DOMAIN log', k \in DOMAIN log' :
           j # k /\ IsGet(j)' /\ IsGet(k)' => log'[j].part # log'[k].part
    BY <1>3 DEF IInv, OnceInv
  <2>2. \A k \in DOMAIN log' : IsGet(k)' /\ log'[k].data \in Nat => log'[k].data = k
    BY <1>3 DEF IInv, OnceInv
  <2>3. \A b \in blocks' : \E k \in DOMAIN log' : IsGet(k)' /\ log'[k].data = b.data
    BY <1>4 DEF IInv, OnceInv
  <2>4. \A j \in Inserts : insert'[j].stage = "done" =>
           \E k \in DOMAIN log' : IsGet(k)' /\ log'[k].data = DataOf[j]
    BY <1>4 DEF IInv, OnceInv
  <2> QED
    BY <2>1, <2>2, <2>3, <2>4 DEF OnceInv
<1> QED
  BY <1>5, <1>6, <1>7, <1>8, <1>9

(* A merge is assigned, or the version of /log has changed.                *)
LEMMA AssignMergeStep ==
  ASSUME IInv, NEW r \in Replicas, AssignMerge(r)
  PROVE  IInv'
<1> USE DEF queries
<1>1. PICK run \in MergeableRuns(r) :
          IF run \subseteq parts[r] /\ predicate[r].version = LogVersion
          THEN log' = Append(log, [type |-> "MERGE_PARTS", part |-> MergedPart(run),
                                   sources |-> run, data |-> "none"])
          ELSE log' = log
  BY DEF AssignMerge
<1>2. /\ predicate[r].stage = "ready" /\ predicate' = [predicate EXCEPT ![r] = Idle]
      /\ UNCHANGED <<locks, next_block, blocks, parts, queue, log_pointer, session,
                     virtual_parts, executing, active, outdated, insert, multis, drop, budget>>
  BY DEF AssignMerge
<1>3. CASE log' = log
  BY <1>2, <1>3, DiscardStep DEF keeper
<1>4. CASE predicate[r].version = LogVersion /\ log' = Append(log, [type |-> "MERGE_PARTS", part |-> MergedPart(run),
                                   sources |-> run, data |-> "none"])
  <2> DEFINE mp == MergedPart(run)
             e == [type |-> "MERGE_PARTS", part |-> mp, sources |-> run, data |-> "none"]
  <2>1. /\ mp \in Part /\ run \in SUBSET Part
        /\ mp.max < next_block /\ mp.level > 0 /\ mp.level <= Merges + 1
        /\ \A l \in locks : l.block < mp.min \/ l.block > mp.max
        /\ \A k \in DOMAIN log :
               \/ IsDisjoint(log[k].part, mp)
               \/ /\ ~IsDrop(k)
                  /\ \E p \in run : Contains(p, log[k].part)
                  /\ Contains(mp, log[k].part)
                  /\ log[k].part # mp
    BY <1>2, <1>4, MergeStep
  <2> HIDE DEF mp
  <2>2. e \in Entry /\ e.type = "MERGE_PARTS" /\ e.part = mp /\ e.sources = run
    BY <2>1 DEF Entry, Contents
  <2>3. log' = Append(log, e)
    BY <1>4 DEF mp
  <2> HIDE DEF e
  <2>4. PICK K \in Nat :
        /\ log' \in Seq(Entry)
        /\ DOMAIN log' = DOMAIN log \cup {K} /\ K \notin DOMAIN log
        /\ \A k \in DOMAIN log : log'[k] = log[k] /\ k < K /\ k \in Nat
        /\ log'[K] = e
    BY <2>2, <2>3, Appended DEF IInv
  <2>5. /\ Merges' = Merges + 1 /\ LogVersion' = LogVersion + 1 /\ AlterVersion' = AlterVersion
        /\ Merges \in Nat /\ LogVersion \in Nat
    BY <2>2, <2>3, AppendedCounts, CardinalityFacts DEF IInv
  <2>6. /\ \A k \in DOMAIN log : (IsDrop(k)' <=> IsDrop(k)) /\ (IsGet(k)' <=> IsGet(k)) /\ (IsMerge(k)' <=> IsMerge(k))
        /\ ~IsDrop(K)' /\ ~IsGet(K)' /\ IsMerge(K)'
    BY <2>2, <2>4 DEF IsDrop, IsGet, IsMerge
  <2>7. predicate \in [Replicas ->
           [stage : {"idle", "copied", "loaded", "versioned", "ready"}, prev : SUBSET Part,
            committing : SUBSET Nat, version : Nat]]
    BY DEF IInv, TypeOK
  <2>8. /\ predicate' \in [Replicas ->
               [stage : {"idle", "copied", "loaded", "versioned", "ready"}, prev : SUBSET Part,
                committing : SUBSET Nat, version : Nat]]
        /\ predicate'[r].stage = "idle"
        /\ \A s \in Replicas : s # r => predicate'[s] = predicate[s]
    BY <1>2, <2>7 DEF Idle
  <2>9. TypeOK'
    BY <1>2, <2>4, <2>8 DEF IInv, TypeOK
  <2>10. MultisInv' /\ InsertsInv' /\ PartsInv' /\ KeptInv' /\ OnceInv'
    BY <1>2, <2>2, <2>3, AppendedOthers
  <2>11. DropsInv'
    <3>1. \A k \in DOMAIN log' : IsDrop(k)' => k \in DOMAIN log /\ IsDrop(k) /\ log'[k] = log[k]
      BY <2>4, <2>6
    <3> QED
      BY <1>2, <2>5, <3>1 DEF IInv, DropsInv
  <2>12. EntriesInv'
    <3> SUFFICES ASSUME NEW k \in DOMAIN log'
                 PROVE  /\ log'[k].part.max < next_block
                        /\ IsGet(k)' => log'[k].part = [min |-> log'[k].part.max, max |-> log'[k].part.max, level |-> 0]
                        /\ IsDrop(k)' => /\ log'[k].part.min = 0 /\ log'[k].part.level = MAX_LEVEL
                                         /\ log'[k].part.max + 1 < next_block
                        /\ IsMerge(k)' => log'[k].part.level > 0
                        /\ ~IsDrop(k)' => log'[k].part.level <= Merges + 1
      BY <1>2, <2>5 DEF EntriesInv, Block
    <3>1. CASE k = K
      BY <2>1, <2>2, <2>4, <2>6, <3>1
    <3>2. CASE k \in DOMAIN log
      <4>1. log[k].part.level \in Nat
        BY <3>2, LogFacts DEF IInv, Part
      <4>2. ~IsDrop(k) => log[k].part.level <= Merges + 1
        BY <2>5, <3>2, <4>1 DEF IInv, EntriesInv
      <4> QED
        BY <2>4, <2>6, <3>2, <4>2 DEF IInv, EntriesInv, Block
    <3> QED
      BY <2>4, <3>1, <3>2
  <2>13. LaminarInv'
    <3> SUFFICES ASSUME NEW j \in DOMAIN log', NEW k \in DOMAIN log', j < k
                 PROVE  \/ IsDisjoint(log'[j].part, log'[k].part)
                        \/ Contains(log'[k].part, log'[j].part) /\ log'[j].part # log'[k].part
      BY DEF LaminarInv, IsDisjoint, Contains
    <3>1. j \in DOMAIN log
      BY <2>4
    <3> QED
      BY <2>1, <2>2, <2>4, <3>1 DEF IInv, LaminarInv
  <2>14. LocksInv'
    <3> SUFFICES ASSUME NEW k \in DOMAIN log', NEW l \in locks
                 PROVE  /\ ~IsDrop(k)' => l.block < log'[k].part.min \/ l.block > log'[k].part.max
                        /\ IsDrop(k)' => /\ l.block # log'[k].part.max + 1
                                         /\ l.kind = "insert" => l.block > log'[k].part.max
      BY <1>2 DEF LocksInv
    <3> QED
      BY <2>1, <2>2, <2>4, <2>6 DEF IInv, LocksInv
  <2>15. LevelsInv'
    <3>1. Busy' = Busy - 1 /\ Busy \in Nat
      BY <1>2, <2>8, BusyFacts
    <3>2. budget.selections \in Nat
      BY DEF IInv, TypeOK
    <3> QED
      BY <1>2, <2>5, <3>1, <3>2 DEF IInv, LevelsInv, MAX_LEVEL
  <2>16. MergesLoseNoBlock'
    <3> SUFFICES ASSUME NEW k \in DOMAIN log', NEW j \in DOMAIN log',
                        log'[k].type = "MERGE_PARTS", log'[j].type = "GET_PART",
                        ~IsDisjoint(log'[k].part, log'[j].part)
                 PROVE  j < k /\ \E q \in log'[k].sources : Contains(q, log'[j].part)
      BY DEF MergesLoseNoBlock, IsDisjoint, Contains
    <3>1. j \in DOMAIN log
      BY <2>4, <2>6 DEF IsGet
    <3>2. CASE k = K
      <4>1. ~IsDisjoint(log[j].part, mp)
        BY <2>2, <2>4, <3>1, <3>2 DEF IsDisjoint
      <4> QED
        BY <2>1, <2>2, <2>4, <3>1, <3>2, <4>1
    <3>3. CASE k \in DOMAIN log
      BY <2>4, <3>1, <3>3 DEF IInv, MergesLoseNoBlock
    <3> QED
      BY <2>4, <3>2, <3>3
  <2>17. PredicateInv'
    <3> SUFFICES ASSUME NEW s \in Replicas, s # r
                 PROVE  /\ predicate[s].stage # "idle" => \A p \in predicate[s].prev : p.max < next_block
                        /\ predicate[s].stage \in {"loaded", "versioned", "ready"} =>
                               \A l \in locks : (\E p \in predicate[s].prev : l.block <= p.max) =>
                                   l.block \in predicate[s].committing
                        /\ predicate[s].stage \in {"versioned", "ready"} => predicate[s].version <= LogVersion + 1
                        /\ predicate[s].stage = "ready" =>
                               \A k \in DOMAIN log' : k >= log_pointer[s] =>
                                   /\ ~IsGet(k)' => predicate[s].version < LogVersion + 1
                                   /\ IsGet(k)' /\ (\E p \in predicate[s].prev : log'[k].part.max <= p.max) =>
                                          log'[k].part.max \in predicate[s].committing
      BY <1>2, <2>5, <2>8 DEF PredicateInv
    <3>1. /\ predicate[s].stage # "idle" => \A p \in predicate[s].prev : p.max < next_block
          /\ predicate[s].stage \in {"loaded", "versioned", "ready"} =>
                 \A l \in locks : (\E p \in predicate[s].prev : l.block <= p.max) =>
                     l.block \in predicate[s].committing
          /\ predicate[s].stage \in {"versioned", "ready"} => predicate[s].version <= LogVersion
          /\ predicate[s].stage = "ready" =>
                 \A k \in DOMAIN log : k >= log_pointer[s] =>
                     /\ IsGet(k) /\ (\E p \in predicate[s].prev : log[k].part.max <= p.max) =>
                            log[k].part.max \in predicate[s].committing
      BY DEF IInv, PredicateInv
    <3>2. predicate[s].version \in Nat
      BY <2>7
    <3>3. predicate[s].stage \in {"versioned", "ready"} => predicate[s].version < LogVersion + 1
      BY <2>5, <3>1, <3>2
    <3>4. \A k \in DOMAIN log' : IsGet(k)' => k \in DOMAIN log /\ IsGet(k) /\ log'[k] = log[k]
      BY <2>4, <2>6
    <3> QED
      BY <2>5, <3>1, <3>2, <3>3, <3>4
  <2>18. VirtualInv'
    BY <1>2, <2>2, <2>3, AppendedVirtual
  <2>19. QueueInv'
    BY <1>2, <2>2, <2>3, AppendedQueue
  <2>20. ExecutingInv'
    <3>1. \A s \in Replicas : PreActive(s)' = PreActive(s)
      BY <1>2 DEF PreActive
    <3> QED
      BY <1>2, <2>2, <2>3, <3>1, AppendedExecuting
  <2> QED
    BY <1>2, <2>9, <2>10, <2>11, <2>12, <2>13, <2>14, <2>15, <2>16, <2>17, <2>18, <2>19, <2>20, FrameNumbers
       DEF IInv
<1> QED
  BY <1>1, <1>3, <1>4
-----------------------------------------------------------------------------
(* The execution of queue entries.                                         *)

(* A step of one replica that writes nothing to the log and takes no lock. *)
LEMMA LocalStep ==
  ASSUME IInv, UNCHANGED <<log, locks, next_block, blocks, log_pointer, session, predicate, queries>>,
         parts' \in [Replicas -> SUBSET Part], queue' \in [Replicas -> SUBSET Nat],
         virtual_parts' \in [Replicas -> SUBSET Part], executing' \in [Replicas -> SUBSET Execution],
         active' \in [Replicas -> SUBSET Part], outdated' \in [Replicas -> SUBSET Part],
         InsertsInv', VirtualInv', PartsInv', QueueInv', ExecutingInv', KeptInv'
  PROVE  IInv'
<1> USE DEF queries
<1>1. TypeOK'
  BY DEF IInv, TypeOK
<1> QED
  BY <1>1, FrameNumbers, FrameMultis, FrameDrops, FrameEntries, FrameLog, FrameLocks, FrameLevels,
     FramePredicate, FrameOnce
     DEF IInv

(* An entry that may be executed is not covered by the range of a drop     *)
(* that has been pulled.                                                   *)
LEMMA NotDropped ==
  ASSUME IInv, NEW r \in Replicas, NEW k \in queue[r], ~IsDrop(k), ~IsGoingToBeDropped(r, log[k].part),
         NEW d \in 1 .. log_pointer[r] - 1, IsDrop(d)
  PROVE  ~Contains(log[d].part, log[k].part)
<1> DEFINE n == log_pointer[r] - 1
           D == {n - j : j \in {i \in 1 .. n : IsDrop(i)}}
<1> SUFFICES ASSUME Contains(log[d].part, log[k].part)
             PROVE  FALSE
  OBVIOUS
<1>1. /\ n \in Nat /\ 1 .. n \subseteq DOMAIN log /\ queue[r] \subseteq 1 .. n
      /\ \A j \in queue[r], i \in 1 .. n :
             ~IsDrop(j) /\ IsDrop(i) /\ Contains(log[i].part, log[j].part) => i \in queue[r]
  BY LogFacts DEF IInv, QueueInv
<1>2. D \in SUBSET Nat /\ D # {}
  <2>1. d \in 1 .. n /\ n - d \in D
    OBVIOUS
  <2>2. \A j \in 1 .. n : n - j \in Nat
    BY <1>1
  <2> QED
    BY <2>1, <2>2
<1>3. PICK w \in D : \A v \in D : w <= v
  <2> HIDE DEF D
  <2> QED BY <1>2, LeastElement
<1>4. PICK i \in 1 .. n : IsDrop(i) /\ w = n - i
  BY <1>3
<1>5. \A j \in 1 .. n : IsDrop(j) => j <= i
  <2>1. \A j \in 1 .. n : IsDrop(j) => n - j \in D
    OBVIOUS
  <2>2. \A j \in 1 .. n : IsDrop(j) => n - i <= n - j
    BY <1>3, <1>4, <2>1
  <2> HIDE DEF n, D
  <2> QED
    BY <1>1, <1>4, <2>2
<1> HIDE DEF n, D
<1>6. \A j \in DOMAIN log : log[j].part \in Name /\ log[j].part \in Part
  BY LogFacts DEF IInv
<1>7. Contains(log[i].part, log[d].part)
  <2>1. d \in DOMAIN log /\ i \in DOMAIN log /\ d \in 1 .. n
    BY <1>1 DEF n
  <2>2. log[d].part.min = 0 /\ log[i].part.min = 0
    BY <1>4, <2>1 DEF IInv, EntriesInv
  <2>3. ~IsDisjoint(log[d].part, log[i].part)
    BY <1>6, <2>1, <2>2 DEF IsDisjoint, Part
  <2>4. d < i \/ d = i
    BY <1>1, <1>4, <1>5, <2>1
  <2>5. d < i => Contains(log[i].part, log[d].part)
    BY <2>1, <2>3 DEF IInv, LaminarInv
  <2>6. d = i => Contains(log[i].part, log[d].part)
    BY <1>6, <2>1, ContainsOrder
  <2> QED
    BY <2>4, <2>5, <2>6
<1>8. k \in DOMAIN log /\ i \in DOMAIN log /\ d \in DOMAIN log
  BY <1>1 DEF n
<1>9. Contains(log[i].part, log[k].part)
  BY <1>6, <1>7, <1>8, ContainsOrder
<1>10. i \in queue[r]
  BY <1>1, <1>4, <1>9
<1>11. log[i].part \in virtual_parts[r]
  <2>1. LastDrop(i, log_pointer[r] - 1)
    BY <1>4, <1>5 DEF LastDrop, n
  <2> QED
    BY <1>10, <2>1 DEF IInv, VirtualInv
<1>12. virtual_parts[r] \in SUBSET Part /\ Disjoint(virtual_parts[r])
  BY DEF IInv, TypeOK, VirtualInv
<1>13. log[i].part \in GetContainingPart(virtual_parts[r], log[k].part)
  <2>1. GetContainingPart(virtual_parts[r], log[k].part) = {q \in virtual_parts[r] : Contains(q, log[k].part)}
    BY <1>6, <1>8, <1>12, ContainingPartIsFound
  <2> QED
    BY <1>9, <1>11, <2>1
<1>14. IsFakeDropRangePart(log[i].part)
  BY <1>4, <1>8, LogFacts DEF IInv
<1> QED
  BY <1>13, <1>14 DEF IsGoingToBeDropped

(* A step of one replica changes the queue and the entries in execution.   *)
LEMMA SkipEntryStep ==
  ASSUME IInv, NEW r \in Replicas, NEW k \in queue[r], SkipEntry(r, k)
  PROVE  IInv'
<1> DEFINE p == log[k].part
<1> USE DEF memory
<1>1. /\ ~IsDrop(k) /\ AlreadyHas(r, p) /\ \A x \in executing[r] : x.entry # k
      /\ queue' = [queue EXCEPT ![r] = @ \ {k}]
      /\ UNCHANGED <<log, locks, next_block, blocks, parts, log_pointer, session, virtual_parts, executing,
                     active, outdated, predicate, queries>>
  BY DEF SkipEntry, ShouldExecuteLogEntry
<1>2. /\ queue \in [Replicas -> SUBSET Nat] /\ parts \in [Replicas -> SUBSET Part]
      /\ virtual_parts \in [Replicas -> SUBSET Part] /\ executing \in [Replicas -> SUBSET Execution]
      /\ active \in [Replicas -> SUBSET Part] /\ outdated \in [Replicas -> SUBSET Part]
  BY DEF IInv, TypeOK
<1>3. /\ queue' \in [Replicas -> SUBSET Nat] /\ queue'[r] = queue[r] \ {k}
      /\ \A s \in Replicas : s # r => queue'[s] = queue[s]
  BY <1>1, <1>2
<1>4. k \in DOMAIN log /\ p \in Name /\ p \in Part
  BY LogFacts DEF IInv, QueueInv
<1>5. \E q \in parts[r] : Contains(q, p)
  <2>1. CASE p \in parts[r]
    BY <1>4, <2>1, ContainsOrder
  <2>2. CASE GetContainingPart(active[r], p) \cap parts[r] # {}
    <3>1. \A q \in GetContainingPart(active[r], p) : Contains(q, p)
      BY DEF GetContainingPart
    <3> QED
      BY <2>2, <3>1
  <2> QED
    BY <1>1, <2>1, <2>2 DEF AlreadyHas
<1>6. QueueInv'
  <2> SUFFICES ASSUME NEW s \in Replicas
               PROVE  /\ log_pointer[s] \in 1 .. Len(log) + 1
                      /\ queue'[s] \subseteq 1 .. log_pointer[s] - 1
                      /\ \A j \in 1 .. log_pointer[s] - 1 : ~IsDrop(j) /\ j \notin queue'[s] =>
                             \/ \E q \in parts[s] : Contains(q, log[j].part)
                             \/ \E d \in 1 .. log_pointer[s] - 1 : IsDrop(d) /\ Contains(log[d].part, log[j].part)
                      /\ \A j \in queue'[s], d \in 1 .. log_pointer[s] - 1 :
                             ~IsDrop(j) /\ IsDrop(d) /\ Contains(log[d].part, log[j].part) =>
                             d \in queue'[s] /\ \A x \in executing[s] : x.entry # d
                      /\ \A d \in 1 .. log_pointer[s] - 1 : IsDrop(d) /\ d \notin queue'[s] =>
                             \A q \in parts[s] : ~Contains(log[d].part, q)
    <3>1. UNCHANGED <<log, parts, log_pointer, executing>>
      BY <1>1
    <3> QED
      BY <3>1 DEF QueueInv, IsDrop
  <2>1. CASE s # r
    BY <1>3, <2>1 DEF IInv, QueueInv
  <2>2. CASE s = r
    BY <1>1, <1>3, <1>5, <2>2 DEF IInv, QueueInv
  <2> QED
    BY <2>1, <2>2
<1>7. ExecutingInv'
  <2> SUFFICES ASSUME NEW s \in Replicas, NEW x \in executing[s]
               PROVE  /\ x.entry \in queue'[s] \/ x.removed
                      /\ ~IsDrop(x.entry) =>
                             \A d \in 1 .. log_pointer[s] - 1 :
                                 IsDrop(d) /\ Contains(log[d].part, log[x.entry].part) => d \in queue'[s]
    BY <1>1 DEF IInv, ExecutingInv, IsDrop, PreActive, queries
  <2> QED
    BY <1>1, <1>3 DEF IInv, ExecutingInv
<1>8. VirtualInv'
  <2>1. \A s \in Replicas : queue'[s] \subseteq queue[s]
    BY <1>3
  <2> QED
    BY <1>1, <2>1 DEF IInv, VirtualInv, Real, MaximalParts, LogParts, LastDrop, IsDrop
<1> QED
  BY <1>1, <1>2, <1>3, <1>6, <1>7, <1>8, LocalStep, FrameInserts, FrameParts, FrameKept DEF IInv, queries

(* An entry that is no drop starts.                                        *)
LEMMA StartEntryStep ==
  ASSUME IInv, NEW r \in Replicas, NEW k \in queue[r], ~IsDrop(k), ShouldExecuteLogEntry(r, k),
         NEW q, StartEntry(r, k, q),
         q = log[k].part \/ q \notin FutureParts(r),
         Contains(q, log[k].part), \E j \in DOMAIN log : ~IsDrop(j) /\ log[j].part = q,
         q \notin active[r] \cup outdated[r] \cup PreActive(r)
  PROVE  IInv'
<1> DEFINE p == log[k].part
           x0 == Executing(k, q)
<1> USE DEF keeper
<1>0. UNCHANGED <<log, locks, next_block, blocks, parts, queue, log_pointer, session, virtual_parts,
                  active, outdated, predicate, queries>>
  BY DEF StartEntry
<1>1. /\ queue \in [Replicas -> SUBSET Nat] /\ parts \in [Replicas -> SUBSET Part]
      /\ virtual_parts \in [Replicas -> SUBSET Part] /\ executing \in [Replicas -> SUBSET Execution]
      /\ active \in [Replicas -> SUBSET Part] /\ outdated \in [Replicas -> SUBSET Part]
  BY DEF IInv, TypeOK
<1>2. /\ k \in 1 .. log_pointer[r] - 1 /\ k \in DOMAIN log /\ k \in Nat
      /\ p \in Name /\ q \in Part
  BY LogFacts DEF IInv, QueueInv
<1>3. /\ x0.entry = k /\ x0.actual = q /\ ~x0.removed /\ x0.stage = "started" /\ x0 \in Execution
  BY <1>2 DEF Executing, Execution
<1> HIDE DEF x0
<1>4. /\ executing' \in [Replicas -> SUBSET Execution]
      /\ executing'[r] = executing[r] \cup {x0}
      /\ \A s \in Replicas : s # r => executing'[s] = executing[s]
  BY <1>1, <1>3 DEF StartEntry, x0
<1>5. \A x \in executing[r] : x.entry # k /\ x.actual # q
  <2> SUFFICES ASSUME NEW x \in executing[r]
               PROVE  x.entry # k /\ x.actual # q
    OBVIOUS
  <2>1. x.actual \in FutureParts(r)
    BY DEF FutureParts, Tagged
  <2>2. IsDisjoint(x.actual, p)
    BY <2>1 DEF ShouldExecuteLogEntry
  <2>3. x.actual # p
    BY <1>2, <2>2 DEF IsDisjoint, Name, Part
  <2> QED
    BY <2>1, <2>3 DEF ShouldExecuteLogEntry
<1>6. \A d \in 1 .. log_pointer[r] - 1 : IsDrop(d) => ~Contains(log[d].part, p)
  BY NotDropped DEF ShouldExecuteLogEntry
<1>7. QueueInv'
  <2> SUFFICES ASSUME NEW s \in Replicas, NEW j \in queue[s], NEW d \in 1 .. log_pointer[s] - 1,
                      ~IsDrop(j), IsDrop(d), Contains(log[d].part, log[j].part)
               PROVE  d \in queue[s] /\ \A x \in executing'[s] : x.entry # d
    BY <1>0, SMTT(30) DEF IInv, QueueInv, IsDrop
  <2>1. d \in queue[s] /\ \A x \in executing[s] : x.entry # d
    BY DEF IInv, QueueInv
  <2> QED
    BY <1>3, <1>4, <2>1
<1>8. \A s \in Replicas : PreActive(s)' = PreActive(s)
  BY <1>0 DEF PreActive, queries
<1>9. ExecutingInv'
  <2> SUFFICES ASSUME NEW s \in Replicas, NEW x \in executing'[s]
               PROVE  /\ x.entry \in 1 .. log_pointer[s] - 1
                      /\ x.entry \in queue[s] \/ x.removed
                      /\ x.stage = "dropped" => IsDrop(x.entry)
                      /\ \A y \in executing'[s] : x.entry = y.entry => x = y
                      /\ IsDrop(x.entry) =>
                             /\ ~x.removed
                             /\ \A y \in executing'[s] : IsDrop(y.entry) => x = y
                             /\ x.stage = "dropped" =>
                                    /\ \A a \in active[s] : ~Contains(log[x.entry].part, a)
                                    /\ \A a \in outdated[s] : Contains(log[x.entry].part, a) => a \in x.gone
                                    /\ \A a \in x.gone : Contains(log[x.entry].part, a)
                      /\ ~IsDrop(x.entry) =>
                             /\ Contains(x.actual, log[x.entry].part)
                             /\ \E j \in DOMAIN log : ~IsDrop(j) /\ log[j].part = x.actual
                             /\ x.actual \notin active[s] \cup outdated[s] \cup PreActive(s)
                             /\ \A y \in executing'[s] : ~IsDrop(y.entry) /\ x.actual = y.actual => x = y
                             /\ x.removed => \E y \in executing'[s] : IsDrop(y.entry) /\ y.stage = "started"
                             /\ \A y \in executing'[s] :
                                    IsDrop(y.entry) /\ Contains(log[y.entry].part, log[x.entry].part) => x.removed
                             /\ \A d \in 1 .. log_pointer[s] - 1 :
                                    IsDrop(d) /\ Contains(log[d].part, log[x.entry].part) => d \in queue[s]
    BY <1>0, <1>8 DEF ExecutingInv, IsDrop
  <2>1. CASE s # r
    BY <1>4, <2>1 DEF IInv, ExecutingInv
  <2>2. CASE s = r /\ x = x0
    <3>1. \A y \in executing[r] : y.entry \in 1 .. log_pointer[r] - 1
      BY DEF IInv, ExecutingInv
    <3> QED
      BY <1>2, <1>3, <1>4, <1>5, <1>6, <2>2, <3>1
  <2>3. CASE s = r /\ x \in executing[r]
    <3>1. /\ x.entry \in 1 .. log_pointer[r] - 1
          /\ x.entry \in queue[r] \/ x.removed
          /\ x.stage = "dropped" => IsDrop(x.entry)
          /\ \A y \in executing[r] : x.entry = y.entry => x = y
          /\ IsDrop(x.entry) =>
                 /\ ~x.removed
                 /\ \A y \in executing[r] : IsDrop(y.entry) => x = y
                 /\ x.stage = "dropped" =>
                        /\ \A a \in active[r] : ~Contains(log[x.entry].part, a)
                        /\ \A a \in outdated[r] : Contains(log[x.entry].part, a) => a \in x.gone
                        /\ \A a \in x.gone : Contains(log[x.entry].part, a)
          /\ ~IsDrop(x.entry) =>
                 /\ Contains(x.actual, log[x.entry].part)
                 /\ \E j \in DOMAIN log : ~IsDrop(j) /\ log[j].part = x.actual
                 /\ x.actual \notin active[r] \cup outdated[r] \cup PreActive(r)
                 /\ \A y \in executing[r] : ~IsDrop(y.entry) /\ x.actual = y.actual => x = y
                 /\ x.removed => \E y \in executing[r] : IsDrop(y.entry) /\ y.stage = "started"
                 /\ \A y \in executing[r] :
                        IsDrop(y.entry) /\ Contains(log[y.entry].part, log[x.entry].part) => x.removed
                 /\ \A d \in 1 .. log_pointer[r] - 1 :
                        IsDrop(d) /\ Contains(log[d].part, log[x.entry].part) => d \in queue[r]
      BY <2>3 DEF IInv, ExecutingInv
    <3> QED
      BY <1>3, <1>4, <1>5, <2>3, <3>1
  <2> QED
    BY <1>4, <2>1, <2>2, <2>3
<1> QED
  BY <1>0, <1>1, <1>4, <1>7, <1>9, LocalStep, FrameInserts, FrameVirtual, FrameParts, FrameKept DEF IInv, queries

(* A part that a replica does not have is neither active nor pending.      *)
LEMMA DoesNotHave ==
  ASSUME IInv, NEW r \in Replicas, NEW k \in DOMAIN log, ~IsDrop(k), ~AlreadyHas(r, log[k].part)
  PROVE  /\ log[k].part \notin PreActive(r)
         /\ \A a \in active[r] : ~Contains(a, log[k].part)
<1> DEFINE p == log[k].part
<1>1. p \in Part
  BY LogFacts DEF IInv
<1>2. p \notin PreActive(r)
  <2> SUFFICES ASSUME p \in PreActive(r)
               PROVE  FALSE
    OBVIOUS
  <2>1. PICK i \in Inserts : HomeOf[i] = r /\ Pending(i) /\ p = Block(insert[i].block)
    BY PreActiveDef
  <2>2. IsGet(k)
    BY <2>1, BlocksAreInserts
  <2>3. p \in parts[r]
    BY <2>1, <2>2 DEF IInv, InsertsInv, Pending
  <2> QED
    BY <2>3 DEF AlreadyHas
<1>3. ASSUME NEW a \in active[r], Contains(a, p)
      PROVE  FALSE
  <2>1. active[r] \in SUBSET Part /\ Disjoint(active[r]) /\ active[r] \subseteq parts[r]
    BY DEF IInv, TypeOK, PartsInv
  <2>2. a \in GetContainingPart(active[r], p)
    BY <1>1, <1>3, <2>1, ContainingPartIsFound
  <2> QED
    BY <1>2, <2>1, <2>2 DEF AlreadyHas
<1> QED
  BY <1>2, <1>3

(* A part is fetched, the entry's own or a larger one.                     *)
LEMMA StartFetchStep ==
  ASSUME IInv, NEW r \in Replicas, NEW k \in queue[r], StartFetch(r, k)
  PROVE  IInv'
<1> DEFINE p == log[k].part
<1>1. ~IsDrop(k) /\ ShouldExecuteLogEntry(r, k) /\ ~AlreadyHas(r, p)
  BY DEF StartFetch
<1>2. PICK q \in Fetchable(r, k) : StartEntry(r, k, q)
  BY DEF StartFetch
<1>3. PICK s \in Replicas : q \in parts[s] /\ Contains(q, p)
  BY DEF Fetchable, LargestCoveringParts
<1>4. q \notin outdated[r] /\ (q = p \/ q \notin FutureParts(r))
  BY DEF Fetchable, AddFuturePartIfNotCoveredByThem
<1>5. PICK j \in DOMAIN log : ~IsDrop(j) /\ log[j].part = q
  BY <1>3 DEF IInv, PartsInv
<1>6. k \in DOMAIN log /\ p \in Name /\ q \in Name
  BY <1>5, LogFacts DEF IInv, QueueInv
<1>7. p \notin PreActive(r) /\ q \notin active[r]
  BY <1>1, <1>3, <1>6, DoesNotHave
<1>8. q \notin PreActive(r)
  <2> SUFFICES ASSUME q \in PreActive(r)
               PROVE  FALSE
    OBVIOUS
  <2>1. PICK i \in Inserts : q = Block(insert[i].block)
    BY PreActiveDef
  <2>2. q.min = q.max /\ q.level = 0
    BY <2>1 DEF Block
  <2>3. p \in [min : Nat, max : Nat, level : Nat] /\ q \in [min : Nat, max : Nat, level : Nat] /\ p.min <= p.max
    BY <1>6 DEF Name, Part
  <2>4. p.min = q.min /\ p.max = q.max /\ p.level = q.level
    BY <1>3, <2>2, <2>3 DEF Contains
  <2>5. p = q
    BY <2>3, <2>4
  <2> QED
    BY <1>7, <2>5
<1> QED
  BY <1>1, <1>2, <1>3, <1>4, <1>5, <1>7, <1>8, StartEntryStep

(* The sources are there: the part is merged here.                         *)
LEMMA StartMergeStep ==
  ASSUME IInv, NEW r \in Replicas, NEW k \in queue[r], StartMerge(r, k)
  PROVE  IInv'
<1> DEFINE p == log[k].part
<1>1. ~IsDrop(k) /\ ShouldExecuteLogEntry(r, k) /\ ~AlreadyHas(r, p) /\ StartEntry(r, k, p)
  BY DEF StartMerge, IsDrop
<1>2. k \in DOMAIN log /\ p \in Name /\ Contains(p, p)
  BY LogFacts, ContainsOrder DEF IInv, QueueInv
<1>3. p \notin PreActive(r) /\ p \notin active[r] /\ \A a \in active[r] : ~Contains(a, p)
  BY <1>1, <1>2, DoesNotHave
<1>4. \A d \in 1 .. log_pointer[r] - 1 : IsDrop(d) => ~Contains(log[d].part, p)
  BY <1>1, NotDropped DEF ShouldExecuteLogEntry
<1>5. p \notin outdated[r]
  BY <1>3, <1>4 DEF IInv, PartsInv
<1> QED
  BY <1>1, <1>2, <1>3, <1>5, StartEntryStep

(* What stays true of the other entries in execution when one of them, not *)
(* a drop, ends, having committed its part or not.                         *)
LEMMA EndedExecuting ==
  ASSUME IInv, NEW r \in Replicas, NEW x \in executing[r], ~IsDrop(x.entry),
         UNCHANGED <<log, log_pointer, queries>>,
         executing' = [executing EXCEPT ![r] = @ \ {x}],
         queue'[r] = queue[r] \/ queue'[r] = queue[r] \ {x.entry},
         active'[r] \subseteq active[r] \cup {x.actual},
         outdated'[r] \subseteq outdated[r] \cup active[r] \cup {x.actual},
         \A s \in Replicas : s # r => /\ queue'[s] = queue[s]
                                      /\ active'[s] = active[s] /\ outdated'[s] = outdated[s]
  PROVE  /\ ExecutingInv'
         /\ executing' \in [Replicas -> SUBSET Execution]
<1> DEFINE q == x.actual
<1>1. executing \in [Replicas -> SUBSET Execution]
  BY DEF IInv, TypeOK
<1>2. /\ executing' \in [Replicas -> SUBSET Execution] /\ executing'[r] = executing[r] \ {x}
      /\ \A s \in Replicas : s # r => executing'[s] = executing[s]
  BY <1>1
<1>3. \A s \in Replicas : PreActive(s)' = PreActive(s)
  BY DEF PreActive, queries
<1>4. \A y \in executing[r] :
          /\ y.entry \in 1 .. log_pointer[r] - 1
          /\ y.entry \in queue[r] \/ y.removed
          /\ y.stage = "dropped" => IsDrop(y.entry)
          /\ \A z \in executing[r] : y.entry = z.entry => y = z
          /\ IsDrop(y.entry) =>
                 /\ ~y.removed
                 /\ \A z \in executing[r] : IsDrop(z.entry) => y = z
                 /\ y.stage = "dropped" =>
                        /\ \A a \in active[r] : ~Contains(log[y.entry].part, a)
                        /\ \A a \in outdated[r] : Contains(log[y.entry].part, a) => a \in y.gone
                        /\ \A a \in y.gone : Contains(log[y.entry].part, a)
          /\ ~IsDrop(y.entry) =>
                 /\ Contains(y.actual, log[y.entry].part)
                 /\ \E j \in DOMAIN log : ~IsDrop(j) /\ log[j].part = y.actual
                 /\ y.actual \notin active[r] \cup outdated[r] \cup PreActive(r)
                 /\ \A z \in executing[r] : ~IsDrop(z.entry) /\ y.actual = z.actual => y = z
                 /\ y.removed => \E z \in executing[r] : IsDrop(z.entry) /\ z.stage = "started"
                 /\ \A z \in executing[r] :
                        IsDrop(z.entry) /\ Contains(log[z.entry].part, log[y.entry].part) => y.removed
                 /\ \A d \in 1 .. log_pointer[r] - 1 :
                        IsDrop(d) /\ Contains(log[d].part, log[y.entry].part) => d \in queue[r]
  BY DEF IInv, ExecutingInv
<1>5. ASSUME NEW y \in executing[r], IsDrop(y.entry), y.stage = "dropped"
      PROVE  ~Contains(log[y.entry].part, q)
  <2> SUFFICES ASSUME Contains(log[y.entry].part, q)
               PROVE  FALSE
    OBVIOUS
  <2>1. x.entry \in DOMAIN log /\ y.entry \in DOMAIN log
    BY <1>4, LogFacts DEF IInv, QueueInv
  <2>2. log[x.entry].part \in Name /\ log[y.entry].part \in Name /\ q \in Name
    BY <1>4, <2>1, LogFacts DEF IInv
  <2>3. Contains(log[y.entry].part, log[x.entry].part)
    BY <1>4, <2>2, ContainsOrder
  <2>4. x.removed
    BY <1>4, <1>5, <2>3
  <2>5. PICK z \in executing[r] : IsDrop(z.entry) /\ z.stage = "started"
    BY <1>4, <2>4
  <2> QED
    BY <1>4, <1>5, <2>5
<1>6. ExecutingInv'
  <2> SUFFICES ASSUME NEW s \in Replicas, NEW y \in executing'[s]
               PROVE  /\ y.entry \in 1 .. log_pointer[s] - 1
                      /\ y.entry \in queue'[s] \/ y.removed
                      /\ y.stage = "dropped" => IsDrop(y.entry)
                      /\ \A z \in executing'[s] : y.entry = z.entry => y = z
                      /\ IsDrop(y.entry) =>
                             /\ ~y.removed
                             /\ \A z \in executing'[s] : IsDrop(z.entry) => y = z
                             /\ y.stage = "dropped" =>
                                    /\ \A a \in active'[s] : ~Contains(log[y.entry].part, a)
                                    /\ \A a \in outdated'[s] : Contains(log[y.entry].part, a) => a \in y.gone
                                    /\ \A a \in y.gone : Contains(log[y.entry].part, a)
                      /\ ~IsDrop(y.entry) =>
                             /\ Contains(y.actual, log[y.entry].part)
                             /\ \E j \in DOMAIN log : ~IsDrop(j) /\ log[j].part = y.actual
                             /\ y.actual \notin active'[s] \cup outdated'[s] \cup PreActive(s)
                             /\ \A z \in executing'[s] : ~IsDrop(z.entry) /\ y.actual = z.actual => y = z
                             /\ y.removed => \E z \in executing'[s] : IsDrop(z.entry) /\ z.stage = "started"
                             /\ \A z \in executing'[s] :
                                    IsDrop(z.entry) /\ Contains(log[z.entry].part, log[y.entry].part) => y.removed
                             /\ \A d \in 1 .. log_pointer[s] - 1 :
                                    IsDrop(d) /\ Contains(log[d].part, log[y.entry].part) => d \in queue'[s]
    BY <1>3 DEF ExecutingInv, IsDrop
  <2>1. CASE s # r
    BY <1>2, <2>1 DEF IInv, ExecutingInv
  <2>2. CASE s = r
    <3>1. y \in executing[r] /\ y # x /\ y.entry # x.entry
      BY <1>2, <1>4, <2>2
    <3>2. IsDrop(y.entry) /\ y.stage = "dropped" =>
              /\ \A a \in active'[r] : ~Contains(log[y.entry].part, a)
              /\ \A a \in outdated'[r] : Contains(log[y.entry].part, a) => a \in y.gone
      BY <1>4, <1>5, <3>1
    <3>3. ~IsDrop(y.entry) => y.actual \notin active'[r] \cup outdated'[r] \cup PreActive(r)
      BY <1>4, <3>1
    <3>4. \A d \in 1 .. log_pointer[r] - 1 : IsDrop(d) /\ d \in queue[r] => d \in queue'[r]
      OBVIOUS
    <3>5. y.removed /\ ~IsDrop(y.entry) => \E z \in executing'[r] : IsDrop(z.entry) /\ z.stage = "started"
      BY <1>2, <1>4, <3>1
    <3> QED
      BY <1>2, <1>4, <2>2, <3>1, <3>2, <3>3, <3>4, <3>5
  <2> QED
    BY <2>1, <2>2
<1> QED
  BY <1>2, <1>6

(* A fetch or a merge fails and the entry stays in the queue.              *)
LEMMA FailEntryStep ==
  ASSUME IInv, NEW r \in Replicas, NEW x \in executing[r], FailEntry(r, x)
  PROVE  IInv'
<1> USE DEF keeper
<1>1. /\ ~IsDrop(x.entry)
      /\ executing' = [executing EXCEPT ![r] = @ \ {x}]
      /\ UNCHANGED <<log, locks, next_block, blocks, parts, queue, log_pointer, session, virtual_parts,
                     active, outdated, predicate, queries>>
  BY DEF FailEntry
<1>2. ExecutingInv' /\ executing' \in [Replicas -> SUBSET Execution]
  BY <1>1, EndedExecuting
<1>3. \A s \in Replicas : executing'[s] \subseteq executing[s]
  BY <1>1 DEF IInv, TypeOK
<1>4. QueueInv'
  BY <1>1, <1>3, SMTT(30) DEF IInv, QueueInv, IsDrop
<1>5. /\ queue \in [Replicas -> SUBSET Nat] /\ parts \in [Replicas -> SUBSET Part]
      /\ virtual_parts \in [Replicas -> SUBSET Part]
      /\ active \in [Replicas -> SUBSET Part] /\ outdated \in [Replicas -> SUBSET Part]
  BY DEF IInv, TypeOK
<1> QED
  BY <1>1, <1>2, <1>4, <1>5, LocalStep, FrameInserts, FrameVirtual, FrameParts, FrameKept DEF IInv, queries

(* The part of an entry is committed, or something larger already was.     *)
LEMMA FinishEntryStep ==
  ASSUME IInv, NEW r \in Replicas, NEW x \in executing[r], FinishEntry(r, x)
  PROVE  IInv'
<1> DEFINE q == x.actual
           p == log[x.entry].part
<1>1. /\ ~IsDrop(x.entry)
      /\ executing' = [executing EXCEPT ![r] = @ \ {x}]
      /\ queue' = [queue EXCEPT ![r] = @ \ {x.entry}]
      /\ UNCHANGED <<log, locks, next_block, blocks, log_pointer, session, virtual_parts, predicate, queries>>
      /\ \/ IsCovered(active[r], q) /\ UNCHANGED <<parts, active, outdated>>
         \/ parts' = [parts EXCEPT ![r] = @ \cup {q}] /\ CommitPart(r, q)
  BY DEF FinishEntry
<1>2. /\ queue \in [Replicas -> SUBSET Nat] /\ parts \in [Replicas -> SUBSET Part]
      /\ virtual_parts \in [Replicas -> SUBSET Part]
      /\ active \in [Replicas -> SUBSET Part] /\ outdated \in [Replicas -> SUBSET Part]
  BY DEF IInv, TypeOK
<1>3. /\ x.entry \in 1 .. log_pointer[r] - 1
      /\ Contains(q, p)
      /\ \E j \in DOMAIN log : ~IsDrop(j) /\ log[j].part = q
      /\ q \notin active[r] \cup outdated[r] \cup PreActive(r)
      /\ \A d \in 1 .. log_pointer[r] - 1 : IsDrop(d) /\ Contains(log[d].part, p) => d \in queue[r]
  BY <1>1 DEF IInv, ExecutingInv
<1>4. PICK k \in DOMAIN log : ~IsDrop(k) /\ log[k].part = q
  BY <1>3
<1>5. x.entry \in DOMAIN log /\ p \in Name /\ q \in Name /\ q \in Part
  <2>1. x.entry \in DOMAIN log
    BY <1>3, LogFacts DEF IInv, QueueInv
  <2> QED
    BY <1>4, <2>1, LogFacts DEF IInv
<1>6. /\ queue' \in [Replicas -> SUBSET Nat] /\ queue'[r] = queue[r] \ {x.entry}
      /\ \A s \in Replicas : s # r => queue'[s] = queue[s]
  BY <1>1, <1>2
<1>7. /\ parts' \in [Replicas -> SUBSET Part]
      /\ \A s \in Replicas : parts[s] \subseteq parts'[s]
      /\ \A s \in Replicas : s # r => parts'[s] = parts[s]
      /\ parts'[r] \subseteq parts[r] \cup {q}
  BY <1>1, <1>2, <1>5
<1>8. /\ active' \in [Replicas -> SUBSET Part] /\ outdated' \in [Replicas -> SUBSET Part]
      /\ \A s \in Replicas : s # r => active'[s] = active[s] /\ outdated'[s] = outdated[s]
      /\ active'[r] \subseteq active[r] \cup {q}
      /\ outdated'[r] \subseteq outdated[r] \cup active[r] \cup {q}
      /\ Disjoint(active'[r])
  <2>1. CASE UNCHANGED <<parts, active, outdated>>
    BY <1>2, <2>1 DEF IInv, PartsInv
  <2>2. CASE CommitPart(r, q)
    BY <1>4, <2>2, CommitPartFacts
  <2> QED
    BY <1>1, <2>1, <2>2
<1>9. ExecutingInv' /\ executing' \in [Replicas -> SUBSET Execution]
  BY <1>1, <1>6, <1>8, EndedExecuting
<1>10. \E a \in parts'[r] : Contains(a, p)
  <2>1. CASE IsCovered(active[r], q) /\ UNCHANGED <<parts, active, outdated>>
    <3>1. PICK a \in active[r] : Contains(a, q)
      BY <2>1 DEF IsCovered, GetContainingPart, LowerBound, Previous
    <3>2. a \in parts[r] /\ a \in Name
      <4>1. a \in parts[r] /\ \E j \in DOMAIN log : a = log[j].part
        BY DEF IInv, PartsInv
      <4> QED
        BY <4>1, LogFacts DEF IInv
    <3> QED
      BY <1>3, <1>5, <2>1, <3>1, <3>2, ContainsOrder
  <2>2. CASE parts' = [parts EXCEPT ![r] = @ \cup {q}]
    BY <1>2, <1>3, <2>2
  <2> QED
    BY <1>1, <2>1, <2>2
<1>11. \A s \in Replicas : PreActive(s)' = PreActive(s)
  BY <1>1 DEF PreActive, queries
<1>12. QueueInv'
  <2> SUFFICES ASSUME NEW s \in Replicas
               PROVE  /\ log_pointer[s] \in 1 .. Len(log) + 1
                      /\ queue'[s] \subseteq 1 .. log_pointer[s] - 1
                      /\ \A j \in 1 .. log_pointer[s] - 1 : ~IsDrop(j) /\ j \notin queue'[s] =>
                             \/ \E a \in parts'[s] : Contains(a, log[j].part)
                             \/ \E d \in 1 .. log_pointer[s] - 1 : IsDrop(d) /\ Contains(log[d].part, log[j].part)
                      /\ \A j \in queue'[s], d \in 1 .. log_pointer[s] - 1 :
                             ~IsDrop(j) /\ IsDrop(d) /\ Contains(log[d].part, log[j].part) =>
                             d \in queue'[s] /\ \A y \in executing'[s] : y.entry # d
                      /\ \A d \in 1 .. log_pointer[s] - 1 : IsDrop(d) /\ d \notin queue'[s] =>
                             \A a \in parts'[s] : ~Contains(log[d].part, a)
    <3>1. UNCHANGED <<log, log_pointer>>
      BY <1>1
    <3> QED
      BY <3>1 DEF QueueInv, IsDrop
  <2>0. /\ log_pointer[s] \in 1 .. Len(log) + 1
        /\ queue[s] \subseteq 1 .. log_pointer[s] - 1
        /\ \A j \in 1 .. log_pointer[s] - 1 : ~IsDrop(j) /\ j \notin queue[s] =>
               \/ \E a \in parts[s] : Contains(a, log[j].part)
               \/ \E d \in 1 .. log_pointer[s] - 1 : IsDrop(d) /\ Contains(log[d].part, log[j].part)
        /\ \A j \in queue[s], d \in 1 .. log_pointer[s] - 1 :
               ~IsDrop(j) /\ IsDrop(d) /\ Contains(log[d].part, log[j].part) =>
               d \in queue[s] /\ \A y \in executing[s] : y.entry # d
        /\ \A d \in 1 .. log_pointer[s] - 1 : IsDrop(d) /\ d \notin queue[s] =>
               \A a \in parts[s] : ~Contains(log[d].part, a)
    BY DEF IInv, QueueInv
  <2>1. executing'[s] \subseteq executing[s]
    BY <1>1 DEF IInv, TypeOK
  <2>2. CASE s # r
    BY <1>6, <1>7, <2>0, <2>1, <2>2
  <2>3. CASE s = r
    <3>1. ASSUME NEW d \in 1 .. log_pointer[r] - 1, IsDrop(d), d \notin queue'[r], NEW a \in parts'[r],
                 Contains(log[d].part, a)
          PROVE  FALSE
      <4>1. d \notin queue[r]
        BY <1>1, <1>6, <3>1
      <4>2. a = q
        BY <1>7, <2>0, <2>3, <3>1, <4>1
      <4>3. log[d].part \in Name
        BY LogFacts DEF IInv, QueueInv
      <4>4. Contains(log[d].part, p)
        BY <1>3, <1>5, <3>1, <4>2, <4>3, ContainsOrder
      <4> QED
        BY <1>3, <3>1, <4>1, <4>4
    <3> QED
      BY <1>1, <1>6, <1>7, <1>10, <2>0, <2>1, <2>3, <3>1
  <2> QED
    BY <2>2, <2>3
<1>13. PartsInv'
  <2> SUFFICES ASSUME NEW s \in Replicas
               PROVE  /\ active'[s] \cup outdated'[s] \subseteq {log[j].part : j \in {jj \in DOMAIN log : ~IsDrop(jj)}}
                      /\ active'[s] \subseteq parts'[s]
                      /\ parts'[s] \subseteq active'[s] \cup outdated'[s] \cup PreActive(s)
                      /\ parts'[s] \subseteq {log[j].part : j \in {jj \in DOMAIN log : ~IsDrop(jj)}}
                      /\ Disjoint(active'[s])
                      /\ active'[s] \cap outdated'[s] = {}
                      /\ PreActive(s) \cap (active'[s] \cup outdated'[s]) = {}
                      /\ \A a \in outdated'[s] :
                             \/ \E b \in active'[s] : Contains(b, a)
                             \/ \E j \in 1 .. log_pointer[s] - 1 : IsDrop(j) /\ Contains(log[j].part, a)
    BY <1>1, <1>11 DEF IInv, PartsInv, OnDisk, IsDrop
  <2>0. /\ active[s] \cup outdated[s] \subseteq {log[j].part : j \in {jj \in DOMAIN log : ~IsDrop(jj)}}
        /\ active[s] \subseteq parts[s]
        /\ parts[s] \subseteq active[s] \cup outdated[s] \cup PreActive(s)
        /\ parts[s] \subseteq {log[j].part : j \in {jj \in DOMAIN log : ~IsDrop(jj)}}
        /\ Disjoint(active[s])
        /\ active[s] \cap outdated[s] = {}
        /\ PreActive(s) \cap (active[s] \cup outdated[s]) = {}
        /\ \A a \in outdated[s] :
               \/ \E b \in active[s] : Contains(b, a)
               \/ \E j \in 1 .. log_pointer[s] - 1 : IsDrop(j) /\ Contains(log[j].part, a)
    BY DEF IInv, PartsInv, OnDisk
  <2>1. CASE s # r
    BY <1>7, <1>8, <2>0, <2>1
  <2>2. CASE s = r /\ UNCHANGED <<parts, active, outdated>>
    BY <2>0, <2>2
  <2>3. CASE s = r /\ parts' = [parts EXCEPT ![r] = @ \cup {q}] /\ CommitPart(r, q)
    <3>0. parts'[r] = parts[r] \cup {q}
      BY <1>2, <2>3
    <3>1. q \in {log[j].part : j \in {jj \in DOMAIN log : ~IsDrop(jj)}}
      BY <1>4
    <3>2. /\ outdated'[r] = outdated[r] \cup ((active[r] \cup {q}) \ active'[r])
          /\ \A a \in active[r] \cup {q} : \E b \in active'[r] : Contains(b, a)
      <4> HIDE DEF q
      <4>1. CommitPart(r, q)
        BY <2>3
      <4> QED
        BY <1>4, <4>1, CommitPartFacts
    <3>3. active'[s] \cup outdated'[s] = active[s] \cup outdated[s] \cup {q}
      BY <1>8, <2>3, <3>2
    <3>4. active'[s] \cap outdated'[s] = {}
      BY <1>3, <1>8, <2>0, <2>3, <3>2
    <3>5. ASSUME NEW a \in outdated'[s]
          PROVE  \/ \E b \in active'[s] : Contains(b, a)
                 \/ \E j \in 1 .. log_pointer[s] - 1 : IsDrop(j) /\ Contains(log[j].part, a)
      <4>1. CASE a \in active[s] \cup {q}
        BY <2>3, <3>2, <4>1
      <4>2. CASE a \in outdated[s]
        <5>1. CASE \E b \in active[s] : Contains(b, a)
          <6>1. PICK b \in active[s] : Contains(b, a)
            BY <5>1
          <6>2. PICK c \in active'[s] : Contains(c, b)
            BY <2>3, <3>2
          <6>3. a \in Name /\ b \in Name /\ c \in Name
            <7>1. \A z \in active[s] \cup outdated[s] \cup {q} : z \in Name
              BY <2>0, <3>1, LogFacts DEF IInv
            <7> QED
              BY <3>3, <4>2, <7>1
          <6> QED
            BY <6>1, <6>2, <6>3, ContainsOrder
        <5> QED
          BY <2>0, <4>2, <5>1
      <4> QED
        BY <2>3, <3>2, <3>5, <4>1, <4>2
    <3>6. active'[s] \subseteq parts'[s]
      BY <1>8, <2>0, <2>3, <3>0
    <3>7. parts'[s] \subseteq active'[s] \cup outdated'[s] \cup PreActive(s)
      BY <2>0, <2>3, <3>0, <3>3
    <3>8. PreActive(s) \cap (active'[s] \cup outdated'[s]) = {}
      BY <1>3, <2>0, <2>3, <3>3
    <3>9. /\ active'[s] \cup outdated'[s] \subseteq {log[j].part : j \in {jj \in DOMAIN log : ~IsDrop(jj)}}
          /\ parts'[s] \subseteq {log[j].part : j \in {jj \in DOMAIN log : ~IsDrop(jj)}}
      BY <2>0, <2>3, <3>0, <3>1, <3>3
    <3> HIDE DEF q
    <3> QED
      BY <1>8, <2>3, <3>4, <3>5, <3>6, <3>7, <3>8, <3>9
  <2> QED
    BY <1>1, <2>1, <2>2, <2>3
<1>14. VirtualInv'
  <2>1. \A s \in Replicas : queue'[s] \subseteq queue[s]
    BY <1>6
  <2> QED
    BY <1>1, <2>1 DEF IInv, VirtualInv, Real, MaximalParts, LogParts, LastDrop, IsDrop
<1>15. InsertsInv'
  <2>1. \A i \in Inserts : parts[HomeOf[i]] \subseteq parts'[HomeOf[i]]
    BY <1>7, ReplicationAssumption
  <2> QED
    BY <1>1, <2>1 DEF IInv, InsertsInv, IsGet, queries
<1>16. KeptInv'
  BY <1>1, <1>7 DEF IInv, KeptInv, IsGet, IsDrop
<1> HIDE DEF p, q
<1> QED
  BY <1>1, <1>2, <1>6, <1>7, <1>8, <1>9, <1>12, <1>13, <1>14, <1>15, <1>16, LocalStep

(* A drop starts: the entries of its range leave the queue, and no part    *)
(* they would produce is expected, because the range covers it.            *)
LEMMA StartDropRangeStep ==
  ASSUME IInv, NEW r \in Replicas, NEW k \in queue[r], StartDropRange(r, k)
  PROVE  IInv'
<1> DEFINE range == log[k].part
           covered == {j \in queue[r] : ~IsDrop(j) /\ Contains(range, log[j].part)}
           Mark(x) == [x EXCEPT !.removed = @ \/ x.entry \in covered]
           x0 == Executing(k, range)
<1>1. /\ IsDrop(k) /\ ShouldExecuteLogEntry(r, k)
      /\ queue' = [queue EXCEPT ![r] = @ \ covered]
      /\ virtual_parts' = [virtual_parts EXCEPT ![r] = @ \ {log[j].part : j \in covered}]
      /\ executing' = [executing EXCEPT ![r] = {Mark(x) : x \in @} \cup {x0}]
      /\ UNCHANGED <<log, locks, next_block, blocks, parts, log_pointer, session, active, outdated,
                     predicate, queries>>
  BY DEF StartDropRange
<1>2. /\ queue \in [Replicas -> SUBSET Nat] /\ parts \in [Replicas -> SUBSET Part]
      /\ virtual_parts \in [Replicas -> SUBSET Part] /\ executing \in [Replicas -> SUBSET Execution]
      /\ active \in [Replicas -> SUBSET Part] /\ outdated \in [Replicas -> SUBSET Part]
  BY DEF IInv, TypeOK
<1>3. /\ queue[r] \subseteq 1 .. log_pointer[r] - 1 /\ queue[r] \subseteq DOMAIN log
      /\ 1 .. log_pointer[r] - 1 \subseteq DOMAIN log
  BY LogFacts DEF IInv, QueueInv
<1>4. k \in Nat /\ k \in 1 .. log_pointer[r] - 1 /\ range \in Name /\ range \in Part
  BY <1>3, LogFacts DEF IInv
<1>5. /\ x0.entry = k /\ x0.actual = range /\ x0.removed = FALSE /\ x0.stage = "started" /\ x0 \in Execution
  BY <1>4 DEF Executing, Execution
<1>6. \A x \in Execution : /\ Mark(x) \in Execution /\ Mark(x).entry = x.entry /\ Mark(x).actual = x.actual
                           /\ Mark(x).stage = x.stage /\ Mark(x).gone = x.gone
                           /\ Mark(x).removed <=> x.removed \/ x.entry \in covered
  BY DEF Execution
<1>7. /\ queue' \in [Replicas -> SUBSET Nat] /\ queue'[r] = queue[r] \ covered
      /\ \A s \in Replicas : s # r => queue'[s] = queue[s]
  BY <1>1, <1>2
<1>8. /\ executing' \in [Replicas -> SUBSET Execution]
      /\ executing'[r] = {Mark(x) : x \in executing[r]} \cup {x0}
      /\ \A s \in Replicas : s # r => executing'[s] = executing[s]
  <2> HIDE DEF Mark, x0
  <2>1. {Mark(x) : x \in executing[r]} \cup {x0} \in SUBSET Execution
    BY <1>2, <1>5, <1>6
  <2> QED
    BY <1>1, <1>2, <2>1
<1> HIDE DEF Mark, x0
<1>9. \A j \in covered : log[j].part \notin virtual_parts[r]
  <2> SUFFICES ASSUME NEW j \in covered, log[j].part \in virtual_parts[r]
               PROVE  FALSE
    OBVIOUS
  <2>1. ~IsFakeDropRangePart(log[j].part) /\ IsFakeDropRangePart(range)
    BY <1>1, <1>3, LogFacts DEF IInv
  <2>2. log[j].part \in MaximalParts(LogParts(log_pointer[r] - 1))
    <3>1. log[j].part \in Real(virtual_parts[r])
      BY <2>1 DEF Real
    <3>2. log[j].part \in Real(MaximalParts(LogParts(log_pointer[r] - 1)))
      BY <3>1 DEF IInv, VirtualInv
    <3> QED
      BY <3>2 DEF Real
  <2>3. range \in LogParts(log_pointer[r] - 1)
    BY <1>4 DEF LogParts
  <2>4. range = log[j].part
    BY <2>2, <2>3 DEF MaximalParts
  <2> QED
    BY <2>1, <2>4
<1>10. virtual_parts' = virtual_parts
  <2>1. virtual_parts[r] \ {log[j].part : j \in covered} = virtual_parts[r]
    BY <1>9
  <2> QED
    BY <1>1, <1>2, <2>1
<1>11. \A x \in executing[r] : x.entry # k /\ ~IsDrop(x.entry)
  <2> SUFFICES ASSUME NEW x \in executing[r]
               PROVE  x.entry # k /\ ~IsDrop(x.entry)
    OBVIOUS
  <2>1. x.entry # k /\ (~IsDrop(x.entry) \/ IsDisjoint(log[x.entry].part, range))
    BY <1>1 DEF ShouldExecuteLogEntry
  <2>2. x.entry \in DOMAIN log
    BY <1>3 DEF IInv, ExecutingInv
  <2>3. IsDrop(x.entry) => log[x.entry].part.min = 0 /\ range.min = 0
    BY <1>1, <1>3, <2>2 DEF IInv, EntriesInv
  <2>4. log[x.entry].part \in Part
    BY <2>2, LogFacts DEF IInv
  <2> QED
    BY <1>4, <2>1, <2>3, <2>4 DEF IsDisjoint, Part
<1>12. \A s \in Replicas : PreActive(s)' = PreActive(s)
  BY <1>1 DEF PreActive, queries
<1>13. QueueInv'
  <2> SUFFICES ASSUME NEW s \in Replicas
               PROVE  /\ log_pointer[s] \in 1 .. Len(log) + 1
                      /\ queue'[s] \subseteq 1 .. log_pointer[s] - 1
                      /\ \A j \in 1 .. log_pointer[s] - 1 : ~IsDrop(j) /\ j \notin queue'[s] =>
                             \/ \E a \in parts[s] : Contains(a, log[j].part)
                             \/ \E d \in 1 .. log_pointer[s] - 1 : IsDrop(d) /\ Contains(log[d].part, log[j].part)
                      /\ \A j \in queue'[s], d \in 1 .. log_pointer[s] - 1 :
                             ~IsDrop(j) /\ IsDrop(d) /\ Contains(log[d].part, log[j].part) =>
                             d \in queue'[s] /\ \A y \in executing'[s] : y.entry # d
                      /\ \A d \in 1 .. log_pointer[s] - 1 : IsDrop(d) /\ d \notin queue'[s] =>
                             \A a \in parts[s] : ~Contains(log[d].part, a)
    <3>1. UNCHANGED <<log, parts, log_pointer>>
      BY <1>1
    <3> QED
      BY <3>1 DEF QueueInv, IsDrop
  <2>0. /\ log_pointer[s] \in 1 .. Len(log) + 1
        /\ queue[s] \subseteq 1 .. log_pointer[s] - 1
        /\ \A j \in 1 .. log_pointer[s] - 1 : ~IsDrop(j) /\ j \notin queue[s] =>
               \/ \E a \in parts[s] : Contains(a, log[j].part)
               \/ \E d \in 1 .. log_pointer[s] - 1 : IsDrop(d) /\ Contains(log[d].part, log[j].part)
        /\ \A j \in queue[s], d \in 1 .. log_pointer[s] - 1 :
               ~IsDrop(j) /\ IsDrop(d) /\ Contains(log[d].part, log[j].part) =>
               d \in queue[s] /\ \A y \in executing[s] : y.entry # d
        /\ \A d \in 1 .. log_pointer[s] - 1 : IsDrop(d) /\ d \notin queue[s] =>
               \A a \in parts[s] : ~Contains(log[d].part, a)
    BY DEF IInv, QueueInv
  <2>1. CASE s # r
    BY <1>7, <1>8, <2>0, <2>1
  <2>2. CASE s = r
    <3>1. \A j \in 1 .. log_pointer[s] - 1 : ~IsDrop(j) /\ j \notin queue'[s] =>
              \/ \E a \in parts[s] : Contains(a, log[j].part)
              \/ \E d \in 1 .. log_pointer[s] - 1 : IsDrop(d) /\ Contains(log[d].part, log[j].part)
      BY <1>1, <1>4, <1>7, <2>0, <2>2
    <3>2. ASSUME NEW j \in queue'[s], NEW d \in 1 .. log_pointer[s] - 1,
                 ~IsDrop(j), IsDrop(d), Contains(log[d].part, log[j].part)
          PROVE  d \in queue'[s] /\ \A y \in executing'[s] : y.entry # d
      <4>1. d \in queue[r] /\ (\A y \in executing[r] : y.entry # d) /\ d \in queue'[r] /\ d # k
        BY <1>7, <2>0, <2>2, <3>2
      <4>2. \A y \in executing'[r] : y.entry = k \/ \E z \in executing[r] : y.entry = z.entry
        BY <1>2, <1>5, <1>6, <1>8
      <4> QED
        BY <2>2, <4>1, <4>2
    <3> QED
      BY <1>7, <2>0, <2>2, <3>1, <3>2
  <2> QED
    BY <2>1, <2>2
<1>14. ExecutingInv'
  <2> SUFFICES ASSUME NEW s \in Replicas, NEW x \in executing'[s]
               PROVE  /\ x.entry \in 1 .. log_pointer[s] - 1
                      /\ x.entry \in queue'[s] \/ x.removed
                      /\ x.stage = "dropped" => IsDrop(x.entry)
                      /\ \A y \in executing'[s] : x.entry = y.entry => x = y
                      /\ IsDrop(x.entry) =>
                             /\ ~x.removed
                             /\ \A y \in executing'[s] : IsDrop(y.entry) => x = y
                             /\ x.stage = "dropped" =>
                                    /\ \A a \in active[s] : ~Contains(log[x.entry].part, a)
                                    /\ \A a \in outdated[s] : Contains(log[x.entry].part, a) => a \in x.gone
                                    /\ \A a \in x.gone : Contains(log[x.entry].part, a)
                      /\ ~IsDrop(x.entry) =>
                             /\ Contains(x.actual, log[x.entry].part)
                             /\ \E j \in DOMAIN log : ~IsDrop(j) /\ log[j].part = x.actual
                             /\ x.actual \notin active[s] \cup outdated[s] \cup PreActive(s)
                             /\ \A y \in executing'[s] : ~IsDrop(y.entry) /\ x.actual = y.actual => x = y
                             /\ x.removed => \E y \in executing'[s] : IsDrop(y.entry) /\ y.stage = "started"
                             /\ \A y \in executing'[s] :
                                    IsDrop(y.entry) /\ Contains(log[y.entry].part, log[x.entry].part) => x.removed
                             /\ \A d \in 1 .. log_pointer[s] - 1 :
                                    IsDrop(d) /\ Contains(log[d].part, log[x.entry].part) => d \in queue'[s]
    <3>1. UNCHANGED <<log, log_pointer, active, outdated>>
      BY <1>1
    <3> QED
      BY <1>12, <3>1 DEF ExecutingInv, IsDrop
  <2>1. CASE s # r
    BY <1>7, <1>8, <2>1 DEF IInv, ExecutingInv
  <2>2. CASE s = r /\ x = x0
    <3>1. \A y \in executing'[r] : y = x0 \/ (y.entry # k /\ ~IsDrop(y.entry))
      BY <1>2, <1>6, <1>8, <1>11
    <3>2. k \in queue'[r]
      BY <1>1, <1>7
    <3> QED
      BY <1>1, <1>4, <1>5, <2>2, <3>1, <3>2
  <2>3. CASE s = r /\ x \in {Mark(z) : z \in executing[r]}
    <3>1. PICK z \in executing[r] : x = Mark(z)
      BY <2>3
    <3>2. /\ z.entry \in 1 .. log_pointer[r] - 1
          /\ z.entry \in queue[r] \/ z.removed
          /\ z.stage = "dropped" => IsDrop(z.entry)
          /\ \A y \in executing[r] : z.entry = y.entry => z = y
          /\ Contains(z.actual, log[z.entry].part)
          /\ \E j \in DOMAIN log : ~IsDrop(j) /\ log[j].part = z.actual
          /\ z.actual \notin active[r] \cup outdated[r] \cup PreActive(r)
          /\ \A y \in executing[r] : ~IsDrop(y.entry) /\ z.actual = y.actual => z = y
          /\ \A d \in 1 .. log_pointer[r] - 1 :
                 IsDrop(d) /\ Contains(log[d].part, log[z.entry].part) => d \in queue[r]
      BY <1>11 DEF IInv, ExecutingInv
    <3>3. /\ x.entry = z.entry /\ x.actual = z.actual /\ x.stage = z.stage /\ ~IsDrop(x.entry)
          /\ x.removed <=> z.removed \/ z.entry \in covered
      BY <1>2, <1>6, <1>11, <3>1
    <3>4. ASSUME NEW y \in executing'[r]
          PROVE  /\ x.entry = y.entry => x = y
                 /\ ~IsDrop(y.entry) /\ x.actual = y.actual => x = y
                 /\ IsDrop(y.entry) => y.entry = k
      <4>1. CASE y = x0
        BY <1>1, <1>5, <1>11, <3>1, <3>3, <4>1
      <4>2. CASE y \in {Mark(w) : w \in executing[r]}
        <5>1. PICK w \in executing[r] : y = Mark(w)
          BY <4>2
        <5>2. y.entry = w.entry /\ y.actual = w.actual /\ ~IsDrop(w.entry)
          BY <1>2, <1>6, <1>11, <5>1
        <5> QED
          BY <3>1, <3>2, <3>3, <5>1, <5>2
      <4> QED
        BY <1>8, <4>1, <4>2
    <3>5. x.entry \in queue'[r] \/ x.removed
      BY <1>7, <3>2, <3>3
    <3>6. \A d \in 1 .. log_pointer[r] - 1 :
              IsDrop(d) /\ Contains(log[d].part, log[x.entry].part) => d \in queue'[r]
      BY <1>7, <3>2, <3>3
    <3>7. \A y \in executing'[r] :
              IsDrop(y.entry) /\ Contains(log[y.entry].part, log[x.entry].part) => x.removed
      BY <3>2, <3>3, <3>4
    <3>8. \E y \in executing'[r] : IsDrop(y.entry) /\ y.stage = "started"
      BY <1>1, <1>5, <1>8
    <3> QED
      BY <2>3, <3>2, <3>3, <3>4, <3>5, <3>6, <3>7, <3>8
  <2> QED
    BY <1>8, <2>1, <2>2, <2>3
<1>15. VirtualInv'
  <2>1. \A s \in Replicas : queue'[s] \subseteq queue[s]
    BY <1>7
  <2>2. UNCHANGED <<log, log_pointer>>
    BY <1>1
  <2> QED
    BY <1>10, <2>1, <2>2 DEF IInv, VirtualInv, Real, MaximalParts, LogParts, LastDrop, IsDrop
<1> QED
  BY <1>1, <1>2, <1>7, <1>8, <1>10, <1>13, <1>14, <1>15, LocalStep, FrameInserts, FrameParts, FrameKept
     DEF IInv, queries

(* The parts of the range leave the working set.  No entry of the range is *)
(* being executed any more, because one that is would be marked removed.   *)
LEMMA DropFromWorkingSetStep ==
  ASSUME IInv, NEW r \in Replicas, NEW x \in executing[r], DropFromWorkingSet(r, x)
  PROVE  IInv'
<1> DEFINE range == log[x.entry].part
           gone == {q \in active[r] \cup outdated[r] : Contains(range, q)}
           x1 == [x EXCEPT !.stage = "dropped", !.gone = gone]
<1> USE DEF keeper
<1>1. /\ IsDrop(x.entry) /\ x.stage = "started" /\ \A y \in executing[r] : ~y.removed
      /\ active' = [active EXCEPT ![r] = @ \ gone]
      /\ outdated' = [outdated EXCEPT ![r] = @ \cup gone]
      /\ executing' = [executing EXCEPT ![r] = (@ \ {x}) \cup {x1}]
  BY DEF DropFromWorkingSet
<1>2. UNCHANGED <<log, locks, next_block, blocks, parts, queue, log_pointer, session, virtual_parts,
                  predicate, queries>>
  BY DEF DropFromWorkingSet
<1>3. /\ queue \in [Replicas -> SUBSET Nat] /\ parts \in [Replicas -> SUBSET Part]
      /\ virtual_parts \in [Replicas -> SUBSET Part] /\ executing \in [Replicas -> SUBSET Execution]
      /\ active \in [Replicas -> SUBSET Part] /\ outdated \in [Replicas -> SUBSET Part]
  BY DEF IInv, TypeOK
<1>4. gone \in SUBSET Part
  <2>1. active[r] \subseteq Part /\ outdated[r] \subseteq Part
    BY <1>3
  <2> QED
    BY <2>1
<1> HIDE DEF gone
<1>5. /\ x1 \in Execution /\ x1.entry = x.entry /\ x1.actual = x.actual /\ x1.removed = x.removed
      /\ x1.stage = "dropped" /\ x1.gone = gone
  <2>1. x \in Execution
    BY <1>3
  <2> QED
    BY <1>4, <2>1 DEF Execution
<1> HIDE DEF x1
<1>6. /\ executing' \in [Replicas -> SUBSET Execution]
      /\ executing'[r] = (executing[r] \ {x}) \cup {x1}
      /\ active' \in [Replicas -> SUBSET Part] /\ active'[r] = active[r] \ gone
      /\ outdated' \in [Replicas -> SUBSET Part] /\ outdated'[r] = outdated[r] \cup gone
      /\ \A s \in Replicas : s # r => /\ executing'[s] = executing[s]
                                      /\ active'[s] = active[s] /\ outdated'[s] = outdated[s]
  BY <1>1, <1>3, <1>4, <1>5
<1>7. /\ gone \subseteq active[r] \cup outdated[r]
      /\ active'[r] \cup outdated'[r] = active[r] \cup outdated[r]
      /\ \A q \in active[r] \cup outdated[r] : q \in gone <=> Contains(range, q)
  BY <1>6 DEF gone
<1>8. x.entry \in 1 .. log_pointer[r] - 1 /\ range \in Name
  BY LogFacts DEF IInv, ExecutingInv, QueueInv
<1>9. \A s \in Replicas : PreActive(s)' = PreActive(s)
  BY <1>2 DEF PreActive, queries
<1>10. PartsInv'
  <2> SUFFICES ASSUME NEW s \in Replicas
               PROVE  /\ active'[s] \cup outdated'[s] \subseteq {log[j].part : j \in {jj \in DOMAIN log : ~IsDrop(jj)}}
                      /\ active'[s] \subseteq parts[s]
                      /\ parts[s] \subseteq active'[s] \cup outdated'[s] \cup PreActive(s)
                      /\ Disjoint(active'[s])
                      /\ active'[s] \cap outdated'[s] = {}
                      /\ PreActive(s) \cap (active'[s] \cup outdated'[s]) = {}
                      /\ \A a \in outdated'[s] :
                             \/ \E b \in active'[s] : Contains(b, a)
                             \/ \E j \in 1 .. log_pointer[s] - 1 : IsDrop(j) /\ Contains(log[j].part, a)
    BY <1>2, <1>9 DEF IInv, PartsInv, OnDisk, IsDrop
  <2>0. /\ active[s] \cup outdated[s] \subseteq {log[j].part : j \in {jj \in DOMAIN log : ~IsDrop(jj)}}
        /\ active[s] \subseteq parts[s]
        /\ parts[s] \subseteq active[s] \cup outdated[s] \cup PreActive(s)
        /\ Disjoint(active[s])
        /\ active[s] \cap outdated[s] = {}
        /\ PreActive(s) \cap (active[s] \cup outdated[s]) = {}
        /\ \A a \in outdated[s] :
               \/ \E b \in active[s] : Contains(b, a)
               \/ \E j \in 1 .. log_pointer[s] - 1 : IsDrop(j) /\ Contains(log[j].part, a)
    BY DEF IInv, PartsInv, OnDisk
  <2>1. CASE s # r
    BY <1>6, <2>0, <2>1
  <2>2. CASE s = r
    <3>1. Disjoint(active'[s])
      BY <1>6, <2>0, <2>2 DEF Disjoint
    <3>2. active'[s] \subseteq parts[s] /\ active'[s] \cap outdated'[s] = {}
      BY <1>6, <2>0, <2>2
    <3>3. ASSUME NEW a \in outdated'[s]
          PROVE  \/ \E b \in active'[s] : Contains(b, a)
                 \/ \E j \in 1 .. log_pointer[s] - 1 : IsDrop(j) /\ Contains(log[j].part, a)
      <4>1. a \in active[r] \cup outdated[r]
        BY <1>6, <1>7, <2>2, <3>3
      <4>2. CASE Contains(range, a)
        BY <1>1, <1>8, <2>2, <4>2
      <4>3. CASE ~Contains(range, a)
        <5>1. a \in outdated[r]
          BY <1>6, <1>7, <2>2, <3>3, <4>1, <4>3
        <5>2. ASSUME NEW b \in active[r], Contains(b, a), b \in gone
              PROVE  FALSE
          <6>1. Contains(range, b)
            BY <1>7, <5>2
          <6>2. a \in Name /\ b \in Name
            <7>1. \A c \in active[r] \cup outdated[r] : c \in Name
              BY <2>0, <2>2, LogFacts DEF IInv
            <7> QED
              BY <4>1, <5>2, <7>1
          <6> QED
            BY <1>8, <4>3, <5>2, <6>1, <6>2, ContainsOrder
        <5> QED
          BY <1>6, <2>0, <2>2, <5>1, <5>2
      <4> QED
        BY <4>2, <4>3
    <3> QED
      BY <1>7, <2>0, <2>2, <3>1, <3>2, <3>3
  <2> QED
    BY <2>1, <2>2
<1>11. QueueInv'
  <2>1. \A s \in Replicas : \A y \in executing'[s] : \E z \in executing[s] : y.entry = z.entry
    BY <1>5, <1>6
  <2>2. UNCHANGED <<log, parts, log_pointer, queue>>
    BY <1>2
  <2> SUFFICES ASSUME NEW s \in Replicas, NEW j \in queue[s], NEW d \in 1 .. log_pointer[s] - 1,
                      ~IsDrop(j), IsDrop(d), Contains(log[d].part, log[j].part)
               PROVE  \A y \in executing'[s] : y.entry # d
    BY <2>2 DEF IInv, QueueInv, IsDrop
  <2>3. \A z \in executing[s] : z.entry # d
    BY DEF IInv, QueueInv
  <2> QED
    BY <2>1, <2>3
<1>12. ExecutingInv'
  <2> SUFFICES ASSUME NEW s \in Replicas, NEW y \in executing'[s]
               PROVE  /\ y.entry \in 1 .. log_pointer[s] - 1
                      /\ y.entry \in queue[s] \/ y.removed
                      /\ y.stage = "dropped" => IsDrop(y.entry)
                      /\ \A z \in executing'[s] : y.entry = z.entry => y = z
                      /\ IsDrop(y.entry) =>
                             /\ ~y.removed
                             /\ \A z \in executing'[s] : IsDrop(z.entry) => y = z
                             /\ y.stage = "dropped" =>
                                    /\ \A a \in active'[s] : ~Contains(log[y.entry].part, a)
                                    /\ \A a \in outdated'[s] : Contains(log[y.entry].part, a) => a \in y.gone
                                    /\ \A a \in y.gone : Contains(log[y.entry].part, a)
                      /\ ~IsDrop(y.entry) =>
                             /\ Contains(y.actual, log[y.entry].part)
                             /\ \E j \in DOMAIN log : ~IsDrop(j) /\ log[j].part = y.actual
                             /\ y.actual \notin active'[s] \cup outdated'[s] \cup PreActive(s)
                             /\ \A z \in executing'[s] : ~IsDrop(z.entry) /\ y.actual = z.actual => y = z
                             /\ y.removed => \E z \in executing'[s] : IsDrop(z.entry) /\ z.stage = "started"
                             /\ \A z \in executing'[s] :
                                    IsDrop(z.entry) /\ Contains(log[z.entry].part, log[y.entry].part) => y.removed
                             /\ \A d \in 1 .. log_pointer[s] - 1 :
                                    IsDrop(d) /\ Contains(log[d].part, log[y.entry].part) => d \in queue[s]
    BY <1>2, <1>9 DEF ExecutingInv, IsDrop
  <2>1. CASE s # r
    BY <1>6, <2>1 DEF IInv, ExecutingInv
  <2>2. CASE s = r /\ y = x1
    <3>1. x.entry \in queue[r] /\ \A z \in executing[r] : z.entry = x.entry \/ IsDrop(z.entry) => x = z
      BY <1>1 DEF IInv, ExecutingInv
    <3>2. \A z \in executing'[r] : z = x1 \/ (z \in executing[r] /\ z # x)
      BY <1>6
    <3>3. \A z \in executing'[r] : z.entry = x1.entry \/ IsDrop(z.entry) => z = x1
      BY <1>5, <3>1, <3>2
    <3>4. /\ \A a \in active'[r] : ~Contains(range, a)
          /\ \A a \in outdated'[r] : Contains(range, a) => a \in gone
          /\ \A a \in gone : Contains(range, a)
      BY <1>6, <1>7
    <3> QED
      BY <1>1, <1>5, <1>8, <2>2, <3>1, <3>3, <3>4
  <2>3. CASE s = r /\ y \in executing[r] /\ y # x
    <3>1. /\ y.entry \in 1 .. log_pointer[r] - 1
          /\ ~y.removed
          /\ y.entry \in queue[r]
          /\ ~IsDrop(y.entry)
          /\ y.stage # "dropped"
          /\ y.entry # x.entry
          /\ \A z \in executing[r] : y.entry = z.entry => y = z
          /\ Contains(y.actual, log[y.entry].part)
          /\ \E j \in DOMAIN log : ~IsDrop(j) /\ log[j].part = y.actual
          /\ y.actual \notin active[r] \cup outdated[r] \cup PreActive(r)
          /\ \A z \in executing[r] : ~IsDrop(z.entry) /\ y.actual = z.actual => y = z
          /\ \A z \in executing[r] : ~(IsDrop(z.entry) /\ Contains(log[z.entry].part, log[y.entry].part))
          /\ \A d \in 1 .. log_pointer[r] - 1 :
                 IsDrop(d) /\ Contains(log[d].part, log[y.entry].part) => d \in queue[r]
      BY <1>1, <2>3 DEF IInv, ExecutingInv
    <3> QED
      BY <1>1, <1>5, <1>6, <1>7, <2>3, <3>1
  <2> QED
    BY <1>6, <2>1, <2>2, <2>3
<1> QED
  BY <1>2, <1>3, <1>6, <1>10, <1>11, <1>12, LocalStep, FrameInserts, FrameVirtual, FrameKept
     DEF IInv, queries

(* A drop ends: no part of its range is left in Keeper.  (A pending part   *)
(* would be, which is the case the hypothesis excludes.)                   *)
LEMMA FinishDropRangeStep ==
  ASSUME IInv, ~DropMissedPreActivePart, NEW r \in Replicas, NEW x \in executing[r], FinishDropRange(r, x)
  PROVE  IInv'
<1> DEFINE range == log[x.entry].part
           gone == x.gone
<1>1. /\ IsDrop(x.entry) /\ x.stage = "dropped"
      /\ parts' = [parts EXCEPT ![r] = @ \ gone]
      /\ virtual_parts' = [virtual_parts EXCEPT ![r] = @ \ {range}]
      /\ executing' = [executing EXCEPT ![r] = @ \ {x}]
      /\ queue' = [queue EXCEPT ![r] = @ \ {x.entry}]
  BY DEF FinishDropRange
<1>2. UNCHANGED <<log, locks, next_block, blocks, log_pointer, session, active, outdated, predicate, queries>>
  BY DEF FinishDropRange
<1>3. /\ queue \in [Replicas -> SUBSET Nat] /\ parts \in [Replicas -> SUBSET Part]
      /\ virtual_parts \in [Replicas -> SUBSET Part] /\ executing \in [Replicas -> SUBSET Execution]
      /\ active \in [Replicas -> SUBSET Part] /\ outdated \in [Replicas -> SUBSET Part]
  BY DEF IInv, TypeOK
<1>4. /\ queue' \in [Replicas -> SUBSET Nat] /\ queue'[r] = queue[r] \ {x.entry}
      /\ parts' \in [Replicas -> SUBSET Part] /\ parts'[r] = parts[r] \ gone
      /\ virtual_parts' \in [Replicas -> SUBSET Part] /\ virtual_parts'[r] = virtual_parts[r] \ {range}
      /\ executing' \in [Replicas -> SUBSET Execution] /\ executing'[r] = executing[r] \ {x}
      /\ \A s \in Replicas : s # r => /\ queue'[s] = queue[s] /\ parts'[s] = parts[s]
                                      /\ virtual_parts'[s] = virtual_parts[s]
                                      /\ executing'[s] = executing[s]
  BY <1>1, <1>3
<1>5. /\ x.entry \in 1 .. log_pointer[r] - 1 /\ x.entry \in queue[r]
      /\ \A y \in executing[r] : y.entry = x.entry \/ IsDrop(y.entry) => x = y
      /\ \A p \in active[r] : ~Contains(range, p)
      /\ \A p \in outdated[r] : Contains(range, p) => p \in gone
      /\ \A p \in gone : Contains(range, p)
  BY <1>1 DEF IInv, ExecutingInv
<1>6. x.entry \in DOMAIN log /\ 1 .. log_pointer[r] - 1 \subseteq DOMAIN log
  BY <1>5, LogFacts DEF IInv, QueueInv
<1>7. /\ range \in Name /\ IsFakeDropRangePart(range)
      /\ \A k \in DOMAIN log : log[k].part \in Name /\ (log[k].part = range => k = x.entry)
  BY <1>1, <1>6, LogFacts DEF IInv
<1>8. \A p \in PreActive(r) \cap parts[r] : ~Contains(range, p)
  BY <1>1 DEF DropMissedPreActivePart
<1>9. \A p \in parts'[r] : ~Contains(range, p)
  <2>1. parts[r] \subseteq active[r] \cup outdated[r] \cup PreActive(r)
    BY DEF IInv, PartsInv, OnDisk
  <2> HIDE DEF range, gone
  <2> QED
    BY <1>4, <1>5, <1>8, <2>1
<1>10. \A p \in parts[r] : p \in Name
  <2>1. \A p \in parts[r] : \E k \in DOMAIN log : p = log[k].part
    BY DEF IInv, PartsInv
  <2> QED
    BY <1>7, <2>1
<1>11. \A s \in Replicas : PreActive(s)' = PreActive(s)
  BY <1>2 DEF PreActive, queries
<1> HIDE DEF range, gone
<1>12. InsertsInv'
  <2> SUFFICES ASSUME NEW i \in Inserts, Pending(i), NEW k \in DOMAIN log, IsGet(k),
                      log[k].part = Block(insert[i].block)
               PROVE  Block(insert[i].block) \in parts'[HomeOf[i]]
    BY <1>2 DEF IInv, InsertsInv, Pending, IsGet, queries
  <2>1. HomeOf[i] \in Replicas
    BY ReplicationAssumption
  <2>2. Block(insert[i].block) \in parts[HomeOf[i]]
    BY DEF IInv, InsertsInv, Pending
  <2>3. Block(insert[i].block) \in PreActive(HomeOf[i])
    BY PreActiveDef
  <2> QED
    BY <1>4, <1>5, <1>8, <2>1, <2>2, <2>3
<1>13. VirtualInv'
  <2> SUFFICES ASSUME NEW s \in Replicas
               PROVE  /\ Real(virtual_parts'[s]) = Real(MaximalParts(LogParts(log_pointer[s] - 1)))
                      /\ virtual_parts'[s] \subseteq LogParts(log_pointer[s] - 1)
                      /\ Disjoint(virtual_parts'[s])
                      /\ \A k \in queue'[s] : LastDrop(k, log_pointer[s] - 1) => log[k].part \in virtual_parts'[s]
    BY <1>2 DEF VirtualInv, Real, MaximalParts, LogParts, LastDrop, IsDrop
  <2>0. /\ Real(virtual_parts[s]) = Real(MaximalParts(LogParts(log_pointer[s] - 1)))
        /\ virtual_parts[s] \subseteq LogParts(log_pointer[s] - 1)
        /\ Disjoint(virtual_parts[s])
        /\ \A k \in queue[s] : LastDrop(k, log_pointer[s] - 1) => log[k].part \in virtual_parts[s]
    BY DEF IInv, VirtualInv
  <2>1. CASE s # r
    BY <1>4, <2>0, <2>1
  <2>2. CASE s = r
    <3>1. Real(virtual_parts'[s]) = Real(virtual_parts[s])
      BY <1>4, <1>7, <2>2 DEF Real
    <3>2. virtual_parts'[s] \subseteq virtual_parts[s]
      BY <1>4, <2>2
    <3>3. Disjoint(virtual_parts'[s])
      BY <2>0, <3>2 DEF Disjoint
    <3>4. \A k \in queue'[s] : k \in queue[s] /\ log[k].part # range
      <4>1. queue[r] \subseteq DOMAIN log
        BY <1>6 DEF IInv, QueueInv
      <4> QED
        BY <1>4, <1>7, <2>2, <4>1
    <3> QED
      BY <1>4, <2>0, <2>2, <3>1, <3>2, <3>3, <3>4
  <2> QED
    BY <2>1, <2>2
<1>14. PartsInv'
  <2> SUFFICES ASSUME NEW s \in Replicas
               PROVE  active[s] \subseteq parts'[s] /\ parts'[s] \subseteq parts[s]
    BY <1>2, <1>11 DEF IInv, PartsInv, OnDisk, IsDrop
  <2> QED
    BY <1>4, <1>5 DEF IInv, PartsInv
<1>15. QueueInv'
  <2> SUFFICES ASSUME NEW s \in Replicas
               PROVE  /\ log_pointer[s] \in 1 .. Len(log) + 1
                      /\ queue'[s] \subseteq 1 .. log_pointer[s] - 1
                      /\ \A j \in 1 .. log_pointer[s] - 1 : ~IsDrop(j) /\ j \notin queue'[s] =>
                             \/ \E a \in parts'[s] : Contains(a, log[j].part)
                             \/ \E d \in 1 .. log_pointer[s] - 1 : IsDrop(d) /\ Contains(log[d].part, log[j].part)
                      /\ \A j \in queue'[s], d \in 1 .. log_pointer[s] - 1 :
                             ~IsDrop(j) /\ IsDrop(d) /\ Contains(log[d].part, log[j].part) =>
                             d \in queue'[s] /\ \A y \in executing'[s] : y.entry # d
                      /\ \A d \in 1 .. log_pointer[s] - 1 : IsDrop(d) /\ d \notin queue'[s] =>
                             \A a \in parts'[s] : ~Contains(log[d].part, a)
    <3>1. UNCHANGED <<log, log_pointer>>
      BY <1>2
    <3> QED
      BY <3>1, SMTT(30) DEF QueueInv, IsDrop
  <2>0. /\ log_pointer[s] \in 1 .. Len(log) + 1
        /\ queue[s] \subseteq 1 .. log_pointer[s] - 1
        /\ \A j \in 1 .. log_pointer[s] - 1 : ~IsDrop(j) /\ j \notin queue[s] =>
               \/ \E a \in parts[s] : Contains(a, log[j].part)
               \/ \E d \in 1 .. log_pointer[s] - 1 : IsDrop(d) /\ Contains(log[d].part, log[j].part)
        /\ \A j \in queue[s], d \in 1 .. log_pointer[s] - 1 :
               ~IsDrop(j) /\ IsDrop(d) /\ Contains(log[d].part, log[j].part) =>
               d \in queue[s] /\ \A y \in executing[s] : y.entry # d
        /\ \A d \in 1 .. log_pointer[s] - 1 : IsDrop(d) /\ d \notin queue[s] =>
               \A a \in parts[s] : ~Contains(log[d].part, a)
    BY DEF IInv, QueueInv
  <2>1. CASE s # r
    BY <1>4, <2>0, <2>1
  <2>2. CASE s = r
    <3>1. ASSUME NEW j \in 1 .. log_pointer[r] - 1, ~IsDrop(j), j \notin queue'[r]
          PROVE  \/ \E a \in parts'[r] : Contains(a, log[j].part)
                 \/ \E d \in 1 .. log_pointer[r] - 1 : IsDrop(d) /\ Contains(log[d].part, log[j].part)
      <4>1. j \notin queue[r]
        BY <1>1, <1>4, <3>1
      <4>2. ASSUME NEW a \in parts[r], Contains(a, log[j].part), a \in gone
            PROVE  Contains(range, log[j].part)
        <5>1. a \in Name /\ log[j].part \in Name
          BY <1>6, <1>7, <1>10
        <5> QED
          BY <1>5, <1>7, <4>2, <5>1, ContainsOrder
      <4> QED
        BY <1>1, <1>4, <1>5, <2>0, <2>2, <3>1, <4>1, <4>2 DEF range
    <3>2. \A d \in 1 .. log_pointer[r] - 1 : IsDrop(d) /\ d \notin queue'[r] =>
              \A a \in parts'[r] : ~Contains(log[d].part, a)
      BY <1>4, <1>9, <2>0, <2>2 DEF range
    <3> QED
      BY <1>4, <2>0, <2>2, <3>1, <3>2
  <2> QED
    BY <2>1, <2>2
<1>16. ExecutingInv'
  <2> SUFFICES ASSUME NEW s \in Replicas, NEW y \in executing'[s]
               PROVE  /\ y \in executing[s]
                      /\ y.entry \in queue'[s] \/ y.removed
                      /\ ~IsDrop(y.entry) =>
                             /\ y.removed => \E z \in executing'[s] : IsDrop(z.entry) /\ z.stage = "started"
                             /\ \A d \in 1 .. log_pointer[s] - 1 :
                                    IsDrop(d) /\ Contains(log[d].part, log[y.entry].part) => d \in queue'[s]
    <3>1. UNCHANGED <<log, log_pointer, active, outdated>>
      BY <1>2
    <3>2. \A ss \in Replicas : executing'[ss] \subseteq executing[ss]
      BY <1>4
    <3> QED
      BY <1>11, <3>1, <3>2 DEF IInv, ExecutingInv, IsDrop
  <2>0. y \in executing[s]
    BY <1>4
  <2>1. /\ y.entry \in queue[s] \/ y.removed
        /\ ~IsDrop(y.entry) =>
               /\ y.removed => \E z \in executing[s] : IsDrop(z.entry) /\ z.stage = "started"
               /\ \A z \in executing[s] :
                      IsDrop(z.entry) /\ Contains(log[z.entry].part, log[y.entry].part) => y.removed
               /\ \A d \in 1 .. log_pointer[s] - 1 :
                      IsDrop(d) /\ Contains(log[d].part, log[y.entry].part) => d \in queue[s]
    BY <2>0 DEF IInv, ExecutingInv
  <2>2. CASE s # r
    BY <1>4, <2>0, <2>1, <2>2
  <2>3. CASE s = r
    <3>1. y \in executing[r] /\ y # x /\ ~IsDrop(y.entry) /\ y.entry # x.entry
      BY <1>4, <1>5, <2>3
    <3>2. ~y.removed
      BY <1>1, <1>5, <2>1, <2>3, <3>1
    <3>3. ~Contains(log[x.entry].part, log[y.entry].part)
      BY <1>1, <2>1, <2>3, <3>1, <3>2
    <3> QED
      BY <1>4, <2>1, <2>3, <3>1, <3>2, <3>3
  <2> QED
    BY <2>2, <2>3
<1>17. KeptInv'
  <2> SUFFICES ASSUME NEW k \in DOMAIN log, IsGet(k)
               PROVE  \/ \E s \in Replicas : \E p \in parts'[s] : Contains(p, log[k].part)
                      \/ \E j \in DOMAIN log : IsDrop(j) /\ Contains(log[j].part, log[k].part)
    BY <1>2 DEF KeptInv, IsGet, IsDrop
  <2>1. CASE \E s \in Replicas : \E p \in parts[s] : Contains(p, log[k].part)
    <3>1. PICK s \in Replicas : \E p \in parts[s] : Contains(p, log[k].part)
      BY <2>1
    <3>1a. PICK p \in parts[s] : Contains(p, log[k].part)
      BY <3>1
    <3>2. CASE p \in parts'[s]
      BY <3>1a, <3>2
    <3>3. CASE p \notin parts'[s]
      <4>1. s = r /\ p \in gone
        BY <1>4, <3>3
      <4>2. Contains(range, log[k].part)
        BY <1>5, <1>7, <1>10, <3>1a, <4>1, ContainsOrder
      <4> QED
        BY <1>1, <1>6, <4>2 DEF range
    <3> QED
      BY <3>2, <3>3
  <2> QED
    BY <2>1 DEF IInv, KeptInv
<1> QED
  BY <1>2, <1>3, <1>4, <1>12, <1>13, <1>14, <1>15, <1>16, <1>17, LocalStep

(* Outdated parts are removed: each is covered by an active part, or by    *)
(* the range of a drop.                                                    *)
LEMMA ClearOldPartsStep ==
  ASSUME IInv, NEW r \in Replicas, ClearOldParts(r)
  PROVE  IInv'
<1>1. /\ parts' = [parts EXCEPT ![r] = @ \ outdated[r]]
      /\ outdated' = [outdated EXCEPT ![r] = {}]
      /\ UNCHANGED <<log, locks, next_block, blocks, queue, log_pointer, session, virtual_parts, executing,
                     active, predicate, queries>>
  BY DEF ClearOldParts
<1>2. /\ queue \in [Replicas -> SUBSET Nat] /\ parts \in [Replicas -> SUBSET Part]
      /\ virtual_parts \in [Replicas -> SUBSET Part] /\ executing \in [Replicas -> SUBSET Execution]
      /\ active \in [Replicas -> SUBSET Part] /\ outdated \in [Replicas -> SUBSET Part]
  BY DEF IInv, TypeOK
<1>3. /\ parts' \in [Replicas -> SUBSET Part] /\ parts'[r] = parts[r] \ outdated[r]
      /\ outdated' \in [Replicas -> SUBSET Part] /\ outdated'[r] = {}
      /\ \A s \in Replicas : s # r => parts'[s] = parts[s] /\ outdated'[s] = outdated[s]
  BY <1>1, <1>2
<1>4. \A s \in Replicas : parts'[s] \subseteq parts[s] /\ outdated'[s] \subseteq outdated[s]
  BY <1>3
<1>5. \A s \in Replicas : PreActive(s)' = PreActive(s)
  BY <1>1 DEF PreActive, queries
<1>6. /\ \A k \in DOMAIN log : log[k].part \in Name
      /\ 1 .. log_pointer[r] - 1 \subseteq DOMAIN log
      /\ \A p \in parts[r] \cup active[r] : p \in Name
  <2>1. \A k \in DOMAIN log : log[k].part \in Name
    BY LogFacts DEF IInv
  <2>2. 1 .. log_pointer[r] - 1 \subseteq DOMAIN log
    BY LogFacts DEF IInv, QueueInv
  <2>3. \A p \in parts[r] \cup active[r] : \E k \in DOMAIN log : p = log[k].part
    BY DEF IInv, PartsInv
  <2> QED
    BY <2>1, <2>2, <2>3
<1>7. ASSUME NEW k \in DOMAIN log, NEW p \in parts[r], Contains(p, log[k].part)
      PROVE  \/ \E a \in parts'[r] : Contains(a, log[k].part)
             \/ \E d \in 1 .. log_pointer[r] - 1 : IsDrop(d) /\ Contains(log[d].part, log[k].part)
  <2>1. CASE p \notin outdated[r]
    BY <1>3, <1>7, <2>1
  <2>2. CASE p \in outdated[r]
    <3>1. CASE \E a \in active[r] : Contains(a, p)
      <4>1. PICK a \in active[r] : Contains(a, p)
        BY <3>1
      <4>2. a \in parts'[r]
        BY <1>3 DEF IInv, PartsInv
      <4> QED
        BY <1>6, <1>7, <4>1, <4>2, ContainsOrder
    <3>2. CASE \E d \in 1 .. log_pointer[r] - 1 : IsDrop(d) /\ Contains(log[d].part, p)
      BY <1>6, <1>7, <3>2, ContainsOrder
    <3> QED
      BY <2>2, <3>1, <3>2 DEF IInv, PartsInv
  <2> QED
    BY <2>1, <2>2
<1>8. InsertsInv'
  <2> SUFFICES ASSUME NEW i \in Inserts, Pending(i), NEW k \in DOMAIN log, IsGet(k),
                      log[k].part = Block(insert[i].block)
               PROVE  Block(insert[i].block) \in parts'[HomeOf[i]]
    BY <1>1 DEF IInv, InsertsInv, Pending, IsGet, queries
  <2>1. HomeOf[i] \in Replicas
    BY ReplicationAssumption
  <2>2. Block(insert[i].block) \in parts[HomeOf[i]]
    BY DEF IInv, InsertsInv, Pending
  <2>3. Block(insert[i].block) \in PreActive(HomeOf[i])
    BY PreActiveDef
  <2>4. Block(insert[i].block) \notin outdated[HomeOf[i]]
    BY <2>1, <2>3 DEF IInv, PartsInv
  <2> QED
    BY <1>3, <2>1, <2>2, <2>4
<1>9. PartsInv'
  <2> SUFFICES ASSUME NEW s \in Replicas
               PROVE  active[s] \subseteq parts'[s] /\ parts'[s] \subseteq active[s] \cup outdated'[s] \cup PreActive(s)
    BY <1>1, <1>4, <1>5 DEF IInv, PartsInv, OnDisk, IsDrop
  <2>1. /\ active[s] \subseteq parts[s] /\ active[s] \cap outdated[s] = {}
        /\ parts[s] \subseteq active[s] \cup outdated[s] \cup PreActive(s)
    BY DEF IInv, PartsInv, OnDisk
  <2> QED
    BY <1>3, <2>1
<1>10. QueueInv'
  <2> SUFFICES ASSUME NEW s \in Replicas
               PROVE  /\ \A j \in 1 .. log_pointer[s] - 1 : ~IsDrop(j) /\ j \notin queue[s] =>
                             \/ \E a \in parts'[s] : Contains(a, log[j].part)
                             \/ \E d \in 1 .. log_pointer[s] - 1 : IsDrop(d) /\ Contains(log[d].part, log[j].part)
    <3>1. UNCHANGED <<log, log_pointer, queue, executing>>
      BY <1>1
    <3> QED
      BY <1>4, <3>1 DEF IInv, QueueInv, IsDrop
  <2>0. \A j \in 1 .. log_pointer[s] - 1 : ~IsDrop(j) /\ j \notin queue[s] =>
            \/ \E a \in parts[s] : Contains(a, log[j].part)
            \/ \E d \in 1 .. log_pointer[s] - 1 : IsDrop(d) /\ Contains(log[d].part, log[j].part)
    BY DEF IInv, QueueInv
  <2>1. CASE s # r
    BY <1>3, <2>0, <2>1
  <2>2. CASE s = r
    BY <1>6, <1>7, <2>0, <2>2
  <2> QED
    BY <2>1, <2>2
<1>11. ExecutingInv'
  BY <1>1, <1>4, <1>5 DEF IInv, ExecutingInv, IsDrop
<1>12. KeptInv'
  <2> SUFFICES ASSUME NEW k \in DOMAIN log, IsGet(k)
               PROVE  \/ \E s \in Replicas : \E p \in parts'[s] : Contains(p, log[k].part)
                      \/ \E j \in DOMAIN log : IsDrop(j) /\ Contains(log[j].part, log[k].part)
    BY <1>1 DEF KeptInv, IsGet, IsDrop
  <2>1. CASE \E s \in Replicas : \E p \in parts[s] : Contains(p, log[k].part)
    <3>1. PICK s \in Replicas : \E p \in parts[s] : Contains(p, log[k].part)
      BY <2>1
    <3>2. CASE s = r
      BY <1>6, <1>7, <3>1, <3>2
    <3>3. CASE s # r
      BY <1>3, <3>1, <3>3
    <3> QED
      BY <3>2, <3>3
  <2> QED
    BY <2>1 DEF IInv, KeptInv
<1> QED
  BY <1>1, <1>2, <1>3, <1>8, <1>9, <1>10, <1>11, <1>12, LocalStep, FrameVirtual DEF IInv
-----------------------------------------------------------------------------
(* DROP PARTITION.                                                         *)

(* The queries and faults a behaviour may still have.                      *)
LEMMA SpendFacts ==
  ASSUME IInv, NEW what \in {"drops", "reconnects", "restarts"}, Spend(what)
  PROVE  /\ budget' \in [stored : Nat, inserts : SUBSET Inserts, selections : Nat,
                         drops : Nat, reconnects : Nat, restarts : Nat]
         /\ budget'.selections = budget.selections
<1>1. budget \in [stored : Nat, inserts : SUBSET Inserts, selections : Nat,
                  drops : Nat, reconnects : Nat, restarts : Nat]
  BY DEF IInv, TypeOK
<1>2. /\ budget[what] > 0 /\ budget[what] \in Nat
      /\ budget' = [budget EXCEPT ![what] = budget[what] - 1]
  BY <1>1 DEF Spend
<1>3. budget[what] - 1 \in Nat
  BY <1>2
<1>4. CASE what = "drops"
  BY <1>1, <1>2, <1>3, <1>4
<1>5. CASE what = "reconnects"
  BY <1>1, <1>2, <1>3, <1>5
<1>6. CASE what = "restarts"
  BY <1>1, <1>2, <1>3, <1>6
<1> QED
  BY <1>4, <1>5, <1>6

(* A drop makes progress without touching the log, the locks or the parts. *)
LEMMA DropProgress ==
  ASSUME IInv, blocks' \subseteq blocks, drop' \in [Replicas -> DropState], DropsInv',
         \A s \in Replicas : drop'[s].block = drop[s].block,
         budget' \in [stored : Nat, inserts : SUBSET Inserts, selections : Nat,
                      drops : Nat, reconnects : Nat, restarts : Nat],
         budget'.selections = budget.selections,
         UNCHANGED <<log, locks, next_block, parts, queue, log_pointer, session, memory, insert, multis>>
  PROVE  IInv'
<1> USE DEF memory
<1>1. TypeOK'
  BY DEF IInv, TypeOK
<1>2. NumbersInv'
  BY DEF IInv, NumbersInv
<1>3. LevelsInv'
  <2>1. Merges' = Merges /\ Busy' = Busy
    BY DEF Merges, IsMerge, Busy
  <2> QED
    BY <2>1 DEF IInv, LevelsInv
<1>4. OnceInv'
  BY DEF IInv, OnceInv, IsGet
<1> QED
  BY <1>1, <1>2, <1>3, <1>4, FrameMultis, FrameInserts, FrameEntries, FrameLog, FrameLocks, FramePredicate,
     FrameVirtual, FrameParts, FrameQueue, FrameExecuting, FrameKept
     DEF IInv

(* An attempt starts.                                                      *)
LEMMA ReadAlterVersionStep ==
  ASSUME IInv, NEW r \in Replicas, ReadAlterVersion(r)
  PROVE  IInv'
<1>1. /\ drop' = [drop EXCEPT ![r].stage = "versioned", ![r].version = AlterVersion]
      /\ UNCHANGED <<log, locks, next_block, blocks, parts, queue, log_pointer, session, memory, insert, multis>>
  BY DEF ReadAlterVersion, keeper
<1>2. /\ budget' \in [stored : Nat, inserts : SUBSET Inserts, selections : Nat,
                      drops : Nat, reconnects : Nat, restarts : Nat]
      /\ budget'.selections = budget.selections
  <2>1. Spend("drops") \/ budget' = budget
    BY DEF ReadAlterVersion
  <2>2. budget \in [stored : Nat, inserts : SUBSET Inserts, selections : Nat,
                    drops : Nat, reconnects : Nat, restarts : Nat]
    BY DEF IInv, TypeOK
  <2>3. CASE Spend("drops")
    BY <2>3, SpendFacts
  <2> QED
    BY <2>1, <2>2, <2>3
<1>3. AlterVersion \in Nat /\ drop \in [Replicas -> DropState]
  BY CardinalityFacts DEF IInv, TypeOK
<1>4. /\ drop' \in [Replicas -> DropState]
      /\ drop'[r].stage = "versioned" /\ drop'[r].block = drop[r].block /\ drop'[r].version = AlterVersion
      /\ \A s \in Replicas : s # r => drop'[s] = drop[s]
  BY <1>1, <1>3 DEF DropState
<1>5. AlterVersion' = AlterVersion
  BY <1>1 DEF AlterVersion, IsDrop
<1>6. DropsInv'
  <2>0. \A s \in Replicas : drop[s].version <= AlterVersion
    BY DEF IInv, DropsInv
  <2>1. \A s \in Replicas : drop'[s].version <= AlterVersion
    <3>1. AlterVersion <= AlterVersion
      BY <1>3
    <3> QED
      BY <1>4, <2>0, <3>1
  <2>2. \A s \in Replicas : drop'[s].stage \in Holding => s # r /\ drop'[s] = drop[s]
    BY <1>4 DEF Holding
  <2>3. ASSUME NEW s \in Replicas, drop'[s].stage \in Holding
        PROVE  /\ drop'[s].block > 0
               /\ [block |-> drop'[s].block, kind |-> "other", owner |-> s, session |-> session[s]] \in locks
               /\ drop'[s].stage # "locked" =>
                      \A l \in locks : l.kind = "insert" => l.block >= drop'[s].block
               /\ drop'[s].version = AlterVersion =>
                      \A k \in DOMAIN log : IsDrop(k) => log[k].part.max < drop'[s].block
    BY <2>2, <2>3 DEF IInv, DropsInv
  <2>4. log' = log /\ session' = session /\ locks' = locks /\ \A k : IsDrop(k)' <=> IsDrop(k)
    BY <1>1 DEF IsDrop
  <2> QED
    BY <1>5, <2>1, <2>3, <2>4 DEF DropsInv
<1>7. \A s \in Replicas : drop'[s].block = drop[s].block
  BY <1>4
<1> QED
  BY <1>1, <1>2, <1>4, <1>6, <1>7, DropProgress

(* Once the inserts below its number are cancelled, a drop turns to the    *)
(* block ids.                                                              *)
LEMMA ClearingStep ==
  ASSUME IInv, NEW r \in Replicas, NEW d \in DropState, drop[r].stage \in Holding,
         d.stage \in {"reading", "cleared"}, d.block = drop[r].block, d.version = drop[r].version,
         \A l \in locks : l.kind = "insert" => l.block >= drop[r].block,
         drop' = [drop EXCEPT ![r] = d], blocks' \subseteq blocks,
         UNCHANGED <<log, locks, next_block, parts, queue, log_pointer, session, memory, insert, multis, budget>>
  PROVE  IInv'
<1>1. /\ budget \in [stored : Nat, inserts : SUBSET Inserts, selections : Nat,
                     drops : Nat, reconnects : Nat, restarts : Nat]
      /\ drop \in [Replicas -> DropState]
  BY DEF IInv, TypeOK
<1>2. /\ drop' \in [Replicas -> DropState] /\ drop'[r] = d
      /\ \A s \in Replicas : s # r => drop'[s] = drop[s]
  BY <1>1
<1>3. \A s \in Replicas : /\ drop'[s].block = drop[s].block /\ drop'[s].version = drop[s].version
                          /\ drop'[s].stage \in Holding => drop[s].stage \in Holding
  BY <1>2
<1>4. AlterVersion' = AlterVersion
  BY DEF AlterVersion, IsDrop
<1>5. DropsInv'
  <2>1. \A s \in Replicas : drop'[s].stage \in Holding /\ drop'[s].stage # "locked" =>
            \A l \in locks : l.kind = "insert" => l.block >= drop[s].block
    BY <1>2 DEF IInv, DropsInv
  <2> QED
    BY <1>3, <1>4, <2>1 DEF IInv, DropsInv, IsDrop
<1> QED
  BY <1>1, <1>2, <1>3, <1>5, DropProgress

LEMMA ListBlockIdsStep ==
  ASSUME IInv, NEW r \in Replicas, ListBlockIds(r)
  PROVE  IInv'
<1> DEFINE L == {b.data : b \in blocks}
           d == [drop[r] EXCEPT !.stage = "reading", !.listed = L, !.ids = {}]
<1>1. drop \in [Replicas -> DropState] /\ L \in SUBSET Contents
  BY DEF IInv, TypeOK
<1>2. /\ drop[r].stage \in Holding
      /\ \A l \in locks : l.kind = "insert" => l.block >= drop[r].block
      /\ drop' = [drop EXCEPT ![r].stage = "reading", ![r].listed = L, ![r].ids = {}]
      /\ UNCHANGED <<log, locks, next_block, blocks, parts, queue, log_pointer, session, memory,
                     insert, multis, budget>>
  BY DEF ListBlockIds, Holding, keeper
<1> HIDE DEF L
<1>3. /\ d \in DropState /\ d.stage = "reading" /\ d.block = drop[r].block /\ d.version = drop[r].version
      /\ drop' = [drop EXCEPT ![r] = d]
  BY <1>1, <1>2 DEF DropState
<1> HIDE DEF d
<1> QED
  BY <1>2, <1>3, ClearingStep

LEMMA ReadBlockIdStep ==
  ASSUME IInv, NEW r \in Replicas, NEW id \in drop[r].listed, ReadBlockId(r, id)
  PROVE  IInv'
<1>1. drop \in [Replicas -> DropState] /\ id \in Contents
  BY DEF IInv, TypeOK, DropState
<1>2. PICK I \in {drop[r].ids, drop[r].ids \cup {id}} :
          drop' = [drop EXCEPT ![r].listed = drop[r].listed \ {id}, ![r].ids = I]
  BY <1>1 DEF ReadBlockId
<1>3. /\ drop[r].stage = "reading"
      /\ UNCHANGED <<log, locks, next_block, blocks, parts, queue, log_pointer, session, memory,
                     insert, multis, budget>>
  BY DEF ReadBlockId, keeper
<1> DEFINE d == [drop[r] EXCEPT !.listed = drop[r].listed \ {id}, !.ids = I]
<1>4. I \in SUBSET Contents /\ drop[r].listed \ {id} \in SUBSET Contents
  BY <1>1, <1>2 DEF DropState
<1>5. /\ d \in DropState /\ d.stage = "reading" /\ d.block = drop[r].block /\ d.version = drop[r].version
      /\ drop' = [drop EXCEPT ![r] = d]
  BY <1>1, <1>2, <1>3, <1>4 DEF DropState
<1>6. drop[r].stage \in Holding /\ \A l \in locks : l.kind = "insert" => l.block >= drop[r].block
  BY <1>3 DEF IInv, DropsInv, Holding
<1> HIDE DEF d
<1> QED
  BY <1>3, <1>5, <1>6, ClearingStep

LEMMA RemoveBlockIdsStep ==
  ASSUME IInv, NEW r \in Replicas, RemoveBlockIds(r)
  PROVE  IInv'
<1> DEFINE d == [drop[r] EXCEPT !.stage = "cleared", !.ids = {}]
<1>1. drop \in [Replicas -> DropState]
  BY DEF IInv, TypeOK
<1>2. /\ drop[r].stage = "reading" /\ blocks' \subseteq blocks
      /\ drop' = [drop EXCEPT ![r].stage = "cleared", ![r].ids = {}]
      /\ UNCHANGED <<log, locks, next_block, parts, queue, log_pointer, session, memory,
                     insert, multis, budget>>
  BY DEF RemoveBlockIds
<1>3. /\ d \in DropState /\ d.stage = "cleared" /\ d.block = drop[r].block /\ d.version = drop[r].version
      /\ drop' = [drop EXCEPT ![r] = d]
  BY <1>1, <1>2 DEF DropState
<1>4. drop[r].stage \in Holding /\ \A l \in locks : l.kind = "insert" => l.block >= drop[r].block
  BY <1>2 DEF IInv, DropsInv, Holding
<1> HIDE DEF d
<1> QED
  BY <1>2, <1>3, <1>4, ClearingStep

(* An insert loses its lock.                                               *)
LEMMA CancelInsertStep ==
  ASSUME IInv, NEW r \in Replicas, CancelInsert(r)
  PROVE  IInv'
<1> USE DEF memory, queries
<1>1. PICK l0 \in locks : l0.kind = "insert" /\ locks' = locks \ {l0}
  BY DEF CancelInsert
<1>2. UNCHANGED <<log, next_block, blocks, parts, queue, log_pointer, session, virtual_parts, executing,
                  active, outdated, predicate, insert, multis, drop, budget>>
  BY DEF CancelInsert
<1>3. locks' \subseteq locks /\ \A l \in locks : l.kind = "other" => l \in locks'
  BY <1>1
<1>4. TypeOK'
  BY <1>2, <1>3 DEF IInv, TypeOK
<1>5. NumbersInv'
  BY <1>2, <1>3 DEF IInv, NumbersInv
<1>6. MultisInv'
  BY <1>2, <1>3 DEF IInv, MultisInv, IsGet
<1>7. DropsInv'
  <2>1. AlterVersion' = AlterVersion
    BY <1>2 DEF AlterVersion, IsDrop
  <2>2. \A s \in Replicas : [block |-> drop[s].block, kind |-> "other", owner |-> s, session |-> session[s]] \in locks =>
            [block |-> drop[s].block, kind |-> "other", owner |-> s, session |-> session[s]] \in locks'
    BY <1>3
  <2> QED
    BY <1>2, <1>3, <2>1, <2>2 DEF IInv, DropsInv, IsDrop
<1> QED
  BY <1>2, <1>3, <1>4, <1>5, <1>6, <1>7, FrameInserts, FrameEntries, FrameLog, FrameLocks, FrameLevels,
     FramePredicate, FrameVirtual, FrameParts, FrameQueue, FrameExecuting, FrameKept, FrameOnce
     DEF IInv

(* A number above every number of the log is locked.                       *)
LEMMA LockDropRangeStep ==
  ASSUME IInv, NEW r \in Replicas, LockDropRange(r)
  PROVE  IInv'
<1> DEFINE l0 == Lock(next_block, "other", r)
<1> USE DEF memory
<1>1. /\ next_block > 0
      /\ drop' = [drop EXCEPT ![r].stage = "locked", ![r].block = next_block]
      /\ locks' = locks \cup {l0}
      /\ next_block' = next_block + 1
      /\ UNCHANGED <<log, blocks, parts, queue, log_pointer, session, virtual_parts, executing,
                     active, outdated, predicate, insert, multis, budget>>
  BY DEF LockDropRange
<1>3. session[r] \in Nat /\ next_block \in Nat /\ AlterVersion \in Nat
      /\ drop \in [Replicas -> DropState]
  BY CardinalityFacts DEF IInv, TypeOK
<1>4. l0 = [block |-> next_block, kind |-> "other", owner |-> r, session |-> session[r]]
  BY DEF Lock
<1>5. /\ drop'[r].stage = "locked" /\ drop'[r].block = next_block /\ drop'[r].version = drop[r].version
      /\ \A s \in Replicas : s # r => drop'[s] = drop[s]
      /\ drop' \in [Replicas -> DropState]
  BY <1>1, <1>3 DEF DropState
<1> HIDE DEF l0
<1>6. /\ \A l \in locks : l.block \in Nat /\ l.block < next_block
      /\ \A j \in Inserts : insert[j].block \in Nat /\ (Pending(j) => insert[j].block < next_block)
      /\ \A s \in Replicas : drop[s].block \in Nat /\ drop[s].block <= next_block
      /\ \A m \in multis : m.block \in Nat /\ m.block < next_block
  BY DEF IInv, TypeOK, DropState, NumbersInv, Pending
<1>7. \A k \in DOMAIN log : log[k].part.max < next_block /\ log[k].part.max \in Nat /\ log[k].part.min \in Nat
                            /\ log[k].part.min <= log[k].part.max
  BY LogFacts DEF IInv, EntriesInv, Part
<1>8. l0.block = next_block /\ l0.kind = "other"
  BY <1>4
<1>9. TypeOK'
  <2>1. l0 \in [block : Nat, kind : {"insert", "other"}, owner : Replicas, session : Nat]
    BY <1>3, <1>4
  <2>2. locks \in SUBSET [block : Nat, kind : {"insert", "other"}, owner : Replicas, session : Nat]
    BY DEF IInv, TypeOK
  <2>3. locks' \in SUBSET [block : Nat, kind : {"insert", "other"}, owner : Replicas, session : Nat]
    BY <1>1, <2>1, <2>2
  <2>4. next_block' \in Nat
    BY <1>1, <1>3
  <2> QED
    BY <1>1, <1>5, <2>3, <2>4 DEF IInv, TypeOK
<1>10. NumbersInv'
  <2>1. \A l \in locks' : l.block < next_block'
    BY <1>1, <1>3, <1>6, <1>8
  <2>2. \A l \in locks', m \in locks' : l.block = m.block => l = m
    BY <1>1, <1>3, <1>6, <1>8 DEF IInv, NumbersInv
  <2>3. \A j \in Inserts : Pending(j) => insert[j].block < next_block'
    BY <1>1, <1>3, <1>6
  <2>4. \A s \in Replicas : drop'[s].block <= next_block'
    BY <1>1, <1>3, <1>5, <1>6
  <2>5. \A m \in multis : m.block < next_block'
    BY <1>1, <1>3, <1>6
  <2>6. \A j \in Inserts, l \in locks' : Pending(j) /\ l.block = insert[j].block => l.kind = "insert"
    BY <1>1, <1>3, <1>6, <1>8 DEF IInv, NumbersInv, Pending
  <2> QED
    BY <1>1, <2>1, <2>2, <2>3, <2>4, <2>5, <2>6 DEF IInv, NumbersInv, Pending
<1>11. MultisInv'
  <2>1. \A m \in multis, l \in locks' : l.block = m.block => l.kind = "insert"
    <3>1. \A m \in multis, l \in locks : l.block = m.block => l.kind = "insert"
      BY DEF IInv, MultisInv
    <3>2. \A m \in multis : m.block # l0.block
      BY <1>3, <1>6, <1>8
    <3> QED
      BY <1>1, <3>1, <3>2
  <2> QED
    BY <1>1, <2>1 DEF IInv, MultisInv, IsGet
<1>12. DropsInv'
  <2>0. \A s \in Replicas : drop'[s].version <= AlterVersion
    BY <1>5 DEF IInv, DropsInv
  <2> SUFFICES ASSUME NEW s \in Replicas, drop'[s].stage \in Holding
               PROVE  /\ drop'[s].block > 0
                      /\ [block |-> drop'[s].block, kind |-> "other", owner |-> s, session |-> session[s]] \in locks'
                      /\ drop'[s].stage # "locked" =>
                             \A l \in locks' : l.kind = "insert" => l.block >= drop'[s].block
                      /\ drop'[s].version = AlterVersion =>
                             \A k \in DOMAIN log : IsDrop(k) => log[k].part.max < drop'[s].block
    BY <1>1, <2>0 DEF DropsInv, AlterVersion, IsDrop
  <2>1. CASE s = r
    BY <1>1, <1>3, <1>4, <1>5, <1>7, <2>1
  <2>2. CASE s # r
    BY <1>1, <1>5, <1>8, <2>2 DEF IInv, DropsInv
  <2> QED
    BY <2>1, <2>2
<1>13. EntriesInv'
  <2>1. Merges' = Merges
    BY <1>1 DEF Merges, IsMerge
  <2>2. \A k \in DOMAIN log : /\ log[k].part.max < next_block'
                              /\ IsDrop(k) => log[k].part.max + 1 < next_block'
    BY <1>1, <1>3, <1>7 DEF IInv, EntriesInv
  <2> QED
    BY <1>1, <2>1, <2>2 DEF IInv, EntriesInv, IsGet, IsDrop, IsMerge
<1>14. LocksInv'
  <2>1. \A k \in DOMAIN log : IsDrop(k) => log[k].part.max + 1 < next_block
    BY DEF IInv, EntriesInv
  <2> QED
    BY <1>1, <1>3, <1>7, <1>8, <2>1 DEF IInv, LocksInv, IsDrop
<1>15. LevelsInv'
  <2>1. Merges' = Merges /\ Busy' = Busy
    BY <1>1 DEF Merges, IsMerge, Busy
  <2> QED
    BY <1>1, <2>1 DEF IInv, LevelsInv
<1>16. PredicateInv'
  <2> SUFFICES ASSUME NEW s \in Replicas
               PROVE  /\ predicate[s].stage # "idle" => \A p \in predicate[s].prev : p.max < next_block'
                      /\ predicate[s].stage \in {"loaded", "versioned", "ready"} =>
                             \A l \in locks' : (\E p \in predicate[s].prev : l.block <= p.max) =>
                                 l.block \in predicate[s].committing
    BY <1>1 DEF IInv, PredicateInv, LogVersion, IsGet
  <2>1. \A p \in predicate[s].prev : p.max \in Nat
    BY SMTT(30) DEF IInv, TypeOK, Part
  <2>2. predicate[s].stage # "idle" => \A p \in predicate[s].prev : p.max < next_block
    BY DEF IInv, PredicateInv
  <2> QED
    BY <1>1, <1>3, <1>8, <2>1, <2>2 DEF IInv, PredicateInv
<1> QED
  BY <1>1, <1>9, <1>10, <1>11, <1>12, <1>13, <1>14, <1>15, <1>16, FrameInserts, FrameLog,
     FrameVirtual, FrameParts, FrameQueue, FrameExecuting, FrameKept, FrameOnce
     DEF IInv

(* The drop's entry goes to the log, unless another drop came first.       *)
LEMMA CommitDropRangeStep ==
  ASSUME IInv, NEW r \in Replicas, CommitDropRange(r)
  PROVE  IInv'
<1> DEFINE n == drop[r].block
           L == [block |-> n, kind |-> "other", owner |-> r, session |-> session[r]]
           e == [type |-> "DROP_RANGE", part |-> DropRange(n), sources |-> {}, data |-> "none"]
<1> USE DEF memory
<1>1. /\ drop[r].stage = "cleared"
      /\ locks' = {l \in locks : l.block # n}
      /\ UNCHANGED <<next_block, blocks, parts, queue, log_pointer, session, virtual_parts, executing,
                     active, outdated, predicate, insert, multis, budget>>
  BY DEF CommitDropRange
<1>2. \/ /\ drop[r].version = AlterVersion
         /\ log' = Append(log, e)
         /\ drop' = [drop EXCEPT ![r].stage = "none"]
      \/ /\ drop' = [drop EXCEPT ![r].stage = "retry"]
         /\ log' = log
  BY DEF CommitDropRange
<1>3. drop \in [Replicas -> DropState]
  BY DEF IInv, TypeOK
<1>4. /\ drop' \in [Replicas -> DropState]
      /\ drop'[r].stage \in {"none", "retry"}
      /\ \A s \in Replicas : s # r => drop'[s] = drop[s]
      /\ \A s \in Replicas : drop'[s].block = drop[s].block /\ drop'[s].version = drop[s].version
  <2>1. PICK st \in {"none", "retry"} : drop' = [drop EXCEPT ![r].stage = st]
    BY <1>2
  <2> QED
    BY <1>3, <2>1 DEF DropState
<1>5. /\ n \in Nat /\ n > 0 /\ L \in locks /\ L.block = n /\ L.kind = "other" /\ L.owner = r
      /\ \A l \in locks : l.kind = "insert" => l.block >= n
      /\ drop[r].version = AlterVersion => \A k \in DOMAIN log : IsDrop(k) => log[k].part.max < n
  <2>1. n \in Nat
    BY <1>3 DEF DropState
  <2>2. /\ n > 0 /\ L \in locks
        /\ \A l \in locks : l.kind = "insert" => l.block >= n
        /\ drop[r].version = AlterVersion => \A k \in DOMAIN log : IsDrop(k) => log[k].part.max < n
    BY <1>1 DEF IInv, DropsInv, Holding
  <2> QED
    BY <2>1, <2>2
<1>6. n < next_block /\ next_block \in Nat /\ \A l \in locks : l.block = n => l = L
  BY <1>5 DEF IInv, NumbersInv, TypeOK
<1> HIDE DEF n, L
<1>7. locks' \subseteq locks
  BY <1>1
<1>8. \A s \in Replicas : drop'[s].stage \in Holding =>
          /\ s # r /\ drop'[s] = drop[s]
          /\ drop[s].block > 0
          /\ [block |-> drop[s].block, kind |-> "other", owner |-> s, session |-> session[s]] \in locks'
          /\ drop[s].stage # "locked" =>
                 \A l \in locks' : l.kind = "insert" => l.block >= drop[s].block
          /\ drop[s].version = AlterVersion =>
                 \A k \in DOMAIN log : IsDrop(k) => log[k].part.max < drop[s].block
  <2> SUFFICES ASSUME NEW s \in Replicas, drop'[s].stage \in Holding
               PROVE  /\ s # r /\ drop'[s] = drop[s]
                      /\ [block |-> drop[s].block, kind |-> "other", owner |-> s, session |-> session[s]] \in locks'
    BY <1>7 DEF IInv, DropsInv
  <2>1. s # r /\ drop'[s] = drop[s]
    BY <1>4 DEF Holding
  <2> DEFINE M == [block |-> drop[s].block, kind |-> "other", owner |-> s, session |-> session[s]]
  <2>2. M \in locks /\ M.owner = s /\ M.block = drop[s].block
    BY <2>1 DEF IInv, DropsInv
  <2> HIDE DEF M
  <2>3. M.block # n
    BY <1>5, <1>6, <2>1, <2>2
  <2>4. M \in locks'
    BY <1>1, <2>2, <2>3
  <2> QED
    BY <2>1, <2>4 DEF M
<1>9. NumbersInv'
  BY <1>1, <1>4, <1>7 DEF IInv, NumbersInv
<1>10. CASE log' = log
  <2>1. TypeOK'
    BY <1>1, <1>4, <1>7, <1>10 DEF IInv, TypeOK
  <2>2. MultisInv'
    BY <1>1, <1>7, <1>10 DEF IInv, MultisInv, IsGet
  <2>3. DropsInv'
    <3>1. AlterVersion' = AlterVersion
      BY <1>10 DEF AlterVersion, IsDrop
    <3>2. \A s \in Replicas : drop'[s].version <= AlterVersion
      BY <1>4 DEF IInv, DropsInv
    <3> QED
      BY <1>1, <1>8, <1>10, <3>1, <3>2 DEF DropsInv, IsDrop
  <2>4. OnceInv'
    BY <1>1, <1>4, <1>10 DEF IInv, OnceInv, IsGet
  <2> QED
    BY <1>1, <1>7, <1>9, <1>10, <2>1, <2>2, <2>3, <2>4, FrameInserts, FrameEntries, FrameLog, FrameLocks,
       FrameLevels, FramePredicate, FrameVirtual, FrameParts, FrameQueue, FrameExecuting, FrameKept
       DEF IInv
<1>11. CASE drop[r].version = AlterVersion /\ log' = Append(log, e)
  <2> DEFINE rg == DropRange(n)
  <2>1. /\ rg \in Part /\ rg.min = 0 /\ rg.max = n - 1 /\ rg.level = MAX_LEVEL
    BY <1>5 DEF DropRange, Part, MAX_LEVEL
  <2>2. e \in Entry /\ e.type = "DROP_RANGE" /\ e.part = rg
    BY <2>1 DEF Entry, Contents
  <2> HIDE DEF e, rg
  <2>3. log' = Append(log, e)
    BY <1>11
  <2>4. PICK K \in Nat :
        /\ log' \in Seq(Entry)
        /\ DOMAIN log' = DOMAIN log \cup {K} /\ K \notin DOMAIN log
        /\ \A k \in DOMAIN log : log'[k] = log[k] /\ k < K /\ k \in Nat
        /\ log'[K] = e
    BY <2>2, <2>3, Appended DEF IInv
  <2>5. /\ Merges' = Merges /\ LogVersion' = LogVersion + 1 /\ AlterVersion' = AlterVersion + 1
        /\ LogVersion \in Nat /\ AlterVersion \in Nat
    BY <2>2, <2>3, AppendedCounts, CardinalityFacts DEF IInv
  <2>6. /\ \A k \in DOMAIN log : (IsDrop(k)' <=> IsDrop(k)) /\ (IsGet(k)' <=> IsGet(k)) /\ (IsMerge(k)' <=> IsMerge(k))
        /\ IsDrop(K)' /\ ~IsGet(K)' /\ ~IsMerge(K)'
    BY <2>2, <2>4 DEF IsDrop, IsGet, IsMerge
  <2>7. \A k \in DOMAIN log : \/ IsDisjoint(log[k].part, rg)
                              \/ Contains(rg, log[k].part) /\ log[k].part # rg
    <3> SUFFICES ASSUME NEW k \in DOMAIN log
                 PROVE  \/ IsDisjoint(log[k].part, rg)
                        \/ Contains(rg, log[k].part) /\ log[k].part # rg
      OBVIOUS
    <3>1. /\ log[k].part \in Name /\ log[k].part.min \in Nat /\ log[k].part.max \in Nat /\ log[k].part.level \in Nat
          /\ log[k].part.level <= MAX_LEVEL
          /\ ~IsDrop(k) => log[k].part.level # MAX_LEVEL
      BY LogFacts DEF IInv, IsFakeDropRangePart, Name, Part
    <3>2. CASE IsDrop(k)
      <4>1. log[k].part.max < n /\ n # log[k].part.max + 1
        BY <1>5, <1>11, <3>2 DEF IInv, LocksInv
      <4>2. log[k].part.max < n - 1
        BY <1>5, <3>1, <4>1
      <4>3. Contains(rg, log[k].part) /\ log[k].part # rg
        BY <1>5, <2>1, <3>1, <4>2 DEF Contains, MAX_LEVEL
      <4> QED
        BY <4>3
    <3>3. CASE ~IsDrop(k)
      <4>1. n < log[k].part.min \/ n > log[k].part.max
        BY <1>5, <3>3 DEF IInv, LocksInv
      <4>2. CASE n < log[k].part.min
        BY <1>5, <2>1, <3>1, <4>2 DEF IsDisjoint
      <4>3. CASE n > log[k].part.max
        BY <1>5, <2>1, <3>1, <3>3, <4>3 DEF Contains, MAX_LEVEL
      <4> QED
        BY <4>1, <4>2, <4>3
    <3> QED
      BY <3>2, <3>3
  <2>8. TypeOK'
    BY <1>1, <1>4, <1>7, <2>4 DEF IInv, TypeOK
  <2>9. MultisInv' /\ InsertsInv' /\ PartsInv' /\ KeptInv' /\ OnceInv'
    BY <1>1, <1>4, <1>7, <2>2, <2>3, AppendedOthers
  <2>10. DropsInv'
    <3>1. \A s \in Replicas : drop'[s].version \in Nat /\ drop'[s].version <= AlterVersion
      BY <1>4 DEF IInv, DropsInv, DropState
    <3>2. \A s \in Replicas : drop'[s].version < AlterVersion + 1
      BY <2>5, <3>1
    <3> SUFFICES ASSUME NEW s \in Replicas, drop'[s].stage \in Holding
                 PROVE  /\ drop'[s].block > 0
                        /\ [block |-> drop'[s].block, kind |-> "other", owner |-> s, session |-> session[s]] \in locks'
                        /\ drop'[s].stage # "locked" =>
                               \A l \in locks' : l.kind = "insert" => l.block >= drop'[s].block
      BY <1>1, <1>4, <2>5, <3>1, <3>2 DEF DropsInv
    <3> QED
      BY <1>8
  <2>11. EntriesInv'
    <3> SUFFICES ASSUME NEW k \in DOMAIN log'
                 PROVE  /\ log'[k].part.max < next_block
                        /\ IsGet(k)' => log'[k].part = [min |-> log'[k].part.max, max |-> log'[k].part.max, level |-> 0]
                        /\ IsDrop(k)' => /\ log'[k].part.min = 0 /\ log'[k].part.level = MAX_LEVEL
                                         /\ log'[k].part.max + 1 < next_block
                        /\ IsMerge(k)' => log'[k].part.level > 0
                        /\ ~IsDrop(k)' => log'[k].part.level <= Merges
      BY <1>1, <2>5 DEF EntriesInv, Block
    <3>1. CASE k = K
      BY <1>5, <1>6, <2>1, <2>2, <2>4, <2>6, <3>1
    <3>2. CASE k \in DOMAIN log
      BY <2>4, <2>6, <3>2 DEF IInv, EntriesInv, Block
    <3> QED
      BY <2>4, <3>1, <3>2
  <2>12. LaminarInv'
    <3> SUFFICES ASSUME NEW j \in DOMAIN log', NEW k \in DOMAIN log', j < k
                 PROVE  \/ IsDisjoint(log'[j].part, log'[k].part)
                        \/ Contains(log'[k].part, log'[j].part) /\ log'[j].part # log'[k].part
      BY DEF LaminarInv, IsDisjoint, Contains
    <3>1. j \in DOMAIN log
      BY <2>4
    <3> QED
      BY <2>2, <2>4, <2>7, <3>1 DEF IInv, LaminarInv
  <2>13. LocksInv'
    <3> SUFFICES ASSUME NEW k \in DOMAIN log', NEW l \in locks'
                 PROVE  /\ ~IsDrop(k)' => l.block < log'[k].part.min \/ l.block > log'[k].part.max
                        /\ IsDrop(k)' => /\ l.block # log'[k].part.max + 1
                                         /\ l.kind = "insert" => l.block > log'[k].part.max
      BY DEF LocksInv
    <3>1. l \in locks /\ l.block # n /\ l.block \in Nat
      BY <1>1 DEF IInv, TypeOK
    <3>2. CASE k = K
      BY <1>5, <2>1, <2>2, <2>4, <2>6, <3>1, <3>2
    <3>3. CASE k \in DOMAIN log
      BY <2>4, <2>6, <3>1, <3>3 DEF IInv, LocksInv
    <3> QED
      BY <2>4, <3>2, <3>3
  <2>14. LevelsInv'
    <3>1. Busy' = Busy
      BY <1>1 DEF Busy
    <3> QED
      BY <1>1, <2>5, <3>1 DEF IInv, LevelsInv
  <2>15. MergesLoseNoBlock'
    <3> SUFFICES ASSUME NEW k \in DOMAIN log', NEW j \in DOMAIN log',
                        log'[k].type = "MERGE_PARTS", log'[j].type = "GET_PART",
                        ~IsDisjoint(log'[k].part, log'[j].part)
                 PROVE  j < k /\ \E q \in log'[k].sources : Contains(q, log'[j].part)
      BY DEF MergesLoseNoBlock, IsDisjoint, Contains
    <3>1. j \in DOMAIN log /\ k \in DOMAIN log
      BY <2>4, <2>6 DEF IsGet, IsMerge
    <3> QED
      BY <2>4, <3>1 DEF IInv, MergesLoseNoBlock
  <2>16. PredicateInv'
    <3> SUFFICES ASSUME NEW s \in Replicas
                 PROVE  /\ predicate[s].stage # "idle" => \A p \in predicate[s].prev : p.max < next_block
                        /\ predicate[s].stage \in {"loaded", "versioned", "ready"} =>
                               \A l \in locks' : (\E p \in predicate[s].prev : l.block <= p.max) =>
                                   l.block \in predicate[s].committing
                        /\ predicate[s].stage \in {"versioned", "ready"} => predicate[s].version <= LogVersion + 1
                        /\ predicate[s].stage = "ready" =>
                               \A k \in DOMAIN log' : k >= log_pointer[s] =>
                                   /\ ~IsGet(k)' => predicate[s].version < LogVersion + 1
                                   /\ IsGet(k)' /\ (\E p \in predicate[s].prev : log'[k].part.max <= p.max) =>
                                          log'[k].part.max \in predicate[s].committing
      BY <1>1, <2>5 DEF PredicateInv
    <3>1. /\ predicate[s].stage # "idle" => \A p \in predicate[s].prev : p.max < next_block
          /\ predicate[s].stage \in {"loaded", "versioned", "ready"} =>
                 \A l \in locks : (\E p \in predicate[s].prev : l.block <= p.max) =>
                     l.block \in predicate[s].committing
          /\ predicate[s].stage \in {"versioned", "ready"} => predicate[s].version <= LogVersion
          /\ predicate[s].stage = "ready" =>
                 \A k \in DOMAIN log : k >= log_pointer[s] =>
                     /\ IsGet(k) /\ (\E p \in predicate[s].prev : log[k].part.max <= p.max) =>
                            log[k].part.max \in predicate[s].committing
      BY DEF IInv, PredicateInv
    <3>2. predicate[s].version \in Nat
      BY DEF IInv, TypeOK
    <3>3. predicate[s].stage \in {"versioned", "ready"} => predicate[s].version < LogVersion + 1
      BY <2>5, <3>1, <3>2
    <3>4. \A k \in DOMAIN log' : IsGet(k)' => k \in DOMAIN log /\ IsGet(k) /\ log'[k] = log[k]
      BY <2>4, <2>6
    <3> QED
      BY <1>7, <2>5, <3>1, <3>2, <3>3, <3>4
  <2>17. VirtualInv'
    BY <1>1, <2>2, <2>3, AppendedVirtual
  <2>18. QueueInv'
    BY <1>1, <2>2, <2>3, AppendedQueue
  <2>19. ExecutingInv'
    <3>1. \A s \in Replicas : PreActive(s)' = PreActive(s)
      BY <1>1 DEF PreActive
    <3> QED
      BY <1>1, <2>2, <2>3, <3>1, AppendedExecuting
  <2> QED
    BY <1>9, <2>8, <2>9, <2>10, <2>11, <2>12, <2>13, <2>14, <2>15, <2>16, <2>17, <2>18, <2>19
       DEF IInv
<1> QED
  BY <1>2, <1>10, <1>11
-----------------------------------------------------------------------------
(* Lost sessions and restarts.                                             *)

(* The queue built anew expects what the replica expected before: the      *)
(* parts that were only expected are in the queue, and a drop that has     *)
(* left the queue has nothing in its range.                                *)
LEMMA NewSessionQueue ==
  ASSUME IInv, NEW r \in Replicas, NewSession(r), UNCHANGED <<log, parts>>
  PROVE  QueueInv' /\ VirtualInv' /\ virtual_parts' \in [Replicas -> SUBSET Part]
<1> DEFINE lp == log_pointer[r]
           P == parts[r]
           S == MaximalParts(P)
           E == queue[r] \cup lp .. Len(log)
           X == S \cup {log[k].part : k \in E \cap DOMAIN log}
           L == LogParts(Len(log))
<1>1. /\ queue' = [queue EXCEPT ![r] = queue[r] \cup lp .. Len(log)]
      /\ log_pointer' = [log_pointer EXCEPT ![r] = Len(log) + 1]
      /\ virtual_parts' = [virtual_parts EXCEPT ![r] = VirtualAfter(S, E)]
      /\ executing' = [executing EXCEPT ![r] = {}]
  BY DEF NewSession
<1>2. \A s \in Replicas : executing'[s] \subseteq executing[s]
  BY <1>1 DEF IInv, TypeOK
<1>3. QueueInv' /\ lp \in 1 .. Len(log) + 1 /\ Len(log) \in Nat
  BY <1>1, <1>2, PulledQueue
<1>4. /\ DOMAIN log = 1 .. Len(log) /\ 1 .. lp - 1 \subseteq DOMAIN log
      /\ queue[r] \subseteq 1 .. lp - 1 /\ E \subseteq DOMAIN log /\ E \cap DOMAIN log = E
      /\ \A k \in DOMAIN log : k \in E \/ (k \in 1 .. lp - 1 /\ k \notin queue[r])
  <2>1. DOMAIN log = 1 .. Len(log) /\ queue[r] \subseteq 1 .. lp - 1
    BY LogFacts DEF IInv, QueueInv
  <2> QED
    BY <1>3, <2>1
<1>5. /\ \A k \in DOMAIN log : log[k].part \in Name /\ (IsDrop(k) <=> IsFakeDropRangePart(log[k].part))
      /\ Laminar({log[k].part : k \in DOMAIN log})
  BY LogFacts DEF IInv
<1>6. L = {log[k].part : k \in DOMAIN log}
  BY <1>4 DEF LogParts
<1>7. P \subseteq L /\ P \in SUBSET Name /\ Laminar(P)
  <2>1. \A p \in P : \E k \in DOMAIN log : p = log[k].part
    BY DEF IInv, PartsInv
  <2>2. P \subseteq L
    BY <1>6, <2>1
  <2>3. P \in SUBSET Name
    BY <1>5, <2>1
  <2>4. Laminar(P)
    BY <1>5, <1>6, <2>2 DEF Laminar
  <2> QED
    BY <2>2, <2>3, <2>4
<1>8. S \subseteq P /\ Disjoint(S) /\ S \subseteq {log[k].part : k \in DOMAIN log}
  BY <1>6, <1>7, MaximalFacts
<1>9. /\ \A j \in 1 .. lp - 1 : ~IsDrop(j) /\ j \notin queue[r] =>
             \/ \E p \in P : Contains(p, log[j].part)
             \/ \E k \in 1 .. lp - 1 : IsDrop(k) /\ Contains(log[k].part, log[j].part)
      /\ \A j \in queue[r], k \in 1 .. lp - 1 :
             ~IsDrop(j) /\ IsDrop(k) /\ Contains(log[k].part, log[j].part) => k \in queue[r]
      /\ \A k \in 1 .. lp - 1 : IsDrop(k) /\ k \notin queue[r] => \A p \in P : ~Contains(log[k].part, p)
  BY DEF IInv, QueueInv
<1> HIDE DEF E, L, P, S
<1>10. ASSUME NEW x \in Real(MaximalParts(L))
       PROVE  x \in X
  <2>1. x \in L /\ ~IsFakeDropRangePart(x) /\ \A y \in L : Contains(y, x) => y = x
    BY <1>10 DEF Real, MaximalParts
  <2>2. PICK j \in DOMAIN log : x = log[j].part
    BY <1>6, <2>1
  <2>3. CASE j \in E
    BY <2>2, <2>3
  <2>4. CASE j \notin E
    <3>1. j \in 1 .. lp - 1 /\ j \notin queue[r] /\ ~IsDrop(j)
      BY <1>4, <1>5, <2>1, <2>2, <2>4
    <3>2. ASSUME NEW k \in 1 .. lp - 1, IsDrop(k), Contains(log[k].part, x)
          PROVE  FALSE
      <4>1. k \in DOMAIN log /\ log[k].part \in L
        BY <1>4, <1>6
      <4>2. log[k].part = x
        BY <2>1, <3>2, <4>1
      <4> QED
        BY <1>5, <2>1, <3>2, <4>1, <4>2
    <3>3. PICK p \in P : Contains(p, x)
      BY <1>9, <2>2, <3>1, <3>2
    <3>4. p = x
      BY <1>7, <2>1, <3>3
    <3>5. x \in S
      BY <1>7, <2>1, <3>4 DEF S, MaximalParts
    <3> QED
      BY <3>5
  <2> QED
    BY <2>3, <2>4
<1>11. ASSUME NEW x \in Real(X), NEW k \in DOMAIN log, IsDrop(k), log[k].part \notin X, Contains(log[k].part, x)
       PROVE  FALSE
  <2>1. k \in 1 .. lp - 1 /\ k \notin queue[r]
    BY <1>4, <1>11
  <2>2. x \in X /\ ~IsFakeDropRangePart(x)
    BY <1>11 DEF Real
  <2>3. CASE x \in S
    BY <1>8, <1>9, <1>11, <2>1, <2>3
  <2>4. CASE x \notin S
    <3>1. PICK j \in E : x = log[j].part
      BY <1>4, <2>2, <2>4
    <3>2. j \in DOMAIN log /\ ~IsDrop(j)
      BY <1>4, <1>5, <2>2, <3>1
    <3>3. j <= k
      BY <1>11, <3>1, <3>2, LogFacts DEF IInv
    <3>4. j \in queue[r]
      BY <1>3, <2>1, <3>1, <3>3 DEF E
    <3> QED
      BY <1>9, <1>11, <2>1, <3>1, <3>2, <3>4
  <2> QED
    BY <2>3, <2>4
<1>12. ASSUME NEW k \in queue[r] \cup lp .. Len(log), LastDrop(k, Len(log))
       PROVE  log[k].part \in X
  <2>1. k \in E
    BY <1>12 DEF E
  <2> QED
    BY <1>4, <2>1
<1>13. Real(MaximalParts(LogParts(Len(log)))) \subseteq X
  BY <1>10 DEF L
<1> HIDE DEF X
<1>14. X = S \cup {log[k].part : k \in E \cap DOMAIN log}
  BY DEF X
<1>15. VirtualInv' /\ virtual_parts' \in [Replicas -> SUBSET Part]
  BY <1>1, <1>8, <1>11, <1>12, <1>13, <1>14, PulledVirtual
<1> QED
  BY <1>3, <1>15

(* What a new session does not disturb.                                    *)
LEMMA NewSessionFacts ==
  ASSUME IInv, NEW r \in Replicas, NewSession(r), UNCHANGED <<log, locks, next_block, blocks, parts, multis>>
  PROVE  /\ queue' \in [Replicas -> SUBSET Nat] /\ log_pointer' \in [Replicas -> Nat]
         /\ session' \in [Replicas -> Nat] /\ executing' \in [Replicas -> SUBSET Execution]
         /\ predicate' \in [Replicas ->
                [stage : {"idle", "copied", "loaded", "versioned", "ready"}, prev : SUBSET Part,
                 committing : SUBSET Nat, version : Nat]]
         /\ drop' \in [Replicas -> DropState]
         /\ session'[r] = session[r] + 1 /\ session[r] \in Nat
         /\ executing'[r] = {}
         /\ \A s \in Replicas : s # r => /\ session'[s] = session[s] /\ executing'[s] = executing[s]
                                         /\ log_pointer'[s] = log_pointer[s] /\ queue'[s] = queue[s]
         /\ \A s \in Replicas : 1 .. log_pointer[s] - 1 \subseteq 1 .. log_pointer'[s] - 1
         /\ \A s \in Replicas : drop'[s].block = drop[s].block
         /\ DropsInv' /\ PredicateInv'
         /\ Busy' <= Busy /\ Busy \in Nat /\ Busy' \in Nat
<1> DEFINE Pred == [stage : {"idle", "copied", "loaded", "versioned", "ready"}, prev : SUBSET Part,
                    committing : SUBSET Nat, version : Nat]
<1>1. /\ session' = [session EXCEPT ![r] = @ + 1]
      /\ queue' = [queue EXCEPT ![r] = queue[r] \cup log_pointer[r] .. Len(log)]
      /\ log_pointer' = [log_pointer EXCEPT ![r] = Len(log) + 1]
      /\ executing' = [executing EXCEPT ![r] = {}]
      /\ predicate' = [predicate EXCEPT ![r] = Idle]
      /\ drop' = [drop EXCEPT ![r].stage = "none", ![r].listed = {}, ![r].ids = {}]
  BY DEF NewSession
<1>2. /\ session \in [Replicas -> Nat] /\ executing \in [Replicas -> SUBSET Execution]
      /\ predicate \in [Replicas -> Pred] /\ drop \in [Replicas -> DropState]
  BY DEF IInv, TypeOK
<1>3. \A s \in Replicas : executing'[s] \subseteq executing[s]
  BY <1>1, <1>2
<1>4. /\ queue' \in [Replicas -> SUBSET Nat] /\ log_pointer' \in [Replicas -> Nat]
      /\ log_pointer'[r] = Len(log) + 1 /\ log_pointer[r] \in 1 .. Len(log) + 1 /\ Len(log) \in Nat
      /\ \A s \in Replicas : s # r => log_pointer'[s] = log_pointer[s] /\ queue'[s] = queue[s]
  BY <1>1, <1>3, PulledQueue
<1>5. /\ session' \in [Replicas -> Nat] /\ session'[r] = session[r] + 1 /\ session[r] \in Nat
      /\ executing' \in [Replicas -> SUBSET Execution] /\ executing'[r] = {}
      /\ \A s \in Replicas : s # r => session'[s] = session[s] /\ executing'[s] = executing[s]
  BY <1>1, <1>2
<1>6. /\ predicate' \in [Replicas -> Pred] /\ predicate'[r].stage = "idle"
      /\ \A s \in Replicas : s # r => predicate'[s] = predicate[s]
  BY <1>1, <1>2 DEF Idle
<1>7. /\ drop' \in [Replicas -> DropState] /\ drop'[r].stage = "none"
      /\ \A s \in Replicas : s # r => drop'[s] = drop[s]
      /\ \A s \in Replicas : drop'[s].block = drop[s].block /\ drop'[s].version = drop[s].version
  <2> DEFINE d == [drop[r] EXCEPT !.stage = "none", !.listed = {}, !.ids = {}]
  <2>1. drop[r] \in DropState
    BY <1>2
  <2>2. /\ d \in DropState /\ d.stage = "none"
        /\ d.block = drop[r].block /\ d.version = drop[r].version
    BY <2>1 DEF DropState
  <2>3. drop' = [drop EXCEPT ![r] = d]
    BY <1>1, <1>2, <2>1 DEF DropState
  <2> HIDE DEF d
  <2> QED
    BY <1>2, <2>2, <2>3
<1>8. \A s \in Replicas : 1 .. log_pointer[s] - 1 \subseteq 1 .. log_pointer'[s] - 1
  <2>1. 1 .. log_pointer[r] - 1 \subseteq 1 .. log_pointer'[r] - 1
    BY <1>4
  <2> QED
    BY <1>4, <2>1
<1>9. Busy' <= Busy /\ Busy \in Nat /\ Busy' \in Nat
  <2>1. \A s \in Replicas : s # r => predicate'[s].stage = predicate[s].stage
    BY <1>6
  <2>2. CASE predicate[r].stage # "idle"
    BY <2>1, <2>2, BusyFacts
  <2>3. CASE predicate[r].stage = "idle"
    <3>1. {s \in Replicas : predicate'[s].stage # "idle"} = {s \in Replicas : predicate[s].stage # "idle"}
      BY <1>6, <2>1, <2>3
    <3>2. Busy \in Nat
      BY CardinalityFacts DEF IInv
    <3>3. Busy' = Busy
      BY <3>1 DEF Busy
    <3> QED
      BY <3>2, <3>3
  <2> QED
    BY <2>2, <2>3
<1>10. DropsInv'
  <2>0. \A s \in Replicas : drop'[s].version <= AlterVersion
    BY <1>7 DEF IInv, DropsInv
  <2> SUFFICES ASSUME NEW s \in Replicas, drop'[s].stage \in Holding
               PROVE  /\ drop'[s].block > 0
                      /\ [block |-> drop'[s].block, kind |-> "other", owner |-> s, session |-> session'[s]] \in locks
                      /\ drop'[s].stage # "locked" =>
                             \A l \in locks : l.kind = "insert" => l.block >= drop'[s].block
                      /\ drop'[s].version = AlterVersion =>
                             \A k \in DOMAIN log : IsDrop(k) => log[k].part.max < drop'[s].block
    BY <2>0 DEF DropsInv, AlterVersion, IsDrop
  <2>1. s # r /\ drop'[s] = drop[s] /\ session'[s] = session[s]
    BY <1>5, <1>7 DEF Holding
  <2> QED
    BY <2>1 DEF IInv, DropsInv
<1>11. PredicateInv'
  <2> SUFFICES ASSUME NEW s \in Replicas, s # r
               PROVE  /\ predicate[s].stage # "idle" => \A p \in predicate[s].prev : p.max < next_block
                      /\ predicate[s].stage \in {"loaded", "versioned", "ready"} =>
                             \A l \in locks : (\E p \in predicate[s].prev : l.block <= p.max) =>
                                 l.block \in predicate[s].committing
                      /\ predicate[s].stage \in {"versioned", "ready"} => predicate[s].version <= LogVersion
                      /\ predicate[s].stage = "ready" =>
                             \A k \in DOMAIN log : k >= log_pointer[s] =>
                                 /\ ~IsGet(k) => predicate[s].version < LogVersion
                                 /\ IsGet(k) /\ (\E p \in predicate[s].prev : log[k].part.max <= p.max) =>
                                        log[k].part.max \in predicate[s].committing
    BY <1>4, <1>6 DEF PredicateInv, LogVersion, IsGet
  <2> QED
    BY DEF IInv, PredicateInv
<1> QED
  BY <1>4, <1>5, <1>6, <1>7, <1>8, <1>9, <1>10, <1>11

(* A new session, whatever happens to the queries and the working set of   *)
(* the replica; those of the others are left alone.                        *)
LEMMA NewSessionStep ==
  ASSUME IInv, NEW r \in Replicas, NewSession(r), UNCHANGED <<log, locks, next_block, blocks, parts, multis>>,
         budget' \in [stored : Nat, inserts : SUBSET Inserts, selections : Nat,
                      drops : Nat, reconnects : Nat, restarts : Nat],
         budget'.selections = budget.selections,
         insert' \in [Inserts ->
             [stage : {"none", "writing", "duplicate", "recovering", "done", "failed"},
              block : Nat, answer : {"none", "ok", "duplicate", "cancelled", "expired"}]],
         \A i \in Inserts : HomeOf[i] # r => insert'[i] = insert[i],
         \A i \in Inserts : HomeOf[i] = r => insert'[i].stage # "writing",
         \A i \in Inserts : Pending(i)' => Pending(i) /\ insert'[i].block = insert[i].block,
         \A i \in Inserts : insert'[i].stage = "done" => insert[i].stage = "done",
         active' \in [Replicas -> SUBSET Part], outdated' \in [Replicas -> SUBSET Part],
         \A s \in Replicas : s # r => active'[s] = active[s] /\ outdated'[s] = outdated[s],
         PartsInv'
  PROVE  IInv'
<1>1. /\ queue' \in [Replicas -> SUBSET Nat] /\ log_pointer' \in [Replicas -> Nat]
      /\ session' \in [Replicas -> Nat] /\ executing' \in [Replicas -> SUBSET Execution]
      /\ predicate' \in [Replicas ->
             [stage : {"idle", "copied", "loaded", "versioned", "ready"}, prev : SUBSET Part,
              committing : SUBSET Nat, version : Nat]]
      /\ drop' \in [Replicas -> DropState]
  BY NewSessionFacts
<1>2. /\ session'[r] = session[r] + 1 /\ session[r] \in Nat
      /\ executing'[r] = {}
      /\ \A s \in Replicas : s # r => /\ session'[s] = session[s] /\ executing'[s] = executing[s]
                                      /\ log_pointer'[s] = log_pointer[s] /\ queue'[s] = queue[s]
  BY NewSessionFacts
<1>3. /\ \A s \in Replicas : drop'[s].block = drop[s].block
      /\ DropsInv' /\ PredicateInv'
  BY NewSessionFacts
<1>4. Busy' <= Busy /\ Busy \in Nat /\ Busy' \in Nat
  BY NewSessionFacts
<1>5. QueueInv' /\ VirtualInv' /\ virtual_parts' \in [Replicas -> SUBSET Part]
  BY NewSessionQueue
<1>6. TypeOK'
  BY <1>1, <1>5 DEF IInv, TypeOK
<1>7. NumbersInv'
  BY <1>3 DEF IInv, NumbersInv, Pending
<1>8. MultisInv'
  <2> SUFFICES ASSUME NEW m \in multis
               PROVE  /\ m.session <= session'[HomeOf[m.insert]]
                      /\ m.session = session'[HomeOf[m.insert]] =>
                             insert'[m.insert] = [stage |-> "writing", block |-> m.block, answer |-> "none"]
                      /\ \A l \in locks : l.block = m.block => l.kind = "insert"
                      /\ \A k \in DOMAIN log : IsGet(k) => log[k].part.max # m.block
                      /\ \A i \in Inserts : Pending(i)' /\ insert'[i].block = m.block => i = m.insert
    BY ZenonT(30) DEF MultisInv, IsGet, Pending
  <2>1. /\ m.session <= session[HomeOf[m.insert]]
        /\ m.session = session[HomeOf[m.insert]] =>
               insert[m.insert] = [stage |-> "writing", block |-> m.block, answer |-> "none"]
        /\ \A l \in locks : l.block = m.block => l.kind = "insert"
        /\ \A k \in DOMAIN log : IsGet(k) => log[k].part.max # m.block
        /\ \A i \in Inserts : Pending(i) /\ insert[i].block = m.block => i = m.insert
    BY DEF IInv, MultisInv, Pending
  <2>2. m.insert \in Inserts /\ m.session \in Nat /\ HomeOf[m.insert] \in Replicas
    BY ReplicationAssumption, ZenonT(30) DEF IInv, TypeOK
  <2>3. /\ m.session <= session'[HomeOf[m.insert]]
        /\ m.session = session'[HomeOf[m.insert]] =>
               insert'[m.insert] = [stage |-> "writing", block |-> m.block, answer |-> "none"]
    <3>1. CASE HomeOf[m.insert] = r
      BY <1>2, <2>1, <2>2, <3>1
    <3>2. CASE HomeOf[m.insert] # r
      BY <1>2, <2>1, <2>2, <3>2
    <3> QED
      BY <3>1, <3>2
  <2> QED
    BY <2>1, <2>3
<1>9. InsertsInv'
  <2> SUFFICES ASSUME NEW i \in Inserts, Pending(i)'
               PROVE  /\ \A k \in DOMAIN log : IsGet(k) /\ log[k].part = Block(insert'[i].block) =>
                             /\ log[k].data = DataOf[i]
                             /\ Block(insert'[i].block) \in parts[HomeOf[i]]
                             /\ insert'[i].stage = "writing" => insert'[i].answer = "ok"
                      /\ insert'[i].stage = "writing" /\ insert'[i].answer = "ok" =>
                             \E k \in DOMAIN log : IsGet(k) /\ log[k].part = Block(insert'[i].block)
    BY DEF InsertsInv, IsGet, Pending
  <2>1. /\ Pending(i) /\ insert'[i].block = insert[i].block
        /\ insert'[i].stage = "writing" => insert'[i] = insert[i]
    OBVIOUS
  <2> QED
    BY <2>1 DEF IInv, InsertsInv, Pending
<1>10. ExecutingInv'
  <2>1. \A s \in Replicas : \A p : p \in PreActive(s)' => p \in PreActive(s)
    BY SMTT(30) DEF PreActive, Pending, Block
  <2> SUFFICES ASSUME NEW s \in Replicas, s # r, NEW x \in executing[s]
               PROVE  /\ x.entry \in 1 .. log_pointer[s] - 1
                      /\ x.entry \in queue[s] \/ x.removed
                      /\ x.stage = "dropped" => IsDrop(x.entry)
                      /\ \A y \in executing[s] : x.entry = y.entry => x = y
                      /\ IsDrop(x.entry) =>
                             /\ ~x.removed
                             /\ \A y \in executing[s] : IsDrop(y.entry) => x = y
                             /\ x.stage = "dropped" =>
                                    /\ \A p \in active[s] : ~Contains(log[x.entry].part, p)
                                    /\ \A p \in outdated[s] : Contains(log[x.entry].part, p) => p \in x.gone
                                    /\ \A p \in x.gone : Contains(log[x.entry].part, p)
                      /\ ~IsDrop(x.entry) =>
                             /\ Contains(x.actual, log[x.entry].part)
                             /\ \E k \in DOMAIN log : ~IsDrop(k) /\ log[k].part = x.actual
                             /\ x.actual \notin active[s] \cup outdated[s] \cup PreActive(s)'
                             /\ \A y \in executing[s] : ~IsDrop(y.entry) /\ x.actual = y.actual => x = y
                             /\ x.removed => \E y \in executing[s] : IsDrop(y.entry) /\ y.stage = "started"
                             /\ \A y \in executing[s] :
                                    IsDrop(y.entry) /\ Contains(log[y.entry].part, log[x.entry].part) =>
                                    x.removed
                             /\ \A k \in 1 .. log_pointer[s] - 1 :
                                    IsDrop(k) /\ Contains(log[k].part, log[x.entry].part) => k \in queue[s]
    BY <1>2 DEF ExecutingInv, IsDrop, Contains
  <2> QED
    BY <2>1 DEF IInv, ExecutingInv
<1>11. OnceInv'
  BY DEF IInv, OnceInv, IsGet
<1>12. LevelsInv'
  <2>1. budget.selections \in Nat /\ Merges \in Nat
    BY CardinalityFacts DEF IInv, TypeOK
  <2>2. Merges' = Merges
    BY DEF Merges, IsMerge
  <2>3. Merges + Busy + budget.selections < MAX_LEVEL
    BY DEF IInv, LevelsInv
  <2> QED
    BY <1>4, <2>1, <2>2, <2>3 DEF LevelsInv, MAX_LEVEL
<1>13. EntriesInv' /\ LaminarInv' /\ MergesLoseNoBlock' /\ LocksInv' /\ KeptInv'
  BY FrameEntries, FrameLog, FrameLocks, FrameKept DEF IInv
<1> QED
  BY <1>3, <1>5, <1>6, <1>7, <1>8, <1>9, <1>10, <1>11, <1>12, <1>13 DEF IInv

(* The inserts that waited for an answer now look for their parts.         *)
LEMMA LoseSessionStep ==
  ASSUME IInv, NEW r \in Replicas, LoseSession(r)
  PROVE  IInv'
<1> DEFINE Ins == [stage : {"none", "writing", "duplicate", "recovering", "done", "failed"},
                   block : Nat, answer : {"none", "ok", "duplicate", "cancelled", "expired"}]
<1>1. /\ Spend("reconnects") /\ NewSession(r)
      /\ insert' = [i \in Inserts |->
             IF HomeOf[i] = r /\ insert[i].stage = "writing"
             THEN [insert[i] EXCEPT !.stage = "recovering", !.answer = "none"] ELSE insert[i]]
      /\ UNCHANGED <<log, locks, next_block, blocks, parts, active, outdated, multis>>
  BY DEF LoseSession
<1>2. /\ budget' \in [stored : Nat, inserts : SUBSET Inserts, selections : Nat,
                      drops : Nat, reconnects : Nat, restarts : Nat]
      /\ budget'.selections = budget.selections
  BY <1>1, SpendFacts
<1>3. /\ insert \in [Inserts -> Ins]
      /\ active \in [Replicas -> SUBSET Part] /\ outdated \in [Replicas -> SUBSET Part]
  BY DEF IInv, TypeOK
<1>4. ASSUME NEW i \in Inserts
      PROVE  /\ insert'[i] \in Ins
             /\ HomeOf[i] # r => insert'[i] = insert[i]
             /\ HomeOf[i] = r => insert'[i].stage # "writing"
             /\ insert'[i].block = insert[i].block
             /\ insert'[i].stage \in {"writing", "recovering"} <=> insert[i].stage \in {"writing", "recovering"}
             /\ insert'[i].stage = "done" => insert[i].stage = "done"
  <2>1. insert[i] \in Ins
    BY <1>3
  <2>2. CASE HomeOf[i] = r /\ insert[i].stage = "writing"
    <3>1. insert'[i] = [insert[i] EXCEPT !.stage = "recovering", !.answer = "none"]
      BY <1>1, <2>2
    <3> QED
      BY <2>1, <2>2, <3>1
  <2>3. CASE ~(HomeOf[i] = r /\ insert[i].stage = "writing")
    <3>1. insert'[i] = insert[i]
      BY <1>1, <2>3
    <3> QED
      BY <2>1, <2>3, <3>1
  <2> QED
    BY <2>2, <2>3
<1>5. insert' \in [Inserts -> Ins]
  BY <1>1, <1>4
<1>6. \A i \in Inserts : (Pending(i)' <=> Pending(i)) /\ insert'[i].block = insert[i].block
  BY <1>4 DEF Pending
<1>7. PartsInv'
  <2>1. \A s \in Replicas : PreActive(s)' = PreActive(s)
    BY <1>6, PreActiveKept
  <2>2. \A s \in Replicas : 1 .. log_pointer[s] - 1 \subseteq 1 .. log_pointer'[s] - 1
    BY <1>1, NewSessionFacts
  <2> SUFFICES ASSUME NEW s \in Replicas
               PROVE  /\ active[s] \cup outdated[s] \subseteq {log[k].part : k \in {j \in DOMAIN log : ~IsDrop(j)}}
                      /\ active[s] \subseteq parts[s]
                      /\ parts[s] \subseteq OnDisk(s)
                      /\ parts[s] \subseteq {log[k].part : k \in {j \in DOMAIN log : ~IsDrop(j)}}
                      /\ Disjoint(active[s])
                      /\ active[s] \cap outdated[s] = {}
                      /\ PreActive(s) \cap (active[s] \cup outdated[s]) = {}
                      /\ \A q \in outdated[s] :
                             \/ \E p \in active[s] : Contains(p, q)
                             \/ \E k \in 1 .. log_pointer'[s] - 1 : IsDrop(k) /\ Contains(log[k].part, q)
    <3>1. UNCHANGED <<log, parts, active, outdated>>
      BY <1>1
    <3> QED
      BY <2>1, <3>1 DEF PartsInv, OnDisk, IsDrop
  <2> QED
    BY <2>2 DEF IInv, PartsInv
<1> QED
  BY <1>1, <1>2, <1>3, <1>4, <1>5, <1>6, <1>7, NewSessionStep

(* After a restart the replica has the parts that Keeper says it has, and  *)
(* no part waits for its local commit.                                     *)
LEMMA RestartStep ==
  ASSUME IInv, NEW r \in Replicas, Restart(r)
  PROVE  IInv'
<1> DEFINE Ins == [stage : {"none", "writing", "duplicate", "recovering", "done", "failed"},
                   block : Nat, answer : {"none", "ok", "duplicate", "cancelled", "expired"}]
           P == parts[r]
           M == MaximalParts(P)
           Real0 == {log[k].part : k \in {j \in DOMAIN log : ~IsDrop(j)}}
<1>1. /\ Spend("restarts") /\ NewSession(r)
      /\ insert' = [i \in Inserts |->
             IF HomeOf[i] = r /\ insert[i].stage \in {"writing", "recovering", "duplicate"}
             THEN [insert[i] EXCEPT !.stage = "failed"] ELSE insert[i]]
      /\ active' = [active EXCEPT ![r] = MaximalParts(OnDisk(r) \cap parts[r])]
      /\ outdated' = [outdated EXCEPT ![r] =
             (OnDisk(r) \cap parts[r]) \ MaximalParts(OnDisk(r) \cap parts[r])]
  BY DEF Restart
<1>2. UNCHANGED <<log, locks, next_block, blocks, parts, multis>>
  BY DEF Restart
<1>3. /\ budget' \in [stored : Nat, inserts : SUBSET Inserts, selections : Nat,
                      drops : Nat, reconnects : Nat, restarts : Nat]
      /\ budget'.selections = budget.selections
  BY <1>1, SpendFacts
<1>4. /\ insert \in [Inserts -> Ins]
      /\ active \in [Replicas -> SUBSET Part] /\ outdated \in [Replicas -> SUBSET Part]
      /\ parts \in [Replicas -> SUBSET Part]
  BY DEF IInv, TypeOK
<1>5. ASSUME NEW i \in Inserts
      PROVE  /\ insert'[i] \in Ins
             /\ HomeOf[i] # r => insert'[i] = insert[i]
             /\ HomeOf[i] = r => insert'[i].stage \notin {"writing", "recovering"}
             /\ insert'[i].stage = "done" => insert[i].stage = "done"
  <2>1. insert[i] \in Ins
    BY <1>4
  <2>2. CASE HomeOf[i] = r /\ insert[i].stage \in {"writing", "recovering", "duplicate"}
    <3>1. insert'[i] = [insert[i] EXCEPT !.stage = "failed"]
      BY <1>1, <2>2
    <3> QED
      BY <2>1, <2>2, <3>1
  <2>3. CASE ~(HomeOf[i] = r /\ insert[i].stage \in {"writing", "recovering", "duplicate"})
    <3>1. insert'[i] = insert[i]
      BY <1>1, <2>3
    <3> QED
      BY <2>1, <2>3, <3>1
  <2> QED
    BY <2>2, <2>3
<1>6. insert' \in [Inserts -> Ins]
  BY <1>1, <1>5
<1>7. \A i \in Inserts : Pending(i)' => HomeOf[i] # r /\ Pending(i) /\ insert'[i] = insert[i]
  BY <1>5 DEF Pending
<1>8. PreActive(r)' = {} /\ \A s \in Replicas : s # r => PreActive(s)' = PreActive(s)
  BY <1>5 DEF PreActive
<1>9. P \subseteq OnDisk(r) /\ P \subseteq Real0
  BY DEF IInv, PartsInv
<1>10. /\ active' = [active EXCEPT ![r] = M] /\ outdated' = [outdated EXCEPT ![r] = P \ M]
  <2>1. OnDisk(r) \cap parts[r] = P
    BY <1>9
  <2> QED
    BY <1>1, <2>1
<1>11. /\ P \in SUBSET Name /\ Laminar(P) /\ next_block \in Nat /\ \A p \in P : p.max <= next_block
  <2>1. \A p \in P : \E k \in DOMAIN log : p = log[k].part
    BY <1>9
  <2>2. /\ \A k \in DOMAIN log : log[k].part \in Name /\ log[k].part.max <= next_block
        /\ Laminar({log[k].part : k \in DOMAIN log})
    BY LogFacts DEF IInv
  <2>3. Laminar(P)
    BY <2>1, <2>2 DEF Laminar
  <2>4. next_block \in Nat
    BY DEF IInv, TypeOK
  <2> QED
    BY <2>1, <2>2, <2>3, <2>4
<1>12. M \subseteq P /\ Disjoint(M)
  BY <1>11, MaximalFacts
<1>13. \A q \in P : \E m \in M : Contains(m, q)
  BY <1>11, MaximalExists
<1> HIDE DEF M
<1>14. /\ active'[r] = M /\ outdated'[r] = P \ M
       /\ active' \in [Replicas -> SUBSET Part] /\ outdated' \in [Replicas -> SUBSET Part]
       /\ \A s \in Replicas : s # r => active'[s] = active[s] /\ outdated'[s] = outdated[s]
  <2>1. M \subseteq Part /\ P \ M \subseteq Part
    BY <1>4, <1>12
  <2> QED
    BY <1>4, <1>10, <2>1
<1>15. PartsInv'
  <2>1. \A s \in Replicas : s # r => log_pointer'[s] = log_pointer[s]
    BY <1>1, <1>2, NewSessionFacts
  <2> SUFFICES ASSUME NEW s \in Replicas
               PROVE  /\ active'[s] \cup outdated'[s] \subseteq Real0
                      /\ active'[s] \subseteq parts[s]
                      /\ parts[s] \subseteq active'[s] \cup outdated'[s] \cup PreActive(s)'
                      /\ parts[s] \subseteq Real0
                      /\ Disjoint(active'[s])
                      /\ active'[s] \cap outdated'[s] = {}
                      /\ PreActive(s)' \cap (active'[s] \cup outdated'[s]) = {}
                      /\ \A q \in outdated'[s] :
                             \/ \E p \in active'[s] : Contains(p, q)
                             \/ \E k \in 1 .. log_pointer'[s] - 1 : IsDrop(k) /\ Contains(log[k].part, q)
    BY <1>2 DEF PartsInv, OnDisk, IsDrop
  <2>2. CASE s = r
    BY <1>8, <1>9, <1>12, <1>13, <1>14, <2>2
  <2>3. CASE s # r
    <3>1. /\ active'[s] = active[s] /\ outdated'[s] = outdated[s]
          /\ PreActive(s)' = PreActive(s) /\ log_pointer'[s] = log_pointer[s]
      BY <1>8, <1>14, <2>1, <2>3
    <3> QED
      BY <3>1 DEF IInv, PartsInv, OnDisk
  <2> QED
    BY <2>2, <2>3
<1>16. /\ \A i \in Inserts : HomeOf[i] # r => insert'[i] = insert[i]
       /\ \A i \in Inserts : HomeOf[i] = r => insert'[i].stage # "writing"
       /\ \A i \in Inserts : Pending(i)' => Pending(i) /\ insert'[i].block = insert[i].block
       /\ \A i \in Inserts : insert'[i].stage = "done" => insert[i].stage = "done"
  BY <1>5, <1>7
<1> QED
  BY <1>1, <1>2, <1>3, <1>6, <1>14, <1>15, <1>16, NewSessionStep

(* A drop in progress holds its lock in the session that lasts.            *)
LEMMA ExpireLocksStep ==
  ASSUME IInv, ExpireLocks
  PROVE  IInv'
<1> USE DEF memory, queries
<1>1. /\ locks' = {l \in locks : l.session = session[l.owner]}
      /\ UNCHANGED <<log, next_block, blocks, parts, queue, log_pointer, session, virtual_parts, executing,
                     active, outdated, predicate, insert, multis, drop, budget>>
  BY DEF ExpireLocks
<1>2. locks' \subseteq locks
  BY <1>1
<1>3. TypeOK'
  BY <1>1, <1>2 DEF IInv, TypeOK
<1>4. NumbersInv'
  BY <1>1, <1>2 DEF IInv, NumbersInv
<1>5. MultisInv'
  BY <1>1, <1>2 DEF IInv, MultisInv, IsGet
<1>6. DropsInv'
  <2> SUFFICES ASSUME NEW s \in Replicas, drop[s].stage \in Holding
               PROVE  [block |-> drop[s].block, kind |-> "other", owner |-> s, session |-> session[s]] \in locks'
    <3>1. UNCHANGED <<drop, session, log>>
      BY <1>1
    <3> QED
      BY <1>2, <3>1 DEF IInv, DropsInv, AlterVersion, IsDrop
  <2>1. [block |-> drop[s].block, kind |-> "other", owner |-> s, session |-> session[s]] \in locks
    BY DEF IInv, DropsInv
  <2> QED
    BY <1>1, <2>1
<1> QED
  BY <1>1, <1>2, <1>3, <1>4, <1>5, <1>6, FrameInserts, FrameEntries, FrameLog, FrameLocks, FrameLevels,
     FramePredicate, FrameVirtual, FrameParts, FrameQueue, FrameExecuting, FrameKept, FrameOnce
     DEF IInv

(* A step in which nothing changes.                                        *)
LEMMA StutteringStep ==
  ASSUME IInv, UNCHANGED vars
  PROVE  IInv'
<1>1. UNCHANGED <<log, locks, next_block, blocks, parts, queue, log_pointer, session, virtual_parts, executing,
                  active, outdated, predicate, insert, multis, drop, budget>>
  BY DEF vars, keeper, memory, queries
<1>2. TypeOK'
  BY <1>1 DEF IInv, TypeOK
<1> QED
  BY <1>1, <1>2, FrameNumbers, FrameMultis, FrameDrops, FrameInserts, FrameEntries, FrameLog, FrameLocks, FrameLevels,
     FramePredicate, FrameVirtual, FrameParts, FrameQueue, FrameExecuting, FrameKept, FrameOnce
     DEF IInv
-----------------------------------------------------------------------------
(* Every replica starts with the blocks that are stored.                   *)

(* The invariant holds at the start.                                       *)
LEMMA InitInv == Init => IInv
<1> SUFFICES ASSUME Init PROVE IInv
  OBVIOUS
<1> DEFINE N == budget.stored
           stored == {Block(n) : n \in 0 .. N - 1}
<1>1. /\ budget \in [stored : Nat, inserts : SUBSET Inserts, selections : 0 .. MAX_LEVEL - 1,
                     drops : Nat, reconnects : Nat, restarts : Nat]
      /\ N \in Nat /\ budget.selections \in 0 .. MAX_LEVEL - 1
  BY ReplicationAssumption DEF Init
<1>2. /\ log = [k \in 1 .. N |-> [type |-> "GET_PART", part |-> Block(k - 1), sources |-> {}, data |-> k]]
      /\ parts = [r \in Replicas |-> stored]
      /\ virtual_parts = [r \in Replicas |-> stored]
      /\ active = [r \in Replicas |-> stored]
      /\ next_block = N
      /\ log_pointer = [r \in Replicas |-> N + 1]
  BY DEF Init
<1>3. /\ locks = {} /\ blocks = {} /\ multis = {}
      /\ queue = [r \in Replicas |-> {}]
      /\ session = [r \in Replicas |-> 0]
      /\ executing = [r \in Replicas |-> {}]
      /\ outdated = [r \in Replicas |-> {}]
      /\ predicate = [r \in Replicas |-> Idle]
      /\ insert = [i \in Inserts |-> [stage |-> "none", block |-> 0, answer |-> "none"]]
      /\ drop = [r \in Replicas |-> [stage |-> "none", block |-> 0, version |-> 0,
                                 listed |-> {}, ids |-> {}]]
  BY DEF Init
<1> HIDE DEF N, stored
<1>4. \A n \in Nat : /\ Block(n) \in Part /\ Block(n) \in Name
                     /\ Block(n).min = n /\ Block(n).max = n /\ Block(n).level = 0
  BY SMT DEF Block, Part, Name, MAX_LEVEL
<1>5. \A k \in 1 .. N : k \in Nat /\ k - 1 \in Nat /\ k - 1 \in 0 .. N - 1 /\ k - 1 < N
  BY <1>1
<1>6. /\ DOMAIN log = 1 .. N
      /\ \A k \in 1 .. N : /\ log[k].type = "GET_PART" /\ log[k].part = Block(k - 1)
                           /\ log[k].sources = {} /\ log[k].data = k
                           /\ IsGet(k) /\ ~IsMerge(k) /\ ~IsDrop(k)
  BY <1>2 DEF IsGet, IsMerge, IsDrop
<1>7. log \in Seq(Entry) /\ Len(log) = N
  <2>1. \A k \in 1 .. N : [type |-> "GET_PART", part |-> Block(k - 1), sources |-> {}, data |-> k] \in Entry
    BY <1>4, <1>5 DEF Entry, Contents
  <2>2. log \in [1 .. N -> Entry]
    BY <1>2, <2>1
  <2>3. log \in Seq(Entry)
    BY <1>1, <2>2
  <2> QED
    BY <1>1, <1>6, <2>3
<1>8. stored \in SUBSET Part /\ stored \in SUBSET Name
  <2>1. \A n \in 0 .. N - 1 : n \in Nat
    BY <1>1
  <2> QED
    BY <1>4, <2>1 DEF stored
<1>9. /\ \A k \in 1 .. N : log[k].part \in stored
      /\ \A p \in stored : \E k \in 1 .. N : p = log[k].part
  <2>1. ASSUME NEW n \in 0 .. N - 1
        PROVE  n + 1 \in 1 .. N /\ (n + 1) - 1 = n
    BY <1>1
  <2>2. \A k \in 1 .. N : log[k].part \in stored
    BY <1>5, <1>6 DEF stored
  <2>3. ASSUME NEW p \in stored
        PROVE  \E k \in 1 .. N : p = log[k].part
    <3>1. PICK n \in 0 .. N - 1 : p = Block(n)
      BY DEF stored
    <3>2. log[n + 1].part = Block(n)
      BY <1>6, <2>1
    <3> QED
      BY <2>1, <3>1, <3>2
  <2> QED
    BY <2>2, <2>3
<1>10. TypeOK
  <2>1. Idle \in [stage : {"idle", "copied", "loaded", "versioned", "ready"}, prev : SUBSET Part,
                  committing : SUBSET Nat, version : Nat]
    BY DEF Idle
  <2>2. (\A n \in 0 .. MAX_LEVEL - 1 : n \in Nat) /\ N + 1 \in Nat
    BY <1>1
  <2>3. budget \in [stored : Nat, inserts : SUBSET Inserts, selections : Nat,
                    drops : Nat, reconnects : Nat, restarts : Nat]
    BY <1>1, <2>2
  <2>4. drop \in [Replicas -> DropState]
    BY <1>3 DEF DropState
  <2> QED
    BY <1>1, <1>2, <1>3, <1>7, <1>8, <2>1, <2>2, <2>3, <2>4 DEF TypeOK
<1>11. \A i \in Inserts : insert[i].stage = "none"
  BY <1>3
<1>12. \A r \in Replicas : drop[r].stage = "none" /\ drop[r].block = 0 /\ drop[r].version = 0
                         /\ predicate[r].stage = "idle"
  BY <1>3 DEF Idle
<1>13. NumbersInv
  BY <1>1, <1>2, <1>3, <1>11, <1>12 DEF NumbersInv
<1>14. MultisInv /\ DropsInv /\ InsertsInv /\ LocksInv /\ PredicateInv
  <2>1. AlterVersion \in Nat
    BY <1>10, CardinalityFacts
  <2> QED
    BY <1>3, <1>11, <1>12, <2>1 DEF MultisInv, DropsInv, Holding, InsertsInv, LocksInv, PredicateInv
<1>15. Merges = 0 /\ Busy = 0
  <2>1. {j \in DOMAIN log : IsMerge(j)} = {} /\ {r \in Replicas : predicate[r].stage # "idle"} = {}
    BY <1>6, <1>12
  <2> QED
    BY <2>1, FS_EmptySet DEF Merges, Busy
<1>16. LevelsInv
  <2>1. MAX_LEVEL \in Nat
    BY SMT DEF MAX_LEVEL
  <2>2. budget.selections \in Nat /\ budget.selections < MAX_LEVEL
    BY <1>1, <2>1
  <2> QED
    BY <1>15, <2>1, <2>2 DEF LevelsInv
<1>17. EntriesInv
  <2> SUFFICES ASSUME NEW k \in 1 .. N
               PROVE  /\ log[k].part.max < next_block
                      /\ log[k].part = Block(log[k].part.max)
                      /\ log[k].part.level <= Merges
    BY <1>6 DEF EntriesInv
  <2> QED
    BY <1>2, <1>4, <1>5, <1>6, <1>15
<1>18. LaminarInv /\ MergesLoseNoBlock
  <2>1. MergesLoseNoBlock
    BY <1>6 DEF MergesLoseNoBlock
  <2>2. ASSUME NEW j \in 1 .. N, NEW k \in 1 .. N, j < k
        PROVE  IsDisjoint(log[j].part, log[k].part)
    BY <1>4, <1>5, <1>6, <2>2 DEF IsDisjoint
  <2> QED
    BY <1>6, <2>1, <2>2 DEF LaminarInv
<1>19. Disjoint(stored)
  <2> SUFFICES ASSUME NEW p \in stored, NEW q \in stored, p # q
               PROVE  IsDisjoint(p, q)
    BY DEF Disjoint
  <2>1. PICK m \in 0 .. N - 1 : p = Block(m)
    BY DEF stored
  <2>2. PICK n \in 0 .. N - 1 : q = Block(n)
    BY DEF stored
  <2>3. m \in Nat /\ n \in Nat /\ m # n
    BY <1>1, <2>1, <2>2
  <2> QED
    BY <1>4, <2>1, <2>2, <2>3 DEF IsDisjoint
<1>20. VirtualInv
  <2>1. \A r \in Replicas : /\ virtual_parts[r] = stored /\ queue[r] = {} /\ log_pointer[r] - 1 = N
    BY <1>1, <1>2, <1>3
  <2>2. LogParts(N) = stored
    BY <1>9 DEF LogParts
  <2>3. MaximalParts(stored) = stored
    <3>1. Laminar(stored)
      BY <1>8, <1>19, ContainsOrder DEF Laminar, Disjoint
    <3> QED
      BY <1>8, <1>19, <3>1, MaximalFacts
  <2> QED
    BY <1>19, <2>1, <2>2, <2>3 DEF VirtualInv
<1>21. PartsInv
  <2>1. \A r \in Replicas : /\ active[r] = stored /\ outdated[r] = {} /\ parts[r] = stored
                            /\ PreActive(r) = {}
    BY <1>2, <1>3, <1>11 DEF PreActive
  <2>2. stored \subseteq {log[k].part : k \in {j \in DOMAIN log : ~IsDrop(j)}}
    BY <1>6, <1>9
  <2> QED
    BY <1>19, <2>1, <2>2 DEF PartsInv, OnDisk
<1>22. \A k \in 1 .. N : Contains(log[k].part, log[k].part)
  BY <1>8, <1>9, ContainsOrder
<1>23. QueueInv
  <2> SUFFICES ASSUME NEW r \in Replicas
               PROVE  /\ log_pointer[r] \in 1 .. Len(log) + 1
                      /\ queue[r] = {}
                      /\ log_pointer[r] - 1 = N
                      /\ \A j \in 1 .. N : \E p \in parts[r] : Contains(p, log[j].part)
    BY <1>6 DEF QueueInv
  <2>1. log_pointer[r] \in 1 .. Len(log) + 1 /\ queue[r] = {} /\ log_pointer[r] - 1 = N
    BY <1>1, <1>2, <1>3, <1>7
  <2>2. parts[r] = stored
    BY <1>2
  <2> QED
    BY <1>9, <1>22, <2>1, <2>2
<1>24. ExecutingInv
  BY <1>3 DEF ExecutingInv
<1>25. KeptInv
  <2>1. PICK r \in Replicas : TRUE
    BY ReplicationAssumption
  <2>2. parts[r] = stored
    BY <1>2
  <2> QED
    BY <1>6, <1>9, <1>22, <2>2 DEF KeptInv
<1>26. OnceInv
  <2>1. ASSUME NEW j \in 1 .. N, NEW k \in 1 .. N, j # k
        PROVE  log[j].part # log[k].part /\ log[j].data # log[k].data
    BY <1>4, <1>5, <1>6, <2>1
  <2> QED
    BY <1>3, <1>5, <1>6, <1>11, <2>1 DEF OnceInv
<1> QED
  BY <1>10, <1>13, <1>14, <1>16, <1>17, <1>18, <1>20, <1>21, <1>23, <1>24, <1>25, <1>26 DEF IInv
-----------------------------------------------------------------------------
(* Every step of the system keeps the invariant, as long as no DROP_RANGE  *)
(* is about to miss a part with a pending local commit.                    *)
LEMMA NextStep ==
  ASSUME IInv, ~DropMissedPreActivePart, [Next]_vars
  PROVE  IInv'
<1>1. ASSUME NEW i \in Inserts, Query(i)
      PROVE  IInv'
  BY <1>1, AllocateBlockNumberStep, FindDuplicateStep, CommitLocallyStep, RollbackStep,
     ResolveDuplicateStep, RecoverStep DEF Query
<1>2. ASSUME NEW m \in multis, KeeperCommitsPart(m)
      PROVE  IInv'
  BY <1>2, RefusedMulti, AcceptedMulti
<1>3. ASSUME NEW r \in Replicas, Queue(r)
      PROVE  IInv'
  BY <1>3, QueueUpdatingTaskStep, SkipEntryStep, StartFetchStep, StartMergeStep, StartDropRangeStep,
     FinishEntryStep, FailEntryStep, DropFromWorkingSetStep, FinishDropRangeStep, ClearOldPartsStep DEF Queue
<1>4. ASSUME NEW r \in Replicas, Selection(r)
      PROVE  IInv'
  BY <1>4, SelectionStep, PullForMergeStep, AssignMergeStep, CannotSelectStep DEF Selection
<1>5. ASSUME NEW r \in Replicas, Drop(r)
      PROVE  IInv'
  BY <1>5, ReadAlterVersionStep, LockDropRangeStep, CancelInsertStep, ListBlockIdsStep, ReadBlockIdStep,
     RemoveBlockIdsStep, CommitDropRangeStep DEF Drop
<1>6. CASE Next
  BY <1>1, <1>2, <1>3, <1>4, <1>5, <1>6, LoseSessionStep, RestartStep, ExpireLocksStep, StutteringStep DEF Next, Rest
<1> QED
  BY <1>6, StutteringStep

(* No GET_PART is appended, no block id is lost and no number of a drop    *)
(* goes down.                                                              *)
LEMMA StillRemembered ==
  ASSUME IInv, RememberedInv, blocks' = blocks,
         \A k \in DOMAIN log' : IsGet(k)' => k \in DOMAIN log /\ IsGet(k) /\ log'[k] = log[k],
         \A s \in Replicas : drop[s].block <= drop'[s].block /\ drop'[s].block \in Nat
  PROVE  RememberedInv'
<1>1. ASSUME NEW k \in DOMAIN log, MayBeForgotten(log[k].part)
      PROVE  \E s \in Replicas : log[k].part.max < drop'[s].block
  <2>1. PICK s \in Replicas : log[k].part.max < drop[s].block
    BY <1>1 DEF MayBeForgotten
  <2>2. log[k].part.max \in Nat /\ drop[s].block \in Nat
    BY LogFacts DEF IInv, TypeOK, DropState, Part
  <2>3. log[k].part.max < drop'[s].block
    BY <2>1, <2>2
  <2> QED
    BY <2>3
<1>2. ASSUME NEW k \in DOMAIN log', IsGet(k)'
      PROVE  \/ log'[k].data \in Nat
             \/ [data |-> log'[k].data, block |-> log'[k].part.max] \in blocks
             \/ \E s \in Replicas : log'[k].part.max < drop'[s].block
  <2>1. k \in DOMAIN log /\ IsGet(k) /\ log'[k] = log[k]
    BY <1>2
  <2> QED
    BY <1>1, <2>1 DEF RememberedInv
<1>3. ASSUME NEW j \in DOMAIN log', NEW k \in DOMAIN log', j < k, IsGet(j)', IsGet(k)',
             log'[j].data = log'[k].data
      PROVE  \E s \in Replicas : log'[j].part.max < drop'[s].block
  <2>1. /\ j \in DOMAIN log /\ IsGet(j) /\ log'[j] = log[j]
        /\ k \in DOMAIN log /\ IsGet(k) /\ log'[k] = log[k]
    BY <1>3
  <2>2. MayBeForgotten(log[j].part)
    BY <1>3, <2>1 DEF RememberedInv
  <2> QED
    BY <1>1, <2>1, <2>2
<1> QED
  BY <1>2, <1>3 DEF RememberedInv, MayBeForgotten

(* The commit multi appends a block whose id is not known: if it is in the *)
(* log already, it was forgotten.                                          *)
LEMMA CommittedIsRemembered ==
  ASSUME IInv, RememberedInv, NEW m \in multis, KeeperCommitsPart(m)
  PROVE  RememberedInv'
<1> DEFINE i == m.insert
           e == [type |-> "GET_PART", part |-> Block(m.block), sources |-> {}, data |-> DataOf[i]]
<1>1. drop' = drop
  BY DEF KeeperCommitsPart
<1>2. CASE MultiOutcome(m) # "ok"
  <2>1. log' = log /\ blocks' = blocks
    BY <1>2 DEF KeeperCommitsPart
  <2>2. \A k \in DOMAIN log' : IsGet(k)' => k \in DOMAIN log /\ IsGet(k) /\ log'[k] = log[k]
    BY <2>1 DEF IsGet
  <2>3. \A s \in Replicas : drop[s].block <= drop'[s].block /\ drop'[s].block \in Nat
    BY <1>1 DEF IInv, TypeOK, DropState
  <2> QED
    BY <2>1, <2>2, <2>3, StillRemembered
<1>3. CASE MultiOutcome(m) = "ok"
  <2>1. /\ log' = Append(log, e)
        /\ blocks' = blocks \cup {[data |-> DataOf[i], block |-> m.block]}
        /\ \A b \in blocks : b.data # DataOf[i]
    BY <1>3 DEF KeeperCommitsPart, MultiOutcome
  <2>2. i \in Inserts /\ m.block \in Nat /\ DataOf[i] \notin Nat
    BY ReplicationAssumption DEF IInv, TypeOK
  <2>3. e \in Entry /\ e.type = "GET_PART" /\ e.data = DataOf[i] /\ e.part.max = m.block
    BY <2>2 DEF Entry, Contents, Block, Part
  <2> HIDE DEF e, i
  <2>4. PICK K \in Nat :
        /\ DOMAIN log' = DOMAIN log \cup {K} /\ K \notin DOMAIN log
        /\ \A k \in DOMAIN log : log'[k] = log[k] /\ k < K /\ k \in Nat
        /\ log'[K] = e
    BY <2>1, <2>3, Appended DEF IInv
  <2>5. \A k \in DOMAIN log : IsGet(k)' <=> IsGet(k)
    BY <2>4 DEF IsGet
  <2>6. ASSUME NEW k \in DOMAIN log', IsGet(k)'
        PROVE  \/ log'[k].data \in Nat
               \/ [data |-> log'[k].data, block |-> log'[k].part.max] \in blocks'
               \/ \E s \in Replicas : log'[k].part.max < drop[s].block
    <3>1. CASE k = K
      BY <2>1, <2>3, <2>4, <3>1
    <3>2. CASE k \in DOMAIN log
      BY <2>1, <2>4, <2>5, <2>6, <3>2 DEF RememberedInv, MayBeForgotten
    <3> QED
      BY <2>4, <3>1, <3>2
  <2>7. ASSUME NEW j \in DOMAIN log', NEW k \in DOMAIN log', j < k, IsGet(j)', IsGet(k)',
               log'[j].data = log'[k].data
        PROVE  \E s \in Replicas : log'[j].part.max < drop[s].block
    <3>1. j \in DOMAIN log /\ IsGet(j) /\ log'[j] = log[j]
      BY <2>4, <2>5, <2>7
    <3>2. CASE k = K
      <4>1. log[j].data = DataOf[i]
        BY <2>3, <2>4, <2>7, <3>1, <3>2
      <4>2. [data |-> log[j].data, block |-> log[j].part.max] \notin blocks
        BY <2>1, <4>1
      <4>3. MayBeForgotten(log[j].part)
        BY <2>2, <3>1, <4>1, <4>2 DEF RememberedInv
      <4> QED
        BY <3>1, <4>3 DEF MayBeForgotten
    <3>3. CASE k \in DOMAIN log
      <4>1. IsGet(k) /\ log'[k] = log[k]
        BY <2>4, <2>5, <2>7, <3>3
      <4>2. MayBeForgotten(log[j].part)
        BY <2>7, <3>1, <3>3, <4>1 DEF RememberedInv
      <4> QED
        BY <3>1, <4>2 DEF MayBeForgotten
    <3> QED
      BY <2>4, <3>2, <3>3
  <2> QED
    BY <1>1, <2>6, <2>7 DEF RememberedInv, MayBeForgotten
<1> QED
  BY <1>2, <1>3

(* The block ids that a drop removes name parts of its range.              *)
LEMMA RemovedAreForgotten ==
  ASSUME IInv, RememberedInv, ~DropForgetsNewBlock, NEW r \in Replicas, RemoveBlockIds(r)
  PROVE  RememberedInv'
<1>1. /\ drop[r].stage = "reading" /\ drop[r].listed = {}
      /\ blocks' \subseteq blocks /\ \A b \in blocks : b \notin blocks' => b.data \in drop[r].ids
      /\ drop' = [drop EXCEPT ![r].stage = "cleared", ![r].ids = {}]
      /\ log' = log
  BY DEF RemoveBlockIds
<1>2. drop \in [Replicas -> DropState] /\ drop[r].block \in Nat /\ \A b \in blocks : b.block \in Nat
  BY DEF IInv, TypeOK, DropState
<1>3. \A b \in blocks : b \notin blocks' => b.block < drop[r].block
  BY <1>1, <1>2 DEF DropForgetsNewBlock
<1>4. \A s \in Replicas : drop'[s].block = drop[s].block
  BY <1>1, <1>2 DEF DropState
<1>5. \A q : MayBeForgotten(q)' <=> MayBeForgotten(q)
  BY <1>4 DEF MayBeForgotten
<1>6. ASSUME NEW k \in DOMAIN log, [data |-> log[k].data, block |-> log[k].part.max] \in blocks,
             [data |-> log[k].data, block |-> log[k].part.max] \notin blocks'
      PROVE  \E s \in Replicas : log[k].part.max < drop[s].block
  BY <1>3, <1>6
<1> QED
  BY <1>1, <1>4, <1>6 DEF RememberedInv, MayBeForgotten, IsGet

(* Every step keeps what is remembered, as long as no drop is about to     *)
(* remove an id that names a later block.                                  *)
LEMMA RememberedStep ==
  ASSUME IInv, RememberedInv, ~DropForgetsNewBlock, [Next]_vars
  PROVE  RememberedInv'
<1> USE DEF vars, keeper, memory, queries
<1>0. /\ drop \in [Replicas -> DropState] /\ next_block \in Nat
      /\ \A s \in Replicas : drop[s].block \in Nat /\ drop[s].block <= next_block
  BY DEF IInv, TypeOK, NumbersInv, DropState
<1>1. ASSUME UNCHANGED <<log, blocks>>, \A s \in Replicas : drop[s].block <= drop'[s].block /\ drop'[s].block \in Nat
      PROVE  RememberedInv'
  BY <1>1, StillRemembered DEF IsGet
<1>2. ASSUME UNCHANGED <<log, blocks, drop>>
      PROVE  RememberedInv'
  BY <1>0, <1>1, <1>2
<1>3. ASSUME NEW e \in Entry, e.type # "GET_PART", log' = Append(log, e), blocks' = blocks,
             \A s \in Replicas : drop'[s].block = drop[s].block
      PROVE  RememberedInv'
  <2>1. PICK K \in Nat :
        /\ DOMAIN log' = DOMAIN log \cup {K} /\ K \notin DOMAIN log
        /\ \A k \in DOMAIN log : log'[k] = log[k] /\ k < K /\ k \in Nat
        /\ log'[K] = e
    BY <1>3, Appended DEF IInv
  <2>2. \A k \in DOMAIN log' : IsGet(k)' => k \in DOMAIN log /\ IsGet(k) /\ log'[k] = log[k]
    BY <1>3, <2>1 DEF IsGet
  <2>3. \A s \in Replicas : drop[s].block <= drop'[s].block /\ drop'[s].block \in Nat
    BY <1>0, <1>3
  <2> QED
    BY <1>3, <2>2, <2>3, StillRemembered
<1>4. ASSUME NEW i \in Inserts, Query(i)
      PROVE  RememberedInv'
  BY <1>2, <1>4 DEF Query, AllocateBlockNumber, FindDuplicate, CommitLocally, Rollback, ResolveDuplicate, Recover
<1>5. ASSUME NEW r \in Replicas, Queue(r)
      PROVE  RememberedInv'
  <2>1. UNCHANGED <<log, blocks, drop>>
    BY <1>5 DEF Queue, QueueUpdatingTask, SkipEntry, StartFetch, StartMerge, StartEntry, StartDropRange,
       FinishEntry, FailEntry, DropFromWorkingSet, FinishDropRange, ClearOldParts
  <2> QED
    BY <1>2, <2>1
<1>6. ASSUME NEW r \in Replicas, Selection(r)
      PROVE  RememberedInv'
  <2>1. CASE AssignMerge(r)
    <3>1. blocks' = blocks /\ drop' = drop
      BY <2>1 DEF AssignMerge
    <3>2. PICK run \in MergeableRuns(r) :
            \/ log' = log
            \/ /\ predicate[r].stage = "ready" /\ predicate[r].version = LogVersion
               /\ log' = Append(log, [type |-> "MERGE_PARTS", part |-> MergedPart(run),
                                      sources |-> run, data |-> "none"])
      BY <2>1 DEF AssignMerge
    <3>3. CASE log' = log
      BY <1>2, <3>1, <3>3
    <3>4. CASE log' # log
      <4> DEFINE e == [type |-> "MERGE_PARTS", part |-> MergedPart(run), sources |-> run, data |-> "none"]
      <4>1. predicate[r].stage = "ready" /\ predicate[r].version = LogVersion /\ log' = Append(log, e)
        BY <3>2, <3>4
      <4>2. MergedPart(run) \in Part /\ run \in SUBSET Part
        BY <4>1, MergeStep
      <4>3. e \in Entry /\ e.type # "GET_PART"
        BY <4>2 DEF Entry, Contents
      <4> HIDE DEF e
      <4> QED
        BY <1>3, <3>1, <4>1, <4>3
    <3> QED
      BY <3>3, <3>4
  <2>2. CASE ~AssignMerge(r)
    <3>1. UNCHANGED <<log, blocks, drop>>
      BY <1>6, <2>2 DEF Selection, CopyVirtualParts, LoadCommittingBlocks, ReadLogVersion, PullForMerge, CannotSelect
    <3> QED
      BY <1>2, <3>1
  <2> QED
    BY <2>1, <2>2
<1>7. ASSUME NEW r \in Replicas, Drop(r)
      PROVE  RememberedInv'
  <2>1. CASE CommitDropRange(r)
    <3> DEFINE e == [type |-> "DROP_RANGE", part |-> DropRange(drop[r].block), sources |-> {}, data |-> "none"]
    <3>1. blocks' = blocks /\ \A s \in Replicas : drop'[s].block = drop[s].block
      <4>1. PICK st \in {"none", "retry"} : drop' = [drop EXCEPT ![r].stage = st]
        BY <2>1 DEF CommitDropRange
      <4>2. blocks' = blocks
        BY <2>1 DEF CommitDropRange
      <4> QED
        BY <1>0, <4>1, <4>2 DEF DropState
    <3>2. log' = log \/ log' = Append(log, e)
      BY <2>1 DEF CommitDropRange
    <3>3. e \in Entry /\ e.type # "GET_PART"
      <4>1. drop[r].block > 0
        BY <2>1 DEF CommitDropRange, IInv, DropsInv, Holding
      <4>2. drop[r].block - 1 \in Nat
        BY <1>0, <4>1
      <4> QED
        BY <4>2 DEF Entry, Contents, DropRange, Part, MAX_LEVEL
    <3> HIDE DEF e
    <3> QED
      BY <1>0, <1>1, <1>3, <3>1, <3>2, <3>3
  <2>2. CASE RemoveBlockIds(r)
    BY <2>2, RemovedAreForgotten
  <2>3. CASE LockDropRange(r)
    <3>1. UNCHANGED <<log, blocks>> /\ drop' = [drop EXCEPT ![r].stage = "locked", ![r].block = next_block]
      BY <2>3 DEF LockDropRange
    <3>2. \A s \in Replicas : drop'[s].block = drop[s].block \/ drop'[s].block = next_block
      BY <1>0, <3>1 DEF DropState
    <3> QED
      BY <1>0, <1>1, <3>1, <3>2
  <2>4. CASE ReadAlterVersion(r) \/ CancelInsert(r) \/ ListBlockIds(r) \/ \E id \in drop[r].listed : ReadBlockId(r, id)
    <3>1. UNCHANGED <<log, blocks>>
      BY <2>4 DEF ReadAlterVersion, CancelInsert, ListBlockIds, ReadBlockId
    <3>2. \A s \in Replicas : drop'[s].block = drop[s].block
      <4>1. CASE ReadAlterVersion(r)
        BY <1>0, <4>1 DEF ReadAlterVersion, DropState
      <4>2. CASE CancelInsert(r)
        BY <4>2 DEF CancelInsert
      <4>3. CASE ListBlockIds(r)
        BY <1>0, <4>3 DEF ListBlockIds, DropState
      <4>4. ASSUME NEW id \in drop[r].listed, ReadBlockId(r, id)
            PROVE  \A s \in Replicas : drop'[s].block = drop[s].block
        BY <1>0, <4>4 DEF ReadBlockId, DropState
      <4> QED
        BY <2>4, <4>1, <4>2, <4>3, <4>4
    <3> QED
      BY <1>0, <1>1, <3>1, <3>2
  <2> QED
    BY <1>7, <2>1, <2>2, <2>3, <2>4 DEF Drop
<1>8. ASSUME NEW r \in Replicas, LoseSession(r) \/ Restart(r)
      PROVE  RememberedInv'
  <2>1. UNCHANGED <<log, blocks>>
        /\ drop' = [drop EXCEPT ![r].stage = "none", ![r].listed = {}, ![r].ids = {}]
    BY <1>8 DEF LoseSession, Restart, NewSession
  <2>2. \A s \in Replicas : drop'[s].block = drop[s].block
    BY <1>0, <2>1 DEF DropState
  <2> QED
    BY <1>0, <1>1, <2>1, <2>2
<1>9. CASE ExpireLocks \/ Rest \/ UNCHANGED vars
  <2>1. UNCHANGED <<log, blocks, drop>>
    BY <1>9 DEF ExpireLocks, Rest
  <2> QED
    BY <1>2, <2>1
<1> QED
  BY <1>4, <1>5, <1>6, <1>7, <1>8, <1>9, CommittedIsRemembered DEF Next

(* At the start no block is stored twice and none has an id.               *)
LEMMA InitRemembered == Init => RememberedInv
<1> SUFFICES ASSUME Init
             PROVE  RememberedInv
  OBVIOUS
<1>1. /\ DOMAIN log = 1 .. budget.stored /\ budget.stored \in Nat
      /\ \A k \in DOMAIN log : log[k].data = k
  BY ReplicationAssumption DEF Init
<1> QED
  BY <1>1 DEF RememberedInv

(* DROP PARTITION cuts the log cleanly.                                    *)
LEMMA CleanCut == IInv => DroppedStaysDropped
<1> SUFFICES ASSUME IInv, NEW k \in DOMAIN log, NEW j \in DOMAIN log,
                    IsDrop(k), ~IsDrop(j), ~IsDisjoint(log[k].part, log[j].part)
             PROVE  j < k /\ Contains(log[k].part, log[j].part)
  BY DEF DroppedStaysDropped
<1>1. /\ Len(log) \in Nat /\ DOMAIN log = 1 .. Len(log)
      /\ log[k].part \in Name /\ log[j].part \in Name
      /\ IsFakeDropRangePart(log[k].part) /\ ~IsFakeDropRangePart(log[j].part)
  BY LogFacts DEF IInv
<1>2. ~IsDisjoint(log[j].part, log[k].part)
  BY <1>1 DEF IsDisjoint, Name, Part
<1>3. j # k
  OBVIOUS
<1>4. CASE j < k
  BY <1>2, <1>4 DEF IInv, LaminarInv
<1>5. CASE k < j
  <2>1. Contains(log[j].part, log[k].part)
    BY <1>5 DEF IInv, LaminarInv
  <2> QED
    BY <1>1, <2>1 DEF Contains, Name, Part, IsFakeDropRangePart
<1> QED
  BY <1>1, <1>3, <1>4, <1>5

(* What a replica expects is the table replayed up to its log_pointer.     *)
LEMMA ExpectedIsReplayed == IInv => VirtualPartsFollowLog
<1> SUFFICES ASSUME IInv, NEW r \in Replicas
             PROVE  {p \in virtual_parts[r] : ~IsFakeDropRangePart(p)} = Replayed(log_pointer[r] - 1)
  BY DEF VirtualPartsFollowLog
<1>1. log_pointer[r] - 1 \in 0 .. Len(log)
  <2>1. log_pointer[r] \in 1 .. Len(log) + 1 /\ Len(log) \in Nat
    BY LogFacts DEF IInv, QueueInv
  <2> QED
    BY <2>1
<1>2. Replayed(log_pointer[r] - 1) = Real(MaximalParts(LogParts(log_pointer[r] - 1)))
  BY <1>1, ReplayedMaximal DEF IInv
<1>3. Real(virtual_parts[r]) = Real(MaximalParts(LogParts(log_pointer[r] - 1)))
  BY DEF IInv, VirtualInv
<1> QED
  BY <1>2, <1>3 DEF Real

(* The active parts of a replica that has caught up are the parts of the   *)
(* log that no other part and no drop covers.                              *)
LEMMA CaughtUpIsReplayed == IInv => ReplicasConverge
<1> SUFFICES ASSUME IInv, NEW r \in Replicas, CaughtUp(r)
             PROVE  active[r] = Replayed(Len(log))
  BY DEF ReplicasConverge
<1> DEFINE L == LogParts(Len(log))
<1>1. /\ Len(log) \in Nat /\ DOMAIN log = 1 .. Len(log)
      /\ \A k \in DOMAIN log : log[k].part \in Name
      /\ \A k \in DOMAIN log : IsDrop(k) <=> IsFakeDropRangePart(log[k].part)
  BY LogFacts DEF IInv
<1>2. log_pointer[r] - 1 = Len(log) /\ queue[r] = {} /\ PreActive(r) \cap parts[r] = {}
  <2>1. log_pointer[r] \in 1 .. Len(log) + 1
    BY DEF IInv, QueueInv
  <2> QED
    BY <1>1, <2>1 DEF CaughtUp
<1>3. Replayed(Len(log)) = Real(MaximalParts(L))
  BY <1>1, ReplayedMaximal DEF IInv
<1>4. /\ \A k \in DOMAIN log : log[k].part \in L
      /\ \A x \in L : \E k \in DOMAIN log : x = log[k].part
  BY <1>1 DEF LogParts
<1> HIDE DEF L
<1>5. /\ \A j \in DOMAIN log : ~IsDrop(j) =>
             \/ \E p \in parts[r] : Contains(p, log[j].part)
             \/ \E k \in DOMAIN log : IsDrop(k) /\ Contains(log[k].part, log[j].part)
      /\ \A k \in DOMAIN log : IsDrop(k) => \A p \in parts[r] : ~Contains(log[k].part, p)
  <2>1. /\ \A j \in 1 .. log_pointer[r] - 1 : ~IsDrop(j) /\ j \notin queue[r] =>
             \/ \E p \in parts[r] : Contains(p, log[j].part)
             \/ \E k \in 1 .. log_pointer[r] - 1 : IsDrop(k) /\ Contains(log[k].part, log[j].part)
        /\ \A k \in 1 .. log_pointer[r] - 1 : IsDrop(k) /\ k \notin queue[r] =>
               \A p \in parts[r] : ~Contains(log[k].part, p)
    BY DEF IInv, QueueInv
  <2> QED
    BY <1>1, <1>2, <2>1
<1>6. /\ active[r] \subseteq parts[r]
      /\ parts[r] \subseteq active[r] \cup outdated[r]
      /\ \A p \in parts[r] \cup active[r] : p \in L /\ p \in Name /\ ~IsFakeDropRangePart(p)
      /\ Disjoint(active[r])
      /\ \A q \in outdated[r] :
             \/ \E p \in active[r] : Contains(p, q)
             \/ \E k \in DOMAIN log : IsDrop(k) /\ Contains(log[k].part, q)
  <2>1. /\ active[r] \subseteq parts[r] /\ parts[r] \subseteq OnDisk(r)
        /\ parts[r] \subseteq {log[k].part : k \in {j \in DOMAIN log : ~IsDrop(j)}}
        /\ Disjoint(active[r])
        /\ \A q \in outdated[r] :
               \/ \E p \in active[r] : Contains(p, q)
               \/ \E k \in 1 .. log_pointer[r] - 1 : IsDrop(k) /\ Contains(log[k].part, q)
    BY DEF IInv, PartsInv
  <2>2. parts[r] \subseteq active[r] \cup outdated[r]
    BY <1>2, <2>1 DEF OnDisk
  <2>3. \A p \in parts[r] : p \in L /\ p \in Name /\ ~IsFakeDropRangePart(p)
    BY <1>1, <1>4, <2>1
  <2> QED
    BY <1>1, <1>2, <2>1, <2>2, <2>3
<1>7. ASSUME NEW q \in parts[r], NEW x \in parts[r], Contains(q, x)
      PROVE  \E p \in active[r] : Contains(p, q)
  <2>1. CASE q \in active[r]
    BY <1>6, <2>1, ContainsOrder
  <2>2. CASE q \in outdated[r]
    <3> SUFFICES ASSUME NEW k \in DOMAIN log, IsDrop(k), Contains(log[k].part, q)
                 PROVE  FALSE
      BY <1>6, <2>2
    <3> QED
      BY <1>5
  <2> QED
    BY <1>6, <2>1, <2>2
<1>8. ASSUME NEW x \in active[r], NEW y \in L, Contains(y, x)
      PROVE  y = x
  <2>1. PICK j \in DOMAIN log : y = log[j].part
    BY <1>4
  <2>2. x \in parts[r] /\ x \in Name /\ y \in Name
    BY <1>1, <1>6, <2>1
  <2>3. ASSUME NEW k \in DOMAIN log, IsDrop(k), Contains(log[k].part, y)
        PROVE  FALSE
    <3>1. Contains(log[k].part, x)
      BY <1>1, <1>8, <2>2, <2>3, ContainsOrder
    <3> QED
      BY <1>5, <2>2, <2>3, <3>1
  <2>4. ~IsDrop(j)
    BY <1>5, <1>8, <2>1, <2>2
  <2>5. PICK q \in parts[r] : Contains(q, y)
    BY <1>5, <2>1, <2>3, <2>4
  <2>6. q \in Name /\ Contains(q, x)
    BY <1>6, <1>8, <2>2, <2>5, ContainsOrder
  <2>7. PICK p \in active[r] : Contains(p, q)
    BY <1>7, <2>2, <2>5, <2>6
  <2>8. p \in Name /\ Contains(p, x) /\ Contains(p, y)
    BY <1>6, <2>2, <2>5, <2>6, <2>7, ContainsOrder
  <2>9. p = x
    <3>1. ~IsDisjoint(p, x)
      BY <2>2, <2>8, ContainsOrder
    <3> QED
      BY <1>6, <3>1 DEF Disjoint
  <2> QED
    BY <1>8, <2>2, <2>8, <2>9, ContainsOrder
<1>9. ASSUME NEW x \in Real(MaximalParts(L))
      PROVE  x \in active[r]
  <2>1. x \in L /\ ~IsFakeDropRangePart(x) /\ \A y \in L : Contains(y, x) => y = x
    BY <1>9 DEF Real, MaximalParts
  <2>2. PICK j \in DOMAIN log : x = log[j].part
    BY <1>4, <2>1
  <2>3. ~IsDrop(j)
    BY <1>1, <2>1, <2>2
  <2>4. ASSUME NEW k \in DOMAIN log, IsDrop(k), Contains(log[k].part, x)
        PROVE  FALSE
    BY <1>1, <1>4, <2>1, <2>4
  <2>5. PICK q \in parts[r] : Contains(q, x)
    BY <1>5, <2>2, <2>3, <2>4
  <2>6. q = x
    BY <1>6, <2>1, <2>5
  <2>7. PICK p \in active[r] : Contains(p, x)
    BY <1>7, <2>5, <2>6
  <2> QED
    BY <1>6, <2>1, <2>7
<1>10. active[r] \subseteq Real(MaximalParts(L))
  BY <1>6, <1>8 DEF Real, MaximalParts
<1> QED
  BY <1>3, <1>9, <1>10

(* A block of the log that is not dropped is on disk and in Keeper.        *)
LEMMA KeptIsOnDisk == IInv => AcknowledgedIsKept
<1> SUFFICES ASSUME IInv, NEW k \in DOMAIN log, log[k].type = "GET_PART", ~Dropped(log[k].part)
             PROVE  \E r \in Replicas : \E p \in parts[r] \cap OnDisk(r) : Contains(p, log[k].part)
  BY DEF AcknowledgedIsKept
<1>1. ~\E j \in DOMAIN log : IsDrop(j) /\ Contains(log[j].part, log[k].part)
  BY DEF Dropped
<1>2. PICK r \in Replicas : \E p \in parts[r] : Contains(p, log[k].part)
  BY <1>1 DEF IInv, KeptInv, IsGet
<1>3. parts[r] \subseteq OnDisk(r)
  BY DEF IInv, PartsInv
<1> QED
  BY <1>2, <1>3
-----------------------------------------------------------------------------
(* The invariant of replication, in every behaviour in which no DROP_RANGE *)
(* is about to end while a part of its range has its local commit pending  *)
(* (removePartsInRangeFromWorkingSet() looks at the working set only; what *)
(* follows then is shown by the run about NoPartRemainsAfterDrop).         *)
THEOREM ReplicationInvariant ==
  Spec /\ []~DropMissedPreActivePart => []IInv
<1>1. Init => IInv
  BY InitInv
<1>2. IInv /\ ~DropMissedPreActivePart /\ [Next]_vars => IInv'
  BY NextStep
<1> QED
  BY <1>1, <1>2, PTL DEF Spec

(* Merges lose no block (canMergeTwoParts() and the check of the version   *)
(* of /log in createLogEntryToMergeParts()): whatever block is ever in the *)
(* log inside the range of a merge was there before it, in one of its      *)
(* sources.                                                                *)
THEOREM MergesKeepEveryBlock ==
  Spec /\ []~DropMissedPreActivePart => []MergesLoseNoBlock
<1>1. IInv => MergesLoseNoBlock
  BY DEF IInv
<1> QED
  BY <1>1, ReplicationInvariant, PTL

(* DROP PARTITION cuts the log cleanly (dropAllPartsInPartitions()): the   *)
(* cancelled inserts and the version of /log keep every later entry out of *)
(* the dropped range, and no earlier one crosses its border.               *)
THEOREM DropsCutTheLog ==
  Spec /\ []~DropMissedPreActivePart => []DroppedStaysDropped
<1>1. IInv => DroppedStaysDropped
  BY CleanCut
<1> QED
  BY <1>1, ReplicationInvariant, PTL

(* "virtual_parts = current_parts + queue" (ReplicatedMergeTreeQueue.h):   *)
(* what a replica expects to have is the table replayed up to its          *)
(* log_pointer, also after a lost session or a restart.                    *)
THEOREM ExpectationFollowsLog ==
  Spec /\ []~DropMissedPreActivePart => []VirtualPartsFollowLog
<1>1. IInv => VirtualPartsFollowLog
  BY ExpectedIsReplayed
<1> QED
  BY <1>1, ReplicationInvariant, PTL

(* A replica with nothing left to do has exactly the parts of the replayed *)
(* log, however executeLogEntry() has reordered, replaced and repeated the *)
(* entries of its queue.                                                   *)
THEOREM ReplicasEndAlike ==
  Spec /\ []~DropMissedPreActivePart => []ReplicasConverge
<1>1. IInv => ReplicasConverge
  BY CaughtUpIsReplayed
<1> QED
  BY <1>1, ReplicationInvariant, PTL

(* A block is stored once (ReplicatedMergeTreeSink::commitPart()): an      *)
(* acknowledged block is in the log, and is there twice only when a DROP   *)
(* PARTITION was started on the range of the first copy.  This needs that  *)
(* no drop is about to remove an id that it has read for one block and     *)
(* that another block has taken since (clearBlocksInPartition() removes    *)
(* with version -1); what follows then is shown by the run about           *)
(* InsertedOnce with two drops.                                            *)
THEOREM BlocksAreStoredOnce ==
  Spec /\ []~DropMissedPreActivePart /\ []~DropForgetsNewBlock => []InsertedOnce
<1>1. Init => RememberedInv
  BY InitRemembered
<1>2. IInv /\ RememberedInv /\ ~DropForgetsNewBlock /\ [Next]_vars => RememberedInv'
  BY RememberedStep
<1>3. IInv /\ RememberedInv => InsertedOnce
  BY DEF IInv, OnceInv, RememberedInv, InsertedOnce, IsGet
<1> QED
  BY <1>1, <1>2, <1>3, ReplicationInvariant, PTL DEF Spec

(* Without that race or with it, an acknowledged block is in the log.      *)
THEOREM AcknowledgedIsLogged ==
  Spec /\ []~DropMissedPreActivePart =>
  [](\A i \in Inserts : insert[i].stage = "done" =>
         \E k \in DOMAIN log : log[k].type = "GET_PART" /\ log[k].data = DataOf[i])
<1>1. IInv => \A i \in Inserts : insert[i].stage = "done" =>
                  \E k \in DOMAIN log : log[k].type = "GET_PART" /\ log[k].data = DataOf[i]
  BY DEF IInv, OnceInv, IsGet
<1> QED
  BY <1>1, ReplicationInvariant, PTL

(* A block of the log that is not dropped is on the disk of a replica that *)
(* says so in Keeper, whatever answers, sessions and servers were lost.    *)
THEOREM BlocksAreKept ==
  Spec /\ []~DropMissedPreActivePart => []AcknowledgedIsKept
<1>1. IInv => AcknowledgedIsKept
  BY KeptIsOnDisk
<1> QED
  BY <1>1, ReplicationInvariant, PTL

(* "It's important that no old parts remain" (executeDropRange()): a part  *)
(* with a pending local commit is the only one that DROP_RANGE can miss.   *)
THEOREM NothingElseRemains ==
  Spec /\ []~DropMissedPreActivePart => []NoPartRemainsAfterDrop
<1>1. IInv => NoPartRemainsAfterDrop
  <2> SUFFICES ASSUME IInv, NEW r \in Replicas, NEW k \in DOMAIN log,
                      IsDrop(k), k < log_pointer[r], k \notin queue[r]
               PROVE  \A p \in parts[r] : ~Contains(log[k].part, p)
    BY DEF NoPartRemainsAfterDrop
  <2>1. k \in 1 .. log_pointer[r] - 1
    <3>1. DOMAIN log = 1 .. Len(log) /\ log_pointer[r] \in Nat
      BY LogFacts DEF IInv, TypeOK
    <3> QED
      BY <3>1
  <2> QED
    BY <2>1 DEF IInv, QueueInv
<1> QED
  BY <1>1, ReplicationInvariant, PTL
=============================================================================
