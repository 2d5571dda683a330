------------------------- MODULE ActiveDataPartSet -------------------------
(***************************************************************************)
(* Names of data parts (MergeTreePartInfo) and sets of parts ordered by    *)
(* name (ActiveDataPartSet): the algebra replication is built on.  A part  *)
(* covers a range of block numbers; a merge of neighbours covers the range *)
(* from the first to the last and has a higher level; a DROP_RANGE is      *)
(* named by a fake part of level MAX_LEVEL (older versions also used       *)
(* LEGACY_MAX_LEVEL).  One partition, no mutations (mutation = 0), so a    *)
(* part is [min, max, level].                                              *)
(*                                                                         *)
(* The set is a std::map: lookups and insertions only look at the          *)
(* neighbours of the place where a part would be.  The operators below     *)
(* follow those walks; ReplicatedMergeTreeProofs shows what they compute.  *)
(***************************************************************************)
EXTENDS Integers

MAX_LEVEL == 999999999

Part == {p \in [min : Nat, max : Nat, level : Nat] : p.min <= p.max}

Before(p, q) ==
    \/ p.min < q.min
    \/ p.min = q.min /\ p.max < q.max
    \/ p.min = q.min /\ p.max = q.max /\ p.level < q.level

Contains(p, q) ==
    /\ p.min <= q.min
    /\ p.max >= q.max
    /\ p.level >= q.level
    /\ \/ p.min = q.min /\ p.max = q.max
       \/ p.level > q.level
       \/ p.level = MAX_LEVEL

IsDisjoint(p, q) == p.min > q.max \/ p.max < q.min

IsFakeDropRangePart(p) == p.level = MAX_LEVEL
-----------------------------------------------------------------------------
(* lower_bound() and the element before it: sets of at most one part.      *)

LowerBound(S, p) ==
    {q \in S : ~Before(q, p) /\ \A x \in S : ~Before(x, p) => x = q \/ Before(q, x)}

Previous(S, p) ==
    {q \in S : Before(q, p) /\ \A x \in S : Before(x, p) => x = q \/ Before(x, q)}

(* getContainingPartImpl(): "a part can only be covered/overlapped by the  *)
(* previous or next one".                                                  *)
GetContainingPart(S, p) ==
    LET right == {q \in LowerBound(S, p) : Contains(q, p)}
        left  == {q \in Previous(S, p) : Contains(q, p)}
    IN  IF right # {} THEN right ELSE left

IsCovered(S, p) == GetContainingPart(S, p) # {}

(* addImpl(): the runs of parts contained in p that the walks to the left  *)
(* and to the right of its place erase, and the part each walk stops at.   *)
LeftRun(S, p) ==
    {x \in S : /\ Before(x, p)
               /\ \A y \in S : Before(y, p) /\ ~Before(y, x) => Contains(p, y)}

RightRun(S, p) ==
    {x \in S : /\ ~Before(x, p)
               /\ \A y \in S : ~Before(y, p) /\ ~Before(x, y) => Contains(p, y)}

StopsAt(S, p) == Previous(S \ LeftRun(S, p), p) \cup LowerBound(S \ RightRun(S, p), p)

Intersects(S, p) == \E q \in StopsAt(S, p) : ~IsDisjoint(p, q)

(* The set after add(p): unchanged when p has a covering part already.     *)
(* HasIntersectingPart is a LOGICAL_ERROR of every caller modelled here.   *)
Add(S, p) ==
    IF IsCovered(S, p) THEN S
    ELSE (S \ (LeftRun(S, p) \cup RightRun(S, p))) \cup {p}

(* getPartsCoveredByImpl(): the same runs, and nothing when a walk stops   *)
(* at a part that contains p.                                              *)
GetPartsCoveredBy(S, p) ==
    IF \E q \in StopsAt(S, p) : Contains(q, p) THEN {}
    ELSE LeftRun(S, p) \cup RightRun(S, p)
=============================================================================
