---------------------------- MODULE RWLockProofs ----------------------------
(***************************************************************************)
(* Exclusion, phase-fair order and the refinement of ReadersWriter for     *)
(* RWLock, with any clients and any queries.                               *)
(*                                                                         *)
(* The lock is always in one of three phases (Free, Reading, Writing),     *)
(* which fix the owners and the owning groups; Membership ties the groups  *)
(* to the clients in them, and Overtaking says when a reader may already   *)
(* have been overtaken by a writer.                                        *)
(***************************************************************************)
EXTENDS RWLock, SequenceLemmas, FiniteSetTheorems, TLAPS

Own(l, g) == l.group[g].ownership
ListedIn(l) == Range(l.readers_queue) \cup Range(l.writers_queue)

LockTypes(l) ==
  /\ l \in [readers_queue : Seq(Groups), writers_queue : Seq(Groups),
            rdlock_owner : Groups \cup {End}, wrlock_owner : Groups \cup {End},
            group : [Groups -> [requests : Int, ownership : BOOLEAN]]]
  /\ Unique(l.readers_queue) /\ Unique(l.writers_queue)
  /\ Range(l.readers_queue) \cap Range(l.writers_queue) = {}
  /\ \A g \in Groups : g \notin ListedIn(l) => l.group[g] = NoGroup

Free(l) ==
  /\ l.rdlock_owner = End /\ l.wrlock_owner = End
  /\ l.readers_queue = <<>> /\ l.writers_queue = <<>>

(* All groups of readers own the lock, or all but the last, which has come *)
(* after a writer.                                                         *)
ReadingTo(l, i) ==
  /\ l.rdlock_owner = l.readers_queue[i]
  /\ i = Len(l.readers_queue) \/ (i = Len(l.readers_queue) - 1 /\ l.writers_queue # <<>>)
  /\ \A j \in DOMAIN l.readers_queue : Own(l, l.readers_queue[j]) <=> j <= i

Reading(l) ==
  /\ l.wrlock_owner = End
  /\ \E i \in DOMAIN l.readers_queue : ReadingTo(l, i)
  /\ \A g \in Range(l.writers_queue) : ~Own(l, g)

(* The first writer owns the lock, and one group of readers may wait. *)
Writing(l) ==
  /\ l.rdlock_owner = End
  /\ l.writers_queue # <<>> /\ l.wrlock_owner = l.writers_queue[1]
  /\ \A j \in DOMAIN l.writers_queue : Own(l, l.writers_queue[j]) <=> j = 1
  /\ Len(l.readers_queue) <= 1
  /\ \A g \in Range(l.readers_queue) : ~Own(l, g)

Phase(l) == LockTypes(l) /\ (Free(l) \/ Reading(l) \/ Writing(l))

ClientTypes ==
  /\ pc \in [Clients -> {"idle", "waiting", "holding", "done"}]
  /\ type \in [Clients -> {"Read", "Write"}]
  /\ it_group \in [Clients -> Groups \cup {End}]
  /\ owner_queries \in [Queries -> Nat]
  /\ overtaken \in [Clients -> 0 .. 2]

Active(c) == pc[c] \in {"waiting", "holding"}
Holders(q) == {c \in Clients : pc[c] = "holding" /\ QueryOf[c] = q}

(* Every request and holder has its group, every group its requests; a     *)
(* writer is alone in its group.                                           *)
GroupsAreListed ==
  \A c \in Clients : Active(c) =>
    it_group[c] \in Range(IF type[c] = "Read" THEN lock.readers_queue ELSE lock.writers_queue)
HoldersOwn == \A c \in Clients : pc[c] = "holding" => Own(lock, it_group[c])
WritersAreAlone ==
  \A c, d \in Clients :
    Active(c) /\ Active(d) /\ it_group[c] = it_group[d] /\ type[c] = "Write" => c = d
NoEmptyGroup == \A g \in ListedIn(lock) : \E c \in Clients : Active(c) /\ it_group[c] = g
RequestsAreCounted == \A g \in Groups : lock.group[g].requests = Cardinality(Members(g))
QueriesAreCounted == \A q \in Queries : owner_queries[q] = Cardinality(Holders(q))

Membership ==
  /\ GroupsAreListed /\ HoldersOwn /\ WritersAreAlone /\ NoEmptyGroup
  /\ RequestsAreCounted /\ QueriesAreCounted

(* A reader that a writer has overtaken waits for that writer only. *)
Overtaking ==
  \A c \in Clients :
    IF pc[c] = "waiting" /\ type[c] = "Read"
      THEN /\ overtaken[c] <= 1
           /\ overtaken[c] = 1 => lock.wrlock_owner # End \/ Own(lock, it_group[c])
      ELSE overtaken[c] = 0

IInv == Phase(lock) /\ ClientTypes /\ Membership /\ Overtaking

-----------------------------------------------------------------------------
(* The lists. *)

LEMMA PositionIs ==
  ASSUME NEW q \in Seq(Groups), Unique(q), NEW i \in DOMAIN q
  PROVE  Position(q, q[i]) = i
BY DEF Position, Unique

LEMMA WithoutFacts ==
  ASSUME NEW q \in Seq(Groups), Unique(q), NEW g
  PROVE  /\ Without(q, g) \in Seq(Groups) /\ Unique(Without(q, g))
         /\ Range(Without(q, g)) = Range(q) \ {g}
         /\ g \notin Range(q) => Without(q, g) = q
         /\ \A k \in DOMAIN q : q[k] = g =>
              /\ Len(Without(q, g)) = Len(q) - 1
              /\ \A j \in 1 .. Len(q) - 1 : Without(q, g)[j] = q[IF j < k THEN j ELSE j + 1]
<1>1. CASE g \notin Range(q)
  BY <1>1 DEF Without, Range
<1>2. CASE g \in Range(q)
  <2>1. PICK k \in DOMAIN q : q[k] = g
    BY <1>2 DEF Range
  <2>2. Without(q, g) = RemoveAt(q, k)
    BY <1>2, <2>1, PositionIs DEF Without
  <2>3. \A m \in DOMAIN q : q[m] = g => m = k
    BY <2>1 DEF Unique
  <2> QED  BY <1>2, <2>1, <2>2, <2>3, RemoveAtFacts, RemoveAtUnique
<1> QED  BY <1>1, <1>2

LEMMA EraseFacts ==
  ASSUME NEW l, LockTypes(l), NEW g \in Groups
  PROVE  /\ LockTypes(Erase(l, g))
         /\ Erase(l, g).rdlock_owner = l.rdlock_owner /\ Erase(l, g).wrlock_owner = l.wrlock_owner
         /\ Erase(l, g).readers_queue = Without(l.readers_queue, g)
         /\ Erase(l, g).writers_queue = Without(l.writers_queue, g)
         /\ Range(Erase(l, g).readers_queue) = Range(l.readers_queue) \ {g}
         /\ Range(Erase(l, g).writers_queue) = Range(l.writers_queue) \ {g}
         /\ Erase(l, g).group[g] = NoGroup
         /\ \A h \in Groups \ {g} : Erase(l, g).group[h] = l.group[h]
<1>0. PICK e : e = Erase(l, g)
  OBVIOUS
<1>1. /\ l.readers_queue \in Seq(Groups) /\ Unique(l.readers_queue)
      /\ l.writers_queue \in Seq(Groups) /\ Unique(l.writers_queue)
      /\ l.group \in [Groups -> [requests : Int, ownership : BOOLEAN]]
      /\ l.rdlock_owner \in Groups \cup {End} /\ l.wrlock_owner \in Groups \cup {End}
      /\ l = [readers_queue |-> l.readers_queue, writers_queue |-> l.writers_queue,
              rdlock_owner |-> l.rdlock_owner, wrlock_owner |-> l.wrlock_owner, group |-> l.group]
  BY DEF LockTypes
<1>2. e = [readers_queue |-> Without(l.readers_queue, g), writers_queue |-> Without(l.writers_queue, g),
           rdlock_owner |-> l.rdlock_owner, wrlock_owner |-> l.wrlock_owner,
           group |-> [l.group EXCEPT ![g] = NoGroup]]
  BY <1>0, <1>1 DEF Erase
<1>3. /\ Without(l.readers_queue, g) \in Seq(Groups) /\ Unique(Without(l.readers_queue, g))
      /\ Range(Without(l.readers_queue, g)) = Range(l.readers_queue) \ {g}
      /\ Without(l.writers_queue, g) \in Seq(Groups) /\ Unique(Without(l.writers_queue, g))
      /\ Range(Without(l.writers_queue, g)) = Range(l.writers_queue) \ {g}
  BY <1>1, WithoutFacts
<1>4. NoGroup \in [requests : Int, ownership : BOOLEAN]
  BY DEF NoGroup
<1>5. /\ e.group[g] = NoGroup /\ \A h \in Groups \ {g} : e.group[h] = l.group[h]
      /\ e.group \in [Groups -> [requests : Int, ownership : BOOLEAN]]
  BY <1>1, <1>2, <1>4
<1>6. e \in [readers_queue : Seq(Groups), writers_queue : Seq(Groups),
             rdlock_owner : Groups \cup {End}, wrlock_owner : Groups \cup {End},
             group : [Groups -> [requests : Int, ownership : BOOLEAN]]]
  BY <1>1, <1>2, <1>3, <1>5
<1>7. \A h \in Groups : h \notin ListedIn(e) => e.group[h] = NoGroup
  BY <1>2, <1>3, <1>5 DEF LockTypes, ListedIn
<1>8. Range(e.readers_queue) \cap Range(e.writers_queue) = {}
  BY <1>2, <1>3 DEF LockTypes
<1>9. LockTypes(e)
  <2>1. Unique(e.readers_queue) /\ Unique(e.writers_queue)
    BY <1>2, <1>3
  <2> QED  BY <1>6, <1>7, <1>8, <2>1 DEF LockTypes
<1> QED  BY <1>0, <1>2, <1>3, <1>5, <1>9

(* Granting the lock to readers from the i-th group on. *)
LEMMA GrantAllFacts ==
  ASSUME NEW l, LockTypes(l), NEW i \in DOMAIN l.readers_queue,
         l.rdlock_owner = l.readers_queue[i],
         NEW n, n = GrantOwnershipToAllReaders(l)
  PROVE  /\ LockTypes(n)
         /\ n.readers_queue = l.readers_queue /\ n.writers_queue = l.writers_queue
         /\ n.wrlock_owner = l.wrlock_owner
         /\ n.rdlock_owner = l.readers_queue[Len(l.readers_queue)]
         /\ \A g \in Groups : n.group[g].requests = l.group[g].requests /\ (Own(l, g) => Own(n, g))
         /\ \A j \in DOMAIN l.readers_queue : i <= j => Own(n, l.readers_queue[j])
         /\ \A g \in Groups : g \notin Range(l.readers_queue) => n.group[g] = l.group[g]
<1> DEFINE q == l.readers_queue
           granted == {q[j] : j \in i .. Len(q)}
           gr == [g \in Groups |-> IF g \in granted THEN [l.group[g] EXCEPT !.ownership = TRUE] ELSE l.group[g]]
<1>1. /\ q \in Seq(Groups) /\ Unique(q) /\ l.writers_queue \in Seq(Groups)
      /\ l.group \in [Groups -> [requests : Int, ownership : BOOLEAN]]
      /\ l.rdlock_owner \in Groups \cup {End} /\ l.wrlock_owner \in Groups \cup {End}
      /\ l = [readers_queue |-> q, writers_queue |-> l.writers_queue,
              rdlock_owner |-> l.rdlock_owner, wrlock_owner |-> l.wrlock_owner, group |-> l.group]
  BY DEF LockTypes
<1>2. i \in 1 .. Len(q) /\ DOMAIN q = 1 .. Len(q) /\ Len(q) \in Nat /\ q[i] \in Groups /\ q[Len(q)] \in Groups
  BY <1>1
<1>3. Position(q, l.rdlock_owner) = i
  BY <1>1, PositionIs
<1>4. l.rdlock_owner # End
  BY <1>2, GroupsAssumption
<1>5. n = [readers_queue |-> q, writers_queue |-> l.writers_queue,
           rdlock_owner |-> q[Len(q)], wrlock_owner |-> l.wrlock_owner, group |-> gr]
  BY <1>1, <1>3, <1>4 DEF GrantOwnershipToAllReaders, Last
<1>6. ASSUME NEW g \in Groups
      PROVE  /\ gr[g] \in [requests : Int, ownership : BOOLEAN]
             /\ gr[g].requests = l.group[g].requests
             /\ g \in granted => gr[g].ownership
             /\ g \notin granted => gr[g] = l.group[g]
  <2> HIDE DEF granted
  <2>1. l.group[g] \in [requests : Int, ownership : BOOLEAN]
    BY <1>1
  <2> QED  BY <2>1
<1>7. granted \subseteq Range(q) /\ Range(q) \subseteq Groups
  BY <1>1, <1>2 DEF Range
<1>8. \A j \in DOMAIN q : i <= j => q[j] \in granted /\ q[j] \in Groups
  BY <1>1, <1>2
<1> HIDE DEF granted
<1>9. /\ \A g \in Groups : gr[g].requests = l.group[g].requests /\ (Own(l, g) => gr[g].ownership)
      /\ \A j \in DOMAIN q : i <= j => gr[q[j]].ownership
      /\ \A g \in Groups : g \notin Range(q) => gr[g] = l.group[g]
  BY <1>6, <1>7, <1>8 DEF Own
<1>10. gr \in [Groups -> [requests : Int, ownership : BOOLEAN]]
  BY <1>6
<1> HIDE DEF gr
<1>11. LockTypes(n)
  <2>1. n \in [readers_queue : Seq(Groups), writers_queue : Seq(Groups),
             rdlock_owner : Groups \cup {End}, wrlock_owner : Groups \cup {End},
             group : [Groups -> [requests : Int, ownership : BOOLEAN]]]
    BY <1>1, <1>2, <1>5, <1>10
  <2> QED  BY <1>5, <1>9, <2>1 DEF LockTypes, ListedIn
<1> QED  BY <1>5, <1>9, <1>11 DEF Own

(* What the step from l to n does to readers that wait: a phase of writing *)
(* begins only after the readers before them, and they are all granted the *)
(* lock when it ends.                                                      *)
FairStep(l, n) ==
  /\ n.wrlock_owner \notin {End, l.wrlock_owner} =>
       \A h \in Range(n.readers_queue) : l.wrlock_owner = End /\ ~Own(l, h)
  /\ n.wrlock_owner = End /\ l.wrlock_owner # End =>
       \A h \in Range(n.readers_queue) : Own(n, h)

(* Group g has been dropped, and the lock passed on. *)
DroppedTo(l, g, n) ==
  /\ Phase(n) /\ FairStep(l, n)
  /\ Range(n.readers_queue) = Range(l.readers_queue) \ {g}
  /\ Range(n.writers_queue) = Range(l.writers_queue) \ {g}
  /\ n.group[g] = NoGroup
  /\ \A h \in Groups \ {g} : n.group[h].requests = l.group[h].requests /\ (Own(l, h) => Own(n, h))

LEMMA FieldTypes ==
  ASSUME NEW l, LockTypes(l)
  PROVE  /\ l.readers_queue \in Seq(Groups) /\ l.writers_queue \in Seq(Groups)
         /\ Unique(l.readers_queue) /\ Unique(l.writers_queue)
         /\ Range(l.readers_queue) \subseteq Groups /\ Range(l.writers_queue) \subseteq Groups
         /\ Range(l.readers_queue) \cap Range(l.writers_queue) = {}
         /\ l.rdlock_owner \in Groups \cup {End} /\ l.wrlock_owner \in Groups \cup {End}
         /\ l.group \in [Groups -> [requests : Int, ownership : BOOLEAN]]
<1>1. /\ l.readers_queue \in Seq(Groups) /\ l.writers_queue \in Seq(Groups)
      /\ l.rdlock_owner \in Groups \cup {End} /\ l.wrlock_owner \in Groups \cup {End}
      /\ l.group \in [Groups -> [requests : Int, ownership : BOOLEAN]]
  BY DEF LockTypes
<1> QED  BY <1>1, SequenceFacts DEF LockTypes

(* One of several owning groups of readers leaves. *)
LEMMA LeaveReadPhaseFacts ==
  ASSUME NEW l, LockTypes(l), Reading(l), NEW g \in Range(l.readers_queue), Own(l, g),
         l.rdlock_owner # First(l.readers_queue),
         NEW n, n = LeaveReadPhase(l, g)
  PROVE  DroppedTo(l, g, n)
<1>0. PICK q : q = l.readers_queue
  OBVIOUS
<1>1. /\ q \in Seq(Groups) /\ Unique(q) /\ l.writers_queue \in Seq(Groups)
      /\ Range(q) \subseteq Groups /\ Range(q) \cap Range(l.writers_queue) = {} /\ g \in Groups
  BY <1>0, FieldTypes
<1>2. PICK i \in DOMAIN q : ReadingTo(l, i)
  BY <1>0 DEF Reading
<1>3. PICK k \in DOMAIN q : q[k] = g
  BY <1>0 DEF Range
<1>4. /\ l.rdlock_owner = q[i] /\ k <= i
      /\ i = Len(q) \/ (i = Len(q) - 1 /\ l.writers_queue # <<>>)
      /\ \A j \in DOMAIN q : Own(l, q[j]) <=> j <= i
  BY <1>0, <1>2, <1>3 DEF ReadingTo
<1>5. DOMAIN q = 1 .. Len(q) /\ Len(q) \in Nat /\ i \in 1 .. Len(q) /\ k \in 1 .. Len(q) /\ i > 1
  <2>1. q # <<>> /\ i \in 1 .. Len(q) /\ DOMAIN q = 1 .. Len(q)
    BY <1>1
  <2> QED  BY <1>0, <1>4, <2>1 DEF First
<1>6. Position(q, g) = k
  BY <1>1, <1>3, PositionIs
<1>7. l.rdlock_owner = g <=> i = k
  BY <1>1, <1>3, <1>4 DEF Unique
<1>8. PICK o : o = IF i = k THEN q[k - 1] ELSE q[i]
  OBVIOUS
<1>9. PICK m : m = [l EXCEPT !.rdlock_owner = o]
  OBVIOUS
<1>10. /\ LockTypes(m) /\ m.rdlock_owner = o /\ m.wrlock_owner = l.wrlock_owner
       /\ m.readers_queue = q /\ m.writers_queue = l.writers_queue /\ m.group = l.group
  <2>1. o \in Groups
    BY <1>1, <1>4, <1>5, <1>8
  <2>2. /\ m.rdlock_owner = o /\ m.wrlock_owner = l.wrlock_owner
        /\ m.readers_queue = q /\ m.writers_queue = l.writers_queue /\ m.group = l.group
        /\ m \in [readers_queue : Seq(Groups), writers_queue : Seq(Groups),
             rdlock_owner : Groups \cup {End}, wrlock_owner : Groups \cup {End},
             group : [Groups -> [requests : Int, ownership : BOOLEAN]]]
    BY <1>0, <1>9, <2>1 DEF LockTypes
  <2> QED  BY <1>0, <2>2 DEF LockTypes, ListedIn
<1>11. PICK e : e = Erase(m, g)
  OBVIOUS
<1>12. /\ LockTypes(e) /\ e.rdlock_owner = o /\ e.wrlock_owner = End
       /\ e.readers_queue = Without(q, g) /\ e.writers_queue = l.writers_queue
       /\ Range(e.readers_queue) = Range(q) \ {g}
       /\ e.group[g] = NoGroup /\ \A h \in Groups \ {g} : e.group[h] = l.group[h]
  <2>1. g \notin Range(l.writers_queue) /\ l.wrlock_owner = End
    BY <1>1 DEF Reading
  <2>2. Without(l.writers_queue, g) = l.writers_queue
    BY <2>1 DEF Without
  <2>m. LockTypes(m) /\ g \in Groups
    BY <1>1, <1>10
  <2>3. /\ LockTypes(e)
        /\ e.rdlock_owner = m.rdlock_owner /\ e.wrlock_owner = m.wrlock_owner
        /\ e.readers_queue = Without(m.readers_queue, g)
        /\ e.writers_queue = Without(m.writers_queue, g)
        /\ Range(e.readers_queue) = Range(m.readers_queue) \ {g}
        /\ e.group[g] = NoGroup /\ \A h \in Groups \ {g} : e.group[h] = m.group[h]
    <3>1. LockTypes(e)
      BY <2>m, <1>11, EraseFacts
    <3>2. e.rdlock_owner = m.rdlock_owner /\ e.wrlock_owner = m.wrlock_owner
      BY <2>m, <1>11, EraseFacts
    <3>3. e.readers_queue = Without(m.readers_queue, g) /\ e.writers_queue = Without(m.writers_queue, g)
      BY <2>m, <1>11, EraseFacts
    <3>4. Range(e.readers_queue) = Range(m.readers_queue) \ {g}
      BY <2>m, <1>11, EraseFacts
    <3>5. e.group[g] = NoGroup /\ \A h \in Groups \ {g} : e.group[h] = m.group[h]
      BY <2>m, <1>11, EraseFacts
    <3> QED  BY <3>1, <3>2, <3>3, <3>4, <3>5
  <2> QED  BY <1>10, <2>1, <2>2, <2>3
<1>r. PICK r : r = e.readers_queue
  OBVIOUS
<1>13. /\ r \in Seq(Groups) /\ Unique(r) /\ Len(r) = Len(q) - 1
       /\ \A j \in 1 .. Len(q) - 1 : r[j] = q[IF j < k THEN j ELSE j + 1]
  <2>1. r = Without(q, g)
    BY <1>12, <1>r
  <2> QED  BY <1>1, <1>3, <2>1, WithoutFacts
<1>14. DOMAIN r = 1 .. Len(q) - 1
  BY <1>13
<1>15. i - 1 \in DOMAIN r /\ r[i - 1] = o
  BY <1>4, <1>5, <1>8, <1>13, <1>14
<1>16. ASSUME NEW j \in DOMAIN r
       PROVE  Own(e, r[j]) <=> j <= i - 1
  <2>1. PICK p \in DOMAIN q : p = (IF j < k THEN j ELSE j + 1) /\ r[j] = q[p] /\ p # k
    BY <1>5, <1>13, <1>14
  <2>2. q[p] # g /\ q[p] \in Groups
    BY <1>1, <1>3, <2>1 DEF Unique
  <2>3. e.group[q[p]] = l.group[q[p]]
    BY <1>12, <2>2
  <2>4. Own(e, r[j]) <=> p <= i
    BY <1>4, <2>1, <2>3 DEF Own
  <2>5. p <= i <=> j <= i - 1
    BY <1>4, <1>5, <1>14, <2>1
  <2> QED  BY <2>4, <2>5
<1>17. i - 1 = Len(r) \/ (i - 1 = Len(r) - 1 /\ e.writers_queue # <<>>)
  BY <1>4, <1>5, <1>12, <1>13
<1>18. \A h \in Range(e.writers_queue) : ~Own(e, h)
  <2> SUFFICES ASSUME NEW h \in Range(l.writers_queue) PROVE ~Own(e, h)
    BY <1>12
  <2>1. h \in Groups \ {g} /\ ~Own(l, h)
    BY <1>1, SequenceFacts DEF Reading
  <2> QED  BY <1>12, <2>1 DEF Own
<1>19. n = IF l.writers_queue = <<>> THEN GrantOwnershipToAllReaders(e) ELSE e
  BY <1>0, <1>4, <1>6, <1>7, <1>8, <1>9, <1>11 DEF LeaveReadPhase
<1>20. CASE l.writers_queue # <<>>
  <2>1. n = e
    BY <1>19, <1>20
  <2>2. ReadingTo(e, i - 1)
    BY <1>r, <1>12, <1>15, <1>16, <1>17 DEF ReadingTo
  <2>3. Reading(e)
    BY <1>r, <1>12, <1>15, <1>18, <2>2 DEF Reading
  <2> QED  BY <1>0, <1>1, <1>12, <2>1, <2>3 DEF DroppedTo, Phase, FairStep, Own, Reading
<1>21. CASE l.writers_queue = <<>>
  <2>1. n = GrantOwnershipToAllReaders(e) /\ i - 1 = Len(r)
    BY <1>12, <1>17, <1>19, <1>21
  <2>2. /\ LockTypes(n) /\ n.readers_queue = r /\ n.writers_queue = l.writers_queue
        /\ n.wrlock_owner = End /\ n.rdlock_owner = r[Len(r)]
        /\ \A h \in Groups : n.group[h].requests = e.group[h].requests /\ (Own(e, h) => Own(n, h))
        /\ \A h \in Groups : h \notin Range(r) => n.group[h] = e.group[h]
    BY <1>r, <1>12, <1>15, <2>1, GrantAllFacts
  <2>3. \A j \in DOMAIN r : Own(n, r[j]) /\ j <= i - 1
    BY <1>13, <1>14, <1>16, <2>1, <2>2
  <2>4. ReadingTo(n, i - 1)
    BY <2>1, <2>2, <2>3 DEF ReadingTo
  <2>5. Reading(n)
    BY <1>15, <1>21, <2>2, <2>4, EmptyRange DEF Reading
  <2>6. n.group[g] = NoGroup
    BY <1>r, <1>1, <1>12, <2>2
  <2>7. Range(n.readers_queue) = Range(l.readers_queue) \ {g} /\ Range(n.writers_queue) = Range(l.writers_queue) \ {g}
    BY <1>0, <1>r, <1>1, <1>12, <2>2
  <2>8. \A h \in Groups \ {g} : n.group[h].requests = l.group[h].requests /\ (Own(l, h) => Own(n, h))
    BY <1>12, <2>2 DEF Own
  <2>9. FairStep(l, n)
    BY <2>2 DEF FairStep, Reading
  <2> QED  BY <2>2, <2>5, <2>6, <2>7, <2>8, <2>9 DEF DroppedTo, Phase
<1> QED  BY <1>20, <1>21

(* Changes of one field. *)
LockRecord == [readers_queue : Seq(Groups), writers_queue : Seq(Groups),
               rdlock_owner : Groups \cup {End}, wrlock_owner : Groups \cup {End},
               group : [Groups -> [requests : Int, ownership : BOOLEAN]]]

LEMMA SetOwnersFacts ==
  ASSUME NEW l, LockTypes(l), NEW n, n \in LockRecord,
         n.readers_queue = l.readers_queue, n.writers_queue = l.writers_queue, n.group = l.group
  PROVE  LockTypes(n)
BY DEF LockTypes, ListedIn, LockRecord

(* A lock that differs from l in the group g only. *)
SameButGroup(l, g, n) ==
  /\ LockTypes(n)
  /\ n.rdlock_owner = l.rdlock_owner /\ n.wrlock_owner = l.wrlock_owner
  /\ n.readers_queue = l.readers_queue /\ n.writers_queue = l.writers_queue
  /\ \A h \in Groups \ {g} : n.group[h] = l.group[h]

LEMMA SetGroupFacts ==
  ASSUME NEW l, LockTypes(l), NEW g \in ListedIn(l), NEW n, n \in LockRecord,
         n.readers_queue = l.readers_queue, n.writers_queue = l.writers_queue,
         n.rdlock_owner = l.rdlock_owner, n.wrlock_owner = l.wrlock_owner,
         \A h \in Groups \ {g} : n.group[h] = l.group[h]
  PROVE  SameButGroup(l, g, n)
<1>1. \A h \in Groups : h \notin ListedIn(n) => n.group[h] = NoGroup
  BY DEF LockTypes, ListedIn
<1>2. LockTypes(n)
  BY <1>1 DEF LockTypes, LockRecord
<1> QED  BY <1>2 DEF SameButGroup

LEMMA GrantOwnershipFacts ==
  ASSUME NEW l, LockTypes(l), NEW g \in ListedIn(l), NEW n, n = GrantOwnership(l, g)
  PROVE  /\ SameButGroup(l, g, n)
         /\ Own(n, g) /\ n.group[g].requests = l.group[g].requests
<1>1. g \in Groups /\ l.group[g] \in [requests : Int, ownership : BOOLEAN]
  BY FieldTypes DEF ListedIn
<1>2. PICK x : x = [l.group[g] EXCEPT !.ownership = TRUE]
  OBVIOUS
<1>3. x \in [requests : Int, ownership : BOOLEAN] /\ x.ownership /\ x.requests = l.group[g].requests
  BY <1>1, <1>2
<1>4. /\ n.readers_queue = l.readers_queue /\ n.writers_queue = l.writers_queue
      /\ n.rdlock_owner = l.rdlock_owner /\ n.wrlock_owner = l.wrlock_owner
      /\ n.group[g] = x /\ \A h \in Groups \ {g} : n.group[h] = l.group[h]
  BY <1>1, <1>2 DEF GrantOwnership, LockTypes
<1>n. n \in LockRecord
  BY <1>1 DEF GrantOwnership, LockTypes, LockRecord
<1>5. SameButGroup(l, g, n) /\ n.group[g] = x
  BY <1>4, <1>n, SetGroupFacts
<1> QED  BY <1>3, <1>5 DEF Own

(* One request more or less. *)
SameShape(l, n) ==
  /\ LockTypes(n)
  /\ n.rdlock_owner = l.rdlock_owner /\ n.wrlock_owner = l.wrlock_owner
  /\ n.readers_queue = l.readers_queue /\ n.writers_queue = l.writers_queue
  /\ \A h \in Groups : Own(n, h) <=> Own(l, h)

LEMMA RequestFacts ==
  ASSUME NEW l, LockTypes(l), NEW g \in ListedIn(l), NEW n, NEW k \in {1, -1},
         k = 1 => n = AddRequest(l, g), k = -1 => n = DropRequest(l, g)
  PROVE  /\ SameShape(l, n) /\ n.group[g].requests = l.group[g].requests + k
         /\ \A h \in Groups \ {g} : n.group[h] = l.group[h]
<1>1. g \in Groups /\ l.group[g] \in [requests : Int, ownership : BOOLEAN]
  BY FieldTypes DEF ListedIn
<1>2. PICK x : x = IF k = 1 THEN [l.group[g] EXCEPT !.requests = @ + 1] ELSE [l.group[g] EXCEPT !.requests = @ - 1]
  OBVIOUS
<1>3. /\ x \in [requests : Int, ownership : BOOLEAN] /\ x.requests = l.group[g].requests + k
      /\ x.ownership = l.group[g].ownership
  BY <1>1, <1>2
<1>4. PICK f : f = [l.group EXCEPT ![g] = x]
  OBVIOUS
<1>5. /\ f \in [Groups -> [requests : Int, ownership : BOOLEAN]]
      /\ f[g] = x /\ \A h \in Groups \ {g} : f[h] = l.group[h]
  BY <1>1, <1>3, <1>4, FieldTypes
<1>6. n = [l EXCEPT !.group = f]
  <2>1. CASE k = 1
    BY <1>2, <1>4, <2>1 DEF AddRequest
  <2>2. CASE k = -1
    BY <1>2, <1>4, <2>2 DEF DropRequest
  <2> QED  BY <2>1, <2>2
<1>7. /\ n.readers_queue = l.readers_queue /\ n.writers_queue = l.writers_queue
      /\ n.rdlock_owner = l.rdlock_owner /\ n.wrlock_owner = l.wrlock_owner
      /\ n.group = f /\ n \in LockRecord
  BY <1>5, <1>6 DEF LockTypes, LockRecord
<1>8. SameButGroup(l, g, n) /\ n.group[g] = x
  BY <1>5, <1>7, SetGroupFacts
<1> QED  BY <1>3, <1>8 DEF Own, SameShape, SameButGroup

LEMMA SameShapePhase ==
  ASSUME NEW l, Phase(l), NEW n, SameShape(l, n)
  PROVE  /\ Phase(n) /\ (Reading(l) => Reading(n)) /\ (Writing(l) => Writing(n))
         /\ ListedIn(n) = ListedIn(l)
<1>1. LockTypes(l) /\ LockTypes(n)
  BY DEF Phase, SameShape
<1>2. /\ \A j \in DOMAIN l.readers_queue : l.readers_queue[j] \in Groups
      /\ \A j \in DOMAIN l.writers_queue : l.writers_queue[j] \in Groups
      /\ Range(l.readers_queue) \subseteq Groups /\ Range(l.writers_queue) \subseteq Groups
  BY <1>1, FieldTypes
<1>3. Reading(l) => Reading(n)
  <2> SUFFICES ASSUME Reading(l) PROVE Reading(n)
    OBVIOUS
  <2>1. PICK i \in DOMAIN l.readers_queue : ReadingTo(l, i)
    BY DEF Reading
  <2>2. ReadingTo(n, i)
    BY <1>2, <2>1 DEF ReadingTo, SameShape
  <2> QED  BY <1>2, <2>1, <2>2 DEF Reading, SameShape
<1>4. Writing(l) => Writing(n)
  BY <1>2 DEF Writing, SameShape
<1>5. Free(l) => Free(n)
  BY DEF Free, SameShape
<1>6. ListedIn(n) = ListedIn(l)
  BY DEF ListedIn, SameShape
<1> QED  BY <1>1, <1>3, <1>4, <1>5, <1>6 DEF Phase

(* Readers are admitted up to the last. *)
LEMMA ReadingUp ==
  ASSUME NEW l, LockTypes(l), NEW i \in DOMAIN l.readers_queue,
         l.rdlock_owner = l.readers_queue[i], l.wrlock_owner = End,
         \A j \in DOMAIN l.readers_queue : j < i => Own(l, l.readers_queue[j]),
         \A h \in Range(l.writers_queue) : ~Own(l, h),
         NEW n, n = GrantOwnershipToAllReaders(l)
  PROVE  /\ LockTypes(n) /\ Reading(n)
         /\ n.readers_queue = l.readers_queue /\ n.writers_queue = l.writers_queue
         /\ \A g \in Groups : n.group[g].requests = l.group[g].requests /\ (Own(l, g) => Own(n, g))
         /\ \A h \in Range(l.readers_queue) : Own(n, h)
<1>0. PICK q : q = l.readers_queue
  OBVIOUS
<1>1. /\ q \in Seq(Groups) /\ Range(l.writers_queue) \subseteq Groups
      /\ Range(q) \cap Range(l.writers_queue) = {}
  BY <1>0, FieldTypes
<1>2. /\ LockTypes(n)
      /\ n.readers_queue = q /\ n.writers_queue = l.writers_queue
      /\ n.wrlock_owner = End /\ n.rdlock_owner = q[Len(q)]
  BY <1>0, GrantAllFacts
<1>3. /\ \A g \in Groups : n.group[g].requests = l.group[g].requests /\ (Own(l, g) => Own(n, g))
      /\ \A j \in DOMAIN q : i <= j => Own(n, q[j])
      /\ \A g \in Groups : g \notin Range(q) => n.group[g] = l.group[g]
  BY <1>0, GrantAllFacts
<1>4. \A j \in DOMAIN q : Own(n, q[j]) /\ j <= Len(q)
  BY <1>0, <1>1, <1>3
<1>5. \A h \in Range(q) : Own(n, h)
  BY <1>4 DEF Range
<1>6. \A h \in Range(l.writers_queue) : ~Own(n, h)
  BY <1>1, <1>3 DEF Own
<1>7. Len(q) \in DOMAIN q
  BY <1>0, <1>1
<1>8. ReadingTo(n, Len(q))
  BY <1>2, <1>4 DEF ReadingTo
<1>9. Reading(n)
  BY <1>2, <1>6, <1>7, <1>8 DEF Reading
<1> QED  BY <1>0, <1>2, <1>3, <1>5, <1>9

(* The next phase begins when no group owns the lock. *)
LEMMA NextPhaseFacts ==
  ASSUME NEW l, LockTypes(l), l.rdlock_owner = End, l.wrlock_owner = End,
         \A h \in Groups : ~Own(l, h), Len(l.readers_queue) <= 1,
         NEW was, NEW n, n = NextPhase(l, was)
  PROVE  /\ Phase(n)
         /\ n.readers_queue = l.readers_queue /\ n.writers_queue = l.writers_queue
         /\ \A g \in Groups : n.group[g].requests = l.group[g].requests
         /\ n.wrlock_owner # End => was = "Read" \/ l.readers_queue = <<>>
         /\ n.wrlock_owner = End => \A h \in Range(l.readers_queue) : Own(n, h)
<1> DEFINE w == l.writers_queue # <<>> /\ (was = "Read" \/ l.readers_queue = <<>>)
<1>1. PICK r : r = (IF w THEN End ELSE First(l.readers_queue))
  OBVIOUS
<1>2. PICK o : o = (IF w THEN First(l.writers_queue) ELSE End)
  OBVIOUS
<1>3. /\ l.readers_queue \in Seq(Groups) /\ l.writers_queue \in Seq(Groups) /\ Unique(l.writers_queue)
      /\ Range(l.readers_queue) \subseteq Groups /\ Range(l.writers_queue) \subseteq Groups
      /\ Range(l.readers_queue) \cap Range(l.writers_queue) = {}
  BY FieldTypes
<1>4. r \in Groups \cup {End} /\ o \in Groups \cup {End}
  BY <1>1, <1>2, <1>3 DEF First
<1>5. PICK m : m = [l EXCEPT !.rdlock_owner = r, !.wrlock_owner = o]
  OBVIOUS
<1>6. /\ LockTypes(m) /\ m.rdlock_owner = r /\ m.wrlock_owner = o
      /\ m.readers_queue = l.readers_queue /\ m.writers_queue = l.writers_queue
      /\ m.group = l.group
  <2>1. /\ m \in LockRecord /\ m.rdlock_owner = r /\ m.wrlock_owner = o
        /\ m.readers_queue = l.readers_queue /\ m.writers_queue = l.writers_queue
        /\ m.group = l.group
    BY <1>4, <1>5 DEF LockTypes, LockRecord
  <2> QED  BY <2>1, SetOwnersFacts
<1>7. n = IF w THEN GrantOwnership(m, o) ELSE GrantOwnershipToAllReaders(m)
  BY <1>1, <1>2, <1>5, <1>6 DEF NextPhase
<1>8. CASE w
  <2>1. /\ l.writers_queue # <<>> /\ (was = "Read" \/ l.readers_queue = <<>>)
        /\ r = End /\ o = l.writers_queue[1] /\ 1 \in DOMAIN l.writers_queue
        /\ o \in Range(l.writers_queue)
    BY <1>1, <1>2, <1>3, <1>8, SequenceFacts DEF First
  <2>2. o \in ListedIn(m) /\ o \in Groups
    BY <1>3, <1>6, <2>1 DEF ListedIn
  <2>3. SameButGroup(m, o, n) /\ Own(n, o) /\ n.group[o].requests = m.group[o].requests
    BY <1>6, <1>7, <1>8, <2>2, GrantOwnershipFacts
  <2>4. /\ LockTypes(n) /\ n.rdlock_owner = End /\ n.wrlock_owner = o
        /\ n.readers_queue = l.readers_queue /\ n.writers_queue = l.writers_queue
        /\ \A h \in Groups \ {o} : n.group[h] = l.group[h]
    BY <1>6, <2>1, <2>3 DEF SameButGroup
  <2>5. \A h \in Groups : Own(n, h) <=> h = o
    BY <2>3, <2>4 DEF Own
  <2>6. \A j \in DOMAIN l.writers_queue : Own(n, l.writers_queue[j]) <=> j = 1
    BY <1>3, <2>1, <2>5 DEF Unique
  <2>7. \A h \in Range(l.readers_queue) : ~Own(n, h)
    BY <1>3, <2>1, <2>5
  <2>8. Writing(n)
    BY <2>1, <2>4, <2>6, <2>7 DEF Writing
  <2>9. o # End
    BY <2>2, GroupsAssumption
  <2> QED  BY <1>6, <2>1, <2>3, <2>4, <2>8, <2>9 DEF Phase
<1>9. CASE ~w /\ l.readers_queue # <<>>
  <2>1. 1 \in DOMAIN l.readers_queue /\ r = l.readers_queue[1] /\ o = End
    BY <1>1, <1>2, <1>3, <1>9 DEF First
  <2>2. \A h \in Range(m.writers_queue) : ~Own(m, h)
    BY <1>3, <1>6 DEF Own
  <2>3. n = GrantOwnershipToAllReaders(m)
    BY <1>7, <1>9
  <2>4. \A j \in DOMAIN m.readers_queue : j < 1 => Own(m, m.readers_queue[j])
    BY <1>3, <1>6
  <2>5. /\ LockTypes(n) /\ Reading(n)
        /\ n.readers_queue = m.readers_queue /\ n.writers_queue = m.writers_queue
    BY <1>6, <2>1, <2>2, <2>3, <2>4, ReadingUp
  <2>6. /\ \A g \in Groups : n.group[g].requests = m.group[g].requests /\ (Own(m, g) => Own(n, g))
        /\ \A h \in Range(m.readers_queue) : Own(n, h)
    BY <1>6, <2>1, <2>2, <2>3, <2>4, ReadingUp
  <2> QED  BY <1>6, <2>5, <2>6 DEF Phase, Reading
<1>10. CASE ~w /\ l.readers_queue = <<>>
  <2>1. r = End /\ o = End /\ l.writers_queue = <<>>
    BY <1>1, <1>2, <1>10 DEF First
  <2>2. n = m
    BY <1>6, <1>7, <1>10, <2>1 DEF GrantOwnershipToAllReaders
  <2> QED  BY <1>6, <1>10, <2>1, <2>2, EmptyRange DEF Phase, Free
<1> QED  BY <1>8, <1>9, <1>10

(* dropOwnerGroupAndPassOwnership() from a phase that group g owns. *)
OwnsAs(l, g, was) ==
  /\ Own(l, g)
  /\ \/ was = "Read" /\ g \in Range(l.readers_queue)
     \/ was = "Write" /\ g \in Range(l.writers_queue)

LEMMA LastOwnerLeaves ==
  ASSUME NEW l, LockTypes(l), NEW g \in Groups, NEW was, Own(l, g),
         \A h \in Groups \ {g} : ~Own(l, h),
         \/ was = "Read" /\ l.wrlock_owner = End
         \/ was = "Write" /\ l.wrlock_owner = g,
         NEW x, x = Without(l.readers_queue, g), Len(x) <= 1,
         NEW n, n = NextPhase(Erase([l EXCEPT !.rdlock_owner = End, !.wrlock_owner = End], g), was)
  PROVE  DroppedTo(l, g, n)
<1>1. PICK m : m = [l EXCEPT !.rdlock_owner = End, !.wrlock_owner = End]
  OBVIOUS
<1>2. /\ LockTypes(m) /\ m.rdlock_owner = End /\ m.wrlock_owner = End
      /\ m.readers_queue = l.readers_queue /\ m.writers_queue = l.writers_queue
      /\ m.group = l.group
  <2>1. /\ m \in LockRecord /\ m.rdlock_owner = End /\ m.wrlock_owner = End
        /\ m.readers_queue = l.readers_queue /\ m.writers_queue = l.writers_queue
        /\ m.group = l.group
    BY <1>1 DEF LockTypes, LockRecord
  <2> QED  BY <2>1, SetOwnersFacts
<1>3. PICK e : e = Erase(m, g)
  OBVIOUS
<1>4. LockTypes(e) /\ e.rdlock_owner = End /\ e.wrlock_owner = End
  BY <1>2, <1>3, EraseFacts
<1>5. e.readers_queue = x
  BY <1>2, <1>3, EraseFacts
<1>6. Range(e.readers_queue) = Range(l.readers_queue) \ {g} /\ Range(e.writers_queue) = Range(l.writers_queue) \ {g}
  <2>1. Range(e.readers_queue) = Range(m.readers_queue) \ {g}
    BY <1>2, <1>3, EraseFacts
  <2>2. Range(e.writers_queue) = Range(m.writers_queue) \ {g}
    BY <1>2, <1>3, EraseFacts
  <2> QED  BY <1>2, <2>1, <2>2
<1>7. e.group[g] = NoGroup /\ \A h \in Groups \ {g} : e.group[h] = l.group[h]
  BY <1>2, <1>3, EraseFacts
<1>8. \A h \in Groups : ~Own(e, h)
  BY <1>7 DEF Own, NoGroup
<1>9. n = NextPhase(e, was)
  BY <1>1, <1>3
<1>10. /\ Phase(n)
       /\ n.readers_queue = e.readers_queue /\ n.writers_queue = e.writers_queue
       /\ \A h \in Groups : n.group[h].requests = e.group[h].requests
       /\ n.wrlock_owner # End => was = "Read" \/ e.readers_queue = <<>>
       /\ n.wrlock_owner = End => \A h \in Range(e.readers_queue) : Own(n, h)
  BY <1>4, <1>5, <1>8, <1>9, NextPhaseFacts
<1>11. n.group[g] = NoGroup
  BY <1>6, <1>10 DEF Phase, LockTypes, ListedIn
<1>12. FairStep(l, n)
  <2>1. Range(n.readers_queue) \subseteq Groups \ {g}
    BY <1>6, <1>10, FieldTypes
  <2>2. CASE was = "Read" /\ l.wrlock_owner = End
    BY <2>1, <2>2 DEF FairStep
  <2>3. CASE was = "Write" /\ l.wrlock_owner = g
    BY <1>10, <2>3, EmptyRange DEF FairStep
  <2> QED  BY <2>2, <2>3
<1>13. \A h \in Groups \ {g} : n.group[h].requests = l.group[h].requests /\ (Own(l, h) => Own(n, h))
  BY <1>7, <1>10
<1> QED  BY <1>6, <1>10, <1>11, <1>12, <1>13 DEF DroppedTo

(* Only listed groups own the lock. *)
LEMMA OwnersAreListed ==
  ASSUME NEW l, LockTypes(l), NEW g \in Groups, Own(l, g)
  PROVE  g \in ListedIn(l)
BY DEF LockTypes, Own, NoGroup

LEMMA DropFacts ==
  ASSUME NEW l, Phase(l), NEW g \in Groups, NEW was, OwnsAs(l, g, was),
         NEW n, n = DropOwnerGroupAndPassOwnership(l, g, was)
  PROVE  DroppedTo(l, g, n)
<1>1. LockTypes(l) /\ Own(l, g)
  BY DEF Phase, OwnsAs
<1>2. /\ l.readers_queue \in Seq(Groups) /\ l.writers_queue \in Seq(Groups)
      /\ Unique(l.readers_queue) /\ Unique(l.writers_queue)
      /\ Range(l.readers_queue) \subseteq Groups /\ Range(l.writers_queue) \subseteq Groups
      /\ Range(l.readers_queue) \cap Range(l.writers_queue) = {}
  BY <1>1, FieldTypes
<1>3. ~Free(l)
  BY EmptyRange DEF Free, OwnsAs
<1>4. PICK x : x = Without(l.readers_queue, g)
  OBVIOUS
<1>5. CASE Reading(l)
  <2>1. was = "Read" /\ g \in Range(l.readers_queue)
    BY <1>5 DEF OwnsAs, Reading
  <2>2. PICK i \in DOMAIN l.readers_queue : ReadingTo(l, i)
    BY <1>5 DEF Reading
  <2>3. l.rdlock_owner \in Groups /\ l.rdlock_owner # End /\ l.readers_queue # <<>>
    BY <1>2, <2>2, GroupsAssumption DEF ReadingTo
  <2>4. CASE l.rdlock_owner # First(l.readers_queue)
    <3>1. n = LeaveReadPhase(l, g)
      BY <2>1, <2>3, <2>4 DEF DropOwnerGroupAndPassOwnership
    <3> QED  BY <1>1, <1>5, <2>1, <2>4, <3>1, LeaveReadPhaseFacts
  <2>5. CASE l.rdlock_owner = First(l.readers_queue)
    <3>1. n = NextPhase(Erase([l EXCEPT !.rdlock_owner = End, !.wrlock_owner = End], g), was)
      BY <2>5 DEF DropOwnerGroupAndPassOwnership
    <3>2. i = 1 /\ 1 \in DOMAIN l.readers_queue
      <4>1. 1 \in DOMAIN l.readers_queue
        BY <1>2, <2>3
      <4>2. l.readers_queue[i] = l.readers_queue[1]
        BY <2>2, <2>3, <2>5 DEF First, ReadingTo
      <4> QED  BY <1>2, <4>1, <4>2 DEF Unique
    <3>3. Len(l.readers_queue) <= 2
      BY <1>2, <2>2, <3>2 DEF ReadingTo
    <3>4. PICK k \in DOMAIN l.readers_queue : l.readers_queue[k] = g
      BY <2>1 DEF Range
    <3>5. Len(x) = Len(l.readers_queue) - 1
      BY <1>2, <1>4, <3>4, WithoutFacts
    <3>6. Len(x) <= 1
      BY <1>2, <3>3, <3>5
    <3>7. k = 1
      BY <1>1, <1>2, <2>2, <3>2, <3>4 DEF ReadingTo
    <3>8. \A h \in Range(l.readers_queue) : Own(l, h) => h = g
      BY <1>2, <2>2, <3>2, <3>4, <3>7 DEF ReadingTo, Range
    <3>9. \A h \in Groups \ {g} : ~Own(l, h)
      BY <1>1, <1>5, <3>8, OwnersAreListed DEF ListedIn, Reading
    <3>10. l.wrlock_owner = End
      BY <1>5 DEF Reading
    <3> QED  BY <1>1, <1>4, <2>1, <3>1, <3>6, <3>9, <3>10, LastOwnerLeaves
  <2> QED  BY <2>4, <2>5
<1>6. CASE Writing(l)
  <2>1. was = "Write" /\ g \in Range(l.writers_queue) /\ l.rdlock_owner = End
    BY <1>6 DEF OwnsAs, Writing
  <2>2. n = NextPhase(Erase([l EXCEPT !.rdlock_owner = End, !.wrlock_owner = End], g), was)
    BY <2>1 DEF DropOwnerGroupAndPassOwnership
  <2>3. PICK k \in DOMAIN l.writers_queue : l.writers_queue[k] = g
    BY <2>1 DEF Range
  <2>4. k = 1 /\ l.wrlock_owner = g
    BY <1>1, <1>6, <2>3 DEF Writing
  <2>5. \A h \in Range(l.writers_queue) : Own(l, h) => h = g
    BY <1>6, <2>3, <2>4 DEF Writing, Range
  <2>6. \A h \in Groups \ {g} : ~Own(l, h)
    BY <1>1, <1>6, <2>5, OwnersAreListed DEF ListedIn, Writing
  <2>7. g \notin Range(l.readers_queue)
    BY <1>2, <2>1
  <2>8. x = l.readers_queue /\ Len(x) <= 1
    BY <1>4, <1>6, <2>7 DEF Without, Writing
  <2> QED  BY <1>1, <1>4, <2>1, <2>2, <2>4, <2>6, <2>8, LastOwnerLeaves
<1> QED  BY <1>3, <1>5, <1>6 DEF Phase

(* Steps 1 and 2 of getLock() for a request with a new group. *)
Added(l, t, g) ==
  IF t = "Read" THEN [l EXCEPT !.readers_queue = Append(@, g)]
  ELSE [l EXCEPT !.writers_queue = Append(@, g)]

Taken(l, t, g) ==
  IF ~(l.rdlock_owner = End /\ l.wrlock_owner = End) THEN l
  ELSE GrantOwnership(IF t = "Read" THEN [l EXCEPT !.rdlock_owner = g]
                      ELSE [l EXCEPT !.wrlock_owner = g], g)

EnteredTo(l, t, g, n) ==
  /\ Phase(n) /\ FairStep(l, n)
  /\ Range(n.readers_queue) = Range(l.readers_queue) \cup (IF t = "Read" THEN {g} ELSE {})
  /\ Range(n.writers_queue) = Range(l.writers_queue) \cup (IF t = "Write" THEN {g} ELSE {})
  /\ \A h \in Groups : n.group[h].requests = l.group[h].requests /\ (Own(l, h) => Own(n, h))

LEMMA AddedFacts ==
  ASSUME NEW l, LockTypes(l), NEW t \in {"Read", "Write"}, NEW g \in Groups \ ListedIn(l),
         NEW n, n = Added(l, t, g)
  PROVE  /\ LockTypes(n)
         /\ n.rdlock_owner = l.rdlock_owner /\ n.wrlock_owner = l.wrlock_owner
         /\ n.group = l.group
         /\ t = "Read" => n.readers_queue = Append(l.readers_queue, g) /\ n.writers_queue = l.writers_queue
         /\ t = "Write" => n.writers_queue = Append(l.writers_queue, g) /\ n.readers_queue = l.readers_queue
         /\ Range(n.readers_queue) = Range(l.readers_queue) \cup (IF t = "Read" THEN {g} ELSE {})
         /\ Range(n.writers_queue) = Range(l.writers_queue) \cup (IF t = "Write" THEN {g} ELSE {})
<1>1. /\ l.readers_queue \in Seq(Groups) /\ l.writers_queue \in Seq(Groups)
      /\ Unique(l.readers_queue) /\ Unique(l.writers_queue)
      /\ g \notin Range(l.readers_queue) /\ g \notin Range(l.writers_queue) /\ g \in Groups
      /\ Range(l.readers_queue) \cap Range(l.writers_queue) = {}
  BY FieldTypes DEF ListedIn
<1>2. /\ Append(l.readers_queue, g) \in Seq(Groups) /\ Unique(Append(l.readers_queue, g))
      /\ Range(Append(l.readers_queue, g)) = Range(l.readers_queue) \cup {g}
      /\ Append(l.writers_queue, g) \in Seq(Groups) /\ Unique(Append(l.writers_queue, g))
      /\ Range(Append(l.writers_queue, g)) = Range(l.writers_queue) \cup {g}
  BY <1>1, SequenceFacts, UniqueAppend
<1>3. /\ n.rdlock_owner = l.rdlock_owner /\ n.wrlock_owner = l.wrlock_owner /\ n.group = l.group
      /\ n.readers_queue = IF t = "Read" THEN Append(l.readers_queue, g) ELSE l.readers_queue
      /\ n.writers_queue = IF t = "Write" THEN Append(l.writers_queue, g) ELSE l.writers_queue
      /\ n \in LockRecord
  <2>1. CASE t = "Read"
    BY <1>2, <2>1 DEF Added, LockTypes, LockRecord
  <2>2. CASE t = "Write"
    BY <1>2, <2>2 DEF Added, LockTypes, LockRecord
  <2> QED  BY <2>1, <2>2
<1>4. /\ Range(n.readers_queue) = Range(l.readers_queue) \cup (IF t = "Read" THEN {g} ELSE {})
      /\ Range(n.writers_queue) = Range(l.writers_queue) \cup (IF t = "Write" THEN {g} ELSE {})
  BY <1>2, <1>3
<1>5. Unique(n.readers_queue) /\ Unique(n.writers_queue)
  BY <1>1, <1>2, <1>3
<1>6. Range(n.readers_queue) \cap Range(n.writers_queue) = {}
  BY <1>1, <1>4
<1>7. \A h \in Groups : h \notin ListedIn(n) => n.group[h] = NoGroup
  BY <1>3, <1>4 DEF LockTypes, ListedIn
<1>8. LockTypes(n)
  BY <1>3, <1>5, <1>6, <1>7 DEF LockTypes, LockRecord
<1> QED  BY <1>3, <1>4, <1>8

LEMMA NotFree ==
  ASSUME NEW l, Phase(l), ~Free(l)
  PROVE  ~(l.rdlock_owner = End /\ l.wrlock_owner = End)
<1>1. l.readers_queue \in Seq(Groups) /\ l.writers_queue \in Seq(Groups)
  BY FieldTypes DEF Phase
<1>2. CASE Reading(l)
  BY <1>1, <1>2, GroupsAssumption DEF Reading, ReadingTo
<1>3. CASE Writing(l)
  <2>1. l.writers_queue[1] \in Groups
    BY <1>1, <1>3 DEF Writing
  <2> QED  BY <1>3, <2>1, GroupsAssumption DEF Writing
<1> QED  BY <1>2, <1>3 DEF Phase

(* The lock is not free: the new group waits behind the others. *)
LEMMA NewGroupWaits ==
  ASSUME NEW l, Phase(l), ~Free(l), NEW t \in {"Read", "Write"}, NEW g \in Groups \ ListedIn(l),
         t = "Read" => ~(/\ l.readers_queue # <<>>
                         /\ \/ ~Own(l, Last(l.readers_queue))
                            \/ l.writers_queue = <<>>),
         NEW n, n = Taken(Added(l, t, g), t, g)
  PROVE  EnteredTo(l, t, g, n) /\ n.group[g] = NoGroup
<1>0. LockTypes(l)
  BY DEF Phase
<1>1. PICK a : a = Added(l, t, g)
  OBVIOUS
<1>2. LockTypes(a) /\ a.rdlock_owner = l.rdlock_owner /\ a.wrlock_owner = l.wrlock_owner /\ a.group = l.group
  BY <1>0, <1>1, AddedFacts
<1>3. /\ t = "Read" => a.readers_queue = Append(l.readers_queue, g) /\ a.writers_queue = l.writers_queue
      /\ t = "Write" => a.writers_queue = Append(l.writers_queue, g) /\ a.readers_queue = l.readers_queue
  <2>1. t = "Read" => a.readers_queue = Append(l.readers_queue, g) /\ a.writers_queue = l.writers_queue
    BY <1>0, <1>1, AddedFacts
  <2>2. t = "Write" => a.writers_queue = Append(l.writers_queue, g) /\ a.readers_queue = l.readers_queue
    BY <1>0, <1>1, AddedFacts
  <2> QED  BY <2>1, <2>2
<1>4. /\ Range(a.readers_queue) = Range(l.readers_queue) \cup (IF t = "Read" THEN {g} ELSE {})
      /\ Range(a.writers_queue) = Range(l.writers_queue) \cup (IF t = "Write" THEN {g} ELSE {})
  <2>1. Range(a.readers_queue) = Range(l.readers_queue) \cup (IF t = "Read" THEN {g} ELSE {})
    BY <1>0, <1>1, AddedFacts
  <2>2. Range(a.writers_queue) = Range(l.writers_queue) \cup (IF t = "Write" THEN {g} ELSE {})
    BY <1>0, <1>1, AddedFacts
  <2> QED  BY <2>1, <2>2
<1>5. /\ l.readers_queue \in Seq(Groups) /\ l.writers_queue \in Seq(Groups)
      /\ Range(l.readers_queue) \subseteq Groups /\ Range(l.writers_queue) \subseteq Groups
  BY <1>0, FieldTypes
<1>6. ~(l.rdlock_owner = End /\ l.wrlock_owner = End)
  BY NotFree
<1>7. n = a
  BY <1>1, <1>2, <1>6 DEF Taken
<1>8. l.group[g] = NoGroup /\ ~Own(a, g) /\ g \in Groups
  BY <1>0, <1>2 DEF LockTypes, Own, NoGroup
<1>9. \A h \in Groups : Own(a, h) <=> Own(l, h)
  BY <1>2 DEF Own
<1>10. CASE Reading(l)
  <2>1. PICK i \in DOMAIN l.readers_queue : ReadingTo(l, i)
    BY <1>10 DEF Reading
  <2>2. \A h \in Range(a.writers_queue) : ~Own(a, h)
    BY <1>4, <1>5, <1>8, <1>9, <1>10 DEF Reading
  <2>3. ASSUME t = "Write" PROVE Reading(a)
    <3>1. a.writers_queue # <<>> /\ a.readers_queue = l.readers_queue
      BY <1>3, <1>5, <2>3
    <3>2. ReadingTo(a, i)
      BY <1>2, <1>5, <1>9, <2>1, <3>1 DEF ReadingTo
    <3> QED  BY <1>2, <1>10, <2>1, <2>2, <3>1, <3>2 DEF Reading
  <2>4. ASSUME t = "Read" PROVE Reading(a)
    <3>1. i = Len(l.readers_queue) /\ l.writers_queue # <<>>
      <4>1. l.readers_queue # <<>> /\ Len(l.readers_queue) \in DOMAIN l.readers_queue
        BY <1>5, <2>1
      <4>2. Own(l, l.readers_queue[Len(l.readers_queue)]) /\ l.writers_queue # <<>>
        BY <2>4, <4>1 DEF Last
      <4> QED  BY <1>5, <2>1, <4>1, <4>2 DEF ReadingTo
    <3>2. PICK r : r = a.readers_queue
      OBVIOUS
    <3>3. /\ Len(r) = Len(l.readers_queue) + 1 /\ DOMAIN r = 1 .. Len(l.readers_queue) + 1
          /\ r[Len(l.readers_queue) + 1] = g /\ Len(l.readers_queue) \in Nat
      BY <1>3, <1>5, <2>4, <3>2
    <3>4. \A j \in 1 .. Len(l.readers_queue) : r[j] = l.readers_queue[j] /\ r[j] \in Groups
      BY <1>3, <1>5, <2>4, <3>2
    <3>5. DOMAIN l.readers_queue = 1 .. Len(l.readers_queue)
      BY <1>5
    <3>6. i \in DOMAIN r /\ r[i] = l.readers_queue[i] /\ i = Len(r) - 1
      BY <3>1, <3>3, <3>4, <3>5
    <3>7. ASSUME NEW j \in DOMAIN r PROVE Own(a, r[j]) <=> j <= i
      <4>1. CASE j \in 1 .. Len(l.readers_queue)
        <5>1. Own(l, l.readers_queue[j]) <=> j <= i
          BY <2>1, <3>5, <4>1 DEF ReadingTo
        <5> QED  BY <1>9, <3>4, <4>1, <5>1
      <4>2. CASE j = Len(l.readers_queue) + 1
        BY <1>8, <3>1, <3>3, <4>2
      <4> QED  BY <3>3, <4>1, <4>2
    <3>8. a.writers_queue = l.writers_queue
      BY <1>3, <2>4
    <3>9. ReadingTo(a, i)
      BY <1>2, <2>1, <3>1, <3>2, <3>6, <3>7, <3>8 DEF ReadingTo
    <3> QED  BY <1>2, <1>10, <2>2, <3>2, <3>6, <3>9 DEF Reading
  <2>5. Reading(a)
    BY <2>3, <2>4
  <2> QED  BY <1>2, <1>4, <1>7, <1>8, <1>9, <2>5 DEF EnteredTo, Phase, FairStep, Reading
<1>11. CASE Writing(l)
  <2>1. \A h \in Range(a.readers_queue) : ~Own(a, h)
    BY <1>4, <1>5, <1>8, <1>9, <1>11 DEF Writing
  <2>2. Len(a.readers_queue) <= 1
    <3>1. CASE t = "Write"
      BY <1>3, <1>11, <3>1 DEF Writing
    <3>2. CASE t = "Read"
      <4>1. l.readers_queue = <<>>
        <5> SUFFICES ASSUME l.readers_queue # <<>> PROVE FALSE
          OBVIOUS
        <5>1. l.readers_queue[Len(l.readers_queue)] \in Range(l.readers_queue)
          BY <1>5 DEF Range
        <5> QED  BY <1>11, <3>2, <5>1 DEF Writing, Last
      <4>2. Len(Append(l.readers_queue, g)) = 1
        BY <1>8, <4>1
      <4> QED  BY <1>3, <3>2, <4>2
    <3> QED  BY <3>1, <3>2
  <2>3. /\ 1 \in DOMAIN l.writers_queue /\ a.writers_queue # <<>>
        /\ a.writers_queue[1] = l.writers_queue[1]
        /\ \A j \in DOMAIN a.writers_queue : j \in DOMAIN l.writers_queue \/ a.writers_queue[j] = g
        /\ \A j \in DOMAIN l.writers_queue : a.writers_queue[j] = l.writers_queue[j] /\ a.writers_queue[j] \in Groups
    <3>1. l.writers_queue # <<>> /\ Len(l.writers_queue) \in Nat \ {0}
      BY <1>5, <1>11 DEF Writing
    <3>2. CASE t = "Read"
      BY <1>3, <1>5, <3>1, <3>2
    <3>3. CASE t = "Write"
      <4>1. PICK q : q = l.writers_queue
        OBVIOUS
      <4>2. q \in Seq(Groups) /\ Len(q) \in Nat \ {0} /\ a.writers_queue = Append(q, g) /\ DOMAIN q = 1 .. Len(q)
        BY <1>3, <1>5, <3>1, <3>3, <4>1
      <4>3. DOMAIN Append(q, g) = 1 .. (Len(q) + 1) /\ Append(q, g)[Len(q) + 1] = g
        BY <1>8, <4>2
      <4>4. \A j \in 1 .. Len(q) : Append(q, g)[j] = q[j] /\ q[j] \in Groups
        BY <1>8, <4>2
      <4>5. \A j \in 1 .. (Len(q) + 1) : j \in 1 .. Len(q) \/ j = Len(q) + 1
        BY <4>2
      <4>6. Append(q, g) # <<>> /\ 1 \in 1 .. Len(q)
        BY <1>8, <4>2
      <4> QED  BY <4>1, <4>2, <4>3, <4>4, <4>5, <4>6
    <3> QED  BY <3>2, <3>3
  <2>4. ASSUME NEW j \in DOMAIN a.writers_queue PROVE Own(a, a.writers_queue[j]) <=> j = 1
    <3>1. CASE j \in DOMAIN l.writers_queue
      <4>1. Own(l, l.writers_queue[j]) <=> j = 1
        BY <1>11, <3>1 DEF Writing
      <4> QED  BY <1>9, <2>3, <3>1, <4>1
    <3>2. CASE j \notin DOMAIN l.writers_queue
      BY <1>8, <2>3, <3>2
    <3> QED  BY <3>1, <3>2
  <2>5. Writing(a)
    BY <1>2, <1>11, <2>1, <2>2, <2>3, <2>4 DEF Writing
  <2> QED  BY <1>2, <1>4, <1>6, <1>7, <1>8, <1>9, <2>5 DEF EnteredTo, Phase, FairStep, Writing
<1> QED  BY <1>10, <1>11 DEF Phase

(* The lock is free: the new group takes it. *)
LEMMA NewGroupTakes ==
  ASSUME NEW l, Phase(l), Free(l), NEW t \in {"Read", "Write"}, NEW g \in Groups,
         NEW n, n = Taken(Added(l, t, g), t, g)
  PROVE  EnteredTo(l, t, g, n) /\ n.group[g].requests = 0 /\ Own(n, g)
<1>0. /\ LockTypes(l) /\ l.readers_queue = <<>> /\ l.writers_queue = <<>>
      /\ l.rdlock_owner = End /\ l.wrlock_owner = End /\ ListedIn(l) = {}
  BY EmptyRange DEF Phase, Free, ListedIn
<1>1. PICK a : a = Added(l, t, g)
  OBVIOUS
<1>2. LockTypes(a) /\ a.rdlock_owner = End /\ a.wrlock_owner = End /\ a.group = l.group
  BY <1>0, <1>1, AddedFacts
<1>3. /\ t = "Read" => a.readers_queue = <<g>> /\ a.writers_queue = <<>>
      /\ t = "Write" => a.writers_queue = <<g>> /\ a.readers_queue = <<>>
  <2>1. t = "Read" => a.readers_queue = Append(l.readers_queue, g) /\ a.writers_queue = l.writers_queue
    BY <1>0, <1>1, AddedFacts
  <2>2. t = "Write" => a.writers_queue = Append(l.writers_queue, g) /\ a.readers_queue = l.readers_queue
    BY <1>0, <1>1, AddedFacts
  <2> QED  BY <1>0, <2>1, <2>2
<1>4. Range(<<g>>) = {g} /\ DOMAIN <<g>> = {1} /\ <<g>>[1] = g /\ Len(<<g>>) = 1 /\ <<g>> # <<>>
  <2>1. DOMAIN <<g>> = {1} /\ <<g>>[1] = g /\ Len(<<g>>) = 1 /\ <<g>> # <<>>
    OBVIOUS
  <2> QED  BY <2>1 DEF Range
<1>5. PICK m : m = IF t = "Read" THEN [a EXCEPT !.rdlock_owner = g] ELSE [a EXCEPT !.wrlock_owner = g]
  OBVIOUS
<1>6. /\ LockTypes(m) /\ m.readers_queue = a.readers_queue /\ m.writers_queue = a.writers_queue
      /\ m.group = l.group
      /\ t = "Read" => m.rdlock_owner = g /\ m.wrlock_owner = End
      /\ t = "Write" => m.wrlock_owner = g /\ m.rdlock_owner = End
  <2>1. /\ m \in LockRecord /\ m.readers_queue = a.readers_queue /\ m.writers_queue = a.writers_queue
        /\ m.group = a.group
        /\ t = "Read" => m.rdlock_owner = g /\ m.wrlock_owner = a.wrlock_owner
        /\ t = "Write" => m.wrlock_owner = g /\ m.rdlock_owner = a.rdlock_owner
    <3>1. CASE t = "Read"
      BY <1>2, <1>5, <3>1 DEF LockTypes, LockRecord
    <3>2. CASE t = "Write"
      BY <1>2, <1>5, <3>2 DEF LockTypes, LockRecord
    <3> QED  BY <3>1, <3>2
  <2> QED  BY <1>2, <2>1, SetOwnersFacts
<1>7. n = GrantOwnership(m, g)
  BY <1>1, <1>2, <1>5 DEF Taken
<1>8. g \in ListedIn(m)
  BY <1>3, <1>4, <1>6 DEF ListedIn
<1>9. SameButGroup(m, g, n) /\ Own(n, g) /\ n.group[g].requests = m.group[g].requests
  BY <1>6, <1>7, <1>8, GrantOwnershipFacts
<1>10. /\ LockTypes(n) /\ n.readers_queue = a.readers_queue /\ n.writers_queue = a.writers_queue
       /\ n.rdlock_owner = m.rdlock_owner /\ n.wrlock_owner = m.wrlock_owner
       /\ \A h \in Groups \ {g} : n.group[h] = l.group[h]
  BY <1>6, <1>9 DEF SameButGroup
<1>11. /\ \A h \in Groups : n.group[h].requests = l.group[h].requests
       /\ \A h \in Groups : l.group[h] = NoGroup
  BY <1>0, <1>6, <1>9, <1>10 DEF LockTypes
<1>12. \A h \in Groups : Own(l, h) => Own(n, h)
  BY <1>9, <1>10 DEF Own
<1>13. n.group[g].requests = 0
  BY <1>11 DEF NoGroup
<1>14. CASE t = "Read"
  <2>1. n.readers_queue = <<g>> /\ n.writers_queue = <<>> /\ n.rdlock_owner = g /\ n.wrlock_owner = End
    BY <1>3, <1>6, <1>10, <1>14
  <2>2. ReadingTo(n, 1)
    BY <1>4, <1>9, <2>1 DEF ReadingTo
  <2>3. Reading(n)
    BY <1>4, <2>1, <2>2, EmptyRange DEF Reading
  <2>4. FairStep(l, n)
    BY <1>0, <2>1 DEF FairStep
  <2> QED  BY <1>0, <1>4, <1>9, <1>10, <1>11, <1>12, <1>13, <1>14, <2>1, <2>3, <2>4, EmptyRange DEF EnteredTo, Phase
<1>15. CASE t = "Write"
  <2>1. n.readers_queue = <<>> /\ n.writers_queue = <<g>> /\ n.wrlock_owner = g /\ n.rdlock_owner = End
    BY <1>3, <1>6, <1>10, <1>15
  <2>2. Len(n.readers_queue) <= 1
    BY <2>1
  <2>3. Writing(n)
    BY <1>4, <1>9, <2>1, <2>2, EmptyRange DEF Writing
  <2>4. FairStep(l, n)
    BY <1>0, <2>1, EmptyRange DEF FairStep
  <2> QED  BY <1>0, <1>4, <1>9, <1>10, <1>11, <1>12, <1>13, <1>15, <2>1, <2>3, <2>4, EmptyRange DEF EnteredTo, Phase
<1> QED  BY <1>14, <1>15

(* Step 3a of getLock(): readers are admitted if no writer waits any more. *)
LEMMA GiveUpReading ==
  ASSUME NEW l, LockTypes(l), l.wrlock_owner = End, NEW i \in DOMAIN l.readers_queue,
         l.rdlock_owner = l.readers_queue[i],
         i = Len(l.readers_queue) \/ i = Len(l.readers_queue) - 1,
         \A j \in DOMAIN l.readers_queue : Own(l, l.readers_queue[j]) <=> j <= i,
         \A h \in Range(l.writers_queue) : ~Own(l, h),
         NEW n, n = GiveUp(l)
  PROVE  /\ LockTypes(n) /\ Reading(n)
         /\ n.readers_queue = l.readers_queue /\ n.writers_queue = l.writers_queue
         /\ \A g \in Groups : n.group[g].requests = l.group[g].requests /\ (Own(l, g) => Own(n, g))
<1>1. l.readers_queue \in Seq(Groups)
  BY FieldTypes
<1>2. l.rdlock_owner \in Groups
  BY <1>1
<1>3. l.rdlock_owner # End
  BY <1>2, GroupsAssumption
<1>4. CASE l.writers_queue # <<>>
  <2>1. n = l
    BY <1>4 DEF GiveUp
  <2>2. ReadingTo(l, i)
    BY <1>4 DEF ReadingTo
  <2> QED  BY <2>1, <2>2 DEF Reading
<1>5. CASE l.writers_queue = <<>>
  <2>1. n = GrantOwnershipToAllReaders(l)
    BY <1>3, <1>5 DEF GiveUp
  <2>2. \A j \in DOMAIN l.readers_queue : j < i => Own(l, l.readers_queue[j])
    BY <1>1
  <2>3. /\ LockTypes(n) /\ Reading(n)
        /\ n.readers_queue = l.readers_queue /\ n.writers_queue = l.writers_queue
    BY <2>1, <2>2, ReadingUp
  <2>4. \A g \in Groups : n.group[g].requests = l.group[g].requests /\ (Own(l, g) => Own(n, g))
    BY <2>1, <2>2, ReadingUp
  <2> QED  BY <2>3, <2>4
<1> QED  BY <1>4, <1>5

LEMMA GiveUpStays ==
  ASSUME NEW l, Phase(l), NEW n, n = GiveUp(l)
  PROVE  /\ Phase(n) /\ FairStep(l, n)
         /\ n.readers_queue = l.readers_queue /\ n.writers_queue = l.writers_queue
         /\ \A g \in Groups : n.group[g].requests = l.group[g].requests /\ (Own(l, g) => Own(n, g))
<1>1. CASE Reading(l)
  <2>1. PICK i \in DOMAIN l.readers_queue : ReadingTo(l, i)
    BY <1>1 DEF Reading
  <2>2. /\ LockTypes(l) /\ l.wrlock_owner = End /\ l.rdlock_owner = l.readers_queue[i]
        /\ i = Len(l.readers_queue) \/ i = Len(l.readers_queue) - 1
        /\ \A j \in DOMAIN l.readers_queue : Own(l, l.readers_queue[j]) <=> j <= i
        /\ \A h \in Range(l.writers_queue) : ~Own(l, h)
    BY <1>1, <2>1 DEF Phase, Reading, ReadingTo
  <2>3. LockTypes(n) /\ Reading(n)
    BY <2>2, GiveUpReading
  <2>4. n.readers_queue = l.readers_queue /\ n.writers_queue = l.writers_queue
    BY <2>2, GiveUpReading
  <2>5. \A g \in Groups : n.group[g].requests = l.group[g].requests /\ (Own(l, g) => Own(n, g))
    BY <2>2, GiveUpReading
  <2> QED  BY <2>2, <2>3, <2>4, <2>5 DEF Phase, FairStep, Reading
<1>2. CASE Free(l) \/ Writing(l)
  BY <1>2 DEF GiveUp, Phase, FairStep, Free, Writing
<1> QED  BY <1>1, <1>2 DEF Phase

LEMMA GiveUpErases ==
  ASSUME NEW l, Phase(l), NEW g \in ListedIn(l), ~Own(l, g), NEW n, n = GiveUp(Erase(l, g))
  PROVE  DroppedTo(l, g, n)
<1>1. LockTypes(l) /\ ~Free(l)
  BY EmptyRange DEF Phase, Free, ListedIn
<1>2. /\ l.readers_queue \in Seq(Groups) /\ l.writers_queue \in Seq(Groups)
      /\ Unique(l.readers_queue) /\ Unique(l.writers_queue)
      /\ Range(l.readers_queue) \subseteq Groups /\ Range(l.writers_queue) \subseteq Groups
      /\ Range(l.readers_queue) \cap Range(l.writers_queue) = {} /\ g \in Groups
  BY <1>1, FieldTypes DEF ListedIn
<1>3. PICK e : e = Erase(l, g)
  OBVIOUS
<1>4. LockTypes(e) /\ e.rdlock_owner = l.rdlock_owner /\ e.wrlock_owner = l.wrlock_owner
  BY <1>1, <1>2, <1>3, EraseFacts
<1>5. e.readers_queue = Without(l.readers_queue, g) /\ e.writers_queue = Without(l.writers_queue, g)
  BY <1>1, <1>2, <1>3, EraseFacts
<1>6. Range(e.readers_queue) = Range(l.readers_queue) \ {g}
  BY <1>1, <1>2, <1>3, EraseFacts
<1>7. Range(e.writers_queue) = Range(l.writers_queue) \ {g}
  BY <1>1, <1>2, <1>3, EraseFacts
<1>8. e.group[g] = NoGroup /\ \A h \in Groups \ {g} : e.group[h] = l.group[h]
  BY <1>1, <1>2, <1>3, EraseFacts
<1>9. \A h \in Groups : Own(e, h) <=> Own(l, h)
  BY <1>8 DEF Own, NoGroup
<1>10. CASE Reading(l)
  <2>1. PICK i \in DOMAIN l.readers_queue : ReadingTo(l, i)
    BY <1>10 DEF Reading
  <2>2. PICK q : q = l.readers_queue
    OBVIOUS
  <2>3. PICK r : r = e.readers_queue
    OBVIOUS
  <2>4. /\ i \in DOMAIN r /\ r[i] = q[i] /\ (i = Len(r) \/ i = Len(r) - 1)
        /\ \A j \in DOMAIN r : Own(e, r[j]) <=> j <= i
    <3>1. CASE g \notin Range(q)
      <4>1. r = q
        BY <1>5, <2>2, <2>3, <3>1 DEF Without
      <4>2. \A j \in DOMAIN q : q[j] \in Groups
        BY <1>2, <2>2
      <4> QED  BY <1>9, <2>1, <2>2, <4>1, <4>2 DEF ReadingTo
    <3>2. CASE g \in Range(q)
      <4>1. PICK k \in DOMAIN q : q[k] = g
        BY <3>2 DEF Range
      <4>2. q \in Seq(Groups) /\ DOMAIN q = 1 .. Len(q) /\ Len(q) \in Nat /\ i \in 1 .. Len(q) /\ k \in 1 .. Len(q)
        BY <1>2, <2>2, <4>1
      <4>3. ~(k <= i)
        BY <2>1, <2>2, <4>1 DEF ReadingTo
      <4>4. k = Len(q) /\ i = Len(q) - 1
        BY <2>1, <2>2, <4>2, <4>3 DEF ReadingTo
      <4>5. /\ Len(Without(q, g)) = Len(q) - 1 /\ Without(q, g) \in Seq(Groups)
            /\ \A j \in 1 .. Len(q) - 1 : Without(q, g)[j] = q[IF j < k THEN j ELSE j + 1]
        BY <1>2, <2>2, <4>1, WithoutFacts
      <4>6. r = Without(q, g)
        BY <1>5, <2>2, <2>3
      <4>7. DOMAIN r = 1 .. i /\ Len(r) = i /\ \A j \in 1 .. i : r[j] = q[j] /\ q[j] \in Groups
        <5>0. Len(r) = Len(q) - 1 /\ r \in Seq(Groups)
          BY <4>5, <4>6
        <5>1. Len(r) = i /\ r \in Seq(Groups) /\ i \in Nat
          BY <4>2, <4>4, <5>0
        <5>2. \A j \in 1 .. i : j < k /\ j \in 1 .. Len(q) - 1 /\ j \in DOMAIN q
          BY <4>2, <4>4
        <5>3. \A j \in 1 .. i : r[j] = q[j] /\ q[j] \in Groups
          BY <4>2, <4>5, <4>6, <5>2
        <5> QED  BY <5>1, <5>3
      <4>8. \A j \in 1 .. i : Own(l, q[j]) /\ j <= i
        BY <2>1, <2>2, <4>2 DEF ReadingTo
      <4> QED  BY <1>9, <4>2, <4>7, <4>8
    <3> QED  BY <3>1, <3>2
  <2>5. e.wrlock_owner = End /\ e.rdlock_owner = r[i] /\ \A h \in Range(e.writers_queue) : ~Own(e, h)
    BY <1>2, <1>4, <1>7, <1>9, <1>10, <2>1, <2>2, <2>4 DEF Reading, ReadingTo
  <2>6. LockTypes(n) /\ Reading(n)
    BY <1>3, <1>4, <2>3, <2>4, <2>5, GiveUpReading
  <2>7. n.readers_queue = e.readers_queue /\ n.writers_queue = e.writers_queue
    BY <1>3, <1>4, <2>3, <2>4, <2>5, GiveUpReading
  <2>8. \A h \in Groups : n.group[h].requests = e.group[h].requests /\ (Own(e, h) => Own(n, h))
    BY <1>3, <1>4, <2>3, <2>4, <2>5, GiveUpReading
  <2>9. n.group[g] = NoGroup
    BY <1>2, <1>6, <1>7, <2>6, <2>7 DEF LockTypes, ListedIn
  <2>10. FairStep(l, n)
    BY <1>10, <2>6 DEF FairStep, Reading
  <2> QED  BY <1>6, <1>7, <1>8, <1>9, <2>6, <2>7, <2>8, <2>9, <2>10 DEF DroppedTo, Phase
<1>11. CASE Writing(l)
  <2>1. n = e
    BY <1>3, <1>4, <1>11 DEF GiveUp, Writing
  <2>2. \A h \in Range(e.readers_queue) : ~Own(e, h)
    BY <1>2, <1>6, <1>9, <1>11 DEF Writing
  <2>3. Len(e.readers_queue) <= 1
    <3>1. CASE g \notin Range(l.readers_queue)
      BY <1>5, <1>11, <3>1 DEF Without, Writing
    <3>2. CASE g \in Range(l.readers_queue)
      <4>1. PICK k \in DOMAIN l.readers_queue : l.readers_queue[k] = g
        BY <3>2 DEF Range
      <4>2. Len(e.readers_queue) = Len(l.readers_queue) - 1
        BY <1>2, <1>5, <4>1, WithoutFacts
      <4> QED  BY <1>2, <1>11, <4>2 DEF Writing
    <3> QED  BY <3>1, <3>2
  <2>4. PICK q : q = l.writers_queue
    OBVIOUS
  <2>5. PICK w : w = e.writers_queue
    OBVIOUS
  <2>6. /\ q \in Seq(Groups) /\ Len(q) \in Nat \ {0} /\ DOMAIN q = 1 .. Len(q) /\ w = Without(q, g)
        /\ \A j \in DOMAIN q : Own(l, q[j]) <=> j = 1
    BY <1>2, <1>5, <1>11, <2>4, <2>5 DEF Writing
  <2>7. w # <<>> /\ w[1] = q[1] /\ \A j \in DOMAIN w : Own(e, w[j]) <=> j = 1
    <3>1. CASE g \notin Range(q)
      BY <1>9, <2>6, <3>1 DEF Without
    <3>2. CASE g \in Range(q)
      <4>1. PICK k \in DOMAIN q : q[k] = g
        BY <3>2 DEF Range
      <4>2. k \in 2 .. Len(q)
        BY <2>6, <4>1
      <4>3. /\ Len(w) = Len(q) - 1 /\ w \in Seq(Groups)
            /\ \A j \in 1 .. Len(q) - 1 : w[j] = q[IF j < k THEN j ELSE j + 1]
        BY <1>2, <2>4, <2>6, <4>1, WithoutFacts
      <4>4. DOMAIN w = 1 .. Len(q) - 1
        BY <4>3
      <4>5. w # <<>> /\ w[1] = q[1]
        BY <2>6, <4>2, <4>3
      <4>6. ASSUME NEW j \in DOMAIN w PROVE Own(e, w[j]) <=> j = 1
        <5>1. PICK p \in DOMAIN q : p = (IF j < k THEN j ELSE j + 1) /\ w[j] = q[p] /\ q[p] \in Groups
          BY <2>6, <4>2, <4>3, <4>4
        <5>2. p = 1 <=> j = 1
          BY <2>6, <4>2, <4>4, <5>1
        <5> QED  BY <1>9, <2>6, <5>1, <5>2
      <4> QED  BY <4>5, <4>6
    <3> QED  BY <3>1, <3>2
  <2>8. Writing(e)
    BY <1>4, <1>11, <2>2, <2>3, <2>4, <2>5, <2>7 DEF Writing
  <2>9. FairStep(l, e)
    BY <1>4 DEF FairStep
  <2> QED  BY <1>4, <1>6, <1>7, <1>8, <1>9, <2>1, <2>8, <2>9 DEF DroppedTo, Phase
<1> QED  BY <1>1, <1>10, <1>11 DEF Phase

-----------------------------------------------------------------------------
(* The clients. *)

LEMMA CardinalityFacts ==
  ASSUME NEW S, S \subseteq Clients
  PROVE  /\ IsFiniteSet(S) /\ Cardinality(S) \in Nat /\ (Cardinality(S) = 0 <=> S = {})
         /\ \A c : c \notin S => Cardinality(S \cup {c}) = Cardinality(S) + 1
         /\ \A c \in S : Cardinality(S \ {c}) = Cardinality(S) - 1
<1>1. IsFiniteSet(S)
  BY ClientsAssumption, FS_Subset
<1> QED  BY <1>1, FS_CardinalityType, FS_EmptySet, FS_AddElement, FS_RemoveElement

(* There is a group for every client: a client that is not active finds    *)
(* one that is not listed.                                                 *)
LEMMA NewGroupExists ==
  ASSUME Phase(lock), ClientTypes, Membership, NEW c \in Clients, ~Active(c)
  PROVE  NewGroup \in Groups \ ListedIn(lock)
<1>1. SUFFICES \E g \in Groups : g \notin ListedIn(lock)
  <2>1. NewGroup = CHOOSE g \in Groups : g \notin ListedIn(lock)
    BY Zenon DEF NewGroup, ListedIn
  <2>2. NewGroup \in Groups /\ NewGroup \notin ListedIn(lock)
    BY <1>1, <2>1, Zenon
  <2> QED  BY <2>2
<1>2. SUFFICES ASSUME \A g \in Groups : g \in ListedIn(lock)
               PROVE  FALSE
  OBVIOUS
<1>3. PICK S : S = {d \in Clients : Active(d)}
  OBVIOUS
<1>4. S \subseteq Clients /\ S \subseteq Clients \ {c}
  BY <1>3
<1>5. PICK f : f = [d \in S |-> it_group[d]]
  OBVIOUS
<1>6. \A d \in S : it_group[d] \in Groups
  <2>1. Range(lock.readers_queue) \subseteq Groups /\ Range(lock.writers_queue) \subseteq Groups
    BY FieldTypes DEF Phase
  <2>2. \A d \in S : it_group[d] \in Range(lock.readers_queue) \cup Range(lock.writers_queue)
    BY <1>3 DEF Membership, GroupsAreListed
  <2> QED  BY <2>1, <2>2
<1>7. \A g \in Groups : \E d \in S : it_group[d] = g
  BY <1>2, <1>3 DEF Membership, NoEmptyGroup
<1>8. f \in Surjection(S, Groups)
  BY <1>5, <1>6, <1>7 DEF Surjection
<1>9. IsFiniteSet(S) /\ IsFiniteSet(Clients \ {c})
  BY <1>4, CardinalityFacts
<1>10. Cardinality(Groups) <= Cardinality(S)
  BY <1>8, <1>9, FS_Surjection
<1>11. Cardinality(S) <= Cardinality(Clients \ {c})
  BY <1>4, <1>9, FS_Subset
<1>12. Cardinality(Clients \ {c}) = Cardinality(Clients) - 1 /\ Cardinality(Clients) \in Nat
  BY CardinalityFacts
<1>13. Cardinality(S) \in Nat
  BY <1>4, CardinalityFacts
<1> QED  BY <1>10, <1>11, <1>12, <1>13, GroupsAssumption

(* The step to lock' keeps the readers that wait in their order. *)
KeepsWaiting ==
  \A d \in Clients : pc'[d] = "waiting" /\ type'[d] = "Read" =>
    \/ pc[d] # "waiting"
    \/ /\ pc[d] = "waiting" /\ type[d] = "Read" /\ it_group'[d] = it_group[d]
       /\ it_group[d] \in Range(lock'.readers_queue)
       /\ Own(lock, it_group[d]) => Own(lock', it_group[d])

LEMMA OvertakingStep ==
  ASSUME ClientTypes, Overtaking, FairStep(lock, lock'), CountPhases(lock'), KeepsWaiting,
         pc' \in [Clients -> {"idle", "waiting", "holding", "done"}],
         type' \in [Clients -> {"Read", "Write"}]
  PROVE  Overtaking' /\ overtaken' \in [Clients -> 0 .. 2]
<1>1. ASSUME NEW d \in Clients
      PROVE  /\ IF pc'[d] = "waiting" /\ type'[d] = "Read"
                  THEN /\ overtaken'[d] <= 1
                       /\ overtaken'[d] = 1 => lock'.wrlock_owner # End \/ Own(lock', it_group'[d])
                  ELSE overtaken'[d] = 0
             /\ overtaken'[d] \in 0 .. 2
  <2>0. overtaken[d] \in 0 .. 2
    BY DEF ClientTypes
  <2>1. CASE ~(pc'[d] = "waiting" /\ type'[d] = "Read")
    BY <2>1 DEF CountPhases
  <2>2. CASE pc'[d] = "waiting" /\ type'[d] = "Read" /\ pc[d] # "waiting"
    <3>1. overtaken[d] = 0 /\ overtaken'[d] = overtaken[d]
      BY <2>2 DEF CountPhases, Overtaking
    <3> QED  BY <2>2, <3>1
  <2>3. CASE pc'[d] = "waiting" /\ type'[d] = "Read" /\ pc[d] = "waiting"
    <3>1. /\ type[d] = "Read" /\ it_group'[d] = it_group[d]
          /\ it_group[d] \in Range(lock'.readers_queue)
          /\ Own(lock, it_group[d]) => Own(lock', it_group[d])
      BY <2>3 DEF KeepsWaiting
    <3>2. overtaken[d] <= 1 /\ (overtaken[d] = 1 => lock.wrlock_owner # End \/ Own(lock, it_group[d]))
      BY <2>3, <3>1 DEF Overtaking
    <3>3. CASE lock'.wrlock_owner \notin {End, lock.wrlock_owner}
      <4>1. lock.wrlock_owner = End /\ ~Own(lock, it_group[d])
        BY <3>1, <3>3 DEF FairStep
      <4>2. overtaken[d] = 0
        BY <2>0, <3>2, <4>1
      <4>3. overtaken'[d] = 1
        BY <2>3, <3>3, <4>2 DEF CountPhases
      <4> QED  BY <2>3, <3>3, <4>3
    <3>4. CASE lock'.wrlock_owner \in {End, lock.wrlock_owner}
      <4>1. overtaken'[d] = overtaken[d]
        BY <2>3, <3>4 DEF CountPhases
      <4>2. CASE overtaken[d] = 0
        BY <2>3, <4>1, <4>2
      <4>3. CASE overtaken[d] = 1 /\ Own(lock, it_group[d])
        BY <2>3, <3>1, <4>1, <4>3
      <4>4. CASE overtaken[d] = 1 /\ lock.wrlock_owner # End
        BY <2>3, <3>1, <3>4, <4>1, <4>4 DEF FairStep
      <4> QED  BY <2>0, <3>2, <4>2, <4>3, <4>4
    <3> QED  BY <3>3, <3>4
  <2> QED  BY <2>1, <2>2, <2>3
<1>2. overtaken' = [d \in Clients |-> overtaken'[d]]
  BY DEF CountPhases
<1>3. overtaken' \in [Clients -> 0 .. 2]
  BY <1>1, <1>2
<1> QED  BY <1>1, <1>3 DEF Overtaking

LEMMA ActiveListed ==
  ASSUME Phase(lock), Membership, NEW d \in Clients, Active(d)
  PROVE  it_group[d] \in ListedIn(lock) /\ it_group[d] \in Groups
<1>1. Range(lock.readers_queue) \subseteq Groups /\ Range(lock.writers_queue) \subseteq Groups
  BY FieldTypes DEF Phase
<1>2. it_group[d] \in Range(IF type[d] = "Read" THEN lock.readers_queue ELSE lock.writers_queue)
  BY DEF Membership, GroupsAreListed
<1> QED  BY <1>1, <1>2 DEF ListedIn

(* Accounting of owner_queries. *)
LEMMA HoldsMore ==
  ASSUME NEW c \in Clients, pc[c] # "holding", QueriesAreCounted, owner_queries \in [Queries -> Nat],
         \A d \in Clients \ {c} : pc'[d] = pc[d],
         owner_queries' = IF pc'[c] # "holding" \/ QueryOf[c] = NoQuery THEN owner_queries
                          ELSE [owner_queries EXCEPT ![QueryOf[c]] = @ + 1]
  PROVE  QueriesAreCounted' /\ owner_queries' \in [Queries -> Nat]
<1>1. QueryOf[c] # NoQuery => QueryOf[c] \in Queries
  BY DEF Queries
<1>2. owner_queries' \in [Queries -> Nat]
  BY <1>1
<1>3. ASSUME NEW q \in Queries
      PROVE  owner_queries'[q] = Cardinality(Holders(q)')
  <2>1. q # NoQuery
    BY DEF Queries
  <2>2. /\ c \notin Holders(q) /\ Holders(q) \subseteq Clients
        /\ Holders(q)' = IF pc'[c] = "holding" /\ QueryOf[c] = q THEN Holders(q) \cup {c} ELSE Holders(q)
    BY DEF Holders
  <2>3. owner_queries[q] = Cardinality(Holders(q)) /\ Cardinality(Holders(q) \cup {c}) = Cardinality(Holders(q)) + 1
    BY <2>2, CardinalityFacts DEF QueriesAreCounted
  <2>4. CASE pc'[c] = "holding" /\ QueryOf[c] = q
    BY <1>1, <2>1, <2>2, <2>3, <2>4
  <2>5. CASE ~(pc'[c] = "holding" /\ QueryOf[c] = q)
    BY <1>1, <2>1, <2>2, <2>3, <2>5
  <2> QED  BY <2>4, <2>5
<1> QED  BY <1>2, <1>3 DEF QueriesAreCounted

(* A client that was idle has got a group: it waits or holds. *)
Enters(c, p, t, g, n) ==
  /\ pc[c] = "idle" /\ p \in {"waiting", "holding"} /\ t \in {"Read", "Write"} /\ g \in Groups
  /\ pc' = [pc EXCEPT ![c] = p]
  /\ type' = [type EXCEPT ![c] = t]
  /\ it_group' = [it_group EXCEPT ![c] = g]
  /\ owner_queries' = IF p = "waiting" \/ QueryOf[c] = NoQuery THEN owner_queries
                      ELSE [owner_queries EXCEPT ![QueryOf[c]] = @ + 1]
  /\ EnteredTo(lock, t, g, n)
  /\ t = "Write" => g \notin ListedIn(lock)
  /\ p = "holding" => Own(n, g)
  /\ lock' = AddRequest(n, g) /\ CountPhases(lock')

LEMMA EnterIInv ==
  ASSUME IInv, NEW c \in Clients, NEW p, NEW t, NEW g, NEW n, Enters(c, p, t, g, n)
  PROVE  IInv'
<1>0. /\ Phase(lock) /\ ClientTypes /\ Membership /\ Overtaking
      /\ p \in {"waiting", "holding"} /\ t \in {"Read", "Write"} /\ g \in Groups /\ pc[c] = "idle"
  BY DEF IInv, Enters
<1>1. /\ Phase(n) /\ FairStep(lock, n) /\ LockTypes(n)
      /\ Range(n.readers_queue) = Range(lock.readers_queue) \cup (IF t = "Read" THEN {g} ELSE {})
      /\ Range(n.writers_queue) = Range(lock.writers_queue) \cup (IF t = "Write" THEN {g} ELSE {})
      /\ \A h \in Groups : n.group[h].requests = lock.group[h].requests /\ (Own(lock, h) => Own(n, h))
  BY DEF Enters, EnteredTo, Phase
<1>2. g \in ListedIn(n)
  BY <1>0, <1>1 DEF ListedIn
<1>3. /\ SameShape(n, lock') /\ lock'.group[g].requests = n.group[g].requests + 1
      /\ \A h \in Groups \ {g} : lock'.group[h] = n.group[h]
  BY <1>1, <1>2, RequestFacts DEF Enters
<1>4. Phase(lock') /\ ListedIn(lock') = ListedIn(n)
  BY <1>1, <1>3, SameShapePhase
<1>5. /\ lock'.readers_queue = n.readers_queue /\ lock'.writers_queue = n.writers_queue
      /\ lock'.wrlock_owner = n.wrlock_owner
      /\ \A h \in Groups : Own(lock', h) <=> Own(n, h)
  BY <1>3 DEF SameShape
<1>6. /\ Range(lock'.readers_queue) = Range(lock.readers_queue) \cup (IF t = "Read" THEN {g} ELSE {})
      /\ Range(lock'.writers_queue) = Range(lock.writers_queue) \cup (IF t = "Write" THEN {g} ELSE {})
      /\ \A h \in Groups : Own(lock, h) => Own(lock', h)
      /\ lock'.group[g].requests = lock.group[g].requests + 1
      /\ \A h \in Groups \ {g} : lock'.group[h].requests = lock.group[h].requests
  BY <1>0, <1>1, <1>3, <1>5
<1>7. Range(lock'.readers_queue) \subseteq Groups
  BY <1>4, FieldTypes DEF Phase
<1>8. FairStep(lock, lock')
  BY <1>1, <1>5, <1>7 DEF FairStep
<1>9. /\ pc' \in [Clients -> {"idle", "waiting", "holding", "done"}]
      /\ type' \in [Clients -> {"Read", "Write"}]
      /\ it_group' \in [Clients -> Groups \cup {End}]
      /\ pc'[c] = p /\ type'[c] = t /\ it_group'[c] = g
      /\ \A d \in Clients \ {c} : pc'[d] = pc[d] /\ type'[d] = type[d] /\ it_group'[d] = it_group[d]
  BY <1>0 DEF Enters, ClientTypes
<1>10. GroupsAreListed'
  <2> SUFFICES ASSUME NEW d \in Clients, Active(d)'
               PROVE  it_group'[d] \in Range(IF type'[d] = "Read" THEN lock'.readers_queue ELSE lock'.writers_queue)
    BY DEF GroupsAreListed
  <2>1. CASE d = c
    BY <1>0, <1>6, <1>9, <2>1
  <2>2. CASE d # c
    <3>1. Active(d) /\ pc'[d] = pc[d] /\ type'[d] = type[d] /\ it_group'[d] = it_group[d]
      BY <1>9, <2>2 DEF Active
    <3>2. it_group[d] \in Range(IF type[d] = "Read" THEN lock.readers_queue ELSE lock.writers_queue)
      BY <1>0, <3>1 DEF Membership, GroupsAreListed
    <3> QED  BY <1>6, <3>1, <3>2
  <2> QED  BY <2>1, <2>2
<1>11. \A d \in Clients : Active(d) => it_group[d] \in ListedIn(lock) /\ it_group[d] \in Groups
  BY <1>0, ActiveListed
<1>12. HoldersOwn'
  <2> SUFFICES ASSUME NEW d \in Clients, pc'[d] = "holding"
               PROVE  Own(lock', it_group'[d])
    BY DEF HoldersOwn
  <2>1. CASE d = c
    BY <1>0, <1>5, <1>9, <2>1 DEF Enters
  <2>2. CASE d # c
    <3>1. pc[d] = "holding" /\ it_group'[d] = it_group[d]
      BY <1>9, <2>2
    <3>2. Own(lock, it_group[d]) /\ it_group[d] \in Groups
      BY <1>0, <1>11, <3>1 DEF Membership, HoldersOwn, Active
    <3> QED  BY <1>6, <3>1, <3>2
  <2> QED  BY <2>1, <2>2
<1>13. \A d \in Clients \ {c} : Active(d)' <=> Active(d)
  BY <1>9 DEF Active
<1>14. Active(c)' /\ ~Active(c)
  BY <1>0, <1>9 DEF Active
<1>15. WritersAreAlone'
  <2> SUFFICES ASSUME NEW d \in Clients, NEW e \in Clients, Active(d)', Active(e)',
                      it_group'[d] = it_group'[e], type'[d] = "Write"
               PROVE  d = e
    BY DEF WritersAreAlone
  <2>1. CASE d = c /\ e # c
    <3>1. t = "Write" /\ it_group[e] = g /\ Active(e)
      BY <1>9, <1>13, <2>1
    <3> QED  BY <1>11, <3>1 DEF Enters
  <2>2. CASE d # c /\ e = c
    <3>1. type[d] = "Write" /\ it_group[d] = g /\ Active(d)
      BY <1>9, <1>13, <2>2
    <3>2. g \in Range(lock.writers_queue)
      BY <1>0, <3>1 DEF Membership, GroupsAreListed
    <3>3. g \in Range(lock'.writers_queue) /\ g \in Range(lock'.readers_queue)
      BY <1>0, <1>6, <3>2 DEF Enters, ListedIn
    <3> QED  BY <1>4, <3>3, FieldTypes DEF Phase
  <2>3. CASE d # c /\ e # c
    BY <1>0, <1>9, <1>13, <2>3 DEF Membership, WritersAreAlone
  <2> QED  BY <2>1, <2>2, <2>3
<1>16. NoEmptyGroup'
  <2> SUFFICES ASSUME NEW h \in ListedIn(lock')
               PROVE  \E d \in Clients : Active(d)' /\ it_group'[d] = h
    BY DEF NoEmptyGroup
  <2>1. CASE h = g
    BY <1>9, <1>14, <2>1
  <2>2. CASE h # g
    <3>1. h \in ListedIn(lock)
      BY <1>6, <2>2 DEF ListedIn
    <3>2. PICK d \in Clients : Active(d) /\ it_group[d] = h
      BY <1>0, <3>1 DEF Membership, NoEmptyGroup
    <3> QED  BY <1>9, <1>13, <1>14, <3>2
  <2> QED  BY <2>1, <2>2
<1>17. RequestsAreCounted'
  <2> SUFFICES ASSUME NEW h \in Groups
               PROVE  lock'.group[h].requests = Cardinality(Members(h)')
    BY DEF RequestsAreCounted
  <2>1. /\ Members(h)' = IF h = g THEN Members(h) \cup {c} ELSE Members(h)
        /\ c \notin Members(h) /\ Members(h) \subseteq Clients
    BY <1>9, <1>13, <1>14 DEF Members, Active
  <2>2. lock.group[h].requests = Cardinality(Members(h))
    BY <1>0 DEF Membership, RequestsAreCounted
  <2>3. Cardinality(Members(h) \cup {c}) = Cardinality(Members(h)) + 1
    BY <2>1, CardinalityFacts
  <2> QED  BY <1>6, <2>1, <2>2, <2>3
<1>18. QueriesAreCounted' /\ owner_queries' \in [Queries -> Nat]
  BY <1>0, <1>9, HoldsMore DEF Membership, ClientTypes, Enters
<1>19. KeepsWaiting
  <2> SUFFICES ASSUME NEW d \in Clients, pc'[d] = "waiting", type'[d] = "Read", pc[d] = "waiting"
               PROVE  /\ type[d] = "Read" /\ it_group'[d] = it_group[d]
                      /\ it_group[d] \in Range(lock'.readers_queue)
                      /\ Own(lock, it_group[d]) => Own(lock', it_group[d])
    BY DEF KeepsWaiting
  <2>1. d # c /\ Active(d) /\ Active(d)'
    BY <1>0 DEF Active
  <2>2. type[d] = "Read" /\ it_group'[d] = it_group[d]
    BY <1>9, <2>1
  <2>3. it_group[d] \in Range(lock'.readers_queue)
    BY <1>10, <2>1, <2>2 DEF GroupsAreListed
  <2> QED  BY <1>6, <1>7, <2>2, <2>3
<1>20. Overtaking' /\ overtaken' \in [Clients -> 0 .. 2]
  BY <1>0, <1>8, <1>9, <1>19, OvertakingStep DEF Enters
<1>21. Membership' /\ ClientTypes'
  BY <1>9, <1>10, <1>12, <1>15, <1>16, <1>17, <1>18, <1>20 DEF Membership, ClientTypes
<1> QED  BY <1>4, <1>20, <1>21 DEF IInv, Phase, LockTypes, Free, Reading, ReadingTo, Writing, Own, ListedIn

LEMMA HoldsLess ==
  ASSUME NEW c \in Clients, QueriesAreCounted, owner_queries \in [Queries -> Nat], pc'[c] # "holding",
         \A d \in Clients \ {c} : pc'[d] = pc[d],
         owner_queries' = IF pc[c] # "holding" \/ QueryOf[c] = NoQuery THEN owner_queries
                          ELSE [owner_queries EXCEPT ![QueryOf[c]] = @ - 1]
  PROVE  QueriesAreCounted' /\ owner_queries' \in [Queries -> Nat]
<1>1. QueryOf[c] # NoQuery => QueryOf[c] \in Queries
  BY DEF Queries
<1>2. ASSUME NEW q \in Queries
      PROVE  owner_queries'[q] = Cardinality(Holders(q)') /\ owner_queries'[q] \in Nat
  <2>1. q # NoQuery
    BY DEF Queries
  <2>2. /\ Holders(q) \subseteq Clients /\ Holders(q)' \subseteq Clients
        /\ Holders(q)' = IF pc[c] = "holding" /\ QueryOf[c] = q THEN Holders(q) \ {c} ELSE Holders(q)
        /\ pc[c] = "holding" /\ QueryOf[c] = q => c \in Holders(q)
    BY DEF Holders
  <2>3. owner_queries[q] = Cardinality(Holders(q)) /\ Cardinality(Holders(q)') \in Nat
    BY <2>2, CardinalityFacts DEF QueriesAreCounted
  <2>4. CASE pc[c] = "holding" /\ QueryOf[c] = q
    <3>1. Cardinality(Holders(q) \ {c}) = Cardinality(Holders(q)) - 1
      BY <2>2, <2>4, CardinalityFacts
    <3> QED  BY <1>1, <2>1, <2>2, <2>3, <2>4, <3>1
  <2>5. CASE ~(pc[c] = "holding" /\ QueryOf[c] = q)
    BY <1>1, <2>1, <2>2, <2>3, <2>5
  <2> QED  BY <2>4, <2>5
<1>3. owner_queries' = [q \in Queries |-> owner_queries'[q]]
  BY <1>1
<1> QED  BY <1>2, <1>3 DEF QueriesAreCounted

(* A request or a holder has gone, and its group with the last of them. *)
LeftTo(l, g, n) ==
  /\ Phase(n) /\ FairStep(l, n)
  /\ n.group[g].requests = l.group[g].requests - 1
  /\ \A h \in Groups \ {g} : n.group[h].requests = l.group[h].requests
  /\ \A h \in ListedIn(n) : Own(l, h) => Own(n, h)
  /\ l.group[g].requests = 1 =>
       /\ Range(n.readers_queue) = Range(l.readers_queue) \ {g}
       /\ Range(n.writers_queue) = Range(l.writers_queue) \ {g}
  /\ l.group[g].requests # 1 =>
       /\ Range(n.readers_queue) = Range(l.readers_queue)
       /\ Range(n.writers_queue) = Range(l.writers_queue)

Leaves(c) ==
  /\ Active(c) /\ Leave(c)
  /\ LeftTo(lock, it_group[c], lock') /\ CountPhases(lock')
  /\ owner_queries' = IF pc[c] # "holding" \/ QueryOf[c] = NoQuery THEN owner_queries
                      ELSE [owner_queries EXCEPT ![QueryOf[c]] = @ - 1]

LEMMA LeaveIInv ==
  ASSUME IInv, NEW c \in Clients, Leaves(c)
  PROVE  IInv'
<1>0. /\ Phase(lock) /\ ClientTypes /\ Membership /\ Overtaking
      /\ Active(c) /\ Phase(lock') /\ FairStep(lock, lock') /\ CountPhases(lock')
  BY DEF IInv, Leaves, LeftTo
<1>1. PICK g : g = it_group[c]
  OBVIOUS
<1>2. /\ lock'.group[g].requests = lock.group[g].requests - 1
      /\ \A h \in Groups \ {g} : lock'.group[h].requests = lock.group[h].requests
      /\ \A h \in ListedIn(lock') : Own(lock, h) => Own(lock', h)
      /\ lock.group[g].requests = 1 =>
           /\ Range(lock'.readers_queue) = Range(lock.readers_queue) \ {g}
           /\ Range(lock'.writers_queue) = Range(lock.writers_queue) \ {g}
      /\ lock.group[g].requests # 1 =>
           /\ Range(lock'.readers_queue) = Range(lock.readers_queue)
           /\ Range(lock'.writers_queue) = Range(lock.writers_queue)
  BY <1>1 DEF Leaves, LeftTo
<1>3. /\ pc' \in [Clients -> {"idle", "waiting", "holding", "done"}]
      /\ type' \in [Clients -> {"Read", "Write"}]
      /\ it_group' \in [Clients -> Groups \cup {End}]
      /\ pc'[c] \in {"idle", "done"}
      /\ \A d \in Clients \ {c} : pc'[d] = pc[d] /\ type'[d] = type[d] /\ it_group'[d] = it_group[d]
  BY <1>0 DEF Leaves, Leave, ClientTypes
<1>4. ~Active(c)' /\ \A d \in Clients \ {c} : Active(d)' <=> Active(d)
  BY <1>3 DEF Active
<1>5. \A d \in Clients : Active(d) => it_group[d] \in ListedIn(lock) /\ it_group[d] \in Groups
  BY <1>0, ActiveListed
<1>6. g \in Groups /\ g \in ListedIn(lock)
  BY <1>0, <1>1, <1>5
<1>7. /\ Members(g) \subseteq Clients /\ c \in Members(g) /\ Members(g)' = Members(g) \ {c}
      /\ \A h \in Groups \ {g} : Members(h)' = Members(h)
  BY <1>0, <1>1, <1>3, <1>4 DEF Members, Active
<1>8. /\ lock.group[g].requests = Cardinality(Members(g))
      /\ Cardinality(Members(g)') = Cardinality(Members(g)) - 1 /\ Cardinality(Members(g)) \in Nat
  BY <1>0, <1>6, <1>7, CardinalityFacts DEF Membership, RequestsAreCounted
<1>9. RequestsAreCounted'
  BY <1>0, <1>2, <1>7, <1>8 DEF Membership, RequestsAreCounted
<1>10. /\ lock.group[g].requests = 1 => Members(g)' = {}
       /\ lock.group[g].requests # 1 => Members(g)' # {}
  <2>1. Members(g)' \subseteq Clients
    BY <1>7
  <2>2. Cardinality(Members(g)') = 0 <=> Members(g)' = {}
    BY <2>1, CardinalityFacts
  <2> QED  BY <1>8, <2>2
<1>11. ASSUME NEW d \in Clients, Active(d)'
       PROVE  /\ d # c /\ Active(d) /\ pc'[d] = pc[d] /\ type'[d] = type[d] /\ it_group'[d] = it_group[d]
              /\ lock.group[g].requests = 1 => it_group[d] # g
  <2>1. d # c /\ Active(d) /\ pc'[d] = pc[d] /\ type'[d] = type[d] /\ it_group'[d] = it_group[d]
    BY <1>3, <1>4, <1>11
  <2>2. it_group[d] = g => d \in Members(g)'
    BY <1>11, <2>1 DEF Members, Active
  <2> QED  BY <1>10, <2>1, <2>2
<1>12. GroupsAreListed'
  <2> SUFFICES ASSUME NEW d \in Clients, Active(d)'
               PROVE  it_group'[d] \in Range(IF type'[d] = "Read" THEN lock'.readers_queue ELSE lock'.writers_queue)
    BY DEF GroupsAreListed
  <2>1. it_group[d] \in Range(IF type[d] = "Read" THEN lock.readers_queue ELSE lock.writers_queue)
    BY <1>0, <1>11 DEF Membership, GroupsAreListed
  <2> QED  BY <1>2, <1>11, <2>1
<1>13. \A d \in Clients : Active(d)' => it_group[d] \in ListedIn(lock')
  BY <1>11, <1>12 DEF GroupsAreListed, ListedIn
<1>14. HoldersOwn'
  <2> SUFFICES ASSUME NEW d \in Clients, pc'[d] = "holding"
               PROVE  Own(lock', it_group'[d])
    BY DEF HoldersOwn
  <2>1. Active(d)'
    BY DEF Active
  <2> QED  BY <1>0, <1>2, <1>11, <1>13, <2>1 DEF Membership, HoldersOwn
<1>15. WritersAreAlone'
  BY <1>0, <1>11 DEF Membership, WritersAreAlone
<1>16. NoEmptyGroup'
  <2> SUFFICES ASSUME NEW h \in ListedIn(lock')
               PROVE  \E d \in Clients : Active(d)' /\ it_group'[d] = h
    BY DEF NoEmptyGroup
  <2>1. CASE h = g
    <3>1. Members(g)' # {}
      BY <1>2, <1>10, <2>1 DEF ListedIn
    <3> QED  BY <2>1, <3>1 DEF Members, Active
  <2>2. CASE h # g
    <3>1. h \in ListedIn(lock)
      BY <1>2 DEF ListedIn
    <3>2. PICK d \in Clients : Active(d) /\ it_group[d] = h
      BY <1>0, <3>1 DEF Membership, NoEmptyGroup
    <3> QED  BY <1>1, <1>3, <1>4, <2>2, <3>2
  <2> QED  BY <2>1, <2>2
<1>17. QueriesAreCounted' /\ owner_queries' \in [Queries -> Nat]
  BY <1>0, <1>3, HoldsLess DEF Membership, ClientTypes, Leaves
<1>18. KeepsWaiting
  <2> SUFFICES ASSUME NEW d \in Clients, pc'[d] = "waiting", type'[d] = "Read", pc[d] = "waiting"
               PROVE  /\ type[d] = "Read" /\ it_group'[d] = it_group[d]
                      /\ it_group[d] \in Range(lock'.readers_queue)
                      /\ Own(lock, it_group[d]) => Own(lock', it_group[d])
    BY DEF KeepsWaiting
  <2>1. Active(d)'
    BY DEF Active
  <2> QED  BY <1>2, <1>11, <1>12, <1>13, <2>1 DEF GroupsAreListed
<1>19. Overtaking' /\ overtaken' \in [Clients -> 0 .. 2]
  BY <1>0, <1>3, <1>18, OvertakingStep
<1>20. Membership' /\ ClientTypes'
  BY <1>3, <1>9, <1>12, <1>14, <1>15, <1>16, <1>17, <1>19 DEF Membership, ClientTypes
<1> QED  BY <1>0, <1>19, <1>20 DEF IInv, Phase, LockTypes, Free, Reading, ReadingTo, Writing, Own, ListedIn

(* The groups stay as they are. *)
StayedTo(l, n) ==
  /\ Phase(n) /\ FairStep(l, n)
  /\ Range(n.readers_queue) = Range(l.readers_queue) /\ Range(n.writers_queue) = Range(l.writers_queue)
  /\ \A h \in Groups : n.group[h].requests = l.group[h].requests /\ (Own(l, h) => Own(n, h))

(* A client begins to hold, or has failed and has no group, as before. *)
Stays(c) ==
  /\ StayedTo(lock, lock') /\ CountPhases(lock')
  /\ pc[c] # "holding" /\ pc'[c] \in {"idle", "done", "holding"}
  /\ pc'[c] = "holding" <=> pc[c] = "waiting"
  /\ pc[c] = "waiting" => Own(lock, it_group[c]) /\ type'[c] = type[c] /\ it_group'[c] = it_group[c]
  /\ pc' \in [Clients -> {"idle", "waiting", "holding", "done"}]
  /\ type' \in [Clients -> {"Read", "Write"}]
  /\ it_group' \in [Clients -> Groups \cup {End}]
  /\ \A d \in Clients \ {c} : pc'[d] = pc[d] /\ type'[d] = type[d] /\ it_group'[d] = it_group[d]
  /\ owner_queries' = IF pc'[c] # "holding" \/ QueryOf[c] = NoQuery THEN owner_queries
                      ELSE [owner_queries EXCEPT ![QueryOf[c]] = @ + 1]

LEMMA StayIInv ==
  ASSUME IInv, NEW c \in Clients, Stays(c)
  PROVE  IInv'
<1>0. /\ Phase(lock) /\ ClientTypes /\ Membership /\ Overtaking
      /\ Phase(lock') /\ FairStep(lock, lock') /\ CountPhases(lock')
  BY DEF IInv, Stays, StayedTo
<1>1. /\ Range(lock'.readers_queue) = Range(lock.readers_queue)
      /\ Range(lock'.writers_queue) = Range(lock.writers_queue)
      /\ \A h \in Groups : lock'.group[h].requests = lock.group[h].requests /\ (Own(lock, h) => Own(lock', h))
  BY DEF Stays, StayedTo
<1>2. \A d \in Clients : Active(d)' <=> Active(d)
  BY <1>0 DEF Active, Stays, ClientTypes
<1>3. \A d \in Clients : Active(d) => /\ type'[d] = type[d] /\ it_group'[d] = it_group[d]
                                      /\ it_group[d] \in ListedIn(lock) /\ it_group[d] \in Groups
  <2> SUFFICES ASSUME NEW d \in Clients, Active(d)
               PROVE  type'[d] = type[d] /\ it_group'[d] = it_group[d]
    BY <1>0, ActiveListed
  <2>1. CASE d = c
    BY <2>1 DEF Active, Stays
  <2>2. CASE d # c
    BY <2>2 DEF Stays
  <2> QED  BY <2>1, <2>2
<1>4. GroupsAreListed'
  <2> SUFFICES ASSUME NEW d \in Clients, Active(d)'
               PROVE  it_group'[d] \in Range(IF type'[d] = "Read" THEN lock'.readers_queue ELSE lock'.writers_queue)
    BY DEF GroupsAreListed
  <2>1. it_group[d] \in Range(IF type[d] = "Read" THEN lock.readers_queue ELSE lock.writers_queue)
    BY <1>0, <1>2 DEF Membership, GroupsAreListed
  <2> QED  BY <1>1, <1>2, <1>3, <2>1
<1>5. HoldersOwn'
  <2> SUFFICES ASSUME NEW d \in Clients, pc'[d] = "holding"
               PROVE  Own(lock', it_group'[d])
    BY DEF HoldersOwn
  <2>1. Active(d)
    BY <1>2 DEF Active
  <2>2. Own(lock, it_group[d])
    <3>1. CASE d = c
      BY <3>1 DEF Stays
    <3>2. CASE d # c
      BY <1>0, <3>2 DEF Stays, Membership, HoldersOwn
    <3> QED  BY <3>1, <3>2
  <2> QED  BY <1>1, <1>3, <2>1, <2>2
<1>6. WritersAreAlone' /\ NoEmptyGroup'
  <2>1. WritersAreAlone'
    BY <1>0, <1>2, <1>3 DEF Membership, WritersAreAlone
  <2>2. NoEmptyGroup'
    BY <1>0, <1>1, <1>2, <1>3 DEF Membership, NoEmptyGroup, ListedIn
  <2> QED  BY <2>1, <2>2
<1>7. RequestsAreCounted'
  <2>1. \A h \in Groups : Members(h)' = Members(h)
    BY <1>2, <1>3 DEF Members, Active
  <2> QED  BY <1>0, <1>1, <2>1 DEF Membership, RequestsAreCounted
<1>8. QueriesAreCounted' /\ owner_queries' \in [Queries -> Nat]
  BY <1>0, HoldsMore DEF Membership, ClientTypes, Stays
<1>9. KeepsWaiting
  <2> SUFFICES ASSUME NEW d \in Clients, pc'[d] = "waiting", type'[d] = "Read", pc[d] = "waiting"
               PROVE  /\ type[d] = "Read" /\ it_group'[d] = it_group[d]
                      /\ it_group[d] \in Range(lock'.readers_queue)
                      /\ Own(lock, it_group[d]) => Own(lock', it_group[d])
    BY DEF KeepsWaiting
  <2>1. Active(d) /\ Active(d)'
    BY DEF Active
  <2> QED  BY <1>1, <1>3, <1>4, <2>1 DEF GroupsAreListed
<1>10. Overtaking' /\ overtaken' \in [Clients -> 0 .. 2]
  BY <1>0, <1>9, OvertakingStep DEF Stays
<1>11. Membership' /\ ClientTypes'
  BY <1>4, <1>5, <1>6, <1>7, <1>8, <1>10 DEF Membership, ClientTypes, Stays
<1> QED  BY <1>0, <1>10, <1>11 DEF IInv, Phase, LockTypes, Free, Reading, ReadingTo, Writing, Own, ListedIn

-----------------------------------------------------------------------------
(* The actions. *)

LEMMA InitIInv ==
  ASSUME Init
  PROVE  IInv
<1>1. Phase(lock)
  <2>1. /\ lock.readers_queue = <<>> /\ lock.writers_queue = <<>>
        /\ lock.rdlock_owner = End /\ lock.wrlock_owner = End
        /\ lock \in LockRecord /\ \A g \in Groups : lock.group[g] = NoGroup
    BY DEF Init, LockRecord, NoGroup
  <2>2. Unique(<<>>)
    BY DEF Unique
  <2> QED  BY <2>1, <2>2, EmptyRange DEF Phase, LockTypes, LockRecord, Free
<1>2. ClientTypes /\ Overtaking
  BY DEF Init, ClientTypes, Overtaking
<1>3. \A c \in Clients : ~Active(c) /\ pc[c] # "holding"
  BY DEF Init, Active
<1>4. ListedIn(lock) = {}
  BY EmptyRange DEF Init, ListedIn
<1>5. RequestsAreCounted /\ QueriesAreCounted
  <2>1. \A g \in Groups : Members(g) = {} /\ lock.group[g].requests = 0
    BY <1>3 DEF Members, Active, Init, NoGroup
  <2>2. \A q \in Queries : Holders(q) = {} /\ owner_queries[q] = 0
    BY <1>3 DEF Holders, Init
  <2> QED  BY <2>1, <2>2, FS_EmptySet DEF RequestsAreCounted, QueriesAreCounted
<1>6. Membership
  BY <1>3, <1>4, <1>5 DEF Membership, GroupsAreListed, HoldersOwn, WritersAreAlone, NoEmptyGroup
<1> QED  BY <1>1, <1>2, <1>6 DEF IInv

(* A request or a holder goes: the rest of unlock() and of step 3a. *)
LEMMA DroppedIsLeft ==
  ASSUME Phase(lock), NEW g \in ListedIn(lock), NEW l, l = DropRequest(lock, g), NEW n,
         l.group[g].requests = 0 => DroppedTo(l, g, n),
         l.group[g].requests # 0 => StayedTo(l, n)
  PROVE  LeftTo(lock, g, n)
<1>1. /\ SameShape(lock, l) /\ l.group[g].requests = lock.group[g].requests - 1
      /\ \A h \in Groups \ {g} : l.group[h] = lock.group[h]
  <2>1. LockTypes(lock) /\ -1 \in {1, -1} /\ -1 # 1
    BY DEF Phase
  <2>2. SameShape(lock, l) /\ l.group[g].requests = lock.group[g].requests + (-1)
    BY <2>1, RequestFacts
  <2>3. \A h \in Groups \ {g} : l.group[h] = lock.group[h]
    BY <2>1, RequestFacts
  <2>4. lock.group[g].requests \in Int
    BY <2>1, FieldTypes DEF ListedIn
  <2> QED  BY <2>2, <2>3, <2>4
<1>2. /\ g \in Groups /\ lock.group[g].requests \in Int
      /\ Range(lock.readers_queue) \subseteq Groups /\ Range(lock.writers_queue) \subseteq Groups
  BY FieldTypes DEF Phase, ListedIn
<1>3. /\ l.readers_queue = lock.readers_queue /\ l.writers_queue = lock.writers_queue
      /\ l.wrlock_owner = lock.wrlock_owner
      /\ \A h \in Groups : Own(l, h) <=> Own(lock, h)
  BY <1>1 DEF SameShape
<1>4. l.group[g].requests = 0 <=> lock.group[g].requests = 1
  BY <1>1, <1>2
<1>5. CASE l.group[g].requests = 0
  <2>1. /\ Phase(n) /\ FairStep(l, n)
        /\ Range(n.readers_queue) = Range(l.readers_queue) \ {g}
        /\ Range(n.writers_queue) = Range(l.writers_queue) \ {g}
        /\ n.group[g] = NoGroup
        /\ \A h \in Groups \ {g} : n.group[h].requests = l.group[h].requests /\ (Own(l, h) => Own(n, h))
    BY <1>5 DEF DroppedTo
  <2>2. FairStep(lock, n)
    BY <1>2, <1>3, <2>1 DEF FairStep
  <2>3. n.group[g].requests = lock.group[g].requests - 1
    <3>1. n.group[g].requests = 0
      BY <2>1 DEF NoGroup
    <3> QED  BY <1>1, <1>5, <3>1
  <2>4. \A h \in ListedIn(n) : Own(lock, h) => Own(n, h)
    BY <1>2, <1>3, <2>1 DEF ListedIn
  <2> QED  BY <1>1, <1>3, <1>4, <1>5, <2>1, <2>2, <2>3, <2>4 DEF LeftTo
<1>6. CASE l.group[g].requests # 0
  <2>1. /\ Phase(n) /\ FairStep(l, n)
        /\ Range(n.readers_queue) = Range(l.readers_queue)
        /\ Range(n.writers_queue) = Range(l.writers_queue)
        /\ \A h \in Groups : n.group[h].requests = l.group[h].requests /\ (Own(l, h) => Own(n, h))
    BY <1>6 DEF StayedTo
  <2>2. FairStep(lock, n)
    BY <1>2, <1>3, <2>1 DEF FairStep
  <2>3. \A h \in ListedIn(n) : Own(lock, h) => Own(n, h)
    BY <1>2, <1>3, <2>1 DEF ListedIn
  <2> QED  BY <1>1, <1>2, <1>3, <1>4, <1>6, <2>1, <2>2, <2>3 DEF LeftTo
<1> QED  BY <1>5, <1>6

LEMMA DropRequestShape ==
  ASSUME Phase(lock), NEW g \in ListedIn(lock), NEW l, l = DropRequest(lock, g)
  PROVE  /\ SameShape(lock, l) /\ Phase(l) /\ ListedIn(l) = ListedIn(lock)
         /\ l.readers_queue = lock.readers_queue /\ l.writers_queue = lock.writers_queue
         /\ \A h \in Groups : Own(l, h) <=> Own(lock, h)
<1>1. LockTypes(lock) /\ -1 \in {1, -1} /\ -1 # 1
  BY DEF Phase
<1>2. SameShape(lock, l)
  BY <1>1, RequestFacts
<1>3. Phase(l) /\ ListedIn(l) = ListedIn(lock)
  BY <1>2, SameShapePhase
<1> QED  BY <1>2, <1>3 DEF SameShape

LEMMA OwnerLeaves ==
  ASSUME Phase(lock), NEW g \in Groups, NEW t, OwnsAs(lock, g, t), NEW l, l = DropRequest(lock, g),
         NEW n, n = IF l.group[g].requests = 0 THEN DropOwnerGroupAndPassOwnership(l, g, t) ELSE l
  PROVE  LeftTo(lock, g, n)
<1>1. g \in ListedIn(lock)
  BY DEF OwnsAs, ListedIn
<1>2. /\ Phase(l) /\ l.readers_queue = lock.readers_queue /\ l.writers_queue = lock.writers_queue
      /\ \A h \in Groups : Own(l, h) <=> Own(lock, h)
  BY <1>1, DropRequestShape
<1>3. OwnsAs(l, g, t)
  BY <1>2 DEF OwnsAs
<1>4. l.group[g].requests = 0 => DroppedTo(l, g, n)
  BY <1>2, <1>3, DropFacts
<1>5. l.group[g].requests # 0 => StayedTo(l, n)
  BY <1>2 DEF StayedTo, FairStep
<1> QED  BY <1>1, <1>4, <1>5, DroppedIsLeft

LEMMA HolderOwnsAs ==
  ASSUME Phase(lock), Membership, ClientTypes, NEW c \in Clients, Active(c), Own(lock, it_group[c])
  PROVE  OwnsAs(lock, it_group[c], type[c]) /\ it_group[c] \in Groups /\ it_group[c] \in ListedIn(lock)
<1>1. it_group[c] \in Groups /\ it_group[c] \in ListedIn(lock)
  BY ActiveListed
<1>2. type[c] \in {"Read", "Write"}
  BY DEF ClientTypes
<1> QED  BY <1>1, <1>2 DEF OwnsAs, Membership, GroupsAreListed

LEMMA UnlockIInv ==
  ASSUME IInv, NEW c \in Clients, Unlock(c)
  PROVE  IInv'
<1>1. Phase(lock) /\ Membership /\ ClientTypes /\ Active(c) /\ Own(lock, it_group[c]) /\ pc[c] = "holding"
  BY DEF IInv, Unlock, Active, Membership, HoldersOwn
<1>2. PICK g : g = it_group[c]
  OBVIOUS
<1>3. OwnsAs(lock, g, type[c]) /\ g \in Groups
  BY <1>1, <1>2, HolderOwnsAs
<1>4. PICK l : l = DropRequest(lock, g)
  OBVIOUS
<1>5. /\ lock' = IF l.group[g].requests = 0 THEN DropOwnerGroupAndPassOwnership(l, g, type[c]) ELSE l
      /\ CountPhases(lock')
  BY <1>2, <1>4 DEF Unlock, SetLock
<1>6. LeftTo(lock, g, lock')
  BY <1>1, <1>3, <1>4, <1>5, OwnerLeaves
<1>7. Leaves(c)
  BY <1>1, <1>2, <1>5, <1>6 DEF Leaves, Unlock
<1> QED  BY <1>7, LeaveIInv

LEMMA TimeOutIInv ==
  ASSUME IInv, NEW c \in Clients, TimeOut(c)
  PROVE  IInv'
<1>1. Phase(lock) /\ Membership /\ ClientTypes /\ Active(c) /\ ~Own(lock, it_group[c]) /\ pc[c] = "waiting"
  BY DEF IInv, TimeOut, Active, Own
<1>2. PICK g : g = it_group[c]
  OBVIOUS
<1>3. g \in Groups /\ g \in ListedIn(lock)
  BY <1>1, <1>2, ActiveListed
<1>4. PICK l : l = DropRequest(lock, g)
  OBVIOUS
<1>5. /\ lock' = GiveUp(IF l.group[g].requests = 0 THEN Erase(l, g) ELSE l)
      /\ CountPhases(lock')
  BY <1>2, <1>4 DEF TimeOut, SetLock
<1>6. Phase(l) /\ g \in ListedIn(l) /\ ~Own(l, g)
  <2>1. ListedIn(l) = ListedIn(lock) /\ Phase(l)
    BY <1>1, <1>3, <1>4, DropRequestShape
  <2>2. \A h \in Groups : Own(l, h) <=> Own(lock, h)
    BY <1>1, <1>3, <1>4, DropRequestShape
  <2> QED  BY <1>1, <1>2, <1>3, <2>1, <2>2
<1>7. l.group[g].requests = 0 => DroppedTo(l, g, lock')
  BY <1>5, <1>6, GiveUpErases
<1>8. l.group[g].requests # 0 => StayedTo(l, lock')
  <2> SUFFICES ASSUME l.group[g].requests # 0 PROVE StayedTo(l, lock')
    OBVIOUS
  <2>1. lock' = GiveUp(l)
    BY <1>5
  <2> QED  BY <1>6, <2>1, GiveUpStays DEF StayedTo
<1>9. LeftTo(lock, g, lock')
  BY <1>1, <1>3, <1>4, <1>7, <1>8, DroppedIsLeft
<1>10. Leaves(c)
  BY <1>1, <1>2, <1>5, <1>9 DEF Leaves, TimeOut
<1> QED  BY <1>10, LeaveIInv

LEMMA WakeUpIInv ==
  ASSUME IInv, NEW c \in Clients, WakeUp(c)
  PROVE  IInv'
<1>1. Phase(lock) /\ Membership /\ ClientTypes /\ Active(c) /\ Own(lock, it_group[c]) /\ pc[c] = "waiting"
  BY DEF IInv, WakeUp, Active, Own
<1>2. PICK g : g = it_group[c]
  OBVIOUS
<1>3. OwnsAs(lock, g, type[c]) /\ g \in Groups /\ g \in ListedIn(lock)
  BY <1>1, <1>2, HolderOwnsAs
<1>4. PICK l : l = DropRequest(lock, g)
  OBVIOUS
<1>5. CASE Persist(c, type[c], g, l)
  <2>1. lock' = AddRequest(l, g) /\ CountPhases(lock')
    BY <1>5 DEF Persist, SetLock
  <2>2. SameShape(lock, l) /\ Phase(l) /\ g \in ListedIn(l) /\ LockTypes(l)
    BY <1>1, <1>3, <1>4, DropRequestShape DEF Phase
  <2>3. LockTypes(lock) /\ -1 \in {1, -1} /\ 1 \in {1, -1} /\ -1 # 1
    BY <1>1 DEF Phase
  <2>4. l.group[g].requests = lock.group[g].requests + (-1)
    BY <1>3, <1>4, <2>3, RequestFacts
  <2>5. \A h \in Groups \ {g} : l.group[h] = lock.group[h]
    BY <1>3, <1>4, <2>3, RequestFacts
  <2>6. SameShape(l, lock') /\ lock'.group[g].requests = l.group[g].requests + 1
    BY <2>1, <2>2, <2>3, RequestFacts
  <2>7. \A h \in Groups \ {g} : lock'.group[h] = l.group[h]
    BY <2>1, <2>2, <2>3, RequestFacts
  <2>8. Phase(lock')
    BY <2>2, <2>6, SameShapePhase
  <2>9. lock.group[g].requests \in Int
    BY <1>3, <2>3, FieldTypes
  <2>10. \A h \in Groups : lock'.group[h].requests = lock.group[h].requests
    BY <2>4, <2>5, <2>6, <2>7, <2>9
  <2>11. StayedTo(lock, lock')
    BY <2>2, <2>6, <2>8, <2>10 DEF StayedTo, FairStep, SameShape
  <2>12. Stays(c)
    BY <1>1, <1>2, <1>3, <1>5, <2>1, <2>11 DEF Stays, Persist, ClientTypes
  <2> QED  BY <2>12, StayIInv
<1>6. CASE PersistThrows(c, type[c], g, l)
  <2>1. /\ lock' = IF l.group[g].requests = 0 THEN DropOwnerGroupAndPassOwnership(l, g, type[c]) ELSE l
        /\ CountPhases(lock')
    BY <1>6 DEF PersistThrows, SetLock
  <2>2. LeftTo(lock, g, lock')
    BY <1>1, <1>3, <1>4, <2>1, OwnerLeaves
  <2>3. Leaves(c)
    BY <1>1, <1>2, <1>6, <2>1, <2>2 DEF Leaves, PersistThrows
  <2> QED  BY <2>3, LeaveIInv
<1> QED  BY <1>2, <1>4, <1>5, <1>6 DEF WakeUp, Acquire

LEMMA JoinFacts ==
  ASSUME NEW l, Phase(l), NEW g \in Range(l.readers_queue)
  PROVE  EnteredTo(l, "Read", g, l) /\ g \in Groups
<1>1. g \in Groups
  BY FieldTypes DEF Phase
<1> QED  BY <1>1 DEF EnteredTo, FairStep

(* The owner of a lock that a query holds and no writer owns. *)
LEMMA FastPathIInv ==
  ASSUME IInv, NEW c \in Clients, FastPath(c)
  PROVE  IInv'
<1>1. /\ Phase(lock) /\ Membership /\ ClientTypes /\ pc[c] = "idle"
      /\ QueryOf[c] \in Queries /\ owner_queries[QueryOf[c]] > 0 /\ lock.wrlock_owner = End
  BY DEF IInv, FastPath, MayLock, OwnsAlready
<1>2. PICK d \in Clients : pc[d] = "holding"
  <2>1. owner_queries[QueryOf[c]] = Cardinality(Holders(QueryOf[c]))
    BY <1>1 DEF Membership, QueriesAreCounted
  <2>2. Holders(QueryOf[c]) # {}
    BY <1>1, <2>1, FS_EmptySet
  <2> QED  BY <2>2 DEF Holders
<1>3. it_group[d] \in ListedIn(lock)
  BY <1>1, <1>2, ActiveListed DEF Active
<1>4. ~Free(lock)
  BY <1>3, EmptyRange DEF Free, ListedIn
<1>5. ~Writing(lock)
  <2> SUFFICES ASSUME Writing(lock) PROVE FALSE
    OBVIOUS
  <2>1. lock.writers_queue # <<>> /\ lock.writers_queue[1] = End /\ lock.writers_queue \in Seq(Groups)
    BY <1>1, FieldTypes DEF Writing, Phase
  <2>2. lock.writers_queue[1] \in Groups
    BY <2>1
  <2> QED  BY <2>1, <2>2, GroupsAssumption
<1>6. PICK i \in DOMAIN lock.readers_queue : ReadingTo(lock, i)
  BY <1>1, <1>4, <1>5 DEF Phase, Reading
<1>7. PICK g : g = lock.rdlock_owner
  OBVIOUS
<1>8. g \in Range(lock.readers_queue) /\ Own(lock, g)
  <2>1. lock.readers_queue \in Seq(Groups)
    BY <1>1, FieldTypes DEF Phase
  <2>2. i <= i
    BY <2>1
  <2> QED  BY <1>6, <1>7, <2>2 DEF ReadingTo, Range
<1>9. EnteredTo(lock, "Read", g, lock) /\ g \in Groups
  BY <1>1, <1>8, JoinFacts
<1>10. Enters(c, "holding", "Read", g, lock)
  BY <1>1, <1>7, <1>8, <1>9 DEF Enters, FastPath, Persist, SetLock
<1> QED  BY <1>10, EnterIInv

(* The group of a new request, and the lock once it may have taken it. *)
LEMMA AcquireIInv ==
  ASSUME IInv, NEW c \in Clients, pc[c] = "idle", NEW t \in {"Read", "Write"}, NEW g \in Groups,
         NEW n, EnteredTo(lock, t, g, n), t = "Write" => g \notin ListedIn(lock),
         \/ Own(n, g) /\ Persist(c, t, g, n)
         \/ /\ pc' = [pc EXCEPT ![c] = "waiting"]
            /\ type' = [type EXCEPT ![c] = t]
            /\ it_group' = [it_group EXCEPT ![c] = g]
            /\ SetLock(AddRequest(n, g))
            /\ UNCHANGED owner_queries
  PROVE  IInv'
<1>1. CASE Own(n, g) /\ Persist(c, t, g, n)
  <2>1. Enters(c, "holding", t, g, n)
    BY <1>1 DEF Enters, Persist, SetLock
  <2> QED  BY <2>1, EnterIInv
<1>2. CASE /\ pc' = [pc EXCEPT ![c] = "waiting"]
           /\ type' = [type EXCEPT ![c] = t]
           /\ it_group' = [it_group EXCEPT ![c] = g]
           /\ SetLock(AddRequest(n, g))
           /\ UNCHANGED owner_queries
  <2>1. Enters(c, "waiting", t, g, n)
    BY <1>2 DEF Enters, SetLock
  <2> QED  BY <2>1, EnterIInv
<1> QED  BY <1>1, <1>2

LEMMA AcquireFailsIInv ==
  ASSUME IInv, NEW c \in Clients, pc[c] = "idle", NEW t, NEW g, NEW n, PersistThrows(c, t, g, n),
         StayedTo(lock, IF n.group[g].requests = 0 THEN DropOwnerGroupAndPassOwnership(n, g, t) ELSE n)
  PROVE  IInv'
<1>1. StayedTo(lock, lock') /\ CountPhases(lock')
  BY DEF PersistThrows, SetLock
<1>2. Stays(c)
  BY <1>1 DEF Stays, PersistThrows, Leave, IInv, ClientTypes
<1> QED  BY <1>2, StayIInv

LEMMA GetLockIInv ==
  ASSUME IInv, NEW c \in Clients, NEW t \in {"Read", "Write"}, GetLock(c, t)
  PROVE  IInv'
<1>1. Phase(lock) /\ Membership /\ ClientTypes /\ pc[c] = "idle" /\ ~Active(c) /\ LockTypes(lock)
  BY DEF IInv, GetLock, MayLock, Active, Phase
<1>2. /\ lock.readers_queue \in Seq(Groups) /\ lock.writers_queue \in Seq(Groups)
      /\ Range(lock.readers_queue) \subseteq Groups
  BY <1>1, FieldTypes
<1>3. CASE t = "Read" /\ CanUseLastGroup
  <2>1. PICK g : g = Last(lock.readers_queue)
    OBVIOUS
  <2>2. g \in Range(lock.readers_queue)
    BY <1>2, <1>3, <2>1 DEF CanUseLastGroup, Last, Range
  <2>3. EnteredTo(lock, "Read", g, lock) /\ g \in Groups
    BY <1>1, <2>2, JoinFacts
  <2>4. ~(lock.rdlock_owner = End /\ lock.wrlock_owner = End)
    <3>1. ~Free(lock)
      BY <1>3 DEF Free, CanUseLastGroup
    <3> QED  BY <1>1, <3>1, NotFree
  <2>5. \/ Own(lock, g) /\ Acquire(c, t, g, lock)
        \/ /\ pc' = [pc EXCEPT ![c] = "waiting"]
           /\ type' = [type EXCEPT ![c] = t]
           /\ it_group' = [it_group EXCEPT ![c] = g]
           /\ SetLock(AddRequest(lock, g))
           /\ UNCHANGED owner_queries
    BY <1>3, <2>1, <2>4 DEF GetLock, Own
  <2>6. CASE PersistThrows(c, t, g, lock)
    <3>1. lock.group[g].requests # 0
      <4>1. PICK d \in Clients : Active(d) /\ it_group[d] = g
        BY <1>1, <2>2 DEF Membership, NoEmptyGroup, ListedIn
      <4>2. Members(g) # {} /\ Members(g) \subseteq Clients
        BY <4>1 DEF Members, Active
      <4> QED  BY <1>1, <2>3, <4>2, CardinalityFacts DEF Membership, RequestsAreCounted
    <3>2. StayedTo(lock, lock)
      BY <1>1 DEF StayedTo, FairStep
    <3> QED  BY <1>1, <2>6, <3>1, <3>2, AcquireFailsIInv
  <2>7. CASE ~PersistThrows(c, t, g, lock)
    <3>1. t = "Read"
      BY <1>3
    <3> QED  BY <1>1, <2>3, <2>5, <2>7, <3>1, AcquireIInv DEF Acquire
  <2> QED  BY <2>6, <2>7
<1>4. CASE ~(t = "Read" /\ CanUseLastGroup)
  <2>1. PICK g : g = NewGroup
    OBVIOUS
  <2>2. g \in Groups \ ListedIn(lock) /\ g \in Groups
    BY <1>1, <2>1, NewGroupExists
  <2>3. PICK n : n = Taken(Added(lock, t, g), t, g)
    OBVIOUS
  <2>4. \/ Own(n, g) /\ Acquire(c, t, g, n)
        \/ /\ pc' = [pc EXCEPT ![c] = "waiting"]
           /\ type' = [type EXCEPT ![c] = t]
           /\ it_group' = [it_group EXCEPT ![c] = g]
           /\ SetLock(AddRequest(n, g))
           /\ UNCHANGED owner_queries
    BY <1>4, <2>1, <2>3 DEF GetLock, Own, Taken, Added
  <2>5. EnteredTo(lock, t, g, n) /\ n.group[g].requests = 0 /\ (Own(n, g) => Free(lock))
    <3>1. CASE Free(lock)
      BY <1>1, <2>2, <2>3, <3>1, NewGroupTakes
    <3>2. CASE ~Free(lock)
      <4>1. t = "Read" => ~(/\ lock.readers_queue # <<>>
                            /\ \/ ~Own(lock, Last(lock.readers_queue))
                               \/ lock.writers_queue = <<>>)
        BY <1>4 DEF CanUseLastGroup, Own
      <4>2. EnteredTo(lock, t, g, n) /\ n.group[g] = NoGroup
        BY <1>1, <2>2, <2>3, <3>2, <4>1, NewGroupWaits
      <4> QED  BY <4>2 DEF NoGroup, Own
    <3> QED  BY <3>1, <3>2
  <2>6. CASE Own(n, g) /\ PersistThrows(c, t, g, n)
    <3>1. Free(lock) /\ Phase(n) /\ ListedIn(lock) = {}
      BY <2>5, <2>6, EmptyRange DEF EnteredTo, Free, ListedIn
    <3>2. OwnsAs(n, g, t)
      BY <2>5, <2>6 DEF OwnsAs, EnteredTo
    <3>3. PICK m : m = DropOwnerGroupAndPassOwnership(n, g, t)
      OBVIOUS
    <3>4. DroppedTo(n, g, m)
      BY <2>2, <3>1, <3>2, <3>3, DropFacts
    <3>5. /\ Range(m.readers_queue) = Range(lock.readers_queue)
          /\ Range(m.writers_queue) = Range(lock.writers_queue)
          /\ Phase(m) /\ Range(m.readers_queue) = {}
      BY <2>5, <3>1, <3>4, EmptyRange DEF EnteredTo, DroppedTo, Free
    <3>6. FairStep(lock, m)
      BY <3>5 DEF FairStep
    <3>7. \A h \in Groups : lock.group[h] = NoGroup /\ ~Own(lock, h)
      BY <1>1, <3>1 DEF LockTypes, Own, NoGroup
    <3>8. \A h \in Groups : m.group[h].requests = lock.group[h].requests
      BY <2>5, <3>4, <3>7 DEF EnteredTo, DroppedTo
    <3>9. StayedTo(lock, m)
      BY <3>5, <3>6, <3>7, <3>8 DEF StayedTo
    <3> QED  BY <1>1, <2>5, <2>6, <3>3, <3>9, AcquireFailsIInv
  <2>7. CASE ~(Own(n, g) /\ PersistThrows(c, t, g, n))
    BY <1>1, <2>2, <2>4, <2>5, <2>7, AcquireIInv DEF Acquire
  <2> QED  BY <2>6, <2>7
<1> QED  BY <1>3, <1>4

LEMMA NextIInv ==
  ASSUME IInv, [Next]_vars
  PROVE  IInv'
<1>1. CASE Next
  <2>1. PICK c \in Clients :
          \/ FastPath(c)
          \/ \E t \in {"Read", "Write"} : GetLock(c, t)
          \/ WakeUp(c) \/ TimeOut(c) \/ Unlock(c)
    BY <1>1 DEF Next
  <2>2. CASE \E t \in {"Read", "Write"} : GetLock(c, t)
    BY <2>2, GetLockIInv
  <2> QED  BY <2>1, <2>2, FastPathIInv, WakeUpIInv, TimeOutIInv, UnlockIInv
<1>2. CASE UNCHANGED vars
  <2>1. Phase(lock)' <=> Phase(lock)
    BY <1>2 DEF vars, Phase, LockTypes, Free, Reading, ReadingTo, Writing, Own, ListedIn
  <2>2. ClientTypes' <=> ClientTypes
    BY <1>2 DEF vars, ClientTypes
  <2>3. Membership' <=> Membership
    BY <1>2 DEF vars, Membership, GroupsAreListed, HoldersOwn, WritersAreAlone, NoEmptyGroup,
                RequestsAreCounted, QueriesAreCounted, Active, Members, Holders, ListedIn, Own
  <2>4. Overtaking' <=> Overtaking
    BY <1>2 DEF vars, Overtaking, Own
  <2> QED  BY <2>1, <2>2, <2>3, <2>4 DEF IInv
<1> QED  BY <1>1, <1>2

(* The inductive invariant: the lock is free, read or written, and the     *)
(* groups are those of the requests and holders.                           *)
THEOREM PhasesInductive == Spec => []IInv
<1>1. Init => IInv
  BY InitIInv
<1>2. IInv /\ [Next]_vars => IInv'
  BY NextIInv
<1> QED  BY <1>1, <1>2, PTL DEF Spec

(* A reader is never overtaken by a second writer, whoever comes, times    *)
(* out, fails or leaves meanwhile: the phase-fair order of RWLock.h.       *)
THEOREM PhaseFairness == Spec => []PhaseFair
<1>1. IInv => PhaseFair
  BY DEF IInv, Overtaking, PhaseFair, ClientTypes
<1> QED  BY <1>1, PhasesInductive, PTL

(* A holder that writes is the only holder. *)
WriterHoldsAlone ==
  \A c, d \in Clients : c # d /\ pc[c] = "holding" /\ pc[d] = "holding" => type[c] = "Read"

LEMMA Exclusion == IInv => WriterHoldsAlone
<1> SUFFICES ASSUME IInv, NEW c \in Clients, NEW d \in Clients, c # d, pc[c] = "holding", pc[d] = "holding"
             PROVE  type[c] = "Read"
  BY DEF WriterHoldsAlone
<1>1. /\ Phase(lock) /\ Membership /\ ClientTypes /\ Active(c) /\ Active(d)
      /\ Own(lock, it_group[c]) /\ Own(lock, it_group[d])
      /\ type[c] \in {"Read", "Write"} /\ type[d] \in {"Read", "Write"}
  BY DEF IInv, Membership, HoldersOwn, Active, ClientTypes
<1>2. SUFFICES ASSUME type[c] = "Write" PROVE FALSE
  BY <1>1
<1>3. /\ it_group[c] \in Range(lock.writers_queue)
      /\ it_group[d] \in Range(IF type[d] = "Read" THEN lock.readers_queue ELSE lock.writers_queue)
  BY <1>1, <1>2 DEF Membership, GroupsAreListed
<1>4. Writing(lock)
  BY <1>1, <1>3, EmptyRange DEF Phase, Free, Reading
<1>5. it_group[d] \in Range(lock.writers_queue)
  BY <1>1, <1>3, <1>4 DEF Writing
<1>6. it_group[c] = it_group[d]
  BY <1>1, <1>3, <1>4, <1>5 DEF Writing, Range
<1> QED  BY <1>1, <1>2, <1>6 DEF Membership, WritersAreAlone

(* What the callers see of a step of client c. *)
LEMMA OwnerStep ==
  ASSUME IInv, IInv', NEW c \in Clients,
         \A d \in Clients \ {c} : pc'[d] = pc[d] /\ type'[d] = type[d],
         ~(pc[c] = "holding" /\ pc'[c] = "holding")
  PROVE  [RW!Next]_owner
<1>0. ClientTypes /\ ClientTypes'
  BY DEF IInv
<1>x. \A d, e \in Clients : d # e /\ pc'[d] = "holding" /\ pc'[e] = "holding" => type'[d] = "Read"
  <2>1. WriterHoldsAlone'
    BY Exclusion, PTL
  <2> QED  BY <2>1 DEF WriterHoldsAlone
<1>1. \A d \in Clients \ {c} : owner'[d] = owner[d]
  BY DEF owner
<1>2. owner = [d \in Clients |-> owner[d]] /\ owner' = [d \in Clients |-> owner'[d]]
  BY DEF owner
<1>3. CASE pc[c] # "holding" /\ pc'[c] # "holding"
  <2>1. owner'[c] = owner[c]
    BY <1>3 DEF owner
  <2>2. owner' = owner
    BY <1>1, <1>2, <2>1
  <2> QED  BY <2>2
<1>4. CASE pc[c] = "holding" /\ pc'[c] # "holding"
  <2>1. owner[c] \in {"shared", "exclusive"} /\ owner'[c] = "none"
    BY <1>0, <1>4 DEF owner
  <2>2. owner' = [owner EXCEPT ![c] = "none"]
    BY <1>1, <1>2, <2>1
  <2> QED  BY <2>1, <2>2 DEF RW!Next, RW!ReleaseShared, RW!ReleaseExclusive
<1>5. CASE pc[c] # "holding" /\ pc'[c] = "holding" /\ type'[c] = "Read"
  <2>1. owner[c] = "none" /\ owner'[c] = "shared"
    BY <1>5 DEF owner
  <2>2. owner' = [owner EXCEPT ![c] = "shared"]
    BY <1>1, <1>2, <2>1
  <2>3. ASSUME NEW d \in Clients PROVE owner[d] \in {"none", "shared"}
    <3>1. CASE d = c
      BY <2>1, <3>1
    <3>2. CASE d # c /\ pc[d] # "holding"
      BY <3>2 DEF owner
    <3>3. CASE d # c /\ pc[d] = "holding"
      <4>1. pc'[d] = "holding" /\ type'[d] = type[d]
        BY <3>3
      <4>2. type'[d] = "Read"
        BY <1>5, <3>3, <4>1, <1>x
      <4> QED  BY <3>3, <4>1, <4>2 DEF owner
    <3> QED  BY <3>1, <3>2, <3>3
  <2> QED  BY <2>1, <2>2, <2>3 DEF RW!Next, RW!AcquireShared, RW!Unclaimed
<1>6. CASE pc[c] # "holding" /\ pc'[c] = "holding" /\ type'[c] = "Write"
  <2>1. owner[c] = "none" /\ owner'[c] = "exclusive"
    BY <1>6 DEF owner
  <2>2. owner' = [owner EXCEPT ![c] = "exclusive"]
    BY <1>1, <1>2, <2>1
  <2>3. ASSUME NEW d \in Clients PROVE owner[d] = "none"
    <3>1. CASE d = c
      BY <2>1, <3>1
    <3>2. CASE d # c
      <4>1. pc[d] # "holding"
        BY <1>6, <3>2, <1>x
      <4> QED  BY <4>1 DEF owner
    <3> QED  BY <3>1, <3>2
  <2> QED  BY <2>2, <2>3 DEF RW!Next, RW!AcquireAtOnce
<1>7. pc'[c] = "holding" => type'[c] \in {"Read", "Write"}
  BY <1>0 DEF ClientTypes
<1> QED  BY <1>3, <1>4, <1>5, <1>6, <1>7

(* getLock(), its fast path and unlock() implement a readers-writer lock:  *)
(* a writer holds alone and readers enter only while no writer holds, for  *)
(* any clients, queries, nesting, timeouts and failures.                   *)
THEOREM Refinement == Spec => ImplementsReadersWriter
<1>1. Init => RW!Init
  BY DEF Init, RW!Init, owner
<1>2. IInv /\ IInv' /\ [Next]_vars => [RW!Next]_owner
  <2> SUFFICES ASSUME IInv, IInv', [Next]_vars PROVE [RW!Next]_owner
    OBVIOUS
  <2>1. CASE UNCHANGED vars
    BY <2>1 DEF vars, owner
  <2>2. CASE Next
    <3>0. ClientTypes
      BY DEF IInv
    <3>1. PICK c \in Clients :
            \/ FastPath(c)
            \/ \E t \in {"Read", "Write"} : GetLock(c, t)
            \/ WakeUp(c) \/ TimeOut(c) \/ Unlock(c)
      BY <2>2 DEF Next
    <3>2. PICK p, t, g : /\ pc' = [pc EXCEPT ![c] = p]
                         /\ type' = [type EXCEPT ![c] = t]
                         /\ it_group' = [it_group EXCEPT ![c] = g]
                         /\ pc[c] = "holding" => p # "holding"
      <4>1. CASE FastPath(c)
        BY <4>1 DEF FastPath, MayLock, Persist
      <4>2. CASE \E t \in {"Read", "Write"} : GetLock(c, t)
        <5>1. PICK t \in {"Read", "Write"} : GetLock(c, t)
          BY <4>2
        <5>2. pc[c] = "idle"
          BY <5>1 DEF GetLock, MayLock
        <5> QED  BY <5>1, <5>2 DEF GetLock, Acquire, Persist, PersistThrows, Leave
      <4>3. CASE WakeUp(c)
        BY <4>3 DEF WakeUp, Acquire, Persist, PersistThrows, Leave
      <4>4. CASE TimeOut(c)
        BY <4>4 DEF TimeOut, Leave
      <4>5. CASE Unlock(c)
        <5>1. PICK p : p = (IF c \in OneShot THEN "done" ELSE "idle")
          OBVIOUS
        <5>2. p # "holding" /\ pc' = [pc EXCEPT ![c] = p]
          BY <4>5, <5>1 DEF Unlock, Leave
        <5> QED  BY <4>5, <5>2 DEF Unlock, Leave
      <4> QED  BY <3>1, <4>1, <4>2, <4>3, <4>4, <4>5
    <3>3. /\ \A d \in Clients \ {c} : pc'[d] = pc[d] /\ type'[d] = type[d]
          /\ ~(pc[c] = "holding" /\ pc'[c] = "holding")
      BY <3>0, <3>2 DEF ClientTypes
    <3> QED  BY <3>3, OwnerStep
  <2> QED  BY <2>1, <2>2
<1> QED  BY <1>1, <1>2, PhasesInductive, PTL DEF Spec, RW!Spec, ImplementsReadersWriter

(* The owners are the groups up to rdlock_owner, or the first writer. *)
LEMMA OwnersOf ==
  ASSUME Phase(lock), NEW owners,
         owners = IF lock.rdlock_owner = End THEN {}
                  ELSE {lock.readers_queue[i] : i \in 1 .. Position(lock.readers_queue, lock.rdlock_owner)}
  PROVE  /\ lock.rdlock_owner \in Range(lock.readers_queue) \cup {End}
         /\ lock.wrlock_owner \in {End, First(lock.writers_queue)}
         /\ lock.rdlock_owner = End \/ lock.wrlock_owner = End
         /\ lock.rdlock_owner = End /\ lock.wrlock_owner = End => ListedIn(lock) = {}
         /\ {g \in Groups : Own(lock, g)} = owners \cup ({lock.wrlock_owner} \ {End})
         /\ \A g, h \in Range(lock.readers_queue) \ owners : g = h
         /\ Range(lock.readers_queue) \ owners # {} => lock.writers_queue # <<>>
<1>0. PICK q : q = lock.readers_queue
  OBVIOUS
<1>1. /\ LockTypes(lock) /\ q \in Seq(Groups) /\ lock.writers_queue \in Seq(Groups) /\ Unique(q)
      /\ Range(q) \subseteq Groups /\ Range(lock.writers_queue) \subseteq Groups
      /\ Len(q) \in Nat /\ DOMAIN q = 1 .. Len(q)
  BY <1>0, FieldTypes DEF Phase
<1>2. \A g \in Groups : Own(lock, g) => g \in Range(q) \/ g \in Range(lock.writers_queue)
  BY <1>0, <1>1, OwnersAreListed DEF ListedIn
<1>3. CASE Free(lock)
  <2>1. owners = {} /\ {g \in Groups : Own(lock, g)} = {}
    BY <1>0, <1>2, <1>3, EmptyRange DEF Free
  <2> QED  BY <1>3, <2>1, EmptyRange DEF Free, ListedIn
<1>4. CASE Reading(lock)
  <2>1. PICK i \in DOMAIN q : ReadingTo(lock, i)
    BY <1>0, <1>4 DEF Reading
  <2>2. /\ lock.rdlock_owner = q[i] /\ q[i] \in Range(q) /\ q[i] \in Groups /\ lock.wrlock_owner = End
        /\ \A j \in DOMAIN q : Own(lock, q[j]) <=> j <= i
        /\ i = Len(q) \/ (i = Len(q) - 1 /\ lock.writers_queue # <<>>)
    BY <1>0, <1>1, <1>4, <2>1 DEF Reading, ReadingTo, Range
  <2>3. Position(q, lock.rdlock_owner) = i /\ lock.rdlock_owner # End
    BY <1>1, <2>2, PositionIs, GroupsAssumption
  <2>4. owners = {q[j] : j \in 1 .. i}
    BY <1>0, <2>3
  <2>5. 1 .. i \subseteq DOMAIN q /\ \A j \in DOMAIN q : j <= i => j \in 1 .. i
    BY <1>1
  <2>6. {g \in Groups : Own(lock, g)} = owners
    <3>1. ASSUME NEW g \in Groups, Own(lock, g) PROVE g \in owners
      <4>1. g \in Range(q)
        BY <1>2, <1>4, <3>1 DEF Reading
      <4>2. PICK j \in DOMAIN q : q[j] = g
        BY <4>1 DEF Range
      <4> QED  BY <2>2, <2>4, <2>5, <3>1, <4>2
    <3>2. ASSUME NEW j \in 1 .. i PROVE q[j] \in Groups /\ Own(lock, q[j])
      BY <1>1, <2>2, <2>5
    <3> QED  BY <2>4, <3>1, <3>2
  <2>7. ASSUME NEW g \in Range(q) \ owners PROVE g = q[Len(q)] /\ lock.writers_queue # <<>>
    <3>1. PICK j \in DOMAIN q : q[j] = g
      BY DEF Range
    <3>2. ~(j <= i)
      BY <2>4, <2>5, <3>1
    <3> QED  BY <1>1, <2>2, <3>1, <3>2
  <2>8. \A g, h \in Range(q) \ owners : g = h
    BY <2>7
  <2>9. Range(q) \ owners # {} => lock.writers_queue # <<>>
    BY <2>7
  <2>10. owners = owners \cup ({lock.wrlock_owner} \ {End})
    BY <2>2
  <2> QED  BY <1>0, <2>2, <2>3, <2>6, <2>8, <2>9, <2>10
<1>5. CASE Writing(lock)
  <2>1. PICK w : w = lock.writers_queue[1]
    OBVIOUS
  <2>2. /\ lock.rdlock_owner = End /\ lock.wrlock_owner = w /\ lock.writers_queue # <<>>
        /\ 1 \in DOMAIN lock.writers_queue /\ w \in Groups /\ Own(lock, w)
        /\ w = First(lock.writers_queue)
    BY <1>1, <1>5, <2>1 DEF Writing, First
  <2>3. owners = {} /\ w # End
    BY <2>2, GroupsAssumption
  <2>4. \A g \in Groups : Own(lock, g) => g = w
    <3> SUFFICES ASSUME NEW g \in Groups, Own(lock, g) PROVE g = w
      OBVIOUS
    <3>1. g \in Range(lock.writers_queue)
      BY <1>0, <1>2, <1>5 DEF Writing
    <3>2. PICK j \in DOMAIN lock.writers_queue : lock.writers_queue[j] = g
      BY <3>1 DEF Range
    <3> QED  BY <1>5, <2>1, <3>2 DEF Writing
  <2>5. {g \in Groups : Own(lock, g)} = {w}
    BY <2>2, <2>4
  <2>6. \A g, h \in Range(q) : g = h
    <3>1. Len(q) <= 1
      BY <1>0, <1>5 DEF Writing
    <3>2. \A j \in DOMAIN q : j = 1
      BY <1>1, <3>1
    <3> QED  BY <3>2 DEF Range
  <2> QED  BY <1>0, <2>2, <2>3, <2>5, <2>6
<1> QED  BY <1>3, <1>4, <1>5 DEF Phase

(* The phases of RWLock.h, for any clients: the owners are the groups of   *)
(* readers up to rdlock_owner or the first writer, readers wait only for a *)
(* writer and in one group, and requests, groups, holders and              *)
(* owner_queries agree.                                                    *)
THEOREM PhasesConsistent == Spec => []PhasesAreConsistent
<1>1. IInv => PhasesAreConsistent
  <2> SUFFICES ASSUME IInv PROVE PhasesAreConsistent
    OBVIOUS
  <2>1. Phase(lock) /\ Membership /\ ClientTypes
    BY DEF IInv
  <2>2. PICK owners : owners = IF lock.rdlock_owner = End THEN {}
                  ELSE {lock.readers_queue[i] : i \in 1 .. Position(lock.readers_queue, lock.rdlock_owner)}
    OBVIOUS
  <2>3. /\ lock.rdlock_owner \in Range(lock.readers_queue) \cup {End}
        /\ lock.wrlock_owner \in {End, First(lock.writers_queue)}
        /\ lock.rdlock_owner = End \/ lock.wrlock_owner = End
        /\ lock.rdlock_owner = End /\ lock.wrlock_owner = End => ListedIn(lock) = {}
    BY <2>1, <2>2, OwnersOf
  <2>4. /\ {g \in Groups : Own(lock, g)} = owners \cup ({lock.wrlock_owner} \ {End})
        /\ \A g, h \in Range(lock.readers_queue) \ owners : g = h
        /\ Range(lock.readers_queue) \ owners # {} => lock.writers_queue # <<>>
    <3>1. {g \in Groups : Own(lock, g)} = owners \cup ({lock.wrlock_owner} \ {End})
      BY <2>1, <2>2, OwnersOf
    <3>2. \A g, h \in Range(lock.readers_queue) \ owners : g = h
      BY <2>1, <2>2, OwnersOf
    <3>3. Range(lock.readers_queue) \ owners # {} => lock.writers_queue # <<>>
      BY <2>1, <2>2, OwnersOf
    <3> QED  BY <3>1, <3>2, <3>3
  <2>5. Cardinality(Range(lock.readers_queue) \ owners) <= 1
    <3>1. PICK g : Range(lock.readers_queue) \ owners \subseteq {g}
      BY <2>4
    <3>2. IsFiniteSet({g}) /\ Cardinality({g}) = 1
      BY FS_Singleton
    <3> QED  BY <3>1, <3>2, FS_Subset
  <2>6. \A g \in Groups : g \in ListedIn(lock) <=> Members(g) # {}
    <3>1. ASSUME NEW g \in Groups, g \in ListedIn(lock) PROVE Members(g) # {}
      BY <2>1, <3>1 DEF Membership, NoEmptyGroup, Members, Active
    <3>2. ASSUME NEW g \in Groups, NEW c \in Members(g) PROVE g \in ListedIn(lock)
      <4>1. c \in Clients /\ Active(c) /\ it_group[c] = g
        BY DEF Members, Active
      <4> QED  BY <2>1, <4>1, ActiveListed
    <3> QED  BY <3>1, <3>2
  <2>7. /\ \A g \in Groups : lock.group[g].requests = Cardinality(Members(g))
        /\ \A c \in Clients : pc[c] = "holding" => IsOwner(it_group[c])
        /\ \A q \in Queries :
             owner_queries[q] = Cardinality({c \in Clients : pc[c] = "holding" /\ QueryOf[c] = q})
    BY <2>1 DEF Membership, RequestsAreCounted, HoldersOwn, QueriesAreCounted, Holders, IsOwner, Own
  <2>8. {g \in Groups : IsOwner(g)} = {g \in Groups : Own(lock, g)} /\ Listed = ListedIn(lock)
    BY DEF IsOwner, Own, Listed, ListedIn
  <2> QED  BY <2>2, <2>3, <2>4, <2>5, <2>6, <2>7, <2>8 DEF PhasesAreConsistent
<1> QED  BY <1>1, PhasesInductive, PTL
=============================================================================
