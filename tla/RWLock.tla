------------------------------- MODULE RWLock -------------------------------
(***************************************************************************)
(* Common/RWLock: the readers-writers lock of tables, granted to groups of *)
(* requests in phase-fair order.  Everything happens under                 *)
(* internal_state_mtx, so one action is one critical section: the part of  *)
(* getLock() before the wait on the group's condition variable, the part   *)
(* after it, and unlock() from the destructor of a lock holder.            *)
(*                                                                         *)
(* A client is one holder at a time of one query (or of no query).  Some   *)
(* clients lock inside the scope of another holder of the same query: the  *)
(* recursive locking that the fast path exists for.                        *)
(***************************************************************************)
EXTENDS Naturals, SequencesExt

CONSTANTS Clients,   \* holders that the callers may have at one time
          QueryOf,   \* QueryOf[c]: the query_id the client passes
          NoQuery,   \* RWLockImpl::NO_QUERY
          Outer,     \* Outer[c]: the holder within whose scope c locks, or c itself
          OneShot,   \* clients that lock only once
          Timed,     \* clients that pass a lock_timeout_ms
          Groups,    \* identities of the elements of the two lists
          End        \* readers_queue.end() and writers_queue.end()

ASSUME ClientsAssumption ==
  /\ IsFiniteSet(Clients) /\ OneShot \subseteq Clients /\ Timed \subseteq Clients
  /\ Outer \in [Clients -> Clients]
  /\ DOMAIN QueryOf = Clients
  /\ \A c \in Clients : Outer[c] # c => QueryOf[Outer[c]] = QueryOf[c] /\ QueryOf[c] # NoQuery

ASSUME GroupsAssumption ==
  /\ IsFiniteSet(Groups) /\ End \notin Groups
  /\ Cardinality(Groups) = Cardinality(Clients)

VARIABLES
  lock,           \* the two lists, their owners, and requests and ownership of each group
  owner_queries,  \* owner_queries[q]: number of holders of query q
  pc,             \* pc[c]: where client c is
  type,           \* type[c]: Read or Write, of the request or holder of c
  it_group,       \* it_group[c]: the group of the request or holder of c
  overtaken       \* overtaken[c]: write phases begun since reader c began to wait (at most 2)

vars == <<lock, owner_queries, pc, type, it_group, overtaken>>

Queries == {QueryOf[c] : c \in Clients} \ {NoQuery}
NoGroup == [requests |-> 0, ownership |-> FALSE]

Init ==
  /\ lock = [readers_queue |-> <<>>, writers_queue |-> <<>>,
             rdlock_owner |-> End, wrlock_owner |-> End,
             group |-> [g \in Groups |-> NoGroup]]
  /\ owner_queries = [q \in Queries |-> 0]
  /\ pc = [c \in Clients |-> "idle"]
  /\ type = [c \in Clients |-> "Read"]
  /\ it_group = [c \in Clients |-> End]
  /\ overtaken = [c \in Clients |-> 0]

-----------------------------------------------------------------------------
(* The lists.  rdlock_owner and wrlock_owner are iterators: an erased      *)
(* element is never dereferenced again.                                    *)

First(q) == IF q = <<>> THEN End ELSE q[1]        \* begin()
Position(q, g) == CHOOSE i \in DOMAIN q : q[i] = g
Without(q, g) == IF g \in Range(q) THEN RemoveAt(q, Position(q, g)) ELSE q

Erase(l, g) ==
  [l EXCEPT !.readers_queue = Without(@, g), !.writers_queue = Without(@, g),
            !.group[g] = NoGroup]

AddRequest(l, g) == [l EXCEPT !.group[g].requests = @ + 1]
DropRequest(l, g) == [l EXCEPT !.group[g].requests = @ - 1]

GrantOwnership(l, g) == [l EXCEPT !.group[g].ownership = TRUE]

(* Mutant: rdlock_owner stays at the group that had the ownership. *)
GrantOwnershipToAllReadersStays(l) ==
  IF l.rdlock_owner = End THEN l
  ELSE [l EXCEPT !.group = [g \in Groups |->
          IF g \in Range(l.readers_queue) THEN [@[g] EXCEPT !.ownership = TRUE] ELSE @[g]]]

(* Every group from rdlock_owner to the end of the list becomes an owner,  *)
(* and rdlock_owner the last of them.                                      *)
GrantOwnershipToAllReaders(l) ==
  IF l.rdlock_owner = End THEN l
  ELSE LET q == l.readers_queue
           granted == {q[i] : i \in Position(q, l.rdlock_owner) .. Len(q)}
       IN  [l EXCEPT
              !.group = [g \in Groups |->
                 IF g \in granted THEN [@[g] EXCEPT !.ownership = TRUE] ELSE @[g]],
              !.rdlock_owner = Last(q)]

(* One of several owning groups of readers has ended: the others keep the  *)
(* lock, and readers are admitted unless a writer waits.                   *)
LeaveReadPhase(l, g) ==
  LET q == l.readers_queue
      rest == Erase([l EXCEPT !.rdlock_owner = IF @ = g THEN q[Position(q, g) - 1] ELSE @], g)
  IN  IF l.writers_queue = <<>> THEN GrantOwnershipToAllReaders(rest) ELSE rest

(* Mutant: after a writer the next writer goes first. *)
NextPhaseWritersFirst(l, was) ==
  IF l.writers_queue # <<>>
    THEN GrantOwnership([l EXCEPT !.rdlock_owner = End, !.wrlock_owner = First(l.writers_queue)],
                        First(l.writers_queue))
    ELSE GrantOwnershipToAllReaders(
           [l EXCEPT !.rdlock_owner = First(l.readers_queue), !.wrlock_owner = End])

(* The last owning group has ended: after readers a writer goes first,     *)
(* after a writer all the readers that wait.                               *)
NextPhase(l, was) ==
  LET writers == l.writers_queue # <<>> /\ (was = "Read" \/ l.readers_queue = <<>>)
      next == [l EXCEPT !.rdlock_owner = IF writers THEN End ELSE First(l.readers_queue),
                        !.wrlock_owner = IF writers THEN First(l.writers_queue) ELSE End]
  IN  IF writers THEN GrantOwnership(next, next.wrlock_owner)
                 ELSE GrantOwnershipToAllReaders(next)

(* Mutant: the phase changes although other groups of readers own the lock. *)
DropOwnerGroupAtOnce(l, g, was) ==
  NextPhase(Erase([l EXCEPT !.rdlock_owner = End, !.wrlock_owner = End], g), was)

DropOwnerGroupAndPassOwnership(l, g, was) ==
  IF was = "Read" /\ l.rdlock_owner \notin {End, First(l.readers_queue)}
    THEN LeaveReadPhase(l, g)
    ELSE NextPhase(Erase([l EXCEPT !.rdlock_owner = End, !.wrlock_owner = End], g), was)

-----------------------------------------------------------------------------
(* A phase of writing begins when a writer's group gets the ownership. *)
CountPhases(new) ==
  overtaken' =
    [c \in Clients |->
      IF pc'[c] # "waiting" \/ type'[c] = "Write" THEN 0
      ELSE IF pc[c] = "waiting" /\ new.wrlock_owner \notin {End, lock.wrlock_owner}
           THEN IF overtaken[c] < 2 THEN overtaken[c] + 1 ELSE 2
      ELSE overtaken[c]]

SetLock(new) == lock' = new /\ CountPhases(new)

(* The call returns without a holder, or the holder is destroyed. *)
Leave(c) ==
  /\ pc' = [pc EXCEPT ![c] = IF c \in OneShot THEN "done" ELSE "idle"]
  /\ type' = [type EXCEPT ![c] = "Read"]
  /\ it_group' = [it_group EXCEPT ![c] = End]

(* Step 4 of getLock(): the query becomes an owner and the holder is bound *)
(* to its group; l does not count the request of c.                        *)
Persist(c, t, g, l) ==
  /\ owner_queries' = IF QueryOf[c] = NoQuery THEN owner_queries
                      ELSE [owner_queries EXCEPT ![QueryOf[c]] = @ + 1]
  /\ pc' = [pc EXCEPT ![c] = "holding"]
  /\ type' = [type EXCEPT ![c] = t]
  /\ it_group' = [it_group EXCEPT ![c] = g]
  /\ SetLock(AddRequest(l, g))

(* Inserting the query into owner_queries throws: the group is dropped if  *)
(* nobody else is in it.                                                   *)
PersistThrows(c, t, g, l) ==
  /\ QueryOf[c] \in Queries
  /\ Leave(c)
  /\ SetLock(IF l.group[g].requests = 0 THEN DropOwnerGroupAndPassOwnership(l, g, t) ELSE l)
  /\ UNCHANGED owner_queries

Acquire(c, t, g, l) == Persist(c, t, g, l) \/ PersistThrows(c, t, g, l)

(* The caller: a nested client locks while the outer holder is alive. *)
MayLock(c) == pc[c] = "idle" /\ (Outer[c] # c => pc[Outer[c]] = "holding")

(* Mutant: there is no fast path. *)
OwnsAlreadyNever(c) == FALSE

OwnsAlready(c) == QueryOf[c] \in Queries /\ owner_queries[QueryOf[c]] > 0

(* The fast path of getLock().  A write request, or any request while a    *)
(* writer owns the lock, is refused and changes nothing.                   *)
FastPath(c) ==
  /\ MayLock(c) /\ OwnsAlready(c)
  /\ lock.wrlock_owner = End
  /\ Persist(c, "Read", lock.rdlock_owner, lock)

NewGroup == CHOOSE g \in Groups : g \notin Range(lock.readers_queue) \cup Range(lock.writers_queue)

CanUseLastGroup ==
  /\ lock.readers_queue # <<>>
  /\ \/ ~lock.group[Last(lock.readers_queue)].ownership
     \/ lock.writers_queue = <<>>

(* Steps 1 to 3 of getLock(): find or add the group of the request, take   *)
(* the lock if it is free or the group owns it already, or begin to wait.  *)
GetLock(c, t) ==
  /\ MayLock(c) /\ ~OwnsAlready(c)
  /\ LET join == t = "Read" /\ CanUseLastGroup
         g == IF join THEN Last(lock.readers_queue) ELSE NewGroup
         l == IF join THEN lock
              ELSE IF t = "Read" THEN [lock EXCEPT !.readers_queue = Append(@, g)]
              ELSE [lock EXCEPT !.writers_queue = Append(@, g)]
         free == l.rdlock_owner = End /\ l.wrlock_owner = End
         taken == IF ~free THEN l
                  ELSE GrantOwnership(IF t = "Read" THEN [l EXCEPT !.rdlock_owner = g]
                                      ELSE [l EXCEPT !.wrlock_owner = g], g)
     IN  \/ taken.group[g].ownership /\ Acquire(c, t, g, taken)
         \/ /\ ~taken.group[g].ownership
            /\ pc' = [pc EXCEPT ![c] = "waiting"]
            /\ type' = [type EXCEPT ![c] = t]
            /\ it_group' = [it_group EXCEPT ![c] = g]
            /\ SetLock(AddRequest(taken, g))
            /\ UNCHANGED owner_queries

(* The wait ends because the group has got the ownership. *)
WakeUp(c) ==
  /\ pc[c] = "waiting"
  /\ lock.group[it_group[c]].ownership
  /\ Acquire(c, type[c], it_group[c], DropRequest(lock, it_group[c]))

(* "we need to wake up them now": a read phase in which no writer waits. *)
GiveUp(l) ==
  IF l.rdlock_owner # End /\ l.writers_queue = <<>> THEN GrantOwnershipToAllReaders(l) ELSE l

(* Step 3a of getLock(): the deadline passes while the group waits. *)
TimeOut(c) ==
  /\ pc[c] = "waiting" /\ c \in Timed
  /\ ~lock.group[it_group[c]].ownership
  /\ Leave(c)
  /\ LET g == it_group[c]
         l == DropRequest(lock, g)
     IN  SetLock(GiveUp(IF l.group[g].requests = 0 THEN Erase(l, g) ELSE l))
  /\ UNCHANGED owner_queries

(* unlock(), from the destructor of the holder: an outer holder outlives   *)
(* the ones taken within its scope.                                        *)
Unlock(c) ==
  /\ pc[c] = "holding"
  /\ \A d \in Clients \ {c} : Outer[d] = c => pc[d] \in {"idle", "done"}
  /\ Leave(c)
  /\ owner_queries' = IF QueryOf[c] = NoQuery THEN owner_queries
                      ELSE [owner_queries EXCEPT ![QueryOf[c]] = @ - 1]
  /\ LET g == it_group[c]
         l == DropRequest(lock, g)
     IN  SetLock(IF l.group[g].requests = 0
                 THEN DropOwnerGroupAndPassOwnership(l, g, type[c]) ELSE l)

Next ==
  \E c \in Clients :
    \/ FastPath(c)
    \/ \E t \in {"Read", "Write"} : GetLock(c, t)
    \/ WakeUp(c) \/ TimeOut(c) \/ Unlock(c)

Spec == Init /\ [][Next]_vars

(* A thread whose group owns the lock wakes up; a query ends, though it    *)
(* may take the lock again within its outermost holder any number of times. *)
FairSpec ==
  Spec /\ \A c \in Clients : WF_vars(WakeUp(c)) /\ SF_vars(Unlock(c))
-----------------------------------------------------------------------------
IsOwner(g) == lock.group[g].ownership
Listed == Range(lock.readers_queue) \cup Range(lock.writers_queue)
Members(g) == {c \in Clients : pc[c] \in {"waiting", "holding"} /\ it_group[c] = g}

(* RWLock.h on rdlock_owner and wrlock_owner: the owners are either the    *)
(* groups of readers up to rdlock_owner or the first writer alone, the     *)
(* lock is never free while somebody waits, at most one group of readers   *)
(* waits (the assertion of grantOwnershipToAllReaders()) and it waits only *)
(* for a writer; no group is left without a request, no request without a  *)
(* listed group, and only owners hold.                                     *)
PhasesAreConsistent ==
  LET rq == lock.readers_queue
      owners == IF lock.rdlock_owner = End THEN {}
                ELSE {rq[i] : i \in 1 .. Position(rq, lock.rdlock_owner)}
  IN  /\ lock.rdlock_owner \in Range(rq) \cup {End}
      /\ lock.wrlock_owner \in {End, First(lock.writers_queue)}
      /\ lock.rdlock_owner = End \/ lock.wrlock_owner = End
      /\ lock.rdlock_owner = End /\ lock.wrlock_owner = End => Listed = {}
      /\ {g \in Groups : IsOwner(g)} = owners \cup ({lock.wrlock_owner} \ {End})
      /\ Cardinality(Range(rq) \ owners) <= 1
      /\ Range(rq) \ owners # {} => lock.writers_queue # <<>>
      /\ \A g \in Groups : lock.group[g].requests = Cardinality(Members(g))
      /\ \A g \in Groups : g \in Listed <=> Members(g) # {}
      /\ \A c \in Clients : pc[c] = "holding" => IsOwner(it_group[c])
      /\ \A q \in Queries :
           owner_queries[q] = Cardinality({c \in Clients : pc[c] = "holding" /\ QueryOf[c] = q})

(* What the callers see of the lock. *)
owner == [c \in Clients |->
            IF pc[c] # "holding" THEN "none"
            ELSE IF type[c] = "Read" THEN "shared" ELSE "exclusive"]

RW == INSTANCE ReadersWriter WITH Threads <- Clients

(* getLock(), its fast path and unlock() implement ReadersWriter: a writer *)
(* holds alone, a reader never enters beside it.                           *)
ImplementsReadersWriter == RW!Spec

(* "serves requests in Phase Fair order": a reader waits for one phase of  *)
(* writing at the most, whatever writers come, time out and go meanwhile.  *)
PhaseFair == \A c \in Clients : overtaken[c] <= 1

(* RWLock.h: the lock may be acquired recursively "without waiting" by the *)
(* query that has it, "Otherwise the following deadlock is possible": no   *)
(* request waits for ever, whatever times out or throws meanwhile.         *)
RequestsAreServed ==
  \A c \in Clients : pc[c] = "waiting" ~> pc[c] # "waiting"
=============================================================================
