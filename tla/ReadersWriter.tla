--------------------------- MODULE ReadersWriter ---------------------------
(***************************************************************************)
(* What a readers-writer lock (Common/SharedMutex, Common/RWLock) promises *)
(* to its callers, with no futex, no atomic word and no wait queue:        *)
(* threads own it in shared or in exclusive mode, and a thread that has    *)
(* claimed exclusive ownership keeps new readers out while the old ones    *)
(* leave.                                                                  *)
(***************************************************************************)
CONSTANTS Threads

VARIABLE owner      \* owner[t]: what thread t has of the mutex

Ownership == {"none", "shared", "claimed", "exclusive"}

Unclaimed == \A u \in Threads : owner[u] \in {"none", "shared"}

NoReader == \A u \in Threads : owner[u] # "shared"

Init == owner = [t \in Threads |-> "none"]

(* A reader enters only while no writer owns or has claimed the mutex. *)
AcquireShared(t) ==
  /\ owner[t] = "none"
  /\ Unclaimed
  /\ owner' = [owner EXCEPT ![t] = "shared"]

ReleaseShared(t) ==
  /\ owner[t] = "shared"
  /\ owner' = [owner EXCEPT ![t] = "none"]

(* The first step of lock(): readers may still be inside. *)
Claim(t) ==
  /\ owner[t] = "none"
  /\ Unclaimed
  /\ owner' = [owner EXCEPT ![t] = "claimed"]

(* The second step of lock(): the last reader has left. *)
AcquireExclusive(t) ==
  /\ owner[t] = "claimed"
  /\ NoReader
  /\ owner' = [owner EXCEPT ![t] = "exclusive"]

(* A lock that nobody has is taken in one step. *)
AcquireAtOnce(t) ==
  /\ \A u \in Threads : owner[u] = "none"
  /\ owner' = [owner EXCEPT ![t] = "exclusive"]

ReleaseExclusive(t) ==
  /\ owner[t] = "exclusive"
  /\ owner' = [owner EXCEPT ![t] = "none"]

Next ==
  \E t \in Threads :
    \/ AcquireShared(t) \/ ReleaseShared(t)
    \/ Claim(t) \/ AcquireExclusive(t) \/ AcquireAtOnce(t) \/ ReleaseExclusive(t)

Spec == Init /\ [][Next]_owner
=============================================================================
