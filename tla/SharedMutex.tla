---------------------------- MODULE SharedMutex ----------------------------
(***************************************************************************)
(* Common/SharedMutex: a readers-writer lock over one 64-bit atomic word   *)
(* and two futexes, one on each half of the word.  One action is one       *)
(* atomic access of the code (a load, a store, a compare-exchange, a       *)
(* fetch_sub) or one futex system call.                                    *)
(*                                                                         *)
(* The halves are Half values wide (2^32 in the code): the upper one is    *)
(* the writers' mask, all ones or all zeros, the lower one counts readers. *)
(***************************************************************************)
EXTENDS Naturals, FiniteSets

CONSTANTS Threads,   \* threads that use the mutex
          Half,      \* number of values of half a word: 2^32
          NoThread   \* the value 0 of writer_thread_id

(* There are fewer threads than a 32-bit half can count. *)
ASSUME ThreadsFit ==
  /\ Half \in Nat
  /\ IsFiniteSet(Threads)
  /\ Cardinality(Threads) + 1 < Half
  /\ NoThread \notin Threads

VARIABLES
  state,             \* std::atomic<UInt64> state, as its two halves
  waiters,           \* std::atomic<UInt32> waiters
  writer_thread_id,  \* std::atomic<UInt64> writer_thread_id
  value,             \* value[t]: the local variable of the running call
  pc                 \* pc[t]: the next step of thread t

vars == <<state, waiters, writer_thread_id, value, pc>>

HalfWord == 0 .. Half - 1
Word == [upper : HalfWord, lower : HalfWord]

(* Mutant: the mask is one too large. *)
AllOnesOffByOne == Half

AllOnes == Half - 1
Zero == [upper |-> 0, lower |-> 0]
HasWriter(w) == w.upper # 0                       \* w & writers
HasReaders(w) == w.lower # 0                      \* w & readers
WithWriter(w) == [w EXCEPT !.upper = AllOnes]     \* w | writers
Writers == WithWriter(Zero)

(* 64-bit w + 1: a carry out of the lower half would reach the writers' mask. *)
PlusOne(w) ==
  IF w.lower + 1 < Half THEN [w EXCEPT !.lower = w.lower + 1]
  ELSE [upper |-> (w.upper + 1) % Half, lower |-> 0]

(* 64-bit w - 1, with the borrow out of the lower half. *)
MinusOne(w) ==
  IF w.lower > 0 THEN [w EXCEPT !.lower = w.lower - 1]
  ELSE [upper |-> (w.upper + Half - 1) % Half, lower |-> AllOnes]

(***************************************************************************)
(* The steps of a thread.  "parked" and "drain_parked" are inside the      *)
(* kernel, asleep on the upper and on the lower futex.                     *)
(***************************************************************************)
LockWait == {"lock_wait", "lock_parked", "lock_woken", "lock_unwait"}
SharedWait == {"shared_wait", "shared_parked", "shared_woken", "shared_unwait"}
Waiting == LockWait \cup SharedWait
Draining == {"claimed", "drain", "drain_parked", "drain_fetch"}
Exclusive == {"try_claimed", "writing", "unlock_store"}
Labels == {"idle", "lock_loop", "shared_loop", "try_shared_loop", "reading",
           "wake_writer", "unlock_check", "unlock_wake"}
          \cup Waiting \cup Draining \cup Exclusive

Init ==
  /\ state = Zero
  /\ waiters = 0
  /\ writer_thread_id = NoThread
  /\ value = [t \in Threads |-> Zero]
  /\ pc = [t \in Threads |-> "idle"]

Goto(t, from, to) == pc[t] = from /\ pc' = [pc EXCEPT ![t] = to]

Load(t) == value' = [value EXCEPT ![t] = state]

-----------------------------------------------------------------------------
(* lock() *)

LockLoad(t) ==
  /\ Goto(t, "idle", "lock_loop")
  /\ Load(t)
  /\ UNCHANGED <<state, waiters, writer_thread_id>>

(* One turn of the loop: announce a wait, or try to set the writers' mask. *)
LockLoop(t) ==
  /\ pc[t] = "lock_loop"
  /\ \/ /\ HasWriter(value[t])
        /\ pc' = [pc EXCEPT ![t] = "lock_wait"]
        /\ waiters' = (waiters + 1) % Half
        /\ UNCHANGED <<state, value>>
     \/ /\ ~HasWriter(value[t])
        /\ state = value[t]
        /\ pc' = [pc EXCEPT ![t] = "claimed"]
        /\ state' = WithWriter(state)
        /\ UNCHANGED <<waiters, value>>
     \/ /\ ~HasWriter(value[t])
        /\ state # value[t]
        /\ Load(t)
        /\ UNCHANGED <<state, waiters, pc>>
  /\ UNCHANGED writer_thread_id

LockClaimed(t) ==
  /\ pc[t] = "claimed"
  /\ writer_thread_id' = t
  /\ value' = [value EXCEPT ![t] = WithWriter(@)]
  /\ pc' = [pc EXCEPT ![t] = IF HasReaders(value[t]) THEN "drain" ELSE "writing"]
  /\ UNCHANGED <<state, waiters>>

(* futexWaitLowerFetch: the system call sleeps only if the half still      *)
(* holds the expected value.                                               *)
Drain(t) ==
  /\ Goto(t, "drain", IF state.lower = value[t].lower THEN "drain_parked"
                                                      ELSE "drain_fetch")
  /\ UNCHANGED <<state, waiters, writer_thread_id, value>>

DrainFetch(t) ==
  /\ Goto(t, "drain_fetch", IF HasReaders(state) THEN "drain" ELSE "writing")
  /\ Load(t)
  /\ UNCHANGED <<state, waiters, writer_thread_id>>

-----------------------------------------------------------------------------
(* The wait on the upper half, inside lock() and inside lock_shared(). *)

FutexWaitUpper(t) ==
  /\ \/ Goto(t, "lock_wait", IF state.upper = value[t].upper THEN "lock_parked"
                                                             ELSE "lock_woken")
     \/ Goto(t, "shared_wait", IF state.upper = value[t].upper THEN "shared_parked"
                                                               ELSE "shared_woken")
  /\ UNCHANGED <<state, waiters, writer_thread_id, value>>

FutexFetchUpper(t) ==
  /\ \/ Goto(t, "lock_woken", "lock_unwait")
     \/ Goto(t, "shared_woken", "shared_unwait")
  /\ Load(t)
  /\ UNCHANGED <<state, waiters, writer_thread_id>>

LeaveWait(t) ==
  /\ \/ Goto(t, "lock_unwait", "lock_loop")
     \/ Goto(t, "shared_unwait", "shared_loop")
  /\ waiters' = (waiters + Half - 1) % Half
  /\ UNCHANGED <<state, writer_thread_id, value>>

-----------------------------------------------------------------------------
(* try_lock() and unlock() *)

TryLock(t) ==
  /\ state = Zero
  /\ Goto(t, "idle", "try_claimed")
  /\ state' = Writers
  /\ UNCHANGED <<waiters, writer_thread_id, value>>

TryLockClaimed(t) ==
  /\ Goto(t, "try_claimed", "writing")
  /\ writer_thread_id' = t
  /\ UNCHANGED <<state, waiters, value>>

(* Mutant: the identifier is not cleared. *)
UnlockKeepsId(t) ==
  /\ Goto(t, "writing", "unlock_store")
  /\ UNCHANGED <<state, waiters, writer_thread_id, value>>

Unlock(t) ==
  /\ Goto(t, "writing", "unlock_store")
  /\ writer_thread_id' = NoThread
  /\ UNCHANGED <<state, waiters, value>>

UnlockStore(t) ==
  /\ Goto(t, "unlock_store", "unlock_check")
  /\ state' = Zero
  /\ UNCHANGED <<waiters, writer_thread_id, value>>

(* Mutant: a single waiter does not count. *)
UnlockCheckOffByOne(t) ==
  /\ Goto(t, "unlock_check", IF waiters > 1 THEN "unlock_wake" ELSE "idle")
  /\ UNCHANGED <<state, waiters, writer_thread_id, value>>

UnlockCheck(t) ==
  /\ Goto(t, "unlock_check", IF waiters # 0 THEN "unlock_wake" ELSE "idle")
  /\ UNCHANGED <<state, waiters, writer_thread_id, value>>

(* Mutant: futexWakeUpperOne. *)
UnlockWakeOne(t) ==
  /\ pc[t] = "unlock_wake"
  /\ \/ \E u \in Threads :
          \/ pc[u] = "lock_parked" /\ pc' = [pc EXCEPT ![t] = "idle", ![u] = "lock_woken"]
          \/ pc[u] = "shared_parked" /\ pc' = [pc EXCEPT ![t] = "idle", ![u] = "shared_woken"]
     \/ /\ \A u \in Threads : pc[u] \notin {"lock_parked", "shared_parked"}
        /\ pc' = [pc EXCEPT ![t] = "idle"]
  /\ UNCHANGED <<state, waiters, writer_thread_id, value>>

(* futexWakeUpperAll *)
UnlockWake(t) ==
  /\ pc[t] = "unlock_wake"
  /\ pc' = [u \in Threads |->
              IF u = t THEN "idle"
              ELSE IF pc[u] = "lock_parked" THEN "lock_woken"
              ELSE IF pc[u] = "shared_parked" THEN "shared_woken"
              ELSE pc[u]]
  /\ UNCHANGED <<state, waiters, writer_thread_id, value>>

-----------------------------------------------------------------------------
(* lock_shared(), try_lock_shared() and unlock_shared() *)

LockSharedLoad(t) ==
  /\ Goto(t, "idle", "shared_loop")
  /\ Load(t)
  /\ UNCHANGED <<state, waiters, writer_thread_id>>

(* Mutant: a reader does not look at the writers' mask. *)
LockSharedLoopBlind(t) ==
  /\ pc[t] = "shared_loop"
  /\ \/ /\ state = value[t]
        /\ pc' = [pc EXCEPT ![t] = "reading"]
        /\ state' = PlusOne(state)
        /\ UNCHANGED value
     \/ /\ state # value[t]
        /\ Load(t)
        /\ UNCHANGED <<state, pc>>
  /\ UNCHANGED <<waiters, writer_thread_id>>

LockSharedLoop(t) ==
  /\ pc[t] = "shared_loop"
  /\ \/ /\ HasWriter(value[t])
        /\ pc' = [pc EXCEPT ![t] = "shared_wait"]
        /\ waiters' = (waiters + 1) % Half
        /\ UNCHANGED <<state, value>>
     \/ /\ ~HasWriter(value[t])
        /\ state = value[t]
        /\ pc' = [pc EXCEPT ![t] = "reading"]
        /\ state' = PlusOne(state)
        /\ UNCHANGED <<waiters, value>>
     \/ /\ ~HasWriter(value[t])
        /\ state # value[t]
        /\ Load(t)
        /\ UNCHANGED <<state, waiters, pc>>
  /\ UNCHANGED writer_thread_id

TryLockSharedLoad(t) ==
  /\ Goto(t, "idle", "try_shared_loop")
  /\ Load(t)
  /\ UNCHANGED <<state, waiters, writer_thread_id>>

(* Mutant: the incremented word is stored without a comparison. *)
TryLockSharedLoopStores(t) ==
  /\ pc[t] = "try_shared_loop"
  /\ \/ /\ HasWriter(value[t])
        /\ pc' = [pc EXCEPT ![t] = "idle"]
        /\ UNCHANGED state
     \/ /\ ~HasWriter(value[t])
        /\ pc' = [pc EXCEPT ![t] = "reading"]
        /\ state' = PlusOne(value[t])
  /\ UNCHANGED <<waiters, writer_thread_id, value>>

TryLockSharedLoop(t) ==
  /\ pc[t] = "try_shared_loop"
  /\ \/ /\ HasWriter(value[t])
        /\ pc' = [pc EXCEPT ![t] = "idle"]
        /\ UNCHANGED <<state, value>>
     \/ /\ ~HasWriter(value[t])
        /\ state = value[t]
        /\ pc' = [pc EXCEPT ![t] = "reading"]
        /\ state' = PlusOne(state)
        /\ UNCHANGED value
     \/ /\ ~HasWriter(value[t])
        /\ state # value[t]
        /\ Load(t)
        /\ UNCHANGED <<state, pc>>
  /\ UNCHANGED <<waiters, writer_thread_id>>

(* Mutant: the comparison is with the word before the subtraction. *)
UnlockSharedOldValue(t) ==
  /\ Goto(t, "reading", IF state = Writers THEN "wake_writer" ELSE "idle")
  /\ state' = MinusOne(state)
  /\ UNCHANGED <<waiters, writer_thread_id, value>>

UnlockShared(t) ==
  /\ Goto(t, "reading", IF MinusOne(state) = Writers THEN "wake_writer" ELSE "idle")
  /\ state' = MinusOne(state)
  /\ UNCHANGED <<waiters, writer_thread_id, value>>

(* Mutant: the last reader wakes the wrong futex. *)
WakeWriterWrongHalf(t) ==
  /\ Goto(t, "wake_writer", "idle")
  /\ UNCHANGED <<state, waiters, writer_thread_id, value>>

(* futexWakeLowerOne: wakes one sleeper of the lower futex, if there is one. *)
WakeWriter(t) ==
  /\ pc[t] = "wake_writer"
  /\ \/ \E u \in Threads :
          /\ pc[u] = "drain_parked"
          /\ pc' = [pc EXCEPT ![t] = "idle", ![u] = "drain_fetch"]
     \/ /\ \A u \in Threads : pc[u] # "drain_parked"
        /\ pc' = [pc EXCEPT ![t] = "idle"]
  /\ UNCHANGED <<state, waiters, writer_thread_id, value>>

-----------------------------------------------------------------------------
(* futex(2) may return with no wake-up: a signal was delivered. *)
SpuriousWakeUp(t) ==
  /\ \/ Goto(t, "lock_parked", "lock_woken")
     \/ Goto(t, "shared_parked", "shared_woken")
     \/ Goto(t, "drain_parked", "drain_fetch")
  /\ UNCHANGED <<state, waiters, writer_thread_id, value>>

(* A caller may start an operation or not; the rest of a call runs on. *)
Start(t) == LockLoad(t) \/ TryLock(t) \/ LockSharedLoad(t) \/ TryLockSharedLoad(t)

Continue(t) ==
  \/ LockLoop(t) \/ LockClaimed(t) \/ Drain(t) \/ DrainFetch(t)
  \/ FutexWaitUpper(t) \/ FutexFetchUpper(t) \/ LeaveWait(t)
  \/ TryLockClaimed(t) \/ Unlock(t) \/ UnlockStore(t) \/ UnlockCheck(t) \/ UnlockWake(t)
  \/ LockSharedLoop(t) \/ TryLockSharedLoop(t) \/ UnlockShared(t) \/ WakeWriter(t)

Next == \E t \in Threads : Start(t) \/ Continue(t) \/ SpuriousWakeUp(t)

Spec == Init /\ [][Next]_vars

(* The scheduler runs every runnable thread, and every owner releases the  *)
(* mutex (Unlock and UnlockShared are steps of Continue).                  *)
FairSpec == Spec /\ \A t \in Threads : WF_vars(Continue(t))

-----------------------------------------------------------------------------
Claimers == {t \in Threads : pc[t] \in Draining \cup Exclusive}
ReaderThreads == {t \in Threads : pc[t] = "reading"}
WaitingThreads == {t \in Threads : pc[t] \in Waiting}

(* Each variable stays in its C++ type, and no step leaves the labels of a call. *)
TypeOK ==
  /\ state \in Word
  /\ waiters \in HalfWord
  /\ writer_thread_id \in Threads \cup {NoThread}
  /\ value \in [Threads -> Word]
  /\ pc \in [Threads -> Labels]

(* Every increment and every decrement of the two counters, and the store  *)
(* of the mask, is accounted for: the lower half of the word is the number *)
(* of shared owners, the upper half is all ones exactly while one thread   *)
(* claims or owns the mutex (so value + 1 and fetch_sub(1) neither carry   *)
(* into the mask nor borrow from it), and waiters is the number of threads *)
(* between the two updates of it in lock() and lock_shared().              *)
WordCountsOwners ==
  /\ state.lower = Cardinality(ReaderThreads)
  /\ state.upper = IF Claimers = {} THEN 0 ELSE AllOnes
  /\ Cardinality(Claimers) <= 1
  /\ waiters = Cardinality(WaitingThreads)

(* lock()/lock_shared(): while a thread is in its exclusive section (from  *)
(* the return of lock() to the store of unlock()) no other thread owns or  *)
(* claims the mutex in any mode.                                           *)
MutualExclusion ==
  \A t, u \in Threads :
    /\ pc[t] \in Exclusive
    /\ t # u
    => u \notin Claimers \cup ReaderThreads

(* unlock() / futexWaitUpperFetch: a thread asleep on the upper futex with *)
(* the writers' mask clear is about to be woken by an unlock() that has    *)
(* stored the word and not yet finished its wake-up.                       *)
NoLostWakeUp ==
  ~HasWriter(state) /\ (\E t \in Threads : pc[t] \in {"lock_parked", "shared_parked"})
  => \E u \in Threads : pc[u] \in {"unlock_check", "unlock_wake"}

(* unlock_shared() / futexWaitLowerFetch: a writer asleep on the lower     *)
(* futex with no reader left is about to be woken by the reader whose      *)
(* fetch_sub left the writers' mask alone in the word.                     *)
NoLostDrain ==
  ~HasReaders(state) /\ (\E t \in Threads : pc[t] = "drain_parked")
  => \E u \in Threads : pc[u] = "wake_writer"

(* SharedMutex.h: writer_thread_id "is set while the lock is held (or is   *)
(* in the process of being acquired) in exclusive mode only".              *)
WriterIdIsOwner == writer_thread_id # NoThread => writer_thread_id \in Claimers

(* The mutex as its callers see it: the step at which a thread passes from *)
(* one ownership to another is the atomic access that decides it.          *)
OwnedAt(label) ==
  IF label = "reading" THEN "shared"
  ELSE IF label \in Draining \cup {"try_claimed"} THEN "claimed"
  ELSE IF label \in {"writing", "unlock_store"} THEN "exclusive"
  ELSE "none"

owner == [t \in Threads |-> OwnedAt(pc[t])]

RW == INSTANCE ReadersWriter

(* lock() in its two steps, lock_shared() and the two unlocks implement    *)
(* ReadersWriter: writers' preference included.                            *)
ImplementsReadersWriter == RW!Spec

(* lock(): "Now we just wait until all readers release the shared          *)
(* ownership": a thread that has set the writers' mask gets the mutex.     *)
ClaimSucceeds ==
  \A t \in Threads : (pc[t] \in Draining) ~> (pc[t] = "writing")

(* unlock(): no thread sleeps on the upper futex for ever, even if every   *)
(* other caller goes away.                                                 *)
SleepersWake ==
  \A t \in Threads :
    (pc[t] \in {"lock_parked", "shared_parked"}) ~> (pc[t] \notin {"lock_parked", "shared_parked"})
=============================================================================
