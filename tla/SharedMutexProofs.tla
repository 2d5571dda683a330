------------------------- MODULE SharedMutexProofs -------------------------
(***************************************************************************)
(* SharedMutex for any number of threads.  The word is tied to the threads *)
(* that made it what it is: the mask to the one claimer, the lower half to *)
(* the number of readers, the waiters' counter to the threads between      *)
(* their increment and their decrement.                                    *)
(***************************************************************************)
EXTENDS SharedMutex, FiniteSetTheorems, TLAPS

MaskIsClaimer ==
  /\ state.upper = IF Claimers = {} THEN 0 ELSE AllOnes
  /\ \A t, u \in Claimers : t = u

LowerCountsReaders == state.lower = Cardinality(ReaderThreads)

WaitersCounted == waiters = Cardinality(WaitingThreads)

(* The value a claimer compares with is never below the readers still in. *)
LocalValues ==
  \A t \in Threads :
    /\ pc[t] \in Exclusive => state.lower = 0
    /\ pc[t] = "claimed" => state.lower <= value[t].lower
    /\ pc[t] = "drain" => HasReaders(value[t])
    /\ pc[t] \in {"lock_wait", "shared_wait"} => HasWriter(value[t])

WriterIdPhase ==
  writer_thread_id # NoThread =>
    pc[writer_thread_id] \in {"drain", "drain_parked", "drain_fetch", "writing"}

IInv ==
  /\ TypeOK
  /\ MaskIsClaimer
  /\ LowerCountsReaders
  /\ WaitersCounted
  /\ LocalValues
  /\ WriterIdPhase
  /\ NoLostWakeUp
  /\ NoLostDrain

-----------------------------------------------------------------------------
(* The label sets, for the provers. *)
LEMMA LabelFacts ==
  /\ Waiting \cup Draining \cup Exclusive \subseteq Labels
  /\ "reading" \notin Waiting \cup Draining \cup Exclusive
  /\ Waiting \cap (Draining \cup Exclusive) = {}
  /\ Draining \cap Exclusive = {}
BY DEF Waiting, LockWait, SharedWait, Draining, Exclusive, Labels

(* The counted sets are finite, and each fits in half a word with room for one more. *)
LEMMA CountsFit ==
  ASSUME NEW S \in SUBSET Threads
  PROVE  /\ IsFiniteSet(S)
         /\ Cardinality(S) \in Nat
         /\ Cardinality(S) + 1 < Half
<1>1. IsFiniteSet(S) /\ Cardinality(S) <= Cardinality(Threads)
  BY ThreadsFit, FS_Subset
<1>2. Cardinality(S) \in Nat /\ Cardinality(Threads) \in Nat
  BY <1>1, ThreadsFit, FS_CardinalityType
<1> QED  BY <1>1, <1>2, ThreadsFit

(* The arithmetic of the word, half by half. *)
LEMMA WordFacts ==
  ASSUME NEW w \in Word
  PROVE  /\ WithWriter(w) \in Word /\ WithWriter(w).upper = AllOnes /\ WithWriter(w).lower = w.lower
         /\ Zero \in Word /\ Zero.upper = 0 /\ Zero.lower = 0
         /\ Writers \in Word /\ Writers.upper = AllOnes /\ Writers.lower = 0
         /\ AllOnes # 0
         /\ w.lower + 1 < Half => /\ PlusOne(w) \in Word
                                  /\ PlusOne(w).upper = w.upper
                                  /\ PlusOne(w).lower = w.lower + 1
         /\ w.lower > 0 => /\ MinusOne(w) \in Word
                           /\ MinusOne(w).upper = w.upper
                           /\ MinusOne(w).lower = w.lower - 1
         /\ w = Writers <=> w.upper = AllOnes /\ w.lower = 0
<1> Half \in Nat /\ Half > 1
  BY ThreadsFit, CountsFit
<1> QED  BY DEF Word, HalfWord, WithWriter, Zero, Writers, AllOnes, PlusOne, MinusOne

(* A thread that moves from one label to another moves between the counted sets. *)
LEMMA MoveReader ==
  ASSUME TypeOK, LowerCountsReaders,
         NEW t \in Threads, NEW l \in Labels, pc' = [pc EXCEPT ![t] = l],
         \/ (l = "reading" <=> pc[t] = "reading") /\ state'.lower = state.lower
         \/ l = "reading" /\ pc[t] # "reading" /\ state'.lower = state.lower + 1
         \/ l # "reading" /\ pc[t] = "reading" /\ state'.lower = state.lower - 1
  PROVE  LowerCountsReaders'
<1>1. IsFiniteSet(ReaderThreads) /\ Cardinality(ReaderThreads) \in Nat
  BY CountsFit DEF ReaderThreads
<1>2. t \in ReaderThreads <=> pc[t] = "reading"
  BY DEF ReaderThreads
<1>3. ReaderThreads' = IF l = "reading" THEN ReaderThreads \cup {t} ELSE ReaderThreads \ {t}
  BY DEF TypeOK, ReaderThreads
<1>4. CASE l = "reading" /\ pc[t] # "reading"
  <2>1. ReaderThreads' = ReaderThreads \cup {t} /\ t \notin ReaderThreads
    BY <1>2, <1>3, <1>4
  <2>2. Cardinality(ReaderThreads') = Cardinality(ReaderThreads) + 1
    BY <2>1, <1>1, FS_AddElement
  <2> QED  BY <2>2, <1>4 DEF LowerCountsReaders
<1>5. CASE l # "reading" /\ pc[t] = "reading"
  BY <1>1, <1>2, <1>3, <1>5, FS_RemoveElement DEF LowerCountsReaders
<1>6. CASE l = "reading" <=> pc[t] = "reading"
  <2>1. ReaderThreads' = ReaderThreads
    BY <1>2, <1>3, <1>6
  <2> QED  BY <2>1, <1>6 DEF LowerCountsReaders
<1> QED  BY <1>4, <1>5, <1>6

LEMMA MoveWaiter ==
  ASSUME TypeOK, WaitersCounted,
         NEW t \in Threads, NEW l \in Labels, pc' = [pc EXCEPT ![t] = l],
         \/ (l \in Waiting <=> pc[t] \in Waiting) /\ waiters' = waiters
         \/ l \in Waiting /\ pc[t] \notin Waiting /\ waiters' = waiters + 1
         \/ l \notin Waiting /\ pc[t] \in Waiting /\ waiters' = waiters - 1
  PROVE  WaitersCounted'
<1>1. IsFiniteSet(WaitingThreads) /\ Cardinality(WaitingThreads) \in Nat
  BY CountsFit DEF WaitingThreads
<1>2. t \in WaitingThreads <=> pc[t] \in Waiting
  BY DEF WaitingThreads
<1>3. WaitingThreads' = IF l \in Waiting THEN WaitingThreads \cup {t} ELSE WaitingThreads \ {t}
  BY DEF TypeOK, WaitingThreads
<1> QED  BY <1>1, <1>2, <1>3, FS_AddElement, FS_RemoveElement DEF WaitersCounted

LEMMA MoveClaimer ==
  ASSUME TypeOK, MaskIsClaimer,
         NEW t \in Threads, NEW l \in Labels, pc' = [pc EXCEPT ![t] = l],
         \/ /\ l \in Draining \cup Exclusive <=> pc[t] \in Draining \cup Exclusive
            /\ state'.upper = state.upper
         \/ l \in Draining \cup Exclusive /\ state.upper = 0 /\ state'.upper = AllOnes
         \/ l \notin Draining \cup Exclusive /\ t \in Claimers /\ state'.upper = 0
  PROVE  MaskIsClaimer'
<1>1. t \in Claimers <=> pc[t] \in Draining \cup Exclusive
  BY DEF Claimers
<1>2. Claimers' = IF l \in Draining \cup Exclusive THEN Claimers \cup {t} ELSE Claimers \ {t}
  BY DEF TypeOK, Claimers
<1>3. AllOnes # 0
  BY WordFacts DEF TypeOK
<1> QED  BY <1>1, <1>2, <1>3 DEF MaskIsClaimer

(* The initial word belongs to nobody. *)
LEMMA InitIInv == Init => IInv
<1> SUFFICES ASSUME Init PROVE IInv
  OBVIOUS
<1>1. TypeOK
  BY ThreadsFit, CountsFit DEF Init, TypeOK, Zero, Word, HalfWord, Labels
<1>2. ReaderThreads = {} /\ WaitingThreads = {} /\ Claimers = {}
  BY LabelFacts DEF Init, ReaderThreads, WaitingThreads, Claimers, Waiting, LockWait, SharedWait, Draining, Exclusive
<1>3. MaskIsClaimer /\ LowerCountsReaders /\ WaitersCounted
  BY <1>2, FS_EmptySet DEF Init, Zero, MaskIsClaimer, LowerCountsReaders, WaitersCounted
<1>4. LocalValues /\ WriterIdPhase /\ NoLostWakeUp /\ NoLostDrain
  BY DEF Init, Exclusive, LocalValues, WriterIdPhase, NoLostWakeUp, NoLostDrain
<1> QED  BY <1>1, <1>3, <1>4 DEF IInv

(* The steps that touch neither the word nor the waiters' counter, and keep *)
(* every thread in its counted sets.                                       *)
QuietStep(t) ==
  \/ LockLoad(t) \/ LockSharedLoad(t) \/ TryLockSharedLoad(t)
  \/ LockClaimed(t) \/ Drain(t) \/ DrainFetch(t)
  \/ FutexWaitUpper(t) \/ FutexFetchUpper(t) \/ SpuriousWakeUp(t)
  \/ TryLockClaimed(t) \/ Unlock(t) \/ UnlockCheck(t) \/ UnlockWake(t) \/ WakeWriter(t)

(* IInv is preserved by every step of every thread. *)
LEMMA StepIInv ==
  ASSUME IInv, NEW t \in Threads
  PROVE  Start(t) \/ Continue(t) \/ SpuriousWakeUp(t) => IInv'
<1> USE DEF IInv, Goto, Load, Labels, Waiting, LockWait, SharedWait, Draining, Exclusive
<1>0. /\ state.lower \in Nat /\ state.lower + 1 < Half
      /\ waiters \in Nat /\ waiters + 1 < Half
      /\ Half \in Nat
  BY ThreadsFit, CountsFit DEF ReaderThreads, WaitingThreads, LowerCountsReaders, WaitersCounted
<1>a. /\ (waiters + 1) % Half = waiters + 1
      /\ waiters > 0 => (waiters + Half - 1) % Half = waiters - 1
  BY <1>0
<1>b. /\ HasWriter(state) <=> Claimers # {}
      /\ state.upper = 0 \/ state.upper = AllOnes
      /\ \A u \in ReaderThreads : state.lower > 0
      /\ \A u \in WaitingThreads : waiters > 0
  <2>1. IsFiniteSet(ReaderThreads) /\ IsFiniteSet(WaitingThreads)
    BY CountsFit DEF ReaderThreads, WaitingThreads
  <2>2. \A u \in ReaderThreads : Cardinality(ReaderThreads) # 0
    BY <2>1, FS_EmptySet
  <2>3. \A u \in WaitingThreads : Cardinality(WaitingThreads) # 0
    BY <2>1, FS_EmptySet
  <2>4. HasWriter(state) <=> Claimers # {}
    BY WordFacts DEF MaskIsClaimer, HasWriter, TypeOK
  <2> QED  BY <2>2, <2>3, <2>4, <1>0 DEF MaskIsClaimer, LowerCountsReaders, WaitersCounted
<1>1. ASSUME QuietStep(t) PROVE IInv'
  <2> USE <1>1 DEF QuietStep, LockLoad, LockClaimed, Drain, DrainFetch, FutexWaitUpper, FutexFetchUpper, TryLockClaimed,
           Unlock, UnlockCheck, UnlockWake, LockSharedLoad, TryLockSharedLoad, WakeWriter, SpuriousWakeUp
  <2>1. TypeOK'
    BY <1>b, WordFacts DEF TypeOK
  <2>2. UNCHANGED <<state, waiters, Claimers, ReaderThreads, WaitingThreads>>
    BY DEF TypeOK, Claimers, ReaderThreads, WaitingThreads
  <2>3. MaskIsClaimer' /\ LowerCountsReaders' /\ WaitersCounted'
    BY <2>2 DEF MaskIsClaimer, LowerCountsReaders, WaitersCounted
  <2>4. LocalValues'
    <3>1. ASSUME NEW u \in Threads PROVE (pc[u] \in Exclusive => state.lower = 0)'
      <4>1. CASE pc[u] \in Exclusive
        BY <4>1, <2>2 DEF LocalValues
      <4>2. CASE pc[u] = "claimed" /\ pc'[u] = "writing"
        <5>1. ~HasReaders(value[u]) /\ value[u].lower \in Nat /\ state.lower <= value[u].lower
          BY <4>2 DEF LocalValues, TypeOK, Word, HalfWord
        <5> QED  BY <5>1, <2>2, <1>0 DEF HasReaders
      <4>3. CASE pc[u] = "drain_fetch" /\ pc'[u] = "writing"
        BY <4>3, <2>2 DEF TypeOK, HasReaders
      <4>4. CASE pc'[u] \notin Exclusive
        BY <4>4
      <4> QED  BY <4>1, <4>2, <4>3, <4>4 DEF TypeOK
    <3>2. ASSUME NEW u \in Threads PROVE (pc[u] = "claimed" => state.lower <= value[u].lower)'
      BY <2>2 DEF LocalValues, TypeOK
    <3>3. ASSUME NEW u \in Threads PROVE (pc[u] = "drain" => HasReaders(value[u]))'
      BY WordFacts DEF LocalValues, TypeOK, HasReaders
    <3>4. ASSUME NEW u \in Threads
          PROVE (pc[u] \in {"lock_wait", "shared_wait"} => HasWriter(value[u]))'
      BY DEF LocalValues, TypeOK
    <3> QED  BY <3>1, <3>2, <3>3, <3>4 DEF LocalValues
  <2>5. WriterIdPhase'
    BY ThreadsFit DEF WriterIdPhase, TypeOK
  <2>6. NoLostWakeUp'
    <3>1. CASE UnlockWake(t) \/ FutexWaitUpper(t)
      BY <3>1, <2>2 DEF NoLostWakeUp, LocalValues, TypeOK, HasWriter
    <3>2. CASE UnlockCheck(t)
      BY <3>2, <1>b DEF NoLostWakeUp, TypeOK, WaitingThreads
    <3>3. CASE ~(UnlockWake(t) \/ UnlockCheck(t) \/ FutexWaitUpper(t))
      <4>1. \A u \in Threads :
              /\ pc'[u] \in {"lock_parked", "shared_parked"} => pc[u] \in {"lock_parked", "shared_parked"}
              /\ pc[u] \in {"unlock_check", "unlock_wake"} => pc'[u] \in {"unlock_check", "unlock_wake"}
        BY <3>3 DEF TypeOK
      <4> QED  BY <4>1, <2>2 DEF NoLostWakeUp
    <3> QED  BY <3>1, <3>2, <3>3
  <2>7. NoLostDrain'
    <3>1. CASE WakeWriter(t)
      BY <3>1, <2>2 DEF NoLostDrain, TypeOK, MaskIsClaimer, Claimers
    <3>2. CASE Drain(t)
      BY <3>2, <2>2 DEF NoLostDrain, LocalValues, TypeOK, HasReaders
    <3>3. CASE ~(WakeWriter(t) \/ Drain(t))
      <4>1. \A u \in Threads :
              /\ pc'[u] = "drain_parked" => pc[u] = "drain_parked"
              /\ pc[u] = "wake_writer" => pc'[u] = "wake_writer"
        BY <3>3 DEF TypeOK
      <4> QED  BY <4>1, <2>2 DEF NoLostDrain
    <3> QED  BY <3>1, <3>2, <3>3
  <2> QED  BY <2>1, <2>3, <2>4, <2>5, <2>6, <2>7
<1>2. ASSUME LockLoop(t) PROVE IInv'
  <2>1. TypeOK'
    BY <1>2, <1>0, <1>a, <1>b, WordFacts DEF LockLoop, TypeOK, HalfWord, WaitingThreads, ReaderThreads
  <2>2. MaskIsClaimer'
    BY <1>2, <1>0, <1>b, WordFacts, MoveClaimer DEF LockLoop, TypeOK, Claimers, HasWriter, ReaderThreads
  <2>3. LowerCountsReaders'
    BY <1>2, <1>0, <1>b, WordFacts, MoveReader DEF LockLoop, TypeOK, ReaderThreads
  <2>4. WaitersCounted'
    BY <1>2, <1>0, <1>a, <1>b, MoveWaiter DEF TypeOK, LockLoop, WaitingThreads
  <2>5. LocalValues'
    BY <1>2, <1>0, <1>b, WordFacts DEF LockLoop, TypeOK, LocalValues, HasReaders, HasWriter, ReaderThreads, Claimers, MaskIsClaimer
  <2>6. WriterIdPhase'
    BY <1>2, ThreadsFit DEF LockLoop, TypeOK, WriterIdPhase
  <2>7. NoLostWakeUp'
    BY <1>2, <1>b, WordFacts DEF LockLoop, TypeOK, NoLostWakeUp, HasWriter, LocalValues, WaitingThreads, ReaderThreads
  <2>8. NoLostDrain'
    BY <1>2, <1>0, <1>b, WordFacts DEF LockLoop, TypeOK, NoLostDrain, HasReaders, LocalValues, ReaderThreads, Claimers, MaskIsClaimer
  <2> QED  BY <2>1, <2>2, <2>3, <2>4, <2>5, <2>6, <2>7, <2>8
<1>3. ASSUME LeaveWait(t) PROVE IInv'
  <2>1. TypeOK'
    BY <1>3, <1>0, <1>a, <1>b, WordFacts DEF LeaveWait, TypeOK, HalfWord, WaitingThreads, ReaderThreads
  <2>2. MaskIsClaimer'
    BY <1>3, <1>0, <1>b, WordFacts, MoveClaimer DEF LeaveWait, TypeOK, Claimers, HasWriter, ReaderThreads
  <2>3. LowerCountsReaders'
    BY <1>3, <1>0, <1>b, WordFacts, MoveReader DEF LeaveWait, TypeOK, ReaderThreads
  <2>4. WaitersCounted'
    BY <1>3, <1>0, <1>a, <1>b, MoveWaiter DEF LeaveWait, WaitingThreads
  <2>5. LocalValues'
    BY <1>3, <1>0, <1>b, WordFacts DEF LeaveWait, TypeOK, LocalValues, HasReaders, HasWriter, ReaderThreads, Claimers, MaskIsClaimer
  <2>6. WriterIdPhase'
    BY <1>3, ThreadsFit DEF LeaveWait, TypeOK, WriterIdPhase
  <2>7. NoLostWakeUp'
    BY <1>3, <1>b, WordFacts DEF LeaveWait, TypeOK, NoLostWakeUp, HasWriter, LocalValues, WaitingThreads, ReaderThreads
  <2>8. NoLostDrain'
    BY <1>3, <1>0, <1>b, WordFacts DEF LeaveWait, TypeOK, NoLostDrain, HasReaders, LocalValues, ReaderThreads, Claimers, MaskIsClaimer
  <2> QED  BY <2>1, <2>2, <2>3, <2>4, <2>5, <2>6, <2>7, <2>8
<1>4. ASSUME TryLock(t) PROVE IInv'
  <2>1. TypeOK'
    BY <1>4, <1>0, <1>a, <1>b, WordFacts DEF TryLock, TypeOK, HalfWord, WaitingThreads, ReaderThreads
  <2>2. MaskIsClaimer'
    BY <1>4, <1>0, <1>b, WordFacts, MoveClaimer DEF TryLock, TypeOK, Claimers, HasWriter, ReaderThreads
  <2>3. LowerCountsReaders'
    BY <1>4, <1>0, <1>b, WordFacts, MoveReader DEF TryLock, TypeOK, ReaderThreads
  <2>4. WaitersCounted'
    BY <1>4, <1>0, <1>a, <1>b, MoveWaiter DEF TryLock, WaitingThreads
  <2>5. LocalValues'
    BY <1>4, <1>0, <1>b, WordFacts DEF TryLock, TypeOK, LocalValues, HasReaders, HasWriter, ReaderThreads, Claimers, MaskIsClaimer
  <2>6. WriterIdPhase'
    BY <1>4, ThreadsFit DEF TryLock, TypeOK, WriterIdPhase
  <2>7. NoLostWakeUp'
    BY <1>4, <1>b, WordFacts DEF TryLock, TypeOK, NoLostWakeUp, HasWriter, LocalValues, WaitingThreads, ReaderThreads
  <2>8. NoLostDrain'
    BY <1>4, <1>0, <1>b, WordFacts DEF TryLock, TypeOK, NoLostDrain, HasReaders, LocalValues, ReaderThreads, Claimers, MaskIsClaimer
  <2> QED  BY <2>1, <2>2, <2>3, <2>4, <2>5, <2>6, <2>7, <2>8
<1>5. ASSUME UnlockStore(t) PROVE IInv'
  <2>1. TypeOK'
    BY <1>5, <1>0, <1>a, <1>b, WordFacts DEF UnlockStore, TypeOK, HalfWord, WaitingThreads, ReaderThreads
  <2>2. MaskIsClaimer'
    BY <1>5, <1>0, <1>b, WordFacts, MoveClaimer DEF UnlockStore, TypeOK, Claimers, HasWriter, ReaderThreads
  <2>3. LowerCountsReaders'
    BY <1>5, <1>0, <1>b, WordFacts, MoveReader DEF LocalValues, UnlockStore, TypeOK, ReaderThreads
  <2>4. WaitersCounted'
    BY <1>5, <1>0, <1>a, <1>b, MoveWaiter DEF UnlockStore, WaitingThreads
  <2>5. LocalValues'
    BY <1>5, <1>0, <1>b, WordFacts DEF UnlockStore, TypeOK, LocalValues, HasReaders, HasWriter, ReaderThreads, Claimers, MaskIsClaimer
  <2>6. WriterIdPhase'
    BY <1>5, ThreadsFit DEF UnlockStore, TypeOK, WriterIdPhase
  <2>7. NoLostWakeUp'
    BY <1>5, <1>b, WordFacts DEF UnlockStore, TypeOK, NoLostWakeUp, HasWriter, LocalValues, WaitingThreads, ReaderThreads
  <2>8. NoLostDrain'
    BY <1>5, <1>0, <1>b, WordFacts DEF UnlockStore, TypeOK, NoLostDrain, HasReaders, LocalValues, ReaderThreads, Claimers, MaskIsClaimer
  <2> QED  BY <2>1, <2>2, <2>3, <2>4, <2>5, <2>6, <2>7, <2>8
<1>6. ASSUME LockSharedLoop(t) PROVE IInv'
  <2>1. TypeOK'
    BY <1>6, <1>0, <1>a, <1>b, WordFacts DEF LockSharedLoop, TypeOK, HalfWord, WaitingThreads, ReaderThreads
  <2>2. MaskIsClaimer'
    BY <1>6, <1>0, <1>b, WordFacts, MoveClaimer DEF LockSharedLoop, TypeOK, Claimers, HasWriter, ReaderThreads
  <2>3. LowerCountsReaders'
    BY <1>6, <1>0, <1>b, WordFacts, MoveReader DEF LockSharedLoop, TypeOK, ReaderThreads
  <2>4. WaitersCounted'
    BY <1>6, <1>0, <1>a, <1>b, MoveWaiter DEF TypeOK, LockSharedLoop, WaitingThreads
  <2>5. LocalValues'
    BY <1>6, <1>0, <1>b, WordFacts DEF LockSharedLoop, TypeOK, LocalValues, HasReaders, HasWriter, ReaderThreads, Claimers, MaskIsClaimer
  <2>6. WriterIdPhase'
    BY <1>6, ThreadsFit DEF LockSharedLoop, TypeOK, WriterIdPhase
  <2>7. NoLostWakeUp'
    BY <1>6, <1>b, WordFacts DEF LockSharedLoop, TypeOK, NoLostWakeUp, HasWriter, LocalValues, WaitingThreads, ReaderThreads
  <2>8. NoLostDrain'
    BY <1>6, <1>0, <1>b, WordFacts DEF LockSharedLoop, TypeOK, NoLostDrain, HasReaders, LocalValues, ReaderThreads, Claimers, MaskIsClaimer
  <2> QED  BY <2>1, <2>2, <2>3, <2>4, <2>5, <2>6, <2>7, <2>8
<1>7. ASSUME TryLockSharedLoop(t) PROVE IInv'
  <2>1. TypeOK'
    BY <1>7, <1>0, <1>a, <1>b, WordFacts DEF TryLockSharedLoop, TypeOK, HalfWord, WaitingThreads, ReaderThreads
  <2>2. MaskIsClaimer'
    BY <1>7, <1>0, <1>b, WordFacts, MoveClaimer DEF TryLockSharedLoop, TypeOK, Claimers, HasWriter, ReaderThreads
  <2>3. LowerCountsReaders'
    BY <1>7, <1>0, <1>b, WordFacts, MoveReader DEF TryLockSharedLoop, TypeOK, ReaderThreads
  <2>4. WaitersCounted'
    BY <1>7, <1>0, <1>a, <1>b, MoveWaiter DEF TypeOK, TryLockSharedLoop, WaitingThreads
  <2>5. LocalValues'
    BY <1>7, <1>0, <1>b, WordFacts DEF TryLockSharedLoop, TypeOK, LocalValues, HasReaders, HasWriter, ReaderThreads, Claimers, MaskIsClaimer
  <2>6. WriterIdPhase'
    BY <1>7, ThreadsFit DEF TryLockSharedLoop, TypeOK, WriterIdPhase
  <2>7. NoLostWakeUp'
    BY <1>7, <1>b, WordFacts DEF TryLockSharedLoop, TypeOK, NoLostWakeUp, HasWriter, LocalValues, WaitingThreads, ReaderThreads
  <2>8. NoLostDrain'
    BY <1>7, <1>0, <1>b, WordFacts DEF TryLockSharedLoop, TypeOK, NoLostDrain, HasReaders, LocalValues, ReaderThreads, Claimers, MaskIsClaimer
  <2> QED  BY <2>1, <2>2, <2>3, <2>4, <2>5, <2>6, <2>7, <2>8
<1>8. ASSUME UnlockShared(t) PROVE IInv'
  <2>1. TypeOK'
    BY <1>8, <1>0, <1>a, <1>b, WordFacts DEF UnlockShared, TypeOK, HalfWord, WaitingThreads, ReaderThreads
  <2>2. MaskIsClaimer'
    BY <1>8, <1>0, <1>b, WordFacts, MoveClaimer DEF UnlockShared, TypeOK, Claimers, HasWriter, ReaderThreads
  <2>3. LowerCountsReaders'
    BY <1>8, <1>0, <1>b, WordFacts, MoveReader DEF UnlockShared, TypeOK, ReaderThreads
  <2>4. WaitersCounted'
    BY <1>8, <1>0, <1>a, <1>b, MoveWaiter DEF UnlockShared, WaitingThreads
  <2>5. LocalValues'
    <3>1. state'.lower = state.lower - 1 /\ state.lower > 0
      BY <1>8, <1>b, WordFacts DEF UnlockShared, TypeOK, ReaderThreads
    <3>2. \A u \in Threads : pc[u] \notin Exclusive
      BY <3>1, <1>0 DEF LocalValues
    <3>3. \A u \in Threads : pc'[u] = pc[u] \/ (u = t /\ pc'[u] \in {"idle", "wake_writer"})
      BY <1>8 DEF UnlockShared, TypeOK
    <3>4. \A u \in Threads : value'[u] = value[u] /\ value[u].lower \in Nat
      BY <1>8 DEF UnlockShared, TypeOK, Word, HalfWord
    <3> QED  BY <3>1, <3>2, <3>3, <3>4, <1>0 DEF LocalValues, HasReaders, HasWriter
  <2>6. WriterIdPhase'
    BY <1>8, ThreadsFit DEF UnlockShared, TypeOK, WriterIdPhase
  <2>7. NoLostWakeUp'
    BY <1>8, <1>b, WordFacts DEF UnlockShared, TypeOK, NoLostWakeUp, HasWriter, LocalValues, WaitingThreads, ReaderThreads
  <2>8. NoLostDrain'
    BY <1>8, <1>0, <1>b, WordFacts DEF UnlockShared, TypeOK, NoLostDrain, HasReaders, LocalValues, ReaderThreads, Claimers, MaskIsClaimer
  <2> QED  BY <2>1, <2>2, <2>3, <2>4, <2>5, <2>6, <2>7, <2>8
<1> QED  BY <1>1, <1>2, <1>3, <1>4, <1>5, <1>6, <1>7, <1>8 DEF Start, Continue, QuietStep

(* IInv holds in every reachable state. *)
LEMMA Inductive == Spec => []IInv
<1>1. IInv /\ [Next]_vars => IInv'
  <2> SUFFICES ASSUME IInv, [Next]_vars PROVE IInv'
    OBVIOUS
  <2>1. CASE Next
    BY <2>1, StepIInv DEF Next
  <2>2. CASE UNCHANGED vars
    BY <2>2 DEF vars, IInv, TypeOK, MaskIsClaimer, LowerCountsReaders, WaitersCounted,
                LocalValues, WriterIdPhase, NoLostWakeUp, NoLostDrain,
                Claimers, ReaderThreads, WaitingThreads
  <2> QED  BY <2>1, <2>2
<1> QED  BY <1>1, InitIInv, PTL DEF Spec

(* Every variable keeps its type, whatever the number of threads.          *)
THEOREM TypeCorrect == Spec => []TypeOK
<1>1. IInv => TypeOK
  BY DEF IInv
<1> QED  BY <1>1, Inductive, PTL

(* The word counts its owners: the lower half is the number of readers and *)
(* the mask is set for the one claimer, so no addition carries into the    *)
(* mask and no subtraction borrows from it, for any number of threads that *)
(* a half can count.                                                       *)
THEOREM WordIsAccounted == Spec => []WordCountsOwners
<1>1. ASSUME IInv
      PROVE  Cardinality(Claimers) <= 1
  <2>1. CASE Claimers = {}
    BY <2>1, FS_EmptySet
  <2>2. CASE Claimers # {}
    <3>1. PICK t \in Claimers : TRUE
      BY <2>2
    <3>2. Claimers = {t}
      BY <1>1, <3>1 DEF IInv, MaskIsClaimer
    <3>3. Cardinality({t}) = 1
      BY FS_Singleton
    <3> QED  BY <3>2, <3>3
  <2> QED  BY <2>1, <2>2
<1>2. IInv => WordCountsOwners
  BY <1>1 DEF IInv, MaskIsClaimer, LowerCountsReaders, WaitersCounted, WordCountsOwners
<1> QED  BY <1>2, Inductive, PTL

(* lock() and lock_shared(): a thread in its exclusive section is alone,   *)
(* for any number of threads.                                              *)
THEOREM MutexIsExclusive == Spec => []MutualExclusion
<1>1. IInv => MutualExclusion
  <2> SUFFICES ASSUME IInv, NEW t \in Threads, NEW u \in Threads, pc[t] \in Exclusive, t # u
               PROVE  u \notin Claimers \cup ReaderThreads
    BY DEF MutualExclusion
  <2>1. u \notin Claimers
    BY DEF IInv, MaskIsClaimer, Claimers
  <2>2. u \notin ReaderThreads
    <3>1. IsFiniteSet(ReaderThreads) /\ Cardinality(ReaderThreads) = 0
      BY CountsFit DEF ReaderThreads, IInv, LocalValues, LowerCountsReaders
    <3> QED  BY <3>1, FS_EmptySet
  <2> QED  BY <2>1, <2>2
<1> QED  BY <1>1, Inductive, PTL

(* unlock(): a thread that sleeps while the mutex is free always has its   *)
(* wake-up on the way.                                                     *)
THEOREM WakeUpsAreNotLost == Spec => []NoLostWakeUp
<1>1. IInv => NoLostWakeUp
  BY DEF IInv
<1> QED  BY <1>1, Inductive, PTL

(* unlock_shared(): a writer that sleeps although the last reader has left *)
(* always has its wake-up on the way.                                      *)
THEOREM DrainsAreNotLost == Spec => []NoLostDrain
<1>1. IInv => NoLostDrain
  BY DEF IInv
<1> QED  BY <1>1, Inductive, PTL

(* writer_thread_id is zero or the thread that claims or owns the mutex.   *)
THEOREM WriterIdCorrect == Spec => []WriterIdIsOwner
<1>1. IInv => WriterIdIsOwner
  BY DEF IInv, TypeOK, WriterIdPhase, WriterIdIsOwner, Claimers, Draining, Exclusive
<1> QED  BY <1>1, Inductive, PTL

(* Every step of the futex implementation is a step of the readers-writer  *)
(* lock of ReadersWriter, or leaves every ownership as it is.              *)
THEOREM Refinement == Spec => ImplementsReadersWriter
<1>1. Init => RW!Init
  BY DEF Init, RW!Init, owner, OwnedAt, Draining
<1>2. IInv /\ [Next]_vars => [RW!Next]_owner
  <2> SUFFICES ASSUME IInv, [Next]_vars PROVE [RW!Next]_owner
    OBVIOUS
  <2> USE DEF Goto, OwnedAt, Draining, Exclusive
  <2>1. ASSUME NEW t \in Threads, NEW l, pc' = [pc EXCEPT ![t] = l]
        PROVE  owner' = [owner EXCEPT ![t] = OwnedAt(l)]
    BY <2>1 DEF owner, IInv, TypeOK
  <2>2. \A t \in Threads : owner[t] = OwnedAt(pc[t])
    BY DEF owner
  <2>3. ~HasWriter(state) => RW!Unclaimed
    <3>1. ~HasWriter(state) => Claimers = {}
      BY WordFacts DEF IInv, TypeOK, MaskIsClaimer, HasWriter
    <3> QED  BY <3>1, <2>2 DEF RW!Unclaimed, Claimers
  <2>4. ~HasReaders(state) => RW!NoReader
    <3>1. ~HasReaders(state) => ReaderThreads = {}
      BY CountsFit, FS_EmptySet DEF IInv, LowerCountsReaders, HasReaders, ReaderThreads
    <3> QED  BY <3>1, <2>2 DEF RW!NoReader, ReaderThreads
  <2>5. ASSUME NEW t \in Threads, LockLoop(t) PROVE RW!Next \/ UNCHANGED owner
    <3>1. CASE pc' = [pc EXCEPT ![t] = "claimed"] /\ state = value[t] /\ ~HasWriter(value[t])
      <4>1. owner[t] = "none" /\ owner' = [owner EXCEPT ![t] = "claimed"]
        BY <3>1, <2>1, <2>2, <2>5 DEF LockLoop
      <4> QED  BY <4>1, <3>1, <2>3 DEF RW!Next, RW!Claim
    <3>2. CASE pc' = [pc EXCEPT ![t] = "lock_wait"] \/ pc' = pc
      BY <3>2, <2>5 DEF LockLoop, owner, IInv, TypeOK
    <3> QED  BY <3>1, <3>2, <2>5 DEF LockLoop
  <2>6. ASSUME NEW t \in Threads, LockClaimed(t) PROVE RW!Next \/ UNCHANGED owner
    <3>1. CASE HasReaders(value[t])
      BY <3>1, <2>6 DEF LockClaimed, owner, IInv, TypeOK
    <3>2. CASE ~HasReaders(value[t])
      <4>1. ~HasReaders(state)
        BY <3>2, <2>6 DEF LockClaimed, IInv, TypeOK, Word, HalfWord, LocalValues, HasReaders
      <4>2. owner[t] = "claimed" /\ owner' = [owner EXCEPT ![t] = "exclusive"]
        BY <3>2, <2>1, <2>2, <2>6 DEF LockClaimed
      <4> QED  BY <4>1, <4>2, <2>4 DEF RW!Next, RW!AcquireExclusive
    <3> QED  BY <3>1, <3>2
  <2>7. ASSUME NEW t \in Threads, DrainFetch(t) PROVE RW!Next \/ UNCHANGED owner
    <3>1. CASE HasReaders(state)
      BY <3>1, <2>7 DEF DrainFetch, owner, IInv, TypeOK
    <3>2. CASE ~HasReaders(state)
      <4>1. owner[t] = "claimed" /\ owner' = [owner EXCEPT ![t] = "exclusive"]
        BY <3>2, <2>1, <2>2, <2>7 DEF DrainFetch
      <4> QED  BY <4>1, <3>2, <2>4 DEF RW!Next, RW!AcquireExclusive
    <3> QED  BY <3>1, <3>2
  <2>8. ASSUME NEW t \in Threads, TryLock(t) PROVE RW!Next
    <3>1. ~HasWriter(state)
      BY <2>8 DEF TryLock, Zero, HasWriter
    <3>2. owner[t] = "none" /\ owner' = [owner EXCEPT ![t] = "claimed"]
      BY <2>1, <2>2, <2>8 DEF TryLock
    <3> QED  BY <3>1, <3>2, <2>3 DEF RW!Next, RW!Claim
  <2>9. ASSUME NEW t \in Threads, TryLockClaimed(t) PROVE RW!Next
    <3>1. ~HasReaders(state)
      BY <2>9 DEF TryLockClaimed, IInv, LocalValues, HasReaders
    <3>2. owner[t] = "claimed" /\ owner' = [owner EXCEPT ![t] = "exclusive"]
      BY <2>1, <2>2, <2>9 DEF TryLockClaimed
    <3> QED  BY <3>1, <3>2, <2>4 DEF RW!Next, RW!AcquireExclusive
  <2>10. ASSUME NEW t \in Threads, UnlockStore(t) PROVE RW!Next
    <3>1. owner[t] = "exclusive" /\ owner' = [owner EXCEPT ![t] = "none"]
      <4>1. pc' = [pc EXCEPT ![t] = "unlock_check"] /\ OwnedAt("unlock_check") = "none"
        BY <2>10 DEF UnlockStore
      <4> QED  BY <4>1, <2>1, <2>2, <2>10 DEF UnlockStore
    <3> QED  BY <3>1 DEF RW!Next, RW!ReleaseExclusive
  <2>11. ASSUME NEW t \in Threads, LockSharedLoop(t) \/ TryLockSharedLoop(t)
         PROVE RW!Next \/ UNCHANGED owner
    <3>1. CASE pc' = [pc EXCEPT ![t] = "reading"] /\ state = value[t] /\ ~HasWriter(value[t])
      <4>1. owner[t] = "none" /\ owner' = [owner EXCEPT ![t] = "shared"]
        BY <3>1, <2>1, <2>2, <2>11 DEF LockSharedLoop, TryLockSharedLoop
      <4> QED  BY <4>1, <3>1, <2>3 DEF RW!Next, RW!AcquireShared
    <3>2. CASE pc' \in {[pc EXCEPT ![t] = "shared_wait"], [pc EXCEPT ![t] = "idle"], pc}
      BY <3>2, <2>11 DEF LockSharedLoop, TryLockSharedLoop, owner, IInv, TypeOK
    <3> QED  BY <3>1, <3>2, <2>11 DEF LockSharedLoop, TryLockSharedLoop
  <2>12. ASSUME NEW t \in Threads, UnlockShared(t) PROVE RW!Next
    <3>1. owner[t] = "shared" /\ owner' = [owner EXCEPT ![t] = "none"]
      <4>1. PICK l \in {"wake_writer", "idle"} : pc' = [pc EXCEPT ![t] = l]
        BY <2>12 DEF UnlockShared
      <4>2. OwnedAt(l) = "none"
        OBVIOUS
      <4> QED  BY <4>1, <4>2, <2>1, <2>2, <2>12 DEF UnlockShared
    <3> QED  BY <3>1 DEF RW!Next, RW!ReleaseShared
  <2>13. ASSUME NEW t \in Threads,
                \/ LockLoad(t) \/ LockSharedLoad(t) \/ TryLockSharedLoad(t)
                \/ Drain(t) \/ FutexWaitUpper(t) \/ FutexFetchUpper(t) \/ LeaveWait(t)
                \/ Unlock(t) \/ UnlockCheck(t) \/ UnlockWake(t) \/ WakeWriter(t)
                \/ SpuriousWakeUp(t)
         PROVE UNCHANGED owner
    BY <2>13 DEF LockLoad, LockSharedLoad, TryLockSharedLoad, Drain, FutexWaitUpper,
                 FutexFetchUpper, LeaveWait, Unlock, UnlockCheck, UnlockWake, WakeWriter,
                 SpuriousWakeUp, owner, IInv, TypeOK
  <2>14. CASE UNCHANGED vars
    BY <2>14 DEF vars, owner
  <2> QED  BY <2>5, <2>6, <2>7, <2>8, <2>9, <2>10, <2>11, <2>12, <2>13, <2>14
           DEF Next, Start, Continue
<1> QED  BY <1>1, <1>2, Inductive, PTL DEF Spec, RW!Spec, ImplementsReadersWriter
=============================================================================
