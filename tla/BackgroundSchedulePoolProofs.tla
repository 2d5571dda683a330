-------------------- MODULE BackgroundSchedulePoolProofs --------------------
(***************************************************************************)
(* The two safety invariants of BackgroundSchedulePool, for any tasks and  *)
(* any threads.  They need each other and two more facts: exec_mutex is    *)
(* held by the thread that executes the task (Execution), and a task is at *)
(* most once among the delayed ones (Types), so that erasing it once is    *)
(* enough.                                                                 *)
(***************************************************************************)
EXTENDS BackgroundSchedulePool, SequenceLemmas, TLAPS

Places == {"absent", "loop", "wait", "asleep", "popped", "running", "done",
           "look", "asleep_until", "found"}

Position == [pc : Places, task : Tasks \cup {NoTask}]

Types ==
  /\ deactivated \subseteq Tasks /\ scheduled \subseteq Tasks /\ executing \subseteq Tasks
  /\ exec_mutex \in [Tasks -> Workers \cup {Caller, NoTask}]
  /\ tasks \in Seq(Tasks)
  /\ delayed_tasks \subseteq Tasks
  /\ due \in Seq(Tasks) /\ Unique(due) /\ delayed_tasks \cap Range(due) = {}
  /\ worker \in [Workers -> Position]
  /\ delayed_thread \in Position
  /\ \A w \in Workers : worker[w].pc \in {"popped", "running"} => worker[w].task \in Tasks
  /\ delayed_thread.pc = "found" => delayed_thread.task \in Tasks

(* execute() holds exec_mutex and sets executing meanwhile. *)
Execution ==
  /\ \A t \in Tasks, w \in Workers :
       exec_mutex[t] = w <=> worker[w].pc = "running" /\ worker[w].task = t
  /\ executing = {t \in Tasks : exec_mutex[t] \in Workers}

IInv == Types /\ Execution /\ FlagsAgree /\ NoLostSchedule

-----------------------------------------------------------------------------
(* Erasing a task takes it off a sequence without repetitions. *)
LEMMA ErasedFacts ==
  ASSUME NEW S, NEW s \in Seq(S), Unique(s), NEW x
  PROVE  /\ Erased(s, x) \in Seq(S)
         /\ Unique(Erased(s, x))
         /\ Range(Erased(s, x)) = Range(s) \ {x}
<1>1. CASE x \notin Range(s)
  BY <1>1 DEF Erased
<1>2. CASE x \in Range(s)
  <2>1. PICK i \in DOMAIN s : s[i] = x /\ Erased(s, x) = RemoveAt(s, i)
    BY <1>2 DEF Erased, Range
  <2> QED  BY <2>1, RemoveAtFacts, RemoveAtUnique
<1> QED  BY <1>1, <1>2

-----------------------------------------------------------------------------
(* A thread that slept on tasks_cond_var may have been woken. *)
Woken(ws) ==
  /\ worker' \in [Workers -> Position]
  /\ \A w \in Workers :
       worker'[w] = ws[w] \/ (ws[w].pc = "asleep" /\ worker'[w].pc = "wait")

Placed(dt) == dt \in Position /\ (dt.pc = "found" => dt.task \in Tasks)

LEMMA PositionFacts ==
  /\ \A p \in Places : At(p) \in Position /\ At(p).pc = p /\ At(p).task = NoTask
  /\ \A p \in Places, t \in Tasks : With(p, t) \in Position /\ With(p, t).pc = p /\ With(p, t).task = t
  /\ {"absent", "loop", "wait", "asleep", "popped", "running", "done",
      "look", "asleep_until", "found"} \subseteq Places
BY DEF At, With, Position, Places

LEMMA NotifyOneFacts ==
  ASSUME NEW ws \in [Workers -> Position], NotifyOne(ws)
  PROVE  Woken(ws)
<1>1. At("wait") \in Position /\ At("wait").pc = "wait"
  BY PositionFacts
<1> QED  BY <1>1 DEF NotifyOne, Woken

LEMMA NotifyDelayedFacts ==
  ASSUME NEW dt, Placed(dt), NotifyDelayed(dt)
  PROVE  Placed(delayed_thread')
<1>1. With("look", dt.task) = [pc |-> "look", task |-> dt.task]
  BY DEF With
<1> QED  BY <1>1 DEF NotifyDelayed, Placed, Position, Places

LEMMA NotDelayedFacts ==
  ASSUME Types, NEW t \in Tasks, NotDelayed(t)
  PROVE  /\ delayed_tasks' \subseteq Tasks
         /\ due' \in Seq(Tasks) /\ Unique(due)'
         /\ (delayed_tasks \cap Range(due) = {})'
         /\ Delayed' = Delayed \ {t}
<1>1. due' \in Seq(Tasks) /\ Unique(due') /\ Range(due') = Range(due) \ {t}
  BY ErasedFacts DEF Types, NotDelayed
<1>2. delayed_tasks' = delayed_tasks \ {t}
  BY DEF NotDelayed
<1>3. delayed_tasks \subseteq Tasks /\ delayed_tasks \cap Range(due) = {}
  BY DEF Types
<1>4. (delayed_tasks \cap Range(due) = {})'
  BY <1>1, <1>2, <1>3
<1>5. Delayed' = Delayed \ {t}
  BY <1>1, <1>2 DEF Delayed
<1> QED  BY <1>1, <1>2, <1>3, <1>4, <1>5 DEF Unique

(* scheduleImpl(): what schedule(), activateAndSchedule() and the thread   *)
(* of delayed tasks do to the queue.                                       *)
LEMMA ScheduleImplFacts ==
  ASSUME Types, NEW t \in Tasks, NEW dt, Placed(dt), ScheduleImpl(t, dt)
  PROVE  /\ scheduled' = scheduled \cup {t}
         /\ delayed_tasks' \subseteq Tasks
         /\ due' \in Seq(Tasks) /\ Unique(due)'
         /\ (delayed_tasks \cap Range(due) = {})'
         /\ Delayed' = Delayed \ {t}
         /\ tasks' \in Seq(Tasks)
         /\ Range(tasks) \subseteq Range(tasks')
         /\ t \in executing \/ t \in Range(tasks')
         /\ Woken(worker)
         /\ Placed(delayed_thread')
<1>1. NotDelayed(t) /\ scheduled' = scheduled \cup {t}
  BY DEF ScheduleImpl, CancelDelayedTask
<1>2. Placed(delayed_thread')
  BY NotifyDelayedFacts DEF ScheduleImpl, CancelDelayedTask
<1>3. tasks \in Seq(Tasks) /\ worker \in [Workers -> Position]
  BY DEF Types
<1>4. CASE t \in executing
  <2>1. tasks' = tasks /\ worker' = worker
    BY <1>4 DEF ScheduleImpl
  <2>2. Woken(worker)
    BY <1>3, <2>1 DEF Woken
  <2> QED  BY <1>1, <1>2, <1>3, <1>4, <2>1, <2>2, NotDelayedFacts
<1>5. CASE t \notin executing
  <2>1. tasks' = Append(tasks, t) /\ NotifyOne(worker)
    BY <1>5 DEF ScheduleImpl, ScheduleTask
  <2>2. tasks' \in Seq(Tasks) /\ Range(tasks') = Range(tasks) \cup {t}
    BY <1>3, <2>1, SequenceFacts
  <2>3. Woken(worker)
    BY <1>3, <2>1, NotifyOneFacts
  <2> QED  BY <1>1, <1>2, <2>2, <2>3, NotDelayedFacts
<1> QED  BY <1>4, <1>5

(* Waking a thread changes nothing that the invariant speaks about. *)
LEMMA WokenFrame ==
  ASSUME Types, Execution, Woken(worker), UNCHANGED <<executing, exec_mutex>>
  PROVE  /\ Execution'
         /\ worker' \in [Workers -> Position]
         /\ \A w \in Workers : worker'[w].pc \in {"popped", "running"} => worker'[w].task \in Tasks
         /\ \A t : Pending(t) => Pending(t)'
         /\ \A w \in Workers : worker'[w].pc = "running" =>
              worker[w].pc = "running" /\ worker[w].task = worker'[w].task
<1>1. \A w \in Workers :
        worker'[w] = worker[w] \/ (worker[w].pc = "asleep" /\ worker'[w].pc = "wait")
  BY DEF Woken
<1>2. \A w \in Workers : \A t : worker[w] = With("popped", t) => worker[w].pc = "popped"
  BY DEF With
<1>3. \A t : Pending(t) => Pending(t)'
  BY <1>1, <1>2 DEF Pending
<1>4. Execution'
  BY <1>1 DEF Execution
<1> QED  BY <1>1, <1>3, <1>4 DEF Types, Woken

(* The same, when no thread changes its place. *)
LEMMA WokenUnchanged ==
  ASSUME Types, worker' = worker
  PROVE  Woken(worker)
BY DEF Types, Woken

LEMMA PlacedThread ==
  ASSUME Types
  PROVE  Placed(delayed_thread)
BY DEF Types, Placed

-----------------------------------------------------------------------------
(* One lemma per action. *)

LEMMA ScheduleIInv ==
  ASSUME IInv, NEW t \in Tasks, Schedule(t)
  PROVE  IInv'
<1>1. ScheduleImpl(t, delayed_thread) /\ UNCHANGED <<deactivated, executing, exec_mutex>>
  BY DEF Schedule
<1>2. t \notin deactivated
  BY DEF Schedule
<1>3. Types /\ Execution /\ FlagsAgree /\ NoLostSchedule
  BY DEF IInv
<1>4. /\ scheduled' = scheduled \cup {t} /\ Delayed' = Delayed \ {t}
      /\ delayed_tasks' \subseteq Tasks /\ due' \in Seq(Tasks) /\ Unique(due)'
      /\ (delayed_tasks \cap Range(due) = {})' /\ tasks' \in Seq(Tasks)
      /\ Range(tasks) \subseteq Range(tasks') /\ (t \in executing \/ t \in Range(tasks'))
      /\ Woken(worker) /\ Placed(delayed_thread')
  BY <1>1, <1>3, PlacedThread, ScheduleImplFacts
<1>5. Types'
  BY <1>1, <1>3, <1>4, WokenFrame DEF Types, Placed
<1>6. Execution'
  BY <1>1, <1>3, <1>4, WokenFrame
<1>7. FlagsAgree'
  BY <1>1, <1>2, <1>3, <1>4 DEF FlagsAgree
<1>8. NoLostSchedule'
  BY <1>1, <1>2, <1>3, <1>4, WokenFrame DEF NoLostSchedule
<1> QED  BY <1>5, <1>6, <1>7, <1>8 DEF IInv

LEMMA ScheduleAfterIInv ==
  ASSUME IInv, NEW t \in Tasks, NEW overwrite, NEW only_if_scheduled,
         ScheduleAfter(t, overwrite, only_if_scheduled)
  PROVE  IInv'
<1>1. /\ t \notin deactivated /\ t \notin scheduled
      /\ delayed_tasks' = delayed_tasks \cup {t} /\ due' = Erased(due, t)
      /\ NotifyDelayed(delayed_thread)
      /\ UNCHANGED <<flags, exec_mutex, tasks, worker>>
  BY DEF ScheduleAfter
<1>2. Types /\ Execution /\ FlagsAgree /\ NoLostSchedule
  BY DEF IInv
<1>3. due' \in Seq(Tasks) /\ Unique(due') /\ Range(due') = Range(due) \ {t}
  BY <1>1, <1>2, ErasedFacts DEF Types
<1>4. Placed(delayed_thread')
  BY <1>1, <1>2, PlacedThread, NotifyDelayedFacts
<1>5. Woken(worker)
  BY <1>1, <1>2, WokenUnchanged
<1>6. (delayed_tasks \cap Range(due) = {})' /\ Delayed' = Delayed \cup {t}
  BY <1>1, <1>2, <1>3 DEF Types, Delayed
<1>7. Types'
  BY <1>1, <1>2, <1>3, <1>4, <1>6 DEF Types, Placed, flags, Unique
<1>8. Execution' /\ FlagsAgree'
  BY <1>1, <1>2, <1>6 DEF Execution, FlagsAgree, flags
<1>9. NoLostSchedule'
  BY <1>1, <1>2 DEF NoLostSchedule, Pending, flags
<1> QED  BY <1>7, <1>8, <1>9 DEF IInv

(* deactivate() has got exec_mutex, so the task is not executing. *)
LEMMA DeactivateIInv ==
  ASSUME IInv, NEW t \in Tasks, Deactivate(t)
  PROVE  IInv'
<1>1. /\ exec_mutex[t] = NoTask
      /\ deactivated' = deactivated \cup {t} /\ scheduled' = scheduled \ {t}
      /\ NotDelayed(t)
      /\ NotifyDelayed(delayed_thread) \/ delayed_thread' = delayed_thread
      /\ UNCHANGED <<executing, exec_mutex, tasks, worker>>
  BY DEF Deactivate, CancelDelayedTask
<1>2. Types /\ Execution /\ FlagsAgree /\ NoLostSchedule
  BY DEF IInv
<1>3. t \notin executing
  BY <1>1, <1>2, PoolAssumption DEF Execution
<1>4. Placed(delayed_thread')
  BY <1>1, <1>2, PlacedThread, NotifyDelayedFacts
<1>5. /\ delayed_tasks' \subseteq Tasks /\ due' \in Seq(Tasks) /\ Unique(due)'
      /\ (delayed_tasks \cap Range(due) = {})' /\ Delayed' = Delayed \ {t}
  BY <1>1, <1>2, NotDelayedFacts
<1>6. Types'
  BY <1>1, <1>2, <1>4, <1>5 DEF Types, Placed
<1>7. Execution'
  BY <1>1, <1>2 DEF Execution
<1>8. FlagsAgree'
  BY <1>1, <1>2, <1>3, <1>5 DEF FlagsAgree
<1>9. NoLostSchedule'
  BY <1>1, <1>2, <1>3 DEF NoLostSchedule, Pending
<1> QED  BY <1>6, <1>7, <1>8, <1>9 DEF IInv

LEMMA ActivateIInv ==
  ASSUME IInv, NEW t \in Tasks, Activate(t)
  PROVE  IInv'
<1>1. /\ deactivated' = deactivated \ {t}
      /\ UNCHANGED <<scheduled, executing, exec_mutex, tasks, delayed_tasks, due, worker, delayed_thread>>
  BY DEF Activate, timing
<1>2. Types' /\ Execution'
  BY <1>1 DEF IInv, Types, Execution, Unique
<1>3. FlagsAgree'
  BY <1>1 DEF IInv, FlagsAgree, Delayed
<1>4. NoLostSchedule'
  BY <1>1 DEF IInv, NoLostSchedule, Pending
<1> QED  BY <1>2, <1>3, <1>4 DEF IInv

LEMMA ActivateAndScheduleIInv ==
  ASSUME IInv, NEW t \in Tasks, ActivateAndSchedule(t)
  PROVE  IInv'
<1>1. /\ ScheduleImpl(t, delayed_thread) /\ deactivated' = deactivated \ {t}
      /\ UNCHANGED <<executing, exec_mutex>>
  BY DEF ActivateAndSchedule
<1>2. Types /\ Execution /\ FlagsAgree /\ NoLostSchedule
  BY DEF IInv
<1>3. /\ scheduled' = scheduled \cup {t} /\ Delayed' = Delayed \ {t}
      /\ delayed_tasks' \subseteq Tasks /\ due' \in Seq(Tasks) /\ Unique(due)'
      /\ (delayed_tasks \cap Range(due) = {})' /\ tasks' \in Seq(Tasks)
      /\ Range(tasks) \subseteq Range(tasks') /\ (t \in executing \/ t \in Range(tasks'))
      /\ Woken(worker) /\ Placed(delayed_thread')
  BY <1>1, <1>2, PlacedThread, ScheduleImplFacts
<1>4. Types'
  BY <1>1, <1>2, <1>3, WokenFrame DEF Types, Placed
<1>5. Execution'
  BY <1>1, <1>2, <1>3, WokenFrame
<1>6. FlagsAgree'
  BY <1>1, <1>2, <1>3 DEF FlagsAgree
<1>7. NoLostSchedule'
  BY <1>1, <1>2, <1>3, WokenFrame DEF NoLostSchedule
<1> QED  BY <1>4, <1>5, <1>6, <1>7 DEF IInv

-----------------------------------------------------------------------------
(* getExecLock(): its caller is no thread of the pool. *)
LEMMA ExecLockIInv ==
  ASSUME IInv, NEW t \in Tasks, GetExecLock(t) \/ ReleaseExecLock(t)
  PROVE  IInv'
<1>1. /\ exec_mutex[t] \notin Workers
      /\ exec_mutex' = [exec_mutex EXCEPT ![t] = Caller] \/ exec_mutex' = [exec_mutex EXCEPT ![t] = NoTask]
      /\ UNCHANGED <<deactivated, scheduled, executing, tasks, delayed_tasks, due, worker, delayed_thread>>
  BY PoolAssumption DEF GetExecLock, ReleaseExecLock, flags, timing
<1>2. Types'
  BY <1>1 DEF IInv, Types, Unique
<1>3. exec_mutex \in [Tasks -> Workers \cup {Caller, NoTask}]
  BY DEF IInv, Types
<1>4. \A u \in Tasks, w \in Workers : exec_mutex'[u] = w <=> exec_mutex[u] = w
  BY <1>1, <1>3, PoolAssumption
<1>5. Execution'
  BY <1>1, <1>4 DEF IInv, Execution
<1>6. FlagsAgree' /\ NoLostSchedule'
  BY <1>1 DEF IInv, FlagsAgree, Delayed, NoLostSchedule, Pending
<1> QED  BY <1>2, <1>5, <1>6 DEF IInv

(* A thread moves that neither was nor becomes one that executes. *)
LEMMA MoveFrame ==
  ASSUME IInv, NEW w \in Workers, NEW p \in Position,
         worker' = [worker EXCEPT ![w] = p],
         worker[w].pc # "running", p.pc # "running",
         p.pc = "popped" => p.task \in Tasks,
         UNCHANGED <<deactivated, executing, exec_mutex>>
  PROVE  /\ Execution'
         /\ worker' \in [Workers -> Position]
         /\ \A v \in Workers : worker'[v].pc \in {"popped", "running"} => worker'[v].task \in Tasks
         /\ \A v \in Workers : worker'[v].pc = "running" => worker'[v].task \in executing' \ deactivated'
         /\ \A t : Pending(t) => Pending(t)' \/ worker[w] = With("popped", t)
<1>1. worker \in [Workers -> Position]
  BY DEF IInv, Types
<1>2. worker'[w] = p /\ \A v \in Workers : v # w => worker'[v] = worker[v]
  BY <1>1
<1>3. Execution'
  BY <1>2 DEF IInv, Execution
<1>4. \A t : Pending(t) => Pending(t)' \/ worker[w] = With("popped", t)
  BY <1>2 DEF Pending
<1>5. \A v \in Workers : worker'[v].pc \in {"popped", "running"} => worker'[v].task \in Tasks
  BY <1>2 DEF IInv, Types
<1>6. \A v \in Workers : worker'[v].pc = "running" => worker'[v].task \in executing' \ deactivated'
  BY <1>2 DEF IInv, NoLostSchedule
<1>7. worker' \in [Workers -> Position]
  BY <1>1
<1> QED  BY <1>3, <1>4, <1>5, <1>6, <1>7

(* It takes no task with it and leaves none. *)
LEMMA WorkerMoves ==
  ASSUME IInv, NEW w \in Workers, NEW p \in Position,
         worker' = [worker EXCEPT ![w] = p],
         worker[w].pc \notin {"popped", "running"}, p.pc \notin {"popped", "running"},
         UNCHANGED <<deactivated, scheduled, executing, exec_mutex, tasks, delayed_tasks, due, delayed_thread>>
  PROVE  IInv'
<1>1. \A t : With("popped", t).pc = "popped"
  BY DEF With
<1>2. /\ Execution' /\ worker' \in [Workers -> Position]
      /\ \A v \in Workers : worker'[v].pc \in {"popped", "running"} => worker'[v].task \in Tasks
      /\ \A v \in Workers : worker'[v].pc = "running" => worker'[v].task \in executing' \ deactivated'
      /\ \A t : Pending(t) => Pending(t)' \/ worker[w] = With("popped", t)
  BY MoveFrame
<1>3. Types'
  BY <1>2 DEF IInv, Types, Unique
<1>4. FlagsAgree'
  BY DEF IInv, FlagsAgree, Delayed
<1>5. NoLostSchedule'
  BY <1>1, <1>2 DEF IInv, NoLostSchedule
<1> QED  BY <1>2, <1>3, <1>4, <1>5 DEF IInv

LEMMA LoopIInv ==
  ASSUME IInv, NEW w \in Workers, IncreaseThreadsCount(w) \/ WorkerLoop(w)
  PROVE  IInv'
<1>1. PICK p \in {"loop", "done", "wait"} : worker' = [worker EXCEPT ![w] = At(p)]
  BY DEF IncreaseThreadsCount, WorkerLoop, SetWorker
<1>2. worker[w].pc \notin {"popped", "running"}
  BY DEF IncreaseThreadsCount, WorkerLoop
<1>3. UNCHANGED <<deactivated, scheduled, executing, exec_mutex, tasks, delayed_tasks, due, delayed_thread>>
  BY DEF IncreaseThreadsCount, WorkerLoop, flags, timing
<1>4. At(p) \in Position /\ At(p).pc = p
  BY PositionFacts
<1> QED  BY <1>1, <1>2, <1>3, <1>4, WorkerMoves

(* The task that leaves the queue is with the thread. *)
LEMMA WorkerWaitIInv ==
  ASSUME IInv, NEW w \in Workers, WorkerWait(w)
  PROVE  IInv'
<1>1. /\ worker[w].pc = "wait"
      /\ UNCHANGED <<deactivated, scheduled, executing, exec_mutex, delayed_tasks, due, delayed_thread>>
  BY DEF WorkerWait, flags, timing
<1>2. CASE tasks = <<>>
  <2>1. PICK p \in {"loop", "asleep"} : worker' = [worker EXCEPT ![w] = At(p)]
    BY <1>2 DEF WorkerWait, SetWorker
  <2>2. At(p) \in Position /\ At(p).pc = p
    BY PositionFacts
  <2>3. tasks' = tasks
    BY <1>2 DEF WorkerWait
  <2> QED  BY <1>1, <2>1, <2>2, <2>3, WorkerMoves
<1>3. CASE tasks # <<>>
  <2>1. tasks \in Seq(Tasks)
    BY DEF IInv, Types
  <2>2. PICK h \in Tasks : h = Head(tasks) /\ Range(tasks) \subseteq {h} \cup Range(Tail(tasks))
    BY <1>3, <2>1, HeadAndTail
  <2>3. /\ tasks' = Tail(tasks) /\ tasks' \in Seq(Tasks)
        /\ worker' = [worker EXCEPT ![w] = With("popped", h)]
    BY <1>3, <2>1, <2>2, HeadAndTail DEF WorkerWait, SetWorker
  <2>4. With("popped", h) \in Position /\ With("popped", h).pc = "popped" /\ With("popped", h).task = h
    BY PositionFacts
  <2>5. \A t : With("popped", t).pc = "popped"
    BY DEF With
  <2>6. /\ Execution' /\ worker' \in [Workers -> Position]
        /\ \A v \in Workers : worker'[v].pc \in {"popped", "running"} => worker'[v].task \in Tasks
        /\ \A v \in Workers : worker'[v].pc = "running" => worker'[v].task \in executing' \ deactivated'
        /\ \A t : Pending(t) => Pending(t)' \/ worker[w] = With("popped", t)
    BY <1>1, <2>3, <2>4, MoveFrame
  <2>7. Pending(h)'
    <3>1. worker \in [Workers -> Position]
      BY DEF IInv, Types
    <3> QED  BY <2>3, <3>1 DEF Pending
  <2>8. Types'
    BY <1>1, <2>3, <2>6 DEF IInv, Types, Unique
  <2>9. FlagsAgree'
    BY <1>1 DEF IInv, FlagsAgree, Delayed
  <2>10. NoLostSchedule'
    BY <1>1, <2>2, <2>3, <2>5, <2>6, <2>7 DEF IInv, NoLostSchedule
  <2> QED  BY <2>6, <2>8, <2>9, <2>10 DEF IInv
<1> QED  BY <1>2, <1>3
(* execute(): the thread takes exec_mutex and the flag scheduled. *)
LEMMA ExecuteBeginIInv ==
  ASSUME IInv, NEW w \in Workers, ExecuteBegin(w)
  PROVE  IInv'
<1>1. PICK t : t = worker[w].task
  OBVIOUS
<1>2. /\ worker[w].pc = "popped" /\ exec_mutex[t] = NoTask
      /\ UNCHANGED <<deactivated, tasks, delayed_tasks, due, delayed_thread>>
  BY <1>1 DEF ExecuteBegin, timing
<1>3. Types /\ Execution /\ FlagsAgree /\ NoLostSchedule
  BY DEF IInv
<1>4. t \in Tasks /\ worker \in [Workers -> Position]
  BY <1>1, <1>2, <1>3 DEF Types
<1>5. \A u : worker[w] = With("popped", u) => u = t
  BY <1>1 DEF With
<1>6. CASE t \in deactivated
  <2>1. worker' = [worker EXCEPT ![w] = At("loop")] /\ UNCHANGED <<scheduled, executing, exec_mutex>>
    BY <1>1, <1>6 DEF ExecuteBegin, SetWorker
  <2>2. At("loop") \in Position /\ At("loop").pc = "loop"
    BY PositionFacts
  <2>3. /\ Execution' /\ worker' \in [Workers -> Position]
        /\ \A v \in Workers : worker'[v].pc \in {"popped", "running"} => worker'[v].task \in Tasks
        /\ \A v \in Workers : worker'[v].pc = "running" => worker'[v].task \in executing' \ deactivated'
        /\ \A u : Pending(u) => Pending(u)' \/ worker[w] = With("popped", u)
    BY <1>2, <2>1, <2>2, MoveFrame
  <2>4. t \notin scheduled
    BY <1>3, <1>6 DEF FlagsAgree
  <2>5. Types'
    BY <1>2, <1>3, <2>1, <2>3 DEF Types, Unique
  <2>6. FlagsAgree'
    BY <1>2, <1>3, <2>1 DEF FlagsAgree, Delayed
  <2>7. NoLostSchedule'
    BY <1>2, <1>3, <1>5, <2>1, <2>3, <2>4 DEF NoLostSchedule
  <2> QED  BY <2>3, <2>5, <2>6, <2>7 DEF IInv
<1>7. CASE t \notin deactivated
  <2>1. /\ scheduled' = scheduled \ {t} /\ executing' = executing \cup {t}
        /\ exec_mutex' = [exec_mutex EXCEPT ![t] = w]
        /\ worker' = [worker EXCEPT ![w] = With("running", t)]
    BY <1>1, <1>7 DEF ExecuteBegin, SetWorker
  <2>2. With("running", t) \in Position /\ With("running", t).pc = "running" /\ With("running", t).task = t
    BY <1>4, PositionFacts
  <2>3. worker'[w] = With("running", t) /\ \A v \in Workers : v # w => worker'[v] = worker[v]
    BY <1>4, <2>1
  <2>4. exec_mutex \in [Tasks -> Workers \cup {Caller, NoTask}]
    BY <1>3 DEF Types
  <2>5. exec_mutex'[t] = w /\ \A u \in Tasks : u # t => exec_mutex'[u] = exec_mutex[u]
    BY <1>4, <2>1, <2>4
  <2>6. Types'
    <3>1. exec_mutex' \in [Tasks -> Workers \cup {Caller, NoTask}]
      BY <2>1, <2>4
    <3>2. worker' \in [Workers -> Position]
      BY <1>4, <2>1, <2>2
    <3>3. \A v \in Workers : worker'[v].pc \in {"popped", "running"} => worker'[v].task \in Tasks
      BY <1>3, <1>4, <2>2, <2>3 DEF Types
    <3> QED  BY <1>2, <1>3, <1>4, <2>1, <3>1, <3>2, <3>3 DEF Types, Unique
  <2>7. Execution'
    <3>1. \A v \in Workers : exec_mutex[t] # v
      BY <1>2, PoolAssumption
    <3>2. \A u \in Tasks, v \in Workers :
            exec_mutex'[u] = v <=> worker'[v].pc = "running" /\ worker'[v].task = u
      BY <1>2, <1>3, <1>4, <2>2, <2>3, <2>5, <3>1 DEF Execution
    <3>3. executing' = {u \in Tasks : exec_mutex'[u] \in Workers}
      BY <1>3, <1>4, <2>1, <2>5 DEF Execution
    <3> QED  BY <3>2, <3>3 DEF Execution
  <2>8. FlagsAgree'
    BY <1>2, <1>3, <1>7, <2>1 DEF FlagsAgree, Delayed
  <2>9. NoLostSchedule'
    <3>1. \A u : Pending(u) => Pending(u)' \/ u = t
      BY <1>5, <2>3 DEF Pending
    <3>2. \A v \in Workers : worker'[v].pc = "running" => worker'[v].task \in executing' \ deactivated'
      BY <1>2, <1>3, <1>7, <2>1, <2>2, <2>3 DEF NoLostSchedule
    <3> QED  BY <1>2, <1>3, <2>1, <3>1, <3>2 DEF NoLostSchedule
  <2> QED  BY <2>6, <2>7, <2>8, <2>9 DEF IInv
<1> QED  BY <1>6, <1>7

(* A task that was scheduled while it ran goes back to the queue. *)
LEMMA ExecuteEndIInv ==
  ASSUME IInv, NEW w \in Workers, ExecuteEnd(w)
  PROVE  IInv'
<1>1. PICK t, ws : t = worker[w].task /\ ws = [worker EXCEPT ![w] = At("loop")]
  OBVIOUS
<1>2. /\ worker[w].pc = "running"
      /\ executing' = executing \ {t} /\ exec_mutex' = [exec_mutex EXCEPT ![t] = NoTask]
      /\ UNCHANGED <<deactivated, scheduled, delayed_tasks, due, delayed_thread>>
  BY <1>1 DEF ExecuteEnd, timing
<1>3. Types /\ Execution /\ FlagsAgree /\ NoLostSchedule
  BY DEF IInv
<1>4. t \in Tasks /\ worker \in [Workers -> Position] /\ tasks \in Seq(Tasks)
  BY <1>1, <1>2, <1>3 DEF Types
<1>5. At("loop") \in Position /\ At("loop").pc = "loop"
  BY PositionFacts
<1>6. ws \in [Workers -> Position] /\ ws[w].pc = "loop" /\ \A v \in Workers : v # w => ws[v] = worker[v]
  BY <1>1, <1>4, <1>5
<1>7. /\ tasks' \in Seq(Tasks) /\ Range(tasks) \subseteq Range(tasks')
      /\ t \in scheduled => t \in Range(tasks')
      /\ Woken(ws)
  <2>1. CASE t \in scheduled
    <3>1. tasks' = Append(tasks, t) /\ NotifyOne(ws)
      BY <1>1, <2>1 DEF ExecuteEnd, ScheduleTask
    <3> QED  BY <1>4, <1>6, <3>1, SequenceFacts, NotifyOneFacts
  <2>2. CASE t \notin scheduled
    <3>1. tasks' = tasks /\ worker' = ws
      BY <1>1, <2>2 DEF ExecuteEnd
    <3> QED  BY <1>4, <1>6, <2>2, <3>1 DEF Woken
  <2> QED  BY <2>1, <2>2
<1>8. /\ worker' \in [Workers -> Position]
      /\ worker'[w].pc = "loop"
      /\ \A v \in Workers : v # w =>
           worker'[v] = worker[v] \/ (worker[v].pc = "asleep" /\ worker'[v].pc = "wait")
  BY <1>6, <1>7 DEF Woken
<1>9. exec_mutex \in [Tasks -> Workers \cup {Caller, NoTask}]
  BY <1>3 DEF Types
<1>10. exec_mutex'[t] = NoTask /\ \A u \in Tasks : u # t => exec_mutex'[u] = exec_mutex[u]
  BY <1>2, <1>4, <1>9
<1>11. exec_mutex[t] = w
  BY <1>1, <1>2, <1>3, <1>4 DEF Execution
<1>12. Types'
  <2>1. exec_mutex' \in [Tasks -> Workers \cup {Caller, NoTask}]
    BY <1>2, <1>9
  <2>2. \A v \in Workers : worker'[v].pc \in {"popped", "running"} => worker'[v].task \in Tasks
    BY <1>3, <1>8 DEF Types
  <2> QED  BY <1>2, <1>3, <1>7, <1>8, <2>1, <2>2 DEF Types, Unique
<1>13. Execution'
  <2>1. \A u \in Tasks, v \in Workers :
          exec_mutex'[u] = v <=> worker'[v].pc = "running" /\ worker'[v].task = u
    <3> SUFFICES ASSUME NEW u \in Tasks, NEW v \in Workers
                 PROVE  exec_mutex'[u] = v <=> worker'[v].pc = "running" /\ worker'[v].task = u
      OBVIOUS
    <3>1. CASE v = w
      BY <1>1, <1>2, <1>3, <1>8, <1>10, <3>1, PoolAssumption DEF Execution
    <3>2. CASE v # w
      <4>1. worker'[v].pc = "running" /\ worker'[v].task = u <=> worker[v].pc = "running" /\ worker[v].task = u
        BY <1>8, <3>2
      <4>2. exec_mutex'[u] = v <=> exec_mutex[u] = v
        BY <1>10, <1>11, <3>2, PoolAssumption
      <4> QED  BY <1>3, <4>1, <4>2 DEF Execution
    <3> QED  BY <3>1, <3>2
  <2>2. executing' = {u \in Tasks : exec_mutex'[u] \in Workers}
    BY <1>2, <1>3, <1>4, <1>10, PoolAssumption DEF Execution
  <2> QED  BY <2>1, <2>2 DEF Execution
<1>14. FlagsAgree'
  BY <1>2, <1>3 DEF FlagsAgree, Delayed
<1>15. NoLostSchedule'
  <2>1. \A u : Pending(u) => Pending(u)'
    <3>1. \A u, v : worker[v] = With("popped", u) => worker[v].pc = "popped"
      BY DEF With
    <3> QED  BY <1>2, <1>8, <3>1 DEF Pending
  <2>2. \A v \in Workers : worker'[v].pc = "running" => worker'[v].task \in executing' \ deactivated'
    <3> SUFFICES ASSUME NEW v \in Workers, worker'[v].pc = "running"
                 PROVE  worker'[v].task \in executing' \ deactivated'
      OBVIOUS
    <3>1. v # w /\ worker'[v] = worker[v]
      BY <1>8
    <3>2. worker[v].task \in executing \ deactivated /\ worker[v].task \in Tasks
      BY <1>3, <3>1 DEF NoLostSchedule, Types
    <3>3. worker[v].task # t
      BY <1>3, <1>4, <1>11, <3>1, <3>2 DEF Execution
    <3> QED  BY <1>2, <3>1, <3>2, <3>3
  <2> QED  BY <1>2, <1>3, <1>7, <2>1, <2>2 DEF NoLostSchedule
<1> QED  BY <1>12, <1>13, <1>14, <1>15 DEF IInv
-----------------------------------------------------------------------------
(* The thread of delayed tasks, and time. *)

LEMMA DelayedThreadMoves ==
  ASSUME IInv, Placed(delayed_thread'),
         UNCHANGED <<deactivated, scheduled, executing, exec_mutex, tasks, delayed_tasks, due, worker>>
  PROVE  IInv'
<1>1. Types' /\ Execution'
  BY DEF IInv, Types, Execution, Unique, Placed
<1>2. FlagsAgree' /\ NoLostSchedule'
  BY DEF IInv, FlagsAgree, Delayed, NoLostSchedule, Pending
<1> QED  BY <1>1, <1>2 DEF IInv

LEMMA DelayLookIInv ==
  ASSUME IInv, DelayLook
  PROVE  IInv'
<1>1. UNCHANGED <<deactivated, scheduled, executing, exec_mutex, tasks, delayed_tasks, due, worker>>
  BY DEF DelayLook, flags, timing
<1>2. due \in Seq(Tasks) /\ delayed_tasks \subseteq Tasks /\ delayed_thread \in Position
  BY DEF IInv, Types
<1>3. \A p \in {"done", "asleep"} : Placed(At(p))
  BY PositionFacts DEF Placed
<1>4. \A p \in {"asleep_until", "found"}, t \in Tasks : Placed(With(p, t))
  BY PositionFacts DEF Placed
<1>5. CASE due # <<>> /\ delayed_thread' = With("found", Head(due))
  BY <1>1, <1>2, <1>4, <1>5, HeadAndTail, DelayedThreadMoves
<1>6. CASE \E t \in delayed_tasks : delayed_thread' = With("asleep_until", t)
  BY <1>1, <1>2, <1>4, <1>6, DelayedThreadMoves
<1>7. CASE delayed_thread.task # NoTask /\ delayed_thread' = With("found", delayed_thread.task)
  <2>1. delayed_thread.task \in Tasks
    BY <1>2, <1>7 DEF Position
  <2> QED  BY <1>1, <1>4, <1>7, <2>1, DelayedThreadMoves
<1>8. CASE \E p \in {"done", "asleep"} : delayed_thread' = At(p)
  BY <1>1, <1>3, <1>8, DelayedThreadMoves
<1> QED  BY <1>5, <1>6, <1>7, <1>8 DEF DelayLook

LEMMA DelayTimeOutIInv ==
  ASSUME IInv, DelayTimeOut
  PROVE  IInv'
<1>1. UNCHANGED <<deactivated, scheduled, executing, exec_mutex, tasks, delayed_tasks, due, worker>>
  BY DEF DelayTimeOut, flags, timing
<1>2. NotifyDelayed(delayed_thread)
  BY DEF DelayTimeOut, NotifyDelayed
<1>3. Placed(delayed_thread')
  BY <1>2, PlacedThread, NotifyDelayedFacts DEF IInv
<1> QED  BY <1>1, <1>3, DelayedThreadMoves

LEMMA DelayFoundIInv ==
  ASSUME IInv, DelayFound
  PROVE  IInv'
<1>1. PICK t \in Tasks : t = delayed_thread.task
  BY DEF DelayFound, IInv, Types
<1>2. Placed(At("look"))
  BY PositionFacts DEF Placed
<1>3. UNCHANGED <<deactivated, executing, exec_mutex>>
  BY DEF DelayFound
<1>4. Types /\ Execution /\ FlagsAgree /\ NoLostSchedule
  BY DEF IInv
<1>5. CASE t \in deactivated \cup scheduled
  <2>1. delayed_thread' = At("look") /\ UNCHANGED <<scheduled, tasks, delayed_tasks, due, worker>>
    BY <1>1, <1>5 DEF DelayFound, timing
  <2> QED  BY <1>2, <1>3, <2>1, DelayedThreadMoves
<1>6. CASE t \notin deactivated \cup scheduled
  <2>1. ScheduleImpl(t, At("look"))
    BY <1>1, <1>6 DEF DelayFound
  <2>2. /\ scheduled' = scheduled \cup {t} /\ Delayed' = Delayed \ {t}
        /\ delayed_tasks' \subseteq Tasks /\ due' \in Seq(Tasks) /\ Unique(due)'
        /\ (delayed_tasks \cap Range(due) = {})' /\ tasks' \in Seq(Tasks)
        /\ Range(tasks) \subseteq Range(tasks') /\ (t \in executing \/ t \in Range(tasks'))
        /\ Woken(worker) /\ Placed(delayed_thread')
    BY <1>2, <1>4, <2>1, ScheduleImplFacts
  <2>3. Types'
    BY <1>3, <1>4, <2>2, WokenFrame DEF Types, Placed
  <2>4. Execution'
    BY <1>3, <1>4, <2>2, WokenFrame
  <2>5. FlagsAgree'
    BY <1>3, <1>4, <1>6, <2>2 DEF FlagsAgree
  <2>6. NoLostSchedule'
    BY <1>3, <1>4, <2>2, WokenFrame DEF NoLostSchedule
  <2> QED  BY <2>3, <2>4, <2>5, <2>6 DEF IInv
<1> QED  BY <1>5, <1>6

(* The task is still delayed, and still only once. *)
LEMMA ExpireIInv ==
  ASSUME IInv, NEW t \in Tasks, Expire(t)
  PROVE  IInv'
<1>1. /\ t \in delayed_tasks /\ delayed_tasks' = delayed_tasks \ {t} /\ due' = Append(due, t)
      /\ UNCHANGED <<deactivated, scheduled, executing, exec_mutex, tasks, worker, delayed_thread>>
  BY DEF Expire, flags
<1>2. due \in Seq(Tasks) /\ Unique(due) /\ t \notin Range(due)
  BY <1>1 DEF IInv, Types
<1>3. due' \in Seq(Tasks) /\ Unique(due') /\ Range(due') = Range(due) \cup {t}
  BY <1>1, <1>2, SequenceFacts, UniqueAppend
<1>4. (delayed_tasks \cap Range(due) = {})' /\ Delayed' = Delayed
  BY <1>1, <1>3 DEF IInv, Types, Delayed
<1>5. Types' /\ Execution'
  BY <1>1, <1>3, <1>4 DEF IInv, Types, Execution, Unique
<1>6. FlagsAgree' /\ NoLostSchedule'
  BY <1>1, <1>4 DEF IInv, FlagsAgree, NoLostSchedule, Pending
<1> QED  BY <1>5, <1>6 DEF IInv

LEMMA ShutdownIInv ==
  ASSUME IInv, Shutdown
  PROVE  IInv'
<1>1. /\ worker' = [w \in Workers |-> IF worker[w].pc = "asleep" THEN At("wait") ELSE worker[w]]
      /\ NotifyDelayed(delayed_thread)
      /\ UNCHANGED <<deactivated, scheduled, executing, exec_mutex, tasks, delayed_tasks, due>>
  BY DEF Shutdown, flags, timing
<1>2. Types /\ Execution /\ FlagsAgree /\ NoLostSchedule
  BY DEF IInv
<1>3. At("wait") \in Position /\ At("wait").pc = "wait"
  BY PositionFacts
<1>4. worker \in [Workers -> Position]
  BY <1>2 DEF Types
<1>5. Woken(worker)
  BY <1>1, <1>3, <1>4 DEF Woken
<1>6. Placed(delayed_thread')
  BY <1>1, <1>2, PlacedThread, NotifyDelayedFacts
<1>7. Types'
  BY <1>1, <1>2, <1>5, <1>6, WokenFrame DEF Types, Placed, Unique
<1>8. Execution'
  BY <1>1, <1>2, <1>5, WokenFrame
<1>9. FlagsAgree'
  BY <1>1, <1>2 DEF FlagsAgree, Delayed
<1>10. NoLostSchedule'
  BY <1>1, <1>2, <1>5, WokenFrame DEF NoLostSchedule
<1> QED  BY <1>7, <1>8, <1>9, <1>10 DEF IInv

-----------------------------------------------------------------------------
LEMMA InitIInv == Init => IInv
<1> SUFFICES ASSUME Init PROVE IInv
  OBVIOUS
<1>1. Range(due) = {} /\ DOMAIN due = {} /\ Range(tasks) = {}
  BY EmptyRange DEF Init
<1>2. \A w \in Workers : worker[w] \in Position /\ worker[w].pc \in {"loop", "absent"}
  BY PositionFacts DEF Init
<1>3. delayed_thread \in Position /\ delayed_thread.pc = "look"
  BY PositionFacts DEF Init
<1>4. Types
  BY <1>1, <1>2, <1>3 DEF Init, Types, Unique
<1>5. Execution
  BY <1>2, PoolAssumption DEF Init, Execution
<1>6. FlagsAgree /\ NoLostSchedule
  BY <1>2 DEF Init, FlagsAgree, NoLostSchedule
<1> QED  BY <1>4, <1>5, <1>6 DEF IInv

LEMMA NextIInv ==
  ASSUME IInv, [Next]_vars
  PROVE  IInv'
<1>1. CASE \E t \in Tasks : Schedule(t)
  BY <1>1, ScheduleIInv
<1>2. CASE \E t \in Tasks, overwrite, only_if_scheduled \in BOOLEAN :
             ScheduleAfter(t, overwrite, only_if_scheduled)
  BY <1>2, ScheduleAfterIInv
<1>3. CASE \E t \in Tasks : Deactivate(t) \/ Activate(t) \/ ActivateAndSchedule(t)
  BY <1>3, DeactivateIInv, ActivateIInv, ActivateAndScheduleIInv
<1>4. CASE \E t \in Tasks : GetExecLock(t) \/ ReleaseExecLock(t)
  BY <1>4, ExecLockIInv
<1>5. CASE \E w \in Workers : WorkerLoop(w) \/ IncreaseThreadsCount(w)
  BY <1>5, LoopIInv
<1>6. CASE \E w \in Workers : WorkerWait(w) \/ ExecuteBegin(w) \/ ExecuteEnd(w)
  BY <1>6, WorkerWaitIInv, ExecuteBeginIInv, ExecuteEndIInv
<1>7. CASE DelayedStep
  BY <1>7, DelayLookIInv, DelayTimeOutIInv, DelayFoundIInv DEF DelayedStep
<1>8. CASE \E t \in Tasks : Expire(t)
  BY <1>8, ExpireIInv
<1>9. CASE Shutdown
  BY <1>9, ShutdownIInv
<1>10. CASE UNCHANGED vars
  BY <1>10, PlacedThread, DelayedThreadMoves DEF vars, IInv, Placed
<1> QED
  BY <1>1, <1>2, <1>3, <1>4, <1>5, <1>6, <1>7, <1>8, <1>9, <1>10 DEF Next, Call, WorkerStep

(* The flags, the queue and the holders of exec_mutex agree after any      *)
(* calls, executions and expired delays, and also while the pool ends.     *)
THEOREM PoolInvariant == Spec => []IInv
BY InitIInv, NextIInv, PTL DEF Spec

(* For any tasks and threads: the flags of a task, which the methods of    *)
(* BackgroundSchedulePoolTaskInfo read and write under schedule_mutex,     *)
(* agree with each other as the header says, a deactivated task is not     *)
(* executing in particular.                                                *)
THEOREM FlagsAlwaysAgree == Spec => []FlagsAgree
<1>1. IInv => FlagsAgree
  BY DEF IInv
<1> QED  BY <1>1, PoolInvariant, PTL

(* For any tasks and threads: a task whose flag scheduled is set is in the *)
(* queue, with a thread that will execute it, or enqueued when the         *)
(* execution that is going on ends.                                        *)
THEOREM SchedulesAreNotLost == Spec => []NoLostSchedule
<1>1. IInv => NoLostSchedule
  BY DEF IInv
<1> QED  BY <1>1, PoolInvariant, PTL
=============================================================================
