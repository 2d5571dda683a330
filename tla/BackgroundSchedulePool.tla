----------------------- MODULE BackgroundSchedulePool -----------------------
(***************************************************************************)
(* Core/BackgroundSchedulePool: tasks that run on a pool of threads, at    *)
(* once or after a delay, one execution of a task at a time.  One action   *)
(* is one critical section under schedule_mutex, tasks_mutex or            *)
(* delayed_tasks_mutex; a condition variable is the set of its sleepers.   *)
(*                                                                         *)
(* The clock is abstract: delayed_tasks holds the tasks whose time has not *)
(* come, due the ones whose time has come, in the order of their times.    *)
(* Together they are the multimap of the code, and a task is in one of     *)
(* them exactly while its flag delayed is set.                             *)
(***************************************************************************)
EXTENDS SequencesExt

CONSTANTS Tasks,      \* BackgroundSchedulePoolTaskInfo
          Workers,    \* threads the pool may have
          Started,    \* threads it is created with
          NoTask,     \* the null TaskInfoPtr
          Caller,     \* the one caller of getExecLock(), of one task at a time
          MaxQueue    \* bound: no call is made while the queue is that long

ASSUME PoolAssumption ==
  /\ IsFiniteSet(Tasks) /\ IsFiniteSet(Workers)
  /\ Started \subseteq Workers /\ Started # {}
  /\ NoTask \notin Tasks /\ Caller \notin Workers /\ NoTask \notin Workers

VARIABLES
  deactivated, scheduled, executing,   \* sets of tasks: the flags of the same name
  exec_mutex,      \* exec_mutex[t]: who has it, or NoTask
  tasks,           \* the queue of tasks
  delayed_tasks,   \* tasks whose time has not come
  due,             \* tasks whose time has come, the earliest first
  worker,          \* worker[w]: where threadFunction() is, and its task
  delayed_thread,  \* where delayExecutionThreadFunction() is, and its task
  shutdown

vars == <<deactivated, scheduled, executing, exec_mutex, tasks, delayed_tasks, due,
          worker, delayed_thread, shutdown>>

flags == <<deactivated, scheduled, executing>>
timing == <<delayed_tasks, due>>

Delayed == delayed_tasks \cup Range(due)

At(where) == [pc |-> where, task |-> NoTask]
With(where, t) == [pc |-> where, task |-> t]

Init ==
  /\ deactivated = {} /\ scheduled = {} /\ executing = {}
  /\ exec_mutex = [t \in Tasks |-> NoTask]
  /\ tasks = <<>> /\ delayed_tasks = {} /\ due = <<>>
  /\ worker = [w \in Workers |-> At(IF w \in Started THEN "loop" ELSE "absent")]
  /\ delayed_thread = At("look")
  /\ shutdown = FALSE

-----------------------------------------------------------------------------
(* notify_one() of tasks_cond_var, after the other changes of the step. *)
NotifyOne(ws) ==
  LET asleep == {w \in Workers : ws[w].pc = "asleep"}
  IN  IF asleep = {} THEN worker' = ws
      ELSE \E w \in asleep : worker' = [ws EXCEPT ![w] = At("wait")]

(* notify_all() of delayed_tasks_cond_var: the thread looks again, and has *)
(* not forgotten the task it was waiting for.                              *)
NotifyDelayed(dt) ==
  delayed_thread' = IF dt.pc \in {"asleep", "asleep_until"} THEN With("look", dt.task) ELSE dt

(* Mutant: nobody is notified. *)
ScheduleTaskQuietly(t, ws) ==
  /\ tasks' = Append(tasks, t)
  /\ worker' = ws

(* BackgroundSchedulePool::scheduleTask. *)
ScheduleTask(t, ws) ==
  /\ tasks' = Append(tasks, t)
  /\ NotifyOne(ws)

(* delayed_tasks.erase(task->iterator). *)
Erased(s, t) ==
  IF t \in Range(s) THEN RemoveAt(s, CHOOSE i \in DOMAIN s : s[i] = t) ELSE s

NotDelayed(t) ==
  /\ delayed_tasks' = delayed_tasks \ {t}
  /\ due' = Erased(due, t)

(* cancelDelayedTask(), if the task is delayed. *)
CancelDelayedTask(t, dt) ==
  /\ NotDelayed(t)
  /\ IF t \in Delayed THEN NotifyDelayed(dt) ELSE delayed_thread' = dt

(* An executing task is enqueued at the end of its execution. *)
ScheduleImpl(t, dt) ==
  /\ scheduled' = scheduled \cup {t}
  /\ CancelDelayedTask(t, dt)
  /\ IF t \in executing THEN UNCHANGED <<tasks, worker>> ELSE ScheduleTask(t, worker)

(* Callers call while the pool exists, and while the queue is short. *)
MayCall == ~shutdown /\ Len(tasks) < MaxQueue

(* schedule(), from a caller, a watch callback or the task's own function. *)
Schedule(t) ==
  /\ MayCall \/ t \in executing
  /\ t \notin deactivated /\ t \notin scheduled
  /\ ScheduleImpl(t, delayed_thread)
  /\ UNCHANGED <<deactivated, executing, exec_mutex, shutdown>>

(* scheduleAfter(): overwrite and only_if_scheduled decide whether a task  *)
(* may be or must be delayed already.                                      *)
ScheduleAfter(t, overwrite, only_if_scheduled) ==
  /\ MayCall \/ t \in executing
  /\ t \notin deactivated /\ t \notin scheduled
  /\ t \in Delayed => overwrite
  /\ t \notin Delayed => ~only_if_scheduled
  /\ delayed_tasks' = delayed_tasks \cup {t}
  /\ due' = Erased(due, t)
  /\ NotifyDelayed(delayed_thread)
  /\ UNCHANGED <<flags, exec_mutex, tasks, worker, shutdown>>

(* Mutant: deactivate() does not wait for the execution. *)
DeactivateAtOnce(t) ==
  /\ MayCall
  /\ t \notin deactivated
  /\ deactivated' = deactivated \cup {t}
  /\ scheduled' = scheduled \ {t}
  /\ CancelDelayedTask(t, delayed_thread)
  /\ UNCHANGED <<executing, exec_mutex, tasks, worker, shutdown>>

(* deactivate() has got both mutexes.  The queue keeps its entries. *)
Deactivate(t) ==
  /\ MayCall
  /\ exec_mutex[t] = NoTask
  /\ t \notin deactivated
  /\ deactivated' = deactivated \cup {t}
  /\ scheduled' = scheduled \ {t}
  /\ CancelDelayedTask(t, delayed_thread)
  /\ UNCHANGED <<executing, exec_mutex, tasks, worker, shutdown>>

Activate(t) ==
  /\ MayCall
  /\ t \in deactivated
  /\ deactivated' = deactivated \ {t}
  /\ UNCHANGED <<scheduled, executing, exec_mutex, tasks, timing, worker, delayed_thread, shutdown>>

ActivateAndSchedule(t) ==
  /\ MayCall
  /\ deactivated' = deactivated \ {t}
  /\ t \notin scheduled
  /\ ScheduleImpl(t, delayed_thread)
  /\ UNCHANGED <<executing, exec_mutex, shutdown>>

GetExecLock(t) ==
  /\ MayCall
  /\ exec_mutex[t] = NoTask
  /\ \A u \in Tasks : exec_mutex[u] # Caller
  /\ exec_mutex' = [exec_mutex EXCEPT ![t] = Caller]
  /\ UNCHANGED <<flags, tasks, timing, worker, delayed_thread, shutdown>>

ReleaseExecLock(t) ==
  /\ exec_mutex[t] = Caller
  /\ exec_mutex' = [exec_mutex EXCEPT ![t] = NoTask]
  /\ UNCHANGED <<flags, tasks, timing, worker, delayed_thread, shutdown>>

-----------------------------------------------------------------------------
(* threadFunction() and execute(). *)

SetWorker(w, value) == worker' = [worker EXCEPT ![w] = value]

IncreaseThreadsCount(w) ==
  /\ MayCall
  /\ worker[w].pc = "absent"
  /\ SetWorker(w, At("loop"))
  /\ UNCHANGED <<flags, exec_mutex, tasks, timing, delayed_thread, shutdown>>

(* while (!shutdown) *)
WorkerLoop(w) ==
  /\ worker[w].pc = "loop"
  /\ SetWorker(w, At(IF shutdown THEN "done" ELSE "wait"))
  /\ UNCHANGED <<flags, exec_mutex, tasks, timing, delayed_thread, shutdown>>

(* The predicate of the wait, and the first task taken off the queue. *)
WorkerWait(w) ==
  /\ worker[w].pc = "wait"
  /\ IF tasks # <<>>
       THEN tasks' = Tail(tasks) /\ SetWorker(w, With("popped", Head(tasks)))
       ELSE tasks' = tasks /\ SetWorker(w, At(IF shutdown THEN "loop" ELSE "asleep"))
  /\ UNCHANGED <<flags, exec_mutex, timing, delayed_thread, shutdown>>

(* execute() takes exec_mutex; a deactivated task is left alone. *)
ExecuteBegin(w) ==
  LET t == worker[w].task IN
  /\ worker[w].pc = "popped"
  /\ exec_mutex[t] = NoTask
  /\ \/ /\ t \in deactivated
        /\ SetWorker(w, At("loop"))
        /\ UNCHANGED <<scheduled, executing, exec_mutex>>
     \/ /\ t \notin deactivated
        /\ scheduled' = scheduled \ {t}
        /\ executing' = executing \cup {t}
        /\ exec_mutex' = [exec_mutex EXCEPT ![t] = w]
        /\ SetWorker(w, With("running", t))
  /\ UNCHANGED <<deactivated, tasks, timing, delayed_thread, shutdown>>

(* Mutant: the task that was scheduled meanwhile is not enqueued. *)
ExecuteEndForgets(w) ==
  LET t == worker[w].task IN
  /\ worker[w].pc = "running"
  /\ executing' = executing \ {t}
  /\ exec_mutex' = [exec_mutex EXCEPT ![t] = NoTask]
  /\ SetWorker(w, At("loop"))
  /\ UNCHANGED <<tasks, deactivated, scheduled, timing, delayed_thread, shutdown>>

(* The function has returned. *)
ExecuteEnd(w) ==
  LET t == worker[w].task
      ws == [worker EXCEPT ![w] = At("loop")]
  IN
  /\ worker[w].pc = "running"
  /\ executing' = executing \ {t}
  /\ exec_mutex' = [exec_mutex EXCEPT ![t] = NoTask]
  /\ IF t \in scheduled THEN ScheduleTask(t, ws) ELSE worker' = ws /\ UNCHANGED tasks
  /\ UNCHANGED <<deactivated, scheduled, timing, delayed_thread, shutdown>>

-----------------------------------------------------------------------------
(* delayExecutionThreadFunction(). *)

(* One turn of the inner loop, under delayed_tasks_mutex.  The local task  *)
(* keeps its value between turns: when the map has become empty, min_time  *)
(* is the current time and the task of the turn before counts as ready.    *)
DelayLook ==
  /\ delayed_thread.pc = "look"
  /\ \/ shutdown /\ delayed_thread' = At("done")
     \/ /\ ~shutdown /\ due # <<>>
        /\ delayed_thread' = With("found", Head(due))
     \/ /\ ~shutdown /\ due = <<>> /\ delayed_tasks # {}
        /\ \E t \in delayed_tasks : delayed_thread' = With("asleep_until", t)
     \/ /\ ~shutdown /\ Delayed = {}
        /\ delayed_thread' = IF delayed_thread.task = NoTask THEN At("asleep")
                             ELSE With("found", delayed_thread.task)
  /\ UNCHANGED <<flags, exec_mutex, tasks, timing, worker, shutdown>>

(* wait_for() returns, on time or not. *)
DelayTimeOut ==
  /\ delayed_thread.pc = "asleep_until"
  /\ delayed_thread' = With("look", delayed_thread.task)
  /\ UNCHANGED <<flags, exec_mutex, tasks, timing, worker, shutdown>>

(* task->schedule(), with no mutex of the pool held. *)
DelayFound ==
  LET t == delayed_thread.task IN
  /\ delayed_thread.pc = "found"
  /\ \/ /\ t \in deactivated \cup scheduled
        /\ delayed_thread' = At("look")
        /\ UNCHANGED <<scheduled, tasks, timing, worker>>
     \/ /\ t \notin deactivated \cup scheduled
        /\ ScheduleImpl(t, At("look"))
  /\ UNCHANGED <<deactivated, executing, exec_mutex, shutdown>>

(* The clock reaches the time of a delayed task. *)
Expire(t) ==
  /\ t \in delayed_tasks
  /\ delayed_tasks' = delayed_tasks \ {t}
  /\ due' = Append(due, t)
  /\ UNCHANGED <<flags, exec_mutex, tasks, worker, delayed_thread, shutdown>>

(* Mutant: the delayed thread is not notified. *)
ShutdownQuietly ==
  /\ ~shutdown
  /\ shutdown' = TRUE
  /\ worker' = [w \in Workers |-> IF worker[w].pc = "asleep" THEN At("wait") ELSE worker[w]]
  /\ UNCHANGED <<flags, exec_mutex, tasks, timing, delayed_thread>>

(* ~BackgroundSchedulePool(), up to the joins. *)
Shutdown ==
  /\ ~shutdown
  /\ shutdown' = TRUE
  /\ worker' = [w \in Workers |-> IF worker[w].pc = "asleep" THEN At("wait") ELSE worker[w]]
  /\ NotifyDelayed(delayed_thread)
  /\ UNCHANGED <<flags, exec_mutex, tasks, timing>>

Call ==
  \E t \in Tasks :
    \/ Schedule(t)
    \/ \E overwrite, only_if_scheduled \in BOOLEAN : ScheduleAfter(t, overwrite, only_if_scheduled)
    \/ Deactivate(t) \/ Activate(t) \/ ActivateAndSchedule(t) \/ GetExecLock(t)

WorkerStep(w) == WorkerLoop(w) \/ WorkerWait(w) \/ ExecuteEnd(w)
DelayedStep == DelayLook \/ DelayTimeOut \/ DelayFound

Next ==
  \/ Call \/ Shutdown
  \/ \E w \in Workers : WorkerStep(w) \/ ExecuteBegin(w) \/ IncreaseThreadsCount(w)
  \/ DelayedStep
  \/ \E t \in Tasks : Expire(t) \/ ReleaseExecLock(t)

Spec == Init /\ [][Next]_vars

(* Threads run, a task's function returns, getExecLock() is "not held for  *)
(* a long time", time passes; a thread that waits for exec_mutex gets it   *)
(* if it is free again and again.                                          *)
FairSpec ==
  /\ Spec
  /\ \A w \in Workers : WF_vars(WorkerStep(w)) /\ SF_vars(ExecuteBegin(w))
  /\ WF_vars(DelayedStep)
  /\ \A t \in Tasks : WF_vars(Expire(t)) /\ WF_vars(ReleaseExecLock(t))

-----------------------------------------------------------------------------
Pending(t) == \E w \in Workers : worker[w] = With("popped", t)

(* BackgroundSchedulePool.h, "Invariants": a deactivated task is neither   *)
(* scheduled, delayed nor executing, and no task is both scheduled and     *)
(* delayed.                                                                *)
FlagsAgree ==
  /\ deactivated \cap (scheduled \cup Delayed \cup executing) = {}
  /\ scheduled \cap Delayed = {}

(* schedule(): a scheduled task is in the queue, on its way to exec_mutex  *)
(* or executing (and enqueued when that ends), whatever schedules,         *)
(* deactivations and activations have come before; a deactivated task      *)
(* does not run.                                                           *)
NoLostSchedule ==
  /\ \A t \in scheduled : t \in Range(tasks) \/ Pending(t) \/ t \in executing
  /\ \A w \in Workers : worker[w].pc = "running" => worker[w].task \in executing \ deactivated

(* A task that is scheduled, or whose time has come, runs (or is           *)
(* deactivated or delayed again), unless the pool is shut down.            *)
EveryRequestRuns ==
  \A t \in Tasks :
    t \in scheduled \cup Range(due) ~> t \notin scheduled \cup Range(due) \/ shutdown

(* ~BackgroundSchedulePool() joins every thread: all of them end.          *)
ShutdownEnds ==
  shutdown ~> /\ delayed_thread.pc = "done"
              /\ \A w \in Workers : worker[w].pc \in {"absent", "done"}
=============================================================================
