--------------------------- MODULE ThreadScheduler ---------------------------
(***************************************************************************)
(* CThreadScheduler (src/src/ThreadScheduler.cpp): the one background      *)
(* worker on which hashing, completion, allocation and AICH tasks run.     *)
(* Every method that touches the queue takes the global s_lock, so each is *)
(* one action; the worker's loop releases the lock while a task runs, so   *)
(* it is split there.                                                      *)
(*                                                                         *)
(* A task is a model value.  Its type and description matter only for      *)
(* duplicate detection: KeyOf gives the (type, description) pair, TypeOf   *)
(* the type of a pair.  The deque m_tasks is modelled by the set of queued *)
(* tasks together with their ages: std::sort orders it by (priority, age)  *)
(* whenever it was modified, so its front is the least task of that order. *)
(* The `overwrite' argument of AddTask is left out: every caller in the    *)
(* program passes the default, FALSE.                                      *)
(***************************************************************************)
EXTENDS Naturals, FiniteSets

CONSTANTS
  Tasks,          \* every CThreadTask object the program may create
  Keys,           \* (type, description) pairs
  Types,          \* task types: "Hashing", "AICH Synchronizing", ...
  KeyOf,          \* [Tasks -> Keys]
  TypeOf,         \* [Keys -> Types]
  Priority,       \* [Tasks -> Nat], ETaskPriority
  FollowUp,       \* [Types -> SUBSET Tasks], what OnLastTask of a type adds
  NoTask,         \* the null CThreadTask pointer
  MaxCreateErrors \* bound on failing wxThread::Create / Run calls

ASSUME SchedulerConstants ==
  /\ KeyOf \in [Tasks -> Keys]
  /\ TypeOf \in [Keys -> Types]
  /\ Priority \in [Tasks -> Nat]
  /\ FollowUp \in [Types -> SUBSET Tasks]
  /\ NoTask \notin Tasks
  /\ MaxCreateErrors \in Nat

VARIABLES
  s_running,      \* Start() was called
  s_terminated,   \* Terminate() was called
  s_scheduler,    \* the global instance: "null", "live", or "deleting"
                  \*   once Terminate() has unlinked it
  m_tasks,        \* queued tasks
  taskAge,        \* the static counter DoAddTask stamps tasks with
  age,            \* the stamp of each task, the second half of CEntryPair
  m_tasksDirty,   \* the queue was modified since the last sort
  m_taskDescs,    \* keys of the tasks queued or running
  m_currentTask,  \* the task being executed, or NoTask
  m_stop,         \* CMuleThread::m_stop of the worker thread
  pc,             \* where the worker thread is in Entry()
  held,           \* the task the worker's CScopedPtr owns
  fresh,          \* tasks not created yet
  finished,       \* history: tasks whose Entry() was executed
  createErrors    \* failing thread creations so far

threadVars == <<m_stop, pc, createErrors>>
queueVars  == <<m_tasks, taskAge, age, m_tasksDirty, m_taskDescs>>
vars == <<s_running, s_terminated, s_scheduler, queueVars, m_currentTask,
          threadVars, held, fresh, finished>>

\* "none": no thread object; "top" .. "last": inside the loop of Entry();
\* "leaving": Entry() left its loop but the thread still IsAlive();
\* "exited": the thread object exists and IsAlive() is false.
WorkerPCs == {"none", "top", "pick", "run", "finish", "last",
              "leaving", "exited"}

IsAlive == pc \notin {"none", "exited"}

\* CTaskSorter: does task a go before task b?
Before(a, b) ==
  \/ Priority[a] > Priority[b]
  \/ Priority[a] = Priority[b] /\ age[a] < age[b]

IsFront(t) == \A u \in m_tasks \ {t} : Before(t, u)

\* The tasks of a type on the queue; as GetPendingCount, a mutant that does
\* not count the running task.
QueuedCount(ty) == Cardinality({t \in m_tasks : TypeOf[KeyOf[t]] = ty})

\* GetPendingCount(type): queued tasks of the type plus the running one.
GetPendingCount(ty) ==
  IF s_scheduler # "live"
    THEN 0
    ELSE QueuedCount(ty)
         + (IF m_currentTask # NoTask
              THEN IF TypeOf[KeyOf[m_currentTask]] = ty THEN 1 ELSE 0
              ELSE 0)

------------------------------------------------------------------------------
Init ==
  /\ s_running = FALSE
  /\ s_terminated = FALSE
  /\ s_scheduler = "null"
  /\ m_tasks = {}
  /\ taskAge = 0
  /\ age = [t \in Tasks |-> 0]
  /\ m_tasksDirty = FALSE
  /\ m_taskDescs = {}
  /\ m_currentTask = NoTask
  /\ m_stop = FALSE
  /\ pc = "none"
  /\ held = NoTask
  /\ fresh = Tasks
  /\ finished = {}
  /\ createErrors = 0

(***************************************************************************)
(* CreateSchedulerThread, called with s_lock held: nothing happens while a *)
(* thread is alive or when no task waits; otherwise the old thread, which  *)
(* has exited, is disposed of and a new one is created, which can fail.    *)
(***************************************************************************)
CreateSchedulerThread(queued) ==
  IF IsAlive \/ queued = {}
    THEN UNCHANGED threadVars
    ELSE /\ m_stop' = FALSE
         /\ \/ pc' = "top" /\ UNCHANGED createErrors
            \/ /\ createErrors < MaxCreateErrors
               /\ createErrors' = createErrors + 1
               /\ pc' = "none"

(***************************************************************************)
(* AddTask and DoAddTask up to the creation of the thread, on whichever    *)
(* thread calls them.  A task is deleted when the scheduler was terminated *)
(* or when a task with its key is queued or running.                       *)
(***************************************************************************)
\* Mutant: no look for a duplicate.
AcceptAny(t) == ~s_terminated

Accepted(t) == ~s_terminated /\ KeyOf[t] \notin m_taskDescs

\* CEntryPair(task, taskAge++)
Stamp(t) ==
  /\ age' = [age EXCEPT ![t] = taskAge]
  /\ taskAge' = taskAge + 1

DoAddTask(t) ==
  /\ t \in fresh
  /\ fresh' = fresh \ {t}
  /\ s_scheduler' = IF s_terminated THEN s_scheduler ELSE "live"
  /\ IF Accepted(t)
       THEN /\ m_taskDescs' = m_taskDescs \cup {KeyOf[t]}
            /\ m_tasks' = m_tasks \cup {t}
            /\ Stamp(t)
            /\ m_tasksDirty' = TRUE
       ELSE UNCHANGED queueVars

\* AddTask called by the main thread or an event handler.
CallerAddsTask(t) ==
  /\ DoAddTask(t)
  /\ IF Accepted(t) /\ s_running
       THEN CreateSchedulerThread(m_tasks \cup {t})
       ELSE UNCHANGED threadVars
  /\ UNCHANGED <<s_running, s_terminated, m_currentTask, held, finished>>

\* Start(), called once by CamuleApp::OnInit after the core is built.
Start ==
  /\ ~s_running /\ ~s_terminated
  /\ s_running' = TRUE
  /\ s_terminated' = FALSE
  /\ IF s_scheduler = "live"
       THEN CreateSchedulerThread(m_tasks)
       ELSE UNCHANGED threadVars
  /\ UNCHANGED <<s_scheduler, queueVars, m_currentTask, held, fresh, finished>>

\* Mutant: Terminate() leaves AddTask open.
MarkStopped == s_running' = FALSE /\ UNCHANGED s_terminated

MarkTerminated == s_running' = FALSE /\ s_terminated' = TRUE

\* Terminate(), called once by CamuleApp::ShutDown: unlink under the lock ...
TerminateUnlink ==
  /\ s_running
  /\ MarkTerminated
  /\ s_scheduler' = IF s_scheduler = "live" THEN "deleting" ELSE "null"
  /\ UNCHANGED <<queueVars, m_currentTask, threadVars, held, fresh, finished>>

\* ... then ~CThreadScheduler, outside the lock, stops the thread ...
TerminateStop ==
  /\ s_scheduler = "deleting"
  /\ ~m_stop /\ pc # "none"
  /\ m_stop' = TRUE
  /\ UNCHANGED <<s_running, s_terminated, s_scheduler, queueVars,
                 m_currentTask, pc, createErrors, held, fresh, finished>>

\* Mutant: Stop() does not wait.
StopRequested == pc = "none" \/ m_stop

\* Stop() on a joinable thread: Wait() returns when the thread has exited.
ThreadJoined == pc = "none" \/ (m_stop /\ pc = "exited")

\* ... and returns once the thread was joined; queued tasks are abandoned.
TerminateJoin ==
  /\ s_scheduler = "deleting"
  /\ ThreadJoined
  /\ s_scheduler' = "null"
  /\ pc' = "none"
  /\ m_tasks' = {}
  /\ m_taskDescs' = {}
  /\ m_tasksDirty' = FALSE
  /\ UNCHANGED <<s_running, s_terminated, taskAge, age, m_currentTask,
                 m_stop, createErrors, held, fresh, finished>>

------------------------------------------------------------------------------
(***************************************************************************)
(* The worker, CThreadScheduler::Entry.                                    *)
(***************************************************************************)
WorkerUnchanged == UNCHANGED <<s_running, s_terminated, m_stop, createErrors>>

\* while (!m_thread->TestDestroy())
WorkerTestDestroy ==
  /\ pc = "top"
  /\ pc' = IF m_stop THEN "leaving" ELSE "pick"
  /\ WorkerUnchanged
  /\ UNCHANGED <<s_scheduler, queueVars, m_currentTask, held, fresh, finished>>

\* Mutant: "not modified" taken for "empty".
NotModified == ~m_tasksDirty

NoMoreTasks == ~m_tasksDirty /\ m_tasks = {}

\* Under the lock: an empty queue that is not dirty ends the loop.
WorkerNoMoreTasks ==
  /\ pc = "pick"
  /\ NoMoreTasks
  /\ pc' = "leaving"
  /\ WorkerUnchanged
  /\ UNCHANGED <<s_scheduler, queueVars, m_currentTask, held, fresh, finished>>

\* Mutant: the flag survives the sort.
SortOnly == UNCHANGED m_tasksDirty

\* std::sort when dirty; IsFront says what the sorted deque starts with.
Resort == m_tasksDirty' = FALSE

\* Under the lock: sort if dirty, take the front of the queue.
WorkerPick ==
  /\ pc = "pick"
  /\ m_tasksDirty \/ m_tasks # {}
  /\ \E t \in m_tasks :
       /\ IsFront(t)
       /\ held' = t
       /\ m_currentTask' = t
       /\ m_tasks' = m_tasks \ {t}
  /\ Resort
  /\ pc' = "run"
  /\ WorkerUnchanged
  /\ UNCHANGED <<s_scheduler, taskAge, age, m_taskDescs, fresh, finished>>

\* task->Entry(); task->OnExit(), without the lock.
WorkerRun ==
  /\ pc = "run"
  /\ finished' = finished \cup {held}
  /\ pc' = "finish"
  /\ WorkerUnchanged
  /\ UNCHANGED <<s_scheduler, queueVars, m_currentTask, held, fresh>>

\* Under the lock: forget the task's key; was it the last of its type?  The
\* task is deleted where the iteration ends.
WorkerFinish ==
  /\ pc = "finish"
  /\ m_taskDescs' = m_taskDescs \ {KeyOf[held]}
  /\ m_currentTask' = NoTask
  /\ IF \E k \in m_taskDescs' : TypeOf[k] = TypeOf[KeyOf[held]]
       THEN pc' = "top" /\ held' = NoTask
       ELSE pc' = "last" /\ UNCHANGED held
  /\ WorkerUnchanged
  /\ UNCHANGED <<s_scheduler, m_tasks, taskAge, age, m_tasksDirty, fresh,
                 finished>>

\* task->OnLastTask(), which for "Hashing" adds a CAICHSyncTask.  The
\* worker itself is alive, so AddTask creates no thread.
WorkerOnLastTask ==
  /\ pc = "last"
  /\ LET adds == FollowUp[TypeOf[KeyOf[held]]] \cap fresh IN
       \/ adds = {} /\ UNCHANGED <<s_scheduler, queueVars, fresh>>
       \/ \E t \in adds : DoAddTask(t)
  /\ pc' = "top"
  /\ held' = NoTask
  /\ WorkerUnchanged
  /\ UNCHANGED <<m_currentTask, finished>>

\* Entry() returns and wxThread marks the thread as exited.
WorkerExit ==
  /\ pc = "leaving"
  /\ pc' = "exited"
  /\ WorkerUnchanged
  /\ UNCHANGED <<s_scheduler, queueVars, m_currentTask, held, fresh, finished>>

Worker ==
  \/ WorkerTestDestroy \/ WorkerNoMoreTasks \/ WorkerPick \/ WorkerRun
  \/ WorkerFinish \/ WorkerOnLastTask \/ WorkerExit

Terminating == TerminateStop \/ TerminateJoin

Next ==
  \/ \E t \in Tasks : CallerAddsTask(t)
  \/ Start
  \/ TerminateUnlink
  \/ Terminating
  \/ Worker

Spec == Init /\ [][Next]_vars

(***************************************************************************)
(* The worker is a running thread that blocks only inside a task, and      *)
(* ~CThreadScheduler runs to its end once entered.  Nothing makes a caller *)
(* add a task or Start() or Terminate() happen.                            *)
(***************************************************************************)
FairSpec == Spec /\ WF_vars(Worker) /\ WF_vars(Terminating)

------------------------------------------------------------------------------
TypeOK ==
  /\ s_running \in BOOLEAN
  /\ s_terminated \in BOOLEAN
  /\ s_scheduler \in {"null", "live", "deleting"}
  /\ m_tasks \in SUBSET Tasks
  /\ taskAge \in Nat
  /\ age \in [Tasks -> Nat]
  /\ m_tasksDirty \in BOOLEAN
  /\ m_taskDescs \in SUBSET Keys
  /\ m_currentTask \in Tasks \cup {NoTask}
  /\ m_stop \in BOOLEAN
  /\ pc \in WorkerPCs
  /\ held \in Tasks \cup {NoTask}
  /\ fresh \in SUBSET Tasks
  /\ finished \in SUBSET Tasks
  /\ createErrors \in 0..MaxCreateErrors

Current == {m_currentTask} \ {NoTask}

(***************************************************************************)
(* m_taskDescs is exactly what its comment says it is for: it holds the    *)
(* key of every task that waits or runs and of no other, so no two tasks   *)
(* with one key (two hashings of one file, two completions) are ever in    *)
(* the scheduler together, and a key whose task is gone is never refused.  *)
(***************************************************************************)
DescsTrackTasks ==
  /\ m_taskDescs = {KeyOf[t] : t \in m_tasks \cup Current}
  /\ \A t, u \in m_tasks \cup Current : KeyOf[t] = KeyOf[u] => t = u
  /\ Current \cap m_tasks = {}

\* The worker takes m_tasks.front() whenever the dirty flag is set, without
\* looking whether the deque is empty: the flag must imply that it is not.
DirtyImpliesNonEmpty == m_tasksDirty => m_tasks # {}

\* Once Terminate() has returned no task runs and no thread exists, although
\* ~CThreadScheduler works outside s_lock while the worker still runs.
NothingRunsAfterTerminate ==
  s_terminated /\ s_scheduler = "null"
    => pc = "none" /\ m_currentTask = NoTask /\ held = NoTask

\* GetPendingCount(type) counts every task of the type that was accepted and
\* is not done: "otherwise a batch reads as finished while its last task is
\* still executing" (GetPendingCount's comment).
PendingCountIsExact ==
  s_scheduler = "live" =>
    \A ty \in Types :
      GetPendingCount(ty) = Cardinality({k \in m_taskDescs : TypeOf[k] = ty})

\* What the worker's scoped pointer and m_currentTask refer to, by position
\* in the loop; tasks not created yet are in neither.
WorkerHolds ==
  /\ pc \in {"run", "finish"} => held = m_currentTask
  /\ pc \in {"run", "finish", "last"} => held # NoTask
  /\ pc \notin {"run", "finish"} => m_currentTask = NoTask
  /\ pc \notin {"run", "finish", "last"} => held = NoTask
  /\ fresh \cap (m_tasks \cup Current) = {}

\* The life of the global instance: it appears with the first task, and is
\* unlinked only by Terminate().
SchedulerLifecycle ==
  /\ s_scheduler = "null" => m_tasks = {} /\ pc = "none" /\ ~m_tasksDirty
  /\ s_scheduler = "deleting" => s_terminated
  /\ s_terminated => s_scheduler # "live" /\ ~s_running

\* The inductive invariant of the scheduler.
SchedulerInv ==
  /\ TypeOK
  /\ WorkerHolds
  /\ SchedulerLifecycle
  /\ DescsTrackTasks
  /\ DirtyImpliesNonEmpty
  /\ NothingRunsAfterTerminate

\* A task that waits while the worker is in its loop is run, unless the
\* scheduler is terminated first.
TaskSeenByWorkerRuns ==
  \A t \in Tasks :
    (t \in m_tasks /\ pc \in {"top", "run", "finish", "last"})
      ~> (t \in finished \/ s_terminated)

\* Terminate() returns: the worker sees m_stop after the task it is running,
\* and neither OnLastTask nor the callers can keep it in its loop.
TerminateReturns == (s_scheduler = "deleting") ~> (s_scheduler = "null")

\* Every task accepted by a started scheduler is run unless the scheduler is
\* terminated: tasks are "transparently executed on a worker thread".
AcceptedTaskRuns ==
  \A t \in Tasks :
    (s_running /\ t \in m_tasks) ~> (t \in finished \/ s_terminated)
==============================================================================
