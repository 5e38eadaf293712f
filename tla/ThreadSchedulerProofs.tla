------------------------ MODULE ThreadSchedulerProofs ------------------------
(***************************************************************************)
(* SchedulerInv is an inductive invariant of CThreadScheduler, for every   *)
(* set of tasks, keys and types.                                           *)
(***************************************************************************)
EXTENDS ThreadScheduler, FiniteSetTheorems, FunctionTheorems, TLAPS

\* SchedulerInv holds of the program's initial state.
LEMMA InitInv == Init => SchedulerInv
  <1> SUFFICES ASSUME Init PROVE SchedulerInv OBVIOUS
  <1> USE DEF Init
  <1>1. Current = {} /\ m_tasks = {} BY DEF Current
  <1>2. TypeOK
    <2>1. createErrors \in 0..MaxCreateErrors BY SchedulerConstants
    <2> QED BY <2>1 DEF TypeOK, WorkerPCs
  <1>3. DescsTrackTasks
    BY <1>1 DEF DescsTrackTasks
  <1> QED
    BY <1>1, <1>2, <1>3
    DEF SchedulerInv, WorkerHolds, SchedulerLifecycle, DirtyImpliesNonEmpty,
        NothingRunsAfterTerminate

\* What CreateSchedulerThread may do to the thread.
LEMMA CreateThread ==
  ASSUME TypeOK, NEW q, CreateSchedulerThread(q)
  PROVE  /\ m_stop' \in BOOLEAN
         /\ createErrors' \in 0..MaxCreateErrors
         /\ pc' = pc \/ (~IsAlive /\ pc' \in {"top", "none"})
  <1>1. MaxCreateErrors \in Nat BY SchedulerConstants
  <1>2. CASE UNCHANGED threadVars
    BY <1>2 DEF TypeOK, threadVars
  <1>3. CASE /\ ~IsAlive
             /\ m_stop' = FALSE
             /\ \/ pc' = "top" /\ UNCHANGED createErrors
                \/ /\ createErrors < MaxCreateErrors
                   /\ createErrors' = createErrors + 1
                   /\ pc' = "none"
    <2>1. createErrors' \in 0..MaxCreateErrors
      BY <1>1, <1>3 DEF TypeOK
    <2> QED BY <1>3, <2>1
  <1> QED BY <1>2, <1>3 DEF CreateSchedulerThread

\* AddTask keeps the queue consistent, whoever calls it.
LEMMA AddKeepsQueue ==
  ASSUME SchedulerInv, NEW t \in Tasks, DoAddTask(t),
         UNCHANGED m_currentTask
  PROVE  /\ s_scheduler' \in {"null", "live", "deleting"}
         /\ m_tasks' \in SUBSET Tasks
         /\ taskAge' \in Nat
         /\ age' \in [Tasks -> Nat]
         /\ m_tasksDirty' \in BOOLEAN
         /\ m_taskDescs' \in SUBSET Keys
         /\ fresh' \in SUBSET Tasks
         /\ fresh' \cap (m_tasks' \cup Current') = {}
         /\ DescsTrackTasks'
         /\ DirtyImpliesNonEmpty'
  <1> USE SchedulerConstants
      DEF SchedulerInv, TypeOK, DoAddTask, queueVars
  <1>1. CASE ~Accepted(t)
    BY <1>1 DEF WorkerHolds, DescsTrackTasks, DirtyImpliesNonEmpty, Current
  <1>2. CASE Accepted(t)
    <2>1. /\ KeyOf[t] \notin m_taskDescs
          /\ m_tasks' = m_tasks \cup {t}
          /\ m_taskDescs' = m_taskDescs \cup {KeyOf[t]}
          /\ m_tasksDirty' = TRUE
          /\ Current' = Current
          /\ t \notin m_tasks \cup Current
          /\ Current \subseteq Tasks
      BY <1>2 DEF Accepted, WorkerHolds, Current
    <2>2. DescsTrackTasks'
      <3>1. m_taskDescs' = {KeyOf[u] : u \in m_tasks' \cup Current'}
        BY <2>1 DEF DescsTrackTasks
      <3>2. \A u, v \in m_tasks' \cup Current' : KeyOf[u] = KeyOf[v] => u = v
        BY <2>1 DEF DescsTrackTasks
      <3>3. Current' \cap m_tasks' = {}
        BY <2>1 DEF DescsTrackTasks
      <3> QED BY <3>1, <3>2, <3>3 DEF DescsTrackTasks
    <2>3. age' \in [Tasks -> Nat] /\ taskAge' \in Nat
      BY <1>2 DEF Stamp
    <2>4. fresh' \cap (m_tasks' \cup Current') = {}
      BY <2>1 DEF WorkerHolds
    <2> QED BY <2>1, <2>2, <2>3, <2>4 DEF DirtyImpliesNonEmpty
  <1> QED BY <1>1, <1>2

\* Every step of the callers, of Terminate() and of the worker keeps it.
LEMMA NextInv == SchedulerInv /\ [Next]_vars => SchedulerInv'
  <1> SUFFICES ASSUME SchedulerInv, [Next]_vars PROVE SchedulerInv' OBVIOUS
  <1> USE SchedulerConstants
  <1>1. ASSUME NEW t \in Tasks, CallerAddsTask(t) PROVE SchedulerInv'
    <2>1. DoAddTask(t) /\ UNCHANGED <<s_running, s_terminated, m_currentTask,
                                      held, finished>>
      BY <1>1 DEF CallerAddsTask
    <2>2. /\ m_stop' \in BOOLEAN
          /\ createErrors' \in 0..MaxCreateErrors
          /\ \/ pc' = pc
             \/ ~IsAlive /\ ~s_terminated /\ pc' \in {"top", "none"}
      BY <1>1, CreateThread
      DEF SchedulerInv, CallerAddsTask, TypeOK, threadVars, Accepted
    <2>3. TypeOK'
      BY <2>1, <2>2, AddKeepsQueue DEF SchedulerInv, TypeOK, IsAlive, WorkerPCs
    <2>4. WorkerHolds'
      BY <2>1, <2>2, AddKeepsQueue DEF SchedulerInv, WorkerHolds, IsAlive
    <2>5. SchedulerLifecycle' /\ NothingRunsAfterTerminate'
      BY <2>1, <2>2
      DEF SchedulerInv, SchedulerLifecycle, NothingRunsAfterTerminate,
          DoAddTask, Accepted, queueVars, IsAlive, TypeOK
    <2> QED BY <2>1, <2>3, <2>4, <2>5, AddKeepsQueue DEF SchedulerInv
  <1>2. CASE Start
    <2>1. /\ m_stop' \in BOOLEAN
          /\ createErrors' \in 0..MaxCreateErrors
          /\ \/ pc' = pc
             \/ ~IsAlive /\ s_scheduler = "live" /\ pc' \in {"top", "none"}
      BY <1>2, CreateThread DEF SchedulerInv, Start, TypeOK, threadVars
    <2> QED
      BY <1>2, <2>1
      DEF SchedulerInv, Start, TypeOK, WorkerHolds, SchedulerLifecycle,
          DescsTrackTasks, DirtyImpliesNonEmpty, NothingRunsAfterTerminate,
          Current, IsAlive, WorkerPCs, queueVars
  <1>3. CASE TerminateUnlink
    BY <1>3
    DEF SchedulerInv, TerminateUnlink, MarkTerminated, TypeOK, WorkerHolds,
        SchedulerLifecycle, DescsTrackTasks, DirtyImpliesNonEmpty,
        NothingRunsAfterTerminate, Current, queueVars, threadVars
  <1>4. CASE TerminateStop
    BY <1>4
    DEF SchedulerInv, TerminateStop, TypeOK, WorkerHolds, SchedulerLifecycle,
        DescsTrackTasks, DirtyImpliesNonEmpty, NothingRunsAfterTerminate,
        Current, queueVars
  <1>5. CASE TerminateJoin
    <2>1. Current' = {} /\ m_tasks' = {} /\ m_taskDescs' = {}
      BY <1>5
      DEF SchedulerInv, TerminateJoin, ThreadJoined, WorkerHolds, Current
    <2>2. DescsTrackTasks'
      BY <2>1 DEF DescsTrackTasks
    <2> QED
      BY <1>5, <2>1, <2>2
      DEF SchedulerInv, TerminateJoin, ThreadJoined, TypeOK, WorkerHolds,
          SchedulerLifecycle, DirtyImpliesNonEmpty,
          NothingRunsAfterTerminate, WorkerPCs
  <1>6. CASE WorkerTestDestroy
    BY <1>6
    DEF SchedulerInv, WorkerTestDestroy, WorkerUnchanged, TypeOK, WorkerHolds,
        SchedulerLifecycle, DescsTrackTasks, DirtyImpliesNonEmpty,
        NothingRunsAfterTerminate, Current, queueVars, WorkerPCs
  <1>7. CASE WorkerNoMoreTasks
    BY <1>7
    DEF SchedulerInv, WorkerNoMoreTasks, WorkerUnchanged, TypeOK, WorkerHolds,
        SchedulerLifecycle, DescsTrackTasks, DirtyImpliesNonEmpty,
        NothingRunsAfterTerminate, Current, queueVars, WorkerPCs
  <1>8. CASE WorkerPick
    <2>1. PICK t \in m_tasks : /\ held' = t
                               /\ m_currentTask' = t
                               /\ m_tasks' = m_tasks \ {t}
      BY <1>8 DEF WorkerPick
    <2>2. /\ t \in Tasks /\ t # NoTask
          /\ Current = {} /\ Current' = {t}
          /\ m_tasks' \cup Current' = m_tasks \cup Current
          /\ m_taskDescs' = m_taskDescs
      BY <1>8, <2>1 DEF SchedulerInv, TypeOK, WorkerHolds, WorkerPick, Current
    <2>3. DescsTrackTasks'
      BY <2>1, <2>2 DEF SchedulerInv, DescsTrackTasks
    <2>4. TypeOK' /\ WorkerHolds'
      BY <1>8, <2>1, <2>2
      DEF SchedulerInv, TypeOK, WorkerHolds, WorkerPick, Resort,
          WorkerUnchanged, WorkerPCs
    <2>5. SchedulerLifecycle' /\ NothingRunsAfterTerminate'
          /\ DirtyImpliesNonEmpty'
      BY <1>8
      DEF SchedulerInv, SchedulerLifecycle, NothingRunsAfterTerminate,
          DirtyImpliesNonEmpty, WorkerPick, Resort, WorkerUnchanged
    <2> QED BY <2>3, <2>4, <2>5 DEF SchedulerInv
  <1>9. CASE WorkerRun
    BY <1>9
    DEF SchedulerInv, WorkerRun, WorkerUnchanged, TypeOK, WorkerHolds,
        SchedulerLifecycle, DescsTrackTasks, DirtyImpliesNonEmpty,
        NothingRunsAfterTerminate, Current, queueVars, WorkerPCs
  <1>10. CASE WorkerFinish
    <2>1. /\ held = m_currentTask /\ held \in Tasks /\ held # NoTask
          /\ Current = {held} /\ Current' = {}
          /\ m_taskDescs' = m_taskDescs \ {KeyOf[held]}
          /\ m_tasks' = m_tasks
      BY <1>10 DEF SchedulerInv, TypeOK, WorkerHolds, WorkerFinish, Current
    <2>2. DescsTrackTasks'
      BY <2>1 DEF SchedulerInv, DescsTrackTasks
    <2>3. TypeOK' /\ WorkerHolds'
      BY <1>10, <2>1
      DEF SchedulerInv, TypeOK, WorkerHolds, WorkerFinish, WorkerUnchanged,
          WorkerPCs
    <2>4. SchedulerLifecycle' /\ NothingRunsAfterTerminate'
          /\ DirtyImpliesNonEmpty'
      BY <1>10
      DEF SchedulerInv, SchedulerLifecycle, NothingRunsAfterTerminate,
          DirtyImpliesNonEmpty, WorkerFinish, WorkerUnchanged
    <2> QED BY <2>2, <2>3, <2>4 DEF SchedulerInv
  <1>11. CASE WorkerOnLastTask
    <2> USE <1>11 DEF WorkerOnLastTask, WorkerUnchanged
    <2>1. CASE UNCHANGED <<s_scheduler, queueVars, fresh>>
      BY <2>1
      DEF SchedulerInv, TypeOK, WorkerHolds, SchedulerLifecycle,
          DescsTrackTasks, DirtyImpliesNonEmpty, NothingRunsAfterTerminate,
          Current, queueVars, WorkerPCs
    <2>2. ASSUME NEW t \in Tasks, DoAddTask(t) PROVE SchedulerInv'
      <3>1. TypeOK'
        BY <2>2, AddKeepsQueue DEF SchedulerInv, TypeOK, WorkerPCs
      <3>2. WorkerHolds'
        BY <2>2, AddKeepsQueue DEF SchedulerInv, WorkerHolds
      <3>3. SchedulerLifecycle' /\ NothingRunsAfterTerminate'
        BY <2>2
        DEF SchedulerInv, SchedulerLifecycle, NothingRunsAfterTerminate,
            DoAddTask, Accepted, queueVars, TypeOK
      <3> QED BY <2>2, <3>1, <3>2, <3>3, AddKeepsQueue DEF SchedulerInv
    <2> QED BY <2>1, <2>2 DEF DoAddTask, SchedulerInv, TypeOK
  <1>12. CASE WorkerExit
    BY <1>12
    DEF SchedulerInv, WorkerExit, WorkerUnchanged, TypeOK, WorkerHolds,
        SchedulerLifecycle, DescsTrackTasks, DirtyImpliesNonEmpty,
        NothingRunsAfterTerminate, Current, queueVars, WorkerPCs
  <1>13. CASE UNCHANGED vars
    BY <1>13
    DEF vars, SchedulerInv, TypeOK, WorkerHolds, SchedulerLifecycle,
        DescsTrackTasks, DirtyImpliesNonEmpty, NothingRunsAfterTerminate,
        Current, queueVars, threadVars
  <1> QED
    BY <1>1, <1>2, <1>3, <1>4, <1>5, <1>6, <1>7, <1>8, <1>9, <1>10, <1>11,
       <1>12, <1>13
    DEF Next, Terminating, Worker

\* The type invariant of the scheduler, in every reachable state.
THEOREM SchedulerTypes == Spec => []TypeOK
  <1>1. SchedulerInv => TypeOK BY DEF SchedulerInv
  <1> QED BY InitInv, NextInv, <1>1, PTL DEF Spec

\* No two tasks with one (type, description) are in the scheduler together,
\* and m_taskDescs never goes stale: AddTask refuses duplicates and no more.
THEOREM NoDuplicateTasks == Spec => []DescsTrackTasks
  <1>1. SchedulerInv => DescsTrackTasks BY DEF SchedulerInv
  <1> QED BY InitInv, NextInv, <1>1, PTL DEF Spec

\* Entry() never takes the front of an empty deque.
THEOREM FrontExists == Spec => []DirtyImpliesNonEmpty
  <1>1. SchedulerInv => DirtyImpliesNonEmpty BY DEF SchedulerInv
  <1> QED BY InitInv, NextInv, <1>1, PTL DEF Spec

\* When Terminate() has returned no task runs, and none starts to.
THEOREM TerminateIsFinal == Spec => []NothingRunsAfterTerminate
  <1>1. SchedulerInv => NothingRunsAfterTerminate BY DEF SchedulerInv
  <1> QED BY InitInv, NextInv, <1>1, PTL DEF Spec
\* The queue is finite: it is filled one task at a time.
QueueIsFinite == IsFiniteSet(m_tasks)

\* No step makes the queue infinite.
LEMMA FiniteQueue == Spec => []QueueIsFinite
  <1>1. Init => QueueIsFinite BY FS_EmptySet DEF Init, QueueIsFinite
  <1>2. QueueIsFinite /\ [Next]_vars => QueueIsFinite'
    <2> SUFFICES ASSUME IsFiniteSet(m_tasks), [Next]_vars
                 PROVE  IsFiniteSet(m_tasks')
      BY DEF QueueIsFinite
    <2>1. \/ m_tasks' \in {m_tasks, {}}
          \/ \E t : m_tasks' \in {m_tasks \cup {t}, m_tasks \ {t}}
      <3>1. ASSUME NEW t, DoAddTask(t)
            PROVE  m_tasks' \in {m_tasks, m_tasks \cup {t}}
        BY <3>1 DEF DoAddTask, queueVars
      <3>2. ASSUME NEW t \in Tasks, CallerAddsTask(t)
            PROVE  m_tasks' \in {m_tasks, m_tasks \cup {t}}
        BY <3>1, <3>2 DEF CallerAddsTask
      <3>3. ASSUME WorkerOnLastTask
            PROVE  m_tasks' = m_tasks \/ \E t : m_tasks' = m_tasks \cup {t}
        BY <3>1, <3>3 DEF WorkerOnLastTask, queueVars
      <3>4. ASSUME WorkerPick PROVE \E t \in m_tasks : m_tasks' = m_tasks \ {t}
        BY <3>4 DEF WorkerPick
      <3> QED
        BY <3>2, <3>3, <3>4
        DEF Next, vars, queueVars, Start, TerminateUnlink, Terminating,
            TerminateStop, TerminateJoin, Worker, WorkerTestDestroy,
            WorkerNoMoreTasks, WorkerRun, WorkerFinish, WorkerExit
    <2>2. \A t : /\ IsFiniteSet(m_tasks \cup {t})
                 /\ IsFiniteSet(m_tasks \ {t})
      BY FS_AddElement, FS_RemoveElement
    <2> QED BY <2>1, <2>2, FS_EmptySet
  <1> QED BY <1>1, <1>2, PTL DEF Spec

\* Counting the tasks of a type counts their keys: KeyOf is one to one on the
\* tasks that wait or run.
LEMMA CountByKey ==
  ASSUME SchedulerInv, IsFiniteSet(m_tasks), s_scheduler = "live"
  PROVE  PendingCountIsExact
  <1> SUFFICES ASSUME NEW ty \in Types
               PROVE  GetPendingCount(ty)
                        = Cardinality({k \in m_taskDescs : TypeOf[k] = ty})
    BY DEF PendingCountIsExact
  <1> DEFINE Q == {t \in m_tasks : TypeOf[KeyOf[t]] = ty}
             P == {t \in m_tasks \cup Current : TypeOf[KeyOf[t]] = ty}
             K == {k \in m_taskDescs : TypeOf[k] = ty}
             f == [t \in P |-> KeyOf[t]]
  <1>1. IsFiniteSet(Q) BY FS_Subset
  <1>2. Cardinality(P) = GetPendingCount(ty) /\ IsFiniteSet(P)
    <2>1. Cardinality(Q) \in Nat BY <1>1, FS_CardinalityType
    <2>2. CASE /\ m_currentTask # NoTask
               /\ TypeOf[KeyOf[m_currentTask]] = ty
      <3>1. P = Q \cup {m_currentTask} BY <2>2 DEF Current
      <3>2. m_currentTask \notin Q
        BY <2>2 DEF SchedulerInv, DescsTrackTasks, Current
      <3>3. IsFiniteSet(P) /\ Cardinality(P) = Cardinality(Q) + 1
        BY <1>1, <3>1, <3>2, FS_AddElement
      <3> QED BY <2>2, <3>3 DEF GetPendingCount, QueuedCount
    <2>3. CASE ~ (/\ m_currentTask # NoTask
                  /\ TypeOf[KeyOf[m_currentTask]] = ty)
      <3>1. P = Q BY <2>3 DEF Current
      <3> QED BY <1>1, <2>1, <2>3, <3>1 DEF GetPendingCount, QueuedCount
    <2> QED BY <2>2, <2>3
  <1>3. f \in Bijection(P, K)
    <2>1. m_taskDescs = {KeyOf[t] : t \in m_tasks \cup Current}
      BY DEF SchedulerInv, DescsTrackTasks
    <2>2. \A t, u \in m_tasks \cup Current : KeyOf[t] = KeyOf[u] => t = u
      BY DEF SchedulerInv, DescsTrackTasks
    <2>3. f \in [P -> K] BY <2>1
    <2>4. \A t, u \in P : f[t] = f[u] => t = u BY <2>2
    <2>5. \A k \in K : \E t \in P : f[t] = k BY <2>1
    <2> QED BY <2>3, <2>4, <2>5, Fun_IsBij
  <1>4. Cardinality(K) = Cardinality(P)
    <2> HIDE DEF f, P, K
    <2>1. ExistsBijection(P, K) BY <1>3 DEF ExistsBijection
    <2> QED BY <1>2, <2>1, FS_Bijection
  <1> QED BY <1>2, <1>4

\* GetPendingCount is exact while the scheduler lives: the tasks it counts
\* are those whose keys m_taskDescs holds, the running one included.
THEOREM PendingIsCounted == Spec => []PendingCountIsExact
  <1>1. SchedulerInv /\ QueueIsFinite => PendingCountIsExact
    BY CountByKey DEF PendingCountIsExact, QueueIsFinite
  <1> QED BY InitInv, NextInv, FiniteQueue, <1>1, PTL DEF Spec
==============================================================================
