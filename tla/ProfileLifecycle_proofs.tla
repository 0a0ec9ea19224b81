----------------------- MODULE ProfileLifecycle_proofs -----------------------
(* Theorems about ProfileLifecycle, for any number of callers and browsers: *)
(* its section, its directory, and that it implements BrowserSlot.          *)
EXTENDS ProfileLifecycle, TLAPS

-----------------------------------------------------------------------------
(* Lemmas about the queue and cancellation helpers.                        *)

\* Removing a task from a queue of tasks leaves a queue of tasks, and an empty
\* queue stays empty (asyncio.Lock's waiters after a cancelled wait).
LEMMA WithoutType ==
    ASSUME NEW q \in Seq(Tasks), NEW t
    PROVE  Without(q, t) \in Seq(Tasks) /\ (q = <<>> => Without(q, t) = <<>>)
<1>1. CASE \E i \in 1..Len(q) : q[i] = t
  <2> DEFINE i == CHOOSE j \in 1..Len(q) : q[j] = t
  <2>1. i \in 1..Len(q) BY <1>1
  <2>2. SubSeq(q, 1, i - 1) \in Seq(Tasks)
    <3>1. \A k \in 1..(i - 1) : q[k] \in Tasks BY <2>1
    <3> QED BY <2>1, <3>1
  <2>3. SubSeq(q, i + 1, Len(q)) \in Seq(Tasks)
    <3>1. \A k \in (i + 1)..Len(q) : q[k] \in Tasks BY <2>1
    <3> QED BY <2>1, <3>1
  <2>4. Without(q, t) = SubSeq(q, 1, i - 1) \o SubSeq(q, i + 1, Len(q))
    BY <1>1 DEF Without
  <2>5. q # <<>> BY <1>1
  <2> QED BY <2>2, <2>3, <2>4, <2>5
<1>2. CASE ~\E i \in 1..Len(q) : q[i] = t
  BY <1>2 DEF Without
<1> QED BY <1>1, <1>2

\* The same for all queues at once.
LEMMA DequeuedType ==
    ASSUME NEW w \in [Locks -> Seq(Tasks)], NEW b
    PROVE  /\ Dequeued(w, b) \in [Locks -> Seq(Tasks)]
           /\ w[2] = <<>> => Dequeued(w, b)[2] = <<>>
<1>1. 2 \in Locks BY DEF Locks
<1>2. \A l \in Locks : Without(w[l], b) \in Seq(Tasks) /\ (w[l] = <<>> => Without(w[l], b) = <<>>)
  BY WithoutType
<1> QED BY <1>1, <1>2 DEF Dequeued

\* Cancelling a registered health task keeps the queues well-formed.
LEMMA LeaveQueueType ==
    ASSUME NEW w \in [Locks -> Seq(Tasks)], NEW a
    PROVE  /\ LeaveQueue(w, a) \in [Locks -> Seq(Tasks)]
           /\ w[2] = <<>> => LeaveQueue(w, a)[2] = <<>>
BY DequeuedType DEF LeaveQueue

\* Serving the head of a queue keeps the queues well-formed.
LEMMA ServedType ==
    ASSUME TypeOK, NEW t \in Tasks, NEW l \in Locks, Acquires(t, l)
    PROVE  /\ Served(t, l) \in [Locks -> Seq(Tasks)]
           /\ waiters[2] = <<>> => Served(t, l)[2] = <<>>
<1>1. CASE pc[t] \in Waiting
  <2>1. waiters \in [Locks -> Seq(Tasks)] /\ waiters[l] \in Seq(Tasks) /\ waiters[l] # <<>>
    BY <1>1 DEF TypeOK, Acquires
  <2>2. Tail(waiters[l]) \in Seq(Tasks) BY <2>1
  <2>3. Served(t, l) = [waiters EXCEPT ![l] = Tail(waiters[l])] BY <1>1 DEF Served
  <2>4. l # 2 \/ waiters[2] # <<>> BY <2>1
  <2>5. 2 \in Locks BY DEF Locks
  <2> QED BY <2>1, <2>2, <2>3, <2>4, <2>5
<1>2. CASE pc[t] \notin Waiting
  BY <1>2 DEF Served, TypeOK
<1> QED BY <1>1, <1>2

\* Values pc takes.
PcValues == Critical \cup Waiting \cup {"idle", "unborn", "watching"}

\* Cancelling a health task only ever moves a task to "idle".
LEMMA UnwatchedType ==
    ASSUME NEW f \in [Tasks -> PcValues], NEW a
    PROVE  /\ Unwatched(f, a) \in [Tasks -> PcValues]
           /\ \A t \in Tasks : Unwatched(f, a)[t] \in {f[t], "idle"}
BY DEF Unwatched, PcValues, Tasks

\* The kill operators leave a browser or none.
LEMMA AfterKillType == ASSUME TypeOK PROVE AfterKill \subseteq MaybeBrowser
BY DEF AfterKill, TypeOK, MaybeBrowser


-----------------------------------------------------------------------------
(* Type correctness.                                                       *)

\* A task past launch_persistent_context holds a browser: what the type of the
\* handlers' set needs to be inductive.
HoldsBrowser == \A t \in Tasks : pc[t] \in {"setup", "goto"} => br[t] \in Browsers

\* The initial state has the types.
LEMMA TypeInit == Init => TypeOK /\ HoldsBrowser
<1> SUFFICES ASSUME Init PROVE TypeOK /\ HoldsBrowser
  OBVIOUS
<1>1. pc \in [Tasks -> {"idle", "unborn"}] BY DEF Init
<1>2. waiters \in [Locks -> Seq(Tasks)] BY DEF Init
<1>3. HoldsBrowser BY <1>1 DEF HoldsBrowser
<1>4. TypeOK BY <1>1, <1>2 DEF Init, TypeOK, MaybeBrowser, Waiting, Critical, Afters
<1> QED BY <1>3, <1>4

\* A step of launch_profile preserves the types.
LEMMA LaunchType ==
    ASSUME TypeOK, HoldsBrowser, NEW t \in Tasks, LaunchCalls(t) \/ LaunchSteps(t)
    PROVE  TypeOK' /\ HoldsBrowser'
<1> USE AfterKillType DEF TypeOK, HoldsBrowser, Goto, Return
<1>1. CASE LaunchBlocked(t)
  BY <1>1 DEF LaunchBlocked, CleanupOrphans, MaybeBrowser, envVars, failVars, lockVars, taskVars
<1>2. CASE LaunchQueues(t)
  <2>1. CurrentLock \in Locks BY DEF CurrentLock, Locks
  <2>2. waiters' \in [Locks -> Seq(Tasks)]
    BY <1>2, <2>1 DEF LaunchQueues, Enqueue
  <2> QED BY <1>2, <2>2 DEF LaunchQueues, Enqueue, Waiting, envVars, failVars
<1>3. CASE LaunchRefused(t)
  <2>1. PICK l \in Locks :
          Acquires(t, l) /\ held' = Released(Taken(l)) /\ waiters' = Served(t, l)
    BY <1>3 DEF LaunchRefused
  <2>2. waiters' \in [Locks -> Seq(Tasks)] BY <2>1, ServedType
  <2>3. held' \in [Locks -> BOOLEAN] BY <2>1 DEF Released, Taken
  <2> QED BY <1>3, <2>2, <2>3 DEF LaunchRefused, CleanupOrphans, MaybeBrowser, envVars, failVars
<1>4. CASE LaunchAlreadyRunning(t)
  <2>1. PICK l \in Locks :
          Acquires(t, l) /\ held' = Released(Taken(l)) /\ waiters' = Served(t, l)
    BY <1>4 DEF LaunchAlreadyRunning
  <2>2. waiters' \in [Locks -> Seq(Tasks)] BY <2>1, ServedType
  <2>3. held' \in [Locks -> BOOLEAN] BY <2>1 DEF Released, Taken
  <2> QED BY <1>4, <2>2, <2>3 DEF LaunchAlreadyRunning, envVars, failVars
<1>5. CASE LaunchAdmitted(t)
  <2>1. PICK l \in Locks : Acquires(t, l) /\ held' = Taken(l) /\ waiters' = Served(t, l)
    BY <1>5 DEF LaunchAdmitted
  <2>2. waiters' \in [Locks -> Seq(Tasks)] BY <2>1, ServedType
  <2>3. held' \in [Locks -> BOOLEAN] BY <2>1 DEF Taken
  <2> QED BY <1>5, <2>2, <2>3 DEF LaunchAdmitted, Critical, Launching, envVars, failVars
<1>6. CASE LaunchStarts(t)
  <2>1. PICK b \in Browsers :
          /\ pc[t] = "config" /\ pc[b] = "unborn"
          /\ pc' = [pc EXCEPT ![t] = "setup", ![b] = "idle"]
          /\ br' = [br EXCEPT ![t] = b]
          /\ proc' = b /\ dir' = TRUE
    BY <1>6 DEF LaunchStarts
  <2>2. b \in Tasks /\ b # t BY <2>1 DEF Tasks
  <2>3. HoldsBrowser'
    BY <2>1, <2>2 DEF Critical, Waiting
  <2>4. pc' \in [Tasks -> Critical \cup Waiting \cup {"idle", "unborn", "watching"}]
    BY <2>1, <2>2 DEF Critical, Launching
  <2> QED BY <1>6, <2>1, <2>3, <2>4 DEF LaunchStarts, MaybeBrowser, failVars, lockVars
<1>7. CASE LaunchSetUp(t)
  BY <1>7 DEF LaunchSetUp, Critical, Launching, envVars, failVars, lockVars
<1>8. CASE LaunchRaises(t)
  BY <1>8 DEF LaunchRaises, Critical, Launching, envVars, failVars, lockVars
<1>9. CASE LaunchAborts(t)
  BY <1>9 DEF LaunchAborts, MaybeBrowser, Released, Afters, envVars, failVars
<1>10. CASE LaunchRegisters(t)
  <2>1. listening' \subseteq Browsers
    BY <1>10, LifecycleAssumption DEF LaunchRegisters, MaybeBrowser
  <2> QED BY <1>10, <2>1 DEF LaunchRegisters, MaybeBrowser, Released, Afters, envVars, failVars
<1> QED BY <1>1, <1>2, <1>3, <1>4, <1>5, <1>6, <1>7, <1>8, <1>9, <1>10 DEF LaunchCalls, LaunchSteps

\* A step of close_profile preserves the types.
LEMMA CloseType ==
    ASSUME TypeOK, HoldsBrowser, NEW t \in Tasks,
           CloseCalls(t) \/ CloseSelfCancels(t) \/ CloseSteps(t)
    PROVE  TypeOK' /\ HoldsBrowser'
<1> USE AfterKillType DEF TypeOK, HoldsBrowser, Goto, Return
<1>a. CurrentLock \in Locks BY DEF CurrentLock, Locks
<1>b. ASSUME NEW k \in Afters, CloseQueues(t, k) PROVE TypeOK' /\ HoldsBrowser'
  <2>1. waiters' \in [Locks -> Seq(Tasks)]
    BY <1>a, <1>b DEF CloseQueues, Enqueue
  <2> QED BY <1>b, <2>1 DEF CloseQueues, Enqueue, Waiting, envVars, failVars
<1>c. ASSUME NEW k \in Afters, CloseActive(t, k) PROVE TypeOK' /\ HoldsBrowser'
  <2>1. PICK l \in Locks :
          /\ Acquires(t, l) /\ held' = Taken(l)
          /\ waiters' = LeaveQueue(Served(t, l), active)
    BY <1>c DEF CloseActive
  <2>2. waiters' \in [Locks -> Seq(Tasks)] BY <2>1, ServedType, LeaveQueueType
  <2>3. held' \in [Locks -> BOOLEAN] BY <2>1 DEF Taken
  <2> DEFINE f == [pc EXCEPT ![t] = "context"]
  <2>4. f \in [Tasks -> PcValues] /\ pc' = Unwatched(f, active)
    BY <1>c DEF CloseActive, PcValues, Critical, Closing
  <2> HIDE DEF f
  <2>5. pc' \in [Tasks -> PcValues] /\ \A u \in Tasks : pc'[u] \in {f[u], "idle"}
    BY <2>4, UnwatchedType
  <2>6. HoldsBrowser' BY <1>c, <2>5 DEF f, CloseActive
  <2> QED BY <1>c, <2>2, <2>3, <2>5, <2>6 DEF CloseActive, PcValues, envVars, failVars
<1>d. ASSUME NEW k \in Afters, CloseLingering(t, k) PROVE TypeOK' /\ HoldsBrowser'
  <2>1. PICK l \in Locks : Acquires(t, l) /\ held' = Taken(l) /\ waiters' = Served(t, l)
    BY <1>d DEF CloseLingering
  <2>2. waiters' \in [Locks -> Seq(Tasks)] BY <2>1, ServedType
  <2>3. held' \in [Locks -> BOOLEAN] BY <2>1 DEF Taken
  <2> QED BY <1>d, <2>2, <2>3 DEF CloseLingering, Critical, Closing, envVars, failVars
<1>e. ASSUME NEW k \in Afters, CloseNothing(t, k) PROVE TypeOK' /\ HoldsBrowser'
  <2>1. PICK l \in Locks :
          Acquires(t, l) /\ held' = Released(Taken(l)) /\ waiters' = Served(t, l)
    BY <1>e DEF CloseNothing
  <2>2. waiters' \in [Locks -> Seq(Tasks)] BY <2>1, ServedType
  <2>3. held' \in [Locks -> BOOLEAN] BY <2>1 DEF Released, Taken
  <2> QED BY <1>e, <2>2, <2>3
      DEF CloseNothing, MarkStopped, DeleteAfter, MaybeBrowser, Afters, failVars
<1>f. CASE CloseSelfCancels(t)
  <2>1. PICK l \in Locks :
          Acquires(t, l) /\ held' = Released(Taken(l)) /\ waiters' = Served(t, l)
    BY <1>f DEF CloseSelfCancels
  <2>2. waiters' \in [Locks -> Seq(Tasks)] BY <2>1, ServedType
  <2>3. held' \in [Locks -> BOOLEAN] BY <2>1 DEF Released, Taken
  <2> QED BY <1>f, <2>2, <2>3 DEF CloseSelfCancels, MaybeBrowser, envVars, failVars
<1>g. CASE CloseContext(t)
  <2> DEFINE f == [pc EXCEPT ![t] = "reap"]
  <2>1. f \in [Tasks -> PcValues] /\ pc' \in {f, Unwatched(f, active)}
    BY <1>g DEF CloseContext, PcValues, Critical, Closing
  <2>2. waiters' \in [Locks -> Seq(Tasks)]
    BY <1>g, LeaveQueueType DEF CloseContext
  <2> HIDE DEF f
  <2>3. pc' \in [Tasks -> PcValues] /\ \A u \in Tasks : pc'[u] \in {f[u], "idle"}
    BY <2>1, UnwatchedType
  <2>4. HoldsBrowser' BY <1>g, <2>3 DEF f, CloseContext
  <2> QED BY <1>g, <2>2, <2>3, <2>4 DEF CloseContext, PcValues, MaybeBrowser, envVars, failVars
<1>h. CASE CloseSucceeds(t)
  BY <1>h DEF CloseSucceeds, MarkStopped, Released, DeleteAfter, Wiped, MaybeBrowser, Afters, failVars
<1>i. CASE CloseFails(t)
  BY <1>i DEF CloseFails, Released, DeleteAfter, MaybeBrowser, Afters, failVars
<1> QED BY <1>b, <1>c, <1>d, <1>e, <1>f, <1>g, <1>h, <1>i DEF CloseCalls, CloseSteps

\* Every other step of a task preserves the types.
LEMMA OtherTaskType ==
    ASSUME TypeOK, HoldsBrowser, NEW t \in Tasks,
           WatcherQuits(t) \/ DeleteStopped(t) \/ CancelCall(t)
    PROVE  TypeOK' /\ HoldsBrowser'
<1> USE DEF TypeOK, HoldsBrowser, Goto, Return
<1>1. CASE WatcherQuits(t)
  BY <1>1 DEF WatcherQuits, envVars, failVars, lockVars
<1>2. CASE DeleteStopped(t)
  BY <1>2 DEF DeleteStopped, failVars, lockVars, taskVars
<1>3. CASE CancelCall(t)
  <2>1. waiters' \in [Locks -> Seq(Tasks)]
    BY <1>3, DequeuedType DEF CancelCall
  <2> QED BY <1>3, <2>1 DEF CancelCall, LaunchMark, Released, MaybeBrowser, Afters, envVars, failVars
<1> QED BY <1>1, <1>2, <1>3

\* What browsers do by themselves preserves the types.
LEMMA BrowserType ==
    ASSUME TypeOK, HoldsBrowser, NEW b \in Browsers, BrowserStep(b)
    PROVE  TypeOK' /\ HoldsBrowser'
<1> USE DEF TypeOK, HoldsBrowser
<1>1. CASE Crash(b)
  BY <1>1 DEF Crash, MaybeBrowser, envVars, failVars, lockVars, taskVars
<1>2. CASE ContextClosed(b)
  <2>1. waiters' \in [Locks -> Seq(Tasks)] BY <1>2, LeaveQueueType DEF ContextClosed
  <2>2. pc' = Unwatched(pc, active) /\ pc \in [Tasks -> PcValues]
    BY <1>2 DEF ContextClosed, PcValues
  <2>3. pc' \in [Tasks -> PcValues] /\ \A u \in Tasks : pc'[u] \in {pc[u], "idle"}
    BY <2>2, UnwatchedType
  <2>4. HoldsBrowser' BY <1>2, <2>3 DEF ContextClosed
  <2> QED BY <1>2, <2>1, <2>3, <2>4 DEF ContextClosed, PcValues, MaybeBrowser, envVars, failVars
<1>3. CASE CdpFails(b)
  <2> DEFINE f == SetupRaised(b)
  <2>1. f \in [Tasks -> PcValues] BY DEF SetupRaised, PcValues, Critical, Launching
  <2>2. pc' \in {pc, f, Unwatched(pc, active), Unwatched(f, active)} /\ br' = br
    BY <1>3 DEF CdpFails
  <2>3. waiters' \in [Locks -> Seq(Tasks)] BY <1>3, LeaveQueueType DEF CdpFails
  <2>4. \A u \in Tasks : f[u] \in {pc[u], "abort"} BY DEF SetupRaised
  <2> HIDE DEF f
  <2>p. pc \in [Tasks -> PcValues] BY DEF PcValues
  <2>5. pc' \in [Tasks -> PcValues] /\ \A u \in Tasks : pc'[u] \in {pc[u], f[u], "idle"}
    BY <2>p, <2>1, <2>2, UnwatchedType
  <2>6. HoldsBrowser' BY <2>2, <2>4, <2>5
  <2> QED BY <1>3, <2>3, <2>5, <2>6 DEF CdpFails, PcValues, MaybeBrowser, envVars, failVars
<1> QED BY <1>1, <1>2, <1>3 DEF BrowserStep

\* Every step preserves the types.
LEMMA TypeStep ==
    ASSUME TypeOK, HoldsBrowser, [Next]_vars
    PROVE  TypeOK' /\ HoldsBrowser'
<1>1. CASE \E t \in Tasks : TaskStep(t)
  BY <1>1, LaunchType, CloseType, OtherTaskType DEF TaskStep
<1>2. CASE \E b \in Browsers : BrowserStep(b)
  BY <1>2, BrowserType
<1>3. CASE FailClosedEnds
  BY <1>3, AfterKillType
  DEF FailClosedEnds, TypeOK, HoldsBrowser, MaybeBrowser, envVars, lockVars, taskVars
<1>4. CASE UNCHANGED vars
  BY <1>4 DEF vars, envVars, failVars, lockVars, taskVars, TypeOK, HoldsBrowser
<1> QED BY <1>1, <1>2, <1>3, <1>4 DEF Next

\* Every reachable state is well-typed.
THEOREM TypeCorrect == Spec => [](TypeOK /\ HoldsBrowser)
<1>1. Init => TypeOK /\ HoldsBrowser BY TypeInit
<1>2. TypeOK /\ HoldsBrowser /\ [Next]_vars => (TypeOK /\ HoldsBrowser)'
  BY TypeStep
<1> QED BY <1>1, <1>2, PTL DEF Spec

-----------------------------------------------------------------------------
(* Mutual exclusion.  release() checks no owner, so exclusion rests on two *)
(* facts about the whole life cycle: whoever is inside has the first lock  *)
(* object taken, and while the profile exists nobody queues on a second.   *)

LockCoversSection == present => \A t \in Tasks : pc[t] \in Critical => held[1]

SecondLockUnused == present => waiters[2] = <<>>

SectionInv == TypeOK /\ HoldsBrowser /\ MutualExclusion /\ LockCoversSection /\ SecondLockUnused

\* Nobody is inside when a task gets the lock of an existing profile.
LEMMA AcquiredMeansEmpty ==
    ASSUME SectionInv, present, NEW t \in Tasks, NEW l \in Locks, Acquires(t, l)
    PROVE  l = 1 /\ \A u \in Tasks : pc[u] \notin Critical
<1>1. l = 1 BY DEF SectionInv, SecondLockUnused, Acquires, CurrentLock, Locks
<1>2. ~held[1] BY <1>1 DEF Acquires, Free
<1> QED BY <1>1, <1>2 DEF SectionInv, LockCoversSection

\* A step in which nobody enters preserves the invariant when it leaves the lock
\* alone or leaves the section empty.
LEMMA NobodyEnters ==
    ASSUME SectionInv, TypeOK', HoldsBrowser',
           present' => present,
           present' => waiters'[2] = <<>>,
           \A u \in Tasks : pc'[u] \in Critical => pc[u] \in Critical,
           \/ held' = held
           \/ present' => \A u \in Tasks : pc'[u] \notin Critical
    PROVE  SectionInv'
BY DEF SectionInv, MutualExclusion, LockCoversSection, SecondLockUnused

\* A step in which t enters with the lock it acquires preserves the invariant.
LEMMA Enters ==
    ASSUME SectionInv, TypeOK', HoldsBrowser',
           NEW t \in Tasks, NEW l \in Locks, Acquires(t, l),
           present' = present, held' = Taken(l),
           present' => waiters'[2] = <<>>,
           \A u \in Tasks : pc'[u] \in Critical => u = t \/ pc[u] \in Critical
    PROVE  SectionInv'
<1>1. present => l = 1 /\ \A u \in Tasks : pc[u] \notin Critical
  BY AcquiredMeansEmpty
<1>2. present => held'[1] = TRUE
  BY <1>1 DEF Taken, SectionInv, TypeOK
<1> QED BY <1>1, <1>2 DEF SectionInv, MutualExclusion, LockCoversSection, SecondLockUnused

\* A step in which t gets the lock and gives it back preserves the invariant.
LEMMA PassesThrough ==
    ASSUME SectionInv, TypeOK', HoldsBrowser',
           NEW t \in Tasks, NEW l \in Locks, Acquires(t, l),
           present' => present,
           present' => waiters'[2] = <<>>,
           \A u \in Tasks : pc'[u] \in Critical => pc[u] \in Critical
    PROVE  SectionInv'
<1>1. present' => \A u \in Tasks : pc'[u] \notin Critical
  BY AcquiredMeansEmpty
<1> QED BY <1>1, NobodyEnters

\* A step in which the task inside leaves preserves the invariant.
LEMMA Leaves ==
    ASSUME SectionInv, TypeOK', HoldsBrowser',
           NEW t \in Tasks, pc[t] \in Critical, pc'[t] \notin Critical,
           present' => present,
           present' => waiters'[2] = <<>>,
           \A u \in Tasks : pc'[u] \in Critical => pc[u] \in Critical
    PROVE  SectionInv'
<1>1. present' => \A u \in Tasks : pc'[u] \notin Critical
  BY DEF SectionInv, MutualExclusion
<1> QED BY <1>1, NobodyEnters

\* The queue on the first lock object is the only one that grows.
LEMMA EnqueueKeeps ==
    ASSUME SectionInv, NEW t \in Tasks, Enqueue(t), present
    PROVE  waiters'[2] = <<>>
BY DEF SectionInv, TypeOK, SecondLockUnused, Enqueue, CurrentLock, Locks

\* A step of launch_profile preserves the invariant.
LEMMA LaunchSection ==
    ASSUME SectionInv, NEW t \in Tasks, LaunchCalls(t) \/ LaunchSteps(t)
    PROVE  SectionInv'
<1>t. TypeOK /\ TypeOK' /\ HoldsBrowser' BY LaunchType DEF SectionInv
<1>w. present => waiters[2] = <<>> BY DEF SectionInv, SecondLockUnused
<1> USE DEF Goto, Return
<1>1. CASE LaunchBlocked(t)
  BY <1>1, <1>t, <1>w, NobodyEnters DEF LaunchBlocked, envVars, lockVars, taskVars
<1>2. CASE LaunchQueues(t)
  <2>1. present' => waiters'[2] = <<>> BY <1>2, EnqueueKeeps DEF LaunchQueues, envVars
  <2>2. \A u \in Tasks : pc'[u] \in Critical => pc[u] \in Critical
    BY <1>2, <1>t DEF LaunchQueues, TypeOK, Critical, Launching, Closing
  <2> QED BY <1>2, <1>t, <2>1, <2>2, NobodyEnters DEF LaunchQueues, Enqueue, envVars
<1>3. CASE LaunchRefused(t) \/ LaunchAlreadyRunning(t)
  <2>1. PICK l \in Locks : Acquires(t, l) /\ waiters' = Served(t, l)
    BY <1>3 DEF LaunchRefused, LaunchAlreadyRunning
  <2>2. present' = present
    BY <1>3 DEF LaunchRefused, LaunchAlreadyRunning, envVars
  <2>3. \A u \in Tasks : pc'[u] \in Critical => pc[u] \in Critical
    BY <1>3, <1>t DEF LaunchRefused, LaunchAlreadyRunning, TypeOK, Critical, Launching, Closing
  <2>4. present' => waiters'[2] = <<>> BY <1>t, <1>w, <2>1, <2>2, ServedType
  <2> QED BY <1>t, <2>1, <2>2, <2>3, <2>4, PassesThrough
<1>4. CASE LaunchAdmitted(t)
  <2>1. PICK l \in Locks : Acquires(t, l) /\ held' = Taken(l) /\ waiters' = Served(t, l)
    BY <1>4 DEF LaunchAdmitted
  <2>2. present' = present BY <1>4 DEF LaunchAdmitted, envVars
  <2>3. \A u \in Tasks : pc'[u] \in Critical => u = t \/ pc[u] \in Critical
    BY <1>4, <1>t DEF LaunchAdmitted, TypeOK
  <2>4. present' => waiters'[2] = <<>> BY <1>t, <1>w, <2>1, <2>2, ServedType
  <2> QED BY <1>t, <2>1, <2>2, <2>3, <2>4, Enters
<1>5. CASE LaunchStarts(t) \/ LaunchSetUp(t) \/ LaunchRaises(t)
  <2>1. pc[t] \in Critical
    BY <1>5 DEF LaunchStarts, LaunchSetUp, LaunchRaises, Critical, Launching
  <2>2. \A u \in Tasks : pc'[u] \in Critical => pc[u] \in Critical
    BY <1>5, <1>t, <2>1
    DEF LaunchStarts, LaunchSetUp, LaunchRaises, TypeOK, Critical, Launching, Closing
  <2>3. present' = present /\ held' = held /\ waiters' = waiters
    BY <1>5 DEF LaunchStarts, LaunchSetUp, LaunchRaises, envVars, lockVars
  <2> QED BY <1>t, <1>w, <2>2, <2>3, NobodyEnters
<1>6. CASE LaunchAborts(t) \/ LaunchRegisters(t)
  <2>1. pc[t] \in Critical
    BY <1>6 DEF LaunchAborts, LaunchRegisters, Critical, Launching
  <2>2. \A u \in Tasks : pc'[u] \in Critical => pc[u] \in Critical /\ u # t
    BY <1>6, <1>t DEF LaunchAborts, LaunchRegisters, TypeOK, Critical, Launching, Closing
  <2>3. present' = present /\ waiters' = waiters
    BY <1>6 DEF LaunchAborts, LaunchRegisters, envVars
  <2> QED BY <1>t, <1>w, <2>1, <2>2, <2>3, Leaves
<1> QED BY <1>1, <1>2, <1>3, <1>4, <1>5, <1>6 DEF LaunchCalls, LaunchSteps

\* A step of close_profile preserves the invariant.
LEMMA CloseSection ==
    ASSUME SectionInv, NEW t \in Tasks, CloseCalls(t) \/ CloseSelfCancels(t) \/ CloseSteps(t)
    PROVE  SectionInv'
<1>t. TypeOK /\ TypeOK' /\ HoldsBrowser' BY CloseType DEF SectionInv
<1>w. present => waiters[2] = <<>> BY DEF SectionInv, SecondLockUnused
<1>p. pc \in [Tasks -> PcValues] BY <1>t DEF TypeOK, PcValues
<1> USE DEF Goto, Return
<1>1. ASSUME NEW k \in Afters, CloseQueues(t, k) PROVE SectionInv'
  <2>1. present' => waiters'[2] = <<>> BY <1>1, EnqueueKeeps DEF CloseQueues, envVars
  <2>2. \A u \in Tasks : pc'[u] \in Critical => pc[u] \in Critical
    BY <1>1, <1>t DEF CloseQueues, TypeOK, Critical, Launching, Closing
  <2> QED BY <1>1, <1>t, <2>1, <2>2, NobodyEnters DEF CloseQueues, Enqueue, envVars
<1>2. ASSUME NEW k \in Afters, CloseActive(t, k) PROVE SectionInv'
  <2>1. PICK l \in Locks :
          /\ Acquires(t, l) /\ held' = Taken(l)
          /\ waiters' = LeaveQueue(Served(t, l), active)
    BY <1>2 DEF CloseActive
  <2>2. present' = present BY <1>2 DEF CloseActive, envVars
  <2> DEFINE f == [pc EXCEPT ![t] = "context"]
  <2>3. f \in [Tasks -> PcValues] /\ pc' = Unwatched(f, active)
    BY <1>2, <1>p DEF CloseActive, PcValues, Critical, Closing
  <2>4. \A u \in Tasks : f[u] \in Critical => u = t \/ pc[u] \in Critical
    BY <1>p
  <2> HIDE DEF f
  <2>5. \A u \in Tasks : pc'[u] \in Critical => u = t \/ pc[u] \in Critical
    BY <2>3, <2>4, UnwatchedType DEF Critical, Launching, Closing
  <2>6. Served(t, l) \in [Locks -> Seq(Tasks)] /\ (present => Served(t, l)[2] = <<>>)
    BY <1>t, <1>w, <2>1, ServedType
  <2>7. present' => waiters'[2] = <<>> BY <2>1, <2>2, <2>6, LeaveQueueType
  <2> QED BY <1>t, <2>1, <2>2, <2>5, <2>7, Enters
<1>3. ASSUME NEW k \in Afters, CloseLingering(t, k) PROVE SectionInv'
  <2>1. PICK l \in Locks : Acquires(t, l) /\ held' = Taken(l) /\ waiters' = Served(t, l)
    BY <1>3 DEF CloseLingering
  <2>2. present' = present BY <1>3 DEF CloseLingering, envVars
  <2>3. \A u \in Tasks : pc'[u] \in Critical => u = t \/ pc[u] \in Critical
    BY <1>3, <1>t DEF CloseLingering, TypeOK
  <2>4. present' => waiters'[2] = <<>> BY <1>t, <1>w, <2>1, <2>2, ServedType
  <2> QED BY <1>t, <2>1, <2>2, <2>3, <2>4, Enters
<1>4. ASSUME NEW k \in Afters, CloseNothing(t, k) \/ CloseSelfCancels(t) PROVE SectionInv'
  <2>1. PICK l \in Locks : Acquires(t, l) /\ waiters' = Served(t, l)
    BY <1>4 DEF CloseNothing, CloseSelfCancels
  <2>2. present' => present
    BY <1>4, <1>t DEF CloseNothing, CloseSelfCancels, DeleteAfter, envVars, TypeOK
  <2>3. \A u \in Tasks : pc'[u] \in Critical => pc[u] \in Critical
    BY <1>4, <1>t DEF CloseNothing, CloseSelfCancels, TypeOK, Critical, Launching, Closing
  <2>4. present' => waiters'[2] = <<>> BY <1>t, <1>w, <2>1, <2>2, ServedType
  <2> QED BY <1>t, <2>1, <2>2, <2>3, <2>4, PassesThrough
<1>5. CASE CloseContext(t)
  <2> DEFINE f == [pc EXCEPT ![t] = "reap"]
  <2>1. f \in [Tasks -> PcValues] /\ pc' \in {f, Unwatched(f, active)}
    BY <1>5, <1>p DEF CloseContext, PcValues, Critical, Closing
  <2>2. \A u \in Tasks : f[u] \in Critical => pc[u] \in Critical
    BY <1>5, <1>p DEF CloseContext, Critical, Closing
  <2> HIDE DEF f
  <2>3. \A u \in Tasks : pc'[u] \in Critical => pc[u] \in Critical
    BY <2>1, <2>2, UnwatchedType DEF Critical, Launching, Closing
  <2>4. present' = present /\ held' = held
    BY <1>5 DEF CloseContext, envVars
  <2>5. present' => waiters'[2] = <<>>
    BY <1>5, <1>t, <1>w, <2>4, LeaveQueueType DEF CloseContext, TypeOK
  <2> QED BY <1>t, <2>3, <2>4, <2>5, NobodyEnters
<1>6. CASE CloseSucceeds(t) \/ CloseFails(t)
  <2>1. pc[t] \in Critical /\ waiters' = waiters
    BY <1>6 DEF CloseSucceeds, CloseFails, Critical, Closing
  <2>2. \A u \in Tasks : pc'[u] \in Critical => pc[u] \in Critical /\ u # t
    BY <1>6, <1>t DEF CloseSucceeds, CloseFails, TypeOK, Critical, Launching, Closing
  <2>3. present' => present
    BY <1>6, <1>t DEF CloseSucceeds, CloseFails, DeleteAfter, TypeOK
  <2> QED BY <1>t, <1>w, <2>1, <2>2, <2>3, Leaves
<1>7. "none" \in Afters BY DEF Afters
<1> QED BY <1>1, <1>2, <1>3, <1>4, <1>5, <1>6, <1>7 DEF CloseCalls, CloseSteps

\* Every other step of a task preserves the invariant.
LEMMA OtherTaskSection ==
    ASSUME SectionInv, NEW t \in Tasks, WatcherQuits(t) \/ DeleteStopped(t) \/ CancelCall(t)
    PROVE  SectionInv'
<1>t. TypeOK /\ TypeOK' /\ HoldsBrowser' BY OtherTaskType DEF SectionInv
<1>w. present => waiters[2] = <<>> BY DEF SectionInv, SecondLockUnused
<1> USE DEF Goto, Return
<1>1. CASE WatcherQuits(t)
  <2>1. \A u \in Tasks : pc'[u] \in Critical => pc[u] \in Critical
    BY <1>1, <1>t DEF WatcherQuits, TypeOK, Critical, Launching, Closing
  <2> QED BY <1>1, <1>t, <1>w, <2>1, NobodyEnters DEF WatcherQuits, envVars, lockVars
<1>2. CASE DeleteStopped(t)
  BY <1>2, <1>t, NobodyEnters DEF DeleteStopped, lockVars, taskVars
<1>3. CASE CancelCall(t)
  <2>1. present' = present BY <1>3 DEF CancelCall, envVars
  <2>2. present' => waiters'[2] = <<>>
    <3>1. waiters' = waiters \/ waiters' = Dequeued(waiters, t) BY <1>3 DEF CancelCall
    <3>2. waiters[2] = <<>> => Dequeued(waiters, t)[2] = <<>>
      BY <1>t, DequeuedType DEF TypeOK
    <3> QED BY <1>w, <2>1, <3>1, <3>2
  <2>3. \A u \in Tasks : pc'[u] \in Critical => pc[u] \in Critical /\ u # t
    BY <1>3, <1>t DEF CancelCall, TypeOK, Critical, Launching, Closing
  <2>4. CASE pc[t] \in Waiting
    BY <1>3, <1>t, <2>1, <2>2, <2>3, <2>4, NobodyEnters DEF CancelCall
  <2>5. CASE pc[t] \in Critical
    BY <1>t, <2>1, <2>2, <2>3, <2>5, Leaves
  <2> QED BY <1>3, <2>4, <2>5 DEF CancelCall
<1> QED BY <1>1, <1>2, <1>3

\* What browsers do by themselves preserves the invariant.
LEMMA BrowserSection ==
    ASSUME SectionInv, NEW b \in Browsers, BrowserStep(b)
    PROVE  SectionInv'
<1>t. TypeOK /\ TypeOK' /\ HoldsBrowser' BY BrowserType DEF SectionInv
<1>w. present => waiters[2] = <<>> BY DEF SectionInv, SecondLockUnused
<1>p. pc \in [Tasks -> PcValues] BY <1>t DEF TypeOK, PcValues
<1>1. present' = present /\ held' = held
  BY DEF BrowserStep, Crash, ContextClosed, CdpFails, envVars, lockVars
<1>2. waiters' = waiters \/ waiters' = LeaveQueue(waiters, active)
  BY DEF BrowserStep, Crash, ContextClosed, CdpFails, lockVars
<1>3. present' => waiters'[2] = <<>>
  BY <1>t, <1>w, <1>1, <1>2, LeaveQueueType DEF TypeOK
<1> DEFINE f == SetupRaised(b)
<1>4. f \in [Tasks -> PcValues] /\ \A u \in Tasks : f[u] \in Critical => pc[u] \in Critical
  BY <1>p DEF SetupRaised, PcValues, Critical, Launching
<1>5. pc' \in {pc, f, Unwatched(pc, active), Unwatched(f, active)}
  BY DEF BrowserStep, Crash, ContextClosed, CdpFails, taskVars
<1> HIDE DEF f
<1>6. \A u \in Tasks : pc'[u] \in Critical => pc[u] \in Critical
  BY <1>p, <1>4, <1>5, UnwatchedType DEF Critical, Launching, Closing
<1> QED BY <1>t, <1>1, <1>3, <1>6, NobodyEnters

\* Every step preserves the invariant.
LEMMA SectionStep ==
    ASSUME SectionInv, [Next]_vars
    PROVE  SectionInv'
<1>1. CASE \E t \in Tasks : TaskStep(t)
  BY <1>1, LaunchSection, CloseSection, OtherTaskSection DEF TaskStep
<1>2. CASE \E b \in Browsers : BrowserStep(b)
  BY <1>2, BrowserSection
<1>3. CASE FailClosedEnds \/ UNCHANGED vars
  <2>1. TypeOK' /\ HoldsBrowser' BY TypeStep DEF SectionInv
  <2> QED BY <1>3, <2>1
      DEF FailClosedEnds, vars, envVars, lockVars, taskVars,
          SectionInv, MutualExclusion, LockCoversSection, SecondLockUnused
<1> QED BY <1>1, <1>2, <1>3 DEF Next

\* The initial state satisfies the invariant.
LEMMA SectionInit == Init => SectionInv
<1> SUFFICES ASSUME Init PROVE SectionInv
  OBVIOUS
<1>1. \A t \in Tasks : pc[t] \notin Critical BY DEF Init, Critical, Launching, Closing
<1>2. waiters[2] = <<>> BY DEF Init, Locks
<1> QED BY <1>1, <1>2, TypeInit DEF SectionInv, MutualExclusion, LockCoversSection, SecondLockUnused

\* As long as the profile is not deleted, at most one task is inside the launch or
\* close section of browser_manager, for any number of callers and browsers.
THEOREM LifecycleMutualExclusion == Spec => []MutualExclusion
<1>1. Init => SectionInv BY SectionInit
<1>2. SectionInv /\ [Next]_vars => SectionInv' BY SectionStep
<1>3. SectionInv => MutualExclusion BY DEF SectionInv
<1> QED BY <1>1, <1>2, <1>3, PTL DEF Spec

-----------------------------------------------------------------------------
(* The mark "launching" belongs to a running launch.                       *)

\* Cancelling a health task does not move a task that is not watching.
LEMMA UnwatchedSpares ==
    ASSUME NEW f \in [Tasks -> PcValues], NEW a, NEW u \in Tasks, pc[u] \notin Watching
    PROVE  Unwatched(f, a)[u] = f[u]
BY DEF Unwatched

\* The mark stays justified when it is not written and no launcher leaves.
LEMMA MarkKept ==
    ASSUME LaunchingIsHeld,
           state' # "launching" \/ (state' = state /\ \A u \in Tasks : pc[u] \in Launching => pc'[u] \in Launching)
    PROVE  LaunchingIsHeld'
BY DEF LaunchingIsHeld

\* Every step keeps the mark justified.
LEMMA MarkStep ==
    ASSUME TypeOK, LaunchingIsHeld, [Next]_vars
    PROVE  LaunchingIsHeld'
<1>p. pc \in [Tasks -> PcValues] BY DEF TypeOK, PcValues
<1>l. \A v \in Launching : v \notin Watching /\ v \notin Closing /\ v \notin Waiting /\ v # "idle"
  BY DEF Launching, Watching, Closing, Waiting
<1> USE DEF Goto
<1>1. ASSUME NEW t \in Tasks, LaunchCalls(t) \/ LaunchSteps(t) PROVE LaunchingIsHeld'
  <2>1. CASE LaunchAdmitted(t)
    BY <1>p, <2>1 DEF LaunchAdmitted, LaunchingIsHeld, Launching
  <2>2. CASE LaunchQueues(t)
    BY <1>p, <1>l, <2>2, MarkKept DEF LaunchQueues
  <2>3. CASE LaunchStarts(t)
    <3>1. state' = state /\ \A u \in Tasks : pc[u] \in Launching => pc'[u] \in Launching
      BY <1>p, <2>3 DEF LaunchStarts, Launching
    <3> QED BY <3>1, MarkKept
  <2>4. CASE LaunchSetUp(t) \/ LaunchRaises(t)
    <3>1. state' = state /\ \A u \in Tasks : pc[u] \in Launching => pc'[u] \in Launching
      BY <1>p, <2>4 DEF LaunchSetUp, LaunchRaises, Launching
    <3> QED BY <3>1, MarkKept
  <2>5. CASE \/ LaunchBlocked(t) \/ LaunchRefused(t) \/ LaunchAlreadyRunning(t)
             \/ LaunchAborts(t) \/ LaunchRegisters(t)
    BY <2>5, MarkKept
    DEF LaunchBlocked, LaunchRefused, LaunchAlreadyRunning, LaunchAborts, LaunchRegisters,
        CleanupOrphans
  <2> QED BY <1>1, <2>1, <2>2, <2>3, <2>4, <2>5 DEF LaunchCalls, LaunchSteps
<1>2. ASSUME NEW t \in Tasks, CloseCalls(t) \/ CloseSelfCancels(t) \/ CloseSteps(t)
      PROVE  LaunchingIsHeld'
  <2>1. ASSUME NEW k \in Afters, CloseQueues(t, k) PROVE LaunchingIsHeld'
    <3>1. pc[t] \notin Launching
      BY <2>1, <1>l DEF CloseQueues, MayClose, Launching
    <3> QED BY <1>p, <2>1, <3>1, MarkKept DEF CloseQueues
  <2>2. ASSUME NEW k \in Afters, CloseActive(t, k) \/ CloseLingering(t, k) \/ CloseNothing(t, k)
        PROVE  LaunchingIsHeld'
    BY <2>2, MarkKept DEF CloseActive, CloseLingering, CloseNothing, MarkStopped
  <2>3. CASE CloseSelfCancels(t) \/ CloseSucceeds(t) \/ CloseFails(t)
    BY <2>3, MarkKept DEF CloseSelfCancels, CloseSucceeds, CloseFails, MarkStopped
  <2>4. CASE CloseContext(t)
    <3> DEFINE f == [pc EXCEPT ![t] = "reap"]
    <3>1. /\ f \in [Tasks -> PcValues] /\ pc' \in {f, Unwatched(f, active)}
          /\ state' = state
      BY <1>p, <2>4 DEF CloseContext, PcValues, Critical, Closing
    <3>2. \A u \in Tasks : pc[u] \in Launching => f[u] = pc[u]
      BY <1>p, <2>4 DEF CloseContext, Launching
    <3> HIDE DEF f
    <3>3. \A u \in Tasks : pc[u] \in Launching => pc'[u] = pc[u]
      BY <1>l, <3>1, <3>2, UnwatchedSpares
    <3> QED BY <3>1, <3>3, MarkKept
  <2> QED BY <1>2, <2>1, <2>2, <2>3, <2>4 DEF CloseCalls, CloseSteps
<1>3. ASSUME NEW t \in Tasks, WatcherQuits(t) \/ DeleteStopped(t) \/ CancelCall(t)
      PROVE  LaunchingIsHeld'
  <2>1. CASE WatcherQuits(t)
    BY <1>p, <2>1, MarkKept DEF WatcherQuits, Launching
  <2>2. CASE DeleteStopped(t)
    BY <2>2, MarkKept DEF DeleteStopped, taskVars
  <2>3. CASE CancelCall(t)
    <3>1. CASE pc[t] \in Launching
      BY <1>l, <2>3, <3>1, MarkKept DEF CancelCall, LaunchMark
    <3>2. CASE pc[t] \notin Launching
      BY <1>p, <2>3, <3>2, MarkKept DEF CancelCall, LaunchMark
    <3> QED BY <3>1, <3>2
  <2> QED BY <1>3, <2>1, <2>2, <2>3
<1>4. ASSUME NEW b \in Browsers, BrowserStep(b) PROVE LaunchingIsHeld'
  <2> DEFINE f == SetupRaised(b)
  <2>1. f \in [Tasks -> PcValues] /\ \A u \in Tasks : pc[u] \in Launching => f[u] \in Launching
    BY <1>p DEF SetupRaised, PcValues, Critical, Launching
  <2>2. /\ pc' \in {pc, f, Unwatched(pc, active), Unwatched(f, active)}
        /\ state' \in {state, "error"}
    BY <1>4 DEF BrowserStep, Crash, ContextClosed, CdpFails, taskVars
  <2> HIDE DEF f
  <2>3. \A u \in Tasks : pc[u] \in Launching => pc'[u] \in Launching
    BY <1>p, <1>l, <2>1, <2>2, UnwatchedSpares
  <2> QED BY <2>2, <2>3, MarkKept
<1>5. CASE FailClosedEnds \/ UNCHANGED vars
  BY <1>5, MarkKept DEF FailClosedEnds, vars, taskVars
<1> QED BY <1>1, <1>2, <1>3, <1>4, <1>5 DEF Next, TaskStep

\* No launch, however it ends (refused, failed, cancelled, its lock lost to a delete),
\* leaves the profile marked "launching".
THEOREM LaunchMarkIsHeld == Spec => []LaunchingIsHeld
<1>1. Init => LaunchingIsHeld BY DEF Init, LaunchingIsHeld
<1>2. TypeOK /\ LaunchingIsHeld /\ [Next]_vars => LaunchingIsHeld' BY MarkStep
<1> QED BY <1>1, <1>2, TypeCorrect, PTL DEF Spec

-----------------------------------------------------------------------------
(* Cancelled health tasks.                                                 *)

\* The health task of the registered browser is outside the locked section.
CancelSparesHolder == active \in Browsers => pc[active] \notin Critical

\* Every step keeps a registered browser's health task out of the locked section.
LEMMA SpareStep ==
    ASSUME TypeOK, HoldsBrowser, CancelSparesHolder, [Next]_vars
    PROVE  CancelSparesHolder'
<1>p. pc \in [Tasks -> PcValues] BY DEF TypeOK, PcValues
<1>b. \A c \in Browsers : c \in Tasks /\ c \notin Clients /\ c # NoBrowser
  BY LifecycleAssumption DEF Tasks
<1> USE DEF Goto
<1>1. ASSUME NEW t \in Tasks, LaunchCalls(t) \/ LaunchSteps(t) PROVE CancelSparesHolder'
  <2>1. CASE LaunchRegisters(t)
    <3>1. active' = br[t] /\ br[t] \in Browsers /\ br[t] \in Tasks
      BY <1>b, <2>1 DEF LaunchRegisters, HoldsBrowser
    <3>2. pc'[br[t]] \in {"watching", "idle"}
      BY <1>p, <2>1, <3>1 DEF LaunchRegisters
    <3> QED BY <3>1, <3>2 DEF CancelSparesHolder, Critical, Launching, Closing
  <2>2. CASE LaunchAdmitted(t) \/ LaunchBlocked(t) \/ LaunchRefused(t) \/ LaunchAborts(t)
    BY <1>b, <2>2
    DEF LaunchAdmitted, LaunchBlocked, LaunchRefused, LaunchAborts, CleanupOrphans,
        CancelSparesHolder
  <2>3. CASE \/ LaunchQueues(t) \/ LaunchAlreadyRunning(t)
             \/ LaunchStarts(t) \/ LaunchSetUp(t) \/ LaunchRaises(t)
    <3>1. active' = active
      BY <2>3 DEF LaunchQueues, LaunchAlreadyRunning, LaunchStarts, LaunchSetUp, LaunchRaises
    <3>2. \A u \in Tasks : pc'[u] \in Critical => pc[u] \in Critical
      BY <1>p, <2>3
      DEF LaunchQueues, LaunchAlreadyRunning, LaunchStarts, LaunchSetUp, LaunchRaises,
          Critical, Launching, Closing
    <3> QED BY <1>b, <3>1, <3>2 DEF CancelSparesHolder
  <2> QED BY <1>1, <2>1, <2>2, <2>3 DEF LaunchCalls, LaunchSteps
<1>2. ASSUME NEW t \in Tasks, CloseCalls(t) \/ CloseSelfCancels(t) \/ CloseSteps(t)
      PROVE  CancelSparesHolder'
  <2>1. ASSUME NEW k \in Afters, CloseActive(t, k) PROVE CancelSparesHolder'
    <3> DEFINE f == [pc EXCEPT ![t] = "context"]
    <3>1. f \in [Tasks -> PcValues] /\ pc' = Unwatched(f, active) /\ active' = active /\ active # t
      BY <1>p, <2>1 DEF CloseActive, PcValues, Critical, Closing
    <3>2. \A u \in Tasks : u # t => f[u] = pc[u] BY <1>p
    <3> HIDE DEF f
    <3>3. \A u \in Tasks : u # t => pc'[u] \in {pc[u], "idle"}
      BY <3>1, <3>2, UnwatchedType
    <3> QED BY <1>b, <3>1, <3>3 DEF CancelSparesHolder, Critical, Launching, Closing
  <2>2. ASSUME NEW k \in Afters, CloseLingering(t, k) \/ CloseNothing(t, k)
        PROVE  CancelSparesHolder'
    BY <1>b, <2>2 DEF CloseLingering, CloseNothing, CancelSparesHolder
  <2>3. ASSUME NEW k \in Afters,
               CloseQueues(t, k) \/ CloseSelfCancels(t) \/ CloseSucceeds(t) \/ CloseFails(t)
        PROVE  CancelSparesHolder'
    <3>1. active' \in {active, NoBrowser}
      BY <2>3 DEF CloseQueues, CloseSelfCancels, CloseSucceeds, CloseFails
    <3>2. \A u \in Tasks : pc'[u] \in Critical => pc[u] \in Critical
      BY <1>p, <2>3
      DEF CloseQueues, CloseSelfCancels, CloseSucceeds, CloseFails, Critical, Launching, Closing
    <3> QED BY <1>b, <3>1, <3>2 DEF CancelSparesHolder
  <2>4. CASE CloseContext(t)
    <3> DEFINE f == [pc EXCEPT ![t] = "reap"]
    <3>1. /\ f \in [Tasks -> PcValues] /\ pc' \in {f, Unwatched(f, active)}
          /\ active' \in {active, NoBrowser}
      BY <1>p, <2>4 DEF CloseContext, PcValues, Critical, Closing
    <3>2. \A u \in Tasks : f[u] \in Critical => pc[u] \in Critical
      BY <1>p, <2>4 DEF CloseContext, Critical, Closing
    <3> HIDE DEF f
    <3>3. \A u \in Tasks : pc'[u] \in Critical => pc[u] \in Critical
      BY <3>1, <3>2, UnwatchedType DEF Critical, Launching, Closing
    <3> QED BY <1>b, <3>1, <3>3 DEF CancelSparesHolder
  <2>5. "none" \in Afters BY DEF Afters
  <2> QED BY <1>2, <2>1, <2>2, <2>3, <2>4, <2>5 DEF CloseCalls, CloseSteps
<1>3. ASSUME NEW t \in Tasks, WatcherQuits(t) \/ DeleteStopped(t) \/ CancelCall(t)
      PROVE  CancelSparesHolder'
  <2>1. active' = active BY <1>3 DEF WatcherQuits, DeleteStopped, CancelCall
  <2>2. \A u \in Tasks : pc'[u] \in Critical => pc[u] \in Critical
    BY <1>p, <1>3
    DEF WatcherQuits, DeleteStopped, CancelCall, taskVars, Critical, Launching, Closing
  <2> QED BY <1>b, <2>1, <2>2 DEF CancelSparesHolder
<1>4. ASSUME NEW b \in Browsers, BrowserStep(b) PROVE CancelSparesHolder'
  <2> DEFINE f == SetupRaised(b)
  <2>1. f \in [Tasks -> PcValues] /\ \A u \in Tasks : f[u] \in Critical => pc[u] \in Critical
    BY <1>p DEF SetupRaised, PcValues, Critical, Launching
  <2>2. /\ pc' \in {pc, f, Unwatched(pc, active), Unwatched(f, active)}
        /\ active' \in {active, NoBrowser}
    BY <1>4 DEF BrowserStep, Crash, ContextClosed, CdpFails, taskVars
  <2> HIDE DEF f
  <2>3. \A u \in Tasks : pc'[u] \in Critical => pc[u] \in Critical
    BY <1>p, <2>1, <2>2, UnwatchedType DEF Critical, Launching, Closing
  <2> QED BY <1>b, <2>2, <2>3 DEF CancelSparesHolder
<1>5. CASE FailClosedEnds \/ UNCHANGED vars
  BY <1>5 DEF FailClosedEnds, vars, taskVars, CancelSparesHolder
<1> QED BY <1>1, <1>2, <1>3, <1>4, <1>5 DEF Next, TaskStep

\* The health task of a registered browser is never inside the locked section, so
\* cancelling it (close, fail-closed, context close) interrupts no holder but itself.
THEOREM CancelNeverHitsHolder == Spec => []CancelSparesHolder
<1>1. Init => CancelSparesHolder
  BY LifecycleAssumption DEF Init, CancelSparesHolder
<1>2. TypeOK /\ HoldsBrowser /\ CancelSparesHolder /\ [Next]_vars => CancelSparesHolder'
  BY SpareStep
<1> QED BY <1>1, <1>2, TypeCorrect, PTL DEF Spec

-----------------------------------------------------------------------------
(* The directory of a running browser.  The wipe and the delete look only  *)
(* at their own browser, so the invariant says that, while the profile     *)
(* exists, the browser a task has in hand is the only one there is.        *)

InHand == {"setup", "goto", "context", "reap"}

DirectoryInv ==
    /\ DirectoryInUse
    /\ present =>
        /\ active # NoBrowser => proc \in {NoBrowser, active}
        /\ \A t \in Tasks : pc[t] \in Launching => active = NoBrowser
        /\ \A t \in Tasks : pc[t] \in InHand => proc \in {NoBrowser, br[t]}

\* A step that starts no process, registers nothing and takes no browser in hand
\* preserves the invariant when it removes the directory only of a stopped browser.
LEMMA DirectoryKept ==
    ASSUME DirectoryInv,
           present' => present,
           proc' \in {proc, NoBrowser}, active' \in {active, NoBrowser},
           dir' = dir \/ proc' = NoBrowser,
           \A u \in Tasks : pc'[u] \in Launching => pc[u] \in Launching,
           \A u \in Tasks : pc'[u] \in InHand => pc[u] \in InHand /\ br'[u] = br[u]
    PROVE  DirectoryInv'
BY DEF DirectoryInv, DirectoryInUse

\* A step of launch_profile preserves the invariant.
LEMMA LaunchDirectory ==
    ASSUME SectionInv, DirectoryInv, NEW t \in Tasks, LaunchCalls(t) \/ LaunchSteps(t)
    PROVE  DirectoryInv'
<1>t. TypeOK BY DEF SectionInv
<1> USE DEF Goto, Return
<1>1. CASE LaunchBlocked(t)
  <2>1. proc' \in {proc, NoBrowser} /\ active' = NoBrowser
    BY <1>1 DEF LaunchBlocked, CleanupOrphans, AfterKill
  <2> QED BY <1>1, <2>1, DirectoryKept DEF LaunchBlocked, envVars, taskVars
<1>2. CASE LaunchQueues(t) \/ LaunchAlreadyRunning(t) \/ LaunchRefused(t)
  <2>1. /\ proc' \in {proc, NoBrowser} /\ active' \in {active, NoBrowser}
        /\ present' = present /\ dir' = dir /\ br' = br
    BY <1>2
    DEF LaunchQueues, LaunchAlreadyRunning, LaunchRefused, CleanupOrphans, AfterKill, envVars
  <2>2. \A u \in Tasks : pc'[u] \in Launching \cup InHand => pc'[u] = pc[u]
    BY <1>2, <1>t
    DEF LaunchQueues, LaunchAlreadyRunning, LaunchRefused, TypeOK, Launching, InHand
  <2> QED BY <2>1, <2>2, DirectoryKept
<1>3. CASE LaunchAdmitted(t)
  <2>1. /\ active = NoBrowser /\ active' = NoBrowser /\ proc' = proc
        /\ present' = present /\ dir' = dir /\ br' = br
    BY <1>3 DEF LaunchAdmitted, envVars
  <2>2. \A u \in Tasks : pc'[u] \in InHand => pc'[u] = pc[u]
    BY <1>3, <1>t DEF LaunchAdmitted, TypeOK, InHand
  <2> QED BY <2>1, <2>2 DEF DirectoryInv, DirectoryInUse
<1>4. CASE LaunchStarts(t)
  <2>1. PICK b \in Browsers :
          /\ pc[t] = "config" /\ pc[b] = "unborn"
          /\ pc' = [pc EXCEPT ![t] = "setup", ![b] = "idle"]
          /\ br' = [br EXCEPT ![t] = b]
          /\ proc' = b /\ dir' = TRUE
          /\ present' = present /\ active' = active
    BY <1>4 DEF LaunchStarts
  <2>2. b \in Tasks /\ b # t BY <2>1 DEF Tasks
  <2>3. present => \A u \in Tasks : pc[u] \in Critical => u = t
    BY <2>1 DEF SectionInv, MutualExclusion, Critical, Launching
  <2>4. present => active = NoBrowser
    BY <2>1 DEF DirectoryInv, Launching
  <2>5. present => \A u \in Tasks : pc'[u] \in InHand \cup Launching => u = t
    BY <1>t, <2>1, <2>2, <2>3 DEF TypeOK, InHand, Critical, Launching, Closing
  <2>6. br'[t] = b BY <1>t, <2>1 DEF TypeOK
  <2> QED BY <2>1, <2>4, <2>5, <2>6 DEF DirectoryInv, DirectoryInUse
<1>5. CASE LaunchSetUp(t) \/ LaunchRaises(t)
  <2>1. /\ proc' = proc /\ active' = active /\ present' = present /\ dir' = dir /\ br' = br
    BY <1>5 DEF LaunchSetUp, LaunchRaises, envVars
  <2>2. \A u \in Tasks : /\ pc'[u] \in Launching => pc[u] \in Launching
                         /\ pc'[u] \in InHand => pc[u] \in InHand
    BY <1>5, <1>t DEF LaunchSetUp, LaunchRaises, TypeOK, Launching, InHand
  <2> QED BY <2>1, <2>2, DirectoryKept
<1>6. CASE LaunchAborts(t)
  <2>1. /\ proc' \in {proc, NoBrowser} /\ active' = NoBrowser
        /\ present' = present /\ dir' = dir
    BY <1>6 DEF LaunchAborts, AfterKill, envVars
  <2>2. \A u \in Tasks : pc'[u] \in Launching \cup InHand => pc'[u] = pc[u] /\ u # t
    BY <1>6, <1>t DEF LaunchAborts, TypeOK, Launching, InHand
  <2>3. \A u \in Tasks : u # t => br'[u] = br[u]
    BY <1>6, <1>t DEF LaunchAborts, TypeOK
  <2> QED BY <2>1, <2>2, <2>3, DirectoryKept
<1>7. CASE LaunchRegisters(t)
  <2>1. /\ pc[t] = "goto" /\ active' = br[t] /\ proc' = proc
        /\ present' = present /\ dir' = dir
    BY <1>7 DEF LaunchRegisters, envVars
  <2>2. present => proc \in {NoBrowser, br[t]}
    BY <2>1 DEF DirectoryInv, InHand
  <2>3. present => \A u \in Tasks : pc[u] \in Critical => u = t
    BY <2>1 DEF SectionInv, MutualExclusion, Critical, Launching
  <2>4. present => \A u \in Tasks : pc'[u] \notin Launching \cup InHand
    BY <1>7, <1>t, <2>3
    DEF LaunchRegisters, TypeOK, Launching, InHand, Critical, Closing
  <2> QED BY <2>1, <2>2, <2>4 DEF DirectoryInv, DirectoryInUse
<1> QED BY <1>1, <1>2, <1>3, <1>4, <1>5, <1>6, <1>7 DEF LaunchCalls, LaunchSteps

\* A step of close_profile preserves the invariant.
LEMMA CloseDirectory ==
    ASSUME SectionInv, DirectoryInv, NEW t \in Tasks,
           CloseCalls(t) \/ CloseSelfCancels(t) \/ CloseSteps(t)
    PROVE  DirectoryInv'
<1>t. TypeOK BY DEF SectionInv
<1>p. pc \in [Tasks -> PcValues] BY <1>t DEF TypeOK, PcValues
<1> USE DEF Goto, Return
<1>1. ASSUME NEW k \in Afters, CloseActive(t, k) PROVE DirectoryInv'
  <2> DEFINE f == [pc EXCEPT ![t] = "context"]
  <2>1. /\ f \in [Tasks -> PcValues] /\ pc' = Unwatched(f, active)
        /\ active' = active /\ active # NoBrowser /\ proc' = proc
        /\ present' = present /\ dir' = dir /\ br' = [br EXCEPT ![t] = active]
    BY <1>1, <1>p DEF CloseActive, PcValues, Critical, Closing, envVars
  <2>2. PICK l \in Locks : Acquires(t, l) BY <1>1 DEF CloseActive
  <2>3. present => \A u \in Tasks : pc[u] \notin Critical
    BY <2>2, AcquiredMeansEmpty
  <2>4. \A u \in Tasks : u # t => f[u] = pc[u] BY <1>p
  <2>5. f[t] = "context" BY <1>p
  <2> HIDE DEF f
  <2>6. present => \A u \in Tasks : u # t => pc'[u] \notin Launching \cup InHand
    BY <2>1, <2>3, <2>4, UnwatchedType DEF Critical, Launching, Closing, InHand
  <2>7. pc'[t] \notin Launching
    BY <2>1, <2>5, UnwatchedType DEF Launching
  <2>8. br'[t] = active BY <1>t, <2>1 DEF TypeOK
  <2> QED BY <2>1, <2>6, <2>7, <2>8 DEF DirectoryInv, DirectoryInUse
<1>2. ASSUME NEW k \in Afters, CloseQueues(t, k) \/ CloseLingering(t, k)
      PROVE  DirectoryInv'
  <2>1. /\ proc' \in {proc, NoBrowser} /\ active' = active
        /\ present' = present /\ dir' = dir /\ br' = br
    BY <1>2 DEF CloseQueues, CloseLingering, AfterKill, envVars
  <2>2. \A u \in Tasks : pc'[u] \in Launching \cup InHand => pc'[u] = pc[u]
    BY <1>2, <1>t DEF CloseQueues, CloseLingering, TypeOK, Launching, InHand
  <2> QED BY <2>1, <2>2, DirectoryKept
<1>3. ASSUME NEW k \in Afters,
             \/ CloseNothing(t, k) \/ CloseSelfCancels(t)
             \/ CloseSucceeds(t) \/ CloseFails(t)
      PROVE  DirectoryInv'
  <2>1. /\ proc' \in {proc, NoBrowser} /\ active' \in {active, NoBrowser}
        /\ present' => present
    BY <1>3, <1>t
    DEF CloseNothing, CloseSelfCancels, CloseSucceeds, CloseFails, DeleteAfter, envVars, TypeOK
  <2>2. \A u \in Tasks : pc'[u] \in Launching \cup InHand => pc'[u] = pc[u] /\ (u # t \/ br' = br)
    BY <1>3, <1>t
    DEF CloseNothing, CloseSelfCancels, CloseSucceeds, CloseFails, TypeOK, Launching, InHand
  <2>3. \A u \in Tasks : u # t => br'[u] = br[u]
    BY <1>3, <1>t DEF CloseNothing, CloseSelfCancels, CloseSucceeds, CloseFails, TypeOK
  <2>4. dir' = dir \/ proc' = NoBrowser
    <3>1. CASE CloseNothing(t, k) \/ CloseFails(t) \/ CloseSelfCancels(t)
      BY <1>t, <3>1 DEF CloseNothing, CloseFails, CloseSelfCancels, DeleteAfter, envVars, TypeOK
    <3>2. CASE CloseSucceeds(t)
      <4>1. CASE present
        <5>1. pc[t] = "reap" => proc \in {NoBrowser, br[t]}
          BY <4>1 DEF DirectoryInv, InHand
        <5> QED BY <3>2, <5>1 DEF CloseSucceeds
      <4>2. CASE ~present
        BY <1>t, <3>2, <4>2 DEF CloseSucceeds, DeleteAfter, Wiped, TypeOK
      <4> QED BY <4>1, <4>2
    <3> QED BY <1>3, <3>1, <3>2
  <2> QED BY <2>1, <2>2, <2>3, <2>4, DirectoryKept
<1>4. CASE CloseContext(t)
  <2> DEFINE f == [pc EXCEPT ![t] = "reap"]
  <2>1. /\ f \in [Tasks -> PcValues] /\ pc' \in {f, Unwatched(f, active)}
        /\ proc' \in {proc, NoBrowser} /\ active' \in {active, NoBrowser}
        /\ present' = present /\ dir' = dir /\ br' = br
    BY <1>4, <1>p DEF CloseContext, PcValues, Critical, Closing, envVars
  <2>2. \A u \in Tasks : /\ f[u] \in Launching => pc[u] \in Launching
                         /\ f[u] \in InHand => pc[u] \in InHand
    BY <1>4, <1>p DEF CloseContext, Launching, InHand
  <2> HIDE DEF f
  <2>3. \A u \in Tasks : /\ pc'[u] \in Launching => pc[u] \in Launching
                         /\ pc'[u] \in InHand => pc[u] \in InHand
    BY <2>1, <2>2, UnwatchedType DEF Launching, InHand
  <2> QED BY <2>1, <2>3, DirectoryKept
<1>5. "none" \in Afters BY DEF Afters
<1> QED BY <1>1, <1>2, <1>3, <1>4, <1>5 DEF CloseCalls, CloseSteps

\* Every other step preserves the invariant.
LEMMA OtherDirectory ==
    ASSUME SectionInv, DirectoryInv,
           \/ \E t \in Tasks : WatcherQuits(t) \/ DeleteStopped(t) \/ CancelCall(t)
           \/ \E b \in Browsers : BrowserStep(b)
           \/ FailClosedEnds \/ UNCHANGED vars
    PROVE  DirectoryInv'
<1>t. TypeOK BY DEF SectionInv
<1>p. pc \in [Tasks -> PcValues] BY <1>t DEF TypeOK, PcValues
<1> USE DEF Goto, Return
<1>1. ASSUME NEW t \in Tasks, WatcherQuits(t) \/ DeleteStopped(t) \/ CancelCall(t)
      PROVE  DirectoryInv'
  <2>1. /\ proc' = proc /\ active' = active /\ (present' => present)
        /\ dir' = dir \/ proc' = NoBrowser
    BY <1>1 DEF WatcherQuits, DeleteStopped, CancelCall, envVars
  <2>2. \A u \in Tasks : pc'[u] \in Launching \cup InHand => pc'[u] = pc[u] /\ (u # t \/ br' = br)
    BY <1>1, <1>t DEF WatcherQuits, DeleteStopped, CancelCall, taskVars, TypeOK, Launching, InHand
  <2>3. \A u \in Tasks : u # t => br'[u] = br[u]
    BY <1>1, <1>t DEF WatcherQuits, DeleteStopped, CancelCall, taskVars, TypeOK
  <2> QED BY <2>1, <2>2, <2>3, DirectoryKept
<1>2. ASSUME NEW b \in Browsers, BrowserStep(b) PROVE DirectoryInv'
  <2> DEFINE f == SetupRaised(b)
  <2>1. /\ f \in [Tasks -> PcValues]
        /\ \A u \in Tasks : /\ f[u] \in Launching => pc[u] \in Launching
                            /\ f[u] \in InHand => pc[u] \in InHand
    BY <1>p DEF SetupRaised, PcValues, Critical, Launching, InHand
  <2>2. /\ pc' \in {pc, f, Unwatched(pc, active), Unwatched(f, active)}
        /\ proc' \in {proc, NoBrowser} /\ active' \in {active, NoBrowser}
        /\ present' = present /\ dir' = dir /\ br' = br
    BY <1>2 DEF BrowserStep, Crash, ContextClosed, CdpFails, taskVars, envVars
  <2> HIDE DEF f
  <2>3. \A u \in Tasks : /\ pc'[u] \in Launching => pc[u] \in Launching
                         /\ pc'[u] \in InHand => pc[u] \in InHand
    BY <1>p, <2>1, <2>2, UnwatchedType DEF Launching, InHand
  <2> QED BY <2>2, <2>3, DirectoryKept
<1>3. CASE FailClosedEnds
  BY <1>3, DirectoryKept DEF FailClosedEnds, AfterKill, envVars, taskVars
<1>4. CASE UNCHANGED vars
  BY <1>4, DirectoryKept DEF vars, envVars, taskVars
<1> QED BY <1>1, <1>2, <1>3, <1>4

\* Neither the ephemeral wipe nor a delete ever removes the directory under a running
\* browser, for any number of callers, deletes and health tasks.
THEOREM DirectoryNeverPulled == Spec => []DirectoryInUse
<1>1. Init => SectionInv /\ DirectoryInv
  BY SectionInit
  DEF Init, DirectoryInv, DirectoryInUse, Launching, InHand
<1>2. SectionInv /\ DirectoryInv /\ [Next]_vars => (SectionInv /\ DirectoryInv)'
  BY SectionStep, LaunchDirectory, CloseDirectory, OtherDirectory DEF Next, TaskStep
<1>3. DirectoryInv => DirectoryInUse BY DEF DirectoryInv
<1> QED BY <1>1, <1>2, <1>3, PTL DEF Spec

-----------------------------------------------------------------------------
(***************************************************************************)
(* ProfileLifecycle implements BrowserSlot, and what the slot promises     *)
(* therefore holds of the life cycle.                                      *)
(***************************************************************************)

(* The inductive invariant.  A launch excludes every other one also after  *)
(* the profile and its lock were deleted: it keeps the first lock object,  *)
(* which nobody can release any more, and no launch queues on the second.  *)

OneLauncher == \A t, u \in Tasks : pc[t] \in Launching /\ pc[u] \in Launching => t = u

LaunchHolds == \A t \in Tasks : pc[t] \in Launching => held[1]

NoLaunchIn(q, p) == \A i \in 1..Len(q) : p[q[i]] # "wantLaunch"

NoLaunchOnSecond == NoLaunchIn(waiters[2], pc)

LaunchClears == \A t \in Tasks : pc[t] \in Launching => active = NoBrowser

\* What a launch holds was started, and no other browser runs beside it.
LaunchOwns == \A t \in Tasks : pc[t] \in {"setup", "goto"} =>
    br[t] \in Started /\ proc \in {NoBrowser, br[t]}

SlotInv ==
    /\ SectionInv /\ OneLauncher /\ LaunchHolds /\ NoLaunchOnSecond
    /\ LaunchClears /\ LaunchOwns

-----------------------------------------------------------------------------
(* Queues: what leaves them brings nothing new.                            *)

Subqueue(q, r) == \A i \in 1..Len(q) : \E j \in 1..Len(r) : q[i] = r[j]

\* Removing a task from a queue adds nobody.
LEMMA WithoutSubqueue ==
    ASSUME NEW q \in Seq(Tasks), NEW t
    PROVE  Subqueue(Without(q, t), q)
<1>1. CASE \E i \in 1..Len(q) : q[i] = t
  <2> DEFINE i == CHOOSE j \in 1..Len(q) : q[j] = t
             a == SubSeq(q, 1, i - 1)
             b == SubSeq(q, i + 1, Len(q))
  <2>1. i \in 1..Len(q) BY <1>1
  <2>2. Without(q, t) = a \o b BY <1>1 DEF Without
  <2> HIDE DEF i
  <2>3. a \in Seq(Tasks) /\ Len(a) = i - 1 /\ \A k \in 1..(i - 1) : a[k] = q[k]
    BY <2>1
  <2>4. b \in Seq(Tasks) /\ Len(b) = Len(q) - i /\ \A k \in 1..(Len(q) - i) : b[k] = q[k + i]
    BY <2>1
  <2> HIDE DEF a, b
  <2>5. ASSUME NEW k \in 1..Len(a \o b) PROVE \E j \in 1..Len(q) : (a \o b)[k] = q[j]
    <3>1. CASE k <= i - 1
      <4>1. (a \o b)[k] = a[k] BY <2>1, <2>3, <2>4, <3>1
      <4> QED BY <2>1, <2>3, <3>1, <4>1
    <3>2. CASE ~(k <= i - 1)
      <4>1. (a \o b)[k] = b[k - (i - 1)] /\ k - (i - 1) \in 1..(Len(q) - i)
        BY <2>1, <2>3, <2>4, <3>2
      <4>2. b[k - (i - 1)] = q[k + 1] BY <2>1, <2>4, <4>1
      <4> QED BY <2>1, <2>3, <2>4, <4>1, <4>2
    <3> QED BY <3>1, <3>2
  <2> QED BY <2>2, <2>5 DEF Subqueue
<1>2. CASE ~\E i \in 1..Len(q) : q[i] = t
  BY <1>2 DEF Without, Subqueue
<1> QED BY <1>1, <1>2

\* Nor does cancelling a wait, or a health task that waits.
LEMMA DequeuedSubqueue ==
    ASSUME NEW w \in [Locks -> Seq(Tasks)], NEW b
    PROVE  /\ Subqueue(Dequeued(w, b)[2], w[2])
           /\ Subqueue(LeaveQueue(w, b)[2], w[2])
<1>1. 2 \in Locks BY DEF Locks
<1>2. Dequeued(w, b)[2] = Without(w[2], b) BY <1>1 DEF Dequeued
<1>3. Subqueue(w[2], w[2]) BY DEF Subqueue
<1> QED BY <1>1, <1>2, <1>3, WithoutSubqueue DEF LeaveQueue

\* Serving the head of a queue adds nobody.
LEMMA ServedSubqueue ==
    ASSUME TypeOK, NEW t \in Tasks, NEW l \in Locks, Acquires(t, l)
    PROVE  Subqueue(Served(t, l)[2], waiters[2])
<1>1. waiters \in [Locks -> Seq(Tasks)] /\ 2 \in Locks BY DEF TypeOK, Locks
<1>2. CASE pc[t] \in Waiting /\ l = 2
  <2>1. waiters[2] \in Seq(Tasks) /\ waiters[2] # <<>> BY <1>1, <1>2 DEF Acquires
  <2>2. Served(t, l)[2] = Tail(waiters[2]) BY <1>1, <1>2 DEF Served
  <2>3. Len(Tail(waiters[2])) = Len(waiters[2]) - 1
        /\ \A i \in 1..Len(Tail(waiters[2])) : Tail(waiters[2])[i] = waiters[2][i + 1]
    BY <2>1
  <2> QED BY <2>1, <2>2, <2>3 DEF Subqueue
<1>3. CASE ~(pc[t] \in Waiting /\ l = 2)
  <2>1. Served(t, l)[2] = waiters[2] BY <1>1, <1>3 DEF Served
  <2> QED BY <2>1 DEF Subqueue
<1> QED BY <1>2, <1>3

-----------------------------------------------------------------------------
(* Kinds of steps.                                                         *)

\* Nobody begins a launch, starts or registers a browser.
Quiet ==
    /\ \A u \in Tasks : pc'[u] \in Launching => pc[u] \in Launching
    /\ \A u \in Tasks : pc'[u] \in {"setup", "goto"} =>
          pc[u] \in {"setup", "goto"} /\ br'[u] = br[u]
    /\ \A u \in Tasks : pc'[u] = "unborn" <=> pc[u] = "unborn"
    /\ active' \in {active, NoBrowser} /\ proc' \in {proc, NoBrowser}

\* Nobody queues for a launch.
NoNewLaunch == \A u \in Tasks : pc'[u] = "wantLaunch" => pc[u] = "wantLaunch"

\* Such a step preserves the invariant, and is a loss for the slot.
LEMMA QuietKeeps ==
    ASSUME SlotInv, SectionInv', Quiet,
           (\E u \in Tasks : pc'[u] \in Launching) => held'[1],
           NoLaunchOnSecond'
    PROVE  SlotInv' /\ Slot!Lose
<1>1. Started' = Started BY DEF Quiet, Started, Tasks
<1>2. OneLauncher' /\ LaunchHolds' BY DEF SlotInv, Quiet, OneLauncher, LaunchHolds
<1>3. LaunchClears' BY DEF SlotInv, Quiet, LaunchClears
<1>4. LaunchOwns' BY <1>1 DEF SlotInv, Quiet, LaunchOwns
<1> QED BY <1>1, <1>2, <1>3, <1>4 DEF SlotInv, Quiet, Slot!Lose

\* The second queue stays free of launches when it only shrinks.
LEMMA SecondShrinks ==
    ASSUME SlotInv, TypeOK', NoNewLaunch, Subqueue(waiters'[2], waiters[2])
    PROVE  NoLaunchOnSecond'
<1>1. 2 \in Locks BY DEF Locks
<1>2. waiters[2] \in Seq(Tasks) BY <1>1 DEF SlotInv, SectionInv, TypeOK
<1>3. \A j \in 1..Len(waiters[2]) : waiters[2][j] \in Tasks BY <1>2
<1> QED BY <1>3 DEF SlotInv, NoLaunchOnSecond, NoLaunchIn, NoNewLaunch, Subqueue

\* Whoever is inside and leaves takes nobody's lock away.
LEMMA ReleaseKeeps ==
    ASSUME SlotInv, NEW t \in Tasks, pc[t] \in Critical, held' = Released(held),
           \A u \in Tasks : pc'[u] \in Launching => pc[u] \in Launching /\ u # t
    PROVE  (\E u \in Tasks : pc'[u] \in Launching) => held'[1]
<1>1. CASE present
  BY <1>1 DEF SlotInv, SectionInv, MutualExclusion, Critical
<1>2. CASE ~present
  <2>1. held'[1] = held[1]
    BY <1>2 DEF Released, CurrentLock, SlotInv, SectionInv, TypeOK, Locks
  <2> QED BY <2>1 DEF SlotInv, LaunchHolds
<1> QED BY <1>1, <1>2

\* Nor does a task that gets the lock, whether it gives it back at once or not.
LEMMA PassKeeps ==
    ASSUME SlotInv, NEW t \in Tasks, NEW l \in Locks, Acquires(t, l),
           held' \in {Taken(l), Released(Taken(l))},
           \A u \in Tasks : pc'[u] \in Launching => pc[u] \in Launching
    PROVE  (\E u \in Tasks : pc'[u] \in Launching) => held'[1]
<1>t. held \in [Locks -> BOOLEAN] /\ 1 \in Locks BY DEF SlotInv, SectionInv, TypeOK, Locks
<1>1. CASE present
  <2>1. \A u \in Tasks : pc[u] \notin Critical BY <1>1, AcquiredMeansEmpty DEF SlotInv
  <2> QED BY <2>1 DEF Critical
<1>2. CASE ~present
  <2>1. held[1] => held'[1]
    BY <1>2, <1>t DEF Released, Taken, CurrentLock, Locks
  <2> QED BY <2>1 DEF SlotInv, LaunchHolds
<1> QED BY <1>1, <1>2

-----------------------------------------------------------------------------
(* The steps.                                                              *)

\* A step of launch_profile preserves the invariant and is a step of the slot.
LEMMA LaunchSlot ==
    ASSUME SlotInv, NEW t \in Tasks, LaunchCalls(t) \/ LaunchSteps(t)
    PROVE  SlotInv' /\ Slot!Next
<1>s. SectionInv' BY LaunchSection DEF SlotInv
<1>t. TypeOK /\ TypeOK' BY <1>s DEF SlotInv, SectionInv
<1>q. \A w : Subqueue(w, w) BY DEF Subqueue
<1> USE DEF Goto, Return
<1>1. CASE LaunchBlocked(t)
  <2>1. Quiet /\ NoNewLaunch
    BY <1>1, <1>t DEF LaunchBlocked, CleanupOrphans, AfterKill, taskVars, Quiet, NoNewLaunch
  <2>2. held' = held /\ waiters' = waiters BY <1>1 DEF LaunchBlocked, lockVars
  <2>3. NoLaunchOnSecond' BY <1>t, <1>q, <2>1, <2>2, SecondShrinks
  <2>4. (\E u \in Tasks : pc'[u] \in Launching) => held'[1]
    BY <2>1, <2>2 DEF Quiet, SlotInv, LaunchHolds
  <2> QED BY <1>s, <2>1, <2>3, <2>4, QuietKeeps DEF Slot!Next
<1>2. CASE LaunchQueues(t)
  <2>1. Quiet
    BY <1>2, <1>t DEF LaunchQueues, Quiet, TypeOK, Launching
  <2>2. held' = held BY <1>2 DEF LaunchQueues, Enqueue
  <2>3. present BY <1>2 DEF LaunchQueues, MayLaunch, Waiting
  <2>4. waiters'[2] = <<>> BY <1>2, <2>3, EnqueueKeeps DEF LaunchQueues, SlotInv
  <2>5. NoLaunchOnSecond' BY <2>4 DEF NoLaunchOnSecond, NoLaunchIn
  <2>6. (\E u \in Tasks : pc'[u] \in Launching) => held'[1]
    BY <2>1, <2>2 DEF Quiet, SlotInv, LaunchHolds
  <2> QED BY <1>s, <2>1, <2>5, <2>6, QuietKeeps DEF Slot!Next
<1>3. CASE LaunchRefused(t) \/ LaunchAlreadyRunning(t)
  <2>1. PICK l \in Locks :
          Acquires(t, l) /\ waiters' = Served(t, l) /\ held' = Released(Taken(l))
    BY <1>3 DEF LaunchRefused, LaunchAlreadyRunning
  <2>2. pc[t] # "unborn" BY <1>3 DEF LaunchRefused, LaunchAlreadyRunning, MayLaunch
  <2>3. Quiet /\ NoNewLaunch
    BY <1>3, <1>t, <2>2
    DEF LaunchRefused, LaunchAlreadyRunning, CleanupOrphans, AfterKill, TypeOK, Quiet, NoNewLaunch, Launching
  <2>4. NoLaunchOnSecond' BY <1>t, <2>1, <2>3, SecondShrinks, ServedSubqueue
  <2>5. (\E u \in Tasks : pc'[u] \in Launching) => held'[1]
    BY <2>1, <2>3, PassKeeps DEF Quiet
  <2> QED BY <1>s, <2>3, <2>4, <2>5, QuietKeeps DEF Slot!Next
<1>4. CASE LaunchAdmitted(t)
  <2>1. PICK l \in Locks : Acquires(t, l) /\ held' = Taken(l) /\ waiters' = Served(t, l)
    BY <1>4 DEF LaunchAdmitted
  <2>2. pc' = [pc EXCEPT ![t] = "config"] /\ pc[t] \in {"idle", "wantLaunch"}
        /\ active = NoBrowser /\ UNCHANGED <<active, proc, br>>
    BY <1>4 DEF LaunchAdmitted, MayLaunch
  <2>3. l = 1
    <3>1. CASE pc[t] = "wantLaunch"
      <4>1. waiters[l] \in Seq(Tasks) /\ waiters[l] # <<>> /\ Head(waiters[l]) = t
        BY <1>t, <2>1, <3>1 DEF Acquires, Waiting, TypeOK
      <4>2. 1 \in 1..Len(waiters[l]) /\ waiters[l][1] = t BY <4>1
      <4>3. l # 2 BY <3>1, <4>2 DEF SlotInv, NoLaunchOnSecond, NoLaunchIn
      <4> QED BY <4>3 DEF Locks
    <3>2. CASE pc[t] = "idle"
      <4>1. present BY <1>4, <3>2 DEF LaunchAdmitted, MayLaunch
      <4> QED BY <2>1, <4>1, AcquiredMeansEmpty DEF SlotInv
    <3> QED BY <2>2, <3>1, <3>2
  <2>4. ~held[1] BY <2>1, <2>3 DEF Acquires, Free
  <2>5. \A u \in Tasks : pc[u] \notin Launching BY <2>4 DEF SlotInv, LaunchHolds
  <2>6. \A u \in Tasks : pc'[u] \in Launching => u = t BY <1>t, <2>2, <2>5 DEF TypeOK
  <2>7. held'[1] = TRUE BY <1>t, <2>1, <2>3 DEF Taken, TypeOK, Locks
  <2>8. \A u \in Tasks : pc'[u] \notin {"setup", "goto"}
    BY <1>t, <2>2, <2>5 DEF TypeOK, Launching
  <2>9. NoNewLaunch BY <1>t, <2>2 DEF TypeOK, NoNewLaunch
  <2>10. NoLaunchOnSecond' BY <1>t, <2>1, <2>9, SecondShrinks, ServedSubqueue
  <2>11. Started' = Started BY <1>t, <2>2 DEF Started, TypeOK, Tasks
  <2>12. SlotInv'
    BY <1>s, <2>2, <2>6, <2>7, <2>8, <2>10
    DEF SlotInv, OneLauncher, LaunchHolds, LaunchClears, LaunchOwns
  <2> QED BY <2>2, <2>11, <2>12 DEF Slot!Next, Slot!Lose
<1>5. CASE LaunchStarts(t)
  <2>1. PICK b \in Browsers :
          /\ pc[t] = "config" /\ proc = NoBrowser /\ pc[b] = "unborn"
          /\ pc' = [pc EXCEPT ![t] = "setup", ![b] = "idle"]
          /\ br' = [br EXCEPT ![t] = b] /\ proc' = b
          /\ UNCHANGED <<active, held, waiters>>
    BY <1>5 DEF LaunchStarts, lockVars
  <2>2. b \in Tasks /\ b # t /\ pc[t] \in Launching BY <2>1 DEF Tasks, Launching
  <2>3. pc'[t] = "setup" /\ br'[t] = b /\ pc'[b] = "idle" BY <1>t, <2>1, <2>2 DEF TypeOK
  <2>4. \A u \in Tasks \ {t, b} : pc'[u] = pc[u] /\ br'[u] = br[u]
    BY <1>t, <2>1, <2>2 DEF TypeOK
  <2>5. \A u \in Tasks \ {t} : pc[u] \notin Launching BY <2>2 DEF SlotInv, OneLauncher
  <2>6. \A u \in Tasks : pc'[u] \in Launching => u = t
    BY <2>3, <2>4, <2>5 DEF Launching
  <2>7. active = NoBrowser /\ held[1] BY <2>2 DEF SlotInv, LaunchClears, LaunchHolds
  <2>8. Started' = Started \cup {b} /\ b \notin Started
    BY <2>1, <2>2, <2>3, <2>4 DEF Started, Tasks
  <2>9. NoNewLaunch BY <2>3, <2>4 DEF NoNewLaunch
  <2>10. NoLaunchOnSecond' BY <1>t, <1>q, <2>1, <2>9, SecondShrinks
  <2>11. LaunchOwns'
    <3>1. \A u \in Tasks : pc'[u] \in {"setup", "goto"} => u = t BY <2>6 DEF Launching
    <3>2. br'[t] \in Started' /\ proc' = br'[t] BY <2>1, <2>3, <2>8
    <3> QED BY <3>1, <3>2 DEF LaunchOwns
  <2>12. SlotInv'
    BY <1>s, <2>1, <2>6, <2>7, <2>10, <2>11
    DEF SlotInv, OneLauncher, LaunchHolds, LaunchClears
  <2> QED BY <2>1, <2>7, <2>8, <2>12 DEF Slot!Next, Slot!Start
<1>6. CASE LaunchSetUp(t) \/ LaunchRaises(t)
  <2>1. Quiet /\ NoNewLaunch
    BY <1>6, <1>t DEF LaunchSetUp, LaunchRaises, TypeOK, Quiet, NoNewLaunch, Launching
  <2>2. held' = held /\ waiters' = waiters
    BY <1>6 DEF LaunchSetUp, LaunchRaises, lockVars
  <2>3. NoLaunchOnSecond' BY <1>t, <1>q, <2>1, <2>2, SecondShrinks
  <2>4. (\E u \in Tasks : pc'[u] \in Launching) => held'[1]
    BY <2>1, <2>2 DEF Quiet, SlotInv, LaunchHolds
  <2> QED BY <1>s, <2>1, <2>3, <2>4, QuietKeeps DEF Slot!Next
<1>7. CASE LaunchAborts(t)
  <2>1. Quiet /\ NoNewLaunch /\ pc[t] \in Critical
    BY <1>7, <1>t
    DEF LaunchAborts, AfterKill, TypeOK, Quiet, NoNewLaunch, Launching, Critical
  <2>2. held' = Released(held) /\ waiters' = waiters BY <1>7 DEF LaunchAborts
  <2>3. NoLaunchOnSecond' BY <1>t, <1>q, <2>1, <2>2, SecondShrinks
  <2>4. \A u \in Tasks : pc'[u] \in Launching => pc[u] \in Launching /\ u # t
    BY <1>7, <1>t DEF LaunchAborts, TypeOK, Launching
  <2>5. (\E u \in Tasks : pc'[u] \in Launching) => held'[1]
    BY <2>1, <2>2, <2>4, ReleaseKeeps
  <2> QED BY <1>s, <2>1, <2>3, <2>5, QuietKeeps DEF Slot!Next
<1>8. CASE LaunchRegisters(t)
  <2>1. /\ pc[t] = "goto" /\ active' = br[t] /\ UNCHANGED <<proc, waiters>>
        /\ pc' = [pc EXCEPT ![t] = "idle", ![br[t]] = IF Proxied THEN "watching" ELSE "idle"]
    BY <1>8 DEF LaunchRegisters
  <2>2. pc[t] \in Launching BY <2>1 DEF Launching
  <2>3. br[t] \in Started /\ proc \in {NoBrowser, br[t]} BY <2>1 DEF SlotInv, LaunchOwns
  <2>4. active = NoBrowser BY <2>2 DEF SlotInv, LaunchClears
  <2>5. \A u \in Tasks : pc'[u] \notin Launching
    BY <1>t, <2>1, <2>2 DEF SlotInv, OneLauncher, TypeOK, Launching
  <2>6. br[t] \in Browsers /\ pc[br[t]] # "unborn" BY <2>3 DEF Started
  <2>7. \A u \in Tasks : pc'[u] = "unborn" <=> pc[u] = "unborn"
    BY <1>t, <2>1, <2>6 DEF TypeOK
  <2>8. Started' = Started BY <2>7 DEF Started, Tasks
  <2>9. NoNewLaunch BY <1>t, <2>1 DEF TypeOK, NoNewLaunch
  <2>10. NoLaunchOnSecond' BY <1>t, <1>q, <2>1, <2>9, SecondShrinks
  <2>11. SlotInv'
    BY <1>s, <2>5, <2>10
    DEF SlotInv, OneLauncher, LaunchHolds, LaunchClears, LaunchOwns, Launching
  <2> QED BY <2>1, <2>3, <2>4, <2>6, <2>8, <2>11 DEF Slot!Next, Slot!Register
<1> QED BY <1>1, <1>2, <1>3, <1>4, <1>5, <1>6, <1>7, <1>8 DEF LaunchCalls, LaunchSteps

\* A step of close_profile takes from the slot at most.
LEMMA CloseSlot ==
    ASSUME SlotInv, NEW t \in Tasks, CloseCalls(t) \/ CloseSelfCancels(t) \/ CloseSteps(t)
    PROVE  SlotInv' /\ Slot!Next
<1>s. SectionInv' BY CloseSection DEF SlotInv
<1>t. TypeOK /\ TypeOK' BY <1>s DEF SlotInv, SectionInv
<1>p. pc \in [Tasks -> PcValues] BY <1>t DEF TypeOK, PcValues
<1>w. waiters \in [Locks -> Seq(Tasks)] BY <1>t DEF TypeOK
<1>q. \A w : Subqueue(w, w) BY DEF Subqueue
<1>l. LaunchHolds BY DEF SlotInv
<1> USE DEF Goto, Return
<1>1. ASSUME NEW k \in Afters, CloseQueues(t, k) PROVE SlotInv' /\ Slot!Next
  <2>1. Quiet /\ NoNewLaunch /\ pc'[t] = "wantClose"
    BY <1>1, <1>t DEF CloseQueues, MayClose, Quiet, NoNewLaunch, TypeOK, Launching, Waiting
  <2>2. held' = held BY <1>1 DEF CloseQueues, Enqueue
  <2>3. NoLaunchOnSecond'
    <3>1. CASE waiters'[2] = waiters[2] BY <1>t, <1>q, <2>1, <3>1, SecondShrinks
    <3>2. CASE waiters'[2] = Append(waiters[2], t)
      <4>1. waiters[2] \in Seq(Tasks) BY <1>w DEF Locks
      <4>2. \A i \in 1..Len(waiters'[2]) :
              \/ i \in 1..Len(waiters[2]) /\ waiters'[2][i] = waiters[2][i]
              \/ waiters'[2][i] = t
        BY <3>2, <4>1
      <4>3. \A i \in 1..Len(waiters[2]) : waiters[2][i] \in Tasks BY <4>1
      <4> QED BY <2>1, <4>2, <4>3 DEF SlotInv, NoLaunchOnSecond, NoLaunchIn, NoNewLaunch
    <3>3. waiters'[2] \in {waiters[2], Append(waiters[2], t)}
      BY <1>1, <1>w DEF CloseQueues, Enqueue, Locks
    <3> QED BY <3>1, <3>2, <3>3
  <2>4. (\E u \in Tasks : pc'[u] \in Launching) => held'[1]
    BY <1>l, <2>1, <2>2 DEF Quiet, LaunchHolds
  <2> QED BY <1>s, <2>1, <2>3, <2>4, QuietKeeps DEF Slot!Next
<1>2. ASSUME NEW k \in Afters, CloseActive(t, k) PROVE SlotInv' /\ Slot!Next
  <2>1. PICK l \in Locks :
          /\ Acquires(t, l) /\ held' = Taken(l)
          /\ waiters' = LeaveQueue(Served(t, l), active)
    BY <1>2 DEF CloseActive
  <2> DEFINE f == [pc EXCEPT ![t] = "context"]
  <2>2. /\ f \in [Tasks -> PcValues] /\ pc' = Unwatched(f, active)
        /\ br' = [br EXCEPT ![t] = active] /\ UNCHANGED <<active, proc>>
    BY <1>2, <1>p DEF CloseActive, PcValues, Critical, Closing
  <2>3. pc[t] # "unborn" BY <1>2 DEF CloseActive, MayClose
  <2>4. \A u \in Tasks : u # t => f[u] = pc[u] BY <1>p
  <2>5. f[t] = "context" BY <1>p
  <2> HIDE DEF f
  <2>6. \A u \in Tasks : pc'[u] = f[u] \/ (pc'[u] = "idle" /\ pc[u] \in Watching)
    BY <2>2 DEF Unwatched, PcValues, Tasks
  <2>7. \A u \in Tasks : u # t => br'[u] = br[u] BY <1>t, <2>2 DEF TypeOK
  <2>8. Quiet
    BY <2>2, <2>3, <2>4, <2>5, <2>6, <2>7 DEF Quiet, Launching, Watching
  <2>9. NoNewLaunch BY <2>4, <2>5, <2>6 DEF NoNewLaunch
  <2>10. Subqueue(waiters'[2], waiters[2])
    <3>1. Served(t, l) \in [Locks -> Seq(Tasks)] BY <1>t, <2>1, ServedType
    <3>2. Subqueue(waiters'[2], Served(t, l)[2]) BY <2>1, <3>1, DequeuedSubqueue
    <3>3. Subqueue(Served(t, l)[2], waiters[2]) BY <1>t, <2>1, ServedSubqueue
    <3> QED BY <3>2, <3>3 DEF Subqueue
  <2>11. NoLaunchOnSecond' BY <1>t, <2>9, <2>10, SecondShrinks
  <2>12. (\E u \in Tasks : pc'[u] \in Launching) => held'[1]
    BY <2>1, <2>8, PassKeeps DEF Quiet
  <2> QED BY <1>s, <2>8, <2>11, <2>12, QuietKeeps DEF Slot!Next
<1>3. ASSUME NEW k \in Afters,
             CloseLingering(t, k) \/ CloseNothing(t, k) \/ CloseSelfCancels(t)
      PROVE  SlotInv' /\ Slot!Next
  <2>1. PICK l \in Locks :
          /\ Acquires(t, l) /\ waiters' = Served(t, l)
          /\ held' \in {Taken(l), Released(Taken(l))}
    BY <1>3 DEF CloseLingering, CloseNothing, CloseSelfCancels
  <2>2. /\ pc[t] # "unborn" /\ pc' \in {[pc EXCEPT ![t] = "linger"], [pc EXCEPT ![t] = "idle"]}
        /\ br' \in {br, [br EXCEPT ![t] = NoBrowser]}
        /\ active' = active /\ proc' \in {proc, NoBrowser}
    BY <1>3
    DEF CloseLingering, CloseNothing, CloseSelfCancels, MayClose, AfterKill
  <2>3. Quiet BY <1>t, <2>2 DEF Quiet, TypeOK, Launching
  <2>4. NoNewLaunch BY <1>t, <2>2 DEF NoNewLaunch, TypeOK
  <2>5. NoLaunchOnSecond' BY <1>t, <2>1, <2>4, SecondShrinks, ServedSubqueue
  <2>6. (\E u \in Tasks : pc'[u] \in Launching) => held'[1]
    BY <2>1, <2>3, PassKeeps DEF Quiet
  <2> QED BY <1>s, <2>3, <2>5, <2>6, QuietKeeps DEF Slot!Next
<1>4. CASE CloseContext(t)
  <2> DEFINE f == [pc EXCEPT ![t] = "reap"]
  <2>1. /\ f \in [Tasks -> PcValues] /\ pc' \in {f, Unwatched(f, active)}
        /\ pc[t] = "context" /\ UNCHANGED <<br, held>>
        /\ active' \in {active, NoBrowser} /\ proc' \in {proc, NoBrowser}
    BY <1>4, <1>p DEF CloseContext, PcValues, Critical, Closing
  <2>2. \A u \in Tasks : u # t => f[u] = pc[u] BY <1>p
  <2>3. f[t] = "reap" BY <1>p
  <2> HIDE DEF f
  <2>4. \A u \in Tasks : pc'[u] = f[u] \/ (pc'[u] = "idle" /\ pc[u] \in Watching)
    BY <2>1 DEF Unwatched, PcValues, Tasks
  <2>5. Quiet BY <2>1, <2>2, <2>3, <2>4 DEF Quiet, Launching, Watching
  <2>6. NoNewLaunch BY <2>2, <2>3, <2>4 DEF NoNewLaunch
  <2>7. waiters' = waiters \/ waiters' = LeaveQueue(waiters, active)
    BY <1>4 DEF CloseContext
  <2>8. Subqueue(waiters'[2], waiters[2]) BY <1>w, <1>q, <2>7, DequeuedSubqueue
  <2>9. NoLaunchOnSecond' BY <1>t, <2>6, <2>8, SecondShrinks
  <2>10. (\E u \in Tasks : pc'[u] \in Launching) => held'[1]
    BY <1>l, <2>1, <2>5 DEF Quiet, LaunchHolds
  <2> QED BY <1>s, <2>5, <2>9, <2>10, QuietKeeps DEF Slot!Next
<1>5. CASE CloseSucceeds(t) \/ CloseFails(t)
  <2>1. /\ pc[t] \in {"reap", "linger"} /\ pc' = [pc EXCEPT ![t] = "idle"]
        /\ br' = [br EXCEPT ![t] = NoBrowser]
        /\ held' = Released(held) /\ waiters' = waiters
        /\ active' \in {active, NoBrowser} /\ proc' \in {proc, NoBrowser}
    BY <1>5 DEF CloseSucceeds, CloseFails
  <2>2. Quiet BY <1>t, <2>1 DEF Quiet, TypeOK, Launching
  <2>3. NoNewLaunch BY <1>t, <2>1 DEF NoNewLaunch, TypeOK
  <2>4. NoLaunchOnSecond' BY <1>t, <1>q, <2>1, <2>3, SecondShrinks
  <2>5. pc[t] \in Critical BY <2>1 DEF Critical, Closing
  <2>6. \A u \in Tasks : pc'[u] \in Launching => pc[u] \in Launching /\ u # t
    BY <1>t, <2>1 DEF TypeOK, Launching
  <2>7. (\E u \in Tasks : pc'[u] \in Launching) => held'[1]
    BY <2>1, <2>5, <2>6, ReleaseKeeps
  <2> QED BY <1>s, <2>2, <2>4, <2>7, QuietKeeps DEF Slot!Next
<1>6. "none" \in Afters BY DEF Afters
<1> QED BY <1>1, <1>2, <1>3, <1>4, <1>5, <1>6 DEF CloseCalls, CloseSteps

\* So does every other step of a task.
LEMMA OtherTaskSlot ==
    ASSUME SlotInv, NEW t \in Tasks, WatcherQuits(t) \/ DeleteStopped(t) \/ CancelCall(t)
    PROVE  SlotInv' /\ Slot!Next
<1>s. SectionInv' BY OtherTaskSection DEF SlotInv
<1>t. TypeOK /\ TypeOK' BY <1>s DEF SlotInv, SectionInv
<1>w. waiters \in [Locks -> Seq(Tasks)] BY <1>t DEF TypeOK
<1>q. \A w : Subqueue(w, w) BY DEF Subqueue
<1> USE DEF Goto, Return
<1>1. Quiet /\ NoNewLaunch
  BY <1>t
  DEF WatcherQuits, DeleteStopped, CancelCall, taskVars, TypeOK, Quiet, NoNewLaunch,
      Launching, Critical, Closing, Waiting
<1>2. waiters' = waiters \/ waiters' = Dequeued(waiters, t)
  BY DEF WatcherQuits, DeleteStopped, CancelCall, lockVars
<1>3. Subqueue(waiters'[2], waiters[2]) BY <1>w, <1>q, <1>2, DequeuedSubqueue
<1>4. NoLaunchOnSecond' BY <1>t, <1>1, <1>3, SecondShrinks
<1>5. (\E u \in Tasks : pc'[u] \in Launching) => held'[1]
  <2>1. CASE held' = held BY <1>1, <2>1 DEF Quiet, SlotInv, LaunchHolds
  <2>2. CASE held' # held
    <3>1. pc[t] \in Critical /\ held' = Released(held) /\ pc' = [pc EXCEPT ![t] = "idle"]
      BY <2>2 DEF WatcherQuits, DeleteStopped, CancelCall, lockVars
    <3>2. \A u \in Tasks : pc'[u] \in Launching => pc[u] \in Launching /\ u # t
      BY <1>t, <3>1 DEF TypeOK, Launching
    <3> QED BY <3>1, <3>2, ReleaseKeeps
  <2> QED BY <2>1, <2>2
<1> QED BY <1>s, <1>1, <1>4, <1>5, QuietKeeps DEF Slot!Next

\* And what browsers do by themselves.
LEMMA BrowserSlotStep ==
    ASSUME SlotInv, NEW b \in Browsers, BrowserStep(b)
    PROVE  SlotInv' /\ Slot!Next
<1>s. SectionInv' BY BrowserSection DEF SlotInv
<1>t. TypeOK /\ TypeOK' BY <1>s DEF SlotInv, SectionInv
<1>p. pc \in [Tasks -> PcValues] BY <1>t DEF TypeOK, PcValues
<1>w. waiters \in [Locks -> Seq(Tasks)] BY <1>t DEF TypeOK
<1>q. \A w : Subqueue(w, w) BY DEF Subqueue
<1>1. /\ UNCHANGED <<held, br>>
      /\ active' \in {active, NoBrowser} /\ proc' \in {proc, NoBrowser}
  BY DEF BrowserStep, Crash, ContextClosed, CdpFails, lockVars, taskVars
<1>2. waiters' = waiters \/ waiters' = LeaveQueue(waiters, active)
  BY DEF BrowserStep, Crash, ContextClosed, CdpFails, lockVars
<1> DEFINE f == SetupRaised(b)
<1>3. /\ f \in [Tasks -> PcValues]
      /\ \A u \in Tasks : f[u] = pc[u] \/ (f[u] = "abort" /\ pc[u] = "setup")
  BY <1>p DEF SetupRaised, PcValues, Critical, Launching
<1>4. pc' \in {pc, f, Unwatched(pc, active), Unwatched(f, active)}
  BY DEF BrowserStep, Crash, ContextClosed, CdpFails, taskVars
<1> HIDE DEF f
<1>5. \A u \in Tasks :
         \/ pc'[u] \in {pc[u], f[u]}
         \/ pc'[u] = "idle" /\ (pc[u] \in Watching \/ f[u] \in Watching)
  BY <1>p, <1>3, <1>4 DEF Unwatched, PcValues, Tasks
<1>6. Quiet BY <1>1, <1>3, <1>5 DEF Quiet, Launching, Watching
<1>7. NoNewLaunch BY <1>3, <1>5 DEF NoNewLaunch
<1>8. Subqueue(waiters'[2], waiters[2]) BY <1>w, <1>q, <1>2, DequeuedSubqueue
<1>9. NoLaunchOnSecond' BY <1>t, <1>7, <1>8, SecondShrinks
<1>10. (\E u \in Tasks : pc'[u] \in Launching) => held'[1]
  BY <1>1, <1>6 DEF Quiet, SlotInv, LaunchHolds
<1> QED BY <1>s, <1>6, <1>9, <1>10, QuietKeeps DEF Slot!Next

\* Every step preserves the invariant and is a step of the slot or a stutter.
LEMMA SlotStep ==
    ASSUME SlotInv, [Next]_vars
    PROVE  SlotInv' /\ [Slot!Next]_Slot!slotVars
<1>1. CASE \E t \in Tasks : TaskStep(t)
  BY <1>1, LaunchSlot, CloseSlot, OtherTaskSlot DEF TaskStep
<1>2. CASE \E b \in Browsers : BrowserStep(b)
  BY <1>2, BrowserSlotStep
<1>3. CASE FailClosedEnds \/ UNCHANGED vars
  <2>s. SectionInv' BY <1>3, SectionStep DEF SlotInv, Next
  <2>t. TypeOK' BY <2>s DEF SectionInv
  <2>1. Quiet /\ NoNewLaunch
    BY <1>3 DEF FailClosedEnds, AfterKill, vars, taskVars, Quiet, NoNewLaunch
  <2>2. held' = held /\ waiters' = waiters BY <1>3 DEF FailClosedEnds, vars, lockVars
  <2>3. Subqueue(waiters'[2], waiters[2]) BY <2>2 DEF Subqueue
  <2>4. NoLaunchOnSecond' BY <2>t, <2>1, <2>3, SecondShrinks
  <2>5. (\E u \in Tasks : pc'[u] \in Launching) => held'[1]
    BY <2>1, <2>2 DEF Quiet, SlotInv, LaunchHolds
  <2> QED BY <2>s, <2>1, <2>4, <2>5, QuietKeeps DEF Slot!Next
<1> QED BY <1>1, <1>2, <1>3 DEF Next

\* The initial state satisfies the invariant and is an empty slot.
LEMMA SlotInit == Init => SlotInv /\ Slot!Init
<1> SUFFICES ASSUME Init PROVE SlotInv /\ Slot!Init
  OBVIOUS
<1>1. \A t \in Tasks : pc[t] \in {"idle", "unborn"} BY DEF Init
<1>2. \A b \in Browsers : pc[b] = "unborn" BY LifecycleAssumption DEF Init, Tasks
<1>3. waiters[2] = <<>> BY DEF Init, Locks
<1>4. NoLaunchOnSecond BY <1>3 DEF NoLaunchOnSecond, NoLaunchIn
<1>5. SlotInv
  BY <1>1, <1>4, SectionInit
  DEF SlotInv, OneLauncher, LaunchHolds, LaunchClears, LaunchOwns, Launching
<1>6. Started = {} BY <1>2 DEF Started
<1> QED BY <1>5, <1>6 DEF Init, Slot!Init

\* The life cycle implements the slot: whatever launches, closes, clean-ups, deletes,
\* cancellations and crashes there are, no browser of browser_manager is started over
\* another's entry or process, and none is registered over another.
THEOREM LifecycleImplementsSlot == Spec => ImplementsSlot
<1>1. Init => SlotInv /\ Slot!Init BY SlotInit
<1>2. SlotInv /\ [Next]_vars => SlotInv' /\ [Slot!Next]_Slot!slotVars BY SlotStep
<1> QED BY <1>1, <1>2, PTL DEF Spec, ImplementsSlot, Slot!Spec

\* Hence a browser that runs beside a registered entry is the registered one: nobody is
\* handed the page of one browser while another has the profile's directory.
THEOREM RunningIsRegistered == Spec => []Slot!OneBrowser
<1>1. Slot!Init => Slot!OneBrowser BY DEF Slot!Init, Slot!OneBrowser
<1>2. Slot!OneBrowser /\ [Slot!Next]_Slot!slotVars => Slot!OneBrowser'
  BY DEF Slot!OneBrowser, Slot!Next, Slot!slotVars, Slot!Lose, Slot!Start, Slot!Register
<1> QED BY <1>1, <1>2, LifecycleImplementsSlot, PTL DEF ImplementsSlot, Slot!Spec

-----------------------------------------------------------------------------
(* No orphan.  The hypotheses are the four assumptions that the property   *)
(* needs: each of them, dropped alone, has a counterexample.               *)

\* Nobody deletes the profile, and no caller is cancelled; processes die when they are
\* killed; and the close event of a dead context precedes the next registration.
Gentle == {"delete", "cancel"} \cap Ops = {} /\ ~KillMayFail /\ PromptEvents

\* What a close holds is the registered browser, until its event unregisters it.
ClosesOwn == \A t \in Tasks : pc[t] \in {"context", "reap"} => active \in {NoBrowser, br[t]}

\* A close that waits for killed processes waits for nothing.
LingersAlone == \A t \in Tasks : pc[t] = "linger" => proc = NoBrowser

\* A browser that is registered and runs is the only one whose handler can still run.
EventsAreDelivered == proc # NoBrowser /\ active = proc => listening \subseteq {proc}

OwnedInv ==
    /\ present
    /\ \A t \in Tasks : after[t] = "none"
    /\ ClosesOwn /\ LingersAlone /\ EventsAreDelivered
    /\ NoOrphan

\* What can be seen of a browser's owners: a task that holds it.
Holding == {"setup", "goto", "abort", "context", "reap"}

\* A step in which nobody takes a browser and none is started or registered.
Calm ==
    /\ present' = present /\ \A u \in Tasks : after'[u] = "none"
    /\ \A u \in Tasks : pc'[u] \in {"context", "reap"} =>
          pc[u] \in {"context", "reap"} /\ br'[u] = br[u]
    /\ \A u \in Tasks : pc'[u] = "linger" => pc[u] = "linger"
    /\ active' \in {active, NoBrowser} /\ proc' \in {proc, NoBrowser}
    /\ listening' \subseteq listening

\* It keeps the invariant if it leaves the running browser an owner.
LEMMA CalmKeeps ==
    ASSUME OwnedInv, Calm, NoOrphan'
    PROVE  OwnedInv'
<1>1. ClosesOwn' BY DEF OwnedInv, Calm, ClosesOwn
<1>2. LingersAlone' BY DEF OwnedInv, Calm, LingersAlone
<1>3. EventsAreDelivered'
  <2> SUFFICES ASSUME proc' # NoBrowser, active' = proc' PROVE listening' \subseteq {proc'}
    BY DEF EventsAreDelivered
  <2>1. proc' = proc /\ active' = active BY DEF Calm
  <2> QED BY <2>1 DEF OwnedInv, Calm, EventsAreDelivered
<1> QED BY <1>1, <1>2, <1>3 DEF OwnedInv, Calm

\* Owners whom a step leaves alone still own.
LEMMA OwnersStay ==
    ASSUME OwnedInv,
           proc' = proc,
           active' = active \/ failing' # NoBrowser,
           failing # NoBrowser => failing' # NoBrowser,
           \A u \in Tasks : pc[u] \in Holding => pc'[u] \in Holding /\ br'[u] = br[u],
           \A u \in Tasks : pc[u] = "linger" => pc'[u] = "linger"
    PROVE  NoOrphan'
<1> SUFFICES ASSUME proc # NoBrowser PROVE NoOrphan' BY DEF NoOrphan
<1>1. CASE active = proc BY <1>1 DEF NoOrphan
<1>2. CASE \E t \in Tasks : pc[t] \in Holding /\ br[t] = proc
  BY <1>2 DEF NoOrphan, Holding
<1>3. CASE \E t \in Tasks : pc[t] = "linger" BY <1>3 DEF NoOrphan
<1>4. CASE failing # NoBrowser BY <1>4 DEF NoOrphan
<1> QED BY <1>1, <1>2, <1>3, <1>4 DEF OwnedInv, NoOrphan, Holding

LEMMA NobodyLeft == ASSUME proc' = NoBrowser PROVE NoOrphan'
BY DEF NoOrphan

\* A kill works.
LEMMA KillsWork == ASSUME Gentle PROVE AfterKill = {NoBrowser}
BY DEF Gentle, AfterKill

\* launch_profile: what it starts it holds, and what it registers runs or is gone.
LEMMA LaunchOwned ==
    ASSUME Gentle, SlotInv, OwnedInv, NEW t \in Tasks, LaunchCalls(t) \/ LaunchSteps(t)
    PROVE  OwnedInv'
<1>t. TypeOK /\ SectionInv BY DEF SlotInv, SectionInv
<1>p. present BY DEF OwnedInv
<1>a. \A u \in Tasks : after[u] = "none" BY DEF OwnedInv
<1> USE DEF Goto, Return
<1>1. CASE LaunchBlocked(t)
  <2>1. Calm /\ proc' = NoBrowser
    BY <1>1, <1>p, <1>a, KillsWork
    DEF LaunchBlocked, CleanupOrphans, Calm, envVars, taskVars
  <2> QED BY <2>1, NobodyLeft, CalmKeeps
<1>2. CASE LaunchRefused(t)
  <2>1. /\ proc' = NoBrowser /\ active' = NoBrowser /\ pc' = [pc EXCEPT ![t] = "idle"]
        /\ UNCHANGED <<present, after, br, listening>>
    BY <1>2, <1>p, KillsWork DEF LaunchRefused, CleanupOrphans, envVars
  <2>2. Calm BY <1>t, <1>a, <2>1 DEF Calm, TypeOK
  <2> QED BY <2>1, <2>2, NobodyLeft, CalmKeeps
<1>3. CASE LaunchQueues(t) \/ LaunchAlreadyRunning(t) \/ LaunchAdmitted(t)
  <2>1. /\ UNCHANGED <<present, after, br, listening, active, proc, failing>>
        /\ pc[t] \in {"idle", "wantLaunch"}
        /\ \E s \in {"wantLaunch", "idle", "config"} : pc' = [pc EXCEPT ![t] = s]
    BY <1>3
    DEF LaunchQueues, LaunchAlreadyRunning, LaunchAdmitted, MayLaunch, envVars, failVars
  <2>2. Calm BY <1>t, <1>a, <2>1 DEF Calm, TypeOK
  <2>3. NoOrphan' BY <1>t, <2>1, OwnersStay DEF TypeOK, Holding
  <2> QED BY <2>2, <2>3, CalmKeeps
<1>4. CASE LaunchStarts(t)
  <2>1. PICK b \in Browsers :
          /\ pc[t] = "config" /\ proc = NoBrowser /\ pc[b] = "unborn"
          /\ pc' = [pc EXCEPT ![t] = "setup", ![b] = "idle"]
          /\ br' = [br EXCEPT ![t] = b]
          /\ proc' = b
          /\ UNCHANGED <<present, active, listening, after>>
    BY <1>4 DEF LaunchStarts
  <2>2. b # t /\ b \in Tasks BY <2>1 DEF Tasks
  <2>3. pc'[t] = "setup" /\ br'[t] = b BY <1>t, <2>1, <2>2 DEF TypeOK
  <2>4. NoOrphan' BY <2>1, <2>3 DEF NoOrphan
  <2>5. \A u \in Tasks : pc'[u] \notin {"context", "reap", "linger"}
    <3>1. \A u \in Tasks : u # t => pc[u] \notin Critical
      BY <1>t, <1>p, <2>1 DEF SectionInv, MutualExclusion, Critical, Launching
    <3> QED BY <1>t, <2>1, <2>2, <3>1 DEF TypeOK, Critical, Closing
  <2>6. active' = NoBrowser BY <2>1 DEF SlotInv, LaunchClears, Launching
  <2>7. EventsAreDelivered' BY <2>6 DEF EventsAreDelivered
  <2> QED BY <1>p, <1>a, <2>1, <2>4, <2>5, <2>7 DEF OwnedInv, ClosesOwn, LingersAlone
<1>5. CASE LaunchSetUp(t) \/ LaunchRaises(t)
  <2>1. /\ UNCHANGED <<present, after, br, listening, active, proc, failing>>
        /\ pc[t] \in {"config", "setup"}
        /\ \E s \in {"goto", "abort"} : pc' = [pc EXCEPT ![t] = s]
    BY <1>5 DEF LaunchSetUp, LaunchRaises, envVars, failVars
  <2>2. Calm BY <1>t, <1>a, <2>1 DEF Calm, TypeOK
  <2>3. NoOrphan' BY <1>t, <2>1, OwnersStay DEF TypeOK, Holding
  <2> QED BY <2>2, <2>3, CalmKeeps
<1>6. CASE LaunchAborts(t)
  <2>1. /\ proc' = NoBrowser /\ active' = NoBrowser /\ pc' = [pc EXCEPT ![t] = "idle"]
        /\ br' = [br EXCEPT ![t] = NoBrowser] /\ after' = [after EXCEPT ![t] = "none"]
        /\ pc[t] = "abort"
        /\ UNCHANGED <<present, listening>>
    BY <1>6, KillsWork DEF LaunchAborts, envVars
  <2>2. Calm BY <1>t, <1>a, <2>1 DEF Calm, TypeOK
  <2> QED BY <2>1, <2>2, NobodyLeft, CalmKeeps
<1>7. CASE LaunchRegisters(t)
  <2>1. /\ pc[t] = "goto" /\ active' = br[t] /\ UNCHANGED <<proc, present>>
        /\ pc' = [pc EXCEPT ![t] = "idle", ![br[t]] = IF Proxied THEN "watching" ELSE "idle"]
        /\ listening' = IF proc = br[t] THEN listening \cup {br[t]} ELSE listening
        /\ Undelivered = {}
        /\ after' = [after EXCEPT ![t] = "none"]
    BY <1>7 DEF LaunchRegisters, Gentle, envVars
  <2>2. proc \in {NoBrowser, br[t]} BY <2>1 DEF SlotInv, LaunchOwns
  <2>3. NoOrphan' BY <2>1, <2>2 DEF NoOrphan
  <2>4. listening \subseteq {proc} BY <2>1 DEF Undelivered
  <2>5. EventsAreDelivered' BY <2>1, <2>2, <2>4 DEF EventsAreDelivered
  <2>6. \A u \in Tasks : pc'[u] \notin {"context", "reap", "linger"}
    <3>1. \A u \in Tasks : u # t => pc[u] \notin Critical
      BY <1>t, <1>p, <2>1 DEF SectionInv, MutualExclusion, Critical, Launching
    <3> QED BY <1>t, <2>1, <3>1 DEF TypeOK, Critical, Closing
  <2> QED BY <1>t, <1>p, <1>a, <2>1, <2>3, <2>5, <2>6
      DEF OwnedInv, ClosesOwn, LingersAlone, TypeOK
<1> QED BY <1>1, <1>2, <1>3, <1>4, <1>5, <1>6, <1>7 DEF LaunchCalls, LaunchSteps

\* close_profile: it forgets no browser but the one that it has seen die.
LEMMA CloseOwned ==
    ASSUME Gentle, SlotInv, OwnedInv, NEW t \in Tasks,
           CloseCalls(t) \/ CloseSelfCancels(t) \/ CloseSteps(t)
    PROVE  OwnedInv'
<1>t. TypeOK /\ SectionInv BY DEF SlotInv, SectionInv
<1>p. present BY DEF OwnedInv
<1>a. \A u \in Tasks : after[u] = "none" BY DEF OwnedInv
<1>f. pc \in [Tasks -> PcValues] BY <1>t DEF TypeOK, PcValues
<1>k. ASSUME NEW k \in Afters, MayClose(t, k)
      PROVE  k = "none" /\ pc[t] \in {"idle", "watching", "wantClose"}
  BY <1>k, <1>a DEF MayClose, Gentle, Afters
<1> USE DEF Goto, Return
<1>1. ASSUME NEW k \in Afters, CloseQueues(t, k) PROVE OwnedInv'
  <2>1. /\ UNCHANGED <<present, br, listening, active, proc, failing>>
        /\ pc' = [pc EXCEPT ![t] = "wantClose"] /\ after' = [after EXCEPT ![t] = k]
        /\ MayClose(t, k)
    BY <1>1 DEF CloseQueues, envVars, failVars
  <2>2. k = "none" /\ pc[t] \in {"idle", "watching", "wantClose"} BY <1>k, <2>1
  <2>3. Calm BY <1>t, <1>a, <2>1, <2>2 DEF Calm, TypeOK
  <2>4. NoOrphan' BY <1>t, <2>1, <2>2, OwnersStay DEF TypeOK, Holding
  <2> QED BY <2>3, <2>4, CalmKeeps
<1>2. ASSUME NEW k \in Afters, CloseActive(t, k) PROVE OwnedInv'
  <2> DEFINE f == [pc EXCEPT ![t] = "context"]
  <2>1. /\ UNCHANGED <<present, listening, active, proc, failing>>
        /\ f \in [Tasks -> PcValues] /\ pc' = Unwatched(f, active)
        /\ br' = [br EXCEPT ![t] = active] /\ after' = [after EXCEPT ![t] = k]
        /\ MayClose(t, k) /\ \E l \in Locks : Acquires(t, l)
    BY <1>2, <1>f DEF CloseActive, PcValues, Critical, Closing, envVars, failVars
  <2>2. k = "none" /\ pc[t] \in {"idle", "watching", "wantClose"} BY <1>k, <2>1
  <2>3. \A u \in Tasks : pc[u] \notin Critical BY <1>t, <1>p, <2>1, AcquiredMeansEmpty
  <2>4. \A u \in Tasks : u # t => f[u] = pc[u] BY <1>f
  <2> HIDE DEF f
  <2>5. \A u \in Tasks : u # t => pc'[u] \notin Critical
    BY <2>1, <2>3, <2>4, UnwatchedType DEF Critical, Launching, Closing
  <2>6. br'[t] = active BY <1>t, <2>1 DEF TypeOK
  <2>7. f[t] = "context" BY <1>f DEF f
  <2>8. pc'[t] # "linger" BY <2>1, <2>7, UnwatchedType
  <2>9. NoOrphan'
    BY <2>1, <2>3 DEF OwnedInv, NoOrphan, Critical, Launching, Closing
  <2>10. ClosesOwn' BY <2>1, <2>5, <2>6 DEF ClosesOwn, Critical, Closing
  <2>11. LingersAlone' BY <2>5, <2>8 DEF LingersAlone, Critical, Closing
  <2>12. EventsAreDelivered' BY <2>1 DEF OwnedInv, EventsAreDelivered
  <2>13. \A u \in Tasks : after'[u] = "none" BY <1>t, <1>a, <2>1, <2>2 DEF TypeOK
  <2> QED BY <1>p, <2>1, <2>9, <2>10, <2>11, <2>12, <2>13 DEF OwnedInv
<1>3. ASSUME NEW k \in Afters, CloseLingering(t, k) PROVE OwnedInv'
  <2>1. /\ UNCHANGED <<present, br, listening, active>> /\ proc' = NoBrowser
        /\ pc' = [pc EXCEPT ![t] = "linger"] /\ after' = [after EXCEPT ![t] = k]
        /\ MayClose(t, k)
    BY <1>3, KillsWork DEF CloseLingering, envVars
  <2>2. k = "none" BY <1>k, <2>1
  <2>3. ClosesOwn' BY <1>t, <2>1 DEF OwnedInv, ClosesOwn, TypeOK
  <2>4. LingersAlone' /\ EventsAreDelivered' BY <2>1 DEF LingersAlone, EventsAreDelivered
  <2>5. \A u \in Tasks : after'[u] = "none" BY <1>t, <1>a, <2>1, <2>2 DEF TypeOK
  <2> QED BY <1>p, <2>1, <2>3, <2>4, <2>5, NobodyLeft DEF OwnedInv
<1>4. ASSUME NEW k \in Afters, CloseNothing(t, k) PROVE OwnedInv'
  <2>1. /\ UNCHANGED <<listening, active, proc>> /\ MayClose(t, k)
        /\ active = NoBrowser /\ ~(present /\ proc # NoBrowser)
        /\ pc' = [pc EXCEPT ![t] = "idle"] /\ br' = [br EXCEPT ![t] = NoBrowser]
        /\ after' = [after EXCEPT ![t] = "none"] /\ DeleteAfter(k, FALSE, dir)
    BY <1>4 DEF CloseNothing
  <2>2. k = "none" BY <1>k, <2>1
  <2>3. present' = present BY <1>p, <2>1, <2>2 DEF DeleteAfter
  <2>4. Calm BY <1>t, <1>a, <2>1, <2>3 DEF Calm, TypeOK
  <2>5. proc' = NoBrowser BY <1>p, <2>1
  <2> QED BY <2>4, <2>5, NobodyLeft, CalmKeeps
<1>5. CASE CloseSelfCancels(t)
  <2>1. /\ UNCHANGED <<present, after, br, listening, active, failing>>
        /\ proc' \in {proc, NoBrowser} /\ pc' = [pc EXCEPT ![t] = "idle"]
        /\ MayClose(t, "none")
    BY <1>5 DEF CloseSelfCancels, envVars, failVars
  <2>2. pc[t] \in {"idle", "watching", "wantClose"} BY <1>k, <2>1 DEF Afters
  <2>3. Calm BY <1>t, <1>a, <2>1 DEF Calm, TypeOK
  <2>4. proc' = proc => NoOrphan' BY <1>t, <2>1, <2>2, OwnersStay DEF TypeOK, Holding
  <2> QED BY <2>1, <2>3, <2>4, NobodyLeft, CalmKeeps
<1>6. CASE CloseContext(t)
  <2> DEFINE f == [pc EXCEPT ![t] = "reap"]
  <2>1. /\ f \in [Tasks -> PcValues] /\ pc[t] = "context"
        /\ UNCHANGED <<present, br, after, failing>> /\ listening' \subseteq listening
        /\ \/ /\ proc' = NoBrowser /\ active' \in {active, NoBrowser}
              /\ pc' \in {f, Unwatched(f, active)}
           \/ UNCHANGED <<active, proc>> /\ pc' = f
    BY <1>6, <1>f DEF CloseContext, PcValues, Critical, Closing, envVars, failVars
  <2>2. \A u \in Tasks : u # t => f[u] = pc[u] BY <1>f
  <2>3. f[t] = "reap" BY <1>f
  <2> HIDE DEF f
  <2>4. \A u \in Tasks : pc'[u] \in {f[u], "idle"} BY <2>1, UnwatchedType
  <2>5. Calm BY <1>a, <2>1, <2>2, <2>3, <2>4 DEF Calm
  <2>6. CASE proc' = NoBrowser BY <2>5, <2>6, NobodyLeft, CalmKeeps
  <2>7. CASE UNCHANGED <<active, proc>> /\ pc' = f
    <3>1. NoOrphan' BY <2>1, <2>2, <2>3, <2>7, OwnersStay DEF Holding
    <3> QED BY <2>5, <3>1, CalmKeeps
  <2> QED BY <2>1, <2>6, <2>7
<1>7. CASE CloseSucceeds(t)
  <2>1. /\ pc[t] \in {"reap", "linger"} /\ pc' = [pc EXCEPT ![t] = "idle"]
        /\ br' = [br EXCEPT ![t] = NoBrowser] /\ after' = [after EXCEPT ![t] = "none"]
        /\ active' \in {active, NoBrowser} /\ UNCHANGED <<listening, failing>>
        /\ proc' \in {proc, NoBrowser}
        /\ pc[t] = "reap" => proc' = IF proc = br[t] THEN NoBrowser ELSE proc
        /\ pc[t] = "linger" => proc' = NoBrowser
    BY <1>7 DEF CloseSucceeds, failVars
  <2>2. present' = present
    BY <1>7, <1>p, <1>a DEF CloseSucceeds, DeleteAfter
  <2>3. Calm BY <1>t, <1>a, <2>1, <2>2 DEF Calm, TypeOK
  <2>4. CASE proc' = NoBrowser BY <2>3, <2>4, NobodyLeft, CalmKeeps
  <2>5. CASE proc' # NoBrowser
    <3>1. pc[t] = "reap" /\ proc # br[t] /\ proc' = proc /\ proc # NoBrowser BY <2>1, <2>5
    <3>2. active # proc BY <3>1 DEF OwnedInv, ClosesOwn
    <3>3. \A u \in Tasks : u # t => pc[u] \notin Critical
      BY <1>t, <1>p, <3>1 DEF SectionInv, MutualExclusion, Critical, Closing
    <3>4. failing # NoBrowser
      BY <3>1, <3>2, <3>3 DEF OwnedInv, NoOrphan, Critical, Launching, Closing
    <3>5. NoOrphan' BY <2>1, <3>4 DEF NoOrphan
    <3> QED BY <2>3, <3>5, CalmKeeps
  <2> QED BY <2>4, <2>5
<1>8. CASE CloseFails(t)
  <2>1. pc[t] = "linger" /\ proc # NoBrowser BY <1>8 DEF CloseFails, Gentle
  <2> QED BY <2>1 DEF OwnedInv, LingersAlone
<1>9. "none" \in Afters BY DEF Afters
<1> QED BY <1>1, <1>2, <1>3, <1>4, <1>5, <1>6, <1>7, <1>8 DEF CloseCalls, CloseSteps

\* The health task, and what browsers do by themselves.
LEMMA OtherOwned ==
    ASSUME Gentle, SlotInv, OwnedInv, [Next]_vars,
           ~\E t \in Tasks : \/ LaunchCalls(t) \/ LaunchSteps(t)
                             \/ CloseCalls(t) \/ CloseSelfCancels(t) \/ CloseSteps(t)
    PROVE  OwnedInv'
<1>t. TypeOK BY DEF SlotInv, SectionInv
<1>p. present BY DEF OwnedInv
<1>a. \A u \in Tasks : after[u] = "none" BY DEF OwnedInv
<1>f. pc \in [Tasks -> PcValues] BY <1>t DEF TypeOK, PcValues
<1>0. ASSUME NEW t \in Tasks, CancelCall(t) PROVE OwnedInv'
  <2>1. /\ UNCHANGED <<present, listening, active, proc, failing>>
        /\ pc' = [pc EXCEPT ![t] = "idle"] /\ SetupCancelled(t)
        /\ br' = [br EXCEPT ![t] = NoBrowser] /\ after' = [after EXCEPT ![t] = "none"]
    BY <1>0 DEF CancelCall, Gentle, Goto, Return, envVars, failVars
  <2>2. failing' # NoBrowser
    BY <2>1, LifecycleAssumption DEF SetupCancelled, SlotInv, SectionInv, HoldsBrowser
  <2>3. Calm BY <1>t, <1>a, <2>1 DEF Calm, TypeOK
  <2>4. NoOrphan' BY <2>2 DEF NoOrphan
  <2> QED BY <2>3, <2>4, CalmKeeps
<1>1. ASSUME NEW t \in Tasks, WatcherQuits(t) \/ DeleteStopped(t) PROVE OwnedInv'
  <2>1. /\ UNCHANGED <<present, after, br, listening, active, proc, failing>>
        /\ pc[t] = "watching" /\ pc' = [pc EXCEPT ![t] = "idle"]
    BY <1>1 DEF WatcherQuits, DeleteStopped, Gentle, Goto, envVars, failVars
  <2>2. Calm BY <1>t, <1>a, <2>1 DEF Calm, TypeOK
  <2>3. NoOrphan' BY <1>t, <2>1, OwnersStay DEF TypeOK, Holding
  <2> QED BY <2>2, <2>3, CalmKeeps
<1>2. ASSUME NEW b \in Browsers, Crash(b) PROVE OwnedInv'
  <2>1. Calm /\ proc' = NoBrowser
    BY <1>2, <1>a DEF Crash, Calm, envVars, taskVars
  <2> QED BY <2>1, NobodyLeft, CalmKeeps
<1>3. ASSUME NEW b \in Browsers, ContextClosed(b) PROVE OwnedInv'
  <2>1. /\ b \in listening /\ b # proc /\ listening' = listening \ {b} /\ active' = NoBrowser
        /\ pc' = Unwatched(pc, active)
        /\ UNCHANGED <<present, after, br, proc, failing>>
    BY <1>3 DEF ContextClosed, Undelivered, envVars, failVars
  <2>2. \A u \in Tasks : pc'[u] \in {pc[u], "idle"} BY <1>f, <2>1, UnwatchedType
  <2>3. \A u \in Tasks : pc[u] \in Holding \cup {"linger"} => pc'[u] = pc[u]
    BY <1>f, <2>1 DEF Unwatched, Watching, Holding, PcValues, Tasks
  <2>4. Calm BY <1>a, <2>1, <2>2 DEF Calm
  <2>5. NoOrphan'
    <3> SUFFICES ASSUME proc # NoBrowser PROVE NoOrphan' BY <2>1 DEF NoOrphan
    <3>1. active # proc BY <2>1 DEF OwnedInv, EventsAreDelivered
    <3> QED BY <2>1, <2>3, <3>1 DEF OwnedInv, NoOrphan, Holding
  <2> QED BY <2>4, <2>5, CalmKeeps
<1>4. ASSUME NEW b \in Browsers, CdpFails(b) PROVE OwnedInv'
  <2> DEFINE f == SetupRaised(b)
  <2>1. /\ f \in [Tasks -> PcValues]
        /\ UNCHANGED <<present, after, br, proc, listening>> /\ proc = b
        /\ pc' \in {pc, f, Unwatched(pc, active), Unwatched(f, active)}
        /\ \/ failing' = b /\ active' = NoBrowser
           \/ failing # NoBrowser /\ UNCHANGED <<active, failing>>
    BY <1>4, <1>f DEF CdpFails, SetupRaised, PcValues, Critical, Launching, envVars, failVars
  <2>2. \A u \in Tasks : f[u] = pc[u] \/ f[u] = "abort" BY DEF SetupRaised
  <2> HIDE DEF f
  <2>3. \A u \in Tasks : pc'[u] \in {pc[u], f[u], "idle"} BY <1>f, <2>1, UnwatchedType
  <2>4. Calm BY <1>a, <2>1, <2>2, <2>3 DEF Calm
  <2>5. failing' # NoBrowser BY <2>1, LifecycleAssumption
  <2>6. NoOrphan' BY <2>5 DEF NoOrphan
  <2> QED BY <2>4, <2>6, CalmKeeps
<1>5. CASE FailClosedEnds
  <2>1. Calm /\ proc' = NoBrowser
    BY <1>5, <1>a, <1>p, KillsWork DEF FailClosedEnds, Calm, envVars, taskVars
  <2> QED BY <2>1, NobodyLeft, CalmKeeps
<1>6. CASE UNCHANGED vars
  BY <1>6 DEF vars, envVars, failVars, taskVars, OwnedInv, ClosesOwn, LingersAlone,
              EventsAreDelivered, NoOrphan
<1> QED BY <1>0, <1>1, <1>2, <1>3, <1>4, <1>5, <1>6 DEF Next, TaskStep, BrowserStep

(* NoOrphan: with any number of callers and browsers, health tasks         *)
(* included, a browser that runs is registered, or is being launched,      *)
(* closed or killed by somebody, as long as nobody deletes the profile or  *)
(* cancels a call, kills work, and close events come before the next       *)
(* registration (launch_profile, close_profile, fail_closed_profile).      *)
THEOREM NoBrowserIsOrphaned == ASSUME Gentle PROVE Spec => []NoOrphan
<1>1. Init => OwnedInv
  <2> SUFFICES ASSUME Init PROVE OwnedInv OBVIOUS
  <2>1. \A t \in Tasks : pc[t] \in {"idle", "unborn"} /\ after[t] = "none" BY DEF Init
  <2> QED BY <2>1 DEF Init, OwnedInv, ClosesOwn, LingersAlone, EventsAreDelivered, NoOrphan
<1>2. SlotInv /\ OwnedInv /\ [Next]_vars => OwnedInv'
  BY LaunchOwned, CloseOwned, OtherOwned
<1>3. Init => SlotInv BY SlotInit
<1>4. SlotInv /\ [Next]_vars => SlotInv' BY SlotStep
<1>5. OwnedInv => NoOrphan BY DEF OwnedInv
<1> QED BY <1>1, <1>2, <1>3, <1>4, <1>5, PTL DEF Spec

=============================================================================
