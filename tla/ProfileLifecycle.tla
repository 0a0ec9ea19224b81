--------------------------- MODULE ProfileLifecycle ---------------------------
(***************************************************************************)
(* The launch / close / delete life cycle of ONE browser profile           *)
(* (backend/browser_manager.py, lock_manager.py and the delete endpoints). *)
(* Every dictionary of the code is keyed by profile id and no operation    *)
(* reads another profile's entry, so one profile is the whole interaction. *)
(*                                                                         *)
(* The program is one asyncio event loop.  An action is the code between   *)
(* two awaits that really suspend; what the code does without suspending   *)
(* (an uncontended lock, a refusal and the clean-up that follows it) is    *)
(* one step.  A health task is identified with the browser it watches.     *)
(***************************************************************************)
EXTENDS Naturals, Sequences

CONSTANTS
    Clients,        \* tasks calling launch_profile / close_profile / delete
    Browsers,       \* browser processes that may ever be started (the bound)
    NoBrowser,
    Ops,            \* what clients do: "launch", "close", "delete", "cancel"
    Proxied,        \* the profile has an assigned proxy, hence a health task
    Ephemeral,      \* privacy_mode "ephemeral": the directory is wiped on close
    KillMayFail,    \* kill_process_tree swallows errors: a process may survive
    PromptEvents    \* a dead context's close event precedes the next registration

ASSUME LifecycleAssumption ==
    /\ Clients \cap Browsers = {}
    /\ NoBrowser \notin Clients \cup Browsers
    /\ Proxied \in BOOLEAN /\ Ephemeral \in BOOLEAN
    /\ KillMayFail \in BOOLEAN /\ PromptEvents \in BOOLEAN

Tasks == Clients \cup Browsers
MaybeBrowser == Browsers \cup {NoBrowser}

\* Deleting the profile pops its lock; a later close makes the defaultdict
\* create a second one.  A profile id never comes back, so there is no third.
Locks == {1, 2}

VARIABLES
    present,    \* profile_manager knows the profile
    dir,        \* its directory exists
    state,      \* profile_states[id], "none" when popped
    active,     \* the browser in active_browsers[id]
    proc,       \* the process holding the user-data-dir
    listening,  \* browsers whose _on_context_close handler can still run
    failing,    \* browser whose fail_closed_profile is running (profile_cleanup_running)
    failPid,    \* the entry that fail_closed_profile popped
    held,       \* asyncio.Lock._locked, per lock object
    waiters,    \* asyncio.Lock._waiters, per lock object
    pc,         \* where each task is suspended
    br,         \* the browser a task is launching or closing
    after       \* what the caller of close_profile does when it returns

envVars  == <<present, dir>>
failVars == <<failing, failPid>>
lockVars == <<held, waiters>>
taskVars == <<pc, br, after>>
vars == <<envVars, state, active, proc, listening, failVars, lockVars, taskVars>>

Launching == {"config", "setup", "goto", "abort"}
Closing   == {"context", "reap", "linger"}
Critical  == Launching \cup Closing
Waiting   == {"wantLaunch", "wantClose"}
Watching  == {"watching", "wantClose"}

Init ==
    /\ present = TRUE /\ dir = TRUE
    /\ state = "none" /\ active = NoBrowser /\ proc = NoBrowser
    /\ listening = {}
    /\ failing = NoBrowser /\ failPid = NoBrowser
    /\ held = [l \in Locks |-> FALSE] /\ waiters = [l \in Locks |-> <<>>]
    /\ pc = [t \in Tasks |-> IF t \in Clients THEN "idle" ELSE "unborn"]
    /\ br = [t \in Tasks |-> NoBrowser]
    /\ after = [t \in Tasks |-> "none"]

-----------------------------------------------------------------------------
(* The profile lock.                                                       *)

\* locks[profile_id], as resolved at the moment of the call.
CurrentLock == IF present THEN 1 ELSE 2

\* asyncio.Lock.acquire does not suspend.
Free(l) == ~held[l] /\ waiters[l] = <<>>

\* t gets lock l in this step: at once, or as the waiter woken by a release.
Acquires(t, l) ==
    \/ pc[t] \notin Waiting /\ l = CurrentLock /\ Free(l)
    \/ pc[t] \in Waiting /\ ~held[l] /\ waiters[l] # <<>> /\ Head(waiters[l]) = t

Served(t, l) == IF pc[t] \in Waiting THEN [waiters EXCEPT ![l] = Tail(@)] ELSE waiters

Taken(l) == [held EXCEPT ![l] = TRUE]

\* Mutant of Released: the finally clause is missing.
Released_Never(h) == h

\* lock_manager.release: whoever calls it, the current lock object is unlocked.
Released(h) == [h EXCEPT ![CurrentLock] = FALSE]

\* q without task t, which occurs in it at most once.
Without(q, t) ==
    IF \E i \in 1..Len(q) : q[i] = t
    THEN LET i == CHOOSE j \in 1..Len(q) : q[j] = t
         IN  SubSeq(q, 1, i - 1) \o SubSeq(q, i + 1, Len(q))
    ELSE q

\* The waiter queues when task b's wait, if it waits, is cancelled.
Dequeued(w, b) == [l \in Locks |-> Without(w[l], b)]

Enqueue(t) ==
    /\ ~Free(CurrentLock)
    /\ waiters' = [waiters EXCEPT ![CurrentLock] = Append(@, t)]
    /\ UNCHANGED held

-----------------------------------------------------------------------------
(* Helpers of browser_manager.                                             *)

\* get_profile_state
ProfileState ==
    IF state \in {"launching", "closing", "error"} THEN state
    ELSE IF (present /\ proc # NoBrowser) \/ active # NoBrowser THEN "running"
    ELSE "stopped"

\* health_task.cancel() on the entry a: a watcher that sleeps or queues for the
\* lock ends.  (No watcher is inside the lock while its own browser is
\* registered: theorem CancelNeverHitsHolder.)
Unwatched(f, a) == IF a \in Browsers /\ pc[a] \in Watching THEN [f EXCEPT ![a] = "idle"] ELSE f
\* The queues after that cancellation.
LeaveQueue(w, a) == IF a \in Browsers /\ pc[a] \in Watching THEN Dequeued(w, a) ELSE w

\* What find_profile_processes + kill_process_tree may leave running.
AfterKill == {NoBrowser} \cup (IF KillMayFail THEN {proc} ELSE {})

\* Mutant of CleanupOrphans: the kill is skipped.
CleanupOrphans_NoKill ==
    /\ proc' = proc
    /\ active' = NoBrowser
    /\ state' = "none"

\* _cleanup_orphan_processes: no lock, the registration is popped whatever it
\* holds, and nobody cancels the health task of what it pops.
CleanupOrphans ==
    /\ proc' \in IF present THEN AfterKill ELSE {proc}
    /\ active' = NoBrowser
    /\ state' = "none"

Goto(t, where) == pc' = [pc EXCEPT ![t] = where]

\* The call of t is over (a watcher's task ends the same way).
Return(t) ==
    /\ br' = [br EXCEPT ![t] = NoBrowser]
    /\ after' = [after EXCEPT ![t] = "none"]

-----------------------------------------------------------------------------
(* launch_profile                                                          *)

\* Mutant of LaunchBlocked: the early return passes a finally clause that releases.
LaunchBlocked_Releases(t) ==
    /\ "launch" \in Ops /\ t \in Clients /\ pc[t] = "idle"
    /\ CleanupOrphans
    /\ held' = Released(held)
    /\ UNCHANGED <<envVars, listening, failVars, waiters, taskVars>>

\* A check made before the lock fails: unknown profile, missing directory, PIN,
\* scanner, coherence or proxy.  The wrapper then cleans up.
LaunchBlocked(t) ==
    /\ "launch" \in Ops /\ t \in Clients /\ pc[t] = "idle"
    /\ CleanupOrphans
    /\ UNCHANGED <<envVars, listening, failVars, lockVars, taskVars>>

\* All checks pass and the lock is taken or queued for.
MayLaunch(t) ==
    /\ t \in Clients
    /\ \/ "launch" \in Ops /\ pc[t] = "idle" /\ present /\ dir
       \/ pc[t] = "wantLaunch"

LaunchQueues(t) ==
    /\ MayLaunch(t) /\ pc[t] = "idle"
    /\ Enqueue(t)
    /\ Goto(t, "wantLaunch")
    /\ UNCHANGED <<envVars, state, active, proc, listening, failVars, br, after>>

\* "Browser is already launching or running": release, then clean up.
LaunchRefused(t) == \E l \in Locks :
    /\ MayLaunch(t) /\ Acquires(t, l)
    /\ ProfileState \in {"launching", "running"}
    /\ held' = Released(Taken(l)) /\ waiters' = Served(t, l)
    /\ CleanupOrphans
    /\ Goto(t, "idle")
    /\ UNCHANGED <<envVars, listening, failVars, br, after>>

\* State closing or error, but an entry is registered: "Browser already running".
LaunchAlreadyRunning(t) == \E l \in Locks :
    /\ MayLaunch(t) /\ Acquires(t, l)
    /\ ProfileState \notin {"launching", "running"} /\ active # NoBrowser
    /\ held' = Released(Taken(l)) /\ waiters' = Served(t, l)
    /\ state' = "running"
    /\ Goto(t, "idle")
    /\ UNCHANGED <<envVars, active, proc, listening, failVars, br, after>>

\* Mutant of LaunchAdmitted: the registered entry is not looked at.
LaunchAdmitted_Over(t) == \E l \in Locks :
    /\ MayLaunch(t) /\ Acquires(t, l)
    /\ ProfileState \notin {"launching", "running"}
    /\ held' = Taken(l) /\ waiters' = Served(t, l)
    /\ state' = "launching"
    /\ Goto(t, "config")
    /\ UNCHANGED <<envVars, active, proc, listening, failVars, br, after>>

LaunchAdmitted(t) == \E l \in Locks :
    /\ MayLaunch(t) /\ Acquires(t, l)
    /\ ProfileState \notin {"launching", "running"} /\ active = NoBrowser
    /\ held' = Taken(l) /\ waiters' = Served(t, l)
    /\ state' = "launching"
    /\ Goto(t, "config")
    /\ UNCHANGED <<envVars, active, proc, listening, failVars, br, after>>

\* launch_persistent_context returned.  The engine refuses a user-data-dir that
\* another process holds, and creates the directory when it is missing.
LaunchStarts(t) == \E b \in Browsers :
    /\ pc[t] = "config" /\ proc = NoBrowser /\ pc[b] = "unborn"
    /\ pc' = [pc EXCEPT ![t] = "setup", ![b] = "idle"]
    /\ br' = [br EXCEPT ![t] = b]
    /\ proc' = b
    /\ dir' = TRUE
    /\ UNCHANGED <<present, state, active, listening, failVars, lockVars, after>>

\* Page setup and add_init_script succeeded on a live browser.  What follows,
\* page.goto, swallows its exceptions.
LaunchSetUp(t) ==
    /\ pc[t] = "setup" /\ proc = br[t]
    /\ Goto(t, "goto")
    /\ UNCHANGED <<envVars, state, active, proc, listening, failVars, lockVars, br, after>>

\* Anything else raises, and the exception handler closes context and driver.
LaunchRaises(t) ==
    /\ pc[t] \in {"config", "setup"}
    /\ Goto(t, "abort")
    /\ UNCHANGED <<envVars, state, active, proc, listening, failVars, lockVars, br, after>>

\* The rest of the handler, the finally clause and the wrapper's clean-up.
LaunchAborts(t) ==
    /\ pc[t] = "abort"
    /\ proc' \in AfterKill
    /\ active' = NoBrowser
    /\ state' = "none"
    /\ held' = Released(held)
    /\ Goto(t, "idle") /\ Return(t)
    /\ UNCHANGED <<envVars, listening, failVars, waiters>>

\* Browsers that died with their close event not yet delivered.
Undelivered == {b \in listening : b # proc}

\* active_browsers[id] = {...}, the close handler, the health task, "running".
LaunchRegisters(t) ==
    /\ pc[t] = "goto"
    /\ PromptEvents => Undelivered = {}
    /\ active' = br[t]
    /\ listening' = IF proc = br[t] THEN listening \cup {br[t]} ELSE listening
    /\ state' = "running"
    /\ held' = Released(held)
    /\ pc' = [pc EXCEPT ![t] = "idle", ![br[t]] = IF Proxied THEN "watching" ELSE "idle"]
    /\ Return(t)
    /\ UNCHANGED <<envVars, proc, failVars, waiters>>

-----------------------------------------------------------------------------
(* close_profile, called by a client, by a delete, or by a health task     *)
(* whose proxy is unhealthy.                                               *)

\* k is what the caller does next: "none", "delete" (DELETE /profiles/{id}: delete
\* whatever the close returned) or "bulk" (bulk delete: only after a success, and
\* only called when something runs).
MayClose(t, k) ==
    \/ /\ t \in Clients /\ pc[t] = "idle"
       /\ \/ k = "none" /\ "close" \in Ops
          \/ k = "delete" /\ "delete" \in Ops
          \/ /\ k = "bulk" /\ "delete" \in Ops
             /\ active # NoBrowser \/ (present /\ proc # NoBrowser)
    \/ t \in Browsers /\ pc[t] = "watching" /\ k = "none" /\ active # NoBrowser
    \/ pc[t] = "wantClose" /\ k = after[t]

CloseQueues(t, k) ==
    /\ MayClose(t, k) /\ pc[t] \notin Waiting
    /\ Enqueue(t)
    /\ Goto(t, "wantClose")
    /\ after' = [after EXCEPT ![t] = k]
    /\ UNCHANGED <<envVars, state, active, proc, listening, failVars, br>>

\* Mutant of DeleteAfter: the process check of delete_profile is dropped.
DeleteAfter_NoProbe(k, ok, d) ==
    LET deletes == (k = "delete" \/ (k = "bulk" /\ ok)) /\ present
    IN  present' = (present /\ ~deletes) /\ dir' = (d /\ ~deletes)

\* profile_manager.delete_profile when the caller's close returned with result
\* ok: refused while a process uses the directory, impossible twice.
DeleteAfter(k, ok, d) ==
    LET deletes == (k = "delete" \/ (k = "bulk" /\ ok)) /\ present /\ proc' = NoBrowser
    IN  present' = (present /\ ~deletes) /\ dir' = (d /\ ~deletes)

\* set_profile_state(profile_id, "stopped")
MarkStopped == state' = "stopped"

\* A registered browser: cancel its health task, start context.close().
CloseActive(t, k) == \E l \in Locks :
    /\ MayClose(t, k) /\ Acquires(t, l)
    /\ active \notin {NoBrowser, t}
    /\ state' = "closing"
    /\ held' = Taken(l)
    /\ waiters' = LeaveQueue(Served(t, l), active)
    /\ pc' = Unwatched([pc EXCEPT ![t] = "context"], active)
    /\ br' = [br EXCEPT ![t] = active]
    /\ after' = [after EXCEPT ![t] = k]
    /\ UNCHANGED <<envVars, active, proc, listening, failVars>>

\* The health task closing its own browser cancels itself: CancelledError at
\* context.close(), which may or may not have sent its request, passes both
\* "except Exception" clauses; only the finally clause runs.
CloseSelfCancels(t) == \E l \in Locks :
    /\ MayClose(t, "none") /\ Acquires(t, l)
    /\ active = t
    /\ state' = "closing"
    /\ held' = Released(Taken(l)) /\ waiters' = Served(t, l)
    /\ proc' \in {proc, IF proc = t THEN NoBrowser ELSE proc}
    /\ Goto(t, "idle")
    /\ UNCHANGED <<envVars, active, listening, failVars, br, after>>

\* Nothing registered, but a process holds the directory: kill it and wait.
CloseLingering(t, k) == \E l \in Locks :
    /\ MayClose(t, k) /\ Acquires(t, l)
    /\ active = NoBrowser /\ present /\ proc # NoBrowser
    /\ state' = "closing"
    /\ proc' \in AfterKill
    /\ held' = Taken(l) /\ waiters' = Served(t, l)
    /\ Goto(t, "linger")
    /\ after' = [after EXCEPT ![t] = k]
    /\ UNCHANGED <<envVars, active, listening, failVars, br>>

\* "Browser is not running".
CloseNothing(t, k) == \E l \in Locks :
    /\ MayClose(t, k) /\ Acquires(t, l)
    /\ active = NoBrowser /\ ~(present /\ proc # NoBrowser)
    /\ MarkStopped
    /\ held' = Released(Taken(l)) /\ waiters' = Served(t, l)
    /\ Goto(t, "idle") /\ Return(t)
    /\ UNCHANGED <<active, proc, listening, failVars>>
    /\ DeleteAfter(k, FALSE, dir)

\* context.close() and playwright.stop() return.  A context that closes delivers
\* its event first, and the handler pops whatever is registered.
CloseContext(t) ==
    /\ pc[t] = "context"
    /\ listening' = listening \ {br[t]}
    /\ \/ /\ proc = br[t] /\ proc' = NoBrowser
          /\ IF br[t] \in listening
             THEN /\ active' = NoBrowser
                  /\ pc' = Unwatched([pc EXCEPT ![t] = "reap"], active)
                  /\ waiters' = LeaveQueue(waiters, active)
             ELSE Goto(t, "reap") /\ UNCHANGED <<active, waiters>>
       \/ Goto(t, "reap") /\ UNCHANGED <<active, proc, waiters>>
    /\ UNCHANGED <<envVars, state, failVars, held, br, after>>

\* _maybe_clear_ephemeral_profile_data
Wiped == dir /\ ~(Ephemeral /\ present)

\* The process is gone, by itself or by force.
CloseSucceeds(t) ==
    /\ \/ pc[t] = "reap" /\ proc' = IF proc = br[t] THEN NoBrowser ELSE proc
       \/ pc[t] = "linger" /\ proc = NoBrowser /\ proc' = proc
    /\ active' = IF pc[t] = "reap" THEN NoBrowser ELSE active
    /\ MarkStopped
    /\ held' = Released(held)
    /\ Goto(t, "idle") /\ Return(t)
    /\ UNCHANGED <<listening, failVars, waiters>>
    /\ DeleteAfter(after[t], TRUE, Wiped)

\* The process survives the wait: CLOSE_FAILED, and the registration stays.
CloseFails(t) ==
    /\ \/ pc[t] = "reap" /\ KillMayFail /\ proc = br[t]
       \/ pc[t] = "linger" /\ proc # NoBrowser
    /\ UNCHANGED <<active, proc, listening, failVars, waiters>>
    /\ state' = "error"
    /\ held' = Released(held)
    /\ Goto(t, "idle") /\ Return(t)
    /\ DeleteAfter(after[t], FALSE, dir)

\* A health task that finds its proxy dead and nothing registered just ends.
WatcherQuits(b) ==
    /\ b \in Browsers /\ pc[b] = "watching" /\ active = NoBrowser
    /\ Goto(b, "idle")
    /\ UNCHANGED <<envVars, state, active, proc, listening, failVars, lockVars, br, after>>

\* Bulk delete of a profile with no entry and no process: no close, no lock.
DeleteStopped(t) ==
    /\ "delete" \in Ops /\ t \in Clients /\ pc[t] = "idle"
    /\ present /\ active = NoBrowser /\ proc = NoBrowser
    /\ present' = FALSE /\ dir' = FALSE
    /\ UNCHANGED <<state, active, proc, listening, failVars, lockVars, taskVars>>

\* Mutant of LaunchMark: no reset in the finally clause.
LaunchMark_Kept(t) == state

\* The finally clause of the launch: never leave the mark "launching".
LaunchMark(t) == IF pc[t] \in Launching /\ state = "launching" THEN "error" ELSE state

\* fail_closed_profile has cancelled the page setups that t gathers.
SetupCancelled(t) == pc[t] = "setup" /\ failing = br[t]

\* CancelledError in a caller, from task.cancel() (the cookie robot's stop_warming)
\* or from a page setup: a waiter leaves the queue, a holder runs only the finally
\* clauses.
CancelCall(t) ==
    /\ t \in Clients /\ pc[t] \in Waiting \cup Critical
    /\ "cancel" \in Ops \/ SetupCancelled(t)
    /\ IF pc[t] \in Waiting
       THEN waiters' = Dequeued(waiters, t) /\ UNCHANGED <<state, held>>
       ELSE /\ state' = LaunchMark(t)
            /\ held' = Released(held)
            /\ UNCHANGED waiters
    /\ Goto(t, "idle") /\ Return(t)
    /\ UNCHANGED <<envVars, active, proc, listening, failVars>>

-----------------------------------------------------------------------------
(* What happens to a browser by itself.                                    *)

\* The engine crashes, or the user closes its window.
Crash(b) ==
    /\ b \in Browsers /\ proc = b
    /\ proc' = NoBrowser
    /\ UNCHANGED <<envVars, state, active, listening, failVars, lockVars, taskVars>>

\* _on_context_close of b: it pops the entry of the profile, not the entry of b.
ContextClosed(b) ==
    /\ b \in Undelivered
    /\ listening' = listening \ {b}
    /\ active' = NoBrowser
    /\ pc' = Unwatched(pc, active) /\ waiters' = LeaveQueue(waiters, active)
    /\ UNCHANGED <<envVars, state, proc, failVars, held, br, after>>

\* Nobody is closing b, so its CDP tasks are not cancelled.
CdpTasksLive(b) == ~\E t \in Tasks : pc[t] \in {"context", "reap"} /\ br[t] = b

\* The page setups that a launch of b gathers raise in it.
SetupRaised(b) == [t \in Tasks |-> IF pc[t] = "setup" /\ br[t] = b THEN "abort" ELSE pc[t]]

\* A page setup task of b raises: its launch raises if this is one of the tasks that
\* it gathers, and fail_closed_profile runs, without the lock, up to its first await.
CdpFails(b) ==
    /\ proc = b /\ CdpTasksLive(b)
    /\ \E raised \in {pc, SetupRaised(b)} :
          IF failing = NoBrowser
          THEN /\ failing' = b /\ failPid' = active
               /\ state' = "error"
               /\ active' = NoBrowser
               /\ pc' = Unwatched(raised, active) /\ waiters' = LeaveQueue(waiters, active)
          ELSE pc' = raised /\ UNCHANGED <<failVars, state, active, waiters>>
    /\ UNCHANGED <<envVars, proc, listening, held, br, after>>

\* The context is closed, the driver stopped and the processes killed: the popped
\* entry's, and every process of the profile's directory.
FailClosedEnds ==
    /\ failing # NoBrowser
    /\ proc' \in IF present \/ proc \in {failing, failPid} THEN AfterKill ELSE {proc}
    /\ listening' = listening \ {failing}
    /\ failing' = NoBrowser /\ failPid' = NoBrowser
    /\ UNCHANGED <<envVars, state, active, lockVars, taskVars>>

-----------------------------------------------------------------------------
Afters == {"none", "delete", "bulk"}

\* What the event loop and the browser driver carry on with once started.
LaunchSteps(t) ==
    \/ LaunchStarts(t) \/ LaunchSetUp(t) \/ LaunchRaises(t)
    \/ LaunchAborts(t) \/ LaunchRegisters(t)

CloseSteps(t) == CloseContext(t) \/ CloseSucceeds(t) \/ CloseFails(t)

LaunchCalls(t) ==
    \/ LaunchBlocked(t) \/ LaunchQueues(t)
    \/ LaunchRefused(t) \/ LaunchAlreadyRunning(t) \/ LaunchAdmitted(t)

CloseCalls(t) == \E k \in Afters :
    \/ CloseQueues(t, k) \/ CloseActive(t, k) \/ CloseLingering(t, k) \/ CloseNothing(t, k)

TaskStep(t) ==
    \/ LaunchCalls(t) \/ LaunchSteps(t)
    \/ CloseCalls(t) \/ CloseSelfCancels(t) \/ CloseSteps(t)
    \/ WatcherQuits(t) \/ DeleteStopped(t) \/ CancelCall(t)

BrowserStep(b) == Crash(b) \/ ContextClosed(b) \/ CdpFails(b)

Next ==
    \/ \E t \in Tasks : TaskStep(t)
    \/ \E b \in Browsers : BrowserStep(b)
    \/ FailClosedEnds

Spec == Init /\ [][Next]_vars

\* A waiter woken by a release runs.
Resumes(t) ==
    /\ pc[t] \in Waiting
    /\ LaunchCalls(t) \/ CloseCalls(t) \/ CloseSelfCancels(t)

\* Where a task awaits a call of the driver that carries no timeout: starting the
\* driver, the pages' setup, context.close and playwright.stop.
Untimed == {"config", "setup", "abort", "context"}

\* The event loop runs every task that is ready; page.goto is timed and the polls of
\* a close are counted.  Close events come (see PromptEvents).  Nothing is assumed
\* of an untimed call, nor of the one that fail_closed_profile awaits.
Fairness ==
    /\ \A t \in Tasks :
          /\ WF_vars(Resumes(t))
          /\ WF_vars(LaunchRegisters(t))
          /\ WF_vars(CloseSucceeds(t) \/ CloseFails(t))
    /\ \A b \in Browsers : WF_vars(ContextClosed(b))

\* The driver answers every call, which the code does not see to.
DriverAnswers ==
    /\ \A t \in Tasks : WF_vars(LaunchSteps(t)) /\ WF_vars(CloseSteps(t))
    /\ WF_vars(FailClosedEnds)

AnsweredSpec == Spec /\ Fairness /\ DriverAnswers
FairSpec == Spec /\ Fairness

-----------------------------------------------------------------------------
(* Properties                                                              *)

\* Type invariant of every variable.
TypeOK ==
    /\ present \in BOOLEAN /\ dir \in BOOLEAN
    /\ state \in {"none", "launching", "running", "closing", "error", "stopped"}
    /\ active \in MaybeBrowser /\ proc \in MaybeBrowser
    /\ listening \subseteq Browsers
    /\ failing \in MaybeBrowser /\ failPid \in MaybeBrowser
    /\ held \in [Locks -> BOOLEAN]
    /\ waiters \in [Locks -> Seq(Tasks)]
    /\ pc \in [Tasks -> Critical \cup Waiting \cup {"idle", "unborn", "watching"}]
    /\ br \in [Tasks -> MaybeBrowser]
    /\ after \in [Tasks -> Afters]

\* While the profile exists at most one task is inside the launch or close section,
\* although release() checks no owner, callers are cancelled while they wait, and
\* health tasks cancel each other and themselves.
MutualExclusion ==
    present => \A t, u \in Tasks : pc[t] \in Critical /\ pc[u] \in Critical => t = u

\* A profile is marked "launching" only while somebody is launching it: the finally
\* clause's promise that no launch leaves the mark behind.
LaunchingIsHeld == state = "launching" => \E t \in Tasks : pc[t] \in Launching

\* A running process is registered, or being launched, closed or killed by somebody:
\* no browser outlives every record of it.
NoOrphan ==
    proc # NoBrowser =>
        \/ active = proc
        \/ \E t \in Tasks : pc[t] \in {"setup", "goto", "abort", "context", "reap"} /\ br[t] = proc
        \/ \E t \in Tasks : pc[t] = "linger"
        \/ failing # NoBrowser

\* Every call returns, unless some task hangs for ever in one untimed call of the
\* driver: nothing else, no cancelled waiter, ownerless release, refusal or clean-up,
\* strands a caller in the lock's queue.
CallsReturn ==
    \/ \A t \in Clients : []<>(pc[t] = "idle")
    \/ \E u \in Tasks, place \in Untimed : <>[](pc[u] = place)

\* A process is never left without its directory: neither the ephemeral wipe nor a
\* delete removes the directory of a running browser, whoever else is at work.
DirectoryInUse == proc # NoBrowser => dir

\* Every browser that was started, and what the life cycle implements: in whatever order
\* calls, clean-ups, deletes and crashes come, no browser is started over another's
\* entry or process, and none is registered over another.
Started == {b \in Browsers : pc[b] # "unborn"}
Slot == INSTANCE BrowserSlot WITH entry <- active, started <- Started
ImplementsSlot == Slot!Spec

\* A refused launch leaves a registered, running browser alone.
RefusalSparesBrowser ==
    [][\A t \in Clients : LaunchBlocked(t) \/ LaunchRefused(t) =>
            (active # NoBrowser /\ active = proc => proc' = proc)]_vars

\* The kill switch: a close that has begun on a registered browser stops it.
ClosingStopsBrowser ==
    \A b \in Browsers : (state = "closing" /\ active = b) ~> proc # b

\* A deleted profile has no browser.
DeletedMeansStopped == ~present => proc = NoBrowser
=============================================================================
