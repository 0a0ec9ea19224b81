---------------------------- MODULE BrowserTasks ----------------------------
(***************************************************************************)
(* What drives the browser of one profile from above: the user, the cookie *)
(* robot, macro runs and the cookie endpoints, each of which launches,     *)
(* uses and closes it.  A call of launch_profile or close_profile is its   *)
(* outcome here, at the moment it takes effect under the profile's lock    *)
(* (the life cycle itself is ProfileLifecycle, and BrowserSlot says what it *)
(* promises); between the call and its outcome anything may happen.        *)
(***************************************************************************)
EXTENDS Integers, FiniteSets

CONSTANTS Warmings, \* tasks of CookieRobot.run, each created once (the bound)
          Runs,     \* calls of run_macro, get_ and set_profile_cookies
          User,     \* launches and closes through the API or by hand
          Nobody

ASSUME TasksAssumption ==
    /\ Warmings \cap Runs = {}
    /\ Nobody \notin Warmings \cup Runs \cup {User}
    /\ User \notin Warmings \cup Runs

VARIABLES
    entry,    \* who launched the browser in active_browsers[p], or Nobody
    stuck,    \* its last close failed: the state is "error", the entry is kept
    present,  \* the profile exists
    dir,      \* its directory exists
    warm,     \* warm[w]: where CookieRobot.run is
    status,   \* status[p]["state"]
    task,     \* _tasks[p]
    stopping, \* the task that stop_warming waits for
    run,      \* run[r]: where run_macro is
    found,    \* found[r]: was_running
    kept      \* history: whose task was cancelled, or whose last browser could not be closed

tasksVars == <<entry, stuck, present, dir, warm, status, task, stopping, run, found, kept>>
robotVars == <<warm, status, task, stopping>>
runVars == <<run, found>>

WarmPlaces == {"created", "launching", "settling", "visiting", "closing"}
RunPlaces == {"launching", "driving", "closing"}

TasksTypeOK ==
    /\ entry \in Warmings \cup Runs \cup {User, Nobody}
    /\ stuck \in BOOLEAN /\ present \in BOOLEAN /\ dir \in BOOLEAN
    /\ warm \in [Warmings -> WarmPlaces \cup {"unborn", "done", "interrupted"}]
    /\ status \in {"idle", "warming", "failed", "completed", "stopped"}
    /\ task \in Warmings \cup {Nobody}
    /\ stopping \in Warmings \cup {Nobody}
    /\ run \in [Runs -> RunPlaces \cup {"idle"}]
    /\ found \in [Runs -> BOOLEAN]
    /\ kept \subseteq Warmings \cup Runs

TasksInit ==
    /\ entry = Nobody /\ stuck = FALSE /\ present = TRUE /\ dir = TRUE
    /\ warm = [w \in Warmings |-> "unborn"]
    /\ status = "idle" /\ task = Nobody /\ stopping = Nobody
    /\ run = [r \in Runs |-> "idle"]
    /\ found = [r \in Runs |-> FALSE]
    /\ kept = {}

Live(w) == warm[w] \in WarmPlaces
Busy(a) == IF a \in Warmings THEN Live(a) ELSE a \in Runs /\ run[a] # "idle"

----------------------------------------------------------------------------
(* Outcomes of a launch and of a close made by a                           *)

\* A launch that returns an error cleans up after itself, and after whoever
\* has a browser there.
LaunchErrs == entry' = Nobody /\ stuck' = FALSE /\ UNCHANGED dir

LaunchGives(a) ==
    /\ present /\ entry = Nobody
    /\ entry' = a /\ stuck' = FALSE /\ dir' = TRUE

\* "Browser already running": only over an entry that a failed close left.
LaunchFinds ==
    /\ entry # Nobody /\ stuck
    /\ stuck' = FALSE
    /\ UNCHANGED <<entry, dir>>

CloseEnds ==
    \/ entry' = Nobody /\ stuck' = FALSE /\ UNCHANGED kept
    \/ /\ entry # Nobody
       /\ stuck' = TRUE
       /\ kept' = kept \cup ({entry} \ {User})
       /\ UNCHANGED entry

----------------------------------------------------------------------------
(* cookie_robot.py                                                         *)

\* start_warming: the status is read, the task registered; it starts later.
StartWarming(w) ==
    /\ warm[w] = "unborn" /\ status # "warming"
    /\ warm' = [warm EXCEPT ![w] = "created"]
    /\ task' = w
    /\ UNCHANGED <<entry, stuck, present, dir, status, stopping, runVars, kept>>

\* run, up to its first await.
WarmingBegins(w) ==
    /\ warm[w] = "created" /\ w # stopping
    /\ IF present
       THEN /\ warm' = [warm EXCEPT ![w] = "launching"]
            /\ status' = "warming"
            /\ UNCHANGED task
       ELSE /\ warm' = [warm EXCEPT ![w] = "done"]
            /\ status' = "failed" /\ task' = Nobody
    /\ UNCHANGED <<entry, stuck, present, dir, stopping, runVars, kept>>

\* A warming that gives up drops the task of the profile, whichever it is.
Fails(w) ==
    /\ warm' = [warm EXCEPT ![w] = "done"]
    /\ status' = "failed" /\ task' = Nobody

WarmingLaunches(w) ==
    /\ warm[w] = "launching" /\ w # stopping
    /\ \/ /\ LaunchGives(w) \/ LaunchFinds
          /\ warm' = [warm EXCEPT ![w] = "settling"]
          /\ UNCHANGED <<status, task>>
       \/ LaunchErrs /\ Fails(w)
    /\ UNCHANGED <<present, stopping, runVars, kept>>

\* Its launch is cancelled from within, by a page set-up that a failing one takes
\* down: CancelledError passes every handler of launch_profile and of run.
WarmingInterrupted(w) ==
    /\ warm[w] = "launching" /\ w # stopping
    /\ warm' = [warm EXCEPT ![w] = "interrupted"]
    /\ UNCHANGED <<entry, stuck, present, dir, status, task, stopping, runVars, kept>>

WarmingSettles_Waits(w) ==
    /\ warm[w] = "settling" /\ w # stopping /\ entry # Nobody
    /\ warm' = [warm EXCEPT ![w] = "visiting"]
    /\ UNCHANGED <<entry, stuck, present, dir, status, task, stopping, runVars, kept>>

\* A second later it looks for the browser again and takes what it finds.
WarmingSettles(w) ==
    /\ warm[w] = "settling" /\ w # stopping
    /\ IF entry = Nobody
       THEN Fails(w)
       ELSE warm' = [warm EXCEPT ![w] = "visiting"] /\ UNCHANGED <<status, task>>
    /\ UNCHANGED <<entry, stuck, present, dir, stopping, runVars, kept>>

\* Every site is visited or fails; the age of the profile is written down, in
\* its directory, which is made if it is missing.
WarmingVisits(w) ==
    /\ warm[w] = "visiting" /\ w # stopping
    /\ warm' = [warm EXCEPT ![w] = "closing"]
    /\ dir' = TRUE
    /\ UNCHANGED <<entry, stuck, present, status, task, stopping, runVars, kept>>

WarmingCloses(w) ==
    /\ warm[w] = "closing" /\ w # stopping
    /\ CloseEnds
    /\ warm' = [warm EXCEPT ![w] = "done"]
    /\ status' = "completed" /\ task' = Nobody
    /\ UNCHANGED <<present, dir, stopping, runVars>>

\* stop_warming: the task of the profile is cancelled, wherever it is.
StopWarming ==
    /\ stopping = Nobody
    /\ IF task # Nobody /\ Live(task)
       THEN stopping' = task /\ UNCHANGED <<status, task>>
       ELSE status' = "stopped" /\ task' = Nobody /\ UNCHANGED stopping
    /\ UNCHANGED <<entry, stuck, present, dir, warm, runVars, kept>>

\* CancelledError passes every handler of run; a launch under way may leave a
\* browser or not, a close may have closed it or not.  Then stop_warming goes on.
StopReturns ==
    /\ stopping # Nobody
    /\ \/ UNCHANGED <<entry, stuck, dir>>
       \/ warm[stopping] = "launching" /\ (LaunchErrs \/ LaunchGives(stopping))
       \/ warm[stopping] = "closing" /\ entry' = Nobody /\ stuck' = FALSE /\ UNCHANGED dir
    /\ warm' = [warm EXCEPT ![stopping] = "done"]
    /\ kept' = kept \cup {stopping}
    /\ status' = "stopped" /\ task' = Nobody /\ stopping' = Nobody
    /\ UNCHANGED <<present, runVars>>

----------------------------------------------------------------------------
(* macro_runner.run_macro, and browser_manager.get_ and set_profile_cookies *)

RunBegins(r) ==
    /\ run[r] = "idle"
    /\ found' = [found EXCEPT ![r] = entry # Nobody]
    /\ run' = [run EXCEPT ![r] = IF entry # Nobody THEN "driving" ELSE "launching"]
    /\ UNCHANGED <<entry, stuck, present, dir, robotVars, kept>>

\* The last way out is the CancelledError of WarmingInterrupted.
RunLaunches(r) ==
    /\ run[r] = "launching"
    /\ \/ LaunchGives(r) /\ run' = [run EXCEPT ![r] = "driving"] /\ kept' = kept \ {r}
       \/ LaunchFinds /\ run' = [run EXCEPT ![r] = "driving"] /\ UNCHANGED kept
       \/ LaunchErrs /\ run' = [run EXCEPT ![r] = "idle"] /\ UNCHANGED kept
       \/ run' = [run EXCEPT ![r] = "idle"] /\ UNCHANGED <<entry, stuck, dir, kept>>
    /\ UNCHANGED <<present, found, robotVars>>

RunStepFails_NoFinally(r) ==
    /\ run[r] = "driving"
    /\ run' = [run EXCEPT ![r] = "idle"]
    /\ UNCHANGED <<entry, stuck, present, dir, found, robotVars, kept>>

\* A step raises, or the browser is gone: the finally clause still runs.
RunStepFails(r) ==
    /\ run[r] = "driving"
    /\ run' = [run EXCEPT ![r] = IF found[r] THEN "idle" ELSE "closing"]
    /\ UNCHANGED <<entry, stuck, present, dir, found, robotVars, kept>>

RunCompletes(r) ==
    /\ run[r] = "driving" /\ entry # Nobody
    /\ run' = [run EXCEPT ![r] = IF found[r] THEN "idle" ELSE "closing"]
    /\ UNCHANGED <<entry, stuck, present, dir, found, robotVars, kept>>

RunCloses(r) ==
    /\ run[r] = "closing"
    /\ CloseEnds
    /\ run' = [run EXCEPT ![r] = "idle"]
    /\ UNCHANGED <<present, dir, found, robotVars>>

----------------------------------------------------------------------------
(* The user, and the browser by itself                                     *)

UserLaunches ==
    /\ LaunchGives(User) \/ LaunchFinds \/ (entry # Nobody /\ LaunchErrs)
    /\ UNCHANGED <<present, robotVars, runVars, kept>>

UserCloses ==
    /\ entry # Nobody
    /\ CloseEnds
    /\ UNCHANGED <<present, dir, robotVars, runVars>>

\* DELETE /api/profiles/{p}: closes, then deletes.
UserDeletes ==
    /\ present /\ present' = FALSE /\ dir' = FALSE
    /\ entry' = Nobody /\ stuck' = FALSE
    /\ UNCHANGED <<robotVars, runVars, kept>>

BrowserDies ==
    /\ entry # Nobody
    /\ entry' = Nobody /\ stuck' = FALSE
    /\ UNCHANGED <<present, dir, robotVars, runVars, kept>>

WarmingStep(w) ==
    \/ WarmingBegins(w) \/ WarmingLaunches(w) \/ WarmingInterrupted(w) \/ WarmingSettles(w)
    \/ WarmingVisits(w) \/ WarmingCloses(w)

RunStep(r) == RunLaunches(r) \/ RunStepFails(r) \/ RunCompletes(r) \/ RunCloses(r)

TasksNext ==
    \/ \E w \in Warmings : StartWarming(w) \/ WarmingStep(w)
    \/ StopWarming \/ StopReturns
    \/ \E r \in Runs : RunBegins(r) \/ RunStep(r)
    \/ UserLaunches \/ UserCloses \/ UserDeletes \/ BrowserDies

\* A created task runs, its sleep ends, and a cancelled one ends.  Nothing is assumed
\* of a launch, of a close, or of a visit: of its awaits only page.goto carries a
\* timeout.
TasksFairness ==
    /\ \A w \in Warmings : WF_tasksVars(WarmingBegins(w)) /\ WF_tasksVars(WarmingSettles(w))
    /\ WF_tasksVars(StopReturns)

\* The places from which a warming need not come back.
Untimed == {"launching", "visiting", "closing", "interrupted"}

TasksSpec == TasksInit /\ [][TasksNext]_tasksVars

----------------------------------------------------------------------------
(* A browser that a macro or a warming launched does not outlive it, unless *)
(* the warming was cancelled or the browser could not be closed: errors,   *)
(* crashes and others' launches and closes in between make no difference   *)
(* (the finally clause of run_macro, the last part of CookieRobot.run).    *)
NothingLeftBehind ==
    entry \in Warmings \cup Runs => Busy(entry) \/ entry \in kept

(* However starts, stops and ends overlap, and however often the browser is *)
(* taken away, warmings come to their end and leave no mark "warming", for *)
(* which start_warming would skip the profile ever after; unless one hangs  *)
(* in an untimed call of the driver, or its launch was cancelled from      *)
(* within (CookieRobot.start_warming, stop_warming, run).                  *)
WarmingsEnd ==
    \/ []<>(status # "warming" /\ \A w \in Warmings : ~Live(w))
    \/ \E w \in Warmings, place \in Untimed : <>[](warm[w] = place)

(* Not so in the code, see the README: a mark that no warming stands for,   *)
(* and what stop_warming answers.                                          *)
MarkIsReal == status = "warming" => \E w \in Warmings : Live(w)

StoppedMeansStopped ==
    status = "stopped" => \A w \in Warmings : warm[w] \in {"unborn", "created", "done"}
=============================================================================
