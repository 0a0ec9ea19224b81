------------------------------ MODULE Scheduler ------------------------------
(***************************************************************************)
(* Scheduled macros (scheduler_manager.py): a loop in the event loop that  *)
(* looks at the clock about once per second, and endpoints in worker       *)
(* threads that change the list it goes through and write it to a file.    *)
(***************************************************************************)
EXTENDS Integers, FiniteSets, SequencesExt

CONSTANTS Jobs,     \* schedules; an id that is gone stands for a new one later
          Editors,  \* worker threads
          Seconds   \* length of a minute, in ticks of the model

ASSUME SchedulerAssumption == Seconds \in Nat \ {0, 1}

VARIABLES
    second,    \* second of the clock
    passed,    \* a second has passed since the loop went to sleep
    next,      \* history: another minute has come since the loop last went through
    jobs,      \* self.schedules, as job ids
    at,        \* index of the for loop, 0 while the loop sleeps
    fired,     \* history: how often each job was triggered for that minute
    file,      \* what scheduled_macros.json holds: a sequence, or Torn
    edit       \* edit[e]: where add_schedule or delete_schedule is

clockVars == <<second, passed, next>>
loopVars == <<at, fired>>
fileVars == <<file, edit>>
schedulerVars == <<clockVars, jobs, loopVars, fileVars>>

Torn == <<"torn">>

SchedulerTypeOK ==
    /\ second \in 0..(Seconds - 1) /\ passed \in BOOLEAN /\ next \in BOOLEAN
    /\ jobs \in Seq(Jobs) /\ IsInjective(jobs)
    /\ at \in 0..(Cardinality(Jobs) + 1)
    /\ fired \in [Jobs -> Nat]
    /\ file = Torn \/ file \in Seq(Jobs)
    /\ edit \in [Editors -> {"idle", "changed", "writing"}]

Unfired == [j \in Jobs |-> 0]

SchedulerInit ==
    /\ second = 0 /\ passed = TRUE /\ next = TRUE
    /\ jobs = <<>> /\ file = <<>>
    /\ at = 0 /\ fired = Unfired
    /\ edit = [e \in Editors |-> "idle"]

ClockTicks ==
    /\ second' = (second + 1) % Seconds
    /\ passed' = TRUE
    /\ next' = (next \/ second' = 0)
    /\ UNCHANGED <<jobs, loopVars, fileVars>>

----------------------------------------------------------------------------
(* _loop                                                                   *)

Begins ==
    /\ at' = 1
    /\ next' = FALSE
    /\ fired' = IF next THEN Unfired ELSE fired

LoopLooks_Polls ==
    /\ at = 0 /\ second = 0 /\ Begins
    /\ UNCHANGED <<second, passed, jobs, fileVars>>

\* asyncio.sleep(1) takes a second or longer: the loop looks, and goes through
\* the list if it is second 0.
LoopLooks ==
    /\ at = 0 /\ passed
    /\ passed' = FALSE
    /\ IF second = 0 THEN Begins ELSE UNCHANGED <<next, loopVars>>
    /\ UNCHANGED <<second, jobs, fileVars>>

\* One turn of the for loop over the list as it is now: whether the expression
\* of the job matches and its macro still exists is left open.
LoopTriggers ==
    /\ at \in 1..Len(jobs)
    /\ \/ fired' = [fired EXCEPT ![jobs[at]] = @ + 1]
       \/ UNCHANGED fired
    /\ at' = at + 1
    /\ UNCHANGED <<clockVars, jobs, fileVars>>

LoopSleeps ==
    /\ at > Len(jobs)
    /\ at' = 0 /\ passed' = FALSE
    /\ UNCHANGED <<second, next, jobs, fired, fileVars>>

----------------------------------------------------------------------------
(* add_schedule and delete_schedule, in worker threads                     *)

\* uuid4: an id does not come back.
AddsJob(e, j) ==
    /\ edit[e] = "idle" /\ j \notin ToSet(jobs) /\ fired[j] = 0
    /\ jobs' = Append(jobs, j)
    /\ edit' = [edit EXCEPT ![e] = "changed"]
    /\ UNCHANGED <<clockVars, loopVars, file>>

DeletesJob(e, j) ==
    /\ edit[e] = "idle"
    /\ \E i \in DOMAIN jobs : jobs[i] = j /\ jobs' = RemoveAt(jobs, i)
    /\ edit' = [edit EXCEPT ![e] = "changed"]
    /\ UNCHANGED <<clockVars, loopVars, file>>

\* _save_schedules truncates the file and then writes the list, which another
\* thread may change meanwhile.
SaveOpens(e) ==
    /\ edit[e] = "changed"
    /\ file' = Torn
    /\ edit' = [edit EXCEPT ![e] = "writing"]
    /\ UNCHANGED <<clockVars, jobs, loopVars>>

SaveWrites(e) ==
    /\ edit[e] = "writing"
    /\ file' = jobs
    /\ edit' = [edit EXCEPT ![e] = "idle"]
    /\ UNCHANGED <<clockVars, jobs, loopVars>>

\* The process stops and starts again, not within one second 0: a file
\* that is not JSON is an empty list.
SchedulerRestarts ==
    /\ second # 0 /\ second' = second /\ passed' = TRUE /\ next' = next
    /\ edit' = [e \in Editors |-> "idle"]
    /\ jobs' = IF file = Torn THEN <<>> ELSE file
    /\ at' = 0
    /\ UNCHANGED <<fired, file>>

SchedulerNext ==
    \/ ClockTicks \/ LoopLooks \/ LoopTriggers \/ LoopSleeps \/ SchedulerRestarts
    \/ \E e \in Editors : SaveOpens(e) \/ SaveWrites(e)
                             \/ \E j \in Jobs : AddsJob(e, j) \/ DeletesJob(e, j)

SchedulerSpec == SchedulerInit /\ [][SchedulerNext]_schedulerVars

(* A schedule is triggered at most once for a minute, although the list    *)
(* moves under the loop while threads add and delete ("Only trigger at the *)
(* start of a minute (0 seconds) to prevent multiple triggers").           *)
OncePerMinute == \A j \in Jobs : fired[j] <= 1
=============================================================================
