------------------------------ MODULE Rotation ------------------------------
(***************************************************************************)
(* The profile rotator and the system monitor (profile_rotator.py,         *)
(* system_monitor.py): loops that keep up to MaxConcurrent profiles open,  *)
(* each with a session in a dictionary that the loops, the warm-ups and    *)
(* the monitor read before an await and change after it.  Launches and     *)
(* closes are their outcomes, as in BrowserTasks.                          *)
(***************************************************************************)
EXTENDS Integers, FiniteSets

CONSTANTS Profiles,
          MaxConcurrent, \* rotator.max_concurrent
          Loops,         \* tasks _rotation_loop, each started once (the bound)
          WarmupBound,   \* bound: warm-ups of a profile still under way when it is picked
          Rotator, Other, None

ASSUME RotationAssumption ==
    /\ None \notin Profiles
    /\ MaxConcurrent \in Nat \ {0} /\ WarmupBound \in Nat \ {0}
    /\ IsFiniteSet(Loops) /\ IsFiniteSet(Profiles)
    /\ Cardinality({Rotator, Other, None}) = 3

VARIABLES
    opened,   \* opened[p]: who launched the browser in active_browsers, or None
    sessions, \* the keys of profile_session_times
    on,       \* is_running
    loop,     \* loop[l]: where a loop is
    expired,  \* expired[l]: what is left of the snapshot that the loop goes through
    target,   \* target[l]: the profile that the loop launches or closes
    warmups,  \* warmups[p]: warm-up tasks that run for p
    monitor,  \* the profile that the monitor closes, or None
    peak,     \* history: most loops that ran at once
    lost      \* history: profiles of which a close failed

rotationVars == <<opened, sessions, on, loop, expired, target, warmups, monitor, peak, lost>>

LoopPlaces == {"sleeping", "expiring", "closing", "launching"}

RotationTypeOK ==
    /\ opened \in [Profiles -> {Rotator, Other, None}]
    /\ sessions \subseteq Profiles
    /\ on \in BOOLEAN
    /\ loop \in [Loops -> LoopPlaces \cup {"unborn", "ended"}]
    /\ expired \in [Loops -> SUBSET Profiles]
    /\ target \in [Loops -> Profiles \cup {None}]
    /\ warmups \in [Profiles -> Nat]
    /\ monitor \in Profiles \cup {None}
    /\ peak \in 0..Cardinality(Loops)
    /\ lost \subseteq Profiles

RotationInit ==
    /\ opened = [p \in Profiles |-> None]
    /\ sessions = {} /\ on = FALSE
    /\ loop = [l \in Loops |-> "unborn"]
    /\ expired = [l \in Loops |-> {}]
    /\ target = [l \in Loops |-> None]
    /\ warmups = [p \in Profiles |-> 0]
    /\ monitor = None
    /\ peak = 0 /\ lost = {}

Running == {p \in Profiles : opened[p] # None}
Alive == {l \in Loops : loop[l] \in LoopPlaces}
Goes(l, place) == loop' = [loop EXCEPT ![l] = place]

----------------------------------------------------------------------------
(* start and stop                                                          *)

StartRotator(l) ==
    /\ ~on /\ loop[l] = "unborn"
    /\ on' = TRUE
    /\ Goes(l, "sleeping")
    /\ peak' = LET n == Cardinality(Alive \cup {l}) IN IF n > peak THEN n ELSE peak
    /\ UNCHANGED <<opened, sessions, expired, target, warmups, monitor, lost>>

\* Only the flag: a loop sees it the next time it comes to its top.
StopRotator ==
    /\ on /\ on' = FALSE
    /\ UNCHANGED <<opened, sessions, loop, expired, target, warmups, monitor, peak, lost>>

----------------------------------------------------------------------------
(* _rotation_loop                                                          *)

LoopWakes_Always(l) ==
    /\ loop[l] = "sleeping"
    /\ \E E \in SUBSET sessions :
          expired' = [expired EXCEPT ![l] = E] /\ Goes(l, "expiring")
    /\ UNCHANGED <<opened, sessions, on, target, warmups, monitor, peak, lost>>

\* A pass begins, the first one at once.  Any sessions may be over their random
\* time, which is decided as the list is gone through.
LoopWakes(l) ==
    /\ loop[l] = "sleeping"
    /\ IF on
       THEN \E E \in SUBSET sessions :
               expired' = [expired EXCEPT ![l] = E] /\ Goes(l, "expiring")
       ELSE Goes(l, "ended") /\ UNCHANGED expired
    /\ UNCHANGED <<opened, sessions, on, target, warmups, monitor, peak, lost>>

LoopCloses(l, p) ==
    /\ loop[l] = "expiring" /\ p \in expired[l]
    /\ expired' = [expired EXCEPT ![l] = @ \ {p}]
    /\ target' = [target EXCEPT ![l] = p]
    /\ Goes(l, "closing")
    /\ UNCHANGED <<opened, sessions, on, warmups, monitor, peak, lost>>

\* What close_profile does to p: it closes whatever is open, or fails.
Closes(p) ==
    \/ opened' = [opened EXCEPT ![p] = None] /\ UNCHANGED lost
    \/ opened[p] # None /\ lost' = lost \cup {p} /\ UNCHANGED opened

\* del of a key that is gone raises, and the rest of the pass is skipped.
LoopClosed(l) ==
    /\ loop[l] = "closing"
    /\ Closes(target[l])
    /\ sessions' = sessions \ {target[l]}
    /\ Goes(l, IF target[l] \in sessions THEN "expiring" ELSE "sleeping")
    /\ expired' = IF target[l] \in sessions THEN expired ELSE [expired EXCEPT ![l] = {}]
    /\ target' = [target EXCEPT ![l] = None]
    /\ UNCHANGED <<on, warmups, monitor, peak>>

LoopPicks_AnyRoom(l) ==
    /\ loop[l] = "expiring" /\ expired[l] = {}
    /\ sessions' = sessions \cap Running
    /\ \E p \in Profiles \ Running :
          Goes(l, "launching") /\ target' = [target EXCEPT ![l] = p]
    /\ UNCHANGED <<opened, on, expired, warmups, monitor, peak, lost>>

\* Sessions of what no longer runs are dropped; with room left, one of the
\* profiles that do not run is launched, unless the machine is too busy.
LoopPicks(l) ==
    /\ loop[l] = "expiring" /\ expired[l] = {}
    /\ sessions' = sessions \cap Running
    /\ \/ /\ Cardinality(sessions') < MaxConcurrent
          /\ \E p \in Profiles \ Running :
                /\ warmups[p] < WarmupBound /\ Goes(l, "launching")
                /\ target' = [target EXCEPT ![l] = p]
       \/ Goes(l, "sleeping") /\ UNCHANGED target
    /\ UNCHANGED <<opened, on, expired, warmups, monitor, peak, lost>>

\* The launch returns: a session and a warm-up, or an error, after which
\* nothing of the profile runs.  An entry left by a failed close is found.
LoopLaunched(l) ==
    /\ loop[l] = "launching"
    /\ LET p == target[l] IN
       \/ /\ opened[p] = None \/ p \in lost
          /\ opened' = [opened EXCEPT ![p] = IF @ = None THEN Rotator ELSE @]
          /\ sessions' = sessions \cup {p}
          /\ warmups' = [warmups EXCEPT ![p] = @ + 1]
       \/ /\ opened' = [opened EXCEPT ![p] = None]
          /\ UNCHANGED <<sessions, warmups>>
    /\ Goes(l, "sleeping")
    /\ target' = [target EXCEPT ![l] = None]
    /\ UNCHANGED <<on, expired, monitor, peak, lost>>

\* The launch is cancelled from within, by a page set-up that a failing one takes
\* down: CancelledError ends the loop, and is_running stays as it is.
LoopDies(l) ==
    /\ loop[l] = "launching"
    /\ Goes(l, "ended")
    /\ target' = [target EXCEPT ![l] = None]
    /\ UNCHANGED <<opened, sessions, on, expired, warmups, monitor, peak, lost>>

----------------------------------------------------------------------------
(* _warmup_routine                                                         *)

\* It browses, or finds that the profile does not run.
WarmupEnds(p) ==
    /\ warmups[p] > 0
    /\ warmups' = [warmups EXCEPT ![p] = @ - 1]
    /\ UNCHANGED <<opened, sessions, on, loop, expired, target, monitor, peak, lost>>

\* An exception on its page: the profile is closed and its session dropped,
\* whoever has opened the browser meanwhile.
WarmupFails(p) ==
    /\ warmups[p] > 0
    /\ warmups' = [warmups EXCEPT ![p] = @ - 1]
    /\ Closes(p)
    /\ sessions' = sessions \ {p}
    /\ UNCHANGED <<on, loop, expired, target, monitor, peak>>

----------------------------------------------------------------------------
(* system_monitor._emergency_memory_release: the oldest session is closed  *)

MonitorPicks(p) ==
    /\ monitor = None /\ Running # {} /\ p \in sessions
    /\ monitor' = p
    /\ UNCHANGED <<opened, sessions, on, loop, expired, target, warmups, peak, lost>>

MonitorCloses ==
    /\ monitor # None
    /\ Closes(monitor)
    /\ sessions' = sessions \ {monitor}
    /\ monitor' = None
    /\ UNCHANGED <<on, loop, expired, target, warmups, peak>>

----------------------------------------------------------------------------
(* Everybody else                                                          *)

OthersOpen(p) ==
    /\ opened[p] = None
    /\ opened' = [opened EXCEPT ![p] = Other]
    /\ UNCHANGED <<sessions, on, loop, expired, target, warmups, monitor, peak, lost>>

OthersClose(p) ==
    /\ opened[p] # None
    /\ opened' = [opened EXCEPT ![p] = None]
    /\ UNCHANGED <<sessions, on, loop, expired, target, warmups, monitor, peak, lost>>

LoopStep(l) ==
    \/ LoopWakes(l) \/ (\E p \in Profiles : LoopCloses(l, p)) \/ LoopClosed(l)
    \/ LoopPicks(l) \/ LoopLaunched(l) \/ LoopDies(l)

WarmupStep(p) == WarmupEnds(p) \/ WarmupFails(p)

RotationNext ==
    \/ \E l \in Loops : StartRotator(l) \/ LoopStep(l)
    \/ StopRotator
    \/ \E p \in Profiles : WarmupStep(p) \/ MonitorPicks(p) \/ OthersOpen(p) \/ OthersClose(p)
    \/ MonitorCloses

RotationSpec == RotationInit /\ [][RotationNext]_rotationVars

\* Sleeps end and the loop's own code runs.  Nothing is assumed of a launch or of a
\* close, which wait for the driver without a timeout.
RotationFairness ==
    \A l \in Loops :
       /\ WF_rotationVars(LoopWakes(l))
       /\ WF_rotationVars((\E p \in Profiles : LoopCloses(l, p)) \/ LoopPicks(l))

----------------------------------------------------------------------------
(* The rotator never has more sessions than it may, however late the room  *)
(* was counted; a loop that a stop and a start left behind adds one        *)
(* (the check of _rotation_loop before the launch, the entry after it).    *)
SessionsAreBounded ==
    Cardinality(sessions) <= MaxConcurrent + (IF peak > 1 THEN peak - 1 ELSE 0)

(* A rotator that is stopped for good comes to rest, whatever loops earlier *)
(* stops and starts left behind, unless one of them hangs in a launch or a *)
(* close (stop sets a flag that a loop reads at the top of a pass).        *)
StopEnds ==
    <>[](~on) =>
       \/ <>[](Alive = {})
       \/ \E l \in Loops, place \in {"closing", "launching"} : <>[](loop[l] = place)

(* Not so in the code, see the README: a loop that dies leaves the flag.    *)
OnMeansRotating == on => Alive # {}
=============================================================================
