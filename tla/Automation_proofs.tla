-------------------------- MODULE Automation_proofs --------------------------
(***************************************************************************)
(* Theorems about what drives browsers by itself: the tasks that launch    *)
(* one and close it again, the profile rotator, and the scheduled macros;  *)
(* each for its own specification and any number of tasks, profiles,       *)
(* loops, jobs and threads.                                                *)
(***************************************************************************)
EXTENDS BrowserTasks, Rotation, Scheduler, FiniteSetTheorems, SequenceTheorems, TLAPS

-----------------------------------------------------------------------------
(* BrowserTasks.  The inductive invariant: a browser that a warming or a   *)
(* run has launched finds it at one of the places from which every way     *)
(* leads through its close, and a run knows that it was the one to launch. *)

WarmingWillClose ==
    \A w \in Warmings :
        entry = w => warm[w] \in {"settling", "visiting", "closing"} \/ w \in kept

RunWillClose ==
    \A r \in Runs :
       /\ run[r] = "launching" => ~found[r]
       /\ entry = r => (run[r] \in {"driving", "closing"} /\ ~found[r]) \/ r \in kept

TasksInv == TasksTypeOK /\ WarmingWillClose /\ RunWillClose

\* Who launches is one of three, and none of them is Nobody.
LEMMA LaunchersAreApart ==
    /\ \A w \in Warmings : w \notin Runs /\ w # User /\ w # Nobody
    /\ \A r \in Runs : r \notin Warmings /\ r # User /\ r # Nobody
    /\ User # Nobody
BY TasksAssumption

\* A close leaves no browser, or one that is known to be stuck.
LEMMA CloseEndsKeeps ==
    ASSUME TasksInv, CloseEnds
    PROVE  /\ entry' \in Warmings \cup Runs \cup {User, Nobody}
           /\ stuck' \in BOOLEAN
           /\ kept' \subseteq Warmings \cup Runs /\ kept \subseteq kept'
           /\ \A a \in Warmings \cup Runs : entry' = a => a \in kept'
BY LaunchersAreApart DEF CloseEnds, TasksInv, TasksTypeOK

LEMMA TasksInvNext ==
    ASSUME TasksInv, [TasksNext]_tasksVars
    PROVE  TasksInv'
<1> USE LaunchersAreApart DEF TasksInv
<1> USE DEF robotVars, runVars
<1>1. ASSUME NEW w \in Warmings, StartWarming(w) \/ WarmingBegins(w) \/ WarmingSettles(w)
                                 \/ WarmingVisits(w) \/ WarmingInterrupted(w)
      PROVE  TasksInv'
  <2> USE DEF StartWarming, WarmingBegins, WarmingSettles, WarmingVisits, WarmingInterrupted,
              Fails, WarmPlaces, RunPlaces
  <2>1. TasksTypeOK' BY <1>1 DEF TasksTypeOK
  <2>2. UNCHANGED <<entry, kept, run, found>> BY <1>1
  <2>3. WarmingWillClose' BY <1>1, <2>2 DEF TasksTypeOK, WarmingWillClose
  <2>4. RunWillClose' BY <2>2 DEF RunWillClose
  <2> QED BY <2>1, <2>3, <2>4
<1>2. ASSUME NEW w \in Warmings, WarmingLaunches(w) PROVE TasksInv'
  <2> USE DEF WarmingLaunches, LaunchGives, LaunchErrs, LaunchFinds, Fails, WarmPlaces, RunPlaces
  <2>1. TasksTypeOK' BY <1>2 DEF TasksTypeOK
  <2>2. WarmingWillClose' BY <1>2 DEF TasksTypeOK, WarmingWillClose
  <2>3. RunWillClose' BY <1>2 DEF RunWillClose
  <2> QED BY <2>1, <2>2, <2>3
<1>3. ASSUME NEW w \in Warmings, WarmingCloses(w) PROVE TasksInv'
  <2>1. TasksTypeOK'
    BY <1>3, CloseEndsKeeps DEF WarmingCloses, TasksTypeOK, WarmPlaces, RunPlaces
  <2>2. WarmingWillClose' /\ RunWillClose'
    BY <1>3, CloseEndsKeeps DEF WarmingCloses, WarmingWillClose, RunWillClose
  <2> QED BY <2>1, <2>2
<1>4. CASE StopWarming
  BY <1>4 DEF StopWarming, TasksTypeOK, WarmingWillClose, RunWillClose
<1>5. CASE StopReturns
  <2> USE <1>5 DEF StopReturns, LaunchGives, LaunchErrs, WarmPlaces, RunPlaces
  <2>1. stopping \in Warmings BY DEF TasksTypeOK
  <2>2. TasksTypeOK' BY <2>1 DEF TasksTypeOK
  <2>3. WarmingWillClose' BY <2>1 DEF TasksTypeOK, WarmingWillClose
  <2>4. RunWillClose' BY <2>1 DEF TasksTypeOK, RunWillClose
  <2> QED BY <2>2, <2>3, <2>4
<1>6. ASSUME NEW r \in Runs, RunBegins(r) \/ RunStepFails(r) \/ RunCompletes(r)
      PROVE  TasksInv'
  <2> USE DEF RunBegins, RunStepFails, RunCompletes, WarmPlaces, RunPlaces
  <2>1. TasksTypeOK' BY <1>6 DEF TasksTypeOK
  <2>2. WarmingWillClose' BY <1>6 DEF WarmingWillClose
  <2>3. RunWillClose' BY <1>6 DEF TasksTypeOK, RunWillClose
  <2> QED BY <2>1, <2>2, <2>3
<1>7. ASSUME NEW r \in Runs, RunLaunches(r) PROVE TasksInv'
  <2> USE DEF RunLaunches, LaunchGives, LaunchErrs, LaunchFinds, WarmPlaces, RunPlaces
  <2>1. TasksTypeOK' BY <1>7 DEF TasksTypeOK
  <2>2. WarmingWillClose' BY <1>7 DEF WarmingWillClose
  <2>3. RunWillClose' BY <1>7 DEF TasksTypeOK, RunWillClose
  <2> QED BY <2>1, <2>2, <2>3
<1>8. ASSUME NEW r \in Runs, RunCloses(r) PROVE TasksInv'
  <2>1. TasksTypeOK'
    BY <1>8, CloseEndsKeeps DEF RunCloses, TasksTypeOK, WarmPlaces, RunPlaces
  <2>2. WarmingWillClose' /\ RunWillClose'
    BY <1>8, CloseEndsKeeps DEF RunCloses, TasksTypeOK, WarmingWillClose, RunWillClose
  <2> QED BY <2>1, <2>2
<1>9. CASE UserLaunches
  BY <1>9 DEF UserLaunches, LaunchGives, LaunchErrs, LaunchFinds, TasksTypeOK, WarmingWillClose,
     RunWillClose
<1>10. CASE UserCloses
  <2>1. TasksTypeOK' BY <1>10, CloseEndsKeeps DEF UserCloses, TasksTypeOK
  <2>2. WarmingWillClose' /\ RunWillClose'
    BY <1>10, CloseEndsKeeps DEF UserCloses, WarmingWillClose, RunWillClose
  <2> QED BY <2>1, <2>2
<1>11. CASE UserDeletes \/ BrowserDies
  BY <1>11 DEF UserDeletes, BrowserDies, TasksTypeOK, WarmingWillClose, RunWillClose
<1>12. CASE UNCHANGED tasksVars
  BY <1>12 DEF tasksVars, TasksTypeOK, WarmingWillClose, RunWillClose
<1> QED BY <1>1, <1>2, <1>3, <1>4, <1>5, <1>6, <1>7, <1>8, <1>9, <1>10, <1>11, <1>12
        DEF TasksNext, WarmingStep, RunStep

LEMMA TasksInvariant == TasksSpec => []TasksInv
<1>1. TasksInit => TasksInv
  BY LaunchersAreApart DEF TasksInit, TasksInv, TasksTypeOK, WarmingWillClose, RunWillClose
<1> QED BY <1>1, TasksInvNext, PTL DEF TasksSpec

(* However many warmings and runs share a profile with the user, a browser *)
(* that one of them has launched is closed by it, or was cancelled or      *)
(* could not be closed (CookieRobot.run, run_macro).                       *)
THEOREM BrowsersAreClosedAgain == TasksSpec => []NothingLeftBehind
<1>1. TasksInv => NothingLeftBehind
  BY LaunchersAreApart DEF TasksInv, TasksTypeOK, WarmingWillClose, RunWillClose, NothingLeftBehind,
     Busy, Live, WarmPlaces
<1> QED BY <1>1, TasksInvariant, PTL
-----------------------------------------------------------------------------
(* Rotation.  The inductive invariant counts the loops that have seen room *)
(* and not yet entered their session: each is a session to come, and there *)
(* are no more of them than there have been loops at once.                 *)

Launching == {l \in Loops : loop[l] = "launching"}
Spare(n) == IF n > 1 THEN n - 1 ELSE 0

TargetsAreProfiles ==
    \A l \in Loops : loop[l] \in {"closing", "launching"} => target[l] \in Profiles

LoopsAreCounted == Cardinality(Alive) <= peak

RoomIsKept == Cardinality(sessions) + Cardinality(Launching) <= MaxConcurrent + Spare(peak)

RotationInv == RotationTypeOK /\ TargetsAreProfiles /\ LoopsAreCounted /\ RoomIsKept

LEMMA SpareGrows ==
    ASSUME NEW m \in Nat, NEW n \in Nat, m <= n
    PROVE  Spare(m) \in Nat /\ Spare(n) \in Nat /\ Spare(n) >= Spare(m)
BY DEF Spare

\* What is counted is finite.
LEMMA RotationCounts ==
    ASSUME RotationTypeOK
    PROVE  /\ IsFiniteSet(sessions) /\ Cardinality(sessions) \in Nat
           /\ IsFiniteSet(Launching) /\ Cardinality(Launching) \in Nat
           /\ IsFiniteSet(Alive) /\ Cardinality(Alive) \in Nat
           /\ Cardinality(Launching) <= Cardinality(Alive)
           /\ Cardinality(Loops) \in Nat
           /\ peak \in Nat /\ MaxConcurrent \in Nat /\ Spare(peak) \in Nat
<1>1. IsFiniteSet(Profiles) /\ IsFiniteSet(Loops) BY RotationAssumption
<1>2. IsFiniteSet(sessions) BY <1>1, FS_Subset DEF RotationTypeOK
<1>3. IsFiniteSet(Alive)
  <2>1. Alive \in SUBSET Loops BY DEF Alive
  <2> QED BY <1>1, <2>1, FS_Subset
<1>4. IsFiniteSet(Launching) /\ Cardinality(Launching) <= Cardinality(Alive)
  <2>1. Launching \in SUBSET Alive BY DEF Launching, Alive, LoopPlaces
  <2> QED BY <1>3, <2>1, FS_Subset
<1>5. Cardinality(Loops) \in Nat BY <1>1, FS_CardinalityType
<1>6. peak \in Nat BY <1>5 DEF RotationTypeOK
<1>7. MaxConcurrent \in Nat /\ Spare(peak) \in Nat BY <1>6, RotationAssumption DEF Spare
<1> QED BY <1>2, <1>3, <1>4, <1>5, <1>6, <1>7, FS_CardinalityType

\* A step that adds no session and starts no launch and no loop keeps the room.
LEMMA RoomStays ==
    ASSUME RotationInv, RotationTypeOK', peak' = peak,
           sessions' \subseteq sessions, Launching' \subseteq Launching, Alive' \subseteq Alive
    PROVE  LoopsAreCounted' /\ RoomIsKept'
<1>1. /\ Cardinality(sessions') <= Cardinality(sessions)
      /\ Cardinality(Launching') <= Cardinality(Launching)
      /\ Cardinality(Alive') <= Cardinality(Alive)
  BY RotationCounts, FS_Subset DEF RotationInv
<1>2. Cardinality(sessions') \in Nat /\ Cardinality(Launching') \in Nat /\ Cardinality(Alive') \in Nat
  <2>1. IsFiniteSet(sessions') /\ IsFiniteSet(Launching') /\ IsFiniteSet(Alive')
    BY RotationCounts, FS_Subset DEF RotationInv
  <2> QED BY <2>1, FS_CardinalityType
<1>3. Spare(peak') = Spare(peak) OBVIOUS
<1> QED BY <1>1, <1>2, <1>3, RotationCounts DEF RotationInv, LoopsAreCounted, RoomIsKept

\* A loop is started.
LEMMA RotatorStarts ==
    ASSUME RotationInv, NEW l \in Loops, StartRotator(l)
    PROVE  RotationInv'
<1> DEFINE n == Cardinality(Alive \cup {l})
<1>1. IsFiniteSet(Alive \cup {l}) /\ n \in Nat /\ n <= Cardinality(Loops)
  <2>1. (Alive \cup {l}) \in SUBSET Loops BY DEF Alive
  <2> QED BY <2>1, RotationAssumption, FS_Subset, FS_CardinalityType
<1>2. peak' = IF n > peak THEN n ELSE peak BY DEF StartRotator
<1>3. loop' = [loop EXCEPT ![l] = "sleeping"] BY DEF StartRotator, Goes
<1>4. Alive' = Alive \cup {l} /\ Launching' = Launching
  BY <1>3 DEF StartRotator, Alive, Launching, LoopPlaces, RotationInv, RotationTypeOK
<1> HIDE DEF n
<1>5. peak' \in 0..Cardinality(Loops) /\ peak' >= n /\ peak' >= peak
  BY <1>1, <1>2, RotationCounts DEF RotationInv, RotationTypeOK
<1>6. RotationTypeOK'
  BY <1>3, <1>5 DEF StartRotator, RotationInv, RotationTypeOK, LoopPlaces
<1>7. TargetsAreProfiles' BY <1>3 DEF StartRotator, RotationInv, RotationTypeOK, TargetsAreProfiles
<1>8. LoopsAreCounted' BY <1>4, <1>5 DEF n, LoopsAreCounted
<1>9. Spare(peak') >= Spare(peak) /\ Spare(peak') \in Nat
  <2>1. peak \in Nat /\ Cardinality(Loops) \in Nat BY RotationCounts DEF RotationInv
  <2>2. peak' \in Nat BY <1>5, <2>1
  <2>3. peak <= peak' BY <1>5, <2>1, <2>2
  <2> QED BY <2>1, <2>2, <2>3, SpareGrows
<1>10. RoomIsKept'
  BY <1>4, <1>9, RotationCounts DEF StartRotator, RotationInv, RoomIsKept
<1> QED BY <1>6, <1>7, <1>8, <1>10 DEF RotationInv

\* Room is seen, and a launch begins.
LEMMA LoopPicksOne ==
    ASSUME RotationInv, NEW l \in Loops, NEW p \in Profiles,
           loop[l] = "expiring", Goes(l, "launching"), target' = [target EXCEPT ![l] = p],
           sessions' = sessions \cap Running, Cardinality(sessions') < MaxConcurrent,
           UNCHANGED <<opened, on, expired, warmups, monitor, peak, lost>>
    PROVE  RotationInv'
<1>1. RotationTypeOK'
  BY DEF RotationInv, RotationTypeOK, Goes, LoopPlaces
<1>2. TargetsAreProfiles'
  BY DEF RotationInv, RotationTypeOK, Goes, TargetsAreProfiles
<1>3. Alive' = Alive /\ l \in Alive
  BY DEF RotationInv, RotationTypeOK, Goes, Alive, LoopPlaces
<1>4. LoopsAreCounted' BY <1>3 DEF RotationInv, LoopsAreCounted
<1>5. peak >= 1
  <2>1. Cardinality(Alive) # 0 BY <1>3, RotationCounts, FS_EmptySet DEF RotationInv
  <2> QED BY <2>1, RotationCounts DEF RotationInv, LoopsAreCounted
<1>6. /\ Cardinality(Launching') \in Nat /\ Cardinality(sessions') \in Nat
      /\ Cardinality(Launching') <= peak
  <2>1. Launching' \in SUBSET Alive BY <1>3 DEF Launching, Alive, LoopPlaces
  <2>2. IsFiniteSet(Launching') /\ Cardinality(Launching') <= Cardinality(Alive)
    BY <2>1, RotationCounts, FS_Subset DEF RotationInv
  <2>3. IsFiniteSet(sessions') BY RotationCounts, FS_Subset DEF RotationInv
  <2> QED BY <2>2, <2>3, FS_CardinalityType, RotationCounts DEF RotationInv, LoopsAreCounted
<1>7. RoomIsKept'
  BY <1>5, <1>6, RotationCounts DEF RotationInv, RoomIsKept, Spare
<1> QED BY <1>1, <1>2, <1>4, <1>7 DEF RotationInv

\* A launch returns: its session takes the place that was counted for it.
LEMMA LaunchReturns ==
    ASSUME RotationInv, NEW l \in Loops, LoopLaunched(l)
    PROVE  RotationInv'
<1> DEFINE p == target[l]
<1>1. loop[l] = "launching" /\ p \in Profiles
  BY DEF LoopLaunched, RotationInv, TargetsAreProfiles
<1>2. /\ loop' = [loop EXCEPT ![l] = "sleeping"] /\ target' = [target EXCEPT ![l] = None]
      /\ UNCHANGED <<on, expired, monitor, peak, lost>>
  BY DEF LoopLaunched, Goes
<1>3. /\ sessions' \subseteq sessions \cup {p}
      /\ opened' \in [Profiles -> {Rotator, Other, None}] /\ warmups' \in [Profiles -> Nat]
  BY <1>1 DEF LoopLaunched, RotationInv, RotationTypeOK
<1> HIDE DEF p
<1>4. RotationTypeOK' BY <1>1, <1>2, <1>3 DEF RotationInv, RotationTypeOK, LoopPlaces
<1>5. TargetsAreProfiles' BY <1>2 DEF RotationInv, RotationTypeOK, TargetsAreProfiles
<1>6. Alive' = Alive /\ Launching' = Launching \ {l} /\ l \in Launching
  BY <1>1, <1>2 DEF RotationInv, RotationTypeOK, Alive, Launching, LoopPlaces
<1>7. LoopsAreCounted' BY <1>2, <1>6 DEF RotationInv, LoopsAreCounted
<1>8. Cardinality(Launching') = Cardinality(Launching) - 1
  BY <1>6, RotationCounts, FS_RemoveElement DEF RotationInv
<1>9. Cardinality(sessions') <= Cardinality(sessions) + 1 /\ Cardinality(sessions') \in Nat
  <2>1. /\ IsFiniteSet(sessions \cup {p})
        /\ Cardinality(sessions \cup {p}) <= Cardinality(sessions) + 1
    <3>1. IsFiniteSet(sessions) /\ Cardinality(sessions) \in Nat BY RotationCounts DEF RotationInv
    <3>2. /\ IsFiniteSet(sessions \cup {p})
          /\ Cardinality(sessions \cup {p}) =
                IF p \in sessions THEN Cardinality(sessions) ELSE Cardinality(sessions) + 1
      BY <3>1, FS_AddElement
    <3> QED BY <3>1, <3>2
  <2>2. IsFiniteSet(sessions') /\ Cardinality(sessions') <= Cardinality(sessions \cup {p})
    BY <1>3, <2>1, FS_Subset
  <2> QED BY <2>1, <2>2, FS_CardinalityType, RotationCounts DEF RotationInv
<1>10. RoomIsKept'
  BY <1>2, <1>8, <1>9, RotationCounts DEF RotationInv, RoomIsKept, Spare
<1> QED BY <1>4, <1>5, <1>7, <1>10 DEF RotationInv

LEMMA RotationInvNext ==
    ASSUME RotationInv, [RotationNext]_rotationVars
    PROVE  RotationInv'
<1> USE DEF Goes
<1>1. ASSUME NEW l \in Loops, LoopWakes(l) \/ (\E p \in Profiles : LoopCloses(l, p))
      PROVE  RotationInv'
  <2>1. RotationTypeOK' /\ TargetsAreProfiles'
    BY <1>1 DEF LoopWakes, LoopCloses, RotationInv, RotationTypeOK, TargetsAreProfiles, LoopPlaces
  <2>2. /\ Launching' \subseteq Launching /\ Alive' \subseteq Alive
        /\ sessions' = sessions /\ peak' = peak
    BY <1>1 DEF LoopWakes, LoopCloses, RotationInv, RotationTypeOK, Launching, Alive, LoopPlaces
  <2> QED BY <2>1, <2>2, RoomStays DEF RotationInv
<1>7. ASSUME NEW l \in Loops, LoopDies(l) PROVE RotationInv'
  <2>1. RotationTypeOK' /\ TargetsAreProfiles'
    BY <1>7 DEF LoopDies, RotationInv, RotationTypeOK, TargetsAreProfiles, LoopPlaces
  <2>2. /\ Launching' \subseteq Launching /\ Alive' \subseteq Alive
        /\ sessions' = sessions /\ peak' = peak
    BY <1>7 DEF LoopDies, RotationInv, RotationTypeOK, Launching, Alive, LoopPlaces
  <2> QED BY <2>1, <2>2, RoomStays DEF RotationInv
<1>2. ASSUME NEW l \in Loops, LoopClosed(l) PROVE RotationInv'
  <2>0. target[l] \in Profiles BY <1>2 DEF LoopClosed, RotationInv, TargetsAreProfiles
  <2>1. RotationTypeOK' /\ TargetsAreProfiles'
    BY <1>2, <2>0 DEF LoopClosed, Closes, RotationInv, RotationTypeOK, TargetsAreProfiles, LoopPlaces
  <2>2. /\ Launching' \subseteq Launching /\ Alive' \subseteq Alive
        /\ sessions' \subseteq sessions /\ peak' = peak
    BY <1>2 DEF LoopClosed, RotationInv, RotationTypeOK, Launching, Alive, LoopPlaces
  <2> QED BY <2>1, <2>2, RoomStays DEF RotationInv
<1>3. ASSUME NEW l \in Loops, LoopPicks(l) PROVE RotationInv'
  <2>1. CASE /\ Cardinality(sessions') < MaxConcurrent
             /\ \E p \in Profiles \ Running :
                   /\ warmups[p] < WarmupBound /\ Goes(l, "launching")
                   /\ target' = [target EXCEPT ![l] = p]
    BY <1>3, <2>1, LoopPicksOne DEF LoopPicks
  <2>2. CASE Goes(l, "sleeping") /\ UNCHANGED target
    <3>1. RotationTypeOK' /\ TargetsAreProfiles'
      BY <1>3, <2>2 DEF LoopPicks, RotationInv, RotationTypeOK, TargetsAreProfiles, LoopPlaces
    <3>2. /\ Launching' \subseteq Launching /\ Alive' \subseteq Alive
          /\ sessions' \subseteq sessions /\ peak' = peak
      BY <1>3, <2>2 DEF LoopPicks, RotationInv, RotationTypeOK, Launching, Alive, LoopPlaces
    <3> QED BY <3>1, <3>2, RoomStays DEF RotationInv
  <2> QED BY <1>3, <2>1, <2>2 DEF LoopPicks
<1>4. ASSUME NEW p \in Profiles, WarmupStep(p) \/ MonitorPicks(p) \/ OthersOpen(p) \/ OthersClose(p)
      PROVE  RotationInv'
  <2> USE DEF WarmupStep, WarmupEnds, WarmupFails, MonitorPicks, OthersOpen, OthersClose, Closes
  <2>1. RotationTypeOK' /\ loop' = loop /\ target' = target /\ peak' = peak /\ sessions' \subseteq sessions
    BY <1>4 DEF RotationInv, RotationTypeOK
  <2>2. TargetsAreProfiles' BY <2>1 DEF RotationInv, TargetsAreProfiles
  <2>3. Launching' = Launching /\ Alive' = Alive BY <2>1 DEF Launching, Alive
  <2> QED BY <2>1, <2>2, <2>3, RoomStays DEF RotationInv
<1>5. CASE StopRotator \/ MonitorCloses
  <2> USE DEF StopRotator, MonitorCloses, Closes
  <2>1. RotationTypeOK' /\ loop' = loop /\ target' = target /\ peak' = peak /\ sessions' \subseteq sessions
    BY <1>5 DEF RotationInv, RotationTypeOK
  <2>2. TargetsAreProfiles' BY <2>1 DEF RotationInv, TargetsAreProfiles
  <2>3. Launching' = Launching /\ Alive' = Alive BY <2>1 DEF Launching, Alive
  <2> QED BY <2>1, <2>2, <2>3, RoomStays DEF RotationInv
<1>6. CASE UNCHANGED rotationVars
  BY <1>6 DEF rotationVars, RotationInv, RotationTypeOK, TargetsAreProfiles, LoopsAreCounted,
     RoomIsKept, Launching, Alive, Spare
<1> QED BY <1>1, <1>2, <1>3, <1>4, <1>5, <1>6, <1>7, RotatorStarts, LaunchReturns
        DEF RotationNext, LoopStep

LEMMA RotationInvariant == RotationSpec => []RotationInv
<1>1. RotationInit => RotationInv
  <2> SUFFICES ASSUME RotationInit PROVE RotationInv OBVIOUS
  <2>1. Alive = {} /\ Launching = {} /\ sessions = {}
    BY DEF RotationInit, Alive, Launching, LoopPlaces
  <2>2. Cardinality(Loops) \in Nat BY RotationAssumption, FS_CardinalityType
  <2>3. RotationTypeOK
    <3>1. peak \in 0..Cardinality(Loops) BY <2>2 DEF RotationInit
    <3> QED BY <3>1 DEF RotationInit, RotationTypeOK
  <2>4. TargetsAreProfiles BY DEF RotationInit, TargetsAreProfiles
  <2>5. LoopsAreCounted /\ RoomIsKept
    BY <2>1, FS_EmptySet, RotationAssumption DEF RotationInit, LoopsAreCounted, RoomIsKept, Spare
  <2> QED BY <2>3, <2>4, <2>5 DEF RotationInv
<1> QED BY <1>1, RotationInvNext, PTL DEF RotationSpec

(* Whatever loops a stop and a start have left behind, and however late    *)
(* the room was counted, the sessions stay within the maximum and one for  *)
(* each further loop (_rotation_loop, start, stop).                        *)
THEOREM RotatorKeepsItsBound == RotationSpec => []SessionsAreBounded
<1>1. RotationInv => SessionsAreBounded
  BY RotationCounts DEF RotationInv, RoomIsKept, Spare, SessionsAreBounded
<1> QED BY <1>1, RotationInvariant, PTL
-----------------------------------------------------------------------------
(* Scheduler.  The inductive invariant: what the loop has still to go      *)
(* through was not triggered for this minute, and a loop that finds second *)
(* 0 has not gone through the list for it.                                 *)

FileOrTorn == file = Torn \/ (file \in Seq(Jobs) /\ IsInjective(file))

ScheduleTypes ==
    /\ passed \in BOOLEAN /\ next \in BOOLEAN
    /\ jobs \in Seq(Jobs) /\ IsInjective(jobs)
    /\ at \in Nat
    /\ fired \in [Jobs -> Nat]
    /\ FileOrTorn

FreshMinute == at = 0 /\ second = 0 /\ passed => next

RestIsUnfired == at > 0 => \A i \in DOMAIN jobs : i >= at => fired[jobs[i]] = 0

ScheduleInv == ScheduleTypes /\ FreshMinute /\ RestIsUnfired /\ OncePerMinute

\* What is left of a list without one of its places, and where it comes from.
LEMMA RemovedAt ==
    ASSUME NEW S, NEW s \in Seq(S), NEW i \in DOMAIN s
    PROVE  /\ RemoveAt(s, i) \in Seq(S)
           /\ Len(RemoveAt(s, i)) = Len(s) - 1
           /\ \A k \in 1..(Len(s) - 1) : RemoveAt(s, i)[k] = s[IF k < i THEN k ELSE k + 1]
<1> DEFINE a == SubSeq(s, 1, i - 1)
           b == SubSeq(s, i + 1, Len(s))
<1>1. RemoveAt(s, i) = a \o b BY DEF RemoveAt
<1>2. i \in 1..Len(s) /\ Len(s) \in Nat OBVIOUS
<1>3. a \in Seq(S) /\ Len(a) = i - 1 /\ \A k \in 1..(i - 1) : a[k] = s[k]
  BY <1>2
<1>4. b \in Seq(S) /\ Len(b) = Len(s) - i /\ \A k \in 1..(Len(s) - i) : b[k] = s[k + i]
  BY <1>2
<1> HIDE DEF a, b
<1>5. /\ a \o b \in Seq(S) /\ Len(a \o b) = Len(s) - 1
      /\ \A k \in 1..(Len(s) - 1) : (a \o b)[k] = IF k <= i - 1 THEN a[k] ELSE b[k - (i - 1)]
  <2>1. Len(a) + Len(b) = Len(s) - 1 BY <1>2, <1>3, <1>4
  <2>2. /\ a \o b \in Seq(S) /\ Len(a \o b) = Len(a) + Len(b)
        /\ \A k \in 1..(Len(a) + Len(b)) : (a \o b)[k] = IF k <= Len(a) THEN a[k] ELSE b[k - Len(a)]
    BY <1>3, <1>4, ConcatProperties
  <2> QED BY <1>3, <2>1, <2>2
<1>6. ASSUME NEW k \in 1..(Len(s) - 1) PROVE (a \o b)[k] = s[IF k < i THEN k ELSE k + 1]
  <2>1. CASE k < i
    <3>1. k \in 1..(i - 1) /\ k <= i - 1 BY <1>2, <2>1
    <3>2. (a \o b)[k] = a[k] BY Zenon, <1>5, <3>1
    <3> QED BY <1>3, <2>1, <3>1, <3>2
  <2>2. CASE ~(k < i)
    <3>1. k - (i - 1) \in 1..(Len(s) - i) /\ ~(k <= i - 1) BY <1>2, <1>6, <2>2
    <3>2. (a \o b)[k] = b[k - (i - 1)] BY Zenon, <1>5, <3>1
    <3>3. k - (i - 1) + i = k + 1 BY <1>2
    <3> QED BY <1>4, <2>2, <3>1, <3>2, <3>3
  <2> QED BY <2>1, <2>2
<1> QED BY <1>1, <1>5, <1>6

\* The loop triggers the job it is at, or does not.
LEMMA LoopTriggersStep == ASSUME ScheduleInv, LoopTriggers PROVE ScheduleInv'
<1>1. at \in 1..Len(jobs) /\ at' = at + 1 /\ UNCHANGED <<clockVars, jobs, fileVars>>
  BY DEF LoopTriggers
<1>2. jobs \in Seq(Jobs) /\ at \in Nat /\ fired \in [Jobs -> Nat] BY DEF ScheduleInv, ScheduleTypes
<1> DEFINE j == jobs[at]
<1>3. j \in Jobs /\ fired[j] = 0
  BY <1>1, <1>2 DEF ScheduleInv, RestIsUnfired
<1>4. /\ fired' \in [Jobs -> Nat]
      /\ \A x \in Jobs : fired'[x] = fired[x] \/ (x = j /\ fired'[x] = 1)
  <2>1. CASE UNCHANGED fired BY <1>2, <2>1
  <2>2. CASE fired' = [fired EXCEPT ![j] = @ + 1] BY <1>2, <1>3, <2>2
  <2> QED BY <2>1, <2>2 DEF LoopTriggers
<1>5. ScheduleTypes'
  BY <1>1, <1>2, <1>4 DEF ScheduleInv, ScheduleTypes, FileOrTorn, clockVars, fileVars
<1>6. FreshMinute' BY <1>1, <1>2 DEF FreshMinute
<1>7. RestIsUnfired'
  <2> SUFFICES ASSUME NEW i \in DOMAIN jobs, i >= at + 1 PROVE fired'[jobs[i]] = 0
    BY <1>1 DEF RestIsUnfired
  <2>1. jobs[i] \in Jobs /\ fired[jobs[i]] = 0
    BY <1>1, <1>2 DEF ScheduleInv, RestIsUnfired
  <2>2. jobs[i] # j BY <1>1, <1>2 DEF ScheduleInv, ScheduleTypes, IsInjective
  <2> QED BY <1>4, <2>1, <2>2
<1>8. OncePerMinute' BY <1>4 DEF ScheduleInv, OncePerMinute
<1> QED BY <1>5, <1>6, <1>7, <1>8 DEF ScheduleInv

\* A thread appends a schedule that was never triggered.
LEMMA AddsJobStep ==
    ASSUME ScheduleInv, NEW e \in Editors, NEW j \in Jobs, AddsJob(e, j) PROVE ScheduleInv'
<1>1. /\ jobs' = Append(jobs, j) /\ j \notin ToSet(jobs) /\ fired[j] = 0
      /\ UNCHANGED <<clockVars, loopVars, file>>
  BY DEF AddsJob
<1>2. jobs \in Seq(Jobs) /\ IsInjective(jobs) /\ at \in Nat BY DEF ScheduleInv, ScheduleTypes
<1>3. /\ jobs' \in Seq(Jobs) /\ Len(jobs') = Len(jobs) + 1
      /\ \A i \in DOMAIN jobs' : jobs'[i] = IF i \in DOMAIN jobs THEN jobs[i] ELSE j
      /\ \A i \in DOMAIN jobs : jobs[i] # j
  BY <1>1, <1>2 DEF ToSet
<1>4. \A x, y \in DOMAIN jobs' : x \notin DOMAIN jobs /\ y \notin DOMAIN jobs => x = y
  BY <1>2, <1>3
<1>5. IsInjective(jobs') BY <1>2, <1>3, <1>4 DEF IsInjective
<1>6. ScheduleTypes'
  BY <1>1, <1>3, <1>5 DEF ScheduleInv, ScheduleTypes, FileOrTorn, clockVars, loopVars
<1>7. FreshMinute' /\ OncePerMinute'
  BY <1>1 DEF ScheduleInv, FreshMinute, OncePerMinute, clockVars, loopVars
<1>8. RestIsUnfired'
  BY <1>1, <1>3 DEF ScheduleInv, RestIsUnfired, loopVars
<1> QED BY <1>6, <1>7, <1>8 DEF ScheduleInv

\* A thread removes one, and what follows moves up under the loop.
LEMMA DeletesJobStep ==
    ASSUME ScheduleInv, NEW e \in Editors, NEW j \in Jobs, DeletesJob(e, j) PROVE ScheduleInv'
<1>1. PICK i \in DOMAIN jobs : jobs' = RemoveAt(jobs, i) BY DEF DeletesJob
<1>2. UNCHANGED <<clockVars, loopVars, file>> BY DEF DeletesJob
<1>3. jobs \in Seq(Jobs) /\ IsInjective(jobs) /\ at \in Nat BY DEF ScheduleInv, ScheduleTypes
<1> DEFINE from(k) == IF k < i THEN k ELSE k + 1
<1>4. /\ jobs' \in Seq(Jobs) /\ Len(jobs') = Len(jobs) - 1
      /\ \A k \in 1..(Len(jobs) - 1) : jobs'[k] = jobs[from(k)]
  BY <1>1, <1>3, RemovedAt
<1>5. ASSUME NEW k \in DOMAIN jobs'
      PROVE  k \in 1..(Len(jobs) - 1) /\ from(k) \in DOMAIN jobs /\ from(k) >= k
  BY <1>3, <1>4
<1>6. \A x, y \in DOMAIN jobs' : from(x) = from(y) => x = y BY <1>3, <1>5
<1> HIDE DEF from
<1>7. IsInjective(jobs') BY <1>3, <1>4, <1>5, <1>6 DEF IsInjective
<1>8. ScheduleTypes'
  BY <1>2, <1>4, <1>7 DEF ScheduleInv, ScheduleTypes, FileOrTorn, clockVars, loopVars
<1>9. FreshMinute' /\ OncePerMinute'
  BY <1>2 DEF ScheduleInv, FreshMinute, OncePerMinute, clockVars, loopVars
<1>10. RestIsUnfired'
  <2> SUFFICES ASSUME at > 0, NEW k \in DOMAIN jobs', k >= at PROVE fired[jobs'[k]] = 0
    BY <1>2 DEF RestIsUnfired, loopVars
  <2>1. from(k) >= at
    <3>1. from(k) \in Nat /\ k \in Nat BY <1>3, <1>5
    <3> QED BY <1>3, <1>5, <3>1
  <2> QED BY <1>4, <1>5, <2>1 DEF ScheduleInv, RestIsUnfired
<1> QED BY <1>8, <1>9, <1>10 DEF ScheduleInv

LEMMA ScheduleInvNext ==
    ASSUME ScheduleInv, [SchedulerNext]_schedulerVars PROVE ScheduleInv'
<1> USE DEF clockVars, loopVars, fileVars
<1> USE DEF ScheduleInv, ScheduleTypes, FreshMinute, RestIsUnfired, OncePerMinute, FileOrTorn
<1>1. CASE ClockTicks BY <1>1 DEF ClockTicks
<1>2. CASE LoopLooks
  <2>1. CASE second = 0
    <3>1. next /\ at' = 1 /\ fired' = Unfired BY <1>2, <2>1 DEF LoopLooks, Begins
    <3>2. fired' \in [Jobs -> Nat] /\ \A x \in Jobs : fired'[x] = 0 BY <3>1 DEF Unfired
    <3>3. \A i \in DOMAIN jobs : jobs[i] \in Jobs OBVIOUS
    <3>4. ~passed' /\ passed' \in BOOLEAN BY <1>2 DEF LoopLooks
    <3>5. next' \in BOOLEAN /\ UNCHANGED <<second, jobs, file>> BY <1>2, <2>1 DEF LoopLooks, Begins
    <3> QED BY <3>1, <3>2, <3>3, <3>4, <3>5
  <2>2. CASE second # 0 BY <1>2, <2>2 DEF LoopLooks
  <2> QED BY <2>1, <2>2
<1>3. CASE LoopSleeps
  <2>1. ~passed' /\ passed' \in BOOLEAN BY <1>3 DEF LoopSleeps
  <2>2. at' = 0 /\ UNCHANGED <<second, next, jobs, fired, file>> BY <1>3 DEF LoopSleeps
  <2> QED BY <2>1, <2>2
<1>4. ASSUME NEW e \in Editors, SaveOpens(e) \/ SaveWrites(e) PROVE ScheduleInv'
  BY <1>4 DEF SaveOpens, SaveWrites
<1>5. CASE SchedulerRestarts
  <2>1. jobs' \in Seq(Jobs) /\ IsInjective(jobs')
    <3>1. <<>> \in Seq(Jobs) /\ IsInjective(<<>>) BY DEF IsInjective
    <3> QED BY <1>5, <3>1 DEF SchedulerRestarts
  <2> QED BY <1>5, <2>1 DEF SchedulerRestarts
<1>6. CASE UNCHANGED schedulerVars BY <1>6 DEF schedulerVars
<1> QED BY <1>1, <1>2, <1>3, <1>4, <1>5, <1>6, LoopTriggersStep, AddsJobStep, DeletesJobStep
        DEF SchedulerNext

LEMMA ScheduleInvariant == SchedulerSpec => []ScheduleInv
<1>1. SchedulerInit => ScheduleInv
  <2> SUFFICES ASSUME SchedulerInit PROVE ScheduleInv OBVIOUS
  <2>1. jobs \in Seq(Jobs) /\ IsInjective(jobs) /\ file = jobs
    BY DEF SchedulerInit, IsInjective
  <2>2. fired \in [Jobs -> Nat] /\ \A x \in Jobs : fired[x] = 0 BY DEF SchedulerInit, Unfired
  <2> QED BY <2>1, <2>2 DEF SchedulerInit, ScheduleInv, ScheduleTypes, FreshMinute,
          RestIsUnfired, OncePerMinute, FileOrTorn
<1> QED BY <1>1, ScheduleInvNext, PTL DEF SchedulerSpec

(* However many threads add and delete schedules while the loop goes       *)
(* through them, and however slowly it does, none is triggered twice for   *)
(* one minute (_loop, add_schedule, delete_schedule).                      *)
THEOREM JobsFireOncePerMinute == SchedulerSpec => []OncePerMinute
<1>1. ScheduleInv => OncePerMinute BY DEF ScheduleInv
<1> QED BY <1>1, ScheduleInvariant, PTL
=============================================================================
