-------------------------- MODULE ProfileStore_proofs --------------------------
(***************************************************************************)
(* Theorems about ProfileStore, for any set of profiles.                   *)
(***************************************************************************)
EXTENDS ProfileStore, TLAPS

\* Every reachable state is well-typed.
THEOREM StoreTypeCorrect == Spec => []TypeOK
<1>1. Init => TypeOK
  <2>1. NoRecords \in [Profiles -> MaybeRecord]
    BY DEF NoRecords, MaybeRecord
  <2>2. [p \in Profiles |-> "unborn"] \in [Profiles -> Stages]
    BY DEF Stages
  <2>3. 0 \in 0..MaxCrashes
    BY StoreAssumption
  <2> QED BY <2>1, <2>2, <2>3, Zenon DEF Init, TypeOK
<1>2. TypeOK /\ [Next]_vars => TypeOK'
  <2> SUFFICES ASSUME TypeOK, [Next]_vars PROVE TypeOK'
    OBVIOUS
  <2> USE StoreAssumption DEF TypeOK, MaybeRecord, Records, Stages, saved, dirs, disk, proc, thread, MoveFails, Tries, NoRecords, Free, Continues, Ends,
        Creation, Save, SaveFails, Jumbled, Forgotten
  <2>1. ASSUME NEW p \in Profiles, CreateStep(p) PROVE TypeOK'
    <3>1. CASE CreateStarts(p) BY <3>1 DEF CreateStarts
    <3>2. CASE Registers(p) BY <3>2 DEF Registers
    <3>3. CASE Describes(p) BY <3>3 DEF Describes
    <3>4. CASE Forgets(p) BY <3>4 DEF Forgets
    <3>5. CASE RollsBack(p) BY <3>5 DEF RollsBack
    <3>6. CASE ValidatorRaises(p) BY <3>6 DEF ValidatorRaises
    <3>7. CASE Accepts(p) BY <3>7 DEF Accepts
    <3>8. CASE Flags(p) BY <3>8 DEF Flags
    <3>9. CASE RecheckRaises(p) BY <3>9 DEF RecheckRaises
    <3>10. CASE Rejects(p) BY <3>10 DEF Rejects
    <3>11. CASE Quarantines(p) BY <3>11 DEF Quarantines
    <3> QED BY <2>1, <3>1, <3>2, <3>3, <3>4, <3>5, <3>6, <3>7, <3>8, <3>9, <3>10, <3>11 DEF CreateStep
  <2>2. ASSUME NEW p \in Profiles, DeleteStep(p) PROVE TypeOK'
    <3>1. CASE DeleteStarts(p) BY <3>1 DEF DeleteStarts
    <3>2. CASE DeleteRefused(p) BY <3>2 DEF DeleteRefused, DeleteRaises
    <3>3. CASE Entombs(p) BY <3>3 DEF Entombs
    <3>4. CASE Drops(p) BY <3>4 DEF Drops
    <3>5. CASE DropFails(p) BY <3>5 DEF DropFails, DeleteRaises, Unentombs
    <3>6. CASE DeleteEnds(p) BY <3>6 DEF DeleteEnds
    <3> QED BY <2>2, <3>1, <3>2, <3>3, <3>4, <3>5, <3>6 DEF DeleteStep
  <2>3. ASSUME NEW p \in Profiles, Updates(p) PROVE TypeOK'
    BY <2>3 DEF Updates
  <2>4. ASSUME NEW p \in Profiles, Launched(p) \/ Stopped(p) PROVE TypeOK'
    BY <2>4 DEF Launched, Stopped
  <2>5. CASE Crash
    <3>1. crashes' \in 0..MaxCrashes BY <2>5 DEF Crash
    <3> QED BY <2>5, <3>1 DEF Crash
  <2>6. CASE Restart BY <2>6 DEF Restart
  <2>7. ASSUME NEW p \in Profiles, FolderAssigns(p) PROVE TypeOK'
    BY <2>7 DEF FolderAssigns
  <2>8. CASE FolderSaved BY <2>8 DEF FolderSaved
  <2>9. ASSUME NEW p \in Profiles, FoldersOverlap(p) PROVE TypeOK'
    BY <2>9 DEF FoldersOverlap
  <2>10. CASE UNCHANGED vars BY <2>10 DEF vars
  <2> QED BY <2>1, <2>2, <2>3, <2>4, <2>5, <2>6, <2>7, <2>8, <2>9, <2>10 DEF Next
<1> QED BY <1>1, <1>2, PTL DEF Spec

-----------------------------------------------------------------------------
\* A listed profile is missing from the file only while its creation is about to
\* forget it again.
ListedInv ==
    ~raced => \A p \in Profiles :
        mem[p] # None /\ file[p] = None => step = "forget" /\ on = p

\* Unless a worker thread's save has raced another, every listed profile is in the file
\* between calls, whichever saves have failed.
THEOREM RestartLosesNothing == Spec => []ListedSurvivesRestart
<1>1. Init => ListedInv
  BY DEF Init, NoRecords, ListedInv
<1>2. TypeOK /\ ListedInv /\ [Next]_vars => ListedInv'
  <2> SUFFICES ASSUME TypeOK, ListedInv, [Next]_vars PROVE ListedInv'
    OBVIOUS
  <2> USE StoreAssumption DEF TypeOK, ListedInv, MaybeRecord, Records, saved, dirs, disk, proc, thread, MoveFails, Tries, NoRecords, Free, Continues, Ends, Creation, Save, SaveFails, Jumbled,
        Forgotten
  <2>1. ASSUME NEW p \in Profiles, CreateStep(p) PROVE ListedInv'
    <3>1. CASE CreateStarts(p) BY <3>1 DEF CreateStarts
    <3>2. CASE Registers(p) BY <3>2 DEF Registers
    <3>3. CASE Describes(p) BY <3>3 DEF Describes
    <3>4. CASE Forgets(p) BY <3>4 DEF Forgets
    <3>5. CASE RollsBack(p) BY <3>5 DEF RollsBack
    <3>6. CASE ValidatorRaises(p) BY <3>6 DEF ValidatorRaises
    <3>7. CASE Accepts(p) BY <3>7 DEF Accepts
    <3>8. CASE Flags(p) BY <3>8 DEF Flags
    <3>9. CASE RecheckRaises(p) BY <3>9 DEF RecheckRaises
    <3>10. CASE Rejects(p) BY <3>10 DEF Rejects
    <3>11. CASE Quarantines(p) BY <3>11 DEF Quarantines
    <3> QED BY <2>1, <3>1, <3>2, <3>3, <3>4, <3>5, <3>6, <3>7, <3>8, <3>9, <3>10, <3>11 DEF CreateStep
  <2>2. ASSUME NEW p \in Profiles, DeleteStep(p) PROVE ListedInv'
    <3>1. CASE DeleteStarts(p) BY <3>1 DEF DeleteStarts
    <3>2. CASE DeleteRefused(p) BY <3>2 DEF DeleteRefused, DeleteRaises
    <3>3. CASE Entombs(p) BY <3>3 DEF Entombs
    <3>4. CASE Drops(p) BY <3>4 DEF Drops
    <3>5. CASE DropFails(p) BY <3>5 DEF DropFails, DeleteRaises
    <3>6. CASE DeleteEnds(p) BY <3>6 DEF DeleteEnds
    <3> QED BY <2>2, <3>1, <3>2, <3>3, <3>4, <3>5, <3>6 DEF DeleteStep
  <2>3. ASSUME NEW p \in Profiles, Updates(p) PROVE ListedInv'
    BY <2>3 DEF Updates
  <2>4. ASSUME NEW p \in Profiles, Launched(p) \/ Stopped(p) PROVE ListedInv'
    BY <2>4 DEF Launched, Stopped
  <2>5. CASE Crash BY <2>5 DEF Crash
  <2>6. CASE Restart BY <2>6 DEF Restart
  <2>7. ASSUME NEW p \in Profiles, FolderAssigns(p) PROVE ListedInv'
    BY <2>7 DEF FolderAssigns
  <2>8. CASE FolderSaved
    <3>1. CASE raced
      <4>1. raced' BY <2>8, <3>1 DEF FolderSaved
      <4>2. step' = step /\ on' = on /\ stage' = stage BY <2>8 DEF FolderSaved
      <4> QED BY <4>1, <4>2
    <3>2. CASE ~raced
      <4>1. raced' \/ file' = file \/ file' = mem BY <2>8, <3>2 DEF FolderSaved
      <4>2. ~saveFailed' /\ ~raced' => ~saveFailed BY <2>8, <3>2 DEF FolderSaved
      <4>3. UNCHANGED <<mem, dirs, proc, stage, step, on>> BY <2>8 DEF FolderSaved
      <4> QED BY <3>2, <4>1, <4>2, <4>3
    <3> QED BY <3>1, <3>2
  <2>9. ASSUME NEW p \in Profiles, FoldersOverlap(p) PROVE ListedInv'
    <3>1. raced'
      BY <2>9 DEF FoldersOverlap
    <3> QED BY <3>1
  <2>10. CASE UNCHANGED vars BY <2>10 DEF vars
  <2> QED BY <2>1, <2>2, <2>3, <2>4, <2>5, <2>6, <2>7, <2>8, <2>9, <2>10 DEF Next
<1>3. ListedInv => ListedSurvivesRestart
  BY DEF ListedInv, ListedSurvivesRestart, Free
<1> QED BY <1>1, <1>2, <1>3, StoreTypeCorrect, PTL DEF Spec
-----------------------------------------------------------------------------
\* A profile that is in the file and not in memory is one whose rollback could not save.
ForgottenInv ==
    /\ step = "quarantine" => stage[on] = "rejected"
    /\ ~raced => \A p \in Profiles : up /\ mem[p] = None /\ file[p] # None =>
          stage[p] = "rolledBack" \/ (step = "rmdir" /\ on = p)

\* Unless a worker thread's save has raced another, a profile that was created and then
\* deleted is gone from the file, whichever saves have failed.
THEOREM DeletedForGood == Spec => []DeletedIsForgotten
<1>1. Init => ForgottenInv
  BY DEF Init, NoRecords, ForgottenInv
<1>2. TypeOK /\ ForgottenInv /\ [Next]_vars => ForgottenInv'
  <2> SUFFICES ASSUME TypeOK, ForgottenInv, [Next]_vars PROVE ForgottenInv'
    OBVIOUS
  <2> USE StoreAssumption DEF TypeOK, ForgottenInv, MaybeRecord, Records, Stages, InProgress, saved, dirs, disk, proc, thread, MoveFails, Tries, NoRecords, Free, Continues, Ends, Creation, Save, SaveFails, Jumbled,
        Forgotten
  <2>1. ASSUME NEW p \in Profiles, CreateStep(p) PROVE ForgottenInv'
    <3>1. CASE CreateStarts(p) BY <3>1 DEF CreateStarts
    <3>2. CASE Registers(p) BY <3>2 DEF Registers
    <3>3. CASE Describes(p) BY <3>3 DEF Describes
    <3>4. CASE Forgets(p) BY <3>4 DEF Forgets
    <3>5. CASE RollsBack(p) BY <3>5 DEF RollsBack
    <3>6. CASE ValidatorRaises(p) BY <3>6 DEF ValidatorRaises
    <3>7. CASE Accepts(p) BY <3>7 DEF Accepts
    <3>8. CASE Flags(p) BY <3>8 DEF Flags
    <3>9. CASE RecheckRaises(p) BY <3>9 DEF RecheckRaises
    <3>10. CASE Rejects(p) BY <3>10 DEF Rejects
    <3>11. CASE Quarantines(p) BY <3>11 DEF Quarantines
    <3> QED BY <2>1, <3>1, <3>2, <3>3, <3>4, <3>5, <3>6, <3>7, <3>8, <3>9, <3>10, <3>11 DEF CreateStep
  <2>2. ASSUME NEW p \in Profiles, DeleteStep(p) PROVE ForgottenInv'
    <3>1. CASE DeleteStarts(p) BY <3>1 DEF DeleteStarts
    <3>2. CASE DeleteRefused(p) BY <3>2 DEF DeleteRefused, DeleteRaises
    <3>3. CASE Entombs(p) BY <3>3 DEF Entombs
    <3>4. CASE Drops(p) BY <3>4 DEF Drops
    <3>5. CASE DropFails(p) BY <3>5 DEF DropFails, DeleteRaises
    <3>6. CASE DeleteEnds(p) BY <3>6 DEF DeleteEnds
    <3> QED BY <2>2, <3>1, <3>2, <3>3, <3>4, <3>5, <3>6 DEF DeleteStep
  <2>3. ASSUME NEW p \in Profiles, Updates(p) PROVE ForgottenInv'
    BY <2>3 DEF Updates
  <2>4. ASSUME NEW p \in Profiles, Launched(p) \/ Stopped(p) PROVE ForgottenInv'
    BY <2>4 DEF Launched, Stopped
  <2>5. CASE Crash BY <2>5 DEF Crash
  <2>6. CASE Restart BY <2>6 DEF Restart
  <2>7. ASSUME NEW p \in Profiles, FolderAssigns(p) PROVE ForgottenInv'
    BY <2>7 DEF FolderAssigns
  <2>8. CASE FolderSaved
    <3>1. CASE raced
      <4>1. raced' BY <2>8, <3>1 DEF FolderSaved
      <4>2. step' = step /\ on' = on /\ stage' = stage BY <2>8 DEF FolderSaved
      <4> QED BY <4>1, <4>2
    <3>2. CASE ~raced
      <4>1. raced' \/ file' = file \/ file' = mem BY <2>8, <3>2 DEF FolderSaved
      <4>2. ~saveFailed' /\ ~raced' => ~saveFailed BY <2>8, <3>2 DEF FolderSaved
      <4>3. UNCHANGED <<mem, dirs, proc, stage, step, on>> BY <2>8 DEF FolderSaved
      <4> QED BY <3>2, <4>1, <4>2, <4>3
    <3> QED BY <3>1, <3>2
  <2>9. ASSUME NEW p \in Profiles, FoldersOverlap(p) PROVE ForgottenInv'
    <3>1. raced'
      BY <2>9 DEF FoldersOverlap
    <3>2. step' = step /\ on' = on /\ stage' = stage
      BY <2>9 DEF FoldersOverlap
    <3> QED BY <3>1, <3>2
  <2>10. CASE UNCHANGED vars BY <2>10 DEF vars
  <2> QED BY <2>1, <2>2, <2>3, <2>4, <2>5, <2>6, <2>7, <2>8, <2>9, <2>10 DEF Next
<1>3. ForgottenInv => DeletedIsForgotten
  BY DEF ForgottenInv, DeletedIsForgotten, Free
<1> QED BY <1>1, <1>2, <1>3, StoreTypeCorrect, PTL DEF Spec
-----------------------------------------------------------------------------
\* Each call works on a profile whose creation is where the call takes it from.
CleanInv ==
    /\ RolledBackLeavesNothing
    /\ crashes = 0 => up
    /\ ~up => step = "idle"
    /\ step \in {"register", "describe"} => stage[on] = "creating"
    /\ step \in {"forget", "rmdir"} => stage[on] \in {"creating", "validating"}
    /\ step = "rmdir" => mem[on] = None
    /\ step = "quarantine" => stage[on] = "rejected"
    /\ step = "drop" => mem[on] # None
    /\ step = "drop" /\ stage[on] = "rolledBack" /\ ~moveFailed => on \notin tomb

\* Whatever fails and whoever interferes, each call finds its profile there.
LEMMA CallsAreInPlace == Spec => []CleanInv
<1>1. Init => CleanInv
  BY DEF Init, NoRecords, CleanInv, RolledBackLeavesNothing
<1>2. TypeOK /\ CleanInv /\ [Next]_vars => CleanInv'
  <2> SUFFICES ASSUME TypeOK, CleanInv, [Next]_vars PROVE CleanInv'
    OBVIOUS
  <2> USE StoreAssumption DEF TypeOK, CleanInv, RolledBackLeavesNothing, MaybeRecord, Records, Stages,
        saved, dirs, disk, proc, thread, MoveFails, Tries, NoRecords, Free, Continues, Ends, Creation, Save, SaveFails, Jumbled, Forgotten
  <2>1. ASSUME NEW p \in Profiles, CreateStep(p) PROVE CleanInv'
    <3>1. CASE CreateStarts(p) BY <3>1 DEF CreateStarts
    <3>2. CASE Registers(p) BY <3>2 DEF Registers
    <3>3. CASE Describes(p) BY <3>3 DEF Describes
    <3>4. CASE Forgets(p) BY <3>4 DEF Forgets
    <3>5. CASE RollsBack(p) BY <3>5 DEF RollsBack
    <3>6. CASE ValidatorRaises(p) BY <3>6 DEF ValidatorRaises
    <3>7. CASE Accepts(p) BY <3>7 DEF Accepts
    <3>8. CASE Flags(p) BY <3>8 DEF Flags
    <3>9. CASE RecheckRaises(p) BY <3>9 DEF RecheckRaises
    <3>10. CASE Rejects(p) BY <3>10 DEF Rejects
    <3>11. CASE Quarantines(p) BY <3>11 DEF Quarantines
    <3> QED BY <2>1, <3>1, <3>2, <3>3, <3>4, <3>5, <3>6, <3>7, <3>8, <3>9, <3>10, <3>11 DEF CreateStep
  <2>2. ASSUME NEW p \in Profiles, DeleteStep(p) PROVE CleanInv'
    <3>1. CASE DeleteStarts(p) BY <3>1 DEF DeleteStarts
    <3>2. CASE DeleteRefused(p) BY <3>2 DEF DeleteRefused, DeleteRaises
    <3>3. CASE Entombs(p) BY <3>3 DEF Entombs
    <3>4. CASE Drops(p) BY <3>4 DEF Drops
    <3>5. CASE DropFails(p) BY <3>5 DEF DropFails, DeleteRaises, Unentombs
    <3>6. CASE DeleteEnds(p) BY <3>6 DEF DeleteEnds
    <3> QED BY <2>2, <3>1, <3>2, <3>3, <3>4, <3>5, <3>6 DEF DeleteStep
  <2>3. ASSUME NEW p \in Profiles, Updates(p) PROVE CleanInv'
    BY <2>3 DEF Updates
  <2>4. ASSUME NEW p \in Profiles, Launched(p) \/ Stopped(p) PROVE CleanInv'
    BY <2>4 DEF Launched, Stopped
  <2>5. CASE Crash BY <2>5 DEF Crash
  <2>6. CASE Restart BY <2>6 DEF Restart
  <2>7. ASSUME NEW p \in Profiles, FolderAssigns(p) PROVE CleanInv'
    BY <2>7 DEF FolderAssigns
  <2>8. CASE FolderSaved BY <2>8 DEF FolderSaved
  <2>9. ASSUME NEW p \in Profiles, FoldersOverlap(p) PROVE CleanInv'
    BY <2>9 DEF FoldersOverlap
  <2>10. CASE UNCHANGED vars BY <2>10 DEF vars
  <2> QED BY <2>1, <2>2, <2>3, <2>4, <2>5, <2>6, <2>7, <2>8, <2>9, <2>10 DEF Next
<1> QED BY <1>1, <1>2, StoreTypeCorrect, PTL DEF Spec

\* A creation that reports CREATE_FAILED leaves no directory, unless one could not be
\* removed, and until a crash no record, whatever saves fail and whatever clients and
\* worker threads do to the candidate.
THEOREM RollbackIsClean == Spec => []RolledBackLeavesNothing
<1>1. CleanInv => RolledBackLeavesNothing
  BY DEF CleanInv
<1> QED BY <1>1, CallsAreInPlace, PTL

-----------------------------------------------------------------------------
\* A profile in memory has its directory, or has it in quarantine; while a delete of it
\* is about to drop the record, the directory may be its tombstone.
IsKept(p) == p \in dir \cup quar \/ (step = "drop" /\ on = p /\ p \in tomb)

\* Before a crash has left a tombstone, and unless both a save and a directory operation
\* have failed (a delete that could not be undone), every profile in memory is kept.
KeptInv ==
    /\ step \in {"register", "describe"} => on \in dir
    /\ crashes = 0 /\ ~(saveFailed /\ moveFailed) =>
          \A p \in Profiles : mem[p] # None => IsKept(p)

LEMMA MemoryIsKept == Spec => []KeptInv
<1>1. Init => KeptInv
  BY DEF Init, NoRecords, KeptInv
<1>2. TypeOK /\ CleanInv /\ KeptInv /\ [Next]_vars => KeptInv'
  <2> SUFFICES ASSUME TypeOK, CleanInv, KeptInv, [Next]_vars PROVE KeptInv'
    OBVIOUS
  <2> USE StoreAssumption DEF TypeOK, CleanInv, KeptInv, IsKept, MaybeRecord, Records,
        saved, dirs, disk, proc, thread, MoveFails, Tries, NoRecords, Free, Continues, Ends, Creation, Save, SaveFails, Jumbled, Forgotten
  <2>1. ASSUME NEW p \in Profiles, CreateStep(p) PROVE KeptInv'
    <3>1. CASE CreateStarts(p) BY <3>1 DEF CreateStarts
    <3>2. CASE Registers(p) BY <3>2 DEF Registers
    <3>3. CASE Describes(p) BY <3>3 DEF Describes
    <3>4. CASE Forgets(p) BY <3>4 DEF Forgets
    <3>5. CASE RollsBack(p) BY <3>5 DEF RollsBack
    <3>6. CASE ValidatorRaises(p) BY <3>6 DEF ValidatorRaises
    <3>7. CASE Accepts(p) BY <3>7 DEF Accepts
    <3>8. CASE Flags(p) BY <3>8 DEF Flags
    <3>9. CASE RecheckRaises(p) BY <3>9 DEF RecheckRaises
    <3>10. CASE Rejects(p) BY <3>10 DEF Rejects
    <3>11. CASE Quarantines(p) BY <3>11 DEF Quarantines
    <3> QED BY <2>1, <3>1, <3>2, <3>3, <3>4, <3>5, <3>6, <3>7, <3>8, <3>9, <3>10, <3>11 DEF CreateStep
  <2>2. ASSUME NEW p \in Profiles, DeleteStep(p) PROVE KeptInv'
    <3>1. CASE DeleteStarts(p) BY <3>1 DEF DeleteStarts
    <3>2. CASE DeleteRefused(p) BY <3>2 DEF DeleteRefused, DeleteRaises
    <3>3. CASE Entombs(p) BY <3>3 DEF Entombs
    <3>4. CASE Drops(p) BY <3>4 DEF Drops
    <3>5. CASE DropFails(p) BY <3>5 DEF DropFails, DeleteRaises, Unentombs
    <3>6. CASE DeleteEnds(p) BY <3>6 DEF DeleteEnds
    <3> QED BY <2>2, <3>1, <3>2, <3>3, <3>4, <3>5, <3>6 DEF DeleteStep
  <2>3. ASSUME NEW p \in Profiles, Updates(p) PROVE KeptInv'
    BY <2>3 DEF Updates
  <2>4. ASSUME NEW p \in Profiles, Launched(p) \/ Stopped(p) PROVE KeptInv'
    BY <2>4 DEF Launched, Stopped
  <2>5. CASE Crash BY <2>5 DEF Crash
  <2>6. CASE Restart BY <2>6 DEF Restart
  <2>7. ASSUME NEW p \in Profiles, FolderAssigns(p) PROVE KeptInv'
    BY <2>7 DEF FolderAssigns
  <2>8. CASE FolderSaved
    <3>1. UNCHANGED <<mem, dirs, proc, step, on>>
      BY <2>8 DEF FolderSaved
    <3>2. saveFailed' = saveFailed \/ saveFailed' = TRUE
      BY <2>8, Zenon DEF FolderSaved
    <3> QED BY <3>1, <3>2
  <2>9. ASSUME NEW p \in Profiles, FoldersOverlap(p) PROVE KeptInv'
    <3>1. UNCHANGED <<mem, dirs, proc, step, on>>
      BY <2>9 DEF FoldersOverlap
    <3>2. saveFailed => saveFailed'
      BY <2>9 DEF FoldersOverlap
    <3> QED BY <3>1, <3>2
  <2>10. CASE UNCHANGED vars BY <2>10 DEF vars
  <2> QED BY <2>1, <2>2, <2>3, <2>4, <2>5, <2>6, <2>7, <2>8, <2>9, <2>10 DEF Next
<1> QED BY <1>1, <1>2, StoreTypeCorrect, CallsAreInPlace, PTL DEF Spec

\* While no crash has left a tombstone and no directory operation has failed, a delete
\* that cannot save its metadata puts back what it took: the record is still in memory,
\* and the directory is back, or in quarantine where it was.
THEOREM FailedDeletesLoseNothing == Spec => FailedDeleteKeepsData
<1> DEFINE A == \A p \in Profiles : DropFails(p) /\ crashes = 0 /\ ~moveFailed' =>
                    mem'[p] # None /\ p \in dir' \cup quar'
<1>1. TypeOK /\ CleanInv /\ KeptInv /\ [Next]_vars => [A]_vars
  <2> SUFFICES ASSUME TypeOK, CleanInv, KeptInv, NEW p \in Profiles,
                      DropFails(p), crashes = 0, ~moveFailed'
               PROVE  mem'[p] # None /\ p \in dir' \cup quar'
    OBVIOUS
  <2>1. /\ step = "drop" /\ on = p /\ mem' = mem /\ quar' = quar
        /\ Unentombs(p)
    BY DEF DropFails
  <2>2. mem[p] # None BY <2>1 DEF CleanInv
  <2>3. IF p \in tomb THEN dir' = dir \cup {p} ELSE dir' = dir /\ ~moveFailed
    BY <2>1 DEF Unentombs, Tries, MoveFails
  <2>4. CASE p \in tomb BY <2>1, <2>2, <2>3, <2>4
  <2>5. CASE p \notin tomb
    <3>1. IsKept(p) BY <2>2, <2>3, <2>5 DEF KeptInv
    <3> QED BY <2>1, <2>2, <2>3, <2>5, <3>1 DEF IsKept
  <2> QED BY <2>4, <2>5
<1> QED BY <1>1, StoreTypeCorrect, CallsAreInPlace, MemoryIsKept, PTL DEF Spec, FailedDeleteKeepsData

HasData(p) == p \in dir \cup tomb \cup quar

\* The same after one crash, of the profiles in the file too: only a delete of a profile
\* whose tombstone was all that it had has removed it, and the file is about to follow.
DataInv ==
    crashes < 2 /\ ~saveFailed /\ ~misread =>
        /\ step \in {"rmdir", "rmtomb"} => mem[on] = None /\ (raced \/ file[on] = None)
        /\ \A p \in Profiles : mem[p] # None \/ (~raced /\ file[p] # None) =>
              HasData(p) \/ (crashes = 1 /\ step = "drop" /\ on = p)

\* Wherever the first crash falls, in a creation, a quarantine or a delete, every profile
\* that the file names has its data on the disk, as long as no save fails and no worker
\* thread's save races another.
THEOREM NamedProfilesHaveData == Spec => []KnownHasData
<1>1. Init => DataInv
  BY DEF Init, NoRecords, DataInv
<1>2. TypeOK /\ CleanInv /\ KeptInv /\ DataInv /\ [Next]_vars => DataInv'
  <2> SUFFICES ASSUME TypeOK, CleanInv, KeptInv, DataInv, [Next]_vars PROVE DataInv'
    OBVIOUS
  <2> USE StoreAssumption DEF TypeOK, CleanInv, KeptInv, IsKept, DataInv, HasData, MaybeRecord, Records,
        saved, dirs, disk, proc, thread, MoveFails, Tries, NoRecords, Free, Continues, Ends, Creation, Save, SaveFails, Jumbled, Forgotten
  <2>1. ASSUME NEW p \in Profiles, CreateStep(p) PROVE DataInv'
    <3>1. CASE CreateStarts(p) BY <3>1 DEF CreateStarts
    <3>2. CASE Registers(p) BY <3>2 DEF Registers
    <3>3. CASE Describes(p) BY <3>3 DEF Describes
    <3>4. CASE Forgets(p) BY <3>4 DEF Forgets
    <3>5. CASE RollsBack(p) BY <3>5 DEF RollsBack
    <3>6. CASE ValidatorRaises(p) BY <3>6 DEF ValidatorRaises
    <3>7. CASE Accepts(p) BY <3>7 DEF Accepts
    <3>8. CASE Flags(p) BY <3>8 DEF Flags
    <3>9. CASE RecheckRaises(p) BY <3>9 DEF RecheckRaises
    <3>10. CASE Rejects(p) BY <3>10 DEF Rejects
    <3>11. CASE Quarantines(p) BY <3>11 DEF Quarantines
    <3> QED BY <2>1, <3>1, <3>2, <3>3, <3>4, <3>5, <3>6, <3>7, <3>8, <3>9, <3>10, <3>11 DEF CreateStep
  <2>2. ASSUME NEW p \in Profiles, DeleteStep(p) PROVE DataInv'
    <3>1. CASE DeleteStarts(p) BY <3>1 DEF DeleteStarts
    <3>2. CASE DeleteRefused(p) BY <3>2 DEF DeleteRefused, DeleteRaises
    <3>3. CASE Entombs(p) BY <3>3 DEF Entombs
    <3>4. CASE Drops(p) BY <3>4 DEF Drops
    <3>5. CASE DropFails(p) BY <3>5 DEF DropFails, DeleteRaises, Unentombs
    <3>6. CASE DeleteEnds(p) BY <3>6 DEF DeleteEnds
    <3> QED BY <2>2, <3>1, <3>2, <3>3, <3>4, <3>5, <3>6 DEF DeleteStep
  <2>3. ASSUME NEW p \in Profiles, Updates(p) PROVE DataInv'
    BY <2>3 DEF Updates
  <2>4. ASSUME NEW p \in Profiles, Launched(p) \/ Stopped(p) PROVE DataInv'
    BY <2>4 DEF Launched, Stopped
  <2>5. CASE Crash BY <2>5 DEF Crash
  <2>6. CASE Restart BY <2>6 DEF Restart
  <2>7. ASSUME NEW p \in Profiles, FolderAssigns(p) PROVE DataInv'
    BY <2>7 DEF FolderAssigns
  <2>8. CASE FolderSaved
    <3>1. UNCHANGED <<mem, dirs, proc, step, on>>
      BY <2>8 DEF FolderSaved
    <3>2. saveFailed' = saveFailed \/ saveFailed' = TRUE
      BY <2>8, Zenon DEF FolderSaved
    <3>3. raced' = TRUE \/ (~raced /\ file' = file) \/ (~raced /\ file' = mem)
      BY <2>8 DEF FolderSaved
    <3> QED BY <3>1, <3>2, <3>3
  <2>9. ASSUME NEW p \in Profiles, FoldersOverlap(p) PROVE DataInv'
    <3>1. UNCHANGED <<mem, dirs, proc, step, on>>
      BY <2>9 DEF FoldersOverlap
    <3>2. saveFailed => saveFailed'
      BY <2>9 DEF FoldersOverlap
    <3>3. raced'
      BY <2>9 DEF FoldersOverlap
    <3> QED BY <3>1, <3>2, <3>3
  <2>10. CASE UNCHANGED vars BY <2>10 DEF vars
  <2> QED BY <2>1, <2>2, <2>3, <2>4, <2>5, <2>6, <2>7, <2>8, <2>9, <2>10 DEF Next
<1>3. DataInv => KnownHasData
  BY DEF DataInv, KnownHasData, HasData
<1> QED BY <1>1, <1>2, <1>3, StoreTypeCorrect, CallsAreInPlace, MemoryIsKept, PTL DEF Spec
=============================================================================
