------------------------------ MODULE ProfileStore ------------------------------
(***************************************************************************)
(* Where a profile is kept: its record in memory (ProfileManager.profiles),*)
(* the metadata file, its directory, its tombstone and its quarantine      *)
(* directory; and the calls that move it between them, creation by         *)
(* profile_creator included.                                               *)
(*                                                                         *)
(* register, update and delete never await: a call that has begun owns the *)
(* event loop (step, on) until it ends.  Between its file operations come  *)
(* only a crash and the folder endpoints, plain functions that run in a    *)
(* worker thread.  Creation awaits its validator, so clients update,       *)
(* launch and delete a candidate that is still being validated.            *)
(***************************************************************************)
EXTENDS Naturals

CONSTANTS
    Profiles,
    None,
    MaxCrashes          \* bound: kills of the backend process

\* What a record holds: no fingerprint and provenance yet, or everything.
Records == {"bare", "full"}
MaybeRecord == Records \cup {None}

ASSUME StoreAssumption ==
    /\ None \notin Profiles \cup Records
    /\ MaxCrashes \in Nat

VARIABLES
    mem,        \* self.profiles
    file,       \* what _load_metadata would read from profiles_meta.json
    dir,        \* profiles whose directory exists
    tomb,       \* profiles with a directory tombstone_<id>
    quar,       \* profiles with a directory in quarantine
    running,    \* profiles with a browser process on their directory
    stage,      \* how far the creation of each profile is
    step, on,   \* the synchronous call in progress, and its profile
    saving,     \* a worker thread is inside _save_metadata
    snap,       \* the records that it has copied and will write
    up,         \* the backend process is alive
    crashes,
    saveFailed, \* _save_metadata has raised
    moveFailed, \* a rename, move or removal of a directory has failed
    raced,      \* a worker thread's save has met another, or wrote out-of-date records,
                \* and none has written the file alone since
    misread     \* a restart has read a file that was raced for

saved == <<file, saveFailed, raced>>
dirs == <<dir, tomb, quar, moveFailed>>
disk == <<saved, dirs>>
proc == <<running, up, crashes, misread>>
thread == <<saving, snap>>
vars == <<mem, disk, proc, thread, stage, step, on>>

Stages == {"unborn", "creating", "validating", "revalidating", "rejected", "listed",
           "rolledBack", "raised", "quarantined", "lost"}

NoRecords == [p \in Profiles |-> None]

Init ==
    /\ mem = NoRecords /\ file = NoRecords
    /\ dir = {} /\ tomb = {} /\ quar = {} /\ running = {}
    /\ stage = [p \in Profiles |-> "unborn"]
    /\ step = "idle" /\ on = None
    /\ saving = FALSE /\ snap = NoRecords
    /\ up = TRUE /\ crashes = 0
    /\ saveFailed = FALSE /\ moveFailed = FALSE /\ raced = FALSE /\ misread = FALSE

Free == up /\ step = "idle"
Continues(p, s) == step' = s /\ on' = p
Ends == step' = "idle" /\ on' = None
Creation(p, s) == stage' = [stage EXCEPT ![p] = s]

\* Every save writes the same profiles_meta.json.tmp, then renames it: what two at once
\* install is the records of either, some of both, or no JSON, which is read as empty.
Jumbled(m) ==
    {f \in [Profiles -> MaybeRecord] : \A p \in Profiles : f[p] \in {m[p], snap[p]}}
        \cup {NoRecords}

\* _save_metadata: a temporary file, then os.replace; in the middle of a worker thread's
\* save, the two share that file.
Save(m) ==
    /\ file' \in IF saving THEN Jumbled(m) ELSE {m}
    /\ raced' = saving
    /\ UNCHANGED saveFailed

\* The write or the rename raises; the worker thread may have installed what was written.
SaveFails(m) ==
    /\ saveFailed' = TRUE
    /\ file' \in IF saving THEN Jumbled(m) \cup {file} ELSE {file}
    /\ raced' = (raced \/ saving)

\* A directory operation: what it does, or what it leaves when it fails.
MoveFails == moveFailed' = TRUE
Tries(done, failed) == (done /\ UNCHANGED moveFailed) \/ (failed /\ MoveFails)

-----------------------------------------------------------------------------
(* create_zero_leak_profile                                                *)

\* os.makedirs, or the rollback if it raises.
CreateStarts(p) ==
    /\ Free /\ stage[p] = "unborn"
    /\ Tries(dir' = dir \cup {p} /\ Continues(p, "register"), UNCHANGED dir /\ Continues(p, "forget"))
    /\ Creation(p, "creating")
    /\ UNCHANGED <<mem, saved, tomb, quar, proc, thread>>

\* Mutant of Registers: the exception of a failed save is not caught.
Registers_NoRollback(p) ==
    /\ up /\ step = "register" /\ on = p
    /\ mem' = [mem EXCEPT ![p] = "bare"]
    /\ \/ Save(mem') /\ Continues(p, "describe") /\ UNCHANGED stage
       \/ SaveFails(mem') /\ Ends /\ Creation(p, "raised")
    /\ UNCHANGED <<dirs, proc, thread>>

\* register_profile: the record goes into memory, then into the file.
Registers(p) ==
    /\ up /\ step = "register" /\ on = p
    /\ mem' = [mem EXCEPT ![p] = "bare"]
    /\ \/ Save(mem') /\ Continues(p, "describe")
       \/ SaveFails(mem') /\ Continues(p, "forget")
    /\ UNCHANGED <<dirs, proc, stage, thread>>

\* Fingerprint, user agent and provenance are added and saved.
Describes(p) ==
    /\ up /\ step = "describe" /\ on = p
    /\ mem' = [mem EXCEPT ![p] = "full"]
    /\ \/ Save(mem') /\ Ends /\ Creation(p, "validating")
       \/ SaveFails(mem') /\ Continues(p, "forget") /\ UNCHANGED stage
    /\ UNCHANGED <<dirs, proc, thread>>

\* Mutants of Forgotten: the record stays in memory; the key goes with the record.
Forgotten_Kept(p) == mem

\* profiles.pop(id)
Forgotten(p) == [mem EXCEPT ![p] = None]

\* Rollback: the record is popped; a save that fails is ignored.
Forgets(p) ==
    /\ up /\ step = "forget" /\ on = p
    /\ mem' = Forgotten(p)
    /\ Save(mem') \/ SaveFails(mem')
    /\ Continues(p, "rmdir")
    /\ UNCHANGED <<dirs, proc, stage, thread>>

\* Rollback: rmtree of the directory, errors ignored; CREATE_FAILED.
RollsBack(p) ==
    /\ up /\ step = "rmdir" /\ on = p
    /\ Tries(dir' = dir \ {p}, UNCHANGED dir)
    /\ Creation(p, "rolledBack") /\ Ends
    /\ UNCHANGED <<mem, saved, tomb, quar, proc, thread>>

ValidatorRaises(p) ==
    /\ Free /\ stage[p] = "validating"
    /\ Continues(p, "forget")
    /\ UNCHANGED <<mem, disk, proc, stage, thread>>

\* ACCEPT, or a complaint only about the unreachable AI.
Accepts(p) ==
    /\ Free /\ stage[p] \in {"validating", "revalidating"}
    /\ Creation(p, "listed")
    /\ UNCHANGED <<mem, disk, proc, step, on, thread>>

\* Real issues: the storage is scrubbed and the validator called again.
Flags(p) ==
    /\ Free /\ stage[p] = "validating"
    /\ Creation(p, "revalidating")
    /\ UNCHANGED <<mem, disk, proc, step, on, thread>>

\* The second call is outside any try.
RecheckRaises(p) ==
    /\ Free /\ stage[p] = "revalidating"
    /\ Creation(p, "raised")
    /\ UNCHANGED <<mem, disk, proc, step, on, thread>>

Rejects(p) ==
    /\ Free /\ stage[p] = "revalidating"
    /\ Creation(p, "rejected") /\ Continues(p, "quarantine")
    /\ UNCHANGED <<mem, disk, proc, thread>>

\* _quarantine_profile: writing quarantine_meta.json may raise; a failed move of
\* the directory is only logged.  delete_profile follows.
Quarantines(p) ==
    /\ up /\ step = "quarantine" /\ on = p
    /\ \/ Creation(p, "raised") /\ Ends /\ UNCHANGED dirs
       \/ /\ IF p \in dir
             THEN Tries(dir' = dir \ {p} /\ quar' = quar \cup {p}, UNCHANGED <<dir, quar>>)
             ELSE UNCHANGED <<dir, quar, moveFailed>>
          /\ Continues(p, "entomb") /\ UNCHANGED <<tomb, stage>>
    /\ UNCHANGED <<mem, saved, proc, thread>>

-----------------------------------------------------------------------------
(* delete_profile, called by a client or by the creator that rejected p     *)

DeleteStarts(p) ==
    /\ Free /\ mem[p] # None
    /\ Continues(p, "entomb")
    /\ UNCHANGED <<mem, disk, proc, stage, thread>>

\* A delete that raises escapes through the creator, if the creator called it.
DeleteRaises(p) ==
    /\ Ends
    /\ IF stage[p] = "rejected" THEN Creation(p, "raised") ELSE UNCHANGED stage

\* Unknown profile, a browser process on the directory, or, with an old tombstone
\* already removed, the rename fails.
DeleteRefused(p) ==
    /\ up /\ step = "entomb" /\ on = p
    /\ \/ (mem[p] = None \/ p \in running) /\ UNCHANGED <<tomb, moveFailed>>
       \/ p \in dir /\ p \notin running /\ tomb' \in {tomb, tomb \ {p}} /\ MoveFails
    /\ DeleteRaises(p)
    /\ UNCHANGED <<mem, saved, dir, quar, proc, thread>>

\* An old tombstone is removed, and the directory becomes the new one.
Entombs(p) ==
    /\ up /\ step = "entomb" /\ on = p
    /\ mem[p] # None /\ p \notin running
    /\ dir' = dir \ {p}
    /\ IF p \in dir
       THEN tomb' = tomb \cup {p} /\ UNCHANGED moveFailed
       ELSE Tries(tomb' = tomb \ {p}, UNCHANGED tomb)
    /\ Continues(p, "drop")
    /\ UNCHANGED <<mem, saved, quar, proc, stage, thread>>

\* Mutants of Drops: a save that fails is ignored; the record leaves the memory after the
\* save.
Drops_SavesFirst(p) ==
    /\ up /\ step = "drop" /\ on = p
    /\ mem' = Forgotten(p)
    /\ Save(mem)
    /\ Continues(p, "rmtomb")
    /\ UNCHANGED <<dirs, proc, stage, thread>>

Drops(p) ==
    /\ up /\ step = "drop" /\ on = p
    /\ mem' = Forgotten(p)
    /\ Save(mem')
    /\ Continues(p, "rmtomb")
    /\ UNCHANGED <<dirs, proc, stage, thread>>

\* Mutant of Unentombs: the directory is not renamed back.
Unentombs_Not(p) == UNCHANGED <<dir, tomb, moveFailed>>

Unentombs(p) ==
    IF p \in tomb
    THEN Tries(dir' = dir \cup {p} /\ tomb' = tomb \ {p}, UNCHANGED <<dir, tomb>>)
    ELSE UNCHANGED <<dir, tomb, moveFailed>>

\* The save fails: record and directory are put back, "Rollback completed."
DropFails(p) ==
    /\ up /\ step = "drop" /\ on = p
    /\ SaveFails(Forgotten(p))
    /\ Unentombs(p)
    /\ DeleteRaises(p)
    /\ UNCHANGED <<mem, quar, proc, thread>>

DeleteEnds(p) ==
    /\ up /\ step = "rmtomb" /\ on = p
    /\ Tries(tomb' = tomb \ {p}, UNCHANGED tomb)
    /\ IF stage[p] = "rejected" THEN Creation(p, "quarantined") ELSE UNCHANGED stage
    /\ Ends
    /\ UNCHANGED <<mem, saved, dir, quar, proc, thread>>

-----------------------------------------------------------------------------
(* Other clients, crashes and restarts                                     *)

\* update_profile, tags, names, PINs: a field of the record in memory (which the model
\* does not tell), then all records are saved.
Updates(p) ==
    /\ Free /\ mem[p] # None
    /\ Save(mem) \/ SaveFails(mem)
    /\ UNCHANGED <<mem, dirs, proc, stage, step, on, thread>>

\* launch_profile refuses a missing directory and a missing provenance.
Launched(p) ==
    /\ Free /\ p \notin running
    /\ mem[p] = "full" /\ p \in dir
    /\ running' = running \cup {p}
    /\ UNCHANGED <<mem, disk, up, crashes, misread, stage, step, on, thread>>

Stopped(p) ==
    /\ p \in running
    /\ running' = running \ {p}
    /\ UNCHANGED <<mem, disk, up, crashes, misread, stage, step, on, thread>>

\* assign_profile_to_folder: a field of the record, then all records are copied for the
\* file, whatever the event loop is doing.
FolderAssigns(p) ==
    /\ up /\ ~saving
    /\ mem[p] # None
    /\ saving' = TRUE /\ snap' = mem
    /\ UNCHANGED <<mem, disk, proc, stage, step, on>>

\* A second worker thread's call, in the middle of the first one's save; one of the two
\* ends, the other goes on.
FoldersOverlap(p) ==
    /\ up /\ saving
    /\ mem[p] # None
    /\ snap' \in {snap, mem}
    /\ Save(mem) \/ SaveFails(mem)
    /\ UNCHANGED <<mem, dirs, proc, stage, step, on, saving>>

\* The copy replaces the file, however old it is by now, or the save fails.  After a race
\* either may leave anything that the two saves have written.
FolderSaved ==
    /\ saving
    /\ \/ /\ file' = snap /\ UNCHANGED saveFailed
          /\ IF snap = mem THEN UNCHANGED raced ELSE raced' = TRUE
       \/ saveFailed' = TRUE /\ UNCHANGED <<file, raced>>
       \/ /\ raced /\ file' \in Jumbled(mem)
          /\ saveFailed' \in {saveFailed, TRUE} /\ UNCHANGED raced
    /\ saving' = FALSE /\ snap' = NoRecords
    /\ UNCHANGED <<mem, dirs, proc, stage, step, on>>

InProgress == {"creating", "validating", "revalidating", "rejected"}

Crash ==
    /\ up /\ crashes < MaxCrashes
    /\ up' = FALSE /\ crashes' = crashes + 1
    /\ mem' = NoRecords
    /\ saving' = FALSE /\ snap' = NoRecords
    /\ stage' = [p \in Profiles |-> IF stage[p] \in InProgress THEN "lost" ELSE stage[p]]
    /\ Ends
    /\ UNCHANGED <<disk, running, misread>>

\* _load_metadata; a file that is no JSON is read as an empty list.
Restart ==
    /\ ~up
    /\ up' = TRUE
    /\ mem' = file
    /\ misread' = (misread \/ raced) /\ raced' = FALSE
    /\ UNCHANGED <<file, saveFailed, dirs, running, crashes, stage, step, on, thread>>

-----------------------------------------------------------------------------
CreateStep(p) ==
    \/ CreateStarts(p) \/ Registers(p) \/ Describes(p) \/ Forgets(p) \/ RollsBack(p)
    \/ ValidatorRaises(p) \/ Accepts(p) \/ Flags(p) \/ RecheckRaises(p)
    \/ Rejects(p) \/ Quarantines(p)

DeleteStep(p) ==
    \/ DeleteStarts(p) \/ DeleteRefused(p) \/ Entombs(p)
    \/ Drops(p) \/ DropFails(p) \/ DeleteEnds(p)

Next ==
    \/ \E p \in Profiles :
          \/ CreateStep(p) \/ DeleteStep(p)
          \/ Updates(p) \/ Launched(p) \/ Stopped(p) \/ FolderAssigns(p)
          \/ FoldersOverlap(p)
    \/ FolderSaved \/ Crash \/ Restart

Spec == Init /\ [][Next]_vars

-----------------------------------------------------------------------------
(* Properties                                                              *)

\* Type invariant of every variable.
TypeOK ==
    /\ mem \in [Profiles -> MaybeRecord] /\ file \in [Profiles -> MaybeRecord]
    /\ dir \subseteq Profiles /\ tomb \subseteq Profiles /\ quar \subseteq Profiles
    /\ running \subseteq Profiles
    /\ stage \in [Profiles -> Stages]
    /\ step \in {"idle", "register", "describe", "forget", "rmdir", "quarantine", "entomb",
                 "drop", "rmtomb"}
    /\ on \in Profiles \cup {None}
    /\ saving \in BOOLEAN /\ snap \in [Profiles -> MaybeRecord]
    /\ {saveFailed, moveFailed, raced, misread} \subseteq BOOLEAN
    /\ up \in BOOLEAN /\ crashes \in 0..MaxCrashes

\* Every profile that the program lists between calls is in the file, whichever saves have
\* failed, so that a restart loses none; and if a worker thread's save has raced another,
\* it is so again from the next save that meets no other.
ListedSurvivesRestart ==
    Free /\ ~raced => \A p \in Profiles : mem[p] # None => file[p] # None

\* Not so: the same without the proviso, as one temporary file serves every thread.
ListedStaysInFile ==
    Free => \A p \in Profiles : mem[p] # None => file[p] # None

\* With the same proviso, a profile that was created and then deleted is gone from the
\* file as well, whichever saves have failed.
DeletedIsForgotten ==
    Free /\ ~raced => \A p \in Profiles : stage[p] = "listed" /\ mem[p] = None => file[p] = None

\* Not so: "Remove database record [...] Save metadata atomically", without the proviso.
DeletedStaysDeleted ==
    Free => \A p \in Profiles : stage[p] = "listed" /\ mem[p] = None => file[p] = None

\* A creation that reports CREATE_FAILED leaves no directory, unless one could not be
\* removed, and until a crash no record in memory, whatever saves fail and whatever
\* clients and worker threads did to the candidate while it was validated.
RolledBackLeavesNothing ==
    \A p \in Profiles : stage[p] = "rolledBack" =>
        /\ crashes = 0 => mem[p] = None
        /\ ~moveFailed => p \notin dir

\* While no crash has left a tombstone and no directory operation has failed, a delete
\* that fails to save loses nothing: record and data are still there.
FailedDeleteKeepsData ==
    [][\A p \in Profiles : DropFails(p) /\ crashes = 0 /\ ~moveFailed' =>
            mem'[p] # None /\ p \in dir' \cup quar']_vars

\* Wherever the process is killed, a profile that the file names has its data in its
\* directory, its tombstone or the quarantine.  (For one crash, as a second one, in the
\* delete of a profile that the first left entombed, finds the tombstone removed; and
\* for files that are written when they should be, and were not raced for by the last
\* save or before the last restart.)
KnownHasData ==
    step = "idle" /\ crashes < 2 /\ ~saveFailed /\ ~raced /\ ~misread =>
        \A p \in Profiles : file[p] # None => p \in dir \cup tomb \cup quar
=============================================================================
