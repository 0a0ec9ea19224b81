------------------------------ MODULE UpdateInstall ------------------------------
(***************************************************************************)
(* Downloading, verifying, applying and rolling back an update             *)
(* (backend/update_manager.py): an archive with its verification record,   *)
(* a confirmation token, and the directories that a release moves through: *)
(* <root>, <root>.backup.<v>, <root>.staging.<v>, <root>.old.<v>.          *)
(*                                                                         *)
(* apply_update and rollback_update never await, so no other request comes *)
(* between their file operations; a crash does.  A file operation is one   *)
(* action with three outcomes: it is done, it raises half way, or the      *)
(* process dies half way.                                                  *)
(***************************************************************************)
EXTENDS Naturals

CONSTANTS
    Versions,
    First,              \* the version installed in the beginning
    None,
    AutoUpdate,         \* GHOSTBROWSER_AUTO_UPDATE
    MaxCalls,           \* bound: apply and rollback calls
    MaxCrashes          \* bound: kills of the process

ASSUME UpdateAssumption ==
    /\ First \in Versions /\ None \notin Versions
    /\ AutoUpdate \in BOOLEAN
    /\ MaxCalls \in Nat /\ MaxCrashes \in Nat

\* A release archive: its version, and whether its signature is genuine.
Builds == [v : Versions, signed : BOOLEAN]
Original == [v |-> First, signed |-> TRUE]

\* A directory: which build, all of it or not, and its modification time.  A copy
\* keeps the time of what it copies; an extraction has the time of its call.
Trees == [build : Builds, whole : BOOLEAN, at : 0..MaxCalls]

ASSUME NoneIsNoTree == None \notin Trees

VARIABLES
    install, old, staging,  \* Trees or None
    backup,                 \* per version, Trees or None
    archive,                \* the downloaded archive
    record,                 \* the archive that verified_updates.json vouches for
    token,                  \* version of the confirmation token that is not expired
    pc,                     \* the file operation that comes next; "idle", "down"
    target,                 \* the build being applied
    source,                 \* what the current or last call must preserve
    leftover,               \* what rmtree(ignore_errors=True) left behind in that call
    reply,                  \* how the last call ended
    calls, crashes

trees == <<install, old, staging, backup>>
input == <<archive, record, token>>
count == <<calls, crashes>>
call == <<target, source, leftover>>
vars == <<trees, input, pc, call, reply, count>>

Init ==
    /\ install = [build |-> Original, whole |-> TRUE, at |-> 0]
    /\ old = None /\ staging = None
    /\ backup = [v \in Versions |-> None]
    /\ archive = None /\ record = None /\ token = None
    /\ pc = "idle" /\ target = None /\ source = None /\ leftover = None /\ reply = "none"
    /\ calls = 0 /\ crashes = 0

Torn(t) == IF t = None THEN None ELSE [t EXCEPT !.whole = FALSE]

\* What an interrupted removal, and an interrupted copy of t, leave behind.
HalfRemoved(t) == {t, Torn(t), None}
HalfCopied(t) == {None, Torn(t)} \cup (IF t = None THEN {} ELSE {[Torn(t) EXCEPT !.at = calls]})

Then(step) == pc' = step /\ UNCHANGED <<reply, count>>
Answers(r) == pc' = "idle" /\ reply' = r /\ UNCHANGED count

Dies ==
    /\ crashes < MaxCrashes /\ crashes' = crashes + 1
    /\ pc' = "down" /\ UNCHANGED <<reply, calls>>

\* An operation that is not done raises into the except clause, raises out of the
\* call, or dies with the process.
Caught == Then("undo") \/ Dies
Escapes == Answers("failed") \/ Dies

-----------------------------------------------------------------------------
(* Download, verification and confirmation                                 *)

\* download_update with verify_signature: a genuine signature is recorded for the
\* archive's path, replacing the record of what was there before.
Download == \E b \in Builds :
    /\ pc = "idle"
    /\ archive' = b
    /\ record' = IF b.signed THEN b ELSE record
    /\ UNCHANGED <<trees, token, pc, call, reply, count>>

Confirm == \E v \in Versions :
    /\ pc = "idle"
    /\ token' = v
    /\ UNCHANGED <<trees, archive, record, pc, call, reply, count>>

TokenExpires ==
    /\ token # None
    /\ token' = None
    /\ UNCHANGED <<trees, archive, record, pc, call, reply, count>>

\* Mutant of Verified: the record is looked up by path only.
Verified_AnyBytes == record # None

\* _require_verified_archive: path, digest and method of the record match.
Verified == record # None /\ record = archive

-----------------------------------------------------------------------------
(* apply_update                                                            *)

ApplyStarts ==
    /\ pc = "idle" /\ calls < MaxCalls
    /\ archive # None /\ Verified
    /\ AutoUpdate \/ token = archive.v
    /\ calls' = calls + 1
    /\ pc' = "clear" /\ reply' = "none"
    /\ target' = archive /\ source' = install /\ leftover' = None
    /\ UNCHANGED <<trees, input, crashes>>

\* Left-overs of the same version are removed, one directory after the other.
Clears ==
    /\ pc = "clear"
    /\ \/ /\ backup' = [backup EXCEPT ![target.v] = None]
          /\ staging' = None /\ old' = None
          /\ Then("backup")
       \/ /\ \E t \in HalfRemoved(backup[target.v]) : backup' = [backup EXCEPT ![target.v] = t]
          /\ staging' \in HalfRemoved(staging)
          /\ old' \in HalfRemoved(old)
          /\ Escapes
    /\ UNCHANGED <<install, input, call>>

\* Mutant of BacksUp: errors of the copy are ignored.
BacksUp_Unchecked ==
    /\ pc = "backup"
    /\ \E t \in {install} \cup HalfCopied(install) : backup' = [backup EXCEPT ![target.v] = t]
    /\ Then("stage")
    /\ UNCHANGED <<install, old, staging, input, call>>

\* shutil.copytree(install_dir, backup_dir), before the try.
BacksUp ==
    /\ pc = "backup"
    /\ \/ install # None /\ backup' = [backup EXCEPT ![target.v] = install] /\ Then("stage")
       \/ /\ \E t \in HalfCopied(install) : backup' = [backup EXCEPT ![target.v] = t]
          /\ Escapes
    /\ UNCHANGED <<install, old, staging, input, call>>

\* The archive is extracted and its manifest.json checked.
Stages ==
    /\ pc = "stage"
    /\ LET fresh == [build |-> target, whole |-> TRUE, at |-> calls]
       IN  \/ staging' = fresh /\ Then("swap")
           \/ staging' \in HalfCopied(fresh) \cup {fresh} /\ Caught
    /\ UNCHANGED <<install, old, backup, input, call>>

\* install_dir.rename(old_dir)
SwapsOut ==
    /\ pc = "swap"
    /\ \/ install # None /\ old' = install /\ install' = None /\ Then("move")
       \/ UNCHANGED <<install, old>> /\ Caught
    /\ UNCHANGED <<staging, backup, input, call>>

\* Mutant of MovesIn: a move that fails is taken for a success.
MovesIn_Unchecked ==
    /\ pc = "move"
    /\ install' \in (HalfCopied(staging) \ {None}) \cup {staging} /\ staging' = None /\ Then("tidy")
    /\ UNCHANGED <<old, backup, input, call>>

\* shutil.move: a rename, or else a copy and a removal, either of which may raise.
MovesIn ==
    /\ pc = "move"
    /\ \/ install' = staging /\ staging' = None /\ Then("tidy")
       \/ /\ install' \in HalfCopied(staging) /\ UNCHANGED staging
          /\ Caught
       \/ /\ install' = staging /\ staging' \in HalfRemoved(staging)
          /\ Caught
    /\ UNCHANGED <<old, backup, input, call>>

Tidies ==
    /\ pc = "tidy"
    /\ old' \in HalfRemoved(old)
    /\ \/ leftover' = old' /\ Answers("applied")
       \/ UNCHANGED leftover /\ Dies
    /\ UNCHANGED <<install, staging, backup, input, target, source>>

-----------------------------------------------------------------------------
(* The except clause of apply_update                                       *)

\* Mutant of Undoes: what was moved in is not removed.
Undoes_Not ==
    /\ pc = "undo"
    /\ Then("putBack")
    /\ UNCHANGED <<trees, input, call>>

\* rmtree(install_dir, ignore_errors=True): a file in use stays, and nothing is raised.
Undoes ==
    /\ pc = "undo"
    /\ install' \in HalfRemoved(install)
    /\ \/ leftover' = install' /\ Then("putBack")
       \/ UNCHANGED leftover /\ Dies
    /\ UNCHANGED <<old, staging, backup, input, target, source>>

\* shutil.move(old_dir, install_dir), INTO install_dir if that still exists: a rename, or
\* else a copy and a removal.
PutsBack ==
    /\ pc = "putBack"
    /\ \/ old = None /\ UNCHANGED <<install, old>> /\ Then("restore")
       \/ /\ old # None
          /\ install' = IF install = None THEN old ELSE install
          /\ old' = None
          /\ Then("restore")
       \/ /\ old # None
          /\ install' \in IF install = None THEN HalfCopied(old) ELSE {install}
          /\ UNCHANGED old
          /\ Escapes
       \/ /\ old # None
          /\ install' = IF install = None THEN old ELSE install
          /\ old' \in HalfRemoved(old)
          /\ Escapes
    /\ UNCHANGED <<staging, backup, input, call>>

\* Last resort: copy the backup, if there is still no install_dir.
Restores ==
    /\ pc = "restore"
    /\ LET b == backup[target.v]
       IN  \/ /\ IF install = None /\ b # None THEN install' = b ELSE UNCHANGED install
              /\ Answers("undone")
           \/ /\ install = None /\ b # None
              /\ install' \in HalfCopied(b)
              /\ Escapes
    /\ UNCHANGED <<old, staging, backup, input, call>>

-----------------------------------------------------------------------------
(* rollback_update, crashes and restarts                                   *)

\* The backup whose modification time is the latest.
Latest == {v \in Versions : backup[v] # None
              /\ \A w \in Versions : backup[w] # None => backup[w].at <= backup[v].at}

RollbackStarts == \E v \in Latest :
    /\ pc = "idle" /\ calls < MaxCalls
    /\ calls' = calls + 1
    /\ pc' = "rollback" /\ reply' = "none"
    /\ source' = backup[v] /\ leftover' = None
    /\ UNCHANGED <<trees, input, target, crashes>>

RollsBackOut ==
    /\ pc = "rollback"
    /\ install' \in HalfRemoved(install)
    /\ \/ leftover' = install' /\ Then("copyBack")
       \/ UNCHANGED leftover /\ Dies
    /\ UNCHANGED <<old, staging, backup, input, target, source>>

\* copytree refuses a destination that exists.
CopiesBack ==
    /\ pc = "copyBack"
    /\ \/ install = None /\ install' = source /\ Answers("restored")
       \/ install = None /\ install' \in HalfCopied(source) /\ Escapes
       \/ install # None /\ UNCHANGED install /\ Escapes
    /\ UNCHANGED <<old, staging, backup, input, call>>

\* The program is part of what it updates: it starts again only from a whole one.
Restart ==
    /\ pc = "down" /\ install # None /\ install.whole
    /\ pc' = "idle"
    /\ UNCHANGED <<trees, input, call, reply, count>>

-----------------------------------------------------------------------------
ApplyStep ==
    \/ ApplyStarts \/ Clears \/ BacksUp \/ Stages \/ SwapsOut \/ MovesIn \/ Tidies
    \/ Undoes \/ PutsBack \/ Restores

RollbackStep == RollbackStarts \/ RollsBackOut \/ CopiesBack

Next == Download \/ Confirm \/ TokenExpires \/ ApplyStep \/ RollbackStep \/ Restart

Spec == Init /\ [][Next]_vars

-----------------------------------------------------------------------------
(* Properties                                                              *)

MaybeTrees == Trees \cup {None}
MaybeBuilds == Builds \cup {None}
ApplySteps == {"clear", "backup", "stage", "swap", "move", "tidy", "undo", "putBack", "restore"}

\* Type invariant of every variable.
TypeOK ==
    /\ install \in MaybeTrees /\ old \in MaybeTrees /\ staging \in MaybeTrees
    /\ source \in MaybeTrees /\ leftover \in MaybeTrees
    /\ backup \in [Versions -> MaybeTrees]
    /\ archive \in MaybeBuilds /\ record \in MaybeBuilds /\ target \in MaybeBuilds
    /\ token \in Versions \cup {None}
    /\ pc \in {"idle", "down", "rollback", "copyBack"} \cup ApplySteps
    /\ reply \in {"none", "failed", "applied", "undone", "restored"}
    /\ pc \in ApplySteps => target \in Builds
    /\ calls \in 0..MaxCalls /\ crashes \in 0..MaxCrashes

Places == {install, old} \cup {backup[v] : v \in Versions}

\* Whatever is downloaded between verification and application, and through every
\* backup and rollback, only builds with a genuine signature are ever on disk.
OnlySignedOnDisk == \A t \in (Places \cup {staging}) \ {None} : t.build.signed

\* What the current or last call started from (an update: the installation, a rollback:
\* the backup) exists whole somewhere, whatever raises and wherever the process dies.
SourceSurvives == source # None /\ source.whole => source \in Places

\* "Update applied": the new release is whole and the previous one is its backup.
AppliedMeansInstalled ==
    reply = "applied" /\ pc = "idle" =>
        /\ install.build = target /\ install.whole
        /\ backup[target.v] = source

\* "Update application failed and was rolled back": the installation is what it was,
\* unless it could not be removed to make room.
UndoneMeansRestored == reply = "undone" /\ pc = "idle" /\ leftover = None => install = source

\* "Rolled back to backup": the installation is a whole release.
RollbackMeansWhole == reply = "restored" /\ pc = "idle" => install.whole
=============================================================================
