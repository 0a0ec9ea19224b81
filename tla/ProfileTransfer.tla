--------------------------- MODULE ProfileTransfer ---------------------------
(***************************************************************************)
(* Profiles that leave and come back: the JSON and CSV import              *)
(* (profile_transfer.py), which carry an entry without its directory, and  *)
(* the encrypted archives (cloud_sync.py), which carry both, to a file of  *)
(* the sync directory or to the sync server and back under a fresh id.     *)
(* A JSON import runs in a worker thread beside everything else.  A        *)
(* directory is kept as the version of its content, an entry as what a     *)
(* launch and an export read in it.                                        *)
(***************************************************************************)
EXTENDS Naturals, FiniteSets

CONSTANTS
    Ids,       \* profiles of this machine, which files may name
    FreshIds,  \* ids that uuid4 may give
    Versions,  \* contents of a directory
    MaxCopies  \* bound: archives at large

NoDir == 0
Empty == 97
Part == 98     \* a directory that a move filled in part
NoArchive == 99      \* of an entry that no archive gave

ASSUME TransferAssumption ==
    Ids \cap FreshIds = {} /\ Versions \subseteq 1..96 /\ MaxCopies \in Nat

Profiles == Ids \cup FreshIds
Contents == Versions \cup {Part, Empty}

\* trust: what the launch gate reads in ai_provenance.  Two fields are history:
\* file, the entry came from a JSON or CSV file; whole, the content that the
\* archive of a restored profile had.
Entry == [trust : {"verified", "unverified", "none"}, file : BOOLEAN,
          whole : Contents \cup {NoArchive}]

Archive == [entry : Entry, content : Contents]

VARIABLES
    profiles,  \* profile_manager.profiles
    saved,     \* the metadata file
    dirs,      \* directories of the profiles
    copies,    \* archives that left: ghost files, rows of the server, downloads
    import,    \* the JSON import under way
    restore    \* the restore under way

transferVars == <<profiles, saved, dirs, copies, import, restore>>

NoEntry == [trust |-> "no entry"]
NoImport == [step |-> "none"]
NoRestore == [step |-> "none"]

TransferTypeOK ==
    /\ profiles \in [Profiles -> Entry \cup {NoEntry}]
    /\ saved \in [Profiles -> Entry \cup {NoEntry}]
    /\ dirs \in [Profiles -> Contents \cup {NoDir}]
    /\ copies \subseteq Archive
    /\ import \in {NoImport} \cup
           [step : {"entered", "made"}, id : Profiles, created : BOOLEAN]
    /\ restore \in {NoRestore} \cup
           [step : {"staged", "moved", "registered", "preserved"},
            id : FreshIds, archive : Archive]

\* A profile that was created here, used for a while.
TransferInit ==
    /\ profiles = [p \in Profiles |->
           IF p \in Ids THEN [trust |-> "verified", file |-> FALSE, whole |-> NoArchive]
           ELSE NoEntry]
    /\ saved = profiles
    /\ dirs \in {d \in [Profiles -> Versions \cup {NoDir}] :
                     \A p \in Profiles : d[p] = NoDir <=> p \in FreshIds}
    /\ copies = {}
    /\ import = NoImport /\ restore = NoRestore

Known(p) == profiles[p] # NoEntry

\* What uuid4 may give: no other call, and nothing on disk, has the id.
Fresh(p) ==
    /\ p \in FreshIds /\ ~Known(p) /\ saved[p] = NoEntry /\ dirs[p] = NoDir
    /\ restore # NoRestore => restore.id # p

callVars == <<import, restore>>

\* _save_metadata writes every entry, or raises and leaves the old file.
Saves == saved' = profiles'
SaveFails == UNCHANGED saved

----------------------------------------------------------------------------
(* Archives                                                                *)

\* export_profile: the directory, and the entry if there is one.
ArchiveOf(p) ==
    [entry |-> IF Known(p) THEN profiles[p]
               ELSE [trust |-> "none", file |-> FALSE, whole |-> NoArchive],
     content |-> dirs[p]]

\* Of a profile with a directory, for the server (upload_profile), in the hands
\* of a client, or as the end of a ghost file.
TakesArchive(p) ==
    /\ dirs[p] # NoDir
    /\ copies' = copies \cup {ArchiveOf(p)} /\ Cardinality(copies') <= MaxCopies
    /\ UNCHANGED <<profiles, saved, dirs, callVars>>

\* sync_profile_to_disk writes a ghost file in place: until it has ended, or after
\* a stop, what the old one had is gone and nothing can be decrypted.
LosesGhostFile(a) ==
    /\ a \in copies /\ copies' = copies \ {a}
    /\ UNCHANGED <<profiles, saved, dirs, callVars>>

----------------------------------------------------------------------------
(* Import of JSON and CSV                                                  *)

FromFile_AsClaimed(claim) ==
    [trust |-> claim, file |-> TRUE, whole |-> NoArchive]

\* Whatever the file claims, the entry is an unverified one.
FromFile(claim) ==
    [trust |-> "unverified", file |-> TRUE, whole |-> NoArchive]

\* _import_single: a known profile only if asked to overwrite it, another one
\* under the id that the file names or a fresh one.
ImportEnters(p, overwrite, claim) ==
    /\ import = NoImport
    /\ (p \in Ids /\ (Known(p) => overwrite)) \/ Fresh(p)
    /\ profiles' = [profiles EXCEPT ![p] = FromFile(claim)]
    /\ import' = [step |-> "entered", id |-> p, created |-> FALSE]
    /\ UNCHANGED <<saved, dirs, copies, restore>>

\* makedirs; an error ends the import of this entry there.
ImportMakes ==
    /\ import.step = "entered"
    /\ \/ /\ import' = [import EXCEPT !.step = "made", !.created = dirs[import.id] = NoDir]
          /\ dirs' = [dirs EXCEPT ![import.id] = IF @ = NoDir THEN Empty ELSE @]
       \/ import' = NoImport /\ UNCHANGED dirs
    /\ UNCHANGED <<profiles, saved, copies, restore>>

\* A save that fails takes the entry back, and the directory if it is new.  The
\* cookies of the file are dropped: set_profile_cookies is not awaited.
ImportSaves ==
    /\ import.step = "made"
    /\ LET p == import.id
       IN  \/ UNCHANGED <<profiles, dirs>> /\ Saves
           \/ /\ profiles' = [profiles EXCEPT ![p] = NoEntry]
              /\ dirs' = [dirs EXCEPT ![p] = IF import.created /\ @ = Empty THEN NoDir ELSE @]
              /\ SaveFails
    /\ import' = NoImport
    /\ UNCHANGED <<copies, restore>>

----------------------------------------------------------------------------
(* Restore of an archive                                                   *)

\* import_profile, whatever the archive came from, extracts what could be
\* decrypted, or fails and removes what it extracted.
RestoreStages(a) ==
    /\ restore = NoRestore
    /\ a \in copies
    /\ \E p \in FreshIds :
          /\ Fresh(p)
          /\ restore' = [step |-> "staged", id |-> p, archive |-> a]
    /\ UNCHANGED <<profiles, saved, dirs, copies, import>>

RestoreOver == restore' = NoRestore

RestoreMoves_AnyWay ==
    /\ restore.step = "staged"
    /\ \E c \in {restore.archive.content, Part} : dirs' = [dirs EXCEPT ![restore.id] = c]
    /\ restore' = [restore EXCEPT !.step = "moved"]
    /\ UNCHANGED <<profiles, saved, copies, import>>

\* The content is moved entry by entry; a move that fails leaves the rest.
RestoreMoves ==
    /\ restore.step = "staged"
    /\ \/ /\ dirs' = [dirs EXCEPT ![restore.id] = restore.archive.content]
          /\ restore' = [restore EXCEPT !.step = "moved"]
       \/ dirs' = [dirs EXCEPT ![restore.id] = Part] /\ RestoreOver
    /\ UNCHANGED <<profiles, saved, copies, import>>

\* One save of the restore; the caller is told of one that fails.
RestoreSaves(step) ==
    \/ Saves /\ restore' = [restore EXCEPT !.step = step]
    \/ SaveFails /\ RestoreOver

\* register_profile knows nothing of provenance.
RestoreRegisters ==
    /\ restore.step = "moved"
    /\ LET a == restore.archive
       IN  profiles' = [profiles EXCEPT ![restore.id] =
               [trust |-> "none", file |-> a.entry.file,
                whole |-> a.content]]
    /\ RestoreSaves("registered")
    /\ UNCHANGED <<dirs, copies, import>>

\* update_profile brings back everything else that the archive had.
RestorePreserves ==
    /\ restore.step = "registered"
    /\ profiles' = [profiles EXCEPT ![restore.id].trust = restore.archive.entry.trust]
    /\ RestoreSaves("preserved")
    /\ UNCHANGED <<dirs, copies, import>>

RestoreEnds ==
    /\ restore.step = "preserved"
    /\ UNCHANGED profiles /\ (Saves \/ SaveFails) /\ RestoreOver
    /\ UNCHANGED <<dirs, copies, import>>

----------------------------------------------------------------------------
(* Around                                                                  *)

\* A browser writes to the directory of a profile of this machine.
Browses(p, c) ==
    /\ Known(p) /\ dirs[p] # NoDir
    /\ dirs' = [dirs EXCEPT ![p] = c]
    /\ UNCHANGED <<profiles, saved, copies, callVars>>

\* Another request saves the entries, those of calls under way included.
OthersSave ==
    /\ saved' = profiles
    /\ UNCHANGED <<profiles, dirs, copies, callVars>>

\* The application stops anywhere and is started again.
Restarts ==
    /\ profiles' = saved
    /\ import' = NoImport /\ restore' = NoRestore
    /\ UNCHANGED <<saved, dirs, copies>>

TransferNext ==
    \/ \E p \in Profiles :
          \/ TakesArchive(p)
          \/ \E overwrite \in BOOLEAN, claim \in {"verified", "none"} :
                ImportEnters(p, overwrite, claim)
    \/ \E p \in Ids, c \in Versions : Browses(p, c)
    \/ ImportMakes \/ ImportSaves
    \/ \E a \in copies : LosesGhostFile(a) \/ RestoreStages(a)
    \/ RestoreMoves \/ RestoreRegisters \/ RestorePreserves \/ RestoreEnds
    \/ OthersSave \/ Restarts

TransferSpec == TransferInit /\ [][TransferNext]_transferVars

(* Nothing that came from a JSON or CSV file passes for verified, however  *)
(* often it is archived, restored, saved half-way or read back after a     *)
(* restart: the launch gate and the import keep to "Only launch profiles   *)
(* that completed an approved AI generation path" (browser_manager.py).    *)
FilesAreNotTrusted ==
    \A p \in Profiles : \A e \in {profiles[p], saved[p]} :
        e.trust = "verified" => ~e.file

(* A profile that a restore has registered has all of the directory that   *)
(* was archived, although moves and saves fail, the application stops in   *)
(* between, and the profile that was archived goes on being used.          *)
RestoredIsWhole ==
    \A p \in FreshIds : \A e \in {profiles[p], saved[p]} :
        (e # NoEntry /\ e.whole # NoArchive) => dirs[p] = e.whole

=============================================================================
