-------------------------- MODULE Services_proofs --------------------------
(***************************************************************************)
(* Theorems about what surrounds the profiles: the store of the sync       *)
(* server, the import and restore of profiles, the identity that a launch  *)
(* announces, the pool of accounts and the quotas of the interface; each   *)
(* for its own specification and any values of its constants.              *)
(***************************************************************************)
EXTENDS SyncStore, ProfileTransfer, AccountPool, RequestQuota, BrowserIdentity,
        FiniteSetTheorems, SequenceTheorems, TLAPS

-----------------------------------------------------------------------------
(* SyncStore: the store of the sync server.                                 *)

\* A row that is revoked stays a row, and says so.
LEMMA RevokedRow ==
    ASSUME NEW row \in Rows \cup {None}
    PROVE  /\ Revoked(row) \in Rows \cup {None}
           /\ Revoked(row) = None <=> row = None
           /\ row # None => Revoked(row).revoked
BY NoneIsNoRow DEF Revoked, Rows

\* The row of an upload is a row that is not revoked.
LEMMA UploadedRow ==
    ASSUME NEW a \in Archives
    PROVE  Row(a) \in Rows /\ Row(a) # None
<1>1. Row(a) \in Rows
  BY DEF Row, Rows
<1> QED BY <1>1, NoneIsNoRow

\* Every reachable state is well-typed.
THEOREM SyncTypeCorrect == Spec => []TypeOK
<1>1. Init => TypeOK
  BY SyncAssumption DEF Init, TypeOK
<1>2. TypeOK /\ [Next]_vars => TypeOK'
  <2> SUFFICES ASSUME TypeOK, [Next]_vars PROVE TypeOK'
    OBVIOUS
  <2> USE SyncAssumption, RevokedRow, UploadedRow DEF TypeOK, Found, Written, Refused, told, server
  <2>1. ASSUME NEW d \in Devices, NEW a \in Archives, Store(d, a) PROVE TypeOK'
    BY <2>1 DEF Store
  <2>2. ASSUME NEW d \in Devices, Retrieve(d) PROVE TypeOK'
    BY <2>2 DEF Retrieve
  <2>3. ASSUME NEW d \in Devices, Revoke(d) PROVE TypeOK'
    BY <2>3 DEF Revoke
  <2>4. ASSUME NEW d \in Devices, Delete(d) PROVE TypeOK'
    BY <2>4 DEF Delete
  <2>5. CASE Restart
    BY <2>5 DEF Restart
  <2>6. CASE UNCHANGED vars
    BY <2>6 DEF vars
  <2> QED BY <2>1, <2>2, <2>3, <2>4, <2>5, <2>6 DEF Next, Call
<1> QED BY <1>1, <1>2, PTL DEF Spec

-----------------------------------------------------------------------------
\* A device that is out is out in the memory and in the table: each may be the next to answer.
OutInv ==
    /\ \A d \in out :
          /\ memory[d] # None => memory[d].revoked
          /\ rows[d] # None => rows[d].revoked
    /\ ~database => \A d \in Devices : rows[d] = None

\* A revoked or deleted archive is not served before the next upload, although calls may
\* fail between memory and table and rows are read back from the table.
THEOREM OutForGood == Spec => []OutStaysOut
<1>1. Init => OutInv
  BY DEF Init, OutInv
<1>2. TypeOK /\ OutInv /\ [Next]_vars => OutInv'
  <2> SUFFICES ASSUME TypeOK, OutInv, [Next]_vars PROVE OutInv'
    OBVIOUS
  <2> USE SyncAssumption, RevokedRow, UploadedRow DEF TypeOK, OutInv, Found, Written, Refused, told, server
  <2>1. ASSUME NEW d \in Devices, NEW a \in Archives, Store(d, a) PROVE OutInv'
    BY <2>1 DEF Store
  <2>2. ASSUME NEW d \in Devices, Retrieve(d) PROVE OutInv'
    BY <2>2 DEF Retrieve
  <2>3. ASSUME NEW d \in Devices, Revoke(d) PROVE OutInv'
    <3>0. ~database => rows' = rows
      BY <2>3 DEF Revoke
    <3> SUFFICES ASSUME NEW e \in Devices, e \in out'
                 PROVE  /\ memory'[e] # None => memory'[e].revoked
                        /\ rows'[e] # None => rows'[e].revoked
      BY <2>3, <3>0 DEF Revoke
    <3>1. CASE e # d
      BY <2>3, <3>1 DEF Revoke
    <3>2. CASE e = d /\ d \in out
      BY <2>3, <3>2 DEF Revoke
    <3>3. CASE e = d /\ d \notin out
      <4>1. Written(d, Revoked(rows[d])) /\ memory'[d] = Revoked(memory[d])
        BY <2>3, <3>3 DEF Revoke
      <4>2. database => rows'[d] = Revoked(rows[d])
        BY <4>1
      <4> QED BY <3>0, <3>3, <4>1, <4>2
    <3> QED BY <3>1, <3>2, <3>3
  <2>4. ASSUME NEW d \in Devices, Delete(d) PROVE OutInv'
    <3>1. CASE database
      BY <2>4, <3>1 DEF Delete
    <3>2. CASE ~database
      BY <2>4, <3>2 DEF Delete
    <3> QED BY <3>1, <3>2
  <2>5. CASE Restart
    BY <2>5 DEF Restart
  <2>6. CASE UNCHANGED vars
    BY <2>6 DEF vars
  <2> QED BY <2>1, <2>2, <2>3, <2>4, <2>5, <2>6 DEF Next, Call
<1>3. TypeOK /\ OutInv => OutStaysOut
  BY NoneIsNoRow DEF TypeOK, OutInv, OutStaysOut, Download, Serves, Found
<1> QED BY <1>1, <1>2, <1>3, SyncTypeCorrect, PTL DEF Spec

-----------------------------------------------------------------------------
\* The table holds what the accepted calls amount to, or else the memory does.
TruthInv ==
    \A d \in Devices :
        IF database THEN rows[d] = promised[d]
        ELSE rows[d] = None /\ memory[d] = promised[d]

\* Failed calls leave no trace once the memory of the server is gone.
THEOREM RestartIsTruthful == Spec => []RestartTellsTruth
<1>1. Init => TruthInv
  BY NoneIsNoRow DEF Init, TruthInv
<1>2. TypeOK /\ TruthInv /\ [Next]_vars => TruthInv'
  <2> SUFFICES ASSUME TypeOK, TruthInv, [Next]_vars PROVE TruthInv'
    OBVIOUS
  <2> USE SyncAssumption, RevokedRow, UploadedRow DEF TypeOK, TruthInv, Found, Written, Refused, told, server
  <2>1. ASSUME NEW d \in Devices, NEW a \in Archives, Store(d, a) PROVE TruthInv'
    BY <2>1 DEF Store
  <2>2. ASSUME NEW d \in Devices, Retrieve(d) PROVE TruthInv'
    BY <2>2 DEF Retrieve
  <2>3. ASSUME NEW d \in Devices, Revoke(d) PROVE TruthInv'
    BY <2>3 DEF Revoke
  <2>4. ASSUME NEW d \in Devices, Delete(d) PROVE TruthInv'
    BY <2>4 DEF Delete
  <2>5. CASE Restart
    BY <2>5 DEF Restart
  <2>6. CASE UNCHANGED vars
    BY <2>6 DEF vars
  <2> QED BY <2>1, <2>2, <2>3, <2>4, <2>5, <2>6 DEF Next, Call
<1>3. TypeOK /\ TruthInv => RestartTellsTruth
  BY NoneIsNoRow DEF TypeOK, TruthInv, RestartTellsTruth, Download, Serves, Found
<1> QED BY <1>1, <1>2, <1>3, SyncTypeCorrect, PTL DEF Spec

-----------------------------------------------------------------------------
\* Until a statement raises, the memory is a cache of a table that holds what the calls
\* amount to.
CacheInv ==
    \A d \in Devices :
        IF database THEN rows[d] = promised[d] /\ (d \notin failed => memory[d] \in {None, rows[d]})
        ELSE rows[d] = None /\ memory[d] = promised[d]

\* As long as no statement about a device has raised, its downloads and its place in the
\* list tell the accepted calls.
THEOREM CacheIsExact == Spec => []ListMatchesDownload
<1>1. Init => CacheInv
  BY NoneIsNoRow DEF Init, CacheInv
<1>2. TypeOK /\ CacheInv /\ [Next]_vars => CacheInv'
  <2> SUFFICES ASSUME TypeOK, CacheInv, [Next]_vars PROVE CacheInv'
    OBVIOUS
  <2> USE SyncAssumption, RevokedRow, UploadedRow DEF TypeOK, CacheInv, Found, Written, Refused, told, server
  <2>1. ASSUME NEW d \in Devices, NEW a \in Archives, Store(d, a) PROVE CacheInv'
    BY <2>1 DEF Store
  <2>2. ASSUME NEW d \in Devices, Retrieve(d) PROVE CacheInv'
    BY <2>2 DEF Retrieve
  <2>3. ASSUME NEW d \in Devices, Revoke(d) PROVE CacheInv'
    BY <2>3 DEF Revoke
  <2>4. ASSUME NEW d \in Devices, Delete(d) PROVE CacheInv'
    BY <2>4 DEF Delete
  <2>5. CASE Restart
    BY <2>5 DEF Restart
  <2>6. CASE UNCHANGED vars
    BY <2>6 DEF vars
  <2> QED BY <2>1, <2>2, <2>3, <2>4, <2>5, <2>6 DEF Next, Call
<1>3. TypeOK /\ CacheInv => ListMatchesDownload
  BY NoneIsNoRow DEF TypeOK, CacheInv, ListMatchesDownload, Listed, Download, Serves, Found
<1> QED BY <1>1, <1>2, <1>3, SyncTypeCorrect, PTL DEF Spec

-----------------------------------------------------------------------------
(* ProfileTransfer: imports and restores.                                   *)

(* The inductive invariant.  An import and a restore run beside each       *)
(* other and beside saves: that neither has the other's id is what keeps   *)
(* the steps of each together.                                             *)

Honest(e) == e.trust = "verified" => ~e.file

EntriesAreHonest ==
    /\ \A p \in Profiles : Honest(profiles[p]) /\ Honest(saved[p])
    /\ \A a \in copies : Honest(a.entry)
    /\ restore # NoRestore => Honest(restore.archive.entry)

Unarchived(e) == e # NoEntry => e.whole = NoArchive

ImportIsApart ==
    import # NoImport =>
       /\ profiles[import.id] # NoEntry
       /\ restore # NoRestore => import.id # restore.id
       /\ import.id \in FreshIds =>
             Unarchived(profiles[import.id]) /\ Unarchived(saved[import.id])

\* Nobody knows the profile before it is registered; then it is the archive's.
RestoreIsApart ==
    restore # NoRestore =>
       /\ restore.step \in {"staged", "moved"} =>
             profiles[restore.id] = NoEntry /\ saved[restore.id] = NoEntry
       /\ restore.step # "staged" => dirs[restore.id] = restore.archive.content
       /\ restore.step \in {"registered", "preserved"} =>
             /\ profiles[restore.id] \in Entry
             /\ profiles[restore.id].file = restore.archive.entry.file
             /\ profiles[restore.id].whole = restore.archive.content

TransferInv ==
    /\ TransferTypeOK /\ EntriesAreHonest /\ ImportIsApart /\ RestoreIsApart
    /\ RestoredIsWhole

-----------------------------------------------------------------------------
(* Lemmas about the data.                                                  *)

LEMMA NoEntryIsNone == NoEntry \notin Entry /\ Honest(NoEntry) /\ Unarchived(NoEntry)
<1>1. NoEntry.trust = "no entry" BY DEF NoEntry
<1>2. \A e \in Entry : e.trust \in {"verified", "unverified", "none"} BY DEF Entry
<1> QED BY <1>1, <1>2 DEF Honest, Unarchived

LEMMA MarksAreApart == NoArchive \notin Contents /\ NoDir \notin Contents
BY TransferAssumption DEF NoArchive, NoDir, Contents, Part, Empty

LEMMA IdsAreApart == \A p \in FreshIds : p \in Profiles /\ p \notin Ids
BY TransferAssumption DEF Profiles

\* What the calls under way look like.
LEMMA CallsHaveTheirForm ==
    ASSUME TransferTypeOK
    PROVE  /\ import # NoImport =>
                 /\ import.step \in {"entered", "made"} /\ import.id \in Profiles
                 /\ import.created \in BOOLEAN
           /\ restore # NoRestore =>
                 /\ restore.step \in {"staged", "moved", "registered", "preserved"}
                 /\ restore.id \in FreshIds /\ restore.archive \in Archive
           /\ NoImport.step = "none" /\ NoRestore.step = "none"
           /\ NoEntry \notin Entry
BY NoEntryIsNone DEF TransferTypeOK, NoImport, NoRestore

\* A content is what a restore moves, an entry what it registers.
LEMMA ArchivesHaveTheirForm ==
    ASSUME NEW a \in Archive
    PROVE  a.entry \in Entry /\ a.content \in Contents
BY DEF Archive

-----------------------------------------------------------------------------
(* Archives.                                                               *)

LEMMA ArchiveStep ==
    ASSUME TransferInv,
           \/ \E p \in Profiles : TakesArchive(p)
           \/ \E a \in copies : LosesGhostFile(a)
    PROVE  TransferInv'
<1>1. UNCHANGED <<profiles, saved, dirs, import, restore>>
  BY DEF TakesArchive, LosesGhostFile, callVars
<1>2. copies' \subseteq Archive /\ \A a \in copies' : Honest(a.entry)
  <2>1. CASE \E a \in copies : LosesGhostFile(a)
    BY <2>1 DEF LosesGhostFile, TransferInv, TransferTypeOK, EntriesAreHonest
  <2>2. ASSUME NEW p \in Profiles, TakesArchive(p)
        PROVE  copies' \subseteq Archive /\ \A a \in copies' : Honest(a.entry)
    <3> DEFINE e == IF Known(p) THEN profiles[p]
                    ELSE [trust |-> "none", file |-> FALSE, whole |-> NoArchive]
    <3>1. e \in Entry /\ Honest(e)
      BY DEF Known, TransferInv, TransferTypeOK, EntriesAreHonest, Entry, Honest
    <3>2. dirs[p] \in Contents
      BY <2>2 DEF TakesArchive, TransferInv, TransferTypeOK
    <3>3. ArchiveOf(p) = [entry |-> e, content |-> dirs[p]] BY DEF ArchiveOf
    <3> HIDE DEF e
    <3>4. ArchiveOf(p) \in Archive /\ Honest(ArchiveOf(p).entry)
      BY <3>1, <3>2, <3>3 DEF Archive
    <3>5. copies' = copies \cup {ArchiveOf(p)} BY <2>2 DEF TakesArchive
    <3> QED BY <3>4, <3>5 DEF TransferInv, TransferTypeOK, EntriesAreHonest
  <2> QED BY <2>1, <2>2
<1>3. TransferTypeOK' BY <1>1, <1>2 DEF TransferInv, TransferTypeOK
<1>4. EntriesAreHonest' BY <1>1, <1>2 DEF TransferInv, EntriesAreHonest
<1>5. ImportIsApart' /\ RestoreIsApart' /\ RestoredIsWhole'
  BY <1>1 DEF TransferInv, ImportIsApart, RestoreIsApart, RestoredIsWhole
<1> QED BY <1>3, <1>4, <1>5 DEF TransferInv

-----------------------------------------------------------------------------
(* The import.                                                             *)

LEMMA ImportEntersStep ==
    ASSUME TransferInv, NEW p \in Profiles, NEW overwrite \in BOOLEAN,
           NEW claim \in {"verified", "none"}, ImportEnters(p, overwrite, claim)
    PROVE  TransferInv'
<1> DEFINE e == FromFile(claim)
<1>1. e \in Entry /\ Honest(e) /\ Unarchived(e) /\ e # NoEntry /\ e.whole = NoArchive
  <2>1. e = [trust |-> "unverified", file |-> TRUE, whole |-> NoArchive] BY DEF FromFile
  <2> HIDE DEF e
  <2>2. e.trust = "unverified" /\ e.whole = NoArchive BY <2>1
  <2>3. e \in Entry BY <2>1 DEF Entry
  <2> QED BY <2>2, <2>3, NoEntryIsNone DEF Honest, Unarchived
<1>2. /\ profiles' = [profiles EXCEPT ![p] = e]
      /\ import' = [step |-> "entered", id |-> p, created |-> FALSE]
      /\ UNCHANGED <<saved, dirs, copies, restore>>
      /\ p \in Ids \/ Fresh(p)
  BY DEF ImportEnters
<1>3. import'.id = p BY <1>2
<1>4. p \in FreshIds => saved[p] = NoEntry
  BY <1>2, IdsAreApart DEF Fresh
<1>5. restore # NoRestore => restore.id # p
  BY <1>2, CallsHaveTheirForm, IdsAreApart DEF Fresh, TransferInv
<1> HIDE DEF e
<1>6. /\ profiles' \in [Profiles -> Entry \cup {NoEntry}]
      /\ \A x \in Profiles : profiles'[x] = IF x = p THEN e ELSE profiles[x]
  BY <1>1, <1>2 DEF TransferInv, TransferTypeOK
<1>7. TransferTypeOK' BY <1>2, <1>6 DEF TransferInv, TransferTypeOK
<1>8. EntriesAreHonest' BY <1>1, <1>2, <1>6 DEF TransferInv, EntriesAreHonest
<1>9. ImportIsApart'
  BY <1>1, <1>2, <1>3, <1>4, <1>5, <1>6, NoEntryIsNone DEF ImportIsApart, Unarchived
<1>10. RestoreIsApart'
  BY <1>2, <1>5, <1>6, CallsHaveTheirForm, IdsAreApart DEF TransferInv, RestoreIsApart
<1>11. RestoredIsWhole'
  BY <1>1, <1>2, <1>6, IdsAreApart DEF TransferInv, RestoredIsWhole
<1> QED BY <1>7, <1>8, <1>9, <1>10, <1>11 DEF TransferInv

LEMMA ImportMakesStep == ASSUME TransferInv, ImportMakes PROVE TransferInv'
<1>1. import # NoImport /\ UNCHANGED <<profiles, saved, copies, restore>>
  BY CallsHaveTheirForm DEF ImportMakes, TransferInv
<1> DEFINE p == import.id
<1>2. p \in Profiles BY <1>1, CallsHaveTheirForm DEF TransferInv
<1>3. import' = NoImport \/ import' = [import EXCEPT !.step = "made", !.created = dirs[p] = NoDir]
  BY DEF ImportMakes
<1>4. import' = NoImport
      \/ (import'.id = p /\ import' \in [step : {"entered", "made"}, id : Profiles, created : BOOLEAN])
  BY <1>1, <1>3 DEF TransferInv, TransferTypeOK
<1>5. /\ dirs' \in [Profiles -> Contents \cup {NoDir}]
      /\ \A x \in Profiles : x # p \/ dirs[x] # NoDir => dirs'[x] = dirs[x]
  BY <1>2 DEF ImportMakes, TransferInv, TransferTypeOK, Contents
<1>6. TransferTypeOK' BY <1>1, <1>4, <1>5 DEF TransferInv, TransferTypeOK
<1>7. EntriesAreHonest' BY <1>1 DEF TransferInv, EntriesAreHonest
<1>8. ImportIsApart' BY <1>1, <1>4 DEF TransferInv, ImportIsApart
<1>9. RestoreIsApart'
  BY <1>1, <1>5, CallsHaveTheirForm, IdsAreApart DEF TransferInv, RestoreIsApart, ImportIsApart
<1>10. RestoredIsWhole'
  BY <1>1, <1>5, IdsAreApart DEF TransferInv, RestoredIsWhole, ImportIsApart, Unarchived
<1> QED BY <1>6, <1>7, <1>8, <1>9, <1>10 DEF TransferInv

LEMMA ImportSavesStep == ASSUME TransferInv, ImportSaves PROVE TransferInv'
<1>1. import # NoImport /\ import' = NoImport /\ UNCHANGED <<copies, restore>>
  BY CallsHaveTheirForm DEF ImportSaves, TransferInv
<1> DEFINE p == import.id
<1>2. p \in Profiles BY <1>1, CallsHaveTheirForm DEF TransferInv
<1>3. CASE UNCHANGED <<profiles, dirs>> /\ Saves
  <2>1. saved' = profiles BY <1>3 DEF Saves
  <2>2. TransferTypeOK' BY <1>1, <1>3, <2>1 DEF TransferInv, TransferTypeOK
  <2>3. EntriesAreHonest' BY <1>1, <1>3, <2>1 DEF TransferInv, EntriesAreHonest
  <2>4. ImportIsApart' BY <1>1 DEF ImportIsApart
  <2>5. RestoreIsApart' BY <1>1, <1>3, <2>1 DEF TransferInv, RestoreIsApart
  <2>6. RestoredIsWhole' BY <1>3, <2>1 DEF TransferInv, RestoredIsWhole
  <2> QED BY <2>2, <2>3, <2>4, <2>5, <2>6 DEF TransferInv
<1>4. CASE /\ profiles' = [profiles EXCEPT ![p] = NoEntry]
           /\ dirs' = [dirs EXCEPT ![p] = IF import.created /\ @ = Empty THEN NoDir ELSE @]
           /\ SaveFails
  <2>1. /\ profiles' \in [Profiles -> Entry \cup {NoEntry}]
        /\ \A x \in Profiles : profiles'[x] = IF x = p THEN NoEntry ELSE profiles[x]
        /\ dirs' \in [Profiles -> Contents \cup {NoDir}]
        /\ \A x \in Profiles : x # p => dirs'[x] = dirs[x]
        /\ saved' = saved
    BY <1>2, <1>4 DEF TransferInv, TransferTypeOK, SaveFails
  <2>2. TransferTypeOK' BY <1>1, <2>1 DEF TransferInv, TransferTypeOK
  <2>3. EntriesAreHonest' BY <1>1, <2>1, NoEntryIsNone DEF TransferInv, EntriesAreHonest
  <2>4. ImportIsApart' BY <1>1 DEF ImportIsApart
  <2>5. RestoreIsApart'
    BY <1>1, <2>1, CallsHaveTheirForm, IdsAreApart DEF TransferInv, RestoreIsApart, ImportIsApart
  <2>6. RestoredIsWhole'
    BY <1>1, <2>1, IdsAreApart DEF TransferInv, RestoredIsWhole, ImportIsApart, Unarchived
  <2> QED BY <2>2, <2>3, <2>4, <2>5, <2>6 DEF TransferInv
<1> QED BY <1>3, <1>4 DEF ImportSaves

-----------------------------------------------------------------------------
(* The restore.                                                            *)

LEMMA RestoreStagesStep ==
    ASSUME TransferInv, NEW a \in copies, RestoreStages(a) PROVE TransferInv'
<1>1. PICK p \in FreshIds : Fresh(p) /\ restore' = [step |-> "staged", id |-> p, archive |-> a]
  BY DEF RestoreStages
<1>2. UNCHANGED <<profiles, saved, dirs, copies, import>> BY DEF RestoreStages
<1>3. restore'.id = p /\ restore'.archive = a /\ restore'.step = "staged" BY <1>1
<1>4. a \in Archive /\ Honest(a.entry) BY DEF TransferInv, TransferTypeOK, EntriesAreHonest
<1>5. profiles[p] = NoEntry /\ saved[p] = NoEntry BY <1>1 DEF Fresh, Known
<1>6. TransferTypeOK' BY <1>1, <1>2, <1>4 DEF TransferInv, TransferTypeOK
<1>7. EntriesAreHonest' BY <1>2, <1>3, <1>4 DEF TransferInv, EntriesAreHonest
<1>8. ImportIsApart' BY <1>2, <1>3, <1>5 DEF TransferInv, ImportIsApart
<1>9. RestoreIsApart' BY <1>2, <1>3, <1>5 DEF RestoreIsApart
<1>10. RestoredIsWhole' BY <1>2 DEF TransferInv, RestoredIsWhole
<1> QED BY <1>6, <1>7, <1>8, <1>9, <1>10 DEF TransferInv

LEMMA RestoreMovesStep == ASSUME TransferInv, RestoreMoves PROVE TransferInv'
<1> DEFINE p == restore.id
           a == restore.archive
<1>1. /\ restore # NoRestore /\ restore.step = "staged"
      /\ UNCHANGED <<profiles, saved, copies, import>>
  BY CallsHaveTheirForm DEF RestoreMoves, TransferInv
<1>2. p \in FreshIds /\ p \in Profiles /\ a \in Archive /\ a.content \in Contents
  BY <1>1, CallsHaveTheirForm, IdsAreApart, ArchivesHaveTheirForm DEF TransferInv
<1>3. profiles[p] = NoEntry /\ saved[p] = NoEntry
  BY <1>1 DEF TransferInv, RestoreIsApart
<1>4. /\ dirs' \in [Profiles -> Contents \cup {NoDir}]
      /\ \A x \in Profiles : x # p => dirs'[x] = dirs[x]
  BY <1>2 DEF RestoreMoves, TransferInv, TransferTypeOK, Contents
<1>5. \/ restore' = NoRestore
      \/ restore' = [restore EXCEPT !.step = "moved"] /\ dirs'[p] = a.content
  BY <1>2 DEF RestoreMoves, RestoreOver, TransferInv, TransferTypeOK
<1>6. \/ restore' = NoRestore
      \/ /\ restore' \in [step : {"staged", "moved", "registered", "preserved"},
                          id : FreshIds, archive : Archive]
         /\ restore'.step = "moved" /\ restore'.id = p /\ restore'.archive = a
         /\ dirs'[p] = a.content
  BY <1>1, <1>5 DEF TransferInv, TransferTypeOK
<1>7. TransferTypeOK' BY <1>1, <1>4, <1>6 DEF TransferInv, TransferTypeOK
<1>8. EntriesAreHonest' BY <1>1, <1>6 DEF TransferInv, EntriesAreHonest
<1>9. ImportIsApart' BY <1>1, <1>6 DEF TransferInv, ImportIsApart
<1>10. RestoreIsApart' BY <1>1, <1>3, <1>6 DEF RestoreIsApart
<1>11. RestoredIsWhole'
  BY <1>1, <1>3, <1>4, IdsAreApart DEF TransferInv, RestoredIsWhole
<1> QED BY <1>7, <1>8, <1>9, <1>10, <1>11 DEF TransferInv

\* The three steps that enter e for the profile and save, or fail to.
LEMMA RestoreEntersAndSaves ==
    ASSUME TransferInv, restore # NoRestore, restore.step # "staged",
           NEW e \in Entry, NEW step \in {"registered", "preserved"},
           Honest(e), e.file = restore.archive.entry.file, e.whole = restore.archive.content,
           profiles' = [profiles EXCEPT ![restore.id] = e],
           saved' \in {saved, profiles'},
           restore' \in {NoRestore, [restore EXCEPT !.step = step]},
           UNCHANGED <<dirs, copies, import>>
    PROVE  TransferInv'
<1> DEFINE p == restore.id
<1>1. p \in FreshIds /\ p \in Profiles
  BY CallsHaveTheirForm, IdsAreApart DEF TransferInv
<1>2. /\ profiles' \in [Profiles -> Entry \cup {NoEntry}]
      /\ \A x \in Profiles : profiles'[x] = IF x = p THEN e ELSE profiles[x]
  BY <1>1 DEF TransferInv, TransferTypeOK
<1>3. \/ restore' = NoRestore
      \/ /\ restore' \in [step : {"staged", "moved", "registered", "preserved"},
                          id : FreshIds, archive : Archive]
         /\ restore'.step = step /\ restore'.id = p /\ restore'.archive = restore.archive
  BY DEF TransferInv, TransferTypeOK
<1>4. dirs[p] = restore.archive.content /\ e # NoEntry
  BY NoEntryIsNone DEF TransferInv, RestoreIsApart
<1>5. TransferTypeOK' BY <1>2, <1>3 DEF TransferInv, TransferTypeOK
<1>6. EntriesAreHonest'
  BY <1>2, <1>3 DEF TransferInv, EntriesAreHonest
<1>7. ImportIsApart'
  <2> SUFFICES ASSUME import # NoImport PROVE ImportIsApart' BY DEF ImportIsApart
  <2>1. import.id \in Profiles /\ import.id # p
    BY CallsHaveTheirForm DEF TransferInv, ImportIsApart
  <2>2. profiles'[import.id] = profiles[import.id]
        /\ saved'[import.id] \in {saved[import.id], profiles[import.id]}
    BY <1>2, <2>1
  <2> QED BY <1>3, <2>1, <2>2 DEF TransferInv, ImportIsApart
<1>8. RestoreIsApart' BY <1>1, <1>2, <1>3, <1>4 DEF RestoreIsApart
<1>9. RestoredIsWhole'
  BY <1>1, <1>2, <1>4, IdsAreApart DEF TransferInv, RestoredIsWhole
<1> QED BY <1>5, <1>6, <1>7, <1>8, <1>9 DEF TransferInv

LEMMA RestoreRegistersStep == ASSUME TransferInv, RestoreRegisters PROVE TransferInv'
<1> DEFINE a == restore.archive
           e == [trust |-> "none", file |-> a.entry.file, whole |-> a.content]
<1>1. restore # NoRestore /\ restore.step = "moved"
  BY CallsHaveTheirForm DEF RestoreRegisters, TransferInv
<1>2. a.entry \in Entry /\ a.content \in Contents
  BY <1>1, CallsHaveTheirForm, ArchivesHaveTheirForm DEF TransferInv
<1>3. e \in Entry /\ Honest(e) /\ e.file = a.entry.file /\ e.whole = a.content
  BY <1>2 DEF Entry, Honest
<1>4. /\ profiles' = [profiles EXCEPT ![restore.id] = e]
      /\ saved' \in {saved, profiles'}
      /\ restore' \in {NoRestore, [restore EXCEPT !.step = "registered"]}
      /\ UNCHANGED <<dirs, copies, import>>
  BY DEF RestoreRegisters, RestoreSaves, Saves, SaveFails, RestoreOver
<1> HIDE DEF e
<1> QED BY <1>1, <1>3, <1>4, RestoreEntersAndSaves

LEMMA RestorePreservesStep == ASSUME TransferInv, RestorePreserves PROVE TransferInv'
<1> DEFINE a == restore.archive
           old == profiles[restore.id]
           e == [old EXCEPT !.trust = a.entry.trust]
<1>1. restore # NoRestore /\ restore.step = "registered"
  BY CallsHaveTheirForm DEF RestorePreserves, TransferInv
<1>2. a.entry \in Entry /\ Honest(a.entry) /\ restore.id \in Profiles
  BY <1>1, CallsHaveTheirForm, IdsAreApart, ArchivesHaveTheirForm DEF TransferInv, EntriesAreHonest
<1>3. old \in Entry /\ old.file = a.entry.file /\ old.whole = a.content
  BY <1>1 DEF TransferInv, RestoreIsApart
<1>4. e \in Entry /\ e.trust = a.entry.trust /\ e.file = a.entry.file /\ e.whole = a.content
  BY <1>2, <1>3 DEF Entry
<1>5. Honest(e) BY <1>2, <1>4 DEF Honest
<1>6. /\ profiles' = [profiles EXCEPT ![restore.id] = e]
      /\ saved' \in {saved, profiles'}
      /\ restore' \in {NoRestore, [restore EXCEPT !.step = "preserved"]}
      /\ UNCHANGED <<dirs, copies, import>>
  BY <1>2 DEF RestorePreserves, RestoreSaves, Saves, SaveFails, RestoreOver, TransferInv, TransferTypeOK
<1> HIDE DEF e
<1> QED BY <1>1, <1>4, <1>5, <1>6, RestoreEntersAndSaves

-----------------------------------------------------------------------------
(* Around.                                                                 *)

LEMMA RestoreEndsStep ==
    ASSUME TransferInv,
           \/ RestoreEnds
           \/ OthersSave
    PROVE  TransferInv'
<1>1. /\ UNCHANGED <<profiles, dirs, copies, import>>
      /\ saved' \in {saved, profiles}
      /\ restore' \in {restore, NoRestore}
  BY DEF RestoreEnds, OthersSave, Saves, SaveFails, RestoreOver, callVars
<1>2. TransferTypeOK' BY <1>1 DEF TransferInv, TransferTypeOK
<1>3. EntriesAreHonest' BY <1>1 DEF TransferInv, EntriesAreHonest
<1>4. ImportIsApart' BY <1>1 DEF TransferInv, ImportIsApart
<1>5. RestoreIsApart' BY <1>1 DEF TransferInv, RestoreIsApart
<1>6. RestoredIsWhole' BY <1>1 DEF TransferInv, RestoredIsWhole
<1> QED BY <1>2, <1>3, <1>4, <1>5, <1>6 DEF TransferInv

LEMMA BrowsesStep ==
    ASSUME TransferInv, NEW p \in Ids, NEW c \in Versions, Browses(p, c) PROVE TransferInv'
<1>1. UNCHANGED <<profiles, saved, copies, import, restore>>
  BY DEF Browses, callVars
<1>2. /\ dirs' \in [Profiles -> Contents \cup {NoDir}]
      /\ \A x \in FreshIds : dirs'[x] = dirs[x]
  BY IdsAreApart DEF Browses, TransferInv, TransferTypeOK, Contents
<1>3. TransferTypeOK' BY <1>1, <1>2 DEF TransferInv, TransferTypeOK
<1>4. EntriesAreHonest' /\ ImportIsApart'
  BY <1>1 DEF TransferInv, EntriesAreHonest, ImportIsApart
<1>5. RestoreIsApart'
  BY <1>1, <1>2, CallsHaveTheirForm DEF TransferInv, RestoreIsApart
<1>6. RestoredIsWhole' BY <1>1, <1>2 DEF TransferInv, RestoredIsWhole
<1> QED BY <1>3, <1>4, <1>5, <1>6 DEF TransferInv

LEMMA RestartsStep == ASSUME TransferInv, Restarts PROVE TransferInv'
<1>1. TransferTypeOK' BY DEF Restarts, TransferInv, TransferTypeOK
<1>2. EntriesAreHonest' BY DEF Restarts, TransferInv, EntriesAreHonest
<1>3. ImportIsApart' /\ RestoreIsApart' BY DEF Restarts, ImportIsApart, RestoreIsApart
<1>4. RestoredIsWhole' BY DEF Restarts, TransferInv, RestoredIsWhole
<1> QED BY <1>1, <1>2, <1>3, <1>4 DEF TransferInv

-----------------------------------------------------------------------------
\* At first there are only profiles that were created here.
LEMMA TransferInvInit == TransferInit => TransferInv
<1> SUFFICES ASSUME TransferInit PROVE TransferInv OBVIOUS
<1> DEFINE e == [trust |-> "verified", file |-> FALSE, whole |-> NoArchive]
<1>1. e \in Entry /\ Honest(e) BY DEF Entry, Honest
<1>2. \A p \in Profiles : profiles[p] = (IF p \in Ids THEN e ELSE NoEntry)
  BY DEF TransferInit
<1>3. profiles \in [Profiles -> Entry \cup {NoEntry}] BY <1>1 DEF TransferInit
<1>4. saved = profiles /\ copies = {} /\ import = NoImport /\ restore = NoRestore
  BY DEF TransferInit
<1>5. TransferTypeOK BY <1>3, <1>4 DEF TransferInit, TransferTypeOK, Contents
<1> HIDE DEF e
<1>6. EntriesAreHonest BY <1>1, <1>2, <1>4, NoEntryIsNone DEF EntriesAreHonest
<1>7. ImportIsApart /\ RestoreIsApart BY <1>4 DEF ImportIsApart, RestoreIsApart
<1>8. RestoredIsWhole BY <1>2, <1>4, IdsAreApart DEF RestoredIsWhole
<1> QED BY <1>5, <1>6, <1>7, <1>8 DEF TransferInv

LEMMA TransferInvNext == TransferInv /\ [TransferNext]_transferVars => TransferInv'
<1> SUFFICES ASSUME TransferInv, [TransferNext]_transferVars PROVE TransferInv' OBVIOUS
<1>1. CASE UNCHANGED transferVars
  BY <1>1 DEF transferVars, TransferInv, TransferTypeOK, EntriesAreHonest, ImportIsApart,
     RestoreIsApart, RestoredIsWhole
<1>2. CASE TransferNext
  BY <1>2, ArchiveStep, ImportEntersStep, ImportMakesStep, ImportSavesStep, RestoreStagesStep,
     RestoreMovesStep, RestoreRegistersStep, RestorePreservesStep, RestoreEndsStep,
     BrowsesStep, RestartsStep DEF TransferNext
<1> QED BY <1>1, <1>2

LEMMA TransferInvariant == TransferSpec => []TransferInv
BY TransferInvInit, TransferInvNext, PTL DEF TransferSpec

(* Whatever a file claims, and however often its entry is archived,        *)
(* restored and read back, it does not pass for verified (_import_single,  *)
(* register_profile, update_profile).                                      *)
THEOREM FilesStayUntrusted == TransferSpec => []FilesAreNotTrusted
<1>1. TransferInv => FilesAreNotTrusted
  BY DEF TransferInv, EntriesAreHonest, Honest, FilesAreNotTrusted
<1> QED BY <1>1, TransferInvariant, PTL

(* A restored profile has the whole directory of its archive, whatever     *)
(* fails and whenever the application stops (import_profile).              *)
THEOREM RestoresAreWhole == TransferSpec => []RestoredIsWhole
<1>1. TransferInv => RestoredIsWhole BY DEF TransferInv
<1> QED BY <1>1, TransferInvariant, PTL

-----------------------------------------------------------------------------
(* BrowserIdentity: what a launch announces.                                *)

(* The inductive invariant.  IdentityIsCoherent speaks of the last launch  *)
(* only; the next one builds on what the process has cached.               *)

\* Metadata that a browser of version v gives, with or without full versions.
IsOf(native, v) ==
    /\ Brand("Chromium", Major(v)) \in native.brands
    /\ native.full \in {Unread, v}
    /\ native.list # {} => Brand("Chromium", v) \in native.list

EnginesAreReal == engine \in EngineVersions

VersionIsRead == ~upgraded => version \in {Unread, engine}

MetadataIsProbed ==
    ~upgraded => \A h \in BOOLEAN : metadata[h] = NotProbed \/ IsOf(metadata[h], engine)

CachesHaveTheirForm == metadata = [h \in BOOLEAN |-> metadata[h]]

StoredHasItsForm == stored = [agent |-> stored.agent, headless |-> stored.headless, full |-> stored.full]

IdentityInv ==
    /\ EnginesAreReal /\ VersionIsRead /\ MetadataIsProbed
    /\ CachesHaveTheirForm /\ StoredHasItsForm /\ IdentityIsCoherent

-----------------------------------------------------------------------------
(* What the conversions of the brands keep.                                *)

\* Decontamination keeps the Chromium brand and leaves no headless one.
LEMMA DecontaminatedKeepsChromium ==
    ASSUME NEW list, NEW v, Brand("Chromium", v) \in list
    PROVE  Brand("Chromium", v) \in Decontaminated(list)
<1> DEFINE b == Brand("Chromium", v)
<1>1. b.brand = "Chromium" /\ b.version = v BY DEF Brand
<1>2. b = Brand(IF b.brand = "HeadlessChrome" THEN "Google Chrome" ELSE b.brand, b.version)
  BY <1>1
<1> QED BY <1>2 DEF Decontaminated

LEMMA DecontaminatedIsClean ==
    ASSUME NEW list, NEW b \in Decontaminated(list)
    PROVE  b.brand # "HeadlessChrome"
<1>1. PICK a \in list :
        b = Brand(IF a.brand = "HeadlessChrome" THEN "Google Chrome" ELSE a.brand, a.version)
  BY DEF Decontaminated
<1>2. b.brand = IF a.brand = "HeadlessChrome" THEN "Google Chrome" ELSE a.brand
  BY <1>1 DEF Brand
<1> QED BY <1>2

\* A probe gives what a browser of the engine's version says.
LEMMA ProbeIsOfEngine ==
    ASSUME NEW h \in BOOLEAN, NEW lists \in BOOLEAN
    PROVE  IsOf(Probed(h, lists), engine)
<1> DEFINE native == Native(engine, h, lists)
<1>1. Brand("Chromium", Major(engine)) \in native.brands
  BY DEF Native
<1>2. native.full \in {Unread, engine}
  BY DEF Native
<1>3. native.list # {} => Brand("Chromium", engine) \in native.list
  BY DEF Native
<1>4. /\ Probed(h, lists).brands = Decontaminated(native.brands)
      /\ Probed(h, lists).full = native.full
      /\ Probed(h, lists).list = Decontaminated(native.list)
  BY DEF Probed, Native
<1> HIDE DEF native
<1>5. Brand("Chromium", Major(engine)) \in Decontaminated(native.brands)
  BY <1>1, DecontaminatedKeepsChromium
<1>6. native.list # {} => Brand("Chromium", engine) \in Decontaminated(native.list)
  BY <1>3, DecontaminatedKeepsChromium
<1>7. native.list = {} => Decontaminated(native.list) = {}
  BY DEF Decontaminated
<1> QED BY <1>2, <1>4, <1>5, <1>6, <1>7 DEF IsOf

\* The list of full versions, taken from the engine or made up.
LEMMA FullListFits ==
    ASSUME NEW native, NEW v, IsOf(native, v), FullVersion(native) = v
    PROVE  /\ \E b \in FullVersionList(native) : b.version = v
           /\ \A b \in FullVersionList(native) : b.brand # "HeadlessChrome"
<1>1. CASE native.list # {}
  <2>1. FullVersionList(native) = Decontaminated(native.list)
    BY <1>1 DEF FullVersionList
  <2>2. Brand("Chromium", v) \in Decontaminated(native.list)
    BY <1>1, DecontaminatedKeepsChromium DEF IsOf
  <2>3. Brand("Chromium", v).version = v BY DEF Brand
  <2> QED BY <2>1, <2>2, <2>3, DecontaminatedIsClean
<1>2. CASE native.list = {}
  <2> DEFINE clean == Decontaminated(native.brands)
             c == Brand("Chromium", Major(v))
  <2>1. FullVersionList(native) =
            {Brand(b.brand, IF b.brand = "grease" THEN Grease ELSE v) : b \in clean}
    BY <1>2 DEF FullVersionList
  <2>2. c \in clean /\ c.brand = "Chromium"
    BY DecontaminatedKeepsChromium DEF IsOf, Brand
  <2>3. \A b \in clean : b.brand # "HeadlessChrome"
    BY DecontaminatedIsClean
  <2> HIDE DEF clean, c
  <2>4. Brand("Chromium", v) \in FullVersionList(native)
    BY <2>1, <2>2
  <2>5. Brand("Chromium", v).version = v BY DEF Brand
  <2>6. ASSUME NEW b \in FullVersionList(native) PROVE b.brand # "HeadlessChrome"
    <3>1. PICK a \in clean : b = Brand(a.brand, IF a.brand = "grease" THEN Grease ELSE v)
      BY <2>1
    <3>2. b.brand = a.brand BY <3>1 DEF Brand
    <3> QED BY <2>3, <3>2
  <2> QED BY <2>4, <2>5, <2>6
<1> QED BY <1>1, <1>2

-----------------------------------------------------------------------------
(* A launch.                                                               *)

\* A configuration that fits the engine raises no issue but that of an agent
\* that was stored as headless.
LEMMA FittingHasNoIssue ==
    ASSUME NEW c,
           Major(c.agent) = Major(c.engine),
           Brand("Chromium", Major(c.engine)) \in c.brands,
           \A b \in c.brands : b.brand # "HeadlessChrome",
           \E b \in c.list : b.version = c.engine,
           \A b \in c.list : b.brand # "HeadlessChrome",
           c.full = c.engine
    PROVE  Issues(c) \subseteq (IF c.headless THEN {"headless"} ELSE {})
<1> DEFINE chromium == Brand("Chromium", Major(c.engine))
<1>1. chromium.brand = "Chromium" /\ chromium.version = Major(c.engine) BY DEF Brand
<1>2. chromium \in c.brands OBVIOUS
<1> HIDE DEF chromium
<1>3. ASSUME NEW i \in Issues(c) PROVE i = "headless" /\ c.headless
  <2>1. i # "agent" /\ i # "full version" BY <1>3 DEF Issues
  <2>2. i # "headers" /\ i # "brands" BY <1>1, <1>2, <1>3 DEF Issues
  <2>3. i # "full list" BY <1>3 DEF Issues
  <2>4. i = "headless" => c.headless BY <1>3 DEF Issues
  <2>5. i \in {"agent", "headers", "full list", "headless", "brands", "full version"}
    BY <1>3 DEF Issues
  <2> QED BY <2>1, <2>2, <2>3, <2>4, <2>5
<1> QED BY <1>3

\* The caches stay those of the engine, and the configuration fits it.
LEMMA LaunchKeepsIdentity ==
    ASSUME IdentityInv,
           NEW headless \in BOOLEAN, NEW lists \in BOOLEAN, NEW forced \in BOOLEAN,
           BuildsConfig(headless, lists, forced)
    PROVE  IdentityInv'
<1> DEFINE v == IF version = Unread THEN engine ELSE version
           native == IF metadata[headless] = NotProbed THEN Probed(headless, lists)
                     ELSE metadata[headless]
           agent == Reconciled(stored.agent, v)
<1>1. /\ version' = v
      /\ metadata' = [metadata EXCEPT ![headless] = native]
      /\ stored' = [stored EXCEPT !.agent = agent]
      /\ config' = [agent |-> agent, headless |-> stored.headless,
                    brands |-> Decontaminated(native.brands),
                    full |-> FullVersion(native), list |-> FullVersionList(native),
                    engine |-> engine, native |-> native.full # Unread,
                    coherent |-> Major(agent) = Major(v) /\ ~forced, layers |-> Layers]
      /\ engine' = engine /\ upgraded' = upgraded
  BY DEF BuildsConfig
<1>2. ~upgraded => v = engine
  BY DEF IdentityInv, VersionIsRead
<1>3. ~upgraded => IsOf(native, engine)
  BY ProbeIsOfEngine DEF IdentityInv, MetadataIsProbed
<1>4. Major(agent) = Major(v)
  BY DEF Reconciled
<1> HIDE DEF v, native, agent
<1>5. EnginesAreReal' /\ VersionIsRead'
  BY <1>1, <1>2 DEF IdentityInv, EnginesAreReal, VersionIsRead
<1>6. \A h \in BOOLEAN : metadata'[h] = IF h = headless THEN native ELSE metadata[h]
  BY <1>1 DEF IdentityInv, CachesHaveTheirForm
<1>7. CachesHaveTheirForm'
  BY <1>1 DEF IdentityInv, CachesHaveTheirForm
<1>8. MetadataIsProbed'
  <2> SUFFICES ASSUME ~upgraded', NEW h \in BOOLEAN
               PROVE  metadata'[h] = NotProbed \/ IsOf(metadata'[h], engine)
    BY <1>1 DEF MetadataIsProbed
  <2>1. CASE h = headless BY <1>1, <1>3, <1>6, <2>1
  <2>2. CASE h # headless BY <1>1, <1>6, <2>2 DEF IdentityInv, MetadataIsProbed
  <2> QED BY <2>1, <2>2
<1>9. stored' = [agent |-> agent, headless |-> stored.headless, full |-> stored.full]
  BY <1>1 DEF IdentityInv, StoredHasItsForm
<1>10. StoredHasItsForm'
  BY <1>9 DEF StoredHasItsForm
<1>11. IdentityIsCoherent'
  <2> SUFFICES ASSUME ~upgraded', config'.native \/ stored'.full = engine'
               PROVE  Issues(config') \subseteq (IF config'.headless THEN {"headless"} ELSE {})
    BY <1>1, <1>9 DEF IdentityIsCoherent, Issues
  <2>1. v = engine /\ IsOf(native, engine) BY <1>1, <1>2, <1>3
  <2>2. native.full \in {Unread, engine} BY <2>1 DEF IsOf
  <2>3. FullVersion(native) = engine
    BY <1>1, <1>9, <2>2 DEF FullVersion
  <2>4. Brand("Chromium", Major(engine)) \in Decontaminated(native.brands)
    BY <2>1, DecontaminatedKeepsChromium DEF IsOf
  <2>5. \A b \in Decontaminated(native.brands) : b.brand # "HeadlessChrome"
    BY DecontaminatedIsClean
  <2>6. /\ \E b \in FullVersionList(native) : b.version = engine
        /\ \A b \in FullVersionList(native) : b.brand # "HeadlessChrome"
    BY <2>1, <2>3, FullListFits
  <2>7. /\ config'.agent = agent /\ config'.engine = engine /\ config'.full = engine
        /\ config'.brands = Decontaminated(native.brands)
        /\ config'.list = FullVersionList(native)
    BY <1>1, <2>3
  <2>8. Major(config'.agent) = Major(config'.engine) BY <1>4, <2>1, <2>7
  <2> QED BY <2>4, <2>5, <2>6, <2>7, <2>8, FittingHasNoIssue
<1> QED BY <1>5, <1>7, <1>8, <1>10, <1>11 DEF IdentityInv

-----------------------------------------------------------------------------
\* Nothing is cached at first.
LEMMA IdentityInvInit == IdentityInit => IdentityInv
<1> SUFFICES ASSUME IdentityInit PROVE IdentityInv OBVIOUS
<1>1. EnginesAreReal /\ VersionIsRead
  BY DEF IdentityInit, EnginesAreReal, VersionIsRead
<1>2. MetadataIsProbed /\ CachesHaveTheirForm
  BY DEF IdentityInit, MetadataIsProbed, CachesHaveTheirForm, NoMetadata
<1>3. StoredHasItsForm
  BY DEF IdentityInit, StoredHasItsForm, Identity
<1>4. IdentityIsCoherent
  BY DEF IdentityInit, IdentityIsCoherent
<1> QED BY <1>1, <1>2, <1>3, <1>4 DEF IdentityInv

\* Only a launch announces anything; the other steps drop the configuration,
\* or leave it and say that the engine has changed.
LEMMA IdentityInvNext == IdentityInv /\ [IdentityNext]_identityVars => IdentityInv'
<1> SUFFICES ASSUME IdentityInv, [IdentityNext]_identityVars PROVE IdentityInv'
  OBVIOUS
<1>1. ASSUME NEW headless \in BOOLEAN, NEW lists \in BOOLEAN, NEW forced \in BOOLEAN,
             BuildsConfig(headless, lists, forced)
      PROVE  IdentityInv'
  BY <1>1, LaunchKeepsIdentity
<1>2. ASSUME NEW v \in EngineVersions, NEW headless \in BOOLEAN, ProfileComes(v, headless)
      PROVE  IdentityInv'
  BY <1>2 DEF ProfileComes, Identity, IdentityInv, EnginesAreReal, VersionIsRead,
     MetadataIsProbed, CachesHaveTheirForm, StoredHasItsForm, IdentityIsCoherent, IsOf
<1>3. CASE EngineUpgraded
  BY <1>3 DEF EngineUpgraded, IdentityInv, EnginesAreReal, VersionIsRead,
     MetadataIsProbed, CachesHaveTheirForm, StoredHasItsForm, IdentityIsCoherent
<1>4. CASE ProcessRestarts
  <2>1. EnginesAreReal' /\ VersionIsRead' /\ IdentityIsCoherent'
    BY <1>4 DEF ProcessRestarts, IdentityInv, EnginesAreReal, VersionIsRead, IdentityIsCoherent
  <2>2. MetadataIsProbed' /\ CachesHaveTheirForm'
    BY <1>4 DEF ProcessRestarts, MetadataIsProbed, CachesHaveTheirForm, NoMetadata
  <2>3. StoredHasItsForm'
    BY <1>4 DEF ProcessRestarts, IdentityInv, StoredHasItsForm
  <2> QED BY <2>1, <2>2, <2>3 DEF IdentityInv
<1>5. CASE UNCHANGED identityVars
  BY <1>5 DEF identityVars, IdentityInv, EnginesAreReal, VersionIsRead,
     MetadataIsProbed, CachesHaveTheirForm, StoredHasItsForm, IdentityIsCoherent, IsOf,
     Issues
<1> QED BY <1>1, <1>2, <1>3, <1>4, <1>5 DEF IdentityNext

(* What a launch announces - agent, headers, full versions - is coherent   *)
(* with the browser it starts, for every set of engine versions            *)
(* (build_browser_launch_config, with the caches of config.py and          *)
(* browser_manager.py).                                                    *)
THEOREM IdentityStaysCoherent == IdentitySpec => []IdentityIsCoherent
<1>1. IdentityInv => IdentityIsCoherent BY DEF IdentityInv
<1> QED BY <1>1, IdentityInvInit, IdentityInvNext, PTL DEF IdentitySpec

-----------------------------------------------------------------------------
(* AccountPool: the accounts that calls and views load and share.  The     *)
(* inductive invariant says where each account is that the last load has   *)
(* read: in the shared list, or in what some load has yet to append.       *)

IsList(s) == s \in Seq(Range(s))

ListsAreLists ==
    /\ store \in Stores
    /\ IsList(accounts)
    /\ loads = [l \in Loaders |-> [on |-> loads[l].on, rest |-> loads[l].rest]]
    /\ \A l \in Loaders : IsList(loads[l].rest)

AccountsAreOnTheirWay ==
    \A a \in Range(latest) : a \in Range(accounts) \/ \E l \in Loaders : a \in Range(loads[l].rest)

ListsInv == ListsAreLists /\ AccountsAreOnTheirWay

\* What a list is, whatever it holds.
LEMMA ListOfAny ==
    ASSUME NEW S, NEW s \in Seq(S)
    PROVE  IsList(s)
BY DEF IsList, Range

LEMMA EmptyIsList == IsList(<<>>)
<1>1. <<>> \in Seq({}) BY EmptySeq
<1> QED BY <1>1, ListOfAny

\* An append adds its element.
LEMMA AppendsOne ==
    ASSUME NEW s, IsList(s), NEW x
    PROVE  IsList(Append(s, x)) /\ Range(Append(s, x)) = Range(s) \cup {x}
<1> DEFINE S == Range(s) \cup {x}
<1>1. s \in Seq(S) /\ x \in S
  <2>1. s \in Seq(Range(s)) BY DEF IsList
  <2> QED BY <2>1
<1> HIDE DEF S
<1>2. /\ Append(s, x) \in Seq(S) /\ Len(Append(s, x)) = Len(s) + 1
      /\ \A i \in 1..(Len(s) + 1) : Append(s, x)[i] = IF i <= Len(s) THEN s[i] ELSE x
  BY <1>1
<1>3. DOMAIN s = 1..Len(s) /\ Len(s) \in Nat /\ DOMAIN Append(s, x) = 1..(Len(s) + 1)
  BY <1>1, <1>2
<1>4. IsList(Append(s, x)) BY <1>2, ListOfAny
<1>5. ASSUME NEW y \in Range(s) PROVE y \in Range(Append(s, x))
  BY <1>2, <1>3 DEF Range
<1>6. x \in Range(Append(s, x))
  <2>1. Append(s, x)[Len(s) + 1] = x BY <1>2, <1>3
  <2> QED BY <1>3, <2>1 DEF Range
<1>7. ASSUME NEW y \in Range(Append(s, x)) PROVE y \in Range(s) \cup {x}
  BY <1>2, <1>3 DEF Range
<1> QED BY <1>4, <1>5, <1>6, <1>7

\* Head and tail hold what the list holds.
LEMMA HeadAndTail ==
    ASSUME NEW s, IsList(s), s # <<>>
    PROVE  IsList(Tail(s)) /\ Range(s) \subseteq {Head(s)} \cup Range(Tail(s))
<1>1. s \in Seq(Range(s)) BY DEF IsList
<1>2. /\ Tail(s) \in Seq(Range(s)) /\ Head(s) = s[1] /\ Len(s) \in Nat \ {0}
      /\ Len(Tail(s)) = Len(s) - 1 /\ \A i \in 1..(Len(s) - 1) : Tail(s)[i] = s[i + 1]
  BY <1>1
<1>3. IsList(Tail(s)) BY <1>2, ListOfAny
<1>4. ASSUME NEW y \in Range(s) PROVE y \in {Head(s)} \cup Range(Tail(s))
  <2>1. PICK i \in 1..Len(s) : y = s[i] BY <1>1 DEF Range
  <2>2. CASE i = 1 BY <1>2, <2>1, <2>2
  <2>3. CASE i # 1
    <3>1. i - 1 \in 1..(Len(s) - 1) /\ (i - 1) + 1 = i BY <1>2, <2>1, <2>3
    <3>2. Tail(s)[i - 1] = y /\ i - 1 \in DOMAIN Tail(s) BY <1>2, <2>1, <3>1
    <3> QED BY <3>2 DEF Range
  <2> QED BY <2>2, <2>3
<1> QED BY <1>3, <1>4

\* What the sources amount to is a list.
LEMMA ConfiguredIsList == ASSUME store \in Stores PROVE IsList(Configured)
<1> DEFINE sources == store \o Others
           firsts == {i \in DOMAIN sources : \A k \in 1..(i - 1) : sources[k].id # sources[i].id}
           n == Cardinality(firsts)
           pick(k) == sources[CHOOSE i \in firsts : Cardinality(firsts \cap 1..i) = k]
           S == {pick(k) : k \in 1..n}
<1>1. Configured = [k \in 1..n |-> pick(k)] BY DEF Configured, Deduped
<1>2. n \in Nat
  <2>1. sources \in Seq(Account) BY PoolAssumption
  <2>2. firsts \in SUBSET (1..Len(sources)) /\ Len(sources) \in Nat BY <2>1
  <2>3. IsFiniteSet(1..Len(sources)) BY <2>2, FS_Interval
  <2>4. IsFiniteSet(firsts) BY <2>2, <2>3, FS_Subset
  <2> QED BY <2>4, FS_CardinalityType
<1> HIDE DEF n, pick
<1>3. [k \in 1..n |-> pick(k)] \in [1..n -> S] OBVIOUS
<1> HIDE DEF S
<1>4. Configured \in Seq(S) BY <1>1, <1>2, <1>3, SeqDef
<1> QED BY <1>4, ListOfAny

\* A load that begins has all of it before it.
LEMMA LoadBeginsStep ==
    ASSUME ListsInv, NEW l \in Loaders, LoadBegins(l), UNCHANGED store
    PROVE  ListsInv'
<1>1. /\ accounts' = <<>> /\ latest' = Configured
      /\ loads' = [loads EXCEPT ![l] = [on |-> TRUE, rest |-> Configured]]
  BY DEF LoadBegins
<1>2. loads'[l].rest = Configured /\ \A m \in Loaders : m # l => loads'[m] = loads[m]
  BY <1>1 DEF ListsInv, ListsAreLists
<1>3. IsList(<<>>) BY EmptyIsList
<1>4. IsList(Configured) BY ConfiguredIsList DEF ListsInv, ListsAreLists
<1>5. loads' = [m \in Loaders |-> [on |-> loads'[m].on, rest |-> loads'[m].rest]]
  BY <1>1 DEF ListsInv, ListsAreLists
<1>6. ListsAreLists' BY <1>1, <1>2, <1>3, <1>4, <1>5 DEF ListsInv, ListsAreLists
<1>7. AccountsAreOnTheirWay' BY <1>1, <1>2 DEF AccountsAreOnTheirWay
<1> QED BY <1>6, <1>7 DEF ListsInv

\* What a load appends goes from its rest to the shared list.
LEMMA LoadAppendsStep ==
    ASSUME ListsInv, NEW l \in Loaders, LoadAppends(l)
    PROVE  ListsInv'
<1> DEFINE rest == loads[l].rest
<1>1. /\ rest # <<>> /\ accounts' = Append(accounts, Head(rest))
      /\ loads' = [loads EXCEPT ![l].rest = Tail(@)]
      /\ UNCHANGED <<store, latest>>
  BY DEF LoadAppends
<1>2. IsList(accounts) /\ IsList(rest) BY DEF ListsInv, ListsAreLists
<1>3. loads'[l].rest = Tail(rest) /\ \A m \in Loaders : m # l => loads'[m] = loads[m]
  BY <1>1 DEF ListsInv, ListsAreLists
<1>4. loads' = [m \in Loaders |-> [on |-> loads'[m].on, rest |-> loads'[m].rest]]
  <2>1. \E o, q : loads[l] = [on |-> o, rest |-> q] BY DEF ListsInv, ListsAreLists
  <2>2. [loads[l] EXCEPT !.rest = Tail(@)] = [on |-> loads[l].on, rest |-> Tail(rest)]
    <3>1. PICK o, q : loads[l] = [on |-> o, rest |-> q] BY <2>1
    <3>2. \A x : [[on |-> o, rest |-> q] EXCEPT !.rest = x] = [on |-> o, rest |-> x] OBVIOUS
    <3>3. loads[l].on = o BY <3>1
    <3>4. [loads[l] EXCEPT !.rest = Tail(rest)] = [on |-> o, rest |-> Tail(rest)] BY <3>1, <3>2, Zenon
    <3> QED BY <3>3, <3>4, Zenon
  <2> QED BY <1>1, <2>2 DEF ListsInv, ListsAreLists
<1>5. IsList(accounts') /\ Range(accounts') = Range(accounts) \cup {Head(rest)}
  BY <1>1, <1>2, AppendsOne
<1>6. IsList(Tail(rest)) /\ Range(rest) \subseteq {Head(rest)} \cup Range(Tail(rest))
  BY <1>1, <1>2, HeadAndTail
<1>7. ListsAreLists' BY <1>1, <1>3, <1>4, <1>5, <1>6 DEF ListsInv, ListsAreLists
<1>8. AccountsAreOnTheirWay'
  <2> SUFFICES ASSUME NEW a \in Range(latest), a \notin Range(accounts')
               PROVE  \E m \in Loaders : a \in Range(loads'[m].rest)
    BY <1>1 DEF AccountsAreOnTheirWay
  <2>1. PICK m \in Loaders : a \in Range(loads[m].rest)
    BY <1>5 DEF ListsInv, AccountsAreOnTheirWay
  <2>2. CASE m = l BY <1>3, <1>5, <1>6, <2>1, <2>2
  <2>3. CASE m # l BY <1>3, <2>1, <2>3
  <2> QED BY <2>2, <2>3
<1> QED BY <1>7, <1>8 DEF ListsInv

LEMMA LoadEndsStep ==
    ASSUME ListsInv, NEW l \in Loaders, LoadEnds(l)
    PROVE  ListsInv'
<1>1. loads[l] = [on |-> TRUE, rest |-> <<>>] /\ loads' = [loads EXCEPT ![l] = NoLoad]
      /\ UNCHANGED <<store, accounts, latest>>
  BY DEF LoadEnds
<1>2. \A m \in Loaders : loads'[m].rest = loads[m].rest
  BY <1>1 DEF NoLoad, ListsInv, ListsAreLists
<1>3. loads' = [m \in Loaders |-> [on |-> loads'[m].on, rest |-> loads'[m].rest]]
  BY <1>1 DEF NoLoad, ListsInv, ListsAreLists
<1>4. ListsAreLists' BY <1>1, <1>2, <1>3 DEF ListsInv, ListsAreLists
<1>5. AccountsAreOnTheirWay' BY <1>1, <1>2 DEF ListsInv, AccountsAreOnTheirWay
<1> QED BY <1>4, <1>5 DEF ListsInv

\* At the start, as after a kill, the list has been filled.
LEMMA FilledAtTheStart ==
    ASSUME store \in Stores,
           accounts = Configured, latest = Configured, loads = [l \in Loaders |-> NoLoad]
    PROVE  ListsInv
<1>1. IsList(accounts) BY ConfiguredIsList
<1>2. \A l \in Loaders : loads[l] = [on |-> FALSE, rest |-> <<>>] BY DEF NoLoad
<1>3. IsList(<<>>) BY EmptyIsList
<1>4. loads = [l \in Loaders |-> [on |-> loads[l].on, rest |-> loads[l].rest]] BY <1>2 DEF NoLoad
<1> QED BY <1>1, <1>2, <1>3, <1>4 DEF ListsInv, ListsAreLists, AccountsAreOnTheirWay

\* The steps of calls that load nothing, and those of the saves and the clock.
LEMMA OthersLoadNothing ==
    ASSUME \/ \E c \in Calls :
                 \/ StartsMistral(c) \/ Looks(c) \/ ChoosesTier(c) \/ ChoosesAny(c)
                 \/ BatchStarts(c) \/ BatchEnds(c) \/ Cancelled(c)
                 \/ \E task \in calls[c].racing :
                       \/ Answers(c, task) \/ AnswersNothing(c, task)
                       \/ \E pause \in Pauses : Reports(c, task, pause)
           \/ SaveOpens \/ SaveWrites \/ SaveRaises \/ ClockTicks
           \/ UNCHANGED poolVars
    PROVE  UNCHANGED <<store, accounts, loads, latest>>
<1>1. CASE \E c \in Calls : StartsMistral(c) \/ Looks(c) \/ ChoosesTier(c) \/ ChoosesAny(c)
  BY <1>1 DEF StartsMistral, Looks, ChoosesTier, ChoosesAny
<1>2. CASE \E c \in Calls : BatchStarts(c) \/ BatchEnds(c) \/ Cancelled(c)
  BY <1>2 DEF BatchStarts, BatchEnds, Cancelled, raceRest
<1>3. CASE \E c \in Calls : \E task \in calls[c].racing :
              \/ Answers(c, task) \/ AnswersNothing(c, task)
              \/ \E pause \in Pauses : Reports(c, task, pause)
  BY <1>3 DEF Answers, AnswersNothing, Reports, raceRest
<1>4. CASE SaveOpens \/ SaveWrites \/ SaveRaises \/ ClockTicks
  BY <1>4 DEF SaveOpens, SaveWrites, SaveRaises, ClockTicks, raceRest
<1>5. CASE UNCHANGED poolVars BY <1>5 DEF poolVars
<1> QED BY <1>1, <1>2, <1>3, <1>4, <1>5

LEMMA ListsInvNext ==
    ASSUME ListsInv, [PoolNext]_poolVars
    PROVE  ListsInv'
<1>1. ASSUME NEW c \in Calls, (\E kind \in Kinds : Starts(c, kind)) \/ LoadsAgain(c)
      PROVE  ListsInv'
  <2>1. LoadBegins(c) /\ UNCHANGED store BY <1>1 DEF Starts, LoadsAgain
  <2> QED BY <2>1, LoadBeginsStep DEF Loaders
<1>2. ASSUME NEW v \in Views, ViewLoads(v) PROVE ListsInv'
  <2>1. LoadBegins(v) /\ UNCHANGED store BY <1>2 DEF ViewLoads
  <2> QED BY <2>1, LoadBeginsStep DEF Loaders
<1>3. CASE StoreImported
  BY <1>3 DEF StoreImported, ListsInv, ListsAreLists, AccountsAreOnTheirWay
<1>4. CASE ProcessRestarted
  <2>1. /\ store' = store /\ store \in Stores /\ accounts' = Configured /\ latest' = Configured
        /\ loads' = [l \in Loaders |-> NoLoad]
    BY <1>4 DEF ProcessRestarted, ListsInv, ListsAreLists
  <2>2. IsList(Configured) BY <2>1, ConfiguredIsList
  <2>3. \A l \in Loaders : loads'[l].rest = <<>> BY <2>1 DEF NoLoad
  <2>4. loads' = [l \in Loaders |-> [on |-> loads'[l].on, rest |-> loads'[l].rest]]
    BY <2>1 DEF NoLoad
  <2> QED BY <2>1, <2>2, <2>3, <2>4, EmptyIsList DEF ListsInv, ListsAreLists, AccountsAreOnTheirWay
<1>5. ASSUME UNCHANGED <<store, accounts, loads, latest>> PROVE ListsInv'
  BY <1>5 DEF ListsInv, ListsAreLists, AccountsAreOnTheirWay
<1> QED BY <1>1, <1>2, <1>3, <1>4, <1>5, LoadAppendsStep, LoadEndsStep, OthersLoadNothing
        DEF PoolNext, CallRuns

LEMMA ListsInvariant == PoolSpec => []ListsInv
<1>1. PoolInit => ListsInv BY FilledAtTheStart DEF PoolInit
<1> QED BY <1>1, ListsInvNext, PTL DEF PoolSpec

(* Whatever calls and views empty and fill the list that all share, and    *)
(* whatever another process imports meanwhile, once no load is running no  *)
(* account is missing that the last one read (load_accounts).              *)
THEOREM AccountsAreThere == PoolSpec => []NoAccountLost
<1>1. ListsInv => NoAccountLost
  <2>1. Range(<<>>) = {} BY DEF Range
  <2> QED BY <2>1 DEF ListsInv, AccountsAreOnTheirWay, NoAccountLost, NoLoad
<1> QED BY <1>1, ListsInvariant, PTL

-----------------------------------------------------------------------------
(* Cooldowns: unless a save is under way or has raised, what still runs in *)
(* memory is in the file.                                                  *)

PoolTypes ==
    /\ clock \in Nat \ {0} /\ kills \in Nat
    /\ cooldowns \in [AccountIds -> Nat] /\ file \in [AccountIds -> Int]
    /\ saving \in [step : {"none", "set", "opened"}, call : Nat, timeout : BOOLEAN]

FileIsCurrent ==
    saving = NoSave /\ ~spoiled =>
       \A a \in AccountIds : cooldowns[a] > clock => file # Torn /\ file[a] = cooldowns[a]

CooldownsInv == PoolTypes /\ FileIsCurrent

\* The steps that touch no cooldown and no save.
LEMMA OthersKeepCooldowns ==
    ASSUME \/ \E c \in Calls :
                 \/ StartsMistral(c) \/ \E kind \in Kinds : Starts(c, kind)
                 \/ Looks(c) \/ LoadsAgain(c) \/ ChoosesTier(c) \/ ChoosesAny(c)
                 \/ BatchStarts(c) \/ BatchEnds(c) \/ Cancelled(c)
                 \/ \E task \in calls[c].racing : Answers(c, task) \/ AnswersNothing(c, task)
           \/ \E v \in Views : ViewLoads(v)
           \/ \E l \in Loaders : LoadAppends(l) \/ LoadEnds(l)
           \/ StoreImported
           \/ UNCHANGED poolVars
    PROVE  UNCHANGED <<clock, kills, cooldowns, file, saving, spoiled>>
<1>1. CASE \E c \in Calls : StartsMistral(c) \/ Looks(c) \/ ChoosesTier(c) \/ ChoosesAny(c)
  BY <1>1 DEF StartsMistral, Looks, ChoosesTier, ChoosesAny
<1>2. CASE \E c \in Calls : LoadsAgain(c) \/ \E kind \in Kinds : Starts(c, kind)
  BY <1>2 DEF LoadsAgain, Starts
<1>3. CASE \E c \in Calls : BatchStarts(c) \/ BatchEnds(c) \/ Cancelled(c)
  BY <1>3 DEF BatchStarts, BatchEnds, Cancelled, raceRest
<1>4. CASE \E c \in Calls : \E task \in calls[c].racing : Answers(c, task) \/ AnswersNothing(c, task)
  BY <1>4 DEF Answers, AnswersNothing, raceRest
<1>5. CASE (\E v \in Views : ViewLoads(v)) \/ StoreImported
  BY <1>5 DEF ViewLoads, StoreImported
<1>6. CASE \E l \in Loaders : LoadAppends(l) \/ LoadEnds(l)
  BY <1>6 DEF LoadAppends, LoadEnds
<1>7. CASE UNCHANGED poolVars BY <1>7 DEF poolVars
<1> QED BY <1>1, <1>2, <1>3, <1>4, <1>5, <1>6, <1>7

LEMMA CooldownsInvNext ==
    ASSUME CooldownsInv, [PoolNext]_poolVars
    PROVE  CooldownsInv'
<1> USE DEF CooldownsInv
<1>1. ASSUME UNCHANGED <<clock, kills, cooldowns, file, saving, spoiled>> PROVE CooldownsInv'
  BY <1>1 DEF PoolTypes, FileIsCurrent
<1>2. ASSUME NEW c \in Calls, NEW task \in calls[c].racing, NEW pause \in Pauses, Reports(c, task, pause)
      PROVE  CooldownsInv'
  <2>1. saving' = [step |-> "set", call |-> c, timeout |-> pause = 1]
    BY <1>2 DEF Reports
  <2>2. saving'.step # NoSave.step BY <2>1 DEF NoSave
  <2>3. c \in Nat /\ pause \in Nat BY PoolAssumption DEF Pauses
  <2>4. saving' \in [step : {"none", "set", "opened"}, call : Nat, timeout : BOOLEAN]
    BY <2>1, <2>3
  <2>5. cooldowns' \in [AccountIds -> Nat] /\ clock' = clock /\ kills' = kills /\ file' = file
    <3>1. cooldowns' = [cooldowns EXCEPT ![task.asks.id] = clock + pause]
          /\ clock' = clock /\ kills' = kills /\ file' = file
      BY <1>2 DEF Reports, raceRest
    <3>2. clock + pause \in Nat BY <2>3 DEF PoolTypes
    <3> QED BY <3>1, <3>2 DEF PoolTypes
  <2> QED BY <2>2, <2>4, <2>5 DEF PoolTypes, FileIsCurrent
<1>3. CASE SaveOpens
  <2>1. saving' = [saving EXCEPT !.step = "opened"] /\ UNCHANGED <<clock, kills, cooldowns>>
    BY <1>3 DEF SaveOpens, raceRest
  <2>2. /\ saving' \in [step : {"none", "set", "opened"}, call : Nat, timeout : BOOLEAN]
        /\ saving'.step = "opened"
    BY <2>1 DEF PoolTypes
  <2>3. saving' # NoSave BY <2>2 DEF NoSave
  <2>4. file' \in [AccountIds -> Int] BY <1>3 DEF SaveOpens, Torn
  <2> QED BY <2>1, <2>2, <2>3, <2>4 DEF PoolTypes, FileIsCurrent
<1>4. CASE SaveWrites
  <2>1. /\ file' = cooldowns /\ saving' = NoSave
        /\ UNCHANGED <<clock, kills, cooldowns>>
    BY <1>4 DEF SaveWrites, raceRest
  <2>2. ASSUME NEW a \in AccountIds PROVE cooldowns # Torn
    BY DEF PoolTypes, Torn
  <2> QED BY <2>1, <2>2 DEF PoolTypes, FileIsCurrent, NoSave
<1>5. CASE SaveRaises
  <2>1. spoiled' = TRUE BY <1>5 DEF SaveRaises
  <2>2. FileIsCurrent' BY <2>1 DEF FileIsCurrent
  <2>3. PoolTypes' BY <1>5 DEF SaveRaises, raceRest, PoolTypes, NoSave
  <2> QED BY <2>2, <2>3
<1>6. CASE ProcessRestarted
  <2>1. /\ cooldowns' = [a \in AccountIds |-> IF file # Torn /\ file[a] > clock THEN file[a] ELSE 0]
        /\ saving' = NoSave /\ kills' = kills + 1 /\ UNCHANGED <<clock, file>>
    BY <1>6 DEF ProcessRestarted
  <2>2. FileIsCurrent' BY <2>1 DEF PoolTypes, FileIsCurrent
  <2>3. cooldowns' \in [AccountIds -> Nat] BY <2>1 DEF PoolTypes
  <2> QED BY <2>1, <2>2, <2>3 DEF PoolTypes, NoSave
<1>7. CASE ClockTicks
  BY <1>7 DEF ClockTicks, PoolTypes, FileIsCurrent
<1> QED BY <1>1, <1>2, <1>3, <1>4, <1>5, <1>6, <1>7, OthersKeepCooldowns DEF PoolNext, CallRuns

LEMMA CooldownsInvariant == PoolSpec => []CooldownsInv
<1>1. PoolInit => CooldownsInv
  <2> SUFFICES ASSUME PoolInit PROVE CooldownsInv OBVIOUS
  <2>1. /\ clock \in Nat \ {0} /\ kills \in Nat
        /\ cooldowns = [a \in AccountIds |-> 0] /\ saving = NoSave
    BY PoolAssumption DEF PoolInit
  <2>2. \A a \in AccountIds : ~(cooldowns[a] > clock) BY <2>1
  <2>3. file = cooldowns BY DEF PoolInit
  <2> QED BY <2>1, <2>2, <2>3 DEF CooldownsInv, PoolTypes, FileIsCurrent, NoSave
<1> QED BY <1>1, CooldownsInvNext, PTL DEF PoolSpec

\* Only a kill counts as one.
LEMMA OnlyKillsKill ==
    ASSUME PoolNext, ~ProcessRestarted
    PROVE  kills' = kills
<1>1. CASE \/ SaveOpens \/ SaveWrites \/ SaveRaises \/ ClockTicks
           \/ \E c \in Calls : \E task \in calls[c].racing : \E pause \in Pauses : Reports(c, task, pause)
  BY <1>1 DEF SaveOpens, SaveWrites, SaveRaises, ClockTicks, Reports, raceRest
<1> QED BY <1>1, OthersKeepCooldowns DEF PoolNext, CallRuns

(* A restart forgets no running cooldown, whichever calls reported how     *)
(* many failures side by side, unless the kill cut off a save or the last  *)
(* save had raised (_save_cooldowns, _load_cooldowns, report_failure).     *)
THEOREM CooldownsAreKept == PoolSpec => CooldownsSurvive
<1>1. CooldownsInv /\ [PoolNext]_poolVars =>
        [kills' > kills /\ saving = NoSave /\ ~spoiled =>
           \A a \in AccountIds : cooldowns[a] > clock => cooldowns'[a] = cooldowns[a]]_poolVars
  <2> SUFFICES ASSUME CooldownsInv, PoolNext, kills' > kills, saving = NoSave, ~spoiled,
                      NEW a \in AccountIds, cooldowns[a] > clock
               PROVE  cooldowns'[a] = cooldowns[a]
    BY DEF CooldownsInv, PoolTypes
  <2>1. ProcessRestarted
    <3>1. kills \in Nat BY DEF CooldownsInv, PoolTypes
    <3> QED BY <3>1, OnlyKillsKill
  <2>2. file # Torn /\ file[a] = cooldowns[a] BY DEF CooldownsInv, FileIsCurrent
  <2> QED BY <2>1, <2>2 DEF ProcessRestarted
<1> QED BY <1>1, CooldownsInvariant, PTL DEF PoolSpec, CooldownsSurvive

-----------------------------------------------------------------------------
(* RequestQuota.  What a limiter remembers of a peer is the end of the     *)
(* history.  While nothing of a window was forgotten, what was accepted in *)
(* it is still in the list, and the list is no longer than the quota; once *)
(* something was, by a thread with a later time, only threads that have    *)
(* read the clock before can add to the window, and each will add one.     *)

InWindow(times, last) == {i \in DOMAIN times : last - Window < times[i] /\ times[i] <= last}

\* new is what is left of old when a limiter with this time forgets its front.
Rest(old, new, now) ==
    \E c \in 0..Len(old) :
       /\ new \in Seq(Nat) /\ Len(new) = Len(old) - c
       /\ \A i \in 1..(Len(old) - c) : new[i] = old[c + i]
       /\ \A i \in 1..c : old[i] <= now - Window

EndOf(times, list) ==
    /\ Len(list) <= Len(times)
    /\ \A i \in 1..Len(list) : list[i] = times[(Len(times) - Len(list)) + i]

\* All that was forgotten was out of the window that ends with last.
Intact(times, list, last) ==
    \A i \in 1..(Len(times) - Len(list)) : times[i] <= last - Window

ListsAreEnds ==
    /\ entries \in [Limiters -> [Peers -> Seq(Nat)]]
    /\ accepted \in [Limiters -> [Peers -> Seq(Nat)]]
    /\ \A l \in Limiters, p \in Peers : EndOf(accepted[l][p], entries[l][p])

LEMMA OneTo ==
    ASSUME NEW n \in Nat
    PROVE  IsFiniteSet(1..n) /\ Cardinality(1..n) = n
<1>1. IsFiniteSet(1..n) /\ Cardinality(1..n) = IF 1 > n THEN 0 ELSE n - 1 + 1 BY FS_Interval
<1> QED BY <1>1

\* A list without its first c elements.
LEMMA WithoutFront ==
    ASSUME NEW S, NEW s \in Seq(S), NEW c \in Nat, c <= Len(s)
    PROVE  /\ SubSeq(s, c + 1, Len(s)) \in Seq(S)
           /\ Len(SubSeq(s, c + 1, Len(s))) = Len(s) - c
           /\ \A i \in 1..(Len(s) - c) : SubSeq(s, c + 1, Len(s))[i] = s[c + i]
OBVIOUS

\* A limiter forgets the front of its list, and only what is out of the window.
LEMMA PrunedIsRest ==
    ASSUME NEW list \in Seq(Nat), NEW now \in Nat
    PROVE  Rest(list, Pruned(list, now), now)
<1> DEFINE gone == {i \in DOMAIN list : \A k \in 1..i : list[k] <= now - Window}
           c == Cardinality(gone)
<1>1. Pruned(list, now) = SubSeq(list, c + 1, Len(list)) BY DEF Pruned
<1>2. Len(list) \in Nat /\ DOMAIN list = 1..Len(list) OBVIOUS
<1>3. IsFiniteSet(1..Len(list)) /\ Cardinality(1..Len(list)) = Len(list)
  BY <1>2, OneTo
<1>4. IsFiniteSet(gone) /\ c \in Nat /\ c <= Len(list)
  <2>1. gone \in SUBSET (1..Len(list)) BY <1>2
  <2>2. IsFiniteSet(gone) /\ Cardinality(gone) <= Cardinality(1..Len(list)) BY <1>3, <2>1, FS_Subset
  <2> QED BY <1>3, <2>2, FS_CardinalityType
<1>5. ASSUME NEW i \in 1..c PROVE list[i] <= now - Window
  <2>1. i \in gone
    <3> SUFFICES ASSUME i \notin gone PROVE FALSE OBVIOUS
    <3>1. gone \in SUBSET (1..(i - 1))
      <4> SUFFICES ASSUME NEW j \in gone, j >= i PROVE FALSE BY <1>2, <1>4
      <4>1. \A k \in 1..j : list[k] <= now - Window OBVIOUS
      <4>2. j \in 1..Len(list) /\ i \in 1..j BY <1>2, <1>4
      <4>3. \A k \in 1..i : list[k] <= now - Window BY <4>1, <4>2
      <4>4. i \in DOMAIN list BY <1>2, <4>2
      <4> QED BY <4>3, <4>4
    <3>2. IsFiniteSet(1..(i - 1)) /\ Cardinality(1..(i - 1)) = i - 1
      <4> DEFINE d == i - 1
      <4>1. d \in Nat BY <1>4
      <4> HIDE DEF d
      <4>2. IsFiniteSet(1..d) /\ Cardinality(1..d) = d BY <4>1, OneTo
      <4> QED BY <4>2 DEF d
    <3>3. c <= i - 1 BY <3>1, <3>2, FS_Subset
    <3> QED BY <1>4, <3>3
  <2>2. i \in 1..i BY <1>4
  <2> QED BY <2>1, <2>2
<1> HIDE DEF gone, c
<1>6. /\ SubSeq(list, c + 1, Len(list)) \in Seq(Nat)
      /\ Len(SubSeq(list, c + 1, Len(list))) = Len(list) - c
      /\ \A i \in 1..(Len(list) - c) : SubSeq(list, c + 1, Len(list))[i] = list[c + i]
  BY <1>2, <1>4, WithoutFront
<1> DEFINE new == Pruned(list, now)
<1>7. /\ new \in Seq(Nat) /\ Len(new) = Len(list) - c
      /\ \A i \in 1..(Len(list) - c) : new[i] = list[c + i]
  BY <1>1, <1>6
<1>8. c \in 0..Len(list) BY <1>2, <1>4
<1> HIDE DEF new
<1>9. Rest(list, new, now) BY <1>5, <1>7, <1>8 DEF Rest
<1> QED BY <1>9 DEF new

LEMMA RestOfItself ==
    ASSUME NEW list \in Seq(Nat), NEW now \in Nat
    PROVE  Rest(list, list, now)
<1>1. Len(list) \in Nat OBVIOUS
<1>2. 0 \in 0..Len(list) /\ Len(list) = Len(list) - 0 BY <1>1
<1>3. \A i \in 1..(Len(list) - 0) : list[i] = list[0 + i] BY <1>1
<1>4. \A i \in 1..0 : list[i] <= now - Window OBVIOUS
<1> QED BY <1>2, <1>3, <1>4 DEF Rest

\* What is left of what is left.
LEMMA RestOfRest ==
    ASSUME NEW a \in Seq(Nat), NEW b \in Seq(Nat), NEW c, NEW now \in Nat,
           Rest(a, b, now), Rest(b, c, now)
    PROVE  Rest(a, c, now)
<1>1. PICK m \in 0..Len(a) :
        /\ Len(b) = Len(a) - m
        /\ \A i \in 1..(Len(a) - m) : b[i] = a[m + i]
        /\ \A i \in 1..m : a[i] <= now - Window
  BY DEF Rest
<1>2. PICK n \in 0..Len(b) :
        /\ c \in Seq(Nat) /\ Len(c) = Len(b) - n
        /\ \A i \in 1..(Len(b) - n) : c[i] = b[n + i]
        /\ \A i \in 1..n : b[i] <= now - Window
  BY DEF Rest
<1>3. Len(a) \in Nat /\ m + n \in 0..Len(a) BY <1>1, <1>2
<1>4. Len(c) = Len(a) - (m + n) BY <1>1, <1>2, <1>3
<1>5. ASSUME NEW i \in 1..(Len(a) - (m + n)) PROVE c[i] = a[(m + n) + i]
  <2>1. i \in 1..(Len(b) - n) /\ n + i \in 1..(Len(a) - m) BY <1>1, <1>2, <1>3
  <2>2. c[i] = b[n + i] /\ b[n + i] = a[m + (n + i)] BY <1>1, <1>2, <2>1
  <2>3. m + (n + i) = (m + n) + i BY <1>3
  <2> QED BY <2>2, <2>3
<1>6. ASSUME NEW i \in 1..(m + n) PROVE a[i] <= now - Window
  <2>1. CASE i <= m BY <1>1, <1>3, <2>1
  <2>2. CASE ~(i <= m)
    <3>1. i - m \in 1..n /\ i - m \in 1..(Len(a) - m) BY <1>1, <1>2, <1>3, <2>2
    <3>2. b[i - m] = a[m + (i - m)] /\ m + (i - m) = i BY <1>1, <1>2, <3>1
    <3> QED BY <1>2, <3>1, <3>2
  <2> QED BY <2>1, <2>2
<1> QED BY <1>2, <1>3, <1>4, <1>5, <1>6 DEF Rest

\* The rest of an end is an end, and forgets only what is out of a window.
LEMMA RestKeepsEnd ==
    ASSUME NEW times \in Seq(Nat), NEW old \in Seq(Nat), NEW new, NEW now \in Nat,
           EndOf(times, old), Rest(old, new, now)
    PROVE  /\ EndOf(times, new)
           /\ \A i \in 1..(Len(times) - Len(new)) :
                 i \in 1..(Len(times) - Len(old)) \/ times[i] <= now - Window
<1> DEFINE g == Len(times) - Len(old)
<1>1. PICK c \in 0..Len(old) :
        /\ new \in Seq(Nat) /\ Len(new) = Len(old) - c
        /\ \A i \in 1..(Len(old) - c) : new[i] = old[c + i]
        /\ \A i \in 1..c : old[i] <= now - Window
  BY DEF Rest
<1>2. /\ Len(times) \in Nat /\ Len(old) \in Nat /\ Len(old) <= Len(times)
      /\ \A i \in 1..Len(old) : old[i] = times[g + i]
  BY DEF EndOf
<1>3. Len(times) - Len(new) = g + c /\ g \in Nat BY <1>1, <1>2
<1> HIDE DEF g
<1>4. ASSUME NEW i \in 1..Len(new) PROVE new[i] = times[(g + c) + i]
  <2>1. c + i \in 1..Len(old) /\ i \in 1..(Len(old) - c) BY <1>1, <1>2
  <2>2. new[i] = times[g + (c + i)] BY <1>1, <1>2, <2>1
  <2>3. g + (c + i) = (g + c) + i BY <1>1, <1>3
  <2> QED BY <2>2, <2>3
<1>5. EndOf(times, new) BY <1>1, <1>2, <1>3, <1>4 DEF EndOf
<1>6. ASSUME NEW i \in 1..(g + c) PROVE i \in 1..g \/ times[i] <= now - Window
  <2> SUFFICES ASSUME i > g PROVE times[i] <= now - Window BY <1>1, <1>3
  <2>1. i - g \in 1..c /\ i - g \in 1..Len(old) BY <1>1, <1>2, <1>3
  <2>2. old[i - g] = times[g + (i - g)] BY <1>2, <2>1
  <2>3. g + (i - g) = i BY <1>1, <1>3
  <2> QED BY <1>1, <2>1, <2>2, <2>3
<1> QED BY <1>3, <1>5, <1>6 DEF g

\* Appending to both keeps the end.
LEMMA AppendKeepsEnd ==
    ASSUME NEW times \in Seq(Nat), NEW list \in Seq(Nat), NEW now \in Nat, EndOf(times, list)
    PROVE  /\ EndOf(Append(times, now), Append(list, now))
           /\ Len(Append(times, now)) - Len(Append(list, now)) = Len(times) - Len(list)
           /\ \A i \in 1..(Len(times) - Len(list)) : Append(times, now)[i] = times[i]
<1> DEFINE n == Len(times)
           m == Len(list)
<1>1. n \in Nat /\ m \in Nat /\ m <= n /\ \A i \in 1..m : list[i] = times[(n - m) + i]
  BY DEF EndOf
<1>2. /\ Len(Append(times, now)) = n + 1 /\ Append(times, now)[n + 1] = now
      /\ \A i \in 1..n : Append(times, now)[i] = times[i]
  OBVIOUS
<1>3. /\ Len(Append(list, now)) = m + 1 /\ Append(list, now)[m + 1] = now
      /\ \A i \in 1..m : Append(list, now)[i] = list[i]
  OBVIOUS
<1> HIDE DEF n, m
<1>4. (n + 1) - (m + 1) = n - m BY <1>1
<1>5. ASSUME NEW i \in 1..(m + 1) PROVE Append(list, now)[i] = Append(times, now)[(n - m) + i]
  <2>1. CASE i <= m
    <3>1. i \in 1..m /\ (n - m) + i \in 1..n BY <1>1, <2>1
    <3> QED BY <1>1, <1>2, <1>3, <3>1
  <2>2. CASE ~(i <= m)
    <3>1. i = m + 1 /\ (n - m) + i = n + 1 BY <1>1, <2>2
    <3> QED BY <1>2, <1>3, <3>1
  <2> QED BY <2>1, <2>2
<1>6. EndOf(Append(times, now), Append(list, now))
  BY <1>1, <1>2, <1>3, <1>4, <1>5 DEF EndOf
<1>7. \A i \in 1..(n - m) : Append(times, now)[i] = times[i] BY <1>1, <1>2
<1> QED BY <1>2, <1>3, <1>4, <1>6, <1>7 DEF n, m

-----------------------------------------------------------------------------
(* Counting what was accepted in a window.                                 *)

LEMMA WindowIsFinite ==
    ASSUME NEW times \in Seq(Nat), NEW last \in Nat
    PROVE  IsFiniteSet(InWindow(times, last)) /\ Cardinality(InWindow(times, last)) \in Nat
<1>1. InWindow(times, last) \in SUBSET (1..Len(times)) /\ Len(times) \in Nat BY DEF InWindow
<1>2. IsFiniteSet(1..Len(times)) BY <1>1, FS_Interval
<1> QED BY <1>1, <1>2, FS_Subset, FS_CardinalityType

\* One more counts for one at most, and only in a window that it is in.
LEMMA WindowGrows ==
    ASSUME NEW times \in Seq(Nat), NEW last \in Nat, NEW now \in Nat
    PROVE  LET n == Cardinality(InWindow(times, last))
               m == Cardinality(InWindow(Append(times, now), last))
           IN  m <= n + 1 /\ (now > last => m = n)
<1> DEFINE w == InWindow(times, last)
           v == InWindow(Append(times, now), last)
           k == Len(times) + 1
<1>1. /\ Append(times, now) \in Seq(Nat) /\ DOMAIN Append(times, now) = 1..k
      /\ \A i \in 1..Len(times) : Append(times, now)[i] = times[i]
      /\ Append(times, now)[k] = now /\ DOMAIN times = 1..Len(times) /\ Len(times) \in Nat
  OBVIOUS
<1>2. v \subseteq w \cup {k} /\ (now > last => v = w)
  BY <1>1, QuotaAssumption DEF InWindow
<1>3. IsFiniteSet(w) /\ Cardinality(w) \in Nat BY WindowIsFinite
<1> HIDE DEF w, v, k
<1>4. IsFiniteSet(w \cup {k}) /\ Cardinality(w \cup {k}) <= Cardinality(w) + 1
  <2>1. /\ IsFiniteSet(w \cup {k})
        /\ Cardinality(w \cup {k}) = IF k \in w THEN Cardinality(w) ELSE Cardinality(w) + 1
    BY <1>3, FS_AddElement
  <2> QED BY <1>3, <2>1
<1>5. IsFiniteSet(v) /\ Cardinality(v) <= Cardinality(w \cup {k}) BY <1>2, <1>4, FS_Subset
<1>6. Cardinality(v) \in Nat /\ Cardinality(w \cup {k}) \in Nat BY <1>4, <1>5, FS_CardinalityType
<1>7. Cardinality(v) <= Cardinality(w) + 1 BY <1>3, <1>4, <1>5, <1>6
<1> QED BY <1>2, <1>7 DEF w, v

\* An intact window is no more than what the list remembers.
LEMMA WindowFitsList ==
    ASSUME NEW times \in Seq(Nat), NEW list \in Seq(Nat), NEW last \in Nat,
           EndOf(times, list), Intact(times, list, last)
    PROVE  Cardinality(InWindow(times, last)) <= Len(list)
<1> DEFINE n == Len(times)
           g == Len(times) - Len(list)
<1>1. n \in Nat /\ g \in Nat /\ g <= n /\ Len(list) = n - g /\ DOMAIN times = 1..n
      /\ \A i \in 1..n : times[i] \in Nat
  BY DEF EndOf
<1>2. \A i \in 1..g : times[i] <= last - Window BY DEF Intact
<1>3. Window \in Nat BY QuotaAssumption
<1> HIDE DEF n, g
<1>4. InWindow(times, last) \in SUBSET ((g + 1)..n)
  <2> SUFFICES ASSUME NEW i \in InWindow(times, last) PROVE i \in (g + 1)..n OBVIOUS
  <2>1. i \in 1..n /\ last - Window < times[i] BY <1>1 DEF InWindow
  <2>2. ~(i <= g)
    <3> SUFFICES ASSUME i <= g PROVE FALSE OBVIOUS
    <3>1. i \in 1..g BY <1>1, <2>1
    <3>2. times[i] <= last - Window BY <1>2, <3>1
    <3> QED BY <1>1, <1>3, <2>1, <3>2
  <2> QED BY <1>1, <2>1, <2>2
<1>5. IsFiniteSet((g + 1)..n) /\ Cardinality((g + 1)..n) = n - g
  <2>1. /\ IsFiniteSet((g + 1)..n)
        /\ Cardinality((g + 1)..n) = IF g + 1 > n THEN 0 ELSE n - (g + 1) + 1
    BY <1>1, FS_Interval
  <2> QED BY <1>1, <2>1
<1>6. Cardinality(InWindow(times, last)) <= n - g BY <1>4, <1>5, FS_Subset
<1> QED BY <1>1, <1>6

-----------------------------------------------------------------------------
(* A limiter's step: it forgets, for one peer or for all, and may add the  *)
(* request that it has accepted.                                           *)

\* What a step of limiter l for a request of p that has read now does.
LimiterStep(l, p, now) ==
    /\ \A k \in Limiters \ {l} : entries'[k] = entries[k] /\ accepted'[k] = accepted[k]
    /\ \A q \in Peers :
          \/ /\ accepted'[l][q] = accepted[l][q]
             /\ Rest(entries[l][q], entries'[l][q], now)
          \/ /\ q = p
             /\ accepted'[l][q] = Append(accepted[l][q], now)
             /\ \E list \in Seq(Nat) :
                   /\ Rest(entries[l][q], list, now) /\ Len(list) < Quota[l]
                   /\ entries'[l][q] = Append(list, now)
    /\ entries' \in [Limiters -> [Peers -> Seq(Nat)]]
    /\ accepted' \in [Limiters -> [Peers -> Seq(Nat)]]

LEMMA KeptIsRest ==
    ASSUME ListsAreEnds, NEW l \in Limiters, NEW q \in Peers, NEW now \in Nat
    PROVE  /\ Kept(l, now) \in [Peers -> Seq(Nat)]
           /\ Rest(entries[l][q], Kept(l, now)[q], now)
           /\ Rest(entries[l][q], Pruned(Kept(l, now)[q], now), now)
           /\ Pruned(Kept(l, now)[q], now) \in Seq(Nat)
<1>1. entries[l] \in [Peers -> Seq(Nat)] BY DEF ListsAreEnds
<1>2. ASSUME NEW x \in Peers
      PROVE  Pruned(entries[l][x], now) \in Seq(Nat) /\ Rest(entries[l][x], Pruned(entries[l][x], now), now)
  BY <1>1, PrunedIsRest DEF Rest
<1>3. Kept(l, now) \in [Peers -> Seq(Nat)] /\ Rest(entries[l][q], Kept(l, now)[q], now)
  <2>1. CASE CleansUp(l, now)
    <3>1. Kept(l, now) = [x \in Peers |-> Pruned(entries[l][x], now)] BY <2>1 DEF Kept
    <3> QED BY <1>2, <3>1
  <2>2. CASE ~CleansUp(l, now)
    <3>1. Kept(l, now) = entries[l] BY <2>2 DEF Kept
    <3> QED BY <1>1, <3>1, RestOfItself
  <2> QED BY <2>1, <2>2
<1>4. /\ Pruned(Kept(l, now)[q], now) \in Seq(Nat)
      /\ Rest(Kept(l, now)[q], Pruned(Kept(l, now)[q], now), now)
  BY <1>3, PrunedIsRest DEF Rest
<1>5. Rest(entries[l][q], Pruned(Kept(l, now)[q], now), now)
  BY <1>1, <1>3, <1>4, RestOfRest
<1> QED BY <1>3, <1>4, <1>5

LEMMA ChecksIsStep ==
    ASSUME ListsAreEnds, NEW l \in Limiters, NEW p \in Peers, NEW now \in Nat,
           Checks(l, p, now) \/ Describes(l, p, now)
    PROVE  LimiterStep(l, p, now)
<1> DEFINE list == Pruned(Kept(l, now)[p], now)
<1>1. /\ Kept(l, now) \in [Peers -> Seq(Nat)] /\ list \in Seq(Nat)
      /\ Rest(entries[l][p], list, now)
      /\ \A q \in Peers : Rest(entries[l][q], Kept(l, now)[q], now)
  BY KeptIsRest
<1>2. /\ entries \in [Limiters -> [Peers -> Seq(Nat)]]
      /\ accepted \in [Limiters -> [Peers -> Seq(Nat)]]
  BY DEF ListsAreEnds
<1>3. CASE UNCHANGED accepted /\ entries' = [entries EXCEPT ![l] = [Kept(l, now) EXCEPT ![p] = list]]
  <2> HIDE DEF list
  <2> QED BY <1>1, <1>2, <1>3 DEF LimiterStep
<1>4. CASE /\ Len(list) < Quota[l]
           /\ accepted' = [accepted EXCEPT ![l][p] = Append(@, now)]
           /\ entries' = [entries EXCEPT ![l] = [Kept(l, now) EXCEPT ![p] = Append(list, now)]]
  <2> HIDE DEF list
  <2>1. Append(list, now) \in Seq(Nat) /\ Append(accepted[l][p], now) \in Seq(Nat) BY <1>1, <1>2
  <2>2. /\ entries' \in [Limiters -> [Peers -> Seq(Nat)]]
        /\ accepted' \in [Limiters -> [Peers -> Seq(Nat)]]
    BY <1>1, <1>2, <1>4, <2>1
  <2>3. \A k \in Limiters \ {l} : entries'[k] = entries[k] /\ accepted'[k] = accepted[k]
    BY <1>2, <1>4
  <2>4. entries'[l][p] = Append(list, now) /\ accepted'[l][p] = Append(accepted[l][p], now)
    BY <1>1, <1>2, <1>4
  <2>5. \A q \in Peers : q # p => entries'[l][q] = Kept(l, now)[q] /\ accepted'[l][q] = accepted[l][q]
    BY <1>1, <1>2, <1>4
  <2> QED BY <1>1, <1>4, <2>2, <2>3, <2>4, <2>5 DEF LimiterStep
<1> QED BY <1>3, <1>4 DEF Checks, Describes, HasRoom

\* What a limiter remembers stays an end of the history.
LEMMA StepKeepsEnds ==
    ASSUME ListsAreEnds, NEW l \in Limiters, NEW p, NEW now \in Nat, LimiterStep(l, p, now)
    PROVE  /\ ListsAreEnds'
           /\ \A q \in Peers, last \in Nat :
                 Intact(accepted[l][q], entries[l][q], last) /\ now <= last =>
                    Intact(accepted'[l][q], entries'[l][q], last)
<1> SUFFICES ASSUME NEW q \in Peers
             PROVE  /\ EndOf(accepted'[l][q], entries'[l][q])
                    /\ \A last \in Nat :
                          Intact(accepted[l][q], entries[l][q], last) /\ now <= last =>
                             Intact(accepted'[l][q], entries'[l][q], last)
  BY DEF LimiterStep, ListsAreEnds
<1> DEFINE times == accepted[l][q]
           old == entries[l][q]
<1>1. times \in Seq(Nat) /\ old \in Seq(Nat) /\ EndOf(times, old) BY DEF ListsAreEnds
<1>2. Window \in Nat BY QuotaAssumption
<1>3. ASSUME NEW new \in Seq(Nat), Rest(old, new, now)
      PROVE  /\ EndOf(times, new)
             /\ \A last \in Nat : Intact(times, old, last) /\ now <= last => Intact(times, new, last)
  <2> HIDE DEF times, old
  <2>1. /\ EndOf(times, new)
        /\ \A i \in 1..(Len(times) - Len(new)) :
              i \in 1..(Len(times) - Len(old)) \/ times[i] <= now - Window
    BY <1>1, <1>3, RestKeepsEnd
  <2>2. ASSUME NEW last \in Nat, Intact(times, old, last), now <= last,
               NEW i \in 1..(Len(times) - Len(new))
        PROVE  times[i] <= last - Window
    <3>1. CASE i \in 1..(Len(times) - Len(old)) BY <2>2, <3>1 DEF Intact
    <3>2. CASE times[i] <= now - Window
      <4>1. i \in 1..Len(times) /\ times[i] \in Nat
        <5>1. Len(times) \in Nat /\ Len(new) \in Nat BY <1>1
        <5> QED BY <1>1, <2>2, <5>1
      <4> QED BY <1>2, <2>2, <3>2, <4>1
    <3> QED BY <2>1, <3>1, <3>2
  <2> QED BY <2>1, <2>2 DEF Intact
<1>4. CASE accepted'[l][q] = times /\ Rest(old, entries'[l][q], now)
  <2>1. entries'[l][q] \in Seq(Nat) BY DEF LimiterStep
  <2> QED BY <1>3, <1>4, <2>1
<1>5. CASE /\ accepted'[l][q] = Append(times, now)
           /\ \E list \in Seq(Nat) : Rest(old, list, now) /\ entries'[l][q] = Append(list, now)
  <2>1. PICK list \in Seq(Nat) : Rest(old, list, now) /\ entries'[l][q] = Append(list, now) BY <1>5
  <2>2. /\ EndOf(times, list)
        /\ \A last \in Nat : Intact(times, old, last) /\ now <= last => Intact(times, list, last)
    BY <1>3, <2>1
  <2> HIDE DEF times, old
  <2>3. /\ EndOf(Append(times, now), Append(list, now))
        /\ \A last \in Nat : Intact(times, list, last) => Intact(Append(times, now), Append(list, now), last)
    BY <1>1, <2>2, AppendKeepsEnd DEF Intact
  <2> QED BY <1>5, <2>1, <2>2, <2>3 DEF times, old
<1> QED BY <1>4, <1>5 DEF LimiterStep

\* A window that a step leaves intact has room for what the step accepts; in a window
\* that ends before now nothing is added, in any other at most one.
LEMMA StepCounts ==
    ASSUME ListsAreEnds, NEW l \in Limiters, NEW p, NEW now \in Nat, LimiterStep(l, p, now),
           NEW q \in Peers, NEW last \in Nat
    PROVE  LET n == Cardinality(InWindow(accepted[l][q], last))
               m == Cardinality(InWindow(accepted'[l][q], last))
           IN  /\ n \in Nat /\ m \in Nat /\ m <= n + 1
               /\ (now > last \/ q # p) => m = n
               /\ Intact(accepted[l][q], entries[l][q], last) /\ now <= last /\ n <= Quota[l]
                     => m <= Quota[l]
<1> DEFINE times == accepted[l][q]
           n == Cardinality(InWindow(times, last))
           m == Cardinality(InWindow(accepted'[l][q], last))
<1>1. times \in Seq(Nat) /\ accepted'[l][q] \in Seq(Nat) /\ entries'[l][q] \in Seq(Nat)
  BY DEF ListsAreEnds, LimiterStep
<1>2. n \in Nat /\ m \in Nat BY <1>1, WindowIsFinite
<1>3. CASE accepted'[l][q] = times BY <1>2, <1>3
<1>4. CASE /\ q = p /\ accepted'[l][q] = Append(times, now)
           /\ \E list \in Seq(Nat) : Len(list) < Quota[l] /\ entries'[l][q] = Append(list, now)
  <2>1. m <= n + 1 /\ (now > last => m = n) BY <1>1, <1>4, WindowGrows
  <2>2. ASSUME Intact(accepted[l][q], entries[l][q], last), now <= last PROVE m <= Quota[l]
    <3>1. Intact(accepted'[l][q], entries'[l][q], last) /\ EndOf(accepted'[l][q], entries'[l][q])
      BY <2>2, StepKeepsEnds DEF ListsAreEnds
    <3>2. m <= Len(entries'[l][q]) BY <1>1, <3>1, WindowFitsList
    <3>3. Len(entries'[l][q]) <= Quota[l] /\ Len(entries'[l][q]) \in Nat /\ Quota[l] \in Nat
      <4>1. PICK list \in Seq(Nat) : Len(list) < Quota[l] /\ entries'[l][q] = Append(list, now) BY <1>4
      <4>2. Quota[l] \in Nat /\ Len(list) \in Nat /\ Len(Append(list, now)) = Len(list) + 1
        BY QuotaAssumption
      <4> QED BY <4>1, <4>2
    <3> QED BY <1>2, <3>2, <3>3
  <2> QED BY <1>2, <1>4, <2>1, <2>2
<1> QED BY <1>3, <1>4 DEF LimiterStep

-----------------------------------------------------------------------------
(* The requests, and the inductive invariant.                              *)

Places == {"new", "waiting", "checking", "refused", "describing", "leaving", "done"}

RequestRecord ==
    [pc : Places, kind : RequestKinds, peer : Peers \cup {NewRequest.peer}, now : Nat]

RequestsAreSound ==
    /\ moment \in Nat
    /\ request \in [Requests -> RequestRecord]
    /\ \A r \in Requests :
          /\ request[r].now <= moment
          /\ request[r].pc \notin {"new", "done"} => request[r].peer \in Peers

ThreadsAreFew == IsFiniteSet(InThread) /\ Cardinality(InThread) <= Workers

\* Threads that have read the clock no later than last and will check.
Late(l, p, last) ==
    {r \in InThread : /\ request[r].pc = "checking" /\ request[r].now <= last
                      /\ Strict(r) = l /\ request[r].peer = p}

Excess(l, p, last) ==
    IF l = "default" THEN 0 ELSE Workers - 1 - Cardinality(Late(l, p, last))

WindowIsBounded(l, p, last) ==
    LET n == Cardinality(InWindow(accepted[l][p], last)) IN
    \/ Intact(accepted[l][p], entries[l][p], last) /\ n <= Quota[l]
    \/ moment > last /\ n <= Quota[l] + Excess(l, p, last)

QuotaInv ==
    /\ ListsAreEnds /\ RequestsAreSound /\ ThreadsAreFew
    /\ \A l \in Limiters, p \in Peers, last \in Moments : WindowIsBounded(l, p, last)

LEMMA MomentsAreNat == ASSUME NEW last \in Moments PROVE last \in Nat
BY QuotaAssumption DEF Moments

LEMMA QuotasAreNat ==
    ASSUME NEW l \in Limiters
    PROVE  Quota[l] \in Nat \ {0} /\ Workers \in Nat \ {0}
BY QuotaAssumption

\* Late threads are threads.
LEMMA LateIsFinite ==
    ASSUME ThreadsAreFew, NEW l, NEW p, NEW last
    PROVE  IsFiniteSet(Late(l, p, last)) /\ Cardinality(Late(l, p, last)) \in Nat
<1>1. Late(l, p, last) \in SUBSET InThread BY DEF Late
<1> QED BY <1>1, FS_Subset, FS_CardinalityType DEF ThreadsAreFew

\* A step that leaves the lists alone and makes no thread late.
LEMMA NobodyIsLate ==
    ASSUME QuotaInv, ThreadsAreFew', UNCHANGED <<entries, accepted>>,
           moment' \in Nat, moment' >= moment,
           \A l \in Limiters \ {"default"}, p \in Peers, last \in Moments :
              moment > last => Late(l, p, last)' \subseteq Late(l, p, last)
    PROVE  \A l \in Limiters, p \in Peers, last \in Moments : WindowIsBounded(l, p, last)'
<1> SUFFICES ASSUME NEW l \in Limiters, NEW p \in Peers, NEW last \in Moments
             PROVE  WindowIsBounded(l, p, last)'
  OBVIOUS
<1> DEFINE n == Cardinality(InWindow(accepted[l][p], last))
           late == Cardinality(Late(l, p, last))
           late2 == Cardinality(Late(l, p, last)')
<1>1. /\ n \in Nat /\ last \in Nat /\ moment \in Nat /\ Quota[l] \in Nat /\ Workers \in Nat
      /\ late \in Nat /\ late2 \in Nat
  <2>1. last \in Nat BY MomentsAreNat
  <2>2. accepted[l][p] \in Seq(Nat) BY DEF QuotaInv, ListsAreEnds
  <2>3. n \in Nat BY <2>1, <2>2, WindowIsFinite
  <2>4. late \in Nat BY LateIsFinite DEF QuotaInv
  <2>5. late2 \in Nat
    <3>1. Late(l, p, last)' \in SUBSET InThread' BY DEF Late
    <3> QED BY <3>1, FS_Subset, FS_CardinalityType DEF ThreadsAreFew
  <2> QED BY <2>1, <2>3, <2>4, <2>5, QuotasAreNat DEF QuotaInv, RequestsAreSound
<1>2. ASSUME moment > last, l # "default" PROVE late2 <= late
  <2>1. Late(l, p, last)' \in SUBSET Late(l, p, last) BY <1>2
  <2> QED BY <2>1, LateIsFinite, FS_Subset DEF QuotaInv
<1>3. (Intact(accepted[l][p], entries[l][p], last) /\ n <= Quota[l])
      \/ (moment > last /\ n <= Quota[l] + (IF l = "default" THEN 0 ELSE Workers - 1 - late))
  BY DEF QuotaInv, WindowIsBounded, Excess
<1> HIDE DEF n, late, late2
<1>4. (Intact(accepted[l][p], entries[l][p], last) /\ n <= Quota[l])
      \/ (moment' > last /\ n <= Quota[l] + (IF l = "default" THEN 0 ELSE Workers - 1 - late2))
  BY <1>1, <1>2, <1>3
<1> QED BY <1>4 DEF n, late2, WindowIsBounded, Excess

\* The general limiter, in the event loop: the clock is read in the step.
LEMMA GeneralStep ==
    ASSUME QuotaInv, NEW p, LimiterStep("default", p, moment), UNCHANGED moment, ThreadsAreFew',
           \A l \in Limiters \ {"default"}, q \in Peers, last \in Moments :
              Late(l, q, last)' = Late(l, q, last)
    PROVE  \A l \in Limiters, q \in Peers, last \in Moments : WindowIsBounded(l, q, last)'
<1> SUFFICES ASSUME NEW l \in Limiters, NEW q \in Peers, NEW last \in Moments
             PROVE  WindowIsBounded(l, q, last)'
  OBVIOUS
<1>1. last \in Nat /\ moment \in Nat /\ Quota[l] \in Nat
  BY MomentsAreNat, QuotasAreNat DEF QuotaInv, RequestsAreSound
<1>2. CASE l # "default"
  <2>1. entries'[l] = entries[l] /\ accepted'[l] = accepted[l]
    BY <1>2 DEF LimiterStep
  <2>2. Late(l, q, last)' = Late(l, q, last) BY <1>2
  <2> QED BY <1>2, <2>1, <2>2 DEF QuotaInv, WindowIsBounded, Excess
<1>3. CASE l = "default"
  <2> DEFINE n == Cardinality(InWindow(accepted[l][q], last))
             m == Cardinality(InWindow(accepted'[l][q], last))
             old == Intact(accepted[l][q], entries[l][q], last)
             new == Intact(accepted'[l][q], entries'[l][q], last)
  <2>1. (old /\ n <= Quota[l]) \/ (moment > last /\ n <= Quota[l])
    BY <1>1, <1>3 DEF QuotaInv, WindowIsBounded, Excess
  <2>2. /\ n \in Nat /\ m \in Nat /\ (moment > last => m = n)
        /\ old /\ moment <= last /\ n <= Quota[l] => m <= Quota[l]
    BY <1>1, <1>3, StepCounts DEF QuotaInv
  <2>3. old /\ moment <= last => new BY <1>1, <1>3, StepKeepsEnds DEF QuotaInv
  <2> HIDE DEF n, m, old, new
  <2>4. (new /\ m <= Quota[l]) \/ (moment > last /\ m <= Quota[l])
    BY <1>1, <2>1, <2>2, <2>3
  <2> QED BY <1>1, <1>3, <2>4 DEF m, new, WindowIsBounded, Excess
<1> QED BY <1>2, <1>3

\* A stricter limiter, in thread r, with the time that the thread has read.
LEMMA StrictStep ==
    ASSUME QuotaInv, NEW r \in InThread, UNCHANGED moment, ThreadsAreFew',
           LimiterStep(Strict(r), request[r].peer, request[r].now),
           request[r].pc = "checking" \/ UNCHANGED accepted,
           \A l, p : \A last \in Moments : Late(l, p, last)' \subseteq Late(l, p, last) \ {r},
           InThread' \subseteq InThread
    PROVE  \A l \in Limiters, q \in Peers, last \in Moments : WindowIsBounded(l, q, last)'
<1> SUFFICES ASSUME NEW l \in Limiters, NEW q \in Peers, NEW last \in Moments
             PROVE  WindowIsBounded(l, q, last)'
  OBVIOUS
<1> DEFINE now == request[r].now
           p == request[r].peer
           late == Cardinality(Late(l, q, last))
           late2 == Cardinality(Late(l, q, last)')
           n == Cardinality(InWindow(accepted[l][q], last))
           m == Cardinality(InWindow(accepted'[l][q], last))
           old == Intact(accepted[l][q], entries[l][q], last)
           new == Intact(accepted'[l][q], entries'[l][q], last)
<1>1. /\ last \in Nat /\ moment \in Nat /\ Quota[l] \in Nat /\ Workers \in Nat \ {0}
      /\ now \in Nat /\ now <= moment /\ r \in Requests
  BY MomentsAreNat, QuotasAreNat DEF QuotaInv, RequestsAreSound, RequestRecord, InThread
<1>2. Strict(r) \in Limiters \ {"default"} BY DEF Strict, Limiters
<1>3. late \in Nat /\ late2 \in Nat /\ late2 <= late /\ (r \in Late(l, q, last) => late2 <= late - 1)
  <2>1. IsFiniteSet(Late(l, q, last)) /\ late \in Nat BY LateIsFinite DEF QuotaInv
  <2>2. Late(l, q, last)' \in SUBSET (Late(l, q, last) \ {r}) OBVIOUS
  <2>3. /\ IsFiniteSet(Late(l, q, last) \ {r})
        /\ Cardinality(Late(l, q, last) \ {r}) = IF r \in Late(l, q, last) THEN late - 1 ELSE late
    BY <2>1, FS_RemoveElement
  <2>4. IsFiniteSet(Late(l, q, last)') /\ late2 <= Cardinality(Late(l, q, last) \ {r})
    BY <2>2, <2>3, FS_Subset
  <2>5. late2 \in Nat BY <2>4, FS_CardinalityType
  <2> QED BY <2>1, <2>3, <2>4, <2>5
<1>4. late2 <= Workers - 1
  <2>1. /\ IsFiniteSet(InThread) /\ Cardinality(InThread) \in Nat /\ Cardinality(InThread) <= Workers
    BY FS_CardinalityType DEF QuotaInv, ThreadsAreFew
  <2>2. IsFiniteSet(InThread \ {r}) /\ Cardinality(InThread \ {r}) = Cardinality(InThread) - 1
    BY <2>1, FS_RemoveElement
  <2>3. Late(l, q, last)' \in SUBSET (InThread \ {r}) BY DEF Late
  <2>4. late2 <= Cardinality(InThread \ {r}) BY <2>2, <2>3, FS_Subset
  <2> QED BY <1>1, <1>3, <2>1, <2>2, <2>4
<1>5. (old /\ n <= Quota[l])
      \/ (moment > last /\ n <= Quota[l] + (IF l = "default" THEN 0 ELSE Workers - 1 - late))
  BY DEF QuotaInv, WindowIsBounded, Excess
<1>6. CASE l # Strict(r)
  <2>1. entries'[l] = entries[l] /\ accepted'[l] = accepted[l] BY <1>6 DEF LimiterStep
  <2>2. m = n /\ new = old BY <2>1
  <2>3. n \in Nat
    <3>1. accepted[l][q] \in Seq(Nat) BY DEF QuotaInv, ListsAreEnds
    <3> QED BY <1>1, <3>1, WindowIsFinite
  <2> HIDE DEF n, m, old, new, late, late2
  <2>4. (new /\ m <= Quota[l])
        \/ (moment > last /\ m <= Quota[l] + (IF l = "default" THEN 0 ELSE Workers - 1 - late2))
    BY <1>1, <1>3, <1>5, <2>2, <2>3
  <2> QED BY <2>4 DEF m, new, late2, WindowIsBounded, Excess
<1>7. CASE l = Strict(r)
  <2>1. /\ n \in Nat /\ m \in Nat /\ m <= n + 1
        /\ (now > last \/ q # p) => m = n
        /\ old /\ now <= last /\ n <= Quota[l] => m <= Quota[l]
    BY <1>1, <1>2, <1>7, StepCounts DEF QuotaInv
  <2>2. old /\ now <= last => new BY <1>1, <1>2, <1>7, StepKeepsEnds DEF QuotaInv
  <2>3. m # n /\ now <= last => r \in Late(l, q, last)
    <3> SUFFICES ASSUME m # n, now <= last PROVE r \in Late(l, q, last) OBVIOUS
    <3>1. q = p BY <2>1
    <3>2. request[r].pc = "checking" OBVIOUS
    <3> QED BY <1>7, <3>1, <3>2 DEF Late
  <2>4. l # "default" BY <1>2, <1>7
  <2> HIDE DEF n, m, old, new, late, late2, now
  <2>5. (new /\ m <= Quota[l]) \/ (moment > last /\ m <= Quota[l] + (Workers - 1 - late2))
    <3>1. CASE now <= last /\ old /\ n <= Quota[l] BY <1>1, <2>1, <2>2, <3>1
    <3>2. CASE now > last /\ old /\ n <= Quota[l]
      <4>1. m = n /\ moment > last BY <1>1, <2>1, <3>2
      <4> QED BY <1>1, <1>3, <1>4, <2>1, <3>2, <4>1
    <3>3. CASE moment > last /\ n <= Quota[l] + (Workers - 1 - late)
      <4>1. CASE m = n BY <1>1, <1>3, <2>1, <3>3, <4>1
      <4>2. CASE m # n
        <5>1. late2 <= late - 1 BY <1>1, <1>3, <2>1, <2>3, <4>2
        <5> QED BY <1>1, <1>3, <2>1, <3>3, <5>1
      <4> QED BY <4>1, <4>2
    <3> QED BY <1>1, <1>5, <2>4, <3>1, <3>2, <3>3
  <2> QED BY <2>4, <2>5 DEF m, new, late2, WindowIsBounded, Excess
<1> QED BY <1>6, <1>7

-----------------------------------------------------------------------------
(* The steps of QuotaNext.                                                 *)

\* One request changes.
LEMMA OneMoves ==
    ASSUME RequestsAreSound, UNCHANGED moment, NEW r \in Requests,
           request' \in [Requests -> RequestRecord],
           \A x \in Requests \ {r} : request'[x] = request[x],
           request'[r].now <= moment,
           request'[r].pc \notin {"new", "done"} => request'[r].peer \in Peers
    PROVE  /\ RequestsAreSound'
           /\ InThread' = IF request'[r].pc \in {"checking", "refused", "describing"}
                          THEN InThread \cup {r} ELSE InThread \ {r}
           /\ \A l, q : \A last \in Nat :
                 /\ Late(l, q, last)' \ {r} = Late(l, q, last) \ {r}
                 /\ request'[r].pc # "checking" \/ request'[r].now > last => r \notin Late(l, q, last)'
<1>1. RequestsAreSound'
  <2>1. ASSUME NEW x \in Requests
        PROVE  /\ request'[x].now <= moment
               /\ request'[x].pc \notin {"new", "done"} => request'[x].peer \in Peers
    BY DEF RequestsAreSound
  <2> QED BY <2>1 DEF RequestsAreSound, RequestRecord, NewRequest
<1>2. InThread' = IF request'[r].pc \in {"checking", "refused", "describing"}
                  THEN InThread \cup {r} ELSE InThread \ {r}
  BY DEF InThread
<1>3. ASSUME NEW l, NEW q, NEW last \in Nat
      PROVE  /\ Late(l, q, last)' \ {r} = Late(l, q, last) \ {r}
             /\ request'[r].pc # "checking" \/ request'[r].now > last => r \notin Late(l, q, last)'
  <2>1. ASSUME NEW x \in Requests \ {r}
        PROVE  x \in Late(l, q, last)' <=> x \in Late(l, q, last)
    BY DEF Late, InThread, Strict
  <2>2. Late(l, q, last)' \in SUBSET Requests /\ Late(l, q, last) \in SUBSET Requests
    BY DEF Late, InThread
  <2>3. r \in Late(l, q, last)' => request'[r].pc = "checking" /\ request'[r].now <= last
    BY DEF Late
  <2>4. Late(l, q, last)' \ {r} = Late(l, q, last) \ {r} BY <2>1, <2>2
  <2>5. request'[r].now \in Nat BY DEF RequestRecord
  <2> QED BY <2>3, <2>4, <2>5
<1> QED BY <1>1, <1>2, <1>3

LEMMA NewRequestIs ==
    /\ NewRequest \in RequestRecord /\ NewRequest.pc = "new" /\ NewRequest.now = 0
    /\ Answered \in RequestRecord /\ Answered.pc = "done" /\ Answered.now = 0
<1> DEFINE p0 == CHOOSE p \in Peers : TRUE
<1>1. NewRequest = [pc |-> "new", kind |-> "plain", peer |-> p0, now |-> 0] BY DEF NewRequest
<1> HIDE DEF p0
<1>2. NewRequest \in RequestRecord /\ NewRequest.pc = "new" /\ NewRequest.now = 0
  BY <1>1 DEF RequestRecord, Places, RequestKinds
<1>3. Answered = [NewRequest EXCEPT !.pc = "done"] BY DEF Answered
<1>4. Answered \in RequestRecord /\ Answered.pc = "done" /\ Answered.now = 0
  BY <1>2, <1>3 DEF RequestRecord, Places
<1> QED BY <1>2, <1>4

LEMMA FewerThreads ==
    ASSUME ThreadsAreFew, InThread' \in SUBSET InThread
    PROVE  ThreadsAreFew'
<1>1. IsFiniteSet(InThread') /\ Cardinality(InThread') <= Cardinality(InThread)
  BY FS_Subset DEF ThreadsAreFew
<1>2. Cardinality(InThread') \in Nat /\ Cardinality(InThread) \in Nat
  BY <1>1, FS_CardinalityType DEF ThreadsAreFew
<1>3. Workers \in Nat BY QuotaAssumption
<1>4. Cardinality(InThread') <= Workers BY <1>1, <1>2, <1>3 DEF ThreadsAreFew
<1> QED BY <1>1, <1>4 DEF ThreadsAreFew

LEMMA ArrivesKeepsInv ==
    ASSUME QuotaInv, NEW r \in Requests, NEW kind \in RequestKinds, NEW p \in Peers, Arrives(r, kind, p)
    PROVE  QuotaInv'
<1>1. /\ request' \in [Requests -> RequestRecord]
      /\ \A x \in Requests \ {r} : request'[x] = request[x]
      /\ request'[r].now = 0 /\ request'[r].pc \in {"done", "leaving", "waiting"}
      /\ request'[r].pc # "done" => request'[r].peer \in Peers
  <2>1. request \in [Requests -> RequestRecord] BY DEF QuotaInv, RequestsAreSound
  <2>2. CASE kind = "unsigned"
    <3>1. request' = [request EXCEPT ![r] = Answered] BY <2>2 DEF Arrives
    <3> QED BY <2>1, <3>1, NewRequestIs
  <2>3. CASE kind # "unsigned"
    <3> DEFINE c == IF kind = "plain" \/ ~HasRoom("default", p, moment) THEN "leaving" ELSE "waiting"
               new == [NewRequest EXCEPT !.kind = kind, !.peer = p, !.pc = c]
    <3>1. request' = [request EXCEPT ![r] = new] BY <2>3 DEF Arrives
    <3>2. c \in {"leaving", "waiting"} OBVIOUS
    <3> HIDE DEF c
    <3>3. new \in RequestRecord /\ new.pc = c /\ new.now = 0 /\ new.peer = p
      BY <3>2, NewRequestIs DEF RequestRecord, Places
    <3> HIDE DEF new
    <3> QED BY <2>1, <3>1, <3>2, <3>3
  <2> QED BY <2>2, <2>3
<1>2. UNCHANGED moment /\ request[r].pc = "new" BY DEF Arrives
<1>3. /\ RequestsAreSound'
      /\ InThread' = InThread \ {r}
      /\ \A l, x : \A last \in Nat :
            Late(l, x, last)' \ {r} = Late(l, x, last) \ {r} /\ r \notin Late(l, x, last)'
  <2>1. 0 <= moment BY DEF QuotaInv, RequestsAreSound
  <2> QED BY <1>1, <1>2, <2>1, OneMoves DEF QuotaInv
<1>4. ThreadsAreFew' BY <1>3, FewerThreads DEF QuotaInv
<1>5. \A l, x : \A last \in Moments : Late(l, x, last)' = Late(l, x, last)
  <2>1. r \notin InThread BY <1>2 DEF InThread
  <2> SUFFICES ASSUME NEW l, NEW x, NEW last \in Moments
               PROVE  Late(l, x, last)' = Late(l, x, last)
    OBVIOUS
  <2>2. last \in Nat BY MomentsAreNat
  <2>3. r \notin Late(l, x, last) BY <2>1 DEF Late
  <2> QED BY <1>3, <2>2, <2>3
<1>6. moment \in Nat BY DEF QuotaInv, RequestsAreSound
<1>7. CASE kind = "unsigned"
  <2>1. UNCHANGED <<entries, accepted>> BY <1>7 DEF Arrives
  <2>2. ListsAreEnds' BY <2>1 DEF QuotaInv, ListsAreEnds
  <2>3. \A l \in Limiters, x \in Peers, last \in Moments : WindowIsBounded(l, x, last)'
    BY <1>2, <1>4, <1>5, <1>6, <2>1, NobodyIsLate
  <2> QED BY <1>3, <1>4, <2>2, <2>3 DEF QuotaInv
<1>8. CASE kind # "unsigned"
  <2>1. Checks("default", p, moment) BY <1>8 DEF Arrives
  <2>2. "default" \in Limiters BY DEF Limiters
  <2>3. LimiterStep("default", p, moment) BY <1>6, <2>1, <2>2, ChecksIsStep DEF QuotaInv
  <2>4. ListsAreEnds' BY <1>6, <2>2, <2>3, StepKeepsEnds DEF QuotaInv
  <2>5. \A l \in Limiters, x \in Peers, last \in Moments : WindowIsBounded(l, x, last)'
    BY <1>2, <1>4, <1>5, <2>3, GeneralStep
  <2> QED BY <1>3, <1>4, <2>4, <2>5 DEF QuotaInv
<1> QED BY <1>7, <1>8

LEMMA LeavesKeepsInv ==
    ASSUME QuotaInv, NEW r \in Requests, Leaves(r)
    PROVE  QuotaInv'
<1>1. UNCHANGED moment /\ request[r].pc = "leaving" /\ request[r].peer \in Peers /\ moment \in Nat
  BY DEF Leaves, QuotaInv, RequestsAreSound
<1>2. /\ request' \in [Requests -> RequestRecord]
      /\ \A x \in Requests \ {r} : request'[x] = request[x]
      /\ request'[r].now = 0 /\ request'[r].pc = "done"
  BY NewRequestIs DEF Leaves, QuotaInv, RequestsAreSound
<1>3. /\ RequestsAreSound'
      /\ InThread' = InThread \ {r}
      /\ \A l, x : \A last \in Nat :
            Late(l, x, last)' \ {r} = Late(l, x, last) \ {r} /\ r \notin Late(l, x, last)'
  <2>1. 0 <= moment BY <1>1
  <2> QED BY <1>1, <1>2, <2>1, OneMoves DEF QuotaInv
<1>4. ThreadsAreFew' BY <1>3, FewerThreads DEF QuotaInv
<1>5. \A l, x : \A last \in Moments : Late(l, x, last)' = Late(l, x, last)
  <2>1. r \notin InThread BY <1>1 DEF InThread
  <2> SUFFICES ASSUME NEW l, NEW x, NEW last \in Moments
               PROVE  Late(l, x, last)' = Late(l, x, last)
    OBVIOUS
  <2>2. last \in Nat BY MomentsAreNat
  <2>3. r \notin Late(l, x, last) BY <2>1 DEF Late
  <2> QED BY <1>3, <2>2, <2>3
<1>6. "default" \in Limiters BY DEF Limiters
<1>7. LimiterStep("default", request[r].peer, moment)
  BY <1>1, <1>6, ChecksIsStep DEF QuotaInv, Leaves
<1>8. ListsAreEnds' BY <1>1, <1>6, <1>7, StepKeepsEnds DEF QuotaInv
<1>9. \A l \in Limiters, x \in Peers, last \in Moments : WindowIsBounded(l, x, last)'
  BY <1>1, <1>4, <1>5, <1>7, GeneralStep
<1> QED BY <1>3, <1>4, <1>8, <1>9 DEF QuotaInv

LEMMA ReadsClockKeepsInv ==
    ASSUME QuotaInv, NEW r \in Requests, ReadsClock(r)
    PROVE  QuotaInv'
<1> DEFINE c == IF request[r].pc = "waiting" THEN "checking" ELSE "describing"
<1>1. /\ UNCHANGED <<moment, entries, accepted>> /\ moment \in Nat
      /\ request[r].pc \in {"waiting", "refused"} /\ request[r].peer \in Peers
  BY DEF ReadsClock, QuotaInv, RequestsAreSound
<1>2. /\ request' \in [Requests -> RequestRecord]
      /\ \A x \in Requests \ {r} : request'[x] = request[x]
      /\ request'[r].now = moment /\ request'[r].pc = c /\ request'[r].peer \in Peers
  BY <1>1 DEF ReadsClock, QuotaInv, RequestsAreSound, RequestRecord, Places
<1>3. c \in {"checking", "refused", "describing"} OBVIOUS
<1> HIDE DEF c
<1>4. /\ RequestsAreSound'
      /\ InThread' = InThread \cup {r}
      /\ \A l, x : \A last \in Nat :
            /\ Late(l, x, last)' \ {r} = Late(l, x, last) \ {r}
            /\ moment > last => r \notin Late(l, x, last)'
  <2>1. moment <= moment BY <1>1
  <2> QED BY <1>1, <1>2, <1>3, <2>1, OneMoves DEF QuotaInv
<1>5. ThreadsAreFew'
  <2>1. IsFiniteSet(InThread) /\ Cardinality(InThread) \in Nat /\ Workers \in Nat
    BY FS_CardinalityType, QuotaAssumption DEF QuotaInv, ThreadsAreFew
  <2>2. CASE request[r].pc = "refused"
    <3>1. r \in InThread BY <2>2 DEF InThread
    <3>2. InThread' \in SUBSET InThread BY <1>4, <3>1
    <3> QED BY <3>2, FewerThreads DEF QuotaInv
  <2>3. CASE request[r].pc = "waiting"
    <3>1. Cardinality(InThread) < Workers BY <2>3 DEF ReadsClock
    <3>2. /\ IsFiniteSet(InThread \cup {r})
          /\ Cardinality(InThread \cup {r})
               = IF r \in InThread THEN Cardinality(InThread) ELSE Cardinality(InThread) + 1
      BY <2>1, FS_AddElement
    <3>3. Cardinality(InThread \cup {r}) <= Workers BY <2>1, <3>1, <3>2
    <3> QED BY <1>4, <3>2, <3>3 DEF ThreadsAreFew
  <2> QED BY <1>1, <2>2, <2>3
<1>6. ListsAreEnds' BY <1>1 DEF QuotaInv, ListsAreEnds
<1>7. ASSUME NEW l \in Limiters \ {"default"}, NEW p \in Peers, NEW last \in Moments, moment > last
      PROVE  Late(l, p, last)' \subseteq Late(l, p, last)
  <2>1. last \in Nat BY MomentsAreNat
  <2> QED BY <1>4, <1>7, <2>1
<1>8. \A l \in Limiters, x \in Peers, last \in Moments : WindowIsBounded(l, x, last)'
  <2>1. moment' \in Nat /\ moment' >= moment BY <1>1
  <2> QED BY <1>1, <1>5, <1>7, <2>1, NobodyIsLate
<1> QED BY <1>4, <1>5, <1>6, <1>8 DEF QuotaInv

LEMMA ThreadKeepsInv ==
    ASSUME QuotaInv, NEW r \in Requests, ChecksStrictly(r) \/ DescribesStrictly(r)
    PROVE  QuotaInv'
<1> DEFINE now == request[r].now
           p == request[r].peer
<1>1. /\ UNCHANGED moment /\ r \in InThread /\ p \in Peers /\ now \in Nat /\ moment \in Nat
      /\ request[r].pc \in {"checking", "describing"}
  BY DEF ChecksStrictly, DescribesStrictly, InThread, QuotaInv, RequestsAreSound, RequestRecord
<1>2. Strict(r) \in Limiters BY DEF Strict, Limiters
<1>3. /\ Checks(Strict(r), p, now) \/ Describes(Strict(r), p, now)
      /\ request[r].pc = "checking" \/ UNCHANGED accepted
  BY DEF ChecksStrictly, DescribesStrictly, Describes
<1>4. LimiterStep(Strict(r), p, now) BY <1>1, <1>2, <1>3, ChecksIsStep DEF QuotaInv
<1>5. /\ request' \in [Requests -> RequestRecord]
      /\ \A x \in Requests \ {r} : request'[x] = request[x]
      /\ request'[r].now = 0 /\ request'[r].pc \in {"leaving", "refused", "done"}
      /\ request'[r].pc # "done" => request'[r].peer \in Peers
  <2>1. request \in [Requests -> RequestRecord] BY DEF QuotaInv, RequestsAreSound
  <2>2. CASE ChecksStrictly(r)
    <3> DEFINE c == IF HasRoom(Strict(r), p, now) THEN "leaving" ELSE "refused"
    <3>1. request' = [request EXCEPT ![r].now = 0, ![r].pc = c] BY <2>2 DEF ChecksStrictly
    <3>2. c \in {"leaving", "refused"} OBVIOUS
    <3> HIDE DEF c
    <3> QED BY <1>1, <2>1, <3>1, <3>2 DEF RequestRecord, Places
  <2>3. CASE DescribesStrictly(r) BY <2>1, <2>3, NewRequestIs DEF DescribesStrictly
  <2> QED BY <2>2, <2>3
<1>6. /\ RequestsAreSound'
      /\ InThread' \in SUBSET InThread
      /\ \A l, x : \A last \in Nat :
            Late(l, x, last)' \ {r} = Late(l, x, last) \ {r} /\ r \notin Late(l, x, last)'
  <2>1. 0 <= moment BY <1>1
  <2>2. request'[r].pc \notin {"new", "done"} => request'[r].peer \in Peers BY <1>5
  <2>3. /\ RequestsAreSound'
        /\ InThread' = IF request'[r].pc \in {"checking", "refused", "describing"}
                       THEN InThread \cup {r} ELSE InThread \ {r}
        /\ \A l, x : \A last \in Nat :
              /\ Late(l, x, last)' \ {r} = Late(l, x, last) \ {r}
              /\ request'[r].pc # "checking" \/ request'[r].now > last => r \notin Late(l, x, last)'
    BY <1>1, <1>5, <2>1, <2>2, OneMoves DEF QuotaInv
  <2> QED BY <1>1, <1>5, <2>3
<1>7. ThreadsAreFew' BY <1>6, FewerThreads DEF QuotaInv
<1>8. ListsAreEnds' BY <1>1, <1>2, <1>4, StepKeepsEnds DEF QuotaInv
<1>9. \A l \in Limiters, x \in Peers, last \in Moments : WindowIsBounded(l, x, last)'
  <2>1. ASSUME NEW l, NEW x, NEW last \in Moments
        PROVE  Late(l, x, last)' \subseteq Late(l, x, last) \ {r}
    BY <1>6, MomentsAreNat
  <2> QED BY <1>1, <1>3, <1>4, <1>6, <1>7, <2>1, StrictStep
<1> QED BY <1>6, <1>7, <1>8, <1>9 DEF QuotaInv

LEMMA TimePassesKeepsInv ==
    ASSUME QuotaInv, UNCHANGED <<entries, accepted, request>>,
           moment' \in Nat, moment' >= moment
    PROVE  QuotaInv'
<1>1. ListsAreEnds' BY DEF QuotaInv, ListsAreEnds
<1>2. RequestsAreSound'
  <2>1. ASSUME NEW r \in Requests PROVE request[r].now <= moment'
    <3>1. request[r].now \in Nat /\ request[r].now <= moment /\ moment \in Nat
      BY DEF QuotaInv, RequestsAreSound, RequestRecord
    <3> QED BY <3>1
  <2> QED BY <2>1 DEF QuotaInv, RequestsAreSound, RequestRecord, NewRequest
<1>3. InThread' = InThread BY DEF InThread
<1>4. ThreadsAreFew' BY <1>3 DEF QuotaInv, ThreadsAreFew
<1>5. ASSUME NEW l, NEW p, NEW last PROVE Late(l, p, last)' = Late(l, p, last)
  BY <1>3 DEF Late, Strict
<1>6. \A l \in Limiters, p \in Peers, last \in Moments : WindowIsBounded(l, p, last)'
  <2>1. \A l \in Limiters \ {"default"}, p \in Peers, last \in Moments :
           moment > last => Late(l, p, last)' \subseteq Late(l, p, last)
    BY <1>5
  <2>2. UNCHANGED <<entries, accepted>> OBVIOUS
  <2> QED BY <1>4, <2>1, <2>2, NobodyIsLate
<1> QED BY <1>1, <1>2, <1>4, <1>6 DEF QuotaInv

LEMMA QuotaInvInit == QuotaInit => QuotaInv
<1> SUFFICES ASSUME QuotaInit PROVE QuotaInv OBVIOUS
<1>1. Window \in Nat BY QuotaAssumption
<1>2. <<>> \in Seq(Nat) /\ Len(<<>>) = 0 OBVIOUS
<1>3. ListsAreEnds
  <2>1. /\ entries = [l \in Limiters |-> [p \in Peers |-> <<>>]] /\ accepted = entries
    BY DEF QuotaInit
  <2> QED BY <1>2, <2>1 DEF ListsAreEnds, EndOf
<1>4. moment = Window /\ request = [r \in Requests |-> NewRequest] BY DEF QuotaInit
<1>5. RequestsAreSound BY <1>1, <1>4, NewRequestIs DEF RequestsAreSound
<1>6. ThreadsAreFew
  <2>1. InThread = {} BY <1>4, NewRequestIs DEF InThread
  <2>2. IsFiniteSet({}) /\ Cardinality({}) = 0 BY FS_EmptySet
  <2>3. Workers \in Nat BY QuotaAssumption
  <2> QED BY <2>1, <2>2, <2>3 DEF ThreadsAreFew
<1>7. ASSUME NEW l \in Limiters, NEW p \in Peers, NEW last \in Moments
      PROVE  WindowIsBounded(l, p, last)
  <2>1. accepted[l][p] = <<>> /\ entries[l][p] = <<>> BY DEF QuotaInit
  <2>2. InWindow(<<>>, last) = {} BY DEF InWindow
  <2>3. Cardinality({}) = 0 BY FS_EmptySet
  <2>4. Intact(<<>>, <<>>, last) BY <1>2 DEF Intact
  <2>5. Quota[l] \in Nat BY QuotasAreNat
  <2>6. Cardinality(InWindow(<<>>, last)) = 0 BY <2>2, <2>3
  <2>7. 0 <= Quota[l] BY <2>5
  <2>8. Cardinality(InWindow(<<>>, last)) <= Quota[l] BY <2>6, <2>7
  <2> QED BY <2>1, <2>4, <2>8 DEF WindowIsBounded
<1> QED BY <1>3, <1>5, <1>6, <1>7 DEF QuotaInv

LEMMA QuotaInvNext == QuotaInv /\ [QuotaNext]_quotaVars => QuotaInv'
<1> SUFFICES ASSUME QuotaInv, [QuotaNext]_quotaVars PROVE QuotaInv' OBVIOUS
<1>1. ASSUME NEW r \in Requests, NEW kind \in RequestKinds, NEW p \in Peers, Arrives(r, kind, p)
      PROVE  QuotaInv'
  BY <1>1, ArrivesKeepsInv
<1>2. ASSUME NEW r \in Requests, ReadsClock(r) PROVE QuotaInv'
  BY <1>2, ReadsClockKeepsInv
<1>3. ASSUME NEW r \in Requests, ChecksStrictly(r) \/ DescribesStrictly(r) PROVE QuotaInv'
  BY <1>3, ThreadKeepsInv
<1>4. ASSUME NEW r \in Requests, Leaves(r) PROVE QuotaInv'
  BY <1>4, LeavesKeepsInv
<1>5. moment \in Nat BY DEF QuotaInv, RequestsAreSound
<1>6. CASE TimePasses
  <2>1. UNCHANGED <<entries, accepted, request>> /\ moment' = moment + 1 BY <1>6 DEF TimePasses
  <2>2. moment' \in Nat /\ moment' >= moment BY <1>5, <2>1
  <2> QED BY <2>1, <2>2, TimePassesKeepsInv
<1>7. CASE UNCHANGED quotaVars
  <2>1. UNCHANGED <<entries, accepted, request>> /\ moment' = moment BY <1>7 DEF quotaVars
  <2>2. moment' \in Nat /\ moment' >= moment BY <1>5, <2>1
  <2> QED BY <2>1, <2>2, TimePassesKeepsInv
<1> QED BY <1>1, <1>2, <1>3, <1>4, <1>6, <1>7 DEF QuotaNext

\* What the invariant says of the requests that a window has accepted.
LEMMA QuotaInvBounds == QuotaInv => LimitIsBounded
<1> SUFFICES ASSUME QuotaInv PROVE LimitIsBounded OBVIOUS
<1>1. ASSUME NEW l \in Limiters, NEW p \in Peers, NEW last \in Moments
      PROVE  AcceptedIn(l, p, last) <= Quota[l] + IF l = "default" THEN 0 ELSE Workers - 1
  <2> DEFINE n == Cardinality(InWindow(accepted[l][p], last))
             late == Cardinality(Late(l, p, last))
  <2>1. AcceptedIn(l, p, last) = n BY DEF AcceptedIn, InWindow
  <2>2. late \in Nat BY LateIsFinite DEF QuotaInv
  <2>3. Quota[l] \in Nat /\ Workers \in Nat \ {0} BY QuotasAreNat
  <2>4. n \in Nat
    <3>1. accepted[l][p] \in Seq(Nat) BY DEF QuotaInv, ListsAreEnds
    <3> QED BY <3>1, MomentsAreNat, WindowIsFinite
  <2>5. n <= Quota[l] \/ n <= Quota[l] + (IF l = "default" THEN 0 ELSE Workers - 1 - late)
    BY DEF QuotaInv, WindowIsBounded, Excess
  <2> HIDE DEF n, late
  <2> QED BY <2>1, <2>2, <2>3, <2>4, <2>5
<1>2. ASSUME NEW p \in Peers, NEW last \in Moments
      PROVE  AcceptedIn("default", p, last) <= Quota["default"]
  <2>1. "default" \in Limiters BY DEF Limiters
  <2>2. AcceptedIn("default", p, last) <= Quota["default"] + 0 BY <1>1, <2>1
  <2> QED BY <2>1, <2>2, QuotasAreNat
<1>3. ASSUME NEW p \in Peers, NEW last \in Moments, NEW l \in {"auth", "pin"}
      PROVE  AcceptedIn(l, p, last) <= Quota[l] + Workers - 1
  <2>1. l \in Limiters /\ l # "default" BY DEF Limiters
  <2>2. AcceptedIn(l, p, last) <= Quota[l] + (Workers - 1) BY <1>1, <2>1
  <2>3. Quota[l] + (Workers - 1) = Quota[l] + Workers - 1 BY <2>1, QuotasAreNat
  <2> QED BY <2>2, <2>3
<1> QED BY <1>2, <1>3 DEF LimitIsBounded

(* LimitIsBounded, of any number of peers and requests, for any quotas and *)
(* any pool of worker threads: no peer has more requests accepted in a     *)
(* window than its quota by the general limiter (rate_limiter.py:11), and  *)
(* by a stricter one no more than one in excess for each other worker      *)
(* thread, whatever the order in which the threads get to the lock.        *)
THEOREM LimitsHold == QuotaSpec => []LimitIsBounded
<1> QED BY QuotaInvInit, QuotaInvNext, QuotaInvBounds, PTL DEF QuotaSpec
===========================================================================
