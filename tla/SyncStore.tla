-------------------------------- MODULE SyncStore --------------------------------
(***************************************************************************)
(* The archives of the sync server (sync_server/main.py): one row per      *)
(* device of a profile, kept in memory and, when a database is configured, *)
(* in SQLite.  Every call changes the memory first and the database second *)
(* and never awaits, so calls come one after the other; a database that is *)
(* locked or full makes a call raise between the two.                      *)
(***************************************************************************)
EXTENDS Naturals

CONSTANTS
    Devices,
    Archives,
    None,
    MaxRestarts     \* bound: restarts of the server

ASSUME SyncAssumption == MaxRestarts \in Nat

Rows == [archive : Archives, revoked : BOOLEAN]

\* The row of an upload.
Row(a) == [archive |-> a, revoked |-> FALSE]

ASSUME NoneIsNoRow == None \notin Rows \cup Archives

VARIABLES
    database,   \* a database is configured; chosen once and for all
    memory,     \* self._memory
    rows,       \* table sync_archives
    promised,   \* the row that the accepted calls of each device amount to
    out,        \* devices that an accepted call revoked or deleted, no upload sent since
    banned,     \* devices that an accepted call revoked
    failed,     \* devices with a statement that raised since the server started
    restarts

told == <<promised, out, banned>>
server == <<database, restarts>>
vars == <<memory, rows, told, failed, server>>

Init ==
    /\ database \in BOOLEAN
    /\ memory = [d \in Devices |-> None] /\ rows = [d \in Devices |-> None]
    /\ promised = [d \in Devices |-> None]
    /\ out = {} /\ banned = {} /\ failed = {}
    /\ restarts = 0

Revoked(row) == IF row = None THEN None ELSE [row EXCEPT !.revoked = TRUE]
Serves(row) == IF row = None \/ row.revoked THEN None ELSE row.archive

\* _to_row
Found(d) == IF memory[d] = None THEN rows[d] ELSE memory[d]

\* The statement that stores or removes the row of d, and its commit.
Written(d, row) ==
    /\ rows' = IF database THEN [rows EXCEPT ![d] = row] ELSE rows
    /\ UNCHANGED failed

\* A statement that raises: the client gets an error, the memory stays changed.
Refused(d) == database /\ failed' = failed \cup {d} /\ UNCHANGED rows

\* ProfileSyncStore.store
Store(d, a) ==
    /\ memory' = [memory EXCEPT ![d] = Row(a)]
    /\ out' = out \ {d}
    /\ \/ Written(d, Row(a)) /\ promised' = [promised EXCEPT ![d] = Row(a)]
       \/ Refused(d) /\ UNCHANGED promised
    /\ UNCHANGED <<banned, server>>

\* ProfileSyncStore.retrieve: a row found in the table is kept in memory.
Retrieve(d) ==
    /\ memory' = [memory EXCEPT ![d] = Found(d)]
    /\ UNCHANGED <<rows, told, failed, server>>

\* Mutant of Revoke: the table is left to the next upload.
Revoke_MemoryOnly(d) ==
    /\ Found(d) # None
    /\ memory' = [memory EXCEPT ![d] = Revoked(memory[d])]
    /\ promised' = [promised EXCEPT ![d] = Revoked(promised[d])]
    /\ out' = out \cup {d} /\ banned' = banned \cup {d}
    /\ UNCHANGED <<rows, failed, server>>

\* ProfileSyncStore.revoke; a device without a row is answered 404.
Revoke(d) ==
    /\ Found(d) # None
    /\ memory' = [memory EXCEPT ![d] = Revoked(memory[d])]
    /\ \/ /\ Written(d, Revoked(rows[d]))
          /\ promised' = [promised EXCEPT ![d] = Revoked(promised[d])]
          /\ out' = out \cup {d} /\ banned' = banned \cup {d}
       \/ Refused(d) /\ UNCHANGED told
    /\ UNCHANGED server

\* Mutant of Delete: the cached row stays in memory.
Delete_TableOnly(d) ==
    /\ Found(d) # None
    /\ Written(d, None)
    /\ promised' = [promised EXCEPT ![d] = None]
    /\ out' = out \cup {d}
    /\ UNCHANGED <<memory, banned, server>>

\* ProfileSyncStore.delete
Delete(d) ==
    /\ Found(d) # None
    /\ memory' = [memory EXCEPT ![d] = None]
    /\ \/ Written(d, None) /\ promised' = [promised EXCEPT ![d] = None] /\ out' = out \cup {d}
       \/ Refused(d) /\ UNCHANGED <<promised, out>>
    /\ UNCHANGED <<banned, server>>

\* Without a database every row is lost.
Restart ==
    /\ restarts < MaxRestarts /\ restarts' = restarts + 1
    /\ memory' = [d \in Devices |-> None]
    /\ promised' = IF database THEN promised ELSE memory'
    /\ failed' = {}
    /\ UNCHANGED <<rows, out, banned, database>>

Call == \E d \in Devices : (\E a \in Archives : Store(d, a)) \/ Retrieve(d) \/ Revoke(d) \/ Delete(d)

Next == Call \/ Restart

Spec == Init /\ [][Next]_vars

-----------------------------------------------------------------------------
(* Properties                                                              *)

\* Type invariant of every variable.
TypeOK ==
    /\ memory \in [Devices -> Rows \cup {None}] /\ rows \in [Devices -> Rows \cup {None}]
    /\ promised \in [Devices -> Rows \cup {None}]
    /\ out \subseteq Devices /\ banned \subseteq Devices /\ failed \subseteq Devices
    /\ database \in BOOLEAN
    /\ restarts \in 0..MaxRestarts

\* What a download of d answers.
Download(d) == Serves(Found(d))

\* list_profile: the table if there is one, else the memory.
Listed == {d \in Devices : Serves(IF database THEN rows[d] ELSE memory[d]) # None}

\* An archive that was revoked or deleted is not served again, whatever fails and
\* however often the server restarts, until its device sends an upload.
OutStaysOut == \A d \in out : Download(d) = None

\* Once the server no longer has d in memory, failed calls have left no trace: a
\* download answers what the accepted calls amount to.
RestartTellsTruth == \A d \in Devices : memory[d] = None => Download(d) = Serves(promised[d])

\* As long as no statement about d has raised, a download of d answers what the accepted
\* calls amount to, and the list has d exactly if there is something to download.
ListMatchesDownload ==
    \A d \in Devices \ failed :
        /\ Download(d) = Serves(promised[d])
        /\ d \in Listed <=> Download(d) # None

\* "Revoke a device's access to future downloads for this profile" (revoke_device).
RevokedIsRefused == \A d \in banned : Download(d) = None
=============================================================================
