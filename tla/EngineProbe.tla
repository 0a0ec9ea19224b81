---------------------------- MODULE EngineProbe ----------------------------
(***************************************************************************)
(* Which Chromium is launched and what is said of it: the two resolvers of *)
(* engine_resolver.py, the version that config.py caches for the life of   *)
(* the process, and the metadata probe of browser_manager.py, which tasks  *)
(* share: one future per key, awaited by whoever needs the answer.         *)
(***************************************************************************)
EXTENDS Integers, FiniteSets

CONSTANTS Versions,  \* versions of Chromium
          Assumed,   \* the version taken for one that cannot be read
          None,      \* nothing installed, nothing cached
          Tasks,     \* launches, each of a profile of its own
          Installed, \* the version that each source offers at first, or None
          Changing   \* bound: the sources that an upgrade or a removal may touch

\* Where an executable may come from, in the order of the search.
Order == <<"env", "bundled", "driver", "artifact", "system">>
Sources == {Order[i] : i \in 1..5}

\* cache_key: whether the browser is headless, and its executable.  (The version
\* that completes it is the cached one, which never changes once it is there.)
Keys == BOOLEAN \X Sources
Executable(k) == k[2]

ASSUME ProbeAssumption ==
    /\ Assumed \in Versions /\ None \notin Versions /\ None \notin Sources
    /\ Installed \in [Sources -> Versions \cup {None}]
    /\ Changing \subseteq Sources

VARIABLES
    engine,    \* engine[s]: version of the executable that s points to
    version,   \* _cached_chromium_version
    known,     \* known[k]: _probed_metadata_cache, the version that was probed
    future,    \* future[k]: probe_futures, "none", "pending" or "cancelled"
    probing,   \* probing[k]: tasks run_and_resolve that have a browser open
    disturbed  \* history: an engine changed, the driver did not answer a
               \* query, or a version was taken wrongly

probeVars == <<engine, version, known, future, probing, disturbed>>

ProbeTypeOK ==
    /\ engine \in [Sources -> Versions \cup {None}]
    /\ version \in Versions \cup {None}
    /\ known \in [Keys -> Versions \cup {None}]
    /\ future \in [Keys -> {"none", "pending", "cancelled"}]
    /\ probing \in [Keys -> Nat]
    /\ disturbed \in BOOLEAN

ProbeInit ==
    /\ engine = Installed
    /\ version = None
    /\ known = [k \in Keys |-> None]
    /\ future = [k \in Keys |-> "none"]
    /\ probing = [k \in Keys |-> 0]
    /\ disturbed = FALSE

----------------------------------------------------------------------------
(* Resolution.  `mute` says that the driver raises when it is asked.        *)

Usable(s, mute) == engine[s] # None /\ ~(s = "driver" /\ mute)

FirstUsable(mute) ==
    LET hits == {i \in 1..5 : Usable(Order[i], mute)}
    IN  IF hits = {} THEN None
        ELSE Order[CHOOSE i \in hits : \A j \in hits : i <= j]

\* get_engine_identity, called by config.py when nothing is cached.
IdentityPath(mute) == FirstUsable(mute)

\* get_chromium_executable_path_async, called by the probe and by the launch.
LaunchPath(mute) == FirstUsable(mute)

Unanswered(mute) == mute /\ engine["driver"] # None

\* What is taken for the version of the executable of s: a default if it
\* cannot be read, and what was written beside it if an artifact names it.
Said(s) == {engine[s], Assumed} \cup (IF s = "artifact" THEN Versions ELSE {})

\* get_installed_chromium_version: the version of the first engine found, kept
\* for ever; it raises (None) when there is no engine.
VersionCached(mute, said) ==
    IF version # None
    THEN UNCHANGED <<version, disturbed>>
    ELSE LET s == IdentityPath(mute) IN
         /\ IF s = None THEN said = None ELSE said \in Said(s)
         /\ version' = said
         /\ disturbed' = (disturbed \/ Unanswered(mute) \/ (s # None /\ said # engine[s]))

\* An engine is upgraded or removed while the process runs (once).
EngineChanges ==
    /\ ~disturbed
    /\ \E s \in Changing, v \in Versions \cup {None} :
          engine[s] \notin {v, None} /\ engine' = [engine EXCEPT ![s] = v]
    /\ disturbed' = TRUE
    /\ UNCHANGED <<version, known, future, probing>>

----------------------------------------------------------------------------
(* The future of a probe.  Sections under probe_lock never await, so that   *)
(* each is one step.                                                        *)

\* The first task that misses the cache makes the future and the probe task.
ProbeStarts(k) ==
    /\ future' = [future EXCEPT ![k] = "pending"]
    /\ probing' = [probing EXCEPT ![k] = @ + 1]
    /\ UNCHANGED <<engine, version, known>>

FutureCancelled_Forgotten(k) == future' = [future EXCEPT ![k] = "none"]

\* A task that awaits the future is cancelled: asyncio cancels what it awaits.
FutureCancelled(k) == future' = [future EXCEPT ![k] = "cancelled"]

\* run_and_resolve ends, with metadata or not: the answer is cached unless the
\* future was cancelled, and the future is forgotten.
ProbeResolves(k, answered) ==
    /\ known' = [known EXCEPT ![k] =
                    IF answered /\ future[k] = "pending" THEN engine[Executable(k)] ELSE @]
    /\ future' = [future EXCEPT ![k] = "none"]
    /\ probing' = [probing EXCEPT ![k] = @ - 1]
    /\ UNCHANGED <<engine, version, disturbed>>

----------------------------------------------------------------------------
(* Launches that need the same metadata share one probe: while a headless  *)
(* (or a headed) browser of an executable is being probed no second one is *)
(* started, although waiting tasks are cancelled and the answer comes      *)
(* after that (_probe_native_metadata_impl).                               *)
OneProbe == \A k \in Keys : probing[k] <= 1
=============================================================================
