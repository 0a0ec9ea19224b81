--------------------------- MODULE BrowserIdentity ---------------------------
(***************************************************************************)
(* The version that a profile announces.  Its user agent and hints were    *)
(* stored when it was made, maybe elsewhere; the engine is upgraded from   *)
(* time to time; a process keeps the version that it read first and the    *)
(* metadata that it probed (config.py, browser_manager.py).  The reference *)
(* is the comparison of all surfaces in browser_version.py.                *)
(* (How launches share a probe is in EngineProbe.)                         *)
(***************************************************************************)
EXTENDS Integers, FiniteSets

CONSTANT EngineVersions  \* full versions: 1482 is major 148, build 2

ASSUME IdentityAssumption == EngineVersions \subseteq Nat \ {0}

Major(v) == v \div 10
Grease == 99  \* the version of the brand that is no browser
Unread == 0

VARIABLES
    engine,    \* version of the installed browser
    version,   \* _cached_chromium_version, or Unread
    metadata,  \* _probed_metadata_cache, for a browser with a window or not
    stored,    \* what the profile has of its identity
    config,    \* the configuration that was built last, or NoConfig
    upgraded   \* history: the engine has changed in the life of the process

identityVars == <<engine, version, metadata, stored, config, upgraded>>

NotProbed == [brands |-> {}, full |-> Unread, list |-> {}]
NoMetadata == [h \in BOOLEAN |-> NotProbed]
NoConfig == [agent |-> Unread, engine |-> Unread]

\* A generator may take the agent of a headless browser for one of its own.
Identity(v, headless) == [agent |-> v, headless |-> headless, full |-> v]

IdentityInit ==
    /\ engine \in EngineVersions
    /\ version = Unread
    /\ metadata = NoMetadata
    /\ stored \in {Identity(v, h) : v \in EngineVersions, h \in BOOLEAN}
    /\ config = NoConfig
    /\ upgraded = FALSE

----------------------------------------------------------------------------
(* The metadata                                                            *)

Brand(name, v) == [brand |-> name, version |-> v]

\* What Chromium says of itself; an old one leaves out the full versions.
Native(v, headless, lists) ==
    LET names == {"Chromium"} \cup (IF headless THEN {"HeadlessChrome"} ELSE {})
        Shown(shown) == {Brand(n, shown) : n \in names} \cup {Brand("grease", Grease)}
    IN  [brands |-> Shown(Major(v)),
         full |-> IF lists THEN v ELSE Unread,
         list |-> IF lists THEN Shown(v) ELSE {}]

\* Done where the answer is cached, and again where it is used.
Decontaminated(list) ==
    {Brand(IF b.brand = "HeadlessChrome" THEN "Google Chrome" ELSE b.brand, b.version) : b \in list}

Probed(headless, lists) ==
    LET native == Native(engine, headless, lists)
    IN  [native EXCEPT !.brands = Decontaminated(@), !.list = Decontaminated(@)]

----------------------------------------------------------------------------
(* build_browser_launch_config                                             *)

Reconciled_Older(agent, v) == IF Major(agent) > Major(v) THEN v ELSE agent

\* The stored user agent keeps its build while the major is that of the engine.
Reconciled(agent, v) == IF Major(agent) # Major(v) THEN v ELSE agent

\* The engine's answer, else what the profile stored.
FullVersion(native) == IF native.full # Unread THEN native.full ELSE stored.full

FullVersionList(native) ==
    IF native.list # {} THEN Decontaminated(native.list)
    ELSE {Brand(b.brand, IF b.brand = "grease" THEN Grease ELSE FullVersion(native)) :
             b \in Decontaminated(native.brands)}

\* The layers that change what a page sees: the full script, whatever was
\* chosen before it, and the two others, since nothing sets `surfaces_full`.
Layers == {"full script", "stealth", "anti-detect"}

BuildsConfig(headless, lists, forced) ==
    LET v == IF version = Unread THEN engine ELSE version
        native == IF metadata[headless] = NotProbed THEN Probed(headless, lists)
                  ELSE metadata[headless]
        agent == Reconciled(stored.agent, v)
    IN
    /\ version' = v
    /\ metadata' = [metadata EXCEPT ![headless] = native]
    /\ stored' = [stored EXCEPT !.agent = agent]
    /\ config' = [agent |-> agent, headless |-> stored.headless,
                  brands |-> Decontaminated(native.brands),
                  full |-> FullVersion(native), list |-> FullVersionList(native),
                  engine |-> engine, native |-> native.full # Unread,
                  coherent |-> Major(agent) = Major(v) /\ ~forced, layers |-> Layers]
    /\ UNCHANGED <<engine, upgraded>>

\* A profile is created here, or comes from another machine.
ProfileComes(v, headless) ==
    /\ stored' = Identity(v, headless)
    /\ config' = NoConfig
    /\ UNCHANGED <<engine, version, metadata, upgraded>>

EngineUpgraded ==
    /\ engine' \in EngineVersions \ {engine}
    /\ upgraded' = TRUE
    /\ UNCHANGED <<version, metadata, stored, config>>

\* What was cached is gone; the agent that a launch wrote may be lost, too, if
\* nothing has saved the profile.
ProcessRestarts ==
    /\ version' = Unread /\ metadata' = NoMetadata
    /\ config' = NoConfig /\ upgraded' = FALSE
    /\ stored' \in {stored, [stored EXCEPT !.agent = stored.full]}
    /\ UNCHANGED engine

IdentityNext ==
    \/ \E headless, lists, forced \in BOOLEAN : BuildsConfig(headless, lists, forced)
    \/ \E v \in EngineVersions, headless \in BOOLEAN : ProfileComes(v, headless)
    \/ EngineUpgraded \/ ProcessRestarts

IdentitySpec == IdentityInit /\ [][IdentityNext]_identityVars

----------------------------------------------------------------------------
(* The reference: BrowserVersion.validate_coherence                        *)

Issues(c) ==
    {i \in {"agent", "headers", "full list", "headless", "brands", "full version"} :
        \/ i = "agent" /\ Major(c.agent) # Major(c.engine)
        \/ i = "headers" /\ \A b \in c.brands : b.version # Major(c.engine)
        \/ i = "full list" /\ \A b \in c.list : b.version # c.engine
        \/ i = "headless" /\ (c.headless \/ \E b \in c.brands \cup c.list : b.brand = "HeadlessChrome")
        \/ i = "brands" /\ \A b \in c.brands : b.brand \notin {"Chromium", "Google Chrome"}
        \/ i = "full version" /\ c.full # c.engine}

(* Whatever version the profile was made with, on which machine, and       *)
(* whichever launches, upgrades and restarts came between, what a launch   *)
(* announces is coherent with the browser that it starts ("version-        *)
(* mismatch leaks", browser_manager.py:1046).  Left out: an engine that    *)
(* was upgraded under the running process, one that does not say its full  *)
(* version (the stored one is taken, and may be old), and an agent that    *)
(* was stored as headless.                                                 *)
IdentityIsCoherent ==
    (config # NoConfig /\ ~upgraded /\ (config.native \/ stored.full = engine)) =>
        Issues(config) \subseteq (IF stored.headless THEN {"headless"} ELSE {})

(* Not so in the code: with an agent of the engine's own major "real       *)
(* launches use a minimal script" (browser_manager.py:1964).               *)
RealSurfacesAreLeft ==
    (config # NoConfig /\ config.coherent) => "full script" \notin config.layers
=============================================================================
