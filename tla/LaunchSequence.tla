--------------------------- MODULE LaunchSequence ---------------------------
(***************************************************************************)
(* The stages of _do_launch_profile for launches of different profiles,    *)
(* which share the proxy pool, the engine and its metadata probe.  (What   *)
(* two launches of one profile do to each other, and what a launch that    *)
(* is cut off leaves behind, is in ProfileLifecycle.)                      *)
(***************************************************************************)
EXTENDS ProxyPool, EngineProbe

CONSTANT Configured  \* Configured[t]: the proxy of the profile of t, or NoProxy

ASSUME ConfiguredAssumption == Configured \in [Tasks -> Proxies \cup {NoProxy}]

VARIABLE launch  \* launch[t]: one call of launch_profile
vars == <<poolVars, probeVars, launch>>

Ended == {"ended", "cancelled"}  \* no call, or one that has returned
Awaiting == {"queued", "resolving", "probing", "starting", "setup"}
Browsing == {"setup", "running"}

Proxy == Proxies \cup {NoProxy}
Version == Versions \cup {None}

Call == [pc       : {"running"} \cup Awaiting \cup Ended,
         forced   : Proxy,    \* the fallback that was chosen before the lock
         assigned : Proxy,    \* config["assigned_proxy"]
         passed   : Proxy,    \* history: whose check passed last, in this call
         key      : Keys \cup {None}, \* the metadata that it asks for
         claimed  : Version,  \* the version that the user agent names
         native   : Version,  \* the version that the client hints were read from
         runs     : Version,  \* the version of the browser process
         asked    : BOOLEAN]  \* history: somebody cancelled this call

TypeOK == PoolTypeOK /\ ProbeTypeOK /\ launch \in [Tasks -> Call]

NewCall == [pc |-> "ended", forced |-> NoProxy, assigned |-> NoProxy, passed |-> NoProxy,
            key |-> None, claimed |-> None, native |-> None, runs |-> None,
            asked |-> FALSE]

Init == PoolInit /\ ProbeInit /\ launch = [t \in Tasks |-> NewCall]

At(t, place) == launch[t].pc = place
Idle(t) == launch[t].pc \in Ended
Goes(t, place) == launch' = [launch EXCEPT ![t].pc = place]
Ends(t) == launch' = [launch EXCEPT ![t] = NewCall]

----------------------------------------------------------------------------
(* Before the lock                                                         *)

\* Blocked by the PIN, the directory, the provenance, the scanner, the
\* coherence check or a proxy that does not parse: nothing is touched.  (A
\* blocked call after one that ended is a stutter.)
Blocked(t) ==
    /\ At(t, "cancelled")
    /\ Ends(t)
    /\ UNCHANGED <<poolVars, probeVars>>

\* No proxy, or one that accepts a TCP connection: on to the lock.
Admitted(t) ==
    /\ Idle(t)
    /\ launch' = [launch EXCEPT ![t] = [NewCall EXCEPT !.pc = "queued",
                                                      !.passed = Configured[t]]]
    /\ UNCHANGED <<poolVars, probeVars>>

FallsBack_Direct(t) ==
    /\ Idle(t)
    /\ Configured[t] # NoProxy
    /\ \E silent \in SUBSET Active, p \in Active \cup {NoProxy} :
          /\ HealthyProxy(Configured[t], silent, p)
          /\ launch' = [launch EXCEPT ![t] =
                [NewCall EXCEPT !.pc = "queued", !.forced = p, !.passed = p]]
    /\ UNCHANGED <<row, probeVars>>

\* The proxy is silent: one of the pool takes its place, or the launch ends.
FallsBack(t) ==
    /\ Idle(t)
    /\ Configured[t] # NoProxy
    /\ \E silent \in SUBSET Active, p \in Active \cup {NoProxy} :
          /\ HealthyProxy(Configured[t], silent, p)
          /\ launch' = [launch EXCEPT ![t] =
                [NewCall EXCEPT !.pc = IF p = NoProxy THEN "ended" ELSE "queued",
                                !.forced = p, !.passed = p]]
    /\ UNCHANGED <<row, probeVars>>

----------------------------------------------------------------------------
(* build_browser_launch_config                                             *)

\* A forced fallback is taken on trust of its TCP check; the proxy of the
\* profile answers over HTTPS.  Then the version is read, from the cache or not.
ProxyAccepted(t) ==
    /\ At(t, "queued")
    /\ LET p == IF launch[t].forced # NoProxy THEN launch[t].forced ELSE Configured[t]
       IN  \E mute \in BOOLEAN, said \in Version :
             /\ VersionCached(mute, said)
             /\ launch' = [launch EXCEPT ![t] =
                   IF version' = None THEN NewCall
                   ELSE [@ EXCEPT !.pc = "resolving", !.assigned = p,
                                  !.claimed = version']]
    /\ UNCHANGED <<poolVars, engine, known, future, probing>>

\* It does not: the failure is counted and the launch aborts.  There is no
\* config yet, so that no cooldown starts.
ProxyFails(t) ==
    /\ At(t, "queued")
    /\ launch[t].forced = NoProxy /\ Configured[t] # NoProxy
    /\ MarkFailure(Configured[t])
    /\ Ends(t)
    /\ UNCHANGED <<cooling, probeVars>>

\* _probe_native_metadata_impl: from the cache, from a probe under way, or from
\* a new one.  A future that was cancelled cancels whoever comes to await it.
Probes(t) ==
    /\ At(t, "resolving")
    /\ \E mute, headless \in BOOLEAN :
          LET k == <<headless, LaunchPath(mute)>> IN
          /\ k \in Keys
          /\ disturbed' = (disturbed \/ Unanswered(mute))
          /\ \/ /\ known[k] # None
                /\ launch' = [launch EXCEPT ![t].pc = "starting", ![t].key = k,
                                            ![t].native = known[k]]
                /\ UNCHANGED <<engine, version, known, future, probing>>
             \/ /\ known[k] = None
                /\ launch' = [launch EXCEPT ![t] =
                      IF future[k] = "cancelled" THEN [NewCall EXCEPT !.pc = "cancelled"]
                      ELSE [@ EXCEPT !.pc = "probing", !.key = k]]
                /\ IF future[k] = "none"
                   THEN ProbeStarts(k)
                   ELSE UNCHANGED <<engine, version, known, future, probing>>
    /\ UNCHANGED poolVars

NoEngine(t) ==
    /\ At(t, "resolving")
    /\ \E mute \in BOOLEAN :
          /\ LaunchPath(mute) = None
          /\ disturbed' = (disturbed \/ Unanswered(mute))
    /\ Ends(t)
    /\ UNCHANGED <<poolVars, engine, version, known, future, probing>>

Waiting(k) == {t \in Tasks : At(t, "probing") /\ launch[t].key = k}

ProbeEnds_Silent(k) ==
    /\ probing[k] > 0
    /\ \E answered \in BOOLEAN :
          /\ answered => engine[Executable(k)] # None
          /\ ProbeResolves(k, answered)
          /\ launch' = [t \in Tasks |->
                IF answered /\ t \in Waiting(k)
                THEN [launch[t] EXCEPT !.pc = "starting", !.native = engine[Executable(k)]]
                ELSE launch[t]]
    /\ UNCHANGED poolVars

\* The probe ends; those who wait go on with its answer, or with its exception.
ProbeEnds(k) ==
    /\ probing[k] > 0
    /\ \E answered \in BOOLEAN :
          /\ answered => engine[Executable(k)] # None
          /\ ProbeResolves(k, answered)
          /\ launch' = [t \in Tasks |->
                IF t \notin Waiting(k) THEN launch[t]
                ELSE IF answered
                     THEN [launch[t] EXCEPT !.pc = "starting", !.native = engine[Executable(k)]]
                     ELSE NewCall]
    /\ UNCHANGED poolVars

----------------------------------------------------------------------------
(* The browser                                                             *)

\* launch_persistent_context: the executable is looked for once more.
BrowserStarts(t) ==
    /\ At(t, "starting")
    /\ \E mute \in BOOLEAN :
          /\ LaunchPath(mute) # None
          /\ disturbed' = (disturbed \/ Unanswered(mute))
          /\ launch' = [launch EXCEPT ![t].pc = "setup",
                                      ![t].runs = engine[LaunchPath(mute)]]
    /\ UNCHANGED <<poolVars, engine, version, known, future, probing>>

\* Any exception once there is a config: the proxy is blamed and cools down.
Aborts(t) ==
    /\ launch[t].pc \in {"starting", "setup"}
    /\ IF launch[t].assigned # NoProxy THEN Report(launch[t].assigned) ELSE UNCHANGED cooling
    /\ Ends(t)
    /\ UNCHANGED <<row, probeVars>>

\* The CDP sessions are set up and the browser is registered.
Registers(t) ==
    /\ At(t, "setup")
    /\ Goes(t, "running")
    /\ UNCHANGED <<poolVars, probeVars>>

\* _proxy_health_loop: a failed check is counted and closes the profile.
HealthFails(t) ==
    /\ At(t, "running")
    /\ launch[t].assigned # NoProxy
    /\ MarkFailure(launch[t].assigned)
    /\ Ends(t)
    /\ UNCHANGED <<cooling, probeVars>>

Closes(t) ==
    /\ At(t, "running")
    /\ Ends(t)
    /\ UNCHANGED <<poolVars, probeVars>>

\* The task of a launch is cancelled (stop_warming).  A task that awaits a
\* probe cancels the future, and with it everybody else who awaits it.
Cancel(t) ==
    /\ launch[t].pc \in Awaiting
    /\ LET hit == IF At(t, "probing") THEN Waiting(launch[t].key) ELSE {t}
       IN  launch' = [u \in Tasks |->
                 IF u \in hit THEN [NewCall EXCEPT !.pc = "cancelled", !.asked = u = t]
                 ELSE launch[u]]
    /\ IF At(t, "probing") THEN FutureCancelled(launch[t].key) ELSE UNCHANGED future
    /\ UNCHANGED <<poolVars, engine, version, known, probing, disturbed>>

Stage(t) ==
    \/ ProxyAccepted(t) \/ ProxyFails(t) \/ Probes(t) \/ NoEngine(t)
    \/ BrowserStarts(t) \/ Aborts(t) \/ Registers(t)

Next ==
    \/ \E t \in Tasks :
          \/ Blocked(t) \/ Admitted(t) \/ FallsBack(t) \/ Stage(t)
          \/ HealthFails(t) \/ Closes(t) \/ Cancel(t)
    \/ \E k \in Keys : ProbeEnds(k)
    \/ PoolNext /\ UNCHANGED <<probeVars, launch>>
    \/ EngineChanges /\ UNCHANGED <<poolVars, launch>>

Spec == Init /\ [][Next]_vars

----------------------------------------------------------------------------
(* A profile with a proxy never gets a browser without one, and the proxy  *)
(* of a browser has answered a check made for this launch, though checks,  *)
(* fallback and start are apart and the pool changes in between            *)
(* (browser_manager.py:942, "never silently fall back").                   *)
NeverDirect ==
    \A t \in Tasks : launch[t].pc \in Browsing =>
       /\ launch[t].assigned = NoProxy => Configured[t] = NoProxy
       /\ launch[t].passed = launch[t].assigned

(* A launch that awaits a probe awaits one that runs and that will answer  *)
(* it, whoever started it: also when the starter or another waiter was     *)
(* cancelled, the probe before it failed, or its answer came too late.  So *)
(* a launch can only hang for as long as a call of the driver does.        *)
WaitersAreServed ==
    \A t \in Tasks : At(t, "probing") =>
       probing[launch[t].key] > 0 /\ future[launch[t].key] = "pending"

----------------------------------------------------------------------------
(* Not so in the code, see the README.                                     *)

(* Every launch ends.  No stage of it is timed from end to end: the driver *)
(* is started, asked for its executable and told to set up the pages       *)
(* without a timeout (browser_manager.py:2170, 2541-2574, 3718-3746), and  *)
(* so is the browser that is probed (348-379).                             *)
LaunchesEnd ==
    \A t \in Tasks : (launch[t].pc \in Awaiting) ~> (launch[t].pc \notin Awaiting)

(* A launch ends by cancellation only if it was cancelled itself           *)
(* (safe_launch_profile: "always return a status/message dict").           *)
OnlyAskedCancelled ==
    \A t \in Tasks : At(t, "cancelled") => launch[t].asked

(* No browser is started through a proxy that cools down (USAGE.md:        *)
(* unhealthy proxies "are not used for new launches until they recover").  *)
CoolingIsNotUsed ==
    [][\A t \in Tasks : BrowserStarts(t) /\ launch[t].assigned # NoProxy
                           => cooling[launch[t].assigned] = 0]_vars
=============================================================================
