------------------------ MODULE LaunchSequence_proofs ------------------------
(* For any number of launches, proxies and engines: no profile with a      *)
(* proxy gets a browser without one, and launches share one probe.         *)
EXTENDS LaunchSequence, TLAPS

-----------------------------------------------------------------------------
(* Types.  The pool, the probe and the calls are separate states.          *)

LEMMA PathHasItsForm == \A mute \in BOOLEAN : LaunchPath(mute) \in Sources \cup {None}
<1> SUFFICES ASSUME NEW mute \in BOOLEAN PROVE FirstUsable(mute) \in Sources \cup {None}
  BY DEF LaunchPath
<1> DEFINE hits == {i \in 1..5 : Usable(Order[i], mute)}
<1>1. CASE hits = {} BY <1>1 DEF FirstUsable
<1>2. CASE hits # {}
  <2>1. \A i \in hits : i \in {1, 2, 3, 4, 5} OBVIOUS
  <2> HIDE DEF hits
  <2>2. \E i \in hits : \A j \in hits : i <= j
    <3>1. CASE 1 \in hits BY <2>1, <3>1
    <3>2. CASE 1 \notin hits /\ 2 \in hits BY <2>1, <3>2
    <3>3. CASE 1 \notin hits /\ 2 \notin hits /\ 3 \in hits BY <2>1, <3>3
    <3>4. CASE 1 \notin hits /\ 2 \notin hits /\ 3 \notin hits /\ 4 \in hits BY <2>1, <3>4
    <3>5. CASE 1 \notin hits /\ 2 \notin hits /\ 3 \notin hits /\ 4 \notin hits BY <1>2, <2>1, <3>5
    <3> QED BY <3>1, <3>2, <3>3, <3>4, <3>5
  <2> DEFINE k == CHOOSE i \in hits : \A j \in hits : i <= j
  <2>3. k \in hits BY <2>2
  <2>4. k \in 1..5 BY <2>1, <2>3
  <2>5. FirstUsable(mute) = Order[k] BY <1>2 DEF FirstUsable, hits
  <2> HIDE DEF k
  <2> QED BY <2>4, <2>5 DEF Sources
<1> QED BY <1>1, <1>2

\* What the pool does, within launches and beside them.
LEMMA PoolTypes ==
    ASSUME PoolTypeOK,
           \/ PoolNext
           \/ UNCHANGED poolVars
           \/ \E p \in Proxies : MarkFailure(p) /\ UNCHANGED cooling
           \/ \E p \in Proxies : Report(p) /\ UNCHANGED row
           \/ \E w \in Proxy, silent \in SUBSET Active, p \in Proxy :
                 HealthyProxy(w, silent, p) /\ UNCHANGED row
    PROVE  PoolTypeOK'
<1>1. Cooldown \in 0..Cooldown BY PoolAssumption
<1>2. \A r \in Row : Failed(r) \in Row /\ [r EXCEPT !.status = "alive"] \in Row
  BY PoolAssumption DEF Row, Failed, Raised
<1>3. \A p \in Proxies : MarkFailure(p) => row' \in [Proxies -> Row]
  BY <1>2 DEF PoolTypeOK, MarkFailure
<1>4. \A P \in SUBSET Proxies : Upsert(P) => row' \in [Proxies -> Row]
  BY <1>2 DEF PoolTypeOK, Upsert
<1>5. CASE PoolNext
  <2>1. CASE Tick BY <2>1, PoolAssumption DEF Tick, PoolTypeOK
  <2>2. CASE AddProxies BY <1>4, <2>2 DEF AddProxies, PoolTypeOK
  <2>3. CASE ScrapeSaves BY <1>4, <2>3 DEF ScrapeSaves, PoolTypeOK
  <2>4. CASE TestFails BY <1>3, <2>4 DEF TestFails, PoolTypeOK
  <2> QED BY <1>5, <2>1, <2>2, <2>3, <2>4 DEF PoolNext
<1>6. CASE UNCHANGED poolVars BY <1>6 DEF poolVars, PoolTypeOK
<1>7. CASE \E p \in Proxies : MarkFailure(p) /\ UNCHANGED cooling
  BY <1>3, <1>7 DEF PoolTypeOK
<1>8. CASE \E p \in Proxies : Report(p) /\ UNCHANGED row
  BY <1>1, <1>8 DEF PoolTypeOK, Report
<1>9. CASE \E w \in Proxy, silent \in SUBSET Active, p \in Proxy :
              HealthyProxy(w, silent, p) /\ UNCHANGED row
  BY <1>1, <1>9 DEF PoolTypeOK, HealthyProxy
<1> QED BY <1>5, <1>6, <1>7, <1>8, <1>9

\* What launches do to the probe, and the engine that changes.
LEMMA ProbeTypes ==
    ASSUME ProbeTypeOK,
           \/ UNCHANGED probeVars
           \/ EngineChanges
           \/ \E k \in Keys : ProbeStarts(k) /\ disturbed' \in BOOLEAN
           \/ \E k \in Keys, answered \in BOOLEAN :
                 probing[k] > 0 /\ ProbeResolves(k, answered)
           \/ /\ UNCHANGED <<engine, known, future, probing>>
              /\ version' \in Version /\ disturbed' \in BOOLEAN
           \/ \E k \in Keys :
                 FutureCancelled(k) /\ UNCHANGED <<engine, version, known, probing, disturbed>>
    PROVE  ProbeTypeOK'
<1>1. CASE UNCHANGED probeVars BY <1>1 DEF probeVars, ProbeTypeOK
<1>2. CASE EngineChanges BY <1>2, ProbeAssumption DEF EngineChanges, ProbeTypeOK
<1>3. CASE \E k \in Keys : ProbeStarts(k) /\ disturbed' \in BOOLEAN
  BY <1>3 DEF ProbeStarts, ProbeTypeOK
<1>4. CASE \E k \in Keys, answered \in BOOLEAN :
              probing[k] > 0 /\ ProbeResolves(k, answered)
  BY <1>4 DEF ProbeResolves, ProbeTypeOK, Keys, Executable
<1>5. CASE /\ UNCHANGED <<engine, known, future, probing>>
           /\ version' \in Version /\ disturbed' \in BOOLEAN
  BY <1>5 DEF ProbeTypeOK, Version
<1>6. CASE \E k \in Keys :
              FutureCancelled(k) /\ UNCHANGED <<engine, version, known, probing, disturbed>>
  BY <1>6 DEF FutureCancelled, ProbeTypeOK
<1> QED BY <1>1, <1>2, <1>3, <1>4, <1>5, <1>6

-----------------------------------------------------------------------------
(* The proxy of a launch.  The fallback is chosen before the lock, the     *)
(* assignment made behind it: the invariant is what the queue keeps.       *)

\* What a queued launch will be assigned is what was checked.
Chosen(t) == IF launch[t].forced # NoProxy THEN launch[t].forced ELSE Configured[t]

QueuedIsChecked == \A t \in Tasks : At(t, "queued") => launch[t].passed = Chosen(t)

Assigned == {"resolving", "probing", "starting", "setup", "running"}

AssignedIsChecked ==
    \A t \in Tasks : launch[t].pc \in Assigned =>
       /\ launch[t].assigned = NoProxy => Configured[t] = NoProxy
       /\ launch[t].passed = launch[t].assigned

ProxyInv == TypeOK /\ QueuedIsChecked /\ AssignedIsChecked

\* A call that ended, and one that has moved on with the proxy it had.
Keeps(t, c) ==
    \/ c.pc \in Ended
    \/ /\ c.pc \in Assigned /\ launch[t].pc \in Assigned
       /\ c.assigned = launch[t].assigned /\ c.passed = launch[t].passed

LEMMA NewCallHasEnded == NewCall \in Call /\ NewCall.pc = "ended"
BY DEF NewCall, Call, Ended, Awaiting, Proxy, Version

\* A step in which calls end, or move on with what they have.
LEMMA KeptCalls ==
    ASSUME ProxyInv, PoolTypeOK', ProbeTypeOK', launch' \in [Tasks -> Call],
           \A t \in Tasks : launch'[t] = launch[t] \/ Keeps(t, launch'[t])
    PROVE  ProxyInv'
<1>1. QueuedIsChecked'
  BY DEF ProxyInv, QueuedIsChecked, Chosen, At, Keeps, Ended, Assigned
<1>2. AssignedIsChecked'
  BY DEF ProxyInv, AssignedIsChecked, Keeps, Ended, Assigned
<1> QED BY <1>1, <1>2 DEF ProxyInv, TypeOK

\* The same for one call that takes a new value.
LEMMA KeptCall ==
    ASSUME ProxyInv, PoolTypeOK', ProbeTypeOK', NEW t \in Tasks, NEW c \in Call,
           launch' = [launch EXCEPT ![t] = c], Keeps(t, c)
    PROVE  ProxyInv'
<1>1. /\ launch' \in [Tasks -> Call]
      /\ \A u \in Tasks : launch'[u] = IF u = t THEN c ELSE launch[u]
  BY DEF ProxyInv, TypeOK
<1> QED BY <1>1, KeptCalls

LEMMA EndsKeeps ==
    ASSUME ProxyInv, PoolTypeOK', ProbeTypeOK', NEW t \in Tasks, Ends(t)
    PROVE  ProxyInv'
BY NewCallHasEnded, KeptCall DEF Ends, Keeps, Ended

\* A launch that goes to the lock takes what was checked with it.
LEMMA QueuesChecked ==
    ASSUME ProxyInv, PoolTypeOK', ProbeTypeOK', NEW t \in Tasks, NEW c \in Call,
           launch' = [launch EXCEPT ![t] = c], c.pc = "queued",
           c.passed = IF c.forced # NoProxy THEN c.forced ELSE Configured[t]
    PROVE  ProxyInv'
<1>1. /\ launch' \in [Tasks -> Call]
      /\ \A u \in Tasks : launch'[u] = IF u = t THEN c ELSE launch[u]
  BY DEF ProxyInv, TypeOK
<1>2. QueuedIsChecked' BY <1>1 DEF ProxyInv, QueuedIsChecked, Chosen, At
<1>3. AssignedIsChecked' BY <1>1 DEF ProxyInv, AssignedIsChecked, Assigned
<1> QED BY <1>1, <1>2, <1>3 DEF ProxyInv, TypeOK

LEMMA FallbackIsChecked ==
    ASSUME ProxyInv, PoolTypeOK', ProbeTypeOK', NEW t \in Tasks,
           Admitted(t) \/ FallsBack(t)
    PROVE  ProxyInv'
<1>1. CASE Admitted(t)
  <2> DEFINE c == [NewCall EXCEPT !.pc = "queued", !.passed = Configured[t]]
  <2>1. Configured[t] \in Proxy BY ConfiguredAssumption DEF Proxy
  <2>2. c \in Call /\ c.pc = "queued" /\ c.forced = NoProxy /\ c.passed = Configured[t]
    BY <2>1 DEF NewCall, Call, Awaiting, Proxy, Version
  <2>3. launch' = [launch EXCEPT ![t] = c] BY <1>1 DEF Admitted
  <2> HIDE DEF c
  <2> QED BY <2>2, <2>3, QueuesChecked
<1>2. CASE FallsBack(t)
  <2>1. PICK p \in Proxy :
          launch' = [launch EXCEPT ![t] =
             [NewCall EXCEPT !.pc = IF p = NoProxy THEN "ended" ELSE "queued",
                             !.forced = p, !.passed = p]]
    BY <1>2 DEF FallsBack, Active, Proxy
  <2> DEFINE c == [NewCall EXCEPT !.pc = IF p = NoProxy THEN "ended" ELSE "queued",
                                  !.forced = p, !.passed = p]
  <2>2. c \in Call /\ c.forced = p /\ c.passed = p
        /\ c.pc = IF p = NoProxy THEN "ended" ELSE "queued"
    BY DEF NewCall, Call, Awaiting, Ended, Proxy, Version
  <2>3. launch' = [launch EXCEPT ![t] = c] BY <2>1
  <2> HIDE DEF c
  <2>4. CASE p = NoProxy BY <2>2, <2>3, <2>4, KeptCall DEF Keeps, Ended
  <2>5. CASE p # NoProxy BY <2>2, <2>3, <2>5, QueuesChecked
  <2> QED BY <2>4, <2>5
<1> QED BY <1>1, <1>2

\* Behind the lock: the assignment is what was checked before it.
LEMMA AcceptedIsChecked ==
    ASSUME ProxyInv, PoolTypeOK', ProbeTypeOK', NEW t \in Tasks, ProxyAccepted(t)
    PROVE  ProxyInv'
<1> DEFINE p == Chosen(t)
<1>1. At(t, "queued") /\ launch[t].passed = p /\ launch[t] \in Call
  BY DEF ProxyAccepted, ProxyInv, QueuedIsChecked, TypeOK
<1>2. p \in Proxy /\ (p = NoProxy => Configured[t] = NoProxy)
  BY <1>1, ConfiguredAssumption DEF Chosen, Call, Proxy
<1>3. PICK said \in Version : \E mute \in BOOLEAN :
         /\ VersionCached(mute, said)
         /\ launch' = [launch EXCEPT ![t] =
               IF version' = None THEN NewCall
               ELSE [launch[t] EXCEPT !.pc = "resolving", !.assigned = p, !.claimed = version']]
  BY DEF ProxyAccepted, Chosen
<1>4. CASE version' = None
  BY <1>3, <1>4, EndsKeeps DEF Ends
<1>5. CASE version' # None
  <2> DEFINE c == [launch[t] EXCEPT !.pc = "resolving", !.assigned = p, !.claimed = version']
  <2>1. launch' = [launch EXCEPT ![t] = c] BY <1>3, <1>5
  <2>2. c.pc = "resolving" /\ c.assigned = p /\ c.passed = p
    BY <1>1 DEF Call
  <2>6. version' \in Version BY DEF ProbeTypeOK, Version
  <2>7. c \in Call BY <1>1, <1>2, <2>6 DEF Call, Awaiting
  <2> HIDE DEF c, p
  <2>3. \A u \in Tasks : launch'[u] = IF u = t THEN c ELSE launch[u]
    BY <2>1 DEF ProxyInv, TypeOK
  <2>4. QueuedIsChecked' BY <2>2, <2>3 DEF ProxyInv, QueuedIsChecked, Chosen, At
  <2>5. AssignedIsChecked' BY <1>2, <2>2, <2>3 DEF ProxyInv, AssignedIsChecked, Assigned
  <2> QED BY <2>1, <2>4, <2>5, <2>7 DEF ProxyInv, TypeOK
<1> QED BY <1>4, <1>5

\* The stages of a launch, as far as the other states are concerned.
LEMMA StagesKeepTypes ==
    ASSUME TypeOK, NEW t \in Tasks,
           \/ Blocked(t) \/ Admitted(t) \/ FallsBack(t) \/ Stage(t)
           \/ HealthFails(t) \/ Closes(t) \/ Cancel(t)
    PROVE  PoolTypeOK' /\ ProbeTypeOK'
<1>1. PoolTypeOK /\ ProbeTypeOK /\ launch[t] \in Call BY DEF TypeOK
<1>2. Configured[t] \in Proxy BY ConfiguredAssumption DEF Proxy
<1>3. \A mute \in BOOLEAN : (disturbed \/ Unanswered(mute)) \in BOOLEAN OBVIOUS
<1>4. CASE Blocked(t) \/ Admitted(t) \/ Registers(t) \/ Closes(t)
  BY <1>1, <1>4, PoolTypes, ProbeTypes DEF Blocked, Admitted, Registers, Closes
<1>5. CASE FallsBack(t)
  <2>1. /\ \E silent \in SUBSET Active, p \in Proxy : HealthyProxy(Configured[t], silent, p)
        /\ UNCHANGED <<row, probeVars>>
    BY <1>5 DEF FallsBack, Active, Proxy
  <2> QED BY <1>1, <1>2, <2>1, PoolTypes, ProbeTypes
<1>6. CASE ProxyAccepted(t)
  <2>1. PICK mute \in BOOLEAN, said \in Version : VersionCached(mute, said)
    BY <1>6 DEF ProxyAccepted
  <2>2. version' \in Version /\ disturbed' \in BOOLEAN
    BY <1>1, <2>1 DEF VersionCached, ProbeTypeOK, Version
  <2>3. UNCHANGED poolVars /\ UNCHANGED <<engine, known, future, probing>>
    BY <1>6 DEF ProxyAccepted
  <2> QED BY <1>1, <2>2, <2>3, PoolTypes, ProbeTypes
<1>7. CASE ProxyFails(t)
  <2>1. /\ Configured[t] \in Proxies /\ MarkFailure(Configured[t])
        /\ UNCHANGED <<cooling, probeVars>>
    BY <1>2, <1>7 DEF ProxyFails, Proxy
  <2> QED BY <1>1, <2>1, PoolTypes, ProbeTypes
<1>8. CASE HealthFails(t)
  <2>1. /\ launch[t].assigned \in Proxies /\ MarkFailure(launch[t].assigned)
        /\ UNCHANGED <<cooling, probeVars>>
    BY <1>1, <1>8 DEF HealthFails, Call, Proxy
  <2> QED BY <1>1, <2>1, PoolTypes, ProbeTypes
<1>9. CASE Aborts(t)
  <2>1. /\ UNCHANGED <<row, probeVars>>
        /\ UNCHANGED cooling \/ \E p \in Proxies : Report(p)
    BY <1>1, <1>9 DEF Aborts, Call, Proxy
  <2> QED BY <1>1, <2>1, PoolTypes, ProbeTypes DEF poolVars
<1>10. CASE NoEngine(t) \/ BrowserStarts(t)
  <2>1. /\ UNCHANGED <<poolVars, engine, version, known, future, probing>>
        /\ disturbed' \in BOOLEAN
    BY <1>10 DEF NoEngine, BrowserStarts
  <2>2. version' \in Version BY <1>1, <2>1 DEF ProbeTypeOK, Version
  <2> QED BY <1>1, <2>1, <2>2, PoolTypes, ProbeTypes
<1>11. CASE Probes(t)
  <2>1. PICK mute \in BOOLEAN :
           /\ disturbed' = (disturbed \/ Unanswered(mute))
           /\ \/ UNCHANGED <<engine, version, known, future, probing>>
              \/ \E k \in Keys : ProbeStarts(k)
    BY <1>11 DEF Probes
  <2>3. UNCHANGED poolVars BY <1>11 DEF Probes
  <2>4. disturbed' \in BOOLEAN BY <2>1
  <2>5. version \in Version BY <1>1 DEF ProbeTypeOK, Version
  <2> QED BY <1>1, <2>1, <2>3, <2>4, <2>5, PoolTypes, ProbeTypes
<1>12. CASE Cancel(t)
  <2>1. /\ UNCHANGED <<poolVars, engine, version, known, probing, disturbed>>
        /\ IF At(t, "probing") THEN FutureCancelled(launch[t].key) ELSE UNCHANGED future
    BY <1>12 DEF Cancel
  <2>2. CASE ~At(t, "probing")
    BY <1>1, <2>1, <2>2, PoolTypes, ProbeTypes DEF probeVars
  <2>3. CASE At(t, "probing") /\ launch[t].key \in Keys
    BY <1>1, <2>1, <2>3, PoolTypes, ProbeTypes
  <2>4. CASE At(t, "probing") /\ launch[t].key \notin Keys
    BY <1>1, <2>1, <2>4, PoolTypes DEF FutureCancelled, ProbeTypeOK
  <2> QED BY <2>2, <2>3, <2>4
<1> QED BY <1>4, <1>5, <1>6, <1>7, <1>8, <1>9, <1>10, <1>11, <1>12 DEF Stage

\* The later stages keep the assignment or end the call.
LEMMA StagesKeepProxy ==
    ASSUME ProxyInv, PoolTypeOK', ProbeTypeOK', NEW t \in Tasks,
           \/ Probes(t) \/ BrowserStarts(t) \/ Registers(t)
    PROVE  ProxyInv'
<1> DEFINE q == launch[t]
<1>1. q \in Call BY DEF ProxyInv, TypeOK
<1>2. ASSUME NEW c \in Call, launch' = [launch EXCEPT ![t] = c],
             q.pc \in Assigned, c.pc \in Assigned,
             c.assigned = q.assigned, c.passed = q.passed
      PROVE  ProxyInv'
  BY <1>2, KeptCall DEF Keeps
<1>3. CASE Registers(t)
  <2> DEFINE c == [q EXCEPT !.pc = "running"]
  <2>1. c \in Call /\ c.pc = "running" /\ c.assigned = q.assigned /\ c.passed = q.passed
    BY <1>1 DEF Call
  <2>2. launch' = [launch EXCEPT ![t] = c] /\ q.pc = "setup"
    BY <1>3 DEF Registers, Goes, At, ProxyInv, TypeOK
  <2> HIDE DEF c
  <2> QED BY <1>2, <2>1, <2>2 DEF Assigned
<1>4. CASE BrowserStarts(t)
  <2>1. PICK mute \in BOOLEAN :
           /\ LaunchPath(mute) # None
           /\ launch' = [launch EXCEPT ![t].pc = "setup", ![t].runs = engine[LaunchPath(mute)]]
    BY <1>4 DEF BrowserStarts
  <2> DEFINE v == engine[LaunchPath(mute)]
             c == [q EXCEPT !.pc = "setup", !.runs = v]
  <2>2. v \in Version
    BY <2>1, PathHasItsForm DEF ProxyInv, TypeOK, ProbeTypeOK, Version
  <2>3. c \in Call /\ c.pc = "setup" /\ c.assigned = q.assigned /\ c.passed = q.passed
    BY <1>1, <2>2 DEF Call, Awaiting
  <2>4. launch' = [launch EXCEPT ![t] = c] /\ q.pc = "starting"
    BY <1>4, <2>1 DEF BrowserStarts, At, ProxyInv, TypeOK
  <2> HIDE DEF c
  <2> QED BY <1>2, <2>3, <2>4 DEF Assigned
<1>5. CASE Probes(t)
  <2>1. PICK k \in Keys :
           \/ launch' = [launch EXCEPT ![t].pc = "starting", ![t].key = k,
                                       ![t].native = known[k]]
           \/ launch' = [launch EXCEPT ![t] =
                  IF future[k] = "cancelled" THEN [NewCall EXCEPT !.pc = "cancelled"]
                  ELSE [launch[t] EXCEPT !.pc = "probing", !.key = k]]
    BY <1>5 DEF Probes
  <2> DEFINE c == [q EXCEPT !.pc = "starting", !.key = k, !.native = known[k]]
             d == [q EXCEPT !.pc = "probing", !.key = k]
             e == [NewCall EXCEPT !.pc = "cancelled"]
  <2>2. known[k] \in Version
    BY DEF ProxyInv, TypeOK, ProbeTypeOK, Version
  <2>3. q.pc = "resolving" BY <1>5 DEF Probes, At
  <2>4. c \in Call /\ c.pc = "starting" /\ c.assigned = q.assigned /\ c.passed = q.passed
    BY <1>1, <2>2 DEF Call, Awaiting
  <2>5. d \in Call /\ d.pc = "probing" /\ d.assigned = q.assigned /\ d.passed = q.passed
    BY <1>1, <2>2 DEF Call, Awaiting
  <2>6. e \in Call /\ e.pc = "cancelled"
    BY NewCallHasEnded DEF Call, Ended, NewCall
  <2>7. \/ launch' = [launch EXCEPT ![t] = c]
        \/ launch' = [launch EXCEPT ![t] = d]
        \/ launch' = [launch EXCEPT ![t] = e]
    BY <2>1 DEF ProxyInv, TypeOK
  <2> HIDE DEF c, d, e
  <2>8. CASE launch' = [launch EXCEPT ![t] = c] BY <1>2, <2>3, <2>4, <2>8 DEF Assigned
  <2>9. CASE launch' = [launch EXCEPT ![t] = d] BY <1>2, <2>3, <2>5, <2>9 DEF Assigned
  <2>10. CASE launch' = [launch EXCEPT ![t] = e] BY <2>6, <2>10, KeptCall DEF Keeps, Ended
  <2> QED BY <2>7, <2>8, <2>9, <2>10
<1> QED BY <1>3, <1>4, <1>5

\* Steps that touch several calls: they end, or go on with the answer.
LEMMA SharedStepsKeepProxy ==
    ASSUME ProxyInv, PoolTypeOK', ProbeTypeOK',
           (\E k \in Keys : ProbeEnds(k)) \/ (\E t \in Tasks : Cancel(t))
    PROVE  ProxyInv'
<1>1. CASE \E k \in Keys : ProbeEnds(k)
  <2>1. PICK k \in Keys, answered \in BOOLEAN :
           launch' = [t \in Tasks |->
                IF t \notin Waiting(k) THEN launch[t]
                ELSE IF answered
                     THEN [launch[t] EXCEPT !.pc = "starting", !.native = engine[Executable(k)]]
                     ELSE NewCall]
    BY <1>1 DEF ProbeEnds
  <2>2. engine[Executable(k)] \in Version
    BY DEF ProxyInv, TypeOK, ProbeTypeOK, Version, Keys, Executable
  <2>3. ASSUME NEW t \in Tasks
        PROVE  launch'[t] \in Call /\ (launch'[t] = launch[t] \/ Keeps(t, launch'[t]))
    <3>1. launch[t] \in Call BY DEF ProxyInv, TypeOK
    <3>2. CASE t \notin Waiting(k) BY <2>1, <3>1, <3>2
    <3>3. CASE t \in Waiting(k) /\ ~answered
      BY <2>1, <3>3, NewCallHasEnded DEF Keeps, Ended
    <3>4. CASE t \in Waiting(k) /\ answered
      <4> DEFINE c == [launch[t] EXCEPT !.pc = "starting", !.native = engine[Executable(k)]]
      <4>1. launch'[t] = c BY <2>1, <3>4
      <4>2. /\ c \in Call /\ c.pc = "starting"
            /\ c.assigned = launch[t].assigned /\ c.passed = launch[t].passed
        BY <2>2, <3>1 DEF Call, Awaiting
      <4>3. launch[t].pc = "probing" BY <3>4 DEF Waiting, At
      <4> HIDE DEF c
      <4> QED BY <4>1, <4>2, <4>3 DEF Keeps, Assigned
    <3> QED BY <3>2, <3>3, <3>4
  <2>4. launch' \in [Tasks -> Call] BY <2>1, <2>3
  <2> QED BY <2>3, <2>4, KeptCalls
<1>2. CASE \E t \in Tasks : Cancel(t)
  <2>1. PICK t \in Tasks : \E hit \in {Waiting(launch[t].key), {t}} :
           launch' = [u \in Tasks |->
               IF u \in hit THEN [NewCall EXCEPT !.pc = "cancelled", !.asked = (u = t)]
               ELSE launch[u]]
    BY <1>2 DEF Cancel
  <2> PICK hit \in {Waiting(launch[t].key), {t}} :
           launch' = [u \in Tasks |->
               IF u \in hit THEN [NewCall EXCEPT !.pc = "cancelled", !.asked = (u = t)]
               ELSE launch[u]]
    BY <2>1
  <2>2. ASSUME NEW u \in Tasks
        PROVE  launch'[u] \in Call /\ (launch'[u] = launch[u] \/ Keeps(u, launch'[u]))
    <3>1. launch[u] \in Call BY DEF ProxyInv, TypeOK
    <3> DEFINE asked == u = t
               c == [NewCall EXCEPT !.pc = "cancelled", !.asked = asked]
    <3>2. asked \in BOOLEAN OBVIOUS
    <3>3. launch'[u] = c \/ launch'[u] = launch[u] OBVIOUS
    <3> HIDE DEF asked
    <3>4. c \in Call /\ c.pc = "cancelled"
      BY <3>2, NewCallHasEnded DEF Call, Ended, NewCall
    <3> HIDE DEF c
    <3> QED BY <3>1, <3>3, <3>4 DEF Keeps, Ended
  <2>3. launch' \in [Tasks -> Call] BY <2>1, <2>2
  <2> QED BY <2>2, <2>3, KeptCalls
<1> QED BY <1>1, <1>2

-----------------------------------------------------------------------------
\* Nothing has been launched.
LEMMA ProxyInvInit == Init => ProxyInv
<1> SUFFICES ASSUME Init PROVE ProxyInv OBVIOUS
<1>1. PoolTypeOK BY PoolAssumption DEF Init, PoolInit, PoolTypeOK, Row
<1>2. ProbeTypeOK BY ProbeAssumption DEF Init, ProbeInit, ProbeTypeOK
<1>3. launch \in [Tasks -> Call] /\ \A t \in Tasks : launch[t] = NewCall
  BY NewCallHasEnded DEF Init
<1>4. QueuedIsChecked /\ AssignedIsChecked
  BY <1>3, NewCallHasEnded DEF QueuedIsChecked, AssignedIsChecked, At, Assigned
<1> QED BY <1>1, <1>2, <1>3, <1>4 DEF ProxyInv, TypeOK

LEMMA ProxyInvNext == ProxyInv /\ [Next]_vars => ProxyInv'
<1> SUFFICES ASSUME ProxyInv, [Next]_vars PROVE ProxyInv' OBVIOUS
<1>1. ASSUME NEW t \in Tasks,
             \/ Blocked(t) \/ Admitted(t) \/ FallsBack(t) \/ Stage(t)
             \/ HealthFails(t) \/ Closes(t) \/ Cancel(t)
      PROVE  ProxyInv'
  <2>1. PoolTypeOK' /\ ProbeTypeOK'
    BY <1>1, StagesKeepTypes DEF ProxyInv
  <2>2. CASE Ends(t) BY <2>1, <2>2, EndsKeeps
  <2>3. CASE Admitted(t) \/ FallsBack(t) BY <2>1, <2>3, FallbackIsChecked
  <2>4. CASE ProxyAccepted(t) BY <2>1, <2>4, AcceptedIsChecked
  <2>5. CASE Probes(t) \/ BrowserStarts(t) \/ Registers(t) BY <2>1, <2>5, StagesKeepProxy
  <2>6. CASE Cancel(t) BY <2>1, <2>6, SharedStepsKeepProxy
  <2> QED BY <1>1, <2>2, <2>3, <2>4, <2>5, <2>6
          DEF Stage, Blocked, ProxyFails, NoEngine, Aborts, HealthFails, Closes
<1>2. ASSUME NEW k \in Keys, ProbeEnds(k) PROVE ProxyInv'
  <2>1. PoolTypeOK' /\ ProbeTypeOK'
    BY <1>2, PoolTypes, ProbeTypes DEF ProbeEnds, ProxyInv, TypeOK
  <2> QED BY <1>2, <2>1, SharedStepsKeepProxy
<1>3. CASE \/ PoolNext /\ UNCHANGED <<probeVars, launch>>
           \/ EngineChanges /\ UNCHANGED <<poolVars, launch>>
           \/ UNCHANGED vars
  <2>1. PoolTypeOK' /\ ProbeTypeOK' /\ launch' = launch
    BY <1>3, PoolTypes, ProbeTypes DEF ProxyInv, TypeOK, vars
  <2> QED BY <2>1, KeptCalls DEF ProxyInv, TypeOK
<1> QED BY <1>1, <1>2, <1>3 DEF Next

(* Every reachable state of launches, pool and probe is well-typed.        *)
THEOREM LaunchTypeCorrect == Spec => []TypeOK
<1>1. ProxyInv => TypeOK BY DEF ProxyInv
<1> QED BY <1>1, ProxyInvInit, ProxyInvNext, PTL DEF Spec

(* No profile that has a proxy gets a browser without one, nor with one    *)
(* that no check of this launch has passed: get_healthy_proxy and          *)
(* build_browser_launch_config, before and behind the profile's lock.      *)
THEOREM NeverLaunchedDirect == Spec => []NeverDirect
<1>1. ProxyInv => NeverDirect
  BY DEF ProxyInv, AssignedIsChecked, NeverDirect, Assigned, Browsing
<1> QED BY <1>1, ProxyInvInit, ProxyInvNext, PTL DEF Spec

-----------------------------------------------------------------------------
(* The probe.  A future stays in the table for as long as its probe runs,  *)
(* cancelled or not: that is what keeps a second probe from starting, and  *)
(* the future of those who wait from being another one's.                  *)

ProbeHasFuture == \A k \in Keys : probing[k] > 0 <=> future[k] # "none"

WaitersHaveKey == \A t \in Tasks : At(t, "probing") => launch[t].key \in Keys

ProbeGood == ProbeHasFuture /\ OneProbe /\ WaitersHaveKey /\ WaitersAreServed

ProbeInv == TypeOK /\ ProbeGood

\* A step that leaves the probes alone and after which nobody new waits.
LEMMA NobodyWaits ==
    ASSUME ProbeInv, UNCHANGED <<future, probing>>,
           \A t \in Tasks : launch'[t] = launch[t] \/ launch'[t].pc # "probing"
    PROVE  ProbeGood'
BY DEF ProbeInv, ProbeGood, ProbeHasFuture, OneProbe, WaitersHaveKey, WaitersAreServed, At

\* One call goes where it does not wait for a probe.
LEMMA OneMovesOn ==
    ASSUME ProbeInv, UNCHANGED <<future, probing>>, NEW t \in Tasks,
           \/ Blocked(t) \/ Admitted(t) \/ FallsBack(t) \/ ProxyAccepted(t) \/ ProxyFails(t)
           \/ NoEngine(t) \/ BrowserStarts(t) \/ Aborts(t) \/ Registers(t)
           \/ HealthFails(t) \/ Closes(t)
    PROVE  ProbeGood'
<1>1. launch \in [Tasks -> Call] BY DEF ProbeInv, TypeOK
<1>2. NewCall \in Call /\ NewCall.pc = "ended" BY NewCallHasEnded
<1>3. CASE Ends(t) BY <1>1, <1>2, <1>3, NobodyWaits DEF Ends
<1>4. CASE Admitted(t) \/ FallsBack(t)
  <2>1. \A u \in Tasks : u # t => launch'[u] = launch[u]
    BY <1>1, <1>4 DEF Admitted, FallsBack
  <2>2. CASE Admitted(t)
    <3>1. launch'[t] = [NewCall EXCEPT !.pc = "queued", !.passed = Configured[t]]
      BY <1>1, <2>2 DEF Admitted
    <3>2. launch'[t].pc = "queued" BY <3>1 DEF NewCall
    <3> QED BY <2>1, <2>2, <3>2, NobodyWaits
  <2>3. CASE FallsBack(t)
    <3>1. PICK p \in Proxy :
            launch' = [launch EXCEPT ![t] =
               [NewCall EXCEPT !.pc = IF p = NoProxy THEN "ended" ELSE "queued",
                               !.forced = p, !.passed = p]]
      BY <2>3 DEF FallsBack, Active, Proxy
    <3>2. launch'[t].pc \in {"ended", "queued"} BY <1>1, <3>1 DEF NewCall
    <3> QED BY <2>1, <2>3, <3>2, NobodyWaits
  <2> QED BY <1>4, <2>2, <2>3
<1>5. CASE ProxyAccepted(t) \/ BrowserStarts(t) \/ Registers(t)
  <2>1. \A u \in Tasks : u # t => launch'[u] = launch[u]
    BY <1>1, <1>5 DEF ProxyAccepted, BrowserStarts, Registers, Goes
  <2>2. launch'[t].pc # "probing"
    BY <1>1, <1>2, <1>5 DEF ProxyAccepted, BrowserStarts, Registers, Goes, Call
  <2> QED BY <2>1, <2>2, NobodyWaits
<1> QED BY <1>3, <1>4, <1>5 DEF Blocked, ProxyFails, NoEngine, Aborts, HealthFails, Closes

\* A launch reads the cache, joins the probe of its key or starts one.
LEMMA ProbesStep ==
    ASSUME ProbeInv, NEW t \in Tasks, Probes(t)
    PROVE  ProbeGood'
<1>1. /\ probing \in [Keys -> Nat] /\ future \in [Keys -> {"none", "pending", "cancelled"}]
      /\ launch \in [Tasks -> Call]
  BY DEF ProbeInv, TypeOK, ProbeTypeOK
<1>2. PICK k \in Keys :
         \/ /\ launch' = [launch EXCEPT ![t].pc = "starting", ![t].key = k, ![t].native = known[k]]
            /\ UNCHANGED <<future, probing>>
         \/ /\ launch' = [launch EXCEPT ![t] =
                   IF future[k] = "cancelled" THEN [NewCall EXCEPT !.pc = "cancelled"]
                   ELSE [@ EXCEPT !.pc = "probing", !.key = k]]
            /\ IF future[k] = "none" THEN ProbeStarts(k) ELSE UNCHANGED <<future, probing>>
  BY DEF Probes
<1>3. \A u \in Tasks : u # t => launch'[u] = launch[u] BY <1>1, <1>2
<1>4. launch[t] \in Call BY <1>1
<1>5. CASE launch' = [launch EXCEPT ![t].pc = "starting", ![t].key = k, ![t].native = known[k]]
           /\ UNCHANGED <<future, probing>>
  <2>1. launch'[t].pc = "starting" BY <1>1, <1>4, <1>5 DEF Call
  <2> QED BY <1>3, <1>5, <2>1, NobodyWaits
<1>6. CASE future[k] = "cancelled" /\ launch' = [launch EXCEPT ![t] = [NewCall EXCEPT !.pc = "cancelled"]]
           /\ UNCHANGED <<future, probing>>
  <2>1. launch'[t].pc = "cancelled" BY <1>1, <1>6 DEF NewCall
  <2> QED BY <1>3, <1>6, <2>1, NobodyWaits
<1>7. CASE /\ future[k] # "cancelled"
           /\ launch' = [launch EXCEPT ![t] = [@ EXCEPT !.pc = "probing", !.key = k]]
           /\ IF future[k] = "none" THEN ProbeStarts(k) ELSE UNCHANGED <<future, probing>>
  <2>1. launch'[t].pc = "probing" /\ launch'[t].key = k BY <1>1, <1>4, <1>7 DEF Call
  <2>2. CASE future[k] = "none"
    <3>1. probing[k] = 0 BY <1>1, <2>2 DEF ProbeInv, ProbeGood, ProbeHasFuture
    <3>2. /\ \A x \in Keys : future'[x] = IF x = k THEN "pending" ELSE future[x]
          /\ \A x \in Keys : probing'[x] = IF x = k THEN 1 ELSE probing[x]
      BY <1>1, <1>7, <2>2, <3>1 DEF ProbeStarts
    <3>3. ProbeHasFuture' /\ OneProbe'
      BY <3>2 DEF ProbeInv, ProbeGood, ProbeHasFuture, OneProbe
    <3>4. WaitersHaveKey' /\ WaitersAreServed'
      BY <1>3, <2>1, <3>2 DEF ProbeInv, ProbeGood, WaitersHaveKey, WaitersAreServed, At
    <3> QED BY <3>3, <3>4 DEF ProbeGood
  <2>3. CASE future[k] = "pending"
    <3>1. UNCHANGED <<future, probing>> BY <1>7, <2>3
    <3>2. probing[k] > 0 BY <2>3 DEF ProbeInv, ProbeGood, ProbeHasFuture
    <3> QED BY <1>3, <2>1, <2>3, <3>1, <3>2
            DEF ProbeInv, ProbeGood, ProbeHasFuture, OneProbe, WaitersHaveKey, WaitersAreServed, At
  <2> QED BY <1>1, <1>7, <2>2, <2>3
<1> QED BY <1>1, <1>2, <1>5, <1>6, <1>7

\* The probe ends: all who wait for its key go on or give up.
LEMMA ProbeEndsStep ==
    ASSUME ProbeInv, NEW k \in Keys, ProbeEnds(k)
    PROVE  ProbeGood'
<1>1. /\ probing \in [Keys -> Nat] /\ future \in [Keys -> {"none", "pending", "cancelled"}]
      /\ launch \in [Tasks -> Call]
  BY DEF ProbeInv, TypeOK, ProbeTypeOK
<1>2. probing[k] = 1
  <2>1. probing[k] \in Nat BY <1>1
  <2>2. probing[k] > 0 BY DEF ProbeEnds
  <2>3. probing[k] <= 1 BY DEF ProbeInv, ProbeGood, OneProbe
  <2> QED BY <2>1, <2>2, <2>3
<1>3. PICK answered \in BOOLEAN :
         /\ ProbeResolves(k, answered)
         /\ launch' = [t \in Tasks |->
                IF t \notin Waiting(k) THEN launch[t]
                ELSE IF answered
                     THEN [launch[t] EXCEPT !.pc = "starting", !.native = engine[Executable(k)]]
                     ELSE NewCall]
  BY DEF ProbeEnds
<1>4. /\ \A x \in Keys : future'[x] = IF x = k THEN "none" ELSE future[x]
      /\ \A x \in Keys : probing'[x] = IF x = k THEN 0 ELSE probing[x]
  <2>1. /\ future' = [future EXCEPT ![k] = "none"]
        /\ probing' = [probing EXCEPT ![k] = probing[k] - 1]
    BY <1>3 DEF ProbeResolves
  <2>2. probing[k] - 1 = 0 BY <1>2
  <2> QED BY <1>1, <2>1, <2>2
<1>5. \A t \in Tasks : \/ t \notin Waiting(k) /\ launch'[t] = launch[t]
                       \/ launch'[t].pc # "probing"
  BY <1>1, <1>3, NewCallHasEnded DEF Call
<1>6. ProbeHasFuture' /\ OneProbe'
  BY <1>4 DEF ProbeInv, ProbeGood, ProbeHasFuture, OneProbe
<1>7. WaitersHaveKey' /\ WaitersAreServed'
  BY <1>4, <1>5 DEF ProbeInv, ProbeGood, WaitersHaveKey, WaitersAreServed, Waiting, At
<1> QED BY <1>6, <1>7 DEF ProbeGood

\* A cancelled waiter takes its future and everybody who awaits it along.
LEMMA CancelStep ==
    ASSUME ProbeInv, NEW t \in Tasks, Cancel(t)
    PROVE  ProbeGood'
<1>1. /\ probing \in [Keys -> Nat] /\ future \in [Keys -> {"none", "pending", "cancelled"}]
      /\ launch \in [Tasks -> Call]
  BY DEF ProbeInv, TypeOK, ProbeTypeOK
<1> DEFINE hit == IF At(t, "probing") THEN Waiting(launch[t].key) ELSE {t}
<1>2. \A u \in Tasks : IF u \in hit THEN launch'[u].pc = "cancelled" ELSE launch'[u] = launch[u]
  BY DEF Cancel, NewCall
<1>3. CASE ~At(t, "probing")
  BY <1>2, <1>3, NobodyWaits DEF Cancel
<1>4. CASE At(t, "probing")
  <2> DEFINE k == launch[t].key
  <2>1. k \in Keys /\ probing[k] > 0
    BY <1>4 DEF ProbeInv, ProbeGood, WaitersHaveKey, WaitersAreServed
  <2>2. /\ \A x \in Keys : future'[x] = IF x = k THEN "cancelled" ELSE future[x]
        /\ probing' = probing
    BY <1>1, <1>4, <2>1 DEF Cancel, FutureCancelled
  <2>3. ProbeHasFuture' /\ OneProbe'
    BY <2>1, <2>2 DEF ProbeInv, ProbeGood, ProbeHasFuture, OneProbe
  <2>4. \A u \in Tasks : At(u, "probing")' => At(u, "probing") /\ launch'[u] = launch[u] /\ launch[u].key # k
    BY <1>2, <1>4 DEF Waiting, At
  <2>5. WaitersHaveKey' /\ WaitersAreServed'
    BY <2>2, <2>4 DEF ProbeInv, ProbeGood, WaitersHaveKey, WaitersAreServed, At
  <2> QED BY <2>3, <2>5 DEF ProbeGood
<1> QED BY <1>3, <1>4

LEMMA ProbeInvNext == ProbeInv /\ TypeOK' /\ [Next]_vars => ProbeInv'
<1> SUFFICES ASSUME ProbeInv, TypeOK', [Next]_vars PROVE ProbeGood'
  BY DEF ProbeInv
<1>1. ASSUME NEW t \in Tasks,
             \/ Blocked(t) \/ Admitted(t) \/ FallsBack(t) \/ ProxyAccepted(t) \/ ProxyFails(t)
             \/ NoEngine(t) \/ BrowserStarts(t) \/ Aborts(t) \/ Registers(t)
             \/ HealthFails(t) \/ Closes(t)
      PROVE  ProbeGood'
  <2>1. UNCHANGED <<future, probing>>
    BY <1>1 DEF Blocked, Admitted, FallsBack, ProxyAccepted, ProxyFails, NoEngine, BrowserStarts,
       Aborts, Registers, HealthFails, Closes, probeVars
  <2> QED BY <1>1, <2>1, OneMovesOn
<1>2. ASSUME NEW t \in Tasks, Probes(t) \/ Cancel(t) PROVE ProbeGood'
  BY <1>2, ProbesStep, CancelStep
<1>3. ASSUME NEW k \in Keys, ProbeEnds(k) PROVE ProbeGood'
  BY <1>3, ProbeEndsStep
<1>4. CASE \/ PoolNext /\ UNCHANGED <<probeVars, launch>>
           \/ EngineChanges /\ UNCHANGED <<poolVars, launch>>
           \/ UNCHANGED vars
  <2>1. UNCHANGED <<future, probing, launch>>
    BY <1>4 DEF vars, probeVars, EngineChanges
  <2> QED BY <2>1, NobodyWaits
<1> QED BY <1>1, <1>2, <1>3, <1>4 DEF Next, Stage

LEMMA ProbeInvariant == Spec => []ProbeInv
<1>1. Init => ProbeInv
  BY ProxyInvInit DEF Init, ProxyInv, ProbeInit, ProbeInv, ProbeGood, ProbeHasFuture, OneProbe,
     WaitersHaveKey, WaitersAreServed, At, NewCall
<1> QED BY <1>1, ProbeInvNext, LaunchTypeCorrect, PTL DEF Spec

(* However launches come, end and are cancelled, no second browser is      *)
(* started to probe an executable that is being probed in the same mode,   *)
(* headless or headed (_probe_native_metadata_impl).                       *)
THEOREM ProbesAreShared == Spec => []OneProbe
<1>1. ProbeInv => OneProbe BY DEF ProbeInv, ProbeGood
<1> QED BY <1>1, ProbeInvariant, PTL

(* Whoever awaits a probe awaits one that runs and whose answer it gets:   *)
(* no launch is left with a future that nobody answers.                    *)
THEOREM NobodyWaitsInVain == Spec => []WaitersAreServed
<1>1. ProbeInv => WaitersAreServed BY DEF ProbeInv, ProbeGood
<1> QED BY <1>1, ProbeInvariant, PTL
=============================================================================
