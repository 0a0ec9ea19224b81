--------------------------- MODULE ProfileCreation ---------------------------
(***************************************************************************)
(* Creating profiles: create_zero_leak_profile (profile_creator.py) with   *)
(* the race of keys that answers it (ai_generator.py).  Calls come through *)
(* the semaphore of the single, clone and bulk endpoints, or from the JSON *)
(* import, which takes none.  One call asks the keys in batches; the first *)
(* usable answer wins and the rest of its batch is cancelled; without one  *)
(* the local generator answers.                                            *)
(* What is stored on disk on the way is the subject of ProfileStore: here  *)
(* a registration and its clean-up are one step each.  The warming that a  *)
(* successful call may start is a task of its own, of BrowserTasks.        *)
(***************************************************************************)
EXTENDS FingerprintRules

CONSTANTS
    Callers,      \* calls of create_zero_leak_profile
    Slots,        \* _CREATE_SEM
    MaxAttempts,  \* max_attempts
    KeyCount,     \* keys of the service
    RaceSize,     \* ZEN_RACE_SIZE
    ModelCount,   \* models to try, one after another
    Approved,     \* those that a launch takes for approved
    ZenAnswers    \* fingerprints that the service may answer with

ASSUME CreationAssumption ==
    /\ {Slots, MaxAttempts, KeyCount, RaceSize, ModelCount} \subseteq Nat \ {0}
    /\ ZenAnswers \subseteq Fingerprint
    /\ IsFiniteSet(Callers)

Keys == 1..KeyCount
Models == 1..ModelCount

VARIABLES
    gated,     \* gated[c]: the call comes through the semaphore
    pc,        \* pc[c]: where the call is
    attempt,   \* attempt[c]
    model,     \* model[c]: model_name of the loop over the models
    offset,    \* offset[c]: of the loop over the batches
    request,   \* request[c][k]: the task that asks key k
    answer,    \* answer[c]: what the generator has returned, or is about to
    stored,    \* stored[c]: fingerprint of the registered profile, or NoProfile
    finding,   \* history: what the profile was accepted on
    result     \* result[c]: what the call has returned

creationVars == <<gated, pc, attempt, model, offset, request, answer, stored, finding, result>>

NoProfile == [os |-> "none"]

\* A request is nothing, a task that has not run, a post, a usable answer, a
\* failure, or a task that was cancelled.
None == [step |-> "none", model |-> 0]
Requests == [step : {"none", "new", "sent", "good", "bad", "stopping"},
             model : 0..ModelCount]

Answers == [source : {"none", "zen", "local"}, model : 0..ModelCount]
NoAnswer == [source |-> "none", model |-> 0]
LocalAnswer == [source |-> "local", model |-> 0]

Waits == {"arriving", "queued"}
Generates == {"racing", "winning", "timing out"}
Places == Waits \cup Generates \cup
          {"ready", "answered", "validating", "revalidating", "done"}

\* A scan's score, and whether the opinion on it was above the scale asked for.
Findings == [scan : ScanScores, overrated : BOOLEAN]

CreationTypeOK ==
    /\ gated \in [Callers -> BOOLEAN]
    /\ pc \in [Callers -> Places]
    /\ attempt \in [Callers -> 0..MaxAttempts]
    /\ model \in [Callers -> 1..(ModelCount + 1)]
    /\ offset \in [Callers -> Nat]
    /\ request \in [Callers -> [Keys -> Requests]]
    /\ answer \in [Callers -> Answers]
    /\ stored \in [Callers -> Fingerprint \cup {NoProfile}]
    /\ finding \in [Callers -> Findings]
    /\ result \in [Callers -> {"none", "success", "refused", "failed", "timeout", "raised"}]

Quiet == [k \in Keys |-> None]

CreationInit ==
    /\ gated \in [Callers -> BOOLEAN]
    /\ pc = [c \in Callers |-> "arriving"]
    /\ attempt = [c \in Callers |-> 0]
    /\ model = [c \in Callers |-> 1]
    /\ offset = [c \in Callers |-> 0]
    /\ request = [c \in Callers |-> Quiet]
    /\ answer = [c \in Callers |-> NoAnswer]
    /\ stored = [c \in Callers |-> NoProfile]
    /\ finding = [c \in Callers |-> [scan |-> 0, overrated |-> FALSE]]
    /\ result = [c \in Callers |-> "none"]

Holders_KeepAfterTimeout ==
    {c \in Callers : gated[c] /\ pc[c] \notin Waits /\ (pc[c] = "done" => result[c] = "timeout")}

Holders == {c \in Callers : gated[c] /\ pc[c] \notin Waits \cup {"done"}}

raceVars == <<model, offset, request>>
profileVars == <<stored, finding>>

Goes(c, place) == pc' = [pc EXCEPT ![c] = place]
\* The variables of a function are forgotten when it is over.
Ends(c, how) ==
    /\ Goes(c, "done")
    /\ result' = [result EXCEPT ![c] = how]
    /\ attempt' = [attempt EXCEPT ![c] = 0]

RaceIsOver(c) ==
    /\ model' = [model EXCEPT ![c] = 1]
    /\ offset' = [offset EXCEPT ![c] = 0]

----------------------------------------------------------------------------
(* Arrival                                                                 *)

Arrives(c) ==
    /\ pc[c] = "arriving"
    /\ Goes(c, IF gated[c] THEN "queued" ELSE "ready")
    /\ UNCHANGED <<attempt, raceVars, answer, profileVars, result>>

TakesSlot(c) ==
    /\ pc[c] = "queued"
    /\ Cardinality(Holders) < Slots
    /\ Goes(c, "ready")
    /\ UNCHANGED <<attempt, raceVars, answer, profileVars, result>>

\* _validate_inputs and the version of the engine may refuse the call.
Refuses(c) ==
    /\ pc[c] = "ready" /\ attempt[c] = 0
    /\ Ends(c, "refused")
    /\ UNCHANGED <<raceVars, answer, profileVars>>

\* One turn of the loop over the attempts.
TriesAgain(c) ==
    /\ pc[c] = "ready" /\ attempt[c] < MaxAttempts
    /\ attempt' = [attempt EXCEPT ![c] = @ + 1]
    /\ answer' = [answer EXCEPT ![c] = NoAnswer]
    /\ Goes(c, "racing")
    /\ UNCHANGED <<raceVars, profileVars, result>>

GivesUp(c) ==
    /\ pc[c] = "ready" /\ attempt[c] = MaxAttempts
    /\ Ends(c, "failed")
    /\ UNCHANGED <<raceVars, answer, profileVars>>

----------------------------------------------------------------------------
(* The race of keys                                                        *)

Failed == [step |-> "bad", model |-> 0]

Batch(c) == {k \in Keys : offset[c] < k /\ k <= offset[c] + RaceSize}

Sets(c, K, r) ==
    request' = [request EXCEPT ![c] = [k \in Keys |-> IF k \in K THEN r ELSE @[k]]]

\* The tasks of a batch are created together; none has run.
BatchStarts(c) ==
    /\ pc[c] = "racing" /\ model[c] <= ModelCount /\ request[c] = Quiet
    /\ Sets(c, Batch(c), [step |-> "new", model |-> 0])
    /\ UNCHANGED <<pc, attempt, model, offset, answer, profileVars, result>>

Posts(c, k) ==
    /\ request[c][k].step = "new"
    /\ Sets(c, {k}, [step |-> "sent", model |-> 0])
    /\ UNCHANGED <<pc, attempt, model, offset, answer, profileVars, result>>

\* An answer is judged by _finalize_ai_result in the step that receives it.
\* The task reads model_name, a variable of the function that created it, again.
Responds(c, k) ==
    /\ request[c][k].step = "sent"
    /\ \E usable \in {IsUsable(f, report) : f \in ZenAnswers, report \in Reports} :
          Sets(c, {k}, IF usable THEN [step |-> "good", model |-> model[c]] ELSE Failed)
    /\ UNCHANGED <<pc, attempt, model, offset, answer, profileVars, result>>

\* Another status, a timeout of the request or any other exception.
RequestFails(c, k) ==
    /\ request[c][k].step = "sent"
    /\ Sets(c, {k}, Failed)
    /\ UNCHANGED <<pc, attempt, model, offset, answer, profileVars, result>>

Pending(c) == {k \in Keys : request[c][k].step \in {"new", "sent"}}

\* The tasks that are cancelled end later; those that have ended are dropped.
Cancelled(c) ==
    request' = [request EXCEPT ![c] =
        [k \in Keys |-> IF k \in Pending(c) \/ @[k].step = "stopping"
                        THEN [step |-> "stopping", model |-> 0] ELSE None]]

RaceWon_LeavesOthers(c, k) ==
    /\ pc[c] = "racing" /\ request[c][k].step = "good"
    /\ answer' = [answer EXCEPT ![c] = [source |-> "zen", model |-> request[c][k].model]]
    /\ Sets(c, {k}, None)
    /\ Goes(c, "answered")
    /\ RaceIsOver(c)
    /\ UNCHANGED <<attempt, profileVars, result>>

RaceWon(c, k) ==
    /\ pc[c] = "racing" /\ request[c][k].step = "good"
    /\ answer' = [answer EXCEPT ![c] = [source |-> "zen", model |-> request[c][k].model]]
    /\ Cancelled(c)
    /\ Goes(c, "winning")
    /\ UNCHANGED <<attempt, model, offset, profileVars, result>>

\* The whole batch has failed: the next one, or the next model.
RaceLost(c) ==
    /\ pc[c] = "racing" /\ request[c] # Quiet
    /\ \A k \in Keys : request[c][k].step \in {"none", "bad"}
    /\ request' = [request EXCEPT ![c] = Quiet]
    /\ LET last == offset[c] + RaceSize >= KeyCount
       IN  /\ offset' = [offset EXCEPT ![c] = IF last THEN 0 ELSE @ + RaceSize]
           /\ model' = [model EXCEPT ![c] = IF last THEN @ + 1 ELSE @]
    /\ UNCHANGED <<pc, attempt, answer, profileVars, result>>

\* All models have failed: generate_fingerprint_fallback.
AnswersLocally(c) ==
    /\ pc[c] = "racing" /\ model[c] > ModelCount
    /\ answer' = [answer EXCEPT ![c] = LocalAnswer]
    /\ Goes(c, "answered")
    /\ RaceIsOver(c)
    /\ UNCHANGED <<attempt, request, profileVars, result>>

\* A cancelled task ends.
Stops(c, k) ==
    /\ request[c][k].step = "stopping"
    /\ Sets(c, {k}, None)
    /\ UNCHANGED <<pc, attempt, model, offset, answer, profileVars, result>>

RaceReturns(c) ==
    /\ pc[c] = "winning" /\ request[c] = Quiet
    /\ Goes(c, "answered")
    /\ RaceIsOver(c)
    /\ UNCHANGED <<attempt, request, answer, profileVars, result>>

\* wait_for cancels the generator, whose finally clause cancels the batch.
TimesOut(c) ==
    /\ pc[c] \in {"racing", "winning"}
    /\ Cancelled(c)
    /\ answer' = [answer EXCEPT ![c] = NoAnswer]
    /\ Goes(c, "timing out")
    /\ UNCHANGED <<attempt, model, offset, profileVars, result>>

TimeoutEnds(c) ==
    /\ pc[c] = "timing out" /\ request[c] = Quiet
    /\ Ends(c, "timeout")
    /\ RaceIsOver(c)
    /\ UNCHANGED <<request, answer, profileVars>>

----------------------------------------------------------------------------
(* From an answer to a profile                                             *)

ZenFingerprints == {Sanitized(f) : f \in {g \in ZenAnswers : IsUsable(g, "exact")}}
LocalOnes == LocalFingerprints("Windows")
Generated == ZenFingerprints \cup LocalOnes
Coherent == {f \in Generated : IsCoherent(f)}

AnswerOf(c) == IF answer[c].source = "zen" THEN ZenFingerprints ELSE LocalOnes

\* validate_and_finalize: what it may find, and whether it then accepts.
Verdict ==
    [f \in Coherent |->
        UNION {{[found |-> [scan |-> scan, overrated |-> opinion.score > 100],
                 accepts |-> Accepts(f, scan, opinion)] :
                    opinion \in Opinions \cup {NoOpinion(f, scan)}} : scan \in ScanScores}]

\* Another system than the host's ends the call, an incoherent fingerprint the
\* attempt; otherwise the profile is registered, or rolled back if that fails.
Registers(c) ==
    /\ pc[c] = "answered"
    /\ \E f \in AnswerOf(c) :
         \/ f.os # HostOS /\ Ends(c, "failed") /\ UNCHANGED stored
         \/ /\ f.os = HostOS /\ f \notin Coherent
            /\ Goes(c, "ready") /\ UNCHANGED <<attempt, stored, result>>
         \/ /\ f.os = HostOS /\ f \in Coherent
            /\ \/ /\ stored' = [stored EXCEPT ![c] = f]
                  /\ Goes(c, "validating") /\ UNCHANGED <<attempt, result>>
               \/ Ends(c, "failed") /\ UNCHANGED stored
    /\ UNCHANGED <<raceVars, answer, finding>>

\* The first validation accepts, or has the storage scrubbed for a second one,
\* or raises and is rolled back.
Validates(c) ==
    /\ pc[c] = "validating"
    /\ \/ \E v \in Verdict[stored[c]] :
            /\ IF v.accepts
               THEN Ends(c, "success") /\ finding' = [finding EXCEPT ![c] = v.found]
               ELSE Goes(c, "revalidating") /\ UNCHANGED <<attempt, finding, result>>
            /\ UNCHANGED stored
       \/ /\ stored' = [stored EXCEPT ![c] = NoProfile]
          /\ Ends(c, "failed") /\ UNCHANGED finding
    /\ UNCHANGED <<raceVars, answer>>

\* The second one accepts, or the profile is quarantined and deleted and the
\* attempt is over, or its exception leaves the call and the profile.
Revalidates(c) ==
    /\ pc[c] = "revalidating"
    /\ \/ \E v \in Verdict[stored[c]] :
            \/ /\ v.accepts
               /\ finding' = [finding EXCEPT ![c] = v.found]
               /\ Ends(c, "success") /\ UNCHANGED stored
            \/ /\ ~v.accepts
               /\ stored' = [stored EXCEPT ![c] = NoProfile]
               /\ Goes(c, "ready") /\ UNCHANGED <<attempt, finding, result>>
       \/ Ends(c, "raised") /\ UNCHANGED profileVars
    /\ UNCHANGED <<raceVars, answer>>

----------------------------------------------------------------------------
Runs(c) ==
    /\ UNCHANGED gated
    /\ \/ Arrives(c) \/ TakesSlot(c) \/ TriesAgain(c) \/ GivesUp(c)
       \/ BatchStarts(c) \/ RaceLost(c) \/ AnswersLocally(c) \/ RaceReturns(c)
       \/ TimeoutEnds(c) \/ Registers(c)
       \/ \E k \in Keys : Posts(c, k) \/ RaceWon(c, k) \/ Stops(c, k)

ServiceEnds(c, k) == UNCHANGED gated /\ (Responds(c, k) \/ RequestFails(c, k))

CreationNext ==
    \E c \in Callers :
        \/ Runs(c)
        \/ UNCHANGED gated /\ (Refuses(c) \/ TimesOut(c) \/ Validates(c) \/ Revalidates(c))
        \/ \E k \in Keys : ServiceEnds(c, k)

\* The event loop runs every task that can run, and a request ends by its own
\* timeout (timeout_seconds) if not before.  Nothing is assumed of a validation:
\* its opinion is timed, but the scan awaits the pages of a browser, and closes it,
\* without a timeout.
CreationFairness ==
    \A c \in Callers :
        /\ WF_creationVars(Runs(c))
        /\ \A k \in Keys : WF_creationVars(ServiceEnds(c, k))

CreationSpec == CreationInit /\ [][CreationNext]_creationVars /\ CreationFairness

(* A request is never in flight for a call that has gone on: whichever way *)
(* the race ends, by a winner, by exhaustion or by the timeout of          *)
(* wait_for, its tasks are over before the profile is made or the call     *)
(* answers (the finally clause with gather), and all calls of the          *)
(* endpoints with a semaphore together keep at most Slots * RaceSize keys  *)
(* busy, each import one batch more.                                       *)
InFlight == {ck \in Callers \X Keys : request[ck[1]][ck[2]] # None}

RequestsAreOwned ==
    /\ \A ck \in InFlight : pc[ck[1]] \in Generates
    /\ Cardinality(InFlight) <= RaceSize * (Slots + Cardinality({c \in Callers : ~gated[c]}))

(* A profile is never handed out when the last scan of it found a sign of  *)
(* automation or did not run, however good a second opinion within the     *)
(* scale that it was asked for: "a secondary opinion after deterministic   *)
(* checks" (ai_auto_validator.py; the number itself is not checked).       *)
NoSevereLeakAccepted ==
    \A c \in Callers :
        result[c] = "success" => finding[c].scan > 50 \/ finding[c].overrated

(* Every call ends, and with it its place in the semaphore, whatever the   *)
(* service and the saves do, unless some call's scan hangs for ever: then  *)
(* nobody takes its place back, and others may wait for it.                *)
CreationsEnd ==
    \/ \A c \in Callers : <>(pc[c] = "done")
    \/ \E c \in Callers, place \in {"validating", "revalidating"} : <>[](pc[c] = place)

(* Not so in the code: the same whatever number the opinion comes with.    *)
SevereLeaksAlwaysRefused ==
    \A c \in Callers : result[c] = "success" => finding[c].scan > 50

(* Not so in the code: a profile that was created is one that a launch     *)
(* takes.                                                                  *)
CreatedCanLaunch ==
    \A c \in Callers : result[c] = "success" =>
        LaunchAccepts(stored[c], answer[c].source, answer[c].model, Approved)
=============================================================================
