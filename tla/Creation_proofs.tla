--------------------------- MODULE Creation_proofs ---------------------------
(***************************************************************************)
(* Theorems about the creation of profiles (ProfileCreation, with the      *)
(* rules of FingerprintRules) and about their privacy settings             *)
(* (ProfileSettings), for any number of calls, keys, models and attempts.  *)
(***************************************************************************)
EXTENDS ProfileCreation, ProfileSettings, FiniteSetTheorems, TLAPS

-----------------------------------------------------------------------------
(* ProfileCreation: the requests of a race.  A call keeps a request only   *)
(* while it races, and then only with the keys of its batch; a call that   *)
(* races holds a place in the semaphore or came without it.                *)

RaceOf(c) ==
    /\ pc[c] \in Places
    /\ offset[c] \in Nat /\ model[c] \in Nat
    /\ request[c] \in [Keys -> Requests]
    /\ pc[c] \notin Generates \/ model[c] > ModelCount => request[c] = Quiet
    /\ \A k \in Keys : request[c][k] # None => k \in Batch(c)

FunctionsOfCalls ==
    /\ DOMAIN pc = Callers /\ DOMAIN offset = Callers
    /\ DOMAIN model = Callers /\ DOMAIN request = Callers
    /\ gated \in [Callers -> BOOLEAN]

RaceInv ==
    /\ FunctionsOfCalls
    /\ \A c \in Callers : RaceOf(c)
    /\ Cardinality(Holders) <= Slots

LEMMA QuietIsNone ==
    /\ None \in Requests
    /\ Quiet \in [Keys -> Requests]
    /\ \A k \in Keys : Quiet[k] = None
BY CreationAssumption DEF None, Requests, Quiet

LEMMA SomeKeyAsks ==
    ASSUME NEW c \in Callers, RaceOf(c), NEW k \in Keys, request[c][k] # None
    PROVE  pc[c] \in Generates /\ model[c] <= ModelCount /\ request[c] # Quiet
<1>1. request[c] # Quiet BY QuietIsNone
<1>2. ModelCount \in Nat BY CreationAssumption
<1> QED BY <1>1, <1>2 DEF RaceOf

\* The holders of a place in the semaphore are calls.
LEMMA HoldersAreFinite ==
    /\ IsFiniteSet(Callers)
    /\ IsFiniteSet(Holders) /\ Cardinality(Holders) \in Nat
<1>1. IsFiniteSet(Callers) BY CreationAssumption
<1>2. Holders \in SUBSET Callers BY DEF Holders
<1>3. IsFiniteSet(Holders) BY <1>1, <1>2, FS_Subset
<1> QED BY <1>1, <1>3, FS_CardinalityType

LEMMA FewerHolders ==
    ASSUME Cardinality(Holders) <= Slots, Holders' \in SUBSET Holders
    PROVE  Cardinality(Holders') <= Slots
<1>1. IsFiniteSet(Holders') /\ Cardinality(Holders') <= Cardinality(Holders)
  BY HoldersAreFinite, FS_Subset
<1>2. Cardinality(Holders') \in Nat /\ Slots \in Nat
  BY <1>1, FS_CardinalityType, CreationAssumption
<1> QED BY <1>1, <1>2, HoldersAreFinite

\* What a step of one call leaves alone.
Alone(c) ==
    /\ UNCHANGED gated
    /\ DOMAIN pc' = Callers /\ DOMAIN offset' = Callers
    /\ DOMAIN model' = Callers /\ DOMAIN request' = Callers
    /\ \A d \in Callers \ {c} : /\ pc'[d] = pc[d] /\ offset'[d] = offset[d]
                                /\ model'[d] = model[d] /\ request'[d] = request[d]

\* A step of a call that keeps its requests in order and takes no place.
LEMMA OneCallRuns ==
    ASSUME RaceInv, NEW c \in Callers, Alone(c), RaceOf(c)',
           pc[c] \in Waits \cup {"done"} => pc'[c] \in Waits \cup {"done"} \/ ~gated[c]
    PROVE  RaceInv'
<1>1. FunctionsOfCalls' BY DEF Alone, RaceInv, FunctionsOfCalls
<1>2. ASSUME NEW d \in Callers \ {c} PROVE RaceOf(d)'
  BY DEF Alone, RaceInv, RaceOf, Batch
<1>3. Holders' \in SUBSET Holders
  BY DEF Alone, Holders
<1>4. Cardinality(Holders') <= Slots BY <1>3, FewerHolders DEF RaceInv
<1> QED BY <1>1, <1>2, <1>4 DEF RaceInv

LEMMA SetsIs ==
    ASSUME NEW c \in Callers, NEW K, NEW r, Sets(c, K, r), DOMAIN request = Callers,
           DOMAIN request[c] = Keys
    PROVE  /\ DOMAIN request' = Callers
           /\ \A d \in Callers \ {c} : request'[d] = request[d]
           /\ request'[c] = [k \in Keys |-> IF k \in K THEN r ELSE request[c][k]]
BY DEF Sets

\* A task that is there goes on.
LEMMA TaskRuns ==
    ASSUME RaceInv, NEW c \in Callers, NEW k \in Keys, request[c][k] # None,
           NEW r \in Requests, Sets(c, {k}, r),
           UNCHANGED <<gated, pc, model, offset>>
    PROVE  RaceInv'
<1>1. RaceOf(c) /\ DOMAIN request = Callers /\ DOMAIN request[c] = Keys
  BY DEF RaceInv, FunctionsOfCalls, RaceOf
<1>2. /\ DOMAIN request' = Callers
      /\ \A d \in Callers \ {c} : request'[d] = request[d]
      /\ request'[c] = [x \in Keys |-> IF x \in {k} THEN r ELSE request[c][x]]
  BY <1>1, SetsIs
<1>3. pc[c] \in Generates /\ ~(model[c] > ModelCount)
  <2>1. ModelCount \in Nat /\ model[c] \in Nat BY <1>1, CreationAssumption DEF RaceOf
  <2> QED BY <1>1, <2>1, SomeKeyAsks
<1>4. request'[c] \in [Keys -> Requests] BY <1>1, <1>2 DEF RaceOf
<1>5. \A x \in Keys : request'[c][x] # None => x \in Batch(c) BY <1>1, <1>2 DEF RaceOf
<1>6. RaceOf(c)' BY <1>1, <1>3, <1>4, <1>5 DEF RaceOf, Batch
<1>7. Alone(c) BY <1>2 DEF RaceInv, FunctionsOfCalls, Alone
<1>8. pc[c] \notin Waits \cup {"done"} BY <1>3 DEF Generates, Waits
<1> QED BY <1>6, <1>7, <1>8, OneCallRuns

\* A call whose race is over, or has not begun, goes on.
LEMMA QuietCallRuns ==
    ASSUME RaceInv, NEW c \in Callers, request[c] = Quiet, UNCHANGED <<gated, request>>,
           NEW place \in Places, Goes(c, place),
           \/ UNCHANGED <<model, offset>>
           \/ RaceIsOver(c),
           pc[c] \in Waits \cup {"done"} => place \in Waits \cup {"done"} \/ ~gated[c]
    PROVE  RaceInv'
<1>1. RaceOf(c) BY DEF RaceInv
<1>2. /\ DOMAIN pc' = Callers /\ pc'[c] = place
      /\ \A d \in Callers \ {c} : pc'[d] = pc[d]
  BY DEF RaceInv, FunctionsOfCalls, Goes
<1>3. /\ DOMAIN model' = Callers /\ DOMAIN offset' = Callers
      /\ model'[c] \in Nat /\ offset'[c] \in Nat
      /\ \A d \in Callers \ {c} : model'[d] = model[d] /\ offset'[d] = offset[d]
  BY <1>1 DEF RaceInv, FunctionsOfCalls, RaceOf, RaceIsOver
<1>4. Alone(c) BY <1>2, <1>3 DEF Alone, RaceInv, FunctionsOfCalls
<1>5. RaceOf(c)' BY <1>2, <1>3, QuietIsNone DEF RaceOf
<1> QED BY <1>2, <1>4, <1>5, OneCallRuns

LEMMA QuietOutsideRaces ==
    ASSUME RaceInv, NEW c \in Callers, pc[c] \notin Generates
    PROVE  request[c] = Quiet
BY DEF RaceInv, RaceOf

LEMMA TakesSlotKeepsRaces ==
    ASSUME RaceInv, NEW c \in Callers, TakesSlot(c), UNCHANGED gated
    PROVE  RaceInv'
<1>1. /\ pc[c] = "queued" /\ Cardinality(Holders) < Slots /\ Goes(c, "ready")
      /\ UNCHANGED <<model, offset, request>>
  BY DEF TakesSlot, raceVars
<1>2. RaceOf(c) /\ request[c] = Quiet
  BY <1>1, QuietOutsideRaces DEF Generates, RaceInv
<1>3. /\ DOMAIN pc' = Callers /\ pc'[c] = "ready"
      /\ \A d \in Callers \ {c} : pc'[d] = pc[d]
  BY <1>1 DEF RaceInv, FunctionsOfCalls, Goes
<1>4. FunctionsOfCalls' BY <1>1, <1>3 DEF RaceInv, FunctionsOfCalls
<1>5. RaceOf(c)' BY <1>1, <1>2, <1>3, QuietIsNone DEF RaceOf, Places
<1>6. ASSUME NEW d \in Callers \ {c} PROVE RaceOf(d)'
  BY <1>1, <1>3 DEF RaceInv, RaceOf, Batch
<1>7. Cardinality(Holders') <= Slots
  <2>1. Holders' \in SUBSET (Holders \cup {c}) BY <1>3 DEF Holders
  <2>2. /\ IsFiniteSet(Holders \cup {c})
        /\ Cardinality(Holders \cup {c})
             = IF c \in Holders THEN Cardinality(Holders) ELSE Cardinality(Holders) + 1
    BY HoldersAreFinite, FS_AddElement
  <2>3. Slots \in Nat BY CreationAssumption
  <2>4. Cardinality(Holders \cup {c}) <= Slots BY <1>1, <2>2, <2>3, HoldersAreFinite
  <2>5. IsFiniteSet(Holders') /\ Cardinality(Holders') <= Cardinality(Holders \cup {c})
    BY <2>1, <2>2, FS_Subset
  <2>6. Cardinality(Holders') \in Nat /\ Cardinality(Holders \cup {c}) \in Nat
    BY <2>2, <2>5, FS_CardinalityType
  <2> QED BY <2>3, <2>4, <2>5, <2>6
<1> QED BY <1>4, <1>5, <1>6, <1>7 DEF RaceInv

\* Calls that keep no request: before and after their races.
LEMMA QuietCallKeepsRaces ==
    ASSUME RaceInv, NEW c \in Callers, UNCHANGED gated,
           \/ Arrives(c) \/ TriesAgain(c) \/ GivesUp(c) \/ Refuses(c) \/ AnswersLocally(c)
           \/ RaceReturns(c) \/ TimeoutEnds(c) \/ Registers(c) \/ Validates(c) \/ Revalidates(c)
    PROVE  RaceInv'
<1>1. RaceOf(c) BY DEF RaceInv
<1> USE DEF raceVars, Ends
<1>2. CASE Arrives(c)
  <2>1. /\ pc[c] = "arriving" /\ UNCHANGED <<model, offset, request>>
        /\ Goes(c, IF gated[c] THEN "queued" ELSE "ready")
    BY <1>2 DEF Arrives
  <2>2. request[c] = Quiet BY <2>1, QuietOutsideRaces DEF Generates
  <2>3. (IF gated[c] THEN "queued" ELSE "ready") \in Places
    BY DEF Places, Waits
  <2> QED BY <2>1, <2>2, <2>3, QuietCallRuns DEF Waits
<1>3. CASE TriesAgain(c) \/ GivesUp(c) \/ Refuses(c)
  <2>1. /\ pc[c] = "ready" /\ UNCHANGED <<model, offset, request>>
        /\ Goes(c, "racing") \/ Goes(c, "done")
    BY <1>3 DEF TriesAgain, GivesUp, Refuses
  <2>2. request[c] = Quiet BY <2>1, QuietOutsideRaces DEF Generates
  <2> QED BY <2>1, <2>2, QuietCallRuns DEF Waits, Places, Generates
<1>4. CASE AnswersLocally(c) \/ RaceReturns(c) \/ TimeoutEnds(c)
  <2>1. /\ pc[c] \in Generates /\ UNCHANGED request /\ RaceIsOver(c)
        /\ Goes(c, "answered") \/ Goes(c, "done")
    BY <1>4 DEF AnswersLocally, RaceReturns, TimeoutEnds, Generates
  <2>2. request[c] = Quiet
    BY <1>1, <1>4 DEF AnswersLocally, RaceReturns, TimeoutEnds, RaceOf
  <2> QED BY <2>1, <2>2, QuietCallRuns DEF Waits, Places, Generates
<1>5. CASE Registers(c) \/ Validates(c) \/ Revalidates(c)
  <2>1. pc[c] \in {"answered", "validating", "revalidating"} /\ UNCHANGED <<model, offset, request>>
    BY <1>5 DEF Registers, Validates, Revalidates
  <2>2. PICK place \in {"ready", "validating", "revalidating", "done"} : Goes(c, place)
    <3>1. CASE Registers(c) BY <3>1 DEF Registers
    <3>2. CASE Validates(c) BY <3>2 DEF Validates
    <3>3. CASE Revalidates(c) BY <3>3 DEF Revalidates
    <3> QED BY <1>5, <3>1, <3>2, <3>3
  <2>3. request[c] = Quiet BY <2>1, QuietOutsideRaces DEF Generates
  <2>4. place \in Places BY DEF Places
  <2> QED BY <2>1, <2>2, <2>3, <2>4, QuietCallRuns DEF Waits
<1> QED BY <1>2, <1>3, <1>4, <1>5

LEMMA BatchStartsKeepsRaces ==
    ASSUME RaceInv, NEW c \in Callers, UNCHANGED gated, BatchStarts(c)
    PROVE  RaceInv'
<1> DEFINE r == [step |-> "new", model |-> 0]
<1>1. RaceOf(c) /\ DOMAIN request = Callers /\ DOMAIN request[c] = Keys
  BY DEF RaceInv, FunctionsOfCalls, RaceOf
<1>2. /\ pc[c] = "racing" /\ model[c] <= ModelCount /\ request[c] = Quiet
      /\ Sets(c, Batch(c), r) /\ UNCHANGED <<pc, model, offset>>
  BY DEF BatchStarts
<1>3. r \in Requests BY CreationAssumption DEF Requests
<1> HIDE DEF r
<1>4. /\ DOMAIN request' = Callers
      /\ \A d \in Callers \ {c} : request'[d] = request[d]
      /\ request'[c] = [x \in Keys |-> IF x \in Batch(c) THEN r ELSE request[c][x]]
  BY <1>1, <1>2, SetsIs
<1>5. request'[c] \in [Keys -> Requests] BY <1>2, <1>3, <1>4, QuietIsNone
<1>6. \A x \in Keys : request'[c][x] # None => x \in Batch(c) BY <1>2, <1>4, QuietIsNone
<1>7. pc[c] \in Generates /\ ~(model[c] > ModelCount)
  BY <1>1, <1>2, CreationAssumption DEF Generates, RaceOf
<1>8. RaceOf(c)' BY <1>1, <1>2, <1>5, <1>6, <1>7 DEF RaceOf, Batch
<1>9. Alone(c) BY <1>2, <1>4 DEF RaceInv, FunctionsOfCalls, Alone
<1> QED BY <1>2, <1>8, <1>9, OneCallRuns DEF Waits

LEMMA RaceLostKeepsRaces ==
    ASSUME RaceInv, NEW c \in Callers, UNCHANGED gated, RaceLost(c)
    PROVE  RaceInv'
<1>1. RaceOf(c) /\ FunctionsOfCalls BY DEF RaceInv
<1>2. pc[c] = "racing" /\ UNCHANGED pc /\ request' = [request EXCEPT ![c] = Quiet] BY DEF RaceLost
<1>3. /\ DOMAIN offset' = Callers /\ DOMAIN model' = Callers
      /\ offset'[c] \in Nat /\ model'[c] \in Nat
      /\ \A d \in Callers \ {c} : offset'[d] = offset[d] /\ model'[d] = model[d]
  BY <1>1, CreationAssumption DEF RaceLost, FunctionsOfCalls, RaceOf
<1>4. /\ DOMAIN request' = Callers /\ request'[c] = Quiet
      /\ \A d \in Callers \ {c} : request'[d] = request[d]
  BY <1>1, <1>2 DEF FunctionsOfCalls
<1>5. RaceOf(c)' BY <1>1, <1>2, <1>3, <1>4, QuietIsNone DEF RaceOf
<1>6. Alone(c) BY <1>1, <1>2, <1>3, <1>4 DEF FunctionsOfCalls, Alone
<1> QED BY <1>2, <1>5, <1>6, OneCallRuns DEF Waits

\* The rest of the batch is cancelled: it is stopping, or over.
LEMMA CancelKeepsRaces ==
    ASSUME RaceInv, NEW c \in Callers, UNCHANGED <<gated, model, offset>>, Cancelled(c),
           pc[c] \in {"racing", "winning"}, NEW place \in Generates, Goes(c, place),
           ~(model[c] > ModelCount) \/ request[c] = Quiet
    PROVE  RaceInv'
<1>1. RaceOf(c) /\ FunctionsOfCalls BY DEF RaceInv
<1> DEFINE stopping == [step |-> "stopping", model |-> 0]
<1>2. stopping \in Requests BY CreationAssumption DEF Requests
<1>3. request' = [request EXCEPT ![c] =
          [k \in Keys |-> IF k \in Pending(c) \/ @[k].step = "stopping" THEN stopping ELSE None]]
  BY DEF Cancelled
<1> HIDE DEF stopping
<1>4. /\ DOMAIN request' = Callers
      /\ \A d \in Callers \ {c} : request'[d] = request[d]
      /\ request'[c] = [k \in Keys |-> IF k \in Pending(c) \/ request[c][k].step = "stopping"
                                       THEN stopping ELSE None]
  BY <1>1, <1>3 DEF FunctionsOfCalls
<1>5. request'[c] \in [Keys -> Requests] BY <1>2, <1>4, QuietIsNone
<1>6. ASSUME NEW k \in Keys, request'[c][k] # None PROVE request[c][k] # None
  <2>1. k \in Pending(c) \/ request[c][k].step = "stopping" BY <1>4, <1>6
  <2> QED BY <2>1 DEF Pending, None
<1>7. /\ DOMAIN pc' = Callers /\ pc'[c] = place
      /\ \A d \in Callers \ {c} : pc'[d] = pc[d]
  BY <1>1 DEF FunctionsOfCalls, Goes
<1>8. request[c] = Quiet => request'[c] = Quiet
  <2> SUFFICES ASSUME request[c] = Quiet PROVE request'[c] = Quiet OBVIOUS
  <2>1. \A k \in Keys : request'[c][k] = None BY <1>6, QuietIsNone
  <2> QED BY <1>5, <2>1 DEF Quiet
<1>9. RaceOf(c)'
  <2>1. place \in Places BY DEF Places
  <2>2. model[c] > ModelCount => request'[c] = Quiet BY <1>8
  <2>3. \A k \in Keys : request'[c][k] # None => k \in Batch(c) BY <1>1, <1>6 DEF RaceOf
  <2> QED BY <1>1, <1>5, <1>7, <2>1, <2>2, <2>3 DEF RaceOf, Batch
<1>10. Alone(c) BY <1>1, <1>4, <1>7 DEF FunctionsOfCalls, Alone
<1> QED BY <1>9, <1>10, OneCallRuns DEF Waits

LEMMA RaceInvNext == RaceInv /\ [CreationNext]_creationVars => RaceInv'
<1> SUFFICES ASSUME RaceInv, [CreationNext]_creationVars PROVE RaceInv' OBVIOUS
<1>1. ASSUME NEW c \in Callers, UNCHANGED gated, TakesSlot(c) PROVE RaceInv'
  BY <1>1, TakesSlotKeepsRaces
<1>2. ASSUME NEW c \in Callers, UNCHANGED gated,
             \/ Arrives(c) \/ TriesAgain(c) \/ GivesUp(c) \/ Refuses(c) \/ AnswersLocally(c)
             \/ RaceReturns(c) \/ TimeoutEnds(c) \/ Registers(c) \/ Validates(c) \/ Revalidates(c)
      PROVE  RaceInv'
  BY <1>2, QuietCallKeepsRaces
<1>3. ASSUME NEW c \in Callers, UNCHANGED gated, BatchStarts(c) PROVE RaceInv'
  BY <1>3, BatchStartsKeepsRaces
<1>4. ASSUME NEW c \in Callers, UNCHANGED gated, RaceLost(c) PROVE RaceInv'
  BY <1>4, RaceLostKeepsRaces
<1>5. ASSUME NEW c \in Callers, UNCHANGED gated, TimesOut(c) PROVE RaceInv'
  <2>1. RaceOf(c) BY DEF RaceInv
  <2>2. ~(model[c] > ModelCount) \/ request[c] = Quiet BY <2>1 DEF RaceOf
  <2>3. Goes(c, "timing out") /\ "timing out" \in Generates BY <1>5 DEF TimesOut, Generates
  <2> QED BY <1>5, <2>2, <2>3, CancelKeepsRaces DEF TimesOut
<1>6. ASSUME NEW c \in Callers, NEW k \in Keys, UNCHANGED gated, RaceWon(c, k) PROVE RaceInv'
  <2>1. RaceOf(c) BY DEF RaceInv
  <2>2. ~(model[c] > ModelCount) \/ request[c] = Quiet BY <2>1 DEF RaceOf
  <2>3. Goes(c, "winning") /\ "winning" \in Generates BY <1>6 DEF RaceWon, Generates
  <2> QED BY <1>6, <2>2, <2>3, CancelKeepsRaces DEF RaceWon
<1>7. ASSUME NEW c \in Callers, NEW k \in Keys, UNCHANGED gated,
             Posts(c, k) \/ Responds(c, k) \/ RequestFails(c, k) \/ Stops(c, k)
      PROVE  RaceInv'
  <2>1. request[c][k] # None /\ UNCHANGED <<pc, model, offset>>
    BY <1>7 DEF Posts, Responds, RequestFails, Stops, None
  <2>2. RaceOf(c) BY DEF RaceInv
  <2>3. model[c] \in 0..ModelCount
    <3>1. ModelCount \in Nat /\ model[c] \in Nat BY <2>2, CreationAssumption DEF RaceOf
    <3> QED BY <2>1, <2>2, <3>1, SomeKeyAsks
  <2>4. /\ [step |-> "sent", model |-> 0] \in Requests /\ Failed \in Requests
        /\ [step |-> "good", model |-> model[c]] \in Requests /\ None \in Requests
    BY <2>3, QuietIsNone, CreationAssumption DEF Requests, Failed
  <2>5. PICK r \in Requests : Sets(c, {k}, r)
    <3>1. CASE Posts(c, k) BY <2>4, <3>1 DEF Posts
    <3>2. CASE Responds(c, k)
      <4>1. PICK usable : Sets(c, {k}, IF usable THEN [step |-> "good", model |-> model[c]] ELSE Failed)
        BY <3>2 DEF Responds
      <4>2. (IF usable THEN [step |-> "good", model |-> model[c]] ELSE Failed) \in Requests BY <2>4
      <4> QED BY <4>1, <4>2
    <3>3. CASE RequestFails(c, k) BY <2>4, <3>3 DEF RequestFails
    <3>4. CASE Stops(c, k) BY <2>4, <3>4 DEF Stops
    <3> QED BY <1>7, <3>1, <3>2, <3>3, <3>4
  <2> QED BY <1>7, <2>1, <2>5, TaskRuns
<1>8. CASE UNCHANGED creationVars
  <2>1. UNCHANGED <<gated, pc, model, offset, request>> BY <1>8 DEF creationVars
  <2>2. FunctionsOfCalls' BY <2>1 DEF RaceInv, FunctionsOfCalls
  <2>3. ASSUME NEW c \in Callers PROVE RaceOf(c)'
    BY <2>1 DEF RaceInv, RaceOf, Batch
  <2>4. result' = result BY <1>8 DEF creationVars
  <2>5. Holders' = Holders BY <2>1 DEF Holders
  <2> QED BY <2>2, <2>3, <2>5 DEF RaceInv
<1>9. CASE CreationNext
  <2>1. PICK c \in Callers :
          /\ UNCHANGED gated
          /\ \/ Arrives(c) \/ TakesSlot(c) \/ TriesAgain(c) \/ GivesUp(c)
             \/ BatchStarts(c) \/ RaceLost(c) \/ AnswersLocally(c) \/ RaceReturns(c)
             \/ TimeoutEnds(c) \/ Registers(c) \/ Validates(c) \/ Revalidates(c)
             \/ Refuses(c) \/ TimesOut(c)
             \/ \E k \in Keys : \/ Posts(c, k) \/ RaceWon(c, k) \/ Stops(c, k)
                                \/ Responds(c, k) \/ RequestFails(c, k)
    BY <1>9 DEF CreationNext, Runs, ServiceEnds
  <2> QED BY <1>1, <1>2, <1>3, <1>4, <1>5, <1>6, <1>7, <2>1
<1> QED BY <1>8, <1>9

LEMMA RaceInvInit == CreationInit => RaceInv
<1> SUFFICES ASSUME CreationInit PROVE RaceInv OBVIOUS
<1>1. FunctionsOfCalls BY DEF CreationInit, FunctionsOfCalls
<1>2. ASSUME NEW c \in Callers PROVE RaceOf(c)
  <2>1. /\ pc[c] = "arriving" /\ offset[c] = 0 /\ model[c] = 1 /\ request[c] = Quiet
    BY DEF CreationInit
  <2> QED BY <2>1, QuietIsNone DEF RaceOf, Places, Waits
<1>3. Holders = {} BY DEF CreationInit, Holders, Waits
<1>4. Cardinality(Holders) = 0 /\ Slots \in Nat BY <1>3, FS_EmptySet, CreationAssumption
<1>5. Cardinality(Holders) <= Slots BY <1>4
<1> QED BY <1>1, <1>2, <1>5 DEF RaceInv

\* The requests of one call have numbers in its batch.
LEMMA FlightsAreNumbered ==
    ASSUME RaceInv
    PROVE  /\ IsFiniteSet(InFlight)
           /\ Cardinality(InFlight) <= RaceSize * (Slots + Cardinality({c \in Callers : ~gated[c]}))
<1> DEFINE ungated == {c \in Callers : ~gated[c]}
           active == Holders \cup ungated
           number == [ck \in InFlight |-> <<ck[1], ck[2] - offset[ck[1]]>>]
           u == Cardinality(ungated)
           h == Cardinality(Holders)
           a == Cardinality(active)
<1>1. RaceSize \in Nat /\ Slots \in Nat BY CreationAssumption
<1>2. IsFiniteSet(ungated) /\ u \in Nat
  <2>1. ungated \in SUBSET Callers OBVIOUS
  <2> QED BY <2>1, HoldersAreFinite, FS_Subset, FS_CardinalityType
<1>3. IsFiniteSet(active) /\ a \in Nat /\ a <= Slots + u
  <2>1. /\ IsFiniteSet(active)
        /\ a = h + u - Cardinality(Holders \cap ungated)
    BY <1>2, HoldersAreFinite, FS_Union
  <2>2. Cardinality(Holders \cap ungated) \in Nat
    <3>1. Holders \cap ungated \in SUBSET ungated OBVIOUS
    <3> QED BY <1>2, <3>1, FS_Subset, FS_CardinalityType
  <2>3. a \in Nat BY <2>1, FS_CardinalityType
  <2>4. h \in Nat /\ h <= Slots BY HoldersAreFinite DEF RaceInv
  <2> QED BY <1>1, <1>2, <2>1, <2>2, <2>3, <2>4
<1>4. IsFiniteSet(1..RaceSize) /\ Cardinality(1..RaceSize) = RaceSize
  <2>1. /\ IsFiniteSet(1..RaceSize)
        /\ Cardinality(1..RaceSize) = IF 1 > RaceSize THEN 0 ELSE RaceSize - 1 + 1
    BY <1>1, FS_Interval
  <2> QED BY <1>1, <2>1
<1>5. IsFiniteSet(active \X (1..RaceSize)) /\ Cardinality(active \X (1..RaceSize)) = a * RaceSize
  BY <1>3, <1>4, FS_Product
<1>6. ASSUME NEW ck \in InFlight
      PROVE  /\ ck \in Callers \X Keys /\ ck = <<ck[1], ck[2]>>
             /\ ck[1] \in active /\ ck[2] - offset[ck[1]] \in 1..RaceSize
             /\ ck[2] \in Int /\ offset[ck[1]] \in Int
  <2>1. ck \in Callers \X Keys /\ request[ck[1]][ck[2]] # None BY DEF InFlight
  <2> DEFINE c == ck[1]
             k == ck[2]
  <2>2. c \in Callers /\ k \in Keys /\ request[c][k] # None /\ ck = <<c, k>> BY <2>1
  <2> HIDE DEF c, k
  <2>3. RaceOf(c) BY <2>2 DEF RaceInv
  <2>4. pc[c] \in Generates BY <2>2, <2>3, SomeKeyAsks
  <2>5. k \in Batch(c) /\ offset[c] \in Nat BY <2>2, <2>3 DEF RaceOf
  <2>6. k \in Nat BY <2>2 DEF Keys
  <2>7. c \in active BY <2>2, <2>4 DEF RaceInv, FunctionsOfCalls, Holders, Generates, Waits
  <2>8. k - offset[c] \in 1..RaceSize BY <1>1, <2>5, <2>6 DEF Batch
  <2> QED BY <2>1, <2>2, <2>5, <2>6, <2>7, <2>8 DEF c, k
<1>7. number \in Injection(InFlight, active \X (1..RaceSize))
  <2>1. number \in [InFlight -> active \X (1..RaceSize)] BY <1>6
  <2>2. ASSUME NEW x \in InFlight, NEW y \in InFlight, number[x] = number[y] PROVE x = y
    <3>1. x[1] = y[1] /\ x[2] - offset[x[1]] = y[2] - offset[y[1]] BY <2>2
    <3>2. x[2] = y[2] BY <1>6, <3>1
    <3>3. x = <<x[1], x[2]>> /\ y = <<y[1], y[2]>> BY <1>6
    <3> QED BY <3>1, <3>2, <3>3
  <2> QED BY <2>1, <2>2 DEF Injection, IsInjective
<1>8. IsFiniteSet(InFlight) /\ Cardinality(InFlight) <= a * RaceSize
  BY <1>5, <1>7, FS_Injection
<1>9. Cardinality(InFlight) \in Nat BY <1>8, FS_CardinalityType
<1>10. a * RaceSize <= RaceSize * (Slots + u)
  <2> HIDE DEF a, u
  <2> QED BY <1>1, <1>2, <1>3
<1>11. a * RaceSize \in Nat /\ RaceSize * (Slots + u) \in Nat
  <2> HIDE DEF a, u
  <2> QED BY <1>1, <1>2, <1>3
<1> HIDE DEF a
<1> QED BY <1>8, <1>9, <1>10, <1>11

(* RequestsAreOwned, of any number of calls, keys and models: a request is *)
(* only in flight for a call that still races, and what the endpoints with *)
(* a semaphore keep busy is bounded by Slots * RaceSize, the imports by a  *)
(* batch each (the finally clause with gather; _CREATE_SEM).               *)
THEOREM RacesOwnTheirRequests == CreationSpec => []RequestsAreOwned
<1>1. RaceInv => RequestsAreOwned
  <2> SUFFICES ASSUME RaceInv PROVE RequestsAreOwned OBVIOUS
  <2>1. ASSUME NEW ck \in InFlight PROVE pc[ck[1]] \in Generates
    <3>1. ck[1] \in Callers /\ ck[2] \in Keys /\ request[ck[1]][ck[2]] # None BY DEF InFlight
    <3>2. RaceOf(ck[1]) BY <3>1 DEF RaceInv
    <3> QED BY <3>1, <3>2, SomeKeyAsks
  <2> QED BY <2>1, FlightsAreNumbered DEF RequestsAreOwned
<1> QED BY <1>1, RaceInvInit, RaceInvNext, PTL DEF CreationSpec

-----------------------------------------------------------------------------
(* FingerprintRules and the validation: with a scan of 50 or less neither  *)
(* the best coherence nor the best opinion out of a hundred reaches the    *)
(* score that accepts.                                                     *)

LEMMA RulesAreFinite == IsFiniteSet(Rules)
<1>1. ASSUME NEW S, IsFiniteSet(S), NEW x PROVE IsFiniteSet(S \cup {x})
  BY <1>1, FS_AddElement
<1> DEFINE gpu == {} \cup {"apple on windows"} \cup {"nvidia on mac"} \cup {"direct3d on mac"}
                     \cup {"renderer"}
           places == gpu \cup {"cores"} \cup {"locale"} \cup {"screen"} \cup {"hints"}
           all == places \cup {"versions"} \cup {"full version"} \cup {"no agent"} \cup {"no brands"}
<1>2. IsFiniteSet(gpu) BY <1>1, FS_EmptySet, Zenon
<1> HIDE DEF gpu
<1>3. IsFiniteSet(places) BY <1>1, <1>2, Zenon
<1> HIDE DEF places
<1>4. IsFiniteSet(all) BY <1>1, <1>3, Zenon
<1>5. Rules = all BY DEF Rules, places, gpu
<1> QED BY <1>4, <1>5

LEMMA CostsAreNat ==
    ASSUME NEW f, NEW penalty \in Nat
    PROVE  Cost(f, penalty) \in Nat
<1> DEFINE broken == {r \in Broken(f) : Penalty[r] = penalty}
<1>1. broken \in SUBSET Rules BY DEF Broken
<1>2. Cardinality(broken) \in Nat BY <1>1, RulesAreFinite, FS_Subset, FS_CardinalityType
<1> HIDE DEF broken
<1>3. penalty * Cardinality(broken) \in Nat BY <1>2
<1> QED BY <1>3 DEF Cost, broken

\* The score of coherence is one out of a hundred, whatever the fingerprint.
LEMMA CoherenceIsBounded ==
    ASSUME NEW f
    PROVE  Coherence(f) \in 0..100
<1>1. /\ Cost(f, 5) \in Nat /\ Cost(f, 10) \in Nat /\ Cost(f, 20) \in Nat /\ Cost(f, 30) \in Nat
      /\ Cost(f, 40) \in Nat /\ Cost(f, 50) \in Nat /\ Cost(f, 60) \in Nat
  BY CostsAreNat
<1>2. Lost(f) \in Nat BY <1>1 DEF Lost
<1> QED BY <1>2 DEF Coherence

LEMMA SevereIsRefused ==
    ASSUME NEW f, NEW scan \in ScanScores, NEW opinion \in Opinions \cup {NoOpinion(f, scan)},
           Accepts(f, scan, opinion)
    PROVE  scan > 50 \/ opinion.score > 100
<1> SUFFICES ASSUME scan \in {0, 50}, ~(opinion.score > 100) PROVE FALSE BY DEF ScanScores
<1> DEFINE k == Coherence(f)
           s == opinion.score
<1>1. k \in 0..100 BY CoherenceIsBounded
<1>2. s \in Int /\ s <= 100
  <2>1. CASE opinion \in Opinions
    <3>1. opinion.score \in Int BY <2>1, RulesAssumption DEF Opinions
    <3> QED BY <3>1
  <2>2. CASE opinion = NoOpinion(f, scan)
    <3>1. s = (scan + k) \div 2 BY <2>2 DEF NoOpinion
    <3> HIDE DEF k
    <3> QED BY <1>1, <3>1
  <2> QED BY <2>1, <2>2
<1>3. FinalScore(f, scan, opinion) >= 92 BY DEF Accepts
<1>4. (55 * (scan + k) + 90 * s) \div 200 >= 92 BY <1>3 DEF FinalScore
<1> HIDE DEF k, s
<1>5. 55 * (scan + k) + 90 * s <= 17250 BY <1>1, <1>2
<1>6. 55 * (scan + k) + 90 * s \in Int BY <1>1, <1>2
<1> QED BY <1>4, <1>5, <1>6

\* A scan that allows the profile, or an opinion above its scale.
Allows(found) == found.scan > 50 \/ found.overrated

LeakInv ==
    /\ DOMAIN pc = Callers /\ DOMAIN stored = Callers
    /\ DOMAIN finding = Callers /\ DOMAIN result = Callers
    /\ \A c \in Callers :
          /\ pc[c] \in {"validating", "revalidating"} => stored[c] \in Coherent
          /\ result[c] = "success" => Allows(finding[c])

LEMMA VerdictAccepts ==
    ASSUME NEW f \in Coherent, NEW v \in Verdict[f], v.accepts
    PROVE  Allows(v.found)
<1>1. PICK scan \in ScanScores : \E opinion \in Opinions \cup {NoOpinion(f, scan)} :
          v = [found |-> [scan |-> scan, overrated |-> opinion.score > 100],
               accepts |-> Accepts(f, scan, opinion)]
  BY DEF Verdict
<1>2. PICK opinion \in Opinions \cup {NoOpinion(f, scan)} :
          v = [found |-> [scan |-> scan, overrated |-> opinion.score > 100],
               accepts |-> Accepts(f, scan, opinion)]
  BY <1>1
<1>3. /\ v.found.scan = scan /\ v.found.overrated = (opinion.score > 100)
      /\ v.accepts = Accepts(f, scan, opinion)
  BY <1>2
<1>4. Accepts(f, scan, opinion) BY <1>3
<1> QED BY <1>3, <1>4, SevereIsRefused DEF Allows

\* What a step of one call may do to keep it: it leaves the places of validation, or
\* has a coherent profile; it is no success, or one on a scan that allows it.
LEMMA OneCallKeepsLeakInv ==
    ASSUME LeakInv, NEW c \in Callers, NEW place, Goes(c, place),
           UNCHANGED stored \/ \E f : stored' = [stored EXCEPT ![c] = f],
           place \in {"validating", "revalidating"} => stored'[c] \in Coherent,
           \/ UNCHANGED <<finding, result>>
           \/ \E how : /\ how # "success" /\ UNCHANGED finding
                       /\ result' = [result EXCEPT ![c] = how]
           \/ \E found : /\ Allows(found) /\ finding' = [finding EXCEPT ![c] = found]
                         /\ result' = [result EXCEPT ![c] = "success"]
    PROVE  LeakInv'
<1>1. DOMAIN pc' = Callers /\ pc'[c] = place /\ \A d \in Callers \ {c} : pc'[d] = pc[d]
  BY DEF Goes, LeakInv
<1>2. DOMAIN stored' = Callers /\ \A d \in Callers \ {c} : stored'[d] = stored[d]
  BY DEF LeakInv
<1>3. /\ DOMAIN finding' = Callers /\ DOMAIN result' = Callers
      /\ \A d \in Callers : result'[d] = "success" => Allows(finding'[d])
  BY DEF LeakInv
<1> QED BY <1>1, <1>2, <1>3 DEF LeakInv

LEMMA LeakInvNext == LeakInv /\ [CreationNext]_creationVars => LeakInv'
<1> SUFFICES ASSUME LeakInv, [CreationNext]_creationVars PROVE LeakInv' OBVIOUS
<1> USE DEF profileVars
<1>1. ASSUME NEW c \in Callers, Arrives(c) \/ TakesSlot(c) \/ TriesAgain(c) PROVE LeakInv'
  <2>1. UNCHANGED <<stored, finding, result>> BY <1>1 DEF Arrives, TakesSlot, TriesAgain
  <2>2. PICK place \in {"queued", "ready", "racing"} : Goes(c, place)
    BY <1>1 DEF Arrives, TakesSlot, TriesAgain
  <2> QED BY <2>1, <2>2, OneCallKeepsLeakInv
<1>2. ASSUME NEW c \in Callers, Refuses(c) \/ GivesUp(c) \/ TimeoutEnds(c) PROVE LeakInv'
  <2>1. UNCHANGED profileVars BY <1>2 DEF Refuses, GivesUp, TimeoutEnds
  <2>2. PICK how \in {"refused", "failed", "timeout"} : Ends(c, how)
    BY <1>2 DEF Refuses, GivesUp, TimeoutEnds
  <2> QED BY <2>1, <2>2, OneCallKeepsLeakInv DEF Ends
<1>3. ASSUME NEW c \in Callers,
             \/ AnswersLocally(c) \/ RaceReturns(c) \/ TimesOut(c)
             \/ \E k \in Keys : RaceWon(c, k)
      PROVE  LeakInv'
  <2>1. UNCHANGED <<stored, finding, result>>
    BY <1>3 DEF AnswersLocally, RaceReturns, TimesOut, RaceWon
  <2>2. PICK place \in {"answered", "timing out", "winning"} : Goes(c, place)
    BY <1>3 DEF AnswersLocally, RaceReturns, TimesOut, RaceWon
  <2> QED BY <2>1, <2>2, OneCallKeepsLeakInv
<1>4. ASSUME NEW c \in Callers,
             \/ BatchStarts(c) \/ RaceLost(c)
             \/ \E k \in Keys : Posts(c, k) \/ Stops(c, k) \/ Responds(c, k) \/ RequestFails(c, k)
      PROVE  LeakInv'
  <2>1. UNCHANGED <<pc, stored, finding, result>>
    <3>1. CASE BatchStarts(c) \/ RaceLost(c) BY <3>1 DEF BatchStarts, RaceLost
    <3>2. ASSUME NEW k \in Keys, Posts(c, k) \/ Stops(c, k) \/ Responds(c, k) \/ RequestFails(c, k)
          PROVE  UNCHANGED <<pc, stored, finding, result>>
      BY <3>2 DEF Posts, Stops, Responds, RequestFails
    <3> QED BY <1>4, <3>1, <3>2
  <2> QED BY <2>1 DEF LeakInv
<1>5. ASSUME NEW c \in Callers, Registers(c) PROVE LeakInv'
  <2>1. UNCHANGED finding BY <1>5 DEF Registers
  <2>2. PICK f \in AnswerOf(c) :
          \/ Ends(c, "failed") /\ UNCHANGED stored
          \/ Goes(c, "ready") /\ UNCHANGED <<stored, result>>
          \/ /\ f \in Coherent /\ stored' = [stored EXCEPT ![c] = f]
             /\ Goes(c, "validating") /\ UNCHANGED result
    BY <1>5 DEF Registers
  <2>3. CASE Ends(c, "failed") /\ UNCHANGED stored
    BY <2>1, <2>3, OneCallKeepsLeakInv DEF Ends
  <2>4. CASE Goes(c, "ready") /\ UNCHANGED <<stored, result>>
    BY <2>1, <2>4, OneCallKeepsLeakInv
  <2>5. CASE /\ f \in Coherent /\ stored' = [stored EXCEPT ![c] = f]
             /\ Goes(c, "validating") /\ UNCHANGED result
    <3>1. stored'[c] = f BY <2>5 DEF LeakInv
    <3> QED BY <2>1, <2>5, <3>1, OneCallKeepsLeakInv
  <2> QED BY <2>2, <2>3, <2>4, <2>5
<1>6. ASSUME NEW c \in Callers, Validates(c) PROVE LeakInv'
  <2>1. stored[c] \in Coherent BY <1>6 DEF Validates, LeakInv
  <2>2. \/ \E v \in Verdict[stored[c]] :
             /\ IF v.accepts
                THEN Ends(c, "success") /\ finding' = [finding EXCEPT ![c] = v.found]
                ELSE Goes(c, "revalidating") /\ UNCHANGED <<finding, result>>
             /\ UNCHANGED stored
        \/ /\ stored' = [stored EXCEPT ![c] = NoProfile]
           /\ Ends(c, "failed") /\ UNCHANGED finding
    BY <1>6 DEF Validates
  <2>3. ASSUME NEW v \in Verdict[stored[c]], v.accepts, UNCHANGED stored,
               Ends(c, "success"), finding' = [finding EXCEPT ![c] = v.found]
        PROVE  LeakInv'
    <3>1. Allows(v.found) BY <2>1, <2>3, VerdictAccepts
    <3> QED BY <2>3, <3>1, OneCallKeepsLeakInv DEF Ends
  <2>4. CASE Goes(c, "revalidating") /\ UNCHANGED <<stored, finding, result>>
    BY <2>1, <2>4, OneCallKeepsLeakInv
  <2>5. CASE /\ stored' = [stored EXCEPT ![c] = NoProfile]
             /\ Ends(c, "failed") /\ UNCHANGED finding
    BY <2>5, OneCallKeepsLeakInv DEF Ends
  <2> QED BY <2>2, <2>3, <2>4, <2>5
<1>7. ASSUME NEW c \in Callers, Revalidates(c) PROVE LeakInv'
  <2>1. stored[c] \in Coherent BY <1>7 DEF Revalidates, LeakInv
  <2>2. \/ \E v \in Verdict[stored[c]] :
             \/ /\ v.accepts
                /\ finding' = [finding EXCEPT ![c] = v.found]
                /\ Ends(c, "success") /\ UNCHANGED stored
             \/ /\ stored' = [stored EXCEPT ![c] = NoProfile]
                /\ Goes(c, "ready") /\ UNCHANGED <<finding, result>>
        \/ Ends(c, "raised") /\ UNCHANGED profileVars
    BY <1>7 DEF Revalidates
  <2>3. ASSUME NEW v \in Verdict[stored[c]], v.accepts, UNCHANGED stored,
               Ends(c, "success"), finding' = [finding EXCEPT ![c] = v.found]
        PROVE  LeakInv'
    <3>1. Allows(v.found) BY <2>1, <2>3, VerdictAccepts
    <3> QED BY <2>3, <3>1, OneCallKeepsLeakInv DEF Ends
  <2>4. CASE /\ stored' = [stored EXCEPT ![c] = NoProfile]
             /\ Goes(c, "ready") /\ UNCHANGED <<finding, result>>
    BY <2>4, OneCallKeepsLeakInv
  <2>5. CASE Ends(c, "raised") /\ UNCHANGED profileVars
    BY <2>5, OneCallKeepsLeakInv DEF Ends
  <2> QED BY <2>2, <2>3, <2>4, <2>5
<1>8. CASE UNCHANGED creationVars BY <1>8 DEF creationVars, LeakInv
<1>9. CASE CreationNext
  <2>1. PICK c \in Callers :
          \/ Arrives(c) \/ TakesSlot(c) \/ TriesAgain(c) \/ GivesUp(c) \/ Refuses(c)
          \/ BatchStarts(c) \/ RaceLost(c) \/ AnswersLocally(c) \/ RaceReturns(c)
          \/ TimesOut(c) \/ TimeoutEnds(c) \/ Registers(c) \/ Validates(c) \/ Revalidates(c)
          \/ \E k \in Keys : \/ Posts(c, k) \/ RaceWon(c, k) \/ Stops(c, k)
                             \/ Responds(c, k) \/ RequestFails(c, k)
    BY <1>9 DEF CreationNext, Runs, ServiceEnds
  <2> QED BY <1>1, <1>2, <1>3, <1>4, <1>5, <1>6, <1>7, <2>1
<1> QED BY <1>8, <1>9

(* NoSevereLeakAccepted, for any fingerprints the service may answer with: *)
(* no call succeeds on a scan that found a sign of automation or did not   *)
(* run, whatever a second opinion within its scale says, and nothing else  *)
(* is assumed of the numbers it may come with (_calculate_final_score).    *)
THEOREM SevereLeaksAreRefused == CreationSpec => []NoSevereLeakAccepted
<1>1. CreationInit => LeakInv BY DEF CreationInit, LeakInv
<1>2. LeakInv => NoSevereLeakAccepted BY DEF LeakInv, Allows, NoSevereLeakAccepted
<1> QED BY <1>1, <1>2, LeakInvNext, PTL DEF CreationSpec

-----------------------------------------------------------------------------
(* ProfileSettings: the dictionary of privacy settings.                    *)

LEMMA AdvancedIsNotNothing ==
    /\ NoSettings \notin Advanced
    /\ Nothing \in Advanced /\ Nothing.mode = "unset" /\ Nothing.webrtc = "unset"
<1>1. \A a \in Advanced : a.mode # "no profile" BY DEF Advanced, Modes
<1> QED BY <1>1 DEF NoSettings, Nothing, Advanced

\* dict.update keeps what the new dictionary does not name.
LEMMA UpdateIs ==
    ASSUME NEW old \in Advanced, NEW new \in Advanced
    PROVE  /\ Update(old, new) \in Advanced
           /\ Update(old, new).mode = IF new.mode = "unset" THEN old.mode ELSE new.mode
           /\ Update(old, new).webrtc = IF new.webrtc = "unset" THEN old.webrtc ELSE new.webrtc
<1> DEFINE u == [mode |-> IF new.mode = "unset" THEN old.mode ELSE new.mode,
                 webrtc |-> IF new.webrtc = "unset" THEN old.webrtc ELSE new.webrtc,
                 workers |-> IF new.workers = "unset" THEN old.workers ELSE new.workers]
<1>1. DOMAIN old = {"mode", "webrtc", "workers"} BY DEF Advanced
<1>2. Update(old, new) = u BY <1>1 DEF Update
<1>3. u \in Advanced BY DEF Advanced
<1> QED BY <1>2, <1>3

\* What the normalization makes of the mode, and of WebRTC.
LEMMA NormalizedIs ==
    ASSUME NEW a \in Advanced
    PROVE  LET n == Normalized(a) IN
           /\ n \in Advanced /\ n.mode \in Modes
           /\ a.mode # "unset" => n.mode = Reading(a.mode)
           /\ n.webrtc = IF n.mode = "high" THEN "disabled" ELSE a.webrtc
<1> DEFINE mode == IF a.mode = "unset" THEN IF proxyRequired THEN "high" ELSE "standard"
                   ELSE IF a.mode \in Modes THEN a.mode ELSE "standard"
<1>1. mode \in Modes /\ (a.mode # "unset" => mode = Reading(a.mode)) BY DEF Modes, Reading
<1>2. Normalized(a) = [a EXCEPT !.mode = mode,
                                !.webrtc = IF mode = "high" THEN "disabled" ELSE @,
                                !.workers = IF mode = "high" THEN "on" ELSE @]
  BY DEF Normalized
<1> HIDE DEF mode
<1>3. /\ Normalized(a) \in Advanced /\ Normalized(a).mode = mode
      /\ Normalized(a).webrtc = IF mode = "high" THEN "disabled" ELSE a.webrtc
  BY <1>1, <1>2 DEF Advanced
<1> QED BY <1>1, <1>3

\* Without the high mode a dictionary is launchable as long as WebRTC is one of three.
LEMMA NormalizedIsLaunchable ==
    ASSUME NEW a \in Advanced,
           \/ a.webrtc \in {"unset", "protected", "altered"}
           \/ Normalized(a).mode = "high"
    PROVE  IsLaunchable(Normalized(a))
BY NormalizedIs DEF IsLaunchable

LEMMA ValidatedIs ==
    ASSUME NEW a \in Advanced
    PROVE  LET v == Validated(a) IN
           /\ v \in Advanced /\ v.mode = a.mode /\ v.webrtc \in {"unset", "protected"}
BY DEF Validated, Advanced

LEMMA CreatedIs ==
    ASSUME NEW a \in Advanced, a.mode \in Modes \cup {"unset"},
           a.webrtc \in {"unset", "protected", "altered"}
    PROVE  /\ Created(a) \in Advanced /\ Created(a).mode \in Modes
           /\ a.mode # "unset" => Created(a).mode = a.mode
           /\ IsLaunchable(Created(a))
<1> DEFINE b == [Nothing EXCEPT !.mode = a.mode, !.webrtc = a.webrtc]
<1>1. b \in Advanced /\ b.mode = a.mode /\ b.webrtc = a.webrtc BY DEF Nothing, Advanced
<1>2. Created(a) = Normalized(b) BY DEF Created
<1> HIDE DEF b
<1> QED BY <1>1, <1>2, NormalizedIs, NormalizedIsLaunchable DEF Reading

LEMMA WithDefaultsIs ==
    ASSUME NEW a \in Advanced
    PROVE  /\ WithDefaults(a) \in Advanced
           /\ WithDefaults(a).mode = IF a.mode = "unset" THEN "standard" ELSE a.mode
BY DEF WithDefaults, Advanced, Modes

ModeIsKept ==
    (Exists /\ asked # "unset" /\ ~reset) =>
        advanced.mode # "unset" /\ Reading(advanced.mode) = asked

SettingsInv == SettingsTypeOK /\ ModeIsKept /\ AcceptedIsLaunchable

LEMMA CreatesKeepsSettings ==
    ASSUME SettingsInv, NEW ui \in Advanced, NEW hasProxy \in BOOLEAN,
           NEW throughModel \in BOOLEAN, Creates(ui, hasProxy, throughModel)
    PROVE  SettingsInv'
<1> DEFINE filled == IF throughModel THEN WithDefaults(ui) ELSE ui
           valid == Validated(filled)
<1>1. /\ IsValid(filled) /\ advanced' = Created(valid)
      /\ asked' = IF ui.mode = "unset" THEN advanced'.mode ELSE ui.mode
      /\ UNCHANGED <<proxyRequired, browser, data, reset, patched>>
      /\ proxied' = hasProxy /\ verified' = TRUE
  BY DEF Creates, session
<1>2. filled \in Advanced /\ (ui.mode # "unset" => filled.mode = ui.mode)
  BY WithDefaultsIs
<1>3. filled.mode \in Modes \cup {"unset"} BY <1>1 DEF IsValid
<1> HIDE DEF filled
<1>4. /\ valid \in Advanced /\ valid.mode = filled.mode
      /\ valid.webrtc \in {"unset", "protected", "altered"}
  BY <1>2, ValidatedIs
<1> HIDE DEF valid
<1>5. /\ advanced' \in Advanced /\ advanced'.mode \in Modes
      /\ valid.mode # "unset" => advanced'.mode = valid.mode
      /\ IsLaunchable(advanced')
  BY <1>1, <1>3, <1>4, CreatedIs
<1>6. asked' \in Modes /\ Reading(advanced'.mode) = asked' /\ advanced'.mode # "unset"
  <2>1. CASE ui.mode = "unset" BY <1>1, <1>5, <2>1 DEF Reading, Modes
  <2>2. CASE ui.mode # "unset"
    <3>1. filled.mode = ui.mode BY <1>2, <2>2
    <3>2. advanced'.mode = ui.mode /\ asked' = ui.mode BY <1>1, <1>4, <1>5, <2>2, <3>1
    <3> QED BY <1>5, <2>2, <3>2 DEF Reading
  <2> QED BY <2>1, <2>2
<1>7. SettingsTypeOK' BY <1>1, <1>5, <1>6 DEF SettingsInv, SettingsTypeOK
<1>8. ModeIsKept' BY <1>6 DEF ModeIsKept
<1>9. AcceptedIsLaunchable' BY <1>5 DEF AcceptedIsLaunchable, IsLaunchable
<1> QED BY <1>7, <1>8, <1>9 DEF SettingsInv

LEMMA ClonesKeepsSettings ==
    ASSUME SettingsInv, NEW followsCopy \in BOOLEAN, Clones(followsCopy)
    PROVE  SettingsInv'
<1> DEFINE valid == Validated(advanced)
<1>1. /\ Exists /\ IsValid(advanced)
      /\ advanced' = IF followsCopy THEN Created(valid) ELSE valid
      /\ verified' = (followsCopy \/ verified)
      /\ asked' = IF followsCopy /\ advanced.mode = "unset" THEN "unset" ELSE asked
      /\ data' = (data /\ ~followsCopy)
      /\ UNCHANGED <<proxyRequired, proxied, reset>>
  BY DEF Clones
<1>2. advanced \in Advanced BY <1>1 DEF SettingsInv, SettingsTypeOK, Exists
<1>3. advanced.mode \in Modes \cup {"unset"} BY <1>1 DEF IsValid
<1>4. /\ valid \in Advanced /\ valid.mode = advanced.mode
      /\ valid.webrtc \in {"unset", "protected", "altered"}
  BY <1>2, ValidatedIs
<1> HIDE DEF valid
<1>5. /\ Created(valid) \in Advanced
      /\ valid.mode # "unset" => Created(valid).mode = valid.mode
      /\ IsLaunchable(Created(valid))
  BY <1>3, <1>4, CreatedIs
<1>6. IsLaunchable(valid) BY <1>4 DEF IsLaunchable
<1>7. patched' = (patched /\ ~followsCopy) BY DEF Clones
<1>8. SettingsTypeOK'
  <2>1. advanced' \in Advanced BY <1>1, <1>4, <1>5
  <2>2. verified' \in BOOLEAN /\ data' \in BOOLEAN /\ patched' \in BOOLEAN
    BY <1>1, <1>7, Zenon DEF SettingsInv, SettingsTypeOK
  <2>3. asked' \in Modes \cup {"unset"} BY <1>1 DEF SettingsInv, SettingsTypeOK
  <2> QED BY <1>1, <2>1, <2>2, <2>3 DEF SettingsInv, SettingsTypeOK
<1>9. ModeIsKept'
  <2> SUFFICES ASSUME asked' # "unset", ~reset'
               PROVE  advanced'.mode # "unset" /\ Reading(advanced'.mode) = asked'
    BY DEF ModeIsKept
  <2>1. asked' = asked /\ asked # "unset" /\ ~reset BY <1>1
  <2>2. advanced.mode # "unset" /\ Reading(advanced.mode) = asked
    BY <1>1, <2>1 DEF SettingsInv, ModeIsKept
  <2>3. advanced'.mode = advanced.mode BY <1>1, <1>4, <1>5, <2>2
  <2> QED BY <2>1, <2>2, <2>3
<1>10. AcceptedIsLaunchable'
  <2>1. IsLaunchable(advanced') BY <1>1, <1>5, <1>6
  <2> QED BY <2>1 DEF AcceptedIsLaunchable, IsLaunchable
<1> QED BY <1>8, <1>9, <1>10 DEF SettingsInv

LEMMA ImportsKeepsSettings ==
    ASSUME SettingsInv, NEW a \in Advanced, NEW hasProxy \in BOOLEAN, Imports(a, hasProxy)
    PROVE  SettingsInv'
<1>1. /\ advanced' = [a EXCEPT !.webrtc = "protected"]
      /\ asked' = IF a.mode = "unset" THEN "unset" ELSE Reading(a.mode)
      /\ proxied' = hasProxy /\ verified' = FALSE
      /\ UNCHANGED <<proxyRequired, data, reset, patched>>
  BY DEF Imports, session
<1>2. advanced' \in Advanced /\ advanced'.mode = a.mode /\ advanced'.webrtc = "protected"
  BY <1>1 DEF Advanced
<1>3. asked' \in Modes \cup {"unset"} BY <1>1 DEF Reading, Modes
<1>4. SettingsTypeOK' BY <1>1, <1>2, <1>3 DEF SettingsInv, SettingsTypeOK
<1>5. ModeIsKept' BY <1>1, <1>2 DEF ModeIsKept, Reading
<1>6. AcceptedIsLaunchable' BY <1>2 DEF AcceptedIsLaunchable, IsLaunchable
<1> QED BY <1>4, <1>5, <1>6 DEF SettingsInv

LEMMA RestoresKeepsSettings ==
    ASSUME SettingsInv, Restores
    PROVE  SettingsInv'
<1> DEFINE once == Normalized(advanced)
           both == Update(once, advanced)
<1>1. Exists /\ advanced' = Normalized(both) /\ UNCHANGED <<identity, session, asked, reset, patched>>
  BY DEF Restores
<1>2. advanced \in Advanced BY <1>1 DEF SettingsInv, SettingsTypeOK, Exists
<1>3. /\ once \in Advanced /\ once.mode \in Modes
      /\ once.webrtc = IF once.mode = "high" THEN "disabled" ELSE advanced.webrtc
      /\ advanced.mode # "unset" => once.mode = Reading(advanced.mode)
  BY <1>2, NormalizedIs
<1> HIDE DEF once
<1>4. /\ both \in Advanced
      /\ both.mode = IF advanced.mode = "unset" THEN once.mode ELSE advanced.mode
      /\ both.webrtc = IF advanced.webrtc = "unset" THEN once.webrtc ELSE advanced.webrtc
  BY <1>2, <1>3, UpdateIs
<1> HIDE DEF both
<1>5. both.mode # "unset" BY <1>3, <1>4 DEF Modes
<1>6. /\ advanced' \in Advanced /\ advanced'.mode = Reading(both.mode)
      /\ advanced'.webrtc = IF advanced'.mode = "high" THEN "disabled" ELSE both.webrtc
  BY <1>1, <1>4, <1>5, NormalizedIs
<1>7. SettingsTypeOK' BY <1>1, <1>6 DEF SettingsInv, SettingsTypeOK, identity, session
<1>8. ModeIsKept'
  BY <1>1, <1>4, <1>6 DEF SettingsInv, ModeIsKept, Reading, Modes
<1>9. AcceptedIsLaunchable'
  <2> SUFFICES ASSUME ~patched, advanced'.mode # "high"
               PROVE  advanced'.webrtc \in {"unset", "protected", "altered"}
    BY <1>1, <1>6 DEF AcceptedIsLaunchable, IsLaunchable
  <2>1. advanced.mode # "high"
    BY <1>4, <1>6 DEF Reading, Modes
  <2>2. advanced.webrtc \in {"unset", "protected", "altered"}
    BY <1>1, <2>1 DEF SettingsInv, AcceptedIsLaunchable, IsLaunchable
  <2>3. once.mode # "high" \/ advanced.mode # "unset" BY <1>3, <1>4, <1>6 DEF Reading, Modes
  <2>4. once.mode # "high"
    <3>1. CASE advanced.mode = "unset" BY <2>3, <3>1
    <3>2. CASE advanced.mode # "unset" BY <1>3, <2>1, <3>2 DEF Reading
    <3> QED BY <3>1, <3>2
  <2> QED BY <1>3, <1>4, <1>6, <2>2, <2>4
<1> QED BY <1>7, <1>8, <1>9 DEF SettingsInv

\* A write: what update_profile makes of the dictionary that is there.
LEMMA WritesIs ==
    ASSUME SettingsInv, NEW a \in Advanced, Writes(a)
    PROVE  /\ advanced \in Advanced /\ advanced' \in Advanced /\ advanced'.mode \in Modes
           /\ a.mode # "unset" => advanced'.mode = Reading(a.mode)
           /\ a.mode = "unset" /\ advanced.mode # "unset" => advanced'.mode = Reading(advanced.mode)
           /\ advanced'.webrtc = IF advanced'.mode = "high" THEN "disabled"
                                 ELSE IF a.webrtc = "unset" THEN advanced.webrtc ELSE a.webrtc
<1> DEFINE u == Update(advanced, a)
<1>1. Exists /\ advanced' = Normalized(u) BY DEF Writes
<1>2. advanced \in Advanced BY <1>1 DEF SettingsInv, SettingsTypeOK, Exists
<1>3. /\ u \in Advanced
      /\ u.mode = IF a.mode = "unset" THEN advanced.mode ELSE a.mode
      /\ u.webrtc = IF a.webrtc = "unset" THEN advanced.webrtc ELSE a.webrtc
  BY <1>2, UpdateIs
<1> HIDE DEF u
<1>4. /\ advanced' \in Advanced /\ advanced'.mode \in Modes
      /\ u.mode # "unset" => advanced'.mode = Reading(u.mode)
      /\ advanced'.webrtc = IF advanced'.mode = "high" THEN "disabled" ELSE u.webrtc
  BY <1>1, <1>3, NormalizedIs
<1> QED BY <1>2, <1>3, <1>4

\* A write that anybody may send: nobody has validated it.
LEMMA PatchKeepsSettings ==
    ASSUME SettingsInv, NEW a \in Advanced, Writes(a),
           UNCHANGED <<identity, session>>, patched' = TRUE, NEW b \in BOOLEAN, reset' = b,
           \/ a.mode # "unset" /\ asked' = Reading(a.mode)
           \/ a.mode = "unset" /\ asked' = asked /\ (reset => b)
    PROVE  SettingsInv'
<1>1. /\ advanced \in Advanced /\ advanced' \in Advanced /\ advanced'.mode \in Modes
      /\ a.mode # "unset" => advanced'.mode = Reading(a.mode)
      /\ a.mode = "unset" /\ advanced.mode # "unset" => advanced'.mode = Reading(advanced.mode)
  BY WritesIs
<1>2. asked' \in Modes \cup {"unset"} BY DEF SettingsInv, SettingsTypeOK, Reading, Modes
<1>3. SettingsTypeOK' BY <1>1, <1>2 DEF SettingsInv, SettingsTypeOK, identity, session
<1>4. Exists BY DEF Writes
<1>5. advanced'.mode # "unset" /\ Reading(advanced'.mode) = advanced'.mode
  BY <1>1 DEF Reading, Modes
<1>6. ModeIsKept'
  <2> SUFFICES ASSUME asked' # "unset", ~reset' PROVE Reading(advanced'.mode) = asked'
    BY <1>5 DEF ModeIsKept
  <2>1. CASE a.mode # "unset" BY <1>1, <1>5, <2>1
  <2>2. CASE a.mode = "unset"
    <3>1. asked' = asked /\ ~reset BY <2>2
    <3>2. advanced.mode # "unset" /\ Reading(advanced.mode) = asked
      BY <1>4, <3>1 DEF SettingsInv, ModeIsKept
    <3> QED BY <1>1, <1>5, <2>2, <3>1, <3>2
  <2> QED BY <2>1, <2>2
<1>7. AcceptedIsLaunchable' BY DEF AcceptedIsLaunchable
<1> QED BY <1>3, <1>6, <1>7 DEF SettingsInv

LEMMA PatchesModeKeepsSettings ==
    ASSUME SettingsInv, NEW mode \in Modes, PatchesMode(mode)
    PROVE  SettingsInv'
<1> DEFINE a == [Nothing EXCEPT !.mode = mode]
<1>1. a \in Advanced /\ a.mode = mode /\ a.webrtc = "unset" BY DEF Nothing, Advanced
<1>2. /\ Writes(a) /\ asked' = mode /\ reset' = FALSE /\ UNCHANGED <<identity, session>>
      /\ patched' = (patched \/ (advanced.mode = "high" /\ mode # "high"))
  BY DEF PatchesMode
<1>3. mode # "unset" /\ Reading(mode) = mode BY DEF Modes, Reading
<1> HIDE DEF a
<1>4. /\ advanced \in Advanced /\ advanced' \in Advanced /\ advanced'.mode = mode
      /\ advanced'.webrtc = IF mode = "high" THEN "disabled" ELSE advanced.webrtc
  BY <1>1, <1>2, <1>3, WritesIs
<1>5. SettingsTypeOK'
  <2>1. patched' \in BOOLEAN BY <1>2, Zenon DEF SettingsInv, SettingsTypeOK
  <2> QED BY <1>2, <1>4, <2>1 DEF SettingsInv, SettingsTypeOK, identity, session
<1>6. ModeIsKept' BY <1>2, <1>3, <1>4 DEF ModeIsKept
<1>7. AcceptedIsLaunchable'
  <2> SUFFICES ASSUME ~patched', mode # "high"
               PROVE  advanced.webrtc \in {"unset", "protected", "altered"}
    BY <1>4 DEF AcceptedIsLaunchable, IsLaunchable
  <2>1. Exists BY <1>2 DEF Writes
  <2>2. ~patched /\ advanced.mode # "high" BY <1>2
  <2> QED BY <2>1, <2>2 DEF SettingsInv, AcceptedIsLaunchable, IsLaunchable
<1> QED BY <1>5, <1>6, <1>7 DEF SettingsInv

LEMMA SettingsInvNext == SettingsInv /\ [SettingsNext]_settingsVars => SettingsInv'
<1> SUFFICES ASSUME SettingsInv, [SettingsNext]_settingsVars PROVE SettingsInv' OBVIOUS
<1>1. ASSUME NEW a \in Advanced, PatchesAnything(a) PROVE SettingsInv'
  <2> DEFINE b == (reset /\ a.mode = "unset")
  <2>1. b \in BOOLEAN OBVIOUS
  <2>2. /\ Writes(a) /\ UNCHANGED <<identity, session>> /\ patched' = TRUE /\ reset' = b
        /\ asked' = IF a.mode = "unset" THEN asked ELSE Reading(a.mode)
    BY <1>1 DEF PatchesAnything
  <2>3. a.mode = "unset" => (reset => b) OBVIOUS
  <2> HIDE DEF b
  <2> QED BY <2>1, <2>2, <2>3, PatchKeepsSettings
<1>2. ASSUME NEW a \in Advanced, Edits(a) PROVE SettingsInv'
  <2> DEFINE b == (a.mode = "unset")
             d == WithDefaults(a)
  <2>1. /\ Writes(d) /\ UNCHANGED <<identity, session>> /\ patched' = TRUE /\ reset' = b
        /\ asked' = IF a.mode = "unset" THEN asked ELSE Reading(a.mode)
    BY <1>2 DEF Edits
  <2>2. d \in Advanced /\ d.mode = IF a.mode = "unset" THEN "standard" ELSE a.mode
    BY WithDefaultsIs
  <2> HIDE DEF d
  <2>3. CASE a.mode # "unset"
    <3>1. d.mode # "unset" /\ asked' = Reading(d.mode) /\ reset' = FALSE BY <2>1, <2>2, <2>3
    <3> QED BY <2>1, <2>2, <3>1, PatchKeepsSettings
  <2>4. CASE a.mode = "unset"
    <3>1. reset' = TRUE /\ asked' = asked BY <2>1, <2>4
    <3>2. advanced' \in Advanced BY <2>1, <2>2, WritesIs
    <3>3. SettingsTypeOK' BY <2>1, <3>1, <3>2 DEF SettingsInv, SettingsTypeOK, identity, session
    <3>4. ModeIsKept' BY <3>1 DEF ModeIsKept
    <3>5. AcceptedIsLaunchable' BY <2>1 DEF AcceptedIsLaunchable
    <3> QED BY <3>3, <3>4, <3>5 DEF SettingsInv
  <2> QED BY <2>3, <2>4
<1>3. ASSUME DialogEdits PROVE SettingsInv'
  <2> DEFINE a == [Nothing EXCEPT !.webrtc = "protected"]
  <2>1. a \in Advanced BY DEF Nothing, Advanced
  <2>2. Edits(a) BY <1>3 DEF DialogEdits
  <2> HIDE DEF a
  <2> QED BY <1>2, <2>1, <2>2
<1>4. ASSUME NEW paths, NEW env, Launches(paths, env) PROVE SettingsInv'
  <2> DEFINE mode == Reading(advanced.mode)
  <2>1. /\ Exists /\ IsLaunchable(advanced) /\ advanced' = [advanced EXCEPT !.mode = mode]
        /\ data' = TRUE /\ UNCHANGED <<proxyRequired, proxied, verified, asked, reset, patched>>
    BY <1>4 DEF Launches, identity
  <2>2. advanced \in Advanced BY <2>1 DEF SettingsInv, SettingsTypeOK, Exists
  <2>3. mode \in Modes /\ Reading(mode) = mode /\ mode # "unset"
        /\ (advanced.mode = "high" => mode = "high")
    BY DEF Reading, Modes
  <2>4. Reading(advanced.mode) = mode OBVIOUS
  <2> HIDE DEF mode
  <2>5. advanced' \in Advanced /\ advanced'.mode = mode /\ advanced'.webrtc = advanced.webrtc
    BY <2>1, <2>2, <2>3 DEF Advanced
  <2>6. SettingsTypeOK' BY <2>1, <2>5 DEF SettingsInv, SettingsTypeOK
  <2>7. ModeIsKept' BY <2>1, <2>3, <2>4, <2>5 DEF SettingsInv, ModeIsKept
  <2>8. AcceptedIsLaunchable' BY <2>1, <2>3, <2>5 DEF AcceptedIsLaunchable, IsLaunchable
  <2> QED BY <2>6, <2>7, <2>8 DEF SettingsInv
<1>5. ASSUME UNCHANGED <<proxyRequired, advanced, asked, reset, patched>>,
             proxied' \in BOOLEAN, verified' \in BOOLEAN, data' \in BOOLEAN
      PROVE  SettingsInv'
  BY <1>5 DEF SettingsInv, SettingsTypeOK, ModeIsKept, AcceptedIsLaunchable, Exists
<1>6. CASE (\E hasProxy \in BOOLEAN : PatchesProxy(hasProxy)) \/ WindowCloses \/ UNCHANGED settingsVars
  <2>1. /\ UNCHANGED <<proxyRequired, advanced, asked, reset, patched>>
        /\ proxied' \in BOOLEAN /\ verified' \in BOOLEAN /\ data' \in BOOLEAN
    BY <1>6 DEF SettingsInv, SettingsTypeOK, PatchesProxy, WindowCloses, settingsVars, identity, session
  <2> QED BY <1>5, <2>1
<1>7. CASE Closes
  <2>1. data' = (data /\ advanced.mode # "ephemeral") BY <1>7 DEF Closes
  <2>2. data' \in BOOLEAN BY <2>1, Zenon
  <2>3. /\ UNCHANGED <<proxyRequired, advanced, asked, reset, patched>>
        /\ proxied' \in BOOLEAN /\ verified' \in BOOLEAN
    BY <1>7 DEF SettingsInv, SettingsTypeOK, Closes, identity
  <2> QED BY <1>5, <2>2, <2>3
<1> QED
  BY <1>1, <1>2, <1>3, <1>4, <1>6, <1>7, CreatesKeepsSettings, ImportsKeepsSettings,
     ClonesKeepsSettings, RestoresKeepsSettings, PatchesModeKeepsSettings DEF SettingsNext

LEMMA SettingsInvInit == SettingsInit => SettingsInv
BY DEF SettingsInit, SettingsInv, SettingsTypeOK, ModeIsKept, AcceptedIsLaunchable, Exists

(* ModeIsAsAsked: through clones, imports, restores, partial writes and    *)
(* launches a profile keeps the mode it was asked to have, up to an edit   *)
(* that leaves it to the defaults (see EditKeepsMode).                     *)
THEOREM ModesAreKept == SettingsSpec => []ModeIsAsAsked
<1>1. SettingsInv => ModeIsAsAsked BY DEF SettingsInv, ModeIsKept, ModeIsAsAsked
<1> QED BY <1>1, SettingsInvInit, SettingsInvNext, PTL DEF SettingsSpec

(* AcceptedIsLaunchable: what creation, clone, import and restore accept,  *)
(* normalize_webrtc_mode accepts, until a write that nobody validates.     *)
THEOREM AcceptedLaunches == SettingsSpec => []AcceptedIsLaunchable
<1>1. SettingsInv => AcceptedIsLaunchable BY DEF SettingsInv
<1> QED BY <1>1, SettingsInvInit, SettingsInvNext, PTL DEF SettingsSpec

-----------------------------------------------------------------------------
(* The command line.  What it says of a switch is the value of the last    *)
(* one of that name; features are widened in place, and there is only one  *)
(* switch of them.                                                         *)

Names == {"blink", "features", "disable-extensions", "load-extension", "webrtc-policy",
          "resolver", "debugging"}
Words == {"AutomationControlled", "BatteryStatus", "MediaRouter", "ThirdPartyCookies", "WebGPU",
          "ServiceWorker", "extension", "proxied udp only", "test host", "proxy host only",
          "loopback"}
Switch == [switch : Names, value : SUBSET Words]

Says(args, switch, value) ==
    \/ value = {} /\ \A i \in DOMAIN args : args[i].switch # switch
    \/ \E i \in DOMAIN args :
          /\ args[i].switch = switch /\ args[i].value = value
          /\ \A j \in DOMAIN args : args[j].switch = switch => j <= i

SaysOnce(args, switch, value) ==
    \E i \in DOMAIN args :
       /\ args[i].switch = switch /\ args[i].value = value
       /\ \A j \in DOMAIN args : args[j].switch = switch => j = i

LEMMA SaysIsEffective ==
    ASSUME NEW args \in Seq(Switch), NEW switch, NEW value, Says(args, switch, value)
    PROVE  Effective(args, switch) = value
<1> DEFINE found == {i \in DOMAIN args : args[i].switch = switch}
<1>1. Effective(args, switch) = IF found = {} THEN {} ELSE args[Max(found)].value
  BY DEF Effective
<1>2. CASE value = {} /\ \A i \in DOMAIN args : args[i].switch # switch
  BY <1>1, <1>2
<1>3. CASE \E i \in DOMAIN args :
             /\ args[i].switch = switch /\ args[i].value = value
             /\ \A j \in DOMAIN args : args[j].switch = switch => j <= i
  <2>1. PICK i \in DOMAIN args :
             /\ args[i].switch = switch /\ args[i].value = value
             /\ \A j \in DOMAIN args : args[j].switch = switch => j <= i
    BY <1>3
  <2>2. DOMAIN args \subseteq Int OBVIOUS
  <2>3. i \in found /\ \A j \in found : i >= j BY <2>1, <2>2
  <2>4. found \subseteq Int BY <2>2
  <2> HIDE DEF found
  <2>5. Max(found) = i
    <3>1. Max(found) \in found /\ \A j \in found : Max(found) >= j BY <2>3 DEF Max
    <3> QED BY <2>3, <2>4, <3>1
  <2> QED BY <1>1, <2>1, <2>3, <2>5
<1> QED BY <1>2, <1>3 DEF Says

LEMMA OnceIsSaid ==
    ASSUME NEW args \in Seq(Switch), NEW switch, NEW value, SaysOnce(args, switch, value)
    PROVE  Says(args, switch, value)
BY DEF Says, SaysOnce

\* A switch at the end: it says what it says, and leaves the others alone.
LEMMA AddsIs ==
    ASSUME NEW args \in Seq(Switch), NEW s \in Names, NEW w \in SUBSET Words
    PROVE  /\ Adds(args, s, w) \in Seq(Switch)
           /\ Says(Adds(args, s, w), s, w)
           /\ \A t, v : t # s /\ Says(args, t, v) => Says(Adds(args, s, w), t, v)
           /\ \A t, v : t # s /\ SaysOnce(args, t, v) => SaysOnce(Adds(args, s, w), t, v)
<1> DEFINE new == Adds(args, s, w)
           n == Len(args)
           e == [switch |-> s, value |-> w]
<1>1. e \in Switch /\ e.switch = s /\ e.value = w BY DEF Switch
<1>2. new = Append(args, e) BY DEF Adds
<1> HIDE DEF e
<1>3. /\ n \in Nat /\ DOMAIN args = 1..n
      /\ new \in Seq(Switch) /\ DOMAIN new = 1..(n + 1) /\ new[n + 1] = e
      /\ \A i \in 1..n : new[i] = args[i]
  BY <1>1, <1>2
<1> HIDE DEF new, n
<1>4. Says(new, s, w)
  <2>1. n + 1 \in DOMAIN new /\ \A j \in DOMAIN new : j <= n + 1 BY <1>3
  <2> QED BY <1>1, <1>3, <2>1 DEF Says
<1>5. ASSUME NEW t, NEW v, t # s, Says(args, t, v) PROVE Says(new, t, v)
  <2>1. CASE v = {} /\ \A i \in DOMAIN args : args[i].switch # t
    <3>1. \A i \in DOMAIN new : new[i].switch # t
      <4> SUFFICES ASSUME NEW i \in DOMAIN new PROVE new[i].switch # t OBVIOUS
      <4>1. i \in 1..n \/ i = n + 1 BY <1>3
      <4> QED BY <1>1, <1>3, <1>5, <2>1, <4>1
    <3> QED BY <2>1, <3>1 DEF Says
  <2>2. ASSUME NEW i \in DOMAIN args, args[i].switch = t, args[i].value = v,
               \A j \in DOMAIN args : args[j].switch = t => j <= i
        PROVE  Says(new, t, v)
    <3>1. i \in DOMAIN new /\ new[i].switch = t /\ new[i].value = v BY <1>3, <2>2
    <3>2. ASSUME NEW j \in DOMAIN new, new[j].switch = t PROVE j <= i
      <4>1. j \in 1..n \/ j = n + 1 BY <1>3
      <4>2. j # n + 1 BY <1>1, <1>3, <1>5, <3>2
      <4> QED BY <1>3, <2>2, <3>2, <4>1, <4>2
    <3> QED BY <3>1, <3>2 DEF Says
  <2> QED BY <1>5, <2>1, <2>2 DEF Says
<1>6. ASSUME NEW t, NEW v, t # s, SaysOnce(args, t, v) PROVE SaysOnce(new, t, v)
  <2>1. PICK i \in DOMAIN args : /\ args[i].switch = t /\ args[i].value = v
                                 /\ \A j \in DOMAIN args : args[j].switch = t => j = i
    BY <1>6 DEF SaysOnce
  <2>2. i \in DOMAIN new /\ new[i].switch = t /\ new[i].value = v BY <1>3, <2>1
  <2>3. ASSUME NEW j \in DOMAIN new, new[j].switch = t PROVE j = i
    <3>1. j \in 1..n \/ j = n + 1 BY <1>3
    <3>2. j # n + 1 BY <1>1, <1>3, <1>6, <2>3
    <3> QED BY <1>3, <2>1, <2>3, <3>1, <3>2
  <2> QED BY <2>2, <2>3 DEF SaysOnce
<1> QED BY <1>3, <1>4, <1>5, <1>6 DEF new

LEMMA AddsUniqueIs ==
    ASSUME NEW args \in Seq(Switch), NEW s \in Names, NEW w \in SUBSET Words
    PROVE  /\ AddsUnique(args, s, w) \in Seq(Switch)
           /\ \A t, v : t # s /\ Says(args, t, v) => Says(AddsUnique(args, s, w), t, v)
           /\ \A t, v : t # s /\ SaysOnce(args, t, v) => SaysOnce(AddsUnique(args, s, w), t, v)
BY AddsIs DEF AddsUnique

LEMMA SwitchWithIs ==
    ASSUME NEW a \in Switch, NEW v \in SUBSET Words
    PROVE  LET b == [a EXCEPT !.value = v]
           IN  b \in Switch /\ b.switch = a.switch /\ b.value = v
BY DEF Switch

\* The one switch of a name is widened; nothing else is.
LEMMA WidensIs ==
    ASSUME NEW args \in Seq(Switch), NEW s \in Names, NEW w, SaysOnce(args, s, w),
           NEW more \in SUBSET Words
    PROVE  /\ Widens(args, s, more) \in Seq(Switch)
           /\ SaysOnce(Widens(args, s, more), s, w \cup more)
           /\ \A t, v : t # s /\ Says(args, t, v) => Says(Widens(args, s, more), t, v)
<1> DEFINE found == {k \in DOMAIN args : args[k].switch = s}
           new == Widens(args, s, more)
<1>1. PICK i \in DOMAIN args : /\ args[i].switch = s /\ args[i].value = w
                               /\ \A j \in DOMAIN args : args[j].switch = s => j = i
  BY DEF SaysOnce
<1>2. found = {i} /\ i \in Int BY <1>1
<1>3. Min(found) = i
  <2>1. Min({i}) \in {i} BY <1>2 DEF Min
  <2> QED BY <1>2, <2>1
<1>4. new = IF found = {} THEN Adds(args, s, more)
            ELSE [args EXCEPT ![Min(found)].value = @ \cup more]
  BY DEF Widens
<1>5. new = [args EXCEPT ![i].value = @ \cup more]
  <2> HIDE DEF found, new
  <2>1. found # {} BY <1>2
  <2> QED BY <1>3, <1>4, <2>1
<1> HIDE DEF found, new
<1>6. args[i] \in Switch BY <1>1
<1>7. new[i] = [args[i] EXCEPT !.value = w \cup more] BY <1>1, <1>5
<1>8. w \in SUBSET Words BY <1>1, <1>6 DEF Switch
<1>9. /\ new \in Seq(Switch) /\ DOMAIN new = DOMAIN args
      /\ new[i].switch = s /\ new[i].value = w \cup more
      /\ \A j \in DOMAIN args \ {i} : new[j] = args[j]
  <2>1. new[i] \in Switch /\ new[i].switch = s /\ new[i].value = w \cup more
    <3> DEFINE v == w \cup more
    <3>1. v \in SUBSET Words BY <1>8
    <3>2. new[i] = [args[i] EXCEPT !.value = v] BY <1>7
    <3> HIDE DEF v
    <3>3. new[i] \in Switch /\ new[i].switch = s /\ new[i].value = v
      BY <1>1, <1>6, <3>1, <3>2, SwitchWithIs
    <3> QED BY <3>3 DEF v
  <2>2. DOMAIN new = DOMAIN args /\ \A j \in DOMAIN args \ {i} : new[j] = args[j]
    BY <1>5
  <2>3. \A j \in DOMAIN args : new[j] \in Switch BY <2>1, <2>2
  <2>4. new = [j \in DOMAIN args |-> new[j]] BY <1>5
  <2>5. new \in Seq(Switch)
    <3>1. Len(args) \in Nat /\ DOMAIN args = 1..Len(args) OBVIOUS
    <3>2. new \in [1..Len(args) -> Switch] BY <2>3, <2>4, <3>1
    <3> QED BY <3>1, <3>2
  <2> QED BY <2>1, <2>2, <2>5
<1>10. SaysOnce(new, s, w \cup more) BY <1>1, <1>9 DEF SaysOnce
<1>11. ASSUME NEW t, NEW v, t # s, Says(args, t, v) PROVE Says(new, t, v)
  <2>1. \A j \in DOMAIN args : new[j].switch = args[j].switch BY <1>1, <1>9
  <2>2. \A j \in DOMAIN args : args[j].switch = t => new[j].value = args[j].value
    BY <1>1, <1>9, <1>11
  <2> QED BY <1>9, <1>11, <2>1, <2>2 DEF Says
<1> QED BY <1>9, <1>10, <1>11 DEF new


Hides(args, mode) ==
    /\ mode \in Hardened => Says(args, "load-extension", {})
    /\ mode = "high" =>
          SaysOnce(args, "features", {"MediaRouter", "ThirdPartyCookies", "WebGPU", "ServiceWorker"})
    /\ mode # "high" => SaysOnce(args, "features", {"MediaRouter"})

\* What is the same on any command line: no debugging yet, no resolver unless proxied.
LEMMA InitialIs ==
    /\ Initial \in Seq(Switch)
    /\ SaysOnce(Initial, "features", {"MediaRouter"})
    /\ Says(Initial, "load-extension", {}) /\ Says(Initial, "debugging", {})
<1> DEFINE b == [switch |-> "blink", value |-> {"AutomationControlled"}]
           f == [switch |-> "features", value |-> {"MediaRouter"}]
<1>1. /\ b \in Switch /\ b.switch = "blink"
      /\ f \in Switch /\ f.switch = "features" /\ f.value = {"MediaRouter"}
  BY DEF Switch, Names, Words
<1>2. Initial = <<b, f>> BY DEF Initial
<1> HIDE DEF b, f
<1>3. /\ Initial \in Seq(Switch) /\ DOMAIN Initial = 1..2
      /\ Initial[1] = b /\ Initial[2] = f
  BY <1>1, <1>2
<1>4. \A i \in DOMAIN Initial : i = 1 \/ i = 2 BY <1>3
<1>5. SaysOnce(Initial, "features", {"MediaRouter"})
  <2>1. 2 \in DOMAIN Initial BY <1>3
  <2> QED BY <1>1, <1>3, <1>4, <2>1 DEF SaysOnce
<1>6. \A i \in DOMAIN Initial : Initial[i].switch \in {"blink", "features"}
  BY <1>1, <1>3, <1>4
<1> QED BY <1>3, <1>5, <1>6 DEF Says

LEMMA WithPrivacyFlagsIs ==
    ASSUME NEW mode \in Modes
    PROVE  LET flagged == WithPrivacyFlags(Initial, mode)
           IN  /\ flagged \in Seq(Switch) /\ Hides(flagged, mode)
               /\ Says(flagged, "load-extension", {}) /\ Says(flagged, "debugging", {})
<1> DEFINE flagged == WithPrivacyFlags(Initial, mode)
<1>1. CASE mode # "high"
  <2>1. flagged = Initial BY <1>1 DEF WithPrivacyFlags
  <2> QED BY <1>1, <2>1, InitialIs DEF Hides
<1>2. CASE mode = "high"
  <2> DEFINE more == {"ThirdPartyCookies", "WebGPU", "ServiceWorker"}
             wide == Widens(Initial, "features", more)
             all == {"MediaRouter", "ThirdPartyCookies", "WebGPU", "ServiceWorker"}
  <2>1. flagged = Adds(wide, "blink", {"BatteryStatus"}) BY <1>2 DEF WithPrivacyFlags
  <2>2. more \in SUBSET Words /\ {"MediaRouter"} \cup more = all BY DEF Words
  <2>0. {"features", "blink"} \subseteq Names /\ {"BatteryStatus"} \in SUBSET Words
    BY DEF Names, Words
  <2> HIDE DEF more
  <2>3. /\ wide \in Seq(Switch) /\ SaysOnce(wide, "features", {"MediaRouter"} \cup more)
        /\ Says(wide, "load-extension", {}) /\ Says(wide, "debugging", {})
    BY <2>2, <2>0, InitialIs, WidensIs
  <2>4. SaysOnce(wide, "features", all) BY <2>2, <2>3
  <2> HIDE DEF wide, all
  <2>5. /\ Adds(wide, "blink", {"BatteryStatus"}) \in Seq(Switch)
        /\ SaysOnce(Adds(wide, "blink", {"BatteryStatus"}), "features", all)
        /\ Says(Adds(wide, "blink", {"BatteryStatus"}), "load-extension", {})
        /\ Says(Adds(wide, "blink", {"BatteryStatus"}), "debugging", {})
    BY <2>3, <2>4, <2>0, AddsIs
  <2> QED BY <1>2, <2>1, <2>5 DEF Hides, all
<1> QED BY <1>1, <1>2

\* A hardened profile loads no extension, whatever there is to load.
LEMMA WithExtensionsIs ==
    ASSUME NEW args \in Seq(Switch), NEW mode \in Modes, NEW paths \in SUBSET {"extension"},
           Hides(args, mode), Says(args, "debugging", {})
    PROVE  LET new == WithExtensions(args, mode, paths)
           IN  new \in Seq(Switch) /\ Hides(new, mode) /\ Says(new, "debugging", {})
<1> DEFINE new == WithExtensions(args, mode, paths)
<1>1. CASE mode \in Hardened
  <2>1. new = Adds(args, "disable-extensions", {}) BY <1>1 DEF WithExtensions
  <2>2. "disable-extensions" \in Names BY DEF Names
  <2> QED BY <2>1, <2>2, AddsIs DEF Hides
<1>2. CASE mode \notin Hardened /\ paths = {}
  BY <1>2 DEF WithExtensions
<1>3. CASE mode \notin Hardened /\ paths # {}
  <2>1. new = Adds(args, "load-extension", paths) BY <1>3 DEF WithExtensions
  <2>2. "load-extension" \in Names /\ paths \in SUBSET Words BY DEF Names, Words
  <2>3. mode # "high" BY <1>3 DEF Hardened
  <2> QED BY <1>3, <2>1, <2>2, <2>3, AddsIs DEF Hides
<1> QED BY <1>1, <1>2, <1>3

LEMMA AddsKeepsPromises ==
    ASSUME NEW args \in Seq(Switch), NEW mode \in Modes, Hides(args, mode),
           Says(args, "debugging", {}),
           NEW s \in Names, s \notin {"features", "load-extension", "debugging"},
           NEW w \in SUBSET Words
    PROVE  /\ Adds(args, s, w) \in Seq(Switch) /\ Hides(Adds(args, s, w), mode)
           /\ Says(Adds(args, s, w), "debugging", {})
BY AddsIs DEF Hides

\* The resolver of a proxied profile comes after that of a test.
LEMMA WithNetworkIs ==
    ASSUME NEW args \in Seq(Switch), NEW mode \in Modes, Hides(args, mode),
           Says(args, "debugging", {}), NEW hasProxy \in BOOLEAN, NEW test \in BOOLEAN
    PROVE  LET new == WithNetwork(args, hasProxy, test)
           IN  /\ new \in Seq(Switch) /\ Hides(new, mode) /\ Says(new, "debugging", {})
               /\ hasProxy => Says(new, "resolver", {"proxy host only"})
<1> DEFINE policy == Adds(args, "webrtc-policy", {"proxied udp only"})
           mapped == IF test THEN Adds(policy, "resolver", {"test host"}) ELSE policy
           new == WithNetwork(args, hasProxy, test)
<1>1. new = IF hasProxy THEN Adds(mapped, "resolver", {"proxy host only"}) ELSE mapped
  BY DEF WithNetwork
<1>0. /\ {"webrtc-policy", "resolver"} \subseteq Names
      /\ {"proxied udp only"} \in SUBSET Words /\ {"test host"} \in SUBSET Words
      /\ {"proxy host only"} \in SUBSET Words
  BY DEF Names, Words
<1>2. policy \in Seq(Switch) /\ Hides(policy, mode) /\ Says(policy, "debugging", {})
  BY <1>0, AddsKeepsPromises
<1> HIDE DEF policy
<1>3. mapped \in Seq(Switch) /\ Hides(mapped, mode) /\ Says(mapped, "debugging", {})
  <2>1. CASE test BY <1>2, <1>0, <2>1, AddsKeepsPromises
  <2>2. CASE ~test BY <1>2, <2>2
  <2> QED BY <2>1, <2>2
<1> HIDE DEF mapped
<1>4. CASE hasProxy
  <2>1. new = Adds(mapped, "resolver", {"proxy host only"}) BY <1>1, <1>4
  <2>2. Says(Adds(mapped, "resolver", {"proxy host only"}), "resolver", {"proxy host only"})
    BY <1>3, <1>0, AddsIs
  <2>3. /\ Adds(mapped, "resolver", {"proxy host only"}) \in Seq(Switch)
        /\ Hides(Adds(mapped, "resolver", {"proxy host only"}), mode)
        /\ Says(Adds(mapped, "resolver", {"proxy host only"}), "debugging", {})
    BY <1>3, <1>0, AddsKeepsPromises
  <2> QED BY <2>1, <2>2, <2>3
<1>5. CASE ~hasProxy
  <2>1. new = mapped BY <1>1, <1>5
  <2> QED BY <1>3, <1>5, <2>1
<1> QED BY <1>4, <1>5

\* What a command line must say for CommandLineKeepsPromises.
Promises(args, mode, hasProxy, env) ==
    /\ mode \in Hardened =>
          /\ Effective(args, "load-extension") = {}
          /\ "ServiceWorker" \in Effective(args, "features")
    /\ mode = "high" => {"ThirdPartyCookies", "WebGPU"} \subseteq Effective(args, "features")
    /\ hasProxy => Effective(args, "resolver") = {"proxy host only"}
    /\ Effective(args, "debugging") # {} => env.test /\ ~env.production

LEMMA WithoutWorkersIs ==
    ASSUME NEW args \in Seq(Switch), NEW mode \in Modes, Hides(args, mode),
           Says(args, "debugging", {}), NEW hasProxy \in BOOLEAN,
           hasProxy => Says(args, "resolver", {"proxy host only"})
    PROVE  LET new == WithoutWorkers(args, mode)
           IN  /\ new \in Seq(Switch) /\ Says(new, "debugging", {})
               /\ hasProxy => Says(new, "resolver", {"proxy host only"})
               /\ mode \in Hardened => Says(new, "load-extension", {})
               /\ \E f : /\ SaysOnce(new, "features", f)
                         /\ mode \in Hardened => "ServiceWorker" \in f
                         /\ mode = "high" => {"ThirdPartyCookies", "WebGPU"} \subseteq f
<1> DEFINE new == WithoutWorkers(args, mode)
           f == IF mode = "high"
                THEN {"MediaRouter", "ThirdPartyCookies", "WebGPU", "ServiceWorker"}
                ELSE {"MediaRouter"}
           more == {"ServiceWorker"}
<1>1. SaysOnce(args, "features", f) BY DEF Hides
<1>2. mode = "high" => {"ThirdPartyCookies", "WebGPU"} \subseteq f OBVIOUS
<1>3. "ServiceWorker" \in f \cup more /\ more \in SUBSET Words /\ "features" \in Names
  BY DEF Names, Words
<1>4. CASE mode \in Hardened
  <2>1. new = Widens(args, "features", more) BY <1>4 DEF WithoutWorkers
  <2> HIDE DEF f, more, new
  <2>2. Says(args, "load-extension", {}) BY <1>4 DEF Hides
  <2>3. /\ new \in Seq(Switch) /\ SaysOnce(new, "features", f \cup more)
        /\ \A t, v : t # "features" /\ Says(args, t, v) => Says(new, t, v)
    BY <1>1, <1>3, <2>1, WidensIs
  <2>4. /\ Says(new, "debugging", {}) /\ Says(new, "load-extension", {})
        /\ hasProxy => Says(new, "resolver", {"proxy host only"})
    BY <2>2, <2>3
  <2>5. mode = "high" => {"ThirdPartyCookies", "WebGPU"} \subseteq f \cup more BY <1>2
  <2> QED BY <1>3, <2>3, <2>4, <2>5 DEF new
<1>5. CASE mode \notin Hardened
  <2>1. new = args BY <1>5 DEF WithoutWorkers
  <2> HIDE DEF f
  <2> QED BY <1>1, <1>2, <1>5, <2>1
<1> QED BY <1>4, <1>5

LEMMA ArgsKeepPromises ==
    ASSUME NEW mode \in Modes, NEW hasProxy \in BOOLEAN, NEW paths \in SUBSET {"extension"},
           NEW env \in Environments
    PROVE  Promises(Args(mode, hasProxy, paths, env), mode, hasProxy, env)
<1> DEFINE flagged == WithPrivacyFlags(Initial, mode)
           extended == WithExtensions(flagged, mode, paths)
           online == WithNetwork(extended, hasProxy, env.test)
           blind == AddsUnique(online, "blink", {"AutomationControlled"})
           quiet == WithoutWorkers(blind, mode)
           args == WithDebugging(quiet, env)
<1>1. Args(mode, hasProxy, paths, env) = args BY DEF Args
<1>0. /\ {"blink", "debugging"} \subseteq Names
      /\ {"AutomationControlled"} \in SUBSET Words /\ {"loopback"} \in SUBSET Words
  BY DEF Names, Words
<1>2. env.test \in BOOLEAN BY DEF Environments
<1>3. flagged \in Seq(Switch) /\ Hides(flagged, mode) /\ Says(flagged, "debugging", {})
  BY WithPrivacyFlagsIs
<1> HIDE DEF flagged
<1>4. extended \in Seq(Switch) /\ Hides(extended, mode) /\ Says(extended, "debugging", {})
  BY <1>3, WithExtensionsIs
<1> HIDE DEF extended
<1>5. /\ online \in Seq(Switch) /\ Hides(online, mode) /\ Says(online, "debugging", {})
      /\ hasProxy => Says(online, "resolver", {"proxy host only"})
  BY <1>2, <1>4, WithNetworkIs
<1> HIDE DEF online
<1>6. /\ blind \in Seq(Switch)
      /\ \A t, v : t # "blink" /\ Says(online, t, v) => Says(blind, t, v)
      /\ \A t, v : t # "blink" /\ SaysOnce(online, t, v) => SaysOnce(blind, t, v)
  BY <1>5, <1>0, AddsUniqueIs
<1> HIDE DEF blind
<1>7. /\ Hides(blind, mode) /\ Says(blind, "debugging", {})
      /\ hasProxy => Says(blind, "resolver", {"proxy host only"})
  BY <1>5, <1>6 DEF Hides
<1>8. /\ quiet \in Seq(Switch) /\ Says(quiet, "debugging", {})
      /\ hasProxy => Says(quiet, "resolver", {"proxy host only"})
      /\ mode \in Hardened => Says(quiet, "load-extension", {})
      /\ \E f : /\ SaysOnce(quiet, "features", f)
                /\ mode \in Hardened => "ServiceWorker" \in f
                /\ mode = "high" => {"ThirdPartyCookies", "WebGPU"} \subseteq f
  BY <1>6, <1>7, WithoutWorkersIs
<1> HIDE DEF quiet
<1>9. PICK f : /\ SaysOnce(quiet, "features", f)
               /\ mode \in Hardened => "ServiceWorker" \in f
               /\ mode = "high" => {"ThirdPartyCookies", "WebGPU"} \subseteq f
  BY <1>8
<1>10. Says(quiet, "features", f) BY <1>8, <1>9, OnceIsSaid
<1>11. CASE Debuggable(env)
  <2>1. args = AddsUnique(quiet, "debugging", {"loopback"}) BY <1>11 DEF WithDebugging
  <2> HIDE DEF args
  <2>2. /\ args \in Seq(Switch)
        /\ \A t, v : t # "debugging" /\ Says(quiet, t, v) => Says(args, t, v)
    BY <1>8, <1>0, <2>1, AddsUniqueIs
  <2>3. /\ Says(args, "features", f)
        /\ hasProxy => Says(args, "resolver", {"proxy host only"})
        /\ mode \in Hardened => Says(args, "load-extension", {})
    BY <1>8, <1>10, <2>2
  <2>4. /\ Effective(args, "features") = f
        /\ hasProxy => Effective(args, "resolver") = {"proxy host only"}
        /\ mode \in Hardened => Effective(args, "load-extension") = {}
    BY <2>2, <2>3, SaysIsEffective
  <2>5. env.test /\ ~env.production BY <1>11 DEF Debuggable
  <2> QED BY <1>1, <1>9, <2>4, <2>5 DEF Promises
<1>12. CASE ~Debuggable(env)
  <2>1. args = quiet BY <1>12 DEF WithDebugging
  <2> HIDE DEF args
  <2>2. /\ Effective(args, "features") = f /\ Effective(args, "debugging") = {}
        /\ hasProxy => Effective(args, "resolver") = {"proxy host only"}
        /\ mode \in Hardened => Effective(args, "load-extension") = {}
    BY <1>8, <1>10, <2>1, SaysIsEffective
  <2> QED BY <1>1, <1>9, <2>2 DEF Promises
<1> QED BY <1>11, <1>12

LaunchedInv == SettingsTypeOK /\ CommandLineKeepsPromises

\* Only a launch starts a browser.
LEMMA LaunchesKeepsPromises ==
    ASSUME LaunchedInv, NEW paths \in SUBSET {"extension"}, NEW env \in Environments,
           Launches(paths, env)
    PROVE  CommandLineKeepsPromises'
<1> DEFINE mode == Reading(advanced.mode)
           read == [advanced EXCEPT !.mode = mode]
           args == Args(mode, proxied, paths, env)
           new == [mode |-> mode, proxied |-> proxied, workers |-> ~BlocksWorkers(read, proxied),
                   args |-> args, env |-> env]
<1>1. mode \in Modes BY DEF Reading, Modes
<1>2. proxied \in BOOLEAN BY DEF LaunchedInv, SettingsTypeOK
<1>3. browser' = new /\ advanced \in Advanced
  BY DEF Launches, LaunchedInv, SettingsTypeOK, Exists
<1>4. read.mode = mode BY <1>1, <1>3 DEF Advanced
<1>5. mode \in Hardened => ~(~BlocksWorkers(read, proxied)) BY <1>4 DEF BlocksWorkers
<1> HIDE DEF mode, read, args
<1>6. Promises(args, mode, proxied, env) BY <1>1, <1>2, ArgsKeepPromises DEF args
<1>7. /\ browser'.mode = mode /\ browser'.proxied = proxied /\ browser'.args = args
      /\ browser'.env = env /\ browser'.workers = ~BlocksWorkers(read, proxied)
  BY <1>3
<1> QED BY <1>5, <1>6, <1>7 DEF CommandLineKeepsPromises, Promises

LEMMA LaunchedInvNext ==
    ASSUME SettingsInv, LaunchedInv, [SettingsNext]_settingsVars
    PROVE  LaunchedInv'
<1>1. SettingsTypeOK' BY SettingsInvNext DEF SettingsInv
<1>2. ASSUME NEW paths \in SUBSET {"extension"}, NEW env \in Environments, Launches(paths, env)
      PROVE  CommandLineKeepsPromises'
  BY <1>2, LaunchesKeepsPromises
<1>3. ASSUME browser' = browser \/ browser' = NoBrowser PROVE CommandLineKeepsPromises'
  BY <1>3 DEF LaunchedInv, CommandLineKeepsPromises
<1>4. ASSUME UNCHANGED settingsVars PROVE CommandLineKeepsPromises'
  BY <1>3, <1>4 DEF settingsVars, session
<1>5. ASSUME NEW a \in Advanced, NEW hasProxy \in BOOLEAN,
             \/ \E throughModel \in BOOLEAN : Creates(a, hasProxy, throughModel)
             \/ Imports(a, hasProxy)
      PROVE  browser' = browser
  BY <1>5 DEF Creates, Imports, session
<1>6. ASSUME NEW followsCopy \in BOOLEAN, Clones(followsCopy)
      PROVE  browser' = browser \/ browser' = NoBrowser
  BY <1>6 DEF Clones
<1>7. ASSUME \/ Restores
             \/ \E mode \in Modes : PatchesMode(mode)
             \/ \E a \in Advanced : PatchesAnything(a) \/ Edits(a)
             \/ DialogEdits
             \/ \E hasProxy \in BOOLEAN : PatchesProxy(hasProxy)
      PROVE  browser' = browser
  BY <1>7 DEF Restores, PatchesMode, PatchesAnything, Edits, DialogEdits, PatchesProxy, session
<1>8. ASSUME Closes \/ WindowCloses PROVE browser' = NoBrowser
  BY <1>8 DEF Closes, WindowCloses
<1>9. CommandLineKeepsPromises'
  BY <1>2, <1>3, <1>4, <1>5, <1>6, <1>7, <1>8 DEF SettingsNext
<1> QED BY <1>1, <1>9 DEF LaunchedInv

(* Whatever calls have written the settings, every browser is started with *)
(* a command line that keeps what its mode promises, with or without       *)
(* extensions, in any environment, although a name's last switch wins:     *)
(* the resolver of the proxy is added last, the features are one switch    *)
(* that is widened in place, and nothing adds extensions to a hardened one *)
(* (build_browser_launch_config, launch_profile).                          *)
THEOREM CommandLinesKeepPromises == SettingsSpec => []CommandLineKeepsPromises
<1>1. SettingsInit => LaunchedInv
  BY SettingsInvInit DEF SettingsInv, LaunchedInv, SettingsInit, CommandLineKeepsPromises
<1>2. SettingsInv /\ LaunchedInv /\ [SettingsNext]_settingsVars => LaunchedInv'
  BY LaunchedInvNext
<1>3. LaunchedInv => CommandLineKeepsPromises BY DEF LaunchedInv
<1> QED BY <1>1, <1>2, <1>3, SettingsInvInit, SettingsInvNext, PTL DEF SettingsSpec

=============================================================================
