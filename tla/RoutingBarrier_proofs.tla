------------------------ MODULE RoutingBarrier_proofs ------------------------
(* For any number of pages, requests and origins: no request passes the    *)
(* barrier before the overrides of the page it follows are applied (its    *)
(* own, when it is routed by its frame), and none that is routed by a page *)
(* that was open passes it once the profile fails closed.                  *)
EXTENDS RoutingBarrier, TLAPS

-----------------------------------------------------------------------------
(* The inductive invariant.  Requests look at futures and never at         *)
(* set-ups: that both agree is what the first property rests on.           *)

Typed ==
    /\ page \in [Pages -> {"absent", "open", "gone"}]
    /\ setup \in [Pages -> {"none", "scheduled", "running", "applied", "failed", "cut"}]
    /\ future \in [Pages -> {"none", "pending", "ready", "failed", "cancelled"}]
    /\ dict \in Seq(Pages)
    /\ workers \subseteq Pages
    /\ req \in [Requests -> Request]
    /\ closing \in {"no", "scheduled", "running", "done"}
    /\ before \subseteq Pages

ReadyIsApplied == \A p \in Pages : future[p] = "ready" => setup[p] = "applied"

NewPageHasNothing ==
    \A p \in Pages : page[p] = "absent" => setup[p] = "none" /\ future[p] = "none"

\* Whose future a request waits for, and what it knows once it has it.
WaitsForItsOwn(q) ==
    /\ q.pc \in {"patching", "fetching", "waiting"} => q.target \in Pages
    /\ q.pc = "routed" => q.page \in Pages
    /\ q.kind = "page" => q.pc \notin {"patching", "fetching"}
    /\ q.kind = "page" /\ q.pc = "waiting" => q.target = q.page
    /\ q.pc = "fetching" => setup[q.target] = "applied"

Passed(q) ==
    q.pc \in Let =>
       /\ q.target \in Pages
       /\ setup[q.target] = "applied"
       /\ q.kind = "page" => q.target = q.page

OverridesInv == \A r \in Requests : WaitsForItsOwn(req[r]) /\ Passed(req[r])

Failing == closing \in {"running", "done"}

\* A page that was open is not in the dictionary again.
BeforeIsShut ==
    Failing => \A p \in before : p \notin Listed /\ page[p] # "absent" /\ setup[p] # "scheduled"

LateIsStuck ==
    \A r \in Requests : req[r].late =>
       /\ Failing
       /\ req[r].kind = "page" /\ req[r].page \in before => req[r].pc = "routed"

BarrierInv ==
    /\ Typed /\ ReadyIsApplied /\ NewPageHasNothing
    /\ OverridesInv /\ BeforeIsShut /\ LateIsStuck

-----------------------------------------------------------------------------
(* Lemmas about the operators.                                             *)

\* A future that is answered was pending; the others keep what they had.
LEMMA PendingAnswers ==
    ASSUME Typed, NEW P, NEW answer \in {"ready", "failed", "cancelled"}
    PROVE  /\ Pending(P, answer) \in [Pages -> {"none", "pending", "ready", "failed", "cancelled"}]
           /\ \A p \in Pages : Pending(P, answer)[p] =
                 IF p \in P /\ future[p] = "pending" THEN answer ELSE future[p]
BY DEF Pending, Typed

\* Forgetting a page brings no other one into the dictionary.
LEMMA ForgettingShrinks ==
    ASSUME Typed, NEW p \in Pages, Forgets(p)
    PROVE  dict' \in Seq(Pages) /\ Listed' \subseteq Listed
<1>1. CASE p \notin Listed BY <1>1 DEF Forgets, Listed, Typed
<1>2. CASE p \in Listed
  <2>1. PICK i \in DOMAIN dict : dict' = RemoveAt(dict, i) BY <1>2 DEF Forgets
  <2> DEFINE a == SubSeq(dict, 1, i - 1)
             b == SubSeq(dict, i + 1, Len(dict))
  <2>2. dict' = a \o b BY <2>1 DEF RemoveAt
  <2>3. dict \in Seq(Pages) /\ i \in 1..Len(dict) BY DEF Typed
  <2>4. a \in Seq(Pages) /\ Len(a) = i - 1 /\ \A k \in 1..(i - 1) : a[k] = dict[k]
    BY <2>3
  <2>5. b \in Seq(Pages) /\ Len(b) = Len(dict) - i /\ \A k \in 1..(Len(dict) - i) : b[k] = dict[k + i]
    BY <2>3
  <2> HIDE DEF a, b
  <2>6. a \o b \in Seq(Pages) BY <2>4, <2>5
  <2>7. ASSUME NEW k \in DOMAIN (a \o b) PROVE (a \o b)[k] \in Listed
    <3>1. CASE k <= i - 1
      <4>1. (a \o b)[k] = a[k] /\ k \in 1..(i - 1) BY <2>3, <2>4, <2>5, <2>7, <3>1
      <4> QED BY <2>3, <2>4, <4>1 DEF Listed, ToSet
    <3>2. CASE ~(k <= i - 1)
      <4>1. (a \o b)[k] = b[k - (i - 1)] /\ k - (i - 1) \in 1..(Len(dict) - i)
        BY <2>3, <2>4, <2>5, <2>7, <3>2
      <4>2. b[k - (i - 1)] = dict[k + 1] /\ k + 1 \in 1..Len(dict) BY <2>3, <2>5, <4>1
      <4> QED BY <2>3, <4>1, <4>2 DEF Listed, ToSet
    <3> QED BY <3>1, <3>2
  <2> QED BY <2>2, <2>6, <2>7 DEF Listed, ToSet
<1> QED BY <1>1, <1>2

\* A page that is registered is the only new one in the dictionary.
LEMMA AppendingAdds ==
    ASSUME NEW s \in Seq(Pages), NEW p \in Pages
    PROVE  ToSet(Append(s, p)) = ToSet(s) \cup {p}
<1>1. /\ DOMAIN Append(s, p) = 1..(Len(s) + 1) /\ DOMAIN s = 1..Len(s) /\ Len(s) \in Nat
      /\ Append(s, p)[Len(s) + 1] = p
      /\ \A i \in 1..Len(s) : Append(s, p)[i] = s[i]
  OBVIOUS
<1>2. \A i \in 1..(Len(s) + 1) : i \in 1..Len(s) \/ i = Len(s) + 1
  BY <1>1
<1>3. 1..Len(s) \subseteq 1..(Len(s) + 1) /\ Len(s) + 1 \in 1..(Len(s) + 1)
  BY <1>1
<1> QED BY <1>1, <1>2, <1>3 DEF ToSet

LEMMA ListedArePages == Typed => Listed \subseteq Pages
BY DEF Typed, Listed, ToSet

\* What is left of a request that is over says nothing.
LEMMA EndedIsSilent ==
    ASSUME NEW outcome \in {"hung", "aborted"}
    PROVE  /\ Ended(outcome) \in Request
           /\ Ended(outcome).pc = outcome /\ ~Ended(outcome).late
           /\ WaitsForItsOwn(Ended(outcome)) /\ Passed(Ended(outcome))
BY BarrierAssumption DEF Ended, Unsent, Request, Held, Let, Answered, Kinds, WaitsForItsOwn, Passed

\* A step that changes one request, and of the rest at most futures and the
\* state of the fail-closed task, keeps the invariant if that request is well.
LEMMA OneRequestChanges ==
    ASSUME BarrierInv, NEW r \in Requests, NEW q \in Request,
           req' = [req EXCEPT ![r] = q],
           UNCHANGED <<page, setup, dict, workers, before>>,
           future' \in [Pages -> {"none", "pending", "ready", "failed", "cancelled"}],
           \A p \in Pages : future'[p] = "ready" => future[p] = "ready",
           \A p \in Pages : future[p] = "none" => future'[p] = "none",
           closing' \in {closing, Schedule(closing)},
           WaitsForItsOwn(q), Passed(q),
           q.late => Failing /\ (q.kind = "page" /\ q.page \in before => q.pc = "routed")
    PROVE  BarrierInv'
<1>1. closing' \in {"no", "scheduled", "running", "done"} /\ (Failing' <=> Failing)
  BY DEF BarrierInv, Typed, Schedule, Failing
<1>2. Typed'
  BY <1>1 DEF BarrierInv, Typed
<1>3. ReadyIsApplied' /\ NewPageHasNothing'
  BY DEF BarrierInv, ReadyIsApplied, NewPageHasNothing
<1>4. \A s \in Requests : req'[s] = IF s = r THEN q ELSE req[s]
  BY DEF BarrierInv, Typed
<1>5. OverridesInv'
  BY <1>4 DEF BarrierInv, OverridesInv, WaitsForItsOwn, Passed
<1>6. BeforeIsShut'
  BY <1>1 DEF BarrierInv, BeforeIsShut, Listed
<1>7. LateIsStuck'
  BY <1>1, <1>4 DEF BarrierInv, LateIsStuck
<1> QED BY <1>2, <1>3, <1>5, <1>6, <1>7 DEF BarrierInv

\* A step that leaves the requests alone and takes back no override.
LEMMA NoRequestChanges ==
    ASSUME BarrierInv, Typed', ReadyIsApplied', NewPageHasNothing', BeforeIsShut',
           UNCHANGED <<req, before>>,
           Failing => Failing',
           \A p \in Pages : setup[p] = "applied" => setup'[p] = "applied"
    PROVE  BarrierInv'
<1>1. OverridesInv'
  BY DEF BarrierInv, OverridesInv, WaitsForItsOwn, Passed
<1>2. LateIsStuck'
  BY DEF BarrierInv, LateIsStuck
<1> QED BY <1>1, <1>2 DEF BarrierInv

-----------------------------------------------------------------------------
(* Pages.                                                                  *)

LEMMA PageStep ==
    ASSUME BarrierInv, NEW p \in Pages,
           \/ PageOpens(p) \/ PageCloses(p) \/ SetupStarts(p) \/ SetupApplies(p)
           \/ SetupFails(p) \/ WorkerStarts(p) \/ WorkerEnds(p)
    PROVE  BarrierInv'
<1>1. CASE PageOpens(p)
  <2>1. Typed' BY <1>1 DEF PageOpens, BarrierInv, Typed
  <2>2. ReadyIsApplied' /\ NewPageHasNothing' /\ \A x \in Pages : setup[x] = "applied" => setup'[x] = "applied"
    BY <1>1 DEF PageOpens, BarrierInv, ReadyIsApplied, NewPageHasNothing, Typed
  <2>3. BeforeIsShut' BY <1>1 DEF PageOpens, BarrierInv, BeforeIsShut, Failing, Typed, Listed
  <2> QED BY <1>1, <2>1, <2>2, <2>3, NoRequestChanges DEF PageOpens, Failing
<1>2. CASE PageCloses(p)
  <2>1. dict' \in Seq(Pages) /\ Listed' \subseteq Listed
    BY <1>2, ForgettingShrinks DEF PageCloses, BarrierInv, Typed, Listed
  <2>2. /\ future' \in [Pages -> {"none", "pending", "ready", "failed", "cancelled"}]
        /\ \A x \in Pages : (future'[x] = "ready" => future[x] = "ready") /\ (future[x] = "none" => future'[x] = "none")
    BY <1>2, PendingAnswers DEF PageCloses, BarrierInv, Typed
  <2>3. Typed' BY <1>2, <2>1, <2>2 DEF PageCloses, BarrierInv, Typed
  <2>4. ReadyIsApplied' /\ NewPageHasNothing'
    BY <1>2, <2>2 DEF PageCloses, BarrierInv, ReadyIsApplied, NewPageHasNothing, Typed
  <2>5. BeforeIsShut'
    BY <1>2, <2>1 DEF PageCloses, BarrierInv, BeforeIsShut, Failing, Typed
  <2> QED BY <1>2, <2>3, <2>4, <2>5, NoRequestChanges DEF PageCloses, Failing
<1>3. CASE SetupStarts(p)
  <2>1. Typed' BY <1>3 DEF SetupStarts, BarrierInv, Typed
  <2>2. ReadyIsApplied' /\ NewPageHasNothing' /\ \A x \in Pages : setup[x] = "applied" => setup'[x] = "applied"
    BY <1>3 DEF SetupStarts, BarrierInv, ReadyIsApplied, NewPageHasNothing, Typed
  <2>3. Listed' = Listed \cup {p}
    BY <1>3, AppendingAdds DEF SetupStarts, BarrierInv, Typed, Listed
  <2>4. BeforeIsShut'
    BY <1>3, <2>3 DEF SetupStarts, BarrierInv, BeforeIsShut, Failing, Typed
  <2> QED BY <1>3, <2>1, <2>2, <2>4, NoRequestChanges DEF SetupStarts, Failing
<1>4. CASE SetupApplies(p)
  <2>1. /\ future' \in [Pages -> {"none", "pending", "ready", "failed", "cancelled"}]
        /\ \A x \in Pages : (future'[x] = "ready" => x = p \/ future[x] = "ready") /\ (future[x] = "none" => future'[x] = "none")
    BY <1>4, PendingAnswers DEF SetupApplies, BarrierInv
  <2>2. Typed' BY <1>4, <2>1 DEF SetupApplies, BarrierInv, Typed
  <2>3. ReadyIsApplied' /\ NewPageHasNothing' /\ \A x \in Pages : setup[x] = "applied" => setup'[x] = "applied"
    BY <1>4, <2>1 DEF SetupApplies, BarrierInv, ReadyIsApplied, NewPageHasNothing, Typed
  <2>4. BeforeIsShut'
    BY <1>4 DEF SetupApplies, BarrierInv, BeforeIsShut, Failing, Typed, Listed
  <2> QED BY <1>4, <2>2, <2>3, <2>4, NoRequestChanges DEF SetupApplies, Failing
<1>5. CASE SetupFails(p)
  <2>1. /\ future' \in [Pages -> {"none", "pending", "ready", "failed", "cancelled"}]
        /\ \A x \in Pages : (future'[x] = "ready" => future[x] = "ready") /\ (future[x] = "none" => future'[x] = "none")
    BY <1>5, PendingAnswers DEF SetupFails, BarrierInv, Typed
  <2>2. closing' \in {"no", "scheduled", "running", "done"} /\ (Failing' <=> Failing)
    BY <1>5 DEF SetupFails, BarrierInv, Typed, Schedule, Failing
  <2>3. Typed' BY <1>5, <2>1, <2>2 DEF SetupFails, BarrierInv, Typed
  <2>4. ReadyIsApplied' /\ NewPageHasNothing' /\ \A x \in Pages : setup[x] = "applied" => setup'[x] = "applied"
    BY <1>5, <2>1 DEF SetupFails, BarrierInv, ReadyIsApplied, NewPageHasNothing, Typed
  <2>5. BeforeIsShut'
    BY <1>5, <2>2 DEF SetupFails, BarrierInv, BeforeIsShut, Typed, Listed
  <2> QED BY <1>5, <2>2, <2>3, <2>4, <2>5, NoRequestChanges DEF SetupFails
<1>6. CASE WorkerStarts(p) \/ WorkerEnds(p)
  <2>1. Typed' BY <1>6 DEF WorkerStarts, WorkerEnds, BarrierInv, Typed
  <2>2. ReadyIsApplied' /\ NewPageHasNothing'
    BY <1>6 DEF WorkerStarts, WorkerEnds, BarrierInv, ReadyIsApplied, NewPageHasNothing
  <2>3. BeforeIsShut'
    BY <1>6 DEF WorkerStarts, WorkerEnds, BarrierInv, BeforeIsShut, Failing, Listed
  <2> QED BY <1>6, <2>1, <2>2, <2>3, NoRequestChanges DEF WorkerStarts, WorkerEnds, Failing
<1> QED BY <1>1, <1>2, <1>3, <1>4, <1>5, <1>6

-----------------------------------------------------------------------------
(* Requests.                                                               *)

LEMMA RequestRuns ==
    ASSUME BarrierInv, NEW r \in Requests, Handles(r) \/ Blocks(r)
    PROVE  BarrierInv'
<1> DEFINE q == req[r]
<1>1. q \in Request /\ WaitsForItsOwn(q) /\ Passed(q)
  BY DEF BarrierInv, Typed, OverridesInv
<1>2. q.late => Failing /\ (q.kind = "page" /\ q.page \in before => q.pc = "routed")
  BY DEF BarrierInv, LateIsStuck
<1>3. CASE Abort(r) /\ UNCHANGED <<page, setup, future, dict, workers, opted, closing, before>>
  BY <1>3, EndedIsSilent, OneRequestChanges DEF Abort, BarrierInv, Typed
<1>4. CASE Refuses(r)
  BY <1>4, EndedIsSilent, OneRequestChanges DEF Refuses, Refuse, Abort, BarrierInv, Typed
<1>5. CASE Routes(r)
  <2>1. CASE page[q.page] = "open" /\ q.page \in Listed
             /\ req' = [req EXCEPT ![r].pc = "waiting", ![r].target = q.page]
    <3> DEFINE n == [q EXCEPT !.pc = "waiting", !.target = q.page]
    <3>1. q.pc = "routed" /\ q.page \in Pages BY <1>1, <1>5 DEF WaitsForItsOwn, Routes
    <3>2. n \in Request /\ n.pc = "waiting" /\ n.target = q.page /\ n.kind = q.kind
          /\ n.page = q.page /\ n.late = q.late
      BY <1>1, <3>1 DEF Request, Held
    <3>3. WaitsForItsOwn(n) /\ Passed(n)
      BY <3>1, <3>2 DEF WaitsForItsOwn, Passed, Let
    <3>4. n.late => Failing /\ ~(n.kind = "page" /\ n.page \in before)
      BY <1>2, <2>1, <3>1, <3>2 DEF BarrierInv, BeforeIsShut
    <3>5. UNCHANGED <<page, setup, future, dict, workers, opted, closing, before>>
      BY <1>5 DEF Routes
    <3>6. req' = [req EXCEPT ![r] = n]
      BY <2>1 DEF BarrierInv, Typed
    <3> HIDE DEF n
    <3> QED BY <3>2, <3>3, <3>4, <3>5, <3>6, OneRequestChanges DEF BarrierInv, Typed
  <2>2. CASE Abort(r)
    BY <1>3, <1>5, <2>2 DEF Routes
  <2> QED BY <1>5, <2>1, <2>2 DEF Routes
<1>6. CASE Blocks(r)
  BY <1>3, <1>6 DEF Blocks
<1>7. CASE Patches(r)
  <2> DEFINE f == future[q.target]
  <2>1. UNCHANGED <<page, setup, future, dict, workers, opted, closing, before>>
        /\ q.pc = "patching" /\ q.target \in Pages /\ q.kind # "page"
    BY <1>1, <1>7 DEF Patches, WaitsForItsOwn
  <2>2. CASE f = "cancelled"
    <3>1. req' = [req EXCEPT ![r] = Ended("hung")] BY <1>7, <2>2 DEF Patches
    <3> QED BY <2>1, <3>1, EndedIsSilent, OneRequestChanges DEF BarrierInv, Typed
  <2>3. ASSUME NEW place \in {"fetching", "waiting"}, place = "fetching" => f = "ready",
               req' = [req EXCEPT ![r] = [q EXCEPT !.pc = place]]
        PROVE  BarrierInv'
    <3> DEFINE n == [q EXCEPT !.pc = place]
    <3>1. n \in Request /\ n.pc = place /\ n.target = q.target /\ n.kind = q.kind
          /\ n.page = q.page /\ n.late = q.late
      BY <1>1, <2>3 DEF Request, Held
    <3>2. place = "fetching" => setup[q.target] = "applied"
      BY <2>1, <2>3 DEF BarrierInv, ReadyIsApplied
    <3>3. WaitsForItsOwn(n) /\ Passed(n)
      BY <2>1, <2>3, <3>1, <3>2 DEF WaitsForItsOwn, Passed, Let
    <3>4. n.late => Failing /\ ~(n.kind = "page" /\ n.page \in before)
      BY <1>2, <2>1, <3>1
    <3> HIDE DEF n
    <3> QED BY <2>1, <2>3, <3>1, <3>3, <3>4, OneRequestChanges DEF BarrierInv, Typed, n
  <2>4. CASE f = "ready"
    <3>1. req' = [req EXCEPT ![r] = [q EXCEPT !.pc = "fetching"]] BY <1>7, <2>4 DEF Patches
    <3> QED BY <2>3, <2>4, <3>1
  <2>5. CASE f # "cancelled" /\ f # "ready"
    <3>1. req' = [req EXCEPT ![r] = [q EXCEPT !.pc = "waiting"]] BY <1>7, <2>5 DEF Patches
    <3> QED BY <2>3, <3>1
  <2> QED BY <2>2, <2>4, <2>5
<1>8. CASE Fetches(r)
  <2>1. UNCHANGED <<page, setup, future, dict, workers, opted, closing, before>>
        /\ q.pc = "fetching" /\ q.target \in Pages /\ q.kind # "page"
        /\ setup[q.target] = "applied"
    BY <1>1, <1>8 DEF Fetches, WaitsForItsOwn
  <2>2. PICK place \in {"fulfilled", "waiting"} : req' = [req EXCEPT ![r].pc = place]
    BY <1>8 DEF Fetches
  <2> DEFINE n == [q EXCEPT !.pc = place]
  <2>3. n \in Request /\ n.pc = place /\ n.target = q.target /\ n.kind = q.kind
        /\ n.page = q.page /\ n.late = q.late
    BY <1>1, <2>2 DEF Request, Held, Let, Answered
  <2>4. WaitsForItsOwn(n) /\ Passed(n)
    BY <2>1, <2>2, <2>3 DEF WaitsForItsOwn, Passed, Let
  <2>5. n.late => Failing /\ ~(n.kind = "page" /\ n.page \in before)
    BY <1>2, <2>1, <2>3
  <2>6. req' = [req EXCEPT ![r] = n] BY <2>2 DEF BarrierInv, Typed
  <2> HIDE DEF n
  <2> QED BY <2>1, <2>3, <2>4, <2>5, <2>6, OneRequestChanges DEF BarrierInv, Typed
<1>9. CASE Continues(r)
  <2>1. UNCHANGED <<page, setup, future, dict, workers, opted, closing, before>>
        /\ q.pc = "waiting" /\ q.target \in Pages /\ (q.kind = "page" => q.target = q.page)
    BY <1>1, <1>9 DEF Continues, WaitsForItsOwn
  <2>2. setup[q.target] = "applied"
    BY <1>9, <2>1 DEF Continues, BarrierInv, ReadyIsApplied
  <2> DEFINE n == [q EXCEPT !.pc = "continued", !.hinted = Hints(r)]
  <2>3. n \in Request /\ n.pc = "continued" /\ n.target = q.target /\ n.kind = q.kind
        /\ n.page = q.page /\ n.late = q.late
    BY <1>1 DEF Request, Held, Let, Answered, Hints
  <2>4. WaitsForItsOwn(n) /\ Passed(n)
    BY <2>1, <2>2, <2>3 DEF WaitsForItsOwn, Passed, Let
  <2>5. n.late => Failing /\ ~(n.kind = "page" /\ n.page \in before)
    BY <1>2, <2>1, <2>3
  <2>6. req' = [req EXCEPT ![r] = n] BY <1>9 DEF Continues, BarrierInv, Typed
  <2> HIDE DEF n
  <2> QED BY <2>1, <2>3, <2>4, <2>5, <2>6, OneRequestChanges DEF BarrierInv, Typed
<1>10. CASE TimesOut(r)
  <2>1. /\ UNCHANGED <<page, setup, dict, workers, opted, before>>
        /\ q.pc \in {"patching", "waiting"} /\ q.target \in Pages
    BY <1>1, <1>10 DEF TimesOut, WaitsForItsOwn
  <2>2. /\ future' \in [Pages -> {"none", "pending", "ready", "failed", "cancelled"}]
        /\ \A p \in Pages : future'[p] = "ready" => future[p] = "ready"
        /\ \A p \in Pages : future[p] = "none" => future'[p] = "none"
    BY <1>10, PendingAnswers DEF TimesOut, BarrierInv
  <2>3. CASE q.pc = "waiting"
    <3>1. req' = [req EXCEPT ![r] = Ended("aborted")] /\ closing' = Schedule(closing)
      BY <1>10, <2>3 DEF TimesOut, Refuse, Abort
    <3> QED BY <2>1, <2>2, <3>1, EndedIsSilent, OneRequestChanges
  <2>4. CASE q.pc = "patching"
    <3> DEFINE n == [q EXCEPT !.pc = "waiting"]
    <3>1. n \in Request /\ n.pc = "waiting" /\ n.target = q.target /\ n.kind = q.kind
          /\ n.page = q.page /\ n.late = q.late
      BY <1>1 DEF Request, Held
    <3>2. q.kind # "page" BY <1>1, <2>4 DEF WaitsForItsOwn
    <3>3. WaitsForItsOwn(n) /\ Passed(n)
      BY <2>1, <3>1, <3>2 DEF WaitsForItsOwn, Passed, Let
    <3>4. n.late => Failing /\ ~(n.kind = "page" /\ n.page \in before)
      BY <1>2, <2>4, <3>1, <3>2
    <3>5. req' = [req EXCEPT ![r] = n] /\ closing' = closing
      BY <1>10, <2>4 DEF TimesOut, BarrierInv, Typed
    <3> HIDE DEF n
    <3> QED BY <2>1, <2>2, <3>1, <3>3, <3>4, <3>5, OneRequestChanges
  <2> QED BY <2>1, <2>3, <2>4
<1> QED BY <1>4, <1>5, <1>6, <1>7, <1>8, <1>9, <1>10 DEF Handles

LEMMA NewIsRequest ==
    ASSUME NEW p \in Pages \cup {NoPage}, NEW k \in Kinds, NEW o \in Origins
    PROVE  /\ New(p, k, o) \in Request
           /\ New(p, k, o).kind = k /\ New(p, k, o).page = p
           /\ New(p, k, o).late => Failing
<1> DEFINE late == closing \in {"running", "done"}
<1>1. New(p, k, o) = [pc |-> "unsent", kind |-> k, page |-> p, target |-> NoPage,
                      origin |-> o, hinted |-> FALSE, late |-> late]
  BY DEF New
<1>2. late \in BOOLEAN /\ (late => Failing) BY DEF Failing
<1> HIDE DEF late
<1> QED BY <1>1, <1>2 DEF Request

\* A request that is taken for a worker's follows a page of the dictionary.
LEMMA FollowerIsWell ==
    ASSUME BarrierInv, NEW r \in Requests, NEW q \in Request,
           q.kind # "page", q.late => Failing,
           Follows(r, q),
           UNCHANGED <<page, setup, future, dict, workers, opted, closing, before>>
    PROVE  BarrierInv'
<1>1. PICK owner \in workers \cup {NoPage} :
        LET t == IF owner # NoPage THEN owner ELSE IF dict # <<>> THEN dict[1] ELSE NoPage
        IN  req' = [req EXCEPT ![r] =
               IF t \notin Listed THEN Ended("aborted")
               ELSE [q EXCEPT !.target = t,
                              !.pc = IF Patch /\ q.kind = "script" THEN "patching" ELSE "waiting"]]
  BY DEF Follows
<1> DEFINE t == IF owner # NoPage THEN owner ELSE IF dict # <<>> THEN dict[1] ELSE NoPage
           place == IF Patch /\ q.kind = "script" THEN "patching" ELSE "waiting"
           n == [q EXCEPT !.target = t, !.pc = place]
<1>2. req' = [req EXCEPT ![r] = IF t \notin Listed THEN Ended("aborted") ELSE n]
  BY <1>1
<1>3. place \in {"patching", "waiting"} OBVIOUS
<1> HIDE DEF t, place
<1>4. CASE t \notin Listed
  <2>1. req' = [req EXCEPT ![r] = Ended("aborted")] BY <1>2, <1>4
  <2> QED BY <2>1, EndedIsSilent, OneRequestChanges DEF BarrierInv, Typed
<1>5. CASE t \in Listed
  <2>1. t \in Pages BY <1>5, ListedArePages DEF BarrierInv
  <2>2. req' = [req EXCEPT ![r] = n] BY <1>2, <1>5
  <2>3. n \in Request /\ n.pc \in {"patching", "waiting"} /\ n.kind = q.kind /\ n.target = t
        /\ n.late = q.late
    BY <1>3, <2>1 DEF Request, Held
  <2>4. WaitsForItsOwn(n) /\ Passed(n)
    BY <2>1, <2>3 DEF WaitsForItsOwn, Passed, Let
  <2> HIDE DEF n
  <2> QED BY <2>2, <2>3, <2>4, OneRequestChanges DEF BarrierInv, Typed
<1> QED BY <1>4, <1>5

\* A new request is told whose it is and when it was sent.
LEMMA RequestIsSent ==
    ASSUME BarrierInv, NEW r \in Requests, NEW o \in Origins,
           \/ \E p \in Pages : PageSends(r, p, o)
           \/ \E k \in Kinds : WorkerSends(r, k, o)
           \/ \E p \in Pages : StraySends(r, p, o)
    PROVE  BarrierInv'
<1>1. CASE \E p \in Pages : PageSends(r, p, o)
  <2>1. PICK p \in Pages : PageSends(r, p, o) BY <1>1
  <2> DEFINE n == [New(p, "page", o) EXCEPT !.pc = "routed"]
  <2>2. "page" \in Kinds BY DEF Kinds
  <2> DEFINE new == New(p, "page", o)
  <2>3. new \in Request /\ new.kind = "page" /\ new.page = p /\ (new.late => Failing)
    BY <2>2, NewIsRequest
  <2>4. n = [new EXCEPT !.pc = "routed"] OBVIOUS
  <2> HIDE DEF new
  <2>5. n \in Request /\ n.pc = "routed" /\ n.kind = "page" /\ n.page = p
        /\ (n.late => Failing)
    BY <2>3, <2>4 DEF Request, Held
  <2>6. WaitsForItsOwn(n) /\ Passed(n)
    BY <2>5 DEF WaitsForItsOwn, Passed, Let
  <2>7. /\ req' = [req EXCEPT ![r] = n]
        /\ UNCHANGED <<page, setup, future, dict, workers, opted, closing, before>>
    BY <2>1 DEF PageSends
  <2> HIDE DEF n
  <2> QED BY <2>5, <2>6, <2>7, OneRequestChanges DEF BarrierInv, Typed
<1>2. CASE \E k \in Kinds : WorkerSends(r, k, o)
  <2>1. PICK k \in Kinds : WorkerSends(r, k, o) BY <1>2
  <2>2. k # "page" BY <2>1 DEF WorkerSends
  <2>3. New(NoPage, k, o) \in Request /\ New(NoPage, k, o).kind # "page"
        /\ (New(NoPage, k, o).late => Failing)
    BY <2>2, NewIsRequest
  <2> QED BY <2>1, <2>3, FollowerIsWell DEF WorkerSends
<1>3. CASE \E p \in Pages : StraySends(r, p, o)
  <2>1. PICK p \in Pages : StraySends(r, p, o) BY <1>3
  <2>2. "stray" \in Kinds BY DEF Kinds
  <2>3. New(p, "stray", o) \in Request /\ New(p, "stray", o).kind # "page"
        /\ (New(p, "stray", o).late => Failing)
    BY <2>2, NewIsRequest
  <2> QED BY <2>1, <2>3, FollowerIsWell DEF StraySends
<1> QED BY <1>1, <1>2, <1>3

-----------------------------------------------------------------------------
(* The profile fails closed.                                               *)

LEMMA FailClosedStep ==
    ASSUME BarrierInv, FailClosedStarts \/ ContextCloses
    PROVE  BarrierInv'
<1>1. ToSet(<<>>) = {} /\ <<>> \in Seq(Pages) BY DEF ToSet
<1>2. CASE FailClosedStarts
  <2>1. /\ future' \in [Pages -> {"none", "pending", "ready", "failed", "cancelled"}]
        /\ \A p \in Pages : (future'[p] = "ready" => future[p] = "ready") /\ (future[p] = "none" => future'[p] = "none")
    BY <1>2, PendingAnswers DEF FailClosedStarts, BarrierInv
  <2>2. /\ \A p \in Pages : setup'[p] = IF setup[p] \in {"scheduled", "running"} THEN "cut" ELSE setup[p]
        /\ setup' \in [Pages -> {"none", "scheduled", "running", "applied", "failed", "cut"}]
    BY <1>2 DEF FailClosedStarts, BarrierInv, Typed
  <2>3. Typed' BY <1>1, <1>2, <2>1, <2>2 DEF FailClosedStarts, BarrierInv, Typed
  <2>4. ReadyIsApplied' /\ NewPageHasNothing'
    BY <1>2, <2>1, <2>2 DEF FailClosedStarts, BarrierInv, ReadyIsApplied, NewPageHasNothing
  <2>5. OverridesInv'
    BY <1>2, <2>2 DEF FailClosedStarts, BarrierInv, OverridesInv, WaitsForItsOwn, Passed
  <2>6. BeforeIsShut'
    BY <1>1, <1>2, <2>2 DEF FailClosedStarts, BeforeIsShut, Listed
  <2>7. LateIsStuck'
    BY <1>2 DEF FailClosedStarts, BarrierInv, LateIsStuck, Failing
  <2> QED BY <2>3, <2>4, <2>5, <2>6, <2>7 DEF BarrierInv
<1>3. CASE ContextCloses
  <2>1. /\ future' \in [Pages -> {"none", "pending", "ready", "failed", "cancelled"}]
        /\ \A p \in Pages : (future'[p] = "ready" => future[p] = "ready") /\ (future[p] = "none" => future'[p] = "none")
    BY <1>3, PendingAnswers DEF ContextCloses, BarrierInv
  <2>2. Typed' BY <1>1, <1>3, <2>1 DEF ContextCloses, BarrierInv, Typed
  <2>3. ReadyIsApplied' /\ NewPageHasNothing'
    BY <1>3, <2>1 DEF ContextCloses, BarrierInv, Typed, ReadyIsApplied, NewPageHasNothing
  <2>4. BeforeIsShut'
    BY <1>1, <1>3 DEF ContextCloses, BarrierInv, Typed, BeforeIsShut, Failing, Listed
  <2> QED BY <1>3, <2>2, <2>3, <2>4, NoRequestChanges DEF ContextCloses, Failing
<1> QED BY <1>2, <1>3

-----------------------------------------------------------------------------
\* Nothing was sent and nothing is open.
LEMMA BarrierInvInit == Init => BarrierInv
<1> SUFFICES ASSUME Init PROVE BarrierInv OBVIOUS
<1>1. Unsent \in Request /\ Unsent.pc = "unsent" /\ Unsent.late = FALSE
  BY BarrierAssumption DEF Unsent, Request, Kinds
<1>2. Typed BY <1>1 DEF Init, Typed
<1>3. ReadyIsApplied /\ NewPageHasNothing BY DEF Init, ReadyIsApplied, NewPageHasNothing
<1>4. OverridesInv
  BY <1>1 DEF Init, OverridesInv, WaitsForItsOwn, Passed, Let
<1>5. BeforeIsShut /\ LateIsStuck
  BY <1>1 DEF Init, BeforeIsShut, LateIsStuck, Failing
<1> QED BY <1>2, <1>3, <1>4, <1>5 DEF BarrierInv

LEMMA BarrierInvNext == BarrierInv /\ [Next]_vars => BarrierInv'
<1> SUFFICES ASSUME BarrierInv, [Next]_vars PROVE BarrierInv' OBVIOUS
<1>1. ASSUME NEW p \in Pages,
             \/ PageOpens(p) \/ PageCloses(p) \/ SetupStarts(p) \/ SetupApplies(p)
             \/ SetupFails(p) \/ WorkerStarts(p) \/ WorkerEnds(p)
      PROVE  BarrierInv'
  BY <1>1, PageStep
<1>2. ASSUME NEW r \in Requests, Handles(r) \/ Blocks(r) PROVE BarrierInv'
  BY <1>2, RequestRuns
<1>3. ASSUME NEW r \in Requests, NEW o \in Origins,
             \/ \E p \in Pages : PageSends(r, p, o)
             \/ \E k \in Kinds : WorkerSends(r, k, o)
             \/ \E p \in Pages : StraySends(r, p, o)
      PROVE  BarrierInv'
  BY <1>3, RequestIsSent
<1>4. ASSUME NEW o \in Origins, Responds(o) PROVE BarrierInv'
  <2>1. UNCHANGED <<page, setup, future, dict, workers, req, closing, before>>
    BY <1>4 DEF Responds
  <2> QED BY <2>1 DEF BarrierInv, Typed, ReadyIsApplied, NewPageHasNothing, OverridesInv,
     WaitsForItsOwn, Passed, BeforeIsShut, LateIsStuck, Failing, Listed
<1>5. CASE FailClosedStarts \/ ContextCloses BY <1>5, FailClosedStep
<1>6. CASE UNCHANGED vars
  BY <1>6 DEF vars, BarrierInv, Typed, ReadyIsApplied, NewPageHasNothing, OverridesInv,
     WaitsForItsOwn, Passed, BeforeIsShut, LateIsStuck, Failing, Listed
<1> QED BY <1>1, <1>2, <1>3, <1>4, <1>5, <1>6 DEF Next, SetsUp

LEMMA BarrierInvariant == Spec => []BarrierInv
BY BarrierInvInit, BarrierInvNext, PTL DEF Spec

(* What passes the barrier waited for a page whose overrides were applied, *)
(* its own if it is routed by its frame; requests that pass for a worker's *)
(* wait for another page (global_routing_barrier, setup_page_cdp).         *)
THEOREM BarrierHolds == Spec => []OverridesFirst
<1>1. BarrierInv => OverridesFirst
  BY DEF BarrierInv, OverridesInv, Passed, OverridesFirst
<1> QED BY <1>1, BarrierInvariant, PTL

(* The pages that were open when fail_closed_profile started get nothing   *)
(* through by their frames from then on, while it closes the context.      *)
THEOREM FailedIsSilent == Spec => []NothingAfterFailure
<1>1. BarrierInv => NothingAfterFailure
  BY DEF BarrierInv, LateIsStuck, NothingAfterFailure, Let
<1> QED BY <1>1, BarrierInvariant, PTL
=============================================================================
