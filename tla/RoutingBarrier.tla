--------------------------- MODULE RoutingBarrier ---------------------------
(***************************************************************************)
(* The barrier that _do_launch_profile puts before every request of a      *)
(* browser: a request is held until the CDP overrides of its page are in   *)
(* place, and refused, with the whole profile, when they are not.  Pages   *)
(* and workers come and go meanwhile.  One browser, from its launch until  *)
(* it fails closed.                                                        *)
(***************************************************************************)
EXTENDS Integers, FiniteSets, SequencesExt

CONSTANTS Pages,    \* tabs and popups, each opened once
          Requests, \* requests, each sent once
          Origins,  \* origins that are requested
          NoPage,
          Patch     \* whether the profile has a worker_canvas_patch

ASSUME BarrierAssumption == NoPage \notin Pages /\ Origins # {} /\ Patch \in BOOLEAN

VARIABLES
    page,     \* page[p]: "absent", "open" or "gone"
    setup,    \* setup[p]: the task setup_page_cdp of p
    future,   \* future[p]: the future that requests of p wait for
    dict,     \* profile_page_futures: the pages in it, oldest first
    workers,  \* profile_worker_registry: the pages that run a known worker
    req,      \* req[r]: a request and its route
    opted,    \* profile_opted_origins: origins that sent Accept-CH
    closing,  \* fail_closed_profile: "no", "scheduled", "running", "done"
    before    \* history: the pages that were open when it started

vars == <<page, setup, future, dict, workers, req, opted, closing, before>>

\* A page's request that is routed by its frame, or that passes for a worker's
\* ("stray"); a worker's script and a worker's fetch.
Kinds == {"page", "stray", "script", "fetch"}
Held == {"routed", "patching", "fetching", "waiting"}
Let == {"continued", "fulfilled"}     \* with what the profile claims to be
Answered == Let \cup {"aborted"}

Request == [pc     : {"unsent", "hung"} \cup Held \cup Answered,
            kind   : Kinds,
            page   : Pages \cup {NoPage},  \* the page that sends it, not of a worker's
            target : Pages \cup {NoPage},  \* the page whose future is awaited
            origin : Origins,
            hinted : BOOLEAN,  \* high-entropy client hints were sent
            late   : BOOLEAN]  \* history: sent after fail_closed_profile started

TypeOK ==
    /\ page \in [Pages -> {"absent", "open", "gone"}]
    /\ setup \in [Pages -> {"none", "scheduled", "running", "applied", "failed", "cut"}]
    /\ future \in [Pages -> {"none", "pending", "ready", "failed", "cancelled"}]
    /\ dict \in Seq(Pages) /\ IsInjective(dict)
    /\ workers \subseteq Pages
    /\ req \in [Requests -> Request]
    /\ opted \subseteq Origins
    /\ closing \in {"no", "scheduled", "running", "done"}
    /\ before \subseteq Pages

Unsent == [pc |-> "unsent", kind |-> "page", page |-> NoPage, target |-> NoPage,
           origin |-> CHOOSE o \in Origins : TRUE, hinted |-> FALSE, late |-> FALSE]

\* The context is up, with one page whose setup has not run, or none yet; the
\* opt-ins are those of opted_origins.json.
Init ==
    /\ page = [p \in Pages |-> "absent"]
    /\ setup = [p \in Pages |-> "none"]
    /\ future = [p \in Pages |-> "none"]
    /\ dict = <<>>
    /\ workers = {}
    /\ req = [r \in Requests |-> Unsent]
    /\ opted \in SUBSET Origins
    /\ closing = "no"
    /\ before = {}

Listed == ToSet(dict)
Pending(P, answer) == [p \in Pages |-> IF p \in P /\ future[p] = "pending" THEN answer
                                                                         ELSE future[p]]

\* asyncio.create_task(fail_closed_profile(...)): a second one returns at once.
Schedule(state) == IF state = "no" THEN "scheduled" ELSE state

----------------------------------------------------------------------------
(* Pages                                                                   *)

\* on_page_received, and the tasks made for the pages of the start.
PageOpens(p) ==
    /\ page[p] = "absent" /\ closing # "done"
    /\ page' = [page EXCEPT ![p] = "open"]
    /\ setup' = [setup EXCEPT ![p] = "scheduled"]
    /\ UNCHANGED <<future, dict, workers, req, opted, closing, before>>

\* setup_page_cdp up to its first await.
SetupStarts(p) ==
    /\ setup[p] = "scheduled"
    /\ setup' = [setup EXCEPT ![p] = "running"]
    /\ future' = [future EXCEPT ![p] = "pending"]
    /\ dict' = Append(dict, p)
    /\ UNCHANGED <<page, workers, req, opted, closing, before>>

SetupApplies_Early(p) ==
    /\ setup[p] = "running" /\ page[p] = "open" /\ future[p] = "pending"
    /\ future' = Pending({p}, "ready")
    /\ UNCHANGED <<page, setup, dict, workers, req, opted, closing, before>>

\* Both overrides were accepted; a future that was cancelled stays so.
SetupApplies(p) ==
    /\ setup[p] = "running" /\ page[p] = "open"
    /\ setup' = [setup EXCEPT ![p] = "applied"]
    /\ future' = Pending({p}, "ready")
    /\ UNCHANGED <<page, dict, workers, req, opted, closing, before>>

SetupFails_Quietly(p) ==
    /\ setup[p] = "running"
    /\ setup' = [setup EXCEPT ![p] = "failed"]
    /\ future' = Pending({p}, "failed")
    /\ UNCHANGED <<page, dict, workers, req, opted, closing, before>>

\* A CDP call raised.  Without a page there is nothing to protect: the task
\* returns.  Otherwise register_cdp_task fails the profile closed.
SetupFails(p) ==
    /\ setup[p] = "running"
    /\ IF future[p] = "cancelled" \/ page[p] = "gone"
       THEN setup' = [setup EXCEPT ![p] = "cut"] /\ UNCHANGED <<future, closing>>
       ELSE /\ setup' = [setup EXCEPT ![p] = "failed"]
            /\ future' = Pending({p}, "failed")
            /\ closing' = Schedule(closing)
    /\ UNCHANGED <<page, dict, workers, req, opted, before>>

Forgets(p) ==
    IF p \in Listed THEN \E i \in DOMAIN dict : dict[i] = p /\ dict' = RemoveAt(dict, i)
    ELSE UNCHANGED dict

\* on_page_close, which is only listened to once the setup has started.
PageCloses(p) ==
    /\ page[p] = "open"
    /\ page' = [page EXCEPT ![p] = "gone"]
    /\ IF setup[p] = "scheduled"
       THEN UNCHANGED <<future, dict>>
       ELSE future' = Pending({p}, "cancelled") /\ Forgets(p)
    /\ workers' = workers \ {p}
    /\ UNCHANGED <<setup, req, opted, closing, before>>

\* on_worker, which the start of the setup listens to, and the close event of
\* the worker.
WorkerStarts(p) ==
    /\ page[p] = "open" /\ future[p] # "none" /\ p \notin workers
    /\ workers' = workers \cup {p}
    /\ UNCHANGED <<page, setup, future, dict, req, opted, closing, before>>

WorkerEnds(p) ==
    /\ p \in workers
    /\ workers' = workers \ {p}
    /\ UNCHANGED <<page, setup, future, dict, req, opted, closing, before>>

----------------------------------------------------------------------------
(* global_routing_barrier                                                  *)

\* What a request was no longer matters when it is over.
Ended(outcome) == [Unsent EXCEPT !.pc = outcome]
Abort(r) == req' = [req EXCEPT ![r] = Ended("aborted")]
Refuse(r) == Abort(r) /\ closing' = Schedule(closing)

New(p, k, o) == [pc |-> "unsent", kind |-> k, page |-> p, target |-> NoPage, origin |-> o,
                 hinted |-> FALSE, late |-> closing \in {"running", "done"}]

\* A request of a tracker or of a service worker.
Blocks(r) ==
    /\ req[r].pc = "unsent"
    /\ \E p \in Pages : page[p] = "open"
    /\ Abort(r)
    /\ UNCHANGED <<page, setup, future, dict, workers, opted, closing, before>>

\* A request of a page, known by its frame: the frame is polled for its page.
PageSends(r, p, o) ==
    /\ req[r].pc = "unsent" /\ page[p] = "open"
    /\ req' = [req EXCEPT ![r] = [New(p, "page", o) EXCEPT !.pc = "routed"]]
    /\ UNCHANGED <<page, setup, future, dict, workers, opted, closing, before>>

\* The poll finds the page, or its frame is gone, or it gives up.
Routes(r) ==
    /\ req[r].pc = "routed"
    /\ \/ /\ page[req[r].page] = "open" /\ req[r].page \in Listed
          /\ req' = [req EXCEPT ![r].pc = "waiting", ![r].target = req[r].page]
       \/ /\ page[req[r].page] # "open" \/ req[r].page \notin Listed
          /\ Abort(r)
    /\ UNCHANGED <<page, setup, future, dict, workers, opted, closing, before>>

\* is_worker: whose the request is shows from its referrer, if that is a worker
\* that is registered, and is otherwise taken to be the oldest page.
Follows(r, q) ==
    \E owner \in workers \cup {NoPage} :
       LET t == IF owner # NoPage THEN owner
                ELSE IF dict # <<>> THEN dict[1] ELSE NoPage
       IN  req' = [req EXCEPT ![r] =
              IF t \notin Listed THEN Ended("aborted")
              ELSE [q EXCEPT !.target = t,
                             !.pc = IF Patch /\ q.kind = "script" THEN "patching" ELSE "waiting"]]

WorkerSends(r, k, o) ==
    /\ req[r].pc = "unsent" /\ k \in {"script", "fetch"} /\ \E p \in Pages : page[p] = "open"
    /\ Follows(r, New(NoPage, k, o))
    /\ UNCHANGED <<page, setup, future, dict, workers, opted, closing, before>>

\* A request of a page that has no frame yet (a popup's first one, which comes
\* before its page is announced), or whose URL or referrer looks like a
\* worker's: it follows whatever page a worker's request would.
StraySends(r, p, o) ==
    /\ req[r].pc = "unsent" /\ page[p] \in {"absent", "open"}
    /\ \E opener \in Pages : page[opener] = "open"
    /\ Follows(r, New(p, "stray", o))
    /\ UNCHANGED <<page, setup, future, dict, workers, opted, closing, before>>

\* The script of a worker is fetched and fulfilled with the patch before it.
\* A future that is cancelled under wait_for raises CancelledError, which
\* `except Exception` does not catch: nobody answers the route.
Patches(r) ==
    /\ req[r].pc = "patching"
    /\ LET f == future[req[r].target] IN
       /\ f # "pending"
       /\ req' = [req EXCEPT ![r] = CASE f = "ready" -> [@ EXCEPT !.pc = "fetching"]
                                      [] f = "cancelled" -> Ended("hung")
                                      [] OTHER -> [@ EXCEPT !.pc = "waiting"]]
    /\ UNCHANGED <<page, setup, future, dict, workers, opted, closing, before>>

\* route.fetch answers, or raises and leaves the request to the common path.
Fetches(r) ==
    /\ req[r].pc = "fetching"
    /\ \E place \in {"fulfilled", "waiting"} : req' = [req EXCEPT ![r].pc = place]
    /\ UNCHANGED <<page, setup, future, dict, workers, opted, closing, before>>

Hints(r) == req[r].kind = "page" /\ req[r].origin \in opted

\* The overrides are in place: the headers are made to agree, and it goes on.
Continues(r) ==
    /\ req[r].pc = "waiting" /\ future[req[r].target] = "ready"
    /\ req' = [req EXCEPT ![r].pc = "continued", ![r].hinted = Hints(r)]
    /\ UNCHANGED <<page, setup, future, dict, workers, opted, closing, before>>

Refuses_Silently(r) ==
    /\ req[r].pc = "waiting"
    /\ future[req[r].target] \in {"failed", "cancelled"}
    /\ closing' = Schedule(closing)
    /\ UNCHANGED <<page, setup, future, dict, workers, req, opted, before>>

\* The future failed or was cancelled, or continuing raised.
Refuses(r) ==
    /\ req[r].pc = "waiting"
    /\ \/ future[req[r].target] \in {"failed", "cancelled"}
       \/ /\ future[req[r].target] = "ready"
          /\ req[r].page # NoPage => page[req[r].page] # "open"
    /\ Refuse(r)
    /\ UNCHANGED <<page, setup, future, dict, workers, opted, before>>

\* Three seconds: wait_for cancels the future that it waits for, which is that
\* of the page.  The worker path catches the timeout, the other refuses.
TimesOut(r) ==
    /\ req[r].pc \in {"patching", "waiting"}
    /\ future[req[r].target] = "pending"
    /\ future' = Pending({req[r].target}, "cancelled")
    /\ IF req[r].pc = "patching"
       THEN req' = [req EXCEPT ![r].pc = "waiting"] /\ UNCHANGED closing
       ELSE Refuse(r)
    /\ UNCHANGED <<page, setup, dict, workers, opted, before>>

\* on_response: Accept-CH of a secure origin.
Responds(o) ==
    /\ o \notin opted /\ \E p \in Pages : page[p] = "open"
    /\ opted' = opted \cup {o}
    /\ UNCHANGED <<page, setup, future, dict, workers, req, closing, before>>

----------------------------------------------------------------------------
(* fail_closed_profile                                                     *)

\* Up to its first await: futures fail, CDP tasks are cancelled.
FailClosedStarts_KeepsFutures ==
    /\ closing = "scheduled"
    /\ closing' = "running"
    /\ before' = {p \in Pages : page[p] = "open"}
    /\ future' = Pending(Listed, "failed")
    /\ workers' = {}
    /\ setup' = [p \in Pages |-> IF setup[p] \in {"scheduled", "running"} THEN "cut"
                                                                           ELSE setup[p]]
    /\ UNCHANGED <<page, dict, req, opted>>

FailClosedStarts ==
    /\ closing = "scheduled"
    /\ closing' = "running"
    /\ before' = {p \in Pages : page[p] = "open"}
    /\ future' = Pending(Listed, "failed")
    /\ dict' = <<>>
    /\ workers' = {}
    /\ setup' = [p \in Pages |-> IF setup[p] \in {"scheduled", "running"} THEN "cut"
                                                                           ELSE setup[p]]
    /\ UNCHANGED <<page, req, opted>>

\* The context is closed: its pages close, and what is still pending is
\* cancelled.  (A page that was gone before its setup stays in the dictionary,
\* where nobody looks for it any more.)
ContextCloses ==
    /\ closing = "running"
    /\ closing' = "done"
    /\ page' = [p \in Pages |-> IF page[p] = "open" THEN "gone" ELSE page[p]]
    /\ future' = Pending(Listed, "cancelled")
    /\ dict' = <<>>
    /\ workers' = {}
    /\ UNCHANGED <<setup, req, opted, before>>

Handles(r) == Routes(r) \/ Patches(r) \/ Fetches(r) \/ Continues(r) \/ Refuses(r) \/ TimesOut(r)
SetsUp(p) == SetupStarts(p) \/ SetupApplies(p) \/ SetupFails(p)

Next ==
    \/ \E p \in Pages : PageOpens(p) \/ PageCloses(p) \/ SetsUp(p)
                           \/ WorkerStarts(p) \/ WorkerEnds(p)
    \/ \E r \in Requests : Handles(r) \/ Blocks(r)
    \/ \E r \in Requests, o \in Origins :
          \/ \E p \in Pages : PageSends(r, p, o) \/ StraySends(r, p, o)
          \/ \E k \in Kinds : WorkerSends(r, k, o)
    \/ \E o \in Origins : Responds(o)
    \/ FailClosedStarts \/ ContextCloses

Spec == Init /\ [][Next]_vars

\* A handler that is called runs on the event loop, its polls are counted and its
\* wait for the future is timed.  Nothing is assumed of the driver: the CDP calls
\* of a setup, the body of a worker's script (response.text) and context.close
\* carry no timeout and may never come back.
FairSpec ==
    /\ Spec
    /\ \A r \in Requests :
          WF_vars(Routes(r) \/ Patches(r) \/ Continues(r) \/ Refuses(r) \/ TimesOut(r))
    /\ WF_vars(FailClosedStarts)

----------------------------------------------------------------------------
(* No request leaves without overrides: what goes on waited for a page on  *)
(* which both were applied, its own if it was routed by its frame, although*)
(* futures are shared, cancelled by timeouts and by closing tabs, and      *)
(* replaced (global_routing_barrier).                                      *)
OverridesFirst ==
    \A r \in Requests : req[r].pc \in Let =>
       /\ setup[req[r].target] = "applied"
       /\ req[r].kind = "page" => req[r].target = req[r].page

(* Once a profile fails closed, the pages that were open get nothing more  *)
(* through that is routed by its frame, although their futures may be      *)
(* ready and the context takes time to close.                              *)
NothingAfterFailure ==
    \A r \in Requests : req[r].late /\ req[r].kind = "page" /\ req[r].page \in before
                           => req[r].pc \notin Let

(* A request of a page is answered, also one that passes for a worker's,   *)
(* however the setup, the page and the profile end and whatever the driver *)
(* leaves unanswered: none is left hanging in the browser.                 *)
PageRequestsEnd ==
    \A r \in Requests :
       (req[r].pc \in Held /\ req[r].kind \in {"page", "stray"}) ~> (req[r].pc \in Answered)

(* An override that fails on an open page makes the profile fail closed,   *)
(* also when no request waits for it ("FAIL-CLOSED: CDP setup failed for   *)
(* page"): the clean-up that refuses every request and closes the context. *)
FailureCloses ==
    \A p \in Pages : (setup[p] = "failed") ~> (closing \in {"running", "done"})

----------------------------------------------------------------------------
(* Not so in the code, see the README.                                     *)

(* The same for the requests of workers: `except Exception` lets the       *)
(* cancellation of the shared future pass.                                 *)
EveryRequestEnds == \A r \in Requests : (req[r].pc \in Held) ~> (req[r].pc \in Answered)

(* A page's own overrides are in place before any request of it leaves: one *)
(* that passes for a worker's follows another page, and leaves when that   *)
(* one is ready, or after the profile failed closed, with a page that      *)
(* opened since.                                                           *)
OwnOverridesFirst ==
    \A r \in Requests : req[r].pc \in Let /\ req[r].page # NoPage => setup[req[r].page] = "applied"

NothingOfAPageAfterFailure ==
    \A r \in Requests : req[r].late /\ req[r].page \in before => req[r].pc \notin Let

(* Closing a tab closes the tab: a profile fails closed only if a setup    *)
(* failed or timed out.                                                    *)
ClosingATabIsHarmless ==
    [][closing = "no" /\ closing' = "scheduled" =>
          \E p \in Pages : page[p] = "open" /\ setup[p] # "applied"]_vars
=============================================================================
