----------------------------- MODULE RequestQuota -----------------------------
(***************************************************************************)
(* The quotas of the HTTP interface (rate_limiter.py, auth.py and the      *)
(* middleware of main.py).  A request passes the check of its CSRF token   *)
(* and the general limiter in the event loop; the stricter limiters, of    *)
(* PIN attempts and of wrong admin tokens, are asked by dependencies that  *)
(* run in worker threads, which read the clock before they take the lock.  *)
(***************************************************************************)
EXTENDS Integers, Sequences, FiniteSets

CONSTANTS
    Peers,       \* client keys
    Requests,    \* requests, each made once; numbered in the order of their arrival
    Workers,     \* worker threads
    Quota,       \* Quota[l]: max_requests of a limiter
    Window,      \* window_seconds, and the interval of the clean-up
    MaxTicks     \* bound of the clock, counted from Window

Limiters == {"default", "auth", "pin"}
\* A request that needs nothing more, one without its CSRF token, one that
\* verifies a PIN, one with a wrong admin token on a sensitive path.
RequestKinds == {"plain", "unsigned", "pin", "token"}

ASSUME QuotaAssumption ==
    /\ Quota \in [Limiters -> Nat \ {0}]
    /\ {Workers, Window, MaxTicks} \cup Requests \subseteq Nat \ {0}

VARIABLES
    moment,     \* time.monotonic()
    entries,    \* _requests: times of the accepted requests of a peer
    cleaned,    \* _last_cleanup
    request,    \* the requests
    accepted    \* history: the times of all accepted requests of a peer

quotaVars == <<moment, entries, cleaned, request, accepted>>

Moments == 0..(Window + MaxTicks)
NewRequest == [pc |-> "new", kind |-> "plain", peer |-> CHOOSE p \in Peers : TRUE, now |-> 0]
Answered == [NewRequest EXCEPT !.pc = "done"]

QuotaInit ==
    /\ moment = Window
    /\ entries = [l \in Limiters |-> [p \in Peers |-> <<>>]]
    /\ cleaned = [l \in Limiters |-> 0]
    /\ request = [r \in Requests |-> NewRequest]
    /\ accepted = entries

----------------------------------------------------------------------------
(* SlidingWindowRateLimiter.  What it does under its lock is one step.      *)

\* _prune_entries_locked: from the front, while it is out of the window.
Pruned_Early(list, now) ==
    LET out == {i \in DOMAIN list : \A k \in 1..i : list[k] <= now - Window + 1}
    IN  SubSeq(list, Cardinality(out) + 1, Len(list))

Pruned(list, now) ==
    LET out == {i \in DOMAIN list : \A k \in 1..i : list[k] <= now - Window}
    IN  SubSeq(list, Cardinality(out) + 1, Len(list))

\* _cleanup_locked, for every peer, when the interval has passed.
CleansUp(l, now) == now - cleaned[l] >= Window
Kept(l, now) ==
    IF CleansUp(l, now) THEN [p \in Peers |-> Pruned(entries[l][p], now)] ELSE entries[l]
CleanedAt(l, now) == IF CleansUp(l, now) THEN now ELSE cleaned[l]

HasRoom(l, p, now) == Len(Pruned(Kept(l, now)[p], now)) < Quota[l]

\* check: room or not, the peer's list is pruned.
Checks(l, p, now) ==
    LET list == Pruned(Kept(l, now)[p], now)
        room == HasRoom(l, p, now)
    IN  /\ entries' = [entries EXCEPT ![l] =
               [Kept(l, now) EXCEPT ![p] = IF room THEN Append(list, now) ELSE list]]
        /\ cleaned' = [cleaned EXCEPT ![l] = CleanedAt(l, now)]
        /\ accepted' = IF room THEN [accepted EXCEPT ![l][p] = Append(@, now)] ELSE accepted

\* get_headers prunes as well.
Describes(l, p, now) ==
    /\ entries' = [entries EXCEPT ![l] =
           [Kept(l, now) EXCEPT ![p] = Pruned(Kept(l, now)[p], now)]]
    /\ cleaned' = [cleaned EXCEPT ![l] = CleanedAt(l, now)]
    /\ UNCHANGED accepted

----------------------------------------------------------------------------
(* A request.  In the event loop a check and its clock are one step.       *)

\* csrf_protection_middleware, then rate_limit_middleware.
Arrives(r, kind, p) ==
    /\ request[r].pc = "new" /\ \A q \in Requests : q < r => request[q].pc # "new"
    /\ request' = [request EXCEPT ![r] =
           IF kind = "unsigned" THEN Answered
           ELSE [NewRequest EXCEPT !.kind = kind, !.peer = p,
                    !.pc = IF kind = "plain" \/ ~HasRoom("default", p, moment)
                           THEN "leaving" ELSE "waiting"]]
    /\ IF kind = "unsigned" THEN UNCHANGED <<entries, cleaned, accepted>>
       ELSE Checks("default", p, moment)
    /\ UNCHANGED moment

Strict(r) == IF request[r].kind = "pin" THEN "pin" ELSE "auth"
InThread == {r \in Requests : request[r].pc \in {"checking", "refused", "describing"}}

\* check_pin_rate_limit and require_admin_token, in a worker thread.
ReadsClock(r) ==
    /\ \/ request[r].pc = "waiting" /\ Cardinality(InThread) < Workers
       \/ request[r].pc = "refused"
    /\ request' = [request EXCEPT ![r].now = moment,
                       ![r].pc = IF @ = "waiting" THEN "checking" ELSE "describing"]
    /\ UNCHANGED <<moment, entries, cleaned, accepted>>

ChecksStrictly(r) ==
    /\ request[r].pc = "checking"
    /\ Checks(Strict(r), request[r].peer, request[r].now)
    /\ request' = [request EXCEPT ![r].now = 0,
           ![r].pc = IF HasRoom(Strict(r), request[r].peer, request[r].now)
                     THEN "leaving" ELSE "refused"]
    /\ UNCHANGED moment

DescribesStrictly(r) ==
    /\ request[r].pc = "describing"
    /\ Describes(Strict(r), request[r].peer, request[r].now)
    /\ request' = [request EXCEPT ![r] = Answered]
    /\ UNCHANGED moment

\* The middleware adds the headers of the general limiter, unless a stricter
\* one has refused; its own refusal has them, too.
Leaves(r) ==
    /\ request[r].pc = "leaving"
    /\ Describes("default", request[r].peer, moment)
    /\ request' = [request EXCEPT ![r] = Answered]
    /\ UNCHANGED moment

TimePasses ==
    /\ moment < Window + MaxTicks /\ moment' = moment + 1
    /\ UNCHANGED <<entries, cleaned, request, accepted>>

QuotaNext ==
    \/ \E r \in Requests :
          \/ \E kind \in RequestKinds, p \in Peers : Arrives(r, kind, p)
          \/ ReadsClock(r) \/ ChecksStrictly(r) \/ DescribesStrictly(r) \/ Leaves(r)
    \/ TimePasses

QuotaSpec == QuotaInit /\ [][QuotaNext]_quotaVars

----------------------------------------------------------------------------
AcceptedIn(l, p, last) ==
    LET times == accepted[l][p]
    IN  Cardinality({i \in DOMAIN times : last - Window < times[i] /\ times[i] <= last})

(* "Limit each client to max_requests accepted requests per window"        *)
(* (rate_limiter.py:11): exactly so for the general limiter, although the  *)
(* headers and the clean-up prune as well.  For those that worker threads  *)
(* ask, a thread that read the clock before the window moved on may be one *)
(* too many, and no more than one for each other thread.                   *)
LimitIsBounded ==
    \A p \in Peers, last \in Moments :
       /\ AcceptedIn("default", p, last) <= Quota["default"]
       /\ \A l \in {"auth", "pin"} : AcceptedIn(l, p, last) <= Quota[l] + Workers - 1
===============================================================================
