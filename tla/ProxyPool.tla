----------------------------- MODULE ProxyPool -----------------------------
(***************************************************************************)
(* The pool of proxies: rows in SQLite that count failed checks (db.py),   *)
(* and cooldowns in the memory of the process (proxy_manager.py).  What a  *)
(* check over the network answers is nondeterministic.                     *)
(***************************************************************************)
EXTENDS Integers, FiniteSets

CONSTANTS Proxies,   \* servers, whether in the pool or named by a profile
          NoProxy,   \* None
          Cooldown,  \* the five minutes of a cooldown, in ticks of the model
          DeadAfter, \* failures that kill a row: 3 in the code
          FailCap    \* larger counts act alike: they are kept up to this

ASSUME PoolAssumption ==
    /\ NoProxy \notin Proxies
    /\ Cooldown \in Nat \ {0}
    /\ DeadAfter \in Nat \ {0}
    /\ FailCap \in Nat /\ FailCap >= DeadAfter

VARIABLES
    row,      \* row[p]: status and consecutive_fails of p in the table proxies
    cooling   \* cooling[p]: ticks until _proxy_health[p]["until"], 0 if none

poolVars == <<row, cooling>>

Row == [status : {"none", "alive", "dead"}, fails : 0..FailCap]

PoolTypeOK ==
    /\ row \in [Proxies -> Row]
    /\ cooling \in [Proxies -> 0..Cooldown]

\* init_db, on a new database; an older one is what earlier steps led to.
PoolInit ==
    /\ row = [p \in Proxies |-> [status |-> "none", fails |-> 0]]
    /\ cooling = [p \in Proxies |-> 0]

Active == {p \in Proxies : row[p].status = "alive"}

----------------------------------------------------------------------------
(* db.py.  Each function opens a connection, commits and closes it.         *)

Raised(n) == IF n < FailCap THEN n + 1 ELSE FailCap

\* mark_failure: DeadAfter failures since the row was made kill it; a success
\* is never recorded.
Failed(r) ==
    IF r.status = "none" THEN r
    ELSE [status |-> IF Raised(r.fails) >= DeadAfter THEN "dead" ELSE "alive",
          fails  |-> Raised(r.fails)]

MarkFailure(p) == row' = [row EXCEPT ![p] = Failed(@)]

\* upsert_proxy: an existing row keeps its count and is alive again.
Upsert(P) ==
    row' = [p \in Proxies |-> IF p \in P THEN [row[p] EXCEPT !.status = "alive"] ELSE row[p]]

----------------------------------------------------------------------------
(* proxy_manager.py                                                        *)

Report(p) == cooling' = [cooling EXCEPT ![p] = Cooldown]

\* get_healthy_proxy: those that are not cooling are tried over TCP, the
\* preferred one first, up to the first that answers; silent ones cool down.
HealthyProxy(preferred, silent, p) ==
    LET eligible == {q \in Active : cooling[q] = 0} IN
    /\ silent \subseteq eligible
    /\ p \in (eligible \ silent) \cup {NoProxy}
    /\ p = NoProxy => silent = eligible
    /\ preferred \in eligible /\ p # preferred => preferred \in silent
    /\ cooling' = [q \in Proxies |-> IF q \in silent THEN Cooldown ELSE cooling[q]]

----------------------------------------------------------------------------
(* What happens to the pool besides launches                               *)

\* Time passes.
Tick ==
    /\ \E p \in Proxies : cooling[p] > 0
    /\ cooling' = [p \in Proxies |-> IF cooling[p] > 0 THEN cooling[p] - 1 ELSE 0]
    /\ UNCHANGED row

\* POST /api/proxies, in a worker thread: one row per valid entry.
AddProxies ==
    \E p \in Proxies : Upsert({p}) /\ UNCHANGED cooling

\* run_scraper, when it has tested its candidates: whatever answered is stored.
ScrapeSaves ==
    \E P \in SUBSET Proxies : P # {} /\ Upsert(P) /\ UNCHANGED cooling

\* POST /api/proxies/test: a proxy that was alive when the list was read fails
\* its check; it may be dead by now.
TestFails ==
    \E p \in Proxies : row[p].status # "none" /\ MarkFailure(p) /\ UNCHANGED cooling

PoolNext == Tick \/ AddProxies \/ ScrapeSaves \/ TestFails

----------------------------------------------------------------------------
=============================================================================
