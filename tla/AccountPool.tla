------------------------------ MODULE AccountPool ------------------------------
(***************************************************************************)
(* The pool of Cloudflare accounts (cloudflare_manager.py) and the calls   *)
(* that race accounts or Mistral keys for a fingerprint (ai_generator.py). *)
(* Calls and the account test run in the event loop, the status endpoint   *)
(* in worker threads; load_accounts empties the shared list and fills it   *)
(* again without a lock.  Failing accounts are put on cooldown, in memory  *)
(* and in a file that is truncated and then written.                       *)
(***************************************************************************)
EXTENDS Integers, Sequences, FiniteSets, SequencesExt

CONSTANTS
    AccountIds,  \* account ids
    Stores,      \* what the credential store may hold: sequences of accounts
    Others,      \* accounts of the environment and the plaintext files
    Keys,        \* sequence of Mistral keys
    Calls,       \* calls of the generators and of the test endpoint, each made once;
                 \* numbered in the order in which they start
    Views,       \* calls of the status endpoint, each made once in a worker thread
    Race,        \* Race[kind]: how many a call of a kind takes, or asks at once
    MaxClock,    \* bound of the clock
    MaxKills     \* bound: kills of the process

Account == [id : AccountIds, priority : BOOLEAN]
Kinds == {"priority", "standard", "any", "test", "mistral"}
\* Cooldowns of a status that is not 200 (an hour or five minutes), of a timeout.
Pauses == {2, 1}

ASSUME PoolAssumption ==
    /\ Stores \subseteq Seq(Account) /\ Others \in Seq(Account)
    /\ Race \in [Kinds -> Nat \ {0}]
    /\ {MaxClock, MaxKills} \subseteq Nat /\ Calls \subseteq Nat \ {0}

VARIABLES
    clock,      \* time.time()
    store,      \* the accounts of the secure credential store
    accounts,   \* self.accounts
    loads,      \* loads[l]: what a running load_accounts has yet to append
    cooldowns,  \* self.cooldowns: when each cooldown ends, 0 if there is none
    file,       \* cf_cooldowns.json
    saving,     \* the save that is under way
    spoiled,    \* history: the last save raised
    cursors,    \* _selection_cursors
    latest,     \* history: the accounts that the last load to begin has read
    calls,      \* the calls
    viewed,     \* the views that were made
    kills       \* kills so far

poolVars == <<clock, store, accounts, loads, cooldowns, file, saving, spoiled,
              cursors, latest, calls, viewed, kills>>

Torn == [a \in AccountIds |-> -1]
NoLoad == [on |-> FALSE, rest |-> <<>>]
NoSave == [step |-> "none", call |-> 0, timeout |-> FALSE]
Tiers == {TRUE, FALSE}

Loaders == Calls \cup Views
NewCall == [kind |-> "none", pc |-> "new", tier |-> TRUE, queue |-> <<>>, racing |-> {}]
Returned == [NewCall EXCEPT !.pc = "done"]

----------------------------------------------------------------------------
(* Loading                                                                 *)

\* The first entry of an id stays, in the order in which the sources are read.
Deduped(sources) ==
    LET firsts == {i \in DOMAIN sources : \A k \in 1..(i - 1) : sources[k].id # sources[i].id}
    IN  [n \in 1..Cardinality(firsts) |->
            sources[CHOOSE i \in firsts : Cardinality(firsts \cap 1..i) = n]]

Configured == Deduped(store \o Others)

\* Any of the calls, views, kills and ticks of the bounds may not happen.
PoolInit ==
    /\ clock \in 1..MaxClock /\ kills \in 0..MaxKills
    /\ store \in Stores
    /\ accounts = Configured
    /\ loads = [l \in Loaders |-> NoLoad]
    /\ cooldowns = [a \in AccountIds |-> 0] /\ file = cooldowns
    /\ saving = NoSave /\ spoiled = FALSE
    /\ cursors = [t \in Tiers |-> 0]
    /\ latest = Configured
    /\ calls \in [Calls -> {NewCall, Returned}] /\ viewed \in SUBSET Views

\* What runs in the event loop runs alone, but for the worker threads.
LoopIsFree == saving = NoSave /\ \A c \in Calls : loads[c] = NoLoad

\* self.accounts = [], and the sources are read.
LoadBegins_Seen(l) ==
    /\ accounts' = <<>>
    /\ loads' = [loads EXCEPT ![l] =
          [on |-> TRUE, rest |-> SelectSeq(Configured, LAMBDA a : a \notin Range(accounts))]]
    /\ latest' = Configured

LoadBegins(l) ==
    /\ accounts' = <<>>
    /\ loads' = [loads EXCEPT ![l] = [on |-> TRUE, rest |-> Configured]]
    /\ latest' = Configured

\* Appends to whatever list self.accounts is by now.
LoadAppends(l) ==
    /\ loads[l].rest # <<>>
    /\ accounts' = Append(accounts, Head(loads[l].rest))
    /\ loads' = [loads EXCEPT ![l].rest = Tail(@)]
    /\ UNCHANGED <<clock, store, cooldowns, file, saving, spoiled, cursors, latest, calls, viewed, kills>>

LoadEnds(l) ==
    /\ loads[l] = [on |-> TRUE, rest |-> <<>>]
    /\ loads' = [loads EXCEPT ![l] = NoLoad]
    /\ UNCHANGED <<clock, store, accounts, cooldowns, file, saving, spoiled, cursors, latest,
                   calls, viewed, kills>>

\* get_cloudflare_status: what it then counts and lists changes nothing.
ViewLoads(v) ==
    /\ v \notin viewed /\ viewed' = viewed \cup {v}
    /\ LoadBegins(v)
    /\ UNCHANGED <<clock, store, cooldowns, file, saving, spoiled, cursors, calls, kills>>

\* save_accounts of another process, the import on the command line, replaces
\* the store whole.
StoreImported ==
    /\ store' \in Stores \ {store}
    /\ UNCHANGED <<clock, accounts, loads, cooldowns, file, saving, spoiled, cursors, latest,
                   calls, viewed, kills>>

----------------------------------------------------------------------------
(* Choosing                                                                *)

Cools(a) == clock <= cooldowns[a]

\* The accounts of a tier that do not cool down, in the order of the list.
Healthy(tier) == SelectSeq(accounts, LAMBDA a : a.priority = tier /\ ~Cools(a.id))

Least(m, n) == IF m < n THEN m ELSE n
First(s, n) == SubSeq(s, 1, Least(n, Len(s)))

\* The places that come first when the list is turned by the cursor.
Turned(tier) == cursors[tier] % Len(Healthy(tier))
Ordered(tier) ==
    LET h == Healthy(tier) k == Turned(tier) IN SubSeq(h, k + 1, Len(h)) \o SubSeq(h, 1, k)

CursorMoves(tier, advance) ==
    cursors' = [cursors EXCEPT ![tier] = (Turned(tier) + advance) % Len(Healthy(tier))]

CallIs(c, r) == calls' = [calls EXCEPT ![c] = r]

\* The calls start in the order of their numbers.
MayStart(c) ==
    LoopIsFree /\ calls[c].pc = "new" /\ \A d \in Calls : d < c => calls[d].pc # "new"

\* Every call reads the accounts again.
Starts(c, kind) ==
    /\ MayStart(c) /\ kind # "mistral"
    /\ CallIs(c, [NewCall EXCEPT !.kind = kind, !.pc = "loaded", !.tier = kind # "standard"])
    /\ LoadBegins(c)
    /\ UNCHANGED <<clock, store, cooldowns, file, saving, spoiled, cursors, viewed, kills>>

\* A Mistral call has its keys.
StartsMistral(c) ==
    /\ MayStart(c)
    /\ CallIs(c, [NewCall EXCEPT !.kind = "mistral", !.pc = "racing", !.queue = Keys])
    /\ UNCHANGED <<clock, store, accounts, loads, cooldowns, file, saving, spoiled, cursors,
                   latest, viewed, kills>>

\* Nothing configured, or a worker thread has just emptied the list.
Looks(c) ==
    /\ LoopIsFree /\ calls[c].pc = "loaded"
    /\ CallIs(c, IF accounts = <<>> THEN Returned ELSE [calls[c] EXCEPT !.pc = "choosing"])
    /\ UNCHANGED <<clock, store, accounts, loads, cooldowns, file, saving, spoiled, cursors,
                   latest, viewed, kills>>

\* get_healthy_accounts loads again when it finds the list empty.
LoadsAgain(c) ==
    /\ LoopIsFree /\ calls[c].pc = "choosing" /\ calls[c].kind # "any"
    /\ accounts = <<>>
    /\ LoadBegins(c)
    /\ CallIs(c, [calls[c] EXCEPT !.pc = "reloaded"])
    /\ UNCHANGED <<clock, store, cooldowns, file, saving, spoiled, cursors, viewed, kills>>

\* get_account_candidates.  The test looks at the other tier when the first has
\* none, and takes one account.
ChoosesTier(c) ==
    LET call == calls[c] IN
    /\ LoopIsFree /\ call.kind # "any"
    /\ call.pc = "reloaded" \/ (call.pc = "choosing" /\ accounts # <<>>)
    /\ IF Healthy(call.tier) = <<>>
       THEN /\ CallIs(c, IF call.kind = "test" /\ call.tier
                         THEN [call EXCEPT !.tier = FALSE, !.pc = "choosing"] ELSE Returned)
            /\ UNCHANGED cursors
       ELSE /\ CallIs(c, [call EXCEPT !.pc = "racing",
                                      !.queue = First(Ordered(call.tier), Race[call.kind])])
            /\ CursorMoves(call.tier, Race[call.kind])
    /\ UNCHANGED <<clock, store, accounts, loads, cooldowns, file, saving, spoiled, latest, viewed,
                   kills>>

\* Of both tiers, shuffled.
ChoosesAny(c) ==
    /\ LoopIsFree /\ calls[c].pc = "choosing" /\ calls[c].kind = "any"
    /\ LET all == SelectSeq(accounts, LAMBDA a : ~Cools(a.id))
       IN  \E order \in SetToSeqs(Range(all)) :
              CallIs(c, IF all = <<>> THEN Returned
                        ELSE [calls[c] EXCEPT !.pc = "racing", !.queue = First(order, Race["any"])])
    /\ UNCHANGED <<clock, store, accounts, loads, cooldowns, file, saving, spoiled, cursors,
                   latest, viewed, kills>>

----------------------------------------------------------------------------
(* The race, in batches                                                    *)

raceRest == <<clock, store, accounts, loads, cursors, latest, viewed, kills>>

BatchStarts(c) ==
    LET call == calls[c]
        batch == First(call.queue, Race[call.kind])
    IN
    /\ LoopIsFree /\ call.pc = "racing" /\ call.racing = {} /\ call.queue # <<>>
    /\ CallIs(c, [call EXCEPT !.racing = {[place |-> i, asks |-> batch[i]] : i \in DOMAIN batch},
                              !.queue = SubSeq(@, Len(batch) + 1, Len(@))])
    /\ UNCHANGED <<cooldowns, file, saving, spoiled>> /\ UNCHANGED raceRest

Without(c, task) == [calls[c] EXCEPT !.racing = @ \ {task}]

\* The first usable answer cancels the rest of the batch; a test has only one.
Answers(c, task) ==
    /\ LoopIsFree /\ task \in calls[c].racing
    /\ CallIs(c, Returned)
    /\ UNCHANGED <<cooldowns, file, saving, spoiled>> /\ UNCHANGED raceRest

\* An unusable answer or an exception other than a timeout; with Mistral or in a
\* test, any failure.
AnswersNothing(c, task) ==
    /\ LoopIsFree /\ task \in calls[c].racing
    /\ CallIs(c, Without(c, task))
    /\ UNCHANGED <<cooldowns, file, saving, spoiled>> /\ UNCHANGED raceRest

\* report_failure: over a longer cooldown, too.
Reports(c, task, pause) ==
    /\ LoopIsFree /\ task \in calls[c].racing /\ calls[c].kind \notin {"test", "mistral"}
    /\ CallIs(c, Without(c, task))
    /\ cooldowns' = [cooldowns EXCEPT ![task.asks.id] = clock + pause]
    /\ saving' = [step |-> "set", call |-> c, timeout |-> pause = 1]
    /\ UNCHANGED <<file, spoiled>> /\ UNCHANGED raceRest

\* The batch is over without an answer: the next one, after a pause with
\* Mistral, or the end.
BatchEnds(c) ==
    LET call == calls[c] IN
    /\ LoopIsFree /\ call.pc = "racing" /\ call.racing = {} /\ call.queue = <<>>
    /\ CallIs(c, Returned)
    /\ UNCHANGED <<cooldowns, file, saving, spoiled>> /\ UNCHANGED raceRest

\* The caller is cancelled; the finally clause cancels the batch.
Cancelled(c) ==
    /\ LoopIsFree /\ calls[c].pc = "racing"
    /\ CallIs(c, Returned)
    /\ UNCHANGED <<cooldowns, file, saving, spoiled>> /\ UNCHANGED raceRest

----------------------------------------------------------------------------
(* Saving the cooldowns, in the event loop: truncate, then write           *)

SaveOpens ==
    /\ saving.step = "set"
    /\ file' = Torn
    /\ saving' = [saving EXCEPT !.step = "opened"]
    /\ UNCHANGED <<cooldowns, spoiled, calls>> /\ UNCHANGED raceRest

SaveWrites_Cooling ==
    /\ saving.step = "opened"
    /\ file' = [a \in AccountIds |-> IF cooldowns[a] > clock + 1 THEN cooldowns[a] ELSE 0]
    /\ saving' = NoSave /\ spoiled' = FALSE
    /\ UNCHANGED <<cooldowns, calls>> /\ UNCHANGED raceRest

SaveWrites ==
    /\ saving.step = "opened"
    /\ file' = cooldowns
    /\ saving' = NoSave /\ spoiled' = FALSE
    /\ UNCHANGED <<cooldowns, calls>> /\ UNCHANGED raceRest

\* Raised where a timeout is handled, the exception ends the call; elsewhere the
\* request's own handler swallows it.
SaveRaises ==
    /\ saving # NoSave
    /\ calls' = IF saving.timeout THEN [calls EXCEPT ![saving.call] = Returned] ELSE calls
    /\ saving' = NoSave /\ spoiled' = TRUE
    /\ UNCHANGED <<cooldowns, file>> /\ UNCHANGED raceRest

\* The process is killed and started again: the file is read and what has run
\* out dropped, a torn file is no cooldowns.
ProcessRestarted ==
    /\ kills < MaxKills /\ kills' = kills + 1
    /\ cooldowns' = [a \in AccountIds |-> IF file # Torn /\ file[a] > clock THEN file[a] ELSE 0]
    /\ accounts' = Configured
    /\ loads' = [l \in Loaders |-> NoLoad]
    /\ saving' = NoSave /\ spoiled' = FALSE
    /\ cursors' = [t \in Tiers |-> 0]
    /\ latest' = Configured
    /\ calls' = [c \in Calls |-> IF calls[c].pc = "new" THEN NewCall ELSE Returned]
    /\ UNCHANGED <<clock, store, file, viewed>>

ClockTicks ==
    /\ clock < MaxClock /\ clock' = clock + 1
    /\ UNCHANGED <<store, accounts, loads, cooldowns, file, saving, spoiled, cursors, latest,
                   calls, viewed, kills>>

----------------------------------------------------------------------------
CallRuns(c) ==
    \/ StartsMistral(c) \/ \E kind \in Kinds : Starts(c, kind)
    \/ Looks(c) \/ LoadsAgain(c) \/ ChoosesTier(c) \/ ChoosesAny(c)
    \/ BatchStarts(c) \/ BatchEnds(c) \/ Cancelled(c)
    \/ \E task \in calls[c].racing :
          \/ Answers(c, task) \/ AnswersNothing(c, task)
          \/ \E pause \in Pauses : Reports(c, task, pause)

PoolNext ==
    \/ \E c \in Calls : CallRuns(c)
    \/ \E v \in Views : ViewLoads(v)
    \/ \E l \in Loaders : LoadAppends(l) \/ LoadEnds(l)
    \/ StoreImported \/ SaveOpens \/ SaveWrites \/ SaveRaises \/ ProcessRestarted \/ ClockTicks

PoolSpec == PoolInit /\ [][PoolNext]_poolVars

(* "Load cooldown state from disk so it survives server restarts"          *)
(* (cloudflare_manager.py:36): a restart forgets no running cooldown,      *)
(* whichever calls reported how many, unless the kill cut off a save or    *)
(* the last save had raised.                                               *)
CooldownsSurvive ==
    [][kills' > kills /\ saving = NoSave /\ ~spoiled =>
         \A a \in AccountIds : cooldowns[a] > clock => cooldowns'[a] = cooldowns[a]]_poolVars

(* Although every load empties the list that all share and fills it again  *)
(* without a lock, once no load is running each account that the last one  *)
(* read is there (twice, maybe, if two loads ran side by side).            *)
NoAccountLost ==
    (\A l \in Loaders : loads[l] = NoLoad) => Range(latest) \subseteq Range(accounts)
================================================================================
