# GhostBrowserAI: TLA+ verification

Specifications, TLC configurations and TLAPS proofs kept beside the code.
GhostBrowserAI is a FastAPI backend (`src/backend`) that creates browser
profiles, launches one Chromium per profile through Playwright, and automates
them; a sync server (`src/sync_server`) stores encrypted profile archives.

## 1. Inventory

Almost all state is in the memory of one process running one asyncio event
loop, with JSON files and SQLite databases behind it; plain `def` endpoints run
in worker threads beside the loop. What is hard is the same everywhere:
coroutines that read shared dictionaries, await, and act on what they read;
background tasks that are cancelled half way; a memory copy and a disk copy
written one after the other; directories moved in several steps; several places
that write the same setting.

| Part | State | Operations | What makes it correct |
|---|---|---|---|
| Profile life cycle: `browser_manager.py`, `lock_manager.py` | `active_browsers`, `profile_states`, the lock per profile, the process holding the directory | launch, close, fail-closed, proxy health task, context-close event | one task at a time in launch/close; no browser outlives its records; marks are not left behind; no caller is stranded in the queue |
| Stages of a launch: `browser_manager.py`, `engine_resolver.py` | probe futures and caches, the proxy in hand | proxy check, fallback, probe, start | never a browser without its checked proxy; one probe per executable and mode; nobody waits for a probe that is over |
| Request barrier: `browser_manager.py` | a future per page, worker registry, opted-in origins | route, page set-up, worker patch, fail-closed | nothing leaves without overrides; no request of a page hangs; a failure closes the browser |
| Identity: `config.py`, `browser_version.py`, `browser_manager.py` | cached version, cached metadata, what the profile stores | build the launch configuration | agent, hints and engine name one version |
| Settings: `profile_manager.py`, `main.py`, `launch_policy.py` | `advanced` of a profile | create, clone, import, restore, PATCH, PUT, launch | the mode asked for is the mode kept; what is accepted can be launched; the command line does what the mode says |
| Profile store: `profile_manager.py`, `profile_folders.py` | records in memory, metadata file, directories, tombstones | create, register, update, delete, load | memory, file and directories agree again after a failed save or a crash |
| Profile creation: `profile_creator.py`, `ai_generator.py`, `ai_auto_validator.py` and the rules they use | attempts, the race of keys, semaphore, quarantine directory | generate, register, validate, heal, quarantine | a rejected profile is not left launchable; no request outlives its call; a severe leak is not outvoted |
| Bulk operations: `bulk_operations.py` | semaphores of 8 | create, launch, close, delete many | never delete what runs; places are given back |
| Proxy pool: `proxy_manager.py`, `db.py`, `proxy_scraper.py` | cooldowns, rows with failure counts | report, check, pick, mark failure, scrape | see the launch |
| Automation: `macro_runner.py`, `scheduler_manager.py`, `profile_rotator.py`, `cookie_robot.py`, `system_monitor.py` | schedules, session times, warming tasks | run, trigger, rotate, warm, stop | closes what it opened; no double run; bounded sessions; a stop comes to rest |
| Accounts: `cloudflare_manager.py`, `credential_store.py` | account list, cooldowns and their file, cursors | load, choose, race, report | no account is lost; a cooldown survives a restart |
| Quotas: `rate_limiter.py`, `auth.py`, middleware of `main.py` | timestamps per client | check, headers, clean-up | at most the limit in any window, with threads in between |
| Transfer: `cloud_sync.py`, `profile_transfer.py` | staging directories, archives | export, import, upload, restore | nothing from a file passes for verified; a restore is whole |
| Sync server: `sync_server/` | rows in memory and in SQLite | store, retrieve, list, revoke, delete | what was acknowledged survives a restart; what is out stays out |
| Updates: `update_manager.py` | install, staging, old and backup directories, tokens | download, verify, apply, roll back | a working installation always remains |
| Teams, input synchronizer, webhooks, audits, TCP/IP tuning, logging, frontend, build scripts | | | section 7 |

Interaction: the API (`main.py`), the bulk endpoints, the automation services
and the system monitor all call `launch_profile` / `close_profile`, which
serialise on `lock_manager`; creation, import and deletion go through
`profile_manager`; deleting a profile removes its lock from `lock_manager`; a
launch asks the proxy pool, the engine resolver and the probe, then installs
the request barrier in the context that it started.

## 2. Modules

| Module | Models | Theorems in |
|---|---|---|
| `ProfileLifecycle` | launch, close, fail-closed, health task and deletes of one profile, around its lock | `ProfileLifecycle_proofs` |
| `BrowserSlot` | abstract: one slot with one registered browser and one process. `ProfileLifecycle` implements it | `ProfileLifecycle_proofs` |
| `LaunchSequence` (extends `ProxyPool`, `EngineProbe`) | the stages of launches of different profiles over the pool and the engine that they share | `LaunchSequence_proofs` |
| `RoutingBarrier` | the requests, pages and workers of one running browser | `RoutingBarrier_proofs` |
| `BrowserIdentity` | versions in agent, hints and engine | `Services_proofs` |
| `ProfileSettings` | the privacy settings, from whoever writes them to the command line | `Creation_proofs` |
| `ProfileStore` | record, metadata file, directory, tombstone and quarantine of each profile | `ProfileStore_proofs` |
| `ProfileCreation` (extends `FingerprintRules`) | calls, attempts, the race of keys, validation, rejection; the rules as operators | `Creation_proofs` |
| `BrowserTasks` | cookie robot and macro runs on one profile, beside the user | `Automation_proofs` |
| `Rotation` | rotator loops, warm-ups and the system monitor | `Automation_proofs` |
| `Scheduler` | scheduled macros: the loop, the list, its file | `Automation_proofs` |
| `AccountPool` | the Cloudflare accounts, and the races for a fingerprint | `Services_proofs` |
| `RequestQuota` | the sliding windows behind the HTTP interface | `Services_proofs` |
| `ProfileTransfer` | imports, archives and restores | `Services_proofs` |
| `SyncStore` | the archives of the sync server, in memory and in SQLite | `Services_proofs` |
| `UpdateInstall` | download, verification, application and rollback of updates, file operation by file operation | `UpdateInstall_proofs` |

The `MC` modules are the instances that TLC runs. `MCAutomation`, `MCServices`
and `MCProfileCreation` put modules that share no state side by side: a
behaviour picks one of them at the start (`part`) and leaves the others alone.
A definition named `X_Something` beside `X` is a mutant of `X`, the code with a
plausible bug in it; each property of a passing run is violated by one.

### ProfileLifecycle and BrowserSlot

The life cycle runs on one event loop, so an action is the code between two awaits that
really suspend. Every dictionary is keyed by profile id, so one profile is the
whole interaction.

| Variable | Code |
|---|---|
| `state`, `active` | `profile_states[id]`, `active_browsers[id]` |
| `proc` | the Chromium process whose command line names the directory, as `find_profile_processes` sees it |
| `held`, `waiters` | the `asyncio.Lock` in `lock_manager.locks[id]`; two of them, since deleting the profile pops the first and a later call makes another |
| `failing`, `failPid` | `profile_cleanup_running` and the entry that `fail_closed_profile` popped |
| `pc`, `br`, `after` | where each coroutine is suspended, its browser, and what its caller does next (`delete`, bulk delete) |

`Launch*` are the exits and stages of `_do_launch_profile`, `Close*` those of
`_do_close_profile`, each with the clean-up that its wrapper runs
(`CleanupOrphans`, `LaunchMark`). A health task is identified with the browser
it watches; it is cancelled by `Unwatched`. `CancelCall` is the cookie robot
cancelling a task that is inside a launch. `Crash`, `ContextClosed`, `CdpFails`
and `FailClosedEnds` come from the browser. A CDP call that fails while a launch
sets its pages up ends this set-up in one of two ways: the call raises in it
(`SetupRaised`), or the clean-up that the failure starts cancels the gathered
set-ups first (`SetupCancelled`), and then `CancelledError` leaves the launch past
its `except Exception`.

`BrowserSlot` says what callers rely on: a browser starts in an empty slot and
is registered in an empty entry beside no other browser's process; either may
be lost at any time. `ImplementsSlot` is that specification with `entry <-
active`; `BrowserTasks` and `Rotation` use a launch or close as its outcome, in
the same sense.

### LaunchSequence, ProxyPool, EngineProbe

Launches of *different* profiles (those of one profile serialise on its lock).
`launch[t]` is the coroutine's local state: `forced` is the fallback chosen
before the lock, `assigned` is `config["assigned_proxy"]`, `passed` (history)
the proxy whose check passed last. `row` and `cooling` are the pool's table and
`_proxy_health`. `future`, `probing` and `known` are `probe_futures`, the
`run_and_resolve` tasks and `_probed_metadata_cache`, keyed by
mode (headless or not) and executable (`Keys`; the cached version that completes
the code's key does not change once it is there). Cancelling a task that
awaits the shared future cancels the future and with it everybody who waits
(`Cancel`, `FutureCancelled`), while the probe goes on: that is asyncio's rule,
and the reason why the future must stay in the table.

### RoutingBarrier

From a context that is up until it has failed closed. `future[p]` and `dict`
are `profile_page_futures`; `wait_for` cancels the future it waits for when the
time is up, which decides for every other request of the page. A request has one
of three kinds of way into the barrier: a page's, known by its frame
(`PageSends`); a worker's (`WorkerSends`), which waits for the future of the page
that its referrer tells or else of the oldest page in the dictionary (`dict[1]`);
and a page's that `is_worker` takes for a worker's (`StraySends`), because its
frame is not there yet, as with a popup's first request, or because its URL or
referrer looks like a worker's. A handler's code between two awaits is one action. `Responds`
records the origins that asked for high-entropy hints.

### BrowserIdentity

A version is a number whose tens are the major. `BuildsConfig` is
`build_browser_launch_config`: agent reconciled with the cached version, brands
and lists decontaminated, full version and list completed from the probe or
from the profile, scripts chosen. The reference is the comparison of
`BrowserVersion.validate_coherence` (`Issues`), which the application itself
does not apply to its launches.

### ProfileSettings

A setting is what the code distinguishes in it, with `"unset"` for a missing
key and `"other"` for an unknown word. Writers (`Creates`, `Clones`, `Imports`,
`Restores`, `PatchesMode`, `PatchesAnything`, `Edits`, `DialogEdits`) merge,
normalise and validate in the order of their code; `Launches` builds the
switches in the order in which they are appended, and Chromium keeps the last
one of each name.

### ProfileStore

`mem` and `file` hold for each profile what is known of it: nothing, a bare
record, a complete one. `step`/`on` is the synchronous call in progress: it owns
the event loop until it ends, but the process may be killed between its file
operations and worker threads may run (`FolderAssigns`, `FoldersOverlap`,
`FolderSaved`: the folder endpoints are plain functions, so FastAPI runs them in
a thread). `stage` follows the coroutine `create_zero_leak_profile`, which awaits
the validator, and there other clients come in.

A save writes `profiles_meta.json.tmp` and renames it, and every thread uses the
same name. A save that meets no other installs its records. One that meets a
worker's, and the worker's that it met, may install either one's records, a
mixture, or something that is no JSON, which the next start reads as an empty
list (`Jumbled`); either may raise, because the other has renamed the file away,
after its text has been installed. `raced` is set from then until a save that
meets none, or a start, has made file and memory agree; `misread` tells that a
start has read such a file.

### ProfileCreation, FingerprintRules

`FingerprintRules` has no state: the schema of an answer, the coherence score,
the decision over a scan and a second opinion, the local generator's
fingerprints, the two gates of a launch. A string is kept as what the rules
read in it (the brand, the major). `ProfileCreation` runs calls through the
semaphore (or past it: the JSON import takes none), attempts, models, batches
of keys; `request[c][k]` is the asyncio task that asks key `k`. The second
opinion comes with whatever number the service writes: `OpinionScores` is any set
of integers.

### BrowserTasks, Rotation, Scheduler

Each has the dictionaries of its file (`_status`, `_tasks`;
`profile_session_times`, `is_running`; `schedules` and its JSON file) and one
program counter per task. Launches and closes are outcomes; one of them is the
`CancelledError` of `SetupCancelled`, which passes the robot, the macro runner
and the rotator by: the warming is cut short with its status still "warming"
(`WarmingInterrupted`), and the rotation loop is gone with `is_running` still
true (`LoopDies`). The scheduler's
list is changed by worker threads under the loop that walks it by index; its
file is truncated, then written.

### AccountPool, RequestQuota

`load_accounts` empties the shared list and appends to it account by account,
in the event loop (one step: it does not await) or in a worker thread
(interleaved). `cooldowns` and `file` are memory and disk; a save opens
(truncates) and writes, or raises. In `RequestQuota`, a worker thread reads the
clock before it takes the lock (`ReadsClock`, `ChecksStrictly`). `accepted` is
history: the times of all accepted requests, in the order of acceptance.

### ProfileTransfer

A directory is the version of its content, an entry is what a launch and an
export read in it. `import` and `restore` are the import in a worker thread and
the restore under way, one action per file operation or save.

### UpdateInstall

`install`, `old`, `staging` and `backup[v]` are the directories; a tree is a
build, whole or torn, with the modification time that "the latest backup" is
chosen by. `apply_update` never awaits, so `pc` names the file operation that
comes next; each is done, raises half way, or is cut off by a crash. Two
effects of the library matter and are kept: `rmtree(ignore_errors=True)` may
leave files behind (`leftover`), and `shutil.move` moves *into* a directory that
still exists, and may be a copy whose source is then not, or half, removed. `old` and `staging` are those of the version
being applied: they carry its number, and are removed at the start of the next
application of that version. There is one archive path and one live token.
A restart happens only from a whole installation: a torn one does not start.

### SyncStore

One tenant, one profile, several devices. `memory` is `_memory`, `rows` the
table; `promised`, `out`, `banned` and `failed` are history: what the accepted
calls amount to, which archives were revoked or deleted and not uploaded since,
which devices were ever revoked, and for which a statement has raised. The handlers are coroutines that never await,
so each is one action, with a second outcome in which the statement raises
after the memory was changed.

Faults are not switched on by a constant but remembered by a variable
(`saveFailed`, `moveFailed`, `raced`, `misread`; `failed`; `leftover`; `spoiled`; `kept`,
`lost`; `disturbed`, `upgraded`): every fault may happen in every run, and a
property that needs one not to have happened *yet* says so.

## 3. Runs

| Run | Bounds | Shows |
|---|---|---|
| `lifecycle_calls` | 3 callers, 2 browsers, ephemeral, no deletes, kills succeed, fairness | no browser outlives every record of it (`NoOrphan`); every call returns unless a task hangs in an untimed call of the driver (`CallsReturn`) |
| `lifecycle_faults` | 3 callers, 2 browsers, single and bulk deletes, health tasks, cancellation, kills that fail, late close events, ephemeral | one task in the section while the profile exists; "launching" is a passing mark; no directory is pulled from under a browser; the life cycle implements `BrowserSlot` |
| `launch_shared` | a profile with a proxy, one without, 2 proxies, each launch headless or not, an engine that changes, a cooldown of 1 tick | no browser without its checked proxy; one probe of an executable and mode at a time; who waits for a probe waits for one that runs |
| `barrier` | 2 pages, 2 requests, 1 origin, workers with a patch, fairness | nothing leaves before a page's overrides are applied, its own if it was routed by its frame; the pages that were open send nothing routed by its frame after fail-closed; requests of pages are answered, strays too; a failed override closes the browser |
| `automation` | 2 warmings and 1 macro on a profile; 2 loops, 2 profiles, room for 1 session; 2 schedules, 2 editors, a minute of 2 ticks; fairness | no browser is left behind; sessions are bounded; once per minute; warmings and stops come to an end, unless one hangs in the driver |
| `creation` | 2 calls, 1 place in the semaphore, 2 attempts, 3 keys in batches of 2, 2 models, 6 answers, opinions of 5 scores (0, 75, 100, 113 and 144), fairness; and all settings of one profile | requests belong to a running call; no severe leak is accepted with an opinion of at most 100; calls end unless a scan hangs; the mode is as asked; what is accepted is launchable; the command line keeps its promises |
| `store_all` | 2 profiles, saves and directory operations that fail, worker threads, launches, 1 crash | a restart loses no listed profile, but for the time from a race of saves to the next one alone; a failed creation leaves nothing; a failed delete loses nothing; a profile that the file names has its data somewhere |
| `services` | sync server: 2 devices, 2 archives, 2 restarts; transfer: 3 profiles, 2 contents, 1 archive at large; accounts: 2 ids, 2 calls and a view, or 1 call and a kill; quotas: 4 requests, 2 threads, limits 3 and 1, window 2; identity: 3 versions of 2 majors | what is out stays out and the list agrees with downloads; nothing from a file passes for verified; a restore is whole; no account is lost, cooldowns survive; quotas are bounded; the identity is coherent |
| `update_faults` | 2 versions, 3 calls, 1 crash, removals that leave files | only signed builds on disk; the release a call started from survives; "applied" and "rolled back" are true |
| `finding_kill_switch`, `finding_edit_keeps_mode`, `finding_ephemeral` | smallest instances | section 4 |

Why the bounds are enough to be interesting. Three callers put one in the
section, one in the queue and one that deletes, refuses or is cancelled; a
second browser is needed for a late event or task of the first one to hit its
successor. Two launches suffice to share a probe, one as its starter, one as
its waiter, and two proxies for a fallback that differs from the profile's own.
Two pages give a request a wrong page to be let through by, and two requests
one future to quarrel over. Two warmings and a macro, besides the user, are
whoever launches, whoever takes it over and whoever closes it; two loops are
what a stop and a start leave behind; two editors truncate each other's file.
In `creation`, three keys in batches of two give a batch with a loser and a
batch of one; two calls and one place make one wait; the six answers are one
for each way in which the pipeline treats one. Two profiles let a save of one
record carry, or drop, the other. Two versions and three calls make an update
over the backup of an earlier one, and a rollback after it; a second crash
would only repeat recovery from a state that a first crash reaches, except in
`KnownHasData`, whose comment says what a second one does. Two devices suffice
as no handler touches two rows. Two worker threads are the excess of one that
`LimitIsBounded` allows. Three versions are an upgrade within a major and one
across. A worker's save that meets another's is `FoldersOverlap`; more of them at
once mix no more than what `Jumbled` mixes. An opinion of 113 is the least that
lets a scan of 50 pass: 0.55 * (50 + 100) / 2 + 0.45 * 113 = 92.1, and the
threshold is 92.

Deadlock is checked in the life-cycle, launch and automation runs. The others
switch it off: there profiles, requests or calls are made once each, and a
behaviour ends when all are over.

**Fairness** is weak and per task, and of three kinds: a coroutine that is
ready runs (asyncio's loop is FIFO); an awaited call returns or raises if it
carries a timeout or its polls are counted (`page.goto`, TCP checks, posts to the
model, `wait_for`, sleeps); the close event of a dead context is delivered. It is
stated in `FairSpec` (`ProfileLifecycle`, `RoutingBarrier`), `TasksFairness`,
`RotationFairness` and `CreationFairness`. Nothing is assumed of callers, users,
crashes, health checks, nor of the calls that carry no timeout:

| Call | Where | Who may hang |
|---|---|---|
| starting the driver, CDP sends of the pages' set-up | `browser_manager.py:2170`, `2248-2261`, `3741` | a launch, with the lock |
| `context.close`, `playwright.stop` | `browser_manager.py:3969-3973`, `fail_closed_profile` | a close, with the lock; a clean-up |
| the browser that is probed | `browser_manager.py:348-379` | the probe, and all who wait for it |
| `page.evaluate`, `mouse.move`, `context.cookies` | `cookie_robot.py:359`, `365`, `433-459`, `609` | a warming |
| the scan's `page.evaluate` and `context.close` | `ai_leak_scanner.py:117-223`, `244` | a creation, with its place in the semaphore |

So the liveness properties of calls say what the code's own doing is: `CallsReturn`,
`WarmingsEnd`, `StopEnds` and `CreationsEnd` hold *unless some task stays in one of
these calls for ever*. What they exclude is everything else that could strand a
caller: a lock that is not released, a waiter that was cancelled, a place that is
not given back, a stop that nobody reads, a mark that stays. A launch has no time
limit at all, so that there is no such property of `LaunchSequence`
(`LaunchesEnd` is in section 4); what it promises to those who share a probe is a
safety property, `WaitersAreServed`. `PageRequestsEnd` and `FailureCloses` hold
without the proviso, because of the three seconds of `wait_for` and as they promise
a clean-up that begins. `AnsweredSpec`, which adds that the driver answers
(`DriverAnswers`), is used only by `finding_kill_switch`: a counterexample under the
stronger assumption refutes the more. In `MCProfileCreation` fairness of creation
excludes no behaviour of the settings from the invariants, which do not depend on it.

`lifecycle_calls` assumes that the close event of a dead context comes before
the profile's next registration (`PromptEvents`); the other run does not, and
`NoOrphan` fails without it, because a late event unregisters the successor.
Health tasks are left out of `lifecycle_calls` only to keep it small: the
theorem about `NoOrphan` has them.

## 4. Where the code does not do what it says

Three have a run, each with the quoted line in `PROJECT.json`:

| Run | What happens |
|---|---|
| `finding_kill_switch` | the health task that closes its own browser cancels itself inside the close; the browser runs on |
| `finding_edit_keeps_mode` | the edit dialog leaves the mode out and the endpoint fills in `standard`: a strict, ephemeral or high profile becomes a standard one |
| `finding_ephemeral` | the wipe of an ephemeral profile is in the close call only; closing the window leaves its data |

More have a definition in their module, which TLC finds violated when it is put
into a run's configuration, but no run of their own:

| Definition | What happens |
|---|---|
| `ProfileLifecycle.RefusalSparesBrowser` | refusing a launch of a running profile kills the browser that runs |
| `ProfileLifecycle.DeletedMeansStopped` | a bulk delete meets a launch before its process exists; the browser starts after the delete (and a call queued on the lock of a deleted profile never returns: `CallsReturn` with deletes) |
| `ProfileStore.DeletedStaysDeleted` | a folder call in a worker thread writes records copied before a delete: the deleted profile is back in the file |
| `ProfileStore.ListedStaysInFile` | two saves share `profiles_meta.json.tmp`: what one installs while the other writes may be no JSON, and a start that reads it begins with no profiles (it keeps a copy of the file) |
| `UpdateInstall.RollbackMeansWhole` | a backup whose copy was interrupted is restored over a whole installation (`update_manager.py:369`) |
| `SyncStore.RevokedIsRefused` | a revoked device gets its downloads back by uploading |
| `LaunchSequence.OnlyAskedCancelled` | cancelling one launch that waits for the shared probe cancels the others that wait, whose callers get an exception where `safe_launch_profile` says "always return a status/message dict" |
| `LaunchSequence.CoolingIsNotUsed` | a launch never asks whether its own proxy cools down; `docs/USAGE.md:120` and `PLAN.md:33` say that such a proxy is not used for new launches |
| `RoutingBarrier.EveryRequestEnds` | the future of a page is cancelled while a worker's script waits for it: `except Exception` lets `CancelledError` pass and the request hangs |
| `RoutingBarrier.ClosingATabIsHarmless` | closing a tab whose requests are in the barrier fails the whole profile closed |
| `RoutingBarrier.OwnOverridesFirst` | a request of a page that `is_worker` takes for a worker's leaves when the oldest page is ready, before its own page's overrides |
| `RoutingBarrier.NothingOfAPageAfterFailure` | the same way leads out after the profile failed closed, over a page that opened since |
| `LaunchSequence.LaunchesEnd` | a launch has no time limit from end to end: the driver's start, the probe and the pages' set-up may hang it, and with it the profile's lock (also `CallsReturn`, `WarmingsEnd`, `StopEnds`, `CreationsEnd` without their second disjunct) |
| `BrowserTasks.MarkIsReal` | a warming whose launch is cut short by `CancelledError` is over while its status stays "warming", for which every later `start_warming` skips the profile |
| `Rotation.OnMeansRotating` | the same exception ends the rotation loop while `is_running` stays true, so that a start is refused until somebody stops it |
| `ProfileCreation.SevereLeaksAlwaysRefused` | the second opinion's score is whatever number the model writes (`ai_auto_validator.py:185`), not cut to 100: with 113 and an approval, a scan of 50 is accepted |
| `BrowserTasks.StoppedMeansStopped` | `stop_warming` answers "stopped" while an older task, whose entry a second start overwrote, goes on (`cookie_robot.py:254`) |
| `ProfileCreation.CreatedCanLaunch` | a profile whose fingerprint came from a model that the launch gate does not list, the default `ZEN_MODEL` (`ai_generator.py:52`) among them, or with more than twice as many cores as gigabytes, is reported as created, and no launch takes it |
| `BrowserIdentity.RealSurfacesAreLeft` | for an agent of the engine's own major "real launches use a minimal script" (`browser_manager.py:1964`); line 2054 overwrites the choice with the full one, and `surfaces_full`, which lines 2560 and 3722 read, is not in the configuration |

The following came up while modelling and show as provisos in properties, or as
behaviours that no property speaks of.

- *Store*: the validator's second call is outside the `try`, so a candidate
  whose second validation raises stays registered (`RecheckRaises`);
  "Rollback completed." may be said while the data is in a tombstone that the
  next delete removes; an undone update may leave a torn installation and say
  that it was rolled back, if files could not be removed.
- *Launch and identity*: a forced fallback is not checked again however long
  the lock was queued for; after an upgrade under the running process the
  cached version names the old engine; an upgrade within a major leaves the old
  build in the agent; an engine that gives no full version list gets the hints
  that the profile was stored with.
- *Settings*: a high profile set to standard by PATCH keeps `webrtc_mode`
  "disabled", which the launch then refuses; a clone of a high profile is
  refused, and its validation writes into the original's dictionary; with two
  `--disable-blink-features` the first, `AutomationControlled`, is lost; PUT
  writes `block_service_workers` False also for a proxied profile
  (`docs/PRIVACY_MODEL.md:73`).
- *Creation*: "strict mode will refuse" (`ai_generator.py:791`) is not what
  `profile_creator.py:254` does; the local fingerprints may pair a vendor with
  another's renderer and are mostly Windows; the JSON import bypasses the
  semaphore.
- *Transfer*: a failed import over an existing profile pops it from memory; an
  imported entry has no `id` of its own; an exported high profile is refused
  by the import; a directory that cannot be made leaves the entry without one;
  a restore whose registration fails leaves a listed profile; two backups at
  once may upload the older snapshot last; a local archive that the import
  refuses counts as a refused id (`cloud_sync.py:388`) and the server is asked.
- *Accounts and quotas*: accounts are listed twice if two threads load at
  once; a call that finds the list emptied says that there are no accounts; a
  shorter cooldown that comes later replaces a longer one; a torn cooldown file
  is no cooldowns; "max_requests accepted requests per window"
  (`rate_limiter.py:11`) is exact only where no threads ask; a request that
  fails its CSRF check is not counted (`main.py:116`).
- *Automation*: a torn or old file of schedules is what the next start reads
  (`scheduler_manager.py:33`).
- *Deployment*: a second server process runs its scheduler before binding the
  port fails (`run_server.py:133`). Not modelled.

## 5. Proofs

TLAPS proves the theorems for every set of callers, browsers, pages, requests,
proxies, engines, profiles, archives, versions, devices, accounts, peers, loops,
jobs and every bound; the assumptions are the `ASSUME`s of the modules
(constants have their types, `None` is no record; the calls, loops and threads
that a property counts are finitely many). None needs fairness. Every safety
property that a passing run checks, invariant or action property, is stated by
one. `OwnedInv`, `KeptInv` and `DataInv`, the most delicate inductive ones, were
also checked with TLC on instances of the runs' size.

- **`LifecycleMutualExclusion`.** Not inductive: `release()` unlocks whatever
  lock the profile has now, and checks no owner. `SectionInv` adds that, while
  the profile exists, whoever is inside has the first lock object taken and
  nobody queues on a second one. `CancelNeverHitsHolder` is the lemma worth its
  own name: a close cancels the health task of the *registered* browser, and
  that task is never inside the section unless it is the closer itself.
- **`LaunchMarkIsHeld`** follows from the `finally` clause, case by case, under
  `SectionInv`: a second launcher would leave the mark to the first.
- **`DirectoryNeverPulled`.** `DirectoryInv` relates registry, process and
  hands: while the profile exists, the one process is the registered one or the
  one that the task inside has in hand. The wipe and the delete look at one of
  them only, and this is why it is enough.
- **`LifecycleImplementsSlot`**, the refinement, has to hold after the profile
  is deleted, too, when mutual exclusion no longer does. `SlotInv` therefore
  counts launchers over both lock objects: no launch gets in through the second
  one, and the one that is in hand owns what runs. Each action then maps to
  `Start`, `Register`, `Lose` or a stutter. **`RunningIsRegistered`** is what
  `BrowserSlot` gives its clients.
- **`NoBrowserIsOrphaned`.** A browser that runs is registered or in the hands
  of a task that will register, close or kill it. `OwnedInv` adds why no step
  drops it: what a close holds is the registered browser until its event comes
  (`ClosesOwn`), who waits for killed processes waits for nothing
  (`LingersAlone`), and a browser that is registered and runs is the only one
  whose close event is still to come (`EventsAreDelivered`); `SlotInv` supplies
  the one launcher. The theorem has the hypothesis `Gentle`: nobody deletes the
  profile or cancels a call, kills work, close events are prompt. TLC has a
  counterexample without any one of the four, so that they say when the code
  leaves no orphan; the run makes the same choices.
- **`NeverLaunchedDirect`.** `ProxyInv`: a queued call with a fallback has that
  fallback's check behind it, one without has its profile's; from the
  configuration on, `assigned` is what passed. The pool may change under either.
- **`ProbesAreShared`, `NobodyWaitsInVain`.** `ProbeHasFuture`: while a probe
  runs its future is in the table, cancelled or not, and only a task that finds
  none under its key starts another; conversely a
  future in the table has its probe, so whoever waits is told when it ends.
  A cancellation takes all who wait for that key along, and nobody else.
- **`BarrierHolds`.** `BarrierInv`: a future is ready only for a page whose
  set-up was applied, a page that comes new has none, a waiting request that was
  routed by its frame waits for its own page, and any other for a page of the
  dictionary (`FollowerIsWell`). Cancellations and replaced futures keep all four.
  That a request taken for a worker's need not wait for its own page is part of
  the statement, as it is of the code.
- **`FailedIsSilent`.** `BeforeIsShut`: once fail-closed runs, a page that was
  open has left the dictionary and no set-up can put it back, so that a late
  request routed by its frame is aborted by the poll, and one that waited finds a
  failed future. The strays are outside it (`NothingOfAPageAfterFailure`).
- **`IdentityStaysCoherent`.** `IdentityInv` says of each cache which engine it
  was read from while none was upgraded; the lemmas are about decontamination
  and the completion of full versions.
- **`FilesStayUntrusted`, `RestoresAreWhole`.** `TransferInv`: every entry, in
  memory, in the file, in an archive or in a restore's hands, is honest about
  where it came from; a restore and an import under way have their id, and its
  directory, to themselves until they end.
- **`RestartLosesNothing`, `DeletedForGood`.** While no save has raced another
  since the last one alone, memory and file differ in a profile's presence only
  while a creation is being rolled back (`ListedInv`), or after a rollback whose
  save failed (`ForgottenInv`). Nothing is said of what a race leaves; that the
  next save which meets none puts both right again is part of the theorem, since
  the proviso ends there. `ListedStaysInFile` and `DeletedStaysDeleted` show that
  it is needed.
- **`RollbackIsClean`.** `CleanInv` ties each step of a call to the stage of the
  creation that it may come from, so that no delete, quarantine or registration
  can meet a profile that was rolled back; the one delete that can, after a
  crash has brought the record back, finds no tombstone to rename.
- **`FailedDeletesLoseNothing`**, an action property. `KeptInv`: a profile in
  memory has its directory, in place or in quarantine, or it is the one whose
  delete is about to drop the record and its directory is the tombstone. The
  roll-back of that delete therefore always has something to rename back.
- **`NamedProfilesHaveData`.** `DataInv` says it between file operations, too,
  and of memory as well as file: the only profile without data is one whose
  tombstone a second delete has removed after the crash, just before the file
  forgets it. After a race of saves it goes on speaking of the memory, which is
  what the next save writes. It is inductive only with `CleanInv`, which keeps a
  registration or a quarantine from meeting the tombstone of another call.
- **`SourceAlwaysSurvives`, `OnlySignedEver`, `AppliedIsInstalled`,
  `UndoneIsRestored`.** `SourceInv` says for each file operation where the
  release that the call started from is: in the installation up to the swap, in
  its backup from the copy on. `SignedInv` follows signatures from verification
  to every copy; `AppliedInv` and `UndoInv` follow what is staged and what is
  put back.
- **`RacesOwnTheirRequests`.** `RaceInv`: only a call that races has requests,
  and only with the keys of its batch, so that there are at most `RaceSize` of
  them; and those that hold a place are no more than the places. The bound is
  then the cardinality of pairs of a racing call and a key of its batch.
- **`SevereLeaksAreRefused`.** Arithmetic on the scores, for any set of numbers
  that opinions come with. A coherence score stays within 0 and 100
  (`CoherenceIsBounded`), so that with a scan of at most 50 and an opinion of at
  most 100 the weighted mean is below the threshold of 92 (`SevereIsRefused`);
  `LeakInv` carries the finding, and whether its opinion was beyond 100
  (`overrated`), to the result, and keeps what is validated among the fingerprints
  for which `Verdict` is defined. The code does not cut the number, so the theorem
  does not say more.
- **`ModesAreKept`, `AcceptedLaunches`.** `SettingsInv`: the stored mode, read
  as a launch reads it, is the one asked for until an edit resets it; what
  each writer merges, normalises and validates is a lemma of its own
  (`NormalizedIs`, `ValidatedIs`, `CreatedIs`).
- **`CommandLinesKeepPromises`.** A switch of a name may be appended several
  times, and the last one counts. `Says(args, t, v)` is: the last `t` says `v`;
  `SaysOnce`: there is one. A lemma for each way to add a switch (`AddsIs`,
  `AddsUniqueIs`, `WidensIs`) tells which promises it leaves alone, and the
  proof follows the order in which the launch appends.
- **`AccountsAreThere`.** `ListsInv`: an account that the last load read is in
  the list or in what some load has still to append.
- **`CooldownsAreKept`**, an action property. `FileIsCurrent`: with no save
  under way and none that raised, a cooldown that runs is in the file as in
  memory; the ones that ended may differ, since the file keeps them.
- **`LimitsHold`.** Each limiter's list is an end of the sequence of accepted
  times (`ListsAreEnds`). For each window either all that was forgotten is older
  than the window, and then the list's length is the bound, or the clock has
  left the window, and then only a thread that read it before can still be
  accepted in it: each such thread is counted as excess while it waits
  (`WindowIsBounded`, `Late`). The excess is at most the other worker threads
  because a request has its thread until it is answered (`ThreadsAreFew`).
- **`BrowsersAreClosedAgain`.** `TasksInv`: while the browser is one that a
  warming or a macro run launched, this task is at a place from which every way
  leads through its close; a run remembers that it found none running.
- **`RotatorKeepsItsBound`.** The room is counted before the launch awaits.
  `RotationInv` counts each loop that has seen room as a session to come:
  sessions and launching loops together stay within the maximum and the excess,
  and no more loops are alive than have been at once.
- **`JobsFireOncePerMinute`.** `ScheduleInv`: what lies at the loop's index and
  behind it has not fired in this minute. A deletion moves entries towards the
  front (and may make the loop skip one), an addition appends: neither brings
  back one that has fired (`RemovedAt`).
- **`OutForGood`, `RestartIsTruthful`, `CacheIsExact`.** `OutInv`: an archive
  that is out is marked, or absent, in memory *and* table, so a row read back
  does not revive it; `TruthInv`: the table is what was accepted; `CacheInv`:
  the memory is a part of it until a statement raises.

Only model-checked: liveness (`CallsReturn`, `PageRequestsEnd`,
`FailureCloses`, `WarmingsEnd`, `StopEnds`, `CreationsEnd`), which needs
fairness and with it `ENABLED`, out of the prover's reach; and the violated
properties of section 4, whose counterexamples TLC gives. Out of its reach, too:
induction over data and `RECURSIVE` operators; no module uses either.

## 6. What could come next

1. Macros and rotations as clients of `BrowserSlot` by `INSTANCE`, in place of
   launches and closes as outcomes; their invariants are proved of outcomes.
2. Abstract specifications for the store and the sync server, which
   `ListedInv`, `ForgottenInv`, `TruthInv` and `CacheInv` are close to.

## 7. Not modelled

- *Team management* (`team_manager.py`): check-then-act in worker threads over
  two files without a lock. No property of the profile locks holds in the code;
  the hazard is listed.
- *Input synchronizer* (`synchronizer.py`): one session object that every call
  overwrites; nothing is promised of its count.
- *Webhooks*: one POST, whose failure is logged. No state.
- *Sync server cryptography and request schemas*, encryption and migration of
  records at rest: pure functions over bytes.
- *Injected JavaScript*, cookies, what a macro or the robot does on a page, the
  scraper's sources, a proxy's geography, texts and scores that only inform:
  data, whose outcomes are inputs.
- *Audits, baselines, TCP/IP tuning, logging, error codes, frontend, engine
  build, packaging, scripts, start of the server*: reports, formatting, registry
  settings or tooling without a protocol of their own.
- *The check for newer versions*, which changes no files.
- *Functions that nothing calls*: `get_proxy_for_profile`,
  `sync_profile_from_disk`, `get_health_status`, `resolve_proxy_geo`,
  `cancel_all`, `create_healed_profile`.

`PROJECT.json` lists every part with its status, and for every definition the
lines that it models.
