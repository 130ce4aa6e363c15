# TestPlatform in TLA+

This directory is the verification project of the test platform: TLA+ modules
translated from its code, the TLC configurations that check them on small
instances, and theorems checked by TLAPS.  Paths are relative to the root of the
repository; `RA` abbreviates `src/services/requirement_analysis_service.py`, `TG`
`src/services/testcase_generation_service.py`, `gstack/` the vendored
`.agents/skills/gstack/`.

1. [The system](#1-the-system)
2. [What is modelled, and how it corresponds to the code](#2-what-is-modelled)
3. [The runs](#3-the-runs)
4. [Where the code and what is said of it differ](#4-where-the-code-and-what-is-said-of-it-differ)
5. [What is proved](#5-what-is-proved)
6. [What is only model-checked, and what is not modelled](#6-limits)
7. [Plan](#7-plan)

## 1. The system

The platform turns a requirement document into test cases and runs them.  A
FastAPI server (`src/main.py`) with one process and one event loop serves three
stages, each a service with tasks of its own, and an older pipeline beside them:

    document --> RequirementAnalysis --> TestcaseGeneration --> ExecutionBridge
                   (human review)         (human review)          | subprocess
                        |                      |                  v
                        +---- agents ----------+           execution_runtime
              SelfHealing, HealLoop, AgentRuntime          (Appium, pytest)

    Scheduler --> Pipeline orchestrator (FSM) --> stages      WebSocket manager

Every service keeps its tasks in a module-level dictionary, saves each of them as
a JSON file under `storage/`, starts a background coroutine per task with
`asyncio.create_task`, and is polled by the web page.  Coroutines interleave only
where they await something that really suspends (an agent, the database, a
subprocess, a notification); the services' `asyncio.Lock`s are never held across
such an await.

| component | state | operations | interacts with | what is hard | what makes it correct |
|---|---|---|---|---|---|
| **Requirement analysis** (`RA`) | `_task_store`, `task_state.json`, `{file}.md`, `{id}.json`, `review_{id}.json`, `.running.lock` | create, pipeline (ingest, analyse, heal, design, review), human verdict, retry, recovery at start | agents (await), self-healing, notifications, HTTP | crash between two writes, recovery, tail of a run after its review, a second process | one run at work; nobody changes the status under it; memory and disk agree; a verdict rests on results; an approval stays; bounded recovery |
| **Run lock** (`RA` 265-342) | one lock file | acquire, release | all processes that import `RA` | stat/unlink/create race, crashed holders | mutual exclusion; only the owner's file is removed |
| **Self-healing** (`services/self_healing.py`) | counters of one healing | infrastructure retry, diagnosis, gated output repair | agent runtime, `RA` | which attempts count; kind of the healed answer | bounded attempts; an accepted answer passed the gate of its stage |
| **Heal loop** (`services/heal_loop.py`, `execution_runtime/heal/`) | heals used, pending failure, plans | attempt, classify, diagnose, apply | execution runtime, generation | where the budget is spent; plans that cannot be applied | it ends within its budget; what failed for good is reported once |
| **Agent runtime** (`agent_runtime/runtime.py`) | backends, roles | health check at start, run a chain of backends | CLI backends | fallback order, forced fallback | first available success in order; none called twice |
| **Test-case generation** (`services/testcase_generation_service.py`) | `_task_store`, state file, rows of cases | start, pipeline in batches, review/edit/recompile a case, completion, recovery | database, agents, heal loop | edits across awaits, persist-then-status window, completion | a review is of the case as it is; completion iff nothing is pending |
| **Execution bridge** (`services/execution_runtime_service.py`) | `_task_store`, `_running_procs`, state file | start, background pipeline, polled status | subprocess, database | restart while a run is at work, two runs on one device, cases without a result | a run settles; settled is final; progress never falls; one run on the device |
| **Execution runtime** (`execution_runtime/`) | run directory, module session, path cache | runner phases, per-case execution, module switch, healing | Appium, agents | setup failing after the switch was noted; cached logins that no longer hold; healed attempts inside a running loop; two processes on one cache file | a case runs in the module and login it asks for; a result for every case |
| **Legacy pipeline** (`pipeline/`) | FSM, `Pipeline` row, context | run, continue after review, pause, cancel | database, stages, WebSocket | cancel or pause while a stage is awaited | cancelled stays cancelled; nothing runs before approval |
| **Scheduler** (`scheduler/service.py`) | `_jobs`, schedule rows | minute loop, cron match, reload | pipeline | a slow round, a reload | at most one start per minute and match |
| **WebSocket manager** (`ws/manager.py`) | sets of connections | connect, disconnect, broadcast | pipeline | set changed while a broadcast awaits | every live connection is served |

The repository also carries `gstack/`, a collection of agent skills in TypeScript
that is larger than the platform.  Most of it is prompt text, its generators, and
programs that run alone.  Two parts keep state that several actors share, and are
modelled:

    browse CLI --lock, state file--> daemon (server.ts) --> BrowserManager --> Chromium
                                        |  requests, page events    ^
                                        +--> cdp-bridge -- locks ---+
                                        +--> domain-skills (append-only files)

    agents --append--> transcripts <--read-- gstack-memory-ingest --put--> brain
                                                   ^ one pass at a time?
                        gstack-gbrain-sync --lock file, spawnSync--+

| component | state | operations | interacts with | what is hard | what makes it correct |
|---|---|---|---|---|---|
| **CDP locks** (`browse/src/browser-manager.ts` 781-831, `cdp-bridge.ts`) | `tabLocks`, `globalCdpLockTail`: chains of promises | acquire for a tab or for the browser, send, release, time out | commands of many agents, Chromium | two tiers; a call that gives up in the middle of a chain; a command that outlives its call | exclusion, order, no chain stays shut |
| **Notes per site** (`browse/src/domain-skills.ts`) | one append-only file per project, one global | save, edit, use, promote, rollback, remove | agents of several daemons | read, compute, append without a lock; torn lines | only what was used and scored becomes active; removed stays removed |
| **Tabs and commands** (`server.ts`, `meta-commands.ts`, `browser-manager.ts`) | active tab, maps of tabs and owners | commands pinned to tabs, newtab, closetab, tab-each, recreation of the context | agents with tokens, page events | the active tab moves during an await; ids change | owners stay, the active tab exists, pins are undone |
| **Life of the daemon** (`cli.ts`, `server.ts`) | state file, lock file, processes | find, start, kill, restart, talk | programs started together | lock without pid, stale locks, late servers | one starter, one server, everyone ends |
| **Transcript ingest** (`bin/gstack-memory-ingest.ts`) | entries of what was ingested (mtime, hash) | a pass over all transcripts | agents that write on, other passes | a file read three times while it grows; state saved last, in place | what is skipped has been ingested |
| **Sync lock** (`bin/gstack-gbrain-sync.ts`) | one lock file | take, take over, release; stages | other syncs, passes it waits for | stale after 5 minutes, stages of 35; unlink by name | passes do not overlap |

The other parts (HTTP handlers, knowledge base, notifications, LLM clients,
executors, generators, reports, configuration) keep no state a protocol depends
on.  `PROJECT.json` lists every component with its status and reason, and the
hazards of the code with the line where each bites and the property that covers
it, or the reason why none does.

## 2. What is modelled

| module | models | role |
|---|---|---|
| `RequirementAnalysis` | one task of `RA` over all incarnations of the server | core |
| `TaskLifecycle` | what a user is promised of a task | abstract specification |
| `RunLock` | the lock file of a task, call by call | core |
| `TestcaseGeneration` | one task of `TG`, its cases and the requests about them | core |
| `CdpLocks` | the two tiers of locks of the CDP bridge | browse tool |
| `DomainSkills` | the notes of one host | browse tool |
| `BrowseTabs` | tabs, pins, owners and recreations of the context | browse tool |
| `BrowseDaemon` | programs, servers, state file and lock file | browse tool |
| `MemorySync` | transcripts, passes, syncs and their lock | agent skills |
| `ExecutionBridge` | a run of the execution service with its process | execution |
| `CaseSession` | the cases of such a run on the phone | execution |
| `MC...` | an instance of each for TLC | |
| `...Proofs` | theorems and proofs: of `RequirementAnalysis` with `RunLock` in one module, of `CaseSession` with `ExecutionBridge` in another (`ExecutionProofs`), of the others in one each | |

Every history variable (marked so where it is declared) only records; no action
looks at one.  An action called a *mutation* is the next one with a plausible bug;
`PROJECT.json` says which property each of them breaks.

### RequirementAnalysis

A task shares with other tasks only the dictionary that holds it, so one task is
followed.

| variable | in the code |
|---|---|
| `proc` | a process: not started, `__init__` after its scan, serving, down |
| `mem` | `_task_store[analysis_id]` of each process (`None` before and after its life) |
| `disk` | `task_state.json`, `Torn` when it does not parse |
| `md`, `analysisFile`, `reviewFile` | the Markdown, the analysis and the review, the last two known by the run that wrote them, or `Torn` |
| `lock` | `.running.lock`: the pid in it, and whether its age is over `LOCK_STALE_SECONDS` |
| `run` | the coroutines: program counter, process and kind (start, recover, retry) |
| `cpu` | the coroutine in the middle of a stretch without an await |

Actions by the code they stand for:

- start of a process, `__init__` (387-478): `Scan`, then one of `BootIdle`,
  `BootCorrect`, `BootGiveUp`, `BootSkip`, `BootRecover`, `BootWithoutLoop`,
  `BootWithoutMarkdown`.  The status repair, which the code does inside the scan,
  is the boot step `BootCorrect`; nothing of the same process can come between.
- requests: `StartAnalysis`/`LaunchPipeline`, `SubmitHumanReview`,
  `RetryAnalysis`/`LaunchRetry`/`RefuseRetry`.
- a run: `Ingest`, `Begin`, `SaveDraft`, `AcceptDraft`, `SaveFinal`,
  `EnterReview`, `SaveReview`, `AwaitHuman`, `Notify`, `Complete`, and the
  exception at any of them: `FailPipeline` and `NotifyFailed` for a first
  pipeline, which marks the task; `FailRecovery` and `FailRetry`, which do not.
- the environment: `Crash`, `Stop` (SIGTERM; asyncio cancels the coroutines, and
  only a retry has a `finally` that releases the lock), `Age` of the lock file.  The
  state, the analysis and the review are written in place, and a crash may leave the
  one being written cut short (`TearState`, `TearAnalysis`, `TearReview`).

An action is what happens between two awaits.  A stretch that writes to the disk
more than once is cut after each write so that a crash may fall between, and
`cpu` makes the same coroutine run on if there is none.

*Servers and tools.*  The server is one uvicorn worker (Makefile:21 with
`--reload`, Dockerfile:25); a restart is the next member of `Servers`.  The
service object is created on import.  uvicorn imports the application inside its
running loop; a script or a unit test
(`tests/unit/test_requirement_analysis_revise.py:5`) imports it without a loop
and then executes the same recovery code beside the server, up to `create_task`,
which raises.  Those are the members of `Tools`.

*Torn files.*  A state file that does not parse loses the task.  Of a result that
does not parse nothing is said (`Restored`, 221-233), and the repair of the status
asks only whether the review file is there (`BootCorrect`, 196-209).

*Abstractions.*  `progress_pct` is kept as the class its readers tell apart.  An
agent call, with its self-healing, is one await that answers or raises.  Contents
of analyses and reviews are the run that wrote them.  A notification swallows its
own failures, but the card before it may raise.  A write that fails (logged and
swallowed by `_save_task_state`), a read of a half-written file by a tool, and how
much of the Markdown a crash has left (a recovery analyses what is there) are left
out.

### RunLock

`RequirementAnalysis` takes a stale lock over in one step.  `RunLock` has the
calls of `_acquire_run_lock` and `_release_run_lock` one by one: `Create`
(`O_CREAT|O_EXCL`, the only atomic one), `WritePid`, `Exists`, `StatGone`,
`StatYoung`, `StatStale`, `Reap`, `ReleaseNothing`, `ReleaseRead`, `ReleaseUnlink`,
with `LockerCrash` and `LockerRestart` anywhere.  Start and retry drop the answer of
the acquisition, so a process that was refused goes to work too (`MoveUnlocked`, at
`"working"`) and releases in the end whatever file has its pid (`OwnFile`); a run that
fails may keep its lock (`KeepLock`).  `reapers` and `strays` are history variables:
who ever judged a file stale, and who went to remove its own file without holding the
lock.

### TaskLifecycle

The promise: a task is absent, working, awaiting a verdict, approved, rejected or
failed, or lost (a torn state file); it comes to a verdict only from awaiting, is
retried only from rejected or failed, and is recovered only while working and at
most `MaxRecovery` times.  `KeepsLifecycle` maps `RequirementAnalysis` to it by
`phase <- Phase`, computed from `disk` alone: what a restart would find.

### TestcaseGeneration

| variable | in the code |
|---|---|
| `status`, `disk` | `GenerationTask.status` in memory, and in `task_state.json` |
| `pc`, `batch`, `cases` | where `_run_pipeline` is, its batches, `all_cases` (of a case the point it names) |
| `row` | the table `TestCase`: review, point, version of the text, version `exec_script` was compiled from |
| `at`, `on`, `text`, `reads` | a request about a case between its awaits |
| `relabelled`, `raced`, `missed` | history |

The pipeline: `LoadSkill`, `StartBatch`/`BatchDone`/`BatchFails` (at most
`MaxConcurrency` with an agent, `gather` goes on after a failure),
`CheckCoverage`, `HealCoverage`, `HealExecutability`, `PersistCases`, `Publish`,
and `PipelineFails` at any of them.  Requests: `UpdateCase` and `RecompileCase` read
a case and await the compiler (and an agent), `CommitScript` writes what was
computed; `ReviewCase`, then `CountReviews`, then `CompleteTask` are the three
transactions of a review.  `Restart` is a crash anywhere followed by the scan of
the next process.

*Abstractions.*  A case is the point it names and the version of its text; approval
and rejection are one.  Bounds: `MaxCases`, `MaxText` (edits of a case),
`MaxCrashes`; the missing points fit one healing batch; executability healing
renames one case.

### CdpLocks

`phase` is where a call of `dispatchCdpCall` is; `tabTail` and `globalTail` are the
last promises of the chains, `awaits` the promises a call waits for, `resolved` the
promises that have resolved, `inChrome` the commands Chromium executes.  A call with
the lock looks for its page (`NoPage`) and for the session of the page (`attached`);
the first call of a page awaits `newCDPSession` (`AskSession`, `SessionOpens`,
`SessionFails`), with the lock and without a timer.  `Answer`,
`CallTimeout` and `AcquireTimeout` are the three ways out; `Resolve` is the promise
`tail.then(() => next)`, which opens only after those before it.  `ClosePage` takes
the page and its session; the chain of the tab stays.  Tab ids are never used twice,
which `BrowseTabs` shows.

### DomainSkills

`rows` are the rows a reader has got out of each file and `lost` those it gets no
more, `pending` the row a command has computed and not yet appended, `partial` the
files that end in a part of a line, `unended` those that end in a row without its
newline: it is read (164-173) until the next row is appended to its line, and then
both are lost.
One action reads and computes (`WriteSkill`, `RecordSkillUse`, `PromoteToGlobal`,
`RollbackSkill`, `DeleteSkill`), another appends (`AppendRow`, or `TornAppend` when
the write is cut short: nothing is written, a part of the line, or all but the
newline); other commands come between.  A body stands for its hash.
The classifier's score is only whether there is one; `handleSave` and `handleEdit` of
the code at hand always store 0, and the scored case is what the file format and
`recordSkillUse` provide for.  Bounds: `MaxRows` per file, `MaxTorn`.

### BrowseTabs

`open`, `active`, `nextTab`, `owner` are `pages`/`tabSessions`, `activeTabId`,
`nextTabId`, `tabOwnership`; `at`, `client`, `saved`, `on`, `orig`, `todo`, `kept`
are the locals of a request between its awaits.  `Work`, `SwitchTab`, `NewTab`,
`CloseTab`, `TabEach`, `Recreate` begin a command, with a pin or without, `Refuse`
and `Help` are early returns, `WorkDone` and the actions behind it what happens
after each await; `SavePage` to `FallbackFails` are `recreateContext` with its
`saveState`, `restoreState` and catch, to which `RestoreThrows` goes when the tab that
was to be active has closed again (`clearRefs`); `Blocked` is the 403 of the content
filter, behind the command and before the pin is undone; `PageCloses` is the close
event of a page.
Bounds: `MaxTab`, `MaxBegun`, `MaxClosed`; one recreation at a time.

### BrowseDaemon

`cli` is where a run of the command line program is, `seen` and `fresh` the states
it has read, `locked` whose `finally` will release; `srv` the server processes,
`heeds` those that SIGTERM shuts down, `file` and `lock` the two files.  The first
state may hold a server, a dead one, or a stale lock of an earlier program.
`ConnectionLost` is the restart after a lost connection, which takes no lock, and
`retried` says that it was the last.  `Unauthorized` is the 401 of a server that has
the port of a dead one: the command goes to the server of the state file, with its
restart given back (461-467).  After `MAX_START_WAIT` (`StartTimeout`) a program reads
the stderr of its `child`, with the lock and without a timeout (264-267): it goes on
when the child writes (`ErrorRead`) or has died (`ErrorEnds`).
Faults (crashes, shutdowns, late starts, slow answers) are counted by `MaxFaults`,
401s by `MaxReused`; `MaxServer` bounds the processes, and is one more than two for
each program and one for each 401 need.

### MemorySync

| variable | in the code |
|---|---|
| `text`, `mtime` | a transcript: how much has been appended, and its mtime |
| `brain` | the text in the page of a transcript, of which `Body` takes the first 200,000 characters (`PageLimit`) |
| `stateFile`, `sessions` | `IngestState.sessions` as saved, and as a pass has it |
| `lock` | `.sync-gbrain.lock`: whose it is, and whether it is over five minutes old |
| `at`, `pass`, `parent` | where a sync and a pass are, and the sync that waits for a pass |
| `todo`, `file`, `body`, `sha` | the files a pass has not visited, the one it is at, the text and the hash it has read |
| `orphan` | the `gbrain put` that a pass left behind when it was killed |
| `raced`, `loose` | history: files that grew while a pass or a put was at them, or whose put was cut off; a pass ran without an untouched lock |

A pass: `StartPass` (`loadState`), for every file `SkipFile` or `ReadFile`,
`HashFile`, `PutPage`, `Record` (each a separate look at the file), or `FileFails`;
then `TruncateState` and `WriteState`.  It may die anywhere (`PassDies`).  A sync:
`LookAtLock`, `ReapLock`, `CreateLock` (`wx`), its stages,
`ReadLock` and `UnlinkLock`; `IngestTimeout` kills the pass, `SyncDies` leaves it
running.  Who kills a pass does not kill its `gbrain put`: that goes on by itself with
the page it has got, or the part of it that was in the pipe (`LeavePut`), and is done
at any time later, or fails (`OrphanPuts`).  Agents append (`Append`), other programs
touch files (`Touch`).

*Abstractions.*  A transcript only grows, by any amount, and every append gives it a
new mtime.  `fileSha256` sees the first `HashLimit` of it.  Most of a transcript is not
conversation, so that either of hash and page may be the first to see no more.
`fileChangedSinceState` and the first read are one step: a file that grows in between
is read as it is then.  Left out: the window of 90 days, curated artifacts, probe mode,
`--limit`, `--no-write` (records without putting, as its help says), the page's slug
and partial flag.  Bounds: `MaxText`, `MaxTime`.

### ExecutionBridge

| variable | in the code (`services/execution_runtime_service.py`, `execution_runtime/runner.py`) |
|---|---|
| `memory`, `disk` | `_task_store` and `task_state.json` (`Torn` when cut off) |
| `pipeline` | the await at which `_run_pipeline` is |
| `stage`, `process`, `log`, `summary` | how far `main_async` has come, how it ended, the progress in `run.log`, `summary.json` |
| `unread` | it has printed what the coroutine has not read |
| `rows` | the status of the `Execution` row |
| `shown` | history: what the last poll answered |

The coroutine: `Begin`, `ExportTask`, `Spawn`, `ReadLine`, `Settle`, `CommitRows`,
`SaveExecutionId` or `ImportsNothing`, and `PipelineFails`.  The process: `LogStage`
(writes to the log, then prints), `Abort`, `BuildSummary`, `Complete`, `Die`; a
print into a pipe whose reader is gone ends it.  `GetStatus` is a poll, which
also changes the task in memory; `Crash` takes coroutines and memory, perhaps in the
middle of a write, and `Restart` takes nothing up.

*Abstractions.*  A task is its status, its progress, whether it has an
`error_message` and an `execution_id`.  Stages that log once per case are one.
`aborted`, which the status' comment lists, is never set.  Left out: failing writes of
the state file, and a line of output beyond the limit of the stream (which ends the
coroutine while the process goes on).

### CaseSession

| variable | in the code (`pytest_exec/test_execution.py`, `session/module_session.py`, `heal/`, `heal_loop.py`) |
|---|---|
| `todo`, `cur`, `scope`, `pc` | the scripts in the order of the runner, the one at work, what an attempt is of, where it is |
| `need` | `need_login`, `need_entry` |
| `used`, `failure`, `first` | `heal_used`, `pending_failure`, the result that is kept |
| `remembered` | `precondition_setup_state` and `current_module`: what the worker believes |
| `app` | the phone: who is logged in, which content and which module it shows |
| `result`, `defects`, `failed` | `results/*.json`, `defects.json`, the verdict of pytest |
| `behind` | history: where the login may have gone behind the worker's back, or was without a preparation for a guest seeing it |

`TakeCase` compares fingerprints; `LoginFails`, `EntryFails`, `SetupSucceeds` are
an attempt of the preparation.  `LoginReached` is where `ensure_login_state` may come
to: it logs a guest out only when the page that is shown tells of a login, so a member
left on another page stays logged in, and the preparation succeeds.  `ReuseSession`,
`EnterModule`, `SessionFails`, `NavigationNests` (which brings the app to the front and
raises) are one of the session; `CasePasses`, `CaseFails` play the steps;
`ApplyPlan`, `ApplyFails`, `GiveUpCase`, `GiveUpPreparation` are `run_heal_loop`;
`Finish` the summary.  The orders of the runner are given by what they have in common,
`GroupedCases`: cases that start alike run behind each other.  The phone is external: taps that nobody can tell the end of
leave any page (`MoveAbout`).

*Abstractions.*  A login, an entry and a module are values; the steps of a case
are one action with any effect on the phone.  Every failure may be healed, or be
given up: which plan is made and what the failure is called is not looked at.
Modules without anchors have no entry steps, as in `config/acn_modules.yaml`.  A page
that a guest sees shows no name: who is logged out is not taken for logged in.

## 3. The runs

| run | instance | checks | states |
|---|---|---|---|
| `restart` | 3 servers (two with one pid), 4 runs, 1 recovery, torn writes, runs that outlive their lock | `SingleActiveRun`, `RunFitsStatus`, `DiskMatchesMemory`, `VerdictHasReview`, `RecoveryBounded`, `RecoveryHoldsLock`, `ApprovedIsFinal`, `KeepsLifecycle` | 295 449 |
| `tool` | 2 servers and a tool, 2 runs, 1 recovery, torn writes, fairness | `StartSettles` | 348 056 |
| `lock` | 3 processes | `ExclusiveUnlessReaped`, `ReleasesOwnLock` | 56 490 |
| `generation` | 2 points in 2 batches, 2 requests, 2 cases, 2 edits, 1 crash | `EveryPointHasCase`, `CompletedIsReviewed`, `LastReviewCompletes`, `NoFalseRun`, `ScriptFitsText` | 2 984 664 |
| `cdp` | 3 calls of either scope, 2 tabs, fairness | `Exclusive`, `FirstComeFirstServed`, `OverlapOnlyWhenLate`, `ChainOpens` | 318 436 |
| `skills` | 2 agents, 1 project and the global file, 2 texts, threshold 2, 4 and 2 rows, 1 torn write | `ActiveWasEarned`, `DeletedStaysDeleted` | 1 185 324 |
| `tabs` | 2 requests in flight, root and an agent, 3 commands, 2 closing pages, 6 ids | `OwnerOpenedIt`, `ActiveOpen`, `Undone` | 1 130 042 |
| `daemon` | 2 programs, 6 servers, 1 fault, 1 reused port, fairness | `OneStarter`, `OneServer`, `CliEnds` | 726 884 |
| `session` | 4 cases in every order, 2 logins, 2 modules, one with anchors, 2 heals, fairness | `LoginAsAsked`, `ModulePageInPlace`, `DefectPerFailure`, `EveryStepCounts`, `Finishes` | 401 018 |
| `bridge` | 1 run of up to 2 results, 2 kills, fairness | `RowFitsTask`, `SettledIsFinal`, `ProgressNeverFalls`, `RunSettles` | 43 173 |
| `memory` | 1 transcript of 4 texts and 3 mtimes, the hash sees 3, a page takes 2, 2 syncs, 2 passes | `UnchangedIsIngested`, `OneAtATime`, `PagesDoNotGoBack` | 3 445 253 |

The other run, `failed_unmarked`, is in section 4: TLC violates its property.

What they show:

- `SingleActiveRun`, `RunFitsStatus`: the status alone keeps a second coroutine
  and a verdict away from a run at work, although the code ignores the answer of
  the run lock and never consults `STATUS_TRANSITIONS`.
- `DiskMatchesMemory`, `VerdictHasReview`: no order of crash and write shows a
  user something that a restart takes back, or asks for a verdict without a
  result to judge, but for one whose file a crash has cut short: the repair takes
  such a file for a review.
- `RecoveryBounded`, `RecoveryHoldsLock`: the count of recoveries survives every
  crash, and a recovery works under the lock, even when the process id was its
  predecessor's (beside a script that imports the service too: proved only).
- `ApprovedIsFinal`: the tail of the approved run and every restart leave the
  approval alone.
- `StartSettles` (liveness): the pipeline of a new task leaves it awaiting a
  verdict or failed, unless its process goes down.
- `ExclusiveUnlessReaped`, `ReleasesOwnLock`: the condition under which the lock
  file does what its comment says.  A second process that reaps breaks it, and so
  does, with one that reaps, a process that was refused the lock and releases the
  file an earlier run of its own left behind.
- `EveryPointHasCase`, `CompletedIsReviewed`, `LastReviewCompletes`,
  `NoFalseRun`: coverage, completion and interruption of a generation task are
  what the code says, with the windows in which they are not named by
  `relabelled` and `missed`; `ScriptFitsText`: scripts fit their texts but for
  requests about one case that overlap.
- `Exclusive`, `FirstComeFirstServed`: the chains of promises exclude and keep the
  order whoever gives up; `OverlapOnlyWhenLate`: conflicting commands overlap in
  Chromium only behind one the bridge gave up; `ChainOpens` (liveness): no call waits
  for ever for its lock, whether commands are answered or not, and no chain stays shut
  unless Chromium never answers a request for a session.
- `ActiveWasEarned`: no interleaving gives an agent a note that
  was not used and scored as often as promotion asks; `DeletedStaysDeleted`: only
  a rollback, a command that had read the file before, or had read a row that is lost
  by now, and a tombstone cut before its newline bring a removed note back.
- `OwnerOpenedIt`: a tab never comes to another agent, though ids change with the
  context; `ActiveOpen`, `Undone`: commands one after the other leave an active
  tab that exists and is the one chosen last, where an answer that is given without
  undoing its pin, a blocked content among them, counts as choosing it.
- `OneStarter`, `OneServer`: what the lock of the daemon achieves,
  and by which doors it is gone round; `CliEnds` (liveness): every program ends, or
  listens to a child that came up late and writes nothing.
- `UnchangedIsIngested`: whatever dies, overlaps or is torn, a pass skips only
  what is in the brain as far as the hash sees it and a page takes it, but for files
  that grew under a pass or a put, or whose put was cut off;
  `OneAtATime`, `PagesDoNotGoBack`: passes overlap only after the lock was touched or
  was never taken, and an older page replaces a newer one only then or by the put of a
  pass that was killed.
- `LoginAsAsked`, `ModulePageInPlace`: a case starts logged in or out as it asks
  and on the page of its module, although preparations are skipped, fail half-way
  and are healed; where the login moved behind the worker's back, or a preparation for
  a guest did not see it, is named by `behind`.  `DefectPerFailure`: a case that was healed and tried again is judged
  once.  `EveryStepCounts`: no step leaves the worker with as much to do as before it;
  `Finishes` (liveness): no failure keeps it for ever.
- `SettledIsFinal`, `ProgressNeverFalls`: no kill takes back what a poll said;
  `RowFitsTask`: the two judgements of a completed run agree; `RunSettles` (liveness):
  a run settles however its process ends, unless the server is killed.

*Bounds.*  Three incarnations of a server allow a crash, a crash of the recovery
and a look at the result; four runs a first run, a recovery and two retries.  With
a limit of one recovery the third server finds a task that has used it up.  Two
batches of one point each may finish in either order, fail, or leave a point to
heal; two requests and two cases let an edit, a recompilation and reviews of the
same and of different cases overlap.  Three calls let one give up between two
others, in chains of either tier.  Four rows hold a save, the uses a threshold of
two asks for, and one more command.  Three commands with two in flight, and two
page events, let a recreation be overtaken by a new tab and a closing page.
One fault and two programs give every door of `loose` and `stolen`; a program restarts
twice only after a 401, and one gives that.  One
transcript suffices because transcripts meet only in the state file, which is
saved as a whole; four texts, of which the hash sees three and a page takes two, reach
the text a page does not take and the one the hash does not see; two passes may overlap and two syncs steal from each other.  Four cases give every pair
of same or different login, entry and module next to each other in some order; two
heals let a heal fail, an attempt fail, and the budget end.  Runs share only their
numbers and the phone, so one run with two kills shows what it goes through, and two
that they meet on it.  The properties relate at most two actors of a kind, and the proofs of section 5 remove
the bounds for most of them.

Symmetry is used in runs without liveness.  `CHECK_DEADLOCK FALSE` is set where
the actors are used up (runs and incarnations, calls, commands begun, programs,
passes) and the model does stop; `lock` is checked for deadlock.

*Fairness.*  `RequirementAnalysis`: weak fairness of `Step(w)` only: the event
loop resumes a coroutine whose await is over, and each awaited call ends (agents
have a timeout in `agent_runtime`, the notification one in its HTTP client).
`CdpLocks`: of `CallStep(c)`, in which timers fire and promises whose condition
holds resolve; not of `Answer`, `SessionOpens` and `SessionFails`, for Chromium need
answer neither commands nor requests for a session.  `BrowseDaemon`: of `CliStep(c)` (a
program runs on, with deadlines of its own), of a server coming up, and of a
stopping one exiting; not of a server writing to its stderr.  `CaseSession`: of the worker, whose taps, waits and agents have
timeouts.  `ExecutionBridge`: of the coroutine of a run and of its process, which
assumes that pytest ends (the runner waits for it without a timeout; its waits have
their own).  Nothing obliges anything to crash, to restart, to fail, to
act or to age; the other modules state no fairness and no liveness.

Each property has a mutant in `PROJECT.json`: a plausible bug (a dropped guard, a
missing save, a count kept in memory) written as an operator before the definition
it replaces, under which TLC finds the property violated.

## 4. Where the code and what is said of it differ

Each of these properties is violated by TLC.  The first has a run of its own; the
others stand at the end of their modules, and are refuted within a minute when put into
a configuration in the place of the properties of their module's run (`RunsTakeTurns`
with `TwoRuns` of `MCExecutionBridge`).

| run | property | the code | what is said |
|---|---|---|---|
| `failed_unmarked` | `FailedRunIsMarked` | a retry saves `processing` before it finds the Markdown missing (706); exceptions of retries and recoveries are only logged (720, 464).  The task can then be neither reviewed nor retried | RA:72 "any stage that errs goes to failed" |
| (none) | `PinsLeaveNoTrace` | two pinned requests overlap, and the one that ends last restores the tab the other had pinned | `browse/src/server.ts`:653 "prevents parallel agents from interfering with each other's tab context" |
| (none) | `KeepsEntry` | the login setup ends on the home page, and an entry whose fingerprint matches is not prepared again: the case starts away from its content | `src/services/precondition_spec.py`:130 "login and search entry can be reused independently" |
| (none) | `ReentryNavigates` | a healed attempt navigates with `asyncio.run` inside `asyncio.run(heal_run(...))`, which raises | `execution_runtime/heal/__init__.py`:153 "the outer navigate re-enters the module" |
| (none) | `FailuresAreRecorded` | a case whose preparation or session fails ends before its result and defect are written (140, 174) | `pytest_exec/test_execution.py`:8 "after every case: results/<case_id>.json; a failure is recorded as a defect" |
| (none) | `RunsTakeTurns` | `start_run` starts a process per call; nothing reads `max_concurrency` | `docs/execution_runtime_design.md`:54 "max_concurrency: 1, one real phone, serially" |
| (none) | `GuestsAreLoggedOut` | `ensure_login_state` logs out only when the page that is shown tells of a login (459): on any other page a member stays logged in, the preparation succeeds, and the session is remembered as a guest's | `execution_runtime/setup/precondition.py`:470 "the target is logged out, but the page still shows a login" is an error |

More was seen while modelling.

*Requirement analysis* (definitions at the end of `RequirementAnalysis` and
`RunLock`, each refuted by TLC when put into a configuration):
`RestartResumes` (the lock of the dead process is young, so the next start skips
the task, 426); `ReviewIsOfThisAnalysis` (the repair takes any review file, also
of the run before the retry that crashed, 197); `RetryHoldsLock` (the answer of the
lock is dropped, 708, and the tail of the reviewed run releases it by process id,
1360); `RunningTaskLeftAlone` (the limit of recoveries is looked at before the
lock, 409); `CompleteMeansReviewed` (after the notification 100 is set without
another look, 1356); `TaskSurvivesRestart` (the state file is rewritten in place,
370); `Exclusive` of `RunLock` (stat, unlink and create of a stale lock are three
calls, 303).  The results are rewritten in place too (`analysis_logger.py`:112): behind a
crash in the middle of `review_{id}.json` the repair asks for a verdict and there is no
review to show (197, 221-233).  The first pipeline goes from `uploading` to `reviewing`, which
`STATUS_TRANSITIONS` (73-79) does not list.

*Test-case generation.*  Executability healing runs after coverage was checked and
may name another point.  A review that ends between `_persist_cases` and
`pending_review` never completes the task, nor does one cut off by a crash between
its commit and the completion.  A crash between persisting and publishing leaves a
failed task with cases, and reviewing them all turns it from failed to completed.
A recompilation begun before an edit commits the script of the old text; a review
stays when its case is edited.

*Notes.*  `WrittenIsLatest` does not hold: a note saved after its removal starts
at version 1 below the tombstone, and no command ever finds it (268).
`promoteToGlobal` writes version 1 always, so a second promotion counts only
because equal versions go to the later row.  Concurrent uses of a note lose a count
or a flag; a use in flight brings a removed note back; a row appended behind a torn
line is lost with it.  The header says that a flagged use demotes and that an idle
compactor exists; neither is in the code.  `handleSave` stores the score 0, with
which nothing is ever promoted.

*Tabs.*  A refusal, help, an unknown command and an agent's `newtab` return before
the pin is undone (882), and so does the 403 of a blocked content (822).  A pin to a tab that has gone is dropped in silence, and
the command runs on the active tab.  After the last tab has closed by itself,
every unpinned command fails, `goto` and `newtab` of the root included, where the
test (`snapshot.test.ts`:528) expects a tab to be made.  A new tab that is ready
between the new context and the clearing of the owners loses its owner.

*Daemon.*  `NoOrphan` does not hold: a server that needs longer than
`MAX_START_WAIT` is in no state file when the next program looks for one to kill
(496), and stays.  A program whose server is late reads its stderr without a timeout,
with the lock (264-267): while that server runs and writes nothing, this program does
not end, although the server answers others by now.

*Transcripts.*  A file that grows between the read and the stat of its entry is
recorded with the newer mtime and skipped until that changes again; the partial flag,
which the header says leads to another ingest, is never read.  The hash sees the first megabyte,
"sufficient for change detection" (282), and a page takes 200,000 characters (597): text
behind the first is never looked at again, as transcripts grow at their end, and text
behind the second is recorded as ingested and is in no page.  The put of a killed pass
may come after that of a later pass.  The lock is taken
over after five minutes, "process death", while a stage may take 35.  A pass killed
by that timeout has recorded nothing.  `page.git_remote === "_unattributed"` is
never true, so that sessions without a remote are ingested.  The handlers of SIGINT
and SIGTERM cannot run while `spawnSync` waits.

*Execution.*  A member and a non-member are told apart by the fingerprint and not by
the setup: whoever is logged in counts (`precondition.py`:474, as its docstring says).
In a healed attempt no step of an agent can run either (`case_runner.py`:159).  The
exit code of pytest is dropped (`runner.py`:367).  A process that dies behind its
summary leaves a failed run with a completed row.  After a restart nobody takes up a
run that was at work, and its state says `running` for ever.  A case that does not
compile has no result either (`runner.py`:204).

## 5. What is proved

`tlapm` checks every leaf of the proof modules.  The theorems hold for all values
of the constants that the named assumptions allow; TLC evaluates the assumptions
in every run.

**The run lock** (end of `RequirementAnalysisProofs`): for every set of processes, with `LongHold` either way,
`LockTypeCorrect` (`TypeOK`), `LockExcludes` (`ExclusiveUnlessReaped`), `LockReleases`
(`ReleasesOwnLock`).  The inductive invariant says where the file's owner is at
each program counter under `NoReapingRace` (no file was ever taken for a zombie's; or
one process did so, no holder works beyond two hours and nobody removed a file without
holding the lock): a process that created the file owns it, and only the one reaper can
be about to unlink.  Processes that were refused the lock are at work and release in the
model; the condition speaks of them because with a reaper the file they find with their
own pid may be another's by the time they unlink it.

**RequirementAnalysisProofs**: for every number of servers, tools and runs, every
assignment of process ids allowed by `ConstantsAssumption`, every `MaxRecovery`.

| theorem | statement |
|---|---|
| `TypeCorrect` | `Spec => []TypeOK` |
| `OneRunAtWork` | `Spec => []SingleActiveRun` |
| `WorkIsUndisturbed` | `Spec => []RunFitsStatus` |
| `VerdictsHaveReviews` | `Spec => []VerdictHasReview` |
| `NothingStaysInMemory` | `Tools = {}`: `Spec => []DiskMatchesMemory` |
| `ApprovalIsFinal` | `Tools = {}`: `Spec => ApprovedIsFinal` |
| `ImplementsLifecycle` | `Tools = {}`: `Spec => KeepsLifecycle` |
| `RecoveriesAreBounded` | `Tools = {}`: `Spec => []RecoveryBounded` |
| `RecoveryIsLocked` | `Tools = {} \/ ~LongRuns`: `Spec => []RecoveryHoldsLock` |
| `LoopIsPassedOn` | `Spec => []LoopGoesRound` |
| `RunsEnd` | `Spec => RunsMoveOn` |
| `StartsEndSettled` | `Spec => StartEndsSettled` |

*The argument.*  "At most one run at work" is not inductive: a retry is accepted
because of the *status*, so the invariant must say that a run at work shows in
the status.  `IInv == TypeOK /\ Control`, where `Control` joins: at most one
server up (`OneServer`); a process has a task in memory only while it lives
(`MemoryOfTheLiving`) and a run at work belongs to a serving server with a task
(`LiveRuns`); the running coroutine is at work (`Uninterrupted`); and the two
goals, `SingleActiveRun` and `RunFitsStatus`.  A request needs a status no run
at work can have; a boot needs a process none of whose runs exist.

`VerdictHasReview` needs the disk: `Evidence` says that the saved status implies
the result files (`FilesFitStatus`), that memory agrees with the files
(`MemoryFitsFiles`), and what a run has written by each program counter
(`RunLeavesFiles`).  A scan then reads back what it must; a file that is `Torn` counts
as written in all three and as nothing in what is read back, which is the exception
the property makes.

`DiskMatchesMemory` follows from `ShownIsSaved`, which also covers the process
between its scan and its boot.  It needs `Tools = {}`: a tool changes the file
behind the server's back, which is the hazard behind `RunningTaskLeftAlone`.  The
refinement and `ApprovalIsFinal` follow from one table, proved action by action:
`Written` says what each action may put into the state file given what is in it,
and every entry is a step of `TaskLifecycle` or a stutter.  The same table bounds the
recoveries: the count on the disk never goes back and is written before the run it
counts exists (`Counted`).  A recovery keeps its lock because it begins in a server
without another live run and, by the status, none begins beside it (`LockHeld`); a
tool finds the lock young unless a run outlives the two hours.

The last three are what `StartSettles` rests on besides fairness.  Whoever has the
event loop is between two awaits with a step to take (`LoopGoesRound`), so no
coroutine waits for it in vain; every step of a run, its failures included, takes it
forward in a finite order of places and nothing takes it back (`RunsMoveOn`); and the
step that ends the work of a new task, its notification, a failure or the end of its
process, leaves no task that says it is at work (`StartEndsSettled`).

Each strengthening was checked with TLC before it was proved.

**TestcaseGenerationProofs**: for any points, batches, requests and bounds,
`TypeCorrect`, `Coverage` (`EveryPointHasCase`), `CompletionIsDue`
(`CompletedIsReviewed`), `CompletionIsNotMissed` (`LastReviewCompletes`),
`NothingRunsFalsely` (`NoFalseRun`), `ScriptsFit` (`ScriptFitsText`).  Until the
pipeline has persisted its cases there is none for a request to be about
(`NoCaseYet`, `OnRows`); the pipeline alone sets the status until then (`AtWork`),
and what it persists covers the points (`Covered`).  A reviewed case is never put
back, so what a request counted still holds when it completes the task
(`CountsStay`).  A case that is not raced has one writer (`OneWriter`), which
compiles the text it is about to write (`Compiles`).

**CdpLocksProofs**: for any calls and tabs, `TypeCorrect`, `InOrder`
(`FirstComeFirstServed`), `MutualExclusion` (`Exclusive`), `CommandsExclude`
(`OverlapOnlyWhenLate`).  The tail of a chain has every other member before it
(`TailsCover`), so a new call waits, directly or through a younger one, for
everyone it conflicts with (`AwaitsCover`); a promise resolves after those it
waits for, and so in the order of the calls (`ResolvedInOrder`).  `ChainNeverShut`
(`NeverShut`) is what `ChainOpens` rests on besides fairness: a call waits only for
calls made before it, which is an order, and only finitely many have been made
(`InTheirOrder`), so among the promises that have not resolved there is always one
that waits for no other call.  That calls themselves only go forward can be read off the
actions.

**BrowseTabsProofs**: for any requests, clients and tabs, `TypeCorrect`,
`OwnersOpened` (`OwnerOpenedIt`), `ActiveHasSession` (`ActiveOpen`), `PinsUndone`
(`Undone`).  An id from
`nextTab` on has no owner and what `saveState` keeps of an owner opened the tab it is
kept of (`OwnersFit`).  There is one recreation at a time, and without an active tab
none is open until `restoreState` runs (`ActiveFit`).  That the least and the greatest
of a set of tabs exist follows from the library's theorem on well-founded relations.
`Undone` speaks of the moments between commands only; while nothing comes in between,
at most one request is in flight (`OneByOne`), one that may move the active tab takes
the choice along, and one that may not has the tab to go back to in a place that
depends on how far it is: its pin, what `tab-each` noted, or the active tab itself
(`Restores`).  A blocked answer chooses the tab it leaves active (`OneByOneBlocked`).

**DomainSkillsProofs**: for any agents, projects, texts, thresholds and bounds,
`TypeCorrect`, `ActiveEarned`, `FiringEarned`, `StaysDeleted`
(`DeletedStaysDeleted`).  The uses a row claims were counted
one by one from rows of the same text that are in the file, or were there until their
line was spoilt, or will be before it (`Counted`); none leaves `rows`, so what was
counted stays.  For the deleted note:
versions start at 1 and a tombstone is written on top of a row, so it is never the
first version (`Numbered`); a write that is no rollback is a first version or was
computed from a note that won among the rows its command had read (`Knows`), so a
tombstone it beats came after those, or that note is lost.  A write that adds no row
can only lose the last row of a file without its newline (`SpoilingWrite`), and what it
reveals was hidden by a tombstone there.

**BrowseDaemonProofs**: for any programs, servers and faults, `TypeCorrect`,
`LockIsReleased`, `StartersExclude` (`OneStarter`), `ServersExclude`
(`OneServer`).  While no lock was taken from a live program, who is to release it
made it (`HolderMadeIt`); while nobody went round it, a starting server is the only
one (`StarterAlone`), and the program with the lock knows the one that may be up
(`UpIsFresh`, `UpIsSeen`) until it has killed it (`NoneUp`).  `ProgramsGoOn`
(`NobodyIsStuck`) is the same kind of support for `CliEnds`: whoever a program is to
kill or to hear from has run (`NamedHaveRun`), and a program that is to start a server
always has one to start if there are more than two per program and one per 401, since
it starts at most one each time round, and goes round at most twice and once more for
each 401 (`Left`, `EnoughLeft`).  It
shows that the bound `MaxServer`, which the code does not have, holds no program up.
`ProgramsEnd` (`ProgramsRunOut`) is the other half: a program can go round between the
lock and its removal, but each round removes a lock file, and those that lie there or
will ever be made are at most one for each program that has not had the lock, and the
one of a maker who does not come back (`LocksToCome`, `MakersPast`); it restarts the
server once, and a 401, of which there are `MaxReused`, gives that back; and everything
else takes it forward.  That a program moves at all is what `CliEnds` is about, with its
exception for one that listens.

**MemorySyncProofs**: for any transcripts, syncs, passes, bounds, and lengths of hash
and page, `TypeCorrect`, `SkipsOnlyIngested` (`UnchangedIsIngested`), `PassesApart`
(`OneAtATime`), `PagesGoForward` (`PagesDoNotGoBack`).  `UnchangedIsIngested` speaks
of the saved mtimes only and is far from inductive: the hash lets an old entry be
brought up to date later.  `EntriesFit` says of every entry, saved or with a pass,
that it is not newer than its file in mtime and in hash, and that if it equals the
file in either, the file's page is good or excused.  An append makes both parts of
every entry old, or goes beyond the hash; a new entry rests on `CopiesFit`, what a
pass knows of its file at each of its three looks, and what a put that was left behind
has of it (`OrphanFits`): the whole body of the file as it is, or the file is excused.  For the lock, a sync in a stage
is named in it (`InLock`), a pass at work has a sync that waits (`Waited`), and no
two have the same (`Parents`); `PutsForward` then says that the one pass at work
never puts what is older than the page; the orphans are the property's exception.

**ExecutionProofs**, the worker: for any cases, logins, modules, modes and budget,
`SessionTypeCorrect`, `LoginCorrect` (`LoginAsAsked`), `PageCorrect`
(`ModulePageInPlace`), `DefectsCorrect` (`DefectPerFailure`), `WorkRunsOut`
(`EveryStepCounts`).  `LoginAsAsked` speaks of the phone, which the code does not
look at; the invariant goes through the memory of the worker.  As long as everything
that moved the phone behind its back ended on the side of the remembered login, the
phone is on that side (`LoginRemembered`), and a case that is past its login is
remembered with it (`Prepared`).  A failed preparation therefore must not be
remembered, which is the bug the mutant makes, and one for a guest that left somebody
logged in puts that into `behind`, as the worker cannot know better.  A case that waits or is at work has no
result yet (`PlayedOnce`), so its defect is the first.  `EveryStepCounts` is the part
of termination that can be proved: a measure of cases, scopes, budget and parts of an
attempt falls lexicographically with every step, for every budget; that a worker that
can step does step is its fairness.

**ExecutionProofs**, the service: for any runs, results and kills,
`BridgeTypeCorrect`, `RowCorrect` (`RowFitsTask`), `SettledForGood`
(`SettledIsFinal`), `ProgressKeeps` (`ProgressNeverFalls`).  The two action properties
need to know what a kill may take: the disk is behind the memory by nothing but
progress that the log of the process has too (`RunSaved`), so what was shown can be
answered again from disk and log (`RunShown`).  What the task in memory says at each
place of the coroutine is `RunPlaced`; `RunJudged` says that the verdict in memory and
the one of the rows come of one summary, which no longer changes once the process has
ended.  A number from `NextRunId` is new because the greatest of a bounded set of
numbers exists, again from the theorem on well-founded relations.  Two theorems are
what `RunSettles` rests on besides fairness.  `NoRunForgotten` (`NoneForgotten`): a run
that memory has as queued or running has its coroutine before the verdict, and one
that reads has a process to read from.  `RunsRunOut` (`RunStepsCount`): a measure of
the places of the coroutine, the end of the process, its stages with the summary, and
the line that waits to be read falls with every step of either, and nothing else,
kills and other runs included, makes it rise once the run exists.

*Assumptions.*  `ConstantsAssumption` (servers and tools are apart, a tool's pid is
its own, the flags are Booleans), `NullAssumption` and the `NoneAssumption` of
several modules (null values are not data), `LongHoldAssumption`,
`GenerationAssumption` (finitely many points, batches of them, bounds are
numbers), `TabsAssumption`, `KindAssumption`, `ThresholdAssumption`, `BoundsAssumption`, `GlobalAssumption`,
`DaemonAssumption`, `MemoryAssumption`, `CaseAssumption` (finitely many cases, a budget
of at least one heal), `RunAssumption` (runs are numbered from 1; bounds are numbers, null values are not
data).

## 6. Limits

*Only proved.*  The type invariants: no run checks again what is proved;
`FiringWasEarned` and `LockReleased` are proved for all instances and are in no run
either, and nor are `NeverShut`, `NobodyIsStuck`, `ProgramsRunOut`, `NoneForgotten`,
`RunStepsCount`, `LoopGoesRound`, `RunsMoveOn` and `StartEndsSettled`.  The last eight
are the safety halves of the liveness properties: nobody waits for what nothing will
bring, and no steps go on for ever.  TLC checked each of them on the instance of its
component's run before it was proved.

*Only model-checked.*  `StartSettles`, `ChainOpens`,
`CliEnds`, `Finishes` and `RunSettles`, because liveness under fairness and `ENABLED` are beyond the prover;
the runs of section 4.  Induction over data cannot be used either (what a recursive
definition computes for every input); the modules have no `RECURSIVE` operator.

*Not modelled inside the modelled components.*  Several tasks at once (they share a
dictionary), the allocation of ids, what an agent is asked and how its answer is
parsed, failing writes of a state file in `RA` and `TG`, the packing of batches by
tokens; of the browse tool handoff and watch mode, the extension, `chain`, loading a
saved state, Windows, proxies, the parent watchdog and the terminal agent, the second
recreation of `viewport --scale` that rolls a failed one back, and a health check that
another server answers at the port of a dead one; a request for a page that the server
answers after the program's 30 seconds is a failed program; of the
ingest what section 2 leaves out, and of a sync the inside of its code stage and
its push.

*Components not modelled.*  Self-healing and the agent runtime are
sequential and keep their counts to themselves: in the models a healed call is an
await that answers or raises.  The device side of the execution
runtime and its path cache depend on what a phone shows.  The legacy pipeline, its stages and the scheduler
are superseded by the services; the WebSocket manager carries progress that the
next poll repeats.  HTTP handlers call one operation each.  The rest (knowledge
base, LLM clients, executors, generators, reports, the page commands of the browse
tool, and most of `gstack/`) is I/O, text, generators of text or formatting, without
a protocol to be wrong about.  By lines that is the larger part of the repository:
what is modelled is where several actors share state.

## 7. Plan

| step | modules | properties | proofs |
|---|---|---|---|
| done | `RequirementAnalysis`, `RunLock`, `TaskLifecycle`; `TestcaseGeneration`; `CdpLocks`, `DomainSkills`, `BrowseTabs`, `BrowseDaemon`; `MemorySync`; `ExecutionBridge`, `CaseSession` | section 3 | section 5 |
| next | | | the lemmas shared between proofs; shorter proofs of the long steps |
| then | `Pipeline` with `Scheduler` | cancelled is final; execution only after approval; one start per minute | transitions |
| last | `AgentRuntime`; the activity log and the code sources of `gstack/` | each backend at most once, in order | |

Bounds stay at two or three actors per role and one or two of each limit, so
that a limit is reached, passed and run into.
