------------------------ MODULE RequirementAnalysis ------------------------
(***************************************************************************)
(* One requirement-analysis task of RequirementAnalysisService             *)
(* (src/src/services/requirement_analysis_service.py): the task record in  *)
(* the memory of the server process, its copy in task_state.json, the      *)
(* files a run leaves beside it, the run lock, the coroutines ("runs")     *)
(* that work on the task, and the people who review and retry it.          *)
(*                                                                         *)
(* A task shares nothing with the other tasks but the dictionary that      *)
(* holds it, so the module follows a single task.  A server process is     *)
(* incarnated once: a restart is the next member of Servers.  A member of  *)
(* Tools imports the service module without serving (a script, the unit    *)
(* tests) and so executes __init__ beside a running server.                *)
(*                                                                         *)
(* asyncio interleaves coroutines only where they await.  An action here   *)
(* is a stretch of code between two awaits; where a stretch writes to the  *)
(* disk more than once it is cut after each write, so that a crash may     *)
(* fall between them, and cpu names the coroutine that must run on.        *)
(***************************************************************************)
EXTENDS Integers, FiniteSets

CONSTANTS
  Servers,       \* incarnations of the server process, at most one at a time
  Tools,         \* processes that import the service without an event loop
  Runs,          \* coroutine identities: bounds how many runs are ever created
  PidOf,         \* the operating system's process id of each process
  MaxRecovery,   \* MAX_RECOVERY_ATTEMPTS
  TornWrites,    \* may a crash cut the writing of a JSON file short?
  LongRuns,      \* may a run still be at work when its lock is two hours old?
  None,          \* nothing there
  Torn           \* a file that is there and is not JSON

Procs == Servers \cup Tools

ASSUME ConstantsAssumption ==
  /\ Servers \cap Tools = {}
  /\ MaxRecovery \in Nat
  /\ TornWrites \in BOOLEAN
  /\ LongRuns \in BOOLEAN
  /\ None \notin Runs /\ None \notin Procs
  /\ \A t \in Tools : \A p \in Procs \ {t} : PidOf[t] # PidOf[p]

(***************************************************************************)
(* progress_pct is kept as the class the readers of it tell apart: below   *)
(* 90, 90 (reviewed) and 100 (complete).                                   *)
(***************************************************************************)
Interrupted == {"uploading", "processing", "reviewing"}
Decisions   == {"approved", "rejected"}
Statuses    == Interrupted \cup Decisions \cup {"pending_review", "failed"}
Progress    == {"working", "reviewed", "complete"}

Persisted == [status : Statuses, progress : Progress, recovery : Nat]

(***************************************************************************)
(* An analysis is known by the run that produced it and by whether its     *)
(* test points are in; a review by the run that wrote it.                  *)
(***************************************************************************)
Analyses == [run : Runs, final : BOOLEAN]
Task == [status : Statuses, progress : Progress, recovery : Nat,
         analysis : Analyses \cup {None}, review : Runs \cup {None}]

ASSUME NullAssumption ==
  /\ None \notin Task /\ None \notin Analyses
  /\ None \notin Persisted /\ Torn \notin Persisted
  /\ None # Torn /\ Torn \notin Runs /\ Torn \notin Analyses
  /\ None \notin [pid : {PidOf[p] : p \in Procs}, stale : BOOLEAN]

(***************************************************************************)
(* Program counter of a run: what it waits for or does next.               *)
(*   locking    the caller saved the task, the run lock is next            *)
(*   ingest     the document is to be converted and saved as Markdown      *)
(*   begin      _run_analysis_with_content is to start                     *)
(*   analyze    awaiting the analyzer (and its self-healing)               *)
(*   scope      draft analysis saved, awaiting the scope and quality heals *)
(*   design     awaiting the test-point designer                           *)
(*   designed   final analysis saved, the status is next                   *)
(*   review     awaiting the reviewer                                      *)
(*   reviewed   review file saved, the status is next                      *)
(*   carding    pending_review saved, the notification is next             *)
(*   notify     awaiting the notification of a completed run               *)
(*   failnotify awaiting the notification of a failed pipeline             *)
(***************************************************************************)
AwaitingPC == {"analyze", "scope", "design", "review", "notify"}
WorkPC     == {"locking", "ingest", "begin", "analyze", "scope", "design",
               "designed", "review", "reviewed"}
ActivePC   == WorkPC \cup {"carding"}
TailPC     == {"notify", "failnotify"}
EndPC      == {"done", "error", "refused", "dead"}
PC         == {"unused"} \cup ActivePC \cup TailPC \cup EndPC
Kinds      == {"start", "recover", "retry"}

ASSUME KindAssumption == None \notin Kinds

VARIABLES
  proc,      \* life of each process: new, scanned, ready, down
  mem,       \* _task_store[analysis_id] in each process
  disk,      \* task_state.json
  md,        \* does {filename}.md exist?
  analysisFile, \* {analysis_id}.json
  reviewFile,   \* review_{analysis_id}.json
  lock,      \* .running.lock: the pid in it and whether it is over two hours old
  run,       \* the coroutines
  cpu        \* the run inside a stretch without await, or None

vars == <<proc, mem, disk, md, analysisFile, reviewFile, lock, run, cpu>>
files == <<md, analysisFile, reviewFile>>

TypeOK ==
  /\ proc \in [Procs -> {"new", "scanned", "ready", "down"}]
  /\ mem \in [Procs -> Task \cup {None}]
  /\ disk \in Persisted \cup {None, Torn}
  /\ md \in BOOLEAN
  /\ analysisFile \in Analyses \cup {None, Torn}
  /\ reviewFile \in Runs \cup {None, Torn}
  /\ lock \in [pid : {PidOf[p] : p \in Procs}, stale : BOOLEAN] \cup {None}
  /\ run \in [Runs -> [pc : PC, proc : Procs \cup {None},
                       kind : Kinds \cup {None}]]
  /\ cpu \in Runs \cup {None}

Init ==
  /\ proc = [p \in Procs |-> "new"]
  /\ mem = [p \in Procs |-> None]
  /\ disk = None
  /\ md = FALSE
  /\ analysisFile = None
  /\ reviewFile = None
  /\ lock = None
  /\ run = [w \in Runs |-> [pc |-> "unused", proc |-> None, kind |-> None]]
  /\ cpu = None

-----------------------------------------------------------------------------
(***************************************************************************)
(* Helpers.                                                                *)
(***************************************************************************)
Up(p)        == proc[p] \in {"scanned", "ready"}
RunsOf(p)    == {w \in Runs : run[w].proc = p}
Active(w)    == run[w].pc \in ActivePC
ToPersisted(t) ==
  [status |-> t.status, progress |-> t.progress, recovery |-> t.recovery]

(* _save_task_state after an assignment to the task of process p. *)
SaveTask(p, t) ==
  /\ mem' = [mem EXCEPT ![p] = t]
  /\ disk' = ToPersisted(t)

Goto(w, pc) == run' = [run EXCEPT ![w].pc = pc]

(* asyncio.create_task: w becomes a coroutine of process p. *)
Spawn(w, p, kind, pc) ==
  run' = [run EXCEPT ![w] = [pc |-> pc, proc |-> p, kind |-> kind]]

(* Does _acquire_run_lock return True?  A lock over two hours old is
   removed and created anew; RunLock takes that apart file call by file
   call. *)
LockFree == lock # None => lock.stale
(* Mutation: a stale lock is removed, and not created anew. *)
AcquireWithoutRetry(p) ==
  lock' = IF lock = None THEN [pid |-> PidOf[p], stale |-> FALSE]
          ELSE IF lock.stale THEN None ELSE lock

Acquire(p) ==
  lock' = IF LockFree THEN [pid |-> PidOf[p], stale |-> FALSE] ELSE lock

(* _release_run_lock: only a lock that holds the caller's pid is removed. *)
Release(p) ==
  lock' = IF lock # None /\ lock.pid = PidOf[p] THEN None ELSE lock

-----------------------------------------------------------------------------
(***************************************************************************)
(* Start of a process: __init__.                                           *)
(***************************************************************************)

(* _restore_task_from_logs: of a result that does not parse nothing is said. *)
Restored(file) == IF file = Torn THEN None ELSE file

(* _scan_storage_for_tasks reads the state file and the two results; a state
   file that does not parse leaves the task out. *)
Scan(p) ==
  /\ proc[p] = "new"
  /\ p \in Servers => \A q \in Servers : ~Up(q)
  /\ \A q \in Procs : Up(q) => PidOf[q] # PidOf[p]
  /\ proc' = [proc EXCEPT ![p] = "scanned"]
  /\ mem' = [mem EXCEPT ![p] =
       IF disk \in {None, Torn}
       THEN None
       ELSE [status |-> disk.status, progress |-> disk.progress,
             recovery |-> disk.recovery,
             analysis |-> Restored(analysisFile), review |-> Restored(reviewFile)]]
  /\ UNCHANGED <<disk, files, lock, run, cpu>>

IsInterrupted(p) == mem[p] # None /\ mem[p].status \in Interrupted

(* Nothing to recover. *)
BootIdle(p) ==
  /\ proc[p] = "scanned"
  /\ ~IsInterrupted(p)
  /\ proc' = [proc EXCEPT ![p] = "ready"]
  /\ UNCHANGED <<mem, disk, files, lock, run, cpu>>

(* Mutation: the repair looks for the analysis instead of the review. *)
BootCorrectOnAnalysis(p) ==
  /\ proc[p] = "scanned"
  /\ IsInterrupted(p)
  /\ analysisFile # None
  /\ SaveTask(p, [mem[p] EXCEPT !.status = "pending_review",
                                !.progress = "reviewed"])
  /\ proc' = [proc EXCEPT ![p] = "ready"]
  /\ UNCHANGED <<files, lock, run, cpu>>

(* A review file is there, whatever is in it: the status is corrected to
   pending_review. *)
BootCorrect(p) ==
  /\ proc[p] = "scanned"
  /\ IsInterrupted(p)
  /\ reviewFile # None
  /\ SaveTask(p, [mem[p] EXCEPT !.status = "pending_review",
                                !.progress = "reviewed"])
  /\ proc' = [proc EXCEPT ![p] = "ready"]
  /\ UNCHANGED <<files, lock, run, cpu>>

Recoverable(p) ==
  /\ proc[p] = "scanned"
  /\ IsInterrupted(p)
  /\ reviewFile = None

(* MAX_RECOVERY_ATTEMPTS reached: failed, whatever the lock says. *)
BootGiveUp(p) ==
  /\ Recoverable(p)
  /\ mem[p].recovery >= MaxRecovery
  /\ SaveTask(p, [mem[p] EXCEPT !.status = "failed"])
  /\ proc' = [proc EXCEPT ![p] = "ready"]
  /\ UNCHANGED <<files, lock, run, cpu>>

(* The lock file is there and young: "already running", skipped. *)
BootSkip(p) ==
  /\ Recoverable(p)
  /\ mem[p].recovery < MaxRecovery
  /\ ~LockFree
  /\ proc' = [proc EXCEPT ![p] = "ready"]
  /\ UNCHANGED <<mem, disk, files, lock, run, cpu>>

(* Mutation: the count of attempts stays in memory. *)
TakeOverUncounted(p) ==
  /\ Recoverable(p)
  /\ mem[p].recovery < MaxRecovery
  /\ LockFree
  /\ Acquire(p)
  /\ UNCHANGED <<disk, files, cpu>>

(* Otherwise the lock is taken, and the attempt counted and saved. *)
TakeOver(p) ==
  /\ Recoverable(p)
  /\ mem[p].recovery < MaxRecovery
  /\ LockFree
  /\ Acquire(p)
  /\ disk' = ToPersisted([mem[p] EXCEPT !.recovery = @ + 1])
  /\ UNCHANGED <<files, cpu>>

(* A recovery run is created ... *)
BootRecover(p) ==
  /\ TakeOver(p)
  /\ md /\ p \in Servers
  /\ mem' = [mem EXCEPT ![p].recovery = @ + 1]
  /\ proc' = [proc EXCEPT ![p] = "ready"]
  /\ \E w \in Runs : run[w].pc = "unused" /\ Spawn(w, p, "recover", "begin")

(* ... unless there is no event loop: create_task raises, and the import of
   the module fails with it ... *)
BootWithoutLoop(p) ==
  /\ TakeOver(p)
  /\ md /\ p \in Tools
  /\ mem' = [mem EXCEPT ![p] = None]
  /\ proc' = [proc EXCEPT ![p] = "down"]
  /\ UNCHANGED run

(* ... or the Markdown is missing: only logged. *)
BootWithoutMarkdown(p) ==
  /\ TakeOver(p)
  /\ ~md
  /\ mem' = [mem EXCEPT ![p].recovery = @ + 1]
  /\ proc' = [proc EXCEPT ![p] = "ready"]
  /\ UNCHANGED run

-----------------------------------------------------------------------------
(***************************************************************************)
(* Requests.                                                               *)
(***************************************************************************)
Serving(p) == p \in Servers /\ proc[p] = "ready" /\ cpu = None

(* start_analysis up to the saving of the new task. *)
StartAnalysis(p) ==
  /\ Serving(p)
  /\ disk = None
  /\ SaveTask(p, [status |-> "uploading", progress |-> "working",
                  recovery |-> 0, analysis |-> None, review |-> None])
  /\ \E w \in Runs :
       /\ run[w].pc = "unused"
       /\ Spawn(w, p, "start", "locking")
       /\ cpu' = w
  /\ UNCHANGED <<proc, files, lock>>

(* Mutation: a verdict is taken in any status. *)
SubmitHumanReviewUnguarded(p, decision) ==
  /\ Serving(p)
  /\ mem[p] # None
  /\ SaveTask(p, [mem[p] EXCEPT !.status = decision])
  /\ UNCHANGED <<proc, files, lock, run, cpu>>

(* submit_human_review. *)
SubmitHumanReview(p, decision) ==
  /\ Serving(p)
  /\ mem[p] # None
  /\ mem[p].status = "pending_review"
  /\ SaveTask(p, [mem[p] EXCEPT !.status = decision])
  /\ UNCHANGED <<proc, files, lock, run, cpu>>

(* Mutation: a retry is accepted in any status. *)
RetryAnalysisUnguarded(p) ==
  /\ Serving(p)
  /\ mem[p] # None
  /\ SaveTask(p, [mem[p] EXCEPT !.status = "processing",
                                !.progress = "working"])
  /\ \E w \in Runs :
       /\ run[w].pc = "unused"
       /\ Spawn(w, p, "retry", "locking")
       /\ cpu' = w
  /\ UNCHANGED <<proc, files, lock>>

(* retry_analysis up to the saving of the task. *)
RetryAnalysis(p) ==
  /\ Serving(p)
  /\ mem[p] # None
  /\ mem[p].status \in {"rejected", "failed"}
  /\ SaveTask(p, [mem[p] EXCEPT !.status = "processing",
                                !.progress = "working"])
  /\ \E w \in Runs :
       /\ run[w].pc = "unused"
       /\ Spawn(w, p, "retry", "locking")
       /\ cpu' = w
  /\ UNCHANGED <<proc, files, lock>>

(* The rest of the two handlers: the lock is asked for and the answer
   dropped, then the coroutine is created. *)
LaunchPipeline(w) ==
  /\ run[w].pc = "locking" /\ run[w].kind = "start"
  /\ Acquire(run[w].proc)
  /\ Goto(w, "ingest")
  /\ cpu' = None
  /\ UNCHANGED <<proc, mem, disk, files>>

LaunchRetry(w) ==
  /\ run[w].pc = "locking" /\ run[w].kind = "retry"
  /\ md
  /\ Acquire(run[w].proc)
  /\ Goto(w, "begin")
  /\ cpu' = None
  /\ UNCHANGED <<proc, mem, disk, files>>

(* retry_analysis returns an error when the Markdown is missing; the task
   has been saved as processing by then. *)
RefuseRetry(w) ==
  /\ run[w].pc = "locking" /\ run[w].kind = "retry"
  /\ ~md
  /\ Goto(w, "refused")
  /\ cpu' = None
  /\ UNCHANGED <<proc, mem, disk, files, lock>>

-----------------------------------------------------------------------------
(***************************************************************************)
(* A run: _run_analysis_pipeline, _step_ingest and                         *)
(* _run_analysis_with_content.  t is the task in the memory of its         *)
(* process.                                                                *)
(***************************************************************************)
At(w, pc) == run[w].pc = pc /\ cpu \in {None, w}
TaskOf(w) == mem[run[w].proc]
SetTask(w, t) == SaveTask(run[w].proc, t)

(* _step_ingest saves the Markdown, then the progress. *)
Ingest(w) ==
  /\ At(w, "ingest")
  /\ md' = TRUE
  /\ SetTask(w, TaskOf(w))
  /\ Goto(w, "begin")
  /\ cpu' = w
  /\ UNCHANGED <<proc, analysisFile, reviewFile, lock>>

(* Progress 30 and 40, then the analyzer is awaited. *)
Begin(w) ==
  /\ At(w, "begin")
  /\ SetTask(w, [TaskOf(w) EXCEPT !.progress = "working"])
  /\ Goto(w, "analyze")
  /\ cpu' = None
  /\ UNCHANGED <<proc, files, lock>>

(* The analysis parses (healed if need be) and is saved before its scope is
   checked. *)
SaveDraft(w) ==
  /\ At(w, "analyze")
  /\ analysisFile' = [run |-> w, final |-> FALSE]
  /\ Goto(w, "scope")
  /\ cpu' = None
  /\ UNCHANGED <<proc, mem, disk, md, reviewFile, lock>>

(* Scope and quality are right or healed, and saved again; progress 55. *)
AcceptDraft(w) ==
  /\ At(w, "scope")
  /\ analysisFile' = [run |-> w, final |-> FALSE]
  /\ SetTask(w, [TaskOf(w) EXCEPT !.progress = "working"])
  /\ Goto(w, "design")
  /\ cpu' = None
  /\ UNCHANGED <<proc, md, reviewFile, lock>>

(* The test points are in: the analysis is saved, then the status. *)
SaveFinal(w) ==
  /\ At(w, "design")
  /\ analysisFile' = [run |-> w, final |-> TRUE]
  /\ Goto(w, "designed")
  /\ cpu' = w
  /\ UNCHANGED <<proc, mem, disk, md, reviewFile, lock>>

EnterReview(w) ==
  /\ At(w, "designed")
  /\ SetTask(w, [TaskOf(w) EXCEPT !.status = "reviewing",
                                  !.progress = "working",
                                  !.analysis = [run |-> w, final |-> TRUE]])
  /\ Goto(w, "review")
  /\ cpu' = None
  /\ UNCHANGED <<proc, files, lock>>

(* The review parses: the file is saved, then the status. *)
SaveReview(w) ==
  /\ At(w, "review")
  /\ reviewFile' = w
  /\ Goto(w, "reviewed")
  /\ cpu' = w
  /\ UNCHANGED <<proc, mem, disk, md, analysisFile, lock>>

(* Mutation: the new status is not saved. *)
AwaitHumanUnsaved(w) ==
  /\ At(w, "reviewed")
  /\ mem' = [mem EXCEPT ![run[w].proc].status = "pending_review",
                        ![run[w].proc].review = w]
  /\ Goto(w, "carding")
  /\ cpu' = w
  /\ UNCHANGED <<proc, disk, files, lock>>

AwaitHuman(w) ==
  /\ At(w, "reviewed")
  /\ SetTask(w, [TaskOf(w) EXCEPT !.status = "pending_review",
                                  !.progress = "reviewed",
                                  !.review = w])
  /\ Goto(w, "carding")
  /\ cpu' = w
  /\ UNCHANGED <<proc, files, lock>>

Notify(w) ==
  /\ At(w, "carding")
  /\ Goto(w, "notify")
  /\ cpu' = None
  /\ UNCHANGED <<proc, mem, disk, files, lock>>

(* Mutation: the tail writes the status of a reviewed task again. *)
CompleteAsReviewed(w) ==
  /\ At(w, "notify")
  /\ SetTask(w, [TaskOf(w) EXCEPT !.status = "pending_review",
                                  !.progress = "complete"])
  /\ Release(run[w].proc)
  /\ Goto(w, "done")
  /\ UNCHANGED <<proc, files, cpu>>

(* The tail of a run: progress 100, and the lock of this process is
   released.  Meanwhile a reviewer may have decided, and a retry begun. *)
Complete(w) ==
  /\ At(w, "notify")
  /\ SetTask(w, [TaskOf(w) EXCEPT !.progress = "complete"])
  /\ Release(run[w].proc)
  /\ Goto(w, "done")
  /\ UNCHANGED <<proc, files, cpu>>

(* An exception anywhere before the notification is sent.  Only
   _run_analysis_pipeline turns it into a status. *)
Raisable(w) ==
  run[w].pc \in ActivePC \ {"locking", "designed"} /\ cpu \in {None, w}

(* Mutation: the failure is logged, as that of a recovery is. *)
FailPipelineUnmarked(w) ==
  /\ Raisable(w) /\ run[w].kind = "start"
  /\ Goto(w, "failnotify")
  /\ cpu' = None
  /\ UNCHANGED <<proc, mem, disk, files, lock>>

FailPipeline(w) ==
  /\ Raisable(w) /\ run[w].kind = "start"
  /\ SetTask(w, [TaskOf(w) EXCEPT !.status = "failed"])
  /\ Goto(w, "failnotify")
  /\ cpu' = None
  /\ UNCHANGED <<proc, files, lock>>

NotifyFailed(w) ==
  /\ At(w, "failnotify")
  /\ Goto(w, "done")
  /\ UNCHANGED <<proc, mem, disk, files, lock, cpu>>

FailRecovery(w) ==
  /\ Raisable(w) /\ run[w].kind = "recover"
  /\ Goto(w, "error")
  /\ cpu' = None
  /\ UNCHANGED <<proc, mem, disk, files, lock>>

FailRetry(w) ==
  /\ Raisable(w) /\ run[w].kind = "retry"
  /\ Release(run[w].proc)
  /\ Goto(w, "error")
  /\ cpu' = None
  /\ UNCHANGED <<proc, mem, disk, files>>

-----------------------------------------------------------------------------
(***************************************************************************)
(* End of a process, and time.                                             *)
(***************************************************************************)
Kill(p) ==
  /\ proc' = [proc EXCEPT ![p] = "down"]
  /\ mem' = [mem EXCEPT ![p] = None]
  /\ run' = [w \in Runs |->
       IF run[w].proc = p /\ run[w].pc \in ActivePC \cup TailPC
       THEN [run[w] EXCEPT !.pc = "dead"]
       ELSE run[w]]
  /\ cpu' = IF \E w \in RunsOf(p) : cpu = w THEN None ELSE cpu

(* write_text truncates the file, then writes: is p at a place where it may
   be doing that? *)
MaySave(p) ==
  \/ proc[p] = "scanned" /\ IsInterrupted(p)
  \/ proc[p] = "ready" /\ p \in Servers /\ disk = None
  \/ /\ mem[p] # None /\ p \in Servers
     /\ mem[p].status \in {"pending_review", "rejected", "failed"}
  \/ \E w \in RunsOf(p) : Active(w) \/ run[w].pc = "notify"

(* save_json writes the results in the same way. *)
MaySaveAnalysis(p) == \E w \in RunsOf(p) : run[w].pc \in {"analyze", "scope", "design"}
MaySaveReview(p)   == \E w \in RunsOf(p) : run[w].pc = "review"

TearState(p)    == MaySave(p) /\ disk' = Torn /\ UNCHANGED files
TearAnalysis(p) == MaySaveAnalysis(p) /\ analysisFile' = Torn
                   /\ UNCHANGED <<disk, md, reviewFile>>
TearReview(p)   == MaySaveReview(p) /\ reviewFile' = Torn
                   /\ UNCHANGED <<disk, md, analysisFile>>

(* The process is killed, or the machine stops, maybe while it writes. *)
Crash(p) ==
  /\ Up(p)
  /\ Kill(p)
  /\ \/ UNCHANGED <<disk, files>>
     \/ TornWrites /\ (TearState(p) \/ TearAnalysis(p) \/ TearReview(p))
  /\ UNCHANGED lock

(* SIGTERM, as in a reload: asyncio cancels the coroutines at their awaits.
   CancelledError is no Exception: only the finally of a retry runs. *)
Stop(p) ==
  /\ Up(p)
  /\ proc[p] = "ready"
  /\ cpu = None
  /\ Kill(p)
  /\ IF \E w \in RunsOf(p) : run[w].kind = "retry" /\ run[w].pc \in AwaitingPC
     THEN Release(p)
     ELSE UNCHANGED lock
  /\ UNCHANGED <<disk, files>>

(* Two hours have passed since the lock file was written.  Nothing renews
   it; unless LongRuns, a run is over by then. *)
Age ==
  /\ lock # None /\ ~lock.stale
  /\ LongRuns \/ \A w \in Runs : ~Active(w)
  /\ lock' = [lock EXCEPT !.stale = TRUE]
  /\ UNCHANGED <<proc, mem, disk, files, run, cpu>>

Boot(p) ==
  \/ BootIdle(p) \/ BootCorrect(p) \/ BootGiveUp(p) \/ BootSkip(p)
  \/ BootRecover(p) \/ BootWithoutLoop(p) \/ BootWithoutMarkdown(p)

Step(w) ==
  \/ LaunchPipeline(w) \/ LaunchRetry(w) \/ RefuseRetry(w)
  \/ Ingest(w) \/ Begin(w) \/ SaveDraft(w) \/ AcceptDraft(w) \/ SaveFinal(w)
  \/ EnterReview(w) \/ SaveReview(w) \/ AwaitHuman(w) \/ Notify(w)
  \/ Complete(w) \/ NotifyFailed(w)

Fail(w) == FailPipeline(w) \/ FailRecovery(w) \/ FailRetry(w)

Next ==
  \/ \E p \in Procs : Scan(p) \/ Boot(p) \/ Crash(p) \/ Stop(p)
  \/ \E p \in Procs : StartAnalysis(p) \/ RetryAnalysis(p)
  \/ \E p \in Procs, d \in Decisions : SubmitHumanReview(p, d)
  \/ \E w \in Runs : Step(w) \/ Fail(w)
  \/ Age

Spec == Init /\ [][Next]_vars

(***************************************************************************)
(* A served task moves on: the server's coroutines run, agents and          *)
(* notifications answer (each call has a timeout).  Nothing obliges a       *)
(* process to crash, nor a person to act.                                   *)
(***************************************************************************)
FairSpec == Spec /\ \A w \in Runs : WF_vars(Step(w))

-----------------------------------------------------------------------------
(***************************************************************************)
(* Properties.                                                             *)
(***************************************************************************)

(* At most one run works on the task at any time, over all restarts: a retry
   is accepted, and a recovery begun, only when no other run is at work. *)
SingleActiveRun == \A v, w \in Runs : Active(v) /\ Active(w) => v = w

(* While a run is at work the task is in the status of that work: no human
   verdict, retry or failure comes under it. *)
RunFitsStatus ==
  \A w \in Runs : Active(w) =>
    /\ run[w].pc \in WorkPC => TaskOf(w).status \in Interrupted
    /\ run[w].pc \in {"review", "reviewed"} => TaskOf(w).status = "reviewing"
    /\ run[w].pc = "carding" => TaskOf(w).status = "pending_review"

(* What the server shows is what a restart would find: no change of the task
   stays in memory only. *)
DiskMatchesMemory ==
  \A p \in Servers :
    proc[p] = "ready" /\ mem[p] # None => disk = ToPersisted(mem[p])

(* A task that waits for a verdict, or has one, has an analysis and a review
   to show, also after a restart reads them back from their files; all but
   the one whose file a crash has cut short, as it still is.  The repair of
   the status takes such a file for a review. *)
VerdictHasReview ==
  \A p \in Servers :
    proc[p] = "ready" /\ mem[p] # None
    /\ mem[p].status \in Decisions \cup {"pending_review"}
      => /\ mem[p].analysis # None \/ analysisFile = Torn
         /\ mem[p].review # None \/ reviewFile = Torn

(* Over all restarts the task is recovered at most MAX_RECOVERY_ATTEMPTS
   times. *)
RecoveryBounded ==
  Cardinality({w \in Runs : run[w].kind = "recover"}) <= MaxRecovery

(* A recovery run holds the run lock with its own process id for as long as
   it works. *)
RecoveryHoldsLock ==
  \A w \in Runs : Active(w) /\ run[w].kind = "recover" =>
    lock # None /\ lock.pid = PidOf[run[w].proc]

(* An approval is never taken back: not by the tail of the run that was
   reviewed, not by a restart.  Only a torn write can lose the task. *)
ApprovedIsFinal ==
  [][disk \notin {None, Torn} /\ disk.status = "approved"
       => disk' = Torn \/ disk'.status = "approved"]_disk

(* The durable task as TaskLifecycle sees it. *)
Phase ==
  CASE disk = None -> "absent"
    [] disk = Torn -> "lost"
    [] disk \notin {None, Torn} /\ disk.status \in Interrupted -> "working"
    [] disk \notin {None, Torn} /\ disk.status = "pending_review" -> "awaiting"
    [] OTHER -> disk.status

Lifecycle == INSTANCE TaskLifecycle WITH
  phase <- Phase,
  recoveries <- IF disk \in {None, Torn} THEN 0 ELSE disk.recovery

(* The task keeps the promises of TaskLifecycle across crashes and restarts:
   reviewed before a verdict, retried only after a rejection or a failure,
   recovered only while at work and only so often. *)
KeepsLifecycle == Lifecycle!Spec

(* Unless its process goes down, the pipeline of a new task ends, and leaves
   the task with a result to review or failed. *)
StartSettles ==
  \A w \in Runs : \A p \in Servers :
    run[w].kind = "start" /\ run[w].proc = p /\ Active(w)
      ~> ~IsInterrupted(p)

-----------------------------------------------------------------------------
(***************************************************************************)
(* What comments and documents say of the task and the code does not do.   *)
(***************************************************************************)

(* "any stage that errs -> failed" (the comment above STATUS_TRANSITIONS): a
   retry or a recovery that ended with an exception, or a retry that found no
   document to work on, leaves a task that says so. *)
FailedRunIsMarked ==
  \A w \in Runs : \A p \in Servers :
    run[w].pc \in {"error", "refused"} /\ run[w].proc = p => ~IsInterrupted(p)

(* "an interrupted task without a review file is resumed from its Markdown
   after the service has started" (requirement_analysis_module.md). *)
RestartResumes ==
  \A p \in Servers :
    proc[p] = "ready" /\ IsInterrupted(p) /\ md /\ reviewFile = None
      => \E w \in Runs : run[w].proc = p

(* The status repair takes a review file for the review of the interrupted
   run: what a person is asked to judge is a complete analysis and the review
   of that same analysis. *)
ReviewIsOfThisAnalysis ==
  \A p \in Servers :
    proc[p] = "ready" /\ mem[p] # None /\ mem[p].status = "pending_review"
      => mem[p].analysis = [run |-> mem[p].review, final |-> TRUE]

(* "retry acquires the file lock again" (_run_analysis_pipeline): a retry
   that works holds the run lock. *)
RetryHoldsLock ==
  \A w \in Runs :
    Active(w) /\ run[w].kind = "retry" /\ run[w].pc # "locking"
      => lock # None /\ lock.pid = PidOf[run[w].proc]

(* "file lock: skip the task if a process is already executing it"
   (__init__): a process that starts beside the server does not write to a
   task whose run holds a young lock. *)
RunningTaskLeftAlone ==
  [][\A t \in Tools : \A w \in Runs :
       Active(w) /\ lock = [pid |-> PidOf[run[w].proc], stale |-> FALSE]
       /\ proc[t] = "scanned" /\ proc'[t] # "scanned"
         => UNCHANGED disk]_<<proc, disk>>

(* progress_pct 100 is the progress of a task that was reviewed (the table of
   statuses in requirement_analysis_module.md). *)
CompleteMeansReviewed ==
  \A p \in Servers :
    IsInterrupted(p) => mem[p].progress # "complete"

(* "the state of a task is persisted, a server restart recovers it" (the
   class comment): a task that was created is known after a restart. *)
TaskSurvivesRestart ==
  \A w \in Runs : \A p \in Servers :
    run[w].kind = "start" /\ run[w].pc # "locking" /\ proc[p] = "ready"
      => mem[p] # None

=============================================================================
