--------------------- MODULE RequirementAnalysisProofs ---------------------
(***************************************************************************)
(* RequirementAnalysis for every number of server incarnations, tools and  *)
(* runs, and every bound on recoveries; and at the end the run lock,       *)
(* RunLock, for every set of processes.                                    *)
(***************************************************************************)
EXTENDS RequirementAnalysis, RunLock, FiniteSetTheorems, TLAPS

-----------------------------------------------------------------------------
(***************************************************************************)
(* Types.                                                                  *)
(***************************************************************************)

(* A saved task is persisted by its three durable fields. *)
LEMMA SaveTaskType ==
  ASSUME TypeOK, NEW p \in Procs, NEW t \in Task, SaveTask(p, t)
  PROVE  mem' \in [Procs -> Task \cup {None}] /\ disk' \in Persisted
BY DEF TypeOK, SaveTask, ToPersisted, Task, Persisted

LEMMA GotoType ==
  ASSUME TypeOK, NEW w \in Runs, NEW pc \in PC, Goto(w, pc)
  PROVE  run' \in [Runs -> [pc : PC, proc : Procs \cup {None},
                            kind : Kinds \cup {None}]]
BY DEF TypeOK, Goto

LEMMA SpawnType ==
  ASSUME TypeOK, NEW w \in Runs, NEW p \in Procs, NEW kind \in Kinds,
         NEW pc \in PC, Spawn(w, p, kind, pc)
  PROVE  run' \in [Runs -> [pc : PC, proc : Procs \cup {None},
                            kind : Kinds \cup {None}]]
BY DEF TypeOK, Spawn

LEMMA LockType ==
  ASSUME TypeOK, NEW p \in Procs, Acquire(p) \/ Release(p) \/ UNCHANGED lock
  PROVE  lock' \in [pid : {PidOf[q] : q \in Procs}, stale : BOOLEAN] \cup {None}
<1> DEFINE Locks == [pid : {PidOf[q] : q \in Procs}, stale : BOOLEAN]
<1>1. [pid |-> PidOf[p], stale |-> FALSE] \in Locks
  OBVIOUS
<1>2. lock \in Locks \cup {None}
  BY DEF TypeOK
<1>3. lock' = [pid |-> PidOf[p], stale |-> FALSE] \/ lock' = lock \/ lock' = None
  BY DEF Acquire, Release
<1> QED
  BY <1>1, <1>2, <1>3

LEMMA KillType ==
  ASSUME TypeOK, NEW p \in Procs, Kill(p)
  PROVE  /\ proc' \in [Procs -> {"new", "scanned", "ready", "down"}]
         /\ mem' \in [Procs -> Task \cup {None}]
         /\ run' \in [Runs -> [pc : PC, proc : Procs \cup {None},
                               kind : Kinds \cup {None}]]
         /\ cpu' \in Runs \cup {None}
<1>1. \A w \in Runs : [run[w] EXCEPT !.pc = "dead"] \in
        [pc : PC, proc : Procs \cup {None}, kind : Kinds \cup {None}]
  BY DEF TypeOK, PC, EndPC
<1> QED
  BY <1>1 DEF TypeOK, Kill

-----------------------------------------------------------------------------
(***************************************************************************)
(* The inductive invariant.  That at most one run is at work is not        *)
(* inductive: a retry is refused while a run is at work because the task   *)
(* then has another status (RunFitsStatus), a recovery begins in a process *)
(* that has no runs yet while no other server is up, and a new task is     *)
(* created while there is none.                                            *)
(***************************************************************************)
Live(w) == run[w].pc \in ActivePC \cup TailPC

(* The program counters that are only passed through without an await. *)
StretchPC == {"locking", "designed", "reviewed", "carding"}

OneServer == \A p, q \in Servers : Up(p) /\ Up(q) => p = q

MemoryOfTheLiving ==
  \A p \in Procs : mem[p] # None => Up(p) /\ disk # None

LiveRuns ==
  \A w \in Runs : Live(w) =>
    run[w].proc \in Servers /\ proc[run[w].proc] = "ready" /\ TaskOf(w) # None

Uninterrupted == \A w \in Runs : run[w].pc \in StretchPC => cpu = w

Control ==
  /\ OneServer
  /\ MemoryOfTheLiving
  /\ LiveRuns
  /\ Uninterrupted
  /\ SingleActiveRun
  /\ RunFitsStatus

IInv == TypeOK /\ Control

(* The status t may have while a run is at pc. *)
Fits(pc, t) ==
  /\ pc \in WorkPC => t.status \in Interrupted
  /\ pc \in {"review", "reviewed"} => t.status = "reviewing"
  /\ pc = "carding" => t.status = "pending_review"

-----------------------------------------------------------------------------
(***************************************************************************)
(* Steps of a run.                                                         *)
(***************************************************************************)

(* The task of a run that is not over is the task of a server that is up. *)
LEMMA LiveTask ==
  ASSUME IInv, NEW w \in Runs, Live(w)
  PROVE  /\ run[w].proc \in Servers
         /\ proc[run[w].proc] = "ready"
         /\ TaskOf(w) \in Task
BY DEF IInv, Control, LiveRuns, TypeOK, TaskOf, Procs

(* While a run is at work, it may write a task that fits what it does next,
   and go there. *)
LEMMA WorkStep ==
  ASSUME IInv, NEW w \in Runs, Active(w), NEW t \in Task,
         NEW pc \in PC, Goto(w, pc), Fits(pc, t),
         mem' = [mem EXCEPT ![run[w].proc] = t], disk' # None,
         proc' = proc, pc \in StretchPC => cpu' = w
  PROVE  Control'
<1> DEFINE p == run[w].proc
<1>1. /\ p \in Servers /\ proc[p] = "ready"
      /\ t # None
  BY LiveTask, NullAssumption DEF Live, Active
<1>2. \A v \in Runs : v # w => run'[v] = run[v] /\ ~Active(v)
  BY DEF IInv, Control, SingleActiveRun, Goto, TypeOK
<1>3. run'[w].pc = pc /\ run'[w].proc = p
  BY DEF IInv, TypeOK, Goto
<1>4. mem'[p] = t /\ \A q \in Procs : q # p => mem'[q] = mem[q]
  BY <1>1 DEF IInv, TypeOK, Procs
<1>5. OneServer' /\ MemoryOfTheLiving'
  BY <1>1, <1>4 DEF IInv, Control, OneServer, MemoryOfTheLiving, Up, Procs
<1>6. LiveRuns'
  <2> SUFFICES ASSUME NEW v \in Runs, Live(v)'
               PROVE  /\ run'[v].proc \in Servers
                      /\ proc'[run'[v].proc] = "ready"
                      /\ mem'[run'[v].proc] # None
    BY DEF LiveRuns, TaskOf
  <2>1. CASE v = w
    BY <2>1, <1>1, <1>3, <1>4
  <2>2. CASE v # w
    <3>1. Live(v)
      BY <2>2, <1>2 DEF Live
    <3> QED
      BY <2>2, <3>1, <1>1, <1>2, <1>4
         DEF IInv, Control, LiveRuns, TaskOf, Procs
  <2> QED
    BY <2>1, <2>2
<1>7. Uninterrupted'
  BY <1>2, <1>3 DEF Uninterrupted, StretchPC, Active, ActivePC, WorkPC
<1>8. SingleActiveRun'
  BY <1>2 DEF SingleActiveRun, Active
<1>9. RunFitsStatus'
  BY <1>2, <1>3, <1>4 DEF RunFitsStatus, Active, Fits, TaskOf
<1> QED
  BY <1>5, <1>6, <1>7, <1>8, <1>9 DEF Control

(* A step that ends or has ended the work of a run leaves the status to
   whoever has the task now. *)
LEMMA TailStep ==
  ASSUME IInv, NEW w \in Runs, run[w].pc \in TailPC, NEW t \in Task,
         Goto(w, "done"), t.status = TaskOf(w).status,
         mem' = [mem EXCEPT ![run[w].proc] = t], disk' # None,
         proc' = proc, cpu' = cpu
  PROVE  Control'
<1> DEFINE p == run[w].proc
<1>1. /\ p \in Servers /\ proc[p] = "ready"
      /\ t # None
  BY LiveTask, NullAssumption DEF Live
<1>2. \A v \in Runs : v # w => run'[v] = run[v]
  BY DEF IInv, Goto, TypeOK
<1>3. run'[w].pc = "done"
  BY DEF IInv, TypeOK, Goto
<1>4. mem'[p] = t /\ \A q \in Procs : q # p => mem'[q] = mem[q]
  BY <1>1 DEF IInv, TypeOK, Procs
<1>5. OneServer' /\ MemoryOfTheLiving'
  BY <1>1, <1>4 DEF IInv, Control, OneServer, MemoryOfTheLiving, Up, Procs
<1>6. ~Live(w)' /\ ~Active(w)' /\ run'[w].pc \notin StretchPC
  BY <1>3 DEF Live, Active, StretchPC, ActivePC, WorkPC, TailPC
<1>7. LiveRuns'
  <2> SUFFICES ASSUME NEW v \in Runs, Live(v)'
               PROVE  /\ run'[v].proc \in Servers
                      /\ proc'[run'[v].proc] = "ready"
                      /\ mem'[run'[v].proc] # None
    BY DEF LiveRuns, TaskOf
  <2>1. v # w /\ run'[v] = run[v] /\ Live(v)
    BY <1>2, <1>6 DEF Live
  <2> QED
    BY <2>1, <1>1, <1>4 DEF IInv, Control, LiveRuns, TaskOf, Procs
<1>8. Uninterrupted'
  BY <1>2, <1>6 DEF IInv, Control, Uninterrupted
<1>9. SingleActiveRun'
  BY <1>2, <1>6 DEF IInv, Control, SingleActiveRun, Active
<1>10. RunFitsStatus'
  <2> SUFFICES ASSUME NEW v \in Runs, Active(v)'
               PROVE  Fits(run'[v].pc, mem'[run'[v].proc])
    BY DEF RunFitsStatus, TaskOf, Fits
  <2>1. v # w /\ run'[v] = run[v] /\ Active(v)
    BY <1>2, <1>6 DEF Active
  <2>2. Fits(run[v].pc, TaskOf(v))
    BY <2>1 DEF IInv, Control, RunFitsStatus, Fits
  <2>3. run[v].proc \in Servers
    BY <2>1, LiveTask DEF Live, Active
  <2>4. mem'[run[v].proc].status = TaskOf(v).status
    BY <2>3, <1>4 DEF TaskOf, Procs
  <2> QED
    BY <2>1, <2>2, <2>4 DEF Fits
<1> QED
  BY <1>5, <1>7, <1>8, <1>9, <1>10 DEF Control

LEMMA RunWorks ==
  ASSUME IInv, NEW w \in Runs, Active(w), NEW t \in Task,
         NEW pc \in PC, Goto(w, pc), Fits(pc, t),
         mem' = [mem EXCEPT ![run[w].proc] = t], disk' \in {disk, ToPersisted(t)},
         proc' = proc, cpu' \in {None, w}, pc \in StretchPC => cpu' = w,
         md' \in BOOLEAN, analysisFile' \in Analyses \cup {None, Torn},
         reviewFile' \in Runs \cup {None, Torn},
         Acquire(run[w].proc) \/ Release(run[w].proc) \/ UNCHANGED lock
  PROVE  IInv'
<1>1. run[w].proc \in Procs /\ TaskOf(w) # None
  BY LiveTask, NullAssumption DEF Live, Active, Procs
<1>2. disk # None
  BY <1>1 DEF IInv, Control, MemoryOfTheLiving, TaskOf
<1>3. ToPersisted(t) \in Persisted
  BY DEF ToPersisted, Task, Persisted
<1>4. disk' # None /\ disk' \in Persisted \cup {None, Torn}
  BY <1>2, <1>3, NullAssumption DEF IInv, TypeOK
<1>5. lock' \in [pid : {PidOf[q] : q \in Procs}, stale : BOOLEAN] \cup {None}
  BY <1>1, LockType DEF IInv
<1>6. run' \in [Runs -> [pc : PC, proc : Procs \cup {None},
                         kind : Kinds \cup {None}]]
  BY GotoType DEF IInv
<1>7. mem' \in [Procs -> Task \cup {None}]
  BY <1>1 DEF IInv, TypeOK
<1>8. TypeOK'
  BY <1>4, <1>5, <1>6, <1>7 DEF IInv, TypeOK
<1> QED
  BY <1>4, <1>8, WorkStep DEF IInv

(* Every step of a run but those of its tail. *)
LEMMA WorkKeepsIInv ==
  ASSUME IInv, NEW w \in Runs,
         \/ LaunchPipeline(w) \/ LaunchRetry(w) \/ RefuseRetry(w)
         \/ Ingest(w) \/ Begin(w) \/ SaveDraft(w) \/ AcceptDraft(w)
         \/ SaveFinal(w) \/ EnterReview(w) \/ SaveReview(w) \/ AwaitHuman(w)
         \/ Notify(w) \/ Fail(w)
  PROVE  IInv'
<1> DEFINE t == TaskOf(w)
<1> USE DEF files, At
<1>1. Active(w)
  BY DEF LaunchPipeline, LaunchRetry, RefuseRetry, Ingest, Begin, SaveDraft,
         AcceptDraft, SaveFinal, EnterReview, SaveReview, AwaitHuman, Notify,
         Fail, FailPipeline, FailRecovery, FailRetry, Raisable, Active,
         ActivePC, WorkPC
<1>2. t \in Task
  BY <1>1, LiveTask DEF Live, Active
<1>3. Fits(run[w].pc, t)
  BY <1>1 DEF IInv, Control, RunFitsStatus, Fits
<1>4. mem = [mem EXCEPT ![run[w].proc] = t]
  BY DEF IInv, TypeOK, TaskOf
<1>5. md \in BOOLEAN /\ analysisFile \in Analyses \cup {None, Torn}
      /\ reviewFile \in Runs \cup {None, Torn}
  BY DEF IInv, TypeOK
<1>6. \A final \in BOOLEAN : [run |-> w, final |-> final] \in Analyses
  BY DEF Analyses
<1> HIDE DEF t
<1>7. CASE LaunchPipeline(w)
  <2>1. Fits("ingest", t)
    BY <1>3, <1>7 DEF LaunchPipeline, Fits, WorkPC
  <2> QED
    BY <1>1, <1>2, <1>4, <1>5, <1>7, <2>1, RunWorks
       DEF LaunchPipeline, PC, ActivePC, WorkPC, StretchPC
<1>8. CASE LaunchRetry(w)
  <2>1. Fits("begin", t)
    BY <1>3, <1>8 DEF LaunchRetry, Fits, WorkPC
  <2> QED
    BY <1>1, <1>2, <1>4, <1>5, <1>8, <2>1, RunWorks
       DEF LaunchRetry, PC, ActivePC, WorkPC, StretchPC
<1>9. CASE RefuseRetry(w)
  <2>1. Fits("refused", t)
    BY DEF Fits, WorkPC
  <2> QED
    BY <1>1, <1>2, <1>4, <1>5, <1>9, <2>1, RunWorks
       DEF RefuseRetry, PC, EndPC, StretchPC
<1>10. CASE Ingest(w)
  <2>1. Fits("begin", t)
    BY <1>3, <1>10 DEF Ingest, Fits, WorkPC
  <2> QED
    BY <1>1, <1>2, <1>5, <1>10, <2>1, RunWorks
       DEF Ingest, SetTask, SaveTask, PC, ActivePC, WorkPC, StretchPC, t
<1>11. CASE Begin(w)
  <2> DEFINE u == [t EXCEPT !.progress = "working"]
  <2>1. u \in Task /\ u.status = t.status
    BY <1>2 DEF Task, Progress
  <2>2. Fits("analyze", u)
    BY <1>3, <1>11, <2>1 DEF Begin, Fits, WorkPC
  <2>3. mem' = [mem EXCEPT ![run[w].proc] = u] /\ disk' = ToPersisted(u)
    BY <1>11 DEF Begin, SetTask, SaveTask, t
  <2> HIDE DEF u
  <2> QED
    BY <1>1, <1>5, <1>11, <2>1, <2>2, <2>3, RunWorks
       DEF Begin, PC, ActivePC, WorkPC, StretchPC
<1>12. CASE SaveDraft(w)
  <2>1. Fits("scope", t)
    BY <1>3, <1>12 DEF SaveDraft, Fits, WorkPC
  <2> QED
    BY <1>1, <1>2, <1>4, <1>5, <1>6, <1>12, <2>1, RunWorks
       DEF SaveDraft, PC, ActivePC, WorkPC, StretchPC
<1>13. CASE AcceptDraft(w)
  <2> DEFINE u == [t EXCEPT !.progress = "working"]
  <2>1. u \in Task /\ u.status = t.status
    BY <1>2 DEF Task, Progress
  <2>2. Fits("design", u)
    BY <1>3, <1>13, <2>1 DEF AcceptDraft, Fits, WorkPC
  <2>3. mem' = [mem EXCEPT ![run[w].proc] = u] /\ disk' = ToPersisted(u)
    BY <1>13 DEF AcceptDraft, SetTask, SaveTask, t
  <2> HIDE DEF u
  <2> QED
    BY <1>1, <1>5, <1>6, <1>13, <2>1, <2>2, <2>3, RunWorks
       DEF AcceptDraft, PC, ActivePC, WorkPC, StretchPC
<1>14. CASE SaveFinal(w)
  <2>1. Fits("designed", t)
    BY <1>3, <1>14 DEF SaveFinal, Fits, WorkPC
  <2> QED
    BY <1>1, <1>2, <1>4, <1>5, <1>6, <1>14, <2>1, RunWorks
       DEF SaveFinal, PC, ActivePC, WorkPC, StretchPC
<1>15. CASE EnterReview(w)
  <2> DEFINE u == [t EXCEPT !.status = "reviewing", !.progress = "working",
                            !.analysis = [run |-> w, final |-> TRUE]]
  <2>1. u \in Task /\ u.status = "reviewing"
    BY <1>2, <1>6 DEF Task, Progress, Statuses, Interrupted
  <2>2. Fits("review", u)
    BY <2>1 DEF Fits, Interrupted
  <2>3. mem' = [mem EXCEPT ![run[w].proc] = u] /\ disk' = ToPersisted(u)
    BY <1>15 DEF EnterReview, SetTask, SaveTask, t
  <2> HIDE DEF u
  <2> QED
    BY <1>1, <1>5, <1>15, <2>1, <2>2, <2>3, RunWorks
       DEF EnterReview, PC, ActivePC, WorkPC, StretchPC
<1>16. CASE SaveReview(w)
  <2>1. Fits("reviewed", t)
    BY <1>3, <1>16 DEF SaveReview, Fits, WorkPC
  <2> QED
    BY <1>1, <1>2, <1>4, <1>5, <1>16, <2>1, RunWorks
       DEF SaveReview, PC, ActivePC, WorkPC, StretchPC
<1>17. CASE AwaitHuman(w)
  <2> DEFINE u == [t EXCEPT !.status = "pending_review",
                            !.progress = "reviewed", !.review = w]
  <2>1. u \in Task /\ u.status = "pending_review"
    BY <1>2 DEF Task, Progress, Statuses
  <2>2. Fits("carding", u)
    BY <2>1 DEF Fits, WorkPC
  <2>3. mem' = [mem EXCEPT ![run[w].proc] = u] /\ disk' = ToPersisted(u)
    BY <1>17 DEF AwaitHuman, SetTask, SaveTask, t
  <2> HIDE DEF u
  <2> QED
    BY <1>1, <1>5, <1>17, <2>1, <2>2, <2>3, RunWorks
       DEF AwaitHuman, PC, ActivePC, StretchPC
<1>18. CASE Notify(w)
  <2>1. Fits("notify", t)
    BY DEF Fits, WorkPC
  <2> QED
    BY <1>1, <1>2, <1>4, <1>5, <1>18, <2>1, RunWorks
       DEF Notify, PC, TailPC, StretchPC
<1>19. CASE FailPipeline(w)
  <2> DEFINE u == [t EXCEPT !.status = "failed"]
  <2>1. u \in Task
    BY <1>2 DEF Task, Statuses
  <2>2. Fits("failnotify", u)
    BY DEF Fits, WorkPC
  <2>3. mem' = [mem EXCEPT ![run[w].proc] = u] /\ disk' = ToPersisted(u)
    BY <1>19 DEF FailPipeline, SetTask, SaveTask, t
  <2> HIDE DEF u
  <2> QED
    BY <1>1, <1>5, <1>19, <2>1, <2>2, <2>3, RunWorks
       DEF FailPipeline, PC, TailPC, StretchPC
<1>20. CASE FailRecovery(w) \/ FailRetry(w)
  <2>1. Fits("error", t)
    BY DEF Fits, WorkPC
  <2> QED
    BY <1>1, <1>2, <1>4, <1>5, <1>20, <2>1, RunWorks
       DEF FailRecovery, FailRetry, PC, EndPC, StretchPC
<1> QED
  BY <1>7, <1>8, <1>9, <1>10, <1>11, <1>12, <1>13, <1>14, <1>15, <1>16,
     <1>17, <1>18, <1>19, <1>20 DEF Fail

(* The tail of a run, after its notification. *)
LEMMA TailKeepsIInv ==
  ASSUME IInv, NEW w \in Runs, Complete(w) \/ NotifyFailed(w)
  PROVE  IInv'
<1> DEFINE t == TaskOf(w)
<1> USE DEF files, At
<1>1. run[w].pc \in TailPC
  BY DEF Complete, NotifyFailed, TailPC
<1>2. t \in Task /\ run[w].proc \in Procs
  BY <1>1, LiveTask DEF Live, Procs
<1>3. disk # None
  BY <1>2, NullAssumption DEF IInv, Control, MemoryOfTheLiving, TaskOf
<1>4. run' \in [Runs -> [pc : PC, proc : Procs \cup {None},
                         kind : Kinds \cup {None}]]
  BY GotoType DEF IInv, Complete, NotifyFailed, PC, EndPC
<1>5. lock' \in [pid : {PidOf[q] : q \in Procs}, stale : BOOLEAN] \cup {None}
  BY <1>2, LockType DEF IInv, Complete, NotifyFailed
<1>6. CASE Complete(w)
  <2> DEFINE u == [t EXCEPT !.progress = "complete"]
  <2>1. u \in Task /\ u.status = t.status
    BY <1>2 DEF Task, Progress
  <2>2. mem' = [mem EXCEPT ![run[w].proc] = u] /\ disk' = ToPersisted(u)
    BY <1>6 DEF Complete, SetTask, SaveTask
  <2>3. disk' \in Persisted /\ disk' # None
    BY <2>1, <2>2, NullAssumption DEF ToPersisted, Task, Persisted
  <2>4. mem' \in [Procs -> Task \cup {None}]
    BY <1>2, <2>1, <2>2 DEF IInv, TypeOK
  <2>5. TypeOK'
    BY <1>4, <1>5, <1>6, <2>3, <2>4 DEF IInv, TypeOK, Complete
  <2>6. Control'
    BY <1>1, <1>6, <2>1, <2>2, <2>3, TailStep DEF Complete
  <2> QED
    BY <2>5, <2>6 DEF IInv
<1>7. CASE NotifyFailed(w)
  <2>1. TypeOK'
    BY <1>4, <1>5, <1>7 DEF IInv, TypeOK, NotifyFailed
  <2>2. mem' = [mem EXCEPT ![run[w].proc] = t] /\ disk' # None
    BY <1>3, <1>7 DEF IInv, TypeOK, TaskOf, NotifyFailed
  <2>3. Control'
    BY <1>1, <1>2, <1>7, <2>2, TailStep DEF NotifyFailed
  <2> QED
    BY <2>1, <2>3 DEF IInv
<1> QED
  BY <1>6, <1>7

-----------------------------------------------------------------------------
(***************************************************************************)
(* Start of a process.                                                     *)
(***************************************************************************)

(* A process that has not served yet has no runs; what it does in __init__
   touches nobody's memory but its own. *)
LEMMA BootStep ==
  ASSUME IInv, NEW p \in Procs, proc[p] = "scanned",
         proc' = [proc EXCEPT ![p] = "ready"],
         \A q \in Procs : q # p => mem'[q] = mem[q],
         mem'[p] # None => mem[p] # None,
         disk' = disk \/ disk' # None,
         run' = run, cpu' = cpu
  PROVE  Control'
<1>1. \A q \in Procs : Up(q)' <=> Up(q)
  BY DEF IInv, TypeOK, Up
<1>2. \A w \in Runs : Live(w) => run[w].proc # p
  BY DEF IInv, Control, LiveRuns
<1>3. OneServer'
  BY <1>1 DEF IInv, Control, OneServer, Procs
<1>4. MemoryOfTheLiving'
  BY <1>1 DEF IInv, Control, MemoryOfTheLiving
<1>5. LiveRuns'
  BY <1>2 DEF IInv, TypeOK, Control, LiveRuns, Live, TaskOf, Procs
<1>6. Uninterrupted' /\ SingleActiveRun'
  BY DEF IInv, Control, Uninterrupted, SingleActiveRun, Active
<1>7. RunFitsStatus'
  BY <1>2 DEF IInv, Control, RunFitsStatus, LiveRuns, Live, Active, TaskOf, Procs
<1> QED
  BY <1>3, <1>4, <1>5, <1>6, <1>7 DEF Control

(* A new run, when no run is at work. *)
LEMMA SpawnStep ==
  ASSUME IInv, NEW p \in Servers, Up(p), NEW w \in Runs, NEW kind \in Kinds,
         NEW pc \in ActivePC, run[w].pc = "unused",
         \A v \in Runs : ~Active(v), Spawn(w, p, kind, pc),
         proc' = [proc EXCEPT ![p] = "ready"], NEW t \in Task,
         mem' = [mem EXCEPT ![p] = t], disk' # None,
         Fits(pc, t), pc \in StretchPC => cpu' = w
  PROVE  Control'
<1>1. t # None /\ p \in Procs
  BY NullAssumption DEF Procs
<1>2. \A v \in Runs : v # w => run'[v] = run[v] /\ ~Active(v)
  BY DEF IInv, TypeOK, Spawn
<1>3. run'[w].pc = pc /\ run'[w].proc = p
  BY DEF IInv, TypeOK, Spawn
<1>4. mem'[p] = t /\ \A q \in Procs : q # p => mem'[q] = mem[q]
  BY <1>1 DEF IInv, TypeOK
<1>5. proc'[p] = "ready" /\ \A q \in Procs : q # p => proc'[q] = proc[q]
  BY <1>1 DEF IInv, TypeOK
<1>6. OneServer' /\ MemoryOfTheLiving'
  BY <1>1, <1>4, <1>5
     DEF IInv, Control, OneServer, MemoryOfTheLiving, Up, Procs
<1>7. LiveRuns'
  <2> SUFFICES ASSUME NEW v \in Runs, Live(v)'
               PROVE  /\ run'[v].proc \in Servers
                      /\ proc'[run'[v].proc] = "ready"
                      /\ mem'[run'[v].proc] # None
    BY DEF LiveRuns, TaskOf
  <2>1. CASE v = w
    BY <2>1, <1>1, <1>3, <1>4, <1>5
  <2>2. CASE v # w
    <3>1. run'[v] = run[v] /\ Live(v)
      BY <2>2, <1>2 DEF Live
    <3> QED
      BY <3>1, <1>1, <1>4, <1>5 DEF IInv, Control, LiveRuns, TaskOf, Procs
  <2> QED
    BY <2>1, <2>2
<1>8. Uninterrupted'
  BY <1>2, <1>3 DEF Uninterrupted, StretchPC, Active, ActivePC, WorkPC
<1>9. SingleActiveRun'
  BY <1>2 DEF SingleActiveRun, Active
<1>10. RunFitsStatus'
  BY <1>2, <1>3, <1>4 DEF RunFitsStatus, Active, Fits, TaskOf
<1> QED
  BY <1>6, <1>7, <1>8, <1>9, <1>10 DEF Control

LEMMA BootKeepsIInv ==
  ASSUME IInv, NEW p \in Procs, Scan(p) \/ Boot(p)
  PROVE  IInv'
<1> USE DEF files
<1>1. CASE Scan(p)
  <2>1. TypeOK'
    BY <1>1 DEF IInv, TypeOK, Scan, Task, Persisted, Restored
  <2>2. \A q \in Procs : q # p => mem'[q] = mem[q] /\ proc'[q] = proc[q]
    BY <1>1 DEF IInv, TypeOK, Scan
  <2>3. proc[p] = "new" /\ proc'[p] = "scanned"
    BY <1>1 DEF IInv, TypeOK, Scan
  <2>4. OneServer'
    BY <1>1, <2>2, <2>3 DEF IInv, Control, OneServer, Scan, Up, Procs
  <2>5. MemoryOfTheLiving'
    <3>1. mem'[p] # None => disk # None
      BY <1>1 DEF IInv, TypeOK, Scan
    <3> QED
      BY <1>1, <2>2, <2>3, <3>1
         DEF IInv, Control, MemoryOfTheLiving, Scan, Up
  <2>6. \A w \in Runs : Live(w) => run[w].proc # p /\ run[w].proc \in Procs
    BY <2>3 DEF IInv, Control, LiveRuns, Procs
  <2>7. LiveRuns' /\ RunFitsStatus'
    BY <1>1, <2>2, <2>6
       DEF IInv, Control, LiveRuns, RunFitsStatus, Live, Active, TaskOf, Scan
  <2>8. Uninterrupted' /\ SingleActiveRun'
    BY <1>1 DEF IInv, Control, Uninterrupted, SingleActiveRun, Active, Scan
  <2> QED
    BY <2>1, <2>4, <2>5, <2>7, <2>8 DEF IInv, Control
<1>2. CASE BootIdle(p) \/ BootSkip(p)
  <2>1. TypeOK'
    BY <1>2 DEF IInv, TypeOK, BootIdle, BootSkip
  <2> QED
    BY <1>2, <2>1, BootStep DEF IInv, BootIdle, BootSkip, Recoverable
<1>3. CASE BootCorrect(p) \/ BootGiveUp(p)
  <2>1. mem[p] \in Task /\ proc[p] = "scanned"
    BY <1>3 DEF IInv, TypeOK, BootCorrect, BootGiveUp, Recoverable, IsInterrupted
  <2>2. PICK t \in Task : SaveTask(p, t)
    <3>1. [mem[p] EXCEPT !.status = "pending_review",
                         !.progress = "reviewed"] \in Task
      BY <2>1 DEF Task, Statuses, Progress
    <3>2. [mem[p] EXCEPT !.status = "failed"] \in Task
      BY <2>1 DEF Task, Statuses
    <3> QED
      BY <1>3, <3>1, <3>2 DEF BootCorrect, BootGiveUp
  <2>3. mem' \in [Procs -> Task \cup {None}] /\ disk' \in Persisted
    BY <2>2, SaveTaskType DEF IInv
  <2>4. TypeOK'
    BY <1>3, <2>3 DEF IInv, TypeOK, BootCorrect, BootGiveUp
  <2>5. \A q \in Procs : q # p => mem'[q] = mem[q]
    BY <2>2 DEF IInv, TypeOK, SaveTask
  <2>6. Control'
    BY <1>3, <2>1, <2>3, <2>5, BootStep, NullAssumption
       DEF BootCorrect, BootGiveUp
  <2> QED
    BY <2>4, <2>6 DEF IInv
<1>4. CASE BootRecover(p) \/ BootWithoutLoop(p) \/ BootWithoutMarkdown(p)
  <2> DEFINE t == [mem[p] EXCEPT !.recovery = @ + 1]
  <2>1. TakeOver(p)
    BY <1>4 DEF BootRecover, BootWithoutLoop, BootWithoutMarkdown
  <2>2. /\ proc[p] = "scanned"
        /\ mem[p] \in Task
        /\ mem[p].status \in Interrupted
    BY <2>1 DEF IInv, TypeOK, TakeOver, Recoverable, IsInterrupted
  <2>3. t \in Task /\ t.status \in Interrupted
    BY <2>2 DEF Task
  <2>4. disk' \in Persisted /\ disk' # None
    BY <2>1, <2>3, NullAssumption DEF TakeOver, ToPersisted, Task, Persisted
  <2>5. lock' \in [pid : {PidOf[q] : q \in Procs}, stale : BOOLEAN] \cup {None}
    BY <2>1, LockType DEF IInv, TakeOver
  <2>6. CASE BootRecover(p)
    <3>1. PICK w \in Runs : run[w].pc = "unused" /\ Spawn(w, p, "recover", "begin")
      BY <2>6 DEF BootRecover
    <3>2. mem' = [mem EXCEPT ![p] = t] /\ p \in Servers
      BY <2>6 DEF BootRecover, IInv, TypeOK
    <3>3. run' \in [Runs -> [pc : PC, proc : Procs \cup {None},
                             kind : Kinds \cup {None}]]
      BY <3>1, SpawnType DEF IInv, PC, ActivePC, WorkPC, Kinds
    <3>4. TypeOK'
      BY <2>3, <2>1, <2>4, <2>5, <2>6, <3>2, <3>3
         DEF IInv, TypeOK, TakeOver, BootRecover
    <3>5. \A v \in Runs : ~Active(v)
      BY <2>2, <3>2 DEF IInv, Control, OneServer, LiveRuns, Live, Active, Up
    <3>6. Fits("begin", t)
      BY <2>3 DEF Fits
    <3>7. "begin" \in ActivePC /\ "begin" \notin StretchPC /\ "recover" \in Kinds
      BY DEF ActivePC, WorkPC, StretchPC, Kinds
    <3>8. Up(p)
      BY <2>2 DEF Up
    <3> HIDE DEF t
    <3>9. Control'
      BY <2>3, <2>4, <2>6, <3>1, <3>2, <3>5, <3>6, <3>7, <3>8, SpawnStep
         DEF BootRecover
    <3> QED
      BY <3>4, <3>9 DEF IInv
  <2>7. CASE BootWithoutLoop(p)
    <3>1. TypeOK'
      BY <2>1, <2>4, <2>5, <2>7 DEF IInv, TypeOK, TakeOver, BootWithoutLoop
    <3>2. /\ mem'[p] = None /\ proc'[p] = "down" /\ p \notin Servers
          /\ \A q \in Procs : q # p => mem'[q] = mem[q] /\ proc'[q] = proc[q]
      BY <2>7, ConstantsAssumption DEF IInv, TypeOK, BootWithoutLoop
    <3>3. OneServer' /\ MemoryOfTheLiving'
      BY <2>4, <3>2 DEF IInv, Control, OneServer, MemoryOfTheLiving, Up, Procs
    <3>4. \A w \in Runs : Live(w) => run[w].proc # p /\ run[w].proc \in Procs
      BY <2>2 DEF IInv, Control, LiveRuns, Procs
    <3>5. LiveRuns' /\ RunFitsStatus'
      BY <2>7, <3>2, <3>4
         DEF IInv, Control, LiveRuns, RunFitsStatus, Live, Active, TaskOf,
             BootWithoutLoop
    <3>6. Uninterrupted' /\ SingleActiveRun'
      BY <2>1, <2>7 DEF IInv, Control, Uninterrupted, SingleActiveRun, Active,
                        TakeOver, BootWithoutLoop
    <3> QED
      BY <3>1, <3>3, <3>5, <3>6 DEF IInv, Control
  <2>8. CASE BootWithoutMarkdown(p)
    <3>1. mem' = [mem EXCEPT ![p] = t]
      BY <2>8 DEF BootWithoutMarkdown
    <3>2. TypeOK'
      BY <2>1, <2>3, <2>4, <2>5, <2>8, <3>1
         DEF IInv, TypeOK, TakeOver, BootWithoutMarkdown
    <3>3. \A q \in Procs : q # p => mem'[q] = mem[q]
      BY <3>1 DEF IInv, TypeOK
    <3>4. mem[p] # None
      BY <2>2, NullAssumption
    <3>5. Control'
      BY <2>1, <2>2, <2>4, <2>8, <3>3, <3>4, BootStep
         DEF TakeOver, BootWithoutMarkdown
    <3> QED
      BY <3>2, <3>5 DEF IInv
  <2> QED
    BY <1>4, <2>6, <2>7, <2>8
<1> QED
  BY <1>1, <1>2, <1>3, <1>4 DEF Boot

-----------------------------------------------------------------------------
(***************************************************************************)
(* Requests, the end of a process, and time.                               *)
(***************************************************************************)

(* A request is served between two stretches, and asks for a task that no run
   can be at work on: there is none yet, or it is in no status of a run. *)
LEMMA IdleTask ==
  ASSUME IInv, NEW p \in Procs, Serving(p),
         disk = None \/ mem[p].status \notin Interrupted
  PROVE  \A w \in Runs : ~Active(w)
<1> SUFFICES ASSUME NEW w \in Runs, Active(w) PROVE FALSE
  OBVIOUS
<1>1. /\ run[w].proc \in Servers /\ proc[run[w].proc] = "ready"
      /\ TaskOf(w) # None
  BY DEF IInv, Control, LiveRuns, Live, Active
<1>2. run[w].proc = p
  BY <1>1 DEF IInv, Control, OneServer, Up, Serving
<1>3. disk # None
  BY <1>1 DEF IInv, Control, MemoryOfTheLiving, TaskOf, Procs
<1>4. run[w].pc = "carding"
  BY <1>2, <1>3 DEF IInv, Control, RunFitsStatus, Active, ActivePC, TaskOf
<1>5. cpu = w
  BY <1>4 DEF IInv, Control, Uninterrupted, StretchPC
<1> QED
  BY <1>5, ConstantsAssumption DEF Serving

LEMMA RequestKeepsIInv ==
  ASSUME IInv, NEW p \in Procs,
         \/ StartAnalysis(p) \/ RetryAnalysis(p)
         \/ \E d \in Decisions : SubmitHumanReview(p, d)
  PROVE  IInv'
<1> USE DEF files
<1>1. Serving(p) /\ p \in Servers /\ Up(p)
  BY DEF StartAnalysis, RetryAnalysis, SubmitHumanReview, Serving, Up
<1>2. proc = [proc EXCEPT ![p] = "ready"]
  BY <1>1 DEF IInv, TypeOK, Serving
<1>3. "locking" \in ActivePC /\ "locking" \in PC
      /\ "start" \in Kinds /\ "retry" \in Kinds
  BY DEF ActivePC, WorkPC, PC, Kinds
<1>4. CASE StartAnalysis(p)
  <2> DEFINE t == [status |-> "uploading", progress |-> "working",
                   recovery |-> 0, analysis |-> None, review |-> None]
  <2>1. t \in Task /\ Fits("locking", t)
    BY DEF Task, Statuses, Interrupted, Progress, Fits
  <2>2. PICK w \in Runs : /\ run[w].pc = "unused"
                          /\ Spawn(w, p, "start", "locking") /\ cpu' = w
    BY <1>4 DEF StartAnalysis
  <2>3. SaveTask(p, t)
    BY <1>4 DEF StartAnalysis
  <2> HIDE DEF t
  <2>4. mem' = [mem EXCEPT ![p] = t] /\ disk' # None
    BY <2>1, <2>3, SaveTaskType, NullAssumption DEF IInv, SaveTask
  <2>5. run' \in [Runs -> [pc : PC, proc : Procs \cup {None},
                           kind : Kinds \cup {None}]]
    BY <1>3, <2>2, SpawnType DEF IInv
  <2>6. TypeOK'
    BY <1>4, <2>1, <2>2, <2>3, <2>5, SaveTaskType DEF IInv, TypeOK, StartAnalysis
  <2>7. \A v \in Runs : ~Active(v)
    BY <1>1, <1>4, IdleTask DEF StartAnalysis
  <2>8. Control'
    BY <1>1, <1>2, <1>3, <1>4, <2>1, <2>2, <2>4, <2>7, SpawnStep
       DEF StartAnalysis
  <2> QED
    BY <2>6, <2>8 DEF IInv
<1>5. CASE RetryAnalysis(p)
  <2> DEFINE t == [mem[p] EXCEPT !.status = "processing", !.progress = "working"]
  <2>1. t \in Task /\ Fits("locking", t)
    BY <1>5 DEF IInv, TypeOK, RetryAnalysis, Task, Statuses, Interrupted,
                Progress, Fits
  <2>2. PICK w \in Runs : /\ run[w].pc = "unused"
                          /\ Spawn(w, p, "retry", "locking") /\ cpu' = w
    BY <1>5 DEF RetryAnalysis
  <2>3. SaveTask(p, t)
    BY <1>5 DEF RetryAnalysis
  <2> HIDE DEF t
  <2>4. mem' = [mem EXCEPT ![p] = t] /\ disk' # None
    BY <2>1, <2>3, SaveTaskType, NullAssumption DEF IInv, SaveTask
  <2>5. run' \in [Runs -> [pc : PC, proc : Procs \cup {None},
                           kind : Kinds \cup {None}]]
    BY <1>3, <2>2, SpawnType DEF IInv
  <2>6. TypeOK'
    BY <1>5, <2>1, <2>2, <2>3, <2>5, SaveTaskType DEF IInv, TypeOK, RetryAnalysis
  <2>7. \A v \in Runs : ~Active(v)
    BY <1>1, <1>5, IdleTask DEF RetryAnalysis, Interrupted
  <2>8. Control'
    BY <1>1, <1>2, <1>3, <1>5, <2>1, <2>2, <2>4, <2>7, SpawnStep
       DEF RetryAnalysis
  <2> QED
    BY <2>6, <2>8 DEF IInv
<1>6. ASSUME NEW d \in Decisions, SubmitHumanReview(p, d)
      PROVE  IInv'
  <2> DEFINE t == [mem[p] EXCEPT !.status = d]
  <2>1. t \in Task
    BY <1>6 DEF IInv, TypeOK, SubmitHumanReview, Task, Statuses
  <2>2. SaveTask(p, t)
    BY <1>6 DEF SubmitHumanReview
  <2> HIDE DEF t
  <2>3. mem' = [mem EXCEPT ![p] = t] /\ disk' # None /\ t # None
    BY <2>1, <2>2, SaveTaskType, NullAssumption DEF IInv, SaveTask
  <2>4. TypeOK'
    BY <1>6, <2>1, <2>2, SaveTaskType DEF IInv, TypeOK, SubmitHumanReview
  <2>5. \A q \in Procs : q # p => mem'[q] = mem[q]
    BY <2>3 DEF IInv, TypeOK
  <2>6. mem'[p] # None
    BY <2>3 DEF IInv, TypeOK
  <2>7. \A w \in Runs : ~Active(w)
    BY <1>1, <1>6, IdleTask DEF SubmitHumanReview, Interrupted
  <2>8. OneServer' /\ MemoryOfTheLiving'
    BY <1>1, <1>6, <2>3, <2>5
       DEF IInv, Control, OneServer, MemoryOfTheLiving, Up, SubmitHumanReview
  <2>9. LiveRuns'
    BY <1>6, <2>5, <2>6
       DEF IInv, Control, LiveRuns, Live, TaskOf, Procs, SubmitHumanReview
  <2>10. Uninterrupted' /\ SingleActiveRun' /\ RunFitsStatus'
    BY <1>6, <2>7
       DEF IInv, Control, Uninterrupted, SingleActiveRun, RunFitsStatus, Active,
           SubmitHumanReview
  <2> QED
    BY <2>4, <2>8, <2>9, <2>10 DEF IInv, Control
<1> QED
  BY <1>4, <1>5, <1>6

LEMMA KillKeepsIInv ==
  ASSUME IInv, NEW p \in Procs, Crash(p) \/ Stop(p)
  PROVE  IInv'
<1> USE DEF files
<1>1. Kill(p)
  BY DEF Crash, Stop
<1>2. lock' \in [pid : {PidOf[q] : q \in Procs}, stale : BOOLEAN] \cup {None}
  BY LockType DEF IInv, Crash, Stop
<1>3. TypeOK'
  <2>1. /\ disk' \in Persisted \cup {None, Torn} /\ md' \in BOOLEAN
        /\ analysisFile' \in Analyses \cup {None, Torn}
        /\ reviewFile' \in Runs \cup {None, Torn}
    BY DEF IInv, TypeOK, Crash, Stop, TearState, TearAnalysis, TearReview
  <2> QED
    BY <1>1, <1>2, <2>1, KillType DEF IInv, TypeOK
<1>4. /\ ~Up(p)' /\ mem'[p] = None
      /\ \A q \in Procs : q # p => mem'[q] = mem[q] /\ proc'[q] = proc[q]
  BY <1>1 DEF IInv, TypeOK, Kill, Up
<1>5. \A q \in Procs : Up(q)' => Up(q)
  BY <1>4 DEF Up
<1>6. disk # None => disk' # None
  BY NullAssumption DEF Crash, Stop, TearState, TearAnalysis, TearReview
<1>7. OneServer' /\ MemoryOfTheLiving'
  BY <1>4, <1>5, <1>6 DEF IInv, Control, OneServer, MemoryOfTheLiving, Up, Procs
<1>8. \A w \in Runs : Live(w)' \/ Active(w)' \/ run'[w].pc \in StretchPC
        => run'[w] = run[w] /\ Live(w) /\ run[w].proc # p
  BY <1>1 DEF IInv, TypeOK, Kill, Live, Active, ActivePC, WorkPC, TailPC,
              StretchPC
<1>9. LiveRuns' /\ RunFitsStatus'
  BY <1>4, <1>8
     DEF IInv, Control, LiveRuns, RunFitsStatus, Live, Active, TaskOf, Procs
<1>10. SingleActiveRun'
  BY <1>8 DEF IInv, Control, SingleActiveRun, Active
<1>11. Uninterrupted'
  <2> SUFFICES ASSUME NEW w \in Runs, run'[w].pc \in StretchPC
               PROVE  cpu' = w
    BY DEF Uninterrupted
  <2>1. cpu = w /\ run[w].proc # p
    BY <1>8 DEF IInv, Control, Uninterrupted
  <2> QED
    BY <1>1, <2>1 DEF Kill, RunsOf
<1> QED
  BY <1>3, <1>7, <1>9, <1>10, <1>11 DEF IInv, Control

LEMMA InitIInv == Init => IInv
<1> SUFFICES ASSUME Init PROVE IInv
  OBVIOUS
<1>1. TypeOK
  BY ConstantsAssumption DEF Init, TypeOK, PC
<1>2. \A w \in Runs : ~Live(w) /\ ~Active(w) /\ run[w].pc \notin StretchPC
  BY DEF Init, Live, Active, ActivePC, WorkPC, TailPC, StretchPC
<1> QED
  BY <1>1, <1>2 DEF Init, IInv, Control, OneServer, MemoryOfTheLiving, LiveRuns,
                    Uninterrupted, SingleActiveRun, RunFitsStatus, Up, Procs

LEMMA InductiveIInv == IInv /\ [Next]_vars => IInv'
<1> SUFFICES ASSUME IInv, [Next]_vars PROVE IInv'
  OBVIOUS
<1>1. ASSUME NEW p \in Procs, Scan(p) \/ Boot(p) PROVE IInv'
  BY <1>1, BootKeepsIInv
<1>2. ASSUME NEW p \in Procs, Crash(p) \/ Stop(p) PROVE IInv'
  BY <1>2, KillKeepsIInv
<1>3. ASSUME NEW p \in Procs,
             \/ StartAnalysis(p) \/ RetryAnalysis(p)
             \/ \E d \in Decisions : SubmitHumanReview(p, d)
      PROVE  IInv'
  BY <1>3, RequestKeepsIInv
<1>4. ASSUME NEW w \in Runs, Step(w) \/ Fail(w) PROVE IInv'
  BY <1>4, WorkKeepsIInv, TailKeepsIInv DEF Step
<1>5. ASSUME Age \/ UNCHANGED vars PROVE IInv'
  <2> USE DEF Age, vars, files
  <2>1. TypeOK'
    BY <1>5 DEF IInv, TypeOK
  <2>2. Control'
    BY <1>5 DEF IInv, Control, OneServer, MemoryOfTheLiving, LiveRuns, Live,
                Uninterrupted, SingleActiveRun, RunFitsStatus, Active, TaskOf, Up
  <2> QED
    BY <2>1, <2>2 DEF IInv
<1> QED
  BY <1>1, <1>2, <1>3, <1>4, <1>5 DEF Next

LEMMA Invariance == Spec => []IInv
BY InitIInv, InductiveIInv, PTL DEF Spec

-----------------------------------------------------------------------------
(***************************************************************************)
(* What the task's users rely on.                                          *)
(***************************************************************************)

(* The processes, the task in memory and on disk, the files, the lock and the
   coroutines keep their types in every behaviour. *)
THEOREM TypeCorrect == Spec => []TypeOK
<1>1. IInv => TypeOK
  BY DEF IInv
<1> QED
  BY <1>1, Invariance, PTL

(* However often the server is restarted, whoever imports the service beside
   it and however long a run takes, start_analysis, retry_analysis and the
   recovery in __init__ never put two coroutines to work on one task: it does
   not take the run lock to see to that. *)
THEOREM OneRunAtWork == Spec => []SingleActiveRun
<1>1. IInv => SingleActiveRun
  BY DEF IInv, Control
<1> QED
  BY <1>1, Invariance, PTL

(* No verdict, retry, repair or failure changes the status of the task under
   the coroutine that is at work on it. *)
THEOREM WorkIsUndisturbed == Spec => []RunFitsStatus
<1>1. IInv => RunFitsStatus
  BY DEF IInv, Control
<1> QED
  BY <1>1, Invariance, PTL

-----------------------------------------------------------------------------
(***************************************************************************)
(* What a verdict rests on.  A status that asks for a verdict is written   *)
(* after the two results are in their files, and a restart reads all three *)
(* back, but for one that a crash has cut short; files are never removed,  *)
(* and written only by a run, so never under a status that asks for one.   *)
(***************************************************************************)
Judged == Decisions \cup {"pending_review"}

FilesFitStatus ==
  /\ reviewFile # None => analysisFile # None
  /\ disk \notin {None, Torn} /\ disk.status \in Judged
       => analysisFile # None /\ reviewFile # None

MemoryFitsFiles ==
  \A p \in Servers : mem[p] # None =>
    /\ proc[p] = "scanned" =>
         mem[p].analysis = Restored(analysisFile) /\ mem[p].review = Restored(reviewFile)
    /\ mem[p].status \in Judged =>
         /\ mem[p].analysis # None \/ analysisFile = Torn
         /\ mem[p].review # None \/ reviewFile = Torn
         /\ analysisFile # None /\ reviewFile # None

RunLeavesFiles ==
  \A w \in Runs :
    /\ run[w].pc \in {"designed", "review", "reviewed", "carding"}
         => analysisFile # None
    /\ run[w].pc \in {"review", "reviewed"} => TaskOf(w).analysis # None
    /\ run[w].pc \in {"reviewed", "carding"} => reviewFile # None

Evidence == FilesFitStatus /\ MemoryFitsFiles /\ RunLeavesFiles

(* Where a run is, its server is the only one that knows the task. *)
LEMMA OnlyTask ==
  ASSUME IInv, NEW w \in Runs, Live(w), NEW p \in Servers, mem[p] # None
  PROVE  p = run[w].proc /\ proc[p] = "ready"
BY LiveTask DEF IInv, Control, OneServer, MemoryOfTheLiving, Up, Procs

LEMMA StepOfLive ==
  ASSUME NEW w \in Runs, Step(w) \/ Fail(w)
  PROVE  Live(w)
<1>1. CASE Step(w)
  <2>1. run[w].pc \in {"locking", "ingest", "begin", "analyze", "scope", "design",
                       "designed", "review", "reviewed", "carding", "notify",
                       "failnotify"}
    BY <1>1 DEF Step, At, LaunchPipeline, LaunchRetry, RefuseRetry, Ingest, Begin,
         SaveDraft, AcceptDraft, SaveFinal, EnterReview, SaveReview, AwaitHuman,
         Notify, Complete, NotifyFailed
  <2> QED
    BY <2>1 DEF Live, ActivePC, WorkPC, TailPC
<1>2. CASE Fail(w)
  BY <1>2 DEF Fail, FailPipeline, FailRecovery, FailRetry, Raisable, Live
<1> QED
  BY <1>1, <1>2

LEMMA WorkKeepsEvidence ==
  ASSUME IInv, Evidence, NEW w \in Runs, Step(w) \/ Fail(w)
  PROVE  Evidence'
<1> DEFINE p == run[w].proc
           t == TaskOf(w)
<1> USE DEF files, At
<1>1. Live(w)
  BY StepOfLive
<1> USE DEF SetTask, SaveTask
<1>2. p \in Servers /\ p \in Procs /\ t \in Task /\ proc[p] = "ready" /\ t # None
  BY <1>1, LiveTask, NullAssumption DEF Procs
<1>3. \A q \in Servers : mem[q] # None => q = p
  BY <1>1, OnlyTask
<1>4. Active(w) => \A v \in Runs : v # w => ~Active(v)
  BY DEF IInv, Control, SingleActiveRun
<1>5. None \notin Analyses /\ None \notin Runs /\ None \notin Persisted
      /\ Torn \notin Persisted
  BY NullAssumption, ConstantsAssumption
<1>6. /\ analysisFile # None => analysisFile' # None
      /\ reviewFile # None => reviewFile' # None
      /\ proc' = proc
  <2>1. \/ UNCHANGED <<analysisFile, reviewFile>>
        \/ /\ \E final \in BOOLEAN : analysisFile' = [run |-> w, final |-> final]
           /\ UNCHANGED reviewFile
        \/ reviewFile' = w /\ UNCHANGED analysisFile
    BY DEF Step, LaunchPipeline, LaunchRetry, RefuseRetry, Ingest, Begin,
         SaveDraft, AcceptDraft, SaveFinal, EnterReview, SaveReview, AwaitHuman,
         Notify, Complete, NotifyFailed, Fail, FailPipeline, FailRecovery,
         FailRetry
  <2>2. \A final \in BOOLEAN : [run |-> w, final |-> final] # None
    BY <1>5 DEF Analyses
  <2>3. proc' = proc
    BY DEF Step, LaunchPipeline, LaunchRetry, RefuseRetry, Ingest, Begin,
         SaveDraft, AcceptDraft, SaveFinal, EnterReview, SaveReview, AwaitHuman,
         Notify, Complete, NotifyFailed, Fail, FailPipeline, FailRecovery,
         FailRetry
  <2> QED
    BY <1>5, <2>1, <2>2, <2>3
<1>7. \A v \in Runs : v # w => run'[v] = run[v]
  BY DEF IInv, TypeOK, Goto, Step, LaunchPipeline, LaunchRetry, RefuseRetry,
         Ingest, Begin, SaveDraft, AcceptDraft, SaveFinal, EnterReview,
         SaveReview, AwaitHuman, Notify, Complete, NotifyFailed, Fail,
         FailPipeline, FailRecovery, FailRetry
<1>8. run'[w].proc = p
  BY DEF IInv, TypeOK, Goto, Step, LaunchPipeline, LaunchRetry, RefuseRetry,
         Ingest, Begin, SaveDraft, AcceptDraft, SaveFinal, EnterReview,
         SaveReview, AwaitHuman, Notify, Complete, NotifyFailed, Fail,
         FailPipeline, FailRecovery, FailRetry
<1>9. CASE \/ LaunchPipeline(w) \/ LaunchRetry(w) \/ RefuseRetry(w)
           \/ SaveDraft(w) \/ SaveFinal(w) \/ SaveReview(w)
           \/ Notify(w) \/ NotifyFailed(w) \/ FailRecovery(w) \/ FailRetry(w)
  <2>1. mem' = mem /\ disk' = disk
    BY <1>9 DEF LaunchPipeline, LaunchRetry, RefuseRetry, SaveDraft, SaveFinal,
                SaveReview, Notify, NotifyFailed, FailRecovery, FailRetry
  <2>2. FilesFitStatus'
    BY <1>6, <1>9, <2>1
       DEF Evidence, FilesFitStatus, RunLeavesFiles, LaunchPipeline, LaunchRetry,
           RefuseRetry, SaveDraft, SaveFinal, SaveReview, Notify, NotifyFailed,
           FailRecovery, FailRetry
  <2>3. MemoryFitsFiles'
    <3>1. \/ UNCHANGED <<analysisFile, reviewFile>>
          \/ t.status \notin Judged
      <4>1. CASE SaveDraft(w) \/ SaveFinal(w) \/ SaveReview(w)
        BY <4>1 DEF SaveDraft, SaveFinal, SaveReview, IInv, Control, RunFitsStatus,
                    Active, ActivePC, WorkPC, Judged, Interrupted, Decisions
      <4>2. CASE ~(SaveDraft(w) \/ SaveFinal(w) \/ SaveReview(w))
        BY <1>9, <4>2 DEF LaunchPipeline, LaunchRetry, RefuseRetry, Notify,
                          NotifyFailed, FailRecovery, FailRetry
      <4> QED
        BY <4>1, <4>2
    <3> QED
      BY <1>2, <1>3, <1>6, <2>1, <3>1 DEF Evidence, MemoryFitsFiles, TaskOf
  <2>4. RunLeavesFiles'
    <3> SUFFICES ASSUME NEW v \in Runs
                 PROVE  /\ run'[v].pc \in {"designed", "review", "reviewed", "carding"}
                             => analysisFile' # None
                        /\ run'[v].pc \in {"review", "reviewed"}
                             => mem'[run'[v].proc].analysis # None
                        /\ run'[v].pc \in {"reviewed", "carding"}
                             => reviewFile' # None
      BY DEF RunLeavesFiles, TaskOf
    <3>1. CASE v # w
      BY <1>6, <1>7, <2>1, <3>1 DEF Evidence, RunLeavesFiles, TaskOf
    <3>2. CASE v = w
      <4>1. CASE SaveFinal(w)
        <5>1. analysisFile' # None /\ run'[w].pc = "designed"
          <6>1. [run |-> w, final |-> TRUE] \in Analyses
            BY DEF Analyses
          <6> QED
            BY <1>5, <4>1, <6>1 DEF IInv, TypeOK, Goto, SaveFinal
        <5> QED
          BY <3>2, <5>1
      <4>2. CASE SaveReview(w)
        <5>1. reviewFile' # None /\ run[w].pc = "review"
          BY <1>5, <4>2 DEF SaveReview
        <5> QED
          BY <1>6, <1>8, <2>1, <3>2, <5>1 DEF Evidence, RunLeavesFiles, TaskOf
      <4>3. CASE ~SaveFinal(w) /\ ~SaveReview(w)
        <5>1. run'[w].pc \in {"ingest", "begin", "refused", "scope", "notify",
                              "done", "error"}
          BY <1>9, <4>3
             DEF IInv, TypeOK, Goto, LaunchPipeline, LaunchRetry, RefuseRetry,
                 SaveDraft, Notify, NotifyFailed, FailRecovery, FailRetry
        <5> QED
          BY <3>2, <5>1
      <4> QED
        BY <4>1, <4>2, <4>3
    <3> QED
      BY <3>1, <3>2
  <2> QED
    BY <2>2, <2>3, <2>4 DEF Evidence
<1>10. CASE \/ Ingest(w) \/ Begin(w) \/ AcceptDraft(w) \/ EnterReview(w)
            \/ AwaitHuman(w) \/ Complete(w) \/ FailPipeline(w)
  <2> DEFINE npc == run'[w].pc
             Writes(u) ==
               /\ mem' = [mem EXCEPT ![p] = u] /\ disk' = ToPersisted(u)
               /\ u.review = t.review \/ (npc = "carding" /\ u.review # None)
               /\ u.analysis = t.analysis \/ (npc = "review" /\ u.analysis # None)
               /\ npc = "review" => u.analysis # None
               /\ u.status \in Judged =>
                    npc = "carding" \/ (npc = "done" /\ u.status = t.status)
               /\ npc = "carding" => run[w].pc = "reviewed" /\ u.review # None
               /\ npc \in {"begin", "analyze", "design", "review", "carding",
                           "done", "failnotify"}
  <2>1. \E u \in Task : Writes(u)
    <3>1. Active(w) /\ run[w].pc \in WorkPC => t.status \notin Judged
      BY DEF IInv, Control, RunFitsStatus, Judged, Interrupted, Decisions
    <3>2. [run |-> w, final |-> TRUE] \in Analyses
      BY DEF Analyses
    <3>3. CASE Ingest(w)
      <4> DEFINE u == t
      <4>1. u \in Task
            /\ u.status = t.status /\ u.review = t.review /\ u.analysis = t.analysis
        BY <1>2, <1>5, <3>2 DEF Task, Statuses, Interrupted, Progress
      <4>2. mem' = [mem EXCEPT ![p] = u] /\ disk' = ToPersisted(u)
        BY <3>3 DEF Ingest, IInv, TypeOK
      <4>3. npc = "begin"
        BY <3>3 DEF Ingest, IInv, TypeOK, Goto
      <4>4. t.status \notin Judged
        BY <3>1, <3>3 DEF Ingest, Active, ActivePC, WorkPC
      <4> HIDE DEF u
      <4> QED
        BY <4>1, <4>2, <4>3, <4>4
    <3>4. CASE Begin(w)
      <4> DEFINE u == [t EXCEPT !.progress = "working"]
      <4>1. u \in Task
            /\ u.status = t.status /\ u.review = t.review /\ u.analysis = t.analysis
        BY <1>2, <1>5, <3>2 DEF Task, Statuses, Interrupted, Progress
      <4>2. mem' = [mem EXCEPT ![p] = u] /\ disk' = ToPersisted(u)
        BY <3>4 DEF Begin
      <4>3. npc = "analyze"
        BY <3>4 DEF Begin, IInv, TypeOK, Goto
      <4>4. t.status \notin Judged
        BY <3>1, <3>4 DEF Begin, Active, ActivePC, WorkPC
      <4> HIDE DEF u
      <4> QED
        BY <4>1, <4>2, <4>3, <4>4
    <3>5. CASE AcceptDraft(w)
      <4> DEFINE u == [t EXCEPT !.progress = "working"]
      <4>1. u \in Task
            /\ u.status = t.status /\ u.review = t.review /\ u.analysis = t.analysis
        BY <1>2, <1>5, <3>2 DEF Task, Statuses, Interrupted, Progress
      <4>2. mem' = [mem EXCEPT ![p] = u] /\ disk' = ToPersisted(u)
        BY <3>5 DEF AcceptDraft
      <4>3. npc = "design"
        BY <3>5 DEF AcceptDraft, IInv, TypeOK, Goto
      <4>4. t.status \notin Judged
        BY <3>1, <3>5 DEF AcceptDraft, Active, ActivePC, WorkPC
      <4> HIDE DEF u
      <4> QED
        BY <4>1, <4>2, <4>3, <4>4
    <3>6. CASE EnterReview(w)
      <4> DEFINE u == [t EXCEPT !.status = "reviewing", !.progress = "working",
                                !.analysis = [run |-> w, final |-> TRUE]]
      <4>1. u \in Task
            /\ u.status = "reviewing" /\ u.review = t.review /\ u.analysis # None
        BY <1>2, <1>5, <3>2 DEF Task, Statuses, Interrupted, Progress
      <4>2. mem' = [mem EXCEPT ![p] = u] /\ disk' = ToPersisted(u)
        BY <3>6 DEF EnterReview
      <4>3. npc = "review"
        BY <3>6 DEF EnterReview, IInv, TypeOK, Goto
      <4>4. u.status \notin Judged
        BY <4>1 DEF Judged, Decisions
      <4> HIDE DEF u
      <4> QED
        BY <4>1, <4>2, <4>3, <4>4
    <3>7. CASE AwaitHuman(w)
      <4> DEFINE u == [t EXCEPT !.status = "pending_review",
                                !.progress = "reviewed", !.review = w]
      <4>1. u \in Task
            /\ u.review # None /\ u.analysis = t.analysis
        BY <1>2, <1>5, <3>2 DEF Task, Statuses, Interrupted, Progress
      <4>2. mem' = [mem EXCEPT ![p] = u] /\ disk' = ToPersisted(u)
        BY <3>7 DEF AwaitHuman
      <4>3. npc = "carding"
        BY <3>7 DEF AwaitHuman, IInv, TypeOK, Goto
      <4>4. run[w].pc = "reviewed"
        BY <3>7 DEF AwaitHuman
      <4> HIDE DEF u
      <4> QED
        BY <4>1, <4>2, <4>3, <4>4
    <3>8. CASE Complete(w)
      <4> DEFINE u == [t EXCEPT !.progress = "complete"]
      <4>1. u \in Task
            /\ u.status = t.status /\ u.review = t.review /\ u.analysis = t.analysis
        BY <1>2, <1>5, <3>2 DEF Task, Statuses, Interrupted, Progress
      <4>2. mem' = [mem EXCEPT ![p] = u] /\ disk' = ToPersisted(u)
        BY <3>8 DEF Complete
      <4>3. npc = "done"
        BY <3>8 DEF Complete, IInv, TypeOK, Goto
      <4> HIDE DEF u
      <4> QED
        BY <4>1, <4>2, <4>3
    <3>9. CASE FailPipeline(w)
      <4> DEFINE u == [t EXCEPT !.status = "failed"]
      <4>1. u \in Task
            /\ u.status = "failed" /\ u.review = t.review /\ u.analysis = t.analysis
        BY <1>2, <1>5, <3>2 DEF Task, Statuses, Interrupted, Progress
      <4>2. mem' = [mem EXCEPT ![p] = u] /\ disk' = ToPersisted(u)
        BY <3>9 DEF FailPipeline
      <4>3. npc = "failnotify"
        BY <3>9 DEF FailPipeline, IInv, TypeOK, Goto
      <4>4. u.status \notin Judged
        BY <4>1 DEF Judged, Decisions
      <4> HIDE DEF u
      <4> QED
        BY <4>1, <4>2, <4>3, <4>4
    <3> QED
      BY <1>10, <3>3, <3>4, <3>5, <3>6, <3>7, <3>8, <3>9
  <2>2. PICK u \in Task : Writes(u)
    BY <2>1
  <2>3. disk' \in Persisted /\ disk'.status = u.status
    BY <2>2 DEF ToPersisted, Task, Persisted
  <2>4. mem'[p] = u /\ \A q \in Procs : q # p => mem'[q] = mem[q]
    BY <1>2, <2>2 DEF IInv, TypeOK
  <2>5. /\ run[w].pc = "reviewed" =>
             analysisFile # None /\ reviewFile # None /\ t.analysis # None
        /\ t.status \in Judged =>
             /\ t.analysis # None \/ analysisFile = Torn
             /\ t.review # None \/ reviewFile = Torn
             /\ analysisFile # None /\ reviewFile # None
    BY <1>2 DEF Evidence, RunLeavesFiles, MemoryFitsFiles, TaskOf
  <2>6. reviewFile' = reviewFile /\ (npc # "design" => analysisFile' = analysisFile)
    BY <1>10 DEF Ingest, Begin, AcceptDraft, EnterReview, AwaitHuman, Complete,
                 FailPipeline, IInv, TypeOK, Goto
  <2>7. FilesFitStatus'
    BY <1>6, <2>2, <2>3, <2>5, <2>6 DEF Evidence, FilesFitStatus
  <2>8. MemoryFitsFiles'
    <3> SUFFICES ASSUME NEW q \in Servers, mem'[q] # None
                 PROVE  /\ proc'[q] # "scanned"
                        /\ mem'[q].status \in Judged =>
                             /\ mem'[q].analysis # None \/ analysisFile' = Torn
                             /\ mem'[q].review # None \/ reviewFile' = Torn
                             /\ analysisFile' # None /\ reviewFile' # None
      BY DEF MemoryFitsFiles
    <3>1. q = p
      BY <1>3, <2>4 DEF Procs
    <3> QED
      BY <1>2, <1>6, <2>2, <2>4, <2>5, <2>6, <3>1
  <2>9. RunLeavesFiles'
    <3> SUFFICES ASSUME NEW v \in Runs
                 PROVE  /\ run'[v].pc \in {"designed", "review", "reviewed", "carding"}
                             => analysisFile' # None
                        /\ run'[v].pc \in {"review", "reviewed"}
                             => mem'[run'[v].proc].analysis # None
                        /\ run'[v].pc \in {"reviewed", "carding"}
                             => reviewFile' # None
      BY DEF RunLeavesFiles, TaskOf
    <3>1. CASE v # w
      <4>1. run'[v] = run[v]
        BY <1>7, <3>1
      <4>2. run[v].pc \in {"review", "reviewed"} =>
              run[v].proc = p /\ t.analysis # None
        <5> SUFFICES ASSUME run[v].pc \in {"review", "reviewed"}
                     PROVE  run[v].proc = p /\ t.analysis # None
          OBVIOUS
        <5>1. Live(v)
          BY DEF Live, ActivePC, WorkPC
        <5>2. run[v].proc \in Servers /\ mem[run[v].proc] # None
          BY <5>1, LiveTask, NullAssumption DEF TaskOf
        <5> QED
          BY <1>3, <5>2 DEF Evidence, RunLeavesFiles, TaskOf
      <4>3. u.analysis # None \/ u.analysis = t.analysis
        BY <2>2
      <4> QED
        BY <1>6, <2>4, <4>1, <4>2, <4>3 DEF Evidence, RunLeavesFiles
    <3>2. CASE v = w
      <4>1. npc = "review" => analysisFile # None
        BY <1>10 DEF Evidence, RunLeavesFiles, IInv, TypeOK, Goto, Ingest, Begin,
                     AcceptDraft, EnterReview, AwaitHuman, Complete, FailPipeline
      <4> QED
        BY <1>6, <1>8, <2>2, <2>4, <2>5, <3>2, <4>1
    <3> QED
      BY <3>1, <3>2
  <2> QED
    BY <2>7, <2>8, <2>9 DEF Evidence
<1> QED
  BY <1>9, <1>10 DEF Step, Fail

(* A write to the task by a process that just started, or by a person. *)
LEMMA BootKeepsEvidence ==
  ASSUME IInv, Evidence, NEW p \in Procs, Scan(p) \/ Boot(p)
  PROVE  Evidence'
<1> USE DEF files
<1>1. UNCHANGED <<analysisFile, reviewFile>>
  BY DEF Scan, Boot, BootIdle, BootSkip, BootCorrect, BootGiveUp, BootRecover,
         BootWithoutLoop, BootWithoutMarkdown, TakeOver
<1>2. \A w \in Runs : Live(w) => run[w].proc # p /\ run[w].proc \in Procs
  BY DEF IInv, Control, LiveRuns, Procs, Scan, Boot, BootIdle, BootSkip,
         BootCorrect, BootGiveUp, BootRecover, BootWithoutLoop,
         BootWithoutMarkdown, TakeOver, Recoverable
<1>3. \A q \in Procs : q # p => mem'[q] = mem[q] /\ proc'[q] = proc[q]
  BY DEF IInv, TypeOK, SaveTask, Scan, Boot, BootIdle, BootSkip, BootCorrect,
         BootGiveUp, BootRecover, BootWithoutLoop, BootWithoutMarkdown
<1>4. \A w \in Runs : run'[w] = run[w] \/ run'[w].pc = "begin"
  BY DEF IInv, TypeOK, Spawn, Scan, Boot, BootIdle, BootSkip, BootCorrect,
         BootGiveUp, BootRecover, BootWithoutLoop, BootWithoutMarkdown, TakeOver
<1>5. RunLeavesFiles'
  <2> SUFFICES ASSUME NEW w \in Runs
               PROVE  /\ run'[w].pc \in {"designed", "review", "reviewed", "carding"}
                           => analysisFile' # None
                      /\ run'[w].pc \in {"review", "reviewed"}
                           => mem'[run'[w].proc].analysis # None
                      /\ run'[w].pc \in {"reviewed", "carding"}
                           => reviewFile' # None
    BY DEF RunLeavesFiles, TaskOf
  <2>1. CASE run'[w] = run[w]
    <3>1. run[w].pc \in {"review", "reviewed"} => Live(w)
      BY DEF Live, ActivePC, WorkPC
    <3> QED
      BY <1>1, <1>2, <1>3, <2>1, <3>1 DEF Evidence, RunLeavesFiles, TaskOf
  <2>2. CASE run'[w].pc = "begin"
    BY <2>2
  <2> QED
    BY <1>4, <2>1, <2>2
<1>6. CASE Scan(p)
  <2>1. disk' = disk /\ proc'[p] = "scanned"
    BY <1>6 DEF IInv, TypeOK, Scan
  <2>2. mem'[p] # None => /\ disk \notin {None, Torn}
                          /\ mem'[p].status = disk.status
                          /\ mem'[p].analysis = Restored(analysisFile)
                          /\ mem'[p].review = Restored(reviewFile)
    BY <1>6 DEF IInv, TypeOK, Scan
  <2> QED
    BY <1>1, <1>3, <1>5, <2>1, <2>2
       DEF Evidence, FilesFitStatus, MemoryFitsFiles, Restored, Procs
<1>7. CASE BootIdle(p) \/ BootSkip(p)
  BY <1>1, <1>3, <1>5, <1>7
     DEF IInv, TypeOK, BootIdle, BootSkip, Evidence, FilesFitStatus,
         MemoryFitsFiles, Restored, Procs
<1>8. CASE BootCorrect(p) \/ BootGiveUp(p)
  <2>1. mem[p] \in Task /\ proc[p] = "scanned"
    BY <1>8 DEF IInv, TypeOK, BootCorrect, BootGiveUp, Recoverable, IsInterrupted
  <2>2. PICK t \in Task :
          /\ SaveTask(p, t)
          /\ t.analysis = mem[p].analysis /\ t.review = mem[p].review
          /\ t.status \in Judged => reviewFile # None
    <3>1. CASE BootCorrect(p)
      <4> DEFINE u == [mem[p] EXCEPT !.status = "pending_review",
                                     !.progress = "reviewed"]
      <4>1. u \in Task /\ u.analysis = mem[p].analysis /\ u.review = mem[p].review
        BY <2>1 DEF Task, Statuses, Progress
      <4> QED
        BY <3>1, <4>1 DEF BootCorrect
    <3>2. CASE BootGiveUp(p)
      <4> DEFINE u == [mem[p] EXCEPT !.status = "failed"]
      <4>1. u \in Task /\ u.analysis = mem[p].analysis /\ u.review = mem[p].review
            /\ u.status = "failed"
        BY <2>1 DEF Task, Statuses
      <4>2. u.status \notin Judged
        BY <4>1 DEF Judged, Decisions
      <4> QED
        BY <3>2, <4>1, <4>2 DEF BootGiveUp
    <3> QED
      BY <1>8, <3>1, <3>2
  <2>3. /\ mem'[p] = t /\ disk' \in Persisted /\ disk'.status = t.status
        /\ proc'[p] = "ready"
    BY <1>8, <2>2 DEF IInv, TypeOK, SaveTask, ToPersisted, Task, Persisted,
                      BootCorrect, BootGiveUp
  <2>4. p \in Servers => /\ t.analysis = Restored(analysisFile)
                        /\ t.review = Restored(reviewFile)
    BY <2>1, <2>2, NullAssumption DEF Evidence, MemoryFitsFiles
  <2>5. FilesFitStatus'
    BY <1>1, <2>2, <2>3 DEF Evidence, FilesFitStatus
  <2>6. MemoryFitsFiles'
    BY <1>1, <1>3, <2>2, <2>3, <2>4
       DEF Evidence, FilesFitStatus, MemoryFitsFiles, Restored, Procs
  <2> QED
    BY <1>5, <2>5, <2>6 DEF Evidence
<1>9. CASE BootRecover(p) \/ BootWithoutLoop(p) \/ BootWithoutMarkdown(p)
  <2> DEFINE t == [mem[p] EXCEPT !.recovery = @ + 1]
  <2>1. TakeOver(p)
    BY <1>9 DEF BootRecover, BootWithoutLoop, BootWithoutMarkdown
  <2>2. mem[p] \in Task /\ mem[p].status \in Interrupted
    BY <2>1 DEF IInv, TypeOK, TakeOver, Recoverable, IsInterrupted
  <2>3. t \in Task /\ t.status = mem[p].status /\ t.status \notin Judged
    BY <2>2 DEF Task, Judged, Interrupted, Decisions
  <2>4. disk' \in Persisted /\ disk'.status \notin Judged
    BY <2>1, <2>3 DEF TakeOver, ToPersisted, Task, Persisted
  <2>5. mem'[p] = None \/ (mem'[p] = t /\ proc'[p] = "ready")
    BY <1>9 DEF IInv, TypeOK, BootRecover, BootWithoutLoop, BootWithoutMarkdown
  <2> HIDE DEF t
  <2>6. FilesFitStatus'
    BY <1>1, <2>4 DEF Evidence, FilesFitStatus
  <2>7. MemoryFitsFiles'
    BY <1>1, <1>3, <2>3, <2>5 DEF Evidence, MemoryFitsFiles, Procs
  <2> QED
    BY <1>5, <2>6, <2>7 DEF Evidence
<1> QED
  BY <1>6, <1>7, <1>8, <1>9 DEF Boot

LEMMA RequestKeepsEvidence ==
  ASSUME IInv, Evidence, NEW p \in Procs,
         \/ StartAnalysis(p) \/ RetryAnalysis(p)
         \/ \E d \in Decisions : SubmitHumanReview(p, d)
  PROVE  Evidence'
<1> USE DEF files
<1>1. UNCHANGED <<analysisFile, reviewFile, proc>>
  BY DEF StartAnalysis, RetryAnalysis, SubmitHumanReview
<1>2. p \in Servers /\ proc[p] = "ready"
  BY DEF StartAnalysis, RetryAnalysis, SubmitHumanReview, Serving
<1>3. PICK t \in Task :
        /\ SaveTask(p, t)
        /\ t.status \in Judged =>
             /\ mem[p] # None /\ mem[p].status = "pending_review"
             /\ t.analysis = mem[p].analysis /\ t.review = mem[p].review
        /\ mem[p] # None /\ disk # None =>
             t.analysis = mem[p].analysis /\ t.review = mem[p].review
  <2>1. CASE StartAnalysis(p)
    <3> DEFINE u == [status |-> "uploading", progress |-> "working",
                     recovery |-> 0, analysis |-> None, review |-> None]
    <3>1. u \in Task /\ u.status \notin Judged
      BY DEF Task, Statuses, Interrupted, Progress, Judged, Decisions
    <3> QED
      BY <2>1, <3>1 DEF StartAnalysis
  <2>2. CASE RetryAnalysis(p)
    <3> DEFINE u == [mem[p] EXCEPT !.status = "processing", !.progress = "working"]
    <3>1. u \in Task /\ u.analysis = mem[p].analysis /\ u.review = mem[p].review
          /\ u.status = "processing"
      BY <2>2 DEF IInv, TypeOK, RetryAnalysis, Task, Statuses, Interrupted, Progress
    <3>2. u.status \notin Judged
      BY <3>1 DEF Judged, Decisions
    <3> QED
      BY <2>2, <3>1, <3>2 DEF RetryAnalysis
  <2>3. ASSUME NEW d \in Decisions, SubmitHumanReview(p, d)
        PROVE  \E u \in Task :
                 /\ SaveTask(p, u)
                 /\ mem[p] # None /\ mem[p].status = "pending_review"
                 /\ u.analysis = mem[p].analysis /\ u.review = mem[p].review
    <3> DEFINE u == [mem[p] EXCEPT !.status = d]
    <3>1. u \in Task /\ u.analysis = mem[p].analysis /\ u.review = mem[p].review
      BY <2>3 DEF IInv, TypeOK, SubmitHumanReview, Task, Statuses
    <3> QED
      BY <2>3, <3>1 DEF SubmitHumanReview
  <2> QED
    BY <2>1, <2>2, <2>3
<1>4. /\ disk' \in Persisted /\ disk'.status = t.status
      /\ mem'[p] = t /\ \A q \in Procs : q # p => mem'[q] = mem[q]
  BY <1>3 DEF IInv, TypeOK, SaveTask, ToPersisted, Task, Persisted
<1>5. t.status \in Judged => /\ analysisFile # None /\ reviewFile # None
                             /\ t.analysis # None \/ analysisFile = Torn
                             /\ t.review # None \/ reviewFile = Torn
  BY <1>2, <1>3 DEF Evidence, MemoryFitsFiles, Judged
<1>6. FilesFitStatus' /\ MemoryFitsFiles'
  BY <1>1, <1>2, <1>4, <1>5 DEF Evidence, FilesFitStatus, MemoryFitsFiles, Procs
<1>7. RunLeavesFiles'
  <2>1. \A w \in Runs : ~Active(w)
    BY IdleTask DEF StartAnalysis, RetryAnalysis, SubmitHumanReview, Interrupted
  <2>2. \A w \in Runs : run'[w] = run[w] \/ run'[w].pc = "locking"
    <3>1. ASSUME NEW v \in Runs, NEW kind, Spawn(v, p, kind, "locking")
          PROVE  \A w \in Runs : run'[w] = run[w] \/ run'[w].pc = "locking"
      BY <3>1 DEF IInv, TypeOK, Spawn
    <3> QED
      BY <3>1 DEF StartAnalysis, RetryAnalysis, SubmitHumanReview
  <2>3. \A w \in Runs : run'[w].pc \notin {"designed", "review", "reviewed", "carding"}
    BY <2>1, <2>2 DEF Active, ActivePC, WorkPC
  <2> QED
    BY <2>3 DEF RunLeavesFiles
<1> QED
  BY <1>6, <1>7 DEF Evidence

LEMMA KillKeepsEvidence ==
  ASSUME IInv, Evidence, NEW p \in Procs, Crash(p) \/ Stop(p)
  PROVE  Evidence'
<1> USE DEF files
<1>1. Kill(p)
  BY DEF Crash, Stop
<1>2. disk' = disk \/ disk' = Torn
  BY DEF Crash, Stop, TearState, TearAnalysis, TearReview
<1>3. mem'[p] = None /\ \A q \in Procs : q # p => mem'[q] = mem[q] /\ proc'[q] = proc[q]
  BY <1>1 DEF IInv, TypeOK, Kill
<1>4. \A w \in Runs : run'[w].pc \in {"designed", "review", "reviewed", "carding"}
        => run'[w] = run[w] /\ run[w].proc # p /\ Live(w)
  BY <1>1 DEF IInv, TypeOK, Kill, Live, ActivePC, WorkPC
<1>5. \/ UNCHANGED <<analysisFile, reviewFile>>
      \/ TearAnalysis(p) \/ TearReview(p)
  BY DEF Crash, Stop, TearState
<1>6. CASE UNCHANGED <<analysisFile, reviewFile>>
  <2>1. FilesFitStatus' /\ MemoryFitsFiles'
    BY <1>2, <1>3, <1>6 DEF Evidence, FilesFitStatus, MemoryFitsFiles, Restored, Procs
  <2>2. RunLeavesFiles'
    BY <1>3, <1>4, <1>6, LiveTask DEF Evidence, RunLeavesFiles, TaskOf, Procs
  <2> QED
    BY <2>1, <2>2 DEF Evidence
<1>7. CASE TearAnalysis(p) \/ TearReview(p)
  <2>1. PICK w \in Runs :
          /\ run[w].proc = p /\ run[w].pc \in {"analyze", "scope", "design", "review"}
          /\ TearReview(p) => run[w].pc = "review"
    BY <1>7 DEF TearAnalysis, TearReview, MaySaveAnalysis, MaySaveReview, RunsOf
  <2>2. \A q \in Servers : mem'[q] = None
    <3>1. Live(w)
      BY <2>1 DEF Live, ActivePC, WorkPC
    <3> QED
      BY <1>3, <2>1, <3>1, OnlyTask DEF Procs
  <2>3. /\ analysisFile # None => analysisFile' # None
        /\ reviewFile # None => reviewFile' # None
        /\ reviewFile' # None => analysisFile' # None
    BY <1>7, <2>1, NullAssumption
       DEF TearAnalysis, TearReview, Evidence, FilesFitStatus, RunLeavesFiles
  <2>4. FilesFitStatus' /\ MemoryFitsFiles'
    BY <1>2, <2>2, <2>3 DEF Evidence, FilesFitStatus, MemoryFitsFiles
  <2>5. ASSUME NEW v \in Runs, run'[v].pc \in {"designed", "review", "reviewed", "carding"}
        PROVE  FALSE
    <3>1. Live(v) /\ run[v].proc # p
      BY <1>4, <2>5
    <3>2. run[v].proc \in Servers /\ mem[run[v].proc] # None
      BY <3>1, LiveTask, NullAssumption DEF TaskOf
    <3>3. run[v].proc \in Procs /\ mem'[run[v].proc] = mem[run[v].proc]
      BY <1>3, <3>1, <3>2 DEF Procs
    <3> QED
      BY <2>2, <3>2, <3>3
  <2>6. RunLeavesFiles'
    BY <2>5 DEF RunLeavesFiles
  <2> QED
    BY <2>4, <2>6 DEF Evidence
<1> QED
  BY <1>5, <1>6, <1>7

LEMMA InductiveEvidence == IInv /\ Evidence /\ [Next]_vars => Evidence'
<1> SUFFICES ASSUME IInv, Evidence, [Next]_vars PROVE Evidence'
  OBVIOUS
<1>1. ASSUME Age \/ UNCHANGED vars PROVE Evidence'
  BY <1>1 DEF Age, vars, files, Evidence, FilesFitStatus, MemoryFitsFiles,
              RunLeavesFiles, TaskOf
<1> QED
  BY <1>1, WorkKeepsEvidence, BootKeepsEvidence, RequestKeepsEvidence,
     KillKeepsEvidence DEF Next

(* A person who is asked for a verdict, or has given one, can be shown an
   analysis and a review, also after any number of crashes and restarts: the
   order in which a run saves its two files and the status sees to it.  The
   one of which a crash has cut the file short is missing. *)
THEOREM VerdictsHaveReviews == Spec => []VerdictHasReview
<1>1. Init => Evidence
  BY DEF Init, Evidence, FilesFitStatus, MemoryFitsFiles, RunLeavesFiles, Procs
<1>2. Evidence => VerdictHasReview
  BY DEF Evidence, MemoryFitsFiles, VerdictHasReview, Judged
<1>3. IInv /\ Evidence /\ [Next]_vars => Evidence'
  BY InductiveEvidence
<1> QED
  BY <1>1, <1>2, <1>3, Invariance, PTL DEF Spec

-----------------------------------------------------------------------------
(***************************************************************************)
(* The disk and the memory of a server that is alone on the machine.       *)
(***************************************************************************)
ShownIsSaved ==
  \A p \in Servers : mem[p] # None => disk = ToPersisted(mem[p])

LEMMA InductiveShown ==
  ASSUME Tools = {}, IInv, ShownIsSaved, [Next]_vars
  PROVE  ShownIsSaved'
<1> USE DEF files
<1>1. \A p \in Servers, q \in Servers :
        mem[p] # None /\ Up(q) => p = q
  BY DEF IInv, Control, MemoryOfTheLiving, OneServer, Procs
<1>2. Procs = Servers
  BY DEF Procs
<1>3. ASSUME NEW p \in Procs, NEW t, SaveTask(p, t), Up(p) PROVE ShownIsSaved'
  BY <1>1, <1>2, <1>3 DEF IInv, TypeOK, SaveTask, ShownIsSaved
<1>4. ASSUME NEW w \in Runs, Step(w) \/ Fail(w) PROVE ShownIsSaved'
  <2>1. Up(run[w].proc) /\ run[w].proc \in Procs
    BY <1>4, StepOfLive, LiveTask DEF Up, Procs
  <2>2. UNCHANGED <<mem, disk>> \/ \E t : SaveTask(run[w].proc, t)
    BY <1>4 DEF Step, Fail, LaunchPipeline, LaunchRetry, RefuseRetry, Ingest,
         Begin, SaveDraft, AcceptDraft, SaveFinal, EnterReview, SaveReview,
         AwaitHuman, Notify, Complete, NotifyFailed, FailPipeline, FailRecovery,
         FailRetry, SetTask
  <2> QED
    BY <1>3, <2>1, <2>2 DEF ShownIsSaved
<1>5. ASSUME NEW p \in Procs, Scan(p) PROVE ShownIsSaved'
  <2>1. \A q \in Servers : q # p => mem'[q] = mem[q]
    BY <1>2, <1>5 DEF IInv, TypeOK, Scan
  <2>2. mem'[p] # None => disk = ToPersisted(mem'[p])
    BY <1>2, <1>5 DEF IInv, TypeOK, Scan, ToPersisted, Persisted
  <2> QED
    BY <1>5, <2>1, <2>2 DEF ShownIsSaved, Scan
<1>6. ASSUME NEW p \in Procs, Boot(p) PROVE ShownIsSaved'
  <2>1. Up(p)
    BY <1>6 DEF Up, Boot, BootIdle, BootCorrect, BootGiveUp, BootSkip, BootRecover,
                BootWithoutLoop, BootWithoutMarkdown, TakeOver, Recoverable
  <2>2. CASE BootRecover(p) \/ BootWithoutMarkdown(p)
    <3>1. mem' = [mem EXCEPT ![p].recovery = @ + 1]
          /\ disk' = ToPersisted([mem[p] EXCEPT !.recovery = @ + 1])
      BY <2>2 DEF BootRecover, BootWithoutMarkdown, TakeOver
    <3>2. mem' = [mem EXCEPT ![p] = [mem[p] EXCEPT !.recovery = @ + 1]]
      BY <3>1 DEF IInv, TypeOK
    <3> QED
      BY <1>3, <2>1, <3>1, <3>2 DEF SaveTask
  <2>3. CASE BootIdle(p) \/ BootSkip(p)
    BY <2>3 DEF BootIdle, BootSkip, ShownIsSaved
  <2>4. CASE BootCorrect(p) \/ BootGiveUp(p)
    BY <1>3, <2>1, <2>4 DEF BootCorrect, BootGiveUp
  <2> QED
    BY <1>6, <2>2, <2>3, <2>4 DEF Boot, BootWithoutLoop
<1>7. ASSUME NEW p \in Procs,
             \/ StartAnalysis(p) \/ RetryAnalysis(p)
             \/ \E d \in Decisions : SubmitHumanReview(p, d)
      PROVE  ShownIsSaved'
  <2>1. Up(p) /\ \E t : SaveTask(p, t)
    BY <1>7 DEF StartAnalysis, RetryAnalysis, SubmitHumanReview, Serving, Up
  <2> QED
    BY <1>3, <2>1
<1>8. ASSUME NEW p \in Procs, Crash(p) \/ Stop(p) PROVE ShownIsSaved'
  <2>1. Up(p) /\ Kill(p)
    BY <1>8 DEF Crash, Stop
  <2> QED
    BY <1>1, <1>2, <2>1 DEF IInv, TypeOK, Kill, ShownIsSaved
<1>9. ASSUME Age \/ UNCHANGED vars PROVE ShownIsSaved'
  BY <1>9 DEF Age, vars, ShownIsSaved
<1> QED
  BY <1>4, <1>5, <1>6, <1>7, <1>8, <1>9 DEF Next

(* As long as no script imports the service beside it, a server never shows a
   status that a restart would not find: every assignment to the task is saved
   before the coroutine awaits. *)
THEOREM NothingStaysInMemory ==
  ASSUME Tools = {}
  PROVE  Spec => []DiskMatchesMemory
<1>1. Init => ShownIsSaved
  BY DEF Init, ShownIsSaved, Procs
<1>2. IInv /\ ShownIsSaved /\ [Next]_vars => ShownIsSaved'
  BY InductiveShown
<1>3. ShownIsSaved => DiskMatchesMemory
  BY DEF ShownIsSaved, DiskMatchesMemory
<1> QED
  BY <1>1, <1>2, <1>3, Invariance, PTL DEF Spec

-----------------------------------------------------------------------------
(***************************************************************************)
(* The life of the durable task.  Knowing that memory and disk agree, every*)
(* write to the disk is one of a few: the table below has one line each.   *)
(***************************************************************************)
Keeps(from, to) == disk.status \in from /\ disk'.status \in to
                   /\ disk'.recovery = disk.recovery

Written ==
  \/ disk = None /\ disk'.status = "uploading" /\ disk'.recovery = 0
  \/ /\ disk \in Persisted
     /\ \/ disk'.status = disk.status /\ disk'.recovery = disk.recovery
        \/ Keeps(Interrupted, Interrupted \cup {"pending_review", "failed"})
        \/ Keeps({"pending_review"}, Decisions \cup {"failed"})
        \/ Keeps({"rejected", "failed"}, Interrupted)
        \/ /\ disk.status \in Interrupted /\ disk'.status = disk.status
           /\ disk.recovery < MaxRecovery
           /\ disk'.recovery = disk.recovery + 1

LEMMA DiskStep ==
  ASSUME Tools = {}, IInv, ShownIsSaved, [Next]_vars
  PROVE  disk' = disk \/ disk' = Torn \/ (disk' \in Persisted /\ Written)
<1> USE DEF files
<1> DEFINE Done == disk' = disk \/ disk' = Torn \/ (disk' \in Persisted /\ Written)
<1>1. Procs = Servers
  BY DEF Procs
<1>2. ASSUME NEW p \in Procs, mem[p] # None
      PROVE  /\ mem[p] \in Task /\ disk \in Persisted
             /\ disk.status = mem[p].status /\ disk.recovery = mem[p].recovery
  BY <1>1, <1>2 DEF IInv, TypeOK, ShownIsSaved, ToPersisted, Task, Persisted
<1>3. ASSUME NEW t \in Task, disk' = ToPersisted(t)
      PROVE  /\ disk' \in Persisted
             /\ disk'.status = t.status /\ disk'.recovery = t.recovery
  BY <1>3 DEF ToPersisted, Task, Persisted
<1>4. ASSUME NEW w \in Runs, Step(w) \/ Fail(w) PROVE Done
  <2> DEFINE t == TaskOf(w)
             p == run[w].proc
  <2> USE DEF SetTask, SaveTask
  <2>1. p \in Procs /\ t # None /\ mem[p] = t /\ t \in Task
    BY <1>4, StepOfLive, LiveTask, NullAssumption DEF Procs, TaskOf
  <2>2. /\ disk \in Persisted
        /\ disk.status = t.status /\ disk.recovery = t.recovery
    BY <1>2, <2>1
  <2>3. CASE Ingest(w)
    BY <1>3, <2>1, <2>2, <2>3 DEF Ingest, Written, t
  <2>4. CASE Begin(w) \/ AcceptDraft(w) \/ Complete(w)
    <3>1. /\ [t EXCEPT !.progress = "working"] \in Task
          /\ [t EXCEPT !.progress = "complete"] \in Task
          /\ [t EXCEPT !.progress = "working"].status = t.status
          /\ [t EXCEPT !.progress = "complete"].status = t.status
          /\ [t EXCEPT !.progress = "working"].recovery = t.recovery
          /\ [t EXCEPT !.progress = "complete"].recovery = t.recovery
      BY <2>1 DEF Task, Progress
    <3> QED
      BY <1>3, <2>2, <2>4, <3>1 DEF Begin, AcceptDraft, Complete, Written
  <2>5. CASE EnterReview(w)
    <3> DEFINE u == [t EXCEPT !.status = "reviewing", !.progress = "working",
                              !.analysis = [run |-> w, final |-> TRUE]]
    <3>1. u \in Task /\ u.status = "reviewing" /\ u.recovery = t.recovery
      <4>1. [run |-> w, final |-> TRUE] \in Analyses
        BY DEF Analyses
      <4> QED
        BY <2>1, <4>1 DEF Task, Statuses, Interrupted, Progress
    <3>2. disk' = ToPersisted(u)
      BY <2>5 DEF EnterReview
    <3>3. t.status \in Interrupted
      BY <2>5 DEF IInv, Control, RunFitsStatus, EnterReview, At, Active,
                  ActivePC, WorkPC
    <3> HIDE DEF u
    <3> QED
      BY <1>3, <2>2, <3>1, <3>2, <3>3 DEF Written, Keeps, Interrupted
  <2>6. CASE AwaitHuman(w)
    <3> DEFINE u == [t EXCEPT !.status = "pending_review",
                              !.progress = "reviewed", !.review = w]
    <3>1. u \in Task /\ u.status = "pending_review" /\ u.recovery = t.recovery
      BY <2>1 DEF Task, Statuses, Progress
    <3>2. disk' = ToPersisted(u)
      BY <2>6 DEF AwaitHuman
    <3>3. t.status \in Interrupted
      BY <2>6 DEF IInv, Control, RunFitsStatus, AwaitHuman, At, Active,
                  ActivePC, WorkPC
    <3> HIDE DEF u
    <3> QED
      BY <1>3, <2>2, <3>1, <3>2, <3>3 DEF Written, Keeps
  <2>7. CASE FailPipeline(w)
    <3> DEFINE u == [t EXCEPT !.status = "failed"]
    <3>1. u \in Task /\ u.status = "failed" /\ u.recovery = t.recovery
      BY <2>1 DEF Task, Statuses
    <3>2. disk' = ToPersisted(u)
      BY <2>7 DEF FailPipeline
    <3>3. t.status \in Interrupted \cup {"pending_review"}
      BY <2>7 DEF IInv, Control, RunFitsStatus, FailPipeline, Raisable, Active,
                  ActivePC
    <3> HIDE DEF u
    <3> QED
      BY <1>3, <2>2, <3>1, <3>2, <3>3 DEF Written, Keeps
  <2>8. CASE \/ LaunchPipeline(w) \/ LaunchRetry(w) \/ RefuseRetry(w)
             \/ SaveDraft(w) \/ SaveFinal(w) \/ SaveReview(w)
             \/ Notify(w) \/ NotifyFailed(w) \/ FailRecovery(w) \/ FailRetry(w)
    BY <2>8 DEF LaunchPipeline, LaunchRetry, RefuseRetry, SaveDraft, SaveFinal,
                SaveReview, Notify, NotifyFailed, FailRecovery, FailRetry
  <2> QED
    BY <1>4, <2>3, <2>4, <2>5, <2>6, <2>7, <2>8 DEF Step, Fail
<1>5. ASSUME NEW p \in Procs, Boot(p), ~BootIdle(p), ~BootSkip(p) PROVE Done
  <2>1. mem[p] # None /\ mem[p].status \in Interrupted
    BY <1>5 DEF Boot, BootCorrect, BootGiveUp, BootRecover, BootWithoutLoop,
                BootWithoutMarkdown, TakeOver, Recoverable, IsInterrupted
  <2>2. PICK t \in Task :
          /\ disk' = ToPersisted(t)
          /\ \/ t.status \in {"pending_review", "failed"} /\ t.recovery = mem[p].recovery
             \/ /\ t.status = mem[p].status /\ t.recovery = mem[p].recovery + 1
                /\ mem[p].recovery < MaxRecovery
    <3>1. CASE BootCorrect(p)
      <4> DEFINE u == [mem[p] EXCEPT !.status = "pending_review",
                                     !.progress = "reviewed"]
      <4>1. u \in Task /\ u.status = "pending_review" /\ u.recovery = mem[p].recovery
        BY <1>2, <2>1 DEF Task, Statuses, Progress
      <4> QED
        BY <3>1, <4>1 DEF BootCorrect, SaveTask
    <3>2. CASE BootGiveUp(p)
      <4> DEFINE u == [mem[p] EXCEPT !.status = "failed"]
      <4>1. u \in Task /\ u.status = "failed" /\ u.recovery = mem[p].recovery
        BY <1>2, <2>1 DEF Task, Statuses
      <4> QED
        BY <3>2, <4>1 DEF BootGiveUp, SaveTask
    <3>3. CASE BootRecover(p) \/ BootWithoutLoop(p) \/ BootWithoutMarkdown(p)
      <4> DEFINE u == [mem[p] EXCEPT !.recovery = @ + 1]
      <4>1. TakeOver(p)
        BY <3>3 DEF BootRecover, BootWithoutLoop, BootWithoutMarkdown
      <4>2. u \in Task /\ u.status = mem[p].status
            /\ u.recovery = mem[p].recovery + 1
        BY <1>2, <2>1 DEF Task
      <4> QED
        BY <4>1, <4>2 DEF TakeOver
    <3> QED
      BY <1>5, <3>1, <3>2, <3>3 DEF Boot
  <2>3. /\ disk \in Persisted
        /\ disk.status = mem[p].status /\ disk.recovery = mem[p].recovery
    BY <1>2, <2>1
  <2>4. /\ disk' \in Persisted
        /\ disk'.status = t.status /\ disk'.recovery = t.recovery
    BY <1>3, <2>2
  <2>5. CASE t.status \in {"pending_review", "failed"}
             /\ t.recovery = mem[p].recovery
    BY <2>1, <2>3, <2>4, <2>5 DEF Written, Keeps
  <2>6. CASE /\ t.status = mem[p].status /\ t.recovery = mem[p].recovery + 1
             /\ mem[p].recovery < MaxRecovery
    BY <2>1, <2>3, <2>4, <2>6 DEF Written
  <2> QED
    BY <2>2, <2>5, <2>6
<1>6. ASSUME NEW p \in Procs, StartAnalysis(p) PROVE Done
  <2> DEFINE u == [status |-> "uploading", progress |-> "working",
                   recovery |-> 0, analysis |-> None, review |-> None]
  <2>1. u \in Task
    BY DEF Task, Statuses, Interrupted, Progress
  <2>2. disk = None /\ disk' = ToPersisted(u)
    BY <1>6 DEF StartAnalysis, SaveTask
  <2> QED
    BY <1>3, <2>1, <2>2 DEF Written
<1>7. ASSUME NEW p \in Procs, RetryAnalysis(p) PROVE Done
  <2> DEFINE u == [mem[p] EXCEPT !.status = "processing", !.progress = "working"]
  <2>1. mem[p] # None /\ mem[p].status \in {"rejected", "failed"}
        /\ disk' = ToPersisted(u)
    BY <1>7 DEF RetryAnalysis, SaveTask
  <2>2. u \in Task /\ u.status = "processing" /\ u.recovery = mem[p].recovery
    BY <1>2, <2>1 DEF Task, Statuses, Interrupted, Progress
  <2>3. disk \in Persisted /\ disk.status = mem[p].status
        /\ disk.recovery = mem[p].recovery
    BY <1>2, <2>1
  <2> HIDE DEF u
  <2> QED
    BY <1>3, <2>1, <2>2, <2>3 DEF Written, Keeps, Interrupted
<1>8. ASSUME NEW p \in Procs, NEW d \in Decisions, SubmitHumanReview(p, d)
      PROVE  Done
  <2> DEFINE u == [mem[p] EXCEPT !.status = d]
  <2>1. mem[p] # None /\ mem[p].status = "pending_review"
        /\ disk' = ToPersisted(u)
    BY <1>8 DEF SubmitHumanReview, SaveTask
  <2>2. u \in Task /\ u.status = d /\ u.recovery = mem[p].recovery
    BY <1>2, <2>1 DEF Task, Statuses
  <2>3. disk \in Persisted /\ disk.status = mem[p].status
        /\ disk.recovery = mem[p].recovery
    BY <1>2, <2>1
  <2> HIDE DEF u
  <2> QED
    BY <1>3, <2>1, <2>2, <2>3 DEF Written, Keeps
<1>9. ASSUME \/ Age \/ UNCHANGED vars
             \/ \E p \in Procs :
                  Scan(p) \/ BootIdle(p) \/ BootSkip(p) \/ Crash(p) \/ Stop(p)
      PROVE  Done
  BY <1>9
     DEF Age, vars, Scan, BootIdle, BootSkip, Crash, Stop, TearState,
         TearAnalysis, TearReview
<1> QED
  BY <1>4, <1>5, <1>6, <1>7, <1>8, <1>9 DEF Next

(* No step of the service writes anything but "approved" over an approval:
   neither the tail of the run that was reviewed nor a restart. *)
THEOREM ApprovalIsFinal ==
  ASSUME Tools = {}
  PROVE  Spec => ApprovedIsFinal
<1>1. Init => ShownIsSaved
  BY DEF Init, ShownIsSaved, Procs
<1>2. IInv /\ ShownIsSaved /\ [Next]_vars => ShownIsSaved'
  BY InductiveShown
<1>3. ASSUME IInv, ShownIsSaved, [Next]_vars
      PROVE  [disk \notin {None, Torn} /\ disk.status = "approved"
                => disk' = Torn \/ disk'.status = "approved"]_disk
  <2>1. disk' = disk \/ disk' = Torn \/ (disk' \in Persisted /\ Written)
    BY <1>3, DiskStep
  <2> QED
    BY <2>1 DEF Written, Keeps, Interrupted
<1> QED
  BY <1>1, <1>2, <1>3, Invariance, PTL DEF Spec, ApprovedIsFinal

(* What TaskLifecycle sees of a task on the disk. *)
Recoveries == IF disk \in {None, Torn} THEN 0 ELSE disk.recovery

LEMMA PhaseIs ==
  /\ disk = None => Phase = "absent" /\ Recoveries = 0
  /\ disk = Torn => Phase = "lost" /\ Recoveries = 0
  /\ disk \in Persisted =>
       /\ Recoveries = disk.recovery
       /\ disk.status \in Interrupted => Phase = "working"
       /\ disk.status = "pending_review" => Phase = "awaiting"
       /\ disk.status \in Decisions \cup {"failed"} => Phase = disk.status
<1>1. None # Torn /\ None \notin Persisted /\ Torn \notin Persisted
  BY NullAssumption
<1>2. "pending_review" \notin Interrupted
      /\ \A st \in Decisions \cup {"failed"} :
           st \notin Interrupted /\ st # "pending_review"
  BY DEF Interrupted, Decisions
<1> QED
  BY <1>1, <1>2 DEF Phase, Recoveries

LEMMA PhaseNext ==
  /\ disk' = None => Phase' = "absent" /\ Recoveries' = 0
  /\ disk' = Torn => Phase' = "lost" /\ Recoveries' = 0
  /\ disk' \in Persisted =>
       /\ Recoveries' = disk'.recovery
       /\ disk'.status \in Interrupted => Phase' = "working"
       /\ disk'.status = "pending_review" => Phase' = "awaiting"
       /\ disk'.status \in Decisions \cup {"failed"} => Phase' = disk'.status
<1>1. None # Torn /\ None \notin Persisted /\ Torn \notin Persisted
  BY NullAssumption
<1>2. "pending_review" \notin Interrupted
      /\ \A st \in Decisions \cup {"failed"} :
           st \notin Interrupted /\ st # "pending_review"
  BY DEF Interrupted, Decisions
<1> QED
  BY <1>1, <1>2 DEF Phase, Recoveries

(* Every write to the state file is a move of TaskLifecycle or none at all. *)
LEMMA DiskStepIsMove ==
  ASSUME TypeOK,
         disk' = disk \/ disk' = Torn \/ (disk' \in Persisted /\ Written)
  PROVE  [Lifecycle!Next]_<<Phase, Recoveries>>
<1> USE DEF Lifecycle!Next, Lifecycle!Create, Lifecycle!Review, Lifecycle!Fail,
        Lifecycle!Approve, Lifecycle!Reject, Lifecycle!Retry, Lifecycle!Recover,
        Lifecycle!Lose, Lifecycle!Move
<1>1. disk \in Persisted \cup {None, Torn}
  BY DEF TypeOK
<1>2. CASE disk' = disk
  BY <1>2 DEF Phase, Recoveries
<1>3. CASE disk' = Torn
  <2>1. CASE disk = Torn
    BY <1>3, <2>1 DEF Phase, Recoveries
  <2>2. CASE disk # Torn
    <3>1. Phase # "lost"
      BY <1>1, <2>2, PhaseIs DEF Persisted, Statuses, Decisions
    <3>2. Phase' = "lost" /\ Recoveries' = 0
      BY <1>3, PhaseNext
    <3>3. Lifecycle!Lose
      BY <3>1, <3>2 DEF Recoveries
    <3> QED
      BY <3>3
  <2> QED
    BY <2>1, <2>2
<1>4. CASE disk' \in Persisted /\ Written
  <2>1. CASE disk = None /\ disk'.status = "uploading" /\ disk'.recovery = 0
    BY <1>4, <2>1, PhaseIs, PhaseNext DEF Recoveries, Interrupted
  <2>2. CASE disk \in Persisted
             /\ disk'.status = disk.status /\ disk'.recovery = disk.recovery
    <3>1. Phase' = Phase /\ Recoveries' = Recoveries
      BY <1>4, <2>2, PhaseIs, PhaseNext DEF Persisted, Statuses
    <3> QED
      BY <3>1
  <2>3. CASE disk \in Persisted
             /\ Keeps(Interrupted, Interrupted \cup {"pending_review", "failed"})
    <3>1. Phase = "working" /\ Recoveries' = Recoveries
          /\ Phase' \in {"working", "awaiting", "failed"}
      BY <1>4, <2>3, PhaseIs, PhaseNext DEF Keeps
    <3> QED
      BY <3>1 DEF Recoveries
  <2>4. CASE disk \in Persisted /\ Keeps({"pending_review"}, Decisions \cup {"failed"})
    <3>1. Phase = "awaiting" /\ Recoveries' = Recoveries
          /\ Phase' \in {"approved", "rejected", "failed"}
      BY <1>4, <2>4, PhaseIs, PhaseNext DEF Keeps, Decisions
    <3> QED
      BY <3>1 DEF Recoveries
  <2>5. CASE disk \in Persisted /\ Keeps({"rejected", "failed"}, Interrupted)
    <3>1. Phase \in {"rejected", "failed"} /\ Recoveries' = Recoveries
          /\ Phase' = "working"
      BY <1>4, <2>5, PhaseIs, PhaseNext DEF Keeps, Decisions
    <3> QED
      BY <3>1 DEF Recoveries
  <2>6. CASE /\ disk \in Persisted
             /\ disk.status \in Interrupted /\ disk'.status = disk.status
             /\ disk.recovery < MaxRecovery
             /\ disk'.recovery = disk.recovery + 1
    <3>1. Phase = "working" /\ Phase' = "working"
          /\ Recoveries < MaxRecovery /\ Recoveries' = Recoveries + 1
      BY <1>4, <2>6, PhaseIs, PhaseNext
    <3> QED
      BY <3>1 DEF Recoveries
  <2> QED
    BY <1>4, <2>1, <2>2, <2>3, <2>4, <2>5, <2>6 DEF Written
<1> QED
  BY <1>2, <1>3, <1>4

(* The service, with its coroutines, crashes and restarts, implements the
   life cycle that its users see, whatever the bound on recoveries. *)
THEOREM ImplementsLifecycle ==
  ASSUME Tools = {}
  PROVE  Spec => KeepsLifecycle
<1>1. Init => ShownIsSaved /\ Lifecycle!Init
  BY PhaseIs DEF Init, ShownIsSaved, Procs, Lifecycle!Init, Recoveries
<1>2. IInv /\ ShownIsSaved /\ [Next]_vars => ShownIsSaved'
  BY InductiveShown
<1>3. IInv /\ ShownIsSaved /\ [Next]_vars => [Lifecycle!Next]_(Lifecycle!lifecycle)
  <2> SUFFICES ASSUME IInv, ShownIsSaved, [Next]_vars
               PROVE  [Lifecycle!Next]_(Lifecycle!lifecycle)
    OBVIOUS
  <2>1. [Lifecycle!Next]_<<Phase, Recoveries>>
    BY DiskStep, DiskStepIsMove DEF IInv
  <2> QED
    BY <2>1 DEF Lifecycle!lifecycle, Recoveries
<1> QED
  BY <1>1, <1>2, <1>3, Invariance, PTL DEF Spec, KeepsLifecycle, Lifecycle!Spec

-----------------------------------------------------------------------------
(***************************************************************************)
(* Recoveries.  The count on the disk bounds the runs that were created to *)
(* recover, because it is written before such a run exists and never goes  *)
(* back; and a recovery begins in a server that has no other run and lets  *)
(* none begin, so nobody releases or takes over its lock.                  *)
(***************************************************************************)
Recovered == {w \in Runs : run[w].kind = "recover"}

Counted ==
  /\ IsFiniteSet(Recovered)
  /\ Cardinality(Recovered) <= MaxRecovery
  /\ disk = None => Recovered = {}
  /\ disk \in Persisted =>
       Cardinality(Recovered) <= disk.recovery /\ disk.recovery <= MaxRecovery

Recoverers == {w \in Runs : Active(w) /\ run[w].kind = "recover"}

LockHeld ==
  \A w \in Recoverers :
    /\ \A v \in Runs : Live(v) => v = w
    /\ lock # None /\ lock.pid = PidOf[run[w].proc]
    /\ ~LongRuns => ~lock.stale

(* Only a recovery at the start of a server creates such a run. *)
LEMMA OneMoreRecovered ==
  ASSUME IInv, [Next]_vars
  PROVE  \/ Recovered' \subseteq Recovered
         \/ \E p \in Procs : BootRecover(p) /\
              \E w \in Runs : Recovered' \subseteq Recovered \cup {w}
<1> USE DEF Recovered, IInv, TypeOK
<1>1. ASSUME NEW w \in Runs, Step(w) \/ Fail(w) PROVE Recovered' \subseteq Recovered
  <2>1. \E pc : Goto(w, pc)
    BY <1>1 DEF Step, Fail, LaunchPipeline, LaunchRetry, RefuseRetry, Ingest,
         Begin, SaveDraft, AcceptDraft, SaveFinal, EnterReview, SaveReview,
         AwaitHuman, Notify, Complete, NotifyFailed, FailPipeline, FailRecovery,
         FailRetry
  <2> QED
    BY <2>1 DEF Goto
<1>2. ASSUME NEW p \in Procs, Boot(p), ~BootRecover(p) PROVE run' = run
  BY <1>2 DEF Boot, BootIdle, BootCorrect, BootGiveUp, BootSkip, BootWithoutLoop,
              BootWithoutMarkdown
<1>3. ASSUME NEW p \in Procs, BootRecover(p)
      PROVE  \E w \in Runs : Recovered' \subseteq Recovered \cup {w}
  <2>1. PICK w \in Runs : Spawn(w, p, "recover", "begin")
    BY <1>3 DEF BootRecover
  <2> QED
    BY <2>1 DEF Spawn
<1>4. ASSUME NEW p \in Procs, StartAnalysis(p) \/ RetryAnalysis(p)
      PROVE  Recovered' \subseteq Recovered
  <2>1. PICK w \in Runs, kind \in {"start", "retry"} : Spawn(w, p, kind, "locking")
    BY <1>4 DEF StartAnalysis, RetryAnalysis
  <2> QED
    BY <2>1 DEF Spawn
<1>5. ASSUME NEW p \in Procs, Crash(p) \/ Stop(p) PROVE Recovered' \subseteq Recovered
  BY <1>5 DEF Crash, Stop, Kill
<1>6. ASSUME \/ Age \/ UNCHANGED vars
             \/ \E p \in Procs : Scan(p) \/ \E d \in Decisions : SubmitHumanReview(p, d)
      PROVE  run' = run
  BY <1>6 DEF Age, vars, Scan, SubmitHumanReview
<1> QED
  BY <1>1, <1>2, <1>3, <1>4, <1>5, <1>6 DEF Next

LEMMA InductiveCounted ==
  ASSUME Tools = {}, IInv, ShownIsSaved, Counted, [Next]_vars
  PROVE  Counted'
<1>1. disk \in Persisted \cup {None, Torn}
  BY DEF IInv, TypeOK
<1>2. Cardinality(Recovered) \in Nat
  BY FS_CardinalityType DEF Counted
<1>3. None \notin Persisted /\ Torn \notin Persisted /\ None # Torn
  BY NullAssumption
<1>4. MaxRecovery \in Nat
  BY ConstantsAssumption
<1>5. CASE Recovered' \subseteq Recovered
  <2>1. IsFiniteSet(Recovered') /\ Cardinality(Recovered') <= Cardinality(Recovered)
    BY <1>5, FS_Subset DEF Counted
  <2>2. Cardinality(Recovered') \in Nat
    BY <2>1, FS_CardinalityType
  <2>3. disk' = disk \/ disk' = Torn \/ (disk' \in Persisted /\ Written)
    BY DiskStep
  <2>4. disk' = None => Recovered' = {}
    BY <1>3, <1>5, <2>3 DEF Counted
  <2>5. ASSUME disk' \in Persisted
        PROVE  Cardinality(Recovered') <= disk'.recovery /\ disk'.recovery <= MaxRecovery
    <3>1. disk'.recovery \in Nat /\ (disk \in Persisted => disk.recovery \in Nat)
      BY <2>5 DEF Persisted
    <3>2. CASE disk = None /\ disk'.recovery = 0
      <4>1. Recovered' = {}
        BY <1>5, <3>2 DEF Counted
      <4>2. Cardinality(Recovered') = 0
        BY <4>1, FS_EmptySet
      <4> QED
        BY <1>4, <3>2, <4>2
    <3>3. CASE disk \in Persisted /\ disk'.recovery = disk.recovery
      BY <1>2, <2>1, <2>2, <3>1, <3>3 DEF Counted
    <3>4. CASE disk \in Persisted /\ disk.recovery < MaxRecovery
               /\ disk'.recovery = disk.recovery + 1
      BY <1>2, <1>4, <2>1, <2>2, <3>1, <3>4 DEF Counted
    <3> QED
      BY <1>1, <1>3, <2>3, <2>5, <3>2, <3>3, <3>4 DEF Written, Keeps
  <2> QED
    BY <1>2, <1>4, <2>1, <2>2, <2>4, <2>5 DEF Counted
<1>6. ASSUME NEW p \in Procs, BootRecover(p),
             NEW w \in Runs, Recovered' \subseteq Recovered \cup {w}
      PROVE  Counted'
  <2>1. /\ IsFiniteSet(Recovered \cup {w})
        /\ Cardinality(Recovered \cup {w}) <= Cardinality(Recovered) + 1
    <3>1. IsFiniteSet(Recovered)
      BY DEF Counted
    <3>2. /\ IsFiniteSet(Recovered \cup {w})
          /\ Cardinality(Recovered \cup {w}) =
               IF w \in Recovered THEN Cardinality(Recovered)
                                  ELSE Cardinality(Recovered) + 1
      BY <3>1, FS_AddElement
    <3> QED
      BY <1>2, <3>2
  <2>2. /\ IsFiniteSet(Recovered')
        /\ Cardinality(Recovered') <= Cardinality(Recovered \cup {w})
    BY <1>6, <2>1, FS_Subset
  <2>3. Cardinality(Recovered') \in Nat /\ Cardinality(Recovered \cup {w}) \in Nat
    BY <2>1, <2>2, FS_CardinalityType
  <2>4. /\ mem[p] \in Task /\ mem[p].recovery < MaxRecovery
        /\ disk' = ToPersisted([mem[p] EXCEPT !.recovery = @ + 1])
    BY <1>6 DEF BootRecover, TakeOver, Recoverable, IsInterrupted, IInv, TypeOK
  <2>5. disk \in Persisted /\ disk.recovery = mem[p].recovery
    BY <1>6, <2>4, NullAssumption DEF ShownIsSaved, ToPersisted, Task, Persisted, BootRecover
  <2>6. disk' \in Persisted /\ disk'.recovery = mem[p].recovery + 1
    BY <2>4 DEF ToPersisted, Task, Persisted
  <2>7. mem[p].recovery \in Nat /\ Cardinality(Recovered) <= mem[p].recovery
    BY <2>4, <2>5 DEF Task, Counted
  <2>8. disk' # None
    BY <1>3, <2>6
  <2>9. /\ Cardinality(Recovered') <= disk'.recovery /\ disk'.recovery <= MaxRecovery
        /\ Cardinality(Recovered') <= MaxRecovery
    BY <1>2, <1>4, <2>1, <2>2, <2>3, <2>4, <2>6, <2>7
  <2> QED
    BY <2>2, <2>8, <2>9 DEF Counted
<1> QED
  BY <1>5, <1>6, OneMoreRecovered

(* Over all crashes and restarts a task is recovered at most
   MAX_RECOVERY_ATTEMPTS times. *)
THEOREM RecoveriesAreBounded ==
  ASSUME Tools = {}
  PROVE  Spec => []RecoveryBounded
<1>1. Init => ShownIsSaved /\ Counted
  <2> SUFFICES ASSUME Init PROVE ShownIsSaved /\ Counted
    OBVIOUS
  <2>1. Recovered = {}
    BY KindAssumption DEF Init, Recovered, Kinds
  <2>2. IsFiniteSet(Recovered) /\ Cardinality(Recovered) = 0
    BY <2>1, FS_EmptySet
  <2>3. disk \notin Persisted
    BY NullAssumption DEF Init
  <2> QED
    BY <2>1, <2>2, <2>3, ConstantsAssumption DEF Init, ShownIsSaved, Procs, Counted
<1>2. IInv /\ ShownIsSaved /\ [Next]_vars => ShownIsSaved'
  BY InductiveShown
<1>3. IInv /\ ShownIsSaved /\ Counted /\ [Next]_vars => Counted'
  BY InductiveCounted
<1>4. Counted => RecoveryBounded
  BY DEF Counted, RecoveryBounded, Recovered
<1> QED
  BY <1>1, <1>2, <1>3, <1>4, Invariance, PTL DEF Spec

(* Others than the recovery itself do not touch its lock: no other run lives,
   and no process but its server is up, or it finds the lock young. *)
LEMMA InductiveHeld ==
  ASSUME Tools = {} \/ ~LongRuns, IInv, LockHeld, [Next]_vars
  PROVE  LockHeld'
<1>1. ASSUME NEW w \in Recoverers, NEW p \in Servers, Up(p)
      PROVE  p = run[w].proc /\ proc[p] = "ready"
  BY <1>1, LiveTask DEF Recoverers, Live, Active, IInv, Control, OneServer, Up
<1>2. ASSUME NEW w \in Recoverers, NEW p \in Procs, TakeOver(p) PROVE FALSE
  <2>1. Up(p) /\ proc[p] = "scanned" /\ LockFree
    BY <1>2 DEF TakeOver, Recoverable, Up
  <2>2. CASE p \in Servers
    BY <1>1, <2>1, <2>2
  <2>3. CASE p \in Tools
    BY <2>1, <2>3 DEF LockHeld, LockFree
  <2> QED
    BY <2>2, <2>3 DEF Procs
<1>3. ASSUME \A w \in Recoverers' : w \in Recoverers /\ run'[w].proc = run[w].proc,
             \A v \in Runs : Live(v)' => Live(v),
             Recoverers' # {} => lock' = lock
      PROVE  LockHeld'
  BY <1>3 DEF LockHeld
<1>4. ASSUME NEW v \in Runs, Step(v) \/ Fail(v) PROVE LockHeld'
  <2>1. Live(v)
    BY <1>4, StepOfLive
  <2>2. PICK pc \in PC : Goto(v, pc)
    BY <1>4 DEF Step, Fail, LaunchPipeline, LaunchRetry, RefuseRetry, Ingest,
         Begin, SaveDraft, AcceptDraft, SaveFinal, EnterReview, SaveReview,
         AwaitHuman, Notify, Complete, NotifyFailed, FailPipeline, FailRecovery,
         FailRetry, PC, ActivePC, WorkPC, TailPC, EndPC
  <2>3. /\ run'[v].pc = pc /\ run'[v].kind = run[v].kind /\ run'[v].proc = run[v].proc
        /\ \A u \in Runs : u # v => run'[u] = run[u]
    BY <2>2 DEF Goto, IInv, TypeOK
  <2>4. pc \in ActivePC => run[v].pc \in ActivePC
    BY <1>4, <2>2, <2>3 DEF Step, Fail, LaunchPipeline, LaunchRetry, RefuseRetry, Ingest,
         Begin, SaveDraft, AcceptDraft, SaveFinal, EnterReview, SaveReview,
         AwaitHuman, Notify, Complete, NotifyFailed, FailPipeline, FailRecovery,
         FailRetry, ActivePC, WorkPC, At, Raisable, IInv, TypeOK, Goto
  <2>5. \A w \in Recoverers' : w \in Recoverers /\ run'[w].proc = run[w].proc
    BY <2>3, <2>4 DEF Recoverers, Active
  <2>6. \A w \in Recoverers : w = v
    BY <2>1 DEF LockHeld
  <2>7. \A u \in Runs : Live(u)' => Live(u)
    BY <2>1, <2>3 DEF Live
  <2>8. ASSUME Recoverers' # {} PROVE lock' = lock
    <3>1. run[v].kind = "recover" /\ pc \in ActivePC
      BY <2>3, <2>5, <2>6, <2>8 DEF Recoverers, Active
    <3>2. ~Complete(v)
      <4>1. Complete(v) => run'[v].pc = "done"
        BY DEF Complete, Goto, IInv, TypeOK
      <4> QED
        BY <2>3, <3>1, <4>1 DEF ActivePC, WorkPC
    <3> QED
      BY <1>4, <3>1, <3>2 DEF Step, Fail, LaunchPipeline, LaunchRetry, RefuseRetry,
           Ingest, Begin, SaveDraft, AcceptDraft, SaveFinal, EnterReview,
           SaveReview, AwaitHuman, Notify, NotifyFailed, FailPipeline,
           FailRecovery, FailRetry
  <2> QED
    BY <1>3, <2>5, <2>7, <2>8
<1>5. ASSUME NEW p \in Procs, BootRecover(p) PROVE LockHeld'
  <2>1. p \in Servers /\ TakeOver(p) /\ proc[p] = "scanned" /\ Up(p)
    BY <1>5 DEF BootRecover, TakeOver, Recoverable, Up
  <2>2. PICK u \in Runs : Spawn(u, p, "recover", "begin")
    BY <1>5 DEF BootRecover
  <2>3. \A v \in Runs : ~Live(v)
    BY <2>1, LiveTask DEF IInv, Control, OneServer, Up
  <2>4. /\ run'[u].proc = p
        /\ \A v \in Runs : v # u => run'[v] = run[v]
    BY <2>2 DEF Spawn, IInv, TypeOK
  <2>5. lock' = [pid |-> PidOf[p], stale |-> FALSE]
    BY <2>1 DEF TakeOver, Acquire
  <2>6. lock' # None
    <3>1. lock' \in [pid : {PidOf[q] : q \in Procs}, stale : BOOLEAN]
      BY <2>5
    <3> QED
      BY <3>1, NullAssumption
  <2>7. \A v \in Runs : Live(v)' => v = u
    BY <2>3, <2>4 DEF Live
  <2>8. \A w \in Recoverers' : w = u
    BY <2>7 DEF Recoverers, Active, Live
  <2> QED
    BY <2>4, <2>5, <2>6, <2>7, <2>8 DEF LockHeld
<1>6. ASSUME NEW p \in Procs, BootWithoutLoop(p) \/ BootWithoutMarkdown(p)
      PROVE  LockHeld'
  <2>1. run' = run /\ TakeOver(p)
    BY <1>6 DEF BootWithoutLoop, BootWithoutMarkdown
  <2>2. Recoverers = {}
    BY <1>2, <2>1
  <2> QED
    BY <1>3, <2>1, <2>2 DEF Recoverers, Active, Live
<1>7. ASSUME NEW p \in Procs, StartAnalysis(p) \/ RetryAnalysis(p) PROVE LockHeld'
  <2>1. \A v \in Runs : ~Active(v)
    BY <1>7, IdleTask DEF StartAnalysis, RetryAnalysis, Interrupted
  <2>2. PICK w \in Runs, kind \in {"start", "retry"} : Spawn(w, p, kind, "locking")
    BY <1>7 DEF StartAnalysis, RetryAnalysis
  <2>3. run'[w].kind # "recover" /\ \A v \in Runs : v # w => run'[v] = run[v]
    BY <2>2 DEF Spawn, IInv, TypeOK
  <2> QED
    BY <2>1, <2>3 DEF LockHeld, Recoverers, Active
<1>8. ASSUME NEW p \in Procs, Crash(p) \/ Stop(p) PROVE LockHeld'
  <2>1. Up(p) /\ Kill(p)
    BY <1>8 DEF Crash, Stop
  <2>2. \A v \in Runs : \/ run'[v] = run[v] /\ ~(run[v].proc = p /\ Live(v))
                        \/ run'[v].pc = "dead"
    BY <2>1 DEF Kill, Live, IInv, TypeOK
  <2>3. \A v \in Runs : run'[v].pc = "dead" => ~Live(v)' /\ ~Active(v)'
    BY DEF Live, Active, ActivePC, WorkPC, TailPC
  <2>4. \A v \in Runs : Live(v)' => Live(v) /\ run'[v] = run[v] /\ run[v].proc # p
    BY <2>2, <2>3 DEF Live
  <2>5. \A w \in Recoverers' : w \in Recoverers /\ run'[w] = run[w] /\ run[w].proc # p
    BY <2>4 DEF Recoverers, Active, Live
  <2>6. ASSUME Recoverers' # {} PROVE lock' = lock
    <3>1. PICK w \in Recoverers : run[w].proc # p
      BY <2>5, <2>6
    <3>2. p \notin Servers
      BY <1>1, <2>1, <3>1
    <3>3. \A v \in RunsOf(p) : run[v].pc \notin AwaitingPC
      BY <3>2, LiveTask DEF RunsOf, Live, AwaitingPC, ActivePC, WorkPC, TailPC
    <3> QED
      BY <1>8, <3>3 DEF Crash, Stop
  <2> QED
    BY <1>3, <2>4, <2>5, <2>6
<1>9. CASE Age
  <2>1. run' = run /\ lock # None /\ lock' = [lock EXCEPT !.stale = TRUE]
    BY <1>9 DEF Age
  <2>2. Recoverers' = Recoverers /\ \A v \in Runs : Live(v)' <=> Live(v)
    BY <2>1 DEF Recoverers, Active, Live
  <2>3. CASE LongRuns
    <3>1. lock \in [pid : {PidOf[q] : q \in Procs}, stale : BOOLEAN]
      BY <2>1 DEF IInv, TypeOK
    <3>2. /\ lock' \in [pid : {PidOf[q] : q \in Procs}, stale : BOOLEAN]
          /\ lock'.pid = lock.pid
      BY <2>1, <3>1
    <3>3. lock' # None
      BY <3>2, NullAssumption
    <3> QED
      BY <2>1, <2>2, <2>3, <3>2, <3>3 DEF LockHeld, Recoverers
  <2>4. CASE ~LongRuns
    BY <1>9, <2>2, <2>4 DEF Age, LockHeld, Recoverers
  <2> QED
    BY <2>3, <2>4
<1>10. ASSUME \/ UNCHANGED vars
              \/ \E p \in Procs : \/ Scan(p) \/ BootIdle(p) \/ BootCorrect(p)
                                   \/ BootGiveUp(p) \/ BootSkip(p)
                                   \/ \E d \in Decisions : SubmitHumanReview(p, d)
       PROVE  LockHeld'
  <2>1. run' = run /\ lock' = lock
    BY <1>10 DEF vars, Scan, BootIdle, BootCorrect, BootGiveUp, BootSkip, SubmitHumanReview
  <2> QED
    BY <1>3, <2>1 DEF Recoverers, Active, Live
<1> QED
  BY <1>4, <1>5, <1>6, <1>7, <1>8, <1>9, <1>10 DEF Next, Boot

(* A recovery run holds the run lock for as long as it works: with no script
   beside the server however long the run takes, with one unless it takes more
   than the two hours after which a lock is taken over. *)
THEOREM RecoveryIsLocked ==
  ASSUME Tools = {} \/ ~LongRuns
  PROVE  Spec => []RecoveryHoldsLock
<1>1. Init => LockHeld
  BY DEF Init, LockHeld, Recoverers, Active, ActivePC, WorkPC
<1>2. IInv /\ LockHeld /\ [Next]_vars => LockHeld'
  BY InductiveHeld
<1>3. LockHeld => RecoveryHoldsLock
  BY DEF LockHeld, RecoveryHoldsLock, Recoverers
<1> QED
  BY <1>1, <1>2, <1>3, Invariance, PTL DEF Spec

-----------------------------------------------------------------------------
(***************************************************************************)
(* What StartSettles, which is about fairness, rests on: whoever has the   *)
(* event loop can go on, no run goes on for ever, and the one step that    *)
(* ends the work of a new task leaves it reviewed or failed.               *)
(***************************************************************************)

(* The loop is held between two awaits only, by a run that has a step there:
   those at "locking" are the requests, and each has its launch or refusal. *)
LoopGoesRound ==
  /\ cpu # None => run[cpu].pc \in StretchPC \cup {"begin"}
  /\ \A w \in Runs : run[w].pc = "locking" => run[w].kind \in {"start", "retry"}

(* A step of one run: it ends at an await, or at the next place of a stretch,
   or another run has the loop. *)
LEMMA RunLeavesLoop ==
  ASSUME TypeOK, LoopGoesRound, NEW w \in Runs, NEW pc \in PC, Goto(w, pc),
         pc # "locking",
         \/ cpu' = None
         \/ cpu' = w /\ pc \in StretchPC \cup {"begin"}
         \/ cpu' = cpu /\ run[w].pc \notin StretchPC \cup {"begin"}
  PROVE  LoopGoesRound'
<1>1. /\ run'[w] = [run[w] EXCEPT !.pc = pc]
      /\ \A v \in Runs : v # w => run'[v] = run[v]
  BY DEF TypeOK, Goto
<1>2. run'[w].pc = pc
  BY <1>1 DEF TypeOK
<1>3. \A v \in Runs : run'[v].pc = "locking" => run'[v].kind \in {"start", "retry"}
  BY <1>1, <1>2 DEF LoopGoesRound
<1>4. ASSUME cpu' # None
      PROVE  run'[cpu'].pc \in StretchPC \cup {"begin"}
  <2>1. CASE cpu' = w
    BY <1>2, <1>4, <2>1 DEF LoopGoesRound
  <2>2. CASE cpu' # w
    <3>1. cpu' = cpu /\ cpu \in Runs
      BY <1>4, <2>2 DEF TypeOK
    <3> QED
      BY <1>1, <1>4, <2>2, <3>1 DEF LoopGoesRound
  <2> QED
    BY <2>1, <2>2
<1> QED
  BY <1>3, <1>4 DEF LoopGoesRound

(* A run that is created has begun no stretch, or is the one that has the
   loop. *)
LEMMA NewRunOnLoop ==
  ASSUME TypeOK, LoopGoesRound, NEW w \in Runs, NEW p \in Procs, NEW kind \in Kinds,
         NEW pc \in PC, run[w].pc = "unused", Spawn(w, p, kind, pc),
         pc = "locking" => kind \in {"start", "retry"},
         cpu' = cpu \/ (cpu' = w /\ pc \in StretchPC)
  PROVE  LoopGoesRound'
<1>1. /\ run'[w] = [pc |-> pc, proc |-> p, kind |-> kind]
      /\ \A v \in Runs : v # w => run'[v] = run[v]
  BY DEF TypeOK, Spawn
<1>2. \A v \in Runs : run'[v].pc = "locking" => run'[v].kind \in {"start", "retry"}
  BY <1>1 DEF LoopGoesRound
<1>3. ASSUME cpu' # None
      PROVE  run'[cpu'].pc \in StretchPC \cup {"begin"}
  <2>1. CASE cpu' = w /\ pc \in StretchPC
    BY <1>1, <2>1
  <2>2. CASE cpu' = cpu
    <3>1. cpu \in Runs /\ cpu # w
      BY <1>3, <2>2 DEF TypeOK, LoopGoesRound, StretchPC
    <3> QED
      BY <1>1, <1>3, <2>2, <3>1 DEF LoopGoesRound
  <2> QED
    BY <2>1, <2>2
<1> QED
  BY <1>2, <1>3 DEF LoopGoesRound

LEMMA InductiveLoop == TypeOK /\ LoopGoesRound /\ [Next]_vars => LoopGoesRound'
<1> SUFFICES ASSUME TypeOK, LoopGoesRound, [Next]_vars
             PROVE  LoopGoesRound'
  OBVIOUS
<1>1. ASSUME run' = run, cpu' = cpu
      PROVE  LoopGoesRound'
  BY <1>1 DEF LoopGoesRound
<1>2. ASSUME NEW p \in Procs, Scan(p) \/ Boot(p)
      PROVE  LoopGoesRound'
  <2>1. CASE BootRecover(p)
    <3>1. PICK w \in Runs : run[w].pc = "unused" /\ Spawn(w, p, "recover", "begin")
      BY <2>1 DEF BootRecover
    <3>2. cpu' = cpu /\ "recover" \in Kinds /\ "begin" \in PC
      BY <2>1 DEF BootRecover, TakeOver, Kinds, PC, ActivePC, WorkPC
    <3>3. "begin" # "locking"
      OBVIOUS
    <3> QED
      BY <3>1, <3>2, <3>3, NewRunOnLoop
  <2>2. CASE ~BootRecover(p)
    <3>1. run' = run /\ cpu' = cpu
      BY <1>2, <2>2 DEF Scan, Boot, BootIdle, BootCorrect, BootGiveUp, BootSkip,
                        BootWithoutLoop, BootWithoutMarkdown, TakeOver
    <3> QED
      BY <1>1, <3>1
  <2> QED
    BY <2>1, <2>2
<1>3. ASSUME NEW p \in Procs, StartAnalysis(p) \/ RetryAnalysis(p)
      PROVE  LoopGoesRound'
  <2>1. PICK w \in Runs, kind \in {"start", "retry"} :
          run[w].pc = "unused" /\ Spawn(w, p, kind, "locking") /\ cpu' = w
    BY <1>3 DEF StartAnalysis, RetryAnalysis
  <2>2. kind \in Kinds /\ "locking" \in PC /\ "locking" \in StretchPC
    BY DEF Kinds, PC, ActivePC, WorkPC, StretchPC
  <2> QED
    BY <2>1, <2>2, NewRunOnLoop
<1>4. ASSUME NEW p \in Procs, NEW d \in Decisions, SubmitHumanReview(p, d)
      PROVE  LoopGoesRound'
  BY <1>1, <1>4 DEF SubmitHumanReview
<1>5. ASSUME NEW p \in Procs, Crash(p) \/ Stop(p)
      PROVE  LoopGoesRound'
  <2>1. Kill(p)
    BY <1>5 DEF Crash, Stop
  <2>2. \A w \in Runs : run'[w] = run[w] \/ run'[w].pc = "dead"
    BY <2>1 DEF Kill, TypeOK
  <2>3. ASSUME cpu' # None
        PROVE  run'[cpu'].pc \in StretchPC \cup {"begin"}
    <3>1. cpu' = cpu /\ cpu \in Runs /\ run[cpu].proc # p
      BY <2>1, <2>3 DEF Kill, RunsOf, TypeOK
    <3>2. run'[cpu] = run[cpu]
      BY <2>1, <3>1 DEF Kill
    <3> QED
      BY <2>3, <3>1, <3>2 DEF LoopGoesRound
  <2> QED
    BY <2>2, <2>3 DEF LoopGoesRound
<1>6. ASSUME NEW w \in Runs, Step(w) \/ Fail(w)
      PROVE  LoopGoesRound'
  <2> USE DEF StretchPC, At
  <2>1. {"ingest", "begin", "refused", "analyze", "scope", "design", "designed",
         "review", "reviewed", "carding", "notify", "failnotify", "done",
         "error"} \subseteq PC
    BY DEF PC, ActivePC, WorkPC, TailPC, EndPC
  <2>2. CASE LaunchPipeline(w) \/ LaunchRetry(w) \/ RefuseRetry(w)
    <3>1. cpu' = None /\ \E pc \in {"ingest", "begin", "refused"} : Goto(w, pc)
      BY <2>2 DEF LaunchPipeline, LaunchRetry, RefuseRetry
    <3> QED
      BY <2>1, <3>1, RunLeavesLoop
  <2>3. CASE Begin(w) \/ SaveDraft(w) \/ AcceptDraft(w) \/ EnterReview(w) \/ Notify(w)
    <3>1. cpu' = None
          /\ \E pc \in {"analyze", "scope", "design", "review", "notify"} : Goto(w, pc)
      BY <2>3 DEF Begin, SaveDraft, AcceptDraft, EnterReview, Notify
    <3> QED
      BY <2>1, <3>1, RunLeavesLoop
  <2>4. CASE Ingest(w) \/ SaveFinal(w) \/ SaveReview(w) \/ AwaitHuman(w)
    <3>1. cpu' = w
          /\ \E pc \in {"begin", "designed", "reviewed", "carding"} : Goto(w, pc)
      BY <2>4 DEF Ingest, SaveFinal, SaveReview, AwaitHuman
    <3> QED
      BY <2>1, <3>1, RunLeavesLoop
  <2>5. CASE Complete(w) \/ NotifyFailed(w)
    <3>1. cpu' = cpu /\ run[w].pc \in {"notify", "failnotify"} /\ Goto(w, "done")
      BY <2>5 DEF Complete, NotifyFailed
    <3> QED
      BY <2>1, <3>1, RunLeavesLoop
  <2>6. CASE Fail(w)
    <3>1. cpu' = None /\ \E pc \in {"failnotify", "error"} : Goto(w, pc)
      BY <2>6 DEF Fail, FailPipeline, FailRecovery, FailRetry
    <3> QED
      BY <2>1, <3>1, RunLeavesLoop
  <2> QED
    BY <1>6, <2>2, <2>3, <2>4, <2>5, <2>6 DEF Step
<1>7. CASE Age \/ UNCHANGED vars
  BY <1>1, <1>7 DEF Age, vars
<1> QED
  BY <1>2, <1>3, <1>4, <1>5, <1>6, <1>7 DEF Next

(* Whichever coroutine has the event loop is between two awaits and has a
   step there, so that no other waits for it in vain, whatever requests,
   restarts and failures came before. *)
THEOREM LoopIsPassedOn == Spec => []LoopGoesRound
<1>1. Init => LoopGoesRound
  BY DEF Init, LoopGoesRound
<1>2. IInv => TypeOK
  BY DEF IInv
<1> QED
  BY <1>1, <1>2, InductiveLoop, Invariance, PTL DEF Spec

(* The places a run has before it. *)
StepsLeft ==
  [locking |-> 12, ingest |-> 11, begin |-> 10, analyze |-> 9, scope |-> 8,
   design |-> 7, designed |-> 6, review |-> 5, reviewed |-> 4, carding |-> 3,
   notify |-> 2, failnotify |-> 1, done |-> 0, error |-> 0, refused |-> 0,
   dead |-> 0, unused |-> 0]

Left(w) == StepsLeft[run[w].pc]

RunsMoveOn ==
  [][ \A w \in Runs :
        /\ Step(w) \/ Fail(w) => Left(w)' < Left(w)
        /\ run[w].pc # "unused" => Left(w)' <= Left(w) ]_vars

LEMMA LeftIsNumber ==
  ASSUME TypeOK, NEW w \in Runs
  PROVE  Left(w) \in Nat
<1>1. run[w].pc \in PC
  BY DEF TypeOK
<1> QED
  BY <1>1 DEF Left, StepsLeft, PC, ActivePC, WorkPC, TailPC, EndPC

(* A run goes on, or fails, and is nearer to its end. *)
LEMMA RunGoesOn ==
  ASSUME TypeOK, NEW w \in Runs, Step(w) \/ Fail(w)
  PROVE  /\ Left(w)' < Left(w) /\ Left(w)' <= Left(w)
         /\ \A v \in Runs : v # w => run'[v] = run[v]
<1>g. ASSUME NEW pc, Goto(w, pc)
      PROVE  run'[w].pc = pc /\ \A v \in Runs : v # w => run'[v] = run[v]
  BY <1>g DEF TypeOK, Goto
<1> USE DEF Left, StepsLeft, At
<1>1. CASE LaunchPipeline(w) \/ LaunchRetry(w) \/ RefuseRetry(w)
  BY <1>1, <1>g DEF LaunchPipeline, LaunchRetry, RefuseRetry
<1>2. CASE Ingest(w) \/ Begin(w) \/ SaveDraft(w) \/ AcceptDraft(w)
  BY <1>2, <1>g DEF Ingest, Begin, SaveDraft, AcceptDraft
<1>3. CASE SaveFinal(w) \/ EnterReview(w) \/ SaveReview(w) \/ AwaitHuman(w)
  BY <1>3, <1>g DEF SaveFinal, EnterReview, SaveReview, AwaitHuman
<1>4. CASE Notify(w) \/ Complete(w) \/ NotifyFailed(w)
  BY <1>4, <1>g DEF Notify, Complete, NotifyFailed
<1>5. CASE Fail(w)
  <2>1. /\ run[w].pc \in ActivePC
        /\ \E pc \in {"failnotify", "error"} : Goto(w, pc)
    BY <1>5 DEF Fail, FailPipeline, FailRecovery, FailRetry, Raisable
  <2> QED
    BY <2>1, <1>g DEF ActivePC, WorkPC
<1> QED
  BY <1>1, <1>2, <1>3, <1>4, <1>5 DEF Step

(* Any other step leaves a run where it is, or kills it. *)
LEMMA OthersLeaveRuns ==
  ASSUME TypeOK, Next, \A v \in Runs : ~Step(v) /\ ~Fail(v),
         NEW w \in Runs, run[w].pc # "unused"
  PROVE  \/ run'[w] = run[w]
         \/ run'[w].pc = "dead" /\ mem'[run[w].proc] = None
<1>1. ASSUME NEW p \in Procs, Boot(p) \/ Scan(p) \/ StartAnalysis(p) \/ RetryAnalysis(p)
      PROVE  run'[w] = run[w]
  <2>1. CASE StartAnalysis(p)
    <3>1. PICK v \in Runs : run[v].pc = "unused" /\ Spawn(v, p, "start", "locking")
      BY <2>1 DEF StartAnalysis
    <3> QED
      BY <3>1 DEF Spawn
  <2>2. CASE RetryAnalysis(p)
    <3>1. PICK v \in Runs : run[v].pc = "unused" /\ Spawn(v, p, "retry", "locking")
      BY <2>2 DEF RetryAnalysis
    <3> QED
      BY <3>1 DEF Spawn
  <2>3. CASE BootRecover(p)
    <3>1. PICK v \in Runs : run[v].pc = "unused" /\ Spawn(v, p, "recover", "begin")
      BY <2>3 DEF BootRecover
    <3> QED
      BY <3>1 DEF Spawn
  <2>4. CASE \/ Scan(p) \/ BootIdle(p) \/ BootCorrect(p) \/ BootGiveUp(p) \/ BootSkip(p)
             \/ BootWithoutLoop(p) \/ BootWithoutMarkdown(p)
    BY <2>4 DEF Scan, BootIdle, BootCorrect, BootGiveUp, BootSkip, BootWithoutLoop,
                BootWithoutMarkdown
  <2> QED
    BY <1>1, <2>1, <2>2, <2>3, <2>4 DEF Boot
<1>2. ASSUME NEW p \in Procs, Crash(p) \/ Stop(p)
      PROVE  \/ run'[w] = run[w]
             \/ run'[w].pc = "dead" /\ mem'[run[w].proc] = None
  <2>1. Kill(p)
    BY <1>2 DEF Crash, Stop
  <2>2. mem'[p] = None
    BY <2>1 DEF Kill, TypeOK
  <2>3. \/ run'[w] = run[w]
        \/ run[w].proc = p /\ run'[w] = [run[w] EXCEPT !.pc = "dead"]
    BY <2>1 DEF Kill
  <2> QED
    BY <2>2, <2>3 DEF TypeOK
<1>3. ASSUME NEW p \in Procs, NEW d \in Decisions, SubmitHumanReview(p, d)
      PROVE  run' = run
  BY <1>3 DEF SubmitHumanReview
<1>4. Age => run' = run
  BY DEF Age
<1> QED
  BY <1>1, <1>2, <1>3, <1>4 DEF Next

(* Every step of a run, its failures included, brings it nearer to its end,
   and nothing takes it back: the awaits of a run are finitely many, over any
   number of restarts. *)
THEOREM RunsEnd == Spec => RunsMoveOn
<1>1. TypeOK /\ [Next]_vars
        => [ \A w \in Runs :
               /\ Step(w) \/ Fail(w) => Left(w)' < Left(w)
               /\ run[w].pc # "unused" => Left(w)' <= Left(w) ]_vars
  <2> SUFFICES ASSUME TypeOK, Next, NEW w \in Runs
               PROVE  /\ Step(w) \/ Fail(w) => Left(w)' < Left(w)
                      /\ run[w].pc # "unused" => Left(w)' <= Left(w)
    OBVIOUS
  <2>1. Step(w) \/ Fail(w) => Left(w)' < Left(w)
    BY RunGoesOn
  <2>2. ASSUME run'[w] = run[w]
        PROVE  Left(w)' <= Left(w)
    BY <2>2, LeftIsNumber DEF Left
  <2>3. ASSUME run'[w].pc = "dead"
        PROVE  Left(w)' <= Left(w)
    BY <2>3, LeftIsNumber DEF Left, StepsLeft
  <2>4. ASSUME NEW v \in Runs, Step(v) \/ Fail(v)
        PROVE  Left(w)' <= Left(w)
    BY <2>2, <2>4, RunGoesOn
  <2>5. ASSUME \A v \in Runs : ~Step(v) /\ ~Fail(v), run[w].pc # "unused"
        PROVE  Left(w)' <= Left(w)
    BY <2>2, <2>3, <2>5, OthersLeaveRuns
  <2> QED
    BY <2>1, <2>4, <2>5
<1>2. IInv => TypeOK
  BY DEF IInv
<1> QED
  BY <1>1, <1>2, Invariance, PTL DEF Spec, RunsMoveOn

(* The end of the work of a new task, by its notification, a failure or the
   end of its process, leaves no task that says it is at work. *)
StartEndsSettled ==
  [][ \A w \in Runs : \A p \in Servers :
        run[w].kind = "start" /\ run[w].proc = p /\ Active(w) /\ ~Active(w)'
          => ~IsInterrupted(p)' ]_vars

(* The pipeline of a new task does not end without a result to review or a
   failure in its status: those who poll, and a restart, see that it is over. *)
THEOREM StartsEndSettled == Spec => StartEndsSettled
<1>1. IInv /\ [Next]_vars
        => [ \A w \in Runs : \A p \in Servers :
               run[w].kind = "start" /\ run[w].proc = p /\ Active(w) /\ ~Active(w)'
                 => ~IsInterrupted(p)' ]_vars
  <2> SUFFICES ASSUME IInv, Next, NEW w \in Runs, NEW p \in Servers,
                      run[w].kind = "start", run[w].proc = p, Active(w), ~Active(w)'
               PROVE  ~IsInterrupted(p)'
    OBVIOUS
  <2>1. TypeOK /\ run'[w] # run[w] /\ run[w].pc # "unused"
    BY DEF IInv, Active, ActivePC, WorkPC
  <2>2. CASE \A v \in Runs : ~Step(v) /\ ~Fail(v)
    <3>1. mem'[p] = None
      BY <2>1, <2>2, OthersLeaveRuns
    <3> QED
      BY <3>1 DEF IsInterrupted
  <2>3. ASSUME NEW v \in Runs, Step(v) \/ Fail(v)
        PROVE  ~IsInterrupted(p)'
    <3>1. v = w
      BY <2>1, <2>3, RunGoesOn
    <3>2. p \in Procs /\ TaskOf(w) \in Task
      BY LiveTask DEF Live, Active, Procs
    <3>3. ASSUME NEW pc \in ActivePC, Goto(w, pc)
          PROVE  FALSE
      <4>1. run'[w].pc = pc
        BY <2>1, <3>3 DEF Goto, TypeOK
      <4> QED
        BY <3>3, <4>1 DEF Active
    <3>4. CASE Notify(w)
      <4>1. run[w].pc = "carding" /\ mem' = mem
        BY <3>4 DEF Notify, At
      <4>2. mem[p].status = "pending_review"
        BY <4>1 DEF IInv, Control, RunFitsStatus, TaskOf
      <4> QED
        BY <4>1, <4>2 DEF IsInterrupted, Interrupted
    <3>5. CASE FailPipeline(w)
      <4>1. mem'[p] = [TaskOf(w) EXCEPT !.status = "failed"]
        BY <2>1, <3>2, <3>5 DEF FailPipeline, SetTask, SaveTask, TypeOK
      <4>2. mem'[p].status = "failed"
        BY <3>2, <4>1 DEF Task
      <4> QED
        BY <4>2 DEF IsInterrupted, Interrupted
    <3>6. CASE FailRecovery(w) \/ FailRetry(w) \/ RefuseRetry(w) \/ LaunchRetry(w)
      BY <3>6 DEF FailRecovery, FailRetry, RefuseRetry, LaunchRetry
    <3>7. CASE Complete(w) \/ NotifyFailed(w)
      BY <3>7 DEF Complete, NotifyFailed, At, Active, ActivePC, WorkPC
    <3>8. CASE LaunchPipeline(w) \/ Ingest(w) \/ Begin(w) \/ SaveDraft(w) \/ AcceptDraft(w)
      <4>1. \E pc \in {"ingest", "begin", "analyze", "scope", "design"} : Goto(w, pc)
        BY <3>8 DEF LaunchPipeline, Ingest, Begin, SaveDraft, AcceptDraft
      <4> QED
        BY <3>3, <4>1 DEF ActivePC, WorkPC
    <3>9. CASE SaveFinal(w) \/ EnterReview(w) \/ SaveReview(w) \/ AwaitHuman(w)
      <4>1. \E pc \in {"designed", "review", "reviewed", "carding"} : Goto(w, pc)
        BY <3>9 DEF SaveFinal, EnterReview, SaveReview, AwaitHuman
      <4> QED
        BY <3>3, <4>1 DEF ActivePC, WorkPC
    <3> QED
      BY <2>3, <3>1, <3>4, <3>5, <3>6, <3>7, <3>8, <3>9 DEF Step, Fail
  <2> QED
    BY <2>2, <2>3
<1> QED
  BY <1>1, Invariance, PTL DEF Spec, StartEndsSettled

-----------------------------------------------------------------------------
(***************************************************************************)
(* The run lock call by call: RunLock for every set of processes.  (In     *)
(* RequirementAnalysis taking the lock is a single step.)                  *)
(*                                                                         *)
(* Releases come from whoever was at work, the lock granted or refused.    *)
(* That the lock excludes is not inductive.  One has to know whose file    *)
(* lies there while a process owns the lock, and that a file about to be   *)
(* removed as a zombie is still the zombie: no owner can come in before    *)
(* that file has gone, and only one process can remove it.                 *)
(***************************************************************************)

(* Only a process that judged a file a zombie is about to remove one so. *)
UnlinkersReap == \A p \in Lockers : at[p] = "unlink" => p \in reapers

(* If nobody outlives two hours and only holders remove their files, the
   creator of a zombie does not own it. *)
ZombiesUnowned ==
  ~LongHold /\ strays = {} /\ lockFile # NoFile /\ lockFile.stale
    => at[lockFile.owner] \notin Owning

(* The file belongs to the process that owns the lock. *)
OwnersFile ==
  NoReapingRace =>
    \A p \in Lockers : at[p] \in Owning => lockFile # NoFile /\ lockFile.owner = p

(* A file about to be removed as a zombie is one. *)
ZombieStays ==
  NoReapingRace =>
    \A p \in Lockers : at[p] = "unlink" => lockFile # NoFile /\ lockFile.stale

LockInv == LockTypeOK /\ UnlinkersReap /\ ZombiesUnowned /\ OwnersFile /\ ZombieStays

(* Types: the program counters, the lock file and the history keep their
   types whatever the processes do. *)
THEOREM LockTypeCorrect == LockSpec => []LockTypeOK
<1>1. LockInit => LockTypeOK
  BY DEF LockInit, LockTypeOK, LockPC
<1>2. LockTypeOK /\ [LockNext]_lockVars => LockTypeOK'
  <2> SUFFICES ASSUME LockTypeOK, [LockNext]_lockVars PROVE LockTypeOK'
    OBVIOUS
  <2> USE DEF LockTypeOK, LockPC, Lock, Move, MoveUnlocked
  <2>1. ASSUME NEW p \in Lockers,
               AcquireRunLock(p) \/ Exists(p) \/ AcquireFails(p) \/ StatGone(p)
                 \/ StatYoung(p) \/ ReleaseNothing(p) \/ KeepLock(p)
                 \/ LockerCrash(p) \/ LockerRestart(p)
        PROVE  LockTypeOK'
    BY <2>1 DEF AcquireRunLock, Exists, AcquireFails, StatGone, StatYoung,
                ReleaseNothing, KeepLock, LockerCrash, LockerRestart
  <2>2. ASSUME NEW p \in Lockers, Create(p) PROVE LockTypeOK'
    BY <2>2 DEF Create
  <2>3. ASSUME NEW p \in Lockers, WritePid(p) PROVE LockTypeOK'
    BY <2>3 DEF WritePid
  <2>4. ASSUME NEW p \in Lockers, StatStale(p) PROVE LockTypeOK'
    BY <2>4 DEF StatStale
  <2>5. ASSUME NEW p \in Lockers, Reap(p) \/ ReleaseUnlink(p) PROVE LockTypeOK'
    BY <2>5 DEF Reap, ReleaseUnlink
  <2>6. CASE LockAge
    BY <2>6 DEF LockAge
  <2>8. ASSUME NEW p \in Lockers, ReleaseRead(p) PROVE LockTypeOK'
    BY <2>8 DEF ReleaseRead
  <2>7. CASE UNCHANGED lockVars
    BY <2>7 DEF lockVars
  <2> QED
    BY <2>1, <2>2, <2>3, <2>4, <2>5, <2>6, <2>7, <2>8 DEF LockNext
<1> QED
  BY <1>1, <1>2, PTL DEF LockSpec

-----------------------------------------------------------------------------
(* The strengthened invariant is kept by every step. *)
LEMMA InductiveLock ==
  ASSUME LockInv, LockTypeOK', [LockNext]_lockVars
  PROVE  LockInv'
<1> USE NoFileAssumption, LongHoldAssumption
        DEF LockInv, LockTypeOK, UnlinkersReap, ZombiesUnowned, OwnersFile, ZombieStays,
            NoReapingRace, LockPC, Lock, Owning, Move, MoveUnlocked
<1>1. ASSUME NEW p \in Lockers,
             AcquireRunLock(p) \/ Exists(p) \/ AcquireFails(p) \/ StatGone(p)
               \/ StatYoung(p) \/ ReleaseNothing(p) \/ KeepLock(p)
               \/ LockerCrash(p) \/ LockerRestart(p)
      PROVE  LockInv'
  <2>1. UNCHANGED <<lockFile, reapers, strays>>
    BY <1>1 DEF AcquireRunLock, Exists, AcquireFails, StatGone, StatYoung,
                ReleaseNothing, KeepLock, LockerCrash, LockerRestart
  <2>2. /\ at' = [at EXCEPT ![p] = at'[p]]
        /\ at'[p] \notin {"unlink"} \cup Owning
    BY <1>1 DEF AcquireRunLock, Exists, AcquireFails, StatGone, StatYoung,
                ReleaseNothing, KeepLock, LockerCrash, LockerRestart
  <2>3. \A q \in Lockers :
          /\ at'[q] = "unlink" => at[q] = "unlink"
          /\ at'[q] \in Owning => at[q] \in Owning
    BY <2>2
  <2> QED
    BY <2>1, <2>3
<1>2. ASSUME NEW p \in Lockers, Create(p) PROVE LockInv'
  <2>1. NoReapingRace => \A q \in Lockers : at[q] \notin Owning /\ at[q] # "unlink"
    BY <1>2 DEF Create
  <2>2. /\ lockFile' # NoFile /\ lockFile'.owner = p /\ ~lockFile'.stale
        /\ UNCHANGED <<reapers, strays>>
    <3>1. lockFile' = [owner |-> p, written |-> FALSE, stale |-> FALSE]
      BY <1>2 DEF Create
    <3>2. lockFile' \in Lock
      BY <3>1
    <3>3. lockFile' # NoFile
      BY <3>2, Zenon
    <3>4. lockFile'.owner = p /\ ~lockFile'.stale
      BY <3>1
    <3> QED
      BY <1>2, <3>3, <3>4 DEF Create
  <2>3. at' = [at EXCEPT ![p] = "write"]
    BY <1>2 DEF Create
  <2> QED
    BY <2>1, <2>2, <2>3
<1>3. ASSUME NEW p \in Lockers, WritePid(p) PROVE LockInv'
  <2>1. /\ (lockFile' = NoFile) <=> (lockFile = NoFile)
        /\ lockFile # NoFile =>
             lockFile'.owner = lockFile.owner /\ lockFile'.stale = lockFile.stale
        /\ UNCHANGED <<reapers, strays>>
    <3>1. lockFile' = lockFile \/ (lockFile # NoFile /\ lockFile' = [lockFile EXCEPT !.written = TRUE])
      BY <1>3 DEF WritePid
    <3>2. lockFile # NoFile => lockFile \in Lock
      OBVIOUS
    <3>3. lockFile # NoFile =>
            /\ lockFile' \in Lock
            /\ lockFile'.owner = lockFile.owner /\ lockFile'.stale = lockFile.stale
      BY <3>1, <3>2
    <3>4. lockFile # NoFile => lockFile' # NoFile
      BY <3>3, Zenon
    <3>5. lockFile = NoFile => lockFile' = NoFile
      BY <3>1
    <3>6. UNCHANGED <<reapers, strays>>
      BY <1>3 DEF WritePid
    <3> QED
      BY <3>3, <3>4, <3>5, <3>6
  <2>2. at[p] = "write" /\ at' = [at EXCEPT ![p] = "holding"]
    BY <1>3 DEF WritePid
  <2> QED
    BY <2>1, <2>2
<1>4. ASSUME NEW p \in Lockers, StatStale(p) PROVE LockInv'
  <2>1. /\ lockFile # NoFile /\ lockFile.stale /\ UNCHANGED <<lockFile, strays>>
        /\ reapers' = reapers \cup {p}
        /\ at' = [at EXCEPT ![p] = "unlink"]
    BY <1>4 DEF StatStale
  <2>2. NoReapingRace' => NoReapingRace
    BY <2>1
  <2> QED
    BY <2>1, <2>2
<1>5. ASSUME NEW p \in Lockers, Reap(p) PROVE LockInv'
  <2>1. /\ at[p] = "unlink" /\ lockFile' = NoFile /\ UNCHANGED <<reapers, strays>>
        /\ at' = [at EXCEPT ![p] = "open"]
    BY <1>5 DEF Reap
  <2>2. NoReapingRace => \A q \in Lockers : at[q] \notin Owning
    BY <2>1
  <2>3. NoReapingRace => \A q \in Lockers : at[q] = "unlink" => q = p
    BY <2>1
  <2> QED
    BY <2>1, <2>2, <2>3
<1>6. ASSUME NEW p \in Lockers, ReleaseUnlink(p) PROVE LockInv'
  <2>1. /\ at[p] = "remove" /\ lockFile' = NoFile /\ UNCHANGED <<reapers, strays>>
        /\ at' = [at EXCEPT ![p] = at'[p]]
        /\ at'[p] \in {"idle", "working"}
    BY <1>6 DEF ReleaseUnlink
  <2>2. NoReapingRace => \A q \in Lockers : at[q] \in Owning => q = p
    BY <2>1
  <2>3. NoReapingRace => \A q \in Lockers : at[q] # "unlink"
    BY <2>1
  <2> QED
    BY <2>1, <2>2, <2>3
<1>7. CASE LockAge
  <2>1. /\ lockFile # NoFile /\ lockFile' # NoFile /\ lockFile'.owner = lockFile.owner
        /\ UNCHANGED <<at, reapers, strays>> /\ lockFile'.stale
        /\ LongHold \/ at[lockFile.owner] \notin Owning
    BY <1>7 DEF LockAge
  <2> QED
    BY <2>1
<1>8. CASE UNCHANGED lockVars
  BY <1>8 DEF lockVars
<1>9. ASSUME NEW p \in Lockers, ReleaseRead(p) PROVE LockInv'
  <2>1. /\ lockFile # NoFile /\ lockFile.owner = p
        /\ UNCHANGED <<lockFile, reapers>>
        /\ at' = [at EXCEPT ![p] = "remove"]
        /\ strays' = IF at[p] = "working" THEN strays \cup {p} ELSE strays
        /\ at[p] \in {"holding", "working"}
    BY <1>9 DEF ReleaseRead, OwnFile
  <2>2. CASE at[p] = "holding"
    BY <2>1, <2>2
  <2>3. CASE at[p] = "working"
    <3>1. strays' # {}
      BY <2>1, <2>3
    <3>2. NoReapingRace' => reapers = {} /\ reapers' = {}
      BY <2>1, <3>1
    <3>3. \A q \in Lockers : at'[q] \in Owning => at[q] \in Owning \/ q = p
      BY <2>1
    <3>4. \A q \in Lockers : at'[q] = "unlink" => at[q] = "unlink"
      BY <2>1
    <3> QED
      BY <2>1, <3>1, <3>2, <3>3, <3>4
  <2> QED
    BY <2>1, <2>2, <2>3
<1> QED
  BY <1>1, <1>2, <1>3, <1>4, <1>5, <1>6, <1>7, <1>8, <1>9 DEF LockNext

LEMMA LockInvariance == LockSpec => []LockInv
<1>1. LockInit => LockInv
  BY DEF LockInit, LockInv, LockTypeOK, LockPC, UnlinkersReap, ZombiesUnowned, OwnersFile,
         ZombieStays, Owning
<1>2. LockInv /\ LockTypeOK' /\ [LockNext]_lockVars => LockInv'
  BY InductiveLock
<1> QED
  BY <1>1, <1>2, LockTypeCorrect, PTL DEF LockSpec

(* The lock excludes unless two processes reap, a holder outlives its own lock
   file, or a process without the lock removes one that was reaped meanwhile. *)
THEOREM LockExcludes == LockSpec => []ExclusiveUnlessReaped
<1>1. LockInv => ExclusiveUnlessReaped
  BY DEF LockInv, OwnersFile, ExclusiveUnlessReaped, Exclusive, Owning
<1> QED
  BY <1>1, LockInvariance, PTL

(* Under the same condition a release removes the file whose pid was read. *)
THEOREM LockReleases == LockSpec => []ReleasesOwnLock
<1>1. LockInv => ReleasesOwnLock
  BY DEF LockInv, OwnersFile, ReleasesOwnLock, Owning
<1> QED
  BY <1>1, LockInvariance, PTL

=============================================================================
