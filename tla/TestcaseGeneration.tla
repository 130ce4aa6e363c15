------------------------- MODULE TestcaseGeneration -------------------------
(***************************************************************************)
(* One generation task of src/services/testcase_generation_service.py: the *)
(* pipeline that makes test cases from test points, and the requests that  *)
(* edit, recompile and review the cases once they are in the database.     *)
(*                                                                         *)
(* The task lives in memory and in task_state.json, the cases in the       *)
(* database; no lock covers both.  Everything is one event loop, so an     *)
(* action is the code from one await to the next.                          *)
(***************************************************************************)
EXTENDS Integers, Sequences, FiniteSets, Functions

CONSTANTS
  Points,         \* the selected test points
  Batches,        \* the batches they are packed in: a partition of Points
  Requests,       \* HTTP requests about a case that may be in flight together
  MaxConcurrency, \* batches that may be with an agent together
  MaxCases,       \* bound: cases generated
  MaxText,        \* bound: edits of a case
  MaxCrashes      \* bound: restarts of the process

ASSUME GenerationAssumption ==
  /\ IsFiniteSet(Points) /\ Batches \subseteq SUBSET Points
  /\ MaxConcurrency \in Nat \ {0} /\ MaxCases \in Nat
  /\ MaxText \in Nat /\ MaxCrashes \in Nat

Status == {"queued", "processing", "pending_review", "completed", "failed"}

(* Where _run_pipeline is; "over" after its end, or that of the process. *)
Active == {"created", "batches", "coverage", "executability", "persist", "publish"}

(* A case in the database: its review (approved or rejected), the test point
   it names, the version of its text and the one exec_script is compiled from. *)
CaseIds == 1..MaxCases
Row == [review : {"pending_review", "reviewed"}, point : Points,
        text : 0..MaxText, script : 0..MaxText]
NoRow == [review |-> "none"]

VARIABLES
  status,  \* GenerationTask.status
  disk,    \* the status in task_state.json
  pc,      \* where the pipeline is
  batch,   \* "waiting", "running", "done" or "failed"
  cases,   \* all_cases: the point each case names; empty once they are in the table
  row,     \* the table of cases
  at,      \* where a request is
  on,      \* its case
  text,    \* the text it compiles
  reads,   \* history: the text it found
  crashes,
  relabelled, \* history: executability healing replaced a case by one of another point
  raced,   \* history: cases written by requests that overlapped
  missed   \* history: a completion was overwritten, or cut off by a crash

task == <<status, disk>>
request == <<at, on, text, reads>>
vars == <<task, pc, batch, cases, row, request, crashes, relabelled, raced, missed>>

TypeOK ==
  /\ status \in Status /\ disk \in Status
  /\ pc \in Active \cup {"over"}
  /\ batch \in [Batches -> {"waiting", "running", "done", "failed"}]
  /\ cases \in Seq(Points) /\ Len(cases) <= MaxCases
  /\ row \in [CaseIds -> Row \cup {NoRow}]
  /\ at \in [Requests -> {"idle", "editing", "recompiling", "reviewed", "complete"}]
  /\ on \in [Requests -> CaseIds \cup {0}]
  /\ text \in [Requests -> 0..MaxText] /\ reads \in [Requests -> 0..MaxText]
  /\ crashes \in 0..MaxCrashes
  /\ relabelled \in BOOLEAN /\ raced \subseteq CaseIds /\ missed \in BOOLEAN

(* start_generation. *)
Init ==
  /\ status = "queued" /\ disk = "queued"
  /\ pc = "created"
  /\ batch = [b \in Batches |-> "waiting"]
  /\ cases = <<>>
  /\ row = [c \in CaseIds |-> NoRow]
  /\ at = [r \in Requests |-> "idle"] /\ on = [r \in Requests |-> 0]
  /\ text = [r \in Requests |-> 0] /\ reads = [r \in Requests |-> 0]
  /\ crashes = 0
  /\ relabelled = FALSE /\ raced = {} /\ missed = FALSE

Rows == {c \in CaseIds : row[c] # NoRow}
AllReviewed == Rows # {} /\ \A c \in Rows : row[c].review # "pending_review"
Missing == Points \ Range(cases)

(* The status is set and saved under the store lock. *)
Set(s) == status' = s /\ disk' = s

Count(s) == Cardinality({b \in Batches : batch[b] = s})

-----------------------------------------------------------------------------
(***************************************************************************)
(* _run_pipeline.                                                          *)
(***************************************************************************)
LoadSkill ==
  /\ pc = "created"
  /\ pc' = "batches" /\ Set("processing")
  /\ UNCHANGED <<batch, cases, row, request, crashes, relabelled, raced, missed>>

StartBatch(b) ==
  /\ pc = "batches" /\ batch[b] = "waiting" /\ Count("running") < MaxConcurrency
  /\ batch' = [batch EXCEPT ![b] = "running"]
  /\ UNCHANGED <<task, pc, cases, row, request, crashes, relabelled, raced, missed>>

(* _generate_batch: at least one case, each of a point the agent names. *)
Generated(b) ==
  {out \in UNION {[1..n -> Points] : n \in 1..Cardinality(b)} :
     Len(cases) + Len(out) <= MaxCases}

BatchDone(b) ==
  /\ pc = "batches" /\ batch[b] = "running"
  /\ \E out \in Generated(b) : cases' = cases \o out
  /\ batch' = [batch EXCEPT ![b] = "done"]
  /\ Set("processing")
  /\ UNCHANGED <<pc, row, request, crashes, relabelled, raced, missed>>

(* An agent failed, or its answer holds no case; gather goes on. *)
BatchFails(b) ==
  /\ pc = "batches" /\ batch[b] = "running"
  /\ batch' = [batch EXCEPT ![b] = "failed"]
  /\ UNCHANGED <<task, pc, cases, row, request, crashes, relabelled, raced, missed>>

(* validate_ui_case_coverage; a point without a case is generated once more. *)
CheckCoverage ==
  /\ pc = "batches" /\ \A b \in Batches : batch[b] \in {"done", "failed"}
  /\ cases # <<>>
  /\ IF Missing = {} THEN pc' = "executability" /\ Set("processing")
                     ELSE pc' = "coverage" /\ UNCHANGED task
  /\ UNCHANGED <<batch, cases, row, request, crashes, relabelled, raced, missed>>

(* Mutation: the coverage is not validated again. *)
HealCoverageOnce ==
  /\ pc = "coverage"
  /\ \E out \in Generated(Missing) : cases' = cases \o out
  /\ pc' = "executability" /\ Set("processing")
  /\ UNCHANGED <<batch, row, request, crashes, relabelled, raced, missed>>

(* Bound: the missing points fit one batch. *)
HealCoverage ==
  /\ pc = "coverage"
  /\ \E out \in Generated(Missing) : cases' = cases \o out
  /\ Points \subseteq Range(cases')
  /\ pc' = "executability" /\ Set("processing")
  /\ UNCHANGED <<batch, row, request, crashes, relabelled, raced, missed>>

(* heal_cases_for_executability: a case whose script does not compile well is
   replaced.  _merge_trace_fields keeps the point the new case names.
   Bound: one case names another point. *)
HealExecutability ==
  /\ pc = "executability"
  /\ \/ UNCHANGED <<cases, relabelled>>
     \/ \E i \in DOMAIN cases, p \in Points :
          /\ p # cases[i]
          /\ cases' = [cases EXCEPT ![i] = p]
          /\ relabelled' = TRUE
  /\ pc' = "persist" /\ Set("processing")
  /\ UNCHANGED <<batch, row, request, crashes, raced, missed>>

(* _persist_cases: one transaction. *)
PersistCases ==
  /\ pc = "persist"
  /\ row' = [c \in CaseIds |->
               IF c \in DOMAIN cases
               THEN [review |-> "pending_review", point |-> cases[c],
                     text |-> 0, script |-> 0]
               ELSE NoRow]
  /\ pc' = "publish"
  /\ cases' = <<>>
  /\ UNCHANGED <<task, batch, request, crashes, relabelled, raced, missed>>

(* The cases are already there to be reviewed. *)
Publish ==
  /\ pc = "publish"
  /\ pc' = "over" /\ Set("pending_review")
  /\ missed' = AllReviewed
  /\ UNCHANGED <<batch, cases, row, request, crashes, relabelled, raced>>

(* Any exception: no batch left, no coverage, a log or a file not written. *)
PipelineFails ==
  /\ pc \in Active
  /\ pc' = "over" /\ Set("failed")
  /\ missed' = AllReviewed
  /\ UNCHANGED <<batch, cases, row, request, crashes, relabelled, raced>>

-----------------------------------------------------------------------------
(***************************************************************************)
(* Requests about a case.                                                  *)
(***************************************************************************)
Overlap(r, c) ==
  raced' = IF \E q \in Requests \ {r} : at[q] \in {"editing", "recompiling"} /\ on[q] = c
           THEN raced \cup {c} ELSE raced

Ask(r, phase, c, version) ==
  /\ at[r] = "idle"
  /\ at' = [at EXCEPT ![r] = phase]
  /\ on' = [on EXCEPT ![r] = c]
  /\ text' = [text EXCEPT ![r] = version]
  /\ reads' = [reads EXCEPT ![r] = row[c].text]
  /\ Overlap(r, c)
  /\ UNCHANGED <<task, pc, batch, cases, row, crashes, relabelled, missed>>

(* Mutation: the case is compiled before the new text is put in. *)
UpdateCaseLate(r) ==
  \E c \in Rows : row[c].text < MaxText /\ Ask(r, "editing", c, row[c].text)

(* update_case: a new text, compiled, and an agent asked for advice. *)
UpdateCase(r) ==
  \E c \in Rows : row[c].text < MaxText /\ Ask(r, "editing", c, row[c].text + 1)

(* recompile_case: the text it finds. *)
RecompileCase(r) ==
  \E c \in Rows : Ask(r, "recompiling", c, row[c].text)

(* commit writes the columns that were set: a recompilation sets no text. *)
CommitScript(r) ==
  LET c == on[r] IN
  /\ at[r] \in {"editing", "recompiling"}
  /\ row' = [row EXCEPT ![c].script = text[r],
                        ![c].text = IF at[r] = "editing" THEN reads[r] + 1 ELSE @]
  /\ at' = [at EXCEPT ![r] = "idle"]
  /\ on' = [on EXCEPT ![r] = 0]
  /\ text' = [text EXCEPT ![r] = 0] /\ reads' = [reads EXCEPT ![r] = 0]
  /\ UNCHANGED <<task, pc, batch, cases, crashes, relabelled, raced, missed>>

(* Mutation: the cases are counted before the review is committed. *)
ReviewCounted(r) ==
  \E c \in Rows :
    /\ at[r] = "idle"
    /\ row' = [row EXCEPT ![c].review = "reviewed"]
    /\ at' = [at EXCEPT ![r] = IF AllReviewed THEN "complete" ELSE "idle"]
    /\ UNCHANGED <<task, pc, batch, cases, on, text, reads, crashes, relabelled,
                   raced, missed>>

(* _review_case: whatever the review was, it is set and committed. *)
ReviewCase(r) ==
  \E c \in Rows :
    /\ at[r] = "idle"
    /\ row' = [row EXCEPT ![c].review = "reviewed"]
    /\ at' = [at EXCEPT ![r] = "reviewed"]
    /\ UNCHANGED <<task, pc, batch, cases, on, text, reads, crashes, relabelled,
                   raced, missed>>

(* Mutation: some case is reviewed. *)
CountReviewsLoosely(r) ==
  /\ at[r] = "reviewed"
  /\ at' = [at EXCEPT ![r] =
              IF \E c \in Rows : row[c].review # "pending_review" THEN "complete" ELSE "idle"]
  /\ UNCHANGED <<task, pc, batch, cases, row, on, text, reads, crashes, relabelled,
                 raced, missed>>

(* _maybe_complete_task reads the cases ... *)
CountReviews(r) ==
  /\ at[r] = "reviewed"
  /\ at' = [at EXCEPT ![r] = IF AllReviewed THEN "complete" ELSE "idle"]
  /\ UNCHANGED <<task, pc, batch, cases, row, on, text, reads, crashes, relabelled,
                 raced, missed>>

(* ... and completes the task, whatever its status, under the store lock. *)
CompleteTask(r) ==
  /\ at[r] = "complete"
  /\ IF status = "completed" THEN UNCHANGED task ELSE Set("completed")
  /\ at' = [at EXCEPT ![r] = "idle"]
  /\ UNCHANGED <<pc, batch, cases, row, on, text, reads, crashes, relabelled,
                 raced, missed>>

-----------------------------------------------------------------------------
(* Mutation: the status is taken from the file as it is. *)
RestartAsSaved ==
  /\ crashes < MaxCrashes /\ crashes' = crashes + 1
  /\ status' = disk /\ UNCHANGED disk
  /\ pc' = "over"
  /\ at' = [r \in Requests |-> "idle"]
  /\ missed' = (missed \/ \E r \in Requests : at[r] \in {"reviewed", "complete"})
  /\ UNCHANGED <<batch, cases, row, on, text, reads, relabelled, raced>>

(* A crash anywhere, and _scan_storage of the next process: what was at work
   has failed.  The cases stay in the database. *)
Restart ==
  /\ crashes < MaxCrashes /\ crashes' = crashes + 1
  /\ Set(IF disk \in {"queued", "processing"} THEN "failed" ELSE disk)
  /\ pc' = "over"
  /\ at' = [r \in Requests |-> "idle"]
  /\ missed' = (missed \/ \E r \in Requests : at[r] \in {"reviewed", "complete"})
  /\ UNCHANGED <<batch, cases, row, on, text, reads, relabelled, raced>>

Pipeline ==
  \/ LoadSkill \/ CheckCoverage \/ HealCoverage \/ HealExecutability
  \/ PersistCases \/ Publish \/ PipelineFails
  \/ \E b \in Batches : StartBatch(b) \/ BatchDone(b) \/ BatchFails(b)

Next ==
  \/ Pipeline
  \/ \E r \in Requests :
       \/ UpdateCase(r) \/ RecompileCase(r) \/ CommitScript(r)
       \/ ReviewCase(r) \/ CountReviews(r) \/ CompleteTask(r)
  \/ Restart

Spec == Init /\ [][Next]_vars

-----------------------------------------------------------------------------
(***************************************************************************)
(* Properties.                                                             *)
(***************************************************************************)
(* A case reaches the reviewers only when every selected test point has one,
   unless executability healing, which comes after the check, has renamed
   the point of a case. *)
EveryPointHasCase ==
  Rows # {} => Points \subseteq {row[c].point : c \in Rows} \/ relabelled

(* A task is completed with no case left to review. *)
CompletedIsReviewed ==
  status = "completed" => \A c \in Rows : row[c].review # "pending_review"

(* The last review completes the task, however many come at once: nothing
   completes it later.  Unless the reviews were in before the pipeline set its
   own status, or the process died between the review and the completion. *)
LastReviewCompletes ==
  pc = "over" /\ AllReviewed /\ (\A r \in Requests : at[r] \notin {"reviewed", "complete"})
    => status = "completed" \/ missed

(* "Marks interrupted tasks failed, to avoid false running": a task that is
   queued or processing has a pipeline at work, before and after restarts. *)
NoFalseRun == status \in {"queued", "processing"} => pc \in Active

(* The script of a case is that of its text, unless two requests wrote it at
   once: an edit and a recompilation of what was before the edit. *)
ScriptFitsText ==
  \A c \in Rows \ raced : row[c].script = row[c].text

=============================================================================
