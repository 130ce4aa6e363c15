---------------------- MODULE TestcaseGenerationProofs ----------------------
(***************************************************************************)
(* The five invariants of TestcaseGeneration, for any number of test       *)
(* points, batches, requests, cases, edits and crashes.                    *)
(*                                                                         *)
(* The argument: until the pipeline has persisted its cases there is no    *)
(* case for a request to be about (NoCaseYet); a case is never put back to *)
(* review, so that what a request counted still holds when it completes    *)
(* the task (CountsStay); and a case that is not raced has one writer,     *)
(* which compiles the text it is about to write (OneWriter, Compiles).     *)
(***************************************************************************)
EXTENDS TestcaseGeneration, FiniteSetTheorems, TLAPS

Writing == {"editing", "recompiling"}

(* The table is filled by the last action of the pipeline but one. *)
NoCaseYet == pc \in Active \ {"publish"} => Rows = {}

AtWork == pc \in Active \ {"publish"} => status \in {"queued", "processing"}

(* Requests are about cases of the table. *)
OnRows ==
  /\ \A r \in Requests : at[r] \in Writing => on[r] \in Rows
  /\ \A r \in Requests : at[r] \in {"reviewed", "complete"} => Rows # {}

(* The check of the coverage is past. *)
Covered ==
  pc \in {"executability", "persist"} => Points \subseteq Range(cases) \/ relabelled

CountsStay == \A r \in Requests : at[r] = "complete" => AllReviewed

Saved == status = disk

(* A task all of whose cases are reviewed is completed, or about to be. *)
Completes ==
  pc \in {"publish", "over"} /\ AllReviewed /\ (\A r \in Requests : at[r] \notin {"reviewed", "complete"})
    => status = "completed" \/ missed

OneWriter ==
  \A q, r \in Requests :
    q # r /\ at[q] \in Writing /\ at[r] \in Writing /\ on[q] = on[r] => on[q] \in raced

Compiles ==
  \A r \in Requests :
    at[r] \in Writing /\ on[r] \notin raced =>
      /\ reads[r] = row[on[r]].text
      /\ text[r] = IF at[r] = "editing" THEN reads[r] + 1 ELSE reads[r]

Bounded ==
  \A r \in Requests : at[r] = "editing" => reads[r] + 1 <= MaxText

Board == OnRows /\ CountsStay /\ CompletedIsReviewed
Writers == OneWriter /\ Compiles /\ Bounded /\ ScriptFitsText
Stage == NoCaseYet /\ AtWork /\ Covered /\ EveryPointHasCase /\ NoFalseRun /\ Saved

Inv == TypeOK /\ Stage /\ Board /\ Completes /\ Writers

-----------------------------------------------------------------------------
(* Every variable keeps its type. *)
LEMMA OutTyped ==
  ASSUME NEW b \in SUBSET Points, NEW out \in Generated(b), cases \in Seq(Points)
  PROVE  /\ cases \o out \in Seq(Points)
         /\ Len(cases \o out) <= MaxCases
         /\ Range(cases) \subseteq Range(cases \o out)
<1>1. IsFiniteSet(b)
  BY GenerationAssumption, FS_Subset
<1>2. Cardinality(b) \in Nat
  BY <1>1, FS_CardinalityType
<1>3. PICK n \in 1..Cardinality(b) : out \in [1..n -> Points]
  BY DEF Generated
<1>4. n \in Nat /\ out \in Seq(Points) /\ Len(out) = n
  BY <1>2, <1>3
<1>5. Len(cases) + Len(out) <= MaxCases
  BY DEF Generated
<1>6. cases \o out \in Seq(Points) /\ Len(cases \o out) = Len(cases) + Len(out)
  BY <1>4
<1>7. \A i \in DOMAIN cases : i \in DOMAIN (cases \o out) /\ (cases \o out)[i] = cases[i]
  BY <1>4, <1>6
<1> QED
  BY <1>5, <1>6, <1>7 DEF Range

LEMMA RowTyped ==
  ASSUME TypeOK, NEW c \in Rows
  PROVE  c \in CaseIds /\ row[c] \in Row
BY DEF TypeOK, Rows

LEMMA NoRowIsNoRow == NoRow \notin Row
BY DEF NoRow, Row

(* What a commit makes of a row. *)
LEMMA CommitRow ==
  ASSUME TypeOK, NEW r \in Requests, CommitScript(r), on[r] \in Rows
  PROVE  LET c == on[r]
             new == IF at[r] = "editing" THEN reads[r] + 1 ELSE row[c].text
         IN  row' = [row EXCEPT ![c] = [[row[c] EXCEPT !.script = text[r]] EXCEPT !.text = new]]
<1> DEFINE c == on[r]
           mid == [row EXCEPT ![c].script = text[r]]
<1>1. c \in CaseIds /\ row[c] \in Row /\ c \in DOMAIN row
  BY RowTyped DEF TypeOK
<1>2. row' = [mid EXCEPT ![c].text = IF at[r] = "editing" THEN reads[r] + 1 ELSE @]
  BY Zenon DEF CommitScript
<1>3. mid = [row EXCEPT ![c] = [row[c] EXCEPT !.script = text[r]]]
  BY Zenon
<1>4. mid[c] = [row[c] EXCEPT !.script = text[r]] /\ mid[c].text = row[c].text
  BY <1>1, <1>3 DEF Row
<1> QED
  BY <1>1, <1>2, <1>3, <1>4 DEF TypeOK

LEMMA CommitRest ==
  ASSUME NEW r \in Requests, CommitScript(r)
  PROVE  /\ at[r] \in Writing
         /\ at' = [at EXCEPT ![r] = "idle"]
         /\ on' = [on EXCEPT ![r] = 0]
         /\ text' = [text EXCEPT ![r] = 0] /\ reads' = [reads EXCEPT ![r] = 0]
         /\ UNCHANGED <<task, pc, batch, cases, crashes, relabelled, raced, missed>>
BY Zenon DEF CommitScript, Writing

LEMMA TypePipeline ==
  ASSUME TypeOK, Pipeline
  PROVE  TypeOK'
<1>1. ASSUME NEW b \in SUBSET Points,
             \E out \in Generated(b) : cases' = cases \o out
      PROVE  cases' \in Seq(Points) /\ Len(cases') <= MaxCases
  BY <1>1, OutTyped DEF TypeOK
<1>2. CASE LoadSkill
  BY <1>2 DEF LoadSkill, TypeOK, Set, Status, Active, task, request
<1>3. CASE CheckCoverage
  BY <1>3 DEF CheckCoverage, TypeOK, Set, Status, Active, task, request
<1>4. CASE HealCoverage
  <2>1. cases' \in Seq(Points) /\ Len(cases') <= MaxCases
    BY <1>1, <1>4 DEF HealCoverage, Missing
  <2> QED
    BY <2>1, <1>4 DEF HealCoverage, TypeOK, Set, Status, Active, task, request
<1>5. CASE HealExecutability
  <2>1. cases' \in Seq(Points) /\ Len(cases') <= MaxCases
    <3>1. CASE UNCHANGED <<cases, relabelled>>
      BY <3>1 DEF TypeOK
    <3>2. CASE ~ UNCHANGED <<cases, relabelled>>
      <4>1. PICK i \in DOMAIN cases, p \in Points : cases' = [cases EXCEPT ![i] = p]
        BY <1>5, <3>2 DEF HealExecutability
      <4> QED
        BY <4>1 DEF TypeOK
    <3> QED
      BY <3>1, <3>2
  <2>2. relabelled' \in BOOLEAN
    BY <1>5 DEF HealExecutability, TypeOK
  <2> QED
    BY <2>1, <2>2, <1>5 DEF HealExecutability, TypeOK, Set, Status, Active, task, request
<1>6. CASE PersistCases
  <2>1. row' \in [CaseIds -> Row \cup {NoRow}]
    BY <1>6, GenerationAssumption DEF PersistCases, TypeOK, Row
  <2>2. cases' \in Seq(Points) /\ Len(cases') <= MaxCases
    BY <1>6, GenerationAssumption DEF PersistCases
  <2> QED
    BY <2>1, <2>2, <1>6 DEF PersistCases, TypeOK, Active, task, request
<1>7. CASE Publish
  BY <1>7 DEF Publish, TypeOK, Set, Status, request, AllReviewed
<1>8. CASE PipelineFails
  BY <1>8 DEF PipelineFails, TypeOK, Set, Status, request, AllReviewed
<1>9. ASSUME NEW b \in Batches, StartBatch(b) \/ BatchFails(b)
      PROVE  TypeOK'
  BY <1>9 DEF StartBatch, BatchFails, TypeOK, task, request
<1>10. ASSUME NEW b \in Batches, BatchDone(b)
       PROVE  TypeOK'
  <2>1. cases' \in Seq(Points) /\ Len(cases') <= MaxCases
    BY <1>1, <1>10, GenerationAssumption DEF BatchDone
  <2> QED
    BY <2>1, <1>10 DEF BatchDone, TypeOK, Set, Status, request
<1> QED
  BY <1>2, <1>3, <1>4, <1>5, <1>6, <1>7, <1>8, <1>9, <1>10 DEF Pipeline

LEMMA TypeAsk ==
  ASSUME TypeOK, NEW r \in Requests, NEW c \in Rows,
         NEW phase \in {"editing", "recompiling"}, NEW v \in 0..MaxText,
         Ask(r, phase, c, v)
  PROVE  TypeOK'
<1>1. c \in CaseIds /\ row[c].text \in 0..MaxText
  BY RowTyped DEF Row
<1>2. /\ at' \in [Requests -> {"idle", "editing", "recompiling", "reviewed", "complete"}]
      /\ on' \in [Requests -> CaseIds \cup {0}]
      /\ text' \in [Requests -> 0..MaxText]
      /\ reads' \in [Requests -> 0..MaxText]
  BY <1>1 DEF Ask, TypeOK
<1>3. raced' \subseteq CaseIds
  BY <1>1 DEF Ask, Overlap, TypeOK
<1> QED
  BY <1>2, <1>3 DEF Ask, TypeOK, task

LEMMA TypeRequest ==
  ASSUME Inv, NEW r \in Requests,
         UpdateCase(r) \/ RecompileCase(r) \/ CommitScript(r) \/ ReviewCase(r)
           \/ CountReviews(r) \/ CompleteTask(r)
  PROVE  TypeOK'
<1> TypeOK
  BY DEF Inv
<1>1. CASE UpdateCase(r)
  <2>1. PICK c \in Rows : row[c].text < MaxText /\ Ask(r, "editing", c, row[c].text + 1)
    BY <1>1 DEF UpdateCase
  <2>2. row[c].text + 1 \in 0..MaxText
    BY <2>1, RowTyped, GenerationAssumption DEF Row
  <2> QED
    BY <2>1, <2>2, TypeAsk
<1>2. CASE RecompileCase(r)
  <2>1. PICK c \in Rows : Ask(r, "recompiling", c, row[c].text)
    BY <1>2 DEF RecompileCase
  <2>2. row[c].text \in 0..MaxText
    BY <2>1, RowTyped DEF Row
  <2> QED
    BY <2>1, <2>2, TypeAsk
<1>3. CASE CommitScript(r)
  <2>1. at[r] \in Writing /\ on[r] \in Rows
    BY <1>3 DEF CommitScript, Inv, Board, OnRows, Writing
  <2>2. /\ text[r] \in 0..MaxText
        /\ at[r] = "editing" => reads[r] + 1 \in 0..MaxText
    BY GenerationAssumption DEF TypeOK, Inv, Writers, Bounded
  <2> DEFINE new == IF at[r] = "editing" THEN reads[r] + 1 ELSE row[on[r]].text
  <2>3. on[r] \in CaseIds /\ row[on[r]] \in Row /\ new \in 0..MaxText
    BY <2>1, <2>2, RowTyped DEF Row
  <2>4. row' = [row EXCEPT ![on[r]] = [[row[on[r]] EXCEPT !.script = text[r]] EXCEPT !.text = new]]
    BY <1>3, <2>1, CommitRow
  <2>5. [[row[on[r]] EXCEPT !.script = text[r]] EXCEPT !.text = new] \in Row
    BY <2>2, <2>3 DEF Row
  <2>6. row' \in [CaseIds -> Row \cup {NoRow}]
    BY <2>3, <2>4, <2>5 DEF TypeOK
  <2>7. 0 \in 0..MaxText /\ 0 \in CaseIds \cup {0}
    BY GenerationAssumption
  <2>8. /\ at' \in [Requests -> {"idle", "editing", "recompiling", "reviewed", "complete"}]
        /\ on' \in [Requests -> CaseIds \cup {0}]
        /\ text' \in [Requests -> 0..MaxText] /\ reads' \in [Requests -> 0..MaxText]
    BY <1>3, <2>7, CommitRest DEF TypeOK
  <2>9. UNCHANGED <<status, disk, pc, batch, cases, crashes, relabelled, raced, missed>>
    BY <1>3, CommitRest DEF task
  <2> QED
    BY <2>6, <2>8, <2>9 DEF TypeOK
<1>4. CASE ReviewCase(r)
  <2>1. PICK c \in Rows : row' = [row EXCEPT ![c].review = "reviewed"]
    BY <1>4 DEF ReviewCase
  <2>2. [row[c] EXCEPT !.review = "reviewed"] \in Row
    BY RowTyped DEF Row
  <2>3. row' \in [CaseIds -> Row \cup {NoRow}]
    BY <2>1, <2>2, RowTyped DEF TypeOK
  <2> QED
    BY <1>4, <2>3 DEF ReviewCase, TypeOK, task
<1>5. CASE CountReviews(r)
  BY <1>5 DEF CountReviews, TypeOK, task
<1>6. CASE CompleteTask(r)
  BY <1>6 DEF CompleteTask, TypeOK, task, Set, Status
<1> QED
  BY <1>1, <1>2, <1>3, <1>4, <1>5, <1>6

LEMMA TypeRestart ==
  ASSUME TypeOK, Restart
  PROVE  TypeOK'
BY GenerationAssumption DEF Restart, TypeOK, Set, Status

-----------------------------------------------------------------------------
(***************************************************************************)
(* The stages of the pipeline, and the cases it leaves.                    *)
(***************************************************************************)
LEMMA InitInv == Init => Inv
<1> SUFFICES ASSUME Init PROVE Inv
  OBVIOUS
<1>1. Rows = {}
  BY DEF Init, Rows
<1>2. TypeOK
  <2>1. 0 \in 0..MaxText /\ 0 \in 0..MaxCrashes
    BY GenerationAssumption
  <2>2. cases \in Seq(Points) /\ Len(cases) <= MaxCases
    BY GenerationAssumption DEF Init
  <2>3. /\ batch \in [Batches -> {"waiting", "running", "done", "failed"}]
        /\ row \in [CaseIds -> Row \cup {NoRow}]
    BY DEF Init
  <2> QED
    BY <2>1, <2>2, <2>3 DEF Init, TypeOK, Status, Active
<1>3. Stage
  BY <1>1 DEF Init, Stage, NoCaseYet, AtWork, Covered, EveryPointHasCase, NoFalseRun, Saved, Active
<1>4. Board /\ Completes
  BY <1>1 DEF Init, Board, OnRows, Writing, CountsStay, CompletedIsReviewed, Completes
<1>5. Writers
  BY <1>1 DEF Init, Writers, OneWriter, Compiles, Bounded, ScriptFitsText, Writing
<1> QED
  BY <1>2, <1>3, <1>4, <1>5 DEF Inv

(* What the pipeline does not touch. *)
LEMMA WritersKept ==
  ASSUME Writers, UNCHANGED <<row, request, raced>>
  PROVE  Writers'
BY DEF Writers, OneWriter, Compiles, Bounded, ScriptFitsText, Rows, CaseIds, NoRow, request

LEMMA BoardKept ==
  ASSUME Board, UNCHANGED <<row, request>>, status' # "completed" \/ UNCHANGED status
  PROVE  Board'
BY DEF Board, OnRows, CountsStay, CompletedIsReviewed, AllReviewed, Rows, CaseIds, NoRow,
       request

LEMMA RowsKept ==
  ASSUME UNCHANGED row
  PROVE  UNCHANGED Rows /\ UNCHANGED AllReviewed
BY DEF Rows, AllReviewed, CaseIds, NoRow

(* A step inside the pipeline, before it has persisted anything. *)
LEMMA BeforePersist ==
  ASSUME Inv, pc \in Active \ {"publish"}, pc' \in Active \ {"publish"},
         UNCHANGED <<row, request, raced>>,
         UNCHANGED task \/ Set("processing"),
         Covered'
  PROVE  Stage' /\ Board' /\ Completes' /\ Writers'
<1>1. UNCHANGED Rows /\ Rows = {}
  BY RowsKept DEF Inv, Stage, NoCaseYet
<1>2. Stage'
  BY <1>1 DEF Inv, Stage, NoCaseYet, AtWork, EveryPointHasCase, NoFalseRun, Saved, Set, task
<1>3. Board'
  BY BoardKept DEF Inv, Set, task
<1>4. Completes'
  BY DEF Completes, Active
<1> QED
  BY <1>2, <1>3, <1>4, WritersKept DEF Inv

LEMMA StagePersist ==
  ASSUME Inv, PersistCases
  PROVE  Stage' /\ Board' /\ Completes' /\ Writers'
<1> TypeOK
  BY DEF Inv
<1>1. Rows = {} /\ pc' = "publish"
  BY DEF Inv, Stage, NoCaseYet, PersistCases, Active
<1>2. \A r \in Requests : at[r] \notin Writing \cup {"reviewed", "complete"}
  BY <1>1 DEF Inv, Board, OnRows
<1>3. UNCHANGED <<status, disk, at, on, text, reads, relabelled, raced, missed>>
  BY DEF PersistCases, task, request
<1>4. /\ DOMAIN cases \subseteq CaseIds
      /\ \A c \in CaseIds :
           /\ c \in DOMAIN cases =>
                /\ row'[c].review = "pending_review" /\ row'[c].point = cases[c]
                /\ row'[c].text = 0 /\ row'[c].script = 0 /\ row'[c] \in Row
           /\ c \notin DOMAIN cases => row'[c] = NoRow
  <2>1. DOMAIN cases \subseteq CaseIds
    BY GenerationAssumption DEF TypeOK, CaseIds
  <2>2. \A c \in DOMAIN cases : cases[c] \in Points
    BY DEF TypeOK
  <2> QED
    BY <2>1, <2>2, GenerationAssumption DEF PersistCases, Row
<1>5. Rows' = DOMAIN cases
  BY <1>4, NoRowIsNoRow DEF Rows
<1>6. AllReviewed' => FALSE
  BY <1>4, <1>5 DEF AllReviewed
<1>7. status \in {"queued", "processing"}
  BY DEF Inv, Stage, AtWork, PersistCases, Active
<1>8. Stage'
  <2>1. NoCaseYet' /\ AtWork' /\ Covered'
    BY <1>1 DEF NoCaseYet, AtWork, Covered
  <2>2. NoFalseRun' /\ Saved'
    BY <1>1, <1>3 DEF NoFalseRun, Saved, Active, Inv, Stage
  <2>3. Points \subseteq Range(cases) \/ relabelled
    BY DEF Inv, Stage, Covered, PersistCases
  <2>4. Points \subseteq {row'[c].point : c \in Rows'} \/ relabelled'
    <3>1. CASE relabelled
      BY <3>1, <1>3
    <3>2. CASE Points \subseteq Range(cases)
      BY <3>2, <1>4, <1>5 DEF Range
    <3> QED
      BY <2>3, <3>1, <3>2
  <2> QED
    BY <2>1, <2>2, <2>4 DEF Stage, EveryPointHasCase
<1>9. Board'
  BY <1>2, <1>3, <1>7 DEF Board, OnRows, Writing, CountsStay, CompletedIsReviewed
<1>10. Completes'
  BY <1>6 DEF Completes
<1>11. Writers'
  <2>1. \A r \in Requests : at'[r] \notin Writing /\ at'[r] # "editing"
    BY <1>2, <1>3 DEF Writing
  <2>2. ScriptFitsText'
    BY <1>4, <1>5 DEF ScriptFitsText
  <2> QED
    BY <2>1, <2>2 DEF Writers, OneWriter, Compiles, Bounded
<1> QED
  BY <1>8, <1>9, <1>10, <1>11

LEMMA StageEnds ==
  ASSUME Inv, Publish \/ PipelineFails
  PROVE  Stage' /\ Board' /\ Completes' /\ Writers'
<1>1. /\ pc' = "over" /\ status' \in {"pending_review", "failed"} /\ disk' = status'
      /\ missed' = AllReviewed
      /\ UNCHANGED <<row, request, raced, relabelled>>
  BY DEF Publish, PipelineFails, Set
<1>2. UNCHANGED Rows /\ UNCHANGED AllReviewed
  BY <1>1, RowsKept
<1>3. Stage'
  BY <1>1, <1>2 DEF Inv, Stage, NoCaseYet, AtWork, Covered, EveryPointHasCase,
                    NoFalseRun, Saved, Active
<1>4. Board'
  BY <1>1, BoardKept DEF Inv
<1>5. Completes'
  BY <1>1, <1>2 DEF Completes
<1> QED
  BY <1>1, <1>3, <1>4, <1>5, WritersKept DEF Inv

LEMMA StagePipeline ==
  ASSUME Inv, Pipeline
  PROVE  Stage' /\ Board' /\ Completes' /\ Writers'
<1>1. CASE LoadSkill
  <2>1. Covered'
    BY <1>1 DEF LoadSkill, Covered
  <2> QED
    BY <2>1, <1>1, BeforePersist DEF LoadSkill, Active
<1>2. CASE CheckCoverage
  <2>1. Covered'
    BY <1>2 DEF CheckCoverage, Covered, Missing
  <2> QED
    BY <2>1, <1>2, BeforePersist DEF CheckCoverage, Active
<1>3. CASE HealCoverage
  <2>1. Covered'
    BY <1>3 DEF HealCoverage, Covered
  <2> QED
    BY <2>1, <1>3, BeforePersist DEF HealCoverage, Active
<1>4. CASE HealExecutability
  <2>1. Covered'
    BY <1>4 DEF HealExecutability, Covered, Inv, Stage
  <2> QED
    BY <2>1, <1>4, BeforePersist DEF HealExecutability, Active
<1>5. ASSUME NEW b \in Batches, StartBatch(b) \/ BatchDone(b) \/ BatchFails(b)
      PROVE  Stage' /\ Board' /\ Completes' /\ Writers'
  <2>1. Covered'
    BY <1>5 DEF StartBatch, BatchDone, BatchFails, Covered
  <2> QED
    BY <2>1, <1>5, BeforePersist DEF StartBatch, BatchDone, BatchFails, Active
<1> QED
  BY <1>1, <1>2, <1>3, <1>4, <1>5, StagePersist, StageEnds DEF Pipeline

-----------------------------------------------------------------------------
(***************************************************************************)
(* Requests: there is a case, so the pipeline has persisted, or is over.   *)
(***************************************************************************)
LEMMA PastPersist ==
  ASSUME Inv, Rows # {}
  PROVE  pc \in {"publish", "over"}
BY DEF Inv, TypeOK, Stage, NoCaseYet

(* A request that leaves the rows as many, and of the same points. *)
LEMMA StageOfRequest ==
  ASSUME Inv, Rows # {}, UNCHANGED <<pc, cases, relabelled>>,
         UNCHANGED Rows, \A c \in Rows : row'[c].point = row[c].point,
         UNCHANGED task \/ Set("completed")
  PROVE  Stage'
<1>1. pc' \in {"publish", "over"}
  BY PastPersist
<1>2. NoCaseYet' /\ AtWork' /\ Covered'
  BY <1>1 DEF NoCaseYet, AtWork, Covered, Active
<1>3. NoFalseRun' /\ Saved'
  BY DEF Inv, Stage, NoFalseRun, Saved, Set, task
<1>4. EveryPointHasCase'
  BY DEF Inv, Stage, EveryPointHasCase
<1> QED
  BY <1>2, <1>3, <1>4 DEF Stage

(* The reviews are the same. *)
LEMMA BoardOfWriter ==
  ASSUME Inv, Rows # {}, UNCHANGED <<pc, task, missed>>, UNCHANGED Rows,
         \A c \in Rows : row'[c].review = row[c].review,
         \A r \in Requests : at[r] # at'[r] => at[r] \in {"idle"} \cup Writing
                                             /\ at'[r] \in {"idle"} \cup Writing,
         \A r \in Requests : at'[r] \in Writing => on'[r] \in Rows
  PROVE  Board' /\ Completes'
<1>1. UNCHANGED AllReviewed
  BY DEF AllReviewed
<1>2. \A r \in Requests, s \in {"reviewed", "complete"} : at'[r] = s <=> at[r] = s
  BY DEF Writing
<1>3. UNCHANGED status
  BY DEF task
<1>4. Board'
  BY <1>1, <1>2, <1>3 DEF Inv, Board, OnRows, CountsStay, CompletedIsReviewed
<1>5. Completes'
  BY <1>1, <1>2, <1>3 DEF Inv, Completes
<1> QED
  BY <1>4, <1>5

LEMMA WriterRequest ==
  ASSUME Inv, NEW r \in Requests, NEW c \in Rows,
         NEW phase \in Writing, NEW v,
         Ask(r, phase, c, v),
         v = IF phase = "editing" THEN row[c].text + 1 ELSE row[c].text,
         phase = "editing" => row[c].text + 1 <= MaxText
  PROVE  Stage' /\ Board' /\ Completes' /\ Writers'
<1> TypeOK
  BY DEF Inv
<1>1. /\ at[r] = "idle" /\ at' = [at EXCEPT ![r] = phase] /\ on' = [on EXCEPT ![r] = c]
      /\ text' = [text EXCEPT ![r] = v] /\ reads' = [reads EXCEPT ![r] = row[c].text]
      /\ UNCHANGED <<status, disk, pc, cases, row, relabelled, missed>>
  BY DEF Ask, task
<1>2. UNCHANGED Rows /\ UNCHANGED AllReviewed /\ Rows # {}
  BY <1>1, RowsKept
<1>3. /\ \A q \in Requests \ {r} : at'[q] = at[q] /\ on'[q] = on[q]
                                    /\ text'[q] = text[q] /\ reads'[q] = reads[q]
      /\ at'[r] = phase /\ on'[r] = c /\ text'[r] = v /\ reads'[r] = row[c].text
  BY <1>1 DEF TypeOK
<1>4. Stage'
  BY <1>1, <1>2, StageOfRequest DEF task
<1>5. Board' /\ Completes'
  <2>1. \A q \in Requests : at[q] # at'[q] => at[q] \in {"idle"} \cup Writing
                                            /\ at'[q] \in {"idle"} \cup Writing
    BY <1>1, <1>3
  <2>2. \A q \in Requests : at'[q] \in Writing => on'[q] \in Rows
    BY <1>3 DEF Inv, Board, OnRows
  <2> QED
    BY <1>1, <1>2, <2>1, <2>2, BoardOfWriter DEF task
<1>6. raced \subseteq raced'
  BY DEF Ask, Overlap
<1>7. OneWriter'
  <2>1. \A q \in Requests \ {r} : at[q] \in Writing /\ on[q] = c => c \in raced'
    BY DEF Ask, Overlap, Writing
  <2> QED
    BY <2>1, <1>3, <1>6 DEF Inv, Writers, OneWriter
<1>8. Compiles' /\ Bounded'
  BY <1>1, <1>3, <1>6 DEF Inv, Writers, Compiles, Bounded, Writing
<1>9. ScriptFitsText'
  BY <1>1, <1>2, <1>6 DEF Inv, Writers, ScriptFitsText
<1> QED
  BY <1>4, <1>5, <1>7, <1>8, <1>9 DEF Writers

LEMMA WriterCommits ==
  ASSUME Inv, NEW r \in Requests, CommitScript(r)
  PROVE  Stage' /\ Board' /\ Completes' /\ Writers'
<1> TypeOK
  BY DEF Inv
<1> DEFINE c == on[r]
           new == IF at[r] = "editing" THEN reads[r] + 1 ELSE row[c].text
<1>1. /\ at[r] \in Writing /\ at' = [at EXCEPT ![r] = "idle"]
      /\ on' = [on EXCEPT ![r] = 0]
      /\ text' = [text EXCEPT ![r] = 0] /\ reads' = [reads EXCEPT ![r] = 0]
      /\ UNCHANGED <<status, disk, pc, cases, relabelled, raced, missed>>
  BY CommitRest DEF task
<1>2. c \in Rows /\ c \in CaseIds /\ row[c] \in Row
  BY <1>1, RowTyped DEF Inv, Board, OnRows
<1>3. row' = [row EXCEPT ![c] = [[row[c] EXCEPT !.script = text[r]] EXCEPT !.text = new]]
  BY <1>2, CommitRow
<1>4. /\ row'[c].script = text[r] /\ row'[c].text = new
      /\ row'[c].review = row[c].review /\ row'[c].point = row[c].point
      /\ \A d \in CaseIds \ {c} : row'[d] = row[d]
  BY <1>2, <1>3 DEF TypeOK, Row
<1>5. UNCHANGED Rows
  <2>1. row'[c].review # "none"
    BY <1>2, <1>4 DEF Row
  <2>2. row'[c] # NoRow
    BY <2>1 DEF NoRow
  <2> QED
    BY <1>2, <1>4, <2>2 DEF Rows, CaseIds, NoRow
<1>6. Rows \subseteq CaseIds
  BY DEF Rows
<1>7. /\ \A q \in Requests \ {r} : at'[q] = at[q] /\ on'[q] = on[q]
                                    /\ text'[q] = text[q] /\ reads'[q] = reads[q]
      /\ at'[r] = "idle"
  BY <1>1 DEF TypeOK
<1>8. Stage'
  <2>1. \A d \in Rows : row'[d].point = row[d].point
    BY <1>4, <1>6
  <2> QED
    BY <1>1, <1>2, <1>5, <2>1, StageOfRequest DEF task
<1>9. Board' /\ Completes'
  <2>1. \A d \in Rows : row'[d].review = row[d].review
    BY <1>4, <1>6
  <2>2. \A q \in Requests : at[q] # at'[q] => at[q] \in {"idle"} \cup Writing
                                            /\ at'[q] \in {"idle"} \cup Writing
    BY <1>1, <1>7
  <2>3. \A q \in Requests : at'[q] \in Writing => on'[q] \in Rows
    BY <1>7 DEF Inv, Board, OnRows, Writing
  <2> QED
    BY <1>1, <1>2, <1>5, <2>1, <2>2, <2>3, BoardOfWriter DEF task
<1>10. OneWriter' /\ Bounded'
  BY <1>1, <1>7 DEF Inv, Writers, OneWriter, Bounded, Writing
<1>11. Compiles'
  <2> SUFFICES ASSUME NEW q \in Requests, at'[q] \in Writing, on'[q] \notin raced
               PROVE  /\ reads'[q] = row'[on'[q]].text
                      /\ text'[q] = IF at'[q] = "editing" THEN reads'[q] + 1 ELSE reads'[q]
    BY <1>1 DEF Compiles
  <2>1. q # r /\ at[q] \in Writing /\ on[q] \notin raced
    BY <1>7 DEF Writing
  <2>2. on[q] # c
    BY <2>1, <1>1 DEF Inv, Writers, OneWriter
  <2>3. on[q] \in CaseIds
    BY <2>1, <1>6 DEF Inv, Board, OnRows
  <2> QED
    BY <2>1, <2>2, <2>3, <1>4, <1>7 DEF Inv, Writers, Compiles
<1>12. ScriptFitsText'
  <2>1. c \notin raced => text[r] = new
    BY <1>1 DEF Inv, Writers, Compiles, Writing
  <2> QED
    BY <2>1, <1>1, <1>4, <1>5, <1>6 DEF Inv, Writers, ScriptFitsText
<1> QED
  BY <1>8, <1>9, <1>10, <1>11, <1>12 DEF Writers

LEMMA Reviews ==
  ASSUME Inv, NEW r \in Requests, ReviewCase(r)
  PROVE  Stage' /\ Board' /\ Completes' /\ Writers'
<1> TypeOK
  BY DEF Inv
<1>1. PICK c \in Rows : row' = [row EXCEPT ![c].review = "reviewed"]
  BY DEF ReviewCase
<1>2. /\ at[r] = "idle" /\ at' = [at EXCEPT ![r] = "reviewed"]
      /\ UNCHANGED <<status, disk, pc, cases, on, text, reads, relabelled, raced, missed>>
  BY DEF ReviewCase, task
<1>3. /\ c \in CaseIds /\ row[c] \in Row
      /\ row'[c] = [row[c] EXCEPT !.review = "reviewed"]
      /\ \A d \in CaseIds \ {c} : row'[d] = row[d]
  BY <1>1, RowTyped DEF TypeOK
<1>4. \A d \in CaseIds : d \in Rows =>
        /\ row'[d].point = row[d].point /\ row'[d].text = row[d].text
        /\ row'[d].script = row[d].script
        /\ row[d].review # "pending_review" => row'[d].review # "pending_review"
  BY <1>3 DEF Row
<1>5. UNCHANGED Rows
  <2>1. row'[c].review # "none"
    BY <1>3 DEF Row
  <2>2. row'[c] # NoRow
    BY <2>1 DEF NoRow
  <2> QED
    BY <1>1, <1>3, <2>2 DEF Rows, CaseIds, NoRow
<1>6. Rows \subseteq CaseIds /\ Rows # {}
  BY DEF Rows
<1>7. AllReviewed => AllReviewed'
  BY <1>4, <1>5, <1>6 DEF AllReviewed
<1>8. (\A q \in Requests \ {r} : at'[q] = at[q]) /\ at'[r] = "reviewed"
  BY <1>2 DEF TypeOK
<1>9. Stage'
  BY <1>2, <1>4, <1>5, <1>6, StageOfRequest DEF task
<1>10. Board'
  BY <1>2, <1>4, <1>5, <1>6, <1>7, <1>8
  DEF Inv, Board, OnRows, CountsStay, CompletedIsReviewed, Writing
<1>11. Completes'
  BY <1>8 DEF Completes
<1>12. Writers'
  <2>1. \A q \in Requests : at'[q] \in Writing => at[q] = at'[q] /\ on[q] \in Rows
    BY <1>8 DEF Writing, Inv, Board, OnRows
  <2>2. OneWriter' /\ Bounded'
    BY <1>2, <2>1 DEF Inv, Writers, OneWriter, Bounded, Writing
  <2>3. Compiles'
    BY <1>2, <1>4, <1>6, <2>1 DEF Inv, Writers, Compiles
  <2>4. ScriptFitsText'
    BY <1>2, <1>4, <1>5, <1>6 DEF Inv, Writers, ScriptFitsText
  <2> QED
    BY <2>2, <2>3, <2>4 DEF Writers
<1> QED
  BY <1>9, <1>10, <1>11, <1>12

LEMMA Counts ==
  ASSUME Inv, NEW r \in Requests, CountReviews(r) \/ CompleteTask(r)
  PROVE  Stage' /\ Board' /\ Completes' /\ Writers'
<1> TypeOK
  BY DEF Inv
<1>1. /\ at[r] \in {"reviewed", "complete"}
      /\ UNCHANGED <<pc, cases, row, on, text, reads, relabelled, raced, missed>>
      /\ UNCHANGED task \/ Set("completed")
  BY DEF CountReviews, CompleteTask
<1>2. UNCHANGED Rows /\ UNCHANGED AllReviewed /\ Rows # {}
  BY <1>1, RowsKept DEF Inv, Board, OnRows
<1>3. /\ \A q \in Requests \ {r} : at'[q] = at[q]
      /\ at'[r] \in {"idle", "complete"}
  BY DEF CountReviews, CompleteTask, TypeOK
<1>4. Stage'
  BY <1>1, <1>2, StageOfRequest
<1>5. Writers'
  BY <1>1, <1>2, <1>3
  DEF Inv, Writers, OneWriter, Compiles, Bounded, ScriptFitsText, Writing
<1>6. CASE CountReviews(r)
  <2>1. UNCHANGED status /\ (at'[r] = "complete" <=> AllReviewed)
    BY <1>6 DEF CountReviews, TypeOK, task
  <2>2. Board'
    BY <2>1, <1>1, <1>2, <1>3
    DEF Inv, Board, OnRows, CountsStay, CompletedIsReviewed, Writing
  <2>3. Completes'
    BY <2>1, <1>2 DEF Completes
  <2> QED
    BY <2>2, <2>3, <1>4, <1>5
<1>7. CASE CompleteTask(r)
  <2>1. status' = "completed" /\ at[r] = "complete" /\ at'[r] = "idle"
    BY <1>7 DEF CompleteTask, Set, task, TypeOK
  <2>2. AllReviewed
    BY <2>1 DEF Inv, Board, CountsStay
  <2>3. CompletedIsReviewed'
    BY <2>2, <1>1, <1>2 DEF AllReviewed, CompletedIsReviewed
  <2>4. Board'
    BY <2>1, <2>3, <1>1, <1>2, <1>3 DEF Inv, Board, OnRows, CountsStay, Writing
  <2>5. Completes'
    BY <2>1 DEF Completes
  <2> QED
    BY <2>4, <2>5, <1>4, <1>5
<1> QED
  BY <1>6, <1>7

LEMMA Restarts ==
  ASSUME Inv, Restart
  PROVE  Stage' /\ Board' /\ Completes' /\ Writers'
<1>1. /\ pc' = "over" /\ at' = [r \in Requests |-> "idle"]
      /\ status' = (IF status \in {"queued", "processing"} THEN "failed" ELSE status)
      /\ disk' = status'
      /\ missed' = (missed \/ \E r \in Requests : at[r] \in {"reviewed", "complete"})
      /\ UNCHANGED <<cases, row, relabelled, raced>>
  BY DEF Restart, Set, Inv, Stage, Saved
<1>2. UNCHANGED Rows /\ UNCHANGED AllReviewed
  BY <1>1, RowsKept
<1>3. Stage'
  BY <1>1, <1>2 DEF Inv, Stage, NoCaseYet, AtWork, Covered, EveryPointHasCase,
                    NoFalseRun, Saved, Active
<1>4. Board'
  BY <1>1, <1>2 DEF Inv, Board, OnRows, CountsStay, CompletedIsReviewed, Writing
<1>5. Completes'
  <2>1. CASE pc \in {"publish", "over"}
    BY <2>1, <1>1, <1>2 DEF Inv, Completes
  <2>2. CASE pc \notin {"publish", "over"}
    <3>1. Rows = {}
      BY <2>2 DEF Inv, TypeOK, Stage, NoCaseYet
    <3> QED
      BY <3>1, <1>2 DEF AllReviewed, Completes
  <2> QED
    BY <2>1, <2>2
<1>6. Writers'
  BY <1>1, <1>2 DEF Inv, Writers, OneWriter, Compiles, Bounded, ScriptFitsText, Writing
<1> QED
  BY <1>3, <1>4, <1>5, <1>6

-----------------------------------------------------------------------------
LEMMA NextInv ==
  ASSUME Inv, [Next]_vars
  PROVE  Inv'
<1>1. CASE Pipeline
  BY <1>1, TypePipeline, StagePipeline DEF Inv
<1>2. ASSUME NEW r \in Requests, UpdateCase(r)
      PROVE  Inv'
  <2>1. PICK c \in Rows : row[c].text < MaxText /\ Ask(r, "editing", c, row[c].text + 1)
    BY <1>2 DEF UpdateCase
  <2>2. row[c].text + 1 <= MaxText
    BY <2>1, RowTyped, GenerationAssumption DEF Inv, Row
  <2>3. Stage' /\ Board' /\ Completes' /\ Writers'
    BY <2>1, <2>2, WriterRequest DEF Writing
  <2> QED
    BY <2>3, <1>2, TypeRequest DEF Inv
<1>3. ASSUME NEW r \in Requests, RecompileCase(r)
      PROVE  Inv'
  <2>1. PICK c \in Rows : Ask(r, "recompiling", c, row[c].text)
    BY <1>3 DEF RecompileCase
  <2>2. Stage' /\ Board' /\ Completes' /\ Writers'
    BY <2>1, WriterRequest DEF Writing
  <2> QED
    BY <2>2, <1>3, TypeRequest DEF Inv
<1>4. ASSUME NEW r \in Requests,
             CommitScript(r) \/ ReviewCase(r) \/ CountReviews(r) \/ CompleteTask(r)
      PROVE  Inv'
  BY <1>4, TypeRequest, WriterCommits, Reviews, Counts DEF Inv
<1>5. CASE Restart
  BY <1>5, TypeRestart, Restarts DEF Inv
<1>6. CASE UNCHANGED vars
  <2>1. /\ UNCHANGED <<row, request, raced, task>>
        /\ UNCHANGED <<pc, batch, cases, crashes, relabelled, missed>>
    BY <1>6 DEF vars
  <2>2. TypeOK'
    BY <2>1 DEF Inv, TypeOK, task, request
  <2>3. UNCHANGED Rows /\ UNCHANGED AllReviewed
    BY <2>1, RowsKept
  <2>4. Stage'
    BY <2>1, <2>3 DEF Inv, Stage, NoCaseYet, AtWork, Covered, EveryPointHasCase,
                      NoFalseRun, Saved, task
  <2>5. Board' /\ Writers'
    BY <2>1, BoardKept, WritersKept DEF Inv, task
  <2>6. Completes'
    BY <2>1, <2>3 DEF Inv, Completes, task, request
  <2> QED
    BY <2>2, <2>4, <2>5, <2>6 DEF Inv
<1> QED
  BY <1>1, <1>2, <1>3, <1>4, <1>5, <1>6 DEF Next

(* The inductive invariant: what each stage of the pipeline has done, that counted reviews
   stay, and who writes a case. *)
THEOREM Invariance == Spec => []Inv
<1>1. Init => Inv
  BY InitInv
<1>2. Inv /\ [Next]_vars => Inv'
  BY NextInv
<1> QED
  BY <1>1, <1>2, PTL DEF Spec

(* Every variable keeps its type. *)
THEOREM TypeCorrect == Spec => []TypeOK
<1>1. Inv => TypeOK
  BY DEF Inv
<1> QED
  BY <1>1, Invariance, PTL

(* _run_pipeline lets no case out before every selected point has one, unless
   heal_cases_for_executability renamed the point of a case. *)
THEOREM Coverage == Spec => []EveryPointHasCase
<1>1. Inv => EveryPointHasCase
  BY DEF Inv, Stage
<1> QED
  BY <1>1, Invariance, PTL

(* _maybe_complete_task completes no task with a case left to review. *)
THEOREM CompletionIsDue == Spec => []CompletedIsReviewed
<1>1. Inv => CompletedIsReviewed
  BY DEF Inv, Board
<1> QED
  BY <1>1, Invariance, PTL

(* The last of any number of concurrent reviews completes the task, with the two exceptions
   the property names. *)
THEOREM CompletionIsNotMissed == Spec => []LastReviewCompletes
<1>1. Inv => LastReviewCompletes
  BY DEF Inv, Completes, LastReviewCompletes
<1> QED
  BY <1>1, Invariance, PTL

(* _scan_storage leaves no task that looks as if it ran. *)
THEOREM NothingRunsFalsely == Spec => []NoFalseRun
<1>1. Inv => NoFalseRun
  BY DEF Inv, Stage
<1> QED
  BY <1>1, Invariance, PTL

(* A script is that of the text beside it, for a case no two requests wrote at once. *)
THEOREM ScriptsFit == Spec => []ScriptFitsText
<1>1. Inv => ScriptFitsText
  BY DEF Inv, Writers
<1> QED
  BY <1>1, Invariance, PTL
=============================================================================
