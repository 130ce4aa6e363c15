-------------------------- MODULE MemorySyncProofs --------------------------
(***************************************************************************)
(* What the next incremental pass skips is in the brain, and the lock of   *)
(* gstack-gbrain-sync keeps passes apart, for any number of transcripts,   *)
(* of syncs and of passes.                                                 *)
(*                                                                         *)
(* The argument.  An entry is good when it no longer matches its file, or  *)
(* the file's page is good; entries are made only of pages that were put   *)
(* (CopiesFit says what a pass at a file, and a put that was left behind,  *)
(* know of it), and are afterwards only copied, between the state file and *)
(* the passes (EntriesFit).  For                                           *)
(* the lock, a pass at work has a sync that waits for it, and a sync in a  *)
(* stage has its name in the lock (Held), until somebody takes it away.    *)
(***************************************************************************)
EXTENDS MemorySync, TLAPS

(* A pass is at a file exactly while it deals with one. *)
AtFile ==
  \A p \in Passes : IF pass[p] \in Reading THEN file[p] \in Files ELSE file[p] = None

Typed == TypeOK /\ AtFile

(* The page of a file is what the hash sees of the file, or the file is
   excused. *)
PageFits(f) == brain[f] >= Body(Hash(text[f])) \/ f \in raced

(* A text of a file is not newer than the file, and is what is in the file, or
   the file is excused. *)
TextFits(f, t) == t <= Body(text[f]) /\ (f \in raced \/ t = Body(text[f]))

(* What a pass knows of the file it is at. *)
CopyFits(p) ==
  LET f == file[p] IN
  /\ pass[p] \in Reading => TextFits(f, body[p])
  /\ pass[p] \in {"put", "stat"} => sha[p] <= Hash(text[f])
  /\ pass[p] = "stat" => TextFits(f, brain[f])

OrphanFits(p) == orphan[p] # None => TextFits(orphan[p].file, orphan[p].text)

CopiesFit ==
  /\ \A f \in Files : brain[f] <= Body(text[f])
  /\ \A p \in Passes : CopyFits(p) /\ OrphanFits(p)

EntryFits(e, f) ==
  /\ e.mtime <= mtime[f] /\ e.sha <= Hash(text[f])
  /\ e.mtime = mtime[f] \/ e.sha = Hash(text[f]) => PageFits(f)

EntriesFit ==
  /\ \A f \in Files : stateFile # Torn /\ stateFile[f] # None => EntryFits(stateFile[f], f)
  /\ \A p \in Passes, f \in Files :
       sessions[p][f] # None => EntryFits(sessions[p][f], f)

(* A pass belongs to a sync that waits for it, and to no other. *)
Parents ==
  /\ \A p \in Passes : parent[p] # None => at[parent[p]] = "waiting"
  /\ \A p, q \in Passes : parent[p] = parent[q] /\ parent[p] # None => p = q
  /\ \A p \in Passes : pass[p] = "idle" => parent[p] = None

(* A sync in a stage has the lock; a pass at work, a sync that waits. *)
InLock == \A s \in Syncs : at[s] \in Stages \cup {"ending", "unlinking"} => lock.by = s
Waited == \A p \in Passes : pass[p] \in AtWork => parent[p] # None

Held == ~loose => InLock /\ Waited

(* The page of a file a pass is about to put is not newer than its copy, and
   neither is the one that another left behind. *)
PutsForward ==
  ~loose => \A p \in Passes : pass[p] \in Reading =>
              /\ brain[file[p]] <= body[p]
              /\ \A q \in Passes : orphan[q] # None /\ orphan[q].file = file[p]
                                     => orphan[q].text <= body[p]

-----------------------------------------------------------------------------
LEMMA HashBound ==
  ASSUME NEW t \in Texts
  PROVE  Hash(t) \in Texts /\ Hash(t) <= t /\ (t <= HashLimit => Hash(t) = t)
BY MemoryAssumption DEF Texts, Hash

LEMMA BodyBound ==
  ASSUME NEW t \in Texts
  PROVE  Body(t) \in Texts /\ Body(t) <= t /\ Body(Hash(t)) <= Body(t)
BY MemoryAssumption DEF Texts, Hash, Body

LEMMA LeftTyped ==
  ASSUME Typed, NEW p \in Passes, LeavePut(p)
  PROVE  orphan' \in [Passes -> Put \cup {None}] /\ raced' \subseteq Files
<1>1. CASE pass[p] = "put"
  <2>1. file[p] \in Files /\ body[p] \in Texts
    BY <1>1 DEF Typed, TypeOK, AtFile, Reading
  <2>2. PICK t \in 1..body[p] :
          /\ orphan' = [orphan EXCEPT ![p] = [file |-> file[p], text |-> t]]
          /\ raced' = IF t = body[p] THEN raced ELSE raced \cup {file[p]}
    BY <1>1 DEF LeavePut
  <2>3. t \in Texts
    BY <2>1, MemoryAssumption DEF Texts
  <2>4. [file |-> file[p], text |-> t] \in Put
    BY <2>1, <2>3 DEF Put
  <2> QED
    BY <2>1, <2>2, <2>4 DEF Typed, TypeOK
<1>2. CASE pass[p] # "put"
  BY <1>2 DEF LeavePut, Typed, TypeOK
<1> QED
  BY <1>1, <1>2

(* What the steps of a pass leave its type. *)
LEMMA PassTyped == ASSUME Typed, NEW p \in Passes, PassStep(p) PROVE Typed'
<1> USE MemoryAssumption DEF Typed, TypeOK, AtFile, PassPhase, AtWork, Reading
<1>0. Empty \in Sessions /\ LoadState \in Sessions /\ 1 \in Texts
  BY DEF Empty, LoadState, Sessions, Texts
<1>1. CASE StartAlone(p)
  BY <1>1, <1>0 DEF StartAlone, StartPass, files
<1>2. ASSUME NEW f \in Files, SkipFile(p, f) PROVE Typed'
  <2>1. sessions[p][f] \in Entry
    BY <1>2 DEF SkipFile, Unchanged, SameTime, SameHash, Sessions
  <2>2. [sessions[p][f] EXCEPT !.mtime = mtime[f]] \in Entry
    BY <2>1 DEF Entry
  <2>3. sessions' \in [Passes -> Sessions]
    BY <1>2, <2>2 DEF SkipFile, Sessions
  <2> QED
    BY <1>2, <2>3 DEF SkipFile, Visited, files
<1>3. ASSUME NEW f \in Files, ReadFile(p, f) PROVE Typed'
  <2>1. Body(text[f]) \in Texts
    BY BodyBound
  <2> QED
    BY <1>3, <2>1 DEF ReadFile, Visited, files
<1>4. CASE HashFile(p)
  BY <1>4, HashBound DEF HashFile, files
<1>5. CASE PutPage(p)
  BY <1>5 DEF PutPage, files, work
<1>6. CASE FileFails(p)
  BY <1>6, <1>0 DEF FileFails, PutOrNot, Leave, files
<1>7. CASE Record(p)
  <2>1. file[p] \in Files /\ mtime[file[p]] \in Times
    BY <1>7 DEF Record
  <2>2. [mtime |-> mtime[file[p]], sha |-> sha[p]] \in Entry
    BY <2>1 DEF Entry
  <2>3. sessions' \in [Passes -> Sessions]
    BY <1>7, <2>1, <2>2 DEF Record, Sessions
  <2> QED
    BY <1>7, <1>0, <2>1, <2>3 DEF Record, Leave, files
<1>8. CASE TruncateState(p)
  BY <1>8 DEF TruncateState, files, work
<1>9. CASE WriteState(p)
  BY <1>9, <1>0 DEF WriteState, Ends, Leave, files
<1>10. CASE PassDies(p)
  <2>1. orphan' \in [Passes -> Put \cup {None}] /\ raced' \subseteq Files
    BY <1>10, LeftTyped DEF PassDies
  <2> QED
    BY <1>10, <1>0, <2>1 DEF PassDies, Ends, Leave, files
<1>11. CASE OrphanPuts(p)
  <2>1. orphan[p] \in Put
    BY <1>11 DEF OrphanPuts
  <2>2. orphan[p].file \in Files /\ orphan[p].text \in Texts
    BY <2>1 DEF Put
  <2> QED
    BY <1>11, <2>2 DEF OrphanPuts, files, work
<1> QED
  BY <1>1, <1>2, <1>3, <1>4, <1>5, <1>6, <1>7, <1>8, <1>9, <1>10, <1>11 DEF PassStep

(* The steps of a sync that leave the files and the work of the passes. *)
SyncOnly(s) ==
  \/ LookAtLock(s) \/ ReapLock(s) \/ CreateLock(s) \/ CodeStage(s)
  \/ IngestOver(s) \/ PushStage(s) \/ ReadLock(s) \/ UnlinkLock(s) \/ SyncDies(s)

LEMMA SyncSteps ==
  ASSUME NEW s \in Syncs, SyncStep(s)
  PROVE  SyncOnly(s) \/ RunMemoryIngest(s) \/ IngestTimeout(s)
BY DEF SyncStep, SyncOnly

LEMMA SyncOnlyKeeps ==
  ASSUME NEW s \in Syncs, SyncOnly(s)
  PROVE  UNCHANGED <<text, mtime, brain, stateFile, incremental, sessions, todo,
                     file, body, sha, orphan, raced, pass>>
BY DEF SyncOnly, LookAtLock, ReapLock, CreateLock, CodeStage, IngestOver,
       PushStage, ReadLock, UnlinkLock, SyncDies, Rest, files, work

LEMMA SyncTyped == ASSUME Typed, NEW s \in Syncs, SyncStep(s) PROVE Typed'
<1> USE MemoryAssumption DEF Typed, TypeOK, AtFile, PassPhase, AtWork, Reading,
                             SyncPhase, Stages
<1>0. Empty \in Sessions /\ LoadState \in Sessions /\ 1 \in Texts
  BY DEF Empty, LoadState, Sessions, Texts
<1>1. CASE SyncOnly(s)
  <2>1. /\ at' \in [Syncs -> SyncPhase] /\ parent' \in [Passes -> Syncs \cup {None}]
        /\ lock' \in [by : Syncs \cup {None, Gone}, old : BOOLEAN]
        /\ loose' \in BOOLEAN
    <3>1. CASE LookAtLock(s) \/ CodeStage(s) \/ PushStage(s) \/ ReadLock(s)
      BY <3>1 DEF LookAtLock, CodeStage, PushStage, ReadLock, Go
    <3>2. /\ NoLock \in [by : Syncs \cup {None, Gone}, old : BOOLEAN]
          /\ [by |-> s, old |-> FALSE] \in [by : Syncs \cup {None, Gone}, old : BOOLEAN]
      BY DEF NoLock
    <3>3. CASE ReapLock(s)
      BY <3>3, <3>2 DEF ReapLock, Go
    <3>4. CASE UnlinkLock(s)
      BY <3>4, <3>2 DEF UnlinkLock, Go
    <3>5. CASE CreateLock(s)
      BY <3>5, <3>2 DEF CreateLock, Go
    <3>6. CASE IngestOver(s)
      BY <3>6 DEF IngestOver, Go
    <3>7. CASE SyncDies(s)
      BY <3>7 DEF SyncDies, Go
    <3> QED
      BY <1>1, <3>1, <3>3, <3>4, <3>5, <3>6, <3>7 DEF SyncOnly
  <2> QED
    BY <1>1, <2>1, SyncOnlyKeeps
<1>2. CASE RunMemoryIngest(s)
  BY <1>2, <1>0 DEF RunMemoryIngest, StartPass, Go, files
<1>3. CASE IngestTimeout(s)
  <2>1. orphan' \in [Passes -> Put \cup {None}] /\ raced' \subseteq Files
    BY <1>3, LeftTyped DEF IngestTimeout
  <2>2. PICK p \in Passes :
          /\ parent' = [parent EXCEPT ![p] = None] /\ Ends(p) /\ Go(s, "push")
          /\ UNCHANGED <<files, brain, stateFile, lock, loose>>
    BY <1>3 DEF IngestTimeout
  <2> QED
    BY <1>0, <2>1, <2>2 DEF Ends, Leave, Go, files
<1> QED
  BY <1>1, <1>2, <1>3, SyncSteps

(* Every variable keeps its type, and passes are at files when they should. *)
LEMMA TypedInvariant == Spec => []Typed
<1>1. ASSUME Init PROVE Typed
  <2>1. 1 \in Texts /\ 1 \in Times
    BY MemoryAssumption DEF Texts, Times
  <2>2. Empty \in Sessions
    BY DEF Empty, Sessions
  <2>3. lock \in [by : Syncs \cup {None, Gone}, old : BOOLEAN]
    BY <1>1 DEF Init, NoLock
  <2>4. at \in [Syncs -> SyncPhase] /\ pass \in [Passes -> PassPhase]
    BY <1>1 DEF Init, SyncPhase, PassPhase
  <2>5. /\ text \in [Files -> Texts] /\ mtime \in [Files -> Times]
        /\ brain \in [Files -> Texts \cup {0}]
        /\ body \in [Passes -> Texts] /\ sha \in [Passes -> Texts]
    BY <1>1, <2>1 DEF Init
  <2>6. /\ stateFile \in Sessions \cup {Torn} /\ sessions \in [Passes -> Sessions]
        /\ parent \in [Passes -> Syncs \cup {None}] /\ incremental \subseteq Passes
        /\ todo \in [Passes -> SUBSET Files] /\ file \in [Passes -> Files \cup {None}]
        /\ orphan \in [Passes -> Put \cup {None}]
        /\ raced \subseteq Files /\ loose \in BOOLEAN
    BY <1>1, <2>2 DEF Init
  <2>7. AtFile
    BY <1>1 DEF Init, AtFile, Reading
  <2> QED
    BY <2>3, <2>4, <2>5, <2>6, <2>7 DEF Typed, TypeOK
<1>2. Typed /\ [Next]_vars => Typed'
  <2> SUFFICES ASSUME Typed, [Next]_vars PROVE Typed'
    OBVIOUS
  <2>1. ASSUME NEW p \in Passes, PassStep(p) PROVE Typed'
    BY <2>1, PassTyped
  <2>2. ASSUME NEW s \in Syncs, SyncStep(s) PROVE Typed'
    BY <2>2, SyncTyped
  <2>3. CASE LockAges
    BY <2>3 DEF LockAges, Typed, TypeOK, AtFile, Rest, files, work
  <2>4. ASSUME NEW f \in Files, Append(f) PROVE Typed'
    <3>1. mtime[f] + 1 \in Times
      BY <2>4, MemoryAssumption DEF Append, Typed, TypeOK, Times
    <3> QED
      BY <2>4, <3>1 DEF Append, Typed, TypeOK, AtFile, work
  <2>5. ASSUME NEW f \in Files, Touch(f) PROVE Typed'
    <3>1. mtime[f] + 1 \in Times
      BY <2>5, MemoryAssumption DEF Touch, Typed, TypeOK, Times
    <3> QED
      BY <2>5, <3>1 DEF Touch, Typed, TypeOK, AtFile, work
  <2>6. CASE UNCHANGED vars
    BY <2>6 DEF vars, files, work, Typed, TypeOK, AtFile
  <2> QED
    BY <2>1, <2>2, <2>3, <2>4, <2>5, <2>6 DEF Next
<1> QED
  BY <1>1, <1>2, PTL DEF Spec

(* Every variable keeps its type. *)
THEOREM TypeCorrect == Spec => []TypeOK
BY TypedInvariant, PTL DEF Typed

-----------------------------------------------------------------------------
(* What a pass at a file knows of it. *)
LEMMA TextGrows ==
  ASSUME NEW t \in Texts, NEW u \in Texts, t < u
  PROVE  Hash(t) <= Hash(u) /\ Body(t) <= Body(u)
BY MemoryAssumption DEF Texts, Hash, Body

(* A page is put only with a text that fits. *)
FitPut ==
  \/ UNCHANGED brain
  \/ \E g \in Files, t \in Texts :
       TextFits(g, t) /\ brain' = [brain EXCEPT ![g] = t]

LEMMA PutsFit ==
  ASSUME Typed, CopiesFit, NEW p \in Passes,
         \/ UNCHANGED brain
         \/ pass[p] = "put" /\ brain' = [brain EXCEPT ![file[p]] = body[p]]
  PROVE  FitPut
<1>1. CASE UNCHANGED brain
  BY <1>1 DEF FitPut
<1>2. CASE pass[p] = "put" /\ brain' = [brain EXCEPT ![file[p]] = body[p]]
  BY <1>2 DEF FitPut, CopiesFit, CopyFits, Reading, Typed, TypeOK, AtFile
<1> QED
  BY <1>1, <1>2

LEMMA OrphansFit ==
  ASSUME Typed, CopiesFit, NEW p \in Passes, OrphanPuts(p) PROVE FitPut
<1>1. orphan[p] \in Put
  BY DEF OrphanPuts, Typed, TypeOK
<1>2. orphan[p].file \in Files /\ orphan[p].text \in Texts
  BY <1>1 DEF Put
<1>3. TextFits(orphan[p].file, orphan[p].text)
  BY DEF OrphanPuts, CopiesFit, OrphanFits
<1> QED
  BY <1>2, <1>3 DEF OrphanPuts, FitPut

(* It leaves no page worse than it was. *)
LEMMA PutKeeps ==
  ASSUME Typed, CopiesFit, FitPut, UNCHANGED text, raced \subseteq raced',
         NEW f \in Files
  PROVE  /\ brain'[f] <= Body(text'[f])
         /\ TextFits(f, brain[f]) => TextFits(f, brain[f])'
         /\ PageFits(f) => PageFits(f)'
<1>1. /\ text[f] \in Texts /\ Body(text[f]) \in Texts
      /\ Body(Hash(text[f])) <= Body(text[f]) /\ Body(Hash(text[f])) \in Texts
      /\ Body(text'[f]) = Body(text[f]) /\ Hash(text'[f]) = Hash(text[f])
  BY BodyBound, HashBound DEF Typed, TypeOK
<1>2. CASE brain'[f] = brain[f]
  BY <1>1, <1>2 DEF CopiesFit, TextFits, PageFits
<1>3. CASE TextFits(f, brain'[f]) /\ brain'[f] \in Texts
  BY <1>1, <1>3 DEF TextFits, PageFits, Texts
<1> QED
  BY <1>2, <1>3 DEF FitPut, Typed, TypeOK

(* What a pass or a put knows stays true when only excuses are added. *)
LEMMA KnownKeeps ==
  ASSUME Typed, CopiesFit, FitPut, UNCHANGED text, raced \subseteq raced',
         NEW p \in Passes
  PROVE  /\ UNCHANGED <<pass[p], file[p], body[p], sha[p]>> => CopyFits(p)'
         /\ UNCHANGED (orphan[p]) => OrphanFits(p)'
<1>1. ASSUME UNCHANGED <<pass[p], file[p], body[p], sha[p]>> PROVE CopyFits(p)'
  <2>1. CASE pass[p] \in Reading
    BY <1>1, <2>1, PutKeeps DEF CopiesFit, CopyFits, TextFits, Typed, AtFile
  <2>2. CASE pass[p] \notin Reading
    BY <1>1, <2>2 DEF CopyFits, Reading
  <2> QED
    BY <2>1, <2>2
<1>2. ASSUME UNCHANGED (orphan[p]) PROVE OrphanFits(p)'
  BY <1>2 DEF CopiesFit, OrphanFits, TextFits
<1> QED
  BY <1>1, <1>2

(* The steps that end the work of a pass at its file, or the pass. *)
LEMMA LeaveCopies ==
  ASSUME Typed, CopiesFit, NEW p \in Passes, FitPut, UNCHANGED text,
         Leave(p), raced \subseteq raced',
         NEW phase, phase \notin Reading, pass' = [pass EXCEPT ![p] = phase],
         \A q \in Passes : OrphanFits(q)'
  PROVE  CopiesFit'
<1>1. ASSUME NEW f \in Files PROVE brain'[f] <= Body(text'[f])
  BY <1>1, PutKeeps
<1>2. ASSUME NEW q \in Passes PROVE CopyFits(q)'
  <2>1. CASE q = p
    BY <2>1 DEF CopyFits, Typed, TypeOK, Reading
  <2>2. CASE q # p
    <3>1. UNCHANGED <<pass[q], file[q], body[q], sha[q]>>
      BY <2>2 DEF Leave, Typed, TypeOK
    <3> QED
      BY <3>1, KnownKeeps
  <2> QED
    BY <2>1, <2>2
<1>3. \A f \in Files : (brain[f] <= Body(text[f]))'
  BY <1>1
<1> QED
  BY <1>2, <1>3 DEF CopiesFit

(* What a pass that is killed leaves behind fits, or is excused. *)
LEMMA LeftFits ==
  ASSUME Typed, CopiesFit, NEW p \in Passes, LeavePut(p), UNCHANGED <<text, brain>>
  PROVE  /\ FitPut /\ raced \subseteq raced'
         /\ \A q \in Passes : OrphanFits(q)'
<1>1. FitPut
  BY DEF FitPut
<1>2. CASE pass[p] = "put"
  <2>1. PICK t \in 1..body[p] :
          /\ orphan' = [orphan EXCEPT ![p] = [file |-> file[p], text |-> t]]
          /\ raced' = IF t = body[p] THEN raced ELSE raced \cup {file[p]}
    BY <1>2 DEF LeavePut
  <2>2. /\ TextFits(file[p], body[p]) /\ body[p] \in Texts /\ file[p] \in Files
        /\ Body(text[file[p]]) \in Texts
    BY <1>2, BodyBound DEF CopiesFit, CopyFits, Reading, Typed, TypeOK, AtFile
  <2>3. raced \subseteq raced'
    BY <2>1
  <2>4. PICK g \in Files : g = file[p]
    BY <2>2
  <2>5. TextFits(g, t)'
    <3>1. t <= Body(text[g])
      BY <2>1, <2>2, <2>4 DEF TextFits, Texts
    <3>2. g \in raced' \/ t = Body(text[g])
      BY <2>1, <2>2, <2>4 DEF TextFits
    <3> QED
      BY <3>1, <3>2 DEF TextFits
  <2>6. ASSUME NEW q \in Passes PROVE OrphanFits(q)'
    <3>1. CASE q = p
      <4>1. orphan'[p].file = g /\ orphan'[p].text = t
        BY <2>1, <2>4 DEF Typed, TypeOK
      <4> QED
        BY <2>5, <3>1, <4>1 DEF OrphanFits, TextFits
    <3>2. CASE q # p
      BY <1>1, <2>1, <2>3, <3>2, KnownKeeps DEF Typed, TypeOK
    <3> QED
      BY <3>1, <3>2
  <2> QED
    BY <1>1, <2>3, <2>6
<1>3. CASE pass[p] # "put"
  BY <1>1, <1>3, KnownKeeps DEF LeavePut
<1> QED
  BY <1>2, <1>3

(* The steps that leave the texts, the pages, the puts and the excuses keep
   what every pass knows that they leave alone. *)
LEMMA OtherCopies ==
  ASSUME Typed, CopiesFit, UNCHANGED <<text, brain, orphan, raced>>,
         NEW p \in Passes,
         \A q \in Passes \ {p} : UNCHANGED <<pass[q], file[q], body[q], sha[q]>>,
         CopyFits(p)'
  PROVE  CopiesFit'
<1>1. FitPut
  BY DEF FitPut
<1>2. ASSUME NEW q \in Passes PROVE CopyFits(q)' /\ OrphanFits(q)'
  BY <1>1, <1>2, KnownKeeps
<1>3. ASSUME NEW f \in Files PROVE (brain[f] <= Body(text[f]))'
  BY <1>1, <1>3, PutKeeps
<1> QED
  BY <1>2, <1>3 DEF CopiesFit

LEMMA StartCopies ==
  ASSUME Typed, CopiesFit, NEW p \in Passes, NEW by, StartPass(p, by)
  PROVE  CopiesFit'
<1>1. CopyFits(p)'
  BY DEF StartPass, CopyFits, Reading, Typed, TypeOK
<1> QED
  BY <1>1, OtherCopies DEF StartPass, files, Typed, TypeOK

LEMMA PassCopies ==
  ASSUME Typed, CopiesFit, NEW p \in Passes, PassStep(p) PROVE CopiesFit'
<1>1. CASE StartAlone(p)
  BY <1>1, StartCopies DEF StartAlone
<1>2. ASSUME NEW f \in Files, SkipFile(p, f) PROVE CopiesFit'
  <2>1. CopyFits(p)'
    BY <1>2 DEF SkipFile, CopyFits, Reading
  <2> QED
    BY <1>2, <2>1, OtherCopies DEF SkipFile, files
<1>3. ASSUME NEW f \in Files, ReadFile(p, f) PROVE CopiesFit'
  <2>1. pass'[p] = "hash" /\ file'[p] = f /\ body'[p] = Body(text[f])
    BY <1>3 DEF ReadFile, Typed, TypeOK
  <2>2. /\ text[f] \in Texts /\ Body(text[f]) \in Texts
        /\ Body(text'[f]) = Body(text[f])
    BY <1>3, BodyBound DEF ReadFile, files, Typed, TypeOK
  <2>3. CopyFits(p)'
    BY <2>1, <2>2 DEF CopyFits, TextFits, Texts
  <2> QED
    BY <1>3, <2>3, OtherCopies DEF ReadFile, files, Typed, TypeOK
<1>4. CASE HashFile(p)
  <2>1. file[p] \in Files /\ Hash(text[file[p]]) \in Texts
    BY <1>4, HashBound DEF HashFile, Typed, TypeOK, AtFile, Reading
  <2>2. pass'[p] = "put" /\ sha'[p] = Hash(text[file[p]])
    BY <1>4 DEF HashFile, Typed, TypeOK
  <2>3. TextFits(file[p], body[p])
    BY <1>4 DEF HashFile, CopiesFit, CopyFits, Reading
  <2>4. CopyFits(p)'
    BY <1>4, <2>1, <2>2, <2>3 DEF HashFile, CopyFits, TextFits, files, Texts
  <2> QED
    BY <1>4, <2>4, OtherCopies DEF HashFile, files, Typed, TypeOK
<1>5. CASE PutPage(p)
  <2>1. file[p] \in Files /\ FitPut /\ UNCHANGED <<text, raced, orphan>>
    BY <1>5, PutsFit DEF PutPage, files, Reading, Typed, AtFile
  <2>2. /\ pass'[p] = "stat" /\ brain'[file[p]] = body[p]
        /\ UNCHANGED <<file, body, sha>>
    BY <1>5, <2>1 DEF PutPage, work, Typed, TypeOK
  <2>3. TextFits(file[p], body[p])
    BY <1>5 DEF PutPage, CopiesFit, CopyFits, Reading
  <2>4. CopyFits(p)'
    <3>1. sha[p] <= Hash(text[file[p]])
      BY <1>5 DEF PutPage, CopiesFit, CopyFits
    <3> QED
      BY <2>1, <2>2, <2>3, <3>1 DEF CopyFits, TextFits
  <2>5. ASSUME NEW q \in Passes, q # p PROVE CopyFits(q)'
    <3>1. UNCHANGED <<pass[q], file[q], body[q], sha[q]>>
      BY <1>5, <2>2, <2>5 DEF PutPage, Typed, TypeOK
    <3> QED
      BY <2>1, <3>1, KnownKeeps
  <2>6. ASSUME NEW q \in Passes PROVE OrphanFits(q)'
    BY <2>1, KnownKeeps
  <2>7. ASSUME NEW f \in Files PROVE (brain[f] <= Body(text[f]))'
    BY <2>1, PutKeeps
  <2> QED
    BY <2>4, <2>5, <2>6, <2>7 DEF CopiesFit
<1>6. CASE FileFails(p)
  <2>1. FitPut /\ UNCHANGED <<text, raced, orphan>> /\ "walk" \notin Reading
    BY <1>6, PutsFit DEF FileFails, PutOrNot, files, Reading
  <2>2. \A q \in Passes : OrphanFits(q)'
    BY <2>1, KnownKeeps
  <2> QED
    BY <1>6, <2>1, <2>2, LeaveCopies DEF FileFails
<1>7. CASE Record(p)
  <2> DEFINE f == file[p]
  <2>1. /\ UNCHANGED <<text, brain, orphan>> /\ raced' \subseteq raced
        /\ \A g \in Files \ {f} : g \in raced => g \in raced'
    BY <1>7 DEF Record, files
  <2>2. f \notin raced' /\ f \in raced =>
          ~BeingPut(f) /\ \A q \in Passes \ {p} : file[q] # f
    BY <1>7 DEF Record
  <2>3. ASSUME NEW g \in Files, NEW t, TextFits(g, t), g # f \/ f \notin raced \/ f \in raced'
        PROVE  TextFits(g, t)'
    BY <2>1, <2>3 DEF TextFits
  <2>4. ASSUME NEW q \in Passes PROVE CopyFits(q)'
    <3>1. CASE q = p
      BY <1>7, <3>1 DEF Record, CopyFits, Reading, Typed, TypeOK
    <3>2. CASE q # p
      <4>1. UNCHANGED <<pass[q], file[q], body[q], sha[q]>>
        BY <1>7, <3>2 DEF Record, Leave, Typed, TypeOK
      <4>2. CASE pass[q] \in Reading
        <5>1. file[q] \in Files /\ (file[q] # f \/ f \notin raced \/ f \in raced')
          BY <2>2, <3>2, <4>2 DEF Typed, AtFile
        <5>2. TextFits(file[q], body[q])'
          BY <2>3, <4>1, <4>2, <5>1 DEF CopiesFit, CopyFits
        <5>3. pass[q] = "stat" => TextFits(file[q], brain[file[q]])'
          BY <2>1, <2>3, <4>1, <5>1 DEF CopiesFit, CopyFits
        <5> QED
          BY <2>1, <4>1, <5>2, <5>3 DEF CopiesFit, CopyFits
      <4>3. CASE pass[q] \notin Reading
        BY <4>1, <4>3 DEF CopyFits, Reading
      <4> QED
        BY <4>2, <4>3
    <3> QED
      BY <3>1, <3>2
  <2>5. ASSUME NEW q \in Passes, orphan'[q] # None
        PROVE  TextFits(orphan[q].file, orphan[q].text)'
    <3>1. orphan[q] \in Put /\ TextFits(orphan[q].file, orphan[q].text)
      BY <2>1, <2>5 DEF CopiesFit, OrphanFits, Typed, TypeOK
    <3>2. orphan[q].file \in Files
      BY <3>1 DEF Put
    <3> QED
      BY <2>1, <2>2, <2>3, <2>5, <3>1, <3>2 DEF BeingPut
  <2> QED
    BY <2>1, <2>4, <2>5 DEF CopiesFit, OrphanFits
<1>8. CASE TruncateState(p)
  <2>1. CopyFits(p)'
    BY <1>8 DEF TruncateState, CopyFits, Reading, Typed, TypeOK
  <2> QED
    BY <1>8, <2>1, OtherCopies DEF TruncateState, files, work, Typed, TypeOK
<1>9. CASE WriteState(p)
  <2>1. /\ FitPut /\ UNCHANGED <<text, raced, orphan>> /\ "over" \notin Reading
    BY <1>9 DEF WriteState, FitPut, files, Reading
  <2>2. \A q \in Passes : OrphanFits(q)'
    BY <2>1, KnownKeeps
  <2> QED
    BY <1>9, <2>1, <2>2, LeaveCopies DEF WriteState, Ends
<1>10. CASE PassDies(p)
  <2>1. "over" \notin Reading /\ UNCHANGED <<text, brain>>
    BY <1>10 DEF PassDies, files, Reading
  <2> QED
    BY <1>10, <2>1, LeftFits, LeaveCopies DEF PassDies, Ends
<1>11. CASE OrphanPuts(p)
  <2>1. FitPut /\ UNCHANGED <<text, raced, pass, file, body, sha>>
    BY <1>11, OrphansFit DEF OrphanPuts, files, work
  <2>2. ASSUME NEW q \in Passes PROVE CopyFits(q)'
    BY <2>1, KnownKeeps
  <2>3. ASSUME NEW q \in Passes PROVE OrphanFits(q)'
    <3>1. CASE q = p
      BY <1>11, <3>1 DEF OrphanPuts, OrphanFits, Typed, TypeOK
    <3>2. CASE q # p
      BY <1>11, <2>1, <3>2, KnownKeeps DEF OrphanPuts, Typed, TypeOK
    <3> QED
      BY <3>1, <3>2
  <2>4. ASSUME NEW f \in Files PROVE (brain[f] <= Body(text[f]))'
    BY <2>1, PutKeeps
  <2> QED
    BY <2>2, <2>3, <2>4 DEF CopiesFit
<1> QED
  BY <1>1, <1>2, <1>3, <1>4, <1>5, <1>6, <1>7, <1>8, <1>9, <1>10, <1>11 DEF PassStep

LEMMA SameCopies ==
  ASSUME Typed, CopiesFit,
         UNCHANGED <<text, brain, orphan, raced, pass, file, body, sha>>
  PROVE  CopiesFit'
BY DEF CopiesFit, CopyFits, OrphanFits, TextFits, Hash, Body

LEMMA SyncCopies ==
  ASSUME Typed, CopiesFit, NEW s \in Syncs, SyncStep(s) PROVE CopiesFit'
<1>1. CASE SyncOnly(s)
  BY <1>1, SyncOnlyKeeps, SameCopies
<1>2. CASE RunMemoryIngest(s)
  BY <1>2, StartCopies DEF RunMemoryIngest
<1>3. CASE IngestTimeout(s)
  <2>1. "over" \notin Reading /\ UNCHANGED <<text, brain>>
    BY <1>3 DEF IngestTimeout, files, Reading
  <2> QED
    BY <1>3, <2>1, LeftFits, LeaveCopies DEF IngestTimeout, Ends
<1> QED
  BY <1>1, <1>2, <1>3, SyncSteps

LEMMA AppendCopies ==
  ASSUME Typed, CopiesFit, NEW f \in Files, Append(f) PROVE CopiesFit'
<1>1. /\ text[f] \in Texts /\ text'[f] \in Texts /\ text[f] < text'[f]
      /\ \A g \in Files : g # f => text'[g] = text[g]
  BY DEF Append, Typed, TypeOK
<1>2. ASSUME NEW g \in Files
      PROVE  /\ Body(text[g]) <= Body(text'[g]) /\ Hash(text[g]) <= Hash(text'[g])
             /\ Body(text[g]) \in Texts /\ Body(text'[g]) \in Texts
             /\ Hash(text[g]) \in Texts /\ Hash(text'[g]) \in Texts
  <2>1. text[g] \in Texts /\ text'[g] \in Texts
    BY <1>1 DEF Typed, TypeOK
  <2>2. CASE g = f
    BY <1>1, <2>1, <2>2, TextGrows, BodyBound, HashBound
  <2>3. CASE g # f
    BY <1>1, <2>1, <2>3, BodyBound, HashBound DEF Texts
  <2> QED
    BY <2>2, <2>3
<1>3. raced \subseteq raced'
  BY DEF Append
<1>4. ASSUME NEW g \in Files, NEW t \in Texts \cup {0}, TextFits(g, t), g # f \/ f \in raced'
      PROVE  TextFits(g, t)'
  <2>1. t <= Body(text'[g])
    BY <1>2, <1>4 DEF TextFits, Texts
  <2>2. g \in raced' \/ t = Body(text'[g])
    BY <1>1, <1>3, <1>4 DEF TextFits
  <2> QED
    BY <2>1, <2>2 DEF TextFits
<1>5. ASSUME NEW g \in Files PROVE (brain[g] <= Body(text[g]))'
  <2>1. brain[g] \in Texts \cup {0} /\ brain[g] <= Body(text[g]) /\ brain' = brain
    BY DEF Append, CopiesFit, Typed, TypeOK
  <2> QED
    BY <1>2, <2>1 DEF Texts
<1>6. ASSUME NEW p \in Passes PROVE CopyFits(p)'
  <2>1. CASE pass[p] \in Reading
    <3> DEFINE g == file[p]
    <3>1. g \in Files /\ (g # f \/ f \in raced')
      BY <2>1 DEF Append, Typed, AtFile
    <3>2. UNCHANGED <<pass, file, body, sha, brain>>
      BY DEF Append, work
    <3>3. TextFits(g, body[p]) /\ body[p] \in Texts /\ sha[p] \in Texts
      BY <2>1 DEF CopiesFit, CopyFits, Typed, TypeOK
    <3>4. pass[p] = "stat" => TextFits(g, brain[g]) /\ brain[g] \in Texts \cup {0}
      BY <3>1 DEF CopiesFit, CopyFits, Typed, TypeOK
    <3>5. pass[p] \in {"put", "stat"} => sha[p] <= Hash(text'[g])
      BY <1>2, <3>1, <3>3 DEF CopiesFit, CopyFits, Texts
    <3>6. TextFits(g, body[p])' /\ (pass[p] = "stat" => TextFits(g, brain[g])')
      BY <1>4, <3>1, <3>2, <3>3, <3>4
    <3> QED
      BY <3>2, <3>5, <3>6 DEF CopyFits
  <2>2. CASE pass[p] \notin Reading
    BY <2>2 DEF Append, CopyFits, Reading
  <2> QED
    BY <2>1, <2>2
<1>7. ASSUME NEW p \in Passes, orphan'[p] # None
      PROVE  TextFits(orphan[p].file, orphan[p].text)'
  <2>1. orphan' = orphan /\ orphan[p] \in Put /\ TextFits(orphan[p].file, orphan[p].text)
    BY <1>7 DEF Append, CopiesFit, OrphanFits, Typed, TypeOK
  <2>2. orphan[p].file \in Files /\ orphan[p].text \in Texts
    BY <2>1 DEF Put
  <2>3. orphan[p].file # f \/ f \in raced'
    BY <1>7, <2>1 DEF Append, BeingPut
  <2> QED
    BY <1>4, <2>1, <2>2, <2>3
<1> QED
  BY <1>5, <1>6, <1>7 DEF CopiesFit, OrphanFits

LEMMA CopiesInvariant == Spec => []CopiesFit
<1>1. Init => CopiesFit
  <2> SUFFICES ASSUME Init PROVE CopiesFit
    OBVIOUS
  <2>1. 0 <= Body(1)
    BY MemoryAssumption DEF Body
  <2>2. \A p \in Passes : CopyFits(p) /\ OrphanFits(p)
    BY DEF Init, CopyFits, OrphanFits, Reading
  <2> QED
    BY <2>1, <2>2 DEF Init, CopiesFit
<1>2. Typed /\ CopiesFit /\ [Next]_vars => CopiesFit'
  <2> SUFFICES ASSUME Typed, CopiesFit, [Next]_vars PROVE CopiesFit'
    OBVIOUS
  <2>1. ASSUME NEW p \in Passes, PassStep(p) PROVE CopiesFit'
    BY <2>1, PassCopies
  <2>2. ASSUME NEW s \in Syncs, SyncStep(s) PROVE CopiesFit'
    BY <2>2, SyncCopies
  <2>3. CASE LockAges
    BY <2>3, SameCopies DEF LockAges, Rest, files, work
  <2>4. ASSUME NEW f \in Files, Append(f) PROVE CopiesFit'
    BY <2>4, AppendCopies
  <2>5. ASSUME NEW f \in Files, Touch(f) PROVE CopiesFit'
    BY <2>5, SameCopies DEF Touch, work
  <2>6. CASE UNCHANGED vars
    BY <2>6, SameCopies DEF vars, files, work
  <2> QED
    BY <2>1, <2>2, <2>3, <2>4, <2>5, <2>6 DEF Next
<1> QED
  BY <1>1, <1>2, TypedInvariant, PTL DEF Spec

-----------------------------------------------------------------------------
(* What the entries of the state file and of the passes say of the files. *)
(* The steps that change neither a file nor its page, unless a page for the
   better, keep every entry that fits. *)
LEMMA EntryKept ==
  ASSUME NEW e, NEW f \in Files, EntryFits(e, f),
         text'[f] = text[f], mtime'[f] = mtime[f],
         PageFits(f) => PageFits(f)'
  PROVE  EntryFits(e, f)'
BY DEF EntryFits, Hash

LEMMA StartEntries ==
  ASSUME Typed, EntriesFit, NEW p \in Passes, NEW by, StartPass(p, by)
  PROVE  EntriesFit'
<1>1. \A f \in Files : \A e : EntryFits(e, f)' <=> EntryFits(e, f)
  BY DEF StartPass, EntryFits, PageFits, Hash, Body, files
<1>2. ASSUME NEW f \in Files, LoadState[f] # None PROVE EntryFits(LoadState[f], f)
  BY <1>2 DEF LoadState, Empty, EntriesFit
<1>3. ASSUME NEW q \in Passes, NEW f \in Files, sessions'[q][f] # None
      PROVE  EntryFits(sessions'[q][f], f)
  BY <1>2, <1>3 DEF StartPass, EntriesFit, Typed, TypeOK
<1> QED
  BY <1>1, <1>3 DEF StartPass, EntriesFit

(* The steps that end a pass, and those that leave the entries alone. *)
LEMMA PutEntries ==
  ASSUME Typed, CopiesFit, EntriesFit, NEW p \in Passes,
         FitPut, UNCHANGED <<text, mtime, stateFile>>, raced \subseteq raced',
         sessions' \in {sessions, [sessions EXCEPT ![p] = Empty]}
  PROVE  EntriesFit'
<1>1. ASSUME NEW e, NEW f \in Files, EntryFits(e, f) PROVE EntryFits(e, f)'
  BY <1>1, PutKeeps, EntryKept
<1>2. ASSUME NEW q \in Passes, NEW f \in Files, sessions'[q][f] # None
      PROVE  sessions'[q][f] = sessions[q][f]
  BY <1>2 DEF Empty, Typed, TypeOK
<1> QED
  BY <1>1, <1>2 DEF EntriesFit

LEMMA SkipEntries ==
  ASSUME Typed, EntriesFit, NEW p \in Passes, NEW f \in Files, SkipFile(p, f)
  PROVE  EntriesFit'
<1>1. \A g \in Files : \A e : EntryFits(e, g)' <=> EntryFits(e, g)
  BY DEF SkipFile, EntryFits, PageFits, Hash, Body, files
<1>2. sessions[p][f] \in Entry /\ EntryFits(sessions[p][f], f)
  BY DEF SkipFile, Unchanged, SameTime, SameHash, EntriesFit, Typed, TypeOK, Sessions
<1>3. PageFits(f)
  BY <1>2 DEF SkipFile, Unchanged, SameTime, SameHash, EntryFits
<1>4. EntryFits([sessions[p][f] EXCEPT !.mtime = mtime[f]], f)
  BY <1>2, <1>3 DEF EntryFits, Entry, Typed, TypeOK, Times
<1>5. ASSUME NEW q \in Passes, NEW g \in Files, sessions'[q][g] # None
      PROVE  EntryFits(sessions'[q][g], g)
  BY <1>4, <1>5 DEF SkipFile, EntriesFit, Typed, TypeOK, Sessions
<1> QED
  BY <1>1, <1>5 DEF SkipFile, EntriesFit

LEMMA RecordEntries ==
  ASSUME Typed, CopiesFit, EntriesFit, NEW p \in Passes, Record(p)
  PROVE  EntriesFit'
<1> DEFINE f == file[p]
           e == [mtime |-> mtime[f], sha |-> sha[p]]
<1>1. /\ f \in Files /\ sha[p] <= Hash(text[f]) /\ TextFits(f, brain[f])
      /\ text[f] \in Texts /\ brain[f] \in Texts \cup {0}
  BY DEF Record, CopiesFit, CopyFits, Typed, TypeOK, AtFile, Reading
<1>2. ASSUME NEW g \in Files, PageFits(g) PROVE PageFits(g)'
  <2>1. UNCHANGED <<text, brain>>
    BY DEF Record, files
  <2>2. CASE g \in raced /\ g \notin raced'
    <3>1. g = f /\ brain[f] = Body(text[f])
      BY <2>2 DEF Record
    <3>2. brain[f] >= Body(Hash(text[f]))
      BY <1>1, <3>1, BodyBound, HashBound DEF Texts
    <3>3. Body(Hash(text'[g])) = Body(Hash(text[g]))
      BY <2>1
    <3> QED
      BY <2>1, <3>1, <3>2, <3>3 DEF PageFits
  <2>3. CASE ~(g \in raced /\ g \notin raced')
    BY <1>2, <2>1, <2>3 DEF PageFits, Hash, Body
  <2> QED
    BY <2>2, <2>3
<1>3. \A g \in Files : \A d : EntryFits(d, g) => EntryFits(d, g)'
  BY <1>2 DEF Record, EntryFits, Hash, files
<1>4. EntryFits(e, f)
  <2>1. PageFits(f)
    BY <1>1, BodyBound, HashBound DEF TextFits, PageFits, Texts
  <2> QED
    BY <1>1, <2>1 DEF EntryFits, Typed, TypeOK, Times
<1>5. ASSUME NEW q \in Passes, NEW g \in Files, sessions'[q][g] # None
      PROVE  EntryFits(sessions'[q][g], g)
  <2>1. CASE q = p /\ g = f
    BY <1>1, <1>4, <2>1 DEF Record, Typed, TypeOK, Sessions
  <2>2. CASE ~(q = p /\ g = f)
    BY <1>1, <1>5, <2>2 DEF Record, EntriesFit, Typed, TypeOK, Sessions
  <2> QED
    BY <2>1, <2>2
<1> QED
  BY <1>3, <1>5 DEF Record, EntriesFit

LEMMA WriteEntries ==
  ASSUME Typed, EntriesFit, NEW p \in Passes, WriteState(p) PROVE EntriesFit'
<1>1. \A f \in Files : \A e : EntryFits(e, f)' <=> EntryFits(e, f)
  BY DEF WriteState, EntryFits, PageFits, Hash, Body, files
<1>2. ASSUME NEW f \in Files, stateFile' # Torn, stateFile'[f] # None
      PROVE  EntryFits(stateFile'[f], f)
  BY <1>2 DEF WriteState, EntriesFit
<1>3. ASSUME NEW q \in Passes, NEW f \in Files, sessions'[q][f] # None
      PROVE  EntryFits(sessions'[q][f], f)
  BY <1>3 DEF WriteState, Ends, Empty, EntriesFit, Typed, TypeOK
<1> QED
  BY <1>1, <1>2, <1>3 DEF EntriesFit

LEMMA PassEntries ==
  ASSUME Typed, CopiesFit, EntriesFit, NEW p \in Passes, PassStep(p)
  PROVE  EntriesFit'
<1>1. CASE StartAlone(p)
  BY <1>1, StartEntries DEF StartAlone
<1>2. ASSUME NEW f \in Files, SkipFile(p, f) PROVE EntriesFit'
  BY <1>2, SkipEntries
<1>3. ASSUME NEW f \in Files, ReadFile(p, f) PROVE EntriesFit'
  BY <1>3 DEF ReadFile, EntriesFit, EntryFits, PageFits, Hash, Body, files
<1>4. CASE HashFile(p)
  BY <1>4 DEF HashFile, EntriesFit, EntryFits, PageFits, Hash, Body, files
<1>5. CASE PutPage(p)
  BY <1>5, PutsFit, PutEntries DEF PutPage, files, work
<1>6. CASE FileFails(p)
  BY <1>6, PutsFit, PutEntries DEF FileFails, PutOrNot, files
<1>7. CASE Record(p)
  BY <1>7, RecordEntries
<1>8. CASE TruncateState(p)
  BY <1>8 DEF TruncateState, EntriesFit, EntryFits, PageFits, Hash, Body, files, work
<1>9. CASE WriteState(p)
  BY <1>9, WriteEntries
<1>10. CASE PassDies(p)
  BY <1>10, LeftFits, PutEntries DEF PassDies, Ends, files
<1>11. CASE OrphanPuts(p)
  BY <1>11, OrphansFit, PutEntries DEF OrphanPuts, files, work
<1> QED
  BY <1>1, <1>2, <1>3, <1>4, <1>5, <1>6, <1>7, <1>8, <1>9, <1>10, <1>11 DEF PassStep

LEMMA SyncEntries ==
  ASSUME Typed, CopiesFit, EntriesFit, NEW s \in Syncs, SyncStep(s)
  PROVE  EntriesFit'
<1>1. CASE SyncOnly(s)
  BY <1>1, SyncOnlyKeeps DEF EntriesFit, EntryFits, PageFits, Hash, Body
<1>2. CASE RunMemoryIngest(s)
  BY <1>2, StartEntries DEF RunMemoryIngest
<1>3. CASE IngestTimeout(s)
  BY <1>3, LeftFits, PutEntries DEF IngestTimeout, Ends, files
<1> QED
  BY <1>1, <1>2, <1>3, SyncSteps

(* What the agent appends makes every entry old, or is beyond the hash. *)
LEMMA AppendEntries ==
  ASSUME Typed, CopiesFit, EntriesFit, NEW f \in Files, Append(f)
  PROVE  EntriesFit'
<1>1. /\ text[f] \in Texts /\ text'[f] \in Texts /\ text[f] < text'[f]
      /\ mtime[f] \in Times /\ mtime'[f] = mtime[f] + 1
      /\ brain' = brain /\ raced \subseteq raced'
  BY DEF Append, Typed, TypeOK
<1>2. ASSUME NEW e \in Entry, EntryFits(e, f) PROVE EntryFits(e, f)'
  <2>1. /\ Hash(text[f]) \in Texts /\ Hash(text'[f]) \in Texts
        /\ Hash(text[f]) <= Hash(text'[f])
    BY <1>1, TextGrows, HashBound
  <2>2. e.mtime \in Times /\ e.sha \in Texts
    BY DEF Entry
  <2>3. /\ e.mtime <= mtime'[f] /\ e.mtime # mtime'[f] /\ e.sha <= Hash(text'[f])
        /\ e.sha = Hash(text'[f]) => e.sha = Hash(text[f])
    BY <1>1, <1>2, <2>1, <2>2 DEF EntryFits, Texts, Times
  <2>4. e.sha = Hash(text'[f]) => PageFits(f) /\ Hash(text'[f]) = Hash(text[f])
    BY <1>2, <2>3 DEF EntryFits
  <2>5. Hash(text'[f]) = Hash(text[f])' /\ Body(Hash(text'[f])) = Body(Hash(text[f]))'
    BY DEF Hash, Body
  <2>6. e.sha = Hash(text'[f]) => PageFits(f)'
    BY <1>1, <2>4, <2>5 DEF PageFits
  <2> QED
    BY <2>3, <2>5, <2>6 DEF EntryFits
<1>3. ASSUME NEW e, NEW g \in Files, g # f, EntryFits(e, g) PROVE EntryFits(e, g)'
  <2>1. text'[g] = text[g] /\ mtime'[g] = mtime[g]
    BY <1>3 DEF Append, Typed, TypeOK
  <2>2. PageFits(g) => PageFits(g)'
    BY <1>1, <2>1 DEF PageFits, Hash, Body
  <2> QED
    BY <1>3, <2>1, <2>2, EntryKept
<1>4. stateFile' = stateFile /\ sessions' = sessions
  BY DEF Append, work
<1>5. ASSUME NEW g \in Files, stateFile # Torn, stateFile[g] # None
      PROVE  EntryFits(stateFile[g], g)'
  <2>1. stateFile[g] \in Entry /\ EntryFits(stateFile[g], g)
    BY <1>5 DEF EntriesFit, Typed, TypeOK, Sessions
  <2> QED
    BY <1>2, <1>3, <1>4, <2>1 DEF EntryFits, PageFits
<1>6. ASSUME NEW p \in Passes, NEW g \in Files, sessions[p][g] # None
      PROVE  EntryFits(sessions[p][g], g)'
  <2>1. sessions[p][g] \in Entry /\ EntryFits(sessions[p][g], g)
    BY <1>6 DEF EntriesFit, Typed, TypeOK, Sessions
  <2> QED
    BY <1>2, <1>3, <1>4, <2>1 DEF EntryFits, PageFits
<1> QED
  BY <1>4, <1>5, <1>6 DEF EntriesFit

LEMMA TouchEntries ==
  ASSUME Typed, EntriesFit, NEW f \in Files, Touch(f) PROVE EntriesFit'
<1>1. mtime[f] \in Times /\ mtime'[f] = mtime[f] + 1
  BY DEF Touch, Typed, TypeOK
<1>2. ASSUME NEW e \in Entry, NEW g \in Files, EntryFits(e, g) PROVE EntryFits(e, g)'
  <2>1. e.mtime \in Times
    BY DEF Entry
  <2>2. CASE g = f
    BY <1>1, <1>2, <2>1, <2>2 DEF Touch, EntryFits, PageFits, Hash, Body, Times
  <2>3. CASE g # f
    BY <1>2, <2>3 DEF Touch, EntryFits, PageFits, Hash, Body, Typed, TypeOK
  <2> QED
    BY <2>2, <2>3
<1>3. stateFile' = stateFile /\ sessions' = sessions
  BY DEF Touch, work
<1>4. ASSUME NEW g \in Files, stateFile # Torn, stateFile[g] # None
      PROVE  EntryFits(stateFile[g], g)'
  <2>1. stateFile[g] \in Entry /\ EntryFits(stateFile[g], g)
    BY <1>4 DEF EntriesFit, Typed, TypeOK, Sessions
  <2> QED
    BY <1>2, <1>3, <2>1 DEF EntryFits, PageFits
<1>5. ASSUME NEW p \in Passes, NEW g \in Files, sessions[p][g] # None
      PROVE  EntryFits(sessions[p][g], g)'
  <2>1. sessions[p][g] \in Entry /\ EntryFits(sessions[p][g], g)
    BY <1>5 DEF EntriesFit, Typed, TypeOK, Sessions
  <2> QED
    BY <1>2, <1>3, <2>1 DEF EntryFits, PageFits
<1> QED
  BY <1>3, <1>4, <1>5 DEF EntriesFit

LEMMA EntriesInvariant == Spec => []EntriesFit
<1>1. Init => EntriesFit
  BY DEF Init, EntriesFit, Empty
<1>2. Typed /\ CopiesFit /\ EntriesFit /\ [Next]_vars => EntriesFit'
  <2> SUFFICES ASSUME Typed, CopiesFit, EntriesFit, [Next]_vars PROVE EntriesFit'
    OBVIOUS
  <2>1. ASSUME NEW p \in Passes, PassStep(p) PROVE EntriesFit'
    BY <2>1, PassEntries
  <2>2. ASSUME NEW s \in Syncs, SyncStep(s) PROVE EntriesFit'
    BY <2>2, SyncEntries
  <2>3. CASE LockAges
    BY <2>3 DEF LockAges, Rest, files, work, EntriesFit, EntryFits, PageFits, Hash, Body
  <2>4. ASSUME NEW f \in Files, Append(f) PROVE EntriesFit'
    BY <2>4, AppendEntries
  <2>5. ASSUME NEW f \in Files, Touch(f) PROVE EntriesFit'
    BY <2>5, TouchEntries
  <2>6. CASE UNCHANGED vars
    BY <2>6 DEF vars, files, work, EntriesFit, EntryFits, PageFits, Hash, Body
  <2> QED
    BY <2>1, <2>2, <2>3, <2>4, <2>5, <2>6 DEF Next
<1> QED
  BY <1>1, <1>2, TypedInvariant, CopiesInvariant, PTL DEF Spec

(* What the next incremental pass skips by its mtime is in the brain, as far
   as the hash sees it and a page takes it, unless the file grew while a pass
   or a put was at it, or a put was cut off. *)
THEOREM SkipsOnlyIngested == Spec => []UnchangedIsIngested
<1>1. EntriesFit => UnchangedIsIngested
  BY DEF EntriesFit, EntryFits, PageFits, UnchangedIsIngested, Settled
<1> QED
  BY <1>1, EntriesInvariant, PTL

-----------------------------------------------------------------------------
(* The lock.  A step of a pass that is not a start of one. *)
LEMMA PassOnly ==
  ASSUME Typed, NEW p \in Passes, PassStep(p), ~StartAlone(p), ~OrphanPuts(p)
  PROVE  /\ UNCHANGED <<at, parent, lock, loose>>
         /\ pass[p] \in AtWork
         /\ pass'[p] # "idle" /\ \A q \in Passes \ {p} : pass'[q] = pass[q]
BY DEF PassStep, SkipFile, ReadFile, HashFile, PutPage, FileFails, Record,
       TruncateState, WriteState, PassDies, Ends, AtWork, Reading, Typed, TypeOK

(* A pass that starts has had no sync, and the others stay as they are. *)
LEMMA StartOnly ==
  ASSUME Typed, NEW p \in Passes, NEW by \in Syncs \cup {None}, StartPass(p, by)
  PROVE  /\ pass[p] = "idle" /\ pass'[p] = "walk" /\ parent'[p] = by
         /\ \A q \in Passes \ {p} : pass'[q] = pass[q] /\ parent'[q] = parent[q]
         /\ UNCHANGED lock
BY DEF StartPass, Typed, TypeOK

LEMMA PassParents ==
  ASSUME Typed, Parents, NEW p \in Passes, PassStep(p) PROVE Parents'
<1>1. CASE StartAlone(p)
  BY <1>1, StartOnly DEF StartAlone, Parents
<1>2. CASE ~StartAlone(p) /\ ~OrphanPuts(p)
  BY <1>2, PassOnly DEF Parents, AtWork, Reading
<1>3. CASE OrphanPuts(p)
  BY <1>3 DEF OrphanPuts, Parents
<1> QED
  BY <1>1, <1>2, <1>3

LEMMA SyncParents ==
  ASSUME Typed, Parents, NEW s \in Syncs, SyncStep(s) PROVE Parents'
<1> USE MemoryAssumption
<1>1. ASSUME at[s] # "waiting", NEW phase, Go(s, phase), UNCHANGED <<parent, pass>>
      PROVE  Parents'
  BY <1>1 DEF Parents, Go, Typed, TypeOK
<1>2. CASE LookAtLock(s) \/ ReapLock(s) \/ CreateLock(s) \/ CodeStage(s)
  BY <1>1, <1>2 DEF LookAtLock, ReapLock, CreateLock, CodeStage, Rest
<1>3. CASE PushStage(s) \/ ReadLock(s) \/ UnlinkLock(s)
  BY <1>1, <1>3 DEF PushStage, ReadLock, UnlinkLock, Rest
<1>4. CASE IngestOver(s)
  BY <1>4 DEF IngestOver, Parents, Go, Typed, TypeOK
<1>5. CASE SyncDies(s)
  BY <1>5 DEF SyncDies, Parents, Go, Typed, TypeOK
<1>6. CASE RunMemoryIngest(s)
  <2>1. PICK p \in Passes : StartPass(p, s)
    BY <1>6 DEF RunMemoryIngest
  <2>2. at[s] = "memory" /\ at' = [at EXCEPT ![s] = "waiting"]
    BY <1>6 DEF RunMemoryIngest, Go
  <2>3. \A q \in Passes : parent[q] # s
    BY <2>2 DEF Parents
  <2> QED
    BY <2>1, <2>2, <2>3, StartOnly DEF Parents, Typed, TypeOK
<1>7. CASE IngestTimeout(s)
  BY <1>7 DEF IngestTimeout, Ends, Parents, Go, Typed, TypeOK, AtWork, Reading
<1> QED
  BY <1>2, <1>3, <1>4, <1>5, <1>6, <1>7 DEF SyncStep

LEMMA ParentsInvariant == Spec => []Parents
<1>1. Init => Parents
  BY DEF Init, Parents
<1>2. Typed /\ Parents /\ [Next]_vars => Parents'
  <2> SUFFICES ASSUME Typed, Parents, [Next]_vars PROVE Parents'
    OBVIOUS
  <2>1. ASSUME NEW p \in Passes, PassStep(p) PROVE Parents'
    BY <2>1, PassParents
  <2>2. ASSUME NEW s \in Syncs, SyncStep(s) PROVE Parents'
    BY <2>2, SyncParents
  <2>3. CASE LockAges
    BY <2>3 DEF LockAges, Parents
  <2>4. ASSUME NEW f \in Files, Append(f) \/ Touch(f) PROVE Parents'
    BY <2>4 DEF Append, Touch, Parents
  <2>5. CASE UNCHANGED vars
    BY <2>5 DEF vars, Parents
  <2> QED
    BY <2>1, <2>2, <2>3, <2>4, <2>5 DEF Next
<1> QED
  BY <1>1, <1>2, TypedInvariant, PTL DEF Spec

LEMMA PassHeld == ASSUME Typed, Held, NEW p \in Passes, PassStep(p) PROVE Held'
<1>1. CASE StartAlone(p)
  BY <1>1 DEF StartAlone, Held
<1>2. CASE ~StartAlone(p) /\ ~OrphanPuts(p)
  BY <1>2, PassOnly DEF Held, InLock, Waited
<1>3. CASE OrphanPuts(p)
  BY <1>3 DEF OrphanPuts, Held, InLock, Waited
<1> QED
  BY <1>1, <1>2, <1>3

(* Who is in a stage has the lock, which nobody takes away unseen. *)
LEMMA SyncInLock ==
  ASSUME Typed, ~loose, InLock, NEW s \in Syncs, SyncStep(s), ~loose'
  PROVE  InLock'
<1> USE MemoryAssumption DEF InLock, Typed, TypeOK, Go, Stages
<1>1. CASE LookAtLock(s) \/ CodeStage(s) \/ PushStage(s) \/ ReadLock(s)
  BY <1>1 DEF LookAtLock, CodeStage, PushStage, ReadLock
<1>2. CASE ReapLock(s)
  BY <1>2 DEF ReapLock, NoLock
<1>3. CASE CreateLock(s)
  BY <1>3 DEF CreateLock, NoLock
<1>4. CASE UnlinkLock(s)
  BY <1>4 DEF UnlinkLock, NoLock
<1>5. CASE IngestOver(s) \/ IngestTimeout(s)
  BY <1>5 DEF IngestOver, IngestTimeout
<1>6. CASE RunMemoryIngest(s)
  BY <1>6 DEF RunMemoryIngest, StartPass
<1>7. CASE SyncDies(s)
  BY <1>7 DEF SyncDies
<1> QED
  BY <1>1, <1>2, <1>3, <1>4, <1>5, <1>6, <1>7 DEF SyncStep

(* A pass loses its sync only in its end, or when the sync dies. *)
LEMMA SyncWaited ==
  ASSUME Typed, ~loose, Waited, NEW s \in Syncs, SyncStep(s), ~loose'
  PROVE  Waited'
<1> USE MemoryAssumption DEF Waited, Typed, TypeOK, AtWork, Reading
<1>1. CASE LookAtLock(s) \/ ReapLock(s) \/ CreateLock(s) \/ CodeStage(s)
           \/ PushStage(s) \/ ReadLock(s) \/ UnlinkLock(s)
  BY <1>1 DEF LookAtLock, ReapLock, CreateLock, CodeStage, PushStage, ReadLock,
     UnlinkLock
<1>2. CASE IngestOver(s)
  BY <1>2 DEF IngestOver
<1>3. CASE IngestTimeout(s)
  BY <1>3 DEF IngestTimeout, Ends
<1>4. CASE RunMemoryIngest(s)
  BY <1>4 DEF RunMemoryIngest, StartPass
<1>5. CASE SyncDies(s)
  BY <1>5 DEF SyncDies
<1> QED
  BY <1>1, <1>2, <1>3, <1>4, <1>5 DEF SyncStep

(* That the lock was touched is not forgotten. *)
LEMMA LooseStays == ASSUME Typed, [Next]_vars, loose PROVE loose'
<1>1. ASSUME NEW p \in Passes, PassStep(p) PROVE loose'
  BY <1>1, PassOnly DEF StartAlone, OrphanPuts
<1>2. ASSUME NEW s \in Syncs, SyncStep(s) PROVE loose'
  BY <1>2 DEF SyncStep, LookAtLock, ReapLock, CreateLock, CodeStage, PushStage,
     ReadLock, UnlinkLock, IngestOver, IngestTimeout, RunMemoryIngest, SyncDies
<1>3. CASE LockAges \/ (\E f \in Files : Append(f) \/ Touch(f)) \/ UNCHANGED vars
  BY <1>3 DEF LockAges, Append, Touch, vars
<1> QED
  BY <1>1, <1>2, <1>3 DEF Next

LEMMA HeldInvariant == Spec => []Held
<1>1. Init => Held
  BY DEF Init, Held, InLock, Waited, Stages, AtWork, Reading
<1>2. Typed /\ Held /\ [Next]_vars => Held'
  <2> SUFFICES ASSUME Typed, Held, [Next]_vars PROVE Held'
    OBVIOUS
  <2>1. ASSUME NEW p \in Passes, PassStep(p) PROVE Held'
    BY <2>1, PassHeld
  <2>2. ASSUME NEW s \in Syncs, SyncStep(s) PROVE Held'
    <3> SUFFICES ASSUME ~loose' PROVE InLock' /\ Waited'
      BY DEF Held
    <3>1. ~loose
      BY LooseStays
    <3>2. InLock /\ Waited
      BY <3>1 DEF Held
    <3> QED
      BY <2>2, <3>1, <3>2, SyncInLock, SyncWaited
  <2>3. CASE LockAges
    BY <2>3 DEF LockAges, Held, InLock, Waited, Typed, TypeOK
  <2>4. ASSUME NEW f \in Files, Append(f) \/ Touch(f) PROVE Held'
    BY <2>4 DEF Append, Touch, Held, InLock, Waited
  <2>5. CASE UNCHANGED vars
    BY <2>5 DEF vars, Held, InLock, Waited
  <2> QED
    BY <2>1, <2>2, <2>3, <2>4, <2>5 DEF Next
<1> QED
  BY <1>1, <1>2, TypedInvariant, PTL DEF Spec

LEMMA ApartWhileHeld == Typed /\ Parents /\ Held => OneAtATime
BY DEF Typed, TypeOK, Parents, Held, InLock, Waited, OneAtATime, Stages

(* Two passes are at work together only when one was started by itself,
   outlived its sync, or the lock of its sync was taken from it. *)
THEOREM PassesApart == Spec => []OneAtATime
BY TypedInvariant, ParentsInvariant, HeldInvariant, ApartWhileHeld, PTL

-----------------------------------------------------------------------------
(* Of the pass that is at work, the page is not newer than its copy. *)
LEMMA PassForward ==
  ASSUME Typed, CopiesFit, OneAtATime, PutsForward, NEW p \in Passes, PassStep(p)
  PROVE  PutsForward'
<1> SUFFICES ASSUME ~loose', NEW q \in Passes, pass'[q] \in Reading
             PROVE  /\ brain'[file'[q]] <= body'[q]
                    /\ \A r \in Passes :
                         orphan'[r] # None /\ orphan'[r].file = file'[q]
                           => orphan'[r].text <= body'[q]
  BY DEF PutsForward
<1>1. ~StartAlone(p)
  BY DEF StartAlone
<1>2. CASE OrphanPuts(p)
  <2>1. /\ ~loose /\ pass[q] \in Reading /\ UNCHANGED <<pass, file, body>>
        /\ orphan' = [orphan EXCEPT ![p] = None]
    BY <1>2 DEF OrphanPuts, work
  <2>2. /\ brain[file[q]] <= body[q]
        /\ \A r \in Passes : orphan[r] # None /\ orphan[r].file = file[q]
                               => orphan[r].text <= body[q]
    BY <2>1 DEF PutsForward
  <2>3. file[q] \in Files /\ orphan[p] # None
    BY <1>2, <2>1 DEF OrphanPuts, Typed, AtFile
  <2>4. \/ brain'[file[q]] = brain[file[q]]
        \/ orphan[p].file = file[q] /\ brain'[file[q]] = orphan[p].text
    <3>1. brain \in [Files -> Texts \cup {0}]
      BY DEF Typed, TypeOK
    <3>2. UNCHANGED brain \/ brain' = [brain EXCEPT ![orphan[p].file] = orphan[p].text]
      BY <1>2 DEF OrphanPuts
    <3> QED
      BY <2>3, <3>1, <3>2
  <2>5. \A r \in Passes : orphan'[r] # None => orphan'[r] = orphan[r]
    BY <2>1 DEF Typed, TypeOK
  <2> QED
    BY <2>1, <2>2, <2>3, <2>4, <2>5
<1> SUFFICES ASSUME ~OrphanPuts(p)
             PROVE  /\ brain'[file'[q]] <= body'[q]
                    /\ \A r \in Passes :
                         orphan'[r] # None /\ orphan'[r].file = file'[q]
                           => orphan'[r].text <= body'[q]
  BY <1>2
<1>3. ~loose /\ pass[p] \in AtWork
  BY <1>1, PassOnly
<1>4. q = p
  BY <1>1, <1>3, PassOnly DEF OneAtATime, AtWork
<1>5. ASSUME NEW f \in Files, SkipFile(p, f) PROVE FALSE
  BY <1>4, <1>5 DEF SkipFile, Reading
<1>6. CASE FileFails(p) \/ Record(p) \/ TruncateState(p) \/ WriteState(p) \/ PassDies(p)
  BY <1>4, <1>6 DEF FileFails, Record, TruncateState, WriteState, PassDies, Ends,
     Reading, Typed, TypeOK
<1>7. ASSUME NEW f \in Files, ReadFile(p, f)
      PROVE  /\ brain'[file'[q]] <= body'[q]
             /\ \A r \in Passes :
                  orphan'[r] # None /\ orphan'[r].file = file'[q]
                    => orphan'[r].text <= body'[q]
  <2>1. /\ file'[q] = f /\ body'[q] = Body(text[f]) /\ UNCHANGED <<brain, orphan>>
    BY <1>4, <1>7 DEF ReadFile, Typed, TypeOK
  <2> QED
    BY <2>1 DEF CopiesFit, OrphanFits, TextFits
<1>8. CASE HashFile(p)
  BY <1>3, <1>4, <1>8 DEF HashFile, PutsForward, Reading
<1>9. CASE PutPage(p)
  <2>1. /\ file[p] \in Files /\ body[p] \in Texts /\ brain \in [Files -> Texts \cup {0}]
        /\ pass[p] \in Reading
    BY <1>9 DEF PutPage, Typed, TypeOK, AtFile, Reading
  <2> QED
    BY <1>3, <1>4, <1>9, <2>1 DEF PutPage, work, Texts, PutsForward
<1> QED
  BY <1>1, <1>5, <1>6, <1>7, <1>8, <1>9 DEF PassStep

LEMMA SyncForward ==
  ASSUME Typed, OneAtATime, PutsForward, [Next]_vars, NEW s \in Syncs, SyncStep(s)
  PROVE  PutsForward'
<1>1. CASE SyncOnly(s)
  BY <1>1, SyncOnlyKeeps, LooseStays DEF PutsForward
<1>2. CASE RunMemoryIngest(s)
  BY <1>2, LooseStays DEF RunMemoryIngest, StartPass, PutsForward, Reading, Typed,
     TypeOK
<1>3. CASE IngestTimeout(s)
  <2>1. PICK p \in Passes : pass[p] \in AtWork /\ Ends(p)
    BY <1>3 DEF IngestTimeout
  <2>2. ASSUME ~loose', NEW q \in Passes, pass'[q] \in Reading PROVE FALSE
    <3>1. q # p /\ pass[q] \in AtWork
      BY <2>1, <2>2 DEF Ends, Typed, TypeOK, Reading, AtWork
    <3> QED
      BY <2>1, <2>2, <3>1, LooseStays DEF OneAtATime
  <2> QED
    BY <2>2 DEF PutsForward
<1> QED
  BY <1>1, <1>2, <1>3, SyncSteps

LEMMA ForwardInvariant == Spec => []PutsForward
<1>1. Init => PutsForward
  BY DEF Init, PutsForward, Reading
<1>2. Typed /\ CopiesFit /\ OneAtATime /\ PutsForward /\ [Next]_vars => PutsForward'
  <2> SUFFICES ASSUME Typed, CopiesFit, OneAtATime, PutsForward, [Next]_vars
               PROVE  PutsForward'
    OBVIOUS
  <2>1. ASSUME NEW p \in Passes, PassStep(p) PROVE PutsForward'
    BY <2>1, PassForward
  <2>2. ASSUME NEW s \in Syncs, SyncStep(s) PROVE PutsForward'
    BY <2>2, SyncForward
  <2>3. CASE LockAges
    BY <2>3 DEF LockAges, Rest, work, PutsForward
  <2>4. ASSUME NEW f \in Files, Append(f) \/ Touch(f) PROVE PutsForward'
    BY <2>4 DEF Append, Touch, work, PutsForward
  <2>5. CASE UNCHANGED vars
    BY <2>5 DEF vars, work, PutsForward
  <2> QED
    BY <2>1, <2>2, <2>3, <2>4, <2>5 DEF Next
<1> QED
  BY <1>1, <1>2, TypedInvariant, CopiesInvariant, PassesApart, PTL DEF Spec

(* A page never goes back to an older text, unless two passes were at work
   together, or by a put that a pass left behind when it was killed. *)
THEOREM PagesGoForward == Spec => PagesDoNotGoBack
<1>1. ASSUME Typed, PutsForward, [Next]_vars
      PROVE  [\A f \in Files : brain'[f] < brain[f] =>
                loose \/ \E p \in Passes : orphan[p] # None /\ orphan[p].file = f
                                          /\ orphan'[p] = None]_vars
  <2> SUFFICES ASSUME ~loose, NEW f \in Files, brain'[f] < brain[f]
               PROVE  \E p \in Passes : orphan[p] # None /\ orphan[p].file = f
                                       /\ orphan'[p] = None
    OBVIOUS
  <2>1. ~UNCHANGED brain
    BY <1>1 DEF Typed, TypeOK, Texts
  <2>2. ASSUME NEW p \in Passes, pass[p] = "put",
               brain' = [brain EXCEPT ![file[p]] = body[p]]
        PROVE  FALSE
    BY <1>1, <2>2 DEF PutsForward, Reading, Typed, TypeOK, AtFile, Texts
  <2>3. ASSUME NEW p \in Passes, OrphanPuts(p)
        PROVE  orphan[p] # None /\ orphan[p].file = f /\ orphan'[p] = None
    <3>1. brain' = [brain EXCEPT ![orphan[p].file] = orphan[p].text]
      BY <2>1, <2>3 DEF OrphanPuts
    <3>2. orphan[p].file = f
      BY <1>1, <3>1 DEF Typed, TypeOK, Texts
    <3> QED
      BY <1>1, <2>3, <3>2 DEF OrphanPuts, Typed, TypeOK
  <2>4. ASSUME NEW p \in Passes, PassStep(p) PROVE OrphanPuts(p)
    BY <2>1, <2>2, <2>4 DEF PassStep, StartAlone, StartPass, SkipFile, ReadFile,
       HashFile, PutPage, FileFails, PutOrNot, Record, TruncateState, WriteState,
       PassDies
  <2>5. ASSUME NEW s \in Syncs, SyncStep(s) PROVE FALSE
    BY <2>1, <2>5, SyncSteps, SyncOnlyKeeps DEF RunMemoryIngest, StartPass,
       IngestTimeout
  <2>6. ~(LockAges \/ (\E g \in Files : Append(g) \/ Touch(g)) \/ UNCHANGED vars)
    BY <2>1 DEF LockAges, Rest, Append, Touch, vars
  <2> QED
    BY <1>1, <2>3, <2>4, <2>5, <2>6 DEF Next
<1> QED
  BY <1>1, TypedInvariant, ForwardInvariant, PTL DEF Spec, PagesDoNotGoBack

=============================================================================
