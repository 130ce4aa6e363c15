----------------------------- MODULE MemorySync -----------------------------
(***************************************************************************)
(* The programs that copy the transcripts of coding agents into the brain: *)
(* gstack-gbrain-sync.ts, which runs its stages under a lock file, and     *)
(* gstack-memory-ingest.ts, the stage that reads the transcripts and is    *)
(* also run by itself (.agents/skills/gstack/bin).                         *)
(*                                                                         *)
(* A pass reads the state file, visits every transcript, puts a page for   *)
(* each that is new or has changed, and writes the state file at the end.  *)
(* The agents go on writing all the while: a pass reads a transcript, its  *)
(* hash and its mtime at three moments.                                    *)
(*                                                                         *)
(* A transcript only grows, and `text` counts what has been appended.  Of  *)
(* it the hash sees the first 1 MB only, up to HashLimit, and a page takes *)
(* the conversation up to 200000 characters only, up to PageLimit; either  *)
(* limit may be met first, as most of a transcript is not conversation.    *)
(*                                                                         *)
(* The put of a page is a program of its own.  Who kills a pass does not   *)
(* kill it: it goes on by itself, with what it has got of the page.        *)
(***************************************************************************)
EXTENDS Integers

CONSTANTS
  Files,      \* transcripts
  Syncs,      \* runs of gstack-gbrain-sync
  Passes,     \* runs of gstack-memory-ingest
  None,       \* nobody; no entry
  Gone,       \* a sync that was killed
  Torn,       \* a state file that does not parse
  HashLimit,  \* the text that fits into maxBytes of fileSha256
  PageLimit,  \* the text that fits into the body of a page
  MaxText,    \* bound: the texts 1..MaxText of a transcript
  MaxTime     \* bound: its mtimes 1..MaxTime

Texts == 1..MaxText
Times == 1..MaxTime
Entry == [mtime : Times, sha : Texts]
Sessions == [Files -> Entry \cup {None}]
Put == [file : Files, text : Texts]

ASSUME MemoryAssumption ==
  /\ HashLimit \in Nat \ {0}
  /\ PageLimit \in Nat \ {0}
  /\ MaxText \in Nat \ {0}
  /\ MaxTime \in Nat \ {0}
  /\ None \notin Entry \cup Put \cup Syncs \cup Files
  /\ Gone \notin Syncs \cup {None}
  /\ Torn \notin Sessions

(***************************************************************************)
(* Where a sync is: not started; about to unlink an old lock, about to     *)
(* make its own; in one of its stages; about to read and to unlink its     *)
(* lock in the end; over.  Where a pass is: not started; walking; about to *)
(* hash, to put and to stat the file it has read; the state file           *)
(* truncated; over.                                                        *)
(***************************************************************************)
Stages == {"code", "memory", "waiting", "push"}
SyncPhase == {"idle", "reaping", "creating", "ending", "unlinking", "over"}
             \cup Stages
Reading == {"hash", "put", "stat"}
AtWork == {"walk", "save"} \cup Reading
PassPhase == {"idle", "over"} \cup AtWork

VARIABLES
  text,      \* of a transcript
  mtime,     \* of a transcript
  brain,     \* the text in the page of a transcript, 0 without a page
  stateFile, \* IngestState.sessions as saved
  lock,      \* the lock file: the sync in it, and if it is over five minutes old
  at,        \* where a sync is
  pass,      \* where a pass is
  parent,    \* the sync that waits for a pass
  incremental, \* the passes in that mode; the others are bulk
  sessions,  \* IngestState.sessions of a pass
  todo,      \* the files it has not visited
  file,      \* the one it is at
  body,      \* the text it has read
  sha,       \* the hash it has read
  orphan,    \* the gbrain put that a pass left behind when it was killed
  raced,     \* history: transcripts that grew while a pass or a put was at
             \* them, and those of a put that was cut off
  loose      \* history: a pass ran without a lock that nobody had touched

files == <<text, mtime>>
work == <<incremental, sessions, todo, file, body, sha>>
vars == <<files, brain, stateFile, lock, at, pass, parent, work, orphan, raced,
          loose>>

NoLock == [by |-> None, old |-> FALSE]
Empty == [f \in Files |-> None]

TypeOK ==
  /\ text \in [Files -> Texts] /\ mtime \in [Files -> Times]
  /\ brain \in [Files -> Texts \cup {0}]
  /\ stateFile \in Sessions \cup {Torn}
  /\ lock \in [by : Syncs \cup {None, Gone}, old : BOOLEAN]
  /\ at \in [Syncs -> SyncPhase]
  /\ pass \in [Passes -> PassPhase]
  /\ parent \in [Passes -> Syncs \cup {None}]
  /\ incremental \subseteq Passes
  /\ sessions \in [Passes -> Sessions]
  /\ todo \in [Passes -> SUBSET Files]
  /\ file \in [Passes -> Files \cup {None}]
  /\ body \in [Passes -> Texts]
  /\ sha \in [Passes -> Texts]
  /\ orphan \in [Passes -> Put \cup {None}]
  /\ raced \subseteq Files /\ loose \in BOOLEAN

Init ==
  /\ text = [f \in Files |-> 1] /\ mtime = [f \in Files |-> 1]
  /\ brain = [f \in Files |-> 0]
  /\ stateFile = Empty
  /\ lock = NoLock
  /\ at = [s \in Syncs |-> "idle"]
  /\ pass = [p \in Passes |-> "idle"]
  /\ parent = [p \in Passes |-> None]
  /\ incremental = {}
  /\ sessions = [p \in Passes |-> Empty]
  /\ todo = [p \in Passes |-> {}]
  /\ file = [p \in Passes |-> None]
  /\ body = [p \in Passes |-> 1] /\ sha = [p \in Passes |-> 1]
  /\ orphan = [p \in Passes |-> None]
  /\ raced = {} /\ loose = FALSE

Go(s, phase) == at' = [at EXCEPT ![s] = phase]

-----------------------------------------------------------------------------
(***************************************************************************)
(* A pass of gstack-memory-ingest.                                         *)
(***************************************************************************)
(* fileSha256. *)
Hash(t) == IF t <= HashLimit THEN t ELSE HashLimit

(* The body of a page: slice(0, 200000). *)
Body(t) == IF t <= PageLimit THEN t ELSE PageLimit

(* loadState: what does not parse is a state without sessions. *)
LoadState == IF stateFile = Torn THEN Empty ELSE stateFile

(* The file is dealt with. *)
Leave(p) ==
  /\ file' = [file EXCEPT ![p] = None]
  /\ body' = [body EXCEPT ![p] = 1]
  /\ sha' = [sha EXCEPT ![p] = 1]

(* A pass ends, and what it knew is gone. *)
Ends(p) ==
  /\ pass' = [pass EXCEPT ![p] = "over"]
  /\ incremental' = incremental \ {p}
  /\ sessions' = [sessions EXCEPT ![p] = Empty]
  /\ todo' = [todo EXCEPT ![p] = {}]
  /\ Leave(p)

StartPass(p, by) ==
  /\ pass[p] = "idle"
  /\ pass' = [pass EXCEPT ![p] = "walk"]
  /\ parent' = [parent EXCEPT ![p] = by]
  /\ incremental' \in {incremental, incremental \cup {p}}
  /\ sessions' = [sessions EXCEPT ![p] = LoadState]
  /\ todo' = [todo EXCEPT ![p] = Files]
  /\ UNCHANGED <<files, brain, stateFile, lock, file, body, sha, orphan, raced>>

(* By itself, without the lock. *)
StartAlone(p) ==
  /\ StartPass(p, None)
  /\ loose' = TRUE
  /\ UNCHANGED at

(* fileChangedSinceState: of an entry, the mtime, then the hash. *)
SameTime(p, f) == sessions[p][f] # None /\ sessions[p][f].mtime = mtime[f]
SameHash(p, f) == sessions[p][f] # None /\ sessions[p][f].sha = Hash(text[f])
Unchanged(p, f) == SameTime(p, f) \/ SameHash(p, f)

Visited(p, f) == todo' = [todo EXCEPT ![p] = @ \ {f}]

(* What has not changed is skipped; only its mtime is brought up to date. *)
SkipFile(p, f) ==
  /\ pass[p] = "walk" /\ p \in incremental /\ f \in todo[p]
  /\ Unchanged(p, f)
  /\ Visited(p, f)
  /\ sessions' = [sessions EXCEPT ![p][f].mtime = mtime[f]]
  /\ UNCHANGED <<files, brain, stateFile, lock, at, pass, parent, incremental,
                 file, body, sha, orphan, raced, loose>>

(* parseTranscriptJsonl. *)
ReadFile(p, f) ==
  /\ pass[p] = "walk" /\ f \in todo[p]
  /\ p \in incremental => ~Unchanged(p, f)
  /\ Visited(p, f)
  /\ file' = [file EXCEPT ![p] = f]
  /\ body' = [body EXCEPT ![p] = Body(text[f])]
  /\ pass' = [pass EXCEPT ![p] = "hash"]
  /\ UNCHANGED <<files, brain, stateFile, lock, at, parent, incremental, sessions,
                 sha, orphan, raced, loose>>

(* buildTranscriptPage reads the file again, for the hash. *)
HashFile(p) ==
  /\ pass[p] = "hash"
  /\ sha' = [sha EXCEPT ![p] = Hash(text[file[p]])]
  /\ pass' = [pass EXCEPT ![p] = "put"]
  /\ UNCHANGED <<files, brain, stateFile, lock, at, parent, incremental, sessions,
                 todo, file, body, orphan, raced, loose>>

(* gbrain put. *)
PutPage(p) ==
  /\ pass[p] = "put"
  /\ brain' = [brain EXCEPT ![file[p]] = body[p]]
  /\ pass' = [pass EXCEPT ![p] = "stat"]
  /\ UNCHANGED <<files, stateFile, lock, at, parent, work, orphan, raced, loose>>

(* Mutation: a failed page is remembered, too. *)
FileFailsRecorded(p) ==
  /\ pass[p] \in {"hash", "put"}
  /\ sessions' = [sessions EXCEPT ![p][file[p]] =
                    [mtime |-> mtime[file[p]], sha |-> Hash(text[file[p]])]]
  /\ Leave(p)
  /\ pass' = [pass EXCEPT ![p] = "walk"]
  /\ UNCHANGED <<files, brain, stateFile, lock, at, parent, incremental, todo,
                 orphan, raced, loose>>

(* A put that nobody sees succeed may have been done. *)
PutOrNot(p) ==
  \/ UNCHANGED brain
  \/ pass[p] = "put" /\ brain' = [brain EXCEPT ![file[p]] = body[p]]

(* Skipped for what is in it, not parsed, or not put, as far as is known: no
   entry. *)
FileFails(p) ==
  /\ pass[p] \in {"hash", "put"}
  /\ PutOrNot(p)
  /\ Leave(p)
  /\ pass' = [pass EXCEPT ![p] = "walk"]
  /\ UNCHANGED <<files, stateFile, lock, at, parent, incremental, sessions, todo,
                 orphan, raced, loose>>

(* A put that was left behind is at the file. *)
BeingPut(f) == \E p \in Passes : orphan[p] # None /\ orphan[p].file = f

(* The entry, with the mtime of this moment. *)
Record(p) ==
  LET f == file[p] IN
  /\ pass[p] = "stat"
  /\ sessions' = [sessions EXCEPT ![p][f] = [mtime |-> mtime[f], sha |-> sha[p]]]
  /\ Leave(p)
  /\ pass' = [pass EXCEPT ![p] = "walk"]
  /\ raced' = IF brain[f] = Body(text[f]) /\ ~BeingPut(f)
                 /\ \A q \in Passes \ {p} : file[q] # f
              THEN raced \ {f} ELSE raced
  /\ UNCHANGED <<files, brain, stateFile, lock, at, parent, incremental, todo,
                 orphan, loose>>

(* saveState: writeFileSync truncates the file, then writes. *)
TruncateState(p) ==
  /\ pass[p] = "walk" /\ todo[p] = {}
  /\ stateFile' = Torn
  /\ pass' = [pass EXCEPT ![p] = "save"]
  /\ UNCHANGED <<files, brain, lock, at, parent, work, orphan, raced, loose>>

(* Over the longer text of another pass, a part of which stays. *)
WriteState(p) ==
  /\ pass[p] = "save"
  /\ \/ stateFile' = sessions[p]
     \/ stateFile # Torn /\ stateFile' = Torn
  /\ Ends(p)
  /\ UNCHANGED <<files, brain, lock, at, parent, orphan, raced, loose>>

(* The end of a pass is not the end of its put, which has got the page, or as
   much of it as was in the pipe. *)
LeavePut(p) ==
  IF pass[p] = "put"
  THEN \E t \in 1..body[p] :
         /\ orphan' = [orphan EXCEPT ![p] = [file |-> file[p], text |-> t]]
         /\ raced' = IF t = body[p] THEN raced ELSE raced \cup {file[p]}
  ELSE UNCHANGED <<orphan, raced>>

(* Killed, an exception nobody catches, or a state file that is not written. *)
PassDies(p) ==
  /\ pass[p] \in AtWork
  /\ LeavePut(p)
  /\ Ends(p)
  /\ UNCHANGED <<files, brain, stateFile, lock, at, parent, loose>>

(* At last, unless it fails, or never ran. *)
OrphanPuts(p) ==
  /\ orphan[p] # None
  /\ brain' \in {brain, [brain EXCEPT ![orphan[p].file] = orphan[p].text]}
  /\ orphan' = [orphan EXCEPT ![p] = None]
  /\ UNCHANGED <<files, stateFile, lock, at, pass, parent, work, raced, loose>>

-----------------------------------------------------------------------------
(***************************************************************************)
(* gstack-gbrain-sync.                                                     *)
(***************************************************************************)
Rest == <<files, brain, stateFile, work, orphan, raced>>

(* acquireLock: no lock, or one of more than five minutes. *)
LookAtLock(s) ==
  /\ at[s] = "idle"
  /\ \/ lock = NoLock /\ Go(s, "creating")
     \/ lock.old /\ Go(s, "reaping")
     \/ lock # NoLock /\ ~lock.old /\ Go(s, "over")
  /\ UNCHANGED <<lock, pass, parent, loose, Rest>>

(* By now it may be the lock of another sync, or none. *)
ReapLock(s) ==
  /\ at[s] = "reaping"
  /\ lock' = NoLock
  /\ loose' = (loose \/ lock.by \in Syncs)
  /\ Go(s, IF lock = NoLock THEN "over" ELSE "creating")
  /\ UNCHANGED <<pass, parent, Rest>>

(* Mutation: without the flag "wx". *)
CreateLockAnyway(s) ==
  /\ at[s] = "creating"
  /\ lock' = [by |-> s, old |-> FALSE]
  /\ Go(s, "code")
  /\ UNCHANGED <<pass, parent, loose, Rest>>

(* The flag "wx": the program ends when there is a lock again. *)
CreateLock(s) ==
  /\ at[s] = "creating"
  /\ \/ /\ lock = NoLock
        /\ lock' = [by |-> s, old |-> FALSE]
        /\ Go(s, "code")
     \/ lock # NoLock /\ Go(s, "over") /\ UNCHANGED lock
  /\ UNCHANGED <<pass, parent, loose, Rest>>

(* The code stage, whatever comes of it, and a memory stage or none. *)
CodeStage(s) ==
  /\ at[s] = "code"
  /\ Go(s, "memory") \/ Go(s, "push")
  /\ UNCHANGED <<lock, pass, parent, loose, Rest>>

(* runMemoryIngest starts a pass and waits for it, 35 minutes at most. *)
RunMemoryIngest(s) ==
  /\ at[s] = "memory"
  /\ \E p \in Passes : StartPass(p, s)
  /\ Go(s, "waiting")
  /\ UNCHANGED loose

IngestOver(s) ==
  \E p \in Passes :
    /\ at[s] = "waiting" /\ parent[p] = s /\ pass[p] = "over"
    /\ parent' = [parent EXCEPT ![p] = None]
    /\ Go(s, "push")
    /\ UNCHANGED <<lock, pass, loose, Rest>>

(* Mutation: the pass is left running. *)
IngestAbandoned(s) ==
  \E p \in Passes :
    /\ at[s] = "waiting" /\ parent[p] = s /\ pass[p] \in AtWork
    /\ parent' = [parent EXCEPT ![p] = None]
    /\ Go(s, "push")
    /\ UNCHANGED <<lock, pass, loose, Rest>>

(* spawnSync kills the pass. *)
IngestTimeout(s) ==
  \E p \in Passes :
    /\ at[s] = "waiting" /\ parent[p] = s /\ pass[p] \in AtWork
    /\ parent' = [parent EXCEPT ![p] = None]
    /\ LeavePut(p)
    /\ Ends(p)
    /\ Go(s, "push")
    /\ UNCHANGED <<files, brain, stateFile, lock, loose>>

PushStage(s) ==
  /\ at[s] = "push"
  /\ Go(s, "ending")
  /\ UNCHANGED <<lock, pass, parent, loose, Rest>>

(* releaseLock, in a finally block: only its own. *)
ReadLock(s) ==
  /\ at[s] = "ending"
  /\ Go(s, IF lock.by = s THEN "unlinking" ELSE "over")
  /\ UNCHANGED <<lock, pass, parent, loose, Rest>>

(* By now it may be the lock of another. *)
UnlinkLock(s) ==
  /\ at[s] = "unlinking"
  /\ lock' = NoLock
  /\ loose' = (loose \/ lock.by \in Syncs \ {s})
  /\ Go(s, "over")
  /\ UNCHANGED <<pass, parent, Rest>>

(* Killed: its lock stays, and so does the pass it waits for. *)
SyncDies(s) ==
  /\ at[s] \notin {"idle", "over"}
  /\ Go(s, "over")
  /\ lock' = IF lock.by = s THEN [lock EXCEPT !.by = Gone] ELSE lock
  /\ parent' = [p \in Passes |-> IF parent[p] = s THEN None ELSE parent[p]]
  /\ loose' = (loose \/ \E p \in Passes : parent[p] = s /\ pass[p] \in AtWork)
  /\ UNCHANGED <<pass, Rest>>

(* Five minutes have passed. *)
LockAges ==
  /\ lock # NoLock /\ ~lock.old
  /\ lock' = [lock EXCEPT !.old = TRUE]
  /\ UNCHANGED <<at, pass, parent, loose, Rest>>

-----------------------------------------------------------------------------
(* The agent appends to its transcript. *)
Append(f) ==
  /\ mtime[f] < MaxTime
  /\ \E t \in Texts : t > text[f] /\ text' = [text EXCEPT ![f] = t]
  /\ mtime' = [mtime EXCEPT ![f] = @ + 1]
  /\ raced' = IF BeingPut(f) \/ \E p \in Passes : file[p] = f
              THEN raced \cup {f} ELSE raced
  /\ UNCHANGED <<brain, stateFile, lock, at, pass, parent, work, orphan, loose>>

(* The file gets another mtime, as by a copy of the directory. *)
Touch(f) ==
  /\ mtime[f] < MaxTime
  /\ mtime' = [mtime EXCEPT ![f] = @ + 1]
  /\ UNCHANGED <<text, brain, stateFile, lock, at, pass, parent, work, orphan, raced,
                 loose>>

PassStep(p) ==
  \/ StartAlone(p)
  \/ \E f \in Files : SkipFile(p, f) \/ ReadFile(p, f)
  \/ HashFile(p) \/ PutPage(p) \/ FileFails(p) \/ Record(p)
  \/ TruncateState(p) \/ WriteState(p) \/ PassDies(p)
  \/ OrphanPuts(p)

SyncStep(s) ==
  \/ LookAtLock(s) \/ ReapLock(s) \/ CreateLock(s) \/ CodeStage(s)
  \/ RunMemoryIngest(s) \/ IngestOver(s) \/ IngestTimeout(s)
  \/ PushStage(s) \/ ReadLock(s) \/ UnlinkLock(s) \/ SyncDies(s)

Next ==
  \/ \E p \in Passes : PassStep(p)
  \/ \E s \in Syncs : SyncStep(s)
  \/ LockAges
  \/ \E f \in Files : Append(f) \/ Touch(f)

Spec == Init /\ [][Next]_vars

-----------------------------------------------------------------------------
(***************************************************************************)
(* Properties.                                                             *)
(***************************************************************************)
(* The next incremental pass will skip the file by its mtime. *)
Settled(f) ==
  stateFile # Torn /\ stateFile[f] # None /\ stateFile[f].mtime = mtime[f]

(* "mtime fast-path; only walks changed files": what the next pass skips is
   in the brain, as far as the hash sees it and a page takes it, whatever
   passes died, overlapped or wrote the state file over each other; unless
   the file grew while a pass or a put was at it, or a put was cut off. *)
UnchangedIsIngested ==
  \A f \in Files :
    Settled(f) => brain[f] >= Body(Hash(text[f])) \/ f \in raced

(* What the lock is for: two passes are at work together only when one was
   started by itself, outlived its sync, or its lock was taken from it. *)
OneAtATime ==
  \A p, q \in Passes :
    pass[p] \in AtWork /\ pass[q] \in AtWork /\ p # q => loose

(* A page never goes back to an older text, unless two passes were at work
   together, or by the put of a pass that was killed: a pass reads a
   transcript before it puts its page, and the last to put is not the last to
   have read. *)
PagesDoNotGoBack ==
  [][\A f \in Files : brain'[f] < brain[f] =>
       loose \/ \E p \in Passes : orphan[p] # None /\ orphan[p].file = f
                                 /\ orphan'[p] = None]_vars

=============================================================================
