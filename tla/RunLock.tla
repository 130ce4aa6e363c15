------------------------------ MODULE RunLock ------------------------------
(***************************************************************************)
(* The run lock of an analysis task, file call by file call:               *)
(* _acquire_run_lock and _release_run_lock of                              *)
(* src/src/services/requirement_analysis_service.py on one .running.lock,  *)
(* shared by processes that may be killed anywhere and started again.      *)
(*                                                                         *)
(* Only the creation (O_CREAT|O_EXCL) is atomic; between the calls any     *)
(* other process may act.  The clock is reduced to what the code asks of   *)
(* it: is the file more than two hours old?                                *)
(***************************************************************************)
EXTENDS FiniteSets

CONSTANTS
  Lockers,    \* processes, known by their process id
  LongHold,   \* may a process hold the lock for more than two hours?
  NoFile      \* no file

ASSUME LongHoldAssumption == LongHold \in BOOLEAN

(* The lock file: its creator, whether the pid is in it yet, and whether it
   is two hours old. *)
Lock == [owner : Lockers, written : BOOLEAN, stale : BOOLEAN]

ASSUME NoFileAssumption == NoFile \notin Lock

(***************************************************************************)
(* Where a process is:                                                     *)
(*   idle     outside both functions, without the lock                     *)
(*   open     about to create the file                                     *)
(*   write    the file is created, its pid not written                     *)
(*   stat     the file existed, its age is to be read                      *)
(*   unlink   the age was over two hours, the file is to be removed        *)
(*   holding  _acquire_run_lock returned True, the work goes on            *)
(*   working  at work without the lock: start_analysis and retry_analysis  *)
(*            drop the answer of _acquire_run_lock, and a retry releases   *)
(*            a second time when its run has released already              *)
(*   remove   releasing: the pid in the file was the process's own         *)
(*   dead     killed                                                       *)
(***************************************************************************)
LockPC == {"idle", "open", "write", "stat", "unlink", "holding", "working", "remove",
           "dead"}
Owning == {"write", "holding", "remove"}

VARIABLES
  at,        \* where each process is
  lockFile,  \* the file
  reapers,   \* history: the processes that ever judged a lock file a zombie
  strays     \* history: those that went to remove a lock without holding it

lockVars == <<at, lockFile, reapers, strays>>

LockTypeOK ==
  /\ at \in [Lockers -> LockPC]
  /\ lockFile \in Lock \cup {NoFile}
  /\ reapers \subseteq Lockers
  /\ strays \subseteq Lockers

LockInit ==
  /\ at = [p \in Lockers |-> "idle"]
  /\ lockFile = NoFile
  /\ reapers = {}
  /\ strays = {}

Move(p, to) == at' = [at EXCEPT ![p] = to]

(* Without the lock: a recovery leaves it at that, another run goes on. *)
MoveUnlocked(p) == Move(p, "idle") \/ Move(p, "working")

(* _acquire_run_lock is called. *)
AcquireRunLock(p) ==
  /\ at[p] = "idle"
  /\ Move(p, "open")
  /\ UNCHANGED <<lockFile, reapers, strays>>

(* Mutation: without O_EXCL, an existing file is opened and overwritten. *)
CreateOverwriting(p) ==
  /\ at[p] = "open"
  /\ lockFile' = [owner |-> p, written |-> FALSE, stale |-> FALSE]
  /\ Move(p, "write")
  /\ UNCHANGED <<reapers, strays>>

(* os.open with O_CREAT|O_EXCL. *)
Create(p) ==
  /\ at[p] = "open" /\ lockFile = NoFile
  /\ lockFile' = [owner |-> p, written |-> FALSE, stale |-> FALSE]
  /\ Move(p, "write")
  /\ UNCHANGED <<reapers, strays>>

Exists(p) ==
  /\ at[p] = "open" /\ lockFile # NoFile
  /\ Move(p, "stat")
  /\ UNCHANGED <<lockFile, reapers, strays>>

(* os.write of the pid; True is returned. *)
WritePid(p) ==
  /\ at[p] = "write"
  /\ lockFile' = IF lockFile # NoFile /\ lockFile.owner = p
             THEN [lockFile EXCEPT !.written = TRUE]
             ELSE lockFile
  /\ Move(p, "holding")
  /\ UNCHANGED <<reapers, strays>>

(* An OSError, of the creation or of the write: False is returned, and a
   file that was created stays behind without a pid. *)
AcquireFails(p) ==
  /\ at[p] \in {"open", "write"}
  /\ MoveUnlocked(p)
  /\ UNCHANGED <<lockFile, reapers, strays>>

(* stat: the file has gone, and the creation is tried again ... *)
StatGone(p) ==
  /\ at[p] = "stat" /\ lockFile = NoFile
  /\ Move(p, "open")
  /\ UNCHANGED <<lockFile, reapers, strays>>

(* ... it is young, and False is returned ... *)
StatYoung(p) ==
  /\ at[p] = "stat" /\ lockFile # NoFile /\ ~lockFile.stale
  /\ MoveUnlocked(p)
  /\ UNCHANGED <<lockFile, reapers, strays>>

(* Mutation: any lock file is taken for a zombie. *)
StatStaleAtAnyAge(p) ==
  /\ at[p] = "stat" /\ lockFile # NoFile
  /\ Move(p, "unlink")
  /\ reapers' = reapers \cup {p}
  /\ UNCHANGED <<lockFile, strays>>

(* ... or it is taken for a zombie. *)
StatStale(p) ==
  /\ at[p] = "stat" /\ lockFile # NoFile /\ lockFile.stale
  /\ Move(p, "unlink")
  /\ reapers' = reapers \cup {p}
  /\ UNCHANGED <<lockFile, strays>>

(* unlink removes the file of that name, whichever it is by now; that there
   is none is ignored.  The creation is tried again. *)
Reap(p) ==
  /\ at[p] = "unlink"
  /\ lockFile' = NoFile
  /\ Move(p, "open")
  /\ UNCHANGED <<reapers, strays>>

(* _release_run_lock, called by whoever was at work, whatever its
   _acquire_run_lock had answered: nothing is done without a file with one's
   own pid ... *)
OwnFile(p) == lockFile # NoFile /\ lockFile.owner = p /\ lockFile.written

ReleaseNothing(p) ==
  /\ at[p] \in {"holding", "working"}
  /\ ~OwnFile(p)
  /\ MoveUnlocked(p)
  /\ UNCHANGED <<lockFile, reapers, strays>>

(* ... which is to be removed otherwise. *)
ReleaseRead(p) ==
  /\ at[p] \in {"holding", "working"}
  /\ OwnFile(p)
  /\ Move(p, "remove")
  /\ strays' = IF at[p] = "working" THEN strays \cup {p} ELSE strays
  /\ UNCHANGED <<lockFile, reapers>>

ReleaseUnlink(p) ==
  /\ at[p] = "remove"
  /\ lockFile' = NoFile
  /\ MoveUnlocked(p)
  /\ UNCHANGED <<reapers, strays>>

(* A first pipeline or a recovery that failed releases nothing: the lock is
   left to age, under the pid of a live process. *)
KeepLock(p) ==
  /\ at[p] \in {"holding", "working"}
  /\ Move(p, "idle")
  /\ UNCHANGED <<lockFile, reapers, strays>>

LockerCrash(p) ==
  /\ at[p] # "dead"
  /\ Move(p, "dead")
  /\ UNCHANGED <<lockFile, reapers, strays>>

(* A new process with the same id, as in a container. *)
LockerRestart(p) ==
  /\ at[p] = "dead"
  /\ Move(p, "idle")
  /\ UNCHANGED <<lockFile, reapers, strays>>

(* Two hours have passed since the file was written. *)
LockAge ==
  /\ lockFile # NoFile /\ ~lockFile.stale
  /\ LongHold \/ at[lockFile.owner] \notin Owning
  /\ lockFile' = [lockFile EXCEPT !.stale = TRUE]
  /\ UNCHANGED <<at, reapers, strays>>

LockNext ==
  \/ \E p \in Lockers :
       \/ AcquireRunLock(p) \/ Create(p) \/ Exists(p) \/ WritePid(p) \/ AcquireFails(p)
       \/ StatGone(p) \/ StatYoung(p) \/ StatStale(p) \/ Reap(p)
       \/ ReleaseNothing(p) \/ ReleaseRead(p) \/ ReleaseUnlink(p) \/ KeepLock(p)
       \/ LockerCrash(p) \/ LockerRestart(p)
  \/ LockAge

LockSpec == LockInit /\ [][LockNext]_lockVars

-----------------------------------------------------------------------------
(***************************************************************************)
(* Properties.                                                             *)
(***************************************************************************)

(* "False: another process is executing the task already" (the comment of
   _acquire_run_lock): no two processes hold the lock. *)
Exclusive ==
  \A p, q \in Lockers : at[p] = "holding" /\ at[q] = "holding" => p = q

(* No lock file was ever taken for a zombie; or only one process ever did so,
   no holder works longer than two hours, and whoever removed its own file
   held the lock. *)
NoReapingRace ==
  \/ reapers = {}
  \/ ~LongHold /\ strays = {} /\ \E q \in Lockers : reapers \subseteq {q}

(* The lock excludes unless two processes reap, or a holder outlives its own
   lock file, or one process reaps and another, refused the lock, releases the
   file that an earlier run of its pid left behind. *)
ExclusiveUnlessReaped == NoReapingRace => Exclusive

(* _release_run_lock removes no file of another process ("the pid is checked
   lest a process delete the lock of another"), under the same condition: the
   file is still the one whose pid was read. *)
ReleasesOwnLock ==
  NoReapingRace =>
    \A p \in Lockers : at[p] = "remove" => lockFile # NoFile /\ lockFile.owner = p

=============================================================================
