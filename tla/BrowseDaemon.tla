---------------------------- MODULE BrowseDaemon ----------------------------
(***************************************************************************)
(* The life of the browse daemon: the command line programs that find,     *)
(* start, kill and restart it (cli.ts), and the servers (server.ts), which *)
(* meet only in two files (.agents/skills/gstack/browse/src):              *)
(*   the state file, which names the server to talk to, and                *)
(*   its lock, which is to let one program at a time start a server.       *)
(***************************************************************************)
EXTENDS Integers, FiniteSets

CONSTANTS
  Clis,      \* runs of the command line program
  MaxServer, \* bound: server processes 1..MaxServer; one more than two for each
             \* program and one for each such answer is enough
  None,
  Past,      \* a run of the program that was killed before
  MaxFaults, \* bound: crashes, shutdowns, restarts for another binary and slow
             \* answers
  MaxReused  \* bound: answers of a server at the port of an earlier one

Servers == 1..MaxServer

ASSUME DaemonAssumption ==
  /\ MaxServer \in Nat \ {0} /\ MaxFaults \in Nat /\ MaxReused \in Nat
  /\ None \notin Clis \cup Servers /\ Past \notin Clis \cup {None}

(***************************************************************************)
(* Where a run of the program is:                                          *)
(*   begun, checking         ensureServer before the lock                  *)
(*   locking, inspecting, unlinking, writing    acquireServerLock          *)
(*   waiting                 for the program that has the lock             *)
(*   rereading, rechecking   ensureServer under the lock                   *)
(*   term, kill              killServer                                    *)
(*   spawning, polling, listening                            startServer   *)
(*   sending                 sendCommand                                   *)
(*   done, failed, gone      answered; ended with an error; killed         *)
(***************************************************************************)
Ended == {"done", "failed", "gone"}
Holding == {"writing", "rereading", "rechecking"}
Restarting == {"term", "kill", "spawning", "polling", "listening"}
Phase == {"begun", "checking", "locking", "inspecting", "unlinking", "waiting",
          "sending"} \cup Holding \cup Restarting \cup Ended

NoLock == [by |-> None, pid |-> None]

VARIABLES
  cli,     \* where a program is
  seen,    \* the state it has read
  fresh,   \* the state it has read under the lock, until it has used it
  locked,  \* the programs that run releaseLock in the end
  retried, \* the programs at their last try: retries is 1
  srv,     \* "unused", "starting", "up", "stopping" or "dead"
  heeds,   \* the servers that SIGTERM shuts down: headed, or with a tunnel
  child,   \* the server a program has spawned, while it is in startServer
  file,    \* the state file
  lock,    \* the lock file: who made it, and the pid in it
  faults, reused,
  stolen,  \* history: a lock was removed whose maker was alive
  loose    \* history: a server was started or forgotten in spite of the lock

vars == <<cli, seen, fresh, locked, retried, srv, heeds, child, file, lock,
          faults, reused, stolen, loose>>

TypeOK ==
  /\ cli \in [Clis -> Phase]
  /\ seen \in [Clis -> Servers \cup {None}]
  /\ fresh \in [Clis -> Servers \cup {None}]
  /\ locked \subseteq Clis /\ retried \subseteq Clis
  /\ srv \in [Servers -> {"unused", "starting", "up", "stopping", "dead"}]
  /\ heeds \subseteq Servers
  /\ child \in [Clis -> Servers \cup {None}]
  /\ file \in Servers \cup {None}
  /\ lock \in [by : Clis \cup {Past, None}, pid : Clis \cup {Past, None}]
  /\ faults \in 0..MaxFaults /\ reused \in 0..MaxReused
  /\ stolen \in BOOLEAN /\ loose \in BOOLEAN

(* Left from before: nothing, a server, or a dead one; a stale lock, or none. *)
Init ==
  /\ cli = [c \in Clis |-> "begun"]
  /\ seen = [c \in Clis |-> None] /\ fresh = [c \in Clis |-> None]
  /\ locked = {} /\ retried = {}
  /\ \/ srv = [s \in Servers |-> "unused"] /\ file = None
     \/ /\ \E state \in {"up", "dead"} :
             srv = [s \in Servers |-> IF s = 1 THEN state ELSE "unused"]
        /\ file = 1
  /\ heeds = {} /\ child = [c \in Clis |-> None]
  /\ lock \in {NoLock, [by |-> Past, pid |-> Past]}
  /\ faults = 0 /\ reused = 0 /\ stolen = FALSE /\ loose = FALSE

Running(p) == p \in Clis /\ cli[p] \notin Ended

Goto(c, phase) == cli' = [cli EXCEPT ![c] = phase]
Fault == faults < MaxFaults /\ faults' = faults + 1

Alive(s) == srv[s] \in {"starting", "up", "stopping"}

(* isServerHealthy: no without a server that listens; yes from one that is
   up, unless it takes more than two seconds. *)
Healthy(s) == s # None /\ srv[s] = "up" /\ UNCHANGED faults
Unhealthy(s) ==
  IF s # None /\ srv[s] = "up" THEN Fault ELSE UNCHANGED faults

-----------------------------------------------------------------------------
(***************************************************************************)
(* ensureServer and acquireServerLock.                                     *)
(***************************************************************************)
ReadState(c) ==
  /\ cli[c] = "begun"
  /\ seen' = [seen EXCEPT ![c] = file]
  /\ Goto(c, "checking")
  /\ UNCHANGED <<fresh, locked, retried, srv, heeds, child, reused, file, lock,
                 faults, stolen, loose>>

ServerFound(c) ==
  /\ cli[c] = "checking" /\ Healthy(seen[c])
  /\ Goto(c, "sending")
  /\ UNCHANGED <<seen, fresh, locked, retried, srv, heeds, child, reused, file,
                 lock, stolen, loose>>

(* A server that runs an older binary is restarted, without the lock. *)
ServerOutdated(c) ==
  /\ cli[c] = "checking" /\ seen[c] # None /\ srv[seen[c]] = "up"
  /\ Fault
  /\ Goto(c, "term")
  /\ UNCHANGED <<seen, fresh, locked, retried, srv, heeds, child, reused, file,
                 lock, stolen, loose>>

(* A headed server that is alive is not replaced: the program ends. *)
ServerLost(c) ==
  /\ cli[c] = "checking" /\ Unhealthy(seen[c])
  /\ \/ Goto(c, "locking")
     \/ seen[c] \in heeds /\ Alive(seen[c]) /\ Goto(c, "failed")
  /\ UNCHANGED <<seen, fresh, locked, retried, srv, heeds, child, reused, file,
                 lock, stolen, loose>>

(* Mutation: open(lockPath, "w"). *)
TakeLockAnyway(c) ==
  /\ cli[c] = "locking"
  /\ lock' = [by |-> c, pid |-> None]
  /\ locked' = locked \cup {c}
  /\ Goto(c, "writing")
  /\ UNCHANGED <<seen, fresh, retried, srv, heeds, child, reused, file, faults,
                 stolen, loose>>

(* open(lockPath, "wx"): the file is made, its pid is written later. *)
TakeLock(c) ==
  /\ cli[c] = "locking" /\ lock = NoLock
  /\ lock' = [by |-> c, pid |-> None]
  /\ locked' = locked \cup {c}
  /\ Goto(c, "writing")
  /\ UNCHANGED <<seen, fresh, retried, srv, heeds, child, reused, file, faults,
                 stolen, loose>>

(* The descriptor may by now be that of a file that was unlinked. *)
WritePid(c) ==
  /\ cli[c] = "writing"
  /\ lock' = IF lock.by = c THEN [lock EXCEPT !.pid = c] ELSE lock
  /\ Goto(c, "rereading")
  /\ UNCHANGED <<seen, fresh, locked, retried, srv, heeds, child, reused, file,
                 faults, stolen, loose>>

LockTaken(c) ==
  /\ cli[c] = "locking" /\ lock # NoLock
  /\ Goto(c, "inspecting")
  /\ UNCHANGED <<seen, fresh, locked, retried, srv, heeds, child, reused, file,
                 lock, faults, stolen, loose>>

(* The pid of a live process: wait.  None, or of a dead one: a stale lock.
   No file any more: wait, too. *)
InspectLock(c) ==
  /\ cli[c] = "inspecting"
  /\ Goto(c, IF lock # NoLock /\ ~Running(lock.pid) THEN "unlinking" ELSE "waiting")
  /\ UNCHANGED <<seen, fresh, locked, retried, srv, heeds, child, reused, file,
                 lock, faults, stolen, loose>>

(* By now it may be the lock of another program. *)
UnlinkStale(c) ==
  /\ cli[c] = "unlinking"
  /\ lock' = NoLock
  /\ stolen' = (stolen \/ Running(lock.by))
  /\ Goto(c, IF lock = NoLock THEN "waiting" ELSE "locking")
  /\ UNCHANGED <<seen, fresh, locked, retried, srv, heeds, child, reused, file,
                 faults, loose>>

(* MAX_START_WAIT is over, and no server has answered: one that is up,
   only if it is slow. *)
Deadline ==
  IF file # None /\ srv[file] = "up" THEN Fault ELSE UNCHANGED faults

(* Mutation: the loop has no deadline. *)
WaitForServer(c) ==
  /\ cli[c] = "waiting" /\ Healthy(file)
  /\ seen' = [seen EXCEPT ![c] = file]
  /\ Goto(c, "sending")
  /\ UNCHANGED <<fresh, locked, retried, srv, heeds, child, reused, file, lock,
                 stolen, loose>>

WaitOver(c) ==
  /\ cli[c] = "waiting"
  /\ \/ /\ Healthy(file)
        /\ seen' = [seen EXCEPT ![c] = file]
        /\ Goto(c, "sending")
     \/ Deadline /\ Goto(c, "failed") /\ UNCHANGED seen
  /\ UNCHANGED <<fresh, locked, retried, srv, heeds, child, reused, file, lock,
                 stolen, loose>>

(* Mutation: the state read before the lock is used under it. *)
RereadNothing(c) ==
  /\ cli[c] = "rereading"
  /\ fresh' = [fresh EXCEPT ![c] = seen[c]]
  /\ Goto(c, "rechecking")
  /\ UNCHANGED <<seen, locked, retried, srv, heeds, child, reused, file, lock,
                 faults, stolen, loose>>

Reread(c) ==
  /\ cli[c] = "rereading"
  /\ fresh' = [fresh EXCEPT ![c] = file]
  /\ Goto(c, "rechecking")
  /\ UNCHANGED <<seen, locked, retried, srv, heeds, child, reused, file, lock,
                 faults, stolen, loose>>

(* releaseLock, in a finally block: the file goes, whoever made it. *)
Release(c, phase) ==
  /\ Goto(c, phase)
  /\ lock' = IF c \in locked THEN NoLock ELSE lock
  /\ locked' = locked \ {c}

FreshFound(c) ==
  /\ cli[c] = "rechecking" /\ Healthy(fresh[c])
  /\ seen' = [seen EXCEPT ![c] = fresh[c]]
  /\ fresh' = [fresh EXCEPT ![c] = None]
  /\ Release(c, "sending")
  /\ UNCHANGED <<retried, srv, heeds, child, reused, file, stolen, loose>>

(* The server that was read before the lock is killed; the one read under it,
   slow to answer, is left alone. *)
FreshLost(c) ==
  /\ cli[c] = "rechecking" /\ Unhealthy(fresh[c])
  /\ Goto(c, "term")
  /\ loose' = (loose \/ (fresh[c] \notin {None, seen[c]} /\ Alive(fresh[c])))
  /\ fresh' = [fresh EXCEPT ![c] = None]
  /\ UNCHANGED <<seen, locked, retried, srv, heeds, child, reused, file, lock,
                 stolen>>

-----------------------------------------------------------------------------
(***************************************************************************)
(* killServer, startServer and sendCommand.                                *)
(***************************************************************************)
(* SIGTERM; a headless server ignores it. *)
Terminate(c) ==
  /\ cli[c] = "term"
  /\ IF seen[c] # None /\ Alive(seen[c])
     THEN /\ srv' = IF seen[c] \in heeds THEN [srv EXCEPT ![seen[c]] = "stopping"]
                                         ELSE srv
          /\ Goto(c, "kill")
     ELSE UNCHANGED srv /\ Goto(c, "spawning")
  /\ UNCHANGED <<seen, fresh, locked, retried, heeds, child, reused, file,
                 lock, faults, stolen, loose>>

(* SIGKILL after two seconds, if it is still there. *)
Kill(c) ==
  /\ cli[c] = "kill"
  /\ srv' = [srv EXCEPT ![seen[c]] = "dead"]
  /\ Goto(c, "spawning")
  /\ UNCHANGED <<seen, fresh, locked, retried, heeds, child, reused, file,
                 lock, faults, stolen, loose>>

(* The state file goes, whichever server it names. *)
Spawn(c) ==
  /\ cli[c] = "spawning"
  /\ \E s \in Servers :
       /\ \A t \in Servers : srv[t] = "unused" <=> t >= s
       /\ srv' = [srv EXCEPT ![s] = "starting"]
       /\ heeds' \in {heeds, heeds \cup {s}}
       /\ child' = [child EXCEPT ![c] = s]
  /\ file' = None
  /\ loose' = (loose \/ c \notin locked)
  /\ Goto(c, "polling")
  /\ UNCHANGED <<seen, fresh, locked, retried, lock, faults, reused, stolen>>

(* startServer ends: the program has no more to do with its child. *)
StartEnds(c, phase) ==
  /\ Release(c, phase)
  /\ child' = [child EXCEPT ![c] = None]

(* Any healthy server will do. *)
Started(c) ==
  /\ cli[c] = "polling" /\ Healthy(file)
  /\ seen' = [seen EXCEPT ![c] = file]
  /\ StartEnds(c, "sending")
  /\ UNCHANGED <<fresh, retried, srv, heeds, reused, file, stolen, loose>>

(* MAX_START_WAIT is over: proc.stderr is read, without a timeout and with the
   lock, if there is one. *)
StartTimeout(c) ==
  /\ cli[c] = "polling" /\ Deadline
  /\ Goto(c, "listening")
  /\ UNCHANGED <<seen, fresh, locked, retried, srv, heeds, child, reused, file,
                 lock, stolen, loose>>

(* The error is thrown.  The server may come up all the same. *)
StartFails(c) ==
  /\ cli[c] = "listening"
  /\ loose' = (loose \/ \E s \in Servers : srv[s] = "starting")
  /\ StartEnds(c, "failed")
  /\ UNCHANGED <<seen, fresh, retried, srv, heeds, reused, file, faults, stolen>>

(* The child has written something, now or before; but it need not. *)
ErrorRead(c) == StartFails(c) /\ srv[child[c]] # "dead"

(* The child is dead: the end of its stderr. *)
ErrorEnds(c) == StartFails(c) /\ srv[child[c]] = "dead"

Answered(c) ==
  /\ cli[c] = "sending" /\ srv[seen[c]] \in {"up", "stopping"}
  /\ Goto(c, "done")
  /\ UNCHANGED <<seen, fresh, locked, retried, srv, heeds, child, reused, file,
                 lock, faults, stolen, loose>>

(* The connection is lost: the server in the state file is killed and another
   started, without the lock; at the last try, the program gives up. *)
ConnectionLost(c) ==
  /\ cli[c] = "sending" /\ srv[seen[c]] \in {"stopping", "dead"}
  /\ IF c \in retried
     THEN Goto(c, "failed") /\ UNCHANGED <<seen, retried>>
     ELSE /\ retried' = retried \cup {c}
          /\ seen' = [seen EXCEPT ![c] = file]
          /\ Goto(c, "term")
  /\ UNCHANGED <<fresh, locked, srv, heeds, child, reused, file, lock, faults,
                 stolen, loose>>

(* Another server, with another token, is at the port by now: 401.  The command
   is sent to the server the state file names, if that is another one, with
   retries at 0 again. *)
Unauthorized(c) ==
  /\ cli[c] = "sending" /\ srv[seen[c]] = "dead"
  /\ \E s \in Servers : srv[s] \in {"up", "stopping"}
  /\ reused < MaxReused /\ reused' = reused + 1
  /\ IF file \in {None, seen[c]}
     THEN Goto(c, "failed") /\ UNCHANGED <<seen, retried>>
     ELSE /\ seen' = [seen EXCEPT ![c] = file]
          /\ retried' = retried \ {c}
          /\ UNCHANGED cli
  /\ UNCHANGED <<fresh, locked, srv, heeds, child, file, lock, faults, stolen,
                 loose>>

(* The program is killed, wherever it is. *)
CliDies(c) ==
  /\ cli[c] \notin Ended
  /\ Fault
  /\ Goto(c, "gone")
  /\ locked' = locked \ {c}
  /\ loose' = (loose \/ cli[c] \in {"polling", "listening"})
  /\ UNCHANGED <<seen, fresh, retried, srv, heeds, child, reused, file, lock,
                 stolen>>

-----------------------------------------------------------------------------
(***************************************************************************)
(* The server.                                                             *)
(***************************************************************************)
(* It listens, and renames its state file into place. *)
ServerUp(s) ==
  /\ srv[s] = "starting"
  /\ srv' = [srv EXCEPT ![s] = "up"]
  /\ file' = s
  /\ UNCHANGED <<cli, seen, fresh, locked, retried, heeds, child, reused, lock,
                 faults, stolen, loose>>

(* Chromium crashed, or SIGKILL: the state file stays. *)
ServerDies(s) ==
  /\ srv[s] \in {"starting", "up"}
  /\ Fault
  /\ srv' = [srv EXCEPT ![s] = "dead"]
  /\ UNCHANGED <<cli, seen, fresh, locked, retried, heeds, child, reused, file,
                 lock, stolen, loose>>

(* shutdown begins: /stop, idle for too long, a signal, an uncaught exception. *)
ServerStops(s) ==
  /\ srv[s] = "up"
  /\ Fault
  /\ srv' = [srv EXCEPT ![s] = "stopping"]
  /\ UNCHANGED <<cli, seen, fresh, locked, retried, heeds, child, reused, file,
                 lock, stolen, loose>>

(* The browser is closed; the state file goes, whichever server it names. *)
ServerExits(s) ==
  /\ srv[s] = "stopping"
  /\ srv' = [srv EXCEPT ![s] = "dead"]
  /\ file' = None
  /\ loose' = (loose \/ file \notin {None, s})
  /\ UNCHANGED <<cli, seen, fresh, locked, retried, heeds, child, reused, lock,
                 faults, stolen>>

CliStep(c) ==
  \/ ReadState(c) \/ ServerFound(c) \/ ServerLost(c)
  \/ TakeLock(c) \/ WritePid(c) \/ LockTaken(c) \/ InspectLock(c)
  \/ UnlinkStale(c) \/ WaitOver(c)
  \/ Reread(c) \/ FreshFound(c) \/ FreshLost(c)
  \/ Terminate(c) \/ Kill(c)
  \/ Spawn(c) \/ Started(c) \/ StartTimeout(c) \/ ErrorEnds(c)
  \/ Answered(c) \/ ConnectionLost(c)

Next ==
  \/ \E c \in Clis : CliStep(c) \/ ServerOutdated(c) \/ ErrorRead(c)
                     \/ Unauthorized(c) \/ CliDies(c)
  \/ \E s \in Servers :
       ServerUp(s) \/ ServerDies(s) \/ ServerStops(s) \/ ServerExits(s)

(* Programs run on, and a server that was spawned comes up or dies; but no child
   has to write to its stderr. *)
Spec ==
  /\ Init /\ [][Next]_vars
  /\ \A c \in Clis : WF_vars(CliStep(c))
  /\ \A s \in Servers : WF_vars(ServerUp(s)) /\ WF_vars(ServerExits(s))

-----------------------------------------------------------------------------
(***************************************************************************)
(* Properties.                                                             *)
(***************************************************************************)
(* "Acquire an exclusive lockfile to prevent concurrent ensureServer()
   races": two programs are at the server together only after a lock was
   removed whose maker was alive: its pid not yet written, or a stale lock
   replaced by a new one between the look and the removal. *)
OneStarter == Cardinality(locked) <= 1 \/ stolen

(* What the lock is for: two servers run together only after somebody went
   round it: a restart without the lock, a start that came too late, a
   starter that died, a slow server that was passed over, or a state file
   removed by a server that stopped. *)
OneServer ==
  Cardinality({s \in Servers : srv[s] \in {"starting", "up"}}) <= 1
    \/ stolen \/ loose

(* The finally block: a lock that is left behind is that of a program that
   was killed. *)
LockReleased ==
  lock.by \in Clis => lock.by \in locked \/ cli[lock.by] = "gone"

(* It waits for its child to say why it does not answer, or to die. *)
Listens(c) == cli[c] = "listening" /\ srv[child[c]] # "dead"

(* Nobody waits for ever, for a lock, for a server or for an answer; but a
   program whose server came up after MAX_START_WAIT waits, with the lock, for
   as long as that server runs and writes nothing to stderr. *)
CliEnds ==
  \A c \in Clis : cli[c] \notin Ended ~> (cli[c] \in Ended \/ Listens(c))

(* "Kill the old server to avoid orphaned chromium processes": when no program
   is at work, a server that is up is the one the state file names.  Does not
   hold. *)
NoOrphan ==
  (\A c \in Clis : cli[c] \in Ended) =>
    \A s \in Servers : srv[s] = "up" => file = s

=============================================================================
