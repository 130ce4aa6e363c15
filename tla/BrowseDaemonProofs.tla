------------------------- MODULE BrowseDaemonProofs -------------------------
(***************************************************************************)
(* What the lock of the browse daemon achieves, for any number of          *)
(* programs, servers and faults.                                           *)
(*                                                                         *)
(* The argument: while no lock was taken from a live program, the programs *)
(* that are to release the lock are the one that made the file             *)
(* (HolderMadeIt).  While nobody went round the lock either, a server that *)
(* starts is the only one, and its program has the lock (StarterAlone);    *)
(* and the program with the lock knows the only server that may be up      *)
(* (UpIsFresh, UpIsSeen) until it has killed it (NoneUp).                  *)
(*                                                                         *)
(* At the end: no program comes to a place it cannot leave, as those that  *)
(* are named have run and there are servers enough for every start; and    *)
(* none goes round for ever, as each round takes a lock file away.         *)
(***************************************************************************)
EXTENDS BrowseDaemon, FiniteSetTheorems, WellFoundedInduction, TLAPS

(* What a program does, or what happens to it. *)
Acts(c) ==
  CliStep(c) \/ ServerOutdated(c) \/ ErrorRead(c) \/ Unauthorized(c) \/ CliDies(c)

HoldersWork == \A c \in locked : cli[c] \in Holding \cup Restarting
HolderMadeIt == ~stolen => \A c \in locked : lock.by = c

Locking == HoldersWork /\ HolderMadeIt /\ LockReleased

UpInFile == \A s \in Servers : srv[s] = "up" => file = s
StarterAlone ==
  \A s \in Servers : srv[s] = "starting" =>
    /\ \E c \in locked : cli[c] \in {"polling", "listening"}
    /\ \A t \in Servers : srv[t] \in {"starting", "up"} => t = s
UpIsFresh ==
  \A c \in locked : cli[c] = "rechecking" =>
    \A s \in Servers : srv[s] = "up" => s = fresh[c]
UpIsSeen ==
  \A c \in locked : cli[c] \in {"term", "kill"} =>
    \A s \in Servers : srv[s] = "up" => s = seen[c]
NoneUp ==
  \A c \in locked : cli[c] = "spawning" => \A s \in Servers : srv[s] # "up"

Starting ==
  ~stolen /\ ~loose => UpInFile /\ StarterAlone /\ UpIsFresh /\ UpIsSeen /\ NoneUp

(* A server to be killed has been read from the file, one to be listened to has
   been spawned. *)
Known ==
  \A c \in Clis :
    /\ cli[c] \in {"kill", "sending"} => seen[c] # None
    /\ cli[c] \in {"polling", "listening"} => child[c] # None

Inv == TypeOK /\ Known /\ Locking /\ Starting

-----------------------------------------------------------------------------
(* Every variable keeps its type. *)
LEMMA TypeCli ==
  ASSUME TypeOK, NEW c \in Clis, Acts(c)
  PROVE  TypeOK'
<1>1. CASE ReadState(c)
  BY <1>1, DaemonAssumption DEF ReadState, Goto, TypeOK, Phase, Holding, Restarting, Ended
<1>2. CASE ServerFound(c)
  BY <1>2, DaemonAssumption DEF ServerFound, Goto, Healthy, TypeOK, Phase, Holding,
       Restarting, Ended
<1>3. CASE ServerLost(c)
  BY <1>3, DaemonAssumption DEF ServerLost, Goto, Unhealthy, Fault, TypeOK, Phase,
       Holding,
       Restarting, Ended
<1>4. CASE TakeLock(c)
  BY <1>4, DaemonAssumption DEF TakeLock, Goto, NoLock, TypeOK, Phase, Holding,
       Restarting,
       Ended
<1>5. CASE WritePid(c)
  BY <1>5, DaemonAssumption DEF WritePid, Goto, TypeOK, Phase, Holding, Restarting, Ended
<1>6. CASE LockTaken(c)
  BY <1>6, DaemonAssumption DEF LockTaken, Goto, NoLock, TypeOK, Phase, Holding,
       Restarting,
       Ended
<1>7. CASE InspectLock(c)
  BY <1>7, DaemonAssumption DEF InspectLock, Goto, TypeOK, Phase, Holding, Restarting,
       Ended
<1>8. CASE UnlinkStale(c)
  BY <1>8, DaemonAssumption DEF UnlinkStale, Goto, NoLock, Running, TypeOK, Phase,
       Holding,
       Restarting, Ended
<1>9. CASE WaitOver(c)
  BY <1>9, DaemonAssumption DEF WaitOver, Goto, Healthy, Deadline, Fault, TypeOK, Phase,
       Holding, Restarting, Ended
<1>10. CASE Reread(c)
  BY <1>10, DaemonAssumption DEF Reread, Goto, TypeOK, Phase, Holding, Restarting, Ended
<1>11. CASE FreshFound(c)
  BY <1>11, DaemonAssumption DEF FreshFound, Goto, Healthy, Release, NoLock, TypeOK,
       Phase,
       Holding, Restarting, Ended
<1>12. CASE FreshLost(c)
  BY <1>12, DaemonAssumption DEF FreshLost, Goto, Unhealthy, Fault, TypeOK, Phase,
       Holding,
       Restarting, Ended
<1>13. CASE Terminate(c)
  BY <1>13, DaemonAssumption DEF Terminate, Goto, TypeOK, Phase, Holding, Restarting,
       Ended
<1>14. CASE Kill(c)
  BY <1>14, DaemonAssumption DEF Kill, Goto, TypeOK, Phase, Holding, Restarting, Ended
<1>15. CASE Spawn(c)
  BY <1>15, DaemonAssumption DEF Spawn, Goto, TypeOK, Phase, Holding, Restarting, Ended
<1>16. CASE Started(c)
  BY <1>16, DaemonAssumption DEF Started, StartEnds, Goto, Healthy, Release, NoLock,
       TypeOK, Phase,
       Holding, Restarting, Ended
<1>17. CASE StartTimeout(c)
  BY <1>17, DaemonAssumption DEF StartTimeout, Goto, Deadline, Fault, TypeOK, Phase,
       Holding, Restarting, Ended
<1>18. CASE Answered(c)
  BY <1>18, DaemonAssumption DEF Answered, Goto, TypeOK, Phase, Holding, Restarting, Ended
<1>19. CASE ConnectionLost(c)
  BY <1>19, DaemonAssumption DEF ConnectionLost, Goto, TypeOK, Phase, Holding,
       Restarting, Ended
<1>20. CASE ServerOutdated(c)
  BY <1>20, DaemonAssumption DEF ServerOutdated, Goto, Fault, TypeOK, Phase, Holding,
       Restarting, Ended
<1>21. CASE CliDies(c)
  BY <1>21, DaemonAssumption DEF CliDies, Goto, Fault, TypeOK, Phase, Holding,
       Restarting, Ended
<1>22. CASE ErrorRead(c) \/ ErrorEnds(c)
  <2>1. StartFails(c)
    BY <1>22 DEF ErrorRead, ErrorEnds
  <2> QED
    BY <2>1, DaemonAssumption DEF StartFails, StartEnds, Goto, Release, NoLock, TypeOK,
         Phase,
       Holding, Restarting, Ended
<1>23. CASE Unauthorized(c)
  BY <1>23, DaemonAssumption DEF Unauthorized, Goto, Fault, TypeOK, Phase,
       Holding, Restarting, Ended
<1> QED
  BY <1>1, <1>2, <1>3, <1>4, <1>5, <1>6, <1>7, <1>8, <1>9, <1>10, <1>11, <1>12, <1>13,
     <1>14, <1>15, <1>16, <1>17, <1>18, <1>19, <1>20, <1>21, <1>22, <1>23 DEF Acts, CliStep

LEMMA TypeServer ==
  ASSUME TypeOK, NEW s \in Servers,
       ServerUp(s) \/ ServerDies(s) \/ ServerStops(s) \/ ServerExits(s)
  PROVE  TypeOK'
<1>1. CASE ServerUp(s)
  BY <1>1, DaemonAssumption DEF ServerUp, TypeOK, Servers
<1>2. CASE ServerDies(s)
  BY <1>2, DaemonAssumption DEF ServerDies, Fault, TypeOK, Servers
<1>3. CASE ServerStops(s)
  BY <1>3, DaemonAssumption DEF ServerStops, Fault, TypeOK, Servers
<1>4. CASE ServerExits(s)
  BY <1>4, DaemonAssumption DEF ServerExits, TypeOK, Servers
<1> QED
  BY <1>1, <1>2, <1>3, <1>4

-----------------------------------------------------------------------------
(* A server to be killed, or to be asked, has been read from the file. *)
LEMMA KnownCli ==
  ASSUME TypeOK, Known, NEW c \in Clis, Acts(c)
  PROVE  Known'
<1>1. CASE ReadState(c)
  BY <1>1, DaemonAssumption DEF ReadState, Goto, TypeOK, Known
<1>2. CASE ServerFound(c)
  BY <1>2, DaemonAssumption DEF ServerFound, Goto, Healthy, TypeOK, Known
<1>3. CASE ServerLost(c)
  BY <1>3, DaemonAssumption DEF ServerLost, Goto, Unhealthy, Fault, TypeOK, Known
<1>4. CASE TakeLock(c)
  BY <1>4, DaemonAssumption DEF TakeLock, Goto, NoLock, TypeOK, Known
<1>5. CASE WritePid(c)
  BY <1>5, DaemonAssumption DEF WritePid, Goto, TypeOK, Known
<1>6. CASE LockTaken(c)
  BY <1>6, DaemonAssumption DEF LockTaken, Goto, NoLock, TypeOK, Known
<1>7. CASE InspectLock(c)
  BY <1>7, DaemonAssumption DEF InspectLock, Goto, TypeOK, Known
<1>8. CASE UnlinkStale(c)
  BY <1>8, DaemonAssumption DEF UnlinkStale, Goto, NoLock, Running, TypeOK, Known
<1>9. CASE WaitOver(c)
  BY <1>9, DaemonAssumption DEF WaitOver, Goto, Healthy, Deadline, Fault, TypeOK, Known
<1>10. CASE Reread(c)
  BY <1>10, DaemonAssumption DEF Reread, Goto, TypeOK, Known
<1>11. CASE FreshFound(c)
  BY <1>11, DaemonAssumption DEF FreshFound, Goto, Healthy, Release, NoLock, TypeOK, Known
<1>12. CASE FreshLost(c)
  BY <1>12, DaemonAssumption DEF FreshLost, Goto, Unhealthy, Fault, TypeOK, Known
<1>13. CASE Terminate(c)
  BY <1>13, DaemonAssumption DEF Terminate, Goto, TypeOK, Known
<1>14. CASE Kill(c)
  BY <1>14, DaemonAssumption DEF Kill, Goto, TypeOK, Known
<1>15. CASE Spawn(c)
  BY <1>15, DaemonAssumption DEF Spawn, Goto, TypeOK, Known
<1>16. CASE Started(c)
  BY <1>16, DaemonAssumption DEF Started, StartEnds, Goto, Healthy, Release, NoLock,
       TypeOK, Known
<1>17. CASE StartTimeout(c)
  BY <1>17, DaemonAssumption DEF StartTimeout, Goto, Deadline, Fault, TypeOK, Known
<1>18. CASE Answered(c)
  BY <1>18, DaemonAssumption DEF Answered, Goto, TypeOK, Known
<1>19. CASE ConnectionLost(c)
  BY <1>19, DaemonAssumption DEF ConnectionLost, Goto, TypeOK, Known
<1>20. CASE ServerOutdated(c)
  BY <1>20, DaemonAssumption DEF ServerOutdated, Goto, Fault, TypeOK, Known
<1>21. CASE CliDies(c)
  BY <1>21, DaemonAssumption DEF CliDies, Goto, Fault, TypeOK, Known
<1>22. CASE ErrorRead(c) \/ ErrorEnds(c)
  <2>1. StartFails(c)
    BY <1>22 DEF ErrorRead, ErrorEnds
  <2> QED
    BY <2>1, DaemonAssumption DEF StartFails, StartEnds, Goto, Release, NoLock, TypeOK,
         Known
<1>23. CASE Unauthorized(c)
  BY <1>23, DaemonAssumption DEF Unauthorized, Goto, Fault, TypeOK, Known
<1> QED
  BY <1>1, <1>2, <1>3, <1>4, <1>5, <1>6, <1>7, <1>8, <1>9, <1>10, <1>11, <1>12, <1>13,
     <1>14, <1>15, <1>16, <1>17, <1>18, <1>19, <1>20, <1>21, <1>22, <1>23 DEF Acts, CliStep

-----------------------------------------------------------------------------
(* The lock file, and the programs that are to remove it. *)
LEMMA LockCli ==
  ASSUME TypeOK, Locking, NEW c \in Clis, Acts(c)
  PROVE  Locking'
<1>1. CASE ReadState(c)
  BY <1>1, DaemonAssumption DEF ReadState, Goto, TypeOK, Locking, HoldersWork,
       HolderMadeIt,
       LockReleased, Holding, Restarting, Ended, Running
<1>2. CASE ServerFound(c)
  BY <1>2, DaemonAssumption DEF ServerFound, Goto, Healthy, TypeOK, Locking, HoldersWork,
       HolderMadeIt, LockReleased, Holding, Restarting, Ended, Running
<1>3. CASE ServerLost(c)
  BY <1>3, DaemonAssumption DEF ServerLost, Goto, Unhealthy, Fault, TypeOK, Locking,
       HoldersWork, HolderMadeIt, LockReleased, Holding, Restarting, Ended, Running
<1>4. CASE TakeLock(c)
  BY <1>4, DaemonAssumption DEF TakeLock, Goto, NoLock, TypeOK, Locking, HoldersWork,
       HolderMadeIt, LockReleased, Holding, Restarting, Ended, Running
<1>5. CASE WritePid(c)
  BY <1>5, DaemonAssumption DEF WritePid, Goto, TypeOK, Locking, HoldersWork,
       HolderMadeIt,
       LockReleased, Holding, Restarting, Ended, Running
<1>6. CASE LockTaken(c)
  BY <1>6, DaemonAssumption DEF LockTaken, Goto, NoLock, TypeOK, Locking, HoldersWork,
       HolderMadeIt, LockReleased, Holding, Restarting, Ended, Running
<1>7. CASE InspectLock(c)
  BY <1>7, DaemonAssumption DEF InspectLock, Goto, TypeOK, Locking, HoldersWork,
       HolderMadeIt, LockReleased, Holding, Restarting, Ended, Running
<1>8. CASE UnlinkStale(c)
  BY <1>8, DaemonAssumption DEF UnlinkStale, Goto, NoLock, Running, TypeOK, Locking,
       HoldersWork, HolderMadeIt, LockReleased, Holding, Restarting, Ended, Running
<1>9. CASE WaitOver(c)
  BY <1>9, DaemonAssumption DEF WaitOver, Goto, Healthy, Deadline, Fault, TypeOK, Locking,
       HoldersWork, HolderMadeIt, LockReleased, Holding, Restarting, Ended, Running
<1>10. CASE Reread(c)
  BY <1>10, DaemonAssumption DEF Reread, Goto, TypeOK, Locking, HoldersWork, HolderMadeIt,
       LockReleased, Holding, Restarting, Ended, Running
<1>11. CASE FreshFound(c)
  BY <1>11, DaemonAssumption DEF FreshFound, Goto, Healthy, Release, NoLock, TypeOK,
       Locking,
       HoldersWork, HolderMadeIt, LockReleased, Holding, Restarting, Ended, Running
<1>12. CASE FreshLost(c)
  BY <1>12, DaemonAssumption DEF FreshLost, Goto, Unhealthy, Fault, TypeOK, Locking,
       HoldersWork, HolderMadeIt, LockReleased, Holding, Restarting, Ended, Running
<1>13. CASE Terminate(c)
  BY <1>13, DaemonAssumption DEF Terminate, Goto, TypeOK, Locking, HoldersWork,
       HolderMadeIt,
       LockReleased, Holding, Restarting, Ended, Running
<1>14. CASE Kill(c)
  BY <1>14, DaemonAssumption DEF Kill, Goto, TypeOK, Locking, HoldersWork, HolderMadeIt,
       LockReleased, Holding, Restarting, Ended, Running
<1>15. CASE Spawn(c)
  BY <1>15, DaemonAssumption DEF Spawn, Goto, TypeOK, Locking, HoldersWork, HolderMadeIt,
       LockReleased, Holding, Restarting, Ended, Running
<1>16. CASE Started(c)
  BY <1>16, DaemonAssumption DEF Started, StartEnds, Goto, Healthy, Release, NoLock,
       TypeOK, Locking,
       HoldersWork, HolderMadeIt, LockReleased, Holding, Restarting, Ended, Running
<1>17. CASE StartTimeout(c)
  BY <1>17, DaemonAssumption DEF StartTimeout, Goto, Deadline, Fault, TypeOK, Locking,
       HoldersWork,
       HolderMadeIt, LockReleased, Holding, Restarting, Ended, Running
<1>18. CASE Answered(c)
  BY <1>18, DaemonAssumption DEF Answered, Goto, TypeOK, Locking, HoldersWork,
       HolderMadeIt,
       LockReleased, Holding, Restarting, Ended, Running
<1>19. CASE ConnectionLost(c)
  BY <1>19, DaemonAssumption DEF ConnectionLost, Goto, TypeOK, Locking, HoldersWork,
       HolderMadeIt, LockReleased, Holding, Restarting, Ended, Running
<1>20. CASE ServerOutdated(c)
  BY <1>20, DaemonAssumption DEF ServerOutdated, Goto, Fault, TypeOK, Locking,
       HoldersWork,
       HolderMadeIt, LockReleased, Holding, Restarting, Ended, Running
<1>21. CASE CliDies(c)
  BY <1>21, DaemonAssumption DEF CliDies, Goto, Fault, TypeOK, Locking, HoldersWork,
       HolderMadeIt, LockReleased, Holding, Restarting, Ended, Running
<1>22. CASE ErrorRead(c) \/ ErrorEnds(c)
  <2>1. StartFails(c)
    BY <1>22 DEF ErrorRead, ErrorEnds
  <2> QED
    BY <2>1, DaemonAssumption DEF StartFails, StartEnds, Goto, Release, NoLock, TypeOK,
         Locking, HoldersWork,
       HolderMadeIt, LockReleased, Holding, Restarting, Ended, Running
<1>23. CASE Unauthorized(c)
  BY <1>23, DaemonAssumption DEF Unauthorized, Goto, Fault, TypeOK, Locking, HoldersWork,
       HolderMadeIt, LockReleased, Holding, Restarting, Ended, Running
<1> QED
  BY <1>1, <1>2, <1>3, <1>4, <1>5, <1>6, <1>7, <1>8, <1>9, <1>10, <1>11, <1>12, <1>13,
     <1>14, <1>15, <1>16, <1>17, <1>18, <1>19, <1>20, <1>21, <1>22, <1>23 DEF Acts, CliStep

-----------------------------------------------------------------------------
(* The servers, as long as nobody goes round the lock. *)
LEMMA StartCli ==
  ASSUME Inv, NEW c \in Clis, Acts(c)
  PROVE  Starting'
<1>1. CASE ReadState(c)
  BY <1>1, DaemonAssumption DEF ReadState, Goto, TypeOK, Inv, Locking, HoldersWork,
       HolderMadeIt, Starting, UpInFile, StarterAlone, UpIsFresh, UpIsSeen, NoneUp,
       Holding,
       Restarting
<1>2. CASE ServerFound(c)
  BY <1>2, DaemonAssumption DEF ServerFound, Goto, Healthy, TypeOK, Inv, Locking,
       HoldersWork, HolderMadeIt, Starting, UpInFile, StarterAlone, UpIsFresh, UpIsSeen,
       NoneUp, Holding, Restarting
<1>3. CASE ServerLost(c)
  BY <1>3, DaemonAssumption DEF ServerLost, Goto, Unhealthy, Fault, TypeOK, Inv, Locking,
       HoldersWork, HolderMadeIt, Starting, UpInFile, StarterAlone, UpIsFresh, UpIsSeen,
       NoneUp, Holding, Restarting
<1>4. CASE TakeLock(c)
  BY <1>4, DaemonAssumption DEF TakeLock, Goto, NoLock, TypeOK, Inv, Locking, HoldersWork,
       HolderMadeIt, Starting, UpInFile, StarterAlone, UpIsFresh, UpIsSeen, NoneUp,
       Holding,
       Restarting
<1>5. CASE WritePid(c)
  BY <1>5, DaemonAssumption DEF WritePid, Goto, TypeOK, Inv, Locking, HoldersWork,
       HolderMadeIt, Starting, UpInFile, StarterAlone, UpIsFresh, UpIsSeen, NoneUp,
       Holding,
       Restarting
<1>6. CASE LockTaken(c)
  BY <1>6, DaemonAssumption DEF LockTaken, Goto, NoLock, TypeOK, Inv, Locking,
       HoldersWork,
       HolderMadeIt, Starting, UpInFile, StarterAlone, UpIsFresh, UpIsSeen, NoneUp,
       Holding,
       Restarting
<1>7. CASE InspectLock(c)
  BY <1>7, DaemonAssumption DEF InspectLock, Goto, TypeOK, Inv, Locking, HoldersWork,
       HolderMadeIt, Starting, UpInFile, StarterAlone, UpIsFresh, UpIsSeen, NoneUp,
       Holding,
       Restarting
<1>8. CASE UnlinkStale(c)
  BY <1>8, DaemonAssumption DEF UnlinkStale, Goto, NoLock, Running, TypeOK, Inv, Locking,
       HoldersWork, HolderMadeIt, Starting, UpInFile, StarterAlone, UpIsFresh, UpIsSeen,
       NoneUp, Holding, Restarting
<1>9. CASE WaitOver(c)
  BY <1>9, DaemonAssumption DEF WaitOver, Goto, Healthy, Deadline, Fault, TypeOK, Inv,
       Locking, HoldersWork, HolderMadeIt, Starting, UpInFile, StarterAlone, UpIsFresh,
       UpIsSeen, NoneUp, Holding, Restarting
<1>10. CASE Reread(c)
  BY <1>10, DaemonAssumption DEF Reread, Goto, TypeOK, Inv, Locking, HoldersWork,
       HolderMadeIt, Starting, UpInFile, StarterAlone, UpIsFresh, UpIsSeen, NoneUp,
       Holding,
       Restarting
<1>11. CASE FreshFound(c)
  BY <1>11, DaemonAssumption DEF FreshFound, Goto, Healthy, Release, NoLock, TypeOK, Inv,
       Locking, HoldersWork, HolderMadeIt, Starting, UpInFile, StarterAlone, UpIsFresh,
       UpIsSeen, NoneUp, Holding, Restarting
<1>12. CASE FreshLost(c)
  <2> SUFFICES ASSUME ~stolen, ~loose, ~loose'
               PROVE  Starting'
    BY <1>12 DEF FreshLost, Starting
  <2>1. /\ c \in locked => locked = {c}
        /\ cli[c] = "rechecking" /\ cli'[c] = "term"
        /\ \A d \in Clis \ {c} : cli'[d] = cli[d]
        /\ \A d \in Clis \ {c} : fresh'[d] = fresh[d]
        /\ UNCHANGED <<srv, file, locked, seen, stolen>>
    BY <1>12 DEF FreshLost, Goto, Inv, TypeOK, Locking, HolderMadeIt
  <2>2. fresh[c] \in {None, seen[c]} \/ ~Alive(fresh[c])
    BY <1>12 DEF FreshLost
  <2>3. c \in locked => \A s \in Servers : srv[s] = "up" => s = seen[c]
    <3> SUFFICES ASSUME c \in locked, NEW s \in Servers, srv[s] = "up"
                 PROVE  s = seen[c]
      OBVIOUS
    <3>1. s = fresh[c]
      BY <2>1 DEF Inv, Starting, UpIsFresh
    <3> QED
      BY <3>1, <2>2, DaemonAssumption DEF Alive
  <2>4. locked \subseteq Clis
    BY DEF Inv, TypeOK
  <2>5. UpInFile' /\ StarterAlone'
    BY <2>1, <2>4 DEF Inv, Starting, UpInFile, StarterAlone
  <2>6. UpIsFresh' /\ NoneUp'
    BY <2>1, <2>4 DEF Inv, Starting, UpIsFresh, NoneUp
  <2>7. UpIsSeen'
    BY <2>1, <2>3, <2>4 DEF Inv, Starting, UpIsSeen
  <2> QED
    BY <2>5, <2>6, <2>7 DEF Starting
<1>13. CASE Terminate(c)
  BY <1>13, DaemonAssumption DEF Terminate, Goto, Alive, TypeOK, Inv, Locking,
       HoldersWork,
       HolderMadeIt, Starting, UpInFile, StarterAlone, UpIsFresh, UpIsSeen, NoneUp,
       Holding,
       Restarting
<1>14. CASE Kill(c)
  BY <1>14, DaemonAssumption DEF Kill, Goto, TypeOK, Inv, Locking, HoldersWork,
       HolderMadeIt,
       Starting, UpInFile, StarterAlone, UpIsFresh, UpIsSeen, NoneUp, Holding, Restarting
<1>15. CASE Spawn(c)
  <2> SUFFICES ASSUME ~stolen, ~loose, c \in locked
               PROVE  Starting'
    BY <1>15 DEF Spawn, Starting
  <2>1. locked = {c}
    BY DEF Inv, Locking, HolderMadeIt
  <2>2. \A t \in Servers : srv[t] \notin {"starting", "up"}
    BY <2>1, <1>15 DEF Spawn, Inv, Starting, StarterAlone, NoneUp
  <2>3. PICK s \in Servers : srv' = [srv EXCEPT ![s] = "starting"]
    BY <1>15 DEF Spawn
  <2>4. /\ srv'[s] = "starting" /\ \A t \in Servers \ {s} : srv'[t] = srv[t]
        /\ cli'[c] = "polling" /\ locked' = locked
    BY <2>3, <1>15 DEF Spawn, Goto, Inv, TypeOK
  <2> QED
    BY <2>1, <2>2, <2>4 DEF Starting, UpInFile, StarterAlone, UpIsFresh, UpIsSeen, NoneUp
<1>16. CASE Started(c)
  BY <1>16, DaemonAssumption DEF Started, StartEnds, Goto, Healthy, Release, NoLock,
       TypeOK, Inv,
       Locking, HoldersWork, HolderMadeIt, Starting, UpInFile, StarterAlone, UpIsFresh,
       UpIsSeen, NoneUp, Holding, Restarting
<1>17. CASE StartTimeout(c)
  BY <1>17, DaemonAssumption DEF StartTimeout, Goto, Deadline, Fault, TypeOK, Inv,
       Locking, HoldersWork,
       HolderMadeIt, Starting, UpInFile, StarterAlone, UpIsFresh, UpIsSeen, NoneUp,
       Holding, Restarting
<1>18. CASE Answered(c)
  BY <1>18, DaemonAssumption DEF Answered, Goto, TypeOK, Inv, Locking, HoldersWork,
       HolderMadeIt, Starting, UpInFile, StarterAlone, UpIsFresh, UpIsSeen, NoneUp,
       Holding,
       Restarting
<1>19. CASE ConnectionLost(c)
  BY <1>19, DaemonAssumption DEF ConnectionLost, Goto, TypeOK, Inv, Locking, HoldersWork,
       HolderMadeIt, Starting, UpInFile, StarterAlone, UpIsFresh, UpIsSeen, NoneUp,
       Holding,
       Restarting
<1>20. CASE ServerOutdated(c)
  BY <1>20, DaemonAssumption DEF ServerOutdated, Goto, Fault, TypeOK, Inv, Locking,
       HoldersWork, HolderMadeIt, Starting, UpInFile, StarterAlone, UpIsFresh, UpIsSeen,
       NoneUp, Holding, Restarting
<1>21. CASE CliDies(c)
  <2> SUFFICES ASSUME ~stolen, ~loose, ~loose'
               PROVE  Starting'
    BY <1>21 DEF CliDies, Starting
  <2>1. /\ cli[c] \notin {"polling", "listening"}
        /\ locked' = locked \ {c} /\ UNCHANGED <<srv, file, seen, fresh>>
        /\ \A d \in Clis \ {c} : cli'[d] = cli[d]
    BY <1>21 DEF CliDies, Goto, Inv, TypeOK
  <2>2. locked \subseteq Clis
    BY DEF Inv, TypeOK
  <2> QED
    BY <2>1, <2>2 DEF Inv, Starting, UpInFile, StarterAlone, UpIsFresh, UpIsSeen, NoneUp
<1>22. CASE ErrorRead(c) \/ ErrorEnds(c)
  <2> SUFFICES ASSUME ~stolen, ~loose, ~loose'
               PROVE  Starting'
    BY <1>22 DEF ErrorRead, ErrorEnds, StartFails, Starting
  <2>1. /\ \A s \in Servers : srv[s] # "starting"
        /\ locked' = locked \ {c} /\ UNCHANGED <<srv, file, seen, fresh>>
        /\ \A d \in Clis \ {c} : cli'[d] = cli[d]
    BY <1>22 DEF ErrorRead, ErrorEnds, StartFails, StartEnds, Release, Goto, Inv, TypeOK
  <2>2. locked \subseteq Clis
    BY DEF Inv, TypeOK
  <2> QED
    BY <2>1, <2>2 DEF Inv, Starting, UpInFile, StarterAlone, UpIsFresh, UpIsSeen, NoneUp
<1>23. CASE Unauthorized(c)
  BY <1>23, DaemonAssumption DEF Unauthorized, Goto, Fault, TypeOK, Inv, Locking,
       HoldersWork,
       HolderMadeIt, Starting, UpInFile, StarterAlone, UpIsFresh, UpIsSeen, NoneUp,
       Holding, Restarting
<1> QED
  BY <1>1, <1>2, <1>3, <1>4, <1>5, <1>6, <1>7, <1>8, <1>9, <1>10, <1>11, <1>12, <1>13,
     <1>14, <1>15, <1>16, <1>17, <1>18, <1>19, <1>20, <1>21, <1>22, <1>23 DEF Acts, CliStep

LEMMA StartServer ==
  ASSUME Inv, NEW s \in Servers,
         ServerUp(s) \/ ServerDies(s) \/ ServerStops(s) \/ ServerExits(s)
  PROVE  Starting'
<1>1. CASE ServerUp(s)
  BY <1>1, DaemonAssumption DEF ServerUp, TypeOK, Inv, Locking, HoldersWork, HolderMadeIt,
       Starting, UpInFile, StarterAlone, UpIsFresh, UpIsSeen, NoneUp, Holding, Restarting
<1>2. CASE ServerDies(s)
  BY <1>2, DaemonAssumption DEF ServerDies, Fault, TypeOK, Inv, Locking, HoldersWork,
       HolderMadeIt, Starting, UpInFile, StarterAlone, UpIsFresh, UpIsSeen, NoneUp,
       Holding,
       Restarting
<1>3. CASE ServerStops(s)
  BY <1>3, DaemonAssumption DEF ServerStops, Fault, TypeOK, Inv, Locking, HoldersWork,
       HolderMadeIt, Starting, UpInFile, StarterAlone, UpIsFresh, UpIsSeen, NoneUp,
       Holding,
       Restarting
<1>4. CASE ServerExits(s)
  <2> SUFFICES ASSUME ~stolen, ~loose, file \in {None, s}
               PROVE  Starting'
    BY <1>4 DEF ServerExits, Starting
  <2>1. /\ srv[s] = "stopping" /\ srv' = [srv EXCEPT ![s] = "dead"]
        /\ UNCHANGED <<cli, locked, seen, fresh>>
    BY <1>4 DEF ServerExits
  <2>2. srv'[s] = "dead" /\ \A t \in Servers \ {s} : srv'[t] = srv[t]
    BY <2>1 DEF Inv, TypeOK
  <2>3. \A t \in Servers : srv[t] # "up"
    BY <2>1, DaemonAssumption DEF Inv, Starting, UpInFile
  <2> QED
    BY <2>1, <2>2, <2>3 DEF Inv, Starting, UpInFile, StarterAlone, UpIsFresh, UpIsSeen,
         NoneUp
<1> QED
  BY <1>1, <1>2, <1>3, <1>4

-----------------------------------------------------------------------------
LEMMA InitInv == Init => Inv
<1> SUFFICES ASSUME Init PROVE Inv
  OBVIOUS
<1>1. TypeOK
  <2>1. 0 \in 0..MaxFaults /\ 0 \in 0..MaxReused /\ 1 \in Servers
    BY DaemonAssumption DEF Servers
  <2>2. srv \in [Servers -> {"unused", "starting", "up", "stopping", "dead"}]
    BY DEF Init
  <2>3. lock \in [by : Clis \cup {Past, None}, pid : Clis \cup {Past, None}]
    BY DEF Init, NoLock
  <2> QED
    BY <2>1, <2>2, <2>3 DEF Init, TypeOK, Phase
<1>2. Known /\ Locking
  BY DaemonAssumption DEF Init, Known, Locking, HoldersWork, HolderMadeIt, LockReleased,
       NoLock
<1>3. Starting
  BY DEF Init, Starting, UpInFile, StarterAlone, UpIsFresh, UpIsSeen, NoneUp
<1> QED
  BY <1>1, <1>2, <1>3 DEF Inv

LEMMA NextInv ==
  ASSUME Inv, [Next]_vars
  PROVE  Inv'
<1>1. ASSUME NEW c \in Clis, Acts(c)
      PROVE  Inv'
  BY <1>1, TypeCli, KnownCli, LockCli, StartCli DEF Inv
<1>2. ASSUME NEW s \in Servers,
             ServerUp(s) \/ ServerDies(s) \/ ServerStops(s) \/ ServerExits(s)
      PROVE  Inv'
  <2>1. UNCHANGED <<cli, seen, child, locked, lock, stolen>>
    BY <1>2 DEF ServerUp, ServerDies, ServerStops, ServerExits
  <2>2. Known' /\ Locking'
    BY <2>1 DEF Inv, Known, Locking, HoldersWork, HolderMadeIt, LockReleased
  <2> QED
    BY <1>2, <2>2, TypeServer, StartServer DEF Inv
<1>3. CASE UNCHANGED vars
  <2>1. TypeOK'
    BY <1>3 DEF vars, Inv, TypeOK
  <2>2. Known' /\ Locking'
    BY <1>3 DEF vars, Inv, Known, Locking, HoldersWork, HolderMadeIt, LockReleased
  <2>3. Starting'
    BY <1>3 DEF vars, Inv, Starting, UpInFile, StarterAlone, UpIsFresh, UpIsSeen, NoneUp
  <2> QED
    BY <2>1, <2>2, <2>3 DEF Inv
<1> QED
  BY <1>1, <1>2, <1>3 DEF Next, Acts

(* The inductive invariant: who has the lock, and what it knows of the servers. *)
THEOREM Invariance == Spec => []Inv
<1>1. Init => Inv
  BY InitInv
<1>2. Inv /\ [Next]_vars => Inv'
  BY NextInv
<1> QED
  BY <1>1, <1>2, PTL DEF Spec

(* Every variable keeps its type. *)
THEOREM TypeCorrect == Spec => []TypeOK
<1>1. Inv => TypeOK
  BY DEF Inv
<1> QED
  BY <1>1, Invariance, PTL

(* The finally block of ensureServer: a lock that is left behind is that of a program that
   was killed. *)
THEOREM LockIsReleased == Spec => []LockReleased
<1>1. Inv => LockReleased
  BY DEF Inv, Locking
<1> QED
  BY <1>1, Invariance, PTL

LEMMA AtMostOne ==
  ASSUME NEW S, NEW x, S \subseteq {x}
  PROVE  Cardinality(S) <= 1
<1>1. IsFiniteSet({x}) /\ Cardinality({x}) = 1
  BY FS_Singleton
<1> QED
  BY <1>1, FS_Subset

(* acquireServerLock lets one program in, unless a lock is removed whose maker is alive. *)
THEOREM StartersExclude == Spec => []OneStarter
<1>1. Inv => OneStarter
  <2> SUFFICES ASSUME Inv, ~stolen PROVE Cardinality(locked) <= 1
    BY DEF OneStarter
  <2>1. locked \subseteq {lock.by}
    BY DEF Inv, Locking, HolderMadeIt
  <2> QED
    BY <2>1, AtMostOne
<1> QED
  BY <1>1, Invariance, PTL

(* What the lock is for: two servers run only after somebody went round it. *)
THEOREM ServersExclude == Spec => []OneServer
<1>1. Inv => OneServer
  <2> SUFFICES ASSUME Inv, ~stolen, ~loose
               PROVE  Cardinality({s \in Servers : srv[s] \in {"starting", "up"}}) <= 1
    BY DEF OneServer
  <2> DEFINE S == {s \in Servers : srv[s] \in {"starting", "up"}}
  <2>1. \A s, t \in S : s = t
    BY DEF Inv, Starting, UpInFile, StarterAlone
  <2>2. S \subseteq {CHOOSE s \in S : TRUE}
    BY <2>1
  <2> QED
    BY <2>2, AtMostOne
<1> QED
  BY <1>1, Invariance, PTL

-----------------------------------------------------------------------------
(***************************************************************************)
(* Nobody is stuck: a program that is to kill, to spawn or to hear from a  *)
(* server finds it in a state in which it can; only a child need not be    *)
(* heard.  The argument: what a program has read from the state file has   *)
(* been up, so it will be heard from or is found dead.  And two servers    *)
(* for each program and one for each port used again are enough, one more  *)
(* being there from before: a program starts a server once, and once more  *)
(* after a lost connection, however many are killed; and once more for     *)
(* each 401 after which it tries again from the start.  Left is the set of *)
(* the starts that are still to come, but for those of a later 401.        *)
(***************************************************************************)
HaveRun == {s \in Servers : srv[s] \in {"up", "stopping", "dead"}}
Unused == {s \in Servers : srv[s] = "unused"}

Begun == {"polling", "listening", "sending"}
Again == {"term", "kill", "spawning"}

Left == {x \in Clis \X {1, 2} :
           LET c == x[1] IN
           IF c \in retried THEN x[2] = 2 /\ cli[c] \in Again
           ELSE cli[c] \notin Ended /\ (x[2] = 1 => cli[c] \notin Begun)}

NamedHaveRun ==
  /\ file \in HaveRun \cup {None}
  /\ \A c \in Clis : seen[c] \in HaveRun \cup {None} /\ fresh[c] \in HaveRun \cup {None}
  /\ \A c \in Clis : child[c] \notin Unused

RetriedRestart == \A c \in retried : cli[c] \in Again \cup Begun \cup Ended

UnusedLast == \A s \in Unused : \A t \in Servers : t >= s => t \in Unused

(* The bound on the servers, as its comment states it. *)
Enough == IsFiniteSet(Clis) /\ MaxServer > 2 * Cardinality(Clis) + MaxReused

EnoughLeft ==
  Enough => Cardinality(Left) + (MaxReused - reused) <= Cardinality(Unused)

Servable == NamedHaveRun /\ RetriedRestart /\ UnusedLast /\ EnoughLeft

(* The steps that look at a server find one they can go on with: the step of
   every other place of a program is possible whatever the files hold. *)
NobodyIsStuck ==
  \A c \in Clis :
    /\ cli[c] \in {"kill", "sending"} => seen[c] \in HaveRun
    /\ cli[c] = "listening" => child[c] \in Servers \ Unused
    /\ cli[c] = "spawning" /\ Enough =>
         \E s \in Servers : \A t \in Servers : srv[t] = "unused" <=> t >= s

(* A step of a program that starts no server and gives no start back. *)
Moved(c) ==
  /\ Unused' = Unused /\ HaveRun \subseteq HaveRun'
  /\ file' = file /\ reused' = reused
  /\ \A d \in Clis : d # c => /\ cli'[d] = cli[d] /\ seen'[d] = seen[d]
                             /\ fresh'[d] = fresh[d] /\ child'[d] = child[d]
  /\ seen'[c] \in {seen[c], fresh[c], file} /\ fresh'[c] \in {fresh[c], file, None}
  /\ child'[c] \in {child[c], None}
  /\ cli[c] \notin Ended
  /\ cli[c] \in Again \cup Begun => cli'[c] \in Again \cup Begun \cup Ended
  /\ \/ retried' = retried /\ (cli[c] \in Begun => cli'[c] \in Begun \cup Ended)
     \/ /\ c \notin retried /\ retried' = retried \cup {c}
        /\ cli[c] = "sending" /\ cli'[c] = "term"

LEMMA CliMoves ==
  ASSUME TypeOK, Known, NamedHaveRun, NEW c \in Clis, Acts(c), ~Spawn(c), ~Unauthorized(c)
  PROVE  Moved(c)
<1> USE DEF TypeOK, Moved, Unused, HaveRun, Again, Begun, Ended
<1>1. CASE ReadState(c)
  BY <1>1 DEF ReadState, Goto
<1>2. CASE ServerFound(c)
  BY <1>2 DEF ServerFound, Goto, Healthy
<1>3. CASE ServerLost(c)
  BY <1>3 DEF ServerLost, Goto, Unhealthy
<1>4. CASE TakeLock(c)
  BY <1>4 DEF TakeLock, Goto
<1>5. CASE WritePid(c)
  BY <1>5 DEF WritePid, Goto
<1>6. CASE LockTaken(c)
  BY <1>6 DEF LockTaken, Goto
<1>7. CASE InspectLock(c)
  BY <1>7 DEF InspectLock, Goto
<1>8. CASE UnlinkStale(c)
  BY <1>8 DEF UnlinkStale, Goto
<1>9. CASE WaitOver(c)
  BY <1>9 DEF WaitOver, Goto, Healthy
<1>10. CASE Reread(c)
  BY <1>10 DEF Reread, Goto
<1>11. CASE FreshFound(c)
  BY <1>11 DEF FreshFound, Goto, Healthy, Release
<1>12. CASE FreshLost(c)
  BY <1>12 DEF FreshLost, Goto
<1>13. CASE Started(c)
  BY <1>13 DEF Started, StartEnds, Goto, Healthy, Release
<1>14. CASE StartTimeout(c)
  BY <1>14 DEF StartTimeout, Goto
<1>15. CASE Answered(c)
  BY <1>15 DEF Answered, Goto
<1>16. CASE ConnectionLost(c)
  BY <1>16 DEF ConnectionLost, Goto
<1>17. CASE ServerOutdated(c)
  BY <1>17 DEF ServerOutdated, Goto
<1>18. CASE CliDies(c)
  BY <1>18 DEF CliDies, Goto
<1>19. CASE Terminate(c)
  <2>1. CASE seen[c] # None /\ Alive(seen[c]) /\ seen[c] \in heeds
    <3>1. seen[c] \in HaveRun /\ srv' = [srv EXCEPT ![seen[c]] = "stopping"]
      BY <1>19, <2>1 DEF Terminate, NamedHaveRun
    <3>2. Unused' = Unused /\ HaveRun \subseteq HaveRun'
      BY <3>1
    <3> QED
      BY <1>19, <3>2 DEF Terminate, Goto
  <2>2. CASE ~(seen[c] # None /\ Alive(seen[c]) /\ seen[c] \in heeds)
    BY <1>19, <2>2 DEF Terminate, Goto
  <2> QED
    BY <2>1, <2>2
<1>20. CASE Kill(c)
  <2>1. seen[c] \in HaveRun /\ srv' = [srv EXCEPT ![seen[c]] = "dead"]
    BY <1>20 DEF Kill, Known, NamedHaveRun
  <2>2. Unused' = Unused /\ HaveRun \subseteq HaveRun'
    BY <2>1
  <2> QED
    BY <1>20, <2>2 DEF Kill, Goto
<1>21. CASE ErrorRead(c) \/ ErrorEnds(c)
  BY <1>21 DEF ErrorRead, ErrorEnds, StartFails, StartEnds, Goto, Release
<1> QED
  BY <1>1, <1>2, <1>3, <1>4, <1>5, <1>6, <1>7, <1>8, <1>9, <1>10, <1>11, <1>12, <1>13,
     <1>14, <1>15, <1>16, <1>17, <1>18, <1>19, <1>20, <1>21 DEF Acts, CliStep

LEMMA Two == IsFiniteSet({1, 2}) /\ Cardinality({1, 2}) = 2
<1>1. IsFiniteSet({1}) /\ Cardinality({1}) = 1
  BY FS_Singleton
<1>2. {1, 2} = {1} \cup {2} /\ 2 \notin {1}
  OBVIOUS
<1> QED
  BY <1>1, <1>2, FS_AddElement

LEMMA StartsCounted ==
  ASSUME Enough
  PROVE  /\ IsFiniteSet(Left) /\ Cardinality(Left) \in Nat
         /\ IsFiniteSet(Unused) /\ Cardinality(Unused) \in Nat
         /\ Cardinality(Left) <= 2 * Cardinality(Clis)
<1>1. /\ IsFiniteSet(Clis \X {1, 2})
      /\ Cardinality(Clis \X {1, 2}) = Cardinality(Clis) * 2
  BY Two, FS_Product DEF Enough
<1>2. Left \in SUBSET (Clis \X {1, 2})
  BY DEF Left
<1>3. IsFiniteSet(Left) /\ Cardinality(Left) <= Cardinality(Clis \X {1, 2})
  BY <1>1, <1>2, FS_Subset
<1>4. IsFiniteSet(Servers) /\ Unused \in SUBSET Servers
  BY FS_Interval, DaemonAssumption DEF Servers, Unused
<1>5. IsFiniteSet(Unused)
  BY <1>4, FS_Subset
<1>6. Cardinality(Clis) \in Nat /\ Cardinality(Clis) * 2 = 2 * Cardinality(Clis)
  <2>1. Cardinality(Clis) \in Nat
    BY FS_CardinalityType DEF Enough
  <2> QED
    BY <2>1
<1> QED
  BY <1>1, <1>3, <1>5, <1>6, FS_CardinalityType

(* Fewer starts to come, as many servers left. *)
LEMMA EnoughStays ==
  ASSUME TypeOK, EnoughLeft, Left' \subseteq Left, Unused' = Unused, reused' = reused
  PROVE  EnoughLeft'
<1> SUFFICES ASSUME Enough
             PROVE  Cardinality(Left') + (MaxReused - reused) <= Cardinality(Unused)
  BY DEF EnoughLeft, Enough
<1>1. IsFiniteSet(Left) /\ Cardinality(Left) \in Nat /\ Cardinality(Unused) \in Nat
  BY StartsCounted
<1>2. IsFiniteSet(Left') /\ Cardinality(Left') <= Cardinality(Left)
  BY <1>1, FS_Subset
<1>3. Cardinality(Left') \in Nat
  BY <1>2, FS_CardinalityType
<1>4. MaxReused - reused \in Nat
  BY DaemonAssumption DEF TypeOK
<1>5. Cardinality(Left) + (MaxReused - reused) <= Cardinality(Unused)
  BY DEF EnoughLeft
<1> QED
  BY <1>1, <1>2, <1>3, <1>4, <1>5

LEMMA MovedKeeps ==
  ASSUME TypeOK, Servable, NEW c \in Clis, Moved(c)
  PROVE  Servable'
<1>1. NamedHaveRun'
  <2> SUFFICES ASSUME NEW d \in Clis
               PROVE  /\ seen'[d] \in HaveRun' \cup {None}
                      /\ fresh'[d] \in HaveRun' \cup {None}
                      /\ child'[d] \notin Unused'
    BY DEF Moved, Servable, NamedHaveRun
  <2>n. None \notin Unused
    BY DaemonAssumption DEF Unused
  <2>1. CASE d = c
    BY <2>1, <2>n DEF Moved, Servable, NamedHaveRun
  <2>2. CASE d # c
    BY <2>2 DEF Moved, Servable, NamedHaveRun
  <2> QED
    BY <2>1, <2>2
<1>2. RetriedRestart'
  <2> SUFFICES ASSUME NEW d \in retried' PROVE cli'[d] \in Again \cup Begun \cup Ended
    BY DEF RetriedRestart
  <2>1. d \in Clis /\ (d \in retried \/ d = c)
    BY DEF Moved, TypeOK
  <2>2. CASE d # c
    BY <2>1, <2>2 DEF Moved, Servable, RetriedRestart
  <2>3. CASE d = c /\ d \in retried
    BY <2>3 DEF Moved, Servable, RetriedRestart
  <2>4. CASE d = c /\ d \notin retried
    BY <2>4 DEF Moved, Again
  <2> QED
    BY <2>1, <2>2, <2>3, <2>4
<1>3. UnusedLast'
  BY DEF Moved, Servable, UnusedLast
<1>4. Left' \subseteq Left
  <2> SUFFICES ASSUME NEW x \in Left' PROVE x \in Left
    OBVIOUS
  <2>1. PICK d \in Clis, n \in {1, 2} : x = <<d, n>>
    BY DEF Left
  <2>2. IF d \in retried' THEN n = 2 /\ cli'[d] \in Again
        ELSE cli'[d] \notin Ended /\ (n = 1 => cli'[d] \notin Begun)
    BY <2>1 DEF Left
  <2>3. IF d \in retried THEN n = 2 /\ cli[d] \in Again
        ELSE cli[d] \notin Ended /\ (n = 1 => cli[d] \notin Begun)
    <3>1. CASE d # c
      <4>1. cli'[d] = cli[d] /\ (d \in retried' <=> d \in retried)
        BY <3>1 DEF Moved
      <4> QED
        BY <4>1, <2>2
    <3>2. CASE d = c /\ c \in retried
      <4>1. /\ retried' = retried /\ cli[c] \in Again \cup Begun
            /\ cli[c] \in Begun => cli'[c] \in Begun \cup Ended
        BY <3>2 DEF Moved, Servable, RetriedRestart
      <4> QED
        BY <3>2, <4>1, <2>2 DEF Again, Begun, Ended
    <3>3. CASE d = c /\ c \notin retried /\ retried' = retried
      BY <3>3, <2>2 DEF Moved
    <3>4. CASE d = c /\ c \notin retried /\ retried' = retried \cup {c}
      BY <3>4, <2>2 DEF Moved, Ended
    <3> QED
      BY <3>1, <3>2, <3>3, <3>4 DEF Moved
  <2> QED
    BY <2>1, <2>3 DEF Left
<1>5. EnoughLeft'
  BY <1>4, EnoughStays DEF Servable, Moved
<1> QED
  BY <1>1, <1>2, <1>3, <1>5 DEF Servable

(* A start uses up one server and one start. *)
LEMMA SpawnKeeps ==
  ASSUME TypeOK, Servable, NEW c \in Clis, Spawn(c)
  PROVE  Servable'
<1>1. PICK s \in Servers :
        /\ \A t \in Servers : srv[t] = "unused" <=> t >= s
        /\ srv' = [srv EXCEPT ![s] = "starting"]
  BY DEF Spawn
<1>2. /\ cli[c] = "spawning" /\ cli' = [cli EXCEPT ![c] = "polling"]
      /\ file' = None /\ UNCHANGED <<seen, fresh, retried, reused>>
  BY DEF Spawn, Goto
<1>3. s \in Unused /\ Unused' = Unused \ {s} /\ HaveRun' = HaveRun
  BY <1>1 DEF Unused, HaveRun, TypeOK, Servers
<1>4. NamedHaveRun'
  <2>1. child' = [child EXCEPT ![c] = s]
    <3>1. PICK t \in Servers :
            /\ \A u \in Servers : srv[u] = "unused" <=> u >= t
            /\ srv' = [srv EXCEPT ![t] = "starting"] /\ child' = [child EXCEPT ![c] = t]
      BY DEF Spawn
    <3>2. t = s
      BY <1>1, <3>1 DEF Servers
    <3> QED
      BY <3>1, <3>2
  <2> QED
    BY <1>2, <1>3, <2>1 DEF Servable, NamedHaveRun, TypeOK
<1>5. RetriedRestart'
  BY <1>2 DEF Servable, RetriedRestart, TypeOK, Begun
<1>6. UnusedLast'
  BY <1>1, <1>3 DEF UnusedLast, Unused, Servers
<1>7. EnoughLeft'
  <2> SUFFICES ASSUME Enough
               PROVE  Cardinality(Left') + (MaxReused - reused) <= Cardinality(Unused')
    BY <1>2 DEF EnoughLeft, Enough
  <2> DEFINE x == <<c, IF c \in retried THEN 2 ELSE 1>>
  <2>1. x \in Left
    BY <1>2 DEF Left, Again, Begun, Ended
  <2>2. Left' \subseteq Left \ {x}
    <3> SUFFICES ASSUME NEW y \in Left' PROVE y \in Left /\ y # x
      OBVIOUS
    <3>1. PICK d \in Clis, n \in {1, 2} : y = <<d, n>>
      BY DEF Left
    <3>2. IF d \in retried THEN n = 2 /\ cli'[d] \in Again
          ELSE cli'[d] \notin Ended /\ (n = 1 => cli'[d] \notin Begun)
      BY <1>2, <3>1 DEF Left
    <3>3. CASE d # c
      BY <1>2, <3>1, <3>2, <3>3 DEF Left, TypeOK
    <3>4. CASE d = c
      <4>1. cli'[d] = "polling"
        BY <1>2, <3>4 DEF TypeOK
      <4>2. d \notin retried /\ n = 2
        BY <3>2, <4>1 DEF Again, Begun
      <4> QED
        BY <1>2, <3>1, <3>4, <4>2 DEF Left, Ended
    <3> QED
      BY <3>3, <3>4
  <2> HIDE DEF x
  <2>3. IsFiniteSet(Left) /\ IsFiniteSet(Unused)
    BY StartsCounted
  <2>5. /\ IsFiniteSet(Left \ {x})
        /\ Cardinality(Left \ {x}) = Cardinality(Left) - 1
        /\ Cardinality(Unused \ {s}) = Cardinality(Unused) - 1
    BY <1>3, <2>1, <2>3, FS_RemoveElement
  <2>6. IsFiniteSet(Left') /\ Cardinality(Left') <= Cardinality(Left \ {x})
    BY <2>2, <2>5, FS_Subset
  <2>7. /\ Cardinality(Left) \in Nat /\ Cardinality(Left') \in Nat
        /\ Cardinality(Unused) \in Nat
    BY <2>3, <2>6, FS_CardinalityType
  <2>8. Cardinality(Left) + (MaxReused - reused) <= Cardinality(Unused)
    BY DEF Servable, EnoughLeft
  <2>9. MaxReused - reused \in Nat
    BY DaemonAssumption DEF TypeOK
  <2> QED
    BY <1>3, <2>5, <2>6, <2>7, <2>8, <2>9
<1> QED
  BY <1>4, <1>5, <1>6, <1>7 DEF Servable

(* A 401 gives one start back, and uses itself up. *)
LEMMA UnauthorizedKeeps ==
  ASSUME TypeOK, Servable, NEW c \in Clis, Unauthorized(c)
  PROVE  Servable'
<1>1. /\ cli[c] = "sending" /\ cli'[c] \in {"sending", "failed"}
      /\ retried' \in {retried, retried \ {c}} /\ reused' = reused + 1
      /\ \A d \in Clis : d # c => cli'[d] = cli[d] /\ seen'[d] = seen[d]
      /\ seen'[c] \in {seen[c], file} /\ UNCHANGED <<fresh, child, file, srv>>
  BY DEF Unauthorized, Goto, TypeOK
<1>2. Unused' = Unused /\ HaveRun' = HaveRun
  BY <1>1 DEF Unused, HaveRun
<1>3. NamedHaveRun'
  <2>1. \A d \in Clis : seen'[d] \in HaveRun \cup {None}
    BY <1>1 DEF Servable, NamedHaveRun
  <2> QED
    BY <1>1, <1>2, <2>1 DEF Servable, NamedHaveRun
<1>4. RetriedRestart'
  BY <1>1 DEF Servable, RetriedRestart, Begun, Ended, TypeOK
<1>5. UnusedLast'
  BY <1>2 DEF Servable, UnusedLast
<1>6. EnoughLeft'
  <2> SUFFICES ASSUME Enough
               PROVE  Cardinality(Left') + (MaxReused - reused') <= Cardinality(Unused)
    BY <1>2 DEF EnoughLeft, Enough
  <2>1. Left' \subseteq Left \cup {<<c, 2>>}
    <3> SUFFICES ASSUME NEW y \in Left' PROVE y \in Left \/ y = <<c, 2>>
      OBVIOUS
    <3>1. PICK d \in Clis, n \in {1, 2} : y = <<d, n>>
      BY DEF Left
    <3>2. IF d \in retried' THEN n = 2 /\ cli'[d] \in Again
          ELSE cli'[d] \notin Ended /\ (n = 1 => cli'[d] \notin Begun)
      BY <3>1 DEF Left
    <3>3. CASE d # c
      BY <1>1, <3>1, <3>2, <3>3 DEF Left
    <3>4. CASE d = c
      BY <1>1, <3>1, <3>2, <3>4 DEF Again, Begun, Ended
    <3> QED
      BY <3>3, <3>4
  <2>2. IsFiniteSet(Left) /\ Cardinality(Left) \in Nat /\ Cardinality(Unused) \in Nat
    BY StartsCounted
  <2>3. /\ IsFiniteSet(Left \cup {<<c, 2>>})
        /\ Cardinality(Left \cup {<<c, 2>>}) <= Cardinality(Left) + 1
    <3>1. CASE <<c, 2>> \in Left
      <4>1. Left \cup {<<c, 2>>} = Left
        BY <3>1
      <4> QED
        BY <2>2, <4>1
    <3>2. CASE <<c, 2>> \notin Left
      <4>1. /\ IsFiniteSet(Left \cup {<<c, 2>>})
            /\ Cardinality(Left \cup {<<c, 2>>}) = Cardinality(Left) + 1
        BY <2>2, <3>2, FS_AddElement
      <4> QED
        BY <2>2, <4>1
    <3> QED
      BY <3>1, <3>2
  <2>4. /\ IsFiniteSet(Left')
        /\ Cardinality(Left') <= Cardinality(Left \cup {<<c, 2>>})
    BY <2>1, <2>3, FS_Subset
  <2>5. Cardinality(Left') \in Nat /\ Cardinality(Left \cup {<<c, 2>>}) \in Nat
    BY <2>3, <2>4, FS_CardinalityType
  <2>6. Cardinality(Left) + (MaxReused - reused) <= Cardinality(Unused)
    BY DEF Servable, EnoughLeft
  <2>7. reused \in Nat /\ MaxReused \in Nat
    BY DaemonAssumption DEF TypeOK
  <2> QED
    BY <1>1, <2>2, <2>3, <2>4, <2>5, <2>6, <2>7
<1> QED
  BY <1>3, <1>4, <1>5, <1>6 DEF Servable

(* A server that is up has run ever since. *)
LEMMA ServerKeeps ==
  ASSUME TypeOK, Servable, NEW s \in Servers,
         ServerUp(s) \/ ServerDies(s) \/ ServerStops(s) \/ ServerExits(s)
  PROVE  Servable'
<1>1. /\ Unused' = Unused /\ HaveRun \subseteq HaveRun'
      /\ file' \in HaveRun' \cup {None}
      /\ UNCHANGED <<cli, seen, fresh, retried, child, reused>>
  <2> USE DEF TypeOK, Servable, NamedHaveRun, Unused, HaveRun
  <2>1. CASE ServerUp(s)
    BY <2>1 DEF ServerUp
  <2>2. CASE ServerDies(s)
    BY <2>2 DEF ServerDies
  <2>3. CASE ServerStops(s)
    BY <2>3 DEF ServerStops
  <2>4. CASE ServerExits(s)
    BY <2>4 DEF ServerExits
  <2> QED
    BY <2>1, <2>2, <2>3, <2>4
<1>2. NamedHaveRun' /\ RetriedRestart' /\ UnusedLast'
  BY <1>1 DEF Servable, NamedHaveRun, RetriedRestart, UnusedLast
<1>3. Left' = Left
  BY <1>1 DEF Left
<1>4. EnoughLeft'
  BY <1>1, <1>3, EnoughStays DEF Servable
<1> QED
  BY <1>2, <1>4 DEF Servable

LEMMA InitServable == Init => Servable
<1> SUFFICES ASSUME Init PROVE Servable
  OBVIOUS
<1>1. 1 \in Servers
  BY DaemonAssumption DEF Servers
<1>2. NamedHaveRun
  BY <1>1, DaemonAssumption DEF Init, NamedHaveRun, HaveRun, Unused
<1>3. RetriedRestart
  BY DEF Init, RetriedRestart
<1>4. Unused = Servers \/ Unused = Servers \ {1}
  BY <1>1 DEF Init, Unused
<1>5. UnusedLast
  BY <1>4, DaemonAssumption DEF UnusedLast, Servers
<1>6. EnoughLeft
  <2> SUFFICES ASSUME Enough
               PROVE  Cardinality(Left) + (MaxReused - reused) <= Cardinality(Unused)
    BY DEF EnoughLeft
  <2>1. Cardinality(Left) \in Nat /\ Cardinality(Left) <= 2 * Cardinality(Clis)
    BY StartsCounted
  <2>2. IsFiniteSet(Servers) /\ Cardinality(Servers) = MaxServer
    BY FS_Interval, DaemonAssumption DEF Servers
  <2>3. Cardinality(Servers \ {1}) = MaxServer - 1
    BY <1>1, <2>2, FS_RemoveElement
  <2>4. Cardinality(Unused) \in {MaxServer, MaxServer - 1}
    BY <1>4, <2>2, <2>3
  <2>5. Cardinality(Clis) \in Nat /\ MaxServer > 2 * Cardinality(Clis) + MaxReused
    BY FS_CardinalityType DEF Enough
  <2>6. reused = 0
    BY DEF Init
  <2> QED
    BY <2>1, <2>4, <2>5, <2>6, DaemonAssumption
<1> QED
  BY <1>2, <1>3, <1>5, <1>6 DEF Servable

(* Wherever a program is, what it finds lets it go on: the one it is to kill
   or to hear from has run, and the bound on the servers holds nobody up. *)
THEOREM ProgramsGoOn == Spec => []NobodyIsStuck
<1>1. Init => Servable
  BY InitServable
<1>2. Inv /\ Servable /\ [Next]_vars => Servable'
  <2> SUFFICES ASSUME Inv, Servable, [Next]_vars PROVE Servable'
    OBVIOUS
  <2>1. ASSUME NEW c \in Clis, Acts(c)
        PROVE  Servable'
    BY <2>1, CliMoves, MovedKeeps, SpawnKeeps, UnauthorizedKeeps DEF Inv, Servable
  <2>2. ASSUME NEW s \in Servers,
               ServerUp(s) \/ ServerDies(s) \/ ServerStops(s) \/ ServerExits(s)
        PROVE  Servable'
    BY <2>2, ServerKeeps DEF Inv
  <2>3. CASE UNCHANGED vars
    BY <2>3 DEF vars, Servable, NamedHaveRun, RetriedRestart, UnusedLast, EnoughLeft,
                Left, Unused, HaveRun
  <2> QED
    BY <2>1, <2>2, <2>3 DEF Next, Acts
<1>3. Inv /\ Servable => NobodyIsStuck
  <2> SUFFICES ASSUME Inv, Servable, NEW c \in Clis
               PROVE  /\ cli[c] \in {"kill", "sending"} => seen[c] \in HaveRun
                      /\ cli[c] = "listening" => child[c] \in Servers \ Unused
                      /\ cli[c] = "spawning" /\ Enough =>
                           \E s \in Servers :
                             \A t \in Servers : srv[t] = "unused" <=> t >= s
    BY DEF NobodyIsStuck
  <2>1. cli[c] \in {"kill", "sending"} => seen[c] \in HaveRun
    BY DEF Inv, Known, Servable, NamedHaveRun
  <2>2. cli[c] = "listening" => child[c] \in Servers \ Unused
    BY DEF Inv, TypeOK, Known, Servable, NamedHaveRun
  <2>3. ASSUME cli[c] = "spawning", Enough
        PROVE  \E s \in Servers : \A t \in Servers : srv[t] = "unused" <=> t >= s
    <3>1. Left # {}
      <4>1. <<c, 2>> \in Left
        BY <2>3 DEF Left, Again, Ended
      <4> QED
        BY <4>1
    <3>2. /\ IsFiniteSet(Left) /\ Cardinality(Left) \in Nat
          /\ IsFiniteSet(Unused) /\ Cardinality(Unused) \in Nat
      BY <2>3, StartsCounted
    <3>3. Cardinality(Left) # 0
      BY <3>1, <3>2, FS_EmptySet
    <3>4. Cardinality(Left) <= Cardinality(Unused)
      <4>1. Cardinality(Left) + (MaxReused - reused) <= Cardinality(Unused)
        BY <2>3 DEF Servable, EnoughLeft
      <4>2. MaxReused - reused \in Nat
        BY DaemonAssumption DEF Inv, TypeOK
      <4> QED
        BY <3>2, <4>1, <4>2
    <3>5. Unused # {}
      BY <3>2, <3>3, <3>4, FS_EmptySet
    <3>6. Unused \in SUBSET Nat
      BY DEF Unused, Servers
    <3>7. PICK s \in Unused : \A t \in Unused : ~(<<t, s>> \in OpToRel(<, Nat))
      <4>1. IsWellFoundedOn(OpToRel(<, Nat), Nat)
        BY NatLessThanWellFounded
      <4> HIDE DEF Unused
      <4> QED
        BY <3>5, <3>6, <4>1, WFMin
    <3>8. \A t \in Unused : t >= s
      <4>1. \A t \in Unused : ~(t < s)
        BY <3>6, <3>7 DEF OpToRel
      <4> QED
        BY <3>6, <4>1
    <3>9. \A t \in Servers : t >= s => t \in Unused
      BY DEF Servable, UnusedLast
    <3> QED
      BY <3>8, <3>9 DEF Unused
  <2> QED
    BY <2>1, <2>2, <2>3
<1> QED
  BY <1>1, <1>2, <1>3, Invariance, PTL DEF Spec

-----------------------------------------------------------------------------
(***************************************************************************)
(* No program goes on for ever.  It goes back to the lock only after it    *)
(* has removed a lock file, and every one that is there or will be is      *)
(* made by a program that has not had the lock: no step adds to those.  It *)
(* goes back to killing a server once, and once more for each 401.         *)
(* Otherwise it goes forward.                                              *)
(***************************************************************************)
BeforeLock == {"begun", "checking", "locking", "inspecting", "unlinking"}

(* The lock files by their makers, the one that is there and those that may
   still be made. *)
LocksToCome == {c \in Clis : cli[c] \in BeforeLock} \cup ({lock.by} \ {None})

PlacesLeft ==
  [begun |-> 14, checking |-> 13, locking |-> 12, inspecting |-> 11, unlinking |-> 10,
   waiting |-> 9, writing |-> 9, rereading |-> 8, rechecking |-> 7, term |-> 6,
   kill |-> 5, spawning |-> 4, polling |-> 3, listening |-> 2, sending |-> 2,
   done |-> 1, failed |-> 1, gone |-> 0]

(* The maker of a lock file does not make another. *)
MakersPast ==
  /\ lock.by = None => lock = NoLock
  /\ lock.by \in Clis => cli[lock.by] \notin BeforeLock

ProgramsRunOut ==
  [][ /\ reused <= reused' /\ LocksToCome' \subseteq LocksToCome
      /\ reused < reused' \/ retried \subseteq retried'
      /\ \A c \in Clis :
           \/ reused < reused'
           \/ c \in retried' \ retried
           \/ LocksToCome' # LocksToCome
           \/ PlacesLeft[cli'[c]] < PlacesLeft[cli[c]]
           \/ cli'[c] = cli[c] /\ ~Acts(c) ]_vars

(* What a step of a program does to the program and to the lock. *)
GoesOn(c) ==
  /\ \/ reused < reused'
     \/ reused' = reused /\ retried \subseteq retried'
  /\ \A d \in Clis : d # c => cli'[d] = cli[d]
  /\ cli[c] \notin BeforeLock => cli'[c] \notin BeforeLock
  /\ \/ lock'.by \in {lock.by, None}
     \/ lock = NoLock /\ lock'.by = c /\ cli[c] \in BeforeLock
  /\ lock'.by = None => lock' = NoLock
  /\ lock'.by = c => cli'[c] \notin BeforeLock
  /\ \/ reused < reused'
     \/ c \in retried' \ retried
     \/ PlacesLeft[cli'[c]] < PlacesLeft[cli[c]]
     \/ lock # NoLock /\ lock' = NoLock

LEMMA ProgramGoesOn ==
  ASSUME TypeOK, MakersPast, NEW c \in Clis, Acts(c)
  PROVE  GoesOn(c)
<1>n. c # None /\ NoLock.by = None /\ lock.by \in Clis \cup {Past, None}
  BY DaemonAssumption DEF NoLock, TypeOK
<1>g. ASSUME NEW phase, Goto(c, phase)
      PROVE  cli'[c] = phase /\ \A d \in Clis : d # c => cli'[d] = cli[d]
  BY <1>g DEF Goto, TypeOK
<1>s. ASSUME NEW phase, Goto(c, phase), PlacesLeft[phase] < PlacesLeft[cli[c]],
             cli[c] \notin BeforeLock => phase \notin BeforeLock,
             lock' = lock, retried' = retried, reused' = reused
      PROVE  GoesOn(c)
  BY <1>g, <1>n, <1>s DEF GoesOn, MakersPast
<1>r. ASSUME NEW phase, Release(c, phase), PlacesLeft[phase] < PlacesLeft[cli[c]],
             phase \notin BeforeLock, retried' = retried, reused' = reused
      PROVE  GoesOn(c)
  <2>1. Goto(c, phase) /\ lock' \in {lock, NoLock}
    BY <1>r DEF Release
  <2> QED
    BY <1>g, <1>n, <1>r, <2>1 DEF GoesOn, MakersPast
<1> USE DEF PlacesLeft, BeforeLock
<1>1. CASE ReadState(c)
  BY <1>1, <1>s DEF ReadState
<1>2. CASE ServerFound(c)
  BY <1>2, <1>s DEF ServerFound
<1>3. CASE ServerOutdated(c)
  BY <1>3, <1>s DEF ServerOutdated
<1>4. CASE ServerLost(c)
  BY <1>4, <1>s DEF ServerLost
<1>5. CASE TakeLock(c)
  <2>1. /\ Goto(c, "writing") /\ cli[c] = "locking" /\ lock = NoLock
        /\ lock' = [by |-> c, pid |-> None] /\ retried' = retried /\ reused' = reused
    BY <1>5 DEF TakeLock
  <2>2. lock'.by = c
    BY <2>1
  <2> QED
    BY <1>g, <1>n, <2>1, <2>2 DEF GoesOn
<1>6. CASE WritePid(c)
  <2>1. Goto(c, "rereading") /\ cli[c] = "writing" /\ retried' = retried /\ reused' = reused
    BY <1>6 DEF WritePid
  <2>2. lock'.by = lock.by /\ (lock.by = None => lock' = lock)
    BY <1>6, <1>n DEF WritePid, TypeOK
  <2> QED
    BY <1>g, <1>n, <2>1, <2>2 DEF GoesOn, MakersPast
<1>7. CASE LockTaken(c)
  BY <1>7, <1>s DEF LockTaken
<1>8. CASE InspectLock(c)
  BY <1>8, <1>s DEF InspectLock
<1>9. CASE UnlinkStale(c)
  <2>1. /\ cli[c] = "unlinking" /\ lock' = NoLock /\ retried' = retried /\ reused' = reused
        /\ Goto(c, IF lock = NoLock THEN "waiting" ELSE "locking")
    BY <1>9 DEF UnlinkStale
  <2>2. lock'.by = None
    BY <1>n, <2>1
  <2>3. CASE lock = NoLock
    <3>1. Goto(c, "waiting")
      BY <2>1, <2>3
    <3> QED
      BY <1>g, <1>n, <2>1, <2>2, <3>1 DEF GoesOn
  <2>4. CASE lock # NoLock
    <3>1. Goto(c, "locking")
      BY <2>1, <2>4
    <3> QED
      BY <1>g, <1>n, <2>1, <2>2, <2>4, <3>1 DEF GoesOn
  <2> QED
    BY <2>3, <2>4
<1>10. CASE WaitOver(c)
  BY <1>10, <1>s DEF WaitOver
<1>11. CASE Reread(c)
  BY <1>11, <1>s DEF Reread
<1>12. CASE FreshFound(c)
  BY <1>12, <1>r DEF FreshFound
<1>13. CASE FreshLost(c)
  BY <1>13, <1>s DEF FreshLost
<1>14. CASE Terminate(c)
  BY <1>14, <1>s DEF Terminate
<1>15. CASE Kill(c)
  BY <1>15, <1>s DEF Kill
<1>16. CASE Spawn(c)
  BY <1>16, <1>s DEF Spawn
<1>17. CASE Started(c)
  BY <1>17, <1>r DEF Started, StartEnds
<1>18. CASE StartTimeout(c)
  BY <1>18, <1>s DEF StartTimeout
<1>19. CASE Answered(c)
  BY <1>19, <1>s DEF Answered
<1>20. CASE ConnectionLost(c)
  <2>1. CASE c \in retried
    BY <1>20, <2>1, <1>s DEF ConnectionLost
  <2>2. CASE c \notin retried
    <3>1. /\ cli[c] = "sending" /\ Goto(c, "term") /\ retried' = retried \cup {c}
          /\ lock' = lock /\ reused' = reused
      BY <1>20, <2>2 DEF ConnectionLost
    <3> QED
      BY <1>g, <1>n, <2>2, <3>1 DEF GoesOn, MakersPast
  <2> QED
    BY <2>1, <2>2
<1>21. CASE CliDies(c)
  <2>1. PlacesLeft["gone"] < PlacesLeft[cli[c]]
    <3>1. cli[c] \in Phase \ Ended
      BY <1>21 DEF CliDies, TypeOK
    <3> QED
      BY <3>1 DEF Phase, Ended, Holding, Restarting
  <2> QED
    BY <1>21, <2>1, <1>s DEF CliDies
<1>22. CASE ErrorRead(c) \/ ErrorEnds(c)
  BY <1>22, <1>r DEF ErrorRead, ErrorEnds, StartFails, StartEnds
<1>23. CASE Unauthorized(c)
  <2>1. /\ cli[c] = "sending" /\ cli'[c] \in {"sending", "failed"}
        /\ \A d \in Clis : d # c => cli'[d] = cli[d]
        /\ lock' = lock /\ reused' = reused + 1
    BY <1>23 DEF Unauthorized, Goto, TypeOK
  <2>2. reused < reused'
    BY <2>1 DEF TypeOK
  <2>3. cli'[c] \notin BeforeLock
    BY <2>1
  <2> HIDE DEF BeforeLock, PlacesLeft
  <2>4. /\ lock'.by \in {lock.by, None} /\ (lock'.by = None => lock' = NoLock)
        /\ lock'.by = c => cli'[c] \notin BeforeLock
    BY <2>1, <2>3 DEF MakersPast
  <2>5. \A d \in Clis : d # c => cli'[d] = cli[d]
    BY <2>1
  <2> QED
    BY <2>2, <2>3, <2>4, <2>5 DEF GoesOn
<1> QED
  BY <1>1, <1>2, <1>3, <1>4, <1>5, <1>6, <1>7, <1>8, <1>9, <1>10, <1>11, <1>12, <1>13,
     <1>14, <1>15, <1>16, <1>17, <1>18, <1>19, <1>20, <1>21, <1>22, <1>23
  DEF Acts, CliStep

(* Going on keeps the makers apart from those to come, and uses something
   up. *)
LEMMA GoneOn ==
  ASSUME TypeOK, TypeOK', MakersPast, NEW c \in Clis, GoesOn(c)
  PROVE  /\ MakersPast'
         /\ reused <= reused' /\ LocksToCome' \subseteq LocksToCome
         /\ reused < reused' \/ retried \subseteq retried'
         /\ \/ reused < reused'
            \/ c \in retried' \ retried
            \/ LocksToCome' # LocksToCome
            \/ PlacesLeft[cli'[c]] < PlacesLeft[cli[c]]
<1>n. /\ c # None /\ NoLock.by = None
      /\ lock.by \in Clis \cup {Past, None} /\ Past \notin Clis
  BY DaemonAssumption DEF NoLock, TypeOK
<1>1. MakersPast'
  <2>1. lock'.by = None => lock' = NoLock
    BY DEF GoesOn
  <2>2. ASSUME lock'.by \in Clis, lock'.by # c
        PROVE  cli'[lock'.by] \notin BeforeLock
    <3>1. lock'.by = lock.by
      BY <1>n, <2>2, DaemonAssumption DEF GoesOn
    <3>2. cli[lock.by] \notin BeforeLock /\ cli'[lock.by] = cli[lock.by]
      BY <2>2, <3>1 DEF GoesOn, MakersPast
    <3> QED
      BY <3>1, <3>2
  <2>3. lock'.by = c => cli'[c] \notin BeforeLock
    BY DEF GoesOn
  <2> QED
    BY <2>1, <2>2, <2>3 DEF MakersPast
<1>2. LocksToCome' \subseteq LocksToCome
  BY <1>n DEF GoesOn, LocksToCome
<1>3. ASSUME lock # NoLock, lock' = NoLock
      PROVE  LocksToCome' # LocksToCome
  <2>1. lock.by \in LocksToCome
    BY <1>3 DEF MakersPast, LocksToCome
  <2>2. lock.by \in Clis => cli'[lock.by] \notin BeforeLock
    BY DEF GoesOn, MakersPast
  <2>3. lock'.by = None
    BY <1>n, <1>3
  <2>4. lock.by # None
    BY <1>3 DEF MakersPast
  <2>5. lock.by \notin LocksToCome'
    BY <2>2, <2>3, <2>4 DEF LocksToCome
  <2> QED
    BY <2>1, <2>5
<1>4. reused <= reused'
  <2>1. reused \in Int /\ reused' \in Int
    BY DEF TypeOK
  <2> QED
    BY <2>1 DEF GoesOn
<1> QED
  BY <1>1, <1>2, <1>3, <1>4 DEF GoesOn

(* However many programs there are and whatever dies or is slow, every step
   of a program uses up one of the answers from a port used again, its one
   restart, one of the lock files there may be, or one of the places it has
   before it; and only such an answer gives anything back, a restart. *)
THEOREM ProgramsEnd == Spec => ProgramsRunOut
<1>1. Init => MakersPast
  BY DaemonAssumption DEF Init, MakersPast, NoLock
<1>2. TypeOK /\ MakersPast /\ [Next]_vars => MakersPast'
  <2> SUFFICES ASSUME TypeOK, MakersPast, [Next]_vars PROVE MakersPast'
    OBVIOUS
  <2>1. ASSUME NEW c \in Clis, Acts(c) PROVE MakersPast'
    BY <2>1, TypeCli, ProgramGoesOn, GoneOn
  <2>2. ASSUME cli' = cli, lock' = lock PROVE MakersPast'
    BY <2>2 DEF MakersPast
  <2> QED
    BY <2>1, <2>2
    DEF Next, Acts, ServerUp, ServerDies, ServerStops, ServerExits, vars
<1>3. TypeOK /\ MakersPast /\ [Next]_vars
        => [ /\ reused <= reused' /\ LocksToCome' \subseteq LocksToCome
             /\ reused < reused' \/ retried \subseteq retried'
             /\ \A c \in Clis :
                  \/ reused < reused'
                  \/ c \in retried' \ retried
                  \/ LocksToCome' # LocksToCome
                  \/ PlacesLeft[cli'[c]] < PlacesLeft[cli[c]]
                  \/ cli'[c] = cli[c] /\ ~Acts(c) ]_vars
  <2> SUFFICES ASSUME TypeOK, MakersPast, Next
               PROVE  /\ reused <= reused' /\ LocksToCome' \subseteq LocksToCome
                      /\ reused < reused' \/ retried \subseteq retried'
                      /\ \A c \in Clis :
                           \/ reused < reused'
                           \/ c \in retried' \ retried
                           \/ LocksToCome' # LocksToCome
                           \/ PlacesLeft[cli'[c]] < PlacesLeft[cli[c]]
                           \/ cli'[c] = cli[c] /\ ~Acts(c)
    OBVIOUS
  <2>1. ASSUME NEW c \in Clis, Acts(c)
        PROVE  /\ reused <= reused' /\ LocksToCome' \subseteq LocksToCome
               /\ reused < reused' \/ retried \subseteq retried'
               /\ \/ reused < reused'
                  \/ c \in retried' \ retried
                  \/ LocksToCome' # LocksToCome
                  \/ PlacesLeft[cli'[c]] < PlacesLeft[cli[c]]
               /\ \A d \in Clis : d # c => cli'[d] = cli[d]
    <3>1. GoesOn(c) /\ TypeOK'
      BY <2>1, TypeCli, ProgramGoesOn
    <3>2. \A d \in Clis : d # c => cli'[d] = cli[d]
      BY <3>1 DEF GoesOn
    <3> QED
      BY <3>1, <3>2, GoneOn
  <2>2. ASSUME \A c \in Clis : ~Acts(c)
        PROVE  reused' = reused /\ retried' = retried /\ cli' = cli /\ lock' = lock
    BY <2>2 DEF Next, Acts, ServerUp, ServerDies, ServerStops, ServerExits
  <2>3. CASE \A c \in Clis : ~Acts(c)
    <3>1. /\ reused' = reused /\ reused <= reused /\ retried' = retried /\ cli' = cli
          /\ LocksToCome' = LocksToCome
      BY <2>2, <2>3 DEF LocksToCome, TypeOK
    <3> QED
      BY <2>3, <3>1
  <2>4. ASSUME NEW c \in Clis, Acts(c), NEW d \in Clis
        PROVE  \/ reused < reused'
               \/ d \in retried' \ retried
               \/ LocksToCome' # LocksToCome
               \/ PlacesLeft[cli'[d]] < PlacesLeft[cli[d]]
               \/ cli'[d] = cli[d] /\ ~Acts(d)
    BY <2>1, <2>4
  <2> QED
    BY <2>1, <2>3, <2>4
<1>4. Inv => TypeOK
  BY DEF Inv
<1> QED
  BY <1>1, <1>2, <1>3, <1>4, Invariance, PTL DEF Spec, ProgramsRunOut
=============================================================================
