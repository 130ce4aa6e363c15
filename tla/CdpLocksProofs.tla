--------------------------- MODULE CdpLocksProofs ---------------------------
(***************************************************************************)
(* The locks of the CDP bridge exclude, in the order of the calls, for any *)
(* number of calls and tabs and however many of them time out.             *)
(*                                                                         *)
(* The argument: the tail of a chain is the youngest of the calls made for *)
(* it and has every other before it (TailsCover), so a new call that waits *)
(* for the tails waits, directly or through a younger call, for everyone   *)
(* it conflicts with (AwaitsCover); a promise resolves after those it      *)
(* waits for, so when a call's has, all conflicting calls before it have   *)
(* resolved (ResolvedInOrder), and they resolve only once they have left.  *)
(* At the end: before is an order of the finitely many calls made, so the  *)
(* first promise that has not resolved waits for nobody (NeverShut).       *)
(***************************************************************************)
EXTENDS CdpLocks, FiniteSetTheorems, WellFoundedInduction, TLAPS

(* A chain's tail is of its tier, and what a call remembers was made. *)
TailsFit ==
  /\ \A t \in Tabs : tabTail[t] # None =>
       tabTail[t] \in Made /\ scope[tabTail[t]] = "tab" /\ tab[tabTail[t]] = t
  /\ globalTail # None => globalTail \in Made /\ scope[globalTail] = "browser"
  /\ \A c \in Calls : before[c] \subseteq Made

TailsCover ==
  \A c \in Made :
    /\ scope[c] = "tab" =>
         /\ tabTail[tab[c]] # None
         /\ c = tabTail[tab[c]] \/ c \in before[tabTail[tab[c]]]
    /\ scope[c] = "browser" =>
         /\ globalTail # None
         /\ c = globalTail \/ c \in before[globalTail]

AwaitsCover ==
  \A c \in Made : \A q \in before[c] : Conflict(c, q) =>
    \E d \in awaits[c] : q = d \/ (Conflict(d, q) /\ q \in before[d])

InOneOrder ==
  \A c, d \in Made : c = d \/ c \in before[d] \/ d \in before[c]

Queue == TailsFit /\ TailsCover /\ AwaitsCover /\ InOneOrder

ResolvedInOrder ==
  \A c \in resolved :
    /\ phase[c] = "left"
    /\ \A q \in before[c] : Conflict(c, q) => q \in resolved

HoldersWereGranted == \A c \in Holders : awaits[c] \subseteq resolved

InChromeFit ==
  \A c \in inChrome : phase[c] = "sent" \/ (phase[c] = "left" /\ c \in late)

Inv == TypeOK /\ Queue /\ ResolvedInOrder /\ HoldersWereGranted /\ InChromeFit

-----------------------------------------------------------------------------
(* Every variable keeps its type. *)
THEOREM TypeCorrect == Spec => []TypeOK
<1>1. Init => TypeOK
  BY DEF Init, TypeOK, Phase
<1>2. TypeOK /\ [Next]_vars => TypeOK'
  <2> SUFFICES ASSUME TypeOK, [Next]_vars PROVE TypeOK'
    OBVIOUS
  <2> USE DEF TypeOK, Phase, Goto
  <2>1. ASSUME NEW c \in Calls, AcquireTabLock(c) PROVE TypeOK'
    <3>1. TabTails(c) \subseteq Calls
      BY DEF TabTails
    <3>2. Made \subseteq Calls
      BY DEF Made
    <3> QED
      BY <2>1, <3>1, <3>2 DEF AcquireTabLock
  <2>2. ASSUME NEW c \in Calls, AcquireGlobalLock(c) PROVE TypeOK'
    <3>1. GlobalTails \subseteq Calls
      BY DEF GlobalTails
    <3>2. Made \subseteq Calls
      BY DEF Made
    <3> QED
      BY <2>2, <3>1, <3>2 DEF AcquireGlobalLock
  <2>3. ASSUME NEW c \in Calls, CallStep(c) PROVE TypeOK'
    BY <2>3 DEF CallStep, Resolve, Granted, AcquireTimeout, NoPage, AskSession, Send,
                CallTimeout
  <2>4. ASSUME NEW c \in Calls, Answer(c) \/ SessionOpens(c) \/ SessionFails(c)
        PROVE  TypeOK'
    BY <2>4 DEF Answer, SessionOpens, SessionFails
  <2>5. ASSUME NEW t \in Tabs, ClosePage(t) PROVE TypeOK'
    BY <2>5 DEF ClosePage
  <2>6. CASE UNCHANGED vars
    BY <2>6 DEF vars
  <2> QED
    BY <2>1, <2>2, <2>3, <2>4, <2>5, <2>6 DEF Next
<1> QED
  BY <1>1, <1>2, PTL DEF Spec

-----------------------------------------------------------------------------
(* A step that makes no call leaves the queue as it is. *)
LEMMA QueueKept ==
  ASSUME Queue, Made' = Made,
         UNCHANGED <<scope, tab, awaits, tabTail, globalTail, before>>
  PROVE  Queue'
<1>1. TailsFit'
  BY DEF Queue, TailsFit
<1>2. TailsCover'
  BY DEF Queue, TailsCover
<1>3. AwaitsCover'
  BY DEF Queue, AwaitsCover, Conflict
<1>4. InOneOrder'
  BY DEF Queue, InOneOrder
<1> QED
  BY <1>1, <1>2, <1>3, <1>4 DEF Queue

(* A call for a tab goes behind everyone it conflicts with. *)
LEMMA QueueTab ==
  ASSUME TypeOK, Queue, NEW c \in Calls, AcquireTabLock(c)
  PROVE  Queue'
<1> USE NoneAssumption
<1>0. /\ c \notin Made /\ Made' = Made \cup {c}
      /\ scope' = scope /\ tab' = tab /\ globalTail' = globalTail
      /\ scope[c] = "tab" /\ tab[c] \in Tabs
      /\ \A d \in Calls : d # c => before'[d] = before[d] /\ awaits'[d] = awaits[d]
      /\ before'[c] = Made
      /\ awaits'[c] = {tabTail[tab[c]], globalTail} \ {None}
      /\ tabTail'[tab[c]] = c
      /\ \A t \in Tabs : t # tab[c] => tabTail'[t] = tabTail[t]
  BY DEF AcquireTabLock, TabTails, TypeOK, Made, Goto, Phase
<1>1. Made \subseteq Calls
  BY DEF Made
<1>2. TailsFit'
  BY <1>0, <1>1 DEF Queue, TailsFit, TypeOK
<1>3. TailsCover'
  <2> SUFFICES ASSUME NEW d \in Made'
               PROVE  /\ scope[d] = "tab" =>
                           /\ tabTail'[tab[d]] # None
                           /\ d = tabTail'[tab[d]] \/ d \in before'[tabTail'[tab[d]]]
                      /\ scope[d] = "browser" =>
                           /\ globalTail # None
                           /\ d = globalTail \/ d \in before'[globalTail]
    BY <1>0 DEF TailsCover
  <2>1. CASE d = c
    BY <2>1, <1>0
  <2>2. CASE d # c
    <3>1. d \in Made
      BY <2>2, <1>0
    <3>2. CASE scope[d] = "tab"
      <4>1. tab[d] \in Tabs
        BY <3>1, <1>1 DEF TypeOK
      <4>2. CASE tab[d] = tab[c]
        BY <4>2, <3>1, <3>2, <1>0
      <4>3. CASE tab[d] # tab[c]
        <5>1. tabTail'[tab[d]] = tabTail[tab[d]]
          BY <4>1, <4>3, <1>0
        <5>2. /\ tabTail[tab[d]] # None
              /\ d = tabTail[tab[d]] \/ d \in before[tabTail[tab[d]]]
          BY <3>1, <3>2 DEF Queue, TailsCover
        <5>3. tabTail[tab[d]] \in Made
          BY <4>1, <5>2 DEF Queue, TailsFit
        <5> QED
          BY <5>1, <5>2, <5>3, <3>2, <1>0, <1>1
      <4> QED
        BY <4>2, <4>3
    <3>3. CASE scope[d] = "browser"
      <4>1. globalTail # None /\ (d = globalTail \/ d \in before[globalTail])
        BY <3>1, <3>3 DEF Queue, TailsCover
      <4>2. globalTail \in Made
        BY <4>1 DEF Queue, TailsFit
      <4> QED
        BY <4>1, <4>2, <3>3, <1>0, <1>1
    <3>4. scope[d] \in Scope
      BY <3>1, <1>1 DEF TypeOK
    <3> QED
      BY <3>2, <3>3, <3>4 DEF Scope
  <2> QED
    BY <2>1, <2>2
<1>4. AwaitsCover'
  <2> SUFFICES ASSUME NEW d \in Made', NEW q \in before'[d], Conflict(d, q)
               PROVE  \E e \in awaits'[d] :
                        q = e \/ (Conflict(e, q) /\ q \in before'[e])
    BY <1>0 DEF AwaitsCover, Conflict
  <2>1. CASE d = c
    <3>1. q \in Made /\ q \in Calls
      BY <2>1, <1>0, <1>1
    <3>2. CASE scope[q] = "browser"
      <4>1. globalTail # None /\ (q = globalTail \/ q \in before[globalTail])
        BY <3>1, <3>2 DEF Queue, TailsCover
      <4>2. globalTail \in Made /\ scope[globalTail] = "browser"
        BY <4>1 DEF Queue, TailsFit
      <4>3. globalTail \in awaits'[d]
        BY <2>1, <4>1, <1>0
      <4>4. q = globalTail \/ (Conflict(globalTail, q) /\ q \in before'[globalTail])
        BY <4>1, <4>2, <1>0, <1>1 DEF Conflict
      <4> QED
        BY <4>3, <4>4
    <3>3. CASE scope[q] = "tab"
      <4>1. tab[q] = tab[c]
        BY <2>1, <3>3, <1>0 DEF Conflict
      <4> DEFINE e == tabTail[tab[c]]
      <4>2. e # None /\ (q = e \/ q \in before[e])
        BY <3>1, <3>3, <4>1 DEF Queue, TailsCover
      <4>3. e \in Made /\ scope[e] = "tab" /\ tab[e] = tab[c]
        BY <4>2, <1>0 DEF Queue, TailsFit
      <4>4. e \in awaits'[d]
        BY <2>1, <4>2, <1>0
      <4>5. q = e \/ (Conflict(e, q) /\ q \in before'[e])
        BY <4>1, <4>2, <4>3, <1>0, <1>1 DEF Conflict
      <4> QED
        BY <4>4, <4>5
    <3>4. scope[q] \in Scope
      BY <3>1 DEF TypeOK
    <3> QED
      BY <3>2, <3>3, <3>4 DEF Scope
  <2>2. CASE d # c
    <3>1. d \in Made /\ d \in Calls /\ q \in before[d] /\ awaits'[d] = awaits[d]
      BY <2>2, <1>0, <1>1
    <3>2. PICK e \in awaits[d] : q = e \/ (Conflict(e, q) /\ q \in before[e])
      BY <3>1 DEF Queue, AwaitsCover
    <3>3. e \in Calls
      BY <3>1, <3>2 DEF TypeOK
    <3>4. q \in before[e] => e # c \/ q \in before'[e]
      BY <1>0, <1>1, <3>1 DEF Queue, TailsFit
    <3>5. q \in before[e] => q \in before'[e]
      BY <3>3, <3>4, <1>0
    <3> QED
      BY <3>1, <3>2, <3>5
  <2> QED
    BY <2>1, <2>2
<1>5. InOneOrder'
  BY <1>0, <1>1 DEF Queue, InOneOrder
<1> QED
  BY <1>2, <1>3, <1>4, <1>5 DEF Queue

(* A browser-wide call goes behind everyone. *)
LEMMA QueueGlobal ==
  ASSUME TypeOK, Queue, NEW c \in Calls, AcquireGlobalLock(c)
  PROVE  Queue'
<1> USE NoneAssumption
<1>0. /\ c \notin Made /\ Made' = Made \cup {c}
      /\ scope' = scope /\ tab' = tab /\ tabTail' = tabTail
      /\ scope[c] = "browser"
      /\ \A d \in Calls : d # c => before'[d] = before[d] /\ awaits'[d] = awaits[d]
      /\ before'[c] = Made
      /\ awaits'[c] = ({globalTail} \cup {tabTail[t] : t \in Tabs}) \ {None}
      /\ globalTail' = c
  BY DEF AcquireGlobalLock, GlobalTails, TypeOK, Made, Goto, Phase
<1>1. Made \subseteq Calls
  BY DEF Made
<1>2. TailsFit'
  BY <1>0, <1>1 DEF Queue, TailsFit, TypeOK
<1>3. TailsCover'
  <2> SUFFICES ASSUME NEW d \in Made'
               PROVE  /\ scope[d] = "tab" =>
                           /\ tabTail[tab[d]] # None
                           /\ d = tabTail[tab[d]] \/ d \in before'[tabTail[tab[d]]]
                      /\ scope[d] = "browser" =>
                           /\ c # None
                           /\ d = c \/ d \in before'[c]
    BY <1>0 DEF TailsCover
  <2>1. CASE d = c
    BY <2>1, <1>0
  <2>2. CASE d # c
    <3>1. d \in Made /\ tab[d] \in Tabs
      BY <2>2, <1>0, <1>1 DEF TypeOK
    <3>2. scope[d] = "tab" =>
            /\ tabTail[tab[d]] # None
            /\ d = tabTail[tab[d]] \/ d \in before[tabTail[tab[d]]]
            /\ tabTail[tab[d]] \in Made
      BY <3>1 DEF Queue, TailsCover, TailsFit
    <3> QED
      BY <3>1, <3>2, <1>0, <1>1
  <2> QED
    BY <2>1, <2>2
<1>4. AwaitsCover'
  <2> SUFFICES ASSUME NEW d \in Made', NEW q \in before'[d], Conflict(d, q)
               PROVE  \E e \in awaits'[d] :
                        q = e \/ (Conflict(e, q) /\ q \in before'[e])
    BY <1>0 DEF AwaitsCover, Conflict
  <2>1. CASE d = c
    <3>1. q \in Made /\ q \in Calls /\ tab[q] \in Tabs
      BY <2>1, <1>0, <1>1 DEF TypeOK
    <3>2. CASE scope[q] = "browser"
      <4>1. globalTail # None /\ (q = globalTail \/ q \in before[globalTail])
        BY <3>1, <3>2 DEF Queue, TailsCover
      <4>2. globalTail \in Made /\ scope[globalTail] = "browser"
        BY <4>1 DEF Queue, TailsFit
      <4>3. globalTail \in awaits'[d]
        BY <2>1, <4>1, <1>0
      <4>4. q = globalTail \/ (Conflict(globalTail, q) /\ q \in before'[globalTail])
        BY <4>1, <4>2, <1>0, <1>1 DEF Conflict
      <4> QED
        BY <4>3, <4>4
    <3>3. CASE scope[q] = "tab"
      <4> DEFINE e == tabTail[tab[q]]
      <4>1. e # None /\ (q = e \/ q \in before[e])
        BY <3>1, <3>3 DEF Queue, TailsCover
      <4>2. e \in Made /\ scope[e] = "tab" /\ tab[e] = tab[q]
        BY <4>1, <3>1 DEF Queue, TailsFit
      <4>3. e \in awaits'[d]
        BY <2>1, <4>1, <3>1, <1>0
      <4>4. q = e \/ (Conflict(e, q) /\ q \in before'[e])
        BY <4>1, <4>2, <1>0, <1>1 DEF Conflict
      <4> QED
        BY <4>3, <4>4
    <3>4. scope[q] \in Scope
      BY <3>1 DEF TypeOK
    <3> QED
      BY <3>2, <3>3, <3>4 DEF Scope
  <2>2. CASE d # c
    <3>1. d \in Made /\ d \in Calls /\ q \in before[d] /\ awaits'[d] = awaits[d]
      BY <2>2, <1>0, <1>1
    <3>2. PICK e \in awaits[d] : q = e \/ (Conflict(e, q) /\ q \in before[e])
      BY <3>1 DEF Queue, AwaitsCover
    <3>3. e \in Calls
      BY <3>1, <3>2 DEF TypeOK
    <3>4. q \in before[e] => e # c \/ q \in before'[e]
      BY <1>0, <1>1, <3>1 DEF Queue, TailsFit
    <3>5. q \in before[e] => q \in before'[e]
      BY <3>3, <3>4, <1>0
    <3> QED
      BY <3>1, <3>2, <3>5
  <2> QED
    BY <2>1, <2>2
<1>5. InOneOrder'
  BY <1>0, <1>1 DEF Queue, InOneOrder
<1> QED
  BY <1>2, <1>3, <1>4, <1>5 DEF Queue

-----------------------------------------------------------------------------
(* A call that is made holds nothing and has resolved nothing. *)
LEMMA MadeKeeps ==
  ASSUME Inv, NEW c \in Calls, AcquireTabLock(c) \/ AcquireGlobalLock(c)
  PROVE  ResolvedInOrder' /\ HoldersWereGranted' /\ InChromeFit'
<1>1. /\ phase[c] = "idle" /\ phase' = [phase EXCEPT ![c] = "waiting"]
      /\ resolved' = resolved /\ scope' = scope /\ tab' = tab
      /\ inChrome' = inChrome /\ late' = late
      /\ \A d \in Calls : d # c => before'[d] = before[d] /\ awaits'[d] = awaits[d]
  BY DEF AcquireTabLock, AcquireGlobalLock, Inv, TypeOK, Goto
<1>2. ResolvedInOrder'
  BY <1>1 DEF Inv, TypeOK, ResolvedInOrder, Conflict
<1>3. HoldersWereGranted'
  BY <1>1 DEF Inv, TypeOK, HoldersWereGranted, Holders
<1>4. InChromeFit'
  BY <1>1 DEF Inv, TypeOK, InChromeFit
<1> QED
  BY <1>2, <1>3, <1>4

(* A promise resolves after all that the call conflicts with. *)
LEMMA ResolveKeeps ==
  ASSUME Inv, NEW c \in Calls, Resolve(c)
  PROVE  ResolvedInOrder' /\ HoldersWereGranted' /\ InChromeFit'
<1>1. \A q \in before[c] : Conflict(c, q) => q \in resolved
  <2> SUFFICES ASSUME NEW q \in before[c], Conflict(c, q) PROVE q \in resolved
    OBVIOUS
  <2>1. c \in Made
    BY DEF Resolve, Made
  <2>2. PICK d \in awaits[c] : q = d \/ (Conflict(d, q) /\ q \in before[d])
    BY <2>1 DEF Inv, Queue, AwaitsCover
  <2>3. d \in resolved
    BY DEF Resolve
  <2> QED
    BY <2>2, <2>3 DEF Inv, ResolvedInOrder
<1>2. ResolvedInOrder'
  BY <1>1 DEF Resolve, Inv, ResolvedInOrder, Conflict
<1>3. HoldersWereGranted' /\ InChromeFit'
  BY DEF Resolve, Inv, HoldersWereGranted, Holders, InChromeFit
<1> QED
  BY <1>2, <1>3

THEOREM Invariance == Spec => []Inv
<1>1. Init => Inv
  <2> SUFFICES ASSUME Init PROVE Inv
    OBVIOUS
  <2>1. TypeOK
    BY DEF Init, TypeOK, Phase
  <2>2. Made = {} /\ Holders = {}
    BY DEF Init, Made, Holders
  <2> QED
    BY <2>1, <2>2 DEF Init, Inv, Queue, TailsFit, TailsCover, AwaitsCover, InOneOrder,
                      ResolvedInOrder, HoldersWereGranted, InChromeFit
<1>2. Inv /\ TypeOK' /\ [Next]_vars => Inv'
  <2> SUFFICES ASSUME Inv, TypeOK', [Next]_vars PROVE Inv'
    OBVIOUS
  <2> USE DEF Goto
  <2>1. ASSUME NEW c \in Calls, AcquireTabLock(c) \/ AcquireGlobalLock(c) PROVE Inv'
    BY <2>1, MadeKeeps, QueueTab, QueueGlobal DEF Inv
  <2>2. ASSUME NEW c \in Calls, Resolve(c) PROVE Inv'
    <3>1. Made' = Made /\ UNCHANGED <<scope, tab, awaits, tabTail, globalTail, before>>
      BY <2>2 DEF Resolve, Made
    <3> QED
      BY <3>1, <2>2, QueueKept, ResolveKeeps DEF Inv
  <2>3. ASSUME NEW c \in Calls, Granted(c) PROVE Inv'
    <3>1. Made' = Made /\ UNCHANGED <<scope, tab, awaits, tabTail, globalTail, before>>
      BY <2>3 DEF Granted, Made, Inv, TypeOK
    <3>2. ResolvedInOrder' /\ HoldersWereGranted' /\ InChromeFit'
      BY <2>3 DEF Granted, Inv, TypeOK, ResolvedInOrder, HoldersWereGranted, Holders,
                  InChromeFit, Conflict
    <3> QED
      BY <3>1, <3>2, QueueKept DEF Inv
  <2>4. ASSUME NEW c \in Calls,
               \/ AcquireTimeout(c) \/ NoPage(c) \/ AskSession(c) \/ Send(c)
               \/ SessionOpens(c) \/ SessionFails(c) \/ CallTimeout(c) \/ Answer(c)
        PROVE  Inv'
    <3>1. /\ phase[c] \in {"waiting", "holding", "attaching", "sent", "left"}
          /\ phase' \in {[phase EXCEPT ![c] = "left"], [phase EXCEPT ![c] = "sent"],
                         [phase EXCEPT ![c] = "attaching"]}
          /\ UNCHANGED <<scope, tab, awaits, resolved, tabTail, globalTail, before>>
          /\ phase'[c] # "left" => phase[c] \in {"holding", "attaching"}
      BY <2>4 DEF AcquireTimeout, NoPage, AskSession, Send, SessionOpens, SessionFails,
                  CallTimeout, Answer, Inv, TypeOK, InChromeFit
    <3>2. Made' = Made
      BY <3>1 DEF Made, Inv, TypeOK
    <3>3. ResolvedInOrder'
      BY <3>1 DEF Inv, TypeOK, ResolvedInOrder, Conflict
    <3>4. HoldersWereGranted'
      BY <3>1 DEF Inv, TypeOK, HoldersWereGranted, Holders
    <3>5. InChromeFit'
      BY <2>4 DEF AcquireTimeout, NoPage, AskSession, Send, SessionOpens, SessionFails,
                  CallTimeout, Answer, Inv, TypeOK, InChromeFit
    <3> QED
      BY <3>1, <3>2, <3>3, <3>4, <3>5, QueueKept DEF Inv
  <2>5. ASSUME NEW t \in Tabs, ClosePage(t) PROVE Inv'
    <3>1. Made' = Made /\ UNCHANGED <<scope, tab, awaits, tabTail, globalTail, before>>
      BY <2>5 DEF ClosePage, Made, Inv, TypeOK
    <3>2. ResolvedInOrder'
      BY <2>5 DEF ClosePage, Inv, TypeOK, ResolvedInOrder, Conflict
    <3>3. HoldersWereGranted'
      BY <2>5 DEF ClosePage, Inv, TypeOK, HoldersWereGranted, Holders
    <3>4. InChromeFit'
      BY <2>5 DEF ClosePage, Inv, TypeOK, InChromeFit
    <3> QED
      BY <3>1, <3>2, <3>3, <3>4, QueueKept DEF Inv
  <2>6. CASE UNCHANGED vars
    <3>1. Made' = Made /\ UNCHANGED <<scope, tab, awaits, tabTail, globalTail, before>>
      BY <2>6 DEF vars, Made
    <3>2. ResolvedInOrder' /\ HoldersWereGranted' /\ InChromeFit'
      BY <2>6 DEF vars, Inv, ResolvedInOrder, HoldersWereGranted, Holders,
                  InChromeFit, Conflict
    <3> QED
      BY <3>1, <3>2, QueueKept DEF Inv
  <2> QED
    BY <2>1, <2>2, <2>3, <2>4, <2>5, <2>6 DEF Next, CallStep
<1> QED
  BY <1>1, <1>2, TypeCorrect, PTL DEF Spec

-----------------------------------------------------------------------------
(* Nobody is overtaken: when a call holds its lock, the conflicting calls
   made before it have left. *)
THEOREM InOrder == Spec => []FirstComeFirstServed
<1>1. Inv => FirstComeFirstServed
  <2> SUFFICES ASSUME Inv, NEW c \in Holders, NEW q \in before[c], Conflict(c, q)
               PROVE  phase[q] = "left"
    BY DEF FirstComeFirstServed
  <2>1. c \in Made
    BY DEF Holders, Made
  <2>2. PICK d \in awaits[c] : q = d \/ (Conflict(d, q) /\ q \in before[d])
    BY <2>1 DEF Inv, Queue, AwaitsCover
  <2>3. d \in resolved
    BY DEF Inv, HoldersWereGranted
  <2>4. q \in resolved
    BY <2>2, <2>3 DEF Inv, ResolvedInOrder
  <2> QED
    BY <2>4 DEF Inv, ResolvedInOrder
<1> QED
  BY <1>1, Invariance, PTL

(* Two conflicting calls never hold their locks together. *)
THEOREM MutualExclusion == Spec => []Exclusive
<1>1. Inv /\ FirstComeFirstServed => Exclusive
  <2> SUFFICES ASSUME Inv, FirstComeFirstServed,
                      NEW c \in Holders, NEW d \in Holders, Conflict(c, d)
               PROVE  FALSE
    BY DEF Exclusive
  <2>1. c \in Made /\ d \in Made /\ phase[c] # "left" /\ phase[d] # "left"
    BY DEF Holders, Made
  <2>2. c \in before[d] \/ d \in before[c]
    BY <2>1 DEF Inv, Queue, InOneOrder, Conflict
  <2>3. Conflict(d, c)
    BY DEF Conflict
  <2> QED
    BY <2>1, <2>2, <2>3 DEF FirstComeFirstServed
<1> QED
  BY <1>1, Invariance, InOrder, PTL

(* Chromium executes two conflicting commands at once only when the bridge
   has given one of them up. *)
THEOREM CommandsExclude == Spec => []OverlapOnlyWhenLate
<1>1. Inv /\ Exclusive => OverlapOnlyWhenLate
  <2> SUFFICES ASSUME Inv, Exclusive, NEW c \in inChrome, NEW d \in inChrome,
                      Conflict(c, d), c \notin late, d \notin late
               PROVE  FALSE
    BY DEF OverlapOnlyWhenLate
  <2>1. c \in Holders /\ d \in Holders
    BY DEF Inv, TypeOK, InChromeFit, Holders
  <2> QED
    BY <2>1 DEF Exclusive
<1> QED
  BY <1>1, Invariance, MutualExclusion, PTL


-----------------------------------------------------------------------------
(***************************************************************************)
(* The chain is never shut: as long as a promise has not resolved, there   *)
(* is a call whose promise waits for nobody else's.  The argument: calls   *)
(* wait for calls made before them, before is an order, and no more than   *)
(* finitely many calls have been made; so there is a first among those     *)
(* whose promise is not resolved.                                          *)
(***************************************************************************)
InTheirOrder ==
  /\ IsFiniteSet(Made)
  /\ \A c \in Calls : c \notin before[c] /\ awaits[c] \subseteq before[c]
  /\ \A c \in Calls : \A d \in before[c] : before[d] \subseteq before[c]

(* Of the promises of made calls that have not resolved, one waits for
   resolved ones only.  Its call can be granted the lock or time out, or has
   left, or is at work with the lock: nobody waits for somebody who waits for
   him, and the only thing a chain can wait for is work in progress. *)
NeverShut ==
  Made \subseteq resolved \/ \E c \in Made \ resolved : awaits[c] \subseteq resolved

(* A new call comes behind all others. *)
LEMMA OrderMade ==
  ASSUME TypeOK, TailsFit, InTheirOrder, NEW c \in Calls,
         AcquireTabLock(c) \/ AcquireGlobalLock(c)
  PROVE  InTheirOrder'
<1>1. /\ c \notin Made /\ Made' = Made \cup {c}
      /\ before' = [before EXCEPT ![c] = Made]
      /\ \E tails : tails \subseteq Made /\ awaits' = [awaits EXCEPT ![c] = tails]
  <2>1. c \notin Made /\ Made' = Made \cup {c} /\ before' = [before EXCEPT ![c] = Made]
    <3>1. /\ phase[c] = "idle" /\ phase' = [phase EXCEPT ![c] = "waiting"]
          /\ before' = [before EXCEPT ![c] = Made]
      BY DEF AcquireTabLock, AcquireGlobalLock, Goto
    <3> QED
      BY <3>1 DEF Made, TypeOK
  <2>2. TabTails(c) \subseteq Made /\ GlobalTails \subseteq Made
    BY DEF TabTails, GlobalTails, TailsFit, TypeOK
  <2>3. \/ awaits' = [awaits EXCEPT ![c] = TabTails(c)]
        \/ awaits' = [awaits EXCEPT ![c] = GlobalTails]
    BY DEF AcquireTabLock, AcquireGlobalLock
  <2> QED
    BY <2>1, <2>2, <2>3
<1>2. IsFiniteSet(Made')
  BY <1>1, FS_AddElement DEF InTheirOrder
<1>3. \A d \in Calls : before[d] \subseteq Made
  BY DEF TailsFit
<1>4. ASSUME NEW d \in Calls
      PROVE  d \notin before'[d] /\ awaits'[d] \subseteq before'[d]
  BY <1>1 DEF InTheirOrder, TypeOK
<1>5. ASSUME NEW e \in Calls, NEW d \in before'[e]
      PROVE  before'[d] \subseteq before'[e]
  <2>0. before'[e] \subseteq Made /\ Made \subseteq Calls
    BY <1>1, <1>3 DEF TypeOK, Made
  <2>1. d # c /\ d \in Calls /\ before'[d] = before[d]
    BY <1>1, <1>5, <2>0 DEF TypeOK
  <2>2. CASE e = c
    BY <1>1, <1>3, <2>1, <2>2 DEF TypeOK
  <2>3. CASE e # c
    BY <1>1, <2>1, <2>3 DEF InTheirOrder, TypeOK
  <2> QED
    BY <2>2, <2>3
<1> QED
  BY <1>2, <1>4, <1>5 DEF InTheirOrder

(* All other steps leave the queue as it is. *)
LEMMA OrderKept ==
  ASSUME Inv, InTheirOrder,
         \/ \E c \in Calls : CallStep(c) \/ SessionOpens(c) \/ SessionFails(c) \/ Answer(c)
         \/ \E t \in Tabs : ClosePage(t)
         \/ UNCHANGED vars
  PROVE  InTheirOrder'
<1>1. Made' = Made /\ UNCHANGED <<awaits, before>>
  <2> USE DEF Made, Goto, Inv, TypeOK
  <2>1. ASSUME NEW c \in Calls, Resolve(c) \/ Granted(c) \/ AcquireTimeout(c)
        PROVE  Made' = Made /\ UNCHANGED <<awaits, before>>
    BY <2>1 DEF Resolve, Granted, AcquireTimeout
  <2>2. ASSUME NEW c \in Calls,
               \/ NoPage(c) \/ AskSession(c) \/ Send(c) \/ SessionOpens(c)
               \/ SessionFails(c) \/ CallTimeout(c) \/ Answer(c)
        PROVE  Made' = Made /\ UNCHANGED <<awaits, before>>
    BY <2>2 DEF NoPage, AskSession, Send, SessionOpens, SessionFails, CallTimeout,
                Answer, InChromeFit
  <2>3. ASSUME NEW t \in Tabs, ClosePage(t)
        PROVE  Made' = Made /\ UNCHANGED <<awaits, before>>
    BY <2>3 DEF ClosePage
  <2>4. CASE UNCHANGED vars
    BY <2>4 DEF vars
  <2> QED
    BY <2>1, <2>2, <2>3, <2>4 DEF CallStep
<1> QED
  BY <1>1 DEF InTheirOrder

(* Of finitely many calls, ordered by before, one comes first. *)
LEMMA FirstOf ==
  ASSUME InTheirOrder, TailsFit, NEW S \in SUBSET Made, S # {}
  PROVE  \E c \in S : \A d \in S : d \notin before[c]
<1> DEFINE size(c) == Cardinality(before[c])
           Sizes == {size(c) : c \in S}
<1>1. \A c \in S : c \in Calls /\ before[c] \in SUBSET Made
  BY DEF Made, TailsFit
<1>2. \A c \in S : IsFiniteSet(before[c])
  BY <1>1, FS_Subset DEF InTheirOrder
<1>3. \A c \in S : size(c) \in Nat
  BY <1>2, FS_CardinalityType
<1>4. ASSUME NEW c \in S, NEW d \in S, d \in before[c] PROVE size(d) < size(c)
  <2>1. before[d] \in SUBSET before[c] /\ before[d] # before[c]
    BY <1>1, <1>4 DEF InTheirOrder
  <2>2. Cardinality(before[d]) <= Cardinality(before[c])
    BY <1>2, <2>1, FS_Subset
  <2>3. Cardinality(before[d]) # Cardinality(before[c])
    BY <1>2, <2>1, FS_Subset
  <2> QED
    BY <1>3, <2>2, <2>3
<1> HIDE DEF size
<1>5. PICK n \in Sizes : \A m \in Sizes : ~(<<m, n>> \in OpToRel(<, Nat))
  <2>1. Sizes \in SUBSET Nat /\ Sizes # {}
    BY <1>3
  <2> HIDE DEF Sizes
  <2> QED
    BY <2>1, WFMin, NatLessThanWellFounded
<1>6. PICK c \in S : n = size(c)
  OBVIOUS
<1>7. ASSUME NEW d \in S, d \in before[c] PROVE FALSE
  <2>1. size(d) < size(c) /\ size(d) \in Nat /\ size(c) \in Nat
    BY <1>3, <1>4, <1>7
  <2> QED
    BY <1>5, <1>6, <2>1 DEF OpToRel
<1> QED
  BY <1>7

(* However many calls have timed out, were refused a session or lost their
   page, the chain is not shut. *)
THEOREM ChainNeverShut == Spec => []NeverShut
<1>1. Init => InTheirOrder
  BY FS_EmptySet DEF Init, InTheirOrder, Made
<1>2. Inv /\ InTheirOrder /\ [Next]_vars => InTheirOrder'
  BY OrderMade, OrderKept DEF Next, Inv, Queue
<1>3. Inv /\ InTheirOrder => NeverShut
  <2> SUFFICES ASSUME Inv, InTheirOrder, Made \ resolved # {}
               PROVE  \E c \in Made \ resolved : awaits[c] \subseteq resolved
    BY DEF NeverShut
  <2>1. PICK c \in Made \ resolved : \A d \in Made \ resolved : d \notin before[c]
    BY FirstOf DEF Inv, Queue
  <2>2. awaits[c] \subseteq before[c] /\ before[c] \subseteq Made
    BY DEF InTheirOrder, Made, Inv, Queue, TailsFit
  <2> QED
    BY <2>1, <2>2
<1> QED
  BY <1>1, <1>2, <1>3, Invariance, PTL DEF Spec
=============================================================================
