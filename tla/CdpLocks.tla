------------------------------ MODULE CdpLocks ------------------------------
(***************************************************************************)
(* The two tiers of locks under the CDP bridge of the browse daemon:       *)
(* acquireTabLock and acquireGlobalCdpLock of browser-manager.ts, called   *)
(* by dispatchCdpCall of cdp-bridge.ts (.agents/skills/gstack/browse/src). *)
(*                                                                         *)
(* A lock is a chain of promises.  Every call leaves a promise behind it   *)
(* as the tail of its chain; the promise resolves when the promises the    *)
(* call waits for have resolved and the call has released.  A call that    *)
(* does not get the lock in time releases its place and gives up, but its  *)
(* promise goes on waiting for those before it, or a later call would      *)
(* enter beside them.                                                      *)
(***************************************************************************)
EXTENDS FiniteSets

CONSTANTS
  Calls,   \* calls of dispatchCdpCall
  Tabs,    \* tab ids, never used twice
  None     \* no tail yet: a resolved promise

ASSUME NoneAssumption == None \notin Calls

(***************************************************************************)
(* Where a call is:                                                        *)
(*   idle      not made yet                                                *)
(*   waiting   in Promise.race of the tail and the timer                   *)
(*   holding   has the lock, looks for its page and the session cached     *)
(*   attaching has the lock, awaits newCDPSession: this await alone has no *)
(*             timer                                                       *)
(*   sent      has the lock, its command is with Chromium                  *)
(*   left      has released: answered, failed, or never had the lock       *)
(***************************************************************************)
Phase == {"idle", "waiting", "holding", "attaching", "sent", "left"}
Scope == {"tab", "browser"}

VARIABLES
  phase,
  scope,      \* of the method called: which tier it takes
  tab,        \* the tab a call is for
  awaits,     \* the calls whose promises a call waits for
  resolved,   \* the calls whose promise has resolved
  tabTail,    \* tabLocks: the last call in the chain of a tab
  globalTail, \* globalCdpLockTail: the last call in the global chain
  open,       \* the tabs that have a page
  attached,   \* sessionCache: the tabs whose page has a session
  inChrome,   \* the calls whose command Chromium is executing
  before,     \* history: the calls made before a call
  late        \* history: the calls that gave up waiting for Chromium

vars == <<phase, scope, tab, awaits, resolved, tabTail, globalTail, open,
          attached, inChrome, before, late>>

TypeOK ==
  /\ phase \in [Calls -> Phase]
  /\ scope \in [Calls -> Scope]
  /\ tab \in [Calls -> Tabs]
  /\ awaits \in [Calls -> SUBSET Calls]
  /\ resolved \subseteq Calls
  /\ tabTail \in [Tabs -> Calls \cup {None}]
  /\ globalTail \in Calls \cup {None}
  /\ open \subseteq Tabs
  /\ attached \subseteq Tabs
  /\ inChrome \subseteq Calls
  /\ before \in [Calls -> SUBSET Calls]
  /\ late \subseteq Calls

Init ==
  /\ phase = [c \in Calls |-> "idle"]
  /\ scope \in [Calls -> Scope]
  /\ tab \in [Calls -> Tabs]
  /\ awaits = [c \in Calls |-> {}]
  /\ resolved = {}
  /\ tabTail = [t \in Tabs |-> None]
  /\ globalTail = None
  /\ open = Tabs
  /\ attached = {}
  /\ inChrome = {}
  /\ before = [c \in Calls |-> {}]
  /\ late = {}

Goto(c, to) == phase' = [phase EXCEPT ![c] = to]

Holders == {c \in Calls : phase[c] \in {"holding", "attaching", "sent"}}
Made == {c \in Calls : phase[c] # "idle"}

(* Two calls that must not hold their locks together. *)
Conflict(c, d) ==
  c # d /\ (scope[c] = "browser" \/ scope[d] = "browser" \/ tab[c] = tab[d])

-----------------------------------------------------------------------------
(* acquireTabLock: behind the chain of the tab and behind the global one. *)
TabTails(c) == {tabTail[tab[c]], globalTail} \ {None}

(* acquireGlobalCdpLock: behind the global chain and behind every tab's. *)
GlobalTails == ({globalTail} \cup {tabTail[t] : t \in Tabs}) \ {None}

(* Mutation: a tab does not look at the global chain. *)
AcquireTabLockOnly(c) ==
  /\ phase[c] = "idle" /\ scope[c] = "tab"
  /\ awaits' = [awaits EXCEPT ![c] = {tabTail[tab[c]]} \ {None}]
  /\ tabTail' = [tabTail EXCEPT ![tab[c]] = c]
  /\ before' = [before EXCEPT ![c] = Made]
  /\ Goto(c, "waiting")
  /\ UNCHANGED <<scope, tab, resolved, globalTail, open, attached, inChrome,
                 late>>

AcquireTabLock(c) ==
  /\ phase[c] = "idle" /\ scope[c] = "tab"
  /\ awaits' = [awaits EXCEPT ![c] = TabTails(c)]
  /\ tabTail' = [tabTail EXCEPT ![tab[c]] = c]
  /\ before' = [before EXCEPT ![c] = Made]
  /\ Goto(c, "waiting")
  /\ UNCHANGED <<scope, tab, resolved, globalTail, open, attached, inChrome,
                 late>>

AcquireGlobalLock(c) ==
  /\ phase[c] = "idle" /\ scope[c] = "browser"
  /\ awaits' = [awaits EXCEPT ![c] = GlobalTails]
  /\ globalTail' = c
  /\ before' = [before EXCEPT ![c] = Made]
  /\ Goto(c, "waiting")
  /\ UNCHANGED <<scope, tab, resolved, tabTail, open, attached, inChrome,
                 late>>

(* Mutation: the promise left behind is `next` alone. *)
ResolveOnRelease(c) ==
  /\ phase[c] = "left" /\ c \notin resolved
  /\ resolved' = resolved \cup {c}
  /\ UNCHANGED <<phase, scope, tab, awaits, tabTail, globalTail, open, attached,
                 inChrome, before, late>>

(* The promise a call left behind: tail.then(() => next). *)
Resolve(c) ==
  /\ phase[c] = "left" /\ c \notin resolved
  /\ awaits[c] \subseteq resolved
  /\ resolved' = resolved \cup {c}
  /\ UNCHANGED <<phase, scope, tab, awaits, tabTail, globalTail, open, attached,
                 inChrome, before, late>>

Granted(c) ==
  /\ phase[c] = "waiting"
  /\ awaits[c] \subseteq resolved
  /\ Goto(c, "holding")
  /\ UNCHANGED <<scope, tab, awaits, resolved, tabTail, globalTail, open, attached,
                 inChrome, before, late>>

(* Mutation: without the catch the timed-out call keeps its place: its
   promise waits for itself. *)
AcquireTimeoutKeepsPlace(c) ==
  /\ phase[c] = "waiting"
  /\ awaits' = [awaits EXCEPT ![c] = @ \cup {c}]
  /\ Goto(c, "left")
  /\ UNCHANGED <<scope, tab, resolved, tabTail, globalTail, open, attached,
                 inChrome, before, late>>

(* CDPMutexAcquireTimeout: the place is released, the error thrown. *)
AcquireTimeout(c) ==
  /\ phase[c] = "waiting"
  /\ Goto(c, "left")
  /\ UNCHANGED <<scope, tab, awaits, resolved, tabTail, globalTail, open, attached,
                 inChrome, before, late>>

-----------------------------------------------------------------------------
(* Mutation: the lock is released before the command is answered. *)
SendAndRelease(c) ==
  /\ phase[c] = "holding" /\ tab[c] \in open \cap attached
  /\ inChrome' = inChrome \cup {c}
  /\ Goto(c, "left")
  /\ UNCHANGED <<scope, tab, awaits, resolved, tabTail, globalTail, open, attached,
                 before, late>>

(* The page has a session already: the command goes to Chromium. *)
Send(c) ==
  /\ phase[c] = "holding" /\ tab[c] \in open \cap attached
  /\ inChrome' = inChrome \cup {c}
  /\ Goto(c, "sent")
  /\ UNCHANGED <<scope, tab, awaits, resolved, tabTail, globalTail, open, attached,
                 before, late>>

(* No page for the tab: the error is thrown and the finally block releases. *)
NoPage(c) ==
  /\ phase[c] = "holding" /\ tab[c] \notin open
  /\ Goto(c, "left")
  /\ UNCHANGED <<scope, tab, awaits, resolved, tabTail, globalTail, open, attached,
                 inChrome, before, late>>

(* getCdpSession: the first call for a page asks for a session ... *)
AskSession(c) ==
  /\ phase[c] = "holding" /\ tab[c] \in open \ attached
  /\ Goto(c, "attaching")
  /\ UNCHANGED <<scope, tab, awaits, resolved, tabTail, globalTail, open, attached,
                 inChrome, before, late>>

(* ... and sends its command when it has one, ... *)
SessionOpens(c) ==
  /\ phase[c] = "attaching" /\ tab[c] \in open
  /\ attached' = attached \cup {tab[c]}
  /\ inChrome' = inChrome \cup {c}
  /\ Goto(c, "sent")
  /\ UNCHANGED <<scope, tab, awaits, resolved, tabTail, globalTail, open,
                 before, late>>

(* ... or fails and releases, ... *)
SessionFails(c) ==
  /\ phase[c] = "attaching"
  /\ Goto(c, "left")
  /\ UNCHANGED <<scope, tab, awaits, resolved, tabTail, globalTail, open, attached,
                 inChrome, before, late>>

(* Chromium has executed the command; if the call is still there it is
   answered and releases. *)
Answer(c) ==
  /\ c \in inChrome
  /\ inChrome' = inChrome \ {c}
  /\ phase' = [phase EXCEPT ![c] = "left"]
  /\ UNCHANGED <<scope, tab, awaits, resolved, tabTail, globalTail, open, attached,
                 before, late>>

(* CDPBridgeTimeout: the call gives up, Chromium does not. *)
CallTimeout(c) ==
  /\ phase[c] = "sent"
  /\ late' = late \cup {c}
  /\ Goto(c, "left")
  /\ UNCHANGED <<scope, tab, awaits, resolved, tabTail, globalTail, open, attached,
                 inChrome, before>>

(* A page closes: commands on it are rejected, so the calls that wait for
   them release.  (The tail of a closed tab stays in tabLocks.) *)
ClosePage(t) ==
  /\ t \in open
  /\ open' = open \ {t}
  /\ attached' = attached \ {t}
  /\ inChrome' = {c \in inChrome : tab[c] # t}
  /\ phase' = [c \in Calls |->
                 IF phase[c] = "sent" /\ tab[c] = t THEN "left" ELSE phase[c]]
  /\ UNCHANGED <<scope, tab, awaits, resolved, tabTail, globalTail, before, late>>

CallStep(c) ==
  \/ Resolve(c) \/ Granted(c) \/ AcquireTimeout(c)
  \/ NoPage(c) \/ AskSession(c) \/ Send(c) \/ CallTimeout(c)

Next ==
  \/ \E c \in Calls :
       \/ AcquireTabLock(c) \/ AcquireGlobalLock(c)
       \/ CallStep(c)
       \/ SessionOpens(c) \/ SessionFails(c)
       \/ Answer(c)
  \/ \E t \in Tabs : ClosePage(t)

(* Timers fire and promises resolve; Chromium need not answer, neither a
   command nor the request for a session, and no call need be made. *)
Spec == Init /\ [][Next]_vars /\ \A c \in Calls : WF_vars(CallStep(c))

-----------------------------------------------------------------------------
(***************************************************************************)
(* Properties.                                                             *)
(***************************************************************************)

(* "Per-tab and global locks for the CDP bridge": two calls on one tab, or a
   browser-wide call and any other, never hold their locks together, however
   many calls have timed out between them. *)
Exclusive == \A c, d \in Holders : ~Conflict(c, d)

(* "Locks chain": whoever holds a lock, no conflicting call made before it is
   still at work or in the queue, so none is overtaken. *)
FirstComeFirstServed ==
  \A c \in Holders : \A d \in before[c] : Conflict(c, d) => phase[d] = "left"

(* What the locks are for: Chromium executes two conflicting commands at once
   only when the bridge gave one of them up. *)
OverlapOnlyWhenLate ==
  \A c, d \in inChrome : Conflict(c, d) => c \in late \/ d \in late

(* A session is not awaited for ever. *)
SessionsAnswer == \A d \in Calls : []<>(phase[d] # "attaching")

(* "No silent hangs": no call waits for ever for its lock, not even behind one
   whose session never comes; and unless a session never comes, every call
   leaves and its place in the chain opens, so the chain does not stay closed
   behind calls that timed out. *)
ChainOpens ==
  /\ \A c \in Calls : phase[c] = "waiting" ~> phase[c] \in {"attaching", "left"}
  /\ SessionsAnswer => \A c \in Calls : phase[c] = "waiting" ~> c \in resolved

=============================================================================
