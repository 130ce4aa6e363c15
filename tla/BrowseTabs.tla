----------------------------- MODULE BrowseTabs -----------------------------
(***************************************************************************)
(* The tabs of the browse daemon and the commands that move between them:  *)
(* handleCommandInternal of server.ts, the tab commands of                 *)
(* meta-commands.ts, and the maps of browser-manager.ts with               *)
(* recreateContext, which replaces every tab by a new one                  *)
(* (.agents/skills/gstack/browse/src).                                     *)
(*                                                                         *)
(* A command is an async function: between two awaits it runs alone, and   *)
(* other commands and the page events run in between.  An action is the    *)
(* stretch of code from one await to the next.                             *)
(***************************************************************************)
EXTENDS Integers, Sequences, FiniteSetsExt

CONSTANTS
  Requests,  \* requests that may be in flight together
  Agents,    \* clients with an own-only token
  Root,      \* the client with the root token
  None,
  MaxTab,    \* bound: tab ids 1..MaxTab
  MaxBegun,  \* bound: commands begun
  MaxClosed  \* bound: pages closed by the user or by themselves

ASSUME TabsAssumption ==
  /\ MaxTab \in Nat \ {0} /\ MaxBegun \in Nat /\ MaxClosed \in Nat
  /\ Root \notin Agents
  /\ None \notin Agents \cup {Root} \cup 0..MaxTab

Ids == 1..MaxTab
Clients == Agents \cup {Root}
Owners == Agents \cup {None}

(* What a page is saved as: its tab (history), its flag and its owner. *)
Saved == [tab : Ids, isActive : BOOLEAN, owner : Owners]

(***************************************************************************)
(* Where a request is:                                                     *)
(*   working     in handleReadCommand or handleWriteCommand                *)
(*   opening     newTab awaits context.newPage(); doomed: its context goes *)
(*   closing     closeTab awaits page.close()                              *)
(*   refilling   closeTab awaits newTab(), the last tab being closed       *)
(*   listing, visiting    tab-each                                         *)
(*   saving, emptying, down, up, restoring, blank, fallback                *)
(*               recreateContext: saveState, the pages close, no context,  *)
(*               a new one, restoreState, its newTab(), and the catch      *)
(*   ending      the result is there, the answer is not                    *)
(***************************************************************************)
Recreation == {"saving", "emptying", "down", "up", "restoring", "blank",
               "fallback"}
Phase == {"idle", "working", "opening", "doomed", "closing", "refilling",
          "listing", "visiting", "ending"} \cup Recreation

VARIABLES
  open,    \* the keys of pages and tabSessions
  active,  \* activeTabId; 0 for no tab
  nextTab, \* nextTabId
  owner,   \* tabOwnership
  at,      \* where a request is
  client,  \* whose token it has
  saved,   \* savedTabId
  on,      \* the tab it is at: to close, visited, being saved, to activate
  orig,    \* originalActive of tab-each
  todo,    \* the tabs tab-each still has to visit
  kept,    \* BrowserState.pages of saveState still to restore
  begun,   \* history: how many commands have begun
  closed,  \* history: how many pages have closed by themselves
  opener,  \* history: the agent whose newtab a tab, or the one it replaces, is
  tidy,    \* history: the requests that are to leave the active tab as it was
  chosen,  \* history: the active tab but for those
  mixed,   \* history: requests, or page events, came in between
  lost     \* history: a command ended with activeTabId at a tab that has gone

request == <<client, saved, on, orig, todo, kept>>
vars == <<open, active, nextTab, owner, at, request, begun, closed, opener,
          tidy, chosen, mixed, lost>>

TypeOK ==
  /\ open \subseteq Ids
  /\ active \in Ids \cup {0}
  /\ nextTab \in 1..(MaxTab + 1)
  /\ owner \in [Ids -> Owners]
  /\ at \in [Requests -> Phase]
  /\ client \in [Requests -> Clients]
  /\ saved \in [Requests -> Ids \cup {0, None}]
  /\ on \in [Requests -> Ids \cup {0, None}]
  /\ orig \in [Requests -> Ids \cup {0, None}]
  /\ todo \in [Requests -> SUBSET Ids]
  /\ kept \in [Requests -> Seq(Saved)]
  /\ begun \in 0..MaxBegun /\ closed \in 0..MaxClosed
  /\ opener \in [Ids -> Owners]
  /\ tidy \subseteq Requests /\ chosen \in Ids \cup {0} /\ mixed \in BOOLEAN
  /\ lost \in BOOLEAN

(* The browser is launched with one tab, which nobody owns. *)
Init ==
  /\ open = {1} /\ active = 1 /\ nextTab = 2
  /\ owner = [t \in Ids |-> None]
  /\ at = [r \in Requests |-> "idle"]
  /\ client = [r \in Requests |-> Root]
  /\ saved = [r \in Requests |-> None]
  /\ on = [r \in Requests |-> None]
  /\ orig = [r \in Requests |-> None]
  /\ todo = [r \in Requests |-> {}]
  /\ kept = [r \in Requests |-> <<>>]
  /\ begun = 0 /\ closed = 0
  /\ opener = [t \in Ids |-> None]
  /\ tidy = {} /\ chosen = 1 /\ mixed = FALSE
  /\ lost = FALSE

Recreating == \E r \in Requests : at[r] \in Recreation
Room == nextTab <= MaxTab

Goto(r, phase) == at' = [at EXCEPT ![r] = phase]
Put(f, r, v) == [f EXCEPT ![r] = v]

Quiet == \A r \in Requests : at[r] = "idle"

(* switchTab: unknown tabs are refused, the active one stays. *)
Switched(t, otherwise) == IF t \in open THEN t ELSE otherwise

(* Mutation: the tab in front of the user has closed, the id stays. *)
AfterCloseStays(t, rest) == active

(* The active tab once the page of t has closed; keys are in the order of the ids. *)
AfterClose(t, rest) ==
  IF active # t THEN active ELSE IF rest = {} THEN 0 ELSE Max(rest)

(* Mutation: the tabs are counted, so an id comes back. *)
MakeTabCounting(c) ==
  LET id == IF open = {} THEN 1 ELSE Max(open) + 1 IN
  /\ nextTab' = nextTab + 1
  /\ open' = open \cup {id}
  /\ owner' = IF c = Root THEN owner ELSE [owner EXCEPT ![id] = c]
  /\ opener' = [opener EXCEPT ![id] = IF c = Root THEN None ELSE c]

(* A tab is made: the id, the maps, the active tab and the owner. *)
MakeTab(c) ==
  /\ nextTab' = nextTab + 1
  /\ open' = open \cup {nextTab}
  /\ owner' = IF c = Root THEN owner ELSE [owner EXCEPT ![nextTab] = c]
  /\ opener' = [opener EXCEPT ![nextTab] = IF c = Root THEN None ELSE c]

-----------------------------------------------------------------------------
(* handleCommandInternal up to the dispatch. *)
PinTo(p) == IF p = None THEN active ELSE Switched(p, active)
Target(p) == IF p = None THEN active ELSE p

(* checkTabAccess for an own-only token. *)
Allowed(c, t) == c = Root \/ (t \in Ids /\ owner[t] = c)

Begin(r, c, p, phase) ==
  /\ at[r] = "idle"
  /\ client' = Put(client, r, c)
  /\ saved' = Put(saved, r, IF p = None THEN None ELSE active)
  /\ orig' = Put(orig, r, None)
  /\ Goto(r, phase)
  /\ UNCHANGED <<todo, kept, lost>>

(* A 403 returns before the tab that was pinned is unpinned. *)
Refuse(r, c, p) ==
  /\ at[r] = "idle" /\ ~Allowed(c, Target(p))
  /\ active' = PinTo(p)
  /\ UNCHANGED <<open, nextTab, owner, at, request, opener, lost>>

(* So does help, once there is a session. *)
Help(r, c, p) ==
  /\ at[r] = "idle" /\ Allowed(c, Target(p)) /\ PinTo(p) \in open
  /\ active' = PinTo(p)
  /\ UNCHANGED <<open, nextTab, owner, at, request, opener, lost>>

(* Every command but an agent's newtab needs a session first. *)
Dispatched(r, c, p) == Allowed(c, Target(p)) /\ PinTo(p) \in open

Work(r, c, p) ==
  /\ Dispatched(r, c, p)
  /\ Begin(r, c, p, "working")
  /\ on' = Put(on, r, PinTo(p))
  /\ active' = PinTo(p)
  /\ UNCHANGED <<open, nextTab, owner, opener>>

SwitchTab(r, c, p, t) ==
  /\ Dispatched(r, c, p)
  /\ Begin(r, c, p, "ending")
  /\ on' = Put(on, r, None)
  /\ active' = Switched(t, PinTo(p))
  /\ UNCHANGED <<open, nextTab, owner, opener>>

(* newtab: an agent's returns before the pinned tab is unpinned. *)
NewTab(r, c, p) ==
  /\ c = Root => PinTo(p) \in open
  /\ ~\E q \in Requests : at[q] = "down"
  /\ IF c = Root
     THEN Begin(r, c, p, "opening")
     ELSE Begin(r, c, None, "opening")
  /\ on' = Put(on, r, None)
  /\ active' = PinTo(p)
  /\ UNCHANGED <<open, nextTab, owner, opener>>

CloseTab(r, c, p, t) ==
  /\ Dispatched(r, c, p) /\ t \in open
  /\ Begin(r, c, p, "closing")
  /\ on' = Put(on, r, t)
  /\ active' = PinTo(p)
  /\ UNCHANGED <<open, nextTab, owner, opener>>

TabEach(r, c, p) ==
  /\ Dispatched(r, c, p)
  /\ Begin(r, c, p, "listing")
  /\ on' = Put(on, r, None)
  /\ active' = PinTo(p)
  /\ UNCHANGED <<open, nextTab, owner, opener>>

(* useragent and viewport --scale.  Bound: one recreation at a time. *)
Recreate(r, c, p) ==
  /\ Dispatched(r, c, p) /\ ~Recreating
  /\ Begin(r, c, p, "saving")
  /\ on' = Put(on, r, Min(open))
  /\ active' = PinTo(p)
  /\ UNCHANGED <<open, nextTab, owner, opener>>

(* Pinned commands, and those that are not about tabs, are to be tidy. *)
BeginTidy(r, c, p) ==
  /\ \/ p # None /\ c = Root /\ NewTab(r, c, p)
     \/ p # None /\ Recreate(r, c, p)
     \/ p # None /\ \E t \in open : SwitchTab(r, c, p, t) \/ CloseTab(r, c, p, t)
     \/ Work(r, c, p)
     \/ TabEach(r, c, p)
  /\ tidy' = tidy \cup {r}
  /\ chosen' = IF Quiet THEN active ELSE chosen

BeginOpen(r, c, p) ==
  /\ \/ Refuse(r, c, p) \/ Help(r, c, p)
     \/ (c = Root => p = None) /\ NewTab(r, c, p)
     \/ p = None /\ Recreate(r, c, p)
     \/ p = None /\ \E t \in open : SwitchTab(r, c, p, t) \/ CloseTab(r, c, p, t)
  /\ UNCHANGED tidy
  /\ chosen' = IF active' # active THEN active' ELSE IF Quiet THEN active ELSE chosen

BeginAny(r) ==
  /\ begun < MaxBegun /\ begun' = begun + 1
  /\ mixed' = ~Quiet
  /\ UNCHANGED closed
  /\ \E c \in Clients, p \in (1..(nextTab - 1)) \cup {None} :
       BeginTidy(r, c, p) \/ BeginOpen(r, c, p)

-----------------------------------------------------------------------------
(* The end of a command, with a result or with an error: unpin; what the
   command knew is gone. *)
Forget(r) ==
  /\ client' = Put(client, r, Root)
  /\ saved' = Put(saved, r, None)
  /\ on' = Put(on, r, None)
  /\ orig' = Put(orig, r, None)
  /\ todo' = Put(todo, r, {})
  /\ kept' = Put(kept, r, <<>>)

(* Mutation: only a success unpins. *)
EndKeepingPin(r) ==
  /\ at[r] = "ending"
  /\ Goto(r, "idle") /\ Forget(r)
  /\ active' \in {Switched(saved[r], active), active}
  /\ UNCHANGED <<open, nextTab, owner, opener, lost>>

End(r) ==
  /\ at[r] = "ending"
  /\ Goto(r, "idle") /\ Forget(r)
  /\ active' = Switched(saved[r], active)
  /\ UNCHANGED <<open, nextTab, owner, opener, lost>>

WorkDone(r) ==
  /\ at[r] = "working"
  /\ Goto(r, "ending")
  /\ UNCHANGED <<open, active, nextTab, owner, request, opener, lost>>

(* BROWSE_CONTENT_FILTER=block: an agent's reading of a page the filter
   objects to is answered 403, and the tab it was pinned to stays active. *)
Blocked(r) ==
  /\ at[r] = "working" /\ client[r] # Root
  /\ Goto(r, "idle") /\ Forget(r)
  /\ tidy' = tidy \ {r}
  /\ chosen' = IF saved[r] = None THEN chosen ELSE active
  /\ UNCHANGED <<open, active, nextTab, owner, opener, begun, closed, mixed, lost>>

(* newPage resolves.  A later failure of the navigation leaves the tab. *)
NewTabDone(r) ==
  /\ at[r] \in {"opening", "refilling"} /\ Room
  /\ MakeTab(IF at[r] = "opening" THEN client[r] ELSE Root)
  /\ active' = nextTab
  /\ lost' = FALSE
  /\ Goto(r, "ending")
  /\ UNCHANGED request

NewTabFails(r) ==
  /\ at[r] \in {"opening", "refilling", "doomed"}
  /\ Goto(r, "ending")
  /\ lost' = (lost \/ active \notin open \cup {0})
  /\ UNCHANGED <<open, active, nextTab, owner, request, opener>>

(* page.close() resolves.  Playwright may have delivered the close event of
   the page, or deliver it later, when the page is no longer found. *)
CloseTabDone(r) ==
  LET t == on[r]  rest == open \ {t} IN
  /\ at[r] = "closing"
  /\ open' = rest
  /\ owner' = [owner EXCEPT ![t] = None]
  /\ active' = IF active = t /\ rest # {} THEN Max(rest) ELSE active
  /\ Goto(r, IF active = t /\ rest = {} THEN "refilling" ELSE "ending")
  /\ UNCHANGED <<nextTab, request, opener, lost>>

(* tab-each: the titles are read, then every tab listed is visited.  Inside,
   a pinned command runs: pinned to the tab it is on, so unpinned to it. *)
EachList(r) ==
  /\ at[r] = "listing"
  /\ orig' = Put(orig, r, active)
  /\ todo' = Put(todo, r, open)
  /\ on' = Put(on, r, active)
  /\ Goto(r, "visiting")
  /\ UNCHANGED <<open, active, nextTab, owner, client, saved, kept, opener, lost>>

EachVisit(r) ==
  /\ at[r] = "visiting" /\ todo[r] # {} /\ Min(todo[r]) \in open
  /\ active' = Min(todo[r])
  /\ on' = Put(on, r, Min(todo[r]))
  /\ todo' = [todo EXCEPT ![r] = @ \ {Min(@)}]
  /\ UNCHANGED <<open, nextTab, owner, at, client, saved, orig, kept, opener, lost>>

(* The last tab was visited, or the next one has gone and switchTab throws. *)
EachDone(r) ==
  /\ at[r] = "visiting" /\ (todo[r] # {} => Min(todo[r]) \notin open)
  /\ active' = Switched(orig[r], Switched(on[r], active))
  /\ todo' = Put(todo, r, {})
  /\ Goto(r, "ending")
  /\ UNCHANGED <<open, nextTab, owner, client, saved, on, orig, kept, opener, lost>>

-----------------------------------------------------------------------------
(***************************************************************************)
(* recreateContext.                                                        *)
(***************************************************************************)
(* saveState has read the storage of a page, open or not by now. *)
SavePage(r) ==
  LET later == {t \in open : t > on[r]} IN
  /\ at[r] = "saving"
  /\ kept' = [kept EXCEPT ![r] =
                Append(@, [tab |-> on[r], isActive |-> on[r] = active,
                           owner |-> owner[on[r]]])]
  /\ IF later # {} THEN on' = Put(on, r, Min(later)) /\ UNCHANGED at
                   ELSE UNCHANGED on /\ Goto(r, "emptying")
  /\ UNCHANGED <<open, active, nextTab, owner, client, saved, orig, todo, opener, lost>>

(* The pages close one after the other, those opened meanwhile too. *)
EmptyPage(r) ==
  LET t == Min(open) IN
  /\ at[r] = "emptying" /\ open # {}
  /\ open' = open \ {t}
  /\ active' = AfterClose(t, open \ {t})
  /\ UNCHANGED <<nextTab, owner, at, request, opener, lost>>

(* The context closes, and with it what was opened since. *)
Doom(r, phase) ==
  at' = [q \in Requests |-> IF q = r THEN phase
                            ELSE IF at[q] \in {"opening", "refilling"} THEN "doomed"
                            ELSE at[q]]

CloseContext(r) ==
  /\ at[r] = "emptying" /\ open = {}
  /\ Doom(r, "down")
  /\ UNCHANGED <<open, active, nextTab, owner, request, opener, lost>>

NewContext(r) ==
  /\ at[r] = "down"
  /\ Goto(r, "up")
  /\ UNCHANGED <<open, active, nextTab, owner, request, opener, lost>>

(* restoreState: the cookies are in; the owners of the old ids go. *)
StartRestore(r) ==
  /\ at[r] = "up"
  /\ owner' = [t \in Ids |-> None]
  /\ on' = Put(on, r, None)
  /\ Goto(r, "restoring")
  /\ UNCHANGED <<open, active, nextTab, client, saved, orig, todo, kept, opener, lost>>

(* One page comes back under a new id.  An address that is no longer valid
   skips the rest of the loop's body, the active flag included. *)
RestorePage(r) ==
  LET page == Head(kept[r]) IN
  /\ at[r] = "restoring" /\ kept[r] # <<>> /\ Room
  /\ nextTab' = nextTab + 1
  /\ open' = open \cup {nextTab}
  /\ owner' = IF page.owner = None THEN owner
              ELSE [owner EXCEPT ![nextTab] = page.owner]
  /\ opener' = [opener EXCEPT ![nextTab] = opener[page.tab]]
  /\ \/ page.isActive /\ on' = Put(on, r, nextTab)
     \/ UNCHANGED on
  /\ kept' = [kept EXCEPT ![r] = Tail(@)]
  /\ UNCHANGED <<active, at, client, saved, orig, todo, lost>>

RestoreDone(r) ==
  LET first == IF on[r] # None THEN on[r] ELSE Min(open) IN
  /\ at[r] = "restoring" /\ kept[r] = <<>>
  /\ \/ open = {} /\ Goto(r, "blank") /\ UNCHANGED active
     \/ open # {} /\ first \in open /\ Goto(r, "ending") /\ active' = first
  /\ UNCHANGED <<open, nextTab, owner, request, opener, lost>>

(* The tab that was to be active has closed again: clearRefs throws, and the
   catch clears the maps and replaces the context. *)
RestoreThrows(r) ==
  /\ at[r] = "restoring" /\ kept[r] = <<>>
  /\ open # {} /\ on[r] # None /\ on[r] \notin open
  /\ active' = on[r]
  /\ open' = {}
  /\ Doom(r, "fallback")
  /\ UNCHANGED <<nextTab, owner, request, opener, lost>>

(* newTab() of restoreState and of the fallback. *)
BlankTab(r) ==
  /\ at[r] \in {"blank", "fallback"} /\ Room
  /\ MakeTab(Root)
  /\ active' = nextTab
  /\ lost' = FALSE
  /\ Goto(r, "ending")
  /\ UNCHANGED request

(* Any of it may throw: the maps are cleared, the context replaced. *)
RecreateFails(r) ==
  /\ at[r] \in Recreation \ {"fallback"}
  /\ open' = {}
  /\ kept' = Put(kept, r, <<>>)
  /\ Doom(r, "fallback")
  /\ UNCHANGED <<active, nextTab, owner, client, saved, on, orig, todo, opener, lost>>

(* "If even the fallback fails, we're in trouble" *)
FallbackFails(r) ==
  /\ at[r] = "fallback"
  /\ lost' = TRUE
  /\ Goto(r, "ending")
  /\ UNCHANGED <<open, active, nextTab, owner, request, opener>>

-----------------------------------------------------------------------------
(* The close event of a page the user, or the page itself, has closed. *)
PageCloses(t) ==
  /\ t \in open
  /\ closed < MaxClosed /\ closed' = closed + 1
  /\ open' = open \ {t}
  /\ active' = AfterClose(t, open \ {t})
  /\ mixed' = (mixed \/ ~Quiet)
  /\ chosen' = IF Quiet THEN active' ELSE chosen
  /\ UNCHANGED <<nextTab, owner, at, request, begun, opener, tidy, lost>>

StepOf(r) ==
  \/ End(r) \/ WorkDone(r) \/ NewTabDone(r) \/ NewTabFails(r) \/ CloseTabDone(r)
  \/ EachList(r) \/ EachVisit(r) \/ EachDone(r)
  \/ SavePage(r) \/ EmptyPage(r) \/ CloseContext(r) \/ NewContext(r)
  \/ StartRestore(r) \/ RestorePage(r) \/ RestoreDone(r) \/ RestoreThrows(r)
  \/ BlankTab(r) \/ RecreateFails(r) \/ FallbackFails(r)

Step(r) ==
  /\ StepOf(r)
  /\ tidy' = IF at'[r] = "idle" THEN tidy \ {r} ELSE tidy
  /\ chosen' = IF r \in tidy \/ active' = active THEN chosen ELSE active'
  /\ UNCHANGED <<begun, closed, mixed>>

Next ==
  \/ \E r \in Requests : BeginAny(r) \/ Step(r) \/ Blocked(r)
  \/ \E t \in Ids : PageCloses(t)

Spec == Init /\ [][Next]_vars

-----------------------------------------------------------------------------
(***************************************************************************)
(* Properties.                                                             *)
(***************************************************************************)
(* "Without this reset, old tabId -> clientId entries would linger and match
   new tabs with the same sequential IDs": the agent a tab belongs to is the
   one that opened it, or opened the tab it replaces, whatever was closed,
   kept in tabOwnership or recreated in between. *)
OwnerOpenedIt == \A t \in open : owner[t] # None => owner[t] = opener[t]

(* The active tab has a session, or every command that is not pinned fails:
   only while the context is replaced, or a closed last tab is, may it be gone,
   and after neither a new tab nor the fallback could be had. *)
ActiveOpen ==
  \/ active \in open
  \/ active = 0 /\ open = {}
  \/ Recreating
  \/ \E r \in Requests : at[r] \in {"refilling", "doomed"}
  \/ lost

(* "Restore original active tab even on error": requests that came one after
   the other, with pins, tab-each and recreations among them, leave the tab
   active that was chosen last, as long as it is open.  What answers without
   unpinning chooses the tab it was pinned to: a refusal, help, an agent's
   newtab, and a page whose content is blocked. *)
Undone == Quiet /\ ~mixed /\ chosen \in open => active = chosen

(* "This prevents parallel agents from interfering with each other's tab
   context.  Safe because Bun's event loop is single-threaded": the same of
   requests in flight together.  Does not hold. *)
PinsLeaveNoTrace == Quiet /\ chosen \in open => active = chosen

=============================================================================
