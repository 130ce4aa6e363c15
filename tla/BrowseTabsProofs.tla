-------------------------- MODULE BrowseTabsProofs --------------------------
(***************************************************************************)
(* The owners of the tabs and the active tab, for any number of requests   *)
(* in flight, of clients and of tabs.                                      *)
(*                                                                         *)
(* The argument for the owners: an id from nextTab on has no owner, and    *)
(* what saveState keeps of an owner is what opened the tab it keeps        *)
(* (OwnersFit), so an id given out anew inherits from nobody.  For the     *)
(* active tab: one recreation at a time, and no tab is active without one  *)
(* being open only until restoreState has come to its end (ActiveFit).     *)
(* The argument for what pinned commands leave is given with it.           *)
(***************************************************************************)
EXTENDS BrowseTabs, WellFoundedInduction, TLAPS

(* What a recreation is at is a tab while it saves and restores. *)
OnATab ==
  \A r \in Requests :
    /\ at[r] = "saving" => on[r] \in Ids
    /\ at[r] = "restoring" => on[r] \in Ids \cup {None}

Typed == TypeOK /\ OnATab

OwnersFit ==
  /\ \A t \in Ids : owner[t] # None => t < nextTab /\ owner[t] = opener[t]
  /\ \A r \in Requests : \A i \in DOMAIN kept[r] :
       kept[r][i].owner # None =>
         kept[r][i].tab < nextTab /\ opener[kept[r][i].tab] = kept[r][i].owner

OneRecreation ==
  \A q, r \in Requests : at[q] \in Recreation /\ at[r] \in Recreation => q = r

NoTabNoneActive ==
  active = 0 => open = {} \/ \E r \in Requests : at[r] = "restoring"

ActiveFit == ActiveOpen /\ OneRecreation /\ NoTabNoneActive

-----------------------------------------------------------------------------
(* A set of natural numbers has a least element. *)
LEMMA Least ==
  ASSUME NEW T \in SUBSET Nat, T # {}
  PROVE  \E x \in T : \A y \in T : x <= y
<1>1. PICK x \in T : \A y \in T : ~(<<y, x>> \in OpToRel(<, Nat))
  BY WFMin, NatLessThanWellFounded
<1>2. \A y \in T : ~(y < x)
  BY <1>1 DEF OpToRel
<1> QED
  BY <1>2

(* The least of a set of tabs is one of them, *)
LEMMA MinIn ==
  ASSUME NEW T \in SUBSET Ids, T # {}
  PROVE  Min(T) \in T
<1>1. \E x \in T : \A y \in T : x <= y
  BY Least DEF Ids
<1> QED
  BY <1>1 DEF Min

(* and so is the greatest. *)
LEMMA MaxIn ==
  ASSUME NEW T \in SUBSET Ids, T # {}
  PROVE  Max(T) \in T
<1> DEFINE Up == {MaxTab - t : t \in T}
<1>1. PICK u \in Up : \A v \in Up : u <= v
  <2>1. Up \in SUBSET Nat /\ Up # {}
    <3>1. \A t \in T : MaxTab - t \in Nat
      BY TabsAssumption DEF Ids
    <3>2. PICK t \in T : TRUE
      OBVIOUS
    <3> QED
      BY <3>1, <3>2
  <2> HIDE DEF Up
  <2> QED
    BY <2>1, Least
<1>2. PICK x \in T : u = MaxTab - x
  OBVIOUS
<1>3. \A y \in T : x >= y
  BY <1>1, <1>2, TabsAssumption DEF Ids
<1> QED
  BY <1>2, <1>3 DEF Max

LEMMA ZeroIsNoTab == 0 \notin Ids
BY TabsAssumption DEF Ids

(* The tab that is active after a close is open, if one is, or was active. *)
LEMMA AfterCloseFits ==
  ASSUME TypeOK, NEW t
  PROVE  /\ AfterClose(t, open \ {t}) \in Ids \cup {0}
         /\ active # t => AfterClose(t, open \ {t}) = active
         /\ active = t => \/ AfterClose(t, open \ {t}) \in open \ {t}
                          \/ AfterClose(t, open \ {t}) = 0 /\ open \ {t} = {}
<1>1. open \ {t} \in SUBSET Ids
  BY DEF TypeOK
<1>2. open \ {t} # {} => Max(open \ {t}) \in open \ {t}
  BY <1>1, MaxIn
<1> QED
  BY <1>1, <1>2 DEF AfterClose, TypeOK

-----------------------------------------------------------------------------
(* A command begins: no tab comes or goes, the active one changes to another
   that is open, and a recreation begins only when there is none. *)
BegunFrom(r) ==
  /\ UNCHANGED <<open, nextTab, owner, todo, kept, opener, lost, closed>>
  /\ active' \in open \cup {active}
  /\ client' \in [Requests -> Clients]
  /\ saved' \in [Requests -> Ids \cup {0, None}]
  /\ on' \in [Requests -> Ids \cup {0, None}]
  /\ orig' \in [Requests -> Ids \cup {0, None}]
  /\ \A q \in Requests : q # r => on'[q] = on[q]
  /\ \/ at' = at /\ on' = on
     \/ /\ at[r] = "idle"
        /\ \E phase \in {"working", "ending", "opening", "closing", "listing"} :
             at' = [at EXCEPT ![r] = phase]
     \/ /\ at[r] = "idle" /\ ~Recreating
        /\ at' = [at EXCEPT ![r] = "saving"] /\ on'[r] \in Ids
  /\ begun' \in 0..MaxBegun /\ tidy' \subseteq Requests
  /\ chosen' \in {active, active', chosen} /\ mixed' \in BOOLEAN

LEMMA Begins ==
  ASSUME TypeOK, NEW r \in Requests, BeginAny(r)
  PROVE  BegunFrom(r)
<1>1. PICK c \in Clients, p \in (1..(nextTab - 1)) \cup {None} :
        BeginTidy(r, c, p) \/ BeginOpen(r, c, p)
  BY DEF BeginAny
<1>2. PinTo(p) \in open \cup {active}
  BY DEF PinTo, Switched
<1> DEFINE Moves ==
      /\ UNCHANGED <<open, nextTab, owner, todo, kept, opener, lost>>
      /\ active' \in open \cup {active}
      /\ client' \in [Requests -> Clients]
      /\ saved' \in [Requests -> Ids \cup {0, None}]
      /\ on' \in [Requests -> Ids \cup {0, None}]
      /\ orig' \in [Requests -> Ids \cup {0, None}]
      /\ \A q \in Requests : q # r => on'[q] = on[q]
      /\ \/ at' = at /\ on' = on
         \/ /\ at[r] = "idle"
            /\ \E phase \in {"working", "ending", "opening", "closing", "listing"} :
                 at' = [at EXCEPT ![r] = phase]
         \/ /\ at[r] = "idle" /\ ~Recreating
            /\ at' = [at EXCEPT ![r] = "saving"] /\ on'[r] \in Ids
<1>3. ASSUME Refuse(r, c, p) \/ Help(r, c, p) PROVE Moves
  BY <1>2, <1>3 DEF Refuse, Help, request, TypeOK
<1>4. ASSUME Work(r, c, p) PROVE Moves
  BY <1>2, <1>4 DEF Work, Dispatched, Begin, Goto, Put, TypeOK
<1>5. ASSUME NEW t, SwitchTab(r, c, p, t) PROVE Moves
  BY <1>2, <1>5 DEF SwitchTab, Begin, Goto, Put, Switched, TypeOK
<1>6. ASSUME NewTab(r, c, p) PROVE Moves
  BY <1>2, <1>6 DEF NewTab, Begin, Goto, Put, TypeOK
<1>7. ASSUME NEW t, CloseTab(r, c, p, t) PROVE Moves
  BY <1>2, <1>7 DEF CloseTab, Begin, Goto, Put, TypeOK
<1>8. ASSUME TabEach(r, c, p) PROVE Moves
  BY <1>2, <1>8 DEF TabEach, Begin, Goto, Put, TypeOK
<1>9. ASSUME Recreate(r, c, p) PROVE Moves
  <2>1. Min(open) \in Ids
    BY <1>9, MinIn DEF Recreate, Dispatched, TypeOK
  <2> QED
    BY <1>2, <1>9, <2>1 DEF Recreate, Begin, Goto, Put, TypeOK
<1>10. Moves
  <2> HIDE DEF Moves
  <2> QED
    BY <1>1, <1>3, <1>4, <1>5, <1>6, <1>7, <1>8, <1>9 DEF BeginTidy, BeginOpen
<1>11. begun' \in 0..MaxBegun /\ mixed' \in BOOLEAN /\ closed' = closed
  BY TabsAssumption DEF BeginAny, TypeOK, Quiet
<1>12. tidy' \subseteq Requests /\ chosen' \in {active, active', chosen}
  <2> HIDE DEF Moves
  <2> QED
    BY <1>1 DEF BeginTidy, BeginOpen, TypeOK
<1> QED
  BY <1>10, <1>11, <1>12 DEF BegunFrom

-----------------------------------------------------------------------------
LEMMA TypedBegin ==
  ASSUME Typed, NEW r \in Requests, BeginAny(r)
  PROVE  Typed'
<1>1. BegunFrom(r)
  BY Begins DEF Typed
<1>2. at' \in [Requests -> Phase]
  BY <1>1 DEF BegunFrom, Typed, TypeOK, Phase, Recreation
<1>3. active' \in Ids \cup {0} /\ chosen' \in Ids \cup {0}
  BY <1>1 DEF BegunFrom, Typed, TypeOK
<1>4. TypeOK'
  BY <1>1, <1>2, <1>3 DEF BegunFrom, Typed, TypeOK
<1>5. OnATab'
  <2> SUFFICES ASSUME NEW q \in Requests
               PROVE  /\ at'[q] = "saving" => on'[q] \in Ids
                      /\ at'[q] = "restoring" => on'[q] \in Ids \cup {None}
    BY DEF OnATab
  <2>1. CASE q = r
    BY <1>1, <2>1 DEF BegunFrom, Typed, TypeOK, OnATab
  <2>2. CASE q # r
    BY <1>1, <2>2 DEF BegunFrom, Typed, TypeOK, OnATab
  <2> QED
    BY <2>1, <2>2
<1> QED
  BY <1>4, <1>5 DEF Typed

(* The part of TypeOK a step of a command changes. *)
StepTyped ==
  /\ open \subseteq Ids
  /\ active \in Ids \cup {0}
  /\ nextTab \in 1..(MaxTab + 1)
  /\ owner \in [Ids -> Owners]
  /\ at \in [Requests -> Phase]
  /\ client \in [Requests -> Clients]
  /\ saved \in [Requests -> Ids \cup {0, None}]
  /\ on \in [Requests -> Ids \cup {0, None}]
  /\ orig \in [Requests -> Ids \cup {0, None}]
  /\ todo \in [Requests -> SUBSET Ids]
  /\ kept \in [Requests -> Seq(Saved)]
  /\ opener \in [Ids -> Owners]
  /\ lost \in BOOLEAN

LEMMA MadeTyped ==
  ASSUME TypeOK, Room, NEW c \in Clients, MakeTab(c)
  PROVE  /\ nextTab \in Ids /\ nextTab' \in 1..(MaxTab + 1)
         /\ open' \subseteq Ids
         /\ owner' \in [Ids -> Owners] /\ opener' \in [Ids -> Owners]
<1>1. nextTab \in Ids /\ nextTab + 1 \in 1..(MaxTab + 1)
  BY TabsAssumption DEF TypeOK, Room, Ids
<1>2. c # Root => c \in Owners
  BY DEF Clients, Owners
<1>3. None \in Owners
  BY DEF Owners
<1> QED
  BY <1>1, <1>2, <1>3 DEF MakeTab, TypeOK

LEMMA TypedStep ==
  ASSUME Typed, NEW r \in Requests, StepOf(r)
  PROVE  StepTyped' /\ OnATab'
<1> USE DEF Typed, TypeOK, OnATab, StepTyped, Phase, Recreation
<1>1. CASE End(r)
  <2>1. Root \in Clients /\ <<>> \in Seq(Saved)
    BY DEF Clients
  <2> QED
    BY <1>1, <2>1 DEF End, Goto, Forget, Put, Switched
<1>2. CASE WorkDone(r) \/ NewTabFails(r) \/ NewContext(r)
  BY <1>2 DEF WorkDone, NewTabFails, NewContext, Goto, request
<1>3. CASE NewTabDone(r)
  <2> DEFINE c == IF at[r] = "opening" THEN client[r] ELSE Root
  <2>1. c \in Clients
    BY DEF Clients
  <2>2. Room /\ MakeTab(c)
    BY <1>3 DEF NewTabDone
  <2> HIDE DEF c
  <2> QED
    BY <1>3, <2>1, <2>2, MadeTyped DEF NewTabDone, Goto, request
<1>4. CASE CloseTabDone(r)
  <2>1. open \ {on[r]} # {} => Max(open \ {on[r]}) \in Ids
    <3>1. open \ {on[r]} \in SUBSET Ids
      OBVIOUS
    <3> QED
      BY <3>1, MaxIn
  <2>2. None \in Owners
    BY DEF Owners
  <2> QED
    BY <1>4, <2>1, <2>2 DEF CloseTabDone, Goto, request
<1>5. CASE EachList(r) \/ EachDone(r)
  <2>1. CASE EachList(r)
    BY <2>1 DEF EachList, Goto, Put
  <2>2. CASE EachDone(r)
    <3>1. active' \in open \cup {active}
      BY <2>2 DEF EachDone, Switched
    <3> QED
      BY <2>2, <3>1 DEF EachDone, Goto, Put
  <2> QED
    BY <1>5, <2>1, <2>2
<1>6. CASE EachVisit(r)
  BY <1>6 DEF EachVisit, Put
<1>7. CASE SavePage(r)
  <2> DEFINE page == [tab |-> on[r], isActive |-> on[r] = active, owner |-> owner[on[r]]]
  <2>1. page \in Saved
    BY <1>7 DEF SavePage, Saved
  <2> HIDE DEF page
  <2>2. Append(kept[r], page) \in Seq(Saved)
    BY <2>1
  <2>3. kept' = [kept EXCEPT ![r] = Append(@, page)]
    BY <1>7 DEF SavePage, page
  <2>4. kept' \in [Requests -> Seq(Saved)]
    BY <2>2, <2>3
  <2>5. {t \in open : t > on[r]} # {} => Min({t \in open : t > on[r]}) \in Ids
    <3>1. {t \in open : t > on[r]} \in SUBSET Ids
      OBVIOUS
    <3> QED
      BY <3>1, MinIn
  <2> QED
    BY <1>7, <2>4, <2>5 DEF SavePage, Goto, Put
<1>8. CASE EmptyPage(r)
  BY <1>8, AfterCloseFits DEF EmptyPage, request
<1>9. CASE CloseContext(r)
  BY <1>9 DEF CloseContext, Doom, request
<1>10. CASE StartRestore(r)
  <2>1. None \in Owners
    BY DEF Owners
  <2> QED
    BY <1>10, <2>1 DEF StartRestore, Goto, Put
<1>11. CASE RestorePage(r)
  <2>1. /\ Head(kept[r]) \in Saved
        /\ Tail(kept[r]) \in Seq(Saved)
    BY <1>11 DEF RestorePage
  <2>2. kept' \in [Requests -> Seq(Saved)]
    BY <1>11, <2>1 DEF RestorePage
  <2>3. nextTab \in Ids /\ nextTab' \in 1..(MaxTab + 1)
    BY <1>11, TabsAssumption DEF RestorePage, Room, Ids
  <2>4. Head(kept[r]).tab \in Ids /\ Head(kept[r]).owner \in Owners
    BY <2>1 DEF Saved
  <2>5. owner' \in [Ids -> Owners] /\ opener' \in [Ids -> Owners]
    BY <1>11, <2>3, <2>4 DEF RestorePage
  <2>6. on' = on \/ on' = [on EXCEPT ![r] = nextTab]
    BY <1>11 DEF RestorePage, Put
  <2> QED
    BY <1>11, <2>2, <2>3, <2>5, <2>6 DEF RestorePage
<1>12. CASE RestoreDone(r)
  <2>1. open # {} => Min(open) \in Ids
    BY MinIn
  <2> QED
    BY <1>12, <2>1 DEF RestoreDone, Goto, request
<1>13. CASE BlankTab(r)
  <2>1. Root \in Clients
    BY DEF Clients
  <2> QED
    BY <1>13, <2>1, MadeTyped DEF BlankTab, Goto, request
<1>14. CASE RecreateFails(r)
  BY <1>14 DEF RecreateFails, Doom, Put
<1>15. CASE FallbackFails(r)
  BY <1>15 DEF FallbackFails, Goto, request
<1>16. CASE RestoreThrows(r)
  BY <1>16 DEF RestoreThrows, Doom, request
<1> QED
  BY <1>1, <1>2, <1>3, <1>4, <1>5, <1>6, <1>7, <1>8, <1>9, <1>10, <1>11, <1>12,
     <1>13, <1>14, <1>15, <1>16 DEF StepOf

LEMMA TypedBlocked ==
  ASSUME Typed, NEW r \in Requests, Blocked(r)
  PROVE  Typed'
<1>1. Root \in Clients /\ <<>> \in Seq(Saved)
  BY DEF Clients
<1>2. /\ at' = [at EXCEPT ![r] = "idle"]
      /\ client' = [client EXCEPT ![r] = Root] /\ saved' = [saved EXCEPT ![r] = None]
      /\ on' = [on EXCEPT ![r] = None] /\ orig' = [orig EXCEPT ![r] = None]
      /\ todo' = [todo EXCEPT ![r] = {}] /\ kept' = [kept EXCEPT ![r] = <<>>]
      /\ tidy' = tidy \ {r} /\ chosen' \in {chosen, active}
      /\ UNCHANGED <<open, active, nextTab, owner, opener, begun, closed, mixed, lost>>
  BY DEF Blocked, Goto, Forget, Put
<1>3. OnATab'
  BY <1>2 DEF Typed, TypeOK, OnATab
<1>4. TypeOK'
  BY <1>1, <1>2 DEF Typed, TypeOK, Phase
<1> QED
  BY <1>3, <1>4 DEF Typed

(* Every variable keeps its type: kept tabs, saved ids and pins are tabs. *)
LEMMA TypedInvariant == Spec => []Typed
<1>1. Init => Typed
  <2> SUFFICES ASSUME Init PROVE Typed
    OBVIOUS
  <2>1. 1 \in Ids /\ 2 \in 1..(MaxTab + 1)
    BY TabsAssumption DEF Ids
  <2>2. Root \in Clients /\ None \in Owners /\ <<>> \in Seq(Saved)
    BY DEF Clients, Owners
  <2>3. 0 \in 0..MaxBegun /\ 0 \in 0..MaxClosed
    BY TabsAssumption
  <2> QED
    BY <2>1, <2>2, <2>3 DEF Init, Typed, TypeOK, OnATab, Phase
<1>2. Typed /\ [Next]_vars => Typed'
  <2> SUFFICES ASSUME Typed, [Next]_vars PROVE Typed'
    OBVIOUS
  <2>1. ASSUME NEW r \in Requests, BeginAny(r) PROVE Typed'
    BY <2>1, TypedBegin
  <2>2. ASSUME NEW r \in Requests, Step(r) PROVE Typed'
    <3>1. StepTyped' /\ OnATab'
      BY <2>2, TypedStep DEF Step
    <3>2. tidy' \subseteq Requests /\ chosen' \in Ids \cup {0}
      BY <2>2, <3>1 DEF Step, StepTyped, Typed, TypeOK
    <3> QED
      BY <2>2, <3>1, <3>2 DEF Step, StepTyped, Typed, TypeOK
  <2>5. ASSUME NEW r \in Requests, Blocked(r) PROVE Typed'
    BY <2>5, TypedBlocked
  <2>3. ASSUME NEW t \in Ids, PageCloses(t) PROVE Typed'
    <3>1. active' \in Ids \cup {0}
      BY <2>3, AfterCloseFits DEF PageCloses, Typed
    <3>2. closed' \in 0..MaxClosed
      BY <2>3, TabsAssumption DEF PageCloses, Typed, TypeOK
    <3>3. mixed' \in BOOLEAN
      BY <2>3 DEF PageCloses, Typed, TypeOK, Quiet
    <3> QED
      BY <2>3, <3>1, <3>2, <3>3 DEF PageCloses, Typed, TypeOK, OnATab, request
  <2>4. CASE UNCHANGED vars
    BY <2>4 DEF vars, request, Typed, TypeOK, OnATab
  <2> QED
    BY <2>1, <2>2, <2>3, <2>4, <2>5 DEF Next
<1> QED
  BY <1>1, <1>2, PTL DEF Spec

(* Every variable keeps its type: what is pinned, saved, visited or kept of a
   page is a tab, and a restored owner a client. *)
THEOREM TypeCorrect == Spec => []TypeOK
BY TypedInvariant, PTL DEF Typed

-----------------------------------------------------------------------------
(* Nothing is given out or kept: an owner at most goes. *)
LEMMA OwnersKept ==
  ASSUME OwnersFit, UNCHANGED <<nextTab, opener>>,
         \A t \in Ids : owner'[t] \in {owner[t], None},
         \A q \in Requests : kept'[q] \in {kept[q], <<>>}
  PROVE  OwnersFit'
<1>1. ASSUME NEW t \in Ids, owner'[t] # None
      PROVE  t < nextTab' /\ owner'[t] = opener'[t]
  BY <1>1 DEF OwnersFit
<1>2. ASSUME NEW q \in Requests, NEW i \in DOMAIN kept'[q], kept'[q][i].owner # None
      PROVE  /\ kept'[q][i].tab < nextTab'
             /\ opener'[kept'[q][i].tab] = kept'[q][i].owner
  <2>1. kept'[q] = kept[q]
    BY <1>2
  <2> QED
    BY <1>2, <2>1 DEF OwnersFit
<1> QED
  BY <1>1, <1>2 DEF OwnersFit

(* The next id is given out, to the client that opens it. *)
LEMMA OwnersMade ==
  ASSUME Typed, OwnersFit, Room, NEW c \in Clients, MakeTab(c), UNCHANGED kept
  PROVE  OwnersFit'
<1>1. nextTab \in Ids /\ nextTab' = nextTab + 1
  BY MadeTyped DEF MakeTab, Typed
<1>2. ASSUME NEW t \in Ids, owner'[t] # None
      PROVE  t < nextTab' /\ owner'[t] = opener'[t]
  <2>0. t \in Int /\ nextTab \in Int
    BY <1>1 DEF Ids
  <2>1. CASE t = nextTab
    <3>1. c # Root
      BY <1>2, <2>0, <2>1 DEF MakeTab, OwnersFit
    <3> QED
      BY <1>1, <2>0, <2>1, <3>1 DEF MakeTab, Typed, TypeOK
  <2>2. CASE t # nextTab
    <3>1. owner'[t] = owner[t] /\ opener'[t] = opener[t]
      BY <2>2 DEF MakeTab, Typed, TypeOK
    <3> QED
      BY <1>1, <1>2, <2>0, <3>1 DEF OwnersFit
  <2> QED
    BY <2>1, <2>2
<1>3. ASSUME NEW q \in Requests, NEW i \in DOMAIN kept[q], kept[q][i].owner # None
      PROVE  /\ kept[q][i].tab < nextTab'
             /\ opener'[kept[q][i].tab] = kept[q][i].owner
  <2>1. kept[q][i] \in Saved
    BY <1>3 DEF Typed, TypeOK
  <2>2. kept[q][i].tab \in Ids /\ kept[q][i].tab \in Int /\ nextTab \in Int
    BY <1>1, <2>1 DEF Saved, Ids
  <2>3. kept[q][i].tab < nextTab /\ opener[kept[q][i].tab] = kept[q][i].owner
    BY <1>3 DEF OwnersFit
  <2> QED
    BY <1>1, <2>2, <2>3 DEF MakeTab, Typed, TypeOK
<1> QED
  BY <1>2, <1>3 DEF OwnersFit

(* saveState keeps the owner of a page with its tab. *)
LEMMA OwnersSaved ==
  ASSUME Typed, OwnersFit, NEW r \in Requests, SavePage(r)
  PROVE  OwnersFit'
<1> DEFINE page == [tab |-> on[r], isActive |-> on[r] = active, owner |-> owner[on[r]]]
<1>1. on[r] \in Ids
  BY DEF SavePage, Typed, OnATab
<1>2. page.owner # None => page.tab < nextTab /\ opener[page.tab] = page.owner
  BY <1>1 DEF OwnersFit
<1>3. page \in Saved /\ kept[r] \in Seq(Saved)
  BY <1>1 DEF Saved, Typed, TypeOK
<1>4. /\ UNCHANGED <<owner, opener, nextTab>>
      /\ kept'[r] = Append(kept[r], page)
      /\ \A q \in Requests : q # r => kept'[q] = kept[q]
  BY DEF SavePage, Typed, TypeOK
<1> HIDE DEF page
<1>5. ASSUME NEW q \in Requests, NEW i \in DOMAIN kept'[q], kept'[q][i].owner # None
      PROVE  /\ kept'[q][i].tab < nextTab
             /\ opener[kept'[q][i].tab] = kept'[q][i].owner
  <2>1. CASE q = r /\ i = Len(kept[r]) + 1
    <3>1. kept'[q][i] = page
      BY <1>3, <1>4, <2>1
    <3> QED
      BY <1>2, <1>5, <3>1
  <2>2. CASE ~(q = r /\ i = Len(kept[r]) + 1)
    <3>1. i \in DOMAIN kept[q] /\ kept'[q][i] = kept[q][i]
      BY <1>3, <1>4, <1>5, <2>2
    <3> QED
      BY <1>5, <3>1 DEF OwnersFit
  <2> QED
    BY <2>1, <2>2
<1> QED
  BY <1>4, <1>5 DEF OwnersFit

(* restoreState gives a new id the owner and the opener of the saved one. *)
LEMMA OwnersRestored ==
  ASSUME Typed, OwnersFit, NEW r \in Requests, RestorePage(r)
  PROVE  OwnersFit'
<1> DEFINE page == Head(kept[r])
<1>1. kept[r] \in Seq(Saved) /\ kept[r] # <<>>
  BY DEF RestorePage, Typed, TypeOK
<1>2. page \in Saved /\ page = kept[r][1] /\ 1 \in DOMAIN kept[r]
  BY <1>1
<1>3. page.owner # None => page.tab < nextTab /\ opener[page.tab] = page.owner
  BY <1>2 DEF OwnersFit
<1>4. nextTab \in Ids /\ nextTab \in Int /\ nextTab' = nextTab + 1
  BY TabsAssumption DEF RestorePage, Room, Typed, TypeOK, Ids
<1>5. /\ owner' = IF page.owner = None THEN owner
                  ELSE [owner EXCEPT ![nextTab] = page.owner]
      /\ opener' = [opener EXCEPT ![nextTab] = opener[page.tab]]
      /\ kept' = [kept EXCEPT ![r] = Tail(@)]
  BY DEF RestorePage
<1> HIDE DEF page
<1>6. ASSUME NEW t \in Ids, owner'[t] # None
      PROVE  t < nextTab' /\ owner'[t] = opener'[t]
  <2>0. t \in Int
    BY DEF Ids
  <2>1. CASE t = nextTab
    <3>1. page.owner # None
      BY <1>4, <1>5, <1>6, <2>1 DEF OwnersFit
    <3> QED
      BY <1>3, <1>4, <1>5, <2>1, <3>1 DEF Typed, TypeOK
  <2>2. CASE t # nextTab
    <3>1. owner'[t] = owner[t] /\ opener'[t] = opener[t]
      BY <1>5, <2>2 DEF Typed, TypeOK
    <3> QED
      BY <1>4, <1>6, <2>0, <3>1 DEF OwnersFit
  <2> QED
    BY <2>1, <2>2
<1>7. ASSUME NEW q \in Requests, NEW i \in DOMAIN kept'[q], kept'[q][i].owner # None
      PROVE  /\ kept'[q][i].tab < nextTab'
             /\ opener'[kept'[q][i].tab] = kept'[q][i].owner
  <2>1. PICK j \in DOMAIN kept[q] : kept'[q][i] = kept[q][j]
    <3>1. CASE q = r
      <4>1. kept'[q] = Tail(kept[r])
        BY <1>5, <3>1 DEF Typed, TypeOK
      <4>2. i + 1 \in DOMAIN kept[r] /\ Tail(kept[r])[i] = kept[r][i + 1]
        BY <1>1, <1>7, <4>1
      <4> QED
        BY <3>1, <4>1, <4>2
    <3>2. CASE q # r
      BY <1>5, <1>7, <3>2 DEF Typed, TypeOK
    <3> QED
      BY <3>1, <3>2
  <2>2. kept[q][j] \in Saved
    BY DEF Typed, TypeOK
  <2>3. kept[q][j].tab \in Ids /\ kept[q][j].tab \in Int
    BY <2>2 DEF Saved, Ids
  <2>4. kept[q][j].tab < nextTab /\ opener[kept[q][j].tab] = kept[q][j].owner
    BY <1>7, <2>1 DEF OwnersFit
  <2> QED
    BY <1>4, <1>5, <2>1, <2>3, <2>4 DEF Typed, TypeOK
<1> QED
  BY <1>6, <1>7 DEF OwnersFit

LEMMA OwnersInvariant == Spec => []OwnersFit
<1>1. Init => OwnersFit
  BY DEF Init, OwnersFit
<1>2. Typed /\ OwnersFit /\ [Next]_vars => OwnersFit'
  <2> SUFFICES ASSUME Typed, OwnersFit, [Next]_vars PROVE OwnersFit'
    OBVIOUS
  <2>1. ASSUME NEW r \in Requests, BeginAny(r) PROVE OwnersFit'
    <3>1. BegunFrom(r)
      BY <2>1, Begins DEF Typed
    <3> QED
      BY <3>1, OwnersKept DEF BegunFrom
  <2>2. ASSUME NEW r \in Requests, StepOf(r) PROVE OwnersFit'
    <3>1. CASE End(r)
      <4>1. \A q \in Requests : kept'[q] \in {kept[q], <<>>}
        BY <3>1 DEF End, Forget, Put, Typed, TypeOK
      <4> QED
        BY <3>1, <4>1, OwnersKept DEF End
    <3>2. CASE \/ WorkDone(r) \/ NewTabFails(r) \/ NewContext(r) \/ CloseContext(r)
               \/ EmptyPage(r) \/ RestoreDone(r) \/ RestoreThrows(r) \/ FallbackFails(r)
      BY <3>2, OwnersKept DEF WorkDone, NewTabFails, NewContext, CloseContext,
           EmptyPage, RestoreDone, RestoreThrows, FallbackFails, request
    <3>3. CASE NewTabDone(r)
      <4> DEFINE c == IF at[r] = "opening" THEN client[r] ELSE Root
      <4>1. c \in Clients
        BY DEF Clients, Typed, TypeOK
      <4>2. Room /\ MakeTab(c) /\ UNCHANGED kept
        BY <3>3 DEF NewTabDone, request
      <4> HIDE DEF c
      <4> QED
        BY <4>1, <4>2, OwnersMade
    <3>4. CASE CloseTabDone(r)
      <4>1. \A t \in Ids : owner'[t] \in {owner[t], None}
        BY <3>4 DEF CloseTabDone, Typed, TypeOK
      <4> QED
        BY <3>4, <4>1, OwnersKept DEF CloseTabDone, request
    <3>5. CASE EachList(r) \/ EachVisit(r) \/ EachDone(r)
      BY <3>5, OwnersKept DEF EachList, EachVisit, EachDone
    <3>6. CASE SavePage(r)
      BY <3>6, OwnersSaved
    <3>7. CASE StartRestore(r)
      <4>1. \A t \in Ids : owner'[t] = None
        BY <3>7 DEF StartRestore
      <4> QED
        BY <3>7, <4>1, OwnersKept DEF StartRestore
    <3>8. CASE RestorePage(r)
      BY <3>8, OwnersRestored
    <3>9. CASE BlankTab(r)
      <4>1. Root \in Clients
        BY DEF Clients
      <4> QED
        BY <3>9, <4>1, OwnersMade DEF BlankTab, request
    <3>10. CASE RecreateFails(r)
      <4>1. \A q \in Requests : kept'[q] \in {kept[q], <<>>}
        BY <3>10 DEF RecreateFails, Put, Typed, TypeOK
      <4> QED
        BY <3>10, <4>1, OwnersKept DEF RecreateFails
    <3> QED
      BY <2>2, <3>1, <3>2, <3>3, <3>4, <3>5, <3>6, <3>7, <3>8, <3>9, <3>10
      DEF StepOf
  <2>3. ASSUME NEW t \in Ids, PageCloses(t) PROVE OwnersFit'
    BY <2>3, OwnersKept DEF PageCloses, request
  <2>5. ASSUME NEW r \in Requests, Blocked(r) PROVE OwnersFit'
    <3>1. \A q \in Requests : kept'[q] \in {kept[q], <<>>}
      BY <2>5 DEF Blocked, Forget, Put, Typed, TypeOK
    <3> QED
      BY <2>5, <3>1, OwnersKept DEF Blocked
  <2>4. CASE UNCHANGED vars
    BY <2>4, OwnersKept DEF vars, request
  <2> QED
    BY <2>1, <2>2, <2>3, <2>4, <2>5 DEF Next, Step
<1> QED
  BY <1>1, <1>2, TypedInvariant, PTL DEF Spec

(* The agent a tab belongs to is the one that opened it, or opened the tab it
   replaces after a recreation of the context. *)
THEOREM OwnersOpened == Spec => []OwnerOpenedIt
<1>1. Typed /\ OwnersFit => OwnerOpenedIt
  BY DEF Typed, TypeOK, OwnersFit, OwnerOpenedIt
<1> QED
  BY <1>1, TypedInvariant, OwnersInvariant, PTL

-----------------------------------------------------------------------------
(* No tab comes or goes, and no recreation or refill begins or ends. *)
LEMMA ActiveKept ==
  ASSUME Typed, ActiveFit, open' = open, active' \in open \cup {active}, lost' = lost,
         \A q \in Requests :
           \/ at'[q] = at[q]
           \/ /\ at[q] \notin Recreation \cup {"refilling", "doomed"}
              /\ at'[q] \notin Recreation
  PROVE  ActiveFit'
<1>1. ActiveOpen'
  <2>1. CASE \E q \in Requests : at[q] \in Recreation
    BY <2>1 DEF ActiveOpen, Recreating
  <2>2. CASE \E q \in Requests : at[q] \in {"refilling", "doomed"}
    BY <2>2 DEF ActiveOpen
  <2>3. CASE active \in open \/ lost \/ (active = 0 /\ open = {})
    BY <2>3 DEF ActiveOpen
  <2> QED
    BY <2>1, <2>2, <2>3 DEF ActiveFit, ActiveOpen, Recreating
<1>2. OneRecreation'
  BY DEF ActiveFit, OneRecreation
<1>3. NoTabNoneActive'
  <2>1. 0 \notin open
    BY ZeroIsNoTab DEF Typed, TypeOK
  <2>2. active' = 0 => active = 0
    BY <2>1
  <2>3. \A q \in Requests : at[q] = "restoring" => at'[q] = "restoring"
    BY DEF Recreation
  <2> QED
    BY <2>2, <2>3 DEF ActiveFit, NoTabNoneActive
<1> QED
  BY <1>1, <1>2, <1>3 DEF ActiveFit

(* A recreation goes on. *)
LEMMA ActiveRecreated ==
  ASSUME ActiveFit, NoTabNoneActive', NEW r \in Requests,
         at[r] \in Recreation, at'[r] \in Recreation,
         \A q \in Requests : at'[q] \in Recreation => at[q] \in Recreation
  PROVE  ActiveFit'
<1>1. ActiveOpen'
  BY DEF ActiveOpen, Recreating
<1>2. OneRecreation'
  BY DEF ActiveFit, OneRecreation
<1> QED
  BY <1>1, <1>2 DEF ActiveFit

(* A tab is made and activated; who made it is done. *)
LEMMA ActiveMade ==
  ASSUME Typed, ActiveFit, NEW r \in Requests, Room, NEW c \in Clients, MakeTab(c),
         active' = nextTab, Goto(r, "ending")
  PROVE  ActiveFit'
<1>1. active' \in open' /\ active' # 0
  BY MadeTyped, ZeroIsNoTab DEF MakeTab, Typed
<1>2. OneRecreation'
  BY DEF Goto, ActiveFit, OneRecreation, Typed, TypeOK, Recreation
<1> QED
  BY <1>1, <1>2 DEF ActiveFit, ActiveOpen, NoTabNoneActive

LEMMA ActiveBegin ==
  ASSUME Typed, ActiveFit, NEW r \in Requests, BeginAny(r)
  PROVE  ActiveFit'
<1>1. BegunFrom(r)
  BY Begins DEF Typed
<1>2. CASE /\ at[r] = "idle" /\ ~Recreating
           /\ at' = [at EXCEPT ![r] = "saving"]
  <2>1. at'[r] = "saving" /\ \A q \in Requests : q # r => at'[q] = at[q]
    BY <1>2 DEF Typed, TypeOK
  <2>2. ActiveOpen'
    BY <2>1 DEF ActiveOpen, Recreating, Recreation
  <2>3. OneRecreation'
    BY <1>2, <2>1 DEF OneRecreation, Recreating
  <2>4. 0 \notin open
    BY ZeroIsNoTab DEF Typed, TypeOK
  <2>5. NoTabNoneActive'
    BY <1>1, <1>2, <2>4 DEF BegunFrom, ActiveFit, NoTabNoneActive, Recreating, Recreation
  <2> QED
    BY <2>2, <2>3, <2>5 DEF ActiveFit
<1>3. CASE \/ at' = at
           \/ /\ at[r] = "idle"
              /\ \E phase \in {"working", "ending", "opening", "closing", "listing"} :
                   at' = [at EXCEPT ![r] = phase]
  <2>1. \A q \in Requests :
          \/ at'[q] = at[q]
          \/ /\ at[q] \notin Recreation \cup {"refilling", "doomed"}
             /\ at'[q] \notin Recreation
    BY <1>3 DEF Typed, TypeOK, Recreation
  <2> QED
    BY <1>1, <2>1, ActiveKept DEF BegunFrom
<1> QED
  BY <1>1, <1>2, <1>3 DEF BegunFrom

(* The closed tab was active, and another is, or a new one will be. *)
LEMMA ActiveClosed ==
  ASSUME Typed, ActiveFit, NEW r \in Requests, CloseTabDone(r)
  PROVE  ActiveFit'
<1> DEFINE t == on[r]
           rest == open \ {t}
<1>1. /\ open' = rest /\ lost' = lost /\ at[r] = "closing"
      /\ active' = IF active = t /\ rest # {} THEN Max(rest) ELSE active
      /\ at'[r] = IF active = t /\ rest = {} THEN "refilling" ELSE "ending"
      /\ \A q \in Requests : q # r => at'[q] = at[q]
  BY DEF CloseTabDone, Goto, Typed, TypeOK
<1>2. OneRecreation'
  BY <1>1 DEF ActiveFit, OneRecreation, Recreation
<1>3. \A q \in Requests :
        at[q] \in Recreation \cup {"refilling", "doomed"} => at'[q] = at[q]
  BY <1>1 DEF Recreation
<1>4. rest \in SUBSET Ids
  BY DEF Typed, TypeOK
<1>5. CASE active = t /\ rest # {}
  <2>1. Max(rest) \in rest /\ Max(rest) # 0
    BY <1>4, <1>5, MaxIn, ZeroIsNoTab
  <2> QED
    BY <1>1, <1>2, <1>5, <2>1 DEF ActiveFit, ActiveOpen, NoTabNoneActive
<1>6. CASE active = t /\ rest = {}
  BY <1>1, <1>2, <1>6 DEF ActiveFit, ActiveOpen, NoTabNoneActive
<1>7. CASE active # t
  <2>1. active' = active /\ (active \in open => active \in rest) /\ (open = {} => rest = {})
    BY <1>1, <1>7
  <2>2. ActiveOpen'
    BY <1>1, <1>3, <2>1 DEF ActiveFit, ActiveOpen, Recreating
  <2>3. NoTabNoneActive'
    BY <1>1, <1>3, <2>1 DEF ActiveFit, NoTabNoneActive, Recreation
  <2> QED
    BY <1>2, <2>2, <2>3 DEF ActiveFit
<1> QED
  BY <1>5, <1>6, <1>7

(* newPage fails where the active tab had gone: the command's end says so. *)
LEMMA ActiveNotMade ==
  ASSUME Typed, ActiveFit, NEW r \in Requests, NewTabFails(r)
  PROVE  ActiveFit'
<1>1. /\ UNCHANGED <<open, active>> /\ lost' = (lost \/ active \notin open \cup {0})
      /\ at[r] \in {"opening", "refilling", "doomed"} /\ at'[r] = "ending"
      /\ \A q \in Requests : q # r => at'[q] = at[q]
  BY DEF NewTabFails, Goto, Typed, TypeOK
<1>2. OneRecreation'
  BY <1>1 DEF ActiveFit, OneRecreation, Recreation
<1>3. \A q \in Requests : at[q] \in Recreation => at'[q] = at[q]
  BY <1>1 DEF Recreation
<1>4. NoTabNoneActive'
  BY <1>1, <1>3 DEF ActiveFit, NoTabNoneActive, Recreation
<1>5. ActiveOpen'
  <2>1. CASE active \notin open \cup {0}
    BY <1>1, <2>1 DEF ActiveOpen
  <2>2. CASE active \in open
    BY <1>1, <2>2 DEF ActiveOpen
  <2>3. CASE active = 0
    BY <1>1, <1>4, <2>3 DEF ActiveOpen, NoTabNoneActive, Recreating, Recreation
  <2> QED
    BY <2>1, <2>2, <2>3
<1> QED
  BY <1>2, <1>4, <1>5 DEF ActiveFit

(* restoreState ends: the saved active tab, the first, or a blank one. *)
LEMMA ActiveRestored ==
  ASSUME Typed, ActiveFit, NEW r \in Requests, RestoreDone(r)
  PROVE  ActiveFit'
<1>1. /\ at[r] = "restoring" /\ open' = open
      /\ \A q \in Requests : q # r => at'[q] = at[q]
  BY DEF RestoreDone, Goto, Typed, TypeOK
<1>2. CASE open = {}
  <2>1. at'[r] = "blank" /\ open' = {}
    BY <1>2 DEF RestoreDone, Goto, Typed, TypeOK
  <2> QED
    BY <1>1, <2>1, ActiveRecreated DEF NoTabNoneActive, Recreation
<1>3. CASE open # {}
  <2>1. active' \in open /\ at'[r] = "ending"
    BY <1>3 DEF RestoreDone, Goto, Typed, TypeOK
  <2>2. active' # 0
    BY <2>1, ZeroIsNoTab DEF Typed, TypeOK
  <2>3. OneRecreation'
    BY <1>1, <2>1 DEF ActiveFit, OneRecreation, Recreation
  <2>4. ActiveOpen'
    BY <1>1, <2>1 DEF ActiveOpen
  <2> QED
    BY <2>2, <2>3, <2>4 DEF ActiveFit, NoTabNoneActive
<1> QED
  BY <1>2, <1>3

(* A page has closed, by itself or in a recreation. *)
LEMMA PageGone ==
  ASSUME Typed, ActiveFit, NEW t, open' = open \ {t}, at' = at, lost' = lost,
         active' = AfterClose(t, open \ {t})
  PROVE  ActiveFit'
<1>1. /\ active # t => active' = active
      /\ active = t => active' \in open' \/ (active' = 0 /\ open' = {})
  BY AfterCloseFits DEF Typed
<1>2. ActiveOpen'
  BY <1>1 DEF ActiveFit, ActiveOpen, Recreating
<1>3. 0 \notin open
  BY ZeroIsNoTab DEF Typed, TypeOK
<1>4. NoTabNoneActive'
  BY <1>1, <1>3 DEF ActiveFit, NoTabNoneActive
<1>5. OneRecreation'
  BY DEF ActiveFit, OneRecreation
<1> QED
  BY <1>2, <1>4, <1>5 DEF ActiveFit

LEMMA ActiveStep ==
  ASSUME Typed, ActiveFit, NEW r \in Requests, StepOf(r)
  PROVE  ActiveFit'
<1>1. CASE End(r) \/ WorkDone(r) \/ EachList(r) \/ EachVisit(r) \/ EachDone(r)
  <2>1. open' = open /\ active' \in open \cup {active} /\ lost' = lost
    BY <1>1 DEF End, WorkDone, EachList, EachVisit, EachDone, Switched
  <2>2. \A q \in Requests :
          \/ at'[q] = at[q]
          \/ /\ at[q] \notin Recreation \cup {"refilling", "doomed"}
             /\ at'[q] \notin Recreation
    BY <1>1 DEF End, WorkDone, EachList, EachVisit, EachDone, Goto, Typed, TypeOK,
                Recreation
  <2> QED
    BY <2>1, <2>2, ActiveKept
<1>2. CASE NewTabDone(r)
  <2> DEFINE c == IF at[r] = "opening" THEN client[r] ELSE Root
  <2>1. c \in Clients
    BY DEF Clients, Typed, TypeOK
  <2>2. Room /\ MakeTab(c) /\ active' = nextTab /\ Goto(r, "ending")
    BY <1>2 DEF NewTabDone
  <2> HIDE DEF c
  <2> QED
    BY <2>1, <2>2, ActiveMade
<1>3. CASE BlankTab(r)
  <2>1. Root \in Clients
    BY DEF Clients
  <2> QED
    BY <1>3, <2>1, ActiveMade DEF BlankTab
<1>4. CASE NewTabFails(r)
  BY <1>4, ActiveNotMade
<1>5. CASE CloseTabDone(r)
  BY <1>5, ActiveClosed
<1>6. CASE EmptyPage(r)
  BY <1>6, PageGone DEF EmptyPage
<1>7. CASE SavePage(r) \/ NewContext(r) \/ StartRestore(r) \/ RestorePage(r)
  <2>1. /\ active' = active /\ at[r] \in Recreation /\ at'[r] \in Recreation
        /\ \A q \in Requests : q # r => at'[q] = at[q]
    BY <1>7 DEF SavePage, NewContext, StartRestore, RestorePage, Goto, Typed, TypeOK,
                Recreation
  <2>2. open' = open \/ at'[r] = "restoring"
    BY <1>7 DEF SavePage, NewContext, StartRestore, RestorePage
  <2>3. at[r] = "restoring" => at'[r] = "restoring"
    BY <1>7 DEF SavePage, NewContext, StartRestore, RestorePage
  <2>4. NoTabNoneActive'
    BY <2>1, <2>2, <2>3 DEF ActiveFit, NoTabNoneActive
  <2> QED
    BY <2>1, <2>4, ActiveRecreated
<1>8. CASE CloseContext(r) \/ RecreateFails(r) \/ RestoreThrows(r)
  <2>1. open' = {} /\ \E phase \in {"down", "fallback"} : Doom(r, phase)
    BY <1>8 DEF CloseContext, RecreateFails, RestoreThrows
  <2>2. at[r] \in Recreation
    BY <1>8 DEF CloseContext, RecreateFails, RestoreThrows, Recreation
  <2>3. /\ at'[r] \in Recreation
        /\ \A q \in Requests : at'[q] \in Recreation => at[q] \in Recreation
    BY <2>1, <2>2 DEF Doom, Recreation
  <2> QED
    BY <2>1, <2>2, <2>3, ActiveRecreated DEF NoTabNoneActive
<1>9. CASE RestoreDone(r)
  BY <1>9, ActiveRestored
<1>10. CASE FallbackFails(r)
  <2>1. /\ UNCHANGED <<open, active>> /\ lost' = TRUE
        /\ at[r] = "fallback" /\ at'[r] = "ending"
        /\ \A q \in Requests : q # r => at'[q] = at[q]
    BY <1>10 DEF FallbackFails, Goto, Typed, TypeOK
  <2>2. \A q \in Requests : at[q] # "restoring"
    BY <2>1 DEF ActiveFit, OneRecreation, Recreation
  <2>3. NoTabNoneActive'
    BY <2>1, <2>2 DEF ActiveFit, NoTabNoneActive
  <2>4. OneRecreation'
    BY <2>1 DEF ActiveFit, OneRecreation, Recreation
  <2> QED
    BY <2>1, <2>3, <2>4 DEF ActiveFit, ActiveOpen
<1> QED
  BY <1>1, <1>2, <1>3, <1>4, <1>5, <1>6, <1>7, <1>8, <1>9, <1>10 DEF StepOf

(* The active tab has a session but for the moments, and after the failures,
   that ActiveOpen names: no order of pins, closes and recreations leaves the
   daemon at a tab that has gone. *)
THEOREM ActiveHasSession == Spec => []ActiveOpen
<1>1. Init => ActiveFit
  BY DEF Init, ActiveFit, ActiveOpen, OneRecreation, NoTabNoneActive, Recreation
<1>2. Typed /\ ActiveFit /\ [Next]_vars => ActiveFit'
  <2> SUFFICES ASSUME Typed, ActiveFit, [Next]_vars PROVE ActiveFit'
    OBVIOUS
  <2>1. ASSUME NEW r \in Requests, BeginAny(r) PROVE ActiveFit'
    BY <2>1, ActiveBegin
  <2>2. ASSUME NEW r \in Requests, Step(r) PROVE ActiveFit'
    BY <2>2, ActiveStep DEF Step
  <2>3. ASSUME NEW t \in Ids, PageCloses(t) PROVE ActiveFit'
    BY <2>3, PageGone DEF PageCloses
  <2>5. ASSUME NEW r \in Requests, Blocked(r) PROVE ActiveFit'
    <3>1. /\ open' = open /\ active' = active /\ lost' = lost
          /\ at[r] = "working" /\ at' = [at EXCEPT ![r] = "idle"]
      BY <2>5 DEF Blocked, Goto
    <3>2. \A q \in Requests :
            \/ at'[q] = at[q]
            \/ /\ at[q] \notin Recreation \cup {"refilling", "doomed"}
               /\ at'[q] \notin Recreation
      BY <3>1 DEF Typed, TypeOK, Recreation
    <3> QED
      BY <3>1, <3>2, ActiveKept
  <2>4. CASE UNCHANGED vars
    BY <2>4 DEF vars, ActiveFit, ActiveOpen, OneRecreation, NoTabNoneActive, Recreating
  <2> QED
    BY <2>1, <2>2, <2>3, <2>4, <2>5 DEF Next
<1>3. ActiveFit => ActiveOpen
  BY DEF ActiveFit
<1> QED
  BY <1>1, <1>2, <1>3, TypedInvariant, PTL DEF Spec


-----------------------------------------------------------------------------
(***************************************************************************)
(* Commands one after the other leave the active tab that was chosen last. *)
(* The argument: while nothing comes in between, at most one request is in *)
(* flight; one that may move the active tab takes the choice along, and    *)
(* one that is to be tidy has the tab it must go back to in a place that   *)
(* depends on how far it is (Restores).                                    *)
(***************************************************************************)
InFlight(r) == at[r] # "idle"

Restores(r) ==
  \/ saved[r] = chosen
  \/ /\ saved[r] = None
     /\ \/ at[r] \in {"working", "listing"} /\ active = chosen
        \/ at[r] = "visiting" /\ orig[r] = chosen
        \/ at[r] = "ending" /\ (chosen \in open => active = chosen)

Keeps(r) == IF r \in tidy THEN Restores(r) ELSE active = chosen

OneByOne ==
  /\ \A r \in tidy : InFlight(r)
  /\ ~mixed =>
       /\ \A q, r \in Requests : InFlight(q) /\ InFlight(r) => q = r
       /\ Undone
       /\ \A r \in Requests : InFlight(r) => Keeps(r)

LEMMA NoneIsNoTab == None \notin Ids \cup {0}
BY TabsAssumption DEF Ids

(* A command that is to be tidy begins, with nobody else in flight. *)
LEMMA TidyBegins ==
  ASSUME Typed, NEW r \in Requests, NEW c \in Clients,
         NEW p \in (1..(nextTab - 1)) \cup {None}, BeginTidy(r, c, p)
  PROVE  /\ at[r] = "idle" /\ tidy' = tidy \cup {r}
         /\ \A q \in Requests : q # r => at'[q] = at[q]
         /\ at'[r] # "idle"
         /\ chosen' = IF Quiet THEN active ELSE chosen
         /\ \/ saved'[r] = active
            \/ saved'[r] = None /\ at'[r] \in {"working", "listing"} /\ active' = active
<1> DEFINE Begun == /\ at[r] = "idle" /\ at'[r] # "idle"
                    /\ \A q \in Requests : q # r => at'[q] = at[q]
           Saves == \/ saved'[r] = active
                    \/ saved'[r] = None /\ at'[r] \in {"working", "listing"}
                       /\ active' = active
<1>1. ASSUME NEW phase, phase # "idle", Begin(r, c, p, phase)
      PROVE  Begun /\ at'[r] = phase /\ saved'[r] = IF p = None THEN None ELSE active
  BY <1>1 DEF Begin, Goto, Put, Typed, TypeOK
<1> HIDE DEF Begun
<1>2. ASSUME p # None /\ c = Root /\ NewTab(r, c, p)
      PROVE  Begun /\ Saves
  BY <1>1, <1>2 DEF NewTab
<1>3. ASSUME p # None /\ Recreate(r, c, p)
      PROVE  Begun /\ Saves
  BY <1>1, <1>3 DEF Recreate
<1>4. ASSUME p # None /\ \E t \in open : SwitchTab(r, c, p, t) \/ CloseTab(r, c, p, t)
      PROVE  Begun /\ Saves
  BY <1>1, <1>4 DEF SwitchTab, CloseTab
<1>5. ASSUME Work(r, c, p)
      PROVE  Begun /\ Saves
  BY <1>1, <1>5 DEF Work, PinTo
<1>6. ASSUME TabEach(r, c, p)
      PROVE  Begun /\ Saves
  BY <1>1, <1>6 DEF TabEach, PinTo
<1>7. Begun /\ Saves
  <2> HIDE DEF Saves
  <2> QED
    BY <1>2, <1>3, <1>4, <1>5, <1>6 DEF BeginTidy
<1> QED
  BY <1>7 DEF BeginTidy, Begun

(* One that is not to be tidy chooses the tab it makes active. *)
LEMMA OpenBegins ==
  ASSUME Typed, NEW r \in Requests, NEW c \in Clients,
         NEW p \in (1..(nextTab - 1)) \cup {None}, BeginOpen(r, c, p)
  PROVE  /\ at[r] = "idle" /\ tidy' = tidy
         /\ \A q \in Requests : q # r => at'[q] = at[q]
         /\ chosen' = IF active' # active THEN active' ELSE IF Quiet THEN active ELSE chosen
<1> DEFINE Begun == at[r] = "idle" /\ \A q \in Requests : q # r => at'[q] = at[q]
<1>1. ASSUME NEW phase, NEW d, Begin(r, c, d, phase) PROVE Begun
  BY <1>1 DEF Begin, Goto, Typed, TypeOK
<1>2. ASSUME Refuse(r, c, p) \/ Help(r, c, p) PROVE Begun
  BY <1>2 DEF Refuse, Help
<1> HIDE DEF Begun
<1>3. ASSUME NewTab(r, c, p) PROVE Begun
  BY <1>1, <1>3 DEF NewTab
<1>4. ASSUME Recreate(r, c, p) PROVE Begun
  BY <1>1, <1>4 DEF Recreate
<1>5. ASSUME \E t \in open : SwitchTab(r, c, p, t) \/ CloseTab(r, c, p, t) PROVE Begun
  BY <1>1, <1>5 DEF SwitchTab, CloseTab
<1>6. Begun
  BY <1>2, <1>3, <1>4, <1>5 DEF BeginOpen, Begun
<1> QED
  BY <1>6 DEF BeginOpen, Begun

LEMMA OneByOneBegin ==
  ASSUME Typed, OneByOne, NEW r \in Requests, BeginAny(r)
  PROVE  OneByOne'
<1>1. PICK c \in Clients, p \in (1..(nextTab - 1)) \cup {None} :
        BeginTidy(r, c, p) \/ BeginOpen(r, c, p)
  BY DEF BeginAny
<1>2. mixed' = ~Quiet
  BY DEF BeginAny
<1>3. \A q \in tidy : q # r /\ at'[q] = at[q] /\ InFlight(q)
  BY <1>1, TidyBegins, OpenBegins DEF OneByOne, InFlight, Typed, TypeOK
<1>4. \A q \in tidy' : InFlight(q)'
  BY <1>1, <1>3, TidyBegins, OpenBegins DEF InFlight
<1>5. ASSUME Quiet
      PROVE  /\ \A q \in Requests : InFlight(q)' => q = r
             /\ Undone'
             /\ InFlight(r)' => Keeps(r)'
  <2>1. tidy = {}
    BY <1>5 DEF OneByOne, InFlight, Quiet, Typed, TypeOK
  <2>2. \A q \in Requests : InFlight(q)' => q = r
    BY <1>1, <1>5, TidyBegins, OpenBegins DEF InFlight, Quiet
  <2>3. CASE BeginTidy(r, c, p)
    BY <1>5, <2>2, <2>3, TidyBegins DEF InFlight, Undone, Quiet, Keeps, Restores
  <2>4. CASE BeginOpen(r, c, p)
    BY <1>5, <2>1, <2>2, <2>4, OpenBegins DEF Undone, Keeps
  <2> QED
    BY <1>1, <2>2, <2>3, <2>4
<1> QED
  BY <1>2, <1>4, <1>5 DEF OneByOne

(* Whose step it is: it is in flight, and nobody else comes to be. *)
LEMMA StepsInFlight ==
  ASSUME Typed, NEW r \in Requests, StepOf(r)
  PROVE  /\ InFlight(r)
         /\ \A q \in Requests : q # r => (InFlight(q)' <=> InFlight(q))
         /\ at'[r] = "idle" => End(r)
<1> USE DEF InFlight, Typed, TypeOK, Goto, Recreation
<1>1. CASE End(r)
  BY <1>1 DEF End
<1>2. CASE WorkDone(r) \/ NewTabDone(r) \/ NewTabFails(r) \/ CloseTabDone(r)
  BY <1>2 DEF WorkDone, NewTabDone, NewTabFails, CloseTabDone
<1>3. CASE EachList(r) \/ EachVisit(r) \/ EachDone(r)
  BY <1>3 DEF EachList, EachVisit, EachDone
<1>4. CASE SavePage(r) \/ EmptyPage(r) \/ NewContext(r)
  BY <1>4 DEF SavePage, EmptyPage, NewContext
<1>5. CASE CloseContext(r) \/ RecreateFails(r) \/ RestoreThrows(r)
  BY <1>5 DEF CloseContext, RecreateFails, RestoreThrows, Doom
<1>6. CASE StartRestore(r) \/ RestorePage(r) \/ RestoreDone(r) \/ BlankTab(r) \/ FallbackFails(r)
  BY <1>6 DEF StartRestore, RestorePage, RestoreDone, BlankTab, FallbackFails
<1> QED
  BY <1>1, <1>2, <1>3, <1>4, <1>5, <1>6 DEF StepOf

(* What a step other than the last one leaves of the tab to go back to. *)
LEMMA StepRestores ==
  ASSUME Typed, NEW r \in Requests, StepOf(r), ~End(r), chosen' = chosen, Restores(r)
  PROVE  Restores(r)'
<1>1. saved' = saved
  BY DEF StepOf, WorkDone, NewTabDone, NewTabFails, CloseTabDone, EachList, EachVisit,
         EachDone, SavePage, EmptyPage, CloseContext, NewContext, StartRestore,
         RestorePage, RestoreDone, RestoreThrows, BlankTab, RecreateFails,
         FallbackFails, request
<1>2. CASE saved[r] = chosen
  BY <1>1, <1>2 DEF Restores
<1>3. CASE saved[r] = None /\ at[r] = "working" /\ active = chosen
  <2>1. WorkDone(r)
    BY <1>3 DEF StepOf, End, NewTabDone, NewTabFails, CloseTabDone, EachList, EachVisit,
         EachDone, SavePage, EmptyPage, CloseContext, NewContext, StartRestore,
         RestorePage, RestoreDone, RestoreThrows, BlankTab, RecreateFails,
         FallbackFails, Recreation
  <2> QED
    BY <1>1, <1>3, <2>1 DEF WorkDone, Goto, Restores, Typed, TypeOK
<1>4. CASE saved[r] = None /\ at[r] = "listing" /\ active = chosen
  <2>1. EachList(r)
    BY <1>4 DEF StepOf, End, WorkDone, NewTabDone, NewTabFails, CloseTabDone, EachVisit,
         EachDone, SavePage, EmptyPage, CloseContext, NewContext, StartRestore,
         RestorePage, RestoreDone, RestoreThrows, BlankTab, RecreateFails,
         FallbackFails, Recreation
  <2> QED
    BY <1>1, <1>4, <2>1 DEF EachList, Goto, Put, Restores, Typed, TypeOK
<1>5. CASE saved[r] = None /\ at[r] = "visiting" /\ orig[r] = chosen
  <2>1. EachVisit(r) \/ EachDone(r)
    BY <1>5 DEF StepOf, End, WorkDone, NewTabDone, NewTabFails, CloseTabDone, EachList,
         SavePage, EmptyPage, CloseContext, NewContext, StartRestore,
         RestorePage, RestoreDone, RestoreThrows, BlankTab, RecreateFails,
         FallbackFails, Recreation
  <2>2. CASE EachVisit(r)
    BY <1>1, <1>5, <2>2 DEF EachVisit, Restores
  <2>3. CASE EachDone(r)
    BY <1>1, <1>5, <2>3 DEF EachDone, Goto, Switched, Restores, Typed, TypeOK
  <2> QED
    BY <2>1, <2>2, <2>3
<1>6. at[r] # "ending"
  BY DEF StepOf, End, WorkDone, NewTabDone, NewTabFails, CloseTabDone, EachList, EachVisit,
         EachDone, SavePage, EmptyPage, CloseContext, NewContext, StartRestore,
         RestorePage, RestoreDone, RestoreThrows, BlankTab, RecreateFails,
         FallbackFails, Recreation
<1> QED
  BY <1>2, <1>3, <1>4, <1>5, <1>6 DEF Restores

LEMMA OneByOneStep ==
  ASSUME Typed, OneByOne, NEW r \in Requests, Step(r)
  PROVE  OneByOne'
<1>1. /\ StepOf(r) /\ mixed' = mixed
      /\ tidy' = IF at'[r] = "idle" THEN tidy \ {r} ELSE tidy
      /\ chosen' = IF r \in tidy \/ active' = active THEN chosen ELSE active'
  BY DEF Step
<1>2. /\ InFlight(r)
      /\ \A q \in Requests : q # r => (InFlight(q)' <=> InFlight(q))
      /\ at'[r] = "idle" => End(r)
  BY <1>1, StepsInFlight
<1>3. \A q \in tidy' : InFlight(q)'
  BY <1>1, <1>2 DEF OneByOne, InFlight, Typed, TypeOK
<1>4. SUFFICES ASSUME ~mixed
               PROVE  /\ \A p, q \in Requests : InFlight(p)' /\ InFlight(q)' => p = q
                      /\ Undone'
                      /\ \A q \in Requests : InFlight(q)' => Keeps(q)'
  BY <1>1, <1>3 DEF OneByOne
<1>5. \A q \in Requests : InFlight(q)' => q = r
  BY <1>2, <1>4 DEF OneByOne
<1>6. Keeps(r)
  BY <1>2, <1>4 DEF OneByOne
<1>7. CASE End(r)
  <2>1. at'[r] = "idle" /\ open' = open /\ active' = Switched(saved[r], active)
    BY <1>7 DEF End, Goto, Typed, TypeOK
  <2>2. None \notin open
    BY NoneIsNoTab DEF Typed, TypeOK
  <2>3. CASE r \in tidy
    <3>1. chosen' = chosen /\ Restores(r)
      BY <1>1, <1>6, <2>3 DEF Keeps
    <3>2. at[r] = "ending"
      BY <1>7 DEF End
    <3>3. chosen \in open => active' = chosen
      BY <2>1, <2>2, <3>1, <3>2 DEF Restores, Switched
    <3> QED
      BY <1>5, <2>1, <3>1, <3>3 DEF Undone, InFlight
  <2>4. CASE r \notin tidy
    <3>1. chosen' = active'
      BY <1>1, <1>6, <2>4 DEF Keeps
    <3> QED
      BY <1>5, <2>1, <3>1 DEF Undone, InFlight
  <2> QED
    BY <2>3, <2>4
<1>8. CASE ~End(r)
  <2>1. at'[r] # "idle" /\ tidy' = tidy
    BY <1>1, <1>2, <1>8
  <2>2. ~Quiet'
    BY <2>1 DEF Quiet
  <2>3. CASE r \in tidy
    <3>1. chosen' = chosen /\ Restores(r)
      BY <1>1, <1>6, <2>3 DEF Keeps
    <3>2. Restores(r)'
      BY <1>1, <1>8, <3>1, StepRestores
    <3> QED
      BY <1>5, <2>1, <2>2, <2>3, <3>2 DEF Undone, Keeps
  <2>4. CASE r \notin tidy
    <3>1. chosen' = active'
      BY <1>1, <1>6, <2>4 DEF Keeps
    <3> QED
      BY <1>5, <2>1, <2>2, <2>4, <3>1 DEF Undone, Keeps
  <2> QED
    BY <2>3, <2>4
<1> QED
  BY <1>7, <1>8

(* A blocked answer chooses the tab its command was pinned to. *)
LEMMA OneByOneBlocked ==
  ASSUME Typed, OneByOne, NEW r \in Requests, Blocked(r)
  PROVE  OneByOne'
<1>1. /\ at[r] = "working" /\ at' = [at EXCEPT ![r] = "idle"]
      /\ tidy' = tidy \ {r}
      /\ chosen' = IF saved[r] = None THEN chosen ELSE active
      /\ UNCHANGED <<open, active, mixed>>
  BY DEF Blocked, Goto
<1>2. \A q \in tidy' : InFlight(q)'
  BY <1>1 DEF OneByOne, InFlight, Typed, TypeOK
<1>3. SUFFICES ASSUME ~mixed
               PROVE  /\ \A q \in Requests : ~InFlight(q)'
                      /\ Undone'
  BY <1>1, <1>2 DEF OneByOne
<1>4. \A q \in Requests : ~InFlight(q)'
  BY <1>1, <1>3 DEF OneByOne, InFlight, Typed, TypeOK
<1>5. Keeps(r)
  BY <1>1, <1>3 DEF OneByOne, InFlight
<1>6. saved[r] = None => active = chosen
  <2>1. chosen \in Ids \cup {0}
    BY DEF Typed, TypeOK
  <2> QED
    BY <1>1, <1>5, <2>1, NoneIsNoTab DEF Keeps, Restores
<1>7. Undone'
  BY <1>1, <1>6 DEF Undone
<1> QED
  BY <1>4, <1>7

(* With nobody in flight the user chooses by closing; else it is no longer
   one after the other. *)
LEMMA OneByOnePage ==
  ASSUME OneByOne, NEW t \in Ids, PageCloses(t)
  PROVE  OneByOne'
<1>1. /\ at' = at /\ tidy' = tidy /\ mixed' = (mixed \/ ~Quiet)
      /\ chosen' = IF Quiet THEN active' ELSE chosen
  BY DEF PageCloses
<1>2. CASE Quiet
  BY <1>1, <1>2 DEF OneByOne, InFlight, Undone, Quiet
<1>3. CASE ~Quiet
  BY <1>1, <1>3 DEF OneByOne, InFlight
<1> QED
  BY <1>2, <1>3

(* Requests that came one after the other leave the tab active that was
   chosen last, pins, tab-each and recreations among them, however often a
   step failed; what answers without unpinning is a choice of its pin. *)
THEOREM PinsUndone == Spec => []Undone
<1>1. Init => OneByOne
  BY DEF Init, OneByOne, InFlight, Undone, Quiet
<1>2. Typed /\ OneByOne /\ [Next]_vars => OneByOne'
  <2> SUFFICES ASSUME Typed, OneByOne, [Next]_vars PROVE OneByOne'
    OBVIOUS
  <2>1. CASE UNCHANGED vars
    BY <2>1 DEF vars, request, OneByOne, InFlight, Undone, Quiet, Keeps, Restores
  <2> QED
    BY <2>1, OneByOneBegin, OneByOneStep, OneByOneBlocked, OneByOnePage DEF Next
<1>3. OneByOne => Undone
  BY DEF OneByOne, Undone
<1> QED
  BY <1>1, <1>2, <1>3, TypedInvariant, PTL DEF Spec
=============================================================================
