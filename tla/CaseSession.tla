---------------------------- MODULE CaseSession ----------------------------
(***************************************************************************)
(* The pytest worker of one execution run: test_execution.py, with the     *)
(* session coordinator (session/module_session.py), the healing of failed  *)
(* attempts (heal_run and run_heal_loop) and the records of the results    *)
(* (defect.py, _build_summary of runner.py).                               *)
(*                                                                         *)
(* The worker takes one case after the other through three steps on one    *)
(* phone: it prepares the login and the content a case starts from, enters *)
(* the module under test, and plays the steps.  What it has prepared is    *)
(* remembered in fingerprints and skipped for the next case that asks for  *)
(* the same; what the phone shows is only looked at where a module has     *)
(* anchors.  So the memory of the worker and the state of the phone are    *)
(* two things here, and attempts that fail half-way or are healed move     *)
(* them apart.                                                             *)
(***************************************************************************)
EXTENDS Naturals, Sequences, SequencesExt, FiniteSets

CONSTANTS
  Cases,        \* the compiled cases of the run
  LoginOf,      \* the login a case asks for
  EntryOf,      \* the content a case starts from
  ModuleOf,     \* the module of a case
  ModeOf,       \* execution_mode of a case
  Anchored,     \* the modules with a page state that can be recognised
  LoggedOut,    \* the login of a guest
  ModuleDefault,\* the entry context that asks for no content
  NoModule,     \* a case without a module
  Nothing,         \* nothing remembered, nothing on the screen
  Budget,       \* heal_budget_setup and heal_budget_case
  SelfHeal      \* self_heal_enabled

Logins == {LoginOf[c] : c \in Cases} \cup {LoggedOut}
Entries == {EntryOf[c] : c \in Cases} \cup {Nothing}
Modules == {ModuleOf[c] : c \in Cases} \cup {Nothing}
Modes == {"deterministic", "hybrid", "agent"}

Outcomes == {"passed", "failed", "broken"}
BadOutcomes == {"failed", "broken"}

ASSUME CaseAssumption ==
  /\ IsFiniteSet(Cases)
  /\ Nothing \notin Cases /\ Nothing \notin Outcomes
  /\ ModeOf \in [Cases -> Modes]
  /\ NoModule \notin Anchored
  /\ Budget \in Nat \ {0}
  /\ SelfHeal \in BOOLEAN

LoginFingerprint(c) == LoginOf[c]
EntryFingerprint(c) == <<EntryOf[c], ModuleOf[c]>>
PreconditionFingerprint(c) == <<LoginOf[c], EntryOf[c], ModuleOf[c]>>

(***************************************************************************)
(* Cases with the same fingerprint run behind each other: no other case    *)
(* comes between two of them.                                              *)
(***************************************************************************)
GroupedCases(cases) ==
  \A i, j, k \in DOMAIN cases :
    /\ i < j /\ j < k
    /\ PreconditionFingerprint(cases[i]) = PreconditionFingerprint(cases[k])
    => PreconditionFingerprint(cases[j]) = PreconditionFingerprint(cases[i])

(***************************************************************************)
(* Where the worker is with its case:                                      *)
(*   take     between two cases                                            *)
(*   try      at an attempt of what scope says                             *)
(*   steps    in the module, before the steps of the case                  *)
(*   failed   an attempt has failed: diagnose, or give up                  *)
(*   done     no case left, the summary is written                         *)
(***************************************************************************)
VARIABLES
  pc,
  scope,   \* the attempt: of the preparation, of the session, of the case
  todo,    \* the cases that wait
  cur,     \* the case at work
  need,    \* need_login and need_entry, as the case found them
  used,    \* heal_used of the healing under way, 0 when there is none
  failure, \* what the last attempt failed of
  first,   \* the outcome that is kept when no healing helps
  remembered,  \* precondition_setup_state and the coordinator's current module
  app,     \* the phone: who is logged in, which content and module it shows
  result,  \* results/<case_id>.json
  defects, \* defects.json
  failed,  \* the cases whose test has failed
  behind   \* history: the logins the phone was moved to since the last
           \* preparation that succeeded, and the one that a preparation for
           \* a guest did not see

sessionVars == <<pc, scope, todo, cur, need, used, failure, first, remembered, app,
          result, defects, failed, behind>>

Failures == {"none", "setup", "navigation", "nested", "steps"}
Phone == [login : Logins, entry : Entries, module : Modules]

SessionTypeOK ==
  /\ pc \in {"take", "try", "steps", "failed", "done"}
  /\ scope \in {"setup", "session", "case"}
  /\ todo \in Seq(Cases)
  /\ cur \in Cases \cup {Nothing}
  /\ need \in [login : BOOLEAN, entry : BOOLEAN]
  /\ used \in 0..Budget
  /\ failure \in Failures
  /\ first \in BadOutcomes \cup {Nothing}
  /\ remembered \in [login : Logins \cup {Nothing},
                 entry : {EntryFingerprint(c) : c \in Cases} \cup {Nothing},
                 module : Modules \cup {NoModule}]
  /\ app \in Phone
  /\ result \in [Cases -> Outcomes \cup {Nothing}]
  /\ defects \in Seq(Cases)
  /\ failed \subseteq Cases
  /\ behind \subseteq Logins

SessionInit ==
  /\ pc = "take"
  /\ scope = "setup"
  /\ todo \in {cases \in SetToSeqs(Cases) : GroupedCases(cases)}
  /\ cur = Nothing
  /\ need = [login |-> FALSE, entry |-> FALSE]
  /\ used = 0
  /\ failure = "none"
  /\ first = Nothing
  /\ remembered = [login |-> Nothing, entry |-> Nothing, module |-> NoModule]
  /\ app \in [login : Logins, entry : {Nothing}, module : {Nothing}]
  /\ result = [c \in Cases |-> Nothing]
  /\ defects = <<>>
  /\ failed = {}
  /\ behind = Logins

-----------------------------------------------------------------------------
(***************************************************************************)
(* The preparation: _setup_attempt.                                        *)
(***************************************************************************)
TakeCase ==
  /\ pc = "take"
  /\ todo # <<>>
  /\ LET c == Head(todo)
         needed == [login |-> remembered.login # LoginFingerprint(c),
                    entry |-> remembered.entry # EntryFingerprint(c)]
     IN  /\ cur' = c
         /\ need' = needed
         /\ scope' = IF needed.login \/ needed.entry THEN "setup" ELSE "session"
  /\ todo' = Tail(todo)
  /\ pc' = "try"
  /\ used' = 0
  /\ failure' = "none"
  /\ first' = Nothing
  /\ UNCHANGED <<remembered, app, result, defects, failed, behind>>

Trying(what) == pc = "try" /\ scope = what

Home(login) == [login |-> login, entry |-> Nothing, module |-> Nothing]

(***************************************************************************)
(* Steps on the phone that nobody can tell the end of: the content may be  *)
(* gone, and any page may show.                                            *)
(***************************************************************************)
MoveAbout(login) ==
  \E e \in {app.entry, Nothing}, m \in Modules :
    app' = [login |-> login, entry |-> e, module |-> m]

(***************************************************************************)
(* The logins that ensure_login_state may come to.  For a guest it looks   *)
(* at the page that is shown, and only where that page tells of a login    *)
(* (_is_logged_in: the page "mine" does, the home page and a reader do     *)
(* not) does it log out; the page that follows is asked once more, and     *)
(* need not tell.  For a member it goes to the page that tells: who is     *)
(* logged in already stays logged in, whichever account the case asks for. *)
(***************************************************************************)
LoginReached(target) ==
  IF target = LoggedOut THEN {LoggedOut, app.login}
  ELSE IF app.login = LoggedOut THEN {target} ELSE {app.login}

RememberLogin ==
  IF need.login THEN [remembered EXCEPT !.login = LoginFingerprint(cur)] ELSE remembered

Fail(why) ==
  /\ failure' = why
  /\ pc' = "failed"
  /\ UNCHANGED <<scope, todo, cur, need, used, first, result, defects, failed>>

LoginFailsRemembered ==
  /\ Trying("setup")
  /\ need.login
  /\ \E login \in {app.login} \cup LoginReached(LoginOf[cur]) :
       MoveAbout(login) /\ behind' = behind \cup ({login} \ {app.login})
  /\ remembered' = RememberLogin
  /\ Fail("setup")

(***************************************************************************)
(* run_login_setup fails, having changed the login or not.                 *)
(***************************************************************************)
LoginFails ==
  /\ Trying("setup")
  /\ need.login
  /\ \E login \in {app.login} \cup LoginReached(LoginOf[cur]) :
       MoveAbout(login) /\ behind' = behind \cup ({login} \ {app.login})
  /\ UNCHANGED remembered
  /\ Fail("setup")

(***************************************************************************)
(* What the login may have come to when the attempt goes on to the entry,  *)
(* and what a preparation for a guest has not seen then.                   *)
(***************************************************************************)
LoginAfterSetup ==
  IF need.login THEN LoginReached(LoginOf[cur]) ELSE {app.login}

BehindAfterLogin(login) ==
  IF ~need.login THEN behind
  ELSE IF LoginOf[cur] = LoggedOut THEN {login} \ {LoggedOut} ELSE {}

EntryFails ==
  /\ Trying("setup")
  /\ need.entry
  /\ remembered' = RememberLogin
  /\ \E login \in LoginAfterSetup :
       MoveAbout(login) /\ behind' = BehindAfterLogin(login)
  /\ Fail("setup")

(***************************************************************************)
(* ensure_entry_context goes on from the home page to the content, if the  *)
(* case names one, and takes a page that it cannot recognise for reached.  *)
(***************************************************************************)
EntryReached(login) ==
  IF EntryOf[cur] = ModuleDefault THEN app' = Home(login)
  ELSE \E e \in {Nothing, EntryOf[cur]}, m \in {Nothing, ModuleOf[cur]} :
         app' = [login |-> login, entry |-> e, module |-> m]

(***************************************************************************)
(* Both go well.  Either of them leads to the home page of the app, and    *)
(* only the entry leads on from there.                                     *)
(***************************************************************************)
SetupSucceeds ==
  /\ Trying("setup")
  /\ remembered' = [RememberLogin EXCEPT
                  !.entry = IF need.entry THEN EntryFingerprint(cur) ELSE @]
  /\ \E login \in LoginAfterSetup :
       /\ IF need.entry THEN EntryReached(login) ELSE app' = Home(login)
       /\ behind' = BehindAfterLogin(login)
  /\ scope' = "session"
  /\ pc' = "try"
  /\ used' = 0
  /\ failure' = "none"
  /\ UNCHANGED <<todo, cur, need, first, result, defects, failed>>

-----------------------------------------------------------------------------
(***************************************************************************)
(* The session: prepare_module_session.  plan makes the module current     *)
(* whatever becomes of its entry.                                          *)
(***************************************************************************)
Entering == pc = "try" /\ scope \in {"session", "case"}

SameModule == ModuleOf[cur] # NoModule /\ ModuleOf[cur] = remembered.module
StateMatchesUnseen == TRUE
StateMatches == ModuleOf[cur] \in Anchored => app.module = ModuleOf[cur]
Navigates == ModuleOf[cur] \in Anchored /\ ModeOf[cur] \in {"hybrid", "agent"}

Plan == remembered' = [remembered EXCEPT !.module = ModuleOf[cur]]

InSession ==
  /\ pc' = "steps"
  /\ used' = IF scope = "session" THEN 0 ELSE used
  /\ failure' = "none"
  /\ UNCHANGED <<scope, todo, cur, need, first, result, defects, failed, behind>>

ReuseSession ==
  /\ Entering
  /\ SameModule /\ StateMatches
  /\ Plan
  /\ UNCHANGED app
  /\ InSession

(***************************************************************************)
(* A healed attempt runs in the event loop of asyncio.run(heal_run(...)),  *)
(* where the asyncio.run of the navigation raises: it navigates never,     *)
(* though the app is brought to the front before.                          *)
(***************************************************************************)
Healing == used > 0

EnterModule ==
  /\ Entering
  /\ ~(SameModule /\ StateMatches)
  /\ ~(Navigates /\ Healing)
  /\ Plan
  /\ IF ModuleOf[cur] \in Anchored
     THEN \E e \in {app.entry, Nothing} :
            app' = [app EXCEPT !.module = ModuleOf[cur], !.entry = e]
     ELSE UNCHANGED app
  /\ InSession

SessionFails ==
  /\ Entering
  /\ ~(SameModule /\ StateMatches)
  /\ ~(Navigates /\ Healing)
  /\ Plan
  /\ MoveAbout(app.login)
  /\ UNCHANGED behind
  /\ Fail("navigation")

NavigationNests ==
  /\ Entering
  /\ ~(SameModule /\ StateMatches)
  /\ Navigates /\ Healing
  /\ Plan
  /\ MoveAbout(app.login)
  /\ UNCHANGED behind
  /\ Fail("nested")

-----------------------------------------------------------------------------
(***************************************************************************)
(* The steps of the case: run_case.  They may leave the app anywhere and   *)
(* log in or out.                                                          *)
(***************************************************************************)
PlaySteps ==
  /\ \E login \in Logins :
       /\ MoveAbout(login)
       /\ behind' = IF login = app.login THEN behind ELSE behind \cup {login}
  /\ UNCHANGED <<todo, need, remembered>>

(***************************************************************************)
(* The end of a case that was played: its result, its defect, its verdict. *)
(***************************************************************************)
Record(outcome) ==
  /\ result' = [result EXCEPT ![cur] = outcome]
  /\ IF outcome \in BadOutcomes
     THEN defects' = Append(defects, cur) /\ failed' = failed \cup {cur}
     ELSE UNCHANGED <<defects, failed>>
  /\ pc' = "take"
  /\ cur' = Nothing
  /\ used' = 0
  /\ failure' = "none"
  /\ UNCHANGED <<scope, first>>

(***************************************************************************)
(* In a healed attempt the steps of an agent cannot run either.            *)
(***************************************************************************)
CasePasses ==
  /\ pc = "steps"
  /\ ~(ModeOf[cur] = "agent" /\ Healing)
  /\ PlaySteps
  /\ Record("passed")

CaseFailsRecorded ==
  /\ pc = "steps"
  /\ PlaySteps
  /\ \/ /\ scope = "session"
        /\ SelfHeal
        /\ first' \in BadOutcomes
        /\ scope' = "case"
        /\ pc' = "failed"
        /\ used' = 0
        /\ failure' = "steps"
        /\ defects' = Append(defects, cur)
        /\ UNCHANGED <<cur, result, failed>>
     \/ /\ scope = "case"
        /\ pc' = "failed"
        /\ failure' = "steps"
        /\ UNCHANGED <<scope, cur, used, first, result, defects, failed>>

CaseFails ==
  /\ pc = "steps"
  /\ PlaySteps
  /\ \/ /\ scope = "session"
        /\ SelfHeal
        /\ first' \in BadOutcomes
        /\ scope' = "case"
        /\ pc' = "failed"
        /\ used' = 0
        /\ failure' = "steps"
        /\ UNCHANGED <<cur, result, defects, failed>>
     \/ /\ scope = "session"
        /\ ~SelfHeal
        /\ \E outcome \in BadOutcomes : Record(outcome)
     \/ /\ scope = "case"
        /\ pc' = "failed"
        /\ failure' = "steps"
        /\ UNCHANGED <<scope, cur, used, first, result, defects, failed>>

-----------------------------------------------------------------------------
(***************************************************************************)
(* run_heal_loop: diagnose, apply, attempt again.  A plan that cannot be   *)
(* applied costs its part of the budget too.                               *)
(***************************************************************************)
MayHeal == pc = "failed" /\ SelfHeal /\ used < Budget

ApplyPlan ==
  /\ MayHeal
  /\ used' = used + 1
  /\ MoveAbout(app.login)
  /\ pc' = "try"
  /\ UNCHANGED <<scope, todo, cur, need, failure, first, remembered, result, defects,
                 failed, behind>>

ApplyFailsForFree ==
  /\ MayHeal
  /\ MoveAbout(app.login)
  /\ UNCHANGED <<pc, scope, todo, cur, need, used, failure, first, remembered, result,
                 defects, failed, behind>>

ApplyFails ==
  /\ MayHeal
  /\ used' = used + 1
  /\ MoveAbout(app.login)
  /\ UNCHANGED <<pc, scope, todo, cur, need, failure, first, remembered, result, defects,
                 failed, behind>>

(***************************************************************************)
(* The budget is spent, healing is off, the diagnosis gives up, or the     *)
(* failure is a defect of the product or of a kind nobody heals.  A case   *)
(* that was played keeps its first result; one that was not prepared has   *)
(* only its failed test.                                                   *)
(***************************************************************************)
GiveUpCase ==
  /\ pc = "failed"
  /\ scope = "case"
  /\ Record(first)
  /\ UNCHANGED <<todo, need, remembered, app, behind>>

GiveUpPreparation ==
  /\ pc = "failed"
  /\ scope \in {"setup", "session"}
  /\ failed' = failed \cup {cur}
  /\ pc' = "take"
  /\ cur' = Nothing
  /\ used' = 0
  /\ failure' = "none"
  /\ UNCHANGED <<scope, todo, need, first, remembered, app, result, defects, behind>>

Finish ==
  /\ pc = "take"
  /\ todo = <<>>
  /\ pc' = "done"
  /\ UNCHANGED <<scope, todo, cur, need, used, failure, first, remembered, app, result,
                 defects, failed, behind>>

SetupStep == LoginFails \/ EntryFails \/ SetupSucceeds
SessionStep == ReuseSession \/ EnterModule \/ SessionFails \/ NavigationNests
CaseStep == CasePasses \/ CaseFails
HealStep == ApplyPlan \/ ApplyFails \/ GiveUpCase \/ GiveUpPreparation

SessionNext == TakeCase \/ SetupStep \/ SessionStep \/ CaseStep \/ HealStep \/ Finish

SessionSpec == SessionInit /\ [][SessionNext]_sessionVars
FairSession == SessionSpec /\ WF_sessionVars(SessionNext)

-----------------------------------------------------------------------------
(***************************************************************************)
(* When the steps of a case start, somebody is logged in exactly if the    *)
(* case asks for it, unless the phone was moved to the other side since    *)
(* the last preparation that succeeded, by the steps of a case or by a     *)
(* preparation that failed, or the preparation for a guest did not see     *)
(* who was logged in.  So what a preparation for a member comes to is      *)
(* relied on by the cases behind it, and a guest only meets a login that   *)
(* its preparation was not shown.  (The skipped preparations of            *)
(* test_execution.py: the fingerprint is remembered after the setup, and a *)
(* failed setup is tried again by the next case.)                          *)
(***************************************************************************)
SameSide(l, k) == (l = LoggedOut) = (k = LoggedOut)

LoginAsAsked ==
  pc = "steps" /\ (\A l \in behind : SameSide(l, LoginOf[cur]))
    => SameSide(app.login, LoginOf[cur])

(***************************************************************************)
(* The steps of a case of a module with anchors start on the page of that  *)
(* module, in a first attempt or a healed one, whichever case ran before   *)
(* and wherever it left the app (prepare_module_session).                  *)
(***************************************************************************)
ModulePageInPlace ==
  pc = "steps" /\ ModuleOf[cur] \in Anchored => app.module = ModuleOf[cur]

(***************************************************************************)
(* A case that was played and did not pass has one defect, however often   *)
(* it was healed and tried again, and every other case has none (the end   *)
(* of test_execution.py: results and defects are written once, after the   *)
(* healing).                                                               *)
(***************************************************************************)
DefectPerFailure ==
  /\ \A c \in Cases : c \in ToSet(defects) <=> result[c] \in BadOutcomes
  /\ IsInjective(defects)

(***************************************************************************)
(* Every step uses up some of the work there is: cases, the scopes of the  *)
(* case at work, what is left of the budget of the healing, the parts of   *)
(* an attempt, in this order.  So the worker cannot go on for ever.        *)
(***************************************************************************)
CasesLeft == 2 * Len(todo) + (IF cur = Nothing THEN 0 ELSE 1)
                           + (IF pc = "done" THEN 0 ELSE 1)
ScopesLeft == CASE scope = "setup" -> 3
                [] scope = "session" -> IF pc = "steps" THEN 1 ELSE 2
                [] scope = "case" -> 0
PartsLeft == CASE pc = "try" -> 2 [] pc = "steps" -> 1 [] OTHER -> 0
WorkLeft == <<CasesLeft, ScopesLeft, Budget - used, PartsLeft>>

Before(a, b) ==
  \E i \in DOMAIN b : a[i] < b[i] /\ \A j \in 1..(i - 1) : a[j] = b[j]

EveryStepCounts == [][Before(WorkLeft', WorkLeft)]_sessionVars

(***************************************************************************)
(* The worker comes to the end of its cases whatever fails and however the *)
(* healing goes (the budget of run_heal_loop).                             *)
(***************************************************************************)
Finishes == <>(pc = "done")

(***************************************************************************)
(* A preparation that reuses the entry of an earlier case leaves the       *)
(* content in place if it was there: login and entry can be reused         *)
(* independently (login_fingerprint of precondition_spec.py).  Does not    *)
(* hold: the setup of another login ends on the home page.                 *)
(***************************************************************************)
KeepsEntry ==
  [][ /\ Trying("setup") /\ scope' = "session"
      /\ ~need.entry
      /\ app.entry = EntryOf[cur]
      => app'.entry = EntryOf[cur] ]_sessionVars

(***************************************************************************)
(* Behind a preparation for a guest nobody is logged in, as the failure    *)
(* "the target is logged out, but the page still shows a login" of         *)
(* ensure_login_state is there to make sure.  Does not hold: on a page     *)
(* that shows no name nothing is logged out, the preparation succeeds and  *)
(* is remembered as one of a guest.                                        *)
(***************************************************************************)
GuestsAreLoggedOut ==
  [][ /\ Trying("setup") /\ scope' = "session"
      /\ need.login /\ LoginOf[cur] = LoggedOut
      => app'.login = LoggedOut ]_sessionVars

(***************************************************************************)
(* The navigation that enters a module again in a healed attempt runs, as  *)
(* apply_execution_plan (heal/__init__.py) counts on.  Does not hold.      *)
(***************************************************************************)
ReentryNavigates == failure # "nested"

(***************************************************************************)
(* Every case whose test failed has a result and a defect when the worker  *)
(* is done (the head of test_execution.py).  Does not hold: a preparation  *)
(* that fails leaves neither.                                              *)
(***************************************************************************)
FailuresAreRecorded ==
  pc = "done" => \A c \in failed : result[c] \in BadOutcomes /\ c \in ToSet(defects)
=============================================================================
