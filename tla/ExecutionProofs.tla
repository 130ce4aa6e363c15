-------------------------- MODULE ExecutionProofs --------------------------
(***************************************************************************)
(* What holds of the worker that plays the cases of a run (CaseSession)    *)
(* and of the service that starts the runs and answers for them            *)
(* (ExecutionBridge), for any number of cases, modules, logins and runs,   *)
(* any budget of healing, and any number of kills of the server.           *)
(*                                                                         *)
(* The worker first.  Its argument for the logins goes through what it     *)
(* remembers: as long as nothing has moved the phone behind its back the   *)
(* remembered login is the one the phone is at (LoginRemembered: what the  *)
(* preparation for a guest has not seen counts as such a move), and when   *)
(* the preparation of a case is over what is remembered is what that case  *)
(* asks for (Prepared).                                                    *)
(***************************************************************************)
EXTENDS CaseSession, ExecutionBridge, FiniteSetTheorems, WellFoundedInduction, TLAPS

(* The worker has a case except between two of them; what it falls back on
   when healing does not help is a failure. *)
AtWork ==
  /\ pc \in {"take", "done"} <=> cur = Nothing
  /\ scope = "case" => first \in BadOutcomes
  /\ pc = "steps" => scope \in {"session", "case"}

WorkerTyped == SessionTypeOK /\ AtWork

Prepared ==
  cur # Nothing /\ (scope # "setup" \/ ~need.login)
    => remembered.login = LoginOf[cur]

LoginRemembered ==
  (\A l \in behind : SameSide(l, remembered.login))
    => SameSide(app.login, remembered.login)

LoginFits == Prepared /\ LoginRemembered

(* No case is played twice: those that wait, and the one at work, have no
   result yet. *)
PlayedOnce ==
  /\ IsInjective(todo)
  /\ cur \notin ToSet(todo)
  /\ \A c \in Cases : c = cur \/ c \in ToSet(todo) => result[c] = Nothing

-----------------------------------------------------------------------------
(* Sequences: the rest of a sequence holds what it held, without the head  *)
(* if that comes only once,                                                *)
LEMMA RestOf ==
  ASSUME NEW S, NEW s \in Seq(S), s # <<>>
  PROVE  /\ Head(s) \in S
         /\ Tail(s) \in Seq(S)
         /\ Len(s) \in Nat /\ Len(s) > 0
         /\ Len(Tail(s)) = Len(s) - 1
         /\ ToSet(Tail(s)) \subseteq ToSet(s)
         /\ Head(s) \in ToSet(s)
         /\ IsInjective(s) => IsInjective(Tail(s)) /\ Head(s) \notin ToSet(Tail(s))
<1>1. /\ Head(s) = s[1] /\ Len(s) \in Nat /\ Len(s) > 0 /\ DOMAIN s = 1..Len(s)
      /\ \A i \in DOMAIN s : s[i] \in S
  OBVIOUS
<1>2. /\ Tail(s) \in Seq(S) /\ Len(Tail(s)) = Len(s) - 1
      /\ DOMAIN Tail(s) = 1..(Len(s) - 1)
      /\ \A i \in 1..(Len(s) - 1) : Tail(s)[i] = s[i + 1]
  OBVIOUS
<1>3. \A i \in DOMAIN Tail(s) : i \in Nat /\ i + 1 \in DOMAIN s /\ i + 1 # 1
  BY <1>1, <1>2
<1>4. ToSet(Tail(s)) \subseteq ToSet(s)
  BY <1>1, <1>2, <1>3 DEF ToSet
<1>5. Head(s) \in S /\ Head(s) \in ToSet(s) /\ 1 \in DOMAIN s
  BY <1>1 DEF ToSet
<1>6. ASSUME IsInjective(s)
      PROVE  IsInjective(Tail(s)) /\ Head(s) \notin ToSet(Tail(s))
  <2>1. ASSUME NEW i \in DOMAIN Tail(s), NEW j \in DOMAIN Tail(s),
               Tail(s)[i] = Tail(s)[j]
        PROVE  i = j
    <3>1. s[i + 1] = s[j + 1]
      BY <2>1, <1>2
    <3>2. i + 1 = j + 1
      BY <3>1, <1>6, <1>3 DEF IsInjective
    <3> QED
      BY <3>2, <1>3
  <2>2. ASSUME NEW i \in DOMAIN Tail(s), Tail(s)[i] = Head(s)
        PROVE  FALSE
    <3>1. s[i + 1] = s[1]
      BY <2>2, <1>1, <1>2
    <3> QED
      BY <3>1, <1>6, <1>3, <1>5 DEF IsInjective
  <2> QED
    BY <2>1, <2>2 DEF IsInjective, ToSet
<1> QED
  BY <1>1, <1>2, <1>4, <1>5, <1>6

(* and one more at the end of it is one more in it. *)
LEMMA OneMore ==
  ASSUME NEW S, NEW s \in Seq(S), NEW x \in S
  PROVE  /\ Append(s, x) \in Seq(S)
         /\ ToSet(Append(s, x)) = ToSet(s) \cup {x}
         /\ IsInjective(s) /\ x \notin ToSet(s) => IsInjective(Append(s, x))
<1> DEFINE a == Append(s, x)
<1>1. /\ a \in Seq(S) /\ DOMAIN s = 1..Len(s) /\ Len(s) \in Nat
      /\ DOMAIN a = 1..(Len(s) + 1)
      /\ a[Len(s) + 1] = x
      /\ \A i \in 1..Len(s) : a[i] = s[i]
  OBVIOUS
<1> HIDE DEF a
<1>2. DOMAIN a = DOMAIN s \cup {Len(s) + 1}
  BY <1>1
<1>3. ToSet(a) = ToSet(s) \cup {x}
  BY <1>1, <1>2, Zenon DEF ToSet
<1>4. IsInjective(s) /\ x \notin ToSet(s) => IsInjective(a)
  BY <1>1, <1>2, Zenon DEF IsInjective, ToSet
<1> QED
  BY <1>1, <1>3, <1>4 DEF a

-----------------------------------------------------------------------------
(* What a case asks for, and what it leaves behind, has the types it should
   have. *)
LEMMA CaseTypes ==
  ASSUME NEW c \in Cases
  PROVE  /\ c # Nothing
         /\ LoginFingerprint(c) = LoginOf[c]
         /\ LoginOf[c] \in Logins /\ LoggedOut \in Logins
         /\ EntryOf[c] \in Entries /\ Nothing \in Entries
         /\ ModuleOf[c] \in Modules /\ Nothing \in Modules
  BY CaseAssumption DEF Logins, Entries, Modules, LoginFingerprint

LEMMA LoginReachedType ==
  ASSUME app \in Phone, NEW target \in Logins
  PROVE  LoginReached(target) \subseteq Logins
  BY DEF LoginReached, Phone, Logins

LEMMA PhoneMoved ==
  ASSUME app \in Phone, NEW login \in Logins, MoveAbout(login)
  PROVE  app' \in Phone /\ app'.login = login
  BY DEF MoveAbout, Phone, Entries

(* A login that was asked for and reached is on the side that was asked
   for, but for one that a preparation for a guest did not see. *)
LEMMA ReachedSide ==
  ASSUME NEW target, NEW login \in LoginReached(target)
  PROVE  \/ SameSide(login, target)
         \/ target = LoggedOut /\ login # LoggedOut
  BY DEF SameSide, LoginReached

-----------------------------------------------------------------------------
LEMMA SessionStarts ==
  SessionInit => WorkerTyped
<1> SUFFICES ASSUME SessionInit
             PROVE  WorkerTyped
  OBVIOUS
<1>1. todo \in Seq(Cases)
  <2>1. Cardinality(Cases) \in Nat
    BY CaseAssumption, FS_CardinalityType
  <2>2. todo \in [1..Cardinality(Cases) -> Cases]
    BY DEF SessionInit, SetToSeqs
  <2> QED
    BY <2>1, <2>2
<1>2. Budget \in Nat
  BY CaseAssumption
<1>3. app \in Phone
  BY DEF SessionInit, Phone, Entries, Modules
<1>4. /\ result \in [Cases -> Outcomes \cup {Nothing}]
      /\ need \in [login : BOOLEAN, entry : BOOLEAN]
      /\ remembered \in [login : Logins \cup {Nothing},
                         entry : {EntryFingerprint(c) : c \in Cases} \cup {Nothing},
                         module : Modules \cup {NoModule}]
  BY DEF SessionInit
<1>5. AtWork
  BY DEF SessionInit, AtWork
<1> QED
  BY <1>1, <1>2, <1>3, <1>4, <1>5
  DEF SessionInit, WorkerTyped, SessionTypeOK, Failures

(* What a failed attempt leaves as it is. *)
LEMMA FailTyped ==
  ASSUME WorkerTyped, NEW why \in Failures, Fail(why), cur # Nothing,
         app' \in Phone, behind' \subseteq Logins,
         remembered' \in [login : Logins \cup {Nothing},
                          entry : {EntryFingerprint(c) : c \in Cases} \cup {Nothing},
                          module : Modules \cup {NoModule}]
  PROVE  WorkerTyped'
<1>1. SessionTypeOK'
  BY DEF WorkerTyped, SessionTypeOK, Fail
<1>2. AtWork'
  BY DEF WorkerTyped, AtWork, Fail
<1> QED
  BY <1>1, <1>2 DEF WorkerTyped

(* What the end of a case leaves as it is. *)
LEMMA RecordTyped ==
  ASSUME WorkerTyped, NEW outcome \in Outcomes, cur # Nothing,
         Record(outcome), UNCHANGED <<todo, need, remembered>>,
         app' \in Phone, behind' \subseteq Logins
  PROVE  WorkerTyped'
<1>1. cur \in Cases
  BY DEF WorkerTyped, SessionTypeOK
<1>2. defects' \in Seq(Cases) /\ failed' \subseteq Cases
  <2>1. defects \in Seq(Cases) /\ failed \subseteq Cases
    BY DEF WorkerTyped, SessionTypeOK
  <2>2. CASE outcome \in BadOutcomes
    BY <1>1, <2>1, <2>2 DEF Record
  <2>3. CASE outcome \notin BadOutcomes
    BY <2>1, <2>3 DEF Record
  <2> QED
    BY <2>2, <2>3
<1>3. result' \in [Cases -> Outcomes \cup {Nothing}]
  BY DEF Record, WorkerTyped, SessionTypeOK
<1>4. SessionTypeOK'
  BY <1>2, <1>3, CaseAssumption DEF WorkerTyped, SessionTypeOK, Record, Failures
<1>5. AtWork'
  BY DEF WorkerTyped, AtWork, Record
<1> QED
  BY <1>4, <1>5 DEF WorkerTyped

LEMMA RememberTyped ==
  ASSUME WorkerTyped, cur # Nothing
  PROVE  /\ cur \in Cases
         /\ RememberLogin \in [login : Logins \cup {Nothing},
                               entry : {EntryFingerprint(c) : c \in Cases} \cup {Nothing},
                               module : Modules \cup {NoModule}]
         /\ RememberLogin.login = IF need.login THEN LoginOf[cur] ELSE remembered.login
         /\ LoginAfterSetup \subseteq Logins
         /\ \A login \in LoginAfterSetup : BehindAfterLogin(login) \subseteq Logins
<1>1. cur \in Cases
  BY DEF WorkerTyped, SessionTypeOK
<1>2. /\ LoginFingerprint(cur) = LoginOf[cur] /\ LoginOf[cur] \in Logins
  BY <1>1, CaseTypes
<1>3. LoginReached(LoginOf[cur]) \subseteq Logins
  BY <1>2, LoginReachedType DEF WorkerTyped, SessionTypeOK
<1>4. /\ LoginAfterSetup \subseteq Logins
      /\ \A login \in LoginAfterSetup : BehindAfterLogin(login) \subseteq Logins
  BY <1>3 DEF LoginAfterSetup, BehindAfterLogin, WorkerTyped, SessionTypeOK, Phone
<1> QED
  BY <1>1, <1>2, <1>4 DEF RememberLogin, WorkerTyped, SessionTypeOK

(* What the session leaves as it is. *)
LEMMA InSessionTyped ==
  ASSUME WorkerTyped, Entering, Plan, InSession, app' \in Phone
  PROVE  WorkerTyped'
<1>1. cur \in Cases /\ cur # Nothing /\ ModuleOf[cur] \in Modules
  BY CaseAssumption, CaseTypes DEF WorkerTyped, SessionTypeOK, AtWork, Entering
<1>2. remembered' \in [login : Logins \cup {Nothing},
                       entry : {EntryFingerprint(c) : c \in Cases} \cup {Nothing},
                       module : Modules \cup {NoModule}]
  BY <1>1 DEF Plan, WorkerTyped, SessionTypeOK
<1>3. SessionTypeOK'
  BY <1>2, CaseAssumption DEF WorkerTyped, SessionTypeOK, InSession, Failures
<1>4. AtWork'
  BY <1>1 DEF WorkerTyped, AtWork, InSession, Entering
<1> QED
  BY <1>3, <1>4 DEF WorkerTyped

LEMMA PlayTyped ==
  ASSUME WorkerTyped, PlaySteps
  PROVE  app' \in Phone /\ behind' \subseteq Logins
<1>1. PICK login \in Logins :
        /\ MoveAbout(login)
        /\ behind' = IF login = app.login THEN behind ELSE behind \cup {login}
  BY DEF PlaySteps
<1> QED
  BY <1>1, PhoneMoved DEF WorkerTyped, SessionTypeOK

LEMMA SessionStepsTyped ==
  WorkerTyped /\ [SessionNext]_sessionVars => WorkerTyped'
<1> SUFFICES ASSUME WorkerTyped, [SessionNext]_sessionVars
             PROVE  WorkerTyped'
  OBVIOUS
<1> USE DEF WorkerTyped
<1>c. Budget \in Nat
  BY CaseAssumption
<1>w. ASSUME pc # "take", pc # "done"
      PROVE  cur \in Cases /\ cur # Nothing
  BY <1>w DEF SessionTypeOK, AtWork
<1>1. CASE TakeCase
  <2>1. todo \in Seq(Cases) /\ todo # <<>>
    BY <1>1 DEF TakeCase, SessionTypeOK
  <2>2. Head(todo) \in Cases /\ Tail(todo) \in Seq(Cases)
    BY <2>1, RestOf
  <2>3. Head(todo) # Nothing
    BY <2>2, CaseTypes
  <2>4. cur' \in Cases /\ need' \in [login : BOOLEAN, entry : BOOLEAN]
        /\ scope' \in {"setup", "session"}
    BY <1>1, <2>2 DEF TakeCase
  <2>5. SessionTypeOK'
    BY <1>1, <1>c, <2>2, <2>4 DEF TakeCase, SessionTypeOK, Failures
  <2>6. AtWork'
    BY <1>1, <2>3, <2>4 DEF TakeCase, AtWork
  <2> QED
    BY <2>5, <2>6
<1>2. CASE LoginFails
  <2>1. cur \in Cases /\ cur # Nothing
    BY <1>2, <1>w DEF LoginFails, Trying
  <2>2. LoginOf[cur] \in Logins /\ app \in Phone
    BY <2>1, CaseTypes DEF SessionTypeOK
  <2>3. LoginReached(LoginOf[cur]) \subseteq Logins /\ app.login \in Logins
    BY <2>2, LoginReachedType DEF Phone
  <2>4. PICK login \in Logins :
          MoveAbout(login) /\ behind' = behind \cup ({login} \ {app.login})
    BY <1>2, <2>3 DEF LoginFails
  <2>5. app' \in Phone /\ behind' \subseteq Logins
    BY <2>2, <2>4, PhoneMoved DEF SessionTypeOK
  <2> QED
    BY <1>2, <2>1, <2>5, FailTyped DEF LoginFails, Failures, SessionTypeOK
<1>3. CASE EntryFails
  <2>1. cur \in Cases /\ cur # Nothing
    BY <1>3, <1>w DEF EntryFails, Trying
  <2>2. PICK login \in LoginAfterSetup :
          MoveAbout(login) /\ behind' = BehindAfterLogin(login)
    BY <1>3 DEF EntryFails
  <2>3. app' \in Phone /\ behind' \subseteq Logins
    BY <2>1, <2>2, RememberTyped, PhoneMoved DEF SessionTypeOK
  <2>4. remembered' = RememberLogin /\ Fail("setup")
    BY <1>3 DEF EntryFails
  <2> QED
    BY <2>1, <2>3, <2>4, RememberTyped, FailTyped DEF Failures
<1>4. CASE SetupSucceeds
  <2>1. cur \in Cases /\ cur # Nothing
    BY <1>4, <1>w DEF SetupSucceeds, Trying
  <2>a. PICK login \in LoginAfterSetup :
          /\ IF need.entry THEN EntryReached(login) ELSE app' = Home(login)
          /\ behind' = BehindAfterLogin(login)
    BY <1>4 DEF SetupSucceeds
  <2>2. login \in Logins /\ behind' \subseteq Logins
    BY <2>a, <2>1, RememberTyped
  <2>3. app' \in Phone
    BY <2>a, <2>1, <2>2, CaseTypes DEF EntryReached, Home, Phone
  <2>4. remembered' \in [login : Logins \cup {Nothing},
                         entry : {EntryFingerprint(c) : c \in Cases} \cup {Nothing},
                         module : Modules \cup {NoModule}]
    BY <1>4, <2>1, RememberTyped DEF SetupSucceeds
  <2>5. SessionTypeOK'
    BY <1>4, <1>c, <2>2, <2>3, <2>4 DEF SetupSucceeds, SessionTypeOK, Failures
  <2>6. AtWork'
    BY <1>4, <2>1 DEF SetupSucceeds, AtWork
  <2> QED
    BY <2>5, <2>6
<1>5. CASE ReuseSession
  BY <1>5, InSessionTyped DEF ReuseSession, SessionTypeOK
<1>6. CASE EnterModule
  <2>1. cur \in Cases /\ ModuleOf[cur] \in Modules
    BY <1>6, <1>w, CaseTypes DEF EnterModule, Entering
  <2>2. app' \in Phone
    BY <1>6, <2>1 DEF EnterModule, SessionTypeOK, Phone, Entries
  <2> QED
    BY <1>6, <2>2, InSessionTyped DEF EnterModule
<1>7. CASE SessionFails \/ NavigationNests
  <2>1. cur \in Cases /\ cur # Nothing /\ ModuleOf[cur] \in Modules
    BY <1>7, <1>w, CaseTypes DEF SessionFails, NavigationNests, Entering
  <2>2. app' \in Phone
    <3>1. app \in Phone /\ app.login \in Logins
      BY DEF SessionTypeOK, Phone
    <3> QED
      BY <1>7, <3>1, PhoneMoved DEF SessionFails, NavigationNests
  <2>3. remembered' \in [login : Logins \cup {Nothing},
                         entry : {EntryFingerprint(c) : c \in Cases} \cup {Nothing},
                         module : Modules \cup {NoModule}]
    BY <1>7, <2>1 DEF SessionFails, NavigationNests, Plan, SessionTypeOK
  <2>4. behind' \subseteq Logins
    BY <1>7 DEF SessionFails, NavigationNests, SessionTypeOK
  <2>5. Fail("navigation") \/ Fail("nested")
    BY <1>7 DEF SessionFails, NavigationNests
  <2> QED
    BY <2>1, <2>2, <2>3, <2>4, <2>5, FailTyped DEF Failures
<1>8. CASE CasePasses
  <2>1. cur # Nothing /\ PlaySteps /\ Record("passed")
    BY <1>8, <1>w DEF CasePasses
  <2>2. app' \in Phone /\ behind' \subseteq Logins
    BY <2>1, PlayTyped
  <2> QED
    BY <2>1, <2>2, RecordTyped DEF PlaySteps, Outcomes
<1>9. CASE CaseFails
  <2>1. cur # Nothing /\ PlaySteps
    BY <1>9, <1>w DEF CaseFails
  <2>2. /\ app' \in Phone /\ behind' \subseteq Logins
        /\ UNCHANGED <<todo, need, remembered>>
    BY <2>1, PlayTyped DEF PlaySteps
  <2>3. ASSUME NEW outcome \in BadOutcomes, Record(outcome)
        PROVE  WorkerTyped'
    <3>1. outcome \in Outcomes
      BY <2>3 DEF Outcomes, BadOutcomes
    <3> QED
      BY <2>1, <2>2, <2>3, <3>1, RecordTyped
  <2>4. ASSUME pc' = "failed", used' \in {0, used}, failure' = "steps",
               scope' = "case", first' \in BadOutcomes,
               UNCHANGED <<cur, result, defects, failed>>
        PROVE  WorkerTyped'
    <3>1. SessionTypeOK'
      BY <1>c, <2>2, <2>4 DEF SessionTypeOK, Failures
    <3>2. AtWork'
      BY <2>1, <2>4 DEF AtWork
    <3> QED
      BY <3>1, <3>2
  <2>5. scope = "case" => first \in BadOutcomes
    BY DEF AtWork
  <2> QED
    BY <1>9, <2>3, <2>4, <2>5 DEF CaseFails
<1>10. CASE ApplyPlan \/ ApplyFails
  <2>1. cur # Nothing
    BY <1>10, <1>w DEF ApplyPlan, ApplyFails, MayHeal
  <2>2. app' \in Phone
    <3>1. app \in Phone /\ app.login \in Logins
      BY DEF SessionTypeOK, Phone
    <3> QED
      BY <1>10, <3>1, PhoneMoved DEF ApplyPlan, ApplyFails
  <2>3. used' \in 0..Budget
    BY <1>10, <1>c DEF ApplyPlan, ApplyFails, MayHeal, SessionTypeOK
  <2>4. SessionTypeOK'
    BY <1>10, <2>2, <2>3 DEF ApplyPlan, ApplyFails, MayHeal, SessionTypeOK
  <2>5. AtWork'
    BY <1>10, <2>1 DEF ApplyPlan, ApplyFails, MayHeal, AtWork
  <2> QED
    BY <2>4, <2>5
<1>11. CASE GiveUpCase
  <2>1. cur # Nothing /\ first \in BadOutcomes /\ Record(first)
    BY <1>11, <1>w DEF GiveUpCase, AtWork
  <2>2. first \in Outcomes
    BY <2>1 DEF Outcomes, BadOutcomes
  <2> QED
    BY <1>11, <2>1, <2>2, RecordTyped DEF GiveUpCase, SessionTypeOK
<1>12. CASE GiveUpPreparation
  <2>1. cur \in Cases
    BY <1>12, <1>w DEF GiveUpPreparation
  <2>2. SessionTypeOK'
    BY <1>12, <1>c, <2>1 DEF GiveUpPreparation, SessionTypeOK, Failures
  <2>3. AtWork'
    BY <1>12 DEF GiveUpPreparation, AtWork
  <2> QED
    BY <2>2, <2>3
<1>13. CASE Finish
  <2>1. SessionTypeOK'
    BY <1>13 DEF Finish, SessionTypeOK
  <2>2. AtWork'
    BY <1>13 DEF Finish, AtWork
  <2> QED
    BY <2>1, <2>2
<1>14. CASE UNCHANGED sessionVars
  BY <1>14 DEF sessionVars, SessionTypeOK, AtWork
<1> QED
  BY <1>1, <1>2, <1>3, <1>4, <1>5, <1>6, <1>7, <1>8, <1>9, <1>10, <1>11, <1>12, <1>13,
     <1>14
  DEF SessionNext, SetupStep, SessionStep, CaseStep, HealStep

LEMMA WorkerAlwaysTyped ==
  SessionSpec => []WorkerTyped
<1> QED
  BY SessionStarts, SessionStepsTyped, PTL DEF SessionSpec

(* The variables of the worker keep their types, on any set of cases and    *)
(* for any budget of healing.                                               *)
THEOREM SessionTypeCorrect ==
  SessionSpec => []SessionTypeOK
<1>1. WorkerTyped => SessionTypeOK
  BY DEF WorkerTyped
<1> QED
  BY <1>1, WorkerAlwaysTyped, PTL

-----------------------------------------------------------------------------
(* The steps that change nothing of the logins. *)
LEMMA LoginUnmoved ==
  ASSUME LoginFits, cur # Nothing, cur' = cur, need' = need,
         remembered'.login = remembered.login, behind' = behind,
         app'.login = app.login,
         scope # "setup" \/ scope' = "setup"
  PROVE  LoginFits'
<1>1. Prepared'
  BY DEF LoginFits, Prepared
<1>2. LoginRemembered'
  BY DEF LoginFits, LoginRemembered, SameSide
<1> QED
  BY <1>1, <1>2 DEF LoginFits

(* The phone is moved by the steps of a case. *)
LEMMA LoginPlayed ==
  ASSUME WorkerTyped, LoginFits, PlaySteps
  PROVE  LoginRemembered'
<1>1. PICK login \in Logins :
        /\ MoveAbout(login)
        /\ behind' = IF login = app.login THEN behind ELSE behind \cup {login}
  BY DEF PlaySteps
<1>2. app'.login = login
  BY <1>1, PhoneMoved DEF WorkerTyped, SessionTypeOK
<1>3. remembered' = remembered
  BY DEF PlaySteps
<1>4. CASE login = app.login
  BY <1>1, <1>2, <1>3, <1>4 DEF LoginFits, LoginRemembered, SameSide
<1>5. CASE login # app.login
  BY <1>1, <1>2, <1>3, <1>5 DEF LoginFits, LoginRemembered, SameSide
<1> QED
  BY <1>4, <1>5

(* A preparation that comes through its login. *)
LEMMA LoginPrepared ==
  ASSUME WorkerTyped, LoginFits, cur # Nothing, cur' = cur, need' = need,
         remembered'.login = RememberLogin.login,
         NEW login \in LoginAfterSetup,
         app'.login = login, behind' = BehindAfterLogin(login)
  PROVE  LoginFits'
<1>1. RememberLogin.login = IF need.login THEN LoginOf[cur] ELSE remembered.login
  BY RememberTyped
<1>2. CASE need.login
  <2>1. remembered'.login = LoginOf[cur] /\ login \in LoginReached(LoginOf[cur])
    BY <1>1, <1>2 DEF LoginAfterSetup
  <2>2. CASE SameSide(login, LoginOf[cur])
    BY <2>1, <2>2 DEF LoginFits, Prepared, LoginRemembered
  <2>3. CASE LoginOf[cur] = LoggedOut /\ login # LoggedOut
    <3>1. login \in behind' /\ ~SameSide(login, remembered'.login)
      BY <1>2, <2>1, <2>3 DEF BehindAfterLogin, SameSide
    <3> QED
      BY <2>1, <3>1 DEF LoginFits, Prepared, LoginRemembered
  <2> QED
    BY <2>1, <2>2, <2>3, ReachedSide
<1>3. CASE ~need.login
  <2>1. /\ remembered'.login = remembered.login /\ app'.login = app.login
        /\ behind' = behind
    BY <1>1, <1>3 DEF LoginAfterSetup, BehindAfterLogin
  <2>2. remembered.login = LoginOf[cur]
    BY <1>3 DEF LoginFits, Prepared
  <2> QED
    BY <2>1, <2>2 DEF LoginFits, Prepared, LoginRemembered, SameSide
<1> QED
  BY <1>2, <1>3

LEMMA LoginStarts ==
  SessionInit => LoginFits
<1> SUFFICES ASSUME SessionInit
             PROVE  LoginFits
  OBVIOUS
<1>1. app.login \in behind /\ cur = Nothing
  BY DEF SessionInit
<1> QED
  BY <1>1 DEF LoginFits, Prepared, LoginRemembered

LEMMA LoginStep ==
  WorkerTyped /\ LoginFits /\ [SessionNext]_sessionVars => LoginFits'
<1> SUFFICES ASSUME WorkerTyped, LoginFits, [SessionNext]_sessionVars
             PROVE  LoginFits'
  OBVIOUS
<1>w. ASSUME pc # "take", pc # "done"
      PROVE  cur \in Cases /\ cur # Nothing
  BY <1>w DEF WorkerTyped, SessionTypeOK, AtWork
<1>t. app \in Phone /\ app.login \in Logins
  BY DEF WorkerTyped, SessionTypeOK, Phone
<1>1. CASE TakeCase
  <2>1. /\ cur' = Head(todo) /\ remembered' = remembered
        /\ app' = app /\ behind' = behind
        /\ need'.login = (remembered.login # LoginOf[Head(todo)])
        /\ scope' # "setup" => ~need'.login
    BY <1>1 DEF TakeCase, LoginFingerprint
  <2> QED
    BY <2>1 DEF LoginFits, Prepared, LoginRemembered, SameSide
<1>2. CASE LoginFails
  <2>1. cur \in Cases /\ cur # Nothing
    BY <1>2, <1>w DEF LoginFails, Trying
  <2>2. PICK login \in {app.login} \cup LoginReached(LoginOf[cur]) :
          MoveAbout(login) /\ behind' = behind \cup ({login} \ {app.login})
    BY <1>2 DEF LoginFails
  <2>3. LoginReached(LoginOf[cur]) \subseteq Logins
    BY <1>t, <2>1, CaseTypes, LoginReachedType
  <2>4. app'.login = login
    BY <2>2, <2>3, <1>t, PhoneMoved
  <2>5. remembered' = remembered
    BY <1>2 DEF LoginFails
  <2>6. LoginRemembered'
    BY <2>2, <2>4, <2>5 DEF LoginFits, LoginRemembered, SameSide
  <2>7. Prepared'
    BY <1>2, <2>5 DEF LoginFits, Prepared, LoginFails, Fail
  <2> QED
    BY <2>6, <2>7 DEF LoginFits
<1>3. CASE EntryFails
  <2>1. cur \in Cases /\ cur # Nothing
    BY <1>3, <1>w DEF EntryFails, Trying
  <2>2. PICK login \in LoginAfterSetup :
          MoveAbout(login) /\ behind' = BehindAfterLogin(login)
    BY <1>3 DEF EntryFails
  <2>3. app'.login = login
    BY <2>1, <2>2, <1>t, RememberTyped, PhoneMoved
  <2> QED
    BY <1>3, <2>1, <2>2, <2>3, LoginPrepared DEF EntryFails, Fail
<1>4. CASE SetupSucceeds
  <2>1. cur \in Cases /\ cur # Nothing
    BY <1>4, <1>w DEF SetupSucceeds, Trying
  <2>a. PICK login \in LoginAfterSetup :
          /\ IF need.entry THEN EntryReached(login) ELSE app' = Home(login)
          /\ behind' = BehindAfterLogin(login)
    BY <1>4 DEF SetupSucceeds
  <2>2. app'.login = login
    BY <2>a DEF EntryReached, Home
  <2>3. remembered'.login = RememberLogin.login
    BY <1>4, <2>1, RememberTyped DEF SetupSucceeds
  <2> QED
    BY <1>4, <2>a, <2>1, <2>2, <2>3, LoginPrepared DEF SetupSucceeds
<1>5. CASE SessionStep
  <2>1. Entering /\ cur # Nothing
    BY <1>5, <1>w
    DEF SessionStep, ReuseSession, EnterModule, SessionFails, NavigationNests, Entering
  <2>2. remembered'.login = remembered.login
    BY <1>5 DEF SessionStep, ReuseSession, EnterModule, SessionFails, NavigationNests,
                Plan, WorkerTyped, SessionTypeOK
  <2>3. app'.login = app.login
    <3>1. CASE ReuseSession \/ EnterModule
      BY <3>1, <1>t DEF ReuseSession, EnterModule, Phone
    <3>2. CASE SessionFails \/ NavigationNests
      BY <3>2, <1>t, PhoneMoved DEF SessionFails, NavigationNests
    <3> QED
      BY <1>5, <3>1, <3>2 DEF SessionStep
  <2>4. UNCHANGED <<scope, cur, need, behind>>
    BY <1>5 DEF SessionStep, ReuseSession, EnterModule, SessionFails, NavigationNests,
                InSession, Fail
  <2> QED
    BY <2>1, <2>2, <2>3, <2>4, LoginUnmoved
<1>6. CASE CaseStep
  <2>1. PlaySteps /\ cur # Nothing /\ scope \in {"session", "case"}
    BY <1>6, <1>w DEF CaseStep, CasePasses, CaseFails, WorkerTyped, AtWork
  <2>2. LoginRemembered'
    BY <2>1, LoginPlayed
  <2>3. cur' = Nothing \/ cur' = cur
    BY <1>6 DEF CaseStep, CasePasses, CaseFails, Record
  <2>4. Prepared'
    BY <2>1, <2>3 DEF PlaySteps, LoginFits, Prepared
  <2> QED
    BY <2>2, <2>4 DEF LoginFits
<1>7. CASE ApplyPlan \/ ApplyFails
  <2>1. cur # Nothing
    BY <1>7, <1>w DEF ApplyPlan, ApplyFails, MayHeal
  <2>2. app'.login = app.login
    BY <1>7, <1>t, PhoneMoved DEF ApplyPlan, ApplyFails
  <2>3. UNCHANGED <<scope, cur, need, remembered, behind>>
    BY <1>7 DEF ApplyPlan, ApplyFails
  <2> QED
    BY <2>1, <2>2, <2>3, LoginUnmoved
<1>8. CASE GiveUpCase \/ GiveUpPreparation
  BY <1>8 DEF GiveUpCase, GiveUpPreparation, Record, LoginFits, Prepared,
              LoginRemembered, SameSide
<1>9. CASE Finish
  BY <1>9 DEF Finish, LoginFits, Prepared, LoginRemembered, SameSide
<1>10. CASE UNCHANGED sessionVars
  BY <1>10 DEF sessionVars, LoginFits, Prepared, LoginRemembered, SameSide
<1> QED
  BY <1>1, <1>2, <1>3, <1>4, <1>5, <1>6, <1>7, <1>8, <1>9, <1>10
  DEF SessionNext, SetupStep, CaseStep, HealStep

(* When the steps of a case start, somebody is logged in exactly if the    *)
(* case asks for it, unless the phone was moved to the other side since    *)
(* the last preparation that succeeded, or a preparation for a guest did   *)
(* not see who was logged in.                                              *)
THEOREM LoginCorrect ==
  SessionSpec => []LoginAsAsked
<1>1. WorkerTyped /\ LoginFits => LoginAsAsked
  <2> SUFFICES ASSUME WorkerTyped, LoginFits, pc = "steps",
                      \A l \in behind : SameSide(l, LoginOf[cur])
               PROVE  SameSide(app.login, LoginOf[cur])
    BY DEF LoginAsAsked
  <2>1. cur # Nothing /\ scope # "setup"
    BY DEF WorkerTyped, AtWork
  <2>2. remembered.login = LoginOf[cur]
    BY <2>1 DEF LoginFits, Prepared
  <2> QED
    BY <2>2 DEF LoginFits, LoginRemembered
<1> QED
  BY <1>1, LoginStarts, LoginStep, WorkerAlwaysTyped, PTL DEF SessionSpec

-----------------------------------------------------------------------------
(* The steps of a case of a module with anchors start on the page of that  *)
(* module, whichever case ran before and wherever it left the app.         *)
THEOREM PageCorrect ==
  SessionSpec => []ModulePageInPlace
<1>1. SessionInit => ModulePageInPlace
  BY DEF SessionInit, ModulePageInPlace
<1>2. WorkerTyped /\ ModulePageInPlace /\ [SessionNext]_sessionVars
        => ModulePageInPlace'
  <2> SUFFICES ASSUME WorkerTyped, ModulePageInPlace, [SessionNext]_sessionVars
               PROVE  ModulePageInPlace'
    OBVIOUS
  <2>1. CASE ReuseSession
    BY <2>1 DEF ReuseSession, InSession, StateMatches, ModulePageInPlace
  <2>2. CASE EnterModule
    BY <2>2 DEF EnterModule, InSession, ModulePageInPlace, WorkerTyped, SessionTypeOK,
                Phone
  <2>3. CASE UNCHANGED sessionVars
    BY <2>3 DEF sessionVars, ModulePageInPlace
  <2>4. CASE TakeCase \/ Finish \/ SetupStep \/ HealStep
    BY <2>4 DEF TakeCase, Finish, SetupStep, LoginFails, EntryFails, SetupSucceeds, Fail,
                HealStep, ApplyPlan, ApplyFails, MayHeal, GiveUpCase, GiveUpPreparation,
                Record, ModulePageInPlace
  <2>5. CASE SessionFails \/ NavigationNests \/ CaseStep
    BY <2>5 DEF SessionFails, NavigationNests, Fail, CaseStep, CasePasses, CaseFails,
                Record, ModulePageInPlace
  <2> QED
    BY <2>1, <2>2, <2>3, <2>4, <2>5 DEF SessionNext, SessionStep
<1> QED
  BY <1>1, <1>2, WorkerAlwaysTyped, PTL DEF SessionSpec

-----------------------------------------------------------------------------
(* The end of a case leaves its result, and its defect if it is a bad one. *)
LEMMA RecordedOnce ==
  ASSUME WorkerTyped, PlayedOnce, DefectPerFailure, cur # Nothing,
         NEW outcome \in Outcomes, Record(outcome), todo' = todo
  PROVE  PlayedOnce' /\ DefectPerFailure'
<1>1. /\ cur \in Cases /\ defects \in Seq(Cases) /\ Nothing \notin Cases
      /\ todo \in Seq(Cases)
      /\ result \in [Cases -> Outcomes \cup {Nothing}]
  BY CaseAssumption DEF WorkerTyped, SessionTypeOK
<1>2. /\ result[cur] = Nothing
      /\ cur \notin ToSet(todo)
  BY <1>1 DEF PlayedOnce
<1>3. cur \notin ToSet(defects)
  BY <1>1, <1>2, CaseAssumption DEF DefectPerFailure, BadOutcomes, Outcomes
<1>4. /\ cur' = Nothing
      /\ result'[cur] = outcome
      /\ \A c \in Cases \ {cur} : result'[c] = result[c]
  BY <1>1 DEF Record
<1>5. Nothing \notin ToSet(todo)
  BY <1>1 DEF ToSet
<1>6. PlayedOnce'
  BY <1>1, <1>2, <1>4, <1>5 DEF PlayedOnce
<1>7. CASE outcome \in BadOutcomes
  <2>1. defects' = Append(defects, cur)
    BY <1>7 DEF Record
  <2>2. ToSet(defects') = ToSet(defects) \cup {cur} /\ IsInjective(defects')
    BY <2>1, <1>1, <1>3, OneMore DEF DefectPerFailure
  <2> QED
    BY <1>6, <2>2, <1>1, <1>4, <1>7 DEF DefectPerFailure
<1>8. CASE outcome \notin BadOutcomes
  <2>1. defects' = defects
    BY <1>8 DEF Record
  <2>2. \A c \in Cases : c \in ToSet(defects') <=> result'[c] \in BadOutcomes
    BY <2>1, <1>3, <1>4, <1>8 DEF DefectPerFailure
  <2> QED
    BY <1>6, <2>1, <2>2 DEF DefectPerFailure
<1> QED
  BY <1>7, <1>8

LEMMA PlayedOnceStarts ==
  SessionInit => PlayedOnce /\ DefectPerFailure
<1> SUFFICES ASSUME SessionInit
             PROVE  PlayedOnce /\ DefectPerFailure
  OBVIOUS
<1>1. /\ todo \in [1..Cardinality(Cases) -> Cases]
      /\ \A i, j \in 1..Cardinality(Cases) : i # j => todo[i] # todo[j]
  BY DEF SessionInit, SetToSeqs
<1>2. IsInjective(todo) /\ Nothing \notin ToSet(todo)
  BY <1>1, CaseAssumption DEF IsInjective, ToSet
<1>3. ToSet(defects) = {} /\ IsInjective(defects)
  BY DEF SessionInit, ToSet, IsInjective
<1>4. cur = Nothing /\ \A c \in Cases : result[c] = Nothing
  BY DEF SessionInit
<1>5. Nothing \notin BadOutcomes
  BY CaseAssumption DEF BadOutcomes, Outcomes
<1> QED
  BY <1>2, <1>3, <1>4, <1>5 DEF PlayedOnce, DefectPerFailure

LEMMA PlayedOnceStep ==
  WorkerTyped /\ PlayedOnce /\ DefectPerFailure /\ [SessionNext]_sessionVars
    => PlayedOnce' /\ DefectPerFailure'
<1> SUFFICES ASSUME WorkerTyped, PlayedOnce, DefectPerFailure,
                    [SessionNext]_sessionVars
             PROVE  PlayedOnce' /\ DefectPerFailure'
  OBVIOUS
<1>w. ASSUME pc # "take", pc # "done"
      PROVE  cur # Nothing
  BY <1>w DEF WorkerTyped, AtWork
<1>1. CASE TakeCase
  <2>1. todo \in Seq(Cases) /\ todo # <<>> /\ todo' = Tail(todo) /\ cur' = Head(todo)
        /\ result' = result /\ defects' = defects
    BY <1>1 DEF TakeCase, WorkerTyped, SessionTypeOK
  <2>2. /\ ToSet(todo') \subseteq ToSet(todo) /\ cur' \in ToSet(todo)
        /\ IsInjective(todo') /\ cur' \notin ToSet(todo')
    BY <2>1, RestOf DEF PlayedOnce
  <2> QED
    BY <2>1, <2>2 DEF PlayedOnce, DefectPerFailure
<1>2. CASE UNCHANGED <<todo, cur, result, defects>>
  BY <1>2 DEF PlayedOnce, DefectPerFailure
<1>3. CASE SetupStep
  BY <1>2, <1>3 DEF SetupStep, LoginFails, EntryFails, SetupSucceeds, Fail
<1>4. CASE SessionStep
  BY <1>2, <1>4
  DEF SessionStep, ReuseSession, EnterModule, SessionFails, NavigationNests, Fail,
      InSession
<1>5. CASE CasePasses
  BY <1>5, <1>w, RecordedOnce DEF CasePasses, PlaySteps, Outcomes
<1>6. CASE CaseFails
  <2>1. cur # Nothing /\ todo' = todo /\ BadOutcomes \subseteq Outcomes
    BY <1>6, <1>w DEF CaseFails, PlaySteps, BadOutcomes, Outcomes
  <2> QED
    BY <1>2, <1>6, <2>1, RecordedOnce DEF CaseFails
<1>7. CASE ApplyPlan \/ ApplyFails
  BY <1>2, <1>7 DEF ApplyPlan, ApplyFails
<1>8. CASE GiveUpCase
  <2>1. cur # Nothing /\ first \in Outcomes
    BY <1>8, <1>w DEF GiveUpCase, WorkerTyped, AtWork, BadOutcomes, Outcomes
  <2> QED
    BY <1>8, <2>1, RecordedOnce DEF GiveUpCase
<1>9. CASE GiveUpPreparation
  <2>1. todo' = todo /\ cur' = Nothing /\ result' = result /\ defects' = defects
    BY <1>9 DEF GiveUpPreparation
  <2>2. Nothing \notin ToSet(todo) /\ Nothing \notin Cases
    BY CaseAssumption DEF WorkerTyped, SessionTypeOK, ToSet
  <2> QED
    BY <2>1, <2>2 DEF PlayedOnce, DefectPerFailure
<1>10. CASE Finish
  BY <1>2, <1>10 DEF Finish
<1>11. CASE UNCHANGED sessionVars
  BY <1>2, <1>11 DEF sessionVars
<1> QED
  BY <1>1, <1>3, <1>4, <1>5, <1>6, <1>7, <1>8, <1>9, <1>10, <1>11
  DEF SessionNext, CaseStep, HealStep

(* A case that was played and did not pass has one defect, however often   *)
(* it was healed and tried again, and every other case has none.           *)
THEOREM DefectsCorrect ==
  SessionSpec => []DefectPerFailure
<1> QED
  BY PlayedOnceStarts, PlayedOnceStep, WorkerAlwaysTyped, PTL DEF SessionSpec

-----------------------------------------------------------------------------
LEMMA BeforeInOrder ==
  ASSUME NEW a1, NEW a2, NEW a3, NEW a4, NEW b1, NEW b2, NEW b3, NEW b4,
         \/ a1 < b1
         \/ a1 = b1 /\ a2 < b2
         \/ a1 = b1 /\ a2 = b2 /\ a3 < b3
         \/ a1 = b1 /\ a2 = b2 /\ a3 = b3 /\ a4 < b4
  PROVE  Before(<<a1, a2, a3, a4>>, <<b1, b2, b3, b4>>)
<1> DEFINE a == <<a1, a2, a3, a4>>  b == <<b1, b2, b3, b4>>
<1>1. /\ DOMAIN b = {1, 2, 3, 4}
      /\ a[1] = a1 /\ a[2] = a2 /\ a[3] = a3 /\ a[4] = a4
      /\ b[1] = b1 /\ b[2] = b2 /\ b[3] = b3 /\ b[4] = b4
  OBVIOUS
<1>2. /\ \A j \in 1..(1 - 1) : FALSE
      /\ \A j \in 1..(2 - 1) : j = 1
      /\ \A j \in 1..(3 - 1) : j \in {1, 2}
      /\ \A j \in 1..(4 - 1) : j \in {1, 2, 3}
  OBVIOUS
<1> SUFFICES Before(a, b)
  OBVIOUS
<1> HIDE DEF a, b
<1>3. CASE a1 < b1
  BY <1>1, <1>2, <1>3 DEF Before
<1>4. CASE a1 = b1 /\ a2 < b2
  BY <1>1, <1>2, <1>4 DEF Before
<1>5. CASE a1 = b1 /\ a2 = b2 /\ a3 < b3
  BY <1>1, <1>2, <1>5 DEF Before
<1>6. CASE a1 = b1 /\ a2 = b2 /\ a3 = b3 /\ a4 < b4
  BY <1>1, <1>2, <1>6 DEF Before
<1> QED
  BY <1>3, <1>4, <1>5, <1>6

(* What is left of the cases, when the case at work stays at work, *)
LEMMA SameCase ==
  ASSUME UNCHANGED todo, cur # Nothing, cur' = cur, pc # "done", pc' # "done"
  PROVE  CasesLeft' = CasesLeft
  BY DEF CasesLeft

(* and when it is over. *)
LEMMA CaseOver ==
  ASSUME SessionTypeOK, todo' = todo, cur # Nothing, cur' = Nothing, pc # "done",
         pc' # "done"
  PROVE  CasesLeft' < CasesLeft
<1>1. Len(todo) \in Nat
  BY DEF SessionTypeOK
<1> QED
  BY <1>1 DEF CasesLeft

(* Every step uses up some of the work there is.                           *)
THEOREM WorkRunsOut ==
  SessionSpec => EveryStepCounts
<1>1. WorkerTyped /\ [SessionNext]_sessionVars
        => [Before(WorkLeft', WorkLeft)]_sessionVars
  <2> SUFFICES ASSUME WorkerTyped, SessionNext
               PROVE  Before(WorkLeft', WorkLeft)
    OBVIOUS
  <2>w. ASSUME pc # "take", pc # "done"
        PROVE  cur # Nothing
    BY <2>w DEF WorkerTyped, AtWork
  <2>s. ASSUME CasesLeft' < CasesLeft
        PROVE  Before(WorkLeft', WorkLeft)
    BY <2>s, BeforeInOrder DEF WorkLeft
  <2>t. ASSUME CasesLeft' = CasesLeft, ScopesLeft' < ScopesLeft
        PROVE  Before(WorkLeft', WorkLeft)
    BY <2>t, BeforeInOrder DEF WorkLeft
  <2>u. ASSUME CasesLeft' = CasesLeft, ScopesLeft' = ScopesLeft, used' = used + 1
        PROVE  Before(WorkLeft', WorkLeft)
    <3>1. Budget - used' < Budget - used
      BY <2>u, CaseAssumption DEF WorkerTyped, SessionTypeOK
    <3> QED
      BY <2>u, <3>1, BeforeInOrder DEF WorkLeft
  <2>v. ASSUME CasesLeft' = CasesLeft, ScopesLeft' = ScopesLeft, used' = used,
               PartsLeft' < PartsLeft
        PROVE  Before(WorkLeft', WorkLeft)
    BY <2>v, BeforeInOrder DEF WorkLeft
  <2>1. CASE TakeCase
    <3>1. todo \in Seq(Cases) /\ todo # <<>>
      BY <2>1 DEF TakeCase, WorkerTyped, SessionTypeOK
    <3>2. Len(todo) \in Nat /\ Len(Tail(todo)) = Len(todo) - 1 /\ Head(todo) \in Cases
      BY <3>1, RestOf
    <3>3. cur = Nothing /\ Head(todo) # Nothing
      BY <2>1, <3>2, CaseAssumption DEF TakeCase, WorkerTyped, AtWork
    <3>4. CasesLeft' < CasesLeft
      BY <2>1, <3>2, <3>3 DEF TakeCase, CasesLeft
    <3> QED
      BY <3>4, <2>s
  <2>2. CASE LoginFails \/ EntryFails
    <3>1. cur # Nothing /\ pc = "try" /\ pc' = "failed" /\ UNCHANGED <<todo, cur, scope, used>>
          /\ scope = "setup"
      BY <2>2, <2>w DEF LoginFails, EntryFails, Trying, Fail
    <3>2. CasesLeft' = CasesLeft
      BY <3>1, SameCase
    <3> QED
      BY <3>1, <3>2, <2>v DEF ScopesLeft, PartsLeft
  <2>3. CASE SetupSucceeds
    <3>1. cur # Nothing /\ pc = "try" /\ pc' = "try" /\ UNCHANGED <<todo, cur>>
          /\ scope = "setup" /\ scope' = "session"
      BY <2>3, <2>w DEF SetupSucceeds, Trying
    <3>2. CasesLeft' = CasesLeft
      BY <3>1, SameCase
    <3> QED
      BY <3>1, <3>2, <2>t DEF ScopesLeft
  <2>4. CASE ReuseSession \/ EnterModule
    <3>1. /\ cur # Nothing /\ pc = "try" /\ pc' = "steps" /\ UNCHANGED <<todo, cur, scope>>
          /\ scope = "session" \/ (scope = "case" /\ used' = used)
      BY <2>4, <2>w DEF ReuseSession, EnterModule, Entering, InSession
    <3>2. CasesLeft' = CasesLeft
      BY <3>1, SameCase
    <3> QED
      BY <3>1, <3>2, <2>t, <2>v DEF ScopesLeft, PartsLeft
  <2>5. CASE SessionFails \/ NavigationNests
    <3>1. /\ cur # Nothing /\ pc = "try" /\ pc' = "failed"
          /\ UNCHANGED <<todo, cur, scope, used>> /\ scope \in {"session", "case"}
      BY <2>5, <2>w DEF SessionFails, NavigationNests, Entering, Fail
    <3>2. CasesLeft' = CasesLeft
      BY <3>1, SameCase
    <3> QED
      BY <3>1, <3>2, <2>v DEF ScopesLeft, PartsLeft
  <2>6. ASSUME cur # Nothing, cur' = Nothing, todo' = todo, pc # "done", pc' # "done"
        PROVE  Before(WorkLeft', WorkLeft)
    BY <2>6, <2>s, CaseOver DEF WorkerTyped
  <2>7. CASE CasePasses
    BY <2>7, <2>w, <2>6 DEF CasePasses, PlaySteps, Record
  <2>8. CASE CaseFails
    <3>1. cur # Nothing /\ pc = "steps" /\ todo' = todo
      BY <2>8, <2>w DEF CaseFails, PlaySteps
    <3>2. \/ cur' = Nothing /\ pc' = "take"
          \/ cur' = cur /\ pc' = "failed" /\ scope = "session" /\ scope' = "case"
          \/ /\ cur' = cur /\ pc' = "failed" /\ scope = "case" /\ scope' = "case"
             /\ used' = used
      BY <2>8 DEF CaseFails, Record
    <3>3. CASE cur' = cur /\ pc' = "failed"
      <4>1. CasesLeft' = CasesLeft
        BY <3>1, <3>3, SameCase
      <4> QED
        BY <3>1, <3>2, <3>3, <4>1, <2>t, <2>v DEF ScopesLeft, PartsLeft
    <3> QED
      BY <3>1, <3>2, <3>3, <2>6
  <2>9. CASE ApplyPlan \/ ApplyFails
    <3>1. /\ cur # Nothing /\ pc = "failed" /\ pc' \in {"try", "failed"}
          /\ UNCHANGED <<todo, cur, scope>> /\ used' = used + 1
      BY <2>9, <2>w DEF ApplyPlan, ApplyFails, MayHeal
    <3>2. CasesLeft' = CasesLeft
      BY <3>1, SameCase
    <3>3. ScopesLeft' = ScopesLeft
      BY <3>1 DEF ScopesLeft
    <3> QED
      BY <3>1, <3>2, <3>3, <2>u
  <2>10. CASE GiveUpCase \/ GiveUpPreparation
    BY <2>10, <2>w, <2>6 DEF GiveUpCase, GiveUpPreparation, Record
  <2>11. CASE Finish
    <3>1. Len(todo) \in Nat
      BY DEF WorkerTyped, SessionTypeOK
    <3>2. CasesLeft' < CasesLeft
      BY <2>11, <3>1 DEF Finish, CasesLeft
    <3> QED
      BY <3>2, <2>s
  <2> QED
    BY <2>1, <2>2, <2>3, <2>4, <2>5, <2>7, <2>8, <2>9, <2>10, <2>11
    DEF SessionNext, SetupStep, SessionStep, CaseStep, HealStep
<1> QED
  BY <1>1, WorkerAlwaysTyped, PTL DEF SessionSpec, EveryStepCounts

-----------------------------------------------------------------------------
(***************************************************************************)
(* The service.  What it knows of a run at each place of its coroutine is  *)
(* kept next to what the disk and the log say of it: the disk is behind    *)
(* the memory by nothing but progress that the log has too (RunSaved), and *)
(* what a poll has answered can be answered again from the disk and the    *)
(* log (RunShown).                                                         *)
(***************************************************************************)
Begun == [created |-> 0, fetching |-> 2, spawning |-> 4]

(* A run nobody has started has left nothing anywhere. *)
RunFresh(r) ==
  memory[r] = None /\ disk[r] = None =>
    /\ pipeline[r] = "none" /\ process[r] = "none" /\ log[r] = 0
    /\ summary[r] = None /\ rows[r] = None /\ shown[r] = None

RunHeld(r) ==
  /\ memory[r] # None => up
  /\ pipeline[r] # "none" => memory[r] # None /\ ~memory[r].imported

RunPlaced(r) ==
  memory[r] # None =>
    /\ pipeline[r] = "created" => memory[r].status = "queued"
    /\ pipeline[r] \in {"fetching", "spawning", "reading"} => memory[r].status = "running"
    /\ pipeline[r] \in {"importing", "committed", "none"} => memory[r].status \in Settled
    /\ pipeline[r] \in {"created", "fetching", "spawning"} =>
         process[r] = "none" /\ log[r] = 0 /\ memory[r].progress = Begun[pipeline[r]]
    /\ pipeline[r] \in {"importing", "committed"} => process[r] \in {"ok", "error"}

(* The verdict in memory and the one of the rows come from one summary. *)
RunJudged(r) ==
  /\ pipeline[r] \in {"importing", "committed"} /\ memory[r].status = "completed" =>
       Total(r) > 0 /\ (memory[r].complaint <=> Passed(r) # Total(r))
  /\ pipeline[r] = "committed" => rows[r] = RowStatus(r)

RunSaved(r) ==
  /\ memory[r] # None =>
       /\ disk[r] \in Task
       /\ disk[r].status = memory[r].status
       /\ disk[r].progress <= memory[r].progress
       /\ memory[r].progress <= Larger(disk[r].progress, log[r])
       /\ memory[r].status # "running" => disk[r] = memory[r]
  /\ disk[r] \in Task /\ disk[r].status \in Settled => disk[r].progress = 100

Reached(r) ==
  IF Known(r).status = "running" THEN Larger(Known(r).progress, log[r])
  ELSE Known(r).progress

RunShown(r) ==
  shown[r] # None =>
    /\ disk[r] # None
    /\ disk[r] \in Task =>
         /\ shown[r].status \in Settled => disk[r].status = shown[r].status
         /\ shown[r].progress <= Reached(r)

RowFits(r) ==
  disk[r] \in Task /\ disk[r].imported =>
    /\ rows[r] # None
    /\ disk[r].status = "completed" =>
         (rows[r] = "completed" <=> ~disk[r].complaint)

RunInv(r) ==
  /\ RunFresh(r) /\ RunHeld(r) /\ RunPlaced(r) /\ RunJudged(r)
  /\ RunSaved(r) /\ RunShown(r) /\ RowFits(r)

BridgeInv == TypeOK /\ \A r \in Runs : RunInv(r)

(* The greatest of a set of numbers that is bounded is an upper bound of   *)
(* it, and one of it.                                                      *)
LEMMA GreatestIn ==
  ASSUME NEW T \in SUBSET Nat, T # {}, NEW n \in Nat, \A x \in T : x <= n
  PROVE  Max(T) \in T /\ \A y \in T : Max(T) >= y
<1> DEFINE U == {n - x : x \in T}
<1>1. U \in SUBSET Nat /\ U # {}
  <2>1. \A x \in T : x \in Nat /\ n - x \in Nat
    OBVIOUS
  <2> QED
    BY <2>1
<1>2. PICK u \in U : \A v \in U : ~(<<v, u>> \in OpToRel(<, Nat))
  BY <1>1, WFMin, NatLessThanWellFounded
<1>3. ASSUME NEW v \in U
      PROVE  u <= v
  <2>1. u \in Nat /\ v \in Nat
    BY <1>1
  <2>2. ~(v < u)
    BY <1>2, <2>1 DEF OpToRel
  <2> QED
    BY <2>1, <2>2
<1>4. PICK x \in T : u = n - x
  OBVIOUS
<1>5. \A y \in T : x >= y
  BY <1>3, <1>4
<1> QED
  BY <1>4, <1>5 DEF Max

(* A new run gets a number no run has. *)
LEMMA NumberIsNew ==
  ASSUME NextRunId \in Runs
  PROVE  NextRunId \notin Taken
<1>1. Cardinality(Runs) \in Nat /\ Runs = 1..Cardinality(Runs)
  BY RunAssumption, FS_CardinalityType
<1>2. /\ Taken \cup {0} \in SUBSET Nat
      /\ Taken \cup {0} # {}
      /\ \A x \in Taken \cup {0} : x <= Cardinality(Runs)
  BY <1>1 DEF Taken
<1> DEFINE T == Taken \cup {0}
           m == Max(T)
<1> HIDE DEF m
<1>3. m \in Nat /\ \A y \in T : m >= y
  BY <1>1, <1>2, GreatestIn DEF m
<1>4. NextRunId = m + 1 /\ Taken \subseteq T
  BY DEF NextRunId, m
<1> QED
  BY <1>3, <1>4

LEMMA LargerOfTwo ==
  ASSUME NEW a \in 0..100, NEW b \in 0..100
  PROVE  /\ Larger(a, b) \in 0..100 /\ Larger(a, b) >= a /\ Larger(a, b) >= b
         /\ Larger(a, b) = a \/ Larger(a, b) = b
  BY DEF Larger

LEMMA EventTypes ==
  ASSUME NEW n \in 1..LastStage
  PROVE  EventProgress[n] \in 0..100
<1>1. /\ EventProgress[1] = 5 /\ EventProgress[2] = 12 /\ EventProgress[3] = 15
      /\ EventProgress[4] = 22 /\ EventProgress[5] = 38 /\ EventProgress[6] = 48
      /\ EventProgress[7] = 88 /\ EventProgress[8] = 95 /\ EventProgress[9] = 100
  BY DEF EventProgress
<1>2. n \in {1, 2, 3, 4, 5, 6, 7, 8, 9}
  BY DEF LastStage
<1> QED
  BY <1>1, <1>2

(* What a poll answers, from what it knows. *)
LEMMA PolledAnswers ==
  ASSUME TypeOK, NEW r \in Runs, Known(r) \notin {None, Torn}
  PROVE  /\ Known(r) \in Task
         /\ Polled(r) \in Task
         /\ Polled(r).status = Known(r).status
         /\ Polled(r).imported = Known(r).imported
         /\ Polled(r).progress = Reached(r)
         /\ Known(r).status # "running" => Polled(r) = Known(r)
<1>1. Known(r) \in Task
  BY DEF TypeOK, Known
<1>2. log[r] \in 0..100 /\ Known(r).progress \in 0..100
  BY <1>1 DEF TypeOK, Task
<1>3. Larger(Known(r).progress, log[r]) \in 0..100
  BY <1>2, LargerOfTwo
<1>4. CASE Known(r).status = "running"
  <2>1. Polled(r) = [Known(r) EXCEPT !.progress = Larger(@, log[r]),
                                     !.complaint = @ \/ Aborted(r)]
    BY <1>4 DEF Polled
  <2>2. (Known(r).complaint \/ Aborted(r)) \in BOOLEAN
    OBVIOUS
  <2> QED
    BY <1>1, <1>3, <1>4, <2>1, <2>2 DEF Task, Reached
<1>5. CASE Known(r).status # "running"
  BY <1>1, <1>5 DEF Polled, Reached
<1> QED
  BY <1>1, <1>4, <1>5

-----------------------------------------------------------------------------
(* Nothing happens to a run. *)
SameRun(q) ==
  /\ memory'[q] = memory[q] /\ disk'[q] = disk[q] /\ pipeline'[q] = pipeline[q]
  /\ process'[q] = process[q] /\ log'[q] = log[q] /\ summary'[q] = summary[q]
  /\ rows'[q] = rows[q] /\ shown'[q] = shown[q]

OnlyRun(r) == up' = up /\ \A q \in Runs \ {r} : SameRun(q)

LEMMA Elsewhere ==
  ASSUME NEW q \in Runs, RunInv(q), SameRun(q), up' = up
  PROVE  RunInv(q)'
<1>1. /\ Total(q)' = Total(q) /\ Passed(q)' = Passed(q)
      /\ Known(q)' = Known(q)
  BY DEF SameRun, Total, Passed, Known
<1>2. RowStatus(q)' = RowStatus(q) /\ Reached(q)' = Reached(q)
  BY <1>1 DEF SameRun, RowStatus, Reached, Larger
<1>3. RunFresh(q)' /\ RunHeld(q)' /\ RunPlaced(q)'
  BY DEF SameRun, RunInv, RunFresh, RunHeld, RunPlaced, Begun
<1>4. RunJudged(q)' /\ RunSaved(q)'
  BY <1>1, <1>2 DEF SameRun, RunInv, RunJudged, RunSaved, Task, Larger
<1>5. RunShown(q)' /\ RowFits(q)'
  BY <1>2 DEF SameRun, RunInv, RunShown, RowFits, Task, Status
<1> QED
  BY <1>3, <1>4, <1>5 DEF RunInv

(* A task is saved. *)
LEMMA TaskSaved ==
  ASSUME TypeOK, NEW r \in Runs, NEW task \in Task, SaveTaskState(r, task)
  PROVE  /\ memory' \in [Runs -> Task \cup {None}]
         /\ disk' \in [Runs -> Task \cup {None, Torn}]
         /\ memory'[r] = task /\ disk'[r] = task
         /\ \A q \in Runs \ {r} : memory'[q] = memory[q] /\ disk'[q] = disk[q]
  BY DEF TypeOK, SaveTaskState

LEMMA Gone ==
  ASSUME TypeOK, NEW r \in Runs,
         NEW where \in {"none", "created", "fetching", "spawning", "reading",
                        "importing", "committed"},
         Goto(r, where)
  PROVE  /\ pipeline' \in [Runs -> {"none", "created", "fetching", "spawning", "reading",
                                    "importing", "committed"}]
         /\ pipeline'[r] = where
         /\ \A q \in Runs \ {r} : pipeline'[q] = pipeline[q]
  BY DEF TypeOK, Goto

(* What a run has come to when a task is saved for it and its process and   *)
(* its rows stay as they are, by what the task says.                        *)
LEMMA SavedFits ==
  ASSUME TypeOK, NEW r \in Runs, RunInv(r), NEW task \in Task,
         SaveTaskState(r, task), UNCHANGED <<stage, process, log, summary>>,
         UNCHANGED <<up, rows, shown>>,
         up, pipeline'[r] # "none" => ~task.imported,
         task.status \in Settled => task.progress = 100,
         shown[r] # None /\ disk[r] \in Task =>
           /\ shown[r].status \in Settled => task.status = shown[r].status
           /\ task.progress >= Reached(r),
         shown[r] # None => disk[r] \in Task,
         task.imported =>
           /\ rows[r] # None
           /\ task.status = "completed" =>
                (rows[r] = "completed" <=> ~task.complaint)
  PROVE  RunFresh(r)' /\ RunHeld(r)' /\ RunSaved(r)' /\ RunShown(r)' /\ RowFits(r)'
<1>1. /\ memory'[r] = task /\ disk'[r] = task
      /\ task # None /\ task # Torn
      /\ log' = log /\ rows' = rows /\ shown' = shown /\ up' /\ task.progress \in 0..100
      /\ log[r] \in 0..100
  BY TaskSaved, NullAssumption DEF Task, TypeOK
<1>2. Larger(task.progress, log[r]) >= task.progress
  BY <1>1, LargerOfTwo
<1>3. RunFresh(r)' /\ RunHeld(r)'
  BY <1>1 DEF RunFresh, RunHeld
<1>4. RunSaved(r)'
  BY <1>1, <1>2 DEF RunSaved, Larger
<1>5. Reached(r)' >= task.progress
  BY <1>1, <1>2 DEF Reached, Known, Larger
<1>6. RunShown(r)'
  <2> SUFFICES ASSUME shown[r] # None
               PROVE  /\ shown[r].status \in Settled => task.status = shown[r].status
                      /\ shown[r].progress <= Reached(r)'
    BY <1>1 DEF RunShown
  <2>1. disk[r] \in Task /\ shown[r] \in Answer
    BY DEF TypeOK
  <2>2. shown[r].progress <= Reached(r) /\ task.progress >= Reached(r)
    BY <2>1 DEF RunInv, RunShown
  <2>3. Reached(r) \in Nat /\ Reached(r)' \in Nat /\ shown[r].progress \in Nat
    <3>1. Known(r) \in Task
      BY <2>1 DEF TypeOK, Known
    <3>2. Known(r).progress \in Nat /\ log[r] \in Nat
      BY <1>1, <3>1 DEF Task
    <3>3. Known(r)' = task
      BY <1>1 DEF Known
    <3> QED
      BY <1>1, <2>1, <3>2, <3>3 DEF Reached, Larger, Answer
  <2> QED
    BY <1>1, <1>5, <2>1, <2>2, <2>3
<1>7. RowFits(r)'
  BY <1>1 DEF RowFits
<1> QED
  BY <1>3, <1>4, <1>6, <1>7

-----------------------------------------------------------------------------
(* What is known of a run whose coroutine is at work. *)
LEMMA AtWorkKnown ==
  ASSUME TypeOK, NEW r \in Runs, RunInv(r), pipeline[r] # "none"
  PROVE  /\ memory[r] \in Task /\ memory[r] # None /\ ~memory[r].imported
         /\ disk[r] \in Task /\ disk[r] # None
         /\ disk[r].status = memory[r].status
         /\ Known(r) = memory[r]
         /\ log[r] \in 0..100 /\ memory[r].progress \in 0..100
         /\ disk[r].progress \in 0..100
         /\ Reached(r) \in 0..100
         /\ shown[r] # None /\ shown[r].status \in Settled
              => memory[r].status = shown[r].status
<1>1. memory[r] \in Task /\ memory[r] # None /\ ~memory[r].imported
  BY DEF TypeOK, RunInv, RunHeld
<1>2. disk[r] \in Task /\ disk[r].status = memory[r].status /\ disk[r] # None
  BY <1>1, NullAssumption DEF RunInv, RunSaved
<1>3. Known(r) = memory[r] /\ log[r] \in 0..100
  BY <1>1 DEF Known, TypeOK
<1>4. memory[r].progress \in 0..100 /\ disk[r].progress \in 0..100
  BY <1>1, <1>2 DEF Task
<1>5. Reached(r) \in 0..100
  BY <1>3, <1>4, LargerOfTwo DEF Reached
<1>6. shown[r] # None /\ shown[r].status \in Settled
        => memory[r].status = shown[r].status
  BY <1>2 DEF RunInv, RunShown
<1> QED
  BY <1>1, <1>2, <1>3, <1>4, <1>5, <1>6

LEMMA Distinct ==
  /\ "queued" \notin Settled /\ "running" \notin Settled
  /\ "completed" \in Settled /\ "failed" \in Settled
  /\ Settled \subseteq Status /\ "queued" \in Status /\ "running" \in Status
  /\ Begun.created = 0 /\ Begun.fetching = 2 /\ Begun.spawning = 4
  /\ Begun["created"] = 0 /\ Begun["fetching"] = 2 /\ Begun["spawning"] = 4
  BY DEF Settled, Status, Begun

LEMMA StartStep ==
  ASSUME BridgeInv, StartRun
  PROVE  BridgeInv'
<1> DEFINE task == [status |-> "queued", progress |-> 0,
                    complaint |-> FALSE, imported |-> FALSE]
<1>0. PICK r \in Runs : r = NextRunId
  BY DEF StartRun
<1>1. r \in Runs /\ r \notin Taken
  BY <1>0, NumberIsNew DEF StartRun
<1>2. memory[r] = None /\ disk[r] = None
  BY <1>1 DEF Taken
<1>3. SaveTaskState(r, task) /\ Goto(r, "created") /\ ProcessUnchanged
      /\ UNCHANGED <<up, crashes, rows, shown>> /\ up
  BY <1>0 DEF StartRun
<1>4. task \in Task
  BY Distinct DEF Task
<1>t. TypeOK /\ RunInv(r)
  BY <1>1 DEF BridgeInv
<1>5. /\ memory' \in [Runs -> Task \cup {None}]
      /\ disk' \in [Runs -> Task \cup {None, Torn}]
      /\ memory'[r] = task /\ disk'[r] = task
      /\ \A q \in Runs \ {r} : memory'[q] = memory[q] /\ disk'[q] = disk[q]
  BY <1>1, <1>3, <1>4, <1>t, TaskSaved
<1>6. /\ pipeline' \in [Runs -> {"none", "created", "fetching", "spawning", "reading",
                                 "importing", "committed"}]
      /\ pipeline'[r] = "created"
      /\ \A q \in Runs \ {r} : pipeline'[q] = pipeline[q]
  BY <1>1, <1>3, <1>t, Gone
<1>7. TypeOK'
  BY <1>t, <1>3, <1>5, <1>6 DEF TypeOK, ProcessUnchanged
<1>8. OnlyRun(r)
  BY <1>3, <1>5, <1>6 DEF OnlyRun, SameRun, ProcessUnchanged
<1>9. /\ process[r] = "none" /\ log[r] = 0 /\ shown[r] = None
  BY <1>2, <1>t DEF RunInv, RunFresh
<1>10. /\ RunFresh(r)' /\ RunHeld(r)' /\ RunSaved(r)' /\ RunShown(r)' /\ RowFits(r)'
  BY <1>1, <1>t, <1>3, <1>4, <1>9, Distinct, SavedFits DEF ProcessUnchanged
<1>11. RunPlaced(r)' /\ RunJudged(r)'
  BY <1>3, <1>5, <1>6, <1>9, Distinct DEF RunPlaced, RunJudged, ProcessUnchanged
<1>12. RunInv(r)'
  BY <1>10, <1>11 DEF RunInv
<1> QED
  BY <1>7, <1>8, <1>12, Elsewhere DEF BridgeInv, OnlyRun

(* A save by the coroutine of a run, at a place where it goes on to         *)
(* another: what is left to show is that place.                             *)
LEMMA SaveStep ==
  ASSUME BridgeInv, NEW r \in Runs, NEW task \in Task,
         NEW where \in {"none", "created", "fetching", "spawning", "reading",
                        "importing", "committed"},
         pipeline[r] # "none", up,
         SaveTaskState(r, task), Goto(r, where),
         UNCHANGED <<stage, process, log, summary>>, unread' \in [Runs -> BOOLEAN],
         UNCHANGED <<up, crashes, rows, shown>>,
         where # "none" => ~task.imported,
         task.status \in Settled => task.progress = 100,
         shown[r] # None /\ shown[r].status \in Settled => task.status = shown[r].status,
         task.progress >= Reached(r),
         task.imported =>
           /\ rows[r] # None
           /\ task.status = "completed" =>
                (rows[r] = "completed" <=> ~task.complaint),
         memory'[r] = task /\ pipeline'[r] = where => RunPlaced(r)' /\ RunJudged(r)'
  PROVE  BridgeInv'
<1>t. TypeOK /\ RunInv(r)
  BY DEF BridgeInv
<1>1. /\ memory' \in [Runs -> Task \cup {None}]
      /\ disk' \in [Runs -> Task \cup {None, Torn}]
      /\ memory'[r] = task /\ disk'[r] = task
      /\ \A q \in Runs \ {r} : memory'[q] = memory[q] /\ disk'[q] = disk[q]
  BY <1>t, TaskSaved
<1>2. /\ pipeline' \in [Runs -> {"none", "created", "fetching", "spawning", "reading",
                                 "importing", "committed"}]
      /\ pipeline'[r] = where
      /\ \A q \in Runs \ {r} : pipeline'[q] = pipeline[q]
  BY <1>t, Gone
<1>3. TypeOK'
  BY <1>t, <1>1, <1>2 DEF TypeOK
<1>4. OnlyRun(r)
  BY <1>1, <1>2 DEF OnlyRun, SameRun
<1>5. disk[r] \in Task
  BY <1>t, AtWorkKnown
<1>6. /\ RunFresh(r)' /\ RunHeld(r)' /\ RunSaved(r)' /\ RunShown(r)' /\ RowFits(r)'
  BY <1>t, <1>2, <1>5, SavedFits
<1>7. RunInv(r)'
  BY <1>1, <1>2, <1>6 DEF RunInv
<1> QED
  BY <1>3, <1>4, <1>7, Elsewhere DEF BridgeInv, OnlyRun

LEMMA BeginStep ==
  ASSUME BridgeInv, NEW r \in Runs, Begin(r) \/ ExportTask(r)
  PROVE  BridgeInv'
<1>1. /\ up /\ pipeline[r] \in {"created", "fetching"} /\ ProcessUnchanged
      /\ UNCHANGED <<up, crashes, rows, shown>>
  BY DEF Begin, ExportTask, At
<1>2. TypeOK /\ RunInv(r)
  BY DEF BridgeInv
<1>u. UNCHANGED <<stage, process, log, summary>> /\ unread' \in [Runs -> BOOLEAN]
  BY <1>1, <1>2 DEF ProcessUnchanged, TypeOK
<1>3. /\ memory[r] \in Task /\ memory[r] # None /\ ~memory[r].imported
      /\ Known(r) = memory[r] /\ memory[r].status \notin Settled
      /\ process[r] = "none" /\ log[r] = 0
      /\ memory[r].progress = Begun[pipeline[r]]
      /\ shown[r] # None => shown[r].status \notin Settled
  BY <1>1, <1>2, AtWorkKnown, Distinct DEF RunInv, RunPlaced
<1>4. Reached(r) = memory[r].progress
  BY <1>1, <1>3, Distinct DEF Reached, Larger
<1>5. CASE Begin(r)
  <2> DEFINE task == [memory[r] EXCEPT !.status = "running", !.progress = 2]
  <2>1. /\ pipeline[r] = "created" /\ SaveTaskState(r, task) /\ Goto(r, "fetching")
    BY <1>5 DEF Begin, At
  <2>2. /\ task \in Task /\ task.status = "running" /\ task.progress = 2
        /\ task.imported = memory[r].imported
    <3>1. memory[r] \in Task /\ "running" \in Status /\ 2 \in 0..100
      BY <1>3, Distinct
    <3> QED
      BY <3>1 DEF Task
  <2> HIDE DEF task
  <2>3. memory'[r] = task /\ pipeline'[r] = "fetching" => RunPlaced(r)' /\ RunJudged(r)'
    BY <1>1, <1>3, <2>2, Distinct DEF RunPlaced, RunJudged, ProcessUnchanged
  <2> QED
    BY <1>1, <1>u, <1>3, <1>4, <2>1, <2>2, <2>3, Distinct, SaveStep
<1>6. CASE ExportTask(r)
  <2> DEFINE task == [memory[r] EXCEPT !.progress = 4]
  <2>1. /\ pipeline[r] = "fetching" /\ SaveTaskState(r, task) /\ Goto(r, "spawning")
    BY <1>6 DEF ExportTask, At
  <2>2. /\ task \in Task /\ task.status = memory[r].status /\ task.progress = 4
        /\ ~task.imported
    BY <1>3 DEF Task
  <2>3. memory[r].status = "running"
    BY <1>2, <1>3, <2>1 DEF RunInv, RunPlaced
  <2> HIDE DEF task
  <2>4. memory'[r] = task /\ pipeline'[r] = "spawning" => RunPlaced(r)' /\ RunJudged(r)'
    BY <1>1, <1>3, <2>2, <2>3, Distinct DEF RunPlaced, RunJudged, ProcessUnchanged
  <2> QED
    BY <1>1, <1>u, <1>3, <1>4, <2>1, <2>2, <2>3, <2>4, Distinct, SaveStep
<1> QED
  BY <1>5, <1>6

LEMMA FailsStep ==
  ASSUME BridgeInv, NEW r \in Runs, PipelineFails(r)
  PROVE  BridgeInv'
<1> DEFINE task == [memory[r] EXCEPT !.status = "failed", !.progress = 100,
                                     !.complaint = TRUE]
<1>1. /\ up /\ pipeline[r] \in {"fetching", "spawning"}
      /\ SaveTaskState(r, task) /\ Goto(r, "none") /\ ProcessUnchanged
      /\ UNCHANGED <<up, crashes, rows, shown>>
  BY DEF PipelineFails, At
<1>2. TypeOK /\ RunInv(r)
  BY DEF BridgeInv
<1>3. UNCHANGED <<stage, process, log, summary>> /\ unread' \in [Runs -> BOOLEAN]
  BY <1>1, <1>2 DEF ProcessUnchanged, TypeOK
<1>4. /\ memory[r] \in Task /\ ~memory[r].imported /\ Reached(r) \in 0..100
      /\ shown[r] # None => shown[r].status \notin Settled
  BY <1>1, <1>2, AtWorkKnown, Distinct DEF RunInv, RunPlaced
<1>5. task \in Task /\ task.status = "failed" /\ task.progress = 100
      /\ task.imported = memory[r].imported
  <2>1. memory[r] \in Task /\ "failed" \in Status /\ 100 \in 0..100
    BY <1>4, Distinct
  <2> QED
    BY <2>1 DEF Task
<1> HIDE DEF task
<1>6. memory'[r] = task /\ pipeline'[r] = "none" => RunPlaced(r)' /\ RunJudged(r)'
  BY <1>5, Distinct DEF RunPlaced, RunJudged
<1> QED
  BY <1>1, <1>3, <1>4, <1>5, <1>6, Distinct, SaveStep

LEMMA ReadStep ==
  ASSUME BridgeInv, NEW r \in Runs, ReadLine(r)
  PROVE  BridgeInv'
<1> DEFINE task == [memory[r] EXCEPT !.progress = Larger(@, log[r])]
<1>1. /\ up /\ pipeline[r] = "reading"
      /\ SaveTaskState(r, task) /\ pipeline' = pipeline
      /\ unread' = [unread EXCEPT ![r] = FALSE]
      /\ UNCHANGED <<stage, process, log, summary>>
      /\ UNCHANGED <<up, crashes, rows, shown>>
  BY DEF ReadLine, At
<1>2. TypeOK /\ RunInv(r)
  BY DEF BridgeInv
<1>3. unread' \in [Runs -> BOOLEAN] /\ Goto(r, "reading")
  BY <1>1, <1>2 DEF TypeOK, Goto
<1>4. /\ memory[r] \in Task /\ memory[r] # None /\ ~memory[r].imported
      /\ Reached(r) \in 0..100 /\ Known(r) = memory[r]
      /\ memory[r].status = "running"
      /\ shown[r] # None => shown[r].status \notin Settled
  BY <1>1, <1>2, AtWorkKnown, Distinct DEF RunInv, RunPlaced
<1>5. Reached(r) = Larger(memory[r].progress, log[r])
  BY <1>4 DEF Reached
<1>6. task \in Task /\ task.status = "running" /\ task.progress = Reached(r)
      /\ task.imported = memory[r].imported
  BY <1>4, <1>5 DEF Task
<1> HIDE DEF task
<1>7. memory'[r] = task /\ pipeline'[r] = "reading" => RunPlaced(r)' /\ RunJudged(r)'
  BY <1>6, Distinct DEF RunPlaced, RunJudged
<1> QED
  BY <1>1, <1>3, <1>4, <1>6, <1>7, Distinct, SaveStep

LEMMA SettleStep ==
  ASSUME BridgeInv, NEW r \in Runs, Settle(r)
  PROVE  BridgeInv'
<1> DEFINE task == Judged(r)
<1>1. /\ up /\ pipeline[r] = "reading" /\ process[r] \in {"ok", "error"}
      /\ SaveTaskState(r, task) /\ Goto(r, "importing") /\ ProcessUnchanged
      /\ UNCHANGED <<up, crashes, rows, shown>>
  BY DEF Settle, At
<1>2. TypeOK /\ RunInv(r)
  BY DEF BridgeInv
<1>3. UNCHANGED <<stage, process, log, summary>> /\ unread' \in [Runs -> BOOLEAN]
  BY <1>1, <1>2 DEF ProcessUnchanged, TypeOK
<1>4. /\ memory[r] \in Task /\ ~memory[r].imported /\ Reached(r) \in 0..100
      /\ shown[r] # None => shown[r].status \notin Settled
  BY <1>1, <1>2, AtWorkKnown, Distinct DEF RunInv, RunPlaced
<1>5. /\ task \in Task /\ task.status \in Settled /\ task.progress = 100
      /\ task.imported = memory[r].imported
      /\ task.status = "completed" =>
           Total(r) > 0 /\ (task.complaint <=> Passed(r) # Total(r))
  <2> DEFINE good == process[r] = "ok" /\ Total(r) > 0
             fault == ~(process[r] = "ok" /\ Total(r) > 0 /\ Passed(r) = Total(r))
  <2>1. task = [memory[r] EXCEPT !.status = IF good THEN "completed" ELSE "failed",
                                 !.complaint = fault, !.progress = 100]
    BY DEF Judged
  <2>2. good \in BOOLEAN /\ fault \in BOOLEAN /\ (good => (fault <=> Passed(r) # Total(r)))
        /\ (good => Total(r) > 0)
    OBVIOUS
  <2> HIDE DEF good, fault, task
  <2>3. /\ task \in Task /\ task.imported = memory[r].imported /\ task.progress = 100
        /\ task.status = IF good THEN "completed" ELSE "failed"
        /\ task.complaint = fault
    <3>1. /\ memory[r] \in Task /\ fault \in BOOLEAN /\ 100 \in 0..100
          /\ (IF good THEN "completed" ELSE "failed") \in Status
      BY <1>4, <2>2, Distinct
    <3> QED
      BY <3>1, <2>1 DEF Task
  <2> QED
    BY <2>2, <2>3, Distinct
<1> HIDE DEF task
<1>6. memory'[r] = task /\ pipeline'[r] = "importing" => RunPlaced(r)' /\ RunJudged(r)'
  <2> SUFFICES ASSUME memory'[r] = task, pipeline'[r] = "importing"
               PROVE  RunPlaced(r)' /\ RunJudged(r)'
    OBVIOUS
  <2>1. Total(r)' = Total(r) /\ Passed(r)' = Passed(r) /\ process' = process
    BY <1>3 DEF Total, Passed
  <2>2. RunPlaced(r)'
    BY <1>1, <1>5, <2>1, Distinct DEF RunPlaced
  <2>3. RunJudged(r)'
    BY <1>5, <2>1 DEF RunJudged
  <2> QED
    BY <2>2, <2>3
<1> QED
  BY <1>1, <1>3, <1>4, <1>5, <1>6, SaveStep

LEMMA SaveIdStep ==
  ASSUME BridgeInv, NEW r \in Runs, SaveExecutionId(r)
  PROVE  BridgeInv'
<1> DEFINE task == [memory[r] EXCEPT !.imported = TRUE]
<1>1. /\ up /\ pipeline[r] = "committed"
      /\ SaveTaskState(r, task) /\ Goto(r, "none") /\ ProcessUnchanged
      /\ UNCHANGED <<up, crashes, rows, shown>>
  BY DEF SaveExecutionId, At
<1>2. TypeOK /\ RunInv(r)
  BY DEF BridgeInv
<1>3. UNCHANGED <<stage, process, log, summary>> /\ unread' \in [Runs -> BOOLEAN]
  BY <1>1, <1>2 DEF ProcessUnchanged, TypeOK
<1>4. /\ memory[r] \in Task /\ memory[r] # None /\ Known(r) = memory[r]
      /\ memory[r].status \in Settled
      /\ shown[r] # None /\ shown[r].status \in Settled
           => memory[r].status = shown[r].status
  BY <1>1, <1>2, AtWorkKnown, Distinct DEF RunInv, RunPlaced
<1>5. memory[r].progress = 100 /\ Reached(r) = 100
  <2>1. disk[r] = memory[r]
    BY <1>2, <1>4, Distinct DEF RunInv, RunSaved
  <2>2. memory[r].progress = 100
    BY <1>2, <1>4, <2>1 DEF RunInv, RunSaved
  <2> QED
    BY <1>4, <2>2, Distinct DEF Reached
<1>6. /\ rows[r] \in Settled
      /\ memory[r].status = "completed" =>
           (rows[r] = "completed" <=> ~memory[r].complaint)
  BY <1>1, <1>2 DEF RunInv, RunJudged, RowStatus, Settled
<1>7. task \in Task /\ task.status = memory[r].status /\ task.progress = 100
      /\ task.complaint = memory[r].complaint
  BY <1>4, <1>5 DEF Task
<1> HIDE DEF task
<1>8. memory'[r] = task /\ pipeline'[r] = "none" => RunPlaced(r)' /\ RunJudged(r)'
  BY <1>4, <1>7, Distinct DEF RunPlaced, RunJudged
<1>9. rows[r] # None
  BY <1>6, NullAssumption
<1> QED
  BY <1>1, <1>3, <1>4, <1>5, <1>6, <1>7, <1>8, <1>9, SaveStep

-----------------------------------------------------------------------------
LEMMA SpawnStep ==
  ASSUME BridgeInv, NEW r \in Runs, Spawn(r)
  PROVE  BridgeInv'
<1>1. /\ up /\ pipeline[r] = "spawning" /\ Goto(r, "reading")
      /\ process' = [process EXCEPT ![r] = "running"]
      /\ UNCHANGED <<up, crashes, memory, disk, stage, unread, log, summary, rows, shown>>
  BY DEF Spawn, At
<1>2. TypeOK /\ RunInv(r)
  BY DEF BridgeInv
<1>3. /\ pipeline' \in [Runs -> {"none", "created", "fetching", "spawning", "reading",
                                 "importing", "committed"}]
      /\ pipeline'[r] = "reading"
      /\ \A q \in Runs \ {r} : pipeline'[q] = pipeline[q]
  BY <1>1, <1>2, Gone
<1>4. /\ process' \in [Runs -> {"none", "running", "ok", "error"}]
      /\ \A q \in Runs \ {r} : process'[q] = process[q]
  BY <1>1, <1>2 DEF TypeOK
<1>5. TypeOK'
  BY <1>1, <1>2, <1>3, <1>4 DEF TypeOK
<1>6. OnlyRun(r)
  BY <1>1, <1>3, <1>4 DEF OnlyRun, SameRun
<1>7. memory[r] # None /\ ~memory[r].imported /\ memory[r].status = "running"
  BY <1>1, <1>2, AtWorkKnown DEF RunInv, RunPlaced
<1>8. RunFresh(r)' /\ RunHeld(r)' /\ RunPlaced(r)' /\ RunJudged(r)'
  BY <1>1, <1>2, <1>3, <1>7
  DEF RunInv, RunFresh, RunHeld, RunPlaced, RunJudged
<1>9. Reached(r)' = Reached(r)
  BY <1>1 DEF Reached, Known, Larger
<1>10. RunSaved(r)' /\ RunShown(r)' /\ RowFits(r)'
  BY <1>1, <1>2, <1>9 DEF RunInv, RunSaved, RunShown, RowFits, Larger, Task
<1>11. RunInv(r)'
  BY <1>8, <1>10 DEF RunInv
<1> QED
  BY <1>5, <1>6, <1>11, Elsewhere DEF BridgeInv, OnlyRun

LEMMA ImportStep ==
  ASSUME BridgeInv, NEW r \in Runs, CommitRows(r) \/ ImportsNothing(r)
  PROVE  BridgeInv'
<1>1. /\ up /\ pipeline[r] = "importing" /\ pipeline'[r] \in {"committed", "none"}
      /\ ProcessUnchanged /\ UNCHANGED <<up, crashes, memory, disk, shown>>
      /\ \A q \in Runs \ {r} : pipeline'[q] = pipeline[q] /\ rows'[q] = rows[q]
      /\ pipeline'[r] = "committed" => rows'[r] = RowStatus(r)
      /\ pipeline'[r] = "none" => rows'[r] = rows[r]
  <2>1. TypeOK
    BY DEF BridgeInv
  <2>2. CASE CommitRows(r)
    BY <2>1, <2>2 DEF CommitRows, At, Goto, TypeOK
  <2>3. CASE ImportsNothing(r)
    BY <2>1, <2>3 DEF ImportsNothing, At, Goto, TypeOK
  <2> QED
    BY <2>2, <2>3
<1>2. TypeOK /\ RunInv(r)
  BY DEF BridgeInv
<1>3. RowStatus(r) \in Settled
  BY DEF RowStatus, Settled
<1>4. TypeOK'
  <2>1. CASE CommitRows(r)
    BY <1>2, <1>3, <2>1 DEF CommitRows, Goto, TypeOK, ProcessUnchanged
  <2>2. CASE ImportsNothing(r)
    BY <1>2, <2>2 DEF ImportsNothing, Goto, TypeOK, ProcessUnchanged
  <2> QED
    BY <2>1, <2>2
<1>5. OnlyRun(r)
  BY <1>1 DEF OnlyRun, SameRun, ProcessUnchanged
<1>6. /\ memory[r] # None /\ ~memory[r].imported /\ memory[r].status \in Settled
      /\ disk[r] = memory[r] /\ process[r] \in {"ok", "error"} /\ disk[r] # None
      /\ Known(r) = memory[r]
  BY <1>1, <1>2, AtWorkKnown, Distinct DEF RunInv, RunPlaced, RunSaved
<1>7. RunFresh(r)' /\ RunHeld(r)'
  BY <1>1, <1>6 DEF RunFresh, RunHeld
<1>8. RunPlaced(r)'
  BY <1>1, <1>6 DEF RunPlaced, ProcessUnchanged
<1>9. RunJudged(r)'
  <2>1. /\ Total(r)' = Total(r) /\ Passed(r)' = Passed(r) /\ RowStatus(r)' = RowStatus(r)
    BY <1>1 DEF Total, Passed, RowStatus, ProcessUnchanged
  <2> QED
    BY <1>1, <1>2, <2>1 DEF RunInv, RunJudged
<1>10. Reached(r)' = Reached(r)
  BY <1>1 DEF Reached, Known, Larger, ProcessUnchanged
<1>11. RunSaved(r)' /\ RunShown(r)'
  BY <1>1, <1>2, <1>10 DEF RunInv, RunSaved, RunShown, Larger, Task, ProcessUnchanged
<1>12. RowFits(r)'
  BY <1>1, <1>6 DEF RowFits
<1>13. RunInv(r)'
  BY <1>7, <1>8, <1>9, <1>11, <1>12 DEF RunInv
<1> QED
  BY <1>4, <1>5, <1>13, Elsewhere DEF BridgeInv, OnlyRun

-----------------------------------------------------------------------------
(* What a step of its process does to a run: the log does not fall. *)
LEMMA ProcessKeeps ==
  ASSUME TypeOK, NEW r \in Runs, RunInv(r), Working(r),
         UNCHANGED <<up, memory, disk, pipeline, rows, shown>>,
         log'[r] \in 0..100, log'[r] >= log[r]
  PROVE  RunInv(r)'
<1>1. process[r] = "running"
  BY DEF Working
<1>2. memory[r] # None \/ disk[r] # None
  BY <1>1 DEF RunInv, RunFresh
<1>3. pipeline[r] \in {"reading", "none"}
  BY <1>1 DEF TypeOK, RunInv, RunHeld, RunPlaced
<1>4. RunFresh(r)' /\ RunHeld(r)' /\ RunPlaced(r)' /\ RunJudged(r)'
  BY <1>2, <1>3 DEF RunInv, RunFresh, RunHeld, RunPlaced, RunJudged
<1>5. log[r] \in 0..100
  BY DEF TypeOK
<1>6. RunSaved(r)'
  <2> SUFFICES ASSUME memory[r] # None
               PROVE  memory[r].progress <= Larger(disk[r].progress, log'[r])
    BY DEF RunInv, RunSaved
  <2>1. memory[r] \in Task /\ disk[r] \in Task
    BY DEF TypeOK, RunInv, RunSaved
  <2>2. memory[r].progress \in Nat /\ disk[r].progress \in Nat
    BY <2>1 DEF Task
  <2>3. memory[r].progress <= Larger(disk[r].progress, log[r])
    BY DEF RunInv, RunSaved
  <2> QED
    BY <1>5, <2>2, <2>3 DEF Larger
<1>7. RunShown(r)'
  <2> SUFFICES ASSUME shown[r] # None, disk[r] \in Task
               PROVE  shown[r].progress <= Reached(r)'
    BY DEF RunInv, RunShown
  <2>1. Known(r) \in Task /\ Known(r)' = Known(r)
    BY DEF TypeOK, Known
  <2>2. Known(r).progress \in Nat /\ shown[r].progress \in Nat
    <3>1. shown[r] \in Answer
      BY DEF TypeOK
    <3> QED
      BY <2>1, <3>1 DEF Task, Answer
  <2>3. shown[r].progress <= Reached(r)
    BY DEF RunInv, RunShown
  <2> QED
    BY <1>5, <2>1, <2>2, <2>3 DEF Reached, Larger
<1>8. RowFits(r)'
  BY DEF RunInv, RowFits
<1> QED
  BY <1>4, <1>6, <1>7, <1>8 DEF RunInv

LEMMA ProcessStepKeeps ==
  ASSUME BridgeInv, NEW r \in Runs, ProcessStep(r)
  PROVE  BridgeInv'
<1>1. Working(r) /\ UNCHANGED <<up, crashes, memory, disk, pipeline, rows, shown>>
  BY DEF ProcessStep, LogStage, Abort, BuildSummary, Complete, Die
<1>2. TypeOK /\ RunInv(r) /\ log[r] \in 0..100 /\ stage[r] \in 0..LastStage
  BY DEF BridgeInv, TypeOK
<1>3. ASSUME NEW p \in 0..100, Logs(r, p)
      PROVE  /\ log' \in [Runs -> 0..100]
             /\ log'[r] >= log[r]
             /\ \A q \in Runs \ {r} : log'[q] = log[q]
             /\ unread' \in [Runs -> BOOLEAN]
  <2>1. Larger(log[r], p) \in 0..100 /\ Larger(log[r], p) >= log[r]
    BY <1>2, LargerOfTwo
  <2>2. IsRead(r) \in BOOLEAN
    BY DEF IsRead
  <2> QED
    BY <1>2, <1>3, <2>1, <2>2 DEF Logs, TypeOK
<1>4. ASSUME NEW e \in {"running", "error", "ok"}, EndsIfUnheard(r, e)
      PROVE  /\ process' \in [Runs -> {"none", "running", "ok", "error"}]
             /\ \A q \in Runs \ {r} : process'[q] = process[q]
  BY <1>2, <1>4 DEF EndsIfUnheard, TypeOK
<1>5. CASE LogStage(r)
  <2>1. stage[r] + 1 \in 1..LastStage
    BY <1>2, <1>5 DEF LogStage, LastStage
  <2>2. \E p \in 0..100 : Logs(r, p)
    BY <1>2, <1>5, <2>1, EventTypes DEF LogStage
  <2>3. stage' \in [Runs -> 0..LastStage]
    BY <1>2, <1>5, <2>1 DEF LogStage, TypeOK
  <2>4. TypeOK'
    BY <1>1, <1>2, <1>3, <1>4, <1>5, <2>2, <2>3 DEF LogStage, TypeOK
  <2>5. RunInv(r)' /\ OnlyRun(r)
    <3>1. RunInv(r)'
      BY <1>1, <1>2, <1>3, <2>2, <2>4, ProcessKeeps DEF TypeOK
    <3>2. OnlyRun(r)
      BY <1>1, <1>3, <1>4, <1>5, <2>2 DEF LogStage, OnlyRun, SameRun
    <3> QED
      BY <3>1, <3>2
  <2> QED
    BY <2>4, <2>5, Elsewhere DEF BridgeInv, OnlyRun
<1>6. CASE Abort(r) \/ Complete(r)
  <2>1. EventProgress[LastStage] \in 0..100 /\ LastStage \in 0..LastStage
    BY EventTypes DEF LastStage
  <2>2. \E p \in 0..100 : Logs(r, p)
    BY <1>6, <2>1 DEF Abort, Complete
  <2>3. stage' \in [Runs -> 0..LastStage] /\ summary' = summary
    BY <1>2, <1>6, <2>1 DEF Abort, Complete, TypeOK
  <2>4. \E e \in {"running", "error", "ok"} : EndsIfUnheard(r, e)
    BY <1>6 DEF Abort, Complete
  <2>5. TypeOK'
    BY <1>1, <1>2, <1>3, <1>4, <2>2, <2>3, <2>4 DEF TypeOK
  <2>6. RunInv(r)' /\ OnlyRun(r)
    <3>1. RunInv(r)'
      BY <1>1, <1>2, <1>3, <2>2, <2>5, ProcessKeeps DEF TypeOK
    <3>2. OnlyRun(r)
      BY <1>1, <1>3, <1>4, <2>2, <2>3, <2>4 DEF OnlyRun, SameRun
    <3> QED
      BY <3>1, <3>2
  <2> QED
    BY <2>5, <2>6, Elsewhere DEF BridgeInv, OnlyRun
<1>7. CASE BuildSummary(r) \/ Die(r)
  <2>1. /\ summary' \in [Runs -> Summary \cup {None}]
        /\ process' \in [Runs -> {"none", "running", "ok", "error"}]
        /\ \A q \in Runs \ {r} : summary'[q] = summary[q] /\ process'[q] = process[q]
        /\ UNCHANGED <<stage, unread, log>>
    BY <1>2, <1>7 DEF BuildSummary, Die, TypeOK
  <2>2. TypeOK'
    BY <1>1, <1>2, <2>1 DEF TypeOK
  <2>3. RunInv(r)'
    BY <1>1, <1>2, <2>1, ProcessKeeps
  <2>4. OnlyRun(r)
    BY <1>1, <2>1 DEF OnlyRun, SameRun
  <2> QED
    BY <2>2, <2>3, <2>4, Elsewhere DEF BridgeInv, OnlyRun
<1> QED
  BY <1>5, <1>6, <1>7 DEF ProcessStep

-----------------------------------------------------------------------------
(* What a poll answers fits what was answered before. *)
LEMMA AnswerFits ==
  ASSUME TypeOK, NEW r \in Runs, RunInv(r), GetStatus(r)
  PROVE  /\ shown'[r] \in Answer
         /\ shown'[r] = [status |-> Known(r).status, progress |-> Reached(r)]
         /\ shown'[r].status = Known(r).status /\ shown'[r].progress = Reached(r)
         /\ \A q \in Runs \ {r} : shown'[q] = shown[q]
         /\ disk[r] \in Task /\ disk[r].status = Known(r).status
         /\ shown[r] # None /\ shown[r].status \in Settled
              => shown'[r].status = shown[r].status
         /\ shown[r] # None => shown'[r].progress >= shown[r].progress
<1>1. /\ Known(r) \in Task /\ Polled(r) \in Task /\ Polled(r).status = Known(r).status
      /\ Polled(r).progress = Reached(r)
  BY PolledAnswers DEF GetStatus
<1>2. /\ Reached(r) \in 0..100 /\ Known(r).status \in Status
  BY <1>1 DEF Task
<1>3. /\ shown' = [shown EXCEPT ![r] = [status |-> Known(r).status,
                                         progress |-> Reached(r)]]
  BY <1>1 DEF GetStatus
<1>4. /\ shown'[r] = [status |-> Known(r).status, progress |-> Reached(r)]
      /\ \A q \in Runs \ {r} : shown'[q] = shown[q]
  BY <1>3 DEF TypeOK
<1>5. disk[r] \in Task /\ disk[r].status = Known(r).status
  <2>1. CASE memory[r] # None
    BY <2>1 DEF Known, RunInv, RunSaved
  <2>2. CASE memory[r] = None
    BY <1>1, <2>2 DEF Known
  <2> QED
    BY <2>1, <2>2
<1>6. ASSUME shown[r] # None
      PROVE  /\ shown[r].progress <= Reached(r) /\ shown[r].progress \in Nat
             /\ shown[r].status \in Settled => disk[r].status = shown[r].status
  <2>1. shown[r] \in Answer
    BY <1>6 DEF TypeOK
  <2>2. shown[r].progress \in Nat
    BY <2>1 DEF Answer
  <2> QED
    BY <1>5, <1>6, <2>2 DEF RunInv, RunShown
<1> QED
  BY <1>2, <1>4, <1>5, <1>6 DEF Answer

LEMMA PollStep ==
  ASSUME BridgeInv, NEW r \in Runs, GetStatus(r)
  PROVE  BridgeInv'
<1>1. /\ up /\ ProcessUnchanged /\ UNCHANGED <<up, crashes, disk, pipeline, rows>>
      /\ Known(r) \notin {None, Torn}
      /\ memory' = IF memory[r] = None THEN memory ELSE [memory EXCEPT ![r] = Polled(r)]
      /\ shown' = [shown EXCEPT ![r] = [status |-> Polled(r).status,
                                         progress |-> Polled(r).progress]]
  BY DEF GetStatus
<1>2. TypeOK /\ RunInv(r)
  BY DEF BridgeInv
<1>3. /\ Known(r) \in Task /\ Polled(r) \in Task
      /\ Polled(r).status = Known(r).status /\ Polled(r).imported = Known(r).imported
      /\ Polled(r).progress = Reached(r)
      /\ Known(r).status # "running" => Polled(r) = Known(r)
  BY <1>1, <1>2, PolledAnswers
<1>4. /\ shown'[r] \in Answer
      /\ shown'[r].status = Known(r).status /\ shown'[r].progress = Reached(r)
      /\ \A q \in Runs \ {r} : shown'[q] = shown[q]
      /\ disk[r] \in Task /\ disk[r].status = Known(r).status /\ disk[r] # None
  BY <1>2, AnswerFits, NullAssumption
<1>5. /\ memory' \in [Runs -> Task \cup {None}]
      /\ \A q \in Runs \ {r} : memory'[q] = memory[q]
      /\ memory'[r] = IF memory[r] = None THEN None ELSE Polled(r)
  <2>1. CASE memory[r] = None
    BY <1>1, <1>2, <2>1 DEF TypeOK
  <2>2. CASE memory[r] # None
    BY <1>1, <1>2, <1>3, <2>2 DEF TypeOK
  <2> QED
    BY <2>1, <2>2
<1>6. shown' \in [Runs -> Answer \cup {None}]
  BY <1>1, <1>2, <1>4 DEF TypeOK
<1>7. TypeOK'
  BY <1>1, <1>2, <1>5, <1>6 DEF TypeOK, ProcessUnchanged
<1>8. OnlyRun(r)
  BY <1>1, <1>4, <1>5 DEF OnlyRun, SameRun, ProcessUnchanged
<1>9. /\ log[r] \in 0..100 /\ log' = log /\ process' = process /\ summary' = summary
      /\ Known(r).progress \in 0..100 /\ disk[r].progress \in 0..100
      /\ Reached(r) \in 0..100
  BY <1>1, <1>2, <1>3, <1>4 DEF TypeOK, Task, ProcessUnchanged
<1>10. CASE memory[r] = None
  <2>1. memory'[r] = memory[r] /\ Known(r)' = Known(r)
    BY <1>1, <1>5, <1>10 DEF Known
  <2>2. Reached(r)' = Reached(r)
    BY <1>9, <2>1 DEF Reached, Larger
  <2>3. RunFresh(r)' /\ RunHeld(r)' /\ RunPlaced(r)' /\ RunJudged(r)'
    BY <1>1, <1>2, <1>4, <1>10, <2>1
    DEF RunInv, RunFresh, RunHeld, RunPlaced, RunJudged
  <2>4. RunSaved(r)' /\ RowFits(r)'
    BY <1>1, <1>2, <1>10, <2>1 DEF RunInv, RunSaved, RowFits
  <2>5. RunShown(r)'
    BY <1>1, <1>4, <1>9, <2>2 DEF RunShown
  <2>6. RunInv(r)'
    BY <2>3, <2>4, <2>5 DEF RunInv
  <2> QED
    BY <1>7, <1>8, <2>6, Elsewhere DEF BridgeInv, OnlyRun
<1>11. CASE memory[r] # None
  <2>1. /\ Known(r) = memory[r] /\ memory'[r] = Polled(r) /\ memory'[r] # None
        /\ Known(r)' = Polled(r)
    BY <1>1, <1>3, <1>5, <1>11, NullAssumption DEF Known
  <2>2. CASE memory[r].status # "running"
    <3>1. memory'[r] = memory[r]
      BY <1>3, <2>1, <2>2
    <3>2. Reached(r)' = Reached(r)
      BY <1>9, <2>1, <2>2, <1>3 DEF Reached, Larger
    <3>3. RunFresh(r)' /\ RunHeld(r)' /\ RunPlaced(r)'
      BY <1>1, <1>2, <1>4, <1>9, <3>1 DEF RunInv, RunFresh, RunHeld, RunPlaced
    <3>4. Total(r)' = Total(r) /\ Passed(r)' = Passed(r) /\ RowStatus(r)' = RowStatus(r)
      BY <1>9 DEF Total, Passed, RowStatus
    <3>5. RunJudged(r)'
      BY <1>1, <1>2, <3>1, <3>4 DEF RunInv, RunJudged
    <3>6. RunSaved(r)' /\ RowFits(r)'
      BY <1>1, <1>2, <1>9, <3>1 DEF RunInv, RunSaved, RowFits
    <3>7. RunShown(r)'
      BY <1>1, <1>4, <1>9, <3>2 DEF RunShown
    <3>8. RunInv(r)'
      BY <3>3, <3>5, <3>6, <3>7 DEF RunInv
    <3> QED
      BY <1>7, <1>8, <3>8, Elsewhere DEF BridgeInv, OnlyRun
  <2>3. CASE memory[r].status = "running"
    <3>1. Reached(r) = Larger(memory[r].progress, log[r])
      BY <2>1, <2>3 DEF Reached
    <3>2. /\ memory'[r].status = "running" /\ memory'[r].progress = Reached(r)
          /\ memory'[r].imported = memory[r].imported
      BY <1>3, <2>1, <2>3
    <3>3. Reached(r)' = Reached(r)
      <4>1. Reached(r)' = Larger(Reached(r), log[r])
        BY <1>9, <2>1, <3>2 DEF Reached, Larger
      <4> QED
        BY <1>9, <2>1, <3>1, <4>1 DEF Larger
    <3>4. RunFresh(r)' /\ RunHeld(r)'
      BY <1>1, <1>2, <2>1, <3>2 DEF RunInv, RunFresh, RunHeld
    <3>5. pipeline[r] \in {"fetching", "spawning", "reading"}
      BY <1>2, <1>11, <2>3, Distinct DEF RunInv, RunPlaced, TypeOK
    <3>6. RunPlaced(r)' /\ RunJudged(r)'
      <4>1. pipeline[r] \in {"fetching", "spawning"} => memory'[r].progress = memory[r].progress
        <5>1. pipeline[r] \in {"fetching", "spawning"} => log[r] = 0
          BY <1>2, <1>11 DEF RunInv, RunPlaced
        <5> QED
          BY <1>9, <2>1, <3>1, <3>2, <5>1 DEF Larger
      <4> QED
        BY <1>1, <1>2, <1>9, <1>11, <3>2, <3>5, <4>1 DEF RunInv, RunPlaced, RunJudged
    <3>7. RunSaved(r)'
      <4>1. /\ disk[r].progress <= memory[r].progress
            /\ memory[r].progress <= Larger(disk[r].progress, log[r])
        BY <1>2, <1>11 DEF RunInv, RunSaved
      <4>2. /\ disk[r].progress <= Reached(r)
            /\ Reached(r) <= Larger(disk[r].progress, log[r])
        <5>1. /\ memory[r].progress \in Nat /\ disk[r].progress \in Nat /\ log[r] \in Nat
          BY <1>9, <2>1
        <5> QED
          BY <3>1, <4>1, <5>1 DEF Larger
      <4>3. Larger(disk[r].progress, log[r])' = Larger(disk[r].progress, log[r])
        BY <1>1, <1>9 DEF Larger
      <4> QED
        BY <1>1, <1>3, <1>4, <2>1, <2>3, <3>2, <4>2, <4>3, Distinct DEF RunSaved
    <3>8. RunShown(r)' /\ RowFits(r)'
      BY <1>1, <1>2, <1>4, <1>9, <3>3 DEF RunInv, RunShown, RowFits
    <3>9. RunInv(r)'
      BY <3>4, <3>6, <3>7, <3>8 DEF RunInv
    <3> QED
      BY <1>7, <1>8, <3>9, Elsewhere DEF BridgeInv, OnlyRun
  <2> QED
    BY <2>2, <2>3
<1> QED
  BY <1>10, <1>11

-----------------------------------------------------------------------------
(* A kill of the server takes its memory; the disk and the log can answer   *)
(* for it.                                                                  *)
LEMMA CrashStep ==
  ASSUME BridgeInv, Crash
  PROVE  BridgeInv'
<1>1. TypeOK
  BY DEF BridgeInv
<1>2. /\ up' = FALSE /\ crashes' \in 0..MaxCrashes
      /\ memory' = [q \in Runs |-> None] /\ pipeline' = [q \in Runs |-> "none"]
      /\ unread' = [q \in Runs |-> FALSE]
      /\ UNCHANGED <<stage, process, log, summary, rows, shown>>
  BY <1>1, RunAssumption DEF Crash, TypeOK
<1>3. /\ disk' \in [Runs -> Task \cup {None, Torn}]
      /\ \A q \in Runs : disk'[q] = disk[q] \/ (disk'[q] = Torn /\ pipeline[q] # "none")
  <2>1. CASE disk' = disk
    BY <1>1, <2>1 DEF TypeOK
  <2>2. ASSUME NEW r \in Runs, pipeline[r] # "none", disk' = [disk EXCEPT ![r] = Torn]
        PROVE  /\ disk' \in [Runs -> Task \cup {None, Torn}]
               /\ \A q \in Runs : disk'[q] = disk[q]
                                   \/ (disk'[q] = Torn /\ pipeline[q] # "none")
    BY <1>1, <2>2 DEF TypeOK
  <2> QED
    BY <2>1, <2>2 DEF Crash
<1>4. TypeOK'
  BY <1>1, <1>2, <1>3 DEF TypeOK
<1>5. ASSUME NEW q \in Runs
      PROVE  RunInv(q)'
  <2>1. RunInv(q) /\ memory'[q] = None /\ pipeline'[q] = "none"
    BY <1>2 DEF BridgeInv
  <2>2. disk'[q] = None => disk[q] = None
    BY <1>3, NullAssumption
  <2>3. disk[q] = None => memory[q] = None
    BY <2>1, NullAssumption DEF RunInv, RunSaved
  <2>4. disk'[q] \in Task => disk'[q] = disk[q]
    BY <1>3, NullAssumption
  <2>5. RunFresh(q)' /\ RunHeld(q)' /\ RunPlaced(q)' /\ RunJudged(q)'
    BY <1>2, <2>1, <2>2, <2>3 DEF RunInv, RunFresh, RunHeld, RunPlaced, RunJudged
  <2>6. RunSaved(q)' /\ RowFits(q)'
    BY <1>2, <2>1, <2>4 DEF RunInv, RunSaved, RowFits
  <2>7. RunShown(q)'
    <3>1. shown[q] # None => disk'[q] # None
      BY <2>1, <2>2 DEF RunInv, RunShown
    <3>2. ASSUME shown[q] # None, disk'[q] \in Task
          PROVE  /\ shown[q].status \in Settled => disk'[q].status = shown[q].status
                 /\ shown[q].progress <= Reached(q)'
      <4>1. disk[q] \in Task /\ disk'[q] = disk[q] /\ Known(q)' = disk[q]
        BY <2>1, <2>4, <3>2 DEF Known
      <4>2. /\ shown[q].status \in Settled => disk[q].status = shown[q].status
            /\ shown[q].progress <= Reached(q)
        BY <2>1, <3>2, <4>1 DEF RunInv, RunShown
      <4>3. shown[q] \in Answer /\ log[q] \in 0..100
        BY <1>1, <3>2 DEF TypeOK
      <4>4. Known(q) \in Task
        BY <1>1, <4>1 DEF TypeOK, Known
      <4>5. /\ shown[q].progress \in Nat /\ disk[q].progress \in Nat
            /\ Known(q).progress \in Nat
        BY <4>1, <4>3, <4>4 DEF Answer, Task
      <4>6. Reached(q)' = IF disk[q].status = "running"
                          THEN Larger(disk[q].progress, log[q]) ELSE disk[q].progress
        BY <1>2, <4>1 DEF Reached, Larger
      <4>7. CASE memory[q] = None
        BY <4>1, <4>2, <4>6, <4>7 DEF Known, Reached
      <4>8. CASE memory[q] # None
        <5>1. /\ Known(q) = memory[q] /\ disk[q].status = memory[q].status
              /\ memory[q].progress <= Larger(disk[q].progress, log[q])
              /\ memory[q].status # "running" => disk[q] = memory[q]
          BY <2>1, <4>8 DEF Known, RunInv, RunSaved
        <5>2. Reached(q) <= Reached(q)'
          BY <4>3, <4>5, <4>6, <5>1 DEF Reached, Larger
        <5>3. Reached(q) \in Nat /\ Reached(q)' \in Nat
          BY <4>3, <4>5, <4>6 DEF Reached, Larger
        <5> QED
          BY <4>1, <4>2, <4>5, <5>2, <5>3
      <4> QED
        BY <4>7, <4>8
    <3> QED
      BY <1>2, <3>1, <3>2 DEF RunShown
  <2> QED
    BY <2>5, <2>6, <2>7 DEF RunInv
<1> QED
  BY <1>4, <1>5 DEF BridgeInv

LEMMA RestartStep ==
  ASSUME BridgeInv, Restart \/ UNCHANGED vars
  PROVE  BridgeInv'
<1>1. /\ UNCHANGED <<crashes, memory, disk, pipeline, stage, process, unread, log,
                     summary, rows, shown>>
      /\ up' = up \/ up'
      /\ up' \in BOOLEAN
  BY DEF Restart, vars, ProcessUnchanged, BridgeInv, TypeOK
<1>2. TypeOK'
  BY <1>1 DEF BridgeInv, TypeOK
<1>3. ASSUME NEW q \in Runs
      PROVE  RunInv(q)'
  <2>1. RunInv(q)
    BY DEF BridgeInv
  <2>2. /\ Total(q)' = Total(q) /\ Passed(q)' = Passed(q) /\ Known(q)' = Known(q)
    BY <1>1 DEF Total, Passed, Known
  <2>3. RowStatus(q)' = RowStatus(q) /\ Reached(q)' = Reached(q)
    BY <1>1, <2>2 DEF RowStatus, Reached, Larger
  <2>4. RunFresh(q)' /\ RunHeld(q)' /\ RunPlaced(q)'
    BY <1>1, <2>1 DEF RunInv, RunFresh, RunHeld, RunPlaced
  <2>5. RunJudged(q)' /\ RunSaved(q)'
    BY <1>1, <2>1, <2>2, <2>3 DEF RunInv, RunJudged, RunSaved, Larger
  <2>6. RunShown(q)' /\ RowFits(q)'
    BY <1>1, <2>1, <2>3 DEF RunInv, RunShown, RowFits
  <2> QED
    BY <2>4, <2>5, <2>6 DEF RunInv
<1> QED
  BY <1>2, <1>3 DEF BridgeInv

LEMMA BridgeStarts ==
  Init => BridgeInv
<1> SUFFICES ASSUME Init
             PROVE  BridgeInv
  OBVIOUS
<1>1. TypeOK
  BY RunAssumption DEF Init, TypeOK, LastStage
<1>2. ASSUME NEW r \in Runs
      PROVE  RunInv(r)
  <2>1. memory[r] = None /\ disk[r] = None /\ pipeline[r] = "none" /\ process[r] = "none"
        /\ log[r] = 0 /\ summary[r] = None /\ rows[r] = None /\ shown[r] = None
    BY DEF Init
  <2> QED
    BY <2>1, NullAssumption
    DEF RunInv, RunFresh, RunHeld, RunPlaced, RunJudged, RunSaved, RunShown, RowFits
<1> QED
  BY <1>1, <1>2 DEF BridgeInv

LEMMA BridgeSteps ==
  BridgeInv /\ [Next]_vars => BridgeInv'
<1> SUFFICES ASSUME BridgeInv, [Next]_vars
             PROVE  BridgeInv'
  OBVIOUS
<1>1. CASE StartRun
  BY <1>1, StartStep
<1>2. ASSUME NEW r \in Runs, PipelineStep(r)
      PROVE  BridgeInv'
  BY <1>2, BeginStep, SpawnStep, FailsStep, ReadStep, SettleStep, ImportStep, SaveIdStep
  DEF PipelineStep
<1>3. ASSUME NEW r \in Runs, ProcessStep(r)
      PROVE  BridgeInv'
  BY <1>3, ProcessStepKeeps
<1>4. ASSUME NEW r \in Runs, GetStatus(r)
      PROVE  BridgeInv'
  BY <1>4, PollStep
<1>5. CASE Crash
  BY <1>5, CrashStep
<1>6. CASE Restart \/ UNCHANGED vars
  BY <1>6, RestartStep
<1> QED
  BY <1>1, <1>2, <1>3, <1>4, <1>5, <1>6 DEF Next

LEMMA BridgeAlways ==
  Spec => []BridgeInv
<1> QED
  BY BridgeStarts, BridgeSteps, PTL DEF Spec

(* The variables of the service and of the processes keep their types, for *)
(* any number of runs, results and kills.                                  *)
THEOREM BridgeTypeCorrect ==
  Spec => []TypeOK
<1>1. BridgeInv => TypeOK
  BY DEF BridgeInv
<1> QED
  BY <1>1, BridgeAlways, PTL

(* A run that says it was imported has its row, and the row of a completed *)
(* run is completed exactly if the run has no complaint.                   *)
THEOREM RowCorrect ==
  Spec => []RowFitsTask
<1>1. BridgeInv => RowFitsTask
  BY DEF BridgeInv, RunInv, RowFits, RowFitsTask
<1> QED
  BY <1>1, BridgeAlways, PTL

(* Between two polls of a run nothing happens to what was answered. *)
LEMMA OnlyPollsAnswer ==
  ASSUME Next
  PROVE  shown' = shown \/ \E r \in Runs : GetStatus(r)
<1>1. ASSUME NEW r \in Runs, PipelineStep(r)
      PROVE  shown' = shown
  BY <1>1 DEF PipelineStep, Begin, ExportTask, Spawn, PipelineFails, ReadLine, Settle,
              CommitRows, SaveExecutionId, ImportsNothing
<1>2. ASSUME NEW r \in Runs, ProcessStep(r)
      PROVE  shown' = shown
  BY <1>2 DEF ProcessStep, LogStage, Abort, BuildSummary, Complete, Die
<1>3. StartRun \/ Crash \/ Restart => shown' = shown
  BY DEF StartRun, Crash, Restart
<1> QED
  BY <1>1, <1>2, <1>3 DEF Next

(* Once a poll has answered that a run is completed or failed every later  *)
(* poll that still finds its task does, over kills and restarts.           *)
THEOREM SettledForGood ==
  Spec => SettledIsFinal
<1>1. BridgeInv /\ [Next]_vars
        => [ \A r \in Runs : shown[r] # None /\ shown[r].status \in Settled
               => shown'[r].status = shown[r].status ]_vars
  <2> SUFFICES ASSUME BridgeInv, Next, NEW r \in Runs,
                      shown[r] # None, shown[r].status \in Settled
               PROVE  shown'[r].status = shown[r].status
    OBVIOUS
  <2>1. ASSUME NEW q \in Runs, GetStatus(q)
        PROVE  shown'[r].status = shown[r].status
    <3>1. TypeOK /\ RunInv(q)
      BY DEF BridgeInv
    <3> QED
      BY <2>1, <3>1, AnswerFits
  <2> QED
    BY <2>1, OnlyPollsAnswer
<1> QED
  BY <1>1, BridgeAlways, PTL DEF Spec, SettledIsFinal

(* The progress that polls answer never falls, although the memory it was  *)
(* computed in may be gone.                                                *)
THEOREM ProgressKeeps ==
  Spec => ProgressNeverFalls
<1>1. BridgeInv /\ [Next]_vars
        => [ \A r \in Runs : shown[r] # None
               => shown'[r].progress >= shown[r].progress ]_vars
  <2> SUFFICES ASSUME BridgeInv, Next, NEW r \in Runs, shown[r] # None
               PROVE  shown'[r].progress >= shown[r].progress
    OBVIOUS
  <2>1. ASSUME NEW q \in Runs, GetStatus(q)
        PROVE  shown'[r].progress >= shown[r].progress
    <3>1. TypeOK /\ RunInv(q) /\ shown[r] \in Answer
      BY DEF BridgeInv, TypeOK
    <3>2. shown[r].progress \in Nat
      BY <3>1 DEF Answer
    <3>3. CASE r = q
      BY <2>1, <3>1, <3>3, AnswerFits
    <3>4. CASE r # q
      <4>1. shown'[r] = shown[r]
        BY <2>1, <3>1, <3>4, AnswerFits
      <4> QED
        BY <3>2, <4>1
    <3> QED
      BY <3>3, <3>4
  <2>2. shown[r].progress \in Nat
    <3>1. shown[r] \in Answer
      BY DEF BridgeInv, TypeOK
    <3> QED
      BY <3>1 DEF Answer
  <2> QED
    BY <2>1, <2>2, OnlyPollsAnswer
<1> QED
  BY <1>1, BridgeAlways, PTL DEF Spec, ProgressNeverFalls

-----------------------------------------------------------------------------
(***************************************************************************)
(* What RunSettles, which is about fairness, rests on: a run that is not   *)
(* settled has a coroutine that is not at its end, waiting for a process   *)
(* only if there is one, and no step of either can be taken for ever.      *)
(***************************************************************************)
NoneForgotten ==
  \A r \in Runs : memory[r] # None /\ memory[r].status \notin Settled =>
    /\ up
    /\ pipeline[r] \in {"created", "fetching", "spawning", "reading"}
    /\ pipeline[r] = "reading" => process[r] # "none"

ReadsAProcess == \A r \in Runs : pipeline[r] = "reading" => process[r] # "none"

(* A run in the memory of the server that is neither completed nor failed  *)
(* has its coroutine before the verdict, over any number of kills; and a   *)
(* coroutine reads only from a process that was started.                   *)
THEOREM NoRunForgotten ==
  Spec => []NoneForgotten
<1>1. Init => ReadsAProcess
  BY DEF Init, ReadsAProcess
<1>2. TypeOK /\ ReadsAProcess /\ [Next]_vars => ReadsAProcess'
  <2> SUFFICES ASSUME TypeOK, ReadsAProcess, [Next]_vars, NEW q \in Runs,
                      pipeline'[q] = "reading"
               PROVE  process'[q] # "none"
    BY DEF ReadsAProcess
  <2> USE DEF TypeOK, ReadsAProcess, Goto, At, ProcessUnchanged
  <2>1. CASE UNCHANGED vars
    BY <2>1 DEF vars
  <2>2. CASE StartRun
    BY <2>2 DEF StartRun
  <2>3. CASE Crash
    BY <2>3 DEF Crash
  <2>4. CASE Restart
    BY <2>4 DEF Restart
  <2>5. ASSUME NEW r \in Runs, PipelineStep(r)
        PROVE  process'[q] # "none"
    <3>1. CASE Spawn(r)
      BY <3>1 DEF Spawn
    <3>2. CASE Begin(r) \/ ExportTask(r) \/ PipelineFails(r)
      BY <3>2 DEF Begin, ExportTask, PipelineFails
    <3>3. CASE ReadLine(r)
      BY <3>3 DEF ReadLine
    <3>4. CASE Settle(r) \/ CommitRows(r) \/ SaveExecutionId(r) \/ ImportsNothing(r)
      BY <3>4 DEF Settle, CommitRows, SaveExecutionId, ImportsNothing
    <3> QED
      BY <2>5, <3>1, <3>2, <3>3, <3>4 DEF PipelineStep
  <2>6. ASSUME NEW r \in Runs, ProcessStep(r)
        PROVE  process'[q] # "none"
    <3>1. /\ pipeline' = pipeline
          /\ \/ process' = process
             \/ \E how \in {"running", "ok", "error"} :
                  process' = [process EXCEPT ![r] = how]
      BY <2>6 DEF ProcessStep, LogStage, Abort, BuildSummary, Complete, Die, EndsIfUnheard
    <3> QED
      BY <3>1
  <2>7. ASSUME NEW r \in Runs, GetStatus(r)
        PROVE  process'[q] # "none"
    BY <2>7 DEF GetStatus
  <2> QED
    BY <2>1, <2>2, <2>3, <2>4, <2>5, <2>6, <2>7 DEF Next
<1>3. BridgeInv /\ ReadsAProcess => NoneForgotten
  <2> SUFFICES ASSUME BridgeInv, ReadsAProcess, NEW r \in Runs,
                      memory[r] # None, memory[r].status \notin Settled
               PROVE  /\ up
                      /\ pipeline[r] \in {"created", "fetching", "spawning", "reading"}
    BY DEF NoneForgotten, ReadsAProcess
  <2>1. RunHeld(r) /\ RunPlaced(r) /\ TypeOK
    BY DEF BridgeInv, RunInv
  <2> QED
    BY <2>1 DEF RunHeld, RunPlaced, TypeOK
<1>4. BridgeInv => TypeOK
  BY DEF BridgeInv
<1> QED
  BY <1>1, <1>2, <1>3, <1>4, BridgeAlways, PTL DEF Spec

(* The places a coroutine has before it, and what a process has left: its  *)
(* end, the stages with the summary, and the line that is to be read.      *)
PlacesLeft == [created |-> 6, fetching |-> 5, spawning |-> 4, reading |-> 3,
               importing |-> 2, committed |-> 1, none |-> 0]
EndLeft(r) == IF Working(r) THEN 1 ELSE 0
StagesLeft(r) == (LastStage - stage[r]) + (IF summary[r] = None THEN 1 ELSE 0)
LinesLeft(r) == IF unread[r] THEN 1 ELSE 0

RunLeft(r) == <<PlacesLeft[pipeline[r]], EndLeft(r), StagesLeft(r), LinesLeft(r)>>

LessLeft(r) == Before(RunLeft(r)', RunLeft(r))

RunStepsCount ==
  [][ \A r \in Runs :
        /\ PipelineStep(r) \/ ProcessStep(r) => LessLeft(r)
        /\ disk[r] # None => RunLeft(r)' = RunLeft(r) \/ LessLeft(r) ]_vars

LEMMA LeftAlone ==
  ASSUME NEW r \in Runs, pipeline'[r] = pipeline[r], process'[r] = process[r],
         stage'[r] = stage[r], summary'[r] = summary[r], unread'[r] = unread[r]
  PROVE  RunLeft(r)' = RunLeft(r)
  BY DEF RunLeft, EndLeft, Working, StagesLeft, LinesLeft

(* A step of the coroutine takes it on, or uses up the line it reads.      *)
LEMMA CoroutineCounts ==
  ASSUME TypeOK, NEW r \in Runs, PipelineStep(r)
  PROVE  LessLeft(r)
<1> USE DEF At, Goto
<1>m. ASSUME PlacesLeft[pipeline'[r]] < PlacesLeft[pipeline[r]]
      PROVE  LessLeft(r)
  BY <1>m, BeforeInOrder DEF LessLeft, RunLeft
<1>t. r \in DOMAIN pipeline /\ r \in DOMAIN unread
  BY DEF TypeOK
<1>1. CASE Begin(r)
  BY <1>1, <1>t, <1>m DEF Begin, PlacesLeft
<1>2. CASE ExportTask(r)
  BY <1>2, <1>t, <1>m DEF ExportTask, PlacesLeft
<1>3. CASE Spawn(r)
  BY <1>3, <1>t, <1>m DEF Spawn, PlacesLeft
<1>4. CASE PipelineFails(r)
  BY <1>4, <1>t, <1>m DEF PipelineFails, PlacesLeft
<1>5. CASE Settle(r)
  BY <1>5, <1>t, <1>m DEF Settle, PlacesLeft
<1>6. CASE CommitRows(r)
  BY <1>6, <1>t, <1>m DEF CommitRows, PlacesLeft
<1>7. CASE SaveExecutionId(r) \/ ImportsNothing(r)
  BY <1>7, <1>t, <1>m DEF SaveExecutionId, ImportsNothing, PlacesLeft
<1>8. CASE ReadLine(r)
  <2>1. /\ PlacesLeft[pipeline'[r]] = PlacesLeft[pipeline[r]]
        /\ EndLeft(r)' = EndLeft(r) /\ StagesLeft(r)' = StagesLeft(r)
    BY <1>8 DEF ReadLine, EndLeft, Working, StagesLeft
  <2>2. LinesLeft(r)' < LinesLeft(r)
    BY <1>8, <1>t DEF ReadLine, LinesLeft
  <2> QED
    BY <2>1, <2>2, BeforeInOrder DEF LessLeft, RunLeft
<1> QED
  BY <1>1, <1>2, <1>3, <1>4, <1>5, <1>6, <1>7, <1>8 DEF PipelineStep

(* A step of the process ends it, or is one of the stages and the summary. *)
LEMMA ProcessCounts ==
  ASSUME TypeOK, NEW r \in Runs, ProcessStep(r)
  PROVE  LessLeft(r)
<1>t. /\ r \in DOMAIN process /\ r \in DOMAIN stage /\ r \in DOMAIN summary
      /\ stage[r] \in 0..LastStage
  BY DEF TypeOK
<1>p. PlacesLeft[pipeline'[r]] = PlacesLeft[pipeline[r]]
  BY DEF ProcessStep, LogStage, Abort, BuildSummary, Complete, Die
<1>e. ASSUME process[r] = "running", process'[r] \in {"ok", "error"}
      PROVE  LessLeft(r)
  <2>1. EndLeft(r)' < EndLeft(r)
    BY <1>e DEF EndLeft, Working
  <2> QED
    BY <1>p, <2>1, BeforeInOrder DEF LessLeft, RunLeft
<1>s. ASSUME process'[r] = process[r], StagesLeft(r)' < StagesLeft(r)
      PROVE  LessLeft(r)
  <2>1. EndLeft(r)' = EndLeft(r)
    BY <1>s DEF EndLeft, Working
  <2> QED
    BY <1>p, <1>s, <2>1, BeforeInOrder DEF LessLeft, RunLeft
<1>1. CASE LogStage(r)
  <2>1. stage'[r] = stage[r] + 1 /\ summary' = summary /\ process[r] = "running"
    BY <1>1, <1>t DEF LogStage, Working
  <2>2. StagesLeft(r)' < StagesLeft(r)
    BY <1>t, <2>1 DEF StagesLeft, LastStage
  <2>3. process'[r] \in {"running", "error"}
    BY <1>1, <1>t DEF LogStage, EndsIfUnheard
  <2> QED
    BY <1>e, <1>s, <2>1, <2>2, <2>3
<1>2. CASE Abort(r) \/ Die(r)
  <2>1. process[r] = "running" /\ process'[r] = "error"
    BY <1>2, <1>t DEF Abort, Die, Working, EndsIfUnheard
  <2> QED
    BY <1>e, <2>1
<1>3. CASE BuildSummary(r)
  <2>1. /\ process' = process /\ stage' = stage
        /\ summary[r] = None /\ summary'[r] \in Summary
    BY <1>3, <1>t DEF BuildSummary
  <2>2. summary'[r] # None
    BY <2>1, NullAssumption
  <2>3. StagesLeft(r)' < StagesLeft(r)
    BY <1>t, <2>1, <2>2 DEF StagesLeft, LastStage
  <2> QED
    BY <1>s, <2>1, <2>3
<1>4. CASE Complete(r)
  <2>1. process[r] = "running" /\ process'[r] \in {"ok", "error"}
    BY <1>4, <1>t DEF Complete, Working, EndsIfUnheard
  <2> QED
    BY <1>e, <2>1
<1> QED
  BY <1>1, <1>2, <1>3, <1>4 DEF ProcessStep

(* What is done for one run leaves the others what they have.              *)
LEMMA OthersLeft ==
  ASSUME NEW q \in Runs, NEW r \in Runs, q # r, TypeOK, PipelineStep(q) \/ ProcessStep(q)
  PROVE  RunLeft(r)' = RunLeft(r)
<1>1. ASSUME PipelineStep(q)
      PROVE  /\ pipeline'[r] = pipeline[r] /\ process'[r] = process[r]
             /\ stage' = stage /\ summary' = summary /\ unread'[r] = unread[r]
  <2> USE DEF TypeOK, Goto, ProcessUnchanged
  <2>1. CASE Begin(q) \/ ExportTask(q) \/ PipelineFails(q)
    BY <2>1 DEF Begin, ExportTask, PipelineFails
  <2>2. CASE Spawn(q) \/ ReadLine(q)
    BY <2>2 DEF Spawn, ReadLine
  <2>3. CASE Settle(q) \/ CommitRows(q) \/ SaveExecutionId(q) \/ ImportsNothing(q)
    BY <2>3 DEF Settle, CommitRows, SaveExecutionId, ImportsNothing
  <2> QED
    BY <1>1, <2>1, <2>2, <2>3 DEF PipelineStep
<1>2. ASSUME ProcessStep(q)
      PROVE  /\ pipeline' = pipeline /\ process'[r] = process[r]
             /\ stage'[r] = stage[r] /\ summary'[r] = summary[r] /\ unread'[r] = unread[r]
  <2> USE DEF TypeOK, Logs, EndsIfUnheard
  <2>1. CASE LogStage(q)
    BY <2>1 DEF LogStage
  <2>2. CASE Abort(q) \/ Die(q)
    BY <2>2 DEF Abort, Die
  <2>3. CASE BuildSummary(q)
    BY <2>3 DEF BuildSummary
  <2>4. CASE Complete(q)
    BY <2>4 DEF Complete
  <2> QED
    BY <1>2, <2>1, <2>2, <2>3, <2>4 DEF ProcessStep
<1> QED
  BY <1>1, <1>2, LeftAlone

(* A kill leaves a run no more than it had.                                *)
LEMMA KilledLeft ==
  ASSUME TypeOK, Crash, NEW r \in Runs
  PROVE  RunLeft(r)' = RunLeft(r) \/ LessLeft(r)
<1>1. /\ pipeline'[r] = "none" /\ process' = process /\ stage' = stage
      /\ summary' = summary /\ unread'[r] = FALSE
  BY DEF Crash
<1>2. EndLeft(r)' = EndLeft(r) /\ StagesLeft(r)' = StagesLeft(r)
  BY <1>1 DEF EndLeft, Working, StagesLeft
<1>3. CASE pipeline[r] # "none"
  <2>1. PlacesLeft[pipeline'[r]] < PlacesLeft[pipeline[r]]
    BY <1>1, <1>3 DEF TypeOK, PlacesLeft
  <2> QED
    BY <2>1, BeforeInOrder DEF LessLeft, RunLeft
<1>4. CASE pipeline[r] = "none" /\ unread[r]
  <2>1. LinesLeft(r)' < LinesLeft(r)
    BY <1>1, <1>4 DEF LinesLeft
  <2> QED
    BY <1>1, <1>2, <1>4, <2>1, BeforeInOrder DEF LessLeft, RunLeft
<1>5. CASE pipeline[r] = "none" /\ ~unread[r]
  <2>1. unread'[r] = unread[r]
    BY <1>1, <1>5 DEF TypeOK
  <2> QED
    BY <1>1, <1>5, <2>1, LeftAlone
<1> QED
  BY <1>3, <1>4, <1>5

(* Every step of a coroutine or a process uses up something of its run,    *)
(* and nothing, kills and other runs included, ever gives a run more.      *)
THEOREM RunsRunOut ==
  Spec => RunStepsCount
<1>1. TypeOK /\ [Next]_vars
        => [ \A r \in Runs :
               /\ PipelineStep(r) \/ ProcessStep(r) => LessLeft(r)
               /\ disk[r] # None => RunLeft(r)' = RunLeft(r) \/ LessLeft(r) ]_vars
  <2> SUFFICES ASSUME TypeOK, Next, NEW r \in Runs
               PROVE  /\ PipelineStep(r) \/ ProcessStep(r) => LessLeft(r)
                      /\ disk[r] # None => RunLeft(r)' = RunLeft(r) \/ LessLeft(r)
    OBVIOUS
  <2>1. PipelineStep(r) \/ ProcessStep(r) => LessLeft(r)
    BY CoroutineCounts, ProcessCounts
  <2>2. ASSUME StartRun, disk[r] # None
        PROVE  RunLeft(r)' = RunLeft(r)
    <3>1. NextRunId # r
      BY <2>2, NumberIsNew DEF StartRun, Taken
    <3>2. /\ pipeline'[r] = pipeline[r]
          /\ UNCHANGED <<process, stage, summary, unread>>
      BY <2>2, <3>1 DEF StartRun, Goto, ProcessUnchanged, TypeOK
    <3> QED
      BY <3>2, LeftAlone
  <2>3. ASSUME NEW q \in Runs, GetStatus(q)
        PROVE  RunLeft(r)' = RunLeft(r)
    BY <2>3, LeftAlone DEF GetStatus, ProcessUnchanged
  <2>4. ASSUME Restart
        PROVE  RunLeft(r)' = RunLeft(r)
    BY <2>4, LeftAlone DEF Restart, ProcessUnchanged
  <2>5. ASSUME NEW q \in Runs, PipelineStep(q) \/ ProcessStep(q)
        PROVE  RunLeft(r)' = RunLeft(r) \/ LessLeft(r)
    BY <2>1, <2>5, OthersLeft
  <2>6. Crash => RunLeft(r)' = RunLeft(r) \/ LessLeft(r)
    BY KilledLeft
  <2> QED
    BY <2>1, <2>2, <2>3, <2>4, <2>5, <2>6 DEF Next
<1>2. BridgeInv => TypeOK
  BY DEF BridgeInv
<1> QED
  BY <1>1, <1>2, BridgeAlways, PTL DEF Spec, RunStepsCount
=============================================================================
