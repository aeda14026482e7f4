-------------------------- MODULE AppSession_proofs --------------------------
(***************************************************************************)
(* Proofs about an app and auth-service together: whatever the app does,   *)
(* auth-service takes steps of SessionsNext, so what is proved of those    *)
(* holds of AppSpec, for any accounts and bounds.                          *)
(***************************************************************************)
EXTENDS AppSession, Sessions_proofs

AppInv == AppTypeOK /\ SessionsInv

-----------------------------------------------------------------------------
\* The session of an older release is well formed, and the first of its login.
LEMMA AppInitInv == AppInit => AppInv
<1> SUFFICES ASSUME AppInit PROVE AppInv
  OBVIOUS
<1>1. SessionsInv /\ app \in RowOrNone /\ disk \in RowOrNone
  <2>1. CASE sessions = << >>
    BY <2>1, AllowListAssumption
    DEF AppInit, SessionsInv, SessionsTypeOK, AllowListInit, AllowListTypeOK,
        LoginsInOrder, OneLivePerLogin, Live, Rows, RowOrNone, None
  <2>2. ASSUME NEW row \in Session, row.login = 1, sessions = <<row>>
        PROVE  SessionsInv /\ app \in RowOrNone /\ disk \in RowOrNone
    <3>1. /\ sessions \in Seq(Session) /\ Len(sessions) = 1 /\ Rows = {1}
          /\ sessions[1].login = 1
      BY <2>2 DEF Rows
    <3>2. SessionsTypeOK
      BY <3>1, AllowListAssumption
      DEF AppInit, SessionsTypeOK, AllowListInit, AllowListTypeOK
    <3>3. LoginsInOrder /\ OneLivePerLogin
      BY <3>1 DEF LoginsInOrder, OneLivePerLogin
    <3> QED
      BY <3>1, <3>2, <3>3 DEF AppInit, SessionsInv, RowOrNone
  <2>3. ASSUME NEW u \in PhoneUsers
        PROVE  [user |-> u, role |-> IF u \in Seeded THEN "admin" ELSE "customer",
                persistent |-> FALSE, expires |-> RefreshTTL,
                revoked |-> FALSE, login |-> 1] \in Session
    BY SessionsAssumption DEF Session, Users, Roles
  <2> QED
    BY <2>1, <2>2, <2>3 DEF AppInit
<1>2. refreshing \subseteq Refreshes /\ leaving \in Logouts /\ entering \in SignIns
  BY DEF AppInit, Logouts, SignIns
<1>3. {failures, changes} \subseteq Nat
  BY DEF AppInit
<1>4. overlap \in BOOLEAN
  BY Zenon DEF AppInit
<1> QED
  BY <1>1, <1>2, <1>3, <1>4 DEF AppInv, AppTypeOK, SessionsInv

\* The steps of the app are steps auth-service allows any client, or none.
LEMMA AppStepsAreSessionSteps ==
    ASSUME AppInv, [AppNext]_vars
    PROVE  [SessionsNext]_authVars
<1>1. /\ now \in Nat /\ now \in Clock
      /\ \A r \in refreshing : r.token \in DOMAIN sessions
      /\ Busy(leaving) => leaving.token \in DOMAIN sessions
      /\ Busy(entering) => entering.user \in Users
  BY DEF AppInv, AppTypeOK, SessionsTypeOK, Clock, Refreshes, Logouts, SignIns,
         Idle, Busy, Rows, Users
<1>2. CASE \E r \in refreshing : AcceptRefresh(r)
  BY <1>1, <1>2 DEF AcceptRefresh, SessionsNext
<1>3. CASE ServeLogout
  BY <1>1, <1>3 DEF ServeLogout, SessionsNext, Busy
<1>4. CASE ServeSignIn
  BY <1>1, <1>4 DEF ServeSignIn, SessionsNext
<1>5. CASE ServerChange
  BY <1>5 DEF ServerChange, SessionsNext
<1>6. CASE TimePasses
  BY <1>6 DEF TimePasses, SessionsNext
<1>7. CASE \/ StartRefresh
           \/ \E r \in refreshing :
                  RejectRefresh(r) \/ RefreshReturned(r) \/ RefreshLost(r)
           \/ FreshTokenRejected
           \/ PressLogout \/ LogoutReturned \/ LogoutLost
           \/ \E u \in GoogleUsers \cup Admins : StartSignIn(u)
           \/ CheckPassword \/ SignInReturned \/ SignInLost
           \/ Flush \/ Relaunch
  BY <1>7
  DEF StartRefresh, RejectRefresh, RefreshReturned, RefreshLost,
      FreshTokenRejected, PressLogout, LogoutReturned, LogoutLost, StartSignIn,
      CheckPassword, SignInReturned, SignInLost, Flush, Relaunch
<1>8. CASE UNCHANGED vars
  BY <1>8 DEF vars
<1> QED
  BY <1>2, <1>3, <1>4, <1>5, <1>6, <1>7, <1>8 DEF AppNext

\* A type that holds of a call goes on to hold as rows are added.
LEMMA TypesGrow ==
    ASSUME Rows \subseteq Rows'
    PROVE  /\ RowOrNone \subseteq RowOrNone'
           /\ Refreshes \subseteq Refreshes'
           /\ Logouts \subseteq Logouts'
           /\ SignIns \subseteq SignIns'
<1>1. RowOrNone \subseteq RowOrNone'
  BY DEF RowOrNone
<1>2. Refreshes \subseteq Refreshes'
  BY <1>1 DEF Refreshes
<1>3. Logouts \subseteq Logouts'
  BY DEF Logouts
<1>4. SignIns \subseteq SignIns'
  BY <1>1 DEF SignIns
<1> QED
  BY <1>1, <1>2, <1>3, <1>4

\* What the app holds and the calls it has under way.
CallsTypeOK ==
    /\ app \in RowOrNone /\ disk \in RowOrNone
    /\ refreshing \subseteq Refreshes
    /\ leaving \in Logouts /\ entering \in SignIns
    /\ failures \in Nat /\ changes \in Nat /\ overlap \in BOOLEAN

\* The steps of a refresh keep the types of the calls.
LEMMA RefreshStepTypes ==
    ASSUME AppInv, CallsTypeOK, Rows \subseteq Rows',
           \/ StartRefresh
           \/ \E r \in refreshing :
                  \/ AcceptRefresh(r) \/ RejectRefresh(r)
                  \/ RefreshReturned(r) \/ RefreshLost(r)
           \/ FreshTokenRejected
    PROVE  CallsTypeOK'
<1> USE DEF CallsTypeOK
<1>1. /\ RowOrNone \subseteq RowOrNone' /\ Refreshes \subseteq Refreshes'
      /\ Logouts \subseteq Logouts' /\ SignIns \subseteq SignIns'
  BY TypesGrow
<1>2. CASE StartRefresh
  <2>1. [token |-> app, state |-> "sent", next |-> None] \in Refreshes'
    BY <1>2 DEF StartRefresh, Refreshes, RowOrNone, None
  <2>2. overlap' \in BOOLEAN
    BY <1>2, Zenon DEF StartRefresh, Overlaps
  <2> QED
    BY <1>1, <1>2, <2>1, <2>2 DEF StartRefresh
<1>3. ASSUME NEW r \in refreshing, AcceptRefresh(r)
      PROVE  CallsTypeOK'
  <2>1. r \in Refreshes' /\ r.token \in Rows
    BY <1>1, <1>3 DEF Refreshes
  <2>2. PICK at \in Clock : Refresh(r.token, at)
    BY <1>3 DEF AcceptRefresh
  <2>3. NextRow \in RowOrNone'
    <3>1. SessionsTypeOK /\ LoginsInOrder /\ sessions \in Seq(Session)
      BY DEF AppInv, SessionsInv, SessionsTypeOK
    <3>2. Rows' = 1 .. Len(sessions) + 1
      BY <2>1, <2>2, <3>1, ClockType, RefreshRows
    <3> QED
      BY <3>1, <3>2 DEF NextRow, RowOrNone
  <2>4. [r EXCEPT !.state = "ok", !.next = NextRow] \in Refreshes'
    BY <2>1, <2>3 DEF Refreshes
  <2> QED
    BY <1>1, <1>3, <2>4 DEF AcceptRefresh, boundVars
<1>4. ASSUME NEW r \in refreshing, RejectRefresh(r)
      PROVE  CallsTypeOK'
  <2>1. [r EXCEPT !.state = "invalid"] \in Refreshes
    BY DEF Refreshes
  <2> QED
    BY <1>1, <1>4, <2>1 DEF RejectRefresh, boundVars
<1>5. ASSUME NEW r \in refreshing, RefreshReturned(r)
      PROVE  CallsTypeOK'
  <2>1. r.next \in RowOrNone /\ None \in RowOrNone
    BY DEF Refreshes, RowOrNone
  <2> QED
    BY <1>1, <1>5, <2>1 DEF RefreshReturned, boundVars
<1>6. ASSUME NEW r \in refreshing, RefreshLost(r)
      PROVE  CallsTypeOK'
  BY <1>1, <1>6 DEF RefreshLost, Fail
<1>7. CASE FreshTokenRejected
  BY <1>1, <1>7 DEF FreshTokenRejected, Fail, RowOrNone
<1> QED
  BY <1>2, <1>3, <1>4, <1>5, <1>6, <1>7

\* The steps of a logout keep the types of the calls.
LEMMA LogoutStepTypes ==
    ASSUME CallsTypeOK, Rows \subseteq Rows',
           PressLogout \/ ServeLogout \/ LogoutReturned \/ LogoutLost
    PROVE  CallsTypeOK'
<1> USE DEF CallsTypeOK
<1>1. /\ RowOrNone \subseteq RowOrNone' /\ Refreshes \subseteq Refreshes'
      /\ Logouts \subseteq Logouts' /\ SignIns \subseteq SignIns'
      /\ None \in RowOrNone' /\ Idle \in Logouts'
  BY TypesGrow DEF RowOrNone, Logouts
<1>2. CASE PressLogout
  <2>1. [token |-> app, state |-> "sent"] \in Logouts'
    BY <1>2 DEF PressLogout, Logouts, RowOrNone
  <2>2. overlap' \in BOOLEAN
    BY <1>2, Zenon DEF PressLogout, Overlaps
  <2> QED
    BY <1>1, <1>2, <2>1, <2>2 DEF PressLogout
<1>3. CASE ServeLogout
  <2>1. [leaving EXCEPT !.state = "done"] \in Logouts
    BY <1>3 DEF ServeLogout, Logouts, Idle
  <2> QED
    BY <1>1, <1>3, <2>1 DEF ServeLogout, boundVars
<1>4. CASE LogoutReturned
  BY <1>1, <1>4 DEF LogoutReturned, boundVars
<1>5. CASE LogoutLost
  BY <1>1, <1>5 DEF LogoutLost, Fail
<1> QED
  BY <1>2, <1>3, <1>4, <1>5

\* The steps of a sign-in keep the types of the calls.
LEMMA SignInStepTypes ==
    ASSUME AppInv, CallsTypeOK, Rows \subseteq Rows',
           \/ \E u \in GoogleUsers \cup Admins : StartSignIn(u)
           \/ CheckPassword \/ ServeSignIn \/ SignInReturned \/ SignInLost
    PROVE  CallsTypeOK'
<1> USE DEF CallsTypeOK
<1>1. /\ RowOrNone \subseteq RowOrNone' /\ Refreshes \subseteq Refreshes'
      /\ Logouts \subseteq Logouts' /\ SignIns \subseteq SignIns'
      /\ Idle \in SignIns'
  BY TypesGrow DEF SignIns
<1>2. ASSUME NEW u \in GoogleUsers \cup Admins, StartSignIn(u)
      PROVE  CallsTypeOK'
  <2>1. [user |-> u, state |-> "sent", next |-> None] \in SignIns'
    BY DEF SignIns, RowOrNone
  <2>2. overlap' \in BOOLEAN
    BY <1>2, Zenon DEF StartSignIn, Overlaps
  <2> QED
    BY <1>1, <1>2, <2>1, <2>2 DEF StartSignIn
<1>3. CASE CheckPassword
  <2>1. \A s \in {"refused", "checked"} : [entering EXCEPT !.state = s] \in SignIns
    BY <1>3 DEF CheckPassword, SignIns, Idle
  <2> QED
    BY <1>1, <1>3, <2>1 DEF CheckPassword, boundVars
<1>4. CASE ServeSignIn
  <2>1. entering \in SignIns' /\ entering # Idle /\ entering.user \in Users
    BY <1>1, <1>4 DEF ServeSignIn, Busy, SignIns, Idle, Users
  <2>2. NextRow \in RowOrNone'
    <3>1. SessionsTypeOK /\ sessions \in Seq(Session) /\ now \in Nat
      BY DEF AppInv, SessionsInv, SessionsTypeOK
    <3>2. Rows' = 1 .. Len(sessions) + 1
      BY <1>4, <2>1, <3>1, SignInRows DEF ServeSignIn
    <3> QED
      BY <3>1, <3>2 DEF NextRow, RowOrNone
  <2>3. [entering EXCEPT !.state = "done", !.next = NextRow] \in SignIns'
    BY <2>1, <2>2 DEF SignIns
  <2> QED
    BY <1>1, <1>4, <2>3 DEF ServeSignIn, boundVars
<1>5. CASE SignInReturned
  <2>1. entering.state = "done" => entering.next \in RowOrNone
    BY DEF SignIns, Idle
  <2> QED
    BY <1>1, <1>5, <2>1 DEF SignInReturned, boundVars
<1>6. CASE SignInLost
  BY <1>1, <1>6 DEF SignInLost, Fail
<1> QED
  BY <1>2, <1>3, <1>4, <1>5, <1>6

\* The remaining steps keep the types of the calls.
LEMMA OtherStepTypes ==
    ASSUME CallsTypeOK, Rows \subseteq Rows',
           Flush \/ Relaunch \/ ServerChange \/ TimePasses \/ UNCHANGED vars
    PROVE  CallsTypeOK'
<1> USE DEF CallsTypeOK
<1>1. /\ RowOrNone \subseteq RowOrNone' /\ Refreshes \subseteq Refreshes'
      /\ Logouts \subseteq Logouts' /\ SignIns \subseteq SignIns'
      /\ Idle \in Logouts' /\ Idle \in SignIns'
  BY TypesGrow DEF Logouts, SignIns
<1>2. CASE Flush
  BY <1>1, <1>2 DEF Flush, boundVars
<1>3. CASE Relaunch
  BY <1>1, <1>3 DEF Relaunch, Fail
<1>4. CASE ServerChange
  BY <1>1, <1>4 DEF ServerChange, appVars
<1>5. CASE TimePasses
  BY <1>1, <1>5 DEF TimePasses, appVars, boundVars
<1>6. CASE UNCHANGED vars
  BY <1>1, <1>6 DEF vars, appVars, boundVars
<1> QED
  BY <1>2, <1>3, <1>4, <1>5, <1>6

\* The invariant of app and service together is inductive.
LEMMA AppStepInv == AppInv /\ [AppNext]_vars => AppInv'
<1> SUFFICES ASSUME AppInv, [AppNext]_vars
             PROVE  AppInv'
  OBVIOUS
<1>1. SessionsInv' /\ SessionsTypeOK' /\ Rows \subseteq Rows'
  BY AppStepsAreSessionSteps, StepInv, NewRows DEF AppInv, SessionsInv
<1>2. CallsTypeOK
  BY DEF AppInv, AppTypeOK, CallsTypeOK
<1>3. CallsTypeOK'
  BY <1>1, <1>2, RefreshStepTypes, LogoutStepTypes, SignInStepTypes, OtherStepTypes
  DEF AppNext
<1> QED
  BY <1>1, <1>3 DEF AppInv, AppTypeOK, CallsTypeOK

\* Every reachable state satisfies it.
LEMMA AppInvariant == AppSpec => []AppInv
  BY AppInitInv, AppStepInv, PTL DEF AppSpec

\* auth-service, seen alone, takes its own steps only.
LEMMA AppSpecRunsSessions == AppSpec => [][SessionsNext]_authVars
<1>1. AppInv /\ [AppNext]_vars => [SessionsNext]_authVars
  BY AppStepsAreSessionSteps
<1> QED
  BY <1>1, AppInvariant, PTL DEF AppSpec

-----------------------------------------------------------------------------
(***************************************************************************)
(* What the app holds as long as nothing failed and calls of different     *)
(* kinds never overlapped.                                                 *)
(***************************************************************************)
Undisturbed == failures = 0 /\ ~overlap

\* One call at a time; of a kind, too.
OneCall ==
    /\ refreshing # {} => ~Busy(leaving) /\ ~Busy(entering)
    /\ Busy(leaving) => ~Busy(entering)
    /\ \A r, s \in refreshing : r = s

\* The session in memory can still be refreshed, unless the call under way
\* has just ended it.
HeldIsLive ==
    app # None =>
        \/ Live(app)
        \/ leaving.state = "done"
        \/ \E r \in refreshing : r.state = "ok"

\* A refresh is of the session in memory, and its answer is true.
RefreshesHeld ==
    \A r \in refreshing :
        /\ app # None /\ r.token = app
        /\ r.state = "ok" => r.next \in Rows /\ Live(r.next)
        /\ r.state = "invalid" => RunOut(app)

\* So is a logout; once it is served, its sign-in is dead.
LogsOutHeld ==
    Busy(leaving) =>
        /\ app # None /\ leaving.token = app
        /\ leaving.state = "done" =>
              \A t \in Rows :
                  sessions[t].login = sessions[app].login => ~Live(t)

\* A sign-in that is served has a session to hand out.
SignInIsLive ==
    entering.state = "done" => entering.next \in Rows /\ Live(entering.next)

Held == OneCall /\ HeldIsLive /\ RefreshesHeld /\ LogsOutHeld /\ SignInIsLive

HeldInv == Undisturbed => Held

\* The steps an undisturbed app takes.
UndisturbedNext ==
    \/ StartRefresh /\ ~Busy(leaving) /\ ~Busy(entering)
    \/ \E r \in refreshing :
           AcceptRefresh(r) \/ RejectRefresh(r) \/ RefreshReturned(r)
    \/ PressLogout /\ refreshing = {} /\ ~Busy(entering)
    \/ ServeLogout \/ LogoutReturned
    \/ \E u \in GoogleUsers \cup Admins :
           StartSignIn(u) /\ refreshing = {} /\ ~Busy(leaving)
    \/ CheckPassword \/ ServeSignIn \/ SignInReturned
    \/ Flush \/ ServerChange \/ TimePasses \/ UNCHANGED vars

\* A failure or an overlap is not forgotten.
LEMMA UndisturbedSteps ==
    ASSUME AppInv, [AppNext]_vars, Undisturbed'
    PROVE  Undisturbed /\ UndisturbedNext
<1>1. failures \in Nat
  BY DEF AppInv, AppTypeOK
<1>2. ~Fail
  BY <1>1 DEF Fail, Undisturbed
<1>3. /\ ~FreshTokenRejected /\ ~LogoutLost /\ ~SignInLost /\ ~Relaunch
      /\ \A r \in refreshing : ~RefreshLost(r)
  BY <1>2 DEF FreshTokenRejected, LogoutLost, SignInLost, Relaunch, RefreshLost
<1>4. ASSUME NEW others, Overlaps(others) PROVE ~overlap /\ ~others
  BY <1>4, Zenon DEF Overlaps, Undisturbed
<1>5. CASE StartRefresh
  <2>1. ~overlap /\ ~(Busy(leaving) \/ Busy(entering)) /\ failures' = failures
    BY <1>4, <1>5, Zenon DEF StartRefresh
  <2> QED BY <1>5, <2>1 DEF Undisturbed, UndisturbedNext
<1>6. CASE PressLogout
  <2>1. ~overlap /\ ~(refreshing # {} \/ Busy(entering)) /\ failures' = failures
    BY <1>4, <1>6, Zenon DEF PressLogout
  <2> QED BY <1>6, <2>1 DEF Undisturbed, UndisturbedNext
<1>7. ASSUME NEW u \in GoogleUsers \cup Admins, StartSignIn(u)
      PROVE  Undisturbed /\ UndisturbedNext
  <2>1. ~overlap /\ ~(refreshing # {} \/ Busy(leaving)) /\ failures' = failures
    BY <1>4, <1>7, Zenon DEF StartSignIn
  <2> QED BY <1>7, <2>1 DEF Undisturbed, UndisturbedNext
<1>8. ASSUME failures' = failures, overlap' = overlap PROVE Undisturbed
  BY <1>8 DEF Undisturbed
<1>9. CASE \/ \E r \in refreshing :
                  AcceptRefresh(r) \/ RejectRefresh(r) \/ RefreshReturned(r)
           \/ ServeLogout \/ LogoutReturned
           \/ CheckPassword \/ ServeSignIn \/ SignInReturned
           \/ Flush \/ ServerChange \/ TimePasses \/ UNCHANGED vars
  <2>1. failures' = failures /\ overlap' = overlap
    BY <1>9
    DEF AcceptRefresh, RejectRefresh, RefreshReturned, ServeLogout,
        LogoutReturned, CheckPassword, ServeSignIn, SignInReturned, Flush,
        ServerChange, TimePasses, vars, boundVars
  <2> QED BY <1>8, <1>9, <2>1 DEF UndisturbedNext
<1> QED
  BY <1>3, <1>5, <1>6, <1>7, <1>9 DEF AppNext

\* At first there is no call, and the session on disk is not revoked.
LEMMA HeldInit == AppInit => HeldInv
<1> SUFFICES ASSUME AppInit PROVE Held
  BY DEF HeldInv
<1>1. refreshing = {} /\ ~Busy(leaving) /\ ~Busy(entering)
  BY DEF AppInit, Busy, Idle
<1>2. OneCall /\ RefreshesHeld /\ LogsOutHeld
  BY <1>1 DEF OneCall, RefreshesHeld, LogsOutHeld
<1>3. SignInIsLive
  BY <1>1 DEF SignInIsLive, Busy, AppInit, Idle
<1>4. HeldIsLive
  BY DEF AppInit, HeldIsLive, Live, None
<1> QED
  BY <1>2, <1>3, <1>4 DEF Held

\* The steps of a refresh: of all the calls, it is the only one.
LEMMA RefreshKeepsHeld ==
    ASSUME AppInv, Held,
           \/ StartRefresh /\ ~Busy(leaving) /\ ~Busy(entering)
           \/ \E r \in refreshing :
                  AcceptRefresh(r) \/ RejectRefresh(r) \/ RefreshReturned(r)
    PROVE  Held'
<1>1. UNCHANGED <<leaving, entering>> /\ ~Busy(leaving) /\ ~Busy(entering)
  BY DEF StartRefresh, AcceptRefresh, RejectRefresh, RefreshReturned, Held,
         OneCall
<1>2. LogsOutHeld' /\ SignInIsLive' /\ leaving.state # "done"
  BY <1>1 DEF LogsOutHeld, SignInIsLive, Busy
<1>3. CASE StartRefresh
  <2> DEFINE new == [token |-> app, state |-> "sent", next |-> None]
  <2>1. /\ refreshing = {} /\ refreshing' = {new} /\ app # None
        /\ app' = app /\ sessions' = sessions
    BY <1>3 DEF StartRefresh, authVars
  <2>2. Live(app) /\ Live(app)'
    BY <1>2, <2>1 DEF Held, HeldIsLive, Live
  <2> QED
    BY <1>1, <1>2, <2>1, <2>2 DEF Held, OneCall, HeldIsLive, RefreshesHeld
<1>4. ASSUME NEW r \in refreshing
      PROVE  /\ refreshing = {r} /\ r.token = app /\ app # None
             /\ r \in Refreshes /\ r.token \in Rows
             /\ r.state # "ok" => Live(app)
  <2>1. refreshing = {r} /\ r.token = app /\ app # None
    BY DEF Held, OneCall, RefreshesHeld
  <2>2. r \in Refreshes /\ r.token \in Rows
    BY DEF AppInv, AppTypeOK, Refreshes
  <2> QED BY <1>2, <2>1, <2>2 DEF Held, HeldIsLive
<1>5. ASSUME NEW r \in refreshing, AcceptRefresh(r) PROVE Held'
  <2> DEFINE answered == [r EXCEPT !.state = "ok", !.next = NextRow]
  <2>1. refreshing' = {answered} /\ app' = app
    BY <1>4, <1>5 DEF AcceptRefresh
  <2> PICK row : row = NextRow
    OBVIOUS
  <2>2. /\ answered.token = app /\ answered.state = "ok"
        /\ answered.next = row
    BY <1>4 DEF Refreshes
  <2>3. row \in Rows' /\ Live(row)'
    <3>1. PICK at \in Clock : Refresh(r.token, at)
      BY <1>5 DEF AcceptRefresh
    <3>2. SessionsTypeOK /\ LoginsInOrder /\ sessions \in Seq(Session)
      BY DEF AppInv, SessionsInv, SessionsTypeOK
    <3>3. /\ Rows' = 1 .. Len(sessions) + 1
          /\ sessions'[NextRow] = NewSession(sessions[r.token].user, at,
                                             sessions[r.token].login)
      BY <1>4, <3>1, <3>2, ClockType, RefreshRows
    <3>4. sessions[r.token] \in Session
      BY <1>4, <3>2 DEF Rows
    <3>5. ~sessions'[row].revoked
      <4>1. sessions[r.token].user \in Users /\ sessions[r.token].login \in Nat
        BY <3>4 DEF Session
      <4> QED BY <3>1, <3>2, <3>3, <4>1, ClockType, NewSessionType
    <3>6. row \in 1 .. Len(sessions) + 1
      BY <3>2 DEF NextRow
    <3> QED BY <3>3, <3>5, <3>6 DEF Live
  <2> HIDE DEF answered
  <2> QED
    BY <1>1, <1>2, <1>4, <2>1, <2>2, <2>3
    DEF Held, OneCall, HeldIsLive, RefreshesHeld
<1>6. ASSUME NEW r \in refreshing, RejectRefresh(r) PROVE Held'
  <2> DEFINE answered == [r EXCEPT !.state = "invalid"]
  <2>1. /\ refreshing' = {answered} /\ app' = app /\ r.state = "sent"
        /\ UNCHANGED authVars
    BY <1>4, <1>6 DEF RejectRefresh
  <2>2. answered.token = app /\ answered.state = "invalid"
    BY <1>4 DEF Refreshes
  <2>3. Live(app) /\ Live(app)'
    BY <1>4, <2>1 DEF Live, authVars
  <2>4. RunOut(app)
    <3>1. PICK at \in Clock : ~Refreshable(app, at)
      BY <1>4, <1>6 DEF RejectRefresh
    <3>2. now \in Nat /\ sessions \in Seq(Session) /\ sessions[app] \in Session
      BY <1>4 DEF AppInv, SessionsInv, SessionsTypeOK, Rows
    <3>3. at \in Nat /\ at <= now
      BY <3>2 DEF Clock
    <3>4. sessions[app].expires \in Nat
      BY <3>2 DEF Session
    <3>5. ~sessions[app].revoked
      BY <2>3 DEF Live
    <3>6. \/ sessions[app].user \in disabled
          \/ ~sessions[app].persistent /\ ~(at < sessions[app].expires)
      BY <3>1, <3>5, Zenon DEF Refreshable
    <3>7. ~(at < sessions[app].expires) => now >= sessions[app].expires
      BY <3>2, <3>3, <3>4
    <3> QED BY <3>6, <3>7, Zenon DEF RunOut
  <2>5. RunOut(app)'
    BY <2>1, <2>4 DEF RunOut, authVars
  <2> HIDE DEF answered
  <2> QED
    BY <1>1, <1>2, <1>4, <2>1, <2>2, <2>3, <2>5
    DEF Held, OneCall, HeldIsLive, RefreshesHeld
<1>7. ASSUME NEW r \in refreshing, RefreshReturned(r) PROVE Held'
  <2>1. /\ refreshing' = {} /\ sessions' = sessions
        /\ app' = IF r.state = "ok" THEN r.next ELSE None
    BY <1>4, <1>7 DEF RefreshReturned, authVars
  <2>2. app' # None => Live(app)'
    BY <2>1 DEF Held, RefreshesHeld, Live
  <2> QED
    BY <1>1, <1>2, <2>1, <2>2 DEF Held, OneCall, HeldIsLive, RefreshesHeld
<1> QED
  BY <1>3, <1>5, <1>6, <1>7

\* The steps of a logout: once it is served, nothing of its sign-in is live,
\* since the session in memory was the one that was.
LEMMA LogoutKeepsHeld ==
    ASSUME AppInv, Held,
           \/ PressLogout /\ refreshing = {} /\ ~Busy(entering)
           \/ ServeLogout \/ LogoutReturned
    PROVE  Held'
<1>1. CASE PressLogout
  <2>1. /\ leaving' = [token |-> app, state |-> "sent"] /\ app # None
        /\ ~Busy(leaving) /\ refreshing = {} /\ ~Busy(entering)
        /\ UNCHANGED <<app, sessions, refreshing, entering>>
    BY <1>1 DEF PressLogout, Held, OneCall, ServeLogout, LogoutReturned,
                authVars, Busy
  <2>2. Live(app)'
    BY <2>1 DEF Held, HeldIsLive, Live, Busy
  <2> QED
    BY <2>1, <2>2
    DEF Held, OneCall, HeldIsLive, RefreshesHeld, LogsOutHeld, SignInIsLive, Busy
<1>2. CASE ServeLogout \/ LogoutReturned
  <2>1. /\ Busy(leaving) /\ ~Busy(entering) /\ refreshing = {}
        /\ app # None /\ leaving.token = app /\ leaving \in Logouts
        /\ UNCHANGED <<refreshing, entering>>
    BY <1>2 DEF ServeLogout, LogoutReturned, Held, OneCall, LogsOutHeld, Busy,
                AppInv, AppTypeOK, authVars
  <2>2. RefreshesHeld' /\ entering'.state # "done"
    BY <2>1 DEF RefreshesHeld, Busy
  <2>3. CASE LogoutReturned
    BY <2>1, <2>2, <2>3
    DEF LogoutReturned, Held, OneCall, HeldIsLive, LogsOutHeld, SignInIsLive,
        Busy, Idle
  <2>4. CASE ServeLogout
    <3>1. /\ app \in Rows /\ Logout(app) /\ app' = app
          /\ leaving.state = "sent"
          /\ leaving' = [leaving EXCEPT !.state = "done"]
      BY <2>1, <2>4 DEF ServeLogout, AppInv, AppTypeOK, RowOrNone
    <3>2. leaving'.state = "done" /\ leaving'.token = app
      BY <2>1, <3>1 DEF Logouts, Idle
    <3>3. Live(app)
      BY <2>1, <3>1 DEF Held, HeldIsLive
    <3>4. /\ SessionsTypeOK /\ OneLivePerLogin
          /\ sessions \in Seq(Session) /\ sessions[app] \in Session
      BY <3>1 DEF AppInv, SessionsInv, SessionsTypeOK, Rows
    <3>5. /\ Rows' = Rows
          /\ \A s \in Rows : sessions'[s].login = sessions[s].login
          /\ \A s \in Rows : sessions[s].revoked => sessions'[s].revoked
      BY <3>1, <3>4, LogoutRows
    <3>6. sessions'[app].revoked
      <4>1. sessions'[app] = [sessions[app] EXCEPT !.revoked = TRUE]
        BY <3>1, <3>4 DEF Logout, Rows
      <4> QED BY <3>4, <4>1, RevokedRow
    <3>7. \A t \in Rows : sessions[t].login = sessions[app].login /\ t # app
                              => sessions[t].revoked
      BY <3>1, <3>3, <3>4 DEF OneLivePerLogin, Live
    <3>8. \A t \in Rows' : sessions'[t].login = sessions'[app].login
                              => ~Live(t)'
      BY <3>1, <3>5, <3>6, <3>7 DEF Live
    <3> QED
      BY <2>1, <2>2, <3>1, <3>2, <3>8
      DEF Held, OneCall, HeldIsLive, LogsOutHeld, SignInIsLive, Busy
  <2> QED BY <1>2, <2>3, <2>4
<1> QED
  BY <1>1, <1>2

\* The steps of a sign-in add a row, and leave the others alone.
LEMMA SignInKeepsHeld ==
    ASSUME AppInv, Held,
           \/ \E u \in GoogleUsers \cup Admins :
                  StartSignIn(u) /\ refreshing = {} /\ ~Busy(leaving)
           \/ CheckPassword \/ ServeSignIn \/ SignInReturned
    PROVE  Held'
<1>1. entering \in SignIns
  BY DEF AppInv, AppTypeOK
<1>2. refreshing = {} /\ ~Busy(leaving) /\ UNCHANGED <<refreshing, leaving>>
  BY DEF StartSignIn, CheckPassword, ServeSignIn, SignInReturned, Held, OneCall,
         Busy
<1>3. /\ OneCall' /\ RefreshesHeld' /\ LogsOutHeld'
      /\ HeldIsLive <=> (app # None => Live(app))
      /\ HeldIsLive' <=> (app' # None => Live(app)')
  BY <1>2 DEF OneCall, RefreshesHeld, LogsOutHeld, HeldIsLive, Busy
<1>4. ASSUME NEW u \in GoogleUsers \cup Admins, StartSignIn(u) PROVE Held'
  <2>1. entering'.state = "sent" /\ UNCHANGED <<app, sessions>>
    BY <1>4 DEF StartSignIn, authVars
  <2> QED BY <1>3, <2>1 DEF Held, SignInIsLive, Live
<1>5. CASE CheckPassword
  <2>1. entering'.state # "done" /\ UNCHANGED <<app, sessions>>
    BY <1>1, <1>5 DEF CheckPassword, authVars, SignIns, Idle
  <2> QED BY <1>3, <2>1 DEF Held, SignInIsLive, Live
<1>6. CASE ServeSignIn
  <2>1. /\ SignIn(entering.user, now) /\ app' = app
        /\ entering' = [entering EXCEPT !.state = "done", !.next = NextRow]
    BY <1>6 DEF ServeSignIn
  <2>2. entering.user \in Users /\ entering'.next = NextRow
    BY <1>1, <1>6, <2>1 DEF ServeSignIn, Busy, SignIns, Idle, Users
  <2>3. /\ SessionsTypeOK /\ sessions \in Seq(Session) /\ now \in Nat
        /\ NextRow \in Nat
    BY DEF AppInv, SessionsInv, SessionsTypeOK, NextRow
  <2> PICK row : row = NextRow
    OBVIOUS
  <2>4. /\ Rows' = 1 .. Len(sessions) + 1
        /\ \A t \in Rows : sessions'[t] = sessions[t]
        /\ sessions'[NextRow] = NewSession(entering.user, now, NextRow)
    BY <2>1, <2>2, <2>3, SignInRows
  <2>5. row \in Rows' /\ Live(row)'
    <3>1. ~sessions'[row].revoked
      BY <2>2, <2>3, <2>4, NewSessionType
    <3>2. row \in 1 .. Len(sessions) + 1
      BY <2>3 DEF NextRow
    <3> QED BY <2>4, <3>1, <3>2 DEF Live
  <2>6. app # None => Live(app)'
    BY <1>3, <2>1, <2>4 DEF Held, Live, AppInv, AppTypeOK, RowOrNone
  <2> QED BY <1>3, <2>1, <2>2, <2>5, <2>6 DEF Held, SignInIsLive, Live
<1>7. CASE SignInReturned
  <2>1. /\ app' = IF entering.state = "done" THEN entering.next ELSE app
        /\ entering' = Idle /\ sessions' = sessions
    BY <1>7 DEF SignInReturned, authVars
  <2>2. app' # None => Live(app)'
    BY <1>3, <2>1 DEF Held, SignInIsLive, Live
  <2> QED BY <1>3, <2>1, <2>2 DEF Held, SignInIsLive, Idle
<1> QED
  BY <1>4, <1>5, <1>6, <1>7

\* What ran out does not come back, and the rows stay as they are.
LEMMA OthersKeepHeld ==
    ASSUME AppInv, Held, Flush \/ ServerChange \/ TimePasses \/ UNCHANGED vars
    PROVE  Held'
<1>1. UNCHANGED <<app, refreshing, leaving, entering, sessions>>
  BY DEF Flush, ServerChange, TimePasses, vars, appVars, authVars,
         ChangeAllowList, DisableAdmin, Tick
<1>2. /\ disabled \subseteq disabled' /\ now \in Nat /\ now' \in {now, now + 1}
      /\ sessions \in Seq(Session)
  BY DEF Flush, ServerChange, TimePasses, vars, authVars, ChangeAllowList,
         DisableAdmin, Tick, AppInv, SessionsInv, SessionsTypeOK
<1>3. ASSUME NEW t \in Rows, RunOut(t) PROVE RunOut(t)'
  <2>1. sessions[t].expires \in Nat
    <3>1. sessions[t] \in Session BY <1>2 DEF Rows
    <3> QED BY <3>1 DEF Session
  <2>2. now >= sessions[t].expires => now' >= sessions[t].expires
    BY <1>2, <2>1
  <2> QED BY <1>1, <1>2, <1>3, <2>2, Zenon DEF RunOut
<1>4. app # None => app \in Rows
  BY DEF AppInv, AppTypeOK, RowOrNone
<1>5. RefreshesHeld'
  BY <1>1, <1>3, <1>4 DEF Held, RefreshesHeld, Live, Rows
<1> QED
  BY <1>1, <1>5
  DEF Held, OneCall, HeldIsLive, LogsOutHeld, SignInIsLive, Live, Rows, Busy

\* What is held while undisturbed is inductive.
LEMMA HeldStep == ASSUME AppInv, HeldInv, [AppNext]_vars PROVE HeldInv'
<1> SUFFICES ASSUME Undisturbed' PROVE Held'
  BY DEF HeldInv
<1>1. UndisturbedNext /\ Held
  BY UndisturbedSteps DEF HeldInv
<1> QED
  BY <1>1, RefreshKeepsHeld, LogoutKeepsHeld, SignInKeepsHeld, OthersKeepHeld
  DEF UndisturbedNext

\* Every reachable state satisfies it.
LEMMA HeldInvariant == AppSpec => []HeldInv
  BY HeldInit, HeldStep, AppInvariant, PTL DEF AppSpec

\* Why an undisturbed app signs out: a logout that was served, or a refresh
\* refused for good reason.
LEMMA SignedOut ==
    ASSUME AppInv, HeldInv, [AppNext]_vars, Smooth, app # None, app' = None
    PROVE  /\ leaving.state = "done" \/ RunOut(app)
           /\ \A t \in Rows : sessions[t].login = sessions[app].login =>
                  ~Live(t) \/ RunOut(t)
<1>1. UndisturbedNext /\ Held
  BY UndisturbedSteps DEF HeldInv, Smooth, Undisturbed
<1>2. CASE LogoutReturned
  BY <1>1, <1>2 DEF LogoutReturned, Held, LogsOutHeld, Busy
<1>3. ASSUME NEW r \in refreshing, RefreshReturned(r)
      PROVE  /\ RunOut(app)
             /\ \A t \in Rows : sessions[t].login = sessions[app].login =>
                    ~Live(t) \/ RunOut(t)
  <2>1. r.state = "invalid"
    <3>1. r.state = "ok" => r.next \in Rows /\ app' = r.next
      BY <1>1, <1>3 DEF RefreshReturned, Held, RefreshesHeld
    <3>2. None \notin Rows
      BY DEF AppInv, SessionsInv, SessionsTypeOK, Rows, None
    <3> QED BY <1>3, <3>1, <3>2 DEF RefreshReturned
  <2>2. RunOut(app) /\ refreshing = {r} /\ ~Busy(leaving)
    BY <1>1, <2>1 DEF Held, RefreshesHeld, OneCall
  <2>3. Live(app)
    BY <1>1, <2>1, <2>2 DEF Held, HeldIsLive, Busy
  <2>4. app \in Rows /\ OneLivePerLogin
    BY DEF AppInv, AppTypeOK, SessionsInv, RowOrNone
  <2> QED BY <2>2, <2>3, <2>4 DEF OneLivePerLogin
<1>4. CASE SignInReturned
  <2>1. entering.state = "done" => entering.next \in Rows
    BY <1>1 DEF Held, SignInIsLive
  <2>2. None \notin Rows
    BY DEF AppInv, SessionsInv, SessionsTypeOK, Rows, None
  <2> QED BY <1>4, <2>1, <2>2 DEF SignInReturned
<1> QED
  BY <1>1, <1>2, <1>3, <1>4
  DEF UndisturbedNext, StartRefresh, AcceptRefresh, RejectRefresh, PressLogout,
      ServeLogout, StartSignIn, CheckPassword, ServeSignIn, Flush, ServerChange,
      TimePasses, vars, appVars

-----------------------------------------------------------------------------
\* The variables of app and service keep their types: every token the app holds
\* or has sent is that of a row.
THEOREM AppTypeCorrect == AppSpec => []AppTypeOK
<1>1. AppInv => AppTypeOK
  BY DEF AppInv
<1> QED
  BY AppInvariant, <1>1, PTL

\* However the app's refreshes, logouts and sign-ins overlap, get lost or are
\* cut off, a sign-in has at most one session that is not revoked.
THEOREM OneLiveSession == AppSpec => []OneLivePerLogin
<1>1. AppInv => OneLivePerLogin
  BY DEF AppInv, SessionsInv
<1> QED
  BY AppInvariant, <1>1, PTL

\* Once no session of a sign-in is left, nothing the app has under way brings
\* one back.
THEOREM LogoutForGood == AppSpec => DeadLoginsStayDead
<1>1. AppInv => SessionsInv
  BY DEF AppInv
<1> QED
  BY <1>1, DeadLoginsStep, AppInvariant, AppSpecRunsSessions, PTL
  DEF DeadLoginsStayDead

\* A session made by a refresh is that of an account not disabled, with the
\* role the account has at the time.
THEOREM RotationReadsAccount == AppSpec => RotationRereadsAccount
<1>1. AppInv => SessionsInv
  BY DEF AppInv
<1> QED
  BY <1>1, RotationStep, AppInvariant, AppSpecRunsSessions, PTL
  DEF RotationRereadsAccount
\* As long as nothing is lost and one kind of call is under way at a time, only
\* the user, or the end of the session or its account, signs the app out
\* (auth_session.dart: callers share a refresh, so no token is sent twice).
THEOREM SignedInStays == AppSpec => StaySignedIn
<1>1. AppInv /\ HeldInv /\ [AppNext]_vars =>
          [(Smooth /\ app # None /\ app' = None) =>
              leaving.state = "done" \/ RunOut(app)]_app
  BY SignedOut
<1> QED
  BY <1>1, AppInvariant, HeldInvariant, PTL DEF AppSpec, StaySignedIn

\* When such an app signs out, no session its sign-in led to can be refreshed
\* any more: logout() sends the token in memory, which is the only live one.
THEOREM SignOutIsServed == AppSpec => SignOutRevokes
<1>1. AppInv /\ HeldInv /\ [AppNext]_vars =>
          [(Smooth /\ app # None /\ app' = None) =>
              \A t \in Rows : sessions[t].login = sessions[app].login =>
                  ~Live(t) \/ RunOut(t)]_app
  BY SignedOut
<1> QED
  BY <1>1, AppInvariant, HeldInvariant, PTL DEF AppSpec, SignOutRevokes
\* LogoutIsFinal is violated by a refresh that overlaps a logout, and by nothing
\* else: with no overlap and nothing lost, a signed-out app gets a session from
\* a sign-in only (auth_session.dart: _refresh sets what its answer says).
THEOREM LogoutFinalWithoutOverlap ==
    AppSpec => [][(Smooth /\ app = None /\ app' # None) =>
                     entering.state = "done"]_app
<1>1. ASSUME AppInv, HeldInv, [AppNext]_vars, Smooth, app = None, app' # None
      PROVE  entering.state = "done"
  <2>1. UndisturbedNext /\ Held
    BY <1>1, UndisturbedSteps DEF HeldInv, Smooth, Undisturbed
  <2>2. ASSUME NEW r \in refreshing, RefreshReturned(r) PROVE FALSE
    BY <1>1, <2>1 DEF Held, RefreshesHeld
  <2>3. CASE SignInReturned
    BY <1>1, <2>3 DEF SignInReturned
  <2> QED
    BY <1>1, <2>1, <2>2, <2>3
    DEF UndisturbedNext, StartRefresh, AcceptRefresh, RejectRefresh,
        PressLogout, ServeLogout, LogoutReturned, StartSignIn, CheckPassword,
        ServeSignIn, Flush, ServerChange, TimePasses, vars, appVars
<1>2. AppInv /\ HeldInv /\ [AppNext]_vars =>
          [(Smooth /\ app = None /\ app' # None) =>
              entering.state = "done"]_app
  BY <1>1
<1> QED
  BY <1>2, AppInvariant, HeldInvariant, PTL DEF AppSpec
=============================================================================
