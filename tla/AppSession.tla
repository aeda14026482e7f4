------------------------------ MODULE AppSession ------------------------------
(***************************************************************************)
(* The session an installed app holds (apps/mobile, AuthSessionNotifier),  *)
(* against auth-service.                                                   *)
(*                                                                         *)
(* Every request of the app may find its access token refused and ask for  *)
(* a refresh, so refreshes come at any time: access tokens are left out.   *)
(* The callers of refresh() share the call under way.  The user signs in   *)
(* and out meanwhile; the app's state is whatever the last answer sets.    *)
(*                                                                         *)
(* A call the app no longer waits for (a timeout, a closed app) may still  *)
(* be served: since the app sends nothing in between that depends on it,   *)
(* it is a call served before it was given up, or one never served.        *)
(***************************************************************************)
EXTENDS Sessions

CONSTANTS
    MaxSessions,  \* bound: rows in table sessions
    MaxTime,      \* bound: ticks of the clock
    MaxIncidents  \* bound: failures, changes on the server, calls overlapping

ASSUME AppAssumption == {MaxSessions, MaxTime, MaxIncidents} \subseteq Nat

VARIABLES
    app,         \* state: the row whose tokens are in memory, 0 when signed out
    disk,        \* the row in SharedPreferences, 0 when there is none
    refreshing,  \* the refresh calls under way; _refreshing keeps one
    leaving,     \* the logout call under way
    entering,    \* the sign-in call under way
    failures,    \* lost calls, closed apps, fresh tokens refused
    changes,     \* changes of the allow-list and disabled accounts
    overlap      \* whether calls of different kinds ever overlapped

appVars == <<app, disk, refreshing, leaving, entering>>
boundVars == <<failures, changes, overlap>>
vars == <<authVars, appVars, boundVars>>

\* No call, and no session.
None == 0
Idle == [state |-> "idle"]

RowOrNone == {None} \cup Rows

Refreshes ==
    [token : Rows, state : {"sent", "ok", "invalid"}, next : RowOrNone]
Logouts == {Idle} \cup [token : Rows, state : {"sent", "done"}]
SignIns == {Idle} \cup
    [user : GoogleUsers \cup Admins,
     state : {"sent", "checked", "done", "refused"}, next : RowOrNone]

AppTypeOK ==
    /\ SessionsTypeOK
    /\ {app, disk} \subseteq RowOrNone
    /\ refreshing \subseteq Refreshes
    /\ leaving \in Logouts
    /\ entering \in SignIns
    /\ {failures, changes} \subseteq Nat
    /\ overlap \in BOOLEAN

\* The app starts without a session, or with one an older release, which signed
\* in with an OTP, left on disk: bootstrap takes it over.
AppInit ==
    /\ AllowListInit
    /\ disabled = {} /\ now = 0
    /\ \/ sessions = << >>
       \/ \E u \in PhoneUsers :
              sessions = <<[user |-> u,
                            role |-> IF u \in Seeded THEN "admin" ELSE "customer",
                            persistent |-> FALSE, expires |-> RefreshTTL,
                            revoked |-> FALSE, login |-> 1]>>
    /\ app = Len(sessions) /\ disk = app
    /\ refreshing = {} /\ leaving = Idle /\ entering = Idle
    /\ failures = 0 /\ changes = 0 /\ overlap = FALSE

-----------------------------------------------------------------------------
Busy(call) == call.state # "idle"

Incidents == failures + changes + IF overlap THEN 1 ELSE 0

\* A call of one kind starts, maybe while one of another kind is under way.
Overlaps(others) ==
    /\ others /\ ~overlap => Incidents < MaxIncidents
    /\ overlap' = (overlap \/ others)

Fail == Incidents < MaxIncidents /\ failures' = failures + 1

\* refresh() and _refresh.

\* Mutant: every caller sends a refresh of its own.
StartRefreshUnshared ==
    /\ app # None
    /\ refreshing' = refreshing \cup
           {[token |-> app, state |-> "sent", next |-> None]}
    /\ Overlaps(Busy(leaving) \/ Busy(entering))
    /\ UNCHANGED <<authVars, app, disk, leaving, entering, failures, changes>>

StartRefresh ==
    /\ app # None
    /\ refreshing = {}
    /\ refreshing' = {[token |-> app, state |-> "sent", next |-> None]}
    /\ Overlaps(Busy(leaving) \/ Busy(entering))
    /\ UNCHANGED <<authVars, app, disk, leaving, entering, failures, changes>>

\* handleRefresh.
AcceptRefresh(r) ==
    /\ r.state = "sent"
    /\ Len(sessions) < MaxSessions
    /\ \E at \in Clock : Refresh(r.token, at)
    /\ refreshing' = (refreshing \ {r}) \cup
           {[r EXCEPT !.state = "ok", !.next = NextRow]}
    /\ UNCHANGED <<app, disk, leaving, entering, boundVars>>

RejectRefresh(r) ==
    /\ r.state = "sent"
    /\ \E at \in Clock : ~Refreshable(r.token, at)
    /\ refreshing' = (refreshing \ {r}) \cup {[r EXCEPT !.state = "invalid"]}
    /\ UNCHANGED <<authVars, app, disk, leaving, entering, boundVars>>

\* Whatever the app holds by now, the answer sets its session or clears it.
RefreshReturned(r) ==
    /\ r.state \in {"ok", "invalid"}
    /\ app' = IF r.state = "ok" THEN r.next ELSE None
    /\ refreshing' = refreshing \ {r}
    /\ UNCHANGED <<authVars, disk, leaving, entering, boundVars>>

\* A timeout, a lost answer, a 5xx: the app keeps its tokens.
RefreshLost(r) ==
    /\ Fail
    /\ refreshing' = refreshing \ {r}
    /\ UNCHANGED <<authVars, app, disk, leaving, entering, changes, overlap>>

\* A retried request is refused with the refreshed token: the app drops it.
FreshTokenRejected ==
    /\ app # None
    /\ Fail
    /\ app' = None
    /\ UNCHANGED <<authVars, disk, refreshing, leaving, entering, changes, overlap>>

-----------------------------------------------------------------------------
\* logout().

\* Mutant: the session is dropped without telling the server.
LogoutLocally ==
    /\ app # None /\ ~Busy(leaving)
    /\ leaving' = [token |-> app, state |-> "done"]
    /\ Overlaps(refreshing # {} \/ Busy(entering))
    /\ UNCHANGED <<authVars, app, disk, refreshing, entering, failures, changes>>

\* Mutant: the button is there without a session.
PressLogoutSignedOut ==
    /\ ~Busy(leaving)
    /\ leaving' = [token |-> app, state |-> "sent"]
    /\ Overlaps(refreshing # {} \/ Busy(entering))
    /\ UNCHANGED <<authVars, app, disk, refreshing, entering, failures, changes>>

PressLogout ==
    /\ app # None /\ ~Busy(leaving)
    /\ leaving' = [token |-> app, state |-> "sent"]
    /\ Overlaps(refreshing # {} \/ Busy(entering))
    /\ UNCHANGED <<authVars, app, disk, refreshing, entering, failures, changes>>

ServeLogout ==
    /\ leaving.state = "sent"
    /\ Logout(leaving.token)
    /\ leaving' = [leaving EXCEPT !.state = "done"]
    /\ UNCHANGED <<app, disk, refreshing, entering, boundVars>>

\* Answered or not, the app drops its session.
LogoutReturned ==
    /\ leaving.state = "done"
    /\ app' = None
    /\ leaving' = Idle
    /\ UNCHANGED <<authVars, disk, refreshing, entering, boundVars>>

LogoutLost ==
    /\ Busy(leaving)
    /\ Fail
    /\ app' = None
    /\ leaving' = Idle
    /\ UNCHANGED <<authVars, disk, refreshing, entering, changes, overlap>>

-----------------------------------------------------------------------------
\* Sign-in: with Google when the app is signed out, as an admin unless it is
\* signed in as one already (router.dart).
StartSignIn(u) ==
    /\ ~Busy(entering)
    /\ IF u \in GoogleUsers THEN app = None
       ELSE app # None => sessions[app].role # "admin"
    /\ entering' = [user |-> u, state |-> "sent", next |-> None]
    /\ Overlaps(refreshing # {} \/ Busy(leaving))
    /\ UNCHANGED <<authVars, app, disk, refreshing, leaving, failures, changes>>

\* handleAdminLogin reads the account and checks the password, and only then
\* begins the transaction that inserts the session, which ignores disabled_at.
CheckPassword ==
    /\ entering.state = "sent" /\ entering.user \in Admins
    /\ entering' = [entering EXCEPT !.state =
                        IF entering.user \in disabled THEN "refused" ELSE "checked"]
    /\ UNCHANGED <<authVars, app, disk, refreshing, leaving, boundVars>>

\* The session of a sign-in is dated to its insert.
ServeSignIn ==
    /\ Busy(entering)
    /\ entering.state = IF entering.user \in Admins THEN "checked" ELSE "sent"
    /\ Len(sessions) < MaxSessions
    /\ SignIn(entering.user, now)
    /\ entering' = [entering EXCEPT !.state = "done", !.next = NextRow]
    /\ UNCHANGED <<app, disk, refreshing, leaving, boundVars>>

SignInReturned ==
    /\ entering.state \in {"done", "refused"}
    /\ app' = IF entering.state = "done" THEN entering.next ELSE app
    /\ entering' = Idle
    /\ UNCHANGED <<authVars, disk, refreshing, leaving, boundVars>>

\* The answer is lost, or the page is left before it is there.
SignInLost ==
    /\ Busy(entering)
    /\ Fail
    /\ entering' = Idle
    /\ UNCHANGED <<authVars, app, disk, refreshing, leaving, changes, overlap>>

-----------------------------------------------------------------------------
\* SharedPreferences catches up with what the app saved or cleared.
Flush ==
    /\ disk # app
    /\ disk' = app
    /\ UNCHANGED <<authVars, app, refreshing, leaving, entering, boundVars>>

\* The app is closed and starts again with what is on disk: bootstrap.
Relaunch ==
    /\ Fail
    /\ app' = disk
    /\ refreshing' = {} /\ leaving' = Idle /\ entering' = Idle
    /\ UNCHANGED <<authVars, disk, changes, overlap>>

\* Changes made on the server meanwhile; a call cut off by a restart of the
\* service is one that is lost.
ServerChange ==
    /\ Incidents < MaxIncidents /\ changes' = changes + 1
    /\ ChangeAllowList \/ \E u \in Admins : DisableAdmin(u)
    /\ UNCHANGED <<appVars, failures, overlap>>

TimePasses ==
    /\ now < MaxTime
    /\ Tick
    /\ UNCHANGED <<appVars, boundVars>>

AppNext ==
    \/ StartRefresh
    \/ \E r \in refreshing :
           AcceptRefresh(r) \/ RejectRefresh(r) \/ RefreshReturned(r) \/ RefreshLost(r)
    \/ FreshTokenRejected
    \/ PressLogout \/ ServeLogout \/ LogoutReturned \/ LogoutLost
    \/ \E u \in GoogleUsers \cup Admins : StartSignIn(u)
    \/ CheckPassword \/ ServeSignIn \/ SignInReturned \/ SignInLost
    \/ Flush \/ Relaunch
    \/ ServerChange \/ TimePasses

AppSpec == AppInit /\ [][AppNext]_vars

-----------------------------------------------------------------------------
(***************************************************************************)
(* Properties.                                                             *)
(***************************************************************************)
\* Nothing failed so far, and calls of different kinds never overlapped.
Smooth == failures' = 0 /\ ~overlap'

\* The account of a session is disabled, or its time is up.
RunOut(t) ==
    \/ sessions[t].user \in disabled
    \/ ~sessions[t].persistent /\ now >= sessions[t].expires

\* auth_session.dart:130: concurrent callers share a refresh, so that a rotating
\* token is never used twice.  Used twice, the second answer would sign the
\* user out: as long as nothing is lost and no other call is under way, only
\* the user, the end of the session or its account signs the app out.
StaySignedIn ==
    [][(Smooth /\ app # None /\ app' = None) =>
          leaving.state = "done" \/ RunOut(app)]_app

\* When an app signs out, nothing that could be refreshed descends from its
\* sign-in: neither its own token, nor one its refreshes left behind.
SignOutRevokes ==
    [][(Smooth /\ app # None /\ app' = None) =>
          \A t \in Rows : sessions[t].login = sessions[app].login =>
              ~Live(t) \/ RunOut(t)]_app

\* The comment of logout (auth_session.dart:205) has it "always remove local
\* state": signed out, and with nothing lost, only a sign-in gives the app a
\* session.
LogoutIsFinal ==
    [][(app = None /\ app' # None /\ failures' = 0) =>
          entering.state = "done"]_app
=============================================================================
