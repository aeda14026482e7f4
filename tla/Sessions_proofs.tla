--------------------------- MODULE Sessions_proofs ---------------------------
(***************************************************************************)
(* Proofs about the sessions of auth-service, for any accounts, any life   *)
(* of a session and whatever clients send (SessionsSpec).                  *)
(***************************************************************************)
EXTENDS Sessions, SequenceTheorems, TLAPS

\* Logins are numbered with the row of the sign-in, which comes first.
LoginsInOrder == \A t \in Rows : sessions[t].login \in 1 .. t

SessionsInv == SessionsTypeOK /\ LoginsInOrder /\ OneLivePerLogin

-----------------------------------------------------------------------------
\* A row for an account is well formed, and carries the account's role.
LEMMA NewSessionType ==
    ASSUME SessionsTypeOK, NEW u \in Users, NEW at \in Nat, NEW l \in Nat
    PROVE  /\ NewSession(u, at, l) \in Session
           /\ NewSession(u, at, l).user = u
           /\ NewSession(u, at, l).role = RoleOf(u)
           /\ NewSession(u, at, l).login = l
           /\ ~NewSession(u, at, l).revoked
<1>1. RefreshTTL \in Nat
  BY SessionsAssumption
<1>2. RoleOf(u) \in Roles /\ (u \in GoogleUsers) \in BOOLEAN
  BY DEF RoleOf, Roles
<1> QED
  BY <1>1, <1>2 DEF NewSession, Session

\* A time a handler may have read is a time.
LEMMA ClockType == ASSUME NEW at \in Clock PROVE at \in Nat
  BY DEF Clock

\* A row that is revoked stays the row it was.
LEMMA RevokedRow ==
    ASSUME NEW s \in Session
    PROVE  /\ [s EXCEPT !.revoked = TRUE] \in Session
           /\ [s EXCEPT !.revoked = TRUE].login = s.login
           /\ [s EXCEPT !.revoked = TRUE].revoked
  BY DEF Session

\* The rows after a sign-in: those there were, and one more.
LEMMA SignInRows ==
    ASSUME SessionsTypeOK, NEW u \in Users, NEW at \in Nat, SignIn(u, at)
    PROVE  /\ sessions' \in Seq(Session)
           /\ Rows' = 1 .. Len(sessions) + 1
           /\ \A t \in Rows : sessions'[t] = sessions[t]
           /\ sessions'[NextRow] = NewSession(u, at, NextRow)
<1>1. sessions \in Seq(Session) /\ NextRow \in Nat
  BY DEF SessionsTypeOK, NextRow
<1>2. NewSession(u, at, NextRow) \in Session
  BY <1>1, NewSessionType
<1>3. sessions' = Append(sessions, NewSession(u, at, NextRow))
  BY DEF SignIn
<1> QED
  BY <1>1, <1>2, <1>3 DEF Rows, NextRow

\* The rows after a refresh: the old one revoked, and one more of its login.
LEMMA RefreshRows ==
    ASSUME SessionsTypeOK, LoginsInOrder,
           NEW t \in Rows, NEW at \in Nat, Refresh(t, at)
    PROVE  /\ sessions' \in Seq(Session)
           /\ Rows' = 1 .. Len(sessions) + 1
           /\ \A s \in Rows \ {t} : sessions'[s] = sessions[s]
           /\ sessions'[t].login = sessions[t].login /\ sessions'[t].revoked
           /\ sessions'[NextRow] =
                  NewSession(sessions[t].user, at, sessions[t].login)
<1> DEFINE old == [sessions EXCEPT ![t].revoked = TRUE]
           new == NewSession(sessions[t].user, at, sessions[t].login)
<1>1. sessions \in Seq(Session) /\ t \in 1 .. Len(sessions)
  BY DEF SessionsTypeOK, Rows
<1>2. /\ sessions[t] \in Session
      /\ [sessions[t] EXCEPT !.revoked = TRUE] \in Session
      /\ [sessions[t] EXCEPT !.revoked = TRUE].login = sessions[t].login
      /\ [sessions[t] EXCEPT !.revoked = TRUE].revoked
  <2>1. sessions[t] \in Session
    BY <1>1
  <2> QED
    BY <2>1, RevokedRow
<1>3. /\ old \in Seq(Session) /\ Len(old) = Len(sessions)
      /\ \A s \in 1 .. Len(sessions) : s # t => old[s] = sessions[s]
      /\ old[t] = [sessions[t] EXCEPT !.revoked = TRUE]
  <2> DEFINE row == [sessions[t] EXCEPT !.revoked = TRUE]
  <2>1. old = [sessions EXCEPT ![t] = row]
    OBVIOUS
  <2>2. row \in Session
    BY <1>2
  <2> HIDE DEF row
  <2>3. /\ [sessions EXCEPT ![t] = row] \in Seq(Session)
        /\ Len([sessions EXCEPT ![t] = row]) = Len(sessions)
        /\ \A s \in 1 .. Len(sessions) :
               [sessions EXCEPT ![t] = row][s] = IF s = t THEN row ELSE sessions[s]
    BY <1>1, <2>2, ExceptSeq
  <2> HIDE DEF old
  <2> QED
    BY <1>1, <2>1, <2>3 DEF row
<1>4. new \in Session
  BY <1>2, NewSessionType DEF Session
<1>5. sessions' = Append(old, new)
  BY DEF Refresh
<1> HIDE DEF old, new
<1>6. /\ sessions' \in Seq(Session) /\ Len(sessions') = Len(sessions) + 1
      /\ \A s \in 1 .. Len(sessions) : sessions'[s] = old[s]
      /\ sessions'[Len(sessions) + 1] = new
  BY <1>3, <1>4, <1>5
<1>7. Rows = 1 .. Len(sessions) /\ Rows' = 1 .. Len(sessions')
  BY <1>1, <1>6 DEF Rows
<1> QED
  BY <1>1, <1>2, <1>3, <1>6, <1>7 DEF NextRow, new

\* The rows after a logout: one is revoked, the rest is as it was.
LEMMA LogoutRows ==
    ASSUME SessionsTypeOK, NEW t \in Rows, Logout(t)
    PROVE  /\ sessions' \in Seq(Session)
           /\ Rows' = Rows
           /\ \A s \in Rows : sessions'[s].login = sessions[s].login
           /\ \A s \in Rows : sessions[s].revoked => sessions'[s].revoked
<1>1. sessions \in Seq(Session) /\ t \in 1 .. Len(sessions)
  BY DEF SessionsTypeOK, Rows
<1>2. /\ sessions[t] \in Session
      /\ [sessions[t] EXCEPT !.revoked = TRUE] \in Session
      /\ [sessions[t] EXCEPT !.revoked = TRUE].login = sessions[t].login
      /\ [sessions[t] EXCEPT !.revoked = TRUE].revoked
  <2>1. sessions[t] \in Session
    BY <1>1
  <2> QED
    BY <2>1, RevokedRow
<1>3. sessions' = [sessions EXCEPT ![t].revoked = TRUE]
  BY DEF Logout
<1> QED
  BY <1>1, <1>2, <1>3 DEF Rows

-----------------------------------------------------------------------------
\* A sign-in keeps the invariant: it starts a login no row has.
LEMMA SignInKeepsInv ==
    ASSUME SessionsInv, NEW u \in Users, NEW at \in Nat, SignIn(u, at)
    PROVE  SessionsInv'
<1> USE DEF SessionsInv
<1>1. sessions \in Seq(Session) /\ Rows = 1 .. Len(sessions) /\ Len(sessions) \in Nat
  BY DEF SessionsTypeOK, Rows
<1>2. /\ sessions' \in Seq(Session)
      /\ Rows' = 1 .. Len(sessions) + 1
      /\ \A t \in Rows : sessions'[t] = sessions[t]
      /\ sessions'[NextRow].login = NextRow
  BY <1>1, SignInRows, NewSessionType DEF NextRow
<1>3. SessionsTypeOK'
  BY <1>2 DEF SignIn, SessionsTypeOK, AllowListTypeOK, allowListVars
<1>4. \A t \in Rows : sessions[t].login \in 1 .. t
  BY DEF LoginsInOrder
<1>5. LoginsInOrder'
  BY <1>1, <1>2, <1>4 DEF LoginsInOrder, NextRow
<1>6. OneLivePerLogin'
  <2> SUFFICES ASSUME NEW s \in Rows', NEW t \in Rows',
                      ~sessions'[s].revoked, ~sessions'[t].revoked,
                      sessions'[s].login = sessions'[t].login
               PROVE  s = t
    BY DEF OneLivePerLogin, Live
  <2>1. CASE s \in Rows /\ t \in Rows
    BY <1>2, <2>1 DEF OneLivePerLogin, Live
  <2>2. CASE s \notin Rows \/ t \notin Rows
    BY <1>1, <1>2, <1>4, <2>2 DEF NextRow
  <2> QED
    BY <2>1, <2>2
<1> QED
  BY <1>3, <1>5, <1>6

\* A refresh keeps the invariant: the new row takes the place of the only row
\* of its login that was live.
LEMMA RefreshKeepsInv ==
    ASSUME SessionsInv, NEW t \in Rows, NEW at \in Nat, Refresh(t, at)
    PROVE  SessionsInv'
<1> USE DEF SessionsInv
<1>1. sessions \in Seq(Session) /\ Rows = 1 .. Len(sessions) /\ Len(sessions) \in Nat
  BY DEF SessionsTypeOK, Rows
<1>2. /\ sessions' \in Seq(Session)
      /\ Rows' = 1 .. Len(sessions) + 1
      /\ \A s \in Rows \ {t} : sessions'[s] = sessions[s]
      /\ sessions'[t].login = sessions[t].login /\ sessions'[t].revoked
      /\ sessions'[NextRow] = NewSession(sessions[t].user, at, sessions[t].login)
  BY RefreshRows
<1>3. sessions[t] \in Session
  BY <1>1
<1>4. sessions'[NextRow].login = sessions[t].login
  BY <1>2, <1>3, NewSessionType DEF Session
<1>5. SessionsTypeOK'
  BY <1>2 DEF Refresh, SessionsTypeOK, AllowListTypeOK, allowListVars
<1>6. \A s \in Rows : sessions[s].login \in 1 .. s
  BY DEF LoginsInOrder
<1>7. LoginsInOrder'
  <2> SUFFICES ASSUME NEW s \in Rows'
               PROVE  sessions'[s].login \in 1 .. s
    BY DEF LoginsInOrder
  <2>1. CASE s \in Rows
    BY <1>2, <1>6, <2>1
  <2>2. CASE s \notin Rows
    <3>1. s = NextRow /\ t < s
      BY <1>1, <1>2, <2>2 DEF NextRow
    <3>2. t \in Nat /\ sessions[t].login \in 1 .. t
      BY <1>1, <1>6
    <3>3. sessions'[s].login = sessions[t].login /\ s \in Nat
      BY <1>1, <1>4, <3>1 DEF NextRow
    <3> QED
      BY <3>1, <3>2, <3>3
  <2> QED
    BY <2>1, <2>2
<1>8. \A s \in Rows : ~sessions[s].revoked /\ sessions[s].login = sessions[t].login
                         => s = t
  BY DEF OneLivePerLogin, Live, Refresh, Refreshable
<1>9. OneLivePerLogin'
  <2> SUFFICES ASSUME NEW r \in Rows', NEW s \in Rows',
                      ~sessions'[r].revoked, ~sessions'[s].revoked,
                      sessions'[r].login = sessions'[s].login
               PROVE  r = s
    BY DEF OneLivePerLogin, Live
  <2>1. r # t /\ s # t
    BY <1>2
  <2>2. CASE r \in Rows /\ s \in Rows
    BY <1>2, <2>1, <2>2 DEF OneLivePerLogin, Live
  <2>3. CASE r \notin Rows \/ s \notin Rows
    BY <1>1, <1>2, <1>4, <1>8, <2>1, <2>3 DEF NextRow
  <2> QED
    BY <2>2, <2>3
<1> QED
  BY <1>5, <1>7, <1>9

\* A logout keeps the invariant: it only revokes.
LEMMA LogoutKeepsInv ==
    ASSUME SessionsInv, NEW t \in Rows, Logout(t)
    PROVE  SessionsInv'
<1> USE DEF SessionsInv
<1>1. /\ sessions' \in Seq(Session)
      /\ Rows' = Rows
      /\ \A s \in Rows : sessions'[s].login = sessions[s].login
      /\ \A s \in Rows : sessions[s].revoked => sessions'[s].revoked
  BY LogoutRows
<1>2. SessionsTypeOK'
  BY <1>1 DEF Logout, SessionsTypeOK, AllowListTypeOK, allowListVars
<1>3. LoginsInOrder'
  BY <1>1 DEF LoginsInOrder
<1>4. OneLivePerLogin'
  BY <1>1 DEF OneLivePerLogin, Live
<1> QED
  BY <1>2, <1>3, <1>4

\* The steps that leave table sessions alone keep the invariant.
LEMMA OtherStepsKeepInv ==
    ASSUME SessionsInv,
           \/ \E u \in Admins : DisableAdmin(u)
           \/ ChangeAllowList
           \/ Tick
           \/ UNCHANGED authVars
    PROVE  SessionsInv' /\ sessions' = sessions
<1> USE DEF SessionsInv
<1>1. sessions' = sessions
  BY DEF DisableAdmin, ChangeAllowList, Tick, authVars
<1>2. SessionsTypeOK'
  <2>1. CASE \E u \in Admins : DisableAdmin(u)
    BY <1>1, <2>1 DEF DisableAdmin, SessionsTypeOK, AllowListTypeOK, allowListVars
  <2>2. CASE ChangeAllowList
    BY <1>1, <2>2, AllowListAssumption
    DEF ChangeAllowList, AddPhone, CountPhones, RemovePhone, SeedPhones,
        SessionsTypeOK, AllowListTypeOK
  <2>3. CASE Tick
    BY <1>1, <2>3 DEF Tick, SessionsTypeOK, AllowListTypeOK, allowListVars
  <2>4. CASE UNCHANGED authVars
    BY <1>1, <2>4 DEF authVars, SessionsTypeOK, AllowListTypeOK, allowListVars
  <2> QED
    BY <2>1, <2>2, <2>3, <2>4
<1>3. LoginsInOrder' /\ OneLivePerLogin'
  BY <1>1 DEF LoginsInOrder, OneLivePerLogin, Live, Rows
<1> QED
  BY <1>1, <1>2, <1>3

\* The invariant holds initially.
LEMMA InitInv == SessionsInit => SessionsInv
  BY AllowListAssumption
  DEF SessionsInit, SessionsInv, SessionsTypeOK, AllowListInit, AllowListTypeOK,
      LoginsInOrder, OneLivePerLogin, Live, Rows

\* The invariant is inductive.
LEMMA StepInv == SessionsInv /\ [SessionsNext]_authVars => SessionsInv'
<1> SUFFICES ASSUME SessionsInv, [SessionsNext]_authVars
             PROVE  SessionsInv'
  OBVIOUS
<1>1. ASSUME NEW u \in Users, NEW at \in Clock, SignIn(u, at)
      PROVE  SessionsInv'
  BY <1>1, ClockType, SignInKeepsInv
<1>2. ASSUME NEW t \in DOMAIN sessions, NEW at \in Clock, Refresh(t, at)
      PROVE  SessionsInv'
  BY <1>2, ClockType, RefreshKeepsInv DEF Rows
<1>3. ASSUME NEW t \in DOMAIN sessions, Logout(t)
      PROVE  SessionsInv'
  BY <1>3, LogoutKeepsInv DEF Rows
<1> QED
  BY <1>1, <1>2, <1>3, OtherStepsKeepInv DEF SessionsNext

\* Every reachable state satisfies the invariant.
LEMMA SessionsInvariant == SessionsSpec => []SessionsInv
  BY InitInv, StepInv, PTL DEF SessionsSpec

-----------------------------------------------------------------------------
\* A refresh takes a row whose login is live, and its new row is that of an
\* account that is not disabled, with the role the account has.
LEMMA NewRows ==
    ASSUME SessionsInv, [SessionsNext]_authVars
    PROVE  /\ Rows \subseteq Rows'
           /\ \A t \in Rows : /\ sessions'[t].login = sessions[t].login
                              /\ sessions[t].revoked => sessions'[t].revoked
           /\ \A t \in Rows' \ Rows :
                  \/ sessions'[t].login = t
                  \/ /\ \E s \in Rows : Live(s) /\ sessions[s].login = sessions'[t].login
                     /\ sessions'[t].user \notin disabled
                     /\ sessions'[t].role = RoleOf(sessions'[t].user)
<1> USE DEF SessionsInv
<1>1. sessions \in Seq(Session) /\ Rows = 1 .. Len(sessions) /\ Len(sessions) \in Nat
  BY DEF SessionsTypeOK, Rows
<1>2. CASE \E u \in Users, at \in Clock : SignIn(u, at)
  <2> PICK u \in Users, at \in Clock : SignIn(u, at)
    BY <1>2
  <2>1. /\ Rows' = 1 .. Len(sessions) + 1
        /\ \A t \in Rows : sessions'[t] = sessions[t]
        /\ sessions'[NextRow].login = NextRow
    BY <1>1, ClockType, SignInRows, NewSessionType DEF NextRow
  <2> QED
    BY <1>1, <2>1 DEF NextRow
<1>3. CASE \E t \in DOMAIN sessions, at \in Clock : Refresh(t, at)
  <2> PICK t \in Rows, at \in Clock : Refresh(t, at)
    BY <1>3 DEF Rows
  <2>1. /\ Rows' = 1 .. Len(sessions) + 1
        /\ \A s \in Rows \ {t} : sessions'[s] = sessions[s]
        /\ sessions'[t].login = sessions[t].login /\ sessions'[t].revoked
        /\ sessions'[NextRow] = NewSession(sessions[t].user, at, sessions[t].login)
    BY ClockType, RefreshRows
  <2>2. sessions[t].user \in Users /\ sessions[t].login \in Nat
    <3>1. sessions[t] \in Session
      BY <1>1
    <3> QED
      BY <3>1 DEF Session
  <2>3. /\ sessions'[NextRow].user = sessions[t].user
        /\ sessions'[NextRow].role = RoleOf(sessions[t].user)
        /\ sessions'[NextRow].login = sessions[t].login
    BY <2>1, <2>2, ClockType, NewSessionType
  <2>4. Live(t) /\ sessions[t].user \notin disabled
    BY DEF Refresh, Refreshable, Live
  <2>5. \A r \in Rows' \ Rows : r = NextRow
    BY <1>1, <2>1 DEF NextRow
  <2>6. Rows \subseteq Rows'
    BY <1>1, <2>1
  <2> QED
    BY <2>1, <2>3, <2>4, <2>5, <2>6
<1>4. CASE \E t \in DOMAIN sessions : Logout(t)
  BY <1>4, LogoutRows DEF Rows
<1>5. CASE \/ \E u \in Admins : DisableAdmin(u)
           \/ ChangeAllowList
           \/ Tick
           \/ UNCHANGED authVars
  BY <1>5, OtherStepsKeepInv DEF Rows
<1> QED
  BY <1>2, <1>3, <1>4, <1>5 DEF SessionsNext

\* Once no session of a sign-in is left, no step brings one back.
LEMMA DeadLoginsStep ==
    SessionsInv /\ [SessionsNext]_authVars =>
        [\A l \in Rows :
           (\A t \in Rows : sessions[t].login = l => ~Live(t)) =>
               \A t \in DOMAIN sessions' :
                   sessions'[t].login = l => sessions'[t].revoked]_sessions
<1> SUFFICES ASSUME SessionsInv, [SessionsNext]_authVars,
                    NEW l \in Rows,
                    \A t \in Rows : sessions[t].login = l => ~Live(t),
                    NEW t \in DOMAIN sessions', sessions'[t].login = l
             PROVE  sessions'[t].revoked
  OBVIOUS
<1>1. CASE t \in Rows
  BY <1>1, NewRows DEF Live
<1>2. CASE t \notin Rows
  BY <1>2, NewRows DEF Rows
<1> QED
  BY <1>1, <1>2

\* A session made by a refresh is that of an account not disabled, with the
\* role the account has at the time.
LEMMA RotationStep ==
    SessionsInv /\ [SessionsNext]_authVars =>
        [\A t \in DOMAIN sessions' \ Rows :
           sessions'[t].login # t =>
               /\ sessions'[t].user \notin disabled
               /\ sessions'[t].role = RoleOf(sessions'[t].user)]_sessions
  BY NewRows DEF Rows

-----------------------------------------------------------------------------
\* Whatever clients send, of the sessions descending from one sign-in at most
\* one is not revoked.
THEOREM OneLiveSessionAnyClient == SessionsSpec => []OneLivePerLogin
<1>1. SessionsInv => OneLivePerLogin
  BY DEF SessionsInv
<1> QED
  BY SessionsInvariant, <1>1, PTL

\* Whatever clients send, a sign-in whose sessions are all revoked stays so.
THEOREM LogoutForGoodAnyClient == SessionsSpec => DeadLoginsStayDead
  BY DeadLoginsStep, SessionsInvariant, PTL DEF SessionsSpec, DeadLoginsStayDead
=============================================================================
