------------------------------- MODULE Sessions -------------------------------
(***************************************************************************)
(* auth-service: sessions and their refresh tokens (refresh.go,            *)
(* google_login.go, admin_login.go, otp_verify.go).                        *)
(*                                                                         *)
(* A sign-in inserts a row in table sessions.  A refresh revokes the row   *)
(* of its token and inserts the next one, with the privileges the account  *)
(* has by then.  A refresh token is only known by its hash and belongs to  *)
(* one row, so it is identified with the number of the row.                *)
(*                                                                         *)
(* Every transaction is one step (one connection).                         *)
(***************************************************************************)
EXTENDS AllowList, Integers, Sequences

CONSTANTS
    GoogleUsers,  \* customers, who sign in with Google
    Admins,       \* accounts of table admin_accounts
    RefreshTTL    \* life of a session that is not persistent

ASSUME SessionsAssumption ==
    /\ GoogleUsers \cap PhoneUsers = {}
    /\ Admins \cap (GoogleUsers \cup PhoneUsers) = {}
    /\ RefreshTTL \in Nat

VARIABLES
    sessions,  \* table sessions, in order of insertion
    disabled,  \* admin_accounts with a disabled_at
    now        \* the clock

authVars == <<sessions, disabled, now, allowListVars>>

Users == GoogleUsers \cup PhoneUsers \cup Admins
Roles == {"customer", "admin"}

\* login, the row the session descends from, is not a column: the rotations of a
\* session leave no trace in the table but the log.
Session ==
    [user : Users, role : Roles, persistent : BOOLEAN, expires : Nat,
     revoked : BOOLEAN, login : Nat]

SessionsTypeOK ==
    /\ sessions \in Seq(Session)
    /\ AllowListTypeOK
    /\ disabled \subseteq Admins
    /\ now \in Nat

SessionsInit ==
    /\ sessions = << >>
    /\ AllowListInit
    /\ disabled = {}
    /\ now = 0

-----------------------------------------------------------------------------
NextRow == Len(sessions) + 1

\* The time a handler has read: its wait for the connection may cross a tick.
Clock == {now - 1, now} \cap Nat

\* The role an account has now: roleForPhone, or the table it is found in.
RoleOf(u) == IF u \in Admins \cup adminPhones THEN "admin" ELSE "customer"

\* insertSession
NewSession(u, at, login) ==
    [user |-> u, role |-> RoleOf(u), persistent |-> u \in GoogleUsers,
     expires |-> at + RefreshTTL, revoked |-> FALSE, login |-> login]

\* The transaction that ends a sign-in.
SignIn(u, at) ==
    /\ sessions' = Append(sessions, NewSession(u, at, NextRow))
    /\ UNCHANGED <<disabled, now, allowListVars>>

\* A session still good for a refresh at a time: not revoked, not expired
\* unless it is persistent, and its account not disabled.
Refreshable(t, at) ==
    /\ ~sessions[t].revoked
    /\ sessions[t].persistent \/ at < sessions[t].expires
    /\ sessions[t].user \notin disabled

\* Mutant: revoked_at is not looked at.
RefreshRevoked(t, at) ==
    /\ sessions[t].persistent \/ at < sessions[t].expires
    /\ sessions[t].user \notin disabled
    /\ sessions' = Append([sessions EXCEPT ![t].revoked = TRUE],
                          NewSession(sessions[t].user, at, sessions[t].login))
    /\ UNCHANGED <<disabled, now, allowListVars>>

\* Mutant: the old session is left alone.
RefreshWithoutRevoking(t, at) ==
    /\ Refreshable(t, at)
    /\ sessions' = Append(sessions,
                          NewSession(sessions[t].user, at, sessions[t].login))
    /\ UNCHANGED <<disabled, now, allowListVars>>

\* Mutant: the role is copied from the old session.
RefreshKeepingRole(t, at) ==
    /\ Refreshable(t, at)
    /\ sessions' = Append([sessions EXCEPT ![t].revoked = TRUE],
           [NewSession(sessions[t].user, at, sessions[t].login)
               EXCEPT !.role = sessions[t].role])
    /\ UNCHANGED <<disabled, now, allowListVars>>

\* handleRefresh: one transaction, which fails as a whole when the account is
\* gone.
Refresh(t, at) ==
    /\ Refreshable(t, at)
    /\ sessions' = Append([sessions EXCEPT ![t].revoked = TRUE],
                          NewSession(sessions[t].user, at, sessions[t].login))
    /\ UNCHANGED <<disabled, now, allowListVars>>

\* handleLogout; a token that was rotated or revoked before changes nothing.
Logout(t) ==
    /\ sessions' = [sessions EXCEPT ![t].revoked = TRUE]
    /\ UNCHANGED <<disabled, now, allowListVars>>

-----------------------------------------------------------------------------
\* The allow-list, and a restart of auth-service.
ChangeAllowList ==
    /\ \/ \E u \in PhoneUsers : AddPhone(u) \/ CountPhones(u) \/ RemovePhone(u)
       \/ SeedPhones
    /\ UNCHANGED <<sessions, disabled, now>>

\* No handler writes disabled_at: an account is disabled in the database by
\* hand.
DisableAdmin(u) ==
    /\ u \notin disabled
    /\ disabled' = disabled \cup {u}
    /\ UNCHANGED <<sessions, now, allowListVars>>

Tick ==
    /\ now' = now + 1
    /\ UNCHANGED <<sessions, disabled, allowListVars>>

-----------------------------------------------------------------------------
\* Whatever clients send, repeat or delay.  A sign-in checks the account before
\* its transaction, so its session may be that of an account disabled since.
SessionsNext ==
    \/ \E u \in Users, at \in Clock : SignIn(u, at)
    \/ \E t \in DOMAIN sessions, at \in Clock : Refresh(t, at)
    \/ \E t \in DOMAIN sessions : Logout(t)
    \/ \E u \in Admins : DisableAdmin(u)
    \/ ChangeAllowList
    \/ Tick

SessionsSpec == SessionsInit /\ [][SessionsNext]_authVars

-----------------------------------------------------------------------------
(***************************************************************************)
(* Properties.                                                             *)
(***************************************************************************)
Rows == DOMAIN sessions

Live(t) == ~sessions[t].revoked

\* However often its token is sent, a sign-in never multiplies: of all the
\* sessions descending from one sign-in at most one is not revoked.
OneLivePerLogin ==
    \A s, t \in Rows :
        Live(s) /\ Live(t) /\ sessions[s].login = sessions[t].login => s = t

\* A logout is for good: once no session of a sign-in is left, no refresh that
\* was under way, repeated or delayed brings one back.
DeadLoginsStayDead ==
    [][\A l \in Rows :
          (\A t \in Rows : sessions[t].login = l => ~Live(t)) =>
              \A t \in DOMAIN sessions' :
                  sessions'[t].login = l => sessions'[t].revoked
      ]_sessions

\* refresh.go:222: the allow-list grants or revokes admin on the next rotation
\* and not on the next login; a disabled account gets no further session.
RotationRereadsAccount ==
    [][\A t \in DOMAIN sessions' \ Rows :
          sessions'[t].login # t =>
              /\ sessions'[t].user \notin disabled
              /\ sessions'[t].role = RoleOf(sessions'[t].user)
      ]_sessions
=============================================================================
