---------------------------- MODULE AdminAccounts ----------------------------
(***************************************************************************)
(* auth-service: the accounts that sign in with a password                 *)
(* (admin_accounts_api.go, admin_seed.go).                                 *)
(*                                                                         *)
(* bcrypt takes long, and a PATCH runs it between the row it has loaded    *)
(* and the UPDATE that writes username and password_hash back, given or    *)
(* not.  A password stands for its hash; display_name goes the way of      *)
(* username without the UNIQUE.  That an account may be disabled by hand   *)
(* is in Sessions.tla.                                                     *)
(***************************************************************************)
EXTENDS Editing

CONSTANTS
    AccountIds,
    Usernames,
    Passwords,
    AccountBodies, \* the bodies admins send
    SeedUser,      \* ADMIN_USERNAME
    SeedPassword   \* ADMIN_PASSWORD

AccountRow == [username : Usernames, password : Passwords]

AccountBody ==
    [username : Usernames \cup {Absent}, password : Passwords \cup {Absent}]

ASSUME AdminAccountsAssumption ==
    /\ SeedUser \in Usernames
    /\ SeedPassword \in Passwords
    /\ Absent \notin Usernames
    /\ Absent \notin Passwords
    /\ Absent \notin AccountRow
    /\ AccountBodies \subseteq AccountBody

VARIABLES
    accounts,    \* table admin_accounts
    accountEdit  \* the PATCH handlers, with their locals

accountVars == <<accounts, accountEdit>>

AdminAccountsTypeOK ==
    /\ accounts \in [AccountIds -> AccountRow \cup {Absent}]
    /\ accountEdit \in
           [Editors -> {Idle} \cup [at : {"loaded"}, id : AccountIds,
                                    row : AccountRow, body : AccountBodies]]

AdminAccountsInit ==
    /\ accounts = [i \in AccountIds |-> Absent]
    /\ accountEdit = [e \in Editors |-> Idle]

-----------------------------------------------------------------------------
Accounts == {i \in AccountIds : accounts[i] # Absent}

UsernameFree(u, i) == \A j \in Accounts \ {i} : accounts[j].username # u

InsertAccount(u, p) ==
    \E i \in AccountIds \ Accounts :
        accounts' = [accounts EXCEPT ![i] = [username |-> u, password |-> p]]

\* seedAdminAccount.  Mutant: the account of the environment is reset to the
\* password of the environment.
SeedResetting ==
    /\ IF \E i \in Accounts : accounts[i].username = SeedUser
       THEN accounts' = [i \in AccountIds |->
                IF i \in Accounts /\ accounts[i].username = SeedUser
                THEN [accounts[i] EXCEPT !.password = SeedPassword]
                ELSE accounts[i]]
       ELSE InsertAccount(SeedUser, SeedPassword)
    /\ accountEdit' = [e \in Editors |-> Idle]

\* auth-service starts again: the account of the environment is inserted when no
\* account has its username, and left alone otherwise.
SeedAccount ==
    /\ \/ UsernameFree(SeedUser, Absent) /\ InsertAccount(SeedUser, SeedPassword)
       \/ UNCHANGED accounts  \* it is there, or ADMIN_SEED=0
    /\ accountEdit' = [e \in Editors |-> Idle]

\* handleCreate: the check and the UNIQUE of username refuse alike.
CreateAccount(u, p) ==
    /\ UsernameFree(u, Absent)
    /\ InsertAccount(u, p)
    /\ UNCHANGED accountEdit

LoadAccount(e, i, body) ==
    /\ accountEdit[e] = Idle
    /\ i \in Accounts
    /\ body.username # Absent \/ body.password # Absent
    /\ accountEdit' = [accountEdit EXCEPT ![e] =
           [at |-> "loaded", id |-> i, row |-> accounts[i], body |-> body]]
    /\ UNCHANGED accounts

\* A username that is taken, or a current_password that is not that of the row.
RefuseAccount(e) ==
    /\ accountEdit[e] # Idle
    /\ accountEdit' = [accountEdit EXCEPT ![e] = Idle]
    /\ UNCHANGED accounts

\* Mutant: username and password_hash are written as the body has them.
WriteAccountAsGiven(e) ==
    LET edit == accountEdit[e]
    IN  /\ edit # Idle
        /\ UsernameFree(edit.body.username, edit.id)
        /\ accounts' = [accounts EXCEPT ![edit.id] = edit.body]
        /\ accountEdit' = [accountEdit EXCEPT ![e] = Idle]

WriteAccount(e) ==
    LET edit == accountEdit[e]
        row  == [username |-> Given(edit.body.username, edit.row.username),
                 password |-> Given(edit.body.password, edit.row.password)]
    IN  /\ edit # Idle
        /\ UsernameFree(row.username, edit.id)
        /\ accounts' = [accounts EXCEPT ![edit.id] = row]
        /\ accountEdit' = [accountEdit EXCEPT ![e] = Idle]

AdminAccountsNext ==
    \/ SeedAccount
    \/ \E u \in Usernames, p \in Passwords : CreateAccount(u, p)
    \/ \E e \in Editors, i \in AccountIds, body \in AccountBodies :
           LoadAccount(e, i, body)
    \/ \E e \in Editors : RefuseAccount(e) \/ WriteAccount(e)

-----------------------------------------------------------------------------
(***************************************************************************)
(* Properties.                                                             *)
(***************************************************************************)
\* admin_seed.go: an existing username is left unchanged, its password is not
\* reset on restart.  And of the PATCHes, only one that names a password, or
\* that had loaded a row since given another one, changes a password.
PasswordsKept ==
    [][\A i \in Accounts :
          /\ i \in Accounts'
          /\ accounts'[i].password # accounts[i].password =>
                 \E e \in Editors :
                     /\ accountEdit[e] # Idle /\ accountEdit'[e] = Idle
                     /\ accountEdit[e].id = i
                     /\ \/ accountEdit[e].body.password # Absent
                        \/ accountEdit[e].row.password # accounts[i].password
      ]_accounts
=============================================================================
