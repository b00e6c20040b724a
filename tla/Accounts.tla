------------------------------- MODULE Accounts -------------------------------
(***************************************************************************)
(* The user accounts of the controller: saving, recovering and deleting    *)
(* them in any order, with saves that fail and restarts in between. Each   *)
(* operation checks and changes the accounts under the store's lock and    *)
(* saves; a failed save restores what was saved last.                      *)
(*                                                                         *)
(* Source: internal/server/users.go.                                       *)
(*                                                                         *)
(* Operators and viewers are one role. A password is a model value, and an *)
(* account is its identifier, which is never used again.                   *)
(***************************************************************************)
EXTENDS Absent, Integers, FiniteSets

CONSTANTS
  User,          \* identifiers of accounts
  Login,         \* user names, up to case
  Password,
  MaxLosses      \* bound on failing saves and crashes

Account == [name : Login, admin : BOOLEAN, disabled : BOOLEAN, password : Password]

Accounts == [User -> Account \cup {None}]

\* Finitely many accounts; None is no account and no password.
ASSUME AccountsAssumption ==
  IsFiniteSet(User) /\ None \notin Account /\ None \notin Password /\ MaxLosses \in Nat

VARIABLES
  users, savedUsers,   \* in memory and in the state file
  created,             \* the identifiers used so far
  answered,            \* history: per account the password its last change was answered for
  governed,            \* history: there has been an administrator who could log in
  losses

accountVars == << users, savedUsers, created, answered, governed, losses >>

-----------------------------------------------------------------------------

Existing(us) == {u \in User : us[u] # None}
Governs(a) == a # None /\ a.admin /\ ~a.disabled

\* Faulty variant: disabled administrators count.
EveryAdmin(us) == {u \in Existing(us) : us[u].admin}

\* enabledAdminCountLocked
EnabledAdmins(us) == {u \in Existing(us) : Governs(us[u])}

LastAdmin(u) == Governs(users[u]) /\ Cardinality(EnabledAdmins(users)) <= 1

SaveAccounts(us) ==
  \/ users' = us /\ savedUsers' = us /\ UNCHANGED losses
  \/ /\ losses < MaxLosses /\ losses' = losses + 1
     /\ users' = savedUsers /\ UNCHANGED savedUsers

Answered == UNCHANGED losses

Note(u, password) ==
  /\ answered' = IF Answered THEN [answered EXCEPT ![u] = password] ELSE answered
  /\ governed' = (governed \/ \E v \in User : Governs(users'[v]))

\* SaveUser: a new account needs a password, a present one keeps its own if none
\* is given; neither takes a name in use, nor the last administrator's powers.
SaveUser(u, n, admin, disabled, password) ==
  LET present == u \in Existing(users)
      kept    == IF password = None THEN users[u].password ELSE password
  IN /\ \A v \in Existing(users) \ {u} : users[v].name # n
     /\ IF present THEN LastAdmin(u) => admin /\ ~disabled
                   ELSE u \notin created /\ password # None
     /\ SaveAccounts([users EXCEPT ![u] = [name |-> n, admin |-> admin,
                                           disabled |-> disabled, password |-> kept]])
     /\ created' = created \cup {u}
     /\ Note(u, kept)

\* ResetUserPassword, with the recovery code: disabled accounts stay disabled.
ResetUserPassword(u, password) ==
  /\ u \in Existing(users)
  /\ SaveAccounts([users EXCEPT ![u].password = password])
  /\ UNCHANGED created
  /\ Note(u, password)

DeleteUser(u) ==
  /\ u \in Existing(users)
  /\ ~LastAdmin(u)
  /\ SaveAccounts([users EXCEPT ![u] = None])
  /\ UNCHANGED created
  /\ Note(u, None)

\* Another operation's failed save, or a restart: what was saved last.
RestoreAccounts ==
  /\ users' = savedUsers
  /\ losses < MaxLosses /\ losses' = losses + 1
  /\ UNCHANGED << savedUsers, created, answered, governed >>

\* There are no accounts before the bootstrap token has made one.
AccountsInit ==
  /\ users = [u \in User |-> None] /\ savedUsers = users
  /\ created = {} /\ answered = [u \in User |-> None]
  /\ governed = FALSE /\ losses = 0

AccountsNext ==
  \/ \E u \in User, n \in Login, admin, disabled \in BOOLEAN,
        password \in Password \cup {None} : SaveUser(u, n, admin, disabled, password)
  \/ \E u \in User : DeleteUser(u) \/ \E password \in Password : ResetUserPassword(u, password)
  \/ RestoreAccounts

AccountsSpec == AccountsInit /\ [][AccountsNext]_accountVars

-----------------------------------------------------------------------------

AccountsTypeOK ==
  /\ users \in Accounts /\ savedUsers \in Accounts
  /\ created \subseteq User /\ answered \in [User -> Password \cup {None}]
  /\ governed \in BOOLEAN /\ losses \in 0 .. MaxLosses

\* Whatever administrators do to each other's accounts, in any order and with saves
\* that fail (users.go:71, :159): once one of them can log in, one always can, also
\* after a restart; no two accounts share a name, by which AuthenticateUser finds
\* them; and the password of an account is the one it was last answered for.
AdministratorStays ==
  \A us \in {users, savedUsers} :
    /\ governed => \E u \in User : Governs(us[u])
    /\ \A u, v \in Existing(us) : us[u].name = us[v].name => u = v
    /\ \A u \in User : answered[u] = IF us[u] = None THEN None ELSE us[u].password

=============================================================================
