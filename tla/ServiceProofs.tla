---------------------------- MODULE ServiceProofs ----------------------------
(***************************************************************************)
(* Theorems about four services of the controller, each for itself: the    *)
(* accounts, the enrollment of rigs with the USB writer, what is kept of   *)
(* other web sites, and the controller's own updates. Their models share no *)
(* variable, and the proofs are independent of each other.                 *)
(***************************************************************************)
EXTENDS Accounts, RigEnrollment, SourceCache, ControllerUpdate, FiniteSetTheorems, TLAPS

-----------------------------------------------------------------------------
(***************************************************************************)
(* Accounts: for any finite set of identifiers, any names and passwords and *)
(* any number of failing saves, an administrator stays.                    *)
(***************************************************************************)
\* Memory and file agree between two operations: each saves or goes back.
Agree == users = savedUsers

AccountsInv == AccountsTypeOK /\ Agree /\ AdministratorStays

\* Accounts us, of which the owners were told notes.
Fits(us, notes) ==
  \A u \in User : notes[u] = IF us[u] = None THEN None ELSE us[u].password
NamesApart(us) == \A u, v \in Existing(us) : us[u].name = us[v].name => u = v
SomeoneGoverns(us) == \E u \in User : Governs(us[u])

-----------------------------------------------------------------------------

\* If an account is not the last enabled administrator, another one is.
LEMMA AnotherGoverns ==
  ASSUME users \in Accounts,
         NEW u \in User, ~LastAdmin(u), NEW v \in User, Governs(users[v])
  PROVE  \E w \in User \ {u} : Governs(users[w])
<1>1. CASE v # u
  BY <1>1
<1>2. CASE v = u
  <2>1. Cardinality(EnabledAdmins(users)) > 1 \/ ~(Cardinality(EnabledAdmins(users)) <= 1)
    BY <1>2 DEF LastAdmin
  <2>2. SUFFICES ASSUME \A w \in User \ {u} : ~Governs(users[w]) PROVE FALSE
    OBVIOUS
  <2>3. EnabledAdmins(users) = {u}
    BY <2>2, <1>2, AccountsAssumption DEF EnabledAdmins, Existing, Governs, Accounts
  <2>4. Cardinality({u}) = 1
    BY FS_Singleton
  <2> QED
    BY <2>1, <2>3, <2>4
<1> QED
  BY <1>1, <1>2

\* What an operation makes of the accounts is saved, or everything goes back.
LEMMA AccountsSettled ==
  ASSUME AccountsInv,
         NEW us \in Accounts, NEW u \in User, NEW password \in Password \cup {None},
         SaveAccounts(us), Note(u, password), created' \subseteq User,
         governed => SomeoneGoverns(us), NamesApart(us),
         Fits(us, [answered EXCEPT ![u] = password])
  PROVE  AccountsInv'
<1> USE AccountsAssumption
<1>1. losses \in Nat /\ answered \in [User -> Password \cup {None}]
      /\ governed \in BOOLEAN /\ losses \in 0 .. MaxLosses
  BY DEF AccountsInv, AccountsTypeOK
<1>2. CASE users' = us /\ savedUsers' = us /\ UNCHANGED losses
  <2>1. answered' = [answered EXCEPT ![u] = password]
    BY <1>2 DEF Note, Answered
  <2>2. governed' = (governed \/ SomeoneGoverns(us))
    BY <1>2 DEF Note, SomeoneGoverns
  <2>3. AccountsTypeOK'
    BY <1>1, <1>2, <2>1, <2>2 DEF AccountsTypeOK
  <2>4. AdministratorStays'
    BY <1>2, <2>1, <2>2 DEF AdministratorStays, Fits, NamesApart, SomeoneGoverns
  <2> QED
    BY <1>2, <2>3, <2>4 DEF AccountsInv, Agree
<1>3. CASE losses < MaxLosses /\ losses' = losses + 1
           /\ users' = savedUsers /\ UNCHANGED savedUsers
  <2>1. answered' = answered
    BY <1>1, <1>3 DEF Note, Answered
  <2>2. users' = users /\ savedUsers' = users /\ savedUsers = users
    BY <1>3 DEF AccountsInv, Agree
  <2>3. governed' = (governed \/ SomeoneGoverns(users))
    BY <2>2 DEF Note, SomeoneGoverns
  <2>4. AccountsTypeOK'
    BY <1>1, <1>3, <2>1, <2>2, <2>3 DEF AccountsInv, AccountsTypeOK
  <2>5. AdministratorStays'
    BY <2>1, <2>2, <2>3 DEF AccountsInv, AdministratorStays, SomeoneGoverns
  <2> QED
    BY <2>2, <2>4, <2>5 DEF AccountsInv, Agree
<1> QED
  BY <1>2, <1>3 DEF SaveAccounts

LEMMA SaveUserStep ==
  ASSUME AccountsInv,
         NEW u \in User, NEW n \in Login, NEW admin \in BOOLEAN, NEW disabled \in BOOLEAN,
         NEW password \in Password \cup {None}, SaveUser(u, n, admin, disabled, password)
  PROVE  AccountsInv'
<1> DEFINE present == u \in Existing(users)
           kept    == IF password = None THEN users[u].password ELSE password
           value   == [name |-> n, admin |-> admin, disabled |-> disabled, password |-> kept]
           us      == [users EXCEPT ![u] = value]
<1>1. users \in Accounts /\ answered \in [User -> Password \cup {None}] /\ created \subseteq User
  BY DEF AccountsInv, AccountsTypeOK
<1>2. /\ \A v \in Existing(users) \ {u} : users[v].name # n
      /\ IF present THEN LastAdmin(u) => admin /\ ~disabled
                    ELSE u \notin created /\ password # None
      /\ SaveAccounts(us) /\ Note(u, kept) /\ created' = created \cup {u}
  BY DEF SaveUser
<1>3. kept \in Password
  <2>1. CASE password = None
    <3>1. present
      BY <1>2, <2>1
    <3>2. users[u] \in Account
      BY <1>1, <3>1 DEF Existing, Accounts
    <3> QED BY <2>1, <3>2 DEF Account
  <2>2. CASE password # None
    BY <2>2
  <2> QED BY <2>1, <2>2
<1>4. value \in Account
  BY <1>3 DEF Account
<1>5. us \in Accounts /\ us[u] = value /\ \A v \in User \ {u} : us[v] = users[v]
  BY <1>1, <1>4 DEF Accounts
<1>6. governed => SomeoneGoverns(us)
  <2>1. SUFFICES ASSUME governed PROVE SomeoneGoverns(us)
    OBVIOUS
  <2>2. PICK v \in User : Governs(users[v])
    BY <2>1 DEF AccountsInv, AdministratorStays
  <2>3. CASE LastAdmin(u)
    <3>1. present
      BY <2>3, <1>1 DEF LastAdmin, Governs, Existing
    <3>2. admin /\ ~disabled
      BY <3>1, <1>2, <2>3
    <3>3. value.admin = admin /\ value.disabled = disabled /\ value # None
      BY <1>4, AccountsAssumption
    <3>4. us[u] # None /\ us[u].admin = admin /\ us[u].disabled = disabled
      BY <3>3, <1>5
    <3>5. Governs(us[u])
      BY <3>2, <3>4 DEF Governs
    <3> QED BY <3>5 DEF SomeoneGoverns
  <2>4. CASE ~LastAdmin(u)
    <3>1. PICK w \in User \ {u} : Governs(users[w])
      BY <2>2, <2>4, <1>1, AnotherGoverns
    <3> QED BY <3>1, <1>5 DEF SomeoneGoverns
  <2> QED BY <2>3, <2>4
<1>7. NamesApart(us)
  <2>1. NamesApart(users)
    BY DEF AccountsInv, AdministratorStays, NamesApart
  <2>2. Existing(us) \subseteq Existing(users) \cup {u}
    BY <1>5 DEF Existing
  <2>3. us[u].name = n
    BY <1>5
  <2> HIDE DEF us
  <2>4. SUFFICES ASSUME NEW x \in Existing(us), NEW y \in Existing(us), us[x].name = us[y].name
                 PROVE  x = y
    BY DEF NamesApart
  <2>5. x \in User /\ y \in User
    BY DEF Existing
  <2>6. CASE x # u /\ y # u
    BY <2>1, <2>2, <2>4, <2>5, <2>6, <1>5 DEF NamesApart
  <2>7. CASE x = u \/ y = u
    BY <1>2, <2>2, <2>3, <2>4, <2>5, <2>7, <1>5
  <2> QED BY <2>6, <2>7
<1>8. Fits(us, [answered EXCEPT ![u] = kept])
  <2>1. Fits(users, answered)
    BY DEF AccountsInv, AdministratorStays, Fits
  <2>2. us[u] # None /\ us[u].password = kept
    BY <1>4, <1>5, AccountsAssumption
  <2> HIDE DEF us, kept
  <2> QED BY <2>1, <2>2, <1>1, <1>5 DEF Fits
<1> HIDE DEF us, kept
<1> QED
  BY <1>1, <1>2, <1>3, <1>5, <1>6, <1>7, <1>8, AccountsSettled

LEMMA ResetStep ==
  ASSUME AccountsInv,
         NEW u \in User, NEW password \in Password, ResetUserPassword(u, password)
  PROVE  AccountsInv'
<1> DEFINE us == [users EXCEPT ![u].password = password]
<1>1. users \in Accounts /\ answered \in [User -> Password \cup {None}] /\ created \subseteq User
  BY DEF AccountsInv, AccountsTypeOK
<1>2. u \in Existing(users) /\ SaveAccounts(us) /\ created' = created /\ Note(u, password)
  BY DEF ResetUserPassword
<1>3. users[u] \in Account /\ users[u] # None
  BY <1>1, <1>2 DEF Existing, Accounts
<1>4. us[u] = [users[u] EXCEPT !.password = password] /\ \A v \in User \ {u} : us[v] = users[v]
  BY <1>1 DEF Accounts
<1>5. us[u] \in Account /\ us[u] # None
  BY <1>3, <1>4, AccountsAssumption DEF Account
<1>6. us \in Accounts
  BY <1>1, <1>4, <1>5 DEF Accounts
<1>7. /\ us[u].name = users[u].name /\ us[u].admin = users[u].admin
      /\ us[u].disabled = users[u].disabled /\ us[u].password = password
  BY <1>3, <1>4 DEF Account
<1> HIDE DEF us
<1>8. \A v \in User : /\ Governs(us[v]) <=> Governs(users[v])
                      /\ us[v] = None <=> users[v] = None
                      /\ us[v].name = users[v].name
  BY <1>3, <1>4, <1>5, <1>7 DEF Governs
<1>9. governed => SomeoneGoverns(us)
  <2>1. governed => \E v \in User : Governs(users[v])
    BY DEF AccountsInv, AdministratorStays
  <2> QED BY <2>1, <1>8 DEF SomeoneGoverns
<1>10. NamesApart(us)
  BY <1>8 DEF AccountsInv, AdministratorStays, NamesApart, Existing
<1>11. Fits(us, [answered EXCEPT ![u] = password])
  <2>1. Fits(users, answered)
    BY DEF AccountsInv, AdministratorStays, Fits
  <2> QED BY <2>1, <1>1, <1>4, <1>5, <1>7 DEF Fits
<1> QED
  BY <1>1, <1>2, <1>6, <1>9, <1>10, <1>11, AccountsSettled

LEMMA DeleteUserStep ==
  ASSUME AccountsInv, NEW u \in User, DeleteUser(u)
  PROVE  AccountsInv'
<1> DEFINE us == [users EXCEPT ![u] = None]
<1>1. users \in Accounts /\ answered \in [User -> Password \cup {None}] /\ created \subseteq User
  BY DEF AccountsInv, AccountsTypeOK
<1>2. ~LastAdmin(u) /\ SaveAccounts(us) /\ created' = created /\ Note(u, None)
  BY DEF DeleteUser
<1>3. us \in Accounts /\ us[u] = None /\ \A v \in User \ {u} : us[v] = users[v]
  BY <1>1 DEF Accounts
<1> HIDE DEF us
<1>4. governed => SomeoneGoverns(us)
  <2>1. SUFFICES ASSUME governed PROVE SomeoneGoverns(us)
    OBVIOUS
  <2>2. PICK v \in User : Governs(users[v])
    BY <2>1 DEF AccountsInv, AdministratorStays
  <2>3. PICK w \in User \ {u} : Governs(users[w])
    BY <2>2, <1>1, <1>2, AnotherGoverns
  <2> QED BY <2>3, <1>3 DEF SomeoneGoverns
<1>5. NamesApart(us)
  <2>1. NamesApart(users)
    BY DEF AccountsInv, AdministratorStays, NamesApart
  <2>2. \A v \in Existing(us) : v \in Existing(users) /\ us[v] = users[v]
    BY <1>3 DEF Existing
  <2> QED BY <2>1, <2>2 DEF NamesApart
<1>6. Fits(us, [answered EXCEPT ![u] = None])
  <2>1. Fits(users, answered)
    BY DEF AccountsInv, AdministratorStays, Fits
  <2> QED BY <2>1, <1>1, <1>3 DEF Fits
<1> QED
  BY <1>1, <1>2, <1>3, <1>4, <1>5, <1>6, AccountsSettled

-----------------------------------------------------------------------------

\* In a new controller nobody governs, and nothing was answered.
LEMMA AccountsInitInv == ASSUME AccountsInit PROVE AccountsInv
<1>1. \A u \in User : users[u] = None /\ savedUsers[u] = None /\ answered[u] = None
  BY DEF AccountsInit
<1>2. AccountsTypeOK
  <2>1. users \in Accounts /\ savedUsers \in Accounts /\ answered \in [User -> Password \cup {None}]
    BY DEF AccountsInit, Accounts
  <2>2. governed \in BOOLEAN
    BY DEF AccountsInit
  <2> QED BY <2>1, <2>2, AccountsAssumption DEF AccountsInit, AccountsTypeOK
<1>3. AdministratorStays
  BY <1>1 DEF AccountsInit, AdministratorStays, Existing
<1> QED
  BY <1>2, <1>3 DEF AccountsInit, AccountsInv, Agree

\* Every operation, failed save and restart preserves the invariant.
LEMMA AccountsStep ==
  ASSUME AccountsInv, [AccountsNext]_accountVars
  PROVE  AccountsInv'
<1>1. CASE \E u \in User, n \in Login, admin, disabled \in BOOLEAN,
              password \in Password \cup {None} : SaveUser(u, n, admin, disabled, password)
  BY <1>1, SaveUserStep
<1>2. CASE \E u \in User : DeleteUser(u)
  BY <1>2, DeleteUserStep
<1>3. CASE \E u \in User : \E password \in Password : ResetUserPassword(u, password)
  BY <1>3, ResetStep
<1>4. CASE RestoreAccounts
  BY <1>4, AccountsAssumption DEF RestoreAccounts, AccountsInv, AccountsTypeOK, Agree, AdministratorStays
<1>5. CASE UNCHANGED accountVars
  BY <1>5 DEF accountVars, AccountsInv, AccountsTypeOK, Agree, AdministratorStays
<1> QED
  BY <1>1, <1>2, <1>3, <1>4, <1>5 DEF AccountsNext

\* Once an administrator can log in, one always can, in memory and in the state
\* file, names stay distinct and passwords are those last answered for.
THEOREM AdministratorAlwaysStays == AccountsSpec => []AdministratorStays
<1>1. AccountsInit => AccountsInv
  BY AccountsInitInv
<1>2. AccountsInv /\ [AccountsNext]_accountVars => AccountsInv'
  BY AccountsStep
<1>3. AccountsInv => AdministratorStays
  BY DEF AccountsInv
<1> QED
  BY <1>1, <1>2, <1>3, PTL DEF AccountsSpec

-----------------------------------------------------------------------------
(***************************************************************************)
(* Enrollment: for any tokens, machines, releases and numbers of USB       *)
(* operations, failures and crashes, a grant lets in one rig, and what is said *)
(* of the last USB operation is true.                                      *)
(***************************************************************************)
\* Each operation saves or goes back, so memory and file agree between two of them.
Durable == memory = file

Spent(t) == \E i \in Identity : by[i] = t

\* Only tokens that were made are granted or used, and a used one is granted no longer.
TokensAccounted ==
  \A t \in Token :
    /\ memory.grants[t] # None => t \in issued /\ ~Spent(t)
    /\ Spent(t) => t \in issued

\* The token of an operation that is running or complete is good or was good once; a
\* flash that pairs has verified its image; a failed operation has left no grant.
OperationTrue ==
  /\ usb.token # None => usb.token \in issued
  /\ usb.at = "start" => usb.token = None
  /\ usb.state = "running" /\ usb.action \in {"flash", "pair"} =>
       /\ usb.name \in RigName
       /\ usb.at # "start" => usb.token \in Token
  /\ usb.state \in {"running", "complete"} /\ usb.token # None =>
       memory.grants[usb.token] # None \/ Spent(usb.token)
  /\ usb.at = "pairing" \/ usb.state = "complete" =>
       (usb.action = "flash" => drive.image = usb.release)
  /\ usb.state = "failed" /\ usb.token # None /\ ~usb.kept =>
       memory.grants[usb.token] = None

\* A machine asks with what it found on its drive.
AsksProvisioned == \A a \in Machine : machines[a].asked > 0 => machines[a].conf # None

EnrollmentInv == /\ EnrollmentTypeOK /\ Durable /\ TokensAccounted /\ OperationTrue
                 /\ GrantUsedOnce /\ AsksProvisioned

\* What the steps of a USB operation leave alone.
FarmAlone == UNCHANGED << memory, file, machines, issued, by >>

Kept(u, v) == /\ u.action = v.action /\ u.name = v.name /\ u.token = v.token
              /\ u.kept = v.kept

-----------------------------------------------------------------------------
(* The operators the actions are built from. *)

\* A save keeps to the values and leaves memory and file in agreement.
LEMMA SaveResult ==
  ASSUME EnrollmentInv, NEW s \in Registry, Save(s)
  PROVE  /\ memory' \in Registry /\ file' = memory'
         /\ troubles' \in 0 .. MaxTroubles
         /\ Saved => memory' = s
         /\ ~Saved => memory' = memory
<1>1. memory \in Registry /\ file = memory /\ troubles \in 0 .. MaxTroubles
  BY DEF EnrollmentInv, EnrollmentTypeOK, Durable
<1>2. CASE memory' = s /\ file' = s /\ NoTrouble
  BY <1>1, <1>2 DEF NoTrouble, Saved
<1>3. CASE memory' = file /\ UNCHANGED file /\ Trouble
  BY <1>1, <1>3, EnrollmentAssumption DEF Trouble, Saved
<1> QED BY <1>2, <1>3 DEF Save

LEMMA TroubleCounted ==
  ASSUME EnrollmentTypeOK, Trouble \/ NoTrouble
  PROVE  troubles' \in 0 .. MaxTroubles
BY EnrollmentAssumption DEF EnrollmentTypeOK, Trouble, NoTrouble

\* How the state of an operation changes.
LEMMA ToResult ==
  ASSUME usb \in Operation, NEW stage \in Stage, To(stage)
  PROVE  /\ usb' \in Operation /\ Kept(usb', usb) /\ usb'.at = stage
         /\ usb'.state = usb.state /\ usb'.release = usb.release
BY DEF To, Operation, Kept

LEMMA CompleteResult ==
  ASSUME usb \in Operation, Completed
  PROVE  /\ usb' \in Operation /\ Kept(usb', usb) /\ usb'.at = "none"
         /\ usb'.state = "complete" /\ usb'.release = usb.release
BY DEF Completed, Operation, Kept, Stage

LEMMA FailedResult ==
  ASSUME usb \in Operation, Failed
  PROVE  /\ usb' \in Operation /\ Kept(usb', usb) /\ usb'.at = "none"
         /\ usb'.state = "failed" /\ usb'.release = usb.release
BY DEF Failed, Operation, Kept, Stage

LEMMA GiveUpResult ==
  ASSUME usb \in Operation, usb.state = "running", GiveUp
  PROVE  /\ usb' \in Operation /\ Kept(usb', usb)
         /\ \/ usb'.at = "none" /\ usb'.state = "failed" /\ usb'.token = None
            \/ usb'.at = "revoking" /\ usb'.state = "running" /\ usb'.token # None
<1>1. CASE usb.token = None
  BY <1>1, FailedResult DEF GiveUp, Kept
<1>2. CASE usb.token # None
  <2>1. "revoking" \in Stage
    BY DEF Stage
  <2> QED BY <1>2, <2>1, ToResult DEF GiveUp, Kept
<1> QED BY <1>1, <1>2

\* A running operation that goes on keeps its promises: unless it gives up, completes a
\* flash or begins to pair, they say of it what they said before.
LEMMA Goes ==
  ASSUME EnrollmentInv, FarmAlone, usb.state = "running",
         Kept(usb', usb), usb'.at # "start",
         usb'.state = "running" /\ usb.action \in {"flash", "pair"} =>
           usb.at # "start" \/ usb'.token # None,
         \/ usb'.state = "running"
         \/ usb'.state = "complete"
         \/ usb'.state = "failed" /\ usb'.token = None,
         usb'.at = "pairing" \/ usb'.state = "complete" =>
           (usb.action = "flash" => drive'.image = usb'.release)
  PROVE  OperationTrue'
<1>1. OperationTrue /\ usb \in Operation /\ usb.token \in Opt(Token)
  BY DEF EnrollmentInv, EnrollmentTypeOK, Operation
<1>2. /\ usb'.action = usb.action /\ usb'.name = usb.name /\ usb'.token = usb.token
      /\ usb'.kept = usb.kept
  BY DEF Kept
<1>3. /\ usb'.token # None => usb'.token \in issued
      /\ usb'.at = "start" => usb'.token = None
  BY <1>1, <1>2 DEF OperationTrue
<1>4. usb'.state = "running" /\ usb'.action \in {"flash", "pair"} =>
        /\ usb'.name \in RigName
        /\ usb'.at # "start" => usb'.token \in Token
  BY <1>1, <1>2 DEF OperationTrue, Opt
<1>5. usb'.state \in {"running", "complete"} /\ usb'.token # None =>
        memory.grants[usb'.token] # None \/ Spent(usb'.token)
  BY <1>1, <1>2 DEF OperationTrue
<1>6. usb'.at = "pairing" \/ usb'.state = "complete" =>
       (usb'.action = "flash" => drive'.image = usb'.release)
  BY <1>2
<1>7. memory' = memory /\ issued' = issued /\ by' = by
  BY DEF FarmAlone
<1>8. usb'.state = "failed" => usb'.token = None
  OBVIOUS
<1> QED
  BY <1>3, <1>4, <1>5, <1>6, <1>7, <1>8 DEF OperationTrue, Spent

\* What was true of grants and tokens is true while a USB operation works on the drive.
LEMMA DriveOnly ==
  ASSUME EnrollmentInv, FarmAlone
  PROVE  Durable' /\ TokensAccounted' /\ GrantUsedOnce' /\ AsksProvisioned'
BY DEF EnrollmentInv, FarmAlone, Durable, TokensAccounted, Spent, GrantUsedOnce, AsksProvisioned

-----------------------------------------------------------------------------
(* USB operations. *)

LEMMA BeginStep ==
  ASSUME EnrollmentInv, NEW action \in Action, NEW n \in RigName, Begin(action, n)
  PROVE  EnrollmentInv'
<1> DEFINE u == [NoTask EXCEPT !.state = "running", !.action = action,
                   !.name = IF action \in {"flash", "pair"} THEN n ELSE None,
                   !.at = IF action = "download" THEN "image" ELSE "start"]
<1>1. /\ usb' = u /\ tasks < MaxTasks /\ tasks' = tasks + 1
      /\ UNCHANGED << memory, file, image, drive, machines, issued, by, troubles >>
  BY DEF Begin
<1>2. /\ u \in Operation /\ u.token = None /\ u.state = "running" /\ u.at # "pairing"
      /\ u.action \in {"flash", "pair"} => u.name \in RigName /\ u.at = "start"
  BY DEF NoTask, Operation, Opt, Stage
<1> HIDE DEF u
<1>3. EnrollmentTypeOK'
  BY <1>1, <1>2, EnrollmentAssumption DEF EnrollmentInv, EnrollmentTypeOK
<1>4. OperationTrue'
  BY <1>1, <1>2 DEF OperationTrue
<1> QED
  BY <1>1, <1>3, <1>4, DriveOnly DEF EnrollmentInv, FarmAlone

LEMMA OperationSteps ==
  ASSUME EnrollmentInv,
         Fail \/ HaveImage \/ GetImage \/ GetDigest \/ Downloaded \/ Verify \/ Restore
  PROVE  EnrollmentInv'
<1> USE DEF At
<1>1. /\ usb \in Operation /\ EnrollmentTypeOK
      /\ image \in [manifest : Opt(Version), content : Opt(Version), digest : Opt(Version)]
  BY DEF EnrollmentInv, EnrollmentTypeOK
<1>2. {"ready", "digest", "pairing"} \subseteq Stage
  BY DEF Stage
<1>3. CASE Fail
  <2>1. usb.state = "running" /\ GiveUp /\ OnlyUsb
    BY <1>3 DEF Fail
  <2>2. OperationTrue' /\ usb' \in Operation
    BY <1>1, <2>1, GiveUpResult, Goes DEF OnlyUsb, FarmAlone
  <2>3. EnrollmentTypeOK'
    BY <1>1, <2>1, <2>2 DEF OnlyUsb, EnrollmentTypeOK
  <2> QED BY <2>1, <2>2, <2>3, DriveOnly DEF OnlyUsb, FarmAlone, EnrollmentInv
<1>4. CASE HaveImage
  <2>1. /\ usb.state = "running" /\ usb.at = "image" /\ OnlyUsb
        /\ usb' = [usb EXCEPT !.at = "ready", !.release = image.manifest]
    BY <1>4 DEF HaveImage
  <2>2. /\ usb' \in Operation /\ Kept(usb', usb)
        /\ usb'.state = "running" /\ usb'.at = "ready"
    BY <1>1, <1>2, <2>1 DEF Operation, Kept
  <2>3. OperationTrue'
    BY <2>1, <2>2, Goes DEF OnlyUsb, FarmAlone
  <2>4. EnrollmentTypeOK'
    BY <1>1, <2>1, <2>2 DEF OnlyUsb, EnrollmentTypeOK
  <2> QED BY <2>1, <2>3, <2>4, DriveOnly DEF OnlyUsb, FarmAlone, EnrollmentInv
<1>5. CASE GetImage
  <2>1. /\ usb.state = "running" /\ usb.at = "download" /\ To("digest")
        /\ image' = [image EXCEPT !.content = usb.release]
        /\ UNCHANGED << memory, file, drive, machines, issued, by, tasks, troubles >>
    BY <1>5 DEF GetImage
  <2>2. /\ usb' \in Operation /\ Kept(usb', usb)
        /\ usb'.state = "running" /\ usb'.at = "digest"
    BY <1>1, <1>2, <2>1, ToResult
  <2>3. OperationTrue'
    BY <2>1, <2>2, Goes DEF FarmAlone
  <2>4. image' \in [manifest : Opt(Version), content : Opt(Version), digest : Opt(Version)]
    BY <1>1, <2>1 DEF Operation
  <2>5. EnrollmentTypeOK'
    BY <1>1, <2>1, <2>2, <2>4 DEF EnrollmentTypeOK
  <2> QED BY <2>1, <2>3, <2>5, DriveOnly DEF FarmAlone, EnrollmentInv
<1>6. CASE GetDigest
  <2>1. /\ usb.state = "running" /\ usb.at = "digest"
        /\ To("ready") \/ GiveUp
        /\ UNCHANGED << memory, file, drive, machines, issued, by, tasks, troubles >>
    BY <1>6 DEF GetDigest
  <2>2. /\ usb' \in Operation /\ Kept(usb', usb)
        /\ \/ usb'.state = "running" /\ usb'.at \in {"ready", "revoking"}
           \/ usb'.state = "failed" /\ usb'.token = None /\ usb'.at = "none"
    BY <1>1, <1>2, <2>1, ToResult, GiveUpResult
  <2>3. OperationTrue'
    BY <2>1, <2>2, Goes DEF FarmAlone
  <2>4. image' \in [manifest : Opt(Version), content : Opt(Version), digest : Opt(Version)]
    <3>1. usb.release \in Opt(Version) /\ None \in Opt(Version)
      BY <1>1 DEF Operation, Opt
    <3>2. \E d \in Opt(Version) : image' = [image EXCEPT !.digest = d]
      BY <1>6, <3>1 DEF GetDigest
    <3> QED BY <1>1, <3>2
  <2>5. EnrollmentTypeOK'
    BY <1>1, <2>1, <2>2, <2>4 DEF EnrollmentTypeOK
  <2> QED BY <2>1, <2>3, <2>5, DriveOnly DEF FarmAlone, EnrollmentInv
<1>7. CASE Downloaded
  <2>1. usb.state = "running" /\ usb.action = "download" /\ Completed /\ OnlyUsb
    BY <1>7 DEF Downloaded
  <2>2. /\ usb' \in Operation /\ Kept(usb', usb)
        /\ usb'.state = "complete" /\ usb'.at = "none"
    BY <1>1, <2>1, CompleteResult
  <2>3. OperationTrue'
    BY <2>1, <2>2, Goes DEF OnlyUsb, FarmAlone
  <2>4. EnrollmentTypeOK'
    BY <1>1, <2>1, <2>2 DEF OnlyUsb, EnrollmentTypeOK
  <2> QED BY <2>1, <2>3, <2>4, DriveOnly DEF OnlyUsb, FarmAlone, EnrollmentInv
<1>8. CASE Verify
  <2>1. /\ usb.state = "running" /\ usb.at = "written" /\ OnlyUsb
        /\ IF drive.image = usb.release THEN To("pairing") ELSE GiveUp
    BY <1>8 DEF Verify
  <2>2. /\ usb' \in Operation /\ Kept(usb', usb)
        /\ \/ usb'.state = "running" /\ usb'.at = "pairing"
              /\ usb'.release = usb.release /\ drive.image = usb.release
           \/ usb'.state = "running" /\ usb'.at = "revoking"
           \/ usb'.state = "failed" /\ usb'.token = None /\ usb'.at = "none"
    BY <1>1, <1>2, <2>1, ToResult, GiveUpResult
  <2>3. OperationTrue'
    BY <2>1, <2>2, Goes DEF OnlyUsb, FarmAlone
  <2>4. EnrollmentTypeOK'
    BY <1>1, <2>1, <2>2 DEF OnlyUsb, EnrollmentTypeOK
  <2> QED BY <2>1, <2>3, <2>4, DriveOnly DEF OnlyUsb, FarmAlone, EnrollmentInv
<1>9. CASE Restore
  <2>1. /\ usb.state = "running" /\ usb.action = "restore"
        /\ Completed \/ GiveUp
        /\ drive' = Blank
        /\ UNCHANGED << memory, file, image, machines, issued, by, tasks, troubles >>
    BY <1>9 DEF Restore
  <2>2. /\ usb' \in Operation /\ Kept(usb', usb)
        /\ \/ usb'.state = "complete" /\ usb'.at = "none"
           \/ usb'.state = "running" /\ usb'.at = "revoking"
           \/ usb'.state = "failed" /\ usb'.token = None /\ usb'.at = "none"
    BY <1>1, <2>1, CompleteResult, GiveUpResult
  <2>3. OperationTrue'
    BY <2>1, <2>2, Goes DEF FarmAlone
  <2>4. EnrollmentTypeOK'
    BY <1>1, <2>1, <2>2 DEF EnrollmentTypeOK, Blank, Opt
  <2> QED BY <2>1, <2>3, <2>4, DriveOnly DEF FarmAlone, EnrollmentInv
<1> QED
  BY <1>3, <1>4, <1>5, <1>6, <1>7, <1>8, <1>9

LEMMA GetManifestStep ==
  ASSUME EnrollmentInv, NEW v \in Version, GetManifest(v)
  PROVE  EnrollmentInv'
<1>1. /\ usb \in Operation /\ EnrollmentTypeOK
      /\ image \in [manifest : Opt(Version), content : Opt(Version), digest : Opt(Version)]
  BY DEF EnrollmentInv, EnrollmentTypeOK
<1>2. /\ usb.state = "running" /\ usb.at = "image"
      /\ Trouble \/ NoTrouble
      /\ image' = [image EXCEPT !.manifest = v]
      /\ usb' = [usb EXCEPT !.at = "download", !.release = v]
      /\ UNCHANGED << memory, file, drive, machines, issued, by, tasks >>
  BY DEF GetManifest, At
<1>3. /\ usb' \in Operation /\ Kept(usb', usb)
      /\ usb'.state = "running" /\ usb'.at = "download"
  BY <1>1, <1>2 DEF Operation, Kept, Opt, Stage
<1>4. OperationTrue'
  BY <1>2, <1>3, Goes DEF FarmAlone
<1>5. image' \in [manifest : Opt(Version), content : Opt(Version), digest : Opt(Version)]
  BY <1>1, <1>2 DEF Opt
<1>6. troubles' \in 0 .. MaxTroubles
  BY <1>1, <1>2, TroubleCounted
<1>7. EnrollmentTypeOK'
  BY <1>1, <1>2, <1>3, <1>5, <1>6 DEF EnrollmentTypeOK
<1> QED
  BY <1>2, <1>4, <1>7, DriveOnly DEF FarmAlone, EnrollmentInv

\* The steps that write the drive.
LEMMA DriveSteps ==
  ASSUME EnrollmentInv, Erase \/ Write \/ Pair
  PROVE  EnrollmentInv'
<1> USE DEF At
<1>1. /\ usb \in Operation /\ EnrollmentTypeOK
      /\ image \in [manifest : Opt(Version), content : Opt(Version), digest : Opt(Version)]
      /\ drive \in [image : Opt(Version) \cup {"damaged"}, conf : Opt(Provisioning)]
  BY DEF EnrollmentInv, EnrollmentTypeOK
<1>2. {"erased", "written"} \subseteq Stage
  BY DEF Stage
<1>3. CASE Erase
  <2>1. /\ usb.state = "running" /\ usb.at = "ready"
        /\ To("erased") \/ GiveUp
        /\ drive' = Blank
        /\ UNCHANGED << memory, file, image, machines, issued, by, tasks, troubles >>
    BY <1>3 DEF Erase
  <2>2. /\ usb' \in Operation /\ Kept(usb', usb)
        /\ \/ usb'.state = "running" /\ usb'.at \in {"erased", "revoking"}
           \/ usb'.state = "failed" /\ usb'.token = None /\ usb'.at = "none"
    BY <1>1, <1>2, <2>1, ToResult, GiveUpResult
  <2>3. OperationTrue'
    BY <2>1, <2>2, Goes DEF FarmAlone
  <2>4. EnrollmentTypeOK'
    BY <1>1, <2>1, <2>2 DEF EnrollmentTypeOK, Blank, Opt
  <2> QED BY <2>1, <2>3, <2>4, DriveOnly DEF FarmAlone, EnrollmentInv
<1>4. CASE Write
  <2>1. /\ usb.state = "running" /\ usb.at = "erased"
        /\ To("written") \/ GiveUp
        /\ drive' = [drive EXCEPT !.image = image.content] \/ drive' = [drive EXCEPT !.image = "damaged"]
       
        /\ Trouble \/ NoTrouble
        /\ UNCHANGED << memory, file, image, machines, issued, by, tasks >>
    BY <1>4 DEF Write
  <2>2. /\ usb' \in Operation /\ Kept(usb', usb)
        /\ \/ usb'.state = "running" /\ usb'.at \in {"written", "revoking"}
           \/ usb'.state = "failed" /\ usb'.token = None /\ usb'.at = "none"
    BY <1>1, <1>2, <2>1, ToResult, GiveUpResult
  <2>3. OperationTrue'
    BY <2>1, <2>2, Goes DEF FarmAlone
  <2>4. drive' \in [image : Opt(Version) \cup {"damaged"}, conf : Opt(Provisioning)]
    BY <1>1, <2>1
  <2>5. troubles' \in 0 .. MaxTroubles
    BY <1>1, <2>1, TroubleCounted
  <2>6. EnrollmentTypeOK'
    BY <1>1, <2>1, <2>2, <2>4, <2>5 DEF EnrollmentTypeOK
  <2> QED BY <2>1, <2>3, <2>6, DriveOnly DEF FarmAlone, EnrollmentInv
<1>5. CASE Pair
  <2>1. /\ usb.state = "running" /\ usb.at = "pairing" /\ usb.action \in {"flash", "pair"}
        /\ Completed \/ GiveUp
        /\ \/ drive' = [drive EXCEPT !.conf = [name |-> usb.name, token |-> usb.token]]
           \/ drive' = [drive EXCEPT !.conf = None]
        /\ UNCHANGED << memory, file, image, machines, issued, by, tasks, troubles >>
    BY <1>5 DEF Pair
  <2>2. OperationTrue
    BY DEF EnrollmentInv
  <2>3. /\ usb.name \in RigName /\ usb.token \in Token
        /\ usb.action = "flash" => drive.image = usb.release
    BY <2>1, <2>2 DEF OperationTrue
  <2>4. [name |-> usb.name, token |-> usb.token] \in Opt(Provisioning) /\ None \in Opt(Provisioning)
    BY <2>3 DEF Provisioning, Opt
  <2>5. /\ drive' \in [image : Opt(Version) \cup {"damaged"}, conf : Opt(Provisioning)]
        /\ drive'.image = drive.image
    BY <1>1, <2>1, <2>4
  <2>6. /\ usb' \in Operation /\ Kept(usb', usb)
        /\ \/ usb'.state = "complete" /\ usb'.at = "none" /\ usb'.release = usb.release
           \/ usb'.state = "running" /\ usb'.at = "revoking"
           \/ usb'.state = "failed" /\ usb'.token = None /\ usb'.at = "none"
    BY <1>1, <2>1, CompleteResult, GiveUpResult
  <2>7. OperationTrue'
    BY <2>1, <2>3, <2>5, <2>6, Goes DEF FarmAlone
  <2>8. EnrollmentTypeOK'
    BY <1>1, <2>1, <2>5, <2>6 DEF EnrollmentTypeOK
  <2> QED BY <2>1, <2>7, <2>8, DriveOnly DEF FarmAlone, EnrollmentInv
<1> QED BY <1>3, <1>4, <1>5

-----------------------------------------------------------------------------
(* Grants and machines. *)

\* What happens to grants and rigs keeps to their values.
LEMMA GrantedType ==
  ASSUME memory \in Registry, NEW t \in Token, NEW n \in RigName
  PROVE  Granted(memory, t, n) \in Registry
<1>1. [name |-> n, expired |-> FALSE] \in Grant
  BY DEF Grant
<1> QED BY <1>1 DEF Granted, Registry, Opt

LEMMA RigsType ==
  ASSUME memory \in Registry, NEW i \in Identity, NEW n \in Opt(RigName)
  PROVE  [memory EXCEPT !.rigs[i] = n] \in Registry
BY DEF Registry

LEMMA RedeemedType ==
  ASSUME memory \in Registry, NEW t \in Token, NEW n \in RigName, NEW i \in Identity
  PROVE  Redeemed(memory, t, n, i) \in Registry
BY DEF Redeemed, Registry, Opt

LEMMA MakeGrantStep ==
  ASSUME EnrollmentInv, NEW t \in Token, MakeGrant(t)
  PROVE  EnrollmentInv'
<1> DEFINE s == Granted(memory, t, usb.name)
<1>1. /\ usb \in Operation /\ EnrollmentTypeOK /\ memory \in Registry /\ OperationTrue
      /\ TokensAccounted /\ GrantUsedOnce /\ issued \subseteq Token
  BY DEF EnrollmentInv, EnrollmentTypeOK
<1>2. /\ usb.state = "running" /\ usb.at = "start" /\ usb.action \in {"flash", "pair"}
      /\ t \notin issued /\ issued' = issued \cup {t} /\ Save(s)
      /\ IF Saved THEN usb' = [usb EXCEPT !.token = t,
                                 !.at = IF usb.action = "flash" THEN "image" ELSE "pairing"]
                  ELSE Failed
      /\ UNCHANGED << image, drive, machines, by, tasks >>
  BY DEF MakeGrant, At
<1>3. usb.name \in RigName /\ usb.token = None
  BY <1>1, <1>2 DEF OperationTrue
<1>4. s \in Registry
  BY <1>1, <1>3, GrantedType
<1>5. /\ s.grants[t] # None
      /\ \A u \in Token : s.grants[u] # None => u = t \/ memory.grants[u] # None
  <2>1. [name |-> usb.name, expired |-> FALSE] # None
    <3>1. [name |-> usb.name, expired |-> FALSE] \in Grant
      BY <1>3 DEF Grant
    <3> QED BY <3>1, EnrollmentAssumption
  <2> QED BY <1>1, <2>1 DEF Granted, Registry
<1> HIDE DEF s
<1>6. /\ memory' \in Registry /\ file' = memory' /\ troubles' \in 0 .. MaxTroubles
      /\ Saved => memory' = s
      /\ ~Saved => memory' = memory
  BY <1>2, <1>4, SaveResult
<1>7. \A u \in Token : Spent(u)' <=> Spent(u)
  BY <1>2 DEF Spent
<1>8. TokensAccounted'
  BY <1>1, <1>2, <1>5, <1>6, <1>7 DEF TokensAccounted
<1>9. GrantUsedOnce'
  BY <1>1, <1>2 DEF GrantUsedOnce
<1>10. usb' \in Operation /\ OperationTrue'
  <2>1. CASE Saved
    <3>1. /\ usb' \in Operation /\ usb'.token = t /\ usb'.state = "running"
          /\ usb'.name = usb.name /\ usb'.action = usb.action /\ usb'.at # "start"
          /\ usb'.at = "pairing" => usb'.action # "flash"
      BY <1>1, <1>2, <2>1, ZenonT(30) DEF Operation, Opt, Stage
    <3>2. memory'.grants[t] # None
      BY <1>5, <1>6, <2>1
    <3> QED BY <1>2, <1>3, <3>1, <3>2 DEF OperationTrue
  <2>2. CASE ~Saved
    <3>1. /\ usb' \in Operation /\ usb'.token = None /\ usb'.state = "failed" /\ usb'.at = "none"
      BY <1>1, <1>2, <1>3, <2>2, FailedResult DEF Kept
    <3> QED BY <3>1 DEF OperationTrue
  <2> QED BY <2>1, <2>2
<1>11. EnrollmentTypeOK'
  BY <1>1, <1>2, <1>6, <1>10 DEF EnrollmentTypeOK
<1> QED
  BY <1>6, <1>8, <1>9, <1>10, <1>11, <1>2 DEF EnrollmentInv, Durable, AsksProvisioned

LEMMA RevokeStep ==
  ASSUME EnrollmentInv, RevokeGrant
  PROVE  EnrollmentInv'
<1> DEFINE s == Revoked(memory, usb.token)
<1>1. /\ usb \in Operation /\ EnrollmentTypeOK /\ memory \in Registry /\ OperationTrue
      /\ TokensAccounted /\ GrantUsedOnce
  BY DEF EnrollmentInv, EnrollmentTypeOK
<1>2. /\ usb.state = "running" /\ usb.at = "revoking" /\ Save(s)
      /\ usb' = [usb EXCEPT !.state = "failed", !.at = "none", !.kept = ~Saved]
      /\ UNCHANGED << image, drive, machines, issued, by, tasks >>
  BY DEF RevokeGrant
<1>3. s \in Registry /\ \A u \in Token : /\ s.grants[u] # None => memory.grants[u] # None
                                         /\ u = usb.token => s.grants[u] = None
  BY <1>1 DEF Revoked, Registry, Opt
<1> HIDE DEF s
<1>4. /\ memory' \in Registry /\ file' = memory' /\ troubles' \in 0 .. MaxTroubles
      /\ Saved => memory' = s
      /\ ~Saved => memory' = memory
  BY <1>2, <1>3, SaveResult
<1>5. \A u \in Token : Spent(u)' <=> Spent(u)
  BY <1>2 DEF Spent
<1>6. TokensAccounted' /\ GrantUsedOnce'
  BY <1>1, <1>2, <1>3, <1>4, <1>5 DEF TokensAccounted, GrantUsedOnce
<1>7. /\ usb' \in Operation /\ usb'.state = "failed" /\ usb'.at = "none"
      /\ usb'.token = usb.token /\ (usb'.kept <=> ~Saved)
  <2>1. (~Saved) \in BOOLEAN
    BY DEF Saved
  <2>2. usb' \in Operation
    BY <1>1, <1>2, <2>1 DEF Operation, Stage
  <2>3. /\ usb'.state = "failed" /\ usb'.at = "none" /\ usb'.token = usb.token
        /\ usb'.kept = ~Saved
    BY <1>1, <1>2 DEF Operation
  <2> QED BY <2>2, <2>3
<1>8. usb.token \in Opt(Token)
  BY <1>1 DEF Operation
<1>9. OperationTrue'
  BY <1>1, <1>2, <1>3, <1>4, <1>7, <1>8 DEF OperationTrue, Opt
<1>10. EnrollmentTypeOK'
  BY <1>1, <1>2, <1>4, <1>7 DEF EnrollmentTypeOK
<1> QED
  BY <1>4, <1>6, <1>9, <1>10, <1>2 DEF EnrollmentInv, Durable, AsksProvisioned

\* The promises to an operation stand while its grant is kept or redeemed.
LEMMA OperationStands ==
  ASSUME EnrollmentInv, UNCHANGED usb, issued' = issued, drive'.image = drive.image,
         \A t \in Token : /\ memory'.grants[t] = None => memory.grants[t] = None \/ Spent(t)'
                          /\ memory.grants[t] = None => memory'.grants[t] = None
                          /\ Spent(t) => Spent(t)'
  PROVE  OperationTrue'
<1>1. OperationTrue /\ usb.token \in Opt(Token)
  BY DEF EnrollmentInv, EnrollmentTypeOK, Operation
<1> QED BY <1>1 DEF OperationTrue, Opt

LEMMA SharedStep ==
  ASSUME EnrollmentInv, NEW n \in RigName, NEW i \in Identity, EnrollShared(n, i)
  PROVE  EnrollmentInv'
<1> DEFINE s == [memory EXCEPT !.rigs[i] = n]
<1>1. /\ EnrollmentTypeOK /\ memory \in Registry /\ TokensAccounted /\ GrantUsedOnce
      /\ by \in [Identity -> Opt(Token) \cup {"shared"}]
  BY DEF EnrollmentInv, EnrollmentTypeOK
<1>2. /\ i \in Unused /\ Save(s)
      /\ by' = [by EXCEPT ![i] = IF Saved THEN "shared" ELSE None]
      /\ UNCHANGED << usb, image, drive, machines, issued, tasks >>
  BY DEF EnrollShared
<1>3. s \in Registry /\ s.grants = memory.grants
  BY <1>1, RigsType DEF Registry, Opt
<1> HIDE DEF s
<1>4. /\ memory' \in Registry /\ file' = memory' /\ troubles' \in 0 .. MaxTroubles
      /\ memory'.grants = memory.grants
  BY <1>2, <1>3, SaveResult
<1>5. by' \in [Identity -> Opt(Token) \cup {"shared"}]
  BY <1>1, <1>2 DEF Opt
<1>6. by[i] = None /\ by'[i] \notin Token /\ \A j \in Identity \ {i} : by'[j] = by[j]
  BY <1>1, <1>2, EnrollmentAssumption DEF Unused
<1>7. \A t \in Token : Spent(t)' <=> Spent(t)
  BY <1>6, EnrollmentAssumption DEF Spent
<1>8. TokensAccounted' /\ GrantUsedOnce'
  BY <1>1, <1>2, <1>4, <1>6, <1>7 DEF TokensAccounted, GrantUsedOnce
<1>9. OperationTrue'
  BY <1>2, <1>4, <1>7, OperationStands
<1>10. EnrollmentTypeOK'
  BY <1>1, <1>2, <1>4, <1>5 DEF EnrollmentTypeOK
<1> QED
  BY <1>4, <1>8, <1>9, <1>10, <1>2 DEF EnrollmentInv, Durable, AsksProvisioned

LEMMA DeleteRigStep ==
  ASSUME EnrollmentInv, NEW i \in Identity, RemoveRig(i)
  PROVE  EnrollmentInv'
<1> DEFINE s == [memory EXCEPT !.rigs[i] = None]
<1>1. EnrollmentTypeOK /\ memory \in Registry /\ TokensAccounted /\ GrantUsedOnce
  BY DEF EnrollmentInv, EnrollmentTypeOK
<1>2. Save(s) /\ UNCHANGED << usb, image, drive, machines, issued, by, tasks >>
  BY DEF RemoveRig
<1>3. s \in Registry /\ s.grants = memory.grants
  BY <1>1, RigsType DEF Registry, Opt
<1> HIDE DEF s
<1>4. /\ memory' \in Registry /\ file' = memory' /\ troubles' \in 0 .. MaxTroubles
      /\ memory'.grants = memory.grants
  BY <1>2, <1>3, SaveResult
<1>5. \A t \in Token : Spent(t)' <=> Spent(t)
  BY <1>2 DEF Spent
<1>6. TokensAccounted' /\ GrantUsedOnce'
  BY <1>1, <1>2, <1>4, <1>5 DEF TokensAccounted, GrantUsedOnce
<1>7. OperationTrue'
  BY <1>2, <1>4, <1>5, OperationStands
<1>8. EnrollmentTypeOK'
  BY <1>1, <1>2, <1>4 DEF EnrollmentTypeOK
<1> QED
  BY <1>4, <1>6, <1>7, <1>8, <1>2 DEF EnrollmentInv, Durable, AsksProvisioned

LEMMA ExpireStep ==
  ASSUME EnrollmentInv, NEW t \in Token, Expire(t)
  PROVE  EnrollmentInv'
<1> DEFINE s == [memory EXCEPT !.grants[t].expired = TRUE]
<1>1. /\ EnrollmentTypeOK /\ memory \in Registry /\ file = memory
      /\ TokensAccounted /\ GrantUsedOnce
  BY DEF EnrollmentInv, EnrollmentTypeOK, Durable
<1>2. /\ memory.grants[t] # None /\ memory' = s /\ file' = s
      /\ UNCHANGED << usb, image, drive, machines, issued, by, tasks, troubles >>
  BY <1>1 DEF Expire
<1>3. memory.grants[t] \in Grant
  BY <1>1, <1>2 DEF Registry, Opt
<1>4. [memory.grants[t] EXCEPT !.expired = TRUE] \in Grant
  BY <1>3 DEF Grant
<1>5. /\ s \in Registry /\ s.grants[t] # None
      /\ \A u \in Token \ {t} : s.grants[u] = memory.grants[u]
  BY <1>1, <1>4, EnrollmentAssumption DEF Registry, Opt
<1> HIDE DEF s
<1>6. \A u \in Token : /\ Spent(u)' <=> Spent(u)
                       /\ memory'.grants[u] = None <=> memory.grants[u] = None
  BY <1>2, <1>5 DEF Spent
<1>7. TokensAccounted' /\ GrantUsedOnce'
  BY <1>1, <1>2, <1>6 DEF TokensAccounted, GrantUsedOnce
<1>8. OperationTrue'
  BY <1>2, <1>6, OperationStands
<1>9. EnrollmentTypeOK'
  BY <1>1, <1>2, <1>5 DEF EnrollmentTypeOK
<1> QED
  BY <1>2, <1>7, <1>8, <1>9 DEF EnrollmentInv, Durable, AsksProvisioned

LEMMA MachineSteps ==
  ASSUME EnrollmentInv, NEW a \in Machine, Boot(a) \/ Ask(a) \/ NotEnrolled(a)
  PROVE  EnrollmentInv'
<1>1. /\ EnrollmentTypeOK
      /\ machines \in [Machine -> [conf : Opt(Provisioning), asked : 0 .. 2, id : Opt(Identity)]]
      /\ drive.conf \in Opt(Provisioning)
  BY DEF EnrollmentInv, EnrollmentTypeOK
<1>2. UNCHANGED << memory, file, usb, image, drive, issued, by, tasks, troubles >>
  BY DEF Boot, Ask, NotEnrolled
<1>3. machines' \in [Machine -> [conf : Opt(Provisioning), asked : 0 .. 2, id : Opt(Identity)]]
  <2>1. CASE Boot(a)
    BY <1>1, <2>1 DEF Boot
  <2>2. CASE Ask(a)
    <3>1. machines[a].asked + 1 \in 0 .. 2
      BY <1>1, <2>2 DEF Ask
    <3> QED BY <1>1, <2>2, <3>1 DEF Ask
  <2>3. CASE NotEnrolled(a)
    <3>1. machines[a].asked - 1 \in 0 .. 2
      BY <1>1, <2>3 DEF NotEnrolled
    <3> QED BY <1>1, <2>3, <3>1 DEF NotEnrolled
  <2> QED BY <2>1, <2>2, <2>3
<1>4. EnrollmentTypeOK'
  BY <1>1, <1>2, <1>3 DEF EnrollmentTypeOK
<1>5. AsksProvisioned'
  BY <1>1 DEF EnrollmentInv, AsksProvisioned, Boot, Ask, NotEnrolled
<1> QED
  BY <1>2, <1>4, <1>5 DEF EnrollmentInv, Durable, TokensAccounted, Spent, OperationTrue, GrantUsedOnce

LEMMA EnrollStep ==
  ASSUME EnrollmentInv, NEW a \in Machine, NEW i \in Identity, EnrollWithGrant(a, i)
  PROVE  EnrollmentInv'
<1> DEFINE c == machines[a].conf
           s == Redeemed(memory, c.token, c.name, i)
<1>1. /\ EnrollmentTypeOK /\ memory \in Registry /\ TokensAccounted /\ GrantUsedOnce
      /\ machines \in [Machine -> [conf : Opt(Provisioning), asked : 0 .. 2, id : Opt(Identity)]]
      /\ drive \in [image : Opt(Version) \cup {"damaged"}, conf : Opt(Provisioning)]
      /\ by \in [Identity -> Opt(Token) \cup {"shared"}]
  BY DEF EnrollmentInv, EnrollmentTypeOK
<1>2. /\ machines[a].asked > 0 /\ i \in Unused /\ Lets(memory, c.token, c.name)
      /\ Save(s) /\ by' = [by EXCEPT ![i] = IF Saved THEN c.token ELSE None]
      /\ \/ /\ machines' = [machines EXCEPT ![a].asked = @ - 1, ![a].id = i]
            /\ drive' = IF drive.conf = c THEN [drive EXCEPT !.conf = None] ELSE drive
         \/ machines' = [machines EXCEPT ![a].asked = @ - 1] /\ UNCHANGED drive
      /\ UNCHANGED << usb, image, issued, tasks >>
  BY DEF EnrollWithGrant
<1>3. c \in Provisioning
  <2>1. c # None
    BY <1>2 DEF EnrollmentInv, AsksProvisioned
  <2> QED BY <1>1, <2>1 DEF Opt
<1>4. c.token \in Token /\ c.name \in RigName
  BY <1>3 DEF Provisioning
<1>5. /\ s \in Registry /\ s.grants[c.token] = None
      /\ \A t \in Token \ {c.token} : s.grants[t] = memory.grants[t]
  BY <1>1, <1>4, RedeemedType DEF Redeemed, Registry
<1>6. memory.grants[c.token] # None
  <2>1. [name |-> c.name, expired |-> FALSE] \in Grant
    BY <1>4 DEF Grant
  <2> QED BY <1>2, <2>1, EnrollmentAssumption DEF Lets
<1>7. drive' \in [image : Opt(Version) \cup {"damaged"}, conf : Opt(Provisioning)]
      /\ drive'.image = drive.image
  BY <1>1, <1>2 DEF Opt
<1>8. machines' \in [Machine -> [conf : Opt(Provisioning), asked : 0 .. 2, id : Opt(Identity)]]
  <2>1. machines[a].asked - 1 \in 0 .. 2 /\ i \in Opt(Identity)
    BY <1>1, <1>2 DEF Opt
  <2> HIDE DEF c, s
  <2> QED BY <1>1, <1>2, <2>1
<1> HIDE DEF s, c
<1>9. /\ memory' \in Registry /\ file' = memory' /\ troubles' \in 0 .. MaxTroubles
      /\ Saved => memory' = s
      /\ ~Saved => memory' = memory
  BY <1>2, <1>5, SaveResult
<1>10. by[i] = None /\ \A j \in Identity \ {i} : by'[j] = by[j]
  BY <1>1, <1>2 DEF Unused
<1>11. /\ by' \in [Identity -> Opt(Token) \cup {"shared"}]
       /\ Saved => by'[i] = c.token
       /\ ~Saved => by'[i] = None
  BY <1>1, <1>2, <1>4 DEF Opt
<1>12. ~Spent(c.token) /\ c.token \in issued
  BY <1>1, <1>4, <1>6 DEF TokensAccounted
<1>13. AsksProvisioned'
  <2>1. \A b \in Machine : /\ machines'[b].conf = machines[b].conf
                            /\ machines'[b].asked <= machines[b].asked
    BY <1>1, <1>2
  <2> QED BY <1>1, <1>8, <2>1 DEF EnrollmentInv, AsksProvisioned
<1>14. CASE Saved
  <2>1. \A t \in Token : Spent(t)' <=> Spent(t) \/ t = c.token
    BY <1>4, <1>10, <1>11, <1>14, EnrollmentAssumption DEF Spent
  <2>2. TokensAccounted'
    BY <1>1, <1>2, <1>5, <1>9, <1>12, <1>14, <2>1 DEF TokensAccounted
  <2>3. GrantUsedOnce'
    <3>1. \A j \in Identity \ {i} : by'[j] # c.token
      BY <1>10, <1>12 DEF Spent
    <3> QED BY <1>1, <1>10, <1>11, <1>14, <3>1 DEF GrantUsedOnce
  <2>4. OperationTrue'
    BY <1>2, <1>5, <1>7, <1>9, <1>14, <2>1, OperationStands
  <2> QED BY <2>2, <2>3, <2>4, <1>1, <1>2, <1>7, <1>8, <1>9, <1>11, <1>13
          DEF EnrollmentInv, EnrollmentTypeOK, Durable
<1>15. CASE ~Saved
  <2>1. \A t \in Token : Spent(t)' <=> Spent(t)
    BY <1>10, <1>11, <1>15, EnrollmentAssumption DEF Spent
  <2>2. TokensAccounted' /\ GrantUsedOnce'
    BY <1>1, <1>2, <1>9, <1>10, <1>11, <1>15, <2>1, EnrollmentAssumption DEF TokensAccounted, GrantUsedOnce
  <2>3. OperationTrue'
    BY <1>2, <1>7, <1>9, <1>15, <2>1, OperationStands
  <2> QED BY <2>2, <2>3, <1>1, <1>2, <1>7, <1>8, <1>9, <1>11, <1>13
          DEF EnrollmentInv, EnrollmentTypeOK, Durable
<1> QED BY <1>14, <1>15

LEMMA CrashStep ==
  ASSUME EnrollmentInv, Crash
  PROVE  EnrollmentInv'
<1>1. /\ EnrollmentTypeOK /\ memory = file
      /\ machines \in [Machine -> [conf : Opt(Provisioning), asked : 0 .. 2, id : Opt(Identity)]]
  BY DEF EnrollmentInv, EnrollmentTypeOK, Durable
<1>2. /\ Trouble /\ memory' = file /\ usb' = NoTask
      /\ machines' = [a \in Machine |-> [machines[a] EXCEPT !.asked = 0]]
      /\ UNCHANGED << file, image, drive, issued, by, tasks >>
  BY DEF Crash
<1>3. usb' \in Operation /\ usb'.token = None /\ usb'.state = "idle" /\ usb'.at = "none"
  BY <1>2 DEF NoTask, Operation, Opt, Stage
<1>4. troubles' \in 0 .. MaxTroubles
  BY <1>1, <1>2, TroubleCounted
<1>5. machines' \in [Machine -> [conf : Opt(Provisioning), asked : 0 .. 2, id : Opt(Identity)]]
  BY <1>1, <1>2
<1>6. EnrollmentTypeOK'
  BY <1>1, <1>2, <1>3, <1>4, <1>5 DEF EnrollmentTypeOK
<1>7. OperationTrue'
  BY <1>3 DEF OperationTrue
<1>8. AsksProvisioned'
  BY <1>1, <1>2 DEF AsksProvisioned
<1> QED
  BY <1>1, <1>2, <1>6, <1>7, <1>8 DEF EnrollmentInv, Durable, TokensAccounted, Spent, GrantUsedOnce

-----------------------------------------------------------------------------

LEMMA EnrollmentInitInv == ASSUME EnrollmentInit PROVE EnrollmentInv
<1>1. /\ memory = Nobody /\ file = Nobody /\ usb = NoTask /\ issued = {}
      /\ by = [i \in Identity |-> None] /\ machines = [a \in Machine |-> Bare]
      /\ tasks = 0 /\ troubles = 0
  BY DEF EnrollmentInit
<1>2. Nobody \in Registry /\ \A t \in Token : Nobody.grants[t] = None
  BY DEF Nobody, Registry, Opt
<1>3. NoTask \in Operation /\ NoTask.token = None /\ NoTask.state = "idle" /\ NoTask.at = "none"
  BY DEF NoTask, Operation, Opt, Stage
<1>4. Bare \in [conf : Opt(Provisioning), asked : 0 .. 2, id : Opt(Identity)]
  BY DEF Bare, Opt
<1>5. image \in [manifest : Opt(Version), content : Opt(Version), digest : Opt(Version)]
  BY DEF EnrollmentInit
<1>6. drive \in [image : Opt(Version) \cup {"damaged"}, conf : Opt(Provisioning)]
  BY DEF EnrollmentInit, Blank, Opt
<1>7. EnrollmentTypeOK
  BY <1>1, <1>2, <1>3, <1>4, <1>5, <1>6, EnrollmentAssumption DEF EnrollmentTypeOK, Opt
<1>8. \A t \in Token : ~Spent(t)
  BY <1>1, EnrollmentAssumption DEF Spent
<1>9. GrantUsedOnce
  BY <1>1, EnrollmentAssumption DEF GrantUsedOnce
<1>10. AsksProvisioned
  BY <1>1 DEF AsksProvisioned, Bare
<1> QED
  BY <1>1, <1>2, <1>3, <1>7, <1>8, <1>9, <1>10
  DEF EnrollmentInv, Durable, TokensAccounted, OperationTrue

LEMMA EnrollmentStep ==
  ASSUME EnrollmentInv, [EnrollmentNext]_enrollmentVars
  PROVE  EnrollmentInv'
<1>1. CASE UNCHANGED enrollmentVars
  BY <1>1 DEF enrollmentVars, EnrollmentInv, EnrollmentTypeOK, Durable, TokensAccounted, Spent,
              OperationTrue, GrantUsedOnce, AsksProvisioned
<1> QED
  BY <1>1, BeginStep, MakeGrantStep, GetManifestStep, OperationSteps, DriveSteps, RevokeStep,
     SharedStep, DeleteRigStep, ExpireStep, MachineSteps, EnrollStep, CrashStep
  DEF EnrollmentNext

\* A one-time grant lets in one rig only, however many machines hold it, ask and ask
\* again, and whatever fails.
THEOREM GrantAdmitsOneRig == EnrollmentSpec => []GrantUsedOnce
<1>1. EnrollmentInit => EnrollmentInv
  BY EnrollmentInitInv
<1>2. EnrollmentInv /\ [EnrollmentNext]_enrollmentVars => EnrollmentInv'
  BY EnrollmentStep
<1>3. EnrollmentInv => GrantUsedOnce
  BY DEF EnrollmentInv
<1> QED
  BY <1>1, <1>2, <1>3, PTL DEF EnrollmentSpec

\* What is said of the last USB operation agrees with the drive and the grants.
THEOREM WriterTellsTheTruth == EnrollmentSpec => []WriterAndGrantAgree
<1>1. EnrollmentInit => EnrollmentInv
  BY EnrollmentInitInv
<1>2. EnrollmentInv /\ [EnrollmentNext]_enrollmentVars => EnrollmentInv'
  BY EnrollmentStep
<1>3. EnrollmentInv => WriterAndGrantAgree
  BY DEF EnrollmentInv, Durable, OperationTrue, Spent, WriterAndGrantAgree
<1> QED
  BY <1>1, <1>2, <1>3, PTL DEF EnrollmentSpec

-----------------------------------------------------------------------------
(***************************************************************************)
(* Source caches: for any number of overlapping requests and any times, in *)
(* each of the caches, no answer is older than it may be.                  *)
(***************************************************************************)
\* A value is not older than the entry's time by more than a fetch, and what the feed
\* adds; where the time runs from the start of the fetch, not at all. Only some caches
\* keep errors.
EntryFresh ==
  entry # None =>
    /\ entry.answer.of <= now /\ entry.since <= now
    /\ entry.since - entry.answer.of <= Timeout + Behind
    /\ P.from = "start" => entry.since <= entry.answer.of
    /\ ~P.errors => entry.answer.said # "nothing"

\* The feed was no older than a fetch when its time began to run.
FeedTimely ==
  feed # None =>
    feed.of <= feed.since /\ feed.since <= now /\ feed.since - feed.of <= Timeout

\* A fetch in progress has not timed out, and what it got is not older than it, but for
\* what comes from the feed.
FetchesTimely ==
  \A q \in Request :
    /\ requests[q].at # "idle" =>
         /\ requests[q].start <= now /\ now - requests[q].start <= Timeout
         /\ requests[q].had # None => entry # None
    /\ requests[q].at = "fetched" =>
         /\ requests[q].got \in Answer
         /\ requests[q].start - Behind <= requests[q].got.of /\ requests[q].got.of <= now

CacheInv == CacheTypeOK /\ EntryFresh /\ FeedTimely /\ FetchesTimely /\ AnswersAreRecent

Entries  == [answer : Answer, since : Time]
Feeds    == [of : Time, since : Time]
Fetches  == [at : {"idle", "fetching", "fetched"}, start : Time,
             got : Answer \cup {None}, had : Wholeness \cup {None}]
Replies  == [answer : Answer, time : Time, failed : BOOLEAN, had : Wholeness \cup {None}]

\* An answer a, given at a time, that is good enough.
Good(v) == /\ v.time - v.answer.of < Life + Timeout + Behind \/ (P.stale /\ v.failed)
           /\ P.from = "start" => v.time - v.answer.of < Life
           /\ P.stale /\ v.had # None => v.answer.said # "nothing"

-----------------------------------------------------------------------------

\* A cache that falls back on its old value keeps no errors and counts from the end of
\* a fetch; one that counts from the start uses no feed.
LEMMA PolicyFacts ==
  ASSUME kind \in Kind
  PROVE  /\ P.stale => ~P.errors /\ P.from # "start"
         /\ P.from = "start" => ~UsesFeed
         /\ ~UsesFeed => P.load \in {"web", "pages", "bundle"}
         /\ UsesFeed => P.load \in {"feed", "mix", "file"}
<1> DEFINE Plain == {Releases, Community, Applications, Discover, Prices, Assets, PoolStats, Bids,
                     Benchmarks}
           Joining == {DiscoverFrom("pages"), DiscoverFrom("bundle"), DiscoverFrom("feed"),
                       DiscoverFrom("mix"), DiscoverFrom("file")}
           Fine(row) == /\ row.stale => ~row.errors /\ row.from # "start"
                        /\ row.from = "start" => row.load = "web"
                        /\ row.load \in {"web", "pages", "bundle", "feed", "mix", "file"}
<1>1. P \in Plain \cup Joining
  BY DEF Kind, P, Policy
<1>2. \A row \in Joining : Fine(row)
  BY DEF DiscoverFrom, Discover
<1>3. Fine(Releases) /\ Fine(Community) /\ Fine(Applications) /\ Fine(Discover)
  BY DEF Releases, Community, Applications, Discover
<1>4. Fine(Prices) /\ Fine(Assets) /\ Fine(PoolStats) /\ Fine(Bids) /\ Fine(Benchmarks)
  BY DEF Prices, Assets, PoolStats, Bids, Benchmarks
<1>5. Fine(P)
  <2> HIDE DEF Fine, Joining
  <2> QED BY <1>1, <1>2, <1>3, <1>4
<1>6. DOMAIN Joined = {"feed", "mix", "file"}
  BY DEF Joined
<1> QED
  BY <1>5, <1>6 DEF UsesFeed

\* What the feed adds is a number, and nothing where it is not used.
LEMMA BehindFacts ==
  ASSUME kind \in Kind
  PROVE  Behind \in Nat /\ (UsesFeed => Behind = FeedLife + Timeout) /\ (~UsesFeed => Behind = 0)
BY CacheAssumption DEF Behind

\* A good answer keeps the answers good.
LEMMA Replied ==
  ASSUME CacheInv, NEW a \in Answer, NEW failed \in BOOLEAN,
         NEW had \in Wholeness \cup {None}, Reply(a, failed, had), kind' = kind,
         Good([answer |-> a, time |-> now, failed |-> failed, had |-> had])
  PROVE  returned' \in Replies \cup {None} /\ AnswersAreRecent'
<1> DEFINE v == [answer |-> a, time |-> now, failed |-> failed, had |-> had]
<1>1. now \in Time
  BY DEF CacheInv, CacheTypeOK
<1>2. v \in Replies
  BY <1>1 DEF Replies
<1>3. returned' = v /\ Good(v)
  BY DEF Reply
<1> HIDE DEF v
<1>4. P' = P /\ Behind' = Behind
  BY DEF P, Behind, UsesFeed
<1>5. AnswersAreRecent'
  BY <1>3, <1>4 DEF AnswersAreRecent, Good
<1> QED
  BY <1>2, <1>3, <1>5

LEMMA AskStep ==
  ASSUME CacheInv, NEW q \in Request, AskFor(q)
  PROVE  CacheInv'
<1> USE CacheAssumption DEF Time
<1>1. /\ kind \in Kind /\ now \in Time /\ now \in Int
      /\ entry \in Entries \cup {None} /\ requests \in [Request -> Fetches]
      /\ feed \in Feeds \cup {None}
      /\ returned \in Replies \cup {None} /\ holder \in Request \cup {None}
  BY DEF CacheInv, CacheTypeOK, Entries, Feeds, Fetches, Replies
<1>2. /\ kind' = kind /\ entry' = entry /\ feed' = feed /\ now' = now
      /\ P' = P /\ Behind' = Behind
  BY DEF AskFor, P, Behind, UsesFeed
<1>3. EntryFresh' /\ FeedTimely'
  BY <1>2 DEF CacheInv, EntryFresh, FeedTimely
<1>4. CASE Unexpired /\ Reply(entry.answer, FALSE, entry.answer.said) /\ UNCHANGED << requests, holder >>
  <2>1. entry \in Entries /\ now - entry.since < Life
    BY <1>1, <1>4 DEF Unexpired
  <2>2. /\ entry.answer \in Answer /\ entry.since \in Int /\ entry.answer.of \in Int
        /\ entry.answer.said \in Wholeness
    BY <2>1 DEF Entries, Answer
  <2>3. /\ entry.since - entry.answer.of <= Timeout + Behind
        /\ P.from = "start" => entry.since <= entry.answer.of
        /\ ~P.errors => entry.answer.said # "nothing"
    BY <1>4 DEF CacheInv, EntryFresh, Unexpired
  <2>4. (P.stale => ~P.errors) /\ Behind \in Nat
    BY <1>1, PolicyFacts, BehindFacts
  <2>5. now - entry.answer.of < Life + Timeout + Behind
    BY <1>1, <2>1, <2>2, <2>3, <2>4
  <2>6. P.from = "start" => now - entry.answer.of < Life
    BY <1>1, <2>1, <2>2, <2>3
  <2>7. P.stale => entry.answer.said # "nothing"
    BY <2>3, <2>4
  <2>8. Good([answer |-> entry.answer, time |-> now, failed |-> FALSE, had |-> entry.answer.said])
    BY <2>5, <2>6, <2>7 DEF Good
  <2>9. returned' \in Replies \cup {None} /\ AnswersAreRecent'
    BY <1>2, <1>4, <2>2, <2>8, Replied
  <2>10. CacheTypeOK'
    BY <1>1, <1>2, <1>4, <2>9 DEF CacheTypeOK, Entries, Feeds, Fetches, Replies
  <2>11. FetchesTimely'
    BY <1>2, <1>4 DEF CacheInv, FetchesTimely
  <2> QED
    BY <1>3, <2>9, <2>10, <2>11 DEF CacheInv
<1>5. CASE /\ requests' = [requests EXCEPT ![q] =
                           [at |-> "fetching", start |-> now, got |-> None,
                            had |-> IF entry = None THEN None ELSE entry.answer.said]]
           /\ holder' = IF P.held THEN q ELSE None
           /\ UNCHANGED returned
  <2> DEFINE h == IF entry = None THEN None ELSE entry.answer.said
             f == [at |-> "fetching", start |-> now, got |-> None, had |-> h]
  <2>0. h \in Wholeness \cup {None} /\ (h # None => entry # None)
    BY <1>1 DEF Entries, Answer
  <2> HIDE DEF h
  <2>1. f \in Fetches /\ f.at = "fetching" /\ f.start = now /\ f.had = h
    BY <1>1, <2>0 DEF Fetches
  <2>2. requests' = [requests EXCEPT ![q] = f]
    BY <1>5 DEF h
  <2> HIDE DEF f
  <2>3. requests' \in [Request -> Fetches]
    BY <1>1, <2>1, <2>2
  <2>4. holder' \in Request \cup {None}
    BY <1>5
  <2>5. CacheTypeOK'
    BY <1>1, <1>2, <1>5, <2>3, <2>4 DEF CacheTypeOK, Entries, Feeds, Fetches, Replies
  <2>6. FetchesTimely'
    <3>1. \A p \in Request \ {q} : requests'[p] = requests[p]
      BY <1>1, <2>2
    <3>2. requests'[q] = f
      BY <1>1, <2>2
    <3>3. FetchesTimely
      BY DEF CacheInv
    <3>4. now - now <= Timeout /\ now <= now
      BY <1>1
    <3> QED
      BY <1>2, <2>0, <2>1, <3>1, <3>2, <3>3, <3>4 DEF FetchesTimely
  <2>7. AnswersAreRecent'
    BY <1>2, <1>5 DEF CacheInv, AnswersAreRecent
  <2> QED
    BY <1>3, <2>5, <2>6, <2>7 DEF CacheInv
<1> QED
  BY <1>4, <1>5 DEF AskFor

\* What the feed tells a load is no older than the load, the feed's life and a fetch.
LEMMA MarketAnswers ==
  ASSUME CacheInv, UsesFeed, NEW t \in Time, t <= now, now - t <= Timeout, NEW m \in Answer, Market(t, m)
  PROVE  /\ t - Behind <= m.of /\ m.of <= now
         /\ feed' \in Feeds \cup {None}
         /\ feed' # None =>
              feed'.of <= feed'.since /\ feed'.since <= now /\ feed'.since - feed'.of <= Timeout
<1> USE CacheAssumption DEF Time
<1>1. /\ now \in Nat /\ now \in Time /\ feed \in Feeds \cup {None} /\ FeedTimely
      /\ Behind = FeedLife + Timeout
  BY BehindFacts DEF CacheInv, CacheTypeOK, Feeds
<1>2. CASE FeedFresh /\ m = [of |-> feed.of, said |-> "whole"] /\ UNCHANGED feed
  <2>1. /\ feed \in Feeds /\ feed.of \in Nat /\ feed.since \in Nat /\ m.of = feed.of
        /\ now - feed.since < FeedLife /\ feed.of <= feed.since /\ feed.since <= now
        /\ feed.since - feed.of <= Timeout
    BY <1>1, <1>2 DEF FeedFresh, Feeds, FeedTimely
  <2>2. FeedLife \in Nat /\ Timeout \in Nat /\ t \in Nat
    OBVIOUS
  <2>3. t - Behind <= feed.of /\ feed.of <= now
    BY <1>1, <2>1, <2>2
  <2> QED BY <1>1, <1>2, <2>1, <2>3
<1>3. CASE /\ m.of \in t .. now
           /\ feed' = [of |-> m.of, since |-> now]
  <2>1. m.of \in Nat /\ t <= m.of /\ m.of <= now /\ feed'.of = m.of /\ feed'.since = now
    BY <1>1, <1>3 DEF Answer
  <2>2. feed' \in Feeds
    BY <1>1, <1>3 DEF Answer, Feeds
  <2> QED BY <1>1, <2>1, <2>2
<1>4. CASE UNCHANGED feed /\ m = [of |-> now, said |-> IF feed = None THEN "nothing" ELSE "older"]
  <2>1. m.of = now
    BY <1>4
  <2> QED BY <1>1, <1>4, <2>1 DEF FeedTimely
<1> QED BY <1>2, <1>3, <1>4 DEF Market

LEMMA SourceStep ==
  ASSUME CacheInv, NEW q \in Request, SourceAnswers(q)
  PROVE  CacheInv'
<1> USE CacheAssumption DEF Time
<1>1. /\ kind \in Kind /\ now \in Time
      /\ entry \in Entries \cup {None} /\ requests \in [Request -> Fetches]
      /\ feed \in Feeds \cup {None}
      /\ returned \in Replies \cup {None} /\ holder \in Request \cup {None}
  BY DEF CacheInv, CacheTypeOK, Entries, Feeds, Fetches, Replies
<1>2. /\ kind' = kind /\ entry' = entry /\ now' = now /\ holder' = holder /\ returned' = returned
      /\ P' = P /\ Behind' = Behind
  BY DEF SourceAnswers, P, Behind, UsesFeed
<1>3. /\ requests[q].at = "fetching" /\ requests[q].start \in Time
      /\ requests[q].start <= now /\ now - requests[q].start <= Timeout
      /\ requests[q].had # None => entry # None
  BY <1>1 DEF SourceAnswers, CacheInv, FetchesTimely, Fetches
<1>4. PICK a \in Answer :
        /\ Fetched(q, a) /\ requests[q].start - Behind <= a.of /\ a.of <= now
        /\ feed' \in Feeds \cup {None} /\ FeedTimely'
  <2>1. CASE /\ ~UsesFeed
             /\ \E said \in Alone[P.load] : Fetched(q, [of |-> now, said |-> said])
             /\ UNCHANGED feed
    <3>1. PICK said \in Alone[P.load] : Fetched(q, [of |-> now, said |-> said])
      BY <2>1
    <3>2. said \in Wholeness
      BY <1>1, <2>1, <3>1, PolicyFacts DEF Alone, CalcHardware, MinerAlgorithms, Wholeness
    <3>3. [of |-> now, said |-> said] \in Answer /\ [of |-> now, said |-> said].of = now
      BY <1>1, <3>2 DEF Answer
    <3>4. requests[q].start - Behind <= now
      BY <1>1, <1>3, BehindFacts
    <3>5. FeedTimely'
      BY <1>2, <2>1 DEF CacheInv, FeedTimely
    <3> QED BY <1>1, <2>1, <3>1, <3>3, <3>4, <3>5
  <2>2. CASE /\ UsesFeed
             /\ \E m \in Answer : Market(requests[q].start, m) /\
                  \E said \in Joined[P.load][m.said] :
                    Fetched(q, [of |-> IF said = "whole" THEN m.of ELSE now, said |-> said])
    <3>1. PICK m \in Answer : Market(requests[q].start, m) /\
                  \E said \in Joined[P.load][m.said] :
                    Fetched(q, [of |-> IF said = "whole" THEN m.of ELSE now, said |-> said])
      BY <2>2
    <3>2. PICK said \in Joined[P.load][m.said] :
            Fetched(q, [of |-> IF said = "whole" THEN m.of ELSE now, said |-> said])
      BY <3>1
    <3>3. m.said \in {"whole", "older", "nothing"} /\ m.of \in Time
      <4>1. m = [of |-> now, said |-> IF feed = None THEN "nothing" ELSE "older"] => m.said \in {"older", "nothing"}
        OBVIOUS
      <4>2. m.said \in {"whole", "older", "nothing"}
        BY <3>1, <4>1 DEF Market
      <4> QED BY <4>2 DEF Answer
    <3>4. said \in Wholeness
      <4>1. P.load \in {"feed", "mix", "file"}
        BY <1>1, <2>2, PolicyFacts
      <4>2. CASE P.load = "feed"
        BY <3>2, <3>3, <4>2 DEF Joined, PowPrices, CalcCoins, NewListings, Wholeness
      <4>3. CASE P.load = "mix"
        BY <3>2, <3>3, <4>3 DEF Joined, PowPrices, CalcCoins, NewListings, Wholeness
      <4>4. CASE P.load = "file"
        BY <3>2, <3>3, <4>4 DEF Joined, PowPrices, CalcCoins, NewListings, Wholeness
      <4> QED BY <4>1, <4>2, <4>3, <4>4
    <3> DEFINE a == [of |-> IF said = "whole" THEN m.of ELSE now, said |-> said]
    <3>5. a \in Answer /\ a.of \in {m.of, now}
      BY <1>1, <3>3, <3>4 DEF Answer
    <3>6. /\ requests[q].start - Behind <= m.of /\ m.of <= now
          /\ feed' \in Feeds \cup {None}
          /\ feed' # None =>
               feed'.of <= feed'.since /\ feed'.since <= now /\ feed'.since - feed'.of <= Timeout
      BY <1>3, <2>2, <3>1, MarketAnswers
    <3>7. requests[q].start - Behind <= now
      BY <1>1, <1>3, BehindFacts
    <3>8. FeedTimely'
      BY <1>2, <3>6 DEF FeedTimely
    <3> HIDE DEF a
    <3>9. requests[q].start - Behind <= a.of /\ a.of <= now
      BY <1>1, <3>5, <3>6, <3>7
    <3> QED BY <3>2, <3>5, <3>6, <3>8, <3>9 DEF a
  <2> QED BY <2>1, <2>2 DEF SourceAnswers
<1>5. requests' = [requests EXCEPT ![q].at = "fetched", ![q].got = a]
  BY <1>4 DEF Fetched
<1>6. \A p \in Request \ {q} : requests'[p] = requests[p]
  BY <1>1, <1>5
<1>7. /\ requests'[q] \in Fetches
      /\ requests'[q].at = "fetched" /\ requests'[q].got = a
      /\ requests'[q].start = requests[q].start /\ requests'[q].had = requests[q].had
  BY <1>1, <1>5 DEF Fetches
<1>8. requests' \in [Request -> Fetches]
  BY <1>1, <1>5, <1>6, <1>7
<1>9. CacheTypeOK'
  BY <1>1, <1>2, <1>4, <1>8 DEF CacheTypeOK, Entries, Feeds, Fetches, Replies
<1>10. FetchesTimely'
  <2>1. FetchesTimely
    BY DEF CacheInv
  <2> QED
    BY <1>2, <1>3, <1>4, <1>6, <1>7, <2>1 DEF FetchesTimely
<1>11. EntryFresh' /\ AnswersAreRecent'
  BY <1>2 DEF CacheInv, EntryFresh, AnswersAreRecent
<1> QED
  BY <1>4, <1>9, <1>10, <1>11 DEF CacheInv

LEMMA OthersReadStep ==
  ASSUME CacheInv, OthersRead
  PROVE  CacheInv'
<1> USE CacheAssumption DEF Time
<1>1. /\ kind' = kind /\ entry' = entry /\ holder' = holder /\ requests' = requests
      /\ returned' = returned /\ now' = now /\ P' = P /\ Behind' = Behind
  BY DEF OthersRead, P, Behind, UsesFeed
<1>2. PICK t \in Time : t <= now /\ now - t <= Timeout /\ feed' = [of |-> t, since |-> now]
  BY DEF OthersRead
<1>3. now \in Time
  BY DEF CacheInv, CacheTypeOK
<1>4. feed' \in Feeds /\ feed'.of = t /\ feed'.since = now
  BY <1>2, <1>3 DEF Feeds
<1>5. CacheTypeOK'
  BY <1>1, <1>4 DEF CacheInv, CacheTypeOK, Feeds
<1>6. FeedTimely'
  BY <1>1, <1>2, <1>3, <1>4 DEF FeedTimely
<1>7. EntryFresh' /\ FetchesTimely' /\ AnswersAreRecent'
  BY <1>1 DEF CacheInv, EntryFresh, FetchesTimely, AnswersAreRecent
<1> QED
  BY <1>5, <1>6, <1>7 DEF CacheInv

LEMMA KeepStep ==
  ASSUME CacheInv, NEW q \in Request, Keep(q)
  PROVE  CacheInv'
<1> DEFINE a == requests[q].got
           was == requests[q]
           failed == a.said = "nothing"
           reply == IF failed /\ P.stale /\ entry # None THEN entry.answer ELSE a
<1> USE CacheAssumption DEF Time
<1>1. /\ kind \in Kind /\ now \in Time /\ now \in Int
      /\ entry \in Entries \cup {None} /\ requests \in [Request -> Fetches]
      /\ feed \in Feeds \cup {None}
      /\ returned \in Replies \cup {None} /\ holder \in Request \cup {None}
  BY DEF CacheInv, CacheTypeOK, Entries, Feeds, Fetches, Replies
<1>2. kind' = kind /\ feed' = feed /\ now' = now /\ P' = P /\ Behind' = Behind
  BY DEF Keep, P, Behind, UsesFeed
<1>3. /\ was.at = "fetched"
      /\ IF ~failed \/ P.errors THEN entry' = [answer |-> a, since |-> Since(q)] ELSE entry' = entry
      /\ Reply(reply, failed, was.had)
      /\ requests' = [requests EXCEPT ![q] = Idle]
      /\ holder' = IF P.held THEN None ELSE holder
  BY DEF Keep
<1>4. /\ a \in Answer /\ was.start - Behind <= a.of /\ a.of <= now
      /\ was.start <= now /\ now - was.start <= Timeout
      /\ was.had # None => entry # None
  BY <1>3 DEF CacheInv, FetchesTimely
<1>5. /\ a.of \in Int /\ was.start \in Time /\ was.start \in Int
      /\ was.had \in Wholeness \cup {None} /\ failed \in BOOLEAN
  BY <1>1, <1>4 DEF Answer, Fetches
<1>6. Since(q) \in Time /\ Since(q) \in Int /\ (P.from = "start" => Since(q) = was.start)
      /\ (P.from # "start" => Since(q) = now)
  BY <1>1, <1>5 DEF Since
<1>7. /\ P.stale => ~P.errors /\ P.from # "start"
      /\ Behind \in Nat /\ (P.from = "start" => Behind = 0)
  BY <1>1, PolicyFacts, BehindFacts
<1> HIDE DEF a, was
<1>8. entry' \in Entries \cup {None} /\ EntryFresh' /\ (entry # None => entry' # None)
  <2>1. CASE ~failed \/ P.errors
    <3>1. entry' = [answer |-> a, since |-> Since(q)]
      BY <1>3, <2>1
    <3>2. entry' \in Entries
      BY <1>4, <1>6, <3>1 DEF Entries
    <3>3. entry'.answer = a /\ entry'.since = Since(q)
      BY <3>1
    <3>4. /\ Since(q) <= now /\ Since(q) - a.of <= Timeout + Behind
          /\ P.from = "start" => Since(q) <= a.of
      BY <1>1, <1>4, <1>5, <1>6, <1>7
    <3>5. ~P.errors => a.said # "nothing"
      BY <2>1
    <3>6. EntryFresh'
      BY <1>2, <1>4, <3>3, <3>4, <3>5 DEF EntryFresh
    <3>7. entry' # None
      BY <3>2 DEF Entries
    <3> QED BY <3>2, <3>6, <3>7
  <2>2. CASE ~(~failed \/ P.errors)
    <3>1. entry' = entry
      BY <1>3, <2>2
    <3> QED BY <1>1, <1>2, <3>1 DEF CacheInv, EntryFresh
  <2> QED BY <2>1, <2>2
<1>9. returned' \in Replies \cup {None} /\ AnswersAreRecent'
  <2>1. CASE failed /\ P.stale /\ entry # None
    <3>1. reply = entry.answer
      BY <2>1
    <3>2. entry \in Entries
      BY <1>1, <2>1
    <3>3. entry.answer \in Answer /\ entry.answer.said # "nothing"
      BY <1>7, <2>1, <3>2 DEF CacheInv, EntryFresh, Entries
    <3>4. Good([answer |-> reply, time |-> now, failed |-> failed, had |-> was.had])
      BY <1>7, <2>1, <3>1, <3>3 DEF Good
    <3> HIDE DEF reply, failed
    <3> QED
      BY <1>2, <1>3, <1>5, <3>1, <3>3, <3>4, Replied
  <2>2. CASE ~(failed /\ P.stale /\ entry # None)
    <3>1. reply = a
      BY <2>2
    <3>2. now - a.of < Life + Timeout + Behind /\ (P.from = "start" => now - a.of < Life)
      BY <1>1, <1>4, <1>5, <1>7
    <3>3. P.stale /\ was.had # None => a.said # "nothing"
      BY <1>4, <2>2
    <3>4. Good([answer |-> reply, time |-> now, failed |-> failed, had |-> was.had])
      BY <3>1, <3>2, <3>3 DEF Good
    <3> HIDE DEF reply, failed
    <3> QED
      BY <1>2, <1>3, <1>4, <1>5, <3>1, <3>4, Replied
  <2> QED BY <2>1, <2>2
<1>10. requests' \in [Request -> Fetches] /\ holder' \in Request \cup {None}
  <2>1. Idle \in Fetches
    BY DEF Idle, Fetches
  <2> QED BY <1>1, <1>3, <2>1
<1>11. FetchesTimely'
  <2>1. \A p \in Request \ {q} : requests'[p] = requests[p]
    BY <1>1, <1>3
  <2>2. requests'[q].at = "idle"
    BY <1>1, <1>3 DEF Idle
  <2> QED
    BY <1>2, <1>8, <2>1, <2>2 DEF CacheInv, FetchesTimely
<1>12. CacheTypeOK' /\ FeedTimely'
  BY <1>1, <1>2, <1>8, <1>9, <1>10
     DEF CacheTypeOK, Entries, Feeds, Fetches, Replies, CacheInv, FeedTimely
<1> QED
  BY <1>8, <1>9, <1>11, <1>12 DEF CacheInv

LEMMA TickStep ==
  ASSUME CacheInv, Tick
  PROVE  CacheInv'
<1> USE CacheAssumption DEF Time
<1>1. /\ now \in Time /\ now \in Int /\ LastTime \in Int /\ kind \in Kind
      /\ entry \in Entries \cup {None} /\ requests \in [Request -> Fetches]
      /\ feed \in Feeds \cup {None}
  BY DEF CacheInv, CacheTypeOK, Entries, Feeds, Fetches
<1>2. /\ now < LastTime /\ now' = now + 1
      /\ \A q \in Request : requests[q].at # "idle" => now - requests[q].start < Timeout
      /\ UNCHANGED << kind, entry, feed, holder, requests, returned >>
  BY DEF Tick
<1>3. now' \in Time /\ P' = P /\ Behind' = Behind /\ Behind \in Nat
  BY <1>1, <1>2, BehindFacts DEF P, Behind, UsesFeed
<1>4. CacheTypeOK'
  BY <1>2, <1>3 DEF CacheInv, CacheTypeOK
<1>5. EntryFresh' /\ FeedTimely'
  <2>1. entry # None => entry.answer.of \in Int /\ entry.since \in Int
    BY <1>1 DEF Entries, Answer
  <2>2. EntryFresh'
    BY <1>1, <1>2, <1>3, <2>1 DEF CacheInv, EntryFresh
  <2>3. feed # None => feed.of \in Int /\ feed.since \in Int
    BY <1>1 DEF Feeds
  <2>4. FeedTimely'
    BY <1>1, <1>2, <2>3 DEF CacheInv, FeedTimely
  <2> QED BY <2>2, <2>4
<1>6. FetchesTimely'
  <2>1. \A q \in Request : requests[q].start \in Int /\
          (requests[q].got \in Answer => requests[q].got.of \in Int)
    BY <1>1 DEF Fetches, Answer
  <2> QED BY <1>1, <1>2, <1>3, <2>1 DEF CacheInv, FetchesTimely
<1>7. AnswersAreRecent'
  BY <1>2, <1>3 DEF CacheInv, AnswersAreRecent
<1> QED
  BY <1>4, <1>5, <1>6, <1>7 DEF CacheInv

LEMMA CacheInitInv == ASSUME CacheInit PROVE CacheInv
<1>1. Idle \in Fetches /\ Idle.at = "idle"
  BY CacheAssumption DEF Idle, Fetches, Time
<1>2. (\A q \in Request : requests[q] = Idle) /\ returned = None
  BY DEF CacheInit
<1>3. CacheTypeOK
  BY <1>1, CacheAssumption DEF CacheInit, CacheTypeOK, Fetches, Time
<1>4. FetchesTimely
  BY <1>1, <1>2 DEF FetchesTimely
<1>5. EntryFresh /\ FeedTimely /\ AnswersAreRecent
  BY <1>2 DEF CacheInit, EntryFresh, FeedTimely, AnswersAreRecent
<1> QED
  BY <1>3, <1>4, <1>5 DEF CacheInv

\* Every request, answer and tick preserves the invariant.
LEMMA CacheStep == CacheInv /\ [CacheNext]_cacheVars => CacheInv'
<1>1. CASE UNCHANGED cacheVars
  BY <1>1 DEF cacheVars, CacheInv, CacheTypeOK, EntryFresh, FeedTimely, FetchesTimely, AnswersAreRecent,
              P, Behind, UsesFeed
<1> QED
  BY <1>1, AskStep, SourceStep, OthersReadStep, KeepStep, TickStep DEF CacheNext

-----------------------------------------------------------------------------

\* In every cache, whoever fetches at the same time and whichever answer arrives last,
\* no request is answered with what the source said too long ago, the market feed behind
\* three of the caches counted in and answers of failed refreshes apart; nor, where the
\* old value stands in for a failed refresh, with an error once there is one.
THEOREM EveryAnswerIsRecent == CacheSpec => []AnswersAreRecent
<1>1. CacheInit => CacheInv
  BY CacheInitInv
<1>2. CacheInv /\ [CacheNext]_cacheVars => CacheInv'
  BY CacheStep
<1>3. CacheInv => AnswersAreRecent
  BY DEF CacheInv
<1> QED
  BY <1>1, <1>2, <1>3, PTL DEF CacheSpec

-----------------------------------------------------------------------------
(***************************************************************************)
(* Updates: for any number of helpers, releases and mishaps, a controller  *)
(* that works is kept unless updates overlap.                              *)
(***************************************************************************)
Usable(v) == v \in Release /\ works[v]

OneAtATime == \A g, h \in Helper : Working(g) /\ Working(h) => g = h

\* A helper is clean only as long as no other works beside or after it.
Undisturbed == \A g, h \in Helper : helpers[h].clean /\ Working(g) => g = h

\* The service runs the installed executable.
InstalledRuns == running \in {0, server}

SomeGood == Usable(server) \/ Usable(previous)

NeedsServer   == {"stop", "discard", "backup", "back start"}
NeedsPrevious == {"remove", "replace", "amd64", "amd64 rename", "arm64", "arm64 rename",
                  "start", "health", "back", "back remove", "back rename"}
Stopped       == {"discard", "backup", "remove", "replace", "amd64", "amd64 rename",
                  "arm64", "arm64 rename", "start", "back rename", "back start"}
Replaced      == {"amd64", "amd64 rename", "arm64", "arm64 rename", "start", "health"}
GoingBack     == {"back", "back remove", "back rename", "back start"}

\* What a helper at each step relies on.
HelperSound(h) ==
  LET t == helpers[h]
  IN /\ t.at # "idle" => t.target \in Release
     /\ t.at \in NeedsServer => Usable(server)
     /\ t.at \in NeedsPrevious => Usable(previous)
     /\ t.at \in Stopped => running = 0
     /\ t.at \in Replaced => server = t.target
     /\ t.clean /\ t.at = "health" => running = t.target
     /\ t.clean /\ t.at \in GoingBack => ~works[t.target]
     /\ t.clean /\ t.at = "back remove" => running = 0
     /\ t.clean /\ t.at = "ended" => /\ Healthy
                                     /\ works[t.target] => running = t.target

Orderly == /\ OneAtATime /\ Undisturbed /\ InstalledRuns /\ SomeGood
           /\ \A h \in Helper : HelperSound(h)

UpdateInv == UpdateTypeOK /\ (overlapped \/ Orderly)

\* How the helpers change when h takes a step: the others stay where they are, and
\* nobody becomes clean.
Moves(h, step) ==
  /\ helpers' \in [Helper -> Task]
  /\ helpers'[h].at = step
  /\ \A i \in Helper : /\ helpers'[i].target = helpers[i].target
                       /\ helpers'[i].clean => helpers[i].clean
                       /\ i # h => helpers'[i].at = helpers[i].at

-----------------------------------------------------------------------------

LEMMA GoMoves ==
  ASSUME helpers \in [Helper -> Task], NEW h \in Helper, NEW step \in Step, Go(h, step)
  PROVE  Moves(h, step) /\ \A i \in Helper : helpers'[i].clean = helpers[i].clean
<1>1. helpers' \in [Helper -> Task]
  BY DEF Go, Task
<1>2. \A i \in Helper : helpers'[i] = IF i = h THEN [helpers[h] EXCEPT !.at = step]
                                      ELSE helpers[i]
  BY DEF Go
<1>3. \A i \in Helper : helpers[i] \in Task
  OBVIOUS
<1> QED BY <1>1, <1>2, <1>3 DEF Moves, Task

LEMMA MishapMoves ==
  ASSUME helpers \in [Helper -> Task], NEW h \in Helper, NEW step \in Step, Mishap(h, step)
  PROVE  Moves(h, step) /\ \A i \in Helper : ~helpers'[i].clean
<1>1. \A i \in Helper : helpers[i] \in Task
  OBVIOUS
<1>2. \A i \in Helper : helpers'[i] = [helpers[i] EXCEPT !.clean = FALSE,
                                         !.at = IF i = h THEN step ELSE @]
  BY DEF Mishap
<1>3. helpers' = [i \in Helper |-> helpers'[i]] /\ \A i \in Helper : helpers'[i] \in Task
  BY <1>1, <1>2 DEF Mishap, Task
<1>4. helpers' \in [Helper -> Task]
  BY <1>3
<1> QED BY <1>1, <1>2, <1>4 DEF Moves, Task

LEMMA MishapCounted ==
  ASSUME mishaps \in 0 .. MaxMishaps, NEW h, NEW step, Mishap(h, step)
  PROVE  mishaps' \in 0 .. MaxMishaps
<1>1. mishaps < MaxMishaps /\ mishaps' = mishaps + 1
  BY DEF Mishap
<1> QED BY <1>1, UpdateAssumption

\* A step of the only helper that works leaves the others sound.
LEMMA OthersSound ==
  ASSUME UpdateTypeOK, Orderly, NEW h \in Helper, NEW step \in Step, Working(h),
         Moves(h, step)
  PROVE  /\ OneAtATime' /\ Undisturbed'
         /\ \A i \in Helper \ {h} : HelperSound(i)'
<1>1. \A i \in Helper \ {h} : helpers[i].at \in {"idle", "ended"} /\ ~helpers[i].clean
  BY DEF Orderly, OneAtATime, Undisturbed, Working
<1>2. \A i \in Helper \ {h} : /\ helpers'[i].at \in {"idle", "ended"} /\ ~helpers'[i].clean
                              /\ helpers'[i].at = helpers[i].at
                              /\ helpers'[i].target = helpers[i].target
  BY <1>1 DEF Moves
<1>3. \A i \in Helper \ {h} : ~Working(i)'
  BY <1>2 DEF Working
<1>4. OneAtATime' /\ Undisturbed'
  BY <1>2, <1>3 DEF OneAtATime, Undisturbed
<1>5. \A i \in Helper \ {h} : helpers[i].at # "idle" => helpers[i].target \in Release
  BY DEF Orderly, HelperSound
<1>6. ASSUME NEW i \in Helper \ {h} PROVE HelperSound(i)'
  BY <1>2, <1>5, <1>6 DEF HelperSound, NeedsServer, NeedsPrevious, Stopped, Replaced, GoingBack
<1> QED BY <1>4, <1>6

\* A step of a helper: what is left to show of it.
LEMMA HelperStep ==
  ASSUME UpdateTypeOK, Orderly, NEW h \in Helper, NEW step \in Step, Working(h),
         Moves(h, step), HelperSound(h)', InstalledRuns', SomeGood'
  PROVE  Orderly'
BY OthersSound DEF Orderly

-----------------------------------------------------------------------------
(* The steps of an update that does not overlap another. *)

LEMMA InstallStep ==
  ASSUME UpdateTypeOK, Orderly, NEW h \in Helper, NEW v \in Release, InstallUpdate(h, v),
         ~overlapped'
  PROVE  Orderly'
<1>1. /\ Healthy /\ \A i \in Helper : ~Working(i)
      /\ helpers' = [i \in Helper |-> IF i = h
                       THEN [at |-> "stop", target |-> v, clean |-> TRUE]
                       ELSE [helpers[i] EXCEPT !.clean = FALSE]]
      /\ UNCHANGED << works, server, previous, agents, running, mishaps >>
  BY DEF InstallUpdate
<1>2. helpers \in [Helper -> Task]
  BY DEF UpdateTypeOK
<1>3. helpers'[h].at = "stop" /\ helpers'[h].target = v
  BY <1>1
<1>4. \A i \in Helper \ {h} : /\ helpers'[i].at = helpers[i].at
                              /\ helpers'[i].target = helpers[i].target
                              /\ ~helpers'[i].clean
  BY <1>1, <1>2 DEF Task
<1>5. \A i \in Helper \ {h} : helpers[i].at \in {"idle", "ended"}
  BY <1>1 DEF Working
<1>6. Usable(server)
  BY <1>1 DEF Orderly, InstalledRuns, Healthy, Usable, UpdateTypeOK, File, Release
<1>7. OneAtATime' /\ Undisturbed'
  BY <1>4, <1>5 DEF OneAtATime, Undisturbed, Working
<1>8. InstalledRuns' /\ SomeGood'
  BY <1>1, <1>6 DEF Orderly, InstalledRuns, SomeGood, Usable
<1>9. HelperSound(h)'
  BY <1>1, <1>3, <1>6 DEF HelperSound, Usable, NeedsServer, NeedsPrevious, Stopped, Replaced, GoingBack
<1>10. ASSUME NEW i \in Helper \ {h} PROVE HelperSound(i)'
  <2>1. helpers[i].at # "idle" => helpers[i].target \in Release
    BY DEF Orderly, HelperSound
  <2>2. helpers'[i].at \in {"idle", "ended"} /\ ~helpers'[i].clean
    BY <1>4, <1>5
  <2> QED BY <1>4, <2>1, <2>2 DEF HelperSound, NeedsServer, NeedsPrevious, Stopped, Replaced, GoingBack
<1> QED BY <1>7, <1>8, <1>9, <1>10 DEF Orderly

\* A step in which a helper ends early or goes on to roll back keeps what is there; nobody
\* is clean any more.
LEMMA MishapStep ==
  ASSUME UpdateTypeOK, Orderly, NEW h \in Helper, NEW step \in {"ended", "back", "back remove"},
         Working(h), Mishap(h, step), UNCHANGED << works, server, previous >>,
         running' \in {0, running}, step # "ended" => helpers[h].at \in NeedsPrevious
  PROVE  Orderly'
<1>1. /\ Moves(h, step) /\ ~helpers'[h].clean
  BY MishapMoves DEF UpdateTypeOK, Step
<1>2. /\ helpers[h].target \in Release
      /\ helpers[h].at \in NeedsPrevious => Usable(previous)
  BY DEF Orderly, HelperSound, Working
<1>3. HelperSound(h)'
  BY <1>1, <1>2 DEF HelperSound, Moves, Usable, NeedsServer, NeedsPrevious, Stopped, Replaced, GoingBack
<1>4. InstalledRuns' /\ SomeGood'
  BY DEF Orderly, InstalledRuns, SomeGood, Usable
<1> QED BY <1>1, <1>3, <1>4, HelperStep DEF Step

\* What is known of a helper at a step, in terms of the step.
LEMMA AtStep ==
  ASSUME UpdateTypeOK, Orderly, NEW h \in Helper, Working(h)
  PROVE  /\ helpers[h] \in Task /\ helpers[h].target \in Release /\ helpers[h].target # 0
         /\ HelperSound(h) /\ InstalledRuns /\ SomeGood
         /\ works \in [Release -> BOOLEAN] /\ server \in File /\ previous \in File
         /\ running \in File /\ helpers \in [Helper -> Task]
<1>1. helpers[h] \in Task /\ helpers[h].target \in Release
  BY DEF UpdateTypeOK, Orderly, HelperSound, Working
<1>2. helpers[h].target # 0
  BY <1>1, UpdateAssumption DEF Release
<1> QED BY <1>1, <1>2 DEF UpdateTypeOK, Orderly

LEMMA StopStep ==
  ASSUME UpdateTypeOK, Orderly, NEW h \in Helper, StopService(h)
  PROVE  Orderly'
<1>1. /\ helpers[h].at = "stop" /\ Working(h)
      /\ UNCHANGED << works, server, previous >>
  BY DEF StopService, Same, Working
<1>2. CASE running' = 0 /\ Go(h, "discard")
  <2>1. Moves(h, "discard")
    BY <1>2, GoMoves DEF UpdateTypeOK, Step
  <2>2. HelperSound(h)'
    BY <1>1, <1>2, <2>1, AtStep DEF Moves, HelperSound, Usable, NeedsServer, NeedsPrevious, Stopped, Replaced, GoingBack
  <2>3. InstalledRuns' /\ SomeGood'
    BY <1>1, <1>2, AtStep DEF InstalledRuns, SomeGood, Usable
  <2> QED BY <1>1, <2>1, <2>2, <2>3, HelperStep DEF Step
<1>3. CASE running' \in {0, running} /\ Mishap(h, "ended")
  BY <1>1, <1>3, MishapStep
<1> QED BY <1>2, <1>3 DEF StopService

LEMMA DiscardStep ==
  ASSUME UpdateTypeOK, Orderly, NEW h \in Helper, DiscardBackup(h)
  PROVE  Orderly'
<1>1. /\ helpers[h].at = "discard" /\ Working(h)
      /\ UNCHANGED << works, server, running >>
  BY DEF DiscardBackup, Same, Working
<1>2. CASE previous' = 0 /\ Go(h, "backup")
  <2>1. Moves(h, "backup")
    BY <1>2, GoMoves DEF UpdateTypeOK, Step
  <2>2. HelperSound(h)' /\ Usable(server)
    BY <1>1, <2>1, AtStep DEF Moves, HelperSound, Usable, NeedsServer, NeedsPrevious, Stopped, Replaced, GoingBack
  <2>3. InstalledRuns' /\ SomeGood'
    BY <1>1, <2>2, AtStep DEF InstalledRuns, SomeGood, Usable
  <2> QED BY <1>1, <2>1, <2>2, <2>3, HelperStep DEF Step
<1>3. CASE Mishap(h, "ended") /\ UNCHANGED previous
  BY <1>1, <1>3, MishapStep
<1> QED BY <1>2, <1>3 DEF DiscardBackup

LEMMA BackUpStep ==
  ASSUME UpdateTypeOK, Orderly, NEW h \in Helper, BackUp(h)
  PROVE  Orderly'
<1>1. /\ helpers[h].at = "backup" /\ Working(h)
      /\ UNCHANGED << works, server, running >>
  BY DEF BackUp, Same, Working
<1>2. Usable(server) /\ server # 0
  <2>1. Usable(server)
    BY <1>1, AtStep DEF HelperSound, NeedsServer
  <2> QED BY <2>1, UpdateAssumption DEF Usable, Release
<1>3. CASE previous' = server /\ Go(h, "remove")
  <2>1. Moves(h, "remove")
    BY <1>3, GoMoves DEF UpdateTypeOK, Step
  <2>2. HelperSound(h)'
    BY <1>1, <1>2, <1>3, <2>1, AtStep DEF Moves, HelperSound, Usable, NeedsServer, NeedsPrevious, Stopped, Replaced, GoingBack
  <2>3. InstalledRuns' /\ SomeGood'
    BY <1>1, <1>2, AtStep DEF InstalledRuns, SomeGood, Usable
  <2> QED BY <1>1, <2>1, <2>2, <2>3, HelperStep DEF Step
<1>4. CASE Mishap(h, "ended") /\ UNCHANGED previous
  BY <1>1, <1>4, MishapStep
<1> QED BY <1>2, <1>3, <1>4 DEF BackUp

LEMMA ReplaceSteps ==
  ASSUME UpdateTypeOK, Orderly, NEW h \in Helper, RemoveOld(h) \/ Replace(h)
  PROVE  Orderly'
<1>1. /\ helpers[h].at \in {"remove", "replace"} /\ Working(h)
      /\ UNCHANGED << works, previous, running >>
  BY DEF RemoveOld, Replace, Same, Working
<1>2. running = 0 /\ Usable(previous)
  BY <1>1, AtStep DEF HelperSound, NeedsServer, NeedsPrevious, Stopped, Replaced, GoingBack
<1>3. SomeGood' /\ InstalledRuns'
  BY <1>1, <1>2 DEF SomeGood, InstalledRuns, Usable
<1>4. CASE server' = 0 /\ Go(h, "replace")
  <2>1. Moves(h, "replace")
    BY <1>4, GoMoves DEF UpdateTypeOK, Step
  <2>2. HelperSound(h)'
    BY <1>1, <1>2, <2>1, AtStep DEF Moves, HelperSound, Usable, NeedsServer, NeedsPrevious, Stopped, Replaced, GoingBack
  <2> QED BY <1>1, <1>3, <2>1, <2>2, HelperStep DEF Step
<1>5. CASE server' = helpers[h].target /\ Go(h, "amd64")
  <2>1. Moves(h, "amd64")
    BY <1>5, GoMoves DEF UpdateTypeOK, Step
  <2>2. HelperSound(h)'
    BY <1>1, <1>2, <1>5, <2>1, AtStep DEF Moves, HelperSound, Usable, NeedsServer, NeedsPrevious, Stopped, Replaced, GoingBack
  <2> QED BY <1>1, <1>3, <2>1, <2>2, HelperStep DEF Step
<1>6. CASE Mishap(h, "ended") /\ UNCHANGED server
  BY <1>1, <1>6, MishapStep
<1> QED BY <1>2, <1>4, <1>5, <1>6 DEF RemoveOld, Replace, InUse

LEMMA PublishStep ==
  ASSUME UpdateTypeOK, Orderly, NEW h \in Helper, PublishAgents(h)
  PROVE  Orderly'
<1>1. /\ helpers[h].at \in {"amd64", "amd64 rename", "arm64", "arm64 rename"} /\ Working(h)
      /\ UNCHANGED << works, server, previous, running >>
  BY DEF PublishAgents, Same, Working, Architecture
<1>2. SomeGood' /\ InstalledRuns'
  BY <1>1, AtStep DEF SomeGood, InstalledRuns, Usable
<1>3. ASSUME NEW step \in {"amd64 rename", "arm64", "arm64 rename", "start"}, Go(h, step)
      PROVE  Orderly'
  <2>1. Moves(h, step)
    BY <1>3, GoMoves DEF UpdateTypeOK, Step
  <2>2. HelperSound(h)'
    BY <1>1, <2>1, AtStep DEF Moves, HelperSound, Usable, NeedsServer, NeedsPrevious, Stopped, Replaced, GoingBack
  <2> QED BY <1>1, <1>2, <2>1, <2>2, HelperStep DEF Step
<1>4. CASE Mishap(h, "ended")
  BY <1>1, <1>4, MishapStep
<1> QED BY <1>3, <1>4 DEF PublishAgents

LEMMA StartStep ==
  ASSUME UpdateTypeOK, Orderly, NEW h \in Helper, StartService(h)
  PROVE  Orderly'
<1>1. /\ helpers[h].at = "start" /\ Working(h)
      /\ UNCHANGED << works, server, previous >>
  BY DEF StartService, Same, Working
<1>2. /\ running = 0 /\ Usable(previous)
      /\ server = helpers[h].target /\ server # 0
  BY <1>1, AtStep DEF HelperSound, NeedsServer, NeedsPrevious, Stopped, Replaced, GoingBack
<1>3. CASE running' = server /\ Go(h, "health")
  <2>1. Moves(h, "health")
    BY <1>3, GoMoves DEF UpdateTypeOK, Step
  <2>2. HelperSound(h)'
    BY <1>1, <1>2, <1>3, <2>1, AtStep DEF Moves, HelperSound, Usable, NeedsServer, NeedsPrevious, Stopped, Replaced, GoingBack
  <2>3. InstalledRuns' /\ SomeGood'
    BY <1>1, <1>2, <1>3 DEF InstalledRuns, SomeGood, Usable
  <2> QED BY <1>1, <2>1, <2>2, <2>3, HelperStep DEF Step
<1>4. CASE Mishap(h, "back") /\ UNCHANGED running
  BY <1>1, <1>4, MishapStep DEF NeedsPrevious
<1> QED BY <1>2, <1>3, <1>4 DEF StartService

LEMMA HealthStep ==
  ASSUME UpdateTypeOK, Orderly, NEW h \in Helper, CheckHealth(h)
  PROVE  Orderly'
<1>1. /\ helpers[h].at = "health" /\ Working(h)
      /\ UNCHANGED << works, server, running >>
  BY DEF CheckHealth, Same, Working
<1>2. /\ Usable(previous) /\ running \in {0, server} /\ running \in File
      /\ helpers[h].clean => running = helpers[h].target
  BY <1>1, AtStep DEF HelperSound, InstalledRuns, NeedsServer, NeedsPrevious, Stopped, Replaced, GoingBack
<1>3. CASE Healthy /\ previous' \in {0, previous} /\ Go(h, "ended")
  <2>1. Moves(h, "ended")
    BY <1>3, GoMoves DEF UpdateTypeOK, Step
  <2>2. Usable(server)
    BY <1>2, <1>3 DEF Healthy, Usable, File, Release
  <2>3. Healthy'
    BY <1>1, <1>3 DEF Healthy
  <2>4. HelperSound(h)'
    BY <1>1, <1>2, <2>1, <2>3, AtStep DEF Moves, HelperSound, NeedsServer, NeedsPrevious, Stopped, Replaced, GoingBack
  <2>5. InstalledRuns' /\ SomeGood'
    BY <1>1, <1>2, <2>2 DEF InstalledRuns, SomeGood, Usable
  <2> QED BY <1>1, <2>1, <2>4, <2>5, HelperStep DEF Step
<1>4. CASE ~Healthy /\ Go(h, "back") /\ UNCHANGED previous
  <2>1. Moves(h, "back")
    BY <1>4, GoMoves DEF UpdateTypeOK, Step
  <2>2. helpers[h].clean => ~works[helpers[h].target]
    BY <1>2, <1>4, <1>1, AtStep DEF Healthy
  <2>3. HelperSound(h)'
    BY <1>1, <1>2, <1>4, <2>1, <2>2, AtStep DEF Moves, HelperSound, Usable, NeedsServer, NeedsPrevious, Stopped, Replaced, GoingBack
  <2>4. InstalledRuns' /\ SomeGood'
    BY <1>1, <1>2, <1>4 DEF InstalledRuns, SomeGood, Usable
  <2> QED BY <1>1, <2>1, <2>3, <2>4, HelperStep DEF Step
<1>5. CASE Mishap(h, "back") /\ UNCHANGED previous
  BY <1>1, <1>5, MishapStep DEF NeedsPrevious
<1> QED BY <1>3, <1>4, <1>5 DEF CheckHealth

LEMMA RollBackStep ==
  ASSUME UpdateTypeOK, Orderly, NEW h \in Helper, RollBack(h)
  PROVE  Orderly'
<1>1. /\ helpers[h].at \in {"back", "back remove", "back rename", "back start"} /\ Working(h)
      /\ UNCHANGED << works, previous >>
  BY DEF RollBack, Same, Working
<1>2. CASE helpers[h].at = "back"
  <2>1. Usable(previous) /\ UNCHANGED server
    BY <1>1, <1>2, AtStep DEF HelperSound, NeedsPrevious, RollBack
  <2>2. CASE running' = 0 /\ Go(h, "back remove")
    <3>1. Moves(h, "back remove")
      BY <2>2, GoMoves DEF UpdateTypeOK, Step
    <3>2. HelperSound(h)'
      BY <1>1, <1>2, <2>1, <2>2, <3>1, AtStep DEF Moves, HelperSound, Usable, NeedsServer, NeedsPrevious, Stopped, Replaced, GoingBack
    <3>3. InstalledRuns' /\ SomeGood'
      BY <1>1, <2>1, <2>2 DEF InstalledRuns, SomeGood, Usable
    <3> QED BY <1>1, <3>1, <3>2, <3>3, HelperStep DEF Step
  <2>3. CASE Mishap(h, "back remove") /\ UNCHANGED running
    BY <1>1, <1>2, <2>1, <2>3, MishapStep DEF NeedsPrevious
  <2> QED BY <1>2, <2>2, <2>3 DEF RollBack
<1>3. CASE helpers[h].at = "back remove"
  <2>1. Usable(previous) /\ previous # 0 /\ UNCHANGED running
    <3>1. Usable(previous) /\ UNCHANGED running
      BY <1>1, <1>3, AtStep DEF HelperSound, NeedsPrevious, RollBack
    <3> QED BY <3>1, UpdateAssumption DEF Usable, Release
  <2>2. CASE running = 0 /\ server' = 0 /\ Go(h, "back rename")
    <3>1. Moves(h, "back rename")
      BY <2>2, GoMoves DEF UpdateTypeOK, Step
    <3>2. HelperSound(h)'
      BY <1>1, <1>3, <2>1, <2>2, <3>1, AtStep DEF Moves, HelperSound, Usable, NeedsServer, NeedsPrevious, Stopped, Replaced, GoingBack
    <3>3. InstalledRuns' /\ SomeGood'
      BY <1>1, <2>1, <2>2 DEF InstalledRuns, SomeGood, Usable
    <3> QED BY <1>1, <3>1, <3>2, <3>3, HelperStep DEF Step
  <2>3. CASE running # 0 /\ Go(h, "ended") /\ UNCHANGED server
    <3>1. Moves(h, "ended") /\ helpers'[h].clean = helpers[h].clean
      BY <2>3, GoMoves DEF UpdateTypeOK, Step
    <3>2. ~helpers[h].clean
      BY <1>3, <2>3, AtStep, <1>1 DEF HelperSound
    <3>3. HelperSound(h)'
      BY <1>1, <1>3, <2>1, <2>3, <3>1, <3>2, AtStep DEF Moves, HelperSound, Usable, NeedsServer, NeedsPrevious, Stopped, Replaced, GoingBack
    <3>4. InstalledRuns' /\ SomeGood'
      BY <1>1, <2>1, <2>3, AtStep DEF InstalledRuns, SomeGood, Usable
    <3> QED BY <1>1, <3>1, <3>3, <3>4, HelperStep DEF Step
  <2>4. CASE Mishap(h, "ended") /\ UNCHANGED server
    BY <1>1, <2>1, <2>4, MishapStep
  <2> QED BY <1>3, <2>1, <2>2, <2>3, <2>4 DEF RollBack, InUse
<1>4. CASE helpers[h].at = "back rename"
  <2>1. Usable(previous) /\ running = 0 /\ UNCHANGED running
    BY <1>1, <1>4, AtStep DEF HelperSound, NeedsPrevious, Stopped, RollBack
  <2>2. CASE server' = previous /\ Go(h, "back start")
    <3>1. Moves(h, "back start")
      BY <2>2, GoMoves DEF UpdateTypeOK, Step
    <3>2. HelperSound(h)'
      BY <1>1, <1>4, <2>1, <2>2, <3>1, AtStep DEF Moves, HelperSound, Usable, NeedsServer, NeedsPrevious, Stopped, Replaced, GoingBack
    <3>3. InstalledRuns' /\ SomeGood'
      BY <1>1, <2>1, <2>2 DEF InstalledRuns, SomeGood, Usable
    <3> QED BY <1>1, <3>1, <3>2, <3>3, HelperStep DEF Step
  <2>3. CASE Mishap(h, "ended") /\ UNCHANGED server
    BY <1>1, <2>1, <2>3, MishapStep
  <2> QED BY <1>4, <2>2, <2>3 DEF RollBack
<1>5. CASE helpers[h].at = "back start"
  <2>1. Usable(server) /\ running = 0 /\ UNCHANGED server /\ server # 0
    <3>1. Usable(server) /\ running = 0 /\ UNCHANGED server
      BY <1>1, <1>5, AtStep DEF HelperSound, NeedsServer, Stopped, RollBack
    <3> QED BY <3>1, UpdateAssumption DEF Usable, Release
  <2>2. CASE running' = server /\ Go(h, "ended")
    <3>1. Moves(h, "ended")
      BY <2>2, GoMoves DEF UpdateTypeOK, Step
    <3>2. Healthy'
      BY <1>1, <2>1, <2>2 DEF Healthy, Usable
    <3>3. helpers[h].clean => ~works[helpers[h].target]
      BY <1>1, <1>5, AtStep DEF HelperSound, GoingBack
    <3>4. HelperSound(h)'
      BY <1>1, <1>5, <2>1, <2>2, <3>1, <3>2, <3>3, AtStep DEF Moves, HelperSound, Usable, NeedsServer, NeedsPrevious, Stopped, Replaced, GoingBack
    <3>5. InstalledRuns' /\ SomeGood'
      BY <1>1, <2>1, <2>2 DEF InstalledRuns, SomeGood, Usable
    <3> QED BY <1>1, <3>1, <3>4, <3>5, HelperStep DEF Step
  <2>3. CASE Mishap(h, "ended") /\ UNCHANGED running
    BY <1>1, <2>1, <2>3, MishapStep
  <2> QED BY <1>5, <2>1, <2>2, <2>3 DEF RollBack
<1> QED BY <1>1, <1>2, <1>3, <1>4, <1>5

LEMMA RestartStep ==
  ASSUME UpdateTypeOK, Orderly, RestartMachine
  PROVE  Orderly'
<1>1. /\ helpers' = [h \in Helper |-> [helpers[h] EXCEPT !.at = "idle", !.clean = FALSE]]
      /\ running' = server /\ UNCHANGED << works, server, previous >>
  BY DEF RestartMachine
<1>2. \A h \in Helper : helpers'[h].at = "idle" /\ ~helpers'[h].clean
  BY <1>1 DEF UpdateTypeOK, Task
<1>3. OneAtATime' /\ Undisturbed' /\ \A h \in Helper : HelperSound(h)'
  BY <1>2 DEF OneAtATime, Undisturbed, Working, HelperSound, NeedsServer, NeedsPrevious, Stopped, Replaced, GoingBack
<1>4. InstalledRuns' /\ SomeGood'
  BY <1>1 DEF Orderly, InstalledRuns, SomeGood, Usable
<1> QED BY <1>3, <1>4 DEF Orderly

LEMMA OperatorStep ==
  ASSUME UpdateTypeOK, Orderly, OperatorStart
  PROVE  Orderly'
<1>1. /\ running = 0 /\ running' = server /\ \A h \in Helper : ~Working(h)
      /\ UNCHANGED << works, server, previous, helpers >>
  BY DEF OperatorStart
<1>2. \A h \in Helper : helpers[h].at \in {"idle", "ended"} /\ HelperSound(h)
  BY <1>1 DEF Working, Orderly
<1>3. \A h \in Helper : helpers[h].at = "ended" => ~helpers[h].clean
  BY <1>1, <1>2 DEF HelperSound, Healthy
<1>4. \A h \in Helper : HelperSound(h)'
  BY <1>1, <1>2, <1>3 DEF HelperSound, NeedsServer, NeedsPrevious, Stopped, Replaced, GoingBack
<1>5. OneAtATime' /\ Undisturbed'
  BY <1>1 DEF Orderly, OneAtATime, Undisturbed, Working
<1>6. InstalledRuns' /\ SomeGood'
  BY <1>1 DEF Orderly, InstalledRuns, SomeGood, Usable
<1> QED BY <1>4, <1>5, <1>6 DEF Orderly

-----------------------------------------------------------------------------
(* The types. *)

LEMMA HelpersType ==
  ASSUME UpdateTypeOK, NEW h \in Helper,
         StopService(h) \/ DiscardBackup(h) \/ BackUp(h) \/ RemoveOld(h) \/ Replace(h)
           \/ PublishAgents(h) \/ StartService(h) \/ CheckHealth(h) \/ RollBack(h)
  PROVE  /\ helpers' \in [Helper -> Task] /\ mishaps' \in 0 .. MaxMishaps
         /\ UNCHANGED << works, overlapped >>
<1>1. \E step \in Step : \/ Go(h, step) /\ UNCHANGED mishaps
                         \/ Mishap(h, step)
  BY DEF StopService, DiscardBackup, BackUp, RemoveOld, Replace, PublishAgents, StartService,
         CheckHealth, RollBack, Step
<1>2. helpers' \in [Helper -> Task] /\ mishaps' \in 0 .. MaxMishaps
  BY <1>1, GoMoves, MishapMoves, MishapCounted DEF UpdateTypeOK, Moves
<1>3. UNCHANGED << works, overlapped >>
  BY DEF StopService, DiscardBackup, BackUp, RemoveOld, Replace, PublishAgents, StartService,
         CheckHealth, RollBack, Same
<1> QED BY <1>2, <1>3

LEMMA FilesType ==
  ASSUME UpdateTypeOK, NEW h \in Helper,
         StopService(h) \/ DiscardBackup(h) \/ BackUp(h) \/ RemoveOld(h) \/ Replace(h)
           \/ PublishAgents(h) \/ StartService(h) \/ CheckHealth(h) \/ RollBack(h)
  PROVE  /\ server' \in File /\ previous' \in File /\ running' \in File
         /\ agents' \in [Architecture -> File]
<1>1. /\ server \in File /\ previous \in File /\ running \in File /\ 0 \in File
      /\ agents \in [Architecture -> File] /\ helpers[h].target \in File
  BY UpdateAssumption DEF UpdateTypeOK, Task, File
<1>2. server' \in {0, server, previous, helpers[h].target}
  BY DEF StopService, DiscardBackup, BackUp, RemoveOld, Replace, PublishAgents, StartService,
         CheckHealth, RollBack
<1>3. previous' \in {0, server, previous}
  BY DEF StopService, DiscardBackup, BackUp, RemoveOld, Replace, PublishAgents, StartService,
         CheckHealth, RollBack
<1>4. running' \in {0, server, running}
  BY DEF StopService, DiscardBackup, BackUp, RemoveOld, Replace, PublishAgents, StartService,
         CheckHealth, RollBack
<1>5. \/ UNCHANGED agents
      \/ \E a \in Architecture, v \in {0, helpers[h].target} : agents' = [agents EXCEPT ![a] = v]
  BY DEF StopService, DiscardBackup, BackUp, RemoveOld, Replace, PublishAgents, StartService,
         CheckHealth, RollBack, Architecture
<1> QED BY <1>1, <1>2, <1>3, <1>4, <1>5

LEMMA UpdateTypeStep ==
  ASSUME UpdateTypeOK, [UpdateNext]_updateVars
  PROVE  UpdateTypeOK'
<1>1. CASE UNCHANGED updateVars
  BY <1>1 DEF UpdateTypeOK, updateVars
<1>2. ASSUME NEW h \in Helper, NEW v \in Release, InstallUpdate(h, v)
      PROVE  UpdateTypeOK'
  <2>1. /\ helpers' = [i \in Helper |-> IF i = h
                         THEN [at |-> "stop", target |-> v, clean |-> TRUE]
                         ELSE [helpers[i] EXCEPT !.clean = FALSE]]
        /\ overlapped' = (overlapped \/ \E i \in Helper : Working(i))
        /\ UNCHANGED << works, server, previous, agents, running, mishaps >>
    BY <1>2 DEF InstallUpdate
  <2>2. helpers' \in [Helper -> Task]
    <3>1. v \in File /\ {"stop"} \subseteq Step /\ helpers \in [Helper -> Task]
      BY UpdateAssumption DEF File, Release, Step, UpdateTypeOK
    <3>2. [at |-> "stop", target |-> v, clean |-> TRUE] \in Task
      BY <3>1 DEF Task
    <3>3. \A i \in Helper : [helpers[i] EXCEPT !.clean = FALSE] \in Task
      BY <3>1 DEF Task
    <3> QED BY <2>1, <3>2, <3>3
  <2>3. overlapped' \in BOOLEAN
    BY <2>1
  <2> QED BY <2>1, <2>2, <2>3 DEF UpdateTypeOK
<1>3. ASSUME NEW h \in Helper,
             StopService(h) \/ DiscardBackup(h) \/ BackUp(h) \/ RemoveOld(h) \/ Replace(h)
               \/ PublishAgents(h) \/ StartService(h) \/ CheckHealth(h) \/ RollBack(h)
      PROVE  UpdateTypeOK'
  BY <1>3, HelpersType, FilesType DEF UpdateTypeOK
<1>4. CASE RestartMachine
  <2>1. mishaps' \in 0 .. MaxMishaps
    <3>1. mishaps \in 0 .. MaxMishaps /\ mishaps < MaxMishaps /\ mishaps' = mishaps + 1
      BY <1>4 DEF RestartMachine, UpdateTypeOK
    <3> QED BY <3>1, UpdateAssumption
  <2>2. helpers' \in [Helper -> Task]
    BY <1>4 DEF RestartMachine, UpdateTypeOK, Task, Step
  <2> QED BY <1>4, <2>1, <2>2 DEF RestartMachine, UpdateTypeOK
<1>5. CASE OperatorStart
  BY <1>5 DEF OperatorStart, UpdateTypeOK
<1> QED
  BY <1>1, <1>2, <1>3, <1>4, <1>5 DEF UpdateNext

-----------------------------------------------------------------------------

LEMMA UpdateInitInv == ASSUME UpdateInit PROVE UpdateInv
<1>1. 1 \in Release /\ 1 \in File /\ 0 \in File
  BY UpdateAssumption DEF Release, File
<1>2. UpdateTypeOK
  <2>1. [at |-> "idle", target |-> 0, clean |-> FALSE] \in Task
    BY <1>1 DEF Task, Step
  <2>2. helpers \in [Helper -> Task] /\ mishaps \in 0 .. MaxMishaps
    BY <2>1, UpdateAssumption DEF UpdateInit
  <2>3. works \in [Release -> BOOLEAN]
    BY DEF UpdateInit
  <2> QED BY <1>1, <2>2, <2>3 DEF UpdateInit, UpdateTypeOK
<1>3. \A h \in Helper : helpers[h].at = "idle" /\ ~helpers[h].clean
  BY DEF UpdateInit
<1>4. OneAtATime /\ Undisturbed /\ \A h \in Helper : HelperSound(h)
  BY <1>3 DEF OneAtATime, Undisturbed, Working, HelperSound, NeedsServer, NeedsPrevious, Stopped, Replaced, GoingBack
<1>5. InstalledRuns /\ SomeGood
  BY <1>1 DEF UpdateInit, InstalledRuns, SomeGood, Usable
<1> QED BY <1>2, <1>4, <1>5 DEF UpdateInv, Orderly

LEMMA UpdateStep ==
  ASSUME UpdateInv, [UpdateNext]_updateVars
  PROVE  UpdateInv'
<1>1. UpdateTypeOK /\ UpdateTypeOK'
  BY UpdateTypeStep DEF UpdateInv
<1>2. overlapped => overlapped'
  BY DEF UpdateNext, updateVars, InstallUpdate, StopService, DiscardBackup, BackUp, RemoveOld,
         Replace, PublishAgents, StartService, CheckHealth, RollBack, Same, RestartMachine,
         OperatorStart
<1>3. ASSUME ~overlapped' PROVE Orderly'
  <2>1. Orderly
    BY <1>2, <1>3 DEF UpdateInv
  <2>2. CASE UNCHANGED updateVars
    BY <2>1, <2>2
    DEF updateVars, Orderly, OneAtATime, Undisturbed, InstalledRuns, SomeGood, HelperSound, Usable,
        Working, Healthy
  <2> QED
    BY <1>1, <1>3, <2>1, <2>2, InstallStep, StopStep, DiscardStep, BackUpStep, ReplaceSteps,
       PublishStep, StartStep, HealthStep, RollBackStep, RestartStep, OperatorStep
    DEF UpdateNext
<1> QED BY <1>1, <1>3 DEF UpdateInv

\* Every variable keeps to its values.
THEOREM UpdateTypeCorrect == UpdateSpec => []UpdateTypeOK
<1>1. UpdateInit => UpdateTypeOK
  BY UpdateInitInv DEF UpdateInv
<1>2. UpdateTypeOK /\ [UpdateNext]_updateVars => UpdateTypeOK'
  BY UpdateTypeStep
<1> QED
  BY <1>1, <1>2, PTL DEF UpdateSpec

\* While helpers do not overlap, a controller that works is installed or in the backup,
\* and an undisturbed update ends with a healthy one, however many steps of how many
\* updates fail and however often the machine restarts.
THEOREM WorkingControllerIsKept == UpdateSpec => []ControllerKept
<1>1. UpdateInit => UpdateInv
  BY UpdateInitInv
<1>2. UpdateInv /\ [UpdateNext]_updateVars => UpdateInv'
  BY UpdateStep
<1>3. UpdateInv => ControllerKept
  <2>1. SUFFICES ASSUME UpdateTypeOK, Orderly PROVE ControllerKept
    BY DEF UpdateInv, ControllerKept
  <2>2. \E v \in {server, previous} \ {0} : works[v]
    <3>1. ASSUME NEW v, Usable(v) PROVE v # 0 /\ works[v]
      BY <3>1, UpdateAssumption DEF Usable, Release
    <3> QED BY <2>1, <3>1 DEF Orderly, SomeGood
  <2>3. ASSUME NEW h \in Helper, helpers[h].at = "ended" /\ helpers[h].clean
        PROVE  /\ Healthy /\ running = server
               /\ works[helpers[h].target] => running = helpers[h].target
    BY <2>1, <2>3 DEF Orderly, HelperSound, InstalledRuns, Healthy
  <2> QED BY <2>2, <2>3 DEF ControllerKept
<1> QED
  BY <1>1, <1>2, <1>3, PTL DEF UpdateSpec

=============================================================================
