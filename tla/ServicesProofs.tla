---------------------------- MODULE ServicesProofs ----------------------------
(***************************************************************************)
(* Theorems about the parts that MCServices puts side by side, for any      *)
(* number of users, clients, workers and calls: Accounts and                *)
(* FieldSuggestions are proved here; what WebhookDeliveryProofs and         *)
(* ExplorationProofs show of the others is carried over to the behaviours   *)
(* of the whole.                                                            *)
(***************************************************************************)
EXTENDS MCServices, WebhookDeliveryProofs, WellFoundedInduction

XP == INSTANCE ExplorationProofs WITH session <- aiSession

-----------------------------------------------------------------------------
(* Accounts *)

\* A password is set with the account and never taken away; what a request waits
\* to change is there, and so is somebody who could have asked for it.
Founded ==
    /\ \A u \in User : user[u].exists <=> user[u].password >= 1
    /\ \A c \in Client :
          /\ request[c].step # "none" => \E u \in User : user[u].exists
          /\ request[c].step \in {"update", "password"} => user[request[c].user].exists

AccountsInv == A!TypeOK /\ Founded /\ A!AdministratorRemains /\ A!SessionsFollowPassword

\* The requests there can be.
Requests ==
    {A!NoRequest}
    \cup [step : {"verified"}, user : User, password : 1..MaxPassword]
    \cup [step : {"create"}, user : User, administrator : BOOLEAN]
    \cup [step : {"update"}, user : User, change : A!Change]
    \cup [step : {"password"}, user : User]

LEMMA RequestFacts ==
    ASSUME NEW r \in Requests
    PROVE  /\ r.step \in {"none", "verified", "create", "update", "password"}
           /\ r.step = "none" => r = A!NoRequest
           /\ r.step # "none" => r.user \in User /\ r # A!NoRequest
           /\ r.step = "verified" => r.password \in 1..MaxPassword
           /\ r.step = "create" => r.administrator \in BOOLEAN
           /\ r.step = "update" => r.change \in A!Change
BY DEF Requests, A!NoRequest

LEMMA AccountLimits == MaxPassword \in Nat /\ MaxPassword >= 1 /\ Nobody \notin User
BY ServicesAssumption DEF A!AccountsAssumption

LEMMA AccountTypes ==
    ASSUME A!TypeOK
    PROVE  /\ user \in [User -> A!Row]
           /\ session \in [Client -> [user : User, password : 1..MaxPassword] \cup {A!NoSession}]
           /\ request \in [Client -> Requests]
BY DEF A!TypeOK, Requests

LEMMA SessionsTyped ==
    ASSUME NEW s \in [user : User, password : 1..MaxPassword] \cup {A!NoSession}
    PROVE  s # A!NoSession => s.user \in User /\ s.password \in 1..MaxPassword
BY DEF A!NoSession

LEMMA InitAccounts == A!Init => AccountsInv
<1> SUFFICES ASSUME A!Init PROVE AccountsInv
  OBVIOUS
<1>1. A!TypeOK
  BY AccountLimits DEF A!Init, A!TypeOK, A!Row
<1>2. Founded
  BY DEF A!Init, Founded, A!NoRequest
<1>3. A!AdministratorRemains /\ A!SessionsFollowPassword
  BY DEF A!Init, A!AdministratorRemains, A!SessionsFollowPassword
<1> QED BY <1>1, <1>2, <1>3 DEF AccountsInv

\* A step that leaves the accounts alone, and of a client no session but one that
\* was there, and no request but one there is a reason for.
LEMMA AccountsKept ==
    ASSUME AccountsInv, UNCHANGED user, NEW c \in Client, NEW r \in Requests,
           request' = [request EXCEPT ![c] = r],
           \/ r = A!NoRequest
           \/ (\E u \in User : user[u].exists)
              /\ (r.step \in {"update", "password"} => user[r.user].exists)
    PROVE  Founded' /\ A!AdministratorRemains' /\ request' \in [Client -> Requests]
<1>1. request \in [Client -> Requests]
  BY AccountTypes DEF AccountsInv
<1>2. request' \in [Client -> Requests]
  BY <1>1
<1>3. A!AdministratorRemains'
  BY DEF AccountsInv, A!AdministratorRemains, A!Active
<1>4. ASSUME NEW d \in Client
      PROVE  /\ request'[d].step # "none" => \E u \in User : user[u].exists
             /\ request'[d].step \in {"update", "password"} => user[request'[d].user].exists
  <2>1. CASE d = c
    BY <2>1, <1>1 DEF A!NoRequest
  <2>2. CASE d # c
    BY <2>2, <1>1 DEF AccountsInv, Founded
  <2> QED BY <2>1, <2>2
<1>5. Founded'
  BY <1>4 DEF AccountsInv, Founded
<1> QED BY <1>2, <1>3, <1>5

LEMMA SessionsKept ==
    ASSUME AccountsInv, UNCHANGED <<user, session>>, request' \in [Client -> Requests],
           Founded', A!AdministratorRemains'
    PROVE  AccountsInv'
<1>1. A!TypeOK'
  BY DEF AccountsInv, A!TypeOK, Requests, A!Row, A!Change, A!NoSession, A!NoRequest
<1>2. A!SessionsFollowPassword'
  BY DEF AccountsInv, A!SessionsFollowPassword, A!NoSession
<1> QED BY <1>1, <1>2 DEF AccountsInv

\* The same when sessions end, or one begins with the password of its account.
LEMMA SessionsChecked ==
    ASSUME AccountsInv, UNCHANGED user, Founded', A!AdministratorRemains',
           request' \in [Client -> Requests],
           session' \in [Client -> [user : User, password : 1..MaxPassword] \cup {A!NoSession}],
           \A d \in Client : \/ session'[d] \in {session[d], A!NoSession}
                             \/ session'[d].password = user[session'[d].user].password
    PROVE  AccountsInv'
<1>1. A!TypeOK'
  BY DEF AccountsInv, A!TypeOK, Requests, A!Row, A!Change, A!NoSession, A!NoRequest
<1>2. A!SessionsFollowPassword'
  BY DEF AccountsInv, A!SessionsFollowPassword, A!NoSession
<1> QED BY <1>1, <1>2 DEF AccountsInv

\* Requests that arrive.
LEMMA AskSteps ==
    ASSUME AccountsInv, NEW c \in Client,
           \/ \E u \in User : A!Verify(c, u)
           \/ \E u \in User, a \in BOOLEAN : A!AskCreate(c, u, a)
           \/ \E u \in User, change \in A!Change : A!AskUpdate(c, u, change)
    PROVE  AccountsInv'
<1>1. A!TypeOK /\ Founded
  BY DEF AccountsInv
<1>2. PICK r : /\ r \in Requests
               /\ request' = [request EXCEPT ![c] = r]
               /\ \E u \in User : user[u].exists
               /\ r.step \in {"update", "password"} => user[r.user].exists
  <2>1. CASE \E u \in User : A!Verify(c, u)
    <3>1. PICK u \in User : A!Verify(c, u)
      BY <2>1
    <3>2. user[u].password \in 0..MaxPassword /\ user[u].password >= 1 /\ user[u].exists
      BY <3>1, <1>1, AccountTypes DEF A!Verify, A!Row, Founded
    <3>3. user[u].password \in 1..MaxPassword
      BY <3>2, AccountLimits
    <3> DEFINE r == [step |-> "verified", user |-> u, password |-> user[u].password]
    <3>4. r \in Requests /\ r.step = "verified"
      BY <3>3 DEF Requests
    <3>5. request' = [request EXCEPT ![c] = r]
      BY <3>1 DEF A!Verify
    <3> QED BY <3>2, <3>4, <3>5
  <2>2. CASE \E u \in User, a \in BOOLEAN : A!AskCreate(c, u, a)
    <3>1. PICK u \in User, a \in BOOLEAN : A!AskCreate(c, u, a)
      BY <2>2
    <3>2. \E v \in User : user[v].exists
      BY <3>1, <1>1, AccountTypes, SessionsTyped DEF A!AskCreate, A!Administers, A!Active
    <3> DEFINE r == [step |-> "create", user |-> u, administrator |-> a]
    <3>4. r \in Requests /\ r.step = "create"
      BY DEF Requests
    <3>5. request' = [request EXCEPT ![c] = r]
      BY <3>1 DEF A!AskCreate
    <3> QED BY <3>2, <3>4, <3>5
  <2>3. CASE \E u \in User, change \in A!Change : A!AskUpdate(c, u, change)
    <3>1. PICK u \in User, change \in A!Change : A!AskUpdate(c, u, change)
      BY <2>3
    <3>2. user[u].exists
      BY <3>1 DEF A!AskUpdate
    <3> DEFINE r == [step |-> "update", user |-> u, change |-> change]
    <3>4. r \in Requests /\ r.user = u
      BY DEF Requests
    <3>5. request' = [request EXCEPT ![c] = r]
      BY <3>1 DEF A!AskUpdate
    <3> QED BY <3>2, <3>4, <3>5
  <2> QED BY <2>1, <2>2, <2>3
<1>3. UNCHANGED <<user, session>>
  BY DEF A!Verify, A!AskCreate, A!AskUpdate
<1>4. Founded' /\ A!AdministratorRemains' /\ request' \in [Client -> Requests]
  BY <1>2, <1>3, AccountsKept
<1> QED BY <1>3, <1>4, SessionsKept

\* A request ends and leaves the accounts alone.
LEMMA DoneKeeps ==
    ASSUME AccountsInv, NEW c \in Client, UNCHANGED user,
           A!Done(c) \/ UNCHANGED request
    PROVE  Founded' /\ A!AdministratorRemains' /\ request' \in [Client -> Requests]
<1>1. CASE A!Done(c)
  <2>1. A!NoRequest \in Requests
    BY DEF Requests
  <2>2. request' = [request EXCEPT ![c] = A!NoRequest]
    BY <1>1 DEF A!Done
  <2> QED BY <2>1, <2>2, AccountsKept
<1>2. CASE UNCHANGED request
  BY <1>2, AccountTypes DEF AccountsInv, Founded, A!AdministratorRemains, A!Active
<1> QED BY <1>1, <1>2

LEMMA SessionSteps ==
    ASSUME AccountsInv, NEW c \in Client,
           A!CreateSession(c) \/ A!EndSession(c) \/ A!DropDisabled(c) \/ A!Abandon(c)
    PROVE  AccountsInv'
<1>1. A!TypeOK /\ UNCHANGED user
  BY DEF AccountsInv, A!CreateSession, A!EndSession, A!DropDisabled, A!Abandon
<1>2. Founded' /\ A!AdministratorRemains' /\ request' \in [Client -> Requests]
  <2>1. A!Done(c) \/ UNCHANGED request
    BY DEF A!CreateSession, A!EndSession, A!DropDisabled, A!Abandon
  <2> QED BY <1>1, <2>1, DoneKeeps
<1> DEFINE T == [user : User, password : 1..MaxPassword] \cup {A!NoSession}
<1>3. session \in [Client -> T]
  BY <1>1, AccountTypes
<1>4. PICK s \in T : /\ session' = [session EXCEPT ![c] = s]
                     /\ \/ s \in {session[c], A!NoSession}
                        \/ s.password = user[s.user].password
  <2>1. CASE A!CreateSession(c)
    <3>1. /\ request[c] \in Requests /\ request[c].step = "verified"
          /\ session' = IF A!CredentialsHold(request[c].user, request[c].password)
                        THEN [session EXCEPT ![c] = [user |-> request[c].user,
                                                     password |-> request[c].password]]
                        ELSE session
      BY <2>1, <1>1, AccountTypes DEF A!CreateSession
    <3>2. request[c].user \in User /\ request[c].password \in 1..MaxPassword
      BY <3>1, RequestFacts
    <3>3. CASE A!CredentialsHold(request[c].user, request[c].password)
      <4> DEFINE s == [user |-> request[c].user, password |-> request[c].password]
      <4>1. s \in T /\ s.password = user[s.user].password
        BY <3>2, <3>3 DEF A!CredentialsHold
      <4>2. session' = [session EXCEPT ![c] = s]
        BY <3>1, <3>3
      <4> QED BY <4>1, <4>2
    <3>4. CASE ~A!CredentialsHold(request[c].user, request[c].password)
      <4>1. session' = [session EXCEPT ![c] = session[c]]
        BY <3>1, <3>4, <1>3
      <4> QED BY <4>1, <1>3
    <3> QED BY <3>3, <3>4
  <2>2. CASE A!EndSession(c) \/ A!DropDisabled(c)
    BY <2>2 DEF A!EndSession, A!DropDisabled
  <2>3. CASE A!Abandon(c)
    <3>1. session' = [session EXCEPT ![c] = session[c]]
      BY <2>3, <1>3 DEF A!Abandon
    <3> QED BY <3>1, <1>3
  <2> QED BY <2>1, <2>2, <2>3
<1>5. session' \in [Client -> T]
  BY <1>3, <1>4
<1>6. \A d \in Client : \/ session'[d] \in {session[d], A!NoSession}
                        \/ session'[d].password = user[session'[d].user].password
  BY <1>3, <1>4
<1> QED BY <1>1, <1>2, <1>5, <1>6, SessionsChecked

LEMMA NewAccount ==
    ASSUME NEW a \in BOOLEAN
    PROVE  /\ A!New(a) \in A!Row
           /\ A!New(a).exists /\ A!New(a).enabled /\ A!New(a).password = 1
           /\ A!New(a).administrator = a
BY AccountLimits DEF A!New, A!Row

\* An account u is new or changed, and there is an enabled administrator: one that
\* there was, or u itself.
LEMMA AccountChanged ==
    ASSUME AccountsInv, NEW u \in User, NEW row \in A!Row, row.exists, row.password >= 1,
           user' = [user EXCEPT ![u] = row],
           \/ row.administrator /\ row.enabled
           \/ \E v \in User : v # u /\ A!Active(v),
           request' \in [Client -> Requests],
           \A d \in Client : request'[d] = request[d] \/ request'[d] = A!NoRequest
                             \/ request'[d].user = u,
           session' \in [Client -> [user : User, password : 1..MaxPassword] \cup {A!NoSession}],
           \A d \in Client : session'[d] # A!NoSession =>
                session'[d] = session[d] /\ (session[d].user = u => row.password = user[u].password)
    PROVE  AccountsInv'
<1>1. /\ user \in [User -> A!Row] /\ request \in [Client -> Requests]
      /\ session \in [Client -> [user : User, password : 1..MaxPassword] \cup {A!NoSession}]
      /\ Founded
  BY AccountTypes DEF AccountsInv
<1>2. user' \in [User -> A!Row] /\ user'[u] = row /\ \A v \in User : v # u => user'[v] = user[v]
  BY <1>1
<1>3. A!TypeOK'
  BY <1>2 DEF A!TypeOK, Requests, A!Row, A!Change, A!NoSession, A!NoRequest
<1>4. A!AdministratorRemains'
  <2>1. A!Active(u)' \/ \E v \in User : A!Active(v)'
    BY <1>2 DEF A!Active
  <2> QED BY <2>1 DEF A!AdministratorRemains
<1>5. Founded'
  <2>1. \A v \in User : user'[v].exists <=> user'[v].password >= 1
    BY <1>1, <1>2 DEF Founded
  <2>2. \A v \in User : user[v].exists => user'[v].exists
    BY <1>1, <1>2
  <2>3. ASSUME NEW d \in Client, request'[d].step \in {"update", "password"}
        PROVE  user'[request'[d].user].exists
    <3>1. request'[d] \in Requests /\ request'[d].step # "none"
      BY <2>3
    <3>2. request'[d].user \in User /\ request'[d] # A!NoRequest
      BY <3>1, RequestFacts
    <3>3. CASE request'[d] = request[d]
      BY <3>2, <3>3, <2>2, <2>3, <1>1 DEF Founded
    <3>4. CASE request'[d].user = u
      BY <3>4, <1>2
    <3> QED BY <3>2, <3>3, <3>4
  <2>4. \E v \in User : user'[v].exists
    BY <1>2
  <2> QED BY <2>1, <2>3, <2>4 DEF Founded
<1>6. A!SessionsFollowPassword'
  <2> SUFFICES ASSUME NEW d \in Client, session'[d] # A!NoSession
               PROVE  session'[d].password = user'[session'[d].user].password
    BY DEF A!SessionsFollowPassword, A!NoSession
  <2>1. session'[d] = session[d] /\ (session[d].user = u => row.password = user[u].password)
    OBVIOUS
  <2>2. session[d].user \in User /\ session[d].password = user[session[d].user].password
    BY <2>1, <1>1, SessionsTyped DEF AccountsInv, A!SessionsFollowPassword
  <2> QED BY <2>1, <2>2, <1>2
<1> QED BY <1>3, <1>4, <1>5, <1>6 DEF AccountsInv

\* A new account has no session yet.
LEMMA NoneBefore ==
    ASSUME AccountsInv, NEW u \in User, ~user[u].exists, NEW d \in Client,
           session[d] # A!NoSession
    PROVE  session[d].user # u
<1>1. session[d].password \in 1..MaxPassword
  BY AccountTypes, SessionsTyped DEF AccountsInv
<1>2. session[d].password = user[session[d].user].password
  BY DEF AccountsInv, A!SessionsFollowPassword
<1>3. ~(user[u].password >= 1)
  BY DEF AccountsInv, Founded
<1> QED BY <1>1, <1>2, <1>3

LEMMA SetupStep ==
    ASSUME AccountsInv, NEW c \in Client, NEW u \in User, A!Setup(c, u)
    PROVE  AccountsInv'
<1>1. /\ request \in [Client -> Requests] /\ UNCHANGED session
      /\ session \in [Client -> [user : User, password : 1..MaxPassword] \cup {A!NoSession}]
  BY AccountTypes DEF AccountsInv, A!Setup
<1>2. /\ A!New(TRUE) \in A!Row /\ A!New(TRUE).exists /\ A!New(TRUE).enabled
      /\ A!New(TRUE).password >= 1 /\ A!New(TRUE).administrator
  BY AccountLimits DEF A!New, A!Row
<1>3. user' = [user EXCEPT ![u] = A!New(TRUE)] /\ ~user[u].exists
  BY DEF A!Setup
<1> DEFINE r == [step |-> "verified", user |-> u, password |-> 1]
<1>4. r \in Requests /\ request' = [request EXCEPT ![c] = r]
  BY AccountLimits DEF Requests, A!Setup
<1>5. /\ request' \in [Client -> Requests]
      /\ \A d \in Client : request'[d] = request[d] \/ request'[d].user = u
  BY <1>1, <1>4
<1>6. \A d \in Client : session'[d] # A!NoSession =>
         session'[d] = session[d] /\ session[d].user # u
  BY <1>1, <1>3, NoneBefore
<1> HIDE DEF r
<1> QED BY <1>1, <1>2, <1>3, <1>5, <1>6, AccountChanged, ZenonT(60)

LEMMA CreateStep ==
    ASSUME AccountsInv, NEW c \in Client, A!Create(c)
    PROVE  AccountsInv'
<1> DEFINE u == request[c].user
           a == request[c].administrator
<1>1. /\ request \in [Client -> Requests] /\ UNCHANGED session
      /\ session \in [Client -> [user : User, password : 1..MaxPassword] \cup {A!NoSession}]
      /\ user \in [User -> A!Row]
  BY AccountTypes DEF AccountsInv, A!Create
<1>2. request[c] \in Requests /\ request[c].step = "create"
  BY <1>1 DEF A!Create
<1>3. u \in User /\ a \in BOOLEAN
  BY <1>2, RequestFacts
<1>4. A!Done(c)
  BY DEF A!Create
<1>5. user' = IF user[u].exists THEN user ELSE [user EXCEPT ![u] = A!New(a)]
  BY DEF A!Create
<1> HIDE DEF u, a
<1>6. CASE user[u].exists
  <2>1. UNCHANGED user
    BY <1>5, <1>6
  <2>2. Founded' /\ A!AdministratorRemains' /\ request' \in [Client -> Requests]
    BY <1>4, <2>1, DoneKeeps
  <2> QED BY <1>1, <2>1, <2>2, SessionsKept
<1>7. CASE ~user[u].exists
  <2>1. /\ A!New(a) \in A!Row /\ A!New(a).exists /\ A!New(a).password >= 1
    BY <1>3, NewAccount
  <2>2. user' = [user EXCEPT ![u] = A!New(a)]
    BY <1>5, <1>7
  <2>3. \E v \in User : v # u /\ A!Active(v)
    <3>1. \E v \in User : user[v].exists
      BY <1>2 DEF AccountsInv, Founded
    <3> QED BY <3>1, <1>7 DEF AccountsInv, A!AdministratorRemains, A!Active
  <2>4. /\ request' \in [Client -> Requests]
        /\ \A d \in Client : \/ request'[d] = request[d] \/ request'[d] = A!NoRequest
                             \/ request'[d].user = u
    BY <1>1, <1>4 DEF A!Done, Requests
  <2>5. \A d \in Client : session'[d] # A!NoSession =>
           session'[d] = session[d] /\ session[d].user # u
    BY <1>1, <1>3, <1>7, NoneBefore
  <2>6. \A d \in Client : session'[d] # A!NoSession =>
           /\ session'[d] = session[d]
           /\ session[d].user = u => A!New(a).password = user[u].password
    BY <2>5
  <2> QED BY <1>1, <1>3, <2>1, <2>2, <2>3, <2>4, <2>6, AccountChanged
<1> QED BY <1>6, <1>7

LEMMA UpdateStep ==
    ASSUME AccountsInv, NEW c \in Client, A!Update(c)
    PROVE  AccountsInv'
<1> DEFINE u == request[c].user
           change == request[c].change
           row == A!Applied(user[u], change)
<1>1. /\ request \in [Client -> Requests] /\ UNCHANGED session
      /\ session \in [Client -> [user : User, password : 1..MaxPassword] \cup {A!NoSession}]
      /\ user \in [User -> A!Row]
  BY AccountTypes DEF AccountsInv, A!Update
<1>2. request[c] \in Requests /\ request[c].step = "update"
  BY <1>1 DEF A!Update
<1>3. u \in User /\ change \in A!Change
  BY <1>2, RequestFacts
<1>4. user[u] \in A!Row /\ user[u].exists /\ user[u].password >= 1
  BY <1>1, <1>2, <1>3 DEF AccountsInv, Founded
<1>5. CASE A!LastAdministrator(u, change)
  <2>1. A!Done(c) /\ UNCHANGED user
    BY <1>5 DEF A!Update
  <2>2. Founded' /\ A!AdministratorRemains' /\ request' \in [Client -> Requests]
    BY <2>1, DoneKeeps
  <2> QED BY <1>1, <2>1, <2>2, SessionsKept
<1>6. CASE ~A!LastAdministrator(u, change)
  <2>1. /\ user' = [user EXCEPT ![u] = row]
        /\ \/ request' = [request EXCEPT ![c] = [step |-> "password", user |-> u]]
           \/ A!Done(c)
    BY <1>6 DEF A!Update
  <2>2. /\ row \in A!Row /\ row.exists /\ row.password = user[u].password
        /\ row.administrator = A!Chosen(user[u].administrator, change.administrator)
        /\ row.enabled = A!Chosen(user[u].enabled, change.enabled)
    BY <1>3, <1>4 DEF A!Applied, A!Row, A!Chosen
  <2>3. (row.administrator /\ row.enabled) \/ (\E v \in User : v # u /\ A!Active(v))
    <3>1. CASE A!Demotes(u, change)
      BY <1>6, <3>1 DEF A!LastAdministrator, A!Others
    <3>2. CASE ~A!Demotes(u, change)
      <4>1. CASE A!Active(u)
        <5>1. change.administrator # "no" /\ change.enabled # "no"
          BY <3>2, <4>1 DEF A!Demotes
        <5>2. user[u].administrator /\ user[u].enabled
          BY <4>1 DEF A!Active
        <5>3. /\ change.administrator \in {"keep", "yes", "no"}
              /\ change.enabled \in {"keep", "yes", "no"}
          BY <1>3 DEF A!Change
        <5>4. /\ A!Chosen(user[u].administrator, change.administrator)
              /\ A!Chosen(user[u].enabled, change.enabled)
          BY <5>1, <5>2, <5>3 DEF A!Chosen
        <5> QED BY <5>4, <2>2
      <4>2. CASE ~A!Active(u)
        BY <4>2, <1>3, <1>4 DEF AccountsInv, A!AdministratorRemains
      <4> QED BY <4>1, <4>2
    <3> QED BY <3>1, <3>2
  <2>4. /\ request' \in [Client -> Requests]
        /\ \A d \in Client : \/ request'[d] = request[d] \/ request'[d] = A!NoRequest
                             \/ request'[d].user = u
    <3>1. CASE request' = [request EXCEPT ![c] = [step |-> "password", user |-> u]]
      <4>1. [step |-> "password", user |-> u] \in Requests
        BY <1>3 DEF Requests
      <4> QED BY <3>1, <4>1, <1>1
    <3>2. CASE A!Done(c)
      BY <3>2, <1>1 DEF A!Done, Requests
    <3> QED BY <2>1, <3>1, <3>2
  <2>5. /\ session' \in [Client -> [user : User, password : 1..MaxPassword] \cup {A!NoSession}]
        /\ \A d \in Client : session'[d] # A!NoSession =>
              /\ session'[d] = session[d]
              /\ session[d].user = u => row.password = user[u].password
    BY <1>1, <2>2
  <2>6. row.password >= 1
    BY <2>2, <1>4
  <2> HIDE DEF u, change, row
  <2> QED BY <1>3, <2>1, <2>2, <2>3, <2>4, <2>5, <2>6, AccountChanged
<1> QED BY <1>5, <1>6

LEMMA SetPasswordStep ==
    ASSUME AccountsInv, NEW c \in Client, A!SetPassword(c)
    PROVE  AccountsInv'
<1> DEFINE u == request[c].user
           row == [user[u] EXCEPT !.password = @ + 1]
<1>1. /\ request \in [Client -> Requests]
      /\ session \in [Client -> [user : User, password : 1..MaxPassword] \cup {A!NoSession}]
      /\ user \in [User -> A!Row]
  BY AccountTypes DEF AccountsInv
<1>2. request[c] \in Requests /\ request[c].step = "password"
  BY <1>1 DEF A!SetPassword
<1>3. u \in User
  BY <1>2, RequestFacts
<1>4. user[u] \in A!Row /\ user[u].exists /\ user[u].password >= 1
  BY <1>1, <1>2, <1>3 DEF AccountsInv, Founded
<1>5. /\ user[u].password < MaxPassword /\ A!Done(c)
      /\ session' = [d \in Client |-> IF session[d].user = u THEN A!NoSession ELSE session[d]]
      /\ user' = [user EXCEPT ![u].password = @ + 1]
  BY DEF A!SetPassword
<1>6. user' = [user EXCEPT ![u] = row]
  BY <1>1, <1>3, <1>5
<1>7. /\ row \in A!Row /\ row.exists /\ row.password >= 1
      /\ row.administrator = user[u].administrator /\ row.enabled = user[u].enabled
  BY <1>4, <1>5, AccountLimits DEF A!Row
<1>8. (row.administrator /\ row.enabled) \/ (\E v \in User : v # u /\ A!Active(v))
  <2>1. CASE A!Active(u)
    BY <2>1, <1>7 DEF A!Active
  <2>2. CASE ~A!Active(u)
    BY <2>2, <1>3, <1>4 DEF AccountsInv, A!AdministratorRemains
  <2> QED BY <2>1, <2>2
<1>9. /\ request' \in [Client -> Requests]
      /\ \A d \in Client : \/ request'[d] = request[d] \/ request'[d] = A!NoRequest
                           \/ request'[d].user = u
  BY <1>1, <1>5 DEF A!Done, Requests
<1>10. /\ session' \in [Client -> [user : User, password : 1..MaxPassword] \cup {A!NoSession}]
       /\ \A d \in Client : session'[d] # A!NoSession =>
             /\ session'[d] = session[d]
             /\ session[d].user = u => row.password = user[u].password
  <2> HIDE DEF u, row
  <2> QED BY <1>1, <1>5
<1> HIDE DEF u, row
<1> QED BY <1>3, <1>6, <1>7, <1>8, <1>9, <1>10, AccountChanged

\* Every step of the accounts keeps their invariant.
LEMMA NextAccounts ==
    ASSUME AccountsInv, [A!Next]_accountVars
    PROVE  AccountsInv'
<1>1. CASE UNCHANGED accountVars
  BY <1>1 DEF accountVars, AccountsInv, A!TypeOK, Founded, A!AdministratorRemains, A!Active,
     A!SessionsFollowPassword
<1>2. CASE A!Next
  <2>1. PICK c \in Client :
           \/ \E u \in User :
                 \/ A!Setup(c, u) \/ A!Verify(c, u)
                 \/ \E a \in BOOLEAN : A!AskCreate(c, u, a)
                 \/ \E change \in A!Change : A!AskUpdate(c, u, change)
           \/ A!CreateSession(c) \/ A!EndSession(c) \/ A!DropDisabled(c)
           \/ A!Create(c) \/ A!Update(c) \/ A!SetPassword(c) \/ A!Abandon(c)
    BY <1>2 DEF A!Next
  <2>2. CASE \E u \in User : A!Setup(c, u)
    BY <2>2, SetupStep
  <2>3. CASE \/ \E u \in User : A!Verify(c, u)
             \/ \E u \in User, a \in BOOLEAN : A!AskCreate(c, u, a)
             \/ \E u \in User, change \in A!Change : A!AskUpdate(c, u, change)
    BY <2>3, AskSteps
  <2>4. CASE A!CreateSession(c) \/ A!EndSession(c) \/ A!DropDisabled(c) \/ A!Abandon(c)
    BY <2>4, SessionSteps
  <2> QED
    BY <2>1, <2>2, <2>3, <2>4, CreateStep, UpdateStep, SetPasswordStep
<1> QED BY <1>1, <1>2

-----------------------------------------------------------------------------
(* FieldSuggestions *)

LEMMA SuggestionLimits ==
    /\ MaxAttempts \in Nat /\ MaxAttempts >= 1 /\ MaxRevision \in Nat /\ MaxRevision >= 1
    /\ MaxSuggestions \in Nat /\ MaxStalls \in Nat
BY ServicesAssumption DEF S!SuggestionAssumption

\* The oldest suggestion that can be claimed is one of them.
LEMMA OldestClaimable == ASSUME S!Claimable # {} PROVE S!Min(S!Claimable) \in S!Claimable
<1> DEFINE T == S!Claimable
<1>1. T \subseteq Nat /\ T # {}
  BY SuggestionLimits DEF S!Claimable, S!Id
<1> HIDE DEF T
<1>2. PICK m \in T : \A x \in T : <<x, m>> \notin OpToRel(<, Nat)
  BY <1>1, NatLessThanWellFounded, WFMin
<1>3. \A x \in T : ~(x < m)
  BY <1>1, <1>2 DEF OpToRel
<1>4. \A x \in T : m <= x
  BY <1>1, <1>3
<1>5. \E y \in T : \A x \in T : y <= x
  BY <1>4
<1> QED BY <1>5 DEF S!Min, T

LEMMA InitSuggestions == S!Init => S!TypeOK
<1> SUFFICES ASSUME S!Init PROVE S!TypeOK
  OBVIOUS
<1> USE SuggestionLimits DEF S!Init
<1>1. collection \in [revision : 1..MaxRevision, archived : BOOLEAN] /\ stalls \in 0..MaxStalls
  OBVIOUS
<1>2. /\ suggestion \in [S!Id -> S!Row]
      /\ worker \in [Worker -> [suggestion : S!Id, attempt : 1..MaxAttempts] \cup {Idle}]
  BY DEF S!Row
<1> QED BY <1>1, <1>2 DEF S!TypeOK

LEMMA ClaimSuggestion ==
    ASSUME S!TypeOK, NEW w \in Worker, S!Claim(w)
    PROVE  S!TypeOK'
<1> DEFINE s == S!Min(S!Claimable)
<1>1. s \in S!Id /\ suggestion[s] \in S!Row
  BY OldestClaimable DEF S!Claim, S!Claimable, S!TypeOK
<1>2. CASE S!UsedUp(s)
  <2>1. suggestion' = [suggestion EXCEPT ![s].status = "failed"] /\ UNCHANGED worker
    BY <1>2 DEF S!Claim
  <2>2. suggestion' \in [S!Id -> S!Row]
    BY <1>1, <2>1 DEF S!TypeOK, S!Row
  <2> QED BY <2>1, <2>2 DEF S!TypeOK, S!Claim
<1>3. CASE ~S!UsedUp(s)
  <2>1. /\ suggestion' = [suggestion EXCEPT ![s].status = "running", ![s].attempt = @ + 1,
                                            ![s].lease = "live"]
        /\ worker' = [worker EXCEPT ![w] = [suggestion |-> s,
                                            attempt |-> suggestion[s].attempt + 1]]
    BY <1>3 DEF S!Claim
  <2>2. suggestion[s].attempt + 1 \in 1..MaxAttempts
    BY <1>1, <1>3, SuggestionLimits DEF S!UsedUp, S!Row
  <2>3. [suggestion[s] EXCEPT !.status = "running", !.attempt = @ + 1, !.lease = "live"] \in S!Row
    <3> HIDE DEF s
    <3>1. suggestion[s].attempt + 1 \in 0..MaxAttempts
      BY <2>2, SuggestionLimits
    <3> QED BY <1>1, <3>1 DEF S!Row
  <2>4. suggestion' = [suggestion EXCEPT ![s] = [suggestion[s] EXCEPT
                          !.status = "running", !.attempt = @ + 1, !.lease = "live"]]
    BY <2>1, <1>1 DEF S!TypeOK
  <2>5. suggestion' \in [S!Id -> S!Row]
    BY <1>1, <2>3, <2>4 DEF S!TypeOK
  <2>6. worker' \in [Worker -> [suggestion : S!Id, attempt : 1..MaxAttempts] \cup {Idle}]
    <3> HIDE DEF s
    <3> QED BY <1>1, <2>1, <2>2 DEF S!TypeOK
  <2> QED BY <2>5, <2>6 DEF S!TypeOK, S!Claim
<1> QED BY <1>2, <1>3

LEMMA AnswerSuggestion ==
    ASSUME S!TypeOK, NEW w \in Worker, NEW status \in {"succeeded", "failed"},
           S!Answer(w, status)
    PROVE  S!TypeOK'
<1> DEFINE held == worker[w]
           row  == [suggestion[held.suggestion] EXCEPT
                      !.status = status, !.lease = "none",
                      !.answer = IF status = "succeeded" THEN held.attempt ELSE 0]
<1>1. held.suggestion \in S!Id /\ held.attempt \in 1..MaxAttempts
  BY DEF S!Answer, S!TypeOK
<1>2. row \in S!Row
  <2>1. suggestion[held.suggestion] \in S!Row
    BY <1>1 DEF S!TypeOK
  <2>2. (IF status = "succeeded" THEN held.attempt ELSE 0) \in 0..MaxAttempts
    BY <1>1, SuggestionLimits
  <2>3. status \in {"absent", "queued", "running", "succeeded", "failed"}
    OBVIOUS
  <2> QED BY <2>1, <2>2, <2>3 DEF S!Row
<1>3. suggestion' = suggestion \/ suggestion' = [suggestion EXCEPT ![held.suggestion] = row]
  BY DEF S!Answer
<1> HIDE DEF row
<1>4. suggestion' \in [S!Id -> S!Row]
  BY <1>1, <1>2, <1>3 DEF S!TypeOK
<1>5. worker' \in [Worker -> [suggestion : S!Id, attempt : 1..MaxAttempts] \cup {Idle}]
  BY DEF S!Answer, S!TypeOK
<1> QED BY <1>4, <1>5 DEF S!TypeOK, S!Answer

LEMMA NextSuggestions ==
    ASSUME S!TypeOK, [S!Next]_suggestionVars
    PROVE  S!TypeOK'
<1>1. CASE UNCHANGED suggestionVars
  BY <1>1 DEF suggestionVars, S!TypeOK
<1>2. ASSUME NEW s \in S!Id, S!Ask(s) \/ S!Apply(s) \/ S!Expire(s)
      PROVE  S!TypeOK'
  <2>1. /\ suggestion' \in [S!Id -> S!Row]
        /\ UNCHANGED worker
    <3>1. suggestion[s] \in S!Row /\ collection.revision \in 0..MaxRevision
      BY SuggestionLimits DEF S!TypeOK
    <3>2. PICK row \in S!Row : suggestion' = [suggestion EXCEPT ![s] = row]
      <4>1. CASE S!Ask(s)
        <5>1. [suggestion[s] EXCEPT !.status = "queued", !.base = collection.revision] \in S!Row
          BY <3>1 DEF S!Row
        <5>2. suggestion' = [suggestion EXCEPT ![s] =
                 [suggestion[s] EXCEPT !.status = "queued", !.base = collection.revision]]
          BY <4>1 DEF S!Ask, S!TypeOK
        <5> QED BY <5>1, <5>2
      <4>2. CASE S!Apply(s)
        <5>1. [suggestion[s] EXCEPT !.applied = TRUE] \in S!Row
          BY <3>1 DEF S!Row
        <5>2. suggestion' = [suggestion EXCEPT ![s] = [suggestion[s] EXCEPT !.applied = TRUE]]
          BY <4>2 DEF S!Apply, S!TypeOK
        <5> QED BY <5>1, <5>2
      <4>3. CASE S!Expire(s)
        <5>1. [suggestion[s] EXCEPT !.lease = "expired"] \in S!Row
          BY <3>1 DEF S!Row
        <5>2. suggestion' = [suggestion EXCEPT ![s] = [suggestion[s] EXCEPT !.lease = "expired"]]
          BY <4>3 DEF S!Expire, S!TypeOK
        <5> QED BY <5>1, <5>2
      <4> QED BY <1>2, <4>1, <4>2, <4>3
    <3> QED BY <1>2, <3>2 DEF S!TypeOK, S!Ask, S!Apply, S!Expire
  <2>2. collection' \in [revision : 1..MaxRevision, archived : BOOLEAN]
    BY <1>2, SuggestionLimits DEF S!TypeOK, S!Ask, S!Apply, S!Expire, S!Revise
  <2>3. stalls' \in 0..MaxStalls
    BY <1>2, SuggestionLimits DEF S!TypeOK, S!Ask, S!Apply, S!Expire, S!Fault
  <2> QED BY <2>1, <2>2, <2>3 DEF S!TypeOK
<1>3. ASSUME S!Edit \/ S!Archive
      PROVE  S!TypeOK'
  <2>1. collection' \in [revision : 1..MaxRevision, archived : BOOLEAN]
    <3>1. /\ collection.revision \in 1..MaxRevision /\ collection.revision < MaxRevision
          /\ \/ collection' = [collection EXCEPT !.revision = @ + 1]
             \/ collection' = [revision |-> collection.revision + 1,
                               archived |-> ~collection.archived]
      BY <1>3 DEF S!TypeOK, S!Edit, S!Archive, S!Revise
    <3>2. collection.revision + 1 \in 1..MaxRevision
      BY <3>1, SuggestionLimits
    <3>3. (~collection.archived) \in BOOLEAN
      OBVIOUS
    <3>4. CASE collection' = [collection EXCEPT !.revision = @ + 1]
      BY <3>2, <3>4 DEF S!TypeOK
    <3>5. CASE collection' = [revision |-> collection.revision + 1,
                              archived |-> ~collection.archived]
      BY ONLY <3>2, <3>3, <3>5
    <3> QED BY <3>1, <3>4, <3>5
  <2> QED BY <1>3, <2>1 DEF S!TypeOK, S!Edit, S!Archive
<1>4. ASSUME NEW w \in Worker, S!Die(w)
      PROVE  S!TypeOK'
  BY <1>4, SuggestionLimits DEF S!TypeOK, S!Die, S!Fault
<1> QED
  BY <1>1, <1>2, <1>3, <1>4, ClaimSuggestion, AnswerSuggestion DEF S!Next, S!AnswerAny

-----------------------------------------------------------------------------
(* Exploration: what ExplorationProofs shows of it holds where it is one of the parts. *)

LEMMA SameExploration ==
    /\ X!Init => XP!Init
    /\ X!Next => XP!Next
    /\ XP!TypeOK => X!TypeOK
    /\ XP!CandidateProven /\ XP!CallsBudgeted => X!CandidateProven /\ X!CallsBudgeted
<1>1. X!Init => XP!Init
  BY DEF X!Kinds, XP!Kinds, X!Claim, XP!Claim, X!NoSession, XP!NoSession,
     X!NoCandidate, XP!NoCandidate, X!NotProven, XP!NotProven, X!KeptFromTheStart,
     XP!KeptFromTheStart, X!Init, XP!Init
<1>2. X!Next => XP!Next
  BY DEF X!Kinds, XP!Kinds, X!Claim, XP!Claim, X!Ended, XP!Ended, X!Issues,
     XP!Issues, X!NotProven, XP!NotProven, X!Plan, XP!Plan, X!Signature,
     XP!Signature, X!NoSession, XP!NoSession, X!NoCandidate, XP!NoCandidate,
     X!NoPlan, XP!NoPlan, X!Session, XP!Session, X!pc, XP!pc, X!Repair, XP!Repair,
     X!Reserve, XP!Reserve, X!KeptFromTheStart, XP!KeptFromTheStart, X!Fenced,
     XP!Fenced, X!Owned, XP!Owned, X!Finished, XP!Finished, X!ClaimJob, XP!ClaimJob,
     X!LeaseExpires, XP!LeaseExpires, X!RequestCancel, XP!RequestCancel, X!Failing,
     XP!Failing, X!Progress, XP!Progress, X!Judged, XP!Judged, X!Corrected,
     XP!Corrected, X!CallsLeft, XP!CallsLeft, X!To, XP!To, X!Unshared, XP!Unshared,
     X!Prior, XP!Prior, X!Begin, XP!Begin, X!Ask, XP!Ask, X!Call, XP!Call, X!Lost,
     XP!Lost, X!RefuseRepair,
     XP!RefuseRepair, X!AnswerUnusable, XP!AnswerUnusable, X!AnswerFails,
     XP!AnswerFails, X!AnswerRead, XP!AnswerRead, X!AnswerProposal,
     XP!AnswerProposal, X!JudgeDiscovery, XP!JudgeDiscovery, X!JudgeRule,
     XP!JudgeRule, X!Candidate, XP!Candidate, X!Commit, XP!Commit, X!Abort,
     XP!Abort, X!Fail, XP!Fail, X!GiveUp, XP!GiveUp, X!Crash, XP!Crash, X!Answer,
     XP!Answer, X!Work, XP!Work, X!Next, XP!Next
<1>3. XP!TypeOK => X!TypeOK
  BY DEF X!Kinds, XP!Kinds, X!Claim, XP!Claim, X!Ended, XP!Ended, X!Issues,
     XP!Issues, X!NotProven, XP!NotProven, X!Plan, XP!Plan, X!Signature,
     XP!Signature, X!NoSession, XP!NoSession, X!NoCandidate, XP!NoCandidate,
     X!NoPlan, XP!NoPlan, X!Session, XP!Session, X!TypeOK, XP!TypeOK
<1>4. XP!CandidateProven /\ XP!CallsBudgeted => X!CandidateProven /\ X!CallsBudgeted
  BY DEF X!NoCandidate, XP!NoCandidate, X!CandidateProven, XP!CandidateProven,
     X!CallsBudgeted, XP!CallsBudgeted, X!Reserve, XP!Reserve
<1> QED BY <1>1, <1>2, <1>3, <1>4

LEMMA ExplorationLimits == XP!ExplorationAssumption
BY ServicesAssumption DEF X!ExplorationAssumption, XP!ExplorationAssumption

\* A behaviour of the parts is one of Exploration.
LEMMA ExplorationRuns == MCSpec => XP!Spec
<1>1. MCInit => XP!Init
  BY SameExploration DEF MCInit
<1>2. [MCNext]_MCVars => [XP!Next]_(XP!explorationVars)
  BY SameExploration DEF MCNext, MCVars, explorationVars, XP!explorationVars, DeliveriesNext,
     AccountsNext, SuggestionsNext, ExplorationNext
<1> QED BY <1>1, <1>2, PTL DEF MCSpec, XP!Spec

-----------------------------------------------------------------------------
(* The theorems *)

\* However many administrators edit accounts at the same time, an enabled one remains,
\* and no session outlives the password it was opened with (app.py, store.py).
THEOREM AccountsAreSound == MCSpec => []AccountsSound
<1>1. MCInit => AccountsInv
  BY InitAccounts DEF MCInit
<1>2. AccountsInv /\ [MCNext]_MCVars => AccountsInv'
  BY NextAccounts DEF MCNext, MCVars, DeliveriesNext, AccountsNext, SuggestionsNext,
     ExplorationNext
<1>3. AccountsInv => AccountsSound
  BY DEF AccountsInv, AccountsSound
<1> QED BY <1>1, <1>2, <1>3, PTL DEF MCSpec

\* A candidate was found without an issue by the claim that holds the job, and no
\* run makes more calls than its budget, whatever the other parts do
\* (adaptive_compile.py).
THEOREM CandidatesProven == MCSpec => []CandidateProven
<1>1. XP!Spec => [](XP!CandidateProven /\ XP!CallsBudgeted)
  BY ExplorationLimits, XP!CandidatesAreProven
<1>2. XP!CandidateProven /\ XP!CallsBudgeted => CandidateProven
  BY SameExploration DEF CandidateProven
<1> QED BY <1>1, <1>2, ExplorationRuns, PTL

\* After its claim is lost or its run is cancelled, a worker makes no more calls than
\* the one it had booked (AdaptiveSession.run), whatever the other parts do.
THEOREM LateCallsStayBounded == MCSpec => []LateCallsBounded
<1>1. XP!Spec => []XP!LateCallsBounded
  BY ExplorationLimits, XP!LateCallsAreBounded
<1>2. XP!LateCallsBounded => LateCallsBounded
  BY DEF LateCallsBounded, X!LateCallsBounded, XP!LateCallsBounded, X!Claim, XP!Claim
<1> QED BY <1>1, <1>2, ExplorationRuns, PTL

\* Every variable of the four parts keeps its type: rows of deliveries, accounts,
\* suggestions and sessions stay within the bounds of their columns.
THEOREM ServicesTyped == MCSpec => []AllTypesOK
<1> DEFINE Inv == WInv /\ AccountsInv /\ S!TypeOK
<1>1. MCInit => Inv
  BY InitWInv, InitAccounts, InitSuggestions DEF MCInit
<1>2. Inv /\ [MCNext]_MCVars => Inv'
  <2>1. [MCNext]_MCVars => [Next]_vars /\ [A!Next]_accountVars /\ [S!Next]_suggestionVars
    BY DEF MCNext, MCVars, DeliveriesNext, AccountsNext, SuggestionsNext, ExplorationNext
  <2> QED BY <2>1, NextWInv, NextAccounts, NextSuggestions
<1>3. XP!Spec => []XP!XInv
  BY ExplorationLimits, XP!SessionsAgree
<1>4. Inv /\ XP!XInv => AllTypesOK
  BY SameExploration DEF WInv, AccountsInv, XP!XInv, AllTypesOK
<1> QED BY <1>1, <1>2, <1>3, <1>4, ExplorationRuns, PTL DEF MCSpec

=============================================================================
