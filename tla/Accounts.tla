------------------------------ MODULE Accounts ------------------------------
(***************************************************************************)
(* Accounts and sessions of Extrio: the first setup, logins, and the edits  *)
(* administrators make to accounts, their own included, at the same time.   *)
(*                                                                          *)
(* A request is authorised from its session when it arrives, and changes    *)
(* rows later, in transactions of its own; a login reads the password hash, *)
(* verifies the password, and only then creates the session.                *)
(***************************************************************************)
EXTENDS Integers, FiniteSets

CONSTANTS User,         \* accounts
          Client,       \* browsers, each with at most one session and request
          MaxPassword,  \* bound: password hashes of one account
          Nobody        \* no account

AccountsAssumption == MaxPassword \in Nat \ {0} /\ Nobody \notin User

VARIABLES user,     \* rows of auth_users
          session,  \* row of auth_sessions for the token a client holds
          request   \* the request of a client that is under way

accountVars == <<user, session, request>>

-----------------------------------------------------------------------------
\* administrator or one of the other roles; password: which hash it is.
Row == [exists : BOOLEAN, administrator : BOOLEAN, enabled : BOOLEAN,
        password : 0..MaxPassword]

\* "keep" is a field that the body of the request does not have.
Change == [administrator : {"keep", "yes", "no"}, enabled : {"keep", "yes", "no"},
           password : BOOLEAN]

NoSession == [user |-> Nobody, password |-> 0]
NoRequest == [step |-> "none"]

TypeOK ==
    /\ user \in [User -> Row]
    /\ session \in [Client -> [user : User, password : 1..MaxPassword] \cup {NoSession}]
    /\ request \in [Client ->
          {NoRequest}
          \cup [step : {"verified"}, user : User, password : 1..MaxPassword]
          \cup [step : {"create"}, user : User, administrator : BOOLEAN]
          \cup [step : {"update"}, user : User, change : Change]
          \cup [step : {"password"}, user : User]]

-----------------------------------------------------------------------------
(* Faults: definitions below as a plausible mistake would have written them. *)

\* Fault in LastAdministrator: the check before the transaction is taken to be enough.
LastAdministratorNotAgain(u, change) == FALSE

\* Fault in CredentialsHold: the hash is not compared when the session is made.
CredentialsHoldWithoutHash(u, hash) == user[u].enabled

-----------------------------------------------------------------------------
Active(u) == user[u].exists /\ user[u].administrator /\ user[u].enabled

Init ==
    /\ user    = [u \in User |-> [exists |-> FALSE, administrator |-> FALSE,
                                  enabled |-> FALSE, password |-> 0]]
    /\ session = [c \in Client |-> NoSession]
    /\ request = [c \in Client |-> NoRequest]

Resting(c) == request[c] = NoRequest
Done(c) == request' = [request EXCEPT ![c] = NoRequest]

New(administrator) == [exists |-> TRUE, administrator |-> administrator,
                       enabled |-> TRUE, password |-> 1]

\* POST /auth/setup: the first account, then a session like that of a login.
Setup(c, u) ==
    /\ Resting(c) /\ \A v \in User : ~user[v].exists
    /\ user' = [user EXCEPT ![u] = New(TRUE)]
    /\ request' = [request EXCEPT ![c] = [step |-> "verified", user |-> u, password |-> 1]]
    /\ UNCHANGED session

\* POST /auth/login with the right password; a wrong one changes nothing.
Verify(c, u) ==
    /\ Resting(c) /\ user[u].exists /\ user[u].enabled
    /\ request' = [request EXCEPT ![c] = [step |-> "verified", user |-> u,
                                          password |-> user[u].password]]
    /\ UNCHANGED <<user, session>>

\* create_auth_session looks again, in its transaction.
CredentialsHold(u, hash) == user[u].enabled /\ user[u].password = hash

CreateSession(c) ==
    /\ request[c].step = "verified"
    /\ LET r == request[c]
       IN  session' = IF CredentialsHold(r.user, r.password)
                      THEN [session EXCEPT ![c] = [user |-> r.user,
                                                   password |-> r.password]]
                      ELSE session
    /\ Done(c)
    /\ UNCHANGED user

\* POST /auth/logout, or the session expires.
EndSession(c) ==
    /\ session[c] # NoSession
    /\ session' = [session EXCEPT ![c] = NoSession]
    /\ UNCHANGED <<user, request>>

\* request_id_middleware: a session of a disabled account is deleted when it is used.
DropDisabled(c) ==
    /\ Resting(c) /\ session[c] # NoSession /\ ~user[session[c].user].enabled
    /\ session' = [session EXCEPT ![c] = NoSession]
    /\ UNCHANGED <<user, request>>

\* The middleware and require_roles: who asks is read once, here.
Administers(c) == /\ Resting(c) /\ session[c] # NoSession
                  /\ Active(session[c].user)

\* POST /users
AskCreate(c, u, administrator) ==
    /\ Administers(c)
    /\ request' = [request EXCEPT ![c] = [step |-> "create", user |-> u,
                                          administrator |-> administrator]]
    /\ UNCHANGED <<user, session>>

Create(c) ==
    /\ request[c].step = "create"
    /\ LET r == request[c]
       IN  user' = IF user[r.user].exists THEN user
                   ELSE [user EXCEPT ![r.user] = New(r.administrator)]
    /\ Done(c)
    /\ UNCHANGED session

Demotes(u, change) ==
    Active(u) /\ (change.administrator = "no" \/ change.enabled = "no")

Others(u) == {v \in User : Active(v)} \ {u}

\* PATCH /users/{id}, before any transaction: nobody disables himself, and the
\* last administrator is looked for a first time.  (The body is read in between,
\* which changes nothing that Update does not look at again.)
AskUpdate(c, u, change) ==
    /\ Administers(c) /\ user[u].exists
    /\ ~(session[c].user = u /\ change.enabled = "no")
    /\ ~(Demotes(u, change) /\ Others(u) = {})
    /\ request' = [request EXCEPT ![c] = [step |-> "update", user |-> u,
                                          change |-> change]]
    /\ UNCHANGED <<user, session>>

\* update_user looks again, under the lock.
LastAdministrator(u, change) == Demotes(u, change) /\ Others(u) = {}

Chosen(old, field) == IF field = "keep" THEN old ELSE field = "yes"

Applied(row, change) ==
    [row EXCEPT !.administrator = Chosen(@, change.administrator),
                !.enabled       = Chosen(@, change.enabled)]

Update(c) ==
    /\ request[c].step = "update"
    /\ LET r == request[c] IN
       IF LastAdministrator(r.user, r.change)
       THEN Done(c) /\ UNCHANGED user
       ELSE /\ user' = [user EXCEPT ![r.user] = Applied(@, r.change)]
            /\ IF r.change.password
               THEN request' = [request EXCEPT ![c] = [step |-> "password",
                                                       user |-> r.user]]
               ELSE Done(c)
    /\ UNCHANGED session

\* update_user_password, a transaction of its own, revokes the sessions.
SetPassword(c) ==
    /\ request[c].step = "password"
    /\ LET u == request[c].user IN
       /\ user[u].password < MaxPassword
       /\ user' = [user EXCEPT ![u].password = @ + 1]
       /\ session' = [d \in Client |-> IF session[d].user = u THEN NoSession
                                                              ELSE session[d]]
    /\ Done(c)

\* The control plane dies, or the client goes away, between two transactions.
Abandon(c) ==
    /\ ~Resting(c)
    /\ Done(c)
    /\ UNCHANGED <<user, session>>

Next == \E c \in Client :
    \/ \E u \in User :
          \/ Setup(c, u) \/ Verify(c, u)
          \/ \E a \in BOOLEAN : AskCreate(c, u, a)
          \/ \E change \in Change : AskUpdate(c, u, change)
    \/ CreateSession(c) \/ EndSession(c) \/ DropDisabled(c)
    \/ Create(c) \/ Update(c) \/ SetPassword(c) \/ Abandon(c)

Spec == Init /\ [][Next]_accountVars

-----------------------------------------------------------------------------
(* Properties *)

\* Once there are accounts there is an enabled administrator, however many of
\* them demote, disable or give up their role at the same time.
AdministratorRemains ==
    (\E u \in User : user[u].exists) => \E u \in User : Active(u)

\* No session outlives the password it was opened with, nor is one opened with a
\* password that was replaced after it was verified.
SessionsFollowPassword ==
    \A c \in Client : session[c] # NoSession =>
        session[c].password = user[session[c].user].password
=============================================================================
