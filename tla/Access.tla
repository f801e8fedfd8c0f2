------------------------------- MODULE Access -------------------------------
(***************************************************************************)
(* Who may call the management API: the middleware Authenticator           *)
(* (backend/api/web/auth.go), subjects and the LoginGuard                  *)
(* (internal/authz/subject.go), login and change of password               *)
(* (api/web/handler/auth.go), open API tokens (api/web/handler/token.go)   *)
(* and the tables app_user and api_token (internal/adapter).  All requests *)
(* come from one address; signatures and hashes are perfect.               *)
(***************************************************************************)
EXTENDS Naturals, FiniteSets

CONSTANTS
  User,         \* rows of app_user
  APIToken,     \* tokens that can be issued
  APICall,      \* requests in progress at a time
  LoginMaxFail, \* failures that start a cooldown
  MaxChanges    \* bound: changes of accounts and tokens

ASSUME AccessAssumption ==
  /\ LoginMaxFail \in Nat \ {0} /\ MaxChanges \in Nat
  /\ IsFiniteSet(APICall)
  /\ "token" \notin User \* it marks the bearer of a token

VARIABLES
  account,   \* app_user: role, state and password (0 or 1)
  apiToken,  \* api_token: state and scopes
  sessions,  \* sessions that are signed and not expired: user and role
  failed,    \* LoginGuard.failed of the address
  cooling,   \* LoginGuard.cooldown of the address
  handling,  \* what each request is doing
  entitled,  \* history: requests that some rows since they came have allowed
  changes    \* changes of accounts and tokens, up to MaxChanges

accessVars == <<account, apiToken, sessions, failed, cooling, handling, entitled, changes>>

Role == {"admin", "operator", "viewer"}
UserState == {"active", "disabled", "gone"}
Scopes == {{}, {"write"}, {"admin"}, {"write", "admin"}}

\* implementedAdminOnly, IsReadOnly: what a route asks for.
AdminOnly == {"issue", "revoke", "tokens"}
ReadOnly == {"read", "tokens"}
Route == {"read", "write", "tokens", "issue", "revoke", "password"}

IsAdmin(sub) == IF sub.kind = "user" THEN sub.role = "admin" ELSE "admin" \in sub.scopes
CanWrite(sub) == IF sub.kind = "user" THEN sub.role \in {"admin", "operator"} ELSE "write" \in sub.scopes

Allowed(sub, route) ==
  /\ route \in AdminOnly => IsAdmin(sub)
  /\ route \notin ReadOnly => CanWrite(sub)

Quiet == [at |-> "idle"]
Signing == {"login", "verify", "signed"}
Free(r) == handling[r] = Quiet
Now(r, stage) == [handling[r] EXCEPT !.at = stage]
Handling(r, job) == handling' = [handling EXCEPT ![r] = job]

\* What the rows say of a job: a login is for an active account with that
\* password, a call for an active account whose role, or an active token whose
\* scopes, the route accepts.
Entitles(acc, tok, job) ==
  IF job.at \in Signing
  THEN acc[job.user].state = "active" /\ acc[job.user].password = job.password
  ELSE IF job.by[1] = "token"
  THEN /\ tok[job.by[2]].state = "active"
       /\ Allowed([kind |-> "token", scopes |-> tok[job.by[2]].scopes], job.route)
  ELSE /\ acc[job.by[1]].state = "active"
       /\ Allowed([kind |-> "user", role |-> acc[job.by[1]].role], job.route)

\* A new request, and rows that change while requests are under way.
Begins(r, job) ==
  /\ Free(r) /\ Handling(r, job)
  /\ entitled' = [entitled EXCEPT ![r] = Entitles(account, apiToken, job)]

Changed ==
  /\ changes < MaxChanges /\ changes' = changes + 1
  /\ entitled' = [r \in APICall |->
       entitled[r] \/ (~Free(r) /\ Entitles(account', apiToken', handling[r]))]

Ends(r) == Handling(r, Quiet) /\ entitled' = [entitled EXCEPT ![r] = FALSE]

-----------------------------------------------------------------------------
(* Login *)

\* Allow: refused while the cooldown lasts.
LoginAllowed(r) ==
  /\ ~cooling
  /\ \E u \in User, p \in {0, 1} : Begins(r, [at |-> "login", user |-> u, password |-> p])
  /\ UNCHANGED <<account, apiToken, sessions, failed, cooling, changes>>

\* GetByName: the row as it is now; the check of the password takes a while.
ReadAccount(r) ==
  /\ handling[r].at = "login"
  /\ Handling(r, [at |-> "verify", user |-> handling[r].user, password |-> handling[r].password,
                  row |-> account[handling[r].user]])
  /\ UNCHANGED <<account, apiToken, sessions, failed, cooling, entitled, changes>>

Verified(r) == handling[r].row.state = "active" /\ handling[r].row.password = handling[r].password

\* SignSession; Success clears the counter and, with it, a cooldown that others
\* have caused.
LoginSucceeds(r) ==
  /\ handling[r].at = "verify" /\ Verified(r)
  /\ Handling(r, [at |-> "signed", user |-> handling[r].user, password |-> handling[r].password])
  /\ sessions' = sessions \cup {<<handling[r].user, handling[r].row.role>>}
  /\ failed' = 0 /\ cooling' = FALSE
  /\ UNCHANGED <<account, apiToken, entitled, changes>>

\* Fail; the comparison is >= because others may have passed Allow before.
LoginFails(r) ==
  /\ handling[r].at = "verify" /\ ~Verified(r)
  /\ Ends(r)
  /\ failed' = failed + 1
  /\ cooling' = (cooling \/ failed + 1 >= LoginMaxFail)
  /\ UNCHANGED <<account, apiToken, sessions, changes>>

\* Allow, once the cooldown is over.
CooldownEnds ==
  /\ cooling /\ cooling' = FALSE /\ failed' = 0
  /\ UNCHANGED <<account, apiToken, sessions, handling, entitled, changes>>

-----------------------------------------------------------------------------
(* Other requests *)

\* With the token of a session, or of the open API.
Arrive(r) ==
  /\ \E route \in Route :
       \/ \E s \in sessions : Begins(r, [at |-> "arrived", route |-> route, by |-> s])
       \/ \E t \in APIToken : Begins(r, [at |-> "arrived", route |-> route, by |-> <<"token", t>>])
  /\ UNCHANGED <<account, apiToken, sessions, failed, cooling, changes>>

\* GetByHash and Get; a token must not be revoked or expired, an account
\* must be there and active.
ValidToken(t) == {row \in {apiToken[t]} : row.state = "active"}
ValidUser(u) == {row \in {account[u]} : row.state = "active"}

Subject_AsSigned(by) ==
  IF by[1] = "token"
  THEN {[kind |-> "token", scopes |-> row.scopes] : row \in ValidToken(by[2])}
  ELSE {[kind |-> "user", role |-> by[2]] : row \in ValidUser(by[1])}

\* authenticate: the role of the row counts, not that of the session.
Subject(by) ==
  IF by[1] = "token"
  THEN {[kind |-> "token", scopes |-> row.scopes] : row \in ValidToken(by[2])}
  ELSE {[kind |-> "user", role |-> row.role] : row \in ValidUser(by[1])}

\* The rows are read, once; refused when they cannot be read or do not allow it.
Authenticate(r) ==
  /\ handling[r].at = "arrived"
  /\ \/ /\ \E sub \in Subject(handling[r].by) : Allowed(sub, handling[r].route)
        /\ Handling(r, Now(r, "admitted"))
        /\ UNCHANGED entitled
     \/ Ends(r)
  /\ UNCHANGED <<account, apiToken, sessions, failed, cooling, changes>>

\* What the handlers do.  A password is changed by a login session, for itself;
\* sessions that were signed before stay valid.
ChangePassword(r) ==
  /\ handling[r].route = "password" /\ handling[r].by[1] \in User
  /\ account[handling[r].by[1]].state # "gone"
  /\ account' = [account EXCEPT ![handling[r].by[1]].password = 1 - @]
  /\ UNCHANGED apiToken

\* The statements on api_token; a revoked token keeps its row.
CreateRow(t, scopes) == apiToken' = [apiToken EXCEPT ![t] = [state |-> "active", scopes |-> scopes]]
RevokeRow(t) == apiToken' = [apiToken EXCEPT ![t].state = "revoked"]

Issue(r, t) ==
  /\ handling[r].route = "issue" /\ apiToken[t].state = "none"
  /\ \E scopes \in Scopes : CreateRow(t, scopes)
  /\ UNCHANGED account

Revoke(r, t) ==
  /\ handling[r].route = "revoke" /\ apiToken[t].state # "none"
  /\ RevokeRow(t)
  /\ UNCHANGED account

Manage(r) ==
  /\ handling[r].at = "admitted"
  /\ ChangePassword(r) \/ \E t \in APIToken : Issue(r, t) \/ Revoke(r, t)
  /\ Handling(r, Now(r, "handled"))
  /\ Changed
  /\ UNCHANGED <<sessions, failed, cooling>>

\* A handler that only reads, or ends in an error.
Answer(r) ==
  /\ handling[r].at = "admitted"
  /\ Handling(r, Now(r, "handled"))
  /\ UNCHANGED <<account, apiToken, sessions, failed, cooling, entitled, changes>>

\* The audit row is written and the answer is out.
CallEnds(r) ==
  /\ handling[r].at \in {"handled", "signed"} /\ Ends(r)
  /\ UNCHANGED <<account, apiToken, sessions, failed, cooling, changes>>

-----------------------------------------------------------------------------
\* SetRole and SetState of UserRepo, and a row that is deleted; nothing in the
\* server calls them yet, an administrator of the database does.
ChangeAccount(u) ==
  /\ account[u].state # "gone"
  /\ \/ \E role \in Role : account' = [account EXCEPT ![u].role = role]
     \/ \E state \in UserState : account' = [account EXCEPT ![u].state = state]
  /\ UNCHANGED apiToken /\ Changed
  /\ UNCHANGED <<sessions, failed, cooling, handling>>

SessionExpires(s) ==
  /\ sessions' = sessions \ {s}
  /\ UNCHANGED <<account, apiToken, failed, cooling, handling, entitled, changes>>

TokenExpires(t) ==
  /\ apiToken[t].state = "active"
  /\ apiToken' = [apiToken EXCEPT ![t].state = "expired"]
  /\ UNCHANGED account /\ Changed
  /\ UNCHANGED <<sessions, failed, cooling, handling>>

\* The server dies: requests are cut off and the guard forgets.
ForgetGuard ==
  /\ handling' = [r \in APICall |-> Quiet] /\ entitled' = [r \in APICall |-> FALSE]
  /\ failed' = 0 /\ cooling' = FALSE
  /\ UNCHANGED <<account, apiToken, sessions, changes>>

\* EnsureFirstAdmin has made the account; tokens may have been issued by earlier
\* runs of the server, with the scope write.
AccessInit ==
  /\ account = [u \in User |-> [role |-> "admin", state |-> "active", password |-> 0]]
  /\ apiToken \in [APIToken -> {[state |-> "none", scopes |-> {}],
                                [state |-> "active", scopes |-> {"write"}]}]
  /\ sessions = {} /\ failed = 0 /\ cooling = FALSE /\ changes = 0
  /\ handling = [r \in APICall |-> Quiet]
  /\ entitled = [r \in APICall |-> FALSE]

LogIn(r) == LoginAllowed(r) \/ ReadAccount(r) \/ LoginSucceeds(r) \/ LoginFails(r)
CallAPI(r) == Arrive(r) \/ Authenticate(r) \/ Manage(r) \/ Answer(r) \/ CallEnds(r)

AccessNext ==
  \/ \E r \in APICall : LogIn(r) \/ CallAPI(r)
  \/ \E u \in User : ChangeAccount(u)
  \/ \E s \in sessions : SessionExpires(s)
  \/ \E t \in APIToken : TokenExpires(t)
  \/ CooldownEnds \/ ForgetGuard

-----------------------------------------------------------------------------
(* Properties *)

\* A request is only let through, and a session only signed, when rows that were
\* current at some time after it came allow it: a demotion, a revocation or a new
\* password takes effect on every request that comes later.  And however many
\* logins run at a time, the guard counts no more failures than the limit and
\* those that were under way when it was reached.
AccessCurrent ==
  /\ \A r \in APICall : handling[r].at \in {"admitted", "handled", "signed"} => entitled[r]
  /\ failed <= LoginMaxFail + Cardinality(APICall) - 1
=============================================================================
