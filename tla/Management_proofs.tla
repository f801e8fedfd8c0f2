-------------------------- MODULE Management_proofs --------------------------
(***************************************************************************)
(* Proofs about the parts that manage hosts and their users: access to the *)
(* API (Access), enrolment (Enrol), commands to a BMC (BmcControl), the    *)
(* parts of a host (Inventory), the JSON channel of the agent              *)
(* (JsonReport), fan control (FanControl) and the routes between agents    *)
(* (Mesh). Each part has its ranges, its inductive invariant, what every   *)
(* action does to it, and the property it is there for.                    *)
(***************************************************************************)
EXTENDS Access, Enrol, BmcControl, Inventory, JsonReport, FanControl, Mesh,
  FiniteSetTheorems, SequenceTheorems, WellFoundedInduction, TLAPS

\* The specification of each part.
AccessSpec == AccessInit /\ [][AccessNext]_accessVars
EnrolSpec == EnrolInit /\ [][EnrolNext]_enrolVars
BmcSpec == BmcInit /\ [][BmcNext]_bmcVars
InventorySpec == InventoryInit /\ [][InventoryNext]_inventoryVars
ReportSpec == ReportInit /\ [][ReportNext]_reportVars
FanSpec == FanInit /\ [][FanNext]_fanVars
MeshSpec == MeshInit /\ [][MeshNext]_meshVars

-----------------------------------------------------------------------------
(* Access *)

Account == [role : Role, state : UserState, password : {0, 1}]
Bearer == (User \X Role) \cup ({"token"} \X APIToken)

LoginJob == [at : {"login", "signed"}, user : User, password : {0, 1}]
VerifyJob == [at : {"verify"}, user : User, password : {0, 1}, row : Account]
CallJob == [at : {"arrived", "admitted", "handled"}, route : Route, by : Bearer]

\* Every variable stays in its range.
AccessType ==
  /\ account \in [User -> Account]
  /\ apiToken \in [APIToken -> [state : {"none", "active", "revoked", "expired"}, scopes : Scopes]]
  /\ sessions \in SUBSET (User \X Role)
  /\ failed \in Nat /\ cooling \in BOOLEAN
  /\ handling \in [APICall -> {Quiet} \cup LoginJob \cup VerifyJob \cup CallJob]
  /\ entitled \in [APICall -> BOOLEAN]

\* History that follows the rows: what they allow now, they have allowed since
\* the request came; and so has a row that a login has read.
EntitledNow ==
  \A r \in APICall :
    /\ ~Free(r) /\ Entitles(account, apiToken, handling[r]) => entitled[r]
    /\ handling[r].at = "verify" /\ Verified(r) => entitled[r]
    /\ handling[r].at \in {"admitted", "handled", "signed"} => entitled[r]

\* The logins under way count as failures that are still to come.
LoggingIn == {r \in APICall : handling[r].at \in {"login", "verify"}}
FailuresBounded ==
  /\ failed + Cardinality(LoggingIn) <= LoginMaxFail + Cardinality(APICall) - 1
  /\ ~cooling => failed < LoginMaxFail

AccessInv == AccessType /\ EntitledNow /\ FailuresBounded

\* What a request remembers follows from the step it is at.
LEMMA JobFields ==
  ASSUME AccessType, NEW r \in APICall
  PROVE  /\ handling[r].at \in {"login", "signed"} => handling[r] \in LoginJob
         /\ handling[r].at = "verify" => handling[r] \in VerifyJob
         /\ handling[r].at \in {"arrived", "admitted", "handled"} => handling[r] \in CallJob
         /\ Free(r) <=> handling[r].at = "idle"
         /\ handling[r] \in {Quiet} \cup LoginJob \cup VerifyJob \cup CallJob
BY DEF AccessType, Free, Quiet, LoginJob, VerifyJob, CallJob

LEMMA SomeLogins ==
  ASSUME AccessAssumption, NEW S \in SUBSET APICall
  PROVE  /\ IsFiniteSet(S) /\ Cardinality(S) \in Nat /\ Cardinality(APICall) \in Nat
         /\ Cardinality(S) <= Cardinality(APICall)
         /\ \A T \in SUBSET S : Cardinality(T) \in Nat /\ Cardinality(T) <= Cardinality(S)
         /\ \A r \in S : Cardinality(S \ {r}) = Cardinality(S) - 1
<1>1. IsFiniteSet(APICall) /\ IsFiniteSet(S)
  BY FS_Subset DEF AccessAssumption
<1>2. Cardinality(S) \in Nat /\ Cardinality(APICall) \in Nat
  BY <1>1, FS_CardinalityType
<1>3. Cardinality(S) <= Cardinality(APICall)
  BY <1>1, FS_Subset
<1>4. ASSUME NEW T \in SUBSET S
      PROVE  Cardinality(T) \in Nat /\ Cardinality(T) <= Cardinality(S)
  BY <1>1, FS_Subset, FS_CardinalityType
<1>5. ASSUME NEW r \in S
      PROVE  Cardinality(S \ {r}) = Cardinality(S) - 1
  BY <1>1, FS_RemoveElement
<1>6. QED
  BY <1>1, <1>2, <1>3, <1>4, <1>5

\* A step that begins no login and counts no failure, or that forgets them all.
LEMMA NoNewLogin ==
  ASSUME AccessAssumption, AccessInv, LoggingIn' \subseteq LoggingIn,
         UNCHANGED <<failed, cooling>> \/ (failed' = 0 /\ cooling' = FALSE)
  PROVE  FailuresBounded'
<1> DEFINE before == LoggingIn
           after == LoggingIn'
<1>1. before \in SUBSET APICall /\ after \in SUBSET before /\ after \in SUBSET APICall
  BY DEF LoggingIn
<1>2. FailuresBounded' <=>
        /\ failed' + Cardinality(after) <= LoginMaxFail + Cardinality(APICall) - 1
        /\ ~cooling' => failed' < LoginMaxFail
  BY DEF FailuresBounded
<1>3. /\ failed + Cardinality(before) <= LoginMaxFail + Cardinality(APICall) - 1
      /\ ~cooling => failed < LoginMaxFail
      /\ failed \in Nat /\ LoginMaxFail \in Nat \ {0}
  BY DEF AccessInv, FailuresBounded, AccessType, AccessAssumption
<1> HIDE DEF before, after
<1>4. /\ Cardinality(before) \in Nat /\ Cardinality(after) \in Nat /\ Cardinality(APICall) \in Nat
      /\ Cardinality(after) <= Cardinality(before)
      /\ Cardinality(after) <= Cardinality(APICall)
  BY <1>1, SomeLogins
<1>5. CASE UNCHANGED <<failed, cooling>>
  BY <1>2, <1>3, <1>4, <1>5
<1>6. CASE failed' = 0 /\ cooling' = FALSE
  BY <1>2, <1>3, <1>4, <1>6
<1>7. QED
  BY <1>5, <1>6

LEMMA AccessInitInv == AccessInit => AccessInv
<1> SUFFICES ASSUME AccessInit PROVE AccessInv
  OBVIOUS
<1> USE AccessAssumption
<1>1. AccessType
  <2>1. account \in [User -> Account]
    BY DEF AccessInit, Account, Role, UserState
  <2>2. apiToken \in [APIToken -> [state : {"none", "active", "revoked", "expired"}, scopes : Scopes]]
    BY DEF AccessInit, Scopes
  <2>3. /\ sessions \in SUBSET (User \X Role)
        /\ failed \in Nat /\ cooling \in BOOLEAN
    BY DEF AccessInit
  <2>4. handling \in [APICall -> {Quiet} \cup LoginJob \cup VerifyJob \cup CallJob]
    BY DEF AccessInit
  <2>5. entitled \in [APICall -> BOOLEAN]
    BY DEF AccessInit
  <2>6. QED
    BY <2>1, <2>2, <2>3, <2>4, <2>5 DEF AccessType
<1>2. EntitledNow
  BY DEF AccessInit, EntitledNow, Free, Quiet
<1>3. LoggingIn = {}
  BY DEF AccessInit, LoggingIn, Quiet
<1>4. Cardinality(LoggingIn) = 0 /\ Cardinality(APICall) \in Nat
  BY <1>3, FS_EmptySet, SomeLogins
<1>5. FailuresBounded
  BY <1>4 DEF FailuresBounded, AccessInit, AccessAssumption
<1>6. QED
  BY <1>1, <1>2, <1>5 DEF AccessInv

\* Steps of one request while the rows stay as they are.
LEMMA RequestType ==
  ASSUME AccessType, NEW r \in APICall, NEW job \in {Quiet} \cup LoginJob \cup VerifyJob \cup CallJob,
         Handling(r, job)
  PROVE  /\ handling' \in [APICall -> {Quiet} \cup LoginJob \cup VerifyJob \cup CallJob]
         /\ handling'[r] = job /\ \A q \in APICall \ {r} : handling'[q] = handling[q]
<1> DEFINE J == {Quiet} \cup LoginJob \cup VerifyJob \cup CallJob
<1> HIDE DEF J
<1>1. handling \in [APICall -> J] /\ job \in J
  BY DEF AccessType, J
<1>2. /\ handling' \in [APICall -> J]
      /\ handling'[r] = job /\ \A q \in APICall \ {r} : handling'[q] = handling[q]
  BY <1>1 DEF Handling
<1>3. QED
  BY <1>2 DEF J

\* The other requests keep what they are entitled to.
LEMMA OthersEntitled ==
  ASSUME AccessInv, UNCHANGED <<account, apiToken>>, NEW q \in APICall,
         handling'[q] = handling[q], entitled'[q] = entitled[q]
  PROVE  /\ ~Free(q)' /\ Entitles(account, apiToken, handling[q])' => entitled'[q]
         /\ handling'[q].at = "verify" /\ Verified(q)' => entitled'[q]
         /\ handling'[q].at \in {"admitted", "handled", "signed"} => entitled'[q]
BY DEF AccessInv, EntitledNow, Free, Entitles, Verified

\* A new request is entitled to what the rows allow it now.
LEMMA BeginsInv ==
  ASSUME AccessAssumption, AccessInv, NEW r \in APICall,
         NEW job \in LoginJob \cup CallJob, job.at \in {"login", "arrived"}, Begins(r, job),
         UNCHANGED <<account, apiToken, sessions, failed, cooling>>
  PROVE  AccessType' /\ EntitledNow'
<1>1. /\ handling' \in [APICall -> {Quiet} \cup LoginJob \cup VerifyJob \cup CallJob]
      /\ handling'[r] = job /\ \A q \in APICall \ {r} : handling'[q] = handling[q]
  BY RequestType DEF Begins, AccessInv
<1>2. /\ entitled' \in [APICall -> BOOLEAN]
      /\ entitled'[r] <=> Entitles(account, apiToken, job)
      /\ \A q \in APICall \ {r} : entitled'[q] = entitled[q]
  <2>1. Entitles(account, apiToken, job) \in BOOLEAN
    BY DEF Entitles
  <2>2. QED
    BY <2>1, Zenon DEF Begins, AccessInv, AccessType
<1>3. AccessType'
  BY <1>1, <1>2 DEF AccessInv, AccessType
<1>4. ASSUME NEW q \in APICall
      PROVE  /\ ~Free(q)' /\ Entitles(account, apiToken, handling[q])' => entitled'[q]
             /\ handling'[q].at = "verify" /\ Verified(q)' => entitled'[q]
             /\ handling'[q].at \in {"admitted", "handled", "signed"} => entitled'[q]
  <2>1. CASE q = r
    BY <1>1, <1>2, <2>1 DEF Entitles
  <2>2. CASE q # r
    BY <1>1, <1>2, <2>2, OthersEntitled
  <2>3. QED
    BY <2>1, <2>2
<1>5. EntitledNow'
  BY <1>4 DEF EntitledNow
<1>6. QED
  BY <1>3, <1>5

LEMMA LoginAllowedInv ==
  ASSUME AccessAssumption, AccessInv, NEW r \in APICall, LoginAllowed(r)
  PROVE  AccessInv'
<1>1. PICK u \in User, p \in {0, 1} : Begins(r, [at |-> "login", user |-> u, password |-> p])
  BY DEF LoginAllowed
<1>2. UNCHANGED <<account, apiToken, sessions, failed, cooling>> /\ ~cooling
  BY DEF LoginAllowed
<1>3. [at |-> "login", user |-> u, password |-> p] \in LoginJob
  BY DEF LoginJob
<1>4. AccessType' /\ EntitledNow'
  BY <1>1, <1>2, <1>3, BeginsInv
<1>5. FailuresBounded'
  <2> DEFINE after == LoggingIn'
  <2>1. after \in SUBSET APICall
    BY DEF LoggingIn
  <2> HIDE DEF after
  <2>2. Cardinality(after) \in Nat /\ Cardinality(APICall) \in Nat
        /\ Cardinality(after) <= Cardinality(APICall)
    BY <2>1, SomeLogins
  <2>3. failed' < LoginMaxFail /\ failed' \in Nat /\ LoginMaxFail \in Nat
    BY <1>2 DEF AccessInv, AccessType, FailuresBounded, AccessAssumption
  <2>4. failed' + Cardinality(after) <= LoginMaxFail + Cardinality(APICall) - 1
    BY <2>2, <2>3
  <2>5. QED
    BY <2>3, <2>4 DEF FailuresBounded, after
<1>6. QED
  BY <1>4, <1>5 DEF AccessInv

LEMMA ArriveInv ==
  ASSUME AccessAssumption, AccessInv, NEW r \in APICall, Arrive(r)
  PROVE  AccessInv'
<1>1. PICK route \in Route, by \in Bearer :
        Begins(r, [at |-> "arrived", route |-> route, by |-> by])
  BY DEF Arrive, Bearer, AccessInv, AccessType
<1> DEFINE job == [at |-> "arrived", route |-> route, by |-> by]
<1>2. UNCHANGED <<account, apiToken, sessions, failed, cooling>>
  BY DEF Arrive
<1>3. job \in CallJob /\ job.at = "arrived"
  BY DEF CallJob
<1>4. AccessType' /\ EntitledNow'
  BY <1>1, <1>2, <1>3, BeginsInv
<1>5. LoggingIn' \subseteq LoggingIn
  <2>1. handling'[r] = job /\ \A q \in APICall \ {r} : handling'[q] = handling[q]
    BY <1>1, <1>3, RequestType DEF Begins, AccessInv
  <2>2. QED
    BY <1>3, <2>1 DEF LoggingIn
<1>6. FailuresBounded'
  BY <1>2, <1>5, NoNewLogin
<1>7. QED
  BY <1>4, <1>6 DEF AccessInv

\* A step of one request that changes no row: what is left to show is that the
\* request may be where it comes to.
LEMMA RequestInv ==
  ASSUME AccessAssumption, AccessInv, NEW r \in APICall,
         NEW job \in {Quiet} \cup LoginJob \cup VerifyJob \cup CallJob, Handling(r, job),
         UNCHANGED <<account, apiToken>>,
         sessions' \in SUBSET (User \X Role),
         \/ UNCHANGED entitled
         \/ entitled' = [entitled EXCEPT ![r] = FALSE] /\ job = Quiet,
         job # Quiet =>
           /\ ~Free(r)
           /\ Entitles(account, apiToken, job) => Entitles(account, apiToken, handling[r])
           /\ job.at = "verify" /\ job.row.state = "active" /\ job.row.password = job.password
              => entitled[r]
           /\ job.at \in {"admitted", "handled", "signed"} => entitled[r],
         failed' \in Nat, cooling' \in BOOLEAN
  PROVE  AccessType' /\ EntitledNow'
<1>1. /\ handling' \in [APICall -> {Quiet} \cup LoginJob \cup VerifyJob \cup CallJob]
      /\ handling'[r] = job /\ \A q \in APICall \ {r} : handling'[q] = handling[q]
  BY RequestType DEF AccessInv
<1>2. /\ entitled' \in [APICall -> BOOLEAN]
      /\ job # Quiet => entitled'[r] = entitled[r]
      /\ \A q \in APICall \ {r} : entitled'[q] = entitled[q]
  BY DEF AccessInv, AccessType
<1>3. AccessType'
  BY <1>1, <1>2 DEF AccessInv, AccessType
<1>4. ASSUME NEW q \in APICall
      PROVE  /\ ~Free(q)' /\ Entitles(account, apiToken, handling[q])' => entitled'[q]
             /\ handling'[q].at = "verify" /\ Verified(q)' => entitled'[q]
             /\ handling'[q].at \in {"admitted", "handled", "signed"} => entitled'[q]
  <2>1. CASE q # r
    BY <1>1, <1>2, <2>1, OthersEntitled
  <2>2. CASE q = r /\ job = Quiet
    BY <1>1, <2>2 DEF Free, Quiet
  <2>3. CASE q = r /\ job # Quiet
    <3>1. Entitles(account, apiToken, handling[r]) => entitled[r]
      BY <2>3 DEF AccessInv, EntitledNow
    <3>2. Entitles(account, apiToken, handling[q])' <=> Entitles(account, apiToken, job)
      BY <1>1, <2>3
    <3>3. QED
      BY <1>1, <1>2, <2>3, <3>1, <3>2 DEF Verified
  <2>4. QED
    BY <2>1, <2>2, <2>3
<1>5. EntitledNow'
  BY <1>4 DEF EntitledNow
<1>6. QED
  BY <1>3, <1>5

LEMMA ReadAccountInv ==
  ASSUME AccessAssumption, AccessInv, NEW r \in APICall, ReadAccount(r)
  PROVE  AccessInv'
<1> DEFINE job == [at |-> "verify", user |-> handling[r].user, password |-> handling[r].password,
                   row |-> account[handling[r].user]]
<1>1. handling[r] \in LoginJob /\ handling[r].at = "login"
  BY JobFields DEF ReadAccount, AccessInv
<1>2. job \in VerifyJob
  BY <1>1 DEF LoginJob, VerifyJob, AccessInv, AccessType
<1>3. /\ Handling(r, job)
      /\ UNCHANGED <<account, apiToken, sessions, failed, cooling, entitled>>
  BY DEF ReadAccount
<1>4. ~Free(r) /\ job # Quiet
  BY <1>1 DEF Free, Quiet
<1>5. /\ Entitles(account, apiToken, job) <=> Entitles(account, apiToken, handling[r])
      /\ job.row.state = "active" /\ job.row.password = job.password
         => Entitles(account, apiToken, handling[r])
  BY <1>1 DEF Entitles, Signing
<1>6. Entitles(account, apiToken, handling[r]) => entitled[r]
  BY <1>4 DEF AccessInv, EntitledNow
<1>7. /\ sessions' \in SUBSET (User \X Role) /\ failed' \in Nat /\ cooling' \in BOOLEAN
  BY <1>3 DEF AccessInv, AccessType
<1>8. job.at = "verify"
  OBVIOUS
<1> HIDE DEF job
<1>9. AccessType' /\ EntitledNow'
  BY <1>2, <1>3, <1>4, <1>5, <1>6, <1>7, <1>8, RequestInv
<1>10. LoggingIn' \subseteq LoggingIn
  BY <1>1, <1>2, <1>3, RequestType DEF LoggingIn, AccessInv
<1>11. QED
  BY <1>3, <1>9, <1>10, NoNewLogin DEF AccessInv

LEMMA LoginSucceedsInv ==
  ASSUME AccessAssumption, AccessInv, NEW r \in APICall, LoginSucceeds(r)
  PROVE  AccessInv'
<1> DEFINE job == [at |-> "signed", user |-> handling[r].user, password |-> handling[r].password]
<1>1. handling[r] \in VerifyJob /\ handling[r].at = "verify" /\ Verified(r)
  BY JobFields DEF LoginSucceeds, AccessInv
<1>2. job \in LoginJob
  BY <1>1 DEF LoginJob, VerifyJob
<1>3. /\ Handling(r, job) /\ failed' = 0 /\ cooling' = FALSE
      /\ UNCHANGED <<account, apiToken, entitled>>
      /\ sessions' = sessions \cup {<<handling[r].user, handling[r].row.role>>}
  BY DEF LoginSucceeds
<1>4. ~Free(r) /\ job # Quiet
  BY <1>1 DEF Free, Quiet
<1>5. Entitles(account, apiToken, job) <=> Entitles(account, apiToken, handling[r])
  BY <1>1 DEF Entitles, Signing
<1>6. entitled[r]
  BY <1>1 DEF AccessInv, EntitledNow
<1>7. sessions' \in SUBSET (User \X Role)
  BY <1>1, <1>3 DEF AccessInv, AccessType, VerifyJob, Account
<1>8. job.at = "signed"
  OBVIOUS
<1> HIDE DEF job
<1>9. AccessType' /\ EntitledNow'
  BY <1>2, <1>3, <1>4, <1>5, <1>6, <1>7, <1>8, RequestInv
<1>10. LoggingIn' \subseteq LoggingIn
  BY <1>1, <1>2, <1>3, RequestType DEF LoggingIn, AccessInv
<1>11. QED
  BY <1>3, <1>9, <1>10, NoNewLogin DEF AccessInv

\* A failure is counted, and there is one login less to come.
LEMMA LoginFailsInv ==
  ASSUME AccessAssumption, AccessInv, NEW r \in APICall, LoginFails(r)
  PROVE  AccessInv'
<1>1. handling[r].at = "verify" /\ ~Free(r)
  BY DEF LoginFails, Free, Quiet
<1>2. /\ Handling(r, Quiet) /\ failed' = failed + 1
      /\ cooling' = (cooling \/ failed + 1 >= LoginMaxFail)
      /\ entitled' = [entitled EXCEPT ![r] = FALSE]
      /\ UNCHANGED <<account, apiToken, sessions>>
  BY DEF LoginFails, Ends
<1>3. /\ sessions' \in SUBSET (User \X Role) /\ failed' \in Nat /\ cooling' \in BOOLEAN
  BY <1>2 DEF AccessInv, AccessType
<1>4. AccessType' /\ EntitledNow'
  BY <1>2, <1>3, RequestInv
<1> DEFINE before == LoggingIn
           after == LoggingIn'
<1>5. before \in SUBSET APICall /\ r \in before /\ after = before \ {r}
  BY <1>1, <1>2, RequestType DEF LoggingIn, AccessInv, Quiet
<1>6. FailuresBounded' <=>
        /\ failed' + Cardinality(after) <= LoginMaxFail + Cardinality(APICall) - 1
        /\ ~cooling' => failed' < LoginMaxFail
  BY DEF FailuresBounded
<1>7. /\ failed + Cardinality(before) <= LoginMaxFail + Cardinality(APICall) - 1
      /\ failed \in Nat /\ LoginMaxFail \in Nat \ {0} /\ cooling \in BOOLEAN
  BY DEF AccessInv, FailuresBounded, AccessType, AccessAssumption
<1> HIDE DEF before, after
<1>8. /\ Cardinality(before) \in Nat /\ Cardinality(APICall) \in Nat
      /\ Cardinality(after) = Cardinality(before) - 1
  BY <1>5, SomeLogins
<1>9. failed' + Cardinality(after) <= LoginMaxFail + Cardinality(APICall) - 1
  BY <1>2, <1>7, <1>8
<1>10. ~cooling' => failed' < LoginMaxFail
  <2>1. ~cooling' => ~(failed + 1 >= LoginMaxFail)
    BY <1>2, Zenon
  <2>2. QED
    BY <1>2, <1>7, <2>1
<1>11. QED
  BY <1>4, <1>6, <1>9, <1>10 DEF AccessInv

\* A step that concerns the guard and the sessions only.
LEMMA GuardInv ==
  ASSUME AccessAssumption, AccessInv, UNCHANGED <<account, apiToken, handling, entitled>>,
         sessions' \in SUBSET sessions,
         UNCHANGED <<failed, cooling>> \/ (failed' = 0 /\ cooling' = FALSE)
  PROVE  AccessInv'
<1>1. AccessType'
  <2>1. failed' \in Nat /\ cooling' \in BOOLEAN
    <3>1. failed \in Nat /\ cooling \in BOOLEAN
      BY DEF AccessInv, AccessType
    <3>2. CASE UNCHANGED <<failed, cooling>>
      BY <3>1, <3>2
    <3>3. CASE failed' = 0 /\ cooling' = FALSE
      BY <3>3
    <3>4. QED
      BY <3>2, <3>3
  <2>2. sessions' \in SUBSET (User \X Role)
    BY DEF AccessInv, AccessType
  <2>3. QED
    BY <2>1, <2>2 DEF AccessInv, AccessType
<1>2. EntitledNow'
  BY DEF AccessInv, EntitledNow, Free, Verified
<1>3. LoggingIn' \subseteq LoggingIn
  BY DEF LoggingIn
<1>4. FailuresBounded'
  BY <1>3, NoNewLogin
<1>5. QED
  BY <1>1, <1>2, <1>4 DEF AccessInv

LEMMA ForgetGuardInv ==
  ASSUME AccessAssumption, AccessInv, ForgetGuard
  PROVE  AccessInv'
<1>1. \A r \in APICall : handling'[r] = Quiet /\ ~entitled'[r]
  BY DEF ForgetGuard
<1>2. AccessType'
  BY DEF AccessInv, AccessType, ForgetGuard
<1>3. EntitledNow'
  BY <1>1 DEF EntitledNow, Free, Quiet
<1>4. LoggingIn' \subseteq LoggingIn
  BY <1>1 DEF LoggingIn, Quiet
<1>5. FailuresBounded'
  BY <1>4, NoNewLogin DEF ForgetGuard
<1>6. QED
  BY <1>2, <1>3, <1>5 DEF AccessInv

-----------------------------------------------------------------------------
\* What the middleware lets through, the rows allow now.
LEMMA SubjectIsEntitled ==
  ASSUME AccessAssumption, AccessInv, NEW r \in APICall, handling[r].at = "arrived",
         \E sub \in Subject(handling[r].by) : Allowed(sub, handling[r].route)
  PROVE  Entitles(account, apiToken, handling[r])
<1> DEFINE by == handling[r].by
<1>1. by \in Bearer
  BY JobFields DEF AccessInv, CallJob
<1>2. CASE by[1] = "token"
  BY <1>2 DEF Subject, ValidToken, Entitles, Signing
<1>3. CASE by[1] # "token"
  BY <1>3 DEF Subject, ValidUser, Entitles, Signing
<1>4. QED
  BY <1>2, <1>3

\* Steps of a call that is let through, or ends.
LEMMA CallInv ==
  ASSUME AccessAssumption, AccessInv, NEW r \in APICall, NEW to \in {"admitted", "handled"},
         handling[r].at \in {"arrived", "admitted"}, entitled[r],
         Handling(r, Now(r, to)),
         UNCHANGED <<account, apiToken, sessions, failed, cooling, entitled>>
  PROVE  AccessInv'
<1> DEFINE job == Now(r, to)
<1>1. handling[r] \in CallJob
  BY JobFields DEF AccessInv
<1>2. job \in CallJob /\ job.at = to /\ job.by = handling[r].by /\ job.route = handling[r].route
  BY <1>1 DEF CallJob, Now
<1>3. ~Free(r) /\ job # Quiet
  BY <1>2 DEF Free, Quiet
<1> HIDE DEF job
<1>4. Entitles(account, apiToken, job) <=> Entitles(account, apiToken, handling[r])
  BY <1>2 DEF Entitles, Signing
<1>5. sessions' \in SUBSET (User \X Role) /\ failed' \in Nat /\ cooling' \in BOOLEAN
  BY DEF AccessInv, AccessType
<1>6. Handling(r, job)
  BY DEF job
<1>7. AccessType' /\ EntitledNow'
  BY <1>2, <1>3, <1>4, <1>5, <1>6, RequestInv
<1>8. LoggingIn' \subseteq LoggingIn
  BY <1>2, <1>6, RequestType DEF LoggingIn, AccessInv
<1>9. QED
  BY <1>7, <1>8, NoNewLogin DEF AccessInv

\* The end of a request, with whatever answer.
LEMMA EndsInv ==
  ASSUME AccessAssumption, AccessInv, NEW r \in APICall, Ends(r),
         UNCHANGED <<account, apiToken, sessions, failed, cooling>>
  PROVE  AccessInv'
<1>1. Handling(r, Quiet) /\ entitled' = [entitled EXCEPT ![r] = FALSE]
  BY DEF Ends
<1>2. sessions' \in SUBSET (User \X Role) /\ failed' \in Nat /\ cooling' \in BOOLEAN
  BY DEF AccessInv, AccessType
<1>3. AccessType' /\ EntitledNow'
  BY <1>1, <1>2, RequestInv
<1>4. LoggingIn' \subseteq LoggingIn
  BY <1>1, RequestType DEF LoggingIn, AccessInv, Quiet
<1>5. QED
  BY <1>3, <1>4, NoNewLogin DEF AccessInv

LEMMA AuthenticateInv ==
  ASSUME AccessAssumption, AccessInv, NEW r \in APICall, Authenticate(r)
  PROVE  AccessInv'
<1>1. /\ handling[r].at = "arrived"
      /\ UNCHANGED <<account, apiToken, sessions, failed, cooling>>
  BY DEF Authenticate
<1>2. CASE /\ \E sub \in Subject(handling[r].by) : Allowed(sub, handling[r].route)
           /\ Handling(r, Now(r, "admitted")) /\ UNCHANGED entitled
  <2>1. Entitles(account, apiToken, handling[r])
    BY <1>1, <1>2, SubjectIsEntitled
  <2>2. entitled[r]
    BY <1>1, <2>1 DEF AccessInv, EntitledNow, Free, Quiet
  <2>3. QED
    BY <1>1, <1>2, <2>2, CallInv
<1>3. CASE Ends(r)
  BY <1>1, <1>3, EndsInv
<1>4. QED
  BY <1>2, <1>3 DEF Authenticate

LEMMA AnswerInv ==
  ASSUME AccessAssumption, AccessInv, NEW r \in APICall, Answer(r)
  PROVE  AccessInv'
<1>1. handling[r].at = "admitted" /\ entitled[r]
  BY DEF Answer, AccessInv, EntitledNow
<1>2. QED
  BY <1>1, CallInv DEF Answer

-----------------------------------------------------------------------------
\* A step that changes rows: requests under way keep what they were entitled to,
\* and gain what the new rows allow them.
LEMMA ChangedInv ==
  ASSUME AccessAssumption, AccessInv, Changed,
         account' \in [User -> Account],
         apiToken' \in [APIToken -> [state : {"none", "active", "revoked", "expired"}, scopes : Scopes]],
         UNCHANGED <<sessions, failed, cooling>>,
         \/ UNCHANGED handling
         \/ \E r \in APICall : handling[r].at = "admitted" /\ Handling(r, Now(r, "handled"))
  PROVE  AccessInv'
<1>1. \A q \in APICall :
        /\ entitled'[q] \in BOOLEAN
        /\ entitled'[q] <=> entitled[q] \/ (~Free(q) /\ Entitles(account', apiToken', handling[q]))
  <2>1. \A q \in APICall : entitled[q] \in BOOLEAN /\ Entitles(account', apiToken', handling[q]) \in BOOLEAN
    BY DEF AccessInv, AccessType, Entitles
  <2>2. QED
    BY <2>1, Zenon DEF Changed
<1>2. ASSUME NEW q \in APICall
      PROVE  /\ handling'[q] \in {Quiet} \cup LoginJob \cup VerifyJob \cup CallJob
             /\ \/ handling'[q] = handling[q]
                \/ /\ handling[q].at = "admitted" /\ handling'[q].at = "handled"
                   /\ handling'[q].by = handling[q].by /\ handling'[q].route = handling[q].route
  <2>1. CASE UNCHANGED handling
    BY <2>1, JobFields DEF AccessInv
  <2>2. ASSUME NEW r \in APICall, handling[r].at = "admitted", Handling(r, Now(r, "handled"))
        PROVE  /\ handling'[q] \in {Quiet} \cup LoginJob \cup VerifyJob \cup CallJob
               /\ \/ handling'[q] = handling[q]
                  \/ /\ handling[q].at = "admitted" /\ handling'[q].at = "handled"
                     /\ handling'[q].by = handling[q].by
                     /\ handling'[q].route = handling[q].route
    <3>1. handling[r] \in CallJob
      BY <2>2, JobFields DEF AccessInv
    <3>2. /\ Now(r, "handled") \in CallJob /\ Now(r, "handled").at = "handled"
          /\ Now(r, "handled").by = handling[r].by /\ Now(r, "handled").route = handling[r].route
      BY <3>1 DEF Now, CallJob
    <3>3. /\ handling'[r] = Now(r, "handled") /\ \A p \in APICall \ {r} : handling'[p] = handling[p]
      BY <2>2, <3>2, RequestType DEF AccessInv
    <3>4. CASE q = r
      BY <2>2, <3>2, <3>3, <3>4
    <3>5. CASE q # r
      BY <3>3, <3>5, JobFields DEF AccessInv
    <3>6. QED
      BY <3>4, <3>5
  <2>3. QED
    BY <2>1, <2>2
<1>3. AccessType'
  <2>1. handling' \in [APICall -> {Quiet} \cup LoginJob \cup VerifyJob \cup CallJob]
    <3>1. handling' = [q \in APICall |-> handling'[q]]
      BY DEF Handling, AccessInv, AccessType
    <3>2. QED
      BY <1>2, <3>1
  <2>2. entitled' \in [APICall -> BOOLEAN]
    <3>1. entitled' = [q \in APICall |-> entitled'[q]]
      BY DEF Changed
    <3>2. QED
      BY <1>1, <3>1
  <2>3. QED
    BY <2>1, <2>2 DEF AccessInv, AccessType
<1>4. ASSUME NEW q \in APICall
      PROVE  /\ ~Free(q)' /\ Entitles(account, apiToken, handling[q])' => entitled'[q]
             /\ handling'[q].at = "verify" /\ Verified(q)' => entitled'[q]
             /\ handling'[q].at \in {"admitted", "handled", "signed"} => entitled'[q]
  <2>1. /\ handling[q].at = "verify" /\ Verified(q) => entitled[q]
        /\ handling[q].at \in {"admitted", "handled", "signed"} => entitled[q]
    BY DEF AccessInv, EntitledNow
  <2>2. CASE handling'[q] = handling[q]
    BY <1>1, <2>1, <2>2 DEF Free, Verified
  <2>3. CASE handling'[q] # handling[q]
    BY <1>1, <1>2, <2>1, <2>3
  <2>4. QED
    BY <2>2, <2>3
<1>5. EntitledNow'
  BY <1>4 DEF EntitledNow
<1>6. LoggingIn' \subseteq LoggingIn
  BY <1>2 DEF LoggingIn
<1>7. QED
  BY <1>3, <1>5, <1>6, NoNewLogin DEF AccessInv

LEMMA ManageInv ==
  ASSUME AccessAssumption, AccessInv, NEW r \in APICall, Manage(r)
  PROVE  AccessInv'
<1>1. account' \in [User -> Account]
  BY DEF Manage, ChangePassword, Issue, Revoke, AccessInv, AccessType, Account
<1>2. apiToken' \in [APIToken -> [state : {"none", "active", "revoked", "expired"}, scopes : Scopes]]
  BY DEF Manage, ChangePassword, Issue, Revoke, CreateRow, RevokeRow, AccessInv, AccessType
<1>3. QED
  BY <1>1, <1>2, ChangedInv DEF Manage

LEMMA ChangeAccountInv ==
  ASSUME AccessAssumption, AccessInv, NEW u \in User, ChangeAccount(u)
  PROVE  AccessInv'
<1>1. account' \in [User -> Account]
  BY DEF ChangeAccount, AccessInv, AccessType, Account
<1>2. QED
  BY <1>1, ChangedInv DEF ChangeAccount, AccessInv, AccessType

LEMMA TokenExpiresInv ==
  ASSUME AccessAssumption, AccessInv, NEW t \in APIToken, TokenExpires(t)
  PROVE  AccessInv'
<1>1. apiToken' \in [APIToken -> [state : {"none", "active", "revoked", "expired"}, scopes : Scopes]]
  BY DEF TokenExpires, AccessInv, AccessType
<1>2. QED
  BY <1>1, ChangedInv DEF TokenExpires, AccessInv, AccessType

\* Every step keeps the invariant.
LEMMA AccessStepInv == AccessInv /\ [AccessNext]_accessVars => AccessInv'
<1>1. SUFFICES ASSUME AccessInv, [AccessNext]_accessVars PROVE AccessInv'
  OBVIOUS
<1> USE AccessAssumption
<1>2. ASSUME NEW r \in APICall, LogIn(r) PROVE AccessInv'
  BY <1>1, <1>2, LoginAllowedInv, ReadAccountInv, LoginSucceedsInv, LoginFailsInv DEF LogIn
<1>3. ASSUME NEW r \in APICall, CallAPI(r) PROVE AccessInv'
  BY <1>1, <1>3, ArriveInv, AuthenticateInv, ManageInv, AnswerInv, EndsInv DEF CallAPI, CallEnds
<1>4. ASSUME NEW u \in User, ChangeAccount(u) PROVE AccessInv'
  BY <1>1, <1>4, ChangeAccountInv
<1>5. ASSUME NEW s \in sessions, SessionExpires(s) PROVE AccessInv'
  BY <1>1, <1>5, GuardInv DEF SessionExpires
<1>6. ASSUME NEW t \in APIToken, TokenExpires(t) PROVE AccessInv'
  BY <1>1, <1>6, TokenExpiresInv
<1>7. CASE CooldownEnds
  BY <1>1, <1>7, GuardInv DEF CooldownEnds
<1>8. CASE ForgetGuard
  BY <1>1, <1>8, ForgetGuardInv
<1>9. CASE UNCHANGED accessVars
  BY <1>1, <1>9, GuardInv DEF accessVars
<1>10. QED
  BY <1>1, <1>2, <1>3, <1>4, <1>5, <1>6, <1>7, <1>8, <1>9 DEF AccessNext

-----------------------------------------------------------------------------
\* The inductive invariant of access control: what the rows allow a request now,
\* or allowed it when a login read them, is on record for it, and the logins under
\* way are counted as failures still to come.
THEOREM AccessInvariant == AccessSpec => []AccessInv
BY AccessAssumption, AccessInitInv, AccessStepInv, PTL DEF AccessSpec

\* For any number of accounts, tokens and concurrent requests: a request is let
\* through, and a session signed, only if rows that were current at some time
\* since it came allow it, and the guard counts no more failures than the limit
\* and the logins that were under way when it was reached.
THEOREM AccessFollowsTheRows == AccessSpec => []AccessCurrent
<1>1. AccessInv => AccessCurrent
  <2>1. SUFFICES ASSUME AccessInv PROVE AccessCurrent
    OBVIOUS
  <2>2. LoggingIn \in SUBSET APICall
    BY DEF LoggingIn
  <2>3. Cardinality(LoggingIn) \in Nat /\ Cardinality(APICall) \in Nat
    BY <2>2, SomeLogins, AccessAssumption
  <2>4. failed <= LoginMaxFail + Cardinality(APICall) - 1
    BY <2>1, <2>3, AccessAssumption DEF AccessInv, AccessType, FailuresBounded, AccessAssumption
  <2>5. QED
    BY <2>1, <2>4 DEF AccessInv, EntitledNow, AccessCurrent
<1>2. QED
  BY <1>1, AccessInvariant, PTL

-----------------------------------------------------------------------------
(* Registration *)

AttemptStep == {"sent", "lookup", "create", "refund", "token", "granted", "refused"}
Attempt == [machine : Machine, at : AttemptStep, host : Nat]

\* Every variable stays in its range.
EnrolType ==
  /\ usedCount \in Nat
  /\ hosts \in SUBSET [id : Nat, uuid : Machine \cup {0}] /\ nextHost \in Nat
  /\ attempt \in Seq(Attempt)
  /\ trying \in [Machine -> Nat]
  /\ saving \in [Machine -> {"none", "token", "credentials", "host_id"}]
  /\ tokenFile \in [Machine -> Nat] /\ hostFile \in [Machine -> Nat]
  /\ credFile \in [Machine -> Nat \X Nat]

\* An agent writes its files for a registration of its own that was granted, and
\* host_id.txt only when credentials.json, which says the same, is there.
FilesOfGrant ==
  \A m \in Machine :
    /\ trying[m] # 0 => trying[m] \in DOMAIN attempt /\ attempt[trying[m]].machine = m
    /\ saving[m] # "none" => trying[m] # 0 /\ attempt[trying[m]].at = "granted"
    /\ saving[m] = "host_id" \/ hostFile[m] # 0 => credFile[m] # <<0, 0>>
    /\ credFile[m] # <<0, 0>> =>
         \E a \in DOMAIN attempt :
           /\ attempt[a].at = "granted" /\ attempt[a].machine = m
           /\ credFile[m] = <<a, attempt[a].host>>

\* A token is for a registration that was granted; it, and every one between
\* Consume and its end, has used the code once.
Uses == tokens \cup Consumed
CodeCounted ==
  /\ \A a \in tokens : a \in DOMAIN attempt /\ attempt[a].at = "granted"
  /\ Cardinality(Uses) <= usedCount /\ usedCount <= MaxUses

HostsUnique == \A g, h \in hosts : g.uuid = h.uuid /\ g.uuid # 0 => g = h

EnrolInv == EnrolType /\ FilesOfGrant /\ CodeCounted /\ HostsUnique

-----------------------------------------------------------------------------
\* Registrations go on: a granted one stays as it is.
GrantsStay ==
  /\ DOMAIN attempt \subseteq DOMAIN attempt'
  /\ \A a \in DOMAIN attempt :
       /\ attempt'[a].machine = attempt[a].machine
       /\ attempt[a].at = "granted" => attempt'[a] = attempt[a]

LEMMA FilesStay ==
  ASSUME FilesOfGrant, GrantsStay, UNCHANGED <<trying, saving, fileVars>>
  PROVE  FilesOfGrant'
<1> SUFFICES ASSUME NEW m \in Machine
             PROVE  /\ trying'[m] # 0 => trying'[m] \in DOMAIN attempt' /\ attempt'[trying'[m]].machine = m
                    /\ saving'[m] # "none" => trying'[m] # 0 /\ attempt'[trying'[m]].at = "granted"
                    /\ saving'[m] = "host_id" \/ hostFile'[m] # 0 => credFile'[m] # <<0, 0>>
                    /\ credFile'[m] # <<0, 0>> =>
                         \E a \in DOMAIN attempt' :
                           /\ attempt'[a].at = "granted" /\ attempt'[a].machine = m
                           /\ credFile'[m] = <<a, attempt'[a].host>>
  BY DEF FilesOfGrant
<1>1. UNCHANGED <<trying, saving, credFile, hostFile>>
  BY DEF fileVars
<1>2. credFile[m] # <<0, 0>> =>
        \E a \in DOMAIN attempt' :
          /\ attempt'[a].at = "granted" /\ attempt'[a].machine = m
          /\ credFile[m] = <<a, attempt'[a].host>>
  BY DEF FilesOfGrant, GrantsStay
<1>3. QED
  BY <1>1, <1>2 DEF FilesOfGrant, GrantsStay

\* One registration takes a step.
LEMMA AttemptMoves ==
  ASSUME EnrolType, NEW a \in DOMAIN attempt, NEW rec \in Attempt,
         attempt' = [attempt EXCEPT ![a] = rec]
  PROVE  /\ attempt' \in Seq(Attempt) /\ DOMAIN attempt' = DOMAIN attempt
         /\ attempt'[a] = rec /\ \A b \in DOMAIN attempt \ {a} : attempt'[b] = attempt[b]
<1>1. attempt \in Seq(Attempt) /\ DOMAIN attempt = 1..Len(attempt) /\ Len(attempt) \in Nat
  BY LenProperties DEF EnrolType
<1>2. /\ attempt' \in Seq(Attempt) /\ Len(attempt') = Len(attempt)
      /\ \A b \in 1..Len(attempt) : attempt'[b] = IF b = a THEN rec ELSE attempt[b]
  BY <1>1, ExceptSeq
<1>3. DOMAIN attempt' = 1..Len(attempt')
  BY <1>2, LenProperties
<1>4. QED
  BY <1>1, <1>2, <1>3

LEMMA ToMoves ==
  ASSUME EnrolType, NEW a \in DOMAIN attempt, NEW step \in AttemptStep, To(a, step)
  PROVE  /\ attempt' \in Seq(Attempt) /\ DOMAIN attempt' = DOMAIN attempt
         /\ attempt'[a].at = step /\ attempt'[a].machine = attempt[a].machine
         /\ \A b \in DOMAIN attempt \ {a} : attempt'[b] = attempt[b]
<1> DEFINE rec == [attempt[a] EXCEPT !.at = step]
<1>1. attempt[a] \in Attempt
  BY ElementOfSeq, LenProperties DEF EnrolType
<1>2. rec \in Attempt /\ rec.at = step /\ rec.machine = attempt[a].machine
  BY <1>1 DEF Attempt
<1>3. attempt' = [attempt EXCEPT ![a] = rec]
  BY DEF To
<1> HIDE DEF rec
<1>4. QED
  BY <1>2, <1>3, AttemptMoves

LEMMA GrantMoves ==
  ASSUME EnrolType, NEW a \in DOMAIN attempt, NEW host \in Nat,
         attempt' = [attempt EXCEPT ![a].at = "token", ![a].host = host]
  PROVE  /\ attempt' \in Seq(Attempt) /\ DOMAIN attempt' = DOMAIN attempt
         /\ attempt'[a].at = "token" /\ attempt'[a].machine = attempt[a].machine
         /\ \A b \in DOMAIN attempt \ {a} : attempt'[b] = attempt[b]
<1> DEFINE rec == [attempt[a] EXCEPT !.at = "token", !.host = host]
<1>1. attempt[a] \in Attempt
  BY ElementOfSeq, LenProperties DEF EnrolType
<1>2. rec \in Attempt /\ rec.at = "token" /\ rec.machine = attempt[a].machine
  BY <1>1 DEF Attempt, AttemptStep
<1>3. attempt' = [attempt EXCEPT ![a] = rec]
  BY <1>1 DEF Attempt, EnrolType
<1> HIDE DEF rec
<1>4. QED
  BY <1>2, <1>3, AttemptMoves

\* How many have used the code: registrations are finitely many.
LEMMA UsesFinite ==
  ASSUME EnrolType, CodeCounted
  PROVE  /\ IsFiniteSet(Uses) /\ Cardinality(Uses) \in Nat
         /\ \A U \in SUBSET Uses : Cardinality(U) \in Nat /\ Cardinality(U) <= Cardinality(Uses)
         /\ \A a : Cardinality(Uses \cup {a}) \in Nat /\ Cardinality(Uses \cup {a}) <= Cardinality(Uses) + 1
         /\ \A a \in Uses : Cardinality(Uses \ {a}) = Cardinality(Uses) - 1
<1>1. DOMAIN attempt = 1..Len(attempt) /\ Len(attempt) \in Nat
  BY LenProperties DEF EnrolType
<1>2. Uses \in SUBSET (1..Len(attempt))
  BY <1>1 DEF CodeCounted, Uses, Consumed
<1>3. IsFiniteSet(1..Len(attempt))
  BY <1>1, FS_Interval
<1>4. IsFiniteSet(Uses)
  BY <1>2, <1>3, FS_Subset
<1>5. Cardinality(Uses) \in Nat
  BY <1>4, FS_CardinalityType
<1>6. ASSUME NEW U \in SUBSET Uses
      PROVE  Cardinality(U) \in Nat /\ Cardinality(U) <= Cardinality(Uses)
  BY <1>4, FS_Subset, FS_CardinalityType
<1>7. ASSUME NEW a
      PROVE  Cardinality(Uses \cup {a}) \in Nat /\ Cardinality(Uses \cup {a}) <= Cardinality(Uses) + 1
  BY <1>4, <1>5, FS_AddElement
<1>8. ASSUME NEW a \in Uses
      PROVE  Cardinality(Uses \ {a}) = Cardinality(Uses) - 1
  BY <1>4, FS_RemoveElement
<1>9. QED
  BY <1>4, <1>5, <1>6, <1>7, <1>8

\* Nobody begins to use the code: it stays counted.
LEMMA NoNewUse ==
  ASSUME EnrolType, CodeCounted, Uses' \subseteq Uses, UNCHANGED usedCount,
         \A a \in tokens' : a \in DOMAIN attempt' /\ attempt'[a].at = "granted"
  PROVE  CodeCounted'
<1> DEFINE after == Uses'
<1>1. after \in SUBSET Uses
  OBVIOUS
<1> HIDE DEF after
<1>2. /\ Cardinality(after) \in Nat /\ Cardinality(Uses) \in Nat
      /\ Cardinality(after) <= Cardinality(Uses)
  BY <1>1, UsesFinite
<1>3. Cardinality(after) <= usedCount
  BY <1>2 DEF CodeCounted, EnrolType
<1>4. QED
  BY <1>3 DEF CodeCounted, after

LEMMA EnrolInitInv == EnrolInit => EnrolInv
<1> SUFFICES ASSUME EnrolInit PROVE EnrolInv
  OBVIOUS
<1>1. attempt = <<>> /\ attempt \in Seq(Attempt) /\ DOMAIN attempt = {}
  BY DEF EnrolInit
<1>2. EnrolType
  BY <1>1 DEF EnrolInit, EnrolType
<1>3. FilesOfGrant
  BY DEF EnrolInit, FilesOfGrant
<1>4. Uses = {}
  BY <1>1 DEF EnrolInit, Uses, Consumed
<1>5. CodeCounted
  BY <1>4, FS_EmptySet, EnrolAssumption DEF EnrolInit, CodeCounted, EnrolAssumption
<1>6. HostsUnique
  BY DEF EnrolInit, HostsUnique
<1>7. QED
  BY <1>2, <1>3, <1>5, <1>6 DEF EnrolInv

\* A step of Enroll: one registration that is not granted goes on.
LEMMA EnrollStep ==
  ASSUME EnrolInv, NEW a \in DOMAIN attempt, attempt[a].at # "granted",
         attempt' \in Seq(Attempt), DOMAIN attempt' = DOMAIN attempt,
         attempt'[a].machine = attempt[a].machine,
         \A b \in DOMAIN attempt \ {a} : attempt'[b] = attempt[b],
         UNCHANGED <<trying, saving, fileVars>>
  PROVE  /\ FilesOfGrant'
         /\ usedCount' \in Nat /\ nextHost' \in Nat
            /\ hosts' \in SUBSET [id : Nat, uuid : Machine \cup {0}] => EnrolType'
         /\ tokens' \subseteq tokens =>
              \A b \in tokens' : b \in DOMAIN attempt' /\ attempt'[b].at = "granted"
<1>1. GrantsStay
  BY DEF GrantsStay
<1>2. FilesOfGrant'
  BY <1>1, FilesStay DEF EnrolInv
<1>3. usedCount' \in Nat /\ nextHost' \in Nat
      /\ hosts' \in SUBSET [id : Nat, uuid : Machine \cup {0}] => EnrolType'
  BY DEF EnrolInv, EnrolType, fileVars
<1>4. tokens' \subseteq tokens =>
        \A b \in tokens' : b \in DOMAIN attempt' /\ attempt'[b].at = "granted"
  BY DEF EnrolInv, CodeCounted
<1>5. QED
  BY <1>2, <1>3, <1>4

InUse == {"lookup", "create", "refund", "token"}

\* Its use of the code, if it has not begun one.
LEMMA SameUses ==
  ASSUME EnrolInv, NEW a \in DOMAIN attempt, DOMAIN attempt' = DOMAIN attempt,
         \A b \in DOMAIN attempt \ {a} : attempt'[b] = attempt[b],
         attempt[a].at \in InUse \/ attempt'[a].at \notin InUse,
         UNCHANGED tokens
  PROVE  Uses' \subseteq Uses
BY DEF Uses, Consumed, InUse

LEMMA ConsumeInv ==
  ASSUME EnrolInv, NEW a \in DOMAIN attempt, Consume(a)
  PROVE  EnrolInv'
<1>1. attempt[a].at = "sent" /\ UNCHANGED <<hosts, nextHost, tokens, trying, saving, fileVars>>
  BY DEF Consume, Reached, hostTable
<1>2. CASE usedCount < MaxUses /\ usedCount' = usedCount + 1 /\ To(a, "lookup")
  <2>1. /\ attempt' \in Seq(Attempt) /\ DOMAIN attempt' = DOMAIN attempt
        /\ attempt'[a].at = "lookup" /\ attempt'[a].machine = attempt[a].machine
        /\ \A b \in DOMAIN attempt \ {a} : attempt'[b] = attempt[b]
    BY <1>2, ToMoves DEF EnrolInv, AttemptStep
  <2>2. EnrolType' /\ FilesOfGrant' /\ \A b \in tokens' : b \in DOMAIN attempt' /\ attempt'[b].at = "granted"
    <3>1. /\ usedCount' \in Nat /\ nextHost' \in Nat
          /\ hosts' \in SUBSET [id : Nat, uuid : Machine \cup {0}]
      BY <1>1, <1>2 DEF EnrolInv, EnrolType
    <3>2. QED
      BY <1>1, <2>1, <3>1, EnrollStep
  <2> DEFINE after == Uses'
  <2>3. after \subseteq Uses \cup {a} /\ Uses \cup {a} \subseteq after
    BY <1>1, <2>1 DEF Uses, Consumed
  <2>4. after = Uses \cup {a}
    BY <2>3
  <2> HIDE DEF after
  <2>5. Cardinality(after) \in Nat /\ Cardinality(Uses) \in Nat /\ Cardinality(after) <= Cardinality(Uses) + 1
    BY <2>4, UsesFinite DEF EnrolInv
  <2>6. Cardinality(after) <= usedCount' /\ usedCount' <= MaxUses
    BY <1>2, <2>5, EnrolAssumption DEF EnrolInv, EnrolType, CodeCounted, EnrolAssumption
  <2>7. CodeCounted'
    BY <2>2, <2>6 DEF CodeCounted, after
  <2>8. QED
    BY <1>1, <2>2, <2>7 DEF EnrolInv, HostsUnique
<1>3. CASE To(a, "refused") /\ UNCHANGED usedCount
  <2>1. /\ attempt' \in Seq(Attempt) /\ DOMAIN attempt' = DOMAIN attempt
        /\ attempt'[a].at = "refused" /\ attempt'[a].machine = attempt[a].machine
        /\ \A b \in DOMAIN attempt \ {a} : attempt'[b] = attempt[b]
    BY <1>3, ToMoves DEF EnrolInv, AttemptStep
  <2>2. EnrolType' /\ FilesOfGrant' /\ \A b \in tokens' : b \in DOMAIN attempt' /\ attempt'[b].at = "granted"
    BY <1>1, <1>3, <2>1, EnrollStep DEF EnrolInv, EnrolType
  <2>3. Uses' \subseteq Uses
    BY <1>1, <2>1, SameUses DEF InUse
  <2>4. CodeCounted'
    BY <1>3, <2>2, <2>3, NoNewUse DEF EnrolInv
  <2>5. QED
    BY <1>1, <2>2, <2>4 DEF EnrolInv, HostsUnique
<1>4. QED
  BY <1>2, <1>3 DEF Consume

LEMMA LookupInv ==
  ASSUME EnrolInv, NEW a \in DOMAIN attempt, Lookup(a)
  PROVE  EnrolInv'
<1>1. /\ attempt[a].at = "lookup"
      /\ UNCHANGED <<usedCount, hosts, nextHost, tokens, trying, saving, fileVars>>
  BY DEF Lookup, Reached, hostTable, codeVars
<1>2. /\ attempt' \in Seq(Attempt) /\ DOMAIN attempt' = DOMAIN attempt
      /\ attempt'[a].machine = attempt[a].machine
      /\ \A b \in DOMAIN attempt \ {a} : attempt'[b] = attempt[b]
  <2>1. CASE To(a, "create")
    BY <2>1, ToMoves DEF EnrolInv, AttemptStep
  <2>2. ASSUME NEW h \in SameMachine(a),
               attempt' = [attempt EXCEPT ![a].at = "token", ![a].host = h.id]
        PROVE  /\ attempt' \in Seq(Attempt) /\ DOMAIN attempt' = DOMAIN attempt
               /\ attempt'[a].machine = attempt[a].machine
               /\ \A b \in DOMAIN attempt \ {a} : attempt'[b] = attempt[b]
    <3>1. h.id \in Nat
      BY DEF SameMachine, EnrolInv, EnrolType
    <3>2. QED
      BY <2>2, <3>1, GrantMoves DEF EnrolInv
  <2>3. QED
    BY <2>1, <2>2 DEF Lookup
<1>3. EnrolType' /\ FilesOfGrant' /\ \A b \in tokens' : b \in DOMAIN attempt' /\ attempt'[b].at = "granted"
  BY <1>1, <1>2, EnrollStep DEF EnrolInv, EnrolType
<1>4. Uses' \subseteq Uses
  BY <1>1, <1>2, SameUses DEF InUse
<1>5. CodeCounted'
  BY <1>1, <1>3, <1>4, NoNewUse DEF EnrolInv
<1>6. QED
  BY <1>1, <1>3, <1>5 DEF EnrolInv, HostsUnique

\* A host is only made for a fingerprint that has none.
LEMMA CreateHostInv ==
  ASSUME EnrolInv, NEW a \in DOMAIN attempt, CreateHost(a)
  PROVE  EnrolInv'
<1> DEFINE new == [id |-> nextHost,
                   uuid |-> IF attempt[a].machine \in NoUUID THEN 0 ELSE attempt[a].machine]
<1>1. /\ attempt[a].at = "create" /\ attempt[a].machine \in Machine
      /\ UNCHANGED <<usedCount, tokens, trying, saving, fileVars>>
  <2>1. attempt[a] \in Attempt
    BY ElementOfSeq, LenProperties DEF EnrolInv, EnrolType
  <2>2. QED
    BY <2>1 DEF CreateHost, Reached, codeVars, Attempt
<1>2. /\ attempt' \in Seq(Attempt) /\ DOMAIN attempt' = DOMAIN attempt
      /\ attempt'[a].machine = attempt[a].machine
      /\ \A b \in DOMAIN attempt \ {a} : attempt'[b] = attempt[b]
  <2>1. CASE To(a, "refund")
    BY <2>1, ToMoves DEF EnrolInv, AttemptStep
  <2>2. CASE attempt' = [attempt EXCEPT ![a].at = "token", ![a].host = nextHost]
    BY <2>2, GrantMoves DEF EnrolInv, EnrolType
  <2>3. QED
    BY <2>1, <2>2 DEF CreateHost
<1>3. \/ SameMachine(a) = {} /\ hosts' = hosts \cup {new} /\ nextHost' = nextHost + 1
      \/ UNCHANGED <<hosts, nextHost>>
  BY DEF CreateHost, hostTable
<1>4. new \in [id : Nat, uuid : Machine \cup {0}]
  BY <1>1 DEF EnrolInv, EnrolType
<1>5. SameMachine(a) = {} => \A h \in hosts : h.uuid = new.uuid => new.uuid = 0
  BY DEF SameMachine
<1> HIDE DEF new
<1>6. EnrolType' /\ FilesOfGrant' /\ \A b \in tokens' : b \in DOMAIN attempt' /\ attempt'[b].at = "granted"
  <2>1. nextHost' \in Nat /\ hosts' \in SUBSET [id : Nat, uuid : Machine \cup {0}]
    BY <1>3, <1>4 DEF EnrolInv, EnrolType
  <2>2. QED
    BY <1>1, <1>2, <2>1, EnrollStep DEF EnrolInv, EnrolType
<1>7. HostsUnique'
  BY <1>3, <1>5 DEF EnrolInv, HostsUnique
<1>8. Uses' \subseteq Uses
  BY <1>1, <1>2, SameUses DEF InUse
<1>9. CodeCounted'
  BY <1>1, <1>6, <1>8, NoNewUse DEF EnrolInv
<1>10. QED
  BY <1>6, <1>7, <1>9 DEF EnrolInv

\* The use of the code is given back; no token has been issued for it.
LEMMA RefundInv ==
  ASSUME EnrolInv, NEW a \in DOMAIN attempt, Refund(a)
  PROVE  EnrolInv'
<1>1. /\ attempt[a].at = "refund" /\ To(a, "refused")
      /\ usedCount' = (IF usedCount > 0 THEN usedCount - 1 ELSE 0)
      /\ UNCHANGED <<hosts, nextHost, tokens, trying, saving, fileVars>>
  BY DEF Refund, Reached, hostTable
<1>2. /\ attempt' \in Seq(Attempt) /\ DOMAIN attempt' = DOMAIN attempt
      /\ attempt'[a].at = "refused" /\ attempt'[a].machine = attempt[a].machine
      /\ \A b \in DOMAIN attempt \ {a} : attempt'[b] = attempt[b]
  BY <1>1, ToMoves DEF EnrolInv, AttemptStep
<1>3. EnrolType' /\ FilesOfGrant' /\ \A b \in tokens' : b \in DOMAIN attempt' /\ attempt'[b].at = "granted"
  <2>1. usedCount' \in Nat
    BY <1>1 DEF EnrolInv, EnrolType
  <2>2. QED
    BY <1>1, <1>2, <2>1, EnrollStep DEF EnrolInv, EnrolType
<1> DEFINE after == Uses'
<1>4. a \in Uses /\ a \notin tokens
  BY <1>1 DEF Uses, Consumed, EnrolInv, CodeCounted
<1>5. after \subseteq Uses \ {a} /\ Uses \ {a} \subseteq after
  BY <1>1, <1>2, <1>4 DEF Uses, Consumed
<1>6. after = Uses \ {a}
  BY <1>5
<1> HIDE DEF after
<1>7. Cardinality(after) = Cardinality(Uses) - 1 /\ Cardinality(Uses) \in Nat
      /\ Cardinality(after) \in Nat
  BY <1>4, <1>6, UsesFinite DEF EnrolInv
<1>8. Cardinality(after) <= usedCount' /\ usedCount' <= MaxUses
  BY <1>1, <1>7, EnrolAssumption DEF EnrolInv, EnrolType, CodeCounted, EnrolAssumption
<1>9. CodeCounted'
  BY <1>3, <1>8 DEF CodeCounted, after
<1>10. QED
  BY <1>1, <1>3, <1>9 DEF EnrolInv, HostsUnique

LEMMA IssueTokenInv ==
  ASSUME EnrolInv, NEW a \in DOMAIN attempt, IssueToken(a)
  PROVE  EnrolInv'
<1>1. /\ attempt[a].at = "token"
      /\ UNCHANGED <<usedCount, hosts, nextHost, trying, saving, fileVars>>
  BY DEF IssueToken, Reached, hostTable, codeVars
<1>2. PICK step \in {"granted", "refused"} :
        /\ To(a, step)
        /\ \/ step = "granted" /\ tokens' = tokens \cup {a}
           \/ UNCHANGED tokens
  BY DEF IssueToken
<1>3. /\ attempt' \in Seq(Attempt) /\ DOMAIN attempt' = DOMAIN attempt
      /\ attempt'[a].at = step /\ attempt'[a].machine = attempt[a].machine
      /\ \A b \in DOMAIN attempt \ {a} : attempt'[b] = attempt[b]
  BY <1>2, ToMoves DEF EnrolInv, AttemptStep
<1>4. EnrolType' /\ FilesOfGrant'
  BY <1>1, <1>3, EnrollStep DEF EnrolInv, EnrolType
<1>5. \A b \in tokens' : b \in DOMAIN attempt' /\ attempt'[b].at = "granted"
  BY <1>1, <1>2, <1>3 DEF EnrolInv, CodeCounted
<1>6. Uses' \subseteq Uses
  BY <1>1, <1>2, <1>3 DEF Uses, Consumed
<1>7. CodeCounted'
  BY <1>1, <1>4, <1>5, <1>6, NoNewUse DEF EnrolInv
<1>8. QED
  BY <1>1, <1>4, <1>7 DEF EnrolInv, HostsUnique

LEMMA StoreFailsInv ==
  ASSUME EnrolInv, NEW a \in DOMAIN attempt, StoreFails(a)
  PROVE  EnrolInv'
<1>1. /\ attempt[a].at \in {"sent", "lookup", "create", "refund", "token"}
      /\ UNCHANGED <<usedCount, hosts, nextHost, tokens, trying, saving, fileVars>>
  BY DEF StoreFails, hostTable, codeVars
<1>2. PICK step \in {"refund", "refused"} :
        To(a, step) /\ (step = "refund" => attempt[a].at = "create")
  BY DEF StoreFails, Reached
<1>3. /\ attempt' \in Seq(Attempt) /\ DOMAIN attempt' = DOMAIN attempt
      /\ attempt'[a].at = step /\ attempt'[a].machine = attempt[a].machine
      /\ \A b \in DOMAIN attempt \ {a} : attempt'[b] = attempt[b]
  BY <1>2, ToMoves DEF EnrolInv, AttemptStep
<1>4. EnrolType' /\ FilesOfGrant' /\ \A b \in tokens' : b \in DOMAIN attempt' /\ attempt'[b].at = "granted"
  BY <1>1, <1>3, EnrollStep DEF EnrolInv, EnrolType
<1>5. Uses' \subseteq Uses
  BY <1>1, <1>2, <1>3, SameUses DEF InUse
<1>6. CodeCounted'
  BY <1>1, <1>4, <1>5, NoNewUse DEF EnrolInv
<1>7. QED
  BY <1>1, <1>4, <1>6 DEF EnrolInv, HostsUnique

LEMMA ServerDiesInv ==
  ASSUME EnrolInv, ServerDies
  PROVE  EnrolInv'
<1>1. UNCHANGED <<usedCount, hosts, nextHost, tokens, trying, saving, fileVars>>
  BY DEF ServerDies, hostTable, codeVars
<1>2. DOMAIN attempt = 1..Len(attempt) /\ Len(attempt) \in Nat
  BY LenProperties DEF EnrolInv, EnrolType
<1>3. \A a \in DOMAIN attempt : attempt[a] \in Attempt
  BY <1>2, ElementOfSeq DEF EnrolInv, EnrolType
<1>4. /\ DOMAIN attempt' = DOMAIN attempt
      /\ \A a \in DOMAIN attempt :
           attempt'[a] = IF attempt[a].at = "granted" THEN attempt[a]
                         ELSE [attempt[a] EXCEPT !.at = "refused"]
  BY DEF ServerDies
<1>5. \A a \in DOMAIN attempt :
        /\ attempt'[a] \in Attempt /\ attempt'[a].machine = attempt[a].machine
        /\ attempt[a].at = "granted" => attempt'[a] = attempt[a]
        /\ attempt'[a].at \in {"granted", "refused"}
  BY <1>3, <1>4 DEF Attempt, AttemptStep
<1>6. attempt' \in Seq(Attempt)
  <2>1. attempt' = [a \in DOMAIN attempt |-> attempt'[a]]
    BY DEF ServerDies
  <2>2. attempt' \in [1..Len(attempt) -> Attempt]
    BY <1>2, <1>5, <2>1
  <2>3. QED
    BY <1>2, <2>2, SeqDef
<1>7. EnrolType'
  BY <1>1, <1>6 DEF EnrolInv, EnrolType, fileVars
<1>8. FilesOfGrant'
  BY <1>1, <1>4, <1>5, FilesStay DEF GrantsStay, EnrolInv
<1>9. \A b \in tokens' : b \in DOMAIN attempt' /\ attempt'[b].at = "granted"
  BY <1>1, <1>4, <1>5 DEF EnrolInv, CodeCounted
<1>10. Uses' \subseteq Uses
  BY <1>1, <1>4, <1>5 DEF Uses, Consumed
<1>11. CodeCounted'
  BY <1>1, <1>9, <1>10, NoNewUse DEF EnrolInv
<1>12. QED
  BY <1>1, <1>7, <1>8, <1>11 DEF EnrolInv, HostsUnique

LEMMA DeleteRowInv ==
  ASSUME EnrolInv, NEW h \in hosts, DeleteRow(h)
  PROVE  EnrolInv'
<1>1. /\ UNCHANGED <<usedCount, nextHost, attempt, trying, saving, fileVars>>
      /\ hosts' = hosts \ {h} /\ tokens' \subseteq tokens
  BY DEF DeleteRow, codeVars
<1>2. EnrolType'
  BY <1>1 DEF EnrolInv, EnrolType, fileVars
<1>3. FilesOfGrant'
  BY <1>1, FilesStay DEF GrantsStay, EnrolInv
<1>4. \A b \in tokens' : b \in DOMAIN attempt' /\ attempt'[b].at = "granted"
  BY <1>1 DEF EnrolInv, CodeCounted
<1>5. Uses' \subseteq Uses
  BY <1>1 DEF Uses, Consumed
<1>6. CodeCounted'
  BY <1>1, <1>4, <1>5, NoNewUse DEF EnrolInv
<1>7. HostsUnique'
  BY <1>1 DEF EnrolInv, HostsUnique
<1>8. QED
  BY <1>2, <1>3, <1>6, <1>7 DEF EnrolInv

-----------------------------------------------------------------------------
\* The agent: registrations stay as they are, but for the new one of Start.
LEMMA StartInv ==
  ASSUME EnrolInv, NEW m \in Machine, Start(m)
  PROVE  EnrolInv'
<1> DEFINE rec == [machine |-> m, at |-> "sent", host |-> 0]
           n == Len(attempt) + 1
<1>1. /\ trying[m] = 0 /\ attempt' = Append(attempt, rec)
      /\ trying' = [trying EXCEPT ![m] = n]
      /\ UNCHANGED <<usedCount, hosts, nextHost, tokens, saving, tokenFile, credFile, hostFile>>
  BY DEF Start, codeVars, hostTable, fileVars
<1>2. rec \in Attempt /\ rec.machine = m /\ rec.at = "sent"
  BY DEF Attempt, AttemptStep
<1> HIDE DEF rec
<1>3. /\ attempt \in Seq(Attempt) /\ DOMAIN attempt = 1..Len(attempt) /\ Len(attempt) \in Nat
  BY LenProperties DEF EnrolInv, EnrolType
<1>4. /\ attempt' \in Seq(Attempt) /\ Len(attempt') = n
      /\ \A a \in 1..Len(attempt) : attempt'[a] = attempt[a]
      /\ attempt'[n] = rec
  BY <1>1, <1>2, <1>3, AppendProperties
<1>5. DOMAIN attempt' = 1..n
  BY <1>4, LenProperties
<1>6. /\ \A a \in DOMAIN attempt : a \in DOMAIN attempt' /\ attempt'[a] = attempt[a]
      /\ n \in DOMAIN attempt' /\ n \in Nat /\ n # 0
      /\ \A a \in DOMAIN attempt' : a \in DOMAIN attempt \/ a = n
  BY <1>3, <1>4, <1>5
<1>7. EnrolType'
  <2>1. trying' \in [Machine -> Nat]
    BY <1>1, <1>6 DEF EnrolInv, EnrolType
  <2>2. QED
    BY <1>1, <1>4, <2>1 DEF EnrolInv, EnrolType
<1>8. FilesOfGrant'
  <2>1. SUFFICES ASSUME NEW k \in Machine
                 PROVE  /\ trying'[k] # 0 => trying'[k] \in DOMAIN attempt' /\ attempt'[trying'[k]].machine = k
                        /\ saving'[k] # "none" => trying'[k] # 0 /\ attempt'[trying'[k]].at = "granted"
                        /\ saving'[k] = "host_id" \/ hostFile'[k] # 0 => credFile'[k] # <<0, 0>>
                        /\ credFile'[k] # <<0, 0>> =>
                             \E a \in DOMAIN attempt' :
                               /\ attempt'[a].at = "granted" /\ attempt'[a].machine = k
                               /\ credFile'[k] = <<a, attempt'[a].host>>
    BY DEF FilesOfGrant
  <2>2. /\ trying[k] # 0 => trying[k] \in DOMAIN attempt /\ attempt[trying[k]].machine = k
        /\ saving[k] # "none" => trying[k] # 0 /\ attempt[trying[k]].at = "granted"
        /\ saving[k] = "host_id" \/ hostFile[k] # 0 => credFile[k] # <<0, 0>>
    BY DEF EnrolInv, FilesOfGrant
  <2>3. credFile[k] # <<0, 0>> =>
          \E a \in DOMAIN attempt' :
            /\ attempt'[a].at = "granted" /\ attempt'[a].machine = k
            /\ credFile[k] = <<a, attempt'[a].host>>
    BY <1>6 DEF EnrolInv, FilesOfGrant
  <2>4. k = m => trying'[k] = n /\ saving[k] = "none"
    BY <1>1, <2>2 DEF EnrolInv, EnrolType
  <2>5. k # m => trying'[k] = trying[k]
    BY <1>1 DEF EnrolInv, EnrolType
  <2>6. QED
    BY <1>1, <1>2, <1>4, <1>6, <2>2, <2>3, <2>4, <2>5
<1>9. \A b \in tokens' : b \in DOMAIN attempt' /\ attempt'[b].at = "granted"
  BY <1>1, <1>6 DEF EnrolInv, CodeCounted
<1>10. Uses' \subseteq Uses
  BY <1>1, <1>2, <1>4, <1>6 DEF Uses, Consumed
<1>11. CodeCounted'
  BY <1>1, <1>9, <1>10, NoNewUse DEF EnrolInv
<1>12. QED
  BY <1>1, <1>7, <1>8, <1>11 DEF EnrolInv, HostsUnique

\* The other steps of an agent leave the server's tables alone.
LEMMA AgentStepInv ==
  ASSUME EnrolInv, UNCHANGED <<codeVars, hostTable, attempt, tokens>>,
         trying' \in [Machine -> Nat],
         saving' \in [Machine -> {"none", "token", "credentials", "host_id"}],
         tokenFile' \in [Machine -> Nat], hostFile' \in [Machine -> Nat],
         credFile' \in [Machine -> Nat \X Nat],
         FilesOfGrant'
  PROVE  EnrolInv'
<1>1. UNCHANGED <<usedCount, hosts, nextHost, attempt, tokens>>
  BY DEF codeVars, hostTable
<1>2. EnrolType'
  BY <1>1 DEF EnrolInv, EnrolType
<1>3. CodeCounted'
  BY <1>1 DEF EnrolInv, CodeCounted, Uses, Consumed
<1>4. HostsUnique'
  BY <1>1 DEF EnrolInv, HostsUnique
<1>5. QED
  BY <1>2, <1>3, <1>4 DEF EnrolInv

LEMMA AnsweredInv ==
  ASSUME EnrolInv, NEW m \in Machine, Answered(m)
  PROVE  EnrolInv'
<1> USE DEF EnrolInv, EnrolType
<1>1. UNCHANGED <<attempt, tokenFile, credFile, hostFile>>
  BY DEF Answered, fileVars
<1>2. FilesOfGrant'
  BY <1>1 DEF Answered, FilesOfGrant, Reached
<1>3. /\ trying' \in [Machine -> Nat]
      /\ saving' \in [Machine -> {"none", "token", "credentials", "host_id"}]
  <2>1. /\ trying' = trying \/ trying' = [trying EXCEPT ![m] = 0]
        /\ saving' = saving \/ saving' = [saving EXCEPT ![m] = "token"]
    BY DEF Answered
  <2>2. trying' \in [Machine -> Nat]
    <3>1. CASE trying' = trying
      BY <3>1
    <3>2. CASE trying' = [trying EXCEPT ![m] = 0]
      BY <3>2
    <3>3. QED
      BY <2>1, <3>1, <3>2
  <2>3. saving' \in [Machine -> {"none", "token", "credentials", "host_id"}]
    BY <2>1
  <2>4. QED
    BY <2>2, <2>3
<1> QED
  BY <1>1, <1>2, <1>3, AgentStepInv DEF Answered

LEMMA SaveTokenInv ==
  ASSUME EnrolInv, NEW m \in Machine, SaveToken(m)
  PROVE  EnrolInv'
<1> USE DEF EnrolInv, EnrolType
<1>1. UNCHANGED <<attempt, credFile, hostFile>>
  BY DEF SaveToken
<1>2. FilesOfGrant'
  BY <1>1 DEF SaveToken, Saves, FilesOfGrant
<1>3. /\ trying' \in [Machine -> Nat] /\ tokenFile' \in [Machine -> Nat]
      /\ saving' \in [Machine -> {"none", "token", "credentials", "host_id"}]
  <2>1. /\ trying' = trying \/ trying' = [trying EXCEPT ![m] = 0]
        /\ tokenFile' = tokenFile \/ tokenFile' = [tokenFile EXCEPT ![m] = trying[m]]
        /\ \/ saving' = [saving EXCEPT ![m] = "credentials"]
           \/ saving' = [saving EXCEPT ![m] = "none"]
    BY DEF SaveToken, Saves
  <2>2. tokenFile' \in [Machine -> Nat]
    BY <2>1
  <2>3. trying' \in [Machine -> Nat]
    <3>1. CASE trying' = trying
      BY <3>1
    <3>2. CASE trying' = [trying EXCEPT ![m] = 0]
      BY <3>2
    <3>3. QED
      BY <2>1, <3>1, <3>2
  <2>4. saving' \in [Machine -> {"none", "token", "credentials", "host_id"}]
    BY <2>1
  <2>5. QED
    BY <2>2, <2>3, <2>4
<1> QED
  BY <1>1, <1>2, <1>3, AgentStepInv DEF SaveToken

\* credentials.json names the registration and the host it has got.
LEMMA SaveCredentialsInv ==
  ASSUME EnrolInv, NEW m \in Machine, SaveCredentials(m)
  PROVE  EnrolInv'
<1> DEFINE a == trying[m]
           cred == <<a, attempt[a].host>>
<1>1. /\ saving[m] = "credentials" /\ saving' = [saving EXCEPT ![m] = "host_id"]
      /\ credFile' = [credFile EXCEPT ![m] = cred]
      /\ UNCHANGED <<attempt, trying, tokenFile, hostFile>>
  BY DEF SaveCredentials, Saves
<1>2. a # 0 /\ a \in DOMAIN attempt /\ attempt[a].machine = m /\ attempt[a].at = "granted"
  BY <1>1 DEF EnrolInv, FilesOfGrant
<1>3. attempt[a] \in Attempt
  BY <1>2, ElementOfSeq, LenProperties DEF EnrolInv, EnrolType
<1>4. cred \in Nat \X Nat /\ cred # <<0, 0>>
  BY <1>2, <1>3 DEF Attempt, EnrolInv, EnrolType
<1> HIDE DEF cred
<1>5. /\ credFile' \in [Machine -> Nat \X Nat] /\ credFile'[m] = cred
      /\ \A k \in Machine \ {m} : credFile'[k] = credFile[k]
      /\ saving' \in [Machine -> {"none", "token", "credentials", "host_id"}]
      /\ \A k \in Machine \ {m} : saving'[k] = saving[k]
  BY <1>1, <1>4 DEF EnrolInv, EnrolType
<1>6. FilesOfGrant'
  <2>1. SUFFICES ASSUME NEW k \in Machine
                 PROVE  /\ trying[k] # 0 => trying[k] \in DOMAIN attempt /\ attempt[trying[k]].machine = k
                        /\ saving'[k] # "none" => trying[k] # 0 /\ attempt[trying[k]].at = "granted"
                        /\ saving'[k] = "host_id" \/ hostFile[k] # 0 => credFile'[k] # <<0, 0>>
                        /\ credFile'[k] # <<0, 0>> =>
                             \E b \in DOMAIN attempt :
                               /\ attempt[b].at = "granted" /\ attempt[b].machine = k
                               /\ credFile'[k] = <<b, attempt[b].host>>
    BY <1>1 DEF FilesOfGrant
  <2>2. CASE k = m
    <3>1. credFile'[k] = <<a, attempt[a].host>>
      BY <1>5, <2>2 DEF cred
    <3>2. QED
      BY <1>2, <1>4, <1>5, <2>2, <3>1
  <2>3. CASE k # m
    BY <1>5, <2>3 DEF EnrolInv, FilesOfGrant
  <2>4. QED
    BY <2>2, <2>3
<1>7. QED
  BY <1>1, <1>5, <1>6, AgentStepInv DEF SaveCredentials, EnrolInv, EnrolType

LEMMA SaveHostIDInv ==
  ASSUME EnrolInv, NEW m \in Machine, SaveHostID(m)
  PROVE  EnrolInv'
<1>1. /\ saving[m] = "host_id" /\ saving' = [saving EXCEPT ![m] = "none"]
      /\ hostFile' = [hostFile EXCEPT ![m] = attempt[trying[m]].host]
      /\ trying' = [trying EXCEPT ![m] = 0]
      /\ UNCHANGED <<attempt, tokenFile, credFile>>
  BY DEF SaveHostID, Saves
<1>2. trying[m] \in DOMAIN attempt
  BY <1>1 DEF EnrolInv, FilesOfGrant
<1>3. attempt[trying[m]].host \in Nat
  <2>1. attempt[trying[m]] \in Attempt
    BY <1>2, ElementOfSeq, LenProperties DEF EnrolInv, EnrolType
  <2>2. QED
    BY <2>1 DEF Attempt
<1>4. FilesOfGrant'
  BY <1>1 DEF FilesOfGrant, EnrolInv, EnrolType
<1>5. /\ trying' \in [Machine -> Nat] /\ hostFile' \in [Machine -> Nat]
      /\ saving' \in [Machine -> {"none", "token", "credentials", "host_id"}]
  BY <1>1, <1>3 DEF EnrolInv, EnrolType
<1>6. QED
  BY <1>1, <1>4, <1>5, AgentStepInv DEF SaveHostID, EnrolInv, EnrolType

LEMMA AgentDiesInv ==
  ASSUME EnrolInv, NEW m \in Machine, AgentDies(m)
  PROVE  EnrolInv'
<1> USE DEF EnrolInv, EnrolType
<1>1. UNCHANGED <<attempt, tokenFile, credFile, hostFile>>
  BY DEF AgentDies, fileVars
<1>2. FilesOfGrant'
  BY <1>1 DEF AgentDies, FilesOfGrant
<1>3. /\ trying' \in [Machine -> Nat]
      /\ saving' \in [Machine -> {"none", "token", "credentials", "host_id"}]
  BY DEF AgentDies
<1> QED
  BY <1>1, <1>2, <1>3, AgentStepInv DEF AgentDies

\* Every step keeps the invariant.
LEMMA EnrolStepInv == EnrolInv /\ [EnrolNext]_enrolVars => EnrolInv'
<1>1. SUFFICES ASSUME EnrolInv, [EnrolNext]_enrolVars PROVE EnrolInv'
  OBVIOUS
<1>2. ASSUME NEW a \in DOMAIN attempt, Enroll(a) PROVE EnrolInv'
  BY <1>1, <1>2, ConsumeInv, LookupInv, CreateHostInv, RefundInv, IssueTokenInv, StoreFailsInv
     DEF Enroll
<1>3. ASSUME NEW m \in Machine, Register(m) PROVE EnrolInv'
  BY <1>1, <1>3, StartInv, AnsweredInv, AgentDiesInv, SaveTokenInv, SaveCredentialsInv,
     SaveHostIDInv DEF Register
<1>4. ASSUME NEW h \in hosts, DeleteRow(h) PROVE EnrolInv'
  BY <1>1, <1>4, DeleteRowInv
<1>5. CASE ServerDies
  BY <1>1, <1>5, ServerDiesInv
<1>6. ASSUME UNCHANGED <<usedCount, hosts, nextHost, attempt, tokens, trying, saving,
                         tokenFile, credFile, hostFile>>
      PROVE  EnrolInv'
  BY <1>1, <1>6 DEF EnrolInv, EnrolType, FilesOfGrant, CodeCounted, HostsUnique, Uses, Consumed
<1>7. CASE CodeExpires
  BY <1>6, <1>7 DEF CodeExpires, hostTable, fileVars
<1>8. CASE UNCHANGED enrolVars
  BY <1>6, <1>8 DEF enrolVars, codeVars, hostTable, fileVars
<1>9. QED
  BY <1>1, <1>2, <1>3, <1>4, <1>5, <1>7, <1>8 DEF EnrolNext

-----------------------------------------------------------------------------
\* The inductive invariant of registration: the files of an agent come from a
\* registration of its own that was granted, and every token and every
\* registration under way has used the code once.
THEOREM EnrolInvariant == EnrolSpec => []EnrolInv
BY EnrolInitInv, EnrolStepInv, PTL DEF EnrolSpec

\* For any number of machines, registrations and failures: the identity an agent
\* starts with is a token and the host it was issued for, a code is used no more
\* often than it allows, and a fingerprint has one host.
THEOREM EnrolKeepsIdentity == EnrolSpec => []IdentityConsistent
<1>1. EnrolInv => IdentityConsistent
  <2>1. SUFFICES ASSUME EnrolInv PROVE IdentityConsistent
    OBVIOUS
  <2>2. ASSUME NEW m \in Machine, Identity(m)[1] # 0, Identity(m)[2] # 0
        PROVE  attempt[Identity(m)[1]].host = Identity(m)[2] /\ attempt[Identity(m)[1]].machine = m
    <3>1. credFile[m] # <<0, 0>>
      BY <2>1, <2>2 DEF Identity, EnrolInv, FilesOfGrant
    <3>2. PICK a \in DOMAIN attempt :
            attempt[a].machine = m /\ credFile[m] = <<a, attempt[a].host>>
      BY <2>1, <3>1 DEF EnrolInv, FilesOfGrant
    <3>3. QED
      BY <3>1, <3>2 DEF Identity
  <2>3. QED
    BY <2>1, <2>2 DEF IdentityConsistent, EnrolInv, CodeCounted, HostsUnique, Uses
<1>2. QED
  BY <1>1, EnrolInvariant, PTL

-----------------------------------------------------------------------------
(* Commands to a BMC *)

BmcStage == {"new", "load", "audit", "apply", "succeeded", "failed", "answered"}

\* Every variable stays in its range.
BmcType ==
  /\ kind \in [Command -> Kind]
  /\ stage \in [Command -> BmcStage]
  /\ called \in [Command -> Nat] /\ applied \in [Command -> Nat]
  /\ row \in [Command -> {"none", "pending", "success", "failed"}]
  /\ fans \in {"auto", "manual"} /\ speedBy \in SUBSET Command
  /\ sole \in SUBSET Command

\* What the row of a command says, and what it has done, by the step it is at.
RowFollowsStage ==
  \A c \in Command :
    /\ stage[c] \in {"new", "load", "audit"} => row[c] = "none" /\ called[c] = 0 /\ applied[c] = 0
    /\ stage[c] \in {"apply", "succeeded", "failed"} => row[c] = "pending"
    /\ stage[c] = "apply" => applied[c] = called[c] /\ called[c] < Len(Calls(kind[c]))
    /\ stage[c] = "succeeded" => applied[c] = Len(Calls(kind[c]))
    /\ row[c] = "none" => applied[c] = 0
    /\ row[c] = "success" => stage[c] = "answered" /\ applied[c] = Len(Calls(kind[c]))

\* While the last command to begin has run alone, nobody else is at the BMC, and
\* the fans are as its calls have left them.
SoleHasTheBmc ==
  \A c \in sole :
    /\ row[c] # "none"
    /\ Running \subseteq {c}
    /\ kind[c] = "speed" /\ applied[c] >= 1 => fans = "manual"
    /\ kind[c] = "speed" /\ applied[c] = 2 => speedBy = {c}
    /\ kind[c] = "auto" /\ applied[c] >= 1 => fans = "auto"

BmcInv == BmcType /\ RowFollowsStage /\ SoleHasTheBmc

\* The calls of each kind of command.
LEMMA CallsOfKind ==
  /\ Calls("speed")[1] = "manual" /\ Calls("speed")[2] = "speed" /\ Len(Calls("speed")) = 2
  /\ Calls("auto")[1] = "auto" /\ Len(Calls("auto")) = 1
  /\ Calls("other")[1] = "other" /\ Len(Calls("other")) = 1
BY DEF Calls

LEMMA BmcInitInv == BmcInit => BmcInv
<1> SUFFICES ASSUME BmcInit PROVE BmcInv
  OBVIOUS
<1>1. BmcType
  BY DEF BmcInit, BmcType, Kind, BmcStage
<1>2. RowFollowsStage /\ SoleHasTheBmc
  BY DEF BmcInit, RowFollowsStage, SoleHasTheBmc
<1>3. QED
  BY <1>1, <1>2 DEF BmcInv

\* The steps that come before the row is there, or only end a request.
LEMMA ReceiveInv ==
  ASSUME BmcInv, NEW c \in Command, Receive(c)
  PROVE  BmcInv'
<1> USE DEF BmcInv, Receive, Advance
<1>1. BmcType'
  BY DEF BmcType, BmcStage
<1>2. RowFollowsStage'
  BY DEF BmcType, RowFollowsStage
<1>3. SoleHasTheBmc'
  BY DEF BmcType, RowFollowsStage, SoleHasTheBmc, Running
<1>4. QED
  BY <1>1, <1>2, <1>3

LEMMA LoadHostInv ==
  ASSUME BmcInv, NEW c \in Command, LoadHost(c)
  PROVE  BmcInv'
<1> USE DEF BmcInv, LoadHost, Advance
<1>1. BmcType'
  BY DEF BmcType, BmcStage
<1>2. RowFollowsStage'
  BY DEF BmcType, RowFollowsStage
<1>3. SoleHasTheBmc'
  BY DEF BmcType, SoleHasTheBmc, Running
<1>4. QED
  BY <1>1, <1>2, <1>3

\* The row is made, and whoever was said to run alone no longer is.
LEMMA AuditInv ==
  ASSUME BmcInv, NEW c \in Command, Audit(c)
  PROVE  BmcInv'
<1> USE DEF BmcInv, Advance
<1>1. CASE /\ Advance(c, "audit", "apply")
           /\ row' = [row EXCEPT ![c] = "pending"]
           /\ sole' = IF Running = {} THEN {c} ELSE {}
           /\ UNCHANGED <<kind, called, applied, fans, speedBy>>
  <2>1. BmcType'
    BY <1>1 DEF BmcType, BmcStage
  <2>2. Len(Calls(kind[c])) \in {1, 2}
    BY CallsOfKind DEF BmcType, Kind
  <2>3. RowFollowsStage'
    <3>1. \A d \in Command \ {c} : stage'[d] = stage[d] /\ row'[d] = row[d]
      BY <1>1 DEF BmcType
    <3>2. /\ stage'[c] = "apply" /\ row'[c] = "pending" /\ stage[c] = "audit"
          /\ applied[c] = 0 /\ called[c] = 0
      BY <1>1 DEF BmcType, RowFollowsStage
    <3>3. QED
      BY <1>1, <2>2, <3>1, <3>2 DEF RowFollowsStage
  <2>4. SoleHasTheBmc'
    BY <1>1 DEF BmcType, RowFollowsStage, SoleHasTheBmc, Running
  <2>5. QED
    BY <2>1, <2>3, <2>4
<1>2. CASE /\ Advance(c, "audit", "answered")
           /\ UNCHANGED <<kind, called, applied, row, fans, speedBy, sole>>
  <2>1. BmcType'
    BY <1>2 DEF BmcType, BmcStage
  <2>2. RowFollowsStage'
    BY <1>2 DEF BmcType, RowFollowsStage
  <2>3. SoleHasTheBmc'
    BY <1>2 DEF BmcType, SoleHasTheBmc, Running
  <2>4. QED
    BY <2>1, <2>2, <2>3
<1>3. QED
  BY <1>1, <1>2 DEF Audit

\* One ipmitool call: only a command that runs makes one.
LEMMA CallBmcInv ==
  ASSUME BmcInv, NEW c \in Command, Call(c)
  PROVE  BmcInv'
<1> DEFINE n == called[c] + 1
<1>1. /\ kind[c] \in Kind /\ called[c] \in Nat /\ applied[c] = called[c]
      /\ called[c] < Len(Calls(kind[c])) /\ stage[c] = "apply"
      /\ row[c] = "pending"
  BY DEF BmcInv, BmcType, RowFollowsStage, Call
<1>2. /\ kind[c] = "speed" => (n = 1 /\ Calls(kind[c])[n] = "manual") \/ (n = 2 /\ Calls(kind[c])[n] = "speed")
      /\ kind[c] = "auto" => n = 1 /\ Calls(kind[c])[n] = "auto"
      /\ kind[c] = "other" => n = 1 /\ Calls(kind[c])[n] = "other"
      /\ Len(Calls(kind[c])) \in Nat
  BY <1>1, CallsOfKind DEF Kind
<1>3. /\ called' = [called EXCEPT ![c] = n]
      /\ UNCHANGED <<kind, row, sole>>
      /\ \E s \in {"apply", "succeeded", "failed"} :
           /\ stage' = [stage EXCEPT ![c] = s]
           /\ s = "apply" => n # Len(Calls(kind[c]))
           /\ s = "succeeded" => n = Len(Calls(kind[c]))
           /\ s # "failed" => applied' = [applied EXCEPT ![c] = @ + 1]
      /\ Effect(c, Calls(kind[c])[n]) \/ UNCHANGED <<fans, speedBy, applied>>
  <2>1. called' = [called EXCEPT ![c] = n] /\ UNCHANGED <<kind, row, sole>>
    BY DEF Call
  <2>2. CASE /\ Effect(c, Calls(kind[c])[n])
             /\ stage' = [stage EXCEPT ![c] = IF n = Len(Calls(kind[c])) THEN "succeeded" ELSE "apply"]
    <3>1. applied' = [applied EXCEPT ![c] = @ + 1]
      BY <2>2 DEF Effect
    <3>2. CASE n = Len(Calls(kind[c]))
      BY <2>1, <2>2, <3>1, <3>2
    <3>3. CASE n # Len(Calls(kind[c]))
      BY <2>1, <2>2, <3>1, <3>3
    <3>4. QED
      BY <3>2, <3>3
  <2>3. CASE /\ Effect(c, Calls(kind[c])[n]) \/ UNCHANGED <<fans, speedBy, applied>>
             /\ stage' = [stage EXCEPT ![c] = "failed"]
    BY <2>1, <2>3
  <2>4. QED
    BY <2>2, <2>3 DEF Call
<1> HIDE DEF n
<1>4. n = called[c] + 1 /\ n \in Nat
  BY <1>1 DEF n
<1>5. applied'[c] \in {called[c], n} /\ \A d \in Command \ {c} : applied'[d] = applied[d]
  BY <1>1, <1>3, <1>4 DEF Effect, BmcInv, BmcType
<1>6. BmcType'
  <2>1. applied' \in [Command -> Nat] /\ called' \in [Command -> Nat]
    BY <1>3, <1>4 DEF Effect, BmcInv, BmcType
  <2>2. fans' \in {"auto", "manual"} /\ speedBy' \in SUBSET Command
    BY <1>3 DEF Effect, BmcInv, BmcType
  <2>3. QED
    BY <1>3, <2>1, <2>2 DEF BmcInv, BmcType, BmcStage
<1>7. RowFollowsStage'
  <2>1. ASSUME NEW d \in Command, d # c
        PROVE  /\ stage'[d] = stage[d] /\ row'[d] = row[d] /\ kind'[d] = kind[d]
               /\ called'[d] = called[d] /\ applied'[d] = applied[d]
    BY <1>3, <1>5, <2>1 DEF BmcInv, BmcType
  <2>2. /\ row'[c] = "pending" /\ kind'[c] = kind[c] /\ called'[c] = n
        /\ stage'[c] \in {"apply", "succeeded", "failed"}
        /\ stage'[c] = "apply" => n < Len(Calls(kind[c])) /\ applied'[c] = n
        /\ stage'[c] = "succeeded" => applied'[c] = Len(Calls(kind[c]))
    BY <1>1, <1>2, <1>3, <1>4 DEF BmcInv, BmcType
  <2>3. QED
    BY <2>1, <2>2 DEF BmcInv, RowFollowsStage
<1>8. SoleHasTheBmc'
  <2>1. SUFFICES ASSUME NEW d \in sole
                 PROVE  /\ row'[d] # "none"
                        /\ Running' \subseteq {d}
                        /\ kind'[d] = "speed" /\ applied'[d] >= 1 => fans' = "manual"
                        /\ kind'[d] = "speed" /\ applied'[d] = 2 => speedBy' = {d}
                        /\ kind'[d] = "auto" /\ applied'[d] >= 1 => fans' = "auto"
    BY <1>3 DEF SoleHasTheBmc
  <2>2. d = c
    BY <1>1, <2>1 DEF BmcInv, SoleHasTheBmc, Running
  <2>3. /\ row[c] # "none"
        /\ Running \subseteq {c}
        /\ kind[c] = "speed" /\ applied[c] >= 1 => fans = "manual"
        /\ kind[c] = "speed" /\ applied[c] = 2 => speedBy = {c}
        /\ kind[c] = "auto" /\ applied[c] >= 1 => fans = "auto"
    BY <2>2 DEF BmcInv, SoleHasTheBmc
  <2>4. row'[d] # "none" /\ Running' \subseteq {d} /\ kind'[c] = kind[c]
    BY <1>1, <1>3, <2>2, <2>3 DEF Running, BmcInv, BmcType
  <2>5. CASE UNCHANGED <<fans, speedBy, applied>>
    BY <2>2, <2>3, <2>4, <2>5
  <2>6. CASE Effect(c, Calls(kind[c])[n])
    <3>1. applied'[c] = n
      BY <1>1, <1>4, <2>6 DEF Effect, BmcInv, BmcType
    <3>2. CASE kind[c] = "speed" /\ n = 1 /\ Calls(kind[c])[n] = "manual"
      BY <2>2, <2>4, <2>6, <3>1, <3>2 DEF Effect
    <3>3. CASE kind[c] = "speed" /\ n = 2 /\ Calls(kind[c])[n] = "speed"
      BY <1>1, <1>4, <2>2, <2>3, <2>4, <2>6, <3>1, <3>3 DEF Effect
    <3>4. CASE kind[c] # "speed"
      BY <1>1, <1>2, <2>2, <2>4, <2>6, <3>1, <3>4 DEF Effect, Kind
    <3>5. QED
      BY <1>2, <3>2, <3>3, <3>4
  <2>7. QED
    BY <1>3, <2>5, <2>6
<1>9. QED
  BY <1>6, <1>7, <1>8 DEF BmcInv

LEMMA FinishCommandInv ==
  ASSUME BmcInv, NEW c \in Command, FinishCommand(c)
  PROVE  BmcInv'
<1> USE DEF BmcInv, FinishCommand
<1>1. BmcType'
  BY DEF BmcType, BmcStage
<1>2. RowFollowsStage'
  BY DEF BmcType, RowFollowsStage
<1>3. SoleHasTheBmc'
  BY DEF BmcType, SoleHasTheBmc, Running
<1>4. QED
  BY <1>1, <1>2, <1>3

LEMMA CrashControlInv ==
  ASSUME BmcInv, CrashControl
  PROVE  BmcInv'
<1> USE DEF BmcInv, CrashControl
<1>1. BmcType'
  BY DEF BmcType, BmcStage
<1>2. RowFollowsStage'
  BY DEF BmcType, RowFollowsStage
<1>3. SoleHasTheBmc'
  BY DEF BmcType, SoleHasTheBmc, Running
<1>4. QED
  BY <1>1, <1>2, <1>3

\* Every step keeps the invariant.
LEMMA BmcStepInv == BmcInv /\ [BmcNext]_bmcVars => BmcInv'
<1>1. SUFFICES ASSUME BmcInv, [BmcNext]_bmcVars PROVE BmcInv'
  OBVIOUS
<1>2. ASSUME UNCHANGED <<kind, stage, called, applied, row, fans, speedBy, sole>> PROVE BmcInv'
  BY <1>1, <1>2 DEF BmcInv, BmcType, RowFollowsStage, SoleHasTheBmc, Running
<1>3. ASSUME NEW c \in Command, Handle(c) PROVE BmcInv'
  <2>1. CASE HangUp(c)
    BY <1>2, <2>1 DEF HangUp
  <2>2. QED
    BY <1>1, <1>3, <2>1, ReceiveInv, LoadHostInv, AuditInv, CallBmcInv, FinishCommandInv DEF Handle
<1>4. CASE Deconfigure
  BY <1>2, <1>4 DEF Deconfigure
<1>5. CASE CrashControl
  BY <1>1, <1>5, CrashControlInv
<1>6. CASE UNCHANGED bmcVars
  BY <1>2, <1>6 DEF bmcVars
<1>7. QED
  BY <1>1, <1>3, <1>4, <1>5, <1>6 DEF BmcNext

-----------------------------------------------------------------------------
\* The inductive invariant of BMC control: what a row says and what its command
\* has done at each step, and that a command that ran alone has the BMC to itself.
THEOREM BmcInvariant == BmcSpec => []BmcInv
BY BmcInitInv, BmcStepInv, PTL DEF BmcSpec

\* For any number of commands and crashes: what has touched the BMC has a row,
\* "success" means that every call took effect, and the BMC is as the last such
\* command left it, if it ran alone.
THEOREM BmcAuditIsTrue == BmcSpec => []AuditTellsTheTruth
<1>1. BmcInv => AuditTellsTheTruth
  <2>1. SUFFICES ASSUME BmcInv, NEW c \in Command
                 PROVE  /\ applied[c] > 0 => row[c] # "none"
                        /\ row[c] = "success" => applied[c] = Len(Calls(kind[c]))
                        /\ row[c] = "success" /\ c \in sole =>
                             CASE kind[c] = "speed" -> fans = "manual" /\ speedBy = {c}
                               [] kind[c] = "auto"  -> fans = "auto"
                               [] OTHER             -> TRUE
    BY DEF AuditTellsTheTruth
  <2>2. /\ kind[c] \in Kind /\ applied[c] \in Nat
        /\ row[c] = "none" => applied[c] = 0
        /\ row[c] = "success" => applied[c] = Len(Calls(kind[c]))
    BY <2>1 DEF BmcInv, BmcType, RowFollowsStage
  <2>3. c \in sole =>
          /\ kind[c] = "speed" /\ applied[c] >= 1 => fans = "manual"
          /\ kind[c] = "speed" /\ applied[c] = 2 => speedBy = {c}
          /\ kind[c] = "auto" /\ applied[c] >= 1 => fans = "auto"
    BY <2>1 DEF BmcInv, SoleHasTheBmc
  <2>4. QED
    BY <2>2, <2>3, CallsOfKind DEF Kind
<1>2. QED
  BY <1>1, BmcInvariant, PTL

-----------------------------------------------------------------------------
(* Inventory *)

ComponentRow == [value : Serial \cup {NoPart}, seen : Nat, removed : Nat]

\* Every variable stays in its range.
InventoryType ==
  /\ round \in Nat
  /\ phase \in {"idle", "upsert", "added", "missing", "modified"}
  /\ phase # "idle" => round # 0
  /\ snapshot \in [Part -> Serial \cup {NoPart}]
  /\ component \in [Part -> ComponentRow]
  /\ changed \in {"baseline", "no", "yes"}
  /\ visiting \subseteq Part
  /\ absences \in [Part -> Nat] /\ told \in [Part -> Nat]

\* A mark tells of at least one round without the part, and a removal that was
\* recorded is found again from the mark.
Marked(p) ==
  /\ component[p].removed <= round
  /\ component[p].removed # 0 => absences[p] >= 1
  /\ told[p] <= 1
  /\ told[p] # 0 => component[p].removed # 0 /\ absences[p] >= 2 /\ Reported(p)

\* How far the round has come with one part.
RowsUpserted(p) ==
  phase = "upsert" =>
    /\ p \in visiting => p \in Present
    /\ p \in Present \ visiting =>
         component[p].seen = round /\ component[p].removed = 0 /\ told[p] = 0
SnapshotTaken(p) ==
  phase \in {"added", "missing", "modified"} =>
    /\ p \in Present => component[p].seen = round
    /\ p \notin Present => absences[p] >= 1
\* Whoever still has to be confirmed has its mark from an earlier round.
MarkIsOlder(p) ==
  \/ phase = "added" /\ p \notin Present
  \/ phase = "missing" /\ p \in visiting
  => p \notin Present /\ (component[p].removed # 0 => absences[p] >= 2)

PartInv(p) == Marked(p) /\ RowsUpserted(p) /\ SnapshotTaken(p) /\ MarkIsOlder(p)

InventoryInv == InventoryType /\ \A p \in Part : PartInv(p)

-----------------------------------------------------------------------------
LEMMA InventoryInitInv == InventoryInit => InventoryInv
<1> SUFFICES ASSUME InventoryInit PROVE InventoryInv
  OBVIOUS
<1>1. InventoryType
  BY DEF InventoryInit, InventoryType, ComponentRow
<1>2. ASSUME NEW p \in Part PROVE PartInv(p)
  BY DEF InventoryInit, PartInv, Marked, RowsUpserted, SnapshotTaken, MarkIsOlder
<1>3. QED
  BY <1>1, <1>2 DEF InventoryInv

\* A step that leaves a part, its row and its counters alone, and does not go
\* back in the round.
LEMMA PartStays ==
  ASSUME InventoryInv, NEW p \in Part, PartInv(p),
         component'[p] = component[p], absences'[p] = absences[p], told'[p] = told[p],
         events \subseteq events', round' \in Nat,
         \/ round' = round + 1 /\ phase' = "upsert" /\ visiting' = Present'
         \/ UNCHANGED <<round, snapshot>> /\ phase' = phase /\ visiting' \subseteq visiting
              /\ (phase = "upsert" => (p \in visiting => p \in visiting'))
         \/ UNCHANGED <<round, snapshot>> /\ phase' \in {"idle", "modified"} 
              /\ (phase' = "modified" => phase = "missing")
         \/ UNCHANGED <<round, snapshot>> /\ phase = "added" /\ phase' = "missing"
              /\ (p \in visiting' => component[p].seen < round)
  PROVE  PartInv(p)'
<1>1. /\ component[p] \in ComponentRow /\ absences[p] \in Nat /\ told[p] \in Nat /\ round \in Nat
      /\ phase \in {"idle", "upsert", "added", "missing", "modified"}
  BY DEF InventoryInv, InventoryType
<1>2. component[p].removed \in Nat /\ component[p].seen \in Nat
  BY <1>1 DEF ComponentRow
<1>3. Reported(p) => Reported(p)'
  BY <1>1, <1>2 DEF Reported
<1>4. Marked(p)'
  BY <1>1, <1>2, <1>3 DEF PartInv, Marked
<1>5. RowsUpserted(p)'
  BY <1>1, <1>2 DEF PartInv, RowsUpserted, Present
<1>6. SnapshotTaken(p)'
  BY <1>1, <1>2 DEF PartInv, SnapshotTaken, Present
<1>7. MarkIsOlder(p)'
  BY <1>1, <1>2 DEF PartInv, MarkIsOlder, SnapshotTaken, Present
<1>8. QED
  BY <1>4, <1>5, <1>6, <1>7 DEF PartInv

LEMMA SnapshotInv ==
  ASSUME InventoryInv, Snapshot
  PROVE  InventoryInv'
<1>1. /\ round' = round + 1 /\ phase' = "upsert" /\ visiting' = Present'
      /\ UNCHANGED <<component, absences, told, events>>
  BY DEF Snapshot, Enter, Present
<1>2. InventoryType'
  BY <1>1 DEF Snapshot, InventoryInv, InventoryType, Present
<1>3. ASSUME NEW p \in Part PROVE PartInv(p)'
  <2>1. round' \in Nat /\ PartInv(p)
    BY <1>1 DEF InventoryInv, InventoryType
  <2>2. QED
    BY <1>1, <2>1, PartStays
<1>4. QED
  BY <1>2, <1>3 DEF InventoryInv

LEMMA UpsertInv ==
  ASSUME InventoryInv, NEW p \in Part, Upsert(p)
  PROVE  InventoryInv'
<1> DEFINE part == Upserted(p)
<1>1. /\ phase = "upsert" /\ p \in visiting /\ visiting' = visiting \ {p}
      /\ component' = [component EXCEPT ![p] = part]
      /\ absences' = [absences EXCEPT ![p] = 0] /\ told' = [told EXCEPT ![p] = 0]
      /\ UNCHANGED <<round, phase, snapshot, changed, events>>
  BY DEF Upsert
<1>2. part \in ComponentRow /\ part.seen = round /\ part.removed = 0
  BY DEF Upserted, ComponentRow, InventoryInv, InventoryType
<1> HIDE DEF part
<1>3. /\ component' \in [Part -> ComponentRow] /\ component'[p] = part
      /\ \A q \in Part \ {p} : component'[q] = component[q]
  BY <1>1, <1>2 DEF InventoryInv, InventoryType
<1>4. /\ absences' \in [Part -> Nat] /\ absences'[p] = 0
      /\ told' \in [Part -> Nat] /\ told'[p] = 0
      /\ \A q \in Part \ {p} : absences'[q] = absences[q] /\ told'[q] = told[q]
  BY <1>1 DEF InventoryInv, InventoryType
<1>5. InventoryType'
  BY <1>1, <1>3, <1>4 DEF InventoryInv, InventoryType
<1>6. PartInv(p)'
  <2>1. Marked(p)'
    BY <1>1, <1>2, <1>3, <1>4 DEF Marked, InventoryInv, InventoryType
  <2>2. RowsUpserted(p)' /\ SnapshotTaken(p)' /\ MarkIsOlder(p)'
    BY <1>1, <1>2, <1>3, <1>4 DEF RowsUpserted, SnapshotTaken, MarkIsOlder
  <2>3. QED
    BY <2>1, <2>2 DEF PartInv
<1>7. ASSUME NEW q \in Part \ {p} PROVE PartInv(q)'
  <2>1. round' \in Nat /\ PartInv(q)
    BY <1>1 DEF InventoryInv, InventoryType
  <2>2. /\ component'[q] = component[q] /\ absences'[q] = absences[q] /\ told'[q] = told[q]
        /\ visiting' \subseteq visiting /\ (q \in visiting => q \in visiting')
    BY <1>1, <1>3, <1>4
  <2>3. QED
    BY <1>1, <2>1, <2>2, PartStays
<1>8. QED
  BY <1>5, <1>6, <1>7 DEF InventoryInv

\* CreateSnapshot counts one more absence of everything that was not reported.
LEMMA RecordSnapshotInv ==
  ASSUME InventoryInv, RecordSnapshot
  PROVE  InventoryInv'
<1>1. /\ phase = "upsert" /\ visiting = {}
      /\ absences' = [p \in Part |-> IF p \in Present THEN 0 ELSE absences[p] + 1]
      /\ UNCHANGED <<round, snapshot, component, changed, events, told>>
  BY DEF RecordSnapshot
<1>2. \/ phase' = "idle" /\ visiting' = {}
      \/ phase' = "missing" /\ visiting' = {p \in Part : component[p].seen \in 1..(round - 1)}
      \/ phase' = "added" /\ visiting' = {p \in Present : prev[p].value = NoPart}
  BY DEF RecordSnapshot, Enter, InventoryInv, InventoryType
<1>3. visiting' \subseteq Part /\ round # 0
  BY <1>1, <1>2 DEF Present, InventoryInv, InventoryType
<1>4. absences' \in [Part -> Nat]
  BY <1>1 DEF InventoryInv, InventoryType
<1>5. InventoryType'
  BY <1>1, <1>2, <1>3, <1>4 DEF InventoryInv, InventoryType
<1>6. ASSUME NEW p \in Part PROVE PartInv(p)'
  <2>1. /\ component[p] \in ComponentRow /\ absences[p] \in Nat /\ told[p] \in Nat /\ round \in Nat
        /\ PartInv(p)
    BY DEF InventoryInv, InventoryType
  <2>2. component[p].removed \in Nat /\ component[p].seen \in Nat
    BY <2>1 DEF ComponentRow
  <2>3. /\ p \in Present => component[p].seen = round /\ component[p].removed = 0 /\ told[p] = 0
        /\ p \notin Present => absences'[p] = absences[p] + 1
        /\ Present' = Present
    BY <1>1, <2>1 DEF PartInv, RowsUpserted, Present
  <2>4. Reported(p)' = Reported(p)
    BY <1>1 DEF Reported
  <2>5. Marked(p)'
    <3>1. CASE p \in Present
      BY <1>1, <2>1, <2>2, <2>3, <3>1 DEF Marked
    <3>2. CASE p \notin Present
      BY <1>1, <2>1, <2>2, <2>3, <2>4, <3>2 DEF Marked, PartInv
    <3>3. QED
      BY <3>1, <3>2
  <2>6. RowsUpserted(p)'
    BY <1>2 DEF RowsUpserted
  <2>7. SnapshotTaken(p)'
    BY <1>1, <1>2, <2>1, <2>2, <2>3 DEF SnapshotTaken
  <2>8. p \in visiting' /\ phase' = "missing" => p \notin Present
    BY <1>2, <2>1, <2>2, <2>3
  <2>9. MarkIsOlder(p)'
    BY <1>1, <1>2, <2>1, <2>2, <2>3, <2>8 DEF MarkIsOlder, PartInv, Marked
  <2>10. QED
    BY <2>5, <2>6, <2>7, <2>9 DEF PartInv
<1>7. QED
  BY <1>5, <1>6 DEF InventoryInv

\* A step within the round that changes no row: added and modified parts, the end
\* of a loop, a round that breaks off.
LEMMA RoundGoesOn ==
  ASSUME InventoryInv,
         UNCHANGED <<round, snapshot, component, changed, absences, told>>,
         events \subseteq events', visiting' \subseteq Part,
         \/ phase' = phase /\ phase # "upsert" /\ visiting' \subseteq visiting
         \/ phase' = "idle"
         \/ phase' = "modified" /\ phase = "missing"
         \/ /\ phase = "added" /\ phase' = "missing"
            /\ visiting' = {p \in Part : component[p].seen \in 1..(round - 1)}
  PROVE  InventoryInv'
<1>1. InventoryType'
  BY DEF InventoryInv, InventoryType
<1>2. ASSUME NEW p \in Part PROVE PartInv(p)'
  <2>1. round' \in Nat /\ round \in Nat /\ PartInv(p) /\ component[p] \in ComponentRow
    BY DEF InventoryInv, InventoryType
  <2>2. component[p].seen \in Nat
    BY <2>1 DEF ComponentRow
  <2>3. p \in {q \in Part : component[q].seen \in 1..(round - 1)} => component[p].seen < round
    BY <2>1, <2>2
  <2>4. QED
    BY <2>1, <2>3, PartStays
<1>3. QED
  BY <1>1, <1>2 DEF InventoryInv

LEMMA ConfirmRemovalInv ==
  ASSUME InventoryInv, NEW p \in Part, ConfirmRemoval(p)
  PROVE  InventoryInv'
<1>1. /\ phase = "missing" /\ p \in visiting /\ visiting' = visiting \ {p}
      /\ UNCHANGED <<round, phase, snapshot, changed, absences>>
  BY DEF ConfirmRemoval
<1>2. /\ component[p] \in ComponentRow /\ absences[p] \in Nat /\ told[p] \in Nat
      /\ round \in Nat /\ round # 0 /\ PartInv(p)
  BY <1>1 DEF InventoryInv, InventoryType
<1>3. component[p].removed \in Nat /\ component[p].seen \in Nat
  BY <1>2 DEF ComponentRow
<1>4. /\ p \notin Present /\ absences[p] >= 1
      /\ component[p].removed # 0 => absences[p] >= 2
      /\ component[p].removed <= round /\ told[p] <= 1
      /\ told[p] # 0 => component[p].removed # 0 /\ Reported(p)
  BY <1>1, <1>2 DEF PartInv, MarkIsOlder, SnapshotTaken, Marked
<1>5. /\ component' \in [Part -> ComponentRow] /\ told' \in [Part -> Nat]
      /\ \A q \in Part \ {p} : component'[q] = component[q] /\ told'[q] = told[q]
      /\ events \subseteq events'
      /\ component'[p].removed # 0 /\ component'[p].removed <= round
      /\ component'[p].seen = component[p].seen
      /\ told'[p] <= 1
      /\ told'[p] # 0 => component'[p].removed # 0 /\ absences[p] >= 2 /\ Reported(p)'
  <2>1. CASE /\ component[p].removed = 0
             /\ component' = [component EXCEPT ![p].removed = round]
             /\ UNCHANGED <<events, told>>
    <3> DEFINE part == [component[p] EXCEPT !.removed = round]
    <3>1. component' = [component EXCEPT ![p] = part]
      BY <2>1 DEF InventoryInv, InventoryType
    <3>2. part \in ComponentRow /\ part.removed = round /\ part.seen = component[p].seen
      BY <1>2 DEF ComponentRow
    <3> HIDE DEF part
    <3>3. /\ component' \in [Part -> ComponentRow] /\ component'[p] = part
          /\ \A q \in Part \ {p} : component'[q] = component[q]
      BY <3>1, <3>2 DEF InventoryInv, InventoryType
    <3>4. told' \in [Part -> Nat] /\ told'[p] = 0 /\ \A q \in Part \ {p} : told'[q] = told[q]
      BY <1>4, <2>1 DEF InventoryInv, InventoryType
    <3>5. QED
      BY <1>2, <2>1, <3>2, <3>3, <3>4
  <2>2. CASE component[p].removed # 0 /\ UNCHANGED <<component, events, told>>
    <3>1. Reported(p)' = Reported(p)
      BY <1>1, <2>2 DEF Reported
    <3>2. QED
      BY <1>4, <2>2, <3>1 DEF InventoryInv, InventoryType
  <2>3. CASE /\ component[p].removed # 0 /\ ~Reported(p)
             /\ RecordChange(p, "removed")
             /\ told' = [told EXCEPT ![p] = @ + 1]
             /\ UNCHANGED component
    <3>1. told[p] = 0
      BY <1>4, <2>3
    <3>2. told' \in [Part -> Nat] /\ told'[p] = 1 /\ \A q \in Part \ {p} : told'[q] = told[q]
      BY <2>3, <3>1 DEF InventoryInv, InventoryType
    <3>3. events \subseteq events' /\ <<p, "removed", round>> \in events'
      BY <2>3 DEF RecordChange
    <3>4. Reported(p)'
      BY <1>1, <1>2, <1>3, <1>4, <2>3, <3>3 DEF Reported
    <3>5. QED
      BY <1>4, <2>3, <3>2, <3>3, <3>4 DEF InventoryInv, InventoryType
  <2>4. QED
    BY <2>1, <2>2, <2>3 DEF ConfirmRemoval
<1>6. InventoryType'
  BY <1>1, <1>5 DEF InventoryInv, InventoryType
<1>7. PartInv(p)'
  <2>1. Marked(p)'
    BY <1>1, <1>4, <1>5 DEF Marked
  <2>2. RowsUpserted(p)' /\ MarkIsOlder(p)'
    BY <1>1 DEF RowsUpserted, MarkIsOlder
  <2>3. SnapshotTaken(p)'
    BY <1>1, <1>4, <1>5 DEF SnapshotTaken, Present
  <2>4. QED
    BY <2>1, <2>2, <2>3 DEF PartInv
<1>8. ASSUME NEW q \in Part \ {p} PROVE PartInv(q)'
  <2>1. round' \in Nat /\ PartInv(q)
    BY <1>1 DEF InventoryInv, InventoryType
  <2>2. component'[q] = component[q] /\ absences'[q] = absences[q] /\ told'[q] = told[q]
    BY <1>1, <1>5
  <2>3. QED
    BY <1>1, <1>5, <2>1, <2>2, PartStays
<1>9. QED
  BY <1>6, <1>7, <1>8 DEF InventoryInv

\* Every step of a round keeps the invariant.
LEMMA InventoryStepInv == InventoryInv /\ [InventoryNext]_inventoryVars => InventoryInv'
<1> SUFFICES ASSUME InventoryInv, [InventoryNext]_inventoryVars PROVE InventoryInv'
  OBVIOUS
<1>1. CASE Snapshot
  BY <1>1, SnapshotInv
<1>2. CASE RecordSnapshot
  BY <1>2, RecordSnapshotInv
<1>3. CASE ListMissing
  BY <1>3, RoundGoesOn DEF ListMissing, Enter
<1>4. CASE AfterRemovals
  <2>1. visiting' \subseteq Part /\ phase' \in {"modified", "idle"}
    BY <1>4 DEF AfterRemovals, Enter, Modified, Present
  <2>2. QED
    BY <1>4, <2>1, RoundGoesOn DEF AfterRemovals
<1>5. CASE RoundDone
  BY <1>5, RoundGoesOn DEF RoundDone, Enter
<1>6. CASE Abort
  BY <1>6, RoundGoesOn DEF Abort, Enter
<1>7. ASSUME NEW p \in Part, Upsert(p) PROVE InventoryInv'
  BY <1>7, UpsertInv
<1>8. ASSUME NEW p \in Part, ConfirmRemoval(p) PROVE InventoryInv'
  BY <1>8, ConfirmRemovalInv
<1>9. ASSUME NEW p \in Part, ReportAdded(p) \/ ReportModified(p) PROVE InventoryInv'
  <2>1. visiting \subseteq Part
    BY DEF InventoryInv, InventoryType
  <2>2. /\ UNCHANGED <<round, phase, snapshot, component, changed, absences, told>>
        /\ events \subseteq events' /\ visiting' = visiting \ {p} /\ phase # "upsert"
    BY <1>9 DEF ReportAdded, ReportModified, RecordChange
  <2>3. QED
    BY <2>1, <2>2, RoundGoesOn
<1>10. CASE UNCHANGED inventoryVars
  <2>1. UNCHANGED <<round, phase, snapshot, component, changed, visiting, events, absences, told>>
    BY <1>10 DEF inventoryVars
  <2>2. InventoryType'
    BY <2>1 DEF InventoryInv, InventoryType
  <2>3. \A p \in Part : PartInv(p)'
    BY <2>1 DEF InventoryInv, PartInv, Marked, Reported, RowsUpserted, SnapshotTaken, MarkIsOlder, Present
  <2>4. QED
    BY <2>2, <2>3 DEF InventoryInv
<1>11. QED
  BY <1>1, <1>2, <1>3, <1>4, <1>5, <1>6, <1>7, <1>8, <1>9, <1>10 DEF InventoryNext

\* The marks and the rounds agree in every reachable state: a part that has its
\* mark when it is confirmed has been away for two rounds.
THEOREM InventoryInvariant == InventorySpec => []InventoryInv
<1>1. QED
  BY InventoryInitInv, InventoryStepInv, PTL DEF InventorySpec

\* However many parts and rounds there are and wherever a round breaks off, a
\* removal is reported after two rounds in a row without the part, and once.
THEOREM InventoryDebounces == InventorySpec => []RemovalDebounced
<1>1. InventoryInv => RemovalDebounced
  BY DEF InventoryInv, PartInv, Marked, RemovalDebounced
<1>2. QED
  BY <1>1, InventoryInvariant, PTL

-----------------------------------------------------------------------------
(* The JSON channel *)

Collected == 1..batches
ReportRequest ==
  [batch : Nat, at : {"sent", "dedup", "status", "ingest", "answered"},
   answer : {"none", "202", "4xx", "500"}]

\* Every variable stays in its range.
ReportType ==
  /\ batches \in Nat /\ batches <= MaxBatches
  /\ agent \in {"idle", "direct", "spool", "flush"}
  /\ todo \in SUBSET Collected
  /\ files \in SUBSET Collected
  /\ request \in Seq(ReportRequest)
  /\ \A p \in DOMAIN request : request[p].batch \in Collected
  /\ ingested \in [Batch -> Nat]

\* The request that the reporter waits for while it sends the batch of its cycle.
Waited ==
  /\ agent = "direct" => waiting \in DOMAIN request /\ request[waiting].batch = current
  /\ agent \in {"direct", "spool"} => current = batches /\ batches # 0
  /\ agent \in {"idle", "spool"} => waiting = 0

\* A batch that has been collected is with the agent or in the ledger, or it has
\* been given up.
Kept ==
  \A b \in Collected :
    \/ b \in files \cup ledger
    \/ b = current /\ agent \in {"direct", "spool"}
    \/ \E why \in {"refused", "disk", "old", "crash"} : <<b, why>> \in gaveUp

\* The answer 202 comes only for a batch that is in the ledger.
AnswersTrue ==
  \A p \in DOMAIN request :
    /\ request[p].answer = "202" => request[p].batch \in ledger
    /\ request[p].at # "answered" => request[p].answer = "none"

\* The request that has put its batch into the ledger goes on alone.
Inserted(p) == request[p].at \in {"status", "ingest"}
OneInserts ==
  /\ \A p \in DOMAIN request :
       Inserted(p) => request[p].batch \in ledger /\ ingested[request[p].batch] = 0
  /\ \A p, q \in DOMAIN request :
       Inserted(p) /\ Inserted(q) /\ request[p].batch = request[q].batch => p = q

\* It is under way, was cut off, or has failed, as long as the batch is missing
\* in the pipeline.
Responsible(p, b) ==
  /\ request[p].batch = b
  /\ Inserted(p) \/ (request[p].at = "answered" /\ request[p].answer \in {"500", "none"})
Pipelined ==
  \A b \in Batch :
    /\ ingested[b] <= 1 /\ (ingested[b] = 1 => b \in ledger)
    /\ b \in ledger => b \in Collected
    /\ b \in ledger /\ ingested[b] = 0 => \E p \in DOMAIN request : Responsible(p, b)

ReportInv == ReportType /\ Waited /\ Kept /\ AnswersTrue /\ OneInserts /\ Pipelined

-----------------------------------------------------------------------------
LEMMA ReportInitInv == ReportInit => ReportInv
<1> SUFFICES ASSUME ReportInit PROVE ReportInv
  OBVIOUS
<1>1. request = <<>> /\ request \in Seq(ReportRequest) /\ DOMAIN request = {} /\ Collected = {}
  BY DEF ReportInit, Collected
<1>2. ReportType
  BY <1>1, JsonReportAssumption DEF ReportInit, ReportType, JsonReportAssumption
<1>3. Waited /\ Kept /\ AnswersTrue /\ OneInserts
  BY <1>1 DEF ReportInit, Waited, Kept, AnswersTrue, OneInserts
<1>4. Pipelined
  BY DEF ReportInit, Pipelined
<1>5. QED
  BY <1>2, <1>3, <1>4 DEF ReportInv

\* A step of the agent that sends nothing.
LEMMA AgentOnly ==
  ASSUME ReportInv, UNCHANGED <<batches, request, ledger, ingested>>,
         agent' \in {"idle", "direct", "spool", "flush"},
         todo' \subseteq todo \cup files, files' \subseteq files \cup {batches},
         batches = 0 => files' \subseteq files,
         Waited', Kept'
  PROVE  ReportInv'
<1>1. ReportType'
  <2>1. Collected' = Collected
    BY DEF Collected
  <2>2. todo \subseteq Collected /\ files \subseteq Collected
    BY DEF ReportInv, ReportType
  <2>3. batches # 0 => batches \in Collected
    BY DEF ReportInv, ReportType, Collected
  <2>4. todo' \subseteq Collected /\ files' \subseteq Collected
    BY <2>2, <2>3
  <2>5. QED
    BY <2>1, <2>4 DEF ReportInv, ReportType
<1>2. AnswersTrue' /\ OneInserts' /\ Pipelined'
  BY DEF ReportInv, AnswersTrue, OneInserts, Pipelined, Inserted, Responsible, Collected
<1>3. QED
  BY <1>1, <1>2 DEF ReportInv

\* The reporter has its answer: a batch it lets go of is in the ledger, or given up.
LEMMA DirectDoneInv ==
  ASSUME ReportInv, NEW p \in DOMAIN request, DirectDone(p)
  PROVE  ReportInv'
<1>1. /\ agent = "direct" /\ waiting = p /\ waiting' = 0
      /\ UNCHANGED <<batches, current, files, request, ledger, ingested>>
  BY DEF DirectDone, Learns, serverSide
<1>2. request[p].batch = current /\ current = batches
  BY <1>1 DEF ReportInv, Waited
<1>3. CASE Learns(p, "202") /\ UNCHANGED gaveUp /\ agent' \in {"flush", "idle"}
  <2>1. current \in ledger
    BY <1>2, <1>3 DEF Learns, ReportInv, AnswersTrue
  <2>2. Kept'
    BY <1>1, <1>3, <2>1 DEF Kept, ReportInv, Collected
  <2>3. Waited'
    BY <1>1, <1>3 DEF Waited
  <2>4. todo' \subseteq todo \cup files
    BY DEF DirectDone, SpoolFiles
  <2>5. QED
    BY <1>1, <1>3, <2>2, <2>3, <2>4, AgentOnly
<1>4. CASE agent' = "spool" /\ UNCHANGED <<todo, gaveUp>>
  <2>1. Kept' /\ Waited'
    BY <1>1, <1>2, <1>4 DEF Kept, Waited, ReportInv, Collected
  <2>2. QED
    BY <1>1, <1>4, <2>1, AgentOnly
<1>5. CASE agent' = "idle" /\ Lose(current, "refused") /\ UNCHANGED todo
  <2>1. Kept' /\ Waited'
    BY <1>1, <1>2, <1>5 DEF Kept, Waited, ReportInv, Collected, Lose
  <2>2. QED
    BY <1>1, <1>5, <2>1, AgentOnly
<1>6. QED
  BY <1>3, <1>4, <1>5 DEF DirectDone

LEMMA CacheInv ==
  ASSUME ReportInv, Cache
  PROVE  ReportInv'
<1>1. /\ agent = "spool" /\ agent' = "idle"
      /\ UNCHANGED <<batches, current, todo, waiting, request, ledger, ingested>>
      /\ \/ files' = files \cup {current} /\ UNCHANGED gaveUp
         \/ Lose(current, "disk") /\ UNCHANGED files
  BY DEF Cache, serverSide
<1>2. current = batches /\ waiting = 0
  BY <1>1 DEF ReportInv, Waited
<1>3. Waited'
  BY <1>1, <1>2 DEF Waited
<1>4. Kept'
  BY <1>1, <1>2 DEF Kept, ReportInv, Lose, Collected
<1>5. batches # 0
  BY <1>1 DEF ReportInv, Waited
<1>6. QED
  BY <1>1, <1>2, <1>3, <1>4, <1>5, AgentOnly

\* The reporter sends b: one more request, which it waits for.
LEMMA SendReportInv ==
  ASSUME ReportInv, NEW b \in 1..batches', SendReport(b),
         batches' \in Nat, batches' <= MaxBatches, batches <= batches',
         agent' \in {"idle", "direct", "spool", "flush"},
         UNCHANGED <<files, todo, ledger, ingested>>,
         Waited', Kept'
  PROVE  ReportInv'
<1> DEFINE r == [batch |-> b, at |-> "sent", answer |-> "none"]
<1>1. /\ request \in Seq(ReportRequest) /\ r \in ReportRequest
      /\ request' = Append(request, r) /\ batches \in Nat
  BY DEF ReportInv, ReportType, ReportRequest, SendReport
<1>2. r.batch = b /\ r.at = "sent" /\ r.answer = "none"
  OBVIOUS
<1> HIDE DEF r
<1>3. request' \in Seq(ReportRequest) /\ Len(request') = Len(request) + 1
  BY <1>1, AppendProperties
<1>4. /\ DOMAIN request = 1..Len(request) /\ Len(request) \in Nat
      /\ DOMAIN request' = 1..Len(request')
  BY <1>1, <1>3, LenProperties
<1>5. \A p \in DOMAIN request : p \in DOMAIN request' /\ request'[p] = request[p]
  BY <1>1, <1>3, <1>4, AppendProperties
<1>6. request'[Len(request) + 1] = r
  BY <1>1, AppendProperties
<1>7. \A p \in DOMAIN request' : p \in DOMAIN request \/ request'[p] = r
  BY <1>3, <1>4, <1>6
<1>8. ReportType'
  <2>1. \A p \in DOMAIN request' : request'[p].batch \in 1..batches'
    BY <1>1, <1>2, <1>5, <1>7 DEF ReportInv, ReportType, Collected
  <2>2. todo' \in SUBSET (1..batches') /\ files' \in SUBSET (1..batches')
    BY <1>1 DEF ReportInv, ReportType, Collected
  <2>3. QED
    BY <1>3, <2>1, <2>2 DEF ReportInv, ReportType, Collected
<1>9. AnswersTrue'
  BY <1>2, <1>5, <1>7 DEF ReportInv, AnswersTrue
<1>10. \A p \in DOMAIN request' : Inserted(p)' => p \in DOMAIN request /\ Inserted(p)
  BY <1>2, <1>5, <1>7 DEF Inserted
<1>11. OneInserts'
  BY <1>5, <1>10 DEF ReportInv, OneInserts
<1>12. \A p \in DOMAIN request, c \in Batch : Responsible(p, c) => Responsible(p, c)'
  BY <1>5 DEF Responsible, Inserted
<1>13. Pipelined'
  BY <1>1, <1>5, <1>12 DEF ReportInv, Pipelined, Collected
<1>14. QED
  BY <1>8, <1>9, <1>11, <1>13 DEF ReportInv

\* The request that has been sent is the one that is waited for.
LEMMA SendsOne ==
  ASSUME ReportInv, NEW b, b \in Nat, SendReport(b)
  PROVE  waiting' \in DOMAIN request' /\ request'[waiting'].batch = b
<1> DEFINE r == [batch |-> b, at |-> "sent", answer |-> "none"]
<1>1. /\ request \in Seq(ReportRequest) /\ r \in ReportRequest
      /\ request' = Append(request, r) /\ waiting' = Len(request) + 1 /\ r.batch = b
  BY DEF ReportInv, ReportType, ReportRequest, SendReport
<1> HIDE DEF r
<1>2. /\ request' \in Seq(ReportRequest) /\ Len(request') = Len(request) + 1
      /\ request'[Len(request) + 1] = r
  BY <1>1, AppendProperties
<1>3. DOMAIN request' = 1..Len(request') /\ Len(request) \in Nat
  BY <1>1, <1>2, LenProperties
<1>4. QED
  BY <1>1, <1>2, <1>3

LEMMA CycleInv ==
  ASSUME ReportInv, Cycle
  PROVE  ReportInv'
<1>1. /\ agent = "idle" /\ agent' = "direct" /\ SendReport(batches + 1)
      /\ batches < MaxBatches /\ batches' = batches + 1 /\ current' = batches + 1
      /\ UNCHANGED <<files, todo, ledger, ingested, gaveUp>>
  BY DEF Cycle, serverSide
<1>2. batches \in Nat /\ batches' \in Nat /\ batches + 1 \in 1..batches' /\ MaxBatches \in Nat
  BY <1>1, JsonReportAssumption DEF ReportInv, ReportType, JsonReportAssumption
<1>3. waiting' \in DOMAIN request' /\ request'[waiting'].batch = batches + 1
  BY <1>1, <1>2, SendsOne
<1>4. Waited'
  BY <1>1, <1>2, <1>3 DEF Waited
<1>5. Kept'
  <2>1. \A b \in Collected' : b \in Collected \/ b = current'
    BY <1>1, <1>2 DEF Collected
  <2>2. QED
    BY <1>1, <2>1 DEF ReportInv, Kept
<1>6. batches' <= MaxBatches /\ batches <= batches'
  BY <1>1, <1>2
<1>7. QED
  BY <1>1, <1>2, <1>4, <1>5, <1>6, SendReportInv

LEMMA NextFileInv ==
  ASSUME ReportInv, NextFile
  PROVE  ReportInv'
<1>1. /\ agent = "flush" /\ waiting = 0
      /\ UNCHANGED <<batches, current, ledger, ingested>>
  BY DEF NextFile, serverSide
<1>2. CASE agent' = "idle" /\ UNCHANGED <<files, todo, waiting, request, gaveUp>>
  <2>1. Kept' /\ Waited'
    BY <1>1, <1>2 DEF ReportInv, Kept, Waited, Collected
  <2>2. QED
    BY <1>1, <1>2, <2>1, AgentOnly
<1>3. ASSUME NEW f \in todo, todo' = todo \ {f}, UNCHANGED <<agent, waiting, request>>,
             \/ UNCHANGED <<files, gaveUp>>
             \/ RemoveFile(f) /\ Lose(f, "old")
      PROVE  ReportInv'
  <2>1. Kept' /\ Waited'
    BY <1>1, <1>3 DEF ReportInv, Kept, Waited, Collected, RemoveFile, Lose
  <2>2. files' \subseteq files /\ todo' \subseteq todo
    BY <1>3 DEF RemoveFile
  <2>3. QED
    BY <1>1, <1>3, <2>1, <2>2, AgentOnly
<1>4. ASSUME NEW f \in todo, SendReport(f), UNCHANGED <<agent, files, todo, gaveUp>>
      PROVE  ReportInv'
  <2>1. Kept' /\ Waited'
    BY <1>1, <1>4 DEF ReportInv, Kept, Waited, Collected
  <2>2. f \in 1..batches' /\ batches' \in Nat /\ batches' <= MaxBatches /\ batches <= batches'
    BY <1>1 DEF ReportInv, ReportType, Collected
  <2>3. agent' \in {"idle", "direct", "spool", "flush"}
    BY <1>1, <1>4
  <2>4. QED
    BY <1>1, <1>4, <2>1, <2>2, <2>3, SendReportInv
<1>5. QED
  BY <1>2, <1>3, <1>4 DEF NextFile

LEMMA FlushDoneInv ==
  ASSUME ReportInv, NEW p \in DOMAIN request, FlushDone(p)
  PROVE  ReportInv'
<1>1. /\ agent = "flush" /\ waiting' = 0
      /\ UNCHANGED <<batches, current, request, ledger, ingested, gaveUp>>
  BY DEF FlushDone, Learns, serverSide
<1>2. CASE /\ Learns(p, "202") /\ RemoveFile(request[p].batch)
           /\ todo' = todo \ {request[p].batch} /\ UNCHANGED agent
  <2>1. request[p].batch \in ledger
    BY <1>2 DEF Learns, ReportInv, AnswersTrue
  <2>2. Kept' /\ Waited'
    BY <1>1, <1>2, <2>1 DEF ReportInv, Kept, Waited, Collected, RemoveFile
  <2>3. files' \subseteq files /\ todo' \subseteq todo
    BY <1>2 DEF RemoveFile
  <2>4. QED
    BY <1>1, <1>2, <2>2, <2>3, AgentOnly
<1>3. CASE agent' = "idle" /\ UNCHANGED <<files, todo>>
  <2>1. Kept' /\ Waited'
    BY <1>1, <1>3 DEF ReportInv, Kept, Waited, Collected
  <2>2. QED
    BY <1>1, <1>3, <2>1, AgentOnly
<1>4. QED
  BY <1>2, <1>3 DEF FlushDone

LEMMA CrashAgentInv ==
  ASSUME ReportInv, CrashAgent
  PROVE  ReportInv'
<1>1. /\ agent' = "idle" /\ waiting' = 0
      /\ IF agent \in {"direct", "spool"} THEN Lose(current, "crash") ELSE UNCHANGED gaveUp
      /\ UNCHANGED <<batches, current, files, todo, request, ledger, ingested>>
  BY DEF CrashAgent, serverSide
<1>2. Kept' /\ Waited'
  BY <1>1 DEF ReportInv, Kept, Waited, Collected, Lose
<1>3. QED
  BY <1>1, <1>2, AgentOnly

-----------------------------------------------------------------------------
\* A step of the server: the requests keep their batches, the ledger grows.
ServerStep ==
  /\ UNCHANGED <<batches, agentSide, gaveUp>>
  /\ ledger \subseteq ledger'
  /\ request' \in Seq(ReportRequest) /\ DOMAIN request' = DOMAIN request
  /\ \A p \in DOMAIN request : request'[p].batch = request[p].batch

LEMMA ServerStepInv ==
  ASSUME ReportInv, ServerStep, ingested' \in [Batch -> Nat],
         AnswersTrue', OneInserts', Pipelined'
  PROVE  ReportInv'
<1>1. ReportType'
  BY DEF ReportInv, ReportType, ServerStep, agentSide, Collected
<1>2. Waited'
  BY DEF ReportInv, Waited, ServerStep, agentSide
<1>3. Kept'
  BY DEF ReportInv, Kept, ServerStep, agentSide, Collected
<1>4. QED
  BY <1>1, <1>2, <1>3 DEF ReportInv

\* The request at one step goes to another one, perhaps with its answer.
LEMMA RequestMoves ==
  ASSUME request \in Seq(ReportRequest), NEW p \in DOMAIN request, NEW from, NEW to,
         \/ Moves(p, from, to) /\ to \in {"dedup", "status", "ingest"}
         \/ Answers(p, from, to) /\ to \in {"202", "4xx", "500"}
  PROVE  /\ request[p].at = from
         /\ request' \in Seq(ReportRequest) /\ DOMAIN request' = DOMAIN request
         /\ \A q \in DOMAIN request \ {p} : request'[q] = request[q]
         /\ request'[p].batch = request[p].batch
         /\ Moves(p, from, to) => request'[p].at = to /\ request'[p].answer = request[p].answer
         /\ Answers(p, from, to) => request'[p].at = "answered" /\ request'[p].answer = to
<1>1. request[p] \in ReportRequest
  BY ElementOfSeq, LenProperties
<1>2. CASE Moves(p, from, to) /\ to \in {"dedup", "status", "ingest"}
  <2> DEFINE r == [request[p] EXCEPT !.at = to]
  <2>1. request' = [request EXCEPT ![p] = r]
    BY <1>2 DEF Moves
  <2>2. r \in ReportRequest /\ r.at = to /\ r.answer = request[p].answer /\ r.batch = request[p].batch
    BY <1>1, <1>2 DEF ReportRequest
  <2> HIDE DEF r
  <2>3. request' \in Seq(ReportRequest) /\ Len(request') = Len(request)
    BY <2>1, <2>2, ExceptSeq
  <2>4. DOMAIN request' = DOMAIN request
    BY <2>1
  <2>5. request'[p] = r /\ \A q \in DOMAIN request \ {p} : request'[q] = request[q]
    BY <2>1
  <2>6. request[p].at = from
    BY <1>2 DEF Moves
  <2>7. ~Answers(p, from, to)
    BY <1>2, <2>2, <2>5, <1>1 DEF Answers, ReportRequest
  <2>8. QED
    BY <2>2, <2>3, <2>4, <2>5, <2>6, <2>7
<1>3. CASE Answers(p, from, to) /\ to \in {"202", "4xx", "500"}
  <2> DEFINE r == [request[p] EXCEPT !.at = "answered", !.answer = to]
  <2>1. request' = [request EXCEPT ![p] = r]
    BY <1>1, <1>3 DEF Answers, ReportRequest
  <2>2. r \in ReportRequest /\ r.at = "answered" /\ r.answer = to /\ r.batch = request[p].batch
    BY <1>1, <1>3 DEF ReportRequest
  <2> HIDE DEF r
  <2>3. request' \in Seq(ReportRequest) /\ Len(request') = Len(request)
    BY <2>1, <2>2, ExceptSeq
  <2>4. DOMAIN request' = DOMAIN request
    BY <2>1
  <2>5. request'[p] = r /\ \A q \in DOMAIN request \ {p} : request'[q] = request[q]
    BY <2>1
  <2>6. request[p].at = from
    BY <1>3 DEF Answers
  <2>7. ~Moves(p, from, to)
    BY <1>3, <2>2, <2>5, <1>1 DEF Moves, ReportRequest
  <2>8. QED
    BY <2>2, <2>3, <2>4, <2>5, <2>6, <2>7
<1>4. QED
  BY <1>2, <1>3

LEMMA AdmitInv ==
  ASSUME ReportInv, NEW p \in DOMAIN request, Admit(p)
  PROVE  ReportInv'
<1>1. /\ request \in Seq(ReportRequest)
      /\ UNCHANGED <<batches, agentSide, ledger, ingested, gaveUp>>
  BY DEF ReportInv, ReportType, Admit, serverSide
<1>2. \/ Moves(p, "sent", "dedup")
      \/ Answers(p, "sent", "4xx")
      \/ Answers(p, "sent", "500")
  BY DEF Admit
<1>3. /\ request[p].at = "sent"
      /\ request' \in Seq(ReportRequest) /\ DOMAIN request' = DOMAIN request
      /\ \A q \in DOMAIN request \ {p} : request'[q] = request[q]
      /\ request'[p].batch = request[p].batch
      /\ \/ request'[p].at = "dedup" /\ request'[p].answer = request[p].answer
         \/ request'[p].at = "answered" /\ request'[p].answer \in {"4xx", "500"}
  <2>1. CASE Moves(p, "sent", "dedup")
    BY <1>1, <2>1, RequestMoves
  <2>2. CASE Answers(p, "sent", "4xx")
    BY <1>1, <2>2, RequestMoves
  <2>3. CASE Answers(p, "sent", "500")
    BY <1>1, <2>3, RequestMoves
  <2>4. QED
    BY <1>2, <2>1, <2>2, <2>3
<1>4. ServerStep
  BY <1>1, <1>3 DEF ServerStep
<1>5. AnswersTrue'
  BY <1>1, <1>3 DEF ReportInv, AnswersTrue
<1>6. ~Inserted(p) /\ ~Inserted(p)' /\ \A q \in DOMAIN request \ {p} : Inserted(q)' = Inserted(q)
  BY <1>3 DEF Inserted
<1>7. OneInserts'
  BY <1>1, <1>3, <1>6 DEF ReportInv, OneInserts
<1>8. \A q \in DOMAIN request, b \in Batch : Responsible(q, b) => Responsible(q, b)'
  BY <1>3 DEF Responsible, Inserted
<1>9. Pipelined'
  BY <1>1, <1>3, <1>8 DEF ReportInv, Pipelined, Collected, Batch
<1>10. QED
  BY <1>1, <1>4, <1>5, <1>7, <1>9, ServerStepInv DEF ReportInv, ReportType

LEMMA SeenBatchInv ==
  ASSUME ReportInv, NEW p \in DOMAIN request, SeenBatch(p)
  PROVE  ReportInv'
<1> DEFINE c == request[p].batch
<1>1. /\ request \in Seq(ReportRequest) /\ c \in Collected /\ c \in Batch
      /\ UNCHANGED <<batches, agentSide, ingested, gaveUp>>
  BY JsonReportAssumption
  DEF ReportInv, ReportType, SeenBatch, Collected, Batch, JsonReportAssumption
<1>2. CASE \/ c \in ledger /\ Answers(p, "dedup", "202") /\ UNCHANGED ledger
           \/ Answers(p, "dedup", "500") /\ UNCHANGED ledger
  <2>1. /\ request[p].at = "dedup"
        /\ request' \in Seq(ReportRequest) /\ DOMAIN request' = DOMAIN request
        /\ \A q \in DOMAIN request \ {p} : request'[q] = request[q]
        /\ request'[p].batch = c /\ request'[p].at = "answered"
        /\ request'[p].answer = "202" => c \in ledger
    <3>1. CASE c \in ledger /\ Answers(p, "dedup", "202")
      BY <1>1, <3>1, RequestMoves
    <3>2. CASE Answers(p, "dedup", "500")
      BY <1>1, <3>2, RequestMoves
    <3>3. QED
      BY <1>2, <3>1, <3>2
  <2>2. ServerStep
    BY <1>1, <1>2, <2>1 DEF ServerStep
  <2>3. AnswersTrue'
    BY <1>2, <2>1 DEF ReportInv, AnswersTrue
  <2>4. ~Inserted(p) /\ ~Inserted(p)' /\ \A q \in DOMAIN request \ {p} : Inserted(q)' = Inserted(q)
    BY <2>1 DEF Inserted
  <2>5. OneInserts'
    BY <1>1, <1>2, <2>1, <2>4 DEF ReportInv, OneInserts
  <2>6. \A q \in DOMAIN request, b \in Batch : Responsible(q, b) => Responsible(q, b)'
    BY <2>1 DEF Responsible, Inserted
  <2>7. Pipelined'
    BY <1>1, <1>2, <2>1, <2>6 DEF ReportInv, Pipelined, Collected, Batch
  <2>8. QED
    BY <1>1, <2>2, <2>3, <2>5, <2>7, ServerStepInv DEF ReportInv, ReportType
<1>3. CASE c \notin ledger /\ Moves(p, "dedup", "status") /\ ledger' = ledger \cup {c}
  <2>1. /\ request[p].at = "dedup"
        /\ request' \in Seq(ReportRequest) /\ DOMAIN request' = DOMAIN request
        /\ \A q \in DOMAIN request \ {p} : request'[q] = request[q]
        /\ request'[p].batch = c /\ request'[p].at = "status"
        /\ request'[p].answer = request[p].answer
    BY <1>1, <1>3, RequestMoves
  <2>2. ServerStep
    BY <1>1, <1>3, <2>1 DEF ServerStep
  <2>3. AnswersTrue'
    BY <1>3, <2>1 DEF ReportInv, AnswersTrue
  <2>4. Inserted(p)' /\ \A q \in DOMAIN request \ {p} : Inserted(q)' = Inserted(q)
    BY <2>1 DEF Inserted
  <2>5. ingested[c] = 0
    BY <1>1, <1>3 DEF ReportInv, ReportType, Pipelined
  <2>6. \A q \in DOMAIN request : Inserted(q) => request[q].batch # c
    BY <1>3 DEF ReportInv, OneInserts
  <2>7. OneInserts'
    BY <1>1, <1>3, <2>1, <2>4, <2>5, <2>6 DEF ReportInv, OneInserts
  <2>8. \A q \in DOMAIN request, b \in Batch : Responsible(q, b) => Responsible(q, b)'
    BY <2>1 DEF Responsible, Inserted
  <2>9. Responsible(p, c)'
    BY <2>1, <2>4 DEF Responsible
  <2>10. Pipelined'
    BY <1>1, <1>3, <2>1, <2>8, <2>9 DEF ReportInv, Pipelined, Collected
  <2>11. QED
    BY <1>1, <2>2, <2>3, <2>7, <2>10, ServerStepInv DEF ReportInv, ReportType
<1>4. QED
  BY <1>2, <1>3 DEF SeenBatch

LEMMA StatusUpdateInv ==
  ASSUME ReportInv, NEW p \in DOMAIN request, StatusUpdate(p)
  PROVE  ReportInv'
<1>1. /\ request \in Seq(ReportRequest)
      /\ UNCHANGED <<batches, agentSide, ledger, ingested, gaveUp>>
  BY DEF ReportInv, ReportType, StatusUpdate, serverSide
<1>2. Moves(p, "status", "ingest") \/ Answers(p, "status", "500")
  BY DEF StatusUpdate
<1>3. /\ request[p].at = "status"
      /\ request' \in Seq(ReportRequest) /\ DOMAIN request' = DOMAIN request
      /\ \A q \in DOMAIN request \ {p} : request'[q] = request[q]
      /\ request'[p].batch = request[p].batch
      /\ \/ request'[p].at = "ingest" /\ request'[p].answer = request[p].answer
         \/ request'[p].at = "answered" /\ request'[p].answer = "500"
  <2>1. CASE Moves(p, "status", "ingest")
    BY <1>1, <2>1, RequestMoves
  <2>2. CASE Answers(p, "status", "500")
    BY <1>1, <2>2, RequestMoves
  <2>3. QED
    BY <1>2, <2>1, <2>2
<1>4. ServerStep
  BY <1>1, <1>3 DEF ServerStep
<1>5. AnswersTrue'
  BY <1>1, <1>3 DEF ReportInv, AnswersTrue
<1>6. \A q \in DOMAIN request : Inserted(q)' => Inserted(q)
  BY <1>3 DEF Inserted
<1>7. OneInserts'
  BY <1>1, <1>3, <1>6 DEF ReportInv, OneInserts
<1>8. \A q \in DOMAIN request, b \in Batch : Responsible(q, b) => Responsible(q, b)'
  BY <1>3 DEF Responsible, Inserted
<1>9. Pipelined'
  BY <1>1, <1>3, <1>8 DEF ReportInv, Pipelined, Collected, Batch
<1>10. QED
  BY <1>1, <1>4, <1>5, <1>7, <1>9, ServerStepInv DEF ReportInv, ReportType

LEMMA IngestReportInv ==
  ASSUME ReportInv, NEW p \in DOMAIN request, IngestReport(p)
  PROVE  ReportInv'
<1> DEFINE c == request[p].batch
<1>1. /\ request \in Seq(ReportRequest) /\ c \in Batch /\ ingested \in [Batch -> Nat]
      /\ ingested' = [ingested EXCEPT ![c] = @ + 1]
      /\ UNCHANGED <<batches, agentSide, ledger, gaveUp>>
  BY JsonReportAssumption
  DEF ReportInv, ReportType, IngestReport, Collected, Batch, JsonReportAssumption
<1>2. /\ request[p].at = "ingest"
      /\ request' \in Seq(ReportRequest) /\ DOMAIN request' = DOMAIN request
      /\ \A q \in DOMAIN request \ {p} : request'[q] = request[q]
      /\ request'[p].batch = request[p].batch
      /\ request'[p].at = "answered" /\ request'[p].answer = "202"
  BY <1>1, RequestMoves DEF IngestReport
<1>3. ServerStep
  BY <1>1, <1>2 DEF ServerStep
<1>4. Inserted(p) /\ c \in ledger /\ ingested[c] = 0
  BY <1>2 DEF Inserted, ReportInv, OneInserts
<1>5. /\ ingested' \in [Batch -> Nat] /\ ingested'[c] = 1
      /\ \A b \in Batch \ {c} : ingested'[b] = ingested[b]
  BY <1>1, <1>4
<1>6. AnswersTrue'
  BY <1>1, <1>2, <1>4 DEF ReportInv, AnswersTrue
<1>7. ~Inserted(p)' /\ \A q \in DOMAIN request \ {p} : Inserted(q)' = Inserted(q)
  BY <1>2 DEF Inserted
<1>8. \A q \in DOMAIN request \ {p} : Inserted(q) => request[q].batch # c
  BY <1>4 DEF ReportInv, OneInserts
<1>9. \A q \in DOMAIN request : request[q].batch \in Batch
  BY JsonReportAssumption DEF ReportInv, ReportType, Collected, Batch, JsonReportAssumption
<1>10. OneInserts'
  BY <1>1, <1>2, <1>5, <1>7, <1>8, <1>9 DEF ReportInv, OneInserts
<1>11. \A q \in DOMAIN request, b \in Batch \ {c} : Responsible(q, b) => Responsible(q, b)'
  BY <1>2, <1>7 DEF Responsible
<1>12. Pipelined'
  BY <1>1, <1>2, <1>4, <1>5, <1>11 DEF ReportInv, Pipelined, Collected
<1>13. QED
  BY <1>3, <1>5, <1>6, <1>10, <1>12, ServerStepInv

LEMMA CrashServerInv ==
  ASSUME ReportInv, CrashServer
  PROVE  ReportInv'
<1>1. /\ request \in Seq(ReportRequest)
      /\ request' = [p \in DOMAIN request |-> [request[p] EXCEPT !.at = "answered"]]
      /\ UNCHANGED <<batches, agentSide, ledger, ingested, gaveUp>>
  BY DEF ReportInv, ReportType, CrashServer, serverSide
<1>2. DOMAIN request = 1..Len(request) /\ Len(request) \in Nat
  BY <1>1, LenProperties
<1>3. \A p \in DOMAIN request : request[p] \in ReportRequest
  BY <1>1, <1>2, ElementOfSeq
<1>4. \A p \in DOMAIN request :
        /\ request'[p] \in ReportRequest /\ request'[p].batch = request[p].batch
        /\ request'[p].at = "answered" /\ request'[p].answer = request[p].answer
  BY <1>1, <1>3 DEF ReportRequest
<1>5. DOMAIN request' = DOMAIN request /\ request' \in [1..Len(request) -> ReportRequest]
  BY <1>1, <1>2, <1>4
<1>6. request' \in Seq(ReportRequest)
  BY <1>2, <1>5, SeqDef
<1>7. ServerStep
  BY <1>1, <1>4, <1>5, <1>6 DEF ServerStep
<1>8. AnswersTrue' /\ OneInserts'
  BY <1>1, <1>4, <1>5 DEF ReportInv, AnswersTrue, OneInserts, Inserted
<1>9. \A q \in DOMAIN request, b \in Batch : Responsible(q, b) => Responsible(q, b)'
  BY <1>4 DEF Responsible, Inserted, ReportInv, AnswersTrue
<1>10. Pipelined'
  BY <1>1, <1>5, <1>9 DEF ReportInv, Pipelined, Collected, Batch
<1>11. QED
  BY <1>1, <1>7, <1>8, <1>10, ServerStepInv DEF ReportInv, ReportType

LEMMA ReportFrame ==
  ASSUME ReportInv, UNCHANGED <<batches, agentSide, request, ledger, ingested, gaveUp>>
  PROVE  ReportInv'
<1>1. ReportType' /\ Waited' /\ Kept'
  BY DEF ReportInv, ReportType, Waited, Kept, Collected, agentSide
<1>2. AnswersTrue' /\ OneInserts' /\ Pipelined'
  BY DEF ReportInv, AnswersTrue, OneInserts, Pipelined, Inserted, Responsible, Collected
<1>3. QED
  BY <1>1, <1>2 DEF ReportInv

\* Every step of the agent and of the server keeps the invariant.
LEMMA ReportStepInv == ReportInv /\ [ReportNext]_reportVars => ReportInv'
<1> SUFFICES ASSUME ReportInv, [ReportNext]_reportVars PROVE ReportInv'
  OBVIOUS
<1>1. CASE Cycle
  BY <1>1, CycleInv
<1>2. CASE Cache
  BY <1>2, CacheInv
<1>3. CASE NextFile
  BY <1>3, NextFileInv
<1>4. CASE CrashAgent
  BY <1>4, CrashAgentInv
<1>5. ASSUME NEW p \in DOMAIN request, DirectDone(p) PROVE ReportInv'
  BY <1>5, DirectDoneInv
<1>6. ASSUME NEW p \in DOMAIN request, FlushDone(p) PROVE ReportInv'
  BY <1>6, FlushDoneInv
<1>7. ASSUME NEW p \in DOMAIN request, HandleReport(p) PROVE ReportInv'
  BY <1>7, AdmitInv, SeenBatchInv, StatusUpdateInv, IngestReportInv DEF HandleReport
<1>8. CASE CrashServer
  BY <1>8, CrashServerInv
<1>9. CASE RevokeToken
  BY <1>9, ReportFrame DEF RevokeToken
<1>10. ASSUME NEW b \in Batch, GrowOld(b) PROVE ReportInv'
  BY <1>10, ReportFrame DEF GrowOld, serverSide
<1>11. CASE UNCHANGED reportVars
  BY <1>11, ReportFrame DEF reportVars, serverSide
<1>12. QED
  BY <1>1, <1>2, <1>3, <1>4, <1>5, <1>6, <1>7, <1>8, <1>9, <1>10, <1>11 DEF ReportNext

\* The state of the channel that the code relies on, in every reachable state:
\* a batch is kept somewhere or given up, 202 means that it is in the ledger,
\* and one request at most carries it on from there.
THEOREM ReportInvariant == ReportSpec => []ReportInv
<1>1. QED
  BY ReportInitInv, ReportStepInv, PTL DEF ReportSpec

\* A batch is never put into the pipeline twice and never lost unnoticed, however
\* many batches, requests, crashes and files in one flush there are.
THEOREM ReportKeepsBatches == ReportSpec => []KeptOrMarked
<1>1. ReportInv => KeptOrMarked
  <2> SUFFICES ASSUME ReportInv, NEW b \in 1..batches PROVE
        /\ ingested[b] <= 1
        /\ ingested[b] = 1 => b \in ledger
        /\ \/ b \in files \cup ledger
           \/ b = current /\ agent \in {"direct", "spool"}
           \/ \E why \in {"refused", "disk", "old", "crash"} : <<b, why>> \in gaveUp
        /\ b \in ledger /\ ingested[b] = 0 =>
             \E p \in DOMAIN request :
               /\ request[p].batch = b
               /\ request[p].at \in {"status", "ingest"} \/ request[p].answer \in {"500", "none"}
    BY DEF KeptOrMarked
  <2>1. b \in Collected /\ b \in Batch
    BY JsonReportAssumption DEF ReportInv, ReportType, Collected, Batch, JsonReportAssumption
  <2>2. ingested[b] <= 1 /\ (ingested[b] = 1 => b \in ledger)
    BY <2>1 DEF ReportInv, Pipelined
  <2>3. b \in ledger /\ ingested[b] = 0 => \E p \in DOMAIN request : Responsible(p, b)
    BY <2>1 DEF ReportInv, Pipelined
  <2>4. QED
    BY <2>1, <2>2, <2>3 DEF ReportInv, Kept, Responsible, Inserted
<1>2. QED
  BY <1>1, ReportInvariant, PTL

-----------------------------------------------------------------------------
(* Fan control *)

\* Every variable stays in its range.
FanType ==
  /\ lastSpeed \in Nat /\ fanSpeed \in Nat /\ wanted \in Nat /\ lostFans \in Nat
  /\ auto \in BOOLEAN

\* The speed of the last command is that of the fans, or there is none because
\* the BMC drives them.
LastSpeedCurrent == lostFans = 0 => IF auto THEN lastSpeed = 0 ELSE fanSpeed = lastSpeed

FanInv == FanType /\ LastSpeedCurrent /\ FansInPlace

-----------------------------------------------------------------------------
\* The members of a set of natural numbers that is not empty have a least one.
LEMMA LeastOfNats ==
  ASSUME NEW S, S \subseteq Nat, S # {}
  PROVE  \E x \in S : \A y \in S : x <= y
<1> DEFINE Less == {p \in Nat \X Nat : p[1] < p[2]}
<1>1. IsWellFoundedOn(Less, Nat)
  BY NatLessThanWellFounded DEF OpToRel
<1> HIDE DEF Less
<1>2. PICK x \in S : \A y \in S : ~(<<y, x>> \in Less)
  BY <1>1, WFMin
<1>3. ASSUME NEW y \in S PROVE x <= y
  <2>1. x \in Nat /\ y \in Nat
    OBVIOUS
  <2>2. y < x => <<y, x>> \in Less
    BY <2>1 DEF Less
  <2>3. QED
    BY <1>2, <2>1, <2>2
<1>4. QED
  BY <1>3

\* Min picks it.
LEMMA MinOfNats ==
  ASSUME NEW S, S \subseteq Nat, S # {}
  PROVE  Min(S) \in S
BY LeastOfNats DEF Min

LEMMA MinOfTwo == \A a, b \in Nat : Min({a, b}) = (IF a <= b THEN a ELSE b)
<1> SUFFICES ASSUME NEW a \in Nat, NEW b \in Nat PROVE Min({a, b}) = (IF a <= b THEN a ELSE b)
  OBVIOUS
<1>1. \E x \in {a, b} : \A y \in {a, b} : x =< y
  OBVIOUS
<1>2. Min({a, b}) \in {a, b} /\ \A y \in {a, b} : Min({a, b}) =< y
  BY <1>1 DEF Min
<1>3. QED
  BY <1>2

LEMMA MaxOfTwo == \A a, b \in Nat : Max({a, b}) = (IF a >= b THEN a ELSE b)
<1> SUFFICES ASSUME NEW a \in Nat, NEW b \in Nat PROVE Max({a, b}) = (IF a >= b THEN a ELSE b)
  OBVIOUS
<1>1. \E x \in {a, b} : \A y \in {a, b} : x >= y
  OBVIOUS
<1>2. Max({a, b}) \in {a, b} /\ \A y \in {a, b} : Max({a, b}) >= y
  BY <1>1 DEF Max
<1>3. QED
  BY <1>2

\* Whatever the curve says, the target is within the limits of the policy.
LEMMA TargetInLimits ==
  ASSUME NEW temp \in Temp
  PROVE  TargetSpeed(temp) \in Nat /\ MinSpeed <= TargetSpeed(temp) /\ TargetSpeed(temp) <= MaxSpeed
<1> DEFINE above == {i \in DOMAIN Curve : temp <= Curve[i].max}
           i == IF above = {} THEN Len(Curve) ELSE Min(above)
           t == Curve[i].speed
<1>1. /\ Curve \in Seq([max : Int, speed : Nat]) /\ Curve # <<>>
      /\ MinSpeed \in Nat /\ MaxSpeed \in Nat /\ MinSpeed <= MaxSpeed
  BY FanAssumption DEF FanAssumption
<1>2. DOMAIN Curve = 1..Len(Curve) /\ Len(Curve) \in Nat /\ Len(Curve) # 0
  BY <1>1, LenProperties, EmptySeq
<1>3. i \in DOMAIN Curve
  <2>1. CASE above = {}
    BY <1>1, <1>2, <2>1
  <2>2. CASE above # {}
    <3>1. above \subseteq Nat
      BY <1>2
    <3>2. Min(above) \in above
      BY <2>2, <3>1, MinOfNats
    <3>3. QED
      BY <2>2, <3>2
  <2>3. QED
    BY <2>1, <2>2
<1>4. t \in Nat
  <2> HIDE DEF i
  <2>1. Curve[i] \in [max : Int, speed : Nat]
    BY <1>1, <1>2, <1>3, ElementOfSeq
  <2>2. QED
    BY <2>1
<1>5. TargetSpeed(temp) = Min({MaxSpeed, Max({MinSpeed, t})})
  BY DEF TargetSpeed
<1> HIDE DEF t
<1>6. Max({MinSpeed, t}) = (IF MinSpeed >= t THEN MinSpeed ELSE t)
  BY <1>1, <1>4, MaxOfTwo
<1>7. Max({MinSpeed, t}) \in Nat /\ Max({MinSpeed, t}) >= MinSpeed
  BY <1>1, <1>4, <1>6
<1> DEFINE m == Max({MinSpeed, t})
<1> HIDE DEF m
<1>8. m \in Nat /\ m >= MinSpeed /\ TargetSpeed(temp) = Min({MaxSpeed, m})
  BY <1>5, <1>7 DEF m
<1>9. Min({MaxSpeed, m}) = (IF MaxSpeed <= m THEN MaxSpeed ELSE m)
  BY <1>1, <1>8, MinOfTwo
<1>10. QED
  BY <1>1, <1>8, <1>9

LEMMA FanInitInv == FanInit => FanInv
  BY FanAssumption DEF FanAssumption, FanInit, FanInv, FanType, LastSpeedCurrent, FansInPlace

\* A step without a command: what the curve asks for is near what was commanded
\* last, and from rest no command would be too small.
LEMMA HoldSpeedInv ==
  ASSUME FanInv, NEW temp \in Temp, HoldSpeed(temp)
  PROVE  FanInv'
<1> DEFINE target == TargetSpeed(temp)
<1>1. /\ target \in Nat /\ MinSpeed <= target
      /\ MinSpeed \in Nat /\ MinDelta \in Nat /\ MinDelta <= MinSpeed
  BY TargetInLimits, FanAssumption DEF FanAssumption
<1> HIDE DEF target
<1>2. /\ UNCHANGED <<lastSpeed, since, fanSpeed, auto, lostFans>>
      /\ wanted' = target /\ ~Due(target)
      /\ answer' = "settled" => since >= MinInterval
  BY DEF HoldSpeed, Suppressed, target
<1>3. FanType' /\ LastSpeedCurrent'
  BY <1>1, <1>2 DEF FanInv, FanType, LastSpeedCurrent
<1>4. ASSUME answer' = "settled", lostFans' = 0
      PROVE  wanted' = fanSpeed' \/ Abs(wanted' - fanSpeed') < MinDelta
  <2>1. target = fanSpeed \/ ~(Abs(target - lastSpeed) >= MinDelta)
    BY <1>2, <1>4 DEF Due, Jumps
  <2>2. CASE auto
    <3>1. lastSpeed = 0
      BY <1>2, <1>4, <2>2 DEF FanInv, LastSpeedCurrent
    <3>2. QED
      BY <1>1, <1>2, <2>1, <3>1 DEF Abs
  <2>3. CASE ~auto
    <3>1. lastSpeed = fanSpeed
      BY <1>2, <1>4, <2>3 DEF FanInv, LastSpeedCurrent
    <3>2. QED
      BY <1>1, <1>2, <2>1, <3>1 DEF Abs, FanInv, FanType
  <2>4. QED
    BY <2>2, <2>3
<1>5. QED
  BY <1>3, <1>4 DEF FanInv, FansInPlace

LEMMA SetSpeedInv ==
  ASSUME FanInv, NEW temp \in Temp, SetSpeed(temp)
  PROVE  FanInv'
<1> DEFINE target == TargetSpeed(temp)
<1>1. target \in Nat
  BY TargetInLimits
<1> HIDE DEF target
<1>2. /\ lastSpeed' = target /\ wanted' = target /\ answer' = "set"
      /\ \/ fanSpeed' = target /\ auto' = FALSE /\ UNCHANGED lostFans
         \/ lostFans' = lostFans + 1 /\ UNCHANGED <<fanSpeed, auto>>
  BY DEF SetSpeed, target
<1>3. FanType'
  <2>1. auto' \in BOOLEAN
    BY <1>2 DEF FanInv, FanType
  <2>2. lastSpeed' \in Nat /\ fanSpeed' \in Nat /\ wanted' \in Nat /\ lostFans' \in Nat
    BY <1>1, <1>2 DEF FanInv, FanType
  <2>3. QED
    BY <2>1, <2>2 DEF FanType
<1>4. LastSpeedCurrent'
  BY <1>2 DEF FanInv, FanType, LastSpeedCurrent
<1>5. FansInPlace'
  BY <1>2 DEF FansInPlace
<1>6. QED
  BY <1>3, <1>4, <1>5 DEF FanInv

\* Every step of the controller and of the BMC keeps the invariant.
LEMMA FanStepInv == FanInv /\ [FanNext]_fanVars => FanInv'
<1> SUFFICES ASSUME FanInv, [FanNext]_fanVars PROVE FanInv'
  OBVIOUS
<1>1. CASE Handoff
  BY <1>1 DEF Handoff, FanInv, FanType, LastSpeedCurrent, FansInPlace
<1>2. CASE FanTime
  BY <1>2 DEF FanTime, FanInv, FanType, LastSpeedCurrent, FansInPlace
<1>3. ASSUME NEW temp \in Temp, HoldSpeed(temp) PROVE FanInv'
  BY <1>3, HoldSpeedInv
<1>4. ASSUME NEW temp \in Temp, SetSpeed(temp) PROVE FanInv'
  BY <1>4, SetSpeedInv
<1>5. ASSUME NEW s \in Speed, AutoSpeed(s) PROVE FanInv'
  <2>1. s \in Nat
    <3>1. Speed \subseteq 0..100
      BY FanAssumption DEF FanAssumption
    <3>2. QED
      BY <3>1
  <2>2. QED
    BY <1>5, <2>1 DEF AutoSpeed, FanInv, FanType, LastSpeedCurrent, FansInPlace
<1>6. CASE UNCHANGED fanVars
  BY <1>6 DEF fanVars, FanInv, FanType, LastSpeedCurrent, FansInPlace
<1>7. QED
  BY <1>1, <1>2, <1>3, <1>4, <1>5, <1>6 DEF FanNext

\* For every curve and every policy: as long as no command is lost, a step
\* without a command leaves the fans at the speed that the curve asks for, or
\* nearer to it than the hysteresis.
THEOREM FansStayInPlace == FanSpec => []FansInPlace
<1>1. FanInv => FansInPlace
  BY DEF FanInv
<1>2. QED
  BY <1>1, FanInitInv, FanStepInv, PTL DEF FanSpec

-----------------------------------------------------------------------------
(* The mesh *)

\* The links of two different agents.
Pairs == {l \in SUBSET Agent : \E a, b \in Agent : a # b /\ l = {a, b}}

\* Every variable that the routes depend on stays in its range, and the maps of
\* Dijkstra's algorithm speak of the same agents.
MeshType ==
  /\ computes \in [n : Nat, running : BOOLEAN]
  /\ DOMAIN graph \subseteq Pairs /\ \A l \in DOMAIN graph : graph[l] \in Nat \ {0}
  /\ DOMAIN dist \subseteq Agent /\ \A a \in DOMAIN dist : dist[a] \in Nat
  /\ DOMAIN hops \subseteq Agent /\ \A a \in DOMAIN hops : hops[a] \in Nat
  /\ DOMAIN dist \subseteq DOMAIN hops
  /\ DOMAIN pred = DOMAIN dist \ {Source}
  /\ visited \subseteq DOMAIN dist

\* An agent other than the source is reached over a link from one that is settled.
PredInv ==
  \A v \in DOMAIN dist \ {Source} :
    /\ pred[v] \in visited /\ {pred[v], v} \in DOMAIN graph
    /\ dist[v] = dist[pred[v]] + graph[{pred[v], v}]
    /\ hops[v] = hops[pred[v]] + 1

\* The source is at no distance.  Without it nothing is reached.
SourceInv ==
  IF Source \in DOMAIN dist
  THEN dist[Source] = 0 /\ hops[Source] = 0
  ELSE DOMAIN dist = {} /\ \A l \in DOMAIN graph : Source \notin l

\* What is settled is not farther than what is not.
SettledInv == \A u \in visited, v \in Queued : dist[u] <= dist[v]

\* The links of what is settled have been relaxed.
RelaxedInv ==
  \A u \in visited, v \in Agent :
    {u, v} \in DOMAIN graph => v \in DOMAIN dist /\ dist[v] <= dist[u] + graph[{u, v}]

\* The table that was returned last is that of the maps.
TableInv ==
  computes.n > 0 /\ ~computes.running =>
    /\ Queued = {}
    /\ routes = [d \in {a \in DOMAIN dist \ {Source} : HopLimit > 0 => hops[a] <= HopLimit} |->
                   Entry(d)]

MeshInv == MeshType /\ PredInv /\ SourceInv /\ SettledInv /\ RelaxedInv /\ TableInv

\* A walk from the source over links of the graph, with what each part of it costs.
Walk(p, c) ==
  /\ p \in Seq(Agent) /\ c \in Seq(Nat) /\ Len(p) = Len(c) /\ Len(p) > 0
  /\ p[1] = Source /\ c[1] = 0
  /\ \A i \in 1..(Len(p) - 1) :
       Link(p, i) \in DOMAIN graph /\ c[i + 1] = c[i] + graph[Link(p, i)]
WalkTo(a, p, c) == Walk(p, c) /\ p[Len(p)] = a

-----------------------------------------------------------------------------
\* The graph of some probes has links of two agents, each with a positive cost.
LEMMA GraphRange ==
  ASSUME NEW ps \in SUBSET Probe
  PROVE  /\ DOMAIN BuildGraph(ps) \subseteq Pairs
         /\ \A l \in DOMAIN BuildGraph(ps) : BuildGraph(ps)[l] \in Nat \ {0}
<1>1. ASSUME NEW p \in ps PROVE p.from \in Agent /\ p.to \in Agent /\ Cost(p) \in Nat \ {0}
  <2>1. p \in [from : Agent, to : Agent, rtt : Nat] /\ HopCost \in Nat \ {0}
    BY MeshAssumption DEF MeshAssumption
  <2>2. QED
    BY <2>1 DEF Cost
<1> DEFINE links == {EndsOf(p) : p \in {q \in ps : q.from # q.to}}
           costs(l) == {Cost(p) : p \in {q \in ps : EndsOf(q) = l}}
<1>2. BuildGraph(ps) = [l \in links |-> Min(costs(l))]
  BY DEF BuildGraph
<1>3. links \subseteq Pairs
  <2>1. ASSUME NEW p \in ps, p.from # p.to PROVE EndsOf(p) \in Pairs
    BY <1>1, <2>1 DEF EndsOf, Pairs
  <2>2. QED
    BY <2>1
<1>4. ASSUME NEW l \in links PROVE Min(costs(l)) \in Nat \ {0}
  <2>1. costs(l) \subseteq Nat /\ 0 \notin costs(l) /\ costs(l) # {}
    BY <1>1
  <2>2. Min(costs(l)) \in costs(l)
    BY <2>1, MinOfNats
  <2>3. QED
    BY <2>1, <2>2
<1> HIDE DEF links, costs
<1>5. QED
  BY <1>2, <1>3, <1>4

\* A link joins two different agents.
LEMMA LinkEnds ==
  ASSUME MeshType, NEW a, NEW b, {a, b} \in DOMAIN graph
  PROVE  a # b /\ a \in Agent /\ b \in Agent /\ graph[{a, b}] \in Nat \ {0}
BY DEF MeshType, Pairs

LEMMA MeshInitInv == MeshInit => MeshInv
<1>1. SUFFICES ASSUME MeshInit PROVE MeshInv
  OBVIOUS
<1>2. DOMAIN graph = {} /\ DOMAIN dist = {} /\ DOMAIN pred = {} /\ DOMAIN hops = {}
  BY <1>1 DEF MeshInit
<1>3. visited = {} /\ computes = [n |-> 0, running |-> FALSE]
  BY <1>1 DEF MeshInit
<1>4. QED
  BY <1>2, <1>3 DEF MeshInv, MeshType, PredInv, SourceInv, SettledInv, RelaxedInv, TableInv,
    Queued

\* A computation begins with the source alone, or with nothing.
LEMMA ComputeInv ==
  ASSUME MeshInv, NEW ps \in ProbeSets, Compute(ps)
  PROVE  MeshInv'
<1>1. ps \in SUBSET Probe
  BY DEF ProbeSets, kSubset
<1>2. graph' = BuildGraph(ps) /\ DOMAIN pred' = {} /\ visited' = {}
  BY DEF Compute
<1>3. Source \in Agent
  BY MeshAssumption DEF MeshAssumption
<1>4. DOMAIN hops' = {Source} /\ hops'[Source] = 0
  BY DEF Compute
<1>5. computes' \in [n : Nat, running : BOOLEAN] /\ computes'.running
  BY DEF Compute, MeshInv, MeshType
<1>6. \/ DOMAIN dist' = {Source} /\ dist'[Source] = 0
      \/ DOMAIN dist' = {} /\ \A l \in DOMAIN graph' : Source \notin l
  BY <1>2 DEF Compute
<1>7. MeshType'
  <2>1. DOMAIN graph' \subseteq Pairs /\ \A l \in DOMAIN graph' : graph'[l] \in Nat \ {0}
    BY <1>1, <1>2, GraphRange
  <2>2. DOMAIN dist' \subseteq {Source} /\ \A a \in DOMAIN dist' : dist'[a] \in Nat
    BY <1>6
  <2>3. QED
    BY <1>2, <1>3, <1>4, <1>5, <2>1, <2>2 DEF MeshType, Pairs
<1>8. SourceInv'
  BY <1>4, <1>6 DEF SourceInv
<1>9. PredInv' /\ SettledInv' /\ RelaxedInv'
  BY <1>2, <1>6 DEF PredInv, SettledInv, RelaxedInv
<1>10. QED
  BY <1>5, <1>7, <1>8, <1>9 DEF MeshInv, TableInv

\* What settling an agent does to the maps.
LEMMA Settling ==
  ASSUME MeshInv, NEW u \in Agent, Settle(u)
  PROVE  /\ u \in DOMAIN dist /\ u \notin visited /\ \A v \in Queued : dist[u] <= dist[v]
         /\ graph' = graph /\ visited' = visited \cup {u}
         /\ Source \in DOMAIN dist /\ Source \notin Closer(u)
         /\ \A v \in Closer(u) :
              /\ v \in Agent /\ v \notin visited' /\ {u, v} \in DOMAIN graph
              /\ dist'[v] = dist[u] + graph[{u, v}]
              /\ pred'[v] = u /\ hops'[v] = hops[u] + 1
              /\ v \in DOMAIN dist => dist'[v] < dist[v]
         /\ DOMAIN dist' = DOMAIN dist \cup Closer(u)
         /\ DOMAIN hops' = DOMAIN hops \cup Closer(u)
         /\ DOMAIN pred' = DOMAIN pred \cup Closer(u)
         /\ \A v \in DOMAIN dist \ Closer(u) : dist'[v] = dist[v]
         /\ \A v \in DOMAIN hops \ Closer(u) : hops'[v] = hops[v]
         /\ \A v \in DOMAIN pred \ Closer(u) : pred'[v] = pred[v]
<1>1. u \in Queued /\ \A v \in Queued : dist[u] <= dist[v]
  BY DEF Settle, Nearest
<1>2. u \in DOMAIN dist /\ u \notin visited
  BY <1>1 DEF Queued
<1>3. graph' = graph /\ visited' = visited \cup {u}
  BY DEF Settle
<1>4. ASSUME NEW v \in Closer(u)
      PROVE  /\ v \in Agent /\ v \notin visited \cup {u} /\ {u, v} \in DOMAIN graph
             /\ v \in DOMAIN dist => dist[u] + graph[{u, v}] < dist[v]
  BY DEF Closer
<1>5. Source \in DOMAIN dist /\ dist[Source] = 0
  BY <1>2 DEF MeshInv, SourceInv
<1>6. Source \notin Closer(u)
  <2>1. SUFFICES ASSUME Source \in Closer(u) PROVE FALSE
    OBVIOUS
  <2>2. dist[u] + graph[{u, Source}] < 0 /\ {u, Source} \in DOMAIN graph
    BY <1>4, <1>5, <2>1
  <2>3. dist[u] \in Nat /\ graph[{u, Source}] \in Nat
    BY <1>2, <2>2 DEF MeshInv, MeshType
  <2>4. QED
    BY <2>2, <2>3
<1> DEFINE near == Closer(u)
<1>7. /\ dist' = [v \in DOMAIN dist \cup near |->
                    IF v \in near THEN dist[u] + graph[{u, v}] ELSE dist[v]]
      /\ pred' = [v \in DOMAIN pred \cup near |-> IF v \in near THEN u ELSE pred[v]]
      /\ hops' = [v \in DOMAIN hops \cup near |-> IF v \in near THEN hops[u] + 1 ELSE hops[v]]
  BY DEF Settle
<1>8. \A v \in near : /\ v \in Agent /\ v \notin visited \cup {u} /\ {u, v} \in DOMAIN graph
                      /\ v \in DOMAIN dist => dist[u] + graph[{u, v}] < dist[v]
  BY <1>4
<1>9. Source \notin near
  BY <1>6
<1> HIDE DEF near
<1>10. /\ DOMAIN dist' = DOMAIN dist \cup near
       /\ DOMAIN hops' = DOMAIN hops \cup near
       /\ DOMAIN pred' = DOMAIN pred \cup near
  BY <1>7
<1>11. /\ \A v \in DOMAIN dist \ near : dist'[v] = dist[v]
       /\ \A v \in DOMAIN hops \ near : hops'[v] = hops[v]
       /\ \A v \in DOMAIN pred \ near : pred'[v] = pred[v]
  BY <1>7
<1>12. ASSUME NEW v \in near
       PROVE  /\ dist'[v] = dist[u] + graph[{u, v}]
              /\ pred'[v] = u /\ hops'[v] = hops[u] + 1
  BY <1>7
<1>13. \A v \in near :
         /\ v \in Agent /\ v \notin visited' /\ {u, v} \in DOMAIN graph
         /\ dist'[v] = dist[u] + graph[{u, v}]
         /\ pred'[v] = u /\ hops'[v] = hops[u] + 1
         /\ v \in DOMAIN dist => dist'[v] < dist[v]
  BY <1>3, <1>8, <1>12
<1>14. QED
  BY <1>1, <1>2, <1>3, <1>5, <1>9, <1>10, <1>11, <1>13 DEF near

\* Settling the nearest agent keeps the invariant.
LEMMA SettleInv ==
  ASSUME MeshInv, NEW u \in Agent, Settle(u)
  PROVE  MeshInv'
<1> DEFINE near == Closer(u)
<1>1. /\ u \in DOMAIN dist /\ u \notin visited /\ \A v \in Queued : dist[u] <= dist[v]
      /\ graph' = graph /\ visited' = visited \cup {u}
      /\ Source \in DOMAIN dist /\ Source \notin near
  BY Settling
<1>2. \A v \in near :
        /\ v \in Agent /\ v \notin visited' /\ {u, v} \in DOMAIN graph
        /\ dist'[v] = dist[u] + graph[{u, v}]
        /\ pred'[v] = u /\ hops'[v] = hops[u] + 1
        /\ v \in DOMAIN dist => dist'[v] < dist[v]
  BY Settling
<1>3. /\ DOMAIN dist' = DOMAIN dist \cup near
      /\ DOMAIN hops' = DOMAIN hops \cup near
      /\ DOMAIN pred' = DOMAIN pred \cup near
  BY Settling
<1>4. /\ \A v \in DOMAIN dist \ near : dist'[v] = dist[v]
      /\ \A v \in DOMAIN hops \ near : hops'[v] = hops[v]
      /\ \A v \in DOMAIN pred \ near : pred'[v] = pred[v]
  BY Settling
<1>5. \A v \in Agent \ (visited \cup {u} \cup near) :
        {u, v} \in DOMAIN graph => v \in DOMAIN dist /\ dist[v] <= dist[u] + graph[{u, v}]
  <2>1. ASSUME NEW v \in Agent \ (visited \cup {u} \cup near), {u, v} \in DOMAIN graph
        PROVE  v \in DOMAIN dist /\ dist[v] <= dist[u] + graph[{u, v}]
    <3>1. v \in DOMAIN dist /\ ~(dist[u] + graph[{u, v}] < dist[v])
      BY <2>1 DEF Closer
    <3>2. dist[u] \in Nat /\ dist[v] \in Nat /\ graph[{u, v}] \in Nat
      BY <1>1, <2>1, <3>1 DEF MeshInv, MeshType
    <3>3. QED
      BY <3>1, <3>2
  <2>2. QED
    BY <2>1
<1> HIDE DEF near
<1>6. MeshType
  BY DEF MeshInv
<1>7. \A a \in DOMAIN dist : dist[a] \in Nat
  BY <1>6 DEF MeshType
<1>8. u \notin near /\ visited \cap near = {} /\ visited \subseteq DOMAIN dist
  BY <1>1, <1>2, <1>6 DEF MeshType
<1>9. \A v \in near : graph[{u, v}] \in Nat \ {0}
  BY <1>2, <1>6 DEF MeshType
<1>10. MeshType'
  <2>1. ASSUME NEW a \in DOMAIN dist' PROVE a \in Agent /\ dist'[a] \in Nat
    <3>1. CASE a \in near
      <4>1. a \in Agent /\ dist'[a] = dist[u] + graph[{u, a}]
        BY <1>2, <3>1
      <4>2. graph[{u, a}] \in Nat /\ dist[u] \in Nat
        BY <1>1, <1>7, <1>9, <3>1
      <4>3. QED
        BY <4>1, <4>2
    <3>2. CASE a \notin near
      BY <1>3, <1>4, <1>6, <1>7, <2>1, <3>2 DEF MeshType
    <3>3. QED
      BY <3>1, <3>2
  <2>2. ASSUME NEW a \in DOMAIN hops' PROVE a \in Agent /\ hops'[a] \in Nat
    <3>1. hops[u] \in Nat
      BY <1>1, <1>6 DEF MeshType
    <3>2. CASE a \in near
      <4>1. a \in Agent /\ hops'[a] = hops[u] + 1
        BY <1>2, <3>2
      <4>2. QED
        BY <3>1, <4>1
    <3>3. CASE a \notin near
      BY <1>3, <1>4, <1>6, <2>2, <3>3 DEF MeshType
    <3>4. QED
      BY <3>2, <3>3
  <2>3. computes' = computes
    BY DEF Settle
  <2>4. DOMAIN pred' = DOMAIN dist' \ {Source} /\ DOMAIN dist' \subseteq DOMAIN hops'
    BY <1>1, <1>3, <1>6 DEF MeshType
  <2>5. visited' \subseteq DOMAIN dist'
    BY <1>1, <1>3, <1>8
  <2>6. QED
    BY <1>1, <1>6, <2>1, <2>2, <2>3, <2>4, <2>5 DEF MeshType, Pairs
<1>11. PredInv'
  <2>1. ASSUME NEW v \in DOMAIN dist' \ {Source}
        PROVE  /\ pred'[v] \in visited' /\ {pred'[v], v} \in DOMAIN graph'
               /\ dist'[v] = dist'[pred'[v]] + graph'[{pred'[v], v}]
               /\ hops'[v] = hops'[pred'[v]] + 1
    <3>1. dist'[u] = dist[u] /\ hops'[u] = hops[u]
      BY <1>1, <1>4, <1>6, <1>8 DEF MeshType
    <3>2. CASE v \in near
      BY <1>1, <1>2, <3>1, <3>2
    <3>3. CASE v \notin near
      <4>1. v \in DOMAIN dist \ {Source} /\ v \in DOMAIN pred /\ v \in DOMAIN hops
        BY <1>3, <1>6, <2>1, <3>3 DEF MeshType
      <4>2. /\ pred[v] \in visited /\ {pred[v], v} \in DOMAIN graph
            /\ dist[v] = dist[pred[v]] + graph[{pred[v], v}]
            /\ hops[v] = hops[pred[v]] + 1
        BY <4>1 DEF MeshInv, PredInv
      <4>3. pred'[v] = pred[v] /\ dist'[v] = dist[v] /\ hops'[v] = hops[v]
        BY <1>4, <3>3, <4>1
      <4>4. pred[v] \in DOMAIN dist /\ pred[v] \in DOMAIN hops /\ pred[v] \notin near
        BY <1>6, <1>8, <4>2 DEF MeshType
      <4>5. dist'[pred[v]] = dist[pred[v]] /\ hops'[pred[v]] = hops[pred[v]]
        BY <1>4, <4>4
      <4>6. QED
        BY <1>1, <4>2, <4>3, <4>5
    <3>4. QED
      BY <3>2, <3>3
  <2>2. QED
    BY <2>1 DEF PredInv
<1>12. SourceInv'
  <2>1. Source \in DOMAIN dist' /\ dist'[Source] = dist[Source] /\ hops'[Source] = hops[Source]
    BY <1>1, <1>3, <1>4, <1>6 DEF MeshType
  <2>2. QED
    BY <1>1, <2>1 DEF MeshInv, SourceInv
<1>13. ASSUME NEW w \in visited' PROVE dist'[w] = dist[w] /\ dist[w] <= dist[u]
  <2>1. w \in DOMAIN dist \ near
    BY <1>1, <1>8
  <2>2. CASE w = u
    BY <1>4, <1>7, <2>1, <2>2
  <2>3. CASE w \in visited
    <3>1. u \in Queued
      BY <1>1 DEF Queued
    <3>2. dist[w] <= dist[u]
      BY <2>3, <3>1 DEF MeshInv, SettledInv
    <3>3. QED
      BY <1>4, <2>1, <3>2
  <2>4. QED
    BY <1>1, <2>2, <2>3
<1>14. SettledInv'
  <2>1. ASSUME NEW w \in visited', NEW v \in Queued' PROVE dist'[w] <= dist'[v]
    <3>1. v \in DOMAIN dist' /\ v \notin visited /\ v # u
      BY <1>1 DEF Queued
    <3>2. dist'[w] = dist[w] /\ dist[w] <= dist[u] /\ dist[w] \in Nat /\ dist[u] \in Nat
      BY <1>1, <1>7, <1>8, <1>13
    <3>3. CASE v \in near
      <4>1. dist'[v] = dist[u] + graph[{u, v}] /\ graph[{u, v}] \in Nat
        BY <1>2, <1>9, <3>3
      <4>2. QED
        BY <3>2, <4>1
    <3>4. CASE v \notin near
      <4>1. v \in Queued
        BY <1>3, <3>1, <3>4 DEF Queued
      <4>2. dist[u] <= dist[v] /\ dist'[v] = dist[v] /\ dist[v] \in Nat
        BY <1>1, <1>3, <1>4, <1>7, <3>1, <3>4, <4>1
      <4>3. QED
        BY <3>2, <4>2
    <3>5. QED
      BY <3>3, <3>4
  <2>2. QED
    BY <2>1 DEF SettledInv
<1>15. RelaxedInv'
  <2>1. ASSUME NEW w \in visited', NEW v \in Agent, {w, v} \in DOMAIN graph'
        PROVE  v \in DOMAIN dist' /\ dist'[v] <= dist'[w] + graph'[{w, v}]
    <3>1. w # v /\ graph[{w, v}] \in Nat \ {0} /\ graph' = graph
      BY <1>1, <1>6, <2>1, LinkEnds
    <3>2. dist'[w] = dist[w] /\ dist[w] \in Nat
      BY <1>1, <1>7, <1>8, <1>13
    <3>3. SUFFICES /\ v \in DOMAIN dist'
                   /\ \/ dist'[v] = dist[w] + graph[{w, v}]
                      \/ /\ v \in DOMAIN dist
                         /\ dist[v] <= dist[w] + graph[{w, v}]
      <4>1. CASE dist'[v] = dist[w] + graph[{w, v}] /\ v \in DOMAIN dist'
        BY <3>1, <3>2, <4>1
      <4>2. CASE v \in DOMAIN dist /\ dist[v] <= dist[w] + graph[{w, v}]
        <5>1. dist[v] \in Nat
          BY <1>7, <4>2
        <5>2. CASE v \in near
          <6>1. dist'[v] < dist[v] /\ dist'[v] = dist[u] + graph[{u, v}]
            BY <1>2, <4>2, <5>2
          <6>2. dist[u] \in Nat /\ graph[{u, v}] \in Nat
            BY <1>1, <1>7, <1>9, <5>2
          <6>3. QED
            BY <1>3, <3>1, <3>2, <4>2, <5>1, <6>1, <6>2
        <5>3. CASE v \notin near
          BY <1>3, <1>4, <3>1, <3>2, <4>2, <5>3
        <5>4. QED
          BY <5>2, <5>3
      <4>3. QED
        BY <3>3, <4>1, <4>2
    <3>4. CASE w \in visited
      <4>1. v \in DOMAIN dist /\ dist[v] <= dist[w] + graph[{w, v}]
        BY <2>1, <3>1, <3>4 DEF MeshInv, RelaxedInv
      <4>2. QED
        BY <1>3, <4>1
    <3>5. CASE w = u
      <4>1. CASE v \in near
        BY <1>2, <1>3, <3>5, <4>1
      <4>2. CASE v \in visited
        <5>1. v \in DOMAIN dist /\ dist[v] <= dist[u] /\ dist[v] \in Nat
          BY <1>1, <1>7, <1>8, <1>13, <4>2
        <5>2. QED
          BY <1>3, <3>1, <3>2, <3>5, <5>1
      <4>3. CASE v \notin near /\ v \notin visited
        <5>1. v \in Agent \ (visited \cup {u} \cup near)
          BY <3>1, <3>5, <4>3
        <5>2. v \in DOMAIN dist /\ dist[v] <= dist[u] + graph[{u, v}]
          BY <1>5, <2>1, <3>1, <3>5, <5>1
        <5>3. QED
          BY <1>3, <3>5, <5>2
      <4>4. QED
        BY <4>1, <4>2, <4>3
    <3>6. QED
      BY <1>1, <3>4, <3>5
  <2>2. QED
    BY <2>1 DEF RelaxedInv
<1>16. TableInv'
  <2>1. computes.running /\ computes' = computes
    BY DEF Settle
  <2>2. QED
    BY <2>1 DEF TableInv
<1>17. QED
  BY <1>10, <1>11, <1>12, <1>14, <1>15, <1>16 DEF MeshInv

\* The table is made when the heap is empty.
LEMMA ReturnInv ==
  ASSUME MeshInv, ReturnTable
  PROVE  MeshInv'
<1>1. UNCHANGED <<graph, dist, pred, hops, visited>> /\ Queued = {}
  BY DEF ReturnTable
<1>2. routes' = [d \in {a \in DOMAIN dist \ {Source} : HopLimit > 0 => hops[a] <= HopLimit} |->
                   Entry(d)]
  BY DEF ReturnTable
<1>3. computes' \in [n : Nat, running : BOOLEAN]
  BY DEF ReturnTable, MeshInv, MeshType
<1>4. Queued' = {}
  BY <1>1 DEF Queued
<1>5. \A d : Entry(d)' = Entry(d)
  BY <1>1 DEF Entry, RebuildPath, Back
<1>6. TableInv'
  BY <1>1, <1>2, <1>4, <1>5 DEF TableInv
<1>7. MeshType' /\ PredInv' /\ SourceInv' /\ SettledInv' /\ RelaxedInv'
  BY <1>1, <1>3, <1>4 DEF MeshInv, MeshType, PredInv, SourceInv, SettledInv, RelaxedInv, Pairs
<1>8. QED
  BY <1>6, <1>7 DEF MeshInv

LEMMA MeshStepInv == MeshInv /\ [MeshNext]_meshVars => MeshInv'
<1> SUFFICES ASSUME MeshInv, [MeshNext]_meshVars PROVE MeshInv'
  OBVIOUS
<1>1. CASE UNCHANGED meshVars
  <2>1. UNCHANGED <<graph, dist, pred, hops, visited, routes, computes>>
    BY <1>1 DEF meshVars
  <2>2. Queued' = Queued /\ \A d : Entry(d)' = Entry(d)
    BY <2>1 DEF Queued, Entry, RebuildPath, Back
  <2>3. TableInv'
    BY <2>1, <2>2 DEF MeshInv, TableInv
  <2>4. MeshType' /\ PredInv' /\ SourceInv' /\ SettledInv' /\ RelaxedInv'
    BY <2>1, <2>2 DEF MeshInv, MeshType, PredInv, SourceInv, SettledInv, RelaxedInv, Pairs
  <2>5. QED
    BY <2>3, <2>4 DEF MeshInv
<1>2. QED
  BY <1>1, ComputeInv, SettleInv, ReturnInv DEF MeshNext

\* Dijkstra's invariant: the settled agents are the nearest ones, their links
\* have been relaxed, and each distance is that of the predecessor and a link.
THEOREM MeshInvariant == MeshSpec => []MeshInv
BY MeshInitInv, MeshStepInv, PTL DEF MeshSpec

-----------------------------------------------------------------------------
\* When everything is settled, no walk undercuts the distance of where it ends.
LEMMA NoWalkIsShorter ==
  ASSUME MeshInv, Queued = {}, NEW p, NEW c, Walk(p, c), Len(p) > 1
  PROVE  p[Len(p)] \in DOMAIN dist /\ dist[p[Len(p)]] <= c[Len(c)]
<1>1. /\ Len(p) \in Nat /\ Len(c) = Len(p) /\ p[1] = Source /\ c[1] = 0
      /\ \A i \in 1..Len(p) : p[i] \in Agent /\ c[i] \in Nat
      /\ \A i \in 1..(Len(p) - 1) :
           {p[i], p[i + 1]} \in DOMAIN graph /\ c[i + 1] = c[i] + graph[{p[i], p[i + 1]}]
  BY LenProperties, ElementOfSeq DEF Walk, Link
<1> DEFINE Fine(i) == p[i] \in DOMAIN dist /\ dist[p[i]] <= c[i]
           bad == {i \in 1..Len(p) : ~Fine(i)}
<1>2. Fine(1)
  <2>1. {p[1], p[1 + 1]} \in DOMAIN graph
    <3>1. 1 \in 1..(Len(p) - 1)
      BY <1>1
    <3>2. QED
      BY <1>1, <3>1
  <2>2. Source \in DOMAIN dist /\ dist[Source] = 0
    BY <1>1, <2>1 DEF MeshInv, SourceInv
  <2>3. QED
    BY <1>1, <2>2
<1>3. ASSUME NEW i \in 1..(Len(p) - 1), Fine(i) PROVE Fine(i + 1)
  <2>1. i \in 1..Len(p) /\ i + 1 \in 1..Len(p)
    BY <1>1
  <2>2. p[i] \in visited
    BY <1>3 DEF Queued
  <2>3. {p[i], p[i + 1]} \in DOMAIN graph /\ c[i + 1] = c[i] + graph[{p[i], p[i + 1]}]
    BY <1>1
  <2>4. p[i + 1] \in DOMAIN dist /\ dist[p[i + 1]] <= dist[p[i]] + graph[{p[i], p[i + 1]}]
    BY <1>1, <2>1, <2>2, <2>3 DEF MeshInv, RelaxedInv
  <2>5. /\ dist[p[i]] \in Nat /\ dist[p[i + 1]] \in Nat
        /\ graph[{p[i], p[i + 1]}] \in Nat /\ c[i] \in Nat
    BY <1>1, <1>3, <2>1, <2>3, <2>4 DEF MeshInv, MeshType
  <2>6. QED
    BY <1>3, <2>3, <2>4, <2>5
<1>4. bad = {}
  <2> SUFFICES ASSUME bad # {} PROVE FALSE
    OBVIOUS
  <2>1. bad \subseteq Nat
    OBVIOUS
  <2>2. PICK i \in bad : \A j \in bad : i <= j
    BY <2>1, LeastOfNats
  <2>3. i \in 1..Len(p) /\ ~Fine(i) /\ i # 1
    BY <1>2
  <2>4. i - 1 \in 1..(Len(p) - 1) /\ i - 1 \in 1..Len(p) /\ ~(i <= i - 1) /\ (i - 1) + 1 = i
    BY <1>1, <2>3
  <2>5. i - 1 \notin bad
    BY <2>2, <2>4
  <2> HIDE DEF Fine
  <2>6. Fine(i - 1)
    BY <2>4, <2>5
  <2>7. Fine((i - 1) + 1)
    BY <1>3, <2>4, <2>6
  <2>8. QED
    BY <2>3, <2>4, <2>7
<1>5. Len(p) \in 1..Len(p)
  BY <1>1
<1>6. Fine(Len(p))
  BY <1>4, <1>5
<1>7. QED
  BY <1>1, <1>6

\* One more link at the end of a walk.
LEMMA LongerWalk ==
  ASSUME MeshType, NEW a \in Agent, NEW b \in Agent, {a, b} \in DOMAIN graph,
         NEW p, NEW c, WalkTo(a, p, c)
  PROVE  LET q == Append(p, b)
             d == Append(c, c[Len(c)] + graph[{a, b}])
         IN  WalkTo(b, q, d) /\ Len(q) = Len(p) + 1 /\ d[Len(d)] = c[Len(c)] + graph[{a, b}]
<1> DEFINE cost == c[Len(c)] + graph[{a, b}]
           q == Append(p, b)
           d == Append(c, cost)
<1>1. /\ p \in Seq(Agent) /\ c \in Seq(Nat) /\ Len(p) \in Nat \ {0} /\ Len(c) = Len(p)
      /\ p[1] = Source /\ c[1] = 0 /\ p[Len(p)] = a
      /\ \A i \in 1..(Len(p) - 1) :
           {p[i], p[i + 1]} \in DOMAIN graph /\ c[i + 1] = c[i] + graph[{p[i], p[i + 1]}]
  <2>1. /\ p \in Seq(Agent) /\ c \in Seq(Nat) /\ Len(p) = Len(c) /\ Len(p) > 0
        /\ p[1] = Source /\ c[1] = 0 /\ p[Len(p)] = a
    BY DEF WalkTo, Walk
  <2>2. Len(p) \in Nat \ {0}
    BY <2>1, LenProperties
  <2>3. \A i \in 1..(Len(p) - 1) :
          {p[i], p[i + 1]} \in DOMAIN graph /\ c[i + 1] = c[i] + graph[{p[i], p[i + 1]}]
    BY DEF WalkTo, Walk, Link
  <2>4. QED
    BY <2>1, <2>2, <2>3
<1>2. cost \in Nat
  <2>1. graph[{a, b}] \in Nat
    BY DEF MeshType
  <2>2. c[Len(c)] \in Nat
    BY <1>1, ElementOfSeq
  <2>3. QED
    BY <2>1, <2>2
<1> HIDE DEF cost
<1>3. /\ q \in Seq(Agent) /\ Len(q) = Len(p) + 1 /\ q[Len(p) + 1] = b
      /\ \A i \in 1..Len(p) : q[i] = p[i]
  BY <1>1, AppendProperties
<1>4. /\ d \in Seq(Nat) /\ Len(d) = Len(p) + 1 /\ d[Len(p) + 1] = cost
      /\ \A i \in 1..Len(p) : d[i] = c[i]
  BY <1>1, <1>2, AppendProperties
<1> HIDE DEF q, d
<1>5. ASSUME NEW i \in 1..(Len(q) - 1)
      PROVE  {q[i], q[i + 1]} \in DOMAIN graph /\ d[i + 1] = d[i] + graph[{q[i], q[i + 1]}]
  <2>1. i \in 1..Len(p) /\ q[i] = p[i] /\ d[i] = c[i]
    BY <1>1, <1>3, <1>4
  <2>2. CASE i = Len(p)
    BY <1>1, <1>3, <1>4, <2>1, <2>2 DEF cost
  <2>3. CASE i # Len(p)
    <3>1. i \in 1..(Len(p) - 1) /\ i + 1 \in 1..Len(p)
      BY <1>1, <2>1, <2>3
    <3>2. q[i + 1] = p[i + 1] /\ d[i + 1] = c[i + 1]
      BY <1>3, <1>4, <3>1
    <3>3. QED
      BY <1>1, <2>1, <3>1, <3>2
  <2>4. QED
    BY <2>2, <2>3
<1>6. q[1] = Source /\ d[1] = 0
  BY <1>1, <1>3, <1>4
<1>7. WalkTo(b, q, d)
  <2>1. \A i \in 1..(Len(q) - 1) :
          Link(q, i) \in DOMAIN graph /\ d[i + 1] = d[i] + graph[Link(q, i)]
    BY <1>5 DEF Link
  <2>2. Len(q) = Len(d) /\ Len(q) > 0 /\ q[Len(q)] = b
    BY <1>1, <1>3, <1>4
  <2>3. QED
    BY <1>3, <1>4, <1>6, <2>1, <2>2 DEF WalkTo, Walk
<1>8. QED
  BY <1>1, <1>3, <1>4, <1>7 DEF cost, q, d

-----------------------------------------------------------------------------
\* What holds of 1 and passes from each number to the next holds up to n.
LEMMA UpTo ==
  ASSUME NEW n \in Nat, NEW S, 1 \in S, \A k \in 1..(n - 1) : k \in S => k + 1 \in S
  PROVE  1..n \subseteq S
<1> DEFINE bad == (1..n) \ S
<1>1. SUFFICES ASSUME bad # {} PROVE FALSE
  OBVIOUS
<1>2. bad \subseteq Nat
  OBVIOUS
<1>3. PICK m \in bad : \A r \in bad : m <= r
  BY <1>1, <1>2, LeastOfNats
<1>4. m \in 1..n /\ m # 1 /\ m \notin S
  OBVIOUS
<1>5. m - 1 \in 1..(n - 1) /\ m - 1 \in 1..n /\ ~(m <= m - 1) /\ (m - 1) + 1 = m
  BY <1>4
<1>6. m - 1 \in S
  BY <1>3, <1>5
<1>7. QED
  BY <1>4, <1>5, <1>6

\* The steps back over the predecessors, at most n of them.
StepBack(f, n) ==
  [a \in Agent |-> IF n = 0 \/ a = Source \/ a \notin DOMAIN pred
                   THEN <<a>> ELSE Append(f[n - 1][pred[a]], a)]
BackTo(f, n) == f = [k \in 0..n |-> StepBack(f, k)]

LEMMA BackExists ==
  ASSUME NEW n \in Nat
  PROVE  \E f : BackTo(f, n)
<1> DEFINE S == {k \in 1..(n + 1) : \E f : BackTo(f, k - 1)}
<1>1. 1 \in S
  <2> DEFINE f == [k \in 0..0 |-> [a \in Agent |-> <<a>>]]
  <2>1. StepBack(f, 0) = [a \in Agent |-> <<a>>]
    BY DEF StepBack
  <2>2. BackTo(f, 0)
    BY <2>1 DEF BackTo
  <2> HIDE DEF f
  <2>3. 1 - 1 = 0
    OBVIOUS
  <2>4. QED
    BY <2>2, <2>3
<1>2. ASSUME NEW k \in 1..((n + 1) - 1), k \in S PROVE k + 1 \in S
  <2>1. PICK f : BackTo(f, k - 1)
    BY <1>2
  <2> DEFINE next == StepBack(f, k)
             g == [m \in 0..k |-> IF m = k THEN next ELSE f[m]]
  <2>2. ASSUME NEW m \in 0..k PROVE g[m] = StepBack(g, m)
    <3>1. m = 0 \/ g[m - 1] = f[m - 1]
      OBVIOUS
    <3>2. StepBack(g, m) = StepBack(f, m)
      BY <3>1 DEF StepBack
    <3>3. CASE m = k
      BY <3>2, <3>3
    <3>4. CASE m # k
      <4>1. m \in 0..(k - 1)
        BY <3>4
      <4>2. f = [j \in 0..(k - 1) |-> StepBack(f, j)]
        BY <2>1 DEF BackTo
      <4>3. f[m] = StepBack(f, m)
        BY <4>1, <4>2
      <4>4. QED
        BY <3>2, <3>4, <4>3
    <3>5. QED
      BY <3>3, <3>4
  <2>3. g = [m \in 0..k |-> g[m]]
    OBVIOUS
  <2> HIDE DEF g
  <2>4. g = [m \in 0..k |-> StepBack(g, m)]
    BY <2>2, <2>3
  <2>5. BackTo(g, (k + 1) - 1)
    BY <2>4 DEF BackTo
  <2>6. QED
    BY <2>5
<1> HIDE DEF S
<1>3. 1..(n + 1) \subseteq S
  BY <1>1, <1>2, UpTo
<1>4. n + 1 \in S
  BY <1>3
<1>5. QED
  BY <1>4 DEF S

\* The path back from an agent ends with the agent and begins with the path
\* back from its predecessor.
LEMMA BackSteps ==
  ASSUME NEW n \in 0..Cardinality(Agent), NEW a \in Agent
  PROVE  Back[n][a] = IF n = 0 \/ a = Source \/ a \notin DOMAIN pred
                      THEN <<a>> ELSE Append(Back[n - 1][pred[a]], a)
<1>1. Cardinality(Agent) \in Nat
  BY MeshAssumption, FS_CardinalityType DEF MeshAssumption
<1>2. BackTo(Back, Cardinality(Agent))
  <2>1. \E f : f = [k \in 0..Cardinality(Agent) |->
                      [b \in Agent |-> IF k = 0 \/ b = Source \/ b \notin DOMAIN pred
                                       THEN <<b>> ELSE Append(f[k - 1][pred[b]], b)]]
    BY <1>1, BackExists DEF BackTo, StepBack
  <2>2. QED
    BY <2>1 DEF BackTo, StepBack, Back
<1>3. Back[n] = StepBack(Back, n)
  BY <1>2 DEF BackTo
<1>4. QED
  BY <1>3 DEF StepBack

-----------------------------------------------------------------------------
\* What the parts of a path cost is what PathCost adds up.
LEMMA PathCostIs ==
  ASSUME NEW p, NEW c, Walk(p, c)
  PROVE  PathCost(p) = c[Len(c)]
<1> DEFINE Sums(f) == f = [i \in 1..Len(p) |->
                             IF i = 1 THEN 0 ELSE f[i - 1] + graph[Link(p, i - 1)]]
           upTo == CHOOSE f : Sums(f)
<1>1. /\ Len(p) \in Nat \ {0} /\ Len(c) = Len(p) /\ c[1] = 0 /\ c \in Seq(Nat)
      /\ \A i \in 1..(Len(p) - 1) : c[i + 1] = c[i] + graph[Link(p, i)]
  BY LenProperties DEF Walk
<1>2. \E f : Sums(f)
  <2> DEFINE f == [i \in 1..Len(p) |-> c[i]]
  <2>1. ASSUME NEW i \in 1..Len(p)
        PROVE  f[i] = IF i = 1 THEN 0 ELSE f[i - 1] + graph[Link(p, i - 1)]
    <3>1. CASE i = 1
      BY <1>1, <3>1
    <3>2. CASE i # 1
      <4>1. i - 1 \in 1..(Len(p) - 1) /\ (i - 1) + 1 = i /\ i - 1 \in 1..Len(p)
        BY <1>1, <3>2
      <4>2. c[(i - 1) + 1] = c[i - 1] + graph[Link(p, i - 1)]
        BY <1>1, <4>1
      <4>3. QED
        BY <3>2, <4>1, <4>2
    <3>3. QED
      BY <3>1, <3>2
  <2>2. f = [i \in 1..Len(p) |-> f[i]]
    OBVIOUS
  <2> HIDE DEF f
  <2>3. Sums(f)
    BY <2>1, <2>2
  <2>4. QED
    BY <2>3
<1>3. Sums(upTo)
  <2> HIDE DEF Sums
  <2>1. QED
    BY <1>2
<1>4. PathCost(p) = upTo[Len(p)]
  BY DEF PathCost
<1> HIDE DEF upTo
<1> DEFINE S == {i \in 1..Len(p) : upTo[i] = c[i]}
<1>5. 1 \in S
  BY <1>1, <1>3
<1>6. ASSUME NEW i \in 1..(Len(p) - 1), i \in S PROVE i + 1 \in S
  <2>1. i + 1 \in 1..Len(p) /\ i + 1 # 1 /\ (i + 1) - 1 = i
    BY <1>1
  <2>2. upTo[i + 1] = upTo[(i + 1) - 1] + graph[Link(p, (i + 1) - 1)]
    BY <1>3, <2>1
  <2>3. upTo[i + 1] = c[i + 1]
    BY <1>1, <1>6, <2>1, <2>2
  <2>4. QED
    BY <2>1, <2>3
<1> HIDE DEF S
<1>7. 1..Len(p) \subseteq S
  BY <1>1, <1>5, <1>6, UpTo
<1>8. Len(p) \in S
  BY <1>1, <1>7
<1>9. QED
  BY <1>1, <1>4, <1>8 DEF S

\* A function on the first n numbers is a sequence of that length.
LEMMA FunctionAsSeq ==
  ASSUME NEW T, NEW n \in Nat, NEW f \in [1..n -> T]
  PROVE  f \in Seq(T) /\ Len(f) = n
OBVIOUS

\* A path over links of the graph has a cost up to each of its agents.
LEMMA PathHasCosts ==
  ASSUME MeshType, NEW n \in Nat \ {0}, NEW p \in [1..n -> Agent], p[1] = Source, Walkable(p)
  PROVE  \E c : Walk(p, c)
<1>1. p \in Seq(Agent) /\ Len(p) = n
  BY FunctionAsSeq
<1>2. \A i \in 1..(n - 1) : Link(p, i) \in DOMAIN graph /\ graph[Link(p, i)] \in Nat
  BY <1>1 DEF Walkable, MeshType
<1> DEFINE Costs(k, c) ==
             /\ c \in [1..k -> Nat] /\ c[1] = 0
             /\ \A i \in 1..(k - 1) : c[i + 1] = c[i] + graph[Link(p, i)]
           S == {k \in 1..n : \E c : Costs(k, c)}
<1>3. 1 \in S
  <2> DEFINE c == [i \in 1..1 |-> 0]
  <2>1. Costs(1, c)
    OBVIOUS
  <2>2. 1 \in 1..n
    OBVIOUS
  <2> HIDE DEF c, Costs
  <2>3. QED
    BY <2>1, <2>2
<1>4. ASSUME NEW k \in 1..(n - 1), k \in S PROVE k + 1 \in S
  <2>1. PICK c : Costs(k, c)
    BY <1>4
  <2> DEFINE more == c[k] + graph[Link(p, k)]
             d == [i \in 1..(k + 1) |-> IF i = k + 1 THEN more ELSE c[i]]
  <2>2. more \in Nat
    BY <1>2, <2>1
  <2>3. ASSUME NEW i \in 1..k PROVE d[i + 1] = d[i] + graph[Link(p, i)]
    <3>1. d[i] = c[i] /\ i + 1 \in 1..(k + 1)
      OBVIOUS
    <3>2. CASE i = k
      BY <3>1, <3>2
    <3>3. CASE i # k
      <4>1. i \in 1..(k - 1) /\ d[i + 1] = c[i + 1]
        BY <3>3
      <4>2. QED
        BY <2>1, <3>1, <4>1
    <3>4. QED
      BY <3>2, <3>3
  <2>4. d \in [1..(k + 1) -> Nat] /\ d[1] = 0
    BY <2>1, <2>2
  <2> HIDE DEF d
  <2>5. Costs(k + 1, d)
    BY <2>3, <2>4
  <2>6. QED
    BY <2>5
<1> HIDE DEF S
<1>5. n \in S
  <2>1. 1..n \subseteq S
    BY <1>3, <1>4, UpTo
  <2>2. QED
    BY <2>1
<1>6. PICK c : Costs(n, c)
  BY <1>5 DEF S
<1>7. c \in Seq(Nat) /\ Len(c) = n
  BY <1>6, FunctionAsSeq
<1>8. \A i \in 1..(n - 1) :
        Link(p, i) \in DOMAIN graph /\ c[i + 1] = c[i] + graph[Link(p, i)]
  BY <1>2, <1>6
<1>9. c[1] = 0 /\ Len(p) = Len(c) /\ Len(p) > 0
  BY <1>1, <1>6, <1>7
<1>10. Walk(p, c)
  BY <1>1, <1>7, <1>8, <1>9 DEF Walk
<1>11. QED
  BY <1>10

-----------------------------------------------------------------------------
\* The path back over the predecessors: it has the distance for its cost and the
\* count of hops for its length, and it repeats no agent.
PathBack(a, p, c) ==
  /\ WalkTo(a, p, c) /\ c[Len(c)] = dist[a] /\ Len(p) = hops[a] + 1
  /\ \A i \in 1..Len(p) : p[i] \in DOMAIN dist /\ dist[p[i]] <= dist[a]
  /\ \A i, j \in 1..Len(p) : i # j => p[i] # p[j]
  /\ \A n \in 0..Cardinality(Agent) : hops[a] <= n => Back[n][a] = p

LEMMA RouteOfSource ==
  ASSUME MeshInv, Source \in DOMAIN dist
  PROVE  \E p, c : PathBack(Source, p, c)
<1> DEFINE p == <<Source>>
           c == <<0>>
<1>1. Source \in Agent /\ dist[Source] = 0 /\ hops[Source] = 0
  BY MeshAssumption DEF MeshAssumption, MeshInv, SourceInv
<1>2. p \in Seq(Agent) /\ Len(p) = 1 /\ p[1] = Source
  BY <1>1
<1>3. c \in Seq(Nat) /\ Len(c) = 1 /\ c[1] = 0
  OBVIOUS
<1>4. \A n \in 0..Cardinality(Agent) : Back[n][Source] = p
  BY <1>1, BackSteps
<1> HIDE DEF p, c
<1>5. WalkTo(Source, p, c)
  BY <1>2, <1>3 DEF WalkTo, Walk
<1>6. PathBack(Source, p, c)
  BY <1>1, <1>2, <1>3, <1>4, <1>5 DEF PathBack
<1>7. QED
  BY <1>6

LEMMA RouteOverPredecessor ==
  ASSUME MeshInv, NEW b \in DOMAIN dist \ {Source}, NEW p, NEW c, PathBack(pred[b], p, c)
  PROVE  \E q, d : PathBack(b, q, d)
<1> DEFINE u == pred[b]
           q == Append(p, b)
           d == Append(c, c[Len(c)] + graph[{u, b}])
<1>1. MeshType
  BY DEF MeshInv
<1>2. /\ u \in visited /\ {u, b} \in DOMAIN graph
      /\ dist[b] = dist[u] + graph[{u, b}] /\ hops[b] = hops[u] + 1
  BY DEF MeshInv, PredInv
<1>3. /\ u \in Agent /\ b \in Agent /\ u \in DOMAIN dist /\ b \in DOMAIN pred
      /\ dist[u] \in Nat /\ dist[b] \in Nat /\ hops[u] \in Nat /\ hops[b] \in Nat
  BY <1>1, <1>2 DEF MeshType
<1>4. dist[u] < dist[b]
  <2>1. graph[{u, b}] \in Nat \ {0}
    BY <1>1, <1>2, LinkEnds
  <2>2. QED
    BY <1>2, <1>3, <2>1
<1> HIDE DEF u
<1>5. /\ WalkTo(u, p, c) /\ c[Len(c)] = dist[u] /\ Len(p) = hops[u] + 1
      /\ \A i \in 1..Len(p) : p[i] \in DOMAIN dist /\ dist[p[i]] <= dist[u]
      /\ \A i, j \in 1..Len(p) : i # j => p[i] # p[j]
      /\ \A n \in 0..Cardinality(Agent) : hops[u] <= n => Back[n][u] = p
  BY DEF PathBack, u
<1>6. WalkTo(b, q, d) /\ Len(q) = Len(p) + 1 /\ d[Len(d)] = c[Len(c)] + graph[{u, b}]
  BY <1>1, <1>2, <1>3, <1>5, LongerWalk
<1>7. q[Len(p) + 1] = b /\ \A i \in 1..Len(p) : q[i] = p[i]
  <2>1. p \in Seq(Agent) /\ b \in Agent
    BY <1>3, <1>5 DEF WalkTo, Walk
  <2>2. QED
    BY <2>1, AppendProperties
<1>8. \A n \in 0..Cardinality(Agent) : hops[b] <= n => Back[n][b] = q
  <2>1. ASSUME NEW n \in 0..Cardinality(Agent), hops[b] <= n
        PROVE  Back[n][b] = q
    <3>1. n # 0 /\ n - 1 \in 0..Cardinality(Agent) /\ hops[u] <= n - 1
      <4>1. Cardinality(Agent) \in Nat
        BY MeshAssumption, FS_CardinalityType DEF MeshAssumption
      <4>2. QED
        BY <1>2, <1>3, <2>1, <4>1
    <3>2. Back[n][b] = Append(Back[n - 1][u], b)
      BY <1>3, <3>1, BackSteps DEF u
    <3>3. Back[n - 1][u] = p
      BY <1>5, <3>1
    <3>4. QED
      BY <3>2, <3>3
  <2>2. QED
    BY <2>1
<1> HIDE DEF q, d
<1>9. Len(p) \in Nat
  BY <1>3, <1>5
<1>10. \A i \in 1..Len(q) : i \in 1..Len(p) \/ i = Len(p) + 1
  BY <1>6, <1>9
<1>11. \A i \in 1..Len(q) : q[i] \in DOMAIN dist /\ dist[q[i]] <= dist[b]
  <2>1. ASSUME NEW i \in 1..Len(q) PROVE q[i] \in DOMAIN dist /\ dist[q[i]] <= dist[b]
    <3>1. CASE i = Len(p) + 1
      BY <1>3, <1>7, <3>1
    <3>2. CASE i \in 1..Len(p)
      <4>1. q[i] \in DOMAIN dist /\ dist[q[i]] <= dist[u] /\ dist[q[i]] \in Nat
        BY <1>1, <1>5, <1>7, <3>2 DEF MeshType
      <4>2. QED
        BY <1>3, <1>4, <4>1
    <3>3. QED
      BY <1>10, <3>1, <3>2
  <2>2. QED
    BY <2>1
<1>12. \A i \in 1..Len(p) : q[i] # b
  <2>1. ASSUME NEW i \in 1..Len(p), q[i] = b PROVE FALSE
    <3>1. dist[b] <= dist[u]
      BY <1>5, <1>7, <2>1
    <3>2. QED
      BY <1>3, <1>4, <3>1
  <2>2. QED
    BY <2>1
<1>13. \A i, j \in 1..Len(q) : i # j => q[i] # q[j]
  BY <1>5, <1>7, <1>10, <1>12
<1>14. d[Len(d)] = dist[b] /\ Len(q) = hops[b] + 1
  BY <1>2, <1>3, <1>5, <1>6
<1>15. PathBack(b, q, d)
  BY <1>6, <1>8, <1>11, <1>13, <1>14 DEF PathBack
<1>16. QED
  BY <1>15

LEMMA SomeRoute ==
  ASSUME MeshInv, NEW a \in DOMAIN dist
  PROVE  \E p, c : PathBack(a, p, c)
<1> DEFINE Good(b) == \E p, c : PathBack(b, p, c)
           bad == {b \in DOMAIN dist : ~Good(b)}
           far == {hops[b] : b \in bad}
<1>1. \A b \in DOMAIN dist : hops[b] \in Nat
  BY DEF MeshInv, MeshType
<1>2. Source \in DOMAIN dist
  BY DEF MeshInv, SourceInv
<1>3. Good(Source)
  BY <1>2, RouteOfSource
<1>4. \A b \in DOMAIN dist \ {Source} : Good(pred[b]) => Good(b)
  BY RouteOverPredecessor
<1> HIDE DEF Good
<1>5. bad = {}
  <2> SUFFICES ASSUME bad # {} PROVE FALSE
    OBVIOUS
  <2>1. far \subseteq Nat /\ far # {}
    BY <1>1
  <2>2. PICK h \in far : \A k \in far : h <= k
    BY <2>1, LeastOfNats
  <2>3. PICK b \in bad : h = hops[b]
    OBVIOUS
  <2>4. b \in DOMAIN dist /\ b # Source /\ ~Good(b)
    BY <1>3
  <2>5. ~Good(pred[b])
    BY <1>4, <2>4
  <2>6. pred[b] \in DOMAIN dist /\ hops[b] = hops[pred[b]] + 1
    BY <2>4 DEF MeshInv, PredInv, MeshType
  <2>7. hops[pred[b]] \in far
    BY <2>5, <2>6
  <2>8. hops[b] <= hops[pred[b]]
    BY <2>2, <2>3, <2>7
  <2>9. QED
    BY <1>1, <2>4, <2>6, <2>8
<1>6. Good(a)
  BY <1>5
<1>7. QED
  BY <1>6 DEF Good

\* The path that is rebuilt for an agent other than the source is one of the
\* paths to it that repeat no agent.
LEMMA RouteIsPath ==
  ASSUME MeshInv, NEW a \in DOMAIN dist \ {Source}, NEW p, NEW c, PathBack(a, p, c)
  PROVE  p \in PathsTo(a) /\ PathCost(p) = dist[a] /\ RebuildPath(a) = p /\ Len(p) = hops[a] + 1
<1>1. /\ WalkTo(a, p, c) /\ c[Len(c)] = dist[a] /\ Len(p) = hops[a] + 1
      /\ \A i, j \in 1..Len(p) : i # j => p[i] # p[j]
      /\ \A n \in 0..Cardinality(Agent) : hops[a] <= n => Back[n][a] = p
  BY DEF PathBack
<1>2. /\ p \in Seq(Agent) /\ p[1] = Source /\ p[Len(p)] = a
      /\ \A i \in 1..(Len(p) - 1) : Link(p, i) \in DOMAIN graph
  BY <1>1 DEF WalkTo, Walk
<1>3. hops[a] \in Nat /\ Len(p) \in Nat \ {0}
  BY <1>1 DEF MeshInv, MeshType
<1>4. p \in [1..Len(p) -> Agent] /\ DOMAIN p = 1..Len(p)
  BY <1>2, LenProperties
<1>5. Len(p) # 1
  BY <1>2
<1>6. IsFiniteSet(Agent) /\ Cardinality(Agent) \in Nat
  BY MeshAssumption, FS_CardinalityType DEF MeshAssumption
<1>7. Len(p) <= Cardinality(Agent)
  <2>1. p \in Injection(1..Len(p), Agent)
    BY <1>1, <1>4 DEF Injection, IsInjective
  <2>2. Cardinality(1..Len(p)) <= Cardinality(Agent)
    BY <1>6, <2>1, FS_Injection
  <2>3. Cardinality(1..Len(p)) = Len(p)
    <3>1. Cardinality(1..Len(p)) = IF 1 > Len(p) THEN 0 ELSE Len(p) - 1 + 1
      BY <1>3, FS_Interval
    <3>2. QED
      BY <1>3, <3>1
  <2>4. QED
    BY <2>2, <2>3
<1>8. Len(p) \in 2..Cardinality(Agent)
  <2>1. \A n \in Nat \ {0} : n # 1 => n \in Int /\ 2 <= n
    OBVIOUS
  <2>2. Len(p) \in Int /\ 2 <= Len(p)
    BY <1>3, <1>5, <2>1
  <2>3. QED
    BY <1>6, <1>7, <2>2
<1>9. p \in SimplePaths
  BY <1>1, <1>2, <1>4, <1>8 DEF SimplePaths
<1>10. p \in PathsTo(a)
  BY <1>2, <1>9 DEF PathsTo, Walkable
<1>11. PathCost(p) = dist[a]
  BY <1>1, PathCostIs DEF WalkTo
<1>12. RebuildPath(a) = p
  <2>1. Cardinality(Agent) \in 0..Cardinality(Agent) /\ hops[a] <= Cardinality(Agent)
    BY <1>1, <1>3, <1>6, <1>7
  <2>2. QED
    BY <1>1, <2>1 DEF RebuildPath
<1>13. QED
  BY <1>1, <1>10, <1>11, <1>12

\* No path to an agent costs less than its distance once all is settled.
LEMMA NoPathIsCheaper ==
  ASSUME MeshInv, Queued = {}, NEW a \in Agent, NEW p \in PathsTo(a)
  PROVE  a \in DOMAIN dist /\ PathCost(p) \in Nat /\ dist[a] <= PathCost(p)
<1>1. /\ p \in SimplePaths /\ p[Len(p)] = a /\ Walkable(p)
  BY DEF PathsTo
<1>2. PICK n \in 2..Cardinality(Agent) : p \in [1..n -> Agent] /\ p[1] = Source
  BY <1>1 DEF SimplePaths
<1>3. n \in Nat \ {0} /\ n > 1
  BY <1>2
<1>4. PICK c : Walk(p, c)
  BY <1>1, <1>2, <1>3, PathHasCosts DEF MeshInv
<1>5. Len(p) = n
  BY <1>2, <1>3, FunctionAsSeq
<1>6. a \in DOMAIN dist /\ dist[a] <= c[Len(c)]
  BY <1>1, <1>3, <1>4, <1>5, NoWalkIsShorter
<1>7. PathCost(p) = c[Len(c)]
  BY <1>4, PathCostIs
<1>8. c[Len(c)] \in Nat
  <2>1. c \in Seq(Nat) /\ Len(c) \in 1..Len(c)
    BY <1>3, <1>4, <1>5 DEF Walk
  <2>2. QED
    BY <2>1, ElementOfSeq
<1>9. QED
  BY <1>6, <1>7, <1>8

\* So the path that is rebuilt is a cheapest one.
LEMMA RouteIsCheapest ==
  ASSUME MeshInv, Queued = {}, NEW a \in DOMAIN dist \ {Source}
  PROVE  /\ RebuildPath(a) \in Cheapest(a) /\ PathCost(RebuildPath(a)) = dist[a]
         /\ Len(RebuildPath(a)) = hops[a] + 1 /\ hops[a] \in Nat
<1>1. PICK p, c : PathBack(a, p, c)
  BY SomeRoute
<1>2. p \in PathsTo(a) /\ PathCost(p) = dist[a] /\ RebuildPath(a) = p /\ Len(p) = hops[a] + 1
  BY <1>1, RouteIsPath
<1>3. a \in Agent /\ hops[a] \in Nat /\ dist[a] \in Nat
  BY DEF MeshInv, MeshType
<1> DEFINE costs == {PathCost(q) : q \in PathsTo(a)}
<1>4. dist[a] \in costs /\ \A k \in costs : k \in Nat /\ dist[a] <= k
  BY <1>2, <1>3, NoPathIsCheaper
<1> HIDE DEF costs
<1>5. Min(costs) = dist[a]
  <2>1. Min(costs) \in costs /\ \A k \in costs : Min(costs) <= k
    BY <1>4 DEF Min
  <2>2. QED
    BY <1>3, <1>4, <2>1
<1>6. p \in Cheapest(a)
  BY <1>2, <1>5 DEF Cheapest, costs
<1>7. QED
  BY <1>2, <1>3, <1>6

\* For every graph: the table that is returned holds a cheapest route, with its
\* own cost, hop count and next hop, to every agent that can be reached, and
\* leaves out only those whose cheapest route is over the hop limit.
THEOREM MeshRoutesOptimal == MeshSpec => []RoutesOptimal
<1>1. MeshInv => RoutesOptimal
  <2> SUFFICES ASSUME MeshInv, computes.n > 0, ~computes.running, NEW a \in Agent \ {Source}
               PROVE  IF a \in DOMAIN routes
                      THEN LET r == routes[a] IN
                           /\ r.path \in Cheapest(a) /\ r.cost = PathCost(r.path)
                           /\ r.hops = Len(r.path) - 1 /\ r.next = r.path[2]
                           /\ HopLimit > 0 => r.hops <= HopLimit
                      ELSE \/ PathsTo(a) = {}
                           \/ \E p \in Cheapest(a) : HopLimit > 0 /\ Len(p) - 1 > HopLimit
    BY DEF RoutesOptimal
  <2>1. Queued = {}
    BY DEF MeshInv, TableInv
  <2> DEFINE served == {b \in DOMAIN dist \ {Source} : HopLimit > 0 => hops[b] <= HopLimit}
  <2>2. routes = [d \in served |-> Entry(d)]
    BY DEF MeshInv, TableInv
  <2>3. CASE a \in DOMAIN routes
    <3>1. a \in served /\ routes[a] = Entry(a)
      BY <2>2, <2>3
    <3> DEFINE path == RebuildPath(a)
    <3>2. routes[a] = [next |-> path[2], hops |-> hops[a], cost |-> dist[a], path |-> path]
      BY <3>1 DEF Entry
    <3>3. /\ path \in Cheapest(a) /\ PathCost(path) = dist[a]
          /\ Len(path) = hops[a] + 1 /\ hops[a] \in Nat
      BY <2>1, <3>1, RouteIsCheapest
    <3> HIDE DEF path
    <3>4. hops[a] = Len(path) - 1
      BY <3>3
    <3>5. HopLimit > 0 => hops[a] <= HopLimit
      BY <3>1
    <3>6. QED
      BY <2>3, <3>2, <3>3, <3>4, <3>5
  <2>4. CASE a \notin DOMAIN routes
    <3>1. SUFFICES ASSUME PathsTo(a) # {}
                   PROVE  \E p \in Cheapest(a) : HopLimit > 0 /\ Len(p) - 1 > HopLimit
      BY <2>4
    <3>2. a \in DOMAIN dist
      BY <2>1, <3>1, NoPathIsCheaper
    <3>3. HopLimit > 0 /\ ~(hops[a] <= HopLimit)
      BY <2>2, <2>4, <3>2
    <3>4. /\ RebuildPath(a) \in Cheapest(a)
          /\ Len(RebuildPath(a)) = hops[a] + 1 /\ hops[a] \in Nat
      BY <2>1, <3>2, RouteIsCheapest
    <3>5. HopLimit \in Nat
      BY MeshAssumption DEF MeshAssumption
    <3>6. HopLimit > 0 /\ Len(RebuildPath(a)) - 1 > HopLimit
      BY <3>3, <3>4, <3>5
    <3>7. QED
      BY <3>4, <3>6
  <2>5. QED
    BY <2>3, <2>4
<1>2. QED
  BY <1>1, MeshInvariant, PTL
=============================================================================
