---------------------------- MODULE AuthSession ----------------------------
(***************************************************************************)
(* Login sessions, the JWT guard, permissions and the sign-contract flow,  *)
(* as concurrent HTTP requests over one Redis store.                       *)
(*                                                                         *)
(* A login writes two records under the same session id: TOKEN, read first *)
(* by the guard, and SESSION, which carries the permissions.  Everything   *)
(* after the login that changes the SESSION record reads it, modifies it   *)
(* and writes it back in two Redis commands, with an await between them.   *)
(*                                                                         *)
(* One step is one Redis command together with the code that runs from its *)
(* reply to the next command.  The next command is sent some time after    *)
(* Redis executed this one and is itself executed some time later: what    *)
(* the code computes from the clock it computes when it sends.  A request  *)
(* is used once; the id a login draws (uuid.v4) is the login request       *)
(* itself, so ids are never reused.                                        *)
(***************************************************************************)
EXTENDS Integers, FiniteSets

CONSTANTS
    Requests,    \* HTTP requests; a login request is also the id it creates
    Users,       \* payload.key, the hash of body.userId
    Kinds,       \* the endpoints the clients call, a subset of Endpoints
    NoSession,   \* what a GET of a missing SESSION record returns
    NoRequest,   \* no session id, no contract
    Lifetime,    \* TOKEN_EXPIRE, in ticks
    MaxTime,     \* bound: no login starts later, and the clock stops here ...
    Drain,       \* ... unless Drain: then it goes on until the records have expired
    MaxFaults,   \* bound: crashes of the server process and failures of Redis commands
    Sequential   \* TRUE: a client has one request at a time on a session id

Endpoints == {"login", "logout", "requestOtp", "checkOtp", "checkSelfie",
              "addPermission", "addSessionLocalFlow"}

ASSUME KindsAssumption      == Kinds \subseteq Endpoints
ASSUME LifetimeAssumption   == Lifetime \in Nat \ {0}
ASSUME BoundsAssumption     == MaxTime \in Nat /\ MaxFaults \in Nat /\ Drain \in BOOLEAN
ASSUME SequentialAssumption == Sequential \in BOOLEAN
ASSUME NullAssumption       == NoRequest \notin Requests

USER_PERMISSION == {"OTP_VERIFIED", "UPLOAD_IMAGE_PRIVATE", "FORGOT_PASSWORD"}
SIGN_CONTRACT_FLOW_PERMISSION ==
    {"OTP_REQUESTED", "OTP_VERIFIED", "SELFIE_VERIFIED", "INIT_CONTRACT"}

\* The @PermissionGuard and @FlowPermissionGuard metadata of the endpoints.
RequiredPermissions(k) ==
    IF k = "addSessionLocalFlow" THEN {"OTP_VERIFIED"} ELSE {}

ProvidePermissions(k) ==
    CASE k = "addPermission"       -> {"OTP_VERIFIED"}
      [] k = "addSessionLocalFlow" -> {"FORGOT_PASSWORD"}
      [] OTHER                     -> {}

\* Mutant: checkSelfie forgets OTP_VERIFIED.
RequiredFlowPermissions_NoOtp(k) ==
    IF k \in {"checkOtp", "checkSelfie"} THEN {"OTP_REQUESTED"} ELSE {}

RequiredFlowPermissions(k) ==
    CASE k = "checkOtp"    -> {"OTP_REQUESTED"}
      [] k = "checkSelfie" -> {"OTP_REQUESTED", "OTP_VERIFIED"}
      [] OTHER             -> {}
ProvideFlowPermissions(k) ==
    CASE k = "requestOtp"  -> {"OTP_REQUESTED"}
      [] k = "checkOtp"    -> {"OTP_VERIFIED"}
      [] k = "checkSelfie" -> {"SELFIE_VERIFIED"}
      [] OTHER             -> {}

\* session.flowSessions[SIGN_CONTRACT]: absent, an entry without a permissions
\* array ("bare": updateFlowSession on a session that lost its flow), or whole.
FlowSession == [entry : {"absent", "bare", "listed"},
                contract : Requests \cup {NoRequest},
                permissions : SUBSET SIGN_CONTRACT_FLOW_PERMISSION]
NoFlow == [entry |-> "absent", contract |-> NoRequest, permissions |-> {}]

\* A SESSION record: the exp field of its JSON value, the instant at which Redis
\* drops it, the permissions and the sign-contract flow.
Session == [exp : Int, deadline : Int,
            permissions : SUBSET USER_PERMISSION, flow : FlowSession]

ASSUME NoSessionAssumption == NoSession \notin Session

VARIABLES
    now,       \* the clock, in ticks
    token,     \* TOKEN records: the instant Redis drops it, 0 when deleted
    session,   \* SESSION records
    cleanup,   \* un-awaited clearSession calls that still have to DEL a SESSION
    pc,        \* where each request is
    kind,      \* the endpoint each request calls
    user,      \* the user a login is for
    sid,       \* the session id a request presents
    jwtExp,    \* exp of the JWT a login signed
    existing,  \* createToken's existingToken
    buf,       \* the session a read-modify-write has read
    asked,     \* when Redis executed the command before the one under way, 0 if no matter
    faults,    \* crashes and failed commands so far
    revoked,   \* history: ids whose TOKEN record was deleted
    late,      \* history: requests that arrived with an id already revoked
    prior,     \* history: logins of the same user answered before this one began
    handled,   \* history: requests whose handler returned SUCCESS
    failed,    \* history: requests one of whose Redis commands failed
    round      \* history: the contract in the snapshot a request was admitted with

redis   == <<token, session>>
request == <<pc, kind, user, sid, jwtExp, existing, buf, asked>>
history == <<revoked, late, prior, handled, failed, round>>
vars    == <<now, redis, cleanup, request, faults, history>>

Idle     == "idle"
Answered == "answered"     \* 2xx
Refused  == "refused"      \* 401, 400 or 500 from guard, interceptor or handler
Hung     == "hung"         \* the grant threw: nobody settles the interceptor's promise
Lost     == "lost"         \* the process died under the request
Terminal == {Answered, Refused, Hung, Lost}
LoginStages   == {"login_keys", "login_revoke", "login_issue", "login_session"}
GuardStages   == {"guard_token", "guard_session"}
HandlerStages == {"logout_token", "logout_session", "flow_get", "flow_set"}
GrantStages   == {"grant_get", "grant_set"}
Active   == LoginStages \cup GuardStages \cup HandlerStages \cup GrantStages
Stages   == {Idle} \cup Active \cup Terminal

\* Mutant: SET instead of SETEX.
SessionLive_NoExpiry(i) == session[i] # NoSession

TokenLive(i)   == now < token[i]
SessionLive(i) == session[i] # NoSession /\ now < session[i].deadline

-----------------------------------------------------------------------------
\* When the command under way may have been sent: after the reply to the one before.
Sent(r) == asked[r]..now

\* Mutants: the full lifetime again at every rewrite; one tick too few.
Ttl_Full(s, sent)     == Lifetime
Ttl_OffByOne(s, sent) == s.exp - sent - 1

\* What a read-modify-write passes to addSession as expireInSeconds, and the record
\* SETEX leaves when it is executed: addSession spreads the value over its own exp, so
\* the exp read from Redis is the one written back.
Ttl(s, sent) == s.exp - sent
Stored(s, ttl) == [s EXCEPT !.deadline = now + ttl]

\* The record a login writes.
NewSession(sent) ==
    Stored([exp |-> sent + Lifetime, deadline |-> 0, permissions |-> {}, flow |-> NoFlow],
           Lifetime)

\* Mutants: requestOtp keeps the permissions of the round before; the session is not
\* spread under the new flow.
MergeFlow_KeepsPermissions(r, s) ==
    [s EXCEPT !.flow.entry = "listed", !.flow.contract = IF kind[r] = "requestOtp" THEN r ELSE @]
MergeFlow_DropsSession(r, s) ==
    [s EXCEPT !.permissions = {},
              !.flow = [entry |-> "listed", contract |-> r, permissions |-> {}]]

\* addFlowSession / updateFlowSession: the new value is spread over the old entry;
\* only requestOtp's value has a contractId and a (fresh, empty) permissions array.
MergeFlow(r, s) ==
    IF kind[r] = "requestOtp"
    THEN [s EXCEPT !.flow = [entry |-> "listed", contract |-> r, permissions |-> {}]]
    ELSE [s EXCEPT !.flow.entry = IF @ = "absent" THEN "bare" ELSE @]

\* addPermissions and addFlowPermissions append what is missing.
Grant(r, s) ==
    [s EXCEPT !.permissions      = @ \cup ProvidePermissions(kind[r]),
              !.flow.permissions = @ \cup ProvideFlowPermissions(kind[r])]

\* addFlowPermissions throws when the flow, or its permissions array, is missing.
CanGrant(r, s) == ProvideFlowPermissions(kind[r]) # {} => s.flow.entry = "listed"

\* PermissionInterceptor.intercept on request.session, the guard's snapshot.
Permitted(k, s) ==
    /\ RequiredPermissions(k) \subseteq s.permissions
    /\ RequiredFlowPermissions(k) # {} => s.flow.entry = "listed"
    /\ RequiredFlowPermissions(k) \subseteq s.flow.permissions

\* Where a request goes once its handler has returned: res.systemCode is SUCCESS.
AfterHandler(k) ==
    IF ProvidePermissions(k) = {} /\ ProvideFlowPermissions(k) = {}
    THEN Answered ELSE "grant_get"

\* Where a request goes once admitted; checkOtp, addPermission and
\* addSessionLocalFlow have handlers without a Redis command.
AfterGuard(k) ==
    CASE k = "logout"                       -> "logout_token"
      [] k \in {"requestOtp", "checkSelfie"} -> "flow_get"
      [] OTHER                              -> AfterHandler(k)

Goto(r, stage) == pc' = [pc EXCEPT ![r] = stage]
At(r, stage)   == pc[r] = stage

Init ==
    /\ now = 0
    /\ token = [i \in Requests |-> 0]
    /\ session = [i \in Requests |-> NoSession]
    /\ cleanup = {}
    /\ pc = [r \in Requests |-> Idle]
    /\ kind \in [Requests -> Kinds]
    /\ user \in [Requests -> Users]
    /\ sid = [r \in Requests |-> NoRequest]
    /\ jwtExp = [i \in Requests |-> 0]
    /\ existing = [r \in Requests |-> {}]
    /\ buf = [r \in Requests |-> NoSession]
    /\ asked = [r \in Requests |-> 0]
    /\ faults = 0
    /\ revoked = {}
    /\ late = {}
    /\ prior = [r \in Requests |-> {}]
    /\ handled = {}
    /\ failed = {}
    /\ round = [r \in Requests |-> NoRequest]

-----------------------------------------------------------------------------
(* What the commands that write do to Redis, and to what is known of it.   *)

\* SETEX TOKEN, with the JWT that signJwt made just before it was sent.
AddToken(r) ==
    \E sent \in Sent(r) :
        /\ token' = [token EXCEPT ![r] = now + Lifetime]
        /\ jwtExp' = [jwtExp EXCEPT ![r] = sent + Lifetime]

\* SETEX SESSION of a login.
AddSession(r) == \E sent \in Sent(r) : session' = [session EXCEPT ![r] = NewSession(sent)]

\* DEL TOKEN and DEL SESSION of a logout.
DelToken(r) ==
    /\ token' = [token EXCEPT ![sid[r]] = 0]
    /\ revoked' = revoked \cup {sid[r]}
DelSession(r) == session' = [session EXCEPT ![sid[r]] = NoSession]

\* SETEX SESSION of a read-modify-write; Redis refuses a ttl that is not positive.
Rewrite(r, s) ==
    \E sent \in Sent(r) : /\ Ttl(buf[r], sent) > 0
                          /\ session' = [session EXCEPT ![sid[r]] = Stored(s, Ttl(buf[r], sent))]
TtlRefused(r) == \E sent \in Sent(r) : Ttl(buf[r], sent) <= 0

-----------------------------------------------------------------------------
(* POST login: BaseAuthService.authenticate and createToken.               *)

LoggedIn(i) == kind[i] = "login" /\ At(i, Answered)

LoginStart(r) ==
    /\ At(r, Idle) /\ kind[r] = "login"
    /\ now <= MaxTime                                    \* bound
    /\ Goto(r, "login_keys")
    /\ prior' = [prior EXCEPT ![r] = {i \in Requests : LoggedIn(i) /\ user[i] = user[r]}]
    /\ UNCHANGED <<now, redis, cleanup, kind, user, sid, jwtExp, existing, buf, asked,
                   faults, revoked, late, handled, failed, round>>

\* KEYS TOKEN:<channel>:<key>:*
LoginKeys(r) ==
    /\ At(r, "login_keys")
    /\ existing' = [existing EXCEPT ![r] = {i \in Requests : user[i] = user[r] /\ TokenLive(i)}]
    /\ Goto(r, "login_revoke")
    /\ asked' = [asked EXCEPT ![r] = now]
    /\ UNCHANGED <<now, redis, cleanup, kind, user, sid, jwtExp, buf, faults, history>>

\* Mutant: only the SESSION records of earlier logins are deleted.
LoginRevoke_KeepsTokens(r) ==
    /\ At(r, "login_revoke")
    /\ cleanup' = cleanup \cup {<<r, i>> : i \in existing[r]}
    /\ Goto(r, "login_issue")
    /\ UNCHANGED <<now, redis, kind, user, sid, jwtExp, existing, buf, asked, faults, history>>

\* clearSession, not awaited: the DEL of every existing TOKEN goes out ahead of the SETEX
\* TOKEN, the DEL of its SESSION when the first DEL is answered.
LoginRevoke(r) ==
    /\ At(r, "login_revoke")
    /\ token' = [i \in Requests |-> IF i \in existing[r] THEN 0 ELSE token[i]]
    /\ cleanup' = cleanup \cup {<<r, i>> : i \in existing[r]}
    /\ revoked' = revoked \cup existing[r]
    /\ existing' = [existing EXCEPT ![r] = {}]
    /\ Goto(r, "login_issue")
    /\ UNCHANGED <<now, session, kind, user, sid, jwtExp, buf, asked,
                   faults, late, prior, handled, failed, round>>

\* signJwt, then SETEX TOKEN.
LoginIssue(r) ==
    /\ At(r, "login_issue")
    /\ AddToken(r)
    /\ Goto(r, "login_session")
    /\ asked' = [asked EXCEPT ![r] = now]
    /\ UNCHANGED <<now, session, cleanup, kind, user, sid, existing, buf, faults, history>>

\* SETEX SESSION; the login is answered with the JWT.
LoginSession(r) ==
    /\ At(r, "login_session")
    /\ AddSession(r)
    /\ Goto(r, Answered)
    /\ handled' = handled \cup {r}
    /\ asked' = [asked EXCEPT ![r] = 0]
    /\ UNCHANGED <<now, token, cleanup, kind, user, sid, jwtExp, existing, buf,
                   faults, revoked, late, prior, failed, round>>

\* The second half of an un-awaited clearSession: DEL SESSION.
ClearAuthSession(r, i) ==
    /\ <<r, i>> \in cleanup
    /\ session' = [session EXCEPT ![i] = NoSession]
    /\ cleanup' = cleanup \ {<<r, i>>}
    /\ UNCHANGED <<now, token, request, faults, history>>

-----------------------------------------------------------------------------
(* The guard of every other endpoint, JwtGuard.canActivate, and the        *)
(* permission checks of PermissionInterceptor that follow it.              *)

\* A client that has a JWT calls an endpoint; the guard checks the JWT's exp.
Arrive(r, i) ==
    /\ At(r, Idle) /\ kind[r] # "login"
    /\ LoggedIn(i)
    /\ Sequential => \A q \in Requests : sid[q] = i => pc[q] \in Terminal
    /\ sid' = [sid EXCEPT ![r] = i]
    /\ Goto(r, IF jwtExp[i] < now THEN Refused ELSE "guard_token")
    /\ late' = IF i \in revoked THEN late \cup {r} ELSE late
    /\ UNCHANGED <<now, redis, cleanup, kind, user, jwtExp, existing, buf, asked,
                   faults, revoked, prior, handled, failed, round>>

\* Mutant: the guard trusts the JWT and the SESSION record.
GuardToken_Unchecked(r) ==
    /\ At(r, "guard_token")
    /\ Goto(r, "guard_session")
    /\ UNCHANGED <<now, redis, cleanup, kind, user, sid, jwtExp, existing, buf, asked,
                   faults, history>>

\* GET TOKEN
GuardToken(r) ==
    /\ At(r, "guard_token")
    /\ Goto(r, IF TokenLive(sid[r]) THEN "guard_session" ELSE Refused)
    /\ UNCHANGED <<now, redis, cleanup, kind, user, sid, jwtExp, existing, buf, asked,
                   faults, history>>

\* GET SESSION: the record is missing, or it lacks a required permission.
GuardRefuse(r) ==
    /\ At(r, "guard_session")
    /\ SessionLive(sid[r]) => ~Permitted(kind[r], session[sid[r]])
    /\ Goto(r, Refused)
    /\ UNCHANGED <<now, redis, cleanup, kind, user, sid, jwtExp, existing, buf, asked,
                   faults, history>>

\* GET SESSION: the request is admitted, and a handler without Redis commands runs.
GuardAdmit(r) ==
    /\ At(r, "guard_session")
    /\ SessionLive(sid[r]) /\ Permitted(kind[r], session[sid[r]])
    /\ Goto(r, AfterGuard(kind[r]))
    /\ round' = [round EXCEPT ![r] = session[sid[r]].flow.contract]
    /\ handled' = IF AfterGuard(kind[r]) \in HandlerStages
                  THEN handled ELSE handled \cup {r}
    /\ UNCHANGED <<now, redis, cleanup, kind, user, sid, jwtExp, existing, buf, asked,
                   faults, revoked, late, prior, failed>>

-----------------------------------------------------------------------------
(* Handlers: logout, and requestOtp and checkSelfie through addFlowSession. *)

\* DEL TOKEN
LogoutToken(r) ==
    /\ At(r, "logout_token")
    /\ DelToken(r)
    /\ Goto(r, "logout_session")
    /\ UNCHANGED <<now, session, cleanup, kind, user, sid, jwtExp, existing, buf, asked,
                   faults, late, prior, handled, failed, round>>

\* DEL SESSION, then the answer.
LogoutSession(r) ==
    /\ At(r, "logout_session")
    /\ DelSession(r)
    /\ handled' = handled \cup {r}
    /\ Goto(r, Answered)
    /\ UNCHANGED <<now, token, cleanup, kind, user, sid, jwtExp, existing, buf, asked,
                   faults, revoked, late, prior, failed, round>>

\* GET SESSION of addFlowSession; getSessionValue throws when it is gone, and the
\* response interceptor answers with the error.
FlowGet(r) ==
    /\ At(r, "flow_get")
    /\ IF SessionLive(sid[r])
       THEN /\ buf' = [buf EXCEPT ![r] = session[sid[r]]]
            /\ asked' = [asked EXCEPT ![r] = now]
            /\ Goto(r, "flow_set")
       ELSE UNCHANGED <<buf, asked>> /\ Goto(r, Refused)
    /\ UNCHANGED <<now, redis, cleanup, kind, user, sid, jwtExp, existing, faults, history>>

\* A read-modify-write is over: nothing is held of it.
Release(r) ==
    /\ buf' = [buf EXCEPT ![r] = NoSession]
    /\ asked' = [asked EXCEPT ![r] = 0]

\* SETEX SESSION of addFlowSession.
FlowSet(r) ==
    /\ At(r, "flow_set")
    /\ \/ /\ Rewrite(r, MergeFlow(r, buf[r]))
          /\ handled' = handled \cup {r}
          /\ Goto(r, AfterHandler(kind[r]))
       \/ TtlRefused(r) /\ UNCHANGED <<session, handled>> /\ Goto(r, Refused)
    /\ Release(r)
    /\ UNCHANGED <<now, token, cleanup, kind, user, sid, jwtExp, existing,
                   faults, revoked, late, prior, failed, round>>

-----------------------------------------------------------------------------
(* After the handler: PermissionInterceptor grants what the endpoint       *)
(* provides, inside new Promise(async ...), where a throw settles nothing. *)

\* GET SESSION of addPermissions or addFlowPermissions.
GrantGet(r) ==
    /\ At(r, "grant_get")
    /\ SessionLive(sid[r]) /\ CanGrant(r, session[sid[r]])
    /\ buf' = [buf EXCEPT ![r] = session[sid[r]]]
    /\ asked' = [asked EXCEPT ![r] = now]
    /\ Goto(r, "grant_set")
    /\ UNCHANGED <<now, redis, cleanup, kind, user, sid, jwtExp, existing, faults, history>>

\* SETEX SESSION of addPermissions or addFlowPermissions, then the answer.
GrantSet(r) ==
    /\ At(r, "grant_set")
    /\ Rewrite(r, Grant(r, buf[r]))
    /\ Goto(r, Answered)
    /\ Release(r)
    /\ UNCHANGED <<now, token, cleanup, kind, user, sid, jwtExp, existing, faults, history>>

\* Requests under way and un-awaited work die, Redis keeps its records.
ProcessExit(stages) ==
    /\ pc' = [r \in Requests |-> IF stages[r] \in Active THEN Lost ELSE stages[r]]
    /\ buf' = [r \in Requests |-> NoSession]
    /\ asked' = [r \in Requests |-> 0]
    /\ cleanup' = {}

\* The grant throws: the session is gone or has no flow, or Redis refuses the ttl.  The
\* executor's rejection is unhandled, which ends the process and with it every request.
GrantThrows(r) ==
    /\ \/ At(r, "grant_get") /\ (SessionLive(sid[r]) => ~CanGrant(r, session[sid[r]]))
       \/ At(r, "grant_set") /\ TtlRefused(r)
    /\ ProcessExit([pc EXCEPT ![r] = Hung])
    /\ UNCHANGED <<now, redis, kind, user, sid, jwtExp, existing, faults, history>>

-----------------------------------------------------------------------------
(* The environment.                                                        *)

\* What Redis did with a command whose reply the code will not see.
ExecutedUnheard(r) ==
    \/ At(r, "login_issue")    /\ AddToken(r)   /\ UNCHANGED <<session, revoked>>
    \/ At(r, "login_session")  /\ AddSession(r) /\ UNCHANGED <<token, jwtExp, revoked>>
    \/ At(r, "logout_token")   /\ DelToken(r)   /\ UNCHANGED <<session, jwtExp>>
    \/ At(r, "logout_session") /\ DelSession(r) /\ UNCHANGED <<token, jwtExp, revoked>>
    \/ /\ At(r, "flow_set")    /\ Rewrite(r, MergeFlow(r, buf[r]))
       /\ UNCHANGED <<token, jwtExp, revoked>>
    \/ /\ At(r, "grant_set")   /\ Rewrite(r, Grant(r, buf[r]))
       /\ UNCHANGED <<token, jwtExp, revoked>>

\* An awaited command fails: an error reply, or the commandTimeout, with the command
\* executed or not.  In a grant that ends the process like any other throw; elsewhere
\* the request is answered with the error.
RedisFails(r) ==
    /\ faults < MaxFaults                                \* bound
    /\ pc[r] \in Active \ {"login_revoke"}
    /\ faults' = faults + 1
    /\ failed' = failed \cup {r}
    /\ ExecutedUnheard(r) \/ UNCHANGED <<redis, jwtExp, revoked>>
    /\ IF pc[r] \in GrantStages
       THEN ProcessExit([pc EXCEPT ![r] = Hung])
       ELSE Goto(r, Refused) /\ Release(r) /\ UNCHANGED cleanup
    /\ UNCHANGED <<now, kind, user, sid, existing, late, prior, handled, round>>

\* Time passes.
Tick ==
    /\ \/ now < MaxTime                                  \* bounds
       \/ /\ Drain /\ now < MaxTime + Lifetime
          /\ \A r \in Requests : pc[r] \notin LoginStages
       \/ /\ Drain /\ \E i \in Requests : session[i] # NoSession /\ now < session[i].deadline
          /\ \A r \in Requests : pc[r] \notin Active
    /\ now' = now + 1
    /\ UNCHANGED <<redis, cleanup, request, faults, history>>

\* The process dies: for a reason of its own, or of a DEL nobody awaits that fails.
Crash ==
    /\ faults < MaxFaults                                \* bound
    /\ faults' = faults + 1
    /\ ProcessExit(pc)
    /\ UNCHANGED <<now, redis, kind, user, sid, jwtExp, existing, history>>

Login(r)   == LoginKeys(r) \/ LoginRevoke(r) \/ LoginIssue(r) \/ LoginSession(r)
Guard(r)   == GuardToken(r) \/ GuardRefuse(r) \/ GuardAdmit(r)
Handler(r) == LogoutToken(r) \/ LogoutSession(r) \/ FlowGet(r) \/ FlowSet(r)
PermissionGrant(r) == GrantGet(r) \/ GrantSet(r) \/ GrantThrows(r)
Advance(r) == Login(r) \/ Guard(r) \/ Handler(r) \/ PermissionGrant(r)

Next ==
    \/ \E r \in Requests : LoginStart(r) \/ Advance(r) \/ RedisFails(r)
    \/ \E r, i \in Requests : Arrive(r, i) \/ ClearAuthSession(r, i)
    \/ Tick
    \/ Crash

Spec == Init /\ [][Next]_vars

\* Redis answers, the event loop runs and time passes; clients may stop calling.  It is
\* enough that something goes on: no request and no deletion has steps without end.
Progress == \E r \in Requests : Advance(r) \/ \E i \in Requests : ClearAuthSession(r, i)
Fairness == WF_vars(Progress) /\ WF_vars(Tick)
FairSpec == Spec /\ Fairness

-----------------------------------------------------------------------------
\* The type invariant.
TypeOK ==
    /\ now \in Nat /\ faults \in Nat
    /\ asked \in [Requests -> Nat]
    /\ token \in [Requests -> Nat] /\ jwtExp \in [Requests -> Nat]
    /\ session \in [Requests -> Session \cup {NoSession}]
    /\ buf \in [Requests -> Session \cup {NoSession}]
    /\ cleanup \subseteq Requests \X Requests
    /\ pc \in [Requests -> Stages]
    /\ kind \in [Requests -> Kinds] /\ user \in [Requests -> Users]
    /\ sid \in [Requests -> Requests \cup {NoRequest}]
    /\ existing \in [Requests -> SUBSET Requests]
    /\ prior \in [Requests -> SUBSET Requests]
    /\ round \in [Requests -> Requests \cup {NoRequest}]
    /\ revoked \subseteq Requests /\ late \subseteq Requests /\ handled \subseteq Requests
    /\ failed \subseteq Requests

\* A request that arrives after its session id was revoked, by a logout or by a later
\* login, never gets past the guard, although a read-modify-write that was under way
\* may have put the id's SESSION record back (JwtGuard.canActivate reads TOKEN first).
NoAdmissionAfterRevocation ==
    \A r \in late : pc[r] \in {"guard_token", Refused, Lost}

\* When a login has issued its token, every token of the same user whose login was
\* answered before it began is gone (createToken with allowMultipleTokens false), though
\* clearSession is not awaited.
LaterLoginRevokesEarlier ==
    \A r \in Requests : kind[r] = "login" /\ pc[r] \in {"login_session", Answered} =>
        \A i \in prior[r] : ~TokenLive(i)

\* However many read-modify-writes overlap, with each other and with a logout, a
\* session that holds SELFIE_VERIFIED is one on which requestOtp and checkOtp succeeded.
SelfieNeedsVerifiedOtp ==
    \A i \in Requests :
        session[i] # NoSession /\ "SELFIE_VERIFIED" \in session[i].flow.permissions =>
            \A k \in {"requestOtp", "checkOtp"} :
                \E r \in handled : kind[r] = k /\ sid[r] = i

\* However late a rewrite of a SESSION record is executed, and whatever it overlaps, it
\* keeps the exp of the login, and Redis drops the record no earlier than then, and no
\* later than by the time this one SETEX was under way: what late rewrites (the ttl of
\* addPermissions, addFlowSession, addFlowPermissions is of an earlier instant) prolong
\* does not add up.
ExpiryPinned ==
    [][\A i \in Requests :
          session[i] # NoSession /\ session'[i] \notin {session[i], NoSession} =>
              /\ session'[i].exp = session[i].exp
              /\ \E r \in Requests :
                    /\ pc[r] \in {"flow_set", "grant_set"} /\ sid[r] = i
                    /\ session'[i].deadline - session'[i].exp \in 0..(now - asked[r])]_vars

\* For a client with one request at a time: OTP_VERIFIED in the sign-contract flow was
\* earned by a checkOtp admitted while this very contract was the current one.
OtpVerifiedForCurrentContract ==
    \A i \in Requests :
        session[i] # NoSession /\ "OTP_VERIFIED" \in session[i].flow.permissions =>
            \E r \in handled : /\ kind[r] = "checkOtp" /\ sid[r] = i
                               /\ round[r] = session[i].flow.contract

\* For a client with one request at a time: a permission whose grant was answered stays
\* in the session, whatever flow requests rewrite the record afterwards.
GrantsRetained ==
    \A r \in Requests :
        At(r, Answered) /\ kind[r] # "login" /\ SessionLive(sid[r]) =>
            ProvidePermissions(kind[r]) \subseteq session[sid[r]].permissions

\* For clients with one request at a time: a grant throws, and takes the process down,
\* only when the session was revoked or expired under the request, or when Redis failed
\* one of its commands; never for want of a flow that a rewrite lost, nor of a ttl that
\* rewrites have worn down.
HungOnlyForCause ==
    \A r \in Requests :
        At(r, Hung) => sid[r] \in revoked \/ jwtExp[sid[r]] <= now \/ r \in failed

\* The SESSION record of a revoked id, deleted late by an un-awaited clearSession or put
\* back by a read-modify-write, is in the end gone for good.
RevokedSessionGoneInTheEnd == <>[](\A i \in revoked : ~SessionLive(i))

-----------------------------------------------------------------------------
\* What the store promises its callers: see SessionLifecycle.
Status(i) ==
    IF jwtExp[i] = 0 THEN "unissued" ELSE IF TokenLive(i) THEN "open" ELSE "closed"
Using(r) ==
    IF pc[r] \in {"guard_session"} \cup HandlerStages \cup GrantStages THEN sid[r] ELSE NoRequest

Lifecycle == INSTANCE SessionLifecycle WITH
    Ids    <- Requests,
    NoId   <- NoRequest,
    status <- [i \in Requests |-> Status(i)],
    using  <- [r \in Requests |-> Using(r)]

\* TOKEN and SESSION records, commands and crashes together implement a session id that
\* opens once, closes once and is taken into use only while open.
ImplementsLifecycle == Lifecycle!Spec
=============================================================================
