---------------------------- MODULE RequestPipeline ----------------------------
(***************************************************************************)
(* The way of an HTTP request through the service: ThrottlerGuard, JwtGuard, *)
(* PermissionInterceptor around ResponseInterceptor (the order of the        *)
(* providers in app.module.ts), ValidationPipe and parameter decorators,     *)
(* handler, and back; and the log rows it leaves behind, which nobody        *)
(* awaits.  NestJS, Redis and the databases are external.                    *)
(*                                                                         *)
(* What the guard and the grant read and write in Redis is in AuthSession;  *)
(* here a grant is one step and one session stands for the client's.        *)
(***************************************************************************)
EXTENDS Environment

CONSTANTS
    Request,   \* HTTP requests of one client, each used once
    Limit      \* THROTTLE_LIMIT when it is positive

ASSUME LimitAssumption == Limit \in Nat \ {0}

\* One endpoint of each make; "open" is any without a guard whose body or parameters
\* ValidationPipe checks, "fetchTest" calls another service.
Endpoints == {"open", "fetchTest", "requestOtp", "checkOtp"}
Guarded   == {"requestOtp", "checkOtp"}
Required(e) == IF e = "checkOtp" THEN {"OTP_REQUESTED"} ELSE {}
Provided(e) == CASE e = "requestOtp" -> {"OTP_REQUESTED"}
                 [] e = "checkOtp"   -> {"OTP_VERIFIED"}
                 [] OTHER            -> {}
Permissions == {"OTP_REQUESTED", "OTP_VERIFIED"}

\* What a client presents: nothing, a JWT that is malformed, expired or of a user whose
\* session is not a UserSession, or one of the types of TOKEN_TYPE.
TokenTypes  == {"USER", "OCTO_GUEST", "OCTO_WEB", "ONBOARDING_EMAIL_OTP"}
Credentials == {"none", "malformed", "expired", "other_session"} \cup TokenTypes

VARIABLES
    stage,       \* where each request is
    call,        \* its endpoint and its credential
    seen,        \* the permissions in request.session, the guard's snapshot
    outcome,     \* what its handler did
    answer,      \* its answer: HTTP status, and the systemCode of its body
    granted,     \* requests whose endpoint's permissions were added to the session
    session,     \* the permissions of the client's session, and whether it lives
    hits,        \* requests to each endpoint counted in the throttler's window
    inserting    \* log rows on their way, by request and place: their ids are printed

pipeline == <<stage, call, seen, outcome, answer, granted, session, hits, inserting>>
all      == <<environment, pipeline>>

Stages   == {"idle", "throttle", "guard", "permission", "pipes", "handler", "respond",
             "grant", "answered"}
Outcomes == {"none", "returned", "known", "unknown", "error"}
Codes    == {"none", "SUCCESS", "SORRY_SOMETHING_WENT_WRONG", "PLEASE_THROW_SYSTEM_CODE",
             "SESSION_NOT_AVAILABLE"}
Places   == {"guard", "query", "error", "fetch"}
NoCall   == [endpoint |-> "open", credential |-> "none"]
NoAnswer == [status |-> 0, code |-> "none"]

TypeOK ==
    /\ EnvironmentTypeOK
    /\ stage \in [Request -> Stages]
    /\ call \in [Request -> [endpoint : Endpoints, credential : Credentials]]
    /\ seen \in [Request -> SUBSET Permissions]
    /\ outcome \in [Request -> Outcomes]
    /\ answer \in [Request -> [status : {0, 200, 400, 401, 429, 500}, code : Codes]]
    /\ granted \subseteq Request
    /\ session \in [live : BOOLEAN, permissions : SUBSET Permissions]
    /\ hits \in [Endpoints -> 0..(Limit + 1)]
    /\ inserting \subseteq Request \X Places

Init ==
    /\ EnvironmentInit
    /\ stage = [r \in Request |-> "idle"]
    /\ call = [r \in Request |-> NoCall]
    /\ seen = [r \in Request |-> {}]
    /\ outcome = [r \in Request |-> "none"]
    /\ answer = [r \in Request |-> NoAnswer]
    /\ granted = {}
    /\ session = [live |-> TRUE, permissions |-> {}]
    /\ hits = [e \in Endpoints |-> 0]
    /\ inserting = {}

\* What a request presents, and what the guard saw, are not read again: forgotten.
Forget(r) ==
    /\ call' = [call EXCEPT ![r].credential = "none"]
    /\ seen' = [seen EXCEPT ![r] = {}]

At(r, s)   == Serving /\ stage[r] = s
Goto(r, s) == stage' = [stage EXCEPT ![r] = s]

\* ContextLogger.debug and DBLogger.logQuery: the row is on its way when they return.
Log(r, place) == inserting' = inserting \cup {<<r, place>>}

\* An exception outside ResponseInterceptor: NestJS answers, with no systemCode.
Refuse(r, status) ==
    /\ answer' = [answer EXCEPT ![r] = [status |-> status, code |-> "none"]]
    /\ Goto(r, "answered")
    /\ Forget(r)

-----------------------------------------------------------------------------
(* Before the handler.                                                     *)

Arrive(r, e, c) ==
    /\ At(r, "idle")
    /\ c = "none" \/ e \in Guarded
    /\ call' = [call EXCEPT ![r] = [endpoint |-> e, credential |-> c]]
    /\ Goto(r, "throttle")
    /\ UNCHANGED <<environment, seen, outcome, answer, granted, session, hits, inserting>>

\* ThrottlerGuard counts the request in Redis; more than the limit are refused.
Exceeded(n) ==
    CASE view[3]["THROTTLE_LIMIT"] = "zero"      -> n > 0
      [] view[3]["THROTTLE_LIMIT"] = "undefined" -> FALSE   \* n > undefined
      [] OTHER                                   -> n > Limit

Throttle(r) ==
    /\ At(r, "throttle")
    /\ hits' = [hits EXCEPT ![call[r].endpoint] = IF @ > Limit THEN @ ELSE @ + 1]
    /\ IF Exceeded(hits'[call[r].endpoint])
       THEN Refuse(r, 429)
       ELSE /\ Goto(r, IF call[r].endpoint \in Guarded THEN "guard" ELSE "permission")
            /\ UNCHANGED <<answer, call, seen>>
    /\ UNCHANGED <<environment, outcome, granted, session, inserting>>

ThrottleFails(r) ==
    /\ At(r, "throttle")
    /\ Refuse(r, 500)
    /\ UNCHANGED <<environment, outcome, granted, session, hits, inserting>>

\* TOKEN_TYPE_MAP, and the classes' @IsIn: an onboarding token is mapped to a class that
\* refuses its type.
TokenClass(type) ==
    CASE type = "USER"     -> "UserJWTPayload"
      [] type = "OCTO_WEB" -> "OctoWebJWTPayload"
      [] OTHER             -> "OctoGuestJWTPayload"
AllowTokens == {"UserJWTPayload"}

\* JWTDynamicGuard.canActivate and validateSession.
Admitted(c) ==
    /\ c \in TokenTypes /\ TokenClass(c) \in AllowTokens
    /\ session.live

GuardAdmits(r) ==
    /\ At(r, "guard") /\ Admitted(call[r].credential)
    /\ seen' = [seen EXCEPT ![r] = session.permissions]
    /\ Goto(r, "permission")
    /\ UNCHANGED <<environment, call, outcome, answer, granted, session, hits, inserting>>

\* Whatever is thrown, also by Redis, becomes a 401, and its message a debug row.
GuardRefuses(r) ==
    /\ At(r, "guard")
    /\ Refuse(r, 401)
    /\ Log(r, "guard")
    /\ UNCHANGED <<environment, outcome, granted, session, hits>>

\* PermissionInterceptor, the outer one, before next.handle().
Permission(r) ==
    /\ At(r, "permission")
    /\ IF Required(call[r].endpoint) \subseteq seen[r]
       THEN Goto(r, "pipes") /\ Forget(r) /\ UNCHANGED answer
       ELSE Refuse(r, 401)
    /\ UNCHANGED <<environment, outcome, granted, session, hits, inserting>>

-----------------------------------------------------------------------------
(* Inside ResponseInterceptor.                                             *)

\* map keeps the status; catchError takes an HttpException's own, here 400, and turns
\* any other error's, which nobody has set, into 500.
Status(o) == CASE o = "returned" -> 200 [] o = "error" -> 500 [] OTHER -> 400

\* translateResponse: a message that is no SYSTEM_CODE is not passed on.
Code(o) == CASE o = "returned" -> "SUCCESS"
             [] o = "known"    -> "SESSION_NOT_AVAILABLE"
             [] o = "unknown"  -> "PLEASE_THROW_SYSTEM_CODE"
             [] o = "error"    -> "SORRY_SOMETHING_WENT_WRONG"

Finish(r, o) ==
    /\ answer' = [answer EXCEPT ![r] = [status |-> Status(o), code |-> Code(o)]]
    /\ outcome' = [outcome EXCEPT ![r] = o]

\* The pipes pass: an open endpoint's parameters may be refused, a BadRequestException
\* whose message is no code.  catchError leaves three debug rows.
Pipes(r) ==
    /\ At(r, "pipes")
    /\ Goto(r, "handler")
    /\ UNCHANGED <<environment, call, seen, outcome, answer, granted, session, hits, inserting>>

PipesRefuse(r) ==
    /\ At(r, "pipes") /\ call[r].endpoint = "open"
    /\ answer' = [answer EXCEPT ![r] = [status |-> Status("unknown"), code |-> Code("unknown")]]
    /\ Log(r, "error")
    /\ Goto(r, "grant")
    /\ UNCHANGED <<environment, call, seen, outcome, granted, session, hits>>

\* What the handlers do: requestOtp rewrites the session and throws
\* SESSION_NOT_AVAILABLE without one, checkOtp only returns, the others use a database
\* or another service, whose answer callRaw passes on, a refusal too.
HandlerOutcomes(e) ==
    CASE e = "requestOtp" -> IF session.live THEN {"returned", "error"} ELSE {"known", "error"}
      [] e = "checkOtp"   -> {"returned"}
      [] OTHER            -> {"returned", "error"}

\* A query of the example database leaves a row, a call of another service two debug
\* rows, an error three: each a row here.
Rows(r, o) ==
    {r} \X ({place \in {"query"} : call[r].endpoint = "open"}
            \cup {place \in {"fetch"} : call[r].endpoint = "fetchTest"}
            \cup {place \in {"error"} : o # "returned"})

Handle(r) ==
    /\ At(r, "handler")
    /\ \E o \in HandlerOutcomes(call[r].endpoint) :
           Finish(r, o) /\ inserting' = inserting \cup Rows(r, o)
    /\ Goto(r, "grant")
    /\ UNCHANGED <<environment, call, seen, granted, session, hits>>

-----------------------------------------------------------------------------
(* PermissionInterceptor again: concatMap, on what ResponseInterceptor made. *)

Provides(r) == Provided(call[r].endpoint) # {}

MutantGrants(r) == Provides(r)   \* Mutant: whatever the systemCode
Grants(r) == Provides(r) /\ answer[r].code = "SUCCESS"

MutantGrant(r) ==   \* Mutant: unhandled rejections are ignored
    /\ At(r, "grant")
    /\ IF ~Grants(r)
       THEN Goto(r, "answered") /\ UNCHANGED <<session, granted>>
       ELSE /\ session.live
            /\ session' = [session EXCEPT !.permissions = @ \cup Provided(call[r].endpoint)]
            /\ granted' = granted \cup {r}
            /\ Goto(r, "answered")
    /\ UNCHANGED <<environment, call, seen, outcome, answer, hits, inserting>>

\* addFlowPermissions throws when the session has ended, and when Redis fails one of its
\* commands: in the executor of a promise, whose unhandled rejection ends the process.
Grant(r) ==
    /\ At(r, "grant")
    /\ \/ ~Grants(r) /\ Goto(r, "answered") /\ UNCHANGED <<session, granted, process>>
       \/ /\ Grants(r) /\ session.live
          /\ session' = [session EXCEPT !.permissions = @ \cup Provided(call[r].endpoint)]
          /\ granted' = granted \cup {r}
          /\ Goto(r, "answered")
          /\ UNCHANGED process
       \/ Grants(r) /\ process' = "exited" /\ UNCHANGED <<session, granted, stage>>
    /\ UNCHANGED <<env, boot, view, template, call, seen, outcome, answer, hits, inserting>>

-----------------------------------------------------------------------------
(* Beside the requests.                                                    *)

MutantInsertSettles ==   \* Mutant: the log database logs its queries as the example database does
    /\ process = "up"
    /\ \E row \in inserting : inserting' = (inserting \ {row}) \cup {<<row[1], "query">>}
    /\ UNCHANGED <<environment, stage, call, seen, outcome, answer, granted, session, hits>>

\* A log row is stored or its failure printed; the log database's own logger does nothing.
InsertSettles ==
    /\ process = "up"
    /\ \E row \in inserting : inserting' = inserting \ {row}
    /\ UNCHANGED <<environment, stage, call, seen, outcome, answer, granted, session, hits>>

\* A logout or the expiry of the session.
SessionEnds ==
    /\ session.live
    /\ session' = [live |-> FALSE, permissions |-> {}]
    /\ UNCHANGED <<environment, stage, call, seen, outcome, answer, granted, hits, inserting>>

\* The window ends, and with it the block of who exceeded the limit.
WindowEnds(e) ==
    /\ hits[e] > 0
    /\ hits' = [hits EXCEPT ![e] = 0]
    /\ UNCHANGED <<environment, stage, call, seen, outcome, answer, granted, session, inserting>>

Before(r)  == Throttle(r) \/ ThrottleFails(r) \/ GuardAdmits(r) \/ GuardRefuses(r) \/ Permission(r)
Within(r)  == Pipes(r) \/ PipesRefuse(r) \/ Handle(r)
Advance(r) == Before(r) \/ Within(r) \/ Grant(r)

Next ==
    \/ EnvironmentNext /\ UNCHANGED pipeline
    \/ \E r \in Request : Advance(r) \/ \E e \in Endpoints, c \in Credentials : Arrive(r, e, c)
    \/ InsertSettles
    \/ SessionEnds
    \/ \E e \in Endpoints : WindowEnds(e)

Spec == Init /\ [][Next]_all

\* Node runs its callbacks, Redis and the databases answer or fail; the log database may not.
Fairness ==
    /\ WF_all(EnvironmentNext /\ UNCHANGED pipeline)
    /\ \A r \in Request : WF_all(Advance(r))

FairSpec == Spec /\ Fairness

-----------------------------------------------------------------------------
(* Properties.                                                             *)

\* An endpoint's permissions are granted before its answer, and only, when its handler
\* returned: the outer interceptor can tell because the inner one has turned every
\* throw, of pipes and handler, into a body whose systemCode is not SUCCESS.
GrantIffSuccess ==
    \A r \in Request : stage[r] = "answered" =>
        (r \in granted <=> outcome[r] = "returned" /\ Provides(r))

\* Status and systemCode agree with each other and with what the handler did, also for
\* requests that guards, interceptor or pipes refuse: 401 and 429 mean it never ran.
AnswerTellsOutcome ==
    \A r \in Request : stage[r] = "answered" =>
        /\ answer[r].status = 200 <=> outcome[r] = "returned"
        /\ answer[r].code = "SUCCESS" <=> outcome[r] = "returned"
        /\ answer[r].status \in {401, 429} => outcome[r] = "none"

\* Without a positive THROTTLE_LIMIT no handler runs: the process does not start when
\* the variable is missing, and an empty one, taken as 0, refuses every request.
ThrottleFailsClosed ==
    env["THROTTLE_LIMIT"] # "digits" => \A r \in Request : outcome[r] = "none"

\* Every request is answered, or the process ends, whatever becomes of the log rows.
Answered == \A r \in Request : stage[r] # "idle" ~> stage[r] = "answered" \/ process = "exited"

\* From the first import on nothing waits for ever: the process serves or ends, and what it
\* serves is answered.
Settles == BootSettles /\ Answered

\* When the log database answers, the rows on their way come to an end with the
\* requests: logging a row never causes another one.
LogDrains == WF_all(InsertSettles) => <>[](inserting = {} \/ process = "exited")
=============================================================================
