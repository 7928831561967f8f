------------------------- MODULE RequestPipelineProofs -------------------------
(***************************************************************************)
(* Proofs about RequestPipeline, for any requests, limit and environment.  *)
(***************************************************************************)
EXTENDS RequestPipeline, TLAPS

\* The k-th construction is done.
Built(k) == boot \notin ({BootAt(j) : j \in 1..k})

\* What a construction has left is what the environment says, and valid; the process
\* serves only with its certificates named.
SettingsOK ==
    /\ \A s \in ExampleSettings : env[s] \in RawOf(s) \cup {"digits"}
    /\ DOMAIN view = Constructions /\ view = [k \in Constructions |-> view[k]]
    /\ \A k \in Constructions : Built(k) =>
           /\ view[k] = [s \in SettingsOf(k) |-> Converted(s)]
           /\ \A s \in SettingsOf(k) : Valid(s, Converted(s))
    /\ boot = "serving" => Configured

\* What is in place of each request at its stage: no outcome and no grant before the
\* handler, an answer that agrees with the outcome after it, a grant only at the end.
RequestOK(r) ==
    /\ stage[r] \notin {"grant", "answered"} => outcome[r] = "none"
    /\ stage[r] # "answered" => r \notin granted
    /\ stage[r] \in {"grant", "answered"} =>
           /\ answer[r].status = 200 <=> outcome[r] = "returned"
           /\ answer[r].code = "SUCCESS" <=> outcome[r] = "returned"
           /\ answer[r].status \in {401, 429} => outcome[r] = "none"
    /\ stage[r] = "answered" => (r \in granted <=> outcome[r] = "returned" /\ Provides(r))
    /\ env["THROTTLE_LIMIT"] # "digits" =>
           stage[r] \in {"idle", "throttle", "answered"} /\ outcome[r] = "none"

IInv == TypeOK /\ SettingsOK /\ \A r \in Request : RequestOK(r)

-----------------------------------------------------------------------------
(* The settings.                                                           *)

\* Each setting of an environment is converted to one of the values listed.
LEMMA ConvertedValue ==
    ASSUME NEW s \in ExampleSettings, env[s] \in RawOf(s) \cup {"digits"}
    PROVE  Converted(s) \in Values
<1>1. CASE env[s] = "unset"
  BY <1>1 DEF Converted, Default, Values
<1>2. CASE env[s] # "unset" /\ s \in Booleans
  BY <1>2 DEF Converted, Values, Booleans, Numbers
<1>3. CASE env[s] # "unset" /\ s \in Numbers /\ s \notin Booleans
  <2>1. env[s] \in {"empty", "word", "digits"}
    BY <1>3 DEF RawOf, Numbers, Booleans
  <2>2. Converted(s) = ToNumber[env[s]]
    BY <1>3 DEF Converted
  <2>3. QED
    BY <2>1, <2>2 DEF ToNumber, Values
<1>4. CASE env[s] # "unset" /\ s \notin Booleans /\ s \notin Numbers
  <2>1. Converted(s) = IF env[s] \in {"empty", "production"} THEN env[s] ELSE "word"
    BY <1>4 DEF Converted
  <2>2. QED
    BY <2>1 DEF Values
<1>5. QED
  BY <1>1, <1>2, <1>3, <1>4

\* A THROTTLE_LIMIT that is valid but not digits is the empty one, which counts as 0.
LEMMA EmptyLimit ==
    ASSUME env["THROTTLE_LIMIT"] \in RawOf("THROTTLE_LIMIT") \cup {"digits"}, env["THROTTLE_LIMIT"] # "digits",
           Valid("THROTTLE_LIMIT", Converted("THROTTLE_LIMIT"))
    PROVE  Converted("THROTTLE_LIMIT") = "zero"
<1>1. env["THROTTLE_LIMIT"] \in {"unset", "empty", "word"}
  BY DEF RawOf, Booleans
<1>2. CASE env["THROTTLE_LIMIT"] = "unset"
  BY <1>2 DEF Converted, Default, Valid, Optional
<1>3. CASE env["THROTTLE_LIMIT"] \in {"empty", "word"}
  <2>1. Converted("THROTTLE_LIMIT") = ToNumber[env["THROTTLE_LIMIT"]]
    BY <1>3 DEF Converted, Booleans, Numbers
  <2>2. QED
    BY <1>3, <2>1 DEF ToNumber, Valid, Optional
<1>4. QED
  BY <1>1, <1>2, <1>3

\* A construction of the settings leaves them as the environment says, or ends the process.
LEMMA ConstructInv ==
    ASSUME EnvironmentTypeOK, SettingsOK, NEW k \in Constructions, Construct(k)
    PROVE  EnvironmentTypeOK' /\ SettingsOK'
<1> DEFINE made == [s \in SettingsOf(k) |-> Converted(s)]
<1>1. /\ boot = BootAt(k) /\ env' = env
      /\ k = 1 \/ k = 2 \/ k = 3
      /\ SettingsOf(k) \subseteq ExampleSettings
  BY DEF Construct, Constructions, SettingsOf, ExampleSettings
<1>2. CASE /\ \A s \in SettingsOf(k) : Valid(s, made[s])
           /\ view' = [view EXCEPT ![k] = made] /\ boot' = NextBoot(k)
           /\ template' = (template \/ made["NODE_ENV"] # "production")
           /\ process' = process
  <2>1. made \in [SettingsOf(k) -> Values]
    BY <1>1, ConvertedValue DEF SettingsOK
  <2>2. view'[k] = made /\ \A j \in Constructions : j # k => view'[j] = view[j]
    BY <1>2 DEF SettingsOK
  <2>3. EnvironmentTypeOK'
    <3>1. boot' \in Boots
      BY <1>1, <1>2 DEF NextBoot, Boots
    <3>2. template' \in BOOLEAN
      BY <1>2 DEF EnvironmentTypeOK
    <3>3. \A j \in Constructions : view'[j] = NoView \/ view'[j] \in [SettingsOf(j) -> Values]
      <4> HIDE DEF made
      <4>1. QED
        BY <2>1, <2>2 DEF EnvironmentTypeOK
    <3>4. QED
      BY <1>1, <1>2, <3>1, <3>2, <3>3 DEF EnvironmentTypeOK
  <2>4. \A s : Converted(s)' = Converted(s)
    BY <1>1 DEF Converted
  <2>5. ASSUME NEW j \in Constructions, Built(j)'
        PROVE  /\ view'[j] = [s \in SettingsOf(j) |-> Converted(s)]
               /\ \A s \in SettingsOf(j) : Valid(s, Converted(s))
    <3>1. CASE j = k
      BY <1>2, <2>2, <3>1
    <3>2. CASE j # k
      <4>1. Built(j)
        BY <1>1, <1>2, <2>5, <3>2 DEF Built, BootAt, NextBoot, Constructions
      <4>2. QED
        BY <2>2, <3>2, <4>1 DEF SettingsOK
    <3>3. QED
      BY <3>1, <3>2
  <2>6. boot' # "serving"
    BY <1>1, <1>2 DEF NextBoot
  <2>7. DOMAIN view' = Constructions /\ view' = [j \in Constructions |-> view'[j]]
    BY <1>2 DEF SettingsOK
  <2>8. \A s \in ExampleSettings : env'[s] \in RawOf(s) \cup {"digits"}
    BY <1>1 DEF SettingsOK
  <2>9. QED
    BY <2>3, <2>4, <2>5, <2>6, <2>7, <2>8 DEF SettingsOK
<1>3. CASE process' = "exited" /\ UNCHANGED <<boot, view, template>>
  BY <1>1, <1>3 DEF EnvironmentTypeOK, SettingsOK, Built, Converted, Configured
<1>4. QED
  BY <1>2, <1>3 DEF Construct

\* So does every step of the boot; the requests are not concerned.
LEMMA EnvironmentInv ==
    ASSUME EnvironmentTypeOK, SettingsOK, EnvironmentNext
    PROVE  EnvironmentTypeOK' /\ SettingsOK' /\ env' = env
<1>1. CASE Constructing
  BY <1>1, ConstructInv DEF Constructing, Construct
<1>2. ASSUME UNCHANGED <<env, boot, view>>, template' \in BOOLEAN, process' \in {"up", "exited"}
      PROVE  EnvironmentTypeOK' /\ SettingsOK' /\ env' = env
  BY <1>2 DEF EnvironmentTypeOK, SettingsOK, Built, Converted, Configured
<1>3. CASE TemplateWritten \/ TemplateFails \/ CreateFails
  BY <1>2, <1>3 DEF TemplateWritten, TemplateFails, CreateFails, EnvironmentTypeOK
<1>4. CASE Serve
  <2>1. boot = "create" /\ boot' = "serving" /\ Configured /\ UNCHANGED <<env, view, template, process>>
    BY <1>4 DEF Serve
  <2>2. EnvironmentTypeOK'
    BY <2>1 DEF EnvironmentTypeOK, Boots
  <2>3. \A k \in Constructions : Built(k)
    BY <2>1 DEF Built, BootAt, Constructions
  <2>4. QED
    BY <2>1, <2>2, <2>3 DEF SettingsOK, Converted, Configured
<1>5. QED
  BY <1>1, <1>3, <1>4 DEF EnvironmentNext

\* A process that serves has counted with what the environment says.
LEMMA ServingView ==
    ASSUME SettingsOK, Serving
    PROVE  /\ \A k \in Constructions :
                  /\ view[k] = [s \in SettingsOf(k) |-> Converted(s)]
                  /\ \A s \in SettingsOf(k) : Valid(s, Converted(s))
           /\ env["THROTTLE_LIMIT"] # "digits" => view[3]["THROTTLE_LIMIT"] = "zero"
<1>1. \A k \in Constructions : Built(k)
  BY DEF Serving, Built, BootAt, Constructions
<1>2. /\ 3 \in Constructions /\ SettingsOf(3) = ExampleSettings
      /\ "THROTTLE_LIMIT" \in ExampleSettings
  BY DEF Constructions, SettingsOf, ExampleSettings
<1>3. \A k \in Constructions :
          /\ view[k] = [s \in SettingsOf(k) |-> Converted(s)]
          /\ \A s \in SettingsOf(k) : Valid(s, Converted(s))
  BY <1>1 DEF SettingsOK
<1>4. view[3]["THROTTLE_LIMIT"] = Converted("THROTTLE_LIMIT")
  BY <1>2, <1>3
<1>5. QED
  BY <1>2, <1>3, <1>4, EmptyLimit DEF SettingsOK

-----------------------------------------------------------------------------
(* The requests.                                                           *)

\* A step of one request leaves the others as they are.
LEMMA OthersOK ==
    ASSUME TypeOK, NEW r \in Request, NEW q \in Request, q # r, RequestOK(q), env' = env,
           stage'[q] = stage[q], call'[q] = call[q], outcome'[q] = outcome[q],
           answer'[q] = answer[q], q \in granted' <=> q \in granted
    PROVE  RequestOK(q)'
BY DEF RequestOK, Provides

\* Which settings there are and what they hold does not depend on the requests.
LEMMA SettingsUnchanged ==
    ASSUME EnvironmentTypeOK, SettingsOK, UNCHANGED <<env, boot, view, template>>,
           process' \in {"up", "exited"}
    PROVE  EnvironmentTypeOK' /\ SettingsOK'
BY DEF EnvironmentTypeOK, SettingsOK, Built, Converted, Configured

\* A request that is refused has done nothing.
LEMMA RefuseStep ==
    ASSUME IInv, NEW r \in Request, NEW status \in {401, 429, 500}, Refuse(r, status),
           stage[r] \notin {"grant", "answered"},
           UNCHANGED <<environment, outcome, granted, session>>,
           hits' \in [Endpoints -> 0..(Limit + 1)], inserting' \subseteq Request \X Places
    PROVE  IInv'
<1>1. /\ answer' = [answer EXCEPT ![r] = [status |-> status, code |-> "none"]]
      /\ stage' = [stage EXCEPT ![r] = "answered"]
      /\ call' = [call EXCEPT ![r].credential = "none"]
      /\ seen' = [seen EXCEPT ![r] = {}]
      /\ UNCHANGED <<env, boot, view, template, process>>
  BY DEF Refuse, Goto, Forget, environment
<1>2. TypeOK'
  <2>1. EnvironmentTypeOK'
    BY <1>1, SettingsUnchanged DEF IInv, TypeOK, EnvironmentTypeOK
  <2>2. stage' \in [Request -> Stages] /\ seen' \in [Request -> SUBSET Permissions]
    BY <1>1 DEF IInv, TypeOK, Stages
  <2>3. call' \in [Request -> [endpoint : Endpoints, credential : Credentials]]
    BY <1>1 DEF IInv, TypeOK, Credentials
  <2>4. answer' \in [Request -> [status : {0, 200, 400, 401, 429, 500}, code : Codes]]
    BY <1>1 DEF IInv, TypeOK, Codes
  <2>5. QED
    BY <2>1, <2>2, <2>3, <2>4 DEF IInv, TypeOK
<1>3. SettingsOK'
  BY <1>1, SettingsUnchanged DEF IInv, TypeOK, EnvironmentTypeOK
<1>4. ASSUME NEW q \in Request PROVE RequestOK(q)'
  <2>1. CASE q = r
    <3>1. stage'[r] = "answered" /\ answer'[r].status = status /\ answer'[r].code = "none"
      BY <1>1 DEF IInv, TypeOK
    <3>2. outcome[r] = "none" /\ r \notin granted
      BY DEF IInv, RequestOK
    <3>3. QED
      BY <1>1, <2>1, <3>1, <3>2 DEF RequestOK
  <2>2. CASE q # r
    BY <1>1, <2>2, OthersOK DEF IInv, TypeOK
  <2>3. QED
    BY <2>1, <2>2
<1>5. QED
  BY <1>2, <1>3, <1>4 DEF IInv

\* A request that goes on before its handler has no outcome yet.
LEMMA AdvanceStep ==
    ASSUME IInv, NEW r \in Request, NEW s \in Stages, stage' = [stage EXCEPT ![r] = s],
           stage[r] \notin {"grant", "answered"}, s \notin {"grant", "answered"},
           env["THROTTLE_LIMIT"] # "digits" => s \in {"idle", "throttle"},
           call' \in [Request -> [endpoint : Endpoints, credential : Credentials]],
           \A q \in Request : q # r => call'[q] = call[q],
           seen' \in [Request -> SUBSET Permissions],
           hits' \in [Endpoints -> 0..(Limit + 1)],
           UNCHANGED <<environment, outcome, answer, granted, session, inserting>>
    PROVE  IInv'
<1>1. UNCHANGED <<env, boot, view, template, process>>
  BY DEF environment
<1>2. TypeOK'
  <2>1. EnvironmentTypeOK'
    BY <1>1, SettingsUnchanged DEF IInv, TypeOK, EnvironmentTypeOK
  <2>2. stage' \in [Request -> Stages]
    BY DEF IInv, TypeOK
  <2>3. QED
    BY <2>1, <2>2 DEF IInv, TypeOK
<1>3. SettingsOK'
  BY <1>1, SettingsUnchanged DEF IInv, TypeOK, EnvironmentTypeOK
<1>4. ASSUME NEW q \in Request PROVE RequestOK(q)'
  <2>1. CASE q = r
    <3>1. stage'[r] = s
      BY DEF IInv, TypeOK
    <3>2. outcome[r] = "none" /\ r \notin granted
      BY DEF IInv, RequestOK
    <3>3. QED
      BY <1>1, <2>1, <3>1, <3>2 DEF RequestOK
  <2>2. CASE q # r
    BY <1>1, <2>2, OthersOK DEF IInv, TypeOK
  <2>3. QED
    BY <2>1, <2>2
<1>5. QED
  BY <1>2, <1>3, <1>4 DEF IInv

\* The handler or the pipes have answered, truly, and not yet granted anything.
LEMMA RespondStep ==
    ASSUME IInv, NEW r \in Request, NEW o \in {"returned", "known", "unknown", "error"},
           NEW done \in {"none", o},
           stage[r] \in {"pipes", "handler"}, stage' = [stage EXCEPT ![r] = "grant"],
           answer' = [answer EXCEPT ![r] = [status |-> Status(o), code |-> Code(o)]],
           outcome' = [outcome EXCEPT ![r] = done], o = "returned" => done = o,
           inserting' \subseteq Request \X Places,
           UNCHANGED <<environment, call, seen, granted, session, hits>>
    PROVE  IInv'
<1>1. UNCHANGED <<env, boot, view, template, process>>
  BY DEF environment
<1>2. /\ Status(o) \in {200, 400, 500} /\ Code(o) \in Codes
      /\ Status(o) = 200 <=> o = "returned"
      /\ Code(o) = "SUCCESS" <=> o = "returned"
  BY DEF Status, Code, Codes
<1>3. TypeOK'
  <2>1. EnvironmentTypeOK'
    BY <1>1, SettingsUnchanged DEF IInv, TypeOK, EnvironmentTypeOK
  <2>2. stage' \in [Request -> Stages] /\ outcome' \in [Request -> Outcomes]
    BY DEF IInv, TypeOK, Stages, Outcomes
  <2>3. answer' \in [Request -> [status : {0, 200, 400, 401, 429, 500}, code : Codes]]
    BY <1>2 DEF IInv, TypeOK
  <2>4. QED
    BY <2>1, <2>2, <2>3 DEF IInv, TypeOK
<1>4. SettingsOK'
  BY <1>1, SettingsUnchanged DEF IInv, TypeOK, EnvironmentTypeOK
<1>5. ASSUME NEW q \in Request PROVE RequestOK(q)'
  <2>1. CASE q = r
    <3>1. /\ stage'[r] = "grant" /\ outcome'[r] = done
          /\ answer'[r].status = Status(o) /\ answer'[r].code = Code(o)
      BY DEF IInv, TypeOK
    <3>2. r \notin granted /\ env["THROTTLE_LIMIT"] = "digits"
      BY DEF IInv, RequestOK
    <3>3. QED
      BY <1>1, <1>2, <2>1, <3>1, <3>2 DEF RequestOK
  <2>2. CASE q # r
    BY <1>1, <2>2, OthersOK DEF IInv, TypeOK
  <2>3. QED
    BY <2>1, <2>2
<1>6. QED
  BY <1>3, <1>4, <1>5 DEF IInv

\* What no request's stage, outcome or answer is changed by.
LEMMA BesideStep ==
    ASSUME IInv, EnvironmentTypeOK', SettingsOK', env' = env,
           session' \in [live : BOOLEAN, permissions : SUBSET Permissions],
           hits' \in [Endpoints -> 0..(Limit + 1)], inserting' \subseteq Request \X Places,
           UNCHANGED <<stage, call, seen, outcome, answer, granted>>
    PROVE  IInv'
<1>1. TypeOK'
  BY DEF IInv, TypeOK
<1>2. \A q \in Request : RequestOK(q)'
  BY DEF IInv, RequestOK, Provides
<1>3. QED
  BY <1>1, <1>2 DEF IInv

\* Nothing has been constructed and no request has come in.
LEMMA InitInv == Init => IInv
<1> SUFFICES ASSUME Init PROVE IInv
  OBVIOUS
<1>1. \A s \in ExampleSettings : env[s] \in RawOf(s) \cup {"digits"} /\ env[s] \in Raw
  <2>1. PICK e \in [Varied -> Raw] :
            /\ \A s \in Varied : e[s] \in RawOf(s)
            /\ env = [s \in ExampleSettings |->
                         IF s \in Varied THEN e[s] ELSE IF s \in Booleans THEN "true" ELSE "digits"]
    BY DEF Init, EnvironmentInit
  <2>2. ASSUME NEW s \in ExampleSettings, s \notin Varied, s \in Booleans
        PROVE  env[s] \in RawOf(s) \cup {"digits"} /\ env[s] \in Raw
    BY <2>1, <2>2 DEF RawOf, Booleans, Raw
  <2>3. ASSUME NEW s \in ExampleSettings, s \notin Varied, s \notin Booleans
        PROVE  env[s] \in RawOf(s) \cup {"digits"} /\ env[s] \in Raw
    BY <2>1, <2>3 DEF RawOf, Raw
  <2>4. QED
    BY <2>1, <2>2, <2>3
<1>2. TypeOK
  <2>1. EnvironmentTypeOK
    <3>1. env \in [ExampleSettings -> Raw]
      BY <1>1 DEF Init, EnvironmentInit
    <3>2. QED
      BY <3>1 DEF Init, EnvironmentInit, EnvironmentTypeOK, Boots
  <2>2. QED
    BY <2>1, LimitAssumption
    DEF Init, TypeOK, Stages, Endpoints, Credentials, Outcomes, NoCall, NoAnswer, Codes
<1>3. SettingsOK
  <2>1. \A k \in Constructions : ~Built(k)
    BY DEF Init, EnvironmentInit, Built, BootAt, Constructions
  <2>2. QED
    BY <1>1, <2>1 DEF Init, EnvironmentInit, SettingsOK
<1>4. \A r \in Request : RequestOK(r)
  BY DEF Init, RequestOK
<1>5. QED
  BY <1>2, <1>3, <1>4 DEF IInv

\* The invariant is inductive: one step per action.
LEMMA NextInv == IInv /\ [Next]_all => IInv'
<1> SUFFICES ASSUME IInv, [Next]_all PROVE IInv'
  OBVIOUS
<1>t. /\ TypeOK /\ EnvironmentTypeOK /\ SettingsOK
      /\ \A r \in Request : RequestOK(r)
  BY DEF IInv, TypeOK
<1>e. UNCHANGED environment => EnvironmentTypeOK' /\ SettingsOK' /\ env' = env
  BY <1>t, SettingsUnchanged DEF EnvironmentTypeOK, environment
<1>1. CASE EnvironmentNext /\ UNCHANGED pipeline
  BY <1>t, <1>1, EnvironmentInv, BesideStep DEF pipeline, TypeOK
<1>2. ASSUME NEW r \in Request, NEW e \in Endpoints, NEW c \in Credentials, Arrive(r, e, c)
      PROVE  IInv'
  <2>1. /\ stage[r] = "idle" /\ stage' = [stage EXCEPT ![r] = "throttle"]
        /\ call' = [call EXCEPT ![r] = [endpoint |-> e, credential |-> c]]
        /\ UNCHANGED <<environment, seen, outcome, answer, granted, session, hits, inserting>>
    BY <1>2 DEF Arrive, At, Goto
  <2>2. /\ call' \in [Request -> [endpoint : Endpoints, credential : Credentials]]
        /\ \A q \in Request : q # r => call'[q] = call[q]
    BY <1>t, <2>1 DEF TypeOK
  <2>3. seen' \in [Request -> SUBSET Permissions] /\ hits' \in [Endpoints -> 0..(Limit + 1)]
    BY <1>t, <2>1 DEF TypeOK
  <2>4. "throttle" \in Stages
    BY DEF Stages
  <2>5. QED
    BY <2>1, <2>2, <2>3, <2>4, AdvanceStep
<1>3. ASSUME NEW r \in Request, Throttle(r) PROVE IInv'
  <2> DEFINE e == call[r].endpoint
  <2>1. /\ Serving /\ stage[r] = "throttle" /\ e \in Endpoints
        /\ hits' = [hits EXCEPT ![e] = IF @ > Limit THEN @ ELSE @ + 1]
        /\ UNCHANGED <<environment, outcome, granted, session, inserting>>
    BY <1>t, <1>3 DEF Throttle, At, TypeOK
  <2>2. hits' \in [Endpoints -> 0..(Limit + 1)] /\ hits'[e] > 0
    <3>1. hits \in [Endpoints -> 0..(Limit + 1)] /\ hits[e] \in 0..(Limit + 1)
      BY <1>t, <2>1 DEF TypeOK
    <3> HIDE DEF e
    <3>2. (IF hits[e] > Limit THEN hits[e] ELSE hits[e] + 1) \in 1..(Limit + 1)
      BY <3>1, LimitAssumption
    <3>3. hits'[e] \in 1..(Limit + 1)
      BY <2>1, <3>1, <3>2
    <3>4. QED
      BY <2>1, <3>1, <3>2, <3>3, LimitAssumption
  <2>3. CASE Exceeded(hits'[e]) /\ Refuse(r, 429)
    <3>1. inserting' \subseteq Request \X Places
      BY <1>t, <2>1 DEF TypeOK
    <3>2. QED
      BY <2>1, <2>2, <2>3, <3>1, RefuseStep
  <2>4. CASE /\ ~Exceeded(hits'[e])
             /\ Goto(r, IF e \in Guarded THEN "guard" ELSE "permission")
             /\ UNCHANGED <<answer, call, seen>>
    <3>1. env["THROTTLE_LIMIT"] = "digits"
      BY <1>t, <2>1, <2>2, <2>4, ServingView DEF Exceeded
    <3>2. /\ call' \in [Request -> [endpoint : Endpoints, credential : Credentials]]
          /\ seen' \in [Request -> SUBSET Permissions]
      BY <1>t, <2>4 DEF TypeOK
    <3>3. "guard" \in Stages /\ "permission" \in Stages
      BY DEF Stages
    <3>4. CASE e \in Guarded
      BY <2>1, <2>2, <2>4, <3>1, <3>2, <3>3, <3>4, AdvanceStep DEF Goto
    <3>5. CASE e \notin Guarded
      BY <2>1, <2>2, <2>4, <3>1, <3>2, <3>3, <3>5, AdvanceStep DEF Goto
    <3>6. QED
      BY <3>4, <3>5
  <2>5. QED
    BY <1>3, <2>3, <2>4 DEF Throttle
<1>4. ASSUME NEW r \in Request, ThrottleFails(r) \/ GuardRefuses(r) PROVE IInv'
  <2>1. /\ stage[r] \notin {"grant", "answered"}
        /\ Refuse(r, 500) \/ Refuse(r, 401)
        /\ UNCHANGED <<environment, outcome, granted, session, hits>>
        /\ inserting' = inserting \/ inserting' = inserting \cup {<<r, "guard">>}
    BY <1>4 DEF ThrottleFails, GuardRefuses, At, Log
  <2>2. inserting' \subseteq Request \X Places /\ hits' \in [Endpoints -> 0..(Limit + 1)]
    BY <1>t, <2>1 DEF TypeOK, Places
  <2>3. QED
    BY <2>1, <2>2, RefuseStep
<1>5. ASSUME NEW r \in Request, GuardAdmits(r) PROVE IInv'
  <2>1. /\ stage[r] = "guard" /\ stage' = [stage EXCEPT ![r] = "permission"]
        /\ seen' = [seen EXCEPT ![r] = session.permissions]
        /\ UNCHANGED <<environment, call, outcome, answer, granted, session, hits, inserting>>
    BY <1>5 DEF GuardAdmits, At, Goto
  <2>2. /\ call' \in [Request -> [endpoint : Endpoints, credential : Credentials]]
        /\ seen' \in [Request -> SUBSET Permissions] /\ hits' \in [Endpoints -> 0..(Limit + 1)]
    BY <1>t, <2>1 DEF TypeOK
  <2>3. "permission" \in Stages /\ env["THROTTLE_LIMIT"] = "digits"
    BY <1>t, <2>1 DEF Stages, RequestOK
  <2>4. QED
    BY <2>1, <2>2, <2>3, AdvanceStep
<1>6. ASSUME NEW r \in Request, Permission(r) PROVE IInv'
  <2>1. /\ stage[r] = "permission"
        /\ UNCHANGED <<environment, outcome, granted, session, hits, inserting>>
    BY <1>6 DEF Permission, At
  <2>2. inserting' \subseteq Request \X Places /\ hits' \in [Endpoints -> 0..(Limit + 1)]
    BY <1>t, <2>1 DEF TypeOK
  <2>3. CASE Refuse(r, 401)
    BY <2>1, <2>2, <2>3, RefuseStep
  <2>4. CASE Goto(r, "pipes") /\ Forget(r) /\ UNCHANGED answer
    <3>1. /\ stage' = [stage EXCEPT ![r] = "pipes"]
          /\ call' = [call EXCEPT ![r].credential = "none"]
          /\ seen' = [seen EXCEPT ![r] = {}]
      BY <2>4 DEF Goto, Forget
    <3>2. /\ call' \in [Request -> [endpoint : Endpoints, credential : Credentials]]
          /\ \A q \in Request : q # r => call'[q] = call[q]
      <4>1. call \in [Request -> [endpoint : Endpoints, credential : Credentials]]
        BY <1>t DEF TypeOK
      <4>2. [call[r] EXCEPT !.credential = "none"] \in [endpoint : Endpoints, credential : Credentials]
        BY <4>1 DEF Credentials
      <4>3. QED
        BY <3>1, <4>1, <4>2
    <3>3. seen' \in [Request -> SUBSET Permissions]
      BY <1>t, <3>1 DEF TypeOK
    <3>4. "pipes" \in Stages /\ env["THROTTLE_LIMIT"] = "digits"
      BY <1>t, <2>1 DEF Stages, RequestOK
    <3>5. QED
      BY <2>1, <2>2, <2>4, <3>1, <3>2, <3>3, <3>4, AdvanceStep
  <2>5. QED
    BY <1>6, <2>3, <2>4 DEF Permission
<1>7. ASSUME NEW r \in Request, Pipes(r) PROVE IInv'
  <2>1. /\ stage[r] = "pipes" /\ stage' = [stage EXCEPT ![r] = "handler"]
        /\ UNCHANGED <<environment, call, seen, outcome, answer, granted, session, hits, inserting>>
    BY <1>7 DEF Pipes, At, Goto
  <2>2. /\ call' \in [Request -> [endpoint : Endpoints, credential : Credentials]]
        /\ seen' \in [Request -> SUBSET Permissions] /\ hits' \in [Endpoints -> 0..(Limit + 1)]
    BY <1>t, <2>1 DEF TypeOK
  <2>3. "handler" \in Stages /\ env["THROTTLE_LIMIT"] = "digits"
    BY <1>t, <2>1 DEF Stages, RequestOK
  <2>4. QED
    BY <2>1, <2>2, <2>3, AdvanceStep
<1>8. ASSUME NEW r \in Request, PipesRefuse(r) PROVE IInv'
  <2>1. /\ stage[r] = "pipes" /\ stage' = [stage EXCEPT ![r] = "grant"]
        /\ answer' = [answer EXCEPT ![r] = [status |-> Status("unknown"), code |-> Code("unknown")]]
        /\ inserting' = inserting \cup {<<r, "error">>}
        /\ UNCHANGED <<environment, call, seen, outcome, granted, session, hits>>
    BY <1>8 DEF PipesRefuse, At, Goto, Log
  <2>2. inserting' \subseteq Request \X Places
    BY <1>t, <2>1 DEF TypeOK, Places
  <2>3. outcome' = [outcome EXCEPT ![r] = "none"]
    <3>1. outcome[r] = "none" /\ outcome \in [Request -> Outcomes]
      BY <1>t, <2>1 DEF RequestOK, TypeOK
    <3>2. QED
      BY <2>1, <3>1
  <2>4. QED
    BY <2>1, <2>2, <2>3, RespondStep
<1>9. ASSUME NEW r \in Request, Handle(r) PROVE IInv'
  <2>1. PICK o \in HandlerOutcomes(call[r].endpoint) :
            Finish(r, o) /\ inserting' = inserting \cup Rows(r, o)
    BY <1>9 DEF Handle
  <2>2. o \in {"returned", "known", "error"}
    BY <2>1 DEF HandlerOutcomes
  <2>3. inserting' \subseteq Request \X Places
    BY <1>t, <2>1 DEF TypeOK, Places, Rows
  <2>4. /\ stage[r] = "handler" /\ stage' = [stage EXCEPT ![r] = "grant"]
        /\ answer' = [answer EXCEPT ![r] = [status |-> Status(o), code |-> Code(o)]]
        /\ outcome' = [outcome EXCEPT ![r] = o]
        /\ UNCHANGED <<environment, call, seen, granted, session, hits>>
    BY <1>9, <2>1 DEF Handle, At, Goto, Finish
  <2>5. QED
    BY <2>2, <2>3, <2>4, RespondStep
<1>10. ASSUME NEW r \in Request, Grant(r) PROVE IInv'
  <2>1. /\ stage[r] = "grant" /\ r \notin granted
        /\ Grants(r) <=> outcome[r] = "returned" /\ Provides(r)
        /\ UNCHANGED <<env, boot, view, template, call, seen, outcome, answer, hits, inserting>>
    BY <1>t, <1>10 DEF Grant, At, Grants, RequestOK
  <2>2. CASE /\ stage' = [stage EXCEPT ![r] = "answered"] /\ process' = process
             /\ \/ ~Grants(r) /\ UNCHANGED <<session, granted>>
                \/ /\ Grants(r) /\ granted' = granted \cup {r}
                   /\ session' = [session EXCEPT !.permissions = @ \cup Provided(call[r].endpoint)]
    <3>1. EnvironmentTypeOK' /\ SettingsOK' /\ env' = env
      BY <1>e, <2>1, <2>2 DEF environment
    <3>2. session' \in [live : BOOLEAN, permissions : SUBSET Permissions]
      <4>1. Provided(call[r].endpoint) \subseteq Permissions
        BY DEF Provided, Permissions
      <4>2. session \in [live : BOOLEAN, permissions : SUBSET Permissions]
        BY <1>t DEF TypeOK
      <4>3. QED
        BY <2>2, <4>1, <4>2
    <3>3. stage' \in [Request -> Stages]
      BY <1>t, <2>2 DEF TypeOK, Stages
    <3>4. TypeOK'
      BY <1>t, <2>1, <2>2, <3>1, <3>2, <3>3 DEF TypeOK
    <3>5. ASSUME NEW q \in Request PROVE RequestOK(q)'
      <4>1. CASE q = r
        <5>1. stage'[r] = "answered" /\ (r \in granted' <=> Grants(r))
          BY <1>t, <2>1, <2>2 DEF TypeOK
        <5>2. env["THROTTLE_LIMIT"] = "digits" /\ RequestOK(r)
          BY <1>t, <2>1 DEF RequestOK
        <5>3. QED
          BY <2>1, <4>1, <5>1, <5>2 DEF RequestOK, Provides
      <4>2. CASE q # r
        BY <1>t, <2>1, <2>2, <4>2, OthersOK DEF TypeOK
      <4>3. QED
        BY <4>1, <4>2
    <3>6. QED
      BY <3>1, <3>4, <3>5 DEF IInv
  <2>3. CASE process' = "exited" /\ UNCHANGED <<session, granted, stage>>
    <3>1. EnvironmentTypeOK' /\ SettingsOK'
      BY <1>t, <2>1, <2>3, SettingsUnchanged
    <3>2. QED
      BY <1>t, <2>1, <2>3, <3>1, BesideStep DEF TypeOK
  <2>4. QED
    BY <1>10, <2>2, <2>3 DEF Grant, Goto
<1>11. CASE InsertSettles
  <2>1. PICK row \in inserting : inserting' = inserting \ {row}
    BY <1>11 DEF InsertSettles
  <2>2. QED
    BY <1>t, <1>e, <1>11, <2>1, BesideStep DEF InsertSettles, TypeOK
<1>12. CASE SessionEnds
  <2>1. session' \in [live : BOOLEAN, permissions : SUBSET Permissions]
    BY <1>12 DEF SessionEnds
  <2>2. QED
    BY <1>t, <1>e, <1>12, <2>1, BesideStep DEF SessionEnds, TypeOK
<1>13. ASSUME NEW e \in Endpoints, WindowEnds(e) PROVE IInv'
  <2>1. hits' \in [Endpoints -> 0..(Limit + 1)]
    BY <1>t, <1>13, LimitAssumption DEF WindowEnds, TypeOK
  <2>2. QED
    BY <1>t, <1>e, <1>13, <2>1, BesideStep DEF WindowEnds, TypeOK
<1>14. CASE UNCHANGED all
  BY <1>t, <1>e, <1>14, BesideStep DEF all, pipeline, TypeOK
<1>15. QED
  BY <1>1, <1>2, <1>3, <1>4, <1>5, <1>6, <1>7, <1>8, <1>9, <1>10, <1>11, <1>12, <1>13, <1>14
  DEF Next, Advance, Before, Within

\* IInv holds in every reachable state.
LEMMA Invariant == Spec => []IInv
BY InitInv, NextInv, PTL DEF Spec

-----------------------------------------------------------------------------
(* The theorems.                                                           *)

\* Settings and requests are well typed in every reachable state.
THEOREM TypeCorrect == Spec => []TypeOK
<1>1. IInv => TypeOK
  BY DEF IInv
<1>2. QED
  BY Invariant, <1>1, PTL

\* A process that serves has every setting, the same in each construction of them, for
\* any environment.
THEOREM SettingsServed == Spec => []ServesConfigured
<1>1. IInv => ServesConfigured
  <2> SUFFICES ASSUME IInv, Serving
               PROVE  /\ \A s \in CoreSettings : view[1][s] = view[2][s] /\ view[2][s] = view[3][s]
                      /\ \A s \in ExampleSettings \ Optional : view[3][s] \notin {"undefined", "NaN"}
                      /\ env["REDIS_SSL_ENABLED"] = "true" => env["REDIS_SSL_CA_CERT_PATH"] # "unset"
    BY DEF ServesConfigured
  <2>1. \A k \in Constructions : /\ view[k] = [s \in SettingsOf(k) |-> Converted(s)]
                                 /\ \A s \in SettingsOf(k) : Valid(s, Converted(s))
    BY ServingView DEF IInv
  <2>2. /\ SettingsOf(1) = CoreSettings /\ SettingsOf(2) = ExampleSettings
        /\ SettingsOf(3) = ExampleSettings /\ CoreSettings \subseteq ExampleSettings
        /\ 1 \in Constructions /\ 2 \in Constructions /\ 3 \in Constructions
    BY DEF SettingsOf, Constructions, ExampleSettings
  <2>3. \A k \in Constructions : \A s \in SettingsOf(k) : view[k][s] = Converted(s)
    <3>1. ASSUME NEW k \in Constructions, NEW s \in SettingsOf(k) PROVE view[k][s] = Converted(s)
      <4>1. view[k] = [t \in SettingsOf(k) |-> Converted(t)]
        BY <2>1
      <4>2. QED
        BY <4>1
    <3>2. QED
      BY <3>1
  <2>4. /\ \A s \in CoreSettings : view[1][s] = view[2][s] /\ view[2][s] = view[3][s]
        /\ \A s \in ExampleSettings : view[3][s] = Converted(s) /\ Valid(s, Converted(s))
    <3>1. \A s \in CoreSettings : view[1][s] = Converted(s)
      BY <2>2, <2>3
    <3>2. \A s \in ExampleSettings : view[2][s] = Converted(s) /\ view[3][s] = Converted(s)
      BY <2>2, <2>3
    <3>3. \A s \in ExampleSettings : Valid(s, Converted(s))
      BY <2>1, <2>2
    <3>4. QED
      BY <2>2, <3>1, <3>2, <3>3
  <2>5. \A s \in ExampleSettings \ Optional : view[3][s] \notin {"undefined", "NaN"}
    BY <2>4 DEF Valid
  <2>6. ASSUME env["REDIS_SSL_ENABLED"] = "true" PROVE env["REDIS_SSL_CA_CERT_PATH"] # "unset"
    <3>1. /\ "REDIS_SSL_ENABLED" \in ExampleSettings
          /\ "REDIS_SSL_CA_CERT_PATH" \in ExampleSettings
      BY DEF ExampleSettings, CoreSettings
    <3>2. Converted("REDIS_SSL_ENABLED") = "true"
      BY <2>6 DEF Converted, Booleans, Numbers
    <3>3. view[3]["REDIS_SSL_CA_CERT_PATH"] = "word"
      BY <2>4, <3>1, <3>2 DEF IInv, SettingsOK, Serving, Configured
    <3>4. env["REDIS_SSL_CA_CERT_PATH"] = "unset" => Converted("REDIS_SSL_CA_CERT_PATH") = "empty"
      BY DEF Converted, Default, Booleans
    <3>5. QED
      BY <2>4, <3>1, <3>3, <3>4
  <2>7. QED
    BY <2>4, <2>5, <2>6
<1>2. QED
  BY Invariant, <1>1, PTL

\* An endpoint's permissions are granted exactly when its handler returned, for any number
\* of overlapping requests and whatever ends the session.
THEOREM GrantsFollowSuccess == Spec => []GrantIffSuccess
<1>1. IInv => GrantIffSuccess
  BY DEF IInv, RequestOK, GrantIffSuccess
<1>2. QED
  BY Invariant, <1>1, PTL

\* Every answer tells, by its status and by its systemCode, whether the handler returned.
THEOREM AnswersTell == Spec => []AnswerTellsOutcome
<1>1. IInv => AnswerTellsOutcome
  BY DEF IInv, RequestOK, AnswerTellsOutcome
<1>2. QED
  BY Invariant, <1>1, PTL

\* Without a THROTTLE_LIMIT in digits no handler ever runs.
THEOREM ThrottleCloses == Spec => []ThrottleFailsClosed
<1>1. IInv => ThrottleFailsClosed
  BY DEF IInv, RequestOK, ThrottleFailsClosed
<1>2. QED
  BY Invariant, <1>1, PTL
=============================================================================
