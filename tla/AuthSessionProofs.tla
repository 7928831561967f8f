-------------------------- MODULE AuthSessionProofs --------------------------
(***************************************************************************)
(* Proofs about AuthSession, for any number of requests, users, ticks and  *)
(* failures: type correctness, the revocation properties, the               *)
(* implementation of SessionLifecycle, what rewrites of SESSION records    *)
(* preserve, and what clients that wait for each answer can rely on.       *)
(***************************************************************************)
EXTENDS AuthSession, TLAPS

\* Rewriting a SESSION record gives a SESSION record.
LEMMA StoredType ==
    ASSUME NEW s \in Session, NEW ttl \in Int, now \in Nat
    PROVE  Stored(s, ttl) \in Session
BY DEF Stored, Session

\* A flow value merged into a SESSION record gives a SESSION record.
LEMMA MergeFlowType ==
    ASSUME NEW s \in Session, NEW r \in Requests
    PROVE  MergeFlow(r, s) \in Session
<1>1. s.flow \in FlowSession
  BY DEF Session
<1>2. CASE kind[r] = "requestOtp"
  BY <1>2 DEF MergeFlow, Session, FlowSession
<1>3. CASE kind[r] # "requestOtp"
  <2>1. [s.flow EXCEPT !.entry = IF @ = "absent" THEN "bare" ELSE @] \in FlowSession
    BY <1>1 DEF FlowSession
  <2>2. QED
    BY <1>3, <2>1 DEF MergeFlow, Session
<1>4. QED
  BY <1>2, <1>3

\* Adding what an endpoint provides to a SESSION record gives a SESSION record.
LEMMA GrantType ==
    ASSUME NEW s \in Session, NEW r \in Requests
    PROVE  Grant(r, s) \in Session
<1>1. /\ ProvidePermissions(kind[r]) \subseteq USER_PERMISSION
      /\ ProvideFlowPermissions(kind[r]) \subseteq SIGN_CONTRACT_FLOW_PERMISSION
  BY DEF ProvidePermissions, ProvideFlowPermissions, USER_PERMISSION,
         SIGN_CONTRACT_FLOW_PERMISSION
<1>2. s.flow \in FlowSession
  BY DEF Session
<1>3. [s.flow EXCEPT !.permissions = @ \cup ProvideFlowPermissions(kind[r])] \in FlowSession
  BY <1>1, <1>2 DEF FlowSession
<1>4. QED
  BY <1>1, <1>3 DEF Grant, Session

\* What a request may write: a login a new record; addFlowSession and a grant the record
\* read, changed, with the ttl computed when the command was sent.
NewWritten(r, t)   == \E sent \in Sent(r) : t = NewSession(sent)
FlowWritten(r, t)  == \E sent \in Sent(r) : t = Stored(MergeFlow(r, buf[r]), Ttl(buf[r], sent))
GrantWritten(r, t) == \E sent \in Sent(r) : t = Stored(Grant(r, buf[r]), Ttl(buf[r], sent))

\* The record a login writes is a SESSION record, without permissions or flow, that Redis
\* drops no earlier than its exp.
LEMMA NewWrittenType ==
    ASSUME TypeOK, NEW r \in Requests, NEW t, NewWritten(r, t)
    PROVE  /\ t \in Session /\ t # NoSession
           /\ t.exp - Lifetime \in asked[r]..now /\ t.exp <= t.deadline
           /\ t.permissions = {} /\ t.flow = NoFlow
<1> DEFINE S(e) == [exp |-> e, deadline |-> 0, permissions |-> {}, flow |-> NoFlow]
<1>1. PICK sent \in Sent(r) : t = NewSession(sent)
  BY DEF NewWritten
<1>2. sent \in asked[r]..now /\ asked[r] \in Nat /\ now \in Nat /\ Lifetime \in Nat
  BY LifetimeAssumption DEF Sent, TypeOK
<1>3. sent + Lifetime \in Int /\ sent <= now
  BY <1>2
<1>4. S(sent + Lifetime) \in Session
  BY <1>3 DEF Session, FlowSession, NoFlow
<1>5. t = [S(sent + Lifetime) EXCEPT !.deadline = now + Lifetime]
  BY <1>1 DEF NewSession, Stored
<1>6. /\ t.exp = sent + Lifetime /\ t.deadline = now + Lifetime
      /\ t.permissions = {} /\ t.flow = NoFlow
  BY <1>5
<1>7. now + Lifetime \in Int /\ t.exp - Lifetime = sent
  BY <1>2, <1>6
<1>8. t \in Session
  BY <1>4, <1>5, <1>7 DEF Session
<1>9. QED
  BY <1>2, <1>3, <1>6, <1>7, <1>8, NoSessionAssumption

\* A rewrite of a record read is a SESSION record.
LEMMA WrittenType ==
    ASSUME TypeOK, NEW r \in Requests, buf[r] \in Session, NEW t,
           FlowWritten(r, t) \/ GrantWritten(r, t)
    PROVE  t \in Session /\ t # NoSession
<1>1. PICK sent \in Sent(r) : \/ t = Stored(MergeFlow(r, buf[r]), Ttl(buf[r], sent))
                              \/ t = Stored(Grant(r, buf[r]), Ttl(buf[r], sent))
  BY DEF FlowWritten, GrantWritten
<1>2. sent \in Int /\ now \in Nat
  BY DEF Sent, TypeOK
<1>3. Ttl(buf[r], sent) \in Int
  BY <1>2 DEF Ttl, Session
<1>4. QED
  BY <1>1, <1>2, <1>3, StoredType, MergeFlowType, GrantType, NoSessionAssumption

-----------------------------------------------------------------------------
\* TypeOK is not inductive by itself: a request past the guard indexes session by its
\* sid, and one about to write back rewrites what it has read.
WithId == GuardStages \cup HandlerStages \cup GrantStages
Located ==
    /\ \A r \in Requests : pc[r] \in WithId => sid[r] \in Requests /\ kind[r] # "login"
    /\ \A r \in Requests : pc[r] \in {"flow_set", "grant_set"} => buf[r] \in Session
    /\ \A r \in Requests : pc[r] \in LoginStages => kind[r] = "login"

\* An empty store and idle requests are well formed.
LEMMA InitType == Init => TypeOK /\ Located
BY NullAssumption DEF Init, TypeOK, Located, Stages, Active, WithId, LoginStages,
   GuardStages, HandlerStages, GrantStages, Idle

\* The two ways in which the process ends.
Exits == Crash \/ \E r \in Requests : GrantThrows(r)

\* When the process ends, nothing changes but that work under way is given up: each
\* request under way becomes lost, or hung if it was its grant that threw.
LEMMA ExitStep ==
    ASSUME TypeOK, Located, Exits
    PROVE  /\ UNCHANGED <<now, redis, kind, user, sid, jwtExp, existing, history>>
           /\ TypeOK'
           /\ buf' = [r \in Requests |-> NoSession]
           /\ cleanup' = {}
           /\ \A r \in Requests :
                 \/ pc'[r] = pc[r] /\ pc[r] \notin Active
                 \/ pc'[r] = Lost /\ pc[r] \in Active
                 \/ pc'[r] = Hung /\ pc[r] \in GrantStages
<1> USE DEF ProcessExit, Stages, Terminal, redis, history
<1>1. CASE Crash
  BY <1>1 DEF Crash, TypeOK
<1>2. ASSUME NEW q \in Requests, GrantThrows(q)
      PROVE  pc' \in [Requests -> Stages] /\ \A r \in Requests :
                 \/ pc'[r] = pc[r] /\ pc[r] \notin Active
                 \/ pc'[r] = Lost /\ pc[r] \in Active
                 \/ pc'[r] = Hung /\ pc[r] \in GrantStages
  BY <1>2 DEF GrantThrows, TypeOK, At, Active, GrantStages, LoginStages, GuardStages,
     HandlerStages, Hung
<1>3. ASSUME NEW q \in Requests, GrantThrows(q)
      PROVE  /\ UNCHANGED <<now, redis, kind, user, sid, jwtExp, existing, history>>
             /\ buf' = [r \in Requests |-> NoSession] /\ cleanup' = {}
             /\ asked' = [r \in Requests |-> 0] /\ UNCHANGED faults
  BY <1>3 DEF GrantThrows
<1>4. ASSUME NEW q \in Requests, GrantThrows(q) PROVE TypeOK'
  BY <1>2, <1>3, <1>4 DEF TypeOK
<1>5. QED
  BY <1>1, <1>2, <1>3, <1>4 DEF Exits

\* A command that fails ends its request, and if it is of a grant the process; it leaves
\* everything else alone but what Redis may have done.
LEMMA FailStep ==
    ASSUME TypeOK, Located, NEW q \in Requests, RedisFails(q)
    PROVE  /\ UNCHANGED <<now, kind, user, sid, existing, late, prior, handled, round>>
           /\ TypeOK' /\ failed' = failed \cup {q} /\ cleanup' \subseteq cleanup
           /\ ExecutedUnheard(q) \/ UNCHANGED <<token, session, jwtExp, revoked>>
           /\ pc[q] \in Active /\ pc[q] # "login_revoke"
           /\ pc'[q] = Refused \/ (pc'[q] = Hung /\ pc[q] \in GrantStages)
           /\ \A r \in Requests \ {q} :
                 \/ pc'[r] = pc[r] /\ (pc[r] \in Active => buf'[r] = buf[r] /\ asked'[r] = asked[r])
                 \/ pc'[r] = Lost /\ pc[r] \in Active
<1> USE DEF TypeOK, redis, At
<1>1. /\ UNCHANGED <<now, kind, user, sid, existing, late, prior, handled, round>>
      /\ failed' = failed \cup {q} /\ faults' = faults + 1
      /\ pc[q] \in Active /\ pc[q] # "login_revoke"
      /\ ExecutedUnheard(q) \/ UNCHANGED <<token, session, jwtExp, revoked>>
  BY DEF RedisFails
<1>2. /\ token' \in [Requests -> Nat] /\ jwtExp' \in [Requests -> Nat] /\ revoked' \subseteq Requests
      /\ session' \in [Requests -> Session \cup {NoSession}]
  <2>1. CASE UNCHANGED <<token, session, jwtExp, revoked>>
    BY <2>1
  <2>2. CASE At(q, "login_issue") /\ AddToken(q) /\ UNCHANGED <<session, revoked>>
    BY <2>2, LifetimeAssumption DEF AddToken, Sent
  <2>3. CASE At(q, "login_session") /\ AddSession(q) /\ UNCHANGED <<token, jwtExp, revoked>>
    <3>1. PICK t : NewWritten(q, t) /\ session' = [session EXCEPT ![q] = t]
      BY <2>3 DEF AddSession, NewWritten
    <3>2. QED
      BY <2>3, <3>1, NewWrittenType
  <2>4. CASE At(q, "logout_token") /\ DelToken(q) /\ UNCHANGED <<session, jwtExp>>
    <3>1. sid[q] \in Requests
      BY <2>4 DEF Located, WithId, HandlerStages
    <3>2. QED
      BY <2>4, <3>1 DEF DelToken
  <2>5. CASE At(q, "logout_session") /\ DelSession(q) /\ UNCHANGED <<token, jwtExp, revoked>>
    BY <2>5 DEF DelSession
  <2>6. CASE /\ At(q, "flow_set") /\ Rewrite(q, MergeFlow(q, buf[q]))
             /\ UNCHANGED <<token, jwtExp, revoked>>
    <3>1. PICK t : FlowWritten(q, t) /\ session' = [session EXCEPT ![sid[q]] = t]
      BY <2>6 DEF Rewrite, FlowWritten
    <3>2. QED
      BY <2>6, <3>1, WrittenType DEF Located
  <2>7. CASE /\ At(q, "grant_set") /\ Rewrite(q, Grant(q, buf[q]))
             /\ UNCHANGED <<token, jwtExp, revoked>>
    <3>1. PICK t : GrantWritten(q, t) /\ session' = [session EXCEPT ![sid[q]] = t]
      BY <2>7 DEF Rewrite, GrantWritten
    <3>2. QED
      BY <2>7, <3>1, WrittenType DEF Located
  <2>8. QED
    BY <1>1, <2>1, <2>2, <2>3, <2>4, <2>5, <2>6, <2>7 DEF ExecutedUnheard
<1>3. CASE pc[q] \in GrantStages
  <2>1. ProcessExit([pc EXCEPT ![q] = Hung])
    BY <1>3 DEF RedisFails
  <2>2. /\ cleanup' = {} /\ buf' = [r \in Requests |-> NoSession]
        /\ asked' = [r \in Requests |-> 0]
        /\ pc' = [r \in Requests |->
                     IF [pc EXCEPT ![q] = Hung][r] \in Active THEN Lost ELSE [pc EXCEPT ![q] = Hung][r]]
    BY <2>1 DEF ProcessExit
  <2>3. Hung \notin Active /\ Hung \in Stages /\ Lost \in Stages
    BY DEF Hung, Lost, Active, LoginStages, GuardStages, HandlerStages, GrantStages, Stages, Terminal
  <2>4. pc' \in [Requests -> Stages]
    BY <2>2, <2>3
  <2>5. pc'[q] = Hung /\ \A r \in Requests \ {q} :
                              pc'[r] = IF pc[r] \in Active THEN Lost ELSE pc[r]
    BY <2>2, <2>3
  <2>6. QED
    BY <1>1, <1>2, <1>3, <2>2, <2>4, <2>5
<1>4. CASE pc[q] \notin GrantStages
  <2>1. /\ pc' = [pc EXCEPT ![q] = Refused] /\ cleanup' = cleanup
        /\ buf' = [buf EXCEPT ![q] = NoSession] /\ asked' = [asked EXCEPT ![q] = 0]
    BY <1>4 DEF RedisFails, Goto, Release
  <2>2. Refused \in Stages
    BY DEF Stages, Terminal
  <2>3. QED
    BY <1>1, <1>2, <2>1, <2>2
<1>5. QED
  BY <1>3, <1>4

\* What Redis may have done with the failed command of request q, to TOKEN records ...
UnheardToken(q) ==
    \/ UNCHANGED <<token, jwtExp, revoked>>
    \/ pc[q] = "login_issue" /\ AddToken(q) /\ UNCHANGED <<session, revoked>>
    \/ pc[q] = "logout_token" /\ DelToken(q) /\ UNCHANGED <<session, jwtExp>>

\* ... and to the SESSION record of an id.
UnheardRecord(q, i) ==
    \/ session'[i] = session[i]
    \/ pc[q] = "login_session" /\ i = q /\ NewWritten(q, session'[i])
    \/ pc[q] = "logout_session" /\ sid[q] = i /\ session'[i] = NoSession
    \/ pc[q] = "flow_set" /\ sid[q] = i /\ FlowWritten(q, session'[i])
    \/ pc[q] = "grant_set" /\ sid[q] = i /\ GrantWritten(q, session'[i])

\* A failed command did to Redis what the command does, or nothing.
LEMMA FailEffect ==
    ASSUME TypeOK, Located, NEW q \in Requests, RedisFails(q)
    PROVE  UnheardToken(q) /\ \A i \in Requests : UnheardRecord(q, i)
<1> USE DEF TypeOK, At
<1>1. CASE UNCHANGED <<token, session, jwtExp, revoked>>
  BY <1>1 DEF UnheardToken, UnheardRecord
<1>2. CASE \/ At(q, "login_issue") /\ AddToken(q) /\ UNCHANGED <<session, revoked>>
           \/ At(q, "logout_token") /\ DelToken(q) /\ UNCHANGED <<session, jwtExp>>
  BY <1>2 DEF UnheardToken, UnheardRecord
<1>3. CASE At(q, "login_session") /\ AddSession(q) /\ UNCHANGED <<token, jwtExp, revoked>>
  <2>1. PICK t : NewWritten(q, t) /\ session' = [session EXCEPT ![q] = t]
    BY <1>3 DEF AddSession, NewWritten
  <2>2. QED
    BY <1>3, <2>1 DEF UnheardToken, UnheardRecord
<1>4. CASE At(q, "logout_session") /\ DelSession(q) /\ UNCHANGED <<token, jwtExp, revoked>>
  BY <1>4 DEF DelSession, UnheardToken, UnheardRecord
<1>5. CASE /\ At(q, "flow_set") /\ Rewrite(q, MergeFlow(q, buf[q]))
           /\ UNCHANGED <<token, jwtExp, revoked>>
  <2>1. PICK t : FlowWritten(q, t) /\ session' = [session EXCEPT ![sid[q]] = t]
    BY <1>5 DEF Rewrite, FlowWritten
  <2>2. QED
    BY <1>5, <2>1 DEF UnheardToken, UnheardRecord
<1>6. CASE /\ At(q, "grant_set") /\ Rewrite(q, Grant(q, buf[q]))
           /\ UNCHANGED <<token, jwtExp, revoked>>
  <2>1. PICK t : GrantWritten(q, t) /\ session' = [session EXCEPT ![sid[q]] = t]
    BY <1>6 DEF Rewrite, GrantWritten
  <2>2. QED
    BY <1>6, <2>1 DEF UnheardToken, UnheardRecord
<1>7. QED
  BY <1>1, <1>2, <1>3, <1>4, <1>5, <1>6, FailStep DEF ExecutedUnheard

\* Every step keeps the types: one step per action.
LEMMA NextType == TypeOK /\ Located /\ [Next]_vars => TypeOK'
<1> SUFFICES ASSUME TypeOK, Located, [Next]_vars PROVE TypeOK'
  OBVIOUS
<1> USE DEF TypeOK, redis, request, history
<1>a. ASSUME NEW r \in Requests, NEW st \in Stages, Goto(r, st)
      PROVE  pc' \in [Requests -> Stages]
  BY <1>a DEF Goto
<1>s. /\ {Idle} \cup Active \cup Terminal = Stages
      /\ LoginStages \cup GuardStages \cup HandlerStages \cup GrantStages = Active
  BY DEF Stages, Active
<1>1. ASSUME NEW r \in Requests, LoginStart(r) PROVE TypeOK'
  BY <1>1, <1>a DEF LoginStart, Stages, Active, LoginStages
<1>2. ASSUME NEW r \in Requests, LoginKeys(r) PROVE TypeOK'
  BY <1>2, <1>a DEF LoginKeys, Stages, Active, LoginStages
<1>3. ASSUME NEW r \in Requests, LoginRevoke(r) PROVE TypeOK'
  BY <1>3, <1>a DEF LoginRevoke, Stages, Active, LoginStages
<1>4. ASSUME NEW r \in Requests, LoginIssue(r) PROVE TypeOK'
  BY <1>4, <1>a, LifetimeAssumption
  DEF LoginIssue, AddToken, Sent, Stages, Active, LoginStages
<1>5. ASSUME NEW r \in Requests, LoginSession(r) PROVE TypeOK'
  <2>1. PICK t : NewWritten(r, t) /\ session' = [session EXCEPT ![r] = t]
    BY <1>5 DEF LoginSession, AddSession, NewWritten
  <2>2. t \in Session /\ Answered \in Stages
    BY <2>1, NewWrittenType DEF Stages, Terminal
  <2>3. QED
    BY <1>5, <1>a, <2>1, <2>2 DEF LoginSession
<1>6. ASSUME NEW r \in Requests, NEW i \in Requests, ClearAuthSession(r, i) PROVE TypeOK'
  BY <1>6 DEF ClearAuthSession
<1>7. ASSUME NEW r \in Requests, NEW i \in Requests, Arrive(r, i) PROVE TypeOK'
  BY <1>7, <1>a DEF Arrive, Stages, Active, Terminal, GuardStages
<1>8. ASSUME NEW r \in Requests, GuardToken(r) PROVE TypeOK'
  BY <1>8, <1>a DEF GuardToken, Stages, Active, Terminal, GuardStages
<1>9. ASSUME NEW r \in Requests, GuardRefuse(r) PROVE TypeOK'
  BY <1>9, <1>a DEF GuardRefuse, Stages, Terminal
<1>10. ASSUME NEW r \in Requests, GuardAdmit(r) PROVE TypeOK'
  <2>1. AfterGuard(kind[r]) \in Stages
    BY DEF AfterGuard, AfterHandler, Stages, Active, Terminal, HandlerStages, GrantStages
  <2>2. session[sid[r]].flow.contract \in Requests \cup {NoRequest}
    <3>1. SessionLive(sid[r]) /\ sid[r] \in Requests
      BY <1>10 DEF GuardAdmit, Located, At, WithId, GuardStages
    <3>2. session[sid[r]] \in Session
      BY <3>1 DEF SessionLive
    <3>3. session[sid[r]].flow \in FlowSession
      BY <3>2 DEF Session
    <3>4. QED
      BY <3>3 DEF FlowSession
  <2>3. QED
    BY <1>10, <1>a, <2>1, <2>2 DEF GuardAdmit
<1>11. ASSUME NEW r \in Requests, LogoutToken(r) PROVE TypeOK'
  BY <1>11, <1>a DEF LogoutToken, DelToken, Located, At, WithId, Stages, Active, HandlerStages
<1>12. ASSUME NEW r \in Requests, LogoutSession(r) PROVE TypeOK'
  BY <1>12, <1>a DEF LogoutSession, DelSession, Stages, Terminal
<1>13. ASSUME NEW r \in Requests, FlowGet(r) PROVE TypeOK'
  BY <1>13, <1>a DEF FlowGet, Located, At, WithId, Stages, Active, Terminal, HandlerStages
<1>14. ASSUME NEW r \in Requests, FlowSet(r) PROVE TypeOK'
  <2>1. AfterHandler(kind[r]) \in Stages /\ Refused \in Stages
    BY DEF AfterHandler, Stages, Active, Terminal, GrantStages
  <2>2. session' \in [Requests -> Session \cup {NoSession}]
    <3>1. CASE Rewrite(r, MergeFlow(r, buf[r]))
      <4>1. PICK t : FlowWritten(r, t) /\ session' = [session EXCEPT ![sid[r]] = t]
        BY <3>1 DEF Rewrite, FlowWritten
      <4>2. QED
        BY <1>14, <4>1, WrittenType DEF FlowSet, Located, At
    <3>2. QED
      BY <1>14, <3>1 DEF FlowSet
  <2>3. QED
    BY <1>14, <1>a, <2>1, <2>2 DEF FlowSet, Release
<1>15. ASSUME NEW r \in Requests, GrantGet(r) PROVE TypeOK'
  BY <1>15, <1>a DEF GrantGet, Located, At, WithId, Stages, Active, Terminal, GrantStages
<1>16. ASSUME NEW r \in Requests, GrantSet(r) PROVE TypeOK'
  <2>1. PICK t : GrantWritten(r, t) /\ session' = [session EXCEPT ![sid[r]] = t]
    BY <1>16 DEF GrantSet, Rewrite, GrantWritten
  <2>2. t \in Session /\ Answered \in Stages
    BY <1>16, <2>1, WrittenType DEF GrantSet, Located, At, Stages, Terminal
  <2>3. QED
    BY <1>16, <1>a, <2>1, <2>2 DEF GrantSet, Release
<1>17. CASE Tick
  BY <1>17 DEF Tick
<1>18. CASE Exits
  BY <1>18, ExitStep
<1>f. ASSUME NEW q \in Requests, RedisFails(q) PROVE TypeOK'
  BY <1>f, FailStep
<1>19. CASE UNCHANGED vars
  BY <1>19 DEF vars
<1>20. QED
  BY <1>1, <1>2, <1>3, <1>4, <1>5, <1>6, <1>7, <1>8, <1>9, <1>10, <1>11, <1>12, <1>13,
     <1>14, <1>15, <1>16, <1>17, <1>18, <1>f, <1>19
     DEF Next, Advance, Login, Guard, Handler, PermissionGrant, Exits

\* Every step keeps Located.  Only a request's own steps move it to another stage.
LEMMA NextLocated == TypeOK /\ Located /\ [Next]_vars => Located'
<1> SUFFICES ASSUME TypeOK, Located, [Next]_vars PROVE Located'
  OBVIOUS
<1> USE DEF TypeOK, redis, request, history, At, Goto, Idle, Answered, Refused, Hung, Lost
<1>s. /\ WithId = {"guard_token", "guard_session", "logout_token", "logout_session",
                   "flow_get", "flow_set", "grant_get", "grant_set"}
      /\ LoginStages = {"login_keys", "login_revoke", "login_issue", "login_session"}
  BY DEF WithId, GuardStages, HandlerStages, GrantStages, LoginStages
<1>1. ASSUME NEW r \in Requests, LoginStart(r) \/ Login(r) PROVE Located'
  BY <1>1, <1>s DEF LoginStart, Login, LoginKeys, LoginRevoke, LoginIssue, LoginSession, Located
<1>2. ASSUME NEW r \in Requests, NEW i \in Requests, Arrive(r, i) PROVE Located'
  BY <1>2, <1>s DEF Arrive, Located
<1>3. ASSUME NEW r \in Requests, Guard(r) PROVE Located'
  <2>1. /\ AfterGuard(kind[r]) \in {Answered, "logout_token", "flow_get", "grant_get"}
    BY DEF AfterGuard, AfterHandler
  <2>2. QED
    BY <1>3, <1>s, <2>1 DEF Guard, GuardToken, GuardRefuse, GuardAdmit, Located
<1>4. ASSUME NEW r \in Requests, LogoutToken(r) \/ LogoutSession(r) PROVE Located'
  BY <1>4, <1>s DEF LogoutToken, LogoutSession, Located
<1>5. ASSUME NEW r \in Requests, FlowGet(r) \/ GrantGet(r) PROVE Located'
  BY <1>5, <1>s DEF FlowGet, GrantGet, SessionLive, Located
<1>6. ASSUME NEW r \in Requests, FlowSet(r) \/ GrantSet(r) PROVE Located'
  BY <1>6, <1>s DEF FlowSet, GrantSet, Release, AfterHandler, Located
<1>7. ASSUME NEW r \in Requests, NEW i \in Requests, ClearAuthSession(r, i) PROVE Located'
  BY <1>7 DEF ClearAuthSession, Located
<1>8. CASE Tick
  BY <1>8 DEF Tick, Located
<1>9. CASE Exits
  BY <1>9, <1>s, ExitStep DEF Located, Active, WithId
<1>f. ASSUME NEW q \in Requests, RedisFails(q) PROVE Located'
  <2>1. {"flow_set", "grant_set"} \subseteq Active
    BY DEF Active, HandlerStages, GrantStages
  <2>2. QED
    BY <1>f, <1>s, <2>1, FailStep DEF Located
<1>10. CASE UNCHANGED vars
  BY <1>10 DEF vars, Located
<1>11. QED
  BY <1>1, <1>2, <1>3, <1>4, <1>5, <1>6, <1>7, <1>8, <1>9, <1>f, <1>10
     DEF Next, Advance, Handler, PermissionGrant, Exits

\* The state stays well formed, whatever the requests, failures and expiries.
THEOREM TypeCorrect == Spec => []TypeOK
<1>1. TypeOK /\ Located /\ [Next]_vars => (TypeOK /\ Located)'
  BY NextType, NextLocated
<1>2. QED
  BY InitType, <1>1, PTL DEF Spec

-----------------------------------------------------------------------------
(* Revocation.  The argument is that a TOKEN record is written once, by the *)
(* login that draws its id, and before anything else knows the id; so once  *)
(* deleted it stays deleted.                                                *)

\* jwtExp[i] # 0 says that id i was issued: whoever refers to an id refers to an issued one.
Issued ==
    /\ \A r \in Requests :
          pc[r] \in {Idle, "login_keys", "login_revoke", "login_issue"} => jwtExp[r] = 0
    /\ \A r \in Requests : pc[r] = "login_session" \/ LoggedIn(r) => jwtExp[r] # 0
    /\ \A r \in Requests : sid[r] # NoRequest => jwtExp[sid[r]] # 0
    /\ \A r \in Requests : \A i \in existing[r] \cup prior[r] : jwtExp[i] # 0
    /\ \A i \in Requests : token[i] # 0 => jwtExp[i] # 0

\* A revoked id has no TOKEN record, and a late request carries a revoked id.
Deleted ==
    /\ \A i \in revoked : token[i] = 0 /\ jwtExp[i] # 0
    /\ \A r \in late : sid[r] \in revoked

\* KEYS finds every token of an earlier login that is still live.
Replaced ==
    /\ \A r \in Requests : \A i \in prior[r] : user[i] = user[r]
    /\ \A r \in Requests : pc[r] = "login_revoke" =>
          \A i \in prior[r] : TokenLive(i) => i \in existing[r]
    /\ \A r \in Requests : pc[r] = "login_issue" => \A i \in prior[r] : ~TokenLive(i)

Typed == TypeOK /\ Located

\* Before the first login nothing is issued, deleted or replaced.
LEMMA InitRevocation ==
    Init => Issued /\ Deleted /\ Replaced /\ NoAdmissionAfterRevocation /\ LaterLoginRevokesEarlier
BY NullAssumption DEF Init, Issued, Deleted, Replaced, NoAdmissionAfterRevocation,
   LaterLoginRevokesEarlier, LoggedIn, At, Idle, Answered

\* Every step keeps Issued: a token is live only under an id some login has issued.
LEMMA NextIssued == Typed /\ Issued /\ [Next]_vars => Issued'
<1> SUFFICES ASSUME Typed, Issued, [Next]_vars PROVE Issued'
  OBVIOUS
<1> USE DEF Typed, TypeOK, Issued, redis, request, history, At, Goto, LoggedIn, Idle,
            Answered, Refused, Hung, Lost
<1>s. /\ WithId = {"guard_token", "guard_session", "logout_token", "logout_session",
                   "flow_get", "flow_set", "grant_get", "grant_set"}
      /\ LoginStages = {"login_keys", "login_revoke", "login_issue", "login_session"}
  BY DEF WithId, GuardStages, HandlerStages, GrantStages, LoginStages
<1>1. ASSUME NEW r \in Requests, LoginStart(r) PROVE Issued'
  BY <1>1, <1>s DEF LoginStart
<1>2. ASSUME NEW r \in Requests, LoginKeys(r) PROVE Issued'
  BY <1>2, <1>s DEF LoginKeys, TokenLive
<1>3. ASSUME NEW r \in Requests, LoginRevoke(r) PROVE Issued'
  BY <1>3, <1>s DEF LoginRevoke
<1>4. ASSUME NEW r \in Requests, LoginIssue(r) PROVE Issued'
  BY <1>4, <1>s, LifetimeAssumption DEF LoginIssue, AddToken, Sent
<1>5. ASSUME NEW r \in Requests, LoginSession(r) PROVE Issued'
  BY <1>5, <1>s DEF LoginSession
<1>6. ASSUME NEW r \in Requests, NEW i \in Requests, Arrive(r, i) PROVE Issued'
  BY <1>6, <1>s DEF Arrive
<1>7. ASSUME NEW r \in Requests, Guard(r) PROVE Issued'
  <2>1. /\ AfterGuard(kind[r]) \in {Answered, "logout_token", "flow_get", "grant_get"}
    BY DEF AfterGuard, AfterHandler
  <2>2. QED
    BY <1>7, <1>s, <2>1 DEF Guard, GuardToken, GuardRefuse, GuardAdmit, Located
<1>8. ASSUME NEW r \in Requests, Handler(r) PROVE Issued'
  BY <1>8, <1>s
  DEF Handler, LogoutToken, DelToken, LogoutSession, FlowGet, FlowSet, AfterHandler, Located
<1>9. ASSUME NEW r \in Requests, GrantGet(r) \/ GrantSet(r) PROVE Issued'
  BY <1>9, <1>s DEF GrantGet, GrantSet, Located
<1>10. ASSUME NEW r \in Requests, NEW i \in Requests, ClearAuthSession(r, i) PROVE Issued'
  BY <1>10 DEF ClearAuthSession
<1>11. CASE Tick
  BY <1>11 DEF Tick
<1>12. CASE Exits
  BY <1>12, ExitStep
<1>f. ASSUME NEW q \in Requests, RedisFails(q) PROVE Issued'
  <2>1. CASE UNCHANGED <<token, jwtExp, revoked>>
    BY <1>f, <1>s, <2>1, FailStep DEF GrantStages
  <2>2. CASE pc[q] = "login_issue" /\ AddToken(q) /\ UNCHANGED <<session, revoked>>
    BY <1>f, <1>s, <2>2, FailStep, LifetimeAssumption DEF AddToken, Sent, GrantStages
  <2>3. CASE pc[q] = "logout_token" /\ DelToken(q) /\ UNCHANGED <<session, jwtExp>>
    BY <1>f, <1>s, <2>3, FailStep DEF DelToken, GrantStages
  <2>4. QED
    BY <1>f, <2>1, <2>2, <2>3, FailEffect DEF UnheardToken
<1>13. CASE UNCHANGED vars
  BY <1>13 DEF vars
<1>14. QED
  BY <1>1, <1>2, <1>3, <1>4, <1>5, <1>6, <1>7, <1>8, <1>9, <1>10, <1>11, <1>12, <1>f, <1>13
     DEF Next, Advance, Login, PermissionGrant, Exits

\* Every step keeps Deleted: a revoked id has no TOKEN record, since only its own login
\* could write one.
LEMMA NextDeleted ==
    Typed /\ Issued /\ Deleted /\ NoAdmissionAfterRevocation /\ [Next]_vars => Deleted'
<1> SUFFICES ASSUME Typed, Issued, Deleted, NoAdmissionAfterRevocation, [Next]_vars
             PROVE  Deleted'
  OBVIOUS
<1> USE DEF Typed, TypeOK, Deleted, redis, request, history, At
<1>1. ASSUME NEW r \in Requests, LoginStart(r) \/ LoginKeys(r) \/ LoginSession(r)
      PROVE  Deleted'
  BY <1>1 DEF LoginStart, LoginKeys, LoginSession
<1>2. ASSUME NEW r \in Requests, LoginRevoke(r) PROVE Deleted'
  BY <1>2 DEF LoginRevoke, Issued
<1>3. ASSUME NEW r \in Requests, LoginIssue(r) PROVE Deleted'
  BY <1>3, LifetimeAssumption DEF LoginIssue, AddToken, Issued
<1>4. ASSUME NEW r \in Requests, NEW i \in Requests, Arrive(r, i) PROVE Deleted'
  BY <1>4 DEF Arrive, NoAdmissionAfterRevocation, Idle, Refused, Lost
<1>5. ASSUME NEW r \in Requests, Guard(r) PROVE Deleted'
  BY <1>5 DEF Guard, GuardToken, GuardRefuse, GuardAdmit
<1>6. ASSUME NEW r \in Requests, LogoutToken(r) PROVE Deleted'
  <2>1. sid[r] \in Requests /\ jwtExp[sid[r]] # 0
    BY <1>6, NullAssumption DEF LogoutToken, Located, WithId, HandlerStages, Issued
  <2>2. QED
    BY <1>6, <2>1 DEF LogoutToken, DelToken
<1>7. ASSUME NEW r \in Requests, LogoutSession(r) \/ FlowGet(r) \/ FlowSet(r) \/ GrantGet(r) \/ GrantSet(r)
      PROVE  Deleted'
  BY <1>7 DEF LogoutSession, FlowGet, FlowSet, GrantGet, GrantSet
<1>8. ASSUME NEW r \in Requests, NEW i \in Requests, ClearAuthSession(r, i) PROVE Deleted'
  BY <1>8 DEF ClearAuthSession
<1>9. CASE Tick \/ Exits \/ UNCHANGED vars
  BY <1>9, ExitStep DEF Tick, vars
<1>f. ASSUME NEW q \in Requests, RedisFails(q) PROVE Deleted'
  <2>1. CASE UNCHANGED <<token, jwtExp, revoked>>
    BY <1>f, <2>1, FailStep
  <2>2. CASE pc[q] = "login_issue" /\ AddToken(q) /\ UNCHANGED <<session, revoked>>
    BY <1>f, <2>2, FailStep, LifetimeAssumption DEF AddToken, Issued
  <2>3. CASE pc[q] = "logout_token" /\ DelToken(q) /\ UNCHANGED <<session, jwtExp>>
    <3>1. sid[q] \in Requests /\ jwtExp[sid[q]] # 0
      BY <2>3, NullAssumption DEF Located, WithId, HandlerStages, Issued
    <3>2. QED
      BY <1>f, <2>3, <3>1, FailStep DEF DelToken
  <2>4. QED
    BY <1>f, <2>1, <2>2, <2>3, FailEffect DEF UnheardToken
<1>10. QED
  BY <1>1, <1>2, <1>3, <1>4, <1>5, <1>6, <1>7, <1>8, <1>9, <1>f
     DEF Next, Advance, Login, Handler, PermissionGrant, Exits

\* Every step keeps Replaced: a login under way has listed, or already deleted, every
\* live token of the logins answered before it began.
LEMMA NextReplaced == Typed /\ Issued /\ Replaced /\ [Next]_vars => Replaced'
<1> SUFFICES ASSUME Typed, Issued, Replaced, [Next]_vars PROVE Replaced'
  OBVIOUS
<1> USE DEF Typed, TypeOK, Replaced, TokenLive, redis, request, history, At, Goto, Idle,
            Answered, Refused, Hung, Lost
<1>s. /\ WithId = {"guard_token", "guard_session", "logout_token", "logout_session",
                   "flow_get", "flow_set", "grant_get", "grant_set"}
      /\ LoginStages = {"login_keys", "login_revoke", "login_issue", "login_session"}
  BY DEF WithId, GuardStages, HandlerStages, GrantStages, LoginStages
<1>1. ASSUME NEW r \in Requests, LoginStart(r) PROVE Replaced'
  BY <1>1 DEF LoginStart
<1>2. ASSUME NEW r \in Requests, LoginKeys(r) PROVE Replaced'
  BY <1>2 DEF LoginKeys
<1>3. ASSUME NEW r \in Requests, LoginRevoke(r) PROVE Replaced'
  BY <1>3 DEF LoginRevoke
<1>4. ASSUME NEW r \in Requests, LoginIssue(r) PROVE Replaced'
  BY <1>4, LifetimeAssumption DEF LoginIssue, AddToken, Issued
<1>5. ASSUME NEW r \in Requests, LoginSession(r) PROVE Replaced'
  BY <1>5 DEF LoginSession
<1>6. ASSUME NEW r \in Requests, NEW i \in Requests, Arrive(r, i) PROVE Replaced'
  BY <1>6 DEF Arrive
<1>7. ASSUME NEW r \in Requests, Guard(r) PROVE Replaced'
  <2>1. AfterGuard(kind[r]) \in {Answered, "logout_token", "flow_get", "grant_get"}
    BY DEF AfterGuard, AfterHandler
  <2>2. QED
    BY <1>7, <2>1 DEF Guard, GuardToken, GuardRefuse, GuardAdmit
<1>8. ASSUME NEW r \in Requests, Handler(r) PROVE Replaced'
  BY <1>8 DEF Handler, LogoutToken, DelToken, LogoutSession, FlowGet, FlowSet, AfterHandler
<1>9. ASSUME NEW r \in Requests, GrantGet(r) \/ GrantSet(r) PROVE Replaced'
  BY <1>9 DEF GrantGet, GrantSet
<1>10. ASSUME NEW r \in Requests, NEW i \in Requests, ClearAuthSession(r, i) PROVE Replaced'
  BY <1>10 DEF ClearAuthSession
<1>11. CASE Tick
  BY <1>11 DEF Tick
<1>12. CASE Exits
  <2>1. /\ UNCHANGED <<now, token, user, existing, prior>>
        /\ \A r \in Requests : pc'[r] \in {pc[r], Lost, Hung}
    BY <1>12, ExitStep
  <2>2. QED
    BY <2>1
<1>f. ASSUME NEW q \in Requests, RedisFails(q) PROVE Replaced'
  <2>0. /\ UNCHANGED <<now, user, existing, prior>>
        /\ pc'[q] \in {Refused, Hung}
        /\ \A r \in Requests : pc'[r] \in {pc[r], Refused, Hung, Lost}
    BY <1>f, FailStep
  <2>1. CASE UNCHANGED <<token, jwtExp, revoked>>
    BY <2>0, <2>1
  <2>2. CASE pc[q] = "login_issue" /\ AddToken(q) /\ UNCHANGED <<session, revoked>>
    <3>1. token' = [token EXCEPT ![q] = now + Lifetime]
      BY <2>2 DEF AddToken
    <3>2. ASSUME NEW r \in Requests, NEW i \in prior[r], pc'[r] \in {"login_revoke", "login_issue"}
          PROVE  pc[r] = pc'[r] /\ (token'[i] > now => i = q \/ token[i] > now)
      BY <2>0, <3>1, <3>2
    <3>3. \A r \in Requests : q \notin prior[r]
      BY <2>2 DEF Issued
    <3>4. QED
      BY <2>0, <3>2, <3>3
  <2>3. CASE pc[q] = "logout_token" /\ DelToken(q) /\ UNCHANGED <<session, jwtExp>>
    BY <2>0, <2>3 DEF DelToken
  <2>4. QED
    BY <1>f, <2>1, <2>2, <2>3, FailEffect DEF UnheardToken
<1>13. CASE UNCHANGED vars
  BY <1>13 DEF vars
<1>14. QED
  BY <1>1, <1>2, <1>3, <1>4, <1>5, <1>6, <1>7, <1>8, <1>9, <1>10, <1>11, <1>12, <1>f, <1>13
     DEF Next, Advance, Login, PermissionGrant, Exits

\* Every step keeps NoAdmissionAfterRevocation: a late request finds no TOKEN record.
LEMMA NextAdmission ==
    Typed /\ Deleted /\ NoAdmissionAfterRevocation /\ [Next]_vars => NoAdmissionAfterRevocation'
<1> SUFFICES ASSUME Typed, Deleted, NoAdmissionAfterRevocation, [Next]_vars
             PROVE  NoAdmissionAfterRevocation'
  OBVIOUS
<1> USE DEF Typed, TypeOK, NoAdmissionAfterRevocation, redis, request, history, At, Goto,
            Idle, Refused, Lost
<1>1. ASSUME NEW r \in Requests, LoginStart(r) \/ Login(r) PROVE NoAdmissionAfterRevocation'
  BY <1>1 DEF LoginStart, Login, LoginKeys, LoginRevoke, LoginIssue, LoginSession
<1>2. ASSUME NEW r \in Requests, NEW i \in Requests, Arrive(r, i)
      PROVE  NoAdmissionAfterRevocation'
  BY <1>2 DEF Arrive
<1>3. ASSUME NEW r \in Requests, GuardToken(r) PROVE NoAdmissionAfterRevocation'
  <2>1. r \in late => ~TokenLive(sid[r])
    BY DEF Deleted, TokenLive
  <2>2. QED
    BY <1>3, <2>1 DEF GuardToken
<1>4. ASSUME NEW r \in Requests, GuardRefuse(r) \/ GuardAdmit(r)
      PROVE  NoAdmissionAfterRevocation'
  BY <1>4 DEF GuardRefuse, GuardAdmit
<1>5. ASSUME NEW r \in Requests, Handler(r) PROVE NoAdmissionAfterRevocation'
  BY <1>5 DEF Handler, LogoutToken, LogoutSession, FlowGet, FlowSet
<1>6. ASSUME NEW r \in Requests, GrantGet(r) \/ GrantSet(r) PROVE NoAdmissionAfterRevocation'
  BY <1>6 DEF GrantGet, GrantSet
<1>7. ASSUME NEW r \in Requests, NEW i \in Requests, ClearAuthSession(r, i)
      PROVE  NoAdmissionAfterRevocation'
  BY <1>7 DEF ClearAuthSession
<1>8. CASE Tick \/ UNCHANGED vars
  BY <1>8 DEF Tick, vars
<1>9. CASE Exits
  BY <1>9, ExitStep DEF GrantStages
<1>f. ASSUME NEW q \in Requests, RedisFails(q) PROVE NoAdmissionAfterRevocation'
  BY <1>f, FailStep DEF GrantStages
<1>10. QED
  BY <1>1, <1>2, <1>3, <1>4, <1>5, <1>6, <1>7, <1>8, <1>9, <1>f
     DEF Next, Advance, Guard, PermissionGrant, Exits

\* Every step keeps LaterLoginRevokesEarlier: tokens of earlier logins stay dead.
LEMMA NextLater ==
    Typed /\ Issued /\ Replaced /\ LaterLoginRevokesEarlier /\ [Next]_vars
        => LaterLoginRevokesEarlier'
<1> SUFFICES ASSUME Typed, Issued, Replaced, LaterLoginRevokesEarlier, [Next]_vars
             PROVE  LaterLoginRevokesEarlier'
  OBVIOUS
<1> USE DEF Typed, TypeOK, LaterLoginRevokesEarlier, TokenLive, redis, request, history, At,
            Goto, Idle, Answered, Refused, Hung, Lost
<1>1. ASSUME NEW r \in Requests, LoginStart(r) \/ LoginKeys(r) PROVE LaterLoginRevokesEarlier'
  BY <1>1 DEF LoginStart, LoginKeys
<1>2. ASSUME NEW r \in Requests, LoginRevoke(r) PROVE LaterLoginRevokesEarlier'
  BY <1>2 DEF LoginRevoke
<1>3. ASSUME NEW r \in Requests, LoginIssue(r) PROVE LaterLoginRevokesEarlier'
  <2>1. \A q \in Requests : r \notin prior[q]
    BY <1>3 DEF LoginIssue, Issued
  <2>2. QED
    BY <1>3, <2>1 DEF LoginIssue, AddToken, Replaced
<1>4. ASSUME NEW r \in Requests, LoginSession(r) PROVE LaterLoginRevokesEarlier'
  BY <1>4 DEF LoginSession
<1>5. ASSUME NEW r \in Requests, NEW i \in Requests, Arrive(r, i)
      PROVE  LaterLoginRevokesEarlier'
  BY <1>5 DEF Arrive
<1>6. ASSUME NEW r \in Requests, Guard(r) PROVE LaterLoginRevokesEarlier'
  BY <1>6 DEF Guard, GuardToken, GuardRefuse, GuardAdmit, Located, WithId, GuardStages
<1>7. ASSUME NEW r \in Requests, Handler(r) PROVE LaterLoginRevokesEarlier'
  BY <1>7 DEF Handler, LogoutToken, DelToken, LogoutSession, FlowGet, FlowSet, Located, WithId,
     HandlerStages
<1>8. ASSUME NEW r \in Requests, GrantGet(r) \/ GrantSet(r) PROVE LaterLoginRevokesEarlier'
  BY <1>8 DEF GrantGet, GrantSet, Located, WithId, GrantStages
<1>9. ASSUME NEW r \in Requests, NEW i \in Requests, ClearAuthSession(r, i)
      PROVE  LaterLoginRevokesEarlier'
  BY <1>9 DEF ClearAuthSession
<1>10. CASE Tick \/ Exits \/ UNCHANGED vars
  BY <1>10, ExitStep DEF Tick, vars
<1>f. ASSUME NEW q \in Requests, RedisFails(q) PROVE LaterLoginRevokesEarlier'
  <2>1. pc[q] = "login_issue" => \A r \in Requests : q \notin prior[r]
    BY DEF Issued
  <2>2. QED
    BY <1>f, <2>1, FailStep, FailEffect DEF UnheardToken, AddToken, DelToken, GrantStages
<1>11. QED
  BY <1>1, <1>2, <1>3, <1>4, <1>5, <1>6, <1>7, <1>8, <1>9, <1>10, <1>f
     DEF Next, Advance, Login, PermissionGrant, Exits

\* The inductive invariant behind the revocation theorems.
Revocation ==
    Typed /\ Issued /\ Deleted /\ Replaced /\ NoAdmissionAfterRevocation
          /\ LaterLoginRevokesEarlier

\* The conjunction is inductive, so it holds in every reachable state.
LEMMA RevocationInvariant == Spec => []Revocation
<1>1. Init => Revocation
  BY InitType, InitRevocation DEF Revocation, Typed
<1>2. Revocation /\ [Next]_vars => Revocation'
  BY NextType, NextLocated, NextIssued, NextDeleted, NextReplaced, NextAdmission, NextLater
     DEF Revocation, Typed
<1>3. QED
  BY <1>1, <1>2, PTL DEF Spec

\* No request that arrives with a revoked session id passes the guard: whatever
\* read-modify-writes, un-awaited deletes, expiries and crashes come between.
THEOREM RevocationHolds == Spec => []NoAdmissionAfterRevocation
<1>1. Revocation => NoAdmissionAfterRevocation
  BY DEF Revocation
<1>2. QED
  BY <1>1, RevocationInvariant, PTL

\* A login that began after another of the same user was answered leaves that one's
\* token dead, for ever after.
THEOREM LaterLoginWins == Spec => []LaterLoginRevokesEarlier
<1>1. Revocation => LaterLoginRevokesEarlier
  BY DEF Revocation
<1>2. QED
  BY <1>1, RevocationInvariant, PTL

-----------------------------------------------------------------------------
(* AuthSession implements SessionLifecycle: every step opens an id, closes  *)
(* some, takes one into use, ends uses, or changes nothing of these.        *)

\* The mapping of a step that leaves the clock, the TOKEN records and the JWTs alone
\* leaves every status alone.
LEMMA SameStatus ==
    ASSUME UNCHANGED <<now, token, jwtExp>>
    PROVE  \A i \in Requests : Status(i)' = Status(i)
BY DEF Status, TokenLive

\* A request whose stage stays outside, or inside, the admitted ones keeps its id.
LEMMA StepUsing ==
    ASSUME NEW r \in Requests, TypeOK, sid' = sid, \A q \in Requests \ {r} : pc'[q] = pc[q]
    PROVE  \A q \in Requests \ {r} : Using(q)' = Using(q)
BY DEF Using, TypeOK

\* Every step of AuthSession is a step of SessionLifecycle or leaves its state alone.
LEMMA LifecycleStep == Typed /\ Issued /\ [Next]_vars => [Lifecycle!Next]_(Lifecycle!vars)
<1> SUFFICES ASSUME Typed, Issued, [Next]_vars PROVE [Lifecycle!Next]_(Lifecycle!vars)
  OBVIOUS
<1> DEFINE InUse == {"guard_session"} \cup HandlerStages \cup GrantStages
<1> USE DEF Typed, TypeOK, redis, request, history, At, Goto
<1>s. /\ InUse = {"guard_session", "logout_token", "logout_session",
                  "flow_get", "flow_set", "grant_get", "grant_set"}
      /\ Idle \notin InUse /\ Answered \notin InUse /\ Refused \notin InUse
      /\ Hung \notin InUse /\ Lost \notin InUse
      /\ LoginStages \cap InUse = {}
      /\ "guard_token" \notin InUse
  BY DEF HandlerStages, GrantStages, LoginStages, Idle, Answered, Refused, Hung, Lost
\* Same status for all, and each use kept or dropped: a Leave step.
<1>l. ASSUME \A i \in Requests : Status(i)' = Status(i),
             \A q \in Requests : Using(q)' = Using(q) \/ Using(q)' = NoRequest
      PROVE  Lifecycle!Next
  <2> DEFINE S == {q \in Requests : Using(q)' # Using(q)}
  <2>1. Lifecycle!Leave(S)
    BY <1>l DEF Lifecycle!Leave
  <2>2. QED
    BY <2>1 DEF Lifecycle!Next
\* Same uses, and statuses kept or closed: a Close step.
<1>c. ASSUME \A q \in Requests : Using(q)' = Using(q),
             \A i \in Requests : \/ Status(i)' = Status(i)
                                 \/ Status(i) = "open" /\ Status(i)' = "closed"
      PROVE  Lifecycle!Next
  <2> DEFINE S == {i \in Requests : Status(i)' # Status(i)}
  <2>1. Lifecycle!Close(S)
    BY <1>c DEF Lifecycle!Close
  <2>2. QED
    BY <2>1 DEF Lifecycle!Next
<1>1. ASSUME NEW r \in Requests, LoginStart(r) \/ LoginKeys(r) \/ LoginSession(r)
      PROVE  Lifecycle!Next
  <2>1. Using(r)' = NoRequest
    BY <1>1, <1>s DEF LoginStart, LoginKeys, LoginSession, Using, LoginStages
  <2>2. \A q \in Requests \ {r} : Using(q)' = Using(q)
    BY <1>1, StepUsing DEF LoginStart, LoginKeys, LoginSession
  <2>3. \A i \in Requests : Status(i)' = Status(i)
    BY <1>1, SameStatus DEF LoginStart, LoginKeys, LoginSession
  <2>4. QED
    BY <2>1, <2>2, <2>3, <1>l
<1>2. ASSUME NEW r \in Requests, LoginRevoke(r) PROVE Lifecycle!Next
  <2>1. \A q \in Requests : Using(q)' = Using(q)
    BY <1>2, <1>s DEF LoginRevoke, Using, LoginStages
  <2>2. \A i \in Requests : \/ Status(i)' = Status(i)
                            \/ Status(i) = "open" /\ Status(i)' = "closed"
    BY <1>2 DEF LoginRevoke, Status, TokenLive
  <2>3. QED
    BY <2>1, <2>2, <1>c
<1>3. ASSUME NEW r \in Requests, LoginIssue(r) PROVE Lifecycle!Next
  <2>1. \A q \in Requests : Using(q)' = Using(q)
    BY <1>3, <1>s DEF LoginIssue, Using, LoginStages
  <2>2. Status(r) = "unissued" /\ Status(r)' = "open"
    BY <1>3, LifetimeAssumption DEF LoginIssue, AddToken, Sent, Status, TokenLive, Issued
  <2>3. \A i \in Requests \ {r} : Status(i)' = Status(i)
    BY <1>3 DEF LoginIssue, AddToken, Status, TokenLive
  <2>4. Lifecycle!Open(r)
    BY <2>1, <2>2, <2>3 DEF Lifecycle!Open
  <2>5. QED
    BY <2>4 DEF Lifecycle!Next
<1>4. ASSUME NEW r \in Requests, NEW i \in Requests, Arrive(r, i) PROVE Lifecycle!Next
  <2>1. \A q \in Requests : Using(q)' = Using(q)
    BY <1>4, <1>s DEF Arrive, Using
  <2>2. \A q \in Requests : Status(q)' = Status(q)
    BY <1>4, SameStatus DEF Arrive
  <2>3. QED
    BY <2>1, <2>2, <1>l
<1>5. ASSUME NEW r \in Requests, GuardToken(r) PROVE Lifecycle!Next
  <2>1. \A i \in Requests : Status(i)' = Status(i)
    BY <1>5, SameStatus DEF GuardToken
  <2>2. \A q \in Requests \ {r} : Using(q)' = Using(q)
    BY <1>5, StepUsing DEF GuardToken
  <2>3. Using(r) = NoRequest
    BY <1>5, <1>s DEF GuardToken, Using
  <2>4. CASE TokenLive(sid[r])
    <3>1. sid[r] \in Requests
      BY <1>5 DEF GuardToken, Located, WithId, GuardStages
    <3>2. Using(r)' = sid[r]
      BY <1>5, <1>s, <2>4 DEF GuardToken, Using
    <3>3. Status(sid[r]) = "open"
      BY <2>4, <3>1, NullAssumption DEF Issued, Status
    <3>4. Lifecycle!Use(r, sid[r])
      BY <2>1, <2>2, <2>3, <3>1, <3>2, <3>3 DEF Lifecycle!Use
    <3>5. QED
      BY <3>1, <3>4 DEF Lifecycle!Next
  <2>5. CASE ~TokenLive(sid[r])
    <3>1. Using(r)' = NoRequest
      BY <1>5, <1>s, <2>5 DEF GuardToken, Using
    <3>2. QED
      BY <2>1, <2>2, <3>1, <1>l
  <2>6. QED
    BY <2>4, <2>5
<1>6. ASSUME NEW r \in Requests, GuardRefuse(r) \/ GuardAdmit(r) PROVE Lifecycle!Next
  <2>1. \A i \in Requests : Status(i)' = Status(i)
    BY <1>6, SameStatus DEF GuardRefuse, GuardAdmit
  <2>2. \A q \in Requests \ {r} : Using(q)' = Using(q)
    BY <1>6, StepUsing DEF GuardRefuse, GuardAdmit
  <2>3. Using(r)' = Using(r) \/ Using(r)' = NoRequest
    BY <1>6, <1>s DEF GuardRefuse, GuardAdmit, Using
  <2>4. QED
    BY <2>1, <2>2, <2>3, <1>l
<1>7. ASSUME NEW r \in Requests, LogoutToken(r) PROVE Lifecycle!Next
  <2>1. \A q \in Requests : Using(q)' = Using(q)
    BY <1>7, <1>s DEF LogoutToken, Using
  <2>2. \A i \in Requests : \/ Status(i)' = Status(i)
                            \/ Status(i) = "open" /\ Status(i)' = "closed"
    BY <1>7 DEF LogoutToken, DelToken, Status, TokenLive
  <2>3. QED
    BY <2>1, <2>2, <1>c
<1>8. ASSUME NEW r \in Requests,
             LogoutSession(r) \/ FlowGet(r) \/ FlowSet(r) \/ GrantGet(r) \/ GrantSet(r)
      PROVE  Lifecycle!Next
  <2> USE DEF LogoutSession, FlowGet, FlowSet, GrantGet, GrantSet
  <2>1. \A i \in Requests : Status(i)' = Status(i)
    BY <1>8, SameStatus
  <2>2. \A q \in Requests \ {r} : Using(q)' = Using(q)
    BY <1>8, StepUsing
  <2>3. Using(r)' = Using(r) \/ Using(r)' = NoRequest
    BY <1>8, <1>s DEF Using, AfterHandler
  <2>4. QED
    BY <2>1, <2>2, <2>3, <1>l
<1>9. ASSUME NEW r \in Requests, NEW i \in Requests, ClearAuthSession(r, i)
      PROVE  Lifecycle!Next
  BY <1>9, <1>l, SameStatus DEF ClearAuthSession, Using
<1>10. CASE Tick
  <2>1. \A q \in Requests : Using(q)' = Using(q)
    BY <1>10 DEF Tick, Using
  <2>2. \A i \in Requests : \/ Status(i)' = Status(i)
                            \/ Status(i) = "open" /\ Status(i)' = "closed"
    BY <1>10 DEF Tick, Status, TokenLive
  <2>3. QED
    BY <2>1, <2>2, <1>c
<1>11. CASE Exits
  <2>1. \A i \in Requests : Status(i)' = Status(i)
    BY <1>11, ExitStep, SameStatus
  <2>2. \A q \in Requests : Using(q)' = Using(q) \/ Using(q)' = NoRequest
    BY <1>11, <1>s, ExitStep DEF Using
  <2>3. QED
    BY <2>1, <2>2, <1>l
\* A failed command ends uses, and opens or closes an id if it did so unheard.
<1>f. ASSUME NEW q \in Requests, RedisFails(q) PROVE Lifecycle!Next
  <2>1. \A r \in Requests : Using(r)' = Using(r) \/ Using(r)' = NoRequest
    BY <1>f, <1>s, FailStep DEF Using
  <2>2. CASE UNCHANGED <<token, jwtExp, revoked>>
    <3>1. \A i \in Requests : Status(i)' = Status(i)
      BY <1>f, <2>2, FailStep, SameStatus
    <3>2. QED
      BY <2>1, <3>1, <1>l
  <2>3. ASSUME pc[q] \notin GrantStages PROVE \A r \in Requests \ {q} : Using(r)' = Using(r)
    BY <1>f, <2>3, StepUsing, FailStep DEF RedisFails
  <2>4. CASE pc[q] = "login_issue" /\ AddToken(q) /\ UNCHANGED <<session, revoked>>
    <3>1. Using(q) = NoRequest /\ Using(q)' = NoRequest /\ pc[q] \notin GrantStages
      BY <1>f, <1>s, <2>4, FailStep DEF Using, GrantStages
    <3>2. Status(q) = "unissued" /\ Status(q)' = "open"
      BY <1>f, <2>4, FailStep, LifetimeAssumption DEF AddToken, Sent, Status, TokenLive, Issued
    <3>3. \A i \in Requests \ {q} : Status(i)' = Status(i)
      BY <1>f, <2>4, FailStep DEF AddToken, Status, TokenLive
    <3>4. Lifecycle!Open(q)
      BY <2>3, <3>1, <3>2, <3>3 DEF Lifecycle!Open
    <3>5. QED
      BY <3>4 DEF Lifecycle!Next
  <2>5. CASE pc[q] = "logout_token" /\ DelToken(q) /\ UNCHANGED <<session, jwtExp>>
    <3>1. /\ sid[q] \in Requests /\ pc[q] \notin GrantStages
          /\ Using(q) = sid[q] /\ Using(q)' = NoRequest
      BY <1>f, <1>s, <2>5, FailStep
      DEF Using, Located, WithId, HandlerStages, GrantStages
    <3> PICK i \in Requests : i = sid[q]
      BY <3>1
    <3>2. Status(i)' = Status(i) \/ (Status(i) = "open" /\ Status(i)' = "closed")
      BY <1>f, <2>5, <3>1, FailStep DEF DelToken, Status, TokenLive
    <3>3. \A j \in Requests \ {i} : Status(j)' = Status(j)
      BY <1>f, <2>5, FailStep DEF DelToken, Status, TokenLive
    <3>4. CASE Status(i)' = Status(i)
      BY <2>1, <3>3, <3>4, <1>l
    <3>5. CASE Status(i) = "open" /\ Status(i)' = "closed"
      <4>1. Lifecycle!CloseAndLeave(q, i)
        BY <2>3, <3>1, <3>3, <3>5 DEF Lifecycle!CloseAndLeave
      <4>2. QED
        BY <4>1 DEF Lifecycle!Next
    <3>6. QED
      BY <3>2, <3>4, <3>5
  <2>6. QED
    BY <1>f, <2>2, <2>4, <2>5, FailEffect DEF UnheardToken
<1>12. CASE UNCHANGED vars
  BY <1>12 DEF vars, Lifecycle!vars, Status, Using, TokenLive
<1>13. QED
  BY <1>1, <1>2, <1>3, <1>4, <1>5, <1>6, <1>7, <1>8, <1>9, <1>10, <1>11, <1>f, <1>12
     DEF Next, Advance, Login, Guard, Handler, PermissionGrant, Exits

\* Login, logout, guard and expiry over Redis implement the abstract session ids.
THEOREM LifecycleImplemented == Spec => ImplementsLifecycle
<1>1. Init => Lifecycle!Init
  BY DEF Init, Lifecycle!Init, Status, Using, HandlerStages, GrantStages, Idle
<1>2. Revocation => Typed /\ Issued
  BY DEF Revocation
<1>3. QED
  BY <1>1, <1>2, LifecycleStep, RevocationInvariant, PTL
     DEF Spec, ImplementsLifecycle, Lifecycle!Spec

-----------------------------------------------------------------------------
(* Rewrites of SESSION records.  A record changes only by the SETEX of a    *)
(* login, of addFlowSession or of a grant, and what the latter two write    *)
(* comes from a record of the same id that they have read.                  *)

SetStages == {"flow_set", "grant_set"}
Admitted  == HandlerStages \cup GrantStages

\* The ways in which a step can change the SESSION record of an id.
Rewritten(i) ==
    \/ session'[i] \in {session[i], NoSession}
    \/ /\ pc[i] = "login_session" /\ pc'[i] \in {Answered, Refused}
       /\ NewWritten(i, session'[i])
    \/ \E r \in Requests : /\ pc[r] = "flow_set" /\ sid[r] = i /\ pc'[r] \notin SetStages
                           /\ FlowWritten(r, session'[i])
    \/ \E r \in Requests : /\ pc[r] = "grant_set" /\ sid[r] = i /\ pc'[r] \notin SetStages
                           /\ GrantWritten(r, session'[i])

\* The ways in which a request can be about to write a record back after a step.
Held(r) ==
    pc'[r] \in SetStages =>
        \/ pc[r] \in SetStages /\ buf'[r] = buf[r]
        \/ /\ pc[r] \in Admitted /\ session' = session
           /\ session[sid[r]] # NoSession /\ buf'[r] = session[sid[r]]

\* The ways in which a request can be past the guard after a step.
Passed(r) ==
    /\ pc[r] # Idle => pc'[r] # Idle /\ sid'[r] = sid[r]
    /\ sid'[r] = sid[r] \/ (LoggedIn(sid'[r]) /\ pc'[r] \notin Admitted)
    /\ r \in handled' => r \in handled \/ pc'[r] # Idle
    /\ LoggedIn(r) => LoggedIn(r)'
    /\ pc'[r] \in Admitted =>
           \/ pc[r] \in Admitted
           \/ /\ pc[r] = "guard_session" /\ session[sid[r]] # NoSession
              /\ Permitted(kind[r], session[sid[r]])
    /\ pc'[r] \in GrantStages => pc[r] \in GrantStages \/ r \in handled'

\* A step changes records, what was read of them, and stages in these ways only.
LEMMA RecordStep ==
    ASSUME Typed, [Next]_vars
    PROVE  /\ kind' = kind /\ handled \subseteq handled'
           /\ \A i \in Requests : Rewritten(i) /\ Held(i) /\ Passed(i)
<1> USE DEF Typed, TypeOK, redis, request, history, At, Goto, LoggedIn, Idle, Answered,
            Refused, Hung, Lost, Rewritten, Held, Passed, SetStages, Admitted
<1> DEFINE Goal == /\ kind' = kind /\ handled \subseteq handled'
                   /\ \A i \in Requests : Rewritten(i) /\ Held(i) /\ Passed(i)
<1>s. /\ HandlerStages = {"logout_token", "logout_session", "flow_get", "flow_set"}
      /\ GrantStages = {"grant_get", "grant_set"}
      /\ GuardStages = {"guard_token", "guard_session"}
      /\ LoginStages = {"login_keys", "login_revoke", "login_issue", "login_session"}
  BY DEF GuardStages, HandlerStages, GrantStages, LoginStages
<1>1. ASSUME NEW r \in Requests, LoginStart(r) \/ LoginKeys(r) \/ LoginRevoke(r) \/ LoginIssue(r)
      PROVE  Goal
  BY <1>1, <1>s DEF LoginStart, LoginKeys, LoginRevoke, LoginIssue
<1>2. ASSUME NEW r \in Requests, LoginSession(r) PROVE Goal
  <2>1. PICK t : NewWritten(r, t) /\ session' = [session EXCEPT ![r] = t]
    BY <1>2 DEF LoginSession, AddSession, NewWritten
  <2>2. QED
    BY <1>2, <1>s, <2>1 DEF LoginSession
<1>3. ASSUME NEW r \in Requests, NEW i \in Requests, Arrive(r, i) PROVE Goal
  BY <1>3, <1>s DEF Arrive
<1>4. ASSUME NEW r \in Requests, Guard(r) PROVE Goal
  <2>1. CASE GuardToken(r) \/ GuardRefuse(r)
    BY <2>1, <1>s DEF GuardToken, GuardRefuse
  <2>2. CASE GuardAdmit(r)
    <3>1. AfterGuard(kind[r]) \in {Answered, "logout_token", "flow_get", "grant_get"}
      BY DEF AfterGuard, AfterHandler
    <3>2. QED
      BY <2>2, <1>s, <3>1 DEF GuardAdmit, SessionLive
  <2>3. QED
    BY <1>4, <2>1, <2>2 DEF Guard
<1>5. ASSUME NEW r \in Requests, LogoutToken(r) \/ LogoutSession(r) PROVE Goal
  BY <1>5, <1>s DEF LogoutToken, LogoutSession, DelSession
<1>6. ASSUME NEW r \in Requests, FlowGet(r) \/ GrantGet(r) PROVE Goal
  BY <1>6, <1>s DEF FlowGet, GrantGet, SessionLive
<1>7. ASSUME NEW r \in Requests, FlowSet(r) PROVE Goal
  <2>1. AfterHandler(kind[r]) \in {Answered, "grant_get"}
    BY DEF AfterHandler
  <2>2. QED
    BY <1>7, <1>s, <2>1 DEF FlowSet, Rewrite, FlowWritten, Release
<1>8. ASSUME NEW r \in Requests, GrantSet(r) PROVE Goal
  BY <1>8, <1>s DEF GrantSet, Rewrite, GrantWritten, Release
<1>9. ASSUME NEW r \in Requests, NEW i \in Requests, ClearAuthSession(r, i) PROVE Goal
  BY <1>9 DEF ClearAuthSession
<1>10. CASE Tick
  BY <1>10 DEF Tick
<1>11. CASE Exits
  BY <1>11, <1>s, ExitStep DEF Active
<1>f. ASSUME NEW q \in Requests, RedisFails(q) PROVE Goal
  <2>1. ASSUME NEW i \in Requests PROVE Rewritten(i)
    <3>1. pc'[q] \in {Refused, Hung} /\ q \in Requests
      BY <1>f, FailStep
    <3>2. UnheardRecord(q, i)
      BY <1>f, FailEffect
    <3>3. CASE session'[i] = session[i] \/ (pc[q] = "logout_session" /\ session'[i] = NoSession)
      BY <3>3
    <3>4. CASE pc[q] = "login_session" /\ i = q /\ NewWritten(q, session'[i])
      <4>1. pc'[i] = Refused
        BY <1>f, <1>s, <3>4, FailStep
      <4>2. QED
        BY <3>4, <4>1
    <3>5. CASE \/ pc[q] = "flow_set" /\ sid[q] = i /\ FlowWritten(q, session'[i])
               \/ pc[q] = "grant_set" /\ sid[q] = i /\ GrantWritten(q, session'[i])
      <4>1. pc'[q] \notin SetStages
        BY <1>s, <3>1
      <4>2. QED
        BY <3>1, <3>5, <4>1
    <3>6. QED
      BY <3>2, <3>3, <3>4, <3>5 DEF UnheardRecord
  <2>0. /\ UNCHANGED <<kind, sid, handled>>
        /\ \A i \in Requests :
             \/ pc'[i] \in {Refused, Hung, Lost} /\ pc[i] \notin {Idle, Answered}
             \/ pc'[i] = pc[i] /\ (pc[i] \in SetStages => buf'[i] = buf[i])
    BY <1>f, <1>s, FailStep DEF Active
  <2>2. ASSUME NEW i \in Requests PROVE Held(i)
    BY <1>s, <2>0
  <2>3. ASSUME NEW i \in Requests PROVE LoggedIn(i) => LoggedIn(i)'
    BY <2>0
  <2>4. ASSUME NEW i \in Requests PROVE Passed(i)
    BY <1>s, <2>0, <2>3
  <2>5. QED
    BY <1>f, <2>0, <2>1, <2>2, <2>4
<1>12. CASE UNCHANGED vars
  BY <1>12 DEF vars
<1>13. QED
  BY <1>1, <1>2, <1>3, <1>4, <1>5, <1>6, <1>7, <1>8, <1>9, <1>10, <1>11, <1>f, <1>12
     DEF Next, Advance, Login, Handler, PermissionGrant, Exits

\* What a request's own step does to the request, as far as invariants need it.
Moved(r) ==
    /\ pc[r] \in Terminal => pc'[r] = pc[r]
    /\ sid'[r] # sid[r] => \A q \in Requests \ {r} :
           sid'[q] = sid[q] /\ (Sequential /\ sid[q] = sid'[r] => pc[q] \in Terminal)
    /\ round'[r] # round[r] => pc[r] = "guard_session"
    /\ r \in handled' => r \in handled \/ pc'[r] \in GrantStages \cup Terminal
    /\ pc[r] \in GrantStages => pc'[r] \in GrantStages \cup Terminal
    /\ pc'[r] \in Admitted => \/ pc[r] \in Admitted
                              \/ /\ session' = session /\ pc'[r] = AfterGuard(kind[r])
                                 /\ round'[r] = session[sid[r]].flow.contract
    /\ pc'[r] \in GrantStages /\ pc[r] \in Admitted =>
           \/ pc[r] \in GrantStages
           \/ /\ pc[r] = "flow_set" /\ pc'[r] = "grant_get"
              /\ FlowWritten(r, session'[sid[r]])
    /\ pc'[r] = Answered =>
           \/ pc[r] = Answered
           \/ ProvidePermissions(kind[r]) = {}
           \/ pc[r] = "logout_session" /\ session'[sid[r]] = NoSession
           \/ /\ pc[r] = "grant_set"
              /\ GrantWritten(r, session'[sid[r]])

\* Every step moves requests in these ways only.
LEMMA MoveStep == ASSUME Typed, [Next]_vars PROVE \A r \in Requests : Moved(r)
<1> USE DEF Typed, TypeOK, redis, request, history, At, Goto, Idle, Answered, Refused, Hung,
            Lost, Moved, Admitted
<1> DEFINE Goal == \A r \in Requests : Moved(r)
<1>s. /\ HandlerStages = {"logout_token", "logout_session", "flow_get", "flow_set"}
      /\ GrantStages = {"grant_get", "grant_set"}
      /\ GuardStages = {"guard_token", "guard_session"}
      /\ LoginStages = {"login_keys", "login_revoke", "login_issue", "login_session"}
      /\ Terminal = {Answered, Refused, Hung, Lost}
  BY DEF GuardStages, HandlerStages, GrantStages, LoginStages, Terminal
<1>p. ProvidePermissions("login") = {} /\ ProvidePermissions("logout") = {}
  BY DEF ProvidePermissions
<1>1. ASSUME NEW r \in Requests, LoginStart(r) \/ Login(r) PROVE Goal
  BY <1>1, <1>s, <1>p DEF LoginStart, Login, LoginKeys, LoginRevoke, LoginIssue, LoginSession,
     Located
<1>2. ASSUME NEW r \in Requests, NEW i \in Requests, Arrive(r, i) PROVE Goal
  BY <1>2, <1>s DEF Arrive
<1>3. ASSUME NEW r \in Requests, GuardToken(r) \/ GuardRefuse(r) PROVE Goal
  BY <1>3, <1>s DEF GuardToken, GuardRefuse
<1>4. ASSUME NEW r \in Requests, GuardAdmit(r) PROVE Goal
  <2>1. /\ AfterGuard(kind[r]) \in {Answered, "logout_token", "flow_get", "grant_get"}
        /\ AfterGuard(kind[r]) = Answered => ProvidePermissions(kind[r]) = {}
    BY DEF AfterGuard, AfterHandler
  <2>2. QED
    BY <1>4, <1>s, <2>1 DEF GuardAdmit
<1>5. ASSUME NEW r \in Requests, LogoutToken(r) \/ LogoutSession(r) \/ FlowGet(r) \/ GrantGet(r)
      PROVE  Goal
  BY <1>5, <1>s DEF LogoutToken, LogoutSession, DelSession, FlowGet, GrantGet, Located, WithId
<1>6. ASSUME NEW r \in Requests, FlowSet(r) PROVE Goal
  <2>1. /\ AfterHandler(kind[r]) \in {Answered, "grant_get"}
        /\ AfterHandler(kind[r]) = Answered => ProvidePermissions(kind[r]) = {}
    BY DEF AfterHandler
  <2>2. QED
    BY <1>6, <1>s, <2>1 DEF FlowSet, Rewrite, FlowWritten, Release, Located, WithId
<1>7. ASSUME NEW r \in Requests, GrantSet(r) PROVE Goal
  BY <1>7, <1>s DEF GrantSet, Rewrite, GrantWritten, Release, Located, WithId
<1>8. ASSUME NEW r \in Requests, NEW i \in Requests, ClearAuthSession(r, i) PROVE Goal
  BY <1>8 DEF ClearAuthSession
<1>9. CASE Tick
  BY <1>9 DEF Tick
<1>10. CASE Exits
  BY <1>10, <1>s, ExitStep DEF Active
<1>f. ASSUME NEW q \in Requests, RedisFails(q) PROVE Goal
  BY <1>f, <1>s, FailStep DEF Active
<1>11. CASE UNCHANGED vars
  BY <1>11 DEF vars
<1>12. QED
  BY <1>1, <1>2, <1>3, <1>4, <1>5, <1>6, <1>7, <1>8, <1>9, <1>10, <1>f, <1>11
     DEF Next, Advance, Guard, Handler, PermissionGrant, Exits

\* A SESSION record comes after the login that drew the id, which may not have heard that
\* Redis wrote it; a request that presents an id comes after the answer to the login.
Owned ==
    /\ \A i \in Requests : session[i] # NoSession => kind[i] = "login" /\ pc[i] \in Terminal
    /\ \A r \in Requests : sid[r] # NoRequest => LoggedIn(sid[r])

\* The deadline of a record is no earlier than its exp; all that is held of one id has
\* the same exp.
Pinned ==
    /\ \A i \in Requests : session[i] # NoSession => session[i].exp <= session[i].deadline
    /\ \A r \in Requests : pc[r] \in SetStages /\ session[sid[r]] # NoSession =>
           session[sid[r]].exp = buf[r].exp
    /\ \A r, q \in Requests : pc[r] \in SetStages /\ pc[q] \in SetStages /\ sid[r] = sid[q] =>
           buf[r].exp = buf[q].exp

\* An endpoint's handler has succeeded on a session id.
Did(k, i) == \E r \in handled : kind[r] = k /\ sid[r] = i

\* Each flow permission in a record was earned by the handlers it stands for.
Earned(i, s) ==
    /\ "OTP_REQUESTED" \in s.flow.permissions => Did("requestOtp", i)
    /\ "OTP_VERIFIED" \in s.flow.permissions => Did("requestOtp", i) /\ Did("checkOtp", i)
    /\ "SELFIE_VERIFIED" \in s.flow.permissions => Did("requestOtp", i) /\ Did("checkOtp", i)

\* So it is in Redis and in what was read of it, and a request past the guard has shown
\* what its endpoint requires.
Proven ==
    /\ \A i \in Requests : session[i] # NoSession => Earned(i, session[i])
    /\ \A r \in Requests : pc[r] \in SetStages => Earned(sid[r], buf[r])
    /\ \A r \in handled : pc[r] # Idle
    /\ \A r \in Requests : pc[r] \in GrantStages => r \in handled
    /\ \A r \in Requests : pc[r] \in Admitted =>
           /\ kind[r] \in {"checkOtp", "checkSelfie"} => Did("requestOtp", sid[r])
           /\ kind[r] = "checkSelfie" => Did("checkOtp", sid[r])

\* Merging a flow or granting permissions leaves exp alone.
LEMMA RewriteTypes ==
    ASSUME NEW s \in Session, NEW r \in Requests
    PROVE  /\ MergeFlow(r, s) \in Session /\ MergeFlow(r, s).exp = s.exp
           /\ Grant(r, s) \in Session /\ Grant(r, s).exp = s.exp
BY MergeFlowType, GrantType DEF MergeFlow, Grant, Session

\* What a rewrite writes has the exp that was read, is dropped then or later by the time
\* its one command was under way, and is otherwise the merged flow or the grant.
LEMMA WrittenContent ==
    ASSUME TypeOK, NEW r \in Requests, buf[r] \in Session, NEW t
    PROVE  /\ FlowWritten(r, t) \/ GrantWritten(r, t) =>
                 /\ t.exp \in Int /\ t.exp = buf[r].exp /\ t.exp <= t.deadline
                 /\ t.deadline - t.exp \in 0..(now - asked[r])
           /\ FlowWritten(r, t) =>
                 /\ t.flow = MergeFlow(r, buf[r]).flow
                 /\ t.permissions = MergeFlow(r, buf[r]).permissions
           /\ GrantWritten(r, t) =>
                 /\ t.flow = Grant(r, buf[r]).flow /\ t.permissions = Grant(r, buf[r]).permissions
<1>1. now \in Nat /\ asked[r] \in Nat
  BY DEF TypeOK
<1>2. ASSUME NEW w \in Session, w.exp = buf[r].exp, NEW sent \in Sent(r),
             t = Stored(w, Ttl(buf[r], sent))
      PROVE  /\ t.exp \in Int /\ t.exp = buf[r].exp /\ t.exp <= t.deadline
             /\ t.deadline - t.exp \in 0..(now - asked[r])
             /\ t.flow = w.flow /\ t.permissions = w.permissions
  <2>1. sent \in Int /\ asked[r] <= sent /\ sent <= now
    BY <1>1 DEF Sent
  <2> DEFINE s == buf[r]
  <2> HIDE DEF s
  <2>2. w.exp = s.exp /\ t = [w EXCEPT !.deadline = now + (s.exp - sent)]
    BY <1>2 DEF s, Stored, Ttl
  <2>c. s.exp \in Int /\ now + (s.exp - sent) = s.exp + (now - sent)
    BY <1>1, <2>1 DEF s, Session
  <2>3. /\ t \in Session /\ t.exp = s.exp /\ t.deadline = s.exp + (now - sent)
        /\ t.flow = w.flow /\ t.permissions = w.permissions
    BY <1>1, <2>1, <2>2, <2>c DEF Session
  <2>4. t.exp \in Int
    BY <2>3 DEF Session
  <2>5. QED
    BY <1>1, <2>1, <2>3, <2>4 DEF s
<1>3. ASSUME FlowWritten(r, t)
      PROVE  /\ t.exp \in Int /\ t.exp = buf[r].exp /\ t.exp <= t.deadline
             /\ t.deadline - t.exp \in 0..(now - asked[r])
             /\ t.flow = MergeFlow(r, buf[r]).flow
             /\ t.permissions = MergeFlow(r, buf[r]).permissions
  <2>1. PICK sent \in Sent(r) : t = Stored(MergeFlow(r, buf[r]), Ttl(buf[r], sent))
    BY <1>3 DEF FlowWritten
  <2>2. MergeFlow(r, buf[r]) \in Session /\ MergeFlow(r, buf[r]).exp = buf[r].exp
    BY RewriteTypes
  <2>3. QED
    BY <1>2, <2>1, <2>2
<1>4. ASSUME GrantWritten(r, t)
      PROVE  /\ t.exp \in Int /\ t.exp = buf[r].exp /\ t.exp <= t.deadline
             /\ t.deadline - t.exp \in 0..(now - asked[r])
             /\ t.flow = Grant(r, buf[r]).flow /\ t.permissions = Grant(r, buf[r]).permissions
  <2>1. PICK sent \in Sent(r) : t = Stored(Grant(r, buf[r]), Ttl(buf[r], sent))
    BY <1>4 DEF GrantWritten
  <2>2. Grant(r, buf[r]) \in Session /\ Grant(r, buf[r]).exp = buf[r].exp
    BY RewriteTypes
  <2>3. QED
    BY <1>2, <2>1, <2>2
<1>5. QED
  BY <1>3, <1>4

\* What can become of a record, with the exp of what it was made of.
LEMMA RewrittenExp ==
    ASSUME Typed, Owned, NEW i \in Requests, Rewritten(i), session'[i] # NoSession
    PROVE  \/ session'[i] = session[i]
           \/ /\ pc[i] = "login_session" /\ session'[i].exp <= session'[i].deadline
              /\ \A r \in Requests : sid[r] # i
           \/ \E r \in Requests :
                 /\ pc[r] \in SetStages /\ sid[r] = i
                 /\ session'[i].exp = buf[r].exp /\ session'[i].exp <= session'[i].deadline
                 /\ session'[i].deadline - session'[i].exp \in 0..(now - asked[r])
<1> USE DEF Typed
<1>1. CASE pc[i] = "login_session" /\ NewWritten(i, session'[i])
  <2>1. session'[i].exp <= session'[i].deadline
    BY <1>1, NewWrittenType
  <2>2. \A r \in Requests : sid[r] # i
    BY <1>1, NullAssumption DEF Owned, LoggedIn, At, Answered
  <2>3. QED
    BY <1>1, <2>1, <2>2
<1>2. ASSUME NEW r \in Requests, pc[r] \in SetStages,
             FlowWritten(r, session'[i]) \/ GrantWritten(r, session'[i])
      PROVE  /\ session'[i].exp = buf[r].exp /\ session'[i].exp <= session'[i].deadline
             /\ session'[i].deadline - session'[i].exp \in 0..(now - asked[r])
  <2>1. buf[r] \in Session
    BY <1>2 DEF Located, SetStages
  <2>2. QED
    BY <1>2, <2>1, WrittenContent
<1>3. QED
  BY <1>1, <1>2 DEF Rewritten, SetStages

\* Every step keeps Owned.
LEMMA NextOwned == Typed /\ Owned /\ [Next]_vars => Owned'
<1> SUFFICES ASSUME Typed, Owned, [Next]_vars PROVE Owned'
  OBVIOUS
<1>1. kind' = kind /\ \A i \in Requests : Rewritten(i) /\ Passed(i)
  BY RecordStep
<1>2. \A i \in Requests : LoggedIn(i) => LoggedIn(i)'
  BY <1>1 DEF Passed
<1>m. \A i \in Requests : Moved(i)
  BY MoveStep
<1>3. ASSUME NEW i \in Requests, session'[i] # NoSession
      PROVE  kind'[i] = "login" /\ pc'[i] \in Terminal
  <2>1. CASE session[i] # NoSession
    BY <1>1, <1>m, <2>1 DEF Owned, Moved
  <2>2. CASE pc[i] = "login_session" /\ pc'[i] \in {Answered, Refused}
    BY <1>1, <2>2 DEF Typed, Located, LoginStages, Terminal
  <2>3. ASSUME NEW r \in Requests, sid[r] = i PROVE kind'[i] = "login" /\ pc'[i] \in Terminal
    BY <1>1, <1>2, <2>3, NullAssumption DEF Owned, LoggedIn, At, Terminal
  <2>4. QED
    BY <1>1, <1>3, <2>1, <2>2, <2>3 DEF Rewritten
<1>4. ASSUME NEW r \in Requests, sid'[r] # NoRequest PROVE LoggedIn(sid[r])'
  <2>1. sid'[r] \in Requests /\ LoggedIn(sid'[r])
    <3>1. TypeOK'
      BY NextType DEF Typed
    <3>2. QED
      BY <1>1, <1>4, <3>1 DEF Owned, Passed, TypeOK
  <2>2. QED
    BY <1>2, <2>1 DEF LoggedIn, At
<1>5. QED
  BY <1>3, <1>4 DEF Owned, LoggedIn, At

\* Every step keeps Pinned.
LEMMA NextPinned == Typed /\ Owned /\ Pinned /\ [Next]_vars => Pinned'
<1> SUFFICES ASSUME Typed, Owned, Pinned, [Next]_vars PROVE Pinned'
  OBVIOUS
<1>1. \A i \in Requests : Rewritten(i) /\ Held(i) /\ Passed(i)
  BY RecordStep
<1>2. ASSUME NEW i \in Requests, session'[i] # NoSession
      PROVE  session'[i].exp <= session'[i].deadline
  BY <1>1, <1>2, RewrittenExp DEF Pinned
<1>3. ASSUME NEW r \in Requests, pc'[r] \in SetStages
      PROVE  /\ sid'[r] = sid[r] /\ sid[r] \in Requests
             /\ \/ pc[r] \in SetStages /\ buf'[r] = buf[r]
                \/ /\ session' = session
                   /\ session[sid[r]] # NoSession /\ buf'[r] = session[sid[r]]
  <2>1. pc[r] \in Admitted \/ pc[r] \in SetStages
    BY <1>1, <1>3 DEF Held
  <2>2. pc[r] # Idle /\ pc[r] \in WithId
    BY <2>1 DEF Admitted, SetStages, HandlerStages, GrantStages, WithId, Idle
  <2>3. QED
    BY <1>1, <1>3, <2>2 DEF Held, Passed, Typed, Located
<1>5. ASSUME NEW r \in Requests, pc'[r] \in SetStages, session'[sid'[r]] # NoSession
      PROVE  session'[sid'[r]].exp = buf'[r].exp
  <2>1. CASE /\ session' = session
             /\ session[sid[r]] # NoSession /\ buf'[r] = session[sid[r]]
    BY <1>3, <1>5, <2>1
  <2>2. CASE pc[r] \in SetStages /\ buf'[r] = buf[r]
    <3>1. sid'[r] = sid[r] /\ sid[r] \in Requests
      BY <1>3, <1>5
    <3>2. CASE session'[sid[r]] = session[sid[r]]
      BY <1>5, <2>2, <3>1, <3>2 DEF Pinned
    <3>3. ASSUME NEW q \in Requests, pc[q] \in SetStages, sid[q] = sid[r],
                 session'[sid[r]].exp = buf[q].exp
          PROVE  session'[sid'[r]].exp = buf'[r].exp
      BY <2>2, <3>1, <3>3 DEF Pinned
    <3>4. QED
      BY <1>1, <1>5, <3>1, <3>2, <3>3, RewrittenExp
  <2>3. QED
    BY <1>3, <1>5, <2>1, <2>2
<1>6. ASSUME NEW r \in Requests, NEW q \in Requests, pc'[r] \in SetStages, pc'[q] \in SetStages,
             sid'[r] = sid'[q]
      PROVE  buf'[r].exp = buf'[q].exp
  BY <1>3, <1>6 DEF Pinned
<1>7. QED
  BY <1>2, <1>5, <1>6 DEF Pinned

\* What was done stays done: ids and kinds of requests that have begun do not change.
LEMMA DidStays ==
    ASSUME Typed, Proven, [Next]_vars, NEW k, NEW i, Did(k, i)
    PROVE  Did(k, i)'
<1>1. PICK r \in handled : kind[r] = k /\ sid[r] = i
  BY DEF Did
<1>2. r \in Requests /\ pc[r] # Idle
  BY DEF Typed, TypeOK, Proven
<1>3. kind' = kind /\ r \in handled' /\ sid'[r] = sid[r]
  BY <1>2, RecordStep DEF Passed
<1>4. QED
  BY <1>1, <1>3 DEF Did

\* A record or a copy of it that was earned stays earned.
LEMMA EarnedStays ==
    ASSUME Typed, Proven, [Next]_vars, NEW i, NEW s, Earned(i, s)
    PROVE  Earned(i, s)'
BY DidStays DEF Earned

\* Every step keeps Proven.
LEMMA NextProven == Typed /\ Proven /\ [Next]_vars => Proven'
<1> SUFFICES ASSUME Typed, Proven, [Next]_vars PROVE Proven'
  OBVIOUS
<1>1. /\ kind' = kind /\ handled \subseteq handled'
      /\ \A i \in Requests : Rewritten(i) /\ Held(i) /\ Passed(i)
  BY RecordStep
<1>t. TypeOK /\ TypeOK' /\ Located
  BY NextType DEF Typed
<1>d. \A k, i : Did(k, i) => Did(k, i)'
  BY DidStays
<1>2. ASSUME NEW i \in Requests, session'[i] # NoSession PROVE Earned(i, session[i])' 
  <2>1. CASE session'[i] = session[i]
    BY <1>2, <2>1, EarnedStays DEF Proven
  <2>2. CASE NewWritten(i, session'[i])
    <3>1. session'[i].flow.permissions = {}
      BY <1>t, <2>2, NewWrittenType DEF NoFlow
    <3>2. QED
      BY <3>1 DEF Earned
  <2>3. ASSUME NEW r \in Requests, pc[r] = "flow_set", sid[r] = i,
               FlowWritten(r, session'[i])
        PROVE  Earned(i, session[i])'
    <3>1. buf[r] \in Session
      BY <1>t, <2>3 DEF Located
    <3>2. session'[i].flow = MergeFlow(r, buf[r]).flow
      BY <1>t, <2>3, <3>1, WrittenContent
    <3>3. \/ session'[i].flow.permissions = {}
          \/ session'[i].flow.permissions = buf[r].flow.permissions
      <4>1. buf[r].flow \in FlowSession
        BY <3>1 DEF Session
      <4>2. QED
        BY <3>1, <3>2, <4>1 DEF MergeFlow, Session, FlowSession
    <3>4. Earned(i, buf[r])
      BY <2>3 DEF Proven, SetStages
    <3>5. \A k : Did(k, i) => Did(k, i)'
      BY DidStays
    <3>6. QED
      BY <3>3, <3>4, <3>5 DEF Earned
  <2>4. ASSUME NEW r \in Requests, pc[r] = "grant_set", sid[r] = i,
               GrantWritten(r, session'[i])
        PROVE  Earned(i, session[i])'
    <3>1. buf[r] \in Session
      BY <1>t, <2>4 DEF Located
    <3>2. session'[i].flow = Grant(r, buf[r]).flow
      BY <1>t, <2>4, <3>1, WrittenContent
    <3>3. session'[i].flow.permissions =
              buf[r].flow.permissions \cup ProvideFlowPermissions(kind[r])
      <4>1. buf[r].flow \in FlowSession
        BY <3>1 DEF Session
      <4>2. QED
        BY <3>1, <3>2, <4>1 DEF Grant, Session, FlowSession
    <3>4. Earned(i, buf[r])
      BY <2>4 DEF Proven, SetStages
    <3>5. r \in handled /\ Did(kind[r], i)
      BY <2>4 DEF Proven, GrantStages, Did
    <3>6. /\ kind[r] \in {"checkOtp", "checkSelfie"} => Did("requestOtp", i)
          /\ kind[r] = "checkSelfie" => Did("checkOtp", i)
      BY <2>4 DEF Proven, Admitted, GrantStages
    <3>7. ProvideFlowPermissions(kind[r]) =
              IF kind[r] = "requestOtp" THEN {"OTP_REQUESTED"}
              ELSE IF kind[r] = "checkOtp" THEN {"OTP_VERIFIED"}
              ELSE IF kind[r] = "checkSelfie" THEN {"SELFIE_VERIFIED"} ELSE {}
      BY DEF ProvideFlowPermissions
    <3>8. \A k : Did(k, i) => Did(k, i)'
      BY DidStays
    <3>9. QED
      BY <3>3, <3>4, <3>5, <3>6, <3>7, <3>8 DEF Earned
  <2>5. QED
    BY <1>1, <1>2, <2>1, <2>2, <2>3, <2>4 DEF Rewritten
<1>3. ASSUME NEW r \in Requests, pc'[r] \in SetStages PROVE Earned(sid[r], buf[r])'
  <2>1. pc[r] # Idle /\ sid[r] \in Requests
    BY <1>1, <1>3, <1>t
    DEF Held, Admitted, SetStages, HandlerStages, GrantStages, Idle, Located, WithId
  <2>2. sid'[r] = sid[r]
    BY <1>1, <2>1 DEF Passed
  <2>3. Earned(sid[r], buf'[r])
    BY <1>1, <1>3, <2>1 DEF Held, Proven
  <2>4. \A k : Did(k, sid[r]) => Did(k, sid[r])'
    BY <1>d, <2>2 DEF Did
  <2>5. QED
    BY <2>2, <2>3, <2>4 DEF Earned
<1>4. \A r \in handled' : pc'[r] # Idle
  BY <1>1, <1>t DEF Passed, Proven, TypeOK
<1>5. ASSUME NEW r \in Requests, pc'[r] \in GrantStages PROVE r \in handled'
  BY <1>1, <1>5 DEF Passed, Proven
<1>6. ASSUME NEW r \in Requests, pc'[r] \in Admitted
      PROVE  /\ kind'[r] \in {"checkOtp", "checkSelfie"} => Did("requestOtp", sid[r])'
             /\ kind'[r] = "checkSelfie" => Did("checkOtp", sid[r])'
  <2>1. sid'[r] = sid[r] /\ kind'[r] = kind[r]
    BY <1>1, <1>6 DEF Passed
  <2>2. /\ kind[r] \in {"checkOtp", "checkSelfie"} => Did("requestOtp", sid[r])
        /\ kind[r] = "checkSelfie" => Did("checkOtp", sid[r])
    <3>1. CASE pc[r] \in Admitted
      BY <3>1 DEF Proven
    <3>2. CASE /\ pc[r] = "guard_session" /\ session[sid[r]] # NoSession
               /\ Permitted(kind[r], session[sid[r]])
      <4>1. sid[r] \in Requests /\ Earned(sid[r], session[sid[r]])
        BY <1>t, <3>2 DEF Proven, Located, WithId, GuardStages
      <4>2. /\ kind[r] \in {"checkOtp", "checkSelfie"} =>
                   "OTP_REQUESTED" \in session[sid[r]].flow.permissions
            /\ kind[r] = "checkSelfie" => "OTP_VERIFIED" \in session[sid[r]].flow.permissions
        BY <3>2 DEF Permitted, RequiredFlowPermissions
      <4>3. QED
        BY <4>1, <4>2 DEF Earned
    <3>3. QED
      BY <1>1, <1>6, <3>1, <3>2 DEF Passed
  <2>3. \A k : Did(k, sid[r]) => Did(k, sid[r])'
    BY <1>d, <2>1 DEF Did
  <2>4. QED
    BY <2>1, <2>2, <2>3
<1>7. QED
  BY <1>2, <1>3, <1>4, <1>5, <1>6 DEF Proven

\* The inductive invariant behind the two theorems on rewrites.
Rewrites == Typed /\ Owned /\ Pinned /\ Proven

\* It holds in every reachable state.
LEMMA RewritesInvariant == Spec => []Rewrites
<1>1. Init => Owned /\ Pinned /\ Proven
  BY DEF Init, Owned, Pinned, Proven, SetStages, Admitted, HandlerStages, GrantStages, Idle
<1>2. Init => Typed
  BY InitType DEF Typed
<1>3. Rewrites /\ [Next]_vars => Rewrites'
  BY NextType, NextLocated, NextOwned, NextPinned, NextProven DEF Rewrites, Typed
<1>4. QED
  BY <1>1, <1>2, <1>3, PTL DEF Spec, Rewrites

\* Every rewrite keeps the exp of the login, and moves the instant at which Redis drops the
\* record from there by no more than its own command was under way, however many overlap
\* and whichever of them puts a deleted record back.
THEOREM ExpiryStays == Spec => ExpiryPinned
<1>1. Rewrites /\ [Next]_vars =>
          [\A i \in Requests :
              session[i] # NoSession /\ session'[i] \notin {session[i], NoSession} =>
                  /\ session'[i].exp = session[i].exp
                  /\ \E r \in Requests :
                        /\ pc[r] \in {"flow_set", "grant_set"} /\ sid[r] = i
                        /\ session'[i].deadline - session'[i].exp \in 0..(now - asked[r])]_vars
  <2> SUFFICES ASSUME Rewrites, [Next]_vars, NEW i \in Requests,
                      session[i] # NoSession, session'[i] \notin {session[i], NoSession}
               PROVE  /\ session'[i].exp = session[i].exp
                      /\ \E r \in Requests :
                            /\ pc[r] \in {"flow_set", "grant_set"} /\ sid[r] = i
                            /\ session'[i].deadline - session'[i].exp \in 0..(now - asked[r])
    OBVIOUS
  <2>1. Typed /\ Owned /\ Pinned /\ Rewritten(i)
    BY RecordStep DEF Rewrites
  <2>2. pc[i] # "login_session"
    BY <2>1 DEF Owned, Terminal, Answered, Refused, Hung, Lost
  <2>3. PICK r \in Requests :
            /\ pc[r] \in SetStages /\ sid[r] = i /\ session'[i].exp = buf[r].exp
            /\ session'[i].deadline - session'[i].exp \in 0..(now - asked[r])
    BY <2>1, <2>2, RewrittenExp
  <2>4. QED
    BY <2>1, <2>3 DEF Pinned, SetStages
<1>2. QED
  BY RewritesInvariant, <1>1, PTL DEF Spec, ExpiryPinned

\* A session that holds SELFIE_VERIFIED is one on which requestOtp and checkOtp have
\* succeeded: no lost update, put-back or crash lets checkSelfie through without.
THEOREM SelfieAfterOtp == Spec => []SelfieNeedsVerifiedOtp
<1>1. Rewrites => SelfieNeedsVerifiedOtp
  <2> SUFFICES ASSUME Rewrites, NEW i \in Requests, session[i] # NoSession,
                      "SELFIE_VERIFIED" \in session[i].flow.permissions
               PROVE  \A k \in {"requestOtp", "checkOtp"} :
                          \E r \in handled : kind[r] = k /\ sid[r] = i
    BY DEF SelfieNeedsVerifiedOtp
  <2>1. Did("requestOtp", i) /\ Did("checkOtp", i)
    BY DEF Rewrites, Proven, Earned
  <2>2. QED
    BY <2>1 DEF Did
<1>2. QED
  BY RewritesInvariant, <1>1, PTL

-----------------------------------------------------------------------------
(* Clients that wait for each answer: Sequential.                          *)

\* Of the requests that present one session id, at most one is under way.
Sole ==
    \A q, r \in Requests : q # r /\ sid[q] = sid[r] /\ sid[r] # NoRequest =>
        pc[q] \in Terminal \/ pc[r] \in Terminal

\* Every step keeps Sole: a client calls when its last request is over, and what is over
\* stays over.
LEMMA NextSole == Sequential /\ Typed /\ Sole /\ [Next]_vars => Sole'
<1> SUFFICES ASSUME Sequential, Typed, Sole, [Next]_vars,
                    NEW q \in Requests, NEW r \in Requests,
                    q # r, sid'[q] = sid'[r], sid'[r] # NoRequest
             PROVE  pc'[q] \in Terminal \/ pc'[r] \in Terminal
  BY DEF Sole
<1>1. Moved(q) /\ Moved(r)
  BY MoveStep
<1>2. CASE sid'[q] = sid[q] /\ sid'[r] = sid[r]
  BY <1>1, <1>2 DEF Sole, Moved
<1>3. CASE sid'[q] # sid[q]
  BY <1>1, <1>3 DEF Moved
<1>4. CASE sid'[r] # sid[r]
  BY <1>1, <1>4 DEF Moved
<1>5. QED
  BY <1>2, <1>3, <1>4

\* The steps of everybody but the request under way on an id can only delete its record.
LEMMA SoleWriter ==
    ASSUME Typed, Owned, Sole, [Next]_vars, NEW r \in Requests, pc[r] \in WithId
    PROVE  \/ session'[sid[r]] \in {session[sid[r]], NoSession}
           \/ /\ pc[r] = "flow_set" /\ pc'[r] \notin SetStages
              /\ FlowWritten(r, session'[sid[r]])
           \/ /\ pc[r] = "grant_set" /\ pc'[r] \notin SetStages
              /\ GrantWritten(r, session'[sid[r]])
<1>1. sid[r] \in Requests /\ LoggedIn(sid[r])
  BY NullAssumption DEF Typed, Located, Owned
<1>2. Rewritten(sid[r]) /\ pc[sid[r]] # "login_session"
  BY <1>1, RecordStep DEF LoggedIn, At, Answered
<1>3. \A q \in Requests : pc[q] \in SetStages /\ sid[q] = sid[r] => q = r
  BY <1>1, NullAssumption DEF Sole, WithId, SetStages, Terminal, GuardStages, HandlerStages,
     GrantStages, Answered, Refused, Hung, Lost
<1>4. QED
  BY <1>2, <1>3 DEF Rewritten, SetStages

\* So the record that a request is about to rewrite is the one it has read, or gone.
Undisturbed ==
    \A r \in Requests : pc[r] \in SetStages => session[sid[r]] \in {buf[r], NoSession}

\* Every step keeps Undisturbed.
LEMMA NextUndisturbed == Typed /\ Owned /\ Sole /\ Undisturbed /\ [Next]_vars => Undisturbed'
<1> SUFFICES ASSUME Typed, Owned, Sole, Undisturbed, [Next]_vars,
                    NEW r \in Requests, pc'[r] \in SetStages
             PROVE  session'[sid'[r]] \in {buf'[r], NoSession}
  BY DEF Undisturbed
<1>1. Held(r) /\ Passed(r)
  BY RecordStep
<1>2. pc[r] \in WithId /\ pc[r] # Idle /\ sid'[r] = sid[r]
  BY <1>1 DEF Held, Passed, Admitted, SetStages, WithId, HandlerStages, GrantStages, Idle
<1>3. CASE pc[r] \in SetStages /\ buf'[r] = buf[r]
  BY <1>2, <1>3, SoleWriter DEF Undisturbed
<1>4. CASE session' = session /\ buf'[r] = session[sid[r]]
  BY <1>2, <1>4
<1>5. QED
  BY <1>1, <1>3, <1>4 DEF Held

\* What addFlowSession writes: a fresh round, or the flow it has read, made an entry.
LEMMA FlowContent ==
    ASSUME TypeOK, NEW r \in Requests, buf[r] \in Session, NEW t, FlowWritten(r, t)
    PROVE  /\ t.permissions = buf[r].permissions
           /\ kind[r] = "requestOtp" => t.flow.permissions = {} /\ t.flow.entry = "listed"
           /\ kind[r] # "requestOtp" =>
                 /\ t.flow.permissions = buf[r].flow.permissions
                 /\ t.flow.contract = buf[r].flow.contract
                 /\ buf[r].flow.entry = "listed" => t.flow.entry = "listed"
<1>1. buf[r].flow \in FlowSession
  BY DEF Session
<1>2. t.permissions = MergeFlow(r, buf[r]).permissions /\ t.flow = MergeFlow(r, buf[r]).flow
  BY WrittenContent
<1>3. CASE kind[r] = "requestOtp"
  BY <1>2, <1>3 DEF MergeFlow, Session
<1>4. CASE kind[r] # "requestOtp"
  BY <1>1, <1>2, <1>4 DEF MergeFlow, Session, FlowSession
<1>5. QED
  BY <1>3, <1>4

\* What a grant writes: the record it has read, and what the endpoint provides.
LEMMA GrantContent ==
    ASSUME TypeOK, NEW r \in Requests, buf[r] \in Session, NEW t, GrantWritten(r, t)
    PROVE  /\ t.permissions = buf[r].permissions \cup ProvidePermissions(kind[r])
           /\ t.flow.permissions = buf[r].flow.permissions \cup ProvideFlowPermissions(kind[r])
           /\ t.flow.contract = buf[r].flow.contract /\ t.flow.entry = buf[r].flow.entry
<1>1. buf[r].flow \in FlowSession
  BY DEF Session
<1>2. t.permissions = Grant(r, buf[r]).permissions /\ t.flow = Grant(r, buf[r]).flow
  BY WrittenContent
<1>3. QED
  BY <1>1, <1>2 DEF Grant, Session, FlowSession

-----------------------------------------------------------------------------
(* Grants stay.                                                            *)

\* What an answered request was granted is in the record, and in what was read of it.
Retained ==
    \A r \in Requests : pc[r] = Answered /\ ProvidePermissions(kind[r]) # {} =>
        /\ sid[r] \in Requests
        /\ session[sid[r]] # NoSession =>
               ProvidePermissions(kind[r]) \subseteq session[sid[r]].permissions
        /\ \A q \in Requests : pc[q] \in SetStages /\ sid[q] = sid[r] =>
               ProvidePermissions(kind[r]) \subseteq buf[q].permissions

\* Every step keeps Retained.
LEMMA NextRetained == Typed /\ Owned /\ Sole /\ Retained /\ [Next]_vars => Retained'
<1> DEFINE P(r) == ProvidePermissions(kind[r])
<1>s. /\ Admitted = {"logout_token", "logout_session", "flow_get", "flow_set",
                     "grant_get", "grant_set"}
      /\ WithId = Admitted \cup {"guard_token", "guard_session"}
      /\ SetStages \subseteq Admitted
      /\ Terminal = {Answered, Refused, Hung, Lost}
  BY DEF Admitted, WithId, GuardStages, HandlerStages, GrantStages, SetStages, Terminal
<1> SUFFICES ASSUME Typed, Owned, Sole, Retained, [Next]_vars,
                    NEW r \in Requests, pc'[r] = Answered, P(r) # {}
             PROVE  /\ sid'[r] \in Requests
                    /\ session'[sid'[r]] # NoSession => P(r) \subseteq session'[sid'[r]].permissions
                    /\ \A q \in Requests : pc'[q] \in SetStages /\ sid'[q] = sid'[r] =>
                           P(r) \subseteq buf'[q].permissions
  <2>1. ASSUME Typed, [Next]_vars PROVE kind' = kind
    BY <2>1, RecordStep
  <2>2. QED
    BY <2>1 DEF Retained
<1>1. \A q \in Requests : Rewritten(q) /\ Held(q) /\ Passed(q) /\ Moved(q)
  BY RecordStep, MoveStep
<1>2. TypeOK
  BY DEF Typed
\* Who is about to write after the step was admitted before it, on the same id.
<1>3. ASSUME NEW q \in Requests, pc'[q] \in SetStages
      PROVE  pc[q] \in Admitted /\ sid'[q] = sid[q]
  BY <1>1, <1>3, <1>s DEF Held, Passed, Idle
\* The request was answered before, and its id has a record that another may rewrite.
<1>4. CASE pc[r] = Answered
  <2>1. sid'[r] = sid[r] /\ sid[r] \in Requests
    BY <1>1, <1>4 DEF Passed, Answered, Idle, Retained
  <2>2. ASSUME session'[sid[r]] # NoSession PROVE P(r) \subseteq session'[sid[r]].permissions
    <3>1. CASE session'[sid[r]] = session[sid[r]]
      BY <1>4, <2>2, <3>1 DEF Retained
    <3>2. pc[sid[r]] # "login_session"
      BY <2>1, NullAssumption DEF Owned, LoggedIn, At, Answered
    <3>3. ASSUME NEW q \in Requests, pc[q] = "flow_set", sid[q] = sid[r],
                 FlowWritten(q, session'[sid[r]])
          PROVE  P(r) \subseteq session'[sid[r]].permissions
      <4>1. buf[q] \in Session /\ P(r) \subseteq buf[q].permissions
        BY <1>4, <3>3 DEF Typed, Located, Retained, SetStages
      <4>2. QED
        BY <1>2, <3>3, <4>1, FlowContent
    <3>4. ASSUME NEW q \in Requests, pc[q] = "grant_set", sid[q] = sid[r],
                 GrantWritten(q, session'[sid[r]])
          PROVE  P(r) \subseteq session'[sid[r]].permissions
      <4>1. buf[q] \in Session /\ P(r) \subseteq buf[q].permissions
        BY <1>4, <3>4 DEF Typed, Located, Retained, SetStages
      <4>2. session'[sid[r]].permissions = buf[q].permissions \cup ProvidePermissions(kind[q])
        BY <1>2, <3>4, <4>1, GrantContent
      <4>3. QED
        BY <4>1, <4>2
    <3>5. QED
      BY <1>1, <2>1, <2>2, <3>1, <3>2, <3>3, <3>4 DEF Rewritten
  <2>3. ASSUME NEW q \in Requests, pc'[q] \in SetStages, sid'[q] = sid[r]
        PROVE  P(r) \subseteq buf'[q].permissions
    <3>1. sid[q] = sid[r]
      BY <1>3, <2>3
    <3>2. QED
      BY <1>1, <1>4, <2>3, <3>1 DEF Held, Retained
  <2>4. QED
    BY <2>1, <2>2, <2>3
\* The step answers it: it was the one request under way on its id.
<1>5. CASE pc[r] # Answered
  <2>1. pc[r] \in {"logout_session", "grant_set"}
    BY <1>1, <1>5 DEF Moved
  <2>2. sid[r] \in Requests /\ sid'[r] = sid[r]
    BY <1>1, <1>s, <2>1 DEF Passed, Idle, Typed, Located
  <2>3. session'[sid[r]] # NoSession => P(r) \subseteq session'[sid[r]].permissions
    <3>1. CASE session'[sid[r]] = NoSession
      BY <3>1
    <3>2. CASE pc[r] = "grant_set" /\ GrantWritten(r, session'[sid[r]])
      <4>1. buf[r] \in Session
        BY <3>2 DEF Typed, Located
      <4>2. session'[sid[r]].permissions = buf[r].permissions \cup P(r)
        BY <1>2, <3>2, <4>1, GrantContent
      <4>3. QED
        BY <4>2
    <3>3. QED
      BY <1>1, <1>5, <3>1, <3>2 DEF Moved
  <2>4. ASSUME NEW q \in Requests, pc'[q] \in SetStages, sid'[q] = sid[r] PROVE FALSE
    <3>1. q # r /\ pc[q] \in Admitted /\ sid[q] = sid[r]
      BY <1>3, <2>4 DEF SetStages, Answered
    <3>2. pc[q] \notin Terminal /\ pc[r] \notin Terminal
      BY <1>s, <2>1, <3>1 DEF Answered, Refused, Hung, Lost
    <3>3. QED
      BY <2>2, <3>1, <3>2, NullAssumption DEF Sole
  <2>5. QED
    BY <2>2, <2>3, <2>4
<1>6. QED
  BY <1>4, <1>5

-----------------------------------------------------------------------------
(* OTP_VERIFIED belongs to the contract it was given for.                  *)

\* A request whose handler has returned is past its handler.
HandledLate == \A r \in handled : pc[r] \in GrantStages \cup Terminal

\* OTP_VERIFIED in a record or a copy of it was earned in its contract's round.
CurrentOtp(i, s) ==
    "OTP_VERIFIED" \in s.flow.permissions =>
        \E r \in handled : kind[r] = "checkOtp" /\ sid[r] = i /\ round[r] = s.flow.contract

\* So it is in Redis and in what was read of it; and the round of a checkOtp under way
\* is still the session's.
Rounds ==
    /\ \A i \in Requests : session[i] # NoSession => CurrentOtp(i, session[i])
    /\ \A r \in Requests : pc[r] \in SetStages => CurrentOtp(sid[r], buf[r])
    /\ \A r \in Requests : pc[r] \in Admitted /\ kind[r] = "checkOtp" =>
           /\ session[sid[r]] # NoSession => round[r] = session[sid[r]].flow.contract
           /\ pc[r] \in SetStages => round[r] = buf[r].flow.contract

\* Every step keeps HandledLate.
LEMMA NextHandledLate == Typed /\ HandledLate /\ [Next]_vars => HandledLate'
<1> SUFFICES ASSUME Typed, HandledLate, [Next]_vars, NEW r \in handled'
             PROVE  pc'[r] \in GrantStages \cup Terminal
  BY DEF HandledLate
<1>1. r \in Requests
  BY NextType DEF Typed, TypeOK
<1>2. Moved(r)
  BY <1>1, MoveStep
<1>3. QED
  BY <1>2 DEF Moved, HandledLate

\* The round in which a checkOtp earned OTP_VERIFIED stays on record.
LEMMA CurrentOtpStays ==
    ASSUME Typed, Proven, HandledLate, [Next]_vars, NEW i, NEW s, CurrentOtp(i, s), NEW t,
           t.flow.contract = s.flow.contract,
           "OTP_VERIFIED" \in t.flow.permissions => "OTP_VERIFIED" \in s.flow.permissions
    PROVE  CurrentOtp(i, t)'
<1> SUFFICES ASSUME "OTP_VERIFIED" \in t.flow.permissions PROVE CurrentOtp(i, t)'
  BY DEF CurrentOtp
<1>1. PICK r \in handled : kind[r] = "checkOtp" /\ sid[r] = i /\ round[r] = s.flow.contract
  BY DEF CurrentOtp
<1>2. r \in Requests /\ pc[r] # Idle /\ pc[r] # "guard_session"
  BY DEF Typed, TypeOK, Proven, HandledLate, GrantStages, Terminal, Answered, Refused, Hung, Lost
<1>3. kind' = kind /\ r \in handled' /\ sid'[r] = sid[r] /\ round'[r] = round[r]
  BY <1>2, RecordStep, MoveStep DEF Passed, Moved
<1>4. QED
  BY <1>1, <1>3 DEF CurrentOtp

\* Every step keeps Rounds.
LEMMA NextRounds ==
    Typed /\ Owned /\ Proven /\ Sole /\ HandledLate /\ Rounds /\ [Next]_vars => Rounds'
<1> SUFFICES ASSUME Typed, Owned, Proven, Sole, HandledLate, Rounds, [Next]_vars PROVE Rounds'
  OBVIOUS
<1>1. /\ kind' = kind /\ handled \subseteq handled' /\ TypeOK
      /\ \A r \in Requests : Rewritten(r) /\ Held(r) /\ Passed(r) /\ Moved(r)
  BY RecordStep, MoveStep DEF Typed
<1>s. /\ Admitted = {"logout_token", "logout_session", "flow_get", "flow_set",
                     "grant_get", "grant_set"}
      /\ Admitted \subseteq WithId /\ SetStages = {"flow_set", "grant_set"}
      /\ "guard_session" \in WithId
  BY DEF Admitted, WithId, GuardStages, HandlerStages, GrantStages, SetStages
<1>2. ASSUME NEW i \in Requests, session'[i] # NoSession PROVE CurrentOtp(i, session[i])'
  <2>1. CASE session'[i] = session[i]
    BY <1>2, <2>1, CurrentOtpStays DEF Rounds
  <2>2. CASE NewWritten(i, session'[i])
    <3>1. session'[i].flow.permissions = {}
      BY <1>1, <2>2, NewWrittenType DEF NoFlow
    <3>2. QED
      BY <3>1 DEF CurrentOtp
  <2>3. ASSUME NEW r \in Requests, pc[r] = "flow_set", sid[r] = i,
               FlowWritten(r, session'[i])
        PROVE  CurrentOtp(i, session[i])'
    <3>1. buf[r] \in Session /\ CurrentOtp(i, buf[r])
      BY <2>3 DEF Typed, Located, Rounds, SetStages
    <3>2. CASE kind[r] = "requestOtp"
      <4>1. session'[i].flow.permissions = {}
        BY <1>1, <2>3, <3>1, <3>2, FlowContent
      <4>2. QED
        BY <4>1 DEF CurrentOtp
    <3>3. CASE kind[r] # "requestOtp"
      <4>1. /\ session'[i].flow.permissions = buf[r].flow.permissions
            /\ session'[i].flow.contract = buf[r].flow.contract
        BY <1>1, <2>3, <3>1, <3>3, FlowContent
      <4>2. QED
        BY <3>1, <4>1, CurrentOtpStays
    <3>4. QED
      BY <3>2, <3>3
  <2>4. ASSUME NEW r \in Requests, pc[r] = "grant_set", sid[r] = i,
               GrantWritten(r, session'[i])
        PROVE  CurrentOtp(i, session[i])'
    <3>1. buf[r] \in Session /\ CurrentOtp(i, buf[r])
      BY <2>4 DEF Typed, Located, Rounds, SetStages
    <3>2. /\ session'[i].flow.permissions =
                 buf[r].flow.permissions \cup ProvideFlowPermissions(kind[r])
          /\ session'[i].flow.contract = buf[r].flow.contract
      BY <1>1, <2>4, <3>1, GrantContent
    <3>3. CASE kind[r] = "checkOtp"
      <4>1. r \in handled /\ round[r] = buf[r].flow.contract
        BY <1>s, <2>4, <3>3 DEF Proven, Rounds, GrantStages
      <4>2. r \in handled' /\ sid'[r] = sid[r] /\ round'[r] = round[r] /\ kind'[r] = kind[r]
        BY <1>1, <2>4, <4>1 DEF Passed, Moved, Idle
      <4>3. QED
        BY <2>4, <3>2, <3>3, <4>1, <4>2 DEF CurrentOtp
    <3>4. CASE kind[r] # "checkOtp"
      <4>1. "OTP_VERIFIED" \notin ProvideFlowPermissions(kind[r])
        BY <3>4 DEF ProvideFlowPermissions
      <4>2. QED
        BY <3>1, <3>2, <4>1, CurrentOtpStays
    <3>5. QED
      BY <3>3, <3>4
  <2>5. QED
    BY <1>1, <1>2, <2>1, <2>2, <2>3, <2>4 DEF Rewritten
<1>3. ASSUME NEW r \in Requests, pc'[r] \in SetStages PROVE CurrentOtp(sid[r], buf[r])'
  <2>1. pc[r] \in Admitted /\ sid[r] \in Requests /\ sid'[r] = sid[r]
    BY <1>1, <1>3, <1>s DEF Held, Passed, Idle, Typed, Located
  <2>2. CurrentOtp(sid[r], buf'[r])
    BY <1>1, <1>3, <2>1 DEF Held, Rounds
  <2>3. \A i, s : CurrentOtp(i, s) => CurrentOtp(i, s)'
    BY CurrentOtpStays
  <2>4. QED
    BY <2>1, <2>2, <2>3 DEF CurrentOtp
<1>4. ASSUME NEW r \in Requests, pc'[r] \in Admitted, kind[r] = "checkOtp"
      PROVE  /\ session'[sid'[r]] # NoSession => round'[r] = session'[sid'[r]].flow.contract
             /\ pc'[r] \in SetStages => round'[r] = buf'[r].flow.contract
  <2>1. CASE pc[r] \in Admitted
    <3>1. sid[r] \in Requests /\ sid'[r] = sid[r] /\ round'[r] = round[r]
      BY <1>1, <1>s, <2>1 DEF Passed, Moved, Idle, Typed, Located
    <3>2. ASSUME session'[sid[r]] # NoSession PROVE round[r] = session'[sid[r]].flow.contract
      <4>1. pc[r] \in SetStages => buf[r] \in Session /\ round[r] = buf[r].flow.contract
        BY <1>4, <2>1, <1>s DEF Typed, Located, Rounds
      <4>2. CASE pc[r] = "flow_set" /\ FlowWritten(r, session'[sid[r]])
        BY <1>1, <1>4, <1>s, <4>1, <4>2, FlowContent
      <4>3. CASE pc[r] = "grant_set" /\ GrantWritten(r, session'[sid[r]])
        BY <1>1, <1>s, <4>1, <4>3, GrantContent
      <4>4. CASE session'[sid[r]] = session[sid[r]]
        BY <1>4, <2>1, <3>2, <4>4 DEF Rounds
      <4>5. QED
        BY <1>s, <2>1, <3>2, <4>2, <4>3, <4>4, SoleWriter
    <3>3. ASSUME pc'[r] \in SetStages PROVE round[r] = buf'[r].flow.contract
      BY <1>1, <1>4, <2>1, <3>3 DEF Held, Rounds
    <3>4. QED
      BY <3>1, <3>2, <3>3
  <2>2. CASE pc[r] \notin Admitted
    <3>1. /\ session' = session /\ round'[r] = session[sid[r]].flow.contract
          /\ pc[r] = "guard_session"
      BY <1>1, <1>4, <2>2 DEF Moved, Passed
    <3>2. sid'[r] = sid[r]
      BY <1>1, <3>1 DEF Passed, Idle
    <3>3. pc'[r] \notin SetStages
      BY <1>1, <1>s, <2>2 DEF Held
    <3>4. QED
      BY <3>1, <3>2, <3>3
  <2>3. QED
    BY <2>1, <2>2
<1>5. QED
  BY <1>1, <1>2, <1>3, <1>4 DEF Rounds

-----------------------------------------------------------------------------
(* A grant throws only when the session has ended, or Redis has failed it.  *)

\* A request that will grant a flow permission finds the flow it was admitted with, or
\* has written: no other rewrite can lose it.
Listed ==
    \A r \in Requests :
        /\ pc[r] \in Admitted /\ ProvideFlowPermissions(kind[r]) # {}
        /\ kind[r] = "requestOtp" => pc[r] \in GrantStages
        => /\ session[sid[r]] # NoSession => session[sid[r]].flow.entry = "listed"
           /\ pc[r] \in SetStages => buf[r].flow.entry = "listed"

\* Every step keeps Listed.
LEMMA NextListed == Typed /\ Owned /\ Sole /\ Listed /\ [Next]_vars => Listed'
<1>1. ASSUME Typed, [Next]_vars
      PROVE  /\ kind' = kind /\ TypeOK
             /\ \A r \in Requests : Rewritten(r) /\ Held(r) /\ Passed(r) /\ Moved(r)
  BY <1>1, RecordStep, MoveStep DEF Typed
<1>s. /\ Admitted = {"logout_token", "logout_session", "flow_get", "flow_set",
                     "grant_get", "grant_set"}
      /\ Admitted \subseteq WithId /\ SetStages = {"flow_set", "grant_set"}
      /\ GrantStages = {"grant_get", "grant_set"} /\ "guard_session" \in WithId
  BY DEF Admitted, WithId, GuardStages, HandlerStages, GrantStages, SetStages
<1> SUFFICES ASSUME Typed, Owned, Sole, Listed, [Next]_vars,
                    NEW r \in Requests, pc'[r] \in Admitted,
                    ProvideFlowPermissions(kind[r]) # {},
                    kind[r] = "requestOtp" => pc'[r] \in GrantStages
             PROVE  /\ session'[sid'[r]] # NoSession => session'[sid'[r]].flow.entry = "listed"
                    /\ pc'[r] \in SetStages => buf'[r].flow.entry = "listed"
  BY <1>1 DEF Listed
<1>2. /\ kind' = kind /\ TypeOK
      /\ Held(r) /\ Passed(r) /\ Moved(r)
  BY <1>1
<1>3. sid'[r] = sid[r]
  BY <1>2, <1>s DEF Passed, Idle
\* The flow it was admitted with is listed: its endpoint requires a flow permission.
<1>4. CASE pc[r] \notin Admitted
  <2>1. /\ session' = session /\ pc'[r] = AfterGuard(kind[r])
        /\ Permitted(kind[r], session[sid[r]])
    BY <1>2, <1>4 DEF Moved, Passed
  <2>2. kind[r] \in {"requestOtp", "checkOtp", "checkSelfie"}
    BY DEF ProvideFlowPermissions
  <2>3. kind[r] # "requestOtp"
    BY <1>s, <2>1 DEF AfterGuard
  <2>4. session[sid[r]].flow.entry = "listed"
    BY <2>1, <2>2, <2>3 DEF Permitted, RequiredFlowPermissions
  <2>5. pc'[r] \notin SetStages
    BY <1>2, <1>4, <1>s DEF Held
  <2>6. QED
    BY <1>3, <2>1, <2>4, <2>5
\* requestOtp has just written the flow it will grant in.
<1>5. CASE /\ pc[r] = "flow_set" /\ pc'[r] = "grant_get" /\ kind[r] = "requestOtp"
           /\ FlowWritten(r, session'[sid[r]])
  <2>1. buf[r] \in Session
    BY <1>5 DEF Typed, Located
  <2>2. session'[sid[r]].flow.entry = "listed"
    BY <1>2, <1>5, <2>1, FlowContent
  <2>3. QED
    BY <1>3, <1>5, <1>s, <2>2
\* Otherwise what was listed stays listed.
<1>6. CASE pc[r] \in Admitted /\ (kind[r] = "requestOtp" => pc[r] \in GrantStages)
  <2>1. /\ session[sid[r]] # NoSession => session[sid[r]].flow.entry = "listed"
        /\ pc[r] \in SetStages => buf[r] \in Session /\ buf[r].flow.entry = "listed"
    BY <1>6, <1>s DEF Listed, Typed, Located
  <2>2. ASSUME session'[sid[r]] # NoSession PROVE session'[sid[r]].flow.entry = "listed"
    <3>1. CASE pc[r] = "flow_set" /\ FlowWritten(r, session'[sid[r]])
      BY <1>2, <1>s, <2>1, <3>1, FlowContent
    <3>2. CASE pc[r] = "grant_set" /\ GrantWritten(r, session'[sid[r]])
      BY <1>2, <1>s, <2>1, <3>2, GrantContent
    <3>3. CASE session'[sid[r]] = session[sid[r]]
      BY <2>1, <2>2, <3>3
    <3>4. QED
      BY <1>6, <1>s, <2>2, <3>1, <3>2, <3>3, SoleWriter
  <2>3. ASSUME pc'[r] \in SetStages PROVE buf'[r].flow.entry = "listed"
    BY <1>2, <2>1, <2>3 DEF Held
  <2>4. QED
    BY <1>3, <2>2, <2>3
<1>7. QED
  BY <1>2, <1>4, <1>5, <1>6 DEF Moved

\* An answered login whose record is gone was revoked: a record goes by a clearSession
\* or a logout, after its TOKEN.
Erased ==
    /\ \A i \in Requests : LoggedIn(i) /\ session[i] = NoSession => i \in revoked
    /\ \A x \in cleanup : x[2] \in revoked
    /\ \A r \in Requests : pc[r] = "logout_session" => sid[r] \in revoked

\* A record, and a copy of it, expires no earlier than the JWT of its id.
Outlives ==
    /\ \A r \in Requests : pc[r] = "login_session" => jwtExp[r] <= asked[r] + Lifetime
    /\ \A i \in Requests : session[i] # NoSession => jwtExp[i] <= session[i].exp
    /\ \A r \in Requests : pc[r] \in SetStages => jwtExp[sid[r]] <= buf[r].exp

\* HungOnlyForCause, of requests known to present an id.
Ended ==
    \A r \in Requests : pc[r] = Hung =>
        sid[r] \in Requests /\ (sid[r] \in revoked \/ jwtExp[sid[r]] <= now \/ r \in failed)

\* What a step does to the life of ids: revocation and expiry are final, a JWT is signed
\* by its login only, a record is deleted by clearSession or logout only, and a grant
\* throws for want of a session, of a flow, of time or of a reply.
LifeStep ==
    /\ now <= now' /\ revoked \subseteq revoked' /\ failed \subseteq failed'
    /\ \A x \in cleanup' : x \in cleanup \/ x[2] \in revoked'
    /\ \A i \in Requests :
          \/ /\ jwtExp'[i] = jwtExp[i]
             /\ pc'[i] = "login_session" => pc[i] = "login_session" /\ asked'[i] = asked[i]
          \/ /\ pc[i] = "login_issue" /\ jwtExp'[i] <= now + Lifetime
             /\ pc'[i] = "login_session" => asked'[i] = now
    /\ \A i \in Requests : session'[i] = NoSession =>
          \/ session[i] = NoSession /\ (LoggedIn(i)' => LoggedIn(i))
          \/ \E x \in cleanup : x[2] = i
          \/ \E r \in Requests : pc[r] = "logout_session" /\ sid[r] = i
    /\ \A r \in Requests : pc'[r] = "logout_session" =>
          pc[r] = "logout_session" \/ (pc[r] = "logout_token" /\ sid[r] \in revoked')
    /\ \A r \in Requests : pc'[r] = Hung =>
          \/ pc[r] = Hung
          \/ pc[r] = "grant_get" /\ (SessionLive(sid[r]) => ~CanGrant(r, session[sid[r]]))
          \/ pc[r] = "grant_set" /\ TtlRefused(r)
          \/ pc[r] \in GrantStages /\ r \in failed'

\* Every step is such a step.
LEMMA NextLife == ASSUME Typed, [Next]_vars PROVE LifeStep
<1> USE DEF Typed, TypeOK, redis, request, history, At, Goto, LoggedIn, Idle, Answered,
            Refused, Hung, Lost, LifeStep
<1>s. /\ HandlerStages = {"logout_token", "logout_session", "flow_get", "flow_set"}
      /\ GrantStages = {"grant_get", "grant_set"}
      /\ GuardStages = {"guard_token", "guard_session"}
      /\ LoginStages = {"login_keys", "login_revoke", "login_issue", "login_session"}
  BY DEF GuardStages, HandlerStages, GrantStages, LoginStages
<1>1. ASSUME NEW r \in Requests, LoginStart(r) \/ LoginKeys(r) \/ LoginRevoke(r) PROVE LifeStep
  BY <1>1 DEF LoginStart, LoginKeys, LoginRevoke
<1>2. ASSUME NEW r \in Requests, LoginIssue(r) PROVE LifeStep
  BY <1>2, LifetimeAssumption DEF LoginIssue, AddToken, Sent
<1>3. ASSUME NEW r \in Requests, LoginSession(r) PROVE LifeStep
  <2>1. PICK t : NewWritten(r, t) /\ session' = [session EXCEPT ![r] = t]
    BY <1>3 DEF LoginSession, AddSession, NewWritten
  <2>2. t # NoSession
    BY <2>1, NewWrittenType
  <2>3. QED
    BY <1>3, <2>1, <2>2 DEF LoginSession
<1>4. ASSUME NEW r \in Requests, NEW i \in Requests, Arrive(r, i) PROVE LifeStep
  BY <1>4 DEF Arrive
<1>5. ASSUME NEW r \in Requests, Guard(r) PROVE LifeStep
  <2>1. AfterGuard(kind[r]) \in {Answered, "logout_token", "flow_get", "grant_get"}
    BY DEF AfterGuard, AfterHandler
  <2>2. kind[r] # "login"
    BY <1>5, <1>s DEF Guard, GuardToken, GuardRefuse, GuardAdmit, Located, WithId
  <2>3. QED
    BY <1>5, <1>s, <2>1, <2>2 DEF Guard, GuardToken, GuardRefuse, GuardAdmit
<1>6. ASSUME NEW r \in Requests, LogoutToken(r) \/ LogoutSession(r) PROVE LifeStep
  BY <1>6, <1>s DEF LogoutToken, DelToken, LogoutSession, DelSession, Located, WithId
<1>7. ASSUME NEW r \in Requests, FlowGet(r) \/ GrantGet(r) PROVE LifeStep
  BY <1>7 DEF FlowGet, GrantGet
<1>8. ASSUME NEW r \in Requests, FlowSet(r) PROVE LifeStep
  <2>1. /\ AfterHandler(kind[r]) \in {Answered, "grant_get"} /\ kind[r] # "login"
        /\ buf[r] \in Session
    BY <1>8, <1>s DEF AfterHandler, FlowSet, Located, WithId
  <2>2. CASE Rewrite(r, MergeFlow(r, buf[r]))
    <3>1. PICK t : FlowWritten(r, t) /\ session' = [session EXCEPT ![sid[r]] = t]
      BY <2>2 DEF Rewrite, FlowWritten
    <3>2. t # NoSession
      BY <2>1, <3>1, WrittenType
    <3>3. QED
      BY <1>8, <2>1, <3>1, <3>2 DEF FlowSet, Release
  <2>3. CASE session' = session
    BY <1>8, <2>1, <2>3 DEF FlowSet, Release
  <2>4. QED
    BY <1>8, <2>2, <2>3 DEF FlowSet
<1>9. ASSUME NEW r \in Requests, GrantSet(r) PROVE LifeStep
  <2>1. kind[r] # "login" /\ buf[r] \in Session
    BY <1>9, <1>s DEF GrantSet, Located, WithId
  <2>2. PICK t : GrantWritten(r, t) /\ session' = [session EXCEPT ![sid[r]] = t]
    BY <1>9 DEF GrantSet, Rewrite, GrantWritten
  <2>3. t # NoSession
    BY <2>1, <2>2, WrittenType
  <2>4. QED
    BY <1>9, <2>1, <2>2, <2>3 DEF GrantSet, Release
<1>10. ASSUME NEW r \in Requests, NEW i \in Requests, ClearAuthSession(r, i) PROVE LifeStep
  BY <1>10 DEF ClearAuthSession
<1>11. CASE Tick
  BY <1>11 DEF Tick
<1>12. CASE Crash
  BY <1>12, <1>s DEF Crash, ProcessExit, Active
<1>13. ASSUME NEW r \in Requests, GrantThrows(r) PROVE LifeStep
  BY <1>13, <1>s DEF GrantThrows, ProcessExit, Active
<1>f. ASSUME NEW q \in Requests, RedisFails(q) PROVE LifeStep
  <2>1. /\ now' = now /\ kind' = kind /\ sid' = sid /\ failed' = failed \cup {q}
        /\ cleanup' \subseteq cleanup
        /\ pc'[q] = Refused \/ (pc'[q] = Hung /\ pc[q] \in GrantStages)
        /\ \A r \in Requests \ {q} :
              \/ pc'[r] = pc[r] /\ (pc[r] \in Active => asked'[r] = asked[r])
              \/ pc'[r] = Lost
    BY <1>f, FailStep
  <2>2. UnheardToken(q) /\ \A i \in Requests : UnheardRecord(q, i)
    BY <1>f, FailEffect
  <2>3. revoked \subseteq revoked' /\ \A i \in Requests :
            \/ jwtExp'[i] = jwtExp[i]
            \/ pc[i] = "login_issue" /\ i = q /\ jwtExp'[i] <= now + Lifetime
    BY <2>2, LifetimeAssumption DEF UnheardToken, AddToken, DelToken, Sent
  <2>4. \A i \in Requests : session'[i] = NoSession =>
            session[i] = NoSession \/ (pc[q] = "logout_session" /\ sid[q] = i)
    <3>1. ASSUME NEW i \in Requests, NewWritten(q, session'[i]) PROVE session'[i] # NoSession
      BY <3>1, NewWrittenType
    <3>2. ASSUME NEW i \in Requests, pc[q] \in {"flow_set", "grant_set"},
                 FlowWritten(q, session'[i]) \/ GrantWritten(q, session'[i])
          PROVE  session'[i] # NoSession
      BY <3>2, WrittenType DEF Located
    <3>3. QED
      BY <2>2, <3>1, <3>2 DEF UnheardRecord
  <2>5. "login_session" \in Active
    BY <1>s DEF Active
  <2>6. QED
    BY <1>s, <2>1, <2>3, <2>4, <2>5
<1>14. CASE UNCHANGED vars
  BY <1>14 DEF vars
<1>15. QED
  BY <1>1, <1>2, <1>3, <1>4, <1>5, <1>6, <1>7, <1>8, <1>9, <1>10, <1>11, <1>12, <1>13, <1>f, <1>14
     DEF Next, Advance, Login, Handler, PermissionGrant

\* Every step keeps Erased.
LEMMA NextErased == Typed /\ Owned /\ Erased /\ [Next]_vars => Erased'
<1> SUFFICES ASSUME Typed, Owned, Erased, [Next]_vars PROVE Erased'
  OBVIOUS
<1>1. LifeStep /\ TypeOK' /\ \A r \in Requests : Passed(r)
  BY NextLife, NextType, RecordStep DEF Typed
<1>2. ASSUME NEW i \in Requests, LoggedIn(i)', session'[i] = NoSession PROVE i \in revoked'
  BY <1>1, <1>2 DEF LifeStep, Erased
<1>3. \A x \in cleanup' : x[2] \in revoked'
  BY <1>1 DEF LifeStep, Erased
<1>4. ASSUME NEW r \in Requests, pc'[r] = "logout_session" PROVE sid'[r] \in revoked'
  BY <1>1, <1>4 DEF LifeStep, Passed, Erased, Idle
<1>5. QED
  BY <1>2, <1>3, <1>4 DEF Erased

\* Every step keeps Outlives: only a login signs a JWT, before it writes its record, and
\* a rewrite keeps the record's exp.
LEMMA NextOutlives == Typed /\ Owned /\ Pinned /\ Outlives /\ [Next]_vars => Outlives'
<1> SUFFICES ASSUME Typed, Owned, Pinned, Outlives, [Next]_vars PROVE Outlives'
  OBVIOUS
<1>1. LifeStep /\ TypeOK /\ TypeOK' /\ \A r \in Requests : Rewritten(r) /\ Held(r) /\ Passed(r)
  BY NextLife, NextType, RecordStep DEF Typed
<1>2. ASSUME NEW r \in Requests, pc'[r] = "login_session" PROVE jwtExp'[r] <= asked'[r] + Lifetime
  BY <1>1, <1>2, LifetimeAssumption DEF LifeStep, Outlives, TypeOK
\* No login that is over signs a JWT.
<1>3. ASSUME NEW i \in Requests, pc[i] \in Terminal PROVE jwtExp'[i] = jwtExp[i]
  BY <1>1, <1>3 DEF LifeStep, Terminal, Answered, Refused, Hung, Lost
<1>4. ASSUME NEW i \in Requests, session'[i] # NoSession PROVE jwtExp'[i] <= session'[i].exp
  <2>1. CASE session'[i] = session[i]
    BY <1>3, <1>4, <2>1 DEF Owned, Outlives
  <2>2. CASE pc[i] = "login_session" /\ NewWritten(i, session'[i])
    <3>1. session'[i] \in Session /\ session'[i].exp - Lifetime \in asked[i]..now
      BY <1>1, <2>2, NewWrittenType
    <3>2. /\ session'[i].exp \in Int /\ Lifetime \in Nat /\ asked[i] \in Nat /\ now \in Nat
          /\ jwtExp[i] \in Nat
      BY <1>1, <3>1, LifetimeAssumption DEF Session, TypeOK
    <3>3. jwtExp'[i] = jwtExp[i] /\ jwtExp[i] <= asked[i] + Lifetime
      BY <1>1, <2>2 DEF LifeStep, Outlives
    <3>4. QED
      BY <3>1, <3>2, <3>3
  <2>3. ASSUME NEW r \in Requests, pc[r] \in SetStages, sid[r] = i, session'[i].exp = buf[r].exp
        PROVE  jwtExp'[i] <= session'[i].exp
    BY <1>3, <2>3, NullAssumption DEF Owned, LoggedIn, At, Terminal, Outlives
  <2>4. QED
    BY <1>1, <1>4, <2>1, <2>2, <2>3, RewrittenExp DEF Rewritten
<1>5. ASSUME NEW r \in Requests, pc'[r] \in SetStages PROVE jwtExp'[sid'[r]] <= buf'[r].exp
  <2>1. pc[r] \in WithId
    BY <1>1, <1>5
    DEF Held, Admitted, SetStages, HandlerStages, GrantStages, WithId
  <2>2. sid'[r] = sid[r] /\ sid[r] \in Requests
    BY <1>1, <2>1
    DEF Passed, Typed, Located, WithId, GuardStages, HandlerStages, GrantStages, Idle
  <2>3. jwtExp'[sid[r]] = jwtExp[sid[r]]
    BY <1>3, <2>2, NullAssumption DEF Owned, LoggedIn, At, Terminal
  <2>4. QED
    BY <1>1, <1>5, <2>2, <2>3 DEF Held, Outlives
<1>6. QED
  BY <1>2, <1>4, <1>5 DEF Outlives

\* Every step keeps Ended: a grant that throws finds its record deleted or expired, has
\* read one that has expired since, or had a command fail.
LEMMA NextEnded ==
    Typed /\ Owned /\ Pinned /\ Listed /\ Erased /\ Outlives /\ Ended /\ [Next]_vars => Ended'
<1> SUFFICES ASSUME Typed, Owned, Pinned, Listed, Erased, Outlives, Ended, [Next]_vars,
                    NEW r \in Requests, pc'[r] = Hung
             PROVE  /\ sid'[r] \in Requests
                    /\ sid'[r] \in revoked' \/ jwtExp'[sid'[r]] <= now' \/ r \in failed'
  BY DEF Ended
<1>1. LifeStep /\ Passed(r) /\ TypeOK /\ TypeOK'
  BY NextLife, NextType, RecordStep DEF Typed
<1>2. pc[r] = Hung \/ pc[r] \in GrantStages
  BY <1>1 DEF LifeStep, GrantStages
<1>3. sid'[r] = sid[r] /\ sid[r] \in Requests
  BY <1>1, <1>2 DEF Passed, Ended, Typed, Located, WithId, GrantStages, Hung, Idle
<1>4. LoggedIn(sid[r])
  BY <1>3, NullAssumption DEF Owned
<1>5. jwtExp'[sid[r]] = jwtExp[sid[r]]
  BY <1>1, <1>3, <1>4 DEF LifeStep, LoggedIn, At, Answered
<1>6. sid[r] \in revoked \/ jwtExp[sid[r]] <= now \/ r \in failed'
  <2>1. CASE pc[r] = Hung
    BY <1>1, <2>1 DEF Ended, LifeStep
  <2>2. CASE pc[r] = "grant_get" /\ (SessionLive(sid[r]) => ~CanGrant(r, session[sid[r]]))
    <3>1. session[sid[r]] # NoSession => CanGrant(r, session[sid[r]])
      BY <2>2 DEF Listed, CanGrant, Admitted, GrantStages
    <3>2. CASE session[sid[r]] = NoSession
      BY <1>3, <1>4, <3>2 DEF Erased
    <3>3. CASE session[sid[r]] # NoSession
      <4>1. session[sid[r]] \in Session
        BY <1>1, <1>3, <3>3 DEF TypeOK
      <4>2. /\ session[sid[r]].exp <= session[sid[r]].deadline
            /\ jwtExp[sid[r]] <= session[sid[r]].exp
        BY <1>3, <3>3 DEF Pinned, Outlives
      <4>3. session[sid[r]].deadline <= now
        BY <1>1, <2>2, <3>1, <3>3, <4>1 DEF SessionLive, Session, TypeOK
      <4>4. /\ session[sid[r]].exp \in Int /\ session[sid[r]].deadline \in Int
            /\ jwtExp[sid[r]] \in Nat /\ now \in Nat
        BY <1>1, <1>3, <4>1 DEF Session, TypeOK
      <4>5. QED
        BY <4>2, <4>3, <4>4
    <3>4. QED
      BY <3>2, <3>3
  <2>3. CASE pc[r] = "grant_set" /\ TtlRefused(r)
    <3>1. buf[r] \in Session /\ jwtExp[sid[r]] <= buf[r].exp
      BY <2>3 DEF Typed, Located, Outlives, SetStages
    <3>2. /\ buf[r].exp \in Int /\ jwtExp[sid[r]] \in Nat /\ now \in Nat /\ asked[r] \in Nat
      BY <1>1, <1>3, <3>1 DEF Session, TypeOK
    <3>3. PICK sent \in asked[r]..now : buf[r].exp - sent <= 0
      BY <2>3 DEF TtlRefused, Ttl, Sent
    <3>4. QED
      BY <3>1, <3>2, <3>3
  <2>4. QED
    BY <1>1, <2>1, <2>2, <2>3 DEF LifeStep
<1>7. now \in Nat /\ now' \in Nat /\ jwtExp[sid[r]] \in Nat
  BY <1>1, <1>3 DEF TypeOK
<1>8. QED
  BY <1>1, <1>3, <1>5, <1>6, <1>7 DEF LifeStep

-----------------------------------------------------------------------------
\* The inductive invariant behind the theorems on clients that wait.
Waiting ==
    /\ Rewrites /\ Sole /\ Undisturbed /\ HandledLate
    /\ Retained /\ Rounds
    /\ Listed /\ Erased /\ Outlives /\ Ended

\* It holds in every reachable state of such a system.
LEMMA WaitingInvariant ==
    ASSUME Sequential
    PROVE  Spec => []Waiting
<1>1. Init => Rewrites
  <2>1. Init => Owned /\ Pinned /\ Proven
    BY DEF Init, Owned, Pinned, Proven, SetStages, Admitted, HandlerStages, GrantStages, Idle
  <2>2. QED
    BY <2>1, InitType DEF Typed, Rewrites
<1>2. Init => Waiting
  BY <1>1
  DEF Init, Waiting, Sole, Undisturbed, HandledLate, Retained, Rounds, Listed, Erased, Outlives, Ended,
      SetStages, Admitted, HandlerStages, GrantStages, LoggedIn, At, Idle, Answered, Hung
<1>3. Rewrites /\ [Next]_vars => Rewrites'
  BY NextType, NextLocated, NextOwned, NextPinned, NextProven DEF Rewrites, Typed
<1>4. Waiting /\ [Next]_vars => Waiting'
  BY <1>3, NextSole, NextUndisturbed, NextHandledLate, NextRetained, NextRounds, NextListed,
     NextErased, NextOutlives, NextEnded
     DEF Waiting, Rewrites
<1>5. QED
  BY <1>2, <1>4, PTL DEF Spec

\* When clients wait for each answer, no rewrite of a SESSION record overwrites a rewrite
\* it has not seen: between its GET and its SETEX the record can only be deleted.
THEOREM NoLostUpdate ==
    ASSUME Sequential
    PROVE  Spec => []Undisturbed
<1>1. Waiting => Undisturbed
  BY DEF Waiting
<1>2. QED
  BY <1>1, WaitingInvariant, PTL

\* When clients wait for each answer, a granted permission stays in the session for as
\* long as the session lives, whatever is merged into the record afterwards.
THEOREM GrantsStay ==
    ASSUME Sequential
    PROVE  Spec => []GrantsRetained
<1>1. Waiting => GrantsRetained
  BY DEF Waiting, Retained, GrantsRetained, SessionLive, At
<1>2. QED
  BY <1>1, WaitingInvariant, PTL

\* When clients wait for each answer, OTP_VERIFIED is of the contract it is found with: a
\* new requestOtp takes it away.
THEOREM OtpOfThisContract ==
    ASSUME Sequential
    PROVE  Spec => []OtpVerifiedForCurrentContract
<1>1. Waiting => OtpVerifiedForCurrentContract
  BY DEF Waiting, Rounds, CurrentOtp, OtpVerifiedForCurrentContract
<1>2. QED
  BY <1>1, WaitingInvariant, PTL

\* When clients wait for each answer, no grant throws, and so none ends the process,
\* unless the session was revoked or has expired, or Redis failed one of its commands.
THEOREM GrantThrowsOnlyForCause ==
    ASSUME Sequential
    PROVE  Spec => []HungOnlyForCause
<1>1. Waiting => HungOnlyForCause
  BY DEF Waiting, Ended, HungOnlyForCause, At
<1>2. QED
  BY <1>1, WaitingInvariant, PTL
=============================================================================
