----------------------------- MODULE GatewayProofs -----------------------------
(***************************************************************************)
(* What the start-up's checks establish, and the kernel and the adapter rely *)
(* on, for every configuration, whatever plugins and policies it registers; *)
(* and what a client that is served may rely on.                             *)
(***************************************************************************)
EXTENDS Gateway, TLAPS

Serviceable == {"tables", "columns", "serving"}

\* The composition of the application so far.
Composed ==
    /\ StartupTypeOK
    /\ stage \in {"composing", "tables"} => checked = 0
    /\ \A i \in 1..checked : shape[Tables[i]] = "whole"
    /\ stage \in Serviceable => Accepted(config)
    /\ stage = "serving" => checked = Len(Tables)

-----------------------------------------------------------------------------
(* What acceptance means *)

LEMMA Nones ==
    /\ None \notin Methods /\ None \notin Transports /\ None \notin Paths
    /\ None \notin Provider /\ None \notin Actions
    /\ None \notin {"emailPassword", "oauth", "custom"}
  BY NoneAssumption

LEMMA TwelveActions ==
    /\ Len(SupportedActions) = 12
    /\ \A i, j \in 1..12 : SupportedActions[i] = SupportedActions[j] => i = j
    /\ \A i \in 1..12 : SupportedActions[i] \in Actions
    /\ \A a \in Actions : \E i \in 1..12 : SupportedActions[i] = a
<1>1. Len(SupportedActions) = 12
  BY DEF SupportedActions
<1>2. \A i, j \in 1..12 : SupportedActions[i] = SupportedActions[j] => i = j
  BY DEF SupportedActions
<1> QED BY <1>1, <1>2 DEF Actions

\* An action with a path and a method is configured altogether.
LEMMA ConfiguredByRoute ==
  ASSUME NEW c \in Configurations, Accepted(c), NEW a \in Actions,
         c.method[a] # None, c.path[a] # None
  PROVE  a \in Configured(c)
<1>1. CASE a \in OptionalActions
  BY <1>1 DEF Accepted, StartupConfigIsValid, OptionalActionsAreWhole
<1>2. CASE a \notin OptionalActions
  BY <1>2, ConfigAssumption DEF WellTyped, RequiredActions, Configured
<1> QED BY <1>1, <1>2

\* A request with the route of a configured action is a request for it.
LEMMA RoutesResolve ==
  ASSUME NEW c \in Configurations, Accepted(c), NEW a \in Configured(c), NEW h,
         h.method = c.method[a], h.path = c.path[a]
  PROVE  ResolveAction(c, h) = a
<1>1. a \in Actions /\ c.method[a] # None /\ c.path[a] # None
  BY DEF Configured
<1>2. PICK n \in 1..12 : SupportedActions[n] = a
  BY <1>1, TwelveActions
<1>3. Matching(c, h) = {n}
  <2>1. n \in Matching(c, h)
    BY <1>2, TwelveActions DEF Matching
  <2>2. ASSUME NEW i \in Matching(c, h) PROVE i = n
    <3>1. /\ i \in 1..12 /\ SupportedActions[i] \in Actions
          /\ c.path[SupportedActions[i]] = c.path[a]
          /\ c.method[SupportedActions[i]] = c.method[a]
      BY TwelveActions DEF Matching
    <3>2. SupportedActions[i] \in Configured(c)
      BY <1>1, <3>1, ConfiguredByRoute
    <3>3. SupportedActions[i] = a
      BY <3>1, <3>2 DEF Accepted, StartupConfigIsValid, RoutesAreUnique
    <3> QED BY <1>2, <3>1, <3>3, TwelveActions
  <2> QED BY <2>1, <2>2
<1>4. (CHOOSE i \in Matching(c, h) : \A j \in Matching(c, h) : i <= j) = n
  BY <1>3
<1> QED BY <1>2, <1>3, <1>4 DEF ResolveAction

LEMMA OneOwner ==
  ASSUME NEW c \in Configurations, Accepted(c), NEW a \in Configured(c)
  PROVE  /\ IF a \in BuiltInActions THEN OwnersOf(c, a) = {}
            ELSE \E i \in OwnersOf(c, a) : OwnersOf(c, a) = {i}
         /\ FindActionOwner(c, a) # None
<1>1. ActionsHaveOneOwner(c) /\ a \in Actions
  BY DEF Accepted, StartupConfigIsValid, Configured
<1>2. CASE a \in BuiltInActions
  <2>1. OwnersOf(c, a) = {}
    BY <1>1, <1>2 DEF ActionsHaveOneOwner, OwnersOf
  <2>2. "sessionLayer" # None
    BY AbsenceAssumption
  <2> QED BY <1>2, <2>1, <2>2 DEF FindActionOwner
<1>3. CASE a \notin BuiltInActions
  <2>1. PICK i \in DOMAIN c.plugins : a \in c.plugins[i].actions
    BY <1>1, <1>3 DEF ActionsHaveOneOwner
  <2>2. \A j \in DOMAIN c.plugins : a \in c.plugins[j].actions => j = i
    BY <1>1, <2>1 DEF ActionsHaveOneOwner
  <2>3. OwnersOf(c, a) = {i}
    BY <2>1, <2>2 DEF OwnersOf
  <2>4. c.plugins \in Seq(Plugin) /\ c.plugins[i] \in Plugin /\ i \in Nat
    BY <2>1, ConfigAssumption DEF WellTyped, Config
  <2>5. c.plugins[i].id # None
    BY <2>4, Nones DEF Plugin
  <2>6. (CHOOSE k \in OwnersOf(c, a) : \A j \in OwnersOf(c, a) : k <= j) = i
    BY <2>3, <2>4
  <2> QED BY <1>3, <2>3, <2>5, <2>6 DEF FindActionOwner
<1> QED BY <1>2, <1>3

-----------------------------------------------------------------------------
(* Composition *)

LEMMA TablesAreListed ==
    /\ Len(Tables) \in Nat /\ DOMAIN Tables = 1..Len(Tables) /\ 0 \in 0..Len(Tables)
<1>1. Len(Tables) \in Nat /\ DOMAIN Tables = 1..Len(Tables)
  BY TablesAssumption
<1>2. \A n \in Nat : 0 \in 0..n
  OBVIOUS
<1> QED BY <1>1, <1>2

LEMMA ComposedInit == Init => Composed
<1>1. Len(Tables) \in Nat
  BY TablesAreListed
<1> QED BY <1>1 DEF Init, StartupInit, Composed, StartupTypeOK, Stages, Serviceable

LEMMA ComposedStep ==
  ASSUME Composed, [Next]_vars
  PROVE  Composed'
<1> USE DEF Composed, StartupTypeOK, Stages, Serviceable
<1>1. Len(Tables) \in Nat /\ DOMAIN Tables = 1..Len(Tables)
  BY TablesAreListed
<1>2. CASE UNCHANGED startupVars
  BY <1>2 DEF startupVars, Accepted
<1>3. CASE Compose
  BY <1>1, <1>3 DEF Compose, Goes
<1>4. CASE CheckTables
  BY <1>1, <1>4 DEF CheckTables, Goes
<1>5. CASE CheckColumns
  <2>1. CASE shape[Tables[checked + 1]] = "whole"
    BY <1>1, <1>5, <2>1 DEF CheckColumns, Goes
  <2>2. CASE shape[Tables[checked + 1]] # "whole"
    BY <1>1, <1>5, <2>2 DEF CheckColumns, Goes
  <2> QED BY <2>1, <2>2
<1>6. CASE Serve \/ QueryFails
  BY <1>1, <1>6 DEF Serve, QueryFails, Goes
<1>7. CASE Restart
  <2>1. checked' = 0 /\ stage' = "composing" /\ UNCHANGED <<config, shape>>
    BY <1>7 DEF Restart, Goes
  <2>2. 0 \in 0..Len(Tables)
    BY TablesAreListed
  <2>3. \A i \in 1..0 : FALSE
    OBVIOUS
  <2> QED BY <2>1, <2>2, <2>3
<1>8. ASSUME NEW t \in TableNames, Migrate(t) PROVE Composed'
  <2>1. /\ UNCHANGED <<config, stage, checked>>
        /\ shape' \in [TableNames -> {"absent", "partial", "whole"}]
        /\ \A u \in TableNames : shape[u] = "whole" => shape'[u] = "whole"
    BY <1>8 DEF Migrate
  <2>2. \A i \in 1..checked : Tables[i] \in TableNames
    BY <1>1 DEF TableNames
  <2> QED BY <2>1, <2>2 DEF Accepted
<1>9. CASE ProcessComposes
  BY <1>3, <1>4, <1>5, <1>6, <1>8, <1>9 DEF ProcessComposes, Composes
<1>10. CASE ProcessRestarts
  BY <1>7, <1>10 DEF ProcessRestarts
<1>11. ASSUME NEW s \in Sessions, SessionEnds(s) PROVE Composed'
  BY <1>2, <1>11 DEF SessionEnds
<1>12. ASSUME NEW r \in Requests, Sends(r) \/ SendsElsewhere(r) PROVE Composed'
  BY <1>2, <1>12 DEF Sends, SendsElsewhere, Arrive
<1>13. ASSUME NEW r \in Requests, Handles(r) PROVE Composed'
  BY <1>2, <1>13 DEF Handles, ValidateSession, CheckCsrf, AskPolicy, PoliciesAllow,
     IssueSession, PluginAnswers, GetSession, Extend, Rotate, Logout, LogoutAll, Fails,
     Executes
<1>14. ASSUME NEW r \in Requests, Deliver(r) \/ Lose(r) PROVE Composed'
  BY <1>2, <1>14 DEF Deliver, Lose
<1>15. CASE UNCHANGED vars
  BY <1>2, <1>15 DEF vars
<1> QED BY <1>9, <1>10, <1>11, <1>12, <1>13, <1>14, <1>15 DEF Next

\* The schema is whole while an application serves, although its tables are
\* looked at one by one while somebody migrates the database.
THEOREM WholeSchema == Spec => []ServesOnWholeSchema
<1>1. Composed => ServesOnWholeSchema
  BY TablesAssumption DEF Composed, ServesOnWholeSchema, TableNames
<1>2. Composed /\ [Next]_vars => Composed'
  BY ComposedStep
<1> QED BY <1>1, <1>2, ComposedInit, PTL DEF Spec

-----------------------------------------------------------------------------
(* What an accepted configuration makes of the requests it is sent *)

\* What a request has become when the adapter has let it through.
Passed(c, h, x) ==
    /\ x.action \in Configured(c)
    /\ x.transport = c.transport[x.action]
    /\ h.cookie # None => h.bearer = None /\ x.transport = "cookie"
    /\ h.bearer # None => x.transport = "bearer"
    /\ x.credential = IF h.bearer # None THEN h.bearer ELSE h.cookie
    /\ x # NoContext

LEMMA RefusedOrPassed ==
  ASSUME NEW c \in Configurations, Accepted(c), NEW a \in Configured(c), NEW h,
         h.method = c.method[a], h.path = c.path[a]
  PROVE  LET p == ParseRequest(c, h) IN
         \/ IsContext(p) /\ p.action = a /\ Passed(c, h, p)
         \/ /\ ~IsContext(p)
            /\ p \in {Denied("INVALID_INPUT"), Denied("AMBIGUOUS_CREDENTIALS"),
                      AuthError("RUNTIME_MISCONFIGURED")}
            /\ p.code = "RUNTIME_MISCONFIGURED" => c.trusted # {}
<1>1. ResolveAction(c, h) = a /\ a \in Actions /\ a # None /\ c.transport[a] # None
  BY RoutesResolve, Nones DEF Configured
<1> DEFINE p == ParseRequest(c, h)
<1> DEFINE t == IF Presented(c, h) = "bearer" THEN h.bearer ELSE h.cookie
<1>0. CookieRead(c, h) = h.cookie /\ ~ComparisonThrows(c, h)
  BY DEF CookieRead, ComparisonThrows, Accepted, StartupConfigIsValid, RuntimeConfigIsValid
<1>2. CASE \/ h.envelope.repeated \/ ForwardedAtOdds(c, h) \/ h.envelope.malformed
           \/ h.cookie # None /\ h.bearer # None
           \/ Presented(c, h) \notin {None, c.transport[a]} \/ BodyUnusable(a, h)
  <2>1. p \in {Denied("INVALID_INPUT"), Denied("AMBIGUOUS_CREDENTIALS"),
               AuthError("RUNTIME_MISCONFIGURED")}
        /\ (p = AuthError("RUNTIME_MISCONFIGURED") => ForwardedAtOdds(c, h))
    BY <1>0, <1>1, <1>2 DEF ParseRequest, Denied, AuthError, Result
  <2> HIDE DEF p
  <2>2. ~IsContext(p)
    BY <2>1 DEF IsContext, Denied, AuthError, Result
  <2>3. p.code = "RUNTIME_MISCONFIGURED" => p = AuthError("RUNTIME_MISCONFIGURED")
    BY <2>1 DEF Denied, AuthError, Result
  <2> QED BY <2>1, <2>2, <2>3 DEF ForwardedAtOdds, p
<1>3. CASE ~(\/ h.envelope.repeated \/ ForwardedAtOdds(c, h) \/ h.envelope.malformed
             \/ h.cookie # None /\ h.bearer # None
             \/ Presented(c, h) \notin {None, c.transport[a]} \/ BodyUnusable(a, h))
  <2>1. p = ContextOf(a, c.transport[a], t)
    BY <1>0, <1>1, <1>3 DEF ParseRequest
  <2>0. t = IF h.bearer # None THEN h.bearer ELSE h.cookie
    <3>1. "cookie" # None /\ "bearer" # None
      BY Nones DEF Transports
    <3> QED BY <3>1 DEF Presented
  <2> HIDE DEF p, t
  <2>2. /\ IsContext(p) /\ p.action = a /\ p.transport = c.transport[a]
        /\ p.credential = t
    BY <2>1 DEF IsContext, ContextOf
  <2>3. p # NoContext
    BY <1>1, <2>2 DEF NoContext
  <2>4. /\ h.cookie # None => h.bearer = None /\ c.transport[a] = "cookie"
        /\ h.bearer # None => c.transport[a] = "bearer"
    <3>1. "cookie" # None /\ "bearer" # None
      BY Nones DEF Transports
    <3> QED BY <1>0, <1>1, <1>3, <3>1 DEF Presented
  <2> QED BY <2>0, <2>2, <2>3, <2>4 DEF Passed, p
<1> QED BY <1>2, <1>3

LEMMA ElsewhereIsNotHandled ==
  ASSUME NEW c \in Configurations, NEW h, h.path \in Paths \ EntrypointPaths(c)
  PROVE  ParseRequest(c, h) = Result("notHandled", None) /\ ~IsContext(ParseRequest(c, h))
<1>1. Matching(c, h) = {}
  BY TwelveActions, Nones DEF Matching, EntrypointPaths
<1>2. ParseRequest(c, h) = Result("notHandled", None)
  BY <1>1 DEF ParseRequest, ResolveAction
<1> QED BY <1>2 DEF IsContext, Result

-----------------------------------------------------------------------------
(* Requests in flight *)

Awaits == {"validate", "csrf", "policies", "execute"}

Indexed ==
    /\ DOMAIN pc = Requests /\ DOMAIN http = Requests /\ DOMAIN context = Requests
    /\ DOMAIN session = Requests /\ DOMAIN asked = Requests /\ DOMAIN answer = Requests

\* What a request has been told.
Told(r) ==
    /\ answer[r].setCookie = None
    /\ answer[r].transport \in {None, context[r].transport}
    /\ answer[r].kind # "thrown"
    /\ answer[r].kind = "redirect" => config.redirects
    /\ answer[r].code = "RUNTIME_MISCONFIGURED" =>
          config.trusted # {} /\ context[r] = NoContext
    /\ SignedOut(r) => answer[r].clear = context[r].transport

\* How a request has come to where it is.
Handled(r) ==
    /\ pc[r] \in Awaits \cup {"idle", "answered"}
    /\ pc[r] # "idle" => stage = "serving"
    /\ pc[r] # "answered" => answer[r] = NoAnswer
    /\ pc[r] = "idle" => asked[r] = 0 /\ context[r] = NoContext
    /\ pc[r] \in Awaits => context[r] # NoContext
    /\ context[r] # NoContext => Passed(config, http[r], context[r])
    /\ pc[r] \in {"policies", "execute"} => CsrfAllows(config, http[r])
    /\ asked[r] \in 0..Len(config.policies)
    /\ pc[r] = "execute" => asked[r] = Len(config.policies) \/ SkipsPolicies(r)
    /\ Told(r)

\* The client keeps only credentials of transports that are in use.
ClientKeeps ==
    /\ jar # None => config.mode # "bearer"
    /\ held # None => config.mode # "cookie"

Rows == table = [s \in Sessions |-> table[s]]

Inv == Composed /\ Indexed /\ Rows /\ ClientKeeps /\ \A r \in Requests : Handled(r)

RequestStep(r) ==
    Sends(r) \/ SendsElsewhere(r) \/ Handles(r) \/ Deliver(r) \/ Lose(r)

Untouched(q) ==
    /\ pc'[q] = pc[q] /\ http'[q] = http[q] /\ context'[q] = context[q]
    /\ session'[q] = session[q] /\ asked'[q] = asked[q] /\ answer'[q] = answer[q]

LEMMA Frame ==
  ASSUME Indexed, NEW r \in Requests, RequestStep(r)
  PROVE  UNCHANGED startupVars /\ Indexed' /\ \A q \in Requests \ {r} : Untouched(q)
<1> USE DEF Indexed, Untouched, Goto, Answer, Forget
<1>1. CASE Sends(r) \/ SendsElsewhere(r)
  <2>1. PICK h : Arrive(r, h)
    BY <1>1 DEF Sends, SendsElsewhere
  <2> DEFINE p == ParseRequest(config, h)
  <2> HIDE DEF p
  <2>2. /\ UNCHANGED <<startupVars, session, asked>>
        /\ http' = [http EXCEPT ![r] = h] \/ UNCHANGED http
        /\ context' = [context EXCEPT ![r] = p] \/ UNCHANGED context
        /\ \E l : pc' = [pc EXCEPT ![r] = l]
        /\ \/ UNCHANGED answer
           \/ \E x : answer' = [answer EXCEPT ![r] = x]
    BY <2>1 DEF Arrive, p
  <2> QED BY <2>2
<1>2. CASE ValidateSession(r) \/ CheckCsrf(r) \/ AskPolicy(r) \/ PoliciesAllow(r) \/ Fails(r)
  BY <1>2 DEF ValidateSession, CheckCsrf, AskPolicy, PoliciesAllow, Fails
<1>3. CASE IssueSession(r) \/ PluginAnswers(r) \/ GetSession(r) \/ Extend(r)
           \/ Rotate(r) \/ Logout(r) \/ LogoutAll(r)
  BY <1>3 DEF IssueSession, PluginAnswers, GetSession, Extend, Rotate, Logout, LogoutAll,
     Executes
<1>4. CASE Deliver(r) \/ Lose(r)
  BY <1>4 DEF Deliver, Lose
<1> QED BY <1>1, <1>2, <1>3, <1>4 DEF RequestStep, Handles

LEMMA PoliciesAreListed ==
  ASSUME NEW c \in Configurations
  PROVE  Len(c.policies) \in Nat /\ DOMAIN c.policies = 1..Len(c.policies)
  BY ConfigAssumption DEF WellTyped, Config

\* The answers that are neither a session nor the end of one.
Plain(x) ==
    /\ x.setCookie = None /\ x.transport = None /\ x.kind # "thrown"
    /\ x.code # "RUNTIME_MISCONFIGURED"

LEMMA PlainAnswers ==
    /\ \A k \in {"INVALID_INPUT", "AMBIGUOUS_CREDENTIALS", "POLICY_DENIED"} :
          Plain(Denied(k)) /\ Denied(k).kind = "denied"
    /\ \A k \in {"POLICY_FAILURE", "STORAGE_UNAVAILABLE"} :
          Plain(AuthError(k)) /\ AuthError(k).kind = "error"
    /\ Plain(Revoked) /\ Revoked.kind = "unauthenticated"
    /\ Plain(Redirect) /\ Redirect.kind = "redirect"
    /\ Plain(Success) /\ Success.kind = "success" /\ Success.clear = None
    /\ Plain(Result("notHandled", None)) /\ Result("notHandled", None).kind = "notHandled"
    /\ Plain(NoAnswer) /\ NoAnswer.kind = "none"
    /\ Plain(Result("unauthenticated", "INVALID_CREDENTIALS"))
    /\ Result("unauthenticated", "INVALID_CREDENTIALS").kind = "unauthenticated"
<1>1. None # "RUNTIME_MISCONFIGURED"
  BY AbsenceAssumption
<1> QED
  BY <1>1 DEF Plain, Denied, AuthError, Revoked, Redirect, Success, NoAnswer, Result

-----------------------------------------------------------------------------
(* A step leaves its request well handled *)

LEMMA InvFacts ==
  ASSUME Inv, NEW r \in Requests
  PROVE  /\ Indexed /\ Handled(r) /\ config \in Configurations /\ ClientKeeps
         /\ Len(config.policies) \in Nat
         /\ DOMAIN config.policies = 1..Len(config.policies)
         /\ pc[r] # "idle" => stage = "serving" /\ Accepted(config)
         /\ stage = "serving" => Accepted(config)
  BY PoliciesAreListed DEF Inv, Composed, StartupTypeOK, Handled, Serviceable

LEMMA HandledByArrival ==
  ASSUME Inv, NEW r \in Requests, Sends(r) \/ SendsElsewhere(r)
  PROVE  Handled(r)'
<1>1. PICK h :
        /\ Arrive(r, h)
        /\ \/ \E a \in Configured(config) : h.method = config.method[a] /\ h.path = config.path[a]
           \/ h.path \in Paths \ EntrypointPaths(config)
  <2>1. CASE Sends(r)
    <3>1. PICK a \in Actions, e \in Envelopes, b \in {None, held} :
            /\ a \in Configured(config)
            /\ Arrive(r, [method |-> config.method[a], path |-> config.path[a],
                          cookie |-> jar, bearer |-> b, envelope |-> e])
      BY <2>1 DEF Sends
    <3> QED BY <3>1
  <2>2. CASE SendsElsewhere(r)
    <3>1. PICK e \in Envelopes, p \in Paths \ EntrypointPaths(config) :
            Arrive(r, [method |-> "GET", path |-> p,
                       cookie |-> jar, bearer |-> None, envelope |-> e])
      BY <2>2 DEF SendsElsewhere
    <3> QED BY <3>1
  <2> QED BY <2>1, <2>2
<1> DEFINE p == ParseRequest(config, h)
<1>2. /\ Indexed /\ Handled(r) /\ pc[r] = "idle" /\ stage = "serving"
      /\ config \in Configurations /\ Accepted(config)
      /\ UNCHANGED <<startupVars, session, asked>>
  BY <1>1, InvFacts DEF Arrive
<1>3. \/ IsContext(p) /\ Passed(config, h, p)
      \/ /\ ~IsContext(p)
         /\ p.setCookie = None /\ p.transport = None
         /\ p.kind \notin {"success", "redirect", "thrown"}
         /\ p.code = "RUNTIME_MISCONFIGURED" => config.trusted # {}
  <2>1. CASE \E a \in Configured(config) : h.method = config.method[a] /\ h.path = config.path[a]
    <3>1. PICK a \in Configured(config) : h.method = config.method[a] /\ h.path = config.path[a]
      BY <2>1
    <3>2. \/ IsContext(p) /\ Passed(config, h, p)
          \/ /\ ~IsContext(p)
             /\ p \in {Denied("INVALID_INPUT"), Denied("AMBIGUOUS_CREDENTIALS"),
                       AuthError("RUNTIME_MISCONFIGURED")}
             /\ p.code = "RUNTIME_MISCONFIGURED" => config.trusted # {}
      BY <1>2, <3>1, RefusedOrPassed
    <3> HIDE DEF p
    <3> QED BY <3>2 DEF Denied, AuthError, Result
  <2>2. CASE h.path \in Paths \ EntrypointPaths(config)
    <3>1. p = Result("notHandled", None) /\ ~IsContext(p)
      BY <1>2, <2>2, ElsewhereIsNotHandled
    <3> HIDE DEF p
    <3>2. Plain(p) /\ p.kind = "notHandled"
      BY <3>1, PlainAnswers
    <3> QED BY <3>1, <3>2 DEF Plain
  <2> QED BY <1>1, <2>1, <2>2
<1>4. CASE IsContext(p)
  <2>1. http'[r] = h /\ context'[r] = p /\ Passed(config, h, p)
    BY <1>1, <1>2, <1>3, <1>4 DEF Arrive, Indexed
  <2>2. \/ pc'[r] \in {"csrf", "validate"} /\ UNCHANGED answer
        \/ pc'[r] = "answered" /\ answer'[r] = Denied("INVALID_INPUT")
    <3> HIDE DEF p
    <3>1. CASE Entry(config, p) = "refuse"
      BY <1>1, <1>2, <1>4, <3>1 DEF Arrive, Answer, Indexed, p
    <3>2. CASE Entry(config, p) # "refuse"
      <4>1. Entry(config, p) \in {"csrf", "validate"}
        BY <3>2 DEF Entry
      <4>2. Goto(r, Entry(config, p))
        BY <1>1, <1>4, <3>2 DEF Arrive, p
      <4> QED BY <1>2, <4>1, <4>2 DEF Goto, Indexed
    <3> QED BY <3>1, <3>2
  <2> HIDE DEF p
  <2>3. Plain(answer'[r]) /\ answer'[r].kind \notin {"success", "redirect"}
    BY <1>2, <2>2, PlainAnswers DEF Handled
  <2>4. p # NoContext
    BY <2>1 DEF Passed
  <2>5. Told(r)'
    BY <2>3 DEF Told, Plain, SignedOut
  <2> QED BY <1>2, <2>1, <2>2, <2>4, <2>5 DEF Handled, Awaits, startupVars
<1>5. CASE ~IsContext(p)
  <2>1. UNCHANGED <<http, context>> /\ pc'[r] = "answered" /\ answer'[r] = p
    BY <1>1, <1>2, <1>5 DEF Arrive, Answer, Indexed
  <2> HIDE DEF p
  <2>2. context[r] = NoContext
    BY <1>2 DEF Handled
  <2>3. Told(r)'
    BY <1>2, <1>3, <1>5, <2>1, <2>2 DEF Told, SignedOut, startupVars
  <2> QED BY <1>2, <2>1, <2>2, <2>3 DEF Handled, Awaits, startupVars
<1> QED BY <1>4, <1>5

\* What a request in the kernel keeps from step to step.
Kept(r) == UNCHANGED <<startupVars, http, context>> /\ asked'[r] \in 0..Len(config.policies)

LEMMA HandledPlainly ==
  ASSUME Inv, NEW r \in Requests, pc[r] \in Awaits, Kept(r), pc'[r] = "answered",
         Plain(answer'[r]), answer'[r].kind = "redirect" => config.redirects,
         answer'[r].kind # "success" \/ context[r].action \notin {"logout", "logoutAll"}
  PROVE  Handled(r)'
<1>1. Handled(r) /\ pc[r] # "idle"
  BY InvFacts DEF Awaits
<1>2. Told(r)'
  BY <1>1 DEF Told, Plain, SignedOut, Kept, startupVars
<1> QED BY <1>1, <1>2 DEF Handled, Kept, startupVars

LEMMA HandledBeforeExecution ==
  ASSUME Inv, NEW r \in Requests,
         ValidateSession(r) \/ CheckCsrf(r) \/ AskPolicy(r) \/ PoliciesAllow(r) \/ Fails(r)
  PROVE  Handled(r)'
<1>1. /\ Indexed /\ Handled(r) /\ Len(config.policies) \in Nat
      /\ DOMAIN config.policies = 1..Len(config.policies)
      /\ pc[r] # "idle" => Accepted(config)
  BY InvFacts
<1>2. pc[r] \in Awaits /\ UNCHANGED <<startupVars, http, context>>
  BY DEF ValidateSession, CheckCsrf, AskPolicy, PoliciesAllow, Fails, Awaits
<1>3. asked'[r] \in 0..Len(config.policies)
  <2>1. CASE AskPolicy(r) /\ asked'[r] # asked[r]
    <3>1. asked[r] < Len(config.policies) /\ asked'[r] = asked[r] + 1
      BY <1>1, <2>1 DEF AskPolicy, Indexed
    <3> QED BY <1>1, <3>1 DEF Handled
  <2>2. CASE ~AskPolicy(r) \/ asked'[r] = asked[r]
    <3>1. asked'[r] = asked[r]
      BY <2>2 DEF ValidateSession, CheckCsrf, AskPolicy, PoliciesAllow, Fails
    <3> QED BY <1>1, <3>1 DEF Handled
  <2> QED BY <2>1, <2>2
<1>4. Kept(r)
  BY <1>2, <1>3 DEF Kept
<1>5. CASE pc'[r] = "answered"
  <2>1. /\ Plain(answer'[r]) /\ answer'[r].kind # "success"
        /\ answer'[r].kind = "redirect" => config.redirects
    <3>1. CASE ValidateSession(r)
      BY <1>1, <1>5, <3>1, PlainAnswers DEF ValidateSession, Answer, Goto, Indexed
    <3>2. CASE CheckCsrf(r)
      BY <1>1, <1>5, <3>2, PlainAnswers DEF CheckCsrf, Answer, Goto, Indexed
    <3>3. CASE AskPolicy(r)
      <4>1. config.policies[asked[r] + 1].mayRedirect => config.redirects
        <5>1. asked[r] + 1 \in DOMAIN config.policies
          BY <1>1, <3>3 DEF AskPolicy, Handled
        <5>2. RedirectsAreSupported(config)
          BY <1>1, <3>3 DEF AskPolicy, Accepted, StartupConfigIsValid
        <5> QED BY <5>1, <5>2 DEF RedirectsAreSupported
      <4>2. \/ answer'[r] \in {Denied("POLICY_DENIED"), AuthError("POLICY_FAILURE")}
            \/ answer'[r] = Redirect /\ config.redirects
        BY <1>1, <1>5, <3>3, <4>1 DEF AskPolicy, Answer, Goto, Indexed
      <4> QED BY <4>2, PlainAnswers
    <3>4. CASE PoliciesAllow(r)
      BY <1>1, <1>5, <3>4 DEF PoliciesAllow, Goto, Indexed
    <3>5. CASE Fails(r)
      BY <1>1, <3>5, PlainAnswers DEF Fails, Answer, Indexed
    <3> QED BY <3>1, <3>2, <3>3, <3>4, <3>5
  <2> QED BY <1>2, <1>4, <1>5, <2>1, HandledPlainly
<1>6. CASE pc'[r] # "answered"
  <2>1. UNCHANGED answer
    BY <1>1, <1>6 DEF ValidateSession, CheckCsrf, AskPolicy, PoliciesAllow, Fails, Answer,
       Goto, Indexed
  <2>2. CASE ValidateSession(r)
    <3>1. pc'[r] = "csrf"
      BY <1>1, <1>6, <2>2 DEF ValidateSession, Answer, Goto, Indexed
    <3> QED BY <1>1, <1>2, <1>4, <2>1, <3>1
            DEF Handled, Kept, startupVars, Told, SignedOut, Awaits
  <2>3. CASE CheckCsrf(r)
    <3>1. /\ pc'[r] = IF SkipsPolicies(r) THEN "execute" ELSE "policies"
          /\ CsrfAllows(config, http[r]) /\ UNCHANGED session
      BY <1>1, <1>6, <2>3 DEF CheckCsrf, Answer, Goto, Indexed
    <3> QED BY <1>1, <1>2, <1>4, <2>1, <3>1
            DEF Handled, Kept, startupVars, Told, SignedOut, Awaits, SkipsPolicies
  <2>4. CASE AskPolicy(r)
    <3>1. pc'[r] = "policies" /\ pc[r] = "policies"
      BY <1>1, <1>6, <2>4 DEF AskPolicy, Answer, Goto, Indexed
    <3> QED BY <1>1, <1>2, <1>4, <2>1, <3>1
            DEF Handled, Kept, startupVars, Told, SignedOut, Awaits
  <2>5. CASE PoliciesAllow(r)
    <3>1. /\ pc'[r] = "execute" /\ pc[r] = "policies"
          /\ asked[r] = Len(config.policies) /\ UNCHANGED asked
      BY <1>1, <2>5 DEF PoliciesAllow, Goto, Indexed
    <3> QED BY <1>1, <1>2, <1>4, <2>1, <3>1
            DEF Handled, Kept, startupVars, Told, SignedOut, Awaits
  <2>6. CASE Fails(r)
    BY <1>1, <1>6, <2>6 DEF Fails, Answer, Indexed
  <2> QED BY <2>2, <2>3, <2>4, <2>5, <2>6
<1> QED BY <1>5, <1>6

LEMMA HandledByExecution ==
  ASSUME Inv, NEW r \in Requests,
         \/ IssueSession(r) \/ PluginAnswers(r) \/ GetSession(r) \/ Extend(r)
         \/ Rotate(r) \/ Logout(r) \/ LogoutAll(r)
  PROVE  Handled(r)'
<1>1. /\ Indexed /\ Handled(r)
  BY InvFacts
<1>2. /\ pc[r] = "execute" /\ UNCHANGED <<startupVars, http, context, session, asked>>
      /\ pc'[r] = "answered" /\ Kept(r) /\ pc[r] \in Awaits
  BY <1>1 DEF IssueSession, PluginAnswers, GetSession, Extend, Rotate, Logout, LogoutAll,
     Executes, Answer, Indexed, Kept, Awaits, Handled
<1>3. CASE GetSession(r) \/ PluginAnswers(r)
  <2>1. Plain(answer'[r]) /\ (answer'[r].kind = "redirect" => config.redirects)
    <3>1. CASE GetSession(r)
      BY <1>1, <3>1, PlainAnswers DEF GetSession, Answer, Indexed
    <3>2. CASE PluginAnswers(r)
      <4>1. /\ answer'[r] \in {Result("unauthenticated", "INVALID_CREDENTIALS"),
                               Redirect, Success}
            /\ answer'[r] = Redirect => context[r].action = "startOAuth"
        <5>1. PICK x \in Outcomes(context[r].action) : answer'[r] = x
          BY <1>1, <3>2 DEF PluginAnswers, Answer, Indexed
        <5>2. Success # Redirect /\ Result("unauthenticated", "INVALID_CREDENTIALS") # Redirect
          BY PlainAnswers
        <5> QED BY <5>1, <5>2 DEF Outcomes
      <4>2. context[r].action = "startOAuth" => config.redirects
        <5>1. Accepted(config) /\ Passed(config, http[r], context[r])
          BY <1>1, <1>2, InvFacts DEF Handled, Awaits
        <5>2. context[r].action = "startOAuth" => OAuthActions \cap Configured(config) # {}
          BY <5>1 DEF Passed, OAuthActions
        <5> QED BY <5>1, <5>2 DEF Accepted, StartupConfigIsValid, OAuthIsUsable
      <4> QED BY <4>1, <4>2, PlainAnswers
    <3> QED BY <1>3, <3>1, <3>2
  <2>2. context[r].action \notin {"logout", "logoutAll"}
    BY <1>3 DEF GetSession, PluginAnswers, Executes, BuiltInActions
  <2> QED BY <1>2, <2>1, <2>2, HandledPlainly
<1>4. CASE IssueSession(r) \/ Extend(r) \/ Rotate(r)
  <2>1. \/ answer'[r] = Revoked
        \/ \E t : answer'[r] = Issued(context[r].transport, t)
    BY <1>1, <1>4 DEF IssueSession, Extend, Rotate, Answer, Indexed
  <2>2. context[r].action \notin {"logout", "logoutAll"}
    BY <1>4 DEF IssueSession, Extend, Rotate, Executes
  <2>3. CASE answer'[r] = Revoked
    BY <1>2, <2>2, <2>3, PlainAnswers, HandledPlainly
  <2>4. CASE \E t : answer'[r] = Issued(context[r].transport, t)
    <3>1. /\ answer'[r].setCookie = None /\ answer'[r].transport = context[r].transport
          /\ answer'[r].code = None /\ answer'[r].kind = "success"
      BY <2>4 DEF Issued, Success, Result
    <3>2. Told(r)'
      BY <1>2, <2>2, <3>1, AbsenceAssumption DEF Told, SignedOut
    <3> QED BY <1>1, <1>2, <3>2 DEF Handled, Kept, startupVars, Awaits
  <2> QED BY <2>1, <2>3, <2>4
<1>5. CASE Logout(r) \/ LogoutAll(r)
  <2>1. answer'[r] = Cleared(r)
    BY <1>1, <1>5 DEF Logout, LogoutAll, Answer, Indexed
  <2>2. /\ answer'[r].setCookie = None /\ answer'[r].transport = None
        /\ answer'[r].code = None /\ answer'[r].clear = context[r].transport
        /\ answer'[r].kind = "success"
    BY <2>1 DEF Cleared, Success, Result
  <2>3. Told(r)'
    BY <1>2, <2>2, AbsenceAssumption DEF Told, SignedOut
  <2> QED BY <1>1, <1>2, <2>3 DEF Handled, Kept, startupVars, Awaits
<1> QED BY <1>3, <1>4, <1>5

LEMMA HandledWhenForgotten ==
  ASSUME Inv, NEW r \in Requests, Deliver(r) \/ Lose(r)
  PROVE  Handled(r)'
<1>1. /\ Indexed /\ Handled(r) /\ Len(config.policies) \in Nat
  BY InvFacts
<1>2. /\ pc'[r] = "idle" /\ context'[r] = NoContext /\ session'[r] = None
      /\ asked'[r] = 0 /\ answer'[r] = NoAnswer /\ UNCHANGED startupVars
  BY <1>1 DEF Deliver, Lose, Forget, Indexed
<1>3. Told(r)'
  BY <1>2, PlainAnswers DEF Told, Plain, SignedOut
<1> QED BY <1>1, <1>2, <1>3 DEF Handled, startupVars, Awaits

-----------------------------------------------------------------------------
(* The invariant *)

LEMMA RowsStep ==
  ASSUME Inv, [Next]_vars
  PROVE  Rows'
<1> USE DEF Rows
<1>1. Rows
  BY DEF Inv
<1>2. CASE UNCHANGED table
  BY <1>1, <1>2
<1>3. ASSUME NEW r \in Requests, IssueSession(r) \/ Rotate(r) PROVE Rows'
  <2>1. CASE IssueSession(r)
    BY <1>1, <2>1 DEF IssueSession
  <2>2. CASE Rotate(r)
    <3>1. UNCHANGED table \/ \E t : table' = [table EXCEPT ![session[r]].token = t]
      BY <2>2 DEF Rotate, sessionVars
    <3> QED BY <1>1, <3>1
  <2> QED BY <1>3, <2>1, <2>2
<1>4. ASSUME NEW S, End(S) PROVE Rows'
  BY <1>4 DEF End
<1>5. ASSUME NEW r \in Requests, RequestStep(r) PROVE Rows'
  <2>1. CASE IssueSession(r) \/ Rotate(r)
    BY <1>3, <2>1
  <2>2. CASE Logout(r) \/ LogoutAll(r)
    BY <1>4, <2>2 DEF Logout, LogoutAll
  <2>3. CASE ~(IssueSession(r) \/ Rotate(r) \/ Logout(r) \/ LogoutAll(r))
    <3>1. UNCHANGED table
      BY <1>5, <2>3 DEF RequestStep, Sends, SendsElsewhere, Arrive, Handles, ValidateSession,
         CheckCsrf, AskPolicy, PoliciesAllow, PluginAnswers, GetSession, Extend, Fails,
         Deliver, Lose, sessionVars
    <3> QED BY <1>2, <3>1
  <2> QED BY <2>1, <2>2, <2>3
<1>6. ASSUME NEW s \in Sessions, SessionEnds(s) PROVE Rows'
  BY <1>4, <1>6 DEF SessionEnds
<1>7. CASE ProcessComposes \/ ProcessRestarts \/ UNCHANGED vars
  BY <1>2, <1>7 DEF ProcessComposes, ProcessRestarts, vars, sessionVars
<1> QED BY <1>5, <1>6, <1>7 DEF Next, RequestStep

\* In a mode of one transport every answer is of it.
LEMMA AnswersMatchMode ==
  ASSUME Inv, NEW r \in Requests, answer[r].transport # None, config.mode # "both"
  PROVE  answer[r].transport = config.mode
<1>1. /\ Handled(r) /\ config \in Configurations
      /\ pc[r] # "idle" => Accepted(config)
  BY InvFacts
<1>2. pc[r] = "answered"
  BY <1>1, PlainAnswers DEF Handled, Plain, Awaits
<1>3. TransportsMatchMode(config)
  BY <1>1, <1>2 DEF Accepted, StartupConfigIsValid
<1>4. answer[r].transport = context[r].transport
  BY <1>1 DEF Handled, Told
<1>5. context[r] # NoContext
  BY <1>4 DEF NoContext
<1>6. context[r].action \in Configured(config)
      /\ context[r].transport = config.transport[context[r].action]
  BY <1>1, <1>5 DEF Handled, Passed
<1> QED BY <1>3, <1>4, <1>6 DEF TransportsMatchMode, Configured

LEMMA ClientStep ==
  ASSUME Inv, [Next]_vars
  PROVE  ClientKeeps'
<1>1. ClientKeeps /\ config \in Configurations
  BY DEF Inv, Composed, StartupTypeOK
<1>2. UNCHANGED config
  <2>1. ASSUME NEW r \in Requests, RequestStep(r) PROVE UNCHANGED config
    BY <2>1, Frame DEF Inv, startupVars
  <2>2. CASE ProcessComposes \/ ProcessRestarts \/ \E s \in Sessions : SessionEnds(s)
    BY <2>2 DEF ProcessComposes, Composes, Compose, CheckTables, CheckColumns, Serve,
       QueryFails, Migrate, ProcessRestarts, Restart, Goes, SessionEnds, startupVars
  <2>3. UNCHANGED vars => UNCHANGED config
    BY DEF vars, startupVars
  <2> QED BY <2>1, <2>2, <2>3 DEF Next, RequestStep
<1>3. CASE UNCHANGED clientVars
  BY <1>1, <1>2, <1>3 DEF ClientKeeps, clientVars
<1>4. ASSUME NEW r \in Requests, Deliver(r) PROVE ClientKeeps'
  <2>1. /\ jar' \in JarsCleared \cup {jar}
           \cup {x \in {answer[r].token} : answer[r].transport = "cookie"}
        /\ held' \in {None, held}
           \cup {x \in {answer[r].token} : answer[r].transport = "bearer"}
    <3>1. answer[r].setCookie = None
      BY <1>4, InvFacts DEF Handled, Told
    <3> QED BY <1>4, <3>1 DEF Deliver, ApplyResult
  <2>2. JarsCleared \subseteq {jar, None}
    BY DEF JarsCleared
  <2>3. jar' \notin {jar, None} => answer[r].transport = "cookie"
    BY <2>1, <2>2
  <2>4. held' \notin {held, None} => answer[r].transport = "bearer"
    BY <2>1
  <2>5. "cookie" # None /\ "bearer" # None
    BY Nones DEF Transports
  <2> QED BY <1>1, <1>2, <2>3, <2>4, <2>5, AnswersMatchMode DEF ClientKeeps
<1>5. ASSUME NEW r \in Requests, RequestStep(r), ~Deliver(r) PROVE UNCHANGED clientVars
  BY <1>5 DEF RequestStep, Sends, SendsElsewhere, Arrive, Handles, ValidateSession,
     CheckCsrf, AskPolicy, PoliciesAllow, IssueSession, PluginAnswers, GetSession, Extend,
     Rotate, Logout, LogoutAll, Fails, Lose, Executes
<1>6. ProcessComposes \/ ProcessRestarts \/ (\E s \in Sessions : SessionEnds(s))
      \/ UNCHANGED vars => UNCHANGED clientVars
  BY DEF ProcessComposes, ProcessRestarts, SessionEnds, vars
<1> QED BY <1>3, <1>4, <1>5, <1>6 DEF Next, RequestStep

LEMMA InvInit == Init => Inv
<1> SUFFICES ASSUME Init PROVE Inv
  OBVIOUS
<1>1. Composed
  BY ComposedInit
<1>2. Indexed /\ Rows /\ ClientKeeps
  BY DEF Init, Indexed, Rows, ClientKeeps
<1>3. ASSUME NEW r \in Requests PROVE Handled(r)
  <2>1. /\ pc[r] = "idle" /\ context[r] = NoContext /\ asked[r] = 0
        /\ answer[r] = NoAnswer /\ Len(config.policies) \in Nat
    BY <1>1, PoliciesAreListed DEF Init, Composed, StartupTypeOK
  <2>2. Told(r)
    BY <2>1, PlainAnswers DEF Told, Plain, SignedOut
  <2> QED BY <2>1, <2>2 DEF Handled, Awaits
<1> QED BY <1>1, <1>2, <1>3 DEF Inv

LEMMA InvStep ==
  ASSUME Inv, [Next]_vars
  PROVE  Inv'
<1>1. Composed' /\ Rows' /\ ClientKeeps'
  BY ComposedStep, RowsStep, ClientStep DEF Inv
<1>2. ASSUME NEW r \in Requests, RequestStep(r) PROVE Indexed' /\ \A q \in Requests : Handled(q)'
  <2>1. UNCHANGED startupVars /\ Indexed' /\ \A q \in Requests \ {r} : Untouched(q)
    BY <1>2, Frame DEF Inv
  <2>2. Handled(r)'
    BY <1>2, HandledByArrival, HandledBeforeExecution, HandledByExecution,
       HandledWhenForgotten DEF RequestStep, Handles
  <2>3. ASSUME NEW q \in Requests \ {r} PROVE Handled(q)'
    <3>1. Handled(q) /\ Untouched(q)
      BY <2>1 DEF Inv
    <3> QED BY <2>1, <3>1 DEF Handled, Untouched, Told, SignedOut, SkipsPolicies, startupVars
  <2> QED BY <2>1, <2>2, <2>3
<1>3. CASE UNCHANGED requestVars /\ UNCHANGED config /\ (stage = "serving" => stage' = stage)
  <2>1. Indexed'
    BY <1>3 DEF Inv, Indexed, requestVars
  <2>2. ASSUME NEW q \in Requests PROVE Handled(q)'
    BY <1>3 DEF Inv, Handled, Told, SignedOut, SkipsPolicies, requestVars
  <2> QED BY <1>1, <2>1, <2>2 DEF Inv
<1>4. CASE ProcessComposes
  BY <1>3, <1>4 DEF ProcessComposes, Composes, Compose, CheckTables, CheckColumns, Serve,
     QueryFails, Migrate, Goes
<1>5. CASE ProcessRestarts
  <2>1. Indexed' /\ UNCHANGED config
    BY <1>5 DEF ProcessRestarts, Indexed, Restart, Goes
  <2>2. ASSUME NEW q \in Requests PROVE Handled(q)'
    <3>1. /\ pc'[q] = "idle" /\ context'[q] = NoContext /\ asked'[q] = 0
          /\ answer'[q] = NoAnswer /\ Len(config'.policies) \in Nat
      BY <1>5, <2>1, InvFacts DEF ProcessRestarts
    <3>2. Told(q)'
      BY <3>1, PlainAnswers DEF Told, Plain, SignedOut
    <3> QED BY <3>1, <3>2 DEF Handled, Awaits
  <2> QED BY <1>1, <2>1, <2>2 DEF Inv
<1>6. CASE \E s \in Sessions : SessionEnds(s)
  BY <1>3, <1>6 DEF SessionEnds, startupVars
<1>7. CASE UNCHANGED vars
  BY <1>3, <1>7 DEF vars, startupVars
<1> QED BY <1>1, <1>2, <1>4, <1>5, <1>6, <1>7 DEF Next, RequestStep, Inv

LEMMA Invariance == Spec => []Inv
  BY InvInit, InvStep, PTL DEF Spec

-----------------------------------------------------------------------------
(* What follows *)

\* What a path leads to is configured, and nothing if it is no entrypoint.
LEMMA PathsResolve ==
  ASSUME NEW c \in Configurations, Accepted(c), NEW m \in Methods, NEW p \in Paths
  PROVE  LET h == [NoHttp EXCEPT !.method = m, !.path = p] IN
         /\ ResolveAction(c, h) \in Configured(c) \cup {None}
         /\ p \notin EntrypointPaths(c) => ResolveAction(c, h) = None
<1> DEFINE h == [NoHttp EXCEPT !.method = m, !.path = p]
<1>1. h.method = m /\ h.path = p /\ m # None /\ p # None
  BY Nones DEF NoHttp
<1> HIDE DEF h
<1>2. CASE \E a \in Actions : c.method[a] = m /\ c.path[a] = p
  <2>1. PICK a \in Actions : c.method[a] = m /\ c.path[a] = p
    BY <1>2
  <2>2. a \in Configured(c)
    BY <1>1, <2>1, ConfiguredByRoute
  <2>3. ResolveAction(c, h) = a
    BY <1>1, <2>1, <2>2, RoutesResolve
  <2>4. p \in EntrypointPaths(c)
    BY <1>1, <2>1 DEF EntrypointPaths
  <2> QED BY <2>2, <2>3, <2>4 DEF h
<1>3. CASE ~\E a \in Actions : c.method[a] = m /\ c.path[a] = p
  <2>1. Matching(c, h) = {}
    BY <1>1, <1>3, TwelveActions DEF Matching
  <2> QED BY <2>1 DEF ResolveAction, h
<1> QED BY <1>2, <1>3

LEMMA FlowsServed ==
  ASSUME Accepted(config)
  PROVE  FlowsAreServed
<1>1. /\ {"startOAuth", "finishOAuth"} \cap Configured(config) \in {{}, {"startOAuth", "finishOAuth"}}
      /\ {"requestPasswordReset", "resetPassword"} \cap Configured(config)
            \in {{}, {"requestPasswordReset", "resetPassword"}}
      /\ {"requestEmailVerification", "verifyEmail"} \cap Configured(config)
            \in {{}, {"requestEmailVerification", "verifyEmail"}}
  BY DEF Accepted, StartupConfigIsValid, PairsAreConfiguredTogether, OAuthActions,
     ResetActions, VerificationActions
<1> QED BY <1>1 DEF FlowsAreServed

LEMMA ProvidersServed ==
  ASSUME config \in Configurations, Accepted(config)
  PROVE  ProvidersAreServed
<1> SUFFICES ASSUME "startOAuth" \in Configured(config) PROVE ProvidersAreServed
  BY DEF ProvidersAreServed
<1>1. /\ Known(config) # {} /\ CallbacksAreDistinct(config)
      /\ \A p \in Known(config) :
            config.providers[p].complete /\ config.providers[p].pkce = "S256"
  BY DEF Accepted, StartupConfigIsValid, OAuthIsUsable, OAuthActions
<1>2. ASSUME NEW p \in Known(config), NEW m \in Methods
      PROVE  ResolveAction(config, [NoHttp EXCEPT !.method = m,
                                        !.path = config.providers[p].callback]) = None
  <2>1. config.providers[p] \in Provider
    BY ConfigAssumption DEF WellTyped, Config, Known
  <2>2. config.providers[p].callback \in Paths
    BY <2>1 DEF Provider
  <2>3. config.providers[p].callback \notin EntrypointPaths(config)
    BY <1>1 DEF CallbacksAreDistinct
  <2> QED BY <2>2, <2>3, PathsResolve
<1>3. \A p \in Known(config) : \A q \in Known(config) \ {p} :
         config.providers[q].callback # config.providers[p].callback
  BY <1>1 DEF CallbacksAreDistinct
<1> QED BY <1>1, <1>2, <1>3 DEF ProvidersAreServed

LEMMA RequestsServed ==
  ASSUME Inv
  PROVE  RequestsAreServed
<1>1. ASSUME NEW r \in Requests
      PROVE  ApplyResult(answer[r]).code = "RUNTIME_MISCONFIGURED" =>
                config.trusted # {} /\ context[r] = NoContext
  <2>1. Told(r)
    BY DEF Inv, Handled
  <2>2. ApplyResult(answer[r]).code = answer[r].code
    BY <2>1 DEF Told, ApplyResult
  <2> QED BY <2>1, <2>2 DEF Told
<1>2. ASSUME NEW r \in Requests
      PROVE  /\ answer[r].kind # "thrown"
             /\ context[r] # NoContext => Passed(config, http[r], context[r])
  BY DEF Inv, Handled, Told
<1> QED BY <1>1, <1>2 DEF RequestsAreServed, Passed

\* What validateStartupConfig and validateNodeConfig let pass, the kernel and
\* the adapter find usable: every configured entrypoint is reached by its route
\* and has one owner, every provider can be used and called back, and neither a
\* policy's redirect nor a provider's meets a runtime that cannot make it,
\* whatever plugins, policies and providers a configuration has.
THEOREM EntrypointsAreServed == Spec => []EveryEntrypointIsServed
<1>1. ASSUME Inv, stage = "serving" PROVE EveryEntrypointIsServed
  <2>1. config \in Configurations /\ Accepted(config)
    BY <1>1 DEF Inv, Composed, StartupTypeOK, Serviceable
  <2>2. ASSUME NEW a \in Configured(config)
        PROVE  ResolveAction(config, Route(config, a)) = a
    <3>1. /\ Route(config, a).method = config.method[a]
          /\ Route(config, a).path = config.path[a]
      BY DEF Route, NoHttp
    <3> QED BY <2>1, <3>1, RoutesResolve
  <2>3. RoutesAreServed
    BY <2>1, <2>2, OneOwner, PathsResolve DEF RoutesAreServed
  <2> QED BY <1>1, <2>1, <2>3, FlowsServed, ProvidersServed, RequestsServed
          DEF EveryEntrypointIsServed
<1>2. Inv => EveryEntrypointIsServed
  BY <1>1 DEF EveryEntrypointIsServed
<1> QED BY <1>2, Invariance, PTL

\* Nothing is executed that did not come from the application's own origin,
\* with one credential of the right transport, allowed by every policy, except
\* a logout without a session, which ends none.
THEOREM OnlyAuthorisedEffects == Spec => EffectsAreAuthorised
<1> DEFINE Authorised(r) ==
      pc[r] = "execute" /\ pc'[r] = "answered" =>
         LET asks == config.transport[context[r].action] IN
         /\ config.publicOrigin = "origin" /\ OwnOrigin(http[r])
         /\ http[r].cookie # None => http[r].bearer = None /\ asks = "cookie"
         /\ http[r].bearer # None => asks = "bearer"
         /\ \/ asked[r] = Len(config.policies)
            \/ context[r].action = "logout" /\ table' = table
<1>1. ASSUME Inv, Next, NEW r \in Requests PROVE Authorised(r)
  <2>1. HAVE pc[r] = "execute" /\ pc'[r] = "answered"
  <2>2. Handled(r) /\ context[r] # NoContext /\ Indexed /\ Rows
    BY <1>1, <2>1 DEF Inv, Handled, Awaits
  <2>3. /\ CsrfAllows(config, http[r]) /\ Passed(config, http[r], context[r])
        /\ asked[r] = Len(config.policies) \/ SkipsPolicies(r)
    BY <2>1, <2>2 DEF Handled
  <2>4. RequestStep(r)
    <3>1. ~(ProcessComposes \/ \E s \in Sessions : SessionEnds(s))
      BY <2>1 DEF ProcessComposes, SessionEnds, requestVars
    <3>2. ~ProcessRestarts
      BY <2>1 DEF ProcessRestarts
    <3>3. ASSUME NEW q \in Requests, RequestStep(q) PROVE q = r
      BY <2>1, <2>2, <3>3, Frame DEF Untouched
    <3> QED BY <1>1, <3>1, <3>2, <3>3 DEF Next, RequestStep
  <2>5. SkipsPolicies(r) => table' = table
    <3>1. HAVE SkipsPolicies(r)
    <3>2. context[r].action = "logout" /\ session[r] = None
      BY <3>1 DEF SkipsPolicies
    <3>3. Logout(r) \/ Fails(r)
      BY <2>1, <2>2, <2>4, <3>2 DEF RequestStep, Sends, SendsElsewhere, Arrive, Handles,
         ValidateSession, CheckCsrf, AskPolicy, PoliciesAllow, IssueSession, PluginAnswers,
         GetSession, Extend, Rotate, LogoutAll, Executes, BuiltInActions, Deliver, Lose,
         Forget, Indexed
    <3>4. CASE Logout(r)
      <4>1. End({None})
        BY <3>2, <3>4 DEF Logout
      <4>2. \A s \in Sessions : s # None
        BY AbsenceAssumption
      <4>3. table' = [s \in Sessions |-> table[s]]
        BY <4>1, <4>2 DEF End
      <4> QED BY <2>2, <4>3 DEF Rows
    <3>5. CASE Fails(r)
      BY <3>5 DEF Fails, sessionVars
    <3> QED BY <3>3, <3>4, <3>5
  <2> QED BY <2>3, <2>5 DEF CsrfAllows, Passed, SkipsPolicies
<1>2. ASSUME UNCHANGED vars, NEW r \in Requests PROVE Authorised(r)
  BY <1>2 DEF vars, requestVars
<1>3. Inv /\ [Next]_vars => [\A r \in Requests : Authorised(r)]_vars
  BY <1>1, <1>2
<1> QED BY <1>3, Invariance, PTL DEF Spec, EffectsAreAuthorised

\* The success of a logout takes the credential it was sent with from the
\* client, unless it is a cookie that was set for a domain.
THEOREM SignOutIsComplete == Spec => SignOutClearsClient
<1> DEFINE Clears(r) ==
      SignedOut(r) /\ Deliver(r) =>
         /\ http[r].bearer # None => held' = None
         /\ http[r].cookie # None => jar' = None \/ config.cookieDomain
<1>1. ASSUME Inv, NEW r \in Requests PROVE Clears(r)
  <2>1. HAVE SignedOut(r) /\ Deliver(r)
  <2>2. Handled(r) /\ answer[r].clear = context[r].transport /\ answer[r].setCookie = None
    BY <1>1, <2>1 DEF Inv, Handled, Told
  <2>3. context[r] # NoContext
    <3>1. None \notin {"logout", "logoutAll"}
      <4>1. {"logout", "logoutAll"} \subseteq Actions
        BY TwelveActions DEF SupportedActions, Actions
      <4> QED BY <4>1, Nones
    <3> QED BY <2>1, <3>1 DEF SignedOut, NoContext
  <2>4. Passed(config, http[r], context[r])
    BY <2>2, <2>3 DEF Handled
  <2>5. http[r].bearer # None => held' = None
    BY <2>1, <2>2, <2>4 DEF Passed, Deliver, ApplyResult
  <2>6. http[r].cookie # None => jar' \in JarsCleared
    BY <2>1, <2>2, <2>4 DEF Passed, Deliver, ApplyResult
  <2>7. config.cookiePath
    BY <1>1, <2>2, <2>3, InvFacts DEF Handled, Accepted, StartupConfigIsValid
  <2> QED BY <2>5, <2>6, <2>7 DEF JarsCleared
<1>2. Inv /\ [Next]_vars => [\A r \in Requests : Clears(r)]_vars
  BY <1>1
<1> QED BY <1>2, Invariance, PTL DEF Spec, SignOutClearsClient

\* Whatever credential a client still keeps, where one transport is in use its
\* sign-in gets past parseRequest and the CSRF policy.
THEOREM NobodyIsLockedOut == Spec => []StaleClientsCanSignIn
<1>1. ASSUME Inv, stage = "serving", config.mode # "both", config.publicOrigin = "origin",
             NEW a \in SignInActions, NEW b \in {None, held}
      PROVE  LET h == OwnRequest(a, b)
                 p == ParseRequest(config, h)
             IN /\ IsContext(p) /\ Entry(config, p) = "csrf"
                /\ CsrfAllows(config, h)
  <2> DEFINE h == OwnRequest(a, b)
  <2> DEFINE p == ParseRequest(config, h)
  <2>1. config \in Configurations /\ Accepted(config) /\ ClientKeeps /\ WellTyped(config)
    BY <1>1, ConfigAssumption DEF Inv, Composed, StartupTypeOK, Serviceable
  <2>2. a \in Configured(config) /\ a \in Actions \ BuiltInActions /\ a \notin OptionalActions
    <3>1. a \in Actions
      BY DEF SignInActions, Actions, SupportedActions
    <3>2. a \notin OptionalActions /\ a \notin BuiltInActions
      BY DEF SignInActions, OptionalActions, OAuthActions, ResetActions,
         VerificationActions, BuiltInActions
    <3>3. a \in RequiredActions
      BY <3>1, <3>2 DEF RequiredActions
    <3> QED BY <2>1, <3>1, <3>2, <3>3 DEF WellTyped, Configured
  <2>3. /\ h.method = config.method[a] /\ h.path = config.path[a]
        /\ h.cookie = jar /\ h.bearer = b
        /\ h.envelope = [repeated |-> FALSE, malformed |-> FALSE, forwarded |-> "own",
                         origin |-> "own", referer |-> "absent", body |-> "complete"]
    BY DEF OwnRequest, Route, NoHttp
  <2>4. CsrfAllows(config, h)
    BY <1>1, <2>3 DEF CsrfAllows, OwnOrigin
  <2>5. config.transport[a] = config.mode /\ config.mode \in {"cookie", "bearer"}
    <3>1. TransportsMatchMode(config) /\ config.transport[a] # None /\ a \in Actions
      BY <2>1, <2>2 DEF Accepted, StartupConfigIsValid, Configured
    <3>2. config.mode \in Transports \cup {"both"}
      BY <2>1 DEF WellTyped, Config
    <3> QED BY <1>1, <3>1, <3>2 DEF TransportsMatchMode, Transports
  <2>6. ResolveAction(config, h) = a /\ a # None
    BY <2>1, <2>2, <2>3, RoutesResolve, Nones
  <2>7. /\ ~h.envelope.repeated /\ ~h.envelope.malformed /\ ~ForwardedAtOdds(config, h)
        /\ ~BodyUnusable(a, h)
    BY <2>2, <2>3 DEF ForwardedAtOdds, BodyUnusable
  <2>8. /\ ~(h.cookie # None /\ h.bearer # None)
        /\ Presented(config, h) \in {None, config.transport[a]}
        /\ CookieRead(config, h) = h.cookie
    BY <1>1, <2>1, <2>3, <2>5 DEF ClientKeeps, Presented, CookieRead, Accepted,
       StartupConfigIsValid
  <2>0. ~ComparisonThrows(config, h)
    BY <2>1 DEF ComparisonThrows, Accepted, RuntimeConfigIsValid
  <2> DEFINE t == IF Presented(config, h) = "bearer" THEN h.bearer ELSE h.cookie
  <2> HIDE DEF h
  <2>9. config.transport[a] # None
    BY <2>2 DEF Configured
  <2>10. p = ContextOf(a, config.transport[a], t)
    BY <2>0, <2>6, <2>7, <2>8, <2>9 DEF ParseRequest
  <2> HIDE DEF p, t
  <2>11. IsContext(p) /\ p.action = a
    BY <2>10 DEF IsContext, ContextOf
  <2>12. Entry(config, p) = "csrf"
    BY <2>1, <2>2, <2>11, OneOwner DEF Entry
  <2> QED BY <2>4, <2>11, <2>12 DEF p, h
<1>2. Inv => StaleClientsCanSignIn
  BY <1>1 DEF StaleClientsCanSignIn
<1> QED BY <1>2, Invariance, PTL

-----------------------------------------------------------------------------
(* The client's sessions *)

\* Tokens name sessions, and only tokens that were generated do.
Rowed ==
    /\ table \in [Sessions -> Row \cup {None}] /\ drawn \subseteq Tokens
    /\ \A s \in Sessions : table[s] # None =>
          /\ table[s].token \in drawn
          /\ \A q \in Sessions :
                table[q] # None /\ table[q].token = table[s].token => q = s

\* A built-in action has come past validateSession.
Validated(r) ==
    /\ session[r] # None => session[r] \in Sessions /\ table[session[r]] # None
    /\ pc[r] \in {"csrf", "policies", "execute"}
       /\ context[r].action \in BuiltInActions \ {"logout"} => session[r] # None

SessionInv == Rowed /\ \A r \in Requests : Validated(r)

Issues(s, t) ==
    /\ s \in Sessions /\ t \in Tokens \ drawn /\ table[s] = None
    /\ table' = [table EXCEPT ![s] = [token |-> t, live |-> TRUE]]
    /\ drawn' = drawn \cup {t}

Rotates(s, t) ==
    /\ s \in Sessions /\ t \in Tokens \ drawn /\ table[s] # None
    /\ table' = [table EXCEPT ![s].token = t]
    /\ drawn' = drawn \cup {t}

Ends(S) == End(S) /\ UNCHANGED drawn

\* What a step does to the sessions.
SessionStep ==
    \/ UNCHANGED sessionVars
    \/ \E s, t : Issues(s, t) \/ Rotates(s, t)
    \/ \E S : Ends(S)

LEMMA AbsentRows ==
    None \notin Sessions /\ None \notin Row /\ None \notin ListedRow
  BY AbsenceAssumption

LEMMA SessionsOnStep ==
  ASSUME \A r \in Requests : Validated(r), [Next]_vars
  PROVE  SessionStep
<1>1. ASSUME NEW r \in Requests, Handles(r) PROVE SessionStep
  <2>1. CASE IssueSession(r)
    BY <2>1 DEF IssueSession, SessionStep, Issues
  <2>2. CASE Rotate(r)
    <3>1. CASE UNCHANGED sessionVars
      BY <3>1 DEF SessionStep
    <3>2. CASE \E t \in Tokens \ drawn :
                  table' = [table EXCEPT ![session[r]].token = t] /\ drawn' = drawn \cup {t}
      <4>1. session[r] \in Sessions /\ table[session[r]] # None
        BY <1>1, <2>2 DEF Rotate, Executes, Validated, BuiltInActions
      <4> QED BY <3>2, <4>1 DEF SessionStep, Rotates
    <3> QED BY <2>2, <3>1, <3>2 DEF Rotate
  <2>3. CASE Logout(r) \/ LogoutAll(r)
    BY <2>3 DEF Logout, LogoutAll, SessionStep, Ends
  <2>4. CASE ~(IssueSession(r) \/ Rotate(r) \/ Logout(r) \/ LogoutAll(r))
    BY <1>1, <2>4 DEF Handles, ValidateSession, CheckCsrf, AskPolicy, PoliciesAllow,
       PluginAnswers, GetSession, Extend, Fails, SessionStep
  <2> QED BY <2>1, <2>2, <2>3, <2>4
<1>2. ASSUME NEW r \in Requests, Sends(r) \/ SendsElsewhere(r) \/ Deliver(r) \/ Lose(r)
      PROVE  SessionStep
  BY <1>2 DEF Sends, SendsElsewhere, Arrive, Deliver, Lose, SessionStep
<1>3. ASSUME NEW s \in Sessions, SessionEnds(s) PROVE SessionStep
  BY <1>3 DEF SessionEnds, SessionStep, Ends
<1>4. ProcessComposes \/ ProcessRestarts \/ UNCHANGED vars => SessionStep
  BY DEF ProcessComposes, ProcessRestarts, vars, SessionStep
<1> QED BY <1>1, <1>2, <1>3, <1>4 DEF Next

\* A session stays, under its token or a new one.
LEMMA SessionsStay ==
  ASSUME Rowed, SessionStep
  PROVE  Rowed' /\ \A s \in Sessions : table[s] # None => table'[s] # None
<1> USE AbsentRows DEF Rowed
<1>1. CASE UNCHANGED sessionVars
  BY <1>1 DEF sessionVars
<1>2. ASSUME NEW s, NEW t, Issues(s, t)
      PROVE  Rowed' /\ \A q \in Sessions : table[q] # None => table'[q] # None
  <2> DEFINE row == [token |-> t, live |-> TRUE]
  <2>1. row \in Row /\ row.token = t
    BY <1>2 DEF Issues, Row
  <2>2. \A q \in Sessions : table'[q] = IF q = s THEN row ELSE table[q]
    BY <1>2 DEF Issues
  <2>3. table' \in [Sessions -> Row \cup {None}] /\ drawn' \subseteq Tokens
    BY <1>2, <2>1 DEF Issues
  <2> HIDE DEF row
  <2> QED BY <1>2, <2>1, <2>2, <2>3 DEF Issues
<1>3. ASSUME NEW s, NEW t, Rotates(s, t)
      PROVE  Rowed' /\ \A q \in Sessions : table[q] # None => table'[q] # None
  <2> DEFINE row == [table[s] EXCEPT !.token = t]
  <2>1. row \in Row /\ row.token = t
    BY <1>3 DEF Rotates, Row
  <2>2. \A q \in Sessions : table'[q] = IF q = s THEN row ELSE table[q]
    BY <1>3 DEF Rotates
  <2>3. table' \in [Sessions -> Row \cup {None}] /\ drawn' \subseteq Tokens
    BY <1>3, <2>1 DEF Rotates
  <2> HIDE DEF row
  <2> QED BY <1>3, <2>1, <2>2, <2>3 DEF Rotates
<1>4. ASSUME NEW S, Ends(S)
      PROVE  Rowed' /\ \A q \in Sessions : table[q] # None => table'[q] # None
  <2>1. ASSUME NEW q, q \in Sessions
        PROVE  /\ table'[q] \in Row \cup {None}
               /\ table[q] # None <=> table'[q] # None
               /\ table[q] # None => table'[q].token = table[q].token
    <3>1. CASE q \in S /\ table[q] # None
      <4>1. table'[q] = [table[q] EXCEPT !.live = FALSE] /\ table[q] \in Row
        BY <1>4, <2>1, <3>1 DEF Ends, End
      <4>2. table'[q] \in Row /\ table'[q].token = table[q].token
        BY <4>1 DEF Row
      <4> QED BY <3>1, <4>2
    <3>2. CASE ~(q \in S /\ table[q] # None)
      BY <1>4, <2>1, <3>2 DEF Ends, End
    <3> QED BY <3>1, <3>2
  <2>2. DOMAIN table' = Sessions /\ table' = [q \in Sessions |-> table'[q]] /\ UNCHANGED drawn
    BY <1>4 DEF Ends, End
  <2>3. table' \in [Sessions -> Row \cup {None}]
    BY <2>1, <2>2
  <2> QED BY <2>1, <2>2, <2>3
<1> QED BY <1>1, <1>2, <1>3, <1>4 DEF SessionStep

LEMMA ValidatedByRequest ==
  ASSUME Inv, SessionInv, NEW r \in Requests, RequestStep(r),
         \A s \in Sessions : table[s] # None => table'[s] # None
  PROVE  Validated(r)'
<1> USE DEF Validated, Indexed
<1>1. Indexed /\ Validated(r)
  BY DEF Inv, SessionInv
<1>2. ASSUME NEW h, Arrive(r, h) PROVE Validated(r)'
  <2> DEFINE p == ParseRequest(config, h)
  <2> HIDE DEF p
  <2>1. CASE IsContext(p) /\ Entry(config, p) # "refuse"
    <3>1. context'[r] = p /\ pc'[r] = Entry(config, p) /\ UNCHANGED <<session>>
      BY <1>1, <1>2, <2>1 DEF Arrive, p, Goto
    <3>2. pc'[r] \in {"csrf", "policies", "execute"} =>
             p.action \notin BuiltInActions \/ p.action = "logout"
      BY <3>1 DEF Entry
    <3> QED BY <1>1, <3>1, <3>2
  <2>2. CASE ~(IsContext(p) /\ Entry(config, p) # "refuse")
    <3>1. pc'[r] = "answered" /\ UNCHANGED <<session>>
      BY <1>1, <1>2, <2>2 DEF Arrive, p, Answer
    <3> QED BY <1>1, <3>1
  <2> QED BY <2>1, <2>2
<1>3. CASE ValidateSession(r)
  <2>1. context' = context
    BY <1>3 DEF ValidateSession
  <2>2. CASE \E s \in Sessions : Live(s) /\ session' = [session EXCEPT ![r] = s]
    BY <1>1, <2>2, AbsentRows DEF Live
  <2>3. CASE /\ UNCHANGED session
             /\ IF context[r].action = "logout" THEN Goto(r, "csrf") ELSE Answer(r, Revoked)
    BY <1>1, <2>1, <2>3 DEF Goto, Answer
  <2> QED BY <1>3, <2>2, <2>3 DEF ValidateSession
<1>4. CASE CheckCsrf(r) \/ AskPolicy(r) \/ PoliciesAllow(r)
  <2>1. /\ UNCHANGED <<context, session>> /\ pc[r] \in {"csrf", "policies"}
    BY <1>4 DEF CheckCsrf, AskPolicy, PoliciesAllow
  <2> QED BY <1>1, <2>1
<1>5. CASE Handles(r) /\ ~ValidateSession(r)
           /\ ~(CheckCsrf(r) \/ AskPolicy(r) \/ PoliciesAllow(r))
  <2>1. UNCHANGED <<context, session>> /\ pc'[r] = "answered"
    BY <1>1, <1>5 DEF Handles, IssueSession, PluginAnswers, GetSession, Extend, Rotate,
       Logout, LogoutAll, Fails, Executes, Answer
  <2> QED BY <1>1, <2>1
<1>6. CASE Deliver(r) \/ Lose(r)
  <2>1. pc'[r] = "idle" /\ session'[r] = None
    BY <1>1, <1>6 DEF Deliver, Lose, Forget
  <2> QED BY <2>1
<1> QED BY <1>2, <1>3, <1>4, <1>5, <1>6 DEF RequestStep, Sends, SendsElsewhere

LEMMA SessionInvStep ==
  ASSUME Inv, SessionInv, [Next]_vars
  PROVE  SessionInv' /\ SessionStep
<1>1. SessionStep /\ Rowed' /\ \A s \in Sessions : table[s] # None => table'[s] # None
  BY SessionsOnStep, SessionsStay DEF SessionInv
<1>2. ASSUME NEW r \in Requests, RequestStep(r), NEW q \in Requests PROVE Validated(q)'
  <2>1. CASE q = r
    BY <1>1, <1>2, <2>1, ValidatedByRequest
  <2>2. CASE q # r
    <3>1. Untouched(q) /\ Validated(q)
      BY <1>2, <2>2, Frame DEF Inv, SessionInv
    <3> QED BY <1>1, <3>1 DEF Untouched, Validated
  <2> QED BY <2>1, <2>2
<1>3. ASSUME UNCHANGED requestVars, NEW q \in Requests PROVE Validated(q)'
  <2>1. Validated(q) /\ UNCHANGED <<pc, context, session>>
    BY <1>3 DEF SessionInv, requestVars
  <2> QED BY <1>1, <2>1 DEF Validated
<1>4. ASSUME ProcessRestarts, NEW q \in Requests PROVE Validated(q)'
  <2>1. pc'[q] = "idle" /\ session'[q] = None
    BY <1>4 DEF ProcessRestarts
  <2> QED BY <2>1 DEF Validated
<1>5. ProcessComposes \/ (\E s \in Sessions : SessionEnds(s)) \/ UNCHANGED vars =>
         UNCHANGED requestVars
  BY DEF ProcessComposes, SessionEnds, vars
<1> QED BY <1>1, <1>2, <1>3, <1>4, <1>5 DEF SessionInv, Next, RequestStep

LEMMA SessionInvInit == Init => SessionInv
  BY AbsentRows DEF Init, SessionInv, Rowed, Validated

LEMMA SessionsInvariant == Spec => [](Inv /\ SessionInv)
<1>1. Init => Inv /\ SessionInv
  BY InvInit, SessionInvInit
<1>2. Inv /\ SessionInv /\ [Next]_vars => (Inv /\ SessionInv)'
  BY InvStep, SessionInvStep
<1> QED BY <1>1, <1>2, PTL DEF Spec

\* A refresh, a session's data and a logout of all devices act on a session
\* that validateSession found, whatever the other requests have done to it
\* since.
THEOREM BuiltInsActOnSessions == Spec => []BuiltInsHaveSessions
<1>1. SessionInv => BuiltInsHaveSessions
  BY DEF SessionInv, Validated, BuiltInsHaveSessions
<1> QED BY <1>1, SessionsInvariant, PTL

LEMMA ListingOf ==
  ASSUME NEW t \in Tokens, NEW b \in BOOLEAN
  PROVE  LET l == [user |-> "client", token |-> t, expires |-> 0, revoked |-> b] IN
         l \in Registry!Session /\ l # None
<1> DEFINE l == [user |-> "client", token |-> t, expires |-> 0, revoked |-> b]
<1>1. l \in ListedRow /\ l \in Registry!Session
  BY DEF ListedRow, Registry!Session
<1> QED BY <1>1, AbsentRows

LEMMA RegistryRevokes ==
  ASSUME NEW l \in Registry!Session, NEW b \in BOOLEAN
  PROVE  [l EXCEPT !.revoked = b]
            = [user |-> l.user, token |-> l.token, expires |-> l.expires, revoked |-> b]
  BY DEF Registry!Session

\* A listed session and the session it lists.
LEMMA ListedSession ==
  ASSUME Rowed, NEW s \in Sessions
  PROVE  /\ Registry!IsOpen(s) <=> table[s] # None
         /\ table[s] # None =>
               /\ Listed[s] \in Registry!Session /\ Listed[s] # None
               /\ Listed[s].user = "client" /\ Listed[s].token = table[s].token
               /\ Listed[s] = [user |-> "client", token |-> table[s].token, expires |-> 0,
                               revoked |-> ~table[s].live]
<1>1. CASE table[s] # None
  <2>1. table[s].token \in Tokens
    BY <1>1 DEF Rowed, Row
  <2>2. Listed[s] = [user |-> "client", token |-> table[s].token, expires |-> 0,
                     revoked |-> ~table[s].live]
    BY <1>1 DEF Listed
  <2>3. Listed[s] \in Registry!Session /\ Listed[s] # None
    BY <2>1, <2>2, ListingOf
  <2> QED BY <1>1, <2>2, <2>3 DEF Registry!IsOpen
<1>2. CASE table[s] = None
  BY <1>2 DEF Listed, Registry!IsOpen
<1> QED BY <1>1, <1>2

\* A token that was never generated is unused in the registry's sense.
LEMMA FreshIsUnused ==
  ASSUME Rowed, NEW t \in Tokens \ drawn
  PROVE  Registry!Unused(t)
<1>1. ASSUME NEW s, s \in Sessions, Registry!IsOpen(s) PROVE Listed[s].token # t
  <2>1. table[s] # None /\ Listed[s].token = table[s].token
    BY <1>1, ListedSession
  <2> QED BY <1>1, <2>1 DEF Rowed
<1>2. t \in Tokens \ (drawn \ Current)
  OBVIOUS
<1> QED BY <1>1, <1>2 DEF Registry!Unused

LEMMA OpeningRefines ==
  ASSUME Rowed, NEW s, NEW t, Issues(s, t)
  PROVE  Registry!Open(s)
<1> DEFINE row == [token |-> t, live |-> TRUE]
           new == [user |-> "client", token |-> t, expires |-> 0, revoked |-> FALSE]
<1>1. s \in Sessions /\ t \in Tokens \ drawn /\ table[s] = None
  BY DEF Issues
<1>2. row \in Row /\ row # None /\ row.token = t /\ (~row.live) = FALSE
  <2>1. row \in Row /\ row.token = t
    BY <1>1 DEF Row
  <2>2. (~row.live) = FALSE
    OBVIOUS
  <2> HIDE DEF row
  <2> QED BY <2>1, <2>2, AbsentRows
<1>3. \A q \in Sessions : table'[q] = IF q = s THEN row ELSE table[q]
  BY <1>1 DEF Issues, Rowed
<1> HIDE DEF row
<1>4. Listed' = [Listed EXCEPT ![s] = new]
  <2>1. \A q \in Sessions :
           (IF table'[q] = None THEN None
            ELSE [user |-> "client", token |-> table'[q].token, expires |-> 0,
                  revoked |-> ~table'[q].live])
              = IF q = s THEN new ELSE Listed[q]
    BY <1>2, <1>3 DEF Listed
  <2> QED BY <2>1 DEF Listed
<1>5. Listed'[s] = new /\ new \in Registry!Session /\ new.token = t /\ ~new.revoked
  BY <1>1, <1>4, ListingOf DEF Listed
<1>6. (drawn \ Current)' = drawn \ Current
  <2>1. Current' = Current \cup {t}
    BY <1>1, <1>2, <1>3 DEF Current
  <2>2. drawn' = drawn \cup {t} /\ t \notin drawn
    BY DEF Issues
  <2>3. (drawn \ Current)' = drawn' \ Current'
    OBVIOUS
  <2>4. drawn' \ Current' = drawn \ Current
    BY <2>1, <2>2
  <2> QED BY <2>3, <2>4
<1> HIDE DEF new
<1> QED BY <1>1, <1>4, <1>5, <1>6, ListedSession, FreshIsUnused DEF Registry!Open

LEMMA RotationRefines ==
  ASSUME Rowed, NEW s, NEW t, Rotates(s, t)
  PROVE  Registry!Rotate(s, t)
<1> DEFINE row == [table[s] EXCEPT !.token = t]
           new == [Listed[s] EXCEPT !.token = t]
<1>1. s \in Sessions /\ t \in Tokens \ drawn /\ table[s] # None /\ table[s] \in Row
  BY DEF Rotates, Rowed
<1>2. row \in Row /\ row # None /\ row.token = t /\ row.live = table[s].live
  BY <1>1, AbsentRows DEF Row
<1>3. \A q \in Sessions : table'[q] = IF q = s THEN row ELSE table[q]
  BY <1>1 DEF Rotates, Rowed
<1>4. new = [user |-> "client", token |-> t, expires |-> 0, revoked |-> ~table[s].live]
  <2>1. Listed[s] = [user |-> "client", token |-> table[s].token, expires |-> 0,
                     revoked |-> ~table[s].live]
    BY <1>1, ListedSession
  <2> QED BY <2>1
<1> HIDE DEF row
<1>5. Listed' = [Listed EXCEPT ![s] = new]
  <2>1. \A q \in Sessions :
           (IF table'[q] = None THEN None
            ELSE [user |-> "client", token |-> table'[q].token, expires |-> 0,
                  revoked |-> ~table'[q].live])
              = IF q = s THEN new ELSE Listed[q]
    BY <1>2, <1>3, <1>4 DEF Listed
  <2> QED BY <2>1 DEF Listed
<1>6. (drawn \ Current)' = (drawn \ Current) \cup {table[s].token}
  <2> DEFINE old == table[s].token
  <2>1. old \in drawn /\ \A q \in Sessions \ {s} : table[q] # None => table[q].token # old
    BY <1>1 DEF Rowed
  <2>2. Current' = (Current \ {old}) \cup {t}
    BY <1>1, <1>2, <1>3, <2>1 DEF Current
  <2>3. drawn' = drawn \cup {t} /\ t \notin drawn
    BY DEF Rotates
  <2>4. (drawn \ Current)' = drawn' \ Current'
    OBVIOUS
  <2>5. drawn' \ Current' = (drawn \ Current) \cup {old}
    BY <2>1, <2>2, <2>3
  <2> QED BY <2>4, <2>5
<1>7. Listed[s].token = table[s].token /\ Registry!IsOpen(s) /\ Registry!Unused(t)
  BY <1>1, ListedSession, FreshIsUnused
<1> QED BY <1>5, <1>6, <1>7 DEF Registry!Rotate

LEMMA EndRefines ==
  ASSUME Rowed, NEW S, Ends(S)
  PROVE  \E C \in SUBSET Sessions : Registry!Revoke(C, "client")
<1> DEFINE C == {s \in Sessions : s \in S /\ table[s] # None}
<1>1. ASSUME NEW q, q \in C
      PROVE  /\ table'[q] # None /\ table'[q].token = table[q].token
             /\ table'[q].live = FALSE
  <2>1. table[q] \in Row /\ table'[q] = [table[q] EXCEPT !.live = FALSE]
    BY <1>1 DEF Ends, End, Rowed
  <2>2. table'[q] \in Row /\ table'[q].token = table[q].token /\ table'[q].live = FALSE
    BY <2>1 DEF Row
  <2> QED BY <2>2, AbsentRows
<1>2. \A q \in Sessions \ C : table'[q] = table[q]
  BY DEF Ends, End
<1>3. ASSUME NEW q, q \in C
      PROVE  /\ Registry!IsOpen(q) /\ Listed[q].user = "client"
             /\ [Listed[q] EXCEPT !.revoked = TRUE]
                   = [user |-> "client", token |-> table[q].token, expires |-> 0,
                      revoked |-> TRUE]
  <2>1. /\ Registry!IsOpen(q) /\ Listed[q] \in Registry!Session
        /\ Listed[q].user = "client" /\ Listed[q].token = table[q].token
        /\ Listed[q] = [user |-> "client", token |-> table[q].token, expires |-> 0,
                        revoked |-> ~table[q].live]
    BY <1>3, ListedSession
  <2>2. Listed[q].expires = 0
    BY <2>1
  <2> QED BY <2>1, <2>2, RegistryRevokes
<1>4. Listed' = [q \in Sessions |-> IF q \in C THEN [Listed[q] EXCEPT !.revoked = TRUE]
                                               ELSE Listed[q]]
  <2>1. ASSUME NEW q, q \in Sessions
        PROVE  (IF table'[q] = None THEN None
                ELSE [user |-> "client", token |-> table'[q].token, expires |-> 0,
                      revoked |-> ~table'[q].live])
                  = IF q \in C THEN [Listed[q] EXCEPT !.revoked = TRUE] ELSE Listed[q]
    <3>1. CASE q \in C
      <4>1. (~table'[q].live) = TRUE
        BY <1>1, <3>1
      <4> QED BY <1>1, <1>3, <3>1, <4>1
    <3>2. CASE q \notin C
      <4>1. table'[q] = table[q]
        BY <1>2, <2>1, <3>2
      <4> QED BY <2>1, <3>2, <4>1 DEF Listed
    <3> QED BY <3>1, <3>2
  <2> HIDE DEF C
  <2> QED BY <2>1 DEF Listed
<1>5. (drawn \ Current)' = drawn \ Current
  <2>1. \A q \in Sessions : /\ table'[q] # None <=> table[q] # None
                            /\ table[q] # None => table'[q].token = table[q].token
    BY <1>1, <1>2
  <2>2. Current' = Current
    BY <2>1 DEF Current
  <2> QED BY <2>2 DEF Ends
<1> HIDE DEF C
<1>6. Registry!Revoke(C, "client")
  BY <1>3, <1>4, <1>5 DEF Registry!Revoke
<1> QED BY <1>6 DEF C

\* The adapter and the kernel use the sessions as the session component's
\* abstraction allows: they are opened under fresh tokens, rotated, and ended
\* for good, through whatever requests, restarts and lost answers.
THEOREM RegistryRefinement == Spec => ImplementsRegistry
<1>1. Init => Registry!Init
  BY DEF Init, Registry!Init, Listed
<1>2. ASSUME Rowed, SessionStep PROVE [Registry!Next]_(Registry!vars)
  <2>1. CASE UNCHANGED sessionVars
    BY <2>1 DEF sessionVars, Registry!vars, Listed, Current
  <2>2. ASSUME NEW s, NEW t, Issues(s, t) PROVE Registry!Next
    <3>1. s \in Sessions
      BY <2>2 DEF Issues
    <3> QED BY <1>2, <2>2, <3>1, OpeningRefines DEF Registry!Next
  <2>3. ASSUME NEW s, NEW t, Rotates(s, t) PROVE Registry!Next
    <3>1. s \in Sessions /\ t \in Tokens
      BY <2>3 DEF Rotates
    <3> QED BY <1>2, <2>3, <3>1, RotationRefines DEF Registry!Next
  <2>4. ASSUME NEW S, Ends(S) PROVE Registry!Next
    BY <1>2, <2>4, EndRefines DEF Registry!Next
  <2> QED BY <1>2, <2>1, <2>2, <2>3, <2>4 DEF SessionStep
<1>3. (Inv /\ SessionInv) /\ [Next]_vars => [Registry!Next]_(Registry!vars)
  BY <1>2, SessionInvStep DEF SessionInv
<1> QED BY <1>1, <1>3, SessionsInvariant, PTL DEF Spec, ImplementsRegistry, Registry!Spec

==============================================================================
