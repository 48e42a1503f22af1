------------------------------- MODULE Gateway -------------------------------
(***************************************************************************)
(* A serving application and a client that keeps its credential: the        *)
(* adapter's parseRequest, the kernel's choice of an owner, its validation  *)
(* of the session and its policies, the action, the adapter's applyResult,  *)
(* and what the answer leaves in the client's cookie jar and memory.        *)
(*                                                                         *)
(* The session layer is here what SessionRegistry says of it: a session has *)
(* one token, which a refresh may replace and a revocation ends for good.   *)
(* parseRequest and the kernel up to its first await see nothing shared, so *)
(* the arrival of a request is one step.                                    *)
(***************************************************************************)
EXTENDS Startup

CONSTANTS
    Requests,    \* requests in flight at the same time
    Sessions,    \* a bound on sessions
    Tokens,      \* a bound on tokens
    Envelopes    \* what a request carries besides its route and credentials

\* repeated: a sensitive or trusted header occurs twice; forwarded: the
\* x-forwarded pair; own is the application's origin.
Envelope == [repeated: BOOLEAN,
             forwarded: {"absent", "partial", "own", "other"},
             malformed: BOOLEAN,
             origin: {"absent", "own", "other"},
             referer: {"absent", "own", "other", "malformed"},
             body: {"absent", "unreadable", "incomplete", "complete"}]

Row == [token: Tokens, live: BOOLEAN]

\* A session as SessionRegistry lists it.
ListedRow == [user: {"client"}, token: Tokens, expires: Nat, revoked: BOOLEAN]

ASSUME EnvelopesAssumption == Envelopes \subseteq Envelope
ASSUME AbsenceAssumption ==
    None \notin Tokens \cup Sessions \cup {"sessionLayer", "RUNTIME_MISCONFIGURED"}
               \cup Row \cup ListedRow

VARIABLES
    table,    \* the sessions: token and whether it is live
    drawn,    \* tokens generated so far
    jar,      \* the session cookie the client keeps
    held,     \* the bearer token the client keeps
    pc,       \* the await a request has reached
    http,     \* the request as it was sent, unless parseRequest refuses it
    context,  \* the RequestContext made of it
    session,  \* the session the kernel validated
    asked,    \* how many of the application's policies have allowed it
    answer    \* the AuthResult

sessionVars == <<table, drawn>>
clientVars == <<jar, held>>
requestVars == <<pc, http, context, session, asked, answer>>
vars == <<startupVars, sessionVars, clientVars, requestVars>>

NoHttp == [method |-> None, path |-> None, cookie |-> None, bearer |-> None,
           envelope |-> None]
NoContext == [action |-> None, transport |-> None, credential |-> None]

\* An AuthResult or AuthError: transport and token when a session is issued or
\* refreshed; and its responseMutations, clear for the transport a logout
\* clears and setCookie, which no code of the core ever fills.  An exception
\* that leaves handleRequest is of the kind thrown.
Result(kind, code) ==
    [kind |-> kind, code |-> code, transport |-> None, token |-> None,
     clear |-> None, setCookie |-> None]
Denied(code) == Result("denied", code)
AuthError(code) == Result("error", code)
Revoked == Result("unauthenticated", "SESSION_REVOKED")
Redirect == Result("redirect", None)
Success == Result("success", None)
IssuedIfBearer(k, t) == [Success EXCEPT !.transport = "bearer", !.token = t]
Issued(k, t) == [Success EXCEPT !.transport = k, !.token = t]
NoAnswer == Result("none", None)

-----------------------------------------------------------------------------
(* parseRequest *)

\* The first supported action whose method and path are the request's.
Matching(c, h) ==
    {i \in 1..Len(SupportedActions) :
       /\ h.path = c.path[SupportedActions[i]]
       /\ h.method = c.method[SupportedActions[i]]}

ResolveAction(c, h) ==
    IF Matching(c, h) = {} THEN None
    ELSE SupportedActions[CHOOSE i \in Matching(c, h) :
                             \A j \in Matching(c, h) : i <= j]

\* Forwarded headers are looked at only if trusted, and may then be missing.
ForwardedAtOdds(c, h) ==
    c.trusted # {} /\ h.envelope.forwarded \in {"partial", "other"}

\* The comparison takes the origin of publicOrigin, and throws if it has none.
ComparisonThrows(c, h) ==
    /\ c.trusted # {} /\ h.envelope.forwarded \in {"own", "other"}
    /\ c.publicOrigin = "invalid"

\* The session cookie is looked up by its configured name.
CookieRead(c, h) == IF c.cookieName THEN h.cookie ELSE None

\* Sign-up and sign-in check their bodies themselves.
BodyUnusable(a, h) ==
    \/ h.envelope.body = "unreadable"
    \/ /\ a \in OptionalActions
       /\ h.envelope.body # "complete"

Presented(c, h) == IF h.bearer # None THEN "bearer"
                   ELSE IF CookieRead(c, h) # None THEN "cookie" ELSE None

ContextOf(a, k, t) == [action |-> a, transport |-> k, credential |-> t]

\* The request's context, or the answer it is refused with.
ParseRequest(c, h) ==
    LET a == ResolveAction(c, h)
        k == Presented(c, h)
        cookie == CookieRead(c, h)
    IN IF a = None THEN Result("notHandled", None)
       ELSE IF h.envelope.repeated THEN Denied("INVALID_INPUT")
       ELSE IF ComparisonThrows(c, h) THEN Result("thrown", None)
       ELSE IF ForwardedAtOdds(c, h) THEN AuthError("RUNTIME_MISCONFIGURED")
       ELSE IF h.envelope.malformed THEN Denied("INVALID_INPUT")
       ELSE IF cookie # None /\ h.bearer # None THEN Denied("AMBIGUOUS_CREDENTIALS")
       ELSE IF \/ c.transport[a] = None
               \/ k \notin {None, c.transport[a]}
               \/ BodyUnusable(a, h)
            THEN Denied("INVALID_INPUT")
       ELSE ContextOf(a, c.transport[a], IF k = "bearer" THEN h.bearer ELSE cookie)

IsContext(p) == "action" \in DOMAIN p

-----------------------------------------------------------------------------
(* The kernel *)

\* The session layer owns the built-in actions; of the others the first
\* registered plugin that lists it.
OwnersOf(c, a) == {i \in DOMAIN c.plugins : a \in c.plugins[i].actions}

FindActionOwner(c, a) ==
    IF a \in BuiltInActions THEN "sessionLayer"
    ELSE IF OwnersOf(c, a) = {} THEN None
    ELSE c.plugins[CHOOSE i \in OwnersOf(c, a) : \A j \in OwnersOf(c, a) : i <= j].id

\* What the kernel awaits first: the session, or with nothing to validate the
\* policies; an action without an owner, or a session that must be presented
\* and is not, is refused before.
Entry(c, x) ==
    IF FindActionOwner(c, x.action) = None THEN "refuse"
    ELSE IF x.action \notin BuiltInActions THEN "csrf"
    ELSE IF x.credential # None THEN "validate"
    ELSE IF x.action = "logout" THEN "csrf" ELSE "refuse"

\* createCsrfPolicy: the Origin header, or without one the origin of the
\* Referer, is compared with publicOrigin as it was configured.
OwnOrigin(h) ==
    \/ h.envelope.origin = "own"
    \/ h.envelope.origin = "absent" /\ h.envelope.referer = "own"

CsrfAllows(c, h) == c.publicOrigin = "origin" /\ OwnOrigin(h)

\* A logout without a session skips the application's policies.
SkipsPoliciesIfLogout(r) == context[r].action = "logout"
SkipsPolicies(r) == context[r].action = "logout" /\ session[r] = None

Goto(r, label) == pc' = [pc EXCEPT ![r] = label] /\ UNCHANGED answer

Answer(r, result) ==
    /\ pc' = [pc EXCEPT ![r] = "answered"]
    /\ answer' = [answer EXCEPT ![r] = result]

Live(s) == table[s] # None /\ table[s].live

\* The request reaches the adapter and, unless refused there, the kernel.
Arrive(r, h) ==
    /\ stage = "serving" /\ pc[r] = "idle"
    /\ LET p == ParseRequest(config, h) IN
       IF IsContext(p)
       THEN /\ http' = [http EXCEPT ![r] = h]
            /\ context' = [context EXCEPT ![r] = p]
            /\ IF Entry(config, p) = "refuse"
               THEN Answer(r, Denied("INVALID_INPUT"))
               ELSE Goto(r, Entry(config, p))
       ELSE Answer(r, p) /\ UNCHANGED <<http, context>>
    /\ UNCHANGED <<startupVars, sessionVars, clientVars, session, asked>>

\* validateSession; a logout goes on without a session.
ValidateSession(r) ==
    /\ pc[r] = "validate"
    /\ \/ \E s \in Sessions :
            /\ Live(s) /\ table[s].token = context[r].credential
            /\ session' = [session EXCEPT ![r] = s]
            /\ Goto(r, "csrf")
       \/ /\ \A s \in Sessions : Live(s) => table[s].token # context[r].credential
          /\ IF context[r].action = "logout" THEN Goto(r, "csrf") ELSE Answer(r, Revoked)
          /\ UNCHANGED session
    /\ UNCHANGED <<startupVars, sessionVars, clientVars, http, context, asked>>

CheckCsrf(r) ==
    /\ pc[r] = "csrf"
    /\ IF CsrfAllows(config, http[r])
       THEN Goto(r, IF SkipsPolicies(r) THEN "execute" ELSE "policies")
       ELSE Answer(r, Denied("POLICY_DENIED"))
    /\ UNCHANGED <<startupVars, sessionVars, clientVars, http, context, session, asked>>

\* The application's policies, in the order they were registered; the code of a
\* refusal is the policy's own.
AskPolicy(r) ==
    /\ pc[r] = "policies" /\ asked[r] < Len(config.policies)
    /\ \/ asked' = [asked EXCEPT ![r] = @ + 1] /\ Goto(r, "policies")
       \/ /\ \/ Answer(r, Denied("POLICY_DENIED"))
             \/ Answer(r, AuthError("POLICY_FAILURE"))
             \/ /\ config.policies[asked[r] + 1].mayRedirect
                /\ Answer(r, IF config.redirects THEN Redirect
                             ELSE AuthError("RUNTIME_MISCONFIGURED"))
          /\ UNCHANGED asked
    /\ UNCHANGED <<startupVars, sessionVars, clientVars, http, context, session>>

PoliciesAllow(r) ==
    /\ pc[r] = "policies" /\ asked[r] = Len(config.policies)
    /\ Goto(r, "execute")
    /\ UNCHANGED <<startupVars, sessionVars, clientVars, http, context, session, asked>>

-----------------------------------------------------------------------------
(* The action *)

Executes(r, actions) ==
    /\ pc[r] = "execute" /\ context[r].action \in actions
    /\ UNCHANGED <<startupVars, clientVars, http, context, session, asked>>

\* A plugin that issues a session: its transport is the context's.
IssueSession(r) ==
    /\ Executes(r, {"signUpWithPassword", "signInWithPassword", "finishOAuth"})
    /\ \E s \in Sessions, t \in Tokens \ drawn :
          /\ table[s] = None
          /\ table' = [table EXCEPT ![s] = [token |-> t, live |-> TRUE]]
          /\ drawn' = drawn \cup {t}
          /\ Answer(r, Issued(context[r].transport, t))

\* The other outcomes of a plugin: refused, for whatever reason, or done
\* without a session.
Outcomes(a) ==
    {Result("unauthenticated", "INVALID_CREDENTIALS")}
    \cup {x \in {Redirect} : a = "startOAuth" /\ Known(config) # {}}
    \cup {x \in {Success} : a \in ResetActions \cup VerificationActions}

PluginAnswers(r) ==
    /\ Executes(r, Actions \ BuiltInActions)
    /\ \E x \in Outcomes(context[r].action) : Answer(r, x)
    /\ UNCHANGED sessionVars

GetSession(r) ==
    /\ Executes(r, {"getSession"})
    /\ Answer(r, Success)
    /\ UNCHANGED sessionVars

\* No rotation due: the presented token is handed back as it is.
Extend(r) ==
    /\ Executes(r, {"refreshSession"})
    /\ Answer(r, Issued(context[r].transport, context[r].credential))
    /\ UNCHANGED sessionVars

\* A rotation succeeds if the token is still the one that was presented.
Rotate(r) ==
    /\ Executes(r, {"refreshSession"})
    /\ IF table[session[r]].token = context[r].credential
       THEN \E t \in Tokens \ drawn :
              /\ table' = [table EXCEPT ![session[r]].token = t]
              /\ drawn' = drawn \cup {t}
              /\ Answer(r, Issued(context[r].transport, t))
       ELSE Answer(r, Revoked) /\ UNCHANGED sessionVars

\* clearCurrentTransport.
ClearedIfByMode(r) ==
    [Success EXCEPT !.clear = IF config.mode = "cookie" THEN "cookie" ELSE "bearer"]
Cleared(r) == [Success EXCEPT !.clear = context[r].transport]

End(S) == table' = [s \in Sessions |-> IF s \in S /\ table[s] # None
                                       THEN [table[s] EXCEPT !.live = FALSE]
                                       ELSE table[s]]

Logout(r) ==
    /\ Executes(r, {"logout"})
    /\ End({session[r]})
    /\ Answer(r, Cleared(r))
    /\ UNCHANGED drawn

LogoutAll(r) ==
    /\ Executes(r, {"logoutAll"})
    /\ End(Sessions)
    /\ Answer(r, Cleared(r))
    /\ UNCHANGED drawn

\* The store, or the cryptography, fails where something awaits it.
Fails(r) ==
    /\ \/ pc[r] = "validate"
       \/ /\ pc[r] = "execute"
          /\ context[r].action # "getSession"
          /\ context[r].action = "logout" => session[r] # None
    /\ Answer(r, AuthError("STORAGE_UNAVAILABLE"))
    /\ UNCHANGED <<startupVars, sessionVars, clientVars, http, context, session, asked>>

-----------------------------------------------------------------------------
(* applyResult *)

\* What an answer does to the client's credentials: the mutations of its result
\* and the token in its body.  A redirect the runtime is not capable of becomes
\* an AuthError.  Statuses are left out; an AuthError is handed to the host and
\* carries neither, like every result but success.
ApplyResult(x) ==
    [code |-> IF x.kind = "redirect" /\ ~config.redirects THEN "RUNTIME_MISCONFIGURED"
              ELSE x.code,
     setCookie |-> x.setCookie,
     clearsCookie |-> x.clear = "cookie",
     clearsBearer |-> x.clear = "bearer",
     transport |-> x.transport,
     token |-> x.token]

Forget(r) ==
    /\ pc' = [pc EXCEPT ![r] = "idle"]
    /\ http' = [http EXCEPT ![r] = NoHttp]
    /\ context' = [context EXCEPT ![r] = NoContext]
    /\ session' = [session EXCEPT ![r] = None]
    /\ asked' = [asked EXCEPT ![r] = 0]
    /\ answer' = [answer EXCEPT ![r] = NoAnswer]

\* createClearCookieMutation names the cookie and its path but no domain: a
\* cookie that was set for a domain is another one, and stays; without a path
\* the browser files it under the path of the request, which may be another.
JarsCleared ==
    IF config.cookieDomain THEN {jar}
    ELSE IF config.cookiePath THEN {None} ELSE {None, jar}

\* The client applies the answer.  It keeps a bearer token it is sent; a
\* cookie token is in the body, and the host may make a cookie of it.
Deliver(r) ==
    /\ pc[r] = "answered"
    /\ LET x == ApplyResult(answer[r]) IN
       /\ jar' \in IF x.setCookie # None THEN {x.setCookie}
                   ELSE IF x.clearsCookie THEN JarsCleared
                   ELSE IF x.transport = "cookie" THEN {jar, x.token} ELSE {jar}
       /\ held' = IF x.clearsBearer THEN None
                  ELSE IF x.transport = "bearer" THEN x.token ELSE held
    /\ Forget(r)
    /\ UNCHANGED <<startupVars, sessionVars>>

Lose(r) ==
    /\ pc[r] # "idle"
    /\ Forget(r)
    /\ UNCHANGED <<startupVars, sessionVars, clientVars>>

-----------------------------------------------------------------------------
\* A browser sends its cookie with every request; a bearer token is sent, or
\* not, by the client's own code.
Sends(r) ==
    \E a \in Actions, e \in Envelopes, b \in {None, held} :
       /\ a \in Configured(config)
       /\ e.malformed => b = None
       /\ Arrive(r, [method |-> config.method[a], path |-> config.path[a],
                     cookie |-> jar, bearer |-> b, envelope |-> e])

\* A path that is no entrypoint goes on to the host.
SendsElsewhere(r) ==
    \E e \in Envelopes, p \in Paths \ EntrypointPaths(config) :
       Arrive(r, [method |-> "GET", path |-> p,
                  cookie |-> jar, bearer |-> None, envelope |-> e])

\* A session expires, or another device ends it.
SessionEnds(s) ==
    /\ Live(s)
    /\ End({s})
    /\ UNCHANGED <<startupVars, drawn, clientVars, requestVars>>

\* The process restarts: requests are gone, the sessions and the client stay.
ProcessRestarts ==
    /\ Restart
    /\ pc' = [r \in Requests |-> "idle"]
    /\ http' = [r \in Requests |-> NoHttp]
    /\ context' = [r \in Requests |-> NoContext]
    /\ session' = [r \in Requests |-> None]
    /\ asked' = [r \in Requests |-> 0]
    /\ answer' = [r \in Requests |-> NoAnswer]
    /\ UNCHANGED <<sessionVars, clientVars>>

ProcessComposes ==
    /\ Composes \/ \E t \in TableNames : Migrate(t)
    /\ UNCHANGED <<sessionVars, clientVars, requestVars>>

Init ==
    /\ StartupInit
    /\ table = [s \in Sessions |-> None] /\ drawn = {}
    /\ jar = None /\ held = None
    /\ pc = [r \in Requests |-> "idle"]
    /\ http = [r \in Requests |-> NoHttp]
    /\ context = [r \in Requests |-> NoContext]
    /\ session = [r \in Requests |-> None]
    /\ asked = [r \in Requests |-> 0]
    /\ answer = [r \in Requests |-> NoAnswer]

Handles(r) ==
    \/ ValidateSession(r) \/ CheckCsrf(r) \/ AskPolicy(r) \/ PoliciesAllow(r)
    \/ IssueSession(r) \/ PluginAnswers(r)
    \/ GetSession(r) \/ Extend(r) \/ Rotate(r) \/ Logout(r) \/ LogoutAll(r)
    \/ Fails(r)

Next ==
    \/ ProcessComposes \/ ProcessRestarts
    \/ \E s \in Sessions : SessionEnds(s)
    \/ \E r \in Requests :
          Sends(r) \/ SendsElsewhere(r) \/ Handles(r) \/ Deliver(r) \/ Lose(r)

Spec == Init /\ [][Next]_vars
-----------------------------------------------------------------------------
(* Properties *)

Route(c, a) == [NoHttp EXCEPT !.method = c.method[a], !.path = c.path[a]]

\* Every configured action is reached by its own route and executed by exactly
\* one owner, and no route leads to an action that is not configured.
RoutesAreServed ==
    /\ \A a \in Configured(config) :
          /\ ResolveAction(config, Route(config, a)) = a
          /\ IF a \in BuiltInActions THEN OwnersOf(config, a) = {}
             ELSE \E i \in OwnersOf(config, a) : OwnersOf(config, a) = {i}
    /\ \A m \in Methods, p \in Paths :
          ResolveAction(config, [NoHttp EXCEPT !.method = m, !.path = p])
             \in Configured(config) \cup {None}

\* What one action begins, another finishes.
FlowsAreServed ==
    \A flow \in {<<"startOAuth", "finishOAuth">>,
                 <<"requestPasswordReset", "resetPassword">>,
                 <<"requestEmailVerification", "verifyEmail">>} :
       flow[1] \in Configured(config) => flow[2] \in Configured(config)

\* Where a sign-in can be sent to a provider there is one, each can be used, and
\* a provider's callback is neither an entrypoint nor another's callback.
ProvidersAreServed ==
    "startOAuth" \in Configured(config) =>
       /\ Known(config) # {}
       /\ \A p \in Known(config) :
             LET provider == config.providers[p] IN
             /\ provider.complete /\ provider.pkce = "S256"
             /\ \A m \in Methods :
                   ResolveAction(config, [NoHttp EXCEPT !.method = m,
                                                        !.path = provider.callback]) = None
             /\ \A q \in Known(config) \ {p} : config.providers[q].callback # provider.callback

\* No answer is an exception; the kernel is given the credential that was sent;
\* and RUNTIME_MISCONFIGURED is the answer to trusted forwarded headers that are
\* at odds with the public origin and to nothing else: no redirect, a policy's
\* or a provider's, meets a runtime that is not capable of it.
RequestsAreServed ==
    \A r \in Requests :
       /\ answer[r].kind # "thrown"
       /\ context[r] # NoContext =>
             context[r].credential = IF http[r].bearer # None THEN http[r].bearer
                                     ELSE http[r].cookie
       /\ ApplyResult(answer[r]).code = "RUNTIME_MISCONFIGURED" =>
             config.trusted # {} /\ context[r] = NoContext

\* What validateStartupConfig and validateNodeConfig let pass, the kernel and
\* the adapter find usable while the application serves, whatever plugins,
\* providers and policies it has.
EveryEntrypointIsServed ==
    stage = "serving" =>
       RoutesAreServed /\ FlowsAreServed /\ ProvidersAreServed /\ RequestsAreServed

\* Whatever a request executes was sent from the application's own origin with
\* at most one credential, of the transport its entrypoint asks for, and all of
\* the application's policies allowed it, except a logout that had no session
\* and then ends none.
EffectsAreAuthorised ==
    [][\A r \in Requests :
          pc[r] = "execute" /\ pc'[r] = "answered" =>
             LET asks == config.transport[context[r].action] IN
             /\ config.publicOrigin = "origin" /\ OwnOrigin(http[r])
             /\ http[r].cookie # None => http[r].bearer = None /\ asks = "cookie"
             /\ http[r].bearer # None => asks = "bearer"
             /\ \/ asked[r] = Len(config.policies)
                \/ context[r].action = "logout" /\ table' = table]_vars

SignedOut(r) ==
    answer[r].kind = "success" /\ context[r].action \in {"logout", "logoutAll"}

\* A client that receives the success of a logout keeps no credential of the
\* transport it presented, also when the session was gone before, unless the
\* cookie was set for a domain.
SignOutClearsClient ==
    [][\A r \in Requests :
          SignedOut(r) /\ Deliver(r) =>
             /\ http[r].bearer # None => held' = None
             /\ http[r].cookie # None => jar' = None \/ config.cookieDomain]_vars

SignInActions == {"signUpWithPassword", "signInWithPassword"}

\* What the client would send to an action now, from the application's pages
\* and with nothing wrong with it.
OwnRequest(a, b) ==
    [Route(config, a) EXCEPT
       !.cookie = jar, !.bearer = b,
       !.envelope = [repeated |-> FALSE, malformed |-> FALSE, forwarded |-> "own",
                     origin |-> "own", referer |-> "absent", body |-> "complete"]]

\* A client is never locked out by the credential it keeps: where all entrypoints
\* use one transport, its sign-in gets past parseRequest and the CSRF policy
\* although its session expired, was revoked, or was rotated by a refresh
\* whose answer was lost.  A publicOrigin that is more than an origin is
\* excepted: there the CSRF policy denies every request.
StaleClientsCanSignIn ==
    stage = "serving" /\ config.mode # "both" /\ config.publicOrigin = "origin" =>
       \A a \in SignInActions, b \in {None, held} :
          LET h == OwnRequest(a, b)
              p == ParseRequest(config, h)
          IN /\ IsContext(p) /\ Entry(config, p) = "csrf"
             /\ CsrfAllows(config, h)

\* The kernel gives a built-in action the session it validated, one that was
\* issued; only a logout may come without one.
BuiltInsHaveSessions ==
    \A r \in Requests :
       /\ session[r] # None => session[r] \in Sessions /\ table[session[r]] # None
       /\ pc[r] = "execute" /\ context[r].action \in BuiltInActions \ {"logout"} =>
             session[r] # None

\* The client's sessions, with no request and no configuration in sight, are
\* what the session component promises: opened once, under tokens never used
\* before, and ended for good.  The end of a session by its expiry is here
\* one of the revocations.
Listed ==
    [s \in Sessions |->
       IF table[s] = None THEN None
       ELSE [user |-> "client", token |-> table[s].token, expires |-> 0,
             revoked |-> ~table[s].live]]
Current == {table[s].token : s \in {q \in Sessions : table[q] # None}}
Registry == INSTANCE SessionRegistry
            WITH Ids <- Sessions, Users <- {"client"}, table <- Listed,
                 retired <- drawn \ Current
ImplementsRegistry == Registry!Spec
=============================================================================
