------------------------------ MODULE MCGateway ------------------------------
(* The composed application on small sets, for TLC: four deployments that are *)
(* accepted, and for each check of the start-up one that only it refuses,     *)
(* and that would not be served as it should be if it were not refused.       *)
EXTENDS Gateway, TLC

MCPaths == {"/signup", "/signin", "/session", "/logout", "/logout-all",
            "/oauth", "/oauth/finish", "/callback", "/reset", "/reset/finish"}
MCProviders == {"p", "q"}

CoreActions == RequiredActions
PathOf ==
    [a \in Actions |->
       CASE a = "signUpWithPassword" -> "/signup"
         [] a = "signInWithPassword" -> "/signin"
         [] a \in {"getSession", "refreshSession"} -> "/session"
         [] a = "logout" -> "/logout"
         [] a = "logoutAll" -> "/logout-all"
         [] a = "startOAuth" -> "/oauth"
         [] a = "finishOAuth" -> "/oauth/finish"
         [] a = "requestPasswordReset" -> "/reset"
         [] a = "resetPassword" -> "/reset/finish"
         [] OTHER -> None]

Only(S, f) == [a \in Actions |-> IF a \in S THEN f[a] ELSE None]
Usable == [complete |-> TRUE, pkce |-> "S256", callback |-> "/callback"]

\* The reference application with bearer tokens.
Bearer ==
    [mode |-> "bearer",
     method |-> Only(CoreActions, [a \in Actions |-> IF a = "getSession" THEN "GET" ELSE "POST"]),
     path |-> Only(CoreActions, PathOf),
     transport |-> Only(CoreActions, [a \in Actions |-> "bearer"]),
     publicOrigin |-> "origin", trusted |-> {},
     cookieName |-> TRUE, cookiePath |-> TRUE, cookieDomain |-> FALSE,
     providers |-> [p \in Providers |-> None],
     policies |-> <<>>,
     plugins |-> <<EmailPasswordPlugin>>,
     redirects |-> FALSE]

\* With cookies for a domain, behind a proxy, and a policy that may redirect.
Cookie ==
    [Bearer EXCEPT !.mode = "cookie", !.cookieDomain = TRUE,
                   !.trusted = {"x-forwarded-host", "x-forwarded-proto"},
                   !.transport = Only(CoreActions, [a \in Actions |-> "cookie"]),
                   !.policies = <<[mayRedirect |-> TRUE]>>, !.redirects = TRUE]

\* With a pair of optional actions.
With(c, pair) ==
    LET S == Configured(c) \cup pair IN
    [c EXCEPT !.method = [a \in Actions |-> IF a \in pair THEN "POST" ELSE c.method[a]],
              !.path = Only(S, PathOf),
              !.transport = [a \in Actions |-> IF a \in pair THEN c.transport["logout"]
                                               ELSE c.transport[a]]]

WithOAuth(c) ==
    [With(c, OAuthActions) EXCEPT !.providers = [@ EXCEPT !["p"] = Usable],
                                  !.plugins = Append(@, OAuthPlugin),
                                  !.redirects = TRUE]

\* Both transports: signing in gives a cookie, of use for signing out only, and
\* the rest is bearer; with both plugins.
Mixed ==
    [WithOAuth(Bearer) EXCEPT
        !.mode = "both",
        !.transport = [@ EXCEPT !["signInWithPassword"] = "cookie", !["logout"] = "cookie"]]

OAuth == WithOAuth(Bearer)

\* The public origin ends in a slash, as no Origin header does.
Slash == [With(Bearer, ResetActions) EXCEPT !.publicOrigin = "url"]

Accepting == {Bearer, Cookie, Mixed, Slash}

Rogue(S) == [id |-> "custom", actions |-> S]

\* Each has one fault.  A runtime that trusts one of the two headers, which the
\* adapter would treat like both, is the only one that could be served.
Rejected ==
    {[Bearer EXCEPT !.plugins = Append(@, Rogue({"signInWithPassword"}))],
     [Bearer EXCEPT !.plugins = Append(@, Rogue({"logout"}))],
     [OAuth EXCEPT !.plugins = <<EmailPasswordPlugin>>],
     [Bearer EXCEPT !.path["logout"] = "/signin"],
     [Bearer EXCEPT !.method["verifyEmail"] = "POST", !.path["verifyEmail"] = "/callback"],
     [OAuth EXCEPT !.method["finishOAuth"] = None, !.path["finishOAuth"] = None,
                   !.transport["finishOAuth"] = None],
     [OAuth EXCEPT !.providers["p"] = None],
     [OAuth EXCEPT !.providers["p"].complete = FALSE],
     [OAuth EXCEPT !.providers["p"].pkce = "plain"],
     [OAuth EXCEPT !.providers["p"].callback = "/signin"],
     [OAuth EXCEPT !.providers["q"] = Usable],
     [OAuth EXCEPT !.redirects = FALSE],
     [Bearer EXCEPT !.policies = <<[mayRedirect |-> TRUE]>>],
     [Bearer EXCEPT !.transport["signInWithPassword"] = "cookie"],
     [Cookie EXCEPT !.cookieName = FALSE],
     [Cookie EXCEPT !.cookiePath = FALSE, !.cookieDomain = FALSE],
     [Slash EXCEPT !.method["resetPassword"] = None, !.path["resetPassword"] = None,
                   !.transport["resetPassword"] = None],
     [Cookie EXCEPT !.publicOrigin = "invalid"],
     [Cookie EXCEPT !.trusted = {"x-forwarded-host"}]}

MCConfigurations == Accepting \cup Rejected
Symmetry == Permutations(Requests) \cup Permutations(Tokens)
MCTables == <<"users", "sessions">>

Clean == [repeated |-> FALSE, malformed |-> FALSE, forwarded |-> "own",
          origin |-> "own", referer |-> "absent", body |-> "complete"]

MCEnvelopes ==
    {[Clean EXCEPT !.origin = "absent", !.referer = "own"],
     [Clean EXCEPT !.origin = "other", !.referer = "own"],
     [Clean EXCEPT !.forwarded = "partial", !.body = "unreadable"],
     [Clean EXCEPT !.forwarded = "absent", !.repeated = TRUE, !.malformed = TRUE]}
=============================================================================
