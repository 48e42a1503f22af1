------------------------------- MODULE Startup -------------------------------
(***************************************************************************)
(* From a configuration to an application that serves: the checks of the    *)
(* plugins, of the runtime adapter and of validateStartupConfig, and the    *)
(* comparison of the database schema, in the order createCycle2ReferenceApp *)
(* makes them.  All of them refuse with the same code, so a check is a      *)
(* predicate of the configuration; only the schema comparison awaits, one   *)
(* query at a time, while somebody may be migrating the database.           *)
(***************************************************************************)
EXTENDS Naturals, Sequences

CONSTANTS
    Configurations,  \* the configurations somebody deploys
    Paths,           \* URL paths, of entrypoints and of OAuth callbacks
    Providers,       \* ids of OAuth providers
    Tables,          \* EXPECTED_TABLES, in the order they are looked at
    None

SupportedActions ==
    <<"signUpWithPassword", "signInWithPassword", "requestPasswordReset",
      "resetPassword", "requestEmailVerification", "verifyEmail", "getSession",
      "refreshSession", "logout", "logoutAll", "startOAuth", "finishOAuth">>

Actions == {SupportedActions[i] : i \in 1..Len(SupportedActions)}
BuiltInActions == {"getSession", "refreshSession", "logout", "logoutAll"}
OAuthActions == {"startOAuth", "finishOAuth"}
ResetActions == {"requestPasswordReset", "resetPassword"}
VerificationActions == {"requestEmailVerification", "verifyEmail"}
OptionalActions == OAuthActions \cup ResetActions \cup VerificationActions

\* The types leave no entrypoint of the other actions out.
RequiredActions == Actions \ OptionalActions

Transports == {"cookie", "bearer"}
Methods == {"GET", "POST"}

\* What the types of the plugin interface say of a plugin.
Plugin == [id: {"emailPassword", "oauth", "custom"}, actions: SUBSET Actions]

EmailPasswordPlugin ==
    [id |-> "emailPassword",
     actions |-> {"signUpWithPassword", "signInWithPassword"}
                 \cup ResetActions \cup VerificationActions]
OAuthPlugin == [id |-> "oauth", actions |-> OAuthActions]

\* An entry of oauthProviders: does it have an id, endpoints and a callback.
Provider == [complete: BOOLEAN, pkce: {"S256", "plain"}, callback: Paths]

\* AuthConfig, with the plugins the application registers and the redirect
\* capability of its runtime.  publicOrigin is an origin, a URL that is more
\* than its origin (a final slash is enough), or no absolute URL.
Config ==
    [mode: Transports \cup {"both"},
     method: [Actions -> Methods \cup {None}],
     path: [Actions -> Paths \cup {None}],
     transport: [Actions -> Transports \cup {None}],
     publicOrigin: {"origin", "url", "invalid"},
     trusted: SUBSET {"x-forwarded-host", "x-forwarded-proto"},
     cookieName: BOOLEAN, cookiePath: BOOLEAN, cookieDomain: BOOLEAN,
     providers: [Providers -> Provider \cup {None}],
     policies: Seq([mayRedirect: BOOLEAN]),
     plugins: Seq(Plugin),
     redirects: BOOLEAN]

\* A configuration has the form its type says.
WellTyped(c) ==
    /\ c \in Config
    /\ \A a \in RequiredActions :
          c.method[a] # None /\ c.path[a] # None /\ c.transport[a] # None

ASSUME ConfigAssumption == \A c \in Configurations : WellTyped(c)
ASSUME NoneAssumption == None \notin Methods \cup Transports \cup Paths \cup Provider
                                     \cup Actions \cup {"emailPassword", "oauth", "custom"}
ASSUME TablesAssumption == Tables \in Seq({Tables[i] : i \in DOMAIN Tables})

VARIABLES
    config,   \* the configuration of the application
    stage,    \* how far its composition has come
    shape,    \* the tables of the database: absent, with columns missing, whole
    checked   \* how many tables ensureCompatibleSchema has found whole

startupVars == <<config, stage, shape, checked>>

TableNames == {Tables[i] : i \in DOMAIN Tables}

-----------------------------------------------------------------------------
(* The checks.  A definition named <D>If... is a plausible mistake in D: no    *)
(* action uses it, it is there to see which property would notice.           *)

Configured(c) ==
    {a \in Actions : c.method[a] # None /\ c.path[a] # None /\ c.transport[a] # None}

\* An optional action has method, path and transport, or none of the three.
OptionalActionsAreWhole(c) ==
    \A a \in OptionalActions \ Configured(c) :
       c.method[a] = None /\ c.path[a] = None /\ c.transport[a] = None

PairsAreConfiguredTogether(c) ==
    \A pair \in {OAuthActions, ResetActions, VerificationActions} :
       pair \cap Configured(c) \in {{}, pair}

Known(c) == {p \in Providers : c.providers[p] # None}
EntrypointPaths(c) == {c.path[a] : a \in Actions} \ {None}

CallbacksAreDistinct(c) ==
    /\ \A p \in Known(c) : c.providers[p].callback \notin EntrypointPaths(c)
    /\ \A p, q \in Known(c) :
          p # q => c.providers[p].callback # c.providers[q].callback

OAuthIsUsableIfRuntimeUnasked(c) ==
    OAuthActions \cap Configured(c) # {} =>
       /\ Known(c) # {}
       /\ \A p \in Known(c) : c.providers[p].complete /\ c.providers[p].pkce = "S256"
       /\ CallbacksAreDistinct(c)
OAuthIsUsable(c) ==
    OAuthActions \cap Configured(c) # {} =>
       /\ Known(c) # {}
       /\ \A p \in Known(c) : c.providers[p].complete /\ c.providers[p].pkce = "S256"
       /\ CallbacksAreDistinct(c)
       /\ c.redirects

TransportsMatchMode(c) ==
    c.mode # "both" => \A a \in Actions : c.transport[a] \in {c.mode, None}

RoutesAreUnique(c) ==
    \A a, b \in Configured(c) :
       c.method[a] = c.method[b] /\ c.path[a] = c.path[b] => a = b

\* No plugin lists a built-in action, no two list the same, and every
\* configured action is listed or built in.
ActionsHaveOneOwner(c) ==
    /\ \A i \in DOMAIN c.plugins : c.plugins[i].actions \cap BuiltInActions = {}
    /\ \A i, j \in DOMAIN c.plugins :
          i # j => c.plugins[i].actions \cap c.plugins[j].actions = {}
    /\ \A a \in Configured(c) \ BuiltInActions :
          \E i \in DOMAIN c.plugins : a \in c.plugins[i].actions

RedirectsAreSupported(c) ==
    (\E i \in DOMAIN c.policies : c.policies[i].mayRedirect) => c.redirects

StartupConfigIsValid(c) ==
    /\ OptionalActionsAreWhole(c) /\ PairsAreConfiguredTogether(c)
    /\ OAuthIsUsable(c)
    /\ c.cookieName /\ c.cookiePath
    /\ TransportsMatchMode(c) /\ RoutesAreUnique(c)
    /\ ActionsHaveOneOwner(c) /\ RedirectsAreSupported(c)

\* validateConfig of the two plugins; what another plugin asks for is its own.
PluginAccepts(p, c) ==
    /\ p.id = "emailPassword" =>
          c.path["signUpWithPassword"] # None /\ c.path["signInWithPassword"] # None
    /\ p.id = "oauth" =>
          c.path["startOAuth"] # None /\ c.path["finishOAuth"] # None /\ Known(c) # {}

\* validateNodeConfig, and its copies for Bun and Deno.
RuntimeConfigIsValid(c) ==
    /\ c.publicOrigin # "invalid"
    /\ c.trusted \in {{}, {"x-forwarded-host", "x-forwarded-proto"}}

Accepted(c) ==
    /\ \A i \in DOMAIN c.plugins : PluginAccepts(c.plugins[i], c)
    /\ RuntimeConfigIsValid(c)
    /\ StartupConfigIsValid(c)

-----------------------------------------------------------------------------
(* Composition *)

Goes(s) == stage' = s /\ UNCHANGED <<config, shape>>

\* Everything up to the first query.
Compose ==
    /\ stage = "composing"
    /\ Goes(IF Accepted(config) THEN "tables" ELSE "refused")
    /\ UNCHANGED checked

\* ensureCompatibleSchema: one query for the tables, then one for the columns
\* of each.
CheckTables ==
    /\ stage = "tables"
    /\ Goes(IF \A t \in TableNames : shape[t] # "absent" THEN "columns" ELSE "refused")
    /\ UNCHANGED checked

CheckColumnsIfOnlyNames ==
    /\ stage = "columns" /\ checked < Len(Tables)
    /\ checked' = checked + 1 /\ Goes("columns")
CheckColumns ==
    /\ stage = "columns" /\ checked < Len(Tables)
    /\ IF shape[Tables[checked + 1]] = "whole"
       THEN checked' = checked + 1 /\ Goes("columns")
       ELSE Goes("refused") /\ UNCHANGED checked

\* The plugins and policies are registered and the configuration is frozen.
Serve ==
    /\ stage = "columns" /\ checked = Len(Tables)
    /\ Goes("serving")
    /\ UNCHANGED checked

QueryFails ==
    /\ stage \in {"tables", "columns"}
    /\ Goes("refused")
    /\ UNCHANGED checked

\* The process ends, refused or not, and is started again.
Restart ==
    /\ stage # "composing"
    /\ checked' = 0
    /\ Goes("composing")

\* CREATE TABLE IF NOT EXISTS, from outside: a table with columns missing
\* stays as it is.
Migrate(t) ==
    /\ shape[t] = "absent"
    /\ shape' = [shape EXCEPT ![t] = "whole"]
    /\ UNCHANGED <<config, stage, checked>>

StartupInit ==
    /\ config \in Configurations
    /\ stage = "composing"
    /\ shape \in [TableNames -> {"absent", "partial", "whole"}]
    /\ checked = 0

\* The steps of the process itself.
Composes == Compose \/ CheckTables \/ CheckColumns \/ Serve \/ QueryFails

-----------------------------------------------------------------------------
(* Properties *)

Stages == {"composing", "tables", "columns", "serving", "refused"}

StartupTypeOK ==
    /\ config \in Configurations
    /\ stage \in Stages
    /\ shape \in [TableNames -> {"absent", "partial", "whole"}]
    /\ checked \in 0..Len(Tables)

\* An application serves only on a database that has every table with every
\* column, although each table was looked at in a query of its own while the
\* database was being migrated.
ServesOnWholeSchema ==
    stage = "serving" => \A t \in TableNames : shape[t] = "whole"
=============================================================================
