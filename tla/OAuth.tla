-------------------------------- MODULE OAuth --------------------------------
(***************************************************************************)
(* Sign-in through an OAuth provider: startOAuth records a one-time state   *)
(* and redirects, finishOAuth consumes it, exchanges the code and, in one   *)
(* transaction, finds or creates the user of the provider's subject and     *)
(* issues a session.  A finishOAuth that loses the race to create an        *)
(* identity rolls back and retries once, looking it up only.                *)
(*                                                                         *)
(* Each action is the code from one await to the next.  The transactions    *)
(* run at READ COMMITTED: an INSERT waits for another transaction that has  *)
(* inserted the same unique key, and then either fails or goes on.          *)
(***************************************************************************)
EXTENDS Integers

CONSTANTS
    Requests,   \* requests a deployment handles at the same time
    States,     \* state tokens (a bound on how many are generated)
    Providers,  \* the configured providers
    Subjects,   \* a provider's subjects
    Users,      \* user ids (random UUIDs; a bound on users)
    None,
    StateTtl,   \* STATE_TTL_MS
    MaxTime     \* bound on the clock

ASSUME StateTtlAssumption == StateTtl \in Nat \ {0} /\ MaxTime \in Nat

\* A row of oauth_states; consumed_at is only compared with NULL.
StateRow == [provider: Providers, expires: Nat, consumed: BOOLEAN]

\* How a state was begun (history).
Beginning == [provider: Providers, time: Nat]

Keys == Providers \X Subjects

ASSUME NoneAssumption ==
    None \notin StateRow \cup Beginning \cup Providers \cup States \cup Subjects \cup Users

VARIABLES
    now,         \* Date.now(), one clock for every server
    states,      \* the oauth_states table
    shown,       \* states whose redirect some browser has received
    users,       \* the committed users
    identities,  \* the committed oauth_identities
    logins,      \* history: sessions committed on the strength of a state
    began,       \* history: for which provider and when a state was begun
    pc,          \* the await a request has reached
    provider,    \* the request's provider
    state,       \* the state it generated, or presents
    at,          \* the clock it read
    subject,     \* the subject the code was exchanged for
    retry,       \* it is in the retry transaction
    user,        \* userId in the open transaction
    pendUser,    \* the users row its open transaction has inserted
    pendKey,     \* whether that transaction has inserted the identity
    reply        \* the AuthResult

Tables == <<states, shown, users, identities, logins, began>>
Request == <<provider, state, at>>
Tx == <<retry, user, pendUser, pendKey>>
vars == <<now, Tables, pc, Request, subject, Tx, reply>>

NoReply == [kind |-> "none", user |-> None]

-----------------------------------------------------------------------------
(* Helpers.  A definition named <D>If... is a plausible mistake in D: no       *)
(* action uses it, it is there to see which property would notice.           *)

Answer(r, kind, u) ==
    /\ pc' = [pc EXCEPT ![r] = "replied"]
    /\ reply' = [reply EXCEPT ![r] = [kind |-> kind, user |-> u]]

Goto(r, label) == pc' = [pc EXCEPT ![r] = label] /\ UNCHANGED reply

\* The unique key (provider, provider_subject) of the request's identity.
Key(r) == <<provider[r], subject[r]>>

\* Another transaction has inserted that key and is still open.
KeyLocked(r) == \E q \in Requests \ {r} : pendKey[q] /\ Key(q) = Key(r)

Rollback(r) ==
    /\ pendUser' = [pendUser EXCEPT ![r] = None]
    /\ pendKey' = [pendKey EXCEPT ![r] = FALSE]

-----------------------------------------------------------------------------
(* startOAuth *)

\* A missing or unknown provider, or a redirect that is not relative.
RejectInput(r) ==
    /\ pc[r] = "idle"
    /\ Answer(r, "denied", None)
    /\ UNCHANGED <<now, Tables, Request, subject, Tx>>

\* Generates the state and the verifier, hashes them and reads the clock.
StartOAuth(r) ==
    /\ pc[r] = "idle"
    /\ \E p \in Providers, s \in States :
          /\ began[s] = None
          /\ began' = [began EXCEPT ![s] = [provider |-> p, time |-> now]]
          /\ provider' = [provider EXCEPT ![r] = p]
          /\ state' = [state EXCEPT ![r] = s]
    /\ at' = [at EXCEPT ![r] = now]
    /\ Goto(r, "create")
    /\ UNCHANGED <<now, states, shown, users, identities, logins, subject, Tx>>

InsertState(r) ==
    states' = [states EXCEPT ![state[r]] =
        [provider |-> provider[r], expires |-> at[r] + StateTtl, consumed |-> FALSE]]

\* The INSERT, then the authorization URL, which may be refused.
CreateState(r) ==
    /\ pc[r] = "create"
    /\ InsertState(r)
    /\ \E kind \in {"redirect", "error"} : Answer(r, kind, None)
    /\ UNCHANGED <<now, shown, users, identities, logins, began, Request, subject, Tx>>

\* The connection breaks: the row may have been inserted all the same.
CreateStateFails(r) ==
    /\ pc[r] = "create"
    /\ InsertState(r) \/ UNCHANGED states
    /\ Answer(r, "error", None)
    /\ UNCHANGED <<now, shown, users, identities, logins, began, Request, subject, Tx>>

-----------------------------------------------------------------------------
(* finishOAuth *)

\* The callback comes with a state, for whichever provider's callback path;
\* the state is hashed and the clock read.
FinishOAuth(r) ==
    /\ pc[r] = "idle"
    /\ \E p \in Providers, s \in shown :
          /\ provider' = [provider EXCEPT ![r] = p]
          /\ state' = [state EXCEPT ![r] = s]
    /\ at' = [at EXCEPT ![r] = now]
    /\ Goto(r, "consume")
    /\ UNCHANGED <<now, Tables, subject, Tx>>

\* The WHERE of consume.
ConsumableIfReusable(r) ==
    LET row == states[state[r]] IN
    row # None /\ row.provider = provider[r] /\ row.expires > at[r]
ConsumableIfAnyProvider(r) ==
    LET row == states[state[r]] IN
    row # None /\ ~row.consumed /\ row.expires > at[r]
Consumable(r) ==
    LET row == states[state[r]] IN
    row # None /\ row.provider = provider[r] /\ ~row.consumed /\ row.expires > at[r]

MarkConsumed(r) ==
    states' = IF Consumable(r)
              THEN [states EXCEPT ![state[r]].consumed = TRUE]
              ELSE states

\* The UPDATE runs outside the transaction: it is durable whatever follows.
Consume(r) ==
    /\ pc[r] = "consume"
    /\ MarkConsumed(r)
    /\ IF Consumable(r) THEN Goto(r, "exchange") ELSE Answer(r, "denied", None)
    /\ UNCHANGED <<now, shown, users, identities, logins, began, Request, subject, Tx>>

ConsumeFails(r) ==
    /\ pc[r] = "consume"
    /\ MarkConsumed(r) \/ UNCHANGED states
    /\ Answer(r, "error", None)
    /\ UNCHANGED <<now, shown, users, identities, logins, began, Request, subject, Tx>>

\* The provider answers with a subject, or refuses the code.
Exchange(r) ==
    /\ pc[r] = "exchange"
    /\ \/ \E x \in Subjects :
            subject' = [subject EXCEPT ![r] = x] /\ Goto(r, "lookup")
       \/ Answer(r, "unauthenticated", None) /\ UNCHANGED subject
    /\ UNCHANGED <<now, Tables, Request, Tx>>

-----------------------------------------------------------------------------
(* The transaction of finishOAuth, and its retry *)

\* BEGIN and findByProviderSubject.  The retry creates nothing: it answers
\* 'OAuth identity collision could not be resolved' when it finds no row.
Lookup(r) ==
    /\ pc[r] = "lookup"
    /\ IF identities[Key(r)] # None
       THEN user' = [user EXCEPT ![r] = identities[Key(r)]] /\ Goto(r, "issue")
       ELSE /\ UNCHANGED user
            /\ IF retry[r] THEN Answer(r, "unresolved", None)
                           ELSE Goto(r, "createUser")
    /\ UNCHANGED <<now, Tables, Request, subject, retry, pendUser, pendKey>>

FreeUsers == Users \ (users \cup {pendUser[q] : q \in Requests})

CreateUserIfOutside(r) ==
    /\ pc[r] = "createUser"
    /\ \E u \in FreeUsers : /\ users' = users \cup {u}
                            /\ pendUser' = [pendUser EXCEPT ![r] = u]
    /\ Goto(r, "createIdentity")
    /\ UNCHANGED <<now, states, shown, identities, logins, began, Request,
                   subject, retry, user, pendKey>>
CreateUser(r) ==
    /\ pc[r] = "createUser"
    /\ \E u \in FreeUsers : pendUser' = [pendUser EXCEPT ![r] = u]
    /\ Goto(r, "createIdentity")
    /\ UNCHANGED <<now, Tables, Request, subject, retry, user, pendKey>>

InsertIdentity(r) ==
    /\ pendKey' = [pendKey EXCEPT ![r] = TRUE]
    /\ user' = [user EXCEPT ![r] = pendUser[r]]
    /\ Goto(r, "issue")
    /\ UNCHANGED <<retry, pendUser>>

\* The INSERT waits for the key.  A duplicate rolls back and retries.
CreateIdentityIfUpsert(r) ==
    /\ pc[r] = "createIdentity"
    /\ ~KeyLocked(r)
    /\ InsertIdentity(r)
    /\ UNCHANGED <<now, Tables, Request, subject>>
CreateIdentity(r) ==
    /\ pc[r] = "createIdentity"
    /\ ~KeyLocked(r)
    /\ IF identities[Key(r)] = None
       THEN InsertIdentity(r)
       ELSE /\ Rollback(r)
            /\ retry' = [retry EXCEPT ![r] = TRUE]
            /\ Goto(r, "lookup")
            /\ UNCHANGED user
    /\ UNCHANGED <<now, Tables, Request, subject>>

\* The users row the transaction can read: committed, or its own.
LoadableIfCommitted(r) == user[r] \in users
Loadable(r) == user[r] \in users \cup {pendUser[r]}

\* issueSessionForUser: it loads the user in the transaction and inserts the
\* session, or answers 'OAuth identity user could not be loaded'.
IssueSession(r) ==
    /\ pc[r] = "issue"
    /\ IF Loadable(r)
       THEN Goto(r, "commit") /\ UNCHANGED <<pendUser, pendKey>>
       ELSE Answer(r, "unresolved", None) /\ Rollback(r)
    /\ UNCHANGED <<now, Tables, Request, subject, retry, user>>

Publish(r) ==
    /\ users' = users \cup ({pendUser[r]} \ {None})
    /\ identities' = IF pendKey[r] THEN [identities EXCEPT ![Key(r)] = pendUser[r]]
                                   ELSE identities
    /\ logins' = [logins EXCEPT ![state[r]] = @ + 1]
    /\ Rollback(r)

Commit(r) ==
    /\ pc[r] = "commit"
    /\ Publish(r)
    /\ Answer(r, "success", user[r])
    /\ UNCHANGED <<now, states, shown, began, Request, subject, retry, user>>

\* The connection breaks at COMMIT, after the server has committed or before.
CommitFailsIfNotRolledBack(r) ==
    /\ pc[r] = "commit"
    /\ Answer(r, "error", None)
    /\ UNCHANGED <<now, Tables, Request, subject, Tx>>
CommitFails(r) ==
    /\ pc[r] = "commit"
    /\ Publish(r) \/ (Rollback(r) /\ UNCHANGED <<users, identities, logins>>)
    /\ Answer(r, "error", None)
    /\ UNCHANGED <<now, states, shown, began, Request, subject, retry, user>>

-----------------------------------------------------------------------------
(* Faults, replies, time *)

\* Any other await may come back with an AuthError, which is returned at once;
\* an open transaction is rolled back.
Fail(r) ==
    /\ pc[r] \in {"exchange", "lookup", "createUser", "createIdentity", "issue"}
    /\ Answer(r, "error", None)
    /\ Rollback(r)
    /\ UNCHANGED <<now, Tables, Request, subject, retry, user>>

\* The bound on users is reached: generating one fails.
Exhausted(r) == pc[r] = "createUser" /\ FreeUsers = {}

Forget(r) ==
    /\ pc' = [pc EXCEPT ![r] = "idle"]
    /\ provider' = [provider EXCEPT ![r] = None]
    /\ state' = [state EXCEPT ![r] = None]
    /\ at' = [at EXCEPT ![r] = 0]
    /\ subject' = [subject EXCEPT ![r] = None]
    /\ retry' = [retry EXCEPT ![r] = FALSE]
    /\ user' = [user EXCEPT ![r] = None]
    /\ Rollback(r)
    /\ reply' = [reply EXCEPT ![r] = NoReply]
    /\ UNCHANGED <<now, states, users, identities, logins, began>>

\* The reply reaches the browser; a redirect carries the state to it.
Receive(r) ==
    /\ pc[r] = "replied"
    /\ shown' = IF reply[r].kind = "redirect" THEN shown \cup {state[r]} ELSE shown
    /\ Forget(r)

\* The server handling the request dies, or the reply is lost on its way.
Abandon(r) ==
    /\ pc[r] # "idle"
    /\ UNCHANGED shown
    /\ Forget(r)

Tick ==
    /\ now < MaxTime
    /\ now' = now + 1
    /\ UNCHANGED <<Tables, pc, Request, subject, Tx, reply>>

-----------------------------------------------------------------------------
Init ==
    /\ now = 0
    /\ states = [s \in States |-> None]
    /\ shown = {} /\ users = {}
    /\ identities = [k \in Keys |-> None]
    /\ logins = [s \in States |-> 0]
    /\ began = [s \in States |-> None]
    /\ pc = [r \in Requests |-> "idle"]
    /\ provider = [r \in Requests |-> None]
    /\ state = [r \in Requests |-> None]
    /\ at = [r \in Requests |-> 0]
    /\ subject = [r \in Requests |-> None]
    /\ retry = [r \in Requests |-> FALSE]
    /\ user = [r \in Requests |-> None]
    /\ pendUser = [r \in Requests |-> None]
    /\ pendKey = [r \in Requests |-> FALSE]
    /\ reply = [r \in Requests |-> NoReply]

\* The steps by which a request advances when nothing fails.
Handle(r) ==
    \/ CreateState(r) \/ Consume(r) \/ Exchange(r) \/ Lookup(r)
    \/ CreateUser(r) \/ IssueSession(r) \/ Commit(r)

Next ==
    \/ Tick
    \/ \E r \in Requests :
          \/ RejectInput(r) \/ StartOAuth(r) \/ FinishOAuth(r)
          \/ Handle(r) \/ CreateIdentity(r)
          \/ CreateStateFails(r) \/ ConsumeFails(r) \/ CommitFails(r) \/ Fail(r)
          \/ Receive(r) \/ Abandon(r)

Spec == Init /\ [][Next]_vars

\* Every await settles; the lock on a key is granted in the order it is asked
\* for, so an INSERT that can proceed again and again does.
Fairness ==
    \A r \in Requests : /\ WF_vars(Handle(r))
                        /\ SF_vars(CreateIdentity(r))
                        /\ WF_vars(Exhausted(r) /\ Fail(r))

FairSpec == Spec /\ Fairness

-----------------------------------------------------------------------------
(* Properties *)

Pcs == {"idle", "create", "consume", "exchange", "lookup", "createUser",
        "createIdentity", "issue", "commit", "replied"}

Kinds == {"none", "redirect", "success", "unauthenticated", "denied", "error",
          "unresolved"}

TypeOK ==
    /\ now \in Nat
    /\ states \in [States -> StateRow \cup {None}]
    /\ shown \subseteq States
    /\ users \subseteq Users
    /\ identities \in [Keys -> Users \cup {None}]
    /\ logins \in [States -> Nat]
    /\ began \in [States -> Beginning \cup {None}]
    /\ pc \in [Requests -> Pcs]
    /\ provider \in [Requests -> Providers \cup {None}]
    /\ state \in [Requests -> States \cup {None}]
    /\ at \in [Requests -> Nat]
    /\ subject \in [Requests -> Subjects \cup {None}]
    /\ retry \in [Requests -> BOOLEAN]
    /\ user \in [Requests -> Users \cup {None}]
    /\ pendUser \in [Requests -> Users \cup {None}]
    /\ pendKey \in [Requests -> BOOLEAN]
    /\ reply \in [Requests -> [kind: Kinds, user: Users \cup {None}]]

Succeeded(r) == pc[r] = "replied" /\ reply[r].kind = "success"

\* A started sign-in yields at most one session, however often its callback is
\* repeated and whatever fails on the way.
OneLoginPerState == \A s \in States : logins[s] <= 1

\* A session is only issued on the strength of a state that was begun with the
\* same provider, less than the state's lifetime before the callback.
LoginAnswersItsStart ==
    \A r \in Requests : Succeeded(r) =>
       /\ began[state[r]].provider = provider[r]
       /\ at[r] < began[state[r]].time + StateTtl

\* Every committed user has an identity: a callback that loses the race for an
\* identity, or fails, leaves no user behind.
NoOrphanUsers == \A u \in users : \E k \in Keys : identities[k] = u

\* A callback that succeeds signs in the one user the subject is linked to,
\* whether it created the identity or lost the race to.
ServedAsCanonicalUser ==
    \A r \in Requests : Succeeded(r) =>
       reply[r].user # None /\ reply[r].user = identities[Key(r)]

\* One retry is enough: after a duplicate identity the lookup finds it, and
\* the user of an identity can always be loaded.
CollisionsResolve == \A r \in Requests : reply[r].kind # "unresolved"

\* Every request is answered, unless its server dies first.
EveryRequestIsAnswered ==
    \A r \in Requests : pc[r] # "idle" ~> pc[r] \in {"replied", "idle"}

\* The identities table links a subject to a new user once and for good.
Directory == INSTANCE IdentityDirectory WITH link <- identities
ImplementsDirectory == Directory!Spec

\* Whom the INSERT of a request waits for.
WaitsFor(r, q) == pc[r] = "createIdentity" /\ q # r /\ pendKey[q] /\ Key(q) = Key(r)

\* An INSERT waits for one transaction, and that one is past its own INSERT: it
\* waits for nobody and ends with its next steps, so no two callbacks deadlock.
WaitsAreShort ==
    \A r, q \in Requests : WaitsFor(r, q) =>
       /\ pc[q] \in {"issue", "commit"}
       /\ \A p \in Requests : WaitsFor(r, p) => p = q

\* The awaits before the answer; from a lost race a callback goes back, once.
StepsLeft(r) ==
    IF pc[r] = "lookup" /\ retry[r] THEN 3
    ELSE [idle |-> 0, replied |-> 0, create |-> 1, commit |-> 1, issue |-> 2,
          createIdentity |-> 4, createUser |-> 5, lookup |-> 6, exchange |-> 7,
          consume |-> 8][pc[r]]

\* Each step of a request under way brings its answer nearer, whatever the provider
\* says, whatever fails and whoever else wins the race: eight of them at the most.
RequestsAdvance ==
    [][\A r \in Requests : StepsLeft(r) > 0 =>
          \/ UNCHANGED <<pc[r], retry[r]>>
          \/ StepsLeft(r)' \in 0 .. (StepsLeft(r) - 1)]_vars

-----------------------------------------------------------------------------
(* Why it holds *)

InTx(r) == pc[r] \in {"lookup", "createUser", "createIdentity", "issue", "commit"}

\* What a transaction has written, and the user it goes on with.
OpenTransaction(r) ==
    /\ pendUser[r] # None =>
          /\ pendUser[r] \notin users
          /\ pc[r] \in {"createIdentity", "issue", "commit"}
          /\ \A q \in Requests \ {r} : pendUser[q] # pendUser[r]
    /\ pc[r] \in {"createUser", "createIdentity"} => ~retry[r]
    /\ pc[r] = "createIdentity" => pendUser[r] # None
    /\ pendKey[r] =>
          /\ pendUser[r] # None /\ user[r] = pendUser[r]
          /\ pc[r] \in {"issue", "commit"}
          /\ identities[Key(r)] = None
          /\ ~KeyLocked(r)
    /\ pc[r] \in {"issue", "commit"} /\ ~pendKey[r] =>
          /\ pendUser[r] = None
          /\ user[r] # None /\ user[r] = identities[Key(r)]
    /\ retry[r] => InTx(r) \/ pc[r] = "replied"
    /\ retry[r] /\ InTx(r) => identities[Key(r)] # None

\* What a request was given, and reached.
Progress(r) ==
    /\ pc[r] \in {"create", "consume", "exchange"} \/ InTx(r) \/ Succeeded(r) =>
          provider[r] \in Providers /\ state[r] \in States
    /\ InTx(r) \/ Succeeded(r) => subject[r] \in Subjects
    /\ pc[r] = "replied" /\ reply[r].kind = "redirect" => state[r] \in States

\* A callback past the consumption of its state.  It is the only one on that
\* state, and no session has been issued for it yet.
Spending(r) == pc[r] = "exchange" \/ InTx(r)

StateHistory(s) ==
    /\ states[s] # None =>
          /\ began[s] # None /\ states[s].provider = began[s].provider
          /\ states[s].expires = began[s].time + StateTtl
    /\ logins[s] <= 1
    /\ logins[s] > 0 => states[s] # None /\ states[s].consumed

UsesStateAlone(r) ==
    /\ pc[r] = "create" =>
          /\ states[state[r]] = None
          /\ began[state[r]] = [provider |-> provider[r], time |-> at[r]]
          /\ \A q \in Requests \ {r} : pc[q] = "create" => state[q] # state[r]
    /\ Succeeded(r) => began[state[r]] # None
    /\ Spending(r) =>
          /\ states[state[r]] # None /\ states[state[r]].consumed
          /\ states[state[r]].provider = provider[r]
          /\ at[r] < states[state[r]].expires
          /\ logins[state[r]] = 0
          /\ \A q \in Requests \ {r} : Spending(q) => state[q] # state[r]

StatesAreSpentOnce ==
    /\ \A s \in States : StateHistory(s)
    /\ \A r \in Requests : UsesStateAlone(r)

\* Users and identities are created together.
UsersAreLinked ==
    /\ NoOrphanUsers
    /\ \A k \in Keys : identities[k] # None => identities[k] \in users
    /\ \A k, j \in Keys : identities[k] # None /\ identities[k] = identities[j] => k = j

\* The inductive invariant.
Coherent ==
    /\ TypeOK
    /\ \A r \in Requests : Progress(r) /\ OpenTransaction(r)
    /\ StatesAreSpentOnce
    /\ UsersAreLinked
    /\ ServedAsCanonicalUser
    /\ LoginAnswersItsStart
    /\ CollisionsResolve
=============================================================================
