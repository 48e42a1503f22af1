------------------------------ MODULE Sessions ------------------------------
(***************************************************************************)
(* The session life cycle: the built-in kernel actions getSession,          *)
(* refreshSession, logout and logoutAll, session issue by a plugin, the     *)
(* session layer they call and the sessions table they share.               *)
(*                                                                         *)
(* A request is a chain of awaits.  Between two of them every other request *)
(* and the clock may move, so each action below is the code from one await  *)
(* to the next, and what the code read earlier (the validated row, the      *)
(* clock) is kept in the request's own state and may be stale when used.    *)
(*                                                                         *)
(* The database runs at READ COMMITTED: an UPDATE locks the rows it writes, *)
(* waits for rows another transaction has locked, re-evaluates its WHERE on *)
(* the committed row, and is visible to others from its COMMIT.             *)
(***************************************************************************)
EXTENDS Integers

CONSTANTS
    Requests,           \* requests a deployment handles at the same time
    Ids,                \* session ids (random UUIDs; a bound on sessions)
    Users,
    Tokens,             \* opaque tokens (a bound on how many are generated)
    None,               \* "no row", "no credential", "no snapshot"
    AbsoluteLifetime,   \* defaultSessionConfig.absoluteLifetimeMs
    IdleTimeout,        \* defaultSessionConfig.idleTimeoutMs
    RotationThreshold,  \* defaultSessionConfig.rotationThresholdMs
    MaxTime             \* bound on the clock

ASSUME ConfigAssumption ==
    /\ AbsoluteLifetime \in Nat \ {0}
    /\ IdleTimeout \in Nat \ {0}
    /\ RotationThreshold \in Nat
    /\ MaxTime \in Nat

\* A row of the sessions table.  current_token_id and its verifier are both
\* derived from the token, so the token stands for the two; revoked_at is
\* only ever compared with NULL.
Row == [user: Users, token: Tokens, rotated: Nat, expires: Nat, idle: Nat,
        revoked: BOOLEAN]

\* The part of a row the registry lists.
ListedRow == [user: Users, token: Tokens, expires: Nat, revoked: BOOLEAN]

ASSUME NoneAssumption ==
    None \notin Row \cup ListedRow \cup Tokens \cup Users \cup [id: Ids, row: Row]

VARIABLES
    now,        \* Date.now(), one clock for every server
    store,      \* the committed sessions table
    issued,     \* every token generated so far
    retired,    \* history: tokens a committed rotation has replaced
    delivered,  \* tokens some client has received
    pc,         \* the await a request has reached
    op,         \* RequestContext.action
    cred,       \* RequestContext.credential
    snap,       \* the row validateSession returned, context.session
    at,         \* the clock refreshSession read
    fresh,      \* the token refreshSession generated
    want,       \* rows the UPDATE under way has still to lock
    pend,       \* rows written by the open transaction (and so locked by it)
    reply,      \* the AuthResult
    arrival,    \* history: the committed table when the request arrived
    since       \* history: the clock when the request arrived

vars == <<now, store, issued, retired, delivered, pc, op, cred, snap, at,
          fresh, want, pend, reply, arrival, since>>

BuiltInActions == {"getSession", "refreshSession", "logout", "logoutAll"}
NoWrites == [s \in Ids |-> None]
NoReply == [kind |-> "none", token |-> None]

-----------------------------------------------------------------------------
(* Helpers.  A definition named <D>If... is a plausible mistake in D: no       *)
(* action uses it, it is there to see which property would notice.           *)

\* The table and the read-only part of a request that most steps leave alone.
Table == <<store, issued, retired, delivered>>
Envelope == <<op, cred, arrival, since>>

Exists(s) == store[s] # None
Locked(r, s) == \E q \in Requests \ {r} : pend[q][s] # None

\* Both expiry tests of the code: expired from the instant itself on.
ExpiredIfIdleIgnored(row) == row.expires <= now
Expired(row) == row.expires <= now \/ row.idle <= now

\* The row a credential authenticates.
Current(s, t) == Exists(s) /\ store[s].token = t /\ ~store[s].revoked

RotationDueIfLater(row) == now - row.rotated > RotationThreshold
RotationDue(row) == now - row.rotated >= RotationThreshold

Answer(r, kind, token) ==
    /\ pc' = [pc EXCEPT ![r] = "replied"]
    /\ reply' = [reply EXCEPT ![r] = [kind |-> kind, token |-> token]]

Goto(r, label) == pc' = [pc EXCEPT ![r] = label] /\ UNCHANGED reply

\* An unauthenticated validation ends a request, except that logout goes on
\* without a session (and without the application's policies).
NotAuthenticated(r) ==
    IF op[r] = "logout"
    THEN Goto(r, "policies") /\ snap' = [snap EXCEPT ![r] = None]
    ELSE Answer(r, "unauthenticated", None) /\ UNCHANGED snap

-----------------------------------------------------------------------------
(* Arrival *)

Arrive(r, o, c) ==
    /\ pc[r] = "idle"
    /\ op' = [op EXCEPT ![r] = o]
    /\ cred' = [cred EXCEPT ![r] = c]
    /\ arrival' = [arrival EXCEPT ![r] = store]
    /\ since' = [since EXCEPT ![r] = now]
    /\ UNCHANGED <<now, Table, snap, at, fresh, want, pend>>

\* A plugin has authenticated a user and opens the transaction that issues.
SignIn(r) == Arrive(r, "signIn", None) /\ Goto(r, "issue")

Present(r, o, c) == Arrive(r, o, c) /\ Goto(r, "find")

\* Without a credential only logout has anything to do.
PresentNothing(r, o) ==
    /\ Arrive(r, o, None)
    /\ IF o = "logout" THEN Goto(r, "policies") ELSE Answer(r, "denied", None)

-----------------------------------------------------------------------------
(* validateSession *)

\* The row whose current_token_id the credential derives, if it is live.
FindSession(r) ==
    /\ pc[r] = "find"
    /\ \/ \E s \in Ids :
            /\ Current(s, cred[r])
            /\ snap' = [snap EXCEPT ![r] = [id |-> s, row |-> store[s]]]
            /\ Goto(r, "expiry")
       \/ /\ \A s \in Ids : ~Current(s, cred[r])
          /\ NotAuthenticated(r)
    /\ UNCHANGED <<now, Table, Envelope, at, fresh, want, pend>>

\* The expiry test on the row read, after the verifier was awaited; then the
\* subject is loaded (users are never deleted).
CheckExpiry(r) ==
    /\ pc[r] = "expiry"
    /\ IF Expired(snap[r].row)
       THEN NotAuthenticated(r)
       ELSE Goto(r, "policies") /\ UNCHANGED snap
    /\ UNCHANGED <<now, Table, Envelope, at, fresh, want, pend>>

-----------------------------------------------------------------------------
(* The kernel after validation *)

\* Any policy may refuse.  The application's own, skipped when a logout has
\* no session, may also redirect or throw.
PolicyRefuses(r) ==
    /\ pc[r] = "policies"
    /\ \E kind \in {"denied", "redirect", "error"} :
          /\ kind # "denied" => snap[r] # None
          /\ Answer(r, kind, None)
    /\ UNCHANGED <<now, Table, Envelope, snap, at, fresh, want, pend>>

\* getSession, and a logout that found no session, are answered here; the
\* others open a transaction.
PoliciesAllow(r) ==
    /\ pc[r] = "policies"
    /\ IF op[r] = "getSession" \/ snap[r] = None
       THEN Answer(r, "success", None)
       ELSE Goto(r, "begin")
    /\ UNCHANGED <<now, Table, Envelope, snap, at, fresh, want, pend>>

\* refreshSession up to its UPDATE: it works on the row validation read, and
\* reads the clock once.
StartRefresh(r) ==
    /\ pc[r] = "begin" /\ op[r] = "refreshSession"
    /\ IF snap[r].row.revoked \/ Expired(snap[r].row)
       THEN Answer(r, "unauthenticated", None)
            /\ UNCHANGED <<issued, at, fresh, want>>
       ELSE /\ at' = [at EXCEPT ![r] = now]
            /\ want' = [want EXCEPT ![r] = {snap[r].id}]
            /\ IF RotationDue(snap[r].row)
               THEN \E t \in Tokens \ issued :
                      /\ fresh' = [fresh EXCEPT ![r] = t]
                      /\ issued' = issued \cup {t}
               ELSE UNCHANGED <<fresh, issued>>
            /\ Goto(r, "write")
    /\ UNCHANGED <<now, store, retired, delivered, Envelope, snap, pend>>

\* The UPDATE of logout names one row; that of logoutAll the user's rows that
\* are committed and not revoked when the statement starts.
RevocationTargetsIfOnlyOwn(r) == {snap[r].id}
RevocationTargets(r) ==
    IF op[r] = "logout"
    THEN {snap[r].id}
    ELSE {s \in Ids : /\ Exists(s) /\ ~store[s].revoked
                      /\ store[s].user = snap[r].row.user}

StartRevocation(r) ==
    /\ pc[r] = "begin" /\ op[r] \in {"logout", "logoutAll"}
    /\ want' = [want EXCEPT ![r] = RevocationTargets(r)]
    /\ Goto(r, "write")
    /\ UNCHANGED <<now, Table, Envelope, snap, at, fresh, pend>>

-----------------------------------------------------------------------------
(* The transaction *)

\* What an UPDATE's WHERE says of a row once it is locked, and what it sets.
\* compareAndSwapToken and update do not look at revoked_at.
MatchesIfNoCompare(r, s) == op[r] = "logoutAll" => ~store[s].revoked
Matches(r, s) ==
    CASE op[r] = "refreshSession" ->
           fresh[r] # None => store[s].token = snap[r].row.token
      [] op[r] = "logout" -> TRUE
      [] op[r] = "logoutAll" -> ~store[s].revoked

ExtendedIfWholeRow(r, s) == [snap[r].row EXCEPT !.idle = at[r] + IdleTimeout]
Extended(r, s) == [store[s] EXCEPT !.idle = at[r] + IdleTimeout]

Rotated(r, s) == [Extended(r, s) EXCEPT !.token = fresh[r], !.rotated = at[r]]

WrittenIfAlwaysRotated(r, s) ==
    IF op[r] = "refreshSession" THEN Rotated(r, s)
                                ELSE [store[s] EXCEPT !.revoked = TRUE]
Written(r, s) ==
    IF op[r] = "refreshSession"
    THEN IF fresh[r] = None THEN Extended(r, s) ELSE Rotated(r, s)
    ELSE [store[s] EXCEPT !.revoked = TRUE]

\* The statement reaches its next row, in whatever order it scans them.
UpdateRow(r, s) ==
    /\ pc[r] = "write"
    /\ s \in want[r]
    /\ ~Locked(r, s)
    /\ want' = [want EXCEPT ![r] = @ \ {s}]
    /\ pend' = IF Matches(r, s)
               THEN [pend EXCEPT ![r][s] = Written(r, s)]
               ELSE pend
    /\ UNCHANGED <<now, Table, pc, Envelope, snap, at, fresh, reply>>

UpdateEnds(r) ==
    /\ pc[r] = "write" /\ want[r] = {}
    /\ Goto(r, "commit")
    /\ UNCHANGED <<now, Table, Envelope, snap, at, fresh, want, pend>>

\* issueSession and sessions.create.
IssueSession(r) ==
    /\ pc[r] = "issue"
    /\ \E s \in Ids, u \in Users, t \in Tokens \ issued :
          /\ ~Exists(s) /\ ~Locked(r, s)
          /\ pend' = [pend EXCEPT ![r][s] =
                [user |-> u, token |-> t, rotated |-> now,
                 expires |-> now + AbsoluteLifetime,
                 idle |-> now + IdleTimeout, revoked |-> FALSE]]
          /\ fresh' = [fresh EXCEPT ![r] = t]
          /\ issued' = issued \cup {t}
    /\ Goto(r, "commit")
    /\ UNCHANGED <<now, store, retired, delivered, Envelope, snap, at, want>>

\* COMMIT publishes the rows written and unlocks them.
Publish(r) ==
    /\ store' = [s \in Ids |-> IF pend[r][s] # None THEN pend[r][s] ELSE store[s]]
    /\ retired' = retired \cup
          {store[s].token : s \in {i \in Ids : /\ Exists(i) /\ pend[r][i] # None
                                               /\ pend[r][i].token # store[i].token}}
    /\ pend' = [pend EXCEPT ![r] = NoWrites]

\* A refresh answers with the new token, or with the one presented when no
\* rotation was due; a compare-and-swap that matched no row answers that the
\* session is revoked.
CommitAnswerIfSwapIgnored(r) ==
    Answer(r, "success",
           IF op[r] = "refreshSession" /\ fresh[r] = None THEN cred[r] ELSE fresh[r])
CommitAnswer(r) ==
    IF op[r] = "refreshSession"
    THEN IF pend[r][snap[r].id] = None
         THEN Answer(r, "unauthenticated", None)
         ELSE Answer(r, "success", IF fresh[r] = None THEN cred[r] ELSE fresh[r])
    ELSE Answer(r, "success", fresh[r])

Commit(r) ==
    /\ pc[r] = "commit"
    /\ Publish(r)
    /\ CommitAnswer(r)
    /\ UNCHANGED <<now, issued, delivered, Envelope, snap, at, fresh, want>>

\* The connection breaks at COMMIT, after the server has committed or before:
\* the caller is told STORAGE_UNAVAILABLE either way.
CommitFailsIfNotRolledBack(r) ==
    /\ pc[r] = "commit"
    /\ Answer(r, "error", None)
    /\ UNCHANGED <<now, Table, Envelope, snap, at, fresh, want, pend>>
CommitFails(r) ==
    /\ pc[r] = "commit"
    /\ \/ Publish(r)
       \/ pend' = [pend EXCEPT ![r] = NoWrites] /\ UNCHANGED <<store, retired>>
    /\ Answer(r, "error", None)
    /\ UNCHANGED <<now, issued, delivered, Envelope, snap, at, fresh, want>>

-----------------------------------------------------------------------------
(* Faults, replies, time *)

\* Any await may come back with an AuthError, which the code returns at once;
\* in a transaction nothing it wrote survives.
Fail(r) ==
    /\ pc[r] \in {"find", "expiry", "policies", "begin", "issue", "write"}
    /\ pc[r] = "policies" => snap[r] # None
    /\ Answer(r, "error", None)
    /\ want' = [want EXCEPT ![r] = {}]
    /\ pend' = [pend EXCEPT ![r] = NoWrites]
    /\ UNCHANGED <<now, Table, Envelope, snap, at, fresh>>

\* x waits for a row that y has written and not committed.
WaitsFor(x, y) == x # y /\ pc[x] = "write" /\ \E s \in want[x] : pend[y][s] # None

\* Requests that can go on only when another of them does: each waits, for rows
\* they alone hold, and is waited for.  PostgreSQL aborts one of such a circle;
\* a request that only waits for the circle is not of it.
WaitForEachOther(C) ==
    \A x \in C :
       /\ pc[x] = "write" /\ want[x] # {}
       /\ \A s \in want[x] : \E y \in C \ {x} : pend[y][s] # None
       /\ \E y \in C : WaitsFor(y, x)
Deadlocked(r) == \E C \in SUBSET Requests : r \in C /\ WaitForEachOther(C)

DeadlockAbort(r) == Deadlocked(r) /\ Fail(r)

\* The bounds on tokens and ids are reached: generating one fails.
Exhausted(r) ==
    \/ pc[r] \in {"issue", "begin"} /\ issued = Tokens
    \/ pc[r] = "issue" /\ \A s \in Ids : Exists(s) \/ Locked(r, s)

Forget(r) ==
    /\ pc' = [pc EXCEPT ![r] = "idle"]
    /\ op' = [op EXCEPT ![r] = "none"]
    /\ cred' = [cred EXCEPT ![r] = None]
    /\ snap' = [snap EXCEPT ![r] = None]
    /\ at' = [at EXCEPT ![r] = 0]
    /\ fresh' = [fresh EXCEPT ![r] = None]
    /\ want' = [want EXCEPT ![r] = {}]
    /\ pend' = [pend EXCEPT ![r] = NoWrites]
    /\ reply' = [reply EXCEPT ![r] = NoReply]
    /\ arrival' = [arrival EXCEPT ![r] = NoWrites]
    /\ since' = [since EXCEPT ![r] = 0]
    /\ UNCHANGED <<now, store, issued, retired>>

\* The reply reaches the client.
Receive(r) ==
    /\ pc[r] = "replied"
    /\ delivered' = delivered \cup ({reply[r].token} \ {None})
    /\ Forget(r)

\* The server handling the request dies, or the reply is lost on its way.
Abandon(r) ==
    /\ pc[r] # "idle"
    /\ UNCHANGED delivered
    /\ Forget(r)

Tick ==
    /\ now < MaxTime
    /\ now' = now + 1
    /\ UNCHANGED <<Table, pc, Envelope, snap, at, fresh, want, pend, reply>>

-----------------------------------------------------------------------------
Init ==
    /\ now = 0
    /\ store = [s \in Ids |-> None]
    /\ issued = {} /\ retired = {} /\ delivered = {}
    /\ pc = [r \in Requests |-> "idle"]
    /\ op = [r \in Requests |-> "none"]
    /\ cred = [r \in Requests |-> None]
    /\ snap = [r \in Requests |-> None]
    /\ at = [r \in Requests |-> 0]
    /\ fresh = [r \in Requests |-> None]
    /\ want = [r \in Requests |-> {}]
    /\ pend = [r \in Requests |-> NoWrites]
    /\ reply = [r \in Requests |-> NoReply]
    /\ arrival = [r \in Requests |-> NoWrites]
    /\ since = [r \in Requests |-> 0]

Arrives(r) ==
    \/ SignIn(r)
    \/ \E o \in BuiltInActions : \/ \E c \in delivered : Present(r, o, c)
                                 \/ PresentNothing(r, o)

\* The steps by which a request advances when nothing fails.
Handle(r) ==
    \/ FindSession(r) \/ CheckExpiry(r)
    \/ PolicyRefuses(r) \/ PoliciesAllow(r)
    \/ StartRefresh(r) \/ StartRevocation(r) \/ IssueSession(r)
    \/ UpdateEnds(r) \/ Commit(r)

Next ==
    \/ Tick
    \/ \E r \in Requests :
          \/ Arrives(r) \/ Handle(r)
          \/ \E s \in Ids : UpdateRow(r, s)
          \/ CommitFails(r) \/ Fail(r)
          \/ Receive(r) \/ Abandon(r)

Spec == Init /\ [][Next]_vars

\* Every await settles.  A row lock is granted in the order it was asked for,
\* so a statement that can lock its row again and again does; a deadlock is
\* detected; and a token that cannot be generated is an error.
Fairness ==
    \A r \in Requests :
       /\ WF_vars(Handle(r))
       /\ SF_vars(\E s \in Ids : UpdateRow(r, s))
       /\ WF_vars(DeadlockAbort(r))
       /\ WF_vars(Exhausted(r) /\ Fail(r))

FairSpec == Spec /\ Fairness

-----------------------------------------------------------------------------
(* Properties *)

Pcs == {"idle", "find", "expiry", "policies", "begin", "issue", "write",
        "commit", "replied"}

Kinds == {"none", "success", "unauthenticated", "denied", "redirect", "error"}

Replies == [kind : Kinds, token : Tokens \cup {None}]

\* Every variable keeps its type: rows are rows, snapshots are rows that were
\* read, and the program counter is one of the awaits.
TypeOK ==
    /\ now \in Nat
    /\ store \in [Ids -> Row \cup {None}]
    /\ issued \subseteq Tokens /\ retired \subseteq Tokens
    /\ delivered \subseteq Tokens
    /\ pc \in [Requests -> Pcs]
    /\ op \in [Requests -> BuiltInActions \cup {"none", "signIn"}]
    /\ cred \in [Requests -> Tokens \cup {None}]
    /\ snap \in [Requests -> [id: Ids, row: Row] \cup {None}]
    /\ at \in [Requests -> Nat]
    /\ fresh \in [Requests -> Tokens \cup {None}]
    /\ want \in [Requests -> SUBSET Ids]
    /\ pend \in [Requests -> [Ids -> Row \cup {None}]]
    /\ reply \in [Requests -> Replies]
    /\ arrival \in [Requests -> [Ids -> Row \cup {None}]]
    /\ since \in [Requests -> Nat]

Succeeded(r, o) == pc[r] = "replied" /\ reply[r].kind = "success" /\ op[r] = o

RotationWon(r) == Succeeded(r, "refreshSession") /\ fresh[r] # None

\* Of the requests that present the same token at most one is told that its
\* rotation succeeded (compareAndSwapToken under concurrent refreshes).
OneRotationPerToken ==
    \A r, q \in Requests :
       r # q /\ RotationWon(r) /\ RotationWon(q) => cred[r] # cred[q]

\* Neither lifetime of a row has ended at t.
Lasts(row, t) == row.expires > t /\ row.idle > t

\* A request is served under a session only if, when it arrived, the token it
\* presents was that session's current one, the session was not revoked, and
\* the row it is served by had not expired: nothing revoked, rotated away or
\* over before a request is of use to it.  And a refresh never extends a
\* session whose row had expired by the clock it extends it from.
ServedOnlyWhatWasLive ==
    \A r \in Requests :
       Succeeded(r, "getSession") \/ Succeeded(r, "refreshSession") =>
          LET row == arrival[r][snap[r].id] IN
             /\ row # None /\ row.token = cred[r] /\ ~row.revoked
             /\ Lasts(snap[r].row, since[r])
             /\ op[r] = "refreshSession" => Lasts(snap[r].row, at[r])

\* A session that has expired, or could have for want of a refresh.
Outlived(s) ==
    \/ store[s].expires <= now
    \/ store[s].expires - AbsoluteLifetime + IdleTimeout <= now

\* When logout answers success for a session it found, that session is
\* revoked; when logoutAll does, so is every session its user had when the
\* request arrived, whatever refreshes and logouts ran in between.  And with
\* a session or without, the token presented opens none any more; only one that
\* logout found expired may be revived, by a refresh that read it before.
LogoutTakesEffect ==
    \A r \in Requests :
       /\ Succeeded(r, "logout") /\ snap[r] # None => store[snap[r].id].revoked
       /\ Succeeded(r, "logoutAll") =>
             \A s \in Ids :
                /\ arrival[r][s] # None
                /\ arrival[r][s].user = snap[r].row.user
                => store[s].revoked
       /\ Succeeded(r, "logout") \/ Succeeded(r, "logoutAll") =>
             \A s \in Ids : Current(s, cred[r]) => Outlived(s)

\* A revoked session is never un-revoked: not by a refresh that validated the
\* session before the revocation and writes after it.
RevocationIsFinal ==
    [][\A s \in Ids : Exists(s) /\ store[s].revoked => store'[s].revoked]_vars

\* A token is replaced once it is a rotation threshold old, and only then:
\* rotations of a session are at least a threshold apart, and a refresh that
\* leaves the token has read the clock before the threshold, although each
\* refresh decides from the row it read before the others wrote.  At the
\* threshold itself the code rotates.
RotatesWhenDue ==
    [][\A s \in Ids : Exists(s) =>
          /\ store'[s].token # store[s].token =>
                store'[s].rotated >= store[s].rotated + RotationThreshold
          /\ store'[s].token = store[s].token /\ store'[s].idle # store[s].idle =>
                store'[s].idle - IdleTimeout < store[s].rotated + RotationThreshold]_vars

\* A token generated for a reply of success (sign-in or rotation) is the current
\* token of a session from the moment of the reply, be the session revoked
\* meanwhile or not.
FreshTokenIsCurrent ==
    [][\A r \in Requests :
          pc[r] = "commit" /\ reply'[r].kind = "success" /\ fresh[r] # None =>
             \E s \in Ids : store'[s] # None /\ store'[s].token = reply'[r].token]_vars

\* Every request is answered, unless its server dies first.
EveryRequestIsAnswered ==
    \A r \in Requests : pc[r] # "idle" ~> pc[r] \in {"replied", "idle"}

\* The awaits before the answer.
StepsLeft(r) ==
    [idle |-> 0, replied |-> 0, commit |-> 1, write |-> 2, issue |-> 2, begin |-> 3,
     policies |-> 4, expiry |-> 5, find |-> 6][pc[r]]

\* A request under way comes nearer to its answer with each of its steps, and its
\* UPDATE reaches each row once, whoever else writes it meanwhile: the kernel and
\* the session layer never go back and try again.
RequestsAdvance ==
    [][\A r \in Requests : StepsLeft(r) > 0 =>
          \/ pc'[r] = pc[r] /\ want'[r] \subseteq want[r]
          \/ StepsLeft(r)' \in 0 .. (StepsLeft(r) - 1)]_vars

\* Only logoutAlls deadlock, each with another of the same user: theirs is the one
\* statement that locks rows in an order of its own, and no other request holds a
\* row while it waits for one.
OnlyLogoutAllsDeadlock ==
    \A C \in SUBSET Requests : WaitForEachOther(C) =>
       \A r \in C :
          /\ op[r] = "logoutAll"
          /\ \E q \in C \ {r} : /\ op[q] = "logoutAll"
                               /\ snap[q].row.user = snap[r].row.user

\* What the design says of the losing request in a refresh race: when the
\* token a refresh presents has been rotated away by the time it commits, it
\* does not extend the idle lifetime and is not told success.
LosingRefreshIsRefused ==
    [][\A r \in Requests :
          /\ pc[r] = "commit" /\ op[r] = "refreshSession" /\ pc'[r] = "replied"
          /\ store[snap[r].id].token # cred[r]
          => /\ reply'[r].kind # "success"
             /\ store'[snap[r].id].idle = store[snap[r].id].idle]_vars

-----------------------------------------------------------------------------
(* The abstract specification implemented *)

\* A row as the registry lists it: without rotation time and idle expiry.
Listing(row) == [user |-> row.user, token |-> row.token,
                 expires |-> row.expires, revoked |-> row.revoked]

Listed == [s \in Ids |-> IF Exists(s) THEN Listing(store[s]) ELSE None]

Registry == INSTANCE SessionRegistry WITH table <- Listed

\* The committed table behaves as the registry: sessions are opened, rotated
\* to unused tokens and revoked, and nothing else happens to them.
ImplementsRegistry == Registry!Spec

\* A token is current for at most one session and never comes back.
TokensAreUnambiguous == Registry!TokensAreUnambiguous

-----------------------------------------------------------------------------
(* Why it holds *)

\* No two transactions hold the same row.
LocksAreExclusive ==
    \A r, q \in Requests, s \in Ids :
       pend[r][s] # None /\ pend[q][s] # None => r = q

Writing(r) == pc[r] \in {"write", "commit"}

\* A row waiting for COMMIT differs from the committed one, which its lock
\* protects, only in what the statement set.
HeldBy(r, s) ==
    /\ Writing(r)
    /\ op[r] = "signIn" =>
          /\ pc[r] = "commit" /\ ~Exists(s)
          /\ pend[r][s].token = fresh[r] /\ ~pend[r][s].revoked
          /\ \A q \in Ids \ {s} : pend[r][q] = None
    /\ op[r] # "signIn" =>
          Exists(s) /\ s \notin want[r] /\ pend[r][s] = Written(r, s)
    /\ op[r] = "logoutAll" => store[s].user = snap[r].row.user
    /\ op[r] \in {"refreshSession", "logout"} => s = snap[r].id

PendingIsCurrent ==
    \A r \in Requests, s \in Ids : pend[r][s] # None => HeldBy(r, s)

\* The validated session, and those a statement has still to reach, exist and
\* belong to one user.
ActsOnOwnSessions(r) ==
    /\ pc[r] \in {"idle", "find", "issue"} => snap[r] = None
    /\ pc[r] = "issue" => op[r] = "signIn"
    /\ pc[r] \in {"begin", "expiry"} \/ (Writing(r) /\ op[r] # "signIn") =>
          snap[r] # None
    /\ pc[r] \in {"find", "expiry", "policies"} => op[r] \in BuiltInActions
    /\ pc[r] \in {"begin", "write"} => op[r] \in BuiltInActions \ {"getSession"}
    /\ pc[r] = "commit" => op[r] \notin {"getSession", "none"}
    /\ snap[r] # None => /\ Exists(snap[r].id)
                         /\ store[snap[r].id].user = snap[r].row.user
    /\ op[r] \in {"refreshSession", "logout"} /\ want[r] # {} =>
          want[r] = {snap[r].id}
    /\ \A s \in want[r] : /\ pc[r] = "write" /\ Exists(s)
                          /\ store[s].user = snap[r].row.user

TargetsExist == \A r \in Requests : ActsOnOwnSessions(r)

\* A generated token is in one place: held by the request that generated it
\* until its COMMIT, then current, then retired.
HoldsFreshToken(r) ==
    /\ pc[r] \in Pcs \ {"write", "commit", "replied"} => fresh[r] = None
    /\ op[r] \in {"logout", "logoutAll"} => fresh[r] = None
    /\ Writing(r) /\ fresh[r] # None =>
          /\ fresh[r] \in issued \ retired
          /\ \A s \in Ids : Exists(s) => store[s].token # fresh[r]
          /\ \A q \in Requests \ {r} : Writing(q) => fresh[q] # fresh[r]

TokensAccounted ==
    /\ retired \subseteq issued
    /\ \A s \in Ids : Exists(s) => store[s].token \in issued
    /\ \A r \in Requests : HoldsFreshToken(r)

\* The inductive invariant.
Coherent ==
    /\ TypeOK
    /\ LocksAreExclusive
    /\ PendingIsCurrent
    /\ TargetsExist
    /\ TokensAccounted

\* A token being written is known to nobody but the request that drew it.
SecretUntilCommitted ==
    /\ delivered \subseteq issued
    /\ \A r \in Requests : {cred[r], reply[r].token} \subseteq issued \cup {None}
    /\ \A r, q \in Requests :
          Writing(q) /\ fresh[q] # None =>
             fresh[q] \notin delivered \cup {cred[r], reply[r].token}

\* What was revoked when a request arrived still is, and the token it presents
\* has not become current anywhere since.
SinceArrival(r) ==
    \A s \in Ids :
       /\ arrival[r][s] # None =>
             /\ Exists(s) /\ store[s].user = arrival[r][s].user
             /\ arrival[r][s].revoked => store[s].revoked
       /\ cred[r] # None /\ Exists(s) /\ store[s].token = cred[r] =>
             arrival[r][s] # None /\ arrival[r][s].token = cred[r]

\* The validated session was live at the request's arrival, under the token
\* presented, which is still its own or has been rotated away.
Validated(r) ==
    snap[r] # None =>
       LET s == snap[r].id
           row == arrival[r][s]
       IN /\ row # None /\ row.token = cred[r] /\ ~row.revoked
          /\ cred[r] # None /\ snap[r].row.token = cred[r]
          /\ store[s].expires = snap[r].row.expires
          /\ cred[r] \in retired \/ store[s].token = cred[r]

\* The sessions a logout with a session, or a logoutAll, has to end.
MustEnd(r) ==
    {s \in Ids : \/ s = snap[r].id
                 \/ /\ op[r] = "logoutAll" /\ arrival[r][s] # None
                    /\ arrival[r][s].user = snap[r].row.user}

\* They are revoked, or in the hands of its statement.
Revokes(r) ==
    op[r] \in {"logout", "logoutAll"} /\ snap[r] # None =>
       /\ Writing(r) =>
             \A s \in MustEnd(r) :
                store[s].revoked \/ s \in want[r] \/ pend[r][s] # None
       /\ Succeeded(r, op[r]) => \A s \in MustEnd(r) : store[s].revoked

\* Only a logout goes on without a session, and then its token opened none.
Spent(r) ==
    /\ pc[r] = "policies" /\ snap[r] = None => op[r] = "logout"
    /\ Succeeded(r, op[r]) /\ op[r] \in BuiltInActions \ {"logout"} => snap[r] # None
    /\ /\ op[r] = "logout" /\ snap[r] = None
       /\ pc[r] = "policies" \/ Succeeded(r, "logout")
       => \A s \in Ids : Current(s, cred[r]) => Outlived(s)

\* A compare-and-swap that matched has not lost its match, and one that was
\* committed has replaced the token presented.
Swaps(r) ==
    /\ op[r] = "refreshSession" /\ fresh[r] # None =>
          \A s \in Ids : pend[r][s] # None => store[s].token = cred[r]
    /\ RotationWon(r) => cred[r] \in retired

\* An idle expiry is an idle timeout past a moment of the session's life.
Dated(row) ==
    /\ row.expires - AbsoluteLifetime <= now
    /\ row.expires - AbsoluteLifetime + IdleTimeout <= row.idle

RowsAreDated ==
    /\ \A s \in Ids : Exists(s) => Dated(store[s])
    /\ \A r \in Requests :
          /\ \A s \in Ids : pend[r][s] # None => Dated(pend[r][s])
          /\ snap[r] # None => Dated(snap[r].row)
          /\ Writing(r) /\ op[r] = "refreshSession" =>
                snap[r].row.expires - AbsoluteLifetime <= at[r]

\* A row is never rotated back in time, and a swap that can still match replaces
\* the token validated, dated as it was.  A refresh under way rotates if the row it
\* read was due, and else leaves the token.
Spaces(r) ==
    /\ snap[r] # None =>
          LET row == store[snap[r].id] IN
             /\ snap[r].row.rotated <= row.rotated
             /\ row.token = cred[r] => row.rotated = snap[r].row.rotated
    /\ Writing(r) /\ op[r] = "refreshSession" =>
          (fresh[r] # None <=> snap[r].row.rotated + RotationThreshold <= at[r])

\* The transaction of a sign-in has a session to commit, and nobody is
\* answered before the COMMIT.
Issues(r) ==
    /\ pc[r] # "replied" => reply[r] = NoReply
    /\ pc[r] = "commit" /\ op[r] = "signIn" => \E s \in Ids : pend[r][s] # None

\* The row a request goes on with had not expired when it arrived, nor, if it is
\* to be extended, at the clock it is extended from.
Lives(r) ==
    /\ since[r] <= now
    /\ snap[r] # None
       /\ (pc[r] \in {"policies", "begin", "write", "commit"} \/ Succeeded(r, op[r]))
       => Lasts(snap[r].row, since[r])
    /\ op[r] = "refreshSession" /\ (Writing(r) \/ Succeeded(r, op[r])) =>
          Lasts(snap[r].row, at[r])

Remembers(r) ==
    SinceArrival(r) /\ Validated(r) /\ Revokes(r) /\ Spent(r) /\ Swaps(r)

\* Together with Coherent inductive: what a request knows of its past.
Accountable ==
    /\ SecretUntilCommitted
    /\ RowsAreDated
    /\ \A r \in Requests : Remembers(r)

\* Inductive next to those two: when the tokens in the table were generated, and
\* the rows read were live.
Timely == \A r \in Requests : Spaces(r) /\ Issues(r) /\ Lives(r)
=============================================================================
