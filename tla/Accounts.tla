------------------------------ MODULE Accounts ------------------------------
(***************************************************************************)
(* The e-mail and password plugin: sign-up, sign-in, password reset and     *)
(* e-mail verification, over the tables they share.  A sign-up creates the  *)
(* user, the identity and a session in one transaction; a reset consumes    *)
(* its token, sets the password and revokes the user's sessions in one; a   *)
(* sign-in reads and checks first and opens a transaction for the session;  *)
(* a request for a token writes it and then hands it to the mail provider.  *)
(*                                                                         *)
(* Each action is the code from one await to the next.  The database is the *)
(* one of the session component: READ COMMITTED, row locks until COMMIT.    *)
(***************************************************************************)
EXTENDS Integers, FiniteSets

CONSTANTS
    Requests,    \* requests a deployment handles at the same time
    Offered,     \* the actions the requests ask for
    Emails,      \* normalized e-mail addresses
    Passwords,
    Users,       \* user ids (random UUIDs; a bound on users)
    Sessions,    \* session ids (a bound on sessions)
    Tokens,      \* reset and verification tokens (a bound on how many)
    None,
    TokenTtl,    \* PASSWORD_RESET_TOKEN_TTL_MS, EMAIL_VERIFICATION_TOKEN_TTL_MS
    MaxTime      \* bound on the clock

PluginActions == {"signUpWithPassword", "signInWithPassword",
                  "requestPasswordReset", "resetPassword",
                  "requestEmailVerification", "verifyEmail"}

ASSUME BoundsAssumption ==
    /\ Offered \subseteq PluginActions
    /\ TokenTtl \in Nat \ {0} /\ MaxTime \in Nat

\* A row of local_identities; verifySecret accepts exactly the password that
\* was hashed, so the password stands for its hash.
IdentityRow == [user: Users, password: Passwords]

\* A row of password_reset_tokens ("reset") or email_verification_tokens.
TokenRow == [kind: {"reset", "verify"}, email: Emails, expires: Nat, consumed: BOOLEAN]

SessionRow == [user: Users, revoked: BOOLEAN]

\* A session as the session component's abstraction lists it.
ListedRow == [user: Users, token: Sessions, expires: Nat, revoked: BOOLEAN]

ASSUME NoneAssumption ==
    None \notin IdentityRow \cup TokenRow \cup SessionRow \cup ListedRow \cup Users
                \cup Emails \cup Passwords \cup Tokens \cup Sessions

VARIABLES
    now,         \* Date.now(), one clock for every server
    users,       \* the committed users
    identities,  \* the committed local_identities
    sessions,    \* the committed sessions
    tokens,      \* the token tables
    verified,    \* the committed verified_emails
    drawn,       \* tokens generated so far
    mailed,      \* tokens that have reached their addressee
    uses,        \* history: how often a token has taken effect
    pc,          \* the await a request has reached
    req,         \* its action and what its body carries
    at,          \* the clock it read
    row,         \* the identity it read
    tx,          \* what its open transaction has written
    reply,       \* the AuthResult
    arrival      \* history: the sessions committed when it arrived

Directories == <<users, identities, sessions>>
Mail == <<tokens, drawn, mailed, uses>>
Context == <<req, at, row, arrival>>
vars == <<now, Directories, verified, Mail, pc, Context, tx, reply>>

NoRequest == [op |-> "none", email |-> None, password |-> None, token |-> None]
NoWrites == [user |-> None, identity |-> FALSE, session |-> None,
             token |-> FALSE, verified |-> FALSE, revoked |-> {}]

-----------------------------------------------------------------------------
(* Helpers.  A definition named <D>If... is a plausible mistake in D: no       *)
(* action uses it, it is there to see which property would notice.           *)

Answer(r, kind) ==
    /\ pc' = [pc EXCEPT ![r] = "replied"]
    /\ reply' = [reply EXCEPT ![r] = kind]

Goto(r, label) == pc' = [pc EXCEPT ![r] = label] /\ UNCHANGED reply

Op(r) == req[r].op
Email(r) == req[r].email
Token(r) == req[r].token

\* Rows another open transaction has written, which a statement waits for.
EmailLocked(r) == \E q \in Requests \ {r} : tx[q].identity /\ Email(q) = Email(r)
TokenLocked(r) == \E q \in Requests \ {r} : tx[q].token /\ Token(q) = Token(r)
VerifiedLocked(r) == \E q \in Requests \ {r} : tx[q].verified /\ Email(q) = Email(r)

Rollback(r) == tx' = [tx EXCEPT ![r] = NoWrites]

Writes(r, field, value) == tx' = [tx EXCEPT ![r] = [@ EXCEPT ![field] = value]]

-----------------------------------------------------------------------------
(* Arrival *)

\* A body that is missing a field, or an address or a password out of form.
RejectInput(r) ==
    /\ pc[r] = "idle"
    /\ Answer(r, "denied")
    /\ UNCHANGED <<now, Directories, verified, Mail, Context, tx>>

\* The actions of the plugin and the first await whose outcome matters.
Entry(o) ==
    CASE o = "signUpWithPassword" -> "createUser"
      [] o \in {"signInWithPassword", "requestPasswordReset",
                "requestEmailVerification"} -> "find"
      [] o \in {"resetPassword", "verifyEmail"} -> "consume"

Arrive(r, body) ==
    /\ pc[r] = "idle"
    /\ req' = [req EXCEPT ![r] = body]
    /\ at' = [at EXCEPT ![r] = now]
    /\ arrival' = [arrival EXCEPT ![r] = {s \in Sessions : sessions[s] # None}]
    /\ Goto(r, Entry(body.op))
    /\ UNCHANGED <<now, Directories, verified, Mail, row, tx>>

\* Sign-up and sign-in carry an address and a password, the requests for a
\* token an address, a reset a token and a password, a verification a token.
Arrives(r) ==
    \E o \in Offered, e \in Emails, p \in Passwords :
       \/ /\ o \in {"signUpWithPassword", "signInWithPassword"}
          /\ Arrive(r, [NoRequest EXCEPT !.op = o, !.email = e, !.password = p])
       \/ /\ o \in {"requestPasswordReset", "requestEmailVerification"}
          /\ Arrive(r, [NoRequest EXCEPT !.op = o, !.email = e])
       \/ /\ o = "resetPassword"
          /\ \E t \in mailed : Arrive(r, [NoRequest EXCEPT
                                          !.op = o, !.token = t, !.password = p])
       \/ /\ o = "verifyEmail"
          /\ \E t \in mailed : Arrive(r, [NoRequest EXCEPT !.op = o, !.token = t])

-----------------------------------------------------------------------------
(* Reading the identity *)

\* findByNormalizedEmail.  Without an identity a sign-in is refused and a
\* request for a token succeeds without doing anything.
FindIdentity(r) ==
    /\ pc[r] = "find"
    /\ row' = [row EXCEPT ![r] = identities[Email(r)]]
    /\ IF identities[Email(r)] = None
       THEN Answer(r, IF Op(r) = "signInWithPassword" THEN "unauthenticated"
                                                      ELSE "success")
       ELSE Goto(r, CASE Op(r) = "signInWithPassword" -> "check"
                      [] Op(r) = "requestPasswordReset" -> "generate"
                      [] Op(r) = "requestEmailVerification" -> "isVerified")
    /\ UNCHANGED <<now, Directories, verified, Mail, req, at, arrival, tx>>

\* verifySecret against the hash that was read, then users.find.
CheckPassword(r) ==
    /\ pc[r] = "check"
    /\ IF row[r].password = req[r].password
       THEN IF row[r].user \in users THEN Goto(r, "issue") ELSE Answer(r, "error")
       ELSE Answer(r, "unauthenticated")
    /\ UNCHANGED <<now, Directories, verified, Mail, Context, tx>>

\* A verified address gets no new token.
IsVerified(r) ==
    /\ pc[r] = "isVerified"
    /\ IF Email(r) \in verified THEN Answer(r, "success") ELSE Goto(r, "generate")
    /\ UNCHANGED <<now, Directories, verified, Mail, Context, tx>>

-----------------------------------------------------------------------------
(* Sending a token *)

\* The token is generated and hashed, and the clock read.
GenerateToken(r) ==
    /\ pc[r] = "generate"
    /\ \E t \in Tokens \ drawn : /\ drawn' = drawn \cup {t}
                                 /\ req' = [req EXCEPT ![r].token = t]
    /\ at' = [at EXCEPT ![r] = now]
    /\ Goto(r, "create")
    /\ UNCHANGED <<now, Directories, verified, tokens, mailed, uses, row, arrival, tx>>

InsertToken(r) ==
    tokens' = [tokens EXCEPT ![Token(r)] =
        [kind |-> IF Op(r) = "requestPasswordReset" THEN "reset" ELSE "verify",
         email |-> Email(r), expires |-> at[r] + TokenTtl, consumed |-> FALSE]]

\* The INSERT is outside any transaction: the token stays whatever becomes of
\* the mail.
CreateToken(r) ==
    /\ pc[r] = "create"
    /\ InsertToken(r)
    /\ Goto(r, "deliver")
    /\ UNCHANGED <<now, Directories, verified, drawn, mailed, uses, Context, tx>>

CreateTokenFails(r) ==
    /\ pc[r] = "create"
    /\ InsertToken(r) \/ UNCHANGED tokens
    /\ Answer(r, "error")
    /\ UNCHANGED <<now, Directories, verified, drawn, mailed, uses, Context, tx>>

\* The mail provider sends the token, or there is none and the request succeeds
\* all the same; a send it reports as failed may have reached the addressee.
Deliver(r) ==
    /\ pc[r] = "deliver"
    /\ mailed' = mailed \cup {Token(r)} \/ UNCHANGED mailed
    /\ Answer(r, "success")
    /\ UNCHANGED <<now, Directories, verified, tokens, drawn, uses, Context, tx>>

DeliverFails(r) ==
    /\ pc[r] = "deliver"
    /\ mailed' = mailed \cup {Token(r)} \/ UNCHANGED mailed
    /\ Answer(r, "error")
    /\ UNCHANGED <<now, Directories, verified, tokens, drawn, uses, Context, tx>>

-----------------------------------------------------------------------------
(* The transactions of reset and verification *)

\* The WHERE of consume, in the table the action looks in.
ConsumableIfNeverExpires(r) ==
    LET t == tokens[Token(r)] IN
    /\ t # None /\ ~t.consumed
    /\ t.kind = IF Op(r) = "resetPassword" THEN "reset" ELSE "verify"
ConsumableIfEitherKind(r) ==
    LET t == tokens[Token(r)] IN t # None /\ ~t.consumed /\ t.expires > at[r]
Consumable(r) ==
    LET t == tokens[Token(r)] IN
    /\ t # None /\ ~t.consumed /\ t.expires > at[r]
    /\ t.kind = IF Op(r) = "resetPassword" THEN "reset" ELSE "verify"

\* It waits for another transaction that consumes the same token; the token
\* then tells the address.
ConsumeIfOutside(r) ==
    /\ pc[r] = "consume"
    /\ IF Consumable(r)
       THEN /\ tokens' = [tokens EXCEPT ![Token(r)].consumed = TRUE]
            /\ uses' = [uses EXCEPT ![Token(r)] = @ + 1]
            /\ req' = [req EXCEPT ![r].email = tokens[Token(r)].email]
            /\ Goto(r, IF Op(r) = "resetPassword" THEN "update" ELSE "mark")
       ELSE Answer(r, "denied") /\ UNCHANGED <<tokens, uses, req>>
    /\ UNCHANGED <<now, Directories, verified, drawn, mailed, at, row, arrival, tx>>
Consume(r) ==
    /\ pc[r] = "consume" /\ ~TokenLocked(r)
    /\ IF Consumable(r)
       THEN /\ Writes(r, "token", TRUE)
            /\ req' = [req EXCEPT ![r].email = tokens[Token(r)].email]
            /\ Goto(r, IF Op(r) = "resetPassword" THEN "update" ELSE "mark")
       ELSE Answer(r, "denied") /\ UNCHANGED <<tx, req>>
    /\ UNCHANGED <<now, Directories, verified, Mail, at, row, arrival>>

\* hashSecret and updatePasswordHashByNormalizedEmail.
UpdatePassword(r) ==
    /\ pc[r] = "update" /\ ~EmailLocked(r)
    /\ IF identities[Email(r)] # None
       THEN Writes(r, "identity", TRUE) /\ Goto(r, "revoke")
       ELSE Rollback(r) /\ Answer(r, "denied")
    /\ UNCHANGED <<now, Directories, verified, Mail, Context>>

\* revokeAllSessions: the user's rows its statement sees.
RevokeAll(r) ==
    /\ pc[r] = "revoke"
    /\ Writes(r, "revoked", {s \in Sessions :
                               /\ sessions[s] # None /\ ~sessions[s].revoked
                               /\ sessions[s].user = identities[Email(r)].user})
    /\ Goto(r, "commit")
    /\ UNCHANGED <<now, Directories, verified, Mail, Context>>

\* The upsert of markVerified.
MarkVerified(r) ==
    /\ pc[r] = "mark" /\ ~VerifiedLocked(r)
    /\ Writes(r, "verified", TRUE)
    /\ Goto(r, "commit")
    /\ UNCHANGED <<now, Directories, verified, Mail, Context>>

-----------------------------------------------------------------------------
(* The transactions of sign-up and sign-in *)

FreeUsers == Users \ (users \cup {tx[q].user : q \in Requests})
FreeSessions == {s \in Sessions : /\ sessions[s] = None
                                  /\ \A q \in Requests : tx[q].session # s}

CreateUserIfOutside(r) ==
    /\ pc[r] = "createUser"
    /\ \E u \in FreeUsers : /\ Writes(r, "user", u)
                            /\ users' = users \cup {u}
    /\ Goto(r, "createIdentity")
    /\ UNCHANGED <<now, identities, sessions, verified, Mail, Context>>
CreateUser(r) ==
    /\ pc[r] = "createUser"
    /\ \E u \in FreeUsers : Writes(r, "user", u)
    /\ Goto(r, "createIdentity")
    /\ UNCHANGED <<now, Directories, verified, Mail, Context>>

\* The INSERT waits for the unique address; a duplicate is answered as denied.
CreateIdentityIfUpsert(r) ==
    /\ pc[r] = "createIdentity" /\ ~EmailLocked(r)
    /\ Writes(r, "identity", TRUE) /\ Goto(r, "issue")
    /\ UNCHANGED <<now, Directories, verified, Mail, Context>>
CreateIdentity(r) ==
    /\ pc[r] = "createIdentity" /\ ~EmailLocked(r)
    /\ IF identities[Email(r)] = None
       THEN Writes(r, "identity", TRUE) /\ Goto(r, "issue")
       ELSE Rollback(r) /\ Answer(r, "denied")
    /\ UNCHANGED <<now, Directories, verified, Mail, Context>>

IssueSession(r) ==
    /\ pc[r] = "issue"
    /\ \E s \in FreeSessions : Writes(r, "session", s)
    /\ Goto(r, "commit")
    /\ UNCHANGED <<now, Directories, verified, Mail, Context>>

-----------------------------------------------------------------------------
(* COMMIT *)

\* The identity a sign-up inserts, or a reset updates.
WrittenIdentityIfOwnerReset(r) ==
    [user |-> tx[r].user, password |-> req[r].password]
WrittenIdentity(r) ==
    [user |-> IF Op(r) = "signUpWithPassword" THEN tx[r].user
                                              ELSE identities[Email(r)].user,
     password |-> req[r].password]

\* The user a session is issued to.
SessionUser(r) == IF Op(r) = "signUpWithPassword" THEN tx[r].user ELSE row[r].user

Publish(r) ==
    /\ users' = users \cup ({tx[r].user} \ {None})
    /\ identities' = IF tx[r].identity
                     THEN [identities EXCEPT ![Email(r)] = WrittenIdentity(r)]
                     ELSE identities
    /\ sessions' = [s \in Sessions |->
          IF s = tx[r].session THEN [user |-> SessionUser(r), revoked |-> FALSE]
          ELSE IF s \in tx[r].revoked THEN [sessions[s] EXCEPT !.revoked = TRUE]
          ELSE sessions[s]]
    /\ tokens' = IF tx[r].token THEN [tokens EXCEPT ![Token(r)].consumed = TRUE]
                                ELSE tokens
    /\ uses' = IF tx[r].token THEN [uses EXCEPT ![Token(r)] = @ + 1] ELSE uses
    /\ verified' = IF tx[r].verified THEN verified \cup {Email(r)} ELSE verified
    /\ Rollback(r)

Commit(r) ==
    /\ pc[r] = "commit"
    /\ Publish(r)
    /\ Answer(r, "success")
    /\ UNCHANGED <<now, drawn, mailed, Context>>

\* The connection breaks at COMMIT, after the server has committed or before.
CommitFailsIfNotRolledBack(r) ==
    /\ pc[r] = "commit"
    /\ Answer(r, "error")
    /\ UNCHANGED <<now, Directories, verified, Mail, Context, tx>>
CommitFails(r) ==
    /\ pc[r] = "commit"
    /\ \/ Publish(r)
       \/ Rollback(r) /\ UNCHANGED <<Directories, verified, tokens, uses>>
    /\ Answer(r, "error")
    /\ UNCHANGED <<now, drawn, mailed, Context>>

-----------------------------------------------------------------------------
(* Faults, replies, time *)

\* Any other await may come back with an AuthError, which is returned at once;
\* an open transaction is rolled back.
Fail(r) ==
    /\ pc[r] \in {"find", "check", "isVerified", "generate", "consume", "update",
                  "revoke", "mark", "createUser", "createIdentity", "issue"}
    /\ Answer(r, "error")
    /\ Rollback(r)
    /\ UNCHANGED <<now, Directories, verified, Mail, Context>>

\* A bound on ids or tokens is reached: generating one fails.
Exhausted(r) ==
    \/ pc[r] = "createUser" /\ FreeUsers = {}
    \/ pc[r] = "issue" /\ FreeSessions = {}
    \/ pc[r] = "generate" /\ drawn = Tokens

\* The reply reaches the client or is lost, or the server handling the request
\* dies and its connection with it.
Leave(r) ==
    /\ pc[r] # "idle"
    /\ pc' = [pc EXCEPT ![r] = "idle"]
    /\ req' = [req EXCEPT ![r] = NoRequest]
    /\ at' = [at EXCEPT ![r] = 0]
    /\ row' = [row EXCEPT ![r] = None]
    /\ Rollback(r)
    /\ reply' = [reply EXCEPT ![r] = "none"]
    /\ arrival' = [arrival EXCEPT ![r] = {}]
    /\ UNCHANGED <<now, Directories, verified, Mail>>

Tick ==
    /\ now < MaxTime
    /\ now' = now + 1
    /\ UNCHANGED <<Directories, verified, Mail, pc, Context, tx, reply>>

-----------------------------------------------------------------------------
Init ==
    /\ now = 0
    /\ users = {} /\ verified = {} /\ drawn = {} /\ mailed = {}
    /\ identities = [e \in Emails |-> None]
    /\ sessions = [s \in Sessions |-> None]
    /\ tokens = [t \in Tokens |-> None]
    /\ uses = [t \in Tokens |-> 0]
    /\ pc = [r \in Requests |-> "idle"]
    /\ req = [r \in Requests |-> NoRequest]
    /\ at = [r \in Requests |-> 0]
    /\ row = [r \in Requests |-> None]
    /\ tx = [r \in Requests |-> NoWrites]
    /\ reply = [r \in Requests |-> "none"]
    /\ arrival = [r \in Requests |-> {}]

\* The steps by which a request advances when nothing fails and nothing is
\* waited for.
Handle(r) ==
    \/ FindIdentity(r) \/ CheckPassword(r) \/ IsVerified(r)
    \/ GenerateToken(r) \/ CreateToken(r) \/ Deliver(r)
    \/ RevokeAll(r) \/ CreateUser(r) \/ IssueSession(r) \/ Commit(r)

\* The statements that may wait for a lock.
LockingStatement(r) ==
    Consume(r) \/ UpdatePassword(r) \/ MarkVerified(r) \/ CreateIdentity(r)

Next ==
    \/ Tick
    \/ \E r \in Requests :
          \/ RejectInput(r) \/ Arrives(r)
          \/ Handle(r) \/ LockingStatement(r)
          \/ CreateTokenFails(r) \/ DeliverFails(r) \/ CommitFails(r) \/ Fail(r)
          \/ Leave(r)

Spec == Init /\ [][Next]_vars

\* Every await settles; locks are granted in the order they are asked for.
Fairness ==
    \A r \in Requests : /\ WF_vars(Handle(r) \/ (Exhausted(r) /\ Fail(r)))
                        /\ SF_vars(LockingStatement(r))

FairSpec == Spec /\ Fairness

-----------------------------------------------------------------------------
(* Properties *)

Pcs == {"idle", "find", "check", "isVerified", "generate", "create", "deliver",
        "consume", "update", "revoke", "mark", "createUser", "createIdentity",
        "issue", "commit", "replied"}

Bodies == [op: PluginActions \cup {"none"}, email: Emails \cup {None},
           password: Passwords \cup {None}, token: Tokens \cup {None}]

WriteSets == [user: Users \cup {None}, identity: BOOLEAN,
              session: Sessions \cup {None}, token: BOOLEAN, verified: BOOLEAN,
              revoked: SUBSET Sessions]

TypeOK ==
    /\ now \in Nat
    /\ users \subseteq Users /\ verified \subseteq Emails
    /\ drawn \subseteq Tokens /\ mailed \subseteq Tokens
    /\ identities \in [Emails -> IdentityRow \cup {None}]
    /\ sessions \in [Sessions -> SessionRow \cup {None}]
    /\ tokens \in [Tokens -> TokenRow \cup {None}]
    /\ uses \in [Tokens -> Nat]
    /\ pc \in [Requests -> Pcs]
    /\ req \in [Requests -> Bodies]
    /\ at \in [Requests -> Nat]
    /\ row \in [Requests -> IdentityRow \cup {None}]
    /\ tx \in [Requests -> WriteSets]
    /\ reply \in [Requests -> {"none", "success", "unauthenticated", "denied", "error"}]
    /\ arrival \in [Requests -> SUBSET Sessions]

Resetting(r) == pc[r] = "commit" /\ Op(r) = "resetPassword"

\* A token takes effect at most once, however many requests present it at the same
\* time, and only by a request that read the clock before the token's lifetime had
\* ended, however long that request then waited for others.
TokensTakeEffectOnce ==
    [][\A t \in Tokens : uses'[t] # uses[t] =>
          /\ uses[t] = 0 /\ uses'[t] = 1
          /\ \E r \in Requests :
                /\ pc[r] = "commit" /\ tx[r].token /\ Token(r) = t
                /\ at[r] < tokens[t].expires]_vars

\* A consumed reset token and its effects come together: the step that
\* consumes it sets the password of the address it was mailed to and revokes
\* every session the user had when the reset arrived.
ResetIsAtomic ==
    [][\A t \in Tokens :
          /\ tokens[t] # None /\ tokens[t].kind = "reset"
          /\ ~tokens[t].consumed /\ tokens'[t].consumed
          => \E r \in Requests :
                /\ Resetting(r) /\ Token(r) = t
                /\ identities'[tokens[t].email].password = req[r].password
                /\ \A s \in arrival[r] :
                      sessions[s].user = identities[tokens[t].email].user =>
                         sessions'[s].revoked]_vars

\* A password changes only by the reset that consumes a token for its address.
PasswordsChangeByToken ==
    [][\A e \in Emails :
          identities[e] # None /\ identities'[e] # identities[e] =>
             \E t \in Tokens :
                /\ tokens[t] # None
                /\ tokens[t].kind = "reset" /\ tokens[t].email = e
                /\ ~tokens[t].consumed /\ tokens'[t].consumed]_vars

\* An address is verified only by a verification token that was sent to it,
\* which is consumed in the same transaction.
VerifiedByToken ==
    \A e \in verified : \E t \in mailed :
       tokens[t].kind = "verify" /\ tokens[t].email = e /\ tokens[t].consumed

\* Every committed user has an identity: a sign-up that loses the race for an
\* address, or fails, leaves no user behind.
NoOrphanUsers ==
    \A u \in users : \E e \in Emails : identities[e] # None /\ identities[e].user = u

\* Every request is answered, unless its server dies first.
EveryRequestIsAnswered ==
    \A r \in Requests : pc[r] # "idle" ~> pc[r] \in {"replied", "idle"}

\* The local_identities table links an address to a new user once and for good.
Owners == [e \in Emails |-> IF identities[e] = None THEN None ELSE identities[e].user]
Directory == INSTANCE IdentityDirectory WITH Keys <- Emails, link <- Owners
ImplementsDirectory == Directory!Spec

\* A session is revoked only together with the consumption of a reset token that was
\* sent to the address of its own user: nobody's reset signs somebody else out.
OnlyOwnResetsRevoke ==
    [][\A s \in Sessions :
          sessions[s] # None /\ ~sessions[s].revoked /\ sessions'[s].revoked =>
             \E t \in Tokens :
                /\ tokens[t] # None /\ tokens[t].kind = "reset"
                /\ ~tokens[t].consumed /\ tokens'[t].consumed
                /\ identities[tokens[t].email] # None
                /\ identities[tokens[t].email].user = sessions[s].user]_vars

\* To the sessions table the plugin does what the session component does: it opens
\* sessions and revokes those of one user.  It rotates no token, so that the id of a
\* session stands for its token.
Listed == [s \in Sessions |->
    IF sessions[s] = None THEN None
    ELSE [user |-> sessions[s].user, token |-> s, expires |-> 0,
          revoked |-> sessions[s].revoked]]
Registry == INSTANCE SessionRegistry
            WITH Ids <- Sessions, Tokens <- Sessions, table <- Listed, retired <- {}
ImplementsRegistry == Registry!Spec

\* Whom the statement of a request waits for, at which of the rows.
WaitsFor(r, q) ==
    /\ q # r
    /\ \/ pc[r] = "consume" /\ tx[q].token /\ Token(q) = Token(r)
       \/ pc[r] \in {"update", "createIdentity"} /\ tx[q].identity /\ Email(q) = Email(r)
       \/ pc[r] = "mark" /\ tx[q].verified /\ Email(q) = Email(r)

\* No set of requests wait for each other: a token is locked before an address or a
\* verification, and who has locked one of those waits for nobody.
NoDeadlock ==
    \A C \in SUBSET Requests :
       C # {} => \E r \in C : \A q \in C : ~WaitsFor(r, q)

\* The awaits before the answer.
StepsLeft(r) ==
    [idle |-> 0, replied |-> 0, commit |-> 1, deliver |-> 1, revoke |-> 2, issue |-> 2,
     mark |-> 2, create |-> 2, update |-> 3, check |-> 3, generate |-> 3,
     createIdentity |-> 3, createUser |-> 4, isVerified |-> 4, consume |-> 4, find |-> 5][pc[r]]

\* Each step of a request under way brings its answer nearer, whatever it finds and
\* whatever fails: none of the six actions tries anything twice.
RequestsAdvance ==
    [][\A r \in Requests : StepsLeft(r) > 0 =>
          \/ pc'[r] = pc[r]
          \/ StepsLeft(r)' \in 0 .. (StepsLeft(r) - 1)]_vars

\* What the audit of the reset says, that its completion revokes all existing
\* sessions: every session of the user that is committed when the reset
\* commits is revoked by it.
ResetRevokesExisting ==
    [][\A r \in Requests :
          Resetting(r) /\ reply'[r] = "success" =>
             \A s \in Sessions :
                sessions[s] # None /\ sessions[s].user = identities[Email(r)].user =>
                   sessions'[s].revoked]_vars
-----------------------------------------------------------------------------
(* The inductive invariant *)

Consumers == {"resetPassword", "verifyEmail"}
TokenRequests == {"requestPasswordReset", "requestEmailVerification"}

\* Which action has come to which await, and what its body has told it by then.
InPlace(r) ==
    /\ pc[r] \in {"createUser", "createIdentity"} => Op(r) = "signUpWithPassword"
    /\ pc[r] = "check" => Op(r) = "signInWithPassword" /\ row[r] # None
    /\ pc[r] = "issue" =>
          \/ Op(r) = "signUpWithPassword"
          \/ Op(r) = "signInWithPassword" /\ row[r] # None
    /\ pc[r] = "find" => Op(r) \in TokenRequests \cup {"signInWithPassword"}
    /\ pc[r] = "isVerified" => Op(r) = "requestEmailVerification"
    /\ pc[r] \in {"generate", "create", "deliver"} => Op(r) \in TokenRequests
    /\ pc[r] = "consume" => Op(r) \in Consumers
    /\ pc[r] \in {"update", "revoke"} => Op(r) = "resetPassword"
    /\ pc[r] = "mark" => Op(r) = "verifyEmail"
    /\ pc[r] = "commit" =>
          \/ Op(r) \in Consumers \cup {"signUpWithPassword"}
          \/ Op(r) = "signInWithPassword" /\ row[r] # None
    /\ pc[r] \notin {"idle", "replied", "consume"} => Email(r) \in Emails
    /\ \/ pc[r] \in {"create", "deliver", "consume"}
       \/ tx[r].token
       => Token(r) \in Tokens
    /\ Op(r) \in {"signUpWithPassword", "signInWithPassword", "resetPassword"} =>
          req[r].password \in Passwords

\* What its transaction has written by then.
HasWritten(r) ==
    /\ tx[r].user # None <=>
          Op(r) = "signUpWithPassword" /\ pc[r] \in {"createIdentity", "issue", "commit"}
    /\ tx[r].identity <=>
          \/ Op(r) = "signUpWithPassword" /\ pc[r] \in {"issue", "commit"}
          \/ Op(r) = "resetPassword" /\ pc[r] \in {"revoke", "commit"}
    /\ tx[r].session # None <=>
          /\ Op(r) \in {"signUpWithPassword", "signInWithPassword"}
          /\ pc[r] = "commit"
    /\ tx[r].token <=>
          Op(r) \in Consumers /\ pc[r] \in {"update", "revoke", "mark", "commit"}
    /\ tx[r].verified <=> Op(r) = "verifyEmail" /\ pc[r] = "commit"
    /\ tx[r].revoked # {} => Resetting(r)

\* What it has read or written still stands, as the locks it holds guarantee.
StillHolds(r) ==
    /\ tx[r].user \notin users
    /\ tx[r].session # None => sessions[tx[r].session] = None
    /\ tx[r].identity =>
          (identities[Email(r)] = None <=> Op(r) = "signUpWithPassword")
    /\ tx[r].token =>
          /\ Token(r) \in mailed
          /\ tokens[Token(r)] # None /\ ~tokens[Token(r)].consumed
          /\ tokens[Token(r)].email = Email(r)
          /\ tokens[Token(r)].kind = IF Op(r) = "resetPassword" THEN "reset" ELSE "verify"
    /\ pc[r] = "create" => Token(r) \in drawn /\ tokens[Token(r)] = None
    /\ pc[r] = "deliver" => tokens[Token(r)] # None
    /\ pc[r] = "consume" => Token(r) \in mailed
    /\ \A s \in arrival[r] \cup tx[r].revoked : sessions[s] # None
    /\ Resetting(r) =>
          \A s \in arrival[r] :
             sessions[s].user = identities[Email(r)].user =>
                s \in tx[r].revoked \/ sessions[s].revoked

\* No two requests write the same row.
Apart(r, q) ==
    /\ tx[r].user # None => tx[q].user # tx[r].user
    /\ tx[r].session # None => tx[q].session # tx[r].session
    /\ tx[r].identity /\ tx[q].identity => Email(q) # Email(r)
    /\ tx[r].token /\ tx[q].token => Token(q) # Token(r)
    /\ pc[r] = "create" /\ pc[q] = "create" => Token(q) # Token(r)

Consumed(t) == tokens[t] # None /\ tokens[t].consumed

\* How the committed tables go together.
TablesAgree ==
    /\ NoOrphanUsers /\ VerifiedByToken
    /\ \A e \in Emails : identities[e] # None => identities[e].user \in users
    /\ \A e, f \in Emails :
          e # f /\ identities[e] # None /\ identities[f] # None =>
             identities[e].user # identities[f].user
    /\ \A t \in mailed : tokens[t] # None
    /\ \A t \in Tokens : /\ tokens[t] # None => t \in drawn
                         /\ uses[t] = IF Consumed(t) THEN 1 ELSE 0

\* The sessions a reset is about to revoke are its user's.  Inductive with Coherent.
RevokesOwn ==
    \A r \in Requests : \A s \in tx[r].revoked :
       sessions[s].user = identities[Email(r)].user

\* A token in use had not expired at the clock its request read.  Inductive with
\* Coherent.
ConsumedInTime ==
    \A r \in Requests : tx[r].token => at[r] < tokens[Token(r)].expires

\* The tables, and every request in flight with its open transaction, agree.
Coherent ==
    /\ TypeOK /\ TablesAgree
    /\ \A r \in Requests : InPlace(r) /\ HasWritten(r) /\ StillHolds(r)
    /\ \A r, q \in Requests : r # q => Apart(r, q)
=============================================================================
