---------------------------- MODULE AccountsProofs ----------------------------
(***************************************************************************)
(* The e-mail and password component keeps its invariant, for any number of *)
(* requests, addresses, users, sessions and tokens; and what follows of it: *)
(* tokens take effect once, nobody is left without an identity, a reset is  *)
(* atomic, and the identities implement the abstract directory.             *)
(***************************************************************************)
EXTENDS Accounts, TLAPS

Control == <<pc, reply>>
Tables == <<Directories, verified, tokens, uses>>

-----------------------------------------------------------------------------
(* Helpers keep their types *)

LEMMA GotoTypes ==
  ASSUME TypeOK, NEW r \in Requests, NEW label \in Pcs, Goto(r, label)
  PROVE  /\ pc' \in [Requests -> Pcs] /\ pc'[r] = label
         /\ reply' = reply
  BY DEF TypeOK, Goto

Replies == {"none", "success", "unauthenticated", "denied", "error"}

LEMMA AnswerTypes ==
  ASSUME TypeOK, NEW r \in Requests, NEW kind \in Replies, Answer(r, kind)
  PROVE  /\ pc' \in [Requests -> Pcs] /\ pc'[r] = "replied"
         /\ reply' \in [Requests -> Replies] /\ reply'[r] = kind
<1>1. "replied" \in Pcs
  BY DEF Pcs
<1> QED BY <1>1 DEF TypeOK, Answer, Replies

LEMMA RollbackTypes ==
  ASSUME TypeOK, NEW r \in Requests, Rollback(r)
  PROVE  tx' \in [Requests -> WriteSets] /\ tx'[r] = NoWrites
<1>1. NoWrites \in WriteSets
  BY DEF NoWrites, WriteSets
<1> QED BY <1>1 DEF TypeOK, Rollback

LEMMA WritesUser ==
  ASSUME TypeOK, NEW r \in Requests, NEW u \in Users, Writes(r, "user", u)
  PROVE  tx' \in [Requests -> WriteSets] /\ tx'[r] = [tx[r] EXCEPT !.user = u]
  BY ZenonT(60) DEF TypeOK, Writes, WriteSets

LEMMA WritesSession ==
  ASSUME TypeOK, NEW r \in Requests, NEW s \in Sessions, Writes(r, "session", s)
  PROVE  tx' \in [Requests -> WriteSets] /\ tx'[r] = [tx[r] EXCEPT !.session = s]
  BY ZenonT(60) DEF TypeOK, Writes, WriteSets

LEMMA WritesRevoked ==
  ASSUME TypeOK, NEW r \in Requests, NEW S \in SUBSET Sessions, Writes(r, "revoked", S)
  PROVE  tx' \in [Requests -> WriteSets] /\ tx'[r] = [tx[r] EXCEPT !.revoked = S]
  BY ZenonT(60) DEF TypeOK, Writes, WriteSets

LEMMA WritesIdentity ==
  ASSUME TypeOK, NEW r \in Requests, Writes(r, "identity", TRUE)
  PROVE  tx' \in [Requests -> WriteSets] /\ tx'[r] = [tx[r] EXCEPT !.identity = TRUE]
  BY ZenonT(60) DEF TypeOK, Writes, WriteSets

LEMMA WritesToken ==
  ASSUME TypeOK, NEW r \in Requests, Writes(r, "token", TRUE)
  PROVE  tx' \in [Requests -> WriteSets] /\ tx'[r] = [tx[r] EXCEPT !.token = TRUE]
  BY ZenonT(60) DEF TypeOK, Writes, WriteSets

LEMMA WritesVerified ==
  ASSUME TypeOK, NEW r \in Requests, Writes(r, "verified", TRUE)
  PROVE  tx' \in [Requests -> WriteSets] /\ tx'[r] = [tx[r] EXCEPT !.verified = TRUE]
  BY ZenonT(60) DEF TypeOK, Writes, WriteSets

-----------------------------------------------------------------------------
(* What a step of a request leaves as it is *)

\* The bodies requests arrive with.
WellFormed(b) ==
    /\ b \in Bodies /\ b.op \in PluginActions
    /\ b.op \notin Consumers => b.email \in Emails
    /\ b.op \in Consumers => b.token \in mailed
    /\ b.op \in {"signUpWithPassword", "signInWithPassword", "resetPassword"} =>
          b.password \in Passwords

LEMMA BodyTypes ==
  ASSUME NEW b \in Bodies, NEW t \in Tokens
  PROVE  [b EXCEPT !.token = t] \in Bodies
  BY DEF Bodies

LEMMA AddressTypes ==
  ASSUME NEW b \in Bodies, NEW e \in Emails
  PROVE  [b EXCEPT !.email = e] \in Bodies
  BY DEF Bodies

LEMMA ArrivalsAreWellFormed ==
  ASSUME TypeOK, NEW r \in Requests, Arrives(r)
  PROVE  \E b : WellFormed(b) /\ Arrive(r, b)
<1> USE DEF TypeOK, WellFormed, Bodies, NoRequest, PluginActions, Consumers
<1>1. PICK o \in Offered, e \in Emails, p \in Passwords :
        \/ /\ o \in {"signUpWithPassword", "signInWithPassword"}
           /\ Arrive(r, [NoRequest EXCEPT !.op = o, !.email = e, !.password = p])
        \/ /\ o \in {"requestPasswordReset", "requestEmailVerification"}
           /\ Arrive(r, [NoRequest EXCEPT !.op = o, !.email = e])
        \/ /\ o = "resetPassword"
           /\ \E t \in mailed : Arrive(r, [NoRequest EXCEPT
                                           !.op = o, !.token = t, !.password = p])
        \/ /\ o = "verifyEmail"
           /\ \E t \in mailed : Arrive(r, [NoRequest EXCEPT !.op = o, !.token = t])
  BY DEF Arrives
<1>2. CASE o \in {"signUpWithPassword", "signInWithPassword"}
  <2>1. WellFormed([NoRequest EXCEPT !.op = o, !.email = e, !.password = p])
    BY <1>2
  <2> QED BY <1>1, <1>2, <2>1
<1>3. CASE o \in {"requestPasswordReset", "requestEmailVerification"}
  <2>1. WellFormed([NoRequest EXCEPT !.op = o, !.email = e])
    BY <1>3
  <2> QED BY <1>1, <1>3, <2>1
<1>4. CASE o = "resetPassword"
  <2>1. PICK t \in mailed : Arrive(r, [NoRequest EXCEPT
                                       !.op = o, !.token = t, !.password = p])
    BY <1>1, <1>4
  <2>2. WellFormed([NoRequest EXCEPT !.op = o, !.token = t, !.password = p])
    BY <1>4
  <2> QED BY <2>1, <2>2
<1>5. CASE o = "verifyEmail"
  <2>1. PICK t \in mailed : Arrive(r, [NoRequest EXCEPT !.op = o, !.token = t])
    BY <1>1, <1>5
  <2>2. WellFormed([NoRequest EXCEPT !.op = o, !.token = t])
    BY <1>5
  <2> QED BY <2>1, <2>2
<1> QED BY <1>1, <1>2, <1>3, <1>4, <1>5

Step(r) ==
    \/ RejectInput(r) \/ Arrives(r) \/ Handle(r) \/ LockingStatement(r)
    \/ CreateTokenFails(r) \/ DeliverFails(r) \/ CommitFails(r) \/ Fail(r)
    \/ Leave(r)

SameRequest(q) ==
    /\ pc'[q] = pc[q] /\ req'[q] = req[q] /\ row'[q] = row[q] /\ tx'[q] = tx[q]
    /\ at'[q] = at[q] /\ arrival'[q] = arrival[q]

LEMMA OthersKeepTheirs ==
  ASSUME TypeOK, NEW r \in Requests, Step(r), NEW q \in Requests \ {r}
  PROVE  SameRequest(q)
<1> USE DEF TypeOK, SameRequest, Goto, Answer, Rollback, Writes, Context
<1>1. CASE RejectInput(r) \/ DeliverFails(r) \/ CreateTokenFails(r) \/ Fail(r) \/ Leave(r)
  BY <1>1 DEF RejectInput, DeliverFails, CreateTokenFails, Fail, Leave
<1>2. CASE Arrives(r)
  BY <1>2, ArrivalsAreWellFormed DEF Arrive
<1>3. CASE FindIdentity(r) \/ CheckPassword(r) \/ IsVerified(r)
  BY <1>3 DEF FindIdentity, CheckPassword, IsVerified
<1>4. CASE GenerateToken(r) \/ CreateToken(r) \/ Deliver(r)
  BY <1>4 DEF GenerateToken, CreateToken, Deliver
<1>5. CASE RevokeAll(r) \/ CreateUser(r) \/ IssueSession(r)
  BY <1>5 DEF RevokeAll, CreateUser, IssueSession
<1>6. CASE Commit(r) \/ CommitFails(r)
  BY <1>6 DEF Commit, CommitFails, Publish
<1>7. CASE LockingStatement(r)
  BY <1>7 DEF LockingStatement, Consume, UpdatePassword, MarkVerified, CreateIdentity
<1> QED BY <1>1, <1>2, <1>3, <1>4, <1>5, <1>6, <1>7 DEF Step, Handle

\* The steps that leave every table as it is.
Quiet(r) ==
    \/ RejectInput(r) \/ Arrives(r) \/ FindIdentity(r) \/ CheckPassword(r)
    \/ IsVerified(r) \/ GenerateToken(r) \/ Deliver(r) \/ DeliverFails(r)
    \/ RevokeAll(r) \/ CreateUser(r) \/ IssueSession(r) \/ LockingStatement(r)
    \/ Fail(r) \/ Leave(r)

\* The steps that insert a token.
Inserts(r) ==
    /\ pc[r] = "create" /\ InsertToken(r)
    /\ CreateToken(r) \/ CreateTokenFails(r)

\* The steps that publish what a transaction wrote.
Publishes(r) ==
    /\ pc[r] = "commit" /\ Publish(r)
    /\ Commit(r) \/ CommitFails(r)

LEMMA StepKinds ==
  ASSUME TypeOK, NEW r \in Requests, Step(r)
  PROVE  \/ UNCHANGED Tables /\ (Quiet(r) \/ CreateTokenFails(r) \/ CommitFails(r))
         \/ Inserts(r) \/ Publishes(r)
<1> USE DEF Tables, Directories, Mail
<1>1. CASE RejectInput(r) \/ DeliverFails(r) \/ Fail(r) \/ Leave(r)
  BY <1>1 DEF RejectInput, DeliverFails, Fail, Leave, Quiet
<1>2. CASE Arrives(r)
  BY <1>2, ArrivalsAreWellFormed DEF Arrive, Quiet
<1>3. CASE FindIdentity(r) \/ CheckPassword(r) \/ IsVerified(r)
  BY <1>3 DEF FindIdentity, CheckPassword, IsVerified, Quiet
<1>4. CASE GenerateToken(r) \/ Deliver(r)
  BY <1>4 DEF GenerateToken, Deliver, Quiet
<1>5. CASE RevokeAll(r) \/ CreateUser(r) \/ IssueSession(r)
  BY <1>5 DEF RevokeAll, CreateUser, IssueSession, Quiet
<1>6. CASE LockingStatement(r)
  BY <1>6 DEF LockingStatement, Consume, UpdatePassword, MarkVerified, CreateIdentity, Quiet
<1>7. CASE CreateToken(r)
  BY <1>7 DEF CreateToken, Inserts
<1>8. CASE CreateTokenFails(r)
  BY <1>8 DEF CreateTokenFails, Inserts
<1>9. CASE Commit(r)
  BY <1>9 DEF Commit, Publishes
<1>10. CASE CommitFails(r)
  BY <1>10 DEF CommitFails, Publishes
<1> QED BY <1>1, <1>2, <1>3, <1>4, <1>5, <1>6, <1>7, <1>8, <1>9, <1>10 DEF Step, Handle

-----------------------------------------------------------------------------
(* Types *)

LEMMA RowsAreNone ==
        /\ None \notin IdentityRow /\ None \notin TokenRow /\ None \notin SessionRow
        /\ None \notin Users /\ None \notin Emails /\ None \notin Passwords
        /\ None \notin Tokens /\ None \notin Sessions
  BY NoneAssumption

LEMMA TypeInit == Init => TypeOK
  BY DEF Init, TypeOK, NoRequest, NoWrites, Bodies, WriteSets, Pcs

\* What a commit publishes has the types of the tables.
LEMMA PublishTypes ==
  ASSUME Coherent, NEW r \in Requests, pc[r] = "commit", Publish(r)
  PROVE  /\ users' \subseteq Users /\ verified' \subseteq Emails
         /\ identities' \in [Emails -> IdentityRow \cup {None}]
         /\ sessions' \in [Sessions -> SessionRow \cup {None}]
         /\ tokens' \in [Tokens -> TokenRow \cup {None}]
         /\ uses' \in [Tokens -> Nat]
         /\ tx' \in [Requests -> WriteSets] /\ tx'[r] = NoWrites
<1> USE RowsAreNone DEF Coherent, TypeOK
<1>1. InPlace(r) /\ HasWritten(r) /\ StillHolds(r)
  OBVIOUS
<1>2. tx[r] \in WriteSets /\ req[r] \in Bodies
  OBVIOUS
<1>3. Email(r) \in Emails
  BY <1>1 DEF InPlace
<1>4. users' \subseteq Users
  BY <1>2 DEF Publish, WriteSets
<1>5. verified' \subseteq Emails
  BY <1>3 DEF Publish
<1>6. tx[r].identity => WrittenIdentity(r) \in IdentityRow
  <2>1. HAVE tx[r].identity
  <2>2. Op(r) \in {"signUpWithPassword", "resetPassword"}
    BY <1>1, <2>1 DEF HasWritten
  <2>3. req[r].password \in Passwords
    BY <1>1, <2>2 DEF InPlace
  <2>4. CASE Op(r) = "signUpWithPassword"
    <3>1. tx[r].user \in Users
      BY <1>1, <1>2, <2>4 DEF HasWritten, WriteSets
    <3> QED BY <2>3, <2>4, <3>1 DEF WrittenIdentity, IdentityRow
  <2>5. CASE Op(r) = "resetPassword"
    <3>1. identities[Email(r)] \in IdentityRow
      BY <1>1, <1>3, <2>1, <2>5 DEF StillHolds
    <3>2. identities[Email(r)].user \in Users
      BY <3>1 DEF IdentityRow
    <3> QED BY <2>3, <2>5, <3>2 DEF WrittenIdentity, IdentityRow
  <2> QED BY <2>2, <2>4, <2>5
<1>7. identities' \in [Emails -> IdentityRow \cup {None}]
  BY <1>3, <1>6 DEF Publish
<1>8. tx[r].session # None => SessionUser(r) \in Users
  <2>1. HAVE tx[r].session # None
  <2>2. CASE Op(r) = "signUpWithPassword"
    BY <1>1, <1>2, <2>2 DEF HasWritten, WriteSets, SessionUser
  <2>3. CASE Op(r) = "signInWithPassword"
    <3>1. row[r] \in IdentityRow
      BY <1>1, <2>3 DEF InPlace, Consumers
    <3> QED BY <2>3, <3>1 DEF SessionUser, IdentityRow
  <2> QED BY <1>1, <2>1, <2>2, <2>3 DEF HasWritten
<1>9. sessions' \in [Sessions -> SessionRow \cup {None}]
  <2>1. \A s \in tx[r].revoked : sessions[s] \in SessionRow
    BY <1>1, <1>2 DEF StillHolds, WriteSets
  <2>2. \A s \in tx[r].revoked : [sessions[s] EXCEPT !.revoked = TRUE] \in SessionRow
    BY <2>1 DEF SessionRow
  <2>3. tx[r].session # None => [user |-> SessionUser(r), revoked |-> FALSE] \in SessionRow
    BY <1>8 DEF SessionRow
  <2> QED BY <2>2, <2>3 DEF Publish
<1>10. tokens' \in [Tokens -> TokenRow \cup {None}]
  <2>1. CASE tx[r].token
    <3>1. tokens[Token(r)] \in TokenRow /\ Token(r) \in Tokens
      BY <1>1, <2>1 DEF StillHolds, InPlace
    <3>2. [tokens[Token(r)] EXCEPT !.consumed = TRUE] \in TokenRow
      BY <3>1 DEF TokenRow
    <3> QED BY <2>1, <3>1, <3>2 DEF Publish
  <2> QED BY <2>1 DEF Publish
<1>11. uses' \in [Tokens -> Nat]
  <2>1. uses \in [Tokens -> Nat] /\ \A t \in Tokens : uses[t] + 1 \in Nat
    OBVIOUS
  <2>2. uses' = uses \/ uses' = [uses EXCEPT ![Token(r)] = uses[Token(r)] + 1]
    BY DEF Publish
  <2> QED BY <2>1, <2>2
<1> QED BY <1>4, <1>5, <1>7, <1>9, <1>10, <1>11, RollbackTypes DEF Publish

LEMMA InsertTypes ==
  ASSUME Coherent, NEW r \in Requests, pc[r] = "create", InsertToken(r)
  PROVE  tokens' \in [Tokens -> TokenRow \cup {None}]
<1> USE DEF Coherent, TypeOK
<1>1. Email(r) \in Emails
  BY DEF InPlace
<1>2. at[r] + TokenTtl \in Nat
  BY BoundsAssumption
<1>3. [kind |-> IF Op(r) = "requestPasswordReset" THEN "reset" ELSE "verify",
       email |-> Email(r), expires |-> at[r] + TokenTtl, consumed |-> FALSE] \in TokenRow
  BY <1>1, <1>2 DEF TokenRow
<1> QED BY <1>3 DEF InsertToken

LEMMA TypeStep ==
  ASSUME Coherent, [Next]_vars
  PROVE  TypeOK'
<1> USE DEF Coherent, TypeOK, Directories, Mail, Context
<1>1. ASSUME NEW r \in Requests, RejectInput(r) PROVE TypeOK'
  BY <1>1, AnswerTypes DEF RejectInput, Replies
<1>2. ASSUME NEW r \in Requests, Arrives(r) PROVE TypeOK'
  <2>1. PICK b : WellFormed(b) /\ Arrive(r, b)
    BY <1>2, ArrivalsAreWellFormed
  <2>2. Entry(b.op) \in Pcs
    BY <2>1 DEF WellFormed, PluginActions, Entry, Pcs
  <2>3. pc' \in [Requests -> Pcs] /\ reply' = reply
    BY <2>1, <2>2, GotoTypes DEF Arrive
  <2> QED BY <2>1, <2>3 DEF Arrive, WellFormed
<1>3. ASSUME NEW r \in Requests, FindIdentity(r) PROVE TypeOK'
  <2>1. Email(r) \in Emails
    BY <1>3 DEF InPlace, FindIdentity
  <2>2. row' \in [Requests -> IdentityRow \cup {None}]
    BY <1>3, <2>1 DEF FindIdentity
  <2>3. CASE identities[Email(r)] = None
    BY <1>3, <2>2, <2>3, AnswerTypes DEF FindIdentity, Replies
  <2>4. CASE identities[Email(r)] # None
    <3>1. Op(r) \in TokenRequests \cup {"signInWithPassword"}
      BY <1>3 DEF InPlace, FindIdentity
    <3>2. (CASE Op(r) = "signInWithPassword" -> "check"
             [] Op(r) = "requestPasswordReset" -> "generate"
             [] Op(r) = "requestEmailVerification" -> "isVerified") \in Pcs
      BY <3>1 DEF TokenRequests, Pcs
    <3> QED BY <1>3, <2>2, <2>4, <3>2, GotoTypes DEF FindIdentity
  <2> QED BY <2>3, <2>4
<1>4. ASSUME NEW r \in Requests, CheckPassword(r) PROVE TypeOK'
  <2>1. pc' \in [Requests -> Pcs] /\ reply' \in [Requests -> Replies]
    BY <1>4, AnswerTypes, GotoTypes DEF CheckPassword, Replies, Pcs
  <2> QED BY <1>4, <2>1 DEF CheckPassword, Replies
<1>5. ASSUME NEW r \in Requests, IsVerified(r) PROVE TypeOK'
  <2>1. pc' \in [Requests -> Pcs] /\ reply' \in [Requests -> Replies]
    BY <1>5, AnswerTypes, GotoTypes DEF IsVerified, Replies, Pcs
  <2> QED BY <1>5, <2>1 DEF IsVerified, Replies
<1>6. ASSUME NEW r \in Requests, GenerateToken(r) PROVE TypeOK'
  <2>1. pc' \in [Requests -> Pcs] /\ reply' = reply
    BY <1>6, GotoTypes DEF GenerateToken, Pcs
  <2>2. \A t \in Tokens : [req[r] EXCEPT !.token = t] \in Bodies
    BY BodyTypes
  <2>3. PICK t \in Tokens \ drawn : /\ drawn' = drawn \cup {t}
                                   /\ req' = [req EXCEPT ![r].token = t]
    BY <1>6 DEF GenerateToken
  <2>4. req' \in [Requests -> Bodies] /\ drawn' \subseteq Tokens
    BY <2>2, <2>3
  <2> QED BY <1>6, <2>1, <2>4 DEF GenerateToken
<1>7. ASSUME NEW r \in Requests, CreateToken(r) \/ CreateTokenFails(r) PROVE TypeOK'
  <2>1. tokens' \in [Tokens -> TokenRow \cup {None}]
    BY <1>7, InsertTypes DEF CreateToken, CreateTokenFails
  <2>2. pc' \in [Requests -> Pcs] /\ reply' \in [Requests -> Replies]
    BY <1>7, AnswerTypes, GotoTypes DEF CreateToken, CreateTokenFails, Replies, Pcs
  <2> QED BY <1>7, <2>1, <2>2 DEF CreateToken, CreateTokenFails, Replies
<1>8. ASSUME NEW r \in Requests, Deliver(r) \/ DeliverFails(r) PROVE TypeOK'
  <2>1. Token(r) \in Tokens
    BY <1>8 DEF InPlace, Deliver, DeliverFails
  <2>2. pc' \in [Requests -> Pcs] /\ reply' \in [Requests -> Replies]
    BY <1>8, AnswerTypes DEF Deliver, DeliverFails, Replies
  <2> QED BY <1>8, <2>1, <2>2 DEF Deliver, DeliverFails, Replies
<1>9. ASSUME NEW r \in Requests, Consume(r) PROVE TypeOK'
  <2>1. Token(r) \in Tokens
    BY <1>9 DEF InPlace, Consume
  <2>2. CASE Consumable(r)
    <3>1. tokens[Token(r)].email \in Emails
      BY <2>1, <2>2, RowsAreNone DEF Consumable, TokenRow
    <3>2. \A e \in Emails : [req[r] EXCEPT !.email = e] \in Bodies
      BY AddressTypes
    <3>3. req' = [req EXCEPT ![r] = [req[r] EXCEPT !.email = tokens[Token(r)].email]]
      BY <1>9, <2>2 DEF Consume
    <3>4. req' \in [Requests -> Bodies]
      BY <3>1, <3>2, <3>3
    <3>5. pc' \in [Requests -> Pcs] /\ reply' = reply
      BY <1>9, <2>2, GotoTypes DEF Consume, Pcs
    <3> QED BY <1>9, <2>2, <3>4, <3>5, WritesToken DEF Consume
  <2>3. CASE ~Consumable(r)
    BY <1>9, <2>3, AnswerTypes DEF Consume, Replies
  <2> QED BY <2>2, <2>3
<1>10. ASSUME NEW r \in Requests, UpdatePassword(r) PROVE TypeOK'
  <2>1. pc' \in [Requests -> Pcs] /\ reply' \in [Requests -> Replies]
    BY <1>10, AnswerTypes, GotoTypes DEF UpdatePassword, Replies, Pcs
  <2>2. tx' \in [Requests -> WriteSets]
    BY <1>10, WritesIdentity, RollbackTypes DEF UpdatePassword
  <2> QED BY <1>10, <2>1, <2>2 DEF UpdatePassword, Replies
<1>11. ASSUME NEW r \in Requests, RevokeAll(r) PROVE TypeOK'
  <2>1. pc' \in [Requests -> Pcs] /\ reply' = reply
    BY <1>11, GotoTypes DEF RevokeAll, Pcs
  <2>2. PICK S \in SUBSET Sessions : Writes(r, "revoked", S)
    BY <1>11 DEF RevokeAll
  <2>3. tx' \in [Requests -> WriteSets]
    BY <2>2, WritesRevoked
  <2> QED BY <1>11, <2>1, <2>3 DEF RevokeAll
<1>12. ASSUME NEW r \in Requests, MarkVerified(r) PROVE TypeOK'
  <2>1. pc' \in [Requests -> Pcs] /\ reply' = reply
    BY <1>12, GotoTypes DEF MarkVerified, Pcs
  <2> QED BY <1>12, <2>1, WritesVerified DEF MarkVerified
<1>13. ASSUME NEW r \in Requests, CreateUser(r) PROVE TypeOK'
  <2>1. pc' \in [Requests -> Pcs] /\ reply' = reply
    BY <1>13, GotoTypes DEF CreateUser, Pcs
  <2>2. tx' \in [Requests -> WriteSets]
    BY <1>13, WritesUser DEF CreateUser, FreeUsers
  <2> QED BY <1>13, <2>1, <2>2 DEF CreateUser
<1>14. ASSUME NEW r \in Requests, CreateIdentity(r) PROVE TypeOK'
  <2>1. pc' \in [Requests -> Pcs] /\ reply' \in [Requests -> Replies]
    BY <1>14, AnswerTypes, GotoTypes DEF CreateIdentity, Replies, Pcs
  <2>2. tx' \in [Requests -> WriteSets]
    BY <1>14, WritesIdentity, RollbackTypes DEF CreateIdentity
  <2> QED BY <1>14, <2>1, <2>2 DEF CreateIdentity, Replies
<1>15. ASSUME NEW r \in Requests, IssueSession(r) PROVE TypeOK'
  <2>1. pc' \in [Requests -> Pcs] /\ reply' = reply
    BY <1>15, GotoTypes DEF IssueSession, Pcs
  <2>2. tx' \in [Requests -> WriteSets]
    BY <1>15, WritesSession DEF IssueSession, FreeSessions
  <2> QED BY <1>15, <2>1, <2>2 DEF IssueSession
<1>16. ASSUME NEW r \in Requests, Commit(r) PROVE TypeOK'
  <2>1. pc' \in [Requests -> Pcs] /\ reply' \in [Requests -> Replies]
    BY <1>16, AnswerTypes DEF Commit, Replies
  <2> QED BY <1>16, <2>1, PublishTypes DEF Commit, Replies
<1>17. ASSUME NEW r \in Requests, CommitFails(r) PROVE TypeOK'
  <2>1. pc' \in [Requests -> Pcs] /\ reply' \in [Requests -> Replies]
    BY <1>17, AnswerTypes DEF CommitFails, Replies
  <2>2. CASE Publish(r)
    BY <1>17, <2>1, <2>2, PublishTypes DEF CommitFails, Replies
  <2>3. CASE Rollback(r) /\ UNCHANGED <<Directories, verified, tokens, uses>>
    BY <1>17, <2>1, <2>3, RollbackTypes DEF CommitFails, Replies
  <2> QED BY <1>17, <2>2, <2>3 DEF CommitFails
<1>18. ASSUME NEW r \in Requests, Fail(r) PROVE TypeOK'
  BY <1>18, AnswerTypes, RollbackTypes DEF Fail, Replies
<1>19. ASSUME NEW r \in Requests, Leave(r) PROVE TypeOK'
  BY <1>19, RollbackTypes DEF Leave, NoRequest, Bodies, Pcs
<1>20. Tick => TypeOK'
  BY DEF Tick
<1>21. UNCHANGED vars => TypeOK'
  BY DEF vars
<1> QED
  BY <1>1, <1>2, <1>3, <1>4, <1>5, <1>6, <1>7, <1>8, <1>9, <1>10, <1>11, <1>12, <1>13,
     <1>14, <1>15, <1>16, <1>17, <1>18, <1>19, <1>20, <1>21
     DEF Next, Handle, LockingStatement

-----------------------------------------------------------------------------
(* How a step changes the tables, and what the other requests make of it *)

Grows(r) ==
    /\ users \subseteq users' /\ users' \subseteq users \cup ({tx[r].user} \ {None})
    /\ \A s \in Sessions :
          /\ sessions[s] # None =>
                /\ sessions'[s] # None /\ sessions'[s].user = sessions[s].user
                /\ sessions[s].revoked => sessions'[s].revoked
          /\ sessions[s] = None /\ s # tx[r].session => sessions'[s] = None
    /\ \A e \in Emails :
          /\ ~(tx[r].identity /\ e = Email(r)) => identities'[e] = identities[e]
          /\ identities[e] # None =>
                identities'[e] # None /\ identities'[e].user = identities[e].user
    /\ \A t \in Tokens :
          /\ t # Token(r) \/ ~(tx[r].token \/ pc[r] = "create") => tokens'[t] = tokens[t]
          /\ tokens[t] # None =>
                /\ tokens'[t] # None
                /\ tokens'[t].kind = tokens[t].kind /\ tokens'[t].email = tokens[t].email
    /\ drawn \subseteq drawn' /\ mailed \subseteq mailed'

LEMMA GrowsOnPublish ==
  ASSUME Coherent, NEW r \in Requests, Publishes(r)
  PROVE  Grows(r)
<1> USE RowsAreNone DEF Coherent, TypeOK
<1>1. InPlace(r) /\ HasWritten(r) /\ StillHolds(r) /\ Publish(r) /\ Email(r) \in Emails
  BY DEF Publishes, InPlace
<1>2. UNCHANGED <<drawn, mailed>>
  BY DEF Publishes, Commit, CommitFails
<1>3. users \subseteq users' /\ users' \subseteq users \cup ({tx[r].user} \ {None})
  BY <1>1 DEF Publish
<1>4. ASSUME NEW s \in Sessions, sessions[s] # None
      PROVE  /\ sessions'[s] # None /\ sessions'[s].user = sessions[s].user
             /\ sessions[s].revoked => sessions'[s].revoked
  <2>1. s # tx[r].session /\ sessions[s] \in SessionRow
    BY <1>1, <1>4 DEF StillHolds
  <2>2. sessions'[s] = IF s \in tx[r].revoked THEN [sessions[s] EXCEPT !.revoked = TRUE]
                       ELSE sessions[s]
    BY <1>1, <2>1 DEF Publish
  <2>3. [sessions[s] EXCEPT !.revoked = TRUE] \in SessionRow
    BY <2>1 DEF SessionRow
  <2> QED BY <1>4, <2>1, <2>2, <2>3 DEF SessionRow
<1>5. ASSUME NEW s \in Sessions, sessions[s] = None, s # tx[r].session
      PROVE  sessions'[s] = None
  BY <1>1, <1>5 DEF StillHolds, Publish
<1>6. ASSUME NEW e \in Emails
      PROVE  /\ ~(tx[r].identity /\ e = Email(r)) => identities'[e] = identities[e]
             /\ identities[e] # None =>
                   identities'[e] # None /\ identities'[e].user = identities[e].user
  <2>1. ~(tx[r].identity /\ e = Email(r)) => identities'[e] = identities[e]
    BY <1>1 DEF Publish
  <2>2. ASSUME tx[r].identity, e = Email(r), identities[e] # None
        PROVE  identities'[e] # None /\ identities'[e].user = identities[e].user
    <3>1. Op(r) # "signUpWithPassword"
      BY <1>1, <2>2 DEF StillHolds
    <3>2. identities'[e] = WrittenIdentity(r)
      BY <1>1, <2>2 DEF Publish
    <3>3. WrittenIdentity(r).user = identities[e].user
      BY <2>2, <3>1 DEF WrittenIdentity
    <3>4. identities'[e] # None
      <4>1. Op(r) = "resetPassword"
        BY <1>1, <2>2, <3>1 DEF HasWritten
      <4>2. req[r].password \in Passwords
        BY <1>1, <4>1 DEF InPlace
      <4>3. identities[e].user \in Users
        BY <2>2 DEF IdentityRow
      <4>4. WrittenIdentity(r) \in IdentityRow
        BY <2>2, <3>1, <4>2, <4>3 DEF WrittenIdentity, IdentityRow
      <4> QED BY <3>2, <4>4
    <3> QED BY <3>2, <3>3, <3>4
  <2> QED BY <2>1, <2>2
<1>7. ASSUME NEW t \in Tokens
      PROVE  /\ t # Token(r) \/ ~(tx[r].token \/ pc[r] = "create") => tokens'[t] = tokens[t]
             /\ tokens[t] # None =>
                   /\ tokens'[t] # None
                   /\ tokens'[t].kind = tokens[t].kind /\ tokens'[t].email = tokens[t].email
  <2>1. t # Token(r) \/ ~(tx[r].token \/ pc[r] = "create") => tokens'[t] = tokens[t]
    BY <1>1 DEF Publish
  <2>2. ASSUME tokens[t] # None, t = Token(r), tx[r].token
        PROVE  /\ tokens'[t] # None
               /\ tokens'[t].kind = tokens[t].kind /\ tokens'[t].email = tokens[t].email
    <3>1. tokens[t] \in TokenRow
      BY <2>2
    <3>2. tokens'[t] = [tokens[t] EXCEPT !.consumed = TRUE]
      BY <1>1, <2>2 DEF Publish
    <3>3. [tokens[t] EXCEPT !.consumed = TRUE] \in TokenRow
      BY <3>1 DEF TokenRow
    <3> QED BY <3>1, <3>2, <3>3 DEF TokenRow
  <2>3. tokens[t] # None /\ t = Token(r) /\ ~tx[r].token => tokens'[t] = tokens[t]
    BY <1>1 DEF Publish
  <2> QED BY <2>1, <2>2, <2>3
<1> QED BY <1>2, <1>3, <1>4, <1>5, <1>6, <1>7 DEF Grows

LEMMA GrowsOnStep ==
  ASSUME Coherent, NEW r \in Requests, Step(r)
  PROVE  Grows(r)
<1> USE DEF Coherent, TypeOK
<1>1. drawn \subseteq drawn' /\ mailed \subseteq mailed'
  <2>1. CASE GenerateToken(r)
    BY <2>1 DEF GenerateToken
  <2>2. CASE Deliver(r) \/ DeliverFails(r)
    BY <2>2 DEF Deliver, DeliverFails
  <2>3. CASE ~(GenerateToken(r) \/ Deliver(r) \/ DeliverFails(r))
    BY <2>3, ArrivalsAreWellFormed DEF Step, Handle, LockingStatement, Mail,
       RejectInput, Arrive, FindIdentity, CheckPassword, IsVerified, CreateToken, RevokeAll,
       CreateUser, IssueSession, Commit, Consume, UpdatePassword, MarkVerified,
       CreateIdentity, CreateTokenFails, CommitFails, Fail, Leave
  <2> QED BY <2>1, <2>2, <2>3
<1>2. CASE UNCHANGED Tables
  BY <1>1, <1>2 DEF Grows, Tables, Directories
<1>3. CASE Inserts(r)
  <2>1. Token(r) \in Tokens /\ tokens[Token(r)] = None
    BY <1>3 DEF Inserts, InPlace, StillHolds
  <2>2. UNCHANGED Directories
    BY <1>3 DEF Inserts, CreateToken, CreateTokenFails
  <2>3. \A t \in Tokens : t # Token(r) => tokens'[t] = tokens[t]
    BY <1>3 DEF Inserts, InsertToken
  <2> QED BY <1>1, <1>3, <2>1, <2>2, <2>3 DEF Grows, Directories, Inserts
<1>4. CASE Publishes(r)
  BY <1>4, GrowsOnPublish
<1> QED BY <1>2, <1>3, <1>4, StepKinds

\* What another request has read or written is not disturbed.
LEMMA OthersStand ==
  ASSUME Coherent, NEW r \in Requests, Step(r), NEW q \in Requests \ {r}
  PROVE  InPlace(q)' /\ HasWritten(q)' /\ StillHolds(q)'
<1>1. TypeOK /\ InPlace(q) /\ HasWritten(q) /\ StillHolds(q) /\ Apart(r, q) /\ Grows(r)
  BY GrowsOnStep DEF Coherent
<1>2. SameRequest(q)
  BY <1>1, OthersKeepTheirs
<1>3. InPlace(q)'
  BY <1>1, <1>2 DEF InPlace, SameRequest, Op, Email, Token
<1>4. HasWritten(q)'
  BY <1>1, <1>2 DEF HasWritten, SameRequest, Op, Resetting
<1>5. StillHolds(q)'
  <2>1. tx'[q].user \notin users'
    BY <1>1, <1>2 DEF StillHolds, SameRequest, Grows, Apart
  <2>2. tx'[q].session # None => sessions'[tx'[q].session] = None
    <3>1. tx[q].session \in Sessions \cup {None}
      BY <1>1 DEF TypeOK, WriteSets
    <3>2. tx[q].session # None => tx[q].session # tx[r].session
      BY <1>1 DEF Apart
    <3> QED BY <1>1, <1>2, <3>1, <3>2 DEF StillHolds, SameRequest, Grows
  <2>3. tx[q].identity => identities'[Email(q)] = identities[Email(q)]
    <3>1. HAVE tx[q].identity
    <3>2. Email(q) \in Emails
      BY <1>1, <3>1 DEF InPlace, HasWritten
    <3> QED BY <1>1, <3>1, <3>2 DEF Grows, Apart
  <2>4. Email(q)' = Email(q) /\ Token(q)' = Token(q) /\ Op(q)' = Op(q)
    BY <1>2 DEF SameRequest, Email, Token, Op
  <2>5. ASSUME tx[q].token
        PROVE  /\ Token(q) \in mailed' /\ tokens'[Token(q)] = tokens[Token(q)]
    <3>1. Token(q) \in Tokens
      BY <1>1, <2>5 DEF InPlace
    <3>2. pc[r] = "create" /\ Token(r) = Token(q) => tokens[Token(q)] = None
      BY DEF Coherent, StillHolds
    <3>3. tokens[Token(q)] # None
      BY <1>1, <2>5 DEF StillHolds
    <3>4. tokens'[Token(q)] = tokens[Token(q)]
      BY <1>1, <2>5, <3>1, <3>2, <3>3 DEF Grows, Apart
    <3> QED BY <1>1, <2>5, <3>4 DEF StillHolds, Grows
  <2>6. ASSUME pc[q] = "create"
        PROVE  Token(q) \in drawn' /\ tokens'[Token(q)] = None
    <3>1. Token(q) \in Tokens /\ Token(q) \in drawn /\ tokens[Token(q)] = None
      BY <1>1, <2>6 DEF InPlace, StillHolds
    <3>2. tx[r].token => tokens[Token(r)] # None
      BY DEF Coherent, StillHolds
    <3> QED BY <1>1, <2>6, <3>1, <3>2 DEF Grows, Apart
  <2>7. pc[q] = "deliver" => tokens'[Token(q)] # None
    BY <1>1 DEF InPlace, StillHolds, Grows
  <2>8. pc[q] = "consume" => Token(q) \in mailed'
    BY <1>1 DEF StillHolds, Grows
  <2>9. arrival[q] \cup tx[q].revoked \subseteq Sessions
    BY <1>1 DEF TypeOK, WriteSets
  <2>10. \A s \in arrival[q] \cup tx[q].revoked : sessions[s] # None /\ sessions'[s] # None
    BY <1>1, <2>9 DEF StillHolds, Grows
  <2>11. Resetting(q) => tx[q].identity
    BY <1>1 DEF HasWritten, Resetting
  <2>12. Resetting(q) =>
           \A s \in arrival[q] :
              sessions'[s].user = identities'[Email(q)].user =>
                 s \in tx[q].revoked \/ sessions'[s].revoked
    BY <1>1, <2>3, <2>9, <2>10, <2>11 DEF StillHolds, Grows
  <2>13. Resetting(q)' <=> Resetting(q)
    BY <1>2, <2>4 DEF Resetting, SameRequest
  <2> QED
    BY <1>1, <1>2, <2>1, <2>2, <2>3, <2>4, <2>5, <2>6, <2>7, <2>8, <2>10, <2>12, <2>13
       DEF StillHolds, SameRequest
<1> QED BY <1>3, <1>4, <1>5

-----------------------------------------------------------------------------
(* The request that takes the step *)

Sound(r) ==
    /\ InPlace(r) /\ HasWritten(r) /\ StillHolds(r)
    /\ \A q \in Requests \ {r} : Apart(r, q) /\ Apart(q, r)

EmptyHanded(r) ==
    /\ tx[r].user = None /\ tx[r].session = None /\ tx[r].revoked = {}
    /\ ~tx[r].identity /\ ~tx[r].token /\ ~tx[r].verified

LEMMA NothingWrittenYet ==
  ASSUME Coherent, NEW r \in Requests,
         \/ pc[r] \notin {"createIdentity", "issue", "update", "revoke", "mark", "commit"}
         \/ pc[r] = "issue" /\ Op(r) # "signUpWithPassword"
  PROVE  EmptyHanded(r)
<1>1. HasWritten(r)
  BY DEF Coherent
<1> QED BY <1>1 DEF HasWritten, EmptyHanded, Resetting

LEMMA RolledBack ==
  ASSUME TypeOK, NEW r \in Requests, Rollback(r)
  PROVE  EmptyHanded(r)'
  BY RollbackTypes DEF EmptyHanded, NoWrites

\* Nobody is disturbed by a request whose transaction has written nothing.
LEMMA EmptyHandedIsApart ==
  ASSUME TypeOK', NEW r \in Requests, EmptyHanded(r)', NEW q \in Requests \ {r},
         pc'[r] = "create" /\ pc'[q] = "create" => Token(q)' # Token(r)'
  PROVE  Apart(r, q)' /\ Apart(q, r)'
  BY DEF EmptyHanded, Apart

\* What arrived before a request stays committed.
LEMMA ArrivalsStay ==
  ASSUME Coherent, NEW r \in Requests, Step(r)
  PROVE  \A s \in arrival[r] : sessions'[s] # None
<1>1. StillHolds(r) /\ arrival[r] \subseteq Sessions /\ Grows(r)
  BY GrowsOnStep DEF Coherent, TypeOK
<1> QED BY <1>1 DEF StillHolds, Grows

LEMMA SoundAtRest ==
  ASSUME Coherent, TypeOK', NEW r \in Requests, Step(r), EmptyHanded(r)',
         pc'[r] \in {"idle", "replied"}, req'[r] \in {req[r], NoRequest},
         arrival'[r] \subseteq arrival[r]
  PROVE  Sound(r)'
<1>1. InPlace(r) /\ HasWritten(r) /\ StillHolds(r)
  BY DEF Coherent
<1>2. InPlace(r)'
  BY <1>1 DEF InPlace, EmptyHanded, NoRequest, Op
<1>3. HasWritten(r)'
  BY DEF HasWritten, EmptyHanded
<1>4. None \notin users'
  BY RowsAreNone DEF TypeOK
<1>5. StillHolds(r)'
  BY <1>1, <1>4, ArrivalsStay DEF StillHolds, EmptyHanded, Resetting
<1>6. \A q \in Requests \ {r} : Apart(r, q)' /\ Apart(q, r)'
  BY EmptyHandedIsApart
<1> QED BY <1>2, <1>3, <1>5, <1>6 DEF Sound

LEMMA SoundWhenDone ==
  ASSUME Coherent, TypeOK', NEW r \in Requests, Step(r), pc'[r] \in {"idle", "replied"}
  PROVE  Sound(r)'
<1> USE DEF Context
<1>1. TypeOK
  BY DEF Coherent
<1> SUFFICES /\ EmptyHanded(r)' /\ req'[r] \in {req[r], NoRequest}
             /\ arrival'[r] \subseteq arrival[r]
  BY SoundAtRest
<1>2. CASE RejectInput(r) \/ CheckPassword(r) \/ IsVerified(r) \/ CreateTokenFails(r)
           \/ DeliverFails(r) \/ Deliver(r) \/ FindIdentity(r)
  <2>1. UNCHANGED <<tx, req, arrival>>
    BY <1>2 DEF RejectInput, CheckPassword, IsVerified, CreateTokenFails, DeliverFails,
                Deliver, FindIdentity
  <2>2. EmptyHanded(r)
    BY <1>2, NothingWrittenYet DEF RejectInput, CheckPassword, IsVerified,
       CreateTokenFails, DeliverFails, Deliver, FindIdentity
  <2> QED BY <2>1, <2>2 DEF EmptyHanded
<1>3. CASE Consume(r)
  <2>1. ~Consumable(r)
    <3>1. SUFFICES ASSUME Consumable(r) PROVE FALSE
      OBVIOUS
    <3>2. pc'[r] \in {"update", "mark"}
      BY <1>1, <1>3, <3>1, GotoTypes DEF Consume, Pcs
    <3> QED BY <3>2
  <2>2. UNCHANGED <<tx, req, arrival>> /\ EmptyHanded(r)
    BY <1>3, <2>1, NothingWrittenYet DEF Consume
  <2> QED BY <2>2 DEF EmptyHanded
<1>4. CASE UpdatePassword(r) \/ CreateIdentity(r)
  <2>1. Rollback(r)
    BY <1>1, <1>4, GotoTypes DEF UpdatePassword, CreateIdentity, Pcs
  <2> QED BY <1>1, <1>4, <2>1, RolledBack DEF UpdatePassword, CreateIdentity
<1>5. CASE Commit(r) \/ CommitFails(r) \/ Fail(r)
  <2>1. Rollback(r)
    BY <1>5 DEF Commit, CommitFails, Fail, Publish
  <2> QED BY <1>1, <1>5, <2>1, RolledBack DEF Commit, CommitFails, Fail
<1>6. CASE Leave(r)
  BY <1>1, <1>6, RolledBack DEF Leave, TypeOK
<1>7. CASE Arrives(r)
  <2>1. PICK b : WellFormed(b) /\ Arrive(r, b)
    BY <1>1, <1>7, ArrivalsAreWellFormed
  <2>2. Entry(b.op) \in {"createUser", "find", "consume"}
    BY <2>1 DEF WellFormed, PluginActions, Entry
  <2>3. pc'[r] = Entry(b.op)
    BY <1>1, <2>1, <2>2, GotoTypes DEF Arrive, Pcs
  <2> QED BY <2>2, <2>3
<1>8. CASE GenerateToken(r) \/ CreateToken(r) \/ RevokeAll(r) \/ CreateUser(r)
           \/ IssueSession(r) \/ MarkVerified(r)
  BY <1>1, <1>8, GotoTypes DEF GenerateToken, CreateToken, RevokeAll, CreateUser,
     IssueSession, MarkVerified, Pcs
<1> QED
  BY <1>2, <1>3, <1>4, <1>5, <1>6, <1>7, <1>8 DEF Step, Handle, LockingStatement


\* A request that goes on without having written anything.
LEMMA SoundEmptyHanded ==
  ASSUME Coherent, TypeOK', NEW r \in Requests, Step(r), EmptyHanded(r)',
         InPlace(r)', arrival'[r] \subseteq {s \in Sessions : sessions'[s] # None},
         \/ pc'[r] \in {"find", "check", "isVerified", "generate", "deliver", "consume",
                        "create", "createUser"}
         \/ pc'[r] = "issue" /\ Op(r)' # "signUpWithPassword",
         pc'[r] = "create" =>
            /\ Token(r)' \in drawn' /\ tokens'[Token(r)'] = None
            /\ \A q \in Requests \ {r} : pc'[q] = "create" => Token(q)' # Token(r)',
         pc'[r] = "deliver" => tokens'[Token(r)'] # None,
         pc'[r] = "consume" => Token(r)' \in mailed'
  PROVE  Sound(r)'
<1>1. HasWritten(r)'
  BY DEF HasWritten, EmptyHanded
<1>2. None \notin users'
  BY RowsAreNone DEF TypeOK
<1>3. StillHolds(r)'
  BY <1>2 DEF StillHolds, EmptyHanded, Resetting
<1>4. \A q \in Requests \ {r} : Apart(r, q)' /\ Apart(q, r)'
  BY EmptyHandedIsApart
<1> QED BY <1>1, <1>3, <1>4 DEF Sound

LEMMA SoundArrival ==
  ASSUME Coherent, TypeOK', NEW r \in Requests, Arrives(r)
  PROVE  Sound(r)'
<1>1. TypeOK /\ Step(r)
  BY DEF Coherent, Step
<1>2. PICK b : WellFormed(b) /\ Arrive(r, b)
  BY <1>1, ArrivalsAreWellFormed
<1>3. Entry(b.op) \in Pcs
  BY <1>2 DEF WellFormed, PluginActions, Entry, Pcs
<1>4. /\ pc'[r] = Entry(b.op) /\ req'[r] = b /\ tx' = tx
      /\ arrival'[r] = {s \in Sessions : sessions[s] # None}
      /\ UNCHANGED <<sessions, mailed>> /\ pc[r] = "idle"
  BY <1>1, <1>2, <1>3, GotoTypes DEF Arrive, TypeOK, Directories, Mail
<1>5. EmptyHanded(r)'
  BY <1>4, NothingWrittenYet DEF EmptyHanded
<1>6. pc'[r] \in {"createUser", "find", "consume"}
  BY <1>2, <1>4 DEF WellFormed, PluginActions, Entry
<1>7. InPlace(r)'
  <2>1. CASE b.op = "signUpWithPassword"
    BY <1>2, <1>4, <1>5, <2>1 DEF WellFormed, Entry, InPlace, EmptyHanded, Op, Email, Consumers
  <2>2. CASE b.op \in TokenRequests \cup {"signInWithPassword"}
    BY <1>2, <1>4, <1>5, <2>2 DEF WellFormed, Entry, InPlace, EmptyHanded, Op, Email,
       Consumers, TokenRequests
  <2>3. CASE b.op \in Consumers
    <3>1. b.token \in Tokens
      BY <1>1, <1>2, <2>3 DEF WellFormed, TypeOK
    <3> QED BY <1>2, <1>4, <1>5, <2>3, <3>1 DEF WellFormed, Entry, InPlace, EmptyHanded,
               Op, Token, Consumers
  <2> QED BY <1>2, <2>1, <2>2, <2>3 DEF WellFormed, PluginActions, Consumers, TokenRequests
<1>8. pc'[r] = "consume" => Token(r)' \in mailed'
  BY <1>2, <1>4 DEF WellFormed, PluginActions, Entry, Consumers, Token
<1> QED BY <1>1, <1>4, <1>5, <1>6, <1>7, <1>8, SoundEmptyHanded

LEMMA SoundFind ==
  ASSUME Coherent, TypeOK', NEW r \in Requests, FindIdentity(r)
  PROVE  Sound(r)'
<1>1. TypeOK /\ Step(r) /\ InPlace(r) /\ StillHolds(r) /\ pc[r] = "find"
  BY DEF Coherent, Step, Handle, FindIdentity
<1>2. CASE identities[Email(r)] = None
  BY <1>1, <1>2, AnswerTypes, SoundWhenDone DEF FindIdentity, Replies
<1>3. CASE identities[Email(r)] # None
  <2>1. UNCHANGED <<req, arrival, tx, sessions>> /\ row'[r] # None
    BY <1>1, <1>3 DEF FindIdentity, TypeOK, Directories
  <2>2. EmptyHanded(r) /\ EmptyHanded(r)'
    BY <1>1, <2>1, NothingWrittenYet DEF EmptyHanded
  <2>3. /\ pc'[r] \in {"check", "generate", "isVerified"}
        /\ pc'[r] = "check" => Op(r) = "signInWithPassword"
        /\ pc'[r] = "generate" => Op(r) = "requestPasswordReset"
        /\ pc'[r] = "isVerified" => Op(r) = "requestEmailVerification"
    <3>1. CASE Op(r) = "signInWithPassword"
      BY <1>1, <1>3, <3>1 DEF FindIdentity, Goto, TypeOK
    <3>2. CASE Op(r) = "requestPasswordReset"
      BY <1>1, <1>3, <3>2 DEF FindIdentity, Goto, TypeOK
    <3>3. CASE Op(r) = "requestEmailVerification"
      BY <1>1, <1>3, <3>3 DEF FindIdentity, Goto, TypeOK
    <3> QED BY <1>1, <3>1, <3>2, <3>3 DEF InPlace, TokenRequests
  <2>4. InPlace(r)'
    BY <1>1, <2>1, <2>2, <2>3 DEF InPlace, EmptyHanded, Op, Email, Token, TokenRequests
  <2>5. arrival'[r] \subseteq {s \in Sessions : sessions'[s] # None}
    BY <1>1, <2>1 DEF StillHolds, TypeOK
  <2> QED BY <1>1, <2>2, <2>3, <2>4, <2>5, SoundEmptyHanded
<1> QED BY <1>2, <1>3

LEMMA SoundChecks ==
  ASSUME Coherent, TypeOK', NEW r \in Requests, CheckPassword(r) \/ IsVerified(r)
  PROVE  Sound(r)'
<1>1. TypeOK /\ Step(r) /\ InPlace(r) /\ StillHolds(r) /\ pc[r] \in {"check", "isVerified"}
  BY DEF Coherent, Step, Handle, CheckPassword, IsVerified
<1>2. UNCHANGED <<req, arrival, row, tx, sessions>>
  BY DEF CheckPassword, IsVerified, Context, Directories
<1>3. \/ pc'[r] = "replied"
      \/ pc[r] = "check" /\ pc'[r] = "issue"
      \/ pc[r] = "isVerified" /\ pc'[r] = "generate"
  BY <1>1 DEF CheckPassword, IsVerified, Goto, Answer, TypeOK
<1>4. CASE pc'[r] = "replied"
  BY <1>1, <1>4, SoundWhenDone
<1>5. CASE pc'[r] # "replied"
  <2>1. EmptyHanded(r) /\ EmptyHanded(r)'
    BY <1>1, <1>2, NothingWrittenYet DEF EmptyHanded
  <2>2. InPlace(r)' /\ (pc'[r] = "issue" => Op(r)' # "signUpWithPassword")
    BY <1>1, <1>2, <1>3, <1>5, <2>1
       DEF InPlace, EmptyHanded, Op, Email, Token, TokenRequests
  <2>3. arrival'[r] \subseteq {s \in Sessions : sessions'[s] # None}
    BY <1>1, <1>2 DEF StillHolds, TypeOK
  <2> QED BY <1>1, <1>3, <1>5, <2>1, <2>2, <2>3, SoundEmptyHanded
<1> QED BY <1>4, <1>5

LEMMA SoundGenerate ==
  ASSUME Coherent, TypeOK', NEW r \in Requests, GenerateToken(r)
  PROVE  Sound(r)'
<1>1. TypeOK /\ Step(r) /\ InPlace(r) /\ StillHolds(r) /\ pc[r] = "generate" /\ TablesAgree
  BY DEF Coherent, Step, Handle, GenerateToken
<1>2. PICK t \in Tokens \ drawn : /\ drawn' = drawn \cup {t}
                                 /\ req' = [req EXCEPT ![r].token = t]
  BY DEF GenerateToken
<1>3. UNCHANGED <<arrival, tx, sessions, tokens>> /\ pc'[r] = "create"
  BY <1>1, GotoTypes DEF GenerateToken, Directories, Pcs
<1>4. Token(r)' = t /\ Email(r)' = Email(r) /\ Op(r)' = Op(r)
      /\ req'[r].password = req[r].password
  BY <1>1, <1>2 DEF Token, Email, Op, TypeOK, Bodies
<1>5. EmptyHanded(r) /\ EmptyHanded(r)'
  BY <1>1, <1>3, NothingWrittenYet DEF EmptyHanded
<1>6. InPlace(r)'
  BY <1>1, <1>2, <1>3, <1>4, <1>5 DEF InPlace, EmptyHanded, TokenRequests
<1>7. arrival'[r] \subseteq {s \in Sessions : sessions'[s] # None}
  BY <1>1, <1>3 DEF StillHolds, TypeOK
<1>8. Token(r)' \in drawn' /\ tokens'[Token(r)'] = None
  BY <1>1, <1>2, <1>3, <1>4 DEF TablesAgree
<1>9. ASSUME NEW q \in Requests \ {r}, pc'[q] = "create" PROVE Token(q)' # Token(r)'
  <2>1. SameRequest(q)
    BY <1>1, OthersKeepTheirs
  <2>2. Token(q) \in drawn /\ Token(q)' = Token(q)
    BY <1>9, <2>1 DEF Coherent, StillHolds, SameRequest, Token
  <2> QED BY <1>2, <1>4, <2>2
<1> QED BY <1>1, <1>3, <1>5, <1>6, <1>7, <1>8, <1>9, SoundEmptyHanded

LEMMA SoundCreateToken ==
  ASSUME Coherent, TypeOK', NEW r \in Requests, CreateToken(r)
  PROVE  Sound(r)'
<1>1. TypeOK /\ Step(r) /\ InPlace(r) /\ StillHolds(r) /\ pc[r] = "create"
  BY DEF Coherent, Step, Handle, CreateToken
<1>2. UNCHANGED <<req, row, arrival, tx, sessions>> /\ pc'[r] = "deliver"
  BY <1>1, GotoTypes DEF CreateToken, Directories, Context, Pcs
<1>3. EmptyHanded(r) /\ EmptyHanded(r)'
  BY <1>1, <1>2, NothingWrittenYet DEF EmptyHanded
<1>4. InPlace(r)'
  BY <1>1, <1>2, <1>3 DEF InPlace, EmptyHanded, Op, Email, Token, TokenRequests
<1>5. arrival'[r] \subseteq {s \in Sessions : sessions'[s] # None}
  BY <1>1, <1>2 DEF StillHolds, TypeOK
<1>6. tokens'[Token(r)'] # None
  <2>1. tokens'[Token(r)] =
          [kind |-> IF Op(r) = "requestPasswordReset" THEN "reset" ELSE "verify",
           email |-> Email(r), expires |-> at[r] + TokenTtl, consumed |-> FALSE]
    BY <1>1 DEF CreateToken, InsertToken, InPlace, TypeOK
  <2>2. Token(r) \in Tokens /\ Email(r) \in Emails
    BY <1>1 DEF InPlace
  <2>3. at[r] + TokenTtl \in Nat
    BY <1>1, BoundsAssumption DEF TypeOK
  <2>4. tokens'[Token(r)] \in TokenRow
    BY <2>1, <2>2, <2>3 DEF TokenRow
  <2> QED BY <1>2, <2>4, RowsAreNone DEF Token
<1> QED BY <1>1, <1>2, <1>3, <1>4, <1>5, <1>6, SoundEmptyHanded

-----------------------------------------------------------------------------
(* The request that writes in its transaction *)

\* What it writes is nobody else's: the id is new, or the row was not locked.
OwnRows(r) ==
    /\ tx'[r].user = tx[r].user \/ tx'[r].user \in FreeUsers
    /\ tx'[r].session = tx[r].session \/ tx'[r].session \in FreeSessions
    /\ tx'[r].identity => Email(r)' = Email(r) /\ (tx[r].identity \/ ~EmailLocked(r))
    /\ tx'[r].token => Token(r)' = Token(r) /\ (tx[r].token \/ ~TokenLocked(r))

LEMMA WritersAreApart ==
  ASSUME Coherent, NEW r \in Requests, Step(r), OwnRows(r), pc'[r] # "create",
         NEW q \in Requests \ {r}
  PROVE  Apart(r, q)' /\ Apart(q, r)'
<1>1. TypeOK /\ Apart(r, q) /\ Apart(q, r)
  BY DEF Coherent
<1>2. SameRequest(q) /\ Email(q)' = Email(q) /\ Token(q)' = Token(q)
  BY <1>1, OthersKeepTheirs DEF SameRequest, Email, Token
<1>3. tx'[r].user # None => tx'[q].user # tx'[r].user
  BY <1>1, <1>2 DEF OwnRows, FreeUsers, SameRequest, Apart
<1>4. tx'[r].session # None => tx'[q].session # tx'[r].session
  BY <1>1, <1>2 DEF OwnRows, FreeSessions, SameRequest, Apart
<1>5. tx'[r].identity /\ tx'[q].identity => Email(q)' # Email(r)'
  BY <1>1, <1>2 DEF OwnRows, EmailLocked, SameRequest, Apart
<1>6. tx'[r].token /\ tx'[q].token => Token(q)' # Token(r)'
  BY <1>1, <1>2 DEF OwnRows, TokenLocked, SameRequest, Apart
<1> QED BY <1>3, <1>4, <1>5, <1>6 DEF Apart

Standing == <<Directories, drawn, mailed, tokens, arrival, row>>

LEMMA SoundConsume ==
  ASSUME Coherent, TypeOK', NEW r \in Requests, Consume(r)
  PROVE  Sound(r)'
<1>1. TypeOK /\ Step(r) /\ InPlace(r) /\ HasWritten(r) /\ StillHolds(r) /\ pc[r] = "consume"
  BY DEF Coherent, Step, LockingStatement, Consume
<1>2. CASE ~Consumable(r)
  BY <1>1, <1>2, AnswerTypes, SoundWhenDone DEF Consume, Replies
<1>3. CASE Consumable(r)
  <2>1. UNCHANGED Standing
    BY <1>1 DEF Consume, Standing, Mail
  <2>2. Op(r) \in Consumers /\ Token(r) \in Tokens /\ Token(r) \in mailed
    BY <1>1 DEF InPlace, StillHolds
  <2>3. /\ tokens[Token(r)] # None /\ ~tokens[Token(r)].consumed
        /\ tokens[Token(r)].email \in Emails
        /\ tokens[Token(r)].kind = IF Op(r) = "resetPassword" THEN "reset" ELSE "verify"
    BY <1>1, <1>3, <2>2 DEF Consumable, TypeOK, TokenRow
  <2>4. req' = [req EXCEPT ![r].email = tokens[Token(r)].email]
    BY <1>3 DEF Consume
  <2>5. /\ Op(r)' = Op(r) /\ Token(r)' = Token(r) /\ req'[r].password = req[r].password
        /\ Email(r)' = tokens[Token(r)].email
    BY <1>1, <2>4 DEF Op, Token, Email, TypeOK, Bodies
  <2>6. tx'[r] = [tx[r] EXCEPT !.token = TRUE]
    BY <1>1, <1>3, WritesToken DEF Consume
  <2>7. /\ tx'[r].token /\ tx'[r].user = None /\ tx'[r].session = None
        /\ ~tx'[r].identity /\ ~tx'[r].verified /\ tx'[r].revoked = {}
    <3>1. EmptyHanded(r) /\ tx[r] \in WriteSets
      BY <1>1, NothingWrittenYet DEF TypeOK
    <3> QED BY <2>6, <3>1 DEF EmptyHanded, WriteSets
  <2>8. pc'[r] = IF Op(r) = "resetPassword" THEN "update" ELSE "mark"
    BY <1>1, <1>3, GotoTypes DEF Consume, Pcs
  <2>9. InPlace(r)'
    BY <1>1, <2>2, <2>3, <2>5, <2>7, <2>8 DEF InPlace, Consumers
  <2>10. HasWritten(r)'
    BY <2>2, <2>5, <2>7, <2>8 DEF HasWritten, Consumers
  <2>11. StillHolds(r)'
    <3>1. None \notin users
      BY <1>1, RowsAreNone DEF TypeOK
    <3> QED BY <1>1, <2>1, <2>2, <2>3, <2>5, <2>7, <2>8, <3>1
            DEF StillHolds, Standing, Directories, Resetting
  <2>12. OwnRows(r)
    <3>1. EmptyHanded(r)
      BY <1>1, NothingWrittenYet
    <3> QED BY <2>5, <2>7, <3>1 DEF OwnRows, Consume, EmptyHanded
  <2> QED BY <1>1, <2>8, <2>9, <2>10, <2>11, <2>12, WritersAreApart DEF Sound
<1> QED BY <1>2, <1>3

LEMMA SoundUpdate ==
  ASSUME Coherent, TypeOK', NEW r \in Requests, UpdatePassword(r)
  PROVE  Sound(r)'
<1>1. TypeOK /\ Step(r) /\ InPlace(r) /\ HasWritten(r) /\ StillHolds(r) /\ pc[r] = "update"
  BY DEF Coherent, Step, LockingStatement, UpdatePassword
<1>2. CASE identities[Email(r)] = None
  BY <1>1, <1>2, AnswerTypes, SoundWhenDone DEF UpdatePassword, Replies
<1>3. CASE identities[Email(r)] # None
  <2>1. UNCHANGED Standing /\ UNCHANGED req
    BY DEF UpdatePassword, Standing, Mail, Context
  <2>2. Op(r)' = Op(r) /\ Token(r)' = Token(r) /\ Email(r)' = Email(r)
    BY <2>1 DEF Op, Token, Email
  <2>3. tx'[r] = [tx[r] EXCEPT !.identity = TRUE]
    BY <1>1, <1>3, WritesIdentity DEF UpdatePassword
  <2>4. /\ tx'[r].identity /\ tx'[r].user = tx[r].user /\ tx'[r].session = tx[r].session
        /\ tx'[r].token = tx[r].token /\ tx'[r].verified = tx[r].verified
        /\ tx'[r].revoked = tx[r].revoked
    BY <1>1, <2>3 DEF TypeOK, WriteSets
  <2>5. pc'[r] = "revoke" /\ Op(r) = "resetPassword"
    BY <1>1, <1>3, GotoTypes DEF UpdatePassword, Pcs, InPlace
  <2>6. InPlace(r)'
    BY <1>1, <2>1, <2>2, <2>4, <2>5 DEF InPlace
  <2>7. HasWritten(r)'
    BY <1>1, <2>2, <2>4, <2>5 DEF HasWritten, Resetting, Consumers
  <2>8. StillHolds(r)'
    BY <1>1, <1>3, <2>1, <2>2, <2>4, <2>5 DEF StillHolds, Standing, Directories, Resetting
  <2>9. OwnRows(r)
    <3>1. tx[r].token
      BY <1>1, <2>5 DEF HasWritten, Consumers
    <3> QED BY <2>2, <2>4, <3>1 DEF OwnRows, UpdatePassword
  <2> QED BY <1>1, <2>5, <2>6, <2>7, <2>8, <2>9, WritersAreApart DEF Sound
<1> QED BY <1>2, <1>3

LEMMA SoundRevoke ==
  ASSUME Coherent, TypeOK', NEW r \in Requests, RevokeAll(r)
  PROVE  Sound(r)'
<1>1. TypeOK /\ Step(r) /\ InPlace(r) /\ HasWritten(r) /\ StillHolds(r) /\ pc[r] = "revoke"
  BY DEF Coherent, Step, Handle, RevokeAll
<1> DEFINE R == {s \in Sessions : /\ sessions[s] # None /\ ~sessions[s].revoked
                                  /\ sessions[s].user = identities[Email(r)].user}
<1>2. UNCHANGED Standing /\ UNCHANGED req
  BY DEF RevokeAll, Standing, Mail, Context
<1>3. Op(r)' = Op(r) /\ Token(r)' = Token(r) /\ Email(r)' = Email(r)
  BY <1>2 DEF Op, Token, Email
<1>4. tx'[r] = [tx[r] EXCEPT !.revoked = R]
  BY <1>1, WritesRevoked DEF RevokeAll
<1>5. /\ tx'[r].revoked = R /\ tx'[r].user = tx[r].user /\ tx'[r].session = tx[r].session
      /\ tx'[r].token = tx[r].token /\ tx'[r].verified = tx[r].verified
      /\ tx'[r].identity = tx[r].identity
  BY <1>1, <1>4 DEF TypeOK, WriteSets
<1>6. pc'[r] = "commit" /\ Op(r) = "resetPassword"
  BY <1>1, GotoTypes DEF RevokeAll, Pcs, InPlace
<1>7. InPlace(r)'
  BY <1>1, <1>2, <1>3, <1>5, <1>6 DEF InPlace, Consumers
<1>8. HasWritten(r)'
  BY <1>1, <1>3, <1>5, <1>6 DEF HasWritten, Resetting, Consumers
<1>9. StillHolds(r)'
  <2>1. \A s \in arrival[r] : s \in Sessions /\ sessions[s] # None
    BY <1>1 DEF StillHolds, TypeOK
  <2>2. \A s \in arrival[r] : sessions[s].user = identities[Email(r)].user =>
                                 s \in R \/ sessions[s].revoked
    BY <2>1
  <2>3. \A s \in arrival[r] \cup R : sessions[s] # None
    BY <2>1
  <2> HIDE DEF R
  <2> QED BY <1>1, <1>2, <1>3, <1>5, <1>6, <2>2, <2>3
          DEF StillHolds, Standing, Directories, Resetting
<1>10. OwnRows(r)
  BY <1>3, <1>5 DEF OwnRows
<1> QED BY <1>1, <1>6, <1>7, <1>8, <1>9, <1>10, WritersAreApart DEF Sound

LEMMA SoundMark ==
  ASSUME Coherent, TypeOK', NEW r \in Requests, MarkVerified(r)
  PROVE  Sound(r)'
<1>1. TypeOK /\ Step(r) /\ InPlace(r) /\ HasWritten(r) /\ StillHolds(r) /\ pc[r] = "mark"
  BY DEF Coherent, Step, LockingStatement, MarkVerified
<1>2. UNCHANGED Standing /\ UNCHANGED req
  BY DEF MarkVerified, Standing, Mail, Context
<1>3. Op(r)' = Op(r) /\ Token(r)' = Token(r) /\ Email(r)' = Email(r)
  BY <1>2 DEF Op, Token, Email
<1>4. tx'[r] = [tx[r] EXCEPT !.verified = TRUE]
  BY <1>1, WritesVerified DEF MarkVerified
<1>5. /\ tx'[r].verified /\ tx'[r].user = tx[r].user /\ tx'[r].session = tx[r].session
      /\ tx'[r].token = tx[r].token /\ tx'[r].revoked = tx[r].revoked
      /\ tx'[r].identity = tx[r].identity
  BY <1>1, <1>4 DEF TypeOK, WriteSets
<1>6. pc'[r] = "commit" /\ Op(r) = "verifyEmail"
  BY <1>1, GotoTypes DEF MarkVerified, Pcs, InPlace
<1>7. InPlace(r)'
  BY <1>1, <1>2, <1>3, <1>5, <1>6 DEF InPlace, Consumers
<1>8. HasWritten(r)'
  BY <1>1, <1>3, <1>5, <1>6 DEF HasWritten, Resetting, Consumers
<1>9. StillHolds(r)'
  BY <1>1, <1>2, <1>3, <1>5, <1>6 DEF StillHolds, Standing, Directories, Resetting
<1>10. OwnRows(r)
  BY <1>3, <1>5 DEF OwnRows
<1> QED BY <1>1, <1>6, <1>7, <1>8, <1>9, <1>10, WritersAreApart DEF Sound

LEMMA SoundCreateUser ==
  ASSUME Coherent, TypeOK', NEW r \in Requests, CreateUser(r)
  PROVE  Sound(r)'
<1>1. TypeOK /\ Step(r) /\ InPlace(r) /\ HasWritten(r) /\ StillHolds(r) /\ pc[r] = "createUser"
  BY DEF Coherent, Step, Handle, CreateUser
<1>2. UNCHANGED Standing /\ UNCHANGED req
  BY DEF CreateUser, Standing, Mail, Context
<1>3. Op(r)' = Op(r) /\ Token(r)' = Token(r) /\ Email(r)' = Email(r)
  BY <1>2 DEF Op, Token, Email
<1>4. PICK u \in FreeUsers : Writes(r, "user", u)
  BY DEF CreateUser
<1>5. u \in Users /\ u \notin users /\ u # None
  BY <1>4, RowsAreNone DEF FreeUsers
<1>6. tx'[r] = [tx[r] EXCEPT !.user = u]
  BY <1>1, <1>4, <1>5, WritesUser
<1>7. /\ tx'[r].user = u /\ tx'[r].verified = tx[r].verified /\ tx'[r].session = tx[r].session
      /\ tx'[r].token = tx[r].token /\ tx'[r].revoked = tx[r].revoked
      /\ tx'[r].identity = tx[r].identity
  BY <1>1, <1>6 DEF TypeOK, WriteSets
<1>8. pc'[r] = "createIdentity" /\ Op(r) = "signUpWithPassword"
  BY <1>1, GotoTypes DEF CreateUser, Pcs, InPlace
<1>9. InPlace(r)'
  BY <1>1, <1>2, <1>3, <1>7, <1>8 DEF InPlace
<1>10. HasWritten(r)'
  BY <1>1, <1>3, <1>5, <1>7, <1>8 DEF HasWritten, Resetting, Consumers
<1>11. StillHolds(r)'
  BY <1>1, <1>2, <1>3, <1>5, <1>7, <1>8 DEF StillHolds, Standing, Directories, Resetting
<1>12. OwnRows(r)
  BY <1>3, <1>4, <1>7 DEF OwnRows
<1> QED BY <1>1, <1>8, <1>9, <1>10, <1>11, <1>12, WritersAreApart DEF Sound

LEMMA SoundCreateIdentity ==
  ASSUME Coherent, TypeOK', NEW r \in Requests, CreateIdentity(r)
  PROVE  Sound(r)'
<1>1. TypeOK /\ Step(r) /\ InPlace(r) /\ HasWritten(r) /\ StillHolds(r)
      /\ pc[r] = "createIdentity"
  BY DEF Coherent, Step, LockingStatement, CreateIdentity
<1>2. CASE identities[Email(r)] # None
  BY <1>1, <1>2, AnswerTypes, SoundWhenDone DEF CreateIdentity, Replies
<1>3. CASE identities[Email(r)] = None
  <2>1. UNCHANGED Standing /\ UNCHANGED req
    BY DEF CreateIdentity, Standing, Mail, Context
  <2>2. Op(r)' = Op(r) /\ Token(r)' = Token(r) /\ Email(r)' = Email(r)
    BY <2>1 DEF Op, Token, Email
  <2>3. tx'[r] = [tx[r] EXCEPT !.identity = TRUE]
    BY <1>1, <1>3, WritesIdentity DEF CreateIdentity
  <2>4. /\ tx'[r].identity /\ tx'[r].user = tx[r].user /\ tx'[r].session = tx[r].session
        /\ tx'[r].token = tx[r].token /\ tx'[r].verified = tx[r].verified
        /\ tx'[r].revoked = tx[r].revoked
    BY <1>1, <2>3 DEF TypeOK, WriteSets
  <2>5. pc'[r] = "issue" /\ Op(r) = "signUpWithPassword"
    BY <1>1, <1>3, GotoTypes DEF CreateIdentity, Pcs, InPlace
  <2>6. InPlace(r)'
    BY <1>1, <2>1, <2>2, <2>4, <2>5 DEF InPlace
  <2>7. HasWritten(r)'
    BY <1>1, <2>2, <2>4, <2>5 DEF HasWritten, Resetting, Consumers
  <2>8. StillHolds(r)'
    BY <1>1, <1>3, <2>1, <2>2, <2>4, <2>5 DEF StillHolds, Standing, Directories, Resetting
  <2>9. OwnRows(r)
    <3>1. ~tx[r].token
      BY <1>1, <2>5 DEF HasWritten, Consumers
    <3> QED BY <2>2, <2>4, <3>1 DEF OwnRows, CreateIdentity
  <2> QED BY <1>1, <2>5, <2>6, <2>7, <2>8, <2>9, WritersAreApart DEF Sound
<1> QED BY <1>2, <1>3

LEMMA SoundIssue ==
  ASSUME Coherent, TypeOK', NEW r \in Requests, IssueSession(r)
  PROVE  Sound(r)'
<1>1. TypeOK /\ Step(r) /\ InPlace(r) /\ HasWritten(r) /\ StillHolds(r) /\ pc[r] = "issue"
  BY DEF Coherent, Step, Handle, IssueSession
<1>2. UNCHANGED Standing /\ UNCHANGED req
  BY DEF IssueSession, Standing, Mail, Context
<1>3. Op(r)' = Op(r) /\ Token(r)' = Token(r) /\ Email(r)' = Email(r)
  BY <1>2 DEF Op, Token, Email
<1>4. PICK s \in FreeSessions : Writes(r, "session", s)
  BY DEF IssueSession
<1>5. s \in Sessions /\ sessions[s] = None /\ s # None
  BY <1>4, RowsAreNone DEF FreeSessions
<1>6. tx'[r] = [tx[r] EXCEPT !.session = s]
  BY <1>1, <1>4, <1>5, WritesSession
<1>7. /\ tx'[r].session = s /\ tx'[r].verified = tx[r].verified /\ tx'[r].user = tx[r].user
      /\ tx'[r].token = tx[r].token /\ tx'[r].revoked = tx[r].revoked
      /\ tx'[r].identity = tx[r].identity
  BY <1>1, <1>6 DEF TypeOK, WriteSets
<1>8. pc'[r] = "commit" /\ Op(r) \in {"signUpWithPassword", "signInWithPassword"}
  BY <1>1, GotoTypes DEF IssueSession, Pcs, InPlace
<1>9. InPlace(r)'
  BY <1>1, <1>2, <1>3, <1>7, <1>8 DEF InPlace, Standing
<1>10. HasWritten(r)'
  BY <1>1, <1>3, <1>5, <1>7, <1>8 DEF HasWritten, Resetting, Consumers
<1>11. StillHolds(r)'
  BY <1>1, <1>2, <1>3, <1>5, <1>7, <1>8 DEF StillHolds, Standing, Directories, Resetting
<1>12. OwnRows(r)
  BY <1>3, <1>4, <1>7 DEF OwnRows
<1> QED BY <1>1, <1>8, <1>9, <1>10, <1>11, <1>12, WritersAreApart DEF Sound

\* The request that takes a step is as sound after it.
LEMMA SoundStep ==
  ASSUME Coherent, TypeOK', NEW r \in Requests, Step(r)
  PROVE  Sound(r)'
<1>1. TypeOK
  BY DEF Coherent
<1>2. CASE RejectInput(r) \/ Deliver(r) \/ CreateTokenFails(r) \/ DeliverFails(r)
           \/ CommitFails(r) \/ Commit(r) \/ Fail(r) \/ Leave(r)
  <2>1. pc'[r] \in {"idle", "replied"}
    BY <1>1, <1>2 DEF RejectInput, Deliver, CreateTokenFails, DeliverFails, CommitFails,
       Commit, Fail, Leave, Answer, TypeOK
  <2> QED BY <2>1, SoundWhenDone
<1> QED
  BY <1>2, SoundArrival, SoundFind, SoundChecks, SoundGenerate, SoundCreateToken,
     SoundConsume, SoundUpdate, SoundRevoke, SoundMark, SoundCreateUser,
     SoundCreateIdentity, SoundIssue DEF Step, Handle, LockingStatement

-----------------------------------------------------------------------------
(* The tables stay in agreement *)

LEMMA TablesOnInsert ==
  ASSUME Coherent, NEW r \in Requests, Inserts(r)
  PROVE  TablesAgree'
<1>1. TypeOK /\ TablesAgree /\ InPlace(r) /\ StillHolds(r)
  BY DEF Coherent
<1>2. UNCHANGED <<Directories, verified, drawn, mailed, uses>>
  BY DEF Inserts, CreateToken, CreateTokenFails
<1>3. /\ Token(r) \in Tokens /\ tokens[Token(r)] = None /\ Token(r) \in drawn
      /\ Email(r) \in Emails
  BY <1>1 DEF Inserts, InPlace, StillHolds
<1> DEFINE new == [kind |-> IF Op(r) = "requestPasswordReset" THEN "reset" ELSE "verify",
                   email |-> Email(r), expires |-> at[r] + TokenTtl, consumed |-> FALSE]
<1>4. tokens' = [tokens EXCEPT ![Token(r)] = new]
  BY DEF Inserts, InsertToken
<1>5. \A t \in Tokens : t # Token(r) => tokens'[t] = tokens[t]
  BY <1>1, <1>4 DEF TypeOK
<1>6. tokens'[Token(r)] # None /\ ~tokens'[Token(r)].consumed
  <2>1. at[r] + TokenTtl \in Nat
    BY <1>1, BoundsAssumption DEF TypeOK
  <2>2. new \in TokenRow
    BY <1>3, <2>1 DEF TokenRow
  <2> QED BY <1>1, <1>3, <1>4, <2>2, RowsAreNone DEF TypeOK
<1>7. NoOrphanUsers'
  BY <1>1, <1>2 DEF TablesAgree, NoOrphanUsers, Directories
<1>8. VerifiedByToken'
  <2>1. ASSUME NEW e \in verified
        PROVE  \E t \in mailed : tokens'[t].kind = "verify" /\ tokens'[t].email = e
                                 /\ tokens'[t].consumed
    <3>1. PICK t \in mailed : tokens[t].kind = "verify" /\ tokens[t].email = e
                              /\ tokens[t].consumed
      BY <1>1 DEF TablesAgree, VerifiedByToken
    <3>2. t \in Tokens /\ tokens[t] # None
      BY <1>1 DEF TablesAgree, TypeOK
    <3> QED BY <1>3, <1>5, <3>1, <3>2
  <2> QED BY <1>2, <2>1 DEF VerifiedByToken
<1>9. \A t \in Tokens : Consumed(t)' <=> Consumed(t)
  BY <1>3, <1>5, <1>6 DEF Consumed
<1>10. \A t \in mailed' : tokens'[t] # None
  BY <1>1, <1>2, <1>5, <1>6 DEF TablesAgree, TypeOK
<1>11. \A t \in Tokens : /\ tokens'[t] # None => t \in drawn'
                         /\ uses'[t] = IF tokens'[t] # None /\ tokens'[t].consumed THEN 1 ELSE 0
  BY <1>1, <1>2, <1>3, <1>5, <1>9 DEF TablesAgree, Consumed
<1> QED BY <1>1, <1>2, <1>7, <1>8, <1>10, <1>11 DEF TablesAgree, Directories, Consumed

LEMMA TablesOnPublish ==
  ASSUME Coherent, NEW r \in Requests, Publishes(r)
  PROVE  TablesAgree'
<1>1. /\ TypeOK /\ TablesAgree /\ InPlace(r) /\ HasWritten(r) /\ StillHolds(r)
      /\ pc[r] = "commit" /\ Publish(r) /\ Grows(r) /\ Email(r) \in Emails
  BY GrowsOnPublish DEF Coherent, Publishes, InPlace
<1>2. UNCHANGED <<drawn, mailed>>
  BY DEF Publishes, Commit, CommitFails
<1>3. tx[r].user # None =>
         /\ tx[r].identity /\ Op(r) = "signUpWithPassword" /\ tx[r].user \notin users
         /\ tx[r].user \in Users /\ tx[r].user \in users'
         /\ identities[Email(r)] = None
         /\ identities'[Email(r)] # None /\ identities'[Email(r)].user = tx[r].user
  <2>1. HAVE tx[r].user # None
  <2>2. /\ tx[r].identity /\ Op(r) = "signUpWithPassword" /\ tx[r].user \notin users
        /\ identities[Email(r)] = None
    BY <1>1, <2>1 DEF HasWritten, StillHolds
  <2>3. tx[r].user \in Users /\ req[r].password \in Passwords
    BY <1>1, <2>1, <2>2 DEF TypeOK, WriteSets, InPlace
  <2>4. identities'[Email(r)] = [user |-> tx[r].user, password |-> req[r].password]
    BY <1>1, <2>2 DEF Publish, WrittenIdentity, TypeOK
  <2>5. identities'[Email(r)] \in IdentityRow
    BY <2>3, <2>4 DEF IdentityRow
  <2> QED BY <1>1, <2>1, <2>2, <2>3, <2>4, <2>5, RowsAreNone DEF Publish
<1>4. \A e \in Emails : identities[e] = None /\ identities'[e] # None =>
                           e = Email(r) /\ tx[r].user # None
  <2>1. ASSUME NEW e \in Emails, identities[e] = None, identities'[e] # None
        PROVE  e = Email(r) /\ tx[r].user # None
    <3>1. tx[r].identity /\ e = Email(r)
      BY <1>1, <2>1 DEF Grows
    <3>2. Op(r) = "signUpWithPassword"
      BY <1>1, <2>1, <3>1 DEF StillHolds
    <3> QED BY <1>1, <3>1, <3>2 DEF HasWritten
  <2> QED BY <2>1
<1>5. NoOrphanUsers'
  <2>1. ASSUME NEW u \in users' PROVE \E e \in Emails : identities'[e] # None
                                                        /\ identities'[e].user = u
    <3>1. CASE u \in users
      <4>1. PICK e \in Emails : identities[e] # None /\ identities[e].user = u
        BY <1>1, <3>1 DEF TablesAgree, NoOrphanUsers
      <4> QED BY <1>1, <4>1 DEF Grows
    <3>2. CASE u \notin users
      BY <1>1, <1>3, <2>1, <3>2 DEF Grows
    <3> QED BY <3>1, <3>2
  <2> QED BY <2>1 DEF NoOrphanUsers
<1>6. \A t \in Tokens :
         /\ tx[r].token /\ t = Token(r) => /\ Consumed(t)' /\ ~Consumed(t)
                                           /\ uses'[t] = uses[t] + 1
         /\ ~(tx[r].token /\ t = Token(r)) => tokens'[t] = tokens[t] /\ uses'[t] = uses[t]
  <2>1. CASE tx[r].token
    <3>1. Token(r) \in Tokens /\ tokens[Token(r)] \in TokenRow /\ ~tokens[Token(r)].consumed
      BY <1>1, <2>1 DEF InPlace, StillHolds, TypeOK
    <3>2. /\ tokens'[Token(r)] = [tokens[Token(r)] EXCEPT !.consumed = TRUE]
          /\ uses'[Token(r)] = uses[Token(r)] + 1
      BY <1>1, <2>1, <3>1 DEF Publish, TypeOK
    <3>3. tokens'[Token(r)].consumed /\ tokens'[Token(r)] # None
      BY <1>1, <3>1, <3>2, ZenonT(60) DEF TokenRow, Grows
    <3>4. \A t \in Tokens : t # Token(r) => tokens'[t] = tokens[t] /\ uses'[t] = uses[t]
      BY <1>1, <2>1 DEF Publish, TypeOK
    <3> QED BY <2>1, <3>1, <3>2, <3>3, <3>4 DEF Consumed
  <2>2. CASE ~tx[r].token
    BY <1>1, <2>2 DEF Publish
  <2> QED BY <2>1, <2>2
<1>7. VerifiedByToken'
  <2>1. ASSUME NEW e \in verified'
        PROVE  \E t \in mailed : tokens'[t].kind = "verify" /\ tokens'[t].email = e
                                 /\ tokens'[t].consumed
    <3>1. CASE e \in verified
      <4>1. PICK t \in mailed : tokens[t].kind = "verify" /\ tokens[t].email = e
                                /\ tokens[t].consumed
        BY <1>1, <3>1 DEF TablesAgree, VerifiedByToken
      <4>2. t \in Tokens /\ tokens[t] # None
        BY <1>1 DEF TablesAgree, TypeOK
      <4> QED BY <1>1, <1>6, <4>1, <4>2 DEF Grows, Consumed
    <3>2. CASE e \notin verified
      <4>1. tx[r].verified /\ e = Email(r)
        BY <1>1, <2>1, <3>2 DEF Publish
      <4>2. Op(r) = "verifyEmail" /\ tx[r].token
        BY <1>1, <4>1 DEF HasWritten, Consumers
      <4>3. /\ Token(r) \in mailed /\ Token(r) \in Tokens /\ tokens[Token(r)] # None
            /\ tokens[Token(r)].email = e /\ tokens[Token(r)].kind = "verify"
        BY <1>1, <4>1, <4>2 DEF StillHolds, InPlace
      <4> QED BY <1>1, <1>6, <4>2, <4>3 DEF Grows, Consumed
    <3> QED BY <3>1, <3>2
  <2> QED BY <1>2, <2>1 DEF VerifiedByToken
<1>8. \A e \in Emails : identities'[e] # None => identities'[e].user \in users'
  BY <1>1, <1>3, <1>4 DEF TablesAgree, Grows
<1>9. ASSUME NEW e \in Emails, NEW f \in Emails, e # f,
             identities'[e] # None, identities'[f] # None
      PROVE  identities'[e].user # identities'[f].user
  <2>1. CASE identities[e] # None /\ identities[f] # None
    BY <1>1, <1>9, <2>1 DEF TablesAgree, Grows
  <2>2. CASE identities[e] = None
    <3>1. e = Email(r) /\ identities'[e].user \notin users
      BY <1>3, <1>4, <1>9, <2>2
    <3>2. identities'[f] = identities[f] /\ identities[f].user \in users
      BY <1>1, <1>9, <3>1 DEF Grows, TablesAgree
    <3> QED BY <3>1, <3>2
  <2>3. CASE identities[f] = None
    <3>1. f = Email(r) /\ identities'[f].user \notin users
      BY <1>3, <1>4, <1>9, <2>3
    <3>2. identities'[e] = identities[e] /\ identities[e].user \in users
      BY <1>1, <1>9, <3>1 DEF Grows, TablesAgree
    <3> QED BY <3>1, <3>2
  <2> QED BY <2>1, <2>2, <2>3
<1>10. \A t \in mailed' : tokens'[t] # None
  BY <1>1, <1>2 DEF TablesAgree, TypeOK, Grows
<1>11. \A t \in Tokens : /\ tokens'[t] # None => t \in drawn'
                         /\ uses'[t] = IF tokens'[t] # None /\ tokens'[t].consumed THEN 1 ELSE 0
  <2>1. ASSUME NEW t \in Tokens
        PROVE  /\ tokens[t] # None => t \in drawn
               /\ uses[t] = IF Consumed(t) THEN 1 ELSE 0
               /\ Token(r) \in mailed \/ ~tx[r].token
    BY <1>1 DEF TablesAgree, StillHolds
  <2>2. ASSUME NEW t \in Tokens, tx[r].token, t = Token(r)
        PROVE  t \in drawn' /\ uses'[t] = 1 /\ tokens'[t] # None /\ tokens'[t].consumed
    <3>1. tokens[t] # None
      BY <1>1, <2>2 DEF StillHolds
    <3> QED BY <1>2, <1>6, <2>1, <2>2, <3>1 DEF Consumed
  <2>3. ASSUME NEW t \in Tokens, ~(tx[r].token /\ t = Token(r))
        PROVE  /\ tokens'[t] # None => t \in drawn'
               /\ uses'[t] = IF tokens'[t] # None /\ tokens'[t].consumed THEN 1 ELSE 0
    BY <1>2, <1>6, <2>1, <2>3 DEF Consumed
  <2> QED BY <2>2, <2>3
<1> QED BY <1>5, <1>7, <1>8, <1>9, <1>10, <1>11 DEF TablesAgree, Consumed

LEMMA TablesOnStep ==
  ASSUME Coherent, NEW r \in Requests, Step(r)
  PROVE  TablesAgree'
<1>1. TypeOK /\ TablesAgree /\ StillHolds(r) /\ InPlace(r) /\ Grows(r)
  BY GrowsOnStep DEF Coherent
<1>2. CASE UNCHANGED Tables /\ (Quiet(r) \/ CreateTokenFails(r) \/ CommitFails(r))
  <2>1. \A t \in mailed' : tokens[t] # None
    <3>1. CASE Deliver(r) \/ DeliverFails(r)
      BY <1>1, <3>1 DEF Deliver, DeliverFails, StillHolds, TablesAgree
    <3>2. CASE ~(Deliver(r) \/ DeliverFails(r))
      <4>1. mailed' = mailed
        BY <1>1, <1>2, <3>2, ArrivalsAreWellFormed DEF Quiet, LockingStatement, Mail,
           RejectInput, Arrive, FindIdentity, CheckPassword, IsVerified, GenerateToken,
           RevokeAll, CreateUser, IssueSession, Consume, UpdatePassword, MarkVerified,
           CreateIdentity, CreateTokenFails, CommitFails, Fail, Leave
      <4> QED BY <1>1, <4>1 DEF TablesAgree
    <3> QED BY <3>1, <3>2
  <2>2. VerifiedByToken'
    BY <1>1, <1>2 DEF TablesAgree, VerifiedByToken, Tables, Grows
  <2>3. NoOrphanUsers'
    BY <1>1, <1>2 DEF TablesAgree, NoOrphanUsers, Tables, Directories
  <2> QED BY <1>1, <1>2, <2>1, <2>2, <2>3 DEF TablesAgree, Consumed, Tables, Directories, Grows
<1> QED BY <1>2, StepKinds, TablesOnInsert, TablesOnPublish, <1>1

-----------------------------------------------------------------------------
(* The invariant *)

LEMMA CoherentInit == Init => Coherent
<1> SUFFICES ASSUME Init PROVE Coherent
  OBVIOUS
<1>1. TypeOK
  BY TypeInit
<1>2. TablesAgree
  BY DEF Init, TablesAgree, NoOrphanUsers, VerifiedByToken, Consumed
<1>3. ASSUME NEW r \in Requests PROVE EmptyHanded(r) /\ pc[r] = "idle" /\ req[r] = NoRequest
  BY DEF Init, EmptyHanded, NoWrites
<1>4. ASSUME NEW r \in Requests PROVE InPlace(r) /\ HasWritten(r) /\ StillHolds(r)
  <2>1. arrival[r] = {} /\ None \notin users
    BY DEF Init
  <2> QED BY <1>3, <2>1 DEF InPlace, HasWritten, StillHolds, EmptyHanded, NoRequest, Op,
             Resetting
<1>5. \A r, q \in Requests : r # q => Apart(r, q)
  BY <1>3 DEF Apart, EmptyHanded
<1> QED BY <1>1, <1>2, <1>4, <1>5 DEF Coherent

LEMMA CoherentStep ==
  ASSUME Coherent, [Next]_vars
  PROVE  Coherent'
<1>1. TypeOK'
  BY TypeStep
<1>2. ASSUME NEW r \in Requests, Step(r) PROVE Coherent'
  <2>1. TypeOK
    BY DEF Coherent
  <2>2. Sound(r)'
    BY <1>1, <1>2, SoundStep
  <2>3. \A q \in Requests \ {r} : InPlace(q)' /\ HasWritten(q)' /\ StillHolds(q)'
    BY <1>2, OthersStand
  <2>4. \A q \in Requests : InPlace(q)' /\ HasWritten(q)' /\ StillHolds(q)'
    BY <2>2, <2>3 DEF Sound
  <2>5. ASSUME NEW p \in Requests, NEW q \in Requests, p # q PROVE Apart(p, q)'
    <3>1. CASE p = r \/ q = r
      BY <2>2, <2>5, <3>1 DEF Sound
    <3>2. CASE p # r /\ q # r
      <4>1. SameRequest(p) /\ SameRequest(q)
        BY <1>2, <2>1, <3>2, OthersKeepTheirs
      <4>2. Apart(p, q)
        BY <2>5 DEF Coherent
      <4> QED BY <4>1, <4>2 DEF Apart, SameRequest, Email, Token
    <3> QED BY <3>1, <3>2
  <2>6. TablesAgree'
    BY <1>2, TablesOnStep
  <2> QED BY <1>1, <2>4, <2>5, <2>6 DEF Coherent
<1>3. CASE Tick \/ UNCHANGED vars
  <2>1. UNCHANGED <<users, identities, sessions, verified, tokens, drawn, mailed, uses, pc,
                    req, row, arrival, tx>>
    BY <1>3 DEF Tick, vars, Directories, Mail, Context
  <2>2. TablesAgree'
    BY <2>1 DEF Coherent, TablesAgree, NoOrphanUsers, VerifiedByToken, Consumed
  <2>3. ASSUME NEW r \in Requests PROVE InPlace(r)' /\ HasWritten(r)' /\ StillHolds(r)'
    BY <2>1 DEF Coherent, InPlace, HasWritten, StillHolds, Op, Email, Token, Resetting
  <2>4. \A p, q \in Requests : p # q => Apart(p, q)'
    BY <2>1 DEF Coherent, Apart, Email, Token
  <2> QED BY <1>1, <2>2, <2>3, <2>4 DEF Coherent
<1> QED BY <1>2, <1>3 DEF Next, Step

-----------------------------------------------------------------------------
(* What follows *)

\* The inductive invariant: the tables agree with each other and with every
\* request in flight, whatever its transaction has written by then.
THEOREM Coherence == Spec => []Coherent
<1>1. Init => Coherent
  BY CoherentInit
<1>2. Coherent /\ [Next]_vars => Coherent'
  BY CoherentStep
<1> QED BY <1>1, <1>2, PTL DEF Spec

\* A sign-up that loses the race for its address, or fails, leaves no user.
THEOREM NoOrphans == Spec => []NoOrphanUsers
<1>1. Coherent => NoOrphanUsers
  BY DEF Coherent, TablesAgree
<1> QED BY <1>1, Coherence, PTL

\* An address is verified only with a token that was mailed to it.
THEOREM VerifiedByOwnToken == Spec => []VerifiedByToken
<1>1. Coherent => VerifiedByToken
  BY DEF Coherent, TablesAgree
<1> QED BY <1>1, Coherence, PTL

\* A step that consumes a token is the publication of the transaction that
\* consumed it.
LEMMA ConsumptionIsPublished ==
  ASSUME Coherent, Next, NEW t \in Tokens,
         tokens[t] # None, ~tokens[t].consumed, tokens'[t].consumed
  PROVE  \E r \in Requests : Publishes(r) /\ tx[r].token /\ Token(r) = t
<1>1. TypeOK
  BY DEF Coherent
<1>2. PICK r \in Requests : Step(r)
  BY DEF Next, Step, Tick, Mail
<1>3. ~UNCHANGED Tables
  BY DEF Tables
<1>4. ~Inserts(r)
  <2>1. SUFFICES ASSUME Inserts(r) PROVE FALSE
    OBVIOUS
  <2>2. Token(r) \in Tokens /\ tokens[Token(r)] = None
    BY <2>1 DEF Coherent, Inserts, InPlace, StillHolds
  <2>3. tokens'[t] = tokens[t]
    BY <1>1, <2>1, <2>2 DEF Inserts, InsertToken, TypeOK
  <2> QED BY <2>3
<1>5. Publishes(r)
  BY <1>1, <1>2, <1>3, <1>4, StepKinds
<1>6. tx[r].token /\ Token(r) = t
  <2>1. SUFFICES ASSUME ~(tx[r].token /\ Token(r) = t) PROVE tokens'[t] = tokens[t]
    OBVIOUS
  <2> QED BY <1>1, <1>5, <2>1 DEF Publishes, Publish, TypeOK
<1> QED BY <1>5, <1>6

\* A lifetime is written once, by the INSERT.
LEMMA LifetimesStay ==
  ASSUME Coherent, NEW r \in Requests, Step(r), NEW t \in Tokens, tokens[t] # None
  PROVE  tokens'[t].expires = tokens[t].expires
<1>1. TypeOK /\ tokens[t] \in TokenRow
  BY DEF Coherent, TypeOK
<1>2. CASE UNCHANGED Tables
  BY <1>2 DEF Tables
<1>3. CASE Inserts(r)
  <2>1. tokens[Token(r)] = None
    BY <1>3 DEF Coherent, Inserts, StillHolds
  <2> QED BY <1>1, <1>3, <2>1 DEF Inserts, InsertToken, TypeOK
<1>4. CASE Publishes(r)
  <2>1. tokens'[t] \in {tokens[t], [tokens[t] EXCEPT !.consumed = TRUE]}
    BY <1>1, <1>4 DEF Publishes, Publish, TypeOK
  <2>2. [tokens[t] EXCEPT !.consumed = TRUE].expires = tokens[t].expires
    BY <1>1 DEF TokenRow
  <2> QED BY <2>1, <2>2
<1> QED BY <1>1, <1>2, <1>3, <1>4, StepKinds

\* A request whose transaction has come to hold a token has found it consumable, or
\* has gone on with it.
LEMMA HoldsToken ==
  ASSUME Coherent, Coherent', NEW q \in Requests, Step(q), tx'[q].token
  PROVE  /\ UNCHANGED <<at, tokens>> /\ Token(q)' = Token(q)
         /\ tx[q].token \/ Consumable(q)
<1>1. /\ TypeOK /\ TypeOK' /\ HasWritten(q) /\ InPlace(q)
      /\ Op(q)' \in Consumers /\ pc'[q] \in {"update", "revoke", "mark", "commit"}
  BY DEF Coherent, HasWritten
<1>2. CASE Consume(q)
  <2>1. Consumable(q)
    BY <1>1, <1>2, AnswerTypes DEF Consume, Replies
  <2>2. Token(q)' = Token(q)
    BY <1>1, <1>2, <2>1 DEF Consume, Token, TypeOK, Bodies
  <2> QED BY <1>2, <2>1, <2>2 DEF Consume, Mail
<1>3. CASE UpdatePassword(q) \/ RevokeAll(q) \/ MarkVerified(q)
  <2>1. tx[q].token
    BY <1>1, <1>3 DEF HasWritten, InPlace, UpdatePassword, RevokeAll, MarkVerified, Consumers
  <2> QED BY <1>3, <2>1
          DEF UpdatePassword, RevokeAll, MarkVerified, Mail, Context, Token
<1>4. CASE \/ RejectInput(q) \/ CheckPassword(q) \/ IsVerified(q) \/ GenerateToken(q)
           \/ CreateToken(q) \/ Deliver(q) \/ CreateUser(q) \/ Commit(q)
           \/ CreateTokenFails(q) \/ DeliverFails(q) \/ CommitFails(q) \/ Fail(q) \/ Leave(q)
  BY <1>1, <1>4
     DEF RejectInput, CheckPassword, IsVerified, GenerateToken, CreateToken, Deliver,
         CreateUser, Commit, CreateTokenFails, DeliverFails, CommitFails, Fail, Leave,
         Goto, Answer, TypeOK
<1>5. CASE CreateIdentity(q)
  BY <1>1, <1>5 DEF CreateIdentity, Goto, Answer, TypeOK
<1>6. CASE IssueSession(q)
  BY <1>1, <1>6 DEF IssueSession, InPlace, Context, Op, Consumers
<1>7. CASE FindIdentity(q)
  <2>1. Op(q)' = Op(q)
    BY <1>7 DEF FindIdentity, Op
  <2> QED BY <1>1, <1>7, <2>1 DEF FindIdentity, InPlace, TokenRequests, Consumers
<1>8. CASE Arrives(q)
  <2>1. PICK b : WellFormed(b) /\ Arrive(q, b)
    BY <1>1, <1>8, ArrivalsAreWellFormed
  <2>2. tx'[q] = tx[q] /\ pc[q] = "idle"
    BY <2>1 DEF Arrive
  <2> QED BY <1>1, <2>2 DEF HasWritten
<1> QED BY <1>2, <1>3, <1>4, <1>5, <1>6, <1>7, <1>8 DEF Step, Handle, LockingStatement

LEMMA ConsumedInTimeStep ==
  ASSUME Coherent, Coherent', ConsumedInTime, [Next]_vars
  PROVE  ConsumedInTime'
<1> SUFFICES ASSUME NEW q \in Requests, tx'[q].token
             PROVE  at'[q] < tokens'[Token(q)'].expires
  BY DEF ConsumedInTime, Token
<1>1. TypeOK
  BY DEF Coherent
<1>2. CASE Step(q)
  <2>1. tx[q].token => at[q] < tokens[Token(q)].expires
    BY DEF ConsumedInTime
  <2>2. Consumable(q) => at[q] < tokens[Token(q)].expires
    BY DEF Consumable
  <2> QED BY <1>2, <2>1, <2>2, HoldsToken
<1>3. ASSUME NEW r \in Requests \ {q}, Step(r)
      PROVE  at'[q] < tokens'[Token(q)'].expires
  <2>1. SameRequest(q)
    BY <1>1, <1>3, OthersKeepTheirs
  <2>2. tx[q].token /\ at'[q] = at[q] /\ Token(q)' = Token(q)
    BY <2>1 DEF SameRequest, Token
  <2>3. Token(q) \in Tokens /\ tokens[Token(q)] # None
    BY <2>2 DEF Coherent, InPlace, StillHolds
  <2>4. tokens'[Token(q)].expires = tokens[Token(q)].expires
    BY <1>3, <2>3, LifetimesStay
  <2> QED BY <2>2, <2>4 DEF ConsumedInTime
<1>4. CASE Tick \/ UNCHANGED vars
  BY <1>4 DEF Tick, vars, Mail, Context, Token, ConsumedInTime
<1> QED BY <1>2, <1>3, <1>4 DEF Next, Step

\* However many requests present a token at the same time, whatever fails, it takes
\* effect at most once, since consume's UPDATE waits for the row lock; and then by a
\* request that read the clock within the token's lifetime.
THEOREM TokensOnce == Spec => TokensTakeEffectOnce
<1> DEFINE Once(t) ==
      uses'[t] # uses[t] =>
         /\ uses[t] = 0 /\ uses'[t] = 1
         /\ \E r \in Requests :
               /\ pc[r] = "commit" /\ tx[r].token /\ Token(r) = t
               /\ at[r] < tokens[t].expires
<1>1. ASSUME Coherent, Coherent', ConsumedInTime, Next, NEW t \in Tokens PROVE Once(t)
  <2>1. HAVE uses'[t] # uses[t]
  <2>2. TypeOK
    BY <1>1 DEF Coherent
  <2>3. PICK r \in Requests : Step(r)
    BY <1>1, <2>1 DEF Next, Step, Tick, Mail
  <2>4. Publishes(r)
    <3>1. ~UNCHANGED Tables
      BY <2>1 DEF Tables
    <3>2. ~Inserts(r)
      BY <2>1 DEF Inserts, CreateToken, CreateTokenFails
    <3> QED BY <2>2, <2>3, <3>1, <3>2, StepKinds
  <2>5. tx[r].token /\ Token(r) = t
    BY <2>1, <2>2, <2>4 DEF Publishes, Publish, TypeOK
  <2>6. uses[t] = 0
    BY <1>1, <2>5 DEF Coherent, StillHolds, TablesAgree, Consumed
  <2>7. uses'[t] \in {0, 1}
    BY <1>1 DEF Coherent, TablesAgree
  <2>8. at[r] < tokens[t].expires
    BY <1>1, <2>5 DEF ConsumedInTime
  <2> QED BY <2>1, <2>4, <2>5, <2>6, <2>7, <2>8 DEF Publishes
<1>2. ASSUME UNCHANGED vars, NEW t \in Tokens PROVE Once(t)
  BY <1>2 DEF vars, Mail
<1>3. /\ Coherent /\ Coherent' /\ ConsumedInTime /\ [Next]_vars
      => [\A t \in Tokens : Once(t)]_vars
  BY <1>1, <1>2
<1>4. Init => ConsumedInTime
  BY DEF Init, NoWrites, ConsumedInTime
<1>5. Coherent /\ Coherent' /\ ConsumedInTime /\ [Next]_vars => ConsumedInTime'
  BY ConsumedInTimeStep
<1> QED BY <1>3, <1>4, <1>5, Coherence, PTL DEF Spec, TokensTakeEffectOnce

\* The step that consumes a reset token also sets the password of the address
\* it was mailed to and revokes every session the user had when the reset
\* arrived: completePasswordReset is one transaction.
THEOREM AtomicReset == Spec => ResetIsAtomic
<1> DEFINE Atomic(t) ==
      /\ tokens[t] # None /\ tokens[t].kind = "reset"
      /\ ~tokens[t].consumed /\ tokens'[t].consumed
      => \E r \in Requests :
            /\ Resetting(r) /\ Token(r) = t
            /\ identities'[tokens[t].email].password = req[r].password
            /\ \A s \in arrival[r] :
                  sessions[s].user = identities[tokens[t].email].user =>
                     sessions'[s].revoked
<1>1. ASSUME Coherent, Next, NEW t \in Tokens PROVE Atomic(t)
  <2>1. HAVE /\ tokens[t] # None /\ tokens[t].kind = "reset"
             /\ ~tokens[t].consumed /\ tokens'[t].consumed
  <2>2. PICK r \in Requests : Publishes(r) /\ tx[r].token /\ Token(r) = t
    BY <1>1, <2>1, ConsumptionIsPublished
  <2>3. /\ TypeOK /\ InPlace(r) /\ HasWritten(r) /\ StillHolds(r)
        /\ pc[r] = "commit" /\ Publish(r) /\ Email(r) \in Emails
    BY <1>1, <2>2 DEF Coherent, Publishes, InPlace
  <2>4. Op(r) = "resetPassword" /\ tokens[t].email = Email(r)
    BY <2>1, <2>2, <2>3 DEF HasWritten, StillHolds, Consumers
  <2>5. Resetting(r) /\ tx[r].identity
    BY <2>3, <2>4 DEF Resetting, HasWritten
  <2>6. identities'[Email(r)].password = req[r].password
    <3>1. identities'[Email(r)] = WrittenIdentity(r)
      BY <2>3, <2>5 DEF Publish, TypeOK
    <3> QED BY <3>1 DEF WrittenIdentity
  <2>7. ASSUME NEW s \in arrival[r], sessions[s].user = identities[Email(r)].user
        PROVE  sessions'[s].revoked
    <3>1. s \in Sessions /\ sessions[s] \in SessionRow
      BY <2>3 DEF StillHolds, TypeOK
    <3>2. s \in tx[r].revoked \/ sessions[s].revoked
      BY <2>3, <2>5, <2>7 DEF StillHolds
    <3>3. tx[r].session = None
      BY <2>3, <2>4 DEF HasWritten
    <3>4. sessions'[s] = IF s \in tx[r].revoked THEN [sessions[s] EXCEPT !.revoked = TRUE]
                         ELSE sessions[s]
      BY <2>3, <3>1, <3>3, RowsAreNone DEF Publish
    <3> QED BY <3>1, <3>2, <3>4 DEF SessionRow
  <2> QED BY <2>2, <2>4, <2>5, <2>6, <2>7
<1>2. ASSUME UNCHANGED vars, NEW t \in Tokens PROVE Atomic(t)
  BY <1>2 DEF vars, Mail
<1>3. Coherent /\ [Next]_vars => [\A t \in Tokens : Atomic(t)]_vars
  BY <1>1, <1>2
<1> QED BY <1>3, Coherence, PTL DEF Spec, ResetIsAtomic

\* A password changes only by the reset that consumes, in the same step, a
\* reset token mailed to that address.
THEOREM PasswordChanges == Spec => PasswordsChangeByToken
<1> DEFINE ByToken(e) ==
      identities[e] # None /\ identities'[e] # identities[e] =>
         \E t \in Tokens :
            /\ tokens[t] # None
            /\ tokens[t].kind = "reset" /\ tokens[t].email = e
            /\ ~tokens[t].consumed /\ tokens'[t].consumed
<1>1. ASSUME Coherent, Next, NEW e \in Emails PROVE ByToken(e)
  <2>1. HAVE identities[e] # None /\ identities'[e] # identities[e]
  <2>2. TypeOK
    BY <1>1 DEF Coherent
  <2>3. PICK r \in Requests : Step(r)
    BY <1>1, <2>1 DEF Next, Step, Tick, Directories
  <2>4. Publishes(r)
    <3>1. ~UNCHANGED Tables
      BY <2>1 DEF Tables, Directories
    <3>2. ~Inserts(r)
      BY <2>1 DEF Inserts, CreateToken, CreateTokenFails, Directories
    <3> QED BY <2>2, <2>3, <3>1, <3>2, StepKinds
  <2>5. InPlace(r) /\ HasWritten(r) /\ StillHolds(r) /\ Publish(r)
    BY <1>1, <2>4 DEF Coherent, Publishes
  <2>6. tx[r].identity /\ e = Email(r)
    BY <2>1, <2>2, <2>5 DEF Publish, TypeOK
  <2>7. Op(r) = "resetPassword" /\ tx[r].token
    BY <2>1, <2>4, <2>5, <2>6 DEF HasWritten, StillHolds, Consumers, Publishes
  <2>8. /\ Token(r) \in Tokens /\ tokens[Token(r)] \in TokenRow
        /\ tokens[Token(r)] # None /\ tokens[Token(r)].kind = "reset"
        /\ tokens[Token(r)].email = e /\ ~tokens[Token(r)].consumed
    BY <2>2, <2>5, <2>6, <2>7 DEF InPlace, StillHolds, TypeOK
  <2>9. tokens'[Token(r)] = [tokens[Token(r)] EXCEPT !.consumed = TRUE]
    BY <2>2, <2>5, <2>7, <2>8 DEF Publish, TypeOK
  <2>10. tokens'[Token(r)].consumed
    BY <2>8, <2>9 DEF TokenRow
  <2> QED BY <2>8, <2>10
<1>2. ASSUME UNCHANGED vars, NEW e \in Emails PROVE ByToken(e)
  BY <1>2 DEF vars, Directories
<1>3. Coherent /\ [Next]_vars => [\A e \in Emails : ByToken(e)]_vars
  BY <1>1, <1>2
<1> QED BY <1>3, Coherence, PTL DEF Spec, PasswordsChangeByToken

\* The identities table implements the abstract directory: an address is
\* linked to a new user, once and for good.
THEOREM DirectoryRefinement == Spec => ImplementsDirectory
<1>1. Init => Directory!Init
  BY DEF Init, Directory!Init, Owners
<1>2. ASSUME Coherent, NEW r \in Requests, Publishes(r)
      PROVE  [Directory!Next]_Owners
  <2>1. /\ TypeOK /\ TablesAgree /\ InPlace(r) /\ HasWritten(r) /\ StillHolds(r)
        /\ pc[r] = "commit" /\ Publish(r) /\ Grows(r) /\ Email(r) \in Emails
    BY <1>2, GrowsOnPublish DEF Coherent, Publishes, InPlace
  <2>2. \A e \in Emails : identities[e] # None => identities[e] \in IdentityRow
                                                  /\ identities[e].user # None
    BY <2>1, RowsAreNone DEF TypeOK, IdentityRow
  <2>3. CASE tx[r].identity /\ Op(r) = "signUpWithPassword"
    <3>1. /\ tx[r].user # None /\ tx[r].user \in Users /\ tx[r].user \notin users
          /\ req[r].password \in Passwords /\ identities[Email(r)] = None
      BY <2>1, <2>3 DEF HasWritten, TypeOK, WriteSets, InPlace, StillHolds
    <3>2. identities' = [identities EXCEPT ![Email(r)] =
                            [user |-> tx[r].user, password |-> req[r].password]]
      BY <2>1, <2>3 DEF Publish, WrittenIdentity
    <3>3. [user |-> tx[r].user, password |-> req[r].password] \in IdentityRow
      BY <3>1 DEF IdentityRow
    <3>4. Owners[Email(r)] = None
      BY <2>1, <3>1 DEF Owners
    <3>5. tx[r].user \notin Directory!Linked
      <4>1. \A e \in Emails : Owners[e] # tx[r].user
        BY <2>1, <3>1 DEF Owners, TablesAgree
      <4> QED BY <4>1 DEF Directory!Linked
    <3>6. Owners' = [Owners EXCEPT ![Email(r)] = tx[r].user]
      <4>1. \A e \in Emails : identities'[e] =
               IF e = Email(r) THEN [user |-> tx[r].user, password |-> req[r].password]
               ELSE identities[e]
        BY <2>1, <3>2 DEF TypeOK
      <4>2. identities'[Email(r)] # None /\ identities'[Email(r)].user = tx[r].user
        BY <2>1, <3>3, <4>1, RowsAreNone
      <4>3. \A e \in Emails :
               (IF identities'[e] = None THEN None ELSE identities'[e].user)
                  = IF e = Email(r) THEN tx[r].user ELSE Owners[e]
        BY <4>1, <4>2 DEF Owners
      <4> QED BY <4>3 DEF Owners
    <3> QED BY <2>1, <3>1, <3>4, <3>5, <3>6 DEF Directory!Next, Directory!Link
  <2>4. CASE ~(tx[r].identity /\ Op(r) = "signUpWithPassword")
    <3>1. \A e \in Emails : identities[e] = None => identities'[e] = None
      BY <2>1, <2>4 DEF Grows, StillHolds
    <3>2. \A e \in Emails :
             (IF identities'[e] = None THEN None ELSE identities'[e].user)
                = IF identities[e] = None THEN None ELSE identities[e].user
      BY <2>1, <3>1 DEF Grows
    <3>3. Owners' = Owners
      BY <3>2 DEF Owners
    <3> QED BY <3>3
  <2> QED BY <2>3, <2>4
<1>3. ASSUME UNCHANGED identities PROVE UNCHANGED Owners
  BY <1>3 DEF Owners
<1>4. ASSUME Coherent, [Next]_vars PROVE [Directory!Next]_Owners
  <2>1. TypeOK
    BY <1>4 DEF Coherent
  <2>2. ASSUME NEW r \in Requests, Step(r) PROVE UNCHANGED identities \/ Publishes(r)
    BY <2>1, <2>2, StepKinds DEF Tables, Directories, Inserts, CreateToken, CreateTokenFails
  <2>3. ASSUME NEW r \in Requests, Step(r) PROVE [Directory!Next]_Owners
    BY <1>2, <1>3, <1>4, <2>2, <2>3
  <2>4. Tick \/ UNCHANGED vars => UNCHANGED identities
    BY DEF Tick, vars, Directories
  <2> QED BY <1>3, <1>4, <2>3, <2>4 DEF Next, Step
<1>5. Coherent /\ [Next]_vars => [Directory!Next]_Owners
  BY <1>4
<1> QED BY <1>1, <1>5, Coherence, PTL DEF Spec, ImplementsDirectory, Directory!Spec

\* What the directory promises holds of the table: no user is reached through two
\* addresses.
THEOREM OneAddressPerUser == Spec => []Directory!Inv
<1>1. Coherent => Directory!Inv
  <2> SUFFICES ASSUME Coherent PROVE Directory!Inv
    OBVIOUS
  <2>1. \A e \in Emails : identities[e] # None => identities[e] \in IdentityRow
                                                  /\ identities[e].user # None
    BY RowsAreNone DEF Coherent, TypeOK, IdentityRow
  <2>2. Directory!TypeOK
    BY <2>1 DEF Directory!TypeOK, Owners, IdentityRow
  <2>3. Directory!OneKeyPerUser
    BY <2>1 DEF Directory!OneKeyPerUser, Owners, Coherent, TablesAgree
  <2> QED BY <2>2, <2>3 DEF Directory!Inv
<1> QED BY <1>1, Coherence, PTL

-----------------------------------------------------------------------------
(* Waiting *)

\* Reset, verification and sign-up never deadlock on the rows they lock.
THEOREM RequestsNeverDeadlock == Spec => []NoDeadlock
<1>1. ASSUME Coherent, NEW r \in Requests, NEW q \in Requests, WaitsFor(r, q)
      PROVE  pc[q] # "consume" /\ (pc[r] # "consume" => pc[q] \in {"issue", "revoke", "commit"})
  <2>1. HasWritten(q)
    BY <1>1 DEF Coherent
  <2> QED
    BY <1>1, <2>1 DEF WaitsFor, HasWritten
<1>2. ASSUME Coherent PROVE NoDeadlock
  <2> SUFFICES ASSUME NEW C \in SUBSET Requests, C # {},
                      \A r \in C : \E q \in C : WaitsFor(r, q)
               PROVE  FALSE
    BY DEF NoDeadlock
  <2>1. PICK r \in C : TRUE
    OBVIOUS
  <2>2. PICK q \in C : WaitsFor(r, q)
    BY <2>1
  <2>3. PICK p \in C : WaitsFor(q, p)
    BY <2>2
  <2>4. PICK o \in C : WaitsFor(p, o)
    BY <2>3
  <2>5. pc[q] # "consume" /\ pc[p] \in {"issue", "revoke", "commit"}
    BY <1>1, <1>2, <2>2, <2>3
  <2> QED
    BY <2>4, <2>5 DEF WaitsFor
<1> QED BY <1>2, Coherence, PTL

-----------------------------------------------------------------------------
(* The sessions *)

\* A set of sessions to revoke is written by the last statement of a reset.
LEMMA OnlyRevokeAllRevokes ==
  ASSUME Coherent, Coherent', NEW r \in Requests, Step(r), tx'[r].revoked # {}
  PROVE  RevokeAll(r)
<1>1. TypeOK /\ HasWritten(r)'
  BY DEF Coherent
<1>2. pc'[r] = "commit" /\ Op(r)' = "resetPassword"
  BY <1>1 DEF HasWritten, Resetting
<1> SUFFICES ASSUME ~RevokeAll(r) PROVE pc'[r] # "commit" \/ Op(r)' # "resetPassword"
  BY <1>2
<1> USE <1>1 DEF TypeOK
<1>3. CASE MarkVerified(r) \/ IssueSession(r)
  <2>1. InPlace(r) /\ Op(r)' = Op(r)
    BY <1>3 DEF Coherent, MarkVerified, IssueSession, Context, Op
  <2> QED
    BY <1>3, <2>1 DEF InPlace, MarkVerified, IssueSession
<1>4. CASE Arrives(r)
  <2>1. PICK b : WellFormed(b) /\ Arrive(r, b)
    BY <1>4, ArrivalsAreWellFormed
  <2>2. Entry(b.op) # "commit"
    BY <2>1 DEF WellFormed, Entry, PluginActions
  <2> QED
    BY <2>1, <2>2 DEF Arrive, Goto
<1>5. CASE FindIdentity(r)
  <2>1. Op(r) \in TokenRequests \cup {"signInWithPassword"}
    BY <1>5 DEF Coherent, FindIdentity, InPlace
  <2>2. pc'[r] \in {"replied", "check", "generate", "isVerified"}
    BY <1>5, <2>1 DEF FindIdentity, Goto, Answer, TokenRequests
  <2> QED
    BY <2>2
<1>6. CASE \/ RejectInput(r) \/ CheckPassword(r) \/ IsVerified(r) \/ GenerateToken(r)
           \/ CreateToken(r) \/ Deliver(r) \/ CreateUser(r) \/ Commit(r)
           \/ CreateTokenFails(r) \/ DeliverFails(r) \/ CommitFails(r) \/ Fail(r) \/ Leave(r)
  BY <1>6 DEF RejectInput, CheckPassword, IsVerified, GenerateToken, CreateToken, Deliver,
     CreateUser, Commit, CreateTokenFails, DeliverFails, CommitFails, Fail, Leave, Goto, Answer
<1>7. CASE Consume(r) \/ UpdatePassword(r) \/ CreateIdentity(r)
  BY <1>7 DEF Consume, UpdatePassword, CreateIdentity, Goto, Answer
<1> QED
  BY <1>3, <1>4, <1>5, <1>6, <1>7 DEF Step, Handle, LockingStatement

\* What a reset is about to revoke stays its user's while others go on.
LEMMA RevokesOwnStep ==
  ASSUME Coherent, Coherent', RevokesOwn, [Next]_vars
  PROVE  RevokesOwn'
<1> SUFFICES ASSUME NEW q \in Requests, NEW s \in tx'[q].revoked
             PROVE  sessions'[s].user = identities'[Email(q)'].user
  BY DEF RevokesOwn
<1>1. TypeOK
  BY DEF Coherent
<1>2. ASSUME Step(q) PROVE sessions'[s].user = identities'[Email(q)'].user
  <2>1. RevokeAll(q)
    BY <1>2, OnlyRevokeAllRevokes
  <2>2. UNCHANGED <<sessions, identities, req>>
    BY <2>1 DEF RevokeAll, Directories, Context
  <2>3. s \in Sessions /\ sessions[s].user = identities[Email(q)].user
    <3> DEFINE R == {x \in Sessions : /\ sessions[x] # None /\ ~sessions[x].revoked
                                      /\ sessions[x].user = identities[Email(q)].user}
    <3>1. Writes(q, "revoked", R)
      BY <2>1 DEF RevokeAll
    <3>2. tx'[q].revoked = R
      <4>1. R \in SUBSET Sessions /\ tx[q] \in WriteSets
        BY <1>1 DEF TypeOK
      <4> HIDE DEF R
      <4>2. tx'[q] = [tx[q] EXCEPT !.revoked = R]
        BY <1>1, <3>1, <4>1, WritesRevoked
      <4> QED
        BY <4>1, <4>2 DEF WriteSets
    <3> QED
      BY <3>2
  <2> QED
    BY <2>2, <2>3 DEF Email
<1>3. ASSUME NEW r \in Requests \ {q}, Step(r)
      PROVE  sessions'[s].user = identities'[Email(q)'].user
  <2>1. SameRequest(q) /\ Grows(r) /\ Apart(r, q)
    BY <1>1, <1>3, OthersKeepTheirs, GrowsOnStep DEF Coherent
  <2>2. s \in tx[q].revoked /\ Email(q)' = Email(q)
    BY <2>1 DEF SameRequest, Email
  <2>3. tx[q].identity /\ Email(q) \in Emails /\ s \in Sessions /\ sessions[s] # None
    <3>1. HasWritten(q) /\ InPlace(q) /\ StillHolds(q) /\ tx[q] \in WriteSets
      BY DEF Coherent, TypeOK
    <3>2. s \in Sessions
      BY <2>2, <3>1 DEF WriteSets
    <3>3. sessions[s] # None
      BY <2>2, <3>1 DEF StillHolds
    <3>4. Resetting(q)
      BY <2>2, <3>1 DEF HasWritten
    <3>5. tx[q].identity
      BY <3>1, <3>4 DEF HasWritten, Resetting
    <3>6. Email(q) \in Emails
      BY <3>1, <3>4 DEF InPlace, Resetting
    <3> QED
      BY <3>2, <3>3, <3>5, <3>6
  <2>4. ~(tx[r].identity /\ Email(q) = Email(r))
    BY <2>1, <2>3 DEF Apart
  <2>5. identities'[Email(q)] = identities[Email(q)]
    BY <2>1, <2>3, <2>4 DEF Grows
  <2>6. sessions'[s].user = sessions[s].user
    BY <2>1, <2>3 DEF Grows
  <2> QED
    BY <2>2, <2>5, <2>6 DEF RevokesOwn
<1>4. CASE Tick \/ UNCHANGED vars
  BY <1>4 DEF Tick, vars, Directories, Context, Email, RevokesOwn
<1> QED
  BY <1>2, <1>3, <1>4 DEF Next, Step

\* A reset never comes to hold another user's sessions for revocation.
THEOREM RevocationsAreOwn == Spec => []RevokesOwn
<1>1. Init => RevokesOwn
  BY DEF Init, NoWrites, RevokesOwn
<1>2. Coherent /\ Coherent' /\ RevokesOwn /\ [Next]_vars => RevokesOwn'
  BY RevokesOwnStep
<1> QED
  BY <1>1, <1>2, Coherence, PTL DEF Spec

\* A session changes when a transaction commits: a sign-up or a sign-in opens one, a
\* reset revokes some of its user, and no transaction does both.
LEMMA SessionsOnPublish ==
  ASSUME Coherent, RevokesOwn, NEW r \in Requests, Publishes(r)
  PROVE  \/ /\ tx[r].session \in Sessions /\ sessions[tx[r].session] = None
            /\ SessionUser(r) \in Users
            /\ sessions' = [sessions EXCEPT ![tx[r].session] =
                               [user |-> SessionUser(r), revoked |-> FALSE]]
         \/ /\ tx[r].revoked \in SUBSET Sessions
            /\ tx[r].revoked # {} => Resetting(r)
            /\ \A s \in tx[r].revoked :
                  sessions[s] # None /\ sessions[s].user = identities[Email(r)].user
            /\ sessions' = [s \in Sessions |->
                  IF s \in tx[r].revoked THEN [sessions[s] EXCEPT !.revoked = TRUE]
                                         ELSE sessions[s]]
<1>1. /\ TypeOK /\ InPlace(r) /\ HasWritten(r) /\ StillHolds(r)
      /\ pc[r] = "commit" /\ Publish(r)
  BY DEF Coherent, Publishes
<1>2. tx[r] \in WriteSets
  BY <1>1 DEF TypeOK
<1>3. CASE tx[r].session # None
  <2>1. /\ tx[r].session \in Sessions /\ sessions[tx[r].session] = None
        /\ tx[r].revoked = {}
    BY <1>1, <1>2, <1>3 DEF WriteSets, StillHolds, HasWritten, Resetting
  <2>2. SessionUser(r) \in Users
    BY <1>1, <1>2, <1>3, RowsAreNone
       DEF SessionUser, HasWritten, InPlace, WriteSets, IdentityRow, TypeOK, Consumers
  <2>3. sessions' = [sessions EXCEPT ![tx[r].session] =
                        [user |-> SessionUser(r), revoked |-> FALSE]]
    BY <1>1, <2>1 DEF Publish, TypeOK
  <2> QED
    BY <2>1, <2>2, <2>3
<1>4. CASE tx[r].session = None
  <2>1. sessions' = [s \in Sessions |->
                  IF s \in tx[r].revoked THEN [sessions[s] EXCEPT !.revoked = TRUE]
                                         ELSE sessions[s]]
    BY <1>1, <1>4, RowsAreNone DEF Publish
  <2> QED
    BY <1>1, <1>2, <2>1 DEF RevokesOwn, WriteSets, HasWritten, StillHolds
<1> QED
  BY <1>3, <1>4

\* Only the reset of its own user, with a token mailed to that user, revokes a session.
THEOREM OwnResetsRevoke == Spec => OnlyOwnResetsRevoke
<1> DEFINE Own(s) ==
      sessions[s] # None /\ ~sessions[s].revoked /\ sessions'[s].revoked =>
         \E t \in Tokens :
            /\ tokens[t] # None /\ tokens[t].kind = "reset"
            /\ ~tokens[t].consumed /\ tokens'[t].consumed
            /\ identities[tokens[t].email] # None
            /\ identities[tokens[t].email].user = sessions[s].user
<1>1. ASSUME Coherent, RevokesOwn, Next, NEW s \in Sessions PROVE Own(s)
  <2>1. HAVE sessions[s] # None /\ ~sessions[s].revoked /\ sessions'[s].revoked
  <2>2. TypeOK
    BY <1>1 DEF Coherent
  <2>3. PICK r \in Requests : Step(r)
    BY <1>1, <2>1 DEF Next, Step, Tick, Directories
  <2>4. Publishes(r)
    <3>1. ~UNCHANGED Tables
      BY <2>1 DEF Tables, Directories
    <3>2. ~Inserts(r)
      BY <2>1 DEF Inserts, CreateToken, CreateTokenFails, Directories
    <3> QED BY <2>2, <2>3, <3>1, <3>2, StepKinds
  <2>5. s \in tx[r].revoked /\ Resetting(r) /\ sessions[s].user = identities[Email(r)].user
    <3>1. s \in tx[r].revoked
      <4>1. ASSUME s \notin tx[r].revoked PROVE sessions'[s] = sessions[s]
        <5>1. CASE /\ tx[r].session \in Sessions /\ sessions[tx[r].session] = None
                   /\ sessions' = [sessions EXCEPT ![tx[r].session] =
                                      [user |-> SessionUser(r), revoked |-> FALSE]]
          BY <2>1, <2>2, <5>1 DEF TypeOK
        <5>2. CASE sessions' = [x \in Sessions |->
                       IF x \in tx[r].revoked THEN [sessions[x] EXCEPT !.revoked = TRUE]
                                              ELSE sessions[x]]
          BY <4>1, <5>2
        <5> QED
          BY <1>1, <2>4, <5>1, <5>2, SessionsOnPublish
      <4> QED
        BY <2>1, <4>1
    <3> QED
      BY <1>1, <3>1 DEF Coherent, HasWritten, RevokesOwn
  <2>6. InPlace(r) /\ HasWritten(r) /\ StillHolds(r) /\ Publish(r)
    BY <1>1, <2>4 DEF Coherent, Publishes
  <2>7. tx[r].token /\ tx[r].identity /\ Op(r) = "resetPassword"
    BY <2>5, <2>6 DEF HasWritten, Resetting, Consumers
  <2>8. /\ Token(r) \in Tokens /\ tokens[Token(r)] \in TokenRow
        /\ tokens[Token(r)] # None /\ tokens[Token(r)].kind = "reset"
        /\ tokens[Token(r)].email = Email(r) /\ ~tokens[Token(r)].consumed
        /\ identities[Email(r)] # None
    BY <2>2, <2>6, <2>7 DEF InPlace, StillHolds, TypeOK
  <2>9. tokens'[Token(r)] = [tokens[Token(r)] EXCEPT !.consumed = TRUE]
    BY <2>2, <2>6, <2>7, <2>8 DEF Publish, TypeOK
  <2>10. tokens'[Token(r)].consumed
    BY <2>8, <2>9 DEF TokenRow
  <2> QED BY <2>5, <2>8, <2>10
<1>2. ASSUME UNCHANGED vars, NEW s \in Sessions PROVE Own(s)
  BY <1>2 DEF vars, Directories
<1>3. Coherent /\ RevokesOwn /\ [Next]_vars => [\A s \in Sessions : Own(s)]_vars
  BY <1>1, <1>2
<1> QED BY <1>3, Coherence, RevocationsAreOwn, PTL DEF Spec, OnlyOwnResetsRevoke

\* A listed session has the fields of the row, and is not None.
LEMMA ListingOf ==
  ASSUME NEW u \in Users, NEW s \in Sessions, NEW b \in BOOLEAN
  PROVE  /\ [user |-> u, token |-> s, expires |-> 0, revoked |-> b] \in Registry!Session
         /\ [user |-> u, token |-> s, expires |-> 0, revoked |-> b] # None
<1>1. [user |-> u, token |-> s, expires |-> 0, revoked |-> b] \in ListedRow
  BY DEF ListedRow
<1> QED
  BY <1>1, NoneAssumption DEF ListedRow, Registry!Session

LEMMA RegistryRevokes ==
  ASSUME NEW l \in Registry!Session, NEW b \in BOOLEAN
  PROVE  [l EXCEPT !.revoked = b]
            = [user |-> l.user, token |-> l.token, expires |-> l.expires, revoked |-> b]
  BY DEF Registry!Session

LEMMA ListedOpen ==
  ASSUME TypeOK, NEW s \in Sessions
  PROVE  /\ Registry!IsOpen(s) <=> sessions[s] # None
         /\ sessions[s] # None =>
               /\ Listed[s].user = sessions[s].user /\ Listed[s].token = s
               /\ [Listed[s] EXCEPT !.revoked = TRUE]
                     = [user |-> sessions[s].user, token |-> s, expires |-> 0, revoked |-> TRUE]
<1>1. sessions[s] # None => sessions[s].user \in Users /\ sessions[s].revoked \in BOOLEAN
  BY DEF TypeOK, SessionRow
<1>2. CASE sessions[s] # None
  <2>1. Listed[s] = [user |-> sessions[s].user, token |-> s, expires |-> 0,
                     revoked |-> sessions[s].revoked]
    BY <1>2 DEF Listed
  <2>2. Listed[s] \in Registry!Session /\ Listed[s] # None
    BY <1>1, <1>2, <2>1, ListingOf
  <2>3. Listed[s].user = sessions[s].user /\ Listed[s].token = s /\ Listed[s].expires = 0
    BY <2>1
  <2> QED
    BY <1>2, <2>2, <2>3, RegistryRevokes DEF Registry!IsOpen
<1>3. CASE sessions[s] = None
  BY <1>3 DEF Listed, Registry!IsOpen
<1> QED
  BY <1>2, <1>3

\* A commit is a step of the registry or changes nothing in it.
LEMMA PublishRefines ==
  ASSUME Coherent, TypeOK', RevokesOwn, NEW r \in Requests, Publishes(r)
  PROVE  [Registry!Next]_(Registry!vars)
<1>1. TypeOK
  BY DEF Coherent
<1>2. CASE /\ tx[r].session \in Sessions /\ sessions[tx[r].session] = None
           /\ SessionUser(r) \in Users
           /\ sessions' = [sessions EXCEPT ![tx[r].session] =
                              [user |-> SessionUser(r), revoked |-> FALSE]]
  <2> DEFINE s == tx[r].session
             new == [user |-> SessionUser(r), token |-> s, expires |-> 0, revoked |-> FALSE]
             old == [user |-> SessionUser(r), revoked |-> FALSE]
  <2>1. s \in Sessions /\ new \in Registry!Session /\ new # None
    BY <1>2, ListingOf
  <2>2. old # None /\ old.user = SessionUser(r) /\ old.revoked = FALSE
    <3>1. old \in SessionRow
      BY <1>2 DEF SessionRow
    <3>2. old.user = SessionUser(r) /\ old.revoked = FALSE
      OBVIOUS
    <3> HIDE DEF old
    <3> QED
      BY <3>1, <3>2, RowsAreNone
  <2>3. \A q \in Sessions : sessions'[q] = IF q = s THEN old ELSE sessions[q]
    BY <1>1, <1>2 DEF TypeOK
  <2>4. Listed' = [Listed EXCEPT ![s] = new]
    <3>1. \A q \in Sessions :
             (IF sessions'[q] = None THEN None
              ELSE [user |-> sessions'[q].user, token |-> q, expires |-> 0,
                    revoked |-> sessions'[q].revoked])
                = IF q = s THEN new ELSE Listed[q]
      BY <2>2, <2>3 DEF Listed
    <3> QED
      BY <3>1 DEF Listed
  <2>5. ~Registry!IsOpen(s) /\ Registry!Unused(s)
    BY <1>1, <1>2, ListedOpen DEF Registry!Unused
  <2>6. Listed'[s] = new
    BY <2>1, <2>4 DEF Listed
  <2>7. new.token = s /\ ~new.revoked
    OBVIOUS
  <2> HIDE DEF new
  <2>8. Registry!Open(s)
    BY <2>1, <2>4, <2>5, <2>6, <2>7 DEF Registry!Open
  <2> QED
    BY <2>1, <2>8 DEF Registry!Next
<1>3. CASE /\ tx[r].revoked \in SUBSET Sessions
           /\ tx[r].revoked # {} => Resetting(r)
           /\ \A s \in tx[r].revoked :
                 sessions[s] # None /\ sessions[s].user = identities[Email(r)].user
           /\ sessions' = [s \in Sessions |->
                 IF s \in tx[r].revoked THEN [sessions[s] EXCEPT !.revoked = TRUE]
                                        ELSE sessions[s]]
  <2> DEFINE S == tx[r].revoked
             u == identities[Email(r)].user
  <2>1. \A s \in Sessions : s \in S =>
           /\ sessions'[s] # None /\ sessions'[s].user = sessions[s].user
           /\ sessions'[s].revoked
    <3>1. ASSUME NEW s \in Sessions, s \in S
          PROVE  /\ sessions'[s] # None /\ sessions'[s].user = sessions[s].user
                 /\ sessions'[s].revoked
      <4>1. sessions[s] \in SessionRow /\ sessions'[s] = [sessions[s] EXCEPT !.revoked = TRUE]
        BY <1>1, <1>3, <3>1 DEF TypeOK
      <4> QED
        BY <4>1, RowsAreNone DEF SessionRow
    <3> QED
      BY <3>1
  <2>2. \A s \in Sessions : s \notin S => sessions'[s] = sessions[s]
    BY <1>3
  <2>3. ASSUME NEW s \in Sessions, s \in S
        PROVE  /\ Registry!IsOpen(s) /\ Listed[s].user = u
               /\ [Listed[s] EXCEPT !.revoked = TRUE]
                     = [user |-> sessions[s].user, token |-> s, expires |-> 0, revoked |-> TRUE]
    <3>1. sessions[s] # None /\ sessions[s].user = u
      BY <1>3, <2>3
    <3> QED
      BY <1>1, <3>1, ListedOpen
  <2>4. Listed' = [s \in Sessions |-> IF s \in S THEN [Listed[s] EXCEPT !.revoked = TRUE]
                                                 ELSE Listed[s]]
    <3>1. ASSUME NEW s \in Sessions
          PROVE  (IF sessions'[s] = None THEN None
                  ELSE [user |-> sessions'[s].user, token |-> s, expires |-> 0,
                        revoked |-> sessions'[s].revoked])
                    = IF s \in S THEN [Listed[s] EXCEPT !.revoked = TRUE] ELSE Listed[s]
      <4>1. CASE s \in S
        <5>1. sessions'[s].revoked = TRUE
          BY <1>1, <2>1, <4>1 DEF TypeOK, SessionRow
        <5> QED
          BY <2>1, <2>3, <4>1, <5>1
      <4>2. CASE s \notin S
        BY <2>2, <4>2 DEF Listed
      <4> QED
        BY <4>1, <4>2
    <3> QED
      BY <3>1 DEF Listed
  <2>5. CASE S = {}
    BY <2>4, <2>5 DEF Listed, Registry!vars
  <2>6. CASE S # {}
    <3>1. u \in Users
      <4>1. PICK s \in S : TRUE
        BY <2>6
      <4>2. s \in Sessions /\ sessions[s] # None /\ sessions[s].user = u
        BY <1>3
      <4> QED
        BY <1>1, <4>2 DEF TypeOK, SessionRow
    <3>2. Registry!Revoke(S, u)
      BY <1>3, <2>3, <2>4 DEF Registry!Revoke
    <3> QED
      BY <1>3, <3>1, <3>2 DEF Registry!Next
  <2> QED
    BY <2>5, <2>6
<1> QED
  BY <1>2, <1>3, SessionsOnPublish

\* Sign-up, sign-in and reset treat the sessions table as the session component's
\* abstraction allows: they open sessions and revoke those of one user.
THEOREM RegistryRefinement == Spec => ImplementsRegistry
<1>1. Init => Registry!Init
  BY DEF Init, Registry!Init, Listed
<1>2. ASSUME UNCHANGED sessions PROVE UNCHANGED Registry!vars
  BY <1>2 DEF Registry!vars, Listed
<1>3. ASSUME Coherent, TypeOK', RevokesOwn, [Next]_vars
      PROVE  [Registry!Next]_(Registry!vars)
  <2>1. TypeOK
    BY <1>3 DEF Coherent
  <2>2. ASSUME NEW r \in Requests, Step(r) PROVE UNCHANGED sessions \/ Publishes(r)
    BY <2>1, <2>2, StepKinds DEF Tables, Directories, Inserts, CreateToken, CreateTokenFails
  <2>3. Tick \/ UNCHANGED vars => UNCHANGED sessions
    BY DEF Tick, vars, Directories
  <2> QED
    BY <1>2, <1>3, <2>2, <2>3, PublishRefines DEF Next, Step
<1>4. Coherent /\ Coherent' /\ RevokesOwn /\ [Next]_vars => [Registry!Next]_(Registry!vars)
  BY <1>3 DEF Coherent
<1> QED
  BY <1>1, <1>4, Coherence, RevocationsAreOwn, PTL
     DEF Spec, ImplementsRegistry, Registry!Spec

-----------------------------------------------------------------------------
(* Progress *)

LEMMA StepsLeftAt ==
  ASSUME NEW r \in Requests
  PROVE  /\ pc[r] = "find" => StepsLeft(r) = 5
         /\ pc[r] = "consume" => StepsLeft(r) = 4
         /\ pc[r] = "isVerified" => StepsLeft(r) = 4
         /\ pc[r] = "createUser" => StepsLeft(r) = 4
         /\ pc[r] = "createIdentity" => StepsLeft(r) = 3
         /\ pc[r] = "generate" => StepsLeft(r) = 3
         /\ pc[r] = "check" => StepsLeft(r) = 3
         /\ pc[r] = "update" => StepsLeft(r) = 3
         /\ pc[r] = "create" => StepsLeft(r) = 2
         /\ pc[r] = "mark" => StepsLeft(r) = 2
         /\ pc[r] = "issue" => StepsLeft(r) = 2
         /\ pc[r] = "revoke" => StepsLeft(r) = 2
         /\ pc[r] = "deliver" => StepsLeft(r) = 1
         /\ pc[r] = "commit" => StepsLeft(r) = 1
         /\ pc[r] \in {"idle", "replied"} => StepsLeft(r) = 0
  BY DEF StepsLeft

LEMMA StepsLeftThen ==
  ASSUME NEW r \in Requests
  PROVE  /\ pc'[r] = "find" => StepsLeft(r)' = 5
         /\ pc'[r] = "consume" => StepsLeft(r)' = 4
         /\ pc'[r] = "isVerified" => StepsLeft(r)' = 4
         /\ pc'[r] = "createUser" => StepsLeft(r)' = 4
         /\ pc'[r] = "createIdentity" => StepsLeft(r)' = 3
         /\ pc'[r] = "generate" => StepsLeft(r)' = 3
         /\ pc'[r] = "check" => StepsLeft(r)' = 3
         /\ pc'[r] = "update" => StepsLeft(r)' = 3
         /\ pc'[r] = "create" => StepsLeft(r)' = 2
         /\ pc'[r] = "mark" => StepsLeft(r)' = 2
         /\ pc'[r] = "issue" => StepsLeft(r)' = 2
         /\ pc'[r] = "revoke" => StepsLeft(r)' = 2
         /\ pc'[r] = "deliver" => StepsLeft(r)' = 1
         /\ pc'[r] = "commit" => StepsLeft(r)' = 1
         /\ pc'[r] \in {"idle", "replied"} => StepsLeft(r)' = 0
  BY DEF StepsLeft

LEMMA StepAdvances ==
  ASSUME Coherent, NEW r \in Requests, Step(r), StepsLeft(r) > 0
  PROVE  StepsLeft(r)' \in 0 .. (StepsLeft(r) - 1)
<1> DEFINE Nearer == StepsLeft(r)' \in 0 .. (StepsLeft(r) - 1)
<1>1. TypeOK /\ InPlace(r)
  BY DEF Coherent
<1>2. pc[r] \in Pcs \ {"idle", "replied"}
  BY <1>1, StepsLeftAt DEF TypeOK
<1>3. StepsLeft(r) \in 1 .. 5
  BY <1>2, StepsLeftAt DEF Pcs
<1>4. ASSUME pc'[r] \in {"idle", "replied"} PROVE Nearer
  BY <1>3, <1>4, StepsLeftThen
<1>5. CASE FindIdentity(r)
  <2>1. Op(r) \in TokenRequests \cup {"signInWithPassword"}
    BY <1>1, <1>5 DEF FindIdentity, InPlace
  <2>2. pc[r] = "find" /\ pc'[r] \in {"replied", "check", "generate", "isVerified"}
    BY <1>1, <1>5, <2>1 DEF FindIdentity, Goto, Answer, TokenRequests, TypeOK
  <2> QED BY <2>2, <1>4, StepsLeftAt, StepsLeftThen
<1>6. CASE CheckPassword(r) \/ IsVerified(r)
  <2>1. \/ pc[r] = "check" /\ pc'[r] \in {"issue", "replied"}
        \/ pc[r] = "isVerified" /\ pc'[r] \in {"generate", "replied"}
    BY <1>1, <1>6 DEF CheckPassword, IsVerified, Goto, Answer, TypeOK
  <2> QED BY <2>1, <1>4, StepsLeftAt, StepsLeftThen
<1>7. CASE GenerateToken(r) \/ CreateToken(r)
  <2>1. \/ pc[r] = "generate" /\ pc'[r] = "create"
        \/ pc[r] = "create" /\ pc'[r] = "deliver"
    BY <1>1, <1>7 DEF GenerateToken, CreateToken, Goto, TypeOK
  <2> QED BY <2>1, StepsLeftAt, StepsLeftThen
<1>8. CASE Consume(r)
  <2>1. pc[r] = "consume" /\ pc'[r] \in {"update", "mark", "replied"}
    BY <1>1, <1>8 DEF Consume, Goto, Answer, TypeOK
  <2> QED BY <2>1, <1>4, StepsLeftAt, StepsLeftThen
<1>9. CASE UpdatePassword(r) \/ MarkVerified(r)
  <2>1. \/ pc[r] = "update" /\ pc'[r] \in {"revoke", "replied"}
        \/ pc[r] = "mark" /\ pc'[r] = "commit"
    BY <1>1, <1>9 DEF UpdatePassword, MarkVerified, Goto, Answer, TypeOK
  <2> QED BY <2>1, <1>4, StepsLeftAt, StepsLeftThen
<1>10. CASE CreateUser(r) \/ CreateIdentity(r)
  <2>1. \/ pc[r] = "createUser" /\ pc'[r] = "createIdentity"
        \/ pc[r] = "createIdentity" /\ pc'[r] \in {"issue", "replied"}
    <3>1. CASE CreateUser(r)
      BY <1>1, <3>1 DEF CreateUser, Goto, TypeOK
    <3>2. CASE CreateIdentity(r)
      <4>1. pc[r] = "createIdentity" /\ (Goto(r, "issue") \/ Answer(r, "denied"))
        BY <3>2 DEF CreateIdentity
      <4> QED BY <1>1, <4>1 DEF Goto, Answer, TypeOK
    <3> QED BY <1>10, <3>1, <3>2
  <2> QED BY <2>1, <1>4, StepsLeftAt, StepsLeftThen
<1>11. CASE RevokeAll(r) \/ IssueSession(r)
  <2>1. pc[r] \in {"revoke", "issue"} /\ pc'[r] = "commit"
    BY <1>1, <1>11 DEF RevokeAll, IssueSession, Goto, TypeOK
  <2> QED BY <2>1, StepsLeftAt, StepsLeftThen
<1>12. CASE \/ Deliver(r) \/ Commit(r) \/ CreateTokenFails(r) \/ DeliverFails(r)
            \/ CommitFails(r) \/ Fail(r) \/ Leave(r)
  <2>1. pc'[r] \in {"idle", "replied"}
    BY <1>1, <1>12 DEF Deliver, Commit, CreateTokenFails, DeliverFails, CommitFails, Fail,
       Leave, Answer, TypeOK
  <2> QED BY <2>1, <1>4
<1>13. ~(RejectInput(r) \/ Arrives(r))
  <2>1. pc[r] # "idle"
    BY <1>2
  <2>2. ~RejectInput(r)
    BY <2>1 DEF RejectInput
  <2>3. ~Arrives(r)
    BY <1>1, <2>1, ArrivalsAreWellFormed DEF Arrive
  <2> QED BY <2>2, <2>3
<1> QED
  BY <1>5, <1>6, <1>7, <1>8, <1>9, <1>10, <1>11, <1>12, <1>13
     DEF Step, Handle, LockingStatement

\* Each of the six actions goes from its arrival to its answer without going back.
THEOREM RequestsGoOn == Spec => RequestsAdvance
<1>1. ASSUME Coherent, [Next]_vars, NEW r \in Requests, StepsLeft(r) > 0
      PROVE  pc'[r] = pc[r] \/ StepsLeft(r)' \in 0 .. (StepsLeft(r) - 1)
  <2>1. CASE Step(r)
    BY <1>1, <2>1, StepAdvances
  <2>2. ASSUME NEW q \in Requests, q # r, Step(q) PROVE pc'[r] = pc[r]
    BY <1>1, <2>2, OthersKeepTheirs DEF Coherent, SameRequest
  <2>3. Tick \/ UNCHANGED vars => pc'[r] = pc[r]
    BY DEF Tick, vars
  <2> QED BY <1>1, <2>1, <2>2, <2>3 DEF Next, Step
<1>2. Coherent /\ [Next]_vars =>
         [\A r \in Requests : StepsLeft(r) > 0 =>
             \/ pc'[r] = pc[r]
             \/ StepsLeft(r)' \in 0 .. (StepsLeft(r) - 1)]_vars
  BY <1>1
<1> QED BY <1>2, Coherence, PTL DEF Spec, RequestsAdvance
=============================================================================
