---------------------------- MODULE OAuthProofs ----------------------------
(* Theorems about OAuth, for all values of its constants. *)
EXTENDS OAuth, TLAPS

-----------------------------------------------------------------------------
(* Type correctness *)

Control ==
    /\ pc' \in [Requests -> Pcs]
    /\ reply' \in [Requests -> [kind: Kinds, user: Users \cup {None}]]

LEMMA GotoTypes ==
  ASSUME TypeOK, NEW r \in Requests, NEW label \in Pcs, Goto(r, label)
  PROVE  Control
  BY DEF TypeOK, Goto, Control

LEMMA AnswerTypes ==
  ASSUME TypeOK, NEW r \in Requests, NEW kind \in Kinds,
         NEW u \in Users \cup {None}, Answer(r, kind, u)
  PROVE  Control
<1>1. "replied" \in Pcs
  BY DEF Pcs
<1> QED BY <1>1 DEF TypeOK, Answer, Control

\* The step of a request.
Moves(r) ==
    \/ RejectInput(r) \/ StartOAuth(r) \/ FinishOAuth(r)
    \/ Handle(r) \/ CreateIdentity(r)
    \/ CreateStateFails(r) \/ ConsumeFails(r) \/ CommitFails(r) \/ Fail(r)
    \/ Receive(r) \/ Abandon(r)

\* Every step moves the clock or one request.
LEMMA StepsAreMoves ==
  Next <=> (Tick \/ \E r \in Requests : Moves(r))
  BY DEF Next, Moves

LEMMA RollbackTypes ==
  ASSUME TypeOK, NEW r \in Requests, Rollback(r)
  PROVE  /\ pendUser' \in [Requests -> Users \cup {None}]
         /\ pendKey' \in [Requests -> BOOLEAN]
  BY DEF TypeOK, Rollback

LEMMA InsertStateTypes ==
  ASSUME TypeOK, NEW r \in Requests, InsertState(r), provider[r] \in Providers
  PROVE  states' \in [States -> StateRow \cup {None}]
<1>1. at[r] + StateTtl \in Nat
  BY StateTtlAssumption DEF TypeOK
<1>2. [provider |-> provider[r], expires |-> at[r] + StateTtl, consumed |-> FALSE]
        \in StateRow
  BY <1>1 DEF StateRow
<1> QED BY <1>2 DEF TypeOK, InsertState

\* The row a callback consumes.
LEMMA MarkConsumedTypes ==
  ASSUME TypeOK, NEW r \in Requests, state[r] \in States, MarkConsumed(r)
  PROVE  states' \in [States -> StateRow \cup {None}]
<1>1. CASE Consumable(r)
  <2>1. states[state[r]] \in StateRow
    BY <1>1 DEF TypeOK, Consumable
  <2>2. [states[state[r]] EXCEPT !.consumed = TRUE] \in StateRow
    BY <2>1 DEF StateRow
  <2> QED BY <1>1, <2>2 DEF TypeOK, MarkConsumed
<1> QED BY <1>1 DEF TypeOK, MarkConsumed

LEMMA KeyType ==
  ASSUME NEW r, provider[r] \in Providers, subject[r] \in Subjects
  PROVE  Key(r) \in Keys
  BY DEF Key, Keys

LEMMA PublishTypes ==
  ASSUME TypeOK, NEW r \in Requests, state[r] \in States, Publish(r)
  PROVE  /\ users' \subseteq Users
         /\ identities' \in [Keys -> Users \cup {None}]
         /\ logins' \in [States -> Nat]
         /\ pendUser' \in [Requests -> Users \cup {None}]
         /\ pendKey' \in [Requests -> BOOLEAN]
<1>1. pendUser[r] \in Users \cup {None} /\ logins[state[r]] + 1 \in Nat
  BY DEF TypeOK
<1>2. users' \subseteq Users
  BY <1>1 DEF TypeOK, Publish
<1>3. identities' \in [Keys -> Users \cup {None}]
  BY <1>1 DEF TypeOK, Publish
<1>4. logins' \in [States -> Nat]
  BY <1>1 DEF TypeOK, Publish
<1> QED BY <1>2, <1>3, <1>4, RollbackTypes DEF Publish

LEMMA ForgetTypes ==
  ASSUME TypeOK, NEW r \in Requests, Forget(r), shown' \subseteq States
  PROVE  TypeOK'
<1>1. "idle" \in Pcs /\ NoReply \in [kind: Kinds, user: Users \cup {None}]
  BY DEF Pcs, NoReply, Kinds
<1> QED BY <1>1, RollbackTypes DEF Forget, TypeOK

LEMMA TypeInit == Init => TypeOK
<1>1. "idle" \in Pcs /\ NoReply \in [kind: Kinds, user: Users \cup {None}]
  BY DEF Pcs, NoReply, Kinds
<1> QED BY <1>1 DEF Init, TypeOK

LEMMA TypeStep ==
  ASSUME TypeOK, NEW r \in Requests, Progress(r), Moves(r)
  PROVE  TypeOK'
<1> USE DEF TypeOK, Tables, Request, Tx, Control
<1>1. CASE RejectInput(r)
  BY <1>1, AnswerTypes DEF RejectInput, Kinds
<1>2. CASE StartOAuth(r)
  <2>1. PICK p \in Providers, s \in States :
          /\ began' = [began EXCEPT ![s] = [provider |-> p, time |-> now]]
          /\ provider' = [provider EXCEPT ![r] = p]
          /\ state' = [state EXCEPT ![r] = s]
    BY <1>2 DEF StartOAuth
  <2>2. [provider |-> p, time |-> now] \in Beginning
    BY DEF Beginning
  <2>3. Control
    BY <1>2, GotoTypes DEF StartOAuth, Pcs
  <2> QED BY <1>2, <2>1, <2>2, <2>3 DEF StartOAuth
<1>3. CASE FinishOAuth(r)
  <2>1. Control
    BY <1>3, GotoTypes DEF FinishOAuth, Pcs
  <2>2. PICK p \in Providers, s \in States :
          /\ provider' = [provider EXCEPT ![r] = p]
          /\ state' = [state EXCEPT ![r] = s]
    BY <1>3 DEF FinishOAuth
  <2>3. provider' \in [Requests -> Providers \cup {None}]
    BY <2>2
  <2>4. state' \in [Requests -> States \cup {None}]
    BY <2>2
  <2>5. at' \in [Requests -> Nat]
    BY <1>3 DEF FinishOAuth
  <2> QED BY <1>3, <2>1, <2>3, <2>4, <2>5 DEF FinishOAuth
<1>4. CASE CreateState(r) \/ CreateStateFails(r)
  <2>1. Control
    BY <1>4, AnswerTypes DEF CreateState, CreateStateFails, Kinds
  <2>2. states' \in [States -> StateRow \cup {None}]
    BY <1>4, InsertStateTypes DEF CreateState, CreateStateFails, Progress
  <2> QED BY <1>4, <2>1, <2>2 DEF CreateState, CreateStateFails
<1>5. CASE Consume(r) \/ ConsumeFails(r)
  <2>1. "exchange" \in Pcs /\ {"denied", "error"} \subseteq Kinds
    BY DEF Pcs, Kinds
  <2>2. Control
    BY <1>5, <2>1, GotoTypes, AnswerTypes DEF Consume, ConsumeFails
  <2>3. states' \in [States -> StateRow \cup {None}]
    BY <1>5, MarkConsumedTypes DEF Consume, ConsumeFails, Progress
  <2> QED BY <1>5, <2>2, <2>3 DEF Consume, ConsumeFails
<1>6. CASE Exchange(r)
  <2>1. "lookup" \in Pcs /\ "unauthenticated" \in Kinds
    BY DEF Pcs, Kinds
  <2>2. Control
    BY <1>6, <2>1, GotoTypes, AnswerTypes DEF Exchange
  <2> QED BY <1>6, <2>2, ZenonT(60) DEF Exchange
<1>7. CASE Lookup(r)
  <2>1. {"issue", "createUser"} \subseteq Pcs /\ "unresolved" \in Kinds
    BY DEF Pcs, Kinds
  <2>2. Control
    BY <1>7, <2>1, GotoTypes, AnswerTypes DEF Lookup
  <2>3. Key(r) \in Keys
    BY <1>7, KeyType DEF Lookup, Progress, InTx
  <2> QED BY <1>7, <2>2, <2>3 DEF Lookup
<1>8. CASE CreateUser(r)
  <2>1. Control
    BY <1>8, GotoTypes DEF CreateUser, Pcs
  <2>2. pendUser' \in [Requests -> Users \cup {None}]
    BY <1>8 DEF CreateUser, FreeUsers
  <2> QED BY <1>8, <2>1, <2>2 DEF CreateUser
<1>9. CASE CreateIdentity(r)
  <2>1. {"issue", "lookup"} \subseteq Pcs
    BY DEF Pcs
  <2>2. Control
    BY <1>9, <2>1, GotoTypes DEF CreateIdentity, InsertIdentity
  <2> QED BY <1>9, <2>2, RollbackTypes DEF CreateIdentity, InsertIdentity
<1>10. CASE IssueSession(r)
  <2>1. "commit" \in Pcs /\ "unresolved" \in Kinds
    BY DEF Pcs, Kinds
  <2>2. Control
    BY <1>10, <2>1, GotoTypes, AnswerTypes DEF IssueSession
  <2> QED BY <1>10, <2>2, RollbackTypes DEF IssueSession
<1>11. CASE Commit(r) \/ CommitFails(r)
  <2>1. {"success", "error"} \subseteq Kinds /\ user[r] \in Users \cup {None}
    BY DEF Kinds
  <2>2. Control
    BY <1>11, <2>1, AnswerTypes DEF Commit, CommitFails
  <2>3. state[r] \in States
    BY <1>11 DEF Commit, CommitFails, Progress, InTx
  <2>4. CASE Publish(r)
    BY <1>11, <2>2, <2>3, <2>4, PublishTypes DEF Commit, CommitFails
  <2>5. CASE Rollback(r) /\ UNCHANGED <<users, identities, logins>>
    BY <1>11, <2>2, <2>5, RollbackTypes DEF Commit, CommitFails
  <2> QED BY <1>11, <2>4, <2>5 DEF Commit, CommitFails
<1>12. CASE Fail(r)
  <2>1. Control
    BY <1>12, AnswerTypes DEF Fail, Kinds
  <2> QED BY <1>12, <2>1, RollbackTypes DEF Fail
<1>13. CASE Receive(r)
  BY <1>13, ForgetTypes DEF Receive, Progress
<1>14. CASE Abandon(r)
  BY <1>14, ForgetTypes DEF Abandon
<1> QED
  BY <1>1, <1>2, <1>3, <1>4, <1>5, <1>6, <1>7, <1>8, <1>9, <1>10, <1>11,
     <1>12, <1>13, <1>14 DEF Moves, Handle

-----------------------------------------------------------------------------
(* What a step leaves alone *)

Untouched(q) ==
    /\ pc'[q] = pc[q] /\ reply'[q] = reply[q]
    /\ provider'[q] = provider[q] /\ state'[q] = state[q] /\ at'[q] = at[q]
    /\ subject'[q] = subject[q] /\ retry'[q] = retry[q] /\ user'[q] = user[q]
    /\ pendUser'[q] = pendUser[q] /\ pendKey'[q] = pendKey[q]

\* The step of a request leaves the other requests alone.
LEMMA OthersUntouched ==
  ASSUME TypeOK, NEW r \in Requests, NEW q \in Requests \ {r}, Moves(r)
  PROVE  Untouched(q)
<1> USE DEF TypeOK, Untouched, Request, Tx, Goto, Answer, Rollback
<1>1. CASE RejectInput(r)
  BY <1>1 DEF RejectInput
<1>2. CASE StartOAuth(r)
  BY <1>2 DEF StartOAuth
<1>3. CASE FinishOAuth(r)
  BY <1>3 DEF FinishOAuth
<1>4. CASE CreateState(r) \/ CreateStateFails(r)
  BY <1>4 DEF CreateState, CreateStateFails
<1>5. CASE Consume(r) \/ ConsumeFails(r)
  BY <1>5 DEF Consume, ConsumeFails
<1>6. CASE Exchange(r)
  BY <1>6 DEF Exchange
<1>7. CASE Lookup(r)
  BY <1>7 DEF Lookup
<1>8. CASE CreateUser(r)
  BY <1>8 DEF CreateUser
<1>9. CASE CreateIdentity(r)
  BY <1>9 DEF CreateIdentity, InsertIdentity
<1>10. CASE IssueSession(r)
  BY <1>10 DEF IssueSession
<1>11. CASE Commit(r) \/ CommitFails(r)
  BY <1>11 DEF Commit, CommitFails, Publish
<1>12. CASE Fail(r)
  BY <1>12 DEF Fail
<1>13. CASE Receive(r) \/ Abandon(r)
  BY <1>13 DEF Receive, Abandon, Forget
<1> QED
  BY <1>1, <1>2, <1>3, <1>4, <1>5, <1>6, <1>7, <1>8, <1>9, <1>10, <1>11,
     <1>12, <1>13 DEF Moves, Handle

\* What a step may do to the users and the identities: nothing, or publish the
\* user and the identity of a committing transaction.
Published(r) ==
    /\ pc[r] = "commit"
    /\ users' = users \cup ({pendUser[r]} \ {None})
    /\ identities' = IF pendKey[r] THEN [identities EXCEPT ![Key(r)] = pendUser[r]]
                                   ELSE identities
    /\ logins' = [logins EXCEPT ![state[r]] = @ + 1]

LEMMA DirectoryKept ==
  ASSUME NEW r \in Requests, Moves(r)
  PROVE  UNCHANGED <<users, identities, logins>> \/ Published(r)
<1> USE DEF Tables, Published
<1>1. CASE Commit(r) \/ CommitFails(r)
  BY <1>1 DEF Commit, CommitFails, Publish
<1>2. CASE RejectInput(r) \/ StartOAuth(r) \/ FinishOAuth(r) \/ CreateState(r)
           \/ CreateStateFails(r) \/ Consume(r) \/ ConsumeFails(r) \/ Exchange(r)
  BY <1>2 DEF RejectInput, StartOAuth, FinishOAuth, CreateState,
     CreateStateFails, Consume, ConsumeFails, Exchange
<1>3. CASE Lookup(r) \/ CreateUser(r) \/ CreateIdentity(r) \/ IssueSession(r)
           \/ Fail(r) \/ Receive(r) \/ Abandon(r)
  BY <1>3 DEF Lookup, CreateUser, CreateIdentity, IssueSession, Fail, Receive,
     Abandon, Forget
<1> QED BY <1>1, <1>2, <1>3 DEF Moves, Handle

\* A committing transaction has inserted both rows, or none.
LEMMA PublishesBothOrNone ==
  ASSUME TypeOK, NEW r \in Requests, Progress(r), OpenTransaction(r), Published(r)
  PROVE  /\ Key(r) \in Keys
         /\ \/ UNCHANGED <<users, identities>>
            \/ /\ pendKey[r] /\ identities[Key(r)] = None
               /\ pendUser[r] \in Users \ users
               /\ users' = users \cup {pendUser[r]}
               /\ identities' = [identities EXCEPT ![Key(r)] = pendUser[r]]
<1>1. Key(r) \in Keys
  BY KeyType DEF Published, Progress, InTx
<1>2. CASE pendKey[r]
  BY <1>1, <1>2 DEF TypeOK, OpenTransaction, Published
<1>3. CASE ~pendKey[r]
  BY <1>1, <1>3 DEF TypeOK, OpenTransaction, Published
<1> QED BY <1>2, <1>3

\* An identity is never changed or removed.
LEMMA IdentitiesKept ==
  ASSUME TypeOK, NEW r \in Requests, Progress(r), OpenTransaction(r), Moves(r),
         NEW k \in Keys, identities[k] # None
  PROVE  identities'[k] = identities[k]
  BY DirectoryKept, PublishesBothOrNone DEF TypeOK

-----------------------------------------------------------------------------
(* What a request was given, and reached *)

LEMMA ProgressStep ==
  ASSUME TypeOK, NEW r \in Requests, Moves(r), Progress(r)
  PROVE  Progress(r)'
<1> USE DEF TypeOK, Progress, InTx, Succeeded, Request, Goto, Answer
<1>1. CASE RejectInput(r)
  BY <1>1 DEF RejectInput
<1>2. CASE StartOAuth(r)
  BY <1>2 DEF StartOAuth
<1>3. CASE FinishOAuth(r)
  BY <1>3 DEF FinishOAuth
<1>4. CASE CreateState(r) \/ CreateStateFails(r)
  BY <1>4 DEF CreateState, CreateStateFails
<1>5. CASE Consume(r) \/ ConsumeFails(r)
  BY <1>5 DEF Consume, ConsumeFails
<1>6. CASE Exchange(r)
  BY <1>6 DEF Exchange
<1>7. CASE Lookup(r)
  BY <1>7 DEF Lookup
<1>8. CASE CreateUser(r)
  BY <1>8 DEF CreateUser
<1>9. CASE CreateIdentity(r)
  BY <1>9 DEF CreateIdentity, InsertIdentity
<1>10. CASE IssueSession(r)
  BY <1>10 DEF IssueSession
<1>11. CASE Commit(r) \/ CommitFails(r)
  BY <1>11 DEF Commit, CommitFails
<1>12. CASE Fail(r)
  BY <1>12 DEF Fail
<1>13. CASE Receive(r) \/ Abandon(r)
  BY <1>13 DEF Receive, Abandon, Forget
<1> QED
  BY <1>1, <1>2, <1>3, <1>4, <1>5, <1>6, <1>7, <1>8, <1>9, <1>10, <1>11,
     <1>12, <1>13 DEF Moves, Handle

LEMMA ProgressKept ==
  ASSUME NEW q, Untouched(q), Progress(q)
  PROVE  Progress(q)'
  BY DEF Untouched, Progress, InTx, Succeeded

-----------------------------------------------------------------------------
(* The open transactions *)

\* What a step does to the rows its own transaction has inserted.
LEMMA PendingStep ==
  ASSUME TypeOK, NEW r \in Requests, Moves(r), OpenTransaction(r)
  PROVE  /\ pendUser'[r] \in {pendUser[r], None} \cup FreeUsers
         /\ pendKey'[r] => Key(r)' = Key(r) /\ (pendKey[r] \/ ~KeyLocked(r))
<1> USE DEF TypeOK, Request, Tx, Key, Goto, Answer, Rollback
<1>1. CASE RejectInput(r)
  BY <1>1 DEF RejectInput
<1>2. CASE StartOAuth(r) \/ FinishOAuth(r)
  BY <1>2 DEF StartOAuth, FinishOAuth, OpenTransaction
<1>3. CASE CreateState(r) \/ CreateStateFails(r) \/ Consume(r) \/ ConsumeFails(r)
  BY <1>3 DEF CreateState, CreateStateFails, Consume, ConsumeFails
<1>4. CASE Exchange(r)
  BY <1>4 DEF Exchange, OpenTransaction
<1>5. CASE Lookup(r)
  BY <1>5 DEF Lookup
<1>6. CASE CreateUser(r)
  BY <1>6 DEF CreateUser, FreeUsers
<1>7. CASE CreateIdentity(r)
  BY <1>7 DEF CreateIdentity, InsertIdentity
<1>8. CASE IssueSession(r)
  BY <1>8 DEF IssueSession
<1>9. CASE Commit(r) \/ CommitFails(r)
  BY <1>9 DEF Commit, CommitFails, Publish
<1>10. CASE Fail(r) \/ Receive(r) \/ Abandon(r)
  BY <1>10 DEF Fail, Receive, Abandon, Forget
<1> QED
  BY <1>1, <1>2, <1>3, <1>4, <1>5, <1>6, <1>7, <1>8, <1>9, <1>10 DEF Moves, Handle

\* Another request's transaction stays as it is.
LEMMA OpenTransactionKept ==
  ASSUME TypeOK, NEW r \in Requests, NEW q \in Requests \ {r}, Moves(r),
         Progress(r), Progress(q), \A p \in Requests : OpenTransaction(p)
  PROVE  OpenTransaction(q)'
<1>1. /\ Untouched(q) /\ Key(q)' = Key(q) /\ InTx(q)' = InTx(q)
      /\ \A p \in Requests \ {r} : Untouched(p) /\ Key(p)' = Key(p)
  BY OthersUntouched DEF Untouched, Key, InTx
<1>2. OpenTransaction(q) /\ OpenTransaction(r)
  OBVIOUS
<1>3. InTx(q) => Key(q) \in Keys
  BY KeyType DEF Progress, InTx
<1>4. ASSUME pendUser[q] # None
      PROVE  /\ pendUser[q] \notin users'
             /\ \A p \in Requests \ {q} : pendUser'[p] # pendUser[q]
  <2>1. pendUser[r] # pendUser[q] /\ pendUser[q] \notin users
    BY <1>2, <1>4 DEF OpenTransaction
  <2>2. pendUser'[r] # pendUser[q]
    BY <1>2, <1>4, <2>1, PendingStep DEF FreeUsers
  <2>3. users' \subseteq users \cup {pendUser[r]}
    BY <1>2, DirectoryKept DEF Published
  <2> QED BY <1>1, <1>2, <1>4, <2>1, <2>2, <2>3 DEF Untouched, OpenTransaction
<1>5. ASSUME pendKey[q]
      PROVE  identities'[Key(q)] = None /\ ~KeyLocked(q)'
  <2>1. /\ InTx(q) /\ identities[Key(q)] = None /\ ~KeyLocked(q)
    BY <1>2, <1>5 DEF OpenTransaction, InTx
  <2>2. pendKey[r] => Key(r) # Key(q)
    BY <2>1 DEF KeyLocked
  <2>3. ~(pendKey'[r] /\ Key(r)' = Key(q))
    BY <1>2, <1>5, <2>2, PendingStep DEF KeyLocked
  <2>4. identities'[Key(q)] = None
    BY <1>2, <1>3, <2>1, <2>2, DirectoryKept, PublishesBothOrNone DEF TypeOK
  <2>5. ~KeyLocked(q)'
    BY <1>1, <2>1, <2>3 DEF KeyLocked, Untouched
  <2> QED BY <2>4, <2>5
<1>6. identities[Key(q)] # None /\ InTx(q) => identities'[Key(q)] = identities[Key(q)]
  BY <1>2, <1>3, IdentitiesKept
<1> QED
  BY <1>1, <1>2, <1>4, <1>5, <1>6 DEF OpenTransaction, Untouched, InTx

\* A transaction changes only as the code that runs it says.
LEMMA OpenTransactionStep ==
  ASSUME TypeOK, NEW r \in Requests, Moves(r), Progress(r),
         \A p \in Requests : OpenTransaction(p)
  PROVE  OpenTransaction(r)'
<1> USE DEF OpenTransaction, TypeOK, InTx, Request, Tx, Key, Goto, Answer
<1>1. \A q \in Requests \ {r} : Untouched(q)
  BY OthersUntouched
<1>2. CASE RejectInput(r)
  BY <1>2 DEF RejectInput
<1>3. CASE StartOAuth(r) \/ FinishOAuth(r)
  BY <1>3, ZenonT(60) DEF StartOAuth, FinishOAuth
<1>4. CASE CreateState(r) \/ CreateStateFails(r)
  BY <1>4 DEF CreateState, CreateStateFails
<1>5. CASE Consume(r) \/ ConsumeFails(r)
  BY <1>5, ZenonT(60) DEF Consume, ConsumeFails
<1>6. CASE Exchange(r)
  BY <1>6 DEF Exchange
<1>7. CASE Lookup(r)
  BY <1>7, ZenonT(60) DEF Lookup, Tables
<1>8. CASE CreateUser(r)
  <2>1. PICK u \in FreeUsers : pendUser' = [pendUser EXCEPT ![r] = u]
    BY <1>8 DEF CreateUser
  <2>2. u # None /\ u \notin users /\ \A q \in Requests : pendUser[q] # u
    BY <2>1, NoneAssumption DEF FreeUsers
  <2> QED BY <1>8, <1>1, <2>1, <2>2 DEF CreateUser, Tables, Untouched
<1>9. CASE CreateIdentity(r)
  BY <1>9, <1>1 DEF CreateIdentity, InsertIdentity, Tables, KeyLocked, Untouched, Rollback
<1>10. CASE IssueSession(r)
  BY <1>10, <1>1 DEF IssueSession, Tables, Rollback, KeyLocked, Untouched
<1>11. CASE Commit(r) \/ CommitFails(r)
  BY <1>11 DEF Commit, CommitFails, Publish, Rollback
<1>12. CASE Fail(r)
  BY <1>12 DEF Fail, Rollback
<1>13. CASE Receive(r) \/ Abandon(r)
  BY <1>13 DEF Receive, Abandon, Forget, Rollback
<1> QED
  BY <1>2, <1>3, <1>4, <1>5, <1>6, <1>7, <1>8, <1>9, <1>10, <1>11,
     <1>12, <1>13 DEF Moves, Handle

-----------------------------------------------------------------------------
(* The states *)

\* What a step does to a row of oauth_states: it inserts it for a state that
\* has begun, or consumes it, or leaves it.
LEMMA StateRowStep ==
  ASSUME TypeOK, NEW r \in Requests, Moves(r), Progress(r), NEW s \in States
  PROVE  \/ states'[s] = states[s]
         \/ /\ pc[r] = "create" /\ s = state[r]
            /\ states'[s] = [provider |-> provider[r], expires |-> at[r] + StateTtl,
                              consumed |-> FALSE]
         \/ /\ pc[r] = "consume" /\ s = state[r] /\ Consumable(r)
            /\ states'[s] # None /\ states'[s].consumed
            /\ states'[s].provider = states[s].provider
            /\ states'[s].expires = states[s].expires
<1> USE DEF TypeOK, Tables
<1>1. CASE CreateState(r) \/ CreateStateFails(r)
  BY <1>1 DEF CreateState, CreateStateFails, InsertState
<1>2. CASE (Consume(r) \/ ConsumeFails(r)) /\ Consumable(r) /\ states' # states
  <2>1. /\ pc[r] = "consume" /\ state[r] \in States
        /\ states' = [states EXCEPT ![state[r]].consumed = TRUE]
    BY <1>2 DEF Consume, ConsumeFails, MarkConsumed, Progress
  <2>2. states[state[r]] \in StateRow
    BY <1>2, <2>1 DEF Consumable
  <2>3. states'[state[r]] \in StateRow
    BY <2>1, <2>2 DEF StateRow
  <2>4. states'[state[r]] # None
    BY <2>3, NoneAssumption
  <2> QED BY <1>2, <2>1, <2>2, <2>4 DEF StateRow
<1>3. CASE (Consume(r) \/ ConsumeFails(r)) /\ (~Consumable(r) \/ states' = states)
  BY <1>3 DEF Consume, ConsumeFails, MarkConsumed
<1>4. CASE RejectInput(r) \/ StartOAuth(r) \/ FinishOAuth(r) \/ Exchange(r)
           \/ Lookup(r) \/ CreateUser(r) \/ CreateIdentity(r)
  BY <1>4 DEF RejectInput, StartOAuth, FinishOAuth, Exchange, Lookup,
     CreateUser, CreateIdentity
<1>5. CASE IssueSession(r) \/ Commit(r) \/ CommitFails(r) \/ Fail(r)
           \/ Receive(r) \/ Abandon(r)
  BY <1>5 DEF IssueSession, Commit, CommitFails, Fail, Receive, Abandon, Forget
<1> QED BY <1>1, <1>2, <1>3, <1>4, <1>5 DEF Moves, Handle

\* A state that has begun stays as it was begun.
LEMMA BeganStep ==
  ASSUME TypeOK, NEW r \in Requests, Moves(r), NEW s \in States
  PROVE  \/ began'[s] = began[s]
         \/ began[s] = None /\ pc[r] = "idle"
<1> USE DEF TypeOK, Tables
<1>1. CASE StartOAuth(r)
  BY <1>1 DEF StartOAuth
<1>2. CASE RejectInput(r) \/ FinishOAuth(r) \/ CreateState(r)
           \/ CreateStateFails(r) \/ Consume(r) \/ ConsumeFails(r) \/ Exchange(r)
  BY <1>2 DEF RejectInput, FinishOAuth, CreateState, CreateStateFails, Consume,
     ConsumeFails, Exchange
<1>3. CASE Lookup(r) \/ CreateUser(r) \/ CreateIdentity(r) \/ IssueSession(r)
           \/ Commit(r) \/ CommitFails(r) \/ Fail(r) \/ Receive(r) \/ Abandon(r)
  BY <1>3 DEF Lookup, CreateUser, CreateIdentity, IssueSession, Commit,
     CommitFails, Fail, Receive, Abandon, Forget
<1> QED BY <1>1, <1>2, <1>3 DEF Moves, Handle

LEMMA StateHistoryStep ==
  ASSUME TypeOK, NEW r \in Requests, Moves(r), Progress(r), UsesStateAlone(r),
         NEW s \in States, StateHistory(s)
  PROVE  StateHistory(s)'
<1>1. logins[s] \in Nat
  BY DEF TypeOK
<1>2. began[s] # None => began'[s] = began[s]
  BY BeganStep
<1>3. \/ logins'[s] = logins[s]
      \/ /\ pc[r] = "commit" /\ s = state[r] /\ logins[s] = 0 /\ logins'[s] = 1
         /\ states[s] # None /\ states[s].consumed
  <2>1. CASE UNCHANGED <<users, identities, logins>>
    BY <2>1
  <2>2. CASE Published(r)
    BY <2>2 DEF TypeOK, Published, UsesStateAlone, Spending, InTx
  <2> QED BY <2>1, <2>2, DirectoryKept
<1>4. CASE states'[s] = states[s]
  BY <1>1, <1>2, <1>3, <1>4 DEF StateHistory
<1>5. CASE /\ pc[r] = "create" /\ s = state[r]
           /\ states'[s] = [provider |-> provider[r], expires |-> at[r] + StateTtl,
                             consumed |-> FALSE]
  <2>1. /\ states[s] = None /\ logins[s] = 0 /\ logins'[s] = 0
        /\ began[s] = [provider |-> provider[r], time |-> at[r]]
    BY <1>1, <1>3, <1>5 DEF StateHistory, UsesStateAlone
  <2>2. began[s] \in Beginning
    BY <2>1, <1>5 DEF Progress, Beginning, TypeOK
  <2>3. began[s] # None
    BY <2>2, NoneAssumption
  <2> QED BY <1>2, <1>5, <2>1, <2>3 DEF StateHistory
<1>6. CASE /\ pc[r] = "consume" /\ s = state[r] /\ Consumable(r)
           /\ states'[s] # None /\ states'[s].consumed
           /\ states'[s].provider = states[s].provider
           /\ states'[s].expires = states[s].expires
  BY <1>1, <1>2, <1>3, <1>6 DEF StateHistory, Consumable
<1> QED BY <1>4, <1>5, <1>6, StateRowStep

\* A request comes to hold a state by generating it or by consuming it.
LEMMA HoldingStep ==
  ASSUME TypeOK, NEW r \in Requests, Moves(r)
  PROVE  /\ pc'[r] = "create" => StartOAuth(r)
         /\ Spending(r)' => /\ state'[r] = state[r] /\ provider'[r] = provider[r]
                            /\ at'[r] = at[r]
                            /\ \/ Spending(r)
                               \/ Consume(r) /\ Consumable(r)
         /\ Succeeded(r)' => Commit(r)
<1> USE DEF TypeOK, Spending, InTx, Succeeded, Request, Goto, Answer
<1>1. CASE RejectInput(r)
  BY <1>1 DEF RejectInput
<1>2. CASE StartOAuth(r) \/ FinishOAuth(r)
  BY <1>2 DEF StartOAuth, FinishOAuth
<1>3. CASE CreateState(r) \/ CreateStateFails(r)
  BY <1>3 DEF CreateState, CreateStateFails
<1>4. CASE Consume(r) \/ ConsumeFails(r)
  BY <1>4 DEF Consume, ConsumeFails
<1>5. CASE Exchange(r)
  BY <1>5 DEF Exchange
<1>6. CASE Lookup(r)
  BY <1>6 DEF Lookup
<1>7. CASE CreateUser(r)
  BY <1>7 DEF CreateUser
<1>8. CASE CreateIdentity(r)
  BY <1>8 DEF CreateIdentity, InsertIdentity
<1>9. CASE IssueSession(r)
  BY <1>9 DEF IssueSession
<1>10. CASE Commit(r) \/ CommitFails(r)
  BY <1>10 DEF Commit, CommitFails
<1>11. CASE Fail(r)
  BY <1>11 DEF Fail
<1>12. CASE Receive(r) \/ Abandon(r)
  BY <1>12 DEF Receive, Abandon, Forget
<1> QED
  BY <1>1, <1>2, <1>3, <1>4, <1>5, <1>6, <1>7, <1>8, <1>9, <1>10, <1>11, <1>12
     DEF Moves, Handle

\* The step of a request does not touch a state another request holds.
LEMMA HeldStateKept ==
  ASSUME TypeOK, NEW r \in Requests, NEW q \in Requests \ {r}, Moves(r),
         Progress(r), Progress(q), StatesAreSpentOnce
  PROVE  UsesStateAlone(q)'
<1> DEFINE t == state[q]
<1>1. /\ Untouched(q) /\ Spending(q)' = Spending(q) /\ Succeeded(q)' = Succeeded(q)
      /\ \A p \in Requests \ {r} : Untouched(p) /\ Spending(p)' = Spending(p)
  BY OthersUntouched DEF Untouched, Spending, InTx, Succeeded
<1>2. UsesStateAlone(q) /\ UsesStateAlone(r)
  BY DEF StatesAreSpentOnce
<1>3. ASSUME pc[q] = "create"
      PROVE  /\ states'[t] = None
             /\ began'[t] = [provider |-> provider[q], time |-> at[q]]
             /\ pc'[r] = "create" => state'[r] # t
  <2>1. /\ t \in States /\ states[t] = None
        /\ began[t] = [provider |-> provider[q], time |-> at[q]]
        /\ pc[r] = "create" => state[r] # t
    BY <1>2, <1>3 DEF UsesStateAlone, Progress
  <2>2. began[t] # None
    <3>1. began[t] \in Beginning
      BY <1>3, <2>1 DEF Beginning, Progress, TypeOK
    <3> QED BY <3>1, NoneAssumption
  <2>3. began'[t] = began[t]
    BY <2>1, <2>2, BeganStep
  <2>4. states'[t] = None
    BY <2>1, StateRowStep DEF Consumable
  <2>5. pc'[r] = "create" => state'[r] # t
    BY <2>1, <2>2, HoldingStep DEF StartOAuth, TypeOK
  <2> QED BY <2>1, <2>3, <2>4, <2>5
<1>4. ASSUME Succeeded(q) PROVE began'[t] # None
  BY <1>2, <1>4, BeganStep DEF UsesStateAlone, Progress
<1>5. ASSUME Spending(q)
      PROVE  /\ states'[t] = states[t] /\ logins'[t] = 0
             /\ Spending(r)' => state'[r] # t
  <2>1. /\ t \in States /\ states[t] # None /\ states[t].consumed /\ logins[t] = 0
        /\ Spending(r) => state[r] # t
    BY <1>2, <1>5 DEF UsesStateAlone, Progress, Spending
  <2>2. states'[t] = states[t]
    BY <1>2, <2>1, StateRowStep, ZenonT(60) DEF Consumable, UsesStateAlone
  <2>3. logins'[t] = 0
    BY <2>1, DirectoryKept DEF Published, Spending, InTx, TypeOK
  <2>4. Spending(r)' => state'[r] # t
    BY <2>1, HoldingStep DEF Consumable
  <2> QED BY <2>2, <2>3, <2>4
<1>6. pc'[q] = "create" =>
          /\ states'[state'[q]] = None
          /\ began'[state'[q]] = [provider |-> provider'[q], time |-> at'[q]]
          /\ \A p \in Requests \ {q} : pc'[p] = "create" => state'[p] # state'[q]
  BY <1>1, <1>2, <1>3 DEF Untouched, UsesStateAlone
<1>7. Spending(q)' =>
          /\ states'[state'[q]] # None /\ states'[state'[q]].consumed
          /\ states'[state'[q]].provider = provider'[q]
          /\ at'[q] < states'[state'[q]].expires
          /\ logins'[state'[q]] = 0
          /\ \A p \in Requests \ {q} : Spending(p)' => state'[p] # state'[q]
  BY <1>1, <1>2, <1>5 DEF Untouched, UsesStateAlone
<1> QED BY <1>1, <1>4, <1>6, <1>7 DEF UsesStateAlone, Untouched

LEMMA UsesStateAloneStep ==
  ASSUME TypeOK, NEW r \in Requests, Moves(r), Progress(r), StatesAreSpentOnce,
         \A q \in Requests : Progress(q)
  PROVE  UsesStateAlone(r)'
<1>1. \A q \in Requests \ {r} :
         Untouched(q) /\ Spending(q)' = Spending(q)
  BY OthersUntouched DEF Untouched, Spending, InTx
<1>2. \A q \in Requests : UsesStateAlone(q)
  BY DEF StatesAreSpentOnce
<1>3. ASSUME pc'[r] = "create"
      PROVE  /\ states'[state'[r]] = None
             /\ began'[state'[r]] = [provider |-> provider'[r], time |-> at'[r]]
             /\ \A q \in Requests \ {r} : pc'[q] = "create" => state'[q] # state'[r]
  <2>1. StartOAuth(r)
    BY <1>3, HoldingStep
  <2>2. PICK p \in Providers, s \in States :
          /\ began[s] = None
          /\ began' = [began EXCEPT ![s] = [provider |-> p, time |-> now]]
          /\ provider' = [provider EXCEPT ![r] = p]
          /\ state' = [state EXCEPT ![r] = s]
    BY <2>1 DEF StartOAuth
  <2>3. states'[s] = None
    BY <2>1, <2>2 DEF StartOAuth, StatesAreSpentOnce, StateHistory
  <2>4. ASSUME NEW q \in Requests \ {r}, pc[q] = "create" PROVE state[q] # s
    <3>1. began[state[q]] = [provider |-> provider[q], time |-> at[q]]
      BY <1>2, <2>4 DEF UsesStateAlone
    <3>2. began[state[q]] \in Beginning
      BY <2>4, <3>1 DEF Beginning, Progress, TypeOK
    <3> QED BY <2>2, <3>2, NoneAssumption
  <2> QED BY <1>1, <2>1, <2>2, <2>3, <2>4 DEF StartOAuth, TypeOK, Untouched
<1>4. ASSUME Succeeded(r)' PROVE began'[state'[r]] # None
  <2>1. Commit(r)
    BY <1>4, HoldingStep
  <2>2. /\ state[r] \in States /\ states[state[r]] # None
        /\ state'[r] = state[r] /\ began' = began
    BY <1>2, <2>1 DEF Commit, Request, Progress, UsesStateAlone, Spending, InTx
  <2> QED BY <2>2 DEF StatesAreSpentOnce, StateHistory
<1>5. ASSUME Spending(r)'
      PROVE  /\ states'[state[r]] # None /\ states'[state[r]].consumed
             /\ states'[state[r]].provider = provider[r]
             /\ at[r] < states'[state[r]].expires
             /\ logins'[state[r]] = 0
             /\ \A q \in Requests \ {r} : Spending(q) => state[q] # state[r]
  <2>1. CASE Spending(r)
    <3>1. state[r] \in States /\ pc[r] \notin {"create", "consume"}
      BY <2>1 DEF Spending, Progress, InTx
    <3>2. states'[state[r]] = states[state[r]]
      BY <3>1, StateRowStep
    <3>3. logins' = logins
      <4>1. pc[r] # "commit"
        BY <1>5, <2>1 DEF Spending, InTx, Moves, Handle, Commit, CommitFails,
           RejectInput, StartOAuth, FinishOAuth, CreateState, CreateStateFails,
           Consume, ConsumeFails, Exchange, Lookup, CreateUser, CreateIdentity,
           IssueSession, Fail, Receive, Abandon, Answer, Forget, TypeOK
      <4> QED BY <4>1, DirectoryKept DEF Published
    <3> QED BY <1>2, <2>1, <3>2, <3>3 DEF UsesStateAlone
  <2>2. CASE Consume(r) /\ Consumable(r)
    <3>1. /\ state[r] \in States /\ pc[r] = "consume" /\ logins' = logins
          /\ states' = [states EXCEPT ![state[r]].consumed = TRUE]
      BY <2>2 DEF Consume, MarkConsumed, Progress
    <3>2. states[state[r]] \in StateRow
      BY <2>2, <3>1 DEF Consumable, TypeOK
    <3>3. /\ states'[state[r]] \in StateRow /\ states'[state[r]].consumed
          /\ states'[state[r]].provider = states[state[r]].provider
          /\ states'[state[r]].expires = states[state[r]].expires
      BY <3>1, <3>2 DEF StateRow, TypeOK
    <3>4. logins[state[r]] = 0
      BY <2>2, <3>1 DEF Consumable, StatesAreSpentOnce, StateHistory, TypeOK
    <3>5. ASSUME NEW q \in Requests \ {r}, Spending(q) PROVE state[q] # state[r]
      BY <1>2, <2>2, <3>5 DEF UsesStateAlone, Consumable
    <3> QED BY <2>2, <3>1, <3>3, <3>4, <3>5, NoneAssumption DEF Consumable
  <2> QED BY <1>5, <2>1, <2>2, HoldingStep
<1>6. Spending(r)' =>
          /\ states'[state'[r]] # None /\ states'[state'[r]].consumed
          /\ states'[state'[r]].provider = provider'[r]
          /\ at'[r] < states'[state'[r]].expires
          /\ logins'[state'[r]] = 0
          /\ \A q \in Requests \ {r} : Spending(q)' => state'[q] # state'[r]
  BY <1>1, <1>5, HoldingStep DEF Untouched
<1> QED BY <1>3, <1>4, <1>6 DEF UsesStateAlone

-----------------------------------------------------------------------------
(* Users, identities and replies *)

LEMMA UsersLinkedStep ==
  ASSUME TypeOK, NEW r \in Requests, Moves(r), Progress(r), OpenTransaction(r),
         UsersAreLinked
  PROVE  UsersAreLinked'
<1> USE DEF UsersAreLinked, NoOrphanUsers
<1>1. CASE UNCHANGED <<users, identities>>
  BY <1>1
<1>2. CASE /\ Key(r) \in Keys /\ identities[Key(r)] = None
           /\ pendUser[r] \in Users \ users
           /\ users' = users \cup {pendUser[r]}
           /\ identities' = [identities EXCEPT ![Key(r)] = pendUser[r]]
  <2>1. /\ identities'[Key(r)] = pendUser[r]
        /\ \A k \in Keys \ {Key(r)} : identities'[k] = identities[k]
    BY <1>2 DEF TypeOK
  <2>2. pendUser[r] # None
    BY <1>2, NoneAssumption
  <2>3. NoOrphanUsers'
    <3>1. ASSUME NEW u \in users PROVE \E k \in Keys : identities'[k] = u
      <4>1. PICK k \in Keys : identities[k] = u
        OBVIOUS
      <4>2. u # None
        BY NoneAssumption DEF TypeOK
      <4>3. k # Key(r)
        BY <1>2, <4>1, <4>2
      <4> QED BY <2>1, <4>1, <4>3
    <3> QED BY <1>2, <2>1, <3>1
  <2>4. \A k \in Keys : identities'[k] # None => identities'[k] \in users'
    BY <1>2, <2>1
  <2>5. \A k, j \in Keys :
           identities'[k] # None /\ identities'[k] = identities'[j] => k = j
    BY <1>2, <2>1, <2>2
  <2> QED BY <2>3, <2>4, <2>5
<1> QED BY <1>1, <1>2, DirectoryKept, PublishesBothOrNone

LEMMA ServedStep ==
  ASSUME TypeOK, NEW r \in Requests, Moves(r), UsersAreLinked, ServedAsCanonicalUser,
         \A q \in Requests : Progress(q) /\ OpenTransaction(q)
  PROVE  ServedAsCanonicalUser'
<1> SUFFICES ASSUME NEW q \in Requests, Succeeded(q)'
             PROVE  reply'[q].user # None /\ reply'[q].user = identities'[Key(q)']
  BY DEF ServedAsCanonicalUser, Key
<1>1. CASE q # r
  <2>1. Untouched(q) /\ Succeeded(q) /\ Key(q)' = Key(q)
    BY <1>1, OthersUntouched DEF Untouched, Succeeded, Key
  <2>2. reply[q].user # None /\ reply[q].user = identities[Key(q)]
    BY <2>1 DEF ServedAsCanonicalUser
  <2>3. Key(q) \in Keys
    BY <2>1, KeyType DEF Progress
  <2>4. identities'[Key(q)] = identities[Key(q)]
    BY <2>2, <2>3, IdentitiesKept
  <2> QED BY <2>1, <2>2, <2>4 DEF Untouched
<1>2. CASE q = r
  <2>1. Commit(r) /\ Key(r) \in Keys
    BY <1>2, HoldingStep, KeyType DEF Commit, Progress, InTx
  <2>2. reply'[r].user = user[r] /\ Key(r)' = Key(r)
    BY <2>1 DEF Commit, Answer, Request, Key, TypeOK
  <2>3. CASE pendKey[r]
    <3>1. identities' = [identities EXCEPT ![Key(r)] = pendUser[r]]
      BY <2>1, <2>3 DEF Commit, Publish
    <3>2. pendUser[r] # None /\ user[r] = pendUser[r]
      BY <2>3 DEF OpenTransaction
    <3> QED BY <1>2, <2>1, <2>2, <3>1, <3>2 DEF TypeOK
  <2>4. CASE ~pendKey[r]
    <3>1. identities' = identities
      BY <2>1, <2>4 DEF Commit, Publish
    <3>2. user[r] # None /\ user[r] = identities[Key(r)]
      BY <2>1, <2>4 DEF Commit, OpenTransaction
    <3> QED BY <1>2, <2>2, <3>1, <3>2
  <2> QED BY <2>3, <2>4
<1> QED BY <1>1, <1>2

LEMMA AnswersStep ==
  ASSUME TypeOK, NEW r \in Requests, Moves(r), LoginAnswersItsStart,
         StatesAreSpentOnce, \A q \in Requests : Progress(q)
  PROVE  LoginAnswersItsStart'
<1> SUFFICES ASSUME NEW q \in Requests, Succeeded(q)'
             PROVE  /\ began'[state'[q]].provider = provider'[q]
                    /\ at'[q] < began'[state'[q]].time + StateTtl
  BY DEF LoginAnswersItsStart
<1>1. CASE q # r
  <2>1. Untouched(q) /\ Succeeded(q)
    BY <1>1, OthersUntouched DEF Untouched, Succeeded
  <2>2. state[q] \in States /\ began[state[q]] # None
    BY <2>1 DEF Progress, StatesAreSpentOnce, UsesStateAlone
  <2>3. began'[state[q]] = began[state[q]]
    BY <2>2, BeganStep
  <2> QED BY <2>1, <2>3 DEF Untouched, LoginAnswersItsStart
<1>2. CASE q = r
  <2>1. Commit(r)
    BY <1>2, HoldingStep
  <2>2. /\ state[r] \in States /\ Spending(r)
        /\ UNCHANGED <<began, state, provider, at>>
    BY <2>1 DEF Commit, Request, Progress, InTx, Spending
  <2>3. /\ states[state[r]] # None /\ states[state[r]].provider = provider[r]
        /\ at[r] < states[state[r]].expires
    BY <2>2 DEF StatesAreSpentOnce, UsesStateAlone
  <2>4. /\ states[state[r]].provider = began[state[r]].provider
        /\ states[state[r]].expires = began[state[r]].time + StateTtl
    BY <2>2, <2>3 DEF StatesAreSpentOnce, StateHistory
  <2> QED BY <1>2, <2>2, <2>3, <2>4
<1> QED BY <1>1, <1>2

LEMMA CollisionsStep ==
  ASSUME TypeOK, NEW r \in Requests, Moves(r), CollisionsResolve, UsersAreLinked,
         \A q \in Requests : Progress(q) /\ OpenTransaction(q)
  PROVE  CollisionsResolve'
<1> SUFFICES reply'[r].kind # "unresolved"
  BY OthersUntouched DEF CollisionsResolve, Untouched
<1> USE DEF TypeOK, Answer, Goto, CollisionsResolve
<1>1. CASE RejectInput(r) \/ StartOAuth(r) \/ FinishOAuth(r)
  BY <1>1 DEF RejectInput, StartOAuth, FinishOAuth
<1>2. CASE CreateState(r) \/ CreateStateFails(r)
  BY <1>2 DEF CreateState, CreateStateFails
<1>3. CASE Consume(r) \/ ConsumeFails(r) \/ Exchange(r)
  BY <1>3 DEF Consume, ConsumeFails, Exchange
<1>4. CASE Lookup(r)
  <2>1. retry[r] => identities[Key(r)] # None
    BY <1>4 DEF Lookup, OpenTransaction, InTx
  <2> QED BY <1>4, <2>1 DEF Lookup
<1>5. CASE CreateUser(r) \/ CreateIdentity(r)
  BY <1>5 DEF CreateUser, CreateIdentity, InsertIdentity
<1>6. CASE IssueSession(r)
  <2>1. Key(r) \in Keys
    BY <1>6, KeyType DEF IssueSession, Progress, InTx
  <2>2. Loadable(r)
    BY <1>6, <2>1 DEF IssueSession, OpenTransaction, Loadable, UsersAreLinked
  <2> QED BY <1>6, <2>2 DEF IssueSession
<1>7. CASE Commit(r) \/ CommitFails(r) \/ Fail(r)
  BY <1>7 DEF Commit, CommitFails, Fail
<1>8. CASE Receive(r) \/ Abandon(r)
  BY <1>8 DEF Receive, Abandon, Forget, NoReply
<1> QED BY <1>1, <1>2, <1>3, <1>4, <1>5, <1>6, <1>7, <1>8 DEF Moves, Handle

-----------------------------------------------------------------------------
(* The invariant *)

LEMMA CoherentInit == Init => Coherent
<1> SUFFICES ASSUME Init PROVE Coherent
  OBVIOUS
<1>1. TypeOK
  BY TypeInit
<1>2. \A r \in Requests : Progress(r) /\ OpenTransaction(r)
  BY DEF Init, Progress, OpenTransaction, InTx, Succeeded
<1>3. StatesAreSpentOnce
  BY DEF Init, StatesAreSpentOnce, StateHistory, UsesStateAlone, Spending, InTx,
     Succeeded
<1>4. UsersAreLinked
  BY DEF Init, UsersAreLinked, NoOrphanUsers
<1>5. ServedAsCanonicalUser /\ LoginAnswersItsStart /\ CollisionsResolve
  BY DEF Init, ServedAsCanonicalUser, LoginAnswersItsStart, CollisionsResolve,
     Succeeded, NoReply
<1> QED BY <1>1, <1>2, <1>3, <1>4, <1>5 DEF Coherent

LEMMA CoherentMove ==
  ASSUME Coherent, NEW r \in Requests, Moves(r)
  PROVE  Coherent'
<1> USE DEF Coherent
<1>1. TypeOK'
  BY TypeStep
<1>2. ASSUME NEW q \in Requests PROVE Progress(q)' /\ OpenTransaction(q)'
  <2>1. CASE q = r
    BY <2>1, ProgressStep, OpenTransactionStep
  <2>2. CASE q # r
    BY <2>2, OthersUntouched, ProgressKept, OpenTransactionKept
  <2> QED BY <2>1, <2>2
<1>3. StatesAreSpentOnce'
  <2>1. \A s \in States : StateHistory(s)'
    BY StateHistoryStep DEF StatesAreSpentOnce
  <2>2. \A q \in Requests : UsesStateAlone(q)'
    BY UsesStateAloneStep, HeldStateKept
  <2> QED BY <2>1, <2>2 DEF StatesAreSpentOnce
<1>4. UsersAreLinked'
  BY UsersLinkedStep
<1>5. ServedAsCanonicalUser'
  BY ServedStep
<1>6. LoginAnswersItsStart'
  BY AnswersStep
<1>7. CollisionsResolve'
  BY CollisionsStep
<1> QED BY <1>1, <1>2, <1>3, <1>4, <1>5, <1>6, <1>7

LEMMA CoherentStep == Coherent /\ [Next]_vars => Coherent'
<1> SUFFICES ASSUME Coherent, [Next]_vars PROVE Coherent'
  OBVIOUS
<1> USE DEF Coherent, TypeOK, Progress, OpenTransaction, KeyLocked, Key, InTx,
     Succeeded, StatesAreSpentOnce, StateHistory, UsesStateAlone, Spending,
     UsersAreLinked, NoOrphanUsers, ServedAsCanonicalUser, LoginAnswersItsStart,
     CollisionsResolve, Tables, Request, Tx
<1>1. CASE Tick
  BY <1>1 DEF Tick
<1>2. CASE UNCHANGED vars
  BY <1>2 DEF vars
<1>3. CASE \E r \in Requests : Moves(r)
  BY <1>3, CoherentMove
<1> QED BY <1>1, <1>2, <1>3, StepsAreMoves

\* The rows of open transactions, the states and the identities stay coherent.
THEOREM Coherence == Spec => []Coherent
<1> QED BY CoherentInit, CoherentStep, PTL DEF Spec

\* Every variable keeps its type.
THEOREM TypeCorrectness == Spec => []TypeOK
<1>1. Coherent => TypeOK
  BY DEF Coherent
<1> QED BY <1>1, Coherence, PTL

\* A started sign-in yields at most one session.
THEOREM OneLogin == Spec => []OneLoginPerState
<1>1. Coherent => OneLoginPerState
  BY DEF Coherent, StatesAreSpentOnce, StateHistory, OneLoginPerState
<1> QED BY <1>1, Coherence, PTL

\* A session answers a start with the same provider, within its lifetime.
THEOREM LoginsAnswer == Spec => []LoginAnswersItsStart
<1>1. Coherent => LoginAnswersItsStart
  BY DEF Coherent
<1> QED BY <1>1, Coherence, PTL

\* No user is left without an identity.
THEOREM NoOrphans == Spec => []NoOrphanUsers
<1>1. Coherent => NoOrphanUsers
  BY DEF Coherent, UsersAreLinked
<1> QED BY <1>1, Coherence, PTL

\* Winners and losers of an identity race sign in the same user.
THEOREM CanonicalUser == Spec => []ServedAsCanonicalUser
<1>1. Coherent => ServedAsCanonicalUser
  BY DEF Coherent
<1> QED BY <1>1, Coherence, PTL

\* The retry of a lost race always finds the identity and its user.
THEOREM OneRetryIsEnough == Spec => []CollisionsResolve
<1>1. Coherent => CollisionsResolve
  BY DEF Coherent
<1> QED BY <1>1, Coherence, PTL

-----------------------------------------------------------------------------
(* Refinement *)

LEMMA DirectoryInit == Init => Directory!Init
  BY DEF Init, Directory!Init

LEMMA DirectoryStep ==
  ASSUME Coherent, [Next]_vars
  PROVE  [Directory!Next]_identities
<1> USE DEF Coherent
<1>1. ASSUME NEW r \in Requests, Moves(r) PROVE [Directory!Next]_identities
  <2>1. CASE UNCHANGED identities
    BY <2>1
  <2>2. CASE /\ Key(r) \in Keys /\ identities[Key(r)] = None
             /\ pendUser[r] \in Users \ users
             /\ identities' = [identities EXCEPT ![Key(r)] = pendUser[r]]
    <3>1. \A k \in Keys : identities[k] # pendUser[r]
      BY <2>2, NoneAssumption DEF UsersAreLinked
    <3>2. Directory!Link(Key(r), pendUser[r])
      BY <2>2, <3>1 DEF Directory!Link, Directory!Linked
    <3> QED BY <2>2, <3>2 DEF Directory!Next
  <2> QED BY <1>1, <2>1, <2>2, DirectoryKept, PublishesBothOrNone
<1>2. CASE Tick \/ UNCHANGED vars
  BY <1>2 DEF Tick, vars, Tables
<1> QED BY <1>1, <1>2, StepsAreMoves

\* The identities table implements the abstract directory.
THEOREM DirectoryRefinement == Spec => ImplementsDirectory
<1> QED
  BY DirectoryInit, DirectoryStep, Coherence, PTL
     DEF Spec, ImplementsDirectory, Directory!Spec

\* What the directory promises holds of the table: a subject of a provider is linked
\* to one user, and no user is reached through two subjects.
THEOREM OneSubjectPerUser == Spec => []Directory!Inv
<1>1. Coherent => Directory!Inv
  BY DEF Coherent, TypeOK, UsersAreLinked, Directory!Inv, Directory!TypeOK,
     Directory!OneKeyPerUser
<1> QED BY <1>1, Coherence, PTL

-----------------------------------------------------------------------------
(* Waiting *)

\* Two callbacks that race for an identity never deadlock.
THEOREM CallbacksNeverDeadlock == Spec => []WaitsAreShort
<1>1. Coherent => WaitsAreShort
  <2> SUFFICES ASSUME Coherent, NEW r \in Requests, NEW q \in Requests, WaitsFor(r, q),
                      NEW p \in Requests, WaitsFor(r, p)
               PROVE  pc[q] \in {"issue", "commit"} /\ p = q
    BY DEF WaitsAreShort
  <2>1. pendKey[q] /\ pendKey[p] /\ Key(p) = Key(q)
    BY DEF WaitsFor
  <2>2. pc[q] \in {"issue", "commit"} /\ ~KeyLocked(q)
    BY <2>1 DEF Coherent, OpenTransaction
  <2> QED
    BY <2>1, <2>2 DEF KeyLocked
<1> QED BY <1>1, Coherence, PTL

LEMMA StepsLeftAt ==
  ASSUME NEW r \in Requests
  PROVE  /\ pc[r] = "lookup" => StepsLeft(r) = IF retry[r] THEN 3 ELSE 6
         /\ pc[r] = "create" => StepsLeft(r) = 1
         /\ pc[r] = "consume" => StepsLeft(r) = 8
         /\ pc[r] = "exchange" => StepsLeft(r) = 7
         /\ pc[r] = "createUser" => StepsLeft(r) = 5
         /\ pc[r] = "createIdentity" => StepsLeft(r) = 4
         /\ pc[r] = "issue" => StepsLeft(r) = 2
         /\ pc[r] = "commit" => StepsLeft(r) = 1
         /\ pc[r] \in {"idle", "replied"} => StepsLeft(r) = 0
BY DEF StepsLeft

\* The same of the state a step leads to.
LEMMA StepsLeftThen ==
  ASSUME NEW r \in Requests
  PROVE  /\ pc'[r] = "lookup" => StepsLeft(r)' = IF retry'[r] THEN 3 ELSE 6
         /\ pc'[r] = "exchange" => StepsLeft(r)' = 7
         /\ pc'[r] = "createUser" => StepsLeft(r)' = 5
         /\ pc'[r] = "createIdentity" => StepsLeft(r)' = 4
         /\ pc'[r] = "issue" => StepsLeft(r)' = 2
         /\ pc'[r] = "commit" => StepsLeft(r)' = 1
         /\ pc'[r] \in {"idle", "replied"} => StepsLeft(r)' = 0
BY DEF StepsLeft

\* A step of its own brings a request nearer to its answer.
LEMMA MoveAdvances ==
  ASSUME TypeOK, NEW r \in Requests, Moves(r), StepsLeft(r) > 0
  PROVE  StepsLeft(r)' \in 0 .. (StepsLeft(r) - 1)
<1> USE DEF TypeOK, Goto, Answer
<1>1. pc[r] # "idle" /\ pc[r] # "replied"
  BY StepsLeftAt
<1>2. CASE CreateState(r) \/ CreateStateFails(r)
  BY <1>2, StepsLeftAt, StepsLeftThen DEF CreateState, CreateStateFails
<1>3. CASE Consume(r) \/ ConsumeFails(r)
  BY <1>3, StepsLeftAt, StepsLeftThen DEF Consume, ConsumeFails
<1>4. CASE Exchange(r) \/ CreateUser(r)
  BY <1>4, StepsLeftAt, StepsLeftThen DEF Exchange, CreateUser, Tx
<1>5. CASE Lookup(r)
  BY <1>5, StepsLeftAt, StepsLeftThen DEF Lookup
<1>6. CASE CreateIdentity(r)
  BY <1>6, StepsLeftAt, StepsLeftThen DEF CreateIdentity, InsertIdentity
<1>7. CASE IssueSession(r)
  BY <1>7, StepsLeftAt, StepsLeftThen DEF IssueSession
<1>8. CASE Commit(r) \/ CommitFails(r)
  BY <1>8, StepsLeftAt, StepsLeftThen DEF Commit, CommitFails
<1>9. CASE Fail(r) \/ Abandon(r)
  <2>1. pc'[r] \in {"idle", "replied"}
    BY <1>9 DEF Fail, Abandon, Forget
  <2>2. StepsLeft(r)' = 0
    BY <2>1, StepsLeftThen
  <2>3. pc[r] \in Pcs \ {"idle", "replied"} /\ retry[r] \in BOOLEAN
    BY <1>1
  <2>4. StepsLeft(r) \in 1 .. 8
    BY <2>3, StepsLeftAt DEF Pcs
  <2> QED
    BY <2>2, <2>4
<1>10. ~(RejectInput(r) \/ StartOAuth(r) \/ FinishOAuth(r) \/ Receive(r))
  BY <1>1 DEF RejectInput, StartOAuth, FinishOAuth, Receive
<1> HIDE DEF TypeOK, Goto, Answer
<1> QED
  BY <1>2, <1>3, <1>4, <1>5, <1>6, <1>7, <1>8, <1>9, <1>10 DEF Moves, Handle

\* A callback is answered after eight steps of its own at the most.
THEOREM CallbacksAdvance == Spec => RequestsAdvance
<1>1. ASSUME Coherent, [Next]_vars, NEW r \in Requests, StepsLeft(r) > 0
      PROVE  \/ UNCHANGED <<pc[r], retry[r]>>
             \/ StepsLeft(r)' \in 0 .. (StepsLeft(r) - 1)
  <2>1. CASE Tick \/ UNCHANGED vars
    BY <2>1 DEF Tick, vars, Tx
  <2>2. ASSUME NEW q \in Requests \ {r}, Moves(q) PROVE UNCHANGED <<pc[r], retry[r]>>
    BY <1>1, <2>2, OthersUntouched DEF Coherent, Untouched
  <2> QED
    BY <1>1, <2>1, <2>2, MoveAdvances, StepsAreMoves DEF Coherent
<1>2. Coherent /\ [Next]_vars =>
         [\A r \in Requests : StepsLeft(r) > 0 =>
             \/ UNCHANGED <<pc[r], retry[r]>>
             \/ StepsLeft(r)' \in 0 .. (StepsLeft(r) - 1)]_vars
  BY <1>1
<1> QED
  BY <1>2, Coherence, PTL DEF Spec, RequestsAdvance
=============================================================================
