--------------------------- MODULE SessionsProofs ---------------------------
(* Theorems about Sessions, for all values of its constants. *)
EXTENDS Sessions, TLAPS

-----------------------------------------------------------------------------
(* Type correctness *)

Control == pc' \in [Requests -> Pcs] /\ reply' \in [Requests -> Replies]

LEMMA GotoTypes ==
  ASSUME TypeOK, NEW r \in Requests, NEW label \in Pcs, Goto(r, label)
  PROVE  Control
  BY DEF TypeOK, Goto, Control

LEMMA AnswerTypes ==
  ASSUME TypeOK, NEW r \in Requests, NEW kind \in Kinds,
         NEW token \in Tokens \cup {None}, Answer(r, kind, token)
  PROVE  Control
<1>1. "replied" \in Pcs
  BY DEF Pcs
<1>2. [kind |-> kind, token |-> token] \in Replies
  BY DEF Replies
<1> QED BY <1>1, <1>2 DEF TypeOK, Answer, Control

LEMMA NotAuthenticatedTypes ==
  ASSUME TypeOK, NEW r \in Requests, NotAuthenticated(r)
  PROVE  Control /\ snap' \in [Requests -> [id: Ids, row: Row] \cup {None}]
<1>1. "policies" \in Pcs /\ "unauthenticated" \in Kinds
  BY DEF Pcs, Kinds
<1> QED BY <1>1, GotoTypes, AnswerTypes DEF NotAuthenticated, TypeOK

LEMMA WrittenIsRow ==
  ASSUME TypeOK, NEW r \in Requests, NEW s \in Ids, Exists(s)
  PROVE  Written(r, s) \in Row
<1>1. store[s] \in Row /\ at[r] \in Nat /\ fresh[r] \in Tokens \cup {None}
  BY DEF TypeOK, Exists
<1>2. at[r] + IdleTimeout \in Nat
  BY <1>1, ConfigAssumption
<1>3. Extended(r, s) \in Row
  BY <1>1, <1>2 DEF Extended, Row
<1>4. fresh[r] # None => Rotated(r, s) \in Row
  BY <1>1, <1>3 DEF Rotated, Row
<1>5. [store[s] EXCEPT !.revoked = TRUE] \in Row
  BY <1>1 DEF Row
<1> QED BY <1>3, <1>4, <1>5 DEF Written

LEMMA PublishTypes ==
  ASSUME TypeOK, NEW r \in Requests, Publish(r)
  PROVE  /\ store' \in [Ids -> Row \cup {None}]
         /\ retired' \subseteq Tokens
         /\ pend' \in [Requests -> [Ids -> Row \cup {None}]]
  BY DEF TypeOK, Publish, Exists, Row, NoWrites

LEMMA TypeInit == Init => TypeOK
<1>1. "idle" \in Pcs /\ NoReply \in Replies
  BY DEF Pcs, NoReply, Replies, Kinds
<1> QED BY <1>1 DEF Init, TypeOK, NoWrites

LEMMA TypeStep ==
  ASSUME TypeOK, [Next]_vars, TargetsExist
  PROVE  TypeOK'
<1> USE DEF TypeOK, Envelope, Table, Control
<1>1. ASSUME NEW r \in Requests, Arrives(r) PROVE TypeOK'
  <2>1. {"find", "issue", "policies"} \subseteq Pcs /\ "denied" \in Kinds
    BY DEF Pcs, Kinds
  <2>2. ASSUME NEW o \in BuiltInActions \cup {"signIn"},
               NEW c \in Tokens \cup {None}, Arrive(r, o, c), Control
        PROVE  TypeOK'
    BY <2>2 DEF Arrive
  <2>3. SignIn(r) => TypeOK'
    BY <2>1, <2>2, GotoTypes DEF SignIn
  <2>4. ASSUME NEW o \in BuiltInActions, NEW c \in delivered, Present(r, o, c)
        PROVE  TypeOK'
    BY <2>1, <2>2, <2>4, GotoTypes DEF Present
  <2>5. ASSUME NEW o \in BuiltInActions, PresentNothing(r, o)
        PROVE  TypeOK'
    BY <2>1, <2>2, <2>5, GotoTypes, AnswerTypes DEF PresentNothing
  <2> QED BY <1>1, <2>3, <2>4, <2>5 DEF Arrives
<1>2. ASSUME NEW r \in Requests, FindSession(r) PROVE TypeOK'
  <2>1. Control /\ snap' \in [Requests -> [id: Ids, row: Row] \cup {None}]
    <3>1. CASE NotAuthenticated(r)
      BY <3>1, NotAuthenticatedTypes
    <3>2. ASSUME NEW s \in Ids, Exists(s), Goto(r, "expiry"),
                 snap' = [snap EXCEPT ![r] = [id |-> s, row |-> store[s]]]
          PROVE  <2>1!1 /\ <2>1!2
      <4>1. Control
        BY <3>2, GotoTypes DEF Pcs
      <4>2. [id |-> s, row |-> store[s]] \in [id: Ids, row: Row]
        BY <3>2 DEF Exists
      <4> QED BY <3>2, <4>1, <4>2
    <3> QED BY <1>2, <3>1, <3>2 DEF FindSession, Current
  <2> QED BY <1>2, <2>1 DEF FindSession
<1>3. ASSUME NEW r \in Requests, CheckExpiry(r) PROVE TypeOK'
  <2>1. "policies" \in Pcs
    BY DEF Pcs
  <2> QED BY <1>3, <2>1, GotoTypes, NotAuthenticatedTypes DEF CheckExpiry
<1>4. ASSUME NEW r \in Requests, PolicyRefuses(r) \/ PoliciesAllow(r) PROVE TypeOK'
  <2>1. /\ "begin" \in Pcs
        /\ {"denied", "redirect", "error", "success"} \subseteq Kinds
    BY DEF Pcs, Kinds
  <2>2. Control
    BY <1>4, <2>1, GotoTypes, AnswerTypes DEF PolicyRefuses, PoliciesAllow
  <2> QED BY <1>4, <2>2 DEF PolicyRefuses, PoliciesAllow
<1>5. ASSUME NEW r \in Requests, StartRefresh(r) PROVE TypeOK'
  <2>1. "write" \in Pcs /\ "unauthenticated" \in Kinds
    BY DEF Pcs, Kinds
  <2>2. Control
    BY <1>5, <2>1, GotoTypes, AnswerTypes DEF StartRefresh
  <2>3. snap[r].id \in Ids
    BY <1>5 DEF StartRefresh, TargetsExist, ActsOnOwnSessions
  <2>4. \/ UNCHANGED <<at, want>>
        \/ /\ at' = [at EXCEPT ![r] = now]
           /\ want' = [want EXCEPT ![r] = {snap[r].id}]
    BY <1>5 DEF StartRefresh
  <2>5. \/ UNCHANGED <<fresh, issued>>
        \/ \E t \in Tokens \ issued : /\ fresh' = [fresh EXCEPT ![r] = t]
                                      /\ issued' = issued \cup {t}
    BY <1>5 DEF StartRefresh
  <2>6. issued' \subseteq Tokens /\ fresh' \in [Requests -> Tokens \cup {None}]
    <3>1. CASE UNCHANGED <<fresh, issued>>
      BY <3>1
    <3>2. CASE \E t \in Tokens \ issued : /\ fresh' = [fresh EXCEPT ![r] = t]
                                          /\ issued' = issued \cup {t}
      <4>1. PICK t \in Tokens \ issued : /\ fresh' = [fresh EXCEPT ![r] = t]
                                         /\ issued' = issued \cup {t}
        BY <3>2
      <4>2. issued' \subseteq Tokens
        BY <4>1
      <4>3. fresh' \in [Requests -> Tokens \cup {None}]
        BY <4>1
      <4> QED BY <4>2, <4>3
    <3> QED BY <2>5, <3>1, <3>2
  <2>7. at' \in [Requests -> Nat]
    BY <2>4
  <2>8. want' \in [Requests -> SUBSET Ids]
    <3>1. {snap[r].id} \in SUBSET Ids
      BY <2>3
    <3>2. CASE want' = want
      BY <3>2
    <3>3. CASE want' = [want EXCEPT ![r] = {snap[r].id}]
      BY <3>1, <3>3
    <3> QED BY <2>4, <3>2, <3>3
  <2> QED BY <1>5, <2>2, <2>6, <2>7, <2>8 DEF StartRefresh
<1>6. ASSUME NEW r \in Requests, StartRevocation(r) PROVE TypeOK'
  <2>1. Control
    BY <1>6, GotoTypes DEF StartRevocation, Pcs
  <2>2. snap[r].id \in Ids
    BY <1>6 DEF StartRevocation, TargetsExist, ActsOnOwnSessions
  <2> QED BY <1>6, <2>1, <2>2 DEF StartRevocation, RevocationTargets
<1>7. ASSUME NEW r \in Requests, NEW s \in Ids, UpdateRow(r, s) PROVE TypeOK'
  <2>1. Exists(s)
    BY <1>7 DEF UpdateRow, TargetsExist, ActsOnOwnSessions
  <2>2. Written(r, s) \in Row
    BY <2>1, WrittenIsRow
  <2>3. pend' \in [Requests -> [Ids -> Row \cup {None}]]
    BY <1>7, <2>2 DEF UpdateRow
  <2> QED BY <1>7, <2>3 DEF UpdateRow
<1>8. ASSUME NEW r \in Requests, UpdateEnds(r) PROVE TypeOK'
  <2>1. Control
    BY <1>8, GotoTypes DEF UpdateEnds, Pcs
  <2> QED BY <1>8, <2>1 DEF UpdateEnds
<1>9. ASSUME NEW r \in Requests, IssueSession(r) PROVE TypeOK'
  <2>1. Control
    BY <1>9, GotoTypes DEF IssueSession, Pcs
  <2>2. PICK s \in Ids, u \in Users, t \in Tokens \ issued :
          /\ pend' = [pend EXCEPT ![r][s] =
                [user |-> u, token |-> t, rotated |-> now,
                 expires |-> now + AbsoluteLifetime,
                 idle |-> now + IdleTimeout, revoked |-> FALSE]]
          /\ fresh' = [fresh EXCEPT ![r] = t]
          /\ issued' = issued \cup {t}
    BY <1>9 DEF IssueSession
  <2>3. [user |-> u, token |-> t, rotated |-> now,
         expires |-> now + AbsoluteLifetime,
         idle |-> now + IdleTimeout, revoked |-> FALSE] \in Row
    BY ConfigAssumption DEF Row
  <2>4. pend' \in [Requests -> [Ids -> Row \cup {None}]]
    BY <2>2, <2>3
  <2> QED BY <1>9, <2>1, <2>2, <2>4 DEF IssueSession
<1>10. ASSUME NEW r \in Requests, Commit(r) PROVE TypeOK'
  <2>1. {"success", "unauthenticated"} \subseteq Kinds
    BY DEF Kinds
  <2>2. Control
    BY <1>10, <2>1, AnswerTypes DEF Commit, CommitAnswer
  <2> QED BY <1>10, <2>2, PublishTypes DEF Commit
<1>11. ASSUME NEW r \in Requests, CommitFails(r) PROVE TypeOK'
  <2>1. Control
    BY <1>11, AnswerTypes DEF CommitFails, Kinds
  <2>2. \/ Publish(r)
        \/ pend' = [pend EXCEPT ![r] = NoWrites] /\ UNCHANGED <<store, retired>>
    BY <1>11 DEF CommitFails
  <2>3. NoWrites \in [Ids -> Row \cup {None}]
    BY DEF NoWrites
  <2>4. /\ store' \in [Ids -> Row \cup {None}]
        /\ retired' \subseteq Tokens
        /\ pend' \in [Requests -> [Ids -> Row \cup {None}]]
    BY <2>2, <2>3, PublishTypes
  <2> QED BY <1>11, <2>1, <2>4 DEF CommitFails
<1>12. ASSUME NEW r \in Requests, Fail(r) PROVE TypeOK'
  <2>1. Control
    BY <1>12, AnswerTypes DEF Fail, Kinds
  <2> QED BY <1>12, <2>1 DEF Fail, NoWrites
<1>13. ASSUME NEW r \in Requests, Receive(r) \/ Abandon(r) PROVE TypeOK'
  <2>1. "idle" \in Pcs /\ NoReply \in Replies
    BY DEF Pcs, NoReply, Replies, Kinds
  <2>2. delivered' \subseteq Tokens
    BY <1>13 DEF Receive, Abandon, Replies
  <2>3. Forget(r)
    BY <1>13 DEF Receive, Abandon
  <2>4. NoWrites \in [Ids -> Row \cup {None}]
    BY DEF NoWrites
  <2>5. Control
    BY <2>1, <2>3 DEF Forget
  <2>6. /\ op' \in [Requests -> BuiltInActions \cup {"none", "signIn"}]
        /\ cred' \in [Requests -> Tokens \cup {None}]
        /\ snap' \in [Requests -> [id: Ids, row: Row] \cup {None}]
        /\ at' \in [Requests -> Nat]
        /\ fresh' \in [Requests -> Tokens \cup {None}]
        /\ want' \in [Requests -> SUBSET Ids]
    BY <2>3 DEF Forget
  <2>7. /\ pend' \in [Requests -> [Ids -> Row \cup {None}]]
        /\ arrival' \in [Requests -> [Ids -> Row \cup {None}]]
        /\ since' \in [Requests -> Nat]
    BY <2>3, <2>4 DEF Forget
  <2> QED BY <2>2, <2>3, <2>5, <2>6, <2>7 DEF Forget
<1>14. ASSUME Tick PROVE TypeOK'
  BY <1>14 DEF Tick
<1>15. CASE UNCHANGED vars
  BY <1>15 DEF vars
<1> QED
  BY <1>1, <1>2, <1>3, <1>4, <1>5, <1>6, <1>7, <1>8, <1>9, <1>10, <1>11, <1>12,
     <1>13, <1>14, <1>15 DEF Next, Handle

-----------------------------------------------------------------------------
(* What a step of one request leaves alone *)

Step(r) ==
    \/ Arrives(r) \/ Handle(r)
    \/ \E s \in Ids : UpdateRow(r, s)
    \/ CommitFails(r) \/ Fail(r)
    \/ Receive(r) \/ Abandon(r)

SameRequest(q) ==
    /\ pc'[q] = pc[q] /\ op'[q] = op[q] /\ snap'[q] = snap[q]
    /\ at'[q] = at[q] /\ fresh'[q] = fresh[q]
    /\ want'[q] = want[q] /\ pend'[q] = pend[q]

\* A request's step changes no other request.
LEMMA OthersUnchanged ==
  ASSUME TypeOK, NEW r \in Requests, Step(r), NEW q \in Requests \ {r}
  PROVE  SameRequest(q)
<1> USE DEF TypeOK, SameRequest, Answer, Goto, NotAuthenticated, Envelope
<1>1. CASE Arrives(r)
  BY <1>1 DEF Arrives, SignIn, Present, PresentNothing, Arrive
<1>2. CASE FindSession(r)
  BY <1>2 DEF FindSession
<1>3. CASE CheckExpiry(r)
  BY <1>3 DEF CheckExpiry
<1>4. CASE PolicyRefuses(r) \/ PoliciesAllow(r)
  BY <1>4 DEF PolicyRefuses, PoliciesAllow
<1>5. CASE StartRefresh(r) \/ StartRevocation(r)
  BY <1>5 DEF StartRefresh, StartRevocation
<1>6. CASE IssueSession(r)
  BY <1>6 DEF IssueSession
<1>7. CASE UpdateEnds(r) \/ \E s \in Ids : UpdateRow(r, s)
  BY <1>7 DEF UpdateEnds, UpdateRow
<1>8. CASE Commit(r) \/ CommitFails(r)
  BY <1>8 DEF Commit, CommitFails, Publish, CommitAnswer
<1>9. CASE Fail(r)
  BY <1>9 DEF Fail
<1>10. CASE Receive(r) \/ Abandon(r)
  BY <1>10 DEF Receive, Abandon, Forget
<1> QED
  BY <1>1, <1>2, <1>3, <1>4, <1>5, <1>6, <1>7, <1>8, <1>9, <1>10 DEF Step, Handle

\* Only a COMMIT changes the table.
LEMMA OnlyCommitPublishes ==
  ASSUME NEW r \in Requests, Step(r)
  PROVE  \/ UNCHANGED <<store, retired>>
         \/ pc[r] = "commit" /\ Publish(r)
<1> USE DEF Table
<1>1. CASE Arrives(r)
  BY <1>1 DEF Arrives, SignIn, Present, PresentNothing, Arrive
<1>2. CASE FindSession(r) \/ CheckExpiry(r) \/ PolicyRefuses(r) \/ PoliciesAllow(r)
  BY <1>2 DEF FindSession, CheckExpiry, PolicyRefuses, PoliciesAllow
<1>3. CASE StartRefresh(r) \/ StartRevocation(r) \/ IssueSession(r)
  BY <1>3 DEF StartRefresh, StartRevocation, IssueSession
<1>4. CASE UpdateEnds(r) \/ \E s \in Ids : UpdateRow(r, s)
  BY <1>4 DEF UpdateEnds, UpdateRow
<1>5. CASE Commit(r) \/ CommitFails(r)
  BY <1>5 DEF Commit, CommitFails
<1>6. CASE Fail(r) \/ Receive(r) \/ Abandon(r)
  BY <1>6 DEF Fail, Receive, Abandon, Forget
<1> QED BY <1>1, <1>2, <1>3, <1>4, <1>5, <1>6 DEF Step, Handle

\* What a COMMIT may do to a row that exists, and to one that does not.
LEMMA PublishEffect ==
  ASSUME Coherent, NEW r \in Requests, Publish(r), NEW s \in Ids
  PROVE  /\ pend[r][s] = None => store'[s] = store[s]
         /\ Exists(s) =>
              /\ store'[s] # None
              /\ store'[s].user = store[s].user
              /\ store'[s].expires = store[s].expires
              /\ store[s].revoked => store'[s].revoked
              /\ \/ store'[s].token = store[s].token
                 \/ op[r] = "refreshSession" /\ fresh[r] # None
                    /\ store'[s].token = fresh[r]
         /\ ~Exists(s) /\ store'[s] # None =>
              /\ op[r] = "signIn" /\ store'[s].token = fresh[r]
              /\ ~store'[s].revoked
<1> USE DEF Coherent, TypeOK, Exists
<1>1. store'[s] = IF pend[r][s] # None THEN pend[r][s] ELSE store[s]
  BY DEF Publish
<1>2. CASE pend[r][s] = None
  BY <1>1, <1>2
<1>3. CASE pend[r][s] # None
  <2>1. HeldBy(r, s) /\ store'[s] = pend[r][s]
    BY <1>1, <1>3 DEF PendingIsCurrent
  <2>2. CASE op[r] = "signIn"
    BY <1>3, <2>1, <2>2 DEF HeldBy
  <2>3. CASE op[r] # "signIn"
    <3>1. Exists(s) /\ store[s] \in Row /\ store'[s] = Written(r, s)
      BY <2>1, <2>3 DEF HeldBy
    <3>2. Written(r, s) \in Row
      BY <3>1, WrittenIsRow
    <3>3. store'[s] # None
      BY <3>1, <3>2, NoneAssumption
    <3>4. /\ Written(r, s).user = store[s].user
          /\ Written(r, s).expires = store[s].expires
          /\ store[s].revoked => Written(r, s).revoked
          /\ \/ Written(r, s).token = store[s].token
             \/ op[r] = "refreshSession" /\ fresh[r] # None
                /\ Written(r, s).token = fresh[r]
      BY <3>1 DEF Written, Rotated, Extended, Row
    <3> QED BY <1>3, <3>1, <3>3, <3>4
  <2> QED BY <2>2, <2>3
<1> QED BY <1>2, <1>3

\* The table as another request's statement and snapshot see it is kept.
KeptFor(q) ==
    \A s \in Ids :
       /\ pend[q][s] # None => store'[s] = store[s]
       /\ Exists(s) => store'[s] # None /\ store'[s].user = store[s].user

LEMMA TableKept ==
  ASSUME Coherent, NEW r \in Requests, Step(r), NEW q \in Requests \ {r}
  PROVE  KeptFor(q)
<1>1. CASE UNCHANGED <<store, retired>>
  BY <1>1 DEF KeptFor, Exists
<1>2. CASE Publish(r)
  <2>1. \A s \in Ids : pend[q][s] # None => pend[r][s] = None
    BY DEF Coherent, LocksAreExclusive
  <2> QED BY <1>2, <2>1, PublishEffect DEF KeptFor
<1> QED BY <1>1, <1>2, OnlyCommitPublishes

LEMMA OthersHold ==
  ASSUME Coherent, NEW q \in Requests, SameRequest(q), KeptFor(q)
  PROVE  /\ ActsOnOwnSessions(q)'
         /\ \A s \in Ids : pend'[q][s] # None => HeldBy(q, s)'
<1> USE DEF SameRequest, KeptFor, Coherent, TypeOK
<1>1. ActsOnOwnSessions(q)'
  <2>1. ActsOnOwnSessions(q)
    BY DEF TargetsExist
  <2>2. snap[q] # None => snap[q].id \in Ids
    OBVIOUS
  <2> QED BY <2>1, <2>2 DEF ActsOnOwnSessions, Exists, Writing
<1>2. ASSUME NEW s \in Ids, pend'[q][s] # None
      PROVE  HeldBy(q, s)'
  <2>1. HeldBy(q, s) /\ store'[s] = store[s]
    BY <1>2 DEF PendingIsCurrent
  <2>2. Written(q, s)' = Written(q, s)
    BY <2>1 DEF Written, Rotated, Extended
  <2> QED BY <2>1, <2>2 DEF HeldBy, Exists, Writing
<1> QED BY <1>1, <1>2

-----------------------------------------------------------------------------
(* The inductive invariant, conjunct by conjunct *)

LEMMA LocksStep ==
  ASSUME Coherent, NEW r \in Requests, Step(r)
  PROVE  LocksAreExclusive'
<1> USE DEF Coherent, TypeOK, LocksAreExclusive, NoWrites
<1>1. \A q \in Requests \ {r} : pend'[q] = pend[q]
  BY OthersUnchanged DEF SameRequest
<1>2. ASSUME NEW s \in Ids, pend'[r][s] # None, pend[r][s] = None
      PROVE  ~Locked(r, s)
  <2>1. CASE \E i \in Ids : UpdateRow(r, i)
    BY <1>2, <2>1 DEF UpdateRow
  <2>2. CASE IssueSession(r)
    BY <1>2, <2>2 DEF IssueSession
  <2>3. CASE Arrives(r)
    BY <1>2, <2>3 DEF Arrives, SignIn, Present, PresentNothing, Arrive
  <2>4. CASE FindSession(r) \/ CheckExpiry(r) \/ PolicyRefuses(r) \/ PoliciesAllow(r)
    BY <1>2, <2>4 DEF FindSession, CheckExpiry, PolicyRefuses, PoliciesAllow
  <2>5. CASE StartRefresh(r) \/ StartRevocation(r) \/ UpdateEnds(r)
    BY <1>2, <2>5 DEF StartRefresh, StartRevocation, UpdateEnds
  <2>6. CASE Commit(r) \/ CommitFails(r)
    BY <1>2, <2>6 DEF Commit, CommitFails, Publish
  <2>7. CASE Fail(r) \/ Receive(r) \/ Abandon(r)
    BY <1>2, <2>7 DEF Fail, Receive, Abandon, Forget
  <2> QED BY <2>1, <2>2, <2>3, <2>4, <2>5, <2>6, <2>7 DEF Step, Handle
<1>3. ASSUME NEW q \in Requests, NEW s \in Ids,
             pend'[r][s] # None, pend'[q][s] # None
      PROVE  q = r
  BY <1>1, <1>2, <1>3 DEF Locked
<1>4. ASSUME NEW q \in Requests \ {r}, NEW p \in Requests \ {r}, NEW s \in Ids,
             pend'[p][s] # None, pend'[q][s] # None
      PROVE  p = q
  BY <1>1, <1>4
<1>5. ASSUME NEW p \in Requests, NEW q \in Requests, NEW s \in Ids,
             pend'[p][s] # None, pend'[q][s] # None
      PROVE  p = q
  BY <1>3, <1>4, <1>5, ZenonT(60)
<1> QED BY <1>5

LEMMA OwnSessionsStep ==
  ASSUME Coherent, NEW r \in Requests, Step(r)
  PROVE  ActsOnOwnSessions(r)'
<1> USE DEF Coherent, TypeOK, Answer, Goto, Envelope, Table, Writing, Exists,
            BuiltInActions
<1>0. ActsOnOwnSessions(r) /\ (snap[r] # None => snap[r].id \in Ids)
  BY DEF TargetsExist
<1>1. CASE Arrives(r)
  BY <1>0, <1>1 DEF Arrives, SignIn, Present, PresentNothing, Arrive,
                    ActsOnOwnSessions
<1>2. CASE FindSession(r)
  <2>1. CASE NotAuthenticated(r)
    BY <1>0, <1>2, <2>1 DEF FindSession, Current, NotAuthenticated, ActsOnOwnSessions
  <2>2. ASSUME NEW s \in Ids, Exists(s), Goto(r, "expiry"),
               snap' = [snap EXCEPT ![r] = [id |-> s, row |-> store[s]]]
        PROVE  ActsOnOwnSessions(r)'
    <3>1. /\ snap'[r].id = s /\ snap'[r].row.user = store[s].user
          /\ snap'[r] # None
      BY <2>2, NoneAssumption
    <3>2. pc[r] = "find" /\ pc'[r] = "expiry" /\ UNCHANGED <<op, want, store>>
      BY <1>2, <2>2 DEF FindSession
    <3> QED BY <1>0, <2>2, <3>1, <3>2 DEF ActsOnOwnSessions
  <2> QED BY <1>2, <2>1, <2>2 DEF FindSession, Current
<1>3. CASE CheckExpiry(r)
  BY <1>0, <1>3 DEF CheckExpiry, NotAuthenticated, ActsOnOwnSessions
<1>4. CASE PolicyRefuses(r) \/ PoliciesAllow(r)
  BY <1>0, <1>4 DEF PolicyRefuses, PoliciesAllow, ActsOnOwnSessions
<1>5. CASE StartRefresh(r)
  BY <1>0, <1>5 DEF StartRefresh, ActsOnOwnSessions
<1>6. CASE StartRevocation(r)
  BY <1>0, <1>6 DEF StartRevocation, RevocationTargets, ActsOnOwnSessions
<1>7. CASE IssueSession(r)
  BY <1>0, <1>7 DEF IssueSession, ActsOnOwnSessions
<1>8. CASE UpdateEnds(r) \/ \E s \in Ids : UpdateRow(r, s)
  BY <1>0, <1>8 DEF UpdateEnds, UpdateRow, ActsOnOwnSessions
<1>9. CASE Commit(r) \/ CommitFails(r)
  <2>1. \A s \in Ids : Exists(s) => /\ store'[s] # None
                                    /\ store'[s].user = store[s].user
    BY <1>9, PublishEffect DEF Commit, CommitFails
  <2>2. pc'[r] = "replied" /\ UNCHANGED <<op, snap, want>>
    BY <1>9 DEF Commit, CommitFails, CommitAnswer
  <2>3. want[r] = {}
    BY <1>0, <1>9 DEF Commit, CommitFails, ActsOnOwnSessions
  <2> QED BY <1>0, <2>1, <2>2, <2>3 DEF ActsOnOwnSessions
<1>10. CASE Fail(r)
  BY <1>0, <1>10 DEF Fail, ActsOnOwnSessions
<1>11. CASE Receive(r) \/ Abandon(r)
  BY <1>0, <1>11 DEF Receive, Abandon, Forget, ActsOnOwnSessions
<1> QED
  BY <1>1, <1>2, <1>3, <1>4, <1>5, <1>6, <1>7, <1>8, <1>9, <1>10, <1>11
     DEF Step, Handle

LEMMA OwnRowsStep ==
  ASSUME Coherent, NEW r \in Requests, Step(r), NEW s \in Ids, pend'[r][s] # None
  PROVE  HeldBy(r, s)'
<1> USE DEF Coherent, TypeOK, Answer, Goto, Envelope, Table, Writing, Exists,
            BuiltInActions, NoWrites
<1>0. ActsOnOwnSessions(r) /\ (pend[r][s] # None => HeldBy(r, s))
  BY DEF TargetsExist, PendingIsCurrent
<1>1. CASE pend[r][s] # None /\ ~\E i \in Ids : UpdateRow(r, i)
  <2>1. UpdateEnds(r)
    BY <1>0, <1>1 DEF Step, Handle, HeldBy, Arrives, SignIn, Present,
       PresentNothing, Arrive, FindSession, CheckExpiry, PolicyRefuses,
       PoliciesAllow, StartRefresh, StartRevocation, IssueSession, Commit,
       CommitFails, Publish, Fail, Receive, Abandon, Forget
  <2>2. Written(r, s)' = Written(r, s)
    BY <2>1 DEF UpdateEnds, Written, Rotated, Extended
  <2> QED BY <1>0, <1>1, <2>1, <2>2 DEF UpdateEnds, HeldBy
<1>2. ASSUME NEW i \in Ids, UpdateRow(r, i) PROVE HeldBy(r, s)'
  <2>1. op[r] # "signIn" /\ pc[r] = "write" /\ Exists(i)
    BY <1>0, <1>2 DEF UpdateRow, ActsOnOwnSessions
  <2>2. /\ UNCHANGED <<store, pc, op, snap, at, fresh>>
        /\ want'[r] = want[r] \ {i}
        /\ i # s => pend'[r][s] = pend[r][s]
        /\ pend[r][s] # pend'[r][s] => i = s /\ pend'[r][s] = Written(r, i)
    BY <1>2 DEF UpdateRow
  <2>3. Written(r, s)' = Written(r, s)
    BY <2>2 DEF Written, Rotated, Extended
  <2>4. CASE pend'[r][s] = pend[r][s]
    BY <1>0, <2>1, <2>2, <2>3, <2>4 DEF HeldBy
  <2>5. CASE i = s /\ pend'[r][s] = Written(r, s)
    BY <1>0, <1>2, <2>1, <2>2, <2>3, <2>5 DEF HeldBy, ActsOnOwnSessions, UpdateRow
  <2> QED BY <2>2, <2>4, <2>5
<1>3. CASE pend[r][s] = None /\ ~\E i \in Ids : UpdateRow(r, i)
  <2>1. IssueSession(r)
    BY <1>3 DEF Step, Handle, Arrives, SignIn, Present,
       PresentNothing, Arrive, FindSession, CheckExpiry, PolicyRefuses,
       PoliciesAllow, StartRefresh, StartRevocation, Commit, UpdateEnds,
       CommitFails, Publish, Fail, Receive, Abandon, Forget
  <2>2. op[r] = "signIn" /\ pc[r] = "issue"
    BY <1>0, <2>1 DEF IssueSession, ActsOnOwnSessions
  <2>3. \A i \in Ids : pend[r][i] = None
    BY <2>2 DEF PendingIsCurrent, HeldBy
  <2>4. PICK i \in Ids, u \in Users, t \in Tokens \ issued :
          /\ ~Exists(i)
          /\ pend' = [pend EXCEPT ![r][i] =
                [user |-> u, token |-> t, rotated |-> now,
                 expires |-> now + AbsoluteLifetime,
                 idle |-> now + IdleTimeout, revoked |-> FALSE]]
          /\ fresh' = [fresh EXCEPT ![r] = t]
    BY <2>1 DEF IssueSession
  <2>5. i = s /\ \A j \in Ids \ {s} : pend'[r][j] = None
    BY <2>3, <2>4
  <2>6. pend'[r][s].token = fresh'[r] /\ ~pend'[r][s].revoked
    BY <2>4, <2>5
  <2>7. pc'[r] = "commit" /\ UNCHANGED <<op, store>>
    BY <2>1 DEF IssueSession
  <2> QED BY <2>2, <2>4, <2>5, <2>6, <2>7 DEF HeldBy
<1> QED BY <1>1, <1>2, <1>3

\* A COMMIT moves the request's token into the table and the one it replaces
\* among the retired.
LEMMA PublishTokens ==
  ASSUME Coherent, NEW r \in Requests, pc[r] = "commit", Publish(r)
  PROVE  /\ \A s \in Ids : store'[s] # None =>
              \/ Exists(s) /\ store'[s].token = store[s].token
              \/ fresh[r] # None /\ store'[s].token = fresh[r]
         /\ \A t \in retired' : \/ t \in retired
                                \/ \E s \in Ids : Exists(s) /\ store[s].token = t
<1>1. ASSUME NEW s \in Ids, store'[s] # None, ~Exists(s)
      PROVE  fresh[r] # None /\ store'[s].token = fresh[r]
  <2>1. store'[s].token = fresh[r] /\ store'[s] \in Row
    BY <1>1, PublishEffect, PublishTypes DEF Coherent
  <2> QED BY <2>1, NoneAssumption DEF Row
<1>2. \A s \in Ids : Exists(s) =>
         \/ store'[s].token = store[s].token
         \/ fresh[r] # None /\ store'[s].token = fresh[r]
  BY PublishEffect
<1>3. \A t \in retired' : \/ t \in retired
                          \/ \E s \in Ids : Exists(s) /\ store[s].token = t
  BY DEF Publish
<1> QED BY <1>1, <1>2, <1>3

LEMMA TokensStep ==
  ASSUME Coherent, NEW r \in Requests, Step(r)
  PROVE  TokensAccounted'
<1> USE DEF Coherent, TypeOK, TokensAccounted
<1>1. \A q \in Requests \ {r} : SameRequest(q)
  BY OthersUnchanged
<1>2. HoldsFreshToken(r) /\ \A q \in Requests : fresh[q] \in Tokens \cup {None}
  OBVIOUS
<1>3. ASSUME Publish(r), pc[r] = "commit", UNCHANGED <<issued, fresh, op>>,
             pc'[r] = "replied"
      PROVE  TokensAccounted'
  <2>1. /\ \A s \in Ids : store'[s] # None =>
              \/ Exists(s) /\ store'[s].token = store[s].token
              \/ fresh[r] # None /\ store'[s].token = fresh[r]
        /\ \A t \in retired' : \/ t \in retired
                               \/ \E s \in Ids : Exists(s) /\ store[s].token = t
    BY <1>3, PublishTokens
  <2>2. fresh[r] # None => fresh[r] \in issued
    BY <1>2, <1>3 DEF HoldsFreshToken, Writing
  <2>3. retired' \subseteq issued'
    <3>1. \A s \in Ids : Exists(s) => store[s].token \in issued
      OBVIOUS
    <3>2. issued' = issued /\ retired \subseteq issued
      BY <1>3
    <3> QED BY <2>1, <3>1, <3>2
  <2>6. \A s \in Ids : Exists(s)' => store'[s].token \in issued'
    BY <1>3, <2>1, <2>2 DEF Exists
  <2>4. HoldsFreshToken(r)'
    BY <1>2, <1>3 DEF HoldsFreshToken, Writing
  <2>5. ASSUME NEW q \in Requests \ {r} PROVE HoldsFreshToken(q)'
    <3>1. HoldsFreshToken(q) /\ SameRequest(q)
      BY <1>1
    <3>2. Writing(q) /\ fresh[q] # None =>
             /\ fresh[q] # fresh[r]
             /\ fresh[q] \notin retired'
             /\ \A s \in Ids : store'[s] # None => store'[s].token # fresh[q]
      BY <1>3, <2>1, <3>1 DEF HoldsFreshToken, Writing
    <3> QED BY <1>1, <1>3, <3>1, <3>2
            DEF HoldsFreshToken, Writing, SameRequest, Exists
  <2> QED BY <2>3, <2>4, <2>5, <2>6
<1>4. ASSUME NEW t \in Tokens \ issued, issued' = issued \cup {t},
             fresh' = [fresh EXCEPT ![r] = t], UNCHANGED <<store, retired, op>>,
             pc[r] \in {"issue", "begin"}, pc'[r] \in {"write", "commit"},
             op[r] \notin {"logout", "logoutAll"}
      PROVE  TokensAccounted'
  <2>1. ASSUME NEW q \in Requests \ {r} PROVE HoldsFreshToken(q)'
    BY <1>1, <1>4, <2>1 DEF HoldsFreshToken, Writing, SameRequest, Exists
  <2>2. HoldsFreshToken(r)'
    BY <1>1, <1>2, <1>4, NoneAssumption
       DEF HoldsFreshToken, Writing, SameRequest, Exists, Pcs
  <2> QED BY <1>4, <2>1, <2>2 DEF Exists
<1>5. ASSUME UNCHANGED <<store, issued, retired>>, HoldsFreshToken(r)',
             Writing(r)' => Writing(r) \/ fresh'[r] = None,
             fresh'[r] \in {fresh[r], None}
      PROVE  TokensAccounted'
  <2>1. ASSUME NEW q \in Requests \ {r} PROVE HoldsFreshToken(q)'
    <3>1. /\ SameRequest(q) /\ HoldsFreshToken(q)
          /\ \A p \in Requests \ {r} : SameRequest(p)
      BY <1>1, <2>1
    <3>2. SUFFICES ASSUME Writing(q)', fresh'[q] # None
                   PROVE  \A p \in Requests \ {q} : Writing(p)' => fresh'[p] # fresh'[q]
      BY <1>5, <2>1, <3>1 DEF HoldsFreshToken, Writing, SameRequest, Exists
    <3>3. Writing(q) /\ fresh'[q] = fresh[q]
      BY <3>1, <3>2 DEF Writing, SameRequest
    <3>4. \A p \in Requests \ {q} : Writing(p) => fresh[p] # fresh[q]
      BY <2>1, <3>1, <3>2, <3>3 DEF HoldsFreshToken
    <3>5. ASSUME Writing(r)' PROVE fresh'[r] # fresh'[q]
      BY <1>5, <2>1, <3>2, <3>3, <3>4, <3>5
    <3>6. ASSUME NEW p \in Requests \ {q, r}, Writing(p)' PROVE fresh'[p] # fresh'[q]
      BY <3>1, <3>3, <3>4, <3>6 DEF Writing, SameRequest
    <3> QED BY <3>5, <3>6
  <2> QED BY <1>5, <2>1 DEF Exists
<1>6. ASSUME UNCHANGED <<store, issued, retired, fresh>>, pc'[r] \in Pcs,
             Writing(r)' => Writing(r) \/ fresh[r] = None,
             fresh[r] = None \/ (pc'[r] \in {"write", "commit", "replied"} /\ op' = op)
      PROVE  TokensAccounted'
  <2>1. HoldsFreshToken(r)'
    BY <1>1, <1>2, <1>6 DEF HoldsFreshToken, Writing, SameRequest, Exists
  <2> QED BY <1>5, <1>6, <2>1
<1> USE DEF Answer, Goto, Envelope, Table, Writing
<1>7. CASE Arrives(r)
  BY <1>2, <1>6, <1>7 DEF Arrives, SignIn, Present, PresentNothing, Arrive,
                          HoldsFreshToken, Pcs
<1>8. CASE FindSession(r) \/ CheckExpiry(r) \/ PolicyRefuses(r) \/ PoliciesAllow(r)
  BY <1>2, <1>6, <1>8 DEF FindSession, CheckExpiry, PolicyRefuses, PoliciesAllow,
                          NotAuthenticated, HoldsFreshToken, Pcs
<1>9. CASE StartRefresh(r)
  <2>1. CASE UNCHANGED <<issued, fresh>>
    BY <1>2, <1>6, <1>9, <2>1 DEF StartRefresh, HoldsFreshToken, Pcs
  <2>2. CASE \E t \in Tokens \ issued : /\ fresh' = [fresh EXCEPT ![r] = t]
                                        /\ issued' = issued \cup {t}
                                        /\ Goto(r, "write")
    BY <1>4, <1>9, <2>2 DEF StartRefresh
  <2> QED BY <1>9, <2>1, <2>2 DEF StartRefresh
<1>10. CASE StartRevocation(r)
  BY <1>2, <1>6, <1>10 DEF StartRevocation, HoldsFreshToken, Pcs
<1>11. CASE IssueSession(r)
  <2>1. op[r] = "signIn"
    BY <1>11 DEF IssueSession, TargetsExist, ActsOnOwnSessions
  <2> QED BY <1>4, <1>11, <2>1 DEF IssueSession
<1>12. CASE UpdateEnds(r) \/ \E s \in Ids : UpdateRow(r, s)
  BY <1>2, <1>6, <1>12 DEF UpdateEnds, UpdateRow, HoldsFreshToken, Pcs
<1>13. CASE Commit(r)
  BY <1>3, <1>13 DEF Commit, CommitAnswer
<1>14. CASE CommitFails(r)
  <2>1. CASE Publish(r)
    BY <1>3, <1>14, <2>1 DEF CommitFails
  <2>2. CASE UNCHANGED <<store, retired>>
    BY <1>2, <1>6, <1>14, <2>2 DEF CommitFails, HoldsFreshToken, Pcs
  <2> QED BY <1>14, <2>1, <2>2 DEF CommitFails
<1>15. CASE Fail(r)
  BY <1>2, <1>6, <1>15 DEF Fail, HoldsFreshToken, Pcs
<1>16. CASE Receive(r) \/ Abandon(r)
  <2>1. HoldsFreshToken(r)'
    BY <1>16 DEF Receive, Abandon, Forget, HoldsFreshToken
  <2> QED BY <1>5, <1>16, <2>1 DEF Receive, Abandon, Forget
<1> QED
  BY <1>7, <1>8, <1>9, <1>10, <1>11, <1>12, <1>13, <1>14, <1>15, <1>16
     DEF Step, Handle

LEMMA CoherentInit == Init => Coherent
<1> SUFFICES ASSUME Init PROVE Coherent
  OBVIOUS
<1>1. TypeOK
  BY TypeInit
<1>2. LocksAreExclusive /\ PendingIsCurrent
  BY DEF Init, LocksAreExclusive, PendingIsCurrent, NoWrites
<1>3. TargetsExist
  BY DEF Init, TargetsExist, ActsOnOwnSessions, Writing
<1>4. TokensAccounted
  BY DEF Init, TokensAccounted, HoldsFreshToken, Writing, Exists
<1> QED BY <1>1, <1>2, <1>3, <1>4 DEF Coherent

LEMMA CoherentStep == Coherent /\ [Next]_vars => Coherent'
<1> SUFFICES ASSUME Coherent, [Next]_vars PROVE Coherent'
  OBVIOUS
<1>1. TypeOK'
  BY TypeStep DEF Coherent
<1>2. ASSUME NEW r \in Requests, Step(r) PROVE Coherent'
  <2>1. \A q \in Requests \ {r} : SameRequest(q) /\ KeptFor(q)
    BY <1>2, OthersUnchanged, TableKept DEF Coherent
  <2>2. PendingIsCurrent'
    BY <1>2, <2>1, OthersHold, OwnRowsStep DEF PendingIsCurrent
  <2>3. TargetsExist'
    BY <1>2, <2>1, OthersHold, OwnSessionsStep DEF TargetsExist
  <2> QED BY <1>1, <1>2, <2>2, <2>3, LocksStep, TokensStep DEF Coherent
<1>3. CASE Tick \/ UNCHANGED vars
  <2>1. UNCHANGED <<store, issued, retired, pc, op, snap, at, fresh, want, pend>>
    BY <1>3 DEF Tick, vars, Table, Envelope
  <2>2. \A q \in Requests : SameRequest(q) /\ KeptFor(q)
    BY <2>1 DEF SameRequest, KeptFor, Exists
  <2>3. PendingIsCurrent' /\ TargetsExist'
    BY <2>2, OthersHold DEF PendingIsCurrent, TargetsExist
  <2>4. LocksAreExclusive' /\ TokensAccounted'
    BY <2>1 DEF Coherent, LocksAreExclusive, TokensAccounted, HoldsFreshToken,
                Writing, Exists
  <2> QED BY <1>1, <2>3, <2>4 DEF Coherent
<1> QED BY <1>2, <1>3 DEF Next, Step

\* The inductive invariant holds in every reachable state: transactions hold
\* disjoint rows that nobody else changes, every request works on sessions of
\* the user it validated, and every token is in one place.
THEOREM Coherence == Spec => []Coherent
  BY CoherentInit, CoherentStep, PTL DEF Spec

\* Every variable keeps its type.
THEOREM TypeCorrectness == Spec => []TypeOK
<1>1. Coherent => TypeOK
  BY DEF Coherent
<1> QED BY <1>1, Coherence, PTL

-----------------------------------------------------------------------------
(* The table implements the registry *)

LEMMA ListingIsSession ==
  ASSUME NEW row \in Row
  PROVE  Listing(row) \in Registry!Session /\ Listing(row) # None
<1>1. Listing(row) \in Registry!Session
  BY DEF Listing, Row, Registry!Session
<1>2. Listing(row) # None
  BY <1>1, NoneAssumption DEF Registry!Session, ListedRow
<1> QED BY <1>1, <1>2

LEMMA SessionWith ==
  ASSUME NEW session \in Registry!Session, NEW b \in BOOLEAN
  PROVE  [session EXCEPT !.revoked = b]
            = [user |-> session.user, token |-> session.token,
               expires |-> session.expires, revoked |-> b]
  BY DEF Registry!Session

LEMMA ListingRevoked ==
  ASSUME NEW row \in Row
  PROVE  /\ [row EXCEPT !.revoked = TRUE] \in Row
         /\ [row EXCEPT !.revoked = TRUE].token = row.token
         /\ Listing([row EXCEPT !.revoked = TRUE])
              = [Listing(row) EXCEPT !.revoked = TRUE]
<1> DEFINE revoked == [row EXCEPT !.revoked = TRUE]
<1>1. /\ revoked \in Row /\ revoked.token = row.token /\ revoked.user = row.user
      /\ revoked.expires = row.expires /\ revoked.revoked = TRUE
  BY DEF Row
<1>2. Listing(revoked) = [Listing(row) EXCEPT !.revoked = TRUE]
  <2> HIDE DEF revoked
  <2>1. Listing(revoked) = [user |-> row.user, token |-> row.token,
                            expires |-> row.expires, revoked |-> TRUE]
    BY <1>1 DEF Listing
  <2>2. [Listing(row) EXCEPT !.revoked = TRUE]
          = [user |-> row.user, token |-> row.token,
             expires |-> row.expires, revoked |-> TRUE]
    <3>1. Listing(row) \in Registry!Session
      BY ListingIsSession
    <3>2. [Listing(row) EXCEPT !.revoked = TRUE]
            = [user |-> Listing(row).user, token |-> Listing(row).token,
               expires |-> Listing(row).expires, revoked |-> TRUE]
      BY <3>1, SessionWith
    <3> QED BY <3>2 DEF Listing
  <2> QED BY <2>1, <2>2
<1> QED BY <1>1, <1>2

\* The COMMIT of a sign-in opens a session.
LEMMA SignInOpens ==
  ASSUME Coherent, NEW r \in Requests, pc[r] = "commit", Publish(r),
         op[r] = "signIn", NEW s \in Ids, pend[r][s] # None
  PROVE  Registry!Open(s)
<1> USE DEF Coherent, TypeOK
<1>1. HeldBy(r, s)
  BY DEF PendingIsCurrent
<1>2. /\ ~Exists(s) /\ pend[r][s].token = fresh[r] /\ ~pend[r][s].revoked
      /\ \A q \in Ids \ {s} : pend[r][q] = None
  BY <1>1 DEF HeldBy
<1>3. pend[r][s] \in Row /\ store' = [store EXCEPT ![s] = pend[r][s]]
  <2>1. pend[r][s] \in Row
    OBVIOUS
  <2>2. \A q \in Ids : store'[q] = IF q = s THEN pend[r][s] ELSE store[q]
    BY <1>2 DEF Publish
  <2>3. store' = [q \in Ids |-> store'[q]]
    BY DEF Publish
  <2> QED BY <2>1, <2>2, <2>3
<1>4. retired' = retired
  BY <1>2 DEF Publish
<1>5. fresh[r] \in Tokens \ retired
  BY <1>2, <1>3, NoneAssumption DEF Row, TokensAccounted, HoldsFreshToken, Writing
<1>6. \A q \in Ids : Exists(q) => store[q].token # fresh[r]
  BY <1>2, <1>3, NoneAssumption, ZenonT(60) DEF Row, TokensAccounted, HoldsFreshToken, Writing
<1>7. Listed' = [Listed EXCEPT ![s] = Listing(pend[r][s])]
  BY <1>3, NoneAssumption DEF Listed, Exists
<1>8. Listed'[s] = Listing(pend[r][s]) /\ Listed[s] = None
  BY <1>2, <1>7 DEF Listed
<1>9. Registry!Unused(fresh[r])
  BY <1>5, <1>6 DEF Registry!Unused, Registry!IsOpen, Listed, Listing
<1>10. Listing(pend[r][s]).token = fresh[r] /\ ~Listing(pend[r][s]).revoked
  BY <1>2 DEF Listing
<1>11. Listing(pend[r][s]) \in Registry!Session
  BY <1>3, ListingIsSession
<1> QED
  BY <1>4, <1>7, <1>8, <1>9, <1>10, <1>11 DEF Registry!Open, Registry!IsOpen

\* The COMMIT of a refresh rotates a session or leaves the listing alone.
LEMMA RefreshRotates ==
  ASSUME Coherent, NEW r \in Requests, pc[r] = "commit", Publish(r),
         op[r] = "refreshSession", NEW s \in Ids, pend[r][s] # None
  PROVE  \/ UNCHANGED <<Listed, retired>>
         \/ Registry!Rotate(s, fresh[r]) /\ fresh[r] \in Tokens
<1> USE DEF Coherent, TypeOK
<1>1. \A q \in Ids : pend[r][q] # None => HeldBy(r, q)
  BY DEF PendingIsCurrent
<1>2. Exists(s) /\ pend[r][s] = Written(r, s) /\ s = snap[r].id
  BY <1>1 DEF HeldBy
<1>3. \A q \in Ids \ {s} : pend[r][q] = None
  BY <1>1, <1>2 DEF HeldBy
<1>4. store[s] \in Row /\ Written(r, s) \in Row
  BY <1>2, WrittenIsRow DEF Exists
<1>5. store' = [store EXCEPT ![s] = Written(r, s)]
  BY <1>2, <1>3 DEF Publish
<1>6. Listed' = [Listed EXCEPT ![s] = Listing(Written(r, s))]
  BY <1>4, <1>5, NoneAssumption DEF Listed, Exists
<1>7. Listed[s] = Listing(store[s]) /\ Listed[s] # None
  BY <1>2, <1>4, ListingIsSession DEF Listed
<1>8. CASE fresh[r] = None
  <2>1. Listing(Written(r, s)) = Listing(store[s])
    BY <1>4, <1>8 DEF Written, Extended, Listing, Row
  <2>2. Listed' = Listed
    BY <1>6, <1>7, <2>1 DEF Listed
  <2>3. Written(r, s).token = store[s].token
    BY <1>4, <1>8 DEF Written, Extended, Row
  <2>4. retired' = retired
    BY <1>2, <1>3, <2>3 DEF Publish
  <2> QED BY <2>2, <2>4
<1>9. CASE fresh[r] # None
  <2>1. Written(r, s).token = fresh[r]
    BY <1>4, <1>9 DEF Written, Rotated, Extended, Row
  <2>2. Listing(Written(r, s)) = [Listing(store[s]) EXCEPT !.token = fresh[r]]
    <3>1. Extended(r, s) = [store[s] EXCEPT !.idle = at[r] + IdleTimeout]
      BY DEF Extended
    <3>2. Written(r, s) = [Extended(r, s) EXCEPT !.token = fresh[r], !.rotated = at[r]]
      BY <1>9 DEF Written, Rotated
    <3>3. /\ Written(r, s).user = store[s].user
          /\ Written(r, s).expires = store[s].expires
          /\ Written(r, s).revoked = store[s].revoked
      BY <1>4, <3>1, <3>2 DEF Row
    <3>4. Listing(store[s]) \in ListedRow
      BY <1>4 DEF Listing, Row, ListedRow
    <3>5. [Listing(store[s]) EXCEPT !.token = fresh[r]].token = fresh[r]
      BY <3>4 DEF ListedRow
    <3>6. LET l == [Listing(store[s]) EXCEPT !.token = fresh[r]]
          IN  /\ l.user = store[s].user
              /\ l.expires = store[s].expires /\ l.revoked = store[s].revoked
      BY <3>4 DEF Listing, ListedRow
    <3>7. fresh[r] \in Tokens
      BY <1>9
    <3>8. [Listing(store[s]) EXCEPT !.token = fresh[r]] \in ListedRow
      BY <3>4, <3>7 DEF ListedRow
    <3>9. Listing(Written(r, s)) \in ListedRow
      BY <1>4 DEF Listing, Row, ListedRow
    <3>10. /\ Listing(Written(r, s)).token = fresh[r]
           /\ Listing(Written(r, s)).user = store[s].user
           /\ Listing(Written(r, s)).expires = store[s].expires
           /\ Listing(Written(r, s)).revoked = store[s].revoked
      BY <2>1, <3>3 DEF Listing
    <3> QED BY <3>5, <3>6, <3>8, <3>9, <3>10 DEF ListedRow
  <2>3. /\ fresh[r] \in Tokens \ retired
        /\ \A q \in Ids : Exists(q) => store[q].token # fresh[r]
    BY <1>9 DEF TokensAccounted, HoldsFreshToken, Writing
  <2>4. retired' = retired \cup {store[s].token}
    BY <1>2, <1>3, <2>1, <2>3 DEF Publish
  <2>5. Registry!Unused(fresh[r])
    BY <2>3 DEF Registry!Unused, Registry!IsOpen, Listed, Listing
  <2>6. Listed[s].token = store[s].token
    BY <1>7 DEF Listing
  <2> QED
    BY <1>6, <1>7, <2>2, <2>3, <2>4, <2>5, <2>6
       DEF Registry!Rotate, Registry!IsOpen
<1> QED BY <1>8, <1>9

\* The COMMIT of a logout or logoutAll revokes sessions of one user.
LEMMA RevocationRevokes ==
  ASSUME Coherent, NEW r \in Requests, pc[r] = "commit", Publish(r),
         op[r] \in {"logout", "logoutAll"}
  PROVE  \E S \in SUBSET Ids, u \in Users : Registry!Revoke(S, u)
<1> USE DEF Coherent, TypeOK
<1> DEFINE S == {s \in Ids : pend[r][s] # None}
           u == snap[r].row.user
<1>1. /\ snap[r] # None /\ snap[r].id \in Ids /\ u \in Users
      /\ store[snap[r].id].user = u
  BY DEF TargetsExist, ActsOnOwnSessions, Writing, Row
<1>2. ASSUME NEW s \in S
      PROVE  /\ Exists(s) /\ store[s].user = u /\ store[s] \in Row
             /\ pend[r][s] = [store[s] EXCEPT !.revoked = TRUE]
  <2>1. HeldBy(r, s)
    BY DEF PendingIsCurrent
  <2>2. Exists(s) /\ pend[r][s] = Written(r, s)
    BY <2>1 DEF HeldBy
  <2>3. store[s].user = u
    BY <1>1, <2>1 DEF HeldBy
  <2>4. Written(r, s) = [store[s] EXCEPT !.revoked = TRUE]
    BY DEF Written
  <2> QED BY <2>2, <2>3, <2>4 DEF Exists
<1>3. \A s \in Ids : store'[s] = IF s \in S THEN [store[s] EXCEPT !.revoked = TRUE]
                                            ELSE store[s]
  BY <1>2 DEF Publish
<1>4. \A s \in S : [store[s] EXCEPT !.revoked = TRUE] \in Row
                   /\ [store[s] EXCEPT !.revoked = TRUE].token = store[s].token
  BY <1>2, ListingRevoked
<1>5. retired' = retired
  <2>1. \A s \in Ids : pend[r][s] # None => pend[r][s].token = store[s].token
    BY <1>2, <1>4
  <2> QED BY <2>1 DEF Publish
<1>6. ASSUME NEW s \in S
      PROVE  /\ Listed[s] = Listing(store[s]) /\ Listed[s] # None
             /\ Listed[s].user = u
             /\ Listed'[s] = [Listed[s] EXCEPT !.revoked = TRUE]
  <2>1. Listed[s] = Listing(store[s]) /\ Listed[s] # None /\ Listed[s].user = u
    BY <1>2, ListingIsSession DEF Listed, Listing
  <2>2. Listed'[s] = Listing([store[s] EXCEPT !.revoked = TRUE])
    <3>1. store'[s] = [store[s] EXCEPT !.revoked = TRUE]
      BY <1>3
    <3>2. store'[s] # None
      BY <1>4, <3>1, NoneAssumption
    <3> QED BY <3>1, <3>2 DEF Listed, Exists
  <2>3. Listing([store[s] EXCEPT !.revoked = TRUE])
          = [Listing(store[s]) EXCEPT !.revoked = TRUE]
    BY <1>2, ListingRevoked
  <2> QED BY <2>1, <2>2, <2>3
<1>7. \A s \in Ids \ S : Listed'[s] = Listed[s]
  BY <1>3 DEF Listed, Exists
<1>8. Listed' = [s \in Ids |-> IF s \in S THEN [Listed[s] EXCEPT !.revoked = TRUE]
                                          ELSE Listed[s]]
  BY <1>6, <1>7 DEF Listed
<1>9. Registry!Revoke(S, u)
  BY <1>5, <1>6, <1>8 DEF Registry!Revoke, Registry!IsOpen
<1> QED BY <1>1, <1>9

LEMMA StepRefines ==
  ASSUME Coherent, NEW r \in Requests, Step(r)
  PROVE  [Registry!Next]_(Registry!vars)
<1>1. CASE UNCHANGED <<store, retired>>
  BY <1>1 DEF Registry!vars, Listed, Exists
<1>2. CASE pc[r] = "commit" /\ Publish(r)
  <2>1. op[r] \in {"signIn", "refreshSession", "logout", "logoutAll"}
    BY <1>2 DEF Coherent, TypeOK, TargetsExist, ActsOnOwnSessions, BuiltInActions
  <2>2. CASE \A s \in Ids : pend[r][s] = None
    <3>1. store' = store /\ retired' = retired
      BY <1>2, <2>2 DEF Publish, Coherent, TypeOK
    <3> QED BY <1>1, <3>1
  <2>3. ASSUME NEW s \in Ids, pend[r][s] # None
        PROVE  Registry!Next \/ UNCHANGED <<Listed, retired>>
    <3>1. CASE op[r] = "signIn"
      BY <1>2, <2>3, <3>1, SignInOpens DEF Registry!Next
    <3>2. CASE op[r] = "refreshSession"
      BY <1>2, <2>3, <3>2, RefreshRotates DEF Registry!Next
    <3>3. CASE op[r] \in {"logout", "logoutAll"}
      BY <1>2, <3>3, RevocationRevokes DEF Registry!Next
    <3> QED BY <2>1, <3>1, <3>2, <3>3
  <2> QED BY <2>2, <2>3 DEF Registry!vars
<1> QED BY <1>1, <1>2, OnlyCommitPublishes

LEMMA NextRefines == Coherent /\ [Next]_vars => [Registry!Next]_(Registry!vars)
<1> SUFFICES ASSUME Coherent, [Next]_vars PROVE [Registry!Next]_(Registry!vars)
  OBVIOUS
<1>1. CASE Tick \/ UNCHANGED vars
  BY <1>1 DEF Tick, vars, Table, Registry!vars, Listed, Exists
<1> QED BY <1>1, StepRefines DEF Next, Step

\* The sessions table, under any interleaving of requests, failures and
\* restarts, is an implementation of the registry.
THEOREM RegistryRefinement == Spec => ImplementsRegistry
<1>1. Init => Registry!Init
  BY DEF Init, Registry!Init, Listed, Exists
<1> QED
  BY <1>1, Coherence, NextRefines, PTL DEF Spec, ImplementsRegistry, Registry!Spec

\* A token is the current one of at most one session and never comes back
\* once a rotation has replaced it.
THEOREM UnambiguousTokens == Spec => []TokensAreUnambiguous
<1>1. Registry!Spec => []Registry!Inv
  BY Registry!RegistryInvariant
<1>2. Registry!Inv => TokensAreUnambiguous
  BY DEF Registry!Inv, TokensAreUnambiguous
<1> QED BY <1>1, <1>2, RegistryRefinement, PTL DEF ImplementsRegistry

\* No step un-revokes a session: not a refresh that read it before it was
\* revoked, nor an update or a compare-and-swap committed after.
THEOREM RevocationFinality == Spec => RevocationIsFinal
<1> DEFINE Stays == \A s \in Ids : Exists(s) /\ store[s].revoked => store'[s].revoked
<1>1. Coherent /\ [Next]_vars => [Stays]_vars
  <2> SUFFICES ASSUME Coherent, [Next]_vars PROVE Stays
    OBVIOUS
  <2>1. CASE store' = store
    BY <2>1
  <2>2. ASSUME NEW r \in Requests, Publish(r) PROVE Stays
    BY <2>2, PublishEffect
  <2>3. CASE Tick \/ UNCHANGED vars
    BY <2>1, <2>3 DEF Tick, vars, Table
  <2> QED BY <2>1, <2>2, <2>3, OnlyCommitPublishes DEF Next, Step
<1> QED BY <1>1, Coherence, PTL DEF Spec, RevocationIsFinal

-----------------------------------------------------------------------------
(* What a request knows of its past *)

SamePast(q) ==
    cred'[q] = cred[q] /\ arrival'[q] = arrival[q] /\ since'[q] = since[q]

LEMMA OthersKeepThePast ==
  ASSUME TypeOK, NEW r \in Requests, Step(r), NEW q \in Requests \ {r}
  PROVE  SamePast(q) /\ reply'[q] = reply[q]
<1> USE DEF TypeOK, SamePast, Answer, Goto, NotAuthenticated, Envelope
<1>1. CASE Arrives(r)
  BY <1>1 DEF Arrives, SignIn, Present, PresentNothing, Arrive
<1>2. CASE FindSession(r) \/ CheckExpiry(r)
  BY <1>2 DEF FindSession, CheckExpiry
<1>3. CASE PolicyRefuses(r) \/ PoliciesAllow(r)
  BY <1>3 DEF PolicyRefuses, PoliciesAllow
<1>4. CASE StartRefresh(r) \/ StartRevocation(r) \/ IssueSession(r)
  BY <1>4 DEF StartRefresh, StartRevocation, IssueSession
<1>5. CASE UpdateEnds(r) \/ \E s \in Ids : UpdateRow(r, s)
  BY <1>5 DEF UpdateEnds, UpdateRow
<1>6. CASE Commit(r) \/ CommitFails(r)
  BY <1>6 DEF Commit, CommitFails, CommitAnswer
<1>7. CASE Fail(r) \/ Receive(r) \/ Abandon(r)
  BY <1>7 DEF Fail, Receive, Abandon, Forget
<1> QED BY <1>1, <1>2, <1>3, <1>4, <1>5, <1>6, <1>7 DEF Step, Handle

LEMMA OnlyTicksMoveTheClock ==
  ASSUME NEW r \in Requests, Step(r)
  PROVE  now' = now
<1>1. CASE Arrives(r)
  BY <1>1 DEF Arrives, SignIn, Present, PresentNothing, Arrive
<1>2. CASE Handle(r)
  BY <1>2 DEF Handle, FindSession, CheckExpiry, PolicyRefuses, PoliciesAllow,
     StartRefresh, StartRevocation, IssueSession, UpdateEnds, Commit
<1>3. CASE ~Arrives(r) /\ ~Handle(r)
  BY <1>3 DEF Step, UpdateRow, CommitFails, Fail, Receive, Abandon, Forget
<1> QED BY <1>1, <1>2, <1>3

\* What a step of a request may do to the table.
Moved(r) ==
    /\ retired \subseteq retired'
    /\ \A s \in Ids :
         /\ Exists(s) =>
              /\ Exists(s)' /\ store'[s].user = store[s].user
              /\ store'[s].expires = store[s].expires
              /\ store[s].revoked => store'[s].revoked
              /\ store'[s].token = store[s].token \/ store[s].token \in retired'
         /\ Exists(s)' =>
              \/ Exists(s) /\ store'[s].token = store[s].token
              \/ Writing(r) /\ fresh[r] # None /\ store'[s].token = fresh[r]

LEMMA TableMoves ==
  ASSUME Coherent, NEW r \in Requests, Step(r)
  PROVE  Moved(r)
<1>1. CASE UNCHANGED <<store, retired>>
  BY <1>1 DEF Moved, Exists
<1>2. CASE pc[r] = "commit" /\ Publish(r)
  <2>1. retired \subseteq retired'
    BY <1>2 DEF Publish
  <2>2. ASSUME NEW s \in Ids, Exists(s)
        PROVE  store'[s].token = store[s].token \/ store[s].token \in retired'
    <3>1. CASE pend[r][s] = None
      BY <1>2, <3>1 DEF Publish
    <3>2. CASE pend[r][s] # None
      BY <1>2, <2>2, <3>2 DEF Publish
    <3> QED BY <3>1, <3>2
  <2>3. ASSUME NEW s \in Ids, Exists(s)
        PROVE  /\ Exists(s)' /\ store'[s].user = store[s].user
               /\ store'[s].expires = store[s].expires
               /\ store[s].revoked => store'[s].revoked
    BY <1>2, <2>3, PublishEffect DEF Exists
  <2>4. ASSUME NEW s \in Ids, Exists(s)'
        PROVE  \/ Exists(s) /\ store'[s].token = store[s].token
               \/ Writing(r) /\ fresh[r] # None /\ store'[s].token = fresh[r]
    BY <1>2, <2>4, PublishTokens DEF Exists, Writing
  <2> QED BY <2>1, <2>2, <2>3, <2>4 DEF Moved
<1> QED BY <1>1, <1>2, OnlyCommitPublishes

LEMMA StandingStill ==
  ASSUME NEW r \in Requests, UNCHANGED <<store, retired>>
  PROVE  Moved(r)
  BY DEF Moved, Exists

\* The token a request presented does not become current behind its back.
LEMMA CurrentBefore ==
  ASSUME Coherent, TypeOK', SecretUntilCommitted, NEW r \in Requests, Moved(r),
         NEW q \in Requests, NEW s \in Ids, Exists(s)', store'[s].token = cred[q]
  PROVE  Exists(s) /\ store[s].token = cred[q]
<1>1. \/ Exists(s) /\ store'[s].token = store[s].token
      \/ Writing(r) /\ fresh[r] # None /\ store'[s].token = fresh[r]
  BY DEF Moved
<1>2. Writing(r) /\ fresh[r] # None => fresh[r] # cred[q]
  BY DEF SecretUntilCommitted
<1> QED BY <1>1, <1>2

LEMMA ArrivalKept ==
  ASSUME Coherent, TypeOK', SecretUntilCommitted, NEW r \in Requests, Moved(r),
         NEW q \in Requests, SinceArrival(q), SamePast(q)
  PROVE  SinceArrival(q)'
<1> USE DEF SamePast
<1>1. ASSUME NEW s \in Ids, arrival[q][s] # None
      PROVE  /\ Exists(s)' /\ store'[s].user = arrival[q][s].user
             /\ arrival[q][s].revoked => store'[s].revoked
  BY <1>1 DEF SinceArrival, Moved
<1>2. ASSUME NEW s \in Ids, cred[q] # None, Exists(s)', store'[s].token = cred[q]
      PROVE  arrival[q][s] # None /\ arrival[q][s].token = cred[q]
  BY <1>2, CurrentBefore DEF SinceArrival
<1> QED BY <1>1, <1>2 DEF SinceArrival, Exists

LEMMA ValidatedKept ==
  ASSUME Coherent, NEW r \in Requests, Moved(r),
         NEW q \in Requests, Validated(q), SamePast(q), snap'[q] = snap[q]
  PROVE  Validated(q)'
<1> SUFFICES ASSUME snap[q] # None PROVE Validated(q)'
  BY DEF Validated
<1>1. snap[q].id \in Ids /\ Exists(snap[q].id)
  BY DEF Coherent, TypeOK, TargetsExist, ActsOnOwnSessions
<1> QED BY <1>1 DEF Validated, Moved, SamePast

LEMMA OutlivedKept ==
  ASSUME Coherent, TypeOK', SecretUntilCommitted, NEW r \in Requests, Moved(r),
         now' \in {now, now + 1}, NEW q \in Requests, SamePast(q),
         \A s \in Ids : Current(s, cred[q]) => Outlived(s)
  PROVE  \A s \in Ids : (Current(s, cred[q]) => Outlived(s))'
<1> TAKE s \in Ids
<1> SUFFICES ASSUME Current(s, cred[q])' PROVE Outlived(s)'
  OBVIOUS
<1>1. Exists(s)' /\ store'[s].token = cred[q] /\ ~store'[s].revoked
  BY DEF Current, Exists, SamePast
<1>2. Exists(s) /\ store[s].token = cred[q]
  BY <1>1, CurrentBefore
<1>3. store'[s].expires = store[s].expires /\ ~store[s].revoked
  BY <1>1, <1>2 DEF Moved
<1>4. Outlived(s)
  BY <1>2, <1>3 DEF Current
<1>5. store[s].expires \in Nat /\ now \in Nat
  BY <1>2 DEF Coherent, TypeOK, Exists, Row
<1> QED BY <1>3, <1>4, <1>5, ConfigAssumption DEF Outlived

\* Another request's step leaves what a request knows.
LEMMA OthersRemember ==
  ASSUME Coherent, TypeOK', SecretUntilCommitted, NEW r \in Requests, Moved(r),
         now' \in {now, now + 1}, NEW q \in Requests, SameRequest(q), KeptFor(q),
         SamePast(q), reply'[q] = reply[q], Remembers(q)
  PROVE  Remembers(q)'
<1>1. SinceArrival(q)' /\ Validated(q)'
  BY ArrivalKept, ValidatedKept DEF Remembers, SameRequest
<1>2. Revokes(q)'
  <2>1. MustEnd(q)' = MustEnd(q)
    BY DEF MustEnd, SameRequest, SamePast
  <2>2. ASSUME NEW s \in MustEnd(q), snap[q] # None
        PROVE  s \in Ids /\ Exists(s) /\ (store[s].revoked => store'[s].revoked)
    <3>1. s \in Ids /\ Exists(s)
      BY <2>2 DEF MustEnd, Remembers, SinceArrival, Coherent, TargetsExist,
                  ActsOnOwnSessions
    <3> QED BY <3>1 DEF Moved
  <2>3. Revokes(q)
    BY DEF Remembers
  <2> QED BY <2>1, <2>2, <2>3 DEF Revokes, Writing, Succeeded, SameRequest
<1>3. Spent(q)'
  <2>1. Spent(q)
    BY DEF Remembers
  <2>2. /\ op[q] = "logout" /\ snap[q] = None
        /\ pc[q] = "policies" \/ Succeeded(q, "logout")
        => \A s \in Ids : (Current(s, cred[q]) => Outlived(s))'
    BY <2>1, OutlivedKept DEF Spent
  <2> QED BY <2>1, <2>2 DEF Spent, Succeeded, SameRequest
<1>4. Swaps(q)'
  <2>1. Swaps(q)
    BY DEF Remembers
  <2> QED BY <2>1 DEF Swaps, RotationWon, Succeeded, SameRequest, KeptFor,
                      SamePast, Moved
<1> QED BY <1>1, <1>2, <1>3, <1>4 DEF Remembers

-----------------------------------------------------------------------------
(* The tokens being written are secret *)

\* What a step makes of the tokens that are known and of those being written.
Discreet(r) ==
    /\ issued \subseteq issued'
    /\ delivered' \subseteq delivered \cup {reply[r].token}
    /\ cred'[r] \in delivered \cup {cred[r], None}
    /\ \/ reply'[r].token \in {reply[r].token, cred[r], None}
       \/ pc[r] = "commit" /\ pc'[r] = "replied" /\ fresh'[r] = fresh[r]
          /\ reply'[r].token = fresh[r]
    /\ Writing(r)' /\ fresh'[r] # None =>
          \/ Writing(r) /\ fresh'[r] = fresh[r]
          \/ fresh'[r] \notin issued

LEMMA SecretsKept ==
  ASSUME Coherent, SecretUntilCommitted, NEW r \in Requests, Step(r),
         Discreet(r)
  PROVE  SecretUntilCommitted'
<1> USE DEF Coherent, TypeOK, Discreet
<1>1. \A q \in Requests \ {r} : SameRequest(q) /\ SamePast(q) /\ reply'[q] = reply[q]
  BY OthersUnchanged, OthersKeepThePast
<1>2. /\ delivered \subseteq issued
      /\ \A q \in Requests : {cred[q], reply[q].token} \subseteq issued \cup {None}
  BY DEF SecretUntilCommitted
<1>3. pc[r] = "commit" => fresh[r] \in issued \cup {None}
  BY DEF TokensAccounted, HoldsFreshToken, Writing
<1>4. /\ delivered' \subseteq issued \cup {None}
      /\ \A q \in Requests : {cred'[q], reply'[q].token} \subseteq issued \cup {None}
  BY <1>1, <1>2, <1>3 DEF SamePast
<1>5. TypeOK'
  BY TypeStep DEF Next, Step
<1>6. None \notin delivered'
  BY <1>5, NoneAssumption
<1>7. ASSUME NEW p \in Requests, NEW q \in Requests, Writing(q)', fresh'[q] # None
      PROVE  fresh'[q] \notin delivered' \cup {cred'[p], reply'[p].token}
  <2>1. CASE q = r /\ fresh'[r] \notin issued
    BY <1>4, <1>6, <1>7, <2>1
  <2>2. CASE Writing(q) /\ fresh'[q] = fresh[q]
    <3>1. \A x \in Requests : fresh[q] \notin delivered \cup {cred[x], reply[x].token}
      BY <1>7, <2>2 DEF SecretUntilCommitted
    <3>2. pc[r] = "commit" /\ pc'[r] = "replied" => fresh[q] # fresh[r] /\ q # r
      BY <1>7, <2>2 DEF TokensAccounted, HoldsFreshToken, Writing
    <3> QED BY <1>1, <1>7, <2>2, <3>1, <3>2 DEF SamePast
  <2> QED BY <1>1, <1>7, <2>1, <2>2 DEF SameRequest, Writing
<1> QED BY <1>2, <1>4, <1>6, <1>7 DEF SecretUntilCommitted

LEMMA SecretStep ==
  ASSUME Coherent, SecretUntilCommitted, NEW r \in Requests, Step(r)
  PROVE  SecretUntilCommitted'
<1>0. TypeOK /\ HoldsFreshToken(r)
  BY DEF Coherent, TokensAccounted
<1> SUFFICES Discreet(r)
  BY SecretsKept
<1> USE <1>0 DEF TypeOK, Answer, Goto, NotAuthenticated, Envelope, Table, Writing, Discreet
<1>1. CASE Arrives(r)
  BY <1>1 DEF Arrives, SignIn, Present, PresentNothing, Arrive
<1>2. CASE FindSession(r) \/ CheckExpiry(r)
  BY <1>2 DEF FindSession, CheckExpiry
<1>3. CASE PolicyRefuses(r) \/ PoliciesAllow(r)
  BY <1>3 DEF PolicyRefuses, PoliciesAllow
<1>4. CASE StartRefresh(r)
  <2>1. fresh[r] = None
    BY <1>0, <1>4 DEF StartRefresh, HoldsFreshToken, Pcs
  <2> QED BY <1>4, <2>1 DEF StartRefresh
<1>5. CASE StartRevocation(r)
  <2>1. fresh[r] = None
    BY <1>0, <1>5 DEF StartRevocation, HoldsFreshToken, Pcs
  <2> QED BY <1>5, <2>1 DEF StartRevocation
<1>6. CASE IssueSession(r)
  BY <1>6 DEF IssueSession
<1>7. CASE UpdateEnds(r) \/ \E s \in Ids : UpdateRow(r, s)
  BY <1>7 DEF UpdateEnds, UpdateRow
<1>8. CASE Commit(r)
  <2>1. /\ pc[r] = "commit" /\ pc'[r] = "replied"
        /\ UNCHANGED <<issued, delivered, cred, fresh>>
        /\ reply'[r].token \in {cred[r], None, fresh[r]}
    BY <1>8 DEF Commit, CommitAnswer
  <2> QED BY <1>8, <2>1
<1>9. CASE CommitFails(r)
  BY <1>9 DEF CommitFails
<1>10. CASE Fail(r)
  BY <1>10 DEF Fail
<1>11. CASE Receive(r)
  BY <1>11 DEF Receive, Forget, NoReply
<1>12. CASE Abandon(r)
  BY <1>12 DEF Abandon, Forget, NoReply
<1> QED
  BY <1>1, <1>2, <1>3, <1>4, <1>5, <1>6, <1>7, <1>8, <1>9, <1>10, <1>11, <1>12
     DEF Step, Handle

-----------------------------------------------------------------------------
(* The dates of the rows *)

LEMMA WrittenIsDated ==
  ASSUME Coherent, RowsAreDated, NEW r \in Requests, NEW s \in Ids, Exists(s),
         op[r] = "refreshSession" =>
            snap[r] # None /\ s = snap[r].id /\ Writing(r)
            /\ store[s].expires = snap[r].row.expires
  PROVE  Dated(Written(r, s))
<1>1. store[s] \in Row /\ at[r] \in Nat /\ Dated(store[s])
  BY DEF Coherent, TypeOK, Exists, RowsAreDated
<1>2. CASE op[r] = "refreshSession"
  <2>1. store[s].expires - AbsoluteLifetime <= at[r]
    BY <1>2 DEF RowsAreDated
  <2>2. /\ Extended(r, s).expires = store[s].expires
        /\ Extended(r, s).idle = at[r] + IdleTimeout
        /\ Rotated(r, s).expires = store[s].expires
        /\ Rotated(r, s).idle = at[r] + IdleTimeout
    BY <1>1 DEF Extended, Rotated, Row
  <2>3. store[s].expires \in Nat
    BY <1>1 DEF Row
  <2> QED BY <1>1, <1>2, <2>1, <2>2, <2>3, ConfigAssumption DEF Written, Dated
<1>3. CASE op[r] # "refreshSession"
  BY <1>1, <1>3 DEF Written, Dated, Row
<1> QED BY <1>2, <1>3

\* What a step adds to the rows and snapshots there were is dated.
WritesDates(r) ==
    /\ \A s \in Ids : pend'[r][s] # None =>
          pend'[r][s] = pend[r][s] \/ Dated(pend'[r][s])
    /\ snap'[r] # None => snap'[r] = snap[r] \/ Dated(snap'[r].row)
    /\ Writing(r)' /\ op'[r] = "refreshSession" =>
          snap'[r].row.expires - AbsoluteLifetime <= at'[r]

LEMMA DatesKept ==
  ASSUME Coherent, TypeOK', RowsAreDated, NEW r \in Requests, Step(r),
         WritesDates(r)
  PROVE  RowsAreDated'
<1> USE DEF Coherent, TypeOK
<1>1. now' = now /\ \A q \in Requests \ {r} : SameRequest(q)
  BY OnlyTicksMoveTheClock, OthersUnchanged
<1>3. ASSUME NEW s \in Ids, store'[s] # None PROVE Dated(store'[s])
  <2>1. store'[s] = store[s] \/ (pend[r][s] # None /\ store'[s] = pend[r][s])
    <3>1. CASE UNCHANGED <<store, retired>>
      BY <3>1
    <3>2. CASE Publish(r)
      BY <3>2 DEF Publish
    <3> QED BY <3>1, <3>2, OnlyCommitPublishes
  <2>2. CASE store'[s] = store[s]
    BY <1>3, <2>2 DEF RowsAreDated, Exists
  <2>3. CASE pend[r][s] # None /\ store'[s] = pend[r][s]
    BY <1>3, <2>3 DEF RowsAreDated
  <2> QED BY <2>1, <2>2, <2>3
<1>4. ASSUME NEW q \in Requests
      PROVE  /\ \A s \in Ids : pend'[q][s] # None => Dated(pend'[q][s])
             /\ snap'[q] # None => Dated(snap'[q].row)
             /\ Writing(q)' /\ op'[q] = "refreshSession" =>
                   snap'[q].row.expires - AbsoluteLifetime <= at'[q]
  BY <1>1, ZenonT(60) DEF RowsAreDated, SameRequest, Writing, WritesDates
<1> QED BY <1>1, <1>3, <1>4 DEF RowsAreDated, Dated, Exists

LEMMA DatesStep ==
  ASSUME Coherent, TypeOK', RowsAreDated, NEW r \in Requests, Validated(r), Step(r)
  PROVE  RowsAreDated'
<1> USE DEF Coherent, TypeOK, Answer, Goto, Envelope, Table, Writing, NoWrites
<1>0. /\ ActsOnOwnSessions(r)
      /\ \A s \in Ids : pend[r][s] # None => HeldBy(r, s)
      /\ Writing(r) /\ op[r] = "refreshSession" =>
            snap[r].row.expires - AbsoluteLifetime <= at[r]
  BY DEF TargetsExist, PendingIsCurrent, RowsAreDated
<1> SUFFICES WritesDates(r)
  BY DatesKept
<1> USE DEF WritesDates
<1>1. CASE Arrives(r)
  BY <1>1 DEF Arrives, SignIn, Present, PresentNothing, Arrive
<1>2. CASE FindSession(r)
  <2>1. CASE NotAuthenticated(r)
    BY <1>2, <2>1 DEF FindSession, NotAuthenticated
  <2>2. ASSUME NEW s \in Ids, Current(s, cred[r]), Goto(r, "expiry"),
               snap' = [snap EXCEPT ![r] = [id |-> s, row |-> store[s]]]
        PROVE  WritesDates(r)
    <3>1. Dated(store[s]) /\ snap'[r].row = store[s]
      BY <2>2 DEF Current, RowsAreDated
    <3> QED BY <1>2, <2>2, <3>1 DEF FindSession
  <2> QED BY <1>2, <2>1, <2>2 DEF FindSession
<1>3. CASE CheckExpiry(r)
  BY <1>3 DEF CheckExpiry, NotAuthenticated
<1>4. CASE PolicyRefuses(r) \/ PoliciesAllow(r)
  BY <1>4 DEF PolicyRefuses, PoliciesAllow
<1>5. CASE StartRefresh(r)
  <2>1. snap[r].row.expires - AbsoluteLifetime <= now
    BY <1>0, <1>5 DEF StartRefresh, ActsOnOwnSessions, RowsAreDated, Dated
  <2>2. pc'[r] = "replied" \/ at'[r] = now
    BY <1>5 DEF StartRefresh
  <2>3. UNCHANGED <<snap, pend>>
    BY <1>5 DEF StartRefresh
  <2> QED BY <1>5, <2>1, <2>2, <2>3
<1>6. CASE StartRevocation(r)
  BY <1>6 DEF StartRevocation
<1>7. CASE UpdateEnds(r)
  BY <1>0, <1>7 DEF UpdateEnds
<1>8. ASSUME NEW i \in Ids, UpdateRow(r, i) PROVE WritesDates(r)
  <2>1. Exists(i) /\ snap[r] # None
    BY <1>0, <1>8 DEF UpdateRow, ActsOnOwnSessions, BuiltInActions
  <2>2. op[r] = "refreshSession" =>
           i = snap[r].id /\ store[i].expires = snap[r].row.expires
    BY <1>0, <1>8, <2>1 DEF UpdateRow, ActsOnOwnSessions, Validated
  <2>3. Dated(Written(r, i))
    BY <1>8, <2>1, <2>2, WrittenIsDated DEF UpdateRow
  <2>4. \A s \in Ids : pend'[r][s] # pend[r][s] => pend'[r][s] = Written(r, i)
    BY <1>8 DEF UpdateRow
  <2> QED BY <1>0, <1>8, <2>3, <2>4 DEF UpdateRow
<1>9. CASE IssueSession(r)
  <2>1. op[r] = "signIn"
    BY <1>0, <1>9 DEF IssueSession, ActsOnOwnSessions
  <2>2. PICK s \in Ids, u \in Users, t \in Tokens \ issued :
          pend' = [pend EXCEPT ![r][s] =
                [user |-> u, token |-> t, rotated |-> now,
                 expires |-> now + AbsoluteLifetime,
                 idle |-> now + IdleTimeout, revoked |-> FALSE]]
    BY <1>9 DEF IssueSession
  <2>3. Dated(pend'[r][s]) /\ \A i \in Ids \ {s} : pend'[r][i] = pend[r][i]
    BY <2>2, ConfigAssumption DEF Dated
  <2> QED BY <1>9, <2>1, <2>3 DEF IssueSession
<1>10. CASE Commit(r) \/ CommitFails(r)
  BY <1>10 DEF Commit, CommitFails, CommitAnswer, Publish
<1>11. CASE Fail(r)
  BY <1>11 DEF Fail
<1>12. CASE Receive(r) \/ Abandon(r)
  BY <1>12 DEF Receive, Abandon, Forget
<1> QED
  BY <1>1, <1>2, <1>3, <1>4, <1>5, <1>6, <1>7, <1>8, <1>9, <1>10, <1>11, <1>12
     DEF Step, Handle

-----------------------------------------------------------------------------
(* What a request learns from its own steps *)

Distinct ==
    \A s \in Ids : Exists(s) =>
       /\ store[s].token \notin retired
       /\ \A q \in Ids : Exists(q) /\ store[q].token = store[s].token => q = s

LEMMA TokensDistinct == Coherent /\ TokensAreUnambiguous => Distinct
<1> SUFFICES ASSUME Coherent, TokensAreUnambiguous PROVE Distinct
  OBVIOUS
<1>1. \A s \in Ids : Exists(s) =>
         Registry!IsOpen(s) /\ Listed[s].token = store[s].token
  BY ListingIsSession DEF Coherent, TypeOK, Exists, Listed, Listing, Registry!IsOpen
<1> QED
  BY <1>1 DEF Distinct, TokensAreUnambiguous, Registry!TokensAreUnambiguous

\* The steps that write a request's past, and those that leave it.
Underway(r) == Step(r) /\ ~Arrives(r) /\ ~Forget(r)

LEMMA OwnPast ==
  ASSUME NEW r \in Requests, Underway(r)
  PROVE  SamePast(r)
<1>1. CASE Handle(r)
  BY <1>1 DEF Handle, SamePast, Envelope, FindSession, CheckExpiry, PolicyRefuses,
     PoliciesAllow, StartRefresh, StartRevocation, IssueSession, UpdateEnds, Commit
<1>2. CASE ~Handle(r)
  BY <1>2 DEF Underway, Step, SamePast, Envelope, UpdateRow, CommitFails, Fail,
     Receive, Abandon
<1> QED BY <1>1, <1>2

LEMMA ArrivalStep ==
  ASSUME Coherent, TypeOK', SecretUntilCommitted, NEW r \in Requests, Step(r),
         SinceArrival(r)
  PROVE  SinceArrival(r)'
<1>1. CASE Arrives(r)
  <2>1. UNCHANGED store /\ arrival'[r] = store
    BY <1>1 DEF Arrives, SignIn, Present, PresentNothing, Arrive, Table, Coherent, TypeOK
  <2> QED BY <2>1 DEF SinceArrival, Exists
<1>2. CASE Forget(r)
  <2>1. cred'[r] = None /\ \A s \in Ids : arrival'[r][s] = None
    BY <1>2 DEF Forget, NoWrites, Coherent, TypeOK
  <2> QED BY <2>1 DEF SinceArrival
<1>3. CASE Underway(r)
  BY <1>3, OwnPast, TableMoves, ArrivalKept
<1> QED BY <1>1, <1>2, <1>3 DEF Underway

LEMMA FindSessionValidates ==
  ASSUME Coherent, NEW r \in Requests, SinceArrival(r), FindSession(r), Distinct
  PROVE  Validated(r)'
<1> USE DEF Coherent, TypeOK
<1>1. UNCHANGED <<store, retired, cred, arrival>>
  BY DEF FindSession, Table, Envelope
<1>2. CASE NotAuthenticated(r)
  <2>1. snap[r] = None
    BY DEF FindSession, TargetsExist, ActsOnOwnSessions
  <2>2. snap'[r] = None
    BY <1>2, <2>1 DEF NotAuthenticated
  <2> QED BY <2>2 DEF Validated
<1>3. ASSUME NEW s \in Ids, Current(s, cred[r]),
             snap' = [snap EXCEPT ![r] = [id |-> s, row |-> store[s]]]
      PROVE  Validated(r)'
  <2>1. snap'[r].id = s /\ snap'[r].row = store[s]
    BY <1>3
  <2>2. Exists(s) /\ store[s].token = cred[r] /\ ~store[s].revoked
    BY <1>3 DEF Current
  <2>3. cred[r] # None
    BY <2>2, NoneAssumption DEF Row, Exists
  <2>4. /\ arrival[r][s] # None /\ arrival[r][s].token = cred[r]
        /\ ~arrival[r][s].revoked
    BY <2>2, <2>3 DEF SinceArrival
  <2> QED BY <1>1, <2>1, <2>2, <2>3, <2>4 DEF Validated
<1> QED BY <1>2, <1>3 DEF FindSession

\* Only the lookup takes a snapshot.
LEMMA OwnSnapshot ==
  ASSUME Coherent, NEW r \in Requests, Underway(r), ~FindSession(r)
  PROVE  snap'[r] \in {snap[r], None}
<1> USE DEF Coherent, TypeOK
<1>1. CASE CheckExpiry(r)
  BY <1>1 DEF CheckExpiry, NotAuthenticated
<1>2. CASE Handle(r) /\ ~CheckExpiry(r)
  BY <1>2 DEF Handle, PolicyRefuses,
     PoliciesAllow, StartRefresh, StartRevocation, IssueSession, UpdateEnds, Commit
<1>3. CASE ~Handle(r)
  BY <1>3 DEF Underway, Step, UpdateRow, CommitFails, Fail, Receive, Abandon
<1> QED BY <1>1, <1>2, <1>3

LEMMA ValidatedStep ==
  ASSUME Coherent, Distinct, NEW r \in Requests, Step(r),
         SinceArrival(r), Validated(r)
  PROVE  Validated(r)'
<1>1. CASE Arrives(r)
  <2>1. pc[r] = "idle" /\ snap' = snap
    BY <1>1 DEF Arrives, SignIn, Present, PresentNothing, Arrive
  <2>2. snap'[r] = None
    BY <2>1 DEF Coherent, TargetsExist, ActsOnOwnSessions
  <2> QED BY <2>2 DEF Validated
<1>2. CASE Forget(r)
  BY <1>2 DEF Forget, Validated, Coherent, TypeOK
<1>3. CASE FindSession(r)
  BY <1>3, FindSessionValidates
<1>4. CASE Underway(r) /\ ~FindSession(r)
  <2>1. CASE snap'[r] = snap[r]
    BY <1>4, <2>1, OwnPast, TableMoves, ValidatedKept
  <2>2. CASE snap'[r] = None
    BY <2>2 DEF Validated
  <2> QED BY <1>4, <2>1, <2>2, OwnSnapshot
<1> QED BY <1>1, <1>2, <1>3, <1>4 DEF Underway

\* A session whose row was found expired can be of no more use than that.
LEMMA ExpiredIsOutlived ==
  ASSUME Coherent, Distinct, RowsAreDated, NEW r \in Requests, Validated(r),
         snap[r] # None, Expired(snap[r].row)
  PROVE  \A s \in Ids : Current(s, cred[r]) => Outlived(s)
<1> USE DEF Coherent, TypeOK
<1> SUFFICES ASSUME NEW s \in Ids, Current(s, cred[r]) PROVE Outlived(s)
  OBVIOUS
<1>1. snap[r].id \in Ids /\ Exists(snap[r].id) /\ snap[r].row \in Row
  BY DEF TargetsExist, ActsOnOwnSessions
<1>2. s = snap[r].id
  BY <1>1 DEF Validated, Current, Distinct
<1>3. store[s].expires = snap[r].row.expires
  BY <1>2 DEF Validated
<1>4. Dated(snap[r].row)
  BY DEF RowsAreDated
<1>5. snap[r].row.expires \in Nat /\ snap[r].row.idle \in Nat /\ now \in Nat
  BY <1>1 DEF Row
<1> QED BY <1>3, <1>4, <1>5, ConfigAssumption DEF Expired, Dated, Outlived

LEMMA SpentStep ==
  ASSUME Coherent, TypeOK', Distinct, SecretUntilCommitted, RowsAreDated,
         NEW r \in Requests, Step(r), SinceArrival(r), Validated(r), Spent(r)
  PROVE  Spent(r)'
<1> USE DEF Coherent, TypeOK
<1>0. ActsOnOwnSessions(r)
  BY DEF TargetsExist
<1>1. CASE Arrives(r)
  <2>1. UNCHANGED <<now, store>> /\ (pc'[r] # "replied" \/ reply'[r].kind = "denied")
    BY <1>1 DEF Arrives, SignIn, Present, PresentNothing, Arrive, Goto, Answer, Table
  <2>2. pc'[r] = "policies" => op'[r] = "logout" /\ cred'[r] = None
    BY <1>1 DEF Arrives, SignIn, Present, PresentNothing, Arrive, Goto, Answer
  <2>3. \A s \in Ids : ~Current(s, None)'
    BY NoneAssumption DEF Current, Exists, Row
  <2> QED BY <2>1, <2>2, <2>3 DEF Spent, Succeeded
<1>2. CASE Forget(r)
  BY <1>2 DEF Forget, Spent, Succeeded
<1>3. CASE FindSession(r)
  <2>1. UNCHANGED <<now, store, op, cred>>
    BY <1>3 DEF FindSession, Table, Envelope
  <2>2. CASE NotAuthenticated(r) /\ \A s \in Ids : ~Current(s, cred[r])
    BY <1>0, <2>1, <2>2 DEF Spent, Succeeded, NotAuthenticated, Goto, Answer,
                            Current, Exists
  <2>3. CASE Goto(r, "expiry")
    BY <2>3 DEF Spent, Succeeded, Goto
  <2> QED BY <1>3, <2>2, <2>3 DEF FindSession
<1>4. CASE CheckExpiry(r)
  <2>1. UNCHANGED <<now, store, op, cred>> /\ snap[r] # None
    BY <1>0, <1>4 DEF CheckExpiry, Table, Envelope, ActsOnOwnSessions
  <2>2. CASE Goto(r, "policies") /\ snap' = snap
    BY <2>1, <2>2 DEF Spent, Succeeded, Goto
  <2>3. CASE Expired(snap[r].row) /\ NotAuthenticated(r)
    <3>1. \A s \in Ids : Current(s, cred[r]) => Outlived(s)
      BY <2>1, <2>3, ExpiredIsOutlived
    <3>2. \A s \in Ids : (Current(s, cred[r]) => Outlived(s))'
      BY <2>1, <3>1 DEF Current, Exists, Outlived
    <3> QED BY <2>3, <3>2, <2>1 DEF Spent, Succeeded, NotAuthenticated, Goto, Answer
  <2> QED BY <1>4, <2>2, <2>3 DEF CheckExpiry
<1>5. CASE PoliciesAllow(r)
  <2>1. UNCHANGED <<now, store, op, cred, snap>> /\ pc[r] = "policies"
    BY <1>5 DEF PoliciesAllow, Table, Envelope
  <2>2. pc'[r] # "policies"
    BY <1>5 DEF PoliciesAllow, Goto, Answer
  <2>3. CASE snap[r] # None
    BY <2>1, <2>2, <2>3 DEF Spent
  <2>4. CASE snap[r] = None
    BY <2>1, <2>2, <2>4 DEF Spent, Current, Exists, Outlived, Succeeded
  <2> QED BY <2>3, <2>4
<1>6. CASE Commit(r)
  <2>1. op'[r] = op[r] /\ snap'[r] = snap[r] /\ pc'[r] = "replied"
    BY <1>6 DEF Commit, Envelope, CommitAnswer, Answer
  <2>2. op[r] \in BuiltInActions => snap[r] # None
    BY <1>0, <1>6 DEF Commit, ActsOnOwnSessions, Writing, BuiltInActions
  <2> QED BY <2>1, <2>2 DEF Spent, BuiltInActions
<1>7. CASE \/ PolicyRefuses(r) \/ StartRefresh(r) \/ StartRevocation(r)
           \/ IssueSession(r) \/ UpdateEnds(r) \/ CommitFails(r) \/ Fail(r)
           \/ \E s \in Ids : UpdateRow(r, s)
  <2>1. pc'[r] # "policies" /\ (pc'[r] = "replied" => reply'[r].kind # "success")
    BY <1>7 DEF PolicyRefuses, StartRefresh, StartRevocation, IssueSession,
       UpdateEnds, CommitFails, Fail, UpdateRow, Goto, Answer
  <2> QED BY <2>1 DEF Spent, Succeeded
<1> QED
  BY <1>1, <1>2, <1>3, <1>4, <1>5, <1>6, <1>7 DEF Step, Handle, Receive, Abandon

LEMMA MustEndExists ==
  ASSUME Coherent, NEW r \in Requests, SinceArrival(r), snap[r] # None
  PROVE  \A s \in MustEnd(r) : s \in Ids /\ Exists(s)
                               /\ store[s].user = snap[r].row.user
  BY DEF MustEnd, SinceArrival, Coherent, TypeOK, TargetsExist, ActsOnOwnSessions

LEMMA RevokesStep ==
  ASSUME Coherent, NEW r \in Requests, Step(r), SinceArrival(r), Spent(r),
         Revokes(r)
  PROVE  Revokes(r)'
<1> USE DEF Coherent, TypeOK
<1>0. ActsOnOwnSessions(r)
  BY DEF TargetsExist
<1>1. CASE StartRevocation(r)
  <2>1. /\ UNCHANGED <<store, op, snap, arrival, pend>> /\ pc'[r] = "write"
        /\ want'[r] = RevocationTargets(r) /\ op[r] \in {"logout", "logoutAll"}
        /\ snap[r] # None
    BY <1>0, <1>1 DEF StartRevocation, Table, Envelope, Goto, ActsOnOwnSessions
  <2>2. MustEnd(r)' = MustEnd(r)
    BY <2>1 DEF MustEnd
  <2>3. \A s \in MustEnd(r) : store[s].revoked \/ s \in RevocationTargets(r)
    BY <2>1, MustEndExists DEF RevocationTargets, MustEnd
  <2> QED BY <2>1, <2>2, <2>3 DEF Revokes, Writing, Succeeded
<1>2. ASSUME NEW i \in Ids, UpdateRow(r, i) PROVE Revokes(r)'
  <2>1. /\ UNCHANGED <<store, op, snap, arrival, pc, reply>> /\ pc[r] = "write"
        /\ want'[r] = want[r] \ {i}
        /\ \A s \in Ids \ {i} : pend'[r][s] = pend[r][s]
    BY <1>2 DEF UpdateRow, Table, Envelope
  <2>2. MustEnd(r)' = MustEnd(r)
    BY <2>1 DEF MustEnd
  <2>3. op[r] \in {"logout", "logoutAll"} => store[i].revoked \/ pend'[r][i] # None
    <3>1. CASE Matches(r, i)
      <4>1. Exists(i)
        BY <1>0, <1>2 DEF UpdateRow, ActsOnOwnSessions
      <4>2. Written(r, i) # None
        BY <4>1, WrittenIsRow, NoneAssumption
      <4> QED BY <1>2, <3>1, <4>2 DEF UpdateRow
    <3>2. CASE ~Matches(r, i)
      BY <3>2 DEF Matches
    <3> QED BY <3>1, <3>2
  <2>4. \A s \in MustEnd(r) : s \in Ids
    BY <1>0 DEF MustEnd
  <2> QED BY <2>1, <2>2, <2>3, <2>4 DEF Revokes, Writing, Succeeded
<1>3. CASE UpdateEnds(r)
  <2>1. /\ UNCHANGED <<store, op, snap, arrival, want, pend>>
        /\ pc[r] = "write" /\ pc'[r] = "commit"
    BY <1>3 DEF UpdateEnds, Table, Envelope, Goto
  <2>2. MustEnd(r)' = MustEnd(r)
    BY <2>1 DEF MustEnd
  <2> QED BY <2>1, <2>2 DEF Revokes, Writing, Succeeded
<1>4. CASE Commit(r)
  <2>1. /\ UNCHANGED <<op, snap, arrival>> /\ pc[r] = "commit" /\ pc'[r] = "replied"
        /\ Publish(r) /\ want[r] = {}
    BY <1>0, <1>4 DEF Commit, Envelope, CommitAnswer, Answer, ActsOnOwnSessions
  <2>2. MustEnd(r)' = MustEnd(r)
    BY <2>1 DEF MustEnd
  <2> SUFFICES ASSUME op[r] \in {"logout", "logoutAll"}, snap[r] # None,
                      NEW s \in MustEnd(r)
               PROVE  store'[s].revoked
    BY <2>1, <2>2 DEF Revokes, Writing
  <2>3. s \in Ids /\ Exists(s)
    BY MustEndExists
  <2>4. store[s].revoked \/ pend[r][s] # None
    BY <2>1 DEF Revokes, Writing
  <2>5. CASE store[s].revoked
    BY <2>1, <2>3, <2>5, PublishEffect
  <2>6. CASE pend[r][s] # None
    <3>1. pend[r][s] = [store[s] EXCEPT !.revoked = TRUE]
      BY <2>3, <2>6 DEF PendingIsCurrent, HeldBy, Written
    <3>2. store'[s] = [store[s] EXCEPT !.revoked = TRUE]
      BY <2>1, <2>3, <2>6, <3>1 DEF Publish
    <3> QED BY <2>3, <3>2 DEF Row, Exists
  <2> QED BY <2>4, <2>5, <2>6
<1>5. CASE PoliciesAllow(r)
  <2>1. pc'[r] \notin {"write", "commit"} /\ UNCHANGED <<op, snap>>
    BY <1>5 DEF PoliciesAllow, Envelope, Goto, Answer
  <2>2. pc'[r] = "replied" => op[r] = "getSession" \/ snap[r] = None
    BY <1>5 DEF PoliciesAllow, Goto
  <2> QED BY <2>1, <2>2 DEF Revokes, Writing, Succeeded
<1>6. CASE StartRefresh(r) \/ IssueSession(r)
  <2>1. op'[r] \notin {"logout", "logoutAll"}
    BY <1>0, <1>6 DEF StartRefresh, IssueSession, Envelope, ActsOnOwnSessions
  <2> QED BY <2>1 DEF Revokes
<1>7. CASE \/ Arrives(r) \/ FindSession(r) \/ CheckExpiry(r) \/ PolicyRefuses(r)
           \/ CommitFails(r) \/ Fail(r) \/ Receive(r) \/ Abandon(r)
  <2>1. /\ pc'[r] \notin {"write", "commit"}
        /\ pc'[r] = "replied" => reply'[r].kind # "success"
        \/ op'[r] = "signIn"
    BY <1>7 DEF Arrives, SignIn, Present, PresentNothing, Arrive, FindSession,
       CheckExpiry, NotAuthenticated, PolicyRefuses, CommitFails, Fail, Receive,
       Abandon, Forget, Goto, Answer
  <2> QED BY <2>1 DEF Revokes, Writing, Succeeded
<1> QED
  BY <1>1, <1>2, <1>3, <1>4, <1>5, <1>6, <1>7 DEF Step, Handle

\* The swap of a COMMIT that answers a rotation found the presented token.
LEMMA CommittedSwap ==
  ASSUME Coherent, NEW r \in Requests, Commit(r), RotationWon(r)', Swaps(r)
  PROVE  \E s \in Ids : /\ Exists(s) /\ store[s].token = cred[r]
                        /\ store[s].token \in retired'
<1> USE DEF Coherent, TypeOK
<1>1. pc[r] = "commit" /\ op[r] = "refreshSession" /\ fresh[r] # None /\ Publish(r)
  BY DEF Commit, RotationWon, Succeeded, Envelope
<1>2. pend[r][snap[r].id] # None
  BY <1>1 DEF Commit, CommitAnswer, Answer, RotationWon, Succeeded
<1>3. snap[r].id \in Ids
  BY <1>1 DEF TargetsExist, ActsOnOwnSessions, Writing
<1> DEFINE s == snap[r].id
<1>4. Exists(s) /\ pend[r][s] = Written(r, s) /\ store[s].token = cred[r]
  BY <1>1, <1>2, <1>3 DEF PendingIsCurrent, HeldBy, Swaps
<1>5. pend[r][s].token = fresh[r]
  BY <1>1, <1>4 DEF Written, Rotated, Extended, Exists, Row
<1>6. store[s].token # fresh[r]
  BY <1>1, <1>3, <1>4 DEF TokensAccounted, HoldsFreshToken, Writing
<1>7. store[s].token \in retired'
  BY <1>1, <1>2, <1>3, <1>4, <1>5, <1>6 DEF Publish
<1> QED BY <1>3, <1>4, <1>7

\* Only a COMMIT wins a rotation.
LEMMA OnlyCommitWins ==
  ASSUME Coherent, NEW r \in Requests, Step(r), Spent(r), ~Commit(r)
  PROVE  ~RotationWon(r)' \/ (RotationWon(r) /\ cred'[r] = cred[r])
<1> USE DEF Coherent, TypeOK
<1>1. CASE PoliciesAllow(r)
  <2>1. fresh'[r] = None
    BY <1>1 DEF PoliciesAllow, TokensAccounted, HoldsFreshToken, Pcs
  <2> QED BY <2>1 DEF RotationWon
<1>2. CASE Handle(r) /\ ~PoliciesAllow(r)
  <2>1. pc'[r] = "replied" => reply'[r].kind # "success"
    BY <1>2 DEF Handle, FindSession, CheckExpiry, NotAuthenticated, PolicyRefuses,
       StartRefresh, StartRevocation, IssueSession, UpdateEnds, Goto, Answer
  <2> QED BY <2>1 DEF RotationWon, Succeeded
<1>3. CASE ~Handle(r)
  <2>1. pc'[r] = "replied" => reply'[r].kind # "success"
    BY <1>3 DEF Step, Arrives, SignIn, Present, PresentNothing, Arrive, UpdateRow,
       CommitFails, Fail, Receive, Abandon, Forget, Goto, Answer
  <2> QED BY <2>1 DEF RotationWon, Succeeded
<1> QED BY <1>1, <1>2, <1>3

LEMMA SwapsStep ==
  ASSUME Coherent, NEW r \in Requests, Step(r), Validated(r), Spent(r), Swaps(r)
  PROVE  Swaps(r)'
<1> USE DEF Coherent, TypeOK
<1>0. ActsOnOwnSessions(r) /\ \A s \in Ids : pend[r][s] # None => Writing(r)
  BY DEF TargetsExist, PendingIsCurrent, HeldBy
<1>1. RotationWon(r)' => cred'[r] \in retired'
  <2>1. CASE Commit(r)
    BY <2>1, CommittedSwap DEF Commit, Envelope
  <2>2. CASE ~Commit(r)
    BY <2>2, OnlyCommitWins, TableMoves DEF Swaps, Moved
  <2> QED BY <2>1, <2>2
<1>2. ASSUME op'[r] = "refreshSession", fresh'[r] # None, NEW s \in Ids,
             pend'[r][s] # None
      PROVE  store'[s].token = cred'[r]
  <2>1. ASSUME NEW i \in Ids, UpdateRow(r, i) PROVE store'[s].token = cred'[r]
    <3>1. /\ UNCHANGED <<store, op, cred, fresh, snap>> /\ pc[r] = "write"
          /\ i # s => pend'[r][s] = pend[r][s]
          /\ Matches(r, i) \/ pend'[r][s] = pend[r][s]
          /\ i \in want[r]
      BY <2>1 DEF UpdateRow, Table, Envelope
    <3>2. CASE pend'[r][s] = pend[r][s]
      BY <1>2, <3>1, <3>2 DEF Swaps
    <3>3. CASE i = s /\ Matches(r, i)
      <4>1. snap[r] # None
        BY <1>0, <1>2, <3>1 DEF ActsOnOwnSessions, Writing
      <4> QED BY <1>2, <3>1, <3>3, <4>1 DEF Matches, Validated
    <3> QED BY <3>1, <3>2, <3>3
  <2>2. CASE UpdateEnds(r)
    BY <1>2, <2>2 DEF UpdateEnds, Table, Envelope, Swaps
  <2>3. CASE ~UpdateEnds(r) /\ ~\E i \in Ids : UpdateRow(r, i)
    <3>1. ~IssueSession(r)
      BY <1>0, <1>2 DEF IssueSession, ActsOnOwnSessions, Envelope
    <3>2. pend'[r] = NoWrites \/ (pend'[r] = pend[r] /\ ~Writing(r))
      <4>1. CASE Commit(r) \/ CommitFails(r)
        BY <4>1 DEF Commit, CommitFails, Publish
      <4>2. CASE Handle(r) /\ ~Commit(r)
        BY <2>3, <3>1, <4>2 DEF Handle, FindSession, CheckExpiry, PolicyRefuses,
           PoliciesAllow, StartRefresh, StartRevocation, Writing
      <4>3. CASE Arrives(r)
        BY <4>3 DEF Arrives, SignIn, Present, PresentNothing, Arrive, Writing
      <4>4. CASE Fail(r) \/ Receive(r) \/ Abandon(r)
        BY <4>4 DEF Fail, Receive, Abandon, Forget
      <4> QED BY <2>3, <4>1, <4>2, <4>3, <4>4 DEF Step
    <3> QED BY <1>0, <1>2, <3>2 DEF NoWrites
  <2> QED BY <2>1, <2>2, <2>3
<1> QED BY <1>1, <1>2 DEF Swaps

LEMMA OwnStepRemembered ==
  ASSUME Coherent, TypeOK', Distinct, SecretUntilCommitted, RowsAreDated,
         NEW r \in Requests, Step(r), Remembers(r)
  PROVE  Remembers(r)'
  BY ArrivalStep, ValidatedStep, RevokesStep, SpentStep, SwapsStep DEF Remembers

-----------------------------------------------------------------------------
(* The invariant with its memory *)

LEMMA AccountableStep ==
  ASSUME Coherent, TypeOK', Distinct, Accountable, NEW r \in Requests, Step(r)
  PROVE  Accountable'
<1> USE DEF Accountable
<1>1. SecretUntilCommitted'
  BY SecretStep
<1>2. RowsAreDated'
  <2>1. Validated(r)
    BY DEF Remembers
  <2> QED BY <2>1, DatesStep
<1>3. ASSUME NEW q \in Requests PROVE Remembers(q)'
  <2>1. CASE q = r
    BY <2>1, OwnStepRemembered
  <2>2. CASE q # r
    <3>1. SameRequest(q) /\ KeptFor(q) /\ SamePast(q) /\ reply'[q] = reply[q]
      BY <2>2, OthersUnchanged, TableKept, OthersKeepThePast DEF Coherent
    <3>2. Moved(r) /\ now' \in {now, now + 1}
      BY TableMoves, OnlyTicksMoveTheClock
    <3> QED BY <3>1, <3>2, OthersRemember
  <2> QED BY <2>1, <2>2
<1> QED BY <1>1, <1>2, <1>3

LEMMA AccountableStutter ==
  ASSUME Coherent, TypeOK', Accountable, Tick \/ UNCHANGED vars
  PROVE  Accountable'
<1> USE DEF Accountable
<1>1. /\ UNCHANGED <<store, issued, retired, delivered, pc, op, cred, snap, at,
                     fresh, want, pend, reply, arrival, since>>
      /\ now' \in {now, now + 1}
  BY DEF Tick, vars, Table, Envelope
<1>2. SecretUntilCommitted'
  BY <1>1 DEF SecretUntilCommitted, Writing
<1>3. RowsAreDated'
  <2>1. ASSUME NEW row \in Row, Dated(row)
        PROVE  /\ row.expires - AbsoluteLifetime <= now'
               /\ row.expires - AbsoluteLifetime + IdleTimeout <= row.idle
    <3>1. row.expires \in Nat /\ now \in Nat /\ now' \in Nat
      BY DEF Row, Coherent, TypeOK
    <3> QED BY <1>1, <2>1, <3>1, ConfigAssumption DEF Dated
  <2>2. \A s \in Ids : (Exists(s) => Dated(store[s]))'
    BY <1>1, <2>1 DEF RowsAreDated, Exists, Coherent, TypeOK, Dated
  <2>3. ASSUME NEW r \in Requests
        PROVE  /\ \A s \in Ids : (pend[r][s] # None => Dated(pend[r][s]))'
               /\ (snap[r] # None => Dated(snap[r].row))'
               /\ Writing(r)' /\ op'[r] = "refreshSession" =>
                     snap'[r].row.expires - AbsoluteLifetime <= at'[r]
    BY <1>1, <2>1 DEF RowsAreDated, Writing, Coherent, TypeOK, Dated
  <2> QED BY <2>2, <2>3 DEF RowsAreDated, Exists
<1>4. ASSUME NEW q \in Requests PROVE Remembers(q)'
  <2>1. SameRequest(q) /\ KeptFor(q) /\ SamePast(q) /\ reply'[q] = reply[q]
    BY <1>1 DEF SameRequest, KeptFor, SamePast, Exists
  <2> QED BY <1>1, <2>1, StandingStill, OthersRemember
<1> QED BY <1>2, <1>3, <1>4

LEMMA AccountableInit == Init => Accountable
<1> SUFFICES ASSUME Init PROVE Accountable
  OBVIOUS
<1>1. SecretUntilCommitted
  BY DEF Init, SecretUntilCommitted, Writing, NoReply
<1>2. RowsAreDated
  BY DEF Init, RowsAreDated, Exists, NoWrites, Writing
<1>3. \A r \in Requests : Remembers(r)
  BY DEF Init, Remembers, SinceArrival, Validated, Revokes, Spent, Swaps,
     RotationWon, Succeeded, Writing, Exists, NoWrites
<1> QED BY <1>1, <1>2, <1>3 DEF Accountable

\* In a refresh race the second COMMIT cannot find the token the first replaced.
LEMMA OneRotationStep ==
  ASSUME Coherent, Distinct, Accountable, OneRotationPerToken,
         NEW r \in Requests, Step(r)
  PROVE  OneRotationPerToken'
<1>1. \A q \in Requests \ {r} : RotationWon(q)' => RotationWon(q) /\ cred'[q] = cred[q]
  BY OthersUnchanged, OthersKeepThePast
     DEF Coherent, SameRequest, SamePast, RotationWon, Succeeded
<1>2. Spent(r) /\ Swaps(r) /\ \A q \in Requests : Swaps(q)
  BY DEF Accountable, Remembers
<1>3. CASE ~Commit(r)
  BY <1>1, <1>2, <1>3, OnlyCommitWins DEF OneRotationPerToken
<1>4. CASE Commit(r)
  <2>1. cred'[r] = cred[r]
    BY <1>4 DEF Commit, Envelope
  <2>2. RotationWon(r)' => cred[r] \notin retired
    BY <1>2, <1>4, CommittedSwap DEF Distinct
  <2>3. \A q \in Requests : RotationWon(q) => cred[q] \in retired
    BY <1>2 DEF Swaps
  <2> QED BY <1>1, <2>1, <2>2, <2>3 DEF OneRotationPerToken
<1> QED BY <1>3, <1>4

\* The invariants of races: what a request does or answers is right by what
\* was committed when it arrived, whatever was committed since.
Kept == Coherent /\ Accountable /\ OneRotationPerToken

LEMMA KeptStep == Kept /\ TypeOK' /\ TokensAreUnambiguous /\ [Next]_vars =>
                     Accountable' /\ OneRotationPerToken'
<1> SUFFICES ASSUME Kept, TypeOK', TokensAreUnambiguous, [Next]_vars
             PROVE  Accountable' /\ OneRotationPerToken'
  OBVIOUS
<1>1. Distinct
  BY TokensDistinct DEF Kept
<1>2. ASSUME NEW r \in Requests, Step(r)
      PROVE  Accountable' /\ OneRotationPerToken'
  BY <1>1, <1>2, AccountableStep, OneRotationStep DEF Kept
<1>3. CASE Tick \/ UNCHANGED vars
  <2>1. UNCHANGED <<pc, op, cred, fresh, reply>>
    BY <1>3 DEF Tick, vars, Envelope
  <2> QED BY <1>3, <2>1, AccountableStutter
          DEF Kept, OneRotationPerToken, RotationWon, Succeeded
<1> QED BY <1>2, <1>3 DEF Next, Step

\* Every request's answers are accounted for by the table it arrived at: the
\* second inductive invariant, on top of Coherent.
THEOREM Accountability == Spec => []Kept
<1>1. Init => Accountable /\ OneRotationPerToken
  <2>1. Init => OneRotationPerToken
    BY DEF Init, OneRotationPerToken, RotationWon, Succeeded
  <2> QED BY <2>1, AccountableInit
<1>2. Coherent /\ Accountable /\ OneRotationPerToken <=> Kept
  BY DEF Kept
<1> QED
  BY <1>1, <1>2, KeptStep, Coherence, TypeCorrectness, UnambiguousTokens, PTL DEF Spec

\* However many refreshes race with one token, and whatever they read before
\* the others wrote, one compare-and-swap at most is answered success.
THEOREM OneRotation == Spec => []OneRotationPerToken
<1>1. Kept => OneRotationPerToken
  BY DEF Kept
<1> QED BY <1>1, Accountability, PTL

\* A logout or logoutAll that answers success has ended the sessions it names,
\* and the token presented with it, whatever was committed meanwhile.
THEOREM LogoutEffect == Spec => []LogoutTakesEffect
<1>1. Kept /\ TokensAreUnambiguous => LogoutTakesEffect
  <2> SUFFICES ASSUME Kept, TokensAreUnambiguous, NEW r \in Requests
               PROVE  /\ Succeeded(r, "logout") /\ snap[r] # None =>
                            store[snap[r].id].revoked
                      /\ Succeeded(r, "logoutAll") =>
                            \A s \in Ids :
                               /\ arrival[r][s] # None
                               /\ arrival[r][s].user = snap[r].row.user
                               => store[s].revoked
                      /\ Succeeded(r, "logout") \/ Succeeded(r, "logoutAll") =>
                            \A s \in Ids : Current(s, cred[r]) => Outlived(s)
    BY DEF LogoutTakesEffect
  <2>1. Revokes(r) /\ Spent(r) /\ Validated(r) /\ Distinct
    BY TokensDistinct DEF Kept, Accountable, Remembers
  <2>2. snap[r] # None => snap[r].id \in Ids /\ Exists(snap[r].id)
    BY DEF Kept, Coherent, TypeOK, TargetsExist, ActsOnOwnSessions
  <2>3. Succeeded(r, "logout") /\ snap[r] # None => store[snap[r].id].revoked
    BY <2>1, <2>2 DEF Revokes, MustEnd, Succeeded
  <2>4. Succeeded(r, "logoutAll") => snap[r] # None
    BY <2>1 DEF Spent, Succeeded, BuiltInActions
  <2>5. ASSUME Succeeded(r, "logoutAll"), NEW s \in Ids,
               \/ s = snap[r].id
               \/ arrival[r][s] # None /\ arrival[r][s].user = snap[r].row.user
        PROVE  store[s].revoked
    BY <2>1, <2>4, <2>5 DEF Revokes, MustEnd, Succeeded
  <2>6. ASSUME Succeeded(r, "logout") \/ Succeeded(r, "logoutAll"),
               NEW s \in Ids, Current(s, cred[r])
        PROVE  Outlived(s)
    <3>1. CASE snap[r] = None
      BY <2>1, <2>4, <2>6, <3>1 DEF Spent, Succeeded
    <3>2. CASE snap[r] # None
      <4>1. s = snap[r].id
        BY <2>1, <2>2, <2>6, <3>2 DEF Validated, Current, Distinct
      <4> QED BY <2>2, <2>3, <2>5, <2>6, <3>2, <4>1 DEF Current
    <3> QED BY <3>1, <3>2
  <2> QED BY <2>3, <2>5, <2>6
<1> QED BY <1>1, Accountability, UnambiguousTokens, PTL

-----------------------------------------------------------------------------
(* When the tokens in the table were generated *)

\* A COMMIT dates a row with the refresh's clock when it rotates it, and leaves
\* its rotation time otherwise.
LEMMA PublishRotation ==
  ASSUME Coherent, NEW r \in Requests, Publish(r), NEW s \in Ids, Exists(s)
  PROVE  \/ store'[s].token = store[s].token /\ store'[s].rotated = store[s].rotated
         \/ /\ op[r] = "refreshSession" /\ fresh[r] # None /\ Writing(r)
            /\ s = snap[r].id /\ pend[r][s] # None
            /\ store'[s].rotated = at[r] /\ store'[s].token = fresh[r]
<1> USE DEF Coherent, TypeOK, Exists
<1>1. store'[s] = IF pend[r][s] # None THEN pend[r][s] ELSE store[s]
  BY DEF Publish
<1>2. CASE pend[r][s] = None
  BY <1>1, <1>2
<1>3. CASE pend[r][s] # None
  <2>1. HeldBy(r, s) /\ store'[s] = pend[r][s]
    BY <1>1, <1>3 DEF PendingIsCurrent
  <2>2. op[r] # "signIn" /\ store'[s] = Written(r, s) /\ store[s] \in Row
    BY <2>1 DEF HeldBy
  <2>3. CASE op[r] = "refreshSession" /\ fresh[r] # None
    <3>1. s = snap[r].id /\ Writing(r)
      BY <2>1, <2>3 DEF HeldBy
    <3>2. Written(r, s).rotated = at[r] /\ Written(r, s).token = fresh[r]
      BY <2>2, <2>3 DEF Written, Rotated, Extended, Row
    <3> QED BY <1>3, <2>2, <2>3, <3>1, <3>2
  <2>4. CASE ~(op[r] = "refreshSession" /\ fresh[r] # None)
    BY <2>2, <2>4 DEF Written, Extended, Row
  <2> QED BY <2>3, <2>4
<1> QED BY <1>2, <1>3

\* A row that still has the token a request presented was not rotated since.
LEMMA RotationKept ==
  ASSUME Coherent, SecretUntilCommitted, NEW r \in Requests, Step(r),
         NEW q \in Requests, NEW s \in Ids, Exists(s), store'[s].token = cred[q]
  PROVE  store[s].token = cred[q] /\ store'[s].rotated = store[s].rotated
<1>1. CASE UNCHANGED <<store, retired>>
  BY <1>1
<1>2. CASE Publish(r)
  BY <1>2, PublishRotation DEF SecretUntilCommitted
<1> QED BY <1>1, <1>2, OnlyCommitPublishes

\* A COMMIT rotates a row forward in time, by the threshold at least.
LEMMA RotatedForward ==
  ASSUME Coherent, NEW r \in Requests, Swaps(r), Spaces(r), Publish(r),
         NEW s \in Ids, Exists(s)
  PROVE  /\ store[s].rotated <= store'[s].rotated
         /\ store'[s].token # store[s].token =>
               store[s].rotated + RotationThreshold <= store'[s].rotated
<1> USE DEF Coherent, TypeOK
<1>1. store[s].rotated \in Nat
  BY DEF Exists, Row
<1>2. CASE store'[s].token = store[s].token /\ store'[s].rotated = store[s].rotated
  BY <1>1, <1>2
<1>3. CASE /\ op[r] = "refreshSession" /\ fresh[r] # None /\ Writing(r)
           /\ s = snap[r].id /\ pend[r][s] # None /\ store'[s].rotated = at[r]
  <2>1. store[s].token = cred[r]
    BY <1>3 DEF Swaps
  <2>2. snap[r] # None
    BY <1>3 DEF TargetsExist, ActsOnOwnSessions
  <2>3. /\ store[s].rotated = snap[r].row.rotated
        /\ snap[r].row.rotated + RotationThreshold <= at[r]
    BY <1>3, <2>1, <2>2 DEF Spaces
  <2>4. at[r] \in Nat
    OBVIOUS
  <2> QED BY <1>1, <1>3, <2>3, <2>4, ConfigAssumption
<1> QED BY <1>2, <1>3, PublishRotation

\* The row a request has read is not rotated back by any step.
LEMMA RowKept ==
  ASSUME Coherent, SecretUntilCommitted, NEW r \in Requests, Step(r),
         Swaps(r), Spaces(r), NEW q \in Requests, snap[q] # None, Spaces(q)
  PROVE  /\ snap[q].row.rotated <= store'[snap[q].id].rotated
         /\ store'[snap[q].id].token = cred[q] =>
               store'[snap[q].id].rotated = snap[q].row.rotated
<1> USE DEF Coherent, TypeOK
<1> DEFINE s == snap[q].id
<1>1. s \in Ids /\ Exists(s) /\ snap[q].row \in Row /\ store[s] \in Row
  BY DEF TargetsExist, ActsOnOwnSessions, Exists
<1>2. /\ snap[q].row.rotated <= store[s].rotated
      /\ store[s].token = cred[q] => store[s].rotated = snap[q].row.rotated
  BY DEF Spaces
<1>3. store'[s].token = cred[q] =>
         store[s].token = cred[q] /\ store'[s].rotated = store[s].rotated
  BY <1>1, RotationKept
<1>4. store[s].rotated <= store'[s].rotated
  <2>1. CASE UNCHANGED <<store, retired>>
    BY <1>1, <2>1 DEF Row
  <2>2. CASE Publish(r)
    BY <1>1, <2>2, RotatedForward
  <2> QED BY <2>1, <2>2, OnlyCommitPublishes
<1>5. /\ snap[q].row.rotated \in Nat /\ store[s].rotated \in Nat
      /\ store'[s].rotated \in Nat
  <2>1. store'[s] \in Row
    <3>1. CASE UNCHANGED <<store, retired>>
      BY <1>1, <3>1
    <3>2. CASE Publish(r)
      BY <1>1, <3>2, PublishTypes, PublishEffect DEF Exists
    <3> QED BY <3>1, <3>2, OnlyCommitPublishes
  <2> QED BY <1>1, <2>1 DEF Row
<1> QED BY <1>2, <1>3, <1>4, <1>5

LEMMA OthersKeepSpace ==
  ASSUME Coherent, SecretUntilCommitted, NEW r \in Requests, Step(r),
         Swaps(r), Spaces(r), NEW q \in Requests \ {r}, Spaces(q)
  PROVE  Spaces(q)'
<1>1. SameRequest(q) /\ SamePast(q)
  BY OthersUnchanged, OthersKeepThePast DEF Coherent
<1> QED
  BY <1>1, RowKept DEF Spaces, SameRequest, SamePast, Writing

LEMMA OwnSpace ==
  ASSUME Coherent, SecretUntilCommitted, NEW r \in Requests, Step(r),
         Swaps(r), Spaces(r)
  PROVE  Spaces(r)'
<1> USE DEF Coherent, TypeOK
<1>0. ActsOnOwnSessions(r) /\ HoldsFreshToken(r)
  BY DEF TargetsExist, TokensAccounted
<1>1. CASE Arrives(r) \/ Forget(r)
  <2>1. pc[r] = "idle" => snap[r] = None
    BY <1>0 DEF ActsOnOwnSessions
  <2>2. snap'[r] = None
    BY <1>1, <2>1 DEF Arrives, SignIn, Present, PresentNothing, Arrive, Forget
  <2>3. ~Writing(r)' \/ op'[r] = "signIn"
    BY <1>1 DEF Arrives, SignIn, Present, PresentNothing, Arrive, Forget, Writing,
                Goto, Answer
  <2> QED BY <2>2, <2>3 DEF Spaces
<1>2. CASE FindSession(r)
  <2>1. ~Writing(r)' /\ UNCHANGED store
    BY <1>2 DEF FindSession, NotAuthenticated, Goto, Answer, Writing, Table
  <2>2. CASE NotAuthenticated(r)
    <3>1. snap'[r] = None
      BY <1>0, <1>2, <2>2 DEF FindSession, NotAuthenticated, ActsOnOwnSessions
    <3> QED BY <2>1, <3>1 DEF Spaces
  <2>3. ASSUME NEW s \in Ids, Exists(s),
               snap' = [snap EXCEPT ![r] = [id |-> s, row |-> store[s]]]
        PROVE  Spaces(r)'
    <3>1. snap'[r].id = s /\ snap'[r].row = store[s] /\ store[s].rotated \in Nat
      BY <2>3 DEF Exists, Row
    <3> QED BY <2>1, <3>1 DEF Spaces
  <2> QED BY <1>2, <2>2, <2>3 DEF FindSession, Current
<1>3. CASE Underway(r) /\ ~FindSession(r)
  <2>1. snap'[r] \in {snap[r], None} /\ SamePast(r)
    BY <1>3, OwnSnapshot, OwnPast
  <2>2. ASSUME snap'[r] # None
        PROVE  /\ snap'[r].row.rotated <= store'[snap'[r].id].rotated
               /\ store'[snap'[r].id].token = cred'[r] =>
                     store'[snap'[r].id].rotated = snap'[r].row.rotated
    BY <2>1, <2>2, RowKept DEF SamePast
  <2>3. ASSUME Writing(r)', op'[r] = "refreshSession"
        PROVE  fresh'[r] # None <=>
                  snap'[r].row.rotated + RotationThreshold <= at'[r]
    <3>1. CASE StartRefresh(r)
      <4>1. /\ snap' = snap /\ at'[r] = now
            /\ fresh'[r] # None <=> RotationDue(snap[r].row)
        <5>1. fresh[r] = None
          BY <1>0, <3>1 DEF StartRefresh, HoldsFreshToken, Pcs
        <5>2. ~(snap[r].row.revoked \/ Expired(snap[r].row))
          BY <2>3, <3>1 DEF StartRefresh, Writing, Answer
        <5>3. \A t \in Tokens : t # None
          BY NoneAssumption
        <5> QED BY <3>1, <5>1, <5>2, <5>3 DEF StartRefresh
      <4>2. snap[r] # None /\ snap[r].row \in Row
        BY <1>0, <3>1 DEF StartRefresh, ActsOnOwnSessions
      <4>3. snap[r].row.rotated \in Nat /\ now \in Nat
        BY <4>2 DEF Row
      <4> QED BY <4>1, <4>3, ConfigAssumption DEF RotationDue
    <3>2. CASE UpdateEnds(r) \/ \E s \in Ids : UpdateRow(r, s)
      <4>1. /\ UNCHANGED <<op, snap, at, fresh>> /\ Writing(r)
        BY <3>2 DEF UpdateEnds, UpdateRow, Envelope, Writing
      <4> QED BY <2>3, <4>1 DEF Spaces
    <3>3. CASE IssueSession(r) \/ StartRevocation(r)
      BY <1>0, <2>3, <3>3 DEF IssueSession, StartRevocation, Envelope, ActsOnOwnSessions
    <3>4. CASE \/ CheckExpiry(r) \/ PolicyRefuses(r) \/ PoliciesAllow(r) \/ Commit(r)
               \/ CommitFails(r) \/ Fail(r)
      BY <2>3, <3>4 DEF CheckExpiry, NotAuthenticated, PolicyRefuses, PoliciesAllow,
                        Commit, CommitAnswer, CommitFails, Fail, Goto, Answer, Writing
    <3> QED
      BY <1>3, <3>1, <3>2, <3>3, <3>4 DEF Underway, Step, Handle, Receive, Abandon
  <2> QED BY <2>2, <2>3 DEF Spaces
<1> QED BY <1>1, <1>2, <1>3 DEF Underway

\* A row that has not expired by now had not by any moment before.
LEMMA LastsUntilNow ==
  ASSUME TypeOK, NEW row \in Row, ~Expired(row), NEW t \in Nat, t <= now
  PROVE  Lasts(row, t)
<1>1. row.expires \in Nat /\ row.idle \in Nat /\ now \in Nat
  BY DEF Row, TypeOK
<1> QED BY <1>1 DEF Expired, Lasts

LEMMA OwnLives ==
  ASSUME Coherent, NEW r \in Requests, Step(r), Spent(r), Lives(r)
  PROVE  Lives(r)'
<1> USE DEF Coherent, TypeOK
<1>0. /\ ActsOnOwnSessions(r) /\ now' = now
      /\ snap[r] # None => snap[r].row \in Row
  BY OnlyTicksMoveTheClock DEF TargetsExist
<1>1. CASE Arrives(r)
  <2>1. snap'[r] = None /\ since'[r] = now /\ ~Writing(r)'
    BY <1>0, <1>1 DEF Arrives, SignIn, Present, PresentNothing, Arrive, Goto, Answer,
                      Writing, ActsOnOwnSessions
  <2>2. ~Succeeded(r, op[r])'
    BY <1>1 DEF Arrives, SignIn, Present, PresentNothing, Arrive, Goto, Answer,
                Succeeded
  <2> QED BY <1>0, <2>1, <2>2 DEF Lives
<1>2. CASE Forget(r)
  <2>1. snap'[r] = None /\ since'[r] = 0 /\ pc'[r] = "idle"
    BY <1>2 DEF Forget
  <2> QED BY <1>0, <2>1 DEF Lives, Writing, Succeeded
<1>3. ASSUME Underway(r),
             \/ pc'[r] = "replied" /\ reply'[r].kind # "success"
             \/ pc'[r] = "expiry"
             \/ pc'[r] = "policies" /\ snap'[r] = None
      PROVE  Lives(r)'
  <2>1. SamePast(r)
    BY <1>3, OwnPast
  <2> QED BY <1>0, <1>3, <2>1 DEF Lives, Writing, Succeeded, SamePast
<1>4. CASE FindSession(r)
  <2>1. CASE NotAuthenticated(r)
    <3>1. snap[r] = None
      BY <1>0, <1>4 DEF FindSession, ActsOnOwnSessions
    <3>2. \/ pc'[r] = "replied" /\ reply'[r].kind # "success"
          \/ pc'[r] = "policies" /\ snap'[r] = None
      BY <2>1, <3>1 DEF NotAuthenticated, Goto, Answer
    <3> QED BY <1>1, <1>2, <1>3, <3>2 DEF Underway
  <2>2. CASE Goto(r, "expiry")
    BY <1>1, <1>2, <1>3, <2>2 DEF Underway, Goto
  <2> QED BY <1>4, <2>1, <2>2 DEF FindSession
<1>5. CASE CheckExpiry(r)
  <2>1. snap[r] # None
    BY <1>0, <1>5 DEF CheckExpiry, ActsOnOwnSessions
  <2>2. CASE Expired(snap[r].row)
    <3>1. \/ pc'[r] = "replied" /\ reply'[r].kind # "success"
          \/ pc'[r] = "policies" /\ snap'[r] = None
      BY <1>5, <2>2 DEF CheckExpiry, NotAuthenticated, Goto, Answer
    <3> QED BY <1>1, <1>2, <1>3, <3>1 DEF Underway
  <2>3. CASE ~Expired(snap[r].row)
    <3>1. /\ UNCHANGED <<snap, op, since, at>> /\ pc'[r] = "policies"
      BY <1>5, <2>3 DEF CheckExpiry, Goto, Envelope
    <3>2. Lasts(snap[r].row, since[r])
      BY <1>0, <2>1, <2>3, LastsUntilNow DEF Lives
    <3> QED BY <1>0, <3>1, <3>2 DEF Lives, Lasts, Writing, Succeeded
  <2> QED BY <2>2, <2>3
<1>6. CASE PoliciesAllow(r)
  <2>1. /\ UNCHANGED <<snap, op, since, at>> /\ pc[r] = "policies"
        /\ pc'[r] \in {"begin", "replied"}
        /\ pc'[r] = "replied" => op[r] # "refreshSession"
    BY <1>6 DEF PoliciesAllow, Goto, Answer, Envelope, Spent
  <2> QED BY <1>0, <2>1 DEF Lives, Lasts, Writing, Succeeded
<1>7. CASE StartRefresh(r)
  <2>1. UNCHANGED <<snap, op, since>> /\ pc[r] = "begin" /\ snap[r] # None
    BY <1>0, <1>7 DEF StartRefresh, Envelope, ActsOnOwnSessions
  <2>2. CASE snap[r].row.revoked \/ Expired(snap[r].row)
    <3>1. pc'[r] = "replied" /\ reply'[r].kind # "success"
      BY <1>7, <2>2 DEF StartRefresh, Answer
    <3> QED BY <1>0, <2>1, <3>1 DEF Lives, Writing, Succeeded
  <2>3. CASE ~(snap[r].row.revoked \/ Expired(snap[r].row))
    <3>1. at'[r] = now /\ pc'[r] = "write"
      BY <1>7, <2>3 DEF StartRefresh, Goto
    <3>2. Lasts(snap[r].row, now) /\ Lasts(snap[r].row, since[r])
      BY <1>0, <2>1, <2>3, LastsUntilNow DEF Lives
    <3> QED BY <1>0, <2>1, <3>1, <3>2 DEF Lives, Lasts
  <2> QED BY <2>2, <2>3
<1>8. CASE StartRevocation(r)
  <2>1. /\ UNCHANGED <<snap, op, since>> /\ pc[r] = "begin"
        /\ op[r] # "refreshSession"
    BY <1>8 DEF StartRevocation, Envelope
  <2> QED BY <1>0, <2>1 DEF Lives, Lasts
<1>9. CASE IssueSession(r)
  <2>1. UNCHANGED <<snap, op, since>> /\ snap[r] = None /\ op[r] = "signIn"
    BY <1>0, <1>9 DEF IssueSession, Envelope, ActsOnOwnSessions
  <2> QED BY <1>0, <2>1 DEF Lives
<1>10. CASE UpdateEnds(r) \/ Commit(r) \/ \E s \in Ids : UpdateRow(r, s)
  <2>1. UNCHANGED <<snap, op, since, at>> /\ Writing(r)
    BY <1>10 DEF UpdateEnds, Commit, UpdateRow, Envelope, Writing
  <2> QED BY <1>0, <2>1 DEF Lives, Lasts, Writing
<1>11. CASE PolicyRefuses(r) \/ CommitFails(r) \/ Fail(r)
  <2>1. pc'[r] = "replied" /\ reply'[r].kind # "success"
    BY <1>11 DEF PolicyRefuses, CommitFails, Fail, Answer
  <2> QED BY <1>1, <1>2, <1>3, <2>1 DEF Underway
<1> QED
  BY <1>1, <1>2, <1>4, <1>5, <1>6, <1>7, <1>8, <1>9, <1>10, <1>11
     DEF Step, Handle, Receive, Abandon

LEMMA OthersLive ==
  ASSUME Coherent, NEW r \in Requests, Step(r), NEW q \in Requests \ {r}, Lives(q)
  PROVE  Lives(q)'
<1>1. SameRequest(q) /\ SamePast(q) /\ reply'[q] = reply[q] /\ now' = now
  BY OthersUnchanged, OthersKeepThePast, OnlyTicksMoveTheClock DEF Coherent
<1> QED BY <1>1 DEF Lives, Lasts, Writing, Succeeded, SameRequest, SamePast

LEMMA IssuesStep ==
  ASSUME Coherent, NEW r \in Requests, Step(r), Issues(r)
  PROVE  Issues(r)'
<1> USE DEF Coherent, TypeOK
<1>0. pc'[r] # "replied" => reply'[r] = NoReply
  <2> USE DEF Issues, Goto, Answer
  <2>1. CASE Arrives(r) \/ Receive(r) \/ Abandon(r)
    BY <2>1 DEF Arrives, SignIn, Present, PresentNothing, Arrive, Receive, Abandon, Forget
  <2>2. CASE FindSession(r) \/ CheckExpiry(r) \/ PolicyRefuses(r) \/ PoliciesAllow(r)
    BY <2>2 DEF FindSession, CheckExpiry, NotAuthenticated, PolicyRefuses, PoliciesAllow
  <2>3. CASE StartRefresh(r) \/ StartRevocation(r) \/ IssueSession(r) \/ UpdateEnds(r)
    BY <2>3 DEF StartRefresh, StartRevocation, IssueSession, UpdateEnds
  <2>4. CASE Commit(r) \/ CommitFails(r) \/ Fail(r) \/ \E s \in Ids : UpdateRow(r, s)
    BY <2>4 DEF Commit, CommitAnswer, CommitFails, Fail, UpdateRow
  <2> QED BY <2>1, <2>2, <2>3, <2>4 DEF Step, Handle
<1> SUFFICES ASSUME pc'[r] = "commit", op'[r] = "signIn"
             PROVE  \E s \in Ids : pend'[r][s] # None
  BY <1>0 DEF Issues
<1>1. CASE IssueSession(r)
  <2>1. PICK s \in Ids, u \in Users, t \in Tokens \ issued :
          pend' = [pend EXCEPT ![r][s] =
                [user |-> u, token |-> t, rotated |-> now,
                 expires |-> now + AbsoluteLifetime,
                 idle |-> now + IdleTimeout, revoked |-> FALSE]]
    BY <1>1, ZenonT(60) DEF IssueSession
  <2>2. pend'[r][s] \in Row
    BY <2>1, ConfigAssumption DEF Row
  <2> QED BY <2>2, NoneAssumption
<1>2. CASE UpdateEnds(r)
  BY <1>2 DEF UpdateEnds, Envelope, TargetsExist, ActsOnOwnSessions, BuiltInActions
<1>3. CASE ~IssueSession(r) /\ ~UpdateEnds(r)
  <2>1. CASE Handle(r)
    BY <1>3, <2>1 DEF Handle, FindSession, CheckExpiry, NotAuthenticated,
       PolicyRefuses, PoliciesAllow, StartRefresh, StartRevocation, Commit,
       CommitAnswer, Goto, Answer
  <2>2. CASE ~Handle(r)
    BY <2>2 DEF Step, Arrives, SignIn, Present, PresentNothing, Arrive, UpdateRow,
       CommitFails, Fail, Receive, Abandon, Forget, Goto, Answer, TargetsExist,
       ActsOnOwnSessions, BuiltInActions
  <2> QED BY <2>1, <2>2
<1> QED BY <1>1, <1>2, <1>3

LEMMA TimelyStep == Timely /\ Kept /\ [Next]_vars => Timely'
<1> SUFFICES ASSUME Timely, Kept, [Next]_vars PROVE Timely'
  OBVIOUS
<1>0. /\ Coherent /\ SecretUntilCommitted
      /\ \A q \in Requests : Spent(q) /\ Swaps(q)
  BY DEF Kept, Accountable, Remembers
<1>1. ASSUME NEW r \in Requests, Step(r), NEW q \in Requests
      PROVE  Spaces(q)' /\ Issues(q)' /\ Lives(q)'
  <2>0. Spaces(q) /\ Issues(q) /\ Lives(q) /\ Spaces(r)
    BY DEF Timely
  <2>1. CASE q = r
    BY <1>0, <1>1, <2>0, <2>1, OwnSpace, IssuesStep, OwnLives
  <2>2. CASE q # r
    <3>1. SameRequest(q) /\ reply'[q] = reply[q]
      BY <1>0, <1>1, <2>2, OthersUnchanged, OthersKeepThePast DEF Coherent
    <3>2. Spaces(q)' /\ Lives(q)'
      BY <1>0, <1>1, <2>0, <2>2, OthersKeepSpace, OthersLive
    <3>3. Issues(q)'
      BY <2>0, <3>1 DEF Issues, SameRequest
    <3> QED BY <3>2, <3>3
  <2> QED BY <2>1, <2>2
<1>2. ASSUME Tick \/ UNCHANGED vars, NEW q \in Requests
      PROVE  Spaces(q)' /\ Issues(q)' /\ Lives(q)'
  <2>1. /\ UNCHANGED <<store, pc, op, cred, snap, at, fresh, pend, reply, since>>
        /\ now' \in {now, now + 1}
    BY <1>2 DEF Tick, vars, Table, Envelope
  <2>2. Spaces(q) /\ Issues(q) /\ Lives(q)
    BY DEF Timely
  <2>3. now \in Nat /\ since[q] \in Nat
    BY <1>0 DEF Coherent, TypeOK
  <2>4. Spaces(q)' /\ Issues(q)'
    BY <2>1, <2>2 DEF Spaces, Issues, Writing
  <2>5. Lives(q)'
    BY <2>1, <2>2, <2>3 DEF Lives, Lasts, Writing, Succeeded
  <2> QED BY <2>4, <2>5
<1> QED BY <1>1, <1>2 DEF Next, Step, Timely

THEOREM Timeliness == Spec => []Timely
<1>1. Init => Timely
  <2> SUFFICES ASSUME Init, NEW r \in Requests
               PROVE  Spaces(r) /\ Issues(r) /\ Lives(r)
    BY DEF Timely
  <2>1. /\ pc[r] = "idle" /\ snap[r] = None /\ reply[r] = NoReply
        /\ since[r] = 0 /\ now = 0
    BY DEF Init
  <2> QED BY <2>1 DEF Spaces, Issues, Lives, Writing, Succeeded
<1> QED BY <1>1, TimelyStep, Accountability, PTL DEF Spec

\* getSession and refreshSession never serve a request whose token was rotated
\* away, or whose session was revoked or had expired, before it arrived.
THEOREM ServedLive == Spec => []ServedOnlyWhatWasLive
<1>1. Kept /\ Timely => ServedOnlyWhatWasLive
  <2> SUFFICES ASSUME Kept, Timely, NEW r \in Requests,
                      Succeeded(r, "getSession") \/ Succeeded(r, "refreshSession")
               PROVE  /\ arrival[r][snap[r].id] # None
                      /\ arrival[r][snap[r].id].token = cred[r]
                      /\ ~arrival[r][snap[r].id].revoked
                      /\ Lasts(snap[r].row, since[r])
                      /\ op[r] = "refreshSession" => Lasts(snap[r].row, at[r])
    BY DEF ServedOnlyWhatWasLive
  <2>1. Spent(r) /\ Validated(r) /\ Lives(r)
    BY DEF Kept, Accountable, Remembers, Timely
  <2>2. snap[r] # None /\ Succeeded(r, op[r])
    BY <2>1 DEF Spent, Succeeded, BuiltInActions
  <2> QED BY <2>1, <2>2 DEF Validated, Lives
<1> QED BY <1>1, Accountability, Timeliness, PTL

\* An UPDATE that moves the idle expiry and leaves the token is of a refresh that
\* drew none.
LEMMA PublishExtension ==
  ASSUME Coherent, NEW r \in Requests, Publish(r), NEW s \in Ids, Exists(s),
         store'[s].token = store[s].token, store'[s].idle # store[s].idle
  PROVE  /\ op[r] = "refreshSession" /\ fresh[r] = None /\ Writing(r)
         /\ s = snap[r].id /\ store'[s].idle = at[r] + IdleTimeout
<1> USE DEF Coherent, TypeOK, Exists
<1>1. pend[r][s] # None /\ store'[s] = pend[r][s] /\ HeldBy(r, s)
  BY DEF Publish, PendingIsCurrent
<1>2. /\ op[r] # "signIn" /\ store'[s] = Written(r, s) /\ store[s] \in Row
      /\ Writing(r)
  BY <1>1 DEF HeldBy
<1>3. op[r] = "refreshSession"
  BY <1>2 DEF Written, Row
<1>4. s = snap[r].id
  BY <1>1, <1>3 DEF HeldBy
<1>5. fresh[r] = None
  <2>1. fresh[r] # None => store'[s].token = fresh[r]
    BY <1>2, <1>3 DEF Written, Rotated, Extended, Row
  <2>2. fresh[r] # None => store[s].token # fresh[r]
    BY <1>2 DEF TokensAccounted, HoldsFreshToken
  <2> QED BY <2>1, <2>2
<1>6. store'[s].idle = at[r] + IdleTimeout
  BY <1>2, <1>3, <1>5 DEF Written, Extended, Row
<1> QED BY <1>2, <1>3, <1>4, <1>5, <1>6

\* A stale decision to rotate cannot commit, and a stale decision not to is one
\* taken before the row was due.
THEOREM RotationDueness == Spec => RotatesWhenDue
<1> DEFINE InTime(s) ==
             /\ store'[s].token # store[s].token =>
                   store'[s].rotated >= store[s].rotated + RotationThreshold
             /\ store'[s].token = store[s].token /\ store'[s].idle # store[s].idle =>
                   store'[s].idle - IdleTimeout < store[s].rotated + RotationThreshold
           Due == \A s \in Ids : Exists(s) => InTime(s)
<1>1. Kept /\ Timely /\ [Next]_vars => [Due]_vars
  <2> SUFFICES ASSUME Kept, Timely, [Next]_vars PROVE Due
    OBVIOUS
  <2>0. Coherent /\ \A r \in Requests : Swaps(r) /\ Spaces(r)
    BY DEF Kept, Accountable, Remembers, Timely
  <2>1. CASE store' = store
    BY <2>1
  <2>2. ASSUME NEW r \in Requests, Publish(r) PROVE Due
    <3> SUFFICES ASSUME NEW s \in Ids, Exists(s) PROVE InTime(s)
      OBVIOUS
    <3>1. store'[s].token # store[s].token =>
             store[s].rotated + RotationThreshold <= store'[s].rotated
      BY <2>0, <2>2, RotatedForward
    <3>2. store[s].rotated \in Nat /\ (Publish(r) => store'[s].rotated \in Nat)
      <4>1. store[s] \in Row /\ store'[s] \in Row
        BY <2>0, <2>2, PublishTypes, PublishEffect DEF Coherent, TypeOK, Exists
      <4> QED BY <4>1 DEF Row
    <3>3. store'[s].token # store[s].token =>
             store'[s].rotated >= store[s].rotated + RotationThreshold
      BY <2>2, <3>1, <3>2, ConfigAssumption
    <3>4. ASSUME store'[s].token = store[s].token, store'[s].idle # store[s].idle
          PROVE  store'[s].idle - IdleTimeout < store[s].rotated + RotationThreshold
      <4>1. /\ op[r] = "refreshSession" /\ fresh[r] = None /\ Writing(r)
            /\ s = snap[r].id /\ store'[s].idle = at[r] + IdleTimeout
        BY <2>0, <2>2, <3>4, PublishExtension
      <4>2. snap[r] # None /\ snap[r].row \in Row /\ at[r] \in Nat
        BY <2>0, <4>1 DEF Coherent, TypeOK, TargetsExist, ActsOnOwnSessions
      <4>3. /\ snap[r].row.rotated <= store[s].rotated
            /\ ~(snap[r].row.rotated + RotationThreshold <= at[r])
        BY <2>0, <4>1, <4>2 DEF Spaces
      <4>4. snap[r].row.rotated \in Nat
        BY <4>2 DEF Row
      <4> QED BY <3>2, <4>1, <4>2, <4>3, <4>4, ConfigAssumption
    <3> QED BY <3>3, <3>4
  <2>3. CASE Tick \/ UNCHANGED vars
    BY <2>1, <2>3 DEF Tick, vars, Table
  <2> QED BY <2>0, <2>1, <2>2, <2>3, OnlyCommitPublishes DEF Next, Step
<1> QED BY <1>1, Accountability, Timeliness, PTL DEF Spec, RotatesWhenDue

\* A client that is handed a new token can use it: it is the current token of
\* a session when the reply is made, after a sign-in and after a rotation.
THEOREM FreshTokens == Spec => FreshTokenIsCurrent
<1> DEFINE Usable == \A r \in Requests :
             pc[r] = "commit" /\ reply'[r].kind = "success" /\ fresh[r] # None =>
                \E s \in Ids : store'[s] # None /\ store'[s].token = reply'[r].token
<1>1. Kept /\ Timely /\ [Next]_vars => [Usable]_vars
  <2> SUFFICES ASSUME Kept, Timely, Next,
                      NEW r \in Requests, pc[r] = "commit", fresh[r] # None,
                      reply'[r].kind = "success"
               PROVE  \E s \in Ids : /\ store'[s] # None
                                     /\ store'[s].token = reply'[r].token
    OBVIOUS
  <2>0. Coherent /\ Issues(r) /\ HoldsFreshToken(r) /\ ActsOnOwnSessions(r)
    BY DEF Kept, Coherent, Timely, TokensAccounted, TargetsExist
  <2>1. Commit(r)
    <3>1. reply'[r] # reply[r]
      BY <2>0 DEF Issues, NoReply
    <3>2. Step(r)
      <4>1. ~Tick
        BY <3>1 DEF Tick
      <4>2. \A q \in Requests \ {r} : ~Step(q)
        BY <2>0, <3>1, OthersKeepThePast DEF Coherent
      <4> QED BY <4>1, <4>2 DEF Next, Step
    <3>3. CASE Handle(r) /\ ~Commit(r)
      BY <3>1, <3>3 DEF Handle, FindSession, CheckExpiry, PolicyRefuses,
         PoliciesAllow, StartRefresh, StartRevocation, IssueSession, UpdateEnds
    <3>4. CASE ~Handle(r)
      <4>1. reply'[r].kind # "success"
        BY <2>0, <3>1, <3>2, <3>4 DEF Step, Arrives, SignIn, Present, PresentNothing,
           Arrive, UpdateRow, CommitFails, Fail, Receive, Abandon, Forget, NoReply,
           Answer, Coherent, TypeOK
      <4> QED BY <4>1
    <3> QED BY <3>2, <3>3, <3>4 DEF Handle
  <2>2. op[r] \in {"signIn", "refreshSession"}
    BY <2>0, <2>1 DEF HoldsFreshToken, ActsOnOwnSessions, Coherent, TypeOK, BuiltInActions
  <2>3. PICK s \in Ids : pend[r][s] # None
    <3>1. op[r] = "refreshSession" => snap[r].id \in Ids /\ pend[r][snap[r].id] # None
      BY <2>0, <2>1 DEF Commit, CommitAnswer, Answer, ActsOnOwnSessions, Writing,
                        Coherent, TypeOK
    <3> QED BY <2>0, <2>2, <3>1 DEF Issues
  <2>4. HeldBy(r, s)
    BY <2>0, <2>3 DEF Coherent, PendingIsCurrent
  <2>5. pend[r][s].token = fresh[r]
    <3>1. CASE op[r] = "signIn"
      BY <2>4, <3>1 DEF HeldBy
    <3>2. CASE op[r] = "refreshSession"
      <4>1. pend[r][s] = Written(r, s) /\ store[s] \in Row
        BY <2>0, <2>4, <3>2 DEF HeldBy, Exists, Coherent, TypeOK
      <4> QED BY <3>2, <4>1 DEF Written, Rotated, Extended, Row
    <3> QED BY <2>2, <3>1, <3>2
  <2>6. store'[s] = pend[r][s]
    BY <2>1, <2>3 DEF Commit, Publish
  <2>7. reply'[r].token = fresh[r]
    BY <2>0, <2>1, <2>2 DEF Commit, CommitAnswer, Answer, Coherent, TypeOK
  <2> QED BY <2>3, <2>5, <2>6, <2>7
<1> QED BY <1>1, Accountability, Timeliness, PTL DEF Spec, FreshTokenIsCurrent

-----------------------------------------------------------------------------
(* Deadlock *)

\* Who holds a row that somebody waits for, and waits itself, is a logoutAll of the
\* user whose row it is.
LEMMA WaitingHolder ==
  ASSUME Coherent, NEW r \in Requests, NEW s \in Ids, pend[r][s] # None,
         pc[r] = "write", want[r] # {}
  PROVE  op[r] = "logoutAll" /\ store[s].user = snap[r].row.user
<1>1. HeldBy(r, s) /\ ActsOnOwnSessions(r)
  BY DEF Coherent, PendingIsCurrent, TargetsExist
<1>2. op[r] # "signIn"
  BY <1>1 DEF HeldBy
<1>3. op[r] \notin {"refreshSession", "logout"}
  BY <1>1, <1>2 DEF HeldBy, ActsOnOwnSessions
<1>4. op[r] \in BuiltInActions \ {"getSession"}
  BY <1>1 DEF ActsOnOwnSessions
<1> QED
  BY <1>1, <1>3, <1>4 DEF HeldBy, BuiltInActions

\* Whichever requests wait for each other, each is a logoutAll and waits for
\* another of the same user.
THEOREM DeadlocksAreOfLogoutAlls == Spec => []OnlyLogoutAllsDeadlock
<1>1. ASSUME Coherent, NEW C \in SUBSET Requests, WaitForEachOther(C), NEW y \in C,
             NEW s \in Ids, pend[y][s] # None
      PROVE  op[y] = "logoutAll" /\ store[s].user = snap[y].row.user
  <2>1. pc[y] = "write" /\ want[y] # {}
    BY <1>1 DEF WaitForEachOther
  <2> QED BY <1>1, <2>1, WaitingHolder
<1>2. ASSUME Coherent PROVE OnlyLogoutAllsDeadlock
  <2> SUFFICES ASSUME NEW C \in SUBSET Requests, WaitForEachOther(C), NEW r \in C
               PROVE  /\ op[r] = "logoutAll"
                      /\ \E q \in C \ {r} : /\ op[q] = "logoutAll"
                                            /\ snap[q].row.user = snap[r].row.user
    BY DEF OnlyLogoutAllsDeadlock
  <2>1. \A x \in C : want[x] \subseteq Ids
    BY <1>2 DEF Coherent, TypeOK
  <2>2. op[r] = "logoutAll"
    <3>1. PICK y \in C : WaitsFor(y, r)
      BY DEF WaitForEachOther
    <3>2. PICK s \in want[y] : pend[r][s] # None
      BY <3>1 DEF WaitsFor
    <3> QED BY <1>1, <1>2, <2>1, <3>2
  <2>3. PICK s \in want[r] : TRUE
    BY DEF WaitForEachOther
  <2>4. PICK q \in C \ {r} : pend[q][s] # None
    BY DEF WaitForEachOther
  <2>5. op[q] = "logoutAll" /\ store[s].user = snap[q].row.user
    BY <1>1, <1>2, <2>1, <2>4
  <2>6. store[s].user = snap[r].row.user
    BY <1>2 DEF Coherent, TargetsExist, ActsOnOwnSessions
  <2> QED BY <2>2, <2>5, <2>6
<1> QED
  BY <1>2, Coherence, PTL

-----------------------------------------------------------------------------
(* Progress *)

LEMMA StepsLeftAt ==
  ASSUME NEW r \in Requests
  PROVE  /\ pc[r] = "find" => StepsLeft(r) = 6
         /\ pc[r] = "expiry" => StepsLeft(r) = 5
         /\ pc[r] = "policies" => StepsLeft(r) = 4
         /\ pc[r] = "begin" => StepsLeft(r) = 3
         /\ pc[r] = "issue" => StepsLeft(r) = 2
         /\ pc[r] = "write" => StepsLeft(r) = 2
         /\ pc[r] = "commit" => StepsLeft(r) = 1
         /\ pc[r] \in {"idle", "replied"} => StepsLeft(r) = 0
  BY DEF StepsLeft

LEMMA StepsLeftThen ==
  ASSUME NEW r \in Requests
  PROVE  /\ pc'[r] = "find" => StepsLeft(r)' = 6
         /\ pc'[r] = "expiry" => StepsLeft(r)' = 5
         /\ pc'[r] = "policies" => StepsLeft(r)' = 4
         /\ pc'[r] = "begin" => StepsLeft(r)' = 3
         /\ pc'[r] = "issue" => StepsLeft(r)' = 2
         /\ pc'[r] = "write" => StepsLeft(r)' = 2
         /\ pc'[r] = "commit" => StepsLeft(r)' = 1
         /\ pc'[r] \in {"idle", "replied"} => StepsLeft(r)' = 0
  BY DEF StepsLeft

LEMMA StepAdvances ==
  ASSUME TypeOK, NEW r \in Requests, Step(r), StepsLeft(r) > 0
  PROVE  \/ pc'[r] = pc[r] /\ want'[r] \subseteq want[r]
         \/ StepsLeft(r)' \in 0 .. (StepsLeft(r) - 1)
<1> DEFINE Nearer == StepsLeft(r)' \in 0 .. (StepsLeft(r) - 1)
<1>1. pc[r] \in Pcs \ {"idle", "replied"}
  BY StepsLeftAt DEF TypeOK
<1>2. StepsLeft(r) \in 1 .. 6
  BY <1>1, StepsLeftAt DEF Pcs
<1>3. ASSUME pc'[r] \in {"idle", "replied"} PROVE Nearer
  BY <1>2, <1>3, StepsLeftThen
<1>4. CASE FindSession(r) \/ CheckExpiry(r)
  <2>1. \/ pc[r] = "find" /\ pc'[r] \in {"expiry", "policies", "replied"}
        \/ pc[r] = "expiry" /\ pc'[r] \in {"policies", "replied"}
    BY <1>4 DEF FindSession, CheckExpiry, NotAuthenticated, Goto, Answer, TypeOK
  <2> QED BY <2>1, <1>3, StepsLeftAt, StepsLeftThen
<1>5. CASE PolicyRefuses(r) \/ PoliciesAllow(r)
  <2>1. pc[r] = "policies" /\ pc'[r] \in {"begin", "replied"}
    BY <1>5 DEF PolicyRefuses, PoliciesAllow, Goto, Answer, TypeOK
  <2> QED BY <2>1, <1>3, StepsLeftAt, StepsLeftThen
<1>6. CASE StartRefresh(r) \/ StartRevocation(r)
  <2>1. pc[r] = "begin" /\ pc'[r] \in {"write", "replied"}
    BY <1>6 DEF StartRefresh, StartRevocation, Goto, Answer, TypeOK
  <2> QED BY <2>1, <1>3, StepsLeftAt, StepsLeftThen
<1>7. CASE IssueSession(r) \/ UpdateEnds(r)
  <2>1. pc[r] \in {"issue", "write"} /\ pc'[r] = "commit"
    BY <1>7 DEF IssueSession, UpdateEnds, Goto, TypeOK
  <2> QED BY <2>1, StepsLeftAt, StepsLeftThen
<1>8. CASE Commit(r) \/ CommitFails(r) \/ Fail(r)
  <2>1. pc'[r] = "replied"
    BY <1>8 DEF Commit, CommitAnswer, CommitFails, Fail, Answer, TypeOK
  <2> QED BY <2>1, <1>3
<1>9. CASE Receive(r) \/ Abandon(r)
  <2>1. pc'[r] = "idle"
    BY <1>9 DEF Receive, Abandon, Forget, TypeOK
  <2> QED BY <2>1, <1>3
<1>10. ASSUME NEW s \in Ids, UpdateRow(r, s)
       PROVE  pc'[r] = pc[r] /\ want'[r] \subseteq want[r]
  BY <1>10 DEF UpdateRow, TypeOK
<1>11. ~Arrives(r)
  BY <1>1 DEF Arrives, SignIn, Present, PresentNothing, Arrive
<1> QED BY <1>4, <1>5, <1>6, <1>7, <1>8, <1>9, <1>10, <1>11 DEF Step, Handle

\* A request goes from its arrival to its answer without going back, and its
\* UPDATE from row to row, whoever else writes them.
THEOREM RequestsGoOn == Spec => RequestsAdvance
<1>1. ASSUME Coherent, [Next]_vars, NEW r \in Requests, StepsLeft(r) > 0
      PROVE  \/ pc'[r] = pc[r] /\ want'[r] \subseteq want[r]
             \/ StepsLeft(r)' \in 0 .. (StepsLeft(r) - 1)
  <2>1. CASE Step(r)
    BY <1>1, <2>1, StepAdvances DEF Coherent
  <2>2. ASSUME NEW q \in Requests \ {r}, Step(q) PROVE pc'[r] = pc[r] /\ want'[r] = want[r]
    BY <1>1, <2>2, OthersUnchanged DEF Coherent, SameRequest
  <2>3. Tick \/ UNCHANGED vars => pc'[r] = pc[r] /\ want'[r] = want[r]
    BY DEF Tick, vars
  <2> QED BY <1>1, <2>1, <2>2, <2>3 DEF Next, Step
<1>2. Coherent /\ [Next]_vars =>
         [\A r \in Requests : StepsLeft(r) > 0 =>
             \/ pc'[r] = pc[r] /\ want'[r] \subseteq want[r]
             \/ StepsLeft(r)' \in 0 .. (StepsLeft(r) - 1)]_vars
  BY <1>1
<1> QED BY <1>2, Coherence, PTL DEF Spec, RequestsAdvance
=============================================================================
