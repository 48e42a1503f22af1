-------------------------- MODULE TransactionsProofs --------------------------
(***************************************************************************)
(* For any number of calls and connections: the pool stays clean, a COMMIT  *)
(* applies only its own call's transaction, and callers are told the truth. *)
(***************************************************************************)
EXTENDS Transactions, TLAPS

\* The steps of one call, as the proofs take them apart.
Step(r) == Opening(r) \/ Running(r) \/ Ending(r)

\* A call that holds a connection holds one of the pool's, and it is taken.
LEMMA HeldIsUsed ==
  ASSUME TypeOK, PoolIsClean, NEW r \in Runs, Holds(r)
  PROVE  held[r] \in Conns /\ pool[held[r]] = "used"
BY DEF TypeOK, PoolIsClean

\* The types survive every step of a call.
LEMMA StepTypes ==
  ASSUME Coherent, NEW r \in Runs, Step(r)
  PROVE  TypeOK'
<1> USE DEF Coherent, TypeOK
<1>1. ASSUME NEW c \in Conns, Connect(r, c) PROVE TypeOK'
  BY <1>1 DEF Connect, Goto
<1>2. CASE ConnectFails(r)
  BY <1>2 DEF ConnectFails, Answer, Goto, Connections
<1>3. ASSUME Holds(r) PROVE held[r] \in Conns
  BY <1>3, HeldIsUsed
<1>4. CASE Begin(r)
  BY <1>3, <1>4 DEF Begin, Goto, Holds
<1>5. CASE BeginFails(r)
  BY <1>5 DEF BeginFails, Catch, Goto, Connections
<1>6. CASE StatementFails(r)
  BY <1>3, <1>6 DEF StatementFails, Goto, Holds
<1>7. CASE Returns(r)
  BY <1>7 DEF Returns, Goto, Connections
<1>8. CASE Throws(r)
  BY <1>8 DEF Throws, Catch, Goto, Connections
<1>9. CASE Commit(r)
  <2>1. cause[r] \in {"value", "error"} /\ held[r] \in Conns
    BY <1>3, <1>9 DEF Commit, ServerAgrees, Agrees, Holds
  <2>2. committed' \subseteq Runs
    BY <2>1, <1>9 DEF Commit, Applied
  <2> QED BY <1>9, <2>1, <2>2 DEF Commit, EndTransaction, Release, Answer, Goto
<1>10. CASE CommitFails(r)
  <2>1. held[r] \in Conns
    BY <1>3, <1>10 DEF CommitFails, Holds
  <2>2. committed' \subseteq Runs
    BY <2>1, <1>10 DEF CommitFails, LoseCommit, Applied
  <2> QED BY <1>10, <2>1, <2>2 DEF CommitFails, LoseCommit, EndTransaction, Catch, Goto
<1>11. CASE Rollback(r)
  BY <1>3, <1>11 DEF Rollback, EndTransaction, Release, Answer, Goto, Holds
<1>12. CASE RollbackFails(r)
  BY <1>3, <1>12 DEF RollbackFails, Destroy, EndTransaction, Answer, Goto, Holds
<1> QED BY <1>1, <1>2, <1>4, <1>5, <1>6, <1>7, <1>8, <1>9, <1>10, <1>11, <1>12
        DEF Step, Opening, Running, Ending

-----------------------------------------------------------------------------
(* Progress *)

LEMMA StepsLeftAt ==
  ASSUME NEW r \in Runs
  PROVE  /\ pc[r] = "connect" => StepsLeft(r) = 6
         /\ pc[r] = "begin" => StepsLeft(r) = 5
         /\ pc[r] = "run" => StepsLeft(r) = 4
         /\ pc[r] = "failed" => StepsLeft(r) = 3
         /\ pc[r] = "commit" => StepsLeft(r) = 2
         /\ pc[r] = "rollback" => StepsLeft(r) = 1
  BY DEF StepsLeft

LEMMA StepsLeftThen ==
  ASSUME NEW r \in Runs
  PROVE  /\ pc'[r] = "begin" => StepsLeft(r)' = 5
         /\ pc'[r] = "run" => StepsLeft(r)' = 4
         /\ pc'[r] = "failed" => StepsLeft(r)' = 3
         /\ pc'[r] = "commit" => StepsLeft(r)' = 2
         /\ pc'[r] = "rollback" => StepsLeft(r)' = 1
         /\ pc'[r] = "done" => StepsLeft(r)' = 0
  BY DEF StepsLeft

LEMMA StepAdvances ==
  ASSUME TypeOK, NEW r \in Runs, Step(r)
  PROVE  StepsLeft(r)' \in 0 .. (StepsLeft(r) - 1)
<1> USE StepsLeftAt, StepsLeftThen DEF TypeOK, Goto
<1>1. ASSUME NEW c \in Conns, Connect(r, c) PROVE StepsLeft(r)' \in 0 .. (StepsLeft(r) - 1)
  BY <1>1 DEF Connect
<1>2. CASE ConnectFails(r)
  BY <1>2 DEF ConnectFails, Answer
<1>3. CASE Begin(r) \/ BeginFails(r)
  BY <1>3 DEF Begin, BeginFails, Catch
<1>4. CASE StatementFails(r)
  BY <1>4 DEF StatementFails
<1>5. CASE Returns(r)
  BY <1>5 DEF Returns
<1>6. CASE Throws(r)
  BY <1>6 DEF Throws, Catch
<1>7. CASE Commit(r) \/ CommitFails(r)
  BY <1>7 DEF Commit, CommitFails, Answer, Catch
<1>8. CASE Rollback(r) \/ RollbackFails(r)
  BY <1>8 DEF Rollback, RollbackFails, Answer
<1> HIDE DEF TypeOK, Goto
<1> QED BY <1>1, <1>2, <1>3, <1>4, <1>5, <1>6, <1>7, <1>8 DEF Step, Opening, Running, Ending

-----------------------------------------------------------------------------
(* The pool *)

\* A step that keeps who holds what and touches no idle connection keeps the
\* pool clean.
LEMMA StillHeld ==
  ASSUME Coherent, NEW r \in Runs, Holds(r), Holds(r)',
         \A q \in Runs \ {r} : pc'[q] = pc[q],
         UNCHANGED <<held, pool>>,
         \A c \in Conns \ {held[r]} : server'[c] = server[c] /\ work'[c] = work[c]
  PROVE  PoolIsClean'
<1>1. \A q \in Runs : Holds(q)' <=> Holds(q)
  BY DEF Holds
<1>2. \A c \in Conns : pool[c] # "used" => c # held[r]
  BY HeldIsUsed DEF Coherent
<1> QED BY <1>1, <1>2 DEF Coherent, PoolIsClean

\* A call that ends and gives its connection back clean keeps the pool clean.
LEMMA GivenBack ==
  ASSUME Coherent, NEW r \in Runs, Holds(r), pc'[r] = "done",
         \A q \in Runs \ {r} : pc'[q] = pc[q],
         UNCHANGED held,
         NEW state \in {"idle", "gone"},
         pool' = [pool EXCEPT ![held[r]] = state],
         EndTransaction(held[r])
  PROVE  PoolIsClean'
<1>1. held[r] \in Conns
  BY HeldIsUsed DEF Coherent
<1>2. ~Holds(r)' /\ \A q \in Runs \ {r} : Holds(q)' <=> Holds(q)
  BY DEF Holds
<1>3. \A q \in Runs \ {r} : Holds(q) => held[q] # held[r]
  BY DEF Coherent, PoolIsClean
<1>4. \A c \in Conns : c # held[r] =>
         pool'[c] = pool[c] /\ server'[c] = server[c] /\ work'[c] = work[c]
  BY DEF EndTransaction, Coherent, TypeOK
<1>5. pool'[held[r]] = state /\ server'[held[r]] = "none" /\ work'[held[r]] = {}
  BY <1>1 DEF EndTransaction, Coherent, TypeOK
<1>6. \A q \in Runs : Holds(q)' => q # r /\ Holds(q) /\ held'[q] = held[q]
  BY <1>2
<1>7. \A q \in Runs : Holds(q)' => held'[q] # None /\ pool'[held'[q]] = "used"
  BY <1>3, <1>4, <1>6, HeldIsUsed DEF Coherent, PoolIsClean
<1>8. \A p, q \in Runs : Holds(p)' /\ Holds(q)' /\ held'[p] = held'[q] => p = q
  BY <1>6 DEF Coherent, PoolIsClean
<1>9. \A c \in Conns : pool'[c] = "used" => \E q \in Runs : Holds(q)' /\ held'[q] = c
  BY <1>1, <1>2, <1>4, <1>5 DEF Coherent, PoolIsClean
<1>10. \A c \in Conns : pool'[c] # "used" => server'[c] = "none" /\ work'[c] = {}
  BY <1>4, <1>5 DEF Coherent, PoolIsClean
<1> QED BY <1>7, <1>8, <1>9, <1>10 DEF PoolIsClean

\* The pool stays clean at every step of a call.
LEMMA StepClean ==
  ASSUME Coherent, NEW r \in Runs, Step(r)
  PROVE  PoolIsClean'
<1>1. ASSUME NEW c \in Conns, Connect(r, c) PROVE PoolIsClean'
  <2>1. /\ pool[c] # "used" /\ pool'[c] = "used" /\ held'[r] = c
        /\ ~Holds(r) /\ Holds(r)' /\ UNCHANGED <<server, work>>
    BY <1>1 DEF Connect, Available, Goto, Holds, Coherent, TypeOK
  <2>2. \A q \in Runs : q # r => (Holds(q)' <=> Holds(q)) /\ held'[q] = held[q]
    BY <1>1 DEF Connect, Goto, Holds, Coherent, TypeOK
  <2>3. \A d \in Conns : d # c => pool'[d] = pool[d]
    BY <1>1 DEF Connect, Coherent, TypeOK
  <2>4. \A q \in Runs : Holds(q) => held[q] # c /\ held[q] \in Conns
    BY <2>1, HeldIsUsed DEF Coherent
  <2>5. \A q \in Runs : Holds(q)' => held'[q] # None /\ pool'[held'[q]] = "used"
    BY <2>1, <2>2, <2>3, <2>4, NoneAssumption, HeldIsUsed DEF Coherent
  <2>6. \A p, q \in Runs : Holds(p)' /\ Holds(q)' /\ held'[p] = held'[q] => p = q
    BY <2>1, <2>2, <2>4 DEF Coherent, PoolIsClean
  <2>7. \A d \in Conns : pool'[d] = "used" => \E q \in Runs : Holds(q)' /\ held'[q] = d
    BY <2>1, <2>2, <2>3 DEF Coherent, PoolIsClean
  <2>8. \A d \in Conns : pool'[d] # "used" => server'[d] = "none" /\ work'[d] = {}
    BY <2>1, <2>3 DEF Coherent, PoolIsClean
  <2> QED BY <2>5, <2>6, <2>7, <2>8 DEF PoolIsClean
<1>2. CASE ConnectFails(r)
  <2>1. \A q \in Runs : Holds(q)' <=> Holds(q)
    BY <1>2 DEF ConnectFails, Answer, Goto, Holds, Coherent, TypeOK
  <2> QED BY <1>2, <2>1 DEF ConnectFails, Answer, Connections, Coherent, PoolIsClean
<1>3. CASE Begin(r) \/ StatementFails(r)
  BY <1>3, StillHeld DEF Begin, StatementFails, Goto, Holds, Coherent, TypeOK
<1>4. CASE BeginFails(r) \/ Throws(r)
  BY <1>4, StillHeld DEF BeginFails, Throws, Catch, Goto, Connections, Holds, Coherent, TypeOK
<1>5. CASE Returns(r)
  BY <1>5, StillHeld DEF Returns, Goto, Connections, Holds, Coherent, TypeOK
<1>6. CASE CommitFails(r)
  BY <1>6, StillHeld
     DEF CommitFails, LoseCommit, EndTransaction, Catch, Goto, Holds, Coherent, TypeOK
<1>7. CASE Commit(r)
  BY <1>7, GivenBack DEF Commit, Release, Answer, Goto, Holds, Coherent, TypeOK
<1>8. CASE Rollback(r)
  BY <1>8, GivenBack DEF Rollback, Release, Answer, Goto, Holds, Coherent, TypeOK
<1>9. CASE RollbackFails(r)
  BY <1>9, GivenBack DEF RollbackFails, Destroy, Answer, Goto, Holds, Coherent, TypeOK
<1> QED BY <1>1, <1>2, <1>3, <1>4, <1>5, <1>6, <1>7, <1>8, <1>9
        DEF Step, Opening, Running, Ending

-----------------------------------------------------------------------------
(* The calls and the server *)

\* A step has left call q alone, and the connection that it holds.
Untouched(q) ==
    /\ pc'[q] = pc[q] /\ held'[q] = held[q] /\ cause'[q] = cause[q] /\ told'[q] = told[q]
    /\ q \in committed' <=> q \in committed
    /\ Holds(q) => /\ link'[held[q]] = link[held[q]] /\ server'[held[q]] = server[held[q]]
                   /\ work'[held[q]] = work[held[q]]

\* A step of one call leaves the others alone.
LEMMA OthersUntouched ==
  ASSUME Coherent, NEW r \in Runs, Step(r), NEW q \in Runs, q # r
  PROVE  Untouched(q)
<1> USE DEF Coherent, TypeOK, Untouched
<1>1. ASSUME Holds(r), Holds(q) PROVE held[q] # held[r] /\ held[q] \in Conns /\ held[r] \in Conns
  BY <1>1, HeldIsUsed DEF PoolIsClean
<1>2. ASSUME NEW c \in Conns, Available(c), Holds(q) PROVE held[q] # c
  BY <1>2, HeldIsUsed DEF Available
<1>3. pc[r] = "commit" => q \notin work[held[r]]
  BY DEF ServerAgrees, Agrees
<1>4. ASSUME NEW c \in Conns, Connect(r, c) PROVE Untouched(q)
  BY <1>2, <1>4 DEF Connect, Goto
<1>5. CASE ConnectFails(r)
  BY <1>5 DEF ConnectFails, Answer, Goto, Connections
<1>6. CASE Begin(r)
  BY <1>1, <1>6 DEF Begin, Goto, Holds
<1>7. CASE BeginFails(r)
  BY <1>7 DEF BeginFails, Catch, Goto, Connections
<1>8. CASE StatementFails(r)
  BY <1>1, <1>8 DEF StatementFails, Goto, Holds
<1>9. CASE Returns(r)
  BY <1>9 DEF Returns, Goto, Connections
<1>10. CASE Throws(r)
  BY <1>10 DEF Throws, Catch, Goto, Connections
<1>11. CASE Commit(r)
  <2>1. q \in committed' <=> q \in committed
    BY <1>3, <1>11 DEF Commit, Applied
  <2> QED BY <1>1, <1>11, <2>1 DEF Commit, EndTransaction, Answer, Goto, Holds
<1>12. CASE CommitFails(r)
  <2>1. q \in committed' <=> q \in committed
    BY <1>3, <1>12 DEF CommitFails, LoseCommit, Applied
  <2> QED BY <1>1, <1>12, <2>1 DEF CommitFails, LoseCommit, EndTransaction, Catch, Goto, Holds
<1>13. CASE Rollback(r)
  BY <1>1, <1>13 DEF Rollback, EndTransaction, Answer, Goto, Holds
<1>14. CASE RollbackFails(r)
  BY <1>1, <1>14 DEF RollbackFails, Destroy, EndTransaction, Answer, Goto, Holds
<1> QED BY <1>4, <1>5, <1>6, <1>7, <1>8, <1>9, <1>10, <1>11, <1>12, <1>13, <1>14
        DEF Step, Opening, Running, Ending

\* What is left alone still agrees with the server.
LEMMA StillAgrees ==
  ASSUME Coherent, NEW q \in Runs, Untouched(q)
  PROVE  Agrees(q)'
<1>1. Agrees(q) /\ (Holds(q)' <=> Holds(q))
  BY DEF Coherent, ServerAgrees, Untouched, Holds
<1>2. CASE Holds(q)
  BY <1>1, <1>2 DEF Untouched, Agrees
<1>3. CASE ~Holds(q)
  BY <1>1, <1>3 DEF Untouched, Agrees, Holds
<1> QED BY <1>2, <1>3

\* A call's own step leaves it in agreement with the server.
LEMMA StepAgrees ==
  ASSUME Coherent, NEW r \in Runs, Step(r)
  PROVE  Agrees(r)'
<1> USE DEF Coherent, TypeOK, Agrees
<1>1. Agrees(r) /\ (Holds(r) => held[r] \in Conns)
  BY HeldIsUsed DEF ServerAgrees
<1>2. ASSUME NEW c \in Conns, Connect(r, c) PROVE Agrees(r)'
  <2>1. server[c] = "none" /\ work[c] = {}
    BY <1>2 DEF Connect, Available, PoolIsClean
  <2> QED BY <1>1, <1>2, <2>1 DEF Connect, Goto, Holds
<1>3. CASE ConnectFails(r)
  BY <1>1, <1>3 DEF ConnectFails, Answer, Goto, Connections, Holds
<1>4. CASE Begin(r)
  BY <1>1, <1>4 DEF Begin, Goto, Holds
<1>5. CASE BeginFails(r)
  BY <1>1, <1>5 DEF BeginFails, Catch, Goto, Connections, Holds
<1>6. CASE StatementFails(r)
  BY <1>1, <1>6 DEF StatementFails, Goto, Holds
<1>7. CASE Returns(r)
  BY <1>1, <1>7 DEF Returns, Goto, Connections, Holds
<1>8. CASE Throws(r)
  BY <1>1, <1>8 DEF Throws, Catch, Goto, Connections, Holds
<1>9. CASE Commit(r)
  BY <1>1, <1>9 DEF Commit, Applied, EndTransaction, Answer, Goto, Holds
<1>10. CASE CommitFails(r)
  BY <1>1, <1>10 DEF CommitFails, LoseCommit, Applied, EndTransaction, Catch, Goto, Holds
<1>11. CASE Rollback(r)
  BY <1>1, <1>11 DEF Rollback, EndTransaction, Answer, Goto, Holds
<1>12. CASE RollbackFails(r)
  BY <1>1, <1>12 DEF RollbackFails, Destroy, EndTransaction, Answer, Goto, Holds
<1> QED BY <1>2, <1>3, <1>4, <1>5, <1>6, <1>7, <1>8, <1>9, <1>10, <1>11, <1>12
        DEF Step, Opening, Running, Ending

\* A connection that breaks leaves everything in agreement.
LEMMA BreakKeeps ==
  ASSUME Coherent, NEW c \in Conns, Break(c)
  PROVE  Coherent'
<1> USE DEF Coherent, TypeOK, Break, EndTransaction, Calls
<1>1. TypeOK'
  OBVIOUS
<1>2. \A r \in Runs : Holds(r)' <=> Holds(r)
  BY DEF Holds
<1>3. \A r \in Runs : Holds(r) => held[r] \in Conns /\ pool[held[r]] = "used"
  BY HeldIsUsed
<1>4. PoolIsClean'
  BY <1>2, <1>3 DEF PoolIsClean
<1>5. ASSUME NEW r \in Runs PROVE Agrees(r)'
  <2>1. Agrees(r)
    BY DEF ServerAgrees
  <2>2. CASE ~Holds(r) \/ held[r] # c
    BY <1>2, <1>3, <2>1, <2>2, StillAgrees DEF Untouched
  <2>3. CASE Holds(r) /\ held[r] = c
    BY <1>2, <1>3, <2>1, <2>3 DEF Agrees
  <2> QED BY <2>2, <2>3
<1> QED BY <1>1, <1>4, <1>5 DEF ServerAgrees

-----------------------------------------------------------------------------
(* Theorems *)

\* The inductive invariant holds initially.
LEMMA CoherentInit == Init => Coherent
<1> SUFFICES ASSUME Init PROVE Coherent
  OBVIOUS
<1>1. TypeOK
  BY DEF Init, TypeOK
<1>2. PoolIsClean
  BY DEF Init, PoolIsClean, Holds
<1>3. ServerAgrees
  BY DEF Init, ServerAgrees, Agrees, Holds
<1> QED BY <1>1, <1>2, <1>3 DEF Coherent

\* Every step keeps the inductive invariant.
LEMMA CoherentStep == Coherent /\ [Next]_vars => Coherent'
<1> SUFFICES ASSUME Coherent, [Next]_vars PROVE Coherent'
  OBVIOUS
<1>1. ASSUME NEW r \in Runs, Step(r) PROVE Coherent'
  <2>1. \A q \in Runs : Agrees(q)'
    BY <1>1, StepAgrees, OthersUntouched, StillAgrees
  <2> QED BY <1>1, <2>1, StepTypes, StepClean DEF Coherent, ServerAgrees
<1>2. ASSUME NEW c \in Conns, Break(c) PROVE Coherent'
  BY <1>2, BreakKeeps
<1>3. CASE UNCHANGED vars
  BY <1>3 DEF vars, Calls, Connections, Coherent, TypeOK, PoolIsClean, ServerAgrees, Agrees, Holds
<1> QED BY <1>1, <1>2, <1>3 DEF Next, Step

\* The pool, the server and the calls agree in every reachable state.
THEOREM Agreement == Spec => []Coherent
BY CoherentInit, CoherentStep, PTL DEF Spec

\* However many calls share however few connections, a connection is never
\* handed out with an earlier call's transaction on it and never leaked.
THEOREM PoolStaysClean == Spec => []PoolIsClean
<1>1. Coherent => PoolIsClean
  BY DEF Coherent
<1> QED BY <1>1, Agreement, PTL

\* A COMMIT never applies what another call had written.
THEOREM OwnWorkOnly == Spec => CommitsOwnWork
<1>1. Coherent /\ [Next]_vars =>
      [\A r \in committed' \ committed : pc[r] = "commit" /\ pc'[r] # "commit"]_vars
  <2> SUFFICES ASSUME Coherent, Next, NEW q \in committed' \ committed
               PROVE  pc[q] = "commit" /\ pc'[q] # "commit"
    OBVIOUS
  <2>1. CASE \E r \in Runs : Step(r)
    <3>1. PICK r \in Runs : Step(r)
      BY <2>1
    <3>2. q \in Runs
      BY CoherentStep DEF Coherent, TypeOK
    <3>3. q = r
      BY <3>1, <3>2, OthersUntouched DEF Untouched
    <3>4. Commit(r) \/ CommitFails(r)
      BY <3>1, <3>3 DEF Step, Opening, Running, Ending, Connect, ConnectFails, Begin, BeginFails,
         StatementFails, Returns, Throws, Rollback, RollbackFails
    <3> QED BY <3>3, <3>4 DEF Commit, CommitFails, Answer, Catch, Goto, Coherent, TypeOK
  <2>2. CASE \E c \in Conns : Break(c)
    BY <2>2 DEF Break
  <2>3. CASE UNCHANGED vars
    BY <2>3 DEF vars
  <2> QED BY <2>1, <2>2, <2>3 DEF Next, Step
<1> QED BY <1>1, Agreement, PTL DEF Spec, CommitsOwnWork

-----------------------------------------------------------------------------
(* Refinement of TransactionOutcome *)

\* Whose transaction a connection carries is the call that holds it.
LEMMA WorkIsOwn ==
  Coherent => \A q \in Runs, c \in Conns : q \in work[c] => Holds(q) /\ held[q] = c
<1> SUFFICES ASSUME Coherent, NEW q \in Runs, NEW c \in Conns, q \in work[c]
             PROVE  Holds(q) /\ held[q] = c
  OBVIOUS
<1>1. PICK r \in Runs : Holds(r) /\ held[r] = c
  BY DEF Coherent, PoolIsClean
<1>2. work[c] \subseteq {r}
  BY <1>1 DEF Coherent, TypeOK, ServerAgrees, Agrees, Holds
<1> QED BY <1>1, <1>2

\* The server still has the transaction of call q, with nothing failed in it.
Pending(q) ==
    \/ pc[q] \in {"connect", "begin"}
    \/ Holds(q) /\ q \in work[held[q]] /\ server[held[q]] = "open"

\* The outcome of a call, read off its own state.
Mapped ==
    \A q \in Runs : Outcome[q] = IF q \in committed THEN "applied"
                                ELSE IF Pending(q) THEN "open" ELSE "discarded"

LEMMA OutcomeIs == Coherent => Mapped
<1> SUFFICES ASSUME Coherent, NEW q \in Runs
             PROVE  (\E c \in Conns : q \in work[c] /\ server[c] = "open")
                    <=> Holds(q) /\ q \in work[held[q]] /\ server[held[q]] = "open"
  BY DEF Outcome, Pending, Mapped
<1>1. Holds(q) => held[q] \in Conns
  BY HeldIsUsed DEF Coherent
<1> QED BY <1>1, WorkIsOwn

\* What one call may do to its outcome and to what it was told.
Settles(r) ==
    /\ \/ Outcome'[r] = Outcome[r]
       \/ Outcome[r] = "open" /\ told[r] = "nothing" /\ Outcome'[r] \in {"applied", "discarded"}
    /\ \/ told'[r] = told[r]
       \/ /\ told[r] = "nothing" /\ Outcome'[r] # "open"
          /\ told'[r] \in {"value", "error", "signal", "unavailable"}
          /\ told'[r] = "value" => Outcome'[r] = "applied"
          /\ told'[r] \in {"signal", "error"} => Outcome'[r] = "discarded"

LEMMA SettlingIsAStep ==
  ASSUME TypeOK, TypeOK', NEW r \in Runs, Settles(r),
         \A q \in Runs : q # r => Outcome'[q] = Outcome[q] /\ told'[q] = told[q]
  PROVE  Promise!Next
<1>1. Outcome' = [Outcome EXCEPT ![r] = Outcome'[r]]
  <2>1. Outcome = [q \in Runs |-> Outcome[q]]
    BY DEF Outcome
  <2>2. Outcome' = [q \in Runs |-> Outcome'[q]]
    BY DEF Outcome
  <2> QED BY <2>1, <2>2
<1>4. told' = [told EXCEPT ![r] = told'[r]]
  BY DEF TypeOK
<1>2. Promise!Apply(r) \/ Promise!Discard(r) \/ UNCHANGED Outcome
  <2>1. CASE Outcome'[r] = Outcome[r]
    BY <1>1, <2>1 DEF Outcome
  <2>2. CASE Outcome'[r] # Outcome[r]
    BY <1>1, <2>2 DEF Settles, Promise!Apply, Promise!Discard
  <2> QED BY <2>1, <2>2
<1>3. UNCHANGED told
      \/ \E a \in {"value", "error", "signal", "unavailable"} : Promise!Tell(r, a)
  <2>1. CASE told'[r] = told[r]
    BY <1>4, <2>1 DEF TypeOK
  <2>2. CASE told'[r] # told[r]
    BY <1>4, <2>2 DEF Settles, Promise!Tell
  <2> QED BY <2>1, <2>2
<1> QED BY <1>2, <1>3 DEF Promise!Next

\* A call that is left alone keeps its outcome.
LEMMA UntouchedOutcome ==
  ASSUME Mapped, Mapped', NEW q \in Runs, Untouched(q)
  PROVE  Outcome'[q] = Outcome[q] /\ told'[q] = told[q]
<1>1. Pending(q)' <=> Pending(q)
  BY DEF Pending, Holds, Untouched
<1> QED BY <1>1 DEF Mapped, Untouched

\* Every step of a call settles or tells what the abstract specification allows.
LEMMA StepSettles ==
  ASSUME Coherent, Coherent', Mapped, Mapped', NEW r \in Runs, Step(r)
  PROVE  Settles(r)
<1>2. /\ Outcome[r] = IF r \in committed THEN "applied"
                      ELSE IF Pending(r) THEN "open" ELSE "discarded"
      /\ Outcome'[r] = IF r \in committed' THEN "applied"
                       ELSE IF Pending(r)' THEN "open" ELSE "discarded"
  BY DEF Mapped
<1>3. Agrees(r) /\ Agrees(r)' /\ (Holds(r) => held[r] \in Conns)
  BY HeldIsUsed DEF Coherent, ServerAgrees
<1> USE DEF Coherent, TypeOK, Settles, Agrees, Pending, Holds
<1>4. CASE (\E c \in Conns : Connect(r, c)) \/ ConnectFails(r)
  BY <1>2, <1>3, <1>4 DEF Connect, ConnectFails, Answer, Goto, Connections
<1>5. CASE Begin(r) \/ BeginFails(r)
  BY <1>2, <1>3, <1>5 DEF Begin, BeginFails, Catch, Goto, Connections
<1>6. CASE StatementFails(r)
  BY <1>2, <1>3, <1>6 DEF StatementFails, Goto
<1>7. CASE Returns(r) \/ Throws(r)
  BY <1>2, <1>3, <1>7 DEF Returns, Throws, Catch, Goto, Connections
<1>8. CASE Commit(r)
  BY <1>2, <1>3, <1>8 DEF Commit, Applied, EndTransaction, Answer, Goto
<1>9. CASE CommitFails(r)
  BY <1>2, <1>3, <1>9 DEF CommitFails, LoseCommit, Applied, EndTransaction, Catch, Goto
<1>10. CASE Rollback(r)
  BY <1>2, <1>3, <1>10 DEF Rollback, EndTransaction, Answer, Goto
<1>11. CASE RollbackFails(r)
  BY <1>2, <1>3, <1>11 DEF RollbackFails, Destroy, EndTransaction, Answer, Goto
<1> QED BY <1>4, <1>5, <1>6, <1>7, <1>8, <1>9, <1>10, <1>11 DEF Step, Opening, Running, Ending

\* A connection that breaks discards the transaction of the call that holds it.
LEMMA BreakSettles ==
  ASSUME Coherent, Coherent', Mapped, Mapped', NEW c \in Conns, Break(c)
  PROVE  [Promise!Next]_(Promise!vars)
<1>1. \A q \in Runs : Holds(q) => held[q] \in Conns
  BY HeldIsUsed DEF Coherent
<1>2. ASSUME NEW q \in Runs, ~Holds(q) \/ held[q] # c PROVE Untouched(q)
  BY <1>1, <1>2 DEF Untouched, Break, EndTransaction, Calls, Coherent, TypeOK
<1>3. CASE \E r \in Runs : Holds(r) /\ held[r] = c
  <2>1. PICK r \in Runs : Holds(r) /\ held[r] = c
    BY <1>3
  <2>2. \A q \in Runs : q # r => Untouched(q)
    BY <1>2, <2>1 DEF Coherent, PoolIsClean
  <2>4. Settles(r)
    BY <2>1
       DEF Mapped, Settles, Pending, Holds, Break, EndTransaction, Calls, Coherent, TypeOK, ServerAgrees, Agrees
  <2> QED BY <2>2, <2>4, SettlingIsAStep, UntouchedOutcome DEF Coherent
<1>4. CASE ~\E r \in Runs : Holds(r) /\ held[r] = c
  <2>1. \A q \in Runs : Outcome'[q] = Outcome[q]
    BY <1>2, <1>4, UntouchedOutcome
  <2>2. UNCHANGED Outcome
    BY <2>1 DEF Outcome
  <2> QED BY <2>2 DEF Promise!vars, Break, Calls
<1> QED BY <1>3, <1>4

\* beginTransaction keeps the promise of TransactionOutcome: a value only for what
\* was applied, a rollback signal only for what was discarded.
THEOREM TruthIsTold == Spec => PromiseKept
<1>1. Init => Promise!Init
  BY DEF Init, Promise!Init, Outcome
<1>2. Coherent /\ Coherent' /\ Mapped /\ Mapped' /\ [Next]_vars => [Promise!Next]_(Promise!vars)
  <2> SUFFICES ASSUME Coherent, Coherent', Mapped, Mapped', [Next]_vars PROVE [Promise!Next]_(Promise!vars)
    OBVIOUS
  <2>1. ASSUME NEW r \in Runs, Step(r) PROVE Promise!Next
    <3>1. \A q \in Runs : q # r => Outcome'[q] = Outcome[q] /\ told'[q] = told[q]
      BY <2>1, OthersUntouched, UntouchedOutcome
    <3> QED BY <2>1, <3>1, StepSettles, SettlingIsAStep DEF Coherent
  <2>2. ASSUME NEW c \in Conns, Break(c) PROVE [Promise!Next]_(Promise!vars)
    BY <2>2, BreakSettles
  <2>3. CASE UNCHANGED vars
    BY <2>3 DEF vars, Calls, Connections, Promise!vars, Outcome
  <2> QED BY <2>1, <2>2, <2>3 DEF Next, Step
<1> QED BY <1>1, <1>2, Agreement, OutcomeIs, PTL DEF Spec, PromiseKept, Promise!Spec

\* A call goes from its connection to its answer without ever going back, whatever
\* fails on the way.
THEOREM CallsGoOn == Spec => CallsAdvance
<1>1. ASSUME Coherent, [Next]_vars, NEW r \in Runs
      PROVE  pc'[r] = pc[r] \/ StepsLeft(r)' \in 0 .. (StepsLeft(r) - 1)
  <2>1. CASE Step(r)
    BY <1>1, <2>1, StepAdvances DEF Coherent
  <2>2. ASSUME NEW q \in Runs \ {r}, Step(q) PROVE pc'[r] = pc[r]
    BY <1>1, <2>2, OthersUntouched DEF Untouched
  <2>3. (\E c \in Conns : Break(c)) \/ UNCHANGED vars => pc'[r] = pc[r]
    BY DEF Break, vars, Calls
  <2> QED BY <1>1, <2>1, <2>2, <2>3 DEF Next, Step
<1>2. Coherent /\ [Next]_vars =>
         [\A r \in Runs : pc'[r] = pc[r] \/ StepsLeft(r)' \in 0 .. (StepsLeft(r) - 1)]_vars
  BY <1>1
<1> QED BY <1>2, Agreement, PTL DEF Spec, CallsAdvance
=============================================================================
