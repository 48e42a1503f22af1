----------------------------- MODULE Transactions -----------------------------
(***************************************************************************)
(* beginTransaction of storage-postgres over the process-wide connection    *)
(* pool: a call takes a connection, sends BEGIN, lets the caller's function *)
(* run, sends COMMIT, and on any error ROLLBACK; the connection goes back   *)
(* to the pool in the finally block, or is destroyed when the ROLLBACK      *)
(* failed.  A connection may break at any moment, and the answer to a       *)
(* COMMIT may be lost after the server has carried it out.                  *)
(*                                                                         *)
(* The server's side is the state of the session behind each connection: a  *)
(* transaction is open on it, or has failed and will only be rolled back.   *)
(* "work" says whose transactions a COMMIT on the connection would apply;   *)
(* BEGIN does not end a transaction that is still open.                     *)
(***************************************************************************)
EXTENDS FiniteSets, Naturals

CONSTANTS
    Runs,        \* the calls of beginTransaction
    Conns,       \* the connections the pool may hold (its max)
    None

ASSUME NoneAssumption == None \notin Conns

VARIABLES
    pc,          \* the await a call has reached
    held,        \* the connection it holds
    cause,       \* what made it leave the try block
    told,        \* what it has answered
    pool,        \* each connection: idle, used, or gone (not connected)
    link,        \* whether a connection still reaches the server
    server,      \* the transaction state of the session behind it
    work,        \* the calls whose writes that transaction holds
    committed    \* the calls whose transactions have been applied

Calls == <<pc, held, cause, told>>
Connections == <<pool, link, server, work>>
vars == <<Calls, Connections, committed>>

-----------------------------------------------------------------------------
(* Helpers *)

Goto(r, label) == pc' = [pc EXCEPT ![r] = label]

\* The session of connection c has no transaction any more.
EndTransaction(c) ==
    /\ server' = [server EXCEPT ![c] = "none"]
    /\ work' = [work EXCEPT ![c] = {}]

\* return, or throw, from beginTransaction.
Answer(r, answer) ==
    /\ Goto(r, "done")
    /\ told' = [told EXCEPT ![r] = answer]
    /\ UNCHANGED <<held, cause>>

\* The catch block sends ROLLBACK.
Catch(r, why) ==
    /\ Goto(r, "rollback")
    /\ cause' = [cause EXCEPT ![r] = why]
    /\ UNCHANGED <<held, told>>

\* client.release(): the pool keeps the connection.
Release(c) == pool' = [pool EXCEPT ![c] = "idle"]

\* client.release(true): the connection is closed, and the server gives up
\* the transaction of the session behind it.  DestroyIfReleased forgets the flag.
DestroyIfReleased(c) == Release(c) /\ UNCHANGED <<link, server, work>>
Destroy(c) ==
    /\ pool' = [pool EXCEPT ![c] = "gone"]
    /\ link' = [link EXCEPT ![c] = "down"]
    /\ EndTransaction(c)

-----------------------------------------------------------------------------
(* A call of beginTransaction *)

\* pool.connect() gives an idle connection, or opens one while the pool has
\* room; else the call waits.
Available(c) == pool[c] \in {"idle", "gone"}

Connect(r, c) ==
    /\ pc[r] = "connect" /\ Available(c)
    /\ pool' = [pool EXCEPT ![c] = "used"]
    /\ link' = [link EXCEPT ![c] = "up"]
    /\ held' = [held EXCEPT ![r] = c]
    /\ Goto(r, "begin")
    /\ UNCHANGED <<cause, told, server, work, committed>>

\* No connection could be opened.
ConnectFails(r) ==
    /\ pc[r] = "connect"
    /\ Answer(r, "unavailable")
    /\ UNCHANGED <<Connections, committed>>

Begin(r) ==
    /\ pc[r] = "begin" /\ link[held[r]] = "up"
    /\ server' = [server EXCEPT ![held[r]] = IF @ = "none" THEN "open" ELSE @]
    /\ work' = [work EXCEPT ![held[r]] = @ \cup {r}]
    /\ Goto(r, "run")
    /\ UNCHANGED <<held, cause, told, pool, link, committed>>

BeginFails(r) ==
    /\ pc[r] = "begin"
    /\ Catch(r, "fault")
    /\ UNCHANGED <<Connections, committed>>

\* A statement of the caller's function fails: the repository catches the
\* error and returns it as an AuthError, and the server's transaction is void.
StatementFails(r) ==
    /\ pc[r] = "run"
    /\ server' = [server EXCEPT ![held[r]] = IF link[held[r]] = "up" THEN "failed" ELSE @]
    /\ Goto(r, "failed")
    /\ UNCHANGED <<held, cause, told, pool, link, work, committed>>

\* The caller's function ends: it returns, with the repository's error if
\* there was one, or throws, a rollback signal or something else.
Returns(r) ==
    /\ pc[r] \in {"run", "failed"}
    /\ Goto(r, "commit")
    /\ cause' = [cause EXCEPT ![r] = IF pc[r] = "run" THEN "value" ELSE "error"]
    /\ UNCHANGED <<held, told, Connections, committed>>

Throws(r) ==
    /\ pc[r] \in {"run", "failed"}
    /\ \E why \in {"signal", "fault"} : Catch(r, why)
    /\ UNCHANGED <<Connections, committed>>

-----------------------------------------------------------------------------
(* Ending the transaction *)

\* COMMIT of a failed transaction answers without an error and rolls it back.
Applied(c) == IF server[c] = "open" THEN work[c] ELSE {}

Commit(r) ==
    /\ pc[r] = "commit" /\ link[held[r]] = "up"
    /\ committed' = committed \cup Applied(held[r])
    /\ EndTransaction(held[r])
    /\ Release(held[r])
    /\ Answer(r, cause[r])
    /\ UNCHANGED link

\* The connection is lost during COMMIT, after the server has carried it out
\* (if the transaction was still there) or before.
LoseCommit(c) ==
    /\ committed' \in {committed, committed \cup Applied(c)}
    /\ EndTransaction(c)
    /\ link' = [link EXCEPT ![c] = "down"]
CommitFailsIfIgnored(r) ==
    /\ pc[r] = "commit"
    /\ LoseCommit(held[r])
    /\ pool' = [pool EXCEPT ![held[r]] = "gone"]
    /\ Answer(r, cause[r])
CommitFails(r) ==
    /\ pc[r] = "commit"
    /\ LoseCommit(held[r])
    /\ Catch(r, "fault")
    /\ UNCHANGED pool

\* A rollback signal is thrown on to the caller, any other error becomes
\* STORAGE_UNAVAILABLE.
RollbackIfNotReleased(r) ==
    /\ pc[r] = "rollback" /\ link[held[r]] = "up"
    /\ EndTransaction(held[r])
    /\ Answer(r, IF cause[r] = "signal" THEN "signal" ELSE "unavailable")
    /\ UNCHANGED <<pool, link, committed>>
Rollback(r) ==
    /\ pc[r] = "rollback" /\ link[held[r]] = "up"
    /\ EndTransaction(held[r])
    /\ Release(held[r])
    /\ Answer(r, IF cause[r] = "signal" THEN "signal" ELSE "unavailable")
    /\ UNCHANGED <<link, committed>>

\* The ROLLBACK fails, on a broken connection or on one that still works.
RollbackFails(r) ==
    /\ pc[r] = "rollback"
    /\ Destroy(held[r])
    /\ Answer(r, "unavailable")
    /\ UNCHANGED committed

\* The connection of c to the server breaks: the server rolls back, and the
\* pool drops the connection if nobody uses it.
Break(c) ==
    /\ link[c] = "up" /\ pool[c] # "gone"
    /\ link' = [link EXCEPT ![c] = "down"]
    /\ EndTransaction(c)
    /\ pool' = [pool EXCEPT ![c] = IF @ = "idle" THEN "gone" ELSE @]
    /\ UNCHANGED <<Calls, committed>>

-----------------------------------------------------------------------------
(* Specification *)

Init ==
    /\ pc = [r \in Runs |-> "connect"]
    /\ held = [r \in Runs |-> None]
    /\ cause = [r \in Runs |-> "none"]
    /\ told = [r \in Runs |-> "nothing"]
    /\ pool = [c \in Conns |-> "gone"]
    /\ link = [c \in Conns |-> "down"]
    /\ server = [c \in Conns |-> "none"]
    /\ work = [c \in Conns |-> {}]
    /\ committed = {}

Opening(r) == (\E c \in Conns : Connect(r, c)) \/ ConnectFails(r) \/ Begin(r) \/ BeginFails(r)
Running(r) == StatementFails(r) \/ Returns(r) \/ Throws(r)
Ending(r) == Commit(r) \/ CommitFails(r) \/ Rollback(r) \/ RollbackFails(r)
Finished == \A r \in Runs : pc[r] = "done"

Next ==
    \/ \E r \in Runs : Opening(r) \/ Running(r) \/ Ending(r)
    \/ \E c \in Conns : Break(c)
    \/ Finished /\ UNCHANGED vars

Spec == Init /\ [][Next]_vars

\* A call waits for a connection without a time limit, so it depends on the
\* others going on: every statement is answered or fails, and the caller's
\* function ends.  The attempt to open a connection need not fail, nor any
\* statement.
Proceeds(r) ==
    \/ \E c \in Conns : Connect(r, c)
    \/ Begin(r) \/ BeginFails(r) \/ Returns(r) \/ Ending(r)

FairSpec == Spec /\ \A r \in Runs : WF_vars(Proceeds(r))
-----------------------------------------------------------------------------
(* Properties *)

TypeOK ==
    /\ pc \in [Runs -> {"connect", "begin", "run", "failed", "commit", "rollback", "done"}]
    /\ held \in [Runs -> Conns \cup {None}]
    /\ cause \in [Runs -> {"none", "value", "error", "signal", "fault"}]
    /\ told \in [Runs -> {"nothing", "value", "error", "signal", "unavailable"}]
    /\ pool \in [Conns -> {"idle", "used", "gone"}]
    /\ link \in [Conns -> {"up", "down"}]
    /\ server \in [Conns -> {"none", "open", "failed"}]
    /\ work \in [Conns -> SUBSET Runs]
    /\ committed \subseteq Runs

Holds(r) == pc[r] \in {"begin", "run", "failed", "commit", "rollback"}

\* Every connection that is taken belongs to exactly one call under way, and one
\* that the pool may hand out carries no transaction of an earlier call (the
\* finally block and client.release(true), transactions.ts:64-82).
PoolIsClean ==
    /\ \A r \in Runs : Holds(r) => held[r] # None /\ pool[held[r]] = "used"
    /\ \A r, q \in Runs : Holds(r) /\ Holds(q) /\ held[r] = held[q] => r = q
    /\ \A c \in Conns : pool[c] = "used" => \E r \in Runs : Holds(r) /\ held[r] = c
    /\ \A c \in Conns : pool[c] # "used" => server[c] = "none" /\ work[c] = {}

\* Where a call stands and what the server holds for it agree: until it ends, a
\* call that had no failure has its transaction open on its own connection unless
\* that is broken, no other call's, and what it was told is what became of it.
Agrees(r) ==
    LET c == held[r] IN
    /\ pc[r] = "begin" => server[c] = "none" /\ work[c] = {}
    /\ Holds(r) /\ link[c] = "down" => server[c] = "none" /\ work[c] = {}
    /\ pc[r] = "run" /\ link[c] = "up" => server[c] = "open" /\ work[c] = {r}
    /\ pc[r] = "failed" => server[c] # "open" /\ work[c] \subseteq {r}
    /\ pc[r] = "commit" =>
          /\ cause[r] \in {"value", "error"} /\ work[c] \subseteq {r}
          /\ cause[r] = "value" /\ link[c] = "up" => server[c] = "open" /\ work[c] = {r}
          /\ cause[r] = "error" => server[c] # "open"
    /\ pc[r] = "rollback" => work[c] \subseteq {r} /\ cause[r] \in {"signal", "fault"}
    /\ r \in committed => /\ pc[r] \in {"rollback", "done"}
                          /\ pc[r] = "rollback" => cause[r] = "fault" /\ work[c] = {}
    /\ told[r] = "nothing" <=> pc[r] # "done"
    /\ told[r] = "value" => r \in committed
    /\ told[r] \in {"signal", "error"} => r \notin committed
ServerAgrees == \A r \in Runs : Agrees(r)

\* The inductive invariant: the pool, the server's side and the calls agree.
Coherent == TypeOK /\ PoolIsClean /\ ServerAgrees

\* A COMMIT applies the transaction of the call that sends it and of no other.
CommitsOwnWork ==
    [][\A r \in committed' \ committed : pc[r] = "commit" /\ pc'[r] # "commit"]_vars

\* What became of a call's transaction: open until it has been applied or the
\* server has given it up.
Outcome ==
    [r \in Runs |->
       IF r \in committed THEN "applied"
       ELSE IF pc[r] \in {"connect", "begin"} \/ \E c \in Conns : r \in work[c] /\ server[c] = "open"
       THEN "open" ELSE "discarded"]

\* A caller that is given a value has its writes in the database, and one that
\* is told of a rollback has none (transactions.ts:54-77).
Promise == INSTANCE TransactionOutcome WITH outcome <- Outcome, told <- told
PromiseKept == Promise!Spec

\* The awaits before the answer.
StepsLeft(r) ==
    [done |-> 0, rollback |-> 1, commit |-> 2, failed |-> 3, run |-> 4, begin |-> 5,
     connect |-> 6][pc[r]]

\* Each step of a call brings its answer nearer, whatever fails: beginTransaction
\* never begins again, so whoever waits for a connection waits for at most five
\* steps of the call that holds it.
CallsAdvance ==
    [][\A r \in Runs : pc'[r] = pc[r] \/ StepsLeft(r)' \in 0 .. (StepsLeft(r) - 1)]_vars

\* Every call is answered, however few the connections: none is leaked.
EveryCallIsAnswered == \A r \in Runs : <>(pc[r] = "done")
=============================================================================
