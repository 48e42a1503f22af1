--------------------------- MODULE SessionRegistry ---------------------------
(***************************************************************************)
(* What the session component promises, with no requests, no clock and no   *)
(* transactions: a session is opened once, its token is only ever replaced  *)
(* by one never used before, its owner and absolute expiry never change,    *)
(* and a revocation touches the sessions of one user and is final.          *)
(***************************************************************************)
EXTENDS Naturals, TLAPS

CONSTANTS Ids, Users, Tokens, None

VARIABLES
    table,      \* the sessions
    retired     \* tokens that were a session's current one and no longer are

vars == <<table, retired>>

Session == [user: Users, token: Tokens, expires: Nat, revoked: BOOLEAN]

IsOpen(s) == table[s] # None
Unused(t) ==
    /\ t \in Tokens \ retired
    /\ \A s \in Ids : IsOpen(s) => table[s].token # t

Open(s) ==
    /\ ~IsOpen(s)
    /\ table'[s] \in Session
    /\ ~table'[s].revoked /\ Unused(table'[s].token)
    /\ table' = [table EXCEPT ![s] = table'[s]]
    /\ UNCHANGED retired

Rotate(s, t) ==
    /\ IsOpen(s) /\ Unused(t)
    /\ table' = [table EXCEPT ![s] = [@ EXCEPT !.token = t]]
    /\ retired' = retired \cup {table[s].token}

Revoke(S, u) ==
    /\ \A s \in S : IsOpen(s) /\ table[s].user = u
    /\ table' = [s \in Ids |-> IF s \in S THEN [table[s] EXCEPT !.revoked = TRUE]
                                          ELSE table[s]]
    /\ UNCHANGED retired

Init == table = [s \in Ids |-> None] /\ retired = {}

Next ==
    \/ \E s \in Ids : Open(s) \/ \E t \in Tokens : Rotate(s, t)
    \/ \E S \in SUBSET Ids, u \in Users : Revoke(S, u)

Spec == Init /\ [][Next]_vars
-----------------------------------------------------------------------------
TypeOK == table \in [Ids -> Session \cup {None}] /\ retired \subseteq Tokens

\* A token is the current one of at most one session, and one that was
\* replaced never becomes current again, for that session or another.
TokensAreUnambiguous ==
    \A s \in Ids : IsOpen(s) =>
       /\ table[s].token \notin retired
       /\ \A q \in Ids : IsOpen(q) /\ table[q].token = table[s].token => q = s

\* The registry step relation keeps a revoked session revoked.
RevokedStays ==
    \A s \in Ids : IsOpen(s) /\ table[s].revoked => IsOpen(s)' /\ table'[s].revoked

Inv == TypeOK /\ TokensAreUnambiguous

\* The registry's rows keep their type and its tokens stay unambiguous,
\* whatever sessions are opened, rotated and revoked.
THEOREM RegistryInvariant == Spec => []Inv
<1>1. Init => Inv
  BY DEF Init, Inv, TypeOK, TokensAreUnambiguous, IsOpen
<1>2. Inv /\ [Next]_vars => Inv'
  <2> SUFFICES ASSUME Inv, [Next]_vars PROVE Inv'
    OBVIOUS
  <2> USE DEF Inv, TypeOK, TokensAreUnambiguous, IsOpen, Session
  <2>1. ASSUME NEW s \in Ids, Open(s) PROVE Inv'
    BY <2>1 DEF Open, Unused
  <2>2. ASSUME NEW s \in Ids, NEW t \in Tokens, Rotate(s, t) PROVE Inv'
    BY <2>2 DEF Rotate, Unused
  <2>3. ASSUME NEW S \in SUBSET Ids, NEW u \in Users, Revoke(S, u) PROVE Inv'
    <3>1. \A s \in Ids : IsOpen(s)' => IsOpen(s) /\ table'[s].token = table[s].token
      BY <2>3 DEF Revoke
    <3>2. TypeOK'
      BY <2>3 DEF Revoke
    <3>3. TokensAreUnambiguous'
      BY <2>3, <3>1 DEF Revoke
    <3> QED BY <3>2, <3>3
  <2>4. CASE UNCHANGED vars
    BY <2>4 DEF vars
  <2> QED BY <2>1, <2>2, <2>3, <2>4 DEF Next
<1> QED BY <1>1, <1>2, PTL DEF Spec
=============================================================================
