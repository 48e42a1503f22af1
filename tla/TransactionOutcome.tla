-------------------------- MODULE TransactionOutcome --------------------------
(***************************************************************************)
(* What beginTransaction promises its callers, with no connections and no   *)
(* pool: a transaction is applied or discarded once and for all, a value is *)
(* returned only for one that was applied, and a rollback signal is passed  *)
(* on only for one that was discarded.  An answer of "unavailable" promises *)
(* nothing but that the matter is settled.                                  *)
(***************************************************************************)
EXTENDS TLAPS

CONSTANT Runs

VARIABLES
    outcome,     \* what became of each transaction
    told         \* what its caller has been told

vars == <<outcome, told>>

Apply(r) ==
    /\ outcome[r] = "open" /\ told[r] = "nothing"
    /\ outcome' = [outcome EXCEPT ![r] = "applied"]

Discard(r) ==
    /\ outcome[r] = "open" /\ told[r] = "nothing"
    /\ outcome' = [outcome EXCEPT ![r] = "discarded"]

Tell(r, answer) ==
    /\ told[r] = "nothing" /\ outcome'[r] # "open"
    /\ answer = "value" => outcome'[r] = "applied"
    /\ answer \in {"signal", "error"} => outcome'[r] = "discarded"
    /\ told' = [told EXCEPT ![r] = answer]

Init == outcome = [r \in Runs |-> "open"] /\ told = [r \in Runs |-> "nothing"]

\* A transaction may be settled and its caller told in one step.
Next ==
    \E r \in Runs :
       /\ Apply(r) \/ Discard(r) \/ UNCHANGED outcome
       /\ UNCHANGED told \/ \E a \in {"value", "error", "signal", "unavailable"} : Tell(r, a)

Spec == Init /\ [][Next]_vars
-----------------------------------------------------------------------------
TypeOK ==
    /\ outcome \in [Runs -> {"open", "applied", "discarded"}]
    /\ told \in [Runs -> {"nothing", "value", "error", "signal", "unavailable"}]

\* A caller that was given a value has its writes in the database, and one
\* that was told of a rollback has none there, now and for ever.
Honest ==
    \A r \in Runs :
       /\ told[r] = "value" => outcome[r] = "applied"
       /\ told[r] \in {"signal", "error"} => outcome[r] = "discarded"

Inv == TypeOK /\ Honest

\* Whatever the interleaving of settling and telling, callers are told the truth.
THEOREM OutcomeInvariant == Spec => []Inv
<1>1. Init => Inv
  BY DEF Init, Inv, TypeOK, Honest
<1>2. Inv /\ [Next]_vars => Inv'
  <2> SUFFICES ASSUME Inv, [Next]_vars PROVE Inv'
    OBVIOUS
  <2> USE DEF Inv, TypeOK, Honest
  <2>1. CASE Next
    <3>1. PICK r \in Runs :
             /\ Apply(r) \/ Discard(r) \/ UNCHANGED outcome
             /\ UNCHANGED told
                \/ \E a \in {"value", "error", "signal", "unavailable"} : Tell(r, a)
      BY <2>1 DEF Next
    <3>2. outcome' \in [Runs -> {"open", "applied", "discarded"}]
      BY <3>1 DEF Apply, Discard
    <3>3. told' \in [Runs -> {"nothing", "value", "error", "signal", "unavailable"}]
      BY <3>1 DEF Tell
    <3>4. ASSUME NEW q \in Runs, q # r
          PROVE outcome'[q] = outcome[q] /\ told'[q] = told[q]
      BY <3>1, <3>4 DEF Apply, Discard, Tell
    <3>5. /\ told'[r] = "value" => outcome'[r] = "applied"
          /\ told'[r] \in {"signal", "error"} => outcome'[r] = "discarded"
      <4>1. CASE UNCHANGED told
        BY <4>1, <3>1 DEF Apply, Discard
      <4>2. CASE \E a \in {"value", "error", "signal", "unavailable"} : Tell(r, a)
        BY <4>2 DEF Tell
      <4> QED BY <3>1, <4>1, <4>2
    <3> QED BY <3>2, <3>3, <3>4, <3>5
  <2>2. CASE UNCHANGED vars
    BY <2>2 DEF vars
  <2> QED BY <2>1, <2>2
<1> QED BY <1>1, <1>2, PTL DEF Spec
=============================================================================
