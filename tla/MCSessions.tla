---------------------------- MODULE MCSessions ----------------------------
(* Sessions on small sets, for TLC. *)
EXTENDS Sessions, TLC

\* Requests, and ids and tokens not yet told apart by any step, are interchangeable.
Symmetry == Permutations(Requests) \cup Permutations(Tokens) \cup Permutations(Ids)

(* Views: what TLC tells states apart by.  An answered request takes no step but  *)
(* to be forgotten, and no step reads a history, so what the properties of a run   *)
(* do not look at can be left out.                                                *)

SharedState == <<now, store, issued, retired, delivered>>

Known(r) == <<pc[r], op[r], cred[r], snap[r], at[r], fresh[r], want[r], pend[r]>>

\* No property looks into a request that was not answered success.
RaceView ==
    <<SharedState, [r \in Requests |->
        IF pc[r] = "replied" /\ reply[r].kind # "success"
        THEN <<"refused">>
        ELSE <<Known(r), reply[r], arrival[r], since[r]>>]>>

\* LogoutTakesEffect looks into the logouts answered success, and remembers the
\* table at the arrival of the logoutAlls.
LogoutView ==
    <<SharedState, [r \in Requests |->
        IF pc[r] = "replied" /\ ~Succeeded(r, "logout") /\ ~Succeeded(r, "logoutAll")
        THEN <<"answered", reply[r].token>>
        ELSE <<Known(r), reply[r], IF op[r] = "logoutAll" THEN arrival[r] ELSE NoWrites>>]>>
=============================================================================
