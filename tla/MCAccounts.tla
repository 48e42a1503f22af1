----------------------------- MODULE MCAccounts -----------------------------
(* Model checking the e-mail and password component on small instances. *)
EXTENDS Accounts, TLC

\* Everything that writes a token, an identity or an address (a sign-in waits for
\* nothing and writes only a session), and what password reset is about.
TokenActions == PluginActions \ {"signInWithPassword"}
ResetActions == {"signUpWithPassword", "signInWithPassword",
                 "requestPasswordReset", "resetPassword"}

\* Requests, passwords, tokens, ids and addresses are interchangeable.
Symmetry == Permutations(Requests) \cup Permutations(Passwords)
            \cup Permutations(Tokens) \cup Permutations(Users)
            \cup Permutations(Sessions) \cup Permutations(Emails)

\* A state without what no later step reads: what an answered request carried, the
\* identity read for a mail, the clock but for the rows it is compared with or
\* written to, and the histories of the actions no property follows.
Needed(value, kept) ==
    [r \in Requests |-> IF pc[r] # "replied" /\ r \in kept THEN value[r] ELSE None]
Consuming == {r \in Requests : Op(r) \in Consumers}
TablesView ==
    <<now, Directories, verified, tokens, drawn, mailed, pc, tx,
      Needed(req, Requests),
      Needed(row, {r \in Requests : Op(r) = "signInWithPassword"}),
      Needed(at, Consuming \cup {r \in Requests : pc[r] = "create"}),
      Needed(arrival, {r \in Requests : Op(r) = "resetPassword"})>>
=============================================================================
