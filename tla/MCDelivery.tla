------------------------------ MODULE MCDelivery ------------------------------
(* Policies as deployments write them, at the edges of what nothing validates. *)
EXTENDS Delivery

MCPolicy(c, r, t, s) ==
    [channel |-> c, maxRetries |-> r, timeoutMs |-> t, sinkThrows |-> s, backoffMs |-> <<1, 3>>]

MCPolicies ==
    {MCPolicy(c, r, t, s) : c \in {"http", "smtp"}, r \in {-1, 0, 3}, t \in {0, 1}, s \in BOOLEAN}
    \cup {[MCPolicy("smtp", 2, 1, FALSE) EXCEPT !.backoffMs = <<>>]}
MCSmtpReplies ==
    {[code |-> "EAUTH", response |-> 535], [code |-> "EENVELOPE", response |-> 550],
     [code |-> "EMESSAGE", response |-> 421]}
HttpPolicies == {MCPolicy("http", 1, 1, FALSE)}
=============================================================================
