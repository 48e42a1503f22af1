-------------------------- MODULE IdentityDirectory --------------------------
(***************************************************************************)
(* What a table of identities promises whatever the requests that write to  *)
(* it do at the same time: a key (an e-mail address, or a provider's         *)
(* subject) is linked to a new user once, and for good.                      *)
(***************************************************************************)
CONSTANTS Keys, Users, None

VARIABLE link  \* the user a key is linked to, or None

\* The users that have an identity.
Linked == {link[k] : k \in Keys} \ {None}

Init == link = [k \in Keys |-> None]

Link(k, u) ==
    /\ link[k] = None
    /\ u \notin Linked
    /\ link' = [link EXCEPT ![k] = u]

Next == \E k \in Keys, u \in Users : Link(k, u)

Spec == Init /\ [][Next]_link

-----------------------------------------------------------------------------
TypeOK == link \in [Keys -> Users \cup {None}]

\* No user is reached through two keys.
OneKeyPerUser ==
    \A k, j \in Keys : link[k] # None /\ link[k] = link[j] => k = j

Inv == TypeOK /\ OneKeyPerUser
=============================================================================
