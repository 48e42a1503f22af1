----------------------------- MODULE MCOAuth -----------------------------
(* OAuth on small sets, for TLC: two callbacks over two states, and keys that *)
(* differ in their provider.  No symmetry, since liveness is checked as well. *)
EXTENDS OAuth
=============================================================================
