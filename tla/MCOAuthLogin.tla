--------------------------- MODULE MCOAuthLogin ---------------------------
(* A small instance of OAuthLogin: the mock user is one of its users, so only
   logins and callbacks are interchangeable. *)
EXTENDS OAuthLogin, TLC

CONSTANTS bob, eve, l1, l2, c1, c2, s1, s2

Symmetry == Permutations(Logins) \cup Permutations(Callbacks)
             \cup Permutations(Seeds)
=============================================================================
