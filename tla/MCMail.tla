------------------------------- MODULE MCMail -------------------------------
(* A small instance of Mail: any order of two writes and a read. *)
EXTENDS Mail, TLC

CONSTANTS w1, w2, r1

Symmetry == Permutations(Writers)
=============================================================================
