------------------------------- MODULE MCAuth -------------------------------
(* Small instances of Auth.                                                *)
EXTENDS Auth, TLC

MCSymmetry == Permutations(Tokens) \union Permutations(Requests) \union Permutations(Users)
=============================================================================
