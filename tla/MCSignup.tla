------------------------------ MODULE MCSignup ------------------------------
(* Instances of Signup for TLC.                                            *)
EXTENDS Signup, TLC

MCSymmetry == Permutations(Emails) \cup Permutations(Passwords) \cup Permutations(Calls)
=============================================================================
