----------------------------- MODULE MCCredentials -----------------------------
(* Values of the constants for model checking Credentials.                 *)
EXTENDS Credentials, TLC

CONSTANTS q1, q2, q3, q4

FourRequests  == {q1, q2, q3, q4}
RequestSymmetry == Permutations(FourRequests)

=============================================================================
