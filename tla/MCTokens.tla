------------------------------ MODULE MCTokens ------------------------------
(***************************************************************************)
(* Two requests at once, two sign-ins and two refresh calls.               *)
(***************************************************************************)
EXTENDS Tokens

CONSTANTS q1, q2
=============================================================================
