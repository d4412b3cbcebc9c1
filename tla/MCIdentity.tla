----------------------------- MODULE MCIdentity -----------------------------
(***************************************************************************)
(* A small instance of Identity: an operator, a stranger without an        *)
(* account, and two nicks that they may pass on to each other.             *)
(***************************************************************************)
EXTENDS Identity, TLC

CONSTANTS alice, bob, opAcct

Passwords == (alice :> {opAcct}) @@ (bob :> {})
Symmetry == Permutations(Nicks) \cup Permutations(Calls)
=============================================================================
