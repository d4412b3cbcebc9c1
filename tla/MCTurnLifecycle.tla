--------------------------- MODULE MCTurnLifecycle ---------------------------
(***************************************************************************)
(* Small instances of TurnLifecycle.  alice is identified and issues the   *)
(* first task, bob is not and issues the others; either may try to cancel. *)
(***************************************************************************)
EXTENDS TurnLifecycle

CONSTANTS t1, t2, alice, bob, acc

Alice == [nick |-> alice, acct |-> acc]
Bob   == [nick |-> bob, acct |-> NoAccount]
People == {Alice, Bob}
Issuers == [t \in Tasks |-> IF t = t1 THEN Alice ELSE Bob]
=============================================================================
