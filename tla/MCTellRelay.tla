----------------------------- MODULE MCTellRelay -----------------------------
(***************************************************************************)
(* Small instances of TellRelay.  dave and dave_ are two nicks of the      *)
(* person with account acc; each is seen with and without the account      *)
(* (identified or not, in the cache or not).                               *)
(***************************************************************************)
EXTENDS TellRelay, TLC

CONSTANTS alice, bob, dave, dave_, acc, op

\* dave identified, dave not identified, dave_ identified.
Dave3 == {[nick |-> dave, acct |-> acc], [nick |-> dave, acct |-> NoAccount],
          [nick |-> dave_, acct |-> acc]}

\* Two authors without accounts; an author and an operator.
AliceOrBob == {[nick |-> alice, acct |-> NoAccount], [nick |-> bob, acct |-> NoAccount]}
AliceOrOp  == {[nick |-> alice, acct |-> NoAccount], [nick |-> bob, acct |-> op]}
OnlyAlice  == {[nick |-> alice, acct |-> NoAccount]}
OnlyDave   == {[nick |-> dave, acct |-> NoAccount]}

Symmetry == Permutations(Creators) \cup Permutations(Couriers)
=============================================================================
