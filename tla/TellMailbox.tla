----------------------------- MODULE TellMailbox -----------------------------
(***************************************************************************)
(* What the tell relay promises, without its locks, queries and tasks: a   *)
(* mailbox.  Leaving a tell is one step that looks at the caps and puts    *)
(* the tell in; saying it is one step; what is in the box is taken out for *)
(* whatever reason (delivered, withdrawn, expired).  TellRelay implements  *)
(* this specification.                                                     *)
(***************************************************************************)
EXTENDS Integers, FiniteSets

CONSTANTS Channels, Keys, Nicks, Accounts, NoAccount, Tags, PairCap, RecipientCap

VARIABLES
  box,      \* the tells that wait
  left,     \* number of tells ever left
  said,     \* how often each was posted
  repeats   \* how often each may be posted again because the first was lost

mvars == <<box, left, said, repeats>>

Card == [tag: Tags, channel: Channels, key: Keys, nick: Nicks,
         acct: Accounts \cup {NoAccount}]

\* The tells that wait for whoever the new one is for.
SameRecipient(t, u) ==
  /\ u.channel = t.channel
  /\ u.nick = t.nick \/ (u.acct # NoAccount /\ u.acct = t.acct)

Ahead(t) == {u \in box : SameRecipient(t, u)}

Init ==
  /\ box = {}
  /\ left = 0
  /\ said = [t \in Tags |-> 0]
  /\ repeats = [t \in Tags |-> 0]

Leave(t) ==
  /\ t.tag = left + 1
  /\ Cardinality(Ahead(t)) < RecipientCap
  /\ Cardinality({u \in Ahead(t) : u.key = t.key}) < PairCap
  /\ box' = box \cup {t}
  /\ left' = left + 1
  /\ UNCHANGED <<said, repeats>>

Say(tag) ==
  /\ tag <= left
  /\ said[tag] <= repeats[tag]
  /\ said' = [said EXCEPT ![tag] = @ + 1]
  /\ UNCHANGED <<box, left, repeats>>

Lose(tag) ==
  /\ said[tag] > repeats[tag]
  /\ repeats' = [repeats EXCEPT ![tag] = @ + 1]
  /\ UNCHANGED <<box, left, said>>

TakeOut ==
  /\ box' \subseteq box
  /\ UNCHANGED <<left, said, repeats>>

Next ==
  \/ \E t \in Card : Leave(t)
  \/ \E tag \in Tags : Say(tag) \/ Lose(tag)
  \/ TakeOut

Spec == Init /\ [][Next]_mvars
=============================================================================
