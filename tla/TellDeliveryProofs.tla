------------------------- MODULE TellDeliveryProofs -------------------------
(***************************************************************************)
(* Proofs about the delivery side of TellRelay, for every number of calls, *)
(* of tells and of failures: a tell is posted once and once more for each  *)
(* loss, what the table calls delivered was posted, tells come out oldest  *)
(* first, only their owners and operators withdraw them; and, with the     *)
(* caps, the relay implements the mailbox of TellMailbox.                  *)
(***************************************************************************)
EXTENDS TellRelayProofs

-----------------------------------------------------------------------------
(* The inductive invariant.                                                *)

\* The rows are numbered as they are born and no number is given twice; an id
\* in use was issued.
Numbered ==
  /\ \A i \in Ids : tells[i] # NoRow => tells[i].tag <= births /\ issued[i] > 0
  /\ \A i, j \in Ids :
       tells[i] # NoRow /\ tells[j] # NoRow /\ tells[i].tag = tells[j].tag => i = j

\* What a call holds in its hands: the tell of a parcel is the one it was read
\* from, which may be gone, or its id given away; each parcel is another tell;
\* the one at the mark was posted.
Batches ==
  \A d \in Couriers :
    /\ courier[d].batch # {} => courier[d].pc \in {"post", "mark"}
    /\ \A p \in courier[d].batch :
         /\ p.tag <= births /\ issued[p.id] > 0
         /\ \A i \in Ids : tells[i] # NoRow /\ tells[i].tag = p.tag => i = p.id
         /\ tells[p.id] # NoRow /\ issued[p.id] = 1 => tells[p.id].tag = p.tag
         /\ \A q \in courier[d].batch : p.tag = q.tag => p = q
         /\ courier[d].pc = "mark" /\ IsCurrent(d, p) => posts[p.tag] > 0

\* A tell that may still be posted: not born, waiting, or in a batch, and not
\* the one that is being marked.
Owed(t) ==
  /\ ~Unmarked(t)
  /\ \/ t > births
     \/ \E i \in Ids : tells[i] # NoRow /\ ~tells[i].delivered /\ tells[i].tag = t
     \/ \E d \in Couriers : \E p \in courier[d].batch : p.tag = t

\* Each earlier post of such a tell was a loss.
Balanced == \A t \in Tags : Owed(t) => posts[t] <= lost[t]

\* Every older tell for the same person is in the batch or was posted before.
InOrder ==
  \A d \in Couriers : courier[d].pc \in {"post", "mark"} =>
    \A i \in PendingFor(tells, courier[d].channel, courier[d].who), p \in courier[d].batch :
      tells[i].tag < p.tag =>
        posts[tells[i].tag] > 0 \/ \E q \in courier[d].batch : q.tag = tells[i].tag

Sound == Numbered /\ Batches /\ Balanced /\ OncePerLoss /\ SettledWasPosted /\ InOrder

MailInv == TypeOK /\ Exclusive /\ Sound

\* The types the steps below use.
LEMMA MailTypes ==
  ASSUME MailInv
  PROVE  /\ posts \in [Tags -> Nat] /\ lost \in [Tags -> Nat] /\ births \in Nat
         /\ courier \in [Couriers -> DeliverCall]
         /\ tells \in [Ids -> Row \cup {NoRow}] /\ issued \in [Ids -> Nat]
         /\ \A i \in Ids : tells[i] # NoRow => tells[i].tag \in Tags
         /\ \A d \in Couriers : \A p \in courier[d].batch : p.id \in Ids /\ p.tag \in Tags
         /\ \A t \in Tags : t \in Nat
<1>1. \A d \in Couriers : courier[d].batch \subseteq Parcel
  BY DEF MailInv, TypeOK, DeliverCall
<1> QED
  BY <1>1, LimitsAssumption DEF MailInv, TypeOK, Parcel, Row, Tags

-----------------------------------------------------------------------------
(* What each kind of step does.                                            *)

\* Rows may go, and none changes what it says.
RowsKept ==
  \A i \in Ids : tells'[i] # NoRow =>
    /\ tells[i] # NoRow
    /\ tells'[i].tag = tells[i].tag /\ tells'[i].channel = tells[i].channel
    /\ tells'[i].key = tells[i].key
    /\ tells'[i].nick = tells[i].nick /\ tells'[i].acct = tells[i].acct

\* A step that leaves the couriers alone and brings no tell.
LEMMA TableShrinks ==
  ASSUME MailInv, UNCHANGED <<courier, posts, lost, births, issued>>, RowsKept,
         \A i \in Ids : tells'[i] # NoRow =>
           /\ tells'[i].delivered = tells[i].delivered
           /\ Pending(tells'[i]) => Pending(tells[i])
  PROVE  Sound'
<1>1. Numbered'
  BY DEF MailInv, Sound, Numbered, RowsKept
<1>2. Batches'
  BY MailTypes DEF MailInv, Sound, Batches, RowsKept, IsCurrent
<1>3. \A t \in Tags : Owed(t)' => Owed(t)
  BY DEF Owed, RowsKept, Unmarked, IsCurrent
<1>4. Balanced' /\ OncePerLoss'
  BY <1>3 DEF MailInv, Sound, Balanced, OncePerLoss
<1>5. SettledWasPosted'
  BY DEF MailInv, Sound, SettledWasPosted, RowsKept
<1>6. \A ch, who : PendingFor(tells', ch, who) \subseteq PendingFor(tells, ch, who)
  BY DEF PendingFor, Pending, MatchesRecipient, RowsKept
<1>7. InOrder'
  <2> SUFFICES ASSUME NEW d \in Couriers, courier[d].pc \in {"post", "mark"},
                      NEW i \in PendingFor(tells', courier[d].channel, courier[d].who),
                      NEW p \in courier[d].batch, tells'[i].tag < p.tag
               PROVE  \/ posts[tells'[i].tag] > 0
                      \/ \E q \in courier[d].batch : q.tag = tells'[i].tag
    BY DEF InOrder
  <2>1. i \in PendingFor(tells, courier[d].channel, courier[d].who) /\ tells'[i].tag = tells[i].tag
    BY <1>6 DEF PendingFor, Pending, RowsKept
  <2> QED
    BY <2>1 DEF MailInv, Sound, InOrder
<1> QED
  BY <1>1, <1>2, <1>4, <1>5, <1>7 DEF Sound

\* A new tell is born under the next number, in a free slot.
LEMMA TellBorn ==
  ASSUME MailInv, NEW c \in Creators, Insert(c)
  PROVE  Sound'
<1>0. births' = births + 1 /\ UNCHANGED <<courier, posts, lost>>
  BY DEF Insert, history
<1>1. PICK i \in Ids : /\ IsNextId(tells, i)
                       /\ tells' = [tells EXCEPT ![i] = NewRow(creator[c])]
                       /\ issued' = [issued EXCEPT ![i] = @ + 1]
  BY DEF Insert
<1>2. tells[i] = NoRow
  <2>1. ~(i < i)
    BY DEF Ids
  <2> QED
    BY <1>1, <2>1 DEF IsNextId
<1>3. /\ tells'[i].tag = births + 1 /\ ~tells'[i].delivered
      /\ \A j \in Ids : j # i => tells'[j] = tells[j] /\ issued'[j] = issued[j]
      /\ issued'[i] = issued[i] + 1
  BY <1>1, MailTypes DEF NewRow
<1>4. Numbered'
  BY <1>0, <1>3, MailTypes DEF MailInv, Sound, Numbered
<1>5. Batches'
  <2> SUFFICES ASSUME NEW d \in Couriers, NEW p \in courier[d].batch
               PROVE  /\ p.tag <= births' /\ issued'[p.id] > 0
                      /\ \A j \in Ids : tells'[j] # NoRow /\ tells'[j].tag = p.tag => j = p.id
                      /\ tells'[p.id] # NoRow /\ issued'[p.id] = 1 => tells'[p.id].tag = p.tag
    BY <1>0 DEF MailInv, Sound, Batches, IsCurrent
  <2>1. /\ p.tag <= births /\ issued[p.id] > 0 /\ p.id \in Ids /\ p.tag \in Nat
        /\ issued[p.id] \in Nat
    BY MailTypes DEF MailInv, Sound, Batches
  <2>2. p.tag <= births' /\ issued'[p.id] > 0 /\ (p.id = i => issued'[p.id] # 1)
    BY <1>0, <1>3, <2>1, MailTypes
  <2>3. tells'[i].tag # p.tag
    BY <1>3, <2>1, MailTypes
  <2> QED
    BY <1>3, <2>1, <2>2, <2>3 DEF MailInv, Sound, Batches
<1>6. \A t \in Tags : Owed(t)' => Owed(t)
  <2> SUFFICES ASSUME NEW t \in Tags, Owed(t)' PROVE Owed(t)
    OBVIOUS
  <2>1. ~Unmarked(t)
    BY <1>0 DEF Owed, Unmarked, IsCurrent
  <2>2. CASE t > births'
    BY <1>0, <2>1, <2>2, MailTypes DEF Owed
  <2>3. ASSUME NEW j \in Ids, tells'[j] # NoRow, ~tells'[j].delivered, tells'[j].tag = t
        PROVE  Owed(t)
    BY <1>3, <2>1, <2>3, MailTypes DEF Owed
  <2>4. CASE \E d \in Couriers : \E p \in courier'[d].batch : p.tag = t
    BY <1>0, <2>1, <2>4 DEF Owed
  <2> QED
    BY <2>2, <2>3, <2>4 DEF Owed
<1>7. Balanced' /\ OncePerLoss'
  BY <1>0, <1>6 DEF MailInv, Sound, Balanced, OncePerLoss
<1>8. SettledWasPosted'
  BY <1>0, <1>3 DEF MailInv, Sound, SettledWasPosted
<1>9. InOrder'
  <2> SUFFICES ASSUME NEW d \in Couriers, courier[d].pc \in {"post", "mark"},
                      NEW j \in PendingFor(tells', courier[d].channel, courier[d].who),
                      NEW p \in courier[d].batch, tells'[j].tag < p.tag
               PROVE  \/ posts[tells'[j].tag] > 0
                      \/ \E q \in courier[d].batch : q.tag = tells'[j].tag
    BY <1>0 DEF InOrder
  <2>1. p.tag <= births /\ p.tag \in Nat
    BY MailTypes DEF MailInv, Sound, Batches
  <2>2. j # i
    BY <1>3, <2>1, MailTypes
  <2>3. j \in PendingFor(tells, courier[d].channel, courier[d].who) /\ tells'[j] = tells[j]
    BY <1>3, <2>2 DEF PendingFor
  <2> QED
    BY <2>3 DEF MailInv, Sound, InOrder
<1> QED
  BY <1>4, <1>5, <1>7, <1>8, <1>9 DEF Sound

\* A call of deliver() that is not at a mark and goes on with empty hands.
LEMMA HandsEmptied ==
  ASSUME MailInv, NEW d \in Couriers, courier[d].pc # "mark",
         UNCHANGED <<tells, births, issued, posts, lost>>,
         courier'[d].batch = {},
         \A e \in Couriers : e # d => courier'[e] = courier[e]
  PROVE  Sound'
<1>1. Numbered' /\ OncePerLoss' /\ SettledWasPosted'
  BY DEF MailInv, Sound, Numbered, OncePerLoss, SettledWasPosted
<1>2. Batches'
  BY DEF MailInv, Sound, Batches, IsCurrent
<1>3. \A t \in Tags : Owed(t)' => Owed(t)
  BY DEF Owed, Unmarked, IsCurrent
<1>4. Balanced'
  BY <1>3 DEF MailInv, Sound, Balanced
<1>5. InOrder'
  BY DEF MailInv, Sound, InOrder
<1> QED
  BY <1>1, <1>2, <1>4, <1>5 DEF Sound

\* The read: the batch is the oldest of what waits for this person.
LEMMA BatchRead ==
  ASSUME MailInv, NEW d \in Couriers, ReadPending(d), courier'[d].batch # {}
  PROVE  Sound'
<1> DEFINE ids == PendingFor(tells, courier[d].channel, courier[d].who)
<1>1. UNCHANGED <<tells, births, issued, posts, lost>>
  BY DEF ReadPending, store, history
<1>2. courier' = [courier EXCEPT ![d].pc = "post",
                                 ![d].batch = {ParcelOf(i) : i \in Oldest(ids)}]
  BY MailTypes DEF ReadPending, LeaveDeliver, IdleCourier
<1>3. /\ courier'[d].pc = "post" /\ courier'[d].batch = {ParcelOf(i) : i \in Oldest(ids)}
      /\ courier'[d].channel = courier[d].channel /\ courier'[d].who = courier[d].who
      /\ \A e \in Couriers : e # d => courier'[e] = courier[e]
  <2>1. courier[d] \in DeliverCall
    BY MailTypes
  <2> QED
    BY <1>2, <2>1, MailTypes DEF DeliverCall
<1>4. \A i \in Oldest(ids) : /\ i \in Ids /\ i \in ids /\ tells[i] # NoRow /\ ~tells[i].delivered
                             /\ ParcelOf(i).id = i /\ ParcelOf(i).tag = tells[i].tag
  BY DEF Oldest, PendingFor, Pending, ParcelOf
<1> HIDE DEF ids
<1>5. Numbered' /\ OncePerLoss' /\ SettledWasPosted'
  BY <1>1 DEF MailInv, Sound, Numbered, OncePerLoss, SettledWasPosted
<1>6. Batches'
  <2>1. ASSUME NEW e \in Couriers, e # d, NEW p \in courier'[e].batch
        PROVE  IsCurrent(e, p)' <=> IsCurrent(e, p)
    BY <1>3, <2>1 DEF IsCurrent
  <2>2. ASSUME NEW i \in Oldest(ids)
        PROVE  LET p == ParcelOf(i) IN
               /\ p.tag <= births /\ issued[p.id] > 0
               /\ \A j \in Ids : tells[j] # NoRow /\ tells[j].tag = p.tag => j = p.id
               /\ tells[p.id] # NoRow /\ issued[p.id] = 1 => tells[p.id].tag = p.tag
               /\ \A j \in Oldest(ids) : p.tag = ParcelOf(j).tag => p = ParcelOf(j)
    BY <1>4, <2>2 DEF MailInv, Sound, Numbered
  <2> QED
    BY <1>1, <1>3, <2>1, <2>2 DEF MailInv, Sound, Batches
<1>7. \A t \in Tags : Owed(t)' => Owed(t)
  <2> SUFFICES ASSUME NEW t \in Tags, Owed(t)' PROVE Owed(t)
    OBVIOUS
  <2>0. courier[d].pc = "read"
    BY DEF ReadPending
  <2>1. ~Unmarked(t)
    BY <1>3, <2>0 DEF Owed, Unmarked, IsCurrent
  <2>2. CASE \E p \in courier'[d].batch : p.tag = t
    BY <1>3, <1>4, <2>1, <2>2 DEF Owed
  <2>3. CASE ~(\E p \in courier'[d].batch : p.tag = t)
    BY <1>1, <1>3, <2>1, <2>3 DEF Owed
  <2> QED
    BY <2>2, <2>3
<1>8. Balanced'
  BY <1>1, <1>7 DEF MailInv, Sound, Balanced
<1>9. ASSUME NEW i \in ids, NEW j \in Oldest(ids), tells[i].tag < tells[j].tag
      PROVE  i \in Oldest(ids)
  <2> DEFINE S == {k \in ids : tells[k].tag < tells[j].tag}
             T == {k \in ids : tells[k].tag < tells[i].tag}
  <2>1. ids \subseteq Ids /\ \A k \in ids : tells[k].tag \in Nat
    BY MailTypes DEF ids, PendingFor, Pending
  <2>2. T \subseteq S /\ S \subseteq Ids
    BY <1>4, <1>9, <2>1
  <2>3. Cardinality(T) <= Cardinality(S) /\ Cardinality(T) \in Nat /\ Cardinality(S) \in Nat
    BY <2>2, CountShrinks
  <2>4. Cardinality(S) < DeliverMax
    BY DEF Oldest
  <2> QED
    BY <2>3, <2>4, LimitsAssumption DEF Oldest
<1>10. InOrder'
  <2>1. ASSUME NEW i \in ids, NEW p \in courier'[d].batch, tells[i].tag < p.tag
        PROVE  \E q \in courier'[d].batch : q.tag = tells[i].tag
    <3>1. PICK j \in Oldest(ids) : p = ParcelOf(j)
      BY <1>3
    <3>2. i \in Oldest(ids)
      BY <1>4, <1>9, <2>1, <3>1
    <3> QED
      BY <1>3, <1>4, <3>2
  <2>2. \A e \in Couriers : e # d => courier'[e] = courier[e]
    BY <1>3
  <2> QED
    BY <1>1, <1>3, <2>1, <2>2 DEF MailInv, Sound, InOrder, ids
<1> QED
  BY <1>5, <1>6, <1>8, <1>10 DEF Sound

\* The post: the tell at hand leaves the owed ones for as long as it is at the
\* mark, and whatever is older was said before.
LEMMA ParcelPosted ==
  ASSUME MailInv, NEW d \in Couriers, NEW p \in courier[d].batch, NEW n \in 1..MaxLines,
         Post(d, p, n)
  PROVE  Sound'
<1>1. /\ courier[d].pc = "post" /\ IsCurrent(d, p)
      /\ UNCHANGED <<tells, births, issued, lost>>
      /\ posts' = [posts EXCEPT ![p.tag] = @ + 1]
  BY DEF Post, store
<1>2. /\ courier'[d].pc = "mark" /\ courier'[d].batch = courier[d].batch
      /\ courier'[d].channel = courier[d].channel /\ courier'[d].who = courier[d].who
      /\ \A e \in Couriers : e # d => courier'[e] = courier[e]
  BY MailTypes DEF Post, DeliverCall
<1>3. \A e \in Couriers : courier[e].pc # "mark"
  BY <1>1, NoneAssumption DEF MailInv, Exclusive, InDeliver
<1>4. /\ p.tag \in Tags /\ posts'[p.tag] = posts[p.tag] + 1
      /\ \A t \in Tags : t # p.tag => posts'[t] = posts[t]
      /\ \A t \in Tags : posts[t] > 0 => posts'[t] > 0
  BY <1>1, MailTypes
<1>5. Owed(p.tag)
  BY <1>3 DEF Owed, Unmarked
<1>6. Numbered'
  BY <1>1 DEF MailInv, Sound, Numbered
<1>7. \A e \in Couriers : \A q \in courier[e].batch : IsCurrent(e, q)' <=> IsCurrent(e, q)
  BY <1>2 DEF IsCurrent
<1>8. \A q \in courier[d].batch : IsCurrent(d, q) => q.tag = p.tag
  BY <1>1, MailTypes DEF IsCurrent
<1>9. Batches'
  <2>1. \A e \in Couriers : courier'[e].batch = courier[e].batch
    BY <1>2
  <2>2. \A q \in courier[d].batch : IsCurrent(d, q) => posts'[q.tag] > 0
    BY <1>4, <1>8, MailTypes
  <2> QED
    BY <1>1, <1>2, <1>3, <1>7, <2>1, <2>2 DEF MailInv, Sound, Batches
<1>10. \A t \in Tags : Owed(t)' => Owed(t) /\ t # p.tag
  <2>1. Unmarked(p.tag)'
    BY <1>1, <1>2, <1>7 DEF Unmarked
  <2>2. \A e \in Couriers : courier'[e].batch = courier[e].batch
    BY <1>2
  <2>3. \A t \in Tags : ~Unmarked(t)
    BY <1>3 DEF Unmarked
  <2> QED
    BY <1>1, <2>1, <2>2, <2>3 DEF Owed
<1>11. Balanced'
  BY <1>1, <1>4, <1>10 DEF MailInv, Sound, Balanced
<1>12. OncePerLoss'
  BY <1>1, <1>4, <1>5, MailTypes DEF MailInv, Sound, Balanced, OncePerLoss
<1>13. SettledWasPosted'
  BY <1>1, <1>4, MailTypes DEF MailInv, Sound, SettledWasPosted
<1>14. InOrder'
  <2>1. \A e \in Couriers :
          /\ courier'[e].batch = courier[e].batch /\ courier'[e].channel = courier[e].channel
          /\ courier'[e].who = courier[e].who
          /\ courier'[e].pc \in {"post", "mark"} => courier[e].pc \in {"post", "mark"}
    BY <1>1, <1>2
  <2>2. \A i \in Ids : Pending(tells[i]) => tells[i].tag \in Tags
    BY MailTypes DEF Pending
  <2> QED
    BY <1>1, <1>4, <2>1, <2>2 DEF MailInv, Sound, InOrder, PendingFor
<1> QED
  BY <1>6, <1>9, <1>11, <1>12, <1>13, <1>14 DEF Sound

\* The end of a mark: the tell is out of the batch, and either its row no
\* longer waits or its loss is on record.
LEMMA ParcelDone ==
  ASSUME MailInv, NEW d \in Couriers, NEW p \in courier[d].batch,
         courier[d].pc = "mark", IsCurrent(d, p), NextParcel(d, p),
         UNCHANGED <<births, issued, posts>>, RowsKept,
         \A i \in Ids : tells'[i] # NoRow =>
           /\ tells'[i] = tells[i] \/ (i = p.id /\ tells'[i].delivered)
           /\ Pending(tells'[i]) => Pending(tells[i]),
         \A t \in Tags : t # p.tag => lost'[t] = lost[t],
         \/ lost'[p.tag] = lost[p.tag] + 1
         \/ lost' = lost /\ (tells'[p.id] # NoRow => tells'[p.id].delivered)
  PROVE  Sound'
<1>1. /\ courier'[d].batch = courier[d].batch \ {p}
      /\ courier'[d].batch # {} => courier'[d].pc = "post"
      /\ courier'[d].pc # "mark"
      /\ courier'[d].channel = courier[d].channel /\ courier'[d].who = courier[d].who
      /\ \A e \in Couriers : e # d => courier'[e] = courier[e]
  <2>1. courier[d] \in DeliverCall
    BY MailTypes
  <2> QED
    BY <2>1, MailTypes DEF NextParcel, DeliverCall
<1>2. \A e \in Couriers : e # d => courier[e].pc # "mark" /\ courier[e].batch = {}
  BY NoneAssumption DEF MailInv, Sound, Batches, Exclusive, InDeliver
<1>3. /\ p.tag \in Tags /\ p.id \in Ids /\ posts[p.tag] > 0 /\ p.tag <= births
      /\ \A q \in courier[d].batch : q.tag = p.tag => q = p
      /\ \A i \in Ids : tells[i] # NoRow /\ tells[i].tag = p.tag => i = p.id
  BY MailTypes DEF MailInv, Sound, Batches
<1>4. Numbered'
  BY DEF MailInv, Sound, Numbered, RowsKept
<1>5. Batches'
  <2>1. ASSUME NEW q \in courier'[d].batch
        PROVE  /\ q.tag <= births /\ issued[q.id] > 0
               /\ \A i \in Ids : tells'[i] # NoRow /\ tells'[i].tag = q.tag => i = q.id
               /\ tells'[q.id] # NoRow /\ issued[q.id] = 1 => tells'[q.id].tag = q.tag
               /\ \A r \in courier'[d].batch : q.tag = r.tag => q = r
    BY <1>1, <2>1, MailTypes DEF MailInv, Sound, Batches, RowsKept
  <2> QED
    BY <1>1, <1>2, <2>1 DEF Batches
<1>6. \A t \in Tags : lost[t] <= lost'[t] /\ lost'[t] \in Nat
  BY <1>3, MailTypes
<1>7. OncePerLoss'
  BY <1>6, MailTypes DEF MailInv, Sound, OncePerLoss
<1>8. ASSUME NEW t \in Tags, Owed(t)' PROVE posts[t] <= lost'[t]
  <2>1. CASE t = p.tag /\ lost'[p.tag] = lost[p.tag] + 1
    BY <2>1, MailTypes DEF MailInv, Sound, OncePerLoss
  <2>2. CASE t = p.tag /\ (tells'[p.id] # NoRow => tells'[p.id].delivered)
    <3>1. ~(t > births)
      BY <1>3, <2>2, MailTypes
    <3>2. ~\E i \in Ids : tells'[i] # NoRow /\ ~tells'[i].delivered /\ tells'[i].tag = t
      BY <1>3, <2>2 DEF RowsKept
    <3>3. ~\E e \in Couriers : \E q \in courier'[e].batch : q.tag = t
      BY <1>1, <1>2, <1>3, <2>2
    <3> QED
      BY <1>8, <3>1, <3>2, <3>3 DEF Owed
  <2>3. CASE t # p.tag
    <3>1. ~Unmarked(t)
      BY <1>2, <2>3, MailTypes DEF Unmarked, IsCurrent
    <3>2. Owed(t)
      <4>1. \A i \in Ids : tells'[i] # NoRow /\ ~tells'[i].delivered =>
              tells[i] # NoRow /\ ~tells[i].delivered /\ tells'[i].tag = tells[i].tag
        BY DEF RowsKept
      <4>2. \A e \in Couriers : courier'[e].batch \subseteq courier[e].batch
        BY <1>1
      <4> QED
        BY <1>8, <3>1, <4>1, <4>2 DEF Owed
    <3> QED
      BY <2>3, <3>2 DEF MailInv, Sound, Balanced
  <2> QED
    BY <2>1, <2>2, <2>3
<1>9. Balanced'
  BY <1>8 DEF Balanced
<1>10. SettledWasPosted'
  <2> SUFFICES ASSUME NEW i \in Ids, tells'[i] # NoRow, tells'[i].delivered, issued[i] = 1
               PROVE  posts[tells'[i].tag] > 0
    BY DEF SettledWasPosted
  <2>1. CASE tells'[i] = tells[i]
    BY <2>1 DEF MailInv, Sound, SettledWasPosted
  <2>2. CASE i = p.id
    <3>1. tells'[i].tag = p.tag
      BY <2>2 DEF MailInv, Sound, Batches, RowsKept
    <3> QED
      BY <1>3, <3>1
  <2> QED
    BY <2>1, <2>2
<1>11. InOrder'
  <2> SUFFICES ASSUME NEW i \in PendingFor(tells', courier[d].channel, courier[d].who),
                      NEW q \in courier'[d].batch, tells'[i].tag < q.tag
               PROVE  \/ posts[tells'[i].tag] > 0
                      \/ \E r \in courier'[d].batch : r.tag = tells'[i].tag
    BY <1>1, <1>2 DEF InOrder
  <2>1. i \in PendingFor(tells, courier[d].channel, courier[d].who) /\ tells'[i].tag = tells[i].tag
    BY DEF PendingFor, Pending, RowsKept, MatchesRecipient
  <2>2. q \in courier[d].batch
    BY <1>1
  <2> QED
    BY <1>1, <1>3, <2>1, <2>2 DEF MailInv, Sound, InOrder
<1> QED
  BY <1>4, <1>5, <1>7, <1>9, <1>10, <1>11 DEF Sound

\* A crash takes every batch, and counts the post that was not marked as lost.
LEMMA AfterCrash ==
  ASSUME MailInv, Crash
  PROVE  Sound'
<1>1. /\ UNCHANGED <<tells, births, issued, posts>>
      /\ \A d \in Couriers : courier'[d].batch = {} /\ courier'[d].pc = "idle"
      /\ \A t \in Tags : lost'[t] = IF Unmarked(t) THEN lost[t] + 1 ELSE lost[t]
  BY DEF Crash, store, IdleCourier
<1>2. Numbered' /\ SettledWasPosted' /\ Batches' /\ InOrder'
  BY <1>1 DEF MailInv, Sound, Numbered, SettledWasPosted, Batches, InOrder
<1>3. OncePerLoss'
  BY <1>1, MailTypes DEF MailInv, Sound, OncePerLoss
<1>4. ASSUME NEW t \in Tags, Owed(t)' PROVE posts[t] <= lost'[t]
  <2>1. CASE Unmarked(t)
    BY <1>1, <2>1, MailTypes DEF MailInv, Sound, OncePerLoss
  <2>2. CASE ~Unmarked(t)
    BY <1>1, <1>4, <2>2 DEF MailInv, Sound, Balanced, Owed
  <2> QED
    BY <2>1, <2>2
<1>5. Balanced'
  BY <1>1, <1>4 DEF Balanced
<1> QED
  BY <1>2, <1>3, <1>5 DEF Sound

-----------------------------------------------------------------------------
(* Every step is one of these.                                             *)

\* Only Insert brings a tell; the rest keep the rows they do not remove.
LEMMA RowsStay ==
  ASSUME TypeOK, [Next]_vars, \A c \in Creators : ~Insert(c)
  PROVE  RowsKept /\ UNCHANGED <<births, issued>>
<1>1. ASSUME UNCHANGED <<tells, births, issued>>
      PROVE  RowsKept /\ UNCHANGED <<births, issued>>
  BY <1>1 DEF RowsKept
<1>2. ASSUME NEW c \in Creators,
             \/ \E ch \in Channels, from \in Authors, to \in People, n \in 1..MaxLines :
                  Tell(c, ch, from, to, n)
             \/ AcquireCreate(c) \/ CreateStep(c) \/ CreateFails(c)
      PROVE  UNCHANGED <<tells, births, issued>>
  BY <1>2 DEF Tell, AcquireCreate, CreateStep, CountPair, CountTotal, CheckRate, CreateFails, store
<1>3. ASSUME NEW d \in Couriers,
             \/ \E ch \in Channels, who \in People : Arrive(d, ch, who)
             \/ AcquireDeliver(d) \/ ReadPending(d) \/ Finish(d) \/ PostNothing(d)
             \/ \E p \in courier[d].batch : \E n \in 1..MaxLines : Post(d, p, n)
             \/ ReadFails(d) \/ \E p \in courier[d].batch : MarkFails(d, p)
      PROVE  UNCHANGED <<tells, births, issued>>
  BY <1>3 DEF Arrive, AcquireDeliver, ReadPending, Finish, PostNothing, Post, ReadFails,
              MarkFails, store
<1>4. ASSUME NEW d \in Couriers, NEW p \in courier[d].batch, Mark(d, p)
      PROVE  RowsKept /\ UNCHANGED <<births, issued>>
  BY <1>4 DEF Mark, RowsKept, TypeOK, Row
<1>5. ASSUME NEW x \in Cancellers,
             \/ \E ch \in Channels, i \in Ids, who \in Authors : CancelRead(x, ch, i, who)
             \/ CancelDelete(x) \/ CancelFails(x)
      PROVE  RowsKept /\ UNCHANGED <<births, issued>>
  BY <1>5 DEF CancelRead, CancelDelete, CancelFails, store, RowsKept, TypeOK
<1>6. ASSUME NEW i \in Ids, GoStale(i)
      PROVE  RowsKept /\ UNCHANGED <<births, issued>>
  BY <1>6 DEF GoStale, RowsKept, TypeOK, Row
<1>7. CASE Prune
  BY <1>7 DEF Prune, RowsKept
<1>8. CASE Crash \/ (\E k \in Keys : WindowSlides(k)) \/ UNCHANGED vars
  BY <1>1, <1>8 DEF Crash, WindowSlides, vars, store
<1> QED
  BY <1>1, <1>2, <1>3, <1>4, <1>5, <1>6, <1>7, <1>8 DEF Next, DeliverStep

LEMMA DeliverSound ==
  ASSUME MailInv, [Next]_vars, NEW d \in Couriers,
         \/ \E ch \in Channels, who \in People : Arrive(d, ch, who)
         \/ AcquireDeliver(d) \/ DeliverStep(d) \/ ReadFails(d)
         \/ \E p \in courier[d].batch : MarkFails(d, p)
  PROVE  Sound'
<1>0. courier \in [Couriers -> DeliverCall]
  BY MailTypes
<1>1. CASE \/ \E ch \in Channels, who \in People : Arrive(d, ch, who)
           \/ AcquireDeliver(d) \/ Finish(d) \/ PostNothing(d) \/ ReadFails(d)
           \/ ReadPending(d) /\ courier'[d].batch = {}
  <2>1. courier[d].pc # "mark" /\ UNCHANGED <<tells, births, issued, posts, lost>>
    BY <1>1 DEF Arrive, AcquireDeliver, Finish, PostNothing, ReadFails, ReadPending, store, history
  <2>2. \A e \in Couriers : e # d => courier'[e] = courier[e]
    BY <1>0, <1>1 DEF Arrive, AcquireDeliver, Finish, PostNothing, ReadFails, ReadPending,
                      LeaveDeliver
  <2>3. courier'[d].batch = {}
    <3>1. courier[d] \in DeliverCall
      BY <1>0
    <3>2. CASE AcquireDeliver(d)
      <4>1. courier'[d].batch = courier[d].batch /\ courier[d].pc = "queued"
        BY <1>0, <3>1, <3>2 DEF AcquireDeliver, DeliverCall
      <4> QED
        BY <4>1 DEF MailInv, Sound, Batches
    <3>3. CASE PostNothing(d)
      BY <1>0, <3>1, <3>3 DEF PostNothing, DeliverCall
    <3>4. CASE ~AcquireDeliver(d) /\ ~PostNothing(d)
      BY <1>0, <1>1, <3>4 DEF Arrive, Finish, ReadFails, LeaveDeliver, IdleCourier
    <3> QED
      BY <3>2, <3>3, <3>4
  <2> QED
    BY <2>1, <2>2, <2>3, HandsEmptied
<1>2. CASE ReadPending(d) /\ courier'[d].batch # {}
  BY <1>2, BatchRead
<1>3. ASSUME NEW p \in courier[d].batch, Mark(d, p) PROVE Sound'
  <2>1. RowsKept /\ UNCHANGED <<births, issued, posts, lost>>
    BY <1>3 DEF Mark, RowsKept, TypeOK, Row, MailInv, history
  <2>2. p.id \in Ids
    BY MailTypes
  <2>3. ASSUME NEW i \in Ids, tells'[i] # NoRow
        PROVE  /\ tells'[i] = tells[i] \/ (i = p.id /\ tells'[i].delivered)
               /\ i = p.id => tells'[i].delivered
               /\ Pending(tells'[i]) => Pending(tells[i])
    <3>1. tells[i] # NoRow => tells[i] \in Row
      BY MailTypes
    <3> QED
      BY <1>3, <2>2, <2>3, <3>1, MailTypes DEF Mark, Pending, Row
  <2>4. courier[d].pc = "mark" /\ IsCurrent(d, p) /\ NextParcel(d, p)
    BY <1>3 DEF Mark
  <2> QED
    BY <2>1, <2>2, <2>3, <2>4, ParcelDone
<1>4. ASSUME NEW p \in courier[d].batch, MarkFails(d, p) PROVE Sound'
  <2>1. /\ courier[d].pc = "mark" /\ IsCurrent(d, p) /\ NextParcel(d, p)
        /\ UNCHANGED <<tells, births, issued, posts>>
        /\ lost' = [lost EXCEPT ![p.tag] = @ + 1]
    BY <1>4 DEF MarkFails, store
  <2>2. p.tag \in Tags
    BY MailTypes
  <2>3. lost'[p.tag] = lost[p.tag] + 1 /\ \A t \in Tags : t # p.tag => lost'[t] = lost[t]
    BY <2>1, <2>2, MailTypes
  <2>4. RowsKept
    BY <2>1 DEF RowsKept
  <2> QED
    BY <2>1, <2>3, <2>4, ParcelDone
<1> QED
  BY <1>1, <1>2, <1>3, <1>4, ParcelPosted DEF DeliverStep

LEMMA MailStep == MailInv /\ [Next]_vars => MailInv'
<1> SUFFICES ASSUME MailInv, [Next]_vars PROVE Sound'
  BY TypeStep, ExclusiveStep DEF MailInv
<1>1. ASSUME NEW c \in Creators, Insert(c) PROVE Sound'
  BY <1>1, TellBorn
<1>2. CASE Crash
  BY <1>2, AfterCrash
<1>3. ASSUME NEW c \in Creators,
             \/ \E ch \in Channels, from \in Authors, to \in People, n \in 1..MaxLines :
                  Tell(c, ch, from, to, n)
             \/ AcquireCreate(c) \/ CountPair(c) \/ CountTotal(c) \/ CheckRate(c) \/ CreateFails(c)
      PROVE  UNCHANGED <<courier, posts, lost, births, issued, tells>>
  BY <1>3 DEF Tell, AcquireCreate, CountPair, CountTotal, CheckRate, CreateFails, store, history
<1>4. ASSUME (\E k \in Keys : WindowSlides(k)) \/ UNCHANGED vars
      PROVE  UNCHANGED <<courier, posts, lost, births, issued, tells>>
  BY <1>4 DEF WindowSlides, vars, store, history
<1>5. ASSUME UNCHANGED <<courier, posts, lost, births, issued, tells>> PROVE Sound'
  BY <1>5, TableShrinks DEF RowsKept
<1>6. ASSUME NEW x \in Cancellers,
             \/ \E ch \in Channels, i \in Ids, who \in Authors : CancelRead(x, ch, i, who)
             \/ CancelDelete(x) \/ CancelFails(x)
      PROVE  Sound'
  <2>1. UNCHANGED <<courier, posts, lost, births, issued>>
    BY <1>6 DEF CancelRead, CancelDelete, CancelFails, store, history
  <2>2. \A i \in Ids : tells'[i] # NoRow => tells'[i] = tells[i]
    BY <1>6, MailTypes DEF CancelRead, CancelDelete, CancelFails, store
  <2> QED
    BY <2>1, <2>2, TableShrinks DEF RowsKept
<1>7. ASSUME NEW i \in Ids, GoStale(i) PROVE Sound'
  <2>1. UNCHANGED <<courier, posts, lost, births, issued>>
    BY <1>7 DEF GoStale, history
  <2>2. ASSUME NEW j \in Ids, tells'[j] # NoRow
        PROVE  /\ tells[j] # NoRow
               /\ tells'[j].tag = tells[j].tag /\ tells'[j].channel = tells[j].channel
               /\ tells'[j].key = tells[j].key
               /\ tells'[j].nick = tells[j].nick /\ tells'[j].acct = tells[j].acct
               /\ tells'[j].delivered = tells[j].delivered
               /\ Pending(tells'[j]) => Pending(tells[j])
    BY <1>7, <2>2, MailTypes DEF GoStale, Pending, Row
  <2> QED
    BY <2>1, <2>2, TableShrinks DEF RowsKept
<1>8. CASE Prune
  <2>1. UNCHANGED <<courier, posts, lost, births, issued>>
    BY <1>8 DEF Prune, history
  <2>2. \A i \in Ids : tells'[i] # NoRow => tells'[i] = tells[i]
    BY <1>8 DEF Prune
  <2> QED
    BY <2>1, <2>2, TableShrinks DEF RowsKept
<1> QED
  BY <1>1, <1>2, <1>3, <1>4, <1>5, <1>6, <1>7, <1>8, DeliverSound DEF Next, CreateStep

LEMMA MailInit == Init => MailInv
<1> SUFFICES ASSUME Init PROVE Sound
  BY TypeInit, ExclusiveInit DEF MailInv
<1>1. /\ \A i \in Ids : tells[i] = NoRow
      /\ \A d \in Couriers : courier[d].batch = {} /\ courier[d].pc = "idle"
      /\ \A t \in Tags : posts[t] = 0 /\ lost[t] = 0
  BY DEF Init, IdleCourier
<1> QED
  BY <1>1 DEF Sound, Numbered, Batches, Balanced, OncePerLoss, SettledWasPosted, InOrder

\* A tell is posted once, and once more for each time a crash or a failed mark
\* lost the post, for any number of calls and of failures.
THEOREM PostedOncePerLoss == Spec => []OncePerLoss
<1>1. MailInv => OncePerLoss
  BY DEF MailInv, Sound
<1> QED
  BY <1>1, MailInit, MailStep, PTL DEF Spec

\* What the table calls delivered has been in the channel, unless its id was
\* given away.
THEOREM DeliveredTellsWerePosted == Spec => []SettledWasPosted
<1>1. MailInv => SettledWasPosted
  BY DEF MailInv, Sound
<1> QED
  BY <1>1, MailInit, MailStep, PTL DEF Spec

-----------------------------------------------------------------------------
(* Order, and who withdraws.                                               *)

\* What OldestFirst says of one step.
PostsOldest ==
  \A d \in Couriers, t \in Tags :
    posts'[t] > posts[t] /\ courier[d].pc = "post" /\ courier'[d].pc = "mark" =>
      \A i \in PendingFor(tells, courier[d].channel, courier[d].who) :
        tells[i].tag < t => posts[tells[i].tag] > 0

\* Only a post posts, and only the call that posts moves.
LEMMA OnlyPostPosts ==
  ASSUME MailInv, [Next]_vars, NEW d \in Couriers, NEW t \in Tags,
         posts'[t] > posts[t], courier[d].pc = "post"
  PROVE  \E p \in courier[d].batch : IsCurrent(d, p) /\ p.tag = t
<1>0. posts' # posts /\ \A u \in Tags : posts[u] \in Nat
  BY MailTypes
<1>1. PICK e \in Couriers : \E p \in courier[e].batch : \E n \in 1..MaxLines : Post(e, p, n)
  BY <1>0 DEF Next, vars, history, store, Tell, AcquireCreate, CreateStep, CountPair, CountTotal,
              CheckRate, Insert, CreateFails, Arrive, AcquireDeliver, DeliverStep, ReadPending,
              Finish, PostNothing, Mark, ReadFails, MarkFails, CancelRead, CancelDelete,
              CancelFails, WindowSlides, GoStale, Prune, Crash
<1>2. PICK p \in courier[e].batch :
        /\ courier[e].pc = "post" /\ IsCurrent(e, p)
        /\ posts' = [posts EXCEPT ![p.tag] = @ + 1]
  BY <1>1 DEF Post
<1>3. e = d
  BY <1>2, NoneAssumption DEF MailInv, Exclusive, InDeliver
<1>4. p.tag = t
  BY <1>0, <1>2, MailTypes
<1> QED
  BY <1>2, <1>3, <1>4

\* When a tell is posted, every older one that waits for the same person has
\* been in the channel.
THEOREM OldestAlwaysFirst == Spec => OldestFirst
<1>1. ASSUME MailInv, [Next]_vars PROVE PostsOldest
  <2> SUFFICES ASSUME NEW d \in Couriers, NEW t \in Tags, posts'[t] > posts[t],
                      courier[d].pc = "post",
                      NEW i \in PendingFor(tells, courier[d].channel, courier[d].who),
                      tells[i].tag < t
               PROVE  posts[tells[i].tag] > 0
    BY DEF PostsOldest
  <2>1. PICK p \in courier[d].batch : IsCurrent(d, p) /\ p.tag = t
    BY <1>1, OnlyPostPosts
  <2>2. tells[i].tag \in Nat /\ t \in Nat /\ \A q \in courier[d].batch : q.tag \in Nat
    BY <1>1, MailTypes DEF PendingFor, Pending
  <2>3. ~\E q \in courier[d].batch : q.tag = tells[i].tag
    BY <2>1, <2>2 DEF IsCurrent
  <2> QED
    BY <1>1, <2>1, <2>3 DEF MailInv, Sound, InOrder
<1>2. MailInv /\ [Next]_vars => [PostsOldest]_vars
  BY <1>1
<1> QED
  BY <1>2, MailInit, MailStep, PTL DEF Spec, OldestFirst, PostsOldest

\* A withdrawal that passed the check names a row its caller may remove, or an
\* id that was given away since.
Entitled ==
  \A x \in Cancellers : canceller[x].pc = "delete" =>
    LET i == canceller[x].id IN
    /\ i \in Ids /\ issued[i] > 0
    /\ tells[i] # NoRow /\ issued[i] = 1 => MayCancel(canceller[x].who, tells[i])

LEMMA EntitledStep == MailInv /\ Entitled /\ [Next]_vars => Entitled'
<1> SUFFICES ASSUME MailInv, Entitled, [Next]_vars, NEW x \in Cancellers,
                    canceller'[x].pc = "delete"
             PROVE  LET i == canceller'[x].id IN
                    /\ i \in Ids /\ issued'[i] > 0
                    /\ tells'[i] # NoRow /\ issued'[i] = 1 =>
                         MayCancel(canceller'[x].who, tells'[i])
  BY DEF Entitled, MayCancel
<1>0. canceller \in [Cancellers -> CancelCall]
  BY DEF MailInv, TypeOK
<1>1. ASSUME NEW c \in Creators, Insert(c)
      PROVE  LET i == canceller'[x].id IN
             /\ i \in Ids /\ issued'[i] > 0
             /\ tells'[i] # NoRow /\ issued'[i] = 1 => MayCancel(canceller'[x].who, tells'[i])
  <2>1. canceller' = canceller
    BY <1>1 DEF Insert
  <2>2. PICK i \in Ids : /\ tells' = [tells EXCEPT ![i] = NewRow(creator[c])]
                         /\ issued' = [issued EXCEPT ![i] = @ + 1]
    BY <1>1 DEF Insert
  <2>3. /\ issued'[i] = issued[i] + 1 /\ issued[i] \in Nat
        /\ \A j \in Ids : j # i => tells'[j] = tells[j] /\ issued'[j] = issued[j]
    BY <2>2, MailTypes
  <2> QED
    BY <2>1, <2>3 DEF Entitled
<1>2. ASSUME \A c \in Creators : ~Insert(c), canceller'[x] = canceller[x]
      PROVE  LET i == canceller'[x].id IN
             /\ i \in Ids /\ issued'[i] > 0
             /\ tells'[i] # NoRow /\ issued'[i] = 1 => MayCancel(canceller'[x].who, tells'[i])
  <2>1. RowsKept /\ issued' = issued
    BY <1>2, RowsStay DEF MailInv
  <2> QED
    BY <1>2, <2>1 DEF Entitled, RowsKept, MayCancel
<1>3. ASSUME NEW ch \in Channels, NEW i \in Ids, NEW who \in Authors, CancelRead(x, ch, i, who)
      PROVE  /\ canceller'[x].id = i /\ issued'[i] > 0
             /\ tells'[i] # NoRow => MayCancel(canceller'[x].who, tells'[i])
  <2>1. canceller'[x] = [pc |-> "delete", id |-> i, tag |-> tells[i].tag, who |-> who]
    BY <1>0, <1>3 DEF CancelRead
  <2>2. issued' = issued /\ tells' = tells /\ issued[i] > 0
    BY <1>3 DEF CancelRead, store, MailInv, Sound, Numbered
  <2>3. MayCancel(who, tells[i])
    BY <1>3 DEF CancelRead
  <2> QED
    BY <2>1, <2>2, <2>3
<1>4. ASSUME CancelDelete(x) \/ CancelFails(x) \/ Crash PROVE FALSE
  BY <1>0, <1>4 DEF CancelDelete, CancelFails, Crash, IdleCanceller
<1>5. ASSUME NEW y \in Cancellers, y # x,
             \/ \E ch \in Channels, i \in Ids, who \in Authors : CancelRead(y, ch, i, who)
             \/ CancelDelete(y) \/ CancelFails(y)
      PROVE  canceller'[x] = canceller[x]
  BY <1>0, <1>5 DEF CancelRead, CancelDelete, CancelFails
<1>6. ASSUME \A y \in Cancellers :
               /\ \A ch \in Channels, i \in Ids, who \in Authors : ~CancelRead(y, ch, i, who)
               /\ ~CancelDelete(y) /\ ~CancelFails(y),
             ~Crash
      PROVE  canceller' = canceller
  BY <1>6 DEF Next, vars, history, store, Tell, AcquireCreate, CreateStep, CountPair, CountTotal,
              CheckRate, Insert, CreateFails, Arrive, AcquireDeliver, DeliverStep, ReadPending,
              Finish, PostNothing, Post, Mark, ReadFails, MarkFails, WindowSlides, GoStale, Prune
<1>7. CASE \E c \in Creators : Insert(c)
  BY <1>1, <1>7
<1>8. CASE \A c \in Creators : ~Insert(c)
  <2>1. CASE canceller'[x] = canceller[x]
    BY <1>2, <1>8, <2>1
  <2>2. CASE canceller'[x] # canceller[x]
    <3>1. \E ch \in Channels, i \in Ids, who \in Authors : CancelRead(x, ch, i, who)
      BY <1>4, <1>5, <1>6, <2>2
    <3> QED
      BY <1>3, <3>1
  <2> QED
    BY <2>1, <2>2
<1> QED
  BY <1>7, <1>8

\* What OnlyOwnersWithdraw says of one step.
WithdrawsOwn ==
  \A x \in Cancellers :
    LET i == canceller[x].id IN
    canceller[x].pc = "delete" /\ tells[i] # NoRow /\ tells'[i] = NoRow /\ issued[i] = 1
      => \/ canceller[x].who.acct \in Operators
         \/ tells[i].key = ActorKey(canceller[x].who)

\* Between the check of a withdrawal and its DELETE the row is still one the
\* caller may remove, unless its id was given away.
THEOREM OwnersWithdraw == Spec => OnlyOwnersWithdraw
<1>1. Init => Entitled
  BY DEF Init, Entitled, IdleCanceller
<1>2. MailInv /\ Entitled /\ [Next]_vars => [WithdrawsOwn]_vars
  BY DEF Entitled, WithdrawsOwn, MayCancel, IsOperator
<1> QED
  BY <1>1, <1>2, MailInit, MailStep, EntitledStep, PTL
     DEF Spec, OnlyOwnersWithdraw, WithdrawsOwn

-----------------------------------------------------------------------------
(* The relay is a mailbox.                                                 *)

\* A loss follows a post, and the tell at the mark has one that was not lost.
Ledger ==
  \A t \in Tags : lost[t] <= posts[t] /\ (Unmarked(t) => lost[t] < posts[t])

\* The one tell that is at the mark.
LEMMA OneUnmarked ==
  ASSUME MailInv, NEW t \in Tags, NEW u \in Tags, Unmarked(t), Unmarked(u)
  PROVE  t = u
<1>1. PICK d \in Couriers : /\ courier[d].pc = "mark"
                            /\ \E p \in courier[d].batch : IsCurrent(d, p) /\ p.tag = t
  BY DEF Unmarked
<1>2. PICK e \in Couriers : /\ courier[e].pc = "mark"
                            /\ \E p \in courier[e].batch : IsCurrent(e, p) /\ p.tag = u
  BY DEF Unmarked
<1>3. d = e
  BY <1>1, <1>2, NoneAssumption DEF MailInv, Exclusive, InDeliver
<1> QED
  BY <1>1, <1>2, <1>3, MailTypes DEF IsCurrent

\* What a step of a delivery does to the ledger.
LEMMA LedgerPost ==
  ASSUME MailInv, Ledger, NEW d \in Couriers, NEW p \in courier[d].batch,
         NEW n \in 1..MaxLines, Post(d, p, n)
  PROVE  Ledger'
<1>1. /\ courier[d].pc = "post" /\ IsCurrent(d, p) /\ lost' = lost
      /\ posts' = [posts EXCEPT ![p.tag] = @ + 1]
  BY DEF Post
<1>2. /\ courier'[d].pc = "mark" /\ courier'[d].batch = courier[d].batch
      /\ \A e \in Couriers : e # d => courier'[e] = courier[e]
  BY MailTypes DEF Post, DeliverCall
<1>3. \A e \in Couriers : courier[e].pc # "mark"
  BY <1>1, NoneAssumption DEF MailInv, Exclusive, InDeliver
<1>4. \A t \in Tags : Unmarked(t)' => t = p.tag
  <2>1. \A q \in courier[d].batch : IsCurrent(d, q)' => q.tag = p.tag
    BY <1>1, <1>2, MailTypes DEF IsCurrent
  <2> QED
    BY <1>2, <1>3, <2>1 DEF Unmarked
<1> QED
  BY <1>1, <1>4, MailTypes DEF Ledger

LEMMA LedgerMark ==
  ASSUME MailInv, Ledger, NEW d \in Couriers, NEW p \in courier[d].batch,
         Mark(d, p) \/ MarkFails(d, p)
  PROVE  Ledger'
<1>1. /\ courier[d].pc = "mark" /\ IsCurrent(d, p) /\ NextParcel(d, p) /\ posts' = posts
      /\ lost' = lost \/ lost' = [lost EXCEPT ![p.tag] = @ + 1]
  BY DEF Mark, MarkFails, history
<1>2. courier'[d].pc # "mark" /\ \A e \in Couriers : e # d => courier'[e] = courier[e]
  BY <1>1, MailTypes DEF NextParcel
<1>3. \A e \in Couriers : courier'[e].pc # "mark"
  BY <1>1, <1>2, NoneAssumption DEF MailInv, Exclusive, InDeliver
<1>4. p.tag \in Tags /\ Unmarked(p.tag) /\ \A t \in Tags : ~Unmarked(t)'
  BY <1>1, <1>3, MailTypes DEF Unmarked
<1> QED
  BY <1>1, <1>4, MailTypes DEF Ledger

LEMMA LedgerStep == MailInv /\ Ledger /\ [Next]_vars => Ledger'
<1> SUFFICES ASSUME MailInv, Ledger, [Next]_vars PROVE Ledger'
  OBVIOUS
<1>1. CASE Crash
  <2>1. /\ posts' = posts /\ \A d \in Couriers : courier'[d].pc = "idle"
        /\ \A t \in Tags : lost'[t] = IF Unmarked(t) THEN lost[t] + 1 ELSE lost[t]
    BY <1>1 DEF Crash, IdleCourier
  <2>2. \A t \in Tags : ~Unmarked(t)'
    BY <2>1 DEF Unmarked
  <2> QED
    BY <2>1, <2>2, MailTypes DEF Ledger
<1>2. ASSUME UNCHANGED <<posts, lost>>,
             \A d \in Couriers : courier'[d].pc = "mark" => courier'[d] = courier[d]
      PROVE  Ledger'
  BY <1>2 DEF Ledger, Unmarked, IsCurrent
<1>3. ASSUME NEW d \in Couriers,
             \/ \E ch \in Channels, who \in People : Arrive(d, ch, who)
             \/ AcquireDeliver(d) \/ ReadPending(d) \/ Finish(d) \/ PostNothing(d) \/ ReadFails(d)
      PROVE  Ledger'
  <2>1. UNCHANGED <<posts, lost>> /\ \A e \in Couriers : e # d => courier'[e] = courier[e]
    BY <1>3, MailTypes DEF Arrive, AcquireDeliver, ReadPending, Finish, PostNothing, ReadFails,
                           LeaveDeliver, history
  <2>2. courier'[d].pc # "mark"
    <3>1. courier[d] \in DeliverCall
      BY MailTypes
    <3>2. CASE ReadPending(d)
      BY <3>1, <3>2, MailTypes DEF ReadPending, LeaveDeliver, IdleCourier, DeliverCall
    <3>3. CASE ~ReadPending(d)
      BY <1>3, <3>1, <3>3, MailTypes DEF Arrive, AcquireDeliver, Finish, PostNothing, ReadFails,
                                         LeaveDeliver, IdleCourier, DeliverCall
    <3> QED
      BY <3>2, <3>3
  <2> QED
    BY <1>2, <2>1, <2>2
<1>4. ASSUME NEW c \in Creators,
             \/ \E ch \in Channels, from \in Authors, to \in People, n \in 1..MaxLines :
                  Tell(c, ch, from, to, n)
             \/ AcquireCreate(c) \/ CreateStep(c) \/ CreateFails(c)
      PROVE  UNCHANGED <<courier, posts, lost>>
  BY <1>4 DEF Tell, AcquireCreate, CreateStep, CountPair, CountTotal, CheckRate, Insert,
              CreateFails, history
<1>5. ASSUME NEW x \in Cancellers,
             \/ \E ch \in Channels, i \in Ids, who \in Authors : CancelRead(x, ch, i, who)
             \/ CancelDelete(x) \/ CancelFails(x)
      PROVE  UNCHANGED <<courier, posts, lost>>
  BY <1>5 DEF CancelRead, CancelDelete, CancelFails, history
<1>6. ASSUME \/ \E k \in Keys : WindowSlides(k)
             \/ \E i \in Ids : GoStale(i)
             \/ Prune \/ UNCHANGED vars
      PROVE  UNCHANGED <<courier, posts, lost>>
  BY <1>6 DEF WindowSlides, GoStale, Prune, vars, history
<1> QED
  BY <1>1, <1>2, <1>3, <1>4, <1>5, <1>6, LedgerPost, LedgerMark DEF Next, DeliverStep

\* The mailbox counts as the relay does.
LEMMA SameCount ==
  ASSUME NEW S
  PROVE  Mailbox!Cardinality(S) = Cardinality(S)
  BY DEF Mailbox!Cardinality, Cardinality

\* The cards in the box are no more than the rows they stand for.
LEMMA BoxIsCounted ==
  ASSUME NEW S, S \subseteq Ids, NEW T, T \subseteq {Card(tells[i]) : i \in S}
  PROVE  Cardinality(T) \in Nat /\ Cardinality(T) <= Cardinality(S) /\ Cardinality(S) \in Nat
<1> DEFINE f == [i \in S |-> Card(tells[i])]
           R == {Card(tells[i]) : i \in S}
<1>1. IsFiniteSet(S)
  BY IdsFinite, FS_Subset
<1>2. f \in Surjection(S, R)
  BY DEF Surjection
<1>3. IsFiniteSet(R) /\ Cardinality(R) <= Cardinality(S)
  BY <1>1, <1>2, FS_Surjection
<1>4. IsFiniteSet(T) /\ Cardinality(T) <= Cardinality(R)
  BY <1>3, FS_Subset
<1> QED
  BY <1>1, <1>3, <1>4, FS_CardinalityType

Box == {Card(tells[i]) : i \in {j \in Ids : Pending(tells[j])}}

\* An insert is the one step that leaves a tell, and there is room for it.
LEMMA InsertLeaves ==
  ASSUME MailInv, RoomKept, NEW c \in Creators, Insert(c)
  PROVE  Mailbox!Next
<1> DEFINE call == creator[c]
           row == NewRow(call)
           t == Card(row)
<1>1. PICK i \in Ids : /\ IsNextId(tells, i)
                       /\ tells' = [tells EXCEPT ![i] = row]
  BY DEF Insert
<1>2. call.pc = "insert" /\ births' = births + 1 /\ UNCHANGED <<posts, lost>>
  BY DEF Insert, history
<1>3. tells[i] = NoRow
  <2>1. ~(i < i)
    BY DEF Ids
  <2> QED
    BY <1>1, <2>1 DEF IsNextId
<1>4. row \in Row /\ row = tells'[i] /\ \A j \in Ids : j # i => tells'[j] = tells[j]
  <2>1. births + 1 \in Tags
    BY LimitsAssumption DEF MailInv, TypeOK, Insert, Tags
  <2>2. call \in CreateCall
    BY DEF MailInv, TypeOK
  <2>3. row \in Row
    BY <2>1, <2>2, KeyType DEF NewRow, Row, CreateCall, Person
  <2> QED
    BY <1>1, <2>3, MailTypes
<1>5. Pending(row)
  BY <1>4, NoneAssumption DEF Pending, NewRow
<1>6. t \in Mailbox!Card /\ t.tag = births + 1
  BY <1>4 DEF Card, NewRow, Mailbox!Card, Row, Maybe
<1>7. Box' = Box \cup {t}
  BY <1>3, <1>4, <1>5 DEF Box, Pending
<1>8. Cardinality({u \in Box : Mailbox!SameRecipient(t, u)}) < RecipientCap
  <2> DEFINE ids == PendingFor(tells, call.channel, call.to)
  <2>1. {u \in Box : Mailbox!SameRecipient(t, u)} \subseteq {Card(tells[j]) : j \in ids}
    BY DEF Box, Mailbox!SameRecipient, Card, NewRow, PendingFor, MatchesRecipient
  <2>2. Cardinality(ids) < RecipientCap
    BY <1>2 DEF RoomKept, TotalCount
  <2>3. ids \subseteq Ids
    BY DEF PendingFor
  <2> HIDE DEF ids
  <2> QED
    BY <2>1, <2>2, <2>3, BoxIsCounted, LimitsAssumption
<1>9. Cardinality({u \in {v \in Box : Mailbox!SameRecipient(t, v)} : u.key = t.key}) < PairCap
  <2> DEFINE key == ActorKey(call.from)
             ids == {j \in PendingFor(tells, call.channel, call.to) : tells[j].key = key}
  <2>1. {u \in {v \in Box : Mailbox!SameRecipient(t, v)} : u.key = t.key}
          \subseteq {Card(tells[j]) : j \in ids}
    BY DEF Box, Mailbox!SameRecipient, Card, NewRow, PendingFor, MatchesRecipient
  <2>2. Cardinality(ids) < PairCap
    BY <1>2 DEF RoomKept, PairCount
  <2>3. ids \subseteq Ids
    BY DEF PendingFor
  <2> HIDE DEF ids
  <2> QED
    BY <2>1, <2>2, <2>3, BoxIsCounted, LimitsAssumption
<1> HIDE DEF t
<1>10. Mailbox!Leave(t)
  BY <1>2, <1>6, <1>7, <1>8, <1>9, SameCount DEF Mailbox!Leave, Mailbox!Ahead, Box
<1> QED
  BY <1>6, <1>10 DEF Mailbox!Next

\* A post says, a loss loses, and what goes from the table goes from the box.
LEMMA StepIsMailbox ==
  ASSUME MailInv, RoomKept, Ledger, [Next]_vars
  PROVE  [Mailbox!Next]_(Mailbox!mvars)
<1>1. ASSUME NEW c \in Creators, Insert(c) PROVE Mailbox!Next
  BY <1>1, InsertLeaves
<1>2. ASSUME NEW d \in Couriers, NEW p \in courier[d].batch, NEW n \in 1..MaxLines, Post(d, p, n)
      PROVE  Mailbox!Next
  <2>1. /\ UNCHANGED <<tells, births, lost>> /\ posts' = [posts EXCEPT ![p.tag] = @ + 1]
        /\ courier[d].pc = "post"
    BY <1>2 DEF Post, store
  <2>2. p.tag \in Tags /\ p.tag <= births
    BY MailTypes DEF MailInv, Sound, Batches
  <2>3. ~Unmarked(p.tag)
    BY <2>1, NoneAssumption DEF Unmarked, MailInv, Exclusive, InDeliver
  <2>4. posts[p.tag] <= lost[p.tag]
    BY <2>2, <2>3 DEF MailInv, Sound, Balanced, Owed
  <2>5. Mailbox!Say(p.tag)
    BY <2>1, <2>2, <2>4 DEF Mailbox!Say
  <2> QED
    BY <2>2, <2>5 DEF Mailbox!Next
<1>3. ASSUME NEW t \in Tags, Unmarked(t), UNCHANGED <<tells, births, posts>>,
             lost' = [lost EXCEPT ![t] = @ + 1]
      PROVE  Mailbox!Next
  <2>1. posts[t] > lost[t]
    BY <1>3, MailTypes DEF Ledger
  <2>2. Mailbox!Lose(t)
    BY <1>3, <2>1 DEF Mailbox!Lose
  <2> QED
    BY <2>2 DEF Mailbox!Next
<1>4. ASSUME NEW d \in Couriers, NEW p \in courier[d].batch, MarkFails(d, p)
      PROVE  Mailbox!Next
  <2>1. /\ courier[d].pc = "mark" /\ IsCurrent(d, p) /\ UNCHANGED <<tells, births, posts>>
        /\ lost' = [lost EXCEPT ![p.tag] = @ + 1] /\ p.tag \in Tags
    BY <1>4, MailTypes DEF MarkFails, store
  <2>2. Unmarked(p.tag)
    BY <2>1 DEF Unmarked
  <2> QED
    BY <1>3, <2>1, <2>2
<1>5. ASSUME UNCHANGED <<births, posts, lost>>, RowsKept,
             \A i \in Ids : Pending(tells'[i]) => Pending(tells[i])
      PROVE  Mailbox!Next
  <2>1. \A i \in Ids : Pending(tells'[i]) => Card(tells'[i]) = Card(tells[i])
    BY <1>5 DEF RowsKept, Pending, Card
  <2>2. Mailbox!TakeOut
    BY <1>5, <2>1 DEF Mailbox!TakeOut
  <2> QED
    BY <2>2 DEF Mailbox!Next
<1>6. ASSUME UNCHANGED <<tells, births, posts, lost>> PROVE Mailbox!Next
  BY <1>5, <1>6 DEF RowsKept
<1>7. CASE Crash
  <2>1. /\ UNCHANGED <<tells, births, posts>>
        /\ lost' = [t \in Tags |-> IF Unmarked(t) THEN lost[t] + 1 ELSE lost[t]]
    BY <1>7 DEF Crash, store
  <2>2. CASE \E t \in Tags : Unmarked(t)
    <3>1. PICK t \in Tags : Unmarked(t)
      BY <2>2
    <3>2. \A u \in Tags : Unmarked(u) => u = t
      BY <3>1, OneUnmarked
    <3>3. lost' = [lost EXCEPT ![t] = @ + 1]
      BY <2>1, <3>1, <3>2, MailTypes
    <3> QED
      BY <1>3, <2>1, <3>1, <3>3
  <2>3. CASE ~\E t \in Tags : Unmarked(t)
    <3>1. lost' = lost
      BY <2>1, <2>3, MailTypes
    <3> QED
      BY <1>6, <2>1, <3>1
  <2> QED
    BY <2>2, <2>3
<1>8. ASSUME NEW d \in Couriers, NEW p \in courier[d].batch, Mark(d, p) PROVE Mailbox!Next
  <2>1. RowsKept /\ UNCHANGED <<births, posts, lost>>
    BY <1>8, MailTypes DEF Mark, RowsKept, Row, history
  <2>2. \A i \in Ids : Pending(tells'[i]) => Pending(tells[i])
    BY <1>8, MailTypes DEF Mark, Pending, Row
  <2> QED
    BY <1>5, <2>1, <2>2
<1>9. ASSUME NEW x \in Cancellers, CancelDelete(x) PROVE Mailbox!Next
  <2>1. \A i \in Ids : tells'[i] # NoRow => tells'[i] = tells[i]
    BY <1>9, MailTypes DEF CancelDelete
  <2>2. UNCHANGED <<births, posts, lost>>
    BY <1>9 DEF CancelDelete
  <2> QED
    BY <1>5, <2>1, <2>2 DEF RowsKept, Pending
<1>10. ASSUME NEW i \in Ids, GoStale(i) PROVE Mailbox!Next
  <2>1. RowsKept /\ UNCHANGED <<births, posts, lost>>
    BY <1>10, MailTypes DEF GoStale, RowsKept, Row, history
  <2>2. \A j \in Ids : Pending(tells'[j]) => Pending(tells[j])
    BY <1>10, MailTypes DEF GoStale, Pending, Row
  <2> QED
    BY <1>5, <2>1, <2>2
<1>11. CASE Prune
  <2>1. /\ UNCHANGED <<births, posts, lost>>
        /\ \A i \in Ids : tells'[i] # NoRow => tells'[i] = tells[i]
    BY <1>11 DEF Prune, history
  <2> QED
    BY <1>5, <2>1 DEF RowsKept, Pending
<1>12. ASSUME NEW c \in Creators,
              \/ \E ch \in Channels, from \in Authors, to \in People, n \in 1..MaxLines :
                   Tell(c, ch, from, to, n)
              \/ AcquireCreate(c) \/ CountPair(c) \/ CountTotal(c) \/ CheckRate(c) \/ CreateFails(c)
       PROVE  UNCHANGED <<tells, births, posts, lost>>
  BY <1>12 DEF Tell, AcquireCreate, CountPair, CountTotal, CheckRate, CreateFails, store, history
<1>13. ASSUME NEW d \in Couriers,
              \/ \E ch \in Channels, who \in People : Arrive(d, ch, who)
              \/ AcquireDeliver(d) \/ ReadPending(d) \/ Finish(d) \/ PostNothing(d) \/ ReadFails(d)
       PROVE  UNCHANGED <<tells, births, posts, lost>>
  BY <1>13 DEF Arrive, AcquireDeliver, ReadPending, Finish, PostNothing, ReadFails, store, history
<1>14. ASSUME NEW x \in Cancellers,
              \/ \E ch \in Channels, i \in Ids, who \in Authors : CancelRead(x, ch, i, who)
              \/ CancelFails(x)
       PROVE  UNCHANGED <<tells, births, posts, lost>>
  BY <1>14 DEF CancelRead, CancelFails, store, history
<1>15. ASSUME (\E k \in Keys : WindowSlides(k)) \/ UNCHANGED vars
       PROVE  UNCHANGED <<tells, births, posts, lost>>
  BY <1>15 DEF WindowSlides, vars, store, history
<1> QED
  BY <1>1, <1>2, <1>4, <1>6, <1>7, <1>8, <1>9, <1>10, <1>11, <1>12, <1>13, <1>14, <1>15
     DEF Next, CreateStep, DeliverStep

\* Seen from outside, the relay with its locks, queries and batches is the
\* mailbox: leaving is one step within the caps, nothing is said that was not
\* left, and nothing again unless it was lost.
THEOREM RelayIsMailbox == Spec => ImplementsMailbox
<1>1. Init => Mailbox!Init
  <2> SUFFICES ASSUME Init PROVE Mailbox!Init
    OBVIOUS
  <2>1. \A i \in Ids : ~Pending(tells[i])
    BY DEF Init, Pending
  <2> QED
    BY <2>1 DEF Init, Mailbox!Init
<1>2. Init => RoomKept /\ Ledger
  BY CreateInvInit DEF Init, CreateInv, Ledger, Unmarked, IdleCourier
<1>3. CreateInv => RoomKept
  BY DEF CreateInv
<1>4. MailInv /\ RoomKept /\ Ledger /\ [Next]_vars => [Mailbox!Next]_(Mailbox!mvars)
  BY StepIsMailbox
<1> QED
  BY <1>1, <1>2, <1>3, <1>4, CreateInvInit, CreateInvStep, MailInit, MailStep, LedgerStep, PTL
     DEF Spec, ImplementsMailbox, Mailbox!Spec
=============================================================================
