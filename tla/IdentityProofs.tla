--------------------------- MODULE IdentityProofs ---------------------------
(***************************************************************************)
(* Proofs about Identity, for every number of people, nicks, accounts and  *)
(* requests, every gate and every pair of lifetimes.                       *)
(***************************************************************************)
EXTENDS Identity, TLAPS

-----------------------------------------------------------------------------
(* Lifetimes, and what the locals of a request and an entry are.           *)

LEMMA TtlType ==
  ASSUME NEW acct
  PROVE  TtlOf(acct) \in Nat /\ TtlOf(acct) <= Ttl
BY TimesAssumption DEF TtlOf

LEMMA LookupType ==
  ASSUME NEW kind \in Kinds, NEW n \in Nicks, NEW p \in People
  PROVE  [pc |-> "lookup", kind |-> kind, nick |-> n, by |-> p, info |-> NoAccount]
           \in CallState
BY DEF CallState, Waiting, Login

LEMMA DecidedType ==
  ASSUME NEW kind \in Kinds, NEW n \in Nicks, NEW p \in People, NEW acct \in Login
  PROVE  /\ Decided(kind, n, p, acct) \in CallState
         /\ \/ Decided(kind, n, p, acct) = Idle
            \/ /\ Decided(kind, n, p, acct).pc = "acting"
               /\ Decided(kind, n, p, acct).acct = acct
               /\ Decided(kind, n, p, acct).nick = n
               /\ Decided(kind, n, p, acct).by = p
               /\ Decided(kind, n, p, acct).age = 0
               /\ Decided(kind, n, p, acct).set <= Decided(kind, n, p, acct).used
BY TimesAssumption DEF Decided, CallState, Idle

LEMMA WaitingShape ==
  ASSUME NEW c \in CallState, c.pc \in Waiting
  PROVE  /\ c.kind \in Kinds /\ c.nick \in Nicks /\ c.by \in People /\ c.info \in Login
         /\ \A info \in Login :
              LET d == [c EXCEPT !.pc = "answered", !.info = info] IN
              /\ d \in CallState /\ d.pc = "answered" /\ d.info = info
              /\ d.nick = c.nick /\ d.by = c.by
BY DEF CallState, Waiting

LEMMA ActingShape ==
  ASSUME NEW c \in CallState, c.pc = "acting"
  PROVE  /\ c.nick \in Nicks /\ c.by \in People /\ c.acct \in Login
         /\ c.age \in 0..MaxTurn /\ c.used \in 0..TopicCap /\ c.set \in 0..TopicCap
         /\ c \in [pc: {"acting"}, kind: Kinds, nick: Nicks, by: People, acct: Login,
                   age: 0..MaxTurn, used: 0..TopicCap, set: 0..TopicCap]
BY DEF CallState, Waiting

LEMMA EntryType ==
  ASSUME NEW acct \in Login
  PROVE  [acct |-> acct, age |-> 0] \in Entry
BY TtlType, TimesAssumption DEF Entry, Expired

-----------------------------------------------------------------------------
(* The inductive invariant.                                                *)

\* The network: a nick is one person's, who is in the channel is online, and
\* who is an op there was made one.
Unique == \A p, q \in People : Online(p) /\ nickOf[p] = nickOf[q] => p = q
PresentOnline == \A p \in present : Online(p)
LoginsKept ==
  \A p \in People : login[p] \in Accounts => since[p][login[p]] = 0
Net == Unique /\ PresentOnline /\ LoginsKept /\ chanops \subseteq opped

Recently(a, t) == \E p \in People : since[p][a] <= t

\* A request under way is still about its sender if its nick is not blamed,
\* and its account was somebody's as recently as its entry or its turn says;
\* the tool was not let through more often than it was called.
CallFine(c) ==
  /\ c.pc \in Waiting /\ c.nick \notin blamed => Holds(c.by, c.nick)
  /\ c.pc = "answered" /\ c.info \in Accounts =>
       /\ Recently(c.info, 0)
       /\ c.nick \notin blamed => since[c.by][c.info] <= 0
  /\ c.pc = "acting" /\ c.acct \in Accounts =>
       Recently(c.acct, TtlOf(c.acct) + c.age)
  /\ c.pc = "acting" => c.set <= c.used

Holder(n, a, t) == \E p \in People : Holds(p, n) /\ since[p][a] <= t
EntryFine(n, e) ==
  Fresh(e) /\ e.acct \in Accounts =>
    /\ Recently(e.acct, e.age)
    /\ n \notin blamed => Holder(n, e.acct, e.age)

CallsFine == \A h \in Calls : CallFine(call[h])
CacheFine == \A n \in Nicks : EntryFine(n, cache[n])
FlagsFine == \A n \in Nicks \ blamed : FlagIsOwn(n)

IInv == TypeOK /\ Net /\ CallsFine /\ CacheFine /\ FlagsFine

LEMMA FineIsOwn == CacheFine /\ FlagsFine => NoInheritance
BY DEF CacheFine, FlagsFine, NoInheritance, EntryFine, EntryIsOwn, Holder

LEMMA MissFine == ASSUME NEW n PROVE EntryFine(n, Miss)
BY DEF EntryFine, Fresh

LEMMA NoAccountFine ==
  ASSUME NEW n, NEW e, e.acct = NoAccount
  PROVE  EntryFine(n, e)
BY PeopleAssumption DEF EntryFine

LEMMA IdleFine == CallFine(Idle)
BY DEF CallFine, Idle, Waiting

LEMMA InitHolds == Init => IInv
<1> SUFFICES ASSUME Init PROVE IInv
  OBVIOUS
<1>1. \A a \in Accounts : Old(a) \in 0..Ttl + MaxTurn + 1
  BY TtlType, TimesAssumption DEF Old
<1>2. TypeOK
  BY <1>1, TimesAssumption DEF Init, TypeOK, Login, CallState, Idle, Old
<1>3. Net
  BY PeopleAssumption
     DEF Init, Net, Unique, PresentOnline, LoginsKept, Online
<1>4. CallsFine /\ CacheFine /\ FlagsFine
  BY IdleFine, MissFine DEF Init, CallsFine, CacheFine, FlagsFine, FlagIsOwn
<1> QED
  BY <1>2, <1>3, <1>4 DEF IInv

-----------------------------------------------------------------------------
(* Requests and turns.                                                     *)

\* A handler changes its own locals and one entry, and the network stands
\* still: what is to show is about the new locals and the new entry.
LEMMA HandlerHolds ==
  ASSUME IInv, UNCHANGED <<network, ops, history>>,
         NEW h \in Calls, NEW c \in CallState, CallFine(c),
         call' = [call EXCEPT ![h] = c],
         NEW n \in Nicks, NEW e \in {Miss} \cup Entry, EntryFine(n, e),
         cache' = cache \/ cache' = [cache EXCEPT ![n] = e]
  PROVE  IInv'
<1>1. UNCHANGED <<nickOf, login, present, chanops, ops, since, opped, blamed>>
  BY DEF network, history
<1>2. TypeOK'
  BY <1>1 DEF IInv, TypeOK
<1>3. Net'
  BY <1>1 DEF IInv, Net, Unique, PresentOnline, LoginsKept, Online
<1>4. CallsFine'
  <2> SUFFICES ASSUME NEW k \in Calls PROVE CallFine(call[k])'
    BY DEF CallsFine
  <2>1. call'[k] = c \/ call'[k] = call[k]
    BY DEF IInv, TypeOK
  <2>2. CallFine(call[k]) /\ CallFine(c)
    BY DEF IInv, CallsFine
  <2>3. CallFine(call'[k])
    BY <2>1, <2>2
  <2> QED
    BY <1>1, <2>3 DEF CallFine, Recently, Holds
<1>5. CacheFine'
  <2> SUFFICES ASSUME NEW m \in Nicks PROVE EntryFine(m, cache[m])'
    BY DEF CacheFine
  <2>1. cache'[m] = cache[m] \/ (m = n /\ cache'[m] = e)
    BY DEF IInv, TypeOK
  <2>2. EntryFine(m, cache[m])
    BY DEF IInv, CacheFine
  <2>3. EntryFine(m, cache'[m])
    BY <2>1, <2>2
  <2> QED
    BY <1>1, <2>3 DEF EntryFine, Recently, Holder, Holds, Fresh
<1>6. FlagsFine'
  BY <1>1 DEF IInv, FlagsFine, FlagIsOwn, Holds
<1> QED
  BY <1>2, <1>3, <1>4, <1>5, <1>6 DEF IInv

\* What the bot has in the cache about somebody who asks.
LEMMA HolderIsSender ==
  ASSUME IInv, NEW p \in People, Online(p), nickOf[p] \notin blamed,
         NEW a \in Accounts, Fresh(cache[nickOf[p]]), cache[nickOf[p]].acct = a
  PROVE  since[p][a] <= cache[nickOf[p]].age
<1>1. nickOf[p] \in Nicks
  BY DEF IInv, TypeOK, Online
<1>2. Holder(nickOf[p], a, cache[nickOf[p]].age)
  BY <1>1 DEF IInv, CacheFine, EntryFine
<1> QED
  BY <1>2 DEF Holder, Holds, IInv, Net, Unique

LEMMA AskKnownHolds ==
  ASSUME IInv, NEW h \in Calls, NEW p \in People, NEW kind \in Kinds,
         AskKnown(h, p, kind)
  PROVE  IInv'
<1> DEFINE n == nickOf[p]
           c == Decided(kind, n, p, cache[n].acct)
<1>1. n \in Nicks
  BY DEF IInv, TypeOK, AskKnown, Request, Online
<1>2. cache[n] \in Entry /\ cache[n].age <= TtlOf(cache[n].acct)
  BY <1>1 DEF IInv, TypeOK, AskKnown, Fresh
<1>3. cache[n].acct \in Login /\ cache[n].age \in Nat
  BY <1>2 DEF Entry
<1>4. c \in CallState /\ (c = Idle \/ (c.pc = "acting" /\ c.acct = cache[n].acct /\ c.age = 0
                                         /\ c.set <= c.used))
  BY <1>1, <1>3, DecidedType
<1>5. cache[n].acct \in Accounts => Recently(cache[n].acct, TtlOf(cache[n].acct) + 0)
  <2> SUFFICES ASSUME cache[n].acct \in Accounts
               PROVE  Recently(cache[n].acct, TtlOf(cache[n].acct) + 0)
    OBVIOUS
  <2>1. PICK q \in People : since[q][cache[n].acct] <= cache[n].age
    BY <1>1 DEF IInv, CacheFine, EntryFine, Recently, AskKnown
  <2>2. since[q][cache[n].acct] \in Nat
    BY DEF IInv, TypeOK
  <2> QED
    BY <1>2, <1>3, <2>1, <2>2, TtlType DEF Recently
<1>6. CallFine(c)
  BY <1>4, <1>5, IdleFine DEF CallFine, Waiting
<1>7. /\ UNCHANGED <<network, ops, history>> /\ cache' = cache
      /\ call' = [call EXCEPT ![h] = c]
  BY DEF AskKnown, auth
<1> HIDE DEF c, n
<1> QED
  BY <1>1, <1>4, <1>6, <1>7, HandlerHolds, MissFine

LEMMA AskServerHolds ==
  ASSUME IInv, NEW h \in Calls, NEW p \in People, NEW kind \in Kinds,
         AskServer(h, p, kind)
  PROVE  IInv'
<1> DEFINE n == nickOf[p]
           c == [pc |-> "lookup", kind |-> kind, nick |-> n, by |-> p, info |-> NoAccount]
<1>1. n \in Nicks
  BY DEF IInv, TypeOK, AskServer, Request, Online
<1>2. c \in CallState
  BY <1>1, LookupType
<1>3. CallFine(c)
  BY DEF CallFine, Holds
<1>4. /\ UNCHANGED <<network, ops, history>> /\ cache' = [cache EXCEPT ![n] = Miss]
      /\ call' = [call EXCEPT ![h] = c]
  BY DEF AskServer
<1> HIDE DEF c, n
<1> QED
  BY <1>1, <1>2, <1>3, <1>4, HandlerHolds, MissFine

\* The server's answer is about the nick's holder at this moment.
LEMMA TruthNow ==
  ASSUME IInv, NEW n \in Nicks
  PROVE  /\ Truth(n) \in Login
         /\ Truth(n) \in Accounts => Holder(n, Truth(n), 0) /\ Recently(Truth(n), 0)
         /\ \A p \in People : Holds(p, n) => Truth(n) = login[p]
<1>1. CASE Free(n)
  BY <1>1, PeopleAssumption DEF Truth, Login, Free
<1>2. CASE ~Free(n)
  <2> DEFINE q == CHOOSE p \in People : Holds(p, n)
  <2>1. q \in People /\ Holds(q, n) /\ Truth(n) = login[q]
    BY <1>2 DEF Free, Truth
  <2> HIDE DEF q
  <2>2. \A p \in People : Holds(p, n) => p = q
    BY <2>1, PeopleAssumption DEF IInv, Net, Unique, Holds, Online
  <2>3. login[q] \in Login /\ (login[q] \in Accounts => since[q][login[q]] = 0)
    BY <2>1 DEF IInv, TypeOK, Net, LoginsKept
  <2> QED
    BY <2>1, <2>2, <2>3 DEF Holder, Recently
<1> QED
  BY <1>1, <1>2

LEMMA WhoisReplyHolds ==
  ASSUME IInv, NEW h \in Calls, WhoisReply(h)
  PROVE  IInv'
<1> DEFINE n == call[h].nick
           e == [acct |-> Truth(n), age |-> 0]
<1>1. PICK info \in {Truth(n), NoAccount} :
        call' = [call EXCEPT ![h].pc = "answered", ![h].info = info]
  BY DEF WhoisReply
<1> DEFINE c == [call[h] EXCEPT !.pc = "answered", !.info = info]
<1>2. call[h] \in CallState /\ call[h].pc \in Waiting /\ CallFine(call[h])
  BY DEF WhoisReply, Waiting, IInv, TypeOK, CallsFine
<1>3. n \in Nicks /\ call[h].by \in People
  BY <1>2, WaitingShape
<1>4. info \in Login
  BY <1>1, <1>3, TruthNow DEF Login
<1>5. /\ c \in CallState /\ c.pc = "answered" /\ c.info = info
      /\ c.nick = n /\ c.by = call[h].by
  BY <1>2, <1>4, WaitingShape
<1>6. CallFine(c)
  <2>1. info \in Accounts => info = Truth(n)
    BY <1>1, PeopleAssumption
  <2>2. n \notin blamed => Holds(call[h].by, n)
    BY <1>2 DEF CallFine
  <2>3. info \in Accounts /\ n \notin blamed => since[call[h].by][info] <= 0
    BY <1>3, <2>1, <2>2, TruthNow DEF IInv, Net, LoginsKept
  <2>4. info \in Accounts => Recently(info, 0)
    BY <1>3, <2>1, TruthNow
  <2> QED
    BY <1>5, <2>2, <2>3, <2>4 DEF CallFine
<1>7. call' = [call EXCEPT ![h] = c]
  BY <1>1, <1>2 DEF IInv, TypeOK
<1>8. CASE Truth(n) \in Accounts
  <2>1. cache' = [cache EXCEPT ![n] = e] /\ UNCHANGED <<network, ops, history>>
    BY <1>8 DEF WhoisReply, Remember
  <2>2. e \in Entry
    BY <1>3, TruthNow, EntryType
  <2>3. EntryFine(n, e)
    BY <1>3, <1>8, TruthNow DEF EntryFine
  <2> HIDE DEF c, e, n
  <2> QED
    BY <1>3, <1>5, <1>6, <1>7, <2>1, <2>2, <2>3, HandlerHolds
<1>9. CASE Truth(n) \notin Accounts
  <2>1. cache' = cache /\ UNCHANGED <<network, ops, history>>
    BY <1>9 DEF WhoisReply
  <2> HIDE DEF c, e, n
  <2> QED
    BY <1>3, <1>5, <1>6, <1>7, <2>1, HandlerHolds, MissFine
<1> QED
  BY <1>8, <1>9

LEMMA AnsweredHolds ==
  ASSUME IInv, NEW h \in Calls, Answered(h)
  PROVE  IInv'
<1> DEFINE w == call[h]
           e == [acct |-> w.info, age |-> 0]
           c == Decided(w.kind, w.nick, w.by, w.info)
<1>1. w \in CallState /\ w.pc = "answered" /\ CallFine(w)
  BY DEF Answered, IInv, TypeOK, CallsFine
<1>2. w.kind \in Kinds /\ w.nick \in Nicks /\ w.by \in People /\ w.info \in Login
  BY <1>1, WaitingShape DEF Waiting
<1>3. c \in CallState /\ (c = Idle \/ (c.pc = "acting" /\ c.acct = w.info /\ c.age = 0
                                         /\ c.set <= c.used))
  BY <1>2, DecidedType
<1>4. w.info \in Accounts => /\ Recently(w.info, 0)
                             /\ w.nick \notin blamed =>
                                  Holds(w.by, w.nick) /\ since[w.by][w.info] <= 0
  BY <1>1 DEF CallFine, Waiting
<1>5. CallFine(c)
  <2>1. w.info \in Accounts => Recently(w.info, TtlOf(w.info) + 0)
    BY <1>4, TtlType DEF Recently, IInv, TypeOK
  <2> QED
    BY <1>3, <2>1, IdleFine DEF CallFine, Waiting
<1>6. EntryFine(w.nick, e)
  BY <1>2, <1>4 DEF EntryFine, Holder
<1>7. /\ UNCHANGED <<network, ops, history>> /\ call' = [call EXCEPT ![h] = c]
      /\ cache' = [cache EXCEPT ![w.nick] = e]
  BY DEF Answered, Remember
<1>8. e \in Entry
  BY <1>2, EntryType
<1> HIDE DEF c, e, w
<1> QED
  BY <1>2, <1>3, <1>5, <1>6, <1>7, <1>8, HandlerHolds

LEMMA WhoisFailsHolds ==
  ASSUME IInv, NEW h \in Calls, WhoisFails(h)
  PROVE  IInv'
<1> DEFINE w == call[h]
           e == [acct |-> NoAccount, age |-> 0]
           c == Decided(w.kind, w.nick, w.by, NoAccount)
<1>1. w.kind \in Kinds /\ w.nick \in Nicks /\ w.by \in People
  BY WaitingShape DEF WhoisFails, Waiting, IInv, TypeOK
<1>2. c \in CallState /\ (c = Idle \/ (c.pc = "acting" /\ c.acct = NoAccount /\ c.set <= c.used))
  BY <1>1, DecidedType DEF Login
<1>3. CallFine(c)
  BY <1>2, IdleFine, PeopleAssumption DEF CallFine, Waiting
<1>4. e \in Entry /\ EntryFine(w.nick, e)
  BY EntryType, NoAccountFine DEF Login
<1>5. /\ UNCHANGED <<network, ops, history>> /\ call' = [call EXCEPT ![h] = c]
      /\ cache' = [cache EXCEPT ![w.nick] = e]
  BY DEF WhoisFails, Remember
<1> HIDE DEF c, e, w
<1> QED
  BY <1>1, <1>2, <1>3, <1>4, <1>5, HandlerHolds

LEMMA SetTopicHolds ==
  ASSUME IInv, NEW h \in Calls, SetTopic(h)
  PROVE  IInv'
<1>1. call[h] \in CallState /\ call[h].pc = "acting" /\ CallFine(call[h])
  BY DEF SetTopic, IInv, TypeOK, CallsFine
<1>2. PICK set \in {call[h].set, call[h].set + 1} :
        call' = [call EXCEPT ![h].used = @ + 1, ![h].set = set]
  BY DEF SetTopic
<1> DEFINE c == [call[h] EXCEPT !.used = @ + 1, !.set = set]
<1>3. /\ call[h].used \in 0..TopicCap /\ call[h].used < TopicCap
      /\ call[h].set \in 0..TopicCap /\ call[h].set <= call[h].used
      /\ call[h].nick \in Nicks
  BY <1>1, ActingShape DEF SetTopic, CapAllows, CallFine
<1>4. /\ call[h].used + 1 \in 0..TopicCap /\ set \in 0..TopicCap
      /\ set <= call[h].used + 1
  BY <1>2, <1>3, TimesAssumption
<1>5. /\ c \in CallState /\ c.pc = "acting" /\ c.acct = call[h].acct
      /\ c.age = call[h].age /\ c.set = set /\ c.used = call[h].used + 1
  <2>1. call[h] \in [pc: {"acting"}, kind: Kinds, nick: Nicks, by: People,
                     acct: Login, age: 0..MaxTurn, used: 0..TopicCap,
                     set: 0..TopicCap]
    BY <1>1, ActingShape
  <2>2. c \in [pc: {"acting"}, kind: Kinds, nick: Nicks, by: People,
               acct: Login, age: 0..MaxTurn, used: 0..TopicCap, set: 0..TopicCap]
    BY <1>4, <2>1
  <2> QED
    BY <1>1, <2>1, <2>2 DEF CallState
<1>6. CallFine(c)
  BY <1>1, <1>4, <1>5 DEF CallFine, Waiting
<1>7. call' = [call EXCEPT ![h] = c]
  BY <1>2 DEF IInv, TypeOK
<1>8. UNCHANGED <<network, ops, history>> /\ cache' = cache
  BY DEF SetTopic, auth
<1> HIDE DEF c
<1> QED
  BY <1>3, <1>5, <1>6, <1>7, <1>8, HandlerHolds, MissFine

LEMMA FinishHolds ==
  ASSUME IInv, NEW h \in Calls, Finish(h)
  PROVE  IInv'
<1>1. call[h] \in CallState /\ call[h].pc = "acting"
  BY DEF Finish, IInv, TypeOK
<1>2. call[h].nick \in Nicks
  BY <1>1, ActingShape
<1>3. Idle \in CallState
  BY DEF Idle, CallState
<1>4. /\ UNCHANGED <<network, ops, history>> /\ cache' = cache
      /\ call' = [call EXCEPT ![h] = Idle]
  BY DEF Finish, auth
<1> QED
  BY <1>2, <1>3, <1>4, IdleFine, HandlerHolds, MissFine

LEMMA EveryHandlerHolds ==
  ASSUME IInv, NEW h \in Calls, Handler(h)
  PROVE  IInv'
BY AskKnownHolds, AskServerHolds, WhoisReplyHolds, AnsweredHolds, WhoisFailsHolds,
   SetTopicHolds, FinishHolds DEF Handler

-----------------------------------------------------------------------------
(* What people do.  The handlers stand still, and no account gets older.   *)

\* A request stays about its sender: nothing happened to its nick, or it is
\* blamed now.
LEMMA CallsKept ==
  ASSUME IInv, UNCHANGED call,
         \A p \in People, a \in Accounts :
           since'[p][a] \in Nat /\ since'[p][a] <= since[p][a],
         \A n \in Nicks : Pending(n) /\ n \notin blamed' =>
           /\ n \notin blamed
           /\ \A p \in People : Holds(p, n) => nickOf'[p] = n
  PROVE  CallsFine'
<1> SUFFICES ASSUME NEW h \in Calls PROVE CallFine(call[h])'
  BY DEF CallsFine
<1> DEFINE c == call[h]
<1>1. c \in CallState /\ CallFine(c)
  BY DEF IInv, TypeOK, CallsFine
<1>2. \A a \in Accounts, t \in Nat :
        Recently(a, t) => \E p \in People : since'[p][a] <= t
  BY DEF Recently, IInv, TypeOK
<1>3. ASSUME c.pc \in Waiting, c.nick \notin blamed'
      PROVE  c.nick \notin blamed /\ Holds(c.by, c.nick) /\ nickOf'[c.by] = c.nick
  <2>1. Pending(c.nick) /\ c.nick \in Nicks /\ c.by \in People
    BY <1>1, <1>3, WaitingShape DEF Pending
  <2> QED
    BY <1>1, <1>3, <2>1 DEF CallFine
<1>4. ASSUME c.pc = "answered", c.info \in Accounts
      PROVE  /\ \E p \in People : since'[p][c.info] <= 0
             /\ c.nick \notin blamed' => since'[c.by][c.info] <= 0
  <2>1. c.by \in People /\ c.pc \in Waiting
    BY <1>1, <1>4, WaitingShape DEF Waiting
  <2>2. Recently(c.info, 0)
    BY <1>1, <1>4 DEF CallFine
  <2>3. c.nick \notin blamed' => since[c.by][c.info] <= 0
    BY <1>1, <1>3, <1>4, <2>1 DEF CallFine
  <2>4. \E p \in People : since'[p][c.info] <= 0
    BY <1>2, <1>4, <2>2 DEF Recently
  <2> QED
    BY <1>4, <2>1, <2>3, <2>4 DEF IInv, TypeOK
<1>5. ASSUME c.pc = "acting", c.acct \in Accounts
      PROVE  \E p \in People : since'[p][c.acct] <= TtlOf(c.acct) + c.age
  <2>1. c.age \in Nat
    BY <1>1, <1>5, ActingShape, TimesAssumption
  <2>2. TtlOf(c.acct) + c.age \in Nat
    BY <2>1, TtlType
  <2>3. Recently(c.acct, TtlOf(c.acct) + c.age)
    BY <1>1, <1>5 DEF CallFine
  <2> QED
    BY <1>2, <1>5, <2>2, <2>3
<1>6. c.pc = "acting" => c.set <= c.used
  BY <1>1 DEF CallFine
<1>7. call'[h] = c
  OBVIOUS
<1> HIDE DEF c
<1> QED
  BY <1>3, <1>4, <1>5, <1>6, <1>7 DEF CallFine, Holds, Recently, TtlOf

\* An entry and its nick are still about the same person.
LEMMA EntryKept ==
  ASSUME IInv, NEW n \in Nicks, NEW m \in Nicks, NEW e, EntryFine(n, e),
         Fresh(e) => e \in Entry,
         \A p \in People, a \in Accounts :
           since'[p][a] \in Nat /\ since'[p][a] <= since[p][a],
         m \notin blamed' =>
           /\ n \notin blamed
           /\ \A p \in People : Holds(p, n) => nickOf'[p] = m
  PROVE  Fresh(e) /\ e.acct \in Accounts =>
           /\ \E p \in People : since'[p][e.acct] <= e.age
           /\ m \notin blamed' =>
                \E p \in People : nickOf'[p] = m /\ since'[p][e.acct] <= e.age
<1> SUFFICES ASSUME Fresh(e), e.acct \in Accounts
             PROVE  /\ \E p \in People : since'[p][e.acct] <= e.age
                    /\ m \notin blamed' =>
                         \E p \in People : nickOf'[p] = m /\ since'[p][e.acct] <= e.age
  OBVIOUS
<1>1. e.age \in Nat
  BY DEF Entry
<1>2. \A p \in People : since[p][e.acct] \in Nat
  BY DEF IInv, TypeOK
<1>3. Recently(e.acct, e.age) /\ (n \notin blamed => Holder(n, e.acct, e.age))
  BY DEF EntryFine
<1> QED
  BY <1>1, <1>2, <1>3 DEF Recently, Holder, Holds

\* The steps after which AuthManager holds nothing that it did not hold
\* before: what it still holds on a nick is about the person who has it.
NoYounger ==
  \A p \in People, a \in Accounts : since'[p][a] \in Nat /\ since'[p][a] <= since[p][a]
Kept(n) ==
  n \notin blamed' =>
    n \notin blamed /\ \A p \in People : Holds(p, n) => nickOf'[p] = n

LEMMA OnlyForgets ==
  ASSUME IInv, UNCHANGED call, NoYounger, opped \subseteq opped', ops' \subseteq ops,
         \A n \in Nicks : cache'[n] \in {Miss, cache[n]},
         \A n \in Nicks : cache'[n] # Miss \/ n \in ops' \/ Pending(n) => Kept(n)
  PROVE  CallsFine' /\ CacheFine' /\ FlagsFine'
<1>1. CallsFine'
  BY CallsKept DEF NoYounger, Kept
<1>2. CacheFine'
  <2> SUFFICES ASSUME NEW n \in Nicks, Fresh(cache[n])', cache'[n].acct \in Accounts
               PROVE  /\ \E p \in People : since'[p][cache'[n].acct] <= cache'[n].age
                      /\ n \notin blamed' =>
                           \E p \in People : /\ nickOf'[p] = n
                                            /\ since'[p][cache'[n].acct] <= cache'[n].age
    BY DEF CacheFine, EntryFine, Recently, Holder, Holds
  <2>1. cache'[n] # Miss /\ cache'[n].age <= TtlOf(cache'[n].acct)
    BY DEF Fresh, TtlOf
  <2>2. cache'[n] = cache[n] /\ Kept(n)
    BY <2>1
  <2>3. EntryFine(n, cache[n]) /\ Fresh(cache[n]) /\ cache[n] \in Entry
    BY <2>1, <2>2 DEF IInv, TypeOK, CacheFine, Fresh
  <2> QED
    BY <2>2, <2>3, EntryKept DEF NoYounger, Kept
<1>3. FlagsFine'
  <2> SUFFICES ASSUME NEW n \in Nicks, n \notin blamed', n \in ops'
               PROVE  \E p \in opped' : nickOf'[p] = n
    BY DEF FlagsFine, FlagIsOwn, Holds
  <2>1. n \notin blamed /\ n \in ops /\ \A p \in People : Holds(p, n) => nickOf'[p] = n
    BY DEF Kept
  <2>2. PICK p \in opped : Holds(p, n)
    BY <2>1 DEF IInv, FlagsFine, FlagIsOwn
  <2> QED
    BY <2>1, <2>2 DEF IInv, TypeOK
<1> QED
  BY <1>1, <1>2, <1>3

LEMMA SameSince == IInv /\ UNCHANGED since => NoYounger
BY DEF IInv, TypeOK, NoYounger

LEMMA ConnectHolds ==
  ASSUME IInv, NEW p \in People, NEW m \in Nicks, Connect(p, m)
  PROVE  IInv'
<1>1. /\ UNCHANGED <<login, present, chanops, cache, ops, call, since, opped, blamed>>
      /\ ~Online(p) /\ Free(m) /\ nickOf' = [nickOf EXCEPT ![p] = m]
  BY DEF Connect, auth, history
<1>2. nickOf'[p] = m /\ \A q \in People \ {p} : nickOf'[q] = nickOf[q]
  BY <1>1 DEF IInv, TypeOK
<1>3. TypeOK'
  BY <1>1 DEF IInv, TypeOK
<1>4. Net'
  BY <1>1, <1>2, PeopleAssumption
     DEF IInv, TypeOK, Net, Unique, PresentOnline, LoginsKept, Online, Free, Holds
<1>5. \A n \in Nicks : Kept(n)
  BY <1>1, <1>2, PeopleAssumption DEF Kept, Holds, Online
<1>6. NoYounger /\ \A n \in Nicks : cache'[n] \in {Miss, cache[n]}
  BY <1>1, SameSince
<1>7. CallsFine' /\ CacheFine' /\ FlagsFine'
  BY <1>1, <1>5, <1>6, OnlyForgets
<1> QED
  BY <1>3, <1>4, <1>7 DEF IInv

LEMMA RenameUnseenHolds ==
  ASSUME IInv, NEW p \in People, NEW m \in Nicks, RenameUnseen(p, m)
  PROVE  IInv'
<1>1. /\ UNCHANGED <<login, present, chanops, cache, ops, call, since, opped>>
      /\ Online(p) /\ Free(m) /\ nickOf' = [nickOf EXCEPT ![p] = m]
      /\ blamed' = blamed \cup (IF Known(nickOf[p]) THEN {nickOf[p]} ELSE {})
  BY DEF RenameUnseen, auth
<1>2. nickOf'[p] = m /\ \A q \in People \ {p} : nickOf'[q] = nickOf[q]
  BY <1>1 DEF IInv, TypeOK
<1>3. TypeOK'
  BY <1>1 DEF IInv, TypeOK, Online
<1>4. Net'
  BY <1>1, <1>2, PeopleAssumption
     DEF IInv, TypeOK, Net, Unique, PresentOnline, LoginsKept, Online, Free, Holds
<1>5. ASSUME NEW n \in Nicks, cache'[n] # Miss \/ n \in ops' \/ Pending(n)
      PROVE  Kept(n)
  BY <1>1, <1>2, <1>5 DEF Kept, Holds, Known
<1>6. NoYounger /\ \A n \in Nicks : cache'[n] \in {Miss, cache[n]}
  BY <1>1, SameSince
<1>7. CallsFine' /\ CacheFine' /\ FlagsFine'
  BY <1>1, <1>5, <1>6, OnlyForgets
<1> QED
  BY <1>3, <1>4, <1>7 DEF IInv

\* Who goes offline is logged out and out of the channel.
LEMMA OfflineNet ==
  ASSUME IInv, NEW p \in People, Offline(p), UNCHANGED <<since, opped>>
  PROVE  /\ Net'
         /\ nickOf' \in [People -> Nicks \cup {Nobody}] /\ login' \in [People -> Login]
         /\ present' \in SUBSET People /\ chanops' \in SUBSET present'
         /\ \A q \in People \ {p} : nickOf'[q] = nickOf[q]
<1>1. /\ nickOf'[p] = Nobody /\ login'[p] = NoAccount
      /\ \A q \in People \ {p} : nickOf'[q] = nickOf[q] /\ login'[q] = login[q]
  BY DEF Offline, IInv, TypeOK
<1>2. Net'
  BY <1>1, PeopleAssumption
     DEF Offline, IInv, TypeOK, Net, Unique, PresentOnline, LoginsKept, Online
<1> QED
  BY <1>1, <1>2 DEF Offline, IInv, TypeOK, Login

LEMMA QuitSeenHolds ==
  ASSUME IInv, NEW p \in People, QuitSeen(p)
  PROVE  IInv'
<1> DEFINE n == nickOf[p]
<1>1. /\ UNCHANGED <<call, since, opped>> /\ Offline(p) /\ p \in present
      /\ cache' = [cache EXCEPT ![n] = Miss] /\ ops' = ops \ {n}
      /\ blamed' = (blamed \ {n}) \cup (IF Pending(n) THEN {n} ELSE {})
  BY DEF QuitSeen, Forgotten
<1>2. n \in Nicks
  BY <1>1 DEF IInv, TypeOK, Net, PresentOnline, Online
<1>3. TypeOK'
  BY <1>1, <1>2, OfflineNet DEF IInv, TypeOK
<1>4. cache'[n] = Miss /\ \A x \in Nicks \ {n} : cache'[x] = cache[x]
  BY <1>1, <1>2 DEF IInv, TypeOK
<1>5. ASSUME NEW x \in Nicks, cache'[x] # Miss \/ x \in ops' \/ Pending(x)
      PROVE  Kept(x)
  BY <1>1, <1>2, <1>4, <1>5, OfflineNet DEF Kept, Holds
<1>6. NoYounger /\ \A x \in Nicks : cache'[x] \in {Miss, cache[x]}
  BY <1>1, <1>4, SameSince
<1>7. CallsFine' /\ CacheFine' /\ FlagsFine'
  BY <1>1, <1>5, <1>6, OnlyForgets
<1> QED
  BY <1>1, <1>3, <1>7, OfflineNet DEF IInv

LEMMA QuitUnseenHolds ==
  ASSUME IInv, NEW p \in People, QuitUnseen(p)
  PROVE  IInv'
<1>1. /\ UNCHANGED <<cache, ops, call, since, opped>> /\ Offline(p) /\ Online(p)
      /\ blamed' = blamed \cup (IF Known(nickOf[p]) THEN {nickOf[p]} ELSE {})
  BY DEF QuitUnseen, auth
<1>2. TypeOK'
  BY <1>1, OfflineNet DEF IInv, TypeOK, Online
<1>3. ASSUME NEW x \in Nicks, cache'[x] # Miss \/ x \in ops' \/ Pending(x)
      PROVE  Kept(x)
  BY <1>1, <1>3, OfflineNet DEF Kept, Holds, Known
<1>4. NoYounger /\ \A x \in Nicks : cache'[x] \in {Miss, cache[x]}
  BY <1>1, SameSince
<1>5. CallsFine' /\ CacheFine' /\ FlagsFine'
  BY <1>1, <1>3, <1>4, OnlyForgets
<1> QED
  BY <1>1, <1>2, <1>5, OfflineNet DEF IInv

LEMMA ChannelHolds ==
  ASSUME IInv, NEW p \in People, Join(p) \/ Leave(p) \/ Away
  PROVE  IInv'
<1>1. /\ UNCHANGED <<nickOf, login, cache, call, since, opped, blamed>>
      /\ ops' \subseteq ops
  BY DEF Join, Leave, Away, auth, history
<1>2. TypeOK'
  BY <1>1 DEF Join, Leave, Away, IInv, TypeOK
<1>3. Net'
  BY <1>1 DEF Join, Leave, Away, IInv, TypeOK, Net, Unique, PresentOnline, LoginsKept,
              Online
<1>4. \A n \in Nicks : Kept(n) /\ cache'[n] \in {Miss, cache[n]}
  BY <1>1 DEF Kept, Holds
<1>5. CallsFine' /\ CacheFine' /\ FlagsFine'
  BY <1>1, <1>4, SameSince, OnlyForgets
<1> QED
  BY <1>2, <1>3, <1>5 DEF IInv

\* The flags are read anew: they are the channel's, who have all been opped.
LEMMA ResyncHolds ==
  ASSUME IInv, NEW p \in People, Mode(p) \/ Refresh
  PROVE  IInv'
<1>1. /\ UNCHANGED <<nickOf, login, present, cache, call, since, blamed>>
      /\ opped \subseteq opped' /\ opped' \subseteq People
      /\ chanops' \subseteq present /\ chanops' \subseteq opped'
      /\ ops' = {nickOf[q] : q \in chanops'}
  BY DEF Mode, Refresh, Resynced, network, history, IInv, TypeOK, Net
<1>2. TypeOK'
  <2>1. ops' \subseteq Nicks
    BY <1>1 DEF IInv, TypeOK, Net, PresentOnline, Online
  <2> QED
    BY <1>1, <2>1 DEF IInv, TypeOK
<1>3. Net'
  BY <1>1 DEF IInv, Net, Unique, PresentOnline, LoginsKept, Online
<1>4. CallsFine' /\ CacheFine'
  <2>1. CallsFine'
    BY <1>1, SameSince, CallsKept DEF NoYounger, Holds
  <2>2. CacheFine'
    BY <1>1 DEF IInv, CacheFine, EntryFine, Fresh, Recently, Holder, Holds
  <2> QED
    BY <2>1, <2>2
<1>5. FlagsFine'
  BY <1>1 DEF FlagsFine, FlagIsOwn, Holds
<1> QED
  BY <1>2, <1>3, <1>4, <1>5 DEF IInv

\* A rename that the bot sees: the entry and the flag go with the person.
LEMMA RenameSeenHolds ==
  ASSUME IInv, NEW p \in People, NEW m \in Nicks, RenameSeen(p, m)
  PROVE  IInv'
<1> DEFINE n == nickOf[p]
<1>1. /\ UNCHANGED <<login, present, chanops, call, since, opped>>
      /\ p \in present /\ Free(m) /\ nickOf' = [nickOf EXCEPT ![p] = m]
      /\ cache' = IF cache[n] = Miss THEN cache
                  ELSE [cache EXCEPT ![m] = cache[n], ![n] = Miss]
      /\ ops' = IF n \in ops THEN (ops \ {n}) \cup {m} ELSE ops
      /\ blamed' = (blamed \ {n}) \cup (IF Pending(n) THEN {n} ELSE {})
                     \cup (IF n \in blamed THEN {m} ELSE {})
  BY DEF RenameSeen, Renamed
<1>2. n \in Nicks /\ Online(p)
  BY <1>1 DEF IInv, TypeOK, Net, PresentOnline, Online
<1>3. m # n
  BY <1>1 DEF Free, Holds
<1>4. nickOf'[p] = m /\ \A q \in People \ {p} : nickOf'[q] = nickOf[q]
  BY <1>1 DEF IInv, TypeOK
<1>5. /\ cache'[n] = Miss
      /\ cache'[m] = cache[IF cache[n] = Miss THEN m ELSE n]
      /\ \A x \in Nicks \ {m, n} : cache'[x] = cache[x]
  BY <1>1, <1>2, <1>3 DEF IInv, TypeOK
<1>6. TypeOK'
  <2>1. cache' \in [Nicks -> {Miss} \cup Entry]
    BY <1>1, <1>2 DEF IInv, TypeOK
  <2>2. ops' \in SUBSET Nicks /\ blamed' \in SUBSET Nicks
    BY <1>1, <1>2 DEF IInv, TypeOK
  <2>3. nickOf' \in [People -> Nicks \cup {Nobody}]
    BY <1>1 DEF IInv, TypeOK
  <2> QED
    BY <1>1, <2>1, <2>2, <2>3 DEF IInv, TypeOK
<1>7. Net'
  BY <1>1, <1>2, <1>4, PeopleAssumption
     DEF IInv, TypeOK, Net, Unique, PresentOnline, LoginsKept, Online, Free, Holds
<1>8. NoYounger
  BY <1>1, SameSince
<1>9. \A q \in People : Holds(q, n) => q = p
  BY <1>2, PeopleAssumption DEF IInv, Net, Unique, Holds
<1>10. \A x \in Nicks \ {n} : Kept(x)
  BY <1>1, <1>3, <1>4 DEF Kept, Holds
<1>11. m \notin blamed' =>
         n \notin blamed /\ \A q \in People : Holds(q, n) => nickOf'[q] = m
  BY <1>1, <1>4, <1>9
<1>12. CallsFine'
  <2>1. \A x \in Nicks : Pending(x) => Kept(x)
    BY <1>1, <1>10 DEF Kept
  <2> QED
    BY <1>1, <1>8, <2>1, CallsKept DEF NoYounger, Kept
<1>13. CacheFine'
  <2> SUFFICES ASSUME NEW x \in Nicks, Fresh(cache[x])', cache'[x].acct \in Accounts
               PROVE  /\ \E q \in People : since'[q][cache'[x].acct] <= cache'[x].age
                      /\ x \notin blamed' =>
                           \E q \in People : /\ nickOf'[q] = x
                                            /\ since'[q][cache'[x].acct] <= cache'[x].age
    BY DEF CacheFine, EntryFine, Recently, Holder, Holds
  <2>1. cache'[x] # Miss /\ cache'[x].age <= TtlOf(cache'[x].acct) /\ x # n
    BY <1>5 DEF Fresh, TtlOf
  <2> DEFINE y == IF x = m /\ cache[n] # Miss THEN n ELSE x
  <2>2. y \in Nicks /\ cache'[x] = cache[y]
    BY <1>2, <1>5, <2>1
  <2>3. EntryFine(y, cache[y]) /\ Fresh(cache[y]) /\ cache[y] \in Entry
    BY <2>1, <2>2 DEF IInv, TypeOK, CacheFine, Fresh
  <2>4. x \notin blamed' =>
          y \notin blamed /\ \A q \in People : Holds(q, y) => nickOf'[q] = x
    BY <1>10, <1>11, <2>1 DEF Kept
  <2> HIDE DEF y
  <2> QED
    BY <1>8, <2>2, <2>3, <2>4, EntryKept DEF NoYounger
<1>14. FlagsFine'
  <2> SUFFICES ASSUME NEW x \in Nicks, x \notin blamed', x \in ops'
               PROVE  \E q \in opped : nickOf'[q] = x
    BY <1>1 DEF FlagsFine, FlagIsOwn, Holds
  <2>1. x # n
    BY <1>1, <1>3
  <2>2. CASE x \in ops
    BY <1>10, <2>1, <2>2 DEF IInv, TypeOK, FlagsFine, FlagIsOwn, Kept
  <2>3. CASE x = m /\ n \in ops
    <3>1. PICK q \in opped : Holds(q, n)
      BY <1>2, <1>11, <2>3 DEF IInv, FlagsFine, FlagIsOwn
    <3> QED
      BY <1>11, <2>3, <3>1 DEF IInv, TypeOK
  <2> QED
    BY <1>1, <2>2, <2>3
<1> QED
  BY <1>6, <1>7, <1>12, <1>13, <1>14 DEF IInv

LEMMA ServicesHolds ==
  ASSUME IInv, NEW p \in People, NEW acct \in Logins[p] \cup {NoAccount},
         Services(p, acct)
  PROVE  IInv'
<1> DEFINE n == nickOf[p]
           e == [acct |-> acct, age |-> 0]
<1>1. /\ UNCHANGED <<nickOf, present, chanops, ops, call, opped, blamed>>
      /\ Online(p) /\ login' = [login EXCEPT ![p] = acct]
      /\ since' = IF acct = NoAccount THEN since ELSE [since EXCEPT ![p][acct] = 0]
      /\ UNCHANGED cache \/ cache' = [cache EXCEPT ![n] = e]
  BY DEF Services, Remember
<1>2. acct \in Login /\ n \in Nicks /\ e \in Entry
  BY <1>1, PeopleAssumption, EntryType DEF Login, IInv, TypeOK, Online
<1>3. /\ acct \in Accounts => since'[p][acct] = 0
      /\ \A q \in People, a \in Accounts :
           since'[q][a] = 0 \/ since'[q][a] = since[q][a]
      /\ since' \in [People -> [Accounts -> 0..Ttl + MaxTurn + 1]]
  BY <1>1, <1>2, PeopleAssumption, TimesAssumption DEF IInv, TypeOK, Login
<1>4. NoYounger
  BY <1>3 DEF NoYounger, IInv, TypeOK
<1>5. TypeOK'
  <2>1. \A q \in People, a \in Accounts : since'[q][a] <= Old(a)'
    BY <1>3, TtlType, TimesAssumption DEF IInv, TypeOK, Old, TtlOf
  <2>2. cache' \in [Nicks -> {Miss} \cup Entry]
    BY <1>1, <1>2 DEF IInv, TypeOK
  <2> QED
    BY <1>1, <1>2, <1>3, <2>1, <2>2 DEF IInv, TypeOK
<1>6. Net'
  <2>1. LoginsKept'
    BY <1>1, <1>3 DEF IInv, TypeOK, Net, LoginsKept
  <2> QED
    BY <1>1, <2>1 DEF IInv, Net, Unique, PresentOnline, Online
<1>7. CallsFine'
  BY <1>1, <1>4, CallsKept DEF NoYounger, Holds
<1>8. CacheFine'
  <2> SUFFICES ASSUME NEW x \in Nicks, Fresh(cache[x])', cache'[x].acct \in Accounts
               PROVE  /\ \E q \in People : since'[q][cache'[x].acct] <= cache'[x].age
                      /\ x \notin blamed' =>
                           \E q \in People : /\ nickOf'[q] = x
                                            /\ since'[q][cache'[x].acct] <= cache'[x].age
    BY DEF CacheFine, EntryFine, Recently, Holder, Holds
  <2>1. CASE x = n /\ cache'[x] = e
    BY <1>1, <1>2, <1>3, <2>1
  <2>2. CASE cache'[x] = cache[x]
    <3>1. cache[x] # Miss /\ cache[x].age <= TtlOf(cache[x].acct)
      BY <2>2 DEF Fresh, TtlOf
    <3>2. EntryFine(x, cache[x]) /\ Fresh(cache[x]) /\ cache[x] \in Entry
      BY <3>1 DEF IInv, TypeOK, CacheFine, Fresh
    <3>3. x \notin blamed' =>
            x \notin blamed /\ \A q \in People : Holds(q, x) => nickOf'[q] = x
      BY <1>1 DEF Holds
    <3> QED
      BY <1>4, <2>2, <3>2, <3>3, EntryKept DEF NoYounger
  <2> QED
    BY <1>1, <2>1, <2>2 DEF IInv, TypeOK
<1>9. FlagsFine'
  BY <1>1 DEF IInv, FlagsFine, FlagIsOwn, Holds
<1> QED
  BY <1>5, <1>6, <1>7, <1>8, <1>9 DEF IInv

-----------------------------------------------------------------------------
(* A tick: everything gets older by the same.                              *)

LEMMA OlderType ==
  ASSUME NEW max \in Nat, NEW age \in 0..max
  PROVE  /\ Older(age, max) \in 0..max /\ Older(age, max) <= age + 1
         /\ Older(age, max) < max => Older(age, max) = age + 1
BY DEF Older

LEMMA TickAges ==
  ASSUME IInv, Tick, NEW p \in People, NEW a \in Accounts
  PROVE  /\ since'[p][a] \in 0..Ttl + MaxTurn + 1 /\ since'[p][a] <= Old(a)
         /\ since'[p][a] <= since[p][a] + 1
         /\ login[p] = a => since'[p][a] = 0
<1>1. Old(a) \in Nat /\ Old(a) <= Ttl + MaxTurn + 1
  BY TtlType, TimesAssumption DEF Old
<1>2. since[p][a] \in 0..Old(a)
  BY <1>1 DEF IInv, TypeOK
<1>3. Older(since[p][a], Old(a)) \in 0..Old(a)
      /\ Older(since[p][a], Old(a)) <= since[p][a] + 1
  BY <1>1, <1>2, OlderType
<1>4. since'[p][a] = IF login[p] = a THEN 0 ELSE Older(since[p][a], Old(a))
  BY DEF Tick
<1> QED
  BY <1>1, <1>2, <1>3, <1>4, TimesAssumption

LEMMA TickEntries ==
  ASSUME IInv, Tick, NEW n \in Nicks, cache[n] # Miss
  PROVE  /\ cache'[n] \in Entry /\ cache'[n].acct = cache[n].acct
         /\ cache'[n].age <= TtlOf(cache[n].acct) => cache'[n].age = cache[n].age + 1
<1> DEFINE e == cache[n]
           max == Expired(e.acct)
<1>1. e \in Entry
  BY DEF IInv, TypeOK
<1>2. e.acct \in Login /\ max \in Nat /\ e.age \in 0..max /\ max <= Ttl + 1
  BY <1>1, TtlType, TimesAssumption DEF Entry, Expired
<1>3. /\ Older(e.age, max) \in 0..max
      /\ Older(e.age, max) < max => Older(e.age, max) = e.age + 1
  BY <1>2, OlderType
<1>4. cache'[n] = [e EXCEPT !.age = Older(e.age, max)]
  BY DEF Tick
<1>5. cache'[n] = [acct |-> e.acct, age |-> Older(e.age, max)]
  BY <1>1, <1>4 DEF Entry
<1>6. max = TtlOf(e.acct) + 1 /\ TtlOf(e.acct) \in Nat
  BY TtlType DEF Expired
<1>7. cache'[n] \in Entry
  BY <1>2, <1>3, <1>5, TimesAssumption DEF Entry
<1> QED
  BY <1>3, <1>5, <1>6, <1>7

LEMMA TickCalls ==
  ASSUME IInv, Tick, NEW h \in Calls
  PROVE  /\ call'[h] \in CallState
         /\ \/ call'[h] = call[h] /\ call[h].pc \notin {"answered", "acting"}
            \/ /\ call[h].pc = "acting" /\ call'[h].pc = "acting"
               /\ call'[h].acct = call[h].acct /\ call'[h].age = call[h].age + 1
               /\ call'[h].set = call[h].set /\ call'[h].used = call[h].used
<1>1. call[h] \in CallState
  BY DEF IInv, TypeOK
<1>2. CASE call[h].pc # "acting"
  BY <1>1, <1>2 DEF Tick
<1>3. CASE call[h].pc = "acting"
  <2>1. call[h] \in [pc: {"acting"}, kind: Kinds, nick: Nicks, by: People,
                     acct: Login, age: 0..MaxTurn, used: 0..TopicCap,
                     set: 0..TopicCap]
    BY <1>1, <1>3, ActingShape
  <2>2. call'[h] = [call[h] EXCEPT !.age = call[h].age + 1]
    BY <1>3 DEF Tick
  <2>3. call[h].age + 1 \in 0..MaxTurn
    BY <1>3, <2>1, TimesAssumption DEF Tick
  <2>4. call'[h] \in [pc: {"acting"}, kind: Kinds, nick: Nicks, by: People,
                     acct: Login, age: 0..MaxTurn, used: 0..TopicCap,
                     set: 0..TopicCap]
    BY <2>1, <2>2, <2>3
  <2> QED
    BY <1>3, <2>1, <2>2, <2>4 DEF CallState
<1> QED
  BY <1>2, <1>3

LEMMA TickHolds ==
  ASSUME IInv, Tick
  PROVE  IInv'
<1>1. UNCHANGED <<nickOf, login, present, chanops, ops, opped, blamed>>
  BY DEF Tick, network
<1>2. TypeOK'
  <2>1. cache' \in [Nicks -> {Miss} \cup Entry]
    <3>1. \A n \in Nicks : cache'[n] \in {Miss} \cup Entry
      BY TickEntries DEF Tick
    <3> QED
      BY <3>1 DEF Tick
  <2>2. call' \in [Calls -> CallState]
    <3>1. \A h \in Calls : call'[h] \in CallState
      BY TickCalls
    <3> QED
      BY <3>1 DEF Tick
  <2>3. since' \in [People -> [Accounts -> 0..Ttl + MaxTurn + 1]]
    <3>1. \A p \in People, a \in Accounts : since'[p][a] \in 0..Ttl + MaxTurn + 1
      BY TickAges
    <3>2. since' = [p \in People |-> [a \in Accounts |->
                      IF login[p] = a THEN 0 ELSE Older(since[p][a], Old(a))]]
      BY DEF Tick
    <3>3. \A p \in People, a \in Accounts :
            (IF login[p] = a THEN 0 ELSE Older(since[p][a], Old(a)))
              \in 0..Ttl + MaxTurn + 1
      BY <3>1, <3>2
    <3> QED
      BY <3>2, <3>3
  <2>4. \A p \in People, a \in Accounts : since'[p][a] <= Old(a)'
    BY TickAges DEF Old, TtlOf
  <2> QED
    BY <1>1, <2>1, <2>2, <2>3, <2>4 DEF IInv, TypeOK
<1>3. Net'
  <2>1. LoginsKept'
    BY <1>1, TickAges DEF LoginsKept
  <2> QED
    BY <1>1, <2>1 DEF IInv, Net, Unique, PresentOnline, Online
<1>4. \A p \in People, a \in Accounts, t \in Nat :
        since[p][a] <= t => since'[p][a] <= t + 1
  <2> SUFFICES ASSUME NEW p \in People, NEW a \in Accounts, NEW t \in Nat,
                      since[p][a] <= t
               PROVE  since'[p][a] <= t + 1
    OBVIOUS
  <2>1. since'[p][a] \in Int /\ since'[p][a] <= since[p][a] + 1
    BY TickAges
  <2>2. since[p][a] \in Int
    BY DEF IInv, TypeOK
  <2> QED
    BY <2>1, <2>2
<1>5. CallsFine'
  <2> SUFFICES ASSUME NEW h \in Calls PROVE CallFine(call[h])'
    BY DEF CallsFine
  <2>1. CallFine(call[h]) /\ call[h] \in CallState
    BY DEF IInv, TypeOK, CallsFine
  <2>2. CASE call'[h] = call[h] /\ call[h].pc \notin {"answered", "acting"}
    BY <1>1, <2>1, <2>2 DEF CallFine, Holds
  <2>3. CASE /\ call[h].pc = "acting" /\ call'[h].pc = "acting"
             /\ call'[h].acct = call[h].acct /\ call'[h].age = call[h].age + 1
             /\ call'[h].set = call[h].set /\ call'[h].used = call[h].used
    <3>1. call[h].age \in Nat
      BY <2>1, <2>3, ActingShape, TimesAssumption
    <3> DEFINE t == TtlOf(call[h].acct) + call[h].age
    <3>2. t \in Nat /\ TtlOf(call[h].acct) + (call[h].age + 1) = t + 1
      BY <3>1, TtlType
    <3>3. call[h].acct \in Accounts => \E p \in People : since[p][call[h].acct] <= t
      BY <2>1, <2>3 DEF CallFine, Recently
    <3> HIDE DEF t
    <3>4. call[h].acct \in Accounts => \E p \in People : since'[p][call[h].acct] <= t + 1
      BY <1>4, <3>2, <3>3
    <3>5. TtlOf(call[h].acct)' = TtlOf(call'[h].acct)
      BY DEF TtlOf
    <3>6. call[h].set <= call[h].used
      BY <2>1, <2>3 DEF CallFine
    <3> QED
      BY <2>3, <3>2, <3>4, <3>5, <3>6 DEF CallFine, Recently, Waiting
  <2> QED
    BY <2>2, <2>3, TickCalls
<1>6. CacheFine'
  <2> SUFFICES ASSUME NEW n \in Nicks, Fresh(cache[n])', cache'[n].acct \in Accounts
               PROVE  /\ \E q \in People : since'[q][cache'[n].acct] <= cache'[n].age
                      /\ n \notin blamed' =>
                           \E q \in People : /\ nickOf'[q] = n
                                            /\ since'[q][cache'[n].acct] <= cache'[n].age
    BY DEF CacheFine, EntryFine, Recently, Holder, Holds
  <2>1. cache'[n] # Miss /\ cache'[n].age <= TtlOf(cache'[n].acct)
    BY DEF Fresh, TtlOf
  <2>2. cache[n] # Miss /\ cache[n] \in Entry
    BY <2>1 DEF Tick, IInv, TypeOK
  <2>3. cache'[n].acct = cache[n].acct /\ cache'[n].age = cache[n].age + 1
    BY <2>1, <2>2, TickEntries
  <2>4. cache[n].age \in Nat
    BY <2>2 DEF Entry
  <2>5. Fresh(cache[n]) /\ EntryFine(n, cache[n])
    <3>1. cache[n].age <= TtlOf(cache[n].acct)
      BY <2>1, <2>3, <2>4, TtlType
    <3> QED
      BY <2>2, <3>1 DEF IInv, CacheFine, Fresh
  <2> QED
    BY <1>1, <1>4, <2>3, <2>4, <2>5 DEF EntryFine, Recently, Holder, Holds
<1>7. FlagsFine'
  BY <1>1 DEF IInv, FlagsFine, FlagIsOwn, Holds
<1> QED
  BY <1>2, <1>3, <1>5, <1>6, <1>7 DEF IInv

LEMMA StutterHolds ==
  ASSUME IInv, UNCHANGED vars
  PROVE  IInv'
<1>1. /\ UNCHANGED <<nickOf, login, present, chanops, cache, ops, call>>
      /\ UNCHANGED <<since, opped, blamed>>
  BY DEF vars, network, auth, history
<1>2. TypeOK' /\ Net'
  BY <1>1 DEF IInv, TypeOK, Net, Unique, PresentOnline, LoginsKept, Online
<1>3. CallsFine'
  BY <1>1, SameSince, CallsKept DEF NoYounger, Holds
<1>4. CacheFine' /\ FlagsFine'
  BY <1>1 DEF IInv, CacheFine, EntryFine, Fresh, Recently, Holder, Holds, FlagsFine,
              FlagIsOwn
<1> QED
  BY <1>2, <1>3, <1>4 DEF IInv

LEMMA PersonHolds ==
  ASSUME IInv, NEW p \in People, Person(p)
  PROVE  IInv'
BY ConnectHolds, RenameSeenHolds, RenameUnseenHolds, QuitSeenHolds, QuitUnseenHolds,
   ChannelHolds, ResyncHolds, ServicesHolds DEF Person

\* Away and Refresh ask for nobody in particular; without people there is
\* nothing in the channel and no flag.
LEMMA NobodyHolds ==
  ASSUME IInv, Away \/ Refresh
  PROVE  IInv'
<1>1. CASE People # {}
  BY <1>1, ChannelHolds, ResyncHolds
<1>2. CASE People = {}
  <2>1. present = {} /\ chanops = {}
    BY <1>2 DEF IInv, TypeOK
  <2>2. Refresh
    BY <2>1 DEF Away
  <2>3. /\ UNCHANGED <<nickOf, login, present, chanops, cache, call, since, opped, blamed>>
        /\ ops' = {}
    BY <2>1, <2>2 DEF Refresh, Resynced, network, history
  <2>4. TypeOK' /\ Net'
    BY <2>3 DEF IInv, TypeOK, Net, Unique, PresentOnline, LoginsKept, Online
  <2>5. CallsFine'
    BY <2>3, SameSince, CallsKept DEF NoYounger, Holds
  <2>6. CacheFine' /\ FlagsFine'
    BY <2>3 DEF IInv, CacheFine, EntryFine, Fresh, Recently, Holder, Holds, FlagsFine,
                FlagIsOwn
  <2> QED
    BY <2>4, <2>5, <2>6 DEF IInv
<1> QED
  BY <1>1, <1>2

LEMMA ReadHolds ==
  ASSUME IInv, NEW n \in Nicks, Read(n)
  PROVE  IInv'
<1>1. /\ UNCHANGED <<nickOf, login, present, chanops, ops, call, since, opped, blamed>>
      /\ cache' = [cache EXCEPT ![n] = Miss]
  BY DEF Read, network, history
<1>2. TypeOK' /\ Net'
  BY <1>1 DEF IInv, TypeOK, Net, Unique, PresentOnline, LoginsKept, Online
<1>3. CallsFine'
  BY <1>1, SameSince, CallsKept DEF NoYounger, Holds
<1>4. \A x \in Nicks : cache'[x] \in {Miss, cache[x]}
  BY <1>1 DEF IInv, TypeOK
<1>5. CacheFine'
  BY <1>1, <1>4 DEF IInv, CacheFine, EntryFine, Fresh, Recently, Holder, Holds
<1>6. FlagsFine'
  BY <1>1 DEF IInv, FlagsFine, FlagIsOwn, Holds
<1> QED
  BY <1>2, <1>3, <1>5, <1>6 DEF IInv

LEMMA NextHolds == IInv /\ [Next]_vars => IInv'
BY EveryHandlerHolds, PersonHolds, NobodyHolds, ReadHolds, TickHolds, StutterHolds DEF Next

LEMMA Inductive == Spec => []IInv
BY InitHolds, NextHolds, PTL DEF Spec

-----------------------------------------------------------------------------
(* How a request comes to be granted.                                      *)

LEMMA WhoMoves ==
  ASSUME IInv, [Next]_vars, NEW h \in Calls
  PROVE  call'[h] = call[h] \/ Handler(h) \/ Tick
<1>1. ASSUME NEW k \in Calls, Handler(k), k # h PROVE call'[h] = call[h]
  BY <1>1 DEF Handler, AskKnown, AskServer, WhoisReply, Answered, WhoisFails,
              SetTopic, Finish, IInv, TypeOK
<1>2. ASSUME NEW p \in People, Person(p) PROVE call'[h] = call[h]
  BY <1>2 DEF Person, Connect, RenameSeen, RenameUnseen, QuitSeen, QuitUnseen, Join,
              Leave, Mode, Services
<1>3. ASSUME Away \/ Refresh \/ (\E n \in Nicks : Read(n)) PROVE call'[h] = call[h]
  BY <1>3 DEF Away, Refresh, Read
<1>4. ASSUME UNCHANGED vars PROVE call'[h] = call[h]
  BY <1>4 DEF vars
<1> QED
  BY <1>1, <1>2, <1>3, <1>4 DEF Next

\* Under an account it is granted on an entry that was fresh or on an answer
\* that has just come.
LEMMA GrantedHow ==
  ASSUME IInv, [Next]_vars, NEW h \in Calls, NEW a \in Accounts, Grants(h, a)
  PROVE  /\ UNCHANGED <<since, blamed>> /\ call'[h].age = 0
         /\ \/ \E p \in People :
                /\ Online(p) /\ call'[h].nick = nickOf[p] /\ call'[h].by = p
                /\ Fresh(cache[nickOf[p]]) /\ cache[nickOf[p]].acct = a
            \/ /\ call[h].pc = "answered" /\ call[h].info = a
               /\ call'[h].nick = call[h].nick /\ call'[h].by = call[h].by
<1>1. call[h].pc # "acting" /\ call'[h].pc = "acting" /\ call'[h].acct = a
  BY DEF Grants
<1>2. Handler(h)
  BY <1>1, WhoMoves, TickCalls
<1>3. Idle.pc # "acting" /\ a # NoAccount
  BY PeopleAssumption DEF Idle
<1>4. ASSUME NEW p \in People, NEW kind \in Kinds, AskKnown(h, p, kind)
      PROVE  /\ UNCHANGED <<since, blamed>> /\ call'[h].age = 0
             /\ Online(p) /\ call'[h].nick = nickOf[p] /\ call'[h].by = p
             /\ Fresh(cache[nickOf[p]]) /\ cache[nickOf[p]].acct = a
  <2> DEFINE n == nickOf[p]
  <2>1. call'[h] = Decided(kind, n, p, cache[n].acct) /\ Online(p) /\ Fresh(cache[n])
    BY <1>4 DEF AskKnown, Request, IInv, TypeOK
  <2>2. n \in Nicks /\ cache[n] \in Entry
    BY <2>1 DEF IInv, TypeOK, Online, Fresh
  <2>3. cache[n].acct \in Login
    BY <2>2 DEF Entry
  <2>4. /\ call'[h].acct = cache[n].acct /\ call'[h].nick = n /\ call'[h].by = p
        /\ call'[h].age = 0
    BY <1>1, <1>3, <2>1, <2>2, <2>3, DecidedType
  <2> QED
    BY <1>1, <1>4, <2>1, <2>4 DEF AskKnown, history
<1>5. ASSUME Answered(h)
      PROVE  /\ UNCHANGED <<since, blamed>> /\ call'[h].age = 0
             /\ call[h].pc = "answered" /\ call[h].info = a
             /\ call'[h].nick = call[h].nick /\ call'[h].by = call[h].by
  <2> DEFINE w == call[h]
  <2>1. /\ w.pc = "answered" /\ call'[h] = Decided(w.kind, w.nick, w.by, w.info)
        /\ w \in CallState
    BY <1>5 DEF Answered, IInv, TypeOK
  <2>2. w.kind \in Kinds /\ w.nick \in Nicks /\ w.by \in People /\ w.info \in Login
    BY <2>1, WaitingShape DEF Waiting
  <2>3. /\ call'[h].acct = w.info /\ call'[h].nick = w.nick /\ call'[h].by = w.by
        /\ call'[h].age = 0
    BY <1>1, <1>3, <2>1, <2>2, DecidedType
  <2> QED
    BY <1>1, <1>5, <2>1, <2>3 DEF Answered, history
<1>6. ~WhoisFails(h)
  <2> SUFFICES ASSUME WhoisFails(h) PROVE FALSE
    OBVIOUS
  <2> DEFINE w == call[h]
  <2>1. /\ w.pc \in Waiting /\ call'[h] = Decided(w.kind, w.nick, w.by, NoAccount)
        /\ w \in CallState
    BY DEF WhoisFails, IInv, TypeOK, Waiting
  <2>2. w.kind \in Kinds /\ w.nick \in Nicks /\ w.by \in People /\ NoAccount \in Login
    BY <2>1, WaitingShape DEF Login
  <2> QED
    BY <1>1, <1>3, <2>1, <2>2, DecidedType
<1>7. \A p \in People, kind \in Kinds : ~AskServer(h, p, kind)
  BY <1>1 DEF AskServer, IInv, TypeOK
<1>8. ~WhoisReply(h)
  <2> SUFFICES ASSUME WhoisReply(h) PROVE FALSE
    OBVIOUS
  <2>1. call[h] \in CallState /\ call[h].pc \in Waiting
    BY DEF WhoisReply, IInv, TypeOK, Waiting
  <2>2. PICK info \in {Truth(call[h].nick), NoAccount} :
          call' = [call EXCEPT ![h].pc = "answered", ![h].info = info]
    BY DEF WhoisReply
  <2>3. info \in Login
    BY <2>1, <2>2, WaitingShape, TruthNow DEF Login
  <2>4. call'[h] = [call[h] EXCEPT !.pc = "answered", !.info = info]
    BY <2>2 DEF IInv, TypeOK
  <2> QED
    BY <1>1, <2>1, <2>3, <2>4, WaitingShape
<1>9. ~SetTopic(h) /\ ~Finish(h)
  BY <1>1 DEF SetTopic, Finish
<1> QED
  BY <1>2, <1>4, <1>5, <1>6, <1>7, <1>8, <1>9 DEF Handler

\* Whoever is granted a request holds its nick, if that is not blamed, and the
\* policy of its kind allows the nick and the account.
Admits(h) == call[h].pc # "acting" /\ call'[h].pc = "acting"
LEMMA AdmittedHow ==
  ASSUME IInv, [Next]_vars, NEW h \in Calls, Admits(h)
  PROVE  LET c == call'[h] IN
         /\ UNCHANGED <<nickOf, ops, since, opped, blamed>>
         /\ c.kind \in Kinds /\ c.nick \in Nicks /\ c.by \in People /\ c.acct \in Login
         /\ Allows(c.kind, c.nick, c.acct)
         /\ c.nick \notin blamed => Holds(c.by, c.nick)
<1>1. call[h].pc # "acting" /\ call'[h].pc = "acting"
  BY DEF Admits
<1>2. Handler(h)
  BY <1>1, WhoMoves, TickCalls
<1> DEFINE Shown(c) ==
             /\ c.kind \in Kinds /\ c.nick \in Nicks /\ c.by \in People /\ c.acct \in Login
             /\ Allows(c.kind, c.nick, c.acct)
             /\ c.nick \notin blamed => Holds(c.by, c.nick)
<1>3. ASSUME NEW kind \in Kinds, NEW n \in Nicks, NEW p \in People, NEW acct \in Login,
             call'[h] = Decided(kind, n, p, acct), n \notin blamed => Holds(p, n)
      PROVE  Shown(call'[h])
  <2>1. Allows(kind, n, acct)
    BY <1>1, <1>3 DEF Decided, Idle
  <2>2. call'[h] = [pc |-> "acting", kind |-> kind, nick |-> n, by |-> p, acct |-> acct,
                    age |-> 0, used |-> 0, set |-> 0]
    BY <1>3, <2>1 DEF Decided
  <2> QED
    BY <1>3, <2>1, <2>2
<1>4. ASSUME NEW p \in People, NEW kind \in Kinds, AskKnown(h, p, kind)
      PROVE  Shown(call'[h]) /\ UNCHANGED <<nickOf, ops, since, opped, blamed>>
  <2> DEFINE n == nickOf[p]
  <2>1. call'[h] = Decided(kind, n, p, cache[n].acct) /\ Online(p) /\ Fresh(cache[n])
    BY <1>4 DEF AskKnown, Request, IInv, TypeOK
  <2>2. n \in Nicks /\ cache[n] \in Entry
    BY <2>1 DEF IInv, TypeOK, Online, Fresh
  <2>3. cache[n].acct \in Login /\ Holds(p, n)
    BY <2>2 DEF Entry, Holds
  <2>4. Shown(call'[h])
    BY <1>3, <2>1, <2>2, <2>3
  <2> QED
    BY <1>4, <2>4 DEF AskKnown, network, auth, history
<1>5. ASSUME Answered(h) \/ WhoisFails(h)
      PROVE  Shown(call'[h]) /\ UNCHANGED <<nickOf, ops, since, opped, blamed>>
  <2> DEFINE w == call[h]
  <2>1. /\ w.pc \in Waiting /\ w \in CallState /\ CallFine(w)
        /\ call'[h] \in {Decided(w.kind, w.nick, w.by, w.info),
                         Decided(w.kind, w.nick, w.by, NoAccount)}
    BY <1>5 DEF Answered, WhoisFails, IInv, TypeOK, CallsFine, Waiting
  <2>2. /\ w.kind \in Kinds /\ w.nick \in Nicks /\ w.by \in People /\ w.info \in Login
        /\ NoAccount \in Login
    BY <2>1, WaitingShape DEF Login
  <2>3. w.nick \notin blamed => Holds(w.by, w.nick)
    BY <2>1 DEF CallFine
  <2>4. Shown(call'[h])
    BY <1>3, <2>1, <2>2, <2>3
  <2> QED
    BY <1>5, <2>4 DEF Answered, WhoisFails, network, history
<1>6. \A p \in People, kind \in Kinds : ~AskServer(h, p, kind)
  BY <1>1 DEF AskServer, IInv, TypeOK
<1>7. ~WhoisReply(h)
  <2> SUFFICES ASSUME WhoisReply(h) PROVE FALSE
    OBVIOUS
  <2>1. call[h] \in CallState /\ call[h].pc \in Waiting
    BY DEF WhoisReply, IInv, TypeOK, Waiting
  <2>2. PICK info \in {Truth(call[h].nick), NoAccount} :
          call' = [call EXCEPT ![h].pc = "answered", ![h].info = info]
    BY DEF WhoisReply
  <2>3. info \in Login
    BY <2>1, <2>2, WaitingShape, TruthNow DEF Login
  <2>4. call'[h] = [call[h] EXCEPT !.pc = "answered", !.info = info]
    BY <2>2 DEF IInv, TypeOK
  <2> QED
    BY <1>1, <2>1, <2>3, <2>4, WaitingShape
<1>8. ~SetTopic(h) /\ ~Finish(h)
  BY <1>1 DEF SetTopic, Finish
<1> QED
  BY <1>2, <1>4, <1>5, <1>6, <1>7, <1>8 DEF Handler

\* What a request is granted under, its own sender had that recently.
LEMMA GrantIsOwn ==
  ASSUME IInv, [Next]_vars, NEW h \in Calls, NEW a \in Accounts,
         Grants(h, a), call'[h].nick \notin blamed'
  PROVE  since'[call'[h].by][a] <= TtlOf(a)
<1>1. UNCHANGED <<since, blamed>> /\ TtlOf(a) \in Nat
  BY GrantedHow, TtlType
<1>2. ASSUME NEW p \in People, Online(p), call'[h].nick = nickOf[p], call'[h].by = p,
             Fresh(cache[nickOf[p]]), cache[nickOf[p]].acct = a
      PROVE  since'[call'[h].by][a] <= TtlOf(a)
  <2>1. since[p][a] <= cache[nickOf[p]].age
    BY <1>1, <1>2, HolderIsSender
  <2>2. nickOf[p] \in Nicks
    BY <1>2 DEF IInv, TypeOK, Online
  <2>3. cache[nickOf[p]] \in Entry /\ cache[nickOf[p]].age <= TtlOf(a)
    BY <1>2, <2>2 DEF IInv, TypeOK, Fresh
  <2>4. cache[nickOf[p]].age \in Int /\ since[p][a] \in Int
    BY <2>3 DEF Entry, IInv, TypeOK
  <2> QED
    BY <1>1, <1>2, <2>1, <2>3, <2>4
<1>3. ASSUME call[h].pc = "answered", call[h].info = a,
             call'[h].nick = call[h].nick, call'[h].by = call[h].by
      PROVE  since'[call'[h].by][a] <= TtlOf(a)
  <2>1. call[h] \in CallState /\ CallFine(call[h])
    BY DEF IInv, TypeOK, CallsFine
  <2>2. since[call[h].by][a] <= 0 /\ call[h].by \in People
    BY <1>1, <1>3, <2>1, WaitingShape DEF CallFine, Waiting
  <2>3. since[call[h].by][a] \in Int
    BY <2>2 DEF IInv, TypeOK
  <2> QED
    BY <1>1, <1>3, <2>2, <2>3
<1> QED
  BY <1>2, <1>3, GrantedHow

\* A turn keeps the account it started with.
LEMMA TurnKeepsAccount ==
  ASSUME IInv, [Next]_vars, NEW h \in Calls, call[h].pc = "acting", call'[h].pc = "acting"
  PROVE  call'[h].acct = call[h].acct
<1>1. call[h] \in CallState
  BY DEF IInv, TypeOK
<1>2. CASE SetTopic(h)
  <2>1. call[h] \in [pc: {"acting"}, kind: Kinds, nick: Nicks, by: People,
                     acct: Login, age: 0..MaxTurn, used: 0..TopicCap,
                     set: 0..TopicCap]
    BY <1>1, ActingShape
  <2> QED
    BY <1>2, <2>1 DEF SetTopic, IInv, TypeOK
<1>3. CASE Finish(h)
  BY <1>3 DEF Finish, Idle, IInv, TypeOK
<1>4. ~WhoisReply(h) /\ ~Answered(h) /\ ~WhoisFails(h)
  BY DEF WhoisReply, Answered, WhoisFails
<1>5. \A p \in People, kind \in Kinds : ~AskKnown(h, p, kind) /\ ~AskServer(h, p, kind)
  BY DEF AskKnown, AskServer, Request
<1> QED
  BY <1>2, <1>3, <1>4, <1>5, WhoMoves, TickCalls DEF Handler

-----------------------------------------------------------------------------
(* The theorems.                                                           *)

\* Every variable keeps to its type; in particular the cap of set_topic holds
\* in each turn, and no op flag or entry is filed under anything but a nick.
THEOREM TypeCorrect == Spec => []TypeOK
<1>1. IInv => TypeOK
  BY DEF IInv
<1> QED
  BY <1>1, Inductive, PTL

\* Whatever AuthManager holds on a nick is about the person who has the nick,
\* unless the nick changed hands where the bot could not see it, or while it
\* asked the server about it (rename, forget_user and the hooks that call them).
THEOREM NothingInherited == Spec => []NoInheritance
<1>1. IInv => NoInheritance
  BY FineIsOwn DEF IInv
<1> QED
  BY <1>1, Inductive, PTL

\* No request is granted, and no topic set, under an account that nobody has
\* been logged in to for longer than its entries live and a turn lasts
\* (OPERATOR_CACHE_TTL_SEC for an operator's).
THEOREM RankStaysRecent == Spec => RankIsRecent
<1>1. IInv /\ IInv' /\ [Next]_vars =>
        [\A h \in Calls, a \in Accounts :
           /\ Grants(h, a) => \E p \in People : since'[p][a] <= TtlOf(a)
           /\ call[h].pc = "acting" /\ call'[h].pc = "acting" /\ call[h].acct = a
                /\ call'[h].set > call[h].set
                => \E p \in People : since'[p][a] <= TtlOf(a) + MaxTurn]_vars
  <2> SUFFICES ASSUME IInv, IInv', [Next]_vars, NEW h \in Calls, NEW a \in Accounts
               PROVE  /\ Grants(h, a) => \E p \in People : since'[p][a] <= TtlOf(a)
                      /\ call[h].pc = "acting" /\ call'[h].pc = "acting"
                           /\ call[h].acct = a /\ call'[h].set > call[h].set
                           => \E p \in People : since'[p][a] <= TtlOf(a) + MaxTurn
    OBVIOUS
  <2>1. call'[h].pc = "acting" /\ call'[h].acct = a =>
          \E p \in People : since'[p][a] <= TtlOf(a) + call'[h].age
    BY DEF IInv, CallsFine, CallFine, Recently, TtlOf
  <2>2. TtlOf(a) \in Nat
    BY TtlType
  <2>3. ASSUME Grants(h, a) PROVE \E p \in People : since'[p][a] <= TtlOf(a)
    <3>1. call'[h].pc = "acting" /\ call'[h].acct = a /\ call'[h].age = 0
      BY <2>3, GrantedHow DEF Grants
    <3> QED
      BY <2>1, <2>2, <3>1
  <2>4. ASSUME call[h].pc = "acting", call'[h].pc = "acting", call[h].acct = a
        PROVE  \E p \in People : since'[p][a] <= TtlOf(a) + MaxTurn
    <3>1. call'[h].acct = a
      BY <2>4, TurnKeepsAccount
    <3>2. call'[h] \in CallState
      BY DEF IInv, TypeOK
    <3>3. call'[h].age \in 0..MaxTurn
      BY <2>4, <3>2, ActingShape
    <3>4. PICK p \in People : since'[p][a] <= TtlOf(a) + call'[h].age
      BY <2>1, <2>4, <3>1
    <3>5. since'[p][a] \in Int
      BY DEF IInv, TypeOK
    <3> QED
      BY <2>2, <3>3, <3>4, <3>5, TimesAssumption
  <2> QED
    BY <2>3, <2>4
<1> QED
  BY <1>1, Inductive, PTL DEF Spec, RankIsRecent

\* Who takes over a nick does not take over its account: a request is granted
\* under an account that its own sender had that recently, with the same
\* exception as above (_ensure_account_known and its callers).
THEOREM RankStaysOwn == Spec => RankIsOwn
<1>1. IInv /\ [Next]_vars =>
        [\A h \in Calls, a \in Accounts :
           Grants(h, a) /\ call'[h].nick \notin blamed'
             => since'[call'[h].by][a] <= TtlOf(a)]_vars
  BY GrantIsOwn
<1> QED
  BY <1>1, Inductive, PTL DEF Spec, RankIsOwn

\* What the policies are for, with the same exception: whoever makes the bot
\* quit was an operator within the lifetime of an operator's entry; whoever is
\* let through the DM gate was one, or had an account of the allowlist, unless
\* the gate is open to all; whoever is let give a task was an operator, or an op
\* of the channel at some time, as far as task_issuers asks for it
\* (_should_engage_dm, can_issue_tasks and the check of !quit).
OperatorLately(p) == \E a \in Operators : since'[p][a] <= OpTtl
AllowedLately(p) == \E a \in Allowed : since'[p][a] <= Ttl
Entitled(kind, p) ==
  /\ kind = "quit" => OperatorLately(p)
  /\ kind = "dm" =>
       \/ DmMode = "all"
       \/ DmMode \in {"operators", "allowlist"} /\ OperatorLately(p)
       \/ DmMode = "allowlist" /\ AllowedLately(p)
  /\ kind = "task" =>
       \/ TaskIssuers = "all"
       \/ TaskIssuers \in {"ops", "operator"} /\ OperatorLately(p)
       \/ TaskIssuers = "ops" /\ p \in opped'
PrivilegeIsOwn ==
  [][\A h \in Calls :
       Admits(h) /\ call'[h].nick \notin blamed'
         => Entitled(call'[h].kind, call'[h].by)]_vars

THEOREM PrivilegeStaysOwn == Spec => PrivilegeIsOwn
<1>1. ASSUME IInv, [Next]_vars, NEW h \in Calls,
             Admits(h), call'[h].nick \notin blamed'
      PROVE  Entitled(call'[h].kind, call'[h].by)
  <2> DEFINE c == call'[h]
  <2>1. /\ UNCHANGED <<nickOf, ops, since, opped, blamed>>
        /\ c.kind \in Kinds /\ c.nick \in Nicks /\ c.by \in People /\ c.acct \in Login
        /\ Allows(c.kind, c.nick, c.acct)
        /\ c.nick \notin blamed => Holds(c.by, c.nick)
    BY <1>1, AdmittedHow
  <2>2. c.acct \in Accounts => since'[c.by][c.acct] <= TtlOf(c.acct)
    BY <1>1, GrantIsOwn DEF Admits, Grants
  <2>3. c.acct \in Operators => OperatorLately(c.by)
    BY <2>2, PeopleAssumption DEF OperatorLately, TtlOf
  <2>4. c.acct \in Allowed => AllowedLately(c.by)
    <3> SUFFICES ASSUME c.acct \in Allowed PROVE since'[c.by][c.acct] <= Ttl
      BY DEF AllowedLately
    <3>1. c.acct \in Accounts
      BY PeopleAssumption
    <3>2. since'[c.by][c.acct] \in Int
      BY <2>1, <3>1, <1>1 DEF IInv, TypeOK
    <3> QED
      BY <2>2, <3>1, <3>2, TtlType, TimesAssumption
  <2>5. c.nick \in ops => c.by \in opped'
    <3> SUFFICES ASSUME c.nick \in ops PROVE c.by \in opped'
      OBVIOUS
    <3>1. PICK q \in opped : Holds(q, c.nick)
      BY <1>1, <2>1 DEF IInv, FlagsFine, FlagIsOwn
    <3>2. q \in People /\ Holds(c.by, c.nick) /\ c.nick # Nobody
      BY <1>1, <2>1, PeopleAssumption DEF IInv, TypeOK
    <3>3. q = c.by
      BY <1>1, <2>1, <3>1, <3>2 DEF IInv, Net, Unique, Holds, Online
    <3> QED
      BY <2>1, <3>1, <3>3
  <2> HIDE DEF c
  <2>6. c.kind = "quit" => c.acct \in Operators
    BY <2>1 DEF Allows
  <2>7. c.kind = "dm" => DmAllows(c.acct)
    BY <2>1 DEF Allows
  <2>8. c.kind = "task" => CanIssueTasks(c.nick, c.acct)
    BY <2>1 DEF Allows
  <2>9. Entitled(c.kind, c.by)
    BY <2>3, <2>4, <2>5, <2>6, <2>7, <2>8 DEF Entitled, DmAllows, CanIssueTasks
  <2> QED
    BY <2>9 DEF c
<1>2. IInv /\ [Next]_vars =>
        [\A h \in Calls :
           Admits(h) /\ call'[h].nick \notin blamed'
             => Entitled(call'[h].kind, call'[h].by)]_vars
  BY <1>1
<1> QED
  BY <1>2, Inductive, PTL DEF Spec, PrivilegeIsOwn
=============================================================================
