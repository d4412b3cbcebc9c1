------------------------------ MODULE Identity ------------------------------
(***************************************************************************)
(* Who a request is taken to come from: the account cache and the op flags *)
(* of AuthManager (src/bot/auth.py), the IRC events that keep them current *)
(* and the WHOIS that fills them (src/bot/ircclient.py), the policies that *)
(* read them (src/bot/policy.py) and set_topic, the tool that reads them   *)
(* again in the middle of a turn (src/bot/tools/irc_native.py).            *)
(*                                                                         *)
(* The bot knows people by nick only.  It hears a nick change hands when   *)
(* the person is in its channel, and not otherwise: an entry of the cache  *)
(* can then be about somebody else than the nick's holder.  The ghost set  *)
(* `blamed' holds the nicks to which that has happened.                    *)
(*                                                                         *)
(* Time is counted in ticks.  A cache entry has an age, time.monotonic() - *)
(* fetched, counted until it has expired.  A tick is longer than the event *)
(* loop takes to resume a coroutine whose WHOIS has been answered; the     *)
(* WHOIS itself may take any number of ticks.                              *)
(***************************************************************************)
EXTENDS Integers, FiniteSets

CONSTANTS
  People,       \* the people on the network
  Nicks,        \* the nicks they use
  Accounts,     \* services accounts
  Logins,       \* the accounts each person has the password of
  Operators,    \* operator_accounts
  Allowed,      \* cfg.dm.allowed_accounts
  DmMode,       \* cfg.dm.mode: "ignore", "all", "operators", "allowlist"
  TaskIssuers,  \* task_issuers: "all", "ops", "operator"; "locked" if the mode is
  OpTtl,        \* OPERATOR_CACHE_TTL_SEC, in ticks
  Ttl,          \* CACHE_TTL_SEC, in ticks
  TopicCap,     \* _TIER5_PER_TURN_CAPS["set_topic"]
  MaxTurn,      \* bound: the ticks a turn goes on for
  Calls,        \* bound: the requests handled at one time
  NoAccount,    \* None: not identified
  Nobody,       \* bound to no nick
  Miss          \* _MISS: no entry

Login == Accounts \cup {NoAccount}
Kinds == {"mention", "dm", "task", "quit"}
TtlOf(acct) == IF acct \in Operators THEN OpTtl ELSE Ttl

ASSUME PeopleAssumption ==
  /\ Logins \in [People -> SUBSET Accounts]
  /\ Operators \subseteq Accounts /\ Allowed \subseteq Accounts
  /\ NoAccount \notin Accounts
  /\ Nobody \notin Nicks

ASSUME TimesAssumption ==
  /\ OpTtl \in Nat /\ Ttl \in Nat /\ OpTtl <= Ttl
  /\ MaxTurn \in Nat /\ TopicCap \in Nat

VARIABLES
  \* The network.
  nickOf,    \* the nick of each person, Nobody when he is off the network
  login,     \* the account each person is logged in to
  present,   \* the people in the bot's channel: it sees what they do
  chanops,   \* the people with +o there
  \* AuthManager.
  cache,     \* _account_cache
  ops,       \* _channel_ops of the channel
  \* The requests.
  call,
  \* History, read by properties only.
  since,     \* ticks since each person was last logged in to each account
  opped,     \* the people who had +o at some time
  blamed     \* nicks that changed hands out of sight, or during their WHOIS

network == <<nickOf, login, present, chanops>>
auth    == <<cache, ops>>
history == <<since, opped, blamed>>
vars == <<network, auth, call, history>>

(***************************************************************************)
(* A request, with the locals of its handler.  "lookup": on_message or a   *)
(* command handler awaits whois(); "answered": the reply is in, the        *)
(* handler not yet resumed, info is its answer; "acting": it was granted,  *)
(* with the account that the turn keeps.  The acknowledgement of !quit is  *)
(* "acting" too: the event is set after it.                                *)
(***************************************************************************)
\* The ages are not counted beyond the point where they stop mattering.
Expired(acct) == TtlOf(acct) + 1
Old(acct) == TtlOf(acct) + MaxTurn + 1
Waiting == {"lookup", "answered"}
CallState ==
  [pc: {"idle"}]
    \cup [pc: Waiting, kind: Kinds, nick: Nicks, by: People, info: Login]
    \cup [pc: {"acting"}, kind: Kinds, nick: Nicks, by: People, acct: Login,
          age: 0..MaxTurn, used: 0..TopicCap, set: 0..TopicCap]
Idle == [pc |-> "idle"]
Entry == {e \in [acct: Login, age: 0..Ttl + 1] : e.age <= Expired(e.acct)}

TypeOK ==
  /\ nickOf \in [People -> Nicks \cup {Nobody}]
  /\ login \in [People -> Login]
  /\ present \in SUBSET People
  /\ chanops \in SUBSET present
  /\ cache \in [Nicks -> {Miss} \cup Entry]
  /\ ops \in SUBSET Nicks
  /\ call \in [Calls -> CallState]
  /\ since \in [People -> [Accounts -> 0..Ttl + MaxTurn + 1]]
  /\ \A p \in People, a \in Accounts : since[p][a] <= Old(a)
  /\ opped \in SUBSET People
  /\ blamed \in SUBSET Nicks

Online(p) == nickOf[p] # Nobody
Holds(p, n) == nickOf[p] = n
Free(n) == \A p \in People : ~Holds(p, n)
\* What the server knows of a nick: the account of whoever holds it.
Truth(n) ==
  IF Free(n) THEN NoAccount ELSE login[CHOOSE p \in People : Holds(p, n)]

Pending(n) == \E h \in Calls : call[h].pc \in Waiting /\ call[h].nick = n
\* AuthManager holds something on a nick, or is about to.
Known(n) == cache[n] # Miss \/ n \in ops \/ Pending(n)

\* get_cached() finds an entry and does not pop it.
\* Mutant: the operators' entries live as long as the others'.
Fresh_OneTtl(entry) == entry # Miss /\ entry.age <= Ttl
Fresh(entry) == entry # Miss /\ entry.age <= TtlOf(entry.acct)

Remember(n, acct) == [cache EXCEPT ![n] = [acct |-> acct, age |-> 0]]

-----------------------------------------------------------------------------
(* The policies.                                                           *)

\* _should_engage_dm(); "ignore" is refused before anything is looked up.
DmAllows(acct) ==
  \/ DmMode = "all"
  \/ DmMode \in {"operators", "allowlist"} /\ acct \in Operators
  \/ DmMode = "allowlist" /\ acct \in Allowed

\* ChannelPolicy.can_issue_tasks() of the actor that actor_for() builds.
CanIssueTasks(n, acct) ==
  \/ TaskIssuers = "all"
  \/ TaskIssuers \in {"ops", "operator"} /\ acct \in Operators
  \/ TaskIssuers = "ops" /\ n \in ops

Allows(kind, n, acct) ==
  CASE kind = "mention" -> TRUE
    [] kind = "dm"      -> DmAllows(acct)
    [] kind = "task"    -> CanIssueTasks(n, acct)
    [] kind = "quit"    -> acct \in Operators

\* The handler after _ensure_account_known(): no await before the decision.
Decided(kind, n, by, acct) ==
  IF Allows(kind, n, acct)
  THEN [pc |-> "acting", kind |-> kind, nick |-> n, by |-> by, acct |-> acct,
        age |-> 0, used |-> 0, set |-> 0]
  ELSE Idle

-----------------------------------------------------------------------------
(* Requests.                                                               *)

Request(h, p, kind) ==
  /\ call[h].pc = "idle"
  /\ Online(p)
  /\ kind \in {"mention", "task"} => p \in present
  /\ kind = "dm" => DmMode # "ignore"

\* The account is cached and fresh: no WHOIS.
AskKnown(h, p, kind) ==
  LET n == nickOf[p] IN
  /\ Request(h, p, kind)
  /\ Fresh(cache[n])
  /\ call' = [call EXCEPT ![h] = Decided(kind, n, p, cache[n].acct)]
  /\ UNCHANGED <<network, auth, history>>

\* An entry that has expired is popped, and the server is asked.
AskServer(h, p, kind) ==
  LET n == nickOf[p] IN
  /\ Request(h, p, kind)
  /\ ~Fresh(cache[n])
  /\ cache' = [cache EXCEPT ![n] = Miss]
  /\ call' = [call EXCEPT ![h] = [pc |-> "lookup", kind |-> kind, nick |-> n,
                                  by |-> p, info |-> NoAccount]]
  /\ UNCHANGED <<network, ops, history>>

\* The replies of the server are read: on_raw_330 files the account of an
\* identified holder, and the library ends whois().  What it returns under
\* "account" is the library's affair: the truth, or nothing.
WhoisReply(h) ==
  /\ call[h].pc = "lookup"
  /\ LET n == call[h].nick IN
     /\ cache' = IF Truth(n) \in Accounts THEN Remember(n, Truth(n)) ELSE cache
     /\ \E info \in {Truth(n), NoAccount} :
          call' = [call EXCEPT ![h].pc = "answered", ![h].info = info]
  /\ UNCHANGED <<network, ops, history>>

\* The handler resumes, files the answer and decides.
Answered(h) ==
  /\ call[h].pc = "answered"
  /\ LET c == call[h] IN
     /\ cache' = Remember(c.nick, c.info)
     /\ call' = [call EXCEPT ![h] = Decided(c.kind, c.nick, c.by, c.info)]
  /\ UNCHANGED <<network, ops, history>>

\* whois() raises: the sender goes on as not identified.
WhoisFails(h) ==
  /\ call[h].pc = "lookup"
  /\ LET c == call[h] IN
     /\ cache' = Remember(c.nick, NoAccount)
     /\ call' = [call EXCEPT ![h] = Decided(c.kind, c.nick, c.by, NoAccount)]
  /\ UNCHANGED <<network, ops, history>>

\* Whoever else asks for an account, as the log of each message and the tells
\* do: an expired entry is popped, and no WHOIS follows.
Read(n) ==
  /\ cache[n] # Miss /\ ~Fresh(cache[n])
  /\ cache' = [cache EXCEPT ![n] = Miss]
  /\ UNCHANGED <<network, ops, call, history>>

-----------------------------------------------------------------------------
(* Turns.                                                                  *)

\* _check_tier5_cap(): the tool has been called less often than the turn may.
\* Mutant: one call too many.
CapAllows_OneMore(h) == call[h].used <= TopicCap
CapAllows(h) == call[h].used < TopicCap

\* The model calls set_topic.  The cap counts the calls that the tool then
\* refuses; the tool asks for the account the turn started with and for the
\* op flag that the nick has now.
SetTopic(h) ==
  /\ call[h].pc = "acting"
  /\ call[h].kind \in {"mention", "task"}
  /\ CapAllows(h)
  /\ LET ranked == call[h].acct \in Operators \/ call[h].nick \in ops IN
     call' = [call EXCEPT ![h].used = @ + 1,
                          ![h].set = IF ranked THEN @ + 1 ELSE @]
  /\ UNCHANGED <<network, auth, history>>

Finish(h) ==
  /\ call[h].pc = "acting"
  /\ call' = [call EXCEPT ![h] = Idle]
  /\ UNCHANGED <<network, auth, history>>

-----------------------------------------------------------------------------
(* The network.  What it does out of the bot's sight changes no variable   *)
(* of the bot.                                                             *)

\* AuthManager.rename(): the entry and the op flag follow the nick.
\* Mutant: the op flag is given to the new nick and left with the old one.
Renamed_FlagStays(n, m) ==
  /\ cache' = IF cache[n] = Miss THEN cache
              ELSE [cache EXCEPT ![m] = cache[n], ![n] = Miss]
  /\ ops' = IF n \in ops THEN ops \cup {m} ELSE ops
Renamed(n, m) ==
  /\ cache' = IF cache[n] = Miss THEN cache
              ELSE [cache EXCEPT ![m] = cache[n], ![n] = Miss]
  /\ ops' = IF n \in ops THEN (ops \ {n}) \cup {m} ELSE ops

\* AuthManager.forget_user()
\* Mutant: the account of who quits stays in the cache.
Forgotten_KeepsAccount(n) ==
  /\ cache' = cache
  /\ ops' = ops \ {n}
Forgotten(n) ==
  /\ cache' = [cache EXCEPT ![n] = Miss]
  /\ ops' = ops \ {n}

\* Somebody connects, or takes a free nick.
Connect(p, n) ==
  /\ ~Online(p) /\ Free(n)
  /\ nickOf' = [nickOf EXCEPT ![p] = n]
  /\ UNCHANGED <<login, present, chanops, auth, call, history>>

\* on_nick_change()
RenameSeen(p, m) ==
  LET n == nickOf[p] IN
  /\ p \in present /\ Free(m)
  /\ nickOf' = [nickOf EXCEPT ![p] = m]
  /\ Renamed(n, m)
  /\ blamed' = (blamed \ {n})
                 \cup (IF Pending(n) THEN {n} ELSE {})
                 \cup (IF n \in blamed THEN {m} ELSE {})
  /\ UNCHANGED <<login, present, chanops, call, since, opped>>

RenameUnseen(p, m) ==
  /\ Online(p) /\ p \notin present /\ Free(m)
  /\ nickOf' = [nickOf EXCEPT ![p] = m]
  /\ blamed' = blamed \cup (IF Known(nickOf[p]) THEN {nickOf[p]} ELSE {})
  /\ UNCHANGED <<login, present, chanops, auth, call, since, opped>>

Offline(p) ==
  /\ nickOf' = [nickOf EXCEPT ![p] = Nobody]
  /\ login' = [login EXCEPT ![p] = NoAccount]
  /\ present' = present \ {p}
  /\ chanops' = chanops \ {p}

\* on_quit()
QuitSeen(p) ==
  LET n == nickOf[p] IN
  /\ p \in present
  /\ Offline(p)
  /\ Forgotten(n)
  /\ blamed' = (blamed \ {n}) \cup (IF Pending(n) THEN {n} ELSE {})
  /\ UNCHANGED <<call, since, opped>>

QuitUnseen(p) ==
  /\ Online(p) /\ p \notin present
  /\ Offline(p)
  /\ blamed' = blamed \cup (IF Known(nickOf[p]) THEN {nickOf[p]} ELSE {})
  /\ UNCHANGED <<auth, call, since, opped>>

\* on_join() of somebody else: nothing is learnt from it.
Join(p) ==
  /\ Online(p) /\ p \notin present
  /\ present' = present \cup {p}
  /\ UNCHANGED <<nickOf, login, chanops, auth, call, history>>

\* on_part() and on_kick(): the op flag goes, the account stays.
Leave(p) ==
  /\ p \in present
  /\ present' = present \ {p}
  /\ chanops' = chanops \ {p}
  /\ ops' = ops \ {nickOf[p]}
  /\ UNCHANGED <<nickOf, login, cache, call, history>>

\* The bot loses its connection, or is kicked, and joins a new channel
\* later; AuthManager is told nothing.  Who is there joins again, the names
\* of the channel being as good as a JOIN.
Away ==
  /\ present # {}
  /\ present' = {} /\ chanops' = {}
  /\ UNCHANGED <<nickOf, login, auth, call, history>>

\* resync_channel_ops(): the flags are what the library has parsed.
Resynced == ops' = {nickOf'[p] : p \in chanops'}

\* on_mode_change(): somebody gets or loses +o.
Mode(p) ==
  /\ p \in present
  /\ chanops' = IF p \in chanops THEN chanops \ {p} ELSE chanops \cup {p}
  /\ opped' = opped \cup chanops'
  /\ UNCHANGED nickOf
  /\ Resynced
  /\ UNCHANGED <<login, present, cache, call, since, blamed>>

\* _refresh_channel_op_state(), every hour.
Refresh ==
  /\ UNCHANGED <<network>>
  /\ Resynced
  /\ UNCHANGED <<cache, call, history>>

\* Services.  on_account_change() runs if the server sends account-notify
\* and the person is in the channel.
Services(p, acct) ==
  /\ Online(p) /\ acct # login[p]
  /\ login' = [login EXCEPT ![p] = acct]
  /\ since' = IF acct = NoAccount THEN since
              ELSE [since EXCEPT ![p][acct] = 0]
  /\ \/ UNCHANGED cache
     \/ p \in present /\ cache' = Remember(nickOf[p], acct)
  /\ UNCHANGED <<nickOf, present, chanops, ops, call, opped, blamed>>

Older(age, max) == IF age < max THEN age + 1 ELSE max
Tick ==
  /\ \A h \in Calls :
       /\ call[h].pc # "answered"
       /\ call[h].pc = "acting" => call[h].age < MaxTurn
  /\ cache' = [n \in Nicks |->
                 IF cache[n] = Miss THEN Miss
                 ELSE [cache[n] EXCEPT !.age = Older(@, Expired(cache[n].acct))]]
  /\ call' = [h \in Calls |->
                IF call[h].pc = "acting" THEN [call[h] EXCEPT !.age = @ + 1]
                ELSE call[h]]
  /\ since' = [p \in People |-> [a \in Accounts |->
                 IF login[p] = a THEN 0 ELSE Older(since[p][a], Old(a))]]
  /\ UNCHANGED <<network, ops, opped, blamed>>

-----------------------------------------------------------------------------
Init ==
  /\ nickOf = [p \in People |-> Nobody]
  /\ login = [p \in People |-> NoAccount]
  /\ present = {} /\ chanops = {}
  /\ cache = [n \in Nicks |-> Miss]
  /\ ops = {}
  /\ call = [h \in Calls |-> Idle]
  /\ since = [p \in People |-> [a \in Accounts |-> Old(a)]]
  /\ opped = {} /\ blamed = {}

Handler(h) ==
  \/ \E p \in People, kind \in Kinds : AskKnown(h, p, kind) \/ AskServer(h, p, kind)
  \/ WhoisReply(h) \/ Answered(h) \/ WhoisFails(h)
  \/ SetTopic(h) \/ Finish(h)

Person(p) ==
  \/ \E n \in Nicks : Connect(p, n) \/ RenameSeen(p, n) \/ RenameUnseen(p, n)
  \/ QuitSeen(p) \/ QuitUnseen(p)
  \/ Join(p) \/ Leave(p) \/ Mode(p)
  \/ \E acct \in Logins[p] \cup {NoAccount} : Services(p, acct)

Next ==
  \/ \E h \in Calls : Handler(h)
  \/ \E p \in People : Person(p)
  \/ \E n \in Nicks : Read(n)
  \/ Away \/ Refresh \/ Tick

Spec == Init /\ [][Next]_vars

-----------------------------------------------------------------------------
(* Correctness.                                                            *)

Grants(h, acct) ==
  /\ call[h].pc # "acting"
  /\ call'[h].pc = "acting" /\ call'[h].acct = acct

\* `ex-operators should lose privilege quickly after de-auth' (auth.py, at
\* OPERATOR_CACHE_TTL_SEC).  A request is granted under an account only if
\* somebody was logged in to it within the time that an entry of that account
\* lives, however often the entry was renamed, filed again or answered late;
\* and a topic is set under it at most one turn later.
RankIsRecent ==
  [][\A h \in Calls, a \in Accounts :
       /\ Grants(h, a) => \E p \in People : since'[p][a] <= TtlOf(a)
       /\ call[h].pc = "acting" /\ call'[h].pc = "acting" /\ call[h].acct = a
            /\ call'[h].set > call[h].set
            => \E p \in People : since'[p][a] <= TtlOf(a) + MaxTurn]_vars

\* `Identity comes from the user's services account, not their nick' (auth.py).
\* Whoever takes over a nick does not take over its account: a request is
\* granted under an account only if its sender was himself logged in to it
\* that recently.  The exception: the nick changed hands out of the bot's
\* sight, or while a WHOIS about it was under way.
RankIsOwn ==
  [][\A h \in Calls, a \in Accounts :
       Grants(h, a) /\ call'[h].nick \notin blamed'
         => since'[call'[h].by][a] <= TtlOf(a)]_vars

\* The same for what AuthManager keeps between requests: what it holds on a
\* nick is about the person who has the nick, who had the account as recently
\* as the entry says and was an op at some time; and it holds nothing on a
\* nick that is free.
EntryIsOwn(n) ==
  Fresh(cache[n]) /\ cache[n].acct \in Accounts =>
    \E p \in People :
      Holds(p, n) /\ since[p][cache[n].acct] <= cache[n].age
FlagIsOwn(n) == n \in ops => \E p \in opped : Holds(p, n)
NoInheritance == \A n \in Nicks \ blamed : EntryIsOwn(n) /\ FlagIsOwn(n)
=============================================================================
