--------------------------- MODULE SessionsProofs ---------------------------
(***************************************************************************)
(* Theorems about module Sessions, for any number of tokens, threads,      *)
(* requests, outages and restarts.                                         *)
(*                                                                         *)
(* One invariant carries them.  Its middle is what the store may do behind *)
(* the back of a handler (StoreMoves): lives go on, entries of the         *)
(* blacklist stay until the token is over or the entry is a brief one, data*)
(* is stored for new pairs only.  What a handler knows of its own session  *)
(* (HandlerOK) survives every such step of another one.                    *)
(***************************************************************************)
EXTENDS Sessions, FiniteSetTheorems, TLAPS

-----------------------------------------------------------------------------
(* The invariant *)

\* What a handler relies on until it is done: the token it was called with was
\* good once, the pair it registers is its own, and each session its password
\* change found open is still listed, or over, or refused.
HandlerOK(h) ==
  /\ h.pc \in {"rotate", "reset", "change"} => h.token \in Tokens
  /\ h.pc \in {"reset", "change"} => h.keep = {}
  /\ h.pc = "rotate" => \A p \in Pairs : h.token = Refresh(p) => life[p] \in {"live", "over"}
  /\ h.pc = "index" => \A p \in h.todo : life[p] = "making"
  /\ h.pc = "unindex" => \A q \in h.todo : q \notin hashes /\ life[q] # "fresh"
  /\ h.pc = "each" /\ NoOutage =>
       \A p \in h.before \ past.shortened :
         p \in h.todo \/ life[p] = "over" \/ blacklist[Refresh(p)] # "none"

HandlersOK == \A t \in Threads : HandlerOK(handler[t])

PairsAreOwn ==
  \A t, u \in Threads : t # u /\ handler[t].pc = "index" /\ handler[u].pc = "index"
                          => handler[t].todo \cap handler[u].todo = {}

StoreOK ==
  /\ NoOutage => redisUp
  /\ \A p \in hashes : life[p] # "fresh"
  /\ \A p \in Pairs : blacklist[Refresh(p)] = "brief" => p \in past.shortened

\* The requests that found the refresh token of p good and have yet to exchange it.
Rotating(p) == {t \in Pool : handler[t].pc = "rotate" /\ handler[t].token = Refresh(p)}

Exchange(p) ==
  /\ past.exchanged[p] > 0 =>
       life[p] = "over" \/ (life[p] = "live" /\ blacklist[Refresh(p)] = "full")
  /\ past.exchanged[p] + Cardinality(Rotating(p)) <= Cardinality(Pool)

ExchangesOK == NoOutage => \A p \in Pairs \ past.shortened : Exchange(p)

SessionsInv == TypeOK /\ HandlersOK /\ PairsAreOwn /\ StoreOK /\ ExchangesOK

-----------------------------------------------------------------------------
(* Types *)

SessionsHistory == [exchanged : [Pairs -> Nat], shortened : SUBSET Pairs, orphaned : SUBSET Pairs,
                    calls : Nat, outages : Nat, restarts : Nat, expiries : Nat]

Memory == [tokens : SUBSET Tokens, sessions : SUBSET Pairs, index : SUBSET Pairs]

Lives == {"fresh", "making", "live", "over"}

LEMMA TokenTypes ==
  /\ \A p \in Pairs : Refresh(p) \in Tokens /\ Access(p) \in Tokens
  /\ \A r \in Resets : Reset(r) \in Tokens
  /\ \A p, q \in Pairs : (Refresh(p) = Refresh(q) <=> p = q) /\ Refresh(p) # Access(q)
  /\ \A p \in Pairs, r \in Resets : Refresh(p) # Reset(r)
  BY DEF Tokens, Refresh, Access, Reset

LEMMA TypesByPart ==
  TypeOK <=> /\ blacklist \in [Tokens -> Entry]
             /\ hashes \subseteq Pairs /\ index \subseteq Pairs
             /\ redisUp \in BOOLEAN
             /\ memory \in Memory
             /\ life \in [Pairs -> Lives]
             /\ sent \subseteq Resets
             /\ handler \in [Threads -> Handler]
             /\ jobs \in Nat
             /\ past \in SessionsHistory
  BY DEF TypeOK, Memory, Lives, SessionsHistory

LEMMA TypesAfter ==
  ASSUME blacklist' \in [Tokens -> Entry],
         hashes' \subseteq Pairs, index' \subseteq Pairs,
         redisUp' \in BOOLEAN,
         memory' \in Memory,
         life' \in [Pairs -> Lives],
         sent' \subseteq Resets,
         handler' \in [Threads -> Handler],
         jobs' \in Nat,
         past' \in SessionsHistory
  PROVE  TypeOK'
  BY DEF TypeOK, Memory, Lives, SessionsHistory

LEMMA IdleType == Idle \in Handler
  BY DEF Idle, Handler

\* A handler that begins, on a token or on a session, and one that lists sessions.
LEMMA NewHandlers ==
  /\ \A p \in Pairs : [Idle EXCEPT !.pc = "index", !.todo = {p}] \in Handler
  /\ \A p \in Pairs : [Idle EXCEPT !.pc = "unindex", !.todo = {p}] \in Handler
  /\ \A p \in Pairs : [Idle EXCEPT !.op = "others", !.keep = {p}] \in Handler
  /\ [Idle EXCEPT !.op = "cleanup"] \in Handler
  /\ \A k \in Tokens : /\ [Idle EXCEPT !.pc = "rotate", !.token = k] \in Handler
                       /\ [Idle EXCEPT !.pc = "reset", !.token = k, !.op = "reset"] \in Handler
                       /\ [Idle EXCEPT !.pc = "change", !.token = k, !.op = "change"] \in Handler
  BY DEF Idle, Handler

LEMMA HandlerWith ==
  ASSUME NEW h \in Handler, NEW S \in SUBSET Pairs
  PROVE  /\ [h EXCEPT !.todo = S] \in Handler
         /\ [h EXCEPT !.before = S] \in Handler
         /\ [h EXCEPT !.pc = "each", !.todo = S] \in Handler
         /\ [h EXCEPT !.pc = "memory", !.todo = S] \in Handler
  BY DEF Handler

LEMMA ListingType ==
  ASSUME TypeOK, NEW h \in Handler, NEW m \in Memory
  PROVE  Listing(h, m) \in Handler /\ TakenFromMemory(h, m) \in Memory
  <1>1. /\ index \ h.keep \in SUBSET Pairs /\ h.keep \in SUBSET Pairs
        /\ (m.index \cap m.sessions) \ h.keep \in SUBSET Pairs
        /\ m.sessions \ (m.index \ h.keep) \in SUBSET Pairs
    BY DEF TypeOK, Handler, Memory
  <1>2. Listing(h, m) \in Handler
    BY <1>1, HandlerWith DEF Listing
  <1>3. TakenFromMemory(h, m) \in Memory
    <2> DEFINE S == m.sessions \ (m.index \ h.keep)
               I == h.keep
    <2>1. TakenFromMemory(h, m) = m \/ TakenFromMemory(h, m) = [m EXCEPT !.sessions = S, !.index = I]
      BY DEF TakenFromMemory
    <2>2. S \in SUBSET Pairs /\ I \in SUBSET Pairs
      BY <1>1
    <2> HIDE DEF S, I
    <2> QED BY <2>1, <2>2 DEF Memory
  <1> QED BY <1>2, <1>3

LEMMA BlacklistedType ==
  ASSUME TypeOK, NEW K \in SUBSET Tokens
  PROVE  /\ Blacklisted(K) \in [Tokens -> Entry]
         /\ \A m \in Memory : [m EXCEPT !.tokens = @ \cup K] \in Memory
  <1>1. Blacklisted(K) \in [Tokens -> Entry]
    BY DEF Blacklisted, TypeOK, Entry
  <1>2. ASSUME NEW m \in Memory PROVE [m EXCEPT !.tokens = @ \cup K] \in Memory
    <2> DEFINE S == m.tokens \cup K
    <2>1. S \in SUBSET Tokens
      BY DEF Memory
    <2> HIDE DEF S
    <2>2. [m EXCEPT !.tokens = S] \in Memory
      BY <2>1 DEF Memory
    <2> QED BY <2>2 DEF S
  <1> QED BY <1>1, <1>2

LEMMA RegisteredType ==
  ASSUME NEW m \in Memory, NEW new \in SUBSET Pairs
  PROVE  RegisteredInMemory(m, new) \in Memory
  <1> DEFINE S == m.sessions \cup new
             I == m.index \cup new
  <1>1. S \in SUBSET Pairs /\ I \in SUBSET Pairs
    BY DEF Memory
  <1>2. RegisteredInMemory(m, new) = [m EXCEPT !.sessions = S, !.index = I]
    BY DEF RegisteredInMemory
  <1> HIDE DEF S, I
  <1> QED BY <1>1, <1>2 DEF Memory

LEMMA HistoryType ==
  ASSUME TypeOK
  PROVE  /\ Called \in SessionsHistory
         /\ \A k : Exchanged(k) \in SessionsHistory
         /\ [past EXCEPT !.outages = @ + 1] \in SessionsHistory
         /\ [past EXCEPT !.restarts = @ + 1] \in SessionsHistory
         /\ [past EXCEPT !.expiries = @ + 1] \in SessionsHistory
         /\ \A S \in SUBSET Pairs : /\ [past EXCEPT !.shortened = S] \in SessionsHistory
                                    /\ [past EXCEPT !.orphaned = S] \in SessionsHistory
  <1>1. past \in SessionsHistory
    BY TypesByPart
  <1>2. \A k : [p \in Pairs |-> IF k = Refresh(p) THEN past.exchanged[p] + 1 ELSE past.exchanged[p]] \in [Pairs -> Nat]
    BY <1>1 DEF SessionsHistory
  <1>3. \A k : Exchanged(k) \in SessionsHistory
    BY <1>1, <1>2 DEF SessionsHistory, Exchanged
  <1>4. Called \in SessionsHistory
    BY <1>1 DEF SessionsHistory, Called
  <1>5. /\ [past EXCEPT !.outages = @ + 1] \in SessionsHistory
        /\ [past EXCEPT !.restarts = @ + 1] \in SessionsHistory
        /\ [past EXCEPT !.expiries = @ + 1] \in SessionsHistory
    BY <1>1 DEF SessionsHistory
  <1>6. ASSUME NEW S \in SUBSET Pairs
        PROVE  [past EXCEPT !.shortened = S] \in SessionsHistory
    BY <1>1 DEF SessionsHistory
  <1>7. ASSUME NEW S \in SUBSET Pairs
        PROVE  [past EXCEPT !.orphaned = S] \in SessionsHistory
    BY <1>1 DEF SessionsHistory
  <1> QED BY <1>3, <1>4, <1>5, <1>6, <1>7

LEMMA IssueTypes ==
  ASSUME TypeOK, NEW t \in Threads, NEW K \in SUBSET Tokens, IssuePair(t, K)
  PROVE  /\ blacklist' \in [Tokens -> Entry] /\ hashes' \subseteq Pairs
         /\ memory' \in Memory /\ life' \in [Pairs -> Lives] /\ handler' \in [Threads -> Handler]
  <1>1. PICK p \in Pairs :
          \/ /\ blacklist' = Blacklisted(K) /\ hashes' = hashes \cup {p}
             /\ life' = [life EXCEPT ![p] = "making"]
             /\ handler' = [handler EXCEPT ![t] = [Idle EXCEPT !.pc = "index", !.todo = {p}]]
             /\ UNCHANGED memory
          \/ /\ memory' = RegisteredInMemory([memory EXCEPT !.tokens = @ \cup K], {p})
             /\ life' = [life EXCEPT ![p] = "live"]
             /\ handler' = [handler EXCEPT ![t] = Idle]
             /\ UNCHANGED <<blacklist, hashes>>
    BY DEF IssuePair, Goto, Done
  <1>2. blacklist' \in [Tokens -> Entry] /\ hashes' \subseteq Pairs
    BY <1>1, BlacklistedType, TypesByPart
  <1>3. memory' \in Memory
    <2>1. memory \in Memory /\ {p} \in SUBSET Pairs
      BY TypesByPart
    <2>2. [memory EXCEPT !.tokens = @ \cup K] \in Memory
      BY <2>1, BlacklistedType
    <2> QED BY <1>1, <2>1, <2>2, RegisteredType
  <1>4. life' \in [Pairs -> Lives]
    BY <1>1, TypesByPart DEF Lives
  <1>5. handler' \in [Threads -> Handler]
    BY <1>1, TypesByPart, IdleType, NewHandlers
  <1> QED BY <1>2, <1>3, <1>4, <1>5

LEMMA RevokeTypes ==
  ASSUME TypeOK, NEW K \in SUBSET Tokens, Revoke(K)
  PROVE  blacklist' \in [Tokens -> Entry] /\ memory' \in Memory
  BY BlacklistedType, TypesByPart DEF Revoke

LEMMA CloseTypes ==
  ASSUME TypeOK, NEW t \in Threads, NEW q \in Pairs, CloseInMemory(t, q)
  PROVE  memory' \in Memory /\ handler' \in [Threads -> Handler]
  <1> DEFINE S == memory.sessions \ {q}
             I == memory.index \ ({q} \cap memory.sessions)
             T == {q} \cap memory.sessions
  <1>1. S \in SUBSET Pairs /\ I \in SUBSET Pairs /\ T \in SUBSET Pairs /\ memory \in Memory
    BY DEF TypeOK, Memory
  <1>2. /\ memory' = [memory EXCEPT !.sessions = S, !.index = I]
        /\ handler' = [handler EXCEPT ![t] = [Idle EXCEPT !.pc = "memory", !.todo = T]]
    BY DEF CloseInMemory, Goto
  <1> HIDE DEF S, I, T
  <1>3. memory' \in Memory
    BY <1>1, <1>2 DEF Memory
  <1>4. [Idle EXCEPT !.pc = "memory", !.todo = T] \in Handler
    BY <1>1, IdleType, HandlerWith
  <1>5. handler' \in [Threads -> Handler]
    BY <1>2, <1>4, TypesByPart
  <1> QED BY <1>3, <1>5

LEMMA FinishTypes ==
  ASSUME TypeOK, NEW t \in Threads, Finish(t)
  PROVE  handler' \in [Threads -> Handler] /\ jobs' \in Nat
  BY IdleType, TypesByPart DEF Finish, Done, Goto

LEMMA HandlerTypes ==
  ASSUME TypeOK, NEW t \in Threads
  PROVE  /\ handler[t] \in Handler
         /\ handler[t].todo \in SUBSET Pairs /\ handler[t].keep \in SUBSET Pairs
         /\ handler[t].token \in Tokens \cup {<<>>}
         /\ handler[t].before \in SUBSET Pairs
         /\ \A h \in Handler : [handler EXCEPT ![t] = h] \in [Threads -> Handler]
  BY DEF TypeOK, Handler

LEMMA ExpireTypes ==
  ASSUME TypeOK, NEW p \in Pairs, Expire(p)
  PROVE  TypeOK'
  <1> DEFINE K == memory.tokens \ {Refresh(p), Access(p)}
             S == memory.sessions \ {p}
             I == memory.index \ ({p} \cap memory.sessions)
  <1>1. K \in SUBSET Tokens /\ S \in SUBSET Pairs /\ I \in SUBSET Pairs
    BY DEF TypeOK
  <1>2. memory' = [tokens |-> K, sessions |-> S, index |-> I]
    BY DEF Expire
  <1> HIDE DEF K, S, I
  <1>3. memory' \in Memory
    BY <1>1, <1>2 DEF Memory
  <1>4. past' \in SessionsHistory
    BY HistoryType DEF Expire
  <1>5. blacklist' \in [Tokens -> Entry]
    BY TokenTypes, TypesByPart DEF Expire, Entry
  <1>6. life' \in [Pairs -> Lives] /\ hashes' \subseteq Pairs
    BY TypesByPart DEF Expire, Lives
  <1> QED BY <1>3, <1>4, <1>5, <1>6, TypesAfter, TypesByPart DEF Expire

\* The requests of the endpoints.
LEMMA PoolTypes ==
  ASSUME TypeOK, HandlersOK, NEW t \in Pool, PoolNext(t)
  PROVE  TypeOK'
  <1>1. t \in Threads
    BY DEF Threads
  <1> USE <1>1
  <1>2. CASE Login(t)
    BY <1>2, IssueTypes, HistoryType, TypesByPart, TypesAfter DEF Login
  <1>3. CASE IndexSession(t)
    <2>1. /\ handler[t].todo \in SUBSET Pairs
          /\ RegisteredInMemory(memory, handler[t].todo) \in Memory
      BY HandlerTypes, RegisteredType, TypesByPart
    <2>2. index' \subseteq Pairs /\ memory' \in Memory
      BY <1>3, <2>1, TypesByPart DEF IndexSession
    <2>3. life' \in [Pairs -> Lives]
      BY <1>3, TypesByPart DEF IndexSession, Lives
    <2>4. handler' \in [Threads -> Handler]
      BY <1>3, HandlerTypes, IdleType DEF IndexSession, Done, Goto
    <2> QED BY <1>3, <2>2, <2>3, <2>4, TypesByPart, TypesAfter DEF IndexSession
  <1>4. CASE Rotate(t)
    <2>1. {handler[t].token} \in SUBSET Tokens
      BY <1>4 DEF Rotate, HandlersOK, HandlerOK
    <2> QED BY <1>4, <2>1, IssueTypes, HistoryType, TypesByPart, TypesAfter DEF Rotate
  <1>5. CASE ChangePassword(t)
    <2> DEFINE k == handler[t].token
               h == [handler[t] EXCEPT !.before = OpenSessions]
    <2>1. k \in Tokens /\ {k} \in SUBSET Tokens
      BY <1>5 DEF ChangePassword, HandlersOK, HandlerOK
    <2>2. OpenSessions \in SUBSET Pairs
      BY DEF OpenSessions, TypeOK
    <2>3. h \in Handler
      BY <2>2, HandlerTypes, HandlerWith
    <2> HIDE DEF h
    <2>4. memory \in Memory /\ [memory EXCEPT !.tokens = @ \cup {k}] \in Memory
      BY <2>1, BlacklistedType, TypesByPart
    <2>5. handler' \in [Threads -> Handler]
      <3>1. Listing(h, memory) \in Handler
        BY <2>3, <2>4, ListingType
      <3> QED BY <1>5, <3>1, HandlerTypes DEF ChangePassword, Goto, h
    <2>6. memory' \in Memory
      <3>1. TakenFromMemory(h, [memory EXCEPT !.tokens = @ \cup {k}]) \in Memory
        BY <2>3, <2>4, ListingType
      <3> QED BY <1>5, <2>4, <3>1 DEF ChangePassword, h
    <2>7. blacklist' \in [Tokens -> Entry]
      BY <1>5, <2>1, BlacklistedType, TypesByPart DEF ChangePassword
    <2> QED BY <1>5, <2>5, <2>6, <2>7, TypesByPart, TypesAfter DEF ChangePassword
  <1>6. CASE ChangeRefusedLate(t)
    <2>1. handler' \in [Threads -> Handler]
      BY <1>6, HandlerTypes, IdleType DEF ChangeRefusedLate, Done, Goto
    <2> QED BY <1>6, <2>1, TypesByPart, TypesAfter DEF ChangeRefusedLate, redis
  <1>7. CASE UnindexSession(t)
    <2>1. CASE index' = index \ handler[t].todo /\ Done(t) /\ UNCHANGED memory
      <3>1. handler' \in [Threads -> Handler]
        BY <2>1, HandlerTypes, IdleType DEF Done, Goto
      <3>2. index' \subseteq Pairs
        BY <2>1, TypesByPart
      <3> QED BY <1>7, <2>1, <3>1, <3>2, TypesByPart, TypesAfter DEF UnindexSession
    <2>2. ASSUME NEW q \in handler[t].todo, CloseInMemory(t, q), UNCHANGED index
          PROVE  TypeOK'
      <3>1. q \in Pairs
        BY HandlerTypes
      <3>2. memory' \in Memory /\ handler' \in [Threads -> Handler]
        BY <2>2, <3>1, CloseTypes
      <3> QED BY <1>7, <2>2, <3>2, TypesByPart, TypesAfter DEF UnindexSession
    <2> QED BY <1>7, <2>1, <2>2 DEF UnindexSession
  <1>8. ASSUME NEW p \in Pairs, BeginRefresh(t, p) \/ BeginChange(t, p) PROVE TypeOK'
    <2>1. handler' \in [Threads -> Handler]
      <3>1. /\ [Idle EXCEPT !.pc = "rotate", !.token = Refresh(p)] \in Handler
            /\ [Idle EXCEPT !.pc = "change", !.token = Access(p), !.op = "change"] \in Handler
        BY NewHandlers, TokenTypes
      <3> QED BY <1>8, <3>1, HandlerTypes DEF BeginRefresh, BeginChange, Goto
    <2>2. past' \in SessionsHistory
      BY <1>8, HistoryType DEF BeginRefresh, BeginChange
    <2> QED BY <1>8, <2>1, <2>2, TypesByPart, TypesAfter DEF BeginRefresh, BeginChange, redis
  <1>9. ASSUME NEW p \in Pairs, Logout(t, p) PROVE TypeOK'
    <2>1. {Access(p)} \in SUBSET Tokens /\ {Access(p), Refresh(p)} \in SUBSET Tokens
      BY TokenTypes
    <2>2. blacklist' \in [Tokens -> Entry] /\ memory' \in Memory
      BY <1>9, <2>1, RevokeTypes DEF Logout
    <2>3. past' \in SessionsHistory
      BY <1>9, HistoryType DEF Logout
    <2> QED BY <1>9, <2>2, <2>3, TypesByPart, TypesAfter DEF Logout
  <1>10. ASSUME NEW p \in Pairs, RevokeOthers(t, p) PROVE TypeOK'
    <2> DEFINE h == [Idle EXCEPT !.op = "others", !.keep = {p}]
    <2>1. h \in Handler /\ memory \in Memory
      BY NewHandlers, TypesByPart
    <2>2. Listing(h, memory) \in Handler /\ TakenFromMemory(h, memory) \in Memory
      BY <2>1, ListingType
    <2>3. handler' \in [Threads -> Handler] /\ memory' \in Memory
      BY <1>10, <2>2, HandlerTypes DEF RevokeOthers, Goto
    <2>4. past' \in SessionsHistory
      BY <1>10, HistoryType DEF RevokeOthers
    <2> QED BY <1>10, <2>3, <2>4, TypesByPart, TypesAfter DEF RevokeOthers, redis
  <1>11. ASSUME NEW p \in Pairs, NEW q \in Pairs, RevokeSession(t, p, q) PROVE TypeOK'
    <2>1. past' \in SessionsHistory
      BY <1>11, HistoryType DEF RevokeSession
    <2>2. CASE redisUp
      <3>1. hashes' \subseteq Pairs /\ handler' \in [Threads -> Handler] /\ UNCHANGED memory
        BY <1>11, <2>2, HandlerTypes, NewHandlers, TypesByPart DEF RevokeSession, Goto
      <3> QED BY <1>11, <2>1, <3>1, TypesByPart, TypesAfter DEF RevokeSession
    <2>3. CASE ~ redisUp
      <3>1. memory' \in Memory /\ handler' \in [Threads -> Handler] /\ UNCHANGED hashes
        BY <1>11, <2>3, CloseTypes DEF RevokeSession
      <3> QED BY <1>11, <2>1, <3>1, TypesByPart, TypesAfter DEF RevokeSession
    <2> QED BY <2>2, <2>3
  <1>12. ASSUME NEW r \in Resets, BeginReset(t, r) PROVE TypeOK'
    <2>1. handler' \in [Threads -> Handler]
      BY <1>12, HandlerTypes, NewHandlers, TokenTypes DEF BeginReset, Goto
    <2>2. past' \in SessionsHistory
      BY <1>12, HistoryType DEF BeginReset
    <2> QED BY <1>12, <2>1, <2>2, TypesByPart, TypesAfter DEF BeginReset, redis
  <1> QED BY <1>2, <1>3, <1>4, <1>5, <1>6, <1>7, <1>8, <1>9, <1>10, <1>11, <1>12 DEF PoolNext

\* The revocation of many sessions, by an endpoint or by the worker.
LEMMA RevocationTypes ==
  ASSUME TypeOK, NEW t \in Threads,
         RevokeListed(t) \/ CloseIndex(t) \/ FallBack(t) \/ RevokeTaken(t)
  PROVE  TypeOK'
  <1> DEFINE h == handler[t]
  <1>1. h \in Handler /\ memory \in Memory /\ h.todo \in SUBSET Pairs
    BY HandlerTypes, TypesByPart
  <1>2. CASE RevokeListed(t)
    <2>1. PICK p \in h.todo :
            /\ blacklist' = [blacklist EXCEPT ![Refresh(p)] = IF p \in hashes THEN "full" ELSE "brief"]
            /\ hashes' = hashes \ {p}
            /\ past' = [past EXCEPT !.shortened = IF p \in hashes THEN past.shortened ELSE past.shortened \cup {p}]
            /\ handler' = [handler EXCEPT ![t] = [h EXCEPT !.todo = h.todo \ {p}]]
      BY <1>2 DEF RevokeListed, Goto
    <2>2. p \in Pairs /\ h.todo \ {p} \in SUBSET Pairs
      BY <1>1
    <2>3. handler' \in [Threads -> Handler]
      <3>1. [h EXCEPT !.todo = h.todo \ {p}] \in Handler
        BY <1>1, <2>2, HandlerWith
      <3> QED BY <2>1, <3>1, HandlerTypes
    <2>4. past' \in SessionsHistory
      <3> DEFINE S == IF p \in hashes THEN past.shortened ELSE past.shortened \cup {p}
      <3>1. S \in SUBSET Pairs
        BY <2>2 DEF TypeOK
      <3> HIDE DEF S
      <3>2. [past EXCEPT !.shortened = S] \in SessionsHistory
        BY <3>1, HistoryType
      <3> QED BY <2>1, <3>2 DEF S
    <2>5. blacklist' \in [Tokens -> Entry] /\ hashes' \subseteq Pairs
      BY <2>1, <2>2, TokenTypes, TypesByPart DEF Entry
    <2> QED BY <1>2, <2>3, <2>4, <2>5, TypesByPart, TypesAfter DEF RevokeListed
  <1>3. CASE CloseIndex(t)
    <2>1. handler' \in [Threads -> Handler] /\ jobs' \in Nat
      BY <1>3, FinishTypes DEF CloseIndex
    <2>2. index' \subseteq Pairs
      BY <1>3, TypesByPart, HandlerTypes DEF CloseIndex
    <2>3. past' \in SessionsHistory
      <3> DEFINE S == past.orphaned \cup (index \cap hashes)
      <3>1. S \in SUBSET Pairs /\ past \in SessionsHistory
        BY TypesByPart DEF TypeOK
      <3>2. past' = past \/ past' = [past EXCEPT !.orphaned = S]
        BY <1>3 DEF CloseIndex
      <3> HIDE DEF S
      <3> QED BY <3>1, <3>2, HistoryType
    <2> QED BY <1>3, <2>1, <2>2, <2>3, TypesByPart, TypesAfter DEF CloseIndex
  <1>4. CASE FallBack(t)
    <2>1. Listing(h, memory) \in Handler /\ TakenFromMemory(h, memory) \in Memory
      BY <1>1, ListingType
    <2>2. handler' \in [Threads -> Handler] /\ memory' \in Memory
      BY <1>4, <2>1, HandlerTypes DEF FallBack, Goto
    <2> QED BY <1>4, <2>2, TypesByPart, TypesAfter DEF FallBack, redis
  <1>5. CASE RevokeTaken(t)
    <2>1. ASSUME NEW p \in h.todo, Revoke({Refresh(p)}), Goto(t, [h EXCEPT !.todo = @ \ {p}]),
                 UNCHANGED jobs
          PROVE  TypeOK'
      <3>1. p \in Pairs /\ {Refresh(p)} \in SUBSET Tokens /\ h.todo \ {p} \in SUBSET Pairs
        BY <1>1, TokenTypes
      <3>2. blacklist' \in [Tokens -> Entry] /\ memory' \in Memory
        BY <2>1, <3>1, RevokeTypes
      <3>3. handler' \in [Threads -> Handler]
        <4>1. [h EXCEPT !.todo = h.todo \ {p}] \in Handler
          BY <1>1, <3>1, HandlerWith
        <4> QED BY <2>1, <4>1, HandlerTypes DEF Goto
      <3> QED BY <1>5, <2>1, <3>2, <3>3, TypesByPart, TypesAfter DEF RevokeTaken
    <2>2. CASE Finish(t) /\ UNCHANGED <<blacklist, memory>>
      BY <1>5, <2>2, FinishTypes, TypesByPart, TypesAfter DEF RevokeTaken
    <2> QED BY <1>5, <2>1, <2>2 DEF RevokeTaken
  <1> QED BY <1>2, <1>3, <1>4, <1>5

\* The worker, the mails, time, Redis and the process.
LEMMA OtherTypes ==
  ASSUME TypeOK,
         \/ RunCleanup
         \/ \E r \in Resets : ForgotPassword(r)
         \/ \E p \in Pairs : Expire(p)
         \/ \E k \in Tokens : BriefEntryEnds(k)
         \/ RedisFails \/ RedisReturns \/ Restart
  PROVE  TypeOK'
  <1>1. CASE RunCleanup
    <2> DEFINE h == [Idle EXCEPT !.op = "cleanup"]
    <2>1. Listing(h, memory) \in Handler /\ TakenFromMemory(h, memory) \in Memory
      BY ListingType, NewHandlers, TypesByPart
    <2>2. Worker \in Threads
      BY DEF Threads
    <2>3. handler' \in [Threads -> Handler] /\ memory' \in Memory /\ jobs' \in Nat
      BY <1>1, <2>1, <2>2, HandlerTypes, TypesByPart DEF RunCleanup, Goto
    <2> QED BY <1>1, <2>3, TypesByPart, TypesAfter DEF RunCleanup, redis
  <1>2. ASSUME NEW r \in Resets, ForgotPassword(r) PROVE TypeOK'
    BY <1>2, TypesByPart, TypesAfter DEF ForgotPassword, redis
  <1>3. ASSUME NEW k \in Tokens, BriefEntryEnds(k) PROVE TypeOK'
    <2>1. blacklist' \in [Tokens -> Entry]
      BY <1>3, TypesByPart DEF BriefEntryEnds, Entry
    <2> QED BY <1>3, <2>1, TypesByPart, TypesAfter DEF BriefEntryEnds
  <1>4. CASE RedisFails \/ RedisReturns
    <2>1. past' \in SessionsHistory /\ redisUp' \in BOOLEAN
      BY <1>4, HistoryType, TypesByPart DEF RedisFails, RedisReturns
    <2> QED BY <1>4, <2>1, TypesByPart, TypesAfter DEF RedisFails, RedisReturns, redis
  <1>5. CASE Restart
    <2>1. memory' \in Memory
      BY <1>5 DEF Restart, EmptyMemory, Memory
    <2>2. handler' \in [Threads -> Handler] /\ past' \in SessionsHistory
      BY <1>5, IdleType, HistoryType DEF Restart
    <2>3. life' \in [Pairs -> Lives]
      BY <1>5, TypesByPart DEF Restart, Lives
    <2> QED BY <1>5, <2>1, <2>2, <2>3, TypesByPart, TypesAfter DEF Restart, redis
  <1> QED BY <1>1, <1>2, <1>3, <1>4, <1>5, ExpireTypes

LEMMA TypeStep ==
  ASSUME TypeOK, HandlersOK, [Next]_vars
  PROVE  TypeOK'
  <1>1. CASE UNCHANGED vars
    BY <1>1 DEF vars, TypeOK
  <1>2. CASE Next
    BY <1>2, PoolTypes, RevocationTypes, OtherTypes DEF Next
  <1> QED BY <1>1, <1>2

-----------------------------------------------------------------------------
(* What the store may do *)

\* A pair is made, handed out, and over for good.
LifeMoves ==
  \A p \in Pairs : \/ life'[p] = life[p]
                   \/ life[p] = "fresh" /\ life'[p] # "fresh"
                   \/ life[p] = "making" /\ life'[p] \in {"live", "over"}
                   \/ life[p] = "live" /\ life'[p] = "over"

\* An entry stays, but for tokens that are over; only a brief one may replace it.
BlacklistMoves ==
  \A p \in Pairs : \/ blacklist'[Refresh(p)] = blacklist[Refresh(p)]
                   \/ blacklist'[Refresh(p)] = "full"
                   \/ blacklist'[Refresh(p)] = "brief" /\ p \in past'.shortened
                   \/ /\ blacklist'[Refresh(p)] = "none"
                      /\ blacklist[Refresh(p)] = "brief" \/ life'[p] = "over"

HistoryMoves == past.shortened \subseteq past'.shortened /\ past.outages <= past'.outages

StoreMoves ==
  /\ LifeMoves /\ BlacklistMoves /\ HistoryMoves
  /\ \A p \in hashes' \ hashes : life[p] = "fresh" /\ life'[p] # "fresh"
  /\ NoOutage' => redisUp'

LEMMA BlacklistedMoves ==
  ASSUME TypeOK, NEW K, blacklist' = Blacklisted(K) \/ UNCHANGED blacklist
  PROVE  BlacklistMoves
  BY TokenTypes DEF Blacklisted, BlacklistMoves

\* The history only grows; it says "no outage" only while Redis answers.
LEMMA HistoryGrows ==
  ASSUME SessionsInv,
         \/ UNCHANGED past \/ past' = Called \/ \E k : past' = Exchanged(k)
         \/ past' = [past EXCEPT !.restarts = @ + 1] \/ past' = [past EXCEPT !.expiries = @ + 1]
         \/ \E S : past' = [past EXCEPT !.orphaned = S]
         \/ \E S : past' = [past EXCEPT !.shortened = S] /\ past.shortened \subseteq S
  PROVE  HistoryMoves /\ past'.outages = past.outages
  <1>1. past \in SessionsHistory
    BY TypesByPart DEF SessionsInv
  <1>2. past'.outages = past.outages /\ past.outages \in Nat
    BY <1>1 DEF SessionsHistory, Called, Exchanged
  <1>3. past.shortened \subseteq past'.shortened
    BY <1>1 DEF SessionsHistory, Called, Exchanged
  <1> QED BY <1>2, <1>3 DEF HistoryMoves

\* A step that leaves the keys of Redis and the lives alone.
LEMMA StoreUntouched ==
  ASSUME SessionsInv, UNCHANGED <<blacklist, hashes, life, redisUp>>,
         HistoryMoves, past'.outages = past.outages
  PROVE  StoreMoves
  <1>1. LifeMoves /\ BlacklistMoves
    BY DEF LifeMoves, BlacklistMoves
  <1>2. NoOutage' => redisUp'
    BY DEF SessionsInv, StoreOK, NoOutage
  <1> QED BY <1>1, <1>2 DEF StoreMoves

LEMMA IssueMoves ==
  ASSUME SessionsInv, NEW t \in Threads, NEW K, IssuePair(t, K), UNCHANGED redisUp,
         HistoryMoves, past'.outages = past.outages
  PROVE  StoreMoves
  <1>1. PICK p \in Pairs :
          /\ life[p] = "fresh"
          /\ \/ /\ blacklist' = Blacklisted(K) /\ hashes' = hashes \cup {p}
                /\ life' = [life EXCEPT ![p] = "making"]
             \/ /\ life' = [life EXCEPT ![p] = "live"]
                /\ UNCHANGED <<blacklist, hashes>>
    BY DEF IssuePair
  <1>2. TypeOK /\ life \in [Pairs -> Lives]
    BY TypesByPart DEF SessionsInv
  <1>3. LifeMoves /\ \A q \in hashes' \ hashes : life[q] = "fresh" /\ life'[q] # "fresh"
    BY <1>1, <1>2 DEF LifeMoves
  <1>4. BlacklistMoves
    BY <1>1, <1>2, BlacklistedMoves
  <1>5. NoOutage' => redisUp'
    BY DEF SessionsInv, StoreOK, NoOutage
  <1> QED BY <1>3, <1>4, <1>5 DEF StoreMoves

LEMMA RevokeMoves ==
  ASSUME SessionsInv, NEW K, Revoke(K), UNCHANGED <<hashes, life, redisUp>>,
         HistoryMoves, past'.outages = past.outages
  PROVE  StoreMoves
  <1>1. BlacklistMoves
    BY BlacklistedMoves DEF Revoke, SessionsInv
  <1>2. NoOutage' => redisUp'
    BY DEF SessionsInv, StoreOK, NoOutage
  <1> QED BY <1>1, <1>2 DEF StoreMoves, LifeMoves

LEMMA PoolMoves ==
  ASSUME SessionsInv, NEW t \in Pool, PoolNext(t)
  PROVE  StoreMoves
  <1>1. t \in Threads
    BY DEF Threads
  <1>2. CASE Login(t) \/ Rotate(t)
    <2>1. HistoryMoves /\ past'.outages = past.outages
      BY <1>2, HistoryGrows DEF Login, Rotate
    <2> QED BY <1>1, <1>2, <2>1, IssueMoves DEF Login, Rotate
  <1>3. CASE IndexSession(t)
    <2>1. HistoryMoves /\ past'.outages = past.outages
      BY <1>3, HistoryGrows DEF IndexSession
    <2>2. LifeMoves
      BY <1>1, <1>3 DEF IndexSession, LifeMoves, SessionsInv, HandlersOK, HandlerOK
    <2>3. NoOutage' => redisUp'
      BY <1>3 DEF SessionsInv, StoreOK, NoOutage, IndexSession
    <2> QED BY <1>3, <2>1, <2>2, <2>3 DEF IndexSession, StoreMoves, BlacklistMoves
  <1>4. CASE ChangePassword(t)
    <2>1. HistoryMoves /\ past'.outages = past.outages
      BY <1>4, HistoryGrows DEF ChangePassword
    <2>2. BlacklistMoves
      BY <1>4, BlacklistedMoves DEF ChangePassword, SessionsInv
    <2>3. NoOutage' => redisUp'
      BY <1>4 DEF SessionsInv, StoreOK, NoOutage, ChangePassword
    <2> QED BY <1>4, <2>1, <2>2, <2>3 DEF ChangePassword, StoreMoves, LifeMoves
  <1>5. CASE ChangeRefusedLate(t) \/ UnindexSession(t)
    <2>1. UNCHANGED <<blacklist, hashes, life, redisUp, past>>
      BY <1>5 DEF ChangeRefusedLate, UnindexSession, redis
    <2> QED BY <2>1, HistoryGrows, StoreUntouched
  <1>6. ASSUME NEW p \in Pairs, BeginRefresh(t, p) \/ BeginChange(t, p) \/ RevokeOthers(t, p)
        PROVE  StoreMoves
    <2>1. UNCHANGED <<blacklist, hashes, life, redisUp>> /\ past' = Called
      BY <1>6 DEF BeginRefresh, BeginChange, RevokeOthers, redis
    <2> QED BY <2>1, HistoryGrows, StoreUntouched
  <1>7. ASSUME NEW p \in Pairs, Logout(t, p) PROVE StoreMoves
    <2>1. HistoryMoves /\ past'.outages = past.outages
      BY <1>7, HistoryGrows DEF Logout
    <2> QED BY <1>7, <2>1, RevokeMoves DEF Logout
  <1>8. ASSUME NEW p \in Pairs, NEW q \in Pairs, RevokeSession(t, p, q) PROVE StoreMoves
    <2>1. HistoryMoves /\ past'.outages = past.outages
      BY <1>8, HistoryGrows DEF RevokeSession
    <2>2. hashes' \subseteq hashes /\ UNCHANGED <<blacklist, life, redisUp>>
      BY <1>8 DEF RevokeSession
    <2>3. NoOutage' => redisUp'
      BY <2>1, <2>2 DEF SessionsInv, StoreOK, NoOutage
    <2> QED BY <2>1, <2>2, <2>3 DEF StoreMoves, LifeMoves, BlacklistMoves
  <1>9. ASSUME NEW r \in Resets, BeginReset(t, r) PROVE StoreMoves
    <2>1. UNCHANGED <<blacklist, hashes, life, redisUp>> /\ past' = Called
      BY <1>9 DEF BeginReset, redis
    <2> QED BY <2>1, HistoryGrows, StoreUntouched
  <1> QED BY <1>2, <1>3, <1>4, <1>5, <1>6, <1>7, <1>8, <1>9 DEF PoolNext

LEMMA RevocationMoves ==
  ASSUME SessionsInv, NEW t \in Threads,
         RevokeListed(t) \/ CloseIndex(t) \/ FallBack(t) \/ RevokeTaken(t)
  PROVE  StoreMoves
  <1>1. CASE RevokeListed(t)
    <2>1. PICK p \in handler[t].todo :
            /\ blacklist' = [blacklist EXCEPT ![Refresh(p)] = IF p \in hashes THEN "full" ELSE "brief"]
            /\ hashes' = hashes \ {p}
            /\ past' = [past EXCEPT !.shortened = IF p \in hashes THEN past.shortened ELSE past.shortened \cup {p}]
      BY <1>1 DEF RevokeListed
    <2>2. HistoryMoves /\ past'.outages = past.outages
      BY <2>1, HistoryGrows
    <2>3. TypeOK /\ past \in SessionsHistory /\ blacklist \in [Tokens -> Entry] /\ p \in Pairs
      BY TypesByPart, HandlerTypes DEF SessionsInv
    <2>4. p \in hashes \/ p \in past'.shortened
      BY <2>1, <2>3 DEF SessionsHistory
    <2>5. BlacklistMoves
      BY <2>1, <2>3, <2>4, TokenTypes DEF BlacklistMoves
    <2>6. NoOutage' => redisUp'
      BY <1>1 DEF RevokeListed
    <2> QED BY <1>1, <2>1, <2>2, <2>5, <2>6 DEF StoreMoves, LifeMoves, RevokeListed
  <1>2. CASE CloseIndex(t)
    <2>1. HistoryMoves /\ past'.outages = past.outages
      BY <1>2, HistoryGrows DEF CloseIndex
    <2> QED BY <1>2, <2>1, StoreUntouched DEF CloseIndex
  <1>3. CASE FallBack(t)
    <2>1. UNCHANGED <<blacklist, hashes, life, redisUp, past>>
      BY <1>3 DEF FallBack, redis
    <2> QED BY <2>1, HistoryGrows, StoreUntouched
  <1>4. CASE RevokeTaken(t)
    <2>1. HistoryMoves /\ past'.outages = past.outages
      BY <1>4, HistoryGrows DEF RevokeTaken
    <2>2. (\E K : Revoke(K)) \/ UNCHANGED blacklist
      BY <1>4 DEF RevokeTaken
    <2>3. UNCHANGED <<hashes, life, redisUp>>
      BY <1>4 DEF RevokeTaken
    <2> QED BY <2>1, <2>2, <2>3, RevokeMoves, StoreUntouched
  <1> QED BY <1>1, <1>2, <1>3, <1>4

LEMMA OtherMoves ==
  ASSUME SessionsInv,
         \/ RunCleanup
         \/ \E r \in Resets : ForgotPassword(r)
         \/ \E p \in Pairs : Expire(p)
         \/ \E k \in Tokens : BriefEntryEnds(k)
         \/ RedisFails \/ RedisReturns \/ Restart
  PROVE  StoreMoves
  <1>1. TypeOK /\ past \in SessionsHistory /\ life \in [Pairs -> Lives]
        /\ blacklist \in [Tokens -> Entry]
    BY TypesByPart DEF SessionsInv
  <1>2. CASE RunCleanup \/ \E r \in Resets : ForgotPassword(r)
    <2>1. UNCHANGED <<blacklist, hashes, life, redisUp, past>>
      BY <1>2 DEF RunCleanup, ForgotPassword, redis
    <2> QED BY <2>1, HistoryGrows, StoreUntouched
  <1>3. ASSUME NEW p \in Pairs, Expire(p) PROVE StoreMoves
    <2>1. HistoryMoves /\ past'.outages = past.outages
      BY <1>3, HistoryGrows DEF Expire
    <2>2. LifeMoves
      BY <1>1, <1>3 DEF Expire, LifeMoves
    <2>3. BlacklistMoves
      BY <1>1, <1>3, TokenTypes DEF Expire, BlacklistMoves
    <2>4. NoOutage' => redisUp'
      BY <1>3, <2>1 DEF SessionsInv, StoreOK, NoOutage, Expire
    <2> QED BY <1>3, <2>1, <2>2, <2>3, <2>4 DEF StoreMoves, Expire
  <1>4. ASSUME NEW k \in Tokens, BriefEntryEnds(k) PROVE StoreMoves
    <2>1. HistoryMoves /\ past'.outages = past.outages
      BY <1>4, HistoryGrows DEF BriefEntryEnds
    <2>2. BlacklistMoves
      BY <1>1, <1>4, TokenTypes DEF BriefEntryEnds, BlacklistMoves
    <2>3. NoOutage' => redisUp'
      BY <1>4, <2>1 DEF SessionsInv, StoreOK, NoOutage, BriefEntryEnds
    <2> QED BY <1>4, <2>1, <2>2, <2>3 DEF StoreMoves, LifeMoves, BriefEntryEnds
  <1>5. CASE RedisFails
    <2>1. UNCHANGED <<blacklist, hashes, life>> /\ past'.outages = past.outages + 1
          /\ past'.shortened = past.shortened /\ past.outages \in Nat
      BY <1>1, <1>5 DEF RedisFails, redis, SessionsHistory
    <2> QED BY <2>1 DEF StoreMoves, LifeMoves, BlacklistMoves, HistoryMoves, NoOutage
  <1>6. CASE RedisReturns
    <2>1. UNCHANGED <<blacklist, hashes, life, past>> /\ redisUp'
      BY <1>6 DEF RedisReturns, redis
    <2> QED BY <2>1, HistoryGrows DEF StoreMoves, LifeMoves, BlacklistMoves
  <1>7. CASE Restart
    <2>1. HistoryMoves /\ past'.outages = past.outages
      BY <1>7, HistoryGrows DEF Restart
    <2>2. LifeMoves
      BY <1>1, <1>7 DEF Restart, LifeMoves
    <2>3. UNCHANGED <<blacklist, hashes, redisUp>>
      BY <1>7 DEF Restart, redis
    <2>4. NoOutage' => redisUp'
      BY <2>1, <2>3 DEF SessionsInv, StoreOK, NoOutage
    <2> QED BY <2>1, <2>2, <2>3, <2>4 DEF StoreMoves, BlacklistMoves
  <1> QED BY <1>2, <1>3, <1>4, <1>5, <1>6, <1>7

-----------------------------------------------------------------------------
(* What a handler may rely on *)

\* Its knowledge survives the steps of others, which hand out no pair of its own.
LEMMA KnowledgeKept ==
  ASSUME SessionsInv, StoreMoves, NEW u \in Threads, handler'[u] = handler[u],
         handler[u].pc = "index" => \A p \in handler[u].todo : life'[p] = life[p]
  PROVE  HandlerOK(handler[u])'
  <1> DEFINE h == handler[u]
  <1>1. HandlerOK(h) /\ h \in Handler
    BY HandlerTypes DEF SessionsInv, HandlersOK
  <1>2. h.pc = "rotate" => \A p \in Pairs : h.token = Refresh(p) => life'[p] \in {"live", "over"}
    BY <1>1 DEF HandlerOK, StoreMoves, LifeMoves
  <1>3. h.pc = "unindex" => \A q \in h.todo : q \notin hashes' /\ life'[q] # "fresh"
    BY <1>1 DEF HandlerOK, StoreMoves, LifeMoves, Handler
  <1>4. ASSUME h.pc = "each", NoOutage', NEW p \in h.before, p \notin past'.shortened
        PROVE  p \in h.todo \/ life'[p] = "over" \/ blacklist'[Refresh(p)] # "none"
    <2>1. p \in Pairs
      BY <1>1 DEF Handler
    <2>2. NoOutage /\ p \notin past.shortened
      BY <1>4, TypesByPart DEF StoreMoves, HistoryMoves, NoOutage, SessionsInv, SessionsHistory
    <2>3. p \in h.todo \/ life[p] = "over" \/ blacklist[Refresh(p)] # "none"
      BY <1>1, <1>4, <2>2 DEF HandlerOK
    <2>4. life[p] = "over" => life'[p] = "over"
      BY <2>1 DEF StoreMoves, LifeMoves
    <2>5. /\ blacklist'[Refresh(p)] = "none" /\ life'[p] # "over" => blacklist[Refresh(p)] \in {"none", "brief"}
          /\ blacklist[Refresh(p)] = "brief" => p \in past.shortened
      BY <2>1 DEF StoreMoves, BlacklistMoves, SessionsInv, StoreOK
    <2> QED BY <2>2, <2>3, <2>4, <2>5
  <1>5. h.pc = "index" => \A p \in h.todo : life'[p] = "making"
    BY <1>1 DEF HandlerOK
  <1> QED BY <1>1, <1>2, <1>3, <1>4, <1>5 DEF HandlerOK

\* One handler moves; it may hand out its own pair, or take a new one.
LEMMA OneHandler ==
  ASSUME SessionsInv, StoreMoves, NEW t \in Threads,
         \A u \in Threads \ {t} : handler'[u] = handler[u],
         HandlerOK(handler[t])',
         \A p \in Pairs : life[p] = "making" /\ life'[p] # "making"
                            => handler[t].pc = "index" /\ p \in handler[t].todo,
         handler'[t].pc = "index" => \A p \in handler'[t].todo : life[p] = "fresh"
  PROVE  HandlersOK' /\ PairsAreOwn'
  <1>1. ASSUME NEW u \in Threads, u # t PROVE HandlerOK(handler[u])'
    <2>1. ASSUME handler[u].pc = "index", NEW p \in handler[u].todo PROVE life'[p] = life[p]
      <3>1. p \in Pairs /\ life[p] = "making"
        BY <2>1, HandlerTypes DEF SessionsInv, HandlersOK, HandlerOK
      <3>2. ~ (handler[t].pc = "index" /\ p \in handler[t].todo)
        BY <1>1, <2>1 DEF SessionsInv, PairsAreOwn
      <3> QED BY <3>1, <3>2
    <2> QED BY <1>1, <2>1, KnowledgeKept
  <1>2. HandlersOK'
    BY <1>1 DEF HandlersOK
  <1>3. ASSUME NEW u \in Threads, u # t, handler'[t].pc = "index", handler'[u].pc = "index"
        PROVE  handler'[t].todo \cap handler'[u].todo = {}
    <2>1. \A p \in handler[u].todo : life[p] = "making"
      BY <1>3 DEF SessionsInv, HandlersOK, HandlerOK
    <2> QED BY <1>3, <2>1
  <1>4. ASSUME NEW u \in Threads, NEW v \in Threads, u # v, u # t, v # t,
               handler'[u].pc = "index", handler'[v].pc = "index"
        PROVE  handler'[u].todo \cap handler'[v].todo = {}
    BY <1>4 DEF SessionsInv, PairsAreOwn
  <1>5. PairsAreOwn'
    BY <1>3, <1>4 DEF PairsAreOwn
  <1> QED BY <1>2, <1>5

\* No handler moves, and no pair that is being made.
LEMMA NoHandler ==
  ASSUME SessionsInv, StoreMoves, UNCHANGED handler,
         \A p \in Pairs : life[p] = "making" => life'[p] = "making"
  PROVE  HandlersOK' /\ PairsAreOwn'
  <1>1. ASSUME NEW u \in Threads PROVE HandlerOK(handler[u])'
    <2>1. handler[u].pc = "index" => \A p \in handler[u].todo : life'[p] = life[p]
      BY HandlerTypes DEF SessionsInv, HandlersOK, HandlerOK
    <2> QED BY <2>1, KnowledgeKept
  <1> QED BY <1>1 DEF HandlersOK, SessionsInv, PairsAreOwn

LEMMA IdleKnowsNothing ==
  ASSUME NEW t \in Threads, handler'[t] = Idle
  PROVE  HandlerOK(handler[t])'
  BY DEF HandlerOK, Idle

LEMMA ListingFields ==
  ASSUME NEW h \in Handler, NEW m
  PROVE  /\ Listing(h, m).before = h.before
         /\ redisUp => Listing(h, m).pc = "each" /\ Listing(h, m).todo = index \ h.keep
         /\ ~ redisUp => Listing(h, m).pc = "memory"
  BY DEF Listing, Handler

\* A listing that no password change asked for.
LEMMA ListingKnowsNothing ==
  ASSUME TypeOK, NEW t \in Threads, NEW h \in Handler, h.before = {}, NEW m,
         handler'[t] = Listing(h, m)
  PROVE  HandlerOK(handler[t])' /\ handler'[t].pc # "index"
  <1>1. handler'[t].pc \in {"each", "memory"} /\ handler'[t].before = {}
    BY ListingFields DEF TypeOK
  <1> QED BY <1>1 DEF HandlerOK

LEMMA ClosingKnowsNothing ==
  ASSUME TypeOK, NEW t \in Threads, NEW q, CloseInMemory(t, q)
  PROVE  /\ HandlerOK(handler[t])' /\ handler'[t].pc # "index"
         /\ \A u \in Threads \ {t} : handler'[u] = handler[u]
  <1>1. /\ handler'[t].pc = "memory"
        /\ \A u \in Threads \ {t} : handler'[u] = handler[u]
    BY DEF CloseInMemory, Goto, TypeOK, Idle
  <1> QED BY <1>1 DEF HandlerOK

LEMMA IssueKnows ==
  ASSUME SessionsInv, NEW t \in Threads, NEW K, IssuePair(t, K), StoreMoves
  PROVE  HandlersOK' /\ PairsAreOwn'
  <1>1. TypeOK /\ handler \in [Threads -> Handler] /\ life \in [Pairs -> Lives]
    BY TypesByPart DEF SessionsInv
  <1>2. PICK p \in Pairs :
          /\ life[p] = "fresh"
          /\ \/ /\ life' = [life EXCEPT ![p] = "making"]
                /\ handler' = [handler EXCEPT ![t] = [Idle EXCEPT !.pc = "index", !.todo = {p}]]
             \/ /\ life' = [life EXCEPT ![p] = "live"]
                /\ handler' = [handler EXCEPT ![t] = Idle]
    BY DEF IssuePair, Goto, Done
  <1>3. \A u \in Threads \ {t} : handler'[u] = handler[u]
    BY <1>1, <1>2
  <1>4. \A q \in Pairs : life[q] = "making" => life'[q] = "making"
    BY <1>1, <1>2
  <1>5. CASE handler' = [handler EXCEPT ![t] = Idle]
    <2>1. handler'[t] = Idle /\ handler'[t].pc # "index"
      BY <1>1, <1>5 DEF Idle
    <2> QED BY <1>3, <1>4, <2>1, IdleKnowsNothing, OneHandler
  <1>6. CASE /\ life' = [life EXCEPT ![p] = "making"]
             /\ handler' = [handler EXCEPT ![t] = [Idle EXCEPT !.pc = "index", !.todo = {p}]]
    <2>1. handler'[t].pc = "index" /\ handler'[t].todo = {p} /\ life'[p] = "making"
      BY <1>1, <1>6 DEF Idle
    <2>2. HandlerOK(handler[t])'
      BY <2>1 DEF HandlerOK
    <2> QED BY <1>2, <1>3, <1>4, <2>1, <2>2, OneHandler
  <1> QED BY <1>2, <1>5, <1>6

LEMMA PoolKnows ==
  ASSUME SessionsInv, NEW t \in Pool, PoolNext(t), StoreMoves
  PROVE  HandlersOK' /\ PairsAreOwn'
  <1>1. /\ t \in Threads /\ TypeOK /\ handler \in [Threads -> Handler]
        /\ handler[t] \in Handler /\ HandlerOK(handler[t])
    BY TypesByPart DEF Threads, SessionsInv, HandlersOK
  <1> USE <1>1
  <1>2. CASE Login(t) \/ Rotate(t)
    BY <1>2, IssueKnows DEF Login, Rotate
  <1>3. CASE IndexSession(t)
    <2>1. /\ handler'[t] = Idle /\ \A u \in Threads \ {t} : handler'[u] = handler[u]
          /\ handler[t].pc = "index"
      BY <1>3 DEF IndexSession, Done, Goto
    <2>2. \A p \in Pairs : life'[p] # life[p] => p \in handler[t].todo
      BY <1>3 DEF IndexSession
    <2>3. HandlerOK(handler[t])' /\ handler'[t].pc # "index"
      BY <2>1, IdleKnowsNothing DEF Idle
    <2> QED BY <2>1, <2>2, <2>3, OneHandler
  <1>4. CASE ChangePassword(t)
    <2> DEFINE h == [handler[t] EXCEPT !.before = OpenSessions]
    <2>1. h \in Handler /\ h.keep = {} /\ h.before = OpenSessions
      <3>1. OpenSessions \in SUBSET Pairs
        BY DEF OpenSessions, TypeOK
      <3>2. handler[t].keep = {}
        BY <1>4 DEF ChangePassword, HandlerOK
      <3> QED BY <3>1, <3>2, HandlerWith DEF Handler
    <2>2. /\ handler'[t] = Listing(h, memory) /\ \A u \in Threads \ {t} : handler'[u] = handler[u]
          /\ UNCHANGED <<life, redisUp>>
      BY <1>4 DEF ChangePassword, Goto
    <2> HIDE DEF h
    <2>3. /\ handler'[t].pc \in {"each", "memory"} /\ handler'[t].before = OpenSessions
          /\ handler'[t].pc = "each" => handler'[t].todo = index
      <3>1. Listing(h, memory).before = OpenSessions
        BY <2>1, ListingFields
      <3>2. CASE redisUp
        <4>1. Listing(h, memory).pc = "each" /\ Listing(h, memory).todo = index \ h.keep
          BY <2>1, <3>2, ListingFields
        <4>2. index \ h.keep = index
          BY <2>1
        <4> QED BY <2>2, <3>1, <4>1, <4>2
      <3>3. CASE ~ redisUp
        <4>1. Listing(h, memory).pc = "memory"
          BY <2>1, <3>3, ListingFields
        <4> QED BY <2>2, <3>1, <4>1
      <3> QED BY <3>2, <3>3
    <2>4. HandlerOK(handler[t])'
      BY <2>3 DEF HandlerOK, OpenSessions
    <2> QED BY <2>2, <2>3, <2>4, OneHandler
  <1>5. CASE ChangeRefusedLate(t)
    <2>1. /\ handler'[t] = Idle /\ \A u \in Threads \ {t} : handler'[u] = handler[u]
          /\ UNCHANGED life
      BY <1>5 DEF ChangeRefusedLate, Done, Goto
    <2>2. HandlerOK(handler[t])' /\ handler'[t].pc # "index"
      BY <2>1, IdleKnowsNothing DEF Idle
    <2> QED BY <2>1, <2>2, OneHandler
  <1>6. CASE UnindexSession(t)
    <2>1. UNCHANGED life
      BY <1>6 DEF UnindexSession
    <2>2. CASE Done(t)
      <3>1. handler'[t] = Idle /\ \A u \in Threads \ {t} : handler'[u] = handler[u]
        BY <2>2 DEF Done, Goto
      <3>2. HandlerOK(handler[t])' /\ handler'[t].pc # "index"
        BY <3>1, IdleKnowsNothing DEF Idle
      <3> QED BY <2>1, <3>1, <3>2, OneHandler
    <2>3. CASE \E q \in handler[t].todo : CloseInMemory(t, q)
      BY <2>1, <2>3, ClosingKnowsNothing, OneHandler
    <2> QED BY <1>6, <2>2, <2>3 DEF UnindexSession
  <1>7. ASSUME NEW p \in Pairs, BeginRefresh(t, p) PROVE HandlersOK' /\ PairsAreOwn'
    <2>1. /\ handler'[t].pc = "rotate" /\ handler'[t].token = Refresh(p)
          /\ \A u \in Threads \ {t} : handler'[u] = handler[u]
          /\ UNCHANGED life /\ life[p] = "live"
      BY <1>7 DEF BeginRefresh, Goto, Idle, Passes
    <2>2. HandlerOK(handler[t])'
      BY <2>1, TokenTypes DEF HandlerOK
    <2> QED BY <2>1, <2>2, OneHandler
  <1>8. ASSUME NEW k \in Tokens, NEW o, Goto(t, [Idle EXCEPT !.pc = o, !.token = k, !.op = o]),
               o \in {"reset", "change"}, UNCHANGED life
        PROVE  HandlersOK' /\ PairsAreOwn'
    <2>1. /\ handler'[t].pc \in {"reset", "change"} /\ handler'[t].token = k /\ handler'[t].keep = {}
          /\ \A u \in Threads \ {t} : handler'[u] = handler[u]
      BY <1>8 DEF Goto, Idle
    <2>2. HandlerOK(handler[t])'
      BY <2>1 DEF HandlerOK
    <2> QED BY <1>8, <2>1, <2>2, OneHandler
  <1>9. ASSUME NEW p \in Pairs, BeginChange(t, p) PROVE HandlersOK' /\ PairsAreOwn'
    BY <1>8, <1>9, TokenTypes DEF BeginChange
  <1>10. ASSUME NEW r \in Resets, BeginReset(t, r) PROVE HandlersOK' /\ PairsAreOwn'
    BY <1>8, <1>10, TokenTypes DEF BeginReset
  <1>11. ASSUME NEW p \in Pairs, Logout(t, p) PROVE HandlersOK' /\ PairsAreOwn'
    BY <1>11, NoHandler DEF Logout
  <1>12. ASSUME NEW p \in Pairs, RevokeOthers(t, p) PROVE HandlersOK' /\ PairsAreOwn'
    <2> DEFINE h == [Idle EXCEPT !.op = "others", !.keep = {p}]
    <2>1. h \in Handler /\ h.before = {}
      BY NewHandlers DEF Idle
    <2>2. /\ handler'[t] = Listing(h, memory) /\ \A u \in Threads \ {t} : handler'[u] = handler[u]
          /\ UNCHANGED life
      BY <1>12 DEF RevokeOthers, Goto
    <2> HIDE DEF h
    <2>3. HandlerOK(handler[t])' /\ handler'[t].pc # "index"
      BY <2>1, <2>2, ListingKnowsNothing
    <2> QED BY <2>2, <2>3, OneHandler
  <1>13. ASSUME NEW p \in Pairs, NEW q \in Pairs, RevokeSession(t, p, q)
         PROVE  HandlersOK' /\ PairsAreOwn'
    <2>1. UNCHANGED life
      BY <1>13 DEF RevokeSession
    <2>2. CASE redisUp
      <3>1. /\ handler'[t].pc = "unindex" /\ handler'[t].todo = {q}
            /\ \A u \in Threads \ {t} : handler'[u] = handler[u]
            /\ hashes' = hashes \ {q} /\ q \in hashes
        BY <1>13, <2>2 DEF RevokeSession, Goto, Idle, Listed
      <3>2. life[q] # "fresh"
        BY <3>1 DEF SessionsInv, StoreOK
      <3>3. HandlerOK(handler[t])'
        BY <2>1, <3>1, <3>2 DEF HandlerOK
      <3> QED BY <2>1, <3>1, <3>3, OneHandler
    <2>3. CASE ~ redisUp
      BY <1>13, <2>1, <2>3, ClosingKnowsNothing, OneHandler DEF RevokeSession
    <2> QED BY <2>2, <2>3
  <1> QED BY <1>2, <1>3, <1>4, <1>5, <1>6, <1>7, <1>9, <1>10, <1>11, <1>12, <1>13 DEF PoolNext

LEMMA RevocationKnows ==
  ASSUME SessionsInv, StoreMoves, NEW t \in Threads,
         RevokeListed(t) \/ CloseIndex(t) \/ FallBack(t) \/ RevokeTaken(t)
  PROVE  HandlersOK' /\ PairsAreOwn'
  <1> DEFINE h == handler[t]
  <1>1. /\ TypeOK /\ handler \in [Threads -> Handler] /\ h \in Handler /\ HandlerOK(h)
        /\ blacklist \in [Tokens -> Entry]
    BY TypesByPart DEF SessionsInv, HandlersOK
  <1> HIDE DEF h
  <1>2. UNCHANGED life
    BY DEF RevokeListed, CloseIndex, FallBack, RevokeTaken
  <1>3. ASSUME handler'[t] = Idle, \A u \in Threads \ {t} : handler'[u] = handler[u]
        PROVE  HandlersOK' /\ PairsAreOwn'
    <2>1. HandlerOK(handler[t])' /\ handler'[t].pc # "index"
      BY <1>3, IdleKnowsNothing DEF Idle
    <2> QED BY <1>2, <1>3, <2>1, OneHandler
  <1>4. CASE RevokeListed(t)
    <2>1. PICK p \in h.todo :
            /\ blacklist' = [blacklist EXCEPT ![Refresh(p)] = IF p \in hashes THEN "full" ELSE "brief"]
            /\ handler' = [handler EXCEPT ![t] = [h EXCEPT !.todo = h.todo \ {p}]]
      BY <1>4 DEF RevokeListed, Goto, h
    <2>2. h.pc = "each" /\ redisUp /\ UNCHANGED redisUp
      BY <1>4 DEF RevokeListed, h
    <2>3. /\ handler'[t].pc = "each" /\ handler'[t].todo = h.todo \ {p} /\ handler'[t].before = h.before
          /\ \A u \in Threads \ {t} : handler'[u] = handler[u]
      BY <1>1, <2>1, <2>2 DEF Handler
    <2>4. ASSUME NoOutage', NEW q \in h.before, q \notin past'.shortened
          PROVE  q \in h.todo \ {p} \/ life'[q] = "over" \/ blacklist'[Refresh(q)] # "none"
      <3>1. q \in Pairs /\ p \in Pairs
        BY <1>1 DEF Handler
      <3>2. CASE q = p
        BY <1>1, <2>1, <3>1, <3>2, TokenTypes
      <3>3. CASE q # p
        <4>1. blacklist'[Refresh(q)] = blacklist[Refresh(q)]
          BY <1>1, <2>1, <3>1, <3>3, TokenTypes
        <4>2. q \notin past.shortened /\ NoOutage
          BY <2>4, TypesByPart DEF StoreMoves, HistoryMoves, NoOutage, SessionsInv, SessionsHistory
        <4> QED BY <1>1, <1>2, <2>2, <3>3, <4>1, <4>2 DEF HandlerOK
      <3> QED BY <3>2, <3>3
    <2>5. HandlerOK(handler[t])'
      BY <2>3, <2>4 DEF HandlerOK
    <2> QED BY <1>2, <2>3, <2>5, OneHandler
  <1>5. CASE CloseIndex(t)
    BY <1>1, <1>3, <1>5 DEF CloseIndex, Finish, Done, Goto
  <1>6. CASE FallBack(t)
    <2>1. /\ handler'[t] = Listing(h, memory) /\ ~ redisUp
          /\ \A u \in Threads \ {t} : handler'[u] = handler[u]
      BY <1>1, <1>6 DEF FallBack, Goto, h
    <2>2. handler'[t].pc = "memory"
      BY <1>1, <2>1, ListingFields
    <2>3. HandlerOK(handler[t])'
      BY <2>2 DEF HandlerOK
    <2> QED BY <1>2, <2>1, <2>2, <2>3, OneHandler
  <1>7. CASE RevokeTaken(t)
    <2>1. CASE Finish(t)
      BY <1>1, <1>3, <2>1 DEF Finish, Done, Goto
    <2>2. ASSUME NEW p \in h.todo, Goto(t, [h EXCEPT !.todo = @ \ {p}])
          PROVE  HandlersOK' /\ PairsAreOwn'
      <3>1. /\ handler'[t].pc = "memory" /\ \A u \in Threads \ {t} : handler'[u] = handler[u]
        BY <1>1, <1>7, <2>2 DEF RevokeTaken, Goto, Handler, h
      <3>2. HandlerOK(handler[t])'
        BY <3>1 DEF HandlerOK
      <3> QED BY <1>2, <3>1, <3>2, OneHandler
    <2> QED BY <1>7, <2>1, <2>2 DEF RevokeTaken, h
  <1> QED BY <1>4, <1>5, <1>6, <1>7

LEMMA OtherKnows ==
  ASSUME SessionsInv, StoreMoves,
         \/ RunCleanup
         \/ \E r \in Resets : ForgotPassword(r)
         \/ \E p \in Pairs : Expire(p)
         \/ \E k \in Tokens : BriefEntryEnds(k)
         \/ RedisFails \/ RedisReturns \/ Restart
  PROVE  HandlersOK' /\ PairsAreOwn'
  <1>1. TypeOK /\ handler \in [Threads -> Handler] /\ life \in [Pairs -> Lives]
    BY TypesByPart DEF SessionsInv
  <1>2. CASE RunCleanup
    <2> DEFINE h == [Idle EXCEPT !.op = "cleanup"]
    <2>1. h \in Handler /\ h.before = {} /\ Worker \in Threads
      BY NewHandlers DEF Idle, Threads
    <2>2. /\ handler'[Worker] = Listing(h, memory)
          /\ \A u \in Threads \ {Worker} : handler'[u] = handler[u]
          /\ UNCHANGED life
      BY <1>1, <1>2, <2>1 DEF RunCleanup, Goto
    <2> HIDE DEF h
    <2>3. HandlerOK(handler[Worker])' /\ handler'[Worker].pc # "index"
      BY <1>1, <2>1, <2>2, ListingKnowsNothing
    <2> QED BY <2>1, <2>2, <2>3, OneHandler
  <1>3. CASE \/ \E r \in Resets : ForgotPassword(r)
             \/ \E k \in Tokens : BriefEntryEnds(k)
             \/ RedisFails \/ RedisReturns
    BY <1>3, NoHandler DEF ForgotPassword, BriefEntryEnds, RedisFails, RedisReturns
  <1>4. ASSUME NEW p \in Pairs, Expire(p) PROVE HandlersOK' /\ PairsAreOwn'
    <2>1. UNCHANGED handler /\ \A q \in Pairs : life[q] = "making" => life'[q] = "making"
      BY <1>1, <1>4 DEF Expire
    <2> QED BY <2>1, NoHandler
  <1>5. CASE Restart
    <2>1. \A u \in Threads : handler'[u] = Idle
      BY <1>5 DEF Restart
    <2>2. \A u \in Threads : HandlerOK(handler[u])'
      BY <2>1, IdleKnowsNothing
    <2>3. \A u \in Threads : handler'[u].pc # "index"
      BY <2>1 DEF Idle
    <2> QED BY <2>2, <2>3 DEF HandlersOK, PairsAreOwn
  <1> QED BY <1>2, <1>3, <1>4, <1>5

\* Entries of the store.
LEMMA StoreStep ==
  ASSUME SessionsInv, StoreMoves, TypeOK'
  PROVE  StoreOK'
  <1>1. \A p \in hashes' : life'[p] # "fresh"
    <2>1. ASSUME NEW p \in hashes' PROVE life'[p] # "fresh"
      <3>1. p \in Pairs
        BY DEF TypeOK
      <3> QED BY <3>1 DEF StoreMoves, LifeMoves, SessionsInv, StoreOK
    <2> QED BY <2>1
  <1>2. \A p \in Pairs : blacklist'[Refresh(p)] = "brief" => p \in past'.shortened
    BY DEF StoreMoves, BlacklistMoves, HistoryMoves, SessionsInv, StoreOK
  <1>3. NoOutage' => redisUp'
    BY DEF StoreMoves
  <1> QED BY <1>1, <1>2, <1>3 DEF StoreOK

-----------------------------------------------------------------------------
(* Exchanged refresh tokens *)

LEMMA RotatingType ==
  ASSUME NEW p
  PROVE  IsFiniteSet(Rotating(p)) /\ Cardinality(Rotating(p)) \in Nat
         /\ Cardinality(Rotating(p)) <= Cardinality(Pool) /\ Cardinality(Pool) \in Nat
  <1>1. Rotating(p) \subseteq Pool
    BY DEF Rotating
  <1> QED BY <1>1, FS_Subset, FS_CardinalityType, SessionsAssumption

\* A token that was exchanged stays refused or over.
LEMMA ExchangedStaysRefused ==
  ASSUME SessionsInv, StoreMoves, NEW p \in Pairs \ past'.shortened,
         life[p] = "over" \/ (life[p] = "live" /\ blacklist[Refresh(p)] = "full")
  PROVE  life'[p] = "over" \/ (life'[p] = "live" /\ blacklist'[Refresh(p)] = "full")
  BY DEF StoreMoves, LifeMoves, BlacklistMoves

LEMMA OutagesRemain ==
  ASSUME SessionsInv, StoreMoves, NoOutage'
  PROVE  NoOutage /\ redisUp /\ past.shortened \subseteq past'.shortened
  <1>1. past.outages \in Nat /\ past'.outages = 0 /\ past.outages <= past'.outages
    BY TypesByPart DEF StoreMoves, HistoryMoves, NoOutage, SessionsInv, SessionsHistory
  <1> QED BY <1>1 DEF StoreMoves, HistoryMoves, NoOutage, SessionsInv, StoreOK

\* No token is exchanged, and no request begins to.
LEMMA NothingExchanged ==
  ASSUME SessionsInv, StoreMoves, past'.exchanged = past.exchanged,
         \A u \in Pool : handler'[u].pc = "rotate" => handler'[u] = handler[u]
  PROVE  ExchangesOK'
  <1> SUFFICES ASSUME NoOutage', NEW p \in Pairs \ past'.shortened PROVE Exchange(p)'
    BY DEF ExchangesOK
  <1>1. Exchange(p)
    BY OutagesRemain DEF SessionsInv, ExchangesOK
  <1>2. Rotating(p)' \subseteq Rotating(p)
    BY DEF Rotating
  <1>3. Cardinality(Rotating(p)') <= Cardinality(Rotating(p)) /\ Cardinality(Rotating(p)') \in Nat
    BY <1>2, RotatingType, FS_Subset, FS_CardinalityType
  <1>4. past.exchanged[p] \in Nat
    BY TypesByPart DEF SessionsInv, SessionsHistory
  <1>5. past'.exchanged[p] + Cardinality(Rotating(p)') <= Cardinality(Pool)
    <2>1. past.exchanged[p] + Cardinality(Rotating(p)) <= Cardinality(Pool)
      BY <1>1 DEF Exchange
    <2> HIDE DEF Rotating
    <2> QED BY <1>3, <1>4, <2>1, RotatingType
  <1> QED BY <1>1, <1>5, ExchangedStaysRefused DEF Exchange

LEMMA BeginRefreshExchanges ==
  ASSUME SessionsInv, StoreMoves, NEW t \in Pool, NEW p \in Pairs, BeginRefresh(t, p)
  PROVE  ExchangesOK'
  <1> SUFFICES ASSUME NoOutage', NEW q \in Pairs \ past'.shortened PROVE Exchange(q)'
    BY DEF ExchangesOK
  <1>1. Exchange(q) /\ redisUp
    BY OutagesRemain DEF SessionsInv, ExchangesOK
  <1>2. past'.exchanged = past.exchanged /\ UNCHANGED <<life, blacklist>>
    BY TypesByPart DEF BeginRefresh, Called, redis, SessionsInv, SessionsHistory
  <1>3. past.exchanged[q] \in Nat
    BY TypesByPart DEF SessionsInv, SessionsHistory
  <1>4. /\ handler'[t].token = Refresh(p) /\ t \in Threads
        /\ \A u \in Threads \ {t} : handler'[u] = handler[u]
    BY TypesByPart DEF BeginRefresh, Goto, Idle, SessionsInv, Threads
  <1>5. CASE q = p
    <2>1. life[p] = "live" /\ blacklist[Refresh(p)] = "none"
      BY <1>1 DEF BeginRefresh, Passes, IsRevoked
    <2>2. past.exchanged[q] = 0
      BY <1>1, <1>3, <1>5, <2>1 DEF Exchange
    <2>3. Rotating(q)' \subseteq Pool
      BY DEF Rotating
    <2>4. Cardinality(Rotating(q)') <= Cardinality(Pool)
      BY <2>3, FS_Subset, SessionsAssumption
    <2>5. Cardinality(Rotating(q)') \in Nat
      BY <2>3, FS_Subset, FS_CardinalityType, SessionsAssumption
    <2>6. 0 + Cardinality(Rotating(q)') <= Cardinality(Pool)
      BY <2>4, <2>5
    <2> QED BY <1>2, <2>2, <2>6 DEF Exchange
  <1>6. CASE q # p
    <2>1. Rotating(q)' = Rotating(q)
      <3>1. handler[t].pc # "rotate" /\ handler'[t].token # Refresh(q)
        BY <1>4, <1>6, TokenTypes DEF BeginRefresh, Take
      <3> QED BY <1>4, <3>1 DEF Rotating, Threads
    <2> QED BY <1>1, <1>2, <2>1 DEF Exchange
  <1> QED BY <1>5, <1>6

LEMMA RotateExchanges ==
  ASSUME SessionsInv, StoreMoves, NEW t \in Pool, Rotate(t)
  PROVE  ExchangesOK'
  <1> SUFFICES ASSUME NoOutage', NEW q \in Pairs \ past'.shortened PROVE Exchange(q)'
    BY DEF ExchangesOK
  <1> DEFINE k == handler[t].token
  <1>1. Exchange(q) /\ redisUp
    BY OutagesRemain DEF SessionsInv, ExchangesOK
  <1>2. /\ handler[t].pc = "rotate" /\ k \in Tokens
        /\ k = Refresh(q) => life[q] \in {"live", "over"}
        /\ t \in Threads
    BY DEF Rotate, SessionsInv, HandlersOK, HandlerOK, Threads
  <1>3. PICK p \in Pairs :
          /\ life[p] = "fresh" /\ life' = [life EXCEPT ![p] = "making"]
          /\ handler' = [handler EXCEPT ![t] = [Idle EXCEPT !.pc = "index", !.todo = {p}]]
          /\ blacklist' = Blacklisted({k})
    BY <1>1 DEF Rotate, IssuePair, Goto
  <1>4. /\ handler \in [Threads -> Handler] /\ life \in [Pairs -> Lives]
        /\ past.exchanged \in [Pairs -> Nat] /\ past.exchanged[q] \in Nat
    BY TypesByPart DEF SessionsInv, SessionsHistory
  <1>5. past'.exchanged[q] = IF k = Refresh(q) THEN past.exchanged[q] + 1 ELSE past.exchanged[q]
    BY TypesByPart DEF Rotate, Exchanged, SessionsInv, SessionsHistory
  <1>6. Rotating(q)' = Rotating(q) \ {t}
    BY <1>2, <1>3, <1>4 DEF Rotating, Idle, Threads
  <1>7. CASE k = Refresh(q)
    <2>1. t \in Rotating(q)
      BY <1>2, <1>7 DEF Rotating
    <2>2. Cardinality(Rotating(q)') = Cardinality(Rotating(q)) - 1
      BY <1>6, <2>1, RotatingType, FS_RemoveElement
    <2>3. past.exchanged[q] + Cardinality(Rotating(q)) <= Cardinality(Pool)
      BY <1>1 DEF Exchange
    <2>4. past'.exchanged[q] + Cardinality(Rotating(q)') <= Cardinality(Pool)
      <3> HIDE DEF Rotating
      <3> QED BY <1>4, <1>5, <1>7, <2>2, <2>3, RotatingType
    <2>5. life'[q] = life[q] /\ life[q] \in {"live", "over"} /\ blacklist'[Refresh(q)] = "full"
      BY <1>2, <1>3, <1>4, <1>7, TokenTypes DEF Blacklisted
    <2> QED BY <2>4, <2>5 DEF Exchange
  <1>8. CASE k # Refresh(q)
    <2>1. Rotating(q)' = Rotating(q) /\ past'.exchanged[q] = past.exchanged[q]
      BY <1>5, <1>6, <1>8 DEF Rotating
    <2> QED BY <1>1, <2>1, ExchangedStaysRefused DEF Exchange
  <1> QED BY <1>7, <1>8

LEMMA ExchangesStep ==
  ASSUME SessionsInv, StoreMoves, Next
  PROVE  ExchangesOK'
  <1>1. TypeOK /\ handler \in [Threads -> Handler] /\ past \in SessionsHistory /\ Pool \subseteq Threads
    BY TypesByPart DEF SessionsInv, Threads
  <1>2. ASSUME NEW t \in Pool, PoolNext(t), ~ Rotate(t), \A p \in Pairs : ~ BeginRefresh(t, p)
        PROVE  ExchangesOK'
    <2>1. past'.exchanged = past.exchanged
      BY <1>1, <1>2 DEF PoolNext, Login, IndexSession, ChangePassword, ChangeRefusedLate, UnindexSession,
           Logout, BeginChange, RevokeOthers, RevokeSession, BeginReset, Called, SessionsHistory
    <2>2. /\ \A u \in Threads \ {t} : handler'[u] = handler[u]
          /\ handler'[t].pc = "rotate" => handler'[t] = handler[t]
      <3>1. CASE Login(t)
        <4>1. PICK p \in Pairs :
                \/ handler' = [handler EXCEPT ![t] = [Idle EXCEPT !.pc = "index", !.todo = {p}]]
                \/ handler' = [handler EXCEPT ![t] = Idle]
          BY <3>1 DEF Login, IssuePair, Goto, Done
        <4>2. Idle.pc = "idle" /\ [Idle EXCEPT !.pc = "index", !.todo = {p}].pc = "index"
          BY DEF Idle
        <4> QED BY <1>1, <4>1, <4>2
      <3>2. CASE IndexSession(t) \/ ChangeRefusedLate(t)
        BY <1>1, <3>2 DEF IndexSession, ChangeRefusedLate, Done, Goto, Idle
      <3>3. CASE UnindexSession(t)
        <4>1. CASE Done(t)
          BY <1>1, <4>1 DEF Done, Goto, Idle
        <4>2. ASSUME NEW q \in handler[t].todo, CloseInMemory(t, q)
              PROVE  /\ \A u \in Threads \ {t} : handler'[u] = handler[u]
                     /\ handler'[t].pc # "rotate"
          BY <1>1, <4>2 DEF CloseInMemory, Goto, Idle
        <4> QED BY <3>3, <4>1, <4>2 DEF UnindexSession
      <3>4. CASE ChangePassword(t)
        <4> DEFINE h == [handler[t] EXCEPT !.before = OpenSessions]
        <4>1. h \in Handler
          <5>1. OpenSessions \in SUBSET Pairs
            BY <1>1 DEF OpenSessions, TypeOK
          <5> QED BY <1>1, <5>1, HandlerWith
        <4>2. handler' = [handler EXCEPT ![t] = Listing(h, memory)]
          BY <1>1, <3>4 DEF ChangePassword, Goto
        <4>3. Listing(h, memory).pc # "rotate"
          <5> HIDE DEF h
          <5> QED BY <1>1, <4>1, ListingFields DEF TypeOK
        <4> QED BY <1>1, <4>2, <4>3
      <3>5. ASSUME NEW p \in Pairs, RevokeOthers(t, p)
            PROVE  /\ \A u \in Threads \ {t} : handler'[u] = handler[u]
                   /\ handler'[t].pc = "rotate" => handler'[t] = handler[t]
        <4> DEFINE h == [Idle EXCEPT !.op = "others", !.keep = {p}]
        <4>1. h \in Handler
          BY NewHandlers
        <4>2. handler' = [handler EXCEPT ![t] = Listing(h, memory)]
          BY <1>1, <3>5 DEF RevokeOthers, Goto
        <4>3. Listing(h, memory).pc # "rotate"
          <5> HIDE DEF h
          <5> QED BY <1>1, <4>1, ListingFields DEF TypeOK
        <4> QED BY <1>1, <4>2, <4>3
      <3>6. ASSUME NEW p \in Pairs, Logout(t, p) \/ BeginChange(t, p)
                                      \/ \E q \in Pairs : RevokeSession(t, p, q)
            PROVE  /\ \A u \in Threads \ {t} : handler'[u] = handler[u]
                   /\ handler'[t].pc = "rotate" => handler'[t] = handler[t]
        BY <1>1, <3>6, IdleType DEF Logout, BeginChange, RevokeSession, CloseInMemory, Goto, Idle
      <3>7. ASSUME NEW r \in Resets, BeginReset(t, r)
            PROVE  /\ \A u \in Threads \ {t} : handler'[u] = handler[u]
                   /\ handler'[t].pc = "rotate" => handler'[t] = handler[t]
        BY <1>1, <3>7 DEF BeginReset, Goto, Idle
      <3> QED BY <1>2, <3>1, <3>2, <3>3, <3>4, <3>5, <3>6, <3>7 DEF PoolNext
    <2>3. \A u \in Pool : handler'[u].pc = "rotate" => handler'[u] = handler[u]
      BY <1>1, <2>2 DEF Threads
    <2> QED BY <2>1, <2>3, NothingExchanged
  <1>3. ASSUME NEW t \in Threads, RevokeListed(t) \/ CloseIndex(t) \/ FallBack(t) \/ RevokeTaken(t)
        PROVE  ExchangesOK'
    <2>1. past'.exchanged = past.exchanged
      BY <1>1, <1>3 DEF RevokeListed, CloseIndex, FallBack, RevokeTaken, SessionsHistory
    <2>2. handler[t] \in Handler
      BY <1>1
    <2>3. /\ \A u \in Threads \ {t} : handler'[u] = handler[u]
          /\ handler'[t].pc = "rotate" => handler'[t] = handler[t]
      <3>1. CASE RevokeListed(t)
        BY <1>1, <2>2, <3>1 DEF RevokeListed, Goto, Handler
      <3>2. CASE CloseIndex(t)
        BY <1>1, <3>2 DEF CloseIndex, Finish, Done, Goto, Idle
      <3>3. CASE FallBack(t)
        <4>1. Listing(handler[t], memory).pc # "rotate"
          BY <1>1, <2>2, ListingFields DEF TypeOK
        <4> QED BY <1>1, <3>3, <4>1 DEF FallBack, Goto
      <3>4. CASE RevokeTaken(t)
        <4>1. CASE Finish(t)
          BY <1>1, <4>1 DEF Finish, Done, Goto, Idle
        <4>2. ASSUME NEW p \in handler[t].todo, Goto(t, [handler[t] EXCEPT !.todo = @ \ {p}])
              PROVE  /\ \A u \in Threads \ {t} : handler'[u] = handler[u]
                     /\ handler'[t].pc # "rotate"
          BY <1>1, <2>2, <3>4, <4>2 DEF Goto, Handler, RevokeTaken
        <4> QED BY <3>4, <4>1, <4>2 DEF RevokeTaken
      <3> QED BY <1>3, <3>1, <3>2, <3>3, <3>4
    <2>4. \A u \in Pool : handler'[u].pc = "rotate" => handler'[u] = handler[u]
      BY <1>1, <2>3 DEF Threads
    <2> QED BY <2>1, <2>4, NothingExchanged
  <1>4. CASE RunCleanup
    <2>1. past'.exchanged = past.exchanged /\ \A u \in Pool : handler'[u] = handler[u]
      BY <1>1, <1>4, SessionsAssumption DEF RunCleanup, Goto, Threads
    <2> QED BY <2>1, NothingExchanged
  <1>5. CASE \/ \E r \in Resets : ForgotPassword(r)
             \/ \E p \in Pairs : Expire(p)
             \/ \E k \in Tokens : BriefEntryEnds(k)
             \/ RedisFails \/ RedisReturns
    <2>1. past'.exchanged = past.exchanged /\ UNCHANGED handler
      BY <1>1, <1>5 DEF ForgotPassword, Expire, BriefEntryEnds, RedisFails, RedisReturns, SessionsHistory
    <2> QED BY <2>1, NothingExchanged
  <1>6. CASE Restart
    <2>1. past'.exchanged = past.exchanged
      BY <1>1, <1>6 DEF Restart, SessionsHistory
    <2>2. \A u \in Pool : handler'[u].pc # "rotate"
      BY <1>1, <1>6 DEF Restart, Idle
    <2> QED BY <2>1, <2>2, NothingExchanged
  <1> QED BY <1>2, <1>3, <1>4, <1>5, <1>6, RotateExchanges, BeginRefreshExchanges DEF Next

-----------------------------------------------------------------------------
(* The theorems *)

LEMMA SessionsBegin == Init => SessionsInv
  <1> SUFFICES ASSUME Init PROVE SessionsInv
    OBVIOUS
  <1>1. TypeOK
    <2>1. handler \in [Threads -> Handler]
      BY IdleType DEF Init
    <2>2. memory \in Memory
      BY DEF Init, EmptyMemory, Memory
    <2>3. past \in SessionsHistory
      BY DEF Init, SessionsHistory
    <2> QED BY <2>1, <2>2, <2>3, TypesByPart DEF Init, Entry, Lives
  <1>2. HandlersOK /\ PairsAreOwn
    BY DEF Init, HandlersOK, HandlerOK, PairsAreOwn, Idle
  <1>3. StoreOK
    BY TokenTypes DEF Init, StoreOK
  <1>4. ExchangesOK
    <2> SUFFICES ASSUME NEW p \in Pairs PROVE Exchange(p)
      BY DEF ExchangesOK
    <2>1. past.exchanged[p] = 0
      BY DEF Init
    <2> QED BY <2>1, RotatingType DEF Exchange
  <1> QED BY <1>1, <1>2, <1>3, <1>4 DEF SessionsInv

LEMMA SessionsStep ==
  ASSUME SessionsInv, [Next]_vars
  PROVE  SessionsInv'
  <1>1. TypeOK'
    BY TypeStep DEF SessionsInv
  <1>2. CASE UNCHANGED vars
    BY <1>1, <1>2 DEF vars, SessionsInv, HandlersOK, HandlerOK, PairsAreOwn, StoreOK, ExchangesOK, Exchange,
         Rotating, NoOutage
  <1>3. CASE Next
    <2>1. StoreMoves
      BY <1>3, PoolMoves, RevocationMoves, OtherMoves DEF Next
    <2>2. HandlersOK' /\ PairsAreOwn'
      BY <1>3, <2>1, PoolKnows, RevocationKnows, OtherKnows DEF Next
    <2>3. StoreOK'
      BY <1>1, <2>1, StoreStep
    <2>4. ExchangesOK'
      BY <1>3, <2>1, ExchangesStep
    <2> QED BY <1>1, <2>2, <2>3, <2>4 DEF SessionsInv
  <1> QED BY <1>2, <1>3

LEMMA SessionsInvariant == Spec => []SessionsInv
  BY SessionsBegin, SessionsStep, PTL DEF Spec

\* The three dictionaries, the keys of Redis and the handlers keep their types.
THEOREM SessionTypesHold == Spec => []TypeOK
  <1>1. SessionsInv => TypeOK
    BY DEF SessionsInv
  <1> QED BY <1>1, SessionsInvariant, PTL

\* While Redis answers, a refresh token is exchanged at most once by each thread of
\* the pool: only by requests that overlap with its first use (AuthService.refresh).
THEOREM RefreshTokensAreSpent == Spec => []RefreshTokenIsSpent
  <1>1. SessionsInv => RefreshTokenIsSpent
    <2> SUFFICES ASSUME SessionsInv, NoOutage, NEW p \in Pairs \ past.shortened
                 PROVE  past.exchanged[p] <= Cardinality(Pool)
      BY DEF RefreshTokenIsSpent
    <2>1. past.exchanged[p] + Cardinality(Rotating(p)) <= Cardinality(Pool)
      BY DEF SessionsInv, ExchangesOK, Exchange
    <2>2. past.exchanged[p] \in Nat
      BY TypesByPart DEF SessionsInv, SessionsHistory
    <2> HIDE DEF Rotating
    <2> QED BY <2>1, <2>2, RotatingType
  <1> QED BY <1>1, SessionsInvariant, PTL

-----------------------------------------------------------------------------
(* The indexes *)

\* Whatever a handler lists, it takes out of memory and of its index together.
LEMMA TakenStaysIndexed ==
  ASSUME NEW h, NEW m \in Memory, m.sessions \subseteq m.index
  PROVE  TakenFromMemory(h, m).sessions \subseteq TakenFromMemory(h, m).index
  BY DEF TakenFromMemory, Memory

LEMMA TokensStayIndexed ==
  ASSUME NEW m \in Memory, NEW K
  PROVE  [m EXCEPT !.tokens = @ \cup K].sessions = m.sessions
         /\ [m EXCEPT !.tokens = @ \cup K].index = m.index
  BY DEF Memory

LEMMA RegisteredStaysIndexed ==
  ASSUME NEW m \in Memory, NEW new, m.sessions \subseteq m.index
  PROVE  RegisteredInMemory(m, new).sessions \subseteq RegisteredInMemory(m, new).index
  BY DEF RegisteredInMemory, Memory

LEMMA CloseStaysIndexed ==
  ASSUME TypeOK, MemoryIsIndexed, NEW t, NEW q, CloseInMemory(t, q)
  PROVE  MemoryIsIndexed'
  BY DEF CloseInMemory, MemoryIsIndexed, TypeOK

LEMMA MemoryStep ==
  ASSUME SessionsInv, MemoryIsIndexed, [Next]_vars
  PROVE  MemoryIsIndexed'
  <1>1. TypeOK /\ memory \in Memory /\ memory.sessions \subseteq memory.index
    BY TypesByPart DEF SessionsInv, MemoryIsIndexed
  <1>2. CASE UNCHANGED memory
    BY <1>2 DEF MemoryIsIndexed
  <1>3. ASSUME NEW K, memory' = [memory EXCEPT !.tokens = @ \cup K] PROVE MemoryIsIndexed'
    BY <1>1, <1>3, TokensStayIndexed DEF MemoryIsIndexed
  <1>4. ASSUME NEW h, memory' = TakenFromMemory(h, memory) PROVE MemoryIsIndexed'
    BY <1>1, <1>4, TakenStaysIndexed DEF MemoryIsIndexed
  <1>5. ASSUME NEW t \in Threads, NEW K \in SUBSET Tokens, IssuePair(t, K) PROVE MemoryIsIndexed'
    <2>1. PICK p \in Pairs : \/ UNCHANGED memory
                             \/ memory' = RegisteredInMemory([memory EXCEPT !.tokens = @ \cup K], {p})
      BY <1>5 DEF IssuePair
    <2>2. [memory EXCEPT !.tokens = @ \cup K] \in Memory
      BY <1>1, BlacklistedType
    <2>3. [memory EXCEPT !.tokens = @ \cup K].sessions \subseteq [memory EXCEPT !.tokens = @ \cup K].index
      BY <1>1, TokensStayIndexed
    <2> QED BY <1>2, <2>1, <2>2, <2>3, RegisteredStaysIndexed DEF MemoryIsIndexed
  <1>6. ASSUME NEW t \in Pool, PoolNext(t) PROVE MemoryIsIndexed'
    <2>1. t \in Threads
      BY DEF Threads
    <2>2. CASE Login(t)
      BY <1>5, <2>1, <2>2 DEF Login
    <2>3. CASE Rotate(t)
      <3>1. {handler[t].token} \in SUBSET Tokens
        BY <2>1, <2>3 DEF Rotate, SessionsInv, HandlersOK, HandlerOK
      <3> QED BY <1>5, <2>1, <2>3, <3>1 DEF Rotate
    <2>4. CASE IndexSession(t)
      BY <1>1, <1>2, <2>4, RegisteredStaysIndexed DEF IndexSession, MemoryIsIndexed
    <2>5. CASE ChangePassword(t)
      <3> DEFINE k == handler[t].token
                 h == [handler[t] EXCEPT !.before = OpenSessions]
                 m == [memory EXCEPT !.tokens = @ \cup {k}]
      <3>1. UNCHANGED memory \/ memory' = TakenFromMemory(h, m)
        BY <2>5 DEF ChangePassword
      <3>2. m \in Memory /\ m.sessions \subseteq m.index
        <4>1. {k} \in SUBSET Tokens
          BY <2>1, <2>5 DEF ChangePassword, SessionsInv, HandlersOK, HandlerOK
        <4>2. m \in Memory
          BY <1>1, <4>1, BlacklistedType
        <4> QED BY <1>1, <4>2, TokensStayIndexed
      <3> HIDE DEF h, m
      <3>3. TakenFromMemory(h, m).sessions \subseteq TakenFromMemory(h, m).index
        BY <3>2, TakenStaysIndexed
      <3> QED BY <1>2, <3>1, <3>3 DEF MemoryIsIndexed
    <2>6. CASE UnindexSession(t)
      BY <1>1, <1>2, <2>6, CloseStaysIndexed DEF UnindexSession
    <2>7. ASSUME NEW p \in Pairs, Logout(t, p) PROVE MemoryIsIndexed'
      BY <1>2, <1>3, <2>7 DEF Logout, Revoke
    <2>8. ASSUME NEW p \in Pairs, RevokeOthers(t, p) PROVE MemoryIsIndexed'
      BY <1>4, <2>8 DEF RevokeOthers
    <2>9. ASSUME NEW p \in Pairs, NEW q \in Pairs, RevokeSession(t, p, q) PROVE MemoryIsIndexed'
      BY <1>1, <1>2, <2>9, CloseStaysIndexed DEF RevokeSession
    <2>10. ASSUME \/ ChangeRefusedLate(t)
                  \/ \E p \in Pairs : BeginRefresh(t, p) \/ BeginChange(t, p)
                  \/ \E r \in Resets : BeginReset(t, r)
           PROVE  MemoryIsIndexed'
      BY <1>2, <2>10 DEF ChangeRefusedLate, BeginRefresh, BeginChange, BeginReset
    <2> QED BY <1>6, <2>2, <2>3, <2>4, <2>5, <2>6, <2>7, <2>8, <2>9, <2>10 DEF PoolNext
  <1>7. ASSUME NEW t \in Threads, RevokeListed(t) \/ CloseIndex(t) \/ FallBack(t) \/ RevokeTaken(t)
        PROVE  MemoryIsIndexed'
    BY <1>2, <1>3, <1>4, <1>7 DEF RevokeListed, CloseIndex, FallBack, RevokeTaken, Revoke
  <1>8. CASE RunCleanup
    BY <1>4, <1>8 DEF RunCleanup
  <1>9. ASSUME NEW p \in Pairs, Expire(p) PROVE MemoryIsIndexed'
    BY <1>1, <1>9 DEF Expire, MemoryIsIndexed
  <1>10. CASE Restart
    BY <1>10 DEF Restart, EmptyMemory, MemoryIsIndexed
  <1>11. CASE \/ \E r \in Resets : ForgotPassword(r)
              \/ \E k \in Tokens : BriefEntryEnds(k)
              \/ RedisFails \/ RedisReturns \/ UNCHANGED vars
    BY <1>2, <1>11 DEF ForgotPassword, BriefEntryEnds, RedisFails, RedisReturns, vars
  <1> QED BY <1>6, <1>7, <1>8, <1>9, <1>10, <1>11 DEF Next

\* In memory a session is always in the index of its user (TokenStore's fallback
\* dictionaries, under their lock): revoking all sessions finds it.
THEOREM MemoryStaysIndexed == Spec => []MemoryIsIndexed
  <1>1. Init => MemoryIsIndexed
    BY DEF Init, EmptyMemory, MemoryIsIndexed
  <1>2. SessionsInv /\ MemoryIsIndexed /\ [Next]_vars => MemoryIsIndexed'
    BY MemoryStep
  <1> QED BY <1>1, <1>2, SessionsInvariant, PTL DEF Spec

\* A session leaves the index of Redis when its data is gone, when the index is
\* emptied (and then it counts as orphaned), and enters it before it is handed out.
LEMMA IndexStep ==
  ASSUME SessionsInv, SessionsInv', OpenSessionIsIndexed, [Next]_vars
  PROVE  OpenSessionIsIndexed'
  <1>1. CASE UNCHANGED vars
    BY <1>1 DEF vars, OpenSessionIsIndexed, NoOutage
  <1>2. CASE Next
    <2>1. StoreMoves
      BY <1>2, PoolMoves, RevocationMoves, OtherMoves DEF Next
    <2> SUFFICES ASSUME NoOutage', NEW p \in hashes', life'[p] = "live"
                 PROVE  p \in index' \cup past'.orphaned
      BY DEF OpenSessionIsIndexed
    <2>2. NoOutage /\ redisUp
      BY <2>1, OutagesRemain
    <2>3. p \in Pairs /\ past \in SessionsHistory /\ TypeOK
      BY TypesByPart DEF SessionsInv, TypeOK
    <2>4. past.orphaned \subseteq past'.orphaned
      <3>1. ASSUME NEW t \in Pool, PoolNext(t) PROVE past'.orphaned = past.orphaned
        BY <2>3, <3>1 DEF PoolNext, Login, IndexSession, Rotate, ChangePassword, ChangeRefusedLate,
             UnindexSession, BeginRefresh, Logout, BeginChange, RevokeOthers, RevokeSession, BeginReset,
             Called, Exchanged, SessionsHistory
      <3>2. ASSUME NEW t \in Threads, RevokeListed(t) \/ CloseIndex(t) \/ FallBack(t) \/ RevokeTaken(t)
            PROVE  past.orphaned \subseteq past'.orphaned
        BY <2>3, <3>2 DEF RevokeListed, CloseIndex, FallBack, RevokeTaken, SessionsHistory
      <3>3. ASSUME \/ RunCleanup
                   \/ \E r \in Resets : ForgotPassword(r)
                   \/ \E q \in Pairs : Expire(q)
                   \/ \E k \in Tokens : BriefEntryEnds(k)
                   \/ RedisFails \/ RedisReturns \/ Restart
            PROVE  past'.orphaned = past.orphaned
        BY <2>3, <3>3 DEF RunCleanup, ForgotPassword, Expire, BriefEntryEnds, RedisFails, RedisReturns,
             Restart, SessionsHistory
      <3> QED BY <1>2, <3>1, <3>2, <3>3 DEF Next
    <2>5. CASE life[p] = "live"
      <3>1. p \in hashes
        BY <2>1, <2>5 DEF StoreMoves
      <3>2. p \in index \cup past.orphaned
        BY <2>2, <2>5, <3>1 DEF OpenSessionIsIndexed
      <3>3. CASE index \subseteq index'
        BY <2>4, <3>2, <3>3
      <3>4. ASSUME NEW t \in Pool, UnindexSession(t) PROVE p \in index'
                   \/ p \in past'.orphaned
        <4>1. index' = index \ handler[t].todo /\ t \in Threads /\ handler[t].pc = "unindex"
          BY <2>2, <3>4 DEF UnindexSession, Threads
        <4>2. p \notin handler[t].todo
          BY <3>1, <4>1 DEF SessionsInv, HandlersOK, HandlerOK
        <4> QED BY <2>4, <3>2, <4>1, <4>2
      <3>5. ASSUME NEW t \in Threads, CloseIndex(t), ~ (index \subseteq index')
            PROVE  p \in past'.orphaned
        <4>1. past' = [past EXCEPT !.orphaned = @ \cup (index \cap hashes)]
          BY <3>5 DEF CloseIndex
        <4>2. past'.orphaned = past.orphaned \cup (index \cap hashes)
          BY <2>3, <4>1 DEF SessionsHistory
        <4> QED BY <3>1, <3>2, <4>2
      <3>6. ASSUME NEW t \in Pool, PoolNext(t), ~ UnindexSession(t) PROVE index \subseteq index'
        BY <3>6 DEF PoolNext, Login, IndexSession, Rotate, ChangePassword, ChangeRefusedLate,
             BeginRefresh, Logout, BeginChange, RevokeOthers, RevokeSession, BeginReset, redis
      <3>7. ASSUME NEW t \in Threads, RevokeListed(t) \/ FallBack(t) \/ RevokeTaken(t)
            PROVE  index \subseteq index'
        BY <3>7 DEF RevokeListed, FallBack, RevokeTaken, redis
      <3>8. ASSUME \/ RunCleanup
                   \/ \E r \in Resets : ForgotPassword(r)
                   \/ \E q \in Pairs : Expire(q)
                   \/ \E k \in Tokens : BriefEntryEnds(k)
                   \/ RedisFails \/ RedisReturns \/ Restart
            PROVE  index \subseteq index'
        BY <3>8 DEF RunCleanup, ForgotPassword, Expire, BriefEntryEnds, RedisFails, RedisReturns,
             Restart, redis
      <3> QED BY <1>2, <3>3, <3>4, <3>5, <3>6, <3>7, <3>8 DEF Next
    <2>6. CASE life[p] # "live"
      <3>1. PICK t \in Pool : IndexSession(t) /\ p \in handler[t].todo
        <4>1. ASSUME NEW t \in Pool, Login(t) \/ Rotate(t) PROVE life'[p] # "live"
          <5>1. PICK q \in Pairs : life' = [life EXCEPT ![q] = "making"]
            BY <2>2, <4>1 DEF Login, Rotate, IssuePair
          <5> QED BY <2>3, <2>6, <5>1 DEF TypeOK
        <4>2. ASSUME NEW t \in Pool, PoolNext(t), ~ Login(t), ~ Rotate(t), ~ IndexSession(t)
              PROVE  life' = life
          BY <4>2 DEF PoolNext, ChangePassword, ChangeRefusedLate, UnindexSession,
               BeginRefresh, Logout, BeginChange, RevokeOthers, RevokeSession, BeginReset
        <4>3. ASSUME NEW t \in Threads, RevokeListed(t) \/ CloseIndex(t) \/ FallBack(t) \/ RevokeTaken(t)
              PROVE  life' = life
          BY <4>3 DEF RevokeListed, CloseIndex, FallBack, RevokeTaken
        <4>4. ASSUME \/ RunCleanup
                     \/ \E r \in Resets : ForgotPassword(r)
                     \/ \E k \in Tokens : BriefEntryEnds(k)
                     \/ RedisFails \/ RedisReturns
              PROVE  life' = life
          BY <4>4 DEF RunCleanup, ForgotPassword, BriefEntryEnds, RedisFails, RedisReturns
        <4>5. ASSUME Restart \/ \E q \in Pairs : Expire(q) PROVE life'[p] # "live"
          BY <2>3, <2>6, <4>5 DEF Restart, Expire, TypeOK
        <4>6. \E t \in Pool : IndexSession(t)
          BY <1>2, <2>6, <4>1, <4>2, <4>3, <4>4, <4>5 DEF Next
        <4> QED BY <2>3, <2>6, <4>6 DEF IndexSession
      <3> QED BY <2>2, <3>1 DEF IndexSession
    <2> QED BY <2>5, <2>6
  <1> QED BY <1>1, <1>2

\* While Redis answers, every open session is found again by a later revocation, or
\* is one that a revocation dropped with the index (register_session).
THEOREM OpenSessionsAreIndexed == Spec => []OpenSessionIsIndexed
  <1>1. Init => OpenSessionIsIndexed
    BY DEF Init, OpenSessionIsIndexed
  <1>2. SessionsInv /\ SessionsInv' /\ OpenSessionIsIndexed /\ [Next]_vars => OpenSessionIsIndexed'
    BY IndexStep
  <1> QED BY <1>1, <1>2, SessionsInvariant, PTL DEF Spec

\* A password change that has gone through leaves none of the sessions it found open
\* (change_password, reset_password, TokenStore.revoke_user_sessions).
THEOREM PasswordChangesEndSessions == Spec => PasswordChangeEndsSessions
  <1> DEFINE Ends ==
        \A t \in Pool :
          NoOutage /\ handler[t].pc = "each" /\ handler'[t].pc = "idle" /\ past'.restarts = past.restarts
            => \A p \in handler[t].before \ past'.shortened :
                 life[p] = "live" => blacklist[Refresh(p)] # "none"
  <1>1. ASSUME SessionsInv, [Next]_vars PROVE Ends
    <2> SUFFICES ASSUME NEW t \in Pool, NoOutage, handler[t].pc = "each", handler'[t].pc = "idle",
                        past'.restarts = past.restarts,
                        NEW p \in handler[t].before \ past'.shortened, life[p] = "live"
                 PROVE  blacklist[Refresh(p)] # "none"
      OBVIOUS
    <2>1. /\ t \in Threads /\ handler \in [Threads -> Handler] /\ past \in SessionsHistory
          /\ handler[t] \in Handler /\ HandlerOK(handler[t]) /\ redisUp /\ t # Worker
      BY <1>1, TypesByPart, SessionsAssumption DEF SessionsInv, Threads, HandlersOK, StoreOK
    <2>2. handler'[t] # handler[t]
      OBVIOUS
    <2>3. CloseIndex(t)
      <3>1. ASSUME NEW u \in Pool, PoolNext(u) PROVE u # t /\ handler'[t] = handler[t]
        <4>1. u # t
          BY <3>1 DEF PoolNext, Login, IndexSession, Rotate, ChangePassword, ChangeRefusedLate,
               UnindexSession, BeginRefresh, Logout, BeginChange, RevokeOthers, RevokeSession, BeginReset, Take
        <4>2. handler' = handler \/ \E h : handler' = [handler EXCEPT ![u] = h]
          BY <3>1 DEF PoolNext, Login, IndexSession, Rotate, ChangePassword, ChangeRefusedLate,
               UnindexSession, BeginRefresh, Logout, BeginChange, RevokeOthers, RevokeSession, BeginReset,
               IssuePair, CloseInMemory, Done, Goto
        <4> QED BY <2>1, <4>1, <4>2
      <3>2. ASSUME NEW u \in Threads, RevokeListed(u) \/ CloseIndex(u) \/ FallBack(u) \/ RevokeTaken(u)
            PROVE  u # t => handler'[t] = handler[t]
        BY <2>1, <3>2 DEF RevokeListed, CloseIndex, FallBack, RevokeTaken, Finish, Done, Goto
      <3>3. ASSUME \/ RunCleanup
                   \/ \E r \in Resets : ForgotPassword(r)
                   \/ \E q \in Pairs : Expire(q)
                   \/ \E k \in Tokens : BriefEntryEnds(k)
                   \/ RedisFails \/ RedisReturns
            PROVE  handler'[t] = handler[t]
        BY <2>1, <3>3 DEF RunCleanup, ForgotPassword, Expire, BriefEntryEnds, RedisFails, RedisReturns, Goto
      <3>4. ~ Restart
        <4>1. ASSUME Restart PROVE past'.restarts = past.restarts + 1 /\ past.restarts \in Nat
          BY <2>1, <4>1 DEF Restart, SessionsHistory
        <4> QED BY <4>1
      <3>5. handler'[t] # handler[t] => RevokeListed(t) \/ CloseIndex(t) \/ FallBack(t) \/ RevokeTaken(t)
        BY <1>1, <3>1, <3>2, <3>3, <3>4 DEF Next, vars
      <3>6. ~ RevokeListed(t)
        <4>1. ASSUME RevokeListed(t) PROVE handler'[t].pc = "each"
          BY <2>1, <4>1 DEF RevokeListed, Goto, Handler
        <4> QED BY <4>1
      <3>7. ~ FallBack(t) /\ ~ RevokeTaken(t)
        BY <2>1 DEF FallBack, RevokeTaken
      <3> QED BY <2>2, <3>5, <3>6, <3>7
    <2>4. handler[t].todo = {} /\ past'.shortened = past.shortened
      BY <2>1, <2>3 DEF CloseIndex, SessionsHistory
    <2> QED BY <2>1, <2>4 DEF HandlerOK
  <1>2. SessionsInv /\ [Next]_vars => [Ends]_vars
    BY <1>1
  <1> QED BY <1>2, SessionsInvariant, PTL DEF Spec, PasswordChangeEndsSessions

=============================================================================
