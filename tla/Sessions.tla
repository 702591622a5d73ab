------------------------------ MODULE Sessions ------------------------------
(***************************************************************************)
(* services/token_store.py and the token handlers of services/auth.py: the  *)
(* sessions of one account, kept in Redis and, while Redis does not answer, *)
(* in the memory of the process.                                            *)
(*                                                                         *)
(* A login or a refresh issues a pair: a refresh token, whose jti names the *)
(* session, and an access token that carries it.  Tokens are stateless; a   *)
(* token is refused once its jti is on the blacklist.  The endpoints are    *)
(* plain functions on the thread pool: a handler checks its token in one    *)
(* step and acts in later ones, cut where another thread, a Redis that      *)
(* stops answering or the end of the process make a difference.             *)
(*                                                                         *)
(* Left out: signatures, device names and addresses, and the last second of *)
(* a token (time-outs of Redis keys are whole seconds).  What login checks  *)
(* before it issues a pair is in module LoginLockout.                           *)
(***************************************************************************)
EXTENDS Naturals, FiniteSets

CONSTANTS Pairs,        \* the token pairs that may be issued
          Resets,       \* the reset tokens that may be mailed
          Pool,         \* the threads that run endpoints
          Worker,       \* the thread that runs jobs
          MaxCalls,     \* bound: requests that get past their token check
          MaxEvents     \* bound: outages of Redis, ends of the process, expiries

ASSUME SessionsAssumption ==
  /\ IsFiniteSet(Pool) /\ Worker \notin Pool
  /\ MaxCalls \in Nat /\ MaxEvents \in Nat

VARIABLES blacklist,  \* Redis: token:blacklist:<jti>, by its time-out
          hashes,     \* Redis: the sessions with a token:session:<jti>
          index,      \* Redis: token:sessions:<user>, the jtis of the account
          redisUp,    \* Redis answers
          memory,     \* the three dictionaries of the TokenStore
          life,       \* what became of each pair
          sent,       \* the reset tokens that were mailed
          handler,    \* what each thread is doing
          jobs,       \* queued session-cleanup jobs
          past        \* history: see TypeOK

vars == <<blacklist, hashes, index, redisUp, memory, life, sent, handler, jobs, past>>

redis == <<blacklist, hashes, index>>

Threads == Pool \cup {Worker}

Refresh(p) == <<"refresh", p>>
Access(p)  == <<"access", p>>
Reset(r)   == <<"reset", r>>
Tokens == {Refresh(p) : p \in Pairs} \cup {Access(p) : p \in Pairs} \cup {Reset(r) : r \in Resets}

\* "full": until the token expires; "brief": for one second.
Entry == {"none", "full", "brief"}

\* token: what the handler was called with; todo: the sessions it registers or
\* still has to revoke; keep: those it must not revoke; before: those that were
\* open when it committed a new password.
Handler == [pc : {"idle", "rotate", "index", "reset", "change", "each", "memory", "unindex"},
            token : Tokens \cup {<<>>}, todo : SUBSET Pairs, keep : SUBSET Pairs,
            op : {"none", "cleanup", "reset", "change", "others"}, before : SUBSET Pairs]

Idle == [pc |-> "idle", token |-> <<>>, todo |-> {}, keep |-> {}, op |-> "none", before |-> {}]

TypeOK ==
  /\ blacklist \in [Tokens -> Entry]
  /\ hashes \subseteq Pairs /\ index \subseteq Pairs
  /\ redisUp \in BOOLEAN
  /\ memory \in [tokens : SUBSET Tokens, sessions : SUBSET Pairs, index : SUBSET Pairs]
  /\ life \in [Pairs -> {"fresh", "making", "live", "over"}]
  /\ sent \subseteq Resets
  /\ handler \in [Threads -> Handler]
  /\ jobs \in Nat
  /\ past \in [exchanged : [Pairs -> Nat],   \* pairs issued for its refresh token
               shortened : SUBSET Pairs,     \* revoked again for one second only
               orphaned : SUBSET Pairs,      \* dropped from the index unseen
               calls : Nat, outages : Nat, restarts : Nat, expiries : Nat]

EmptyMemory == [tokens |-> {}, sessions |-> {}, index |-> {}]

Init ==
  /\ blacklist = [k \in Tokens |-> "none"] /\ hashes = {} /\ index = {}
  /\ redisUp = TRUE /\ memory = EmptyMemory
  /\ life = [p \in Pairs |-> "fresh"] /\ sent = {}
  /\ handler = [t \in Threads |-> Idle] /\ jobs = 0
  /\ past = [exchanged |-> [p \in Pairs |-> 0], shortened |-> {}, orphaned |-> {},
             calls |-> 0, outages |-> 0, restarts |-> 0, expiries |-> 0]

Goto(t, h) == handler' = [handler EXCEPT ![t] = h]
Done(t)    == Goto(t, Idle)

\* A request is taken by a free thread.
Take(t) == handler[t].pc = "idle" /\ past.calls < MaxCalls
Called  == [past EXCEPT !.calls = @ + 1]

-----------------------------------------------------------------------------
(* token_store: revoke, is_revoked, register_session *)

\* While Redis answers, its blacklist alone decides; otherwise the memory does.
IsRevoked(k) == IF redisUp THEN blacklist[k] # "none" ELSE k \in memory.tokens

\* A token of pair p passes: handed out, not expired, not revoked.
Passes(k, p) == life[p] = "live" /\ ~ IsRevoked(k)

Blacklisted(K) == [k \in Tokens |-> IF k \in K THEN "full" ELSE blacklist[k]]

Revoke(K) ==
  \/ redisUp /\ blacklist' = Blacklisted(K) /\ UNCHANGED memory
  \/ ~ redisUp /\ memory' = [memory EXCEPT !.tokens = @ \cup K] /\ UNCHANGED blacklist

RegisteredInMemory(m, new) == [m EXCEPT !.sessions = @ \cup new, !.index = @ \cup new]

\* The first half of _issue_token_pair: the tokens are made and the data of the
\* session stored.  K are the tokens revoked just before.
IssuePair(t, K) ==
  \E p \in Pairs :
    /\ life[p] = "fresh"
    /\ \/ /\ redisUp
          /\ blacklist' = Blacklisted(K)
          /\ hashes' = hashes \cup {p}
          /\ life' = [life EXCEPT ![p] = "making"]
          /\ Goto(t, [Idle EXCEPT !.pc = "index", !.todo = {p}])
          /\ UNCHANGED memory
       \/ /\ ~ redisUp
          /\ memory' = RegisteredInMemory([memory EXCEPT !.tokens = @ \cup K], {p})
          /\ life' = [life EXCEPT ![p] = "live"]
          /\ Done(t)
          /\ UNCHANGED <<blacklist, hashes>>

Login(t) ==
  /\ Take(t)
  /\ IssuePair(t, {})
  /\ past' = Called
  /\ UNCHANGED <<index, redisUp, sent, jobs>>

\* The second half: the session is indexed and the pair handed out.
IndexSession(t) ==
  LET new == handler[t].todo IN
  /\ handler[t].pc = "index"
  /\ \/ redisUp /\ index' = index \cup new /\ UNCHANGED memory
     \/ ~ redisUp /\ memory' = RegisteredInMemory(memory, new) /\ UNCHANGED index
  /\ life' = [p \in Pairs |-> IF p \in new THEN "live" ELSE life[p]]
  /\ Done(t)
  /\ UNCHANGED <<blacklist, hashes, redisUp, sent, jobs, past>>

-----------------------------------------------------------------------------
(* refresh, logout *)

BeginRefresh(t, p) ==
  /\ Take(t) /\ Passes(Refresh(p), p)
  /\ Goto(t, [Idle EXCEPT !.pc = "rotate", !.token = Refresh(p)])
  /\ past' = Called
  /\ UNCHANGED <<redis, redisUp, memory, life, sent, jobs>>

Exchanged(k) ==
  [past EXCEPT !.exchanged = [p \in Pairs |-> IF k = Refresh(p) THEN @[p] + 1 ELSE @[p]]]

\* Mutant: the old refresh token is not revoked.
Rotate_KeepsOld(t) ==
  LET k == handler[t].token IN
  /\ handler[t].pc = "rotate"
  /\ IssuePair(t, {})
  /\ past' = Exchanged(k)
  /\ UNCHANGED <<index, redisUp, sent, jobs>>

Rotate(t) ==
  LET k == handler[t].token IN
  /\ handler[t].pc = "rotate"
  /\ IssuePair(t, {k})
  /\ past' = Exchanged(k)
  /\ UNCHANGED <<index, redisUp, sent, jobs>>

\* Without a refresh token, with one that is refused (401, after the access token
\* is gone) or with a good one.
Logout(t, p) ==
  /\ Take(t) /\ Passes(Access(p), p)
  /\ \/ Revoke({Access(p)})
     \/ ~ IsRevoked(Refresh(p)) /\ Revoke({Access(p), Refresh(p)})
  /\ past' = Called
  /\ UNCHANGED <<hashes, index, redisUp, life, sent, handler, jobs>>

-----------------------------------------------------------------------------
(* revoke_user_sessions, and revoke_user_sessions_except for op "others" *)

\* smembers; when it fails, the sessions in memory are taken out under the lock.
Listing(h, mem) ==
  IF redisUp THEN [h EXCEPT !.pc = "each", !.todo = index \ h.keep]
  ELSE [h EXCEPT !.pc = "memory", !.todo = (mem.index \cap mem.sessions) \ h.keep]

\* Mutant: the index in memory is emptied, the sessions of keep with it.
TakenFromMemory_AllIndex(h, mem) ==
  IF redisUp THEN mem
  ELSE [mem EXCEPT !.sessions = @ \ (mem.index \ h.keep), !.index = {}]

TakenFromMemory(h, mem) ==
  IF redisUp THEN mem
  ELSE [mem EXCEPT !.sessions = @ \ (mem.index \ h.keep), !.index = h.keep]

\* Mutant: a session is taken off the list without being revoked.
RevokeListed_Deletes(t) ==
  LET h == handler[t] IN
  /\ h.pc = "each" /\ redisUp
  /\ \E p \in h.todo : hashes' = hashes \ {p} /\ Goto(t, [h EXCEPT !.todo = @ \ {p}])
  /\ UNCHANGED <<blacklist, index, redisUp, memory, life, sent, jobs, past>>

\* Blacklist one session and delete its data.  Without data the expiry is taken
\* to be now, and setex replaces whatever entry there was by one of a second.
RevokeListed(t) ==
  LET h == handler[t] IN
  /\ h.pc = "each" /\ redisUp
  /\ \E p \in h.todo :
       /\ blacklist' = [blacklist EXCEPT ![Refresh(p)] = IF p \in hashes THEN "full" ELSE "brief"]
       /\ hashes' = hashes \ {p}
       /\ past' = [past EXCEPT !.shortened = IF p \in hashes THEN @ ELSE @ \cup {p}]
       /\ Goto(t, [h EXCEPT !.todo = @ \ {p}])
  /\ UNCHANGED <<index, redisUp, memory, life, sent, jobs>>

\* change_password queues one more revocation of everything.
Finish(t) ==
  /\ Done(t)
  /\ jobs' = IF handler[t].op = "change" THEN jobs + 1 ELSE jobs

\* Mutant: revoke-others empties the index as a password change does.
CloseIndex_Empties(t) ==
  LET h == handler[t] IN
  /\ h.pc = "each" /\ h.todo = {} /\ redisUp
  /\ index' = {}
  /\ Finish(t)
  /\ UNCHANGED <<blacklist, hashes, redisUp, memory, life, sent, past>>

\* A session indexed since smembers is dropped with the set, unseen.
CloseIndex(t) ==
  LET h == handler[t] IN
  /\ h.pc = "each" /\ h.todo = {} /\ redisUp
  /\ \/ h.op = "others" /\ index' = index \cup h.keep /\ UNCHANGED past
     \/ /\ h.op # "others" /\ index' = {}
        /\ past' = [past EXCEPT !.orphaned = @ \cup (index \cap hashes)]
  /\ Finish(t)
  /\ UNCHANGED <<blacklist, hashes, redisUp, memory, life, sent>>

\* Redis failed on the way: what is left of the list is forgotten.
FallBack(t) ==
  LET h == handler[t] IN
  /\ h.pc = "each" /\ ~ redisUp
  /\ Goto(t, Listing(h, memory))
  /\ memory' = TakenFromMemory(h, memory)
  /\ UNCHANGED <<redis, redisUp, life, sent, jobs, past>>

\* After the lock: the sessions taken out of memory are revoked one by one.
RevokeTaken(t) ==
  LET h == handler[t] IN
  /\ h.pc = "memory"
  /\ \/ \E p \in h.todo :
          Revoke({Refresh(p)}) /\ Goto(t, [h EXCEPT !.todo = @ \ {p}]) /\ UNCHANGED jobs
     \/ h.todo = {} /\ Finish(t) /\ UNCHANGED <<blacklist, memory>>
  /\ UNCHANGED <<hashes, index, redisUp, life, sent, past>>

RevokeOthers(t, p) ==
  LET h == [Idle EXCEPT !.op = "others", !.keep = {p}] IN
  /\ Take(t) /\ Passes(Access(p), p)
  /\ Goto(t, Listing(h, memory))
  /\ memory' = TakenFromMemory(h, memory)
  /\ past' = Called
  /\ UNCHANGED <<redis, redisUp, life, sent, jobs>>

\* Mutant: the worker runs a cleanup that nobody queued.
RunCleanup_Unqueued ==
  LET h == [Idle EXCEPT !.op = "cleanup"] IN
  /\ handler[Worker].pc = "idle"
  /\ jobs' = jobs - 1
  /\ Goto(Worker, Listing(h, memory))
  /\ memory' = TakenFromMemory(h, memory)
  /\ UNCHANGED <<redis, redisUp, life, sent, past>>

RunCleanup ==
  LET h == [Idle EXCEPT !.op = "cleanup"] IN
  /\ handler[Worker].pc = "idle" /\ jobs > 0
  /\ jobs' = jobs - 1
  /\ Goto(Worker, Listing(h, memory))
  /\ memory' = TakenFromMemory(h, memory)
  /\ UNCHANGED <<redis, redisUp, life, sent, past>>

-----------------------------------------------------------------------------
(* forgot_password, reset_password, change_password *)

ForgotPassword(r) ==
  /\ r \notin sent
  /\ sent' = sent \cup {r}
  /\ UNCHANGED <<redis, redisUp, memory, life, handler, jobs, past>>

BeginReset(t, r) ==
  /\ Take(t) /\ r \in sent /\ ~ IsRevoked(Reset(r))
  /\ Goto(t, [Idle EXCEPT !.pc = "reset", !.token = Reset(r), !.op = "reset"])
  /\ past' = Called
  /\ UNCHANGED <<redis, redisUp, memory, life, sent, jobs>>

BeginChange(t, p) ==
  /\ Take(t) /\ Passes(Access(p), p)
  /\ Goto(t, [Idle EXCEPT !.pc = "change", !.token = Access(p), !.op = "change"])
  /\ past' = Called
  /\ UNCHANGED <<redis, redisUp, memory, life, sent, jobs>>

OpenSessions == {p \in index \cap hashes : life[p] = "live"}

\* The new password is committed, the token of the request revoked, and the
\* sessions listed.
ChangePassword(t) ==
  LET k == handler[t].token
      h == [handler[t] EXCEPT !.before = OpenSessions]
  IN
  /\ \/ handler[t].pc = "reset"
     \/ handler[t].pc = "change" /\ ~ IsRevoked(k)
  /\ Goto(t, Listing(h, memory))
  /\ \/ redisUp /\ blacklist' = Blacklisted({k}) /\ UNCHANGED memory
     \/ /\ ~ redisUp
        /\ memory' = TakenFromMemory(h, [memory EXCEPT !.tokens = @ \cup {k}])
        /\ UNCHANGED blacklist
  /\ UNCHANGED <<hashes, index, redisUp, life, sent, jobs, past>>

\* change_password decodes its access token again after the commit: one that was
\* revoked meanwhile answers 401, and no session is revoked.
ChangeRefusedLate(t) ==
  /\ handler[t].pc = "change" /\ IsRevoked(handler[t].token)
  /\ Done(t)
  /\ UNCHANGED <<redis, redisUp, memory, life, sent, jobs, past>>

-----------------------------------------------------------------------------
(* revoke_session: the user closes one listed session *)

Listed == IF redisUp THEN index \cap hashes ELSE memory.sessions

\* Only the memory path revokes the token.
CloseInMemory(t, q) ==
  /\ memory' = [memory EXCEPT !.sessions = @ \ {q}, !.index = @ \ ({q} \cap memory.sessions)]
  /\ Goto(t, [Idle EXCEPT !.pc = "memory", !.todo = {q} \cap memory.sessions])

RevokeSession(t, p, q) ==
  /\ Take(t) /\ Passes(Access(p), p) /\ q \in Listed
  /\ \/ /\ redisUp
        /\ hashes' = hashes \ {q}
        /\ Goto(t, [Idle EXCEPT !.pc = "unindex", !.todo = {q}])
        /\ UNCHANGED memory
     \/ ~ redisUp /\ CloseInMemory(t, q) /\ UNCHANGED hashes
  /\ past' = Called
  /\ UNCHANGED <<blacklist, index, redisUp, life, sent, jobs>>

UnindexSession(t) ==
  /\ handler[t].pc = "unindex"
  /\ \/ redisUp /\ index' = index \ handler[t].todo /\ Done(t) /\ UNCHANGED memory
     \/ ~ redisUp /\ (\E q \in handler[t].todo : CloseInMemory(t, q)) /\ UNCHANGED index
  /\ UNCHANGED <<blacklist, hashes, redisUp, life, sent, jobs, past>>

-----------------------------------------------------------------------------
(* Time, Redis and the process *)

EventAllowed == past.outages + past.restarts + past.expiries < MaxEvents

\* The tokens of a pair expire, with the keys that were set to live as long; the
\* index lives on with the newest session.
Expire(p) ==
  /\ life[p] = "live" /\ EventAllowed
  /\ life' = [life EXCEPT ![p] = "over"]
  /\ blacklist' = [blacklist EXCEPT ![Refresh(p)] = "none", ![Access(p)] = "none"]
  /\ hashes' = hashes \ {p}
  /\ memory' = [tokens |-> memory.tokens \ {Refresh(p), Access(p)},
                sessions |-> memory.sessions \ {p},
                index |-> memory.index \ ({p} \cap memory.sessions)]
  /\ past' = [past EXCEPT !.expiries = @ + 1]
  /\ UNCHANGED <<index, redisUp, sent, handler, jobs>>

BriefEntryEnds(k) ==
  /\ blacklist[k] = "brief"
  /\ blacklist' = [blacklist EXCEPT ![k] = "none"]
  /\ UNCHANGED <<hashes, index, redisUp, memory, life, sent, handler, jobs, past>>

RedisFails ==
  /\ redisUp /\ EventAllowed
  /\ redisUp' = FALSE
  /\ past' = [past EXCEPT !.outages = @ + 1]
  /\ UNCHANGED <<redis, memory, life, sent, handler, jobs>>

RedisReturns ==
  /\ ~ redisUp
  /\ redisUp' = TRUE
  /\ UNCHANGED <<redis, memory, life, sent, handler, jobs, past>>

\* Requests, jobs and memory are gone; a pair not handed out never will be.
Restart ==
  /\ EventAllowed
  /\ memory' = EmptyMemory /\ handler' = [t \in Threads |-> Idle] /\ jobs' = 0
  /\ life' = [p \in Pairs |-> IF life[p] = "making" THEN "over" ELSE life[p]]
  /\ past' = [past EXCEPT !.restarts = @ + 1]
  /\ UNCHANGED <<redis, redisUp, sent>>

-----------------------------------------------------------------------------
PoolNext(t) ==
  \/ Login(t) \/ IndexSession(t) \/ Rotate(t)
  \/ ChangePassword(t) \/ ChangeRefusedLate(t) \/ UnindexSession(t)
  \/ \E p \in Pairs : \/ BeginRefresh(t, p) \/ Logout(t, p) \/ BeginChange(t, p)
                      \/ RevokeOthers(t, p)
                      \/ \E q \in Pairs : RevokeSession(t, p, q)
  \/ \E r \in Resets : BeginReset(t, r)

Next ==
  \/ \E t \in Pool : PoolNext(t)
  \/ \E t \in Threads : RevokeListed(t) \/ CloseIndex(t) \/ FallBack(t) \/ RevokeTaken(t)
  \/ RunCleanup
  \/ \E r \in Resets : ForgotPassword(r)
  \/ \E p \in Pairs : Expire(p)
  \/ \E k \in Tokens : BriefEntryEnds(k)
  \/ RedisFails \/ RedisReturns \/ Restart

Spec == Init /\ [][Next]_vars

-----------------------------------------------------------------------------
(* What the session store keeps in order *)

NoOutage == past.outages = 0

\* A refresh token is exchanged by the requests that overlap with its first use
\* and by none after them: at most once per thread.  Not claimed for a token
\* whose blacklist entry was replaced by one of a second (see RevokeListed).
RefreshTokenIsSpent ==
  NoOutage => \A p \in Pairs \ past.shortened : past.exchanged[p] <= Cardinality(Pool)

\* Every open session can be found again by a later password change, unless it
\* was indexed while another one was emptying the index.
OpenSessionIsIndexed ==
  NoOutage => \A p \in hashes : life[p] = "live" => p \in index \cup past.orphaned

\* In memory no session is ever outside the index of its user, outages, expiry
\* and overlapping handlers notwithstanding.
MemoryIsIndexed == memory.sessions \subseteq memory.index

\* When a password change has gone through, each session that was open and in the
\* index when the password was committed is refused or expired, unless its entry
\* was replaced by one of a second.
PasswordChangeEndsSessions ==
  [][\A t \in Pool :
       NoOutage /\ handler[t].pc = "each" /\ handler'[t].pc = "idle" /\ past'.restarts = past.restarts
         => \A p \in handler[t].before \ past'.shortened :
              life[p] = "live" => blacklist[Refresh(p)] # "none"
    ]_vars
=============================================================================
