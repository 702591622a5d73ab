---------------------------- MODULE RequestGuard ----------------------------
(***************************************************************************)
(* core/rate_limit.py, api/idempotency.py and services/idempotency.py: what *)
(* stands between a write request and its handler.                          *)
(*                                                                         *)
(* A request is first counted (a plain dependency, run by the thread pool:  *)
(* requests overlap), then looks up its Idempotency-Key, runs its handler   *)
(* and saves the answer.  The last three have no await between them: the    *)
(* event loop of a process gives them to one request at a time, and other   *)
(* processes, a failing Redis or the end of the process cut them.           *)
(*                                                                         *)
(* All requests here come from one client and meet one limit.               *)
(***************************************************************************)
EXTENDS Naturals, FiniteSets

CONSTANTS Processes,     \* server processes, each with a memory of its own
          Calls,         \* requests
          Keys,          \* idempotency keys, the actor and the path included
          NoKey,         \* a request without the header
          Bodies,        \* request bodies, as told apart by their hash
          Limit,         \* requests admitted per window
          MaxGuardEvents \* bound: ends of a window or record, outages, crashes

NoRecord == "none"

ASSUME GuardAssumption ==
  /\ IsFiniteSet(Processes) /\ IsFiniteSet(Calls)
  /\ NoKey \notin Keys /\ NoRecord \notin Bodies
  /\ Limit \in Nat \ {0} /\ MaxGuardEvents \in Nat

VARIABLES calls,       \* the requests
          counter,     \* Redis: rate-limit:<key>
          records,     \* Redis: idempotency:<key>, the body it was saved for
          local,       \* per process: the dictionaries used without Redis
          guardRedis,  \* Redis answers
          guardPast    \* history: see GuardTypeOK

guardVars == <<calls, counter, records, local, guardRedis, guardPast>>

\* result: the body the handler ran with for the answer that was given.
Call == [pc : {"new", "expire", "admitted", "run", "save", "refused", "failed", "answered", "lost"},
         proc : Processes \cup {NoKey}, key : Keys \cup {NoKey}, body : Bodies \cup {NoRecord},
         result : Bodies \cup {NoRecord}]

FreshCall == [pc |-> "new", proc |-> NoKey, key |-> NoKey, body |-> NoRecord, result |-> NoRecord]

Local == [count : Nat, records : [Keys -> Bodies \cup {NoRecord}]]

EmptyLocal == [count |-> 0, records |-> [k \in Keys |-> NoRecord]]

GuardTypeOK ==
  /\ calls \in [Calls -> Call]
  /\ \A c \in Calls : calls[c].pc \in {"save", "answered"} => calls[c].result \in Bodies
  /\ counter \in [count : Nat, expires : BOOLEAN]
  /\ records \in [Keys -> Bodies \cup {NoRecord}]
  /\ local \in [Processes -> Local]
  /\ guardRedis \in BOOLEAN
  /\ guardPast \in [admitted : Nat,              \* requests let through
                    started : Nat,               \* counters begun at one
                    executed : [Keys -> Nat],    \* handlers that committed
                    forgotten : [Keys -> Nat],   \* saved answers that expired
                    windows : Nat, outages : Nat, crashes : Nat]

GuardInit ==
  /\ calls = [c \in Calls |-> FreshCall]
  /\ counter = [count |-> 0, expires |-> FALSE]
  /\ records = [k \in Keys |-> NoRecord]
  /\ local = [p \in Processes |-> EmptyLocal]
  /\ guardRedis = TRUE
  /\ guardPast = [admitted |-> 0, started |-> 0, executed |-> [k \in Keys |-> 0],
                  forgotten |-> [k \in Keys |-> 0], windows |-> 0, outages |-> 0, crashes |-> 0]

-----------------------------------------------------------------------------
(* RateLimiter.enforce *)

\* Mutant: the limit is compared with the count before the increment.
Admitted_Late(n) == n <= Limit + 1

Admitted(n) == n <= Limit

\* The caller goes on, or is answered 429; n is the counter after its increment.
Decide(call, n) == [call EXCEPT !.pc = IF Admitted(n) THEN "admitted" ELSE "refused"]

Counted(n) == [guardPast EXCEPT !.admitted = IF Admitted(n) THEN @ + 1 ELSE @,
                                !.started = IF n = 1 THEN @ + 1 ELSE @]

CountLocally(c, call) ==
  LET p == call.proc
      n == local[p].count + 1
  IN
  /\ local' = [local EXCEPT ![p].count = n]
  /\ calls' = [calls EXCEPT ![c] = Decide(call, n)]
  /\ guardPast' = Counted(n)
  /\ UNCHANGED counter

\* Mutant: a counter gets its expiry when the limit is reached only.
IsFirst_AtLimit(n) == n = Limit + 1

\* Only the request that created the counter sets its expiry.
IsFirst(n) == n = 1

\* INCR; the first request of a window still has its EXPIRE to send.
Count(c, p, k, b) ==
  LET call == [FreshCall EXCEPT !.proc = p, !.key = k, !.body = b]
      n == counter.count + 1
  IN
  /\ calls[c].pc = "new"
  /\ \/ /\ guardRedis
        /\ counter' = [counter EXCEPT !.count = n]
        /\ IF IsFirst(n)
           THEN /\ calls' = [calls EXCEPT ![c] = [call EXCEPT !.pc = "expire"]]
                /\ guardPast' = [guardPast EXCEPT !.started = @ + 1]
           ELSE /\ calls' = [calls EXCEPT ![c] = Decide(call, n)]
                /\ guardPast' = [guardPast EXCEPT !.admitted = IF Admitted(n) THEN @ + 1 ELSE @]
        /\ UNCHANGED local
     \/ ~ guardRedis /\ CountLocally(c, call)
  /\ UNCHANGED <<records, guardRedis>>

\* EXPIRE; when it fails, the request is counted once more in memory.
SetExpiry(c) ==
  /\ calls[c].pc = "expire"
  /\ \/ /\ guardRedis
        /\ counter' = [counter EXCEPT !.expires = TRUE]
        /\ calls' = [calls EXCEPT ![c].pc = "admitted"]
        /\ guardPast' = [guardPast EXCEPT !.admitted = @ + 1]
        /\ UNCHANGED local
     \/ ~ guardRedis /\ CountLocally(c, calls[c])
  /\ UNCHANGED <<records, guardRedis>>

-----------------------------------------------------------------------------
(* idempotent_execute *)

\* Mutant: the handler runs on the thread pool, beside other requests.
LoopIsFree_Always(p) == TRUE

\* From lookup to save the event loop of the process runs nothing else.
LoopIsFree(p) == \A c \in Calls : calls[c].proc = p => calls[c].pc \notin {"run", "save"}

\* IdempotencyStore._get: a key Redis does not have is looked up in memory too.
Saved(p, k) == IF guardRedis /\ records[k] # NoRecord THEN records[k] ELSE local[p].records[k]

\* Mutant: a saved answer is replayed whatever it was saved for.
SamePayload_Any(saved, body) == TRUE

SamePayload(saved, body) == saved = body

Replayed(call, saved) == [call EXCEPT !.pc = "answered", !.result = saved]

\* The saved answer is replayed; a key used for another payload is refused; a
\* request without a key, or with a new one, goes on to its handler.
LookUp(c) ==
  LET call == calls[c]
      saved == IF call.key = NoKey THEN NoRecord ELSE Saved(call.proc, call.key)
  IN
  /\ call.pc = "admitted" /\ LoopIsFree(call.proc)
  /\ calls' = [calls EXCEPT ![c] =
       IF saved = NoRecord THEN [call EXCEPT !.pc = "run"]
       ELSE IF SamePayload(saved, call.body) THEN Replayed(call, saved)
       ELSE [call EXCEPT !.pc = "refused"]]
  /\ UNCHANGED <<counter, records, local, guardRedis, guardPast>>

\* The handler commits, or raises: then nothing is saved and a repetition runs.
Execute(c) ==
  LET call == calls[c] IN
  /\ call.pc = "run"
  /\ \/ /\ calls' = [calls EXCEPT ![c].pc = "save", ![c].result = call.body]
        /\ guardPast' = [guardPast EXCEPT !.executed =
                           [k \in Keys |-> IF k = call.key THEN @[k] + 1 ELSE @[k]]]
     \/ calls' = [calls EXCEPT ![c].pc = "failed"] /\ UNCHANGED guardPast
  /\ UNCHANGED <<counter, records, local, guardRedis>>

Save(c) ==
  LET call == calls[c] IN
  /\ call.pc = "save"
  /\ calls' = [calls EXCEPT ![c].pc = "answered"]
  /\ \/ call.key = NoKey /\ UNCHANGED <<records, local>>
     \/ /\ call.key # NoKey /\ guardRedis
        /\ records' = [records EXCEPT ![call.key] = call.body]
        /\ UNCHANGED local
     \/ /\ call.key # NoKey /\ ~ guardRedis
        /\ local' = [local EXCEPT ![call.proc].records[call.key] = call.body]
        /\ UNCHANGED records
  /\ UNCHANGED <<counter, guardRedis, guardPast>>

-----------------------------------------------------------------------------
(* Time, Redis and the processes *)

GuardEventAllowed ==
  guardPast.windows + guardPast.outages + guardPast.crashes < MaxGuardEvents

WindowEnds ==
  /\ counter.expires /\ GuardEventAllowed
  /\ counter' = [count |-> 0, expires |-> FALSE]
  /\ guardPast' = [guardPast EXCEPT !.windows = @ + 1]
  /\ UNCHANGED <<calls, records, local, guardRedis>>

LocalWindowEnds(p) ==
  /\ local[p].count > 0 /\ GuardEventAllowed
  /\ local' = [local EXCEPT ![p].count = 0]
  /\ guardPast' = [guardPast EXCEPT !.windows = @ + 1]
  /\ UNCHANGED <<calls, counter, records, guardRedis>>

\* Only Redis forgets an answer: the ones in memory stay as long as the process.
RecordExpires(k) ==
  /\ records[k] # NoRecord /\ GuardEventAllowed
  /\ records' = [records EXCEPT ![k] = NoRecord]
  /\ guardPast' = [guardPast EXCEPT !.windows = @ + 1, !.forgotten[k] = @ + 1]
  /\ UNCHANGED <<calls, counter, local, guardRedis>>

GuardRedisFails ==
  /\ guardRedis /\ GuardEventAllowed
  /\ guardRedis' = FALSE
  /\ guardPast' = [guardPast EXCEPT !.outages = @ + 1]
  /\ UNCHANGED <<calls, counter, records, local>>

GuardRedisReturns ==
  /\ ~ guardRedis /\ guardRedis' = TRUE
  /\ UNCHANGED <<calls, counter, records, local, guardPast>>

InFlight == {"expire", "admitted", "run", "save"}

Crash(p) ==
  /\ GuardEventAllowed
  /\ local' = [local EXCEPT ![p] = EmptyLocal]
  /\ calls' = [c \in Calls |-> IF calls[c].proc = p /\ calls[c].pc \in InFlight
                               THEN [calls[c] EXCEPT !.pc = "lost"] ELSE calls[c]]
  /\ guardPast' = [guardPast EXCEPT !.crashes = @ + 1]
  /\ UNCHANGED <<counter, records, guardRedis>>

-----------------------------------------------------------------------------
GuardNext ==
  \/ \E c \in Calls, p \in Processes, k \in Keys \cup {NoKey}, b \in Bodies : Count(c, p, k, b)
  \/ \E c \in Calls : SetExpiry(c) \/ LookUp(c) \/ Execute(c) \/ Save(c)
  \/ \E p \in Processes : LocalWindowEnds(p) \/ Crash(p)
  \/ \E k \in Keys : RecordExpires(k)
  \/ WindowEnds \/ GuardRedisFails \/ GuardRedisReturns

GuardSpec == GuardInit /\ [][GuardNext]_guardVars

-----------------------------------------------------------------------------
(* What the guard promises *)

\* Every window that is begun, in Redis or in a memory, lets at most Limit
\* requests through, whatever is lost, counted twice or counted elsewhere.
AdmissionsArePaid == guardPast.admitted <= Limit * guardPast.started

\* A counter that will never expire is one whose creator has yet to say so, or
\* was stopped by a crash or by an outage between INCR and EXPIRE.
CounterExpires ==
  counter.count > 0 /\ ~ counter.expires
    => \/ \E c \in Calls : calls[c].pc = "expire"
       \/ guardPast.crashes + guardPast.outages > 0

\* A request is answered with what the handler did for its own payload.
AnswerIsOwn == \A c \in Calls : calls[c].pc = "answered" => calls[c].result = calls[c].body

\* A key is executed once by each process whose request overlaps with the first
\* one, once more by each when the answer expired or Redis stopped answering, and
\* once more for each of these occasions after a crash.
ExecutionsAreBounded ==
  \A k \in Keys :
    guardPast.executed[k] <= (Cardinality(Processes) + guardPast.crashes)
                               * (1 + guardPast.forgotten[k] + guardPast.outages)
=============================================================================
