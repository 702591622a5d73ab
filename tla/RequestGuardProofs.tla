------------------------- MODULE RequestGuardProofs -------------------------
(***************************************************************************)
(* What stands between a write request and its handler, for any processes, *)
(* requests, keys and bodies, with Redis failing and processes ending at   *)
(* any point: an answer is the request's own, a counter without expiry was *)
(* left by a crash or an outage, a window lets no more than Limit requests *)
(* through, and a key runs its handler once for each process and occasion. *)
(*                                                                         *)
(* The last two are sums over all processes, so what each of them may still*)
(* do is counted as a set of tokens (Units), and each step pays for what it*)
(* does.  The first section has what the arithmetic of such sums needs.    *)
(***************************************************************************)
EXTENDS RequestGuard, FiniteSetTheorems, WellFoundedInduction, TLAPS

-----------------------------------------------------------------------------
(* Induction: the provers cannot instantiate the library's principles, which    *)
(* take a predicate, but they can find the least element of a set.              *)

LEMMA LeastNatural ==
  ASSUME NEW T, T \subseteq Nat, T # {}
  PROVE  \E x \in T : \A y \in T : x <= y
  <1> DEFINE R == OpToRel(<, Nat)
  <1>1. IsWellFoundedOn(R, Nat)
    BY NatLessThanWellFounded
  <1>2. \A x, y \in Nat : y < x => <<y, x>> \in R
    BY DEF OpToRel
  <1> HIDE DEF R
  <1>3. PICK x \in T : \A y \in T : <<y, x>> \notin R
    BY <1>1, WFMin
  <1>4. \A y \in T : y \in Nat /\ ~ (y < x)
    BY <1>2, <1>3
  <1>5. \A y \in T : x <= y
    BY <1>3, <1>4
  <1> QED BY <1>5

LEMMA NatInd ==
  ASSUME NEW S, S \subseteq Nat, 0 \in S, \A n \in S : n + 1 \in S
  PROVE  S = Nat
  <1>1. SUFFICES ASSUME Nat \ S # {} PROVE FALSE
    OBVIOUS
  <1>2. PICK x \in Nat \ S : \A y \in Nat \ S : x <= y
    BY <1>1, LeastNatural
  <1>3. x - 1 \in Nat /\ x - 1 \notin Nat \ S
    BY <1>2
  <1> QED BY <1>2, <1>3


-----------------------------------------------------------------------------
(* Counting what each of finitely many actors may still do *)

\* f[p] tokens for each actor p, at most M each: their number is the sum of f.
Units(P, M, f) == {x \in P \X (1 .. M) : x[2] <= f[x[1]]}

LEMMA UnitsFinite ==
  ASSUME NEW P, IsFiniteSet(P), NEW M \in Nat, NEW f
  PROVE  IsFiniteSet(Units(P, M, f)) /\ Cardinality(Units(P, M, f)) \in Nat
  <1>1. IsFiniteSet(P \X (1 .. M))
    <2>1. IsFiniteSet(1 .. M)
      BY FS_Interval
    <2> QED BY <2>1, FS_Product
  <1>2. Units(P, M, f) \subseteq P \X (1 .. M)
    BY DEF Units
  <1> QED BY <1>1, <1>2, FS_Subset, FS_CardinalityType

\* The tokens of one actor, and those of the others.
LEMMA UnitsOfOne ==
  ASSUME NEW P, IsFiniteSet(P), NEW M \in Nat, NEW f \in [P -> 0 .. M], NEW p \in P
  PROVE  LET rest == {x \in Units(P, M, f) : x[1] # p}
         IN  /\ IsFiniteSet(rest) /\ Cardinality(rest) \in Nat
             /\ Cardinality(Units(P, M, f)) = Cardinality(rest) + f[p]
  <1> DEFINE rest == {x \in Units(P, M, f) : x[1] # p}
             row == {p} \X (1 .. f[p])
  <1>1. IsFiniteSet(rest) /\ Cardinality(rest) \in Nat
    BY UnitsFinite, FS_Subset, FS_CardinalityType
  <1>2. IsFiniteSet(row) /\ Cardinality(row) = f[p]
    <2>1. f[p] \in Nat
      OBVIOUS
    <2>2. IsFiniteSet(1 .. f[p]) /\ Cardinality(1 .. f[p]) = f[p]
      BY <2>1, FS_Interval
    <2>3. IsFiniteSet({p}) /\ Cardinality({p}) = 1
      BY FS_Singleton
    <2>4. IsFiniteSet(row) /\ Cardinality(row) = 1 * f[p]
      BY <2>2, <2>3, FS_Product
    <2> QED BY <2>1, <2>4
  <1>3. Units(P, M, f) = rest \cup row
    <2>1. ASSUME NEW x \in Units(P, M, f) PROVE x \in rest \cup row
      <3>1. PICK q \in P, i \in 1 .. M : x = <<q, i>>
        BY DEF Units
      <3>2. i <= f[q]
        BY <3>1 DEF Units
      <3>3. CASE q = p
        BY <3>1, <3>2, <3>3
      <3>4. CASE q # p
        BY <3>1, <3>4
      <3> QED BY <3>3, <3>4
    <2>2. ASSUME NEW x \in row PROVE x \in Units(P, M, f)
      <3>1. PICK i \in 1 .. f[p] : x = <<p, i>>
        OBVIOUS
      <3>2. f[p] \in 0 .. M /\ i \in 1 .. M /\ i <= f[p]
        OBVIOUS
      <3> QED BY <3>1, <3>2 DEF Units
    <2> QED BY <2>1, <2>2
  <1>4. rest \cap row = {}
    OBVIOUS
  <1>5. Cardinality(rest \cap row) = 0
    BY <1>4, FS_EmptySet
  <1> HIDE DEF rest, row
  <1>6. Cardinality(rest \cup row) = Cardinality(rest) + Cardinality(row) - Cardinality(rest \cap row)
    BY <1>1, <1>2, FS_Union
  <1>7. Cardinality(Units(P, M, f)) = Cardinality(rest) + f[p]
    BY <1>1, <1>2, <1>3, <1>5, <1>6
  <1> QED BY <1>1, <1>7 DEF rest

\* When one actor gets g[p] for f[p], the sum changes by the difference.
LEMMA UnitsMoved ==
  ASSUME NEW P, IsFiniteSet(P), NEW M \in Nat, NEW f \in [P -> 0 .. M], NEW g \in [P -> 0 .. M],
         NEW p \in P, \A q \in P \ {p} : g[q] = f[q]
  PROVE  /\ Cardinality(Units(P, M, f)) \in Nat /\ Cardinality(Units(P, M, g)) \in Nat
         /\ Cardinality(Units(P, M, g)) + f[p] = Cardinality(Units(P, M, f)) + g[p]
  <1> DEFINE F == {x \in Units(P, M, f) : x[1] # p}
             G == {x \in Units(P, M, g) : x[1] # p}
  <1>1. F = G
    <2>1. \A x \in P \X (1 .. M) : x[1] # p => g[x[1]] = f[x[1]]
      OBVIOUS
    <2> QED BY <2>1 DEF Units
  <1>2. Cardinality(F) \in Nat /\ Cardinality(Units(P, M, f)) = Cardinality(F) + f[p]
    BY UnitsOfOne
  <1>3. Cardinality(Units(P, M, g)) = Cardinality(G) + g[p]
    BY UnitsOfOne
  <1>4. f[p] \in Nat /\ g[p] \in Nat
    OBVIOUS
  <1> HIDE DEF F, G
  <1> QED BY <1>1, <1>2, <1>3, <1>4, UnitsFinite

\* Fewer tokens for each actor are fewer in all.
LEMMA UnitsFewer ==
  ASSUME NEW P, IsFiniteSet(P), NEW M \in Nat, NEW f \in [P -> 0 .. M], NEW g \in [P -> 0 .. M],
         \A q \in P : g[q] <= f[q]
  PROVE  /\ Cardinality(Units(P, M, f)) \in Nat /\ Cardinality(Units(P, M, g)) \in Nat
         /\ Cardinality(Units(P, M, g)) <= Cardinality(Units(P, M, f))
  <1>1. Units(P, M, g) \subseteq Units(P, M, f)
    <2> SUFFICES ASSUME NEW q \in P, NEW i \in 1 .. M, i <= g[q] PROVE i <= f[q]
      BY DEF Units
    <2> QED OBVIOUS
  <1> QED BY <1>1, UnitsFinite, FS_Subset

\* Where every actor has at most M tokens, all have at most M for each.
LEMMA UnitsAtMost ==
  ASSUME NEW P, IsFiniteSet(P), NEW M \in Nat, NEW f
  PROVE  Cardinality(Units(P, M, f)) <= Cardinality(P) * M
  <1>1. IsFiniteSet(1 .. M) /\ Cardinality(1 .. M) = M
    BY FS_Interval
  <1>2. IsFiniteSet(P \X (1 .. M)) /\ Cardinality(P \X (1 .. M)) = Cardinality(P) * M
    BY <1>1, FS_Product
  <1>3. Units(P, M, f) \subseteq P \X (1 .. M)
    BY DEF Units
  <1> QED BY <1>2, <1>3, FS_Subset

\* One actor gives up what it has, and everybody is raised to w at most.
LEMMA UnitsRaised ==
  ASSUME NEW P, IsFiniteSet(P), NEW M \in Nat, NEW f \in [P -> 0 .. M], NEW g \in [P -> 0 .. M],
         NEW p \in P, NEW w \in Nat, g[p] <= w, \A q \in P : g[q] = f[q] \/ g[q] <= w
  PROVE  /\ Cardinality(Units(P, M, f)) \in Nat /\ Cardinality(Units(P, M, g)) \in Nat
         /\ Cardinality(Units(P, M, g)) + f[p] <= Cardinality(Units(P, M, f)) + Cardinality(P) * w
  <1> DEFINE F == {x \in Units(P, M, f) : x[1] # p}
             W == P \X (1 .. w)
  <1>1. IsFiniteSet(F) /\ Cardinality(F) \in Nat /\ Cardinality(Units(P, M, f)) = Cardinality(F) + f[p]
    BY UnitsOfOne
  <1>2. IsFiniteSet(W) /\ Cardinality(W) = Cardinality(P) * w /\ Cardinality(W) \in Nat
    <2>1. IsFiniteSet(1 .. w) /\ Cardinality(1 .. w) = w
      BY FS_Interval
    <2>2. IsFiniteSet(W) /\ Cardinality(W) = Cardinality(P) * w
      BY <2>1, FS_Product
    <2> QED BY <2>2, FS_CardinalityType
  <1>3. Units(P, M, g) \subseteq F \cup W
    <2> SUFFICES ASSUME NEW q \in P, NEW i \in 1 .. M, i <= g[q]
                 PROVE  <<q, i>> \in F \cup W
      BY DEF Units
    <2>1. CASE g[q] <= w
      <3>1. i \in 1 .. w
        BY <2>1
      <3> QED BY <3>1
    <2>2. CASE g[q] = f[q] /\ q # p
      BY <2>2 DEF Units
    <2> QED BY <2>1, <2>2
  <1> HIDE DEF F, W
  <1>4. /\ IsFiniteSet(F \cup W)
        /\ Cardinality(F \cup W) = Cardinality(F) + Cardinality(W) - Cardinality(F \cap W)
    BY <1>1, <1>2, FS_Union
  <1>5. Cardinality(F \cap W) \in Nat
    BY <1>1, FS_Intersection, FS_CardinalityType
  <1>6. Cardinality(Units(P, M, g)) <= Cardinality(F \cup W)
    BY <1>3, <1>4, FS_Subset
  <1>7. f[p] \in Nat
    OBVIOUS
  <1> QED BY <1>1, <1>2, <1>4, <1>5, <1>6, <1>7, UnitsFinite

-----------------------------------------------------------------------------
(***************************************************************************)
(* What each request and each store holds                                  *)
(***************************************************************************)

\* A request that was begun has a process and a payload, and its answer, once it
\* has one, is what the handler did with that payload.
CallOK(call) ==
  /\ call \in Call
  /\ call.pc # "new" => call.proc \in Processes /\ call.body \in Bodies
  /\ call.pc \in {"save", "answered"} => call.result = call.body

GuardHistory == [admitted : Nat, started : Nat, executed : [Keys -> Nat], forgotten : [Keys -> Nat],
         windows : Nat, outages : Nat, crashes : Nat]

CallsOK == calls \in [Calls -> Call] /\ \A c \in Calls : CallOK(calls[c])

CounterOK == counter \in [count : Nat, expires : BOOLEAN]

StoreOK ==
  /\ records \in [Keys -> Bodies \cup {NoRecord}]
  /\ local \in [Processes -> Local]
  /\ guardRedis \in BOOLEAN

GuardPastOK == guardPast \in GuardHistory

\* Redis does not answer only when an outage was counted.
OutageIsCounted == ~ guardRedis => guardPast.outages > 0

GuardInv == CallsOK /\ CounterOK /\ StoreOK /\ GuardPastOK /\ OutageIsCounted /\ CounterExpires

-----------------------------------------------------------------------------
(* What a step does to each part *)

\* A step of one request keeps the others as they are.
LEMMA OneCall ==
  ASSUME CallsOK, NEW c \in Calls, NEW call, CallOK(call), calls' = [calls EXCEPT ![c] = call]
  PROVE  CallsOK'
  BY DEF CallsOK, CallOK

\* Counting or deciding leaves the payload of a request alone.
LEMMA DecidedOK ==
  ASSUME NEW call, call \in Call, call.proc \in Processes, call.body \in Bodies,
         NEW pc \in {"expire", "admitted", "run", "refused", "failed", "lost"}
  PROVE  CallOK([call EXCEPT !.pc = pc])
  BY DEF CallOK, Call

LEMMA LocalCount ==
  ASSUME StoreOK, NEW p \in Processes, NEW n \in Nat,
         local' = [local EXCEPT ![p].count = n], UNCHANGED <<records, guardRedis>>
  PROVE  StoreOK'
  BY DEF StoreOK, Local

LEMMA CountedOK ==
  ASSUME GuardPastOK, NEW n \in Nat
  PROVE  Counted(n) \in GuardHistory /\ Counted(n).outages = guardPast.outages
                             /\ Counted(n).crashes = guardPast.crashes
  <1> DEFINE a == IF Admitted(n) THEN guardPast.admitted + 1 ELSE guardPast.admitted
             s == IF n = 1 THEN guardPast.started + 1 ELSE guardPast.started
  <1>1. a \in Nat /\ s \in Nat
    BY DEF GuardPastOK, GuardHistory
  <1>2. Counted(n) = [guardPast EXCEPT !.admitted = a, !.started = s]
    BY DEF GuardPastOK, GuardHistory, Counted
  <1> HIDE DEF a, s
  <1> QED BY <1>1, <1>2 DEF GuardPastOK, GuardHistory

\* A request that is not setting the expiry has no part in CounterExpires.
LEMMA ExpiryIsOwed ==
  ASSUME CallsOK, GuardPastOK, CounterExpires, UNCHANGED counter,
         NEW c \in Calls, NEW call, calls[c].pc # "expire", calls' = [calls EXCEPT ![c] = call],
         guardPast'.crashes = guardPast.crashes, guardPast'.outages = guardPast.outages
  PROVE  CounterExpires'
  BY DEF CallsOK, CounterExpires

-----------------------------------------------------------------------------
(* The steps *)

\* INCR, by the first request of a window and by a later one.
LEMMA CountKeeps ==
  ASSUME GuardInv, NEW c \in Calls, NEW p \in Processes, NEW k \in Keys \cup {NoKey},
         NEW b \in Bodies, Count(c, p, k, b)
  PROVE  GuardInv'
  <1> DEFINE call == [FreshCall EXCEPT !.proc = p, !.key = k, !.body = b]
             n == counter.count + 1
  <1>1. /\ call \in Call
        /\ call.proc = p
        /\ call.body = b
    BY DEF FreshCall, Call
  <1>2. n \in Nat /\ n > 0
    BY DEF GuardInv, CounterOK
  <1>3. calls[c].pc = "new" /\ UNCHANGED <<records, guardRedis>>
    BY DEF Count
  <1>4. \/ /\ guardRedis /\ IsFirst(n)
           /\ counter' = [counter EXCEPT !.count = n]
           /\ calls' = [calls EXCEPT ![c] = [call EXCEPT !.pc = "expire"]]
           /\ guardPast' = [guardPast EXCEPT !.started = @ + 1]
           /\ UNCHANGED local
        \/ /\ guardRedis /\ ~ IsFirst(n)
           /\ counter' = [counter EXCEPT !.count = n]
           /\ calls' = [calls EXCEPT ![c] = Decide(call, n)]
           /\ guardPast' = [guardPast EXCEPT !.admitted = IF Admitted(n) THEN @ + 1 ELSE @]
           /\ UNCHANGED local
        \/ ~ guardRedis /\ CountLocally(c, call)
    BY DEF Count
  <1> HIDE DEF call
  <1>5. CASE /\ guardRedis /\ IsFirst(n)
             /\ counter' = [counter EXCEPT !.count = n]
             /\ calls' = [calls EXCEPT ![c] = [call EXCEPT !.pc = "expire"]]
             /\ guardPast' = [guardPast EXCEPT !.started = @ + 1]
             /\ UNCHANGED local
    <2>1. CallsOK'
      BY <1>1, <1>5, DecidedOK, OneCall DEF GuardInv
    <2>2. CounterOK'
      BY <1>2, <1>5 DEF GuardInv, CounterOK
    <2>3. StoreOK'
      BY <1>3, <1>5 DEF GuardInv, StoreOK
    <2>4. GuardPastOK' /\ OutageIsCounted'
      BY <1>3, <1>5 DEF GuardInv, GuardPastOK, GuardHistory, OutageIsCounted
    <2>5. calls'[c].pc = "expire"
      BY <1>1, <1>5 DEF GuardInv, CallsOK, Call
    <2>6. CounterExpires'
      BY <2>5 DEF CounterExpires
    <2> QED BY <2>1, <2>2, <2>3, <2>4, <2>6 DEF GuardInv
  <1>6. CASE /\ guardRedis /\ ~ IsFirst(n)
             /\ counter' = [counter EXCEPT !.count = n]
             /\ calls' = [calls EXCEPT ![c] = Decide(call, n)]
             /\ guardPast' = [guardPast EXCEPT !.admitted = IF Admitted(n) THEN @ + 1 ELSE @]
             /\ UNCHANGED local
    <2>1. CallOK(Decide(call, n))
      BY <1>1, DecidedOK DEF Decide
    <2>2. CallsOK'
      BY <2>1, <1>6, OneCall DEF GuardInv
    <2>3. CounterOK'
      BY <1>2, <1>6 DEF GuardInv, CounterOK
    <2>4. StoreOK'
      BY <1>3, <1>6 DEF GuardInv, StoreOK
    <2>5. GuardPastOK' /\ OutageIsCounted' /\ guardPast'.crashes = guardPast.crashes
                  /\ guardPast'.outages = guardPast.outages
      BY <1>3, <1>6 DEF GuardInv, GuardPastOK, GuardHistory, OutageIsCounted
    <2>6. counter.count > 0 /\ counter'.expires = counter.expires
      BY <1>6 DEF GuardInv, CounterOK, IsFirst
    <2>7. \A d \in Calls : calls[d].pc = "expire" => calls'[d].pc = "expire"
      BY <1>3, <1>6 DEF GuardInv, CallsOK
    <2>8. CounterExpires'
      BY <2>5, <2>6, <2>7 DEF GuardInv, CounterExpires
    <2> QED BY <2>2, <2>3, <2>4, <2>5, <2>8 DEF GuardInv
  <1>7. CASE ~ guardRedis /\ CountLocally(c, call)
    <2> DEFINE m == local[p].count + 1
    <2>1. m \in Nat
      BY DEF GuardInv, StoreOK, Local
    <2>2. /\ local' = [local EXCEPT ![p].count = m]
          /\ calls' = [calls EXCEPT ![c] = Decide(call, m)]
          /\ guardPast' = Counted(m)
          /\ UNCHANGED counter
      BY <1>1, <1>7 DEF CountLocally
    <2> HIDE DEF m
    <2>3. CallOK(Decide(call, m))
      BY <1>1, DecidedOK DEF Decide
    <2>4. CallsOK'
      BY <2>2, <2>3, OneCall DEF GuardInv
    <2>5. StoreOK'
      BY <2>1, <2>2, <1>3, LocalCount DEF GuardInv
    <2>6. GuardPastOK' /\ OutageIsCounted' /\ guardPast'.crashes = guardPast.crashes
                  /\ guardPast'.outages = guardPast.outages
      BY <2>1, <2>2, <1>3, CountedOK DEF GuardInv, GuardPastOK, OutageIsCounted
    <2>7. CounterExpires'
      BY <2>2, <2>6, <1>3, ExpiryIsOwed DEF GuardInv
    <2>8. CounterOK'
      BY <2>2 DEF GuardInv, CounterOK
    <2> QED BY <2>4, <2>5, <2>6, <2>7, <2>8 DEF GuardInv
  <1> QED BY <1>4, <1>5, <1>6, <1>7

\* EXPIRE, or the count in memory instead: then an outage came between the two.
LEMMA SetExpiryKeeps ==
  ASSUME GuardInv, NEW c \in Calls, SetExpiry(c)
  PROVE  GuardInv'
  <1> DEFINE call == calls[c]
             p == call.proc
             m == local[p].count + 1
  <1>1. call.pc = "expire" /\ UNCHANGED <<records, guardRedis>>
    BY DEF SetExpiry
  <1>2. call \in Call /\ p \in Processes /\ call.body \in Bodies
    BY <1>1 DEF GuardInv, CallsOK, CallOK
  <1>3. CASE /\ guardRedis
             /\ counter' = [counter EXCEPT !.expires = TRUE]
             /\ calls' = [calls EXCEPT ![c].pc = "admitted"]
             /\ guardPast' = [guardPast EXCEPT !.admitted = @ + 1]
             /\ UNCHANGED local
    <2>1. calls' = [calls EXCEPT ![c] = [call EXCEPT !.pc = "admitted"]]
      BY <1>3 DEF GuardInv, CallsOK
    <2>2. CallsOK'
      BY <2>1, <1>2, DecidedOK, OneCall DEF GuardInv
    <2>3. CounterOK' /\ CounterExpires'
      BY <1>3 DEF GuardInv, CounterOK, CounterExpires
    <2>4. StoreOK'
      BY <1>1, <1>3 DEF GuardInv, StoreOK
    <2>5. GuardPastOK' /\ OutageIsCounted'
      BY <1>1, <1>3 DEF GuardInv, GuardPastOK, GuardHistory, OutageIsCounted
    <2> QED BY <2>2, <2>3, <2>4, <2>5 DEF GuardInv
  <1>4. CASE ~ guardRedis /\ CountLocally(c, calls[c])
    <2>1. m \in Nat
      BY <1>2 DEF GuardInv, StoreOK, Local
    <2>2. /\ local' = [local EXCEPT ![p].count = m]
          /\ calls' = [calls EXCEPT ![c] = Decide(call, m)]
          /\ guardPast' = Counted(m)
          /\ UNCHANGED counter
      BY <1>4 DEF CountLocally
    <2> HIDE DEF m
    <2>3. CallOK(Decide(call, m))
      BY <1>2, DecidedOK DEF Decide
    <2>4. CallsOK'
      BY <2>2, <2>3, OneCall DEF GuardInv
    <2>5. StoreOK'
      BY <2>1, <2>2, <1>1, <1>2, LocalCount DEF GuardInv
    <2>6. GuardPastOK' /\ OutageIsCounted' /\ guardPast'.outages = guardPast.outages
      BY <2>1, <2>2, <1>1, CountedOK DEF GuardInv, GuardPastOK, OutageIsCounted
    <2>7. guardPast'.outages > 0 /\ guardPast'.crashes \in Nat /\ guardPast'.outages \in Nat
      BY <2>6, <1>4 DEF GuardInv, OutageIsCounted, GuardPastOK, GuardHistory
    <2>8. CounterExpires'
      BY <2>7 DEF CounterExpires
    <2>9. CounterOK'
      BY <2>2 DEF GuardInv, CounterOK
    <2> QED BY <2>4, <2>5, <2>6, <2>8, <2>9 DEF GuardInv
  <1> QED BY <1>3, <1>4 DEF SetExpiry

\* What is found under a key is a payload that was executed, or nothing.
LEMMA SavedType ==
  ASSUME StoreOK, NEW p \in Processes, NEW k \in Keys
  PROVE  Saved(p, k) \in Bodies \cup {NoRecord}
  BY DEF StoreOK, Local, Saved

\* A replayed answer was saved for the same payload.
LEMMA LookUpKeeps ==
  ASSUME GuardInv, NEW c \in Calls, LookUp(c)
  PROVE  GuardInv'
  <1> DEFINE call == calls[c]
             saved == IF call.key = NoKey THEN NoRecord ELSE Saved(call.proc, call.key)
             next == IF saved = NoRecord THEN [call EXCEPT !.pc = "run"]
                     ELSE IF SamePayload(saved, call.body) THEN Replayed(call, saved)
                     ELSE [call EXCEPT !.pc = "refused"]
  <1>1. call.pc = "admitted" /\ calls' = [calls EXCEPT ![c] = next]
        /\ UNCHANGED <<counter, records, local, guardRedis, guardPast>>
    BY DEF LookUp
  <1>2. call \in Call /\ call.proc \in Processes /\ call.body \in Bodies
    BY <1>1 DEF GuardInv, CallsOK, CallOK
  <1>3. saved = call.body => CallOK(Replayed(call, saved))
    BY <1>2 DEF Replayed, CallOK, Call
  <1>4. CallOK(next)
    BY <1>2, <1>3, DecidedOK DEF SamePayload
  <1> HIDE DEF next
  <1>5. CallsOK'
    BY <1>1, <1>4, OneCall DEF GuardInv
  <1>6. CounterExpires'
    BY <1>1, ExpiryIsOwed DEF GuardInv
  <1> QED BY <1>1, <1>5, <1>6 DEF GuardInv, CounterOK, StoreOK, GuardPastOK, OutageIsCounted

\* The handler runs on the payload of its own request.
LEMMA ExecuteKeeps ==
  ASSUME GuardInv, NEW c \in Calls, Execute(c)
  PROVE  GuardInv'
  <1> DEFINE call == calls[c]
             done == [call EXCEPT !.pc = "save", !.result = call.body]
             failed == [call EXCEPT !.pc = "failed"]
  <1>1. call.pc = "run" /\ UNCHANGED <<counter, records, local, guardRedis>>
    BY DEF Execute
  <1>2. call \in Call /\ call.proc \in Processes /\ call.body \in Bodies
    BY <1>1 DEF GuardInv, CallsOK, CallOK
  <1>3. CallOK(done)
    BY <1>2 DEF CallOK, Call
  <1>4. CallOK(failed)
    BY <1>2, DecidedOK
  <1>5. \/ calls' = [calls EXCEPT ![c] = done]
        \/ calls' = [calls EXCEPT ![c] = failed]
    BY DEF Execute, GuardInv, CallsOK, Call
  <1>6. GuardPastOK' /\ guardPast'.crashes = guardPast.crashes /\ guardPast'.outages = guardPast.outages
    <2>1. CASE UNCHANGED guardPast
      BY <2>1 DEF GuardInv, GuardPastOK
    <2>2. CASE guardPast' = [guardPast EXCEPT !.executed =
                               [k \in Keys |-> IF k = call.key THEN @[k] + 1 ELSE @[k]]]
      BY <2>2 DEF GuardInv, GuardPastOK, GuardHistory
    <2> QED BY <2>1, <2>2 DEF Execute
  <1> HIDE DEF done, failed
  <1>7. CallsOK'
    BY <1>3, <1>4, <1>5, OneCall DEF GuardInv
  <1>8. CounterExpires'
    BY <1>1, <1>5, <1>6, ExpiryIsOwed DEF GuardInv
  <1> QED BY <1>1, <1>6, <1>7, <1>8 DEF GuardInv, CounterOK, StoreOK, OutageIsCounted

\* Saving the answer.
LEMMA SaveKeeps ==
  ASSUME GuardInv, NEW c \in Calls, Save(c)
  PROVE  GuardInv'
  <1> DEFINE call == calls[c]
             done == [call EXCEPT !.pc = "answered"]
  <1>1. call.pc = "save" /\ UNCHANGED <<counter, guardRedis, guardPast>>
        /\ calls' = [calls EXCEPT ![c].pc = "answered"]
    BY DEF Save
  <1>2. call \in Call /\ call.proc \in Processes /\ call.body \in Bodies /\ call.result = call.body
    BY <1>1 DEF GuardInv, CallsOK, CallOK
  <1>3. CallOK(done)
    BY <1>2 DEF CallOK, Call
  <1>4. calls' = [calls EXCEPT ![c] = done]
    BY <1>1 DEF GuardInv, CallsOK
  <1>5. StoreOK'
    <2>1. CASE UNCHANGED <<records, local>>
      BY <2>1, <1>1 DEF GuardInv, StoreOK
    <2>2. CASE call.key # NoKey /\ records' = [records EXCEPT ![call.key] = call.body] /\ UNCHANGED local
      BY <2>2, <1>1, <1>2 DEF GuardInv, StoreOK, Call
    <2>3. CASE call.key # NoKey /\ local' = [local EXCEPT ![call.proc].records[call.key] = call.body]
               /\ UNCHANGED records
      <3>1. call.key \in Keys
        BY <2>3, <1>2 DEF Call
      <3>2. local' \in [Processes -> Local]
        BY <3>1, <2>3, <1>2 DEF GuardInv, StoreOK, Local
      <3> QED BY <3>2, <2>3, <1>1 DEF GuardInv, StoreOK
    <2> QED BY <2>1, <2>2, <2>3 DEF Save
  <1> HIDE DEF done
  <1>6. CallsOK'
    BY <1>3, <1>4, OneCall DEF GuardInv
  <1>7. CounterExpires'
    BY <1>1, <1>4, ExpiryIsOwed DEF GuardInv
  <1> QED BY <1>1, <1>5, <1>6, <1>7 DEF GuardInv, CounterOK, GuardPastOK, OutageIsCounted

\* Expiries and outages touch no request.
LEMMA TimeKeeps ==
  ASSUME GuardInv,
         \/ WindowEnds
         \/ GuardRedisFails
         \/ GuardRedisReturns
         \/ \E p \in Processes : LocalWindowEnds(p)
         \/ \E k \in Keys : RecordExpires(k)
  PROVE  GuardInv'
  <1>1. CASE WindowEnds
    BY <1>1 DEF GuardInv, CallsOK, CounterOK, StoreOK, GuardPastOK, GuardHistory, OutageIsCounted, CounterExpires, WindowEnds
  <1>2. CASE GuardRedisFails
    <2>1. GuardPastOK' /\ guardPast'.outages > 0 /\ guardPast'.crashes \in Nat /\ guardPast'.outages \in Nat
      BY <1>2 DEF GuardInv, GuardPastOK, GuardHistory, GuardRedisFails
    <2>2. CounterExpires'
      BY <2>1 DEF CounterExpires
    <2> QED BY <2>1, <2>2, <1>2 DEF GuardInv, CallsOK, CounterOK, StoreOK, OutageIsCounted, GuardRedisFails
  <1>3. CASE GuardRedisReturns
    BY <1>3 DEF GuardInv, CallsOK, CounterOK, StoreOK, GuardPastOK, OutageIsCounted, CounterExpires, GuardRedisReturns
  <1>4. ASSUME NEW p \in Processes, LocalWindowEnds(p) PROVE GuardInv'
    <2>1. StoreOK'
      BY <1>4, LocalCount DEF GuardInv, LocalWindowEnds
    <2>2. GuardPastOK' /\ guardPast'.crashes = guardPast.crashes /\ guardPast'.outages = guardPast.outages
      BY <1>4 DEF GuardInv, GuardPastOK, GuardHistory, LocalWindowEnds
    <2> QED BY <2>1, <2>2, <1>4 DEF GuardInv, CallsOK, CounterOK, OutageIsCounted, CounterExpires, LocalWindowEnds
  <1>5. ASSUME NEW k \in Keys, RecordExpires(k) PROVE GuardInv'
    <2>1. StoreOK'
      BY <1>5 DEF GuardInv, StoreOK, RecordExpires
    <2>2. GuardPastOK' /\ guardPast'.crashes = guardPast.crashes /\ guardPast'.outages = guardPast.outages
      <3> DEFINE f == [guardPast.forgotten EXCEPT ![k] = @ + 1]
      <3>1. f \in [Keys -> Nat]
        BY DEF GuardInv, GuardPastOK, GuardHistory
      <3>2. guardPast' = [guardPast EXCEPT !.windows = @ + 1, !.forgotten = f]
        BY <1>5 DEF RecordExpires
      <3>3. guardPast \in GuardHistory /\ guardPast.windows + 1 \in Nat
        BY DEF GuardInv, GuardPastOK, GuardHistory
      <3> HIDE DEF f
      <3>4. [guardPast EXCEPT !.windows = @ + 1, !.forgotten = f] \in GuardHistory
        BY <3>1, <3>3 DEF GuardHistory
      <3>5. guardPast'.crashes = guardPast.crashes /\ guardPast'.outages = guardPast.outages
        BY <3>2, <3>3 DEF GuardHistory
      <3> QED BY <3>2, <3>4, <3>5 DEF GuardPastOK
    <2> QED BY <2>1, <2>2, <1>5 DEF GuardInv, CallsOK, CounterOK, OutageIsCounted, CounterExpires, RecordExpires
  <1> QED BY <1>1, <1>2, <1>3, <1>4, <1>5

\* A crash loses the requests in flight and the memory of the process.
LEMMA CrashKeeps ==
  ASSUME GuardInv, NEW p \in Processes, Crash(p)
  PROVE  GuardInv'
  <1>1. CallsOK'
    <2>1. \A c \in Calls : calls[c] \in Call /\ CallOK(calls[c])
      BY DEF GuardInv, CallsOK
    <2>2. \A c \in Calls : calls[c].pc \in InFlight => CallOK([calls[c] EXCEPT !.pc = "lost"])
      <3> SUFFICES ASSUME NEW c \in Calls, calls[c].pc \in InFlight
                   PROVE  CallOK([calls[c] EXCEPT !.pc = "lost"])
        OBVIOUS
      <3> QED BY <2>1, DecidedOK DEF CallOK, InFlight
    <2>3. \A c \in Calls : CallOK(calls'[c])
      BY <2>1, <2>2 DEF Crash
    <2>4. calls' \in [Calls -> Call]
      BY <2>3 DEF Crash, CallOK
    <2> QED BY <2>3, <2>4 DEF CallsOK
  <1>2. StoreOK'
    BY DEF GuardInv, StoreOK, Local, EmptyLocal, Crash
  <1>3. GuardPastOK' /\ guardPast'.outages = guardPast.outages /\ guardPast'.crashes > 0
    BY DEF GuardInv, GuardPastOK, GuardHistory, Crash
  <1>4. CounterExpires'
    BY <1>3 DEF CounterExpires, GuardPastOK, GuardHistory
  <1> QED BY <1>1, <1>2, <1>3, <1>4 DEF GuardInv, CounterOK, OutageIsCounted, Crash

-----------------------------------------------------------------------------
LEMMA GuardBegins == GuardInit => GuardInv
  <1> SUFFICES ASSUME GuardInit PROVE GuardInv
    OBVIOUS
  <1>1. CallOK(FreshCall)
    BY DEF CallOK, FreshCall, Call
  <1>2. CallsOK
    BY <1>1 DEF CallsOK, CallOK, GuardInit
  <1>3. StoreOK
    BY DEF StoreOK, Local, EmptyLocal, GuardInit
  <1>4. GuardPastOK /\ CounterOK /\ OutageIsCounted /\ CounterExpires
    BY DEF GuardPastOK, GuardHistory, CounterOK, OutageIsCounted, CounterExpires, GuardInit
  <1> QED BY <1>2, <1>3, <1>4 DEF GuardInv

LEMMA GuardStep ==
  ASSUME GuardInv, [GuardNext]_guardVars
  PROVE  GuardInv'
  <1>1. CASE UNCHANGED guardVars
    BY <1>1 DEF guardVars, GuardInv, CallsOK, CounterOK, StoreOK, GuardPastOK, OutageIsCounted, CounterExpires
  <1>2. CASE GuardNext
    BY <1>2, CountKeeps, SetExpiryKeeps, LookUpKeeps, ExecuteKeeps, SaveKeeps, TimeKeeps, CrashKeeps
      DEF GuardNext
  <1> QED BY <1>1, <1>2

\* Types, payloads and counters keep in step whatever crashes, fails or expires.
THEOREM GuardInvariant == GuardSpec => []GuardInv
  <1>1. GuardInv /\ [GuardNext]_guardVars => GuardInv'
    BY GuardStep
  <1> QED BY GuardBegins, <1>1, PTL DEF GuardSpec

\* The answer to a request is what the handler did for the payload of that
\* request, replayed or not (idempotent_execute).
THEOREM AnswersAreOwn == GuardSpec => []AnswerIsOwn
  <1>1. GuardInv => AnswerIsOwn
    BY DEF GuardInv, CallsOK, CallOK, AnswerIsOwn
  <1> QED BY <1>1, GuardInvariant, PTL

\* A counter in Redis without expiry has its creator on the way to set it, or was
\* left by a crash or an outage between INCR and EXPIRE (RateLimiter.enforce).
THEOREM CountersExpire == GuardSpec => []CounterExpires
  <1>1. GuardInv => CounterExpires
    BY DEF GuardInv
  <1> QED BY <1>1, GuardInvariant, PTL

\* The types of requests, keys and counters (RateLimiter, IdempotencyStore).
THEOREM GuardTypesHold == GuardSpec => []GuardTypeOK
  <1>1. GuardInv => GuardTypeOK
    BY DEF GuardInv, CallsOK, CallOK, CounterOK, StoreOK, GuardPastOK, GuardHistory, GuardTypeOK
  <1> QED BY <1>1, GuardInvariant, PTL

-----------------------------------------------------------------------------
(* What the rate limiter lets through *)

\* The requests that began a window in Redis and have yet to be let through.
Expiring == {c \in Calls : calls[c].pc = "expire"}

\* What a window that counted n requests may still let through.
Rest(n) == IF n = 0 \/ n > Limit THEN 0 ELSE Limit - n

LocalRest == [p \in Processes |-> Rest(local[p].count)]

LocalLeft == Cardinality(Units(Processes, Limit, LocalRest))

\* Every window that was begun pays for Limit requests: those it let through, the
\* one that is setting its expiry, and those it may still let through.
AdmissionsLeft ==
  guardPast.admitted + Cardinality(Expiring) + Rest(counter.count) + LocalLeft
    <= Limit * guardPast.started

LEMMA RestType == \A n \in Nat : Rest(n) \in 0 .. Limit
  BY GuardAssumption DEF Rest

\* Counting the n-th request of a window and letting it through when it may.
LEMMA RestSpent ==
  ASSUME NEW n \in Nat
  PROVE  Rest(n + 1) + (IF Admitted(n + 1) THEN 1 ELSE 0)
           = IF n = 0 THEN Limit ELSE Rest(n)
  BY GuardAssumption DEF Rest, Admitted

LEMMA LocalRestType ==
  ASSUME StoreOK
  PROVE  /\ LocalRest \in [Processes -> 0 .. Limit]
         /\ LocalLeft \in Nat
         /\ \A p \in Processes : local[p].count \in Nat /\ LocalRest[p] = Rest(local[p].count)
  <1>1. \A p \in Processes : local[p].count \in Nat
    BY DEF StoreOK, Local
  <1>2. LocalRest \in [Processes -> 0 .. Limit]
    BY <1>1, RestType DEF LocalRest
  <1>3. LocalLeft \in Nat
    BY UnitsFinite, GuardAssumption DEF LocalLeft
  <1> QED BY <1>1, <1>2, <1>3 DEF LocalRest

LEMMA ExpiringFinite ==
  IsFiniteSet(Expiring) /\ Cardinality(Expiring) \in Nat
  <1>1. Expiring \subseteq Calls
    BY DEF Expiring
  <1> QED BY <1>1, FS_Subset, FS_CardinalityType, GuardAssumption

\* The counter of one process becomes n.
LEMMA LocalRestMoved ==
  ASSUME StoreOK, StoreOK', NEW p \in Processes, NEW n \in Nat, local'[p].count = n,
         \A q \in Processes \ {p} : local'[q].count = local[q].count
  PROVE  LocalLeft' + Rest(local[p].count) = LocalLeft + Rest(n)
  <1> DEFINE f == LocalRest
             g == LocalRest'
  <1>1. f \in [Processes -> 0 .. Limit] /\ f[p] = Rest(local[p].count)
    BY LocalRestType
  <1>2. g \in [Processes -> 0 .. Limit]
    <2>1. \A q \in Processes : local'[q].count \in Nat
      BY DEF StoreOK, Local
    <2> QED BY <2>1, RestType DEF LocalRest
  <1>3. g[p] = Rest(n) /\ \A q \in Processes \ {p} : g[q] = f[q]
    BY DEF LocalRest
  <1>4. Cardinality(Units(Processes, Limit, g)) + f[p] = Cardinality(Units(Processes, Limit, f)) + g[p]
    <2> HIDE DEF f, g
    <2> QED BY <1>1, <1>2, <1>3, UnitsMoved, GuardAssumption
  <1> QED BY <1>1, <1>3, <1>4 DEF LocalLeft

\* Counting in the memory of a process: a window begun there pays for Limit.
LEMMA CountLocallyPays ==
  ASSUME GuardInv, GuardInv', NEW c \in Calls, NEW call, call.proc \in Processes,
         CountLocally(c, call)
  PROVE  /\ guardPast'.admitted + LocalLeft' + Limit * guardPast.started
              = guardPast.admitted + LocalLeft + Limit * guardPast'.started
         /\ calls' = [calls EXCEPT ![c] = Decide(call, local[call.proc].count + 1)]
         /\ UNCHANGED counter
  <1> DEFINE p == call.proc
             n == local[p].count
             a == IF Admitted(n + 1) THEN 1 ELSE 0
             s == IF n = 0 THEN 1 ELSE 0
  <1>1. /\ local' = [local EXCEPT ![p].count = n + 1]
        /\ calls' = [calls EXCEPT ![c] = Decide(call, n + 1)]
        /\ guardPast' = Counted(n + 1)
        /\ UNCHANGED counter
    BY DEF CountLocally
  <1>2. n \in Nat /\ StoreOK /\ StoreOK' /\ guardPast \in GuardHistory
    BY DEF GuardInv, GuardPastOK, StoreOK, Local
  <1>3. /\ local'[p].count = n + 1
        /\ \A q \in Processes \ {p} : local'[q].count = local[q].count
    BY <1>1, <1>2 DEF StoreOK, Local
  <1>4. guardPast'.admitted = guardPast.admitted + a /\ guardPast'.started = guardPast.started + s
    BY <1>1, <1>2 DEF Counted, GuardHistory
  <1>5. LocalLeft' + Rest(n) = LocalLeft + Rest(n + 1)
    BY <1>2, <1>3, LocalRestMoved
  <1>6. Rest(n + 1) + a = IF n = 0 THEN Limit ELSE Rest(n)
    BY <1>2, RestSpent
  <1>7. n = 0 => Rest(n) = 0
    BY DEF Rest
  <1>8. /\ guardPast.admitted \in Nat /\ guardPast.started \in Nat
        /\ LocalLeft \in Nat /\ LocalLeft' \in Nat
        /\ Rest(n) \in Nat /\ Rest(n + 1) \in Nat /\ a \in Nat /\ Limit \in Nat
    BY <1>2, LocalRestType, RestType, UnitsFinite, GuardAssumption DEF GuardHistory, LocalLeft
  <1>9. Limit * (guardPast.started + 1) = Limit * guardPast.started + Limit
    BY <1>8
  <1> HIDE DEF p, n, a
  <1>10. guardPast'.admitted + LocalLeft' + Limit * guardPast.started
           = guardPast.admitted + LocalLeft + Limit * guardPast'.started
    <2>1. CASE n = 0
      BY <1>4, <1>5, <1>6, <1>7, <1>8, <1>9, <2>1
    <2>2. CASE n # 0
      <3>1. guardPast'.started = guardPast.started
        BY <1>4, <1>8, <2>2
      <3>2. Rest(n + 1) + a = Rest(n)
        BY <1>6, <2>2
      <3>3. guardPast'.admitted + LocalLeft' = guardPast.admitted + LocalLeft
        BY <1>4, <1>5, <1>8, <3>2
      <3>4. Limit * guardPast.started \in Nat /\ guardPast'.admitted \in Nat
        BY <1>4, <1>8
      <3> QED BY <1>8, <3>1, <3>3, <3>4
    <2> QED BY <2>1, <2>2
  <1> QED BY <1>1, <1>10 DEF p, n

\* A step that leaves all counters alone, and no more requests setting an expiry.
LEMMA AdmissionsUntouched ==
  ASSUME GuardInv, AdmissionsLeft, UNCHANGED counter,
         \A p \in Processes : local'[p].count = local[p].count,
         guardPast'.admitted = guardPast.admitted, guardPast'.started = guardPast.started,
         Expiring' \subseteq Expiring
  PROVE  AdmissionsLeft'
  <1>1. LocalRest' = LocalRest
    BY DEF LocalRest
  <1>2. Cardinality(Expiring') <= Cardinality(Expiring) /\ Cardinality(Expiring') \in Nat
    BY ExpiringFinite, FS_Subset, FS_CardinalityType
  <1>3. LocalLeft' = LocalLeft /\ LocalLeft \in Nat
    BY <1>1, UnitsFinite, GuardAssumption DEF LocalLeft
  <1>4. /\ guardPast.admitted \in Nat /\ Rest(counter.count) \in Nat
        /\ Limit * guardPast.started \in Nat
    BY RestType, GuardAssumption DEF GuardInv, GuardPastOK, GuardHistory, CounterOK
  <1> QED BY <1>2, <1>3, <1>4, ExpiringFinite DEF AdmissionsLeft

\* One request takes another state.
LEMMA ExpiringMoved ==
  ASSUME GuardInv, NEW c \in Calls, NEW call, calls' = [calls EXCEPT ![c] = call]
  PROVE  /\ call.pc = "expire" => Expiring' = Expiring \cup {c}
         /\ call.pc # "expire" => Expiring' = Expiring \ {c}
  BY DEF Expiring, GuardInv, CallsOK

LEMMA CountAdmits ==
  ASSUME GuardInv, GuardInv', AdmissionsLeft, NEW c \in Calls, NEW p \in Processes,
         NEW k \in Keys \cup {NoKey}, NEW b \in Bodies, Count(c, p, k, b)
  PROVE  AdmissionsLeft'
  <1> DEFINE call == [FreshCall EXCEPT !.proc = p, !.key = k, !.body = b]
             n == counter.count
             a == IF Admitted(n + 1) THEN 1 ELSE 0
  <1>1. /\ call.proc = p
        /\ calls[c].pc = "new"
        /\ [call EXCEPT !.pc = "expire"].pc = "expire"
        /\ \A m : Decide(call, m).pc # "expire"
    BY DEF Count, FreshCall, Decide
  <1>2. c \notin Expiring
    BY <1>1 DEF Expiring
  <1>3. \/ /\ guardRedis /\ n = 0
           /\ counter' = [counter EXCEPT !.count = n + 1]
           /\ calls' = [calls EXCEPT ![c] = [call EXCEPT !.pc = "expire"]]
           /\ guardPast' = [guardPast EXCEPT !.started = @ + 1]
           /\ UNCHANGED local
        \/ /\ guardRedis /\ n # 0
           /\ counter' = [counter EXCEPT !.count = n + 1]
           /\ calls' = [calls EXCEPT ![c] = Decide(call, n + 1)]
           /\ guardPast' = [guardPast EXCEPT !.admitted = IF Admitted(n + 1) THEN @ + 1 ELSE @]
           /\ UNCHANGED local
        \/ CountLocally(c, call)
    BY DEF Count, IsFirst, GuardInv, CounterOK
  <1>4. n \in Nat /\ guardPast \in GuardHistory /\ counter \in [count : Nat, expires : BOOLEAN]
    BY DEF GuardInv, CounterOK, GuardPastOK
  <1>5. /\ guardPast.admitted \in Nat /\ guardPast.started \in Nat /\ Limit \in Nat
        /\ Limit * guardPast.started \in Nat
        /\ Limit * (guardPast.started + 1) = Limit * guardPast.started + Limit
        /\ LocalLeft \in Nat /\ LocalLeft' \in Nat
        /\ Rest(n) \in Nat /\ Rest(n + 1) \in Nat
        /\ Cardinality(Expiring) \in Nat
    BY <1>4, RestType, ExpiringFinite, UnitsFinite, GuardAssumption DEF GuardHistory, LocalLeft
  <1>6. Rest(n + 1) + a = IF n = 0 THEN Limit ELSE Rest(n)
    BY <1>4, RestSpent
  <1>7. UNCHANGED local => LocalLeft' = LocalLeft
    BY DEF LocalLeft, LocalRest
  <1> HIDE DEF call
  <1>8. CASE /\ guardRedis /\ n = 0
             /\ counter' = [counter EXCEPT !.count = n + 1]
             /\ calls' = [calls EXCEPT ![c] = [call EXCEPT !.pc = "expire"]]
             /\ guardPast' = [guardPast EXCEPT !.started = @ + 1]
             /\ UNCHANGED local
    <2>1. Expiring' = Expiring \cup {c}
      BY <1>1, <1>8, ExpiringMoved
    <2>2. Cardinality(Expiring') = Cardinality(Expiring) + 1
      BY <2>1, <1>2, ExpiringFinite, FS_AddElement
    <2>3. /\ guardPast'.started = guardPast.started + 1
          /\ guardPast'.admitted = guardPast.admitted
          /\ counter'.count = n + 1
      BY <1>4, <1>8 DEF GuardHistory
    <2>4. Rest(1) = Limit - 1 /\ Rest(0) = 0
      BY GuardAssumption DEF Rest
    <2> HIDE DEF n
    <2> QED BY <1>5, <1>7, <1>8, <2>2, <2>3, <2>4 DEF AdmissionsLeft, n
  <1>9. CASE /\ guardRedis /\ n # 0
             /\ counter' = [counter EXCEPT !.count = n + 1]
             /\ calls' = [calls EXCEPT ![c] = Decide(call, n + 1)]
             /\ guardPast' = [guardPast EXCEPT !.admitted = IF Admitted(n + 1) THEN @ + 1 ELSE @]
             /\ UNCHANGED local
    <2>1. Expiring' = Expiring
      <3>1. calls' = [calls EXCEPT ![c] = Decide(call, n + 1)] /\ Decide(call, n + 1).pc # "expire"
        BY <1>1, <1>9
      <3>2. Expiring' = Expiring \ {c}
        BY <3>1, ExpiringMoved
      <3> QED BY <1>2, <3>2
    <2>2. /\ guardPast'.started = guardPast.started
          /\ guardPast'.admitted = guardPast.admitted + a
          /\ counter'.count = n + 1
      BY <1>4, <1>9 DEF GuardHistory
    <2>3. a \in Nat
      OBVIOUS
    <2> HIDE DEF a
    <2> QED BY <1>5, <1>6, <1>7, <1>9, <2>1, <2>2, <2>3 DEF AdmissionsLeft
  <1>10. CASE CountLocally(c, call)
    <2>1. /\ guardPast'.admitted + LocalLeft' + Limit * guardPast.started
              = guardPast.admitted + LocalLeft + Limit * guardPast'.started
          /\ calls' = [calls EXCEPT ![c] = Decide(call, local[p].count + 1)]
          /\ UNCHANGED counter
      BY <1>1, <1>10, CountLocallyPays
    <2>2. Expiring' = Expiring
      <3> DEFINE d == Decide(call, local[p].count + 1)
      <3>1. d.pc # "expire" /\ calls' = [calls EXCEPT ![c] = d]
        BY <1>1, <2>1
      <3> HIDE DEF d
      <3> QED BY <1>2, <3>1, ExpiringMoved
    <2>3. guardPast'.admitted \in Nat /\ Limit * guardPast'.started \in Nat
      BY GuardAssumption DEF GuardInv, GuardPastOK, GuardHistory
    <2> QED BY <1>5, <2>1, <2>2, <2>3 DEF AdmissionsLeft
  <1> QED BY <1>3, <1>8, <1>9, <1>10

LEMMA SetExpiryAdmits ==
  ASSUME GuardInv, GuardInv', AdmissionsLeft, NEW c \in Calls, SetExpiry(c)
  PROVE  AdmissionsLeft'
  <1> DEFINE call == calls[c]
             p == call.proc
  <1>1. /\ call.pc = "expire" /\ c \in Expiring
        /\ \A m : Decide(call, m).pc # "expire" /\ [call EXCEPT !.pc = "admitted"].pc # "expire"
    BY DEF SetExpiry, Expiring, Decide, GuardInv, CallsOK, Call
  <1>2. p \in Processes
    BY <1>1 DEF GuardInv, CallsOK, CallOK
  <1>3. /\ guardPast.admitted \in Nat /\ Limit * guardPast.started \in Nat
        /\ guardPast'.admitted \in Nat /\ Limit * guardPast'.started \in Nat
        /\ LocalLeft \in Nat /\ LocalLeft' \in Nat
        /\ Rest(counter.count) \in Nat
        /\ Cardinality(Expiring) \in Nat
    BY RestType, ExpiringFinite, UnitsFinite, GuardAssumption
      DEF GuardInv, GuardPastOK, GuardHistory, CounterOK, LocalLeft
  <1>4. ASSUME NEW x, calls' = [calls EXCEPT ![c] = x], x.pc # "expire"
        PROVE  Cardinality(Expiring') = Cardinality(Expiring) - 1
    <2>1. Expiring' = Expiring \ {c}
      BY <1>4, ExpiringMoved
    <2> QED BY <2>1, <1>1, ExpiringFinite, FS_RemoveElement
  <1>5. CASE /\ guardRedis
             /\ counter' = [counter EXCEPT !.expires = TRUE]
             /\ calls' = [calls EXCEPT ![c].pc = "admitted"]
             /\ guardPast' = [guardPast EXCEPT !.admitted = @ + 1]
             /\ UNCHANGED local
    <2>1. Cardinality(Expiring') = Cardinality(Expiring) - 1
      <3>1. calls' = [calls EXCEPT ![c] = [call EXCEPT !.pc = "admitted"]]
        BY <1>5
      <3> QED BY <3>1, <1>1, <1>4
    <2>2. /\ guardPast'.started = guardPast.started
          /\ guardPast'.admitted = guardPast.admitted + 1
          /\ counter'.count = counter.count
      BY <1>5 DEF GuardInv, GuardPastOK, GuardHistory, CounterOK
    <2>3. LocalLeft' = LocalLeft
      BY <1>5 DEF LocalLeft, LocalRest
    <2> QED BY <1>3, <2>1, <2>2, <2>3 DEF AdmissionsLeft
  <1>6. CASE CountLocally(c, call)
    <2>1. /\ guardPast'.admitted + LocalLeft' + Limit * guardPast.started
              = guardPast.admitted + LocalLeft + Limit * guardPast'.started
          /\ calls' = [calls EXCEPT ![c] = Decide(call, local[p].count + 1)]
          /\ UNCHANGED counter
      BY <1>2, <1>6, CountLocallyPays
    <2>2. Cardinality(Expiring') = Cardinality(Expiring) - 1
      BY <1>1, <1>4, <2>1
    <2> QED BY <1>3, <2>1, <2>2 DEF AdmissionsLeft
  <1> QED BY <1>5, <1>6 DEF SetExpiry

\* The end of a window takes away what it had left.
LEMMA WindowEndAdmits ==
  ASSUME GuardInv, GuardInv', AdmissionsLeft, WindowEnds \/ \E p \in Processes : LocalWindowEnds(p)
  PROVE  AdmissionsLeft'
  <1>1. /\ guardPast.admitted \in Nat /\ Limit * guardPast.started \in Nat
        /\ LocalLeft \in Nat /\ LocalLeft' \in Nat
        /\ Rest(counter.count) \in Nat /\ Rest(0) = 0
        /\ Cardinality(Expiring) \in Nat
    BY RestType, ExpiringFinite, UnitsFinite, GuardAssumption
      DEF GuardInv, GuardPastOK, GuardHistory, CounterOK, LocalLeft, Rest
  <1>2. CASE WindowEnds
    <2>1. /\ guardPast'.admitted = guardPast.admitted /\ guardPast'.started = guardPast.started
          /\ counter'.count = 0 /\ Expiring' = Expiring /\ LocalLeft' = LocalLeft
      BY <1>2 DEF WindowEnds, GuardInv, GuardPastOK, GuardHistory, Expiring, LocalLeft, LocalRest
    <2> QED BY <1>1, <2>1 DEF AdmissionsLeft
  <1>3. ASSUME NEW p \in Processes, LocalWindowEnds(p) PROVE AdmissionsLeft'
    <2>1. /\ guardPast'.admitted = guardPast.admitted /\ guardPast'.started = guardPast.started
          /\ counter' = counter /\ Expiring' = Expiring
      BY <1>3 DEF LocalWindowEnds, GuardInv, GuardPastOK, GuardHistory, Expiring
    <2>2. local[p].count \in Nat /\ local'[p].count = 0 /\ \A q \in Processes \ {p} : local'[q].count = local[q].count
      BY <1>3 DEF LocalWindowEnds, GuardInv, StoreOK, Local
    <2>3. LocalLeft' + Rest(local[p].count) = LocalLeft + Rest(0)
      BY <2>2, LocalRestMoved DEF GuardInv
    <2>4. Rest(local[p].count) \in Nat
      BY <2>2, RestType
    <2> QED BY <1>1, <2>1, <2>3, <2>4 DEF AdmissionsLeft
  <1> QED BY <1>2, <1>3

LEMMA CrashAdmits ==
  ASSUME GuardInv, GuardInv', AdmissionsLeft, NEW p \in Processes, Crash(p)
  PROVE  AdmissionsLeft'
  <1>1. /\ guardPast.admitted \in Nat /\ Limit * guardPast.started \in Nat
        /\ LocalLeft \in Nat /\ LocalLeft' \in Nat
        /\ Rest(counter.count) \in Nat /\ Rest(0) = 0
    BY RestType, UnitsFinite, GuardAssumption
      DEF GuardInv, GuardPastOK, GuardHistory, CounterOK, LocalLeft, Rest
  <1>2. /\ guardPast'.admitted = guardPast.admitted /\ guardPast'.started = guardPast.started
        /\ counter' = counter
    BY DEF Crash, GuardInv, GuardPastOK, GuardHistory
  <1>3. Expiring' \subseteq Expiring
    <2>1. \A c \in Calls : calls'[c].pc = "expire" => calls[c].pc = "expire"
      BY DEF Crash, GuardInv, CallsOK, Call
    <2> QED BY <2>1 DEF Expiring
  <1>4. Cardinality(Expiring') <= Cardinality(Expiring) /\ Cardinality(Expiring') \in Nat
    BY <1>3, ExpiringFinite, FS_Subset, FS_CardinalityType
  <1>5. local[p].count \in Nat /\ local'[p].count = 0 /\ \A q \in Processes \ {p} : local'[q].count = local[q].count
    BY DEF Crash, EmptyLocal, GuardInv, StoreOK, Local
  <1>6. LocalLeft' + Rest(local[p].count) = LocalLeft + Rest(0)
    BY <1>5, LocalRestMoved DEF GuardInv
  <1>7. Rest(local[p].count) \in Nat
    BY <1>5, RestType
  <1> QED BY <1>1, <1>2, <1>4, <1>6, <1>7, ExpiringFinite DEF AdmissionsLeft

LEMMA AdmissionsStep ==
  ASSUME GuardInv, GuardInv', AdmissionsLeft, [GuardNext]_guardVars
  PROVE  AdmissionsLeft'
  <1>1. CASE UNCHANGED guardVars
    BY <1>1, AdmissionsUntouched DEF guardVars, Expiring
  <1>2. ASSUME NEW c \in Calls, LookUp(c) \/ Execute(c) \/ Save(c) PROVE AdmissionsLeft'
    <2>1. /\ UNCHANGED counter
          /\ calls[c] \in Call
          /\ calls' \in [Calls -> Call]
          /\ \A d \in Calls \ {c} : calls'[d] = calls[d]
          /\ calls'[c].pc # "expire"
      <3>1. CASE LookUp(c)
        BY <3>1 DEF LookUp, GuardInv, CallsOK, Call, Replayed
      <3>2. CASE Execute(c)
        BY <3>2 DEF Execute, GuardInv, CallsOK, Call
      <3>3. CASE Save(c)
        BY <3>3 DEF Save, GuardInv, CallsOK, Call
      <3> QED BY <1>2, <3>1, <3>2, <3>3
    <2>2. Expiring' \subseteq Expiring
      BY <2>1 DEF Expiring
    <2>3. \A p \in Processes : local'[p].count = local[p].count
      <3>1. CASE UNCHANGED local
        BY <3>1
      <3>2. CASE Save(c) /\ local' = [local EXCEPT ![calls[c].proc].records[calls[c].key] = calls[c].body]
        BY <3>2 DEF GuardInv, StoreOK, Local
      <3> QED BY <1>2, <3>1, <3>2 DEF LookUp, Execute, Save
    <2>4. guardPast'.admitted = guardPast.admitted /\ guardPast'.started = guardPast.started
      BY <1>2 DEF LookUp, Execute, Save, GuardInv, GuardPastOK, GuardHistory
    <2> QED BY <2>1, <2>2, <2>3, <2>4, AdmissionsUntouched
  <1>3. ASSUME \/ \E k \in Keys : RecordExpires(k)
               \/ GuardRedisFails
               \/ GuardRedisReturns
        PROVE  AdmissionsLeft'
    <2>1. UNCHANGED <<counter, local, calls>>
      BY <1>3 DEF RecordExpires, GuardRedisFails, GuardRedisReturns
    <2>2. guardPast'.admitted = guardPast.admitted /\ guardPast'.started = guardPast.started
      BY <1>3 DEF RecordExpires, GuardRedisFails, GuardRedisReturns, GuardInv, GuardPastOK, GuardHistory
    <2> QED BY <2>1, <2>2, AdmissionsUntouched DEF Expiring
  <1> QED BY <1>1, <1>2, <1>3, CountAdmits, SetExpiryAdmits, WindowEndAdmits, CrashAdmits DEF GuardNext

\* Every window lets at most Limit requests through, whatever Redis forgets or
\* counts twice and whatever the processes count in memory (RateLimiter.enforce).
THEOREM AdmissionsArePaidFor == GuardSpec => []AdmissionsArePaid
  <1>1. GuardInit => AdmissionsLeft
    <2> SUFFICES ASSUME GuardInit PROVE AdmissionsLeft
      OBVIOUS
    <2>1. Expiring = {}
      BY DEF GuardInit, Expiring, FreshCall
    <2>2. Cardinality(Expiring) = 0
      BY <2>1, FS_EmptySet
    <2>3. Units(Processes, Limit, LocalRest) = {}
      <3>1. \A p \in Processes : LocalRest[p] = 0
        BY DEF GuardInit, LocalRest, EmptyLocal, Rest
      <3> QED BY <3>1 DEF Units
    <2>4. LocalLeft = 0
      BY <2>3, FS_EmptySet DEF LocalLeft
    <2>5. Rest(counter.count) = 0 /\ guardPast.admitted = 0 /\ guardPast.started = 0
      BY DEF GuardInit, Rest
    <2> QED BY <2>2, <2>4, <2>5, GuardAssumption DEF AdmissionsLeft
  <1>2. GuardInv /\ GuardInv' /\ AdmissionsLeft /\ [GuardNext]_guardVars => AdmissionsLeft'
    BY AdmissionsStep
  <1>3. GuardInv /\ AdmissionsLeft => AdmissionsArePaid
    <2> SUFFICES ASSUME GuardInv, AdmissionsLeft PROVE AdmissionsArePaid
      OBVIOUS
    <2>1. /\ guardPast.admitted \in Nat /\ Limit * guardPast.started \in Nat
          /\ LocalLeft \in Nat /\ Rest(counter.count) \in Nat
      BY RestType, UnitsFinite, GuardAssumption
        DEF GuardInv, GuardPastOK, GuardHistory, CounterOK, LocalLeft
    <2> QED BY <2>1, ExpiringFinite DEF AdmissionsLeft, AdmissionsArePaid
  <1> QED BY <1>1, <1>2, <1>3, GuardInvariant, PTL DEF GuardSpec

-----------------------------------------------------------------------------
(* What the idempotency keys hold back *)

Busy(c) == calls[c].pc \in {"run", "save"}

\* The event loop of a process has one request between lookup and save.
OneRunsAtATime ==
  \A c, d \in Calls : Busy(c) /\ Busy(d) /\ calls[c].proc = calls[d].proc => c = d

\* Nothing was saved in the memory of its process since a request looked there.
RunnerFoundNothing ==
  \A c \in Calls : calls[c].pc = "run" /\ calls[c].key # NoKey
                     => local[calls[c].proc].records[calls[c].key] = NoRecord

\* The processes with a request for k that runs its handler, or saves its answer.
At(pc, k) ==
  {p \in Processes : \E c \in Calls : calls[c].pc = pc /\ calls[c].key = k /\ calls[c].proc = p}

Unsaved(k) == {p \in Processes : local[p].records[k] = NoRecord}

\* Once Redis has the answer only those who found none before may run; without it
\* any process whose memory has none.
MayRun(k) ==
  IF guardRedis /\ records[k] # NoRecord THEN At("run", k) ELSE Unsaved(k) \ At("save", k)

Occasions(k) == 1 + guardPast.forgotten[k] + guardPast.outages

Budget(k) == (Cardinality(Processes) + guardPast.crashes) * Occasions(k)

ExecutionsLeft == \A k \in Keys : guardPast.executed[k] + Cardinality(MayRun(k)) <= Budget(k)

ExecInv == OneRunsAtATime /\ RunnerFoundNothing /\ ExecutionsLeft

LEMMA MayRunFinite ==
  ASSUME NEW k
  PROVE  /\ IsFiniteSet(MayRun(k)) /\ Cardinality(MayRun(k)) \in Nat
         /\ Cardinality(MayRun(k)) <= Cardinality(Processes)
         /\ Cardinality(Processes) \in Nat
  <1>1. MayRun(k) \subseteq Processes
    BY DEF MayRun, At, Unsaved
  <1> QED BY <1>1, FS_Subset, FS_CardinalityType, GuardAssumption

\* A request that runs belongs to a process that saves nothing and has nothing saved.
LEMMA RunnersMayRun ==
  ASSUME GuardInv, OneRunsAtATime, RunnerFoundNothing, NEW k \in Keys
  PROVE  At("run", k) \subseteq Unsaved(k) \ At("save", k)
  <1> SUFFICES ASSUME NEW p \in At("run", k) PROVE p \in Unsaved(k) /\ p \notin At("save", k)
    OBVIOUS
  <1>1. PICK c \in Calls : calls[c].pc = "run" /\ calls[c].key = k /\ calls[c].proc = p
    BY DEF At
  <1>2. k # NoKey
    BY GuardAssumption
  <1>3. p \in Unsaved(k)
    BY <1>1, <1>2 DEF RunnerFoundNothing, Unsaved, At
  <1>4. ASSUME p \in At("save", k) PROVE FALSE
    <2>1. PICK d \in Calls : calls[d].pc = "save" /\ calls[d].key = k /\ calls[d].proc = p
      BY <1>4 DEF At
    <2> QED BY <1>1, <2>1 DEF OneRunsAtATime, Busy
  <1> QED BY <1>3, <1>4

LEMMA BudgetType ==
  ASSUME GuardInv, NEW k \in Keys
  PROVE  /\ Occasions(k) \in Nat /\ Occasions(k) >= 1
         /\ Budget(k) \in Nat /\ guardPast.executed[k] \in Nat
         /\ guardPast.crashes \in Nat /\ Cardinality(Processes) \in Nat
  <1>1. /\ guardPast.forgotten[k] \in Nat /\ guardPast.outages \in Nat /\ guardPast.crashes \in Nat
        /\ guardPast.executed[k] \in Nat
    BY DEF GuardInv, GuardPastOK, GuardHistory
  <1>2. Cardinality(Processes) \in Nat
    BY FS_CardinalityType, GuardAssumption
  <1>3. Occasions(k) \in Nat /\ Occasions(k) >= 1
    BY <1>1 DEF Occasions
  <1>4. Budget(k) \in Nat
    BY <1>1, <1>2, <1>3 DEF Budget
  <1> QED BY <1>1, <1>2, <1>3, <1>4

\* The budget never shrinks; a forgotten answer or an outage gives each process one
\* more execution, a crash one more for each of these occasions.
LEMMA BudgetGrows ==
  ASSUME NEW n \in Nat, NEW c \in Nat, NEW o \in Nat, o >= 1
  PROVE  /\ (n + c) * (o + 1) >= (n + c) * o + n
         /\ (n + c + 1) * o >= (n + c) * o + 1
  <1>1. (n + c) * (o + 1) = (n + c) * o + (n + c)
    OBVIOUS
  <1>2. (n + c + 1) * o = (n + c) * o + o
    OBVIOUS
  <1>3. (n + c) * o \in Nat
    OBVIOUS
  <1> QED BY <1>1, <1>2, <1>3

\* Nothing was executed, and who may run could before.
LEMMA NothingExecuted ==
  ASSUME GuardInv, GuardInv', ExecutionsLeft, NEW k \in Keys,
         guardPast'.executed[k] = guardPast.executed[k], Budget(k)' >= Budget(k),
         MayRun(k)' \subseteq MayRun(k)
  PROVE  guardPast'.executed[k] + Cardinality(MayRun(k)') <= Budget(k)'
  <1>1. Cardinality(MayRun(k)') <= Cardinality(MayRun(k)) /\ Cardinality(MayRun(k)') \in Nat
    BY MayRunFinite, FS_Subset, FS_CardinalityType
  <1>2. guardPast.executed[k] + Cardinality(MayRun(k)) <= Budget(k)
    BY DEF ExecutionsLeft
  <1>3. guardPast.executed[k] \in Nat /\ Budget(k) \in Nat /\ Budget(k)' \in Nat
    <2>1. /\ guardPast'.forgotten[k] \in Nat /\ guardPast'.outages \in Nat
          /\ guardPast'.crashes \in Nat
      BY DEF GuardInv, GuardPastOK, GuardHistory
    <2>2. Occasions(k)' \in Nat
      BY <2>1 DEF Occasions
    <2>3. Budget(k)' \in Nat
      BY <2>1, <2>2, MayRunFinite DEF Budget
    <2> QED BY <2>3, BudgetType
  <1>4. Cardinality(MayRun(k)) \in Nat
    BY MayRunFinite
  <1> HIDE DEF MayRun, Budget
  <1> QED BY <1>1, <1>2, <1>3, <1>4

SameBudget ==
  /\ guardPast'.executed = guardPast.executed /\ guardPast'.forgotten = guardPast.forgotten
  /\ guardPast'.outages = guardPast.outages /\ guardPast'.crashes = guardPast.crashes

SameRecords ==
  /\ UNCHANGED <<records, guardRedis>>
  /\ \A p \in Processes : local'[p].records = local[p].records

\* A request moves outside of its handler.
LEMMA QuietRequest ==
  ASSUME GuardInv, GuardInv', ExecInv, SameBudget, SameRecords,
         \A c \in Calls : calls'[c] = calls[c] \/ (~ Busy(c) /\ ~ Busy(c)')
  PROVE  ExecInv'
  <1>1. OneRunsAtATime'
    BY DEF ExecInv, OneRunsAtATime, Busy
  <1>2. RunnerFoundNothing'
    <2> SUFFICES ASSUME NEW c \in Calls, calls'[c].pc = "run", calls'[c].key # NoKey
                 PROVE  local'[calls'[c].proc].records[calls'[c].key] = NoRecord
      BY DEF RunnerFoundNothing
    <2>1. calls'[c] = calls[c]
      BY DEF Busy
    <2>2. calls[c].proc \in Processes
      BY <2>1 DEF GuardInv, CallsOK, CallOK
    <2> QED BY <2>1, <2>2 DEF ExecInv, RunnerFoundNothing, SameRecords
  <1>3. \A k : At("run", k)' = At("run", k) /\ At("save", k)' = At("save", k)
    <2>1. \A c \in Calls : calls'[c].pc \in {"run", "save"} \/ calls[c].pc \in {"run", "save"} => calls'[c] = calls[c]
      BY DEF Busy
    <2>2. ASSUME NEW k, NEW pc \in {"run", "save"}, NEW p \in Processes
          PROVE  (\E c \in Calls : calls'[c].pc = pc /\ calls'[c].key = k /\ calls'[c].proc = p)
                   <=> (\E c \in Calls : calls[c].pc = pc /\ calls[c].key = k /\ calls[c].proc = p)
      BY <2>1
    <2> QED BY <2>2 DEF At
  <1>4. ASSUME NEW k \in Keys PROVE guardPast'.executed[k] + Cardinality(MayRun(k)') <= Budget(k)'
    <2>1. Unsaved(k)' = Unsaved(k)
      BY DEF Unsaved, SameRecords
    <2>2. MayRun(k)' = MayRun(k)
      BY <1>3, <2>1 DEF MayRun, SameRecords
    <2>3. Budget(k)' = Budget(k)
      BY DEF Budget, Occasions, SameBudget
    <2>4. Budget(k) \in Nat
      BY BudgetType
    <2> QED BY <2>2, <2>3, <2>4, NothingExecuted DEF ExecInv, SameBudget
  <1> QED BY <1>1, <1>2, <1>4 DEF ExecInv, ExecutionsLeft

LEMMA CountExecutes ==
  ASSUME GuardInv, GuardInv', ExecInv, NEW c \in Calls,
         \/ SetExpiry(c)
         \/ \E p \in Processes, k \in Keys \cup {NoKey}, b \in Bodies : Count(c, p, k, b)
  PROVE  ExecInv'
  <1>1. /\ calls[c].pc \in {"new", "expire"}
        /\ calls \in [Calls -> Call] /\ calls' \in [Calls -> Call]
        /\ guardPast \in GuardHistory
        /\ local \in [Processes -> Local]
    BY DEF SetExpiry, Count, GuardInv, CallsOK, GuardPastOK, StoreOK
  <1>2. ASSUME NEW call, NEW n, calls' = [calls EXCEPT ![c] = Decide(call, n)]
        PROVE  calls'[c].pc \in {"admitted", "refused"}
    <2>1. Decide(call, n).pc = (IF Admitted(n) THEN "admitted" ELSE "refused") \/ "pc" \notin DOMAIN call
      BY DEF Decide
    <2> QED BY <1>1, <1>2, <2>1 DEF Decide, Call
  <1>3. ASSUME NEW call, CountLocally(c, call)
        PROVE  /\ calls'[c].pc \in {"admitted", "refused"}
               /\ \A p \in Processes : local'[p].records = local[p].records
               /\ SameBudget
    <2>1. calls'[c].pc \in {"admitted", "refused"}
      BY <1>2, <1>3 DEF CountLocally
    <2>2. \A p \in Processes : local'[p].records = local[p].records
      BY <1>1, <1>3 DEF CountLocally, Local
    <2>3. SameBudget
      BY <1>1, <1>3 DEF CountLocally, Counted, SameBudget, GuardHistory
    <2> QED BY <2>1, <2>2, <2>3
  <1>4. CASE SetExpiry(c)
    <2>1. /\ \A d \in Calls \ {c} : calls'[d] = calls[d]
          /\ calls'[c].pc \in {"admitted", "refused"}
      <3>1. CASE CountLocally(c, calls[c])
        BY <1>1, <1>3, <3>1 DEF CountLocally
      <3>2. CASE calls' = [calls EXCEPT ![c].pc = "admitted"]
        BY <1>1, <3>2 DEF Call
      <3> QED BY <1>4, <3>1, <3>2 DEF SetExpiry
    <2>2. SameBudget
      BY <1>1, <1>3, <1>4 DEF SetExpiry, SameBudget, GuardHistory
    <2>3. SameRecords
      BY <1>3, <1>4 DEF SetExpiry, SameRecords
    <2> QED BY <1>1, <2>1, <2>2, <2>3, QuietRequest DEF Busy
  <1>5. ASSUME NEW p \in Processes, NEW k \in Keys \cup {NoKey}, NEW b \in Bodies, Count(c, p, k, b)
        PROVE  ExecInv'
    <2> DEFINE call == [FreshCall EXCEPT !.proc = p, !.key = k, !.body = b]
    <2>1. /\ \A d \in Calls \ {c} : calls'[d] = calls[d]
          /\ calls'[c].pc \in {"admitted", "refused", "expire"}
      <3>1. CASE CountLocally(c, call)
        BY <1>1, <1>3, <3>1 DEF CountLocally
      <3>2. CASE calls' = [calls EXCEPT ![c] = Decide(call, counter.count + 1)]
        BY <1>1, <1>2, <3>2
      <3>3. CASE calls' = [calls EXCEPT ![c] = [call EXCEPT !.pc = "expire"]]
        BY <1>1, <3>3 DEF FreshCall
      <3> QED BY <1>5, <3>1, <3>2, <3>3 DEF Count
    <2> HIDE DEF call
    <2>2. SameBudget
      BY <1>1, <1>3, <1>5 DEF Count, SameBudget, GuardHistory
    <2>3. SameRecords
      BY <1>3, <1>5 DEF Count, SameRecords
    <2> QED BY <1>1, <2>1, <2>2, <2>3, QuietRequest DEF Busy
  <1> QED BY <1>4, <1>5

\* One request c moves; the requests of other processes are as they were.
LEMMA OneRequest ==
  ASSUME NEW c \in Calls, NEW k, NEW pc,
         \A d \in Calls \ {c} : calls'[d] = calls[d],
         calls'[c].key = calls[c].key, calls'[c].proc = calls[c].proc
  PROVE  /\ k # calls[c].key => At(pc, k)' = At(pc, k)
         /\ At(pc, k)' \subseteq At(pc, k) \cup {calls[c].proc}
         /\ At(pc, k) \subseteq At(pc, k)' \cup {calls[c].proc}
         /\ calls'[c].pc # pc => At(pc, k)' \subseteq At(pc, k)
         /\ calls[c].pc # pc => At(pc, k) \subseteq At(pc, k)'
  <1>1. ASSUME NEW d \in Calls, d # c
        PROVE  /\ calls'[d].pc = calls[d].pc /\ calls'[d].key = calls[d].key
               /\ calls'[d].proc = calls[d].proc
    BY <1>1
  <1>2. k # calls[c].key => At(pc, k)' = At(pc, k)
    BY <1>1 DEF At
  <1>3. At(pc, k)' \subseteq At(pc, k) \cup {calls[c].proc}
    BY <1>1 DEF At
  <1>4. At(pc, k) \subseteq At(pc, k)' \cup {calls[c].proc}
    BY <1>1 DEF At
  <1>5. calls'[c].pc # pc => At(pc, k)' \subseteq At(pc, k)
    BY <1>1 DEF At
  <1>6. calls[c].pc # pc => At(pc, k) \subseteq At(pc, k)'
    BY <1>1 DEF At
  <1> QED BY <1>2, <1>3, <1>4, <1>5, <1>6

\* A request with a saved answer does not run; one that runs found none.
LEMMA LookUpExecutes ==
  ASSUME GuardInv, GuardInv', ExecInv, NEW c \in Calls, LookUp(c)
  PROVE  ExecInv'
  <1> DEFINE call == calls[c]
             p == call.proc
             K == call.key
             saved == IF K = NoKey THEN NoRecord ELSE Saved(p, K)
             run == [call EXCEPT !.pc = "run"]
  <1>1. /\ call.pc = "admitted" /\ LoopIsFree(p)
        /\ UNCHANGED <<counter, records, local, guardRedis, guardPast>>
        /\ call \in Call /\ p \in Processes
        /\ calls \in [Calls -> Call]
    BY DEF LookUp, GuardInv, CallsOK, CallOK
  <1>2. SameBudget /\ SameRecords
    BY <1>1 DEF SameBudget, SameRecords
  <1>3. CASE saved # NoRecord
    <2>1. \A d \in Calls \ {c} : calls'[d] = calls[d]
      BY <1>1 DEF LookUp
    <2>2. calls'[c].pc \in {"answered", "refused"}
      BY <1>1, <1>3 DEF LookUp, Replayed, Call
    <2> QED BY <1>1, <1>2, <2>1, <2>2, QuietRequest DEF Busy
  <1>4. CASE saved = NoRecord
    <2>1. calls' = [calls EXCEPT ![c] = run]
      BY <1>4 DEF LookUp
    <2>2. run.pc = "run" /\ run.key = K /\ run.proc = p
      BY <1>1 DEF Call
    <2>3. K # NoKey => /\ K \in Keys /\ ~ (guardRedis /\ records[K] # NoRecord)
                       /\ local[p].records[K] = NoRecord
      BY <1>1, <1>4 DEF Saved, Call
    <2> HIDE DEF run
    <2>a. /\ calls'[c] = run /\ \A d \in Calls \ {c} : calls'[d] = calls[d]
          /\ calls[c].pc = "admitted" /\ calls'[c].pc = "run"
          /\ calls'[c].key = calls[c].key /\ calls'[c].proc = calls[c].proc
      BY <1>1, <2>1, <2>2
    <2>b. ASSUME NEW k PROVE (k # K => At("run", k)' = At("run", k)) /\ At("save", k)' = At("save", k)
      <3>1. k # K => At("run", k)' = At("run", k)
        BY <2>a, OneRequest
      <3>2. At("save", k)' \subseteq At("save", k) /\ At("save", k) \subseteq At("save", k)'
        BY <2>a, OneRequest
      <3> QED BY <3>1, <3>2
    <2>4. /\ calls'[c] = run /\ \A d \in Calls \ {c} : calls'[d] = calls[d]
          /\ \A k : k # K => At("run", k)' = At("run", k)
          /\ \A k : At("save", k)' = At("save", k)
      BY <2>a, <2>b
    <2>5. OneRunsAtATime'
      <3>1. \A d \in Calls : d # c /\ Busy(d)' => calls'[d].proc # p
        BY <1>1, <2>4 DEF LoopIsFree, Busy
      <3>2. \A d \in Calls \ {c} : calls'[d] = calls[d]
        BY <2>4
      <3>3. calls'[c].proc = p
        BY <2>2, <2>4
      <3> QED BY <3>1, <3>2, <3>3 DEF ExecInv, OneRunsAtATime, Busy
    <2>6. RunnerFoundNothing'
      BY <1>1, <2>2, <2>3, <2>4 DEF ExecInv, RunnerFoundNothing
    <2>7. ASSUME NEW k \in Keys PROVE guardPast'.executed[k] + Cardinality(MayRun(k)') <= Budget(k)'
      <3>1. Unsaved(k)' = Unsaved(k) /\ Budget(k)' = Budget(k) /\ Budget(k) \in Nat
        BY <1>1, BudgetType DEF Unsaved, Budget, Occasions
      <3>2. MayRun(k)' \subseteq MayRun(k)
        <4>1. CASE k = K
          BY <1>1, <2>3, <2>4, <3>1, <4>1, GuardAssumption DEF MayRun
        <4>2. CASE k # K
          BY <1>1, <2>4, <3>1, <4>2 DEF MayRun
        <4> QED BY <4>1, <4>2
      <3> QED BY <1>1, <3>1, <3>2, NothingExecuted DEF ExecInv
    <2> QED BY <2>5, <2>6, <2>7 DEF ExecInv, ExecutionsLeft
  <1> QED BY <1>3, <1>4

\* An execution uses up its process.
LEMMA ExecuteExecutes ==
  ASSUME GuardInv, GuardInv', ExecInv, NEW c \in Calls, Execute(c)
  PROVE  ExecInv'
  <1> DEFINE call == calls[c]
             p == call.proc
             K == call.key
             done == [call EXCEPT !.pc = "save", !.result = call.body]
             failed == [call EXCEPT !.pc = "failed"]
  <1>1. /\ call.pc = "run"
        /\ UNCHANGED <<counter, records, local, guardRedis>>
        /\ call \in Call /\ p \in Processes
        /\ guardPast \in GuardHistory
    BY DEF Execute, GuardInv, CallsOK, CallOK, GuardPastOK
  <1>2. /\ done.pc = "save" /\ done.key = K /\ done.proc = p
        /\ failed.pc = "failed" /\ failed.key = K /\ failed.proc = p
    BY <1>1 DEF Call
  <1>3. \/ /\ calls' = [calls EXCEPT ![c] = done]
           /\ guardPast' = [guardPast EXCEPT !.executed =
                              [k \in Keys |-> IF k = K THEN @[k] + 1 ELSE @[k]]]
        \/ calls' = [calls EXCEPT ![c] = failed] /\ UNCHANGED guardPast
    BY <1>1 DEF Execute, GuardInv, CallsOK, Call
  <1>4. Busy(c)
    BY <1>1 DEF Busy
  <1> HIDE DEF done, failed
  <1>5. PICK x : /\ calls' = [calls EXCEPT ![c] = x]
                 /\ x.key = K /\ x.proc = p
                 /\ \/ /\ x.pc = "save"
                       /\ guardPast' = [guardPast EXCEPT !.executed =
                                          [k \in Keys |-> IF k = K THEN @[k] + 1 ELSE @[k]]]
                    \/ x.pc = "failed" /\ UNCHANGED guardPast
    BY <1>2, <1>3
  <1>a. /\ calls'[c] = x /\ \A d \in Calls \ {c} : calls'[d] = calls[d]
        /\ calls[c].pc = "run" /\ calls'[c].pc # "run"
        /\ calls'[c].key = calls[c].key /\ calls'[c].proc = calls[c].proc
    BY <1>1, <1>5 DEF GuardInv, CallsOK
  <1>b. ASSUME NEW k
        PROVE  /\ At("run", k)' \subseteq At("run", k)
               /\ At("save", k) \subseteq At("save", k)'
    <2>1. At("run", k)' \subseteq At("run", k)
      BY <1>a, OneRequest
    <2>2. At("save", k) \subseteq At("save", k)'
      BY <1>a, OneRequest
    <2> QED BY <2>1, <2>2
  <1>6. /\ calls'[c] = x /\ \A d \in Calls \ {c} : calls'[d] = calls[d]
        /\ \A k : /\ At("run", k)' \subseteq At("run", k)
                  /\ At("save", k) \subseteq At("save", k)'
    BY <1>a, <1>b
  <1>7. OneRunsAtATime'
    <2>1. \A d \in Calls : /\ Busy(d)' => Busy(d)
                           /\ calls'[d].proc = calls[d].proc
      BY <1>4, <1>5, <1>6 DEF Busy
    <2> QED BY <2>1 DEF ExecInv, OneRunsAtATime
  <1>8. RunnerFoundNothing'
    <2>1. \A d \in Calls : calls'[d].pc = "run" => calls'[d] = calls[d]
      BY <1>5, <1>6
    <2> QED BY <1>1, <2>1 DEF ExecInv, RunnerFoundNothing
  <1>9. /\ guardPast'.forgotten = guardPast.forgotten /\ guardPast'.outages = guardPast.outages
        /\ guardPast'.crashes = guardPast.crashes
    BY <1>1, <1>5 DEF GuardHistory
  <1>10. ASSUME NEW k \in Keys PROVE guardPast'.executed[k] + Cardinality(MayRun(k)') <= Budget(k)'
    <2>1. Unsaved(k)' = Unsaved(k) /\ Budget(k)' = Budget(k) /\ Budget(k) \in Nat
      BY <1>1, <1>9, BudgetType DEF Unsaved, Budget, Occasions
    <2>2. MayRun(k)' \subseteq MayRun(k)
      BY <1>1, <1>6, <2>1 DEF MayRun
    <2>3. CASE guardPast'.executed[k] = guardPast.executed[k]
      BY <2>1, <2>2, <2>3, NothingExecuted DEF ExecInv
    <2>4. CASE guardPast'.executed[k] # guardPast.executed[k]
      <3>1. /\ x.pc = "save" /\ k = K
            /\ guardPast'.executed[k] = guardPast.executed[k] + 1
        <4>1. x.pc = "save" /\ guardPast' = [guardPast EXCEPT !.executed =
                                               [j \in Keys |-> IF j = K THEN @[j] + 1 ELSE @[j]]]
          BY <1>5, <2>4
        <4>2. guardPast'.executed[k] = IF k = K THEN guardPast.executed[k] + 1 ELSE guardPast.executed[k]
          BY <1>1, <4>1 DEF GuardHistory
        <4> QED BY <2>4, <4>1, <4>2
      <3>2. p \in At("run", k) /\ At("run", k) \subseteq MayRun(k)
        BY <1>1, <3>1, RunnersMayRun DEF At, MayRun, ExecInv
      <3>3. p \notin At("run", k)'
        <4>1. ASSUME NEW d \in Calls, calls'[d].pc = "run", calls'[d].proc = p PROVE FALSE
          BY <1>1, <1>4, <1>6, <3>1, <4>1 DEF ExecInv, OneRunsAtATime, Busy
        <4> QED BY <4>1 DEF At
      <3>4. p \in At("save", k)'
        BY <1>1, <1>5, <1>6, <3>1 DEF At
      <3>5. MayRun(k)' \subseteq MayRun(k) \ {p}
        BY <1>1, <2>2, <3>3, <3>4 DEF MayRun
      <3>6. /\ IsFiniteSet(MayRun(k)) /\ Cardinality(MayRun(k)) \in Nat
            /\ IsFiniteSet(MayRun(k) \ {p})
            /\ Cardinality(MayRun(k) \ {p}) = Cardinality(MayRun(k)) - 1
        BY <3>2, MayRunFinite, FS_RemoveElement
      <3>7. Cardinality(MayRun(k)') <= Cardinality(MayRun(k)) - 1 /\ Cardinality(MayRun(k)') \in Nat
        BY <3>5, <3>6, FS_Subset, FS_CardinalityType
      <3>8. guardPast.executed[k] + Cardinality(MayRun(k)) <= Budget(k) /\ guardPast.executed[k] \in Nat
        BY BudgetType DEF ExecInv, ExecutionsLeft
      <3> HIDE DEF MayRun, Budget
      <3> QED BY <2>1, <3>1, <3>6, <3>7, <3>8
    <2> QED BY <2>3, <2>4
  <1> QED BY <1>7, <1>8, <1>10 DEF ExecInv, ExecutionsLeft

\* A saved answer leaves only those who run already.
LEMMA SaveExecutes ==
  ASSUME GuardInv, GuardInv', ExecInv, NEW c \in Calls, Save(c)
  PROVE  ExecInv'
  <1> DEFINE call == calls[c]
             p == call.proc
             K == call.key
             done == [call EXCEPT !.pc = "answered"]
  <1>1. /\ call.pc = "save" /\ UNCHANGED <<counter, guardRedis, guardPast>>
        /\ call \in Call /\ p \in Processes /\ call.body \in Bodies /\ call.body # NoRecord
    BY GuardAssumption DEF Save, GuardInv, CallsOK, CallOK
  <1>2. calls' = [calls EXCEPT ![c] = done]
    BY DEF Save, GuardInv, CallsOK
  <1>3. done.pc = "answered" /\ done.key = K /\ done.proc = p
    BY <1>1 DEF Call
  <1> HIDE DEF done
  <1>a. /\ calls'[c] = done /\ \A d \in Calls \ {c} : calls'[d] = calls[d]
        /\ calls[c].pc = "save" /\ calls'[c].pc = "answered"
        /\ calls'[c].key = calls[c].key /\ calls'[c].proc = calls[c].proc
    BY <1>1, <1>2, <1>3 DEF GuardInv, CallsOK
  <1>b. ASSUME NEW k
        PROVE  /\ k # K => At("save", k)' = At("save", k)
               /\ At("save", k) \subseteq At("save", k)' \cup {p}
               /\ At("save", k)' \subseteq At("save", k)
               /\ At("run", k)' = At("run", k)
    <2>1. k # K => At("save", k)' = At("save", k)
      BY <1>a, OneRequest
    <2>2. At("save", k) \subseteq At("save", k)' \cup {p}
      BY <1>a, OneRequest
    <2>3. At("save", k)' \subseteq At("save", k)
      BY <1>a, OneRequest
    <2>4. At("run", k)' \subseteq At("run", k) /\ At("run", k) \subseteq At("run", k)'
      BY <1>a, OneRequest
    <2> QED BY <2>1, <2>2, <2>3, <2>4
  <1>4. /\ calls'[c] = done /\ \A d \in Calls \ {c} : calls'[d] = calls[d]
        /\ \A k : k # K => At("save", k)' = At("save", k)
        /\ \A k : /\ At("save", k) \subseteq At("save", k)' \cup {p}
                  /\ At("save", k)' \subseteq At("save", k)
                  /\ At("run", k)' = At("run", k)
    BY <1>a, <1>b
  <1>5. \A k \in Keys : /\ Budget(k)' = Budget(k) /\ Budget(k) \in Nat
                        /\ guardPast'.executed[k] = guardPast.executed[k]
    BY <1>1, BudgetType DEF Budget, Occasions
  <1>6. OneRunsAtATime'
    <2>1. \A d \in Calls : /\ Busy(d)' => Busy(d)
                           /\ calls'[d].proc = calls[d].proc
      BY <1>1, <1>3, <1>4 DEF Busy
    <2> QED BY <2>1 DEF ExecInv, OneRunsAtATime
  <1>7. \A d \in Calls : calls'[d].pc = "run" => calls'[d] = calls[d] /\ calls[d].proc # p
    BY <1>1, <1>3, <1>4 DEF ExecInv, OneRunsAtATime, Busy
  <1>8. \A k \in Keys : At("run", k) \subseteq Unsaved(k) \ At("save", k)
    BY RunnersMayRun DEF ExecInv
  <1>9. CASE UNCHANGED local /\ (K = NoKey => UNCHANGED records)
             /\ (K # NoKey => guardRedis /\ records' = [records EXCEPT ![K] = call.body])
    <2>1. RunnerFoundNothing'
      BY <1>7, <1>9 DEF ExecInv, RunnerFoundNothing
    <2>2. ASSUME NEW k \in Keys PROVE MayRun(k)' \subseteq MayRun(k)
      <3>1. Unsaved(k)' = Unsaved(k)
        BY <1>9 DEF Unsaved
      <3>2. CASE k = K
        <4>1. guardRedis' /\ records'[k] # NoRecord
          BY <1>1, <1>9, <3>2, GuardAssumption DEF GuardInv, StoreOK
        <4> QED BY <1>4, <1>8, <4>1 DEF MayRun
      <3>3. CASE k # K
        <4>1. records'[k] = records[k]
          BY <1>9, <3>3 DEF GuardInv, StoreOK
        <4> QED BY <1>1, <1>4, <3>1, <3>3, <4>1 DEF MayRun
      <3> QED BY <3>2, <3>3
    <2>3. ASSUME NEW k \in Keys PROVE guardPast'.executed[k] + Cardinality(MayRun(k)') <= Budget(k)'
      BY <1>5, <2>2, NothingExecuted DEF ExecInv
    <2> QED BY <1>6, <2>1, <2>3 DEF ExecInv, ExecutionsLeft
  <1>10. CASE /\ K # NoKey /\ ~ guardRedis
              /\ local' = [local EXCEPT ![p].records[K] = call.body]
              /\ UNCHANGED records
    <2>1. K \in Keys
      BY <1>1, <1>10 DEF Call
    <2>2. /\ local'[p].records[K] = call.body
          /\ \A k \in Keys \ {K} : local'[p].records[k] = local[p].records[k]
          /\ \A q \in Processes \ {p} : local'[q].records = local[q].records
      BY <1>1, <1>10, <2>1 DEF GuardInv, StoreOK, Local
    <2>3. RunnerFoundNothing'
      <3>1. \A d \in Calls : calls'[d].pc = "run" => calls[d].proc \in Processes \ {p}
        BY <1>7 DEF GuardInv, CallsOK, CallOK
      <3> QED BY <1>7, <2>2, <3>1 DEF ExecInv, RunnerFoundNothing
    <2>4. ASSUME NEW k \in Keys PROVE MayRun(k)' \subseteq MayRun(k)
      <3>1. CASE k = K
        <4>1. Unsaved(k)' \subseteq Unsaved(k) \ {p}
          BY <1>1, <2>2, <3>1 DEF Unsaved
        <4> QED BY <1>1, <1>4, <1>10, <4>1 DEF MayRun
      <3>2. CASE k # K
        <4>1. Unsaved(k)' = Unsaved(k)
          BY <2>2, <3>2 DEF Unsaved
        <4> QED BY <1>1, <1>4, <1>10, <3>2, <4>1 DEF MayRun
      <3> QED BY <3>1, <3>2
    <2>5. ASSUME NEW k \in Keys PROVE guardPast'.executed[k] + Cardinality(MayRun(k)') <= Budget(k)'
      BY <1>5, <2>4, NothingExecuted DEF ExecInv
    <2> QED BY <1>6, <2>3, <2>5 DEF ExecInv, ExecutionsLeft
  <1> QED BY <1>9, <1>10 DEF Save

\* Who may run once Redis is gone, back, or has forgotten an answer: at most every
\* process, and each such event but the return of Redis is an occasion more.
LEMMA AnyMayRun ==
  ASSUME GuardInv, GuardInv', ExecutionsLeft, NEW k \in Keys,
         guardPast'.executed[k] = guardPast.executed[k],
         guardPast'.crashes = guardPast.crashes, Occasions(k)' = Occasions(k) + 1
  PROVE  guardPast'.executed[k] + Cardinality(MayRun(k)') <= Budget(k)'
  <1> DEFINE n == Cardinality(Processes)
             cr == guardPast.crashes
             o == Occasions(k)
             m == Cardinality(MayRun(k)')
  <1>1. n \in Nat /\ cr \in Nat /\ o \in Nat /\ o >= 1 /\ guardPast.executed[k] \in Nat
    BY BudgetType
  <1>2. m \in Nat /\ m <= n
    <2>1. MayRun(k)' \subseteq Processes
      BY DEF MayRun, At, Unsaved
    <2> QED BY <2>1, FS_Subset, FS_CardinalityType, GuardAssumption
  <1>3. guardPast.executed[k] <= (n + cr) * o
    <2>1. guardPast.executed[k] + Cardinality(MayRun(k)) <= Budget(k)
      BY DEF ExecutionsLeft
    <2>2. Cardinality(MayRun(k)) \in Nat /\ Budget(k) \in Nat
      BY MayRunFinite, BudgetType
    <2>3. Budget(k) = (n + cr) * o
      BY DEF Budget
    <2> HIDE DEF n, cr, o, Budget, MayRun
    <2> QED BY <1>1, <2>1, <2>2, <2>3
  <1>4. Budget(k)' = (n + cr) * (o + 1)
    BY DEF Budget
  <1> HIDE DEF n, cr, o, m
  <1>5. (n + cr) * (o + 1) >= (n + cr) * o + n
    BY <1>1, BudgetGrows
  <1>6. (n + cr) * o \in Nat /\ (n + cr) * (o + 1) \in Nat
    BY <1>1
  <1>7. guardPast.executed[k] + m <= (n + cr) * (o + 1)
    BY <1>1, <1>2, <1>3, <1>5, <1>6
  <1> QED BY <1>4, <1>7 DEF m

\* A step that moves no request and no memory.
LEMMA EventExecutes ==
  ASSUME GuardInv, ExecInv, UNCHANGED <<calls, local>>, ExecutionsLeft'
  PROVE  ExecInv'
  <1>1. OneRunsAtATime' /\ RunnerFoundNothing'
    BY DEF ExecInv, OneRunsAtATime, RunnerFoundNothing, Busy
  <1> QED BY <1>1 DEF ExecInv

LEMMA WindowExecutes ==
  ASSUME GuardInv, GuardInv', ExecInv, WindowEnds \/ \E p \in Processes : LocalWindowEnds(p)
  PROVE  ExecInv'
  <1>1. SameBudget /\ UNCHANGED <<calls, records, guardRedis>>
    BY DEF WindowEnds, LocalWindowEnds, SameBudget, GuardInv, GuardPastOK, GuardHistory
  <1>2. \A p \in Processes : local'[p].records = local[p].records
    BY DEF WindowEnds, LocalWindowEnds, GuardInv, StoreOK, Local
  <1> QED BY <1>1, <1>2, QuietRequest DEF SameRecords

LEMMA RecordExpiryExecutes ==
  ASSUME GuardInv, GuardInv', ExecInv, NEW K \in Keys, RecordExpires(K)
  PROVE  ExecInv'
  <1>1. /\ guardPast \in GuardHistory /\ records \in [Keys -> Bodies \cup {NoRecord}]
    BY DEF GuardInv, GuardPastOK, StoreOK
  <1>2. /\ guardPast'.executed = guardPast.executed /\ guardPast'.crashes = guardPast.crashes
        /\ guardPast'.outages = guardPast.outages
        /\ guardPast'.forgotten[K] = guardPast.forgotten[K] + 1
        /\ \A k \in Keys \ {K} : guardPast'.forgotten[k] = guardPast.forgotten[k]
    BY <1>1 DEF RecordExpires, GuardHistory
  <1>3. ASSUME NEW k \in Keys PROVE guardPast'.executed[k] + Cardinality(MayRun(k)') <= Budget(k)'
    <2>1. CASE k = K
      <3>1. guardPast.forgotten[k] \in Nat /\ guardPast.outages \in Nat
        BY <1>1 DEF GuardHistory
      <3>2. Occasions(k)' = Occasions(k) + 1
        BY <1>2, <2>1, <3>1 DEF Occasions
      <3> QED BY <1>2, <3>2, AnyMayRun DEF ExecInv
    <2>2. CASE k # K
      <3>1. Budget(k)' = Budget(k) /\ Budget(k) \in Nat
        BY <1>2, <2>2, BudgetType DEF Budget, Occasions
      <3>2. records'[k] = records[k] /\ UNCHANGED <<calls, local, guardRedis>>
        BY <1>1, <2>2 DEF RecordExpires
      <3>3. MayRun(k)' = MayRun(k)
        BY <3>2 DEF MayRun, At, Unsaved
      <3> QED BY <1>2, <3>1, <3>3, NothingExecuted DEF ExecInv
    <2> QED BY <2>1, <2>2
  <1> QED BY <1>3, EventExecutes DEF ExecutionsLeft, RecordExpires

LEMMA OutageExecutes ==
  ASSUME GuardInv, GuardInv', ExecInv, GuardRedisFails
  PROVE  ExecInv'
  <1>1. /\ guardPast'.executed = guardPast.executed /\ guardPast'.crashes = guardPast.crashes
        /\ guardPast'.outages = guardPast.outages + 1 /\ guardPast.outages \in Nat
        /\ guardPast'.forgotten = guardPast.forgotten
        /\ guardPast.forgotten \in [Keys -> Nat]
    BY DEF GuardRedisFails, GuardInv, GuardPastOK, GuardHistory
  <1>2. ASSUME NEW k \in Keys PROVE guardPast'.executed[k] + Cardinality(MayRun(k)') <= Budget(k)'
    <2>1. Occasions(k)' = Occasions(k) + 1
      BY <1>1 DEF Occasions
    <2> QED BY <1>1, <2>1, AnyMayRun DEF ExecInv
  <1> QED BY <1>2, EventExecutes DEF ExecutionsLeft, GuardRedisFails

\* An answer that Redis has again keeps all out but those who run already.
LEMMA ReturnExecutes ==
  ASSUME GuardInv, GuardInv', ExecInv, GuardRedisReturns
  PROVE  ExecInv'
  <1>1. ASSUME NEW k \in Keys PROVE guardPast'.executed[k] + Cardinality(MayRun(k)') <= Budget(k)'
    <2>1. Budget(k)' = Budget(k) /\ Budget(k) \in Nat /\ guardPast' = guardPast
      BY BudgetType DEF GuardRedisReturns, Budget, Occasions
    <2>2. At("run", k) \subseteq Unsaved(k) \ At("save", k)
      BY RunnersMayRun DEF ExecInv
    <2>3. At("run", k)' = At("run", k) /\ At("save", k)' = At("save", k) /\ Unsaved(k)' = Unsaved(k)
      BY DEF GuardRedisReturns, At, Unsaved
    <2>4. MayRun(k)' \subseteq MayRun(k)
      BY <2>2, <2>3 DEF MayRun, GuardRedisReturns
    <2> QED BY <2>1, <2>4, NothingExecuted DEF ExecInv
  <1> QED BY <1>1, EventExecutes DEF ExecutionsLeft, GuardRedisReturns

\* The next process in the place of p has no answer in its memory: one more may run.
LEMMA CrashExecutes ==
  ASSUME GuardInv, GuardInv', ExecInv, NEW p \in Processes, Crash(p)
  PROVE  ExecInv'
  <1>1. /\ guardPast'.executed = guardPast.executed
        /\ guardPast'.crashes = guardPast.crashes + 1
        /\ guardPast'.outages = guardPast.outages /\ guardPast'.forgotten = guardPast.forgotten
        /\ UNCHANGED <<records, guardRedis>>
    BY DEF Crash, GuardInv, GuardPastOK, GuardHistory
  <1>2. /\ \A q \in Processes \ {p} : local'[q] = local[q]
        /\ \A k \in Keys : local'[p].records[k] = NoRecord
    BY DEF Crash, EmptyLocal, GuardInv, StoreOK
  <1>3. ASSUME NEW c \in Calls
        PROVE  /\ calls[c].proc = p => ~ Busy(c)'
               /\ calls[c].proc # p => calls'[c] = calls[c]
    BY DEF Crash, InFlight, Busy, GuardInv, CallsOK, Call
  <1>4. ASSUME NEW c \in Calls, Busy(c)' PROVE calls'[c] = calls[c] /\ calls[c].proc # p
    BY <1>3, <1>4
  <1>5. OneRunsAtATime'
    <2>1. \A c \in Calls : Busy(c)' => Busy(c) /\ calls'[c] = calls[c]
      BY <1>4 DEF Busy
    <2> QED BY <2>1 DEF ExecInv, OneRunsAtATime
  <1>6. RunnerFoundNothing'
    <2> SUFFICES ASSUME NEW c \in Calls, calls'[c].pc = "run", calls'[c].key # NoKey
                 PROVE  local'[calls'[c].proc].records[calls'[c].key] = NoRecord
      BY DEF RunnerFoundNothing
    <2>1. calls'[c] = calls[c] /\ calls[c].proc # p
      BY <1>4 DEF Busy
    <2>2. calls[c].proc \in Processes
      BY <2>1 DEF GuardInv, CallsOK, CallOK
    <2> QED BY <1>2, <2>1, <2>2 DEF ExecInv, RunnerFoundNothing
  <1>7. ASSUME NEW k \in Keys PROVE guardPast'.executed[k] + Cardinality(MayRun(k)') <= Budget(k)'
    <2>1. /\ At("run", k)' \subseteq At("run", k)
          /\ At("save", k) \subseteq At("save", k)' \cup {p}
      <3>1. \A c \in Calls : calls'[c].pc = "run" => calls'[c] = calls[c]
        BY <1>4 DEF Busy
      <3>2. \A c \in Calls : calls[c].proc # p => calls'[c] = calls[c]
        BY <1>3
      <3> QED BY <3>1, <3>2 DEF At
    <2>2. Unsaved(k)' = Unsaved(k) \cup {p}
      BY <1>2 DEF Unsaved
    <2>3. MayRun(k)' \subseteq MayRun(k) \cup {p}
      BY <1>1, <2>1, <2>2 DEF MayRun
    <2>4. /\ IsFiniteSet(MayRun(k) \cup {p})
          /\ Cardinality(MayRun(k) \cup {p}) \in Nat
          /\ Cardinality(MayRun(k) \cup {p}) <= Cardinality(MayRun(k)) + 1
      <3> DEFINE M == MayRun(k)
      <3>1. IsFiniteSet(M) /\ Cardinality(M) \in Nat
        BY MayRunFinite
      <3> HIDE DEF M
      <3>2. IsFiniteSet(M \cup {p}) /\ Cardinality(M \cup {p}) \in {Cardinality(M), Cardinality(M) + 1}
        BY <3>1, FS_AddElement
      <3>3. /\ IsFiniteSet(M \cup {p}) /\ Cardinality(M \cup {p}) \in Nat
            /\ Cardinality(M \cup {p}) <= Cardinality(M) + 1
        BY <3>1, <3>2
      <3> QED BY <3>3 DEF M
    <2>5. /\ Cardinality(MayRun(k)') <= Cardinality(MayRun(k)) + 1
          /\ Cardinality(MayRun(k)') \in Nat /\ Cardinality(MayRun(k)) \in Nat
      BY <2>3, <2>4, MayRunFinite, FS_Subset, FS_CardinalityType
    <2>6. Budget(k)' >= Budget(k) + 1 /\ Budget(k) \in Nat /\ Budget(k)' \in Int
      <3> DEFINE n == Cardinality(Processes)
                 cr == guardPast.crashes
                 o == Occasions(k)
      <3>1. n \in Nat /\ cr \in Nat /\ o \in Nat /\ o >= 1 /\ Budget(k) \in Nat
        BY BudgetType
      <3>2. Budget(k) = (n + cr) * o /\ Budget(k)' = (n + (cr + 1)) * o
        BY <1>1 DEF Budget, Occasions
      <3> HIDE DEF n, cr, o
      <3>3. (n + (cr + 1)) = n + cr + 1
        BY <3>1
      <3>4. (n + cr + 1) * o >= (n + cr) * o + 1
        BY <3>1, BudgetGrows
      <3>5. (n + cr + 1) * o \in Int
        BY <3>1
      <3> QED BY <3>1, <3>2, <3>3, <3>4, <3>5
    <2>7. guardPast.executed[k] + Cardinality(MayRun(k)) <= Budget(k) /\ guardPast.executed[k] \in Nat
      BY BudgetType DEF ExecInv, ExecutionsLeft
    <2>8. guardPast'.executed[k] = guardPast.executed[k]
      BY <1>1
    <2> HIDE DEF MayRun, Budget
    <2> QED BY <2>5, <2>6, <2>7, <2>8
  <1> QED BY <1>5, <1>6, <1>7 DEF ExecInv, ExecutionsLeft

LEMMA ExecStep ==
  ASSUME GuardInv, GuardInv', ExecInv, [GuardNext]_guardVars
  PROVE  ExecInv'
  <1>1. CASE UNCHANGED guardVars
    BY <1>1, QuietRequest DEF guardVars, SameBudget, SameRecords
  <1>2. CASE GuardNext
    BY <1>2, CountExecutes, LookUpExecutes, ExecuteExecutes, SaveExecutes, WindowExecutes,
       RecordExpiryExecutes, OutageExecutes, ReturnExecutes, CrashExecutes DEF GuardNext
  <1> QED BY <1>1, <1>2

\* A key is executed at most once by each process, and by each process that takes
\* the place of one that crashed, for each occasion: the first, a forgotten answer,
\* an outage (idempotent_execute, IdempotencyStore).
THEOREM ExecutionsAreLimited == GuardSpec => []ExecutionsAreBounded
  <1>1. GuardInit => ExecInv
    <2> SUFFICES ASSUME GuardInit PROVE ExecInv
      OBVIOUS
    <2>1. \A c \in Calls : calls[c].pc = "new"
      BY DEF GuardInit, FreshCall
    <2>2. OneRunsAtATime /\ RunnerFoundNothing
      BY <2>1 DEF OneRunsAtATime, RunnerFoundNothing, Busy
    <2>3. ASSUME NEW k \in Keys PROVE guardPast.executed[k] + Cardinality(MayRun(k)) <= Budget(k)
      <3>1. guardPast.executed[k] = 0 /\ Occasions(k) = 1 /\ guardPast.crashes = 0
        BY DEF GuardInit, Occasions
      <3>2. Budget(k) = Cardinality(Processes)
        BY <3>1, MayRunFinite DEF Budget
      <3> QED BY <3>1, <3>2, MayRunFinite
    <2> QED BY <2>2, <2>3 DEF ExecInv, ExecutionsLeft
  <1>2. GuardInv /\ GuardInv' /\ ExecInv /\ [GuardNext]_guardVars => ExecInv'
    BY ExecStep
  <1>3. GuardInv /\ ExecInv => ExecutionsAreBounded
    <2> SUFFICES ASSUME GuardInv, ExecInv, NEW k \in Keys
                 PROVE  guardPast.executed[k] <= (Cardinality(Processes) + guardPast.crashes)
                          * (1 + guardPast.forgotten[k] + guardPast.outages)
      BY DEF ExecutionsAreBounded
    <2>1. /\ Cardinality(MayRun(k)) \in Nat /\ guardPast.executed[k] \in Nat /\ Budget(k) \in Nat
          /\ guardPast.executed[k] + Cardinality(MayRun(k)) <= Budget(k)
      BY MayRunFinite, BudgetType DEF ExecInv, ExecutionsLeft
    <2>2. guardPast.executed[k] <= Budget(k)
      BY <2>1
    <2> QED BY <2>2 DEF Budget, Occasions
  <1> QED BY <1>1, <1>2, <1>3, GuardInvariant, PTL DEF GuardSpec
=============================================================================
