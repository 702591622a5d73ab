--------------------------- MODULE ServicesProofs ---------------------------
(***************************************************************************)
(* Theorems about the login and its lock, the support desk, trip sharing   *)
(* and chat, for any threads, servers, reviewers, links and messages, and  *)
(* about all the services side by side (MCServices): a behaviour of the    *)
(* composition is one of each part, and what is proved of a part holds.    *)
(***************************************************************************)
EXTENDS MCServices, RequestGuardProofs

-----------------------------------------------------------------------------
(***************************************************************************)
(* The login and its lock                                                  *)
(***************************************************************************)

(* The recursive function in the bound: a function with these equations exists, *)
(* so that the one CHOOSE takes has them.                                       *)

Threads == Cardinality(Logins)

LEMMA ThreadsType == Threads \in Nat
  BY FS_CardinalityType, LockoutAssumption DEF Threads

\* g is Rounds up to n.
RoundsUpTo(g, n) == g[0] = 0 /\ \A i \in 1 .. n : g[i] = Threads * (1 + g[i - 1])

LEMMA RoundsExist ==
  \A n \in Nat : \E g \in [0 .. n -> Nat] : RoundsUpTo(g, n)
  <1> DEFINE S == {n \in Nat : \E g \in [0 .. n -> Nat] : RoundsUpTo(g, n)}
  <1>1. 0 \in S
    <2> DEFINE g == [i \in 0 .. 0 |-> 0]
    <2>1. g \in [0 .. 0 -> Nat] /\ RoundsUpTo(g, 0)
      BY DEF RoundsUpTo
    <2> QED BY <2>1
  <1>2. ASSUME NEW n \in S PROVE n + 1 \in S
    <2>1. PICK g \in [0 .. n -> Nat] : RoundsUpTo(g, n)
      OBVIOUS
    <2> DEFINE h == [i \in 0 .. (n + 1) |-> IF i = n + 1 THEN Threads * (1 + g[n]) ELSE g[i]]
    <2>2. h \in [0 .. (n + 1) -> Nat]
      <3>1. g[n] \in Nat /\ Threads * (1 + g[n]) \in Nat
        BY ThreadsType
      <3>2. \A i \in 0 .. (n + 1) : i # n + 1 => i \in 0 .. n
        OBVIOUS
      <3> QED BY <3>1, <3>2
    <2>3. RoundsUpTo(h, n + 1)
      BY <2>1 DEF RoundsUpTo
    <2>4. n + 1 \in Nat
      OBVIOUS
    <2> HIDE DEF h
    <2>5. \E k \in [0 .. (n + 1) -> Nat] : RoundsUpTo(k, n + 1)
      BY <2>2, <2>3
    <2> QED BY <2>4, <2>5
  <1> HIDE DEF S
  <1>3. S = Nat
    <2>1. S \subseteq Nat
      BY DEF S
    <2> QED BY <1>1, <1>2, <2>1, NatInd
  <1> QED BY <1>3 DEF S

LEMMA RoundsAgree ==
  ASSUME NEW m \in Nat, NEW n \in Nat, m <= n, NEW g, NEW h, RoundsUpTo(g, m), RoundsUpTo(h, n)
  PROVE  \A i \in 0 .. m : g[i] = h[i]
  <1> DEFINE S == {i \in Nat : i <= m => g[i] = h[i]}
  <1>1. 0 \in S
    BY DEF RoundsUpTo
  <1>2. ASSUME NEW i \in S PROVE i + 1 \in S
    <2>1. ASSUME i + 1 <= m PROVE g[i + 1] = h[i + 1]
      <3>1. i + 1 \in 1 .. m /\ i + 1 \in 1 .. n /\ (i + 1) - 1 = i /\ g[i] = h[i]
        BY <2>1
      <3> QED BY <3>1 DEF RoundsUpTo
    <2> QED BY <2>1
  <1> HIDE DEF S
  <1>3. S = Nat
    <2>1. S \subseteq Nat
      BY DEF S
    <2> QED BY <1>1, <1>2, <2>1, NatInd
  <1> QED BY <1>3 DEF S

LEMMA RoundsValue ==
  /\ Rounds[0] = 0
  /\ \A n \in Nat : Rounds[n] \in Nat /\ Rounds[n + 1] = Threads * (1 + Rounds[n])
  <1> DEFINE G(n) == CHOOSE g \in [0 .. n -> Nat] : RoundsUpTo(g, n)
             F == [n \in Nat |-> G(n)[n]]
  <1>1. \A n \in Nat : G(n) \in [0 .. n -> Nat] /\ RoundsUpTo(G(n), n)
    BY RoundsExist
  <1> HIDE DEF G
  <1>2. \A n \in Nat : F[n] \in Nat
    BY <1>1
  <1>3. F[0] = 0
    BY <1>1 DEF RoundsUpTo
  <1>4. ASSUME NEW n \in Nat PROVE F[n + 1] = Threads * (1 + F[n])
    <2>1. RoundsUpTo(G(n), n) /\ RoundsUpTo(G(n + 1), n + 1)
      BY <1>1
    <2>2. G(n)[n] = G(n + 1)[n]
      BY <2>1, RoundsAgree
    <2>3. G(n + 1)[n + 1] = Threads * (1 + G(n + 1)[n])
      <3>1. n + 1 \in 1 .. (n + 1) /\ (n + 1) - 1 = n
        OBVIOUS
      <3> QED BY <2>1, <3>1 DEF RoundsUpTo
    <2> QED BY <2>2, <2>3
  <1>5. F = [n \in Nat |-> IF n = 0 THEN 0 ELSE Threads * (1 + F[n - 1])]
    <2>1. \A n \in Nat : F[n] = IF n = 0 THEN 0 ELSE Threads * (1 + F[n - 1])
      <3> SUFFICES ASSUME NEW n \in Nat, n # 0 PROVE F[n] = Threads * (1 + F[n - 1])
        BY <1>3
      <3>1. n - 1 \in Nat /\ (n - 1) + 1 = n
        OBVIOUS
      <3> HIDE DEF F
      <3> QED BY <1>4, <3>1
    <2> DEFINE H == [n \in Nat |-> IF n = 0 THEN 0 ELSE Threads * (1 + F[n - 1])]
    <2>2. DOMAIN F = Nat /\ DOMAIN H = Nat
      OBVIOUS
    <2>3. \A n \in Nat : F[n] = H[n]
      BY <2>1
    <2> QED BY <2>3
  <1> HIDE DEF F
  <1>6. Rounds = [n \in Nat |-> IF n = 0 THEN 0 ELSE Threads * (1 + Rounds[n - 1])]
    BY <1>5 DEF Rounds, Threads
  <1>7. ASSUME NEW n \in Nat PROVE Rounds[n + 1] = Threads * (1 + Rounds[n])
    <2>1. n + 1 \in Nat /\ n + 1 # 0 /\ (n + 1) - 1 = n
      OBVIOUS
    <2> QED BY <1>6, <2>1
  <1>8. Rounds[0] = 0
    BY <1>6
  <1>9. \A n \in Nat : Rounds[n] \in Nat
    <2> DEFINE S == {n \in Nat : Rounds[n] \in Nat}
    <2>1. 0 \in S
      BY <1>8
    <2>2. ASSUME NEW n \in S PROVE n + 1 \in S
      BY <1>7, ThreadsType
    <2> HIDE DEF S
    <2>3. S = Nat
      <3>1. S \subseteq Nat
        BY DEF S
      <3> QED BY <2>1, <2>2, <3>1, NatInd
    <2> QED BY <2>3 DEF S
  <1> QED BY <1>7, <1>8, <1>9

-----------------------------------------------------------------------------
(* The guesses that are left *)

\* What a thread may still guess, itself and by setting the counter back for all,
\* when the counter it works on is j.
Worth(j) == IF j + 1 >= MaxFailed THEN 0 ELSE 1 + Rounds[MaxFailed - 2 - j]

\* An idle thread, or one that enters, will work on the row.
Level(t) == IF login[t].pc = "wrong" THEN login[t].attempts ELSE account.attempts

Chances == [t \in Logins |-> IF login[t].pc = "locking" THEN 0 ELSE Worth(Level(t))]

\* The threads that have not seen the limit: each can guess once above it.
Trying == {t \in Logins : login[t].pc # "locking"}

ChancesLeft == Cardinality(Units(Logins, Worth(0), Chances))

GuessesLeft == guesses + ChancesLeft + Cardinality(Trying) <= Rounds[MaxFailed - 1] + Threads

LEMMA WorthType ==
  \A j \in Nat : /\ Worth(j) \in Nat
                 /\ j + 1 < MaxFailed => Worth(j) = 1 + Threads * Worth(j + 1)
                 /\ j + 1 >= MaxFailed => Worth(j) = 0
  <1> SUFFICES ASSUME NEW j \in Nat
               PROVE  /\ Worth(j) \in Nat
                      /\ j + 1 < MaxFailed => Worth(j) = 1 + Threads * Worth(j + 1)
                      /\ j + 1 >= MaxFailed => Worth(j) = 0
    OBVIOUS
  <1>1. MaxFailed \in Nat
    BY LockoutAssumption
  <1>2. CASE j + 1 >= MaxFailed
    BY <1>1, <1>2 DEF Worth
  <1>3. CASE j + 2 = MaxFailed
    <2>1. MaxFailed - 2 - j = 0 /\ ~ (j + 1 >= MaxFailed) /\ (j + 1) + 1 >= MaxFailed
      BY <1>1, <1>3
    <2>2. Worth(j) = 1 + Rounds[0] /\ Worth(j + 1) = 0
      BY <2>1 DEF Worth
    <2> QED BY <2>1, <2>2, RoundsValue, ThreadsType
  <1>4. CASE j + 2 < MaxFailed
    <2> DEFINE m == MaxFailed - 3 - j
    <2>1. /\ m \in Nat /\ MaxFailed - 2 - j = m + 1 /\ MaxFailed - 2 - (j + 1) = m
          /\ ~ (j + 1 >= MaxFailed) /\ ~ ((j + 1) + 1 >= MaxFailed)
      BY <1>1, <1>4
    <2> HIDE DEF m
    <2>2. Worth(j) = 1 + Rounds[m + 1] /\ Worth(j + 1) = 1 + Rounds[m]
      BY <2>1 DEF Worth
    <2>3. Rounds[m + 1] = Threads * (1 + Rounds[m]) /\ Rounds[m + 1] \in Nat
      BY <2>1, RoundsValue
    <2> QED BY <2>1, <2>2, <2>3
  <1> QED BY <1>1, <1>2, <1>3, <1>4

\* A higher counter is worth less.
LEMMA WorthAtMost ==
  ASSUME NEW t \in Logins, NEW j \in Nat
  PROVE  Worth(j) <= Worth(0)
  <1>1. Threads >= 1
    <2>1. Threads # 0
      BY FS_EmptySet, LockoutAssumption DEF Threads
    <2> QED BY <2>1, ThreadsType
  <1> DEFINE S == {n \in Nat : Worth(n) <= Worth(0)}
  <1>2. 0 \in S
    BY WorthType
  <1>3. ASSUME NEW n \in S PROVE n + 1 \in S
    <2>1. n \in Nat /\ n + 1 \in Nat /\ Worth(n) <= Worth(0)
      OBVIOUS
    <2>2. Worth(n) \in Nat /\ Worth(n + 1) \in Nat /\ Worth(0) \in Nat
      BY <2>1, WorthType
    <2>3. Worth(n + 1) <= Worth(n)
      <3>1. CASE n + 1 >= MaxFailed
        <4>1. (n + 1) + 1 >= MaxFailed
          BY <2>1, <3>1, LockoutAssumption
        <4> QED BY <2>1, <2>2, <4>1, WorthType
      <3>2. CASE n + 1 < MaxFailed
        <4>1. Worth(n) = 1 + Threads * Worth(n + 1)
          BY <2>1, <3>2, WorthType
        <4>2. Threads * Worth(n + 1) >= Worth(n + 1)
          <5> DEFINE w == Worth(n + 1)
          <5>1. w \in Nat
            BY <2>2
          <5> HIDE DEF w
          <5>2. Threads * w >= w
            <6>1. PICK r \in Nat : Threads = 1 + r
              BY <1>1, ThreadsType
            <6>2. (1 + r) * w = w + r * w /\ r * w \in Nat
              BY <5>1, <6>1
            <6> QED BY <5>1, <6>1, <6>2
          <5> QED BY <5>2 DEF w
        <4>3. Threads * Worth(n + 1) \in Nat
          BY <2>2, ThreadsType
        <4> QED BY <2>2, <4>1, <4>2, <4>3
      <3> QED BY <2>1, <3>1, <3>2, LockoutAssumption
    <2> QED BY <2>1, <2>2, <2>3
  <1> HIDE DEF S
  <1>4. S = Nat
    <2>1. S \subseteq Nat
      BY DEF S
    <2> QED BY <1>2, <1>3, <2>1, NatInd
  <1> QED BY <1>4 DEF S

LEMMA ChancesType ==
  ASSUME LockoutTypeOK
  PROVE  /\ Chances \in [Logins -> 0 .. Worth(0)]
         /\ \A t \in Logins : Level(t) \in Nat /\ Worth(Level(t)) \in Nat
         /\ Worth(0) \in Nat /\ ChancesLeft \in Nat
  <1>1. \A t \in Logins : Level(t) \in Nat
    BY DEF LockoutTypeOK, Login, Level
  <1>2. \A t \in Logins : Worth(Level(t)) \in 0 .. Worth(0) /\ 0 \in 0 .. Worth(0)
    BY <1>1, WorthType, WorthAtMost
  <1>3. Chances \in [Logins -> 0 .. Worth(0)]
    BY <1>2 DEF Chances
  <1>4. Worth(0) \in Nat
    BY WorthType
  <1>5. ChancesLeft \in Nat
    BY <1>4, UnitsFinite, LockoutAssumption DEF ChancesLeft
  <1> QED BY <1>1, <1>2, <1>3, <1>4, <1>5

LEMMA TryingType ==
  IsFiniteSet(Trying) /\ Cardinality(Trying) \in Nat /\ Cardinality(Trying) <= Threads
  <1>1. Trying \subseteq Logins
    BY DEF Trying
  <1> QED BY <1>1, FS_Subset, FS_CardinalityType, LockoutAssumption DEF Threads

\* No counter in a row or in a copy moves.
LEMMA ChancesUntouched ==
  ASSUME GuessesLeft, UNCHANGED guesses,
         \A t \in Logins : Level(t)' = Level(t) /\ (login'[t].pc = "locking" <=> login[t].pc = "locking")
  PROVE  GuessesLeft'
  <1>1. Chances' = Chances
    BY DEF Chances
  <1>2. Trying' = Trying
    BY DEF Trying
  <1> QED BY <1>1, <1>2 DEF GuessesLeft, ChancesLeft

\* Every thread on the lowest level: all rounds are ahead.
LEMMA AllRounds ==
  /\ Threads * Worth(0) <= Rounds[MaxFailed - 1] /\ Threads * Worth(0) \in Nat
  /\ Rounds[MaxFailed - 1] \in Nat
  <1>1. MaxFailed \in Nat /\ MaxFailed - 1 \in Nat
    BY LockoutAssumption
  <1>2. CASE MaxFailed = 1
    <2>1. Worth(0) = 0
      BY <1>2 DEF Worth
    <2> QED BY <1>2, <2>1, RoundsValue, ThreadsType
  <1>3. CASE MaxFailed # 1
    <2> DEFINE m == MaxFailed - 2
    <2>1. m \in Nat /\ m + 1 = MaxFailed - 1 /\ ~ (0 + 1 >= MaxFailed) /\ MaxFailed - 2 - 0 = m
      BY <1>3, LockoutAssumption
    <2> HIDE DEF m
    <2>2. Worth(0) = 1 + Rounds[m]
      BY <2>1 DEF Worth
    <2>3. Rounds[m + 1] = Threads * (1 + Rounds[m]) /\ Rounds[m + 1] \in Nat
      BY <2>1, RoundsValue
    <2> QED BY <2>1, <2>2, <2>3
  <1> QED BY <1>2, <1>3

\* After a lock or a clear nobody can have more than everything.
LEMMA FreshStart ==
  ASSUME LockoutTypeOK, LockoutTypeOK', guesses' = 0
  PROVE  GuessesLeft'
  <1> DEFINE U == Units(Logins, Worth(0), Chances')
             V == Trying'
  <1>1. Cardinality(U) \in Nat /\ Cardinality(U) <= Threads * Worth(0)
    BY UnitsFinite, UnitsAtMost, WorthType, LockoutAssumption DEF Threads
  <1>2. Cardinality(V) \in Nat /\ Cardinality(V) <= Threads
    <2>1. V \subseteq Logins
      BY DEF Trying
    <2> QED BY <2>1, FS_Subset, FS_CardinalityType, LockoutAssumption DEF Threads
  <1>3. Threads * Worth(0) <= Rounds[MaxFailed - 1] /\ Threads * Worth(0) \in Nat
        /\ Rounds[MaxFailed - 1] \in Nat
    BY AllRounds
  <1> HIDE DEF U, V
  <1>4. guesses' + Cardinality(U) + Cardinality(V) <= Rounds[MaxFailed - 1] + Threads
    BY <1>1, <1>2, <1>3, ThreadsType
  <1> QED BY <1>4 DEF GuessesLeft, ChancesLeft, U, V

\* A failure below the limit gives up the guess and the level of its thread; idle
\* threads have at most the next level.
LEMMA FailureBelow ==
  ASSUME LockoutTypeOK, LockoutTypeOK', GuessesLeft, NEW t \in Logins, CommitFailure(t),
         ~ AtLimit(Failures(login[t]))
  PROVE  GuessesLeft'
  <1> DEFINE j == login[t].attempts
             w == Worth(j + 1)
             K == Worth(0)
             f == Chances
             g == Chances'
  <1>1. /\ login[t].pc = "wrong" /\ j \in Nat /\ j + 1 < MaxFailed
        /\ account'.attempts = j + 1 /\ login'[t].pc = "idle" /\ guesses' = guesses + 1
        /\ \A u \in Logins \ {t} : login'[u] = login[u]
    BY LockoutAssumption DEF CommitFailure, AtLimit, Failures, LeaveLogin, IdleLogin, LockoutTypeOK, Login
  <1>2. Worth(j) = 1 + Threads * w /\ w \in Nat /\ j + 1 \in Nat
    BY <1>1, WorthType
  <1>3. K \in Nat /\ f \in [Logins -> 0 .. K]
    BY ChancesType
  <1>4. f[t] = Worth(j)
    BY <1>1 DEF Chances, Level
  <1>5. g \in [Logins -> 0 .. K]
    <2>1. \A u \in Logins : Level(u)' \in Nat
      BY DEF LockoutTypeOK, Login, Level
    <2>2. \A u \in Logins : Worth(Level(u)') \in 0 .. K /\ 0 \in 0 .. K
      BY <1>3, <2>1, WorthType, WorthAtMost
    <2>3. g = [u \in Logins |-> IF login'[u].pc = "locking" THEN 0 ELSE Worth(Level(u)')]
      BY DEF Chances, Worth
    <2> HIDE DEF K, g
    <2> QED BY <2>2, <2>3
  <1>6. g[t] <= w /\ \A u \in Logins : g[u] = f[u] \/ g[u] <= w
    <2>1. \A u \in Logins : g[u] = IF login'[u].pc = "locking" THEN 0 ELSE Worth(Level(u)')
      BY DEF Chances, Worth
    <2>2. g[t] = w
      BY <1>1, <2>1 DEF Level
    <2>3. ASSUME NEW u \in Logins \ {t} PROVE g[u] = f[u] \/ g[u] <= w
      <3>1. CASE login[u].pc = "locking"
        BY <1>1, <1>2, <2>1, <3>1
      <3>2. CASE login[u].pc = "wrong"
        <4>1. Level(u)' = Level(u)
          BY <1>1, <3>2 DEF Level
        <4> QED BY <1>1, <2>1, <3>2, <4>1 DEF Chances
      <3>3. CASE login[u].pc \notin {"wrong", "locking"}
        <4>1. Level(u)' = j + 1
          BY <1>1, <3>3 DEF Level
        <4>2. g[u] = w
          BY <1>1, <2>1, <3>3, <4>1
        <4> QED BY <1>2, <4>2
      <3> QED BY <3>1, <3>2, <3>3
    <2> QED BY <1>2, <2>2, <2>3
  <1>7. Trying' = Trying
    BY <1>1 DEF Trying
  <1>8. /\ Cardinality(Units(Logins, K, f)) \in Nat /\ Cardinality(Units(Logins, K, g)) \in Nat
        /\ Cardinality(Units(Logins, K, g)) + f[t]
             <= Cardinality(Units(Logins, K, f)) + Threads * w
    <2> HIDE DEF f, g, K, w
    <2> QED BY <1>2, <1>3, <1>5, <1>6, UnitsRaised, LockoutAssumption DEF Threads
  <1>9. ChancesLeft = Cardinality(Units(Logins, K, f)) /\ ChancesLeft' = Cardinality(Units(Logins, K, g))
    BY DEF ChancesLeft, Worth
  <1>10. Threads * w \in Nat
    BY <1>2, ThreadsType
  <1> HIDE DEF f, g, K, w, j
  <1>11. guesses \in Nat /\ Rounds[MaxFailed - 1] \in Nat
    BY RoundsValue, LockoutAssumption DEF LockoutTypeOK
  <1>12. ChancesLeft' + 1 <= ChancesLeft
    BY <1>2, <1>4, <1>8, <1>9, <1>10
  <1> QED BY <1>1, <1>7, <1>8, <1>9, <1>11, <1>12, TryingType, ThreadsType DEF GuessesLeft

\* A failure at the limit is the last of its thread, and leaves nothing to others.
LEMMA FailureAtLimit ==
  ASSUME LockoutTypeOK, LockoutTypeOK', GuessesLeft, NEW t \in Logins, CommitFailure(t),
         AtLimit(Failures(login[t]))
  PROVE  GuessesLeft'
  <1> DEFINE n == login[t].attempts + 1
             K == Worth(0)
             f == Chances
             g == Chances'
  <1>1. /\ login[t].pc = "wrong" /\ n \in Nat /\ n >= MaxFailed /\ n + 1 >= MaxFailed
        /\ account'.attempts = n /\ login'[t].pc = "locking" /\ guesses' = guesses + 1
        /\ \A u \in Logins \ {t} : login'[u] = login[u]
    BY LockoutAssumption DEF CommitFailure, AtLimit, Failures, LockoutTypeOK, Login
  <1>2. Worth(n) = 0
    BY <1>1 DEF Worth
  <1>3. K \in Nat /\ f \in [Logins -> 0 .. K]
    BY ChancesType
  <1>4. \A u \in Logins : g[u] = IF login'[u].pc = "locking" THEN 0 ELSE Worth(Level(u)')
    BY DEF Chances, Worth
  <1>5. ASSUME NEW u \in Logins PROVE g[u] \in 0 .. K /\ g[u] <= f[u]
    <2>1. f[u] \in 0 .. K /\ f[u] \in Nat
      BY <1>3
    <2>2. CASE login'[u].pc = "locking"
      BY <1>3, <1>4, <2>1, <2>2
    <2>3. CASE login[u].pc = "wrong" /\ u # t
      <3>1. Level(u)' = Level(u)
        BY <1>1, <2>3 DEF Level
      <3>2. g[u] = f[u]
        BY <1>1, <1>4, <2>3, <3>1 DEF Chances
      <3> QED BY <2>1, <3>2
    <2>4. CASE login[u].pc \notin {"wrong", "locking"}
      <3>1. Level(u)' = n /\ login'[u].pc # "locking"
        BY <1>1, <2>4 DEF Level
      <3>2. g[u] = 0
        BY <1>2, <1>4, <3>1
      <3> QED BY <1>3, <2>1, <3>2
    <2> QED BY <1>1, <2>2, <2>3, <2>4
  <1>6. g \in [Logins -> 0 .. K]
    <2>1. g = [u \in Logins |-> g[u]]
      BY DEF Chances
    <2> HIDE DEF g, K
    <2> QED BY <1>5, <2>1
  <1>7. /\ Cardinality(Units(Logins, K, f)) \in Nat /\ Cardinality(Units(Logins, K, g)) \in Nat
        /\ Cardinality(Units(Logins, K, g)) <= Cardinality(Units(Logins, K, f))
    <2> HIDE DEF f, g, K
    <2> QED BY <1>3, <1>5, <1>6, UnitsFewer, LockoutAssumption
  <1>8. ChancesLeft = Cardinality(Units(Logins, K, f)) /\ ChancesLeft' = Cardinality(Units(Logins, K, g))
    BY DEF ChancesLeft, Worth
  <1>9. Cardinality(Trying') = Cardinality(Trying) - 1
    <2>1. t \in Trying /\ Trying' = Trying \ {t}
      BY <1>1 DEF Trying
    <2> QED BY <2>1, TryingType, FS_RemoveElement
  <1> HIDE DEF f, g, K, n
  <1>10. guesses \in Nat /\ Rounds[MaxFailed - 1] \in Nat
    BY RoundsValue, LockoutAssumption DEF LockoutTypeOK
  <1> QED BY <1>1, <1>7, <1>8, <1>9, <1>10, TryingType, ThreadsType DEF GuessesLeft

LEMMA LockoutTypeStep ==
  ASSUME LockoutTypeOK, [LockoutNext]_lockoutVars
  PROVE  LockoutTypeOK'
  <1>1. CASE UNCHANGED lockoutVars
    BY <1>1 DEF LockoutTypeOK, lockoutVars
  <1>2. ASSUME NEW t \in Logins, WrongPassword(t) \/ RightPassword(t) PROVE LockoutTypeOK'
    BY <1>2 DEF LockoutTypeOK, WrongPassword, RightPassword, BeginLogin, Login
  <1>3. ASSUME NEW t \in Logins, CommitFailure(t) PROVE LockoutTypeOK'
    BY <1>3 DEF LockoutTypeOK, CommitFailure, AtLimit, Failures, LeaveLogin, IdleLogin, Login, Lock
  <1>4. ASSUME NEW t \in Logins, CommitLock(t) \/ CommitEntry(t) PROVE LockoutTypeOK'
    <2>1. IdleLogin \in Login /\ IdleLogin.pc = "idle"
      BY DEF IdleLogin, Login, Lock
    <2>2. /\ login' \in [Logins -> Login]
          /\ \A u \in Logins : login'[u].pc = "locking" => login'[u] = login[u]
      BY <1>4, <2>1 DEF LockoutTypeOK, CommitLock, CommitEntry, LeaveLogin
    <2>3. guesses' \in Nat
      BY <1>4 DEF LockoutTypeOK, CommitLock, CommitEntry
    <2>4. account' \in [attempts : Nat, lockedUntil : Lock, emailVerified : BOOLEAN]
      <3>1. CASE CommitLock(t)
        BY <3>1 DEF LockoutTypeOK, CommitLock, Lock
      <3>2. CASE CommitEntry(t)
        BY <3>2 DEF LockoutTypeOK, CommitEntry, Lock
      <3> QED BY <1>4, <3>1, <3>2
    <2> QED BY <2>2, <2>3, <2>4 DEF LockoutTypeOK
  <1>5. CASE VerifyEmail \/ LockPasses
    BY <1>5 DEF LockoutTypeOK, VerifyEmail, LockPasses, Lock
  <1> QED BY <1>1, <1>2, <1>3, <1>4, <1>5 DEF LockoutNext

LEMMA LockoutStep ==
  ASSUME LockoutTypeOK, LockoutTypeOK', GuessesLeft, [LockoutNext]_lockoutVars
  PROVE  GuessesLeft'
  <1>1. CASE UNCHANGED lockoutVars
    BY <1>1, ChancesUntouched DEF lockoutVars, Level
  <1>2. ASSUME NEW t \in Logins, WrongPassword(t) \/ RightPassword(t) PROVE GuessesLeft'
    <2>1. /\ login[t].pc = "idle" /\ login'[t].pc \in {"wrong", "right"}
          /\ login'[t].attempts = account.attempts
          /\ \A u \in Logins \ {t} : login'[u] = login[u]
          /\ UNCHANGED <<account, guesses>>
      BY <1>2 DEF WrongPassword, RightPassword, BeginLogin, LockoutTypeOK
    <2> QED BY <2>1, ChancesUntouched DEF Level
  <1>3. ASSUME NEW t \in Logins, CommitFailure(t) PROVE GuessesLeft'
    BY <1>3, FailureBelow, FailureAtLimit
  <1>4. ASSUME NEW t \in Logins, CommitLock(t) PROVE GuessesLeft'
    BY <1>4, FreshStart DEF CommitLock
  <1>5. ASSUME NEW t \in Logins, CommitEntry(t) PROVE GuessesLeft'
    <2>1. CASE login[t].attempts > 0
      BY <1>5, <2>1, FreshStart DEF CommitEntry
    <2>2. CASE ~ (login[t].attempts > 0)
      <3>1. /\ login[t].pc = "right" /\ login'[t].pc = "idle"
            /\ \A u \in Logins \ {t} : login'[u] = login[u]
            /\ account'.attempts = account.attempts /\ UNCHANGED guesses
        BY <1>5, <2>2 DEF CommitEntry, LeaveLogin, IdleLogin, LockoutTypeOK
      <3> QED BY <3>1, ChancesUntouched DEF Level
    <2> QED BY <2>1, <2>2
  <1>6. CASE VerifyEmail \/ LockPasses
    <2>1. account'.attempts = account.attempts /\ UNCHANGED <<login, guesses>>
      BY <1>6 DEF VerifyEmail, LockPasses, LockoutTypeOK
    <2> QED BY <2>1, ChancesUntouched DEF Level
  <1> QED BY <1>1, <1>2, <1>3, <1>4, <1>5, <1>6 DEF LockoutNext

LEMMA LockoutBegins == LockoutInit => LockoutTypeOK /\ GuessesLeft
  <1> SUFFICES ASSUME LockoutInit PROVE LockoutTypeOK /\ GuessesLeft
    OBVIOUS
  <1>1. LockoutTypeOK
    BY DEF LockoutInit, LockoutTypeOK, IdleLogin, Login, Lock
  <1>2. GuessesLeft
    <2>1. guesses = 0
      BY DEF LockoutInit
    <2>2. ChancesLeft \in Nat /\ ChancesLeft <= Threads * Worth(0)
      BY UnitsFinite, UnitsAtMost, WorthType, LockoutAssumption DEF Threads, ChancesLeft
    <2>3. Threads * Worth(0) <= Rounds[MaxFailed - 1] /\ Threads * Worth(0) \in Nat
          /\ Rounds[MaxFailed - 1] \in Nat
      BY AllRounds
    <2> QED BY <2>1, <2>2, <2>3, TryingType, ThreadsType DEF GuessesLeft
  <1> QED BY <1>1, <1>2

LEMMA LockoutInvariant == LockoutSpec => [](LockoutTypeOK /\ GuessesLeft)
  <1>1. LockoutTypeOK /\ GuessesLeft /\ [LockoutNext]_lockoutVars => (LockoutTypeOK /\ GuessesLeft)'
    BY LockoutTypeStep, LockoutStep
  <1> QED BY <1>1, LockoutBegins, PTL DEF LockoutSpec

\* A lock comes however many threads try passwords at once: what they count is lost
\* at most once per thread and level (_record_failed_login).
THEOREM GuessesAreLimited == LockoutSpec => []GuessesAreBounded
  <1>1. LockoutTypeOK /\ GuessesLeft => GuessesAreBounded
    <2> SUFFICES ASSUME LockoutTypeOK, GuessesLeft PROVE GuessesAreBounded
      OBVIOUS
    <2>1. ChancesLeft \in Nat /\ Rounds[MaxFailed - 1] \in Nat /\ guesses \in Nat
      BY ChancesType, RoundsValue, LockoutAssumption DEF LockoutTypeOK
    <2> QED BY <2>1, TryingType, ThreadsType DEF GuessesLeft, GuessesAreBounded, Threads
  <1> QED BY <1>1, LockoutInvariant, PTL

-----------------------------------------------------------------------------
(***************************************************************************)
(* The support desk                                                        *)
(***************************************************************************)

(* The average of the ratings *)

Stars == [Reviewers -> Ratings \cup {0}]

Pick(S) == CHOOSE r \in S : TRUE

\* g sums f over the sets of D.
SumsOver(g, D, f) == \A S \in D : g[S] = IF S = {} THEN 0 ELSE f[Pick(S)] + g[S \ {Pick(S)}]

UpTo(k) == {S \in SUBSET Reviewers : Cardinality(S) <= k}

Given(f, S) == {r \in S : f[r] > 0}

LEMMA SetFacts ==
  ASSUME NEW S \in SUBSET Reviewers
  PROVE  /\ IsFiniteSet(S) /\ Cardinality(S) \in Nat /\ Cardinality(S) <= Cardinality(Reviewers)
         /\ Cardinality(Reviewers) \in Nat
         /\ S # {} => /\ Pick(S) \in S /\ Cardinality(S \ {Pick(S)}) = Cardinality(S) - 1
                      /\ Cardinality(S) > 0
  <1>1. /\ IsFiniteSet(S) /\ Cardinality(S) \in Nat /\ Cardinality(S) <= Cardinality(Reviewers)
        /\ Cardinality(Reviewers) \in Nat
    BY FS_Subset, FS_CardinalityType, DeskAssumption
  <1>2. ASSUME S # {}
        PROVE  /\ Pick(S) \in S /\ Cardinality(S \ {Pick(S)}) = Cardinality(S) - 1
               /\ Cardinality(S) > 0
    <2>1. Pick(S) \in S
      BY <1>2 DEF Pick
    <2>2. Cardinality(S \ {Pick(S)}) = Cardinality(S) - 1
      BY <1>1, <2>1, FS_RemoveElement
    <2>3. Cardinality(S) # 0
      BY <1>1, <1>2, FS_EmptySet
    <2> QED BY <1>1, <2>1, <2>2, <2>3
  <1> QED BY <1>1, <1>2

\* A sum of ratings is between their number and five times it.
LEMMA SumsExist ==
  ASSUME NEW f \in Stars
  PROVE  \A k \in Nat : \E g \in [UpTo(k) -> Nat] : SumsOver(g, UpTo(k), f)
  <1> DEFINE T == {k \in Nat : \E g \in [UpTo(k) -> Nat] : SumsOver(g, UpTo(k), f)}
  <1>0. \A r \in Reviewers : f[r] \in Nat
    BY DEF Stars, Ratings
  <1>1. 0 \in T
    <2> DEFINE g == [S \in UpTo(0) |-> 0]
    <2>1. \A S \in UpTo(0) : S = {}
      <3> SUFFICES ASSUME NEW S \in UpTo(0), S # {} PROVE FALSE
        OBVIOUS
      <3>1. S \in SUBSET Reviewers /\ Cardinality(S) <= 0
        BY DEF UpTo
      <3>2. Cardinality(S) \in Nat /\ Cardinality(S) > 0
        BY <3>1, SetFacts
      <3> QED BY <3>1, <3>2
    <2>2. g \in [UpTo(0) -> Nat] /\ SumsOver(g, UpTo(0), f)
      BY <2>1 DEF SumsOver
    <2> QED BY <2>2
  <1>2. ASSUME NEW k \in T PROVE k + 1 \in T
    <2>1. PICK g \in [UpTo(k) -> Nat] : SumsOver(g, UpTo(k), f)
      OBVIOUS
    <2> DEFINE h == [S \in UpTo(k + 1) |-> IF S \in UpTo(k) THEN g[S] ELSE f[Pick(S)] + g[S \ {Pick(S)}]]
    <2>2. ASSUME NEW S \in UpTo(k + 1), S # {}
          PROVE  Pick(S) \in Reviewers /\ S \ {Pick(S)} \in UpTo(k) /\ S \ {Pick(S)} \in UpTo(k + 1)
      <3>1. S \in SUBSET Reviewers /\ Cardinality(S) <= k + 1 /\ k \in Nat
        BY DEF UpTo
      <3>2. Pick(S) \in S /\ Cardinality(S \ {Pick(S)}) = Cardinality(S) - 1 /\ Cardinality(S) \in Nat
        BY <2>2, <3>1, SetFacts
      <3> QED BY <3>1, <3>2 DEF UpTo
    <2>3. {} \in UpTo(k)
      BY FS_EmptySet DEF UpTo
    <2>4. h \in [UpTo(k + 1) -> Nat]
      <3> SUFFICES ASSUME NEW S \in UpTo(k + 1), S \notin UpTo(k)
                   PROVE  f[Pick(S)] + g[S \ {Pick(S)}] \in Nat
        OBVIOUS
      <3>1. S # {}
        BY <2>3
      <3>2. Pick(S) \in Reviewers /\ S \ {Pick(S)} \in UpTo(k)
        BY <2>2, <3>1
      <3>3. f[Pick(S)] \in Nat /\ g[S \ {Pick(S)}] \in Nat
        BY <1>0, <3>2
      <3> QED BY <3>3
    <2>5. SumsOver(h, UpTo(k + 1), f)
      <3> SUFFICES ASSUME NEW S \in UpTo(k + 1)
                   PROVE  h[S] = IF S = {} THEN 0 ELSE f[Pick(S)] + h[S \ {Pick(S)}]
        BY DEF SumsOver
      <3>1. CASE S = {}
        BY <2>1, <2>3, <3>1 DEF SumsOver
      <3>2. CASE S # {}
        <4>1. h[S \ {Pick(S)}] = g[S \ {Pick(S)}]
          BY <2>2, <3>2
        <4>2. h[S] = f[Pick(S)] + g[S \ {Pick(S)}]
          BY <2>1, <3>2 DEF SumsOver
        <4> QED BY <3>2, <4>1, <4>2
      <3> QED BY <3>1, <3>2
    <2> HIDE DEF h
    <2>6. \E j \in [UpTo(k + 1) -> Nat] : SumsOver(j, UpTo(k + 1), f)
      BY <2>4, <2>5
    <2> QED BY <2>6
  <1> HIDE DEF T
  <1>3. T = Nat
    <2>1. T \subseteq Nat
      BY DEF T
    <2> QED BY <1>1, <1>2, <2>1, NatInd
  <1> QED BY <1>3 DEF T

LEMMA SumIs ==
  ASSUME NEW f \in Stars
  PROVE  \E g : SumsOver(g, SUBSET Reviewers, f) /\ SumOf(f) = g[Reviewers]
  <1>1. UpTo(Cardinality(Reviewers)) = SUBSET Reviewers /\ Cardinality(Reviewers) \in Nat
    BY SetFacts DEF UpTo
  <1>2. PICK g \in [SUBSET Reviewers -> Nat] : SumsOver(g, SUBSET Reviewers, f)
    BY <1>1, SumsExist
  <1> DEFINE P(h) == h = [S \in SUBSET Reviewers |->
                            IF S = {} THEN 0 ELSE LET r == CHOOSE r \in S : TRUE IN f[r] + h[S \ {r}]]
             c == CHOOSE h : P(h)
  <1>3. P(g)
    BY <1>2 DEF SumsOver, Pick
  <1>4. P(c)
    BY <1>3, Zenon
  <1>5. SumOf(f) = c[Reviewers]
    BY DEF SumOf
  <1>6. SumsOver(c, SUBSET Reviewers, f)
    <2> HIDE DEF c
    <2> QED BY <1>4 DEF SumsOver, Pick
  <1> HIDE DEF c
  <1> QED BY <1>5, <1>6

LEMMA SumBounds ==
  ASSUME NEW f \in Stars
  PROVE  LET n == Cardinality(Given(f, Reviewers))
         IN  n \in Nat /\ SumOf(f) \in Nat /\ n <= SumOf(f) /\ SumOf(f) <= 5 * n
  <1>1. PICK g : SumsOver(g, SUBSET Reviewers, f) /\ SumOf(f) = g[Reviewers]
    BY SumIs
  <1> DEFINE N(S) == Cardinality(Given(f, S))
             Good(S) == N(S) \in Nat /\ g[S] \in Nat /\ N(S) <= g[S] /\ g[S] <= 5 * N(S)
             T == {k \in Nat : \A S \in UpTo(k) : Good(S)}
  <1>2. \A S \in SUBSET Reviewers : IsFiniteSet(Given(f, S)) /\ N(S) \in Nat
    BY SetFacts, FS_Subset, FS_CardinalityType DEF Given
  <1>3. Good({})
    <2>1. Given(f, {}) = {}
      BY DEF Given
    <2>2. N({}) = 0 /\ g[{}] = 0
      BY <1>1, <2>1, FS_EmptySet DEF SumsOver
    <2> QED BY <2>2
  <1>4. 0 \in T
    <2> SUFFICES ASSUME NEW S \in UpTo(0), S # {} PROVE FALSE
      BY <1>3
    <2>1. S \in SUBSET Reviewers /\ Cardinality(S) <= 0
      BY DEF UpTo
    <2>2. Cardinality(S) \in Nat /\ Cardinality(S) > 0
      BY <2>1, SetFacts
    <2> QED BY <2>1, <2>2
  <1>5. ASSUME NEW k \in T PROVE k + 1 \in T
    <2> SUFFICES ASSUME NEW S \in UpTo(k + 1), S # {} PROVE Good(S)
      <3>1. k + 1 \in Nat
        OBVIOUS
      <3> HIDE DEF Good
      <3> QED BY <1>3, <3>1
    <2> DEFINE r == Pick(S)
               R == S \ {r}
    <2>1. S \in SUBSET Reviewers /\ Cardinality(S) <= k + 1 /\ k \in Nat
      BY DEF UpTo
    <2>2. r \in S /\ Cardinality(R) = Cardinality(S) - 1 /\ Cardinality(S) \in Nat
      BY <2>1, SetFacts
    <2>3. R \in UpTo(k) /\ R \in SUBSET Reviewers
      BY <2>1, <2>2 DEF UpTo
    <2>4. Good(R)
      BY <2>3
    <2>5. g[S] = f[r] + g[R]
      BY <1>1, <2>1 DEF SumsOver
    <2>6. f[r] \in {0, 1, 5}
      BY <2>1, <2>2 DEF Stars, Ratings
    <2>7. N(S) = IF f[r] = 0 THEN N(R) ELSE N(R) + 1
      <3>1. CASE f[r] = 0
        <4>1. Given(f, S) = Given(f, R)
          BY <3>1 DEF Given
        <4> QED BY <3>1, <4>1
      <3>2. CASE f[r] # 0
        <4>1. Given(f, S) = Given(f, R) \cup {r} /\ r \notin Given(f, R)
          BY <2>2, <2>6, <3>2 DEF Given
        <4>2. IsFiniteSet(Given(f, R))
          BY <1>2, <2>3
        <4> QED BY <3>2, <4>1, <4>2, FS_AddElement
      <3> QED BY <3>1, <3>2
    <2> HIDE DEF R, r, N
    <2> QED BY <2>4, <2>5, <2>6, <2>7
  <1> HIDE DEF T
  <1>6. T = Nat
    <2>1. T \subseteq Nat
      BY DEF T
    <2> QED BY <1>4, <1>5, <2>1, NatInd
  <1>7. Good(Reviewers)
    <2>1. Cardinality(Reviewers) \in T /\ Reviewers \in UpTo(Cardinality(Reviewers))
      BY <1>6, SetFacts DEF UpTo
    <2> QED BY <2>1 DEF T
  <1> QED BY <1>1, <1>7

\* An average of ratings is one: from 1 to 5 stars.
LEMMA AverageType ==
  ASSUME NEW f \in Stars
  PROVE  Average(f) \in Scale .. 5 * Scale
  <1> DEFINE n == Cardinality({r \in Reviewers : f[r] > 0})
             s == SumOf(f)
  <1>1. n \in Nat /\ s \in Nat /\ n <= s /\ s <= 5 * n
    BY SumBounds DEF Given
  <1>2. Average(f) = IF n = 0 THEN 5 * Scale ELSE (s * Scale) \div n
    BY DEF Average
  <1> HIDE DEF n, s
  <1>3. CASE n = 0
    BY <1>2, <1>3 DEF Scale
  <1>4. CASE n # 0
    <2> DEFINE q == (s * 6) \div n
    <2>1. q \in Int /\ n * q <= s * 6 /\ s * 6 < n * (q + 1)
      BY <1>1, <1>4
    <2> HIDE DEF q
    <2>2. q >= 6
      BY <1>1, <1>4, <2>1
    <2>3. q <= 30
      BY <1>1, <1>4, <2>1
    <2> QED BY <1>2, <1>4, <2>1, <2>2, <2>3 DEF Scale, q
  <1> QED BY <1>3, <1>4

-----------------------------------------------------------------------------
(* Rows and their updates *)

Kinds == {"submit", "verify", "reject", "review", "incident"}
Statuses == {"open", "reviewing", "resolved", "dismissed"}

LEMMA UserUpdate ==
  ASSUME NEW row \in UserRow, NEW copy \in UserRow, NEW new \in UserRow
  PROVE  LET u == Update(row, copy, new) IN
         /\ u \in UserRow
         /\ u.version = IF new.version # copy.version THEN new.version ELSE row.version
         /\ u.status = IF new.status # copy.status THEN new.status ELSE row.status
         /\ u.reason = IF new.reason # copy.reason THEN new.reason ELSE row.reason
         /\ u.rating = IF new.rating # copy.rating THEN new.rating ELSE row.rating
  <1> DEFINE u == Update(row, copy, new)
             v == [version |-> IF new.version # copy.version THEN new.version ELSE row.version,
                   status |-> IF new.status # copy.status THEN new.status ELSE row.status,
                   reason |-> IF new.reason # copy.reason THEN new.reason ELSE row.reason,
                   rating |-> IF new.rating # copy.rating THEN new.rating ELSE row.rating]
  <1>1. DOMAIN row = {"version", "status", "reason", "rating"}
    BY DEF UserRow
  <1>2. u = [c \in {"version", "status", "reason", "rating"} |->
               IF new[c] # copy[c] THEN new[c] ELSE row[c]]
    BY <1>1 DEF Update
  <1>3. u = v
    BY <1>2
  <1> HIDE DEF u
  <1>4. v \in UserRow
    BY DEF UserRow
  <1> QED BY <1>3, <1>4 DEF u

LEMMA IncidentUpdate ==
  ASSUME NEW row \in IncidentRow, NEW copy \in IncidentRow, NEW new \in IncidentRow
  PROVE  LET u == Update(row, copy, new) IN
         /\ u \in IncidentRow
         /\ u.status = IF new.status # copy.status THEN new.status ELSE row.status
         /\ u.resolvedAt = IF new.resolvedAt # copy.resolvedAt THEN new.resolvedAt ELSE row.resolvedAt
  <1> DEFINE u == Update(row, copy, new)
             v == [status |-> IF new.status # copy.status THEN new.status ELSE row.status,
                   resolvedAt |-> IF new.resolvedAt # copy.resolvedAt THEN new.resolvedAt ELSE row.resolvedAt]
  <1>1. DOMAIN row = {"status", "resolvedAt"}
    BY DEF IncidentRow
  <1>2. u = [c \in {"status", "resolvedAt"} |-> IF new[c] # copy[c] THEN new[c] ELSE row[c]]
    BY <1>1 DEF Update
  <1>3. u = v
    BY <1>2
  <1> HIDE DEF u
  <1>4. v \in IncidentRow
    BY DEF IncidentRow
  <1> QED BY <1>3, <1>4 DEF u

LEMMA IdleClerkType ==
  /\ IdleClerk \in Clerk /\ IdleClerk.pc = "idle" /\ IdleClerk.op = "none"
  /\ IdleClerk.arg = "none" /\ IdleClerk.reviewer = "none" /\ IdleClerk.stars = 0
  /\ NewUser \in UserRow /\ NewIncident \in IncidentRow
  <1>1. /\ NewUser \in UserRow /\ NewIncident \in IncidentRow
    BY DEF NewUser, NewIncident, UserRow, IncidentRow, Scale
  <1> QED BY <1>1 DEF IdleClerk, Clerk

-----------------------------------------------------------------------------
(* A handler that is alone sees the row *)

\* What a handler in progress was given.
ClerkOK(h) ==
  /\ h.pc # "idle" => h.op \in Kinds
  /\ h.pc = "averaged" => h.op = "review" /\ h.average \in Scale .. 5 * Scale
  /\ h.pc # "idle" /\ h.op = "reject" => h.arg \in {"plate", "licence"}
  /\ h.pc # "idle" /\ h.op = "review" => h.reviewer \in Reviewers /\ h.stars \in Ratings
  /\ h.pc # "idle" /\ h.op = "incident" => h.arg \in Statuses

SeesProfile(h) == /\ h.copy.version = user.version
                  /\ h.copy.status = user.status /\ h.copy.reason = user.reason
SeesReviews(h) == /\ h.copy.rating = user.rating
                  /\ h.pc = "averaged" => h.average = Average(Visible(h))
SeesReport(h)  == h.file = incident

\* The columns of its topic are as it loaded them, and nobody is about to write them.
LoneSees(t) ==
  LET h == clerk[t] IN
  h.pc # "idle" /\ h.alone =>
    /\ SameTopic(t, h.op) = {}
    /\ Topic(h.op) = "profile" => SeesProfile(h)
    /\ Topic(h.op) = "review" => SeesReviews(h)
    /\ Topic(h.op) = "incident" => SeesReport(h)

DeskInv ==
  /\ DeskTypeOK
  /\ \A t \in Clerks : ClerkOK(clerk[t]) /\ LoneSees(t)

LEMMA TopicOf ==
  ASSUME NEW op \in Kinds
  PROVE  /\ Topic(op) = IF op \in {"submit", "verify", "reject"} THEN "profile" ELSE op
         /\ Topic(op) \in {"profile", "review", "incident"}
  BY DEF Topic, Kinds

LEMMA DeskParts ==
  ASSUME DeskTypeOK
  PROVE  /\ user \in UserRow /\ incident \in IncidentRow /\ reviews \in Stars
         /\ clerk \in [Clerks -> Clerk]
         /\ deskPast \in [approved : Nat, handled : Nat]
  BY DEF DeskTypeOK, Stars

-----------------------------------------------------------------------------
(* Handlers that begin *)

LEMMA BeginFacts ==
  ASSUME DeskInv, NEW t \in Clerks, NEW op \in Kinds, NEW h \in Clerk, Begin(t, op, h)
  PROVE  /\ clerk' \in [Clerks -> Clerk]
         /\ clerk'[t].pc = "loaded" /\ clerk'[t].op = op
         /\ clerk'[t].copy = user /\ clerk'[t].file = incident
         /\ clerk'[t].arg = h.arg /\ clerk'[t].reviewer = h.reviewer /\ clerk'[t].stars = h.stars
         /\ clerk'[t].alone => SameTopic(t, op) = {}
         /\ \A u \in Clerks \ {t} : \/ (u \in SameTopic(t, op) /\ clerk'[u] = [clerk[u] EXCEPT !.alone = FALSE])
                                    \/ (u \notin SameTopic(t, op) /\ clerk'[u] = clerk[u])
  <1> DEFINE a == SameTopic(t, op) = {}
             new == [h EXCEPT !.pc = "loaded", !.op = op, !.copy = user, !.file = incident, !.alone = a]
             G(u) == IF u = t THEN new
                     ELSE IF u \in SameTopic(t, op) THEN [clerk[u] EXCEPT !.alone = FALSE]
                     ELSE clerk[u]
  <1>1. clerk \in [Clerks -> Clerk] /\ user \in UserRow /\ incident \in IncidentRow
    BY DeskParts DEF DeskInv
  <1>2. clerk' = [u \in Clerks |-> G(u)]
    BY DEF Begin
  <1>3. a \in BOOLEAN /\ (a => SameTopic(t, op) = {})
    OBVIOUS
  <1> HIDE DEF a
  <1>4. new \in Clerk
    BY <1>1, <1>3 DEF Clerk, Kinds
  <1>5. /\ new.pc = "loaded" /\ new.op = op /\ new.copy = user /\ new.file = incident
        /\ new.arg = h.arg /\ new.reviewer = h.reviewer /\ new.stars = h.stars /\ new.alone = a
    BY DEF Clerk
  <1> HIDE DEF new
  <1>6. \A u \in Clerks : [clerk[u] EXCEPT !.alone = FALSE] \in Clerk
    BY <1>1 DEF Clerk
  <1>7. \A u \in Clerks : G(u) \in Clerk
    BY <1>1, <1>4, <1>6
  <1>8. clerk' \in [Clerks -> Clerk] /\ \A u \in Clerks : clerk'[u] = G(u)
    BY <1>2, <1>7
  <1>9. clerk'[t] = new
    BY <1>8
  <1> DEFINE joined(u) == [clerk[u] EXCEPT !.alone = FALSE]
  <1>10. \A u \in Clerks \ {t} : G(u) = IF u \in SameTopic(t, op) THEN joined(u) ELSE clerk[u]
    OBVIOUS
  <1> HIDE DEF G, joined
  <1>11. \A u \in Clerks \ {t} : \/ (u \in SameTopic(t, op) /\ clerk'[u] = joined(u))
                                 \/ (u \notin SameTopic(t, op) /\ clerk'[u] = clerk[u])
    BY <1>8, <1>10
  <1>12. clerk'[t].alone => SameTopic(t, op) = {}
    BY <1>3, <1>5, <1>9
  <1>13. /\ clerk'[t].pc = "loaded" /\ clerk'[t].op = op
         /\ clerk'[t].copy = user /\ clerk'[t].file = incident
         /\ clerk'[t].arg = h.arg /\ clerk'[t].reviewer = h.reviewer /\ clerk'[t].stars = h.stars
    BY <1>5, <1>9
  <1> QED BY <1>8, <1>11, <1>12, <1>13 DEF joined

LEMMA BeginKeeps ==
  ASSUME DeskInv, NEW t \in Clerks, NEW op \in Kinds, NEW h \in Clerk, Begin(t, op, h),
         op = "reject" => h.arg \in {"plate", "licence"},
         op = "review" => h.reviewer \in Reviewers /\ h.stars \in Ratings,
         op = "incident" => h.arg \in Statuses
  PROVE  DeskInv'
  <1>1. /\ user \in UserRow /\ incident \in IncidentRow /\ reviews \in Stars
        /\ clerk \in [Clerks -> Clerk] /\ deskPast \in [approved : Nat, handled : Nat]
    BY DeskParts DEF DeskInv
  <1>2. /\ clerk' \in [Clerks -> Clerk]
        /\ clerk'[t].pc = "loaded" /\ clerk'[t].op = op
        /\ clerk'[t].copy = user /\ clerk'[t].file = incident
        /\ clerk'[t].arg = h.arg /\ clerk'[t].reviewer = h.reviewer /\ clerk'[t].stars = h.stars
        /\ clerk'[t].alone => SameTopic(t, op) = {}
    BY BeginFacts
  <1>3. \A u \in Clerks \ {t} : \/ (u \in SameTopic(t, op) /\ clerk'[u] = [clerk[u] EXCEPT !.alone = FALSE])
                                \/ (u \notin SameTopic(t, op) /\ clerk'[u] = clerk[u])
    BY BeginFacts
  <1>4. /\ UNCHANGED <<user, reviews, incident>>
        /\ deskPast' = [deskPast EXCEPT !.handled = @ + 1]
        /\ clerk[t].pc = "idle"
    BY DEF Begin
  <1>5. DeskTypeOK'
    <2>1. deskPast' \in [approved : Nat, handled : Nat]
      BY <1>1, <1>4
    <2> QED BY <1>1, <1>2, <1>4, <2>1 DEF DeskTypeOK, Stars
  <1>6. ClerkOK(clerk'[t])
    BY <1>2 DEF ClerkOK
  <1>7. ASSUME NEW u \in Clerks \ {t}
        PROVE  clerk'[u].pc = clerk[u].pc /\ clerk'[u].op = clerk[u].op
    <2>1. clerk[u] \in Clerk
      BY <1>1
    <2>2. clerk'[u] = clerk[u] \/ clerk'[u] = [clerk[u] EXCEPT !.alone = FALSE]
      BY <1>3
    <2> QED BY <2>1, <2>2 DEF Clerk
  <1>8. LoneSees(t)'
    <2> SUFFICES ASSUME clerk'[t].alone PROVE LoneSees(t)'
      BY DEF LoneSees
    <2>1. SameTopic(t, op) = {}
      BY <1>2
    <2>2. SameTopic(t, op)' = {}
      BY <1>7, <2>1 DEF SameTopic
    <2> QED BY <1>2, <1>4, <2>2 DEF LoneSees, SeesProfile, SeesReviews, SeesReport
  <1>9. ASSUME NEW u \in Clerks, u # t PROVE ClerkOK(clerk'[u]) /\ LoneSees(u)'
    <2>1. ClerkOK(clerk[u]) /\ LoneSees(u)
      BY DEF DeskInv
    <2>2. CASE u \in SameTopic(t, op) /\ clerk'[u] = [clerk[u] EXCEPT !.alone = FALSE]
      <3>1. /\ clerk'[u].alone = FALSE /\ clerk'[u].pc = clerk[u].pc /\ clerk'[u].op = clerk[u].op
            /\ clerk'[u].arg = clerk[u].arg /\ clerk'[u].reviewer = clerk[u].reviewer
            /\ clerk'[u].stars = clerk[u].stars /\ clerk'[u].average = clerk[u].average
        BY <1>1, <2>2 DEF Clerk
      <3> QED BY <2>1, <3>1 DEF ClerkOK, LoneSees
    <2>3. CASE u \notin SameTopic(t, op) /\ clerk'[u] = clerk[u]
      <3>1. SameTopic(u, clerk[u].op)' \subseteq SameTopic(u, clerk[u].op) \/ clerk[u].pc = "idle"
        <4> SUFFICES ASSUME clerk[u].pc # "idle", NEW v \in SameTopic(u, clerk[u].op)'
                     PROVE  v \in SameTopic(u, clerk[u].op)
          OBVIOUS
        <4>1. v \in Clerks \ {u} /\ clerk'[v].pc # "idle" /\ Topic(clerk'[v].op) = Topic(clerk[u].op)
          BY <2>3 DEF SameTopic
        <4>2. v # t
          BY <1>2, <1>9, <2>3, <4>1 DEF SameTopic
        <4> QED BY <1>7, <4>1, <4>2 DEF SameTopic
      <3> QED BY <1>4, <2>1, <2>3, <3>1 DEF LoneSees, SeesProfile, SeesReviews, SeesReport, Visible
    <2> QED BY <1>3, <1>9, <2>2, <2>3
  <1> QED BY <1>5, <1>6, <1>8, <1>9 DEF DeskInv

\* What a handler may begin with.
BeginsWell(t, op, h) ==
  /\ Begin(t, op, h)
  /\ op = "reject" => h.arg \in {"plate", "licence"}
  /\ op = "review" => h.reviewer \in Reviewers /\ h.stars \in Ratings
  /\ op = "incident" => h.arg \in Statuses

Begins(t) == BeginSubmit(t) \/ BeginVerify(t) \/ BeginReject(t) \/ BeginReview(t) \/ BeginIncident(t)

LEMMA BeginningIsGood ==
  ASSUME NEW t \in Clerks, Begins(t)
  PROVE  \E op \in Kinds, h \in Clerk : BeginsWell(t, op, h)
  <1>1. CASE BeginSubmit(t) \/ BeginVerify(t)
    BY <1>1, IdleClerkType DEF BeginSubmit, BeginVerify, Kinds, BeginsWell
  <1>2. CASE BeginReject(t)
    <2>1. PICK why \in {"plate", "licence"} : Begin(t, "reject", [IdleClerk EXCEPT !.arg = why])
      BY <1>2 DEF BeginReject
    <2> DEFINE h == [IdleClerk EXCEPT !.arg = why]
    <2>2. h \in Clerk /\ h.arg = why
      BY IdleClerkType DEF Clerk
    <2>3. Begin(t, "reject", h)
      BY <2>1
    <2> HIDE DEF h
    <2> QED BY <2>2, <2>3 DEF Kinds, BeginsWell
  <1>3. CASE BeginReview(t)
    <2>1. PICK r \in Reviewers, stars \in Ratings :
            Begin(t, "review", [IdleClerk EXCEPT !.reviewer = r, !.stars = stars])
      BY <1>3 DEF BeginReview
    <2> DEFINE h == [IdleClerk EXCEPT !.reviewer = r, !.stars = stars]
    <2>2. h \in Clerk /\ h.reviewer = r /\ h.stars = stars
      BY IdleClerkType DEF Clerk
    <2>3. Begin(t, "review", h)
      BY <2>1
    <2> HIDE DEF h
    <2> QED BY <2>2, <2>3 DEF Kinds, BeginsWell
  <1>4. CASE BeginIncident(t)
    <2>1. PICK s \in Statuses : Begin(t, "incident", [IdleClerk EXCEPT !.arg = s])
      BY <1>4 DEF BeginIncident, Statuses
    <2> DEFINE h == [IdleClerk EXCEPT !.arg = s]
    <2>2. h \in Clerk /\ h.arg = s
      BY IdleClerkType DEF Clerk, Statuses
    <2>3. Begin(t, "incident", h)
      BY <2>1
    <2> HIDE DEF h
    <2> QED BY <2>2, <2>3 DEF Kinds, BeginsWell
  <1> QED BY <1>1, <1>2, <1>3, <1>4 DEF Begins

LEMMA BeginStep ==
  ASSUME DeskInv, NEW t \in Clerks, Begins(t)
  PROVE  DeskInv' /\ \A u \in Clerks : clerk[u].pc # "idle" => clerk'[u].pc # "idle"
  <1>1. PICK op \in Kinds, h \in Clerk : BeginsWell(t, op, h)
    BY BeginningIsGood
  <1>2. clerk \in [Clerks -> Clerk]
    BY DeskParts DEF DeskInv
  <1>3. /\ clerk'[t].pc = "loaded"
        /\ \A u \in Clerks \ {t} : \/ (u \in SameTopic(t, op) /\ clerk'[u] = [clerk[u] EXCEPT !.alone = FALSE])
                                   \/ (u \notin SameTopic(t, op) /\ clerk'[u] = clerk[u])
    BY <1>1, BeginFacts DEF BeginsWell
  <1>4. \A u \in Clerks \ {t} : clerk'[u].pc = clerk[u].pc
    BY <1>2, <1>3 DEF Clerk
  <1> QED BY <1>1, <1>3, <1>4, BeginKeeps DEF BeginsWell

-----------------------------------------------------------------------------
(* Handlers that end *)

LEMMA FinishedFacts ==
  ASSUME DeskInv, NEW t \in Clerks, Finished(t)
  PROVE  /\ clerk' \in [Clerks -> Clerk] /\ clerk'[t] = IdleClerk
         /\ \A u \in Clerks \ {t} : clerk'[u] = clerk[u]
         /\ ClerkOK(clerk'[t]) /\ LoneSees(t)'
  <1>1. clerk \in [Clerks -> Clerk]
    BY DeskParts DEF DeskInv
  <1>2. /\ clerk' \in [Clerks -> Clerk] /\ clerk'[t] = IdleClerk
        /\ \A u \in Clerks \ {t} : clerk'[u] = clerk[u]
    BY <1>1, IdleClerkType DEF Finished
  <1> QED BY <1>2, IdleClerkType DEF ClerkOK, LoneSees

\* The topics of t's columns are the only ones that change: a lone handler of
\* another topic still sees its row.
LEMMA EndKeeps ==
  ASSUME DeskInv, DeskTypeOK', NEW t \in Clerks, clerk[t].pc # "idle",
         \A u \in Clerks \ {t} : clerk'[u] = clerk[u],
         clerk'[t].pc # "idle" => clerk'[t].op = clerk[t].op,
         ClerkOK(clerk'[t]), LoneSees(t)',
         Topic(clerk[t].op) # "profile" =>
            user'.version = user.version /\ user'.status = user.status /\ user'.reason = user.reason,
         Topic(clerk[t].op) # "review" => user'.rating = user.rating /\ reviews' = reviews,
         Topic(clerk[t].op) # "incident" => incident' = incident
  PROVE  DeskInv'
  <1> SUFFICES ASSUME NEW u \in Clerks, u # t PROVE ClerkOK(clerk'[u]) /\ LoneSees(u)'
    BY DEF DeskInv
  <1>1. ClerkOK(clerk[u]) /\ LoneSees(u) /\ clerk'[u] = clerk[u]
    BY DEF DeskInv
  <1> SUFFICES ASSUME clerk[u].pc # "idle", clerk[u].alone PROVE LoneSees(u)'
    BY <1>1 DEF LoneSees
  <1>2. t \notin SameTopic(u, clerk[u].op)
    BY <1>1 DEF LoneSees
  <1>3. Topic(clerk[t].op) # Topic(clerk[u].op)
    BY <1>2 DEF SameTopic
  <1>4. SameTopic(u, clerk[u].op)' \subseteq SameTopic(u, clerk[u].op)
    BY <1>1 DEF SameTopic
  <1>5. Topic(clerk[u].op) = "profile" => SeesProfile(clerk[u])'
    BY <1>1, <1>3 DEF LoneSees, SeesProfile
  <1>6. Topic(clerk[u].op) = "review" => SeesReviews(clerk[u])'
    BY <1>1, <1>3 DEF LoneSees, SeesReviews, Visible
  <1>7. Topic(clerk[u].op) = "incident" => SeesReport(clerk[u])'
    BY <1>1, <1>3 DEF LoneSees, SeesReport
  <1> QED BY <1>1, <1>4, <1>5, <1>6, <1>7 DEF LoneSees

LEMMA FinishKeeps ==
  ASSUME DeskInv, DeskTypeOK', NEW t \in Clerks, clerk[t].pc # "idle", Finished(t),
         NEW topic, topic = Topic(clerk[t].op),
         topic # "profile" =>
            user'.version = user.version /\ user'.status = user.status /\ user'.reason = user.reason,
         topic # "review" => user'.rating = user.rating /\ reviews' = reviews,
         topic # "incident" => incident' = incident
  PROVE  DeskInv'
  <1>1. /\ clerk'[t] = IdleClerk /\ ClerkOK(clerk'[t]) /\ LoneSees(t)'
        /\ \A u \in Clerks \ {t} : clerk'[u] = clerk[u]
    BY FinishedFacts
  <1> QED BY <1>1, IdleClerkType, EndKeeps

LEMMA CommitSubmitStep ==
  ASSUME DeskInv, NEW t \in Clerks, CommitSubmit(t)
  PROVE  /\ DeskInv'
         /\ Lone(t) => user'.status = "pending" /\ user'.reason = "none"
  <1> DEFINE copy == clerk[t].copy
             new == Resubmitted(copy)
             w == Update(user, copy, new)
  <1>1. /\ user \in UserRow /\ copy \in UserRow /\ clerk \in [Clerks -> Clerk]
        /\ incident \in IncidentRow /\ reviews \in Stars /\ deskPast \in [approved : Nat, handled : Nat]
    BY DeskParts DEF DeskInv, Clerk
  <1>2. /\ clerk[t].pc = "loaded" /\ clerk[t].op = "submit"
        /\ user' = [w EXCEPT !.version = @ + 1]
        /\ UNCHANGED <<reviews, incident, deskPast>> /\ Finished(t)
    BY DEF CommitSubmit
  <1> HIDE DEF copy
  <1>3. /\ new \in UserRow /\ new.version = copy.version /\ new.status = "pending"
        /\ new.reason = "none" /\ new.rating = copy.rating
    BY <1>1 DEF Resubmitted, UserRow
  <1> HIDE DEF new
  <1>4. /\ w \in UserRow
        /\ w.version = IF new.version # copy.version THEN new.version ELSE user.version
        /\ w.status = IF new.status # copy.status THEN new.status ELSE user.status
        /\ w.reason = IF new.reason # copy.reason THEN new.reason ELSE user.reason
        /\ w.rating = IF new.rating # copy.rating THEN new.rating ELSE user.rating
    BY <1>1, <1>3, UserUpdate
  <1> HIDE DEF w
  <1>5. /\ user' \in UserRow /\ user'.status = w.status /\ user'.reason = w.reason
        /\ user'.rating = w.rating
    BY <1>2, <1>4 DEF UserRow
  <1>6. DeskInv'
    <2>1. DeskTypeOK'
      BY <1>1, <1>2, <1>5, FinishedFacts DEF DeskTypeOK, Stars
    <2>2. Topic(clerk[t].op) = "profile"
      BY <1>2 DEF Topic
    <2> QED BY <1>2, <1>3, <1>4, <1>5, <2>1, <2>2, FinishKeeps
  <1>7. ASSUME Lone(t) PROVE user'.status = "pending" /\ user'.reason = "none"
    <2>1. user.status = copy.status /\ user.reason = copy.reason
      BY <1>2, <1>7 DEF Lone, DeskInv, LoneSees, SeesProfile, Topic, copy
    <2> QED BY <1>3, <1>4, <1>5, <2>1
  <1> QED BY <1>6, <1>7

LEMMA CommitDecisionStep ==
  ASSUME DeskInv, NEW t \in Clerks, CommitDecision(t)
  PROVE  /\ DeskInv'
         /\ Lone(t) /\ clerk[t].op = "verify" =>
              user'.status = "verified" /\ user'.reason = "none" /\ deskPast'.approved = user'.version
         /\ Lone(t) /\ clerk[t].op = "reject" => user'.status = "rejected" /\ user'.reason = clerk[t].arg
  <1> DEFINE h == clerk[t]
             copy == h.copy
             new == Decided(h)
  <1>1. /\ user \in UserRow /\ h \in Clerk /\ copy \in UserRow /\ clerk \in [Clerks -> Clerk]
        /\ incident \in IncidentRow /\ reviews \in Stars /\ deskPast \in [approved : Nat, handled : Nat]
    BY DeskParts DEF DeskInv, Clerk
  <1>2. /\ h.pc = "loaded" /\ h.op \in {"verify", "reject"}
        /\ user' = Update(user, copy, new)
        /\ deskPast' = [deskPast EXCEPT !.approved = IF h.op = "verify" THEN copy.version ELSE @]
        /\ UNCHANGED <<reviews, incident>> /\ Finished(t)
    BY DEF CommitDecision
  <1>3. h.op = "reject" => h.arg \in {"plate", "licence"}
    BY <1>2 DEF DeskInv, ClerkOK
  <1>4. Topic(h.op) = "profile"
    BY <1>2 DEF Topic
  <1>5. /\ new \in UserRow /\ new.version = copy.version /\ new.rating = copy.rating
        /\ h.op = "verify" => new.status = "verified" /\ new.reason = "none"
        /\ h.op = "reject" => new.status = "rejected" /\ new.reason = h.arg
    <2> HIDE DEF h
    <2>1. CASE h.op = "verify"
      <3>1. new = [copy EXCEPT !.status = "verified", !.reason = "none"]
        BY <2>1 DEF Decided
      <3> HIDE DEF new, copy
      <3> QED BY <1>1, <2>1, <3>1 DEF UserRow
    <2>2. CASE h.op = "reject"
      <3>1. new = [copy EXCEPT !.status = "rejected", !.reason = h.arg]
        BY <2>2 DEF Decided
      <3> HIDE DEF new, copy
      <3> QED BY <1>1, <1>3, <2>2, <3>1 DEF UserRow
    <2> QED BY <1>2, <2>1, <2>2
  <1> HIDE DEF new
  <1>6. /\ user' \in UserRow
        /\ user'.version = IF new.version # copy.version THEN new.version ELSE user.version
        /\ user'.status = IF new.status # copy.status THEN new.status ELSE user.status
        /\ user'.reason = IF new.reason # copy.reason THEN new.reason ELSE user.reason
        /\ user'.rating = IF new.rating # copy.rating THEN new.rating ELSE user.rating
    BY <1>1, <1>2, <1>5, UserUpdate
  <1>7. /\ deskPast' \in [approved : Nat, handled : Nat]
        /\ h.op = "verify" => deskPast'.approved = copy.version
    <2>1. copy.version \in Nat
      BY <1>1 DEF UserRow
    <2> HIDE DEF copy, h
    <2> QED BY <1>1, <1>2, <2>1
  <1>8. DeskInv'
    <2>1. DeskTypeOK'
      BY <1>1, <1>2, <1>6, <1>7, FinishedFacts DEF DeskTypeOK, Stars
    <2> QED BY <1>2, <1>4, <1>5, <1>6, <2>1, FinishKeeps
  <1>9. Lone(t) => user.version = copy.version /\ user.status = copy.status /\ user.reason = copy.reason
    BY <1>2, <1>4 DEF Lone, DeskInv, LoneSees, SeesProfile
  <1>10. Lone(t) /\ h.op = "verify" =>
           user'.status = "verified" /\ user'.reason = "none" /\ deskPast'.approved = user'.version
    BY <1>5, <1>6, <1>7, <1>9
  <1>11. Lone(t) /\ h.op = "reject" => user'.status = "rejected" /\ user'.reason = h.arg
    BY <1>5, <1>6, <1>9
  <1> QED BY <1>8, <1>10, <1>11

LEMMA VisibleType ==
  ASSUME DeskInv, NEW t \in Clerks, clerk[t].pc # "idle", clerk[t].op = "review"
  PROVE  Visible(clerk[t]) \in Stars /\ Average(Visible(clerk[t])) \in Scale .. 5 * Scale
  <1>1. reviews \in Stars /\ clerk[t].reviewer \in Reviewers /\ clerk[t].stars \in Ratings
    BY DeskParts DEF DeskInv, ClerkOK
  <1>2. Visible(clerk[t]) \in Stars
    BY <1>1 DEF Visible, Stars
  <1> QED BY <1>2, AverageType

LEMMA InsertReviewStep ==
  ASSUME DeskInv, NEW t \in Clerks, InsertReview(t)
  PROVE  DeskInv'
  <1> DEFINE h == clerk[t]
             a == Average(Visible(h))
             n == [h EXCEPT !.pc = "averaged", !.average = a]
  <1>1. /\ clerk \in [Clerks -> Clerk] /\ h \in Clerk /\ user \in UserRow
        /\ incident \in IncidentRow /\ reviews \in Stars /\ deskPast \in [approved : Nat, handled : Nat]
    BY DeskParts DEF DeskInv
  <1>2. h.pc = "loaded" /\ h.op = "review" /\ UNCHANGED <<user, reviews, incident, deskPast>>
    BY DEF InsertReview
  <1>3. CASE Finished(t)
    <2>1. DeskTypeOK'
      BY <1>1, <1>2, <1>3, FinishedFacts DEF DeskTypeOK, Stars
    <2> QED BY <1>2, <1>3, <2>1, FinishKeeps
  <1>4. CASE clerk' = [clerk EXCEPT ![t].pc = "averaged", ![t].average = a]
    <2>1. a \in Nat /\ a \in Scale .. 5 * Scale
      BY <1>2, VisibleType DEF Scale
    <2>2. clerk' = [clerk EXCEPT ![t] = n]
      BY <1>1, <1>4
    <2>a. a = Average(Visible(h))
      OBVIOUS
    <2> HIDE DEF a, h
    <2>3. /\ n \in Clerk /\ n.pc = "averaged" /\ n.op = h.op /\ n.average = a /\ n.alone = h.alone
          /\ n.copy = h.copy /\ n.file = h.file /\ n.arg = h.arg
          /\ n.reviewer = h.reviewer /\ n.stars = h.stars
      BY <1>1, <2>1 DEF Clerk
    <2> HIDE DEF n
    <2>4. /\ clerk' \in [Clerks -> Clerk] /\ clerk'[t] = n
          /\ \A u \in Clerks \ {t} : clerk'[u] = clerk[u]
      BY <1>1, <2>2, <2>3
    <2>5. DeskTypeOK'
      BY <1>1, <1>2, <2>4 DEF DeskTypeOK, Stars
    <2>6. ClerkOK(h) /\ LoneSees(t)
      BY DEF DeskInv, h
    <2>7. ClerkOK(n)
      BY <1>2, <2>1, <2>3, <2>6 DEF ClerkOK
    <2>8. LoneSees(t)'
      <3> SUFFICES ASSUME h.alone PROVE LoneSees(t)'
        BY <2>3, <2>4 DEF LoneSees
      <3>1. SameTopic(t, "review") = {} /\ h.copy.rating = user.rating
        BY <1>2, <2>6 DEF LoneSees, SeesReviews, Topic, h
      <3>2. SameTopic(t, "review")' = {}
        BY <2>4, <3>1 DEF SameTopic
      <3>3. Visible(clerk[t])' = Visible(h)
        BY <1>2, <2>3, <2>4 DEF Visible
      <3>4. SeesReviews(clerk[t])'
        BY <1>2, <2>3, <2>4, <2>a, <3>1, <3>3 DEF SeesReviews
      <3>5. clerk'[t].op = "review"
        BY <1>2, <2>3, <2>4
      <3> QED BY <3>2, <3>4, <3>5 DEF LoneSees, Topic
    <2> QED BY <1>2, <2>3, <2>4, <2>5, <2>7, <2>8, EndKeeps DEF h
  <1> QED BY <1>3, <1>4 DEF InsertReview

LEMMA CommitReviewStep ==
  ASSUME DeskInv, NEW t \in Clerks, CommitReview(t)
  PROVE  /\ DeskInv'
         /\ Lone(t) => user'.rating = Average(reviews')
  <1> DEFINE h == clerk[t]
             copy == h.copy
             new == [copy EXCEPT !.rating = h.average]
  <1>1. /\ user \in UserRow /\ h \in Clerk /\ copy \in UserRow /\ clerk \in [Clerks -> Clerk]
        /\ incident \in IncidentRow /\ reviews \in Stars /\ deskPast \in [approved : Nat, handled : Nat]
    BY DeskParts DEF DeskInv, Clerk
  <1>2. /\ h.pc = "averaged" /\ reviews' = Visible(h)
        /\ user' = Update(user, copy, new)
        /\ UNCHANGED <<incident, deskPast>> /\ Finished(t)
    BY DEF CommitReview, Visible
  <1>3. h.op = "review" /\ Topic(h.op) = "review" /\ h.average \in Scale .. 5 * Scale
    BY <1>2 DEF DeskInv, ClerkOK, Topic
  <1>4. /\ new \in UserRow /\ new.version = copy.version /\ new.status = copy.status
        /\ new.reason = copy.reason /\ new.rating = h.average
    <2> HIDE DEF h, copy
    <2> QED BY <1>1, <1>3 DEF UserRow
  <1> HIDE DEF new
  <1>5. /\ user' \in UserRow
        /\ user'.version = user.version /\ user'.status = user.status /\ user'.reason = user.reason
        /\ user'.rating = IF new.rating # copy.rating THEN new.rating ELSE user.rating
    BY <1>1, <1>2, <1>4, UserUpdate
  <1>6. reviews' \in Stars
    BY <1>2, <1>3, VisibleType
  <1>7. DeskInv'
    <2>1. DeskTypeOK'
      BY <1>1, <1>2, <1>5, <1>6, FinishedFacts DEF DeskTypeOK, Stars
    <2> QED BY <1>2, <1>3, <1>5, <2>1, FinishKeeps
  <1>8. ASSUME Lone(t) PROVE user'.rating = Average(reviews')
    <2>1. copy.rating = user.rating /\ h.average = Average(Visible(h))
      BY <1>2, <1>3, <1>8 DEF Lone, DeskInv, LoneSees, SeesReviews
    <2> QED BY <1>2, <1>4, <1>5, <2>1
  <1> QED BY <1>7, <1>8

LEMMA CommitIncidentStep ==
  ASSUME DeskInv, NEW t \in Clerks, CommitIncident(t)
  PROVE  /\ DeskInv'
         /\ Lone(t) => /\ incident'.status = clerk[t].arg
                       /\ incident'.resolvedAt <=> incident'.status \in Closed
  <1> DEFINE h == clerk[t]
             new == Handled(h.file, h.arg)
             w == Update(incident, h.file, new)
             at == IF h.arg \in Closed THEN TRUE ELSE w.resolvedAt
  <1>1. /\ user \in UserRow /\ h \in Clerk /\ h.file \in IncidentRow /\ clerk \in [Clerks -> Clerk]
        /\ incident \in IncidentRow /\ reviews \in Stars /\ deskPast \in [approved : Nat, handled : Nat]
    BY DeskParts DEF DeskInv, Clerk
  <1>2. /\ h.pc = "loaded" /\ h.op = "incident"
        /\ incident' = [w EXCEPT !.resolvedAt = at]
        /\ UNCHANGED <<user, reviews, deskPast>> /\ Finished(t)
    BY DEF CommitIncident
  <1>3. h.arg \in Statuses /\ Topic(h.op) = "incident"
    BY <1>2 DEF DeskInv, ClerkOK, Topic
  <1>4. new \in IncidentRow /\ new.status = h.arg /\ (new.resolvedAt <=> h.arg \in Closed)
    <2> DEFINE s == h.arg
               c == s \in Closed
    <2>1. new = [status |-> s, resolvedAt |-> c] /\ c \in BOOLEAN
      BY DEF Handled
    <2>2. c <=> h.arg \in Closed
      OBVIOUS
    <2>3. s = h.arg /\ s \in {"open", "reviewing", "resolved", "dismissed"}
      BY <1>3 DEF Statuses
    <2> HIDE DEF s, c, new, h
    <2>4. new \in IncidentRow
      BY <2>1, <2>3 DEF IncidentRow
    <2>5. new.status = s /\ new.resolvedAt = c
      BY <2>1
    <2> QED BY <2>2, <2>3, <2>4, <2>5
  <1>5. Lone(t) => h.file = incident
    BY <1>2, <1>3 DEF Lone, DeskInv, LoneSees, SeesReport
  <1> HIDE DEF new
  <1>6. /\ w \in IncidentRow
        /\ w.status = IF new.status # h.file.status THEN new.status ELSE incident.status
        /\ w.resolvedAt = IF new.resolvedAt # h.file.resolvedAt THEN new.resolvedAt ELSE incident.resolvedAt
    BY <1>1, <1>4, IncidentUpdate
  <1> HIDE DEF w
  <1>7. at \in BOOLEAN /\ at = (h.arg \in Closed \/ w.resolvedAt)
    BY <1>6 DEF IncidentRow
  <1> HIDE DEF at
  <1>8. incident' \in IncidentRow /\ incident'.status = w.status /\ incident'.resolvedAt = at
    BY <1>2, <1>6, <1>7 DEF IncidentRow
  <1>9. DeskInv'
    <2>1. DeskTypeOK'
      BY <1>1, <1>2, <1>8, FinishedFacts DEF DeskTypeOK, Stars
    <2> QED BY <1>2, <1>3, <2>1, FinishKeeps
  <1>10. ASSUME Lone(t)
         PROVE  incident'.status = h.arg /\ (incident'.resolvedAt <=> incident'.status \in Closed)
    <2>1. incident'.status = h.arg
      BY <1>4, <1>5, <1>6, <1>8, <1>10
    <2>2. w.resolvedAt = new.resolvedAt
      BY <1>5, <1>6, <1>10
    <2> QED BY <1>4, <1>7, <1>8, <2>1, <2>2
  <1> QED BY <1>9, <1>10

-----------------------------------------------------------------------------
\* What LoneHandlerStands says of a step.
LoneStands ==
  \A t \in Clerks : Lone(t) =>
    /\ Commits(t, "verify") => /\ user'.status = "verified" /\ user'.reason = "none"
                               /\ deskPast'.approved = user'.version
    /\ Commits(t, "reject") => user'.status = "rejected" /\ user'.reason = clerk[t].arg
    /\ Commits(t, "submit") => user'.status = "pending" /\ user'.reason = "none"
    /\ Commits(t, "review") /\ reviews' # reviews => user'.rating = Average(reviews')
    /\ Commits(t, "incident") =>
         /\ incident'.status = clerk[t].arg
         /\ incident'.resolvedAt <=> incident'.status \in Closed

LEMMA DeskInductive ==
  ASSUME DeskInv, DeskNext
  PROVE  DeskInv'
  <1>1. PICK t \in Clerks :
          \/ BeginSubmit(t) \/ CommitSubmit(t)
          \/ BeginVerify(t) \/ BeginReject(t) \/ CommitDecision(t)
          \/ BeginReview(t) \/ InsertReview(t) \/ CommitReview(t)
          \/ BeginIncident(t) \/ CommitIncident(t)
    BY DEF DeskNext
  <1> QED BY <1>1, BeginStep, CommitSubmitStep, CommitDecisionStep, InsertReviewStep,
             CommitReviewStep, CommitIncidentStep DEF Begins

\* Only the thread that takes the step ends its handler.
LEMMA LoneStep ==
  ASSUME DeskInv, DeskNext
  PROVE  LoneStands
  <1> SUFFICES ASSUME NEW u \in Clerks, clerk[u].pc # "idle", clerk'[u].pc = "idle", Lone(u)
               PROVE  /\ clerk[u].op = "verify" => /\ user'.status = "verified" /\ user'.reason = "none"
                                                   /\ deskPast'.approved = user'.version
                      /\ clerk[u].op = "reject" => user'.status = "rejected" /\ user'.reason = clerk[u].arg
                      /\ clerk[u].op = "submit" => user'.status = "pending" /\ user'.reason = "none"
                      /\ clerk[u].op = "review" /\ reviews' # reviews => user'.rating = Average(reviews')
                      /\ clerk[u].op = "incident" =>
                           /\ incident'.status = clerk[u].arg
                           /\ incident'.resolvedAt <=> incident'.status \in Closed
    BY DEF LoneStands, Commits
  <1>1. PICK t \in Clerks :
          \/ BeginSubmit(t) \/ CommitSubmit(t)
          \/ BeginVerify(t) \/ BeginReject(t) \/ CommitDecision(t)
          \/ BeginReview(t) \/ InsertReview(t) \/ CommitReview(t)
          \/ BeginIncident(t) \/ CommitIncident(t)
    BY DEF DeskNext
  <1>2. clerk \in [Clerks -> Clerk]
    BY DeskParts DEF DeskInv
  <1>3. ASSUME Begins(t) PROVE FALSE
    BY <1>3, BeginStep
  <1>4. CASE CommitSubmit(t)
    <2>1. u = t /\ clerk[t].op = "submit"
      BY <1>4, FinishedFacts DEF CommitSubmit
    <2> QED BY <1>4, <2>1, CommitSubmitStep
  <1>5. CASE CommitDecision(t)
    <2>1. u = t /\ clerk[t].op \in {"verify", "reject"}
      BY <1>5, FinishedFacts DEF CommitDecision
    <2> QED BY <1>5, <2>1, CommitDecisionStep
  <1>6. CASE InsertReview(t)
    <2>1. u = t
      BY <1>2, <1>6, FinishedFacts DEF InsertReview
    <2>2. clerk[t].op = "review" /\ reviews' = reviews
      BY <1>6 DEF InsertReview
    <2> QED BY <2>1, <2>2
  <1>7. CASE CommitReview(t)
    <2>1. u = t
      BY <1>7, FinishedFacts DEF CommitReview
    <2>2. clerk[t].op = "review"
      BY <1>7 DEF CommitReview, DeskInv, ClerkOK
    <2> QED BY <1>7, <2>1, <2>2, CommitReviewStep
  <1>8. CASE CommitIncident(t)
    <2>1. u = t /\ clerk[t].op = "incident"
      BY <1>8, FinishedFacts DEF CommitIncident
    <2> QED BY <1>8, <2>1, CommitIncidentStep
  <1> QED BY <1>1, <1>3, <1>4, <1>5, <1>6, <1>7, <1>8 DEF Begins

LEMMA DeskBegins == DeskInit => DeskInv
  <1> SUFFICES ASSUME DeskInit PROVE DeskInv
    OBVIOUS
  <1>1. DeskTypeOK
    BY IdleClerkType DEF DeskInit, DeskTypeOK, Stars
  <1> QED BY <1>1, IdleClerkType DEF DeskInit, DeskInv, ClerkOK, LoneSees

LEMMA DeskInvariant == DeskSpec => []DeskInv
  <1>1. DeskInv /\ [DeskNext]_deskVars => DeskInv'
    <2> SUFFICES ASSUME DeskInv, UNCHANGED deskVars PROVE DeskInv'
      BY DeskInductive
    <2>1. UNCHANGED <<user, reviews, incident, clerk, deskPast>>
      BY DEF deskVars
    <2> QED BY <2>1 DEF DeskInv, DeskTypeOK, ClerkOK, LoneSees, SameTopic, SeesProfile, SeesReviews,
                        SeesReport, Visible
  <1> QED BY <1>1, DeskBegins, PTL DEF DeskSpec

\* The types of the user's row, the reviews, the report and what handlers loaded; an
\* average of ratings is one (UserService, SupportService, ReviewService, IncidentService).
THEOREM DeskTypesHold == DeskSpec => []DeskTypeOK
  <1>1. DeskInv => DeskTypeOK
    BY DEF DeskInv
  <1> QED BY <1>1, DeskInvariant, PTL

\* Handlers of different topics may mix their columns as they like: one that was alone
\* with its own leaves the decision, the average or the report it computed.
THEOREM LoneHandlersStand == DeskSpec => LoneHandlerStands
  <1>1. DeskInv /\ [DeskNext]_deskVars => [LoneStands]_deskVars
    BY LoneStep
  <1> QED BY <1>1, DeskInvariant, PTL DEF DeskSpec, LoneHandlerStands, LoneStands

-----------------------------------------------------------------------------
(***************************************************************************)
(* Trip sharing                                                            *)
(***************************************************************************)

\* Tokens are numbered as they are stored, so that a new one was never revoked;
\* a booking has a token when a handler is about to revoke it.
TokensAreNew ==
  /\ booking.token <= sharingPast.tokens
  /\ \A k \in sharingPast.ended : k <= sharingPast.tokens
  /\ booking.token \in sharingPast.ended => booking.revoked
  /\ \A t \in Sharers : sharer[t].pc = "revoke" => booking.token # NoToken

\* Nobody writes the link under a handler that is alone with it.
LoneLinkerSeesRow ==
  \A t \in Sharers :
    sharer[t].pc \in Linking /\ sharer[t].alone
      => OtherLinking(t) = {} /\ sharer[t].revoked = booking.revoked

Locating == {t \in Sharers : sharer[t].pc = "locate"}

\* A location counted as late used up a thread that was storing one when the ride closed.
LateIsPaid ==
  IF ride.status = "open" THEN sharingPast.late = 0
  ELSE sharingPast.late + Cardinality(Locating) <= Cardinality(Sharers)

SharingInv == SharingTypeOK /\ TokensAreNew /\ LoneLinkerSeesRow /\ LateIsPaid

SharerState == [pc : {"idle", "share", "revoke", "locate", "read"},
                revoked : BOOLEAN, alone : BOOLEAN, at : Nat]

-----------------------------------------------------------------------------
(* What a step does to one thread *)

\* A handler that begins to write the link: its own state, and the flag of others.
LEMMA LinkBegun ==
  ASSUME SharingTypeOK, NEW t \in Sharers, NEW pc \in Linking, BeginLinking(t, pc)
  PROVE  /\ sharer' \in [Sharers -> SharerState]
         /\ sharer'[t].pc = pc
         /\ sharer'[t].revoked = booking.revoked
         /\ sharer'[t].alone => OtherLinking(t) = {}
         /\ \A u \in Sharers \ {t} :
              /\ sharer'[u].pc = sharer[u].pc
              /\ sharer'[u].revoked = sharer[u].revoked
              /\ sharer[u].pc \in Linking => ~ sharer'[u].alone
  <1> DEFINE G(u) == IF u = t THEN [IdleSharer EXCEPT !.pc = pc, !.revoked = booking.revoked,
                                                      !.alone = OtherLinking(t) = {}]
                     ELSE IF u \in OtherLinking(t) THEN [sharer[u] EXCEPT !.alone = FALSE]
                     ELSE sharer[u]
  <1>1. booking.revoked \in BOOLEAN /\ sharer \in [Sharers -> SharerState]
    BY DEF SharingTypeOK, SharerState
  <1>2. sharer' = [u \in Sharers |-> G(u)]
    BY DEF BeginLinking
  <1>3. (OtherLinking(t) = {}) \in BOOLEAN /\ pc \in {"share", "revoke"}
    BY DEF Linking
  <1>4. G(t) = [pc |-> pc, revoked |-> booking.revoked,
                alone |-> (OtherLinking(t) = {}), at |-> 0]
    BY DEF IdleSharer
  <1>5. G(t) \in SharerState
    <2>1. \A x, y \in BOOLEAN : [pc |-> pc, revoked |-> x, alone |-> y, at |-> 0] \in SharerState
      BY <1>3 DEF SharerState
    <2> HIDE DEF G
    <2> QED BY <1>1, <1>3, <1>4, <2>1
  <1>6. \A u \in Sharers \ {t} :
          /\ G(u).pc = sharer[u].pc
          /\ G(u).revoked = sharer[u].revoked
          /\ sharer[u].pc \in Linking => ~ G(u).alone
          /\ G(u) \in SharerState
    BY <1>1 DEF SharerState, OtherLinking
  <1> HIDE DEF G
  <1>7. \A u \in Sharers : sharer'[u] = G(u)
    BY <1>2
  <1>8. sharer' \in [Sharers -> SharerState]
    BY <1>2, <1>5, <1>6
  <1>9. G(t).pc = pc /\ G(t).revoked = booking.revoked /\ (G(t).alone => OtherLinking(t) = {})
    <2> DEFINE lone == OtherLinking(t) = {}
    <2>1. G(t) = [pc |-> pc, revoked |-> booking.revoked, alone |-> lone, at |-> 0]
      BY <1>4
    <2>2. lone => OtherLinking(t) = {}
      OBVIOUS
    <2> HIDE DEF lone
    <2>3. G(t).pc = pc /\ G(t).revoked = booking.revoked /\ G(t).alone = lone
      BY <2>1
    <2> QED BY <2>2, <2>3
  <1> QED BY <1>6, <1>7, <1>8, <1>9

\* Other handlers change the state of one thread, to one that has a type.
LEMMA OneSharer ==
  ASSUME SharingTypeOK, NEW t \in Sharers, NEW h \in SharerState,
         sharer' = [sharer EXCEPT ![t] = h]
  PROVE  /\ sharer' \in [Sharers -> SharerState]
         /\ sharer'[t] = h
         /\ \A u \in Sharers \ {t} : sharer'[u] = sharer[u]
  BY DEF SharingTypeOK, SharerState

LEMMA IdleSharerState == IdleSharer \in SharerState
  BY DEF IdleSharer, SharerState

\* A thread that has answered is idle.
LEMMA AnsweredThread ==
  ASSUME SharingTypeOK, NEW t \in Sharers, Answered(t)
  PROVE  /\ sharer' \in [Sharers -> SharerState]
         /\ sharer'[t] = IdleSharer /\ sharer'[t].pc = "idle"
         /\ \A u \in Sharers \ {t} : sharer'[u] = sharer[u]
  <1>1. IdleSharer.pc = "idle"
    BY DEF IdleSharer
  <1> QED BY <1>1, OneSharer, IdleSharerState DEF Answered

\* A thread that begins to read, or to store a location.
LEMMA ReadBegun ==
  ASSUME SharingTypeOK, NEW t \in Sharers, BeginRead(t)
  PROVE  /\ sharer' \in [Sharers -> SharerState]
         /\ sharer'[t].pc = "read"
         /\ \A u \in Sharers \ {t} : sharer'[u] = sharer[u]
  <1> DEFINE h == [sharer[t] EXCEPT !.pc = "read"]
  <1>1. h \in SharerState /\ h.pc = "read"
    BY DEF SharingTypeOK, SharerState
  <1>2. sharer' = [sharer EXCEPT ![t] = h]
    BY DEF BeginRead
  <1> HIDE DEF h
  <1> QED BY <1>1, <1>2, OneSharer

LEMMA LocateBegun ==
  ASSUME SharingTypeOK, NEW t \in Sharers, BeginLocate(t)
  PROVE  /\ sharer' \in [Sharers -> SharerState]
         /\ sharer'[t].pc = "locate"
         /\ \A u \in Sharers \ {t} : sharer'[u] = sharer[u]
  <1> DEFINE h == [IdleSharer EXCEPT !.pc = "locate", !.at = now]
  <1>1. h \in SharerState /\ h.pc = "locate"
    BY DEF SharingTypeOK, SharerState, IdleSharer
  <1>2. sharer' = [sharer EXCEPT ![t] = h]
    BY DEF BeginLocate
  <1> HIDE DEF h
  <1> QED BY <1>1, <1>2, OneSharer

-----------------------------------------------------------------------------
(* The invariants, action by action *)

LEMMA SharingTypeStep ==
  ASSUME SharingTypeOK, TokensAreNew, [SharingNext]_sharingVars
  PROVE  SharingTypeOK'
  <1> USE DEF SharingTypeOK
  <1>1. ASSUME UNCHANGED sharingVars PROVE SharingTypeOK'
    BY <1>1 DEF sharingVars
  <1>2. ASSUME NEW t \in Sharers, BeginShare(t) \/ BeginRevoke(t) PROVE SharingTypeOK'
    <2>1. sharer' \in [Sharers -> SharerState]
      BY <1>2, LinkBegun DEF BeginShare, BeginRevoke, Linking
    <2>2. UNCHANGED <<booking, ride, locations, now, sharingPast>>
      BY <1>2 DEF BeginShare, BeginRevoke, BeginLinking
    <2> QED BY <2>1, <2>2 DEF SharerState
  <1>3. ASSUME NEW t \in Sharers, CommitShare(t) PROVE SharingTypeOK'
    <2>1. sharer' \in [Sharers -> SharerState]
      BY <1>3, AnsweredThread DEF CommitShare
    <2>2. NextToken \in Nat /\ NextToken # NoToken /\ StillRevoked(sharer[t]) \in BOOLEAN
      BY DEF NextToken, NoToken, StillRevoked
    <2>3. booking' = [booking EXCEPT !.token = NextToken, !.revoked = StillRevoked(sharer[t])]
      BY <1>3 DEF CommitShare
    <2>4. /\ booking' \in [status : {"pending", "accepted", "closed", "completed"},
                           token : Nat, revoked : BOOLEAN]
          /\ booking'.token # NoToken
      BY <2>2, <2>3
    <2>5. /\ sharingPast' \in [tokens : Nat, ended : SUBSET Nat, located : Nat, late : Nat, shown : Location]
          /\ UNCHANGED <<ride, locations, now>>
      BY <1>3 DEF CommitShare
    <2> QED BY <2>1, <2>4, <2>5 DEF SharerState
  <1>4. ASSUME NEW t \in Sharers, CommitRevoke(t) PROVE SharingTypeOK'
    <2>1. sharer' \in [Sharers -> SharerState]
      BY <1>4, AnsweredThread DEF CommitRevoke
    <2>2. /\ booking' \in [status : {"pending", "accepted", "closed", "completed"},
                           token : Nat, revoked : BOOLEAN]
          /\ booking'.token # NoToken
      BY <1>4 DEF CommitRevoke, TokensAreNew
    <2>3. /\ sharingPast' \in [tokens : Nat, ended : SUBSET Nat, located : Nat, late : Nat, shown : Location]
          /\ UNCHANGED <<ride, locations, now>>
      BY <1>4 DEF CommitRevoke
    <2> QED BY <2>1, <2>2, <2>3 DEF SharerState
  <1>5. ASSUME NEW t \in Sharers, BeginRead(t) PROVE SharingTypeOK'
    <2>1. sharer' \in [Sharers -> SharerState]
      BY <1>5, ReadBegun
    <2> QED BY <1>5, <2>1 DEF BeginRead, SharerState
  <1>6. ASSUME NEW t \in Sharers, AnswerRead(t) PROVE SharingTypeOK'
    <2>1. sharer' \in [Sharers -> SharerState]
      BY <1>6, AnsweredThread DEF AnswerRead
    <2>2. Latest \subseteq Location
      BY DEF Latest
    <2>3. sharingPast' \in [tokens : Nat, ended : SUBSET Nat, located : Nat, late : Nat, shown : Location]
      BY <1>6, <2>2 DEF AnswerRead
    <2> QED BY <1>6, <2>1, <2>3 DEF AnswerRead, SharerState
  <1>7. ASSUME NEW t \in Sharers, BeginLocate(t) PROVE SharingTypeOK'
    <2>1. sharer' \in [Sharers -> SharerState]
      BY <1>7, LocateBegun
    <2> QED BY <1>7, <2>1 DEF BeginLocate, SharerState
  <1>8. ASSUME NEW t \in Sharers, CommitLocation(t) PROVE SharingTypeOK'
    <2>1. sharer' \in [Sharers -> SharerState]
      BY <1>8, AnsweredThread DEF CommitLocation
    <2>2. sharer[t].at \in Nat /\ sharingPast.located + 1 \in Nat
      OBVIOUS
    <2>3. locations' \subseteq Location
      BY <1>8, <2>2 DEF CommitLocation, Location
    <2>4. sharingPast' \in [tokens : Nat, ended : SUBSET Nat, located : Nat, late : Nat, shown : Location]
      <3>1. (IF ride.status = "open" THEN sharingPast.late ELSE sharingPast.late + 1) \in Nat
        OBVIOUS
      <3> QED BY <1>8, <2>2, <3>1 DEF CommitLocation
    <2> QED BY <1>8, <2>1, <2>3, <2>4 DEF CommitLocation, SharerState
  <1>9. ASSUME CleanUp PROVE SharingTypeOK'
    BY <1>9 DEF CleanUp
  <1>10. ASSUME BookingMoves PROVE SharingTypeOK'
    BY <1>10 DEF BookingMoves
  <1>11. ASSUME RideCloses PROVE SharingTypeOK'
    BY <1>11 DEF RideCloses
  <1>12. ASSUME DepartureMoves PROVE SharingTypeOK'
    BY <1>12 DEF DepartureMoves
  <1>13. ASSUME Tick PROVE SharingTypeOK'
    BY <1>13 DEF Tick
  <1> QED BY <1>1, <1>2, <1>3, <1>4, <1>5, <1>6, <1>7, <1>8, <1>9, <1>10, <1>11, <1>12, <1>13 DEF SharingNext

\* Handlers that leave the token, its flag and the threads that revoke alone.
LEMMA TokensKept ==
  ASSUME TokensAreNew,
         booking'.token = booking.token, booking'.revoked = booking.revoked,
         sharingPast'.tokens = sharingPast.tokens, sharingPast'.ended = sharingPast.ended,
         \A t \in Sharers : sharer'[t].pc = "revoke" => sharer[t].pc = "revoke"
  PROVE  TokensAreNew'
  BY DEF TokensAreNew

LEMMA TokensStep ==
  ASSUME SharingTypeOK, TokensAreNew, [SharingNext]_sharingVars
  PROVE  TokensAreNew'
  <1> USE DEF SharingTypeOK
  <1>1. ASSUME UNCHANGED sharingVars PROVE TokensAreNew'
    BY <1>1, TokensKept DEF sharingVars
  <1>2. ASSUME NEW t \in Sharers, BeginShare(t) PROVE TokensAreNew'
    <2>1. \A u \in Sharers : sharer'[u].pc = "revoke" => sharer[u].pc = "revoke"
      <3>1. BeginLinking(t, "share") /\ "share" \in Linking
        BY <1>2 DEF BeginShare, Linking
      <3>2. sharer'[t].pc = "share" /\ \A u \in Sharers \ {t} : sharer'[u].pc = sharer[u].pc
        BY <3>1, LinkBegun
      <3> QED BY <3>2
    <2>2. UNCHANGED <<booking, sharingPast>>
      BY <1>2 DEF BeginShare, BeginLinking
    <2> QED BY <2>1, <2>2, TokensKept
  <1>3. ASSUME NEW t \in Sharers, BeginRevoke(t) PROVE TokensAreNew'
    BY <1>3 DEF BeginRevoke, BeginLinking, LinkToRevoke, TokensAreNew
  <1>4. ASSUME NEW t \in Sharers, CommitShare(t) PROVE TokensAreNew'
    <2>1. \A u \in Sharers : sharer'[u].pc = "revoke" => sharer[u].pc = "revoke"
      BY <1>4, AnsweredThread DEF CommitShare
    <2>2. booking'.token = sharingPast.tokens + 1 /\ sharingPast'.tokens = sharingPast.tokens + 1
      BY <1>4 DEF CommitShare, NextToken
    <2>3. sharingPast'.ended = sharingPast.ended
      BY <1>4 DEF CommitShare
    <2>4. \A k \in sharingPast.ended : k \in Nat /\ k <= sharingPast.tokens
      BY DEF TokensAreNew
    <2>5. sharingPast.tokens \in Nat
      OBVIOUS
    <2> QED BY <2>1, <2>2, <2>3, <2>4, <2>5 DEF TokensAreNew, NoToken
  <1>5. ASSUME NEW t \in Sharers, CommitRevoke(t) PROVE TokensAreNew'
    <2>1. \A u \in Sharers : sharer'[u].pc = "revoke" => sharer[u].pc = "revoke"
      BY <1>5, AnsweredThread DEF CommitRevoke
    <2>2. booking'.revoked /\ booking'.token = booking.token
      BY <1>5 DEF CommitRevoke
    <2>3. sharingPast'.tokens = sharingPast.tokens
          /\ sharingPast'.ended = sharingPast.ended \cup {booking.token}
      BY <1>5 DEF CommitRevoke
    <2> QED BY <2>1, <2>2, <2>3 DEF TokensAreNew
  <1>6. ASSUME NEW t \in Sharers, BeginRead(t) PROVE TokensAreNew'
    <2>1. \A u \in Sharers : sharer'[u].pc = "revoke" => sharer[u].pc = "revoke"
      BY <1>6, ReadBegun
    <2> QED BY <1>6, <2>1, TokensKept DEF BeginRead
  <1>7. ASSUME NEW t \in Sharers, BeginLocate(t) PROVE TokensAreNew'
    <2>1. \A u \in Sharers : sharer'[u].pc = "revoke" => sharer[u].pc = "revoke"
      BY <1>7, LocateBegun
    <2> QED BY <1>7, <2>1, TokensKept DEF BeginLocate
  <1>8. ASSUME NEW t \in Sharers, AnswerRead(t) \/ CommitLocation(t) PROVE TokensAreNew'
    <2>1. \A u \in Sharers : sharer'[u].pc = "revoke" => sharer[u].pc = "revoke"
      BY <1>8, AnsweredThread DEF AnswerRead, CommitLocation
    <2>2. UNCHANGED booking /\ sharingPast'.tokens = sharingPast.tokens /\ sharingPast'.ended = sharingPast.ended
      BY <1>8 DEF AnswerRead, CommitLocation
    <2> QED BY <2>1, <2>2, TokensKept
  <1>9. ASSUME CleanUp \/ DepartureMoves \/ Tick PROVE TokensAreNew'
    BY <1>9, TokensKept DEF CleanUp, DepartureMoves, Tick
  <1>10. ASSUME BookingMoves PROVE TokensAreNew'
    BY <1>10, TokensKept DEF BookingMoves
  <1>11. ASSUME RideCloses PROVE TokensAreNew'
    BY <1>11, TokensKept DEF RideCloses
  <1> QED BY <1>1, <1>2, <1>3, <1>4, <1>5, <1>6, <1>7, <1>8, <1>9, <1>10, <1>11 DEF SharingNext

\* A step that changes no handler of the link and not the flag it looked at.
LEMMA LoneLinkKept ==
  ASSUME LoneLinkerSeesRow, booking'.revoked = booking.revoked,
         \A u \in Sharers : sharer'[u] = sharer[u]
                            \/ (sharer[u].pc \notin Linking /\ sharer'[u].pc \notin Linking)
  PROVE  LoneLinkerSeesRow'
  <1> SUFFICES ASSUME NEW t \in Sharers, sharer'[t].pc \in Linking, sharer'[t].alone
               PROVE  OtherLinking(t)' = {} /\ sharer'[t].revoked = booking'.revoked
    BY DEF LoneLinkerSeesRow
  <1>1. sharer'[t] = sharer[t]
    OBVIOUS
  <1>2. OtherLinking(t) = {} /\ sharer[t].revoked = booking.revoked
    BY <1>1 DEF LoneLinkerSeesRow
  <1> QED BY <1>1, <1>2 DEF OtherLinking

LEMMA LoneLinkStep ==
  ASSUME SharingTypeOK, LoneLinkerSeesRow, [SharingNext]_sharingVars
  PROVE  LoneLinkerSeesRow'
  <1>1. ASSUME UNCHANGED sharingVars PROVE LoneLinkerSeesRow'
    BY <1>1, LoneLinkKept DEF sharingVars
  <1>2. ASSUME NEW t \in Sharers, BeginShare(t) \/ BeginRevoke(t) PROVE LoneLinkerSeesRow'
    <2>1. PICK pc \in Linking : BeginLinking(t, pc)
      BY <1>2 DEF BeginShare, BeginRevoke, Linking
    <2>2. /\ sharer'[t].revoked = booking.revoked
          /\ sharer'[t].alone => OtherLinking(t) = {}
          /\ \A u \in Sharers \ {t} : /\ sharer'[u].pc = sharer[u].pc
                                      /\ sharer[u].pc \in Linking => ~ sharer'[u].alone
      BY <2>1, LinkBegun
    <2>3. booking' = booking
      BY <2>1 DEF BeginLinking
    <2>4. OtherLinking(t)' = OtherLinking(t)
      BY <2>2 DEF OtherLinking
    <2> QED BY <2>2, <2>3, <2>4 DEF LoneLinkerSeesRow
  <1>3. ASSUME NEW t \in Sharers, CommitShare(t) \/ CommitRevoke(t) PROVE LoneLinkerSeesRow'
    <2>1. sharer'[t].pc = "idle" /\ \A u \in Sharers \ {t} : sharer'[u] = sharer[u]
      BY <1>3, AnsweredThread DEF CommitShare, CommitRevoke
    <2>2. sharer[t].pc \in Linking
      BY <1>3 DEF CommitShare, CommitRevoke, Linking
    <2>3. ASSUME NEW u \in Sharers, sharer'[u].pc \in Linking, sharer'[u].alone PROVE FALSE
      <3>1. u # t /\ sharer'[u] = sharer[u]
        BY <2>1, <2>3 DEF Linking
      <3>2. t \in OtherLinking(u)
        BY <2>2, <3>1 DEF OtherLinking
      <3> QED BY <2>3, <3>1, <3>2 DEF LoneLinkerSeesRow
    <2> QED BY <2>3 DEF LoneLinkerSeesRow
  <1>4. ASSUME NEW t \in Sharers, BeginRead(t) \/ BeginLocate(t) PROVE LoneLinkerSeesRow'
    <2>1. sharer'[t].pc \in {"read", "locate"} /\ \A u \in Sharers \ {t} : sharer'[u] = sharer[u]
      BY <1>4, ReadBegun, LocateBegun
    <2>2. sharer[t].pc = "idle" /\ booking' = booking
      BY <1>4 DEF BeginRead, BeginLocate
    <2> QED BY <2>1, <2>2, LoneLinkKept DEF Linking
  <1>5. ASSUME NEW t \in Sharers, AnswerRead(t) \/ CommitLocation(t) PROVE LoneLinkerSeesRow'
    <2>1. sharer'[t].pc = "idle" /\ \A u \in Sharers \ {t} : sharer'[u] = sharer[u]
      BY <1>5, AnsweredThread DEF AnswerRead, CommitLocation
    <2>2. sharer[t].pc \in {"read", "locate"} /\ booking' = booking
      BY <1>5 DEF AnswerRead, CommitLocation
    <2> QED BY <2>1, <2>2, LoneLinkKept DEF Linking
  <1>6. ASSUME CleanUp \/ DepartureMoves \/ Tick PROVE LoneLinkerSeesRow'
    BY <1>6, LoneLinkKept DEF CleanUp, DepartureMoves, Tick
  <1>7. ASSUME BookingMoves \/ RideCloses PROVE LoneLinkerSeesRow'
    <2>1. booking'.revoked = booking.revoked /\ sharer' = sharer
      BY <1>7 DEF BookingMoves, RideCloses, SharingTypeOK
    <2> QED BY <2>1, LoneLinkKept
  <1> QED BY <1>1, <1>2, <1>3, <1>4, <1>5, <1>6, <1>7 DEF SharingNext

\* There are finitely many threads, so that they can be counted.
LEMMA LocatingFinite ==
  /\ IsFiniteSet(Sharers) /\ Cardinality(Sharers) \in Nat
  /\ IsFiniteSet(Locating) /\ Cardinality(Locating) \in Nat
  /\ Cardinality(Locating) <= Cardinality(Sharers)
  <1>1. IsFiniteSet(Sharers)
    BY SharingAssumption
  <1>2. Locating \subseteq Sharers
    BY DEF Locating
  <1> QED BY <1>1, <1>2, FS_Subset, FS_CardinalityType

LEMMA LateStep ==
  ASSUME SharingTypeOK, LateIsPaid, [SharingNext]_sharingVars
  PROVE  LateIsPaid'
  <1>a. ASSUME ride'.status = ride.status, sharingPast'.late = sharingPast.late,
               ride.status = "open" \/ Locating' = Locating
        PROVE  LateIsPaid'
    BY <1>a DEF LateIsPaid
  <1>1. ASSUME UNCHANGED sharingVars PROVE LateIsPaid'
    <2>1. Locating' = Locating
      BY <1>1 DEF Locating, sharingVars
    <2> QED BY <1>1, <1>a, <2>1 DEF sharingVars
  <1>2. ASSUME NEW t \in Sharers, BeginShare(t) \/ BeginRevoke(t) PROVE LateIsPaid'
    <2>1. PICK pc \in Linking : BeginLinking(t, pc)
      BY <1>2 DEF BeginShare, BeginRevoke, Linking
    <2>2. sharer'[t].pc = pc /\ \A u \in Sharers \ {t} : sharer'[u].pc = sharer[u].pc
      BY <2>1, LinkBegun
    <2>3. UNCHANGED <<ride, sharingPast>> /\ sharer[t].pc = "idle"
      BY <2>1 DEF BeginLinking
    <2>4. Locating' = Locating
      BY <2>2, <2>3 DEF Locating, Linking
    <2> QED BY <1>a, <2>3, <2>4
  <1>3. ASSUME NEW t \in Sharers, CommitShare(t) \/ CommitRevoke(t) \/ AnswerRead(t) PROVE LateIsPaid'
    <2>1. sharer'[t].pc = "idle" /\ \A u \in Sharers \ {t} : sharer'[u] = sharer[u]
      BY <1>3, AnsweredThread DEF CommitShare, CommitRevoke, AnswerRead
    <2>2. sharer[t].pc # "locate" /\ ride' = ride
      BY <1>3 DEF CommitShare, CommitRevoke, AnswerRead
    <2>3. sharingPast'.late = sharingPast.late
      BY <1>3 DEF CommitShare, CommitRevoke, AnswerRead, SharingTypeOK
    <2>4. Locating' = Locating
      BY <2>1, <2>2 DEF Locating
    <2> QED BY <1>a, <2>2, <2>3, <2>4
  <1>4. ASSUME NEW t \in Sharers, BeginRead(t) PROVE LateIsPaid'
    <2>1. sharer'[t].pc = "read" /\ \A u \in Sharers \ {t} : sharer'[u] = sharer[u]
      BY <1>4, ReadBegun
    <2>2. sharer[t].pc = "idle" /\ UNCHANGED <<ride, sharingPast>>
      BY <1>4 DEF BeginRead
    <2>3. Locating' = Locating
      BY <2>1, <2>2 DEF Locating
    <2> QED BY <1>a, <2>2, <2>3
  <1>5. ASSUME NEW t \in Sharers, BeginLocate(t) PROVE LateIsPaid'
    BY <1>5, <1>a DEF BeginLocate, RideTakesLocations
  <1>6. ASSUME NEW t \in Sharers, CommitLocation(t) PROVE LateIsPaid'
    <2>1. sharer'[t].pc = "idle" /\ \A u \in Sharers \ {t} : sharer'[u] = sharer[u]
      BY <1>6, AnsweredThread DEF CommitLocation
    <2>2. t \in Locating /\ Locating' = Locating \ {t}
      BY <1>6, <2>1 DEF CommitLocation, Locating
    <2>3. /\ ride' = ride /\ sharingPast.late \in Nat
          /\ sharingPast'.late = IF ride.status = "open" THEN sharingPast.late ELSE sharingPast.late + 1
      BY <1>6 DEF CommitLocation, SharingTypeOK
    <2>4. Cardinality(Locating') = Cardinality(Locating) - 1
      BY <2>2, LocatingFinite, FS_RemoveElement
    <2> QED BY <2>3, <2>4, LocatingFinite DEF LateIsPaid
  <1>7. ASSUME CleanUp \/ BookingMoves \/ Tick PROVE LateIsPaid'
    <2>1. UNCHANGED <<ride, sharer, sharingPast>>
      BY <1>7 DEF CleanUp, BookingMoves, Tick
    <2>2. Locating' = Locating
      BY <2>1 DEF Locating
    <2> QED BY <1>a, <2>1, <2>2
  <1>8. ASSUME DepartureMoves PROVE LateIsPaid'
    BY <1>8, <1>a DEF DepartureMoves, SharingTypeOK
  <1>9. ASSUME RideCloses PROVE LateIsPaid'
    <2>1. ride'.status = "closed" /\ sharer' = sharer /\ sharingPast' = sharingPast /\ sharingPast.late = 0
      BY <1>9 DEF RideCloses, SharingTypeOK, LateIsPaid
    <2>2. Locating' = Locating
      BY <2>1 DEF Locating
    <2> QED BY <2>1, <2>2, LocatingFinite DEF LateIsPaid
  <1> QED BY <1>1, <1>2, <1>3, <1>4, <1>5, <1>6, <1>7, <1>8, <1>9 DEF SharingNext

-----------------------------------------------------------------------------
(* The theorems *)

LEMMA SharingBegins == SharingInit => SharingInv
  <1> SUFFICES ASSUME SharingInit PROVE SharingInv
    OBVIOUS
  <1> USE SharingAssumption DEF SharingInit, NoToken, IdleSharer
  <1>1. SharingTypeOK
    BY DEF SharingTypeOK, NoLocation, Location
  <1>2. TokensAreNew
    BY DEF TokensAreNew
  <1>3. LoneLinkerSeesRow
    BY DEF LoneLinkerSeesRow, Linking
  <1>4. LateIsPaid
    BY DEF LateIsPaid
  <1> QED BY <1>1, <1>2, <1>3, <1>4 DEF SharingInv

\* The types, the numbering of tokens, the lone writer and the count of late
\* locations hold in every reachable state, whatever handlers overlap.
THEOREM SharingInvariant == SharingSpec => []SharingInv
  <1>1. SharingInv /\ [SharingNext]_sharingVars => SharingInv'
    BY SharingTypeStep, TokensStep, LoneLinkStep, LateStep DEF SharingInv
  <1> QED BY SharingBegins, <1>1, PTL DEF SharingSpec

\* A revoked link shows nothing, whatever links are made and revoked later or at
\* the same time (create_share_token, revoke_share_token).
THEOREM RevokedLinksAreDead == SharingSpec => []RevokedTokenStaysDead
  <1>1. SharingInv => RevokedTokenStaysDead
    BY DEF SharingInv, TokensAreNew, RevokedTokenStaysDead, LinkResolves
  <1> QED BY <1>1, SharingInvariant, PTL

\* Only its own commit ends a handler that makes a link.
LEMMA OnlyCommitEndsShare ==
  ASSUME SharingTypeOK, [SharingNext]_sharingVars, NEW t \in Sharers,
         sharer[t].pc = "share", sharer'[t].pc = "idle"
  PROVE  CommitShare(t)
  <1>1. CASE UNCHANGED sharingVars
    BY <1>1 DEF sharingVars
  <1>2. ASSUME NEW u \in Sharers, BeginShare(u) \/ BeginRevoke(u) PROVE FALSE
    <2>1. PICK pc \in Linking : BeginLinking(u, pc)
      BY <1>2 DEF BeginShare, BeginRevoke, Linking
    <2>2. sharer[u].pc = "idle"
      BY <2>1 DEF BeginLinking
    <2> QED BY <2>1, <2>2, LinkBegun
  <1>3. ASSUME NEW u \in Sharers, BeginRead(u) \/ BeginLocate(u) PROVE FALSE
    BY <1>3, ReadBegun, LocateBegun DEF BeginRead, BeginLocate
  <1>4. ASSUME NEW u \in Sharers, CommitShare(u) \/ CommitRevoke(u) \/ AnswerRead(u) \/ CommitLocation(u)
        PROVE  CommitShare(t)
    <2>1. \A v \in Sharers \ {u} : sharer'[v] = sharer[v]
      BY <1>4, AnsweredThread DEF CommitShare, CommitRevoke, AnswerRead, CommitLocation
    <2>2. u = t
      BY <2>1
    <2> QED BY <1>4, <2>2 DEF CommitRevoke, AnswerRead, CommitLocation
  <1>5. ASSUME CleanUp \/ BookingMoves \/ RideCloses \/ DepartureMoves \/ Tick PROVE FALSE
    BY <1>5 DEF CleanUp, BookingMoves, RideCloses, DepartureMoves, Tick
  <1> QED BY <1>1, <1>2, <1>3, <1>4, <1>5 DEF SharingNext

\* A link that was made while nobody else wrote the share columns works.
THEOREM NewLinksWork == SharingSpec => NewLinkWorks
  <1>1. SharingInv /\ [SharingNext]_sharingVars =>
          [\A t \in Sharers :
             sharer[t].pc = "share" /\ sharer[t].alone /\ sharer'[t].pc = "idle" /\ booking.status = "accepted"
               => LinkResolves(booking.token)']_sharingVars
    <2> SUFFICES ASSUME SharingInv, [SharingNext]_sharingVars, NEW t \in Sharers,
                        sharer[t].pc = "share", sharer[t].alone, sharer'[t].pc = "idle",
                        booking.status = "accepted"
                 PROVE  LinkResolves(booking.token)'
      OBVIOUS
    <2>1. CommitShare(t)
      BY OnlyCommitEndsShare DEF SharingInv
    <2>2. sharer[t].revoked = booking.revoked
      BY DEF SharingInv, LoneLinkerSeesRow, Linking
    <2>3. booking'.status = "accepted" /\ ~ booking'.revoked
      BY <2>1, <2>2 DEF CommitShare, StillRevoked, SharingInv, SharingTypeOK
    <2> QED BY <2>3 DEF LinkResolves
  <1> QED BY <1>1, SharingInvariant, PTL DEF SharingSpec, NewLinkWorks

\* The three computations of the tracking window agree (get_location_access,
\* _ensure_location_access, _is_location_visible_for_public_share).
THEOREM WindowsAgree == SharingSpec => []ReadersAgree
  <1>1. SharingInv => ReadersAgree
    <2> SUFFICES ASSUME SharingInv PROVE ReadersAgree
      OBVIOUS
    <2>1. now \in Nat /\ ride.departure \in Nat /\ Before \in Nat /\ After \in Nat
      BY SharingAssumption DEF SharingInv, SharingTypeOK
    <2>2. WindowStart \in Nat /\ WindowEnd \in Nat
      BY <2>1 DEF WindowStart, WindowEnd
    <2> QED BY <2>1, <2>2 DEF ReadersAgree, AccessGranted, AccessEnsured, PublicLocationVisible
  <1> QED BY <1>1, SharingInvariant, PTL

\* A closed ride gets at most one more location from each thread (update_location).
THEOREM LateLocationsBounded == SharingSpec => []LateLocationsAreBounded
  <1>1. SharingInv => LateLocationsAreBounded
    BY LocatingFinite DEF SharingInv, LateIsPaid, LateLocationsAreBounded, SharingTypeOK
  <1> QED BY <1>1, SharingInvariant, PTL

\* What is shown is never older than what was shown before (get_latest_location),
\* in whatever order the rows were numbered and committed.
THEOREM NeverBackwards == SharingSpec => CarMovesForward
  <1>1. SharingInv /\ [SharingNext]_sharingVars =>
          [sharingPast.shown \in locations => ~ Older(sharingPast'.shown, sharingPast.shown)]_sharingVars
    <2> SUFFICES ASSUME SharingInv, [SharingNext]_sharingVars, sharingPast.shown \in locations
                 PROVE  ~ Older(sharingPast'.shown, sharingPast.shown)
      OBVIOUS
    <2> DEFINE old == sharingPast.shown
    <2>1. locations \subseteq Location /\ old \in Location
      BY DEF SharingInv, SharingTypeOK
    <2>2. sharingPast'.shown = old \/ sharingPast'.shown \in Latest
      BY DEF SharingNext, sharingVars, BeginShare, BeginRevoke, BeginLinking, CommitShare, CommitRevoke,
             BeginRead, AnswerRead, BeginLocate, CommitLocation, CleanUp, BookingMoves, RideCloses,
             DepartureMoves, Tick, SharingInv, SharingTypeOK
    <2>3. \A l \in Latest : l \in Location /\ (l = old \/ Older(old, l))
      BY <2>1 DEF Latest
    <2> QED BY <2>1, <2>2, <2>3 DEF Older, Location
  <1> QED BY <1>1, SharingInvariant, PTL DEF SharingSpec, CarMovesForward

\* The clean-up deletes nothing of a trip that may be followed, because locations
\* are kept longer than the tracking window is (SharingAssumption).
THEOREM TripsAreSpared == SharingSpec => CleanUpSparesTrip
  <1>1. SharingInv /\ [SharingNext]_sharingVars =>
          [\A l \in locations \ locations' : l.at < WindowStart \/ now > WindowEnd]_sharingVars
    <2> SUFFICES ASSUME SharingInv, [SharingNext]_sharingVars, NEW l \in locations, l \notin locations'
                 PROVE  l.at < WindowStart \/ now > WindowEnd
      OBVIOUS
    <2>1. l.at \in Nat /\ now \in Nat /\ ride.departure \in Nat
      BY SharingAssumption DEF SharingInv, SharingTypeOK, Location
    <2>2. Expired(l)
      BY DEF SharingNext, sharingVars, BeginShare, BeginRevoke, BeginLinking, CommitShare, CommitRevoke,
             BeginRead, AnswerRead, BeginLocate, CommitLocation, CleanUp, BookingMoves, RideCloses,
             DepartureMoves, Tick
    <2> QED BY <2>1, <2>2, SharingAssumption DEF Expired, WindowStart, WindowEnd
  <1> QED BY <1>1, SharingInvariant, PTL DEF SharingSpec, CleanUpSparesTrip

-----------------------------------------------------------------------------
(***************************************************************************)
(* Chat                                                                    *)
(***************************************************************************)

Elems(q) == {q[i] : i \in DOMAIN q}

Note(m) == [type |-> "message", ids |-> {m}]

Joined == {"joined", "listening", "sending"}

\* What an event says is committed: S are the messages, N those that were seen.
Backed(e, S, N) == IF e.type = "message" THEN e.ids \subseteq S ELSE e.ids \subseteq N

EventsAreBacked ==
  /\ \A t \in Writers :
       /\ writer[t].pc \in {"publish", "again"} => Backed(writer[t].event, stored, seen)
       /\ writer[t].pc = "mark" => writer[t].event.type = "seen" /\ writer[t].event.ids \subseteq stored
  /\ \A s \in Sockets :
       /\ Backed(socket[s].event, stored, seen)
       /\ \A e \in Elems(socket[s].inbox) \cup Elems(received[s]) : Backed(e, stored, seen)

\* Only sockets whose client or coroutine is gone are found stale.
ManagerIsKept ==
  /\ \A s \in Sockets, p \in Servers :
       s \in manager[p] => p = home[s] /\ socket[s].pc \in Joined
  /\ \A s \in Sockets : socket[s].pc \in Joined /\ socket[s].up => s \in manager[home[s]]
  /\ \A s \in Sockets : \A c \in socket[s].stale : ~ socket[c].up \/ socket[c].pc = "closed"

\* A message that is due was sent, waits in the inbox, or is being sent.
OnItsWay(s, m) ==
  \/ Note(m) \in Elems(received[s])
  \/ Note(m) \in Elems(socket[s].inbox)
  \/ socket[s].pc = "sending" /\ socket[s].event = Note(m) /\ s \in socket[s].targets

DueIsOnItsWay ==
  /\ \A t \in Writers :
       writer[t].pc \in {"publish", "again"} /\ writer[t].event.type = "message"
         => \E m \in Ids : writer[t].event = Note(m)
  /\ \A s \in Sockets :
       /\ socket[s].pc \in {"new", "joined"} => chatPast.due[s] = {}
       /\ Subscribed(s) /\ socket[s].up /\ pubsub => \A m \in chatPast.due[s] : OnItsWay(s, m)

ChatInv == ChatTypeOK /\ EventsAreBacked /\ ManagerIsKept /\ DueIsOnItsWay

-----------------------------------------------------------------------------
(* Sequences of events *)

LEMMA ElemsOfNone == <<>> \in Seq(Event) /\ Elems(<<>>) = {}
  BY DEF Elems

LEMMA ElemsOfAppend ==
  ASSUME NEW q \in Seq(Event), NEW e \in Event
  PROVE  Append(q, e) \in Seq(Event) /\ Elems(Append(q, e)) = Elems(q) \cup {e}
  <1>1. Append(q, e) \in Seq(Event) /\ Len(Append(q, e)) = Len(q) + 1
    OBVIOUS
  <1>2. Append(q, e)[Len(q) + 1] = e /\ \A i \in 1 .. Len(q) : Append(q, e)[i] = q[i]
    OBVIOUS
  <1>3. /\ Len(q) \in Nat
        /\ DOMAIN q = 1 .. Len(q)
        /\ DOMAIN Append(q, e) = 1 .. (Len(q) + 1)
    BY <1>1
  <1>4. Elems(Append(q, e)) \subseteq Elems(q) \cup {e}
    BY <1>2, <1>3 DEF Elems
  <1>5. e \in Elems(Append(q, e))
    BY <1>2, <1>3 DEF Elems
  <1>6. Elems(q) \subseteq Elems(Append(q, e))
    BY <1>2, <1>3 DEF Elems
  <1> QED BY <1>1, <1>4, <1>5, <1>6

LEMMA ElemsOfTail ==
  ASSUME NEW q \in Seq(Event), q # <<>>
  PROVE  /\ Head(q) \in Event /\ Tail(q) \in Seq(Event)
         /\ Elems(q) = {Head(q)} \cup Elems(Tail(q))
  <1>1. /\ Len(q) \in Nat /\ Len(q) > 0
        /\ DOMAIN q = 1 .. Len(q)
        /\ Head(q) = q[1] /\ Head(q) \in Event
    OBVIOUS
  <1>2. /\ Tail(q) \in Seq(Event)
        /\ DOMAIN Tail(q) = 1 .. (Len(q) - 1)
        /\ \A i \in 1 .. (Len(q) - 1) : Tail(q)[i] = q[i + 1]
    BY <1>1
  <1>3. Elems(Tail(q)) \subseteq Elems(q)
    BY <1>1, <1>2 DEF Elems
  <1>4. Head(q) \in Elems(q)
    BY <1>1 DEF Elems
  <1>5. ASSUME NEW i \in DOMAIN q, i # 1 PROVE q[i] \in Elems(Tail(q))
    <2>1. i - 1 \in DOMAIN Tail(q) /\ Tail(q)[i - 1] = q[i]
      BY <1>1, <1>2, <1>5
    <2> QED BY <2>1 DEF Elems
  <1>6. Elems(q) \subseteq {Head(q)} \cup Elems(Tail(q))
    BY <1>1, <1>5 DEF Elems
  <1> QED BY <1>1, <1>2, <1>3, <1>4, <1>6

LEMMA ElemsAreEvents ==
  ASSUME NEW q \in Seq(Event)
  PROVE  Elems(q) \subseteq Event
  BY DEF Elems

-----------------------------------------------------------------------------
(* The steps *)

\* One coroutine moves; the others are as they were.
LEMMA OneSocket ==
  ASSUME ChatTypeOK, NEW s \in Sockets, NEW r \in Socket, SocketDoes(s, r)
  PROVE  /\ socket' \in [Sockets -> Socket]
         /\ socket'[s] = r
         /\ \A c \in Sockets \ {s} : socket'[c] = socket[c]
  BY DEF ChatTypeOK, SocketDoes

\* One thread moves.
LEMMA OneWriter ==
  ASSUME ChatTypeOK, NEW t \in Writers, NEW pc \in {"idle", "publish", "again", "mark"},
         NEW event \in Event, WriterDoes(t, pc, event)
  PROVE  /\ writer' \in [Writers -> [pc : {"idle", "publish", "again", "mark"}, event : Event]]
         /\ writer'[t].pc = pc /\ writer'[t].event = event
         /\ \A u \in Writers \ {t} : writer'[u] = writer[u]
  BY DEF ChatTypeOK, WriterDoes

\* What was backed stays backed: messages and stamps are never taken back.
LEMMA BackedForGood ==
  ASSUME NEW S1, NEW S2, NEW N1, NEW N2, S1 \subseteq S2, N1 \subseteq N2, NEW e, Backed(e, S1, N1)
  PROVE  Backed(e, S2, N2)
  BY DEF Backed

LEMMA StoredIsFinite ==
  ASSUME ChatTypeOK
  PROVE  Cardinality(stored) \in Nat
  <1>1. IsFiniteSet(Ids)
    BY FS_Interval, ChatAssumption DEF Ids
  <1>2. IsFiniteSet(stored)
    BY <1>1, FS_Subset DEF ChatTypeOK
  <1> QED BY <1>2, FS_CardinalityType

LEMMA SaveMessageKeeps ==
  ASSUME ChatInv, NEW t \in Writers, SaveMessage(t)
  PROVE  ChatInv'
  <1> DEFINE m == Cardinality(stored) + 1
  <1>1. /\ m \in Ids
        /\ stored' = stored \cup {m}
        /\ WriterDoes(t, "publish", Note(m))
        /\ UNCHANGED <<seen, socket, home, manager, received, pubsub, chatPast>>
    BY StoredIsFinite, ChatAssumption DEF SaveMessage, ChatInv, Ids, Note
  <1> HIDE DEF m
  <1>2. Note(m) \in Event /\ Backed(Note(m), stored', seen')
    BY <1>1 DEF Note, Event, Backed
  <1>3. /\ writer' \in [Writers -> [pc : {"idle", "publish", "again", "mark"}, event : Event]]
        /\ writer'[t].pc = "publish" /\ writer'[t].event = Note(m)
        /\ \A u \in Writers \ {t} : writer'[u] = writer[u]
    BY <1>1, <1>2, OneWriter DEF ChatInv
  <1>4. ChatTypeOK'
    BY <1>1, <1>3 DEF ChatInv, ChatTypeOK
  <1>5. EventsAreBacked'
    <2>1. \A x : Backed(x, stored, seen) => Backed(x, stored', seen')
      BY <1>1, BackedForGood
    <2>2. \A u \in Writers :
            /\ writer'[u].pc \in {"publish", "again"} => Backed(writer'[u].event, stored', seen')
            /\ writer'[u].pc = "mark" => writer'[u].event.type = "seen"
                                           /\ writer'[u].event.ids \subseteq stored'
      BY <1>1, <1>2, <1>3, <2>1 DEF ChatInv, EventsAreBacked
    <2>3. \A s \in Sockets :
            /\ Backed(socket[s].event, stored', seen')
            /\ \A e \in Elems(socket[s].inbox) \cup Elems(received[s]) : Backed(e, stored', seen')
      BY <2>1 DEF ChatInv, EventsAreBacked
    <2> QED BY <2>2, <2>3, <1>1 DEF EventsAreBacked
  <1>6. ManagerIsKept'
    BY <1>1 DEF ChatInv, ManagerIsKept
  <1>7. DueIsOnItsWay'
    BY <1>1, <1>3 DEF ChatInv, DueIsOnItsWay, OnItsWay, Subscribed
  <1> QED BY <1>4, <1>5, <1>6, <1>7 DEF ChatInv

LEMMA ListUnseenKeeps ==
  ASSUME ChatInv, NEW t \in Writers, ListUnseen(t)
  PROVE  ChatInv'
  <1> DEFINE e == [type |-> "seen", ids |-> stored \ seen]
  <1>1. /\ WriterDoes(t, "mark", e)
        /\ chatPast' = [chatPast EXCEPT !.marks = @ + 1]
        /\ UNCHANGED <<stored, seen, socket, home, manager, received, pubsub>>
    BY DEF ListUnseen
  <1>2. e \in Event /\ e.type = "seen" /\ e.ids \subseteq stored
    BY DEF ChatInv, ChatTypeOK, Event
  <1> HIDE DEF e
  <1>3. /\ writer' \in [Writers -> [pc : {"idle", "publish", "again", "mark"}, event : Event]]
        /\ writer'[t].pc = "mark" /\ writer'[t].event = e
        /\ \A u \in Writers \ {t} : writer'[u] = writer[u]
    BY <1>1, <1>2, OneWriter DEF ChatInv
  <1>4. ChatTypeOK' /\ chatPast'.due = chatPast.due
    <2>1. /\ chatPast' \in [due : [Sockets -> SUBSET Ids], marks : Nat, outages : Nat]
          /\ chatPast'.due = chatPast.due
      <3>1. chatPast \in [due : [Sockets -> SUBSET Ids], marks : Nat, outages : Nat]
        BY DEF ChatInv, ChatTypeOK
      <3>2. chatPast' = [chatPast EXCEPT !.marks = chatPast.marks + 1] /\ chatPast.marks + 1 \in Nat
        BY <1>1, <3>1
      <3> QED BY <3>1, <3>2
    <2> QED BY <2>1, <1>1, <1>3 DEF ChatInv, ChatTypeOK
  <1>5. EventsAreBacked'
    BY <1>1, <1>2, <1>3 DEF ChatInv, EventsAreBacked, Backed
  <1>6. ManagerIsKept'
    BY <1>1 DEF ChatInv, ManagerIsKept
  <1>7. DueIsOnItsWay'
    BY <1>1, <1>3, <1>4 DEF ChatInv, DueIsOnItsWay, OnItsWay, Subscribed
  <1> QED BY <1>4, <1>5, <1>6, <1>7 DEF ChatInv

LEMMA MarkSeenKeeps ==
  ASSUME ChatInv, NEW t \in Writers, MarkSeen(t)
  PROVE  ChatInv'
  <1> DEFINE e == writer[t].event
  <1>1. /\ seen' = seen \cup e.ids
        /\ WriterDoes(t, "publish", e)
        /\ UNCHANGED <<stored, socket, home, manager, received, pubsub, chatPast>>
    BY DEF MarkSeen
  <1>2. e \in Event /\ e.type = "seen" /\ e.ids \subseteq stored
    BY DEF MarkSeen, ChatInv, ChatTypeOK, EventsAreBacked
  <1>3. /\ writer' \in [Writers -> [pc : {"idle", "publish", "again", "mark"}, event : Event]]
        /\ writer'[t].pc = "publish" /\ writer'[t].event = e
        /\ \A u \in Writers \ {t} : writer'[u] = writer[u]
    BY <1>1, <1>2, OneWriter DEF ChatInv
  <1> HIDE DEF e
  <1>4. ChatTypeOK'
    BY <1>1, <1>2, <1>3 DEF ChatInv, ChatTypeOK
  <1>5. EventsAreBacked'
    <2>0. Backed(e, stored', seen')
      BY <1>1, <1>2 DEF Backed
    <2>1. \A x : Backed(x, stored, seen) => Backed(x, stored', seen')
      BY <1>1, BackedForGood
    <2>2. \A u \in Writers :
            /\ writer'[u].pc \in {"publish", "again"} => Backed(writer'[u].event, stored', seen')
            /\ writer'[u].pc = "mark" => writer'[u].event.type = "seen"
                                           /\ writer'[u].event.ids \subseteq stored'
      BY <1>1, <1>2, <1>3, <2>0, <2>1 DEF ChatInv, EventsAreBacked
    <2>3. \A s \in Sockets :
            /\ Backed(socket[s].event, stored', seen')
            /\ \A x \in Elems(socket[s].inbox) \cup Elems(received[s]) : Backed(x, stored', seen')
      BY <2>1 DEF ChatInv, EventsAreBacked
    <2> QED BY <2>2, <2>3, <1>1 DEF EventsAreBacked
  <1>6. ManagerIsKept'
    BY <1>1 DEF ChatInv, ManagerIsKept
  <1>7. DueIsOnItsWay'
    BY <1>1, <1>2, <1>3 DEF ChatInv, DueIsOnItsWay, OnItsWay, Subscribed
  <1> QED BY <1>4, <1>5, <1>6, <1>7 DEF ChatInv

\* Redis puts the event into the inbox of whoever is subscribed, or drops it.
LEMMA PublishKeeps ==
  ASSUME ChatInv, NEW t \in Writers, Publish(t)
  PROVE  ChatInv'
  <1> DEFINE e == writer[t].event
             R(s) == IF Subscribed(s) THEN [socket[s] EXCEPT !.inbox = Append(@, e)] ELSE socket[s]
             D(s) == IF Subscribed(s) /\ e.type = "message" THEN chatPast.due[s] \cup e.ids
                     ELSE chatPast.due[s]
             f == [s \in Sockets |-> D(s)]
  <1>1. /\ e \in Event /\ Backed(e, stored, seen) /\ writer[t].pc \in {"publish", "again"}
        /\ e.type = "message" => \E m \in Ids : e = Note(m)
    BY DEF Publish, ChatInv, ChatTypeOK, EventsAreBacked, DueIsOnItsWay
  <1>2. UNCHANGED <<stored, seen, home, manager, received, pubsub>>
    BY DEF Publish
  <1>3. NoEvent \in Event /\ Backed(NoEvent, stored, seen)
    BY DEF NoEvent, Event, Backed
  <1>4. CASE /\ ~ pubsub
             /\ \/ WriterDoes(t, "again", e)
                \/ WriterDoes(t, "idle", NoEvent)
             /\ UNCHANGED <<socket, chatPast>>
    <2>1. PICK pc \in {"again", "idle"}, x \in Event :
            /\ WriterDoes(t, pc, x)
            /\ pc = "again" => x = e
      BY <1>1, <1>3, <1>4
    <2> HIDE DEF e
    <2>2. /\ writer' \in [Writers -> [pc : {"idle", "publish", "again", "mark"}, event : Event]]
          /\ writer'[t].pc = pc /\ writer'[t].event = x
          /\ \A u \in Writers \ {t} : writer'[u] = writer[u]
      BY <2>1, OneWriter DEF ChatInv
    <2>3. ChatTypeOK'
      BY <1>2, <1>4, <2>2 DEF ChatInv, ChatTypeOK
    <2>4. EventsAreBacked'
      BY <1>1, <1>2, <1>4, <2>1, <2>2 DEF ChatInv, EventsAreBacked, Backed
    <2>5. ManagerIsKept'
      BY <1>2, <1>4 DEF ChatInv, ManagerIsKept
    <2>6. DueIsOnItsWay'
      BY <1>1, <1>2, <1>4, <2>1, <2>2 DEF ChatInv, DueIsOnItsWay, OnItsWay, Subscribed
    <2> QED BY <2>3, <2>4, <2>5, <2>6 DEF ChatInv
  <1>5. CASE /\ pubsub
             /\ socket' = [s \in Sockets |-> R(s)]
             /\ chatPast' = [chatPast EXCEPT !.due = f]
             /\ WriterDoes(t, "idle", NoEvent)
    <2>1. /\ writer' \in [Writers -> [pc : {"idle", "publish", "again", "mark"}, event : Event]]
          /\ writer'[t].pc = "idle"
          /\ \A u \in Writers \ {t} : writer'[u] = writer[u]
      BY <1>3, <1>5, OneWriter DEF ChatInv
    <2>2. ASSUME NEW s \in Sockets
          PROVE  /\ R(s) \in Socket
                 /\ R(s).pc = socket[s].pc /\ R(s).up = socket[s].up
                 /\ R(s).event = socket[s].event
                 /\ R(s).targets = socket[s].targets /\ R(s).stale = socket[s].stale
                 /\ Elems(R(s).inbox) = IF Subscribed(s) THEN Elems(socket[s].inbox) \cup {e}
                                        ELSE Elems(socket[s].inbox)
                 /\ ~ Subscribed(s) => R(s).inbox = socket[s].inbox
      <3>1. socket[s] \in Socket /\ socket[s].inbox \in Seq(Event)
        BY DEF ChatInv, ChatTypeOK, Socket
      <3>2. /\ Append(socket[s].inbox, e) \in Seq(Event)
            /\ Elems(Append(socket[s].inbox, e)) = Elems(socket[s].inbox) \cup {e}
        BY <3>1, <1>1, ElemsOfAppend
      <3> HIDE DEF e
      <3>3. CASE Subscribed(s)
        BY <3>1, <3>2, <3>3 DEF Socket
      <3>4. CASE ~ Subscribed(s)
        BY <3>1, <3>4
      <3> QED BY <3>3, <3>4
    <2>3. \A s \in Sockets : D(s) \subseteq Ids
      BY <1>1 DEF ChatInv, ChatTypeOK, Event
    <2>4. chatPast'.due = f /\ chatPast' \in [due : [Sockets -> SUBSET Ids], marks : Nat, outages : Nat]
      BY <1>5, <2>3 DEF ChatInv, ChatTypeOK
    <2>5. \A s \in Sockets : socket'[s] = R(s) /\ chatPast'.due[s] = D(s)
      BY <1>5, <2>4
    <2>6. \A s \in Sockets : Subscribed(s)' <=> Subscribed(s)
      BY <2>2, <2>5 DEF Subscribed
    <2> HIDE DEF R, e
    <2>7. ChatTypeOK'
      <3>1. socket' \in [Sockets -> Socket]
        BY <1>5, <2>2
      <3>2. \A s \in Sockets : socket'[s].pc \in {"new", "joined", "closed"} => socket'[s].inbox = <<>>
        BY <2>2, <2>5 DEF ChatInv, ChatTypeOK, Subscribed
      <3> QED BY <3>1, <3>2, <1>2, <2>1, <2>4 DEF ChatInv, ChatTypeOK
    <2>8. EventsAreBacked'
      <3>1. \A u \in Writers :
              /\ writer'[u].pc \in {"publish", "again"} => Backed(writer'[u].event, stored, seen)
              /\ writer'[u].pc = "mark" => writer'[u].event.type = "seen"
                                             /\ writer'[u].event.ids \subseteq stored
        BY <2>1 DEF ChatInv, EventsAreBacked
      <3>2. ASSUME NEW s \in Sockets
            PROVE  /\ Backed(socket'[s].event, stored, seen)
                   /\ \A x \in Elems(socket'[s].inbox) \cup Elems(received[s]) : Backed(x, stored, seen)
        <4>1. /\ Backed(socket[s].event, stored, seen)
              /\ \A x \in Elems(socket[s].inbox) \cup Elems(received[s]) : Backed(x, stored, seen)
          BY DEF ChatInv, EventsAreBacked
        <4>2. /\ socket'[s].event = socket[s].event
              /\ Elems(socket'[s].inbox) \subseteq Elems(socket[s].inbox) \cup {e}
          BY <2>2, <2>5
        <4> QED BY <4>1, <4>2, <1>1
      <3> QED BY <3>1, <3>2, <1>2 DEF EventsAreBacked
    <2>9. ManagerIsKept'
      <3>1. \A s \in Sockets : socket[s].stale \subseteq Sockets
        BY DEF ChatInv, ChatTypeOK, Socket
      <3>2. \A s \in Sockets : /\ socket'[s].pc = socket[s].pc
                               /\ socket'[s].up = socket[s].up
                               /\ socket'[s].stale = socket[s].stale
        BY <2>2, <2>5
      <3> QED BY <3>1, <3>2, <1>2 DEF ChatInv, ManagerIsKept
    <2>10. DueIsOnItsWay'
      <3>1. ASSUME NEW s \in Sockets, socket'[s].pc \in {"new", "joined"} PROVE chatPast'.due[s] = {}
        BY <3>1, <2>2, <2>5 DEF ChatInv, DueIsOnItsWay, Subscribed
      <3>2. ASSUME NEW s \in Sockets, Subscribed(s), socket[s].up, NEW m \in D(s)
            PROVE  OnItsWay(s, m)'
        <4>1. CASE m \in chatPast.due[s]
          <5>1. OnItsWay(s, m)
            BY <3>2, <4>1, <1>5 DEF ChatInv, DueIsOnItsWay
          <5> QED BY <5>1, <1>2, <2>2, <2>5 DEF OnItsWay
        <4>2. CASE m \notin chatPast.due[s]
          <5>1. e = Note(m)
            BY <3>2, <4>2, <1>1 DEF Note
          <5> QED BY <5>1, <3>2, <2>2, <2>5 DEF OnItsWay
        <4> QED BY <4>1, <4>2
      <3>3. \A u \in Writers : writer'[u].pc \in {"publish", "again"} /\ writer'[u].event.type = "message"
                               => \E m \in Ids : writer'[u].event = Note(m)
        BY <2>1 DEF ChatInv, DueIsOnItsWay
      <3> QED BY <3>1, <3>2, <3>3, <2>2, <2>5, <2>6 DEF DueIsOnItsWay
    <2> QED BY <2>7, <2>8, <2>9, <2>10 DEF ChatInv
  <1> QED BY <1>4, <1>5 DEF Publish

\* The parts of the state a coroutine reads and writes, as sets.
LEMMA SocketFacts ==
  ASSUME ChatInv, NEW s \in Sockets
  PROVE  /\ socket[s] \in Socket /\ received[s] \in Seq(Event)
         /\ socket[s].inbox \in Seq(Event) /\ socket[s].event \in Event
         /\ socket[s].targets \subseteq Sockets /\ socket[s].stale \subseteq Sockets
         /\ home[s] \in Servers /\ manager[home[s]] \subseteq Sockets
  BY DEF ChatInv, ChatTypeOK, Socket

\* A step of one coroutine that neither sends nor touches the manager.
LEMMA QuietStep ==
  ASSUME ChatInv, NEW s \in Sockets, NEW r \in Socket, SocketDoes(s, r),
         UNCHANGED <<stored, seen, writer, home, manager, received, pubsub, chatPast>>,
         r.pc \in {"new", "joined", "closed"} => r.inbox = <<>>,
         Backed(r.event, stored, seen), Elems(r.inbox) \subseteq Elems(socket[s].inbox),
         r.pc \in Joined <=> socket[s].pc \in Joined,
         r.up => socket[s].up, socket[s].pc = "closed" => r.pc = "closed",
         \A c \in r.stale : ~ socket[c].up \/ socket[c].pc = "closed",
         r.pc \in {"new", "joined"} => chatPast.due[s] = {},
         r.pc \in {"listening", "sending"} /\ r.up /\ pubsub
           => \A m \in chatPast.due[s] :
                \/ Note(m) \in Elems(received[s]) \cup Elems(r.inbox)
                \/ r.pc = "sending" /\ r.event = Note(m) /\ s \in r.targets
  PROVE  ChatInv'
  <1>1. /\ socket' \in [Sockets -> Socket]
        /\ socket'[s] = r
        /\ \A c \in Sockets \ {s} : socket'[c] = socket[c]
    BY OneSocket DEF ChatInv
  <1>2. ChatTypeOK'
    BY <1>1 DEF ChatInv, ChatTypeOK
  <1>3. EventsAreBacked'
    BY <1>1 DEF ChatInv, EventsAreBacked
  <1>4. ManagerIsKept'
    <2>1. \A c \in Sockets : socket[c].stale \subseteq Sockets
      BY SocketFacts
    <2>2. r.stale \subseteq Sockets
      BY DEF Socket
    <2>3. \A c \in Sockets : /\ socket'[c].up => socket[c].up
                             /\ socket[c].pc = "closed" => socket'[c].pc = "closed"
                             /\ socket'[c].pc \in Joined <=> socket[c].pc \in Joined
      BY <1>1
    <2>4. \A c \in Sockets : \A d \in socket'[c].stale : ~ socket[d].up \/ socket[d].pc = "closed"
      BY <1>1 DEF ChatInv, ManagerIsKept
    <2>5. \A c \in Sockets : socket'[c].stale \subseteq Sockets
      BY <1>1, <2>1, <2>2
    <2> QED BY <2>3, <2>4, <2>5 DEF ChatInv, ManagerIsKept
  <1>5. DueIsOnItsWay'
    <2>1. /\ socket'[s].pc \in {"new", "joined"} => chatPast.due[s] = {}
          /\ Subscribed(s)' /\ socket'[s].up /\ pubsub => \A m \in chatPast.due[s] : OnItsWay(s, m)'
      BY <1>1 DEF Subscribed, OnItsWay
    <2>2. ASSUME NEW c \in Sockets \ {s}
          PROVE  /\ socket'[c].pc \in {"new", "joined"} => chatPast.due[c] = {}
                 /\ Subscribed(c)' /\ socket'[c].up /\ pubsub
                      => \A m \in chatPast.due[c] : OnItsWay(c, m)'
      BY <1>1 DEF ChatInv, DueIsOnItsWay, Subscribed, OnItsWay
    <2>3. \A u \in Writers : writer[u].pc \in {"publish", "again"} /\ writer[u].event.type = "message"
                             => \E m \in Ids : writer[u].event = Note(m)
      BY DEF ChatInv, DueIsOnItsWay
    <2> QED BY <2>1, <2>2, <2>3 DEF DueIsOnItsWay
  <1> QED BY <1>2, <1>3, <1>4, <1>5 DEF ChatInv

\* A coroutine that ends takes its connection out of the manager.
LEMMA ClosesKeeps ==
  ASSUME ChatInv, NEW s \in Sockets, Closes(s), socket[s].pc # "closed",
         UNCHANGED <<stored, seen, writer, home, received, pubsub, chatPast>>
  PROVE  ChatInv'
  <1> DEFINE r == [socket[s] EXCEPT !.pc = "closed", !.inbox = <<>>, !.targets = {}, !.stale = {}]
  <1>1. /\ r \in Socket
        /\ r.pc = "closed" /\ r.inbox = <<>> /\ r.stale = {} /\ r.event = socket[s].event
    <2> DEFINE none == {}
    <2>1. none \subseteq Sockets /\ <<>> \in Seq(Event)
      BY ElemsOfNone
    <2>2. r = [socket[s] EXCEPT !.pc = "closed", !.inbox = <<>>, !.targets = none, !.stale = none]
      OBVIOUS
    <2> HIDE DEF r, none
    <2>3. socket[s] \in Socket
      BY SocketFacts
    <2>4. r \in Socket
      BY <2>1, <2>2, <2>3 DEF Socket
    <2>5. r.pc = "closed" /\ r.inbox = <<>> /\ r.stale = none /\ r.event = socket[s].event
      BY <2>2, <2>3 DEF Socket
    <2> QED BY <2>4, <2>5 DEF none
  <1>2. /\ socket' \in [Sockets -> Socket]
        /\ socket'[s] = r
        /\ \A c \in Sockets \ {s} : socket'[c] = socket[c]
    BY <1>1, OneSocket DEF ChatInv, Closes
  <1> HIDE DEF r
  <1>3. /\ manager' \in [Servers -> SUBSET Sockets]
        /\ \A p \in Servers : manager'[p] = manager[p] \ {s}
    BY DEF ChatInv, ChatTypeOK, Closes, Without
  <1>4. ChatTypeOK'
    BY <1>1, <1>2, <1>3 DEF ChatInv, ChatTypeOK
  <1>5. EventsAreBacked'
    BY <1>1, <1>2, ElemsOfNone DEF ChatInv, EventsAreBacked
  <1>6. ManagerIsKept'
    <2>1. \A c \in Sockets : socket[c].stale \subseteq Sockets /\ home[c] \in Servers
      BY SocketFacts
    <2>2. \A c \in Sockets, p \in Servers :
            c \in manager'[p] => p = home[c] /\ socket'[c].pc \in Joined
      BY <1>2, <1>3 DEF ChatInv, ManagerIsKept
    <2>3. \A c \in Sockets : socket'[c].pc \in Joined /\ socket'[c].up => c \in manager'[home[c]]
      BY <1>1, <1>2, <1>3, <2>1 DEF ChatInv, ManagerIsKept, Joined
    <2>4. \A c \in Sockets : \A d \in socket'[c].stale : ~ socket'[d].up \/ socket'[d].pc = "closed"
      BY <1>1, <1>2, <2>1 DEF ChatInv, ManagerIsKept
    <2> QED BY <2>2, <2>3, <2>4 DEF ManagerIsKept
  <1>7. DueIsOnItsWay'
    BY <1>1, <1>2 DEF ChatInv, DueIsOnItsWay, Subscribed, OnItsWay
  <1> QED BY <1>4, <1>5, <1>6, <1>7 DEF ChatInv

LEMMA ConnectKeeps ==
  ASSUME ChatInv, NEW s \in Sockets, Connect(s)
  PROVE  ChatInv'
  <1> DEFINE r == [socket[s] EXCEPT !.pc = "joined"]
  <1>1. /\ socket[s].pc = "new"
        /\ manager' = [manager EXCEPT ![home[s]] = @ \cup {s}]
        /\ UNCHANGED <<stored, seen, writer, home, received, pubsub, chatPast>>
    BY DEF Connect
  <1>2. /\ r \in Socket
        /\ r.pc = "joined" /\ r.inbox = <<>> /\ r.stale = socket[s].stale
        /\ r.event = socket[s].event /\ chatPast.due[s] = {}
    BY <1>1, SocketFacts DEF Socket, ChatInv, ChatTypeOK, DueIsOnItsWay
  <1>3. /\ socket' \in [Sockets -> Socket]
        /\ socket'[s] = r
        /\ \A c \in Sockets \ {s} : socket'[c] = socket[c]
    BY <1>2, OneSocket DEF ChatInv, Connect
  <1>4. socket'[s].up <=> socket[s].up
    BY <1>3, SocketFacts DEF Socket
  <1> HIDE DEF r
  <1>5. /\ manager' \in [Servers -> SUBSET Sockets]
        /\ \A p \in Servers : manager'[p] = IF p = home[s] THEN manager[p] \cup {s} ELSE manager[p]
    BY <1>1, SocketFacts DEF ChatInv, ChatTypeOK
  <1>6. ChatTypeOK'
    BY <1>1, <1>2, <1>3, <1>5 DEF ChatInv, ChatTypeOK
  <1>7. EventsAreBacked'
    BY <1>1, <1>2, <1>3, ElemsOfNone DEF ChatInv, EventsAreBacked
  <1>8. ManagerIsKept'
    <2>1. \A c \in Sockets : socket[c].stale \subseteq Sockets /\ home[c] \in Servers
      BY SocketFacts
    <2>2. \A c \in Sockets, p \in Servers :
            c \in manager'[p] => p = home[c] /\ socket'[c].pc \in Joined
      BY <1>2, <1>3, <1>5 DEF ChatInv, ManagerIsKept, Joined
    <2>3. \A c \in Sockets : socket'[c].pc \in Joined /\ socket'[c].up => c \in manager'[home[c]]
      BY <1>2, <1>3, <1>5, <2>1 DEF ChatInv, ManagerIsKept, Joined
    <2>4. \A c \in Sockets : \A d \in socket'[c].stale : ~ socket'[d].up \/ socket'[d].pc = "closed"
      BY <1>1, <1>2, <1>3, <1>4, <2>1 DEF ChatInv, ManagerIsKept
    <2> QED BY <1>1, <2>2, <2>3, <2>4 DEF ManagerIsKept
  <1>9. DueIsOnItsWay'
    BY <1>1, <1>2, <1>3 DEF ChatInv, DueIsOnItsWay, Subscribed, OnItsWay
  <1> QED BY <1>6, <1>7, <1>8, <1>9 DEF ChatInv

LEMMA SubscribeKeeps ==
  ASSUME ChatInv, NEW s \in Sockets, Subscribe(s)
  PROVE  ChatInv'
  <1> DEFINE r == [socket[s] EXCEPT !.pc = "listening"]
  <1>1. /\ socket[s].pc = "joined"
        /\ UNCHANGED <<stored, seen, writer, home, received, pubsub, chatPast>>
    BY DEF Subscribe
  <1>2. CASE Closes(s)
    BY <1>1, <1>2, ClosesKeeps
  <1>3. CASE SocketDoes(s, r) /\ UNCHANGED manager
    <2>1. /\ r \in Socket
          /\ r.pc = "listening" /\ r.inbox = socket[s].inbox /\ r.stale = socket[s].stale
          /\ r.event = socket[s].event /\ chatPast.due[s] = {} /\ r.up = socket[s].up
      BY <1>1, SocketFacts DEF Socket, ChatInv, ChatTypeOK, DueIsOnItsWay
    <2> HIDE DEF r
    <2>2. /\ Backed(r.event, stored, seen)
          /\ \A c \in r.stale : ~ socket[c].up \/ socket[c].pc = "closed"
      BY <2>1 DEF ChatInv, EventsAreBacked, ManagerIsKept
    <2> QED BY <1>1, <1>3, <2>1, <2>2, QuietStep DEF Joined
  <1> QED BY <1>2, <1>3 DEF Subscribe

\* The event that is taken is sent to its own client too.
LEMMA TakeEventKeeps ==
  ASSUME ChatInv, NEW s \in Sockets, TakeEvent(s)
  PROVE  ChatInv'
  <1> DEFINE q == socket[s].inbox
             r == [socket[s] EXCEPT !.pc = "sending", !.event = Head(q), !.inbox = Tail(@),
                                    !.targets = Targets(s)]
  <1>1. /\ socket[s].pc = "listening" /\ q # <<>> /\ pubsub
        /\ SocketDoes(s, r)
        /\ UNCHANGED <<stored, seen, writer, home, manager, received, pubsub, chatPast>>
    BY DEF TakeEvent
  <1>2. /\ Head(q) \in Event /\ Tail(q) \in Seq(Event)
        /\ Elems(q) = {Head(q)} \cup Elems(Tail(q))
    BY <1>1, SocketFacts, ElemsOfTail
  <1>3. /\ r \in Socket
        /\ r.pc = "sending" /\ r.inbox = Tail(q) /\ r.stale = socket[s].stale
        /\ r.event = Head(q) /\ r.up = socket[s].up /\ r.targets = manager[home[s]]
    <2> DEFINE T == manager[home[s]]
    <2>1. T \subseteq Sockets
      BY SocketFacts
    <2>2. r = [socket[s] EXCEPT !.pc = "sending", !.event = Head(q), !.inbox = Tail(q), !.targets = T]
      BY DEF Targets
    <2> HIDE DEF r, T
    <2>3. socket[s] \in Socket
      BY SocketFacts
    <2>4. r \in Socket
      BY <1>2, <2>1, <2>2, <2>3 DEF Socket
    <2>5. /\ r.pc = "sending" /\ r.inbox = Tail(q) /\ r.stale = socket[s].stale
          /\ r.event = Head(q) /\ r.up = socket[s].up /\ r.targets = T
      BY <2>2, <2>3 DEF Socket
    <2> QED BY <2>4, <2>5 DEF T
  <1>4. /\ Backed(Head(q), stored, seen)
        /\ \A c \in socket[s].stale : ~ socket[c].up \/ socket[c].pc = "closed"
    BY <1>2 DEF ChatInv, EventsAreBacked, ManagerIsKept
  <1>5. socket[s].up => s \in manager[home[s]]
    BY <1>1 DEF ChatInv, ManagerIsKept, Joined
  <1>6. socket[s].up => \A m \in chatPast.due[s] : Note(m) \in Elems(received[s]) \cup Elems(q)
    BY <1>1 DEF ChatInv, DueIsOnItsWay, OnItsWay, Subscribed
  <1> HIDE DEF q, r
  <1>7. /\ r.pc \in Joined <=> socket[s].pc \in Joined
        /\ Elems(r.inbox) \subseteq Elems(socket[s].inbox)
    BY <1>1, <1>2, <1>3 DEF Joined, q
  <1>8. r.up => \A m \in chatPast.due[s] :
                  \/ Note(m) \in Elems(received[s]) \cup Elems(r.inbox)
                  \/ r.event = Note(m) /\ s \in r.targets
    BY <1>2, <1>3, <1>5, <1>6
  <1> QED BY <1>1, <1>3, <1>4, <1>7, <1>8, QuietStep

\* One connection of the broadcast: the event reaches it, or it is found stale.
LEMMA SendToKeeps ==
  ASSUME ChatInv, NEW s \in Sockets, NEW c \in Sockets, SendTo(s, c)
  PROVE  ChatInv'
  <1> DEFINE e == socket[s].event
             r == [socket[s] EXCEPT !.targets = @ \ {c}]
             x == [socket[s] EXCEPT !.targets = @ \ {c}, !.stale = @ \cup {c}]
  <1>1. /\ socket[s].pc = "sending" /\ c \in socket[s].targets
        /\ UNCHANGED <<stored, seen, writer, home, manager, pubsub, chatPast>>
    BY DEF SendTo
  <1>2. CASE /\ socket[c].up /\ socket[c].pc # "closed"
             /\ received' = [received EXCEPT ![c] = Append(@, e)]
             /\ SocketDoes(s, r)
    <2>1. /\ r \in Socket
          /\ r.pc = "sending" /\ r.inbox = socket[s].inbox /\ r.stale = socket[s].stale
          /\ r.event = e /\ r.up = socket[s].up /\ r.targets = socket[s].targets \ {c}
      <3> DEFINE T == socket[s].targets \ {c}
      <3>1. T \subseteq Sockets
        BY SocketFacts
      <3>2. r = [socket[s] EXCEPT !.targets = T]
        OBVIOUS
      <3>3. socket[s] \in Socket /\ socket[s].pc = "sending"
        BY <1>1, SocketFacts
      <3> HIDE DEF r, T
      <3>4. r \in Socket
        BY <3>1, <3>2, <3>3 DEF Socket
      <3>5. /\ r.pc = "sending" /\ r.inbox = socket[s].inbox /\ r.stale = socket[s].stale
            /\ r.up = socket[s].up /\ r.targets = T
        BY <3>2, <3>3 DEF Socket
      <3>6. r.event = socket[s].event
        BY <3>2, <3>3 DEF Socket
      <3> QED BY <3>4, <3>5, <3>6 DEF T
    <2>2. /\ socket' \in [Sockets -> Socket]
          /\ socket'[s] = r
          /\ \A d \in Sockets \ {s} : socket'[d] = socket[d]
      BY <1>2, <2>1, OneSocket DEF ChatInv
    <2>3. Append(received[c], e) \in Seq(Event) /\ Elems(Append(received[c], e)) = Elems(received[c]) \cup {e}
      BY SocketFacts, ElemsOfAppend
    <2>4. /\ received' \in [Sockets -> Seq(Event)]
          /\ Elems(received'[c]) = Elems(received[c]) \cup {e}
          /\ \A d \in Sockets \ {c} : received'[d] = received[d]
      BY <1>2, <2>3 DEF ChatInv, ChatTypeOK
    <2>5. Backed(e, stored, seen)
      BY DEF ChatInv, EventsAreBacked
    <2> HIDE DEF e, r
    <2>6. ChatTypeOK'
      BY <1>1, <2>1, <2>2, <2>4 DEF ChatInv, ChatTypeOK
    <2>7. EventsAreBacked'
      <3>1. \A d \in Sockets : /\ socket'[d].event = socket[d].event
                               /\ socket'[d].inbox = socket[d].inbox
                               /\ Elems(received'[d]) \subseteq Elems(received[d]) \cup {e}
        BY <2>1, <2>2, <2>4 DEF e
      <3> QED BY <1>1, <2>5, <3>1 DEF ChatInv, EventsAreBacked
    <2>8. ManagerIsKept'
      <3>1. \A d \in Sockets : /\ socket'[d].pc = socket[d].pc
                               /\ socket'[d].up = socket[d].up
                               /\ socket'[d].stale = socket[d].stale
                               /\ socket[d].stale \subseteq Sockets
        BY <1>1, <2>1, <2>2, SocketFacts
      <3> QED BY <1>1, <3>1 DEF ChatInv, ManagerIsKept
    <2>9. DueIsOnItsWay'
      <3>1. ASSUME NEW d \in Sockets, NEW m, OnItsWay(d, m) PROVE OnItsWay(d, m)'
        <4>1. CASE Note(m) \in Elems(received[d]) \cup Elems(socket[d].inbox)
          BY <4>1, <2>1, <2>2, <2>4 DEF OnItsWay
        <4>2. CASE socket[d].pc = "sending" /\ socket[d].event = Note(m) /\ d \in socket[d].targets
          BY <4>2, <2>1, <2>2, <2>4 DEF OnItsWay, e
        <4> QED BY <3>1, <4>1, <4>2 DEF OnItsWay
      <3>2. \A d \in Sockets : socket'[d].pc = socket[d].pc /\ socket'[d].up = socket[d].up
        BY <1>1, <2>1, <2>2
      <3> QED BY <1>1, <3>1, <3>2 DEF ChatInv, DueIsOnItsWay, Subscribed
    <2> QED BY <2>6, <2>7, <2>8, <2>9 DEF ChatInv
  <1>3. CASE /\ ~ socket[c].up \/ socket[c].pc = "closed"
             /\ SocketDoes(s, x)
             /\ UNCHANGED received
    <2>1. /\ x \in Socket
          /\ x.pc = "sending" /\ x.inbox = socket[s].inbox /\ x.stale = socket[s].stale \cup {c}
          /\ x.event = e /\ x.up = socket[s].up /\ x.targets = socket[s].targets \ {c}
      <3> DEFINE T == socket[s].targets \ {c}
                 S == socket[s].stale \cup {c}
      <3>1. T \subseteq Sockets /\ S \subseteq Sockets
        BY SocketFacts
      <3>2. x = [socket[s] EXCEPT !.targets = T, !.stale = S]
        OBVIOUS
      <3> HIDE DEF x, T, S
      <3>3. socket[s] \in Socket
        BY SocketFacts
      <3>4. x \in Socket
        BY <3>1, <3>2, <3>3 DEF Socket
      <3>5. /\ x.pc = "sending" /\ x.inbox = socket[s].inbox /\ x.stale = S
            /\ x.event = e /\ x.up = socket[s].up /\ x.targets = T
        BY <1>1, <3>2, <3>3 DEF Socket
      <3> QED BY <3>4, <3>5 DEF T, S
    <2>2. /\ Backed(x.event, stored, seen)
          /\ \A d \in x.stale : ~ socket[d].up \/ socket[d].pc = "closed"
      BY <1>3, <2>1 DEF ChatInv, EventsAreBacked, ManagerIsKept
    <2>3. x.up => c # s
      BY <1>1, <1>3, <2>1
    <2>4. x.up /\ pubsub => \A m \in chatPast.due[s] :
                   \/ Note(m) \in Elems(received[s]) \cup Elems(x.inbox)
                   \/ x.event = Note(m) /\ s \in x.targets
      BY <1>1, <2>1, <2>3 DEF ChatInv, DueIsOnItsWay, OnItsWay, Subscribed
    <2> HIDE DEF x
    <2> QED BY <1>1, <1>3, <2>1, <2>2, <2>4, QuietStep DEF Joined
  <1> QED BY <1>2, <1>3 DEF SendTo, Served

\* A broadcast that ends drops only connections that are gone.
LEMMA EndBroadcastKeeps ==
  ASSUME ChatInv, NEW s \in Sockets, EndBroadcast(s)
  PROVE  ChatInv'
  <1> DEFINE none == {}
             S == socket[s].stale
             r == [socket[s] EXCEPT !.pc = "listening", !.event = NoEvent, !.stale = none]
  <1>1. /\ socket[s].pc = "sending" /\ socket[s].targets = {}
        /\ SocketDoes(s, r)
        /\ manager' = Without(S)
        /\ UNCHANGED <<stored, seen, writer, home, received, pubsub, chatPast>>
    BY DEF EndBroadcast
  <1>2. none \subseteq Sockets /\ NoEvent \in Event /\ Backed(NoEvent, stored, seen)
    BY DEF NoEvent, Event, Backed
  <1> HIDE DEF none
  <1>3. socket[s] \in Socket
    BY SocketFacts
  <1>4. r \in Socket
    BY <1>2, <1>3 DEF Socket
  <1>5. /\ r.pc = "listening" /\ r.inbox = socket[s].inbox /\ r.stale = none
        /\ r.event = NoEvent /\ r.up = socket[s].up
    BY <1>3 DEF Socket
  <1> HIDE DEF r
  <1>6. /\ socket' \in [Sockets -> Socket]
        /\ socket'[s] = r
        /\ \A c \in Sockets \ {s} : socket'[c] = socket[c]
    BY <1>1, <1>4, OneSocket DEF ChatInv
  <1>7. /\ manager' \in [Servers -> SUBSET Sockets]
        /\ \A p \in Servers : manager'[p] = manager[p] \ S
    BY <1>1 DEF ChatInv, ChatTypeOK, Without
  <1>8. \A c \in S : ~ socket[c].up \/ socket[c].pc = "closed"
    BY DEF ChatInv, ManagerIsKept
  <1> HIDE DEF S
  <1>9. \A c \in Sockets : /\ socket'[c].up = socket[c].up
                           /\ socket'[c].inbox = socket[c].inbox
                           /\ c # s => socket'[c] = socket[c]
    BY <1>5, <1>6
  <1>10. ChatTypeOK'
    BY <1>1, <1>5, <1>6, <1>7 DEF ChatInv, ChatTypeOK
  <1>11. EventsAreBacked'
    BY <1>1, <1>2, <1>5, <1>6, <1>9 DEF ChatInv, EventsAreBacked
  <1>12. ManagerIsKept'
    <2>1. \A c \in Sockets : socket[c].stale \subseteq Sockets /\ home[c] \in Servers
      BY SocketFacts
    <2>2. \A c \in Sockets : /\ socket'[c].pc \in Joined <=> socket[c].pc \in Joined
                             /\ socket[c].pc = "closed" => socket'[c].pc = "closed"
      BY <1>1, <1>5, <1>6 DEF Joined
    <2>3. \A c \in Sockets, p \in Servers :
            c \in manager'[p] => p = home[c] /\ socket'[c].pc \in Joined
      BY <1>7, <2>2 DEF ChatInv, ManagerIsKept
    <2>4. \A c \in Sockets : socket[c].pc \in Joined /\ socket[c].up => c \in manager[home[c]] \ S
      BY <1>8 DEF ChatInv, ManagerIsKept, Joined
    <2>5. \A c \in Sockets : socket'[c].pc \in Joined /\ socket'[c].up => c \in manager'[home[c]]
      BY <1>7, <1>9, <2>1, <2>2, <2>4
    <2>6. \A c \in Sockets : \A d \in socket'[c].stale : ~ socket'[d].up \/ socket'[d].pc = "closed"
      BY <1>5, <1>6, <1>9, <2>1, <2>2 DEF ChatInv, ManagerIsKept, none
    <2> QED BY <1>1, <2>3, <2>5, <2>6 DEF ManagerIsKept
  <1>13. DueIsOnItsWay'
    <2>1. \A m : OnItsWay(s, m) => Note(m) \in Elems(received[s]) \cup Elems(socket[s].inbox)
      BY <1>1 DEF OnItsWay
    <2>2. \A c \in Sockets : Subscribed(c)' <=> Subscribed(c)
      BY <1>1, <1>5, <1>6 DEF Subscribed
    <2>3. \A c \in Sockets : \A m : OnItsWay(c, m) => OnItsWay(c, m)'
      BY <1>1, <1>9, <2>1 DEF OnItsWay
    <2>4. \A c \in Sockets : socket'[c].pc \in {"new", "joined"} => chatPast.due[c] = {}
      BY <1>5, <1>6 DEF ChatInv, DueIsOnItsWay
    <2>5. ASSUME NEW c \in Sockets, Subscribed(c)', socket'[c].up, pubsub, NEW m \in chatPast.due[c]
          PROVE  OnItsWay(c, m)'
      BY <1>9, <2>2, <2>3, <2>5 DEF ChatInv, DueIsOnItsWay
    <2> QED BY <1>1, <2>4, <2>5 DEF ChatInv, DueIsOnItsWay
  <1> QED BY <1>10, <1>11, <1>12, <1>13 DEF ChatInv

LEMMA LeaveKeeps ==
  ASSUME ChatInv, NEW s \in Sockets, Leave(s)
  PROVE  ChatInv'
  BY ClosesKeeps DEF Leave

LEMMA ClientGoesKeeps ==
  ASSUME ChatInv, NEW s \in Sockets, ClientGoes(s)
  PROVE  ChatInv'
  <1> DEFINE r == [socket[s] EXCEPT !.up = FALSE]
  <1>1. /\ socket[s].pc \in {"joined", "listening", "sending"}
        /\ SocketDoes(s, r)
        /\ UNCHANGED <<stored, seen, writer, home, manager, received, pubsub, chatPast>>
    BY DEF ClientGoes
  <1>2. socket[s] \in Socket
    BY SocketFacts
  <1>3. r \in Socket
    BY <1>2 DEF Socket
  <1>4. /\ r.pc = socket[s].pc /\ r.inbox = socket[s].inbox /\ r.stale = socket[s].stale
        /\ r.event = socket[s].event /\ ~ r.up
    BY <1>2 DEF Socket
  <1>5. /\ Backed(r.event, stored, seen)
        /\ \A c \in r.stale : ~ socket[c].up \/ socket[c].pc = "closed"
        /\ r.pc \in {"new", "joined", "closed"} => r.inbox = <<>>
        /\ r.pc \in {"new", "joined"} => chatPast.due[s] = {}
    BY <1>4 DEF ChatInv, ChatTypeOK, EventsAreBacked, ManagerIsKept, DueIsOnItsWay
  <1> HIDE DEF r
  <1> QED BY <1>1, <1>3, <1>4, <1>5, QuietStep

\* With Redis gone, nothing is promised to those who listen until they come back.
LEMMA PubSubFailsKeeps ==
  ASSUME ChatInv, PubSubFails
  PROVE  ChatInv'
  <1> DEFINE R(s) == [socket[s] EXCEPT !.inbox = <<>>]
  <1>1. /\ socket' = [s \in Sockets |-> R(s)] /\ pubsub' = FALSE
        /\ chatPast' = [chatPast EXCEPT !.outages = @ + 1]
        /\ UNCHANGED <<stored, seen, writer, home, manager, received>>
    BY DEF PubSubFails
  <1>2. ASSUME NEW s \in Sockets
        PROVE  /\ R(s) \in Socket
               /\ R(s).pc = socket[s].pc /\ R(s).up = socket[s].up /\ R(s).event = socket[s].event
               /\ R(s).stale = socket[s].stale /\ R(s).inbox = <<>>
    <2>1. socket[s] \in Socket
      BY SocketFacts
    <2> QED BY <2>1, ElemsOfNone DEF Socket
  <1>3. \A s \in Sockets : socket'[s] = R(s)
    BY <1>1
  <1>4. /\ chatPast' \in [due : [Sockets -> SUBSET Ids], marks : Nat, outages : Nat]
        /\ chatPast'.due = chatPast.due
    <2>1. chatPast \in [due : [Sockets -> SUBSET Ids], marks : Nat, outages : Nat]
      BY DEF ChatInv, ChatTypeOK
    <2>2. chatPast' = [chatPast EXCEPT !.outages = chatPast.outages + 1] /\ chatPast.outages + 1 \in Nat
      BY <1>1, <2>1
    <2> QED BY <2>1, <2>2
  <1>5. socket' \in [Sockets -> Socket]
    BY <1>1, <1>2
  <1> HIDE DEF R
  <1>6. \A s \in Sockets :
          /\ socket'[s].pc = socket[s].pc /\ socket'[s].up = socket[s].up
          /\ socket'[s].event = socket[s].event
          /\ socket'[s].stale = socket[s].stale /\ socket'[s].inbox = <<>>
    BY <1>2, <1>3
  <1>7. ChatTypeOK'
    BY <1>1, <1>4, <1>5, <1>6 DEF ChatInv, ChatTypeOK
  <1>8. EventsAreBacked'
    BY <1>1, <1>6, ElemsOfNone DEF ChatInv, EventsAreBacked
  <1>9. ManagerIsKept'
    <2>1. \A s \in Sockets : socket[s].stale \subseteq Sockets
      BY SocketFacts
    <2> QED BY <1>1, <1>6, <2>1 DEF ChatInv, ManagerIsKept
  <1>10. DueIsOnItsWay'
    BY <1>1, <1>4, <1>6 DEF ChatInv, DueIsOnItsWay
  <1> QED BY <1>7, <1>8, <1>9, <1>10 DEF ChatInv

LEMMA PubSubReturnsKeeps ==
  ASSUME ChatInv, PubSubReturns
  PROVE  ChatInv'
  <1>1. /\ \A s \in Sockets : ~ Subscribed(s)
        /\ pubsub' = TRUE
        /\ UNCHANGED <<stored, seen, writer, socket, home, manager, received, chatPast>>
    BY DEF PubSubReturns
  <1>2. ChatTypeOK' /\ EventsAreBacked' /\ ManagerIsKept'
    BY <1>1 DEF ChatInv, ChatTypeOK, EventsAreBacked, ManagerIsKept
  <1>3. DueIsOnItsWay'
    BY <1>1 DEF ChatInv, DueIsOnItsWay, Subscribed
  <1> QED BY <1>2, <1>3 DEF ChatInv

-----------------------------------------------------------------------------
LEMMA ChatBegins == ChatInit => ChatInv
  <1> SUFFICES ASSUME ChatInit PROVE ChatInv
    OBVIOUS
  <1>1. NoEvent \in Event /\ Backed(NoEvent, stored, seen)
    BY DEF NoEvent, Event, Backed
  <1> DEFINE none == {}
             r == [pc |-> "new", up |-> TRUE, inbox |-> <<>>, event |-> NoEvent,
                   targets |-> none, stale |-> none]
  <1>2. none \in SUBSET Sockets /\ none \in SUBSET Ids
    OBVIOUS
  <1>3. /\ socket = [s \in Sockets |-> r]
        /\ chatPast = [due |-> [s \in Sockets |-> none], marks |-> 0, outages |-> 0]
        /\ manager = [p \in Servers |-> none]
    BY DEF ChatInit
  <1> HIDE DEF none
  <1>4. r \in Socket
    BY <1>1, <1>2, ElemsOfNone DEF Socket
  <1>5. r.pc = "new" /\ r.inbox = <<>> /\ r.event = NoEvent /\ r.stale = none
    OBVIOUS
  <1> HIDE DEF r
  <1>6. ChatTypeOK
    <2>1. [s \in Sockets |-> none] \in [Sockets -> SUBSET Ids]
      BY <1>2
    <2>2. chatPast \in [due : [Sockets -> SUBSET Ids], marks : Nat, outages : Nat]
      BY <1>3, <2>1
    <2>3. manager \in [Servers -> SUBSET Sockets] /\ socket \in [Sockets -> Socket]
      BY <1>2, <1>3, <1>4
    <2>4. received \in [Sockets -> Seq(Event)]
      BY ElemsOfNone DEF ChatInit
    <2>5. writer \in [Writers -> [pc : {"idle", "publish", "again", "mark"}, event : Event]]
      BY <1>1 DEF ChatInit
    <2> QED BY <2>2, <2>3, <2>4, <2>5, <1>3, <1>5 DEF ChatInit, ChatTypeOK
  <1>7. EventsAreBacked
    BY <1>1, <1>3, <1>5, ElemsOfNone DEF ChatInit, EventsAreBacked
  <1>8. ManagerIsKept
    BY <1>3, <1>5 DEF ManagerIsKept, Joined, none
  <1>9. DueIsOnItsWay
    BY <1>3, <1>5 DEF ChatInit, DueIsOnItsWay, Subscribed, none
  <1> QED BY <1>6, <1>7, <1>8, <1>9 DEF ChatInv

LEMMA ChatStep ==
  ASSUME ChatInv, [ChatNext]_chatVars
  PROVE  ChatInv'
  <1>1. CASE UNCHANGED chatVars
    BY <1>1 DEF chatVars, ChatInv, ChatTypeOK, EventsAreBacked, ManagerIsKept, DueIsOnItsWay, OnItsWay,
                Subscribed
  <1>2. CASE ChatNext
    BY <1>2, SaveMessageKeeps, ListUnseenKeeps, MarkSeenKeeps, PublishKeeps, ConnectKeeps,
       SubscribeKeeps, TakeEventKeeps, SendToKeeps, EndBroadcastKeeps, LeaveKeeps, ClientGoesKeeps,
       PubSubFailsKeeps, PubSubReturnsKeeps
      DEF ChatNext
  <1> QED BY <1>1, <1>2

\* Messages, events and connections keep in step whatever the order of commits,
\* deliveries, disconnects and outages.
THEOREM ChatInvariant == ChatSpec => []ChatInv
  <1>1. ChatInv /\ [ChatNext]_chatVars => ChatInv'
    BY ChatStep
  <1> QED BY ChatBegins, <1>1, PTL DEF ChatSpec

\* Publishing after the commit and from what was committed, ChatService tells no
\* client of a message or a stamp that is not there.
THEOREM OnlyCommittedIsAnnounced == ChatSpec => []AnnouncedIsCommitted
  <1>1. ChatInv => AnnouncedIsCommitted
    <2> SUFFICES ASSUME ChatInv, NEW s \in Sockets
                 PROVE  /\ \A e \in Heard(s, "message") : e.ids \subseteq stored
                        /\ \A e \in Heard(s, "seen") : e.ids \subseteq seen
      BY DEF AnnouncedIsCommitted
    <2>1. \A e \in Elems(received[s]) : Backed(e, stored, seen)
      BY DEF ChatInv, EventsAreBacked
    <2>2. \A type : \A e \in Heard(s, type) : e.type = type /\ e \in Elems(received[s])
      BY DEF Heard, Elems
    <2> QED BY <2>1, <2>2 DEF Backed
  <1> QED BY <1>1, ChatInvariant, PTL

\* The manager holds the connections that are open, and every broadcast may prune
\* it (ConnectionManager.connect, disconnect, broadcast).
THEOREM ManagersAreExact == ChatSpec => []ManagerIsExact
  <1>1. ChatInv => ManagerIsExact
    <2> SUFFICES ASSUME ChatInv, NEW s \in Sockets
                 PROVE  /\ socket[s].pc = "closed" => s \notin manager[home[s]]
                        /\ socket[s].pc \in {"joined", "listening", "sending"} /\ socket[s].up
                             => s \in manager[home[s]]
      BY DEF ManagerIsExact
    <2>1. home[s] \in Servers
      BY SocketFacts
    <2> QED BY <2>1 DEF ChatInv, ManagerIsKept, Joined
  <1> QED BY <1>1, ChatInvariant, PTL

\* A socket that has nothing left to take has passed on all that was published
\* since it subscribed (the loop of chat_socket).
THEOREM QuietSocketsHaveAll == ChatSpec => []QuietSocketHasAll
  <1>1. ChatInv => QuietSocketHasAll
    <2> SUFFICES ASSUME ChatInv, NEW s \in Sockets, socket[s].pc = "listening", socket[s].up,
                        socket[s].inbox = <<>>, pubsub, NEW m \in chatPast.due[s]
                 PROVE  [type |-> "message", ids |-> {m}] \in Heard(s, "message")
      BY DEF QuietSocketHasAll
    <2>1. Note(m) \in Elems(received[s])
      BY ElemsOfNone DEF ChatInv, DueIsOnItsWay, OnItsWay, Subscribed
    <2>2. PICK i \in DOMAIN received[s] : received[s][i] = Note(m)
      BY <2>1 DEF Elems
    <2>3. Note(m).type = "message"
      BY DEF Note
    <2>4. Note(m) \in Heard(s, "message")
      BY <2>2, <2>3 DEF Heard
    <2> QED BY <2>4 DEF Note
  <1> QED BY <1>1, ChatInvariant, PTL

-----------------------------------------------------------------------------
(***************************************************************************)
(* All services                                                             *)
(***************************************************************************)

\* A step of the composition is a step of one service, and stutters in the others.
LEMMA ServicesStep ==
  ASSUME [ServicesNext]_servicesVars
  PROVE  /\ [GuardNext]_guardVars /\ [LockoutNext]_lockoutVars /\ [DeskNext]_deskVars
         /\ [SharingNext]_sharingVars /\ [ChatNext]_chatVars
  <1>1. CASE ServicesNext
    BY <1>1 DEF ServicesNext
  <1>2. CASE UNCHANGED servicesVars
    BY <1>2 DEF servicesVars
  <1> QED BY <1>1, <1>2

\* The services share no row, no key of Redis and no dictionary: side by side each
\* of them behaves as it does alone, so every theorem about a part is one about
\* the whole.
THEOREM ServicesAreIndependent ==
  ServicesSpec => GuardSpec /\ LockoutSpec /\ DeskSpec /\ SharingSpec /\ ChatSpec
  <1>1. ServicesInit => GuardInit /\ LockoutInit /\ DeskInit /\ SharingInit /\ ChatInit
    BY DEF ServicesInit
  <1>2. [ServicesNext]_servicesVars =>
          /\ [GuardNext]_guardVars /\ [LockoutNext]_lockoutVars /\ [DeskNext]_deskVars
          /\ [SharingNext]_sharingVars /\ [ChatNext]_chatVars
    BY ServicesStep
  <1> QED BY <1>1, <1>2, PTL
    DEF ServicesSpec, GuardSpec, LockoutSpec, DeskSpec, SharingSpec, ChatSpec

\* The types of all services, side by side.
THEOREM ServicesTypesHold == ServicesSpec => []ServicesTypeOK
  <1>1. LockoutTypeOK /\ GuessesLeft => LockoutTypeOK
    OBVIOUS
  <1>2. SharingInv => SharingTypeOK
    BY DEF SharingInv
  <1>3. ChatInv => ChatTypeOK
    BY DEF ChatInv
  <1> QED BY <1>1, <1>2, <1>3, ServicesAreIndependent, GuardTypesHold, LockoutInvariant, DeskTypesHold,
             SharingInvariant, ChatInvariant, PTL DEF ServicesTypeOK
=============================================================================
