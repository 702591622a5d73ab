--------------------------- MODULE JobQueueProofs ---------------------------
(***************************************************************************)
(* For any jobs, retry budgets, worker threads and number of lifespans: a   *)
(* job is in one place at a time, it is given up exactly when its retries   *)
(* are used up, and a settled job is never executed again.                  *)
(***************************************************************************)
EXTENDS JobQueue, TLAPS

\* The attempts a job has used, by where it is.
Budget ==
  \A j \in Jobs :
    /\ status[j] = "new" => attempts[j] = 0
    /\ status[j] # "failed" => attempts[j] <= MaxRetries[j]
    /\ status[j] = "failed" => attempts[j] = MaxRetries[j] + 1

IInv == TypeOK /\ JobInOnePlace /\ Budget

-----------------------------------------------------------------------------
(* Places in a sequence *)

PlacesIn(s, j) == {i \in DOMAIN s : s[i] = j}

LEMMA PlacesAppend ==
  ASSUME NEW S, NEW s \in Seq(S), NEW x \in S, NEW j
  PROVE  PlacesIn(Append(s, x), j) = PlacesIn(s, j) \cup (IF x = j THEN {Len(s) + 1} ELSE {})
BY DEF PlacesIn

LEMMA PlacesTail ==
  ASSUME NEW S, NEW s \in Seq(S), s # <<>>, NEW j
  PROVE  PlacesIn(Tail(s), j) = {i - 1 : i \in PlacesIn(s, j) \ {1}}
<1>1. /\ Len(s) \in Nat /\ Len(s) > 0 /\ DOMAIN s = 1 .. Len(s)
      /\ DOMAIN Tail(s) = 1 .. Len(s) - 1
      /\ \A i \in 1 .. Len(s) - 1 : Tail(s)[i] = s[i + 1]
  OBVIOUS
<1>2. ASSUME NEW k \in PlacesIn(Tail(s), j) PROVE k \in {i - 1 : i \in PlacesIn(s, j) \ {1}}
  <2>1. k + 1 \in PlacesIn(s, j) \ {1} /\ k = (k + 1) - 1 BY <1>1 DEF PlacesIn
  <2> QED BY <2>1
<1>3. ASSUME NEW i \in PlacesIn(s, j) \ {1} PROVE i - 1 \in PlacesIn(Tail(s), j)
  BY <1>1 DEF PlacesIn
<1> QED BY <1>2, <1>3

\* A job is in s once, or not at all.
Once(s, j)  == \E i \in DOMAIN s : PlacesIn(s, j) = {i}
Never(s, j) == PlacesIn(s, j) = {}

\* Appending a job puts it there once, and leaves the others where they are.
LEMMA AppendPlaces ==
  ASSUME NEW S, NEW s \in Seq(S), NEW x \in S, NEW j
  PROVE  /\ x = j /\ Never(s, j) => Once(Append(s, x), j)
         /\ x # j /\ Once(s, j) => Once(Append(s, x), j)
         /\ x # j /\ Never(s, j) => Never(Append(s, x), j)
<1>1. DOMAIN Append(s, x) = 1 .. Len(s) + 1 /\ DOMAIN s = 1 .. Len(s) /\ Len(s) \in Nat OBVIOUS
<1>2. PlacesIn(Append(s, x), j) = PlacesIn(s, j) \cup (IF x = j THEN {Len(s) + 1} ELSE {})
  BY PlacesAppend
<1>3. ASSUME x = j, Never(s, j) PROVE Once(Append(s, x), j)
  <2>1. PlacesIn(Append(s, x), j) = {Len(s) + 1} BY <1>2, <1>3 DEF Never
  <2>2. Len(s) + 1 \in DOMAIN Append(s, x) BY <1>1
  <2> QED BY <2>1, <2>2 DEF Once
<1>4. ASSUME x # j PROVE PlacesIn(Append(s, x), j) = PlacesIn(s, j) BY <1>2, <1>4
<1>5. DOMAIN s \subseteq DOMAIN Append(s, x) BY <1>1
<1> QED BY <1>3, <1>4, <1>5 DEF Once, Never

\* Taking the head takes that job out, and leaves the others in.
LEMMA TailPlaces ==
  ASSUME NEW S, NEW s \in Seq(S), s # <<>>, NEW j
  PROVE  /\ Head(s) = j /\ Once(s, j) => Never(Tail(s), j)
         /\ Head(s) # j /\ Once(s, j) => Once(Tail(s), j)
         /\ Never(s, j) => Head(s) # j /\ Never(Tail(s), j)
<1>1. /\ Len(s) \in Nat /\ Len(s) > 0 /\ DOMAIN s = 1 .. Len(s) /\ Head(s) = s[1]
      /\ DOMAIN Tail(s) = 1 .. Len(s) - 1
  OBVIOUS
<1>2. PlacesIn(Tail(s), j) = {i - 1 : i \in PlacesIn(s, j) \ {1}} BY PlacesTail
<1>3. 1 \in PlacesIn(s, j) <=> Head(s) = j BY <1>1 DEF PlacesIn
<1>4. ASSUME Head(s) = j, Once(s, j) PROVE Never(Tail(s), j)
  <2>1. PlacesIn(s, j) = {1} BY <1>3, <1>4 DEF Once
  <2> QED BY <1>2, <2>1 DEF Never
<1>5. ASSUME Head(s) # j, Once(s, j) PROVE Once(Tail(s), j)
  <2>1. PICK i \in DOMAIN s : PlacesIn(s, j) = {i} BY <1>5 DEF Once
  <2>2. i # 1 BY <1>3, <1>5, <2>1
  <2>3. i - 1 \in DOMAIN Tail(s) BY <1>1, <2>2
  <2>4. PlacesIn(Tail(s), j) = {i - 1} BY <1>2, <2>1, <2>2
  <2> QED BY <2>3, <2>4 DEF Once
<1>6. ASSUME Never(s, j) PROVE Head(s) # j /\ Never(Tail(s), j)
  BY <1>2, <1>3, <1>6 DEF Never
<1> QED BY <1>4, <1>5, <1>6

-----------------------------------------------------------------------------
(* The steps keep the invariant *)

\* JobInOnePlace for one job, as a function of its status.
InOnePlace(j) ==
  /\ \/ status[j] = "queued" /\ Once(jobs, j)
     \/ status[j] # "queued" /\ Never(jobs, j)
  /\ \/ status[j] \in {"running", "retry"} /\ \E w \in Workers : Hands(j) = {w}
     \/ status[j] \notin {"running", "retry"} /\ Hands(j) = {}

LEMMA OnePlaceEach == JobInOnePlace <=> \A j \in Jobs : InOnePlace(j)
BY DEF JobInOnePlace, InOnePlace, Places, Once, Never, PlacesIn

LEMMA OnePlaceNext ==
  ASSUME \A j \in Jobs : InOnePlace(j)'
  PROVE  JobInOnePlace'
BY DEF JobInOnePlace, InOnePlace, Places, Once, Never, PlacesIn

\* The lifespan hook: no job moves; the sentinel is not a job.
LEMMA LifespanKeeps ==
  ASSUME IInv, LifespanNext
  PROVE  IInv'
<1>1. TypeOK /\ JobInOnePlace /\ Budget BY DEF IInv
<1>2. UNCHANGED <<status, attempts>> BY DEF LifespanNext, Start, StopSet, StopPut, StopJoin
<1>3. TypeOK'
  <2>1. CASE Start
    <3>1. PICK w \in Workers : worker' = w /\ thread' = [thread EXCEPT ![w] = Loop]
      BY <2>1 DEF Start
    <3>2. Loop \in Thread /\ Loop.pc = "loop" /\ Loop.job \notin Jobs
      BY JobQueueAssumption DEF Loop, Thread
    <3>3. thread' \in [Workers -> Thread]
          /\ \A v \in Workers : thread'[v].pc \in {"run", "sleep"} <=> thread'[v].job \in Jobs
      BY <1>1, <3>1, <3>2 DEF TypeOK
    <3>4. /\ jobs' = jobs /\ stopEvent' = FALSE /\ lifespan' = "up" /\ starts' = starts + 1
          /\ status' = status /\ attempts' = attempts
      BY <2>1 DEF Start
    <3>5. worker' \in Workers \cup {NoWorker} BY <3>1
    <3>6. stopEvent' \in BOOLEAN /\ lifespan' \in {"down", "up", "stopping", "joining"} BY <3>4
    <3>7. starts' \in Nat BY <1>1, <3>4 DEF TypeOK
    <3>8. jobs' \in Seq(Jobs \cup {StopJob}) /\ status' \in [Jobs -> Status]
          /\ attempts' \in [Jobs -> Nat]
      BY <1>1, <3>4 DEF TypeOK
    <3> QED BY <3>3, <3>5, <3>6, <3>7, <3>8 DEF TypeOK
  <2>2. CASE StopSet
    BY <1>1, <2>2 DEF StopSet, TypeOK
  <2>3. CASE StopPut
    <3>1. jobs' \in Seq(Jobs \cup {StopJob}) BY <1>1, <2>3 DEF StopPut, TypeOK
    <3> QED BY <1>1, <2>3, <3>1 DEF StopPut, TypeOK
  <2>4. CASE StopJoin
    BY <1>1, <2>4 DEF StopJoin, TypeOK
  <2> QED BY <2>1, <2>2, <2>3, <2>4 DEF LifespanNext
<1>4. ASSUME NEW j \in Jobs PROVE Hands(j)' = Hands(j)
  <2>1. j # StopJob BY JobQueueAssumption
  <2>2. CASE UNCHANGED thread BY <2>2 DEF Hands
  <2>3. CASE Start
    <3>1. PICK w \in Workers : ~ Alive(w) /\ thread' = [thread EXCEPT ![w] = Loop]
      BY <2>3 DEF Start
    <3>2. thread[w].job \notin Jobs BY <1>1, <3>1 DEF TypeOK, Alive
    <3>3. Loop.job = StopJob BY DEF Loop
    <3> QED BY <1>1, <2>1, <3>1, <3>2, <3>3 DEF Hands, TypeOK
  <2> QED BY <2>2, <2>3 DEF LifespanNext, StopSet, StopPut, StopJoin
<1>5. ASSUME NEW j \in Jobs PROVE InOnePlace(j)'
  <2>1. InOnePlace(j) BY <1>1, OnePlaceEach
  <2>2. (Once(jobs, j) => Once(jobs', j)) /\ (Never(jobs, j) => Never(jobs', j))
    <3>1. CASE UNCHANGED jobs BY <3>1
    <3>2. CASE jobs' = Append(jobs, StopJob)
      <4>1. jobs \in Seq(Jobs \cup {StopJob}) /\ StopJob # j
        BY <1>1, JobQueueAssumption DEF TypeOK
      <4>2. StopJob \in Jobs \cup {StopJob} OBVIOUS
      <4> QED BY <3>2, <4>1, <4>2, AppendPlaces
    <3> QED BY <3>1, <3>2 DEF LifespanNext, Start, StopSet, StopPut, StopJoin
  <2> QED BY <1>2, <1>4, <2>1, <2>2 DEF InOnePlace
<1>6. JobInOnePlace' BY <1>5, OnePlaceNext
<1>7. Budget' BY <1>1, <1>2 DEF Budget
<1> QED BY <1>3, <1>6, <1>7 DEF IInv

LEMMA CrashKeeps ==
  ASSUME IInv, Crash
  PROVE  IInv'
<1>1. TypeOK /\ Budget BY DEF IInv
<1>2. Dead \in Thread /\ Dead.pc = "dead" /\ Dead.job = StopJob BY DEF Dead, Thread
<1>3. \A w \in Workers : thread'[w] = Dead BY DEF Crash
<1>4. \A j \in Jobs : status'[j] = IF status[j] \in {"queued", "running", "retry"}
                                    THEN "lost" ELSE status[j]
  BY DEF Crash
<1>5. TypeOK'
  <2>1. thread' \in [Workers -> Thread] BY <1>2 DEF Crash
  <2>2. \A w \in Workers : thread'[w].pc \in {"run", "sleep"} <=> thread'[w].job \in Jobs
    BY <1>2, <1>3, JobQueueAssumption
  <2>3. status' \in [Jobs -> Status] BY <1>1 DEF Crash, TypeOK, Status
  <2>4. jobs' = <<>> /\ stopEvent' = FALSE /\ worker' = NoWorker /\ lifespan' = "down"
    BY DEF Crash
  <2>5. jobs' \in Seq(Jobs \cup {StopJob}) BY <2>4
  <2>6. stopEvent' \in BOOLEAN /\ worker' \in Workers \cup {NoWorker} BY <2>4
  <2>7. lifespan' \in {"down", "up", "stopping", "joining"} BY <2>4
  <2>8. attempts' \in [Jobs -> Nat] /\ starts' \in Nat BY <1>1 DEF Crash, TypeOK
  <2> QED BY <2>1, <2>2, <2>3, <2>5, <2>6, <2>7, <2>8 DEF TypeOK
<1>6. ASSUME NEW j \in Jobs PROVE InOnePlace(j)'
  <2>1. Never(jobs', j) BY DEF Crash, Never, PlacesIn
  <2>2. Hands(j)' = {} BY <1>2, <1>3, JobQueueAssumption DEF Hands
  <2>3. status'[j] \notin {"queued", "running", "retry"} BY <1>4
  <2> QED BY <2>1, <2>2, <2>3 DEF InOnePlace
<1>7. Budget' BY <1>1, <1>4 DEF Budget, Crash
<1> QED BY <1>5, <1>6, <1>7, OnePlaceNext DEF IInv

LEMMA EnqueueKeeps ==
  ASSUME IInv, NEW k \in Jobs, Enqueue(k)
  PROVE  IInv'
<1>1. TypeOK /\ JobInOnePlace /\ Budget BY DEF IInv
<1>2. status[k] = "new" /\ jobs' = Append(jobs, k) /\ UNCHANGED <<thread, attempts>>
      /\ status' = [status EXCEPT ![k] = "queued"]
  BY DEF Enqueue, Record
<1>3. jobs \in Seq(Jobs \cup {StopJob}) /\ k \in Jobs \cup {StopJob} BY <1>1 DEF TypeOK
<1>4. \A j \in Jobs : status'[j] = IF j = k THEN "queued" ELSE status[j] BY <1>1, <1>2 DEF TypeOK
<1>5. TypeOK'
  <2>1. jobs' \in Seq(Jobs \cup {StopJob}) BY <1>2, <1>3
  <2>2. status' \in [Jobs -> Status] BY <1>1, <1>2 DEF TypeOK, Status
  <2> QED BY <1>1, <2>1, <2>2 DEF Enqueue, TypeOK
<1>6. ASSUME NEW j \in Jobs PROVE InOnePlace(j)'
  <2>1. InOnePlace(j) BY <1>1, OnePlaceEach
  <2>2. Hands(j)' = Hands(j) BY <1>2 DEF Hands
  <2>3. CASE j = k
    <3>1. Never(jobs, j) /\ Hands(j) = {} BY <1>2, <2>1, <2>3 DEF InOnePlace
    <3>2. Once(jobs', j) BY <1>2, <1>3, <2>3, <3>1, AppendPlaces
    <3> QED BY <1>4, <2>2, <2>3, <3>1, <3>2 DEF InOnePlace
  <2>4. CASE j # k
    <3>1. (Once(jobs, j) => Once(jobs', j)) /\ (Never(jobs, j) => Never(jobs', j))
      BY <1>2, <1>3, <2>4, AppendPlaces
    <3> QED BY <1>4, <2>1, <2>2, <2>4, <3>1 DEF InOnePlace
  <2> QED BY <2>3, <2>4
<1>7. Budget' BY <1>1, <1>2, <1>4 DEF Budget
<1> QED BY <1>5, <1>6, <1>7, OnePlaceNext DEF IInv

LEMMA CheckStopKeeps ==
  ASSUME IInv, NEW w \in Workers, CheckStop(w)
  PROVE  IInv'
<1>1. TypeOK /\ JobInOnePlace /\ Budget BY DEF IInv
<1>2. UNCHANGED <<jobs, stopEvent, worker, lifespan, status, attempts, starts>>
      /\ thread[w].pc = "loop"
  BY DEF CheckStop
<1>3. thread[w] \in Thread /\ thread[w].job \notin Jobs BY <1>1, <1>2 DEF TypeOK
<1>4. PICK h \in Thread : thread' = [thread EXCEPT ![w] = h] /\ h.pc \in {"dead", "get"}
                           /\ h.job \notin Jobs
  <2>1. Dead \in Thread /\ Dead.pc = "dead" /\ Dead.job \notin Jobs
    BY JobQueueAssumption DEF Dead, Thread
  <2> DEFINE g == [thread[w] EXCEPT !.pc = "get"]
  <2>2. g \in Thread /\ g.pc = "get" /\ g.job \notin Jobs BY <1>3 DEF Thread
  <2>3. thread' = [thread EXCEPT ![w] = IF stopEvent THEN Dead ELSE g] BY DEF CheckStop
  <2> QED BY <2>1, <2>2, <2>3
<1>5. TypeOK' BY <1>1, <1>2, <1>4 DEF TypeOK
<1>6. ASSUME NEW j \in Jobs PROVE InOnePlace(j)'
  <2>1. InOnePlace(j) BY <1>1, OnePlaceEach
  <2>2. Hands(j)' = Hands(j) BY <1>1, <1>3, <1>4 DEF Hands, TypeOK
  <2> QED BY <1>2, <2>1, <2>2 DEF InOnePlace
<1>7. Budget' BY <1>1, <1>2 DEF Budget
<1> QED BY <1>5, <1>6, <1>7, OnePlaceNext DEF IInv

\* Worker w has h in place of what it had; h has a job just when it executes one.
Takes(w, h) ==
  /\ h \in Thread /\ (h.pc \in {"run", "sleep"} <=> h.job \in Jobs)
  /\ thread' = [thread EXCEPT ![w] = h]

LEMMA TakesKeepsType ==
  ASSUME TypeOK, NEW w \in Workers, NEW h, Takes(w, h),
         UNCHANGED <<stopEvent, worker, lifespan, starts>>,
         jobs' \in Seq(Jobs \cup {StopJob}),
         status' \in [Jobs -> Status], attempts' \in [Jobs -> Nat]
  PROVE  TypeOK'
<1>1. thread' \in [Workers -> Thread] BY DEF TypeOK, Takes
<1>2. \A v \in Workers : thread'[v].pc \in {"run", "sleep"} <=> thread'[v].job \in Jobs
  BY DEF TypeOK, Takes
<1> QED BY <1>1, <1>2 DEF TypeOK

\* Who holds j after that.
LEMMA TakesHands ==
  ASSUME TypeOK, NEW w \in Workers, NEW h, Takes(w, h), NEW j \in Jobs
  PROVE  Hands(j)' = (Hands(j) \ {w}) \cup (IF h.job = j THEN {w} ELSE {})
BY DEF TypeOK, Takes, Hands

LEMMA GetKeeps ==
  ASSUME IInv, NEW w \in Workers, Get(w)
  PROVE  IInv'
<1>1. TypeOK /\ JobInOnePlace /\ Budget BY DEF IInv
<1>2. thread[w].pc = "get" /\ jobs # <<>> /\ jobs' = Tail(jobs)
      /\ UNCHANGED <<stopEvent, worker, lifespan, attempts, starts>>
  BY DEF Get
<1>3. jobs \in Seq(Jobs \cup {StopJob}) BY <1>1 DEF TypeOK
<1>4. Head(jobs) \in Jobs \cup {StopJob} /\ jobs' \in Seq(Jobs \cup {StopJob}) BY <1>2, <1>3
<1>5. thread[w].job \notin Jobs BY <1>1, <1>2 DEF TypeOK
<1>6. attempts' \in [Jobs -> Nat] BY <1>1, <1>2 DEF TypeOK
<1>7. CASE Head(jobs) = StopJob
  <2>1. UNCHANGED status /\ thread' = [thread EXCEPT ![w] = Dead]
    BY <1>7, JobQueueAssumption DEF Get
  <2>2. Takes(w, Dead) /\ Dead.job = StopJob BY <2>1, JobQueueAssumption DEF Takes, Dead, Thread
  <2>3. TypeOK'
    <3>1. status' \in [Jobs -> Status] BY <1>1, <2>1 DEF TypeOK
    <3> QED BY <1>1, <1>2, <1>4, <1>6, <2>2, <3>1, TakesKeepsType
  <2>4. ASSUME NEW j \in Jobs PROVE InOnePlace(j)'
    <3>1. InOnePlace(j) BY <1>1, OnePlaceEach
    <3>2. j # StopJob BY JobQueueAssumption
    <3>3. w \notin Hands(j) BY <1>5 DEF Hands
    <3>4. Hands(j)' = Hands(j) BY <1>1, <2>2, <3>2, <3>3, TakesHands
    <3>5. (Once(jobs, j) => Once(jobs', j)) /\ (Never(jobs, j) => Never(jobs', j))
      BY <1>2, <1>3, <1>7, <3>2, TailPlaces
    <3> QED BY <2>1, <3>1, <3>4, <3>5 DEF InOnePlace
  <2>5. Budget' BY <1>1, <1>2, <2>1 DEF Budget
  <2> QED BY <2>3, <2>4, <2>5, OnePlaceNext DEF IInv
<1>8. CASE Head(jobs) \in Jobs
  <2> DEFINE k == Head(jobs)
             h == [pc |-> "run", job |-> k]
  <2>1. status' = [status EXCEPT ![k] = "running"] /\ thread' = [thread EXCEPT ![w] = h]
    BY <1>8, JobQueueAssumption DEF Get, Record
  <2>2. Takes(w, h) /\ h.job = k BY <1>8, <2>1 DEF Takes, Thread
  <2>3. k \in Jobs BY <1>8
  <2>4. \A j \in Jobs : status'[j] = IF j = k THEN "running" ELSE status[j]
    BY <1>1, <2>1 DEF TypeOK
  <2>5. Head(jobs) = k OBVIOUS
  <2> HIDE DEF h, k
  <2>6. status' \in [Jobs -> Status] BY <1>1, <2>1 DEF TypeOK, Status
  <2>7. TypeOK' BY <1>1, <1>2, <1>4, <1>6, <2>2, <2>6, TakesKeepsType
  <2>8. ASSUME NEW j \in Jobs PROVE InOnePlace(j)'
    <3>1. InOnePlace(j) BY <1>1, OnePlaceEach
    <3>2. w \notin Hands(j) BY <1>5 DEF Hands
    <3>3. Hands(j)' = Hands(j) \cup (IF k = j THEN {w} ELSE {}) BY <1>1, <2>2, <3>2, TakesHands
    <3>4. CASE j = k
      <4>1. ~ Never(jobs, j) BY <1>2, <1>3, <2>5, <3>4, TailPlaces
      <4>2. status[j] = "queued" /\ Once(jobs, j) /\ Hands(j) = {} BY <3>1, <4>1 DEF InOnePlace
      <4>3. Never(jobs', j) BY <1>2, <1>3, <2>5, <3>4, <4>2, TailPlaces
      <4>4. Hands(j)' = {w} BY <3>3, <3>4, <4>2
      <4> QED BY <2>4, <3>4, <4>3, <4>4 DEF InOnePlace
    <3>5. CASE j # k
      <4>1. (Once(jobs, j) => Once(jobs', j)) /\ (Never(jobs, j) => Never(jobs', j))
        BY <1>2, <1>3, <2>5, <3>5, TailPlaces
      <4>2. Hands(j)' = Hands(j) BY <3>3, <3>5
      <4> QED BY <2>4, <3>1, <3>5, <4>1, <4>2 DEF InOnePlace
    <3> QED BY <3>4, <3>5
  <2>9. Budget'
    <3>1. status[k] # "failed"
      <4>1. InOnePlace(k) BY <1>1, <2>3, OnePlaceEach
      <4>2. ~ Never(jobs, k) BY <1>2, <1>3, <2>5, TailPlaces
      <4> QED BY <4>1, <4>2 DEF InOnePlace
    <3> QED BY <1>1, <1>2, <2>4, <3>1 DEF Budget
  <2> QED BY <2>7, <2>8, <2>9, OnePlaceNext DEF IInv
<1> QED BY <1>4, <1>7, <1>8

\* The job a worker executes is nowhere else.
LEMMA Holder ==
  ASSUME IInv, NEW w \in Workers, thread[w].pc \in {"run", "sleep"}
  PROVE  LET k == thread[w].job IN
         /\ k \in Jobs /\ status[k] \in {"running", "retry"}
         /\ Hands(k) = {w} /\ Never(jobs, k)
         /\ attempts[k] \in Nat /\ attempts[k] <= MaxRetries[k]
<1> DEFINE k == thread[w].job
<1>1. TypeOK /\ JobInOnePlace /\ Budget BY DEF IInv
<1>2. k \in Jobs BY <1>1 DEF TypeOK
<1>3. w \in Hands(k) BY DEF Hands
<1>4. InOnePlace(k) BY <1>1, <1>2, OnePlaceEach
<1>5. status[k] \in {"running", "retry"} /\ Hands(k) = {w} /\ Never(jobs, k)
  BY <1>3, <1>4 DEF InOnePlace
<1>6. attempts[k] \in Nat /\ attempts[k] <= MaxRetries[k] BY <1>1, <1>2, <1>5 DEF TypeOK, Budget
<1> QED BY <1>2, <1>5, <1>6

\* A step that lets go of the job, or keeps it in hand, moves no other job.
LEMMA OthersStay ==
  ASSUME IInv, NEW w \in Workers, thread[w].pc \in {"run", "sleep"},
         NEW h, Takes(w, h), h.job \in {thread[w].job, StopJob},
         jobs' = jobs \/ jobs' = Append(jobs, thread[w].job),
         NEW j \in Jobs, j # thread[w].job, status'[j] = status[j]
  PROVE  InOnePlace(j)'
<1>1. TypeOK /\ JobInOnePlace BY DEF IInv
<1>2. InOnePlace(j) BY <1>1, OnePlaceEach
<1>3. h.job # j /\ thread[w].job # j BY JobQueueAssumption
<1>4. w \notin Hands(j) BY DEF Hands
<1>5. Hands(j)' = Hands(j)
  <2>1. Hands(j)' = (Hands(j) \ {w}) \cup (IF h.job = j THEN {w} ELSE {}) BY <1>1, TakesHands
  <2> QED BY <1>3, <1>4, <2>1
<1>6. (Once(jobs, j) => Once(jobs', j)) /\ (Never(jobs, j) => Never(jobs', j))
  <2>1. jobs \in Seq(Jobs \cup {StopJob}) /\ thread[w].job \in Jobs \cup {StopJob}
    BY <1>1 DEF TypeOK, Thread
  <2>2. CASE jobs' = Append(jobs, thread[w].job) BY <1>3, <2>1, <2>2, AppendPlaces
  <2>3. CASE jobs' = jobs BY <2>3
  <2> QED BY <2>2, <2>3
<1> QED BY <1>2, <1>5, <1>6 DEF InOnePlace

LEMMA LoopTakes ==
  ASSUME NEW w \in Workers, thread' = [thread EXCEPT ![w] = Loop]
  PROVE  Takes(w, Loop) /\ Loop.job = StopJob
BY JobQueueAssumption DEF Takes, Loop, Thread

LEMMA SucceedKeeps ==
  ASSUME IInv, NEW w \in Workers, Succeed(w)
  PROVE  IInv'
<1> DEFINE k == thread[w].job
<1>1. TypeOK /\ JobInOnePlace /\ Budget BY DEF IInv
<1>2. /\ thread[w].pc \in {"run", "sleep"}
      /\ status' = [status EXCEPT ![k] = "success"] /\ thread' = [thread EXCEPT ![w] = Loop]
      /\ UNCHANGED <<jobs, stopEvent, worker, lifespan, attempts, starts>>
  BY DEF Succeed, Finish, Record
<1>3. k \in Jobs /\ Hands(k) = {w} /\ Never(jobs, k) /\ attempts[k] <= MaxRetries[k]
  BY <1>2, Holder
<1>4. Takes(w, Loop) /\ Loop.job = StopJob BY <1>2, LoopTakes
<1>5. \A j \in Jobs : status'[j] = IF j = k THEN "success" ELSE status[j]
  BY <1>1, <1>2 DEF TypeOK
<1>6. status' \in [Jobs -> Status] BY <1>1, <1>2 DEF TypeOK, Status
<1>7. TypeOK' 
  <2>1. jobs' \in Seq(Jobs \cup {StopJob}) /\ attempts' \in [Jobs -> Nat] BY <1>1, <1>2 DEF TypeOK
  <2> QED BY <1>1, <1>2, <1>4, <1>6, <2>1, TakesKeepsType
<1>8. ASSUME NEW j \in Jobs PROVE InOnePlace(j)'
  <2>1. CASE j # k BY <1>2, <1>4, <1>5, <2>1, OthersStay
  <2>2. CASE j = k
    <3>1. Hands(j)' = {} BY <1>1, <1>3, <1>4, <2>2, JobQueueAssumption, TakesHands
    <3>2. Never(jobs', j) BY <1>2, <1>3, <2>2
    <3> QED BY <1>5, <2>2, <3>1, <3>2 DEF InOnePlace
  <2> QED BY <2>1, <2>2
<1>9. Budget' BY <1>1, <1>2, <1>3, <1>5 DEF Budget
<1> QED BY <1>7, <1>8, <1>9, OnePlaceNext DEF IInv

LEMMA RequeueKeeps ==
  ASSUME IInv, NEW w \in Workers, Requeue(w)
  PROVE  IInv'
<1> DEFINE k == thread[w].job
<1>1. TypeOK /\ JobInOnePlace /\ Budget BY DEF IInv
<1>2. /\ thread[w].pc \in {"run", "sleep"}
      /\ status' = [status EXCEPT ![k] = "queued"] /\ thread' = [thread EXCEPT ![w] = Loop]
      /\ jobs' = Append(jobs, k)
      /\ UNCHANGED <<stopEvent, worker, lifespan, attempts, starts>>
  BY DEF Requeue, Finish, Record
<1>3. k \in Jobs /\ Hands(k) = {w} /\ Never(jobs, k) /\ attempts[k] <= MaxRetries[k]
  BY <1>2, Holder
<1>4. Takes(w, Loop) /\ Loop.job = StopJob BY <1>2, LoopTakes
<1>5. \A j \in Jobs : status'[j] = IF j = k THEN "queued" ELSE status[j]
  BY <1>1, <1>2 DEF TypeOK
<1>6. status' \in [Jobs -> Status] BY <1>1, <1>2 DEF TypeOK, Status
<1>7. jobs \in Seq(Jobs \cup {StopJob}) /\ k \in Jobs \cup {StopJob} BY <1>1, <1>3 DEF TypeOK
<1>8. TypeOK'
  <2>1. jobs' \in Seq(Jobs \cup {StopJob}) BY <1>2, <1>7
  <2>2. attempts' \in [Jobs -> Nat] BY <1>1, <1>2 DEF TypeOK
  <2> QED BY <1>1, <1>2, <1>4, <1>6, <2>1, <2>2, TakesKeepsType
<1>9. ASSUME NEW j \in Jobs PROVE InOnePlace(j)'
  <2>1. CASE j # k BY <1>2, <1>4, <1>5, <2>1, OthersStay
  <2>2. CASE j = k
    <3>1. Hands(j)' = {} BY <1>1, <1>3, <1>4, <2>2, JobQueueAssumption, TakesHands
    <3>2. Once(jobs', j) BY <1>2, <1>3, <1>7, <2>2, AppendPlaces
    <3> QED BY <1>5, <2>2, <3>1, <3>2 DEF InOnePlace
  <2> QED BY <2>1, <2>2
<1>10. Budget' BY <1>1, <1>2, <1>3, <1>5 DEF Budget
<1> QED BY <1>8, <1>9, <1>10, OnePlaceNext DEF IInv

LEMMA FailKeeps ==
  ASSUME IInv, NEW w \in Workers, Fail(w)
  PROVE  IInv'
<1> DEFINE k == thread[w].job
           h == [thread[w] EXCEPT !.pc = "sleep"]
<1>1. TypeOK /\ JobInOnePlace /\ Budget BY DEF IInv
<1>2. /\ thread[w].pc \in {"run", "sleep"}
      /\ attempts' = [attempts EXCEPT ![k] = @ + 1]
      /\ UNCHANGED <<jobs, stopEvent, worker, lifespan, starts>>
  BY DEF Fail
<1>3. k \in Jobs /\ Hands(k) = {w} /\ Never(jobs, k) BY <1>2, Holder
<1>4. attempts[k] \in Nat /\ attempts[k] <= MaxRetries[k] BY <1>2, Holder
<1>5. MaxRetries[k] \in Nat BY <1>3, JobQueueAssumption
<1>6. attempts' \in [Jobs -> Nat] BY <1>1, <1>2, <1>3, <1>4 DEF TypeOK
<1>7. \A j \in Jobs : attempts'[j] = IF j = k THEN attempts[k] + 1 ELSE attempts[j]
  BY <1>1, <1>2 DEF TypeOK
<1>8. jobs' \in Seq(Jobs \cup {StopJob}) BY <1>1, <1>2 DEF TypeOK
<1>9. CASE MayRetry(k)
  <2>1. status' = [status EXCEPT ![k] = "retry"] /\ thread' = [thread EXCEPT ![w] = h]
    BY <1>9 DEF Fail, Record
  <2>2. Takes(w, h) /\ h.job = k
    <3>1. thread[w] \in Thread BY <1>1 DEF TypeOK
    <3>2. h \in Thread /\ h.pc = "sleep" /\ h.job = k BY <3>1 DEF Thread
    <3> QED BY <1>3, <2>1, <3>2 DEF Takes
  <2>3. \A j \in Jobs : status'[j] = IF j = k THEN "retry" ELSE status[j]
    BY <1>1, <2>1 DEF TypeOK
  <2> HIDE DEF h
  <2>4. status' \in [Jobs -> Status] BY <1>1, <2>1 DEF TypeOK, Status
  <2>5. TypeOK' BY <1>1, <1>2, <1>6, <1>8, <2>2, <2>4, TakesKeepsType
  <2>6. ASSUME NEW j \in Jobs PROVE InOnePlace(j)'
    <3>1. CASE j # k BY <1>2, <2>2, <2>3, <3>1, OthersStay
    <3>2. CASE j = k
      <4>1. Hands(j)' = {w} BY <1>1, <1>3, <2>2, <3>2, TakesHands
      <4>2. Never(jobs', j) BY <1>2, <1>3, <3>2
      <4> QED BY <2>3, <3>2, <4>1, <4>2 DEF InOnePlace
    <3> QED BY <3>1, <3>2
  <2>7. attempts[k] + 1 <= MaxRetries[k] BY <1>9 DEF MayRetry
  <2>8. Budget' BY <1>1, <1>7, <2>3, <2>7 DEF Budget
  <2> QED BY <2>5, <2>6, <2>8, OnePlaceNext DEF IInv
<1>10. CASE ~ MayRetry(k)
  <2>1. status' = [status EXCEPT ![k] = "failed"] /\ thread' = [thread EXCEPT ![w] = Loop]
    BY <1>10 DEF Fail, Finish, Record
  <2>2. Takes(w, Loop) /\ Loop.job = StopJob BY <2>1, LoopTakes
  <2>3. \A j \in Jobs : status'[j] = IF j = k THEN "failed" ELSE status[j]
    BY <1>1, <2>1 DEF TypeOK
  <2>4. status' \in [Jobs -> Status] BY <1>1, <2>1 DEF TypeOK, Status
  <2>5. TypeOK' BY <1>1, <1>2, <1>6, <1>8, <2>2, <2>4, TakesKeepsType
  <2>6. ASSUME NEW j \in Jobs PROVE InOnePlace(j)'
    <3>1. CASE j # k BY <1>2, <2>2, <2>3, <3>1, OthersStay
    <3>2. CASE j = k
      <4>1. Hands(j)' = {} BY <1>1, <1>3, <2>2, <3>2, JobQueueAssumption, TakesHands
      <4>2. Never(jobs', j) BY <1>2, <1>3, <3>2
      <4> QED BY <2>3, <3>2, <4>1, <4>2 DEF InOnePlace
    <3> QED BY <3>1, <3>2
  <2>7. attempts[k] + 1 = MaxRetries[k] + 1 BY <1>4, <1>5, <1>10 DEF MayRetry
  <2>8. Budget' BY <1>1, <1>7, <2>3, <2>7 DEF Budget
  <2> QED BY <2>5, <2>6, <2>8, OnePlaceNext DEF IInv
<1> QED BY <1>9, <1>10

-----------------------------------------------------------------------------
(* The theorems *)

LEMMA InitHolds == Init => IInv
<1> SUFFICES ASSUME Init PROVE IInv OBVIOUS
<1>1. Dead \in Thread /\ Dead.pc = "dead" /\ Dead.job = StopJob BY DEF Dead, Thread
<1>2. \A w \in Workers : thread[w] = Dead BY DEF Init
<1>3. jobs = <<>> /\ status = [j \in Jobs |-> "new"] /\ attempts = [j \in Jobs |-> 0] BY DEF Init
<1>4. TypeOK
  <2>1. thread \in [Workers -> Thread] BY <1>1 DEF Init
  <2>2. \A w \in Workers : thread[w].pc \in {"run", "sleep"} <=> thread[w].job \in Jobs
    BY <1>1, <1>2, JobQueueAssumption
  <2>3. status \in [Jobs -> Status] BY <1>3 DEF Status
  <2>4. attempts \in [Jobs -> Nat] BY <1>3
  <2>5. jobs \in Seq(Jobs \cup {StopJob}) BY <1>3
  <2>6. stopEvent \in BOOLEAN /\ worker \in Workers \cup {NoWorker} /\ starts \in Nat BY DEF Init
  <2>7. lifespan \in {"down", "up", "stopping", "joining"} BY DEF Init
  <2> QED BY <2>1, <2>2, <2>3, <2>4, <2>5, <2>6, <2>7 DEF TypeOK
<1>5. ASSUME NEW j \in Jobs PROVE InOnePlace(j)
  <2>1. Never(jobs, j) BY <1>3 DEF Never, PlacesIn
  <2>2. Hands(j) = {} BY <1>1, <1>2, JobQueueAssumption DEF Hands
  <2> QED BY <1>3, <2>1, <2>2 DEF InOnePlace
<1>6. Budget
  <2> SUFFICES ASSUME NEW j \in Jobs
               PROVE  attempts[j] = 0 /\ status[j] = "new" /\ 0 <= MaxRetries[j]
    BY DEF Budget
  <2>1. MaxRetries[j] \in Nat BY JobQueueAssumption
  <2> QED BY <1>3, <2>1
<1> QED BY <1>4, <1>5, <1>6, OnePlaceEach DEF IInv

LEMMA NextKeeps == IInv /\ [Next]_vars => IInv'
<1> SUFFICES ASSUME IInv, [Next]_vars PROVE IInv' OBVIOUS
<1>1. CASE UNCHANGED vars
  <2>1. UNCHANGED <<jobs, stopEvent, worker, thread, lifespan, status, attempts, starts>>
    BY <1>1 DEF vars
  <2>2. TypeOK' BY <2>1 DEF IInv, TypeOK
  <2>3. JobInOnePlace' BY <2>1 DEF IInv, JobInOnePlace, Places, Hands
  <2>4. Budget' BY <2>1 DEF IInv, Budget
  <2> QED BY <2>2, <2>3, <2>4 DEF IInv
<1>2. CASE LifespanNext BY <1>2, LifespanKeeps
<1>3. CASE Crash BY <1>3, CrashKeeps
<1>4. ASSUME NEW j \in Jobs, Enqueue(j) PROVE IInv' BY <1>4, EnqueueKeeps
<1>5. ASSUME NEW w \in Workers, WorkerNext(w) PROVE IInv'
  BY <1>5, CheckStopKeeps, GetKeeps, SucceedKeeps, FailKeeps, RequeueKeeps DEF WorkerNext
<1> QED BY <1>1, <1>2, <1>3, <1>4, <1>5 DEF Next

\* The inductive invariant of the queue, its worker threads and the lifespan hook.
THEOREM InductiveInvariant == Spec => []IInv
BY InitHolds, NextKeeps, PTL DEF Spec

\* Type correctness; with it, a thread has a job just while it executes one or
\* sleeps before its retry.
THEOREM TypeCorrect == Spec => []TypeOK
<1>1. IInv => TypeOK BY DEF IInv
<1> QED BY <1>1, InductiveInvariant, PTL

\* No job is ever executed by two workers, queued twice, or queued while it is
\* executed, however often the queue is stopped and started with a busy worker.
THEOREM OnePlaceAlways == Spec => []JobInOnePlace
<1>1. IInv => JobInOnePlace BY DEF IInv
<1> QED BY <1>1, InductiveInvariant, PTL

\* A job is given up exactly when its retries are used up.
THEOREM GivenUpInTime == Spec => []RetryBudget
<1>1. ASSUME IInv PROVE RetryBudget
  <2>1. TypeOK /\ Budget BY <1>1 DEF IInv
  <2>2. ASSUME NEW j \in Jobs
        PROVE  /\ attempts[j] <= MaxRetries[j] + 1
               /\ status[j] = "failed" => attempts[j] = MaxRetries[j] + 1
               /\ attempts[j] = MaxRetries[j] + 1 => status[j] = "failed"
    <3>1. attempts[j] \in Nat /\ MaxRetries[j] \in Nat BY <2>1, JobQueueAssumption DEF TypeOK
    <3>2. /\ status[j] # "failed" => attempts[j] <= MaxRetries[j]
          /\ status[j] = "failed" => attempts[j] = MaxRetries[j] + 1
      BY <2>1 DEF Budget
    <3> QED BY <3>1, <3>2
  <2> QED BY <2>2 DEF RetryBudget
<1> QED BY <1>1, InductiveInvariant, PTL

\* A job that succeeded or was given up is never executed or queued again.
THEOREM SettledForGood == Spec => SettledJobStays
<1> DEFINE A == \A j \in Jobs : status[j] \in {"success", "failed"} => status'[j] = status[j]
<1>1. ASSUME IInv, [Next]_vars PROVE A
  <2> SUFFICES ASSUME NEW j \in Jobs, status[j] \in {"success", "failed"}
               PROVE  status'[j] = status[j]
    OBVIOUS
  <2>1. TypeOK /\ JobInOnePlace BY <1>1 DEF IInv
  <2>2. InOnePlace(j) BY <2>1, OnePlaceEach
  <2>3. Never(jobs, j) /\ Hands(j) = {} BY <2>2 DEF InOnePlace
  <2>4. \A w \in Workers : thread[w].job # j BY <2>3 DEF Hands
  <2>5. CASE UNCHANGED status BY <2>5
  <2>6. CASE Crash BY <2>6 DEF Crash
  <2>7. ASSUME NEW k \in Jobs, Enqueue(k) PROVE status'[j] = status[j]
    <3>1. status[k] = "new" /\ status' = [status EXCEPT ![k] = "queued"]
      BY <2>7 DEF Enqueue, Record
    <3> QED BY <2>1, <3>1 DEF TypeOK
  <2>8. ASSUME NEW w \in Workers, Get(w) PROVE status'[j] = status[j]
    <3>1. jobs \in Seq(Jobs \cup {StopJob}) /\ jobs # <<>> BY <2>1, <2>8 DEF TypeOK, Get
    <3>2. Head(jobs) # j BY <2>3, <3>1, TailPlaces
    <3>3. UNCHANGED status \/ status' = [status EXCEPT ![Head(jobs)] = "running"]
      BY <2>8 DEF Get, Record
    <3> QED BY <2>1, <3>2, <3>3 DEF TypeOK
  <2>9. ASSUME NEW w \in Workers, Succeed(w) \/ Fail(w) \/ Requeue(w)
        PROVE  status'[j] = status[j]
    <3>1. \E s \in Status : status' = [status EXCEPT ![thread[w].job] = s]
      BY <2>9 DEF Succeed, Fail, Requeue, Finish, Record, Status
    <3> QED BY <2>1, <2>4, <3>1 DEF TypeOK
  <2> QED
    BY <1>1, <2>5, <2>6, <2>7, <2>8, <2>9
    DEF Next, vars, LifespanNext, Start, StopSet, StopPut, StopJoin, WorkerNext, CheckStop
<1>2. A => [A]_vars OBVIOUS
<1>3. IInv /\ [Next]_vars => [A]_vars BY <1>1, <1>2
<1> QED BY <1>3, InductiveInvariant, PTL DEF Spec, SettledJobStays
=============================================================================
