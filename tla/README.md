# MooveSaathi backend: TLA+ models, checks and proofs

This directory models the ride-sharing backend under `src/`: rides, bookings, boarding codes and
Razorpay payments, the handlers that change them and the processes, threads, jobs and webhooks that
run those handlers; the job queue; the dispatch of ride requests to drivers; login sessions and the
lock of an account; idempotency keys and rate limits; share links and locations; chat; reviews,
incidents and driver verification. TLC checks the modules on small instances; TLAPS proves the main
safety properties for every number of rides, passengers, seats, jobs, workers, requests, drivers,
processes and threads.

    tlc -config MCRideBooking_seats.cfg MCRideBooking.tla
    tlapm RideBookingProofs.tla

## 1. The system

One FastAPI application (`app/main.py`) over PostgreSQL (SQLAlchemy sessions without autoflush,
`app/db/session.py:23`), Redis (tokens, rate limits, dispatch events, chat fan-out) and an in-memory
job queue with one worker thread. The image starts a single uvicorn process.

| Component | State | Operations | Talks to |
|---|---|---|---|
| Rides (`services/ride.py`) | rides row: status, available_seats, is_active; locations | create, update, cancel, complete, update_location | bookings, payments, notifications |
| Bookings (`services/booking.py`) | bookings row: status, boarded_at, boarding OTP, share token | create, accept, reject, cancel (driver or passenger), complete, issue and verify OTP, share | rides, payments, jobs |
| Payments (`services/payment.py`) | payments row: status, provider payment id; payment_events | create, confirm, capture, refund, retry capture, retry refund, reconcile, webhook | provider, jobs, bookings |
| Provider (`services/payment_provider.py`) | the money, at Razorpay | order, capture, refund, snapshot | sends webhooks |
| Jobs (`services/job_queue.py`, `*_jobs.py`) | queue in memory, attempts, stop flag | start, stop, enqueue, run, retry | all services |
| Dispatch (`services/dispatch.py`) | requests, driver presence, dismissals | request, decline, cancel, accept, expire, presence | rides, bookings, websockets |
| Idempotency, rate limiter (`api/idempotency.py`, `core/rate_limit.py`) | Redis keys, dictionaries as a fallback | look up, execute, save; INCR, EXPIRE | all write endpoints |
| Sessions (`auth.py`, `token_store.py`, `core/security.py`) | Redis: blacklist, session data, index per user; dictionaries as a fallback | login, refresh, logout, revoke one or others, reset and change of password, session clean-up | Redis, jobs |
| Login lock (`auth.py`) | users row: failed attempts, locked until, verified | register, login, verify_email | - |
| Sharing and locations (`booking.py`, `ride.py`) | share columns of the booking, ride_locations | make, revoke and follow a link; update, read and clean up locations | rides, bookings, jobs |
| Chat (`chat.py`, `websocket/`) | messages, connections, subscriptions | send, mark seen, publish, broadcast, join and leave | Redis |
| Reviews, incidents, support, users | rows | create, answer, submit and verify a driver | bookings, payments |
| Notifications, e-mail, AI, audit, metrics, health | rows, mails, reports | append | - |

What makes the code hard:

* **Who runs when.** Ride and booking endpoints and the webhook are coroutines that call their
  service without awaiting: within one process such a handler runs undivided. Boarding, payment and
  dispatch endpoints are plain functions on the thread pool and overlap with them and with each
  other. A second process overlaps with everything.
* **What is locked.** `create_booking` and the ride handlers load the ride `FOR UPDATE`
  (`repositories/ride.py:28`); `update_status`, the boarding handlers and the payment handlers lock
  nothing. An UPDATE carries only the columns that changed since the row was loaded.
* **What is cached or kept twice.** Sessions, revoked tokens, counters and saved answers live in Redis
  and, while Redis does not answer, in a dictionary of the process; the operations on them are several
  calls each, and a handler checks its token in one step and acts on it in later ones.
* **Money moves elsewhere.** Calls to Razorpay may be refused, or carried out with the answer lost;
  a rolled-back handler keeps the calls it made; webhooks come late and in any order; retry jobs die
  with the process.

Correct means: seats are neither lost nor sold twice; closed rides and bookings stay closed; nobody
travels unboarded; the row's account of the money never runs ahead of the provider or backwards; a
completed ride has collected its fares; a webhook, a retry or a repeated request takes effect once; a
spent token and a revoked link stay dead; a job is neither lost nor run beside itself; and a client
hears of everything that was stored while it listened. `PROJECT.json` lists each hazard at its line with the
property that would catch it, or the reason why none does.

## 2. The modules

**`PaymentOps`** is one booking's payment: row status, whether the payment id is known, what happened
to the money at the provider, the retry jobs and the undelivered webhooks. It has no variables: each
method of `PaymentService` is an operator from an entry to the *set* of entries it may leave, because
the provider may refuse, obey, or obey and time out. Provider moves made without us (attempts,
automatic capture, released authorizations, settled refunds) are `GatewayMoves`. The provider is
Razorpay; `MockPaymentProvider`, amounts, signatures and failure texts are left out. Webhooks are a
set, so they are delivered in any order; an event id is remembered once processed, so a repeated
delivery is a no-op and is not a step. They are never lost, as Razorpay retries them.

**`RideBooking`** has the tables as variables: `ride`, `booking`, `pay`, and `capacity`, a history
variable holding the seats a ride has in all. A booking is the (ride, passenger) pair of the unique
constraint. Every handler is one atomic action: `CreateRide`, `UpdateRide`, `CancelRide`,
`CompleteRide` with its 409 outcome `CompleteRideConflict`, `CreateBooking`, `AcceptBooking`,
`RejectBooking`, `CancelByDriver`, `CancelByPassenger`, `CompleteBooking`, `IssueBoardingOtp`,
`VerifyBoardingOtp`, the payment handlers, `RunJob`, `DeliverWebhook` and `Restart`. `MatchRequest` is
the ride and booking a matched dispatch request creates. Answers that change nothing (403, 404, 400)
are disabled actions.

**`SeatLedger`** is the abstract specification of seats: a ride has a capacity and a *set* of holders;
seats are taken only if free. `RideBooking` implements it under `Ledger` (`holders` are the accepted
and completed bookings, `state` is read off the ride's status).

**`BookingSessions`** extends `RideBooking` with the same ride and booking handlers cut into `Begin…`
(load and check) and `Commit…` (write and commit): `session` holds the rows each loop or thread has
loaded. `Loops` are event loops, one per API process; `Threads` are pool threads, which run the
boarding handlers. `Locked` is the row lock, `Update` the partial UPDATE.

**`JobQueue`** is the queue, its worker threads and the lifespan hook. `jobs` is `_jobs`, `stopEvent`
and `worker` are the fields of the same name, `thread[w]` says what a worker thread is doing and with
which job, `status[j]` is the last event recorded for a job. `Start`, `StopSet`/`StopPut`/`StopJoin`
are `start()` and the three statements of `stop()`; `CheckStop`, `Get`, `Succeed`, `Fail` and `Requeue`
are `_run` and `_execute`, where `Fail` leaves a retried job in the hands of its worker, which sleeps.
`stop()` joins for five seconds only, so a restarted queue may have two workers; `StopJoin` is
therefore always possible. A job here is any job; what a payment job does is `RunJob` of `RideBooking`.

**`Dispatch`** is ride requests, driver presence and their handlers on the thread pool, each with a
session of its own: `session[t]` holds where a handler is, the requests it listed to expire and the
status it read. All but the presence handlers begin with `ListExpirable`, `UpdateExpired`,
`CommitExpired`, a transaction of its own. `accept_request` is `CheckPresence`, `LockRequest` (SELECT
FOR UPDATE), `CommitMatch`; `cancel_request` decides on the copy it loaded first. `LockedByOthers` are
the rows locked by other transactions. `trips` are the rides created.

**`PaymentSessions`** extends `PaymentOps` with the handlers of one payment as they overlap: `hand[t]`
is a handler with its `copy` of the row, the `new` row it will write, and the jobs it will queue.
`Begin…` loads, `Ask` and `AskSnapshot` call the provider, `Commit…` writes the columns that differ
(`Updated`); booking handlers `Flush` their UPDATE first, and a flushed row is locked until its handler
commits or rolls back (`RowIsFree`). A webhook is looked up, applied and recorded at its commit. Booking and ride handlers take the event loop one at a time (`LoopIsFree`); `create`,
`confirm`, `reconcile`, `capture` and the webhook run on the pool, `captureJob` and `refundJob` in the
worker. Retries are queued before the outer handler commits, as in the code, and commits may fail.

**`Sessions`** is the token store and the token handlers: `blacklist`, `hashes` (`token:session:*`) and
`index` (`token:sessions:*`) are the Redis keys, `memory` the three dictionaries, `life[p]` what became
of a token pair, and `handler[t]` a thread between two Redis calls. Login, refresh, logout, revoking one
session or the others, the two password changes and the clean-up job are actions, with outages, expiries
and ends of the process between any two. **`LoginLockout`** is the failure counter and the lock of one
account, each login cut into its load and its commits.

**`RequestGuard`** is what stands before a handler: `Count` and `SetExpiry` are INCR and EXPIRE of
`RateLimiter.enforce`; `LookUp`, `Execute` and `Save` are the three steps of `idempotent_execute`.
`counter` and `records` are in Redis, `local[p]` in a process. Expiry, outages and crashes may come
between any two steps.

**`TripSharing`** is the link and the locations of one booking: `create_share_token`,
`revoke_share_token`, the public link, `update_location`, the three computations of the tracking window
and the clean-up, on a clock of a few ticks. **`Chat`** is the messages of one booking: threads that
store, commit and publish (with the one retry of the code), a coroutine and a Redis subscription per
socket, the inbox of each subscription, and the broadcast of the connection manager, which works on a
copy of the connections. **`SupportDesk`** is the profile, rating and report rows several people write:
each handler commits the columns that differ from what it loaded.

`Sessions`, `RequestGuard`, `LoginLockout`, `TripSharing`, `Chat` and `SupportDesk` carry history
variables (`past`, `guardPast`, …): they record what a property speaks of and no handler reads them, but
for the counters that serve as bounds.

**`MCRideBooking`, `MCBookingSessions`, `MCJobQueue`, `MCDispatch`, `MCSessions`,
`MCPaymentSessions`** give the constants their values. **`MCServices`** checks five modules in one
instance: they share no row, no Redis key and no dictionary, so a behaviour follows one of them (`part`)
and leaves the others as they began. Their sets share model values, so that one symmetry serves them all;
the servers of the chat have distinct homes and one of them is fixed instead.

**`PaymentOpsProofs`, `RideBookingProofs`** (also about `BookingSessions`)**, `PaymentSessionsProofs`,
`JobQueueProofs`, `DispatchProofs`, `SessionsProofs`, `RequestGuardProofs`, `ServicesProofs`** (login
lock, support desk, sharing, chat and `MCServices`) hold the theorems. Definitions such
as `Locked_Never` state a plausible bug; no specification uses them, they show that a property would
notice.

## 3. What the runs show

| Run | Instance | Result |
|---|---|---|
| `seats` | 2 rides, 3 bookings, 1 or 2 seats, cash | seat conservation, empty cancelled rides, boarding before completion; `SeatLedger` is implemented |
| `money` | 1 ride, 2 bookings, one paid online | captures are announced, completion collects fares |
| `one_process` | 1 loop, 2 threads, 2 bookings, 2 seats | every commit is a whole step of `RideBooking` or records a boarding; closed bookings stay closed |
| `two_processes` | 2 loops, 2 bookings, 2 seats | new bookings only on open rides, nobody waits on a cancelled one |
| `payments` | 1 payment, any 2 overlapping handlers | no phantom money; a row behind or moved back is explained by a lost update; webhooks take effect once; refunds are due; completion is paid |
| `jobs` | 3 jobs with 0, 1 and 2 retries, 2 workers, 3 starts, fair | a job is in one place, retries are counted right, jobs of the first lifespan settle, `stop()` ends the worker |
| `dispatch_races` | 2 requests, 2 drivers, 2 threads | one trip per match, and only for a request open at that moment |
| `sessions` | 4 token pairs, a reset token, 2 pool threads and the worker, 4 requests, 1 event | a refresh token is spent, open sessions are indexed, a password change ends the others |
| `services` | see below | limits admit what they should, answers are the request's own, keys run once, guesses are bounded, revoked links are dead and new ones work, sockets hear what was stored, lone handlers are not undone |
| `completed_ride_revived` | 1 ride, 2 bookings | **violated**: accepting a left-over booking reopens a completed ride |
| `boarding_after_cancel` | 1 loop, 1 thread | **violated**: a booking cancelled meanwhile is boarded |
| `matched_request_cancelled` | 2 threads | **violated**: a matched request is cancelled, its trip stays |

Bounds. `MaxSeats = 2` is the smallest size with a free, a partly taken and a full ride; two bookings
compete for one ride and the third shows that rides do not disturb each other. One online payer is
enough for the payment rules, which speak of one payment, and the second, cash-paying booking lets
`complete_ride` meet a mixed set. Jobs and webhooks are sets, so no counter needs a bound: a job that
ran may stay queued, which also covers retries and duplicates. Bookings of one ride, loops, threads,
token pairs and handlers are interchangeable, so these runs use symmetry. Deadlock is not checked: every
ride may be closed and every payment settled, every bound used up, after which nothing is left to do.

`MaxStarts` bounds the calls of `start()`: two are needed for a stale worker or sentinel to meet a new
worker, the third lets them meet again. Two workers are the most that one restart overlaps, and budgets
0, 1 and 2 cover giving up at once, a last retry and one in between. Two requests of one passenger and
two drivers are what the dispatch rules speak of, and two handlers overlap.

`payments` has two hands, about 4.8 million states: a third handler adds no new kind of lost update, and
the proofs cover any number. `sessions` has a pair to steal an index entry from, one to revoke, one
exchanged for another, and the worker as a third thread; `MaxCalls = 4` requests and one outage, restart
or expiry (`MaxEvents`), about 350,000 states. `services` (about a million states): limit 2 with three requests,
so that one is over it; two processes, one key, two payloads, two ends of a window, outages or crashes;
three logins for a limit of three failures; four support handlers on two threads; three writes of links
or locations and four moments of the clock, with departures that may move and a retention one longer than
the window; two sockets that may share a server or not, one message, seen twice, one outage.

Fairness. Only `jobs` assumes any: `WF(WorkerNext(w))` for each worker, because the interpreter schedules
every thread, handlers return or raise (their calls to Redis, SMTP and Razorpay have time-outs) and
`sleep` ends; and `WF(StopPut \/ StopJoin)`, because `stop()` is straight-line code whose join has a
time-out. Nothing is assumed of `Start`, `StopSet`, `Enqueue` or the outcome of a job. `JobSettles` is
claimed for the jobs of the first lifespan, while the application is up, which is all `main.py` gives a
process: in a later one a worker that was stopped by the event has left its sentinel in the queue, and the
next worker takes it and ends. `WorkerStops` allows that `start()` comes first, since it clears the event
under a worker that is still busy.

The violated properties quote a message of the repository and happen in the default deployment;
`PROJECT.json` gives the lines.

### What does not hold, and is not claimed

The properties are worded around these behaviours, which the models have because the code has them.

* `SeatConservation` and `LedgerSpec` fail with two event loops: `update_status` locks nothing, and two
  processes accept two bookings from one snapshot of the last seat. The image starts one process.
* A matched request does not stay matched: an expiry or a cancellation that read it earlier overwrites
  its status, never its driver or its trip. Two creations at once give a passenger two open requests.
* A booking completed alone escapes the capture of `complete_ride`, and a capture retry charges a booking
  that was cancelled meanwhile. Cancelling a ride or rejecting a booking asks for no refund.
* A payment handler whose copy is older than the row moves the row back (`payPast.lost`), and a failed
  first attempt may hide a later capture (`payPast.failed`); reconciliation repairs only the former.
* `RefreshTokenIsSpent` bounds the exchanges of a refresh token by the number of threads, since
  overlapping refreshes all pass the check, and leaves out a session revoked twice, whose second
  blacklist entry lasts a second (`past.shortened`). A session indexed while another handler
  empties the index is missed by later password changes (`past.orphaned`); one closed by
  `revoke_session` keeps its tokens, and no property speaks of it. The blacklist in memory dies with its process and is
  not consulted once Redis is back, hence `NoOutage`.
* A key runs once per overlapping process, and again for each time its answer expired, Redis went away or
  a process crashed: `ExecutionsAreBounded` counts exactly those. A counter is left without expiry by a crash or
  an outage between its two calls, as `CounterExpires` says.
* Overlapping wrong passwords are counted as one, and a late one sets the counter back for all:
  `GuessesAreBounded` says by how much the lock is late (`Rounds`, exponential in the limit).
* Overlapping handlers of one profile, rating, report or link mix their columns: new data approved unseen,
  a rating that leaves a review out, a closed report without its time, a link that is dead at birth.
  `LoneHandlerStands` and `NewLinkWorks` claim the result for a handler that was alone with its columns.

## 4. What is proved

**Rides, bookings and money.** For any finite set of bookings, any rides, any positive `MaxSeats` and any
set of online payers (`ConstantsAssumption`), `RideBookingProofs` proves as theorems of `Spec`: `TypeOK`,
`SeatConservation`, `RideFlagsAgree`, `CancelledRideIsEmpty`, `BoardedBeforeCompleted`,
`NoPhantomMoney`, `CaptureIsAnnounced`; the action properties `CancelledRideIsFinal`,
`ClosedBookingIsFinal`, `PaymentNeverMovesBack`, `CompletionCollectsFares`; and `LedgerSpec`, the
refinement. The argument is one inductive invariant, `IInv == TypeOK /\ MoneyOK /\ SeatInv`:

* `MoneyOK` says every payment is `Sound`: the row and the undelivered webhooks agree with the
  gateway. `NoPhantomMoney` alone is not inductive, since a webhook still to come could claim a
  capture that never was; `Sound` excludes that. `PaymentOpsProofs` proves for each method that it
  keeps `Sound` and never moves a settled row back (`Good`), following the calls the method makes:
  lookup, provider call, store, queue. What a rolled-back capture leaves needs one more fact, that a
  capture carried out adds its webhook (`CaptureGood`).
* `SeatInv` adds `UnpublishedRideIsEmpty` to the seat invariants, without which `CreateRide` and
  `MatchRequest` would start from a wrong count. `CancelledRideIsEmpty` is what makes accepting and
  cancelling a booking safe although neither reads the ride's status.
* The refinement maps `UpdateRide` to `Resize`, `AcceptBooking` to `Take`, a cancelled accepted
  booking to `Give`, and both completions to stutters: one lemma per action.

**Overlapping ride and booking handlers.** For any number of event loops and threads, the row locks
exclude each other, a locked ride's row is still the one its handler loaded, and a cancelling handler
holds every booking that waits (no new one can be inserted under its lock). From these
`NobodyWaitsOnCancelledRide` and `NewBookingOnOpenRide` follow. With one event loop (`OneProcess`, a
hypothesis of five theorems and no assumption of a module; the image starts one) more is true:
`HandlersAreAtomic`, the reduction of the cut handlers to those of `RideBooking`. Its invariant `OneInv`
adds `IInv`, that a loop's handler still sees the ride and the statuses it loaded (`LoopSees`), and that
what it decided is still due (`StillDue`); boarding handlers keep both because they write only codes and
boardings, and nobody is un-boarded. Each commit is then one action of `RideBooking`, column by column, so
the seat rules, the finality of bookings and `LedgerSpec` carry over, for any number of boarding threads.

**Overlapping payment handlers.** `PaymentSessionsProofs`, for any number of handlers of a payment:
the types, `NoPhantomMoney`, `EventsTakeEffectOnce`, `RefundIsForCancelled`,
`MovesBackOnlyByLostUpdate`, `CompletionIsPaid` and `BehindOnlyByLostUpdate`. That the row is backed by the gateway is inductive only together with `HandsOK`: what
each handler loaded and is about to write claims no money that was not made, and moves forward from its
copy. Both survive other handlers because money taken is never untaken (`MoneyTaken` is left by nothing).
`EventsOK` says an event is emitted once and applied or still pending, `LoopOK` that one booking handler
runs at a time, `RefundOK` that a refund, asked or queued, comes from a cancellation. `BehindInv` adds that, unless an update was lost or an attempt failed, a capture whose webhook was applied
is in the row and in what every handler is about to write.

**Jobs.** `JobQueueProofs` proves `TypeOK`, `JobInOnePlace`, `RetryBudget` and `SettledJobStays`, for any
jobs, budgets, workers and lifespans. `JobInOnePlace` is inductive with the types and with `Budget`, which
says how many attempts a job has used by its status. The lemmas on sequences say that appending a value
puts it at one new place and that taking the head takes one away.

**Dispatch.** `DispatchProofs` proves `TypeOK`, `OneTripPerMatch` and `TripForOpenRequest`, for any
requests, drivers and threads. The invariant says that no row is locked twice, that a request locked by an
accepting handler stays open until the commit, and that an open request has no driver yet: together, the
second driver finds the request closed.

**Sessions.** `SessionsProofs`, for any token pairs, reset tokens and pool threads: the types,
`RefreshTokenIsSpent`, `MemoryIsIndexed`, `OpenSessionIsIndexed` and `PasswordChangeEndsSessions`. The
invariant says what each thread between two Redis calls may rely on: a token that passed the check is
held by that thread, which is one exchange to come, so exchanges made and to come are at most one per
thread; a session being revoked is still listed or already refused; and what is taken from the
dictionaries is taken with its index entry.

**The request guard.** `RequestGuardProofs`, for any processes, requests, keys and payloads: the types,
`AnswerIsOwn`, `CounterExpires`, `AdmissionsArePaid` and `ExecutionsAreBounded`. A request keeps its
payload from its count to its answer, what is replayed was saved for an equal payload, and Redis is away
only when an outage was counted. The last two are sums over processes. They are counted as cardinalities
of sets of tokens (`Units`): what a window or a process may still admit or execute is a set of pairs, each
step takes one token out for what it does, and the events that excuse a repetition put theirs in.

**The services around them.** `ServicesProofs`, for any threads, servers, sockets, reviewers and limits:

* `GuessesAreBounded`: the guesses made and what each thread may still guess from the level it works on
  (`Worth`, counted as tokens too) never exceed what they were at the start; a thread that sets the
  counter back spends what it gives to the others. The recursive function `Rounds` is unfolded by a least
  counterexample over the naturals.
* `LoneHandlerStands`: a handler alone with its columns has loaded what the row says, and the average it
  writes is that of the reviews visible at its commit.
* Sharing, for any departures and any window shorter than the retention: `RevokedTokenStaysDead`,
  `NewLinkWorks`, and four properties TLC has checked but no run repeats: the three computations of the
  window agree, a closed ride gets at most one more location per thread, what passengers see never runs
  backwards, and the clean-up deletes nothing that may be followed. Tokens are numbered as they are
  stored, and each late location is paid by a thread that was storing one when the ride closed.
* Chat: `AnnouncedIsCommitted`, `ManagerIsExact`, `QuietSocketHasAll`. The invariant places each socket in
  its manager by where its coroutine is, bounds what a broadcast may drop by the sockets that are gone,
  and follows each event from its commit through the inbox to the client.
* `ServicesAreIndependent`: a behaviour of `MCServices` satisfies the specification of each of its five
  parts, so all of the above holds in the composition the run explores; `ServicesTypesHold` is one case.

The theorems rest on the `ASSUME`s of the modules, the five on one process also on `OneProcess`, and
nothing else. Every invariant and action property of a passing run is now a theorem. Proved, and not
repeated in a run: the types of `RideBooking`, `JobQueue` and `Dispatch`, `RideFlagsAgree`,
`CancelledRideIsFinal`, `PaymentNeverMovesBack`, `SettledJobStays`, four properties of sharing.
Model-checked only: liveness (`JobSettles`, `WorkerStops`), which like ENABLED is out of the prover's
reach, and the three violated properties, which have counterexamples. Induction over data is avoided
rather than absent: sums are cardinalities, and `Rounds` is a function whose defining equation is proved
from the library's facts on naturals; nothing is claimed of a RECURSIVE operator.

## 5. Not modelled, and the plan

Not modelled, with the reasons: notifications and mails (rows and messages no handler reads back; their
delivery is that of any job); the AI assistants (stateless text); audit, metrics, health and deployment
checks (append-only records and read-only reports); searches, lists and details, which change nothing.

Left out of modelled parts: dismissals, driver positions and websocket events of dispatch; typing events
and access checks of the chat; `update_user`; reminders and the audit retention among the jobs, and the
synchronous mode of the queue, which runs a job in its caller and has no state of its own; the mock
payment provider, amounts and signatures. A refund that fails after the row says refunded only writes a
failure text; the model has the gateway side of it.

That requests expire (`expire_stale_requests`) depends on somebody calling an endpoint: the periodic job
has no caller, so there is no scheduling to state fairness about, and no liveness is claimed for dispatch.

What would come next:

1. An abstract specification of dispatch, a request matched at most once, implemented by `Dispatch`, and
   one of the idempotency keys, implemented by `RequestGuard`.
2. A bound for `GuessesAreBounded` that is tight, and the windows of `AdmissionsArePaid` one by one.
3. `PaymentSessions` with one hand as a refinement of the payment of `RideBooking`.
4. Dismissals and positions in `Dispatch`; a third hand in `payments` on a larger machine.
