------------------------------ MODULE Dispatch ------------------------------
(***************************************************************************)
(* services/dispatch.py: passengers ask for a ride now, drivers who are     *)
(* online accept, requests whose departure time has passed expire.          *)
(*                                                                         *)
(* The endpoints are plain functions: each runs on a thread of the pool     *)
(* with a database session of its own, READ COMMITTED.  The model cuts a    *)
(* handler where another one can come in between: after each load, and at   *)
(* each commit.  accept_request is the only one that locks the request row. *)
(*                                                                         *)
(* Every handler but the presence ones and decline begins by expiring the   *)
(* open requests that are due, in a transaction of its own.  An object the  *)
(* session has loaded keeps its loaded values (expire_on_commit is off), so *)
(* cancel_request decides on the status it read first.                      *)
(*                                                                         *)
(* Left out: positions (a driver too far away is refused, and nothing       *)
(* changes), dismissals (they only filter a listing), and the ride and the  *)
(* booking behind a trip, which MatchRequest of RideBooking creates.        *)
(***************************************************************************)
EXTENDS Naturals, FiniteSets

CONSTANTS Requests,     \* the rows ride_requests may get
          Passengers,
          PassengerOf,  \* PassengerOf[q]: the passenger who asks for q
          Drivers,      \* verified drivers
          NoDriver,     \* matched_driver_id is NULL
          Threads       \* the threads of the pool

ASSUME DispatchAssumption ==
  /\ PassengerOf \in [Requests -> Passengers]
  /\ NoDriver \notin Drivers

VARIABLES request,   \* the ride_requests rows
          presence,  \* the driver_availability rows
          trips,     \* the rides accept_request created: <<request, driver>>
          session    \* the handler each thread is executing

vars == <<request, presence, trips, session>>

Closed == {"matched", "cancelled", "expired"}

RequestRow == [status : {"none", "open"} \cup Closed, due : BOOLEAN,
               driver : Drivers \cup {NoDriver}]

Presence == {"none", "offline", "online", "stale"}

\* list: the requests this handler expires; seen: the status cancel_request read.
Handler == [op : {"browse", "create", "accept", "cancel"},
            pc : {"list", "update", "expire", "act", "lock", "write"},
            request : Requests, driver : Drivers \cup {NoDriver},
            list : SUBSET Requests, seen : {"none", "open"} \cup Closed]

Idle == [op |-> "idle"]

TypeOK ==
  /\ request \in [Requests -> RequestRow]
  /\ \A q \in Requests : request[q].status = "matched" => request[q].driver # NoDriver
  /\ presence \in [Drivers -> Presence]
  /\ trips \subseteq Requests \X Drivers
  /\ session \in [Threads -> Handler \cup {Idle}]

Init ==
  /\ request = [q \in Requests |-> [status |-> "none", due |-> FALSE, driver |-> NoDriver]]
  /\ presence = [d \in Drivers |-> "none"]
  /\ trips = {}
  /\ session = [t \in Threads |-> Idle]

Expirable == {q \in Requests : request[q].status = "open" /\ request[q].due}

\* The request rows thread t holds locks on: written and not committed, or read
\* FOR UPDATE.
Rows(t) ==
  {q \in Requests :
     /\ session[t] # Idle
     /\ \/ session[t].pc = "expire" /\ q \in session[t].list
        \/ session[t].op = "accept" /\ session[t].pc = "write" /\ q = session[t].request}

LockedByOthers(t) == UNION {Rows(u) : u \in Threads \ {t}}

Goto(t, pc) == session' = [session EXCEPT ![t].pc = pc]
Return(t)   == session' = [session EXCEPT ![t] = Idle]

At(t, op, pc) == session[t] # Idle /\ session[t].op = op /\ session[t].pc = pc

-----------------------------------------------------------------------------
(* expire_stale_open_requests, at the beginning of a handler *)

Begin(t, op, q, d, pc) ==
  /\ session[t] = Idle
  /\ session' = [session EXCEPT ![t] = [op |-> op, pc |-> pc, request |-> q, driver |-> d,
                                        list |-> {}, seen |-> request[q].status]]
  /\ UNCHANGED <<request, presence, trips>>

BeginBrowse(t) == \E q \in Requests : Begin(t, "browse", q, NoDriver, "list")

BeginCreate(t, q) == request[q].status = "none" /\ Begin(t, "create", q, NoDriver, "list")

BeginAccept(t, q, d) == request[q].status # "none" /\ Begin(t, "accept", q, d, "list")

\* cancel_request loads its request before it expires any.
BeginCancel(t, q) == request[q].status # "none" /\ Begin(t, "cancel", q, NoDriver, "list")

ListExpirable(t) ==
  /\ session[t] # Idle /\ session[t].pc = "list"
  /\ session' = [session EXCEPT ![t].list = Expirable,
                                ![t].pc = IF Expirable = {} THEN "act" ELSE "update"]
  /\ UNCHANGED <<request, presence, trips>>

\* The UPDATEs wait for the locks of others.  Events and notifications, which go
\* out before the commit, are left out.
UpdateExpired(t) ==
  /\ session[t] # Idle /\ session[t].pc = "update"
  /\ session[t].list \cap LockedByOthers(t) = {}
  /\ Goto(t, "expire")
  /\ UNCHANGED <<request, presence, trips>>

CommitExpired(t) ==
  /\ session[t] # Idle /\ session[t].pc = "expire"
  /\ request' = [q \in Requests |->
                   IF q \in session[t].list THEN [request[q] EXCEPT !.status = "expired"]
                   ELSE request[q]]
  /\ Goto(t, "act")
  /\ UNCHANGED <<presence, trips>>

\* A driver not heard of for a while is marked offline, which is all that
\* list_nearby_requests and accept_request do to presence.
MarkOffline(d) == presence' = [presence EXCEPT ![d] = IF @ = "stale" THEN "offline" ELSE @]

\* list_my_requests has nothing more to write, list_nearby_requests of driver d
\* looks at d's presence.
EndBrowse(t) ==
  /\ At(t, "browse", "act") /\ Return(t)
  /\ UNCHANGED presence \/ \E d \in Drivers : MarkOffline(d)
  /\ UNCHANGED <<request, trips>>

-----------------------------------------------------------------------------
(* create_request *)

Open(p) == {q \in Requests : PassengerOf[q] = p /\ request[q].status = "open"}

MayOpen(p) == Open(p) = {}

CheckNoOpenRequest(t) ==
  /\ At(t, "create", "act")
  /\ \/ MayOpen(PassengerOf[session[t].request]) /\ Goto(t, "write")
     \/ ~ MayOpen(PassengerOf[session[t].request]) /\ Return(t)
  /\ UNCHANGED <<request, presence, trips>>

\* Inserts the row, unless another handler took this slot meanwhile (it inserts
\* another row then).  The departure time is the passenger's and may have passed.
CommitCreate(t) ==
  LET q == session[t].request IN
  /\ At(t, "create", "write") /\ request[q].status = "none"
  /\ \E late \in BOOLEAN :
       request' = [request EXCEPT ![q] = [status |-> "open", due |-> late, driver |-> NoDriver]]
  /\ Return(t)
  /\ UNCHANGED <<presence, trips>>

-----------------------------------------------------------------------------
(* cancel_request *)

\* Its own copy of the request is open, and was not among those it expired.
MayCancel(h) == h.seen = "open" /\ h.request \notin h.list

RefuseCancel(t) ==
  /\ At(t, "cancel", "act") /\ ~ MayCancel(session[t])
  /\ Return(t)
  /\ UNCHANGED <<request, presence, trips>>

CommitCancel(t) ==
  LET q == session[t].request IN
  /\ At(t, "cancel", "act") /\ MayCancel(session[t])
  /\ q \notin LockedByOthers(t)
  /\ request' = [request EXCEPT ![q].status = "cancelled"]
  /\ Return(t)
  /\ UNCHANGED <<presence, trips>>

-----------------------------------------------------------------------------
(* accept_request *)

\* A driver who is not online, or not heard of for a while, is refused.
CheckPresence(t) ==
  LET d == session[t].driver IN
  /\ At(t, "accept", "act")
  /\ \/ presence[d] = "online" /\ Goto(t, "lock") /\ UNCHANGED presence
     \/ presence[d] # "online" /\ MarkOffline(d) /\ Return(t)
  /\ UNCHANGED <<request, trips>>

\* Mutant: the request is read without waiting for the lock of another driver.
LockRequest_NoWait(t) ==
  LET q == session[t].request IN
  /\ At(t, "accept", "lock")
  /\ \/ request[q].status = "open" /\ Goto(t, "write")
     \/ request[q].status # "open" /\ Return(t)
  /\ UNCHANGED <<request, presence, trips>>

\* Mutant: the status of the locked request is not checked.
LockRequest_Unchecked(t) ==
  /\ At(t, "accept", "lock")
  /\ session[t].request \notin LockedByOthers(t)
  /\ Goto(t, "write")
  /\ UNCHANGED <<request, presence, trips>>

\* SELECT ... FOR UPDATE waits for every writer and reads what it committed.
LockRequest(t) ==
  LET q == session[t].request IN
  /\ At(t, "accept", "lock")
  /\ q \notin LockedByOthers(t)
  /\ \/ request[q].status = "open" /\ Goto(t, "write")
     \/ request[q].status # "open" /\ Return(t)
  /\ UNCHANGED <<request, presence, trips>>

CommitMatch(t) ==
  LET q == session[t].request
      d == session[t].driver IN
  /\ At(t, "accept", "write")
  /\ request' = [request EXCEPT ![q].status = "matched", ![q].driver = d]
  /\ trips' = trips \cup {<<q, d>>}
  /\ Return(t)
  /\ UNCHANGED presence

\* The database connection is lost: the handler's transaction is rolled back.
Abort(t) ==
  /\ session[t] # Idle
  /\ Return(t)
  /\ UNCHANGED <<request, presence, trips>>

-----------------------------------------------------------------------------
(* Presence, and time *)

SetPresence(d, from, to) ==
  /\ presence[d] \in from
  /\ presence' = [presence EXCEPT ![d] = to]
  /\ UNCHANGED <<request, trips, session>>

UpsertDriverPresence(d) == \E p \in {"online", "offline"} : SetPresence(d, Presence, p)
TouchDriverPresence(d)  == SetPresence(d, {"stale"}, "online")
GetDriverPresence(d)    == SetPresence(d, {"stale"}, "offline")
CleanupPresence(d)      == SetPresence(d, {"stale", "offline"}, "none")
PresenceGoesStale(d)    == SetPresence(d, {"online"}, "stale")

DepartureTimePasses(q) ==
  /\ request[q].status # "none" /\ ~ request[q].due
  /\ request' = [request EXCEPT ![q].due = TRUE]
  /\ UNCHANGED <<presence, trips, session>>

HandlerNext(t) ==
  \/ BeginBrowse(t)
  \/ \E q \in Requests : \/ BeginCreate(t, q) \/ BeginCancel(t, q)
                         \/ \E d \in Drivers : BeginAccept(t, q, d)
  \/ ListExpirable(t) \/ UpdateExpired(t) \/ CommitExpired(t) \/ EndBrowse(t)
  \/ CheckNoOpenRequest(t) \/ CommitCreate(t)
  \/ RefuseCancel(t) \/ CommitCancel(t)
  \/ CheckPresence(t) \/ LockRequest(t) \/ CommitMatch(t)
  \/ Abort(t)

PresenceNext(d) ==
  \/ UpsertDriverPresence(d) \/ TouchDriverPresence(d) \/ GetDriverPresence(d)
  \/ CleanupPresence(d) \/ PresenceGoesStale(d)

Next ==
  \/ \E t \in Threads : HandlerNext(t)
  \/ \E d \in Drivers : PresenceNext(d)
  \/ \E q \in Requests : DepartureTimePasses(q)

Spec == Init /\ [][Next]_vars

-----------------------------------------------------------------------------
(* Whatever the handlers do to each other *)

\* "request acceptance is single winner": a request has the trip of the driver
\* its row names and no other, also when drivers accept at the same time and
\* when the row's status is overwritten later.
OneTripPerMatch ==
  trips = {<<q, request[q].driver>> : q \in {r \in Requests : request[r].driver # NoDriver}}

\* No trip is created for a request cancelled, expired or matched meanwhile.
TripForOpenRequest ==
  [][\A q \in Requests, d \in Drivers :
       <<q, d>> \in trips' /\ <<q, d>> \notin trips => request[q].status = "open"]_vars

(* What only one handler at a time guarantees *)

\* "Only open ride requests can be cancelled".
OnlyOpenIsCancelled ==
  [][\A q \in Requests :
       request[q].status # "cancelled" /\ request'[q].status = "cancelled"
         => request[q].status = "open"]_vars
=============================================================================
