---------------------------- MODULE TripSharing ----------------------------
(***************************************************************************)
(* Share links and live locations of one booking: create_share_token,       *)
(* revoke_share_token and get_public_trip_status of services/booking.py,    *)
(* update_location, the location readers and the clean-up of                *)
(* services/ride.py.                                                        *)
(*                                                                         *)
(* These handlers are plain functions on the thread pool and lock nothing:  *)
(* a writer commits on what it loaded, with only the columns it changed in  *)
(* its copy, and a reader answers from rows that may have moved on.  The    *)
(* status of booking and ride is written by other handlers (RideBooking,    *)
(* BookingSessions); here it just moves.                                    *)
(*                                                                         *)
(* Left out: what the answers contain beside the location, speeds, and the  *)
(* distance to the route, which refuses some updates.  Tokens are numbered  *)
(* as they are stored: a link is found by the hash of its token, and the    *)
(* booking holds one hash.                                                  *)
(***************************************************************************)
EXTENDS Naturals, FiniteSets

CONSTANTS Sharers,        \* threads that run handlers
          Departures,     \* departure times the driver may choose
          Before, After,  \* LOCATION_TRACKING_START_BEFORE / _END_AFTER_MINUTES
          Retention,      \* LOCATION_RETENTION_DAYS
          MaxTime,        \* bound: the clock
          MaxWrites       \* bound: tokens and locations stored

\* By default a location is kept thirty days, and a trip tracked for fourteen hours.
ASSUME SharingAssumption ==
  /\ IsFiniteSet(Sharers)
  /\ Departures \subseteq Nat /\ Departures # {}
  /\ Before \in Nat /\ After \in Nat /\ Retention \in Nat /\ Before + After < Retention
  /\ MaxTime \in Nat /\ MaxWrites \in Nat

VARIABLES booking,     \* status and share columns of the row
          ride,        \* status and departure_time of the row
          locations,   \* rows of ride_locations
          now,         \* the clock
          sharer,      \* what each thread is doing
          sharingPast  \* history: see SharingTypeOK

sharingVars == <<booking, ride, locations, now, sharer, sharingPast>>

NoToken == 0

\* id: drawn by the INSERT from the sequence of the table; at: created_at, read
\* from the clock of the server before.
Location == [id : Nat, at : Nat]
NoLocation == [id |-> 0, at |-> 0]

SharingTypeOK ==
  /\ booking \in [status : {"pending", "accepted", "closed", "completed"},
                  token : Nat, revoked : BOOLEAN]
  /\ booking.revoked => booking.token # NoToken
  /\ ride \in [status : {"open", "closed"}, departure : Departures]
  /\ locations \subseteq Location
  /\ now \in Nat
  /\ sharer \in [Sharers -> [pc : {"idle", "share", "revoke", "locate", "read"},
                             revoked : BOOLEAN, alone : BOOLEAN, at : Nat]]
  /\ sharingPast \in [tokens : Nat,         \* tokens stored
                      ended : SUBSET Nat,   \* tokens that were revoked
                      located : Nat,        \* locations stored
                      late : Nat,           \* stored after the ride had closed
                      shown : Location]     \* in the last answer

\* at: created_at of the location to store; alone: nobody else was about to write the link.
IdleSharer == [pc |-> "idle", revoked |-> FALSE, alone |-> TRUE, at |-> 0]

SharingInit ==
  /\ booking = [status |-> "pending", token |-> NoToken, revoked |-> FALSE]
  /\ \E d \in Departures : ride = [status |-> "open", departure |-> d]
  /\ locations = {} /\ now = 0
  /\ sharer = [t \in Sharers |-> IdleSharer]
  /\ sharingPast = [tokens |-> 0, ended |-> {}, located |-> 0, late |-> 0, shown |-> NoLocation]

Linking == {"share", "revoke"}

OtherLinking(t) == {u \in Sharers \ {t} : sharer[u].pc \in Linking}

\* A handler that writes the share columns has loaded the booking.
BeginLinking(t, pc) ==
  /\ sharer[t].pc = "idle"
  /\ sharer' = [u \in Sharers |->
       IF u = t THEN [IdleSharer EXCEPT !.pc = pc, !.revoked = booking.revoked,
                                       !.alone = OtherLinking(t) = {}]
       ELSE IF u \in OtherLinking(t) THEN [sharer[u] EXCEPT !.alone = FALSE]
       ELSE sharer[u]]
  /\ UNCHANGED <<booking, ride, locations, now, sharingPast>>

WritesLeft == sharingPast.tokens + sharingPast.located < MaxWrites

Answered(t) == sharer' = [sharer EXCEPT ![t] = IdleSharer]

-----------------------------------------------------------------------------
(* The link *)

BeginShare(t) == booking.status = "accepted" /\ BeginLinking(t, "share")

\* Mutant: an existing token is handed out again.
NextToken_Reused == IF booking.token = NoToken THEN sharingPast.tokens + 1 ELSE booking.token

NextToken == sharingPast.tokens + 1

\* Mutant: share_token_revoked_at is not reset.
StillRevoked_Kept(h) == booking.revoked

\* The reset is part of the UPDATE only if the copy was a revoked one.
StillRevoked(h) == booking.revoked /\ ~ h.revoked

CommitShare(t) ==
  /\ sharer[t].pc = "share" /\ WritesLeft
  /\ booking' = [booking EXCEPT !.token = NextToken, !.revoked = StillRevoked(sharer[t])]
  /\ sharingPast' = [sharingPast EXCEPT !.tokens = @ + 1]
  /\ Answered(t)
  /\ UNCHANGED <<ride, locations, now>>

LinkToRevoke == booking.token # NoToken /\ ~ booking.revoked

BeginRevoke(t) == LinkToRevoke /\ BeginLinking(t, "revoke")

CommitRevoke(t) ==
  /\ sharer[t].pc = "revoke"
  /\ booking' = [booking EXCEPT !.revoked = TRUE]
  /\ sharingPast' = [sharingPast EXCEPT !.ended = @ \cup {booking.token}]
  /\ Answered(t)
  /\ UNCHANGED <<ride, locations, now>>

-----------------------------------------------------------------------------
(* Who may see where the car is *)

WindowStart == IF ride.departure > Before THEN ride.departure - Before ELSE 0
WindowEnd == ride.departure + After

\* _is_location_visible_for_public_share
PublicLocationVisible == WindowStart <= now /\ now <= WindowEnd

\* get_public_trip_status finds a booking for token k.
LinkResolves(k) ==
  booking.token = k /\ ~ booking.revoked /\ booking.status \in {"accepted", "completed"}

\* get_location_access, for the passenger
AccessGranted == booking.status = "accepted" /\ ~ (now < WindowStart \/ now > WindowEnd)

\* _ensure_location_access, for the passenger
AccessEnsured ==
  /\ booking.status = "accepted"
  /\ ~ (now < WindowStart) /\ ~ (now > WindowEnd)

\* The public page or the passenger's own view: the check first ...
BeginRead(t) ==
  /\ sharer[t].pc = "idle"
  /\ \/ \E k \in 1..sharingPast.tokens : LinkResolves(k) /\ PublicLocationVisible
     \/ AccessEnsured
  /\ sharer' = [sharer EXCEPT ![t].pc = "read"]
  /\ UNCHANGED <<booking, ride, locations, now, sharingPast>>

Older(l, m) == l.at < m.at \/ (l.at = m.at /\ l.id < m.id)

\* ORDER BY created_at DESC, id DESC LIMIT 1
Latest == {l \in locations : \A m \in locations \ {l} : Older(m, l)}

\* ... then get_latest_location.
AnswerRead(t) ==
  /\ sharer[t].pc = "read"
  /\ \/ Latest = {} /\ UNCHANGED sharingPast
     \/ \E l \in Latest : sharingPast' = [sharingPast EXCEPT !.shown = l]
  /\ Answered(t)
  /\ UNCHANGED <<booking, ride, locations, now>>

-----------------------------------------------------------------------------
(* Locations *)

RideTakesLocations == ride.status = "open"

BeginLocate(t) ==
  /\ sharer[t].pc = "idle" /\ RideTakesLocations
  /\ sharer' = [sharer EXCEPT ![t] = [IdleSharer EXCEPT !.pc = "locate", !.at = now]]
  /\ UNCHANGED <<booking, ride, locations, now, sharingPast>>

\* The commit comes with the audit entry; the ride may have closed meanwhile.
CommitLocation(t) ==
  LET id == sharingPast.located + 1 IN
  /\ sharer[t].pc = "locate" /\ WritesLeft
  /\ locations' = locations \cup {[id |-> id, at |-> sharer[t].at]}
  /\ sharingPast' = [sharingPast EXCEPT !.located = id,
                                        !.late = IF ride.status = "open" THEN @ ELSE @ + 1]
  /\ Answered(t)
  /\ UNCHANGED <<booking, ride, now>>

Expired(l) == l.at + Retention < now

\* cleanup_old_locations, as a job
CleanUp ==
  /\ \E l \in locations : Expired(l)
  /\ locations' = {l \in locations : ~ Expired(l)}
  /\ UNCHANGED <<booking, ride, now, sharer, sharingPast>>

-----------------------------------------------------------------------------
(* What other handlers do to the two rows *)

BookingMoves ==
  /\ \/ booking.status = "pending" /\ \E s \in {"accepted", "closed"} : booking' = [booking EXCEPT !.status = s]
     \/ booking.status = "accepted" /\ booking' = [booking EXCEPT !.status = "closed"]
  /\ UNCHANGED <<ride, locations, now, sharer, sharingPast>>

\* complete_ride takes the accepted booking along, cancel_ride closes it.
RideCloses ==
  /\ ride.status = "open"
  /\ ride' = [ride EXCEPT !.status = "closed"]
  /\ \E s \in {"closed"} \cup (IF booking.status = "accepted" THEN {"completed"} ELSE {}) :
       booking' = [booking EXCEPT !.status = s]
  /\ UNCHANGED <<locations, now, sharer, sharingPast>>

\* update_ride
DepartureMoves ==
  /\ ride.status = "open"
  /\ \E d \in Departures \ {ride.departure} : ride' = [ride EXCEPT !.departure = d]
  /\ UNCHANGED <<booking, locations, now, sharer, sharingPast>>

Tick ==
  /\ now < MaxTime /\ now' = now + 1
  /\ UNCHANGED <<booking, ride, locations, sharer, sharingPast>>

SharingNext ==
  \/ \E t \in Sharers :
       \/ BeginShare(t) \/ CommitShare(t) \/ BeginRevoke(t) \/ CommitRevoke(t)
       \/ BeginRead(t) \/ AnswerRead(t) \/ BeginLocate(t) \/ CommitLocation(t)
  \/ CleanUp \/ BookingMoves \/ RideCloses \/ DepartureMoves \/ Tick

SharingSpec == SharingInit /\ [][SharingNext]_sharingVars

-----------------------------------------------------------------------------
\* Once a token was revoked its link shows nothing any more, whatever links the
\* passenger makes and revokes later or at the same time.
RevokedTokenStaysDead == \A k \in sharingPast.ended : ~ LinkResolves(k)

\* A link that was made while no other request wrote the share columns works as
\* long as the trip is on.
NewLinkWorks ==
  [][\A t \in Sharers :
       sharer[t].pc = "share" /\ sharer[t].alone /\ sharer'[t].pc = "idle" /\ booking.status = "accepted"
         => LinkResolves(booking.token)'
    ]_sharingVars

\* The three places that decide who sees the car agree with each other at every
\* moment, the ends of the window included.
ReadersAgree ==
  /\ AccessGranted <=> AccessEnsured
  /\ booking.status = "accepted" => (PublicLocationVisible <=> AccessEnsured)

\* A ride that is over gets only the locations that were on their way.
LateLocationsAreBounded == sharingPast.late <= Cardinality(Sharers)

\* The car never goes back to where it was seen before.
CarMovesForward ==
  [][sharingPast.shown \in locations => ~ Older(sharingPast'.shown, sharingPast.shown)]_sharingVars

\* The clean-up takes no location of a trip that is still being followed.
CleanUpSparesTrip ==
  [][\A l \in locations \ locations' : l.at < WindowStart \/ now > WindowEnd]_sharingVars
=============================================================================
