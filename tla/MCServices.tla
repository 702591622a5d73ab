----------------------------- MODULE MCServices -----------------------------
(***************************************************************************)
(* The services around the trips and the money: the guard of write          *)
(* requests, the login and its lock, the support desk, trip sharing and     *)
(* chat.                                                                    *)
(*                                                                         *)
(* They share no row, no key of Redis and no dictionary, so a behaviour     *)
(* follows one of them (part) and leaves the others as they began; where    *)
(* another part has several initial states it keeps one of them.  Servers    *)
(* that only swap their names are taken once.                               *)
(***************************************************************************)
EXTENDS RequestGuard, LoginLockout, SupportDesk, TripSharing, Chat, TLC

VARIABLE part

servicesVars == <<guardVars, lockoutVars, deskVars, sharingVars, chatVars, part>>

ServicesInit ==
  /\ part \in {"guard", "lockout", "desk", "sharing", "chat"}
  /\ GuardInit /\ LockoutInit /\ DeskInit /\ SharingInit /\ ChatInit
  /\ part # "sharing" => \A d \in Departures : ride.departure <= d
  /\ \E p \in Servers :
       /\ p = CHOOSE q \in Servers : TRUE
       /\ \E s \in Sockets : home[s] = p
       /\ part # "chat" => \A s \in Sockets : home[s] = p

ServicesNext ==
  /\ \/ part = "guard" /\ GuardNext
        /\ UNCHANGED <<lockoutVars, deskVars, sharingVars, chatVars>>
     \/ part = "lockout" /\ LockoutNext
        /\ UNCHANGED <<guardVars, deskVars, sharingVars, chatVars>>
     \/ part = "desk" /\ DeskNext
        /\ UNCHANGED <<guardVars, lockoutVars, sharingVars, chatVars>>
     \/ part = "sharing" /\ SharingNext
        /\ UNCHANGED <<guardVars, lockoutVars, deskVars, chatVars>>
     \/ part = "chat" /\ ChatNext
        /\ UNCHANGED <<guardVars, lockoutVars, deskVars, sharingVars>>
  /\ UNCHANGED part

ServicesSpec == ServicesInit /\ [][ServicesNext]_servicesVars

\* Each part keeps its types.
ServicesTypeOK == GuardTypeOK /\ LockoutTypeOK /\ DeskTypeOK /\ SharingTypeOK /\ ChatTypeOK

\* Two sets of two and one of three stand for the sets of every part: TLC tries
\* every product of their permutations.
Symmetry == Permutations(Processes) \cup Permutations(Bodies) \cup Permutations(Calls)
=============================================================================
