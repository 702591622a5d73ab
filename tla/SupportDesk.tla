---------------------------- MODULE SupportDesk ----------------------------
(***************************************************************************)
(* What several people write about one user: the driver's profile           *)
(* (services/user.py) and the desk that verifies it (services/support.py),  *)
(* reviews and the rating made of them (services/review.py), and incident   *)
(* reports (services/incident.py).                                          *)
(*                                                                         *)
(* All these handlers are plain functions on the thread pool.  None of them *)
(* locks what it loads: it works on a copy, and its UPDATE carries only the *)
(* columns that differ from what it loaded.  So handlers that overlap mix   *)
(* their columns, and this module is about what that does.                  *)
(*                                                                         *)
(* Left out: free text, the audit log and the notices.  One driver, the     *)
(* reviews of one user and one incident report stand for all.               *)
(***************************************************************************)
EXTENDS Naturals, FiniteSets

CONSTANTS Clerks,       \* threads that run handlers
          Reviewers,    \* the other party of each completed booking, at most three
          MaxHandled    \* bound: handlers begun

ASSUME DeskAssumption ==
  /\ IsFiniteSet(Clerks) /\ MaxHandled \in Nat
  /\ IsFiniteSet(Reviewers)

VARIABLES user,      \* the row of the user
          reviews,   \* the rating each reviewer gave, 0 for none
          incident,  \* the row of the incident report
          clerk,     \* what each thread is doing
          deskPast   \* history: see DeskTypeOK

deskVars == <<user, reviews, incident, clerk, deskPast>>

Ratings == {1, 5}
Scale == 6          \* averages of up to three ratings are whole multiples of 1/6

\* version counts what the driver submitted.
UserRow == [version : Nat, status : {"pending", "verified", "rejected"},
            reason : {"none", "plate", "licence"}, rating : Scale .. 5 * Scale]

IncidentRow == [status : {"open", "reviewing", "resolved", "dismissed"}, resolvedAt : BOOLEAN]

Closed == {"resolved", "dismissed"}

\* Handlers of one topic write the same columns.
Topic(op) == IF op \in {"submit", "verify", "reject"} THEN "profile" ELSE op

\* copy, file: the rows as loaded; arg: the payload; alone: no other handler of
\* this topic was in progress since it began.
Clerk == [pc : {"idle", "loaded", "averaged"},
          op : {"none", "submit", "verify", "reject", "review", "incident"},
          copy : UserRow, file : IncidentRow,
          arg : {"none", "plate", "licence", "open", "reviewing", "resolved", "dismissed"},
          reviewer : Reviewers \cup {"none"}, stars : Ratings \cup {0}, average : Nat,
          alone : BOOLEAN]

DeskTypeOK ==
  /\ user \in UserRow /\ incident \in IncidentRow
  /\ reviews \in [Reviewers -> Ratings \cup {0}]
  /\ clerk \in [Clerks -> Clerk]
  /\ deskPast \in [approved : Nat,   \* the version support last approved
                   handled : Nat]

\* A driver who has registered.
NewUser == [version |-> 0, status |-> "pending", reason |-> "none", rating |-> 5 * Scale]

NewIncident == [status |-> "open", resolvedAt |-> FALSE]

IdleClerk == [pc |-> "idle", op |-> "none", copy |-> NewUser, file |-> NewIncident,
              arg |-> "none", reviewer |-> "none", stars |-> 0, average |-> 0, alone |-> TRUE]

DeskInit ==
  /\ user = NewUser /\ incident = NewIncident
  /\ reviews = [r \in Reviewers |-> 0]
  /\ clerk = [t \in Clerks |-> IdleClerk]
  /\ deskPast = [approved |-> 0, handled |-> 0]

-----------------------------------------------------------------------------
\* UPDATE ... SET the columns that differ from what was loaded.
Update(row, copy, new) ==
  [c \in DOMAIN row |-> IF new[c] # copy[c] THEN new[c] ELSE row[c]]

SameTopic(t, op) == {u \in Clerks \ {t} : clerk[u].pc # "idle" /\ Topic(clerk[u].op) = Topic(op)}

\* A handler loads what it needs, and is from then on in progress.
Begin(t, op, h) ==
  /\ clerk[t].pc = "idle" /\ deskPast.handled < MaxHandled
  /\ clerk' = [u \in Clerks |->
       IF u = t THEN [h EXCEPT !.pc = "loaded", !.op = op, !.copy = user, !.file = incident,
                              !.alone = SameTopic(t, op) = {}]
       ELSE IF u \in SameTopic(t, op) THEN [clerk[u] EXCEPT !.alone = FALSE]
       ELSE clerk[u]]
  /\ deskPast' = [deskPast EXCEPT !.handled = @ + 1]
  /\ UNCHANGED <<user, reviews, incident>>

Finished(t) == clerk' = [clerk EXCEPT ![t] = IdleClerk]

-----------------------------------------------------------------------------
(* The driver's profile *)

BeginSubmit(t) == Begin(t, "submit", IdleClerk)

Resubmitted(copy) == [copy EXCEPT !.status = "pending", !.reason = "none"]

CommitSubmit(t) ==
  LET copy == clerk[t].copy IN
  /\ clerk[t].pc = "loaded" /\ clerk[t].op = "submit"
  /\ user' = [Update(user, copy, Resubmitted(copy)) EXCEPT !.version = @ + 1]
  /\ Finished(t)
  /\ UNCHANGED <<reviews, incident, deskPast>>

BeginVerify(t) == Begin(t, "verify", IdleClerk)
BeginReject(t) == \E why \in {"plate", "licence"} : Begin(t, "reject", [IdleClerk EXCEPT !.arg = why])

\* Mutant: the reason is left where it was on an approval.
Decided_KeepsReason(h) ==
  IF h.op = "verify" THEN [h.copy EXCEPT !.status = "verified"]
  ELSE [h.copy EXCEPT !.status = "rejected", !.reason = h.arg]

Decided(h) ==
  IF h.op = "verify" THEN [h.copy EXCEPT !.status = "verified", !.reason = "none"]
  ELSE [h.copy EXCEPT !.status = "rejected", !.reason = h.arg]

CommitDecision(t) ==
  LET h == clerk[t] IN
  /\ h.pc = "loaded" /\ h.op \in {"verify", "reject"}
  /\ user' = Update(user, h.copy, Decided(h))
  /\ deskPast' = [deskPast EXCEPT !.approved = IF h.op = "verify" THEN h.copy.version ELSE @]
  /\ Finished(t)
  /\ UNCHANGED <<reviews, incident>>

-----------------------------------------------------------------------------
(* Reviews *)

SumOf(f) ==
  LET sum[S \in SUBSET Reviewers] ==
        IF S = {} THEN 0 ELSE LET r == CHOOSE r \in S : TRUE IN f[r] + sum[S \ {r}]
  IN sum[Reviewers]

\* get_average_rating, 5.0 without a review.
Average(given) ==
  LET n == Cardinality({r \in Reviewers : given[r] > 0}) IN
  IF n = 0 THEN 5 * Scale ELSE (SumOf(given) * Scale) \div n

BeginReview(t) ==
  \E r \in Reviewers, stars \in Ratings :
    reviews[r] = 0 /\ Begin(t, "review", [IdleClerk EXCEPT !.reviewer = r, !.stars = stars])

\* What the transaction sees: the committed reviews and its own.
Visible(h) == [reviews EXCEPT ![h.reviewer] = h.stars]

\* The review is inserted, and the average of what is visible taken.  A second
\* review by one reviewer waits for the first and fails on the unique index.
InsertReview(t) ==
  LET h == clerk[t] IN
  /\ h.pc = "loaded" /\ h.op = "review"
  /\ \A u \in Clerks : clerk[u].pc = "averaged" => clerk[u].reviewer # h.reviewer
  /\ IF reviews[h.reviewer] > 0 THEN Finished(t)
     ELSE clerk' = [clerk EXCEPT ![t].pc = "averaged", ![t].average = Average(Visible(h))]
  /\ UNCHANGED <<user, reviews, incident, deskPast>>

CommitReview(t) ==
  LET h == clerk[t] IN
  /\ h.pc = "averaged"
  /\ reviews' = [reviews EXCEPT ![h.reviewer] = h.stars]
  /\ user' = Update(user, h.copy, [h.copy EXCEPT !.rating = h.average])
  /\ Finished(t)
  /\ UNCHANGED <<incident, deskPast>>

-----------------------------------------------------------------------------
(* Incident reports *)

BeginIncident(t) ==
  \E s \in {"open", "reviewing", "resolved", "dismissed"} :
    Begin(t, "incident", [IdleClerk EXCEPT !.arg = s])

Handled(file, s) == [status |-> s, resolvedAt |-> s \in Closed]

\* A closing update always writes resolved_at: the time stamp is a new one.
CommitIncident(t) ==
  LET h == clerk[t] IN
  /\ h.pc = "loaded" /\ h.op = "incident"
  /\ incident' = [Update(incident, h.file, Handled(h.file, h.arg)) EXCEPT
                    !.resolvedAt = IF h.arg \in Closed THEN TRUE ELSE @]
  /\ Finished(t)
  /\ UNCHANGED <<user, reviews, deskPast>>

-----------------------------------------------------------------------------
DeskNext ==
  \E t \in Clerks :
       \/ BeginSubmit(t) \/ CommitSubmit(t)
       \/ BeginVerify(t) \/ BeginReject(t) \/ CommitDecision(t)
       \/ BeginReview(t) \/ InsertReview(t) \/ CommitReview(t)
       \/ BeginIncident(t) \/ CommitIncident(t)

DeskSpec == DeskInit /\ [][DeskNext]_deskVars

-----------------------------------------------------------------------------
Commits(t, op) == clerk[t].op = op /\ clerk[t].pc # "idle" /\ clerk'[t].pc = "idle"

\* Alone from its load to its commit.
Lone(t) == clerk[t].alone

\* A handler that overlapped with no other one of its topic leaves what it decided,
\* whatever earlier ones that did overlap have left.  A decision about a profile
\* stands whole and is about the version support saw; the rating is the average
\* of all reviews; a report has a resolution time exactly when it is closed.
LoneHandlerStands ==
  [][\A t \in Clerks : Lone(t) =>
       /\ Commits(t, "verify") => /\ user'.status = "verified" /\ user'.reason = "none"
                                  /\ deskPast'.approved = user'.version
       /\ Commits(t, "reject") => user'.status = "rejected" /\ user'.reason = clerk[t].arg
       /\ Commits(t, "submit") => user'.status = "pending" /\ user'.reason = "none"
       /\ Commits(t, "review") /\ reviews' # reviews => user'.rating = Average(reviews')
       /\ Commits(t, "incident") =>
            /\ incident'.status = clerk[t].arg
            /\ incident'.resolvedAt <=> incident'.status \in Closed
    ]_deskVars
=============================================================================
