---------------------------- MODULE LoginLockout ----------------------------
(***************************************************************************)
(* The failure counter and the lock of one account: AuthService.login with  *)
(* _ensure_login_not_locked, _record_failed_login and _clear_failed_logins  *)
(* (services/auth.py), register and verify_email.                           *)
(*                                                                         *)
(* Login is a plain function on the thread pool and locks nothing: it works *)
(* on the counter it loaded, and its UPDATE carries only the columns that   *)
(* differ from what it loaded.  Two wrong passwords at once may therefore   *)
(* count as one, and a late one may set the counter back.                   *)
(*                                                                         *)
(* Left out: password hashing, mails, the audit log (but not its commits),  *)
(* and the tokens a login issues, which are in module Sessions.             *)
(***************************************************************************)
EXTENDS Naturals, FiniteSets

CONSTANTS Logins,              \* threads that run login
          MaxFailed,           \* AUTH_MAX_FAILED_LOGIN_ATTEMPTS
          RequireVerification, \* REQUIRE_EMAIL_VERIFICATION
          MaxCounted           \* bound: the counter, which overlapping locks leave behind

ASSUME LockoutAssumption ==
  /\ IsFiniteSet(Logins)
  /\ MaxFailed \in Nat \ {0} /\ MaxCounted \in Nat
  /\ RequireVerification \in BOOLEAN

VARIABLES account,    \* the row
          login,      \* what each thread is doing
          guesses     \* history: wrong passwords looked at since a lock or a clear

lockoutVars == <<account, login, guesses>>

\* lockedUntil: null, ahead, or passed.
Lock == {"none", "ahead", "passed"}

Login == [pc : {"idle", "wrong", "right", "locking"}, attempts : Nat, lockedUntil : Lock]

LockoutTypeOK ==
  /\ account \in [attempts : Nat, lockedUntil : Lock, emailVerified : BOOLEAN]
  /\ login \in [Logins -> Login]
  /\ \A t \in Logins : login[t].pc = "locking" => login[t].attempts + 1 >= MaxFailed
  /\ guesses \in Nat

IdleLogin == [pc |-> "idle", attempts |-> 0, lockedUntil |-> "none"]

\* register
LockoutInit ==
  /\ account = [attempts |-> 0, lockedUntil |-> "none", emailVerified |-> FALSE]
  /\ login = [t \in Logins |-> IdleLogin]
  /\ guesses = 0

-----------------------------------------------------------------------------
LeaveLogin(t) == login' = [login EXCEPT ![t] = IdleLogin]

\* The row is loaded; an account locked just now answers 423 whatever the password.
BeginLogin(t, outcome) ==
  /\ login[t].pc = "idle" /\ account.lockedUntil # "ahead"
  /\ login' = [login EXCEPT ![t] = [pc |-> outcome, attempts |-> account.attempts,
                                    lockedUntil |-> account.lockedUntil]]
  /\ UNCHANGED <<account, guesses>>

WrongPassword(t) == account.attempts < MaxCounted /\ BeginLogin(t, "wrong")

\* Without the verification it asks for, the right password is answered 403.
RightPassword(t) ==
  (RequireVerification => account.emailVerified) /\ BeginLogin(t, "right")

\* Mutant: each failure is the first one.
Failures_One(copy) == 1

Failures(copy) == copy.attempts + 1

AtLimit(n) == n >= MaxFailed

\* The audit entry of the failure commits the counter, at its limit too; the lock
\* and the counter's reset come with a second commit.
CommitFailure(t) ==
  LET n == Failures(login[t]) IN
  /\ login[t].pc = "wrong"
  /\ account' = [account EXCEPT !.attempts = n]
  /\ IF AtLimit(n) THEN login' = [login EXCEPT ![t].pc = "locking"] ELSE LeaveLogin(t)
  /\ guesses' = guesses + 1

CommitLock(t) ==
  /\ login[t].pc = "locking"
  /\ account' = [account EXCEPT !.attempts = 0, !.lockedUntil = "ahead"]
  /\ LeaveLogin(t)
  /\ guesses' = 0

\* Only what was set in the copy is cleared in the row.
CommitEntry(t) ==
  LET copy == login[t] IN
  /\ copy.pc = "right"
  /\ account' = [account EXCEPT !.attempts = IF copy.attempts > 0 THEN 0 ELSE @,
                                !.lockedUntil = IF copy.lockedUntil # "none" THEN "none" ELSE @]
  /\ LeaveLogin(t)
  /\ guesses' = IF copy.attempts > 0 THEN 0 ELSE guesses

\* The flag is never taken back, so that one step will do.
VerifyEmail ==
  /\ ~ account.emailVerified
  /\ account' = [account EXCEPT !.emailVerified = TRUE]
  /\ UNCHANGED <<login, guesses>>

LockPasses ==
  /\ account.lockedUntil = "ahead"
  /\ account' = [account EXCEPT !.lockedUntil = "passed"]
  /\ UNCHANGED <<login, guesses>>

LockoutNext ==
  \/ \E t \in Logins : WrongPassword(t) \/ RightPassword(t) \/ CommitFailure(t)
                         \/ CommitLock(t) \/ CommitEntry(t)
  \/ VerifyEmail \/ LockPasses

LockoutSpec == LockoutInit /\ [][LockoutNext]_lockoutVars

-----------------------------------------------------------------------------
\* At most what all threads guess on n levels of the counter: each has one guess at
\* the first of them, and may be late enough to set the counter back for all.
Rounds[n \in Nat] == IF n = 0 THEN 0 ELSE Cardinality(Logins) * (1 + Rounds[n - 1])

\* Passwords cannot be tried for ever: whatever counts overlapping handlers lose,
\* a lock comes.  A late failure sets the counter back, to one more than what it
\* had loaded; at the last level each thread guesses once and then locks.
GuessesAreBounded == guesses <= Rounds[MaxFailed - 1] + Cardinality(Logins)
=============================================================================
