--------------------------- MODULE LoginAttempts ---------------------------
(***************************************************************************)
(* AuthLoginAttemptService as AuthService.login uses it: how often wrong   *)
(* passwords are let through for one identifier (e-mail, tenant, address). *)
(*                                                                         *)
(* The count is a key of Redis, whose expiry is set by a call of its own   *)
(* after the first increment. When a call to Redis fails, a map in the     *)
(* memory of the process is used instead, for that call only.              *)
(***************************************************************************)
EXTENDS Integers, FiniteSets

CONSTANTS
  MaxAttempts,   \* authLoginMaxAttempts
  Attempts,      \* login requests in flight at one time
  MaxFaults      \* bound: failed calls and restarts

ASSUME LoginAssumption ==
  /\ MaxAttempts \in Nat \ {0}
  /\ MaxFaults \in Nat
  /\ IsFiniteSet(Attempts)

VARIABLES
  failures,   \* the key in Redis, 0 when there is none
  expires,    \* the key has an expiry
  local,      \* attempts in the map of the process
  attempt,    \* where the requests are
  tried,      \* history: wrong passwords since the key was last absent
  faults      \* history: faults so far

loginVars == <<failures, expires, local, attempt, tried, faults>>

LoginInit ==
  /\ failures = 0 /\ expires = FALSE /\ local = 0
  /\ attempt = [a \in Attempts |-> "idle"]
  /\ tried = 0 /\ faults = 0

Fault ==
  /\ faults < MaxFaults
  /\ faults' = faults + 1

-----------------------------------------------------------------------------
\* Faulty variant: one more attempt passes.
AssertCanAttemptMore(a) ==
  /\ attempt[a] = "idle"
  /\ failures <= MaxAttempts
  /\ attempt' = [attempt EXCEPT ![a] = "verify"]
  /\ UNCHANGED <<failures, expires, local, tried, faults>>

AssertCanAttempt(a) ==
  /\ attempt[a] = "idle"
  /\ failures < MaxAttempts
  /\ attempt' = [attempt EXCEPT ![a] = "verify"]
  /\ UNCHANGED <<failures, expires, local, tried, faults>>

\* isLocallyLocked decides when GET fails.
AssertLocally(a) ==
  /\ attempt[a] = "idle"
  /\ Fault
  /\ local < MaxAttempts
  /\ attempt' = [attempt EXCEPT ![a] = "verify"]
  /\ UNCHANGED <<failures, expires, local, tried>>

\* Faulty variant: the key gets no expiry.
RecordFailedAttemptOnly(a) ==
  /\ attempt[a] = "verify"
  /\ failures' = failures + 1
  /\ tried' = tried + 1
  /\ attempt' = [attempt EXCEPT ![a] = "idle"]
  /\ UNCHANGED <<expires, local, faults>>

\* The password is wrong: INCR, and EXPIRE next if this was the first.
RecordFailedAttempt(a) ==
  /\ attempt[a] = "verify"
  /\ failures' = failures + 1
  /\ tried' = tried + 1
  /\ attempt' = [attempt EXCEPT ![a] = IF failures' = 1 THEN "expire" ELSE "idle"]
  /\ UNCHANGED <<expires, local, faults>>

\* EXPIRE does nothing to a key that is gone.
Expire(a) ==
  /\ attempt[a] = "expire"
  /\ expires' = (failures > 0)
  /\ attempt' = [attempt EXCEPT ![a] = "idle"]
  /\ UNCHANGED <<failures, local, tried, faults>>

\* recordLocalFailedAttempt: INCR failed, or INCR went through and EXPIRE failed.
RecordLocally(a) ==
  /\ attempt[a] \in {"verify", "expire"}
  /\ Fault
  /\ local' = local + 1
  /\ tried' = IF attempt[a] = "verify" THEN tried + 1 ELSE tried
  /\ attempt' = [attempt EXCEPT ![a] = "idle"]
  /\ UNCHANGED <<failures, expires>>

\* The password is right: clear.
Clear(a) ==
  /\ attempt[a] = "verify"
  /\ failures' = 0 /\ expires' = FALSE /\ local' = 0 /\ tried' = 0
  /\ attempt' = [attempt EXCEPT ![a] = "idle"]
  /\ UNCHANGED faults

\* DEL fails: only the map is cleared.
ClearLocally(a) ==
  /\ attempt[a] = "verify"
  /\ Fault
  /\ local' = 0
  /\ attempt' = [attempt EXCEPT ![a] = "idle"]
  /\ UNCHANGED <<failures, expires, tried>>

-----------------------------------------------------------------------------
\* The window of the key ends.
KeyExpires ==
  /\ expires
  /\ failures' = 0 /\ expires' = FALSE /\ tried' = 0
  /\ UNCHANGED <<local, attempt, faults>>

\* The window of the entry in the map ends.
EntryExpires ==
  /\ local > 0
  /\ local' = 0
  /\ UNCHANGED <<failures, expires, attempt, tried, faults>>

\* The process restarts: requests are cut off where they are.
Restart ==
  /\ Fault
  /\ local' = 0
  /\ attempt' = [a \in Attempts |-> "idle"]
  /\ UNCHANGED <<failures, expires, tried>>

LoginStep(a) ==
  \/ AssertCanAttempt(a) \/ AssertLocally(a)
  \/ RecordFailedAttempt(a) \/ Expire(a) \/ RecordLocally(a)
  \/ Clear(a) \/ ClearLocally(a)

LoginNext ==
  \/ \E a \in Attempts : LoginStep(a)
  \/ KeyExpires \/ EntryExpires \/ Restart

LoginSpec == LoginInit /\ [][LoginNext]_loginVars

\* Redis ends a window that was set, and a call to it returns or fails.
LoginFairness ==
  /\ WF_loginVars(KeyExpires)
  /\ \A a \in Attempts : WF_loginVars(Expire(a) \/ (attempt[a] = "expire" /\ RecordLocally(a)))

-----------------------------------------------------------------------------
(* Properties *)

LoginTypeOK ==
  /\ failures \in Nat /\ local \in Nat /\ tried \in Nat /\ faults \in Nat
  /\ expires \in BOOLEAN
  /\ attempt \in [Attempts -> {"idle", "verify", "expire"}]

Locked == failures >= MaxAttempts

\* Between two windows no more wrong passwords are tried than login allows, but
\* for the requests that were let in before the last increment and for the
\* calls to Redis that failed.
GuessesLimited == tried <= MaxAttempts - 1 + Cardinality(Attempts) + faults

\* A login that is locked is unlocked again, unless a fault has cost the key
\* its expiry.
LockEnds == Locked ~> (~Locked \/ faults > 0)
=============================================================================
