------------------------------- MODULE Lockout -------------------------------
(***************************************************************************)
(* LockoutService and the part of AuthService.login that calls it: the     *)
(* login attempts on one account (rows of other users are never touched).  *)
(* An attempt reads the user's row, awaits bcrypt, and then writes the     *)
(* counter computed from what it read.                                     *)
(*                                                                         *)
(* That write may be lost although it is answered like any other: it       *)
(* shares a transaction with its change record, cdc.extension.ts swallows  *)
(* the error of a record the database refuses, and the COMMIT of the       *)
(* failed transaction rolls both back (AuditTrail has the steps).          *)
(*                                                                         *)
(* locked_until is kept as the time left until it, so that null and the    *)
(* past, which checkLockout treats alike, are both 0.                      *)
(***************************************************************************)
EXTENDS Naturals, FiniteSets, Combinatorics

CONSTANTS Slot,          \* login requests the server runs at the same time
          MaxAttempts,   \* MAX_ATTEMPTS
          LockFor,       \* LOCKOUT_MINUTES, in clock ticks
          CounterCap,    \* bound: failed is not told apart beyond it
          GuessCap       \* bound: nor is counted

ASSUME LockoutAssumption == /\ IsFiniteSet(Slot)
                            /\ MaxAttempts \in Nat \ {0}
                            /\ LockFor \in Nat \ {0}
                            /\ GuessCap \in Nat
                            /\ CounterCap \in Nat /\ CounterCap >= MaxAttempts

VARIABLES
  failed,     \* failed_login_attempts
  lockLeft,   \* time left until locked_until
  attempt,    \* the login in each slot
  counted     \* failures stored since the last stored success or end of a lock

stored == <<failed, lockLeft, counted>>

vars == <<failed, lockLeft, attempt, counted>>

\* "compare": the row was read with `seen` failures and passed checkLockout;
\* bcrypt is running and will find the password right or not.
Attempt == [pc : {"idle", "compare"}, seen : 0..CounterCap, right : BOOLEAN]

Idle == [pc |-> "idle", seen |-> 0, right |-> FALSE]

Init == /\ failed = 0
        /\ lockLeft = 0
        /\ attempt = [p \in Slot |-> Idle]
        /\ counted = 0

AtMost(n, bound) == IF n < bound THEN n ELSE bound

-----------------------------------------------------------------------------
\* Faulty variant: checkLockout is not called.
BeginUnchecked(p, right) ==
  /\ attempt[p].pc = "idle"
  /\ attempt' = [attempt EXCEPT ![p] =
                   [pc |-> "compare", seen |-> failed, right |-> right]]
  /\ UNCHANGED stored

\* findFirst and checkLockout.  An attempt on a locked account is answered 403
\* and changes nothing, so it is no step.
Begin(p, right) ==
  /\ attempt[p].pc = "idle"
  /\ lockLeft = 0
  /\ attempt' = [attempt EXCEPT ![p] =
                   [pc |-> "compare", seen |-> failed, right |-> right]]
  /\ UNCHANGED stored

\* The two columns incrementFailedAttempts computes from what login read.
NextAttempts(p) == AtMost(attempt[p].seen + 1, CounterCap)

\* Faulty variant: the lock is a tick too long.
NextLockLonger(p) == IF NextAttempts(p) >= MaxAttempts THEN LockFor + 1 ELSE 0

NextLock(p) == IF NextAttempts(p) >= MaxAttempts THEN LockFor ELSE 0

\* Faulty variant: a failure leaves the counter as it was read.
FailUncounted(p) ==
  /\ attempt[p].pc = "compare" /\ ~attempt[p].right
  /\ attempt' = [attempt EXCEPT ![p] = Idle]
  /\ \/ /\ failed' = attempt[p].seen
        /\ lockLeft' = NextLock(p)
        /\ counted' = AtMost(counted + 1, GuessCap)
     \/ UNCHANGED stored

\* Wrong password: incrementFailedAttempts overwrites both columns, or its
\* update is rolled back.  Either way the answer is 401, or 403 with the time
\* the lock ends.
Fail(p) ==
  /\ attempt[p].pc = "compare" /\ ~attempt[p].right
  /\ attempt' = [attempt EXCEPT ![p] = Idle]
  /\ \/ /\ failed' = NextAttempts(p)
        /\ lockLeft' = NextLock(p)
        /\ counted' = AtMost(counted + 1, GuessCap)
     \/ UNCHANGED stored

\* Right password: resetFailedAttempts clears both columns, or its update is
\* rolled back.  Either way the login succeeds.
Succeed(p) ==
  /\ attempt[p].pc = "compare" /\ attempt[p].right
  /\ attempt' = [attempt EXCEPT ![p] = Idle]
  /\ \/ failed' = 0 /\ lockLeft' = 0 /\ counted' = 0
     \/ UNCHANGED stored

\* The request dies, or the update rejects, before anything was written.
Abort(p) ==
  /\ attempt[p].pc = "compare"
  /\ attempt' = [attempt EXCEPT ![p] = Idle]
  /\ UNCHANGED stored

\* Faulty variant: checkLockout asks whether locked_until is set, not whether
\* it lies ahead.
TickNeverOpens ==
  /\ lockLeft > 1
  /\ lockLeft' = lockLeft - 1
  /\ UNCHANGED <<failed, attempt, counted>>

\* Time passes; it matters only while a lock runs.
Tick ==
  /\ lockLeft > 0
  /\ lockLeft' = lockLeft - 1
  /\ counted' = IF lockLeft = 1 THEN 0 ELSE counted
  /\ UNCHANGED <<failed, attempt>>

-----------------------------------------------------------------------------
Next == \/ \E p \in Slot : \/ \E right \in BOOLEAN : Begin(p, right)
                           \/ Fail(p) \/ Succeed(p) \/ Abort(p)
        \/ Tick

Spec == Init /\ [][Next]_vars

-----------------------------------------------------------------------------
\* Type invariant.
TypeOK == /\ failed \in 0..CounterCap
          /\ lockLeft \in 0..LockFor
          /\ attempt \in [Slot -> Attempt]
          /\ counted \in 0..GuessCap

\* An account is locked only with a counter that warrants it, even though
\* both columns are overwritten from a row read before bcrypt ran.
LockHasItsCount == lockLeft > 0 => failed >= MaxAttempts

\* incrementFailedAttempts loses updates and may undo a lock, so concurrent
\* attempts store more than MAX_ATTEMPTS failures in one window.  With n in
\* flight the least bound is this binomial coefficient less one: 5 failures
\* for n = 1, but 20 for n = 2 and 55 for n = 3.  It bounds the failures that
\* are stored; the wrong passwords a client may try are not bounded, since any
\* number of failures may be rolled back and answered all the same.
StoredFailuresAreBounded ==
  LET n == Cardinality(Slot) IN counted < choose(MaxAttempts + n, n)

\* A locked account opens again: attempts on it do not prolong the lock.
LockEnds == lockLeft > 0 ~> lockLeft = 0
=============================================================================
