---------------------------- MODULE LockoutPolicy ----------------------------
(***************************************************************************)
(* What an attempt that is stored does to an account (spec 003, FR-006),   *)
(* in one step: the MaxAttempts-th wrong password in a row, and every one  *)
(* after it, locks the account for LockFor.  While it is locked no attempt *)
(* has an effect, and only time opens it.  A right password starts the     *)
(* count again; the end of a lock does not.                                *)
(***************************************************************************)
EXTENDS Naturals

CONSTANTS MaxAttempts, LockFor

VARIABLES count,  \* wrong passwords in a row, not told apart from MaxAttempts
          left    \* time until the account opens

vars == <<count, left>>

Init == count = 0 /\ left = 0

Wrong == /\ left = 0
         /\ count' = IF count < MaxAttempts THEN count + 1 ELSE MaxAttempts
         /\ left' = IF count' = MaxAttempts THEN LockFor ELSE 0

Right == left = 0 /\ count' = 0 /\ left' = 0

Tick == left > 0 /\ left' = left - 1 /\ UNCHANGED count

Next == Wrong \/ Right \/ Tick

Spec == Init /\ [][Next]_vars
=============================================================================
