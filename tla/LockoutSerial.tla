---------------------------- MODULE LockoutSerial ----------------------------
(***************************************************************************)
(* Lockout with a history variable that tells apart the behaviours in      *)
(* which two attempts were ever in flight together.  In the others login   *)
(* keeps LockoutPolicy, but for the attempts whose update is rolled back.  *)
(***************************************************************************)
EXTENDS Lockout

VARIABLE overlap

\* At most one attempt is between its read and its write.
Alone == \A p, q \in Slot :
           attempt[p].pc = "compare" /\ attempt[q].pc = "compare" => p = q

all == <<failed, lockLeft, attempt, counted, overlap>>

WatchedInit == Init /\ overlap = FALSE
WatchedNext == Next /\ overlap' = (overlap \/ ~Alone')

\* Time passes.
WatchedSpec == /\ WatchedInit /\ [][WatchedNext]_all
               /\ WF_all(Tick /\ UNCHANGED overlap)

-----------------------------------------------------------------------------
Policy == INSTANCE LockoutPolicy
            WITH count <- AtMost(failed, MaxAttempts), left <- lockLeft

\* As long as attempts run one at a time, an attempt is one step of the policy,
\* wrong if its password was, or changes nothing: it died, or its update was
\* rolled back, which the client is not told.  No attempt shortens, prolongs
\* or clears a lock, and one that is counted at the threshold sets it.
SerialImplementsPolicy ==
  /\ Policy!Init
  /\ [][overlap' \/ /\ Policy!Next
                    /\ \A p \in Slot : Fail(p) => Policy!Wrong
       ]_<<failed, lockLeft>>
=============================================================================
