----------------------------- MODULE RbacSerial -----------------------------
(***************************************************************************)
(* Rbac with a history variable that tells apart the behaviours in which   *)
(* two requests were ever in progress together.  In the others the calls   *)
(* keep RoleContract.  (An assignment between deleteRole's check and its   *)
(* write leaves members with a deleted role.)                              *)
(***************************************************************************)
EXTENDS Rbac

VARIABLE overlap

all == <<roles, assigned, req, stale, overlap>>

\* At most one request is in progress.
Alone == \A p, q \in Request : req[p] # Idle /\ req[q] # Idle => p = q

Watching == Watch /\ overlap' = (overlap \/ ~Alone')

WatchedInit == Init /\ overlap = FALSE
WatchedNext == \E r \in Request : Step(r) /\ Watching

WatchedSpec == WatchedInit /\ [][WatchedNext]_all

\* A connection that comes free is given out, and Prisma's timers fire.
WatchedLiveSpec == /\ WatchedSpec
                   /\ \A r \in Request : /\ WF_all(Update(r) /\ Watching)
                                         /\ WF_all(Abort(r) /\ Watching)

-----------------------------------------------------------------------------
Contract == INSTANCE RoleContract

\* Until requests overlap, whatever fails and wherever it stops, what a call
\* writes is a step of the contract, and what deleteRole writes is a deletion:
\* of a role nobody holds.
SerialImplementsContract ==
  /\ Contract!Init
  /\ [][overlap' \/ /\ Contract!Next
                    /\ \A r \in Request : DeleteWrite(r) => Contract!Delete(req[r].id)
       ]_<<roles, assigned>>
=============================================================================
