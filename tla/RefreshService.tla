--------------------------- MODULE RefreshService ---------------------------
(***************************************************************************)
(* What DiskHealthMonitor promises a client about refreshes, without the   *)
(* worker, the mutex or the disks: at most one request is under way, a     *)
(* request accepted while the service is open is carried out and           *)
(* completed, with the force value it was accepted with, and closing the   *)
(* service keeps only a refresh that had already begun.                    *)
(***************************************************************************)
VARIABLES phase, force, closed

vars == <<phase, force, closed>>

Init == phase = "idle" /\ force = TRUE /\ closed = FALSE

Request(f) ==
    /\ ~closed /\ phase = "idle"
    /\ phase' = "requested" /\ force' = f
    /\ UNCHANGED closed

Begin ==
    /\ ~closed /\ phase = "requested"
    /\ phase' = "running"
    /\ UNCHANGED <<force, closed>>

End ==
    /\ phase = "running"
    /\ phase' = "idle" /\ force' = TRUE
    /\ UNCHANGED closed

Close ==
    /\ ~closed
    /\ closed' = TRUE
    /\ UNCHANGED <<phase, force>>

Next == (\E f \in BOOLEAN : Request(f)) \/ Begin \/ End \/ Close

Safety == Init /\ [][Next]_vars
Spec == Safety /\ WF_vars(Begin) /\ WF_vars(End)
=============================================================================
