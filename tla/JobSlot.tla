------------------------------ MODULE JobSlot ------------------------------
(***************************************************************************)
(* What the capture slot of src/src/sync/slot.ts promises the engine that  *)
(* uses it: at any time one job or none, and one flag for whatever was     *)
(* triggered in the meantime.  CaptureSlot implements it with promises;    *)
(* SyncEngine is written against it.                                       *)
(***************************************************************************)
VARIABLES
    job,    \* what holds the slot
    again   \* a trigger came while it was held

vars == <<job, again>>

Job == {"idle", "capture", "exclusive"}

Init == job = "idle" /\ again = FALSE

\* the capture the flag asked for, or the slot is free
HandOver ==
    \/ again /\ job' = "capture" /\ again' = FALSE
    \/ ~again /\ job' = "idle" /\ UNCHANGED again

Trigger ==
    \/ job = "idle" /\ job' = "capture" /\ UNCHANGED again
    \/ job # "idle" /\ again' = TRUE /\ UNCHANGED job

CaptureEnds == job = "capture" /\ HandOver

\* exclusive() waits for the slot to be free
Enter == job = "idle" /\ job' = "exclusive" /\ UNCHANGED again

WorkEnds == job = "exclusive" /\ HandOver

Next == Trigger \/ CaptureEnds \/ Enter \/ WorkEnds

Spec == Init /\ [][Next]_vars
=============================================================================
