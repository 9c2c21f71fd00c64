-------------------------- MODULE VerifiedDownload --------------------------
(***************************************************************************)
(* What the container task of a node relies on when it downloads an        *)
(* application (ContainerTask, the steps download_ready, download_fails    *)
(* and download_aborts): a download that is ready has put a copy with the  *)
(* registered hash on the disk, and a copy once there is never lost again, *)
(* whatever later attempts and crashes of the node do.                     *)
(***************************************************************************)
VARIABLES
    task,    \* "none", "trying", "ready", "failed" or "aborted"
    copy     \* whether a copy with the registered hash is kept

TypeOK ==
    /\ task \in {"none", "trying", "ready", "failed", "aborted"}
    /\ copy \in BOOLEAN

Init == task = "none" /\ copy = FALSE

\* A copy that is kept stays; while an attempt is under way one may be obtained.
Kept == copy => copy'

Begin == task = "none" /\ task' = "trying" /\ UNCHANGED copy

Obtain == task = "trying" /\ task' = "trying" /\ Kept

Deliver == task = "trying" /\ task' = "ready" /\ Kept /\ copy'

GiveUp == task = "trying" /\ task' \in {"failed", "aborted"} /\ Kept

\* The outcome has been taken note of.
Return == task \in {"ready", "failed"} /\ task' = "none" /\ UNCHANGED copy

Crash == task' = "none" /\ Kept

Next == Begin \/ Obtain \/ Deliver \/ GiveUp \/ Return \/ Crash

Spec == Init /\ [][Next]_<<task, copy>>
=============================================================================
