-------------------------- MODULE SessionLifecycle --------------------------
(***************************************************************************)
(* What a session's status may do between two restarts: the lifecycle that *)
(* the requests and the capture loop implement between them, with no       *)
(* processes and no steps inside an operation.  Cancelled is terminal.     *)
(***************************************************************************)
VARIABLES
    status,
    before      \* the status a user's rendering goes back to, or "none"

view == <<status, before>>

Active == {"Capturing", "Scheduled"}
Resting == {"Ready", "Paused", "Completed", "Failed", "Cancelled"}

Init == status \in Resting \cup {"Scheduled"} /\ before = "none"

\* Start, or resume; a scheduled session may be started by hand as well.
Start ==
    /\ status \in {"Ready", "Paused", "Failed", "Scheduled"}
    /\ status' \in Active
    /\ UNCHANGED before

\* The schedule's window opens or closes.
Window ==
    /\ status \in Active
    /\ status' \in Active \ {status}
    /\ UNCHANGED before

\* The capture duration is met.
Complete ==
    /\ status = "Capturing"
    /\ status' = "Rendering"
    /\ UNCHANGED before

\* The user renders what there is, unless the session was cancelled.
RenderFrom(statuses) ==
    /\ status \in statuses
    /\ status' = "Rendering"
    /\ before' = status

Render == RenderFrom(Resting \ {"Cancelled"})

\* A rendering ends in a video or in an error; a user's rendering also ends
\* where it began, when the user hangs up.
Rendered ==
    /\ status = "Rendering"
    /\ status' \in {"Completed", "Failed"} \cup ({before} \ {"none"})
    /\ before' = "none"

\* The camera, the storage or the loop itself failed.
Fail ==
    /\ status \in Active
    /\ status' = "Failed"
    /\ UNCHANGED before

Pause ==
    /\ status \in Active
    /\ status' = "Paused"
    /\ UNCHANGED before

Cancel ==
    /\ status' = "Cancelled"
    /\ before' = "none"

Next == Start \/ Window \/ Complete \/ Render \/ Rendered \/ Fail \/ Pause \/ Cancel

Spec == Init /\ [][Next]_view

\* No part of the lifecycle, but what the service does: it renders a cancelled
\* session as it renders any other.
RenderCancelled == RenderFrom({"Cancelled"})

=============================================================================
