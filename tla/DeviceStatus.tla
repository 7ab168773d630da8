---------------------------- MODULE DeviceStatus ----------------------------
(***************************************************************************)
(* What the status of one device promises to the clients that ask for it,  *)
(* with no word about threads, flags or clocks.  A ping makes the device   *)
(* ONLINE; without pings it becomes OUTDATED and then OFFLINE, in that     *)
(* order.  StateTimer implements it.                                       *)
(***************************************************************************)

VARIABLES
    status,     \* what getState() answers
    pinged,     \* a ping was accepted and is not yet visible in status
    retired     \* the device is being destroyed

vars == <<status, pinged, retired>>

Statuses == {"ONLINE", "OUTDATED", "OFFLINE"}

TypeOK ==
    /\ status \in Statuses
    /\ pinged \in BOOLEAN
    /\ retired \in BOOLEAN

Init ==
    /\ status = "OFFLINE"
    /\ pinged = FALSE
    /\ retired = FALSE

Ping ==
    /\ ~retired
    /\ pinged' = TRUE
    /\ UNCHANGED <<status, retired>>

\* Another ping may be accepted while this one is being shown, so the step
\* leaves it open whether one is still pending.
ShowOnline ==
    /\ pinged
    /\ status' = "ONLINE"
    /\ pinged' \in BOOLEAN
    /\ UNCHANGED retired

Age ==
    /\ \/ status = "ONLINE"   /\ status' = "OUTDATED"
       \/ status = "OUTDATED" /\ status' = "OFFLINE"
    /\ UNCHANGED <<pinged, retired>>

Retire ==
    /\ retired' = TRUE
    /\ UNCHANGED <<status, pinged>>

Next == Ping \/ ShowOnline \/ Age \/ Retire

\* Until it is destroyed a device that was pinged does not stay OUTDATED or
\* OFFLINE, and a device nobody pings keeps ageing.
Fairness ==
    /\ WF_vars(~retired /\ status # "ONLINE" /\ ShowOnline)
    /\ WF_vars(~retired /\ ~pinged /\ Age)

Safety == Init /\ [][Next]_vars

Spec == Safety /\ Fairness

=============================================================================
