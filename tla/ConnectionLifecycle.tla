-------------------------- MODULE ConnectionLifecycle --------------------------
(***************************************************************************)
(* What the connection manager promises to the code that uses it, without  *)
(* threads or locks: a connection goes up only after an attempt, and only  *)
(* with an open broker session; while it is up the session stays open; and *)
(* it goes down again through a shutdown alone.  The session may come and  *)
(* go while the connection is not up: an attempt opens it before it can be *)
(* used, and may be overtaken by a shutdown.                               *)
(***************************************************************************)
VARIABLES
    status,     \* what a reader of the state may conclude
    session     \* whether the broker session is open

Init ==
    /\ status \in {"down", "unavailable"}
    /\ session = FALSE

Begin ==
    /\ status = "down" /\ status' = "opening"
    /\ UNCHANGED session

SessionChanges ==
    /\ status # "up" /\ UNCHANGED status
    /\ session' \in BOOLEAN

Establish ==
    /\ status = "opening" /\ session
    /\ status' = "up"
    /\ UNCHANGED session

GiveUp ==
    /\ status = "opening" /\ status' = "down"
    /\ UNCHANGED session

Close ==
    /\ status \in {"down", "opening", "up"} /\ status' = "closing"
    /\ UNCHANGED session

Closed ==
    /\ status = "closing" /\ status' = "down"
    /\ session' = FALSE

Next == Begin \/ SessionChanges \/ Establish \/ GiveUp \/ Close \/ Closed

Spec == Init /\ [][Next]_<<status, session>>

\* The consequence readers rely on: an established connection has a session.
UpHasSession == status = "up" => session
=============================================================================
