-------------------------- MODULE GracefulService --------------------------
(***************************************************************************)
(* What the server promises about its own life (README.md:146): tasks      *)
(* enter while it is open, after a shutdown none does and all leave, and   *)
(* it closes cleanly only when nobody is left; or it fails at once.        *)
(***************************************************************************)
CONSTANT Member

VARIABLES status, live

service == <<status, live>>

Init == status = "new" /\ live = {}

\* The workers are there from the beginning.
Open ==
  /\ status = "new"
  /\ status' = "open"
  /\ live' \in SUBSET Member

Enter(t) ==
  /\ status = "open"
  /\ t \notin live
  /\ live' = live \cup {t}
  /\ UNCHANGED status

Leave(t) ==
  /\ live' = live \ {t}
  /\ UNCHANGED status

Drain ==
  /\ status = "open"
  /\ status' = "draining"
  /\ UNCHANGED live

Close ==
  /\ status = "draining"
  /\ live = {}
  /\ status' = "closed"
  /\ UNCHANGED live

Fail ==
  /\ status # "closed"
  /\ status' = "failed"
  /\ live' = {}

Next ==
  \/ Open
  \/ \E t \in Member : Enter(t) \/ Leave(t)
  \/ Drain
  \/ Close
  \/ Fail

Spec == Init /\ [][Next]_service
=============================================================================
