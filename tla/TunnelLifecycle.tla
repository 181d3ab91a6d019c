-------------------------- MODULE TunnelLifecycle --------------------------
(***************************************************************************)
(* What the tunnel manager promises to the code that calls Statuses and    *)
(* Active (src/internal/tunnel/manager.go): each tunnel id has one status, *)
(* and these are the ways in which it may change.                          *)
(***************************************************************************)
CONSTANT Id

VARIABLES closed, status

Absent == "absent"
Final == {"stopped", "error"}

Init == /\ closed = FALSE
        /\ status = [id \in Id |-> Absent]

Become(id, s) == /\ status' = [status EXCEPT ![id] = s]
                 /\ UNCHANGED closed

\* Start begins to connect, or fails to bind the port.
Start(id) == /\ ~closed
             /\ status[id] \in Final \cup {Absent}
             /\ Become(id, "connecting") \/ Become(id, "error")

Connected(id) == status[id] = "connecting" /\ Become(id, "running")

Lost(id) == status[id] = "running" /\ Become(id, "reconnecting")

Recovered(id) == status[id] = "reconnecting" /\ Become(id, "running")

Failed(id) == status[id] \in {"connecting", "reconnecting"} /\ Become(id, "error")

Stopped(id) == status[id] # Absent /\ Become(id, "stopped")

Close == closed' = TRUE /\ UNCHANGED status

Next == \/ \E id \in Id : \/ Start(id) \/ Connected(id) \/ Lost(id)
                          \/ Recovered(id) \/ Failed(id) \/ Stopped(id)
        \/ Close

Spec == Init /\ [][Next]_<<closed, status>>
============================================================================
