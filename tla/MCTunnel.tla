------------------------------ MODULE MCTunnel ------------------------------
(* Instances of TunnelManager for TLC.                                     *)
EXTENDS TunnelManager, TLC

\* One tunnel, saved with and without automatic reconnection.
OneTunnel == {[id |-> id, port |-> 1, auto |-> a] : id \in Id, a \in BOOLEAN}

\* Tunnels that reconnect, all on one port.
AutoTunnel == {[id |-> id, port |-> 1, auto |-> TRUE] : id \in Id}

(***************************************************************************)
(* The bound of the run restart: callers of Stop and Close that race each  *)
(* other; or clients, one such caller and a Ready, on one entry.           *)
(***************************************************************************)
Unclaimed == open = {} /\ \A s \in Sock : forwarder[s] = "none"
Unprobed == \A r \in Prober : probe[r].pc = "idle"
OneEntry == Cardinality({e \in Entry : state[e] # "unused"}) <= 1
OneCall == Cardinality({c \in Caller : callerPc[c] # "idle"}) <= 1

Bounded == (Unclaimed /\ Unprobed) \/ (OneCall /\ OneEntry)

Symmetry == Permutations(Entry) \cup Permutations(Conn) \cup Permutations(Sock)
              \cup Permutations(Caller) \cup Permutations(Id)
=============================================================================
