----------------------------- MODULE SSHConnect -----------------------------
(***************************************************************************)
(* Connect of the SSH client: the hosts of the route are dialled one       *)
(* through the other.  Each hop has a deadline, and a function that closes *)
(* its socket when the deadline passes or the caller cancels; it runs      *)
(* beside the handshake, which may succeed at the same moment.  The socket *)
(* of the first hop has the deadline too, until it is reset; those of the  *)
(* later hops are channels, which know no deadlines.                       *)
(***************************************************************************)
EXTENDS Naturals, FiniteSets

CONSTANTS
    Call,    \* calls of Connect
    MaxHops  \* bound on the length of a route

ASSUME HopsAssumption == MaxHops \in Nat \ {0}

Hop == 1..MaxHops

VARIABLES
    at,        \* where a call is
    route,     \* the length of its route
    clients,   \* its clients so far: out.clients
    open,      \* the hops whose socket is open on this side
    alarm,     \* the function that closes the socket of the hop under way
    expired,   \* calls whose first socket met its deadline before it was reset
    silent,    \* calls with a hop that no longer answers; nobody here knows yet
    cancelled  \* calls whose caller has cancelled

connectVars == <<at, route, clients, open, alarm, expired, silent>>

ConnectTypeOK ==
    /\ at \in [Call -> {"idle", "key", "dial", "shake", "stop", "reset", "ok", "failed"}]
    /\ route \in [Call -> Hop]
    /\ clients \in [Call -> 0..MaxHops]
    /\ open \in [Call -> SUBSET Hop]
    /\ alarm \in [Call -> {"off", "set", "fired"}]
    /\ expired \in SUBSET Call
    /\ silent \in SUBSET Call
    /\ cancelled \in SUBSET Call

ConnectInit ==
    /\ at = [c \in Call |-> "idle"]
    /\ route = [c \in Call |-> 1]
    /\ clients = [c \in Call |-> 0]
    /\ open = [c \in Call |-> {}]
    /\ alarm = [c \in Call |-> "off"]
    /\ expired = {}
    /\ silent = {}
    /\ cancelled = {}

\* The hop under way.
This(c) == clients[c] + 1

Moves(c, where) == at' = [at EXCEPT ![c] = where]

\* raw.Close and out.Close: all sockets are closed.  An alarm that still runs
\* closes a closed socket.
GivesUp(c) ==
    /\ Moves(c, "failed")
    /\ open' = [open EXCEPT ![c] = {}]
    /\ clients' = [clients EXCEPT ![c] = 0]
    /\ alarm' = [alarm EXCEPT ![c] = "off"]
    /\ UNCHANGED <<route, expired, silent>>

----------------------------------------------------------------------------
\* The host has a route; without one, the call fails at once.
ConnectCalled(c) ==
    /\ at[c] = "idle"
    /\ \E n \in Hop : route' = [route EXCEPT ![c] = n]
    /\ Moves(c, "key")
    /\ UNCHANGED <<clients, open, alarm, expired, silent>>

\* The key, its file and the check of the host key are ready; a new context.
KeyReady(c) ==
    /\ at[c] = "key"
    /\ Moves(c, "dial")
    /\ UNCHANGED <<route, clients, open, alarm, expired, silent>>

KeyFails(c) == at[c] = "key" /\ GivesUp(c)

\* The dialler connects, also at the moment the context ends.
DialOK(c) ==
    /\ at[c] = "dial" /\ c \notin silent \cup expired
    /\ Moves(c, "shake")
    /\ open' = [open EXCEPT ![c] = @ \cup {This(c)}]
    /\ alarm' = [alarm EXCEPT ![c] = "set"]
    /\ UNCHANGED <<route, clients, expired, silent>>

\* The host refuses, or the time of the hop, of the call or of its caller is up.
DialFails(c) == at[c] = "dial" /\ GivesUp(c)

\* One of these times is up: the function begins to run, on its own goroutine.
AlarmFires(c) ==
    /\ alarm[c] = "set"
    /\ alarm' = [alarm EXCEPT ![c] = "fired"]
    /\ UNCHANGED <<at, route, clients, open, expired, silent>>

AlarmCloses(c) ==
    /\ alarm[c] = "fired"
    /\ This(c) \in open[c]
    /\ open' = [open EXCEPT ![c] = @ \ {This(c)}]
    /\ UNCHANGED <<at, route, clients, alarm, expired, silent>>

\* NewClientConn succeeds.
ShakeOK(c) ==
    /\ at[c] = "shake" /\ c \notin silent
    /\ This(c) \in open[c]
    /\ Moves(c, "stop")
    /\ UNCHANGED <<route, clients, open, alarm, expired, silent>>

ShakeFails(c) == at[c] = "shake" /\ GivesUp(c)

\* Mutant: stop's result is ignored.
StopSucceedsAlways(c) == TRUE

\* stop returns whether the function has not begun to run.
StopSucceeds(c) == alarm[c] = "set"

\* The hop under way is the last one.
RouteDone(c) == This(c) = route[c]

StopReturns(c) ==
    /\ at[c] = "stop"
    /\ StopSucceeds(c)
    /\ alarm' = [alarm EXCEPT ![c] = "off"]
    /\ Moves(c, "reset")
    /\ UNCHANGED <<route, clients, open, expired, silent>>

\* The deadline of the socket is reset and the client is kept.
HopDone(c) ==
    /\ at[c] = "reset"
    /\ clients' = [clients EXCEPT ![c] = @ + 1]
    /\ Moves(c, IF RouteDone(c) THEN "ok" ELSE "key")
    /\ UNCHANGED <<route, open, alarm, expired, silent>>

HopTooLate(c) == at[c] = "stop" /\ ~StopSucceeds(c) /\ GivesUp(c)

\* The deadline of the first socket passes: what reads from it fails, after the
\* handshake too.
SocketExpires(c) ==
    /\ at[c] \in {"shake", "stop", "reset"}
    /\ This(c) = 1 /\ 1 \in open[c]
    /\ expired' = expired \cup {c}
    /\ UNCHANGED <<at, route, clients, open, alarm, silent>>

\* The client closes the socket for it, at some later moment.
MuxCloses(c) ==
    /\ c \in expired /\ open[c] # {}
    /\ open' = [open EXCEPT ![c] = {}]
    /\ UNCHANGED <<at, route, clients, alarm, expired, silent>>

\* A host or the network between stops answering.
LinkLost(c) ==
    /\ open[c] # {} /\ c \notin silent
    /\ silent' = silent \cup {c}
    /\ UNCHANGED <<at, route, clients, open, alarm, expired>>

ConnectStep(c) ==
    \/ KeyReady(c) \/ KeyFails(c) \/ DialOK(c) \/ DialFails(c)
    \/ AlarmFires(c) \/ AlarmCloses(c) \/ ShakeOK(c) \/ ShakeFails(c)
    \/ StopReturns(c) \/ HopDone(c) \/ HopTooLate(c)
    \/ SocketExpires(c) \/ MuxCloses(c) \/ LinkLost(c)

\* Every dial and every alarm has its time, and a handshake ends with its socket.
ConnectProgress(c) ==
    \/ KeyReady(c) \/ KeyFails(c) \/ DialFails(c)
    \/ AlarmFires(c) \/ AlarmCloses(c)
    \/ (This(c) \notin open[c] /\ ShakeFails(c))
    \/ StopReturns(c) \/ HopDone(c) \/ HopTooLate(c)
=============================================================================
