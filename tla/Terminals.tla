----------------------------- MODULE Terminals -----------------------------
(***************************************************************************)
(* Terminals: the handler of a WebSocket with its slot, the connection it  *)
(* makes with SSHConnect, the goroutines beside it, and Close.  A handler  *)
(* leaves through its deferred calls, in their order.                      *)
(***************************************************************************)
EXTENDS SSHConnect

CONSTANT MaxTerminals  \* slots: 16

ASSUME TerminalsAssumption == MaxTerminals \in Nat

Terminal == Call

VARIABLES
    stage,      \* where the handler is
    terminals,  \* terminals with a slot
    watch,      \* terminals whose AfterFunc closes the connection on cancel
    workers,    \* goroutines of a terminal: output, wait for the end, keep-alive
    closed      \* Close was called

termVars == <<stage, terminals, watch, workers, closed>>
vars == <<connectVars, cancelled, termVars>>

Worker == {"output", "wait", "alive"}

TypeOK ==
    /\ ConnectTypeOK
    /\ stage \in [Terminal -> {"none", "auth", "connect", "session", "run", "leave", "unslot", "gone"}]
    /\ terminals \in SUBSET Terminal /\ watch \in SUBSET Terminal
    /\ workers \in [Terminal -> SUBSET Worker]
    /\ closed \in BOOLEAN

Init ==
    /\ ConnectInit
    /\ stage = [t \in Terminal |-> "none"]
    /\ terminals = {} /\ watch = {}
    /\ workers = [t \in Terminal |-> {}]
    /\ closed = FALSE

Goes(t, where) == stage' = [stage EXCEPT ![t] = where]

SlotFree == ~closed /\ Cardinality(terminals) < MaxTerminals

\* A WebSocket is accepted and gets a slot.
Opens(t) ==
    /\ stage[t] = "none"
    /\ SlotFree
    /\ terminals' = terminals \cup {t}
    /\ Goes(t, "auth")
    /\ UNCHANGED <<connectVars, cancelled, watch, workers, closed>>

\* The token is right, and Connect is called.
Authenticated(t) ==
    /\ stage[t] = "auth"
    /\ ConnectCalled(t)
    /\ Goes(t, "connect")
    /\ UNCHANGED <<cancelled, terminals, watch, workers, closed>>

\* Five seconds are over, the token is wrong, the route is invalid, or the
\* browser has gone.
NotAuthenticated(t) ==
    /\ stage[t] = "auth"
    /\ Goes(t, "leave")
    /\ UNCHANGED <<connectVars, cancelled, terminals, watch, workers, closed>>

Connecting(t) == ConnectStep(t) /\ UNCHANGED <<cancelled, termVars>>

\* AfterFunc(ctx, conn.Close)
Watched(t) == watch \cup {t}

Connected(t) ==
    /\ stage[t] = "connect" /\ at[t] = "ok"
    /\ watch' = Watched(t)
    /\ Goes(t, "session")
    /\ UNCHANGED <<connectVars, cancelled, terminals, workers, closed>>

NotConnected(t) ==
    /\ stage[t] = "connect" /\ at[t] = "failed"
    /\ Goes(t, "leave")
    /\ UNCHANGED <<connectVars, cancelled, terminals, watch, workers, closed>>

WatchFires(t) ==
    /\ t \in watch /\ t \in cancelled
    /\ open' = [open EXCEPT ![t] = {}]
    /\ watch' = watch \ {t}
    /\ UNCHANGED <<at, route, clients, alarm, expired, silent, cancelled, stage, terminals, workers, closed>>

Reachable(t) == open[t] = 1..route[t] /\ t \notin silent \cup expired

\* The session, its terminal, its pipes and the shell; the goroutines start.
SessionStarts(t) ==
    /\ stage[t] = "session"
    /\ Reachable(t)
    /\ workers' = [workers EXCEPT ![t] = Worker]
    /\ Goes(t, "run")
    /\ UNCHANGED <<connectVars, cancelled, terminals, watch, closed>>

\* The server refuses one of them, or the connection is closed; a server that
\* does not answer is waited for.
SessionFails(t) ==
    /\ stage[t] = "session"
    /\ Reachable(t) \/ open[t] = {}
    /\ Goes(t, "leave")
    /\ UNCHANGED <<connectVars, cancelled, terminals, watch, workers, closed>>

\* Mutant: the keep-alive waits for its answer.
GivesNoticeAnswered(t, w) ==
    \/ w = "output"
    \/ w = "wait" /\ "output" \notin workers[t] /\ (Reachable(t) \/ open[t] = {})
    \/ w = "alive" /\ open[t] = {}

\* When a goroutine cancels: the session ended and its output is sent, the browser
\* does not take the output, or a keep-alive is not answered within 10 seconds.
GivesNotice(t, w) ==
    \/ w = "output"
    \/ w = "wait" /\ "output" \notin workers[t] /\ (Reachable(t) \/ open[t] = {})
    \/ w = "alive"

Cancels(t, w) ==
    /\ w \in workers[t]
    /\ GivesNotice(t, w)
    /\ cancelled' = cancelled \cup {t}
    /\ workers' = [workers EXCEPT ![t] = @ \ {w}]
    /\ UNCHANGED <<connectVars, stage, terminals, watch, closed>>

\* The output ends with the session or the connection; the keep-alive with
\* the context.
WorkerEnds(t, w) ==
    /\ w \in workers[t]
    /\ \/ w = "output" /\ (Reachable(t) \/ open[t] = {})
       \/ w = "alive" /\ t \in cancelled
    /\ workers' = [workers EXCEPT ![t] = @ \ {w}]
    /\ UNCHANGED <<connectVars, cancelled, stage, terminals, watch, closed>>

\* The loop ends: the browser disconnects or has gone, writing fails, or the
\* context is cancelled.
LoopEnds(t) ==
    /\ stage[t] = "run"
    /\ Goes(t, "leave")
    /\ UNCHANGED <<connectVars, cancelled, terminals, watch, workers, closed>>

\* Mutant: the slot is given back before the connection is closed.
LeavesEarly(t) ==
    /\ stage[t] = "leave"
    /\ terminals' = terminals \ {t}
    /\ Goes(t, "unslot")
    /\ UNCHANGED <<connectVars, cancelled, watch, workers, closed>>

\* Deferred: the AfterFunc is stopped and the connection closed.
Leaves(t) ==
    /\ stage[t] = "leave"
    /\ watch' = watch \ {t}
    /\ open' = [open EXCEPT ![t] = {}]
    /\ Goes(t, "unslot")
    /\ UNCHANGED <<at, route, clients, alarm, expired, silent, cancelled, terminals, workers, closed>>

\* Deferred: the slot is given back, then the context cancelled.
Unslots(t) ==
    /\ stage[t] = "unslot"
    /\ terminals' = terminals \ {t}
    /\ cancelled' = cancelled \cup {t}
    /\ Goes(t, "gone")
    /\ UNCHANGED <<connectVars, watch, workers, closed>>

\* Nothing of the terminal is left; its name stands for another one.
Forgotten(t) ==
    /\ stage[t] = "gone" /\ workers[t] = {}
    /\ Goes(t, "none")
    /\ at' = [at EXCEPT ![t] = "idle"]
    /\ route' = [route EXCEPT ![t] = 1]
    /\ clients' = [clients EXCEPT ![t] = 0]
    /\ expired' = expired \ {t}
    /\ silent' = silent \ {t}
    /\ cancelled' = cancelled \ {t}
    /\ UNCHANGED <<open, alarm, terminals, watch, workers, closed>>

\* Close, its section under mu.
Close ==
    /\ ~closed
    /\ closed' = TRUE
    /\ cancelled' = cancelled \cup terminals
    /\ UNCHANGED <<connectVars, stage, terminals, watch, workers>>

TerminalStep(t) ==
    \/ Opens(t) \/ Authenticated(t) \/ NotAuthenticated(t) \/ Connecting(t)
    \/ Connected(t) \/ NotConnected(t) \/ WatchFires(t)
    \/ SessionStarts(t) \/ SessionFails(t) \/ LoopEnds(t)
    \/ \E w \in Worker : Cancels(t, w) \/ WorkerEnds(t, w)
    \/ Leaves(t) \/ Unslots(t) \/ Forgotten(t)

Next == Close \/ \E t \in Terminal : TerminalStep(t)

Spec == Init /\ [][Next]_vars

\* Timers fire, goroutines run, and what waits for a context or a connection
\* returns when that ends; remote hosts and browsers owe nothing.
Fairness ==
    \A t \in Terminal :
        /\ WF_vars(NotAuthenticated(t))
        /\ WF_vars(ConnectProgress(t) /\ UNCHANGED <<cancelled, termVars>>)
        /\ WF_vars(MuxCloses(t) /\ UNCHANGED <<cancelled, termVars>>)
        /\ WF_vars(Connected(t) \/ NotConnected(t))
        /\ WF_vars(WatchFires(t))
        /\ WF_vars(open[t] = {} /\ SessionFails(t))
        /\ WF_vars(t \in silent /\ Cancels(t, "alive"))
        /\ WF_vars(open[t] = {} /\ WorkerEnds(t, "output"))
        /\ WF_vars(open[t] = {} /\ Cancels(t, "wait"))
        /\ WF_vars(WorkerEnds(t, "alive"))
        /\ WF_vars(t \in cancelled /\ LoopEnds(t))
        /\ WF_vars(Leaves(t)) /\ WF_vars(Unslots(t))

FairSpec == Spec /\ Fairness

----------------------------------------------------------------------------
(* Properties.                                                             *)

(***************************************************************************)
(* Slots are limited, and so are connections: a terminal keeps its slot    *)
(* until its last socket is closed (terminal.go:39-46).                    *)
(***************************************************************************)
SlotsHoldConnections ==
    /\ Cardinality(terminals) <= MaxTerminals
    /\ \A t \in Terminal : open[t] # {} => t \in terminals

(***************************************************************************)
(* Connect returns a connection whose sockets are all open here, the alarm *)
(* of a hop that fires during its handshake notwithstanding, and leaves    *)
(* none open when it fails (client.go:108-126).  The exception is a first  *)
(* socket whose own deadline passes before it is reset, although stop has  *)
(* succeeded: Connect may return it closed.                                *)
(***************************************************************************)
ConnectAllOrNothing ==
    \A t \in Terminal :
        /\ at[t] = "ok" /\ stage[t] = "connect" /\ t \notin expired => open[t] = 1..route[t]
        /\ at[t] = "failed" => open[t] = {}

\* The handler of t should end: its terminal is cancelled, the program closes,
\* its host has vanished without a word, or it got a connection that is closed.
MustLeave(t) ==
    \/ t \in cancelled
    \/ closed /\ t \in terminals
    \/ stage[t] = "run" /\ t \in silent
    \/ stage[t] \in {"session", "run"} /\ t \in expired

(***************************************************************************)
(* Such a terminal gives its slot and its connection back, wherever it is: *)
(* dialling, waiting for a session, or running; and its goroutines, which  *)
(* wait for each other, end.  None slips in between the look of Close at   *)
(* the slots and its own (terminal.go:38-46), and a silent host is noticed *)
(* by the keep-alive (terminal.go:150-172).                                *)
(***************************************************************************)
TerminalsEnd ==
    \A t \in Terminal :
        MustLeave(t) ~> t \notin terminals /\ open[t] = {} /\ workers[t] = {}
=============================================================================
