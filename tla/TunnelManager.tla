--------------------------- MODULE TunnelManager ---------------------------
(***************************************************************************)
(* The tunnel manager (src/internal/tunnel/manager.go): local listeners    *)
(* whose connections are forwarded over an SSH connection that is watched, *)
(* dropped and redialled by a monitor goroutine.                           *)
(*                                                                         *)
(* Every Start allocates one entry object.  An entry is driven first by    *)
(* the goroutine that called Start and, once it is running, by its monitor *)
(* goroutine; the two never overlap, so pc[e] is the program counter of    *)
(* whichever is in charge and held[e] the SSH connection in its local      *)
(* variable (conn or next).  Beside it run the accept loop, one forwarder  *)
(* per local socket, the callers of Stop and Close, and the probers inside *)
(* Ready.  A critical section of Manager.mu is one action; a statement     *)
(* outside it that can race with another goroutine is an action of its own.*)
(***************************************************************************)
EXTENDS Integers, FiniteSets

CONSTANTS
    Id,          \* tunnel ids
    Config,      \* tunnel settings that pass ValidateTunnel
    Entry,       \* entry objects; a Start takes one that was never used
    Conn,        \* SSH connections; one that nobody refers to is taken anew
    Sock,        \* local TCP sockets, taken anew in the same way
    Caller,      \* goroutines that call Stop and Close
    Prober,      \* goroutines that call Ready
    MaxSockets,  \* local sockets of an entry (128)
    MaxMisses,   \* failed keepalives in a row that drop a connection (3)
    MaxBackoff,  \* longest wait between two redials (30 s)
    None         \* nil

ASSUME ConfigAssumption == Config \subseteq [id : Id, port : Nat, auto : BOOLEAN]
ASSUME NoneAssumption == None \notin Id \cup Entry \cup Conn \cup Sock \cup Config
ASSUME LimitAssumption == /\ MaxSockets \in Nat \ {0}
                          /\ MaxMisses \in Nat \ {0}
                          /\ MaxBackoff \in Nat \ {0}

VARIABLES
    closed,      \* Manager.closed
    entries,     \* Manager.entries: id -> entry
    config,      \* entry.config
    state,       \* entry.status.State, "unused" before the entry exists
    lastError,   \* the entries whose status.LastError is not empty
    connections, \* entry.status.Connections
    life,        \* the entry's context, which entry.cancel cancels
    listener,    \* entry.listener
    conn,        \* entry.conn
    sockets,     \* entry.sockets
    done,        \* entry.done
    stopped,     \* the entries whose stopped flag is set
    pc,          \* where Start or monitor is
    held,        \* the connection in a local variable of Start or monitor
    misses,      \* monitor's misses
    backoff,     \* monitor's backoff, in seconds
    acceptor,    \* where accept is
    incoming,    \* accept's local: the socket Accept has returned
    forwarder,   \* where the forward of a socket is
    owner,       \* forward's v
    via,         \* forward's conn
    callerPc,    \* where a Stop or a Close is
    callerOp,    \* which of the two it is
    todo,        \* ids it has still to stop
    target,      \* Stop's v
    probe,       \* the locals of a Ready call
    connOpen,    \* connections made and not yet closed by this program
    open         \* local sockets accepted and not yet closed

entryVars == <<closed, entries, config, state, lastError, connections, life,
               listener, conn, sockets, done, stopped>>
workerVars == <<pc, held, misses, backoff>>
forwardVars == <<acceptor, incoming, forwarder, owner, via>>
callVars == <<callerPc, callerOp, todo, target, probe>>
osVars == <<connOpen, open>>
vars == <<entryVars, workerVars, forwardVars, callVars, osVars>>

Active == {"connecting", "running", "reconnecting"}
State == Active \cup {"unused", "stopped", "error"}
StartPc == {"connecting", "connected", "fail", "cancel"}
MonitorPc == {"wait", "keepalive", "lost", "dropped", "giveup", "backoff",
              "redial", "reconnected"}
CallPc == {"idle", "lookup", "finish", "wait", "returned"}
Idle == [pc |-> "idle", entry |-> None, conn |-> None]

TypeOK ==
    /\ closed \in BOOLEAN
    /\ entries \in [Id -> Entry \cup {None}]
    /\ config \in [Entry -> Config \cup {None}]
    /\ state \in [Entry -> State]
    /\ lastError \subseteq Entry
    /\ connections \in [Entry -> Int]
    /\ life \in [Entry -> {"none", "live", "cancelled"}]
    /\ listener \in [Entry -> {"none", "open", "closed"}]
    /\ conn \in [Entry -> Conn \cup {None}]
    /\ sockets \in [Entry -> SUBSET Sock]
    /\ done \in [Entry -> {"none", "open", "closed"}]
    /\ stopped \subseteq Entry
    /\ pc \in [Entry -> {"none", "closing", "exited"} \cup StartPc \cup MonitorPc]
    /\ held \in [Entry -> Conn \cup {None}]
    /\ misses \in [Entry -> 0..MaxMisses]
    /\ backoff \in [Entry -> 1..MaxBackoff]
    /\ acceptor \in [Entry -> {"none", "accepting", "accepted", "exited"}]
    /\ incoming \in [Entry -> Sock \cup {None}]
    /\ forwarder \in [Sock -> {"none", "dialing", "copying", "cleanup"}]
    /\ owner \in [Sock -> Entry \cup {None}]
    /\ via \in [Sock -> Conn \cup {None}]
    /\ callerPc \in [Caller -> CallPc]
    /\ callerOp \in [Caller -> {"none", "stop", "close"}]
    /\ todo \in [Caller -> SUBSET Id]
    /\ target \in [Caller -> Entry \cup {None}]
    /\ probe \in [Prober -> [pc : {"idle", "dialing", "ok"},
                             entry : Entry \cup {None}, conn : Conn \cup {None}]]
    /\ connOpen \subseteq Conn
    /\ open \subseteq Sock

Init ==
    /\ closed = FALSE
    /\ entries = [id \in Id |-> None]
    /\ config = [e \in Entry |-> None]
    /\ state = [e \in Entry |-> "unused"]
    /\ lastError = {}
    /\ connections = [e \in Entry |-> 0]
    /\ life = [e \in Entry |-> "none"]
    /\ listener = [e \in Entry |-> "none"]
    /\ conn = [e \in Entry |-> None]
    /\ sockets = [e \in Entry |-> {}]
    /\ done = [e \in Entry |-> "none"]
    /\ stopped = {}
    /\ pc = [e \in Entry |-> "none"]
    /\ held = [e \in Entry |-> None]
    /\ misses = [e \in Entry |-> 0]
    /\ backoff = [e \in Entry |-> 1]
    /\ acceptor = [e \in Entry |-> "none"]
    /\ incoming = [e \in Entry |-> None]
    /\ forwarder = [s \in Sock |-> "none"]
    /\ owner = [s \in Sock |-> None]
    /\ via = [s \in Sock |-> None]
    /\ callerPc = [c \in Caller |-> "idle"]
    /\ callerOp = [c \in Caller |-> "none"]
    /\ todo = [c \in Caller |-> {}]
    /\ target = [c \in Caller |-> None]
    /\ probe = [r \in Prober |-> Idle]
    /\ connOpen = {}
    /\ open = {}

----------------------------------------------------------------------------
(* What the goroutines share.                                              *)

\* The operating system: no open listener of this process has the port.
PortFree(p) == \A e \in Entry : listener[e] = "open" => config[e].port # p

\* A connection object that no variable of the program refers to.
FreeConn(k) ==
    /\ k \notin connOpen
    /\ \A e \in Entry : conn[e] # k /\ held[e] # k
    /\ \A s \in Sock : via[s] # k
    /\ \A r \in Prober : probe[r].conn # k

\* A socket object that no variable of the program refers to.
FreeSock(s) ==
    /\ s \notin open
    /\ forwarder[s] = "none"
    /\ \A e \in Entry : incoming[e] # s

\* The state finish leaves: a failure is shown unless the entry was stopped.
FinishState(e, failed) == IF failed /\ e \notin stopped THEN "error" ELSE "stopped"

\* Mutant: the registered sockets are left open.
CloseSocketsForgotten(e) == open

\* The sockets still open once every one registered at the entry is closed.
CloseSockets(e) == open \ sockets[e]

\* finish(v, err): failed says that err is not nil.  The caller sets its own
\* program counter.
Finish(e, failed) ==
    /\ life' = [life EXCEPT ![e] = IF @ = "none" THEN @ ELSE "cancelled"]
    /\ listener' = [listener EXCEPT ![e] = IF @ = "none" THEN @ ELSE "closed"]
    /\ connOpen' = connOpen \ {conn[e]}
    /\ conn' = [conn EXCEPT ![e] = None]
    /\ open' = CloseSockets(e)
    /\ state' = [state EXCEPT ![e] = FinishState(e, failed)]
    /\ stopped' = IF failed THEN stopped ELSE stopped \cup {e}
    /\ lastError' = IF failed /\ e \notin stopped THEN lastError \cup {e} ELSE lastError
    /\ UNCHANGED <<closed, entries, config, connections, sockets, done>>
    /\ UNCHANGED forwardVars

----------------------------------------------------------------------------
(* Start.                                                                  *)

\* Mutant: Start is still served while the agent shuts down.
MayStartClosed(id) ==
    entries[id] # None => state[entries[id]] \in {"stopped", "error"}

\* Start goes on: not shutting down, and no entry of this id in the way.
MayStart(id) ==
    /\ ~closed
    /\ entries[id] # None => state[entries[id]] \in {"stopped", "error"}

\* net.Listen fails, for this manager's own ports or for another program's:
\* an entry without listener, context or done channel takes the place.
StartBindFails(t, e) ==
    /\ MayStart(t.id)
    /\ state[e] = "unused"
    /\ entries' = [entries EXCEPT ![t.id] = e]
    /\ state' = [state EXCEPT ![e] = "error"]
    /\ lastError' = lastError \cup {e}
    /\ UNCHANGED <<closed, config, connections, life, listener, conn, sockets,
                   done, stopped>>
    /\ UNCHANGED <<workerVars, forwardVars, callVars, osVars>>

\* The port is bound and the entry is registered before SSH is dialled.
StartBinds(t, e) ==
    /\ MayStart(t.id)
    /\ state[e] = "unused"
    /\ PortFree(t.port)
    /\ entries' = [entries EXCEPT ![t.id] = e]
    /\ config' = [config EXCEPT ![e] = t]
    /\ state' = [state EXCEPT ![e] = "connecting"]
    /\ life' = [life EXCEPT ![e] = "live"]
    /\ listener' = [listener EXCEPT ![e] = "open"]
    /\ done' = [done EXCEPT ![e] = "open"]
    /\ pc' = [pc EXCEPT ![e] = "connecting"]
    /\ UNCHANGED <<closed, lastError, connections, conn, sockets, stopped>>
    /\ UNCHANGED <<held, misses, backoff, forwardVars, callVars, osVars>>

\* Connector.Connect returns a connection; it may have won against a cancel.
ConnectOK(e) ==
    /\ pc[e] = "connecting"
    /\ \E k \in Conn :
          /\ FreeConn(k)
          /\ connOpen' = connOpen \cup {k}
          /\ held' = [held EXCEPT ![e] = k]
    /\ pc' = [pc EXCEPT ![e] = "connected"]
    /\ UNCHANGED <<misses, backoff, open, entryVars, forwardVars, callVars>>

\* Connect fails, times out or is cancelled; life.Err() is read without the
\* lock, so a Stop may still come before the finish that follows.
ConnectFails(e) ==
    /\ pc[e] = "connecting"
    /\ pc' = [pc EXCEPT ![e] = IF life[e] = "cancelled" THEN "cancel" ELSE "fail"]
    /\ UNCHANGED <<held, misses, backoff, entryVars, forwardVars, callVars, osVars>>

\* finish(v, e) after a failed Connect.
StartFails(e) ==
    /\ pc[e] = "fail"
    /\ Finish(e, TRUE)
    /\ pc' = [pc EXCEPT ![e] = "closing"]
    /\ UNCHANGED <<held, misses, backoff, callVars>>

\* finish(v, nil) after a cancelled Connect.
StartCancelled(e) ==
    /\ pc[e] = "cancel"
    /\ Finish(e, FALSE)
    /\ pc' = [pc EXCEPT ![e] = "closing"]
    /\ UNCHANGED <<held, misses, backoff, callVars>>

\* Mutant: a connection is installed although the entry was cancelled.
StillLiveUnchecked(e) == TRUE

\* ctx.Err() == nil, as Start and monitor read it inside the lock.
StillLive(e) == life[e] = "live"

\* The connection is installed; accept and monitor are spawned.
StartInstalls(e) ==
    /\ pc[e] = "connected"
    /\ StillLive(e)
    /\ conn' = [conn EXCEPT ![e] = held[e]]
    /\ held' = [held EXCEPT ![e] = None]
    /\ state' = [state EXCEPT ![e] = "running"]
    /\ lastError' = lastError \ {e}
    /\ connections' = [connections EXCEPT ![e] = 0]
    /\ pc' = [pc EXCEPT ![e] = "wait"]
    /\ acceptor' = [acceptor EXCEPT ![e] = "accepting"]
    /\ UNCHANGED <<closed, entries, config, life, listener, sockets, done, stopped>>
    /\ UNCHANGED <<misses, backoff, incoming, forwarder, owner, via, callVars, osVars>>

\* Mutant: the connection of a cancelled entry is forgotten, not closed.
DiscardKept(e) == connOpen

\* conn.Close() or next.Close() of a connection that came too late.
Discard(e) == connOpen \ {held[e]}

\* The entry was cancelled meanwhile: close the connection, then finish(v, nil).
StartDiscards(e) ==
    /\ pc[e] = "connected"
    /\ ~StillLive(e)
    /\ connOpen' = Discard(e)
    /\ held' = [held EXCEPT ![e] = None]
    /\ pc' = [pc EXCEPT ![e] = "cancel"]
    /\ UNCHANGED <<misses, backoff, open, entryVars, forwardVars, callVars>>

\* close(v.done), by Start on its error paths and by monitor's defer.
CloseDone(e) ==
    /\ pc[e] = "closing"
    /\ done' = [done EXCEPT ![e] = "closed"]
    /\ pc' = [pc EXCEPT ![e] = "exited"]
    /\ UNCHANGED <<closed, entries, config, state, lastError, connections, life,
                   listener, conn, sockets, stopped>>
    /\ UNCHANGED <<held, misses, backoff, forwardVars, callVars, osVars>>

----------------------------------------------------------------------------
(* monitor.                                                                *)

\* Ticks and results that reach the monitor after it was cancelled may still
\* win the select; the cancel is noticed at the next one.
MonitorTick(e) ==
    /\ pc[e] = "wait"
    /\ held' = [held EXCEPT ![e] = conn[e]]
    /\ pc' = [pc EXCEPT ![e] = IF conn[e] = None THEN "closing" ELSE "keepalive"]
    /\ UNCHANGED <<misses, backoff, entryVars, forwardVars, callVars, osVars>>

\* <-ctx.Done() in one of the monitor's three selects.
MonitorCancelled(e) ==
    /\ pc[e] \in {"wait", "keepalive", "backoff"}
    /\ life[e] = "cancelled"
    /\ held' = [held EXCEPT ![e] = None]
    /\ pc' = [pc EXCEPT ![e] = "closing"]
    /\ UNCHANGED <<misses, backoff, entryVars, forwardVars, callVars, osVars>>

\* The keepalive is answered; a Stop may have closed the connection since.
KeepAliveOK(e) ==
    /\ pc[e] = "keepalive"
    /\ held' = [held EXCEPT ![e] = None]
    /\ misses' = [misses EXCEPT ![e] = 0]
    /\ pc' = [pc EXCEPT ![e] = "wait"]
    /\ UNCHANGED <<backoff, entryVars, forwardVars, callVars, osVars>>

\* The keepalive fails or times out; enough of them in a row lose the
\* connection.
KeepAliveFails(e) ==
    /\ pc[e] = "keepalive"
    /\ misses' = [misses EXCEPT ![e] = @ + 1]
    /\ IF misses[e] + 1 < MaxMisses
         THEN /\ pc' = [pc EXCEPT ![e] = "wait"]
              /\ held' = [held EXCEPT ![e] = None]
         ELSE /\ pc' = [pc EXCEPT ![e] = "lost"]
              /\ UNCHANGED held
    /\ UNCHANGED <<backoff, entryVars, forwardVars, callVars, osVars>>

\* The entry is taken off the connection and its sockets are closed.
Drop(e) ==
    /\ pc[e] = "lost"
    /\ StillLive(e)
    /\ lastError' = lastError \cup {e}
    /\ state' = [state EXCEPT ![e] = "reconnecting"]
    /\ conn' = [conn EXCEPT ![e] = None]
    /\ open' = CloseSockets(e)
    /\ pc' = [pc EXCEPT ![e] = "dropped"]
    /\ UNCHANGED <<closed, entries, config, connections, life, listener, sockets,
                   done, stopped>>
    /\ UNCHANGED <<held, misses, backoff, connOpen, forwardVars, callVars>>

\* The entry was stopped before the monitor could drop the connection.
DropTooLate(e) ==
    /\ pc[e] = "lost"
    /\ ~StillLive(e)
    /\ held' = [held EXCEPT ![e] = None]
    /\ pc' = [pc EXCEPT ![e] = "closing"]
    /\ UNCHANGED <<misses, backoff, entryVars, forwardVars, callVars, osVars>>

\* conn.Close() of the lost connection, outside the lock.
CloseLost(e) ==
    /\ pc[e] = "dropped"
    /\ connOpen' = connOpen \ {held[e]}
    /\ held' = [held EXCEPT ![e] = None]
    /\ backoff' = [backoff EXCEPT ![e] = 1]
    /\ pc' = [pc EXCEPT ![e] = IF config[e].auto THEN "backoff" ELSE "giveup"]
    /\ UNCHANGED <<misses, open, entryVars, forwardVars, callVars>>

\* finish(v, err) of an entry without automatic reconnection.
GiveUp(e) ==
    /\ pc[e] = "giveup"
    /\ Finish(e, TRUE)
    /\ pc' = [pc EXCEPT ![e] = "closing"]
    /\ UNCHANGED <<held, misses, backoff, callVars>>

\* The wait is over.  The timer is made as the select is entered and runs for
\* a second at least, so a context cancelled before it fires wins the select;
\* a cancel may follow before Connect returns.
BackoffElapses(e) ==
    /\ pc[e] = "backoff"
    /\ StillLive(e)
    /\ pc' = [pc EXCEPT ![e] = "redial"]
    /\ UNCHANGED <<held, misses, backoff, entryVars, forwardVars, callVars, osVars>>

\* Connect returns the next connection.
RedialOK(e) ==
    /\ pc[e] = "redial"
    /\ \E k \in Conn :
          /\ FreeConn(k)
          /\ connOpen' = connOpen \cup {k}
          /\ held' = [held EXCEPT ![e] = k]
    /\ pc' = [pc EXCEPT ![e] = "reconnected"]
    /\ UNCHANGED <<misses, backoff, open, entryVars, forwardVars, callVars>>

\* Mutant: the wait doubles without end.
NextBackoffUncapped(b) == IF b < MaxBackoff THEN 2 * b ELSE b

\* The wait doubles up to its cap.
NextBackoff(b) ==
    IF b < MaxBackoff
      THEN IF 2 * b > MaxBackoff THEN MaxBackoff ELSE 2 * b
      ELSE b

\* Connect fails again: the error is shown and the wait grows.
RedialFails(e) ==
    /\ pc[e] = "redial"
    /\ lastError' = lastError \cup {e}
    /\ backoff' = [backoff EXCEPT ![e] = NextBackoff(@)]
    /\ pc' = [pc EXCEPT ![e] = "backoff"]
    /\ UNCHANGED <<closed, entries, config, state, connections, life, listener,
                   conn, sockets, done, stopped>>
    /\ UNCHANGED <<held, misses, forwardVars, callVars, osVars>>

\* Mutant: the status still says reconnecting once the connection is back.
ReconnectUnshown(e) ==
    /\ pc[e] = "reconnected"
    /\ StillLive(e)
    /\ conn' = [conn EXCEPT ![e] = held[e]]
    /\ held' = [held EXCEPT ![e] = None]
    /\ misses' = [misses EXCEPT ![e] = 0]
    /\ pc' = [pc EXCEPT ![e] = "wait"]
    /\ UNCHANGED <<closed, entries, config, state, lastError, connections, life,
                   listener, sockets, done, stopped>>
    /\ UNCHANGED <<backoff, forwardVars, callVars, osVars>>

\* The next connection is installed; the shown error stays.
Reconnect(e) ==
    /\ pc[e] = "reconnected"
    /\ StillLive(e)
    /\ conn' = [conn EXCEPT ![e] = held[e]]
    /\ held' = [held EXCEPT ![e] = None]
    /\ state' = [state EXCEPT ![e] = "running"]
    /\ misses' = [misses EXCEPT ![e] = 0]
    /\ pc' = [pc EXCEPT ![e] = "wait"]
    /\ UNCHANGED <<closed, entries, config, lastError, connections, life, listener,
                   sockets, done, stopped>>
    /\ UNCHANGED <<backoff, forwardVars, callVars, osVars>>

\* The entry was cancelled while Connect was running.
RedialDiscards(e) ==
    /\ pc[e] = "reconnected"
    /\ ~StillLive(e)
    /\ connOpen' = Discard(e)
    /\ held' = [held EXCEPT ![e] = None]
    /\ pc' = [pc EXCEPT ![e] = "closing"]
    /\ UNCHANGED <<misses, backoff, open, entryVars, forwardVars, callVars>>

----------------------------------------------------------------------------
(* accept and forward.                                                     *)

\* Accept returns a socket.
Accept(e) ==
    /\ acceptor[e] = "accepting"
    /\ listener[e] = "open"
    /\ \E s \in Sock :
          /\ FreeSock(s)
          /\ incoming' = [incoming EXCEPT ![e] = s]
          /\ open' = open \cup {s}
    /\ acceptor' = [acceptor EXCEPT ![e] = "accepted"]
    /\ UNCHANGED <<forwarder, owner, via, connOpen, entryVars, workerVars, callVars>>

\* Accept returns an error and the loop ends for good: the listener was
\* closed, or the system call failed (out of file descriptors, say).
AcceptFails(e) ==
    /\ acceptor[e] = "accepting"
    /\ acceptor' = [acceptor EXCEPT ![e] = "exited"]
    /\ UNCHANGED <<incoming, forwarder, owner, via, entryVars, workerVars,
                   callVars, osVars>>

\* Mutant: a socket is admitted whatever became of the entry meanwhile.
AdmissibleAlways(e) == Cardinality(sockets[e]) < MaxSockets

\* Mutant: the limit is off by one.
AdmissibleOneMore(e) ==
    /\ life[e] = "live" /\ state[e] = "running" /\ conn[e] # None
    /\ Cardinality(sockets[e]) <= MaxSockets

\* accept's condition for forwarding the socket.
Admissible(e) ==
    /\ life[e] = "live" /\ state[e] = "running" /\ conn[e] # None
    /\ Cardinality(sockets[e]) < MaxSockets

\* The socket is registered and its forward is spawned.
Admit(e) ==
    /\ acceptor[e] = "accepted"
    /\ Admissible(e)
    /\ sockets' = [sockets EXCEPT ![e] = @ \cup {incoming[e]}]
    /\ connections' = [connections EXCEPT ![e] = @ + 1]
    /\ forwarder' = [forwarder EXCEPT ![incoming[e]] = "dialing"]
    /\ owner' = [owner EXCEPT ![incoming[e]] = e]
    /\ via' = [via EXCEPT ![incoming[e]] = conn[e]]
    /\ incoming' = [incoming EXCEPT ![e] = None]
    /\ acceptor' = [acceptor EXCEPT ![e] = "accepting"]
    /\ UNCHANGED <<closed, entries, config, state, lastError, life, listener, conn,
                   done, stopped>>
    /\ UNCHANGED <<workerVars, callVars, osVars>>

\* The socket is closed at once.
Refuse(e) ==
    /\ acceptor[e] = "accepted"
    /\ ~Admissible(e)
    /\ open' = open \ {incoming[e]}
    /\ incoming' = [incoming EXCEPT ![e] = None]
    /\ acceptor' = [acceptor EXCEPT ![e] = "accepting"]
    /\ UNCHANGED <<forwarder, owner, via, connOpen, entryVars, workerVars, callVars>>

\* conn.Dial reaches the remote address.
DialOK(s) ==
    /\ forwarder[s] = "dialing"
    /\ via[s] \in connOpen
    /\ forwarder' = [forwarder EXCEPT ![s] = "copying"]
    /\ UNCHANGED <<acceptor, incoming, owner, via, entryVars, workerVars, callVars,
                   osVars>>

\* conn.Dial fails, which the status shows.
DialFails(s) ==
    /\ forwarder[s] = "dialing"
    /\ lastError' = lastError \cup {owner[s]}
    /\ forwarder' = [forwarder EXCEPT ![s] = "cleanup"]
    /\ UNCHANGED <<closed, entries, config, state, connections, life, listener, conn,
                   sockets, done, stopped>>
    /\ UNCHANGED <<acceptor, incoming, owner, via, workerVars, callVars, osVars>>

\* Both copies have ended.
CopyEnds(s) ==
    /\ forwarder[s] = "copying"
    /\ open' = open \ {s}
    /\ forwarder' = [forwarder EXCEPT ![s] = "cleanup"]
    /\ UNCHANGED <<acceptor, incoming, owner, via, connOpen, entryVars, workerVars,
                   callVars>>

\* Mutant: the socket leaves the map and the count is forgotten.
UncountForgotten(e) == connections[e]

\* v.status.Connections--
Uncount(e) == connections[e] - 1

\* forward's deferred function.
Cleanup(s) ==
    /\ forwarder[s] = "cleanup"
    /\ open' = open \ {s}
    /\ sockets' = [sockets EXCEPT ![owner[s]] = @ \ {s}]
    /\ connections' = [connections EXCEPT ![owner[s]] = Uncount(owner[s])]
    /\ forwarder' = [forwarder EXCEPT ![s] = "none"]
    /\ owner' = [owner EXCEPT ![s] = None]
    /\ via' = [via EXCEPT ![s] = None]
    /\ UNCHANGED <<closed, entries, config, state, lastError, life, listener, conn,
                   done, stopped>>
    /\ UNCHANGED <<acceptor, incoming, connOpen, workerVars, callVars>>

----------------------------------------------------------------------------
(* Stop, Close and Ready.                                                  *)

\* Stop(id) is called.
Stop(c, id) ==
    /\ callerPc[c] \in {"idle", "returned"}
    /\ callerPc' = [callerPc EXCEPT ![c] = "lookup"]
    /\ callerOp' = [callerOp EXCEPT ![c] = "stop"]
    /\ todo' = [todo EXCEPT ![c] = {id}]
    /\ target' = [target EXCEPT ![c] = None]
    /\ UNCHANGED <<probe, entryVars, workerVars, forwardVars, osVars>>

\* Close() is called: it refuses later Starts and lists the ids to stop.
Close(c) ==
    /\ callerPc[c] \in {"idle", "returned"}
    /\ closed' = TRUE
    /\ callerPc' = [callerPc EXCEPT ![c] = "lookup"]
    /\ callerOp' = [callerOp EXCEPT ![c] = "close"]
    /\ todo' = [todo EXCEPT ![c] = {id \in Id : entries[id] # None}]
    /\ target' = [target EXCEPT ![c] = None]
    /\ UNCHANGED <<entries, config, state, lastError, connections, life, listener,
                   conn, sockets, done, stopped>>
    /\ UNCHANGED <<probe, workerVars, forwardVars, osVars>>

\* v := m.entries[id] for one of the ids, in the order the map yields them.
StopLooksUp(c) ==
    /\ callerPc[c] = "lookup"
    /\ \E id \in todo[c] :
          /\ todo' = [todo EXCEPT ![c] = @ \ {id}]
          /\ target' = [target EXCEPT ![c] = entries[id]]
          /\ callerPc' = [callerPc EXCEPT ![c] =
                              IF entries[id] = None THEN "lookup" ELSE "finish"]
    /\ UNCHANGED <<callerOp, probe, entryVars, workerVars, forwardVars, osVars>>

\* m.finish(v, nil)
StopFinishes(c) ==
    /\ callerPc[c] = "finish"
    /\ Finish(target[c], FALSE)
    /\ callerPc' = [callerPc EXCEPT ![c] = "wait"]
    /\ UNCHANGED <<callerOp, todo, target, probe, workerVars>>

\* Mutant: Stop also waits for the nil channel of an entry without a port.
AwaitedNil(e) == done[e] = "closed"

\* <-v.done, which an entry that never bound its port does not have.
Awaited(e) == done[e] # "open"

\* The wait of Stop ends; Close goes on with the next id.
StopWaits(c) ==
    /\ callerPc[c] = "wait"
    /\ Awaited(target[c])
    /\ callerPc' = [callerPc EXCEPT ![c] = "lookup"]
    /\ UNCHANGED <<callerOp, todo, target, probe, entryVars, workerVars, forwardVars,
                   osVars>>

\* Stop or Close returns.
Return(c) ==
    /\ callerPc[c] = "lookup"
    /\ todo[c] = {}
    /\ callerPc' = [callerPc EXCEPT ![c] = "returned"]
    /\ UNCHANGED <<callerOp, todo, target, probe, entryVars, workerVars, forwardVars,
                   osVars>>

\* Ready(id) finds a running entry and dials through its connection.
Ready(r, id) ==
    /\ probe[r].pc # "dialing"
    /\ entries[id] # None
    /\ state[entries[id]] = "running"
    /\ conn[entries[id]] # None
    /\ probe' = [probe EXCEPT ![r] = [pc |-> "dialing", entry |-> entries[id],
                                      conn |-> conn[entries[id]]]]
    /\ UNCHANGED <<callerPc, callerOp, todo, target, entryVars, workerVars,
                   forwardVars, osVars>>

\* The remote address answers: Ready returns nil.
ReadyOK(r) ==
    /\ probe[r].pc = "dialing"
    /\ probe[r].conn \in connOpen
    /\ probe' = [probe EXCEPT ![r] = [pc |-> "ok", entry |-> probe[r].entry,
                                      conn |-> probe[r].conn]]
    /\ UNCHANGED <<callerPc, callerOp, todo, target, entryVars, workerVars,
                   forwardVars, osVars>>

\* The dial fails: Ready shows and returns the error.
ReadyFails(r) ==
    /\ probe[r].pc = "dialing"
    /\ lastError' = lastError \cup {probe[r].entry}
    /\ probe' = [probe EXCEPT ![r] = Idle]
    /\ UNCHANGED <<closed, entries, config, state, connections, life, listener, conn,
                   sockets, done, stopped>>
    /\ UNCHANGED <<callerPc, callerOp, todo, target, workerVars, forwardVars, osVars>>

----------------------------------------------------------------------------
(* The whole program.                                                      *)

\* The goroutine in charge of an entry: Start, then monitor.
Worker(e) ==
    \/ ConnectOK(e) \/ ConnectFails(e) \/ StartFails(e) \/ StartCancelled(e)
    \/ StartInstalls(e) \/ StartDiscards(e) \/ CloseDone(e)
    \/ MonitorTick(e) \/ MonitorCancelled(e) \/ KeepAliveOK(e) \/ KeepAliveFails(e)
    \/ Drop(e) \/ DropTooLate(e) \/ CloseLost(e) \/ GiveUp(e)
    \/ BackoffElapses(e) \/ RedialOK(e) \/ RedialFails(e)
    \/ Reconnect(e) \/ RedialDiscards(e)

AcceptLoop(e) == Accept(e) \/ AcceptFails(e) \/ Admit(e) \/ Refuse(e)

Forward(s) == DialOK(s) \/ DialFails(s) \/ CopyEnds(s) \/ Cleanup(s)

\* What Stop and Close do once they are called.
Call(c) == StopLooksUp(c) \/ StopFinishes(c) \/ StopWaits(c) \/ Return(c)

Next ==
    \/ \E t \in Config, e \in Entry : StartBindFails(t, e) \/ StartBinds(t, e)
    \/ \E e \in Entry : Worker(e) \/ AcceptLoop(e)
    \/ \E s \in Sock : Forward(s)
    \/ \E c \in Caller : Close(c) \/ Call(c) \/ \E id \in Id : Stop(c, id)
    \/ \E r \in Prober : ReadyOK(r) \/ ReadyFails(r) \/ \E id \in Id : Ready(r, id)

Spec == Init /\ [][Next]_vars

(***************************************************************************)
(* Goroutines run.  Connect, keepalives and dials end because each has a   *)
(* timeout (45 s, 10 s, 15 s); tickers and timers fire.  Accept on a       *)
(* closed listener returns, and so do the copies over a closed connection. *)
(* Nothing makes clients connect, peers hang up or anyone call Start,      *)
(* Stop, Close or Ready.                                                   *)
(***************************************************************************)
Fairness ==
    /\ \A e \in Entry :
          /\ WF_vars(Worker(e))
          /\ WF_vars(Admit(e) \/ Refuse(e))
          /\ WF_vars(AcceptFails(e) /\ listener[e] = "closed")
    /\ \A s \in Sock :
          /\ WF_vars(DialOK(s) \/ DialFails(s))
          /\ WF_vars(CopyEnds(s) /\ via[s] \notin connOpen)
          /\ WF_vars(Cleanup(s))
    /\ \A c \in Caller : WF_vars(Call(c))
    /\ \A r \in Prober : WF_vars(ReadyOK(r) \/ ReadyFails(r))

FairSpec == Spec /\ Fairness

\* A network that lets a redial through again and again.
NetworkRecovers == \A e \in Entry : SF_vars(RedialOK(e))

----------------------------------------------------------------------------
(* Properties.                                                             *)

(***************************************************************************)
(* The status tells the truth: an entry listens exactly while it is        *)
(* connecting, running or reconnecting, it has a connection, and an open   *)
(* one, exactly while it is running, and an error comes with its message.  *)
(* A connection that arrives after a Stop, or a Stop between a failed      *)
(* Connect and its finish, would break it (Start, finish, monitor).        *)
(***************************************************************************)
StatusIsTrue ==
    \A e \in Entry :
        /\ listener[e] = "open" <=> state[e] \in Active
        /\ conn[e] \in connOpen <=> state[e] = "running"
        /\ conn[e] # None <=> state[e] = "running"
        /\ state[e] = "error" => e \in lastError

(***************************************************************************)
(* An active entry is the one the map holds under its id, so that Stop,    *)
(* Close and the status page reach it: Start never replaces an entry that  *)
(* still has a listener, whatever the goroutines of older entries do.      *)
(***************************************************************************)
ActiveIsRegistered ==
    \A e \in Entry : state[e] \in Active => entries[config[e].id] = e

(***************************************************************************)
(* A local socket that is still open is forwarded over the connection the  *)
(* entry has now: accept reads conn and registers the socket in one        *)
(* critical section, and finish and monitor close every registered socket  *)
(* in the section that takes the connection away.                          *)
(***************************************************************************)
SocketsFollowConn ==
    \A e \in Entry : \A s \in sockets[e] \cap open :
        owner[s] = e /\ via[s] = conn[e] /\ conn[e] # None

(***************************************************************************)
(* Status.Connections counts the registered sockets, through reconnects    *)
(* and a Stop amid clean-ups, and stays within accept's limit.             *)
(***************************************************************************)
ConnectionCount ==
    \A e \in Entry : /\ connections[e] = Cardinality(sockets[e])
                     /\ connections[e] <= MaxSockets

\* Where the goroutine of an entry itself has to close or install held.
Holding == {"connected", "dropped", "reconnected"}

\* Entry e answers for closing k: finish will (conn), or its goroutine will.
Owns(e, k) == conn[e] = k \/ (held[e] = k /\ pc[e] \in Holding)

(***************************************************************************)
(* Every open SSH connection has exactly one entry that will close it: no  *)
(* order of Stop, Connect, keepalive and redial leaks one or leaves two    *)
(* entries with the same one.                                              *)
(***************************************************************************)
NoConnLeak ==
    \A k \in connOpen : \E e \in Entry :
        Owns(e, k) /\ \A f \in Entry : Owns(f, k) => f = e

\* Nothing of the entry is left but forwards that are winding up.
Released(e) ==
    /\ state[e] = "stopped"
    /\ listener[e] # "open"
    /\ conn[e] = None
    /\ held[e] = None
    /\ pc[e] \in {"none", "exited"}
    /\ sockets[e] \cap open = {}

(***************************************************************************)
(* When Stop has returned, the entry it looked up is released, and for     *)
(* good: no Connect or redial of it is still under way.                    *)
(***************************************************************************)
StopReleases ==
    \A c \in Caller :
        callerPc[c] = "returned" /\ target[c] # None => Released(target[c])

(***************************************************************************)
(* When Close has returned, every tunnel the manager knows is released,    *)
(* although Starts ran beside it.                                          *)
(***************************************************************************)
CloseReleases ==
    \A c \in Caller : callerPc[c] = "returned" /\ callerOp[c] = "close" =>
        \A id \in Id : entries[id] # None => Released(entries[id])

(***************************************************************************)
(* A Stop or a Close that has returned left nothing of what it was to end. *)
(***************************************************************************)
CallsRelease == StopReleases /\ CloseReleases

(***************************************************************************)
(* A stopped entry stays stopped: no late failure, keepalive or connection *)
(* of its goroutines brings it back or turns it into an error (finish's    *)
(* stopped flag).                                                          *)
(***************************************************************************)
StopIsFinal ==
    [][\A e \in Entry : state[e] = "stopped" => state'[e] = "stopped"]_vars

\* What Statuses shows under an id.
Status == [id \in Id |-> IF entries[id] = None THEN "absent" ELSE state[entries[id]]]

Lifecycle == INSTANCE TunnelLifecycle WITH status <- Status

(***************************************************************************)
(* The statuses shown by id follow TunnelLifecycle: goroutines of a        *)
(* replaced entry never touch what is shown for its successor.             *)
(***************************************************************************)
LifecycleSpec == Lifecycle!Spec

(***************************************************************************)
(* Every call returns.  Start has timeouts on every path, so that no entry *)
(* stays connecting for ever; the done channel that Stop and Close wait    *)
(* for is closed on every path of Start and monitor, and an entry whose    *)
(* bind failed has none.                                                   *)
(***************************************************************************)
CallsReturn ==
    /\ \A e \in Entry : state[e] = "connecting" ~> state[e] # "connecting"
    /\ \A c \in Caller : callerPc[c] = "lookup" ~> callerPc[c] = "returned"

(***************************************************************************)
(* On a network that recovers in the end, a lost connection comes back or  *)
(* the entry ends (monitor's reconnect loop).                              *)
(***************************************************************************)
ReconnectEnds ==
    NetworkRecovers =>
        \A e \in Entry : state[e] = "reconnecting" ~> state[e] # "reconnecting"

(***************************************************************************)
(* After Close was called, every connection and every socket is closed in  *)
(* the end, those of entries replaced before the Close included, and none  *)
(* is opened again.                                                        *)
(***************************************************************************)
ClosedDrains ==
    closed ~> [](connOpen = {} /\ open = {})

(***************************************************************************)
(* "Ready checks the entire forwarding route, not just the local listener" *)
(* (manager.go:320): while the entry it found good runs on that            *)
(* connection, somebody accepts on the entry's port.                       *)
(***************************************************************************)
ReadyMeansServing ==
    \A r \in Prober : LET e == probe[r].entry IN
        probe[r].pc = "ok" /\ state[e] = "running" /\ conn[e] = probe[r].conn =>
            acceptor[e] # "exited"
============================================================================
