------------------------ MODULE TunnelManagerProofs ------------------------
(***************************************************************************)
(* Proofs about TunnelManager, for any number of tunnels, entries,         *)
(* connections, sockets, callers and probers and for any limits.           *)
(*                                                                         *)
(* None of the safety properties is inductive.  The invariant that is      *)
(* relates, for each entry, the status to where the entry's goroutine is   *)
(* (PhaseInv) and builds on it: RegInv and InjInv for the map of entries,  *)
(* OwnInv for the SSH connections, SocketInv and CountInv for the local    *)
(* sockets, StopInv and CloseInv for the callers.  Each has one lemma that *)
(* every step preserves it, with one step per action; actions that leave   *)
(* everything it mentions alone are covered by the frame lemmas.           *)
(***************************************************************************)
EXTENDS TunnelManager, FiniteSetTheorems, TLAPS

(* What the steps leave alone.                                             *)

\* What the entries are, apart from what their status shows in detail.
entryCore == <<entries, config, state, life, listener, conn, done, stopped>>

\* The steps of an entry's goroutine that only move its own locals.
Quiet(e) ==
    \/ ConnectOK(e) \/ ConnectFails(e) \/ StartDiscards(e) \/ MonitorTick(e)
    \/ MonitorCancelled(e) \/ KeepAliveOK(e) \/ KeepAliveFails(e) \/ DropTooLate(e)
    \/ CloseLost(e) \/ BackoffElapses(e) \/ RedialOK(e) \/ RedialFails(e)
    \/ RedialDiscards(e)

\* The steps of a call that only move the caller's locals.
Asks(c) == StopLooksUp(c) \/ StopWaits(c) \/ Return(c)

Probes(r) == ReadyOK(r) \/ ReadyFails(r)

\* A quiet step of Start or monitor leaves every shared field alone.
LEMMA QuietFrame ==
    ASSUME NEW e \in Entry, Quiet(e)
    PROVE  /\ UNCHANGED <<entryCore, closed, sockets, connections, open, forwardVars, callVars>>
           /\ lastError \subseteq lastError'
  BY DEF Quiet, entryCore, entryVars, forwardVars, callVars, osVars, ConnectOK,
         ConnectFails, StartDiscards, MonitorTick, MonitorCancelled, KeepAliveOK,
         KeepAliveFails, DropTooLate, CloseLost, BackoffElapses, RedialOK, RedialFails,
         RedialDiscards

\* accept touches neither the entry's state nor any connection.
LEMMA AcceptFrame ==
    ASSUME NEW e \in Entry, AcceptLoop(e)
    PROVE  UNCHANGED <<entryCore, closed, lastError, workerVars, callVars, connOpen>>
  BY DEF AcceptLoop, entryCore, entryVars, osVars, Accept, AcceptFails, Admit, Refuse

\* forward touches neither the entry's state nor any connection.
LEMMA ForwardFrame ==
    ASSUME NEW s \in Sock, Forward(s)
    PROVE  /\ UNCHANGED <<entryCore, closed, workerVars, callVars, connOpen, acceptor,
                          incoming>>
           /\ lastError \subseteq lastError'
  BY DEF Forward, entryCore, entryVars, osVars, DialOK, DialFails, CopyEnds, Cleanup

\* Looking up, waiting and returning change nothing but the caller.
LEMMA AsksFrame ==
    ASSUME NEW c \in Caller, Asks(c)
    PROVE  UNCHANGED <<entryVars, workerVars, forwardVars, osVars, probe>>
  BY DEF Asks, StopLooksUp, StopWaits, Return

\* Ready changes at most the shown error.
LEMMA ProbesFrame ==
    ASSUME NEW r \in Prober, Probes(r)
    PROVE  /\ UNCHANGED <<entryCore, closed, sockets, connections, workerVars,
                          forwardVars, osVars, callerPc, callerOp, todo, target>>
           /\ lastError \subseteq lastError'
  BY DEF Probes, entryCore, entryVars, ReadyOK, ReadyFails

----------------------------------------------------------------------------
(* Types.                                                                  *)

\* What makes TypeOK inductive: the misses counted before the connection is
\* given up, and locals that are not nil where they are used.
LocalsOK ==
    /\ \A e \in Entry :
          /\ pc[e] \in StartPc \cup {"none", "wait", "keepalive"} => misses[e] < MaxMisses
          /\ state[e] = "unused" => pc[e] = "none"
          /\ acceptor[e] = "accepted" => incoming[e] \in Sock
    /\ \A s \in Sock : forwarder[s] # "none" => owner[s] \in Entry
    /\ \A c \in Caller : callerPc[c] \in {"finish", "wait"} => target[c] \in Entry
    /\ \A r \in Prober : probe[r].pc # "idle" => probe[r].entry \in Entry

TypeInv == TypeOK /\ LocalsOK

\* The initial state is well typed.
LEMMA TypeInit == Init => TypeInv
<1>1. 1 \in 1..MaxBackoff /\ 0 \in 0..MaxMisses /\ 0 < MaxMisses
  BY LimitAssumption
<1>2. Idle \in [pc : {"idle", "dialing", "ok"}, entry : Entry \cup {None},
                conn : Conn \cup {None}]
  BY DEF Idle
<1>3. Init => TypeOK
  <2> SUFFICES ASSUME Init PROVE TypeOK
    OBVIOUS
  <2>1. probe \in [Prober -> [pc : {"idle", "dialing", "ok"},
                              entry : Entry \cup {None}, conn : Conn \cup {None}]]
    BY <1>2 DEF Init
  <2>2. backoff \in [Entry -> 1..MaxBackoff] /\ misses \in [Entry -> 0..MaxMisses]
    BY <1>1 DEF Init
  <2>3. closed \in BOOLEAN
    BY DEF Init
  <2> QED
    BY <2>1, <2>2, <2>3 DEF Init, TypeOK, State, CallPc
<1>4. Init => LocalsOK
  BY <1>1 DEF Init, LocalsOK, Idle
<1> QED
  BY <1>3, <1>4 DEF TypeInv

\* Every step keeps the types.
LEMMA TypeInductive ==
    ASSUME TypeInv, [Next]_vars
    PROVE  TypeInv'
<1> USE ConfigAssumption, NoneAssumption, LimitAssumption
    DEF TypeInv, TypeOK, State, Active, StartPc, MonitorPc, CallPc,
        entryVars, workerVars, forwardVars, callVars, osVars, LocalsOK
<1>1. ASSUME NEW t \in Config, NEW e \in Entry, StartBindFails(t, e)
      PROVE  TypeInv'
  BY <1>1 DEF StartBindFails
<1>2. ASSUME NEW t \in Config, NEW e \in Entry, StartBinds(t, e)
      PROVE  TypeInv'
  BY <1>2 DEF StartBinds
<1>3. ASSUME NEW e \in Entry, ConnectOK(e)
      PROVE  TypeInv'
  BY <1>3 DEF ConnectOK
<1>4. ASSUME NEW e \in Entry, ConnectFails(e)
      PROVE  TypeInv'
  BY <1>4 DEF ConnectFails
<1>5. ASSUME NEW e \in Entry, StartFails(e)
      PROVE  TypeInv'
  BY <1>5 DEF StartFails, Finish, CloseSockets, FinishState
<1>6. ASSUME NEW e \in Entry, StartCancelled(e)
      PROVE  TypeInv'
  BY <1>6 DEF StartCancelled, Finish, CloseSockets, FinishState
<1>7. ASSUME NEW e \in Entry, StartInstalls(e)
      PROVE  TypeInv'
  BY <1>7 DEF StartInstalls, StillLive
<1>8. ASSUME NEW e \in Entry, StartDiscards(e)
      PROVE  TypeInv'
  BY <1>8 DEF StartDiscards, StillLive, Discard
<1>9. ASSUME NEW e \in Entry, CloseDone(e)
      PROVE  TypeInv'
  BY <1>9 DEF CloseDone
<1>10. ASSUME NEW e \in Entry, MonitorTick(e)
      PROVE  TypeInv'
  BY <1>10 DEF MonitorTick
<1>11. ASSUME NEW e \in Entry, MonitorCancelled(e)
      PROVE  TypeInv'
  BY <1>11 DEF MonitorCancelled
<1>12. ASSUME NEW e \in Entry, KeepAliveOK(e)
      PROVE  TypeInv'
  BY <1>12 DEF KeepAliveOK
<1>13. ASSUME NEW e \in Entry, KeepAliveFails(e)
      PROVE  TypeInv'
  <2>1. misses[e] \in 0..MaxMisses /\ misses[e] < MaxMisses
    BY <1>13 DEF KeepAliveFails
  <2>2. misses[e] + 1 \in 0..MaxMisses
    BY <2>1
  <2>3. misses' \in [Entry -> 0..MaxMisses]
    BY <1>13, <2>2 DEF KeepAliveFails
  <2>4. CASE misses[e] + 1 < MaxMisses
    <3>1. /\ pc' = [pc EXCEPT ![e] = "wait"] /\ held' = [held EXCEPT ![e] = None]
          /\ misses'[e] < MaxMisses
      BY <1>13, <2>4 DEF KeepAliveFails
    <3>2. TypeOK'
      BY <1>13, <2>3, <3>1 DEF KeepAliveFails
    <3>3. \A f \in Entry : f # e => misses'[f] = misses[f] /\ pc'[f] = pc[f]
      BY <1>13, <3>1 DEF KeepAliveFails
    <3> QED
      BY <1>13, <3>1, <3>2, <3>3 DEF KeepAliveFails
  <2>5. CASE ~(misses[e] + 1 < MaxMisses)
    <3>1. pc' = [pc EXCEPT ![e] = "lost"] /\ held' = held
      BY <1>13, <2>5 DEF KeepAliveFails
    <3>2. TypeOK'
      BY <1>13, <2>3, <3>1 DEF KeepAliveFails
    <3>3. \A f \in Entry : f # e => misses'[f] = misses[f]
      BY <1>13 DEF KeepAliveFails
    <3> QED
      BY <1>13, <3>1, <3>2, <3>3 DEF KeepAliveFails
  <2> QED
    BY <2>4, <2>5
<1>14. ASSUME NEW e \in Entry, Drop(e)
      PROVE  TypeInv'
  BY <1>14 DEF Drop, StillLive, CloseSockets
<1>15. ASSUME NEW e \in Entry, DropTooLate(e)
      PROVE  TypeInv'
  BY <1>15 DEF DropTooLate, StillLive
<1>16. ASSUME NEW e \in Entry, CloseLost(e)
      PROVE  TypeInv'
  BY <1>16 DEF CloseLost
<1>17. ASSUME NEW e \in Entry, GiveUp(e)
      PROVE  TypeInv'
  BY <1>17 DEF GiveUp, Finish, CloseSockets, FinishState
<1>18. ASSUME NEW e \in Entry, BackoffElapses(e)
      PROVE  TypeInv'
  BY <1>18 DEF BackoffElapses, StillLive
<1>19. ASSUME NEW e \in Entry, RedialOK(e)
      PROVE  TypeInv'
  BY <1>19 DEF RedialOK
<1>20. ASSUME NEW e \in Entry, RedialFails(e)
      PROVE  TypeInv'
  BY <1>20 DEF RedialFails, NextBackoff
<1>21. ASSUME NEW e \in Entry, Reconnect(e)
      PROVE  TypeInv'
  BY <1>21 DEF Reconnect, StillLive
<1>22. ASSUME NEW e \in Entry, RedialDiscards(e)
      PROVE  TypeInv'
  BY <1>22 DEF RedialDiscards, StillLive, Discard
<1>23. ASSUME NEW e \in Entry, Accept(e)
      PROVE  TypeInv'
  BY <1>23 DEF Accept
<1>24. ASSUME NEW e \in Entry, AcceptFails(e)
      PROVE  TypeInv'
  BY <1>24 DEF AcceptFails
<1>25. ASSUME NEW e \in Entry, Admit(e)
      PROVE  TypeInv'
  BY <1>25 DEF Admit
<1>26. ASSUME NEW e \in Entry, Refuse(e)
      PROVE  TypeInv'
  BY <1>26 DEF Refuse
<1>27. ASSUME NEW s \in Sock, DialOK(s)
      PROVE  TypeInv'
  BY <1>27 DEF DialOK
<1>28. ASSUME NEW s \in Sock, DialFails(s)
      PROVE  TypeInv'
  BY <1>28 DEF DialFails
<1>29. ASSUME NEW s \in Sock, CopyEnds(s)
      PROVE  TypeInv'
  BY <1>29 DEF CopyEnds
<1>30. ASSUME NEW s \in Sock, Cleanup(s)
      PROVE  TypeInv'
  BY <1>30 DEF Cleanup, Uncount
<1>31. ASSUME NEW c \in Caller, Close(c)
      PROVE  TypeInv'
  BY <1>31 DEF Close
<1>32. ASSUME NEW c \in Caller, StopLooksUp(c)
      PROVE  TypeInv'
  BY <1>32 DEF StopLooksUp
<1>33. ASSUME NEW c \in Caller, StopFinishes(c)
      PROVE  TypeInv'
  BY <1>33 DEF StopFinishes, Finish, CloseSockets, FinishState
<1>34. ASSUME NEW c \in Caller, StopWaits(c)
      PROVE  TypeInv'
  BY <1>34 DEF StopWaits, Awaited
<1>35. ASSUME NEW c \in Caller, Return(c)
      PROVE  TypeInv'
  BY <1>35 DEF Return
<1>36. ASSUME NEW c \in Caller, NEW id \in Id, Stop(c, id)
      PROVE  TypeInv'
  BY <1>36 DEF Stop
<1>37. ASSUME NEW r \in Prober, ReadyOK(r)
      PROVE  TypeInv'
  BY <1>37 DEF ReadyOK
<1>38. ASSUME NEW r \in Prober, ReadyFails(r)
      PROVE  TypeInv'
  BY <1>38 DEF ReadyFails, Idle
<1>39. ASSUME NEW r \in Prober, NEW id \in Id, Ready(r, id)
      PROVE  TypeInv'
  BY <1>39 DEF Ready
<1>40. CASE UNCHANGED vars
  BY <1>40 DEF vars
<1> HIDE DEF TypeInv
<1> QED
  BY <1>1, <1>2, <1>3, <1>4, <1>5, <1>6, <1>7, <1>8, <1>9, <1>10, <1>11,
     <1>12, <1>13, <1>14, <1>15, <1>16, <1>17, <1>18, <1>19, <1>20, <1>21,
     <1>22, <1>23, <1>24, <1>25, <1>26, <1>27, <1>28, <1>29, <1>30, <1>31,
     <1>32, <1>33, <1>34, <1>35, <1>36, <1>37, <1>38, <1>39, <1>40
  DEF Next, Worker, Call, AcceptLoop, Forward

----------------------------------------------------------------------------
(* The status and the goroutine in charge.                                 *)

\* Which states go with which places of Start and monitor, and what an entry
\* holds in them.
PhaseInv ==
    \A e \in Entry :
        /\ life[e] = "live" <=> state[e] \in Active
        /\ listener[e] = "open" <=> life[e] = "live"
        /\ pc[e] = "none" <=> life[e] = "none"
        /\ state[e] = "unused" => pc[e] = "none"
        /\ life[e] = "live" =>
              \/ state[e] = "connecting" /\ pc[e] \in {"connecting", "connected", "fail"}
              \/ state[e] = "running" /\ pc[e] \in {"wait", "keepalive", "lost"}
              \/ state[e] = "reconnecting" /\ pc[e] \in MonitorPc \ {"wait", "keepalive", "lost"}
        /\ conn[e] # None <=> state[e] = "running"
        /\ pc[e] \in {"keepalive", "lost"} /\ life[e] = "live" => held[e] = conn[e]
        /\ held[e] # None <=> pc[e] \in Holding \cup {"keepalive", "lost"}
        /\ state[e] = "stopped" <=> e \in stopped
        /\ state[e] = "error" => e \in lastError
        /\ done[e] = "none" <=> pc[e] = "none"
        /\ done[e] = "closed" <=> pc[e] = "exited"

\* Every step keeps status and goroutine in step.
LEMMA PhaseInductive ==
    ASSUME TypeOK, PhaseInv, [Next]_vars
    PROVE  PhaseInv'
<1> USE NoneAssumption
    DEF PhaseInv, TypeOK, Holding, State, Active, StartPc, MonitorPc,
        CallPc, entryCore, entryVars, workerVars, forwardVars, callVars,
        osVars
<1>1. ASSUME NEW t \in Config, NEW e \in Entry, StartBindFails(t, e)
      PROVE  PhaseInv'
  BY <1>1 DEF StartBindFails
<1>2. ASSUME NEW t \in Config, NEW e \in Entry, StartBinds(t, e)
      PROVE  PhaseInv'
  BY <1>2 DEF StartBinds
<1>3. ASSUME NEW e \in Entry, ConnectOK(e)
      PROVE  PhaseInv'
  BY <1>3 DEF ConnectOK
<1>4. ASSUME NEW e \in Entry, ConnectFails(e)
      PROVE  PhaseInv'
  BY <1>4 DEF ConnectFails
<1>5. ASSUME NEW e \in Entry, StartFails(e)
      PROVE  PhaseInv'
  BY <1>5 DEF StartFails, Finish, CloseSockets, FinishState
<1>6. ASSUME NEW e \in Entry, StartCancelled(e)
      PROVE  PhaseInv'
  BY <1>6 DEF StartCancelled, Finish, CloseSockets, FinishState
<1>7. ASSUME NEW e \in Entry, StartInstalls(e)
      PROVE  PhaseInv'
  BY <1>7 DEF StartInstalls, StillLive
<1>8. ASSUME NEW e \in Entry, StartDiscards(e)
      PROVE  PhaseInv'
  BY <1>8 DEF StartDiscards, StillLive, Discard
<1>9. ASSUME NEW e \in Entry, CloseDone(e)
      PROVE  PhaseInv'
  BY <1>9 DEF CloseDone
<1>10. ASSUME NEW e \in Entry, MonitorTick(e)
      PROVE  PhaseInv'
  BY <1>10 DEF MonitorTick
<1>11. ASSUME NEW e \in Entry, MonitorCancelled(e)
      PROVE  PhaseInv'
  BY <1>11 DEF MonitorCancelled
<1>12. ASSUME NEW e \in Entry, KeepAliveOK(e)
      PROVE  PhaseInv'
  BY <1>12 DEF KeepAliveOK
<1>13. ASSUME NEW e \in Entry, KeepAliveFails(e)
      PROVE  PhaseInv'
  BY <1>13 DEF KeepAliveFails
<1>14. ASSUME NEW e \in Entry, Drop(e)
      PROVE  PhaseInv'
  BY <1>14 DEF Drop, StillLive, CloseSockets
<1>15. ASSUME NEW e \in Entry, DropTooLate(e)
      PROVE  PhaseInv'
  BY <1>15 DEF DropTooLate, StillLive
<1>16. ASSUME NEW e \in Entry, CloseLost(e)
      PROVE  PhaseInv'
  BY <1>16 DEF CloseLost
<1>17. ASSUME NEW e \in Entry, GiveUp(e)
      PROVE  PhaseInv'
  BY <1>17 DEF GiveUp, Finish, CloseSockets, FinishState
<1>18. ASSUME NEW e \in Entry, BackoffElapses(e)
      PROVE  PhaseInv'
  BY <1>18 DEF BackoffElapses, StillLive
<1>19. ASSUME NEW e \in Entry, RedialOK(e)
      PROVE  PhaseInv'
  BY <1>19 DEF RedialOK
<1>20. ASSUME NEW e \in Entry, RedialFails(e)
      PROVE  PhaseInv'
  BY <1>20 DEF RedialFails, NextBackoff
<1>21. ASSUME NEW e \in Entry, Reconnect(e)
      PROVE  PhaseInv'
  BY <1>21 DEF Reconnect, StillLive
<1>22. ASSUME NEW e \in Entry, RedialDiscards(e)
      PROVE  PhaseInv'
  BY <1>22 DEF RedialDiscards, StillLive, Discard
<1>23. ASSUME NEW e \in Entry, AcceptLoop(e)
      PROVE  PhaseInv'
  BY <1>23, AcceptFrame
<1>24. ASSUME NEW s \in Sock, Forward(s)
      PROVE  PhaseInv'
  BY <1>24, ForwardFrame
<1>25. ASSUME NEW c \in Caller, Close(c)
      PROVE  PhaseInv'
  BY <1>25 DEF Close
<1>26. ASSUME NEW c \in Caller, Asks(c)
      PROVE  PhaseInv'
  BY <1>26, AsksFrame
<1>27. ASSUME NEW c \in Caller, StopFinishes(c)
      PROVE  PhaseInv'
  BY <1>27 DEF StopFinishes, Finish, CloseSockets, FinishState
<1>28. ASSUME NEW c \in Caller, NEW id \in Id, Stop(c, id)
      PROVE  PhaseInv'
  BY <1>28 DEF Stop
<1>29. ASSUME NEW r \in Prober, Probes(r)
      PROVE  PhaseInv'
  BY <1>29, ProbesFrame
<1>30. ASSUME NEW r \in Prober, NEW id \in Id, Ready(r, id)
      PROVE  PhaseInv'
  BY <1>30 DEF Ready
<1>31. CASE UNCHANGED vars
  BY <1>31 DEF vars
<1> HIDE DEF TypeOK, PhaseInv
<1> QED
  BY <1>1, <1>2, <1>3, <1>4, <1>5, <1>6, <1>7, <1>8, <1>9, <1>10, <1>11,
     <1>12, <1>13, <1>14, <1>15, <1>16, <1>17, <1>18, <1>19, <1>20, <1>21,
     <1>22, <1>23, <1>24, <1>25, <1>26, <1>27, <1>28, <1>29, <1>30, <1>31
  DEF Next, Worker, Call, Asks, Probes

----------------------------------------------------------------------------
(* The map of entries.                                                     *)

\* An active entry is registered under the id it was started with.
RegInv ==
    \A e \in Entry : state[e] \in Active =>
        config[e] \in Config /\ entries[config[e].id] = e

\* Every step keeps active entries registered.
LEMMA RegInductive ==
    ASSUME TypeOK, PhaseInv, RegInv, [Next]_vars
    PROVE  RegInv'
<1> USE NoneAssumption, ConfigAssumption
    DEF RegInv, TypeOK, PhaseInv, Active, State, StartPc, MonitorPc,
        entryCore, entryVars, workerVars, forwardVars, callVars, osVars
<1>1. ASSUME NEW t \in Config, NEW e \in Entry, StartBindFails(t, e)
      PROVE  RegInv'
  BY <1>1 DEF StartBindFails, MayStart
<1>2. ASSUME NEW t \in Config, NEW e \in Entry, StartBinds(t, e)
      PROVE  RegInv'
  BY <1>2 DEF StartBinds, MayStart
<1>3. ASSUME NEW e \in Entry, Quiet(e)
      PROVE  RegInv'
  BY <1>3, QuietFrame
<1>4. ASSUME NEW e \in Entry, StartFails(e)
      PROVE  RegInv'
  BY <1>4 DEF StartFails, Finish, CloseSockets, FinishState
<1>5. ASSUME NEW e \in Entry, StartCancelled(e)
      PROVE  RegInv'
  BY <1>5 DEF StartCancelled, Finish, CloseSockets, FinishState
<1>6. ASSUME NEW e \in Entry, StartInstalls(e)
      PROVE  RegInv'
  BY <1>6 DEF StartInstalls, StillLive
<1>7. ASSUME NEW e \in Entry, CloseDone(e)
      PROVE  RegInv'
  BY <1>7 DEF CloseDone
<1>8. ASSUME NEW e \in Entry, Drop(e)
      PROVE  RegInv'
  BY <1>8 DEF Drop, StillLive, CloseSockets
<1>9. ASSUME NEW e \in Entry, GiveUp(e)
      PROVE  RegInv'
  BY <1>9 DEF GiveUp, Finish, CloseSockets, FinishState
<1>10. ASSUME NEW e \in Entry, Reconnect(e)
      PROVE  RegInv'
  BY <1>10 DEF Reconnect, StillLive
<1>11. ASSUME NEW e \in Entry, AcceptLoop(e)
      PROVE  RegInv'
  BY <1>11, AcceptFrame
<1>12. ASSUME NEW s \in Sock, Forward(s)
      PROVE  RegInv'
  BY <1>12, ForwardFrame
<1>13. ASSUME NEW c \in Caller, Close(c)
      PROVE  RegInv'
  BY <1>13 DEF Close
<1>14. ASSUME NEW c \in Caller, Asks(c)
      PROVE  RegInv'
  BY <1>14, AsksFrame
<1>15. ASSUME NEW c \in Caller, StopFinishes(c)
      PROVE  RegInv'
  BY <1>15 DEF StopFinishes, Finish, CloseSockets, FinishState
<1>16. ASSUME NEW c \in Caller, NEW id \in Id, Stop(c, id)
      PROVE  RegInv'
  BY <1>16 DEF Stop
<1>17. ASSUME NEW r \in Prober, Probes(r)
      PROVE  RegInv'
  BY <1>17, ProbesFrame
<1>18. ASSUME NEW r \in Prober, NEW id \in Id, Ready(r, id)
      PROVE  RegInv'
  BY <1>18 DEF Ready
<1>19. CASE UNCHANGED vars
  BY <1>19 DEF vars
<1> HIDE DEF TypeOK, PhaseInv, RegInv
<1> QED
  BY <1>1, <1>2, <1>3, <1>4, <1>5, <1>6, <1>7, <1>8, <1>9, <1>10, <1>11,
     <1>12, <1>13, <1>14, <1>15, <1>16, <1>17, <1>18, <1>19
  DEF Next, Worker, Call, Quiet, Asks, Probes

\* No entry is registered twice, and none that was never started.
InjInv ==
    \A id \in Id : entries[id] # None =>
        /\ state[entries[id]] # "unused"
        /\ \A jd \in Id : entries[jd] = entries[id] => jd = id

\* Every step keeps the map one-to-one.
LEMMA InjInductive ==
    ASSUME TypeOK, InjInv, [Next]_vars
    PROVE  InjInv'
<1> USE NoneAssumption
    DEF InjInv, TypeOK, State, Active, entryCore, entryVars, workerVars,
        forwardVars, callVars, osVars
<1>1. ASSUME NEW t \in Config, NEW e \in Entry, StartBindFails(t, e)
      PROVE  InjInv'
  BY <1>1 DEF StartBindFails
<1>2. ASSUME NEW t \in Config, NEW e \in Entry, StartBinds(t, e)
      PROVE  InjInv'
  BY <1>2 DEF StartBinds
<1>3. ASSUME NEW e \in Entry, Quiet(e)
      PROVE  InjInv'
  BY <1>3, QuietFrame
<1>4. ASSUME NEW e \in Entry, StartFails(e)
      PROVE  InjInv'
  BY <1>4 DEF StartFails, Finish, CloseSockets, FinishState
<1>5. ASSUME NEW e \in Entry, StartCancelled(e)
      PROVE  InjInv'
  BY <1>5 DEF StartCancelled, Finish, CloseSockets, FinishState
<1>6. ASSUME NEW e \in Entry, StartInstalls(e)
      PROVE  InjInv'
  BY <1>6 DEF StartInstalls, StillLive
<1>7. ASSUME NEW e \in Entry, CloseDone(e)
      PROVE  InjInv'
  BY <1>7 DEF CloseDone
<1>8. ASSUME NEW e \in Entry, Drop(e)
      PROVE  InjInv'
  BY <1>8 DEF Drop, StillLive, CloseSockets
<1>9. ASSUME NEW e \in Entry, GiveUp(e)
      PROVE  InjInv'
  BY <1>9 DEF GiveUp, Finish, CloseSockets, FinishState
<1>10. ASSUME NEW e \in Entry, Reconnect(e)
      PROVE  InjInv'
  BY <1>10 DEF Reconnect, StillLive
<1>11. ASSUME NEW e \in Entry, AcceptLoop(e)
      PROVE  InjInv'
  BY <1>11, AcceptFrame
<1>12. ASSUME NEW s \in Sock, Forward(s)
      PROVE  InjInv'
  BY <1>12, ForwardFrame
<1>13. ASSUME NEW c \in Caller, Close(c)
      PROVE  InjInv'
  BY <1>13 DEF Close
<1>14. ASSUME NEW c \in Caller, Asks(c)
      PROVE  InjInv'
  BY <1>14, AsksFrame
<1>15. ASSUME NEW c \in Caller, StopFinishes(c)
      PROVE  InjInv'
  BY <1>15 DEF StopFinishes, Finish, CloseSockets, FinishState
<1>16. ASSUME NEW c \in Caller, NEW id \in Id, Stop(c, id)
      PROVE  InjInv'
  BY <1>16 DEF Stop
<1>17. ASSUME NEW r \in Prober, Probes(r)
      PROVE  InjInv'
  BY <1>17, ProbesFrame
<1>18. ASSUME NEW r \in Prober, NEW id \in Id, Ready(r, id)
      PROVE  InjInv'
  BY <1>18 DEF Ready
<1>19. CASE UNCHANGED vars
  BY <1>19 DEF vars
<1> HIDE DEF TypeOK, InjInv
<1> QED
  BY <1>1, <1>2, <1>3, <1>4, <1>5, <1>6, <1>7, <1>8, <1>9, <1>10, <1>11,
     <1>12, <1>13, <1>14, <1>15, <1>16, <1>17, <1>18, <1>19
  DEF Next, Worker, Call, Quiet, Asks, Probes

----------------------------------------------------------------------------
(* SSH connections.                                                        *)

\* Open connections have one owner, and what is owned is open.
OwnInv ==
    /\ NoConnLeak
    /\ \A e \in Entry, k \in Conn : Owns(e, k) => k \in connOpen

\* A step that keeps every owner and every connection keeps OwnInv.
LEMMA OwnKept ==
    ASSUME TypeOK, OwnInv, connOpen' = connOpen,
           \A f \in Entry, j \in Conn : Owns(f, j)' <=> Owns(f, j)
    PROVE  OwnInv'
  BY DEF OwnInv, NoConnLeak, TypeOK

\* A step that opens a fresh connection for one entry keeps OwnInv.
LEMMA OwnGained ==
    ASSUME TypeOK, OwnInv, NEW e \in Entry, NEW k \in Conn,
           connOpen' = connOpen \cup {k}, \A f \in Entry : ~Owns(f, k),
           \A f \in Entry, j \in Conn : Owns(f, j)' <=> Owns(f, j) \/ (f = e /\ j = k)
    PROVE  OwnInv'
  <1>1. ASSUME NEW j \in connOpen'
        PROVE  \E f \in Entry : Owns(f, j)' /\ \A g \in Entry : Owns(g, j)' => g = f
    <2>1. CASE j = k
      BY <2>1
    <2>2. CASE j # k
      BY <1>1, <2>2 DEF OwnInv, NoConnLeak, TypeOK
    <2> QED
      BY <2>1, <2>2
  <1> QED
    BY <1>1 DEF OwnInv, NoConnLeak, TypeOK

\* A step that closes a connection its owner gives up keeps OwnInv.
LEMMA OwnLost ==
    ASSUME TypeOK, OwnInv, NEW e \in Entry, NEW x \in Conn,
           connOpen' = connOpen \ {x},
           \A f \in Entry, j \in Conn : Owns(f, j)' <=> Owns(f, j) /\ j # x
    PROVE  OwnInv'
  BY DEF OwnInv, NoConnLeak, TypeOK

\* Closing the connection an entry may have (finish) keeps OwnInv.
LEMMA OwnClosed ==
    ASSUME TypeOK, OwnInv, NEW e \in Entry,
           connOpen' = connOpen \ {conn[e]},
           \A f \in Entry, j \in Conn : f # e => (Owns(f, j)' <=> Owns(f, j)),
           \A j \in Conn : Owns(e, j)' <=> Owns(e, j) /\ j # conn[e]
    PROVE  OwnInv'
  <1>1. CASE conn[e] = None
    <2>1. connOpen' = connOpen
      BY <1>1, NoneAssumption DEF TypeOK
    <2>2. \A f \in Entry, j \in Conn : Owns(f, j)' <=> Owns(f, j)
      BY <1>1, NoneAssumption
    <2> QED
      BY <2>1, <2>2, OwnKept
  <1>2. CASE conn[e] \in Conn
    <2>1. \A f \in Entry : Owns(f, conn[e]) => f = e
      BY <1>2 DEF OwnInv, NoConnLeak, Owns
    <2>2. \A f \in Entry, j \in Conn : Owns(f, j)' <=> Owns(f, j) /\ j # conn[e]
      BY <1>2, <2>1
    <2> QED
      BY <1>2, <2>2, OwnLost
  <1> QED
    BY <1>1, <1>2 DEF TypeOK

\* Every step keeps exactly one owner for every open connection.
LEMMA OwnInductive ==
    ASSUME TypeOK, LocalsOK, PhaseInv, OwnInv, [Next]_vars
    PROVE  OwnInv'
<1> USE NoneAssumption
    DEF Holding, Active, StartPc, MonitorPc, entryCore, entryVars,
        workerVars, forwardVars, callVars, osVars
<1>1. ASSUME NEW t \in Config, NEW e \in Entry, StartBindFails(t, e)
      PROVE  OwnInv'
  <2>1. \A f \in Entry, j \in Conn : Owns(f, j)' <=> Owns(f, j)
    BY <1>1 DEF StartBindFails, TypeOK, PhaseInv, Owns
  <2>2. connOpen' = connOpen
    BY <1>1 DEF StartBindFails
  <2> QED
    BY <2>1, <2>2, OwnKept
<1>2. ASSUME NEW t \in Config, NEW e \in Entry, StartBinds(t, e)
      PROVE  OwnInv'
  <2>1. \A f \in Entry, j \in Conn : Owns(f, j)' <=> Owns(f, j)
    BY <1>2 DEF StartBinds, TypeOK, PhaseInv, Owns
  <2>2. connOpen' = connOpen
    BY <1>2 DEF StartBinds
  <2> QED
    BY <2>1, <2>2, OwnKept
<1>3. ASSUME NEW e \in Entry, ConnectOK(e)
      PROVE  OwnInv'
  <2>1. PICK k \in Conn : FreeConn(k) /\ connOpen' = connOpen \cup {k}
                          /\ held' = [held EXCEPT ![e] = k]
    BY <1>3 DEF ConnectOK
  <2>2. \A f \in Entry : ~Owns(f, k)
    BY <2>1 DEF FreeConn, Owns
  <2>3. /\ pc[e] \notin Holding /\ conn[e] = None /\ conn' = conn
        /\ pc' = [pc EXCEPT ![e] = "connected"]
    BY <1>3 DEF ConnectOK, TypeOK, PhaseInv
  <2>4. \A f \in Entry, j \in Conn : Owns(f, j)' <=> Owns(f, j) \/ (f = e /\ j = k)
    BY <2>1, <2>3 DEF Owns, TypeOK
  <2>5. connOpen' = connOpen \cup {k}
    BY <2>1
  <2> QED
    BY <2>2, <2>4, <2>5, OwnGained
<1>4. ASSUME NEW e \in Entry, ConnectFails(e)
      PROVE  OwnInv'
  <2>1. \A f \in Entry, j \in Conn : Owns(f, j)' <=> Owns(f, j)
    BY <1>4 DEF ConnectFails, TypeOK, PhaseInv, Owns
  <2>2. connOpen' = connOpen
    BY <1>4 DEF ConnectFails
  <2> QED
    BY <2>1, <2>2, OwnKept
<1>5. ASSUME NEW e \in Entry, StartFails(e)
      PROVE  OwnInv'
  <2>1. connOpen' = connOpen \ {conn[e]} /\ conn' = [conn EXCEPT ![e] = None]
    BY <1>5 DEF StartFails, Finish
  <2>2. \A f \in Entry, j \in Conn : f # e => (Owns(f, j)' <=> Owns(f, j))
    BY <1>5, <2>1 DEF StartFails, Finish, TypeOK, Owns
  <2>3. \A j \in Conn : Owns(e, j)' <=> Owns(e, j) /\ j # conn[e]
    BY <1>5, <2>1 DEF StartFails, Finish, TypeOK, PhaseInv, Owns
  <2> QED
    BY <2>1, <2>2, <2>3, OwnClosed
<1>6. ASSUME NEW e \in Entry, StartCancelled(e)
      PROVE  OwnInv'
  <2>1. connOpen' = connOpen \ {conn[e]} /\ conn' = [conn EXCEPT ![e] = None]
    BY <1>6 DEF StartCancelled, Finish
  <2>2. \A f \in Entry, j \in Conn : f # e => (Owns(f, j)' <=> Owns(f, j))
    BY <1>6, <2>1 DEF StartCancelled, Finish, TypeOK, Owns
  <2>3. \A j \in Conn : Owns(e, j)' <=> Owns(e, j) /\ j # conn[e]
    BY <1>6, <2>1 DEF StartCancelled, Finish, TypeOK, PhaseInv, Owns
  <2> QED
    BY <2>1, <2>2, <2>3, OwnClosed
<1>7. ASSUME NEW e \in Entry, StartInstalls(e)
      PROVE  OwnInv'
  <2>1. \A f \in Entry, j \in Conn : Owns(f, j)' <=> Owns(f, j)
    BY <1>7 DEF StartInstalls, StillLive, TypeOK, PhaseInv, Owns
  <2>2. connOpen' = connOpen
    BY <1>7 DEF StartInstalls
  <2> QED
    BY <2>1, <2>2, OwnKept
<1>8. ASSUME NEW e \in Entry, StartDiscards(e)
      PROVE  OwnInv'
  <2>1. held[e] \in Conn /\ Owns(e, held[e]) /\ conn[e] = None
    BY <1>8 DEF StartDiscards, StillLive, Discard, TypeOK, PhaseInv, Owns
  <2>2. connOpen' = connOpen \ {held[e]}
    BY <1>8 DEF StartDiscards, StillLive, Discard
  <2>3. \A f \in Entry : Owns(f, held[e]) => f = e
    BY <2>1 DEF OwnInv, NoConnLeak
  <2>4. \A f \in Entry, j \in Conn : Owns(f, j)' <=> Owns(f, j) /\ j # held[e]
    BY <1>8, <2>1, <2>3 DEF StartDiscards, StillLive, Discard, TypeOK, PhaseInv, Owns
  <2> QED
    BY <2>1, <2>2, <2>4, OwnLost
<1>9. ASSUME NEW e \in Entry, CloseDone(e)
      PROVE  OwnInv'
  <2>1. \A f \in Entry, j \in Conn : Owns(f, j)' <=> Owns(f, j)
    BY <1>9 DEF CloseDone, TypeOK, PhaseInv, Owns
  <2>2. connOpen' = connOpen
    BY <1>9 DEF CloseDone
  <2> QED
    BY <2>1, <2>2, OwnKept
<1>10. ASSUME NEW e \in Entry, MonitorTick(e)
      PROVE  OwnInv'
  <2>1. \A f \in Entry, j \in Conn : Owns(f, j)' <=> Owns(f, j)
    BY <1>10 DEF MonitorTick, TypeOK, PhaseInv, Owns
  <2>2. connOpen' = connOpen
    BY <1>10 DEF MonitorTick
  <2> QED
    BY <2>1, <2>2, OwnKept
<1>11. ASSUME NEW e \in Entry, MonitorCancelled(e)
      PROVE  OwnInv'
  <2>1. \A f \in Entry, j \in Conn : Owns(f, j)' <=> Owns(f, j)
    BY <1>11 DEF MonitorCancelled, TypeOK, PhaseInv, Owns
  <2>2. connOpen' = connOpen
    BY <1>11 DEF MonitorCancelled
  <2> QED
    BY <2>1, <2>2, OwnKept
<1>12. ASSUME NEW e \in Entry, KeepAliveOK(e)
      PROVE  OwnInv'
  <2>1. \A f \in Entry, j \in Conn : Owns(f, j)' <=> Owns(f, j)
    BY <1>12 DEF KeepAliveOK, TypeOK, PhaseInv, Owns
  <2>2. connOpen' = connOpen
    BY <1>12 DEF KeepAliveOK
  <2> QED
    BY <2>1, <2>2, OwnKept
<1>13. ASSUME NEW e \in Entry, KeepAliveFails(e)
      PROVE  OwnInv'
  <2>1. \A f \in Entry, j \in Conn : Owns(f, j)' <=> Owns(f, j)
    BY <1>13 DEF KeepAliveFails, TypeOK, PhaseInv, Owns
  <2>2. connOpen' = connOpen
    BY <1>13 DEF KeepAliveFails
  <2> QED
    BY <2>1, <2>2, OwnKept
<1>14. ASSUME NEW e \in Entry, Drop(e)
      PROVE  OwnInv'
  <2>1. \A f \in Entry, j \in Conn : Owns(f, j)' <=> Owns(f, j)
    BY <1>14 DEF Drop, StillLive, CloseSockets, TypeOK, PhaseInv, Owns
  <2>2. connOpen' = connOpen
    BY <1>14 DEF Drop
  <2> QED
    BY <2>1, <2>2, OwnKept
<1>15. ASSUME NEW e \in Entry, DropTooLate(e)
      PROVE  OwnInv'
  <2>1. \A f \in Entry, j \in Conn : Owns(f, j)' <=> Owns(f, j)
    BY <1>15 DEF DropTooLate, StillLive, TypeOK, PhaseInv, Owns
  <2>2. connOpen' = connOpen
    BY <1>15 DEF DropTooLate
  <2> QED
    BY <2>1, <2>2, OwnKept
<1>16. ASSUME NEW e \in Entry, CloseLost(e)
      PROVE  OwnInv'
  <2>1. held[e] \in Conn /\ Owns(e, held[e]) /\ conn[e] = None
    BY <1>16 DEF CloseLost, TypeOK, PhaseInv, Owns
  <2>2. connOpen' = connOpen \ {held[e]}
    BY <1>16 DEF CloseLost
  <2>3. \A f \in Entry : Owns(f, held[e]) => f = e
    BY <2>1 DEF OwnInv, NoConnLeak
  <2>4. \A f \in Entry, j \in Conn : Owns(f, j)' <=> Owns(f, j) /\ j # held[e]
    BY <1>16, <2>1, <2>3 DEF CloseLost, TypeOK, PhaseInv, Owns
  <2> QED
    BY <2>1, <2>2, <2>4, OwnLost
<1>17. ASSUME NEW e \in Entry, GiveUp(e)
      PROVE  OwnInv'
  <2>1. connOpen' = connOpen \ {conn[e]} /\ conn' = [conn EXCEPT ![e] = None]
    BY <1>17 DEF GiveUp, Finish
  <2>2. \A f \in Entry, j \in Conn : f # e => (Owns(f, j)' <=> Owns(f, j))
    BY <1>17, <2>1 DEF GiveUp, Finish, TypeOK, Owns
  <2>3. \A j \in Conn : Owns(e, j)' <=> Owns(e, j) /\ j # conn[e]
    BY <1>17, <2>1 DEF GiveUp, Finish, TypeOK, PhaseInv, Owns
  <2> QED
    BY <2>1, <2>2, <2>3, OwnClosed
<1>18. ASSUME NEW e \in Entry, BackoffElapses(e)
      PROVE  OwnInv'
  <2>1. \A f \in Entry, j \in Conn : Owns(f, j)' <=> Owns(f, j)
    BY <1>18 DEF BackoffElapses, StillLive, TypeOK, PhaseInv, Owns
  <2>2. connOpen' = connOpen
    BY <1>18 DEF BackoffElapses
  <2> QED
    BY <2>1, <2>2, OwnKept
<1>19. ASSUME NEW e \in Entry, RedialOK(e)
      PROVE  OwnInv'
  <2>1. PICK k \in Conn : FreeConn(k) /\ connOpen' = connOpen \cup {k}
                          /\ held' = [held EXCEPT ![e] = k]
    BY <1>19 DEF RedialOK
  <2>2. \A f \in Entry : ~Owns(f, k)
    BY <2>1 DEF FreeConn, Owns
  <2>3. /\ pc[e] \notin Holding /\ conn[e] = None /\ conn' = conn
        /\ pc' = [pc EXCEPT ![e] = "reconnected"]
    BY <1>19 DEF RedialOK, TypeOK, PhaseInv
  <2>4. \A f \in Entry, j \in Conn : Owns(f, j)' <=> Owns(f, j) \/ (f = e /\ j = k)
    BY <2>1, <2>3 DEF Owns, TypeOK
  <2>5. connOpen' = connOpen \cup {k}
    BY <2>1
  <2> QED
    BY <2>2, <2>4, <2>5, OwnGained
<1>20. ASSUME NEW e \in Entry, RedialFails(e)
      PROVE  OwnInv'
  <2>1. \A f \in Entry, j \in Conn : Owns(f, j)' <=> Owns(f, j)
    BY <1>20 DEF RedialFails, NextBackoff, TypeOK, PhaseInv, Owns
  <2>2. connOpen' = connOpen
    BY <1>20 DEF RedialFails
  <2> QED
    BY <2>1, <2>2, OwnKept
<1>21. ASSUME NEW e \in Entry, Reconnect(e)
      PROVE  OwnInv'
  <2>1. \A f \in Entry, j \in Conn : Owns(f, j)' <=> Owns(f, j)
    BY <1>21 DEF Reconnect, StillLive, TypeOK, PhaseInv, Owns
  <2>2. connOpen' = connOpen
    BY <1>21 DEF Reconnect
  <2> QED
    BY <2>1, <2>2, OwnKept
<1>22. ASSUME NEW e \in Entry, RedialDiscards(e)
      PROVE  OwnInv'
  <2>1. held[e] \in Conn /\ Owns(e, held[e]) /\ conn[e] = None
    BY <1>22 DEF RedialDiscards, StillLive, Discard, TypeOK, PhaseInv, Owns
  <2>2. connOpen' = connOpen \ {held[e]}
    BY <1>22 DEF RedialDiscards, StillLive, Discard
  <2>3. \A f \in Entry : Owns(f, held[e]) => f = e
    BY <2>1 DEF OwnInv, NoConnLeak
  <2>4. \A f \in Entry, j \in Conn : Owns(f, j)' <=> Owns(f, j) /\ j # held[e]
    BY <1>22, <2>1, <2>3 DEF RedialDiscards, StillLive, Discard, TypeOK, PhaseInv, Owns
  <2> QED
    BY <2>1, <2>2, <2>4, OwnLost
<1>23. ASSUME NEW e \in Entry, AcceptLoop(e)
      PROVE  OwnInv'
  BY <1>23, AcceptFrame, OwnKept DEF Owns
<1>24. ASSUME NEW s \in Sock, Forward(s)
      PROVE  OwnInv'
  BY <1>24, ForwardFrame, OwnKept DEF Owns
<1>25. ASSUME NEW c \in Caller, Close(c)
      PROVE  OwnInv'
  BY <1>25, OwnKept DEF Close, Owns
<1>26. ASSUME NEW c \in Caller, Asks(c)
      PROVE  OwnInv'
  BY <1>26, AsksFrame, OwnKept DEF Owns
<1>27. ASSUME NEW c \in Caller, StopFinishes(c)
      PROVE  OwnInv'
  <2> PICK v \in Entry : v = target[c]
    BY <1>27 DEF StopFinishes, LocalsOK
  <2>1. connOpen' = connOpen \ {conn[v]} /\ conn' = [conn EXCEPT ![v] = None]
    BY <1>27 DEF StopFinishes, Finish
  <2>2. \A f \in Entry, j \in Conn : f # v => (Owns(f, j)' <=> Owns(f, j))
    BY <1>27, <2>1 DEF StopFinishes, Finish, TypeOK, Owns
  <2>3. \A j \in Conn : Owns(v, j)' <=> Owns(v, j) /\ j # conn[v]
    BY <1>27, <2>1 DEF StopFinishes, Finish, TypeOK, PhaseInv, Owns
  <2> QED
    BY <2>1, <2>2, <2>3, OwnClosed
<1>28. ASSUME NEW c \in Caller, NEW id \in Id, Stop(c, id)
      PROVE  OwnInv'
  BY <1>28, OwnKept DEF Stop, Owns
<1>29. ASSUME NEW r \in Prober, Probes(r)
      PROVE  OwnInv'
  BY <1>29, ProbesFrame, OwnKept DEF Owns
<1>30. ASSUME NEW r \in Prober, NEW id \in Id, Ready(r, id)
      PROVE  OwnInv'
  BY <1>30, OwnKept DEF Ready, Owns
<1>31. CASE UNCHANGED vars
  BY <1>31, OwnKept DEF vars, Owns
<1> QED
  BY <1>1, <1>2, <1>3, <1>4, <1>5, <1>6, <1>7, <1>8, <1>9, <1>10, <1>11,
     <1>12, <1>13, <1>14, <1>15, <1>16, <1>17, <1>18, <1>19, <1>20, <1>21,
     <1>22, <1>23, <1>24, <1>25, <1>26, <1>27, <1>28, <1>29, <1>30, <1>31
  DEF Next, Worker, Call, Asks, Probes

----------------------------------------------------------------------------
(* Local sockets.                                                          *)

\* A registered socket belongs to the entry that lists it and, while open, goes
\* over that entry's present connection; an accepted one is not yet registered.
SocketInv ==
    /\ \A s \in Sock :
          /\ forwarder[s] = "none" <=> owner[s] = None
          /\ owner[s] \in Entry /\ s \in open =>
                via[s] = conn[owner[s]] /\ conn[owner[s]] # None
    /\ \A e \in Entry :
          /\ \A s \in Sock : s \in sockets[e] <=> owner[s] = e
          /\ incoming[e] # None => forwarder[incoming[e]] = "none"
          /\ \A f \in Entry : incoming[e] = incoming[f] /\ incoming[e] # None => e = f

\* Every step keeps open sockets on the present connection.
LEMMA SocketInductive ==
    ASSUME TypeOK, LocalsOK, PhaseInv, SocketInv, [Next]_vars
    PROVE  SocketInv'
<1> USE NoneAssumption
    DEF SocketInv, TypeOK, LocalsOK, PhaseInv, Active, State, StartPc,
        MonitorPc, Holding, entryCore, entryVars, workerVars, forwardVars,
        callVars, osVars
<1>1. ASSUME NEW t \in Config, NEW e \in Entry, StartBindFails(t, e)
      PROVE  SocketInv'
  BY <1>1 DEF StartBindFails
<1>2. ASSUME NEW t \in Config, NEW e \in Entry, StartBinds(t, e)
      PROVE  SocketInv'
  BY <1>2 DEF StartBinds
<1>3. ASSUME NEW e \in Entry, Quiet(e)
      PROVE  SocketInv'
  BY <1>3, QuietFrame
<1>4. ASSUME NEW e \in Entry, StartFails(e)
      PROVE  SocketInv'
  BY <1>4 DEF StartFails, Finish, CloseSockets, FinishState
<1>5. ASSUME NEW e \in Entry, StartCancelled(e)
      PROVE  SocketInv'
  BY <1>5 DEF StartCancelled, Finish, CloseSockets, FinishState
<1>6. ASSUME NEW e \in Entry, StartInstalls(e)
      PROVE  SocketInv'
  BY <1>6 DEF StartInstalls, StillLive
<1>7. ASSUME NEW e \in Entry, CloseDone(e)
      PROVE  SocketInv'
  BY <1>7 DEF CloseDone
<1>8. ASSUME NEW e \in Entry, Drop(e)
      PROVE  SocketInv'
  BY <1>8 DEF Drop, StillLive, CloseSockets
<1>9. ASSUME NEW e \in Entry, GiveUp(e)
      PROVE  SocketInv'
  BY <1>9 DEF GiveUp, Finish, CloseSockets, FinishState
<1>10. ASSUME NEW e \in Entry, Reconnect(e)
      PROVE  SocketInv'
  <2>1. conn[e] = None
    BY <1>10 DEF Reconnect, StillLive
  <2>2. \A s \in Sock : s \in open => owner[s] # e
    BY <2>1
  <2> QED
    BY <1>10, <2>2 DEF Reconnect
<1>11. ASSUME NEW e \in Entry, Accept(e)
      PROVE  SocketInv'
  BY <1>11 DEF Accept, FreeSock
<1>12. ASSUME NEW e \in Entry, AcceptFails(e)
      PROVE  SocketInv'
  BY <1>12 DEF AcceptFails
<1>13. ASSUME NEW e \in Entry, Admit(e)
      PROVE  SocketInv'
  BY <1>13 DEF Admit, Admissible
<1>14. ASSUME NEW e \in Entry, Refuse(e)
      PROVE  SocketInv'
  BY <1>14 DEF Refuse
<1>15. ASSUME NEW s \in Sock, DialOK(s)
      PROVE  SocketInv'
  BY <1>15 DEF DialOK
<1>16. ASSUME NEW s \in Sock, DialFails(s)
      PROVE  SocketInv'
  BY <1>16 DEF DialFails
<1>17. ASSUME NEW s \in Sock, CopyEnds(s)
      PROVE  SocketInv'
  BY <1>17 DEF CopyEnds
<1>18. ASSUME NEW s \in Sock, Cleanup(s)
      PROVE  SocketInv'
  BY <1>18 DEF Cleanup, Uncount
<1>19. ASSUME NEW c \in Caller, Close(c)
      PROVE  SocketInv'
  BY <1>19 DEF Close
<1>20. ASSUME NEW c \in Caller, Asks(c)
      PROVE  SocketInv'
  BY <1>20, AsksFrame
<1>21. ASSUME NEW c \in Caller, StopFinishes(c)
      PROVE  SocketInv'
  BY <1>21 DEF StopFinishes, Finish, CloseSockets, FinishState
<1>22. ASSUME NEW c \in Caller, NEW id \in Id, Stop(c, id)
      PROVE  SocketInv'
  BY <1>22 DEF Stop
<1>23. ASSUME NEW r \in Prober, Probes(r)
      PROVE  SocketInv'
  BY <1>23, ProbesFrame
<1>24. ASSUME NEW r \in Prober, NEW id \in Id, Ready(r, id)
      PROVE  SocketInv'
  BY <1>24 DEF Ready
<1>25. CASE UNCHANGED vars
  BY <1>25 DEF vars
<1> HIDE DEF TypeOK, LocalsOK, PhaseInv, SocketInv
<1> QED
  BY <1>1, <1>2, <1>3, <1>4, <1>5, <1>6, <1>7, <1>8, <1>9, <1>10, <1>11,
     <1>12, <1>13, <1>14, <1>15, <1>16, <1>17, <1>18, <1>19, <1>20, <1>21,
     <1>22, <1>23, <1>24, <1>25
  DEF Next, Worker, Call, AcceptLoop, Forward, Quiet, Asks, Probes

\* The count is the number of registered sockets, and there are none before
\* accept runs.
CountInv ==
    \A e \in Entry :
        /\ IsFiniteSet(sockets[e])
        /\ connections[e] = Cardinality(sockets[e])
        /\ connections[e] <= MaxSockets
        /\ pc[e] \in StartPc \cup {"none"} => acceptor[e] = "none"
        /\ acceptor[e] = "none" => sockets[e] = {}

\* Every step keeps the count right.
LEMMA CountInductive ==
    ASSUME TypeOK, LocalsOK, PhaseInv, SocketInv, CountInv, [Next]_vars
    PROVE  CountInv'
<1> USE NoneAssumption
    DEF CountInv, TypeOK, PhaseInv, StartPc, MonitorPc, entryCore,
        entryVars, workerVars, forwardVars, callVars, osVars
<1>1. ASSUME NEW t \in Config, NEW e \in Entry, StartBindFails(t, e)
      PROVE  CountInv'
  BY <1>1 DEF StartBindFails
<1>2. ASSUME NEW t \in Config, NEW e \in Entry, StartBinds(t, e)
      PROVE  CountInv'
  BY <1>2 DEF StartBinds
<1>3. ASSUME NEW e \in Entry, ConnectOK(e)
      PROVE  CountInv'
  BY <1>3 DEF ConnectOK
<1>4. ASSUME NEW e \in Entry, ConnectFails(e)
      PROVE  CountInv'
  BY <1>4 DEF ConnectFails
<1>5. ASSUME NEW e \in Entry, StartFails(e)
      PROVE  CountInv'
  BY <1>5 DEF StartFails, Finish, CloseSockets, FinishState
<1>6. ASSUME NEW e \in Entry, StartCancelled(e)
      PROVE  CountInv'
  BY <1>6 DEF StartCancelled, Finish, CloseSockets, FinishState
<1>7. ASSUME NEW e \in Entry, StartInstalls(e)
      PROVE  CountInv'
  <2>1. sockets[e] = {} /\ connections[e] = 0
    BY <1>7, FS_EmptySet DEF StartInstalls
  <2> QED
    BY <1>7, <2>1 DEF StartInstalls
<1>8. ASSUME NEW e \in Entry, StartDiscards(e)
      PROVE  CountInv'
  BY <1>8 DEF StartDiscards, StillLive, Discard
<1>9. ASSUME NEW e \in Entry, CloseDone(e)
      PROVE  CountInv'
  BY <1>9 DEF CloseDone
<1>10. ASSUME NEW e \in Entry, MonitorTick(e)
      PROVE  CountInv'
  BY <1>10 DEF MonitorTick
<1>11. ASSUME NEW e \in Entry, MonitorCancelled(e)
      PROVE  CountInv'
  BY <1>11 DEF MonitorCancelled
<1>12. ASSUME NEW e \in Entry, KeepAliveOK(e)
      PROVE  CountInv'
  BY <1>12 DEF KeepAliveOK
<1>13. ASSUME NEW e \in Entry, KeepAliveFails(e)
      PROVE  CountInv'
  BY <1>13 DEF KeepAliveFails
<1>14. ASSUME NEW e \in Entry, Drop(e)
      PROVE  CountInv'
  BY <1>14 DEF Drop, StillLive, CloseSockets
<1>15. ASSUME NEW e \in Entry, DropTooLate(e)
      PROVE  CountInv'
  BY <1>15 DEF DropTooLate, StillLive
<1>16. ASSUME NEW e \in Entry, CloseLost(e)
      PROVE  CountInv'
  BY <1>16 DEF CloseLost
<1>17. ASSUME NEW e \in Entry, GiveUp(e)
      PROVE  CountInv'
  BY <1>17 DEF GiveUp, Finish, CloseSockets, FinishState
<1>18. ASSUME NEW e \in Entry, BackoffElapses(e)
      PROVE  CountInv'
  BY <1>18 DEF BackoffElapses, StillLive
<1>19. ASSUME NEW e \in Entry, RedialOK(e)
      PROVE  CountInv'
  BY <1>19 DEF RedialOK
<1>20. ASSUME NEW e \in Entry, RedialFails(e)
      PROVE  CountInv'
  BY <1>20 DEF RedialFails, NextBackoff
<1>21. ASSUME NEW e \in Entry, Reconnect(e)
      PROVE  CountInv'
  BY <1>21 DEF Reconnect, StillLive
<1>22. ASSUME NEW e \in Entry, RedialDiscards(e)
      PROVE  CountInv'
  BY <1>22 DEF RedialDiscards, StillLive, Discard
<1>23. ASSUME NEW e \in Entry, Accept(e)
      PROVE  CountInv'
  BY <1>23 DEF Accept
<1>24. ASSUME NEW e \in Entry, AcceptFails(e)
      PROVE  CountInv'
  BY <1>24 DEF AcceptFails
<1>25. ASSUME NEW e \in Entry, Admit(e)
      PROVE  CountInv'
  <2>1. incoming[e] \in Sock /\ incoming[e] \notin sockets[e]
    BY <1>25 DEF Admit, SocketInv, LocalsOK
  <2>2. /\ IsFiniteSet(sockets[e] \cup {incoming[e]})
        /\ Cardinality(sockets[e] \cup {incoming[e]}) = Cardinality(sockets[e]) + 1
    BY <2>1, FS_AddElement
  <2>3. Cardinality(sockets[e]) + 1 <= MaxSockets
    BY <1>25, LimitAssumption, FS_CardinalityType DEF Admit, Admissible
  <2> QED
    BY <1>25, <2>1, <2>2, <2>3 DEF Admit
<1>26. ASSUME NEW e \in Entry, Refuse(e)
      PROVE  CountInv'
  BY <1>26 DEF Refuse
<1>27. ASSUME NEW s \in Sock, DialOK(s)
      PROVE  CountInv'
  BY <1>27 DEF DialOK
<1>28. ASSUME NEW s \in Sock, DialFails(s)
      PROVE  CountInv'
  BY <1>28 DEF DialFails
<1>29. ASSUME NEW s \in Sock, CopyEnds(s)
      PROVE  CountInv'
  BY <1>29 DEF CopyEnds
<1>30. ASSUME NEW s \in Sock, Cleanup(s)
      PROVE  CountInv'
  <2> PICK e \in Entry : e = owner[s]
    BY <1>30 DEF Cleanup, LocalsOK
  <2>1. s \in sockets[e]
    BY SocketInv DEF SocketInv
  <2>2. /\ IsFiniteSet(sockets[e] \ {s})
        /\ Cardinality(sockets[e] \ {s}) = Cardinality(sockets[e]) - 1
    BY <2>1, FS_RemoveElement
  <2>3. connections[e] - 1 <= MaxSockets
    BY LimitAssumption
  <2> QED
    BY <1>30, <2>1, <2>2, <2>3 DEF Cleanup, Uncount
<1>31. ASSUME NEW c \in Caller, Close(c)
      PROVE  CountInv'
  BY <1>31 DEF Close
<1>32. ASSUME NEW c \in Caller, Asks(c)
      PROVE  CountInv'
  BY <1>32, AsksFrame
<1>33. ASSUME NEW c \in Caller, StopFinishes(c)
      PROVE  CountInv'
  BY <1>33 DEF StopFinishes, Finish, CloseSockets, FinishState
<1>34. ASSUME NEW c \in Caller, NEW id \in Id, Stop(c, id)
      PROVE  CountInv'
  BY <1>34 DEF Stop
<1>35. ASSUME NEW r \in Prober, Probes(r)
      PROVE  CountInv'
  BY <1>35, ProbesFrame
<1>36. ASSUME NEW r \in Prober, NEW id \in Id, Ready(r, id)
      PROVE  CountInv'
  BY <1>36 DEF Ready
<1>37. CASE UNCHANGED vars
  BY <1>37 DEF vars
<1> HIDE DEF TypeOK, PhaseInv, CountInv
<1> QED
  BY <1>1, <1>2, <1>3, <1>4, <1>5, <1>6, <1>7, <1>8, <1>9, <1>10, <1>11,
     <1>12, <1>13, <1>14, <1>15, <1>16, <1>17, <1>18, <1>19, <1>20, <1>21,
     <1>22, <1>23, <1>24, <1>25, <1>26, <1>27, <1>28, <1>29, <1>30, <1>31,
     <1>32, <1>33, <1>34, <1>35, <1>36, <1>37
  DEF Next, Worker, Call, AcceptLoop, Forward, Asks, Probes

----------------------------------------------------------------------------
(* Stop and Close.                                                         *)

\* What a caller knows about the entry it looked up, at each of its steps.
StopInv ==
    \A c \in Caller : target[c] # None =>
        /\ callerPc[c] # "finish" => target[c] \in stopped
        /\ callerPc[c] \notin {"finish", "wait"} => done[target[c]] # "open"

\* Every step keeps what a Stop has achieved.
LEMMA StopInductive ==
    ASSUME TypeOK, PhaseInv, StopInv, [Next]_vars
    PROVE  StopInv'
<1> USE NoneAssumption
    DEF StopInv, TypeOK, PhaseInv, Active, State, StartPc, MonitorPc,
        CallPc, entryCore, entryVars, workerVars, forwardVars, callVars,
        osVars
<1>1. ASSUME NEW t \in Config, NEW e \in Entry, StartBindFails(t, e)
      PROVE  StopInv'
  BY <1>1 DEF StartBindFails
<1>2. ASSUME NEW t \in Config, NEW e \in Entry, StartBinds(t, e)
      PROVE  StopInv'
  BY <1>2 DEF StartBinds
<1>3. ASSUME NEW e \in Entry, Quiet(e)
      PROVE  StopInv'
  BY <1>3, QuietFrame
<1>4. ASSUME NEW e \in Entry, StartFails(e)
      PROVE  StopInv'
  BY <1>4 DEF StartFails, Finish, CloseSockets, FinishState
<1>5. ASSUME NEW e \in Entry, StartCancelled(e)
      PROVE  StopInv'
  BY <1>5 DEF StartCancelled, Finish, CloseSockets, FinishState
<1>6. ASSUME NEW e \in Entry, StartInstalls(e)
      PROVE  StopInv'
  BY <1>6 DEF StartInstalls, StillLive
<1>7. ASSUME NEW e \in Entry, CloseDone(e)
      PROVE  StopInv'
  BY <1>7 DEF CloseDone
<1>8. ASSUME NEW e \in Entry, Drop(e)
      PROVE  StopInv'
  BY <1>8 DEF Drop, StillLive, CloseSockets
<1>9. ASSUME NEW e \in Entry, GiveUp(e)
      PROVE  StopInv'
  BY <1>9 DEF GiveUp, Finish, CloseSockets, FinishState
<1>10. ASSUME NEW e \in Entry, Reconnect(e)
      PROVE  StopInv'
  BY <1>10 DEF Reconnect, StillLive
<1>11. ASSUME NEW e \in Entry, AcceptLoop(e)
      PROVE  StopInv'
  BY <1>11, AcceptFrame
<1>12. ASSUME NEW s \in Sock, Forward(s)
      PROVE  StopInv'
  BY <1>12, ForwardFrame
<1>13. ASSUME NEW c \in Caller, Close(c)
      PROVE  StopInv'
  BY <1>13 DEF Close
<1>14. ASSUME NEW c \in Caller, StopLooksUp(c)
      PROVE  StopInv'
  BY <1>14 DEF StopLooksUp
<1>15. ASSUME NEW c \in Caller, StopFinishes(c)
      PROVE  StopInv'
  BY <1>15 DEF StopFinishes, Finish, CloseSockets, FinishState
<1>16. ASSUME NEW c \in Caller, StopWaits(c)
      PROVE  StopInv'
  BY <1>16 DEF StopWaits, Awaited
<1>17. ASSUME NEW c \in Caller, Return(c)
      PROVE  StopInv'
  BY <1>17 DEF Return
<1>18. ASSUME NEW c \in Caller, NEW id \in Id, Stop(c, id)
      PROVE  StopInv'
  BY <1>18 DEF Stop
<1>19. ASSUME NEW r \in Prober, Probes(r)
      PROVE  StopInv'
  BY <1>19, ProbesFrame
<1>20. ASSUME NEW r \in Prober, NEW id \in Id, Ready(r, id)
      PROVE  StopInv'
  BY <1>20 DEF Ready
<1>21. CASE UNCHANGED vars
  BY <1>21 DEF vars
<1> HIDE DEF TypeOK, PhaseInv, StopInv
<1> QED
  BY <1>1, <1>2, <1>3, <1>4, <1>5, <1>6, <1>7, <1>8, <1>9, <1>10, <1>11,
     <1>12, <1>13, <1>14, <1>15, <1>16, <1>17, <1>18, <1>19, <1>20, <1>21
  DEF Next, Worker, Call, Quiet, Probes

\* A Close has refused new Starts, and every entry is still to be stopped, or is
\* the one in hand, or is settled for good.
Settled(e) == e \in stopped /\ done[e] # "open"

CloseInv ==
    \A c \in Caller : callerOp[c] = "close" =>
        /\ closed
        /\ callerPc[c] = "returned" => todo[c] = {}
        /\ \A id \in Id : entries[id] # None =>
               id \in todo[c] \/ entries[id] = target[c] \/ Settled(entries[id])

\* Every step keeps what a Close has achieved.
LEMMA CloseInductive ==
    ASSUME TypeOK, StopInv, CloseInv, [Next]_vars
    PROVE  CloseInv'
<1> USE NoneAssumption
    DEF CloseInv, Settled, TypeOK, StopInv, CallPc, entryCore, entryVars,
        workerVars, forwardVars, callVars, osVars
<1>1. ASSUME NEW t \in Config, NEW e \in Entry, StartBindFails(t, e)
      PROVE  CloseInv'
  BY <1>1 DEF StartBindFails, MayStart
<1>2. ASSUME NEW t \in Config, NEW e \in Entry, StartBinds(t, e)
      PROVE  CloseInv'
  BY <1>2 DEF StartBinds, MayStart
<1>3. ASSUME NEW e \in Entry, Quiet(e)
      PROVE  CloseInv'
  BY <1>3, QuietFrame
<1>4. ASSUME NEW e \in Entry, StartFails(e)
      PROVE  CloseInv'
  BY <1>4 DEF StartFails, Finish, CloseSockets, FinishState
<1>5. ASSUME NEW e \in Entry, StartCancelled(e)
      PROVE  CloseInv'
  BY <1>5 DEF StartCancelled, Finish, CloseSockets, FinishState
<1>6. ASSUME NEW e \in Entry, StartInstalls(e)
      PROVE  CloseInv'
  BY <1>6 DEF StartInstalls, StillLive
<1>7. ASSUME NEW e \in Entry, CloseDone(e)
      PROVE  CloseInv'
  BY <1>7 DEF CloseDone
<1>8. ASSUME NEW e \in Entry, Drop(e)
      PROVE  CloseInv'
  BY <1>8 DEF Drop, StillLive, CloseSockets
<1>9. ASSUME NEW e \in Entry, GiveUp(e)
      PROVE  CloseInv'
  BY <1>9 DEF GiveUp, Finish, CloseSockets, FinishState
<1>10. ASSUME NEW e \in Entry, Reconnect(e)
      PROVE  CloseInv'
  BY <1>10 DEF Reconnect, StillLive
<1>11. ASSUME NEW e \in Entry, AcceptLoop(e)
      PROVE  CloseInv'
  BY <1>11, AcceptFrame
<1>12. ASSUME NEW s \in Sock, Forward(s)
      PROVE  CloseInv'
  BY <1>12, ForwardFrame
<1>13. ASSUME NEW c \in Caller, Close(c)
      PROVE  CloseInv'
  BY <1>13 DEF Close
<1>14. ASSUME NEW c \in Caller, StopLooksUp(c)
      PROVE  CloseInv'
  BY <1>14 DEF StopLooksUp
<1>15. ASSUME NEW c \in Caller, StopFinishes(c)
      PROVE  CloseInv'
  BY <1>15 DEF StopFinishes, Finish, CloseSockets, FinishState
<1>16. ASSUME NEW c \in Caller, StopWaits(c)
      PROVE  CloseInv'
  BY <1>16 DEF StopWaits, Awaited
<1>17. ASSUME NEW c \in Caller, Return(c)
      PROVE  CloseInv'
  BY <1>17 DEF Return
<1>18. ASSUME NEW c \in Caller, NEW id \in Id, Stop(c, id)
      PROVE  CloseInv'
  BY <1>18 DEF Stop
<1>19. ASSUME NEW r \in Prober, Probes(r)
      PROVE  CloseInv'
  BY <1>19, ProbesFrame
<1>20. ASSUME NEW r \in Prober, NEW id \in Id, Ready(r, id)
      PROVE  CloseInv'
  BY <1>20 DEF Ready
<1>21. CASE UNCHANGED vars
  BY <1>21 DEF vars
<1> HIDE DEF TypeOK, StopInv, CloseInv
<1> QED
  BY <1>1, <1>2, <1>3, <1>4, <1>5, <1>6, <1>7, <1>8, <1>9, <1>10, <1>11,
     <1>12, <1>13, <1>14, <1>15, <1>16, <1>17, <1>18, <1>19, <1>20, <1>21
  DEF Next, Worker, Call, Quiet, Probes

----------------------------------------------------------------------------
(* The theorems.                                                           *)

Inv == /\ TypeInv /\ PhaseInv /\ RegInv /\ InjInv /\ OwnInv
       /\ SocketInv /\ CountInv /\ StopInv /\ CloseInv

\* The inductive invariant holds throughout.
THEOREM Invariance == Spec => []Inv
<1>1. Init => Inv
  <2> SUFFICES ASSUME Init PROVE Inv
    OBVIOUS
  <2>1. TypeInv
    BY TypeInit
  <2>2. PhaseInv /\ RegInv /\ InjInv
    BY DEF Init, PhaseInv, RegInv, InjInv, Active, Holding
  <2>3. OwnInv
    BY NoneAssumption DEF Init, OwnInv, NoConnLeak, Owns, Holding
  <2>4. SocketInv /\ StopInv /\ CloseInv
    BY NoneAssumption DEF Init, SocketInv, StopInv, CloseInv
  <2>5. CountInv
    BY FS_EmptySet, LimitAssumption DEF Init, CountInv, StartPc
  <2> QED
    BY <2>1, <2>2, <2>3, <2>4, <2>5 DEF Inv
<1>2. Inv /\ [Next]_vars => Inv'
  BY TypeInductive, PhaseInductive, RegInductive, InjInductive, OwnInductive,
     SocketInductive, CountInductive, StopInductive, CloseInductive
  DEF Inv, TypeInv
<1> QED
  BY <1>1, <1>2, PTL DEF Spec

\* Every variable keeps its type; the backoff stays within its cap and the
\* misses within their limit.
THEOREM TypeCorrect == Spec => []TypeOK
<1>1. Inv => TypeOK
  BY DEF Inv, TypeInv
<1> QED
  BY <1>1, Invariance, PTL

\* The status of every entry agrees with its listener and its connection.
THEOREM StatusTruth == Spec => []StatusIsTrue
<1>1. Inv => StatusIsTrue
  <2> SUFFICES ASSUME Inv, NEW e \in Entry
               PROVE  /\ listener[e] = "open" <=> state[e] \in Active
                      /\ conn[e] \in connOpen <=> state[e] = "running"
                      /\ conn[e] # None <=> state[e] = "running"
                      /\ state[e] = "error" => e \in lastError
    BY DEF StatusIsTrue
  <2>1. /\ listener[e] = "open" <=> state[e] \in Active
        /\ conn[e] # None <=> state[e] = "running"
        /\ state[e] = "error" => e \in lastError
    BY DEF Inv, PhaseInv
  <2>2. conn[e] # None <=> conn[e] \in connOpen
    BY NoneAssumption DEF Inv, TypeInv, TypeOK, OwnInv, Owns
  <2> QED
    BY <2>1, <2>2
<1> QED
  BY <1>1, Invariance, PTL

\* Every active entry can be reached through the map.
THEOREM ActiveReachable == Spec => []ActiveIsRegistered
<1>1. Inv => ActiveIsRegistered
  BY DEF Inv, RegInv, ActiveIsRegistered
<1> QED
  BY <1>1, Invariance, PTL

\* No SSH connection leaks or is shared between entries.
THEOREM ConnectionsOwned == Spec => []NoConnLeak
<1>1. Inv => NoConnLeak
  BY DEF Inv, OwnInv
<1> QED
  BY <1>1, Invariance, PTL

\* No open local socket is left on a connection the entry has given up.
THEOREM SocketsOnConn == Spec => []SocketsFollowConn
<1>1. Inv => SocketsFollowConn
  BY DEF Inv, TypeInv, TypeOK, SocketInv, SocketsFollowConn
<1> QED
  BY <1>1, Invariance, PTL

\* The shown number of connections is right and within the limit.
THEOREM CountRight == Spec => []ConnectionCount
<1>1. Inv => ConnectionCount
  BY DEF Inv, CountInv, ConnectionCount
<1> QED
  BY <1>1, Invariance, PTL

\* A stopped entry whose goroutine has ended is released.
LEMMA SettledIsReleased ==
    ASSUME Inv, NEW e \in Entry, Settled(e)
    PROVE  Released(e)
<1>1. state[e] = "stopped" /\ conn[e] = None /\ listener[e] # "open"
  BY DEF Settled, Inv, TypeInv, PhaseInv, Active
<1>2. pc[e] \in {"none", "exited"} /\ held[e] = None
  BY DEF Settled, Inv, TypeInv, TypeOK, PhaseInv, Holding
<1>3. sockets[e] \cap open = {}
  BY <1>1 DEF Inv, TypeInv, TypeOK, SocketInv
<1> QED
  BY <1>1, <1>2, <1>3 DEF Released

\* What a Stop looked up is released when it returns.
THEOREM StopDoesRelease == Spec => []StopReleases
<1>1. Inv => StopReleases
  <2> SUFFICES ASSUME Inv, NEW c \in Caller, callerPc[c] = "returned", target[c] # None
               PROVE  Released(target[c])
    BY DEF StopReleases
  <2>1. target[c] \in Entry /\ Settled(target[c])
    BY DEF Inv, TypeInv, TypeOK, StopInv, Settled
  <2> QED
    BY <2>1, SettledIsReleased
<1> QED
  BY <1>1, Invariance, PTL

\* Everything registered is released when Close returns.
THEOREM CloseDoesRelease == Spec => []CloseReleases
<1>1. Inv => CloseReleases
  <2> SUFFICES ASSUME Inv, NEW c \in Caller, callerPc[c] = "returned",
                      callerOp[c] = "close", NEW id \in Id, entries[id] # None
               PROVE  Released(entries[id])
    BY DEF CloseReleases
  <2>1. entries[id] \in Entry
    BY DEF Inv, TypeInv, TypeOK
  <2>2. entries[id] = target[c] \/ Settled(entries[id])
    BY DEF Inv, CloseInv
  <2>3. Settled(entries[id])
    BY <2>2 DEF Inv, StopInv, Settled
  <2> QED
    BY <2>1, <2>3, SettledIsReleased
<1> QED
  BY <1>1, Invariance, PTL

\* Calls that have returned left nothing of what they were to end.
THEOREM CallsDoRelease == Spec => []CallsRelease
<1>1. StopReleases /\ CloseReleases => CallsRelease
  BY DEF CallsRelease
<1> QED
  BY <1>1, StopDoesRelease, CloseDoesRelease, PTL

\* A stopped flag is never taken back.
LEMMA StoppedGrows ==
    ASSUME [Next]_vars
    PROVE  stopped \subseteq stopped'
<1> USE DEF entryCore, entryVars
<1>1. ASSUME NEW e \in Entry, Worker(e)
      PROVE  stopped \subseteq stopped'
  BY <1>1, QuietFrame
  DEF Worker, Quiet, StartFails, StartCancelled, StartInstalls, CloseDone, Drop,
      GiveUp, Reconnect, Finish
<1>2. ASSUME NEW c \in Caller, Call(c)
      PROVE  stopped \subseteq stopped'
  BY <1>2, AsksFrame DEF Call, Asks, StopFinishes, Finish
<1> QED
  BY <1>1, <1>2, AcceptFrame, ForwardFrame, ProbesFrame
  DEF Next, vars, StartBindFails, StartBinds, Close, Stop, Probes, Ready

\* No step takes an entry out of stopped.
THEOREM StopStays == Spec => StopIsFinal
<1>1. Inv /\ Inv' /\ [Next]_vars
        => [\A e \in Entry : state[e] = "stopped" => state'[e] = "stopped"]_vars
  BY StoppedGrows DEF Inv, PhaseInv
<1> QED
  BY <1>1, Invariance, PTL DEF Spec, StopIsFinal

----------------------------------------------------------------------------
(* TunnelLifecycle.                                                        *)

\* A step that changes the state of one entry shows under one id or nowhere.
LEMMA StatusShown ==
    ASSUME TypeOK, InjInv, NEW e \in Entry, NEW x \in State,
           entries' = entries, state' = [state EXCEPT ![e] = x]
    PROVE  \/ Status' = Status
           \/ \E id \in Id : Status[id] = state[e] /\ Status' = [Status EXCEPT ![id] = x]
<1>1. CASE \E id \in Id : entries[id] = e
  <2>1. PICK id \in Id : entries[id] = e
    BY <1>1
  <2>2. \A jd \in Id : entries[jd] = e => jd = id
    BY <2>1, NoneAssumption DEF InjInv
  <2>3. Status[id] = state[e]
    BY <2>1, NoneAssumption DEF Status, TypeOK
  <2>4. \A jd \in Id : Status'[jd] = IF jd = id THEN x ELSE Status[jd]
    BY <2>1, <2>2, NoneAssumption DEF Status, TypeOK
  <2>5. Status' = [Status EXCEPT ![id] = x]
    BY <2>4 DEF Status
  <2> QED
    BY <2>3, <2>5
<1>2. CASE \A id \in Id : entries[id] # e
  BY <1>2 DEF Status, TypeOK
<1> QED
  BY <1>1, <1>2

\* A Start shows the state of its new entry under its id.
LEMMA StatusStarts ==
    ASSUME TypeOK, InjInv, NEW id \in Id, NEW e \in Entry, NEW x \in State,
           state[e] = "unused", entries' = [entries EXCEPT ![id] = e],
           state' = [state EXCEPT ![e] = x]
    PROVE  Status' = [Status EXCEPT ![id] = x]
<1>1. \A jd \in Id : jd # id => entries'[jd] = entries[jd] /\ entries[jd] # e
  BY NoneAssumption DEF TypeOK, InjInv
<1>2. \A jd \in Id : Status'[jd] = IF jd = id THEN x ELSE Status[jd]
  BY <1>1, NoneAssumption DEF TypeOK, Status
<1> QED
  BY <1>2 DEF Status

\* The variables of TunnelLifecycle.
abstractVars == <<closed, Status>>

\* Every step is one of TunnelLifecycle, or shows nothing.
LEMMA LifecycleStep ==
    ASSUME TypeOK, LocalsOK, PhaseInv, InjInv, [Next]_vars
    PROVE  [Lifecycle!Next]_abstractVars
<1> USE NoneAssumption
    DEF abstractVars, entryCore, entryVars
<1>1. ASSUME NEW t \in Config, NEW e \in Entry, StartBindFails(t, e)
      PROVE  [Lifecycle!Next]_abstractVars
  <2>1. t.id \in Id
    BY ConfigAssumption
  <2>2. Status' = [Status EXCEPT ![t.id] = "error"]
    BY <1>1, <2>1, StatusStarts DEF StartBindFails, State, Active
  <2>3. ~closed /\ closed' = closed /\ Status[t.id] \in {"absent", "stopped", "error"}
    BY <1>1, <2>1 DEF StartBindFails, MayStart, Status
  <2> QED
    BY <2>1, <2>2, <2>3
    DEF Lifecycle!Next, Lifecycle!Start, Lifecycle!Become, Lifecycle!Final, Lifecycle!Absent
<1>2. ASSUME NEW t \in Config, NEW e \in Entry, StartBinds(t, e)
      PROVE  [Lifecycle!Next]_abstractVars
  <2>1. t.id \in Id
    BY ConfigAssumption
  <2>2. Status' = [Status EXCEPT ![t.id] = "connecting"]
    BY <1>2, <2>1, StatusStarts DEF StartBinds, State, Active
  <2>3. ~closed /\ closed' = closed /\ Status[t.id] \in {"absent", "stopped", "error"}
    BY <1>2, <2>1 DEF StartBinds, MayStart, Status
  <2> QED
    BY <2>1, <2>2, <2>3
    DEF Lifecycle!Next, Lifecycle!Start, Lifecycle!Become, Lifecycle!Final, Lifecycle!Absent
<1>3. ASSUME NEW e \in Entry, StartInstalls(e)
      PROVE  [Lifecycle!Next]_abstractVars
  <2>1. /\ entries' = entries /\ closed' = closed
        /\ state' = [state EXCEPT ![e] = "running"]
        /\ state[e] = "connecting"
    BY <1>3 DEF StartInstalls, StillLive, MonitorPc, TypeOK, PhaseInv, Active
  <2>2. \/ Status' = Status
        \/ \E id \in Id : Status[id] = state[e] /\ Status' = [Status EXCEPT ![id] = "running"]
    BY <2>1, StatusShown DEF State, Active
  <2> QED
    BY <2>1, <2>2
    DEF Lifecycle!Next, Lifecycle!Connected, Lifecycle!Become, Lifecycle!Absent
<1>4. ASSUME NEW e \in Entry, Drop(e)
      PROVE  [Lifecycle!Next]_abstractVars
  <2>1. /\ entries' = entries /\ closed' = closed
        /\ state' = [state EXCEPT ![e] = "reconnecting"]
        /\ state[e] = "running"
    BY <1>4 DEF Drop, StillLive, TypeOK, PhaseInv, Active
  <2>2. \/ Status' = Status
        \/ \E id \in Id : Status[id] = state[e] /\ Status' = [Status EXCEPT ![id] = "reconnecting"]
    BY <2>1, StatusShown DEF State, Active
  <2> QED
    BY <2>1, <2>2
    DEF Lifecycle!Next, Lifecycle!Lost, Lifecycle!Become, Lifecycle!Absent
<1>5. ASSUME NEW e \in Entry, Reconnect(e)
      PROVE  [Lifecycle!Next]_abstractVars
  <2>1. /\ entries' = entries /\ closed' = closed
        /\ state' = [state EXCEPT ![e] = "running"]
        /\ state[e] = "reconnecting"
    BY <1>5 DEF Reconnect, StillLive, MonitorPc, TypeOK, PhaseInv, Active
  <2>2. \/ Status' = Status
        \/ \E id \in Id : Status[id] = state[e] /\ Status' = [Status EXCEPT ![id] = "running"]
    BY <2>1, StatusShown DEF State, Active
  <2> QED
    BY <2>1, <2>2
    DEF Lifecycle!Next, Lifecycle!Recovered, Lifecycle!Become, Lifecycle!Absent
<1>6. ASSUME NEW e \in Entry, StartCancelled(e)
      PROVE  [Lifecycle!Next]_abstractVars
  <2>1. /\ entries' = entries /\ closed' = closed
        /\ state' = [state EXCEPT ![e] = "stopped"]
        /\ state[e] # "absent"
    BY <1>6 DEF StartCancelled, Finish, FinishState, TypeOK, State, PhaseInv, Active
  <2>2. \/ Status' = Status
        \/ \E id \in Id : Status[id] = state[e] /\ Status' = [Status EXCEPT ![id] = "stopped"]
    BY <2>1, StatusShown DEF State, Active
  <2> QED
    BY <2>1, <2>2
    DEF Lifecycle!Next, Lifecycle!Stopped, Lifecycle!Become, Lifecycle!Absent
<1>7. ASSUME NEW c \in Caller, StopFinishes(c)
      PROVE  [Lifecycle!Next]_abstractVars
  <2> PICK v \in Entry : v = target[c]
    BY <1>7 DEF StopFinishes, LocalsOK
  <2>1. /\ entries' = entries /\ closed' = closed
        /\ state' = [state EXCEPT ![v] = "stopped"]
        /\ state[v] # "absent"
    BY <1>7 DEF StopFinishes, Finish, FinishState, TypeOK, State, PhaseInv, Active
  <2>2. \/ Status' = Status
        \/ \E id \in Id : Status[id] = state[v] /\ Status' = [Status EXCEPT ![id] = "stopped"]
    BY <2>1, StatusShown DEF State, Active
  <2> QED
    BY <2>1, <2>2
    DEF Lifecycle!Next, Lifecycle!Stopped, Lifecycle!Become, Lifecycle!Absent
<1>8. ASSUME NEW e \in Entry, StartFails(e)
      PROVE  [Lifecycle!Next]_abstractVars
  <2>1. CASE e \in stopped
    <3>1. UNCHANGED <<closed, entries, state>>
      BY <1>8, <2>1 DEF StartFails, Finish, FinishState, PhaseInv, TypeOK
    <3> QED
      BY <3>1 DEF Status
  <2>2. CASE e \notin stopped
    <3>1. /\ entries' = entries /\ closed' = closed
          /\ state' = [state EXCEPT ![e] = "error"]
          /\ state[e] \in {"connecting", "reconnecting", "error"}
      BY <1>8, <2>2 DEF StartFails, Finish, FinishState, PhaseInv, TypeOK, State, Active, MonitorPc
    <3>2. \/ Status' = Status
          \/ \E id \in Id : Status[id] = state[e] /\ Status' = [Status EXCEPT ![id] = "error"]
      BY <3>1, StatusShown DEF State, Active
    <3>3. state[e] = "error" => Status' = Status
      BY <3>1 DEF Status, TypeOK
    <3> QED
      BY <3>1, <3>2, <3>3
      DEF Lifecycle!Next, Lifecycle!Failed, Lifecycle!Become
  <2> QED
    BY <2>1, <2>2
<1>9. ASSUME NEW e \in Entry, GiveUp(e)
      PROVE  [Lifecycle!Next]_abstractVars
  <2>1. CASE e \in stopped
    <3>1. UNCHANGED <<closed, entries, state>>
      BY <1>9, <2>1 DEF GiveUp, Finish, FinishState, PhaseInv, TypeOK
    <3> QED
      BY <3>1 DEF Status
  <2>2. CASE e \notin stopped
    <3>1. /\ entries' = entries /\ closed' = closed
          /\ state' = [state EXCEPT ![e] = "error"]
          /\ state[e] \in {"connecting", "reconnecting", "error"}
      BY <1>9, <2>2 DEF GiveUp, Finish, FinishState, PhaseInv, TypeOK, State, Active, MonitorPc
    <3>2. \/ Status' = Status
          \/ \E id \in Id : Status[id] = state[e] /\ Status' = [Status EXCEPT ![id] = "error"]
      BY <3>1, StatusShown DEF State, Active
    <3>3. state[e] = "error" => Status' = Status
      BY <3>1 DEF Status, TypeOK
    <3> QED
      BY <3>1, <3>2, <3>3
      DEF Lifecycle!Next, Lifecycle!Failed, Lifecycle!Become
  <2> QED
    BY <2>1, <2>2
<1>10. ASSUME NEW c \in Caller, Close(c)
      PROVE  [Lifecycle!Next]_abstractVars
  BY <1>10 DEF Close, Status, Lifecycle!Next, Lifecycle!Close
<1>11. ASSUME NEW e \in Entry, CloseDone(e)
      PROVE  [Lifecycle!Next]_abstractVars
  BY <1>11 DEF CloseDone, Status
<1>12. ASSUME NEW e \in Entry, Quiet(e)
      PROVE  [Lifecycle!Next]_abstractVars
  BY <1>12, QuietFrame DEF Status
<1>13. ASSUME NEW e \in Entry, AcceptLoop(e)
      PROVE  [Lifecycle!Next]_abstractVars
  BY <1>13, AcceptFrame DEF Status
<1>14. ASSUME NEW s \in Sock, Forward(s)
      PROVE  [Lifecycle!Next]_abstractVars
  BY <1>14, ForwardFrame DEF Status
<1>15. ASSUME NEW c \in Caller, Asks(c)
      PROVE  [Lifecycle!Next]_abstractVars
  BY <1>15, AsksFrame DEF Status
<1>16. ASSUME NEW r \in Prober, Probes(r)
      PROVE  [Lifecycle!Next]_abstractVars
  BY <1>16, ProbesFrame DEF Status
<1>17. ASSUME NEW c \in Caller, NEW id \in Id, Stop(c, id)
      PROVE  [Lifecycle!Next]_abstractVars
  BY <1>17 DEF Stop, Status
<1>18. ASSUME NEW r \in Prober, NEW id \in Id, Ready(r, id)
      PROVE  [Lifecycle!Next]_abstractVars
  BY <1>18 DEF Ready, Status
<1>19. CASE UNCHANGED vars
  BY <1>19 DEF vars, Status
<1> QED
  BY <1>1, <1>2, <1>3, <1>4, <1>5, <1>6, <1>7, <1>8, <1>9, <1>10, <1>11,
     <1>12, <1>13, <1>14, <1>15, <1>16, <1>17, <1>18, <1>19
  DEF Next, Worker, Call, Quiet, Asks, Probes

\* The manager implements TunnelLifecycle.
THEOREM Refinement == Spec => LifecycleSpec
<1>1. Init => Lifecycle!Init
  BY DEF Init, Lifecycle!Init, Lifecycle!Absent, Status
<1>2. Inv /\ [Next]_vars => [Lifecycle!Next]_<<closed, Status>>
  BY LifecycleStep DEF Inv, TypeInv, abstractVars
<1> QED
  BY <1>1, <1>2, Invariance, PTL DEF Spec, LifecycleSpec, Lifecycle!Spec
============================================================================
