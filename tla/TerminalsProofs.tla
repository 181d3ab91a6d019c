-------------------------- MODULE TerminalsProofs --------------------------
(***************************************************************************)
(* Proofs of the safety properties of Terminals and SSHConnect, for any    *)
(* number of terminals and slots and routes of any length.                 *)
(***************************************************************************)
EXTENDS Terminals, FiniteSetTheorems, TLAPS

\* The sockets that are open at each stage of a call of Connect: those of the
\* hops so far, and that of the hop under way unless its alarm has fired; or
\* none, if the first one met its deadline.
Whole(c, n) == open[c] = 1..n \/ (c \in expired /\ open[c] = {})

ChainInv ==
    \A c \in Call :
        /\ at[c] \in {"idle", "failed"} => open[c] = {} /\ clients[c] = 0
        /\ at[c] \in {"key", "dial", "shake", "stop", "reset"} => clients[c] < route[c]
        /\ at[c] \in {"key", "dial"} => Whole(c, clients[c])
        /\ at[c] \in {"shake", "stop", "reset"} =>
              /\ Whole(c, clients[c]) \/ Whole(c, This(c))
              /\ alarm[c] = "set" \/ at[c] = "reset" => Whole(c, This(c))
        /\ at[c] = "ok" => clients[c] = route[c] /\ open[c] \in {{}, 1..route[c]}
        /\ alarm[c] # "off" => at[c] \in {"shake", "stop"}

\* Where the call of Connect is at each stage of a terminal, and what it has.
StageInv ==
    \A t \in Terminal :
        /\ stage[t] \in {"none", "auth"} => at[t] = "idle"
        /\ stage[t] \in {"session", "run"} => at[t] = "ok"
        /\ stage[t] \in {"leave", "unslot", "gone"} => at[t] \in {"idle", "ok", "failed"}
        /\ stage[t] \in {"unslot", "gone"} => open[t] = {}
        /\ stage[t] = "connect" /\ at[t] = "ok" => Whole(t, route[t])
        /\ t \in watch => stage[t] \in {"session", "run", "leave"}
        /\ t \in terminals <=> stage[t] \notin {"none", "gone"}

SlotInv == IsFiniteSet(terminals) /\ Cardinality(terminals) <= MaxTerminals

Inv == TypeOK /\ ChainInv /\ StageInv /\ SlotInv

----------------------------------------------------------------------------
\* The types are kept; the clients are counted up to the length of the route.
LEMMA TypeStep ==
    ASSUME TypeOK, ChainInv, [Next]_vars
    PROVE  TypeOK'
<1> USE HopsAssumption DEF TypeOK, ConnectTypeOK, Terminal, Hop, Worker, Moves, Goes
<1>1. ASSUME NEW c \in Call, ConnectStep(c), UNCHANGED <<cancelled, termVars>>
      PROVE  TypeOK'
  <2> USE DEF termVars, This
  <2>1. CASE \/ KeyReady(c) \/ AlarmFires(c) \/ AlarmCloses(c) \/ ShakeOK(c) \/ LinkLost(c)
             \/ StopReturns(c) \/ SocketExpires(c) \/ MuxCloses(c)
    BY <1>1, <2>1 DEF KeyReady, AlarmFires, AlarmCloses, ShakeOK, LinkLost, StopReturns,
       SocketExpires, MuxCloses
  <2>2. CASE GivesUp(c)
    BY <1>1, <2>2 DEF GivesUp
  <2>3. CASE HopDone(c)
    BY <1>1, <2>3 DEF HopDone, ChainInv
  <2>4. CASE DialOK(c)
    <3>1. clients[c] + 1 \in Hop
      BY <2>4 DEF DialOK, ChainInv
    <3> QED
      BY <1>1, <2>4, <3>1 DEF DialOK
  <2> QED
    BY <1>1, <2>1, <2>2, <2>3, <2>4 DEF ConnectStep, KeyFails, DialFails, ShakeFails, HopTooLate
<1>2. ASSUME NEW t \in Terminal, Opens(t) \/ Authenticated(t) \/ NotAuthenticated(t)
      PROVE  TypeOK'
  BY <1>2 DEF Opens, Authenticated, NotAuthenticated, ConnectCalled, connectVars
<1>3. ASSUME NEW t \in Terminal, Connected(t) \/ NotConnected(t) \/ WatchFires(t)
      PROVE  TypeOK'
  BY <1>3 DEF Connected, Watched, NotConnected, WatchFires, connectVars
<1>4. ASSUME NEW t \in Terminal, SessionStarts(t) \/ SessionFails(t) \/ LoopEnds(t)
      PROVE  TypeOK'
  BY <1>4 DEF SessionStarts, SessionFails, LoopEnds, connectVars
<1>5. ASSUME NEW t \in Terminal, NEW w \in Worker, Cancels(t, w) \/ WorkerEnds(t, w)
      PROVE  TypeOK'
  BY <1>5 DEF Cancels, WorkerEnds, connectVars
<1>6. ASSUME NEW t \in Terminal, Leaves(t) \/ Unslots(t) \/ Forgotten(t)
      PROVE  TypeOK'
  BY <1>6 DEF Leaves, Unslots, Forgotten, connectVars
<1>7. CASE Close
  BY <1>7 DEF Close, connectVars
<1>8. CASE UNCHANGED vars
  BY <1>8 DEF vars, connectVars, termVars
<1> HIDE DEF TypeOK, ConnectTypeOK, Terminal, Hop, Worker, Moves, Goes
<1> QED
  BY <1>1, <1>2, <1>3, <1>4, <1>5, <1>6, <1>7, <1>8 DEF Next, TerminalStep, Connecting, Terminal

----------------------------------------------------------------------------
(* Connect.                                                                *)

\* A call that gives up is in order.
LEMMA GivesUpInOrder ==
    ASSUME TypeOK, ChainInv, NEW c \in Call, GivesUp(c)
    PROVE  ChainInv'
  BY DEF TypeOK, ConnectTypeOK, ChainInv, Whole, GivesUp, Moves, This

\* The steps of Connect keep the order of its sockets.
LEMMA ConnectInOrder ==
    ASSUME TypeOK, ChainInv, NEW c \in Call, ConnectStep(c)
    PROVE  ChainInv'
<1> USE HopsAssumption DEF TypeOK, ConnectTypeOK, Hop, ChainInv, Whole, This, Moves
<1>1. CASE KeyReady(c)
  BY <1>1 DEF KeyReady
<1>2. CASE DialOK(c)
  <2>1. (1..clients[c]) \cup {clients[c] + 1} = 1..(clients[c] + 1)
    OBVIOUS
  <2> QED
    BY <1>2, <2>1 DEF DialOK
<1>3. CASE AlarmFires(c)
  BY <1>3 DEF AlarmFires
<1>4. CASE AlarmCloses(c)
  <2>1. (1..(clients[c] + 1)) \ {clients[c] + 1} = 1..clients[c]
    OBVIOUS
  <2>2. (1..clients[c]) \ {clients[c] + 1} = 1..clients[c]
    OBVIOUS
  <2> QED
    BY <1>4, <2>1, <2>2 DEF AlarmCloses
<1>5. CASE ShakeOK(c)
  BY <1>5 DEF ShakeOK
<1>6. CASE HopDone(c)
  BY <1>6 DEF HopDone, RouteDone
<1>6a. CASE StopReturns(c)
  BY <1>6a DEF StopReturns, StopSucceeds
<1>7. CASE LinkLost(c)
  BY <1>7 DEF LinkLost
<1>8. CASE GivesUp(c)
  BY <1>8, GivesUpInOrder
<1>9. CASE SocketExpires(c)
  BY <1>9 DEF SocketExpires
<1>10. CASE MuxCloses(c)
  BY <1>10 DEF MuxCloses
<1> HIDE DEF ChainInv
<1> QED
  BY <1>1, <1>2, <1>3, <1>4, <1>5, <1>6, <1>6a, <1>7, <1>8, <1>9, <1>10
  DEF ConnectStep, KeyFails, DialFails, ShakeFails, HopTooLate

\* A step changes the call of one terminal, or none.
LEMMA ChainStep ==
    ASSUME TypeOK, ChainInv, StageInv, [Next]_vars
    PROVE  ChainInv'
<1> USE HopsAssumption DEF Terminal
<1>1. CASE UNCHANGED connectVars
  BY <1>1 DEF ChainInv, Whole, connectVars, This
<1>2. ASSUME NEW t \in Terminal, Connecting(t)
      PROVE  ChainInv'
  BY <1>2, ConnectInOrder DEF Connecting
<1>3. ASSUME NEW t \in Terminal, Authenticated(t)
      PROVE  ChainInv'
  <2>1. open[t] = {} /\ clients[t] = 0 /\ alarm[t] = "off"
    BY <1>3 DEF Authenticated, ConnectCalled, TypeOK, ConnectTypeOK, ChainInv
  <2>2. 1..0 = {}
    OBVIOUS
  <2>3. route'[t] \in Hop /\ at'[t] = "key" /\ UNCHANGED <<open, clients, alarm, expired>>
    BY <1>3 DEF Authenticated, ConnectCalled, Moves, TypeOK, ConnectTypeOK
  <2>4. \A c \in Call \ {t} : at'[c] = at[c] /\ route'[c] = route[c]
    BY <1>3 DEF Authenticated, ConnectCalled, Moves, TypeOK, ConnectTypeOK
  <2>5. ASSUME NEW c \in Call
        PROVE  /\ at'[c] \in {"idle", "failed"} => open'[c] = {} /\ clients'[c] = 0
               /\ at'[c] \in {"key", "dial", "shake", "stop", "reset"} => clients'[c] < route'[c]
               /\ at'[c] \in {"key", "dial"} => Whole(c, clients[c])'
               /\ at'[c] \in {"shake", "stop", "reset"} =>
                     /\ Whole(c, clients[c])' \/ Whole(c, This(c))'
                     /\ alarm'[c] = "set" \/ at'[c] = "reset" => Whole(c, This(c))'
               /\ at'[c] = "ok" => clients'[c] = route'[c] /\ open'[c] \in {{}, 1..route'[c]}
               /\ alarm'[c] # "off" => at'[c] \in {"shake", "stop"}
    <3>1. CASE c = t
      <4>1. 0 < route'[t]
        BY <2>3 DEF Hop
      <4> QED
        BY <2>1, <2>2, <2>3, <3>1, <4>1 DEF Whole
    <3>2. CASE c # t
      BY <2>3, <2>4, <3>2 DEF ChainInv, Whole, This
    <3> QED
      BY <3>1, <3>2
  <2> QED
    BY <2>5 DEF ChainInv, This
<1>4. ASSUME NEW t \in Terminal, WatchFires(t)
      PROVE  ChainInv'
  <2>1. at[t] \in {"idle", "ok", "failed"}
    BY <1>4 DEF WatchFires, StageInv
  <2> QED
    BY <1>4, <2>1 DEF WatchFires, TypeOK, ConnectTypeOK, ChainInv, Whole, This
<1>5. ASSUME NEW t \in Terminal, Leaves(t)
      PROVE  ChainInv'
  <2>1. at[t] \in {"idle", "ok", "failed"}
    BY <1>5 DEF Leaves, StageInv
  <2> QED
    BY <1>5, <2>1 DEF Leaves, TypeOK, ConnectTypeOK, ChainInv, Whole, This
<1>6. ASSUME NEW t \in Terminal, Forgotten(t)
      PROVE  ChainInv'
  <2>1. at[t] \in {"idle", "ok", "failed"} /\ open[t] = {}
    BY <1>6 DEF Forgotten, StageInv
  <2> QED
    BY <1>6, <2>1 DEF Forgotten, TypeOK, ConnectTypeOK, ChainInv, Whole, This
<1> QED
  BY <1>1, <1>2, <1>3, <1>4, <1>5, <1>6
  DEF vars, Next, TerminalStep, Opens, NotAuthenticated, Connected, NotConnected,
      SessionStarts, SessionFails, LoopEnds, Cancels, WorkerEnds, Unslots, Close

----------------------------------------------------------------------------
(* Terminals.                                                              *)

\* The steps of Connect are taken at the stage of the terminal that called it.
LEMMA ConnectKeepsStage ==
    ASSUME TypeOK, ChainInv, StageInv, NEW t \in Terminal, Connecting(t)
    PROVE  StageInv'
<1> USE HopsAssumption DEF TypeOK, ConnectTypeOK, Terminal, Hop, Connecting, termVars, Moves
<1>1. at'[t] = "ok" /\ at[t] # "ok" => Whole(t, route[t])'
  BY DEF ConnectStep, ChainInv, Whole, KeyReady, KeyFails, DialOK, DialFails, AlarmFires, AlarmCloses,
         ShakeOK, ShakeFails, StopReturns, HopDone, StopSucceeds, RouteDone, This, HopTooLate,
         SocketExpires, MuxCloses, LinkLost, GivesUp
<1>2. at[t] \in {"idle", "ok", "failed"} =>
          /\ UNCHANGED <<at, route, expired>>
          /\ open' = open \/ (t \in expired /\ open' = [open EXCEPT ![t] = {}])
  BY DEF ConnectStep, ChainInv, KeyReady, KeyFails, DialOK, DialFails, AlarmFires, AlarmCloses,
         ShakeOK, ShakeFails, StopReturns, HopDone, HopTooLate, SocketExpires, MuxCloses, LinkLost
<1>3. \A u \in Terminal \ {t} :
          /\ at'[u] = at[u] /\ open'[u] = open[u] /\ route'[u] = route[u]
          /\ u \in expired' <=> u \in expired
  BY DEF ConnectStep, KeyReady, KeyFails, DialOK, DialFails, AlarmFires, AlarmCloses,
         ShakeOK, ShakeFails, StopReturns, HopDone, HopTooLate, SocketExpires, MuxCloses,
         LinkLost, GivesUp
<1>4. UNCHANGED <<stage, terminals, watch>>
  OBVIOUS
<1>5. at[t] \notin {"idle", "ok", "failed"} => stage[t] = "connect"
  BY DEF StageInv
<1> HIDE DEF Connecting
<1> QED
  <2> SUFFICES ASSUME NEW u \in Terminal
               PROVE  /\ stage'[u] \in {"none", "auth"} => at'[u] = "idle"
                      /\ stage'[u] \in {"session", "run"} => at'[u] = "ok"
                      /\ stage'[u] \in {"leave", "unslot", "gone"} =>
                            at'[u] \in {"idle", "ok", "failed"}
                      /\ stage'[u] \in {"unslot", "gone"} => open'[u] = {}
                      /\ stage'[u] = "connect" /\ at'[u] = "ok" => Whole(u, route[u])'
                      /\ u \in watch' => stage'[u] \in {"session", "run", "leave"}
                      /\ u \in terminals' <=> stage'[u] \notin {"none", "gone"}
    BY DEF StageInv
  <2>1. CASE u # t
    BY <1>3, <1>4, <2>1 DEF StageInv, Whole
  <2>2. CASE u = t /\ at[t] \in {"idle", "ok", "failed"}
    BY <1>2, <1>4, <2>2 DEF StageInv, Whole
  <2>3. CASE u = t /\ at[t] \notin {"idle", "ok", "failed"}
    BY <1>1, <1>4, <1>5, <2>3 DEF StageInv
  <2> QED
    BY <2>1, <2>2, <2>3

LEMMA StageStep ==
    ASSUME TypeOK, ChainInv, StageInv, [Next]_vars
    PROVE  StageInv'
<1> USE HopsAssumption DEF TypeOK, ConnectTypeOK, Terminal, Goes, StageInv, connectVars, termVars
<1>0. /\ UNCHANGED connectVars => \A u \in Terminal : Whole(u, route[u])' <=> Whole(u, route[u])
      /\ \A u \in Terminal : Whole(u, route[u]) /\ UNCHANGED <<route, expired>> /\ open'[u] = open[u]
            => Whole(u, route[u])'
  BY DEF Whole
<1>1. ASSUME NEW t \in Terminal, Opens(t) \/ NotAuthenticated(t)
      PROVE  StageInv'
  BY <1>0, <1>1 DEF Opens, NotAuthenticated
<1>2. ASSUME NEW t \in Terminal, Authenticated(t)
      PROVE  StageInv'
  <2>1. \A u \in Terminal \ {t} : Whole(u, route[u])' <=> Whole(u, route[u])
    BY <1>2 DEF Authenticated, ConnectCalled, Moves, Whole
  <2> QED
    BY <1>2, <2>1 DEF Authenticated, ConnectCalled, Moves
<1>3. ASSUME NEW t \in Terminal, Connecting(t)
      PROVE  StageInv'
  BY <1>3, ConnectKeepsStage
<1>4. ASSUME NEW t \in Terminal, Connected(t) \/ NotConnected(t)
      PROVE  StageInv'
  BY <1>0, <1>4 DEF Connected, Watched, NotConnected
<1>5. ASSUME NEW t \in Terminal, WatchFires(t)
      PROVE  StageInv'
  BY <1>0, <1>5 DEF WatchFires
<1>6. ASSUME NEW t \in Terminal, SessionStarts(t) \/ SessionFails(t) \/ LoopEnds(t)
      PROVE  StageInv'
  BY <1>0, <1>6 DEF SessionStarts, SessionFails, LoopEnds
<1>7. ASSUME NEW t \in Terminal, NEW w \in Worker, Cancels(t, w) \/ WorkerEnds(t, w)
      PROVE  StageInv'
  BY <1>0, <1>7 DEF Cancels, WorkerEnds
<1>8. ASSUME NEW t \in Terminal, Leaves(t)
      PROVE  StageInv'
  BY <1>0, <1>8 DEF Leaves
<1>9. ASSUME NEW t \in Terminal, Unslots(t)
      PROVE  StageInv'
  BY <1>0, <1>9 DEF Unslots
<1>10. ASSUME NEW t \in Terminal, Forgotten(t)
       PROVE  StageInv'
  <2>1. \A u \in Terminal \ {t} : Whole(u, route[u])' <=> Whole(u, route[u])
    BY <1>10 DEF Forgotten, Whole
  <2> QED
    BY <1>10, <2>1 DEF Forgotten
<1>11. CASE Close \/ UNCHANGED vars
  BY <1>0, <1>11 DEF Close, vars
<1> HIDE DEF TypeOK, ConnectTypeOK, Terminal, Goes, StageInv, connectVars, termVars
<1> QED
  BY <1>1, <1>2, <1>3, <1>4, <1>5, <1>6, <1>7, <1>8, <1>9, <1>10, <1>11 DEF Next, TerminalStep

\* Slots are given out while there are any.
LEMMA SlotStep ==
    ASSUME SlotInv, [Next]_vars
    PROVE  SlotInv'
<1> USE TerminalsAssumption DEF SlotInv
<1>1. CASE UNCHANGED terminals
  BY <1>1
<1>2. ASSUME NEW t \in Terminal, Opens(t)
      PROVE  SlotInv'
  <2>1. IsFiniteSet(terminals \cup {t})
        /\ Cardinality(terminals \cup {t})
             = IF t \in terminals THEN Cardinality(terminals) ELSE Cardinality(terminals) + 1
    BY FS_AddElement
  <2>2. Cardinality(terminals) \in Nat /\ Cardinality(terminals) < MaxTerminals
    BY <1>2, FS_CardinalityType DEF Opens, SlotFree
  <2>3. Cardinality(terminals \cup {t}) <= MaxTerminals
    BY <2>1, <2>2
  <2> QED
    BY <1>2, <2>1, <2>3 DEF Opens
<1>3. ASSUME NEW t \in Terminal, Unslots(t)
      PROVE  SlotInv'
  <2>1. IsFiniteSet(terminals \ {t}) /\ Cardinality(terminals \ {t}) <= Cardinality(terminals)
    BY FS_Subset
  <2>2. Cardinality(terminals) \in Nat /\ Cardinality(terminals \ {t}) \in Nat
    BY <2>1, FS_CardinalityType
  <2>3. Cardinality(terminals \ {t}) <= MaxTerminals
    BY <2>1, <2>2
  <2> QED
    BY <1>3, <2>1, <2>3 DEF Unslots
<1> HIDE DEF SlotInv
<1> QED
  BY <1>1, <1>2, <1>3
  DEF vars, termVars, Next, TerminalStep, NotAuthenticated, Authenticated, Connecting, Connected, NotConnected,
      WatchFires, SessionStarts, SessionFails, LoopEnds, Cancels, WorkerEnds, Leaves, Forgotten, Close

----------------------------------------------------------------------------
(* Theorems.                                                               *)

LEMMA InitInv == Init => Inv
<1> SUFFICES ASSUME Init
             PROVE  Inv
  OBVIOUS
<1> USE HopsAssumption DEF Init, ConnectInit, Terminal
<1>1. TypeOK
  <2>1. 1 \in Hop
    BY DEF Hop
  <2>2. ConnectTypeOK
    BY <2>1 DEF ConnectTypeOK
  <2> QED
    BY <2>2 DEF TypeOK
<1>2. ChainInv
  BY DEF ChainInv
<1>3. StageInv
  BY DEF StageInv
<1>4. SlotInv
  BY FS_EmptySet, TerminalsAssumption DEF SlotInv
<1> QED
  BY <1>1, <1>2, <1>3, <1>4 DEF Inv

\* The inductive invariant holds.
THEOREM Invariance == Spec => []Inv
<1>1. Inv /\ [Next]_vars => Inv'
  BY TypeStep, ChainStep, StageStep, SlotStep DEF Inv
<1> QED
  BY <1>1, InitInv, PTL DEF Spec

\* The variables of terminals and connections keep their types.
THEOREM TypeCorrect == Spec => []TypeOK
<1>1. Inv => TypeOK
  BY DEF Inv
<1> QED
  BY <1>1, Invariance, PTL

\* Slots are limited, and no socket is open without one.
THEOREM SlotsLimitSockets == Spec => []SlotsHoldConnections
<1>1. Inv => SlotsHoldConnections
  <2> SUFFICES ASSUME Inv, NEW t \in Terminal, open[t] # {}
               PROVE  t \in terminals
    BY DEF Inv, SlotInv, SlotsHoldConnections
  <2>1. stage[t] \notin {"none", "gone"}
    BY DEF Inv, ChainInv, StageInv, Terminal
  <2> QED
    BY <2>1 DEF Inv, StageInv
<1> QED
  BY <1>1, Invariance, PTL

\* Connect returns a whole connection, or leaves nothing, as long as the deadline
\* of the first socket does not pass before it is reset (client.go:108-126).
THEOREM WholeConnections == Spec => []ConnectAllOrNothing
<1>1. Inv => ConnectAllOrNothing
  BY DEF Inv, ChainInv, StageInv, Whole, ConnectAllOrNothing, Terminal
<1> QED
  BY <1>1, Invariance, PTL
=============================================================================
