--------------------------- MODULE SharingProofs ---------------------------
(***************************************************************************)
(* Proofs of the safety properties of Sharing, for any number of servers,  *)
(* guests, addresses and publications.                                     *)
(***************************************************************************)
EXTENDS Sharing, FiniteSetTheorems, TLAPS

\* A server listens between Starts and its end, one at a time; one that was not
\* closed is the one in the field; guests are connected to one that was not.
ServerInv ==
    /\ \A s \in listening : stage[s] \in {"new", "serving"}
    /\ \A s, t \in listening : s = t
    /\ \A s \in listening : stage[s] = "serving" => s \notin shut
    /\ \A s \in Server : stage[s] \in {"new", "serving"} /\ s \notin shut => shareServer = s
    /\ shareServer # None =>
          stage[shareServer] \in {"new", "serving", "ended"} /\ shareServer \notin shut
    /\ \A g \in Guest : conn[g] # None =>
          conn[g] \notin shut /\ stage[conn[g]] \in {"serving", "ended", "gone"}

\* What is in memory was published as a whole, after the last stop.
PubInv ==
    /\ shareFeed = sharePayload
    /\ sharePayload # 0 => sharePayload > discarded
    /\ discarded <= pubs

\* What a guest has copied is one publication, and with a connection that a stop
\* would have closed, one that no stop has discarded.
GuestInv ==
    \A g \in Guest :
        /\ got[g].payload = got[g].feed
        /\ ask[g] = "idle" => got[g] = Nothing
        /\ got[g] # Nothing /\ conn[g] # None =>
              got[g].payload > discarded \/ EndedAlone(conn[g])

\* Once Shutdown has waited for the handlers none is under way; main returns.
EndInv ==
    /\ ClosedForGood
    /\ ~atWork => act = "idle" /\ phase \in {"ended", "closed", "exited"}

PeerInv == IsFiniteSet(sharePeers) /\ PeersBounded

Inv == TypeOK /\ ServerInv /\ PubInv /\ GuestInv /\ EndInv /\ PeerInv

----------------------------------------------------------------------------
\* The types are kept.
LEMMA TypeStep ==
    ASSUME TypeOK, [Next]_vars
    PROVE  TypeOK'
<1> USE SharingAssumption DEF TypeOK, Pub, Nothing, shareVars, netVars, guestVars, peerVars, endVars
<1>1. ASSUME NEW what \in {"prepare", "publish", "stop", "restart", "start"}, ActionBegins(what)
      PROVE  TypeOK'
  BY <1>1 DEF ActionBegins
<1>2. CASE PrepareFails
  BY <1>2 DEF PrepareFails
<1>3. CASE Prepare
  BY <1>3 DEF Prepare, Published
<1>4. ASSUME stopSharing
      PROVE  /\ shareServer' \in Server \cup {None}
             /\ sharePayload' \in Pub /\ shareFeed' \in Pub /\ shareConfig' \in Pub
             /\ stage' \in [Server -> {"unused", "new", "serving", "ended", "gone"}]
             /\ shut' \in SUBSET Server /\ listening' \in SUBSET Server
             /\ conn' \in [Guest -> Server \cup {None}]
             /\ sharePeers' \in SUBSET Ip /\ aged' \in SUBSET sharePeers'
             /\ discarded' \in Pub
  BY <1>4 DEF stopSharing, CloseServer, Discard
<1>5. CASE StopAction
  BY <1>4, <1>5 DEF StopAction
<1>6. CASE Close
  BY <1>4, <1>6 DEF Close
<1>7. CASE CloseAgain
  BY <1>4, <1>7 DEF CloseAgain
<1>7a. CASE ShutdownReturns \/ ServeFails
  BY <1>7a DEF ShutdownReturns, ServeFails
<1>7b. CASE Exit
  BY <1>7b DEF Exit
<1>8. CASE StartAction
  BY <1>8 DEF StartAction, StartSharing, Starts
<1>9. ASSUME NEW s \in Server, ServeStep(s)
      PROVE  TypeOK'
  BY <1>9 DEF ServeStep, ServeBegins, ServeEnds, ServeCleared, AfterServe, Collected
<1>10. ASSUME NEW g \in Guest, Connects(g) \/ Disconnects(g)
       PROVE  TypeOK'
  BY <1>10 DEF Connects, Disconnects
<1>11. ASSUME NEW g \in Guest, NEW what \in {"feed", "package", "config"}, Asks(g, what)
       PROVE  TypeOK'
  BY <1>11 DEF Asks
<1>12. ASSUME NEW g \in Guest, CopiesShare(g) \/ ReadsConfig(g) \/ Answers(g)
       PROVE  TypeOK'
  BY <1>12 DEF CopiesShare, ReadsConfig, Answers
<1>13. ASSUME NEW g \in Guest, NEW ip \in Ip, NotesPeer(g, ip)
       PROVE  TypeOK'
  BY <1>13 DEF NotesPeer
<1>14. ASSUME NEW ip \in Ip, PeerAges(ip)
       PROVE  TypeOK'
  BY <1>14 DEF PeerAges
<1>15. CASE UNCHANGED vars
  BY <1>15 DEF vars
<1> QED
  BY <1>1, <1>2, <1>3, <1>5, <1>6, <1>7, <1>7a, <1>7b, <1>8, <1>9, <1>10, <1>11, <1>12, <1>13,
     <1>14, <1>15 DEF Next, ActionStep, GuestStep

----------------------------------------------------------------------------
(* What the actions leave alone.                                           *)

\* Steps of the handlers and the guests that leave the servers alone.
LEMMA ServersFrame ==
    ASSUME TypeOK, ServerInv,
           UNCHANGED <<shareServer, stage, shut, listening>>,
           conn' = conn \/ \E g \in Guest : conn' = [conn EXCEPT ![g] = None]
    PROVE  ServerInv'
  BY DEF TypeOK, ServerInv

\* A stop closes the server in the field.
LEMMA StopKeepsServers ==
    ASSUME TypeOK, ServerInv, stopSharing
    PROVE  ServerInv'
<1> USE SharingAssumption DEF TypeOK
<1>1. CASE shareServer = None
  BY <1>1 DEF stopSharing, ServerInv
<1>2. CASE shareServer # None
  BY <1>2 DEF stopSharing, CloseServer, ServerInv
<1> QED
  BY <1>1, <1>2

LEMMA ServerStep ==
    ASSUME TypeOK, ServerInv, [Next]_vars
    PROVE  ServerInv'
<1> USE SharingAssumption DEF TypeOK, shareVars, netVars, guestVars, peerVars, endVars
<1>1. ASSUME NEW what \in {"prepare", "publish", "stop", "restart", "start"}, ActionBegins(what)
      PROVE  ServerInv'
  BY <1>1, ServersFrame DEF ActionBegins
<1>2. CASE PrepareFails \/ Prepare \/ ShutdownReturns \/ ServeFails
  BY <1>2, ServersFrame DEF PrepareFails, Prepare, ShutdownReturns, ServeFails
<1>3. CASE StopAction \/ Close \/ CloseAgain
  BY <1>3, StopKeepsServers DEF StopAction, Close, CloseAgain
<1>4. CASE StartAction
  <2>1. CASE UNCHANGED <<shareServer, netVars>>
    BY <2>1, ServersFrame
  <2>2. ASSUME NEW s \in Server, shareServer = None, Starts(s)
        PROVE  ServerInv'
    BY <2>2 DEF Starts, ServerInv
  <2> QED
    BY <1>4, <2>1, <2>2 DEF StartAction, StartSharing
<1>5. ASSUME NEW s \in Server, ServeStep(s)
      PROVE  ServerInv'
  <2>1. CASE ServeBegins(s)
    BY <2>1 DEF ServeBegins, ServerInv
  <2>2. CASE ServeEnds(s)
    BY <2>2 DEF ServeEnds, ServerInv
  <2>3. CASE ServeCleared(s)
    BY <2>3 DEF ServeCleared, AfterServe, ServerInv
  <2>4. CASE Collected(s)
    BY <2>4 DEF Collected, ServerInv
  <2> QED
    BY <1>5, <2>1, <2>2, <2>3, <2>4 DEF ServeStep
<1>6. ASSUME NEW g \in Guest, Connects(g)
      PROVE  ServerInv'
  BY <1>6 DEF Connects, ServerInv
<1>7. ASSUME NEW g \in Guest, Disconnects(g)
      PROVE  ServerInv'
  BY <1>7, ServersFrame DEF Disconnects
<1>8. ASSUME NEW g \in Guest, NEW what \in {"feed", "package", "config"}, Asks(g, what)
      PROVE  ServerInv'
  BY <1>8, ServersFrame DEF Asks
<1>9. ASSUME NEW g \in Guest, CopiesShare(g) \/ ReadsConfig(g) \/ Answers(g)
      PROVE  ServerInv'
  BY <1>9, ServersFrame DEF CopiesShare, ReadsConfig, Answers
<1>10. ASSUME NEW g \in Guest, NEW ip \in Ip, NotesPeer(g, ip)
       PROVE  ServerInv'
  BY <1>10, ServersFrame DEF NotesPeer
<1>11. ASSUME NEW ip \in Ip, PeerAges(ip)
       PROVE  ServerInv'
  BY <1>11, ServersFrame DEF PeerAges
<1>12. CASE UNCHANGED vars
  BY <1>12, ServersFrame DEF vars
<1>13. CASE Exit
  BY <1>13 DEF Exit, ServerInv
<1> QED
  BY <1>1, <1>2, <1>3, <1>4, <1>5, <1>6, <1>7, <1>8, <1>9, <1>10, <1>11, <1>12, <1>13
  DEF Next, ActionStep, GuestStep

LEMMA PubStep ==
    ASSUME TypeOK, PubInv, [Next]_vars
    PROVE  PubInv'
<1> USE SharingAssumption DEF TypeOK, Pub, PubInv, shareVars, netVars, guestVars, peerVars, endVars
<1>1. CASE Prepare
  BY <1>1 DEF Prepare, Published
<1>2. CASE StopAction \/ Close \/ CloseAgain
  BY <1>2 DEF StopAction, Close, CloseAgain, stopSharing, Discard
<1>3. CASE Exit
  BY <1>3 DEF Exit
<1>4. CASE UNCHANGED <<shareVars, pubs, discarded>>
  BY <1>4
<1> QED
  BY <1>1, <1>2, <1>3, <1>4
  DEF vars, Next, ActionStep, ActionBegins, PrepareFails, StartAction, ShutdownReturns, ServeFails,
      ServeStep, ServeBegins, ServeEnds, ServeCleared, Collected,
      GuestStep, Connects, Disconnects, Asks, CopiesShare, ReadsConfig, NotesPeer, Answers, PeerAges

----------------------------------------------------------------------------
(* Guests.                                                                 *)

\* A connection is that of the server in the field, or of one that ended alone.
LEMMA ConnectedTo ==
    ASSUME TypeOK, ServerInv, NEW g \in Guest, conn[g] # None
    PROVE  conn[g] = shareServer \/ EndedAlone(conn[g])
  BY DEF TypeOK, ServerInv, EndedAlone

\* A stop leaves connections of servers that ended alone.
LEMMA StopKeepsGuests ==
    ASSUME TypeOK, ServerInv, GuestInv, stopSharing, UNCHANGED guestVars
    PROVE  GuestInv'
<1> SUFFICES ASSUME NEW g \in Guest, got[g] # Nothing, conn'[g] # None
             PROVE  EndedAlone(conn[g])' /\ conn'[g] = conn[g]
  BY DEF GuestInv, guestVars, Nothing
<1> USE SharingAssumption
<1>1. conn'[g] = conn[g] /\ conn[g] # shareServer
  BY DEF TypeOK, stopSharing, CloseServer
<1>2. EndedAlone(conn[g])
  BY <1>1, ConnectedTo
<1>3. conn[g] \notin shut' /\ stage' = stage
  BY <1>1, <1>2 DEF EndedAlone, stopSharing, CloseServer
<1> QED
  BY <1>1, <1>2, <1>3 DEF EndedAlone

LEMMA GuestsStep ==
    ASSUME TypeOK, ServerInv, PubInv, GuestInv, [Next]_vars
    PROVE  GuestInv'
<1> USE SharingAssumption DEF TypeOK, Pub, Nothing, shareVars, netVars, guestVars, peerVars, endVars
<1>1. CASE UNCHANGED <<stage, shut, conn, ask, got, discarded>>
  BY <1>1 DEF GuestInv, EndedAlone
<1>2. CASE StopAction \/ Close \/ CloseAgain
  BY <1>2, StopKeepsGuests DEF StopAction, Close, CloseAgain
<1>3. ASSUME NEW s \in Server, Starts(s), UNCHANGED <<ask, got, discarded>>
      PROVE  GuestInv'
  BY <1>3 DEF Starts, ServerInv, GuestInv, EndedAlone
<1>4. ASSUME NEW s \in Server, ServeStep(s)
      PROVE  GuestInv'
  <2>1. CASE ServeBegins(s)
    BY <2>1 DEF ServeBegins, GuestInv, EndedAlone
  <2>2. CASE ServeEnds(s)
    BY <2>2 DEF ServeEnds, GuestInv, EndedAlone
  <2>3. CASE ServeCleared(s)
    BY <2>3 DEF ServeCleared, GuestInv, EndedAlone
  <2>4. CASE Collected(s)
    BY <2>4 DEF Collected, GuestInv, EndedAlone
  <2> QED
    BY <1>4, <2>1, <2>2, <2>3, <2>4 DEF ServeStep
<1>5. ASSUME NEW g \in Guest, Connects(g) \/ Disconnects(g)
      PROVE  GuestInv'
  BY <1>5 DEF Connects, Disconnects, GuestInv, EndedAlone
<1>6. ASSUME NEW g \in Guest, NEW what \in {"feed", "package", "config"}, Asks(g, what)
      PROVE  GuestInv'
  BY <1>6 DEF Asks, GuestInv, EndedAlone
<1>7. ASSUME NEW g \in Guest, CopiesShare(g)
      PROVE  GuestInv'
  BY <1>7 DEF CopiesShare, PubInv, GuestInv, EndedAlone
<1>8. ASSUME NEW g \in Guest, ReadsConfig(g)
      PROVE  GuestInv'
  BY <1>8 DEF ReadsConfig, GuestInv, EndedAlone
<1>9. ASSUME NEW g \in Guest, Answers(g)
      PROVE  GuestInv'
  BY <1>9 DEF Answers, GuestInv, EndedAlone
<1>10. ASSUME NEW g \in Guest, NEW ip \in Ip, NotesPeer(g, ip)
       PROVE  GuestInv'
  BY <1>10 DEF NotesPeer, GuestInv, EndedAlone
<1>11. CASE StartAction
  BY <1>1, <1>3, <1>11 DEF StartAction, StartSharing
<1>12. CASE Prepare \/ PrepareFails \/ ShutdownReturns \/ ServeFails
  BY <1>1, <1>12 DEF Prepare, PrepareFails, ShutdownReturns, ServeFails
<1>13. ASSUME NEW what \in {"prepare", "publish", "stop", "restart", "start"}, ActionBegins(what)
       PROVE  GuestInv'
  BY <1>1, <1>13 DEF ActionBegins
<1>14. ASSUME NEW ip \in Ip, PeerAges(ip)
       PROVE  GuestInv'
  BY <1>1, <1>14 DEF PeerAges
<1>15. CASE UNCHANGED vars
  BY <1>1, <1>15 DEF vars
<1>16. CASE Exit
  BY <1>16 DEF Exit, GuestInv
<1> QED
  BY <1>2, <1>4, <1>5, <1>6, <1>7, <1>8, <1>9, <1>10, <1>11, <1>12, <1>13, <1>14, <1>15, <1>16
  DEF Next, ActionStep, GuestStep

----------------------------------------------------------------------------
(* The end, and the peers.                                                 *)

\* After a stop, whoever still has the port was closed.
LEMMA StopEnds ==
    ASSUME TypeOK, ServerInv, stopSharing
    PROVE  shareServer' = None /\ sharePayload' = 0 /\ \A s \in listening' : s \in shut'
<1> USE SharingAssumption
<1>1. ASSUME NEW s \in listening'
      PROVE  s \in shut'
  <2>1. s \in listening /\ s \in Server /\ stage[s] \in {"new", "serving"}
    BY <1>1 DEF TypeOK, ServerInv, stopSharing, CloseServer
  <2>2. s \in shut \/ s = shareServer
    BY <2>1 DEF ServerInv
  <2> QED
    BY <2>1, <2>2 DEF stopSharing, CloseServer
<1> QED
  BY <1>1 DEF stopSharing, Discard

LEMMA EndStep ==
    ASSUME TypeOK, ServerInv, EndInv, [Next]_vars
    PROVE  EndInv'
<1> USE SharingAssumption DEF TypeOK, EndInv, ClosedForGood, shareVars, netVars, guestVars, peerVars, endVars
<1>1. CASE StopAction
  BY <1>1, StopEnds DEF StopAction
<1>2. CASE Close \/ CloseAgain
  BY <1>2, StopEnds DEF Close, CloseAgain
<1>3. CASE Prepare \/ PrepareFails \/ StartAction
  BY <1>3 DEF Prepare, PrepareFails, StartAction
<1>4. ASSUME NEW what \in {"prepare", "publish", "stop", "restart", "start"}, ActionBegins(what)
      PROVE  EndInv'
  BY <1>4 DEF ActionBegins
<1>5. ASSUME NEW s \in Server, ServeStep(s)
      PROVE  EndInv'
  BY <1>5 DEF ServeStep, ServeBegins, ServeEnds, ServeCleared, AfterServe, Collected, ServerInv
<1>6. CASE UNCHANGED <<shareServer, sharePayload, listening, shut, endVars, act>>
  BY <1>6
<1>7. CASE ShutdownReturns \/ ServeFails \/ Exit
  BY <1>7 DEF ShutdownReturns, ServeFails, Exit
<1> QED
  BY <1>1, <1>2, <1>3, <1>4, <1>5, <1>6, <1>7
  DEF vars, Next, ActionStep,
      GuestStep, Connects, Disconnects, Asks, CopiesShare, ReadsConfig, NotesPeer, Answers, PeerAges

LEMMA PeerStep ==
    ASSUME TypeOK, PeerInv, [Next]_vars
    PROVE  PeerInv'
<1> USE SharingAssumption DEF shareVars, netVars, guestVars, peerVars, endVars
<1>1. CASE UNCHANGED sharePeers
  BY <1>1 DEF PeerInv, PeersBounded
<1>2. CASE sharePeers' = {}
  BY <1>2, FS_EmptySet DEF PeerInv, PeersBounded
<1>3. ASSUME NEW g \in Guest, NEW ip \in Ip, NotesPeer(g, ip)
      PROVE  PeerInv'
  <2> DEFINE recent == sharePeers \ aged
  <2>1. IsFiniteSet(recent) /\ Cardinality(recent) <= Cardinality(sharePeers)
    BY FS_Subset DEF PeerInv
  <2>2. /\ Cardinality(recent) \in Nat /\ Cardinality(recent) <= MaxPeers
        /\ Cardinality(sharePeers) \in Nat
    BY <2>1, FS_CardinalityType DEF PeerInv, PeersBounded
  <2>3. CASE Room(ip)
    <3>1. sharePeers' = recent \cup {ip}
      BY <1>3, <2>3 DEF NotesPeer
    <3>2. IsFiniteSet(recent \cup {ip})
          /\ Cardinality(recent \cup {ip})
               = IF ip \in recent THEN Cardinality(recent) ELSE Cardinality(recent) + 1
      BY <2>1, FS_AddElement
    <3>3. Cardinality(recent) < MaxPeers \/ ip \in recent
      BY <2>3 DEF Room
    <3>4. Cardinality(recent \cup {ip}) <= MaxPeers
      BY <2>2, <3>2, <3>3
    <3> QED
      BY <3>1, <3>2, <3>4 DEF PeerInv, PeersBounded
  <2>4. CASE ~Room(ip)
    <3>1. sharePeers' = recent
      BY <1>3, <2>4 DEF NotesPeer
    <3> QED
      BY <2>1, <2>2, <3>1 DEF PeerInv, PeersBounded
  <2> QED
    BY <2>3, <2>4
<1> QED
  BY <1>1, <1>2, <1>3
  DEF vars, Next, ActionStep, ActionBegins, Prepare, PrepareFails, StartAction, StopAction,
      Close, CloseAgain, ShutdownReturns, ServeFails, Exit, stopSharing,
      ServeStep, ServeBegins, ServeEnds, ServeCleared, Collected,
      GuestStep, Connects, Disconnects, Asks, CopiesShare, ReadsConfig, Answers, PeerAges

----------------------------------------------------------------------------
(* Theorems.                                                               *)

LEMMA InitInv == Init => Inv
<1> SUFFICES ASSUME Init
             PROVE  Inv
  OBVIOUS
<1> USE SharingAssumption DEF Init, Nothing, Pub
<1>1. TypeOK
  BY DEF TypeOK
<1>2. ServerInv /\ PubInv
  BY DEF ServerInv, PubInv
<1>3. GuestInv
  BY DEF GuestInv
<1>4. EndInv
  BY DEF EndInv, ClosedForGood
<1>5. PeerInv
  BY FS_EmptySet DEF PeerInv, PeersBounded
<1> QED
  BY <1>1, <1>2, <1>3, <1>4, <1>5 DEF Inv

\* The inductive invariant holds.
THEOREM Invariance == Spec => []Inv
<1>1. Inv /\ [Next]_vars => Inv'
  BY TypeStep, ServerStep, PubStep, GuestsStep, EndStep, PeerStep DEF Inv
<1> QED
  BY <1>1, InitInv, PTL DEF Spec

\* The variables of the sharing server keep their types.
THEOREM TypeCorrect == Spec => []TypeOK
<1>1. Inv => TypeOK
  BY DEF Inv
<1> QED
  BY <1>1, Invariance, PTL

\* Who serves is the server that the status shows and stop ends.
THEOREM NobodyHidden == Spec => []NoHiddenServer
<1>1. Inv => NoHiddenServer
  <2> SUFFICES ASSUME Inv, NEW s \in Server,
                      (stage[s] = "serving" /\ s \notin shut) \/ (\E g \in Guest : conn[g] = s)
               PROVE  shareServer = s \/ EndedAlone(s)
    BY DEF NoHiddenServer
  <2>1. CASE stage[s] = "serving" /\ s \notin shut
    BY <2>1 DEF Inv, ServerInv
  <2>2. ASSUME NEW g \in Guest, conn[g] = s
        PROVE  shareServer = s \/ EndedAlone(s)
    BY <2>2, ConnectedTo, SharingAssumption DEF Inv
  <2> QED
    BY <2>1, <2>2
<1> QED
  BY <1>1, Invariance, PTL

\* Guests receive one publication, and none that a stop has discarded.
THEOREM AnswersAreCurrent == Spec => []AnswersCurrent
<1>1. Inv => AnswersCurrent
  BY DEF Inv, GuestInv, AnswersCurrent
<1> QED
  BY <1>1, Invariance, PTL

\* After the deferred Close nothing is shared, unless a handler outlives Shutdown.
THEOREM StaysClosed == Spec => []ClosedForGood
<1>1. Inv => ClosedForGood
  BY DEF Inv, EndInv
<1> QED
  BY <1>1, Invariance, PTL

\* The list of peers keeps its limit.
THEOREM PeersLimited == Spec => []PeersBounded
<1>1. Inv => PeersBounded
  BY DEF Inv, PeerInv
<1> QED
  BY <1>1, Invariance, PTL
=============================================================================
