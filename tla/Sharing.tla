------------------------------ MODULE Sharing ------------------------------
(***************************************************************************)
(* The sharing server of a desk: sharingAction, StartSharing and           *)
(* stopSharing, the goroutine that serves, guests that download packages   *)
(* and settings or poll a feed, and the end of the program.                *)
(*                                                                         *)
(* A section under shareMu is one step.  sharingAction holds the lock ops, *)
(* so one of them is under way at a time; Close takes no ops and comes     *)
(* between its sections.                                                   *)
(***************************************************************************)
EXTENDS Naturals, FiniteSets

CONSTANTS
    Server,    \* http.Server objects, used again when nothing refers to them
    Guest,     \* connections of team members, one request each at a time
    Ip,        \* their addresses
    MaxPeers,  \* the list of recent peers: 128
    MaxPubs,   \* bound on publications
    None

ASSUME SharingAssumption ==
    /\ MaxPeers \in Nat /\ MaxPubs \in Nat
    /\ None \notin Server

VARIABLES
    \* fields of Server, guarded by shareMu
    shareServer, sharePayload, shareFeed, shareConfig,  \* the last three: a publication, or 0
    sharePeers,
    \* net/http
    stage,      \* of a server's goroutine
    shut,       \* servers whose Close was called
    listening,  \* servers whose listener has the port
    conn,       \* the server each guest is connected to
    \* handlers
    act,        \* where sharingAction is
    ask, got,   \* where the request of each guest is, and what it has copied
    aged,       \* peers not seen for five minutes
    phase,      \* of the program: "run"; "closing": Close was called; "ended": its
                \* main function returns; "closed": the deferred Close is over; "exited"
    atWork,     \* whether handlers of the management server may be at work
    pubs,       \* publications so far
    discarded   \* observed: the publications that a stop has discarded

shareVars == <<sharePayload, shareFeed, shareConfig>>
netVars == <<stage, shut, listening, conn>>
guestVars == <<ask, got>>
peerVars == <<sharePeers, aged>>
endVars == <<phase, atWork>>
vars == <<shareServer, shareVars, netVars, act, guestVars, peerVars, endVars, pubs, discarded>>

Pub == 0..MaxPubs
Nothing == [payload |-> 0, feed |-> 0]

TypeOK ==
    /\ shareServer \in Server \cup {None}
    /\ sharePayload \in Pub /\ shareFeed \in Pub /\ shareConfig \in Pub
    /\ stage \in [Server -> {"unused", "new", "serving", "ended", "gone"}]
    /\ shut \in SUBSET Server
    /\ listening \in SUBSET Server
    /\ conn \in [Guest -> Server \cup {None}]
    /\ act \in {"idle", "prepare", "publish", "stop", "restart", "start"}
    /\ ask \in [Guest -> {"idle", "feed", "package", "config", "configPayload", "answer"}]
    /\ got \in [Guest -> [payload : Pub, feed : Pub]]
    /\ sharePeers \in SUBSET Ip /\ aged \in SUBSET sharePeers
    /\ phase \in {"run", "closing", "ended", "closed", "exited"}
    /\ atWork \in BOOLEAN
    /\ pubs \in Pub /\ discarded \in Pub

Init ==
    /\ shareServer = None
    /\ sharePayload = 0 /\ shareFeed = 0 /\ shareConfig = 0
    /\ stage = [s \in Server |-> "unused"] /\ shut = {} /\ listening = {}
    /\ conn = [g \in Guest |-> None]
    /\ act = "idle"
    /\ ask = [g \in Guest |-> "idle"] /\ got = [g \in Guest |-> Nothing]
    /\ sharePeers = {} /\ aged = {}
    /\ phase = "run" /\ atWork = TRUE /\ pubs = 0 /\ discarded = 0

----------------------------------------------------------------------------
(* stopSharing and StartSharing.                                           *)

\* http.Server.Close: the listener, if Serve has taken it, and all connections
\* are closed.  A listener that Serve has yet to take stays open until it does.
CloseServer(s) ==
    /\ shut' = shut \cup {s}
    /\ listening' = IF stage[s] = "serving" THEN listening \ {s} ELSE listening
    /\ conn' = [g \in Guest |-> IF conn[g] = s THEN None ELSE conn[g]]

\* Mutant: the prepared package stays in memory.
DiscardNothing == UNCHANGED shareVars

\* The package is cleared, the feed and the settings forgotten.
Discard == sharePayload' = 0 /\ shareFeed' = 0 /\ shareConfig' = 0

stopSharing ==
    /\ IF shareServer = None
         THEN UNCHANGED <<shut, listening, conn>>
         ELSE CloseServer(shareServer)
    /\ shareServer' = None
    /\ Discard
    /\ sharePeers' = {} /\ aged' = {}
    /\ discarded' = pubs
    /\ UNCHANGED stage

\* A new server, whose goroutine does not run yet.
Starts(s) ==
    /\ stage[s] = "unused"
    /\ listening = {}
    /\ shareServer' = s
    /\ stage' = [stage EXCEPT ![s] = "new"]
    /\ listening' = {s}
    /\ shut' = shut \ {s}
    /\ UNCHANGED conn

\* It is on already, is started, or the port cannot be had: it may still be
\* held by an earlier server or by another program.
StartSharing ==
    \/ shareServer # None /\ UNCHANGED <<shareServer, netVars>>
    \/ shareServer = None /\ \E s \in Server : Starts(s)
    \/ shareServer = None /\ UNCHANGED <<shareServer, netVars>>

----------------------------------------------------------------------------
(* sharingAction.                                                          *)

\* A request gets ops, until the management server has no handler left: those
\* that wait for ops go on after a shutdown that did not wait for them.
ActionBegins(what) ==
    /\ act = "idle"
    /\ atWork /\ phase # "exited"
    /\ act' = what
    /\ UNCHANGED <<shareServer, shareVars, netVars, guestVars, peerVars, endVars, pubs, discarded>>

\* Select, Create or PrepareFeed fail, and nothing has changed.
PrepareFails ==
    /\ act \in {"prepare", "publish"}
    /\ act' = "idle"
    /\ UNCHANGED <<shareServer, shareVars, netVars, guestVars, peerVars, endVars, pubs, discarded>>

\* The package, its feed and its settings replace the ones before.
Published == sharePayload' = pubs' /\ shareFeed' = pubs' /\ shareConfig' = pubs'

Prepare ==
    /\ act \in {"prepare", "publish"}
    /\ pubs < MaxPubs
    /\ pubs' = pubs + 1
    /\ Published
    /\ act' = IF act = "publish" THEN "start" ELSE "idle"
    /\ UNCHANGED <<shareServer, netVars, guestVars, peerVars, endVars, discarded>>

\* "stop", and "publish" without a key, which starts it again.
StopAction ==
    /\ act \in {"stop", "restart"}
    /\ stopSharing
    /\ act' = IF act = "restart" THEN "start" ELSE "idle"
    /\ UNCHANGED <<guestVars, endVars, pubs>>

StartAction ==
    /\ act = "start"
    /\ StartSharing
    /\ act' = "idle"
    /\ UNCHANGED <<shareVars, guestVars, peerVars, endVars, pubs, discarded>>

----------------------------------------------------------------------------
(* The end of the program.                                                 *)

\* Close, on a signal; handlers of the management server are still at work.
Close ==
    /\ phase = "run"
    /\ stopSharing
    /\ phase' = "closing"
    /\ UNCHANGED <<act, atWork, guestVars, pubs>>

\* Shutdown has waited for all handlers, or for five seconds.
ShutdownReturns ==
    /\ phase = "closing"
    /\ phase' = "ended"
    /\ \/ act = "idle" /\ atWork' = FALSE
       \/ UNCHANGED atWork
    /\ UNCHANGED <<shareServer, shareVars, netVars, act, guestVars, peerVars, pubs, discarded>>

\* The management server fails, or its health check: nobody waits for handlers.
ServeFails ==
    /\ phase = "run"
    /\ phase' = "ended"
    /\ UNCHANGED <<shareServer, shareVars, netVars, act, atWork, guestVars, peerVars, pubs,
                   discarded>>

\* Mutant: Close is not deferred.
CloseAgainNot ==
    /\ phase = "ended"
    /\ phase' = "closed"
    /\ UNCHANGED <<shareServer, shareVars, netVars, act, atWork, guestVars, peerVars, pubs,
                   discarded>>

\* The deferred Close.
CloseAgain ==
    /\ phase = "ended"
    /\ stopSharing
    /\ phase' = "closed"
    /\ UNCHANGED <<act, atWork, guestVars, pubs>>

\* The process ends, with all that is still under way.
Exit ==
    /\ phase = "closed"
    /\ phase' = "exited"
    /\ shareServer' = None
    /\ sharePayload' = 0 /\ shareFeed' = 0 /\ shareConfig' = 0
    /\ stage' = [s \in Server |-> "unused"] /\ shut' = {} /\ listening' = {}
    /\ conn' = [g \in Guest |-> None]
    /\ act' = "idle"
    /\ ask' = [g \in Guest |-> "idle"] /\ got' = [g \in Guest |-> Nothing]
    /\ sharePeers' = {} /\ aged' = {}
    /\ UNCHANGED <<atWork, pubs, discarded>>

----------------------------------------------------------------------------
(* The goroutine of StartSharing, and http.Server.Serve.                   *)

\* Serve takes the listener, or closes it when Close was faster.
ServeBegins(s) ==
    /\ stage[s] = "new"
    /\ IF s \in shut
         THEN /\ stage' = [stage EXCEPT ![s] = "ended"]
              /\ listening' = listening \ {s}
         ELSE /\ stage' = [stage EXCEPT ![s] = "serving"]
              /\ UNCHANGED listening
    /\ UNCHANGED <<shareServer, shareVars, shut, conn, act, guestVars, peerVars, endVars, pubs, discarded>>

\* Serve returns after a Close, or since Accept fails; connections stay open
\* then.
ServeEnds(s) ==
    /\ stage[s] = "serving"
    /\ stage' = [stage EXCEPT ![s] = "ended"]
    /\ listening' = listening \ {s}
    /\ UNCHANGED <<shareServer, shareVars, shut, conn, act, guestVars, peerVars, endVars, pubs, discarded>>

\* Mutant: the goroutine clears the field whatever it holds.
AfterServeAny(s) == None

\* Mutant: the goroutine leaves the field alone.
AfterServeNone(s) == shareServer

\* shareServer after the goroutine of s.
AfterServe(s) == IF shareServer = s THEN None ELSE shareServer

ServeCleared(s) ==
    /\ stage[s] = "ended"
    /\ shareServer' = AfterServe(s)
    /\ stage' = [stage EXCEPT ![s] = "gone"]
    /\ UNCHANGED <<shareVars, shut, listening, conn, act, guestVars, peerVars, endVars, pubs, discarded>>

\* Nothing refers to the server any more.
Collected(s) ==
    /\ stage[s] = "gone"
    /\ \A g \in Guest : conn[g] # s
    /\ stage' = [stage EXCEPT ![s] = "unused"]
    /\ shut' = shut \ {s}
    /\ UNCHANGED <<shareServer, shareVars, listening, conn, act, guestVars, peerVars, endVars, pubs, discarded>>

----------------------------------------------------------------------------
(* Guests: shareHandler, downloadPayload and serveFeed.                    *)

\* A connection is accepted.
Connects(g) ==
    /\ conn[g] = None /\ ask[g] = "idle"
    /\ \E s \in listening :
          /\ stage[s] = "serving"
          /\ conn' = [conn EXCEPT ![g] = s]
    /\ UNCHANGED <<shareServer, shareVars, stage, shut, listening, act, guestVars, peerVars, endVars, pubs, discarded>>

Disconnects(g) ==
    /\ conn[g] # None
    /\ conn' = [conn EXCEPT ![g] = None]
    /\ UNCHANGED <<shareServer, shareVars, stage, shut, listening, act, guestVars, peerVars, endVars, pubs, discarded>>

Asks(g, what) ==
    /\ conn[g] # None /\ ask[g] = "idle"
    /\ ask' = [ask EXCEPT ![g] = what]
    /\ UNCHANGED <<shareServer, shareVars, netVars, act, got, peerVars, endVars, pubs, discarded>>

\* downloadPayload: a copy of the package and its feed, in one section.
CopiesShare(g) ==
    /\ ask[g] \in {"package", "configPayload"}
    /\ got' = [got EXCEPT ![g] = [payload |-> sharePayload, feed |-> shareFeed]]
    /\ ask' = [ask EXCEPT ![g] = IF ask[g] = "configPayload" /\ sharePayload = 0
                                   THEN "idle" ELSE "answer"]
    /\ UNCHANGED <<shareServer, shareVars, netVars, act, peerVars, endVars, pubs, discarded>>

\* /download/configuration looks for published settings, in a section of its
\* own; without them the desk's own settings are exported.
ReadsConfig(g) ==
    /\ ask[g] = "config"
    /\ ask' = [ask EXCEPT ![g] = IF shareConfig # 0 THEN "configPayload" ELSE "answer"]
    /\ UNCHANGED <<shareServer, shareVars, netVars, act, got, peerVars, endVars, pubs, discarded>>

\* Mutant: every peer is noted.
RoomForAll(ip) == TRUE

\* Room for a new peer, those not seen for long being dropped.
Room(ip) == Cardinality(sharePeers \ aged) < MaxPeers \/ ip \in sharePeers \ aged

\* serveFeed: the feed is signed, then the peer is noted, in a new list if a
\* stop came between.
NotesPeer(g, ip) ==
    /\ ask[g] = "feed"
    /\ sharePeers' = (sharePeers \ aged) \cup {p \in {ip} : Room(ip)}
    /\ aged' = {}
    /\ ask' = [ask EXCEPT ![g] = "answer"]
    /\ UNCHANGED <<shareServer, shareVars, netVars, act, got, endVars, pubs, discarded>>

\* The answer is written, if somebody still reads it; an error is an answer too.
Answers(g) ==
    /\ ask[g] # "idle"
    /\ ask' = [ask EXCEPT ![g] = "idle"]
    /\ got' = [got EXCEPT ![g] = Nothing]
    /\ UNCHANGED <<shareServer, shareVars, netVars, act, peerVars, endVars, pubs, discarded>>

PeerAges(ip) ==
    /\ ip \in sharePeers \ aged
    /\ aged' = aged \cup {ip}
    /\ UNCHANGED <<shareServer, shareVars, netVars, act, guestVars, sharePeers, endVars, pubs, discarded>>

----------------------------------------------------------------------------
ActionStep ==
    \/ \E what \in {"prepare", "publish", "stop", "restart", "start"} : ActionBegins(what)
    \/ PrepareFails \/ Prepare \/ StopAction \/ StartAction

ServeStep(s) == ServeBegins(s) \/ ServeEnds(s) \/ ServeCleared(s) \/ Collected(s)

GuestStep(g) ==
    \/ Connects(g) \/ Disconnects(g)
    \/ \E what \in {"feed", "package", "config"} : Asks(g, what)
    \/ CopiesShare(g) \/ ReadsConfig(g) \/ Answers(g)
    \/ \E ip \in Ip : NotesPeer(g, ip)

Next ==
    \/ ActionStep \/ Close \/ ShutdownReturns \/ ServeFails \/ CloseAgain \/ Exit
    \/ \E s \in Server : ServeStep(s)
    \/ \E g \in Guest : GuestStep(g)
    \/ \E ip \in Ip : PeerAges(ip)

Spec == Init /\ [][Next]_vars

\* The goroutines run: Serve begins, returns once its server is closed, and
\* the field is cleared.
Fairness ==
    \A s \in Server :
        /\ WF_vars(ServeBegins(s))
        /\ WF_vars(s \in shut /\ ServeEnds(s))
        /\ WF_vars(ServeCleared(s))

FairSpec == Spec /\ Fairness

----------------------------------------------------------------------------
(* Properties.                                                             *)

\* Serve of s has returned although nobody closed the server.
EndedAlone(s) == stage[s] \in {"ended", "gone"} /\ s \notin shut

(***************************************************************************)
(* Whoever takes connections or has guests is the server that the status   *)
(* shows and stop ends: the late goroutine of an earlier server never      *)
(* clears the field of its successor (sharing.go:46-53).  The exception is *)
(* a server whose Accept failed: its open connections live on.             *)
(***************************************************************************)
NoHiddenServer ==
    \A s \in Server :
        (stage[s] = "serving" /\ s \notin shut) \/ (\E g \in Guest : conn[g] = s)
            => shareServer = s \/ EndedAlone(s)

(***************************************************************************)
(* What a guest can still receive is one publication, package and feed     *)
(* together, and none that a stop has discarded since (verification.md:18, *)
(* "공유 중지 시 준비 데이터 폐기": a stop discards the prepared data).    *)
(***************************************************************************)
AnswersCurrent ==
    \A g \in Guest : ask[g] = "answer" /\ conn[g] # None /\ got[g] # Nothing =>
        /\ got[g].payload = got[g].feed
        /\ got[g].payload > discarded \/ EndedAlone(conn[g])

(***************************************************************************)
(* After the deferred Close nothing is shared and no package is in memory, *)
(* also when a request has started sharing after the first Close, as long  *)
(* as Shutdown has waited for the handlers (main.go:136-142).  One that    *)
(* outlives its five seconds, or a failure of the management server, may   *)
(* share again until the process ends.                                     *)
(***************************************************************************)
ClosedForGood ==
    phase = "closed" /\ ~atWork =>
        /\ shareServer = None /\ sharePayload = 0
        /\ \A s \in listening : s \in shut

(***************************************************************************)
(* The list of peers stays within its limit through requests in flight,    *)
(* expiry and stops (team_sync.go:134-144).                                *)
(***************************************************************************)
PeersBounded == Cardinality(sharePeers) <= MaxPeers

(***************************************************************************)
(* "enabled" is not shown for ever of a server that does not serve, and a  *)
(* stop frees the port in the end, also when it came before Serve.         *)
(***************************************************************************)
ServersSettle ==
    \A s \in Server :
        /\ shareServer = s ~> shareServer # s \/ stage[s] = "serving"
        /\ s \in shut ~> s \notin listening
=============================================================================
