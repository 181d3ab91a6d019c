-------------------------------- MODULE Desk --------------------------------
(***************************************************************************)
(* The handlers of one desk (src/internal/web/server.go, tunnel_links.go,  *)
(* backup.go, and the update of a poll in team_sync.go) on top of the      *)
(* store and the tunnel manager: tunnels run with the settings they were   *)
(* started with while requests and polls change what is saved.             *)
(*                                                                         *)
(* All of them but the stop of a tunnel hold Server.ops.  A request with a *)
(* body takes ops first and reads the body under it, however long the      *)
(* browser takes.  An update then looks at the tunnel manager and computes *)
(* the new settings (one action), and commits them later (another); a      *)
(* start holds ops while it connects.  The manager appears as              *)
(* TunnelLifecycle, which TunnelManager implements, with the settings of   *)
(* each registered entry.  A request without a body that is refused at     *)
(* once is left out.                                                       *)
(***************************************************************************)
EXTENDS DeskState

CONSTANTS
    InitSaved,  \* the settings at first
    Feeds,      \* settings that the master of a subscription may send
    Backups,    \* settings in backup files
    Managed,    \* the items the subscription manages
    Request     \* handler goroutines, and the poll

ASSUME DeskAssumption ==
    /\ InitSaved \in Settings /\ Validate(InitSaved)
    /\ Feeds \subseteq Settings /\ Backups \subseteq Settings
    /\ Managed \subseteq Item
    /\ None \notin Request

VARIABLES
    saved,    \* the settings in the database
    used,     \* record ids that database.ID() has given out
    closed,   \* Manager.closed
    status,   \* what Manager.Statuses shows
    config,   \* the settings of the registered entries
    ops,      \* who holds Server.ops
    pc,       \* where a request is
    new,      \* the settings that an update has computed
    tunnel,   \* the tunnel that a start or openService has read
    service,  \* the service openService was asked for, None in a start
    url       \* its URL, as read: the port

storeVars == <<saved, used>>
managerVars == <<closed, status, config>>
requestVars == <<ops, pc, new, tunnel, service, url>>
vars == <<storeVars, managerVars, requestVars>>

Manager == INSTANCE TunnelLifecycle WITH Id <- TunnelId

Busy == {"connecting", "reconnecting"}
ActiveState == Busy \cup {"running"}
Active(t) == status[t] \in ActiveState

\* What a request knows of a tunnel: its id and its record.
TunnelRef == [id : TunnelId, rec : TunnelRec]

TypeOK ==
    /\ saved \in Settings
    /\ used \subseteq Item
    /\ closed \in BOOLEAN
    /\ status \in [TunnelId -> ActiveState \cup {"absent", "stopped", "error"}]
    /\ config \in [TunnelId -> TunnelRec \cup {None}]
    /\ ops \in Request \cup {None}
    /\ pc \in [Request -> {"idle", "body", "commit", "sync", "start", "connect", "ready",
                          "open"}]
    /\ new \in [Request -> Settings]
    /\ tunnel \in [Request -> TunnelRef \cup {None}]
    /\ service \in [Request -> ServiceId \cup {None}]
    /\ url \in [Request -> Port \cup {None}]
    /\ \A r \in Request : ops = r <=> pc[r] # "idle"

Init ==
    /\ saved = InitSaved
    /\ used = Present(InitSaved)
    /\ Manager!Init
    /\ config = [t \in TunnelId |-> None]
    /\ ops = None
    /\ pc = [r \in Request |-> "idle"]
    /\ new = [r \in Request |-> Empty]
    /\ tunnel = [r \in Request |-> None]
    /\ service = [r \in Request |-> None]
    /\ url = [r \in Request |-> None]

----------------------------------------------------------------------------
(* ops.                                                                    *)

\* Mutant: the lock does not exclude anybody.
OpsFreeAlways == TRUE

OpsFree == ops = None

\* A request takes ops and goes to a first step.
Takes(r, step) ==
    /\ pc[r] = "idle"
    /\ OpsFree
    /\ ops' = r
    /\ pc' = [pc EXCEPT ![r] = step]

\* The deferred unlock: the request is over.
Leaves(r) ==
    /\ ops' = IF ops = r THEN None ELSE ops
    /\ pc' = [pc EXCEPT ![r] = "idle"]
    /\ new' = [new EXCEPT ![r] = Empty]
    /\ tunnel' = [tunnel EXCEPT ![r] = None]
    /\ service' = [service EXCEPT ![r] = None]
    /\ url' = [url EXCEPT ![r] = None]

----------------------------------------------------------------------------
(* Updates: save, delete, importBackup, and the update of a poll.          *)

\* save or importBackup has ops and waits for the body of its request, save
\* inside Store.Update.
AwaitsBody(r) ==
    /\ Takes(r, "body")
    /\ UNCHANGED <<storeVars, managerVars, new, tunnel, service, url>>

\* The body is there.
Decodes(r) ==
    /\ pc[r] = "body"
    /\ pc' = [pc EXCEPT ![r] = "commit"]
    /\ UNCHANGED ops

\* It breaks off, or it cannot be decoded, or its request is refused.
BodyFails(r) ==
    /\ pc[r] = "body"
    /\ Leaves(r)
    /\ UNCHANGED <<storeVars, managerVars>>

\* The update has computed valid settings.
Computes(r, s) ==
    /\ Validate(s)
    /\ new' = [new EXCEPT ![r] = s]
    /\ UNCHANGED <<saved, managerVars, tunnel, service, url>>

Known(i) == saved[i] # None \/ i \notin used

\* Mutant: an active tunnel may be edited.
MayEditAnyway(t) == TRUE

\* save and delete refuse an active tunnel.
MayEdit(t) == ~Active(t)

\* A tunnel is saved, with or without its web links.
SaveTunnel(r) ==
    /\ Decodes(r)
    /\ \E t \in TunnelId, v \in TunnelRec :
           /\ Known(t)
           /\ MayEdit(t)
           /\ \/ /\ Computes(r, Put(saved, t, v))
                 /\ used' = used \cup {t}
              \/ \E links \in SUBSET ServiceId :
                    /\ \A i \in links : \/ i \notin used
                                        \/ saved[i] # None /\ saved[i].tunnel = t
                    /\ Computes(r, PutTunnel(saved, t, v, links))
                    /\ used' = used \cup {t} \cup links

\* A service is saved, alone or with a new tunnel.
SaveService(r) ==
    /\ Decodes(r)
    /\ \E i \in ServiceId, v \in ServiceRec :
           /\ Known(i)
           /\ \/ /\ Computes(r, Put(saved, i, v))
                 /\ used' = used \cup {i}
              \/ \E h \in HostId :
                    /\ v.tunnel \notin used
                    /\ Computes(r, Put(Put(saved, i, v), v.tunnel,
                                       [host |-> h, port |-> v.port]))
                    /\ used' = used \cup {i, v.tunnel}

\* Mutant: an active tunnel may be deleted.
MayDeleteAnyway(i) == TRUE

MayDelete(i) == i \in TunnelId => ~Active(i)

Delete(r) ==
    /\ Takes(r, "commit")
    /\ \E i \in Present(saved) :
           /\ MayDelete(i)
           /\ Computes(r, Remove(saved, i))
           /\ UNCHANGED used

\* A backup of this or another desk is imported.
ImportBackup(r) ==
    /\ Decodes(r)
    /\ \E b \in Backups :
           /\ CanMerge(saved, b)
           /\ Computes(r, Overlay(saved, b))
           /\ used' = used \cup Present(b)

\* A poll applies a feed, whether its tunnels are active or not.
Sync(r) ==
    /\ Takes(r, "sync")
    /\ \E f \in Feeds :
           /\ CanApply(saved, Managed, f)
           /\ Computes(r, Applied(saved, Managed, f))
           /\ used' = used \cup Present(f)

\* The transaction is committed.
Commits(r) ==
    /\ pc[r] \in {"commit", "sync"}
    /\ saved' = new[r]
    /\ Leaves(r)
    /\ UNCHANGED <<used, managerVars>>

\* The database cannot be written: the transaction is rolled back.
CommitFails(r) ==
    /\ pc[r] \in {"commit", "sync"}
    /\ Leaves(r)
    /\ UNCHANGED <<storeVars, managerVars>>

----------------------------------------------------------------------------
(* tunnelAction and openService.                                           *)

\* tunnelAction reads the tunnel to start.
StartTunnel(r) ==
    \E t \in TunnelId :
        /\ saved[t] # None
        /\ Takes(r, "start")
        /\ tunnel' = [tunnel EXCEPT ![r] = [id |-> t, rec |-> saved[t]]]
        /\ UNCHANGED <<storeVars, managerVars, new, service, url>>

\* Mutant: settings that have changed are not noticed.
ConfigChangedNever(t) == FALSE

\* The tunnel runs with other settings than the saved ones.
ConfigChanged(t) == Active(t) /\ config[t] # saved[t]

\* openService reads a service and its tunnel.
OpenService(r) ==
    \E v \in ServiceId :
        /\ saved[v] # None
        /\ ~ConfigChanged(saved[v].tunnel)
        /\ ServiceOK(saved, v)
        /\ Takes(r, "start")
        /\ tunnel' = [tunnel EXCEPT ![r] = [id |-> saved[v].tunnel,
                                            rec |-> saved[saved[v].tunnel]]]
        /\ service' = [service EXCEPT ![r] = v]
        /\ url' = [url EXCEPT ![r] = saved[v].port]
        /\ UNCHANGED <<storeVars, managerVars, new>>

\* Start has returned nil.
Started(r) ==
    IF service[r] = None
      THEN Leaves(r)
      ELSE /\ pc' = [pc EXCEPT ![r] = "ready"]
           /\ UNCHANGED <<ops, new, tunnel, service, url>>

\* The tunnel runs already.
StartRunning(r) ==
    /\ pc[r] = "start"
    /\ ~closed
    /\ status[tunnel[r].id] = "running"
    /\ Started(r)
    /\ UNCHANGED <<storeVars, managerVars>>

\* Start gives an error at once: shutdown, or a connection in progress.
StartRefused(r) ==
    /\ pc[r] = "start"
    /\ closed \/ status[tunnel[r].id] \in Busy
    /\ Leaves(r)
    /\ UNCHANGED <<storeVars, managerVars>>

PortFree(port) == \A t \in TunnelId : Active(t) => config[t].port # port

StartBinds(r) ==
    LET t == tunnel[r].id IN
    /\ pc[r] = "start"
    /\ PortFree(tunnel[r].rec.port)
    /\ Manager!Start(t) /\ status'[t] = "connecting"
    /\ config' = [config EXCEPT ![t] = tunnel[r].rec]
    /\ pc' = [pc EXCEPT ![r] = "connect"]
    /\ UNCHANGED <<storeVars, ops, new, tunnel, service, url>>

StartBindFails(r) ==
    LET t == tunnel[r].id IN
    /\ pc[r] = "start"
    /\ Manager!Start(t) /\ status'[t] = "error"
    /\ config' = [config EXCEPT ![t] = None]
    /\ Leaves(r)
    /\ UNCHANGED storeVars

\* Start connects, fails to, or notices that it was stopped.
StartConnects(r) ==
    /\ pc[r] = "connect"
    /\ Manager!Connected(tunnel[r].id)
    /\ Started(r)
    /\ UNCHANGED <<storeVars, config>>

StartFails(r) ==
    /\ pc[r] = "connect"
    /\ Manager!Failed(tunnel[r].id)
    /\ Leaves(r)
    /\ UNCHANGED <<storeVars, config>>

\* Mutant: a stop during the connection is not noticed.
CancelledNever(r) == FALSE

Cancelled(r) == status[tunnel[r].id] = "stopped"

StartCancelled(r) ==
    /\ pc[r] = "connect"
    /\ Cancelled(r)
    /\ Leaves(r)
    /\ UNCHANGED <<storeVars, managerVars>>

\* Ready dials the remote end of a running tunnel.
ReadyOK(r) ==
    /\ pc[r] = "ready"
    /\ status[tunnel[r].id] = "running"
    /\ pc' = [pc EXCEPT ![r] = "open"]
    /\ UNCHANGED <<storeVars, managerVars, ops, new, tunnel, service, url>>

ReadyFails(r) ==
    /\ pc[r] = "ready"
    /\ Leaves(r)
    /\ UNCHANGED <<storeVars, managerVars>>

\* The browser is told to open the URL.
OpenURL(r) ==
    /\ pc[r] = "open"
    /\ Leaves(r)
    /\ UNCHANGED <<storeVars, managerVars>>

----------------------------------------------------------------------------
(* What happens without ops.                                               *)

\* tunnelAction stops a tunnel at once; Close stops all of them.
Stop(t) ==
    /\ Manager!Stopped(t)
    /\ UNCHANGED <<storeVars, config, requestVars>>

\* The connection of a tunnel that was started is lost, redialled, given up.
Monitor(t) ==
    /\ \/ Manager!Lost(t) \/ Manager!Recovered(t)
       \/ status[t] = "reconnecting" /\ Manager!Failed(t)
    /\ UNCHANGED <<storeVars, config, requestVars>>

Close ==
    /\ Manager!Close
    /\ UNCHANGED <<storeVars, config, requestVars>>

----------------------------------------------------------------------------

Update(r) == SaveTunnel(r) \/ SaveService(r) \/ Delete(r) \/ ImportBackup(r) \/ Sync(r)

\* What a request does once it has ops and its body.
Proceeds(r) ==
    \/ Commits(r) \/ CommitFails(r) \/ StartRunning(r) \/ StartRefused(r) \/ StartBinds(r)
    \/ StartBindFails(r) \/ StartConnects(r) \/ StartFails(r) \/ StartCancelled(r)
    \/ ReadyOK(r) \/ ReadyFails(r) \/ OpenURL(r)

Next ==
    \/ \E r \in Request : \/ AwaitsBody(r) \/ BodyFails(r) \/ Update(r)
                          \/ StartTunnel(r) \/ OpenService(r) \/ Proceeds(r)
    \/ \E t \in TunnelId : Stop(t) \/ Monitor(t)
    \/ Close

Spec == Init /\ [][Next]_vars

\* Handlers run on; connecting and Ready have timeouts (45 s, 15 s).  Nobody owes
\* a handler its body: the management server has no ReadTimeout.
FairSpec == Spec /\ \A r \in Request : WF_vars(Proceeds(r))

----------------------------------------------------------------------------
(* Properties.                                                             *)

(***************************************************************************)
(* An active tunnel is in the database, where its user can find and stop   *)
(* it: no delete slips in between the look at its status and the commit,   *)
(* no start after the look at the database (delete, tunnelAction).         *)
(***************************************************************************)
ActiveIsSaved == \A t \in TunnelId : Active(t) => saved[t] # None

(***************************************************************************)
(* Only a sync changes the saved settings of a tunnel that is active       *)
(* ("Stop before you edit", save): ConfigChanged reports nothing else.     *)
(***************************************************************************)
OnlySyncEditsActive ==
    [][\A t \in TunnelId : Active(t) /\ saved'[t] # saved[t] =>
          \E r \in Request : pc[r] = "sync" /\ Commits(r)]_vars

(***************************************************************************)
(* When openService is about to open a URL, the URL is still the saved one *)
(* of the service and its port the one on which the manager has the tunnel *)
(* registered: not the port of settings that a sync has changed since.     *)
(***************************************************************************)
OpensRegisteredPort ==
    \A r \in Request : pc[r] = "open" =>
        /\ saved[service[r]] # None
        /\ saved[service[r]].port = url[r]
        /\ config[tunnel[r].id].port = url[r]

(***************************************************************************)
(* Once the body of its request is there, a handler gives ops back,        *)
(* whatever is stopped while it connects (save, tunnelAction,              *)
(* openService): other requests get their turn.  A browser that never      *)
(* sends the rest of a body keeps ops for as long as it stays connected.   *)
(***************************************************************************)
OpsReleased ==
    \A r \in Request : ops = r /\ pc[r] # "body" ~> ops # r
=============================================================================
