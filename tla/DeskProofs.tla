----------------------------- MODULE DeskProofs -----------------------------
(***************************************************************************)
(* Proofs about Desk, for any settings, feeds, backups and requests.       *)
(*                                                                         *)
(* None of the properties is inductive: each of them holds because of what *)
(* the holder of ops may rely on between its first look and its last step. *)
(* UpdateInv says it of the settings an update has computed, StartInv of   *)
(* the tunnel and the service that a start has read.                       *)
(***************************************************************************)
EXTENDS Desk, DeskStateProofs

\* Where a request can be.
Step == {"idle", "body", "commit", "sync", "start", "connect", "ready", "open"}

\* The settings of s for the active tunnels, whose ids are used.
TunnelsUsed(s) == \A t \in TunnelId : s[t] # None => t \in used

\* What an update has computed is valid, has every active tunnel, and unless
\* it is a sync has it unchanged.
UpdateInv ==
    \A r \in Request : pc[r] \in {"commit", "sync"} =>
        /\ Validate(new[r])
        /\ TunnelsUsed(new[r])
        /\ \A t \in TunnelId : Active(t) =>
              new[r][t] # None /\ (pc[r] = "commit" => new[r][t] = saved[t])

\* What a start has read is still saved, and the manager has it registered
\* once the tunnel is known to run; so has openService before, if it is active.
StartInv ==
    \A r \in Request : pc[r] \in {"start", "connect", "ready", "open"} =>
        /\ tunnel[r] \in TunnelRef
        /\ saved[tunnel[r].id] = tunnel[r].rec
        /\ service[r] # None =>
              /\ saved[service[r]] # None
              /\ saved[service[r]].port = url[r]
              /\ tunnel[r].rec.port = url[r]
        /\ pc[r] = "start" /\ service[r] # None /\ Active(tunnel[r].id) =>
              config[tunnel[r].id] = tunnel[r].rec
        /\ pc[r] # "start" => config[tunnel[r].id] = tunnel[r].rec
        /\ pc[r] \in {"ready", "open"} => service[r] # None

\* A request that is over has forgotten its service.
IdleInv == \A r \in Request : pc[r] = "idle" => service[r] = None

Inv ==
    /\ TypeOK
    /\ IdleInv
    /\ Validate(saved)
    /\ TunnelsUsed(saved)
    /\ ActiveIsSaved
    /\ UpdateInv
    /\ StartInv

----------------------------------------------------------------------------
(* What the steps leave alone.                                             *)

\* A request that leaves ops frees its locals and nothing else.
LEMMA LeavesTyped ==
    ASSUME TypeOK, NEW r \in Request, pc[r] # "idle", Leaves(r)
    PROVE  /\ ops' = None /\ \A q \in Request : pc'[q] = "idle"
           /\ pc' \in [Request -> Step]
           /\ new' \in [Request -> Settings]
           /\ tunnel' \in [Request -> TunnelRef \cup {None}]
           /\ service' \in [Request -> ServiceId \cup {None}]
           /\ url' \in [Request -> Port \cup {None}]
<1>1. ops = r /\ \A q \in Request : q # r => pc[q] = "idle"
  BY DEF TypeOK
<1> QED
  BY <1>1, EmptySettings DEF Leaves, TypeOK, Step

\* After that only the state of the desk matters.
LEMMA LeavesInv ==
    ASSUME Inv, NEW r \in Request, pc[r] # "idle", Leaves(r), used' = used,
           saved' \in Settings, Validate(saved'), TunnelsUsed(saved'), closed' \in BOOLEAN,
           status' \in [TunnelId -> ActiveState \cup {"absent", "stopped", "error"}],
           config' \in [TunnelId -> TunnelRec \cup {None}],
           \A t \in TunnelId : Active(t)' => saved'[t] # None
    PROVE  Inv'
<1>1. TypeOK
  BY DEF Inv
<1>2. TypeOK'
  BY <1>1, LeavesTyped, DeskAssumption DEF TypeOK, Step
<1>3. UpdateInv' /\ StartInv'
  BY <1>1, LeavesTyped DEF UpdateInv, StartInv
<1>4. TunnelsUsed(saved)'
  BY DEF TunnelsUsed
<1>5. IdleInv'
  BY <1>1 DEF Inv, IdleInv, TypeOK, Leaves
<1> QED
  BY <1>2, <1>3, <1>4, <1>5 DEF Inv, ActiveIsSaved

\* A step of the manager without a request: no tunnel becomes active.
LEMMA ManagerInv ==
    ASSUME Inv, UNCHANGED <<storeVars, config, requestVars>>, closed' \in BOOLEAN,
           status' \in [TunnelId -> ActiveState \cup {"absent", "stopped", "error"}],
           \A t \in TunnelId : Active(t)' => Active(t)
    PROVE  Inv'
<1> USE DEF storeVars, requestVars
<1>1. TypeOK'
  BY DEF Inv, TypeOK
<1>2. UpdateInv'
  BY DEF Inv, UpdateInv, TunnelsUsed
<1>3. StartInv'
  BY DEF Inv, StartInv, TunnelRef
<1> QED
  BY <1>1, <1>2, <1>3 DEF Inv, ActiveIsSaved, TunnelsUsed, IdleInv

----------------------------------------------------------------------------
(* Updates.                                                                *)

\* Settings that an update may commit, a sync or another one.
Harmless(s, step) ==
    /\ s \in Settings
    /\ \A t \in TunnelId : s[t] # None => t \in used'
    /\ \A t \in TunnelId : Active(t) =>
          s[t] # None /\ (step = "commit" => s[t] = saved[t])

\* save of a tunnel computes harmless settings.
LEMMA SaveTunnelHarmless ==
    ASSUME Inv, NEW r \in Request, SaveTunnel(r)
    PROVE  /\ used \subseteq used' /\ used' \subseteq Item
           /\ \E s : Computes(r, s) /\ Harmless(s, "commit")
<1>1. saved \in Settings /\ used \subseteq Item /\ TunnelsUsed(saved) /\ ActiveIsSaved
  BY DEF Inv, TypeOK
<1>2. PICK t \in TunnelId, v \in TunnelRec :
        /\ MayEdit(t)
        /\ \/ /\ Computes(r, Put(saved, t, v))
              /\ used' = used \cup {t}
           \/ \E links \in SUBSET ServiceId :
                 /\ Computes(r, PutTunnel(saved, t, v, links))
                 /\ used' = used \cup {t} \cup links
  BY DEF SaveTunnel
<1>3. saved = [i \in Item |-> saved[i]] /\ v # None
  BY <1>1, SettingsElim, NotNone
<1>4. CASE /\ Computes(r, Put(saved, t, v))
           /\ used' = used \cup {t}
  <2>1. Put(saved, t, v) \in Settings
    BY <1>1, PutSettings
  <2>2. \A u \in TunnelId : Put(saved, t, v)[u] = IF u = t THEN v ELSE saved[u]
    BY <1>3 DEF Put, Item
  <2>3. Harmless(Put(saved, t, v), "commit")
    BY <1>1, <1>2, <1>4, <2>1, <2>2 DEF Harmless, MayEdit, ActiveIsSaved, TunnelsUsed
  <2> QED
    BY <1>1, <1>4, <2>3 DEF Item
<1>5. ASSUME NEW links \in SUBSET ServiceId,
             Computes(r, PutTunnel(saved, t, v, links)),
             used' = used \cup {t} \cup links
      PROVE  /\ used \subseteq used' /\ used' \subseteq Item
             /\ \E s : Computes(r, s) /\ Harmless(s, "commit")
  <2>1. PutTunnel(saved, t, v, links) \in Settings
    BY <1>1, PutTunnelSettings
  <2>2. \A u \in TunnelId :
            PutTunnel(saved, t, v, links)[u] = IF u = t THEN v ELSE saved[u]
    BY Kinds DEF PutTunnel, Item
  <2>3. Harmless(PutTunnel(saved, t, v, links), "commit")
    BY <1>1, <1>2, <1>5, <2>1, <2>2 DEF Harmless, MayEdit, ActiveIsSaved, TunnelsUsed
  <2> QED
    BY <1>1, <1>5, <2>3 DEF Item
<1> QED
  BY <1>2, <1>4, <1>5

\* save of a service computes harmless settings: a new tunnel is not active.
LEMMA SaveServiceHarmless ==
    ASSUME Inv, NEW r \in Request, SaveService(r)
    PROVE  /\ used \subseteq used' /\ used' \subseteq Item
           /\ \E s : Computes(r, s) /\ Harmless(s, "commit")
<1>1. saved \in Settings /\ used \subseteq Item /\ TunnelsUsed(saved) /\ ActiveIsSaved
  BY DEF Inv, TypeOK
<1>2. PICK i \in ServiceId, v \in ServiceRec :
        \/ Computes(r, Put(saved, i, v)) /\ used' = used \cup {i}
        \/ \E h \in HostId :
              /\ v.tunnel \notin used
              /\ Computes(r, Put(Put(saved, i, v), v.tunnel,
                                 [host |-> h, port |-> v.port]))
              /\ used' = used \cup {i, v.tunnel}
  BY DEF SaveService
<1>3. v.tunnel \in TunnelId /\ v.port \in Port
  BY DEF ServiceRec
<1>4. Put(saved, i, v) \in Settings
  BY <1>1, PutSettings
<1>5. \A u \in TunnelId : Put(saved, i, v)[u] = saved[u]
  <2>1. saved = [j \in Item |-> saved[j]]
    BY <1>1, SettingsElim
  <2> QED
    BY <2>1, Kinds DEF Put, Item
<1>6. CASE Computes(r, Put(saved, i, v)) /\ used' = used \cup {i}
  <2>1. Harmless(Put(saved, i, v), "commit")
    BY <1>1, <1>4, <1>5, <1>6 DEF Harmless, ActiveIsSaved, TunnelsUsed
  <2> QED
    BY <1>1, <1>6, <2>1 DEF Item
<1>7. ASSUME NEW h \in HostId, v.tunnel \notin used,
             Computes(r, Put(Put(saved, i, v), v.tunnel,
                             [host |-> h, port |-> v.port])),
             used' = used \cup {i, v.tunnel}
      PROVE  /\ used \subseteq used' /\ used' \subseteq Item
             /\ \E s : Computes(r, s) /\ Harmless(s, "commit")
  <2> DEFINE p == Put(saved, i, v)
             w == [host |-> h, port |-> v.port]
             s == Put(p, v.tunnel, w)
  <2>1. w \in TunnelRec
    BY <1>3 DEF TunnelRec
  <2>2. p = [j \in Item |-> p[j]]
    BY <1>4, SettingsElim
  <2>3. s \in Settings
    BY <1>3, <1>4, <2>1, PutSettings
  <2>4. Computes(r, s)
    BY <1>7
  <2>5. \A u \in TunnelId : s[u] = IF u = v.tunnel THEN w ELSE saved[u]
    <3> HIDE DEF p, w
    <3>1. \A u \in TunnelId : s[u] = IF u = v.tunnel THEN w ELSE p[u]
      BY <2>2 DEF Put, Item
    <3> QED
      BY <1>5, <3>1 DEF p
  <2>6. ~Active(v.tunnel)
    BY <1>1, <1>3, <1>7 DEF ActiveIsSaved, TunnelsUsed
  <2> HIDE DEF s, w, p
  <2>7. Harmless(s, "commit")
    BY <1>1, <1>7, <2>3, <2>5, <2>6 DEF Harmless, ActiveIsSaved, TunnelsUsed
  <2> QED
    BY <1>1, <1>3, <1>7, <2>4, <2>7 DEF Item
<1> QED
  BY <1>2, <1>6, <1>7

\* So does delete, which refuses active tunnels.
LEMMA DeleteHarmless ==
    ASSUME Inv, NEW r \in Request, Delete(r)
    PROVE  used' = used /\ \E s : Computes(r, s) /\ Harmless(s, "commit")
<1>1. saved \in Settings /\ TunnelsUsed(saved) /\ ActiveIsSaved
  BY DEF Inv, TypeOK
<1>2. PICK i \in Present(saved) :
        MayDelete(i) /\ Computes(r, Remove(saved, i)) /\ used' = used
  BY DEF Delete
<1>3. Remove(saved, i) \in Settings
  BY <1>1, RemoveSettings
<1>4. \A u \in TunnelId : Remove(saved, i)[u] = IF u = i THEN None ELSE saved[u]
  BY Kinds DEF Remove, Item
<1>5. Harmless(Remove(saved, i), "commit")
  BY <1>1, <1>2, <1>3, <1>4 DEF Harmless, MayDelete, ActiveIsSaved, TunnelsUsed
<1> QED
  BY <1>2, <1>5

\* So does the import of a backup, which refuses other records of the same id.
LEMMA ImportHarmless ==
    ASSUME Inv, NEW r \in Request, ImportBackup(r)
    PROVE  /\ used \subseteq used' /\ used' \subseteq Item
           /\ \E s : Computes(r, s) /\ Harmless(s, "commit")
<1>1. saved \in Settings /\ used \subseteq Item /\ TunnelsUsed(saved) /\ ActiveIsSaved
  BY DEF Inv, TypeOK
<1>2. PICK b \in Backups :
        /\ CanMerge(saved, b) /\ Computes(r, Overlay(saved, b))
        /\ used' = used \cup Present(b)
  BY DEF ImportBackup
<1>3. b \in Settings /\ Overlay(saved, b) \in Settings
  BY <1>1, OverlaySettings, DeskAssumption
<1>4. \A u \in TunnelId : Overlay(saved, b)[u] = IF b[u] # None THEN b[u] ELSE saved[u]
  BY DEF Overlay, Item
<1>5. \A u \in TunnelId : saved[u] # None => Overlay(saved, b)[u] = saved[u]
  BY <1>2, <1>4 DEF CanMerge, Item
<1>6. \A u \in TunnelId : Overlay(saved, b)[u] # None => u \in used'
  BY <1>1, <1>2, <1>4 DEF TunnelsUsed, Present, Item
<1>7. Harmless(Overlay(saved, b), "commit")
  BY <1>1, <1>3, <1>5, <1>6 DEF Harmless, ActiveIsSaved
<1> QED
  BY <1>1, <1>2, <1>7 DEF Present

\* A sync removes no tunnel.
LEMMA SyncHarmless ==
    ASSUME Inv, NEW r \in Request, Sync(r)
    PROVE  /\ used \subseteq used' /\ used' \subseteq Item
           /\ \E s : Computes(r, s) /\ Harmless(s, "sync")
<1>1. /\ saved \in Settings /\ used \subseteq Item /\ TunnelsUsed(saved)
      /\ ActiveIsSaved /\ LinksBound(saved)
  BY ValidLinks DEF Inv, TypeOK
<1>2. PICK f \in Feeds :
        /\ CanApply(saved, Managed, f)
        /\ Computes(r, Applied(saved, Managed, f))
        /\ used' = used \cup Present(f)
  BY DEF Sync
<1> DEFINE a == Applied(saved, Managed, f)
           o == Overlay(saved, WithLocalKeys(saved, f))
<1>3. f \in Settings
  BY DeskAssumption
<1>4. a \in Settings
  BY <1>1, <1>2, <1>3, AppliedSettings DEF CanApply
<1>5. \A t \in TunnelId : saved[t] # None => a[t] # None
  BY <1>1, <1>3, AppliedKeeps DEF Item
<1>6. \A t \in TunnelId : a[t] = o[t]
  BY <1>1, <1>3, AppliedValue, Kinds DEF Item
<1>7. \A t \in TunnelId : o[t] = IF f[t] # None THEN f[t] ELSE saved[t]
  BY Kinds DEF Overlay, WithLocalKeys, Item
<1> HIDE DEF a, o
<1>8. \A t \in TunnelId : a[t] # None => t \in used'
  BY <1>1, <1>2, <1>6, <1>7 DEF TunnelsUsed, Present, Item
<1>9. Harmless(a, "sync")
  BY <1>1, <1>4, <1>5, <1>8 DEF Harmless, ActiveIsSaved
<1> QED
  BY <1>1, <1>2, <1>9 DEF Present, a

\* A request that takes ops, or has read its body, is the only one under way.
LEMMA TakesAlone ==
    ASSUME TypeOK, NEW r \in Request, NEW step \in {"body", "commit", "sync", "start"},
           Takes(r, step) \/ (Decodes(r) /\ step = "commit")
    PROVE  /\ \A q \in Request : pc'[q] = IF q = r THEN step ELSE "idle"
           /\ pc' \in [Request -> Step]
           /\ ops' = r
           /\ \A q \in Request : q # r => pc[q] = "idle"
<1> USE DEF Step
<1>1. CASE Takes(r, step)
  <2>1. ops = None /\ \A q \in Request : pc[q] = "idle"
    BY <1>1, DeskAssumption DEF Takes, OpsFree, TypeOK
  <2> QED
    BY <1>1, <2>1 DEF Takes, TypeOK
<1>2. CASE Decodes(r) /\ step = "commit"
  <2>1. ops = r /\ \A q \in Request : q # r => pc[q] = "idle"
    BY <1>2 DEF Decodes, TypeOK
  <2> QED
    BY <1>2, <2>1 DEF Decodes, TypeOK
<1> QED
  BY <1>1, <1>2

\* A request that waits for its body relies on nothing.
LEMMA AwaitsInv ==
    ASSUME Inv, NEW r \in Request, AwaitsBody(r)
    PROVE  Inv'
<1> USE DEF storeVars, managerVars
<1>1. /\ TypeOK /\ Takes(r, "body")
      /\ UNCHANGED <<storeVars, managerVars, new, tunnel, service, url>>
  BY DEF Inv, AwaitsBody
<1>2. /\ \A q \in Request : pc'[q] = IF q = r THEN "body" ELSE "idle"
      /\ pc' \in [Request -> Step]
      /\ ops' = r /\ \A q \in Request : q # r => pc[q] = "idle"
  BY <1>1, TakesAlone
<1>3. TypeOK'
  BY <1>1, <1>2 DEF TypeOK, Step
<1>4. UpdateInv' /\ StartInv' /\ IdleInv'
  BY <1>1, <1>2 DEF Inv, UpdateInv, StartInv, IdleInv
<1> QED
  BY <1>1, <1>3, <1>4 DEF Inv, ActiveIsSaved, TunnelsUsed, Active

\* An update that has computed harmless settings keeps the invariant.
LEMMA ComputesInv ==
    ASSUME Inv, NEW r \in Request, NEW s, NEW step \in {"commit", "sync"},
           Takes(r, step) \/ (Decodes(r) /\ step = "commit"), Computes(r, s),
           Harmless(s, step), used \subseteq used', used' \subseteq Item
    PROVE  Inv'
<1> USE DEF managerVars
<1>1. /\ TypeOK /\ Validate(s)
      /\ new' = [new EXCEPT ![r] = s] /\ s \in Settings
      /\ UNCHANGED <<saved, managerVars, tunnel, service, url>>
  BY DEF Inv, Computes, Harmless
<1>2. /\ \A q \in Request : pc'[q] = IF q = r THEN step ELSE "idle"
      /\ pc' \in [Request -> Step]
      /\ ops' = r /\ \A q \in Request : q # r => pc[q] = "idle"
  BY <1>1, TakesAlone
<1>3. new' \in [Request -> Settings] /\ new'[r] = s
  BY <1>1 DEF TypeOK
<1>4. TypeOK'
  BY <1>1, <1>2, <1>3 DEF TypeOK, Step
<1>5. UpdateInv'
  BY <1>1, <1>2, <1>3 DEF UpdateInv, Harmless, Active, TunnelsUsed
<1>6. StartInv'
  BY <1>2 DEF StartInv
<1>7. ActiveIsSaved' /\ TunnelsUsed(saved)' /\ Validate(saved)'
  BY <1>1 DEF Inv, ActiveIsSaved, TunnelsUsed, Active
<1>8. IdleInv'
  BY <1>1, <1>2 DEF Inv, IdleInv
<1> QED
  BY <1>4, <1>5, <1>6, <1>7, <1>8 DEF Inv

\* The commit puts harmless settings in force.
LEMMA CommitsInv ==
    ASSUME Inv, NEW r \in Request, Commits(r)
    PROVE  Inv'
<1> USE DEF managerVars
<1>1. /\ pc[r] \in {"commit", "sync"} /\ saved' = new[r] /\ Leaves(r)
      /\ UNCHANGED <<used, closed, status, config>>
  BY DEF Commits
<1>2. /\ new[r] \in Settings /\ Validate(new[r]) /\ TunnelsUsed(new[r])
      /\ \A t \in TunnelId : Active(t) => new[r][t] # None
  BY <1>1 DEF Inv, UpdateInv, TypeOK
<1>3. TypeOK
  BY DEF Inv
<1>4. /\ saved' \in Settings /\ Validate(saved') /\ TunnelsUsed(saved')
      /\ \A t \in TunnelId : Active(t)' => saved'[t] # None
  BY <1>1, <1>2 DEF Active
<1>5. /\ closed' \in BOOLEAN
      /\ status' \in [TunnelId -> ActiveState \cup {"absent", "stopped", "error"}]
      /\ config' \in [TunnelId -> TunnelRec \cup {None}]
  BY <1>1, <1>3 DEF TypeOK
<1> QED
  BY <1>1, <1>4, <1>5, LeavesInv

----------------------------------------------------------------------------
(* Starts.                                                                 *)

\* What tunnelAction and openService read is what is saved.
LEMMA ReadsInv ==
    ASSUME Inv, NEW r \in Request, StartTunnel(r) \/ OpenService(r)
    PROVE  Inv'
<1> USE DEF managerVars, storeVars
<1>0. TypeOK /\ saved \in Settings /\ Validate(saved)
  BY DEF Inv, TypeOK
<1>1. CASE StartTunnel(r)
  <2>1. PICK t \in TunnelId :
          /\ saved[t] # None /\ Takes(r, "start")
          /\ tunnel' = [tunnel EXCEPT ![r] = [id |-> t, rec |-> saved[t]]]
          /\ UNCHANGED <<storeVars, managerVars, new, service, url>>
    BY <1>1 DEF StartTunnel
  <2>2. /\ \A q \in Request : pc'[q] = IF q = r THEN "start" ELSE "idle"
        /\ pc' \in [Request -> Step]
        /\ ops' = r
    BY <1>0, <2>1, TakesAlone
  <2>3. saved[t] \in TunnelRec
    BY <1>0, <2>1, SettingsElim
  <2>4. tunnel'[r] = [id |-> t, rec |-> saved[t]] /\ tunnel'[r] \in TunnelRef
    BY <1>0, <2>1, <2>3 DEF TypeOK, TunnelRef
  <2>5. \A q \in Request : service'[q] = None
    BY <1>0, <2>1, DeskAssumption DEF Inv, IdleInv, TypeOK, Takes, OpsFree
  <2>6. TypeOK'
    BY <1>0, <2>1, <2>2, <2>4 DEF TypeOK, Step
  <2>7. StartInv'
    BY <2>1, <2>2, <2>4, <2>5 DEF StartInv
  <2>8. UpdateInv'
    BY <2>2 DEF UpdateInv
  <2> QED
    BY <2>1, <2>5, <2>6, <2>7, <2>8 DEF Inv, ActiveIsSaved, TunnelsUsed, Active, IdleInv
<1>2. CASE OpenService(r)
  <2>1. PICK v \in ServiceId :
          /\ saved[v] # None /\ ~ConfigChanged(saved[v].tunnel) /\ ServiceOK(saved, v)
          /\ Takes(r, "start")
          /\ tunnel' = [tunnel EXCEPT ![r] = [id |-> saved[v].tunnel,
                                              rec |-> saved[saved[v].tunnel]]]
          /\ service' = [service EXCEPT ![r] = v]
          /\ url' = [url EXCEPT ![r] = saved[v].port]
          /\ UNCHANGED <<storeVars, managerVars, new>>
    BY <1>2 DEF OpenService
  <2>2. /\ \A q \in Request : pc'[q] = IF q = r THEN "start" ELSE "idle"
        /\ pc' \in [Request -> Step]
        /\ ops' = r
    BY <1>0, <2>1, TakesAlone
  <2> DEFINE t == saved[v].tunnel
  <2>3. t \in TunnelId /\ saved[v].port \in Port
    BY <1>0, <2>1, SettingsElim DEF ServiceRec
  <2>4. saved[t] \in TunnelRec /\ saved[v].port = saved[t].port
    BY <1>0, <2>1, <2>3, SettingsElim DEF ServiceOK
  <2>5. tunnel'[r] = [id |-> t, rec |-> saved[t]] /\ tunnel'[r] \in TunnelRef
    BY <1>0, <2>1, <2>3, <2>4 DEF TypeOK, TunnelRef
  <2>6. service'[r] = v /\ url'[r] = saved[v].port
    BY <1>0, <2>1 DEF TypeOK
  <2>7. TypeOK'
    BY <1>0, <2>1, <2>2, <2>3, <2>5 DEF TypeOK, Step
  <2>8. Active(t) => config[t] = saved[t]
    BY <2>1 DEF ConfigChanged
  <2>9. StartInv'
    <3>1. tunnel'[r].id = t /\ tunnel'[r].rec = saved[t]
      BY <2>5
    <3>2. Active(t)' = Active(t) /\ saved' = saved /\ config' = config
      BY <2>1 DEF Active
    <3> HIDE DEF t
    <3> QED
      BY <2>1, <2>2, <2>4, <2>5, <2>6, <2>8, <3>1, <3>2 DEF StartInv, Active
  <2>10. UpdateInv'
    BY <2>2 DEF UpdateInv
  <2>11. \A q \in Request : q # r => service'[q] = None
    BY <1>0, <2>1, DeskAssumption DEF Inv, IdleInv, TypeOK, Takes, OpsFree
  <2>12. IdleInv'
    BY <2>2, <2>11 DEF IdleInv
  <2> QED
    BY <2>1, <2>7, <2>9, <2>10, <2>12 DEF Inv, ActiveIsSaved, TunnelsUsed, Active
<1> QED
  BY <1>1, <1>2

\* A request that leaves without a change keeps the invariant.
LEMMA GivesUp ==
    ASSUME Inv, NEW r \in Request, pc[r] # "idle", Leaves(r),
           UNCHANGED <<storeVars, managerVars>>
    PROVE  Inv'
<1> USE DEF storeVars, managerVars
<1>1. /\ saved' \in Settings /\ Validate(saved') /\ TunnelsUsed(saved')
      /\ closed' \in BOOLEAN
      /\ status' \in [TunnelId -> ActiveState \cup {"absent", "stopped", "error"}]
      /\ config' \in [TunnelId -> TunnelRec \cup {None}]
      /\ \A t \in TunnelId : Active(t)' => saved'[t] # None
      /\ used' = used
  BY DEF Inv, TypeOK, ActiveIsSaved, Active
<1> QED
  BY <1>1, LeavesInv

\* A request that goes on has the settings it relies on registered.
LEMMA GoesOn ==
    ASSUME Inv, NEW r \in Request, pc[r] \in {"start", "connect", "ready"},
           NEW step \in {"connect", "ready", "open"},
           pc' = [pc EXCEPT ![r] = step], UNCHANGED <<saved, used, closed>>,
           UNCHANGED <<ops, new, tunnel, service, url>>,
           status' \in [TunnelId -> ActiveState \cup {"absent", "stopped", "error"}],
           config' \in [TunnelId -> TunnelRec \cup {None}],
           config'[tunnel[r].id] = tunnel[r].rec,
           step \in {"ready", "open"} => service[r] # None,
           \A t \in TunnelId : Active(t)' => Active(t) \/ t = tunnel[r].id
    PROVE  Inv'
<1>1. TypeOK /\ ops = r /\ \A q \in Request : q # r => pc[q] = "idle"
  BY DEF Inv, TypeOK
<1>2. \A q \in Request : pc'[q] = IF q = r THEN step ELSE "idle"
  BY <1>1 DEF TypeOK
<1>3. /\ tunnel[r] \in TunnelRef /\ saved[tunnel[r].id] = tunnel[r].rec
      /\ service[r] # None =>
            /\ saved[service[r]] # None
            /\ saved[service[r]].port = url[r]
            /\ tunnel[r].rec.port = url[r]
  BY DEF Inv, StartInv
<1>4. TypeOK'
  BY <1>1, <1>2 DEF TypeOK
<1>5. UpdateInv' /\ IdleInv'
  BY <1>1, <1>2 DEF Inv, UpdateInv, IdleInv
<1>6. StartInv'
  BY <1>2, <1>3 DEF StartInv
<1>7. ActiveIsSaved'
  <2>1. tunnel[r].rec # None /\ tunnel[r].id \in TunnelId
    BY <1>3, NotNone DEF TunnelRef
  <2> QED
    BY <1>3, <2>1 DEF Inv, ActiveIsSaved
<1> QED
  BY <1>4, <1>5, <1>6, <1>7 DEF Inv, TunnelsUsed

\* Start has returned nil with the settings registered.
LEMMA StartedInv ==
    ASSUME Inv, NEW r \in Request, pc[r] \in {"start", "connect"}, Started(r),
           UNCHANGED <<storeVars, closed, config>>,
           service[r] # None => config[tunnel[r].id] = tunnel[r].rec,
           status' \in [TunnelId -> ActiveState \cup {"absent", "stopped", "error"}],
           \A t \in TunnelId : Active(t)' => Active(t)
    PROVE  Inv'
<1> USE DEF storeVars
<1>1. CASE service[r] = None
  <2>1. Leaves(r) /\ pc[r] # "idle"
    BY <1>1 DEF Started
  <2>2. /\ saved' \in Settings /\ Validate(saved') /\ TunnelsUsed(saved')
        /\ closed' \in BOOLEAN /\ config' \in [TunnelId -> TunnelRec \cup {None}]
        /\ \A t \in TunnelId : Active(t)' => saved'[t] # None
        /\ used' = used
    BY DEF Inv, TypeOK, ActiveIsSaved
  <2> QED
    BY <2>1, <2>2, LeavesInv
<1>2. CASE service[r] # None
  <2>1. pc' = [pc EXCEPT ![r] = "ready"] /\ UNCHANGED <<ops, new, tunnel, service, url>>
    BY <1>2 DEF Started
  <2>2. config' \in [TunnelId -> TunnelRec \cup {None}]
        /\ config'[tunnel[r].id] = tunnel[r].rec
    BY <1>2 DEF Inv, TypeOK
  <2> QED
    BY <1>2, <2>1, <2>2, GoesOn
<1> QED
  BY <1>1, <1>2

\* What a request does with ops keeps the invariant.
LEMMA ProceedsInv ==
    ASSUME Inv, NEW r \in Request, Proceeds(r)
    PROVE  Inv'
<1> USE DEF storeVars, managerVars
<1>0. /\ TypeOK
      /\ status \in [TunnelId -> ActiveState \cup {"absent", "stopped", "error"}]
      /\ config \in [TunnelId -> TunnelRec \cup {None}]
  BY DEF Inv, TypeOK
<1>1. CASE Commits(r)
  BY <1>1, CommitsInv
<1>2. CASE StartRunning(r)
  <2>1. /\ pc[r] = "start" /\ status[tunnel[r].id] = "running" /\ Started(r)
        /\ UNCHANGED <<storeVars, managerVars>>
    BY <1>2 DEF StartRunning
  <2>2. service[r] # None => config[tunnel[r].id] = tunnel[r].rec
    BY <2>1 DEF Inv, StartInv, Active, ActiveState
  <2> QED
    BY <1>0, <2>1, <2>2, StartedInv DEF Active
<1>3. CASE \/ CommitFails(r) \/ StartRefused(r) \/ StartCancelled(r) \/ ReadyFails(r)
           \/ OpenURL(r)
  <2>1. pc[r] # "idle" /\ Leaves(r) /\ UNCHANGED <<storeVars, managerVars>>
    BY <1>3 DEF CommitFails, StartRefused, StartCancelled, ReadyFails, OpenURL
  <2> QED
    BY <2>1, GivesUp
<1>4. CASE StartBinds(r)
  <2> DEFINE t == tunnel[r].id
  <2>1. pc[r] = "start" /\ tunnel[r] \in TunnelRef
    BY <1>4 DEF StartBinds, Inv, StartInv
  <2>2. t \in TunnelId /\ tunnel[r].rec \in TunnelRec
    BY <2>1 DEF TunnelRef
  <2>3. /\ pc' = [pc EXCEPT ![r] = "connect"]
        /\ config' = [config EXCEPT ![t] = tunnel[r].rec]
        /\ UNCHANGED <<storeVars, closed, ops, new, tunnel, service, url>>
        /\ status' = [status EXCEPT ![t] = "connecting"]
           \/ status' = [status EXCEPT ![t] = "error"]
    BY <1>4 DEF StartBinds, Manager!Start, Manager!Become
  <2>4. /\ config' \in [TunnelId -> TunnelRec \cup {None}]
        /\ config'[t] = tunnel[r].rec
        /\ status' \in [TunnelId -> ActiveState \cup {"absent", "stopped", "error"}]
        /\ \A u \in TunnelId : u # t => status'[u] = status[u]
    BY <1>0, <2>2, <2>3 DEF ActiveState, Busy
  <2> QED
    BY <2>1, <2>3, <2>4, GoesOn DEF Active
<1>5. CASE StartBindFails(r) \/ StartFails(r)
  <2> DEFINE t == tunnel[r].id
  <2>1. pc[r] \in {"start", "connect"} /\ Leaves(r)
    BY <1>5 DEF StartBindFails, StartFails
  <2>2. /\ UNCHANGED <<storeVars, closed>>
        /\ config' = config \/ config' = [config EXCEPT ![t] = None]
    BY <1>5 DEF StartBindFails, StartFails, Manager!Start, Manager!Failed, Manager!Become
  <2>3. t \in TunnelId
    BY <2>1 DEF Inv, StartInv, TunnelRef
  <2>4. status' = [status EXCEPT ![t] = "error"]
    <3>1. CASE StartFails(r)
      BY <3>1 DEF StartFails, Manager!Failed, Manager!Become
    <3>2. CASE StartBindFails(r)
      <4>1. /\ status' = [status EXCEPT ![t] = "connecting"]
               \/ status' = [status EXCEPT ![t] = "error"]
            /\ status'[t] = "error"
        BY <3>2 DEF StartBindFails, Manager!Start, Manager!Become
      <4> QED
        BY <1>0, <2>3, <4>1
    <3> QED
      BY <1>5, <3>1, <3>2
  <2>5. /\ status' \in [TunnelId -> ActiveState \cup {"absent", "stopped", "error"}]
        /\ \A u \in TunnelId : Active(u)' => Active(u)
    BY <1>0, <2>3, <2>4 DEF Active, ActiveState, Busy
  <2>6. /\ saved' \in Settings /\ Validate(saved') /\ TunnelsUsed(saved')
        /\ closed' \in BOOLEAN /\ config' \in [TunnelId -> TunnelRec \cup {None}]
        /\ \A u \in TunnelId : Active(u)' => saved'[u] # None
        /\ used' = used
    BY <2>2, <2>5 DEF Inv, TypeOK, ActiveIsSaved
  <2> QED
    BY <2>1, <2>5, <2>6, LeavesInv
<1>6. CASE StartConnects(r)
  <2> DEFINE t == tunnel[r].id
  <2>1. /\ pc[r] = "connect" /\ Started(r) /\ UNCHANGED <<storeVars, closed, config>>
        /\ status[t] = "connecting" /\ status' = [status EXCEPT ![t] = "running"]
    BY <1>6 DEF StartConnects, Manager!Connected, Manager!Become
  <2>2. t \in TunnelId /\ config[t] = tunnel[r].rec
    BY <2>1 DEF Inv, StartInv, TunnelRef
  <2>3. /\ status' \in [TunnelId -> ActiveState \cup {"absent", "stopped", "error"}]
        /\ \A u \in TunnelId : Active(u)' => Active(u)
    BY <1>0, <2>1, <2>2 DEF Active, ActiveState, Busy
  <2> QED
    BY <2>1, <2>2, <2>3, StartedInv
<1>7. CASE ReadyOK(r)
  <2>1. /\ pc[r] = "ready" /\ pc' = [pc EXCEPT ![r] = "open"]
        /\ UNCHANGED <<saved, used, closed, status, config>>
        /\ UNCHANGED <<ops, new, tunnel, service, url>>
    BY <1>7 DEF ReadyOK
  <2>2. config[tunnel[r].id] = tunnel[r].rec /\ service[r] # None
    BY <2>1 DEF Inv, StartInv
  <2> QED
    BY <1>0, <2>1, <2>2, GoesOn DEF Active
<1> QED
  BY <1>1, <1>2, <1>3, <1>4, <1>5, <1>6, <1>7 DEF Proceeds

\* So do a stop, the monitor of a tunnel, and Close.
LEMMA OutsideInv ==
    ASSUME Inv, Close \/ \E t \in TunnelId : Stop(t) \/ Monitor(t)
    PROVE  Inv'
<1>0. /\ TypeOK /\ closed \in BOOLEAN
      /\ status \in [TunnelId -> ActiveState \cup {"absent", "stopped", "error"}]
  BY DEF Inv, TypeOK
<1>1. CASE Close
  <2>1. /\ UNCHANGED <<storeVars, config, requestVars>> /\ closed' = TRUE
        /\ status' = status
    BY <1>1 DEF Close, Manager!Close
  <2> QED
    BY <1>0, <2>1, ManagerInv DEF Active
<1>2. ASSUME NEW t \in TunnelId, Stop(t)
      PROVE  Inv'
  <2>1. /\ UNCHANGED <<storeVars, config, requestVars>> /\ closed' = closed
        /\ status' = [status EXCEPT ![t] = "stopped"]
    BY <1>2 DEF Stop, Manager!Stopped, Manager!Become
  <2>2. /\ status' \in [TunnelId -> ActiveState \cup {"absent", "stopped", "error"}]
        /\ \A u \in TunnelId : Active(u)' => Active(u)
    BY <1>0, <2>1 DEF Active, ActiveState, Busy
  <2> QED
    BY <1>0, <2>1, <2>2, ManagerInv
<1>3. ASSUME NEW t \in TunnelId, Monitor(t)
      PROVE  Inv'
  <2>1. /\ UNCHANGED <<storeVars, config, requestVars>> /\ closed' = closed
        /\ status[t] \in ActiveState
        /\ \E s \in {"reconnecting", "running", "error"} :
              status' = [status EXCEPT ![t] = s]
    BY <1>3 DEF Monitor, Manager!Lost, Manager!Recovered, Manager!Failed, Manager!Become,
       ActiveState, Busy
  <2>2. /\ status' \in [TunnelId -> ActiveState \cup {"absent", "stopped", "error"}]
        /\ \A u \in TunnelId : Active(u)' => Active(u)
    BY <1>0, <2>1 DEF Active, ActiveState, Busy
  <2> QED
    BY <1>0, <2>1, <2>2, ManagerInv
<1> QED
  BY <1>1, <1>2, <1>3

----------------------------------------------------------------------------
(* The theorems.                                                           *)

\* At first nothing runs and nobody asks for anything.
LEMMA InvInit == Init => Inv
<1> SUFFICES ASSUME Init PROVE Inv
  OBVIOUS
<1> USE DeskAssumption
<1>1. /\ saved \in Settings /\ Validate(saved) /\ used = Present(saved)
      /\ used \subseteq Item
  BY DEF Init, Present
<1>2. closed = FALSE /\ status = [t \in TunnelId |-> "absent"]
  BY DEF Init, Manager!Init, Manager!Absent
<1>3. /\ closed \in BOOLEAN
      /\ status \in [TunnelId -> ActiveState \cup {"absent", "stopped", "error"}]
  BY <1>2
<1>4. \A t \in TunnelId : ~Active(t)
  BY <1>2 DEF Active, ActiveState, Busy
<1>5. TypeOK
  BY <1>1, <1>3, EmptySettings DEF Init, TypeOK
<1>6. TunnelsUsed(saved)
  BY <1>1 DEF TunnelsUsed, Present, Item
<1>7. IdleInv /\ UpdateInv /\ StartInv
  BY DEF Init, IdleInv, UpdateInv, StartInv
<1> QED
  BY <1>1, <1>4, <1>5, <1>6, <1>7 DEF Inv, ActiveIsSaved

\* Every step keeps the invariant.
LEMMA InvInductive ==
    ASSUME Inv, [Next]_vars
    PROVE  Inv'
<1>1. ASSUME NEW r \in Request, Update(r)
      PROVE  Inv'
  <2>1. used \subseteq Item
    BY DEF Inv, TypeOK
  <2>2. CASE SaveTunnel(r)
    BY <2>2, SaveTunnelHarmless, ComputesInv DEF SaveTunnel
  <2>3. CASE SaveService(r)
    BY <2>3, SaveServiceHarmless, ComputesInv DEF SaveService
  <2>4. CASE Delete(r)
    BY <2>1, <2>4, DeleteHarmless, ComputesInv DEF Delete
  <2>5. CASE ImportBackup(r)
    BY <2>5, ImportHarmless, ComputesInv DEF ImportBackup
  <2>6. CASE Sync(r)
    BY <2>6, SyncHarmless, ComputesInv DEF Sync
  <2> QED
    BY <1>1, <2>2, <2>3, <2>4, <2>5, <2>6 DEF Update
<1>2. ASSUME NEW r \in Request, \/ AwaitsBody(r) \/ BodyFails(r)
                                 \/ StartTunnel(r) \/ OpenService(r)
      PROVE  Inv'
  <2>1. CASE BodyFails(r)
    BY <2>1, GivesUp DEF BodyFails
  <2> QED
    BY <1>2, <2>1, ReadsInv, AwaitsInv
<1>3. ASSUME NEW r \in Request, Proceeds(r)
      PROVE  Inv'
  BY <1>3, ProceedsInv
<1>4. CASE Close \/ \E t \in TunnelId : Stop(t) \/ Monitor(t)
  BY <1>4, OutsideInv
<1>5. CASE UNCHANGED vars
  BY <1>5 DEF vars, storeVars, managerVars, requestVars, Inv, TypeOK, IdleInv, TunnelsUsed,
     ActiveIsSaved, UpdateInv, StartInv, Active
<1> QED
  BY <1>1, <1>2, <1>3, <1>4, <1>5 DEF Next

\* What holds in every state.
LEMMA Invariance == Spec => []Inv
  BY InvInit, InvInductive, PTL DEF Spec

(***************************************************************************)
(* Every variable keeps its type, and exactly the holder of ops is in the  *)
(* middle of a request (the handlers' deferred unlock).                    *)
(***************************************************************************)
THEOREM TypeCorrect == Spec => []TypeOK
<1>1. Inv => TypeOK
  BY DEF Inv
<1> QED
  BY <1>1, Invariance, PTL

(***************************************************************************)
(* An active tunnel is in the database (delete, tunnelAction, ApplyFeed).  *)
(***************************************************************************)
THEOREM ActiveInDatabase == Spec => []ActiveIsSaved
<1>1. Inv => ActiveIsSaved
  BY DEF Inv
<1> QED
  BY <1>1, Invariance, PTL

(***************************************************************************)
(* openService opens the saved URL of the service, on the port with which  *)
(* the tunnel is registered (openService, ConfigChanged).                  *)
(***************************************************************************)
THEOREM OpensRight == Spec => []OpensRegisteredPort
<1>1. Inv => OpensRegisteredPort
  BY DEF Inv, StartInv, OpensRegisteredPort
<1> QED
  BY <1>1, Invariance, PTL

(***************************************************************************)
(* Only a sync changes what is saved of an active tunnel (save, delete,    *)
(* importBackup).                                                          *)
(***************************************************************************)
THEOREM SyncAloneEdits == Spec => OnlySyncEditsActive
<1> DEFINE Kept == \A t \in TunnelId : Active(t) /\ saved'[t] # saved[t] =>
                      \E r \in Request : pc[r] = "sync" /\ Commits(r)
<1>1. ASSUME Inv, Next PROVE Kept
  <2> USE DEF storeVars, managerVars, requestVars
  <2>1. ASSUME NEW r \in Request, Commits(r)
        PROVE  Kept
    BY <1>1, <2>1 DEF Inv, UpdateInv, Commits
  <2>2. ASSUME NEW r \in Request, Update(r)
        PROVE  saved' = saved
    BY <2>2 DEF Update, SaveTunnel, SaveService, Delete, ImportBackup, Sync, Computes
  <2>3. ASSUME NEW r \in Request, \/ AwaitsBody(r) \/ BodyFails(r)
                                   \/ StartTunnel(r) \/ OpenService(r)
        PROVE  saved' = saved
    BY <2>3 DEF AwaitsBody, BodyFails, StartTunnel, OpenService
  <2>4. ASSUME NEW r \in Request, Proceeds(r), ~Commits(r)
        PROVE  saved' = saved
    BY <2>4 DEF Proceeds, CommitFails, StartRunning, StartRefused, StartBinds, StartBindFails,
       StartConnects, StartFails, StartCancelled, ReadyOK, ReadyFails, OpenURL
  <2>5. CASE Close \/ \E t \in TunnelId : Stop(t) \/ Monitor(t)
    BY <2>5 DEF Close, Stop, Monitor
  <2> QED
    BY <1>1, <2>1, <2>2, <2>3, <2>4, <2>5 DEF Next
<1>2. ASSUME Inv, [Next]_vars PROVE [Kept]_vars
  BY <1>1, <1>2
<1> QED
  BY <1>2, Invariance, PTL DEF Spec, OnlySyncEditsActive
=============================================================================
